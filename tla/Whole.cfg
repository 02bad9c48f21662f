SPECIFICATION Spec
CONSTANTS
    TreeNames = {t1, t2}
    PersonIds = {c1, c2}
    ProxyIds = {p1, p2}
    EventIds = {e1}
    ProposalIds = {m1}
    Users = {alice}
    Teams = {g1}
    Certs = {}
    Dates = {}
    Rels = {}
    EmptyCountIsZero = TRUE
    TeamOwners <- EveryTeamOwner
    TreeLimit <- NoLimit
    MemberLimit <- NoLimit
    NoAuth = NoAuth
    Admin = Admin
    Unlimited = Unlimited
    Nobody = Nobody
    NoTeam = NoTeam
    NoCert = NoCert
    NoDate = NoDate
    Absent = Absent
SYMMETRY IdSymmetry
INVARIANTS EventTreeMatches
PROPERTIES OneTreePerStep EventsKept
CHECK_DEADLOCK FALSE
