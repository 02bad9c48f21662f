SPECIFICATION MCSpec
CONSTANTS
    TreeNames = {t1, t2}
    PersonIds = {c1, c2}
    ProxyIds = {p1, p2, p3}
    EventIds = {}
    ProposalIds = {m1}
    Users = {alice}
    Teams = {}
    Certs = {}
    Dates = {}
    Rels = {}
    EmptyCountIsZero = TRUE
    TeamOwners <- NoTeamOwner
    TreeLimit <- NoLimit
    MemberLimit <- NoLimit
    NoAuth = NoAuth
    Admin = Admin
    Unlimited = Unlimited
    Nobody = Nobody
    NoTeam = NoTeam
    NoCert = NoCert
    NoDate = NoDate
    Absent = Absent
    Owner = alice
SYMMETRY TreeSymmetry
PROPERTIES SweepsUnusedCanonicals
CHECK_DEADLOCK FALSE
