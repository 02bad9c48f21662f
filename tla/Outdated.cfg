SPECIFICATION MCSpec
CONSTANTS
    TreeNames = {t1, t2, t3}
    PersonIds = {c1, c2}
    ProxyIds = {p1, p2, p3}
    EventIds = {}
    ProposalIds = {m1, m2}
    Users = {alice}
    Teams = {}
    Certs = {}
    Dates = {}
    Rels = {}
    EmptyCountIsZero = FALSE
    TeamOwners <- NoTeamOwner
    TreeLimit <- NoLimit
    MemberLimit <- NoLimit
    NoAuth = NoAuth
    Admin = Admin
    Unlimited = Unlimited
    Nobody = Nobody
    NoTeam = NoTeam
    NoCert = NoCert
    NoDate = NoDate
    Absent = Absent
    Owner = alice
SYMMETRY TreeSymmetry
PROPERTIES WinnerSurvives
CHECK_DEADLOCK FALSE
