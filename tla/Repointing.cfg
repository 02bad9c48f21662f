SPECIFICATION MCSpec
CONSTANTS
    Parts = {"kin"}
    TreeNames = {t1, t2}
    PersonIds = {c1, c2, c3, c4}
    ProxyIds = {p1, p2, p3, p4}
    EventIds = {}
    ProposalIds = {}
    Users = {alice}
    Teams = {}
    Certs = {}
    Dates = {d1}
    Rels = {"has_father"}
    EmptyCountIsZero = TRUE
    TeamOwners <- NoTeamOwner
    TreeLimit <- NoLimit
    MemberLimit <- NoLimit
    NoAuth = NoAuth
    Admin = Admin
    Unlimited = Unlimited
    Nobody = Nobody
    NoTeam = NoTeam
    NoCert = NoCert
    NoDate = NoDate
    Absent = Absent
    Owner = alice
    HomeTree = t1
    Stranger = p4
    Reader = p1
    KinProxies = {p1, p2, p3, p4}
    KinRels = {"has_father"}
    ReadProxies = {p1, p2, p3}
    MaxEdges = 9
    MaxChanges = 2
PROPERTIES EdgesRepointed
CHECK_DEADLOCK FALSE
