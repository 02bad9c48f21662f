SPECIFICATION MCSpec
CONSTANTS
    Parts = {"plan", "contact", "chat", "lock", "search", "migrate", "start"}
    TreeNames = {t1, t2, t3}
    PersonIds = {c1, c2}
    ProxyIds = {p1, p2}
    PlanProxies = {p1}
    EventIds = {}
    ProposalIds = {}
    Users = {alice, bob}
    Teams = {}
    Certs = {}
    Dates = {}
    Rels = {}
    EmptyCountIsZero = TRUE
    TeamOwners <- NoTeamOwner
    TreeLimit <- LimitTwo
    MemberLimit <- LimitOne
    NoAuth = NoAuth
    Admin = Admin
    Unlimited = Unlimited
    Nobody = Nobody
    NoTeam = NoTeam
    NoCert = NoCert
    NoDate = NoDate
    Absent = Absent
    t1 = t1
    c1 = c1
    c2 = c2
    p1 = p1
    alice = alice
    ContactIds = {k1, k2}
    MaxRecipients = 2
    MaxMessages = 1
    SessionIds = {s1, s2}
    MessageIds = {m1, m2, m3}
    AiUsers = {alice}
    Settings = {v1}
    NoSession = NoSession
    NoSettings = NoSettings
    Requests = {r1, r2, r3}
    Kinds = {"plain", "view", "note", "folder", "upload"}
    Idle = Idle
    BothNames = {EmptyName, Named}
    EmptyName = EmptyName
    Births <- MCBirths
    Places <- MCPlaces
    Gap = Gap
    NoText = NoText
    dub = dub
    lin = lin
    co = co
    n1 = n1
    n2 = n2
    n3 = n3
    v1 = v1
    OldPersons = {n1, n2, n3}
    TreesOf <- MCTreesOf
    OldEdges <- MCOldEdges
    OldEvents = {v1}
    EventPerson <- MCEventPerson
    Unset = Unset
    SeedProxies = {1, 2, 3}
    SeedKinds <- MCSeedKinds
    MaxEvents = 2
    MaxRows = 3
INVARIANTS AtMostOnePrimary PlanLimitsHold HeldInSections ContactTypeOK OnePendingContact TalkNeedsConsent MessagesReachable RestAndToolAgree DuplicatesAreMutual CleanRunCompletes StopsHarmless NoSeedDoubles
PROPERTIES DecidedContactIsFinal ConnectionGranted SeedComplete
CHECK_DEADLOCK FALSE
