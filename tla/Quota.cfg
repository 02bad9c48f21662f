SPECIFICATION MCSpec
CONSTANTS
    Parts = {"media"}
    n1 = n1
    n2 = n2
    f1 = f1
    f2 = f2
    tf1 = tf1
    tf2 = tf2
    d1 = d1
    teamA = teamA
    Unfiled = Unfiled
    NoteIds = {n1, n2}
    TackFolderIds = {tf1, tf2}
    Teams = {teamA}
    Names = {Unfiled}
    None = None
    MaxRequests = 3
    FolderIds = {f1, f2}
    Descriptions = {d1}
    MaxActive = 2
    p1 = p1
    p2 = p2
    t1 = t1
    alice = alice
    aliceName = aliceName
    Proxies = {p1, p2}
    AvatarTrees = {t1}
    Slots <- MCSlots
    Types = {"jpg", "gif"}
    Identities = {alice, aliceName}
    FirstCreator <- ByName
    NewCreators = {}
    Uploaders = {alice}
    UserId <- MCUserId
    UserName <- MCUserName
    StorageLimit <- MCLimit
    Sizes = {1, 2}
    MaxUploads = 3
    MaxUploading = 1
    NoExt = NoExt
    NoRow = NoRow
INVARIANTS OwnMediaWithinPlan
CHECK_DEADLOCK FALSE
