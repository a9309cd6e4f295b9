SPECIFICATION MCSpec
CONSTANTS
    Connections = {"c1", "c2"}
    Names = {"/a"}
    Matchers <- MCMatchers
    Attachments = {1, 2}
    MaxTasks = 5
    Workloads <- MCWorkloads
    Implemented = {"setup_connect_timer", "clear_connect_timer"}
    n1 = n1
    n2 = n2
    a = a
    b = b
    r = r
    NspNames = {n1, n2}
    Sockets = {a, b}
    ExtraRooms = {r}
    Dynamic = Dynamic
    Calls <- MCCalls
    Emitters = {e1}
    Subscribers = {u1}
    EventCap = 1
INVARIANTS
    TypeOK
    AssembledOnce
    LiveSocketsRoutable
    CloseForgets
    JoinedUnlessReplaced
    Adopted
    ConnectAnswered
    NspTypeOK
    AnnouncedIsReachable
    OkReachesAudience
    OnlyAudience
