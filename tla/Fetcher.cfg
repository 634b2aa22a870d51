SPECIFICATION Spec
CONSTANTS
    g = g  b1 = b1  b2 = b2  x1 = x1  p = p  q = q  None = None
    Blocks = {g, b1, b2, x1}
    Genesis = g
    Parent <- MCParent
    Number <- MCNumber
    Difficulty <- MCDifficulty
    MaxNumber = 2
    Peers = {p, q}
    Body <- MCBody
    EmptyBody = "empty"
    Verdict <- MCVerdict
    Sound = {b1, b2}
    Announcements <- MCAnnouncements
    Injections <- MCInjections
    HeaderBatches <- MCHeaderBatches
    BodyBatches <- MCBodyBatches
    Faulty = {q}
    MaxNotify = 2
    HashLimit = 2
    BlockLimit = 1
    MaxUncleDist = 1
    MaxQueueDist = 2
INVARIANTS StagesExact HonestKept
CHECK_DEADLOCK FALSE
