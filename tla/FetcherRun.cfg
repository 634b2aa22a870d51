SPECIFICATION RunSpec
CONSTANTS
    g = g  b1 = b1  b2 = b2  x1 = x1  p = p  q = q  None = None
    Blocks = {g, b1, b2}
    Genesis = g
    Parent <- MCParent
    Number <- MCNumber
    Difficulty <- MCDifficulty
    MaxNumber = 2
    Peers = {p}
    Body <- MCBody
    EmptyBody = "empty"
    Verdict <- MCVerdict
    Sound = {b1, b2}
    Announcements <- OneAnnouncements
    Injections <- OneInjections
    HeaderBatches <- OneHeaderBatches
    BodyBatches <- MCBodyBatches
    Faulty = {}
    MaxNotify = 2
    HashLimit = 2
    BlockLimit = 2
    MaxUncleDist = 1
    MaxQueueDist = 2
PROPERTY AnnouncementsServed
PROPERTY ImportsEnd
