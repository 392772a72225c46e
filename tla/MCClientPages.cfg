SPECIFICATION TurnsSpec
CONSTANTS
    Self = "alex"
    Emojis = {}
    NoReaction = NoReaction
    Participants = {"alice"}
    Position <- MCPosition
    Listeners = {"alice"}
    Matching = {"alice"}
    NoPerson = NoPerson
    MaxMine = 1
    MaxReacted = 1
    People = {"alex", "alice"}
    Friends = {"alice"}
    Hosts = {}
    SeedLikes <- MCNoMessages
    MaxSaid = 1
    MaxMarked = 0
    RoomSpeakers <- MCRoomSpeakers
    RoomListeners = {}
    SeedRequests = {"carol"}
    Speaking = {}
    NoOne = NoOne
    Rooms <- MCRooms
    Status <- MCStatus
    Topic <- MCTopic
    AgendaSeed <- MCAgendaSeed
    SeedKind <- MCSeedKind
    SeedOwn = {"r0"}
    SeedScheduled = {}
    TopicTags = {}
    Found = {}
    NoRoom = NoRoom
    Tests = {t1}
    Mics = {m1}
    First <- MCFirst
    NoTest = NoTest
    NoMic = NoMic
    Unnamed = Unnamed
    InvitableFriends = {"dianne"}
    PeopleInRoom = {"alice"}
    InviteMatching = {}
    StartDuration <- MCStart
    MaxSeconds = 1
    MaxTurns = 5
    FirstInRoom = "alice"
PROPERTY
    PartsImplemented
CHECK_DEADLOCK FALSE
