SPECIFICATION PartsSpec
SYMMETRY TestSymmetry
CONSTANTS
    Self = "alex"
    Emojis = {"heart"}
    NoReaction = NoReaction
    Participants <- MCParticipants
    Position <- MCPosition
    Listeners <- MCListeners
    Matching <- MCMatching
    NoPerson = NoPerson
    MaxMine = 2
    MaxReacted = 1
    People <- MCPeople
    Friends <- MCFriends
    Hosts <- MCHosts
    SeedLikes <- MCSeedLikes
    MaxSaid = 2
    MaxMarked = 1
    RoomSpeakers <- MCRoomSpeakers
    RoomListeners <- MCRoomListeners
    SeedRequests <- MCSeedRequests
    Speaking <- MCSpeaking
    NoOne = NoOne
    Rooms <- MCRooms
    Status <- MCStatus
    Topic <- MCTopic
    AgendaSeed <- MCAgendaSeed
    SeedKind <- MCSeedKind
    SeedOwn = {"r0"}
    SeedScheduled = {}
    TopicTags <- MCTopicTags
    Found <- MCFound
    NoRoom = NoRoom
    Tests = {t1, t2}
    Mics = {m1, m2}
    First <- MCFirst
    NoTest = NoTest
    NoMic = NoMic
    Unnamed = Unnamed
    InvitableFriends <- MCInvitable
    PeopleInRoom <- MCPeopleInRoom
    InviteMatching <- MCInviteMatching
    StartDuration <- MCStart
    MaxSeconds = 3
    FirstInRoom = "alice"
INVARIANTS
    ChatCoherent
    BadgeCountsUnanswered
    ReactionsAddUp
    StageCoherent
    BoardCoherent
    TestingHasStream
    PageCoherent
PROPERTIES
    RequestsEndOnStage
    AnnouncedUntilTimeout
    StrayOnlyByOverlap
