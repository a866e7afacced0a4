CONSTANTS
    r1 = r1
    w1 = w1
    Requests = {r1}
    Tokens = {1}
    Limits = {1, 3}
    Watchers = {w1}
    EventBuffer = 2
    MaxEvents = 5
SPECIFICATION ServerSpec
CHECK_DEADLOCK FALSE
INVARIANTS
    ServerTypeOK
    StreamsEndOnce
    LatestEventsArrive
    EndedMeansUnknown
PROPERTIES
    HandlersEnd
    LeaversUnsubscribe
