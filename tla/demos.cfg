SPECIFICATION DemoSpec
CONSTANTS
    Greetings = 3
    Window = 2
    Backends = {b1, b2}
    Requests = 3
    Streams = 3
CHECK_DEADLOCK FALSE
INVARIANTS
    EOFMeansAll
    OneLateSend
    HitsAreReal
PROPERTIES
    BothEnd
