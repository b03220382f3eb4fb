SPECIFICATION Spec
CONSTANTS
    Subjects = {"a", "b"}
    Channels = {"a"}
    Queues = {"q1", "q2"}
    MaxConnectors = 3
    IdLength = 2
    Bytes = {0, 1}
    Half <- SmallHalf
    MQValues <- LibraryValues
    ClientValues <- UnsignedAndInt
INVARIANTS
    ReplyLeadsBack
    AnswerIsForwarded
    HeaderSurvives
    PropertiesSurvive
CHECK_DEADLOCK FALSE
