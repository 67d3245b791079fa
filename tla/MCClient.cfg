\* Two lines typed after the name; one server line in flight.
CONSTANTS
    Line = {"", "hi", "#exit"}
    UserName = {"", "alice"}
    ExitCmd = "#exit"
    Anonymous = "Anonymous"
    MaxInputs = 2
    MaxReplies = 1
SPECIFICATION Spec
CHECK_DEADLOCK FALSE
INVARIANT TypeOK
PROPERTY ClientTerminates
PROPERTY NoticeMeansServerClosed
