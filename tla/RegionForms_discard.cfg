SPECIFICATION Spec
CONSTANTS
    Region = {r1}
    Text = {a, b, huge}
    Refused = {huge}
    MaxCalls = 2
    None = None
INVARIANT LeaveAsks
CHECK_DEADLOCK FALSE
