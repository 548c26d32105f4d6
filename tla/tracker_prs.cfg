SPECIFICATION Spec
CONSTANTS
    Stable = {"hermes"}
    Beta = {"openclaw"}
    History <- SampleHistory
    MaxExtra = 1
    MaxUpsets = 1
PROPERTIES PinTrackSpec
CHECK_DEADLOCK FALSE
