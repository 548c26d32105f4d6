SPECIFICATION FairSpec
CONSTANTS
    Versions = {0, 1, 2, 3}
    None = None
    Blank = Blank
    Absent = Absent
    Appliers = {"apply", "timer"}
    Bootable = {0, 1, 2}
    Healthy = {0, 1}
    MaxOps = 2
INVARIANTS WindowLaw SlotAgreement UpdateKeepsPointerWhole
PROPERTIES TrialSpec PendingResolves UpdateNeverStrands
CHECK_DEADLOCK FALSE
