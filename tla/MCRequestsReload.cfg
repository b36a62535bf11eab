SPECIFICATION Spec
CONSTANTS
    Names = {"w1"}
    MaxUid = 2
    None = None
INVARIANT ReloadsWhileUnstable
