CONSTANTS
    MaxOffloads = 1
    MaxLosses = 1
    Refusals = {"enable"}
    MayUnplug = FALSE
SPECIFICATION Spec
INVARIANT ConfirmedIsTrue
CHECK_DEADLOCK FALSE
