CONSTANTS
    Module = {"A", "B"}
    Branch = {"x", "y"}
    MaxLines = 3
    Silent = TRUE
SPECIFICATION Spec
INVARIANTS FirstPassingChosen
CHECK_DEADLOCK FALSE
