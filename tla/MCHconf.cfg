CONSTANTS
    Module = {"A", "B"}
    Branch = {"x", "y"}
    MaxLines = 5
    Silent = FALSE
SPECIFICATION Spec
INVARIANTS FirstPassingChosen OnlyChosenFlags
CHECK_DEADLOCK FALSE
