SPECIFICATION Spec
INVARIANT TokensAreLongest
INVARIANT ConfigsSurviveAFile
INVARIANT OneOfEqualFlagsStays
INVARIANT BitsComeBack
INVARIANT TextsAreUtf8
INVARIANT TreeIsAsAnswered
INVARIANT SearchTreesHold
INVARIANT GridsAreFilled
INVARIANT WordsAreTakenApart
INVARIANT FailuresHoldNothing
CHECK_DEADLOCK FALSE
