CONSTANTS
    Key <- MCKey
    Copies = {1, 2}
    Hash <- MCHash
    StartSize = 2
    MaxSize = 8
    Null = Null
SPECIFICATION Spec
INVARIANTS TypeOK WalksEnd RobinHood
PROPERTY IsDictionary
