CONSTANTS
    s = s
    c = c
    r1 = r1
    r2 = r2
    r3 = r3
    Server = s
    Client = {c}
    Receiver = {r1, r2, r3}
    EndOf <- MCEndOf
    Size = {2}
    Length = {0, 3}
    QueueSize = 2
    PipeSize = 3
    Null = Null
SPECIFICATION Spec
INVARIANTS ResultsDocumented
PROPERTIES ReceiveReturns WriteWakes DatagramsAreTaken
