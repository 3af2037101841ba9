SPECIFICATION FairSpec
CONSTANTS
    Kinds = {"Mock", "Reconnectable", "Socket"}
    Calls = {k1, k2}
    Frames <- SomeFrames
    Raw = {"utf8"}
    MaxConnects = 2
    MaxFrames = 2
    MaxDrops = 2
INVARIANTS EndMeansDrained NoSharedConnection AcceptOrder
PROPERTIES ImplementsStreams DropIsSeen
CHECK_DEADLOCK FALSE
