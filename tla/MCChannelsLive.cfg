SPECIFICATION MCLiveSpec
CONSTANTS
    Components = {"array", "list", "zero"}
    Senders = {s1}
    Receivers = {r1}
    ListReceivers = {r1}
    Cap = 2
    Modes = {"try", "block"}
    MaxSends = 3
    ListSends = 2
    BlockCap = 1
    Chans = {p, q}
    SelectScripts <- SmallScripts
    t1 = t1
    t2 = t2
    t3 = t3
    When = 2
    Duration = 2
    MaxTime = 5
PROPERTIES
    ChannelsImplemented
    CallsReturn
