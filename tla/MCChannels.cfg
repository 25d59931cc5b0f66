SPECIFICATION MCSpec
CONSTANTS
    Components = {"array", "wake", "list", "zero", "timer"}
    Senders = {s1, s2}
    Receivers = {r1, r2}
    ListReceivers = {q1}
    Cap = 1
    Modes = {"try", "block", "timed"}
    MaxSends = 1
    ListSends = 2
    BlockCap = 1
    Chans = {p, q}
    SelectScripts <- AllScripts
    t1 = t1
    t2 = t2
    t3 = t3
    When = 2
    Duration = 2
    MaxTime = 5
SYMMETRY Symmetry
CONSTRAINT ArrayBound
INVARIANTS
    SlotExclusive
    RegisteredWhileWaiting
    FreedAtTheEnd
    NoLostWakeup
    FreedOnce
    ListWakes
    EachMessageOnce
PROPERTY ChannelsImplemented
