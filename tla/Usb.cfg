SPECIFICATION Spec
CONSTANTS
    Ports = 2
    MaxHid = 2
    EventRing = 3
    CommandRing = 2
    TransferRing = 4
    Pages = 2
    MaxReports = 2
    MaxTimeouts = 1
INVARIANTS CommandResultOwn TransferResultOwn EachEventOnce StaysArmed FreedBuffersIdle
