SPECIFICATION FairSpec
CONSTANTS
    p1 = p1
    p2 = p2
    sock = sock
    NoRequest = NoRequest
    Phones <- MCPhones
    Patient <- MCPatient
    Socks <- MCSocks
    Datagrams <- MCDatagrams
    SIZE_DIAG = 3
    PERIOD = 2
    MaxAge = 5
    MaxLate = 1
    SockMax = 2
    MaxLoops = 2
INVARIANTS TypeOK LoopWhileEnabled RingInOrder 
PROPERTIES LoopsEnd EveryRequestAnswered
