SPECIFICATION Spec
CONSTANTS
    p1 = p1
    s1 = s1
    s2 = s2
    cpu1 = cpu1
    cpu2 = cpu2
    Phones <- MCPhones
    Servers <- MCServers
    Requests <- MCRequests
    CLI_MAX = 1
    Cpus <- MCCpus
    Packets <- MCPackets
    Width = 3
    FirstTrim = 1
    PERIOD = 2
    MaxLate = 1
SYMMETRY MCSymmetry
INVARIANTS TypeOK 
PROPERTIES  FirstCopyPasses
