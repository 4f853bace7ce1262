-------------------------------- MODULE MCSpp --------------------------------
(* An instance of Spp for TLC: one slot for each kind of address, a phone   *)
(* that asks for two servers, and its packets, which arrive in copies on    *)
(* two processors.                                                          *)
EXTENDS Spp, TLC

CONSTANTS p1, s1, s2, cpu1, cpu2

Request(p, ss, on) == [phone |-> p, servers |-> ss, trim |-> on]

MCPhones == {p1}
MCServers == {s1, s2}
MCRequests == {Request(p1, {s1, s2}, TRUE), Request(p1, {}, FALSE)}
MCPackets == {[from |-> p1, to |-> s1]}
MCCpus == {cpu1, cpu2}
MCSymmetry == Permutations(MCCpus)
=============================================================================
