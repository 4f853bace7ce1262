------------------------------ MODULE MCServer ------------------------------
(* An instance of Server for TLC: one phone opens the diagnosis, another    *)
(* ends it with requests that are cut short.                                *)
EXTENDS Server

CONSTANTS p1, p2, sock

Datagram(p, t, m) == [from |-> p, to |-> sock, type |-> t, missing |-> m]

MCPhones == {p1, p2}
MCPatient == {p1}
MCSocks == {sock}
MCDatagrams ==
    {Datagram(p1, "OPEN_INFO", 0), Datagram(p1, "UNDEF", 1),
     Datagram(p2, "END_INFO", 2), Datagram(p2, "END_INFO", 3)}
=============================================================================
