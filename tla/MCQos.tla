-------------------------------- MODULE MCQos --------------------------------
(* Instances of Qos for TLC: two phones, one or two other devices.          *)
EXTENDS Qos

CONSTANTS p1, p2, g1, g2, u1, u2

MCCips == {p1, p2}
OnePhone == {p1}
OneUser == {[en |-> 2, list |-> u1]}
TwoUsers == {[en |-> 0, list |-> u1], [en |-> 2, list |-> u2]}

\* A guest is always leased.
WithGuests == {{p1, p2, g1}, {p1, g1, g2}}
\* The phones may be the only devices on the network.
AnyLeases == {{p1}, {p1, p2, g1}}

\* A device leaves and comes back, so that a list only loses an entry.
OneLeaves == {{p1, p2, g1}, {p1, g1}}
=============================================================================
