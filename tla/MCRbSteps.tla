------------------------------ MODULE MCRbSteps ------------------------------
(* An instance of RbSteps for TLC.                                          *)
EXTENDS RbSteps, FiniteSets

CONSTANTS e1, e2, e3, e4, e5, e6, e7, e8, e9, e10, MaxNodes

Malloced == <<e1, e2, e3, e4, e5, e6, e7, e8, e9, e10>>
TenNodes == {Malloced[k] : k \in 1 .. 10}

(* Trees are grown in one order of addresses and cut down in every order,   *)
(* so that the loop of rbtree_delete climbs more than one level: it does so *)
(* from ten nodes on.  The first three nodes take any key, so that nodes are *)
(* inserted on both sides; the others come last.                            *)
GrowNext ==
    \/ LET n == Cardinality(Armed) IN
          /\ n < MaxNodes
          /\ Armed = {Malloced[k] : k \in 1 .. n}
          /\ \E k \in Keys :
                /\ n < 3 \/ \A other \in Keys : other <= k
                /\ Insert(Malloced[n + 1], k)
    \/ Descend \/ InsertTurn \/ InsertDone
    \/ \E x \in Ev : Delete(x)
    \/ Expire \/ MinTurn \/ MinFound
    \/ DeleteTurn \/ DeleteDone

GrowSpec == Init /\ [][GrowNext]_vars
=============================================================================
