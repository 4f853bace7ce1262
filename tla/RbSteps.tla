------------------------------- MODULE RbSteps -------------------------------
(***************************************************************************)
(* The functions of src/tserver/rb_tree.c, one step for each turn of their  *)
(* loops.  Timers, whose handlers run to their end, takes a whole insertion *)
(* or deletion for one step (RbTree); here the tree can be seen while the   *)
(* loops are at work on it, which is what a proof about trees of any size   *)
(* needs.  Keys are integers of which no two are too far apart to be        *)
(* compared by their signed difference, as the timers' are.                 *)
(***************************************************************************)
EXTENDS RbLinks

CONSTANTS
    Ev,           \* nodes, as malloc returns them
    Keys          \* keys of the nodes

ASSUME RbStepsAssumption ==
    /\ Sentinel \notin Ev /\ Null \notin Ev
    /\ Keys \subseteq Int
    /\ \A j, k \in Keys : j - k \in -HalfRange .. HalfRange - 1

VARIABLES
    tree,         \* the tree
    job,          \* the loop that runs: "descend" and "insert" of rbtree_insert,
                  \* "min" of rbtree_min and "delete" of rbtree_delete, or "none"
    node, key,    \* what is inserted or deleted; Null while the first is looked for
    at,           \* temp, or node, of the loop that runs
    below,        \* history: the nodes of the tree under each node, itself included,
    height,       \* the black nodes on the ways down from it,
    older         \* and the nodes that were in the tree before it

vars == <<tree, job, node, key, at, below, height, older>>

Armed == DOMAIN tree.mem \ {Sentinel}
Sides == {"left", "right"}

Init ==                                 \* rbtree_init
    /\ tree = EmptyTree
    /\ job = "none" /\ node = Null /\ key = 0 /\ at = Null
    /\ below = [x \in Ev \cup {Sentinel} |-> {}]
    /\ height = [x \in Ev \cup {Sentinel} |-> 0]
    /\ older = [x \in Ev |-> {}]

Returns == job' = "none" /\ node' = Null /\ key' = 0 /\ at' = Null

(* rbtree_insert is called.                                                 *)
Insert(x, k) ==
    /\ job = "none"
    /\ x \in Ev \ Armed
    /\ older' = [older EXCEPT ![x] = Armed]
    /\ \/ /\ tree.root = Sentinel
          /\ tree' = Planted(tree, x, k)
          /\ below' = [below EXCEPT ![x] = {x}]
          /\ height' = [height EXCEPT ![x] = 1]
          /\ UNCHANGED <<job, node, key, at>>
       \/ /\ tree.root # Sentinel
          /\ job' = "descend" /\ node' = x /\ key' = k /\ at' = tree.root
          /\ UNCHANGED <<tree, below, height>>

(* rbtree_insert_timer_value goes down one node, or hangs the new one.      *)
Descend ==
    /\ job = "descend"
    /\ LET next == tree.mem[at][Way(tree, at, key)] IN
       \/ /\ next # Sentinel
          /\ at' = next
          /\ UNCHANGED <<tree, job, below>>
       \/ /\ next = Sentinel
          /\ tree' = Hung(tree, node, key, at)
          /\ below' = [y \in Ev \cup {Sentinel} |->
                          IF y = node THEN {node}
                          ELSE IF at \in below[y] THEN below[y] \cup {node} ELSE below[y]]
          /\ job' = "insert" /\ at' = node
    /\ UNCHANGED <<node, key, height, older>>

(* What a rotation does to the nodes below each node.                       *)
Rotation(x, side) ==
    LET up == tree.mem[x][Other(side)] IN
    below' = [below EXCEPT ![up] = below[x],
                           ![x] = (below[x] \ below[up]) \cup below[tree.mem[up][side]]]

(* A turn of the loop of rbtree_insert.                                     *)
InsertTurn ==
    LET p == Parent(tree, at)  g == Grandparent(tree, at)  side == Side(tree, p)
        uncle == Uncle(tree, at)
    IN
    /\ job = "insert" /\ InsertLoops(tree, at)
    /\ \/ /\ IsRed(tree, uncle)
          /\ tree' = Climbed(tree, at)
          /\ at' = g
          /\ height' = [height EXCEPT ![p] = @ + 1, ![uncle] = @ + 1]
          /\ UNCHANGED below
       \/ /\ ~IsRed(tree, uncle) /\ IsBent(tree, at)
          /\ tree' = Rotate(tree, p, side)
          /\ at' = p
          /\ Rotation(p, side)
          /\ UNCHANGED height
       \/ /\ ~IsRed(tree, uncle) /\ ~IsBent(tree, at)
          /\ tree' = InsertRotated(tree, at)
          /\ Rotation(g, Other(side))
          /\ height' = [height EXCEPT ![p] = @ + 1, ![g] = @ - 1]
          /\ UNCHANGED at
    /\ UNCHANGED <<job, node, key, older>>

(* ... and its end: the root is painted black.                              *)
InsertDone ==
    /\ job = "insert" /\ ~InsertLoops(tree, at)
    /\ tree' = Paint(tree, tree.root, Black)
    /\ height' = [height EXCEPT ![tree.root] =
                     IF IsRed(tree, tree.root) THEN @ + 1 ELSE @]
    /\ Returns
    /\ UNCHANGED <<below, older>>

(* rbtree_delete takes x out and lets subst take its place; if subst was    *)
(* black, its way down is short of a black node.                            *)
TakeOut(x, subst) ==
    LET temp == Heir(tree, subst) IN
    /\ tree' = TakenOut(tree, x, subst)
    /\ below' = [y \in Ev \cup {Sentinel} |->
                    IF y = x THEN {}
                    ELSE IF y = subst THEN below[x] \ {x}
                    ELSE IF x \in below[y] THEN below[y] \ {x} ELSE below[y] \ {subst}]
    /\ older' = [y \in Ev |-> IF y = x THEN {} ELSE older[y] \ {x}]
    /\ IF subst = tree.root
       THEN /\ height' = [height EXCEPT ![x] = 0,
                             ![temp] = IF IsRed(tree, temp) THEN @ + 1 ELSE @]
            /\ Returns
       ELSE /\ height' = IF subst = x THEN [height EXCEPT ![x] = 0]
                         ELSE [height EXCEPT ![x] = 0, ![subst] = height[x]]
            /\ IF IsRed(tree, subst) THEN Returns
               ELSE job' = "delete" /\ node' = Null /\ key' = 0 /\ at' = temp

(* rbtree_delete is called; a node with two children is replaced by the     *)
(* first of those on its right.                                             *)
Delete(x) ==
    /\ job = "none"
    /\ x \in Armed
    /\ \/ /\ Sentinel \in {tree.mem[x].left, tree.mem[x].right}
          /\ TakeOut(x, x)
       \/ /\ Sentinel \notin {tree.mem[x].left, tree.mem[x].right}
          /\ job' = "min" /\ node' = x /\ at' = tree.mem[x].right
          /\ UNCHANGED <<tree, key, below, height, older>>

(* expire_timers looks for the first timer, to delete it.                   *)
Expire ==
    /\ job = "none"
    /\ tree.root # Sentinel
    /\ job' = "min" /\ at' = tree.root
    /\ UNCHANGED <<tree, node, key, below, height, older>>

(* Mutant: rbtree_min goes right where it can.                              *)
MinTurnRight ==
    /\ job = "min"
    /\ tree.mem[at].left # Sentinel
    /\ at' = IF tree.mem[at].right = Sentinel THEN tree.mem[at].left ELSE tree.mem[at].right
    /\ UNCHANGED <<tree, job, node, key, below, height, older>>

(* A turn of rbtree_min, and its end.                                       *)
MinTurn ==
    /\ job = "min"
    /\ tree.mem[at].left # Sentinel
    /\ at' = tree.mem[at].left
    /\ UNCHANGED <<tree, job, node, key, below, height, older>>

MinFound ==
    /\ job = "min"
    /\ tree.mem[at].left = Sentinel
    /\ TakeOut(IF node = Null THEN at ELSE node, at)

(* A turn of the loop that ends rbtree_delete.                              *)
DeleteTurn ==
    LET p == Parent(tree, at)  side == Side(tree, at)  w == Sibling(tree, at)
        near == Near(tree, at)  far == Far(tree, at)
    IN
    /\ job = "delete" /\ DeleteLoops(tree, at)
    /\ \/ /\ IsRed(tree, w)
          /\ tree' = SiblingUp(tree, at)
          /\ Rotation(p, side)
          /\ height' = [height EXCEPT ![p] = @ - 1, ![w] = @ + 1]
          /\ UNCHANGED at
       \/ /\ ~IsRed(tree, w) /\ ~IsRed(tree, near) /\ ~IsRed(tree, far)
          /\ tree' = Paint(tree, w, Red)
          /\ at' = p
          /\ height' = [height EXCEPT ![p] = @ - 1, ![w] = @ - 1]
          /\ UNCHANGED below
       \/ /\ ~IsRed(tree, w) /\ IsRed(tree, near) /\ ~IsRed(tree, far)
          /\ tree' = NearUp(tree, at)
          /\ Rotation(w, Other(side))
          /\ height' = [height EXCEPT ![w] = @ - 1, ![near] = @ + 1]
          /\ UNCHANGED at
       \/ /\ ~IsRed(tree, w) /\ IsRed(tree, far)
          /\ tree' = FarUp(tree, at)
          /\ at' = tree'.root
          /\ Rotation(p, side)
          /\ height' = [height EXCEPT ![p] = height[w], ![w] = height[p], ![far] = @ + 1]
    /\ UNCHANGED <<job, node, key, older>>

(* ... and its end: a red node makes up for the black one.                  *)
DeleteDone ==
    /\ job = "delete" /\ ~DeleteLoops(tree, at)
    /\ tree' = Paint(tree, at, Black)
    /\ height' = [height EXCEPT ![at] = IF IsRed(tree, at) THEN @ + 1 ELSE @]
    /\ Returns
    /\ UNCHANGED <<below, older>>

Next ==
    \/ \E x \in Ev, k \in Keys : Insert(x, k)
    \/ Descend \/ InsertTurn \/ InsertDone
    \/ \E x \in Ev : Delete(x)
    \/ Expire \/ MinTurn \/ MinFound
    \/ DeleteTurn \/ DeleteDone

Spec == Init /\ [][Next]_vars

-----------------------------------------------------------------------------
Kids(t, x) == {t.mem[x].left, t.mem[x].right}
Nodes == Ev \cup {Sentinel}

(* The variables have their types; a loop works on a node of the tree.      *)
TypeOK ==
    /\ {tree.root, Sentinel} \subseteq DOMAIN tree.mem /\ DOMAIN tree.mem \subseteq Nodes
    /\ \A x \in DOMAIN tree.mem :
          Parent(tree, x) \in Ev \cup {Null} /\ tree.mem[x].color \in {Red, Black}
    /\ \A x \in Armed : tree.mem[x].key \in Keys /\ Kids(tree, x) \subseteq DOMAIN tree.mem
    /\ job \in {"none", "descend", "insert", "min", "delete"}
    /\ node \in Ev \cup {Null} /\ key \in Keys \cup {0}
    /\ at \in IF job = "none" THEN {Null} ELSE DOMAIN tree.mem
    /\ below \in [Nodes -> SUBSET Ev]
    /\ height \in [Nodes -> Nat]
    /\ older \in [Ev -> SUBSET Ev]

(* Between any two turns of the loops every node hangs in the tree, once    *)
(* and below its parent (rbtree_left_rotate, rbtree_right_rotate and the    *)
(* links rbtree_delete sets).                                               *)
TreeLinked ==
    /\ below[tree.root] = Armed /\ below[Sentinel] = {}
    /\ \A x \in Armed :
          LET l == tree.mem[x].left  r == tree.mem[x].right IN
          /\ below[x] = {x} \cup below[l] \cup below[r]
          /\ x \notin below[l] \cup below[r]
          /\ below[l] \cap below[r] = {}
          /\ \A y \in {l, r} \ {Sentinel} : Parent(tree, y) = x
    /\ \A x \in Armed \ {tree.root} :
          Parent(tree, x) \in Armed /\ x \in Kids(tree, Parent(tree, x))

(* No red node has a red child, and all ways down have as many black nodes, *)
(* once the loops of rbtree_insert and rbtree_delete have ended.            *)
TreeBalanced ==
    job = "none" =>
        /\ ~IsRed(tree, tree.root) /\ ~IsRed(tree, Sentinel)
        /\ \A x \in Armed : \A y \in Kids(tree, x) :
              /\ IsRed(tree, x) => ~IsRed(tree, y)
              /\ height[x] = height[y] + (IF IsRed(tree, x) THEN 0 ELSE 1)

(* x expires before y, or with it and was there before.                     *)
Precedes(x, y) ==
    \/ tree.mem[x].key < tree.mem[y].key
    \/ tree.mem[x].key = tree.mem[y].key /\ x \in older[y]

(* From left to right the nodes stand in the order of their keys, and those *)
(* of one key in the order they came, also between the turns of the loops.  *)
TreeOrdered ==
    \A x \in Armed :
        /\ \A y \in below[tree.mem[x].left] : Precedes(y, x)
        /\ \A y \in below[tree.mem[x].right] : Precedes(x, y)

(* What rbtree_min finds for expire_timers is the timer that expires first. *)
FirstIsTaken ==
    [][job = "min" /\ node = Null /\ tree' # tree =>
           \A y \in Armed' : \A x \in Armed \ Armed' : Precedes(x, y)]_vars
=============================================================================
