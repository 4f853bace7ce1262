-------------------------------- MODULE RbTree --------------------------------
(***************************************************************************)
(* The functions of src/tserver/rb_tree.c as operators on a whole tree:     *)
(* their loops are recursive operators over the turns of RbLinks.           *)
(***************************************************************************)
EXTENDS RbLinks, Sequences

RECURSIVE MinFrom(_, _)
MinFrom(t, x) == IF t.mem[x].left = Sentinel THEN x ELSE MinFrom(t, t.mem[x].left)

(* The leaf from which rbtree_insert_timer_value hangs a key.               *)
RECURSIVE Descend(_, _, _)
Descend(t, at, k) ==
    LET next == t.mem[at][Way(t, at, k)] IN
    IF next = Sentinel THEN at ELSE Descend(t, next, k)

RECURSIVE InsertFixed(_, _)
InsertFixed(t, x) ==
    IF ~InsertLoops(t, x) THEN Paint(t, t.root, Black)
    ELSE IF IsRed(t, Uncle(t, x)) THEN InsertFixed(Climbed(t, x), Grandparent(t, x))
    ELSE IF IsBent(t, x)
         THEN InsertFixed(Rotate(t, Parent(t, x), Side(t, Parent(t, x))), Parent(t, x))
    ELSE InsertFixed(InsertRotated(t, x), x)

(* rbtree_insert of a node x with key k.                                    *)
Insert(t, x, k) ==
    IF t.root = Sentinel THEN Planted(t, x, k)
    ELSE InsertFixed(Hung(t, x, k, Descend(t, t.root, k)), x)

RECURSIVE DeleteFixed(_, _)
DeleteFixed(t, x) ==
    IF ~DeleteLoops(t, x) THEN Paint(t, x, Black)
    ELSE IF IsRed(t, Sibling(t, x)) THEN DeleteFixed(SiblingUp(t, x), x)
    ELSE IF IsRed(t, Far(t, x)) THEN LET up == FarUp(t, x) IN DeleteFixed(up, up.root)
    ELSE IF IsRed(t, Near(t, x)) THEN DeleteFixed(NearUp(t, x), x)
    ELSE DeleteFixed(Paint(t, Sibling(t, x), Red), Parent(t, x))

(* rbtree_delete.                                                           *)
Delete(t, x) ==
    LET n     == t.mem[x]
        subst == IF Sentinel \in {n.left, n.right} THEN x ELSE MinFrom(t, n.right)
        rest  == TakenOut(t, x, subst)
    IN  IF subst = t.root \/ IsRed(t, subst) THEN rest ELSE DeleteFixed(rest, Heir(t, subst))

(* The nodes from left to right.                                            *)
RECURSIVE Walk(_, _)
Walk(t, x) ==
    IF x = Sentinel THEN <<>> ELSE Walk(t, t.mem[x].left) \o <<x>> \o Walk(t, t.mem[x].right)
=============================================================================
