------------------------------- MODULE RbLinks -------------------------------
(***************************************************************************)
(* The red-black tree under the daemon's timers (src/tserver/rb_tree.c):    *)
(* its memory, and what one turn of each of its loops does to it.  A tree   *)
(* is a root and the memory of its nodes: mem has the nodes that are in the *)
(* tree, and the sentinel, so that following a pointer to a node that was   *)
(* taken out has no value.  The code writes each case twice, once per side; *)
(* here the side is a parameter.                                            *)
(***************************************************************************)
EXTENDS Integers

CONSTANTS
    Sentinel,     \* the leaf every lower link ends in
    Null,         \* a pointer never set
    HalfRange     \* keys are unsigned, of 2 * HalfRange values: 2^31 in the code

ASSUME RbLinksAssumption == HalfRange \in Nat \ {0} /\ Sentinel # Null

Red == 1
Black == 0
Other(side) == IF side = "left" THEN "right" ELSE "left"

(* A key difference read as a signed integer (rbtree_key_int_t).            *)
Signed(k) ==
    LET u == k % (2 * HalfRange) IN IF u >= HalfRange THEN u - 2 * HalfRange ELSE u

EmptyTree ==
    [root |-> Sentinel,
     mem  |-> [x \in {Sentinel} |-> [key |-> 0, left |-> Null, right |-> Null,
                                     parent |-> Null, color |-> Black]]]

Paint(t, x, c) == [t EXCEPT !.mem[x].color = c]
IsRed(t, x) == t.mem[x].color = Red
Parent(t, x) == t.mem[x].parent
Side(t, x) == IF t.mem[Parent(t, x)].left = x THEN "left" ELSE "right"
Sibling(t, x) == t.mem[Parent(t, x)][Other(Side(t, x))]

(* The link that leads down to x leads to y.                                *)
Relink(t, x, y) ==
    IF x = t.root THEN [t EXCEPT !.root = y]
    ELSE [t EXCEPT !.mem[Parent(t, x)][Side(t, x)] = y]

(* x hangs below p now.  In the mutant, x keeps its old parent link.        *)
NotAdopted(t, p, x) == t

Adopt(t, p, x) == IF x = Sentinel THEN t ELSE [t EXCEPT !.mem[x].parent = p]

(* rbtree_left_rotate and rbtree_right_rotate.                              *)
Rotate(t, x, side) ==
    LET up    == t.mem[x][Other(side)]
        inner == t.mem[up][side]
        moved == Adopt([Relink(t, x, up) EXCEPT !.mem[x][Other(side)] = inner], x, inner)
    IN [moved EXCEPT !.mem[up].parent = Parent(t, x),
                     !.mem[up][side] = x,
                     !.mem[x].parent = up]

-----------------------------------------------------------------------------
(* rbtree_insert_timer_value.                                               *)

(* Mutant: the difference of the keys is taken the other way round.         *)
WaySwapped(t, at, k) == IF Signed(t.mem[at].key - k) < 0 THEN "left" ELSE "right"

(* Mutant: the comparison of rbtree_insert_value, of unsigned keys.         *)
WayUnsigned(t, at, k) == IF k < t.mem[at].key THEN "left" ELSE "right"

(* Where a key goes at a node: below equal keys, right.                     *)
Way(t, at, k) == IF Signed(k - t.mem[at].key) < 0 THEN "left" ELSE "right"

(* A node x with key k joins the memory, below p.                           *)
With(t, x, k, p, c) ==
    [t EXCEPT !.mem = [y \in DOMAIN t.mem \cup {x} |->
        IF y = x THEN [key |-> k, left |-> Sentinel, right |-> Sentinel,
                       parent |-> p, color |-> c]
        ELSE t.mem[y]]]

(* The first node of a tree is black, any other is hung red from a leaf.    *)
Planted(t, x, k) == [With(t, x, k, Null, Black) EXCEPT !.root = x]
Hung(t, x, k, at) == [With(t, x, k, at, Red) EXCEPT !.mem[at][Way(t, at, k)] = x]

(* The loop of rbtree_insert goes on while x and its parent are both red.   *)
InsertLoops(t, x) == x # t.root /\ IsRed(t, Parent(t, x))

Grandparent(t, x) == Parent(t, Parent(t, x))
Uncle(t, x) == Sibling(t, Parent(t, x))

(* A red uncle: the two reds change place with the black above them, ...    *)
Climbed(t, x) ==
    Paint(Paint(Paint(t, Parent(t, x), Black), Uncle(t, x), Black), Grandparent(t, x), Red)

(* ... a black one: the parent is rotated down if x is on its inner side,   *)
(* and the grandparent then.                                                *)
IsBent(t, x) == Side(t, x) # Side(t, Parent(t, x))

InsertRotated(t, x) ==
    LET p == Parent(t, x)  g == Parent(t, p)
    IN  Rotate(Paint(Paint(t, p, Black), g, Red), g, Other(Side(t, p)))

-----------------------------------------------------------------------------
(* rbtree_delete.                                                           *)

(* x leaves the memory of the tree: it is freed, or handed back.            *)
Without(t, x) == [t EXCEPT !.mem = [y \in DOMAIN t.mem \ {x} |-> t.mem[y]]]

(* Mutant: the link that led to x is left as it was.                        *)
TakeLinks(t, x, subst) ==
    LET n == t.mem[x] IN
    Adopt(Adopt([t EXCEPT !.mem[subst].left = n.left,
                          !.mem[subst].right = n.right,
                          !.mem[subst].parent = n.parent,
                          !.mem[subst].color = n.color], subst, n.left), subst, n.right)

(* subst takes the place, the links and the colour of x.                    *)
TakePlace(t, x, subst) ==
    LET n  == t.mem[x]
        t1 == [Relink(t, x, subst) EXCEPT !.mem[subst].left = t.mem[x].left,
                                          !.mem[subst].right = t.mem[x].right,
                                          !.mem[subst].parent = n.parent,
                                          !.mem[subst].color = n.color]
    IN  Adopt(Adopt(t1, subst, n.left), subst, n.right)

(* What takes the place of subst, which has one child at most.              *)
Heir(t, subst) == IF t.mem[subst].left = Sentinel THEN t.mem[subst].right ELSE t.mem[subst].left

(* x is taken out and subst, unless it is x, takes its place.  Mind that a  *)
(* child that becomes the root keeps its parent link, and that the          *)
(* sentinel's parent link is written too.                                   *)
TakenOut(t, x, subst) ==
    LET s    == t.mem[subst]
        temp == Heir(t, subst)
        cut  == [Relink(t, subst, temp) EXCEPT
                    !.mem[temp].parent = IF s.parent = x THEN subst ELSE s.parent]
    IN  IF subst = t.root THEN Without(Paint([t EXCEPT !.root = temp], temp, Black), x)
        ELSE Without(IF subst = x THEN cut ELSE TakePlace(cut, x, subst), x)

(* The loop that ends rbtree_delete goes on while x is black, which is then *)
(* short of one black node.                                                 *)
DeleteLoops(t, x) == x # t.root /\ ~IsRed(t, x)

Near(t, x) == t.mem[Sibling(t, x)][Side(t, x)]
Far(t, x) == t.mem[Sibling(t, x)][Other(Side(t, x))]

(* A red sibling is rotated up, so that the next sibling is black; ...      *)
SiblingUp(t, x) ==
    LET p == Parent(t, x)
    IN  Rotate(Paint(Paint(t, Sibling(t, x), Black), p, Red), p, Side(t, x))

(* ... one whose near child alone is red is rotated down; ...               *)
NearUp(t, x) ==
    LET w == Sibling(t, x)
    IN  Rotate(Paint(Paint(t, Near(t, x), Black), w, Red), w, Other(Side(t, x)))

(* ... and a red far child makes up for the black node that is missing.  In *)
(* the mutant it stays red.                                                 *)
FarStaysRed(t, x) ==
    LET p == Parent(t, x)  w == Sibling(t, x)
    IN  Rotate(Paint(Paint(t, w, t.mem[p].color), p, Black), p, Side(t, x))

FarUp(t, x) ==
    LET p == Parent(t, x)  w == Sibling(t, x)
    IN  Rotate(Paint(Paint(Paint(t, w, t.mem[p].color), p, Black), Far(t, x), Black),
               p, Side(t, x))
=============================================================================
