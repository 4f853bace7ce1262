--------------------------- MODULE RbTurnsProofs ----------------------------
(***************************************************************************)
(* What the turns of the loops of rb_tree.c do to a tree of any size, each  *)
(* on its own: rotations keep every node hanging and in its order, and the  *)
(* cases of rbtree_insert and rbtree_delete lead from the shape of the tree *)
(* on which their loop is at work (InsertAt, DeleteAt) to that shape again, *)
(* or to a settled tree (Settled).                                          *)
(*                                                                          *)
(* "Below" and "black nodes on the ways down" are recursive over the tree.  *)
(* The proofs take them as two functions, b and h, of which only what a     *)
(* node says of its kids is known; a turn of a loop changes them at two or  *)
(* three nodes.  RbSteps keeps such functions as history variables.         *)
(***************************************************************************)
EXTENDS RbSteps, TLAPS

-----------------------------------------------------------------------------
(* Assignments, and the rotations they make.                                *)

(* The fields of rbtree_node_t, and a tree of such nodes.                   *)
Fields == {"key", "left", "right", "parent", "color"}
IsTree(t) ==
    /\ DOMAIN t = {"root", "mem"}
    /\ \A y \in DOMAIN t.mem : DOMAIN t.mem[y] = Fields

(* Assignments to a field and to the root.                                  *)
Set(t, y, f, v) == [t EXCEPT !.mem[y][f] = v]
SetRoot(t, y) == [t EXCEPT !.root = y]

(* An assignment to a field of a node.                                      *)
LEMMA SetIs ==
    ASSUME NEW t, IsTree(t), NEW y \in DOMAIN t.mem, NEW f \in Fields, NEW v
    PROVE  /\ IsTree(Set(t, y, f, v))
           /\ Set(t, y, f, v).root = t.root
           /\ DOMAIN Set(t, y, f, v).mem = DOMAIN t.mem
           /\ \A z \in DOMAIN t.mem, g \in Fields :
                 Set(t, y, f, v).mem[z][g] = IF z = y /\ g = f THEN v ELSE t.mem[z][g]
BY ZenonT(10) DEF IsTree, Set

(* An assignment to tree->root.                                             *)
LEMMA SetRootIs ==
    ASSUME NEW t, IsTree(t), NEW v
    PROVE  IsTree(SetRoot(t, v)) /\ SetRoot(t, v).root = v /\ SetRoot(t, v).mem = t.mem
BY DEF IsTree, SetRoot

(* u is t after such an assignment.                                         *)
Wrote(t, u, y, f, v) ==
    /\ IsTree(u) /\ u.root = t.root /\ DOMAIN u.mem = DOMAIN t.mem
    /\ \A z \in DOMAIN t.mem, g \in Fields :
          u.mem[z][g] = IF z = y /\ g = f THEN v ELSE t.mem[z][g]

(* An assignment to a field, as a step from one tree to the next.           *)
LEMMA SetWrites ==
    ASSUME NEW t, IsTree(t), NEW y \in DOMAIN t.mem, NEW f \in Fields, NEW v,
           NEW u, u = Set(t, y, f, v)
    PROVE  Wrote(t, u, y, f, v)
BY SetIs DEF Wrote

(* rbt_red and rbt_black.                                                   *)
LEMMA PaintIs ==
    ASSUME NEW t, IsTree(t), NEW y \in DOMAIN t.mem, NEW c
    PROVE  /\ IsTree(Paint(t, y, c))
           /\ Paint(t, y, c).root = t.root
           /\ DOMAIN Paint(t, y, c).mem = DOMAIN t.mem
           /\ \A z \in DOMAIN t.mem, g \in Fields :
                 Paint(t, y, c).mem[z][g] = IF z = y /\ g = "color" THEN c ELSE t.mem[z][g]
<1>1. "color" \in Fields BY DEF Fields
<1>2. Paint(t, y, c) = Set(t, y, "color", c) BY DEF Paint, Set
<1> QED BY <1>1, <1>2, SetIs

(* The parent field of a kid is written unless the kid is the sentinel.     *)
LEMMA AdoptIs ==
    ASSUME NEW t, IsTree(t), NEW p, NEW x \in DOMAIN t.mem
    PROVE  /\ IsTree(Adopt(t, p, x))
           /\ Adopt(t, p, x).root = t.root
           /\ DOMAIN Adopt(t, p, x).mem = DOMAIN t.mem
           /\ \A z \in DOMAIN t.mem, g \in Fields :
                 Adopt(t, p, x).mem[z][g] =
                    IF x # Sentinel /\ z = x /\ g = "parent" THEN p ELSE t.mem[z][g]
<1>1. CASE x = Sentinel
  BY <1>1 DEF Adopt
<1>2. CASE x # Sentinel
  <2>1. "parent" \in Fields BY DEF Fields
  <2>2. Adopt(t, p, x) = Set(t, x, "parent", p) BY <1>2 DEF Adopt, Set
  <2> QED BY <1>2, <2>1, <2>2, SetIs
<1> QED BY <1>1, <1>2

(* ... as a step from one tree to the next.                                 *)
LEMMA AdoptWrites ==
    ASSUME NEW t, IsTree(t), NEW p, NEW x \in DOMAIN t.mem, NEW u, u = Adopt(t, p, x)
    PROVE  /\ x = Sentinel => u = t
           /\ x # Sentinel => Wrote(t, u, x, "parent", p)
<1>1. x = Sentinel => u = t
  BY DEF Adopt
<1>2. ASSUME x # Sentinel PROVE Wrote(t, u, x, "parent", p)
  <2>1. "parent" \in Fields BY DEF Fields
  <2>2. u = Set(t, x, "parent", p) BY <1>2 DEF Adopt, Set
  <2> QED BY <2>1, <2>2, SetWrites
<1> QED BY <1>1, <1>2

(* u is t with x rotated, field by field: up takes the place of x, x goes   *)
(* below it, and inner changes sides.                                       *)
RotatedField(t, x, side, up, inner, p, z, g) ==
    IF z = x /\ g = Other(side) THEN inner
    ELSE IF z = up /\ g = side THEN x
    ELSE IF x # t.root /\ z = p /\ g = Side(t, x) THEN up
    ELSE IF z = x /\ g = "parent" THEN up
    ELSE IF z = up /\ g = "parent" THEN p
    ELSE IF inner # Sentinel /\ z = inner /\ g = "parent" THEN x
    ELSE t.mem[z][g]

Swung(t, u, x, side, up, inner, p) ==
    /\ IsTree(u)
    /\ u.root = IF x = t.root THEN up ELSE t.root
    /\ DOMAIN u.mem = DOMAIN t.mem
    /\ \A z \in DOMAIN t.mem, g \in Fields :
          u.mem[z][g] = RotatedField(t, x, side, up, inner, p, z, g)

(* rbtree_left_rotate and rbtree_right_rotate do that.                      *)
LEMMA RotateIs ==
    ASSUME NEW t, IsTree(t), NEW x \in DOMAIN t.mem, NEW side \in {"left", "right"},
           NEW up, up = t.mem[x][Other(side)], up \in DOMAIN t.mem, up # Sentinel,
           NEW inner, inner = t.mem[up][side], inner \in DOMAIN t.mem,
           NEW p, p = Parent(t, x), x # t.root => p \in DOMAIN t.mem \ {x, up, inner},
           x # up, inner # x, inner # up,
           NEW u, u = Rotate(t, x, side)
    PROVE  Swung(t, u, x, side, up, inner, p)
<1> DEFINE o == Other(side)
           t1 == Relink(t, x, up)
           t2 == Set(t1, x, o, inner)
           t3 == Adopt(t2, x, inner)
           t4 == Set(t3, up, "parent", p)
           t5 == Set(t4, up, side, x)
           t6 == Set(t5, x, "parent", up)
<1>0. {o, side, "parent", Side(t, x)} \subseteq Fields /\ o # side /\ o # "parent" /\ side # "parent"
  /\ Side(t, x) # "parent"
  BY DEF Fields, Other, Side
<1>1. u = t6
  BY Zenon DEF Rotate, Set, Parent
<1>2. t1 = IF x = t.root THEN SetRoot(t, up) ELSE Set(t, p, Side(t, x), up)
  BY DEF Relink, SetRoot, Set, Parent
<1> HIDE DEF o, t1, t2, t3, t4, t5, t6
<1>4. /\ IsTree(t1)
      /\ t1.root = IF x = t.root THEN up ELSE t.root
      /\ DOMAIN t1.mem = DOMAIN t.mem
      /\ \A z \in DOMAIN t.mem, g \in Fields : t1.mem[z][g] =
            IF x # t.root /\ z = p /\ g = Side(t, x) THEN up ELSE t.mem[z][g]
  <2>1. CASE x = t.root
    <3>1. t1 = SetRoot(t, up) BY Zenon, <1>2, <2>1
    <3>2. IsTree(t1) /\ t1.root = up /\ t1.mem = t.mem BY <3>1, SetRootIs
    <3> QED BY Zenon, <2>1, <3>2
  <2>2. CASE x # t.root
    <3>1. t1 = Set(t, p, Side(t, x), up) BY Zenon, <1>2, <2>2
    <3>2. p \in DOMAIN t.mem /\ Side(t, x) \in Fields BY Zenon, <1>0, <2>2
    <3>3. Wrote(t, t1, p, Side(t, x), up)
      BY <3>1, <3>2, SetWrites
    <3> QED BY Zenon, <2>2, <3>3 DEF Wrote
  <2> QED BY Zenon, <2>1, <2>2
<1>5. /\ IsTree(t2)
      /\ t2.root = t1.root
      /\ DOMAIN t2.mem = DOMAIN t.mem
      /\ \A z \in DOMAIN t.mem, g \in Fields : t2.mem[z][g] =
            IF z = x /\ g = o THEN inner ELSE t1.mem[z][g]
  <2>1. IsTree(t1) /\ x \in DOMAIN t1.mem /\ o \in Fields BY Zenon, <1>0, <1>4
  <2>2. t2 = Set(t1, x, o, inner) BY DEF t2
  <2>3. Wrote(t1, t2, x, o, inner)
    BY <2>1, <2>2, SetWrites
  <2> QED BY Zenon, <1>4, <2>3 DEF Wrote
<1>6. /\ IsTree(t3)
      /\ t3.root = t1.root
      /\ DOMAIN t3.mem = DOMAIN t.mem
      /\ \A z \in DOMAIN t.mem, g \in Fields : t3.mem[z][g] =
            IF inner # Sentinel /\ z = inner /\ g = "parent" THEN x ELSE t2.mem[z][g]
  <2>1. IsTree(t2) /\ inner \in DOMAIN t2.mem BY Zenon, <1>5
  <2>2. t3 = Adopt(t2, x, inner) BY DEF t3
  <2>3. /\ inner = Sentinel => t3 = t2
        /\ inner # Sentinel => Wrote(t2, t3, inner, "parent", x)
    BY <2>1, <2>2, AdoptWrites
  <2>4. CASE inner = Sentinel
    BY Zenon, <1>5, <2>3, <2>4
  <2>5. CASE inner # Sentinel
    <3>1. /\ IsTree(t3) /\ t3.root = t2.root /\ DOMAIN t3.mem = DOMAIN t2.mem
          /\ \A z \in DOMAIN t2.mem, g \in Fields :
                t3.mem[z][g] = IF z = inner /\ g = "parent" THEN x ELSE t2.mem[z][g]
      BY Zenon, <2>3, <2>5 DEF Wrote
    <3>2. IsTree(t3) /\ t3.root = t1.root /\ DOMAIN t3.mem = DOMAIN t.mem
      BY Zenon, <1>5, <3>1
    <3>3. ASSUME NEW z \in DOMAIN t.mem, NEW g \in Fields
          PROVE  t3.mem[z][g] =
                    IF inner # Sentinel /\ z = inner /\ g = "parent" THEN x ELSE t2.mem[z][g]
      BY Zenon, <1>5, <2>5, <3>1
    <3> QED BY Zenon, <3>2, <3>3
  <2> QED BY Zenon, <2>4, <2>5
<1>7. /\ IsTree(t4)
      /\ t4.root = t1.root
      /\ DOMAIN t4.mem = DOMAIN t.mem
      /\ \A z \in DOMAIN t.mem, g \in Fields : t4.mem[z][g] =
            IF z = up /\ g = "parent" THEN p ELSE t3.mem[z][g]
  <2>1. IsTree(t3) /\ up \in DOMAIN t3.mem /\ "parent" \in Fields BY Zenon, <1>0, <1>6
  <2>2. t4 = Set(t3, up, "parent", p) BY DEF t4
  <2>3. Wrote(t3, t4, up, "parent", p)
    BY <2>1, <2>2, SetWrites
  <2> QED BY Zenon, <1>6, <2>3 DEF Wrote
<1>8. /\ IsTree(t5)
      /\ t5.root = t1.root
      /\ DOMAIN t5.mem = DOMAIN t.mem
      /\ \A z \in DOMAIN t.mem, g \in Fields : t5.mem[z][g] =
            IF z = up /\ g = side THEN x ELSE t4.mem[z][g]
  <2>1. IsTree(t4) /\ up \in DOMAIN t4.mem /\ side \in Fields BY Zenon, <1>0, <1>7
  <2>2. t5 = Set(t4, up, side, x) BY DEF t5
  <2>3. Wrote(t4, t5, up, side, x)
    BY <2>1, <2>2, SetWrites
  <2> QED BY Zenon, <1>7, <2>3 DEF Wrote
<1>9. /\ IsTree(t6)
      /\ t6.root = t1.root
      /\ DOMAIN t6.mem = DOMAIN t.mem
      /\ \A z \in DOMAIN t.mem, g \in Fields : t6.mem[z][g] =
            IF z = x /\ g = "parent" THEN up ELSE t5.mem[z][g]
  <2>1. IsTree(t5) /\ x \in DOMAIN t5.mem /\ "parent" \in Fields BY Zenon, <1>0, <1>8
  <2>2. t6 = Set(t5, x, "parent", up) BY DEF t6
  <2>3. Wrote(t5, t6, x, "parent", up)
    BY <2>1, <2>2, SetWrites
  <2> QED BY Zenon, <1>8, <2>3 DEF Wrote
<1>10. ASSUME NEW z \in DOMAIN t.mem, NEW g \in Fields
       PROVE  t6.mem[z][g] = RotatedField(t, x, side, up, inner, p, z, g)
  <2>1. t1.mem[z][g] = IF x # t.root /\ z = p /\ g = Side(t, x) THEN up ELSE t.mem[z][g]
    BY Zenon, <1>4
  <2>2. t2.mem[z][g] = IF z = x /\ g = o THEN inner ELSE t1.mem[z][g]
    BY Zenon, <1>5
  <2>3. t3.mem[z][g] = IF inner # Sentinel /\ z = inner /\ g = "parent" THEN x ELSE t2.mem[z][g]
    BY Zenon, <1>6
  <2>4. t4.mem[z][g] = IF z = up /\ g = "parent" THEN p ELSE t3.mem[z][g]
    BY Zenon, <1>7
  <2>5. t5.mem[z][g] = IF z = up /\ g = side THEN x ELSE t4.mem[z][g]
    BY Zenon, <1>8
  <2>6. t6.mem[z][g] = IF z = x /\ g = "parent" THEN up ELSE t5.mem[z][g]
    BY Zenon, <1>9
  <2>7. o = Other(side) BY DEF o
  <2>8. o # side /\ o # "parent" /\ side # "parent" /\ Side(t, x) # "parent"
    BY Zenon, <1>0
  <2> QED BY <2>1, <2>2, <2>3, <2>4, <2>5, <2>6, <2>7, <2>8 DEF RotatedField
<1>11. Swung(t, t6, x, side, up, inner, p)
  BY Zenon, <1>4, <1>9, <1>10 DEF Swung
<1> QED BY <1>1, <1>11

(* The nodes of a tree, but for the sentinel.                               *)
ArmedIn(t) == DOMAIN t.mem \ {Sentinel}

(* Every node hangs once and below its parent: the links agree with b.      *)
KidsHang(t, b, x) ==
    \A s \in Sides :
       LET y == t.mem[x][s]  z == t.mem[x][Other(s)] IN
       /\ y \in DOMAIN t.mem
       /\ b[x] = {x} \cup b[y] \cup b[z]
       /\ x \notin b[y]
       /\ b[y] \cap b[z] = {}
       /\ y # Sentinel => Parent(t, y) = x

(* ... and what is below x is connected.                                    *)
Closed(t, b, x) ==
    \A y \in b[x] : b[y] \subseteq b[x] /\ (y # x => Parent(t, y) \in b[x])

(* The root has no parent and has all nodes below it; the others hang.      *)
HangsIn(t, x) ==
    /\ Parent(t, x) \in ArmedIn(t)
    /\ \E s \in Sides : x = t.mem[Parent(t, x)][s]

Hangs(t, b) ==
    /\ {t.root, Sentinel} \subseteq DOMAIN t.mem
    /\ b[t.root] = ArmedIn(t) /\ b[Sentinel] = {}
    /\ \A x \in ArmedIn(t) : b[x] \subseteq ArmedIn(t) /\ KidsHang(t, b, x) /\ Closed(t, b, x)
    /\ \A x \in ArmedIn(t) \ {t.root} : HangsIn(t, x)

(* The two sides, and the fields that are none.                             *)
LEMMA SideFacts ==
    /\ Sides \subseteq Fields
    /\ \A s \in Sides : Other(s) \in Sides /\ Other(s) # s /\ Other(Other(s)) = s
                        /\ s # "parent" /\ s # "color" /\ s # "key"
    /\ \A s, r \in Sides : r = s \/ r = Other(s)
    /\ {"parent", "color", "key"} \subseteq Fields
BY DEF Sides, Fields, Other

(* A kid knows the side it hangs on, and hangs nowhere else.                *)
LEMMA SideOf ==
    ASSUME NEW t, NEW b, Hangs(t, b), NEW p \in ArmedIn(t), NEW s \in Sides,
           NEW x, x = t.mem[p][s], x # Sentinel
    PROVE  /\ x \in ArmedIn(t) /\ Parent(t, x) = p /\ Side(t, x) = s
           /\ t.mem[p][Other(s)] # x
           /\ x \in b[x] /\ p \notin b[x] /\ x # t.root
<1>1. /\ KidsHang(t, b, p) /\ x \in DOMAIN t.mem /\ Parent(t, x) = p /\ p \notin b[x]
      /\ b[x] \cap b[t.mem[p][Other(s)]] = {}
  BY DEF Hangs, KidsHang
<1>2. x \in ArmedIn(t) /\ x \in b[x]
  BY <1>1, SideFacts DEF ArmedIn, Hangs, KidsHang
<1>3. t.mem[p][Other(s)] # x
  BY <1>1, <1>2
<1>4. Side(t, x) = s
  BY <1>1, <1>3 DEF Side, Sides, Other
<1>5. x # t.root
  BY <1>1 DEF Hangs
<1> QED BY <1>1, <1>2, <1>3, <1>4, <1>5

(* A kid y of x that hangs, and its sibling z.                              *)
KidHung(t, b, x, y, z) ==
    /\ y \in DOMAIN t.mem /\ b[x] = {x} \cup b[y] \cup b[z]
    /\ x \notin b[y] /\ b[y] \cap b[z] = {}
    /\ y # Sentinel => Parent(t, y) = x

(* Each kid of a node with kids that hang does so.                          *)
LEMMA KidHangs ==
    ASSUME NEW t, NEW b, NEW x, KidsHang(t, b, x), NEW s \in Sides,
           NEW y, y = t.mem[x][s], NEW z, z = t.mem[x][Other(s)]
    PROVE  KidHung(t, b, x, y, z)
BY Zenon DEF KidsHang, KidHung

(* The links after a rotation, as the loops use them.                       *)
LEMMA RotateLinks ==
    ASSUME NEW t, IsTree(t), NEW b, Hangs(t, b), NEW x \in ArmedIn(t), NEW side \in Sides,
           NEW up, up = t.mem[x][Other(side)], up # Sentinel,
           NEW u, u = Rotate(t, x, side)
    PROVE  LET inner == t.mem[up][side] IN
           /\ IsTree(u)
           /\ u.root = IF x = t.root THEN up ELSE t.root
           /\ DOMAIN u.mem = DOMAIN t.mem
           /\ u.mem[x][side] = t.mem[x][side] /\ u.mem[x][Other(side)] = inner
           /\ u.mem[up][side] = x /\ u.mem[up][Other(side)] = t.mem[up][Other(side)]
           /\ \A z \in ArmedIn(t) \ {x, up}, s \in Sides :
                 /\ t.mem[z][s] # up
                 /\ u.mem[z][s] = IF t.mem[z][s] = x THEN up ELSE t.mem[z][s]
           /\ \A z \in DOMAIN t.mem :
                 /\ u.mem[z].key = t.mem[z].key /\ u.mem[z].color = t.mem[z].color
                 /\ Parent(u, z) = IF z = x THEN up
                                   ELSE IF z = up THEN Parent(t, x)
                                   ELSE IF z = inner /\ inner # Sentinel THEN x
                                   ELSE Parent(t, z)
<1> DEFINE inner == t.mem[up][side]
           p == Parent(t, x)
           o == Other(side)
<1>1. /\ up \in ArmedIn(t) /\ Parent(t, up) = x /\ Side(t, up) = o /\ t.mem[x][side] # up
      /\ up \in b[up] /\ x \notin b[up] /\ up # t.root /\ o \in Sides
  BY SideOf, SideFacts
<1>2. /\ inner \in DOMAIN t.mem /\ up \notin b[inner] /\ b[inner] \subseteq b[up] /\ up # inner
      /\ x # inner
      /\ inner # Sentinel => inner \in b[inner]
  <2>1. KidsHang(t, b, up) /\ KidsHang(t, b, x)
    BY <1>1 DEF Hangs
  <2>2. PICK far : far = t.mem[up][o]
    BY Zenon
  <2>2a. inner \in DOMAIN t.mem /\ up \notin b[inner] /\ b[up] = {up} \cup b[inner] \cup b[far]
    <3>1. KidHung(t, b, up, inner, far) BY <2>1, <2>2, KidHangs
    <3> QED BY Zenon, <3>1 DEF KidHung
  <2>2b. b[inner] \subseteq b[up]
    BY Zenon, <2>2a
  <2>3. inner # Sentinel => inner \in b[inner]
    BY <1>1, SideOf
  <2> QED BY ZenonT(20), <1>1, <2>2a, <2>2b, <2>3 DEF ArmedIn
<1>3. x # t.root => /\ p \in ArmedIn(t) /\ t.mem[p][Side(t, x)] = x /\ p \notin b[x]
                    /\ Side(t, x) \in Sides /\ t.mem[p][Other(Side(t, x))] # x
  <2>1. ASSUME x # t.root PROVE p \in ArmedIn(t) /\ \E s \in Sides : x = t.mem[p][s]
    BY <2>1 DEF Hangs, HangsIn
  <2>2. ASSUME x # t.root, NEW s \in Sides, x = t.mem[p][s]
        PROVE  /\ t.mem[p][Side(t, x)] = x /\ p \notin b[x]
               /\ Side(t, x) \in Sides /\ t.mem[p][Other(Side(t, x))] # x
    <3>1. x # Sentinel BY DEF ArmedIn
    <3>2. p \in ArmedIn(t) BY <2>1, <2>2
    <3> QED BY <2>2, <3>1, <3>2, SideOf
  <2> QED BY <2>1, <2>2
<1>4. p \notin {up, inner, x} \/ x = t.root
  <2>1. b[up] \subseteq b[x] /\ x \in b[x]
    BY <1>1, SideFacts DEF Hangs, KidsHang
  <2> QED BY ZenonT(10), <1>1, <1>2, <1>3, <2>1 DEF ArmedIn
<1>5. /\ IsTree(u)
      /\ u.root = IF x = t.root THEN up ELSE t.root
      /\ DOMAIN u.mem = DOMAIN t.mem
      /\ \A z \in DOMAIN t.mem, g \in Fields :
            u.mem[z][g] = RotatedField(t, x, side, up, inner, p, z, g)
  <2>1. x \in DOMAIN t.mem /\ up \in DOMAIN t.mem /\ side \in {"left", "right"} /\ x # up
    BY <1>1 DEF ArmedIn, Sides
  <2>2. x # t.root => p \in DOMAIN t.mem \ {x, up, inner}
    BY <1>3, <1>4 DEF ArmedIn
  <2>3. inner \in DOMAIN t.mem /\ inner # x /\ inner # up BY Zenon, <1>2
  <2>4. Swung(t, u, x, side, up, inner, p)
    BY <2>1, <2>2, <2>3, RotateIs
  <2> QED BY Zenon, <2>4 DEF Swung
<1> HIDE DEF inner, p, o
<1>6. u.mem[x][side] = t.mem[x][side] /\ u.mem[x][Other(side)] = inner
  BY <1>1, <1>3, <1>4, <1>5, SideFacts DEF ArmedIn, RotatedField
<1>7. u.mem[up][side] = x /\ u.mem[up][Other(side)] = t.mem[up][Other(side)]
  BY <1>1, <1>3, <1>4, <1>5, SideFacts DEF ArmedIn, RotatedField
<1>8. ASSUME NEW z \in ArmedIn(t) \ {x, up}, NEW s \in Sides
      PROVE  /\ t.mem[z][s] # up
             /\ u.mem[z][s] = IF t.mem[z][s] = x THEN up ELSE t.mem[z][s]
  <2>1. t.mem[z][s] # up
    BY <1>1, SideOf
  <2>2. CASE t.mem[z][s] = x
    <3>1. p = z /\ Side(t, x) = s /\ x # t.root
      BY <2>2, SideOf DEF ArmedIn, p
    <3> QED BY <1>5, <2>1, <2>2, <3>1, SideFacts DEF ArmedIn, RotatedField
  <2>3. CASE t.mem[z][s] # x
    <3>1. ~(x # t.root /\ z = p /\ s = Side(t, x))
      BY <1>3, <2>3
    <3>2. u.mem[z][s] = t.mem[z][s]
      BY <1>5, <3>1, SideFacts DEF ArmedIn, RotatedField
    <3> QED BY <2>1, <2>3, <3>2
  <2> QED BY <2>2, <2>3, <2>1
<1>9. ASSUME NEW z \in DOMAIN t.mem
      PROVE  /\ u.mem[z].key = t.mem[z].key /\ u.mem[z].color = t.mem[z].color
             /\ Parent(u, z) = IF z = x THEN up
                               ELSE IF z = up THEN p
                               ELSE IF z = inner /\ inner # Sentinel THEN x
                               ELSE Parent(t, z)
  <2>1. side \in Fields /\ Other(side) \in Fields /\ side # "key" /\ side # "color" /\ side # "parent"
        /\ Other(side) # "key" /\ Other(side) # "color" /\ Other(side) # "parent"
        /\ (x # t.root => Side(t, x) # "key" /\ Side(t, x) # "color" /\ Side(t, x) # "parent")
        /\ {"key", "color", "parent"} \subseteq Fields
    BY <1>3, SideFacts
  <2>2. u.mem[z].key = t.mem[z].key
    BY <1>5, <2>1 DEF RotatedField
  <2>3. u.mem[z].color = t.mem[z].color
    BY <1>5, <2>1 DEF RotatedField
  <2>4. u.mem[z].parent = IF z = x THEN up
                               ELSE IF z = up THEN p
                               ELSE IF inner # Sentinel /\ z = inner THEN x
                               ELSE t.mem[z].parent
    BY <1>5, <2>1 DEF RotatedField
  <2> QED BY <2>2, <2>3, <2>4 DEF Parent
<1> QED BY ZenonT(10), <1>5, <1>6, <1>7, <1>8, <1>9 DEF inner, p

(* What a rotation makes of the nodes below each node.                      *)
Turned(t, b, x, side) ==
    LET up == t.mem[x][Other(side)] IN
    [b EXCEPT ![up] = b[x], ![x] = (b[x] \ b[up]) \cup b[t.mem[up][side]]]

(* What hangs below the nodes a rotation is about, before and after: c has  *)
(* what b has, except below up and x.                                       *)
TurnParts(t, b, x, up, outer, inner, far, c) ==
    /\ c \in [Nodes -> SUBSET Ev]
    /\ c[up] = b[x] /\ c[x] = {x} \cup b[outer] \cup b[inner]
    /\ \A z \in Nodes \ {x, up} : c[z] = b[z]
    /\ up \in ArmedIn(t) /\ up # x
    /\ outer \notin {x, up} /\ inner \notin {x, up} /\ far \notin {x, up}
    /\ outer \in DOMAIN t.mem /\ inner \in DOMAIN t.mem /\ far \in DOMAIN t.mem
    /\ b[x] = {x, up} \cup b[outer] \cup b[inner] \cup b[far]
    /\ b[up] = {up} \cup b[inner] \cup b[far]
    /\ x \notin b[outer] /\ x \notin b[inner] /\ x \notin b[far]
    /\ up \notin b[outer] /\ up \notin b[inner] /\ up \notin b[far]
    /\ b[outer] \cap b[inner] = {} /\ b[outer] \cap b[far] = {} /\ b[inner] \cap b[far] = {}
    /\ Parent(t, up) = x
    /\ outer # Sentinel => Parent(t, outer) = x /\ outer \in b[outer]
    /\ inner # Sentinel => Parent(t, inner) = up /\ inner \in b[inner]
    /\ far # Sentinel => Parent(t, far) = up /\ far \in b[far]

(* A rotation moves the parts so.                                           *)
LEMMA TurnedIs ==
    ASSUME NEW t, IsTree(t), NEW b \in [Nodes -> SUBSET Ev], Hangs(t, b),
           DOMAIN t.mem \subseteq Nodes,
           NEW x \in ArmedIn(t), NEW side \in Sides,
           NEW up, up = t.mem[x][Other(side)], up # Sentinel,
           NEW outer, outer = t.mem[x][side],
           NEW inner, inner = t.mem[up][side],
           NEW far, far = t.mem[up][Other(side)],
           NEW c, c = Turned(t, b, x, side)
    PROVE  TurnParts(t, b, x, up, outer, inner, far, c)
<1>1. up \in ArmedIn(t) /\ up \in b[up] /\ x \notin b[up] /\ outer # up /\ up # x /\ Parent(t, up) = x
  BY SideOf, SideFacts
<1>2. KidsHang(t, b, x) /\ KidsHang(t, b, up)
  BY <1>1 DEF Hangs
<1>3. /\ b[x] = {x} \cup b[outer] \cup b[up] /\ x \notin b[outer] /\ b[outer] \cap b[up] = {}
      /\ b[up] = {up} \cup b[inner] \cup b[far] /\ up \notin b[inner] /\ up \notin b[far]
      /\ b[inner] \cap b[far] = {}
      /\ {outer, inner, far} \subseteq DOMAIN t.mem
  <2>1. side \in Sides /\ Other(side) \in Sides /\ Other(Other(side)) = side BY SideFacts
  <2>2. /\ outer \in DOMAIN t.mem /\ b[x] = {x} \cup b[outer] \cup b[up]
        /\ x \notin b[outer] /\ b[outer] \cap b[up] = {}
    <3>1. KidHung(t, b, x, outer, up) BY <1>2, KidHangs
    <3> QED BY Zenon, <3>1 DEF KidHung
  <2>3. /\ inner \in DOMAIN t.mem /\ b[up] = {up} \cup b[inner] \cup b[far]
        /\ up \notin b[inner] /\ b[inner] \cap b[far] = {}
    <3>1. KidHung(t, b, up, inner, far) BY <1>2, KidHangs
    <3> QED BY Zenon, <3>1 DEF KidHung
  <2>4. far \in DOMAIN t.mem /\ up \notin b[far]
    <3>1. KidHung(t, b, up, far, inner) BY <1>2, <2>1, KidHangs
    <3> QED BY Zenon, <3>1 DEF KidHung
  <2> QED BY Zenon, <2>2, <2>3, <2>4
<1>4. /\ outer # Sentinel => outer \in b[outer] /\ Parent(t, outer) = x
      /\ inner # Sentinel => inner \in b[inner] /\ Parent(t, inner) = up
      /\ far # Sentinel => far \in b[far] /\ Parent(t, far) = up
  <2>1. Other(side) \in Sides BY SideFacts
  <2>2. up \in ArmedIn(t) BY Zenon, <1>1
  <2>3. outer # Sentinel => outer \in b[outer] /\ Parent(t, outer) = x
    BY SideOf
  <2>4. inner # Sentinel => inner \in b[inner] /\ Parent(t, inner) = up
    BY <2>2, SideOf
  <2>5. far # Sentinel => far \in b[far] /\ Parent(t, far) = up
    BY <2>1, <2>2, SideOf
  <2> QED BY Zenon, <2>3, <2>4, <2>5
<1>5. x \in Nodes /\ up \in Nodes /\ Sentinel \notin {x, up}
  BY <1>1 DEF ArmedIn
<1>6. c = [b EXCEPT ![up] = b[x], ![x] = (b[x] \ b[up]) \cup b[inner]]
  BY DEF Turned
<1>7. b[x] \subseteq Ev /\ b[up] \subseteq Ev /\ b[inner] \subseteq Ev
  BY Zenon, <1>3, <1>5
<1>8. c \in [Nodes -> SUBSET Ev]
  <2>1. b[x] \in SUBSET Ev /\ (b[x] \ b[up]) \cup b[inner] \in SUBSET Ev
    BY <1>7
  <2> QED BY Zenon, <1>6, <2>1
<1>9. c[up] = b[x] /\ c[x] = (b[x] \ b[up]) \cup b[inner]
      /\ \A z \in Nodes \ {x, up} : c[z] = b[z]
  BY ZenonT(10), <1>1, <1>5, <1>6
<1>10. (b[x] \ b[up]) \cup b[inner] = {x} \cup b[outer] \cup b[inner]
  <2>1. b[x] = {x} \cup b[outer] \cup b[up] /\ x \notin b[up] /\ b[outer] \cap b[up] = {}
    BY Zenon, <1>1, <1>3
  <2> QED BY ZenonT(10), <2>1
<1>11. outer \notin {x, up} /\ inner \notin {x, up} /\ far \notin {x, up}
  BY Zenon, <1>1, <1>3, <1>4, <1>5
<1>12. b[x] = {x, up} \cup b[outer] \cup b[inner] \cup b[far]
  BY Zenon, <1>3
<1>13. /\ x \notin b[outer] /\ x \notin b[inner] /\ x \notin b[far]
       /\ up \notin b[outer] /\ up \notin b[inner] /\ up \notin b[far]
       /\ b[outer] \cap b[inner] = {} /\ b[outer] \cap b[far] = {} /\ b[inner] \cap b[far] = {}
  <2>1. x \notin b[outer] /\ x \notin b[up] /\ up \in b[up] /\ b[outer] \cap b[up] = {}
    BY Zenon, <1>1, <1>3
  <2>2. up \notin b[inner] /\ up \notin b[far] /\ b[up] = {up} \cup b[inner] \cup b[far]
    BY Zenon, <1>3
  <2>3. b[inner] \cap b[far] = {}
    BY Zenon, <1>3
  <2>4. x \notin b[inner] /\ x \notin b[far] /\ up \notin b[outer]
    BY Zenon, <2>1, <2>2
  <2>5. b[outer] \cap b[inner] = {} /\ b[outer] \cap b[far] = {}
    BY Zenon, <2>1, <2>2
  <2> QED BY Zenon, <2>1, <2>2, <2>3, <2>4, <2>5
<1>14. c[x] = {x} \cup b[outer] \cup b[inner]
  BY ZenonT(10), <1>9, <1>10
<1>15. outer \in DOMAIN t.mem /\ inner \in DOMAIN t.mem /\ far \in DOMAIN t.mem
  BY Zenon, <1>3
<1> QED
  BY Zenon, <1>1, <1>3, <1>4, <1>8, <1>9, <1>11, <1>12, <1>13, <1>14, <1>15 DEF TurnParts

(* A rotation keeps every node hanging once, below its parent.              *)
LEMMA RotateHangs ==
    ASSUME NEW t, IsTree(t), NEW b \in [Nodes -> SUBSET Ev], Hangs(t, b),
           DOMAIN t.mem \subseteq Nodes,
           NEW x \in ArmedIn(t), NEW side \in Sides,
           NEW up, up = t.mem[x][Other(side)], up # Sentinel,
           NEW u, u = Rotate(t, x, side), NEW c, c = Turned(t, b, x, side)
    PROVE  Hangs(u, c)
<1> DEFINE A == ArmedIn(t)
<1>0. PICK o, outer, inner, far :
         o = Other(side) /\ outer = t.mem[x][side] /\ inner = t.mem[up][side] /\ far = t.mem[up][Other(side)]
  BY Zenon
<1>1. TurnParts(t, b, x, up, outer, inner, far, c)
  BY <1>0, TurnedIs
<1>1a. c[up] = b[x] /\ c[x] = {x} \cup b[outer] \cup b[inner] /\ \A z \in Nodes \ {x, up} : c[z] = b[z]
  BY Zenon, <1>1 DEF TurnParts
<1>1b. /\ up \in ArmedIn(t) /\ up # x
       /\ outer \notin {x, up} /\ inner \notin {x, up} /\ far \notin {x, up}
       /\ outer \in DOMAIN t.mem /\ inner \in DOMAIN t.mem /\ far \in DOMAIN t.mem
  BY Zenon, <1>1 DEF TurnParts
<1>1c. /\ b[x] = {x, up} \cup b[outer] \cup b[inner] \cup b[far]
       /\ b[up] = {up} \cup b[inner] \cup b[far]
       /\ x \notin b[outer] /\ x \notin b[inner] /\ x \notin b[far]
       /\ up \notin b[outer] /\ up \notin b[inner] /\ up \notin b[far]
       /\ b[outer] \cap b[inner] = {} /\ b[outer] \cap b[far] = {} /\ b[inner] \cap b[far] = {}
  BY Zenon, <1>1 DEF TurnParts
<1>1d. /\ Parent(t, up) = x
       /\ outer # Sentinel => Parent(t, outer) = x /\ outer \in b[outer]
       /\ inner # Sentinel => Parent(t, inner) = up /\ inner \in b[inner]
       /\ far # Sentinel => Parent(t, far) = up /\ far \in b[far]
  BY Zenon, <1>1 DEF TurnParts
<1>2. /\ u.root = IF x = t.root THEN up ELSE t.root
      /\ DOMAIN u.mem = DOMAIN t.mem
      /\ u.mem[x][side] = outer /\ u.mem[x][o] = inner
      /\ u.mem[up][side] = x /\ u.mem[up][o] = far
  BY RotateLinks, <1>0
<1>2a. \A z \in A \ {x, up}, s \in Sides :
            /\ t.mem[z][s] # up
            /\ u.mem[z][s] = IF t.mem[z][s] = x THEN up ELSE t.mem[z][s]
  BY RotateLinks
<1>2b. \A z \in DOMAIN t.mem :
            Parent(u, z) = IF z = x THEN up
                           ELSE IF z = up THEN Parent(t, x)
                           ELSE IF z = inner /\ inner # Sentinel THEN x
                           ELSE Parent(t, z)
  BY RotateLinks, <1>0
<1>3. ArmedIn(u) = A /\ x # Sentinel /\ up # Sentinel /\ A \subseteq DOMAIN t.mem
      /\ A \subseteq Nodes /\ DOMAIN t.mem \subseteq Nodes /\ Sentinel \in Nodes
      /\ DOMAIN t.mem \ {Sentinel} = A
  BY <1>2 DEF ArmedIn, Nodes
<1>4. /\ o \in Sides /\ o # side /\ Other(o) = side /\ Other(side) = o
      /\ \A s \in Sides : s = side \/ s = o
      /\ \A s \in Sides : Other(s) \in Sides
  BY SideFacts, <1>0
<1>5. /\ {t.root, Sentinel} \subseteq DOMAIN t.mem /\ b[t.root] = A /\ b[Sentinel] = {}
      /\ \A z \in A : b[z] \subseteq A /\ KidsHang(t, b, z) /\ Closed(t, b, z)
      /\ \A z \in A \ {t.root} : HangsIn(t, z)
  BY DEF Hangs
<1>5a. up # t.root
  BY <1>0, <1>3, <1>4, SideOf DEF A
<1> HIDE DEF A
<1>6. {u.root, Sentinel} \subseteq DOMAIN u.mem /\ c[u.root] = A /\ c[Sentinel] = {}
  <2>1. {t.root, Sentinel} \subseteq DOMAIN t.mem /\ b[t.root] = A /\ b[Sentinel] = {}
    BY <1>5
  <2>2. u.root = (IF x = t.root THEN up ELSE t.root) /\ DOMAIN u.mem = DOMAIN t.mem
    BY <1>2
  <2>3. c[Sentinel] = {}
    BY <1>1a, <1>3, <2>1
  <2>4. CASE x = t.root
    BY <1>1a, <1>1b, <2>1, <2>2, <2>3, <2>4, <1>3 DEF ArmedIn
  <2>5. CASE x # t.root
    BY <1>1a, <1>5a, <2>1, <2>2, <2>3, <2>5, <1>3
  <2> QED BY <2>4, <2>5
<1>7. ASSUME NEW z \in A \ {x, up}
      PROVE  c[z] = b[z] /\ \A s \in Sides : c[u.mem[z][s]] = b[t.mem[z][s]] /\ t.mem[z][s] \in DOMAIN t.mem
  <2>1. \A s \in Sides : t.mem[z][s] \in DOMAIN t.mem
    BY <1>5 DEF KidsHang
  <2>2. c[z] = b[z]
    BY <1>1a, <1>3
  <2>3. ASSUME NEW s \in Sides PROVE c[u.mem[z][s]] = b[t.mem[z][s]]
    <3>1. t.mem[z][s] # up /\ u.mem[z][s] = IF t.mem[z][s] = x THEN up ELSE t.mem[z][s]
      BY <1>2a
    <3>2. t.mem[z][s] \in Nodes
      BY <1>3, <2>1
    <3>3. CASE t.mem[z][s] = x
      BY <1>1a, <3>1, <3>3
    <3>4. CASE t.mem[z][s] # x
      BY <1>1a, <3>1, <3>2, <3>4
    <3> QED BY <3>3, <3>4
  <2> QED BY <2>1, <2>2, <2>3
<1>8. ASSUME NEW z \in A PROVE c[z] \subseteq A
  <2>1. b[z] \subseteq A /\ b[x] \subseteq A
    BY <1>5 DEF A
  <2>2. CASE z \notin {x, up}
    BY <1>1a, <1>3, <2>1, <2>2
  <2>3. CASE z = up
    BY <1>1a, <2>1, <2>3
  <2>4. CASE z = x
    BY <1>1a, <1>1c, <2>1, <2>4
  <2> QED BY <2>2, <2>3, <2>4
<1>9. ASSUME NEW z \in A PROVE KidsHang(u, c, z)
  <2>1. CASE z \notin {x, up}
    <3> SUFFICES ASSUME NEW s \in Sides
                 PROVE /\ u.mem[z][s] \in DOMAIN u.mem
                       /\ c[z] = {z} \cup c[u.mem[z][s]] \cup c[u.mem[z][Other(s)]]
                       /\ z \notin c[u.mem[z][s]]
                       /\ c[u.mem[z][s]] \cap c[u.mem[z][Other(s)]] = {}
                       /\ u.mem[z][s] # Sentinel => Parent(u, u.mem[z][s]) = z
      BY DEF KidsHang
    <3>1. /\ t.mem[z][s] \in DOMAIN t.mem
          /\ b[z] = {z} \cup b[t.mem[z][s]] \cup b[t.mem[z][Other(s)]]
          /\ z \notin b[t.mem[z][s]]
          /\ b[t.mem[z][s]] \cap b[t.mem[z][Other(s)]] = {}
          /\ t.mem[z][s] # Sentinel => Parent(t, t.mem[z][s]) = z
      BY <1>5 DEF KidsHang
    <3>2. Other(s) \in Sides BY <1>4
    <3>3. c[z] = b[z] /\ c[u.mem[z][s]] = b[t.mem[z][s]] /\ c[u.mem[z][Other(s)]] = b[t.mem[z][Other(s)]]
      BY <1>7, <2>1, <3>2
    <3>4. t.mem[z][s] # up /\ u.mem[z][s] = IF t.mem[z][s] = x THEN up ELSE t.mem[z][s]
      BY <1>2a, <2>1
    <3>5. u.mem[z][s] # Sentinel => Parent(u, u.mem[z][s]) = z
      <4>1. CASE t.mem[z][s] = x
        <5>0. up \in DOMAIN t.mem /\ up # x
          BY <1>1b DEF ArmedIn
        <5>1. Parent(u, up) = Parent(t, x)
          BY <1>2b, <5>0
        <5> QED BY <1>3, <3>1, <3>4, <4>1, <5>1
      <4>2. CASE t.mem[z][s] # x
        <5>1. t.mem[z][s] # Sentinel => ~(t.mem[z][s] = inner)
          BY <1>1a, <1>1b, <1>1c, <1>1d, <2>1, <3>1
        <5> QED BY <1>2b, <3>1, <3>4, <4>2, <5>1
      <4> QED BY <4>1, <4>2
    <3>6. u.mem[z][s] \in DOMAIN u.mem
      <4>1. up \in DOMAIN t.mem
        BY <1>1b DEF ArmedIn
      <4> QED BY <1>2, <3>1, <3>4, <4>1
    <3> QED BY ZenonT(10), <3>1, <3>3, <3>5, <3>6
  <2>2. CASE z = x
    <3>1. c[outer] = b[outer] /\ c[inner] = b[inner]
      BY <1>1a, <1>1b, <1>1c, <1>1d, <1>3
    <3>2. outer # Sentinel => Parent(u, outer) = x
      <4>1. outer # Sentinel => outer # inner
        BY <1>1a, <1>1b, <1>1c, <1>1d
      <4> QED BY <1>1a, <1>1b, <1>1c, <1>1d, <1>2b, <4>1
    <3>3. inner # Sentinel => Parent(u, inner) = x
      BY <1>1a, <1>1b, <1>1c, <1>1d, <1>2b
    <3>4. c[x] = {x} \cup c[outer] \cup c[inner] /\ x \notin c[outer] /\ x \notin c[inner] /\ c[outer] \cap c[inner] = {}
          /\ outer \in DOMAIN u.mem /\ inner \in DOMAIN u.mem
      BY <1>1a, <1>1b, <1>1c, <1>1d, <1>2, <3>1
    <3>5. ASSUME NEW s \in Sides
          PROVE  \/ u.mem[x][s] = outer /\ u.mem[x][Other(s)] = inner
                 \/ u.mem[x][s] = inner /\ u.mem[x][Other(s)] = outer
      BY <1>2, <1>4
    <3> QED BY <2>2, <3>2, <3>3, <3>4, <3>5 DEF KidsHang
  <2>3. CASE z = up
    <3>1. c[far] = b[far]
      BY <1>1a, <1>1b, <1>1c, <1>1d, <1>3
    <3>2. Parent(u, x) = up
      BY <1>2b, <1>3, <1>1b DEF ArmedIn
    <3>3. far # Sentinel => Parent(u, far) = up
      <4>1. far # Sentinel => far # inner
        BY <1>1a, <1>1b, <1>1c, <1>1d
      <4> QED BY <1>1a, <1>1b, <1>1c, <1>1d, <1>2b, <4>1
    <3>4. c[up] = {up} \cup c[x] \cup c[far] /\ up \notin c[x] /\ up \notin c[far] /\ c[x] \cap c[far] = {}
          /\ x \in DOMAIN u.mem /\ far \in DOMAIN u.mem
      <4>1. x \in DOMAIN u.mem
        BY <1>2 DEF ArmedIn
      <4> QED BY <1>1a, <1>1b, <1>1c, <1>1d, <1>2, <3>1, <4>1
    <3>5. ASSUME NEW s \in Sides
          PROVE  \/ u.mem[up][s] = x /\ u.mem[up][Other(s)] = far
                 \/ u.mem[up][s] = far /\ u.mem[up][Other(s)] = x
      BY <1>2, <1>4
    <3> QED BY ZenonT(10), <2>3, <3>2, <3>3, <3>4, <3>5 DEF KidsHang
  <2> QED BY <2>1, <2>2, <2>3
<1>10. ASSUME NEW z \in A, NEW y \in c[z] PROVE c[y] \subseteq c[z] /\ (y # z => Parent(u, y) \in c[z])
  <2>0. Closed(t, b, x) /\ Closed(t, b, up) /\ Closed(t, b, z) /\ x \in b[x]
    BY <1>1a, <1>1b, <1>1c, <1>1d, <1>5 DEF A
  <2>01. y \in A /\ z \in Nodes /\ y \in Nodes /\ y \in DOMAIN t.mem
    BY <1>8, <1>3
  <2>1. CASE z \notin {x, up}
    <3>1. c[z] = b[z] /\ y \in b[z]
      BY <1>7, <2>1
    <3>2. x \in b[z] => b[x] \subseteq b[z]
      BY <2>0 DEF Closed
    <3>3. up \in b[z] => x \in b[z]
      BY <1>1a, <1>1b, <1>1c, <1>1d, <2>0, <2>1 DEF Closed
    <3>4. c[y] \subseteq b[z]
      <4>1. CASE y \notin {x, up}
        BY <1>7, <2>0, <2>01, <3>1, <4>1 DEF Closed
      <4>2. CASE y \in {x, up}
        BY <1>1a, <1>1b, <1>1c, <1>1d, <3>1, <3>2, <3>3, <4>2
      <4> QED BY <4>1, <4>2
    <3>5. y # z => Parent(u, y) \in b[z]
      <4>1. y # z => Parent(t, y) \in b[z]
        BY <2>0, <3>1 DEF Closed
      <4>2. CASE y = x
        BY <1>1a, <1>1b, <1>1c, <1>1d, <1>2b, <2>01, <3>1, <3>2, <4>2
      <4>3. CASE y = up
        <5>1. x \in b[z] /\ x # z
          BY <2>1, <3>1, <3>3, <4>3
        <5>2. Parent(t, x) \in b[z]
          BY <2>0, <5>1 DEF Closed
        <5> QED BY <1>2b, <1>1a, <1>1b, <1>1c, <1>1d, <2>01, <4>3, <5>2
      <4>4. CASE y = inner /\ y \notin {x, up}
        <5>1. y # z => up \in b[z]
          BY <1>1a, <1>1b, <1>1c, <1>1d, <1>3, <2>01, <4>1, <4>4
        <5>2. inner # Sentinel
          BY <1>3, <2>01, <4>4
        <5>3. Parent(u, y) = x
          BY <1>2b, <2>01, <4>4, <5>2
        <5> QED BY <3>3, <5>1, <5>3
      <4>5. CASE y \notin {x, up, inner}
        BY <1>2b, <2>01, <4>1, <4>5
      <4> QED BY <4>2, <4>3, <4>4, <4>5
    <3> QED BY <3>1, <3>4, <3>5
  <2>2. CASE z = up
    <3>1. c[z] = b[x] /\ y \in b[x]
      BY <1>1a, <1>1b, <1>1c, <1>1d, <2>2
    <3>2. c[y] \subseteq b[x]
      <4>1. CASE y \notin {x, up}
        BY <1>7, <2>0, <2>01, <3>1, <4>1 DEF Closed
      <4>2. CASE y \in {x, up}
        BY <1>1a, <1>1b, <1>1c, <1>1d, <4>2
      <4> QED BY <4>1, <4>2
    <3>3. y # up => Parent(u, y) \in b[x]
      <4>1. CASE y = x
        BY <1>1a, <1>1b, <1>1c, <1>1d, <1>2b, <2>01, <4>1
      <4>2. CASE y \notin {x, up}
        <5>1. Parent(t, y) \in b[x]
          BY <2>0, <3>1, <4>2 DEF Closed
        <5> QED BY <1>2b, <2>0, <2>01, <4>2, <5>1
      <4> QED BY <4>1, <4>2
    <3> QED BY <2>2, <3>1, <3>2, <3>3
  <2>3. CASE z = x
    <3>1. c[x] = {x} \cup b[outer] \cup b[inner] /\ b[outer] \subseteq b[x] /\ b[inner] \subseteq b[x]
      BY <1>1a, <1>1b, <1>1c, <1>1d
    <3>2. CASE y = x
      BY <2>3, <3>2
    <3>3. CASE y \in b[outer]
      <4>1. outer \in A /\ y \notin {x, up} /\ y # inner /\ y # Sentinel
        BY <1>1a, <1>1b, <1>1c, <1>1d, <1>3, <1>5, <2>01, <3>3
      <4>2. Closed(t, b, outer)
        BY <1>5, <4>1
      <4>3. c[y] = b[y] /\ b[y] \subseteq b[outer]
        BY <1>7, <2>01, <3>3, <4>1, <4>2 DEF Closed
      <4>4. Parent(u, y) = Parent(t, y)
        BY <1>2b, <2>01, <4>1
      <4>5. y # outer => Parent(t, y) \in b[outer]
        BY <3>3, <4>2 DEF Closed
      <4>6. y = outer => Parent(t, y) = x
        BY <1>1a, <1>1b, <1>1c, <1>1d, <4>1
      <4> QED BY <2>3, <3>1, <4>3, <4>4, <4>5, <4>6
    <3>4. CASE y \in b[inner]
      <4>1. inner \in A /\ y \notin {x, up} /\ y # Sentinel
        BY <1>1a, <1>1b, <1>1c, <1>1d, <1>3, <1>5, <2>01, <3>4
      <4>2. Closed(t, b, inner)
        BY <1>5, <4>1
      <4>3. c[y] = b[y] /\ b[y] \subseteq b[inner]
        BY <1>7, <2>01, <3>4, <4>1, <4>2 DEF Closed
      <4>4. y # inner => Parent(u, y) \in b[inner]
        BY <1>2b, <2>01, <3>4, <4>1, <4>2 DEF Closed
      <4>5. y = inner => Parent(u, y) = x
        BY <1>2b, <2>01, <4>1
      <4> QED BY <2>3, <3>1, <4>3, <4>4, <4>5
    <3> QED BY <2>3, <3>1, <3>2, <3>3, <3>4
  <2> QED BY <2>1, <2>2, <2>3
<1>11. ASSUME NEW z \in A \ {u.root} PROVE HangsIn(u, z)
  <2>1. CASE z = x
    <3>1. Parent(u, x) = up /\ u.mem[up][side] = x
      BY <1>1a, <1>1b, <1>1c, <1>1d, <1>2, <1>2b, <1>3, <2>1
    <3> QED BY <1>1a, <1>1b, <1>1c, <1>1d, <1>3, <2>1, <3>1 DEF HangsIn, A
  <2>2. CASE z = up
    <3>1. x # t.root
      BY <1>2, <2>2
    <3>2. HangsIn(t, x)
      BY <1>5, <3>1 DEF A
    <3>3. Parent(t, x) \in A
      BY <3>2 DEF HangsIn, A
    <3>4. PICK s \in Sides : x = t.mem[Parent(t, x)][s]
      BY <3>2 DEF HangsIn
    <3>5. Parent(t, x) \notin b[x]
      BY <1>3, <3>3, <3>4, SideOf DEF A
    <3>6. Parent(t, x) \notin {x, up}
      BY <1>1a, <1>1b, <1>1c, <1>1d, <3>5
    <3>7. u.mem[Parent(t, x)][s] = up
      BY <1>2a, <3>3, <3>4, <3>6
    <3>8. Parent(u, up) = Parent(t, x)
      BY <1>1a, <1>1b, <1>1c, <1>1d, <1>2b, <2>2, <1>3
    <3> QED BY <1>3, <2>2, <3>3, <3>7, <3>8 DEF HangsIn
  <2>3. CASE z = inner /\ z \notin {x, up}
    <3>1. Parent(u, z) = x
      BY <1>2b, <1>3, <2>3
    <3>2. x \in ArmedIn(u)
      BY <1>3 DEF A
    <3> QED BY <1>2, <1>4, <2>3, <3>1, <3>2 DEF HangsIn
  <2>4. CASE z \notin {x, up, inner}
    <3>1. z # t.root
      <4>1. z = t.root => x # t.root /\ u.root = t.root
        BY <1>2, <2>4
      <4> QED BY <4>1
    <3>2. HangsIn(t, z)
      BY <1>5, <3>1
    <3>3. Parent(u, z) = Parent(t, z)
      BY <1>2b, <1>3, <2>4
    <3>4. Parent(t, z) \in A
      BY <3>2 DEF HangsIn, A
    <3>5. PICK s \in Sides : z = t.mem[Parent(t, z)][s]
      BY <3>2 DEF HangsIn
    <3>6. CASE Parent(t, z) \notin {x, up}
      <4>1. u.mem[Parent(t, z)][s] = z
        BY <1>2a, <2>4, <3>4, <3>5, <3>6
      <4> QED BY <1>3, <3>3, <3>4, <4>1 DEF HangsIn
    <3>7. CASE Parent(t, z) = x
      <4>1. s = side
        BY <1>0, <1>4, <2>4, <3>5, <3>7
      <4>2. u.mem[x][side] = z
        BY <1>0, <1>2, <3>5, <3>7, <4>1
      <4> QED BY <1>3, <3>3, <3>4, <3>7, <4>2 DEF HangsIn
    <3>8. CASE Parent(t, z) = up
      <4>1. s = o
        BY <1>0, <1>4, <2>4, <3>5, <3>8
      <4>2. u.mem[up][o] = z
        BY <1>0, <1>2, <3>5, <3>8, <4>1
      <4> QED BY <1>3, <1>4, <3>3, <3>4, <3>8, <4>2 DEF HangsIn
    <3> QED BY <3>6, <3>7, <3>8
  <2> QED BY <2>1, <2>2, <2>3, <2>4
<1>12. \A z \in A : Closed(u, c, z)
  BY <1>10 DEF Closed
<1> QED BY <1>3, <1>6, <1>8, <1>9, <1>11, <1>12 DEF Hangs

-----------------------------------------------------------------------------
(* Painting, and the order of the nodes.                                    *)

(* Only colours differ.                                                     *)
Recolored(t, u) ==
    /\ IsTree(u) /\ u.root = t.root /\ DOMAIN u.mem = DOMAIN t.mem
    /\ \A y \in DOMAIN t.mem :
          /\ u.mem[y].key = t.mem[y].key /\ u.mem[y].parent = t.mem[y].parent
          /\ \A s \in Sides : u.mem[y][s] = t.mem[y][s]

(* To paint a node changes no link and no key.                              *)
LEMMA PaintRecolors ==
    ASSUME NEW t, IsTree(t), NEW y \in DOMAIN t.mem, NEW c,
           NEW u, u = Paint(t, y, c)
    PROVE  /\ Recolored(t, u)
           /\ \A z \in DOMAIN t.mem : u.mem[z].color = IF z = y THEN c ELSE t.mem[z].color
<1>1. /\ IsTree(u)
      /\ u.root = t.root
      /\ DOMAIN u.mem = DOMAIN t.mem
      /\ \A z \in DOMAIN t.mem, g \in Fields :
            u.mem[z][g] = IF z = y /\ g = "color" THEN c ELSE t.mem[z][g]
  BY PaintIs
<1>2. ASSUME NEW z \in DOMAIN t.mem
      PROVE  /\ u.mem[z].key = t.mem[z].key /\ u.mem[z].parent = t.mem[z].parent
             /\ u.mem[z].color = IF z = y THEN c ELSE t.mem[z].color
  BY <1>1, SideFacts
<1>3. ASSUME NEW z \in DOMAIN t.mem, NEW s \in Sides PROVE u.mem[z][s] = t.mem[z][s]
  BY <1>1, SideFacts
<1> QED BY <1>1, <1>2, <1>3 DEF Recolored

(* Two coats are a coat.                                                    *)
LEMMA RecoloredTwice ==
    ASSUME NEW t, NEW u, NEW v, Recolored(t, u), Recolored(u, v)
    PROVE  Recolored(t, v)
BY DEF Recolored

(* Colours do not tell sides.                                               *)
LEMMA RecoloredSides ==
    ASSUME NEW t, NEW u, Recolored(t, u), NEW x \in DOMAIN t.mem
    PROVE  /\ Parent(u, x) = Parent(t, x)
           /\ Parent(t, x) \in DOMAIN t.mem => Side(u, x) = Side(t, x)
<1>1. "left" \in Sides BY DEF Sides
<1>2. Parent(u, x) = Parent(t, x) BY DEF Recolored, Parent
<1>3. Parent(t, x) \in DOMAIN t.mem => u.mem[Parent(t, x)].left = t.mem[Parent(t, x)].left
  BY <1>1 DEF Recolored
<1> QED BY <1>2, <1>3 DEF Side

(* Colours do not tell what hangs where.                                    *)
LEMMA RecoloredHangs ==
    ASSUME NEW t, NEW u, Recolored(t, u), NEW b, Hangs(t, b)
    PROVE  Hangs(u, b) /\ ArmedIn(u) = ArmedIn(t)
<1>1. /\ u.root = t.root /\ DOMAIN u.mem = DOMAIN t.mem
      /\ \A y \in DOMAIN t.mem : Parent(u, y) = Parent(t, y)
      /\ \A y \in DOMAIN t.mem, s \in Sides : u.mem[y][s] = t.mem[y][s]
  BY DEF Recolored, Parent
<1>2. ArmedIn(u) = ArmedIn(t) /\ ArmedIn(t) \subseteq DOMAIN t.mem
  BY <1>1 DEF ArmedIn
<1>3. ASSUME NEW x \in ArmedIn(t) PROVE KidsHang(u, b, x)
  <2>1. KidsHang(t, b, x) BY DEF Hangs
  <2>2. \A s \in Sides : Other(s) \in Sides BY SideFacts
  <2> SUFFICES ASSUME NEW s \in Sides
               PROVE /\ u.mem[x][s] \in DOMAIN u.mem
                     /\ b[x] = {x} \cup b[u.mem[x][s]] \cup b[u.mem[x][Other(s)]]
                     /\ x \notin b[u.mem[x][s]]
                     /\ b[u.mem[x][s]] \cap b[u.mem[x][Other(s)]] = {}
                     /\ u.mem[x][s] # Sentinel => Parent(u, u.mem[x][s]) = x
    BY DEF KidsHang
  <2>3. u.mem[x][s] = t.mem[x][s] /\ u.mem[x][Other(s)] = t.mem[x][Other(s)]
    BY <1>1, <1>2, <2>2
  <2>4. t.mem[x][s] \in DOMAIN t.mem
    BY <2>1 DEF KidsHang
  <2>5. Parent(u, t.mem[x][s]) = Parent(t, t.mem[x][s])
    BY <1>1, <2>4
  <2>6. /\ b[x] = {x} \cup b[t.mem[x][s]] \cup b[t.mem[x][Other(s)]]
        /\ x \notin b[t.mem[x][s]]
        /\ b[t.mem[x][s]] \cap b[t.mem[x][Other(s)]] = {}
        /\ t.mem[x][s] # Sentinel => Parent(t, t.mem[x][s]) = x
    BY <2>1 DEF KidsHang
  <2> QED BY <1>1, <2>3, <2>4, <2>5, <2>6
<1>4. ASSUME NEW x \in ArmedIn(t) PROVE Closed(u, b, x) /\ b[x] \subseteq ArmedIn(t)
  BY <1>1, <1>2 DEF Hangs, Closed
<1>5. ASSUME NEW x \in ArmedIn(t) \ {t.root} PROVE HangsIn(u, x)
  <2>1. HangsIn(t, x) BY DEF Hangs
  <2> QED BY <1>1, <1>2, <2>1 DEF HangsIn
<1>6. {u.root, Sentinel} \subseteq DOMAIN u.mem /\ b[u.root] = ArmedIn(u) /\ b[Sentinel] = {}
  BY <1>1, <1>2 DEF Hangs
<1> QED BY <1>1, <1>2, <1>3, <1>4, <1>5, <1>6 DEF Hangs

(* One node comes before another: by their keys, or by their ages.          *)
Bef(t, old, x, y) ==
    \/ t.mem[x].key < t.mem[y].key
    \/ t.mem[x].key = t.mem[y].key /\ x \in old[y]

InOrder(t, old, s, y, x) == IF s = "left" THEN Bef(t, old, y, x) ELSE Bef(t, old, x, y)

(* What is below a left kid comes before a node, what is below a right one  *)
(* after.                                                                   *)
SortedIn(t, b, old) ==
    \A x \in ArmedIn(t), s \in Sides : \A y \in b[t.mem[x][s]] : InOrder(t, old, s, y, x)

(* What was in the tree before a node is an order of the nodes.             *)
Ages(A, old) ==
    /\ \A x \in Ev : old[x] \subseteq A
    /\ \A x \in A : x \notin old[x]
    /\ \A x, y \in A : x # y => x \in old[y] \/ y \in old[x]
    /\ \A x, y, z \in A : x \in old[y] /\ y \in old[z] => x \in old[z]

(* The keys of a tree.                                                      *)
KeysOf(t) == \A x \in ArmedIn(t) : t.mem[x].key \in Keys

(* Before is transitive: keys first, ages among equal keys.                 *)
LEMMA BefTransitive ==
    ASSUME NEW t, NEW old, KeysOf(t), Ages(ArmedIn(t), old),
           NEW x \in ArmedIn(t), NEW y \in ArmedIn(t), NEW z \in ArmedIn(t),
           Bef(t, old, x, y), Bef(t, old, y, z)
    PROVE  Bef(t, old, x, z)
<1>1. t.mem[x].key \in Int /\ t.mem[y].key \in Int /\ t.mem[z].key \in Int
  BY Zenon, RbStepsAssumption DEF KeysOf
<1>2. x \in old[y] /\ y \in old[z] => x \in old[z]
  BY DEF Ages
<1> QED BY <1>1, <1>2 DEF Bef

(* The order as one of the sides sees it.                                   *)
LEMMA OrderFacts ==
    ASSUME NEW t, NEW old, KeysOf(t), Ages(ArmedIn(t), old), NEW s \in Sides
    PROVE  /\ \A x, y \in ArmedIn(t) : InOrder(t, old, Other(s), y, x) <=> InOrder(t, old, s, x, y)
           /\ \A x, y, z \in ArmedIn(t) : InOrder(t, old, s, x, y) /\ InOrder(t, old, s, y, z)
                                             => InOrder(t, old, s, x, z)
<1>1. ASSUME NEW x \in ArmedIn(t), NEW y \in ArmedIn(t)
      PROVE  InOrder(t, old, Other(s), y, x) <=> InOrder(t, old, s, x, y)
  BY DEF InOrder, Other, Sides
<1>2. ASSUME NEW x \in ArmedIn(t), NEW y \in ArmedIn(t), NEW z \in ArmedIn(t),
             InOrder(t, old, s, x, y), InOrder(t, old, s, y, z)
      PROVE  InOrder(t, old, s, x, z)
  BY <1>2, BefTransitive DEF InOrder
<1> QED BY <1>1, <1>2

(* Links and colours do not tell the order.                                 *)
LEMMA SameKeysSameOrder ==
    ASSUME NEW t, NEW u, NEW A,
           \A y \in A : u.mem[y].key = t.mem[y].key,
           NEW old
    PROVE  /\ \A x, y \in A : Bef(u, old, x, y) <=> Bef(t, old, x, y)
           /\ \A x, y \in A : \A s : InOrder(u, old, s, x, y) <=> InOrder(t, old, s, x, y)
<1>1. ASSUME NEW x \in A, NEW y \in A PROVE Bef(u, old, x, y) <=> Bef(t, old, x, y)
  BY DEF Bef
<1> QED BY <1>1 DEF InOrder

(* A painted tree is as sorted as it was.                                   *)
LEMMA RecoloredSorted ==
    ASSUME NEW t, NEW u, Recolored(t, u), NEW b, NEW old, Hangs(t, b), SortedIn(t, b, old)
    PROVE  SortedIn(u, b, old)
<1>1. ArmedIn(u) = ArmedIn(t) /\ \A x \in ArmedIn(t), s \in Sides : u.mem[x][s] = t.mem[x][s]
  BY DEF Recolored, ArmedIn
<1>2. \A x, y \in ArmedIn(t) : \A s : InOrder(u, old, s, x, y) <=> InOrder(t, old, s, x, y)
  <2>1. \A y \in ArmedIn(t) : u.mem[y].key = t.mem[y].key
    BY DEF Recolored, ArmedIn
  <2> QED BY <2>1, SameKeysSameOrder
<1>3. ASSUME NEW x \in ArmedIn(t), NEW s \in Sides, NEW y \in b[t.mem[x][s]]
      PROVE  y \in ArmedIn(t)
  <2>1. b[x] \subseteq ArmedIn(t) /\ KidsHang(t, b, x) BY DEF Hangs
  <2> QED BY <2>1 DEF KidsHang
<1> QED BY <1>1, <1>2, <1>3 DEF SortedIn

(* A rotation keeps the tree sorted.                                        *)
LEMMA RotateSorted ==
    ASSUME NEW t, IsTree(t), NEW b \in [Nodes -> SUBSET Ev], Hangs(t, b),
           DOMAIN t.mem \subseteq Nodes,
           NEW x \in ArmedIn(t), NEW side \in Sides,
           NEW up, up = t.mem[x][Other(side)], up # Sentinel,
           NEW u, u = Rotate(t, x, side), NEW c, c = Turned(t, b, x, side),
           NEW old, KeysOf(t), Ages(ArmedIn(t), old), SortedIn(t, b, old)
    PROVE  SortedIn(u, c, old)
<1> DEFINE A == ArmedIn(t)
<1>0. PICK o, outer, inner, far :
         o = Other(side) /\ outer = t.mem[x][side] /\ inner = t.mem[up][side] /\ far = t.mem[up][Other(side)]
  BY Zenon
<1>1. TurnParts(t, b, x, up, outer, inner, far, c)
  BY <1>0, TurnedIs
<1>1a. c[up] = b[x] /\ c[x] = {x} \cup b[outer] \cup b[inner] /\ \A z \in Nodes \ {x, up} : c[z] = b[z]
  BY Zenon, <1>1 DEF TurnParts
<1>1b. /\ up \in ArmedIn(t) /\ up # x
       /\ outer \notin {x, up} /\ inner \notin {x, up} /\ far \notin {x, up}
       /\ outer \in DOMAIN t.mem /\ inner \in DOMAIN t.mem /\ far \in DOMAIN t.mem
  BY Zenon, <1>1 DEF TurnParts
<1>1c. /\ b[x] = {x, up} \cup b[outer] \cup b[inner] \cup b[far]
       /\ b[up] = {up} \cup b[inner] \cup b[far]
  BY Zenon, <1>1 DEF TurnParts
<1>2. /\ DOMAIN u.mem = DOMAIN t.mem
      /\ u.mem[x][side] = outer /\ u.mem[x][o] = inner
      /\ u.mem[up][side] = x /\ u.mem[up][o] = far
  BY RotateLinks, <1>0
<1>2a. \A z \in A \ {x, up}, s \in Sides :
            /\ t.mem[z][s] # up
            /\ u.mem[z][s] = IF t.mem[z][s] = x THEN up ELSE t.mem[z][s]
  BY RotateLinks
<1>2b. \A z \in DOMAIN t.mem : u.mem[z].key = t.mem[z].key
  BY RotateLinks
<1>3. /\ ArmedIn(u) = A /\ A \subseteq DOMAIN t.mem /\ A \subseteq Nodes /\ DOMAIN t.mem \subseteq Nodes
      /\ x \in A /\ up \in A
  BY <1>1b, <1>2 DEF ArmedIn, Nodes
<1>4. /\ o \in Sides /\ Other(o) = side /\ Other(side) = o
      /\ \A s \in Sides : s = side \/ s = o
  BY SideFacts, <1>0
<1>5. \A z, y \in A : \A s : InOrder(u, old, s, z, y) <=> InOrder(t, old, s, z, y)
  <2>1. \A y \in A : u.mem[y].key = t.mem[y].key
    BY <1>2b, <1>3
  <2> HIDE DEF A
  <2> QED BY Zenon, <2>1, SameKeysSameOrder
<1>6. ASSUME NEW z \in A, NEW s \in Sides PROVE b[t.mem[z][s]] \subseteq A /\ t.mem[z][s] \in DOMAIN t.mem
  <2>1. b[z] \subseteq A /\ KidsHang(t, b, z) BY DEF Hangs
  <2> QED BY <2>1 DEF KidsHang
<1>7. \A z, y \in A : InOrder(t, old, o, y, z) <=> InOrder(t, old, side, z, y)
  BY OrderFacts, <1>0
<1>8. \A w, y, z \in A : InOrder(t, old, side, w, y) /\ InOrder(t, old, side, y, z)
                                             => InOrder(t, old, side, w, z)
  BY OrderFacts
<1> HIDE DEF A
<1>9. ASSUME NEW z \in A, NEW s \in Sides, NEW y \in b[t.mem[z][s]] PROVE InOrder(t, old, s, y, z)
  BY DEF SortedIn, A
<1>10. ASSUME NEW z \in A, NEW s \in Sides, NEW y \in c[u.mem[z][s]]
       PROVE  InOrder(t, old, s, y, z) /\ y \in A
  <2>1. CASE z \notin {x, up}
    <3>1. c[u.mem[z][s]] = b[t.mem[z][s]]
      <4>1. t.mem[z][s] # up /\ u.mem[z][s] = IF t.mem[z][s] = x THEN up ELSE t.mem[z][s]
        BY <1>2a, <2>1
      <4>2. t.mem[z][s] \in Nodes
        BY <1>3, <1>6
      <4>3. CASE t.mem[z][s] = x
        BY <1>1a, <4>1, <4>3
      <4>4. CASE t.mem[z][s] # x
        BY <1>1a, <4>1, <4>2, <4>4
      <4> QED BY <4>3, <4>4
    <3> QED BY <1>6, <1>9, <3>1
  <2>2. CASE z = x /\ s = side
    <3>1. c[outer] = b[outer]
      BY <1>1a, <1>1b, <1>3
    <3>2. y \in b[t.mem[x][side]]
      BY <1>0, <1>2, <2>2, <3>1
    <3> QED BY <1>6, <1>9, <2>2, <3>2
  <2>3. CASE z = x /\ s = o
    <3>1. c[inner] = b[inner]
      BY <1>1a, <1>1b, <1>3
    <3>2. y \in b[t.mem[x][o]]
      BY Zenon, <1>0, <1>1c, <1>2, <2>3, <3>1
    <3> QED BY <1>6, <1>9, <2>3, <3>2
  <2>4. CASE z = up /\ s = o
    <3>1. c[far] = b[far]
      BY <1>1a, <1>1b, <1>3
    <3>2. y \in b[t.mem[up][o]]
      BY ZenonT(10), <1>0, <1>2, <2>4, <3>1
    <3> QED BY <1>6, <1>9, <2>4, <3>2
  <2>5. CASE z = up /\ s = side
    <3>1. y \in {x} \cup b[outer] \cup b[inner]
      BY <1>1a, <1>2, <2>5
    <3>2. InOrder(t, old, side, x, up)
      <4>1. up \in b[t.mem[x][o]]
        BY ZenonT(10), <1>0, <1>1c
      <4>2. InOrder(t, old, o, up, x)
        BY <1>3, <1>4, <1>9, <4>1
      <4> QED BY <1>3, <1>7, <4>2
    <3>3. CASE y = x
      BY <1>3, <2>5, <3>2, <3>3
    <3>4. CASE y \in b[inner]
      BY <1>0, <1>3, <1>6, <1>9, <2>5, <3>4
    <3>5. CASE y \in b[outer]
      <4>1. y \in A /\ InOrder(t, old, side, y, x)
        BY <1>0, <1>3, <1>6, <1>9, <3>5
      <4> QED BY <1>3, <1>8, <2>5, <3>2, <4>1
    <3> QED BY <3>1, <3>3, <3>4, <3>5
  <2> QED BY <1>4, <2>1, <2>2, <2>3, <2>4, <2>5
<1> QED BY <1>3, <1>5, <1>10 DEF SortedIn

-----------------------------------------------------------------------------
(* Trees, whatever their colours.                                           *)

(* The fields hold what their types say.                                    *)
Typed(t) ==
    \A x \in DOMAIN t.mem : Parent(t, x) \in Ev \cup {Null} /\ t.mem[x].color \in {Red, Black}

(* A tree whose links, keys and fields are as they should be.               *)
Struct(t, b, old) ==
    /\ IsTree(t) /\ DOMAIN t.mem \subseteq Nodes /\ Typed(t)
    /\ b \in [Nodes -> SUBSET Ev] /\ Hangs(t, b)
    /\ KeysOf(t) /\ Ages(ArmedIn(t), old) /\ SortedIn(t, b, old)

(* A painted tree is a tree, if red and black are the colours.              *)
LEMMA RecoloredStruct ==
    ASSUME NEW t, NEW b, NEW old, Struct(t, b, old), NEW u, Recolored(t, u),
           \A x \in DOMAIN t.mem : u.mem[x].color \in {Red, Black}
    PROVE  Struct(u, b, old) /\ ArmedIn(u) = ArmedIn(t)
<1>1. Hangs(u, b) /\ ArmedIn(u) = ArmedIn(t)
  BY RecoloredHangs DEF Struct
<1>2. SortedIn(u, b, old)
  BY RecoloredSorted DEF Struct
<1>3. IsTree(u) /\ DOMAIN u.mem = DOMAIN t.mem
  BY DEF Recolored
<1>4. Typed(u)
  BY <1>3 DEF Struct, Typed, Recolored, Parent
<1>5. KeysOf(u)
  BY <1>1 DEF Struct, KeysOf, Recolored, ArmedIn
<1> QED BY <1>1, <1>2, <1>3, <1>4, <1>5 DEF Struct

(* A rotated tree is a tree of the same nodes.                              *)
LEMMA RotateStruct ==
    ASSUME NEW t, NEW b, NEW old, Struct(t, b, old),
           NEW x \in ArmedIn(t), NEW side \in Sides,
           NEW up, up = t.mem[x][Other(side)], up # Sentinel,
           NEW u, u = Rotate(t, x, side), NEW c, c = Turned(t, b, x, side)
    PROVE  /\ Struct(u, c, old) /\ ArmedIn(u) = ArmedIn(t)
           /\ up \in ArmedIn(t) /\ up # x
<1>0. /\ IsTree(t) /\ DOMAIN t.mem \subseteq Nodes /\ Typed(t) /\ b \in [Nodes -> SUBSET Ev] /\ Hangs(t, b)
      /\ KeysOf(t) /\ Ages(ArmedIn(t), old) /\ SortedIn(t, b, old)
  BY DEF Struct
<1>1. Hangs(u, c)
  BY <1>0, RotateHangs
<1>2. SortedIn(u, c, old)
  BY <1>0, RotateSorted
<1>3. IsTree(u) /\ DOMAIN u.mem = DOMAIN t.mem
  BY <1>0, RotateLinks
<1>4. c \in [Nodes -> SUBSET Ev] /\ up \in ArmedIn(t) /\ up # x
  <2>1. PICK outer, inner, far : outer = t.mem[x][side] /\ inner = t.mem[up][side] /\ far = t.mem[up][Other(side)]
    BY Zenon
  <2>2. TurnParts(t, b, x, up, outer, inner, far, c)
    BY <1>0, <2>1, TurnedIs
  <2> QED BY Zenon, <2>2 DEF TurnParts
<1>5. \A z \in DOMAIN t.mem :
                 /\ u.mem[z].key = t.mem[z].key /\ u.mem[z].color = t.mem[z].color
                 /\ Parent(u, z) \in {up, Parent(t, x), x, Parent(t, z)}
  <2>1. \A z \in DOMAIN t.mem :
                 /\ u.mem[z].key = t.mem[z].key /\ u.mem[z].color = t.mem[z].color
                 /\ Parent(u, z) = IF z = x THEN up
                                   ELSE IF z = up THEN Parent(t, x)
                                   ELSE IF z = t.mem[up][side] /\ t.mem[up][side] # Sentinel THEN x
                                   ELSE Parent(t, z)
    BY <1>0, RotateLinks
  <2> QED BY <2>1
<1>6. Typed(u)
  <2>1. up \in Ev /\ x \in Ev /\ Parent(t, x) \in Ev \cup {Null}
    BY <1>0, <1>4 DEF ArmedIn, Typed, Nodes
  <2> QED BY <1>0, <1>3, <1>5, <2>1 DEF Typed
<1>7. ArmedIn(u) = ArmedIn(t)
  BY <1>3 DEF ArmedIn
<1>8. KeysOf(u)
  BY <1>0, <1>5, <1>7 DEF KeysOf, ArmedIn
<1>9. Ages(ArmedIn(u), old)
  BY <1>0, <1>7
<1> QED BY <1>0, <1>1, <1>2, <1>3, <1>4, <1>6, <1>7, <1>8, <1>9 DEF Struct

(* What a rotation makes of a tree v that t became by painting: the links   *)
(* turn as they do in t, and the colours are those of v.                    *)
PaintedTurn(t, b, old, v, x, side, up, u, c) ==
    /\ Struct(u, c, old) /\ ArmedIn(u) = ArmedIn(t) /\ DOMAIN u.mem = DOMAIN t.mem
    /\ u.root = IF x = t.root THEN up ELSE t.root
    /\ u.mem[x][side] = t.mem[x][side] /\ u.mem[x][Other(side)] = t.mem[up][side]
    /\ u.mem[up][side] = x /\ u.mem[up][Other(side)] = t.mem[up][Other(side)]
    /\ \A z \in ArmedIn(t) \ {x, up}, s \in Sides :
          /\ t.mem[z][s] # up
          /\ u.mem[z][s] = IF t.mem[z][s] = x THEN up ELSE t.mem[z][s]
    /\ \A z \in DOMAIN t.mem : u.mem[z].color = v.mem[z].color
    /\ \A z \in DOMAIN t.mem \ {x, up} :
          z # t.mem[up][side] \/ z = Sentinel => Parent(u, z) = Parent(t, z)
    /\ Parent(u, x) = up
    /\ t.mem[up][side] # Sentinel => Parent(u, t.mem[up][side]) = x

(* A painted tree turns so.                                                 *)
LEMMA PaintedRotated ==
    ASSUME NEW t, NEW b, NEW old, Struct(t, b, old), NEW v, Recolored(t, v),
           \A z \in DOMAIN t.mem : v.mem[z].color \in {Red, Black},
           NEW x \in ArmedIn(t), NEW side \in Sides,
           NEW up, up = t.mem[x][Other(side)], up # Sentinel,
           NEW u, u = Rotate(v, x, side), NEW c, c = Turned(t, b, x, side)
    PROVE  PaintedTurn(t, b, old, v, x, side, up, u, c)
<1>1. Struct(v, b, old) /\ ArmedIn(v) = ArmedIn(t)
  BY RecoloredStruct
<1>2. Other(side) \in Sides
  BY SideFacts
<1>3. v.root = t.root /\ DOMAIN v.mem = DOMAIN t.mem /\ x \in DOMAIN t.mem /\ ArmedIn(t) \subseteq DOMAIN t.mem
      /\ \A y \in DOMAIN t.mem : Parent(v, y) = Parent(t, y) /\ \A s \in Sides : v.mem[y][s] = t.mem[y][s]
  BY DEF Recolored, Parent, ArmedIn
<1>4. up = v.mem[x][Other(side)]
  BY <1>2, <1>3
<1>5. up \in ArmedIn(v) /\ up # x
  BY <1>1, <1>4, RotateStruct
<1>6. c = Turned(v, b, x, side)
  <2>1. v.mem[x][Other(side)] = t.mem[x][Other(side)] /\ v.mem[up][side] = t.mem[up][side]
    BY <1>1, <1>2, <1>3, <1>5
  <2> QED BY <2>1 DEF Turned
<1>7. Struct(u, c, old) /\ ArmedIn(u) = ArmedIn(t)
  BY <1>1, <1>4, <1>6, RotateStruct
<1>8. IsTree(v) /\ Hangs(v, b)
  BY <1>1 DEF Struct
<1>9. t.mem[up][side] = v.mem[up][side] /\ t.mem[up][Other(side)] = v.mem[up][Other(side)] /\ t.mem[x][side] = v.mem[x][side]
  BY <1>1, <1>2, <1>3, <1>5
<1>10. /\ DOMAIN u.mem = DOMAIN v.mem
       /\ u.root = IF x = v.root THEN up ELSE v.root
       /\ u.mem[x][side] = v.mem[x][side] /\ u.mem[x][Other(side)] = v.mem[up][side]
       /\ u.mem[up][side] = x /\ u.mem[up][Other(side)] = v.mem[up][Other(side)]
  BY <1>1, <1>4, <1>8, RotateLinks
<1>11. \A z \in ArmedIn(t) \ {x, up}, s \in Sides :
                 /\ t.mem[z][s] # up
                 /\ u.mem[z][s] = IF t.mem[z][s] = x THEN up ELSE t.mem[z][s]
  <2>1. \A z \in ArmedIn(v) \ {x, up}, s \in Sides :
                 /\ v.mem[z][s] # up
                 /\ u.mem[z][s] = IF v.mem[z][s] = x THEN up ELSE v.mem[z][s]
    BY <1>1, <1>4, <1>8, RotateLinks
  <2> QED BY <1>1, <1>3, <2>1
<1>12. \A z \in DOMAIN v.mem :
          /\ u.mem[z].color = v.mem[z].color
          /\ Parent(u, z) = IF z = x THEN up
                            ELSE IF z = up THEN Parent(v, x)
                            ELSE IF z = v.mem[up][side] /\ v.mem[up][side] # Sentinel THEN x
                            ELSE Parent(v, z)
  BY <1>1, <1>4, <1>8, RotateLinks
<1>13. \A z \in DOMAIN t.mem \ {x, up} :
                 z # t.mem[up][side] \/ z = Sentinel => Parent(u, z) = Parent(t, z)
  BY ZenonT(10), <1>3, <1>9, <1>12
<1>14. Parent(u, x) = up
  BY <1>3, <1>12
<1>15. t.mem[up][side] # Sentinel => Parent(u, t.mem[up][side]) = x
  <2>1. KidsHang(t, b, up) /\ up \in ArmedIn(t)
    BY <1>1, <1>5 DEF Struct, Hangs
  <2>2. t.mem[up][side] \in DOMAIN t.mem /\ up \notin b[t.mem[up][side]] /\ b[t.mem[up][side]] \subseteq b[up]
    BY ZenonT(10), <2>1 DEF KidsHang
  <2>3. Hangs(t, b) /\ t.mem[up][side] # Sentinel => t.mem[up][side] \in b[t.mem[up][side]]
    BY <2>1, SideOf DEF Struct
  <2>4. Hangs(t, b) BY DEF Struct
  <2>5. up \in b[up] /\ x \notin b[up]
    BY <1>2, <2>4, SideOf
  <2>6. t.mem[up][side] # Sentinel => t.mem[up][side] # x /\ t.mem[up][side] # up
    BY ZenonT(10), <2>2, <2>3, <2>4, <2>5
  <2> QED BY ZenonT(40), <1>3, <1>9, <1>12, <2>2, <2>6
<1>16. /\ DOMAIN u.mem = DOMAIN t.mem
       /\ u.root = IF x = t.root THEN up ELSE t.root
       /\ u.mem[x][side] = t.mem[x][side] /\ u.mem[x][Other(side)] = t.mem[up][side]
       /\ u.mem[up][side] = x /\ u.mem[up][Other(side)] = t.mem[up][Other(side)]
  BY <1>3, <1>9, <1>10
<1>17. \A z \in DOMAIN t.mem : u.mem[z].color = v.mem[z].color
  BY <1>3, <1>12
<1> QED BY Zenon, <1>7, <1>16, <1>11, <1>17, <1>13, <1>14, <1>15 DEF PaintedTurn

-----------------------------------------------------------------------------
(* Colours and black nodes, and the loop of rbtree_insert.                  *)

Black01(t, x) == IF IsRed(t, x) THEN 0 ELSE 1

(* All ways down from a node have as many black nodes; those to the kid of  *)
(* q on side r are one short.                                               *)
HeightsIn(t, h, q, r) ==
    /\ h \in [Nodes -> Nat]
    /\ \A x \in Nodes \ ArmedIn(t) : h[x] = 0
    /\ \A x \in ArmedIn(t), s \in Sides :
          h[x] = h[t.mem[x][s]] + Black01(t, x) + (IF x = q /\ s = r THEN 1 ELSE 0)

(* A red node has a red kid only where the loops are at work.               *)
Exempt(j, a, x, y) ==
    \/ j \in {"insert", "delete"} /\ a = y
    \/ j = "delete" /\ a = x

ColorsIn(t, j, a) ==
    /\ ~IsRed(t, Sentinel)
    /\ IsRed(t, t.root) => j = "insert" /\ a = t.root
    /\ \A x \in ArmedIn(t), s \in Sides :
          IsRed(t, x) /\ IsRed(t, t.mem[x][s]) => Exempt(j, a, x, t.mem[x][s])

(* The colours are two numbers.                                             *)
LEMMA ColorNumbers == Red # Black /\ Red = 1 /\ Black = 0
BY DEF Red, Black

(* The parent, the side and the sibling of a node that is not the root.     *)
LEMMA Above ==
    ASSUME NEW t, NEW b, Hangs(t, b), NEW a \in ArmedIn(t), a # t.root
    PROVE  /\ Parent(t, a) \in ArmedIn(t) /\ Side(t, a) \in Sides
           /\ a = t.mem[Parent(t, a)][Side(t, a)]
           /\ Sibling(t, a) = t.mem[Parent(t, a)][Other(Side(t, a))]
           /\ Sibling(t, a) # a /\ Parent(t, a) # a
<1>1. HangsIn(t, a) BY DEF Hangs
<1>2. PICK s \in Sides : a = t.mem[Parent(t, a)][s] BY <1>1 DEF HangsIn
<1>3. Parent(t, a) \in ArmedIn(t) /\ a # Sentinel BY <1>1 DEF HangsIn, ArmedIn
<1>4. Side(t, a) = s /\ t.mem[Parent(t, a)][Other(s)] # a /\ a \in b[a] /\ Parent(t, a) \notin b[a]
  BY <1>2, <1>3, SideOf
<1> QED BY <1>2, <1>3, <1>4 DEF Sibling

(* What a node of the tree has below it.                                    *)
LEMMA Below ==
    ASSUME NEW t, NEW b, Hangs(t, b), NEW x \in ArmedIn(t), NEW s \in Sides, NEW y, y = t.mem[x][s]
    PROVE  /\ y \in DOMAIN t.mem /\ y # x
           /\ y # Sentinel => y \in ArmedIn(t) /\ Parent(t, y) = x /\ Side(t, y) = s /\ y # t.root
                              /\ t.mem[x][Other(s)] # y
<1>1. KidsHang(t, b, x) BY DEF Hangs
<1>2. y \in DOMAIN t.mem BY <1>1 DEF KidsHang
<1>3. y # x
  <2>1. CASE y = Sentinel BY <2>1 DEF ArmedIn
  <2>2. CASE y # Sentinel BY <2>2, SideOf
  <2> QED BY <2>1, <2>2
<1>4. y # Sentinel => y \in ArmedIn(t) /\ Parent(t, y) = x /\ Side(t, y) = s /\ y # t.root
                              /\ t.mem[x][Other(s)] # y
  BY SideOf
<1> QED BY <1>2, <1>3, <1>4

(* Where the loop of rbtree_insert is at work.                              *)
InsertAt(t, b, old, h, a) ==
    /\ Struct(t, b, old) /\ HeightsIn(t, h, Null, "left") /\ ColorsIn(t, "insert", a)
    /\ a \in ArmedIn(t) /\ IsRed(t, a)

(* What the loop of rbtree_insert finds about it when it takes a turn: a    *)
(* red parent, and a black grandparent.                                     *)
LEMMA InsertPlace ==
    ASSUME NEW t, NEW b, NEW old, NEW h, NEW a, InsertAt(t, b, old, h, a), InsertLoops(t, a),
           NEW p, p = Parent(t, a), NEW g, g = Grandparent(t, a),
           NEW s1, s1 = Side(t, p), NEW s2, s2 = Side(t, a),
           NEW uncle, uncle = Uncle(t, a)
    PROVE  /\ p \in ArmedIn(t) /\ g \in ArmedIn(t) /\ s1 \in Sides /\ s2 \in Sides
           /\ a = t.mem[p][s2] /\ p = t.mem[g][s1] /\ uncle = t.mem[g][Other(s1)]
           /\ g = Parent(t, p)
           /\ IsRed(t, p) /\ ~IsRed(t, g) /\ p # t.root /\ a # t.root
           /\ a # p /\ p # g /\ a # g /\ uncle \notin {a, p, g}
           /\ uncle \in DOMAIN t.mem
           /\ \A x \in ArmedIn(t), s \in Sides :
                 IsRed(t, x) /\ IsRed(t, t.mem[x][s]) => t.mem[x][s] = a
<1>1. Hangs(t, b) /\ ColorsIn(t, "insert", a) /\ a \in ArmedIn(t) /\ IsRed(t, a)
  BY DEF InsertAt, Struct
<1>2. a # t.root /\ IsRed(t, p)
  BY DEF InsertLoops
<1>3. p \in ArmedIn(t) /\ s2 \in Sides /\ a = t.mem[p][s2] /\ a # p
  BY <1>1, <1>2, Above
<1>4. p # t.root
  BY <1>1, <1>2 DEF ColorsIn
<1>5. /\ g = Parent(t, p) /\ g \in ArmedIn(t) /\ s1 \in Sides /\ p = t.mem[g][s1] /\ p # g
      /\ uncle = t.mem[g][Other(s1)] /\ uncle # p
  <2>1. Hangs(t, b) /\ p \in ArmedIn(t) /\ p # t.root BY Zenon, <1>1, <1>3, <1>4
  <2>2. /\ Parent(t, p) \in ArmedIn(t) /\ Side(t, p) \in Sides
        /\ p = t.mem[Parent(t, p)][Side(t, p)]
        /\ Sibling(t, p) = t.mem[Parent(t, p)][Other(Side(t, p))]
        /\ Sibling(t, p) # p /\ Parent(t, p) # p
    BY <2>1, Above
  <2>3. g = Parent(t, p) /\ uncle = Sibling(t, p) BY DEF Grandparent, Uncle
  <2> QED BY Zenon, <2>2, <2>3
<1>6. \A x \in ArmedIn(t), s \in Sides :
                 IsRed(t, x) /\ IsRed(t, t.mem[x][s]) => t.mem[x][s] = a
  BY <1>1 DEF ColorsIn, Exempt
<1>7. ~IsRed(t, g)
  BY Zenon, <1>2, <1>3, <1>5, <1>6
<1>8. uncle \in DOMAIN t.mem /\ uncle # g /\ (uncle # Sentinel => Parent(t, uncle) = g)
  <2>1. Hangs(t, b) /\ g \in ArmedIn(t) /\ Other(s1) \in Sides /\ uncle = t.mem[g][Other(s1)]
    <3>1. Other(s1) \in Sides BY <1>5, SideFacts
    <3> QED BY Zenon, <1>1, <1>5, <3>1
  <2> QED BY <2>1, Below
<1>9. uncle # a /\ a # g
  BY Zenon, <1>1, <1>3, <1>5, <1>7, <1>8 DEF ArmedIn
<1> QED BY Zenon, <1>1, <1>2, <1>3, <1>4, <1>5, <1>6, <1>7, <1>8, <1>9

(* A red uncle: parent and uncle turn black, the grandparent red, and the   *)
(* loop goes on from there.                                                 *)
LEMMA Climb ==
    ASSUME NEW t, NEW b, NEW old, NEW h, NEW a, InsertAt(t, b, old, h, a), InsertLoops(t, a),
           NEW p, p = Parent(t, a), NEW g, g = Grandparent(t, a),
           NEW uncle, uncle = Uncle(t, a), IsRed(t, uncle),
           NEW u, u = Climbed(t, a),
           NEW k, k = [h EXCEPT ![p] = @ + 1, ![uncle] = @ + 1]
    PROVE  InsertAt(u, b, old, k, g) /\ ArmedIn(u) = ArmedIn(t)
<1>0. PICK s1, s2 : s1 = Side(t, p) /\ s2 = Side(t, a) OBVIOUS
<1>1a. /\ p \in ArmedIn(t) /\ g \in ArmedIn(t) /\ s1 \in Sides /\ s2 \in Sides
       /\ a = t.mem[p][s2] /\ p = t.mem[g][s1] /\ uncle = t.mem[g][Other(s1)]
       /\ g = Parent(t, p)
  BY InsertPlace, <1>0
<1>1b. /\ IsRed(t, p) /\ ~IsRed(t, g) /\ p # t.root /\ a # t.root
       /\ a # p /\ p # g /\ a # g /\ uncle \notin {a, p, g}
       /\ uncle \in DOMAIN t.mem
  BY InsertPlace, <1>0
<1>1c. \A x \in ArmedIn(t), s \in Sides :
                 IsRed(t, x) /\ IsRed(t, t.mem[x][s]) => t.mem[x][s] = a
  BY InsertPlace, <1>0
<1>1d. /\ {a, p, g} \subseteq DOMAIN t.mem /\ a # Sentinel /\ p # Sentinel /\ g # Sentinel
       /\ \A s \in Sides : s = s1 \/ s = Other(s1)
       /\ Other(s1) \in Sides
  <2>1. a \in ArmedIn(t) BY DEF InsertAt
  <2>2. {a, p, g} \subseteq DOMAIN t.mem /\ a # Sentinel /\ p # Sentinel /\ g # Sentinel
    BY Zenon, <1>1a, <2>1 DEF ArmedIn
  <2> QED BY Zenon, <1>1a, <2>2, SideFacts
<1>2. /\ Struct(t, b, old) /\ IsTree(t) /\ Hangs(t, b) /\ HeightsIn(t, h, Null, "left")
      /\ ~IsRed(t, Sentinel) /\ a \in ArmedIn(t) /\ IsRed(t, a) /\ Typed(t)
      /\ (IsRed(t, t.root) => a = t.root)
  BY DEF InsertAt, Struct, ColorsIn
<1>3. PICK v, w : v = Paint(t, p, Black) /\ w = Paint(v, uncle, Black)
  OBVIOUS
<1>4. u = Paint(w, g, Red)
  BY <1>3 DEF Climbed, Grandparent
<1>5. Recolored(t, v) /\ \A z \in DOMAIN t.mem : v.mem[z].color = IF z = p THEN Black ELSE t.mem[z].color
  BY <1>1d, <1>2, <1>3, PaintRecolors
<1>6. Recolored(v, w) /\ \A z \in DOMAIN t.mem : w.mem[z].color = IF z = uncle THEN Black ELSE v.mem[z].color
  <2>1. IsTree(v) /\ DOMAIN v.mem = DOMAIN t.mem BY <1>5 DEF Recolored
  <2> QED BY <1>1b, <1>3, <2>1, PaintRecolors
<1>7. Recolored(w, u) /\ \A z \in DOMAIN t.mem : u.mem[z].color = IF z = g THEN Red ELSE w.mem[z].color
  <2>1. IsTree(w) /\ DOMAIN w.mem = DOMAIN t.mem BY <1>5, <1>6 DEF Recolored
  <2> QED BY <1>1d, <1>4, <2>1, PaintRecolors
<1>8. Recolored(t, u)
  BY <1>5, <1>6, <1>7, RecoloredTwice
<1>9. \A z \in DOMAIN t.mem : IsRed(u, z) <=> (z = g \/ (IsRed(t, z) /\ z # p /\ z # uncle))
  BY <1>1b, <1>5, <1>6, <1>7, ColorNumbers DEF IsRed
<1>10. \A z \in DOMAIN t.mem : u.mem[z].color \in {Red, Black}
  <2>1. \A z \in DOMAIN t.mem : t.mem[z].color \in {Red, Black}
    BY <1>2 DEF Typed
  <2> QED BY <1>5, <1>6, <1>7, <2>1
<1>11. Struct(u, b, old) /\ ArmedIn(u) = ArmedIn(t)
  BY <1>2, <1>8, <1>10, RecoloredStruct
<1>12. /\ \A x \in ArmedIn(t), s \in Sides : u.mem[x][s] = t.mem[x][s] /\ t.mem[x][s] \in DOMAIN t.mem
       /\ ArmedIn(t) \subseteq DOMAIN t.mem /\ u.root = t.root /\ t.root \in DOMAIN t.mem /\ Sentinel \in DOMAIN t.mem
  BY <1>2, <1>8 DEF ArmedIn, Recolored, Hangs, KidsHang
<1>13. uncle \in ArmedIn(t)
  BY <1>1b, <1>2 DEF ArmedIn
<1>14a. uncle # Sentinel
  BY <1>13 DEF ArmedIn
<1>14. /\ h \in [Nodes -> Nat] /\ p \in Nodes /\ uncle \in Nodes /\ DOMAIN t.mem \subseteq Nodes
  BY Zenon, <1>1a, <1>13, <1>2 DEF HeightsIn, Struct, ArmedIn
<1>15. k \in [Nodes -> Nat] /\ \A z \in Nodes : k[z] = IF z \in {p, uncle} THEN h[z] + 1 ELSE h[z]
  BY <1>14, <1>1b
<1>16. HeightsIn(u, k, Null, "left")
  <2>1. \A z \in Nodes \ ArmedIn(u) : k[z] = 0
    BY Zenon, <1>1a, <1>2, <1>11, <1>13, <1>15 DEF HeightsIn
  <2>2. ASSUME NEW x \in ArmedIn(t), NEW s \in Sides
        PROVE  k[x] = k[u.mem[x][s]] + Black01(u, x)
    <3>0. /\ h[x] = h[t.mem[x][s]] + Black01(t, x)
      <4>1. x # Null BY <1>14, RbLinksAssumption, RbStepsAssumption DEF ArmedIn, Nodes
      <4>2. t.mem[x][s] \in Nodes /\ h[t.mem[x][s]] \in Nat /\ Black01(t, x) \in Nat
        BY <1>12, <1>14 DEF Black01
      <4> QED BY <1>2, <4>1, <4>2 DEF HeightsIn
    <3>1. x \in Nodes /\ t.mem[x][s] \in Nodes /\ h[x] \in Nat /\ h[t.mem[x][s]] \in Nat
      BY <1>12, <1>14
    <3>2. t.mem[x][s] \in {p, uncle} => x = g
      <4>1. t.mem[x][s] \in {p, uncle} => Parent(t, t.mem[x][s]) = x
        BY <1>2, <1>1d, <1>14a, Below
      <4>2. Parent(t, p) = g /\ Parent(t, uncle) = g
        <5>1. Hangs(t, b) /\ g \in ArmedIn(t) /\ Other(s1) \in Sides /\ uncle = t.mem[g][Other(s1)]
          BY Zenon, <1>2, <1>1a, <1>1d
        <5>2. Parent(t, uncle) = g
          BY <5>1, <1>14a, Below
        <5> QED BY Zenon, <1>1a, <5>2
      <4> QED BY <4>1, <4>2
    <3>3. CASE x = g
      <4>1. t.mem[x][s] \in {p, uncle}
        BY Zenon, <1>1a, <3>3, SideFacts
      <4>2. Black01(t, x) = 1 /\ Black01(u, x) = 0
        BY <1>1b, <1>9, <1>12, <3>3 DEF Black01
      <4> QED BY <1>1b, <1>12, <1>15, <3>0, <3>1, <3>3, <4>1, <4>2
    <3>4. CASE x \in {p, uncle}
      <4>1. t.mem[x][s] \notin {p, uncle}
        BY <1>1b, <3>2, <3>4
      <4>2. Black01(t, x) = 0 /\ Black01(u, x) = 1
        BY <1>1b, <1>9, <1>12, <3>4 DEF Black01
      <4> QED BY <1>12, <1>15, <3>0, <3>1, <3>4, <4>1, <4>2
    <3>5. CASE x \notin {g, p, uncle}
      <4>1. t.mem[x][s] \notin {p, uncle}
        BY <3>2, <3>5
      <4>2. Black01(t, x) = Black01(u, x)
        BY <1>9, <1>12, <3>5 DEF Black01
      <4> QED BY <1>12, <1>15, <3>0, <3>1, <3>5, <4>1, <4>2
    <3> QED BY <3>3, <3>4, <3>5
  <2>3. \A x \in ArmedIn(t), s \in Sides :
          k[x] = k[u.mem[x][s]] + Black01(u, x) + (IF x = Null /\ s = "left" THEN 1 ELSE 0)
    <3>1. \A x \in ArmedIn(t) : x # Null BY <1>14, RbLinksAssumption, RbStepsAssumption DEF ArmedIn, Nodes
    <3>2. \A x \in ArmedIn(t), s \in Sides : k[u.mem[x][s]] \in Nat /\ Black01(u, x) \in Nat
      BY <1>12, <1>14, <1>15 DEF Black01
    <3> SUFFICES ASSUME NEW x \in ArmedIn(t), NEW s \in Sides
                 PROVE  k[x] = k[u.mem[x][s]] + Black01(u, x) + (IF x = Null /\ s = "left" THEN 1 ELSE 0)
      BY Zenon
    <3>3. k[x] = k[u.mem[x][s]] + Black01(u, x) /\ x # Null
      BY Zenon, <2>2, <3>1
    <3>4. k[u.mem[x][s]] \in Nat /\ Black01(u, x) \in Nat
      BY Zenon, <3>2
    <3>5. (IF x = Null /\ s = "left" THEN 1 ELSE 0) = 0
      BY <3>3
    <3> HIDE DEF Black01
    <3> QED BY <3>3, <3>4, <3>5
  <2> QED BY Zenon, <1>11, <1>15, <2>1, <2>3 DEF HeightsIn
<1>17. ColorsIn(u, "insert", g)
  <2>1. ~IsRed(u, Sentinel)
    BY Zenon, <1>1a, <1>2, <1>9, <1>12 DEF ArmedIn
  <2>2. IsRed(u, u.root) => g = u.root
    BY <1>1b, <1>2, <1>9, <1>12
  <2>3. ASSUME NEW x \in ArmedIn(t), NEW s \in Sides, IsRed(u, x), IsRed(u, u.mem[x][s])
        PROVE  u.mem[x][s] = g
    <3>1. CASE x = g
      <4>1. u.mem[x][s] \in {p, uncle}
        <5>1. s = s1 \/ s = Other(s1) BY Zenon, <1>1a, SideFacts
        <5>2. CASE s = s1 BY Zenon, <1>1a, <1>1d, <1>12, <3>1, <5>2
        <5>3. CASE s = Other(s1) BY Zenon, <1>1a, <1>1d, <1>12, <3>1, <5>3
        <5> QED BY <5>1, <5>2, <5>3
      <4>2. ~IsRed(u, p) /\ ~IsRed(u, uncle)
        BY <1>1b, <1>1d, <1>9
      <4> QED BY <2>3, <4>1, <4>2
    <3>2. CASE x # g
      <4>1. IsRed(t, x) /\ x # p
        BY <1>9, <1>12, <2>3, <3>2
      <4>2. t.mem[x][s] # a
        <5>1. t.mem[x][s] = a => Parent(t, a) = x
          BY <1>1d, <1>2, Below
        <5> QED BY <4>1, <5>1
      <4> QED BY <1>1c, <1>9, <1>12, <2>3, <4>1, <4>2
    <3> QED BY <3>1, <3>2
  <2> QED BY <1>11, <2>1, <2>2, <2>3 DEF ColorsIn, Exempt
<1>18. IsRed(u, g) /\ g \in ArmedIn(u)
  BY Zenon, <1>1a, <1>9, <1>11, <1>12
<1> QED BY <1>11, <1>16, <1>17, <1>18 DEF InsertAt

-----------------------------------------------------------------------------
(* What a rotation does to colours and black nodes.                         *)

(* The heights of a node and of its kids.                                   *)
LEMMA HeightOf ==
    ASSUME NEW t, NEW b, NEW old, Struct(t, b, old), NEW h, NEW q, NEW r, HeightsIn(t, h, q, r),
           NEW x \in ArmedIn(t), NEW s \in Sides
    PROVE  /\ h[x] \in Nat /\ h[t.mem[x][s]] \in Nat
           /\ ~(x = q /\ s = r) => h[x] = h[t.mem[x][s]] + Black01(t, x)
           /\ x = q /\ s = r => h[x] = h[t.mem[x][s]] + Black01(t, x) + 1
<1>1. t.mem[x][s] \in Nodes /\ x \in Nodes
  BY DEF Struct, Hangs, KidsHang, ArmedIn
<1>2. h[x] \in Nat /\ h[t.mem[x][s]] \in Nat /\ Black01(t, x) \in Nat
  BY <1>1 DEF HeightsIn, Black01
<1>3. h[x] = h[t.mem[x][s]] + Black01(t, x) + (IF x = q /\ s = r THEN 1 ELSE 0)
  BY DEF HeightsIn
<1> HIDE DEF Black01
<1>4. CASE x = q /\ s = r
  BY <1>2, <1>3, <1>4
<1>5. CASE ~(x = q /\ s = r)
  <2>1. (IF x = q /\ s = r THEN 1 ELSE 0) = 0 BY <1>5
  <2> QED BY <1>2, <1>3, <1>5, <2>1
<1> QED BY <1>2, <1>4, <1>5

(* The heights at the kid that is short.                                    *)
LEMMA HeightOfShort ==
    ASSUME NEW t, NEW b, NEW old, Struct(t, b, old), NEW x \in ArmedIn(t), NEW s \in Sides,
           NEW h, HeightsIn(t, h, x, s), NEW y, y = t.mem[x][s]
    PROVE  h[x] \in Nat /\ h[y] \in Nat /\ h[x] = h[y] + Black01(t, x) + 1
<1>1. x = x /\ s = s OBVIOUS
<1> QED BY <1>1, HeightOf

(* ... and what makes such a function the heights.                          *)
LEMMA HeightsFrom ==
    ASSUME NEW t, NEW h, NEW q, NEW r,
           h \in [Nodes -> Nat], \A x \in Nodes \ ArmedIn(t) : h[x] = 0,
           \A x \in ArmedIn(t), s \in Sides :
              /\ x \in Nodes /\ t.mem[x][s] \in Nodes
              /\ ~(x = q /\ s = r) => h[x] = h[t.mem[x][s]] + Black01(t, x)
              /\ x = q /\ s = r => h[x] = h[t.mem[x][s]] + Black01(t, x) + 1
    PROVE  HeightsIn(t, h, q, r)
<1> SUFFICES ASSUME NEW x \in ArmedIn(t), NEW s \in Sides
             PROVE  h[x] = h[t.mem[x][s]] + Black01(t, x) + (IF x = q /\ s = r THEN 1 ELSE 0)
  BY DEF HeightsIn
<1>1. Black01(t, x) \in Nat BY DEF Black01
<1>2. h[x] \in Nat /\ h[t.mem[x][s]] \in Nat
  OBVIOUS
<1> HIDE DEF Black01
<1>4. CASE x = q /\ s = r
  BY <1>1, <1>2, <1>4
<1>5. CASE ~(x = q /\ s = r)
  <2>1. (IF x = q /\ s = r THEN 1 ELSE 0) = 0 BY <1>5
  <2>2. h[x] = h[t.mem[x][s]] + Black01(t, x) BY <1>5
  <2> QED BY <1>1, <1>2, <2>1, <2>2
<1> QED BY <1>4, <1>5

(* A rotation at x of a tree v that t became by painting, and who is        *)
(* concerned: up comes up, inner changes sides, outer and far stay.         *)
Pivot(t, b, old, v, x, side, o, up, outer, inner, far, u) ==
    /\ Struct(t, b, old) /\ Recolored(t, v) /\ \A z \in DOMAIN t.mem : v.mem[z].color \in {Red, Black}
    /\ x \in ArmedIn(t) /\ side \in Sides /\ o = Other(side) /\ up = t.mem[x][o] /\ up # Sentinel
    /\ outer = t.mem[x][side] /\ inner = t.mem[up][side] /\ far = t.mem[up][o]
    /\ u = Rotate(v, x, side)

(* All that is known after a rotation of a painted tree.                    *)
LEMMA PivotFacts ==
    ASSUME NEW t, NEW b, NEW old, NEW v, NEW x, NEW side, NEW o, NEW up,
           NEW outer, NEW inner, NEW far, NEW u,
           Pivot(t, b, old, v, x, side, o, up, outer, inner, far, u)
    PROVE  /\ Struct(u, Turned(t, b, x, side), old) /\ ArmedIn(u) = ArmedIn(t) /\ DOMAIN u.mem = DOMAIN t.mem
           /\ u.root = IF x = t.root THEN up ELSE t.root
           /\ u.mem[x][side] = outer /\ u.mem[x][o] = inner
           /\ u.mem[up][side] = x /\ u.mem[up][o] = far
           /\ up \in ArmedIn(t) /\ up # x /\ up # t.root
           /\ outer \notin {x, up} /\ inner \notin {x, up} /\ far \notin {x, up}
           /\ outer \in DOMAIN t.mem /\ inner \in DOMAIN t.mem /\ far \in DOMAIN t.mem
           /\ \A z \in ArmedIn(t) \ {x, up}, s \in Sides :
                 /\ t.mem[z][s] # up
                 /\ u.mem[z][s] = IF t.mem[z][s] = x THEN up ELSE t.mem[z][s]
           /\ \A z \in DOMAIN t.mem : IsRed(u, z) <=> IsRed(v, z)
           /\ \A z \in DOMAIN t.mem \ {x, up} :
                 z # inner \/ z = Sentinel => Parent(u, z) = Parent(t, z)
           /\ Parent(u, x) = up
           /\ inner # Sentinel => Parent(u, inner) = x
<1> /\ Struct(t, b, old) /\ Recolored(t, v) /\ \A z \in DOMAIN t.mem : v.mem[z].color \in {Red, Black}
  BY DEF Pivot
<1> /\ x \in ArmedIn(t) /\ side \in Sides /\ o = Other(side) /\ up = t.mem[x][o] /\ up # Sentinel
    /\ outer = t.mem[x][side] /\ inner = t.mem[up][side] /\ far = t.mem[up][o] /\ u = Rotate(v, x, side)
  BY DEF Pivot
<1>0. PaintedTurn(t, b, old, v, x, side, up, u, Turned(t, b, x, side))
  BY PaintedRotated
<1>1. Struct(u, Turned(t, b, x, side), old) /\ ArmedIn(u) = ArmedIn(t) /\ DOMAIN u.mem = DOMAIN t.mem
      /\ u.root = IF x = t.root THEN up ELSE t.root
  BY Zenon, <1>0 DEF PaintedTurn
<1>2. u.mem[x][side] = outer /\ u.mem[x][o] = inner /\ u.mem[up][side] = x /\ u.mem[up][o] = far
  BY Zenon, <1>0 DEF PaintedTurn
<1>3. IsTree(t) /\ b \in [Nodes -> SUBSET Ev] /\ Hangs(t, b) /\ DOMAIN t.mem \subseteq Nodes
  BY Zenon DEF Struct
<1>4. /\ up \in ArmedIn(t) /\ up # x
      /\ outer \notin {x, up} /\ inner \notin {x, up} /\ far \notin {x, up}
      /\ outer \in DOMAIN t.mem /\ inner \in DOMAIN t.mem /\ far \in DOMAIN t.mem
  <2>1. TurnParts(t, b, x, up, outer, inner, far, Turned(t, b, x, side))
    BY <1>3, TurnedIs
  <2> QED BY Zenon, <2>1 DEF TurnParts
<1>4a. up # t.root
  <2>1. o \in Sides BY SideFacts
  <2> QED BY <1>3, <2>1, SideOf
<1>5. \A z \in ArmedIn(t) \ {x, up}, s \in Sides :
                 /\ t.mem[z][s] # up
                 /\ u.mem[z][s] = IF t.mem[z][s] = x THEN up ELSE t.mem[z][s]
  BY Zenon, <1>0 DEF PaintedTurn
<1>6. \A z \in DOMAIN t.mem : IsRed(u, z) <=> IsRed(v, z)
  <2>1. \A z \in DOMAIN t.mem : u.mem[z].color = v.mem[z].color
    BY Zenon, <1>0 DEF PaintedTurn
  <2> QED BY <2>1 DEF IsRed
<1>7. \A z \in DOMAIN t.mem \ {x, up} :
                 z # inner \/ z = Sentinel => Parent(u, z) = Parent(t, z)
  BY Zenon, <1>0 DEF PaintedTurn
<1>8. Parent(u, x) = up /\ (inner # Sentinel => Parent(u, inner) = x)
  BY Zenon, <1>0 DEF PaintedTurn
<1> QED BY ZenonT(40), <1>1, <1>2, <1>4, <1>4a, <1>5, <1>6, <1>7, <1>8

(* The heights h become k in such a rotation.                               *)
HeightsTurn(t, v, x, side, o, up, outer, inner, far, h, q, r, k, q2, r2) ==
    /\ HeightsIn(t, h, q, r) /\ k \in [Nodes -> Nat]
    /\ \A z \in ArmedIn(t) \ {x, up}, s \in Sides : (z = q /\ s = r) <=> (z = q2 /\ s = r2)
    /\ \A z \in Nodes \ {x, up, far} : k[z] = h[z]
    /\ k[up] = h[x]
    /\ \A z \in ArmedIn(t) \ {x, up, far} : Black01(v, z) = Black01(t, z)
    /\ far = Sentinel => k[far] = h[far]
    /\ far # Sentinel => k[far] - Black01(v, far) = h[far] - Black01(t, far)
    /\ k[x] = k[outer] + Black01(v, x) + (IF x = q2 /\ side = r2 THEN 1 ELSE 0)
    /\ k[x] = k[inner] + Black01(v, x) + (IF x = q2 /\ o = r2 THEN 1 ELSE 0)
    /\ up # q2
    /\ k[up] = k[x] + Black01(v, up) /\ k[up] = k[far] + Black01(v, up)

(* The colours allow it.                                                    *)
ColorsTurn(t, v, x, up, outer, inner, far, j, a) ==
    /\ ~IsRed(t, t.root) /\ ~IsRed(t, Sentinel)
    /\ \A z \in DOMAIN t.mem \ {x, up, far} : IsRed(v, z) <=> IsRed(t, z)
    /\ (IsRed(v, up) => IsRed(t, x)) /\ (IsRed(v, far) => IsRed(t, far))
    /\ \A z \in ArmedIn(t) \ {x, up}, s \in Sides : ~(IsRed(t, z) /\ IsRed(t, t.mem[z][s]))
    /\ IsRed(v, x) /\ IsRed(v, outer) => Exempt(j, a, x, outer)
    /\ IsRed(v, x) /\ IsRed(v, inner) => Exempt(j, a, x, inner)
    /\ IsRed(v, up) /\ IsRed(v, x) => Exempt(j, a, up, x)
    /\ IsRed(v, up) /\ IsRed(v, far) => Exempt(j, a, up, far)

(* Black nodes after a rotation, if only the nodes about it were painted.   *)
LEMMA RotateHeights ==
    ASSUME NEW t, NEW b, NEW old, NEW v, NEW x, NEW side, NEW o, NEW up,
           NEW outer, NEW inner, NEW far, NEW u,
           Pivot(t, b, old, v, x, side, o, up, outer, inner, far, u),
           NEW h, NEW q, NEW r, NEW k, NEW q2, NEW r2,
           HeightsTurn(t, v, x, side, o, up, outer, inner, far, h, q, r, k, q2, r2)
    PROVE  HeightsIn(u, k, q2, r2)
<1>p1. Struct(t, b, old) /\ x \in ArmedIn(t) /\ side \in Sides /\ o = Other(side)
  BY DEF Pivot
<1>h1. HeightsIn(t, h, q, r) /\ k \in [Nodes -> Nat] /\ h \in [Nodes -> Nat]
  BY DEF HeightsTurn, HeightsIn
<1>h2. \A z \in ArmedIn(t) \ {x, up}, s \in Sides : (z = q /\ s = r) <=> (z = q2 /\ s = r2)
  BY DEF HeightsTurn
<1>h3. /\ \A z \in Nodes \ {x, up, far} : k[z] = h[z]
       /\ k[up] = h[x] /\ (far = Sentinel => k[far] = h[far])
  BY DEF HeightsTurn
<1>h4. /\ \A z \in ArmedIn(t) \ {x, up, far} : Black01(v, z) = Black01(t, z)
       /\ far # Sentinel => k[far] - Black01(v, far) = h[far] - Black01(t, far)
  BY DEF HeightsTurn
<1>h5. /\ k[x] = k[outer] + Black01(v, x) + (IF x = q2 /\ side = r2 THEN 1 ELSE 0)
       /\ k[x] = k[inner] + Black01(v, x) + (IF x = q2 /\ o = r2 THEN 1 ELSE 0)
  BY DEF HeightsTurn
<1>h6. /\ up # q2
       /\ k[up] = k[x] + Black01(v, up) /\ k[up] = k[far] + Black01(v, up)
  BY DEF HeightsTurn
<1> DEFINE A == ArmedIn(t)
<1>1a. ArmedIn(u) = A /\ DOMAIN u.mem = DOMAIN t.mem /\ A \subseteq Nodes /\ DOMAIN t.mem \subseteq Nodes
       /\ Hangs(t, b) /\ A \subseteq DOMAIN t.mem
  <2>1. ArmedIn(u) = A /\ DOMAIN u.mem = DOMAIN t.mem
    BY PivotFacts
  <2>2. DOMAIN t.mem \subseteq Nodes /\ Hangs(t, b)
    BY <1>p1 DEF Struct
  <2>3. A \subseteq DOMAIN t.mem
    BY DEF ArmedIn
  <2> QED BY <2>1, <2>2, <2>3
<1>1b. u.mem[x][side] = outer /\ u.mem[x][o] = inner /\ u.mem[up][side] = x /\ u.mem[up][o] = far
  BY PivotFacts
<1>1c. \A z \in A \ {x, up}, s \in Sides :
                 /\ t.mem[z][s] # up
                 /\ u.mem[z][s] = IF t.mem[z][s] = x THEN up ELSE t.mem[z][s]
  BY PivotFacts
<1>2. \A z \in A : Black01(u, z) = Black01(v, z)
  <2>1. \A z \in DOMAIN t.mem : IsRed(u, z) <=> IsRed(v, z)
    BY PivotFacts
  <2> QED BY <1>1a, <2>1 DEF Black01
<1>3. o \in Sides /\ \A s \in Sides : s = side \/ s = o
  BY <1>p1, SideFacts
<1>4. up \in A /\ up # x /\ far \notin {x, up} /\ far \in DOMAIN t.mem
  BY PivotFacts
<1>5. far # Sentinel => far \in A /\ Parent(t, far) = up
  <2>1. far = t.mem[up][o] BY DEF Pivot
  <2> QED BY <1>1a, <1>3, <1>4, <2>1, Below
<1>6. ASSUME NEW z \in A, NEW s \in Sides
      PROVE  t.mem[z][s] \in DOMAIN t.mem /\ u.mem[z][s] \in Nodes
             /\ (far # Sentinel /\ t.mem[z][s] = far => z = up)
  <2>1. t.mem[z][s] \in DOMAIN t.mem
    BY <1>1a, Below
  <2>2. u.mem[z][s] \in DOMAIN u.mem
    <3>1. Struct(u, Turned(t, b, x, side), old)
      BY PivotFacts
    <3>2. Hangs(u, Turned(t, b, x, side))
      BY <3>1 DEF Struct
    <3>3. z \in ArmedIn(u)
      BY <1>1a
    <3> QED BY <3>2, <3>3, Below
  <2>3. t.mem[z][s] = far /\ far # Sentinel => Parent(t, far) = z
    BY <1>1a, Below
  <2> QED BY <1>1a, <1>5, <2>1, <2>2, <2>3
<1>6a. \A z \in A : Black01(t, z) \in Int /\ Black01(v, z) \in Int
  BY DEF Black01
<1> HIDE DEF A, Black01
<1>7. ASSUME NEW z \in A \ {x, up}, NEW s \in Sides
      PROVE  /\ ~(z = q2 /\ s = r2) => k[z] = k[u.mem[z][s]] + Black01(u, z)
             /\ z = q2 /\ s = r2 => k[z] = k[u.mem[z][s]] + Black01(u, z) + 1
  <2>1. k[u.mem[z][s]] = h[t.mem[z][s]]
    <3>1. t.mem[z][s] # up /\ u.mem[z][s] = IF t.mem[z][s] = x THEN up ELSE t.mem[z][s]
      BY <1>1c
    <3>2. t.mem[z][s] \in Nodes /\ (t.mem[z][s] = far => far = Sentinel)
      BY <1>1a, <1>6
    <3> QED BY <1>h3, <3>1, <3>2
  <2>2. /\ h[z] \in Nat /\ h[t.mem[z][s]] \in Nat
        /\ ~(z = q /\ s = r) => h[z] = h[t.mem[z][s]] + Black01(t, z)
        /\ z = q /\ s = r => h[z] = h[t.mem[z][s]] + Black01(t, z) + 1
    <3>1. z \in ArmedIn(t) BY DEF A
    <3> QED BY <1>p1, <1>h1, <3>1, HeightOf
  <2>3. Black01(t, z) \in Int /\ Black01(v, z) \in Int /\ k[z] \in Int
    BY <1>1a, <1>h1, <1>6a
  <2>4. (z = q /\ s = r) <=> (z = q2 /\ s = r2)
    BY <1>h2 DEF A
  <2>5. z # Sentinel /\ Black01(u, z) = Black01(v, z)
    BY <1>2 DEF A, ArmedIn
  <2>6. CASE z = far
    <3>1. k[z] - Black01(v, z) = h[z] - Black01(t, z)
      BY <1>h4, <2>5, <2>6
    <3> QED BY <2>1, <2>2, <2>3, <2>4, <2>5, <3>1
  <2>7. CASE z # far
    <3>1. k[z] = h[z] /\ Black01(v, z) = Black01(t, z)
      BY <1>1a, <1>h3, <1>h4, <2>7 DEF A
    <3> QED BY <2>1, <2>2, <2>3, <2>4, <2>5, <3>1
  <2> QED BY <2>6, <2>7
<1>8. ASSUME NEW s \in Sides
      PROVE  /\ ~(x = q2 /\ s = r2) => k[x] = k[u.mem[x][s]] + Black01(u, x)
             /\ x = q2 /\ s = r2 => k[x] = k[u.mem[x][s]] + Black01(u, x) + 1
  <2>0. x \in A BY <1>p1 DEF A
  <2>1. Black01(u, x) = Black01(v, x) /\ Black01(v, x) \in Int
    BY <1>2, <1>6a, <2>0
  <2>2. k[outer] \in Nat /\ k[inner] \in Nat
    <3>1. u.mem[x][side] \in Nodes /\ u.mem[x][o] \in Nodes BY <1>p1, <1>3, <1>6, <2>0
    <3> QED BY <1>h1, <1>1b, <3>1
  <2>3. CASE s = side
    <3>1. CASE x = q2 /\ side = r2
      BY <1>h5, <1>1b, <2>1, <2>2, <2>3, <3>1
    <3>2. CASE ~(x = q2 /\ side = r2)
      <4>1. k[x] = k[outer] + Black01(v, x) + 0 BY <1>h5, <3>2
      <4> QED BY <1>1b, <2>1, <2>2, <2>3, <3>2, <4>1
    <3> QED BY <3>1, <3>2
  <2>4. CASE s = o
    <3>1. CASE x = q2 /\ o = r2
      BY <1>h5, <1>1b, <2>1, <2>2, <2>4, <3>1
    <3>2. CASE ~(x = q2 /\ o = r2)
      <4>1. k[x] = k[inner] + Black01(v, x) + 0 BY <1>h5, <3>2
      <4> QED BY <1>1b, <2>1, <2>2, <2>4, <3>2, <4>1
    <3> QED BY <3>1, <3>2
  <2> QED BY <1>3, <2>3, <2>4
<1>9. ASSUME NEW s \in Sides
      PROVE  k[up] = k[u.mem[up][s]] + Black01(u, up)
  BY <1>h6, <1>1b, <1>2, <1>3, <1>4
<1>10. \A z \in Nodes \ ArmedIn(u) : k[z] = 0
  <2>1. \A z \in Nodes \ A : h[z] = 0
    BY <1>h1 DEF HeightsIn, A
  <2>2. x \in A /\ up \in A /\ (far \notin A => far = Sentinel)
    BY <1>p1, <1>4, <1>5 DEF A
  <2> QED BY <1>h3, <1>1a, <2>1, <2>2
<1>11. \A z \in ArmedIn(u), s \in Sides :
              /\ z \in Nodes /\ u.mem[z][s] \in Nodes
              /\ ~(z = q2 /\ s = r2) => k[z] = k[u.mem[z][s]] + Black01(u, z)
              /\ z = q2 /\ s = r2 => k[z] = k[u.mem[z][s]] + Black01(u, z) + 1
  <2> SUFFICES ASSUME NEW z \in A, NEW s \in Sides
               PROVE  /\ ~(z = q2 /\ s = r2) => k[z] = k[u.mem[z][s]] + Black01(u, z)
                      /\ z = q2 /\ s = r2 => k[z] = k[u.mem[z][s]] + Black01(u, z) + 1
    BY <1>1a, <1>6
  <2>1. CASE z \notin {x, up}
    BY <1>7, <2>1
  <2>2. CASE z = x
    BY <1>8, <2>2
  <2>3. CASE z = up
    BY <1>h6, <1>9, <2>3
  <2> QED BY <2>1, <2>2, <2>3
<1> QED BY <1>h1, <1>10, <1>11, HeightsFrom

(* Colours after a rotation, if only the nodes about it were painted.       *)
LEMMA RotateColors ==
    ASSUME NEW t, NEW b, NEW old, NEW v, NEW x, NEW side, NEW o, NEW up,
           NEW outer, NEW inner, NEW far, NEW u,
           Pivot(t, b, old, v, x, side, o, up, outer, inner, far, u), NEW j, NEW a,
           ColorsTurn(t, v, x, up, outer, inner, far, j, a)
    PROVE  ColorsIn(u, j, a)
<1>p1. Struct(t, b, old) /\ x \in ArmedIn(t) /\ side \in Sides /\ o = Other(side)
       /\ outer = t.mem[x][side] /\ inner = t.mem[up][side] /\ far = t.mem[up][o]
  BY DEF Pivot
<1>c1. ~IsRed(t, t.root) /\ ~IsRed(t, Sentinel)
  BY DEF ColorsTurn
<1>c2. \A z \in DOMAIN t.mem \ {x, up, far} : IsRed(v, z) <=> IsRed(t, z)
  BY DEF ColorsTurn
<1>c3. (IsRed(v, up) => IsRed(t, x)) /\ (IsRed(v, far) => IsRed(t, far))
  BY DEF ColorsTurn
<1>c4. \A z \in ArmedIn(t) \ {x, up}, s \in Sides : ~(IsRed(t, z) /\ IsRed(t, t.mem[z][s]))
  BY DEF ColorsTurn
<1>c5. /\ IsRed(v, x) /\ IsRed(v, outer) => Exempt(j, a, x, outer)
       /\ IsRed(v, x) /\ IsRed(v, inner) => Exempt(j, a, x, inner)
       /\ IsRed(v, up) /\ IsRed(v, x) => Exempt(j, a, up, x)
       /\ IsRed(v, up) /\ IsRed(v, far) => Exempt(j, a, up, far)
  BY DEF ColorsTurn
<1> DEFINE A == ArmedIn(t)
<1>1a. ArmedIn(u) = A /\ DOMAIN u.mem = DOMAIN t.mem /\ Hangs(t, b) /\ A \subseteq DOMAIN t.mem
       /\ u.root = IF x = t.root THEN up ELSE t.root
  <2>1. ArmedIn(u) = A /\ DOMAIN u.mem = DOMAIN t.mem /\ u.root = IF x = t.root THEN up ELSE t.root
    BY PivotFacts
  <2>2. Hangs(t, b)
    BY <1>p1 DEF Struct
  <2>3. A \subseteq DOMAIN t.mem
    BY DEF ArmedIn
  <2> QED BY <2>1, <2>2, <2>3
<1>1b. u.mem[x][side] = outer /\ u.mem[x][o] = inner /\ u.mem[up][side] = x /\ u.mem[up][o] = far
  BY PivotFacts
<1>1c. \A z \in A \ {x, up}, s \in Sides :
                 /\ t.mem[z][s] # up
                 /\ u.mem[z][s] = IF t.mem[z][s] = x THEN up ELSE t.mem[z][s]
  BY PivotFacts
<1>1d. \A z \in DOMAIN t.mem : IsRed(u, z) <=> IsRed(v, z)
  BY PivotFacts
<1>3. o \in Sides /\ \A s \in Sides : s = side \/ s = o
  BY <1>p1, SideFacts
<1>4. up \in A /\ up # x /\ up # t.root
      /\ outer \in DOMAIN t.mem /\ inner \in DOMAIN t.mem /\ far \in DOMAIN t.mem
  BY PivotFacts
<1>5. far # Sentinel => Parent(t, far) = up /\ far # t.root
  BY <1>p1, <1>1a, <1>3, <1>4, Below
<1>6. x # Sentinel /\ x \in DOMAIN t.mem /\ up # Sentinel /\ up \in DOMAIN t.mem
      /\ t.root \in DOMAIN t.mem /\ Sentinel \in DOMAIN t.mem
  BY <1>p1, <1>1a, <1>4 DEF ArmedIn, Hangs
<1>7. ASSUME NEW z \in A, NEW s \in Sides
      PROVE  t.mem[z][s] \in DOMAIN t.mem
  BY <1>1a, Below
<1> HIDE DEF A
<1>8. ~IsRed(u, Sentinel)
  BY <1>1d, <1>c1, <1>c2, <1>c3, <1>6
<1>9. ~IsRed(u, u.root)
  <2>1. CASE x = t.root
    BY <1>1a, <1>1d, <1>c1, <1>c3, <1>6, <2>1
  <2>2. CASE x # t.root
    BY <1>1a, <1>1d, <1>4, <1>5, <1>6, <1>c1, <1>c2, <1>c3, <2>2
  <2> QED BY <2>1, <2>2
<1>10. ASSUME NEW z \in A \ {x, up}, NEW s \in Sides
       PROVE  ~(IsRed(u, z) /\ IsRed(u, u.mem[z][s]))
  <2>1. t.mem[z][s] # up /\ u.mem[z][s] = IF t.mem[z][s] = x THEN up ELSE t.mem[z][s]
    BY <1>1c
  <2>2. IsRed(u, z) => IsRed(t, z)
    BY <1>1a, <1>1d, <1>c2, <1>c3
  <2>3. IsRed(u, u.mem[z][s]) => IsRed(t, t.mem[z][s])
    <3>1. CASE t.mem[z][s] = x
      BY <1>1d, <1>c3, <1>6, <2>1, <3>1
    <3>2. CASE t.mem[z][s] # x
      BY <1>1d, <1>c2, <1>c3, <1>7, <2>1, <3>2
    <3> QED BY <3>1, <3>2
  <2>4. ~(IsRed(t, z) /\ IsRed(t, t.mem[z][s]))
    BY <1>c4 DEF A
  <2> QED BY <2>2, <2>3, <2>4
<1>11. ASSUME NEW s \in Sides, IsRed(u, x), IsRed(u, u.mem[x][s])
       PROVE  Exempt(j, a, x, u.mem[x][s])
  <2>1. IsRed(v, x) BY <1>1d, <1>6, <1>11
  <2>2. CASE s = side
    BY <1>1b, <1>1d, <1>4, <1>c5, <1>11, <2>1, <2>2
  <2>3. CASE s = o
    BY <1>1b, <1>1d, <1>4, <1>c5, <1>11, <2>1, <2>3
  <2> QED BY <1>3, <2>2, <2>3
<1>12. ASSUME NEW s \in Sides, IsRed(u, up), IsRed(u, u.mem[up][s])
       PROVE  Exempt(j, a, up, u.mem[up][s])
  <2>1. IsRed(v, up) BY <1>1d, <1>6, <1>12
  <2>2. CASE s = side
    BY <1>1b, <1>1d, <1>6, <1>c5, <1>12, <2>1, <2>2
  <2>3. CASE s = o
    BY <1>1b, <1>1d, <1>4, <1>c5, <1>12, <2>1, <2>3
  <2> QED BY <1>3, <2>2, <2>3
<1> QED BY <1>1a, <1>8, <1>9, <1>10, <1>11, <1>12 DEF ColorsIn

-----------------------------------------------------------------------------
(* The turns of rbtree_insert.                                              *)

(* A node of the tree is neither NULL nor the sentinel.                     *)
LEMMA NullIsNoNode ==
    ASSUME NEW t, NEW b, NEW old, Struct(t, b, old)
    PROVE  \A x \in ArmedIn(t) : x # Null /\ x # Sentinel /\ x \in DOMAIN t.mem /\ x \in Nodes
BY RbLinksAssumption, RbStepsAssumption DEF Nodes, Struct, ArmedIn

(* No coat is a coat.                                                       *)
LEMMA RecoloredSelf ==
    ASSUME NEW t, IsTree(t) PROVE Recolored(t, t)
BY DEF Recolored

(* With no way short, heights are simple.                                   *)
LEMMA WholeHeights ==
    ASSUME NEW t, NEW b, NEW old, Struct(t, b, old), NEW h, NEW r, HeightsIn(t, h, Null, r)
    PROVE  \A x \in ArmedIn(t), s \in Sides :
              /\ h[x] \in Nat /\ h[t.mem[x][s]] \in Nat
              /\ h[x] = h[t.mem[x][s]] + Black01(t, x)
<1> SUFFICES ASSUME NEW x \in ArmedIn(t), NEW s \in Sides
             PROVE  /\ h[x] \in Nat /\ h[t.mem[x][s]] \in Nat
                    /\ h[x] = h[t.mem[x][s]] + Black01(t, x)
  OBVIOUS
<1>1. x # Null BY NullIsNoNode
<1> QED BY <1>1, HeightOf

(* ... and what makes such a function the heights.                          *)
LEMMA WholeFrom ==
    ASSUME NEW t, NEW h,
           h \in [Nodes -> Nat], \A x \in Nodes \ ArmedIn(t) : h[x] = 0,
           \A x \in ArmedIn(t), s \in Sides :
              /\ x \in Nodes /\ t.mem[x][s] \in Nodes /\ x # Null
              /\ h[x] = h[t.mem[x][s]] + Black01(t, x)
    PROVE  HeightsIn(t, h, Null, "left")
<1>1. \A x \in ArmedIn(t), s \in Sides :
              /\ x \in Nodes /\ t.mem[x][s] \in Nodes
              /\ ~(x = Null /\ s = "left") => h[x] = h[t.mem[x][s]] + Black01(t, x)
              /\ x = Null /\ s = "left" => h[x] = h[t.mem[x][s]] + Black01(t, x) + 1
  OBVIOUS
<1> QED BY <1>1, HeightsFrom

(* How a node counts on the ways down from it.                              *)
LEMMA BlackNumbers ==
    ASSUME NEW t, NEW x
    PROVE  (IsRed(t, x) => Black01(t, x) = 0) /\ (~IsRed(t, x) => Black01(t, x) = 1)
BY DEF Black01

(* The tree the loop of rbtree_insert is at work on.                        *)
LEMMA InsertFacts ==
    ASSUME NEW t, NEW b, NEW old, NEW h, NEW a, InsertAt(t, b, old, h, a)
    PROVE  /\ Struct(t, b, old) /\ HeightsIn(t, h, Null, "left") /\ a \in ArmedIn(t) /\ IsRed(t, a)
           /\ ~IsRed(t, Sentinel)
           /\ (IsRed(t, t.root) => a = t.root)
           /\ IsTree(t) /\ Hangs(t, b) /\ Typed(t) /\ h \in [Nodes -> Nat]
BY DEF InsertAt, ColorsIn, Struct, HeightsIn

(* A node inside: its parent is rotated up outside first.                   *)
LEMMA InsertBent ==
    ASSUME NEW t, NEW b, NEW old, NEW h, NEW a, InsertAt(t, b, old, h, a), InsertLoops(t, a),
           NEW p, p = Parent(t, a), IsBent(t, a),
           NEW u, u = Rotate(t, p, Side(t, p)),
           NEW c, c = Turned(t, b, p, Side(t, p))
    PROVE  InsertAt(u, c, old, h, p) /\ ArmedIn(u) = ArmedIn(t)
<1>0. PICK g, s1, s2, uncle : g = Grandparent(t, a) /\ s1 = Side(t, p) /\ s2 = Side(t, a) /\ uncle = Uncle(t, a)
  OBVIOUS
<1>1a. p \in ArmedIn(t) /\ s1 \in Sides /\ s2 \in Sides /\ a = t.mem[p][s2]
  BY InsertPlace, <1>0
<1>1b. IsRed(t, p) /\ a # t.root /\ a # p
  BY InsertPlace, <1>0
<1>1c. \A x \in ArmedIn(t), s \in Sides :
                 IsRed(t, x) /\ IsRed(t, t.mem[x][s]) => t.mem[x][s] = a
  BY InsertPlace, <1>0
<1>2a. Struct(t, b, old) /\ HeightsIn(t, h, Null, "left") /\ h \in [Nodes -> Nat]
  BY InsertFacts
<1>2b. a \in ArmedIn(t) /\ IsRed(t, a) /\ ~IsRed(t, Sentinel) /\ (IsRed(t, t.root) => a = t.root)
  BY InsertFacts
<1>2c. IsTree(t) /\ Hangs(t, b) /\ Typed(t)
  BY InsertFacts
<1>3. /\ a # Sentinel /\ a # Null /\ p # Null /\ p # Sentinel
      /\ a \in DOMAIN t.mem /\ p \in DOMAIN t.mem
  BY <1>1a, <1>2a, <1>2b, NullIsNoNode
<1>4. s2 = Other(s1)
  <2>1. s1 # s2
    BY <1>0 DEF IsBent
  <2> QED BY <1>1a, <2>1, SideFacts
<1>5. PICK outer, inner, far : outer = t.mem[p][s1] /\ inner = t.mem[a][s1] /\ far = t.mem[a][s2]
  BY Zenon
<1>6. Pivot(t, b, old, t, p, s1, s2, a, outer, inner, far, u)
  <2>1. Recolored(t, t) /\ \A z \in DOMAIN t.mem : t.mem[z].color \in {Red, Black}
    BY <1>2c, RecoloredSelf DEF Typed
  <2>2. u = Rotate(t, p, s1) BY <1>0
  <2> QED BY Zenon, <1>1a, <1>2a, <1>3, <1>4, <1>5, <2>1, <2>2 DEF Pivot
<1>7. Struct(u, Turned(t, b, p, s1), old) /\ ArmedIn(u) = ArmedIn(t) /\ \A z \in DOMAIN t.mem : IsRed(u, z) <=> IsRed(t, z)
  BY <1>6, PivotFacts
<1>8. Black01(t, p) = 0 /\ Black01(t, a) = 0
  BY <1>1b, <1>2b, BlackNumbers
<1>9. /\ h[p] = h[a] /\ h[p] = h[outer] /\ h[a] = h[inner] /\ h[a] = h[far]
      /\ h[p] \in Nat /\ h[a] \in Nat /\ h[outer] \in Nat /\ h[inner] \in Nat /\ h[far] \in Nat
  <2>0. \A x \in ArmedIn(t), s \in Sides :
              /\ h[x] \in Nat /\ h[t.mem[x][s]] \in Nat
              /\ h[x] = h[t.mem[x][s]] + Black01(t, x)
    BY <1>2a, WholeHeights
  <2>1. h[p] \in Nat /\ h[outer] \in Nat /\ h[p] = h[outer] + Black01(t, p)
    BY Zenon, <1>1a, <1>5, <2>0
  <2>2. h[a] \in Nat /\ h[p] = h[a] + Black01(t, p)
    BY ZenonT(10), <1>1a, <1>5, <2>0
  <2>3. h[inner] \in Nat /\ h[a] = h[inner] + Black01(t, a)
    BY ZenonT(10), <1>1a, <1>2b, <1>5, <2>0
  <2>4. h[far] \in Nat /\ h[a] = h[far] + Black01(t, a)
    BY ZenonT(10), <1>1a, <1>2b, <1>5, <2>0
  <2> QED BY <1>8, <2>1, <2>2, <2>3, <2>4
<1>10. HeightsIn(u, h, Null, "left")
  <2>1. (IF p = Null /\ s1 = "left" THEN 1 ELSE 0) = 0 /\ (IF p = Null /\ s2 = "left" THEN 1 ELSE 0) = 0
    BY <1>3
  <2>2. /\ h[p] = h[outer] + Black01(t, p) + (IF p = Null /\ s1 = "left" THEN 1 ELSE 0)
        /\ h[p] = h[inner] + Black01(t, p) + (IF p = Null /\ s2 = "left" THEN 1 ELSE 0)
    <3>1. h[p] = h[outer] + 0 + 0 BY <1>9
    <3>2. h[p] = h[inner] + 0 + 0
      <4>1. h[p] = h[inner] /\ h[inner] \in Nat BY Zenon, <1>9
      <4> QED BY <4>1
    <3> QED BY <1>8, <2>1, <3>1, <3>2
  <2>3. h[a] = h[p] + Black01(t, a) /\ h[a] = h[far] + Black01(t, a)
    <3>1. h[a] = h[p] + Black01(t, a) BY <1>8, <1>9
    <3>2. h[a] = h[far] + Black01(t, a)
      <4>1. h[a] = h[far] /\ h[far] \in Nat BY Zenon, <1>9
      <4> QED BY <1>8, <4>1
    <3> QED BY <3>1, <3>2
  <2>4. HeightsTurn(t, t, p, s1, s2, a, outer, inner, far, h, Null, "left", h, Null, "left")
    BY Zenon, <1>2a, <1>3, <1>9, <2>2, <2>3 DEF HeightsTurn
  <2> QED BY <1>6, <2>4, RotateHeights
<1>11. ColorsIn(u, "insert", p)
  <2>1. ~IsRed(t, t.root)
    BY <1>1b, <1>2b
  <2>2. ASSUME NEW z \in ArmedIn(t) \ {p, a}, NEW s \in Sides PROVE ~(IsRed(t, z) /\ IsRed(t, t.mem[z][s]))
    <3>1. t.mem[z][s] = a => Parent(t, a) = z
      BY <1>2c, <1>3, Below
    <3> QED BY <1>1c, <3>1
  <2>3. ~IsRed(t, outer)
    <3>1. outer # a
      <4>1. t.mem[p][s2] # Sentinel => t.mem[p][Other(s2)] # t.mem[p][s2]
        BY <1>1a, <1>2c, Below
      <4>2. s1 = Other(s2) BY <1>1a, <1>4, SideFacts
      <4> QED BY Zenon, <1>1a, <1>3, <1>5, <4>1, <4>2
    <3> QED BY Zenon, <1>1a, <1>1b, <1>1c, <1>5, <3>1
  <2>4. ~IsRed(t, inner) /\ ~IsRed(t, far)
    <3>1. t.mem[a][s1] # a /\ t.mem[a][s2] # a
      BY <1>1a, <1>2b, <1>2c, Below
    <3> QED BY ZenonT(10), <1>1a, <1>1c, <1>2b, <1>5, <3>1
  <2>5. Exempt("insert", p, a, p)
    BY DEF Exempt
  <2>6. ColorsTurn(t, t, p, a, outer, inner, far, "insert", p)
    BY <1>1b, <1>2b, <2>1, <2>2, <2>3, <2>4, <2>5 DEF ColorsTurn
  <2> QED BY <1>6, <2>6, RotateColors
<1> QED BY ZenonT(10), <1>0, <1>1a, <1>1b, <1>3, <1>7, <1>10, <1>11 DEF InsertAt

(* A node outside: the rotation at the grandparent ends it.                 *)
LEMMA InsertTurned ==
    ASSUME NEW t, NEW b, NEW old, NEW h, NEW a, InsertAt(t, b, old, h, a), InsertLoops(t, a),
           NEW p, p = Parent(t, a), NEW g, g = Grandparent(t, a),
           ~IsRed(t, Uncle(t, a)), ~IsBent(t, a),
           NEW u, u = InsertRotated(t, a),
           NEW c, c = Turned(t, b, g, Other(Side(t, p))),
           NEW k, k = [h EXCEPT ![p] = @ + 1, ![g] = @ - 1]
    PROVE  InsertAt(u, c, old, k, a) /\ ArmedIn(u) = ArmedIn(t)
<1>0. PICK s1, s2, uncle, side : s1 = Side(t, p) /\ s2 = Side(t, a) /\ uncle = Uncle(t, a) /\ side = Other(s1)
  OBVIOUS
<1>1a. p \in ArmedIn(t) /\ g \in ArmedIn(t) /\ s1 \in Sides /\ s2 \in Sides /\ a = t.mem[p][s2] /\ p = t.mem[g][s1]
  BY InsertPlace, <1>0
<1>1b. IsRed(t, p) /\ ~IsRed(t, g) /\ p # t.root /\ a # t.root /\ a # p /\ p # g /\ a # g
  BY InsertPlace, <1>0
<1>1c. \A x \in ArmedIn(t), s \in Sides :
                 IsRed(t, x) /\ IsRed(t, t.mem[x][s]) => t.mem[x][s] = a
  BY InsertPlace, <1>0
<1>1d. uncle = t.mem[g][side] /\ g = Parent(t, p) /\ uncle \notin {a, p, g} /\ uncle \in DOMAIN t.mem
  BY InsertPlace, <1>0
<1>2a. Struct(t, b, old) /\ HeightsIn(t, h, Null, "left") /\ h \in [Nodes -> Nat]
  BY InsertFacts
<1>2b. a \in ArmedIn(t) /\ IsRed(t, a) /\ ~IsRed(t, Sentinel) /\ (IsRed(t, t.root) => a = t.root)
  BY InsertFacts
<1>2c. IsTree(t) /\ Hangs(t, b) /\ Typed(t)
  BY InsertFacts
<1>3. /\ a # Sentinel /\ a # Null /\ p # Null /\ p # Sentinel /\ g # Null /\ g # Sentinel
      /\ {a, p, g} \subseteq DOMAIN t.mem /\ a \in Nodes /\ p \in Nodes /\ g \in Nodes
  BY Zenon, <1>1a, <1>2a, <1>2b, NullIsNoNode
<1>4. s2 = s1 /\ side \in Sides /\ s1 = Other(side)
  <2>1. s1 = s2
    BY <1>0 DEF IsBent
  <2> QED BY Zenon, <1>0, <1>1a, <2>1, SideFacts
<1>5. PICK w, v : w = Paint(t, p, Black) /\ v = Paint(w, g, Red)
  OBVIOUS
<1>6. u = Rotate(v, g, side)
  BY <1>0, <1>1d, <1>5 DEF InsertRotated
<1>7. Recolored(t, w) /\ \A z \in DOMAIN t.mem : w.mem[z].color = IF z = p THEN Black ELSE t.mem[z].color
  BY <1>2c, <1>3, <1>5, PaintRecolors
<1>8. Recolored(w, v) /\ \A z \in DOMAIN t.mem : v.mem[z].color = IF z = g THEN Red ELSE w.mem[z].color
  <2>1. IsTree(w) /\ DOMAIN w.mem = DOMAIN t.mem /\ g \in DOMAIN t.mem BY <1>3, <1>7 DEF Recolored
  <2> QED BY <1>5, <2>1, PaintRecolors
<1>9. Recolored(t, v)
  BY <1>7, <1>8, RecoloredTwice
<1>10. \A z \in DOMAIN t.mem : v.mem[z].color \in {Red, Black}
  <2>1. \A z \in DOMAIN t.mem : t.mem[z].color \in {Red, Black}
    BY <1>2c DEF Typed
  <2> QED BY <1>7, <1>8, <2>1
<1>11. \A z \in DOMAIN t.mem : IsRed(v, z) <=> (z = g \/ (IsRed(t, z) /\ z # p))
  BY <1>1b, <1>7, <1>8, ColorNumbers DEF IsRed
<1>12. PICK inner, far : inner = t.mem[p][side] /\ far = t.mem[p][s1]
  BY Zenon
<1>13. Pivot(t, b, old, v, g, side, s1, p, uncle, inner, far, u)
  BY Zenon, <1>1a, <1>1d, <1>2a, <1>3, <1>4, <1>6, <1>9, <1>10, <1>12 DEF Pivot
<1>14a. Struct(u, Turned(t, b, g, side), old) /\ ArmedIn(u) = ArmedIn(t) /\ \A z \in DOMAIN t.mem : IsRed(u, z) <=> IsRed(v, z)
  BY <1>13, PivotFacts
<1>14b. inner \notin {g, p} /\ inner \in DOMAIN t.mem /\ far = a
  <2>1. inner \notin {g, p} /\ inner \in DOMAIN t.mem
    BY <1>13, PivotFacts
  <2> QED BY Zenon, <1>1a, <1>4, <1>12, <2>1
<1>15. /\ Black01(t, p) = 0 /\ Black01(t, g) = 1 /\ Black01(v, p) = 1 /\ Black01(v, g) = 0
  <2>1. ~IsRed(v, p) /\ IsRed(v, g) BY <1>1b, <1>3, <1>11
  <2> QED BY <1>1b, <2>1, BlackNumbers
<1>16. /\ h[g] = h[p] + 1 /\ h[g] = h[uncle] + 1 /\ h[p] = h[inner] /\ h[p] = h[a]
       /\ h[p] \in Nat /\ h[g] \in Nat /\ h[uncle] \in Nat
  <2>0. \A x \in ArmedIn(t), s \in Sides :
              /\ h[x] \in Nat /\ h[t.mem[x][s]] \in Nat
              /\ h[x] = h[t.mem[x][s]] + Black01(t, x)
    BY <1>2a, WholeHeights
  <2>1. h[g] \in Nat /\ h[uncle] \in Nat /\ h[g] = h[uncle] + Black01(t, g)
    BY Zenon, <1>1a, <1>1d, <1>4, <2>0
  <2>2. h[p] \in Nat /\ h[g] = h[p] + Black01(t, g)
    BY Zenon, <1>1a, <2>0
  <2>3. h[inner] \in Nat /\ h[p] = h[inner] + Black01(t, p)
    BY Zenon, <1>1a, <1>4, <1>12, <2>0
  <2>4. h[a] \in Nat /\ h[p] = h[a] + Black01(t, p)
    BY ZenonT(40), <1>1a, <1>4, <2>0
  <2> QED BY <1>15, <2>1, <2>2, <2>3, <2>4
<1>17. k \in [Nodes -> Nat] /\ k[p] = h[g] /\ k[g] = h[p] /\ \A z \in Nodes \ {p, g} : k[z] = h[z]
  <2>2. k[p] = h[p] + 1 /\ k[g] = h[g] - 1 /\ \A z \in Nodes \ {p, g} : k[z] = h[z]
    BY <1>1b, <1>2a, <1>3
  <2>3. h[p] + 1 \in Nat /\ h[g] - 1 \in Nat
    BY <1>16
  <2>4. k \in [Nodes -> Nat]
    BY Zenon, <1>2a, <2>3
  <2> QED BY <1>16, <2>2, <2>4
<1>18. HeightsIn(u, k, Null, "left")
  <2>1. (IF g = Null /\ side = "left" THEN 1 ELSE 0) = 0 /\ (IF g = Null /\ s1 = "left" THEN 1 ELSE 0) = 0
    BY <1>3
  <2>2. k[uncle] = h[uncle] /\ k[inner] = h[inner] /\ k[a] = h[a]
    <3>1. DOMAIN t.mem \subseteq Nodes BY <1>2a DEF Struct
    <3> QED BY <1>1b, <1>1d, <1>3, <1>14b, <1>17, <3>1
  <2>3. /\ k[g] = k[uncle] + Black01(v, g) + (IF g = Null /\ side = "left" THEN 1 ELSE 0)
        /\ k[g] = k[inner] + Black01(v, g) + (IF g = Null /\ s1 = "left" THEN 1 ELSE 0)
    <3>1. k[g] = k[uncle] + 0 + 0
      <4>1. h[p] = h[uncle] /\ h[uncle] \in Nat BY <1>16
      <4> QED BY <1>17, <2>2, <4>1
    <3>2. k[g] = k[inner] + 0 + 0 BY <1>16, <1>17, <2>2
    <3> QED BY <1>15, <2>1, <3>1, <3>2
  <2>4. k[p] = k[g] + Black01(v, p) /\ k[p] = k[far] + Black01(v, p)
    BY <1>14b, <1>15, <1>16, <1>17, <2>2
  <2>5. /\ \A z \in Nodes \ {g, p, far} : k[z] = h[z]
        /\ k[p] = h[g] /\ k[far] = h[far]
    BY <1>14b, <1>17, <2>2
  <2>6. Black01(v, far) = Black01(t, far) /\ \A z \in ArmedIn(t) \ {g, p, far} : Black01(v, z) = Black01(t, z)
    <3>1. \A z \in ArmedIn(t) \ {g, p} : IsRed(v, z) <=> IsRed(t, z)
      BY <1>11 DEF ArmedIn
    <3> QED BY <1>1b, <1>2b, <1>14b, <3>1 DEF Black01
  <2>7. k[far] - Black01(v, far) = h[far] - Black01(t, far)
    BY <2>5, <2>6
  <2>8. HeightsTurn(t, v, g, side, s1, p, uncle, inner, far, h, Null, "left", k, Null, "left")
    BY Zenon, <1>2a, <1>3, <1>17, <2>3, <2>4, <2>5, <2>6, <2>7 DEF HeightsTurn
  <2> QED BY <1>13, <2>8, RotateHeights
<1>19. ColorsIn(u, "insert", a)
  <2>1. ~IsRed(t, t.root)
    BY <1>1b, <1>2b
  <2>2. ASSUME NEW z \in ArmedIn(t) \ {g, p}, NEW s \in Sides PROVE ~(IsRed(t, z) /\ IsRed(t, t.mem[z][s]))
    <3>1. t.mem[z][s] = a => Parent(t, a) = z
      BY <1>2c, <1>3, Below
    <3> QED BY <1>1c, <3>1
  <2>3. ~IsRed(v, uncle)
    BY <1>0, <1>1d, <1>11
  <2>4. ~IsRed(v, inner)
    <3>0. inner # a
      <4>0. Hangs(t, b) /\ p \in ArmedIn(t) /\ s1 \in Sides
        BY Zenon, <1>1a, <1>2c
      <4>1. t.mem[p][s1] # Sentinel => t.mem[p][Other(s1)] # t.mem[p][s1]
        BY <4>0, Below
      <4>2. t.mem[p][s1] = a /\ t.mem[p][Other(s1)] = inner
        BY Zenon, <1>0, <1>1a, <1>4, <1>12
      <4> QED BY <1>3, <4>1, <4>2
    <3>1. ~IsRed(t, inner)
      BY Zenon, <1>1a, <1>1b, <1>1c, <1>4, <1>12, <3>0
    <3> QED BY <1>11, <1>14b, <3>1
  <2>5. ~IsRed(v, p)
    BY <1>1b, <1>3, <1>11
  <2>6. \A z \in DOMAIN t.mem \ {g, p, far} : IsRed(v, z) <=> IsRed(t, z)
    BY <1>11
  <2>7. IsRed(v, far) => IsRed(t, far)
    BY <1>2b, <1>14b
  <2>8. ColorsTurn(t, v, g, p, uncle, inner, far, "insert", a)
    BY <1>2b, <2>1, <2>2, <2>3, <2>4, <2>5, <2>6, <2>7 DEF ColorsTurn
  <2> QED BY <1>13, <2>8, RotateColors
<1>20. IsRed(u, a)
  BY <1>1b, <1>2b, <1>3, <1>11, <1>14a
<1>21. c = Turned(t, b, g, side) BY <1>0
<1> QED BY <1>2b, <1>14a, <1>18, <1>19, <1>20, <1>21 DEF InsertAt

(* Nothing is at work on the tree.                                          *)
Settled(t, b, old, h) ==
    Struct(t, b, old) /\ HeightsIn(t, h, Null, "left") /\ ColorsIn(t, "none", Null)

(* The loop of rbtree_insert ends, and the root is painted black.           *)
LEMMA InsertEnds ==
    ASSUME NEW t, NEW b, NEW old, NEW h, NEW a, InsertAt(t, b, old, h, a), ~InsertLoops(t, a),
           NEW u, u = Paint(t, t.root, Black),
           NEW k, k = [h EXCEPT ![t.root] = IF IsRed(t, t.root) THEN @ + 1 ELSE @]
    PROVE  Settled(u, b, old, k) /\ ArmedIn(u) = ArmedIn(t)
<1>2a. Struct(t, b, old) /\ HeightsIn(t, h, Null, "left") /\ h \in [Nodes -> Nat]
  BY InsertFacts
<1>2b. a \in ArmedIn(t) /\ IsRed(t, a) /\ ~IsRed(t, Sentinel) /\ (IsRed(t, t.root) => a = t.root)
  BY InsertFacts
<1>2c. IsTree(t) /\ Hangs(t, b) /\ Typed(t) /\ DOMAIN t.mem \subseteq Nodes
  BY InsertFacts DEF Struct
<1>3. t.root \in DOMAIN t.mem /\ t.root \in Nodes /\ Sentinel \in DOMAIN t.mem
  BY <1>2c DEF Hangs
<1>4. Recolored(t, u) /\ \A z \in DOMAIN t.mem : u.mem[z].color = IF z = t.root THEN Black ELSE t.mem[z].color
  BY <1>2c, <1>3, PaintRecolors
<1>5. \A z \in DOMAIN t.mem : u.mem[z].color \in {Red, Black}
  BY <1>2c, <1>4 DEF Typed
<1>6. Struct(u, b, old) /\ ArmedIn(u) = ArmedIn(t)
  BY <1>2a, <1>4, <1>5, RecoloredStruct
<1>7. \A z \in DOMAIN t.mem : IsRed(u, z) <=> (IsRed(t, z) /\ z # t.root)
  BY <1>4, ColorNumbers DEF IsRed
<1>8. /\ u.root = t.root /\ ArmedIn(t) \subseteq DOMAIN t.mem
      /\ \A x \in ArmedIn(t), s \in Sides : u.mem[x][s] = t.mem[x][s]
  BY <1>4 DEF Recolored, ArmedIn
<1>9. \A x \in ArmedIn(t), s \in Sides : t.mem[x][s] \in DOMAIN t.mem /\ t.mem[x][s] # t.root
  <2>1. \A x \in ArmedIn(t), s \in Sides : t.mem[x][s] \in DOMAIN t.mem /\ (t.mem[x][s] # Sentinel => t.mem[x][s] # t.root)
    BY <1>2c, Below
  <2>2. t.root # Sentinel
    <3>1. b[t.root] = ArmedIn(t) /\ b[Sentinel] = {} BY <1>2c DEF Hangs
    <3> QED BY <1>2b, <3>1
  <2> QED BY <2>1, <2>2
<1>10. k \in [Nodes -> Nat] /\ (\A z \in Nodes \ {t.root} : k[z] = h[z])
       /\ k[t.root] = IF IsRed(t, t.root) THEN h[t.root] + 1 ELSE h[t.root]
  BY <1>2a, <1>3
<1>11. HeightsIn(u, k, Null, "left")
  <2>0. \A x \in ArmedIn(t), s \in Sides :
              /\ h[x] \in Nat /\ h[t.mem[x][s]] \in Nat
              /\ h[x] = h[t.mem[x][s]] + Black01(t, x)
    BY <1>2a, WholeHeights
  <2>1. ASSUME NEW x \in ArmedIn(t), NEW s \in Sides
        PROVE  x \in Nodes /\ u.mem[x][s] \in Nodes /\ k[x] = k[u.mem[x][s]] + Black01(u, x)
               /\ x # Null
    <3>1. x \in Nodes /\ u.mem[x][s] \in Nodes /\ x # Null
      BY <1>2a, <1>2c, <1>8, <1>9, NullIsNoNode
    <3>2. k[u.mem[x][s]] = h[t.mem[x][s]]
      BY <1>2c, <1>8, <1>9, <1>10
    <3>3. CASE x # t.root
      <4>1. k[x] = h[x] BY <1>10, <3>1, <3>3
      <4>2. Black01(u, x) = Black01(t, x) BY <1>7, <1>8, <3>3 DEF Black01
      <4> QED BY <2>0, <3>1, <3>2, <4>1, <4>2
    <3>4. CASE x = t.root /\ IsRed(t, t.root)
      <4>1. Black01(u, x) = 1 /\ Black01(t, x) = 0 BY <1>7, <1>8, <3>4 DEF Black01
      <4>2. k[x] = h[x] + 1 /\ h[x] = h[t.mem[x][s]] + Black01(t, x) /\ h[t.mem[x][s]] \in Nat
        BY <1>10, <2>0, <3>4
      <4> QED BY <3>1, <3>2, <4>1, <4>2
    <3>5. CASE x = t.root /\ ~IsRed(t, t.root)
      <4>1. Black01(u, x) = Black01(t, x) BY <1>7, <1>8, <3>5 DEF Black01
      <4>2. k[x] = h[x] BY <1>10, <3>5
      <4> QED BY <2>0, <3>1, <3>2, <4>1, <4>2
    <3> QED BY <3>3, <3>4, <3>5
  <2>2. \A z \in Nodes \ ArmedIn(u) : k[z] = 0
    <3>1. \A z \in Nodes \ ArmedIn(t) : h[z] = 0 BY <1>2a DEF HeightsIn
    <3>2. t.root \notin ArmedIn(t) => ~IsRed(t, t.root) BY <1>2b
    <3> QED BY <1>6, <1>10, <3>1, <3>2
  <2>3. \A x \in ArmedIn(u), s \in Sides :
              /\ x \in Nodes /\ u.mem[x][s] \in Nodes /\ x # Null
              /\ k[x] = k[u.mem[x][s]] + Black01(u, x)
    BY <1>6, <2>1
  <2>4. k \in [Nodes -> Nat] BY <1>10
  <2> QED BY ZenonT(40), <2>2, <2>3, <2>4, WholeFrom
<1>12. ColorsIn(u, "none", Null)
  <2>1. ~IsRed(u, Sentinel) /\ ~IsRed(u, u.root)
    BY <1>2b, <1>3, <1>7, <1>8
  <2>2. ASSUME NEW x \in ArmedIn(t), NEW s \in Sides, IsRed(u, x), IsRed(u, u.mem[x][s]) PROVE FALSE
    <3>1. IsRed(t, x) /\ x # t.root /\ IsRed(t, t.mem[x][s])
      BY <1>7, <1>8, <1>9, <2>2
    <3>2. t.mem[x][s] = a
      <4>1. ColorsIn(t, "insert", a) BY DEF InsertAt
      <4> QED BY <3>1, <4>1 DEF ColorsIn, Exempt
    <3>3. Parent(t, a) = x /\ a # t.root
      <4>1. a # Sentinel BY <1>2b DEF ArmedIn
      <4> QED BY <1>2c, <3>2, <4>1, Below
    <3> QED BY <3>1, <3>3 DEF InsertLoops
  <2> QED BY <1>6, <2>1, <2>2 DEF ColorsIn
<1> QED BY <1>6, <1>11, <1>12 DEF Settled

-----------------------------------------------------------------------------
(* The loop of rbtree_delete.                                               *)

(* Where the loop of rbtree_delete is at work: the ways down to a are one   *)
(* black node short.                                                        *)
DeleteAt(t, b, old, h, a) ==
    /\ Struct(t, b, old) /\ ColorsIn(t, "delete", a) /\ a \in DOMAIN t.mem
    /\ a = t.root => HeightsIn(t, h, Null, "left")
    /\ a # t.root => /\ Parent(t, a) \in ArmedIn(t) /\ Side(t, a) \in Sides
                     /\ a = t.mem[Parent(t, a)][Side(t, a)]
                     /\ HeightsIn(t, h, Parent(t, a), Side(t, a))

(* The side is the one whose link leads back.                               *)
LEMMA SideIs ==
    ASSUME NEW u, NEW a, NEW p, NEW s \in Sides,
           Parent(u, a) = p, u.mem[p][s] = a, u.mem[p][Other(s)] # a
    PROVE  Side(u, a) = s
BY DEF Side, Other, Sides

(* What the loop of rbtree_delete finds about it when it takes a turn: a    *)
(* sibling that is a node, and the kids of that.                            *)
LEMMA DeletePlace ==
    ASSUME NEW t, NEW b, NEW old, NEW h, NEW a, DeleteAt(t, b, old, h, a), DeleteLoops(t, a),
           NEW p, p = Parent(t, a), NEW s, s = Side(t, a), NEW o, o = Other(s),
           NEW w, w = Sibling(t, a), NEW near, near = Near(t, a), NEW far, far = Far(t, a)
    PROVE  /\ Struct(t, b, old) /\ HeightsIn(t, h, p, s) /\ h \in [Nodes -> Nat]
           /\ IsTree(t) /\ Hangs(t, b) /\ Typed(t) /\ DOMAIN t.mem \subseteq Nodes
           /\ p \in ArmedIn(t) /\ w \in ArmedIn(t) /\ p # w /\ w # t.root /\ a # t.root
           /\ s \in Sides /\ o \in Sides /\ s = Other(o) /\ s # o
           /\ a = t.mem[p][s] /\ w = t.mem[p][o] /\ near = t.mem[w][s] /\ far = t.mem[w][o]
           /\ {a, near, far} \subseteq DOMAIN t.mem
           /\ a \notin {p, w} /\ near \notin {p, w} /\ far \notin {p, w}
           /\ (near # Sentinel => near # a /\ near # far /\ near # t.root)
           /\ (far # Sentinel => far # a /\ near # far /\ far # t.root)
           /\ (a # Sentinel => near # a /\ far # a)
           /\ ~IsRed(t, t.root) /\ ~IsRed(t, Sentinel) /\ ~IsRed(t, a)
           /\ \A x \in ArmedIn(t), r \in Sides : ~(IsRed(t, x) /\ IsRed(t, t.mem[x][r]))
<1>1. /\ Struct(t, b, old) /\ ColorsIn(t, "delete", a) /\ a \in DOMAIN t.mem /\ a # t.root
      /\ p \in ArmedIn(t) /\ s \in Sides /\ a = t.mem[p][s] /\ HeightsIn(t, h, p, s) /\ ~IsRed(t, a)
  BY DEF DeleteAt, DeleteLoops
<1>2. /\ IsTree(t) /\ Hangs(t, b) /\ Typed(t) /\ DOMAIN t.mem \subseteq Nodes /\ h \in [Nodes -> Nat]
  BY ZenonT(10), <1>1 DEF Struct, HeightsIn
<1>3. o \in Sides /\ s = Other(o) /\ s # o
  BY ZenonT(10), <1>1, SideFacts
<1>4. w = t.mem[p][o] /\ near = t.mem[w][s] /\ far = t.mem[w][o]
  BY DEF Sibling, Near, Far
<1>5. w # Sentinel
  <2>1. /\ h[p] \in Nat /\ h[a] \in Nat /\ h[p] = h[a] + Black01(t, p) + 1
    <3>1. /\ Struct(t, b, old) /\ HeightsIn(t, h, p, s) /\ p \in ArmedIn(t) /\ s \in Sides
          /\ a = t.mem[p][s]
      BY Zenon, <1>1
    <3> QED BY <3>1, HeightOfShort
  <2>2. /\ h[w] \in Nat /\ h[p] = h[w] + Black01(t, p)
    <3>1. /\ Struct(t, b, old) /\ HeightsIn(t, h, p, s) /\ p \in ArmedIn(t) /\ o \in Sides
          /\ w = t.mem[p][o] /\ ~(p = p /\ o = s)
      BY Zenon, <1>1, <1>3, <1>4
    <3> QED BY <3>1, HeightOf
  <2>3. Black01(t, p) \in Nat BY DEF Black01
  <2>4. h[w] # 0
    <3> HIDE DEF Black01
    <3> QED BY <2>1, <2>2, <2>3
  <2>5. h[Sentinel] = 0
    <3>1. Sentinel \in Nodes \ ArmedIn(t) BY DEF Nodes, ArmedIn
    <3> QED BY ZenonT(10), <1>1, <3>1 DEF HeightsIn
  <2> QED BY <2>4, <2>5
<1>6. w \in ArmedIn(t) /\ w # p /\ w # t.root /\ Parent(t, w) = p /\ t.mem[p][s] # w
  <2>1. Hangs(t, b) /\ p \in ArmedIn(t) /\ o \in Sides /\ Other(o) = s /\ w = t.mem[p][o]
    BY Zenon, <1>1, <1>2, <1>3, <1>4
  <2>2. w # p /\ (w # Sentinel => /\ w \in ArmedIn(t) /\ Parent(t, w) = p /\ w # t.root
                                  /\ t.mem[p][Other(o)] # w)
    BY <2>1, Below
  <2> QED BY Zenon, <1>5, <2>1, <2>2
<1>7. /\ near \in DOMAIN t.mem /\ near # w
      /\ near # Sentinel => Parent(t, near) = w /\ near # t.root /\ far # near
  <2>1. Hangs(t, b) /\ w \in ArmedIn(t) /\ s \in Sides /\ near = t.mem[w][s]
    BY Zenon, <1>1, <1>2, <1>4, <1>6
  <2>2. /\ near \in DOMAIN t.mem /\ near # w
        /\ near # Sentinel => Parent(t, near) = w /\ near # t.root /\ t.mem[w][Other(s)] # near
    BY <2>1, Below
  <2> QED BY Zenon, <1>4, <2>2
<1>8. /\ far \in DOMAIN t.mem /\ far # w
      /\ far # Sentinel => Parent(t, far) = w /\ far # t.root
  <2>1. Hangs(t, b) /\ w \in ArmedIn(t) /\ o \in Sides /\ far = t.mem[w][o]
    BY Zenon, <1>2, <1>3, <1>4, <1>6
  <2> QED BY <2>1, Below
<1>9. a # p /\ (a # Sentinel => Parent(t, a) = p)
  <2>1. Hangs(t, b) /\ p \in ArmedIn(t) /\ s \in Sides /\ a = t.mem[p][s]
    BY Zenon, <1>1, <1>2
  <2> QED BY <2>1, Below
<1>10. near # p /\ far # p
  <2>1. p # Sentinel BY <1>1 DEF ArmedIn
  <2>2. near = p \/ far = p => Parent(t, p) = w
    BY <1>7, <1>8, <2>1
  <2>3. p \in b[p] /\ p # t.root /\ Parent(t, p) = w => w \in b[p] /\ FALSE
    <3>1. w \in b[w] /\ p \notin b[w]
      <4>1. Hangs(t, b) /\ p \in ArmedIn(t) /\ o \in Sides /\ w = t.mem[p][o] /\ w # Sentinel
        BY Zenon, <1>1, <1>2, <1>3, <1>4, <1>5
      <4>2. p \notin b[w] BY <4>1, SideOf
      <4>3. w \in b[w] BY <4>1, SideOf
      <4> QED BY Zenon, <4>2, <4>3
    <3>2. near = p \/ far = p => p \in b[w]
      <4>1. KidsHang(t, b, w) BY <1>2, <1>6 DEF Hangs
      <4>2. b[w] = {w} \cup b[near] \cup b[far]
        <5>1. KidsHang(t, b, w) /\ s \in Sides /\ near = t.mem[w][s] /\ far = t.mem[w][Other(s)]
          BY Zenon, <1>1, <1>3, <1>4, <4>1
        <5>2. KidHung(t, b, w, near, far) BY <5>1, KidHangs
        <5> QED BY Zenon, <5>2 DEF KidHung
      <4>3. p \in b[p]
        <5>1. KidsHang(t, b, p) BY ZenonT(10), <1>1, <1>2 DEF Hangs
        <5> QED BY Zenon, <1>1, <5>1 DEF KidsHang
      <4> QED BY <4>2, <4>3
    <3>3. Parent(t, p) = w /\ p # t.root => p \in b[w]
      <4> SUFFICES ASSUME Parent(t, p) = w, p # t.root PROVE p \in b[w]
        OBVIOUS
      <4>1. HangsIn(t, p) BY ZenonT(10), <1>1, <1>2 DEF Hangs
      <4>2. PICK r \in Sides : p = t.mem[w][r] BY <4>1 DEF HangsIn
      <4>3. p \in {near, far}
        BY Zenon, <1>1, <1>3, <1>4, <4>2, SideFacts
      <4> QED BY <3>2, <4>3
    <3> QED BY <3>1, <3>3
  <2>4. near = p \/ far = p => p # t.root
    BY <1>7, <1>8, <2>1
  <2>5. p \in b[p]
    <3>1. KidsHang(t, b, p) BY <1>1, <1>2 DEF Hangs
    <3> QED BY <1>1, <3>1 DEF KidsHang
  <2> QED BY <2>2, <2>3, <2>4, <2>5
<1>11. \A x \in ArmedIn(t), r \in Sides : ~(IsRed(t, x) /\ IsRed(t, t.mem[x][r]))
  BY ZenonT(10), <1>1 DEF ColorsIn, Exempt
<1>12. ~IsRed(t, t.root) /\ ~IsRed(t, Sentinel)
  BY <1>1 DEF ColorsIn
<1>13. a # w
  BY ZenonT(10), <1>1, <1>6
<1>14. (near # Sentinel => near # a) /\ (far # Sentinel => far # a)
  BY <1>6, <1>7, <1>8, <1>9
<1>15. far # Sentinel => far # near
  BY <1>7
<1> QED BY Zenon, <1>15, <1>1, <1>2, <1>3, <1>4, <1>6, <1>7, <1>8, <1>9, <1>10, <1>11, <1>12, <1>13, <1>14

(* The heights it finds: the sibling is one black node ahead.               *)
LEMMA DeleteHeights ==
    ASSUME NEW t, NEW b, NEW old, NEW h, NEW a, DeleteAt(t, b, old, h, a), DeleteLoops(t, a),
           NEW p, p = Parent(t, a), NEW s, s = Side(t, a),
           NEW w, w = Sibling(t, a), NEW near, near = Near(t, a), NEW far, far = Far(t, a)
    PROVE  /\ h[p] \in Nat /\ h[a] \in Nat /\ h[w] \in Nat /\ h[near] \in Nat /\ h[far] \in Nat
           /\ h[p] = h[a] + Black01(t, p) + 1
           /\ h[p] = h[w] + Black01(t, p)
           /\ h[w] = h[a] + 1
           /\ h[w] = h[near] + Black01(t, w) /\ h[w] = h[far] + Black01(t, w)
<1>0. PICK o : o = Other(s) OBVIOUS
<1>1. /\ Struct(t, b, old) /\ HeightsIn(t, h, p, s)
  BY DeletePlace, <1>0
<1>2. /\ p \in ArmedIn(t) /\ w \in ArmedIn(t) /\ p # w /\ s \in Sides /\ o \in Sides /\ s # o
  BY DeletePlace, <1>0
<1>3. /\ a = t.mem[p][s] /\ w = t.mem[p][o] /\ near = t.mem[w][s] /\ far = t.mem[w][o]
  BY DeletePlace, <1>0
<1>4. h[p] \in Nat /\ h[a] \in Nat /\ h[p] = h[a] + Black01(t, p) + 1
  <2>1. /\ Struct(t, b, old) /\ HeightsIn(t, h, p, s) /\ p \in ArmedIn(t) /\ s \in Sides
        /\ a = t.mem[p][s]
    BY Zenon, <1>1, <1>2, <1>3
  <2> QED BY <2>1, HeightOfShort
<1>5. h[w] \in Nat /\ h[p] = h[w] + Black01(t, p)
  <2>1. /\ Struct(t, b, old) /\ HeightsIn(t, h, p, s) /\ p \in ArmedIn(t) /\ o \in Sides
        /\ w = t.mem[p][o] /\ ~(p = p /\ o = s)
    BY Zenon, <1>1, <1>2, <1>3
  <2> QED BY <2>1, HeightOf
<1>6. h[near] \in Nat /\ h[w] = h[near] + Black01(t, w)
  <2>1. /\ Struct(t, b, old) /\ HeightsIn(t, h, p, s) /\ w \in ArmedIn(t) /\ s \in Sides
        /\ near = t.mem[w][s] /\ w # p
    BY Zenon, <1>1, <1>2, <1>3
  <2> QED BY <2>1, HeightOf
<1>7. h[far] \in Nat /\ h[w] = h[far] + Black01(t, w)
  <2>1. /\ Struct(t, b, old) /\ HeightsIn(t, h, p, s) /\ w \in ArmedIn(t) /\ o \in Sides
        /\ far = t.mem[w][o] /\ w # p
    BY Zenon, <1>1, <1>2, <1>3
  <2> QED BY <2>1, HeightOf
<1>8. Black01(t, p) \in Nat BY DEF Black01
<1>9. h[w] = h[a] + 1
  <2> HIDE DEF Black01
  <2> QED BY <1>4, <1>5, <1>8
<1> QED BY <1>4, <1>5, <1>6, <1>7, <1>9

-----------------------------------------------------------------------------
(* The turns of rbtree_delete.                                              *)

(* A red sibling is rotated up, so that the next turn finds a black one.    *)
LEMMA SiblingTurn ==
    ASSUME NEW t, NEW b, NEW old, NEW h, NEW a, DeleteAt(t, b, old, h, a), DeleteLoops(t, a),
           NEW p, p = Parent(t, a), NEW s, s = Side(t, a),
           NEW w, w = Sibling(t, a), IsRed(t, w),
           NEW u, u = SiblingUp(t, a), NEW c, c = Turned(t, b, p, s),
           NEW k, k = [h EXCEPT ![p] = @ - 1, ![w] = @ + 1]
    PROVE  DeleteAt(u, c, old, k, a) /\ ArmedIn(u) = ArmedIn(t)
<1>0. PICK o, near, far, v, v1 :
         /\ o = Other(s) /\ near = Near(t, a) /\ far = Far(t, a)
         /\ v1 = Paint(t, w, Black) /\ v = Paint(v1, p, Red)
  OBVIOUS
<1>1a. /\ Struct(t, b, old) /\ HeightsIn(t, h, p, s) /\ h \in [Nodes -> Nat]
       /\ IsTree(t) /\ Hangs(t, b) /\ Typed(t) /\ DOMAIN t.mem \subseteq Nodes
  BY DeletePlace, <1>0
<1>1b. /\ p \in ArmedIn(t) /\ w \in ArmedIn(t) /\ p # w /\ w # t.root /\ a # t.root
       /\ s \in Sides /\ o \in Sides /\ s = Other(o) /\ s # o
       /\ a = t.mem[p][s] /\ w = t.mem[p][o] /\ near = t.mem[w][s] /\ far = t.mem[w][o]
       /\ {a, near, far} \subseteq DOMAIN t.mem
  BY DeletePlace, <1>0
<1>1c. /\ a \notin {p, w} /\ near \notin {p, w} /\ far \notin {p, w}
       /\ (near # Sentinel => near # a /\ near # far /\ near # t.root)
       /\ (a # Sentinel => near # a /\ far # a)
  BY DeletePlace, <1>0
<1>1d. /\ ~IsRed(t, t.root) /\ ~IsRed(t, Sentinel) /\ ~IsRed(t, a)
       /\ \A x \in ArmedIn(t), r \in Sides : ~(IsRed(t, x) /\ IsRed(t, t.mem[x][r]))
  BY DeletePlace, <1>0
<1>2. /\ p # Null /\ p # Sentinel /\ w # Null /\ w # Sentinel /\ {p, w} \subseteq DOMAIN t.mem
      /\ p \in Nodes /\ w \in Nodes
  BY ZenonT(10), <1>1a, <1>1b, NullIsNoNode
<1>3. ~IsRed(t, p) /\ ~IsRed(t, near) /\ ~IsRed(t, far)
  BY Zenon, <1>1b, <1>1d
<1>4. /\ Recolored(t, v1)
      /\ \A z \in DOMAIN t.mem : v1.mem[z].color = IF z = w THEN Black ELSE t.mem[z].color
  BY <1>0, <1>1a, <1>2, PaintRecolors
<1>5. /\ Recolored(v1, v)
      /\ \A z \in DOMAIN t.mem : v.mem[z].color = IF z = p THEN Red ELSE v1.mem[z].color
  <2>1. IsTree(v1) /\ DOMAIN v1.mem = DOMAIN t.mem /\ p \in DOMAIN t.mem BY <1>2, <1>4 DEF Recolored
  <2> QED BY <1>0, <2>1, PaintRecolors
<1>6. Recolored(t, v)
  BY <1>4, <1>5, RecoloredTwice
<1>7. \A z \in DOMAIN t.mem : v.mem[z].color \in {Red, Black}
  <2>1. \A z \in DOMAIN t.mem : t.mem[z].color \in {Red, Black}
    BY <1>1a DEF Typed
  <2> QED BY <1>4, <1>5, <2>1
<1>8. \A z \in DOMAIN t.mem : IsRed(v, z) <=> (z = p \/ (IsRed(t, z) /\ z # w))
  BY ZenonT(10), <1>1b, <1>4, <1>5, ColorNumbers DEF IsRed
<1>9. u = Rotate(v, p, s)
  BY <1>0 DEF SiblingUp
<1>10. Pivot(t, b, old, v, p, s, o, w, a, near, far, u)
  BY Zenon, <1>0, <1>1a, <1>1b, <1>2, <1>6, <1>7, <1>9 DEF Pivot
<1>11a. Struct(u, Turned(t, b, p, s), old) /\ ArmedIn(u) = ArmedIn(t) /\ DOMAIN u.mem = DOMAIN t.mem
        /\ u.root = IF p = t.root THEN w ELSE t.root
  BY <1>10, PivotFacts
<1>11b. u.mem[p][s] = a /\ u.mem[p][o] = near
  BY <1>10, PivotFacts
<1>11c. \A z \in DOMAIN t.mem \ {p, w} :
                 z # near \/ z = Sentinel => Parent(u, z) = Parent(t, z)
  BY <1>10, PivotFacts
<1>12. /\ Black01(t, p) = 1 /\ Black01(t, w) = 0 /\ Black01(v, p) = 0 /\ Black01(v, w) = 1
       /\ Black01(v, far) = Black01(t, far)
       /\ \A z \in ArmedIn(t) \ {p, w, far} : Black01(v, z) = Black01(t, z)
  <2>1. IsRed(v, p) /\ ~IsRed(v, w) BY ZenonT(10), <1>1b, <1>2, <1>8
  <2>2. IsRed(v, far) <=> IsRed(t, far) BY ZenonT(10), <1>1b, <1>1c, <1>8
  <2>3. \A z \in ArmedIn(t) \ {p, w, far} : IsRed(v, z) <=> IsRed(t, z)
    BY <1>8 DEF ArmedIn
  <2>4. Black01(t, p) = 1 /\ Black01(t, w) = 0 /\ Black01(v, p) = 0 /\ Black01(v, w) = 1
    BY <1>3, <2>1, BlackNumbers
  <2> QED BY <2>2, <2>3, <2>4 DEF Black01
<1>13a. h[p] \in Nat /\ h[a] \in Nat /\ h[w] \in Nat /\ h[near] \in Nat /\ h[far] \in Nat
  BY <1>0, DeleteHeights
<1>13b. h[p] = h[w] + 1 /\ h[w] = h[a] + 1 /\ h[w] = h[near] /\ h[w] = h[far]
  <2>1. h[p] = h[w] + Black01(t, p) /\ h[w] = h[a] + 1
    BY <1>0, DeleteHeights
  <2>2. h[w] = h[near] + Black01(t, w) /\ h[w] = h[far] + Black01(t, w)
    BY <1>0, DeleteHeights
  <2> QED BY <1>12, <1>13a, <2>1, <2>2
<1>14. near # Sentinel
  <2>1. h[Sentinel] = 0
    <3>1. Sentinel \in Nodes \ ArmedIn(t) BY DEF Nodes, ArmedIn
    <3> QED BY <1>1a, <3>1 DEF HeightsIn
  <2>2. h[near] = h[a] + 1 /\ h[a] \in Nat BY <1>13a, <1>13b
  <2>3. h[near] # 0 BY <2>2
  <2> QED BY <2>1, <2>3
<1>15. k \in [Nodes -> Nat] /\ k[p] = h[w] /\ k[w] = h[p] /\ \A z \in Nodes \ {p, w} : k[z] = h[z]
  <2>2. k[p] = h[p] - 1 /\ k[w] = h[w] + 1 /\ \A z \in Nodes \ {p, w} : k[z] = h[z]
    BY ZenonT(10), <1>1a, <1>1b, <1>2
  <2>3. h[p] - 1 \in Nat /\ h[w] + 1 \in Nat
    BY <1>13a, <1>13b
  <2>4. k \in [Nodes -> Nat]
    BY Zenon, <1>1a, <2>3
  <2> QED BY <1>13a, <1>13b, <2>2, <2>4
<1>16. k[a] = h[a] /\ k[near] = h[near] /\ k[far] = h[far]
  BY Zenon, <1>1a, <1>1b, <1>1c, <1>15
<1>17. HeightsIn(u, k, p, s)
  <2>1. (IF p = p /\ s = s THEN 1 ELSE 0) = 1 /\ (IF p = p /\ o = s THEN 1 ELSE 0) = 0
    BY ZenonT(10), <1>1b
  <2>2. k[p] = k[a] + Black01(v, p) + (IF p = p /\ s = s THEN 1 ELSE 0)
    <3>1. k[p] = k[a] + 0 + 1 BY <1>13a, <1>13b, <1>15, <1>16
    <3> QED BY <1>12, <2>1, <3>1
  <2>3. k[p] = k[near] + Black01(v, p) + (IF p = p /\ o = s THEN 1 ELSE 0)
    <3>1. k[p] = k[near] + 0 + 0 BY <1>13a, <1>13b, <1>15, <1>16
    <3> QED BY <1>12, <2>1, <3>1
  <2>4. k[w] = k[p] + Black01(v, w) /\ k[w] = k[far] + Black01(v, w)
    BY <1>12, <1>13a, <1>13b, <1>15, <1>16
  <2>5. /\ \A z \in Nodes \ {p, w, far} : k[z] = h[z]
        /\ k[w] = h[p]
    BY <1>15
  <2>6. k[far] - Black01(v, far) = h[far] - Black01(t, far)
    BY <1>12, <1>16
  <2>7. HeightsTurn(t, v, p, s, o, w, a, near, far, h, p, s, k, p, s)
    BY Zenon, <1>1a, <1>1b, <1>12, <1>15, <1>16, <2>2, <2>3, <2>4, <2>5, <2>6 DEF HeightsTurn
  <2> QED BY <1>10, <2>7, RotateHeights
<1>18. ColorsIn(u, "delete", a)
  <2>1. ~IsRed(v, a) /\ ~IsRed(v, near) /\ ~IsRed(v, w)
    BY ZenonT(10), <1>1b, <1>1c, <1>1d, <1>2, <1>3, <1>8
  <2>2. IsRed(v, far) => IsRed(t, far)
    BY Zenon, <1>1b, <1>1c, <1>8
  <2>3. \A z \in DOMAIN t.mem \ {p, w, far} : IsRed(v, z) <=> IsRed(t, z)
    BY <1>8
  <2>4. ColorsTurn(t, v, p, w, a, near, far, "delete", a)
    BY <1>1d, <2>1, <2>2, <2>3 DEF ColorsTurn
  <2> QED BY <1>10, <2>4, RotateColors
<1>19. Parent(u, a) = p
  <2>1. Parent(u, a) = Parent(t, a)
    BY ZenonT(10), <1>1b, <1>1c, <1>11c
  <2> QED BY <2>1
<1>20. Side(u, a) = s
  <2>1. s \in Sides /\ u.mem[p][s] = a /\ u.mem[p][Other(s)] # a
    <3>1. Other(s) = o /\ near # a BY Zenon, <1>0, <1>1c, <1>14
    <3> QED BY Zenon, <1>0, <1>1b, <1>1c, <1>11b, <3>1
  <2> QED BY <1>19, <2>1, SideIs
<1>21. a # u.root
  BY ZenonT(10), <1>1b, <1>1c, <1>11a
<1>22. a \in DOMAIN u.mem /\ p \in ArmedIn(u) /\ a = u.mem[p][s]
  BY ZenonT(10), <1>1b, <1>11a, <1>11b
<1> QED BY Zenon, <1>1b, <1>11a, <1>17, <1>18, <1>19, <1>20, <1>21, <1>22 DEF DeleteAt

(* A black sibling with black kids turns red, and the parent is what is     *)
(* short.                                                                   *)
LEMMA PaintTurn ==
    ASSUME NEW t, NEW b, NEW old, NEW h, NEW a, DeleteAt(t, b, old, h, a), DeleteLoops(t, a),
           NEW p, p = Parent(t, a),
           NEW w, w = Sibling(t, a), ~IsRed(t, w), ~IsRed(t, Near(t, a)), ~IsRed(t, Far(t, a)),
           NEW u, u = Paint(t, w, Red),
           NEW k, k = [h EXCEPT ![p] = @ - 1, ![w] = @ - 1]
    PROVE  DeleteAt(u, b, old, k, p) /\ ArmedIn(u) = ArmedIn(t)
<1>0. PICK s, o, near, far :
         /\ s = Side(t, a) /\ o = Other(s) /\ near = Near(t, a) /\ far = Far(t, a)
  OBVIOUS
<1>1a. /\ Struct(t, b, old) /\ HeightsIn(t, h, p, s) /\ h \in [Nodes -> Nat]
       /\ IsTree(t) /\ Hangs(t, b) /\ Typed(t) /\ DOMAIN t.mem \subseteq Nodes
  BY DeletePlace, <1>0
<1>1b. /\ p \in ArmedIn(t) /\ w \in ArmedIn(t) /\ p # w /\ w # t.root /\ a # t.root
       /\ s \in Sides /\ o \in Sides /\ s = Other(o) /\ s # o
       /\ a = t.mem[p][s] /\ w = t.mem[p][o] /\ near = t.mem[w][s] /\ far = t.mem[w][o]
       /\ {a, near, far} \subseteq DOMAIN t.mem
  BY DeletePlace, <1>0
<1>1c. a \notin {p, w} /\ near \notin {p, w} /\ far \notin {p, w}
  BY DeletePlace, <1>0
<1>1d. /\ ~IsRed(t, t.root) /\ ~IsRed(t, Sentinel) /\ ~IsRed(t, a)
       /\ \A x \in ArmedIn(t), r \in Sides : ~(IsRed(t, x) /\ IsRed(t, t.mem[x][r]))
  BY DeletePlace, <1>0
<1>2. /\ p # Null /\ p # Sentinel /\ w # Null /\ w # Sentinel /\ {p, w} \subseteq DOMAIN t.mem
      /\ p \in Nodes /\ w \in Nodes /\ t.root \in DOMAIN t.mem /\ Sentinel \in DOMAIN t.mem
  BY ZenonT(10), <1>1a, <1>1b, NullIsNoNode DEF Hangs
<1>4. /\ Recolored(t, u)
      /\ \A z \in DOMAIN t.mem : u.mem[z].color = IF z = w THEN Red ELSE t.mem[z].color
  BY <1>0, <1>1a, <1>2, PaintRecolors
<1>7. \A z \in DOMAIN t.mem : u.mem[z].color \in {Red, Black}
  <2>1. \A z \in DOMAIN t.mem : t.mem[z].color \in {Red, Black}
    BY <1>1a DEF Typed
  <2> QED BY <1>4, <2>1
<1>8. \A z \in DOMAIN t.mem : IsRed(u, z) <=> (z = w \/ IsRed(t, z))
  BY <1>4, ColorNumbers DEF IsRed
<1>9. Struct(u, b, old) /\ ArmedIn(u) = ArmedIn(t)
  BY <1>1a, <1>4, <1>7, RecoloredStruct
<1>10. /\ u.root = t.root /\ DOMAIN u.mem = DOMAIN t.mem /\ ArmedIn(t) \subseteq DOMAIN t.mem
       /\ \A x \in ArmedIn(t), r \in Sides : u.mem[x][r] = t.mem[x][r]
  BY <1>4 DEF Recolored, ArmedIn
<1>11. \A x \in ArmedIn(t), r \in Sides :
          /\ t.mem[x][r] \in DOMAIN t.mem
          /\ t.mem[x][r] # Sentinel => Parent(t, t.mem[x][r]) = x /\ Side(t, t.mem[x][r]) = r
  BY <1>1a, Below
<1>12. Black01(t, w) = 1 /\ Black01(u, w) = 0 /\ \A x \in ArmedIn(t) \ {w} : Black01(u, x) = Black01(t, x)
  <2>1. IsRed(u, w) BY <1>2, <1>8
  <2>2. \A x \in ArmedIn(t) \ {w} : IsRed(u, x) <=> IsRed(t, x) BY <1>8, <1>10
  <2>3. Black01(t, w) = 1 /\ Black01(u, w) = 0 BY <2>1, BlackNumbers
  <2> QED BY <2>2, <2>3 DEF Black01
<1>13a. h[p] \in Nat /\ h[a] \in Nat /\ h[w] \in Nat /\ h[near] \in Nat /\ h[far] \in Nat
  BY <1>0, DeleteHeights
<1>13b. /\ h[p] = h[w] + Black01(t, p) /\ h[p] = h[a] + Black01(t, p) + 1
        /\ h[w] = h[a] + 1
  BY <1>0, DeleteHeights
<1>13c. h[w] = h[near] + 1 /\ h[w] = h[far] + 1
  <2>2. h[w] = h[near] + Black01(t, w) /\ h[w] = h[far] + Black01(t, w)
    BY <1>0, DeleteHeights
  <2> QED BY <1>12, <1>13a, <2>2
<1>15. k \in [Nodes -> Nat] /\ k[p] = h[p] - 1 /\ k[w] = h[w] - 1 /\ \A z \in Nodes \ {p, w} : k[z] = h[z]
  <2>2. k[p] = h[p] - 1 /\ k[w] = h[w] - 1 /\ \A z \in Nodes \ {p, w} : k[z] = h[z]
    BY ZenonT(10), <1>1a, <1>1b, <1>2
  <2>3. h[p] - 1 \in Nat /\ h[w] - 1 \in Nat
    <3>1. Black01(t, p) \in Nat BY DEF Black01
    <3> HIDE DEF Black01
    <3> QED BY <1>13a, <1>13b, <3>1
  <2>4. k \in [Nodes -> Nat]
    BY Zenon, <1>1a, <2>3
  <2> QED BY <2>2, <2>4
<1>16. DEFINE short(x, r) == p # t.root /\ x = Parent(t, p) /\ r = Side(t, p)
<1>17. ASSUME NEW x \in ArmedIn(t), NEW r \in Sides
       PROVE  /\ x \in Nodes /\ u.mem[x][r] \in Nodes /\ x # Null
              /\ ~short(x, r) => k[x] = k[u.mem[x][r]] + Black01(u, x)
              /\ short(x, r) => k[x] = k[u.mem[x][r]] + Black01(u, x) + 1
  <2>1. x \in Nodes /\ x # Null /\ t.mem[x][r] \in DOMAIN t.mem /\ t.mem[x][r] \in Nodes
    BY <1>1a, <1>11, NullIsNoNode
  <2>2. u.mem[x][r] = t.mem[x][r] BY <1>10
  <2>3. /\ h[x] \in Nat /\ h[t.mem[x][r]] \in Nat /\ Black01(t, x) \in Nat
        /\ ~(x = p /\ r = s) => h[x] = h[t.mem[x][r]] + Black01(t, x)
    BY <1>1a, HeightOf DEF Black01
  <2>4. CASE x = p
    <3>1. Black01(u, x) = Black01(t, x) BY Zenon, <1>1b, <1>12, <2>4
    <3>2. p # t.root => Parent(t, p) # p
      BY ZenonT(10), <1>1a, <1>1b, Above
    <3>3. ~short(x, r) BY <2>4, <3>2
    <3>4. CASE r = s
      <4>1. k[a] = h[a] BY Zenon, <1>1a, <1>1b, <1>1c, <1>15
      <4>2. h[p] = (h[a] + 1) + Black01(t, p) /\ h[a] \in Nat /\ Black01(t, p) \in Nat
        <5>1. Black01(t, p) \in Nat BY <2>3, <2>4
        <5> QED BY <1>13a, <1>13b, <5>1
      <4>3. k[p] = h[a] + Black01(t, p)
        BY <1>15, <4>2
      <4> HIDE DEF short
      <4> QED BY Zenon, <1>1b, <2>1, <2>2, <2>4, <3>1, <3>3, <3>4, <4>1, <4>3
    <3>5. CASE r = o
      <4>1. k[p] = k[w] + Black01(t, p)
        <5> HIDE DEF Black01
        <5>1. Black01(t, p) \in Nat BY <2>3, <2>4
        <5> QED BY <1>13a, <1>13b, <1>15, <5>1
      <4> HIDE DEF Black01, short
      <4> QED BY Zenon, <1>1b, <2>1, <2>2, <2>4, <3>1, <3>3, <3>5, <4>1
    <3> QED BY Zenon, <1>1b, <3>4, <3>5, SideFacts
  <2>5. CASE x = w
    <3>1. t.mem[x][r] \in {near, far}
      BY ZenonT(10), <1>1b, <2>5, SideFacts
    <3>2. k[t.mem[x][r]] = h[t.mem[x][r]]
      BY Zenon, <1>1a, <1>1b, <1>1c, <1>15, <3>1
    <3>3. ~short(x, r)
      <4>1. p # t.root => p = t.mem[Parent(t, p)][Side(t, p)]
        BY ZenonT(10), <1>1a, <1>1b, Above
      <4> QED BY <1>1c, <2>5, <3>1, <4>1
    <3>4. k[w] = k[t.mem[x][r]] + 0
      BY <1>13a, <1>13c, <1>15, <3>1, <3>2
    <3> HIDE DEF Black01, short
    <3> QED BY <1>12, <2>1, <2>2, <2>5, <3>3, <3>4
  <2>6. CASE x \notin {p, w}
    <3>1. k[x] = h[x] /\ Black01(u, x) = Black01(t, x)
      BY <1>12, <1>15, <2>1, <2>6
    <3>2. h[x] = h[t.mem[x][r]] + Black01(t, x)
      BY <2>3, <2>6
    <3>3. t.mem[x][r] # w
      <4>1. t.mem[x][r] = w => x = Parent(t, w)
        BY <1>2, <1>11
      <4>2. Parent(t, w) = p
        BY ZenonT(10), <1>1b, <1>2, <1>11
      <4> QED BY <2>6, <4>1, <4>2
    <3>4. CASE t.mem[x][r] = p
      <4>1. p # t.root /\ x = Parent(t, p) /\ r = Side(t, p)
        <5>1. p # t.root BY <1>1a, <1>2, <3>4, Below
        <5> QED BY <1>2, <1>11, <3>4, <5>1
      <4>2. short(x, r) BY <4>1
      <4>3. h[x] = (k[p] + 1) + Black01(t, x)
        <5> HIDE DEF Black01
        <5> QED BY <1>13a, <1>15, <3>2, <3>4
      <4>4. k[p] \in Nat BY <1>2, <1>15
      <4>5. k[x] = k[p] + Black01(u, x) + 1
        <5> HIDE DEF Black01
        <5> QED BY <2>3, <3>1, <4>3, <4>4
      <4> HIDE DEF Black01, short
      <4> QED BY <2>1, <2>2, <3>4, <4>2, <4>5
    <3>5. CASE t.mem[x][r] # p
      <4>1. k[t.mem[x][r]] = h[t.mem[x][r]] BY <1>15, <2>1, <3>3, <3>5
      <4>2. ~short(x, r)
        <5>1. p # t.root => p = t.mem[Parent(t, p)][Side(t, p)]
          BY <1>1a, <1>1b, Above
        <5> QED BY <3>5, <5>1
      <4> HIDE DEF Black01, short
      <4> QED BY <2>1, <2>2, <3>1, <3>2, <4>1, <4>2
    <3> QED BY <3>4, <3>5
  <2> QED BY <2>4, <2>5, <2>6
<1>18. \A z \in Nodes \ ArmedIn(u) : k[z] = 0
  <2>1. \A z \in Nodes \ ArmedIn(t) : h[z] = 0 BY <1>1a DEF HeightsIn
  <2> QED BY ZenonT(10), <1>1b, <1>9, <1>15, <2>1
<1>19. p = u.root => HeightsIn(u, k, Null, "left")
  <2> SUFFICES ASSUME p = u.root PROVE HeightsIn(u, k, Null, "left")
    OBVIOUS
  <2>0. \A x, r : ~short(x, r) BY <1>10
  <2> HIDE DEF short
  <2>1. ASSUME NEW x \in ArmedIn(u), NEW r \in Sides
        PROVE /\ x \in Nodes /\ u.mem[x][r] \in Nodes /\ x # Null
              /\ k[x] = k[u.mem[x][r]] + Black01(u, x)
    <3>1. x \in ArmedIn(t) /\ ~short(x, r) BY <1>9, <2>0
    <3> QED BY Zenon, <1>17, <3>1
  <2>2. k \in [Nodes -> Nat] BY <1>15
  <2>3. \A x \in ArmedIn(u), r \in Sides :
              /\ x \in Nodes /\ u.mem[x][r] \in Nodes /\ x # Null
              /\ k[x] = k[u.mem[x][r]] + Black01(u, x)
    BY Zenon, <2>1
  <2>4. PICK f : f = k OBVIOUS
  <2>5. f \in [Nodes -> Nat] /\ \A z \in Nodes \ ArmedIn(u) : f[z] = 0
    BY Zenon, <1>18, <2>2, <2>4
  <2>6. \A x \in ArmedIn(u), r \in Sides :
              /\ x \in Nodes /\ u.mem[x][r] \in Nodes /\ x # Null
              /\ f[x] = f[u.mem[x][r]] + Black01(u, x)
    BY ZenonT(60), <2>3, <2>4
  <2>7. HeightsIn(u, f, Null, "left")
    BY <2>5, <2>6, WholeFrom
  <2> QED BY Zenon, <2>4, <2>7
<1>20. p # u.root => /\ Parent(u, p) \in ArmedIn(u) /\ Side(u, p) \in Sides
                     /\ p = u.mem[Parent(u, p)][Side(u, p)]
                     /\ HeightsIn(u, k, Parent(u, p), Side(u, p))
  <2> SUFFICES ASSUME p # u.root
               PROVE  /\ Parent(u, p) \in ArmedIn(u) /\ Side(u, p) \in Sides
                      /\ p = u.mem[Parent(u, p)][Side(u, p)]
                      /\ HeightsIn(u, k, Parent(u, p), Side(u, p))
    OBVIOUS
  <2>1. p # t.root BY <1>10
  <2>2. Parent(t, p) \in ArmedIn(t)
    BY ZenonT(10), <1>1a, <1>1b, <2>1, Above
  <2>3. Parent(u, p) = Parent(t, p) /\ Side(u, p) = Side(t, p)
    BY <1>2, <1>4, <1>10, <2>2, RecoloredSides
  <2>4. Parent(u, p) \in ArmedIn(u) /\ Side(u, p) \in Sides /\ p = u.mem[Parent(u, p)][Side(u, p)]
    <3>1. Hangs(u, b) BY <1>9 DEF Struct
    <3>2. p \in ArmedIn(u) /\ p # u.root BY Zenon, <1>1b, <1>9
    <3> QED BY <3>1, <3>2, Above
  <2>5a. \A x, r : short(x, r) <=> x = Parent(u, p) /\ r = Side(u, p) BY <2>1, <2>3
  <2> HIDE DEF short
  <2>5. ASSUME NEW x \in ArmedIn(u), NEW r \in Sides
        PROVE /\ x \in Nodes /\ u.mem[x][r] \in Nodes
              /\ ~(x = Parent(u, p) /\ r = Side(u, p)) => k[x] = k[u.mem[x][r]] + Black01(u, x)
              /\ x = Parent(u, p) /\ r = Side(u, p) => k[x] = k[u.mem[x][r]] + Black01(u, x) + 1
    <3>1. x \in ArmedIn(t) /\ (short(x, r) <=> x = Parent(u, p) /\ r = Side(u, p)) BY <1>9, <2>5a
    <3> QED BY Zenon, <1>17, <3>1
  <2>6. k \in [Nodes -> Nat] BY <1>15
  <2>7. HeightsIn(u, k, Parent(u, p), Side(u, p))
    <3>2. PICK f : f = k OBVIOUS
    <3>3. f \in [Nodes -> Nat] /\ \A z \in Nodes \ ArmedIn(u) : f[z] = 0
      BY <1>18, <2>6, <3>2
    <3>4. \A x \in ArmedIn(u), r \in Sides :
              /\ x \in Nodes /\ u.mem[x][r] \in Nodes
              /\ ~(x = Parent(u, p) /\ r = Side(u, p)) => f[x] = f[u.mem[x][r]] + Black01(u, x)
              /\ x = Parent(u, p) /\ r = Side(u, p) => f[x] = f[u.mem[x][r]] + Black01(u, x) + 1
      <4> SUFFICES ASSUME NEW x \in ArmedIn(u), NEW r \in Sides
           PROVE
              /\ x \in Nodes /\ u.mem[x][r] \in Nodes
              /\ ~(x = Parent(u, p) /\ r = Side(u, p)) => f[x] = f[u.mem[x][r]] + Black01(u, x)
              /\ x = Parent(u, p) /\ r = Side(u, p) => f[x] = f[u.mem[x][r]] + Black01(u, x) + 1
        OBVIOUS
      <4> QED BY ZenonT(30), <2>5, <3>2
    <3>5. HeightsIn(u, f, Parent(u, p), Side(u, p))
      BY <3>3, <3>4, HeightsFrom
    <3> QED BY <3>2, <3>5
  <2> QED BY <2>4, <2>7
<1>21. ColorsIn(u, "delete", p)
  <2>1. ~IsRed(u, Sentinel) /\ ~IsRed(u, u.root)
    BY ZenonT(10), <1>1b, <1>1d, <1>2, <1>8, <1>10
  <2>2. ASSUME NEW x \in ArmedIn(t), NEW r \in Sides, IsRed(u, x), IsRed(u, u.mem[x][r]) PROVE x = p
    <3>1. CASE x = w
      <4>1. t.mem[x][r] \in {near, far}
        BY <1>1b, <3>1, SideFacts
      <4>2. ~IsRed(u, t.mem[x][r])
        BY ZenonT(10), <1>0, <1>1b, <1>1c, <1>8, <4>1
      <4> QED BY <1>10, <2>2, <4>2
    <3>2. CASE x # w /\ t.mem[x][r] = w
      <4>1. t.mem[x][r] = w => x = Parent(t, w)
        BY <1>2, <1>11
      <4>2. Parent(t, w) = p
        BY <1>1b, <1>2, <1>11
      <4> QED BY <3>2, <4>1, <4>2
    <3>3. CASE x # w /\ t.mem[x][r] # w
      BY <1>1d, <1>8, <1>10, <1>11, <2>2, <3>3
    <3> QED BY <3>1, <3>2, <3>3
  <2> QED BY <1>9, <2>1, <2>2 DEF ColorsIn, Exempt
<1> QED BY <1>2, <1>9, <1>10, <1>19, <1>20, <1>21 DEF DeleteAt

(* A red near kid is rotated up, so that the next turn finds the far one    *)
(* red.                                                                     *)
LEMMA NearTurn ==
    ASSUME NEW t, NEW b, NEW old, NEW h, NEW a, DeleteAt(t, b, old, h, a), DeleteLoops(t, a),
           NEW s, s = Side(t, a),
           NEW w, w = Sibling(t, a), NEW near, near = Near(t, a),
           ~IsRed(t, w), IsRed(t, near), ~IsRed(t, Far(t, a)),
           NEW u, u = NearUp(t, a), NEW c, c = Turned(t, b, w, Other(s)),
           NEW k, k = [h EXCEPT ![w] = @ - 1, ![near] = @ + 1]
    PROVE  DeleteAt(u, c, old, k, a) /\ ArmedIn(u) = ArmedIn(t)
<1>0. PICK p, o, far, v, v1, inner, outer :
         /\ p = Parent(t, a) /\ o = Other(s) /\ far = Far(t, a)
         /\ v1 = Paint(t, near, Black) /\ v = Paint(v1, w, Red)
         /\ inner = t.mem[near][o] /\ outer = t.mem[near][s]
  BY Zenon
<1>1a. /\ Struct(t, b, old) /\ HeightsIn(t, h, p, s) /\ h \in [Nodes -> Nat]
       /\ IsTree(t) /\ Hangs(t, b) /\ Typed(t) /\ DOMAIN t.mem \subseteq Nodes
  BY DeletePlace, <1>0
<1>1b. /\ p \in ArmedIn(t) /\ w \in ArmedIn(t) /\ p # w /\ w # t.root /\ a # t.root
       /\ s \in Sides /\ o \in Sides /\ s = Other(o) /\ s # o
       /\ a = t.mem[p][s] /\ w = t.mem[p][o] /\ near = t.mem[w][s] /\ far = t.mem[w][o]
       /\ {a, near, far} \subseteq DOMAIN t.mem
  BY DeletePlace, <1>0
<1>1c. /\ a \notin {p, w} /\ near \notin {p, w} /\ far \notin {p, w}
       /\ (near # Sentinel => near # a /\ near # far /\ near # t.root)
       /\ (far # Sentinel => far # a /\ near # far /\ far # t.root)
       /\ (a # Sentinel => near # a /\ far # a)
  BY DeletePlace, <1>0
<1>1d. /\ ~IsRed(t, t.root) /\ ~IsRed(t, Sentinel) /\ ~IsRed(t, a)
       /\ \A x \in ArmedIn(t), r \in Sides : ~(IsRed(t, x) /\ IsRed(t, t.mem[x][r]))
  BY DeletePlace, <1>0
<1>2. near \in ArmedIn(t) /\ near # Sentinel
  BY ZenonT(10), <1>1b, <1>1d DEF ArmedIn
<1>2a. /\ p # Null /\ p # Sentinel /\ w # Null /\ w # Sentinel /\ {p, w} \subseteq DOMAIN t.mem
       /\ w \in Nodes /\ near \in Nodes
  BY ZenonT(10), <1>1a, <1>1b, <1>2, NullIsNoNode
<1>2b. Parent(t, near) = w /\ (a # Sentinel => Parent(t, a) = p)
  <2>1. Hangs(t, b) /\ w \in ArmedIn(t) /\ s \in Sides /\ near = t.mem[w][s]
    BY ZenonT(10), <1>1a, <1>1b
  <2>2. near # Sentinel => Parent(t, near) = w BY ONLY <2>1, Below
  <2>3. Hangs(t, b) /\ p \in ArmedIn(t) /\ s \in Sides /\ a = t.mem[p][s]
    BY ZenonT(10), <1>1a, <1>1b
  <2>4. a # Sentinel => Parent(t, a) = p BY ONLY <2>3, Below
  <2> QED BY <1>2, <2>2, <2>4
<1>2c. /\ inner \in DOMAIN t.mem /\ outer \in DOMAIN t.mem
       /\ inner # Sentinel => Parent(t, inner) = near
  <2>1. Hangs(t, b) /\ near \in ArmedIn(t) /\ s \in Sides /\ o \in Sides /\ inner = t.mem[near][o] /\ outer = t.mem[near][s]
    BY Zenon, <1>0, <1>1a, <1>1b, <1>2
  <2>2. outer \in DOMAIN t.mem BY <2>1, Below
  <2>3. inner \in DOMAIN t.mem /\ (inner # Sentinel => Parent(t, inner) = near) BY <2>1, Below
  <2> QED BY <2>2, <2>3
<1>3. ~IsRed(t, far) /\ ~IsRed(t, inner) /\ ~IsRed(t, outer)
  BY Zenon, <1>0, <1>1b, <1>1d, <1>2
<1>4. /\ Recolored(t, v1)
      /\ \A z \in DOMAIN t.mem : v1.mem[z].color = IF z = near THEN Black ELSE t.mem[z].color
  <2>1. IsTree(t) /\ near \in DOMAIN t.mem /\ v1 = Paint(t, near, Black)
    BY Zenon, <1>0, <1>1a, <1>1b
  <2> QED BY <2>1, PaintRecolors
<1>5. /\ Recolored(v1, v)
      /\ \A z \in DOMAIN t.mem : v.mem[z].color = IF z = w THEN Red ELSE v1.mem[z].color
  <2>1. IsTree(v1) /\ DOMAIN v1.mem = DOMAIN t.mem /\ w \in DOMAIN t.mem BY <1>2a, <1>4 DEF Recolored
  <2> QED BY <1>0, <2>1, PaintRecolors
<1>6. Recolored(t, v)
  BY <1>4, <1>5, RecoloredTwice
<1>7. \A z \in DOMAIN t.mem : v.mem[z].color \in {Red, Black}
  <2>1. \A z \in DOMAIN t.mem : t.mem[z].color \in {Red, Black}
    BY <1>1a DEF Typed
  <2> QED BY <1>4, <1>5, <2>1
<1>8. \A z \in DOMAIN t.mem : IsRed(v, z) <=> (z = w \/ (IsRed(t, z) /\ z # near))
  BY <1>1c, <1>4, <1>5, ColorNumbers DEF IsRed
<1>9. u = Rotate(v, w, o)
  BY <1>0 DEF NearUp
<1>10. Pivot(t, b, old, v, w, o, s, near, far, inner, outer, u)
  BY Zenon, <1>0, <1>1a, <1>1b, <1>2, <1>6, <1>7, <1>9 DEF Pivot
<1>11a. Struct(u, Turned(t, b, w, o), old) /\ ArmedIn(u) = ArmedIn(t) /\ DOMAIN u.mem = DOMAIN t.mem
        /\ u.root = IF w = t.root THEN near ELSE t.root
  BY <1>10, PivotFacts
<1>11b. \A z \in ArmedIn(t) \ {w, near}, r \in Sides :
                 /\ t.mem[z][r] # near
                 /\ u.mem[z][r] = IF t.mem[z][r] = w THEN near ELSE t.mem[z][r]
  BY <1>10, PivotFacts
<1>11c. \A z \in DOMAIN t.mem \ {w, near} :
                 z # inner \/ z = Sentinel => Parent(u, z) = Parent(t, z)
  BY <1>10, PivotFacts
<1>11d. far \notin {w, near} /\ inner \notin {w, near} /\ outer \notin {w, near}
  BY <1>10, PivotFacts
<1>12. /\ Black01(t, near) = 0 /\ Black01(t, w) = 1 /\ Black01(v, near) = 1 /\ Black01(v, w) = 0
       /\ Black01(v, outer) = Black01(t, outer)
       /\ \A z \in ArmedIn(t) \ {w, near, outer} : Black01(v, z) = Black01(t, z)
  <2>1. ~IsRed(v, near) /\ IsRed(v, w) BY ZenonT(10), <1>1b, <1>1c, <1>2a, <1>8
  <2>2. IsRed(v, outer) <=> IsRed(t, outer) BY <1>2c, <1>11d, <1>8
  <2>3. \A z \in ArmedIn(t) \ {w, near, outer} : IsRed(v, z) <=> IsRed(t, z)
    BY <1>8 DEF ArmedIn
  <2>4. Black01(t, near) = 0 /\ Black01(t, w) = 1 /\ Black01(v, near) = 1 /\ Black01(v, w) = 0
    BY <2>1, BlackNumbers
  <2> QED BY <2>2, <2>3, <2>4 DEF Black01
<1>13a. h[w] \in Nat /\ h[near] \in Nat /\ h[far] \in Nat
  BY <1>0, DeleteHeights
<1>13b. h[w] = h[near] + 1 /\ h[w] = h[far] + 1
  <2>2. h[w] = h[near] + Black01(t, w) /\ h[w] = h[far] + Black01(t, w)
    BY <1>0, DeleteHeights
  <2> QED BY <1>12, <1>13a, <2>2
<1>13c. h[inner] \in Nat /\ h[outer] \in Nat /\ h[near] = h[inner] /\ h[near] = h[outer]
  <2>0. ~(near = p /\ o = s) /\ ~(near = p /\ s = s)
    BY <1>1c
  <2>a. Struct(t, b, old) /\ HeightsIn(t, h, p, s) /\ near \in ArmedIn(t) /\ s \in Sides /\ o \in Sides
    BY ZenonT(10), <1>1a, <1>1b, <1>2
  <2>b. inner = t.mem[near][o] /\ outer = t.mem[near][s] BY <1>0
  <2>1. h[inner] \in Nat /\ h[near] = h[inner] + Black01(t, near)
    BY <2>0, <2>a, <2>b, HeightOf
  <2>2. h[outer] \in Nat /\ h[near] = h[outer] + Black01(t, near)
    BY <2>0, <2>a, <2>b, HeightOf
  <2> QED BY <1>12, <2>1, <2>2
<1>15. k \in [Nodes -> Nat] /\ k[near] = h[w] /\ k[w] = h[near] /\ \A z \in Nodes \ {w, near} : k[z] = h[z]
  <2>2. k[w] = h[w] - 1 /\ k[near] = h[near] + 1 /\ \A z \in Nodes \ {w, near} : k[z] = h[z]
    BY <1>1a, <1>1c, <1>2a
  <2>3. h[w] - 1 \in Nat /\ h[near] + 1 \in Nat
    BY <1>13a, <1>13b
  <2>4. k \in [Nodes -> Nat]
    BY Zenon, <1>1a, <2>3
  <2> QED BY <1>13a, <1>13b, <2>2, <2>4
<1>16. k[far] = h[far] /\ k[inner] = h[inner] /\ k[outer] = h[outer]
  BY Zenon, <1>1a, <1>1b, <1>2c, <1>11d, <1>15
<1>17. HeightsIn(u, k, p, s)
  <2>1. (IF w = p /\ o = s THEN 1 ELSE 0) = 0 /\ (IF w = p /\ s = s THEN 1 ELSE 0) = 0
    BY ZenonT(10), <1>1b
  <2>2. k[w] = k[far] + Black01(v, w) + (IF w = p /\ o = s THEN 1 ELSE 0)
    <3>1. k[w] = k[far] + 0 + 0
      <4>1. h[near] = h[far] BY <1>13a, <1>13b
      <4> QED BY <1>13a, <1>15, <1>16, <4>1
    <3> QED BY <1>12, <2>1, <3>1
  <2>3. k[w] = k[inner] + Black01(v, w) + (IF w = p /\ s = s THEN 1 ELSE 0)
    <3>1. k[w] = k[inner] + 0 + 0 BY <1>13c, <1>15, <1>16
    <3> QED BY <1>12, <2>1, <3>1
  <2>4a. k[near] = k[w] + Black01(v, near)
    BY <1>12, <1>13a, <1>13b, <1>15
  <2>4b. k[near] = k[outer] + Black01(v, near)
    <3>1. k[near] = h[near] + 1 /\ k[outer] = h[near] BY <1>13b, <1>13c, <1>15, <1>16
    <3> QED BY <1>12, <1>13a, <3>1
  <2>5. /\ \A z \in Nodes \ {w, near, outer} : k[z] = h[z]
        /\ k[near] = h[w]
    BY <1>15
  <2>6. k[outer] - Black01(v, outer) = h[outer] - Black01(t, outer)
    BY <1>12, <1>16
  <2>7. HeightsTurn(t, v, w, o, s, near, far, inner, outer, h, p, s, k, p, s)
    BY Zenon, <1>1a, <1>1b, <1>1c, <1>12, <1>15, <1>16, <2>2, <2>3, <2>4a, <2>4b, <2>5, <2>6 DEF HeightsTurn
  <2> QED BY <1>10, <2>7, RotateHeights
<1>18. ColorsIn(u, "delete", a)
  <2>1. ~IsRed(v, near)
    BY ZenonT(10), <1>1b, <1>1c, <1>8
  <2>1a. ~IsRed(v, far) /\ ~IsRed(v, inner)
    BY ZenonT(10), <1>1b, <1>2c, <1>3, <1>8, <1>11d
  <2>2. IsRed(v, outer) => IsRed(t, outer)
    BY <1>2c, <1>11d, <1>8
  <2>3. \A z \in DOMAIN t.mem \ {w, near, outer} : IsRed(v, z) <=> IsRed(t, z)
    BY <1>8
  <2>4. ColorsTurn(t, v, w, near, far, inner, outer, "delete", a)
    BY <1>1d, <2>1, <2>1a, <2>2, <2>3 DEF ColorsTurn
  <2> QED BY <1>10, <2>4, RotateColors
<1>19a. a # near
  BY <1>1c, <1>2
<1>19. Parent(u, a) = p
  <2>1. a # inner \/ a = Sentinel
    BY <1>1c, <1>2b, <1>2c
  <2> QED BY Zenon, <1>0, <1>1b, <1>1c, <1>11c, <1>19a, <2>1
<1>20. u.mem[p][s] = a /\ u.mem[p][o] = near
  BY ZenonT(10), <1>1b, <1>1c, <1>11b
<1>21. Side(u, a) = s
  <2>1. s \in Sides /\ u.mem[p][s] = a /\ u.mem[p][Other(s)] # a
    BY Zenon, <1>0, <1>1b, <1>19a, <1>20
  <2> QED BY <1>19, <2>1, SideIs
<1>22. a # u.root
  BY ZenonT(10), <1>1b, <1>11a
<1>23. a \in DOMAIN u.mem /\ p \in ArmedIn(u)
  BY ZenonT(10), <1>1b, <1>11a
<1> QED BY Zenon, <1>0, <1>1b, <1>11a, <1>17, <1>18, <1>19, <1>20, <1>21, <1>22, <1>23 DEF DeleteAt

(* A red far kid: the rotation at the parent makes up for what was short.   *)
LEMMA FarTurn ==
    ASSUME NEW t, NEW b, NEW old, NEW h, NEW a, DeleteAt(t, b, old, h, a), DeleteLoops(t, a),
           NEW p, p = Parent(t, a), NEW s, s = Side(t, a),
           NEW w, w = Sibling(t, a), NEW far, far = Far(t, a),
           ~IsRed(t, w), IsRed(t, far),
           NEW u, u = FarUp(t, a), NEW c, c = Turned(t, b, p, s),
           NEW k, k = [h EXCEPT ![p] = h[w], ![w] = h[p], ![far] = @ + 1]
    PROVE  DeleteAt(u, c, old, k, u.root) /\ ArmedIn(u) = ArmedIn(t)
<1>0. PICK o, near, v, v1, v2 :
         /\ o = Other(s) /\ near = Near(t, a)
         /\ v1 = Paint(t, w, t.mem[p].color) /\ v2 = Paint(v1, p, Black) /\ v = Paint(v2, far, Black)
  OBVIOUS
<1>1a. /\ Struct(t, b, old) /\ HeightsIn(t, h, p, s) /\ h \in [Nodes -> Nat]
       /\ IsTree(t) /\ Hangs(t, b) /\ Typed(t) /\ DOMAIN t.mem \subseteq Nodes
  BY DeletePlace, <1>0
<1>1b. /\ p \in ArmedIn(t) /\ w \in ArmedIn(t) /\ p # w /\ w # t.root /\ a # t.root
       /\ s \in Sides /\ o \in Sides /\ s = Other(o) /\ s # o
       /\ a = t.mem[p][s] /\ w = t.mem[p][o] /\ near = t.mem[w][s] /\ far = t.mem[w][o]
       /\ {a, near, far} \subseteq DOMAIN t.mem
  BY DeletePlace, <1>0
<1>1c. /\ a \notin {p, w} /\ near \notin {p, w} /\ far \notin {p, w}
       /\ (near # Sentinel => near # a /\ near # far /\ near # t.root)
       /\ (far # Sentinel => far # a /\ near # far /\ far # t.root)
       /\ (a # Sentinel => near # a /\ far # a)
  BY DeletePlace, <1>0
<1>1d. /\ ~IsRed(t, t.root) /\ ~IsRed(t, Sentinel) /\ ~IsRed(t, a)
       /\ \A x \in ArmedIn(t), r \in Sides : ~(IsRed(t, x) /\ IsRed(t, t.mem[x][r]))
  BY DeletePlace, <1>0
<1>2. far \in ArmedIn(t) /\ far # Sentinel
  BY ZenonT(10), <1>1b, <1>1d DEF ArmedIn
<1>2a. /\ p # Null /\ p # Sentinel /\ w # Null /\ w # Sentinel /\ {p, w} \subseteq DOMAIN t.mem
       /\ p \in Nodes /\ w \in Nodes /\ far \in Nodes
  BY ZenonT(10), <1>1a, <1>1b, <1>2, NullIsNoNode
<1>4. /\ Recolored(t, v1)
      /\ \A z \in DOMAIN t.mem : v1.mem[z].color = IF z = w THEN t.mem[p].color ELSE t.mem[z].color
  BY <1>0, <1>1a, <1>2a, PaintRecolors
<1>5a. /\ Recolored(v1, v2)
       /\ \A z \in DOMAIN t.mem : v2.mem[z].color = IF z = p THEN Black ELSE v1.mem[z].color
  <2>1. IsTree(v1) /\ DOMAIN v1.mem = DOMAIN t.mem /\ p \in DOMAIN t.mem BY <1>2a, <1>4 DEF Recolored
  <2>2. v2 = Paint(v1, p, Black) BY Zenon, <1>0
  <2>3. \A z \in DOMAIN v1.mem : v2.mem[z].color = IF z = p THEN Black ELSE v1.mem[z].color
    BY <2>1, <2>2, PaintRecolors
  <2>4. Recolored(v1, v2) BY <2>1, <2>2, PaintRecolors
  <2> QED BY Zenon, <2>1, <2>3, <2>4
<1>5b. /\ Recolored(v2, v)
       /\ \A z \in DOMAIN t.mem : v.mem[z].color = IF z = far THEN Black ELSE v2.mem[z].color
  <2>1. IsTree(v2) /\ DOMAIN v2.mem = DOMAIN t.mem /\ far \in DOMAIN t.mem
    BY ZenonT(10), <1>1b, <1>4, <1>5a DEF Recolored
  <2>2. v = Paint(v2, far, Black) BY Zenon, <1>0
  <2>3. \A z \in DOMAIN v2.mem : v.mem[z].color = IF z = far THEN Black ELSE v2.mem[z].color
    BY <2>1, <2>2, PaintRecolors
  <2>4. Recolored(v2, v) BY <2>1, <2>2, PaintRecolors
  <2> QED BY Zenon, <2>1, <2>3, <2>4
<1>6. Recolored(t, v)
  BY <1>4, <1>5a, <1>5b, RecoloredTwice
<1>7. \A z \in DOMAIN t.mem : v.mem[z].color \in {Red, Black}
  <2>1. \A z \in DOMAIN t.mem : t.mem[z].color \in {Red, Black}
    BY <1>1a DEF Typed
  <2> QED BY <1>2a, <1>4, <1>5a, <1>5b, <2>1
<1>8. \A z \in DOMAIN t.mem : IsRed(v, z) <=>
          (IF z = w THEN IsRed(t, p) ELSE IsRed(t, z) /\ z # p /\ z # far)
  BY ZenonT(60), <1>1b, <1>1c, <1>4, <1>5a, <1>5b, ColorNumbers DEF IsRed
<1>9. u = Rotate(v, p, s)
  BY <1>0 DEF FarUp
<1>10. Pivot(t, b, old, v, p, s, o, w, a, near, far, u)
  BY Zenon, <1>0, <1>1a, <1>1b, <1>2a, <1>6, <1>7, <1>9 DEF Pivot
<1>11a. Struct(u, Turned(t, b, p, s), old) /\ ArmedIn(u) = ArmedIn(t) /\ DOMAIN u.mem = DOMAIN t.mem
        /\ u.root = IF p = t.root THEN w ELSE t.root
  BY <1>10, PivotFacts
<1>12. /\ Black01(t, far) = 0 /\ Black01(v, far) = 1
       /\ Black01(t, w) = 1 /\ Black01(v, p) = 1 /\ Black01(v, w) = Black01(t, p)
       /\ \A z \in ArmedIn(t) \ {p, w, far} : Black01(v, z) = Black01(t, z)
  <2>1. ~IsRed(v, p) /\ ~IsRed(v, far) BY ZenonT(10), <1>1b, <1>1c, <1>2a, <1>8
  <2>2. IsRed(v, w) <=> IsRed(t, p) BY <1>2a, <1>8
  <2>3. \A z \in ArmedIn(t) \ {p, w, far} : IsRed(v, z) <=> IsRed(t, z)
    BY <1>8 DEF ArmedIn
  <2>4. Black01(t, far) = 0 /\ Black01(v, far) = 1 /\ Black01(t, w) = 1 /\ Black01(v, p) = 1
    BY <2>1, BlackNumbers
  <2> QED BY <2>2, <2>3, <2>4 DEF Black01
<1>13a. h[p] \in Nat /\ h[a] \in Nat /\ h[w] \in Nat /\ h[near] \in Nat /\ h[far] \in Nat
  BY <1>0, DeleteHeights
<1>13b. h[p] = h[w] + Black01(t, p) /\ h[w] = h[a] + 1
  BY <1>0, DeleteHeights
<1>13c. h[w] = h[near] + 1 /\ h[w] = h[far] + 1
  <2>2. h[w] = h[near] + Black01(t, w) /\ h[w] = h[far] + Black01(t, w)
    BY <1>0, DeleteHeights
  <2> QED BY <1>12, <1>13a, <2>2
<1>15. /\ k \in [Nodes -> Nat] /\ k[p] = h[w] /\ k[w] = h[p] /\ k[far] = h[far] + 1
       /\ \A z \in Nodes \ {p, w, far} : k[z] = h[z]
  <2>2. /\ k[p] = h[w] /\ k[w] = h[p] /\ k[far] = h[far] + 1
        /\ \A z \in Nodes \ {p, w, far} : k[z] = h[z]
    BY Zenon, <1>1a, <1>1b, <1>1c, <1>2a
  <2>3. h[far] + 1 \in Nat /\ h[w] \in Nat /\ h[p] \in Nat
    BY <1>13a
  <2>4. k \in [Nodes -> Nat]
    BY Zenon, <1>1a, <2>3
  <2> QED BY <2>2, <2>4
<1>16. k[a] = h[a] /\ k[near] = h[near]
  BY Zenon, <1>1a, <1>1b, <1>1c, <1>2, <1>15
<1>17. HeightsIn(u, k, Null, "left")
  <2>1. (IF p = Null /\ s = "left" THEN 1 ELSE 0) = 0 /\ (IF p = Null /\ o = "left" THEN 1 ELSE 0) = 0
    BY <1>2a
  <2>2. k[p] = k[a] + Black01(v, p) + (IF p = Null /\ s = "left" THEN 1 ELSE 0)
    <3>1. k[p] = k[a] + 1 + 0 BY <1>13a, <1>13b, <1>15, <1>16
    <3> QED BY <1>12, <2>1, <3>1
  <2>3. k[p] = k[near] + Black01(v, p) + (IF p = Null /\ o = "left" THEN 1 ELSE 0)
    <3>1. k[p] = k[near] + 1 + 0 BY <1>13a, <1>13c, <1>15, <1>16
    <3> QED BY <1>12, <2>1, <3>1
  <2>4. k[w] = k[p] + Black01(v, w)
    BY <1>12, <1>13b, <1>15
  <2>4a. k[w] = k[far] + Black01(v, w)
    BY <1>12, <1>13b, <1>13c, <1>15
  <2>5. /\ \A z \in Nodes \ {p, w, far} : k[z] = h[z]
        /\ k[w] = h[p]
    BY <1>15
  <2>6. k[far] - Black01(v, far) = h[far] - Black01(t, far)
    BY <1>12, <1>13a, <1>15
  <2>7. \A z \in ArmedIn(t) \ {p, w}, r \in Sides : (z = p /\ r = s) <=> (z = Null /\ r = "left")
    BY <1>1a, NullIsNoNode
  <2>8. HeightsTurn(t, v, p, s, o, w, a, near, far, h, p, s, k, Null, "left")
    BY ZenonT(10), <1>1a, <1>2, <1>2a, <1>12, <1>15, <2>2, <2>3, <2>4, <2>4a, <2>5, <2>6, <2>7 DEF HeightsTurn
  <2> QED BY <1>10, <2>8, RotateHeights
<1>18. ColorsIn(u, "delete", u.root)
  <2>1. ~IsRed(v, p) /\ ~IsRed(v, far)
    BY <1>1b, <1>1c, <1>2a, <1>8
  <2>2. IsRed(v, w) => IsRed(t, p)
    BY <1>2a, <1>8
  <2>3. \A z \in DOMAIN t.mem \ {p, w, far} : IsRed(v, z) <=> IsRed(t, z)
    BY <1>8
  <2>4. ColorsTurn(t, v, p, w, a, near, far, "delete", u.root)
    BY <1>1d, <2>1, <2>2, <2>3 DEF ColorsTurn
  <2> QED BY <1>10, <2>4, RotateColors
<1>19. u.root \in DOMAIN u.mem
  <2>1. t.root \in DOMAIN t.mem BY <1>1a DEF Hangs
  <2> QED BY <1>2a, <1>11a, <2>1
<1> QED BY <1>11a, <1>17, <1>18, <1>19 DEF DeleteAt

(* The loop of rbtree_delete ends, and the node it is at is painted black.  *)
LEMMA DeleteEnds ==
    ASSUME NEW t, NEW b, NEW old, NEW h, NEW a, DeleteAt(t, b, old, h, a), ~DeleteLoops(t, a),
           NEW u, u = Paint(t, a, Black),
           NEW k, k = [h EXCEPT ![a] = IF IsRed(t, a) THEN @ + 1 ELSE @]
    PROVE  Settled(u, b, old, k) /\ ArmedIn(u) = ArmedIn(t)
<1>1. /\ Struct(t, b, old) /\ ColorsIn(t, "delete", a) /\ a \in DOMAIN t.mem
      /\ (IsRed(t, t.root) => FALSE) /\ ~IsRed(t, Sentinel)
  BY DEF DeleteAt, ColorsIn
<1>2. IsTree(t) /\ Hangs(t, b) /\ Typed(t) /\ DOMAIN t.mem \subseteq Nodes /\ a \in Nodes
      /\ t.root \in DOMAIN t.mem /\ Sentinel \in DOMAIN t.mem
  BY <1>1 DEF Struct, Hangs
<1>4. Recolored(t, u) /\ \A z \in DOMAIN t.mem : u.mem[z].color = IF z = a THEN Black ELSE t.mem[z].color
  BY <1>1, <1>2, PaintRecolors
<1>5. \A z \in DOMAIN t.mem : u.mem[z].color \in {Red, Black}
  BY <1>2, <1>4 DEF Typed
<1>6. Struct(u, b, old) /\ ArmedIn(u) = ArmedIn(t)
  BY <1>1, <1>4, <1>5, RecoloredStruct
<1>7. \A z \in DOMAIN t.mem : IsRed(u, z) <=> (IsRed(t, z) /\ z # a)
  BY <1>4, ColorNumbers DEF IsRed
<1>8. /\ u.root = t.root /\ ArmedIn(t) \subseteq DOMAIN t.mem
      /\ \A x \in ArmedIn(t), s \in Sides : u.mem[x][s] = t.mem[x][s]
  BY <1>4 DEF Recolored, ArmedIn
<1>9. \A x \in ArmedIn(t), s \in Sides : t.mem[x][s] \in DOMAIN t.mem
  BY <1>2, Below
<1>9a. \A x \in ArmedIn(t) : x \in Nodes /\ x # Null
  BY <1>1, NullIsNoNode
<1>10. /\ ~IsRed(u, Sentinel) /\ ~IsRed(u, u.root)
  BY <1>1, <1>2, <1>7, <1>8
<1>11. ASSUME NEW x \in ArmedIn(t), NEW s \in Sides, IsRed(u, x), IsRed(u, u.mem[x][s]) PROVE FALSE
  <2>1. IsRed(t, x) /\ x # a /\ IsRed(t, t.mem[x][s]) /\ t.mem[x][s] # a
    BY <1>7, <1>8, <1>9, <1>11
  <2> QED BY <1>1, <2>1 DEF ColorsIn, Exempt
<1>12. ColorsIn(u, "none", Null)
  BY <1>6, <1>10, <1>11 DEF ColorsIn
<1>13. HeightsIn(u, k, Null, "left")
  <2>1. CASE ~IsRed(t, a)
    <3>1. a = t.root BY <2>1 DEF DeleteLoops
    <3>2. HeightsIn(t, h, Null, "left") BY <3>1 DEF DeleteAt
    <3>3. h \in [Nodes -> Nat] BY <3>2 DEF HeightsIn
    <3>4. k = h BY <2>1, <3>3
    <3>5. \A x \in ArmedIn(t) : Black01(u, x) = Black01(t, x)
      BY <1>7, <1>8, <2>1 DEF Black01
    <3>6. ASSUME NEW x \in ArmedIn(t), NEW s \in Sides
          PROVE  h[x] = h[u.mem[x][s]] + Black01(u, x) + (IF x = Null /\ s = "left" THEN 1 ELSE 0)
      <4>1. h[x] = h[t.mem[x][s]] + Black01(t, x) + (IF x = Null /\ s = "left" THEN 1 ELSE 0)
        BY <3>2 DEF HeightsIn
      <4>2. u.mem[x][s] = t.mem[x][s] /\ Black01(u, x) = Black01(t, x)
        BY <1>8, <3>5
      <4> QED BY <4>1, <4>2
    <3>7. HeightsIn(u, h, Null, "left")
      BY <1>6, <3>2, <3>6 DEF HeightsIn
    <3> QED BY <3>4, <3>7
  <2>2. CASE IsRed(t, a)
    <3>1. a # t.root /\ a # Sentinel BY <1>1, <2>2
    <3>2. a \in ArmedIn(t) BY <1>1, <3>1 DEF ArmedIn
    <3>3. PICK p, r : p = Parent(t, a) /\ r = Side(t, a) OBVIOUS
    <3>4. p \in ArmedIn(t) /\ r \in Sides /\ a = t.mem[p][r] /\ HeightsIn(t, h, p, r)
      BY <3>1, <3>3 DEF DeleteAt
    <3>5. h \in [Nodes -> Nat] /\ \A z \in Nodes \ ArmedIn(t) : h[z] = 0
      BY <3>4 DEF HeightsIn
    <3>6. k \in [Nodes -> Nat] /\ k[a] = h[a] + 1 /\ \A z \in Nodes \ {a} : k[z] = h[z]
      BY <1>2, <2>2, <3>5
    <3>7. \A x \in ArmedIn(t), s \in Sides :
             /\ t.mem[x][s] = a => x = p /\ s = r
             /\ t.mem[x][s] # x
      BY <1>2, <3>1, <3>3, Below
    <3>8. ASSUME NEW x \in ArmedIn(t), NEW s \in Sides
          PROVE  k[x] = k[t.mem[x][s]] + Black01(u, x)
      <4>1. /\ h[x] \in Nat /\ h[t.mem[x][s]] \in Nat
            /\ ~(x = p /\ s = r) => h[x] = h[t.mem[x][s]] + Black01(t, x)
            /\ x = p /\ s = r => h[x] = h[t.mem[x][s]] + Black01(t, x) + 1
        BY <1>1, <3>4, HeightOf
      <4>2. t.mem[x][s] \in Nodes BY <1>2, <1>9
      <4>3. CASE x = a
        <5>1. Black01(t, x) = 0 /\ Black01(u, x) = 1
          <6>1. ~IsRed(u, a) BY <1>1, <1>7
          <6> QED BY <2>2, <4>3, <6>1, BlackNumbers
        <5>2. ~(x = p /\ s = r)
          BY <3>4, <3>7, <4>3
        <5>3. k[t.mem[x][s]] = h[t.mem[x][s]]
          BY <3>6, <3>7, <4>2, <4>3
        <5>4. h[x] = h[t.mem[x][s]]
          BY <4>1, <5>1, <5>2
        <5> QED BY <3>6, <4>1, <4>3, <5>1, <5>3, <5>4
      <4>4. CASE x # a
        <5>1. Black01(u, x) = Black01(t, x)
          BY <1>7, <1>8, <4>4 DEF Black01
        <5>2. k[x] = h[x] BY <1>9a, <3>6, <4>4
        <5>3. CASE t.mem[x][s] = a
          <6>1. h[x] = h[a] + Black01(t, x) + 1 BY <3>7, <4>1, <5>3
          <6>2. Black01(t, x) \in Nat /\ h[a] \in Nat BY <4>1, <5>3 DEF Black01
          <6>3. h[x] = (h[a] + 1) + Black01(t, x) BY <6>1, <6>2
          <6> QED BY <3>6, <5>1, <5>2, <5>3, <6>3
        <5>4. CASE t.mem[x][s] # a
          <6>1. k[t.mem[x][s]] = h[t.mem[x][s]] BY <3>6, <4>2, <5>4
          <6>2. ~(x = p /\ s = r) BY <3>4, <5>4
          <6> QED BY <4>1, <5>1, <5>2, <6>1, <6>2
        <5> QED BY <5>3, <5>4
      <4> QED BY <4>3, <4>4
    <3>9. PICK f : f = k OBVIOUS
    <3>10. f \in [Nodes -> Nat] /\ \A z \in Nodes \ ArmedIn(u) : f[z] = 0
      BY <1>6, <3>2, <3>5, <3>6, <3>9
    <3>11. \A x \in ArmedIn(u), s \in Sides :
              /\ x \in Nodes /\ u.mem[x][s] \in Nodes /\ x # Null
              /\ f[x] = f[u.mem[x][s]] + Black01(u, x)
      <4> SUFFICES ASSUME NEW x \in ArmedIn(t), NEW s \in Sides
                   PROVE /\ x \in Nodes /\ u.mem[x][s] \in Nodes /\ x # Null
                         /\ f[x] = f[u.mem[x][s]] + Black01(u, x)
        BY <1>6
      <4>1. x \in Nodes /\ u.mem[x][s] \in Nodes /\ x # Null
        BY <1>2, <1>8, <1>9, <1>9a
      <4> QED BY <1>8, <3>8, <3>9, <4>1
    <3>12. HeightsIn(u, f, Null, "left")
      BY <3>10, <3>11, WholeFrom
    <3> QED BY <3>9, <3>12
  <2> QED BY <2>1, <2>2
<1> QED BY <1>6, <1>12, <1>13 DEF Settled
=============================================================================
