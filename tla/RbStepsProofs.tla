--------------------------- MODULE RbStepsProofs ----------------------------
(***************************************************************************)
(* RbSteps keeps its tree linked, balanced and ordered, and the first timer *)
(* is the one that expires, for any number of nodes and any keys.           *)
(*                                                                          *)
(* The inductive invariant IInv says of each loop what it has of the tree   *)
(* between two turns (Shape), and what the ways down have passed (Work).    *)
(* RbTurnsProofs has the turns; here nodes come and go, and the steps are   *)
(* put together.                                                            *)
(***************************************************************************)
EXTENDS RbTurnsProofs

-----------------------------------------------------------------------------
(* A node comes to the tree.                                                *)

(* A node is there, with its fields.                                        *)
LEMMA WithIs ==
    ASSUME NEW t, IsTree(t), NEW x, x \notin DOMAIN t.mem, NEW k, NEW p, NEW c,
           NEW u, u = With(t, x, k, p, c)
    PROVE  /\ IsTree(u) /\ u.root = t.root /\ DOMAIN u.mem = DOMAIN t.mem \cup {x}
           /\ \A z \in DOMAIN t.mem : u.mem[z] = t.mem[z]
           /\ u.mem[x].key = k /\ u.mem[x].left = Sentinel /\ u.mem[x].right = Sentinel
           /\ u.mem[x].parent = p /\ u.mem[x].color = c
<1>1. DOMAIN t = {"root", "mem"}
  BY DEF IsTree
<1>2. /\ DOMAIN u = {"root", "mem"} /\ u.root = t.root
      /\ u.mem = [y \in DOMAIN t.mem \cup {x} |->
                   IF y = x THEN [key |-> k, left |-> Sentinel, right |-> Sentinel,
                                  parent |-> p, color |-> c]
                   ELSE t.mem[y]]
  BY <1>1 DEF With
<1>3. DOMAIN u.mem = DOMAIN t.mem \cup {x} /\ \A z \in DOMAIN t.mem : u.mem[z] = t.mem[z]
  BY <1>2
<1>4. u.mem[x] = [key |-> k, left |-> Sentinel, right |-> Sentinel, parent |-> p, color |-> c]
  BY <1>2
<1>5. DOMAIN u.mem[x] = Fields
  BY <1>4 DEF Fields
<1>6. \A z \in DOMAIN t.mem : DOMAIN t.mem[z] = Fields
  BY DEF IsTree
<1>7. IsTree(u)
  BY <1>2, <1>3, <1>5, <1>6 DEF IsTree
<1>8. /\ u.mem[x].key = k /\ u.mem[x].left = Sentinel /\ u.mem[x].right = Sentinel
      /\ u.mem[x].parent = p /\ u.mem[x].color = c
  BY <1>4
<1> QED BY <1>2, <1>3, <1>7, <1>8

(* The first node of a tree is its root, and black.                         *)
LEMMA PlantedIs ==
    ASSUME NEW t, IsTree(t), NEW x, x \notin DOMAIN t.mem, NEW k,
           NEW u, u = Planted(t, x, k)
    PROVE  /\ IsTree(u) /\ u.root = x /\ DOMAIN u.mem = DOMAIN t.mem \cup {x}
           /\ \A z \in DOMAIN t.mem : u.mem[z] = t.mem[z]
           /\ u.mem[x].key = k /\ u.mem[x].left = Sentinel /\ u.mem[x].right = Sentinel
           /\ u.mem[x].parent = Null /\ u.mem[x].color = Black
<1>1. PICK w : w = With(t, x, k, Null, Black) OBVIOUS
<1>2. /\ IsTree(w) /\ w.root = t.root /\ DOMAIN w.mem = DOMAIN t.mem \cup {x}
      /\ \A z \in DOMAIN t.mem : w.mem[z] = t.mem[z]
      /\ w.mem[x].key = k /\ w.mem[x].left = Sentinel /\ w.mem[x].right = Sentinel
      /\ w.mem[x].parent = Null /\ w.mem[x].color = Black
  BY <1>1, WithIs
<1>3. u = SetRoot(w, x)
  BY <1>1 DEF Planted, SetRoot
<1>4. IsTree(u) /\ u.root = x /\ u.mem = w.mem
  BY <1>2, <1>3, SetRootIs
<1> QED BY <1>2, <1>4

(* The way down is one of the sides.                                        *)
LEMMA WaySides ==
    ASSUME NEW t, NEW y, NEW k PROVE Way(t, y, k) \in Sides
BY DEF Way, Sides

(* A new node hangs where the way down ended, and is red.                   *)
LEMMA HungIs ==
    ASSUME NEW t, IsTree(t), NEW x, x \notin DOMAIN t.mem, NEW k, NEW a \in DOMAIN t.mem,
           NEW s, s = Way(t, a, k), NEW u, u = Hung(t, x, k, a)
    PROVE  /\ IsTree(u) /\ u.root = t.root /\ DOMAIN u.mem = DOMAIN t.mem \cup {x}
           /\ \A z \in DOMAIN t.mem :
                 /\ u.mem[z].key = t.mem[z].key /\ u.mem[z].parent = t.mem[z].parent
                 /\ u.mem[z].color = t.mem[z].color
                 /\ \A r \in Sides : u.mem[z][r] = IF z = a /\ r = s THEN x ELSE t.mem[z][r]
           /\ u.mem[x].key = k /\ \A r \in Sides : u.mem[x][r] = Sentinel
           /\ u.mem[x].parent = a /\ u.mem[x].color = Red
<1>1. PICK w : w = With(t, x, k, a, Red) OBVIOUS
<1>2. /\ IsTree(w) /\ w.root = t.root /\ DOMAIN w.mem = DOMAIN t.mem \cup {x}
      /\ \A z \in DOMAIN t.mem : w.mem[z] = t.mem[z]
  BY <1>1, WithIs
<1>3. /\ w.mem[x].key = k /\ w.mem[x].left = Sentinel /\ w.mem[x].right = Sentinel
      /\ w.mem[x].parent = a /\ w.mem[x].color = Red
  BY <1>1, WithIs
<1>4. u = Set(w, a, s, x)
  BY <1>1 DEF Hung, Set
<1>5. s \in Sides /\ s \in Fields /\ a # x
  BY WaySides, SideFacts
<1>6. /\ IsTree(u) /\ u.root = w.root /\ DOMAIN u.mem = DOMAIN w.mem
      /\ \A z \in DOMAIN w.mem, g \in Fields : u.mem[z][g] = IF z = a /\ g = s THEN x ELSE w.mem[z][g]
  BY <1>2, <1>4, <1>5, SetIs
<1>7. ASSUME NEW z \in DOMAIN t.mem
      PROVE  /\ u.mem[z].key = t.mem[z].key /\ u.mem[z].parent = t.mem[z].parent
             /\ u.mem[z].color = t.mem[z].color
             /\ \A r \in Sides : u.mem[z][r] = IF z = a /\ r = s THEN x ELSE t.mem[z][r]
  <2>1. z \in DOMAIN w.mem /\ w.mem[z] = t.mem[z] BY <1>2
  <2>2. s # "key" /\ s # "parent" /\ s # "color" BY <1>5, SideFacts
  <2>3. u.mem[z].key = t.mem[z].key /\ u.mem[z].parent = t.mem[z].parent /\ u.mem[z].color = t.mem[z].color
    BY <1>6, <2>1, <2>2, SideFacts
  <2>4. \A r \in Sides : u.mem[z][r] = IF z = a /\ r = s THEN x ELSE t.mem[z][r]
    BY <1>6, <2>1, SideFacts
  <2> QED BY <2>3, <2>4
<1>8. /\ u.mem[x].key = k /\ u.mem[x].parent = a /\ u.mem[x].color = Red
      /\ \A r \in Sides : u.mem[x][r] = Sentinel
  <2>1. x \in DOMAIN w.mem BY <1>2
  <2>2. \A g \in Fields : u.mem[x][g] = w.mem[x][g] BY <1>5, <1>6, <2>1
  <2>3. u.mem[x].key = k /\ u.mem[x].parent = a /\ u.mem[x].color = Red
    BY <1>3, <2>2, SideFacts
  <2>4. \A r \in Sides : u.mem[x][r] = Sentinel
    BY <1>3, <2>2, SideFacts DEF Sides
  <2> QED BY <2>3, <2>4
<1> QED BY <1>2, <1>6, <1>7, <1>8

(* Only an empty tree has the sentinel for a root.                          *)
LEMMA EmptyTrees ==
    ASSUME NEW t, NEW b, Hangs(t, b)
    PROVE  t.root = Sentinel <=> ArmedIn(t) = {}
<1>1. b[t.root] = ArmedIn(t) /\ b[Sentinel] = {} /\ t.root \in DOMAIN t.mem BY DEF Hangs
<1> QED BY <1>1 DEF ArmedIn

(* x is the first node of a tree.                                           *)
Planting(t, b, old, h, x, k, u, c, new, g) ==
    /\ Settled(t, b, old, h) /\ t.root = Sentinel /\ old \in [Ev -> SUBSET Ev]
    /\ x \in Ev /\ x \notin ArmedIn(t) /\ k \in Keys
    /\ u = Planted(t, x, k) /\ c = [b EXCEPT ![x] = {x}] /\ g = [h EXCEPT ![x] = 1]
    /\ new = [old EXCEPT ![x] = ArmedIn(t)]

(* The tree of one node is settled.                                         *)
LEMMA Plants ==
    ASSUME NEW t, NEW b, NEW old, NEW h, NEW x, NEW k, NEW u, NEW c, NEW new, NEW g,
           Planting(t, b, old, h, x, k, u, c, new, g)
    PROVE  Settled(u, c, new, g) /\ ArmedIn(u) = {x}
<1> USE DEF Planting
<1>1. /\ Struct(t, b, old) /\ HeightsIn(t, h, Null, "left") /\ ColorsIn(t, "none", Null)
      /\ IsTree(t) /\ Hangs(t, b) /\ Typed(t) /\ DOMAIN t.mem \subseteq Nodes /\ b \in [Nodes -> SUBSET Ev]
      /\ Ages(ArmedIn(t), old)
  BY DEF Settled, Struct
<1>2. ArmedIn(t) = {} /\ DOMAIN t.mem = {Sentinel}
  BY <1>1, EmptyTrees DEF ArmedIn, Hangs
<1>3. x # Sentinel /\ x # Null /\ x \in Nodes /\ Sentinel \in Nodes
  BY RbStepsAssumption DEF Nodes
<1>4. /\ IsTree(u) /\ u.root = x /\ DOMAIN u.mem = {Sentinel, x}
      /\ u.mem[Sentinel] = t.mem[Sentinel]
      /\ u.mem[x].key = k /\ u.mem[x].left = Sentinel /\ u.mem[x].right = Sentinel
      /\ u.mem[x].parent = Null /\ u.mem[x].color = Black
  <2>0. x \notin DOMAIN t.mem BY <1>2, <1>3
  <2>1. IsTree(u) /\ u.root = x /\ DOMAIN u.mem = DOMAIN t.mem \cup {x}
        /\ \A z \in DOMAIN t.mem : u.mem[z] = t.mem[z]
    BY <1>1, <2>0, PlantedIs
  <2>2. /\ u.mem[x].key = k /\ u.mem[x].left = Sentinel /\ u.mem[x].right = Sentinel
        /\ u.mem[x].parent = Null /\ u.mem[x].color = Black
    BY <1>1, <2>0, PlantedIs
  <2> QED BY <1>2, <2>1, <2>2
<1>5. ArmedIn(u) = {x} BY <1>3, <1>4 DEF ArmedIn
<1>6. c \in [Nodes -> SUBSET Ev] /\ c[x] = {x} /\ c[Sentinel] = {}
  BY <1>1, <1>3 DEF Hangs
<1>7. \A s \in Sides : u.mem[x][s] = Sentinel BY <1>4 DEF Sides
<1>8. Hangs(u, c)
  <2>1. KidsHang(u, c, x) /\ Closed(u, c, x)
    <3>1. \A s \in Sides : u.mem[x][Other(s)] = Sentinel BY <1>7, SideFacts
    <3> QED BY <1>4, <1>6, <1>7, <3>1 DEF KidsHang, Closed
  <2> QED BY <1>4, <1>5, <1>6, <2>1 DEF Hangs
<1>9. Typed(u)
  BY <1>1, <1>2, <1>4 DEF Typed, Parent
<1>10. KeysOf(u) BY <1>4, <1>5 DEF KeysOf
<1>11. Ages(ArmedIn(u), new)
  <2>1. new[x] = {} /\ \A y \in Ev : new[y] \subseteq {}
    BY <1>1, <1>2 DEF Ages
  <2> QED BY <1>5, <2>1 DEF Ages
<1>12. SortedIn(u, c, new)
  BY <1>5, <1>6, <1>7 DEF SortedIn
<1>13. Struct(u, c, new)
  <2>1. DOMAIN u.mem \subseteq Nodes BY <1>3, <1>4
  <2> QED BY <1>4, <1>6, <1>8, <1>9, <1>10, <1>11, <1>12, <2>1 DEF Struct
<1>14. h \in [Nodes -> Nat] /\ \A z \in Nodes : h[z] = 0
  BY <1>1, <1>2 DEF HeightsIn
<1>15. g \in [Nodes -> Nat] /\ g[x] = 1 /\ \A z \in Nodes \ {x} : g[z] = 0
  BY <1>3, <1>14
<1>16. Black01(u, x) = 1
  BY <1>4, ColorNumbers DEF Black01, IsRed
<1>17. HeightsIn(u, g, Null, "left")
  <2>1. PICK f : f = g OBVIOUS
  <2>2. f \in [Nodes -> Nat] /\ \A z \in Nodes \ ArmedIn(u) : f[z] = 0
    BY <1>5, <1>15, <2>1
  <2>3. \A y \in ArmedIn(u), s \in Sides :
              /\ y \in Nodes /\ u.mem[y][s] \in Nodes /\ y # Null
              /\ f[y] = f[u.mem[y][s]] + Black01(u, y)
    BY <1>3, <1>5, <1>7, <1>15, <1>16, <2>1
  <2>4. HeightsIn(u, f, Null, "left") BY <2>2, <2>3, WholeFrom
  <2> QED BY <2>1, <2>4
<1>18. ColorsIn(u, "none", Null)
  <2>1. ~IsRed(u, x) BY <1>4, ColorNumbers DEF IsRed
  <2>2. ~IsRed(u, Sentinel) BY <1>1, <1>4 DEF ColorsIn, IsRed
  <2> QED BY <1>4, <1>5, <2>1, <2>2 DEF ColorsIn
<1> QED BY <1>5, <1>13, <1>17, <1>18 DEF Settled

-----------------------------------------------------------------------------
(* The way down of an insertion.                                            *)

(* The comparison of rbtree_insert_timer_value is that of the keys.         *)
LEMMA SignedOrder ==
    ASSUME NEW j \in Keys, NEW k \in Keys
    PROVE  Signed(j - k) < 0 <=> j < k
<1>1. j \in Int /\ k \in Int /\ j - k \in -HalfRange .. HalfRange - 1 /\ HalfRange \in Nat \ {0}
  BY RbStepsAssumption, RbLinksAssumption
<1>2. PICK d, n : d = j - k /\ n = 2 * HalfRange OBVIOUS
<1>3. n \in Nat \ {0} /\ d \in Int /\ (d < 0 <=> j < k) BY <1>1, <1>2
<1>4. CASE d >= 0
  <2>1. d \in 0 .. n - 1 BY <1>1, <1>2, <1>3, <1>4
  <2>2. d % n = d BY <1>3, <2>1
  <2>3. d < HalfRange BY <1>1, <1>2
  <2>4. Signed(d) = d BY <1>1, <1>2, <1>3, <2>2, <2>3 DEF Signed
  <2> QED BY <1>2, <1>3, <1>4, <2>4
<1>5. CASE d < 0
  <2>1. d \in -n .. -1 BY <1>1, <1>2, <1>3, <1>5
  <2>2. d % n = d + n BY <1>3, <2>1
  <2>3. d + n >= HalfRange /\ d + n - n = d BY <1>1, <1>2, <1>3
  <2>4. Signed(d) = d BY <1>1, <1>2, <1>3, <2>2, <2>3 DEF Signed
  <2> QED BY <1>2, <1>3, <1>5, <2>4
<1> QED BY <1>3, <1>4, <1>5

(* Smaller keys go left, and equal ones right.                              *)
LEMMA WayIs ==
    ASSUME NEW t, NEW a, t.mem[a].key \in Keys, NEW k \in Keys
    PROVE  /\ Way(t, a, k) = "left" => k < t.mem[a].key
           /\ Way(t, a, k) # "left" => t.mem[a].key <= k
<1>1. Signed(k - t.mem[a].key) < 0 <=> k < t.mem[a].key BY SignedOrder
<1>2. k \in Int /\ t.mem[a].key \in Int BY RbStepsAssumption
<1> QED BY <1>1, <1>2 DEF Way

(* k belongs below a, for all the nodes that have a below them.             *)
Goes(t, x, s, k) == IF s = "left" THEN k < t.mem[x].key ELSE t.mem[x].key <= k

(* The nodes that a has below it, and k with them, are on the same side of  *)
(* all others.                                                              *)
Fits(t, b, k, a) ==
    \A x \in ArmedIn(t), s \in Sides : a \in b[t.mem[x][s]] => Goes(t, x, s, k)

(* Every key belongs below the root.                                        *)
LEMMA FitsRoot ==
    ASSUME NEW t, NEW b, Hangs(t, b), NEW k PROVE Fits(t, b, k, t.root)
<1> SUFFICES ASSUME NEW x \in ArmedIn(t), NEW s \in Sides, t.root \in b[t.mem[x][s]] PROVE FALSE
  BY DEF Fits
<1>1. KidsHang(t, b, x) /\ b[x] \subseteq ArmedIn(t) BY DEF Hangs
<1>2. b[t.mem[x][s]] \subseteq ArmedIn(t) /\ x \notin b[t.mem[x][s]] BY <1>1 DEF KidsHang
<1>3. t.mem[x][s] # Sentinel BY DEF Hangs
<1>4. t.mem[x][s] \in ArmedIn(t) BY <1>1, <1>3 DEF KidsHang, ArmedIn
<1>5. Closed(t, b, t.mem[x][s]) BY <1>4 DEF Hangs
<1>6. b[t.root] \subseteq b[t.mem[x][s]] BY <1>5 DEF Closed
<1>7. b[t.root] = ArmedIn(t) BY DEF Hangs
<1> QED BY <1>2, <1>6, <1>7

(* One step down, the key belongs below the kid.                            *)
LEMMA FitsDown ==
    ASSUME NEW t, NEW b, Hangs(t, b), KeysOf(t), NEW a \in ArmedIn(t), NEW k \in Keys, Fits(t, b, k, a),
           NEW y, y = t.mem[a][Way(t, a, k)], y # Sentinel
    PROVE  y \in ArmedIn(t) /\ Fits(t, b, k, y)
<1>0. PICK d : d = Way(t, a, k) OBVIOUS
<1>1. d \in Sides BY <1>0, WaySides
<1>2. y \in ArmedIn(t) /\ Parent(t, y) = a /\ y # t.root
  BY <1>0, <1>1, Below
<1>3. SUFFICES ASSUME NEW x \in ArmedIn(t), NEW s \in Sides, y \in b[t.mem[x][s]]
               PROVE  Goes(t, x, s, k)
  BY <1>2 DEF Fits
<1>4. CASE x = a
  <2>1. s = d
    <3>1. b[t.mem[a][d]] \cap b[t.mem[a][Other(d)]] = {}
      <4>1. KidsHang(t, b, a) BY DEF Hangs
      <4> QED BY <1>1, <4>1 DEF KidsHang
    <3>2. y \in b[y] BY <1>0, <1>1, SideOf
    <3>3. s # Other(d) BY <1>0, <1>3, <1>4, <3>1, <3>2
    <3> QED BY <1>1, <3>3, SideFacts
  <2>2. t.mem[a].key \in Keys BY DEF KeysOf
  <2> QED BY <1>0, <1>4, <2>1, <2>2, WayIs DEF Goes
<1>5. CASE x # a
  <2>0. t.mem[x][s] # Sentinel BY <1>3 DEF Hangs
  <2>1. t.mem[x][s] \in ArmedIn(t) /\ Parent(t, t.mem[x][s]) = x
    BY <2>0, Below
  <2>2. y # t.mem[x][s] BY <1>2, <1>5, <2>1
  <2>3. Closed(t, b, t.mem[x][s]) BY <2>1 DEF Hangs
  <2>4. a \in b[t.mem[x][s]] BY <1>2, <1>3, <2>2, <2>3 DEF Closed
  <2> QED BY <2>4 DEF Fits
<1> QED BY <1>4, <1>5

(* rbtree_insert_timer_value is about to look for a leaf for x.             *)
Comes(A, old, x) ==
    x \in Ev /\ x \notin A /\ old[x] = A

(* All nodes of the tree are older than the one that is coming, ...         *)
LEMMA AgesStart ==
    ASSUME NEW A, NEW old \in [Ev -> SUBSET Ev], Ages(A, old), A \subseteq Ev, NEW x \in Ev, x \notin A,
           NEW new, new = [old EXCEPT ![x] = A]
    PROVE  new \in [Ev -> SUBSET Ev] /\ Ages(A, new) /\ Comes(A, new, x) /\ \A y \in A : new[y] = old[y]
<1>1. new \in [Ev -> SUBSET Ev] /\ new[x] = A /\ \A y \in Ev \ {x} : new[y] = old[y]
  OBVIOUS
<1>2. \A y \in A : y \in Ev /\ y # x /\ new[y] = old[y]
  BY <1>1
<1>3. \A y \in Ev : new[y] \subseteq A
  BY <1>1 DEF Ages
<1> QED BY <1>1, <1>2, <1>3 DEF Ages, Comes

(* ... and it is the youngest when it hangs.                                *)
LEMMA AgesEnd ==
    ASSUME NEW A, NEW old, Ages(A, old), A \subseteq Ev, NEW x, Comes(A, old, x)
    PROVE  Ages(A \cup {x}, old)
<1>1. x \in Ev /\ x \notin A /\ old[x] = A /\ \A y \in Ev : old[y] \subseteq A
  BY DEF Comes, Ages
<1>2. \A y \in A \cup {x} : y \in Ev BY <1>1
<1>3. \A y, z \in A \cup {x} : y \in old[z] => y \in A
  BY <1>1, <1>2
<1>4. ASSUME NEW y \in A \cup {x}, NEW z \in A \cup {x}, NEW w \in A \cup {x}, y \in old[z], z \in old[w]
      PROVE  y \in old[w]
  <2>1. y \in A /\ z \in A BY <1>3, <1>4
  <2>2. CASE w = x BY <1>1, <2>1, <2>2
  <2>3. CASE w \in A BY <1>4, <2>1, <2>3 DEF Ages
  <2> QED BY <2>2, <2>3
<1>5. \A y, z \in A \cup {x} : y # z => y \in old[z] \/ z \in old[y]
  BY <1>1 DEF Ages
<1>6. \A y \in A \cup {x} : y \notin old[y]
  BY <1>1 DEF Ages
<1> QED BY <1>1, <1>4, <1>5, <1>6 DEF Ages

(* The ages of nodes that are not in the tree do not matter.                *)
LEMMA SameAgesSorted ==
    ASSUME NEW t, NEW b, Hangs(t, b), NEW old, SortedIn(t, b, old), NEW new,
           \A y \in ArmedIn(t) : new[y] = old[y]
    PROVE  SortedIn(t, b, new)
<1> SUFFICES ASSUME NEW x \in ArmedIn(t), NEW s \in Sides, NEW y \in b[t.mem[x][s]]
             PROVE  InOrder(t, new, s, y, x)
  BY DEF SortedIn
<1>1. InOrder(t, old, s, y, x) BY DEF SortedIn
<1>2. y \in ArmedIn(t)
  <2>1. b[x] \subseteq ArmedIn(t) /\ KidsHang(t, b, x) BY DEF Hangs
  <2> QED BY <2>1 DEF KidsHang
<1> QED BY <1>1, <1>2 DEF InOrder, Bef

-----------------------------------------------------------------------------
(* The new node hangs.                                                      *)

(* x hangs below a leaf a now, on side d.                                   *)
Hanging(t, b, old, h, a, x, k, d, u, c) ==
    /\ Settled(t, b, old, h) /\ a \in ArmedIn(t) /\ Comes(ArmedIn(t), old, x) /\ k \in Keys
    /\ Fits(t, b, k, a) /\ d = Way(t, a, k) /\ t.mem[a][d] = Sentinel
    /\ u = Hung(t, x, k, a)
    /\ c = [y \in Nodes |->
              IF y = x THEN {x} ELSE IF a \in b[y] THEN b[y] \cup {x} ELSE b[y]]

(* The new node, the leaf it hangs below and the nodes of the tree.         *)
LEMMA HangingFacts ==
    ASSUME NEW t, NEW b, NEW old, NEW h, NEW a, NEW x, NEW k, NEW d, NEW u, NEW c,
           Hanging(t, b, old, h, a, x, k, d, u, c)
    PROVE  /\ Struct(t, b, old) /\ Hangs(t, b) /\ DOMAIN t.mem \subseteq Nodes /\ b \in [Nodes -> SUBSET Ev]
           /\ a \in ArmedIn(t) /\ a \in DOMAIN t.mem /\ a \in Nodes /\ a # Sentinel /\ a # x
           /\ x \in Ev /\ x \notin ArmedIn(t) /\ x # Sentinel /\ x # Null /\ x \in Nodes /\ x \notin DOMAIN t.mem
           /\ d \in Sides /\ Other(d) \in Sides /\ Other(d) # d /\ t.mem[a][d] = Sentinel
           /\ ArmedIn(t) \subseteq DOMAIN t.mem /\ ArmedIn(t) \subseteq Ev
           /\ \A s \in Sides : s = d \/ s = Other(d)
           /\ \A z \in ArmedIn(t), s \in Sides : t.mem[z][s] \in DOMAIN t.mem /\ b[t.mem[z][s]] \subseteq ArmedIn(t)
<1>1. /\ Settled(t, b, old, h) /\ a \in ArmedIn(t) /\ Comes(ArmedIn(t), old, x) /\ d = Way(t, a, k)
      /\ t.mem[a][d] = Sentinel
  BY DEF Hanging
<1>2. Struct(t, b, old) BY <1>1 DEF Settled
<1>3. Hangs(t, b) /\ DOMAIN t.mem \subseteq Nodes /\ b \in [Nodes -> SUBSET Ev] BY <1>2 DEF Struct
<1>4. x \in Ev /\ x \notin ArmedIn(t) BY <1>1 DEF Comes
<1>5. x # Sentinel /\ x # Null /\ x \in Nodes BY <1>4, RbStepsAssumption DEF Nodes
<1>6. x \notin DOMAIN t.mem BY <1>4, <1>5 DEF ArmedIn
<1>7. a \in DOMAIN t.mem /\ a # Sentinel /\ ArmedIn(t) \subseteq DOMAIN t.mem /\ ArmedIn(t) \subseteq Ev
  BY <1>1, <1>3 DEF ArmedIn, Nodes
<1>8. d \in Sides BY <1>1, WaySides
<1>9. Other(d) \in Sides /\ Other(d) # d /\ \A s \in Sides : s = d \/ s = Other(d) BY <1>8, SideFacts
<1>10. ASSUME NEW z \in ArmedIn(t), NEW s \in Sides
       PROVE  t.mem[z][s] \in DOMAIN t.mem /\ b[t.mem[z][s]] \subseteq ArmedIn(t)
  <2>1. KidsHang(t, b, z) /\ b[z] \subseteq ArmedIn(t) BY <1>3 DEF Hangs
  <2> QED BY <2>1 DEF KidsHang
<1> QED BY <1>1, <1>2, <1>3, <1>4, <1>5, <1>6, <1>7, <1>8, <1>9, <1>10

(* The fields after it hangs, and what is below each node.                  *)
LEMMA HangingTree ==
    ASSUME NEW t, NEW b, NEW old, NEW h, NEW a, NEW x, NEW k, NEW d, NEW u, NEW c,
           Hanging(t, b, old, h, a, x, k, d, u, c)
    PROVE  /\ IsTree(u) /\ u.root = t.root /\ DOMAIN u.mem = DOMAIN t.mem \cup {x}
           /\ ArmedIn(u) = ArmedIn(t) \cup {x}
           /\ \A z \in DOMAIN t.mem :
                 /\ u.mem[z].key = t.mem[z].key /\ u.mem[z].color = t.mem[z].color
                 /\ Parent(u, z) = Parent(t, z)
           /\ \A z \in DOMAIN t.mem, r \in Sides : u.mem[z][r] = IF z = a /\ r = d THEN x ELSE t.mem[z][r]
           /\ u.mem[x].key = k /\ Parent(u, x) = a /\ u.mem[x].color = Red
           /\ \A r \in Sides : u.mem[x][r] = Sentinel
           /\ c[x] = {x} /\ c[Sentinel] = {} /\ c[a] = b[a] \cup {x}
           /\ \A y \in DOMAIN t.mem : c[y] = IF a \in b[y] THEN b[y] \cup {x} ELSE b[y]
           /\ c \in [Nodes -> SUBSET Ev]
<1>1. /\ Struct(t, b, old) /\ Hangs(t, b) /\ DOMAIN t.mem \subseteq Nodes /\ b \in [Nodes -> SUBSET Ev]
      /\ a \in ArmedIn(t) /\ a \in DOMAIN t.mem /\ a # Sentinel
      /\ x \in Ev /\ x # Sentinel /\ x \in Nodes /\ x \notin DOMAIN t.mem
  BY HangingFacts
<1>2. IsTree(t) /\ d = Way(t, a, k) /\ u = Hung(t, x, k, a) BY <1>1 DEF Hanging, Struct
<1>3. /\ IsTree(u) /\ u.root = t.root /\ DOMAIN u.mem = DOMAIN t.mem \cup {x}
      /\ \A z \in DOMAIN t.mem :
                 /\ u.mem[z].key = t.mem[z].key /\ u.mem[z].parent = t.mem[z].parent
                 /\ u.mem[z].color = t.mem[z].color
                 /\ \A r \in Sides : u.mem[z][r] = IF z = a /\ r = d THEN x ELSE t.mem[z][r]
  BY <1>1, <1>2, HungIs
<1>4. /\ u.mem[x].key = k /\ \A r \in Sides : u.mem[x][r] = Sentinel
  BY <1>1, <1>2, HungIs
<1>5. u.mem[x].parent = a /\ u.mem[x].color = Red
  BY <1>1, <1>2, HungIs
<1>6. ArmedIn(u) = ArmedIn(t) \cup {x} BY <1>1, <1>3 DEF ArmedIn
<1>7. c = [y \in Nodes |-> IF y = x THEN {x} ELSE IF a \in b[y] THEN b[y] \cup {x} ELSE b[y]]
  BY DEF Hanging
<1>8. c[x] = {x} /\ (\A y \in DOMAIN t.mem : c[y] = IF a \in b[y] THEN b[y] \cup {x} ELSE b[y])
  BY <1>1, <1>7
<1>9. c \in [Nodes -> SUBSET Ev] BY <1>1, <1>7
<1>10. b[Sentinel] = {} /\ Sentinel \in DOMAIN t.mem BY <1>1 DEF Hangs
<1>11. a \in b[a]
  <2>1. KidsHang(t, b, a) BY <1>1 DEF Hangs
  <2>2. "left" \in Sides BY DEF Sides
  <2> QED BY <2>1, <2>2 DEF KidsHang
<1> QED BY <1>1, <1>3, <1>4, <1>5, <1>6, <1>8, <1>9, <1>10, <1>11 DEF Parent

(* Every node hangs once, the new one too.                                  *)
LEMMA HangingHangs ==
    ASSUME NEW t, NEW b, NEW old, NEW h, NEW a, NEW x, NEW k, NEW d, NEW u, NEW c,
           Hanging(t, b, old, h, a, x, k, d, u, c)
    PROVE  Hangs(u, c)
<1> DEFINE A == ArmedIn(t)
<1>1. /\ Hangs(t, b) /\ a \in A /\ a \in DOMAIN t.mem /\ a # x
  BY HangingFacts
<1>1a. x \notin A /\ x # Sentinel /\ x \notin DOMAIN t.mem
  BY HangingFacts
<1>1b. d \in Sides /\ Other(d) \in Sides /\ Other(d) # d /\ t.mem[a][d] = Sentinel /\ A \subseteq DOMAIN t.mem
       /\ \A s \in Sides : s = d \/ s = Other(d)
  BY HangingFacts
<1>1c. \A z \in A, s \in Sides : t.mem[z][s] \in DOMAIN t.mem /\ b[t.mem[z][s]] \subseteq A
  BY HangingFacts
<1>2. u.root = t.root /\ DOMAIN u.mem = DOMAIN t.mem \cup {x} /\ ArmedIn(u) = A \cup {x}
  BY HangingTree
<1>2a. \A z \in DOMAIN t.mem : Parent(u, z) = Parent(t, z)
  BY HangingTree
<1>2b. \A z \in DOMAIN t.mem, r \in Sides : u.mem[z][r] = IF z = a /\ r = d THEN x ELSE t.mem[z][r]
  BY HangingTree
<1>2c. Parent(u, x) = a /\ \A r \in Sides : u.mem[x][r] = Sentinel
  BY HangingTree
<1>2d. c[x] = {x} /\ c[Sentinel] = {} /\ c[a] = b[a] \cup {x}
  BY HangingTree
<1>2e. \A y \in DOMAIN t.mem : c[y] = IF a \in b[y] THEN b[y] \cup {x} ELSE b[y]
  BY HangingTree
<1>3. /\ {t.root, Sentinel} \subseteq DOMAIN t.mem /\ b[t.root] = A /\ b[Sentinel] = {}
      /\ \A z \in A : b[z] \subseteq A /\ KidsHang(t, b, z) /\ Closed(t, b, z)
      /\ \A z \in A \ {t.root} : HangsIn(t, z)
  BY <1>1 DEF Hangs
<1> HIDE DEF A
<1>4. ASSUME NEW z \in A, NEW s \in Sides
      PROVE  /\ t.mem[z][s] \in DOMAIN t.mem
             /\ b[z] = {z} \cup b[t.mem[z][s]] \cup b[t.mem[z][Other(s)]]
             /\ z \notin b[t.mem[z][s]]
             /\ b[t.mem[z][s]] \cap b[t.mem[z][Other(s)]] = {}
             /\ t.mem[z][s] # Sentinel => Parent(t, t.mem[z][s]) = z
  BY <1>3 DEF KidsHang
<1>5. {u.root, Sentinel} \subseteq DOMAIN u.mem /\ c[u.root] = ArmedIn(u) /\ c[Sentinel] = {}
  BY <1>1, <1>2, <1>2d, <1>2e, <1>3
<1>6. ASSUME NEW z \in A PROVE c[z] \subseteq A \cup {x} /\ Closed(u, c, z)
  <2>1. c[z] = IF a \in b[z] THEN b[z] \cup {x} ELSE b[z] BY <1>1b, <1>2e
  <2>2. b[z] \subseteq A /\ Closed(t, b, z) BY <1>3
  <2>3. ASSUME NEW y \in c[z] PROVE c[y] \subseteq c[z] /\ (y # z => Parent(u, y) \in c[z])
    <3>1. CASE y = x
      <4>1. a \in b[z] BY <1>1a, <2>1, <2>2, <2>3, <3>1
      <4> QED BY <1>2c, <1>2d, <2>1, <3>1, <4>1
    <3>2. CASE y # x
      <4>1. y \in b[z] /\ y \in A BY <2>1, <2>2, <2>3, <3>2
      <4>2. b[y] \subseteq b[z] /\ (y # z => Parent(t, y) \in b[z]) BY <2>2, <4>1 DEF Closed
      <4>3. c[y] = IF a \in b[y] THEN b[y] \cup {x} ELSE b[y] BY <1>1b, <1>2e, <4>1
      <4>4. Parent(u, y) = Parent(t, y) BY <1>1b, <1>2a, <4>1
      <4> QED BY <2>1, <4>2, <4>3, <4>4
    <3> QED BY <3>1, <3>2
  <2> QED BY <2>1, <2>2, <2>3 DEF Closed
<1>7. ASSUME NEW z \in A PROVE KidsHang(u, c, z)
  <2>0. SUFFICES ASSUME NEW s \in Sides, NEW y, y = u.mem[z][s], NEW w, w = u.mem[z][Other(s)]
                 PROVE  /\ y \in DOMAIN u.mem /\ c[z] = {z} \cup c[y] \cup c[w] /\ z \notin c[y]
                        /\ c[y] \cap c[w] = {} /\ (y # Sentinel => Parent(u, y) = z)
    BY DEF KidsHang
  <2>1. Other(s) \in Sides /\ z \in DOMAIN t.mem /\ z # x BY <1>1a, <1>1b, SideFacts
  <2>2. CASE z = a /\ s = d
    <3>1. y = x /\ w = t.mem[a][Other(d)] BY <1>1, <1>1b, <1>2b, <2>0, <2>2
    <3>2. a \notin b[w] /\ b[a] = {a} \cup b[w] /\ w \in DOMAIN t.mem /\ b[w] \subseteq A
      <4>1. b[a] = {a} \cup b[t.mem[a][d]] \cup b[t.mem[a][Other(d)]] BY <1>1, <1>1b, <1>4
      <4>2. a \notin b[t.mem[a][Other(d)]] /\ t.mem[a][Other(d)] \in DOMAIN t.mem BY <1>1, <1>1b, <1>4
      <4> QED BY <1>1, <1>1b, <1>1c, <1>3, <3>1, <4>1, <4>2
    <3>3. c[w] = b[w] BY <1>2e, <3>2
    <3> QED BY <1>1, <1>1a, <1>2, <1>2c, <1>2d, <2>2, <3>1, <3>2, <3>3
  <2>3. CASE z = a /\ s = Other(d)
    <3>0. Other(s) = d BY <1>1b, <2>3, SideFacts
    <3>1. w = x /\ y = t.mem[a][s] BY <1>1, <1>1b, <1>2b, <2>0, <2>3, <3>0
    <3>2. a \notin b[y] /\ b[a] = {a} \cup b[y] /\ y \in DOMAIN t.mem /\ b[y] \subseteq A
          /\ (y # Sentinel => Parent(t, y) = a)
      <4>1. b[a] = {a} \cup b[t.mem[a][s]] \cup b[t.mem[a][Other(s)]] BY <1>1, <1>1b, <1>4
      <4>2. a \notin b[t.mem[a][s]] /\ t.mem[a][s] \in DOMAIN t.mem
            /\ (t.mem[a][s] # Sentinel => Parent(t, t.mem[a][s]) = a)
        BY <1>1, <1>1b, <1>4
      <4> QED BY <1>1, <1>1b, <1>1c, <1>3, <3>0, <3>1, <4>1, <4>2
    <3>3. c[y] = b[y] BY <1>2e, <3>2
    <3> QED BY <1>1, <1>1a, <1>2, <1>2a, <1>2d, <2>3, <3>1, <3>2, <3>3
  <2>4. CASE z # a
    <3>1. y = t.mem[z][s] /\ w = t.mem[z][Other(s)] BY <1>2b, <2>0, <2>1, <2>4
    <3>2. /\ y \in DOMAIN t.mem
          /\ b[z] = {z} \cup b[y] \cup b[w]
          /\ z \notin b[y]
          /\ b[y] \cap b[w] = {}
          /\ y # Sentinel => Parent(t, y) = z
      BY <1>4, <3>1
    <3>3. w \in DOMAIN t.mem /\ b[y] \subseteq A /\ b[w] \subseteq A BY <1>1c, <2>1, <3>1
    <3>4. /\ c[z] = IF a \in b[z] THEN b[z] \cup {x} ELSE b[z]
          /\ c[y] = IF a \in b[y] THEN b[y] \cup {x} ELSE b[y]
          /\ c[w] = IF a \in b[w] THEN b[w] \cup {x} ELSE b[w]
      BY <1>2e, <2>1, <3>2, <3>3
    <3>5. c[z] = {z} \cup c[y] \cup c[w] BY <2>4, <3>2, <3>4
    <3>6. z \notin c[y] BY <2>1, <3>2, <3>4
    <3>7. c[y] \cap c[w] = {} BY <1>1a, <3>2, <3>3, <3>4
    <3> QED BY <1>2, <1>2a, <3>2, <3>5, <3>6, <3>7
  <2> QED BY <1>1b, <2>2, <2>3, <2>4
<1>8. KidsHang(u, c, x) /\ Closed(u, c, x) /\ c[x] \subseteq ArmedIn(u)
  <2>1. \A s \in Sides : u.mem[x][s] = Sentinel /\ u.mem[x][Other(s)] = Sentinel
    BY <1>2c, SideFacts
  <2>2. Sentinel \in DOMAIN u.mem BY <1>5
  <2> QED BY <1>2, <1>2d, <2>1, <2>2 DEF KidsHang, Closed
<1>9. ASSUME NEW z \in A \ {t.root} PROVE HangsIn(u, z)
  <2>1. Parent(t, z) \in A /\ \E s \in Sides : z = t.mem[Parent(t, z)][s] BY <1>3 DEF HangsIn, A
  <2>2. PICK s \in Sides : z = t.mem[Parent(t, z)][s] BY <2>1
  <2>3. Parent(u, z) = Parent(t, z) /\ z # Sentinel BY <1>1b, <1>2a DEF A, ArmedIn
  <2>4. z = u.mem[Parent(t, z)][s] BY <1>1b, <1>2b, <2>1, <2>2, <2>3
  <2> QED BY <1>2, <2>1, <2>3, <2>4 DEF HangsIn
<1>10. HangsIn(u, x)
  <2>1. x = u.mem[a][d] BY <1>1, <1>1b, <1>2b
  <2> QED BY <1>1, <1>1b, <1>2, <1>2c, <2>1 DEF HangsIn
<1> QED BY <1>2, <1>5, <1>6, <1>7, <1>8, <1>9, <1>10 DEF Hangs

(* The loop of rbtree_insert starts from the new node.                      *)
LEMMA HangsNew ==
    ASSUME NEW t, NEW b, NEW old, NEW h, NEW a, NEW x, NEW k, NEW d, NEW u, NEW c,
           Hanging(t, b, old, h, a, x, k, d, u, c)
    PROVE  InsertAt(u, c, old, h, x) /\ ArmedIn(u) = ArmedIn(t) \cup {x}
<1> DEFINE A == ArmedIn(t)
<1>1. /\ Struct(t, b, old) /\ Hangs(t, b) /\ DOMAIN t.mem \subseteq Nodes /\ a \in A /\ a \in DOMAIN t.mem /\ a # x
  BY HangingFacts
<1>1a. x \in Ev /\ x \notin A /\ x # Sentinel /\ x # Null /\ x \in Nodes /\ x \notin DOMAIN t.mem
  BY HangingFacts
<1>1b. d \in Sides /\ Other(d) \in Sides /\ Other(d) # d /\ t.mem[a][d] = Sentinel /\ A \subseteq DOMAIN t.mem
       /\ A \subseteq Ev /\ \A s \in Sides : s = d \/ s = Other(d)
  BY HangingFacts
<1>1c. \A z \in A, s \in Sides : t.mem[z][s] \in DOMAIN t.mem /\ b[t.mem[z][s]] \subseteq A
  BY HangingFacts
<1>1d. /\ HeightsIn(t, h, Null, "left") /\ ColorsIn(t, "none", Null) /\ Comes(A, old, x) /\ k \in Keys
       /\ Fits(t, b, k, a) /\ d = Way(t, a, k)
  BY DEF Hanging, Settled
<1>1e. Typed(t) /\ KeysOf(t) /\ Ages(A, old) /\ SortedIn(t, b, old)
  BY <1>1 DEF Struct
<1>2. IsTree(u) /\ u.root = t.root /\ DOMAIN u.mem = DOMAIN t.mem \cup {x} /\ ArmedIn(u) = A \cup {x}
  BY HangingTree
<1>2a. \A z \in DOMAIN t.mem :
          /\ u.mem[z].key = t.mem[z].key /\ u.mem[z].color = t.mem[z].color
          /\ Parent(u, z) = Parent(t, z)
  BY HangingTree
<1>2b. \A z \in DOMAIN t.mem, r \in Sides : u.mem[z][r] = IF z = a /\ r = d THEN x ELSE t.mem[z][r]
  BY HangingTree
<1>2c. u.mem[x].key = k /\ Parent(u, x) = a /\ u.mem[x].color = Red /\ \A r \in Sides : u.mem[x][r] = Sentinel
  BY HangingTree
<1>2d. c[x] = {x} /\ c[Sentinel] = {} /\ c \in [Nodes -> SUBSET Ev]
  BY HangingTree
<1>2e. \A y \in DOMAIN t.mem : c[y] = IF a \in b[y] THEN b[y] \cup {x} ELSE b[y]
  BY HangingTree
<1>3. Hangs(u, c) BY HangingHangs
<1>4. t.root \in DOMAIN t.mem /\ Sentinel \in DOMAIN t.mem /\ b[Sentinel] = {} BY <1>1 DEF Hangs
<1> HIDE DEF A
<1>5. Typed(u)
  <2>1. \A z \in DOMAIN t.mem : Parent(t, z) \in Ev \cup {Null} /\ t.mem[z].color \in {Red, Black}
    BY <1>1e DEF Typed
  <2>2. a \in Ev BY <1>1, <1>1b
  <2> QED BY <1>2, <1>2a, <1>2c, <2>1, <2>2 DEF Typed
<1>6. KeysOf(u)
  <2>1. \A z \in A : t.mem[z].key \in Keys BY <1>1e DEF KeysOf, A
  <2> QED BY <1>1b, <1>1d, <1>2, <1>2a, <1>2c, <2>1 DEF KeysOf
<1>7. Ages(ArmedIn(u), old)
  BY <1>1b, <1>1d, <1>1e, <1>2, AgesEnd
<1>8. ASSUME NEW z \in A, NEW s \in Sides, Goes(t, z, s, k) PROVE InOrder(u, old, s, x, z)
  <2>1. u.mem[z].key = t.mem[z].key /\ t.mem[z].key \in Keys BY <1>1b, <1>1e, <1>2a DEF KeysOf, A
  <2>2. z \in old[x] BY <1>1d DEF Comes
  <2>3. t.mem[z].key \in Int /\ k \in Int BY <1>1d, <2>1, RbStepsAssumption
  <2>4. t.mem[z].key <= k => t.mem[z].key < k \/ t.mem[z].key = k BY <2>3
  <2> QED BY <1>2c, <1>8, <2>1, <2>2, <2>4 DEF InOrder, Bef, Goes
<1>9. ASSUME NEW z \in ArmedIn(u), NEW s \in Sides, NEW y \in c[u.mem[z][s]]
      PROVE  InOrder(u, old, s, y, z)
  <2>1. z # x BY <1>2c, <1>2d, <1>9
  <2>2. z \in A /\ z \in DOMAIN t.mem BY <1>1b, <1>2, <2>1
  <2>3. CASE z = a /\ s = d
    <3>1. y = x BY <1>2b, <1>2d, <1>9, <2>2, <2>3
    <3>2. Goes(t, a, d, k)
      <4>1. t.mem[a].key \in Keys BY <1>1, <1>1e DEF KeysOf, A
      <4> QED BY <1>1d, <4>1, WayIs DEF Goes
    <3> QED BY <1>1, <1>8, <2>3, <3>1, <3>2
  <2>4. CASE ~(z = a /\ s = d)
    <3>1. u.mem[z][s] = t.mem[z][s] /\ t.mem[z][s] \in DOMAIN t.mem BY <1>1c, <1>2b, <2>2, <2>4
    <3>1a. y \in c[t.mem[z][s]] BY <1>9, <3>1
    <3>1b. c[t.mem[z][s]] = IF a \in b[t.mem[z][s]] THEN b[t.mem[z][s]] \cup {x} ELSE b[t.mem[z][s]]
      BY <1>2e, <3>1
    <3>2. CASE y = x
      <4>1. a \in b[t.mem[z][s]]
        <5>1. x \notin b[t.mem[z][s]] BY <1>1a, <1>1c, <2>2
        <5> QED BY <3>1a, <3>1b, <3>2, <5>1
      <4>2. Goes(t, z, s, k) BY <1>1d, <2>2, <4>1 DEF Fits, A
      <4> QED BY <1>8, <2>2, <3>2, <4>2
    <3>3. CASE y # x
      <4>1. y \in b[t.mem[z][s]] BY <3>1a, <3>1b, <3>3
      <4>2. InOrder(t, old, s, y, z) BY <1>1e, <2>2, <4>1 DEF SortedIn, A
      <4>3. y \in A BY <1>1c, <2>2, <4>1
      <4>4. \A w \in A : u.mem[w].key = t.mem[w].key BY <1>1b, <1>2a
      <4> QED BY <2>2, <4>2, <4>3, <4>4, SameKeysSameOrder
    <3> QED BY <3>2, <3>3
  <2> QED BY <2>3, <2>4
<1>10. SortedIn(u, c, old)
  BY <1>9 DEF SortedIn
<1>11. Struct(u, c, old)
  <2>1. DOMAIN u.mem \subseteq Nodes BY <1>1, <1>1a, <1>2
  <2> QED BY <1>2, <1>2d, <1>3, <1>5, <1>6, <1>7, <1>10, <2>1 DEF Struct
<1>12. IsRed(u, x) /\ \A z \in DOMAIN t.mem : IsRed(u, z) <=> IsRed(t, z)
  BY <1>2a, <1>2c DEF IsRed
<1>13. ColorsIn(u, "insert", x)
  <2>1. ~IsRed(t, t.root) /\ ~IsRed(t, Sentinel) BY <1>1d DEF ColorsIn
  <2>2. ASSUME NEW z \in ArmedIn(u), NEW s \in Sides, IsRed(u, z), IsRed(u, u.mem[z][s]), u.mem[z][s] # x
        PROVE  FALSE
    <3>1. ~IsRed(u, Sentinel) BY <1>4, <1>12, <2>1
    <3>2. z # x BY <1>2c, <2>2, <3>1
    <3>3. z \in A /\ z \in DOMAIN t.mem BY <1>1b, <1>2, <3>2
    <3>4. u.mem[z][s] = t.mem[z][s] /\ t.mem[z][s] \in DOMAIN t.mem BY <1>1c, <1>2b, <2>2, <3>3
    <3>5. IsRed(t, z) /\ IsRed(t, t.mem[z][s]) BY <1>12, <2>2, <3>3, <3>4
    <3> QED BY <1>1d, <3>3, <3>5 DEF ColorsIn, Exempt, A
  <2>3. ~IsRed(u, Sentinel) /\ ~IsRed(u, u.root) BY <1>2, <1>4, <1>12, <2>1
  <2> QED BY <2>2, <2>3 DEF ColorsIn, Exempt
<1>14. HeightsIn(u, h, Null, "left")
  <2>0. h \in [Nodes -> Nat] /\ \A z \in Nodes \ A : h[z] = 0 BY <1>1d DEF HeightsIn, A
  <2>0a. Sentinel \in Nodes /\ Sentinel \notin A BY DEF Nodes, A, ArmedIn
  <2>1. \A z \in Nodes \ ArmedIn(u) : h[z] = 0 BY <1>2, <2>0
  <2>2. \A z \in A, s \in Sides : h[z] = h[t.mem[z][s]] + Black01(t, z)
    <3>1. \A z \in ArmedIn(t), s \in Sides :
              /\ h[z] \in Nat /\ h[t.mem[z][s]] \in Nat
              /\ h[z] = h[t.mem[z][s]] + Black01(t, z)
      BY <1>1, <1>1d, WholeHeights
    <3> QED BY <3>1 DEF A
  <2>3. \A z \in A : z \in Nodes /\ z # Null BY <1>1, NullIsNoNode DEF A
  <2>4. \A z \in A : Black01(u, z) = Black01(t, z) BY <1>1b, <1>12 DEF Black01
  <2>5. ASSUME NEW z \in ArmedIn(u), NEW s \in Sides
        PROVE  /\ z \in Nodes /\ u.mem[z][s] \in Nodes /\ z # Null
               /\ h[z] = h[u.mem[z][s]] + Black01(u, z)
    <3>1. CASE z = x
      <4>1. Black01(u, x) = 0 BY <1>12, BlackNumbers
      <4>2. h[x] = 0 /\ h[Sentinel] = 0 BY <1>1a, <2>0, <2>0a
      <4> QED BY <1>1a, <1>2c, <2>0a, <3>1, <4>1, <4>2
    <3>2. CASE z # x
      <4>1. z \in A /\ z \in DOMAIN t.mem BY <1>1b, <1>2, <3>2
      <4>2. CASE z = a /\ s = d
        <5>1. u.mem[z][s] = x BY <1>2b, <4>1, <4>2
        <5>2. h[x] = h[t.mem[z][s]] BY <1>1a, <1>1b, <2>0, <2>0a, <4>2
        <5> QED BY <1>1a, <2>2, <2>3, <2>4, <4>1, <5>1, <5>2
      <4>3. CASE ~(z = a /\ s = d)
        <5>1. u.mem[z][s] = t.mem[z][s] /\ t.mem[z][s] \in Nodes BY <1>1, <1>1c, <1>2b, <4>1, <4>3
        <5> QED BY <2>2, <2>3, <2>4, <4>1, <5>1
      <4> QED BY <4>2, <4>3
    <3> QED BY <3>1, <3>2
  <2>6. \A z \in ArmedIn(u), s \in Sides :
               /\ z \in Nodes /\ u.mem[z][s] \in Nodes /\ z # Null
               /\ h[z] = h[u.mem[z][s]] + Black01(u, z)
    BY <2>5
  <2> QED BY <2>0, <2>1, <2>6, WholeFrom
<1> QED BY <1>2, <1>11, <1>12, <1>13, <1>14 DEF InsertAt, A

-----------------------------------------------------------------------------
(* A node leaves the tree.                                                  *)

(* x is to be taken out; subst, which has a leaf on one side, takes its     *)
(* place, and temp, on side d of subst, takes that of subst.                *)
Chosen(t, b, old, x, subst, temp, d) ==
    /\ Struct(t, b, old) /\ x \in ArmedIn(t) /\ subst \in ArmedIn(t) /\ d \in Sides
    /\ temp = t.mem[subst][d] /\ t.mem[subst][Other(d)] = Sentinel
    /\ subst # x => /\ subst \in b[t.mem[x]["right"]]
                    /\ \A y \in b[t.mem[x]["right"]] \ {subst} : Bef(t, old, subst, y)

(* A node is among those below it.                                          *)
LEMMA InItself ==
    ASSUME NEW t, NEW b, Hangs(t, b), NEW x \in ArmedIn(t) PROVE x \in b[x]
<1>1. KidsHang(t, b, x) BY DEF Hangs
<1>2. "left" \in Sides BY DEF Sides
<1> QED BY <1>1, <1>2 DEF KidsHang

(* A node, the nodes below its two kids, and nothing else, are below it.    *)
LEMMA KidFacts ==
    ASSUME NEW t, NEW b, Hangs(t, b), NEW x \in ArmedIn(t), NEW s \in Sides
    PROVE  /\ t.mem[x][s] \in DOMAIN t.mem /\ b[t.mem[x][s]] \subseteq ArmedIn(t)
           /\ b[x] = {x} \cup b[t.mem[x][s]] \cup b[t.mem[x][Other(s)]]
           /\ x \notin b[t.mem[x][s]] /\ x \notin b[t.mem[x][Other(s)]]
           /\ b[t.mem[x][s]] \cap b[t.mem[x][Other(s)]] = {}
           /\ \A y \in b[t.mem[x][s]] : y \in ArmedIn(t) /\ b[y] \subseteq b[t.mem[x][s]] /\ x \notin b[y]
<1>1. KidsHang(t, b, x) /\ b[x] \subseteq ArmedIn(t) BY DEF Hangs
<1>2. /\ t.mem[x][s] \in DOMAIN t.mem
      /\ b[x] = {x} \cup b[t.mem[x][s]] \cup b[t.mem[x][Other(s)]]
      /\ x \notin b[t.mem[x][s]] /\ b[t.mem[x][s]] \cap b[t.mem[x][Other(s)]] = {}
  BY <1>1 DEF KidsHang
<1>3. x \notin b[t.mem[x][Other(s)]]
  BY <1>1, SideFacts DEF KidsHang
<1>4. b[t.mem[x][s]] \subseteq ArmedIn(t) BY <1>1, <1>2
<1>5. ASSUME NEW y \in b[t.mem[x][s]]
      PROVE  y \in ArmedIn(t) /\ b[y] \subseteq b[t.mem[x][s]] /\ x \notin b[y]
  <2>1. t.mem[x][s] # Sentinel BY <1>5 DEF Hangs
  <2>2. t.mem[x][s] \in ArmedIn(t) BY <1>2, <2>1 DEF ArmedIn
  <2>3. Closed(t, b, t.mem[x][s]) BY <2>2 DEF Hangs
  <2> QED BY <1>2, <1>4, <2>3 DEF Closed
<1> QED BY <1>2, <1>3, <1>4, <1>5

(* What is known of the node taken out, of subst and of temp.               *)
LEMMA ChosenFacts ==
    ASSUME NEW t, NEW b, NEW old, NEW x, NEW subst, NEW temp, NEW d,
           Chosen(t, b, old, x, subst, temp, d)
    PROVE  /\ Struct(t, b, old) /\ Hangs(t, b) /\ x \in ArmedIn(t) /\ subst \in ArmedIn(t) /\ d \in Sides
           /\ temp = t.mem[subst][d] /\ t.mem[subst][Other(d)] = Sentinel
           /\ temp \in DOMAIN t.mem /\ temp # subst /\ temp # x
           /\ (temp # Sentinel => temp \in ArmedIn(t) /\ Parent(t, temp) = subst /\ temp # t.root)
           /\ subst \in b[x] /\ b[subst] = {subst} \cup b[temp]
           /\ subst \notin b[temp] /\ x \notin b[temp]
           /\ (subst # x => x \notin b[subst] /\ subst # t.root)
<1>1. /\ Struct(t, b, old) /\ x \in ArmedIn(t) /\ subst \in ArmedIn(t) /\ d \in Sides
      /\ temp = t.mem[subst][d] /\ t.mem[subst][Other(d)] = Sentinel
      /\ (subst # x => subst \in b[t.mem[x]["right"]])
  BY DEF Chosen
<1>2. Hangs(t, b) /\ b[Sentinel] = {} BY <1>1 DEF Struct, Hangs
<1>3. temp \in DOMAIN t.mem /\ temp # subst
      /\ (temp # Sentinel => temp \in ArmedIn(t) /\ Parent(t, temp) = subst /\ temp # t.root)
  BY <1>1, <1>2, Below
<1>4. b[subst] = {subst} \cup b[temp] /\ subst \notin b[temp]
  <2>1. b[subst] = {subst} \cup b[t.mem[subst][d]] \cup b[t.mem[subst][Other(d)]] /\ subst \notin b[t.mem[subst][d]]
    BY <1>1, <1>2, KidFacts
  <2> QED BY <1>1, <1>2, <2>1
<1>5. "right" \in Sides BY DEF Sides
<1>6. subst \in b[x]
  <2>1. CASE subst = x BY <1>1, <1>2, <2>1, InItself
  <2>2. CASE subst # x
    <3>1. b[x] = {x} \cup b[t.mem[x]["right"]] \cup b[t.mem[x][Other("right")]] BY <1>1, <1>2, <1>5, KidFacts
    <3> QED BY <1>1, <2>2, <3>1
  <2> QED BY <2>1, <2>2
<1>7. subst # x => x \notin b[subst]
  <2>1. \A y \in b[t.mem[x]["right"]] : x \notin b[y] BY <1>1, <1>2, <1>5, KidFacts
  <2> QED BY <1>1, <2>1
<1>8. x \notin b[temp]
  BY <1>4, <1>7
<1>9. subst # x => subst # t.root
  <2>1. b[t.root] = ArmedIn(t) BY <1>2 DEF Hangs
  <2> QED BY <1>1, <1>7, <2>1
<1>10. temp # x
  <2>1. x \in b[x] /\ x # Sentinel BY <1>1, <1>2, InItself DEF ArmedIn
  <2> QED BY <1>8, <2>1
<1> QED BY <1>1, <1>2, <1>3, <1>4, <1>6, <1>7, <1>8, <1>9, <1>10

(* The kid where y was, once x is out; the node that was where z is; whose  *)
(* kid those of p are now; and what is left of a set of nodes.              *)
Heired(x, subst, temp, y) == IF y = subst THEN temp ELSE IF y = x THEN subst ELSE y
Before(x, subst, z) == IF z = subst THEN x ELSE z
Renamed(x, subst, p) == IF p = x THEN subst ELSE p
Less(x, subst, S) == IF x \in S THEN S \ {x} ELSE S \ {subst}

(* What rbtree_delete makes of the tree when it takes x out.                *)
Excised(t, x, subst, temp, u) ==
    /\ IsTree(u) /\ DOMAIN u.mem = DOMAIN t.mem \ {x} /\ u.root = Heired(x, subst, temp, t.root)
    /\ \A z \in DOMAIN t.mem \ {x} : /\ u.mem[z].key = t.mem[z].key
                                     /\ Parent(u, z) \in Ev \cup {Null}
                                     /\ u.mem[z].color \in {Red, Black}
    /\ \A z \in ArmedIn(t) \ {x}, s \in Sides :
          u.mem[z][s] = Heired(x, subst, temp, t.mem[Before(x, subst, z)][s])
    /\ \A z \in ArmedIn(t) \ {x, subst, temp, t.root} : Parent(u, z) = Renamed(x, subst, Parent(t, z))
    /\ subst # x => Parent(u, subst) = Parent(t, x)
    /\ subst # t.root => Parent(u, temp) = Renamed(x, subst, Parent(t, subst))

LessBelow(b, x, subst) ==
    [y \in Nodes |-> IF y = x THEN {}
                     ELSE IF y = subst THEN b[x] \ {x}
                     ELSE IF x \in b[y] THEN b[y] \ {x} ELSE b[y] \ {subst}]

(* What is below each node once x is out.                                   *)
LEMMA ExcisedBelow ==
    ASSUME NEW t, NEW b, NEW old, NEW x, NEW subst, NEW temp, NEW d,
           Chosen(t, b, old, x, subst, temp, d), NEW c, c = LessBelow(b, x, subst)
    PROVE  /\ c \in [Nodes -> SUBSET Ev] /\ c[Sentinel] = {} /\ c[x] = {}
           /\ \A z \in ArmedIn(t) \ {x} :
                 c[z] = Less(x, subst, b[Before(x, subst, z)]) /\ Before(x, subst, z) \in ArmedIn(t) \ {subst}
           /\ \A w \in ArmedIn(t) \ {subst}, s \in Sides :
                 c[Heired(x, subst, temp, t.mem[w][s])] = Less(x, subst, b[t.mem[w][s]])
<1>1. Struct(t, b, old) /\ Hangs(t, b) /\ x \in ArmedIn(t) /\ subst \in ArmedIn(t)
  BY ChosenFacts
<1>2. /\ temp \in DOMAIN t.mem /\ temp # subst /\ temp # x
      /\ subst \in b[x] /\ b[subst] = {subst} \cup b[temp]
      /\ subst \notin b[temp] /\ x \notin b[temp]
      /\ (subst # x => x \notin b[subst])
  BY ChosenFacts
<1>3. b \in [Nodes -> SUBSET Ev] /\ DOMAIN t.mem \subseteq Nodes /\ b[Sentinel] = {} BY <1>1 DEF Struct, Hangs
<1>4. x # Sentinel /\ subst # Sentinel /\ x \in Nodes /\ subst \in Nodes /\ Sentinel \in Nodes
      /\ ArmedIn(t) \subseteq Nodes
  BY <1>1, <1>3 DEF ArmedIn, Nodes
<1>5. c \in [Nodes -> SUBSET Ev] BY <1>3, <1>4 DEF LessBelow
<1>6. c[x] = {} /\ c[Sentinel] = {} BY <1>3, <1>4 DEF LessBelow
<1>7. x \in b[x] BY <1>1, InItself
<1>8. \A y \in Nodes \ {x, subst} : c[y] = Less(x, subst, b[y])
  BY DEF LessBelow, Less
<1>9. subst # x => c[subst] = Less(x, subst, b[x])
  BY <1>4, <1>7 DEF LessBelow, Less
<1>10. ASSUME NEW z \in ArmedIn(t) \ {x}
       PROVE  c[z] = Less(x, subst, b[Before(x, subst, z)]) /\ Before(x, subst, z) \in ArmedIn(t) \ {subst}
  BY <1>1, <1>4, <1>8, <1>9 DEF Before
<1>11. ASSUME NEW w \in ArmedIn(t) \ {subst}, NEW s \in Sides
       PROVE  c[Heired(x, subst, temp, t.mem[w][s])] = Less(x, subst, b[t.mem[w][s]])
  <2>1. t.mem[w][s] \in Nodes
    <3>1. t.mem[w][s] \in DOMAIN t.mem BY <1>1, KidFacts
    <3> QED BY <1>3, <3>1
  <2>2. CASE t.mem[w][s] = subst
    <3>1. Less(x, subst, b[subst]) = b[temp]
      <4>1. CASE subst = x BY <1>2, <4>1 DEF Less
      <4>2. CASE subst # x BY <1>2, <4>2 DEF Less
      <4> QED BY <4>1, <4>2
    <3>2. c[temp] = Less(x, subst, b[temp]) BY <1>2, <1>3, <1>8
    <3>3. Less(x, subst, b[temp]) = b[temp] BY <1>2 DEF Less
    <3> QED BY <2>2, <3>1, <3>2, <3>3 DEF Heired
  <2>3. CASE t.mem[w][s] # subst /\ t.mem[w][s] = x
    BY <1>9, <2>3 DEF Heired
  <2>4. CASE t.mem[w][s] # subst /\ t.mem[w][s] # x
    BY <1>8, <2>1, <2>4 DEF Heired
  <2> QED BY <2>2, <2>3, <2>4
<1> QED BY <1>5, <1>6, <1>10, <1>11

(* A node below another is not the root, and has its parent there.          *)
LEMMA NotOwnKid ==
    ASSUME NEW t, NEW b, Hangs(t, b), NEW w \in ArmedIn(t), NEW y \in b[w], y # w
    PROVE  y \in ArmedIn(t) /\ y # t.root /\ w \notin b[y] /\ Parent(t, y) \in b[w]
<1>1. /\ b[w] \subseteq ArmedIn(t) /\ b[t.root] = ArmedIn(t) /\ Closed(t, b, w)
  BY DEF Hangs
<1>2. "left" \in Sides /\ Other("left") \in Sides BY SideFacts DEF Sides
<1>3. b[w] = {w} \cup b[t.mem[w]["left"]] \cup b[t.mem[w][Other("left")]] BY <1>2, KidFacts
<1>4. \A s \in Sides : \A v \in b[t.mem[w][s]] : w \notin b[v] BY KidFacts
<1>5. w \notin b[y] BY <1>2, <1>3, <1>4
<1> QED BY <1>1, <1>5 DEF Closed

(* Before the excision and after: one undoes the other.                     *)
LEMMA RenamedBefore ==
    ASSUME NEW x, NEW subst
    PROVE  /\ \A z : z # x => Renamed(x, subst, Before(x, subst, z)) = z
           /\ \A p : p # subst => Before(x, subst, Renamed(x, subst, p)) = p
BY DEF Renamed, Before

(* A set of nodes without the one that is gone.                             *)
LEMMA LessFacts ==
    ASSUME NEW x, NEW subst, NEW S
    PROVE  /\ Less(x, subst, S) \subseteq S /\ x \notin Less(x, subst, S)
           /\ S \ {x, subst} \subseteq Less(x, subst, S)
           /\ (x \in S => Less(x, subst, S) = S \ {x})
           /\ (x \notin S => Less(x, subst, S) = S \ {subst})
           /\ \A T : S \subseteq T => Less(x, subst, S) \subseteq Less(x, subst, T)
BY DEF Less

(* Whose kid a node is once x is out, and was before.                       *)
LEMMA ExcisedParent ==
    ASSUME NEW t, NEW b, NEW old, NEW x, NEW subst, NEW temp, NEW d,
           Chosen(t, b, old, x, subst, temp, d),
           NEW u, Excised(t, x, subst, temp, u), NEW y \in ArmedIn(t) \ {x}, y # u.root
    PROVE  \E v \in ArmedIn(t) \ {t.root}, p \in ArmedIn(t) \ {subst}, s \in Sides :
              /\ v = t.mem[p][s] /\ p = Parent(t, v)
              /\ y = Heired(x, subst, temp, v) /\ Parent(u, y) = Renamed(x, subst, p)
              /\ v = IF y = temp THEN subst ELSE Before(x, subst, y)
<1>1. /\ Hangs(t, b) /\ x \in ArmedIn(t) /\ subst \in ArmedIn(t) /\ d \in Sides
      /\ temp = t.mem[subst][d] /\ t.mem[subst][Other(d)] = Sentinel
  BY ChosenFacts
<1>2. temp # subst /\ temp # x /\ (temp # Sentinel => temp \in ArmedIn(t) /\ Parent(t, temp) = subst)
  BY ChosenFacts
<1>2a. subst # x => x \notin b[subst] /\ subst # t.root
  BY ChosenFacts
<1>3. /\ u.root = Heired(x, subst, temp, t.root)
      /\ \A z \in ArmedIn(t) \ {x, subst, temp, t.root} : Parent(u, z) = Renamed(x, subst, Parent(t, z))
      /\ subst # x => Parent(u, subst) = Parent(t, x)
      /\ subst # t.root => Parent(u, temp) = Renamed(x, subst, Parent(t, subst))
  BY DEF Excised
<1>4. ASSUME NEW v \in ArmedIn(t), v # t.root
      PROVE  /\ Parent(t, v) \in ArmedIn(t) /\ Parent(t, v) # v /\ Side(t, v) \in Sides
             /\ v = t.mem[Parent(t, v)][Side(t, v)]
  BY <1>1, <1>4, Above
<1>5. ASSUME NEW v \in ArmedIn(t), v # t.root, Parent(t, v) # subst,
             y = Heired(x, subst, temp, v), Parent(u, y) = Renamed(x, subst, Parent(t, v)),
             v = IF y = temp THEN subst ELSE Before(x, subst, y)
      PROVE  \E vv \in ArmedIn(t) \ {t.root}, p \in ArmedIn(t) \ {subst}, s \in Sides :
              /\ vv = t.mem[p][s] /\ p = Parent(t, vv)
              /\ y = Heired(x, subst, temp, vv) /\ Parent(u, y) = Renamed(x, subst, p)
              /\ vv = IF y = temp THEN subst ELSE Before(x, subst, y)
  BY <1>4, <1>5
<1>6. CASE y = subst
  <2>1. x # t.root BY <1>3, <1>6 DEF Heired
  <2>2. Parent(t, x) # x BY <1>1, <1>4, <2>1
  <2>3. Parent(t, x) # subst
    <3>1. SUFFICES ASSUME Parent(t, x) = subst PROVE FALSE OBVIOUS
    <3>2. x = t.mem[subst][Side(t, x)] /\ Side(t, x) \in Sides BY <1>1, <1>4, <2>1, <3>1
    <3>3. x \in b[x] BY <1>1, InItself
    <3>4. b[subst] = {subst} \cup b[t.mem[subst][Side(t, x)]] \cup b[t.mem[subst][Other(Side(t, x))]]
      BY <1>1, <3>2, KidFacts
    <3>5. x \in b[subst] BY <3>2, <3>3, <3>4
    <3> QED BY <1>2a, <1>6, <3>5
  <2>4. y = Heired(x, subst, temp, x) /\ x = Before(x, subst, y) BY <1>6 DEF Heired, Before
  <2>5. Parent(u, y) = Renamed(x, subst, Parent(t, x)) BY <1>3, <1>6, <2>2 DEF Renamed
  <2> QED BY ZenonT(40), <1>1, <1>2, <1>5, <1>6, <2>1, <2>3, <2>4, <2>5
<1>7. CASE y = temp
  <2>1. subst # t.root BY <1>3, <1>7 DEF Heired
  <2>2. Parent(t, subst) # subst BY <1>1, <1>4, <2>1
  <2>4. y = Heired(x, subst, temp, subst) BY <1>7 DEF Heired
  <2>5. Parent(u, y) = Renamed(x, subst, Parent(t, subst)) BY <1>3, <1>7, <2>1
  <2> QED BY <1>1, <1>5, <1>7, <2>1, <2>2, <2>4, <2>5
<1>8. CASE y # subst /\ y # temp
  <2>1. y # t.root
    <3>1. SUFFICES ASSUME y = t.root PROVE FALSE OBVIOUS
    <3> QED BY <1>3, <1>8, <3>1 DEF Heired
  <2>2. Parent(t, y) # subst
    <3>1. SUFFICES ASSUME Parent(t, y) = subst PROVE FALSE OBVIOUS
    <3>2. y = t.mem[subst][Side(t, y)] /\ Side(t, y) \in Sides BY <1>4, <2>1, <3>1
    <3>3. Side(t, y) = d \/ Side(t, y) = Other(d) BY <1>1, <3>2, SideFacts
    <3>4. y # Sentinel BY DEF ArmedIn
    <3> QED BY <1>1, <1>8, <3>2, <3>3, <3>4
  <2>3. y = Heired(x, subst, temp, y) /\ y = Before(x, subst, y) BY <1>8 DEF Heired, Before
  <2>4. Parent(u, y) = Renamed(x, subst, Parent(t, y)) BY <1>3, <1>8, <2>1
  <2> QED BY <1>5, <1>8, <2>1, <2>2, <2>3, <2>4
<1> QED BY <1>6, <1>7, <1>8

(* Its kids hang below a node.                                              *)
LEMMA ExcisedKids ==
    ASSUME NEW t, NEW b, NEW old, NEW x, NEW subst, NEW temp, NEW d,
           Chosen(t, b, old, x, subst, temp, d),
           NEW u, Excised(t, x, subst, temp, u), NEW c, c = LessBelow(b, x, subst),
           NEW z \in ArmedIn(t) \ {x}
    PROVE  KidsHang(u, c, z)
<1>1. /\ Hangs(t, b) /\ x \in ArmedIn(t) /\ subst \in ArmedIn(t)
      /\ temp \in DOMAIN t.mem /\ temp # subst /\ temp # x
      /\ (temp # Sentinel => temp \in ArmedIn(t) /\ Parent(t, temp) = subst)
  BY ChosenFacts
<1>1a. subst \in b[x] BY ChosenFacts
<1>1b. ArmedIn(t) \subseteq DOMAIN t.mem BY DEF ArmedIn
<1>2. PICK w : w = Before(x, subst, z) OBVIOUS
<1>3. w \in ArmedIn(t) \ {subst} /\ c[z] = Less(x, subst, b[w])
  <2>1. c[z] = Less(x, subst, b[Before(x, subst, z)]) /\ Before(x, subst, z) \in ArmedIn(t) \ {subst}
    BY ExcisedBelow
  <2> QED BY <1>2, <2>1
<1>4. (w = x /\ z = subst /\ subst # x) \/ (w = z /\ z # subst) BY <1>2 DEF Before
<1>4a. Renamed(x, subst, w) = z BY <1>2, RenamedBefore
<1>5. DOMAIN u.mem = DOMAIN t.mem \ {x} BY DEF Excised
<1>6. \A s \in Sides : u.mem[z][s] = Heired(x, subst, temp, t.mem[w][s]) BY <1>2 DEF Excised
<1>7. \A s \in Sides : c[Heired(x, subst, temp, t.mem[w][s])] = Less(x, subst, b[t.mem[w][s]])
  BY <1>3, ExcisedBelow
<1>8. /\ \A v \in ArmedIn(t) \ {x, subst, temp, t.root} : Parent(u, v) = Renamed(x, subst, Parent(t, v))
      /\ subst # x => Parent(u, subst) = Parent(t, x)
      /\ subst # t.root => Parent(u, temp) = Renamed(x, subst, Parent(t, subst))
  BY DEF Excised
<1>9. SUFFICES ASSUME NEW s \in Sides, NEW y, y = u.mem[z][s], NEW v, v = u.mem[z][Other(s)]
               PROVE  /\ y \in DOMAIN u.mem /\ c[z] = {z} \cup c[y] \cup c[v] /\ z \notin c[y]
                      /\ c[y] \cap c[v] = {} /\ (y # Sentinel => Parent(u, y) = z)
  BY DEF KidsHang
<1>10. PICK k : k = t.mem[w][s] OBVIOUS
<1>11. PICK l : l = t.mem[w][Other(s)] OBVIOUS
<1>12. Other(s) \in Sides BY SideFacts
<1>13. /\ k \in DOMAIN t.mem /\ b[w] = {w} \cup b[k] \cup b[l] /\ w \notin b[k] /\ w \notin b[l] /\ b[k] \cap b[l] = {}
  <2>1. /\ t.mem[w][s] \in DOMAIN t.mem
        /\ b[w] = {w} \cup b[t.mem[w][s]] \cup b[t.mem[w][Other(s)]]
        /\ w \notin b[t.mem[w][s]] /\ w \notin b[t.mem[w][Other(s)]]
        /\ b[t.mem[w][s]] \cap b[t.mem[w][Other(s)]] = {}
    BY <1>1, <1>3, KidFacts
  <2> QED BY <1>10, <1>11, <2>1
<1>14. y = Heired(x, subst, temp, k) BY <1>6, <1>9, <1>10
<1>15. c[y] = Less(x, subst, b[k]) /\ c[v] = Less(x, subst, b[l])
  BY <1>6, <1>7, <1>9, <1>10, <1>11, <1>12
<1>16. x \in b[k] => subst \in b[k]
  <2>1. \A q \in b[t.mem[w][s]] : b[q] \subseteq b[t.mem[w][s]] BY <1>1, <1>3, KidFacts
  <2> QED BY <1>1a, <1>10, <2>1
<1>17. x \in b[l] => subst \in b[l]
  <2>1. \A q \in b[t.mem[w][Other(s)]] : b[q] \subseteq b[t.mem[w][Other(s)]] BY <1>1, <1>3, <1>12, KidFacts
  <2> QED BY <1>1a, <1>11, <2>1
<1>18. k # w /\ (k # Sentinel => k \in ArmedIn(t) /\ Parent(t, k) = w /\ k # t.root)
  BY <1>1, <1>3, <1>10, Below
<1>19. y \in DOMAIN u.mem
  BY <1>1, <1>1b, <1>5, <1>13, <1>14 DEF Heired
<1>20. c[z] = {z} \cup c[y] \cup c[v] /\ z \notin c[y]
  <2>1. CASE w = x /\ z = subst /\ subst # x
    <3>1. c[z] = b[k] \cup b[l] BY <1>3, <1>13, <2>1 DEF Less
    <3>2. subst \in b[k] \cup b[l] BY <1>1a, <1>13, <2>1
    <3>3. c[y] = b[k] \ {subst} /\ c[v] = b[l] \ {subst} BY <1>13, <1>15, <2>1 DEF Less
    <3> QED BY <2>1, <3>1, <3>2, <3>3
  <2>2. CASE w = z /\ z # subst
    <3>1. CASE x \in b[k]
      <4>1. x \notin b[l] /\ subst \notin b[l] BY <1>13, <1>16, <3>1
      <4>2. c[z] = b[w] \ {x} /\ c[y] = b[k] \ {x} /\ c[v] = b[l]
        BY <1>3, <1>13, <1>15, <3>1, <4>1 DEF Less
      <4> QED BY <1>13, <2>2, <4>1, <4>2
    <3>2. CASE x \in b[l]
      <4>1. x \notin b[k] /\ subst \notin b[k] BY <1>13, <1>17, <3>2
      <4>2. c[z] = b[w] \ {x} /\ c[y] = b[k] /\ c[v] = b[l] \ {x}
        BY <1>3, <1>13, <1>15, <3>2, <4>1 DEF Less
      <4> QED BY <1>13, <2>2, <4>1, <4>2
    <3>3. CASE x \notin b[k] /\ x \notin b[l]
      <4>1. x \notin b[w] BY <1>13, <2>2, <3>3
      <4>2. c[z] = b[w] \ {subst} /\ c[y] = b[k] \ {subst} /\ c[v] = b[l] \ {subst}
        BY <1>3, <1>15, <3>3, <4>1 DEF Less
      <4> QED BY <1>13, <2>2, <4>2
    <3> QED BY <3>1, <3>2, <3>3
  <2> QED BY <1>4, <2>1, <2>2
<1>21. c[y] \cap c[v] = {} BY <1>13, <1>15, LessFacts
<1>22. y # Sentinel => Parent(u, y) = z
  <2>1. SUFFICES ASSUME y # Sentinel PROVE Parent(u, y) = z OBVIOUS
  <2>2. CASE k = subst
    <3>1. y = temp BY <1>14, <2>2 DEF Heired
    <3>2. subst # Sentinel BY <1>1 DEF ArmedIn
    <3> QED BY <1>4a, <1>8, <1>18, <2>2, <3>1, <3>2
  <2>3. CASE k = x /\ k # subst
    <3>1. y = subst BY <1>14, <2>3 DEF Heired
    <3>2. x # Sentinel BY <1>1 DEF ArmedIn
    <3>3. Parent(t, x) = w /\ w # x BY <1>18, <2>3, <3>2
    <3>4. w = z BY <1>4, <3>3
    <3> QED BY <1>8, <2>3, <3>1, <3>3, <3>4
  <2>4. CASE k # x /\ k # subst
    <3>1. y = k BY <1>14, <2>4 DEF Heired
    <3>2. k \in ArmedIn(t) /\ Parent(t, k) = w /\ k # t.root BY <1>18, <2>1, <3>1
    <3>3. k # temp BY <1>1, <1>3, <2>1, <3>1, <3>2
    <3> QED BY <1>4a, <1>8, <2>4, <3>1, <3>2, <3>3
  <2> QED BY <2>2, <2>3, <2>4
<1> QED BY <1>19, <1>20, <1>21, <1>22

(* Every node but x hangs once, below its parent.                           *)
LEMMA ExcisedHangs ==
    ASSUME NEW t, NEW b, NEW old, NEW x, NEW subst, NEW temp, NEW d,
           Chosen(t, b, old, x, subst, temp, d),
           NEW u, Excised(t, x, subst, temp, u), NEW c, c = LessBelow(b, x, subst)
    PROVE  Hangs(u, c) /\ ArmedIn(u) = ArmedIn(t) \ {x}
<1>1. /\ Hangs(t, b) /\ x \in ArmedIn(t) /\ subst \in ArmedIn(t)
      /\ temp \in DOMAIN t.mem /\ temp # subst /\ temp # x
      /\ (temp # Sentinel => temp \in ArmedIn(t) /\ Parent(t, temp) = subst)
  BY ChosenFacts
<1>1a. subst \in b[x] /\ b[subst] = {subst} \cup b[temp] /\ subst \notin b[temp] /\ x \notin b[temp]
  BY ChosenFacts
<1>1c. subst # x => subst # t.root BY ChosenFacts
<1>1b. ArmedIn(t) \subseteq DOMAIN t.mem /\ Sentinel \notin ArmedIn(t) BY DEF ArmedIn
<1>2. {t.root, Sentinel} \subseteq DOMAIN t.mem /\ b[t.root] = ArmedIn(t) /\ b[Sentinel] = {}
  BY <1>1 DEF Hangs
<1>3. DOMAIN u.mem = DOMAIN t.mem \ {x} /\ u.root = Heired(x, subst, temp, t.root) BY DEF Excised
<1>4. ArmedIn(u) = ArmedIn(t) \ {x} BY <1>3 DEF ArmedIn
<1>5. {u.root, Sentinel} \subseteq DOMAIN u.mem
  BY <1>1, <1>1b, <1>2, <1>3 DEF Heired
<1>6. c[Sentinel] = {} BY ExcisedBelow
<1>7. \A z \in ArmedIn(t) \ {x} :
         c[z] = Less(x, subst, b[Before(x, subst, z)]) /\ Before(x, subst, z) \in ArmedIn(t) \ {subst}
  BY ExcisedBelow
<1>8. c[u.root] = ArmedIn(u)
  <2>1. CASE t.root = subst
    <3>1. u.root = temp /\ subst = x BY <1>1c, <1>3, <2>1 DEF Heired
    <3>2. b[temp] = ArmedIn(t) \ {x} BY <1>1a, <1>2, <2>1, <3>1
    <3>3. CASE temp = Sentinel BY <1>2, <1>4, <1>6, <3>1, <3>2, <3>3
    <3>4. CASE temp # Sentinel
      <4>1. c[temp] = Less(x, subst, b[temp])
        <5>1. temp \in ArmedIn(t) \ {x} /\ Before(x, subst, temp) = temp BY <1>1, <3>4 DEF Before
        <5> QED BY <1>7, <5>1
      <4> QED BY <1>1a, <1>4, <3>1, <3>2, <4>1 DEF Less
    <3> QED BY <3>3, <3>4
  <2>2. CASE t.root # subst /\ t.root = x
    <3>1. u.root = subst /\ Before(x, subst, subst) = x BY <1>3, <2>2 DEF Heired, Before
    <3>2. c[subst] = Less(x, subst, b[x]) BY <1>1, <1>7, <2>2, <3>1
    <3> QED BY <1>1, <1>2, <1>4, <2>2, <3>1, <3>2 DEF Less
  <2>3. CASE t.root # subst /\ t.root # x
    <3>1. u.root = t.root /\ Before(x, subst, t.root) = t.root BY <1>3, <2>3 DEF Heired, Before
    <3>2. t.root \in ArmedIn(t)
      <4>1. t.root # Sentinel BY <1>1, <1>2
      <4> QED BY <1>2, <4>1 DEF ArmedIn
    <3>3. c[t.root] = Less(x, subst, b[t.root]) BY <1>7, <2>3, <3>1, <3>2
    <3> QED BY <1>1, <1>2, <1>4, <3>1, <3>3 DEF Less
  <2> QED BY <2>1, <2>2, <2>3
<1>9. ASSUME NEW z \in ArmedIn(t) \ {x} PROVE c[z] \subseteq ArmedIn(u) /\ Closed(u, c, z)
  <2>1. PICK w : w = Before(x, subst, z) OBVIOUS
  <2>2. w \in ArmedIn(t) \ {subst} /\ c[z] = Less(x, subst, b[w]) BY <1>7, <2>1
  <2>3. b[w] \subseteq ArmedIn(t) /\ Closed(t, b, w) BY <1>1, <2>2 DEF Hangs
  <2>4. c[z] \subseteq ArmedIn(u) BY <1>4, <2>2, <2>3, LessFacts
  <2>5. ASSUME NEW y \in c[z] PROVE c[y] \subseteq c[z] /\ (y # z => Parent(u, y) \in c[z])
    <3>1. y \in ArmedIn(t) \ {x} /\ y \in b[w] BY <1>4, <2>2, <2>4, <2>5, LessFacts
    <3>2. PICK q : q = Before(x, subst, y) OBVIOUS
    <3>3. c[y] = Less(x, subst, b[q]) /\ q \in ArmedIn(t) \ {subst} BY <1>7, <3>1, <3>2
    <3>4. q \in b[w]
      <4>1. CASE y = subst
        <5>1. x \in b[w] BY <2>2, <2>5, <4>1 DEF Less
        <5> QED BY <3>2, <4>1, <5>1 DEF Before
      <4>2. CASE y # subst BY <3>1, <3>2, <4>2 DEF Before
      <4> QED BY <4>1, <4>2
    <3>5. b[q] \subseteq b[w] BY <2>3, <3>4 DEF Closed
    <3>6. c[y] \subseteq c[z] BY <2>2, <3>3, <3>5, LessFacts
    <3>7. ASSUME y # z PROVE Parent(u, y) \in c[z]
      <4>1. q # w
        <5>1. y = Renamed(x, subst, q) /\ z = Renamed(x, subst, w) BY <2>1, <3>1, <3>2, RenamedBefore
        <5> QED BY <3>7, <5>1
      <4>2. q # t.root /\ w \notin b[q] BY <1>1, <2>2, <3>4, <4>1, NotOwnKid
      <4>3. y # u.root
        <5>1. SUFFICES ASSUME y = u.root PROVE FALSE OBVIOUS
        <5>2. CASE t.root = subst
          <6>1. y = temp /\ subst = x BY <1>1c, <1>3, <5>1, <5>2 DEF Heired
          <6>2. q = temp BY <1>1, <3>2, <6>1 DEF Before
          <6>3. w \in b[temp] BY <1>1a, <1>2, <2>2, <5>2
          <6> QED BY <4>2, <6>2, <6>3
        <5>3. CASE t.root # subst /\ t.root = x
          <6>1. y = subst BY <1>3, <5>1, <5>3 DEF Heired
          <6>2. q = x BY <3>2, <6>1 DEF Before
          <6> QED BY <4>2, <5>3, <6>2
        <5>4. CASE t.root # subst /\ t.root # x
          <6>1. y = t.root BY <1>3, <5>1, <5>4 DEF Heired
          <6>2. q = t.root BY <3>2, <5>4, <6>1 DEF Before
          <6> QED BY <4>2, <6>2
        <5> QED BY <5>2, <5>3, <5>4
      <4>4. PICK v \in ArmedIn(t) \ {t.root}, p \in ArmedIn(t) \ {subst} :
              /\ p = Parent(t, v) /\ Parent(u, y) = Renamed(x, subst, p)
              /\ v = IF y = temp THEN subst ELSE Before(x, subst, y)
        BY <3>1, <4>3, ExcisedParent
      <4>5. v \in b[w] /\ v # w
        <5>1. CASE y = temp
          <6>1. temp \in ArmedIn(t) /\ Parent(t, temp) = subst BY <1>1, <1>1b, <3>1, <5>1
          <6>2. q = temp BY <1>1, <3>2, <5>1 DEF Before
          <6>3. subst \in b[w] BY <2>3, <3>4, <4>1, <6>1, <6>2 DEF Closed
          <6> QED BY <2>2, <4>4, <5>1, <6>3
        <5>2. CASE y # temp BY <3>2, <3>4, <4>1, <4>4, <5>2
        <5> QED BY <5>1, <5>2
      <4>6. p \in b[w] BY <2>3, <4>4, <4>5 DEF Closed
      <4>7. CASE p = x
        <5>1. subst \in b[w] BY <1>1a, <2>3, <4>6, <4>7 DEF Closed
        <5> QED BY <2>2, <4>4, <4>6, <4>7, <5>1 DEF Renamed, Less
      <4>8. CASE p # x
        <5>1. Renamed(x, subst, p) = p BY <4>8 DEF Renamed
        <5>2. p \in Less(x, subst, b[w]) BY <4>4, <4>6, <4>8, LessFacts
        <5> QED BY <2>2, <4>4, <5>1, <5>2
      <4> QED BY <4>7, <4>8
    <3> QED BY <3>6, <3>7
  <2> QED BY <2>4, <2>5 DEF Closed
<1>10. ASSUME NEW z \in ArmedIn(t) \ {x}, z # u.root PROVE HangsIn(u, z)
  <2>1. PICK v \in ArmedIn(t) \ {t.root}, p \in ArmedIn(t) \ {subst}, s \in Sides :
              /\ v = t.mem[p][s] /\ z = Heired(x, subst, temp, v) /\ Parent(u, z) = Renamed(x, subst, p)
    BY <1>10, ExcisedParent
  <2>2. PICK q : q = Renamed(x, subst, p) OBVIOUS
  <2>3. Before(x, subst, q) = p BY <2>1, <2>2, RenamedBefore
  <2>4. q \in ArmedIn(t) \ {x} BY <1>1, <2>1, <2>2 DEF Renamed
  <2>5. u.mem[q][s] = Heired(x, subst, temp, t.mem[Before(x, subst, q)][s])
    BY <2>4 DEF Excised
  <2>6. z = u.mem[q][s] /\ Parent(u, z) = q BY <2>1, <2>2, <2>3, <2>5
  <2> QED BY <1>4, <2>4, <2>6 DEF HangsIn
<1>11. \A z \in ArmedIn(t) \ {x} : KidsHang(u, c, z) BY ExcisedKids
<1> QED BY <1>4, <1>5, <1>6, <1>8, <1>9, <1>10, <1>11 DEF Hangs

(* The tree without x is sorted.                                            *)
LEMMA ExcisedSorted ==
    ASSUME NEW t, NEW b, NEW old, NEW x, NEW subst, NEW temp, NEW d,
           Chosen(t, b, old, x, subst, temp, d),
           NEW u, Excised(t, x, subst, temp, u), NEW c, c = LessBelow(b, x, subst),
           NEW new, new = [y \in Ev |-> IF y = x THEN {} ELSE old[y] \ {x}],
           ArmedIn(u) = ArmedIn(t) \ {x}, ArmedIn(t) \subseteq Ev
    PROVE  SortedIn(u, c, new)
<1>1. /\ Struct(t, b, old) /\ Hangs(t, b) /\ x \in ArmedIn(t) /\ subst \in ArmedIn(t)
  BY ChosenFacts
<1>1a. KeysOf(t) /\ Ages(ArmedIn(t), old) /\ SortedIn(t, b, old) BY <1>1 DEF Struct
<1>1b. subst # x => /\ subst \in b[t.mem[x]["right"]]
                    /\ \A y \in b[t.mem[x]["right"]] \ {subst} : Bef(t, old, subst, y)
  BY DEF Chosen
<1>2. \A z \in ArmedIn(t) \ {x} : u.mem[z].key = t.mem[z].key
  BY DEF Excised, ArmedIn
<1>3. ASSUME NEW z \in ArmedIn(t) \ {x}, NEW y \in ArmedIn(t) \ {x}, NEW s, InOrder(t, old, s, y, z)
      PROVE  InOrder(u, new, s, y, z)
  <2>1. new[z] = old[z] \ {x} /\ new[y] = old[y] \ {x} OBVIOUS
  <2>2. u.mem[z].key = t.mem[z].key /\ u.mem[y].key = t.mem[y].key BY <1>2
  <2>3. (Bef(t, old, y, z) => Bef(u, new, y, z)) /\ (Bef(t, old, z, y) => Bef(u, new, z, y))
    BY <2>1, <2>2 DEF Bef
  <2> QED BY <1>3, <2>3 DEF InOrder
<1>4. ASSUME NEW z \in ArmedIn(t) \ {x}, NEW s \in Sides, NEW y \in c[u.mem[z][s]]
      PROVE  InOrder(u, new, s, y, z)
  <2>1. PICK w : w = Before(x, subst, z) OBVIOUS
  <2>2. w \in ArmedIn(t) \ {subst}
    <3>1. Before(x, subst, z) \in ArmedIn(t) \ {subst} BY ExcisedBelow
    <3> QED BY <2>1, <3>1
  <2>3. u.mem[z][s] = Heired(x, subst, temp, t.mem[w][s]) BY <2>1 DEF Excised
  <2>4. c[Heired(x, subst, temp, t.mem[w][s])] = Less(x, subst, b[t.mem[w][s]])
    BY <2>2, ExcisedBelow
  <2>5. y \in Less(x, subst, b[t.mem[w][s]]) BY <1>4, <2>3, <2>4
  <2>6. y \in b[t.mem[w][s]] /\ y # x BY <2>5, LessFacts
  <2>7. b[t.mem[w][s]] \subseteq ArmedIn(t) /\ w \notin b[t.mem[w][s]] BY <1>1, <2>2, KidFacts
  <2>8. InOrder(t, old, s, y, w) BY <1>1a, <2>2, <2>6 DEF SortedIn
  <2>9. CASE z # subst
    <3>1. w = z BY <2>1, <2>9 DEF Before
    <3> QED BY <1>3, <2>6, <2>7, <2>8, <3>1
  <2>10. CASE z = subst
    <3>1. w = x /\ subst # x BY <2>1, <2>10 DEF Before
    <3>2. y # subst BY <2>5, <2>7, <3>1 DEF Less
    <3>3. CASE s = "right"
      <4>1. Bef(t, old, subst, y) BY <1>1b, <2>6, <3>1, <3>2, <3>3
      <4>2. InOrder(t, old, s, y, subst) BY <3>3, <4>1 DEF InOrder
      <4> QED BY <1>3, <2>6, <2>7, <2>10, <4>2
    <3>4. CASE s = "left"
      <4>1. Bef(t, old, y, x) BY <2>8, <3>1, <3>4 DEF InOrder
      <4>2. Bef(t, old, x, subst)
        <5>1. "right" \in Sides BY DEF Sides
        <5>2. InOrder(t, old, "right", subst, x) BY <1>1, <1>1a, <1>1b, <3>1, <5>1 DEF SortedIn
        <5> QED BY <5>2 DEF InOrder
      <4>3. y \in ArmedIn(t) BY <2>6, <2>7
      <4>4. Bef(t, old, y, subst) BY <1>1, <1>1a, <4>1, <4>2, <4>3, BefTransitive
      <4>5. InOrder(t, old, s, y, subst) BY <3>4, <4>4 DEF InOrder
      <4> QED BY <1>3, <2>6, <2>7, <2>10, <4>5
    <3> QED BY <3>3, <3>4 DEF Sides
  <2> QED BY <2>9, <2>10
<1> QED BY <1>4 DEF SortedIn

(* The tree without x is a tree of the other nodes.                         *)
LEMMA ExcisedStruct ==
    ASSUME NEW t, NEW b, NEW old, NEW x, NEW subst, NEW temp, NEW d,
           Chosen(t, b, old, x, subst, temp, d),
           NEW u, Excised(t, x, subst, temp, u), NEW c, c = LessBelow(b, x, subst),
           NEW new, new = [y \in Ev |-> IF y = x THEN {} ELSE old[y] \ {x}]
    PROVE  Struct(u, c, new) /\ ArmedIn(u) = ArmedIn(t) \ {x}
<1>1. Struct(t, b, old) /\ x \in ArmedIn(t) BY ChosenFacts
<1>2. Hangs(u, c) /\ ArmedIn(u) = ArmedIn(t) \ {x} BY ExcisedHangs
<1>3. DOMAIN t.mem \subseteq Nodes /\ KeysOf(t) /\ Ages(ArmedIn(t), old) BY <1>1 DEF Struct
<1>4. ArmedIn(t) \subseteq Ev BY <1>3 DEF ArmedIn, Nodes
<1>5. SortedIn(u, c, new) BY <1>2, <1>4, ExcisedSorted
<1>6. c \in [Nodes -> SUBSET Ev] BY ExcisedBelow
<1>7. /\ IsTree(u) /\ DOMAIN u.mem = DOMAIN t.mem \ {x}
      /\ \A z \in DOMAIN t.mem \ {x} : u.mem[z].key = t.mem[z].key
  BY DEF Excised
<1>8. Typed(u) BY DEF Excised, Typed
<1>9. KeysOf(u) BY <1>2, <1>3, <1>7 DEF KeysOf, ArmedIn
<1>10. Ages(ArmedIn(u), new)
  <2>1. \A y \in ArmedIn(u) : new[y] = old[y] \ {x} BY <1>2, <1>4
  <2>2. \A y \in Ev : new[y] \subseteq ArmedIn(t) \ {x} BY <1>3 DEF Ages
  <2> QED BY <1>2, <1>3, <2>1, <2>2 DEF Ages
<1> QED BY <1>2, <1>3, <1>5, <1>6, <1>7, <1>8, <1>9, <1>10 DEF Struct

-----------------------------------------------------------------------------
(* The assignments of rbtree_delete.                                        *)

(* The link to x leads to y.                                                *)
LEMMA RelinkIs ==
    ASSUME NEW t, IsTree(t), NEW x, NEW y, x # t.root => Parent(t, x) \in DOMAIN t.mem,
           NEW r, r = Relink(t, x, y)
    PROVE  /\ IsTree(r) /\ r.root = (IF x = t.root THEN y ELSE t.root) /\ DOMAIN r.mem = DOMAIN t.mem
           /\ \A z \in DOMAIN t.mem, g \in Fields :
                 r.mem[z][g] = IF x # t.root /\ z = Parent(t, x) /\ g = Side(t, x) THEN y ELSE t.mem[z][g]
<1>1. Side(t, x) \in Fields BY DEF Side, Fields
<1>2. CASE x = t.root
  <2>1. r = SetRoot(t, y) BY <1>2 DEF Relink, SetRoot
  <2> QED BY <1>2, <2>1, SetRootIs
<1>3. CASE x # t.root
  <2>1. r = Set(t, Parent(t, x), Side(t, x), y) BY <1>3 DEF Relink, Set
  <2>2. /\ IsTree(r) /\ r.root = t.root /\ DOMAIN r.mem = DOMAIN t.mem
        /\ \A z \in DOMAIN t.mem, g \in Fields :
              r.mem[z][g] = IF z = Parent(t, x) /\ g = Side(t, x) THEN y ELSE t.mem[z][g]
    BY <1>1, <1>3, <2>1, SetIs
  <2> QED BY <1>3, <2>2
<1> QED BY <1>2, <1>3

(* subst gets the links and the colour of x, and x's kids and parent theirs *)
(* to subst.                                                                *)
LEMMA TakePlaceIs ==
    ASSUME NEW t, IsTree(t), NEW x \in DOMAIN t.mem, NEW subst \in DOMAIN t.mem, x # subst,
           x # t.root => Parent(t, x) \in DOMAIN t.mem,
           NEW l, l = t.mem[x]["left"], NEW r, r = t.mem[x]["right"],
           l \in DOMAIN t.mem, r \in DOMAIN t.mem, l # subst, r # subst,
           NEW v, v = TakePlace(t, x, subst)
    PROVE  /\ IsTree(v) /\ v.root = (IF x = t.root THEN subst ELSE t.root) /\ DOMAIN v.mem = DOMAIN t.mem
           /\ \A z \in DOMAIN t.mem, g \in Fields :
                 v.mem[z][g] =
                    IF z = subst /\ g # "key" THEN t.mem[x][g]
                    ELSE IF g = "parent" /\ z # Sentinel /\ (z = l \/ z = r) THEN subst
                    ELSE IF x # t.root /\ z = Parent(t, x) /\ g = Side(t, x) THEN subst
                    ELSE t.mem[z][g]
<1> DEFINE t0 == Relink(t, x, subst)
           t1 == Set(t0, subst, "left", l)
           t2 == Set(t1, subst, "right", r)
           t3 == Set(t2, subst, "parent", Parent(t, x))
           t4 == Set(t3, subst, "color", t.mem[x]["color"])
           t5 == Adopt(t4, subst, l)
           t6 == Adopt(t5, subst, r)
<1>0. "left" \in Fields /\ "right" \in Fields /\ "parent" \in Fields /\ "color" \in Fields BY DEF Fields
<1>1. v = t6 BY ZenonT(40) DEF TakePlace, Set, Parent
<1> HIDE DEF t0, t1, t2, t3, t4, t5, t6
<1>2. /\ IsTree(t0) /\ t0.root = (IF x = t.root THEN subst ELSE t.root) /\ DOMAIN t0.mem = DOMAIN t.mem
      /\ \A z \in DOMAIN t.mem, g \in Fields :
            t0.mem[z][g] = IF x # t.root /\ z = Parent(t, x) /\ g = Side(t, x) THEN subst ELSE t.mem[z][g]
  BY RelinkIs DEF t0
<1>3. /\ IsTree(t1) /\ t1.root = t0.root /\ DOMAIN t1.mem = DOMAIN t.mem
      /\ \A z \in DOMAIN t.mem, g \in Fields :
            t1.mem[z][g] = IF z = subst /\ g = "left" THEN l ELSE t0.mem[z][g]
  BY <1>0, <1>2, SetIs DEF t1
<1>4. /\ IsTree(t2) /\ t2.root = t0.root /\ DOMAIN t2.mem = DOMAIN t.mem
      /\ \A z \in DOMAIN t.mem, g \in Fields :
            t2.mem[z][g] = IF z = subst /\ g = "right" THEN r ELSE t1.mem[z][g]
  BY <1>0, <1>3, SetIs DEF t2
<1>5. /\ IsTree(t3) /\ t3.root = t0.root /\ DOMAIN t3.mem = DOMAIN t.mem
      /\ \A z \in DOMAIN t.mem, g \in Fields :
            t3.mem[z][g] = IF z = subst /\ g = "parent" THEN Parent(t, x) ELSE t2.mem[z][g]
  BY <1>0, <1>4, SetIs DEF t3
<1>6. /\ IsTree(t4) /\ t4.root = t0.root /\ DOMAIN t4.mem = DOMAIN t.mem
      /\ \A z \in DOMAIN t.mem, g \in Fields :
            t4.mem[z][g] = IF z = subst /\ g = "color" THEN t.mem[x]["color"] ELSE t3.mem[z][g]
  BY <1>0, <1>5, SetIs DEF t4
<1>7. /\ IsTree(t5) /\ t5.root = t0.root /\ DOMAIN t5.mem = DOMAIN t.mem
      /\ \A z \in DOMAIN t.mem, g \in Fields :
            t5.mem[z][g] = IF l # Sentinel /\ z = l /\ g = "parent" THEN subst ELSE t4.mem[z][g]
  <2>1. IsTree(t4) /\ l \in DOMAIN t4.mem BY <1>6
  <2>2. PICK y : y = t5 OBVIOUS
  <2>3. /\ IsTree(Adopt(t4, subst, l)) /\ Adopt(t4, subst, l).root = t4.root
        /\ DOMAIN Adopt(t4, subst, l).mem = DOMAIN t4.mem
        /\ \A z \in DOMAIN t4.mem, g \in Fields :
              Adopt(t4, subst, l).mem[z][g] = IF l # Sentinel /\ z = l /\ g = "parent" THEN subst ELSE t4.mem[z][g]
    BY <2>1, AdoptIs
  <2> QED BY <1>6, <2>3 DEF t5
<1>8. /\ IsTree(t6) /\ t6.root = t0.root /\ DOMAIN t6.mem = DOMAIN t.mem
      /\ \A z \in DOMAIN t.mem, g \in Fields :
            t6.mem[z][g] = IF r # Sentinel /\ z = r /\ g = "parent" THEN subst ELSE t5.mem[z][g]
  <2>1. IsTree(t5) /\ r \in DOMAIN t5.mem BY <1>7
  <2>3. /\ IsTree(Adopt(t5, subst, r)) /\ Adopt(t5, subst, r).root = t5.root
        /\ DOMAIN Adopt(t5, subst, r).mem = DOMAIN t5.mem
        /\ \A z \in DOMAIN t5.mem, g \in Fields :
              Adopt(t5, subst, r).mem[z][g] = IF r # Sentinel /\ z = r /\ g = "parent" THEN subst ELSE t5.mem[z][g]
    BY <2>1, AdoptIs
  <2> QED BY <1>7, <2>3 DEF t6
<1>9. ASSUME NEW z \in DOMAIN t.mem, NEW g \in Fields
      PROVE  v.mem[z][g] =
                    IF z = subst /\ g # "key" THEN t.mem[x][g]
                    ELSE IF g = "parent" /\ z # Sentinel /\ (z = l \/ z = r) THEN subst
                    ELSE IF x # t.root /\ z = Parent(t, x) /\ g = Side(t, x) THEN subst
                    ELSE t.mem[z][g]
  <2>0. Parent(t, x) = t.mem[x]["parent"] BY DEF Parent
  <2>1. Side(t, x) # "parent" BY DEF Side
  <2>2. CASE z = subst
    <3>1. v.mem[z][g] = t4.mem[z][g] BY <1>1, <1>7, <1>8, <2>2
    <3>2. g = "color" => t4.mem[z][g] = t.mem[x][g] BY <1>6, <2>2
    <3>3. g = "parent" => t4.mem[z][g] = t.mem[x][g] BY <1>5, <1>6, <2>0, <2>2
    <3>4. g = "right" => t4.mem[z][g] = t.mem[x][g] BY <1>4, <1>5, <1>6, <2>2
    <3>5. g = "left" => t4.mem[z][g] = t.mem[x][g] BY <1>3, <1>4, <1>5, <1>6, <2>2
    <3>6. g = "key" => t4.mem[z][g] = t0.mem[z][g] BY <1>3, <1>4, <1>5, <1>6, <2>2
    <3>7. g \in {"key", "left", "right", "parent", "color"} BY DEF Fields
    <3> QED BY <1>2, <2>2, <3>1, <3>2, <3>3, <3>4, <3>5, <3>6, <3>7
  <2>3. CASE z # subst
    <3>1. t4.mem[z][g] = t0.mem[z][g] BY <1>3, <1>4, <1>5, <1>6, <2>3
    <3> QED BY <1>1, <1>2, <1>7, <1>8, <2>1, <2>3, <3>1
  <2> QED BY <2>2, <2>3
<1> QED BY <1>1, <1>2, <1>8, <1>9

(* x is no longer there.                                                    *)
LEMMA WithoutIs ==
    ASSUME NEW t, IsTree(t), NEW x, NEW u, u = Without(t, x)
    PROVE  /\ IsTree(u) /\ u.root = t.root /\ DOMAIN u.mem = DOMAIN t.mem \ {x}
           /\ \A z \in DOMAIN t.mem \ {x} : u.mem[z] = t.mem[z]
BY DEF Without, IsTree

(* The colours once x is out.                                               *)
Tinted(t, x, subst, temp, u) ==
    \A z \in DOMAIN t.mem \ {x} :
        u.mem[z].color = IF subst = t.root /\ z = temp THEN Black
                         ELSE IF z = subst THEN t.mem[x].color ELSE t.mem[z].color

(* subst, with a leaf on one side, was the root.                            *)
LEMMA TakenRoot ==
    ASSUME NEW t, NEW b, NEW old, NEW x, NEW subst, NEW temp, NEW d,
           Chosen(t, b, old, x, subst, temp, d), temp = Heir(t, subst), subst = t.root,
           NEW u, u = TakenOut(t, x, subst)
    PROVE  Excised(t, x, subst, temp, u) /\ Tinted(t, x, subst, temp, u)
<1>1. /\ Struct(t, b, old) /\ Hangs(t, b) /\ x \in ArmedIn(t) /\ x \in DOMAIN t.mem /\ subst = x
      /\ temp \in DOMAIN t.mem /\ temp # x /\ x = t.root
  <2>1. subst # x => subst # t.root BY ChosenFacts
  <2>2. Struct(t, b, old) /\ Hangs(t, b) /\ x \in ArmedIn(t) /\ temp \in DOMAIN t.mem /\ temp # x BY ChosenFacts
  <2> QED BY <2>1, <2>2 DEF ArmedIn
<1>2. IsTree(t) /\ Typed(t) BY <1>1 DEF Struct
<1>3. PICK v : v = SetRoot(t, temp) OBVIOUS
<1>4. PICK w : w = Paint(v, temp, Black) OBVIOUS
<1>5. u = Without(w, x) BY <1>3, <1>4 DEF TakenOut, SetRoot
<1>6. IsTree(v) /\ v.root = temp /\ v.mem = t.mem BY <1>2, <1>3, SetRootIs
<1>7. /\ IsTree(w) /\ w.root = temp /\ DOMAIN w.mem = DOMAIN t.mem
      /\ \A z \in DOMAIN t.mem, g \in Fields : w.mem[z][g] = IF z = temp /\ g = "color" THEN Black ELSE t.mem[z][g]
  BY <1>1, <1>4, <1>6, PaintIs
<1>8. /\ IsTree(u) /\ u.root = temp /\ DOMAIN u.mem = DOMAIN t.mem \ {x}
      /\ \A z \in DOMAIN t.mem \ {x} : u.mem[z] = w.mem[z]
  BY <1>5, <1>7, WithoutIs
<1>9. ASSUME NEW z \in DOMAIN t.mem \ {x}
      PROVE  /\ u.mem[z].key = t.mem[z].key /\ Parent(u, z) = Parent(t, z)
             /\ u.mem[z].color = IF z = temp THEN Black ELSE t.mem[z].color
             /\ \A s \in Sides : u.mem[z][s] = t.mem[z][s]
  <2>1. u.mem[z] = w.mem[z] /\ z \in DOMAIN t.mem BY <1>8
  <2>2. "key" \in Fields /\ "parent" \in Fields /\ "color" \in Fields
        /\ \A s \in Sides : s \in Fields /\ s # "color"
    BY SideFacts
  <2> QED BY <1>7, <2>1, <2>2 DEF Parent
<1>10. Black \in {Red, Black} OBVIOUS
<1>11. \A z \in DOMAIN t.mem \ {x} : /\ u.mem[z].key = t.mem[z].key
                                     /\ Parent(u, z) \in Ev \cup {Null}
                                     /\ u.mem[z].color \in {Red, Black}
  BY <1>2, <1>9, <1>10 DEF Typed
<1>12. ASSUME NEW z \in ArmedIn(t) \ {x}, NEW s \in Sides
       PROVE  u.mem[z][s] = Heired(x, subst, temp, t.mem[Before(x, subst, z)][s])
  <2>1. z \in DOMAIN t.mem \ {x} BY DEF ArmedIn
  <2>2. t.mem[z][s] # t.root
    <3>1. t.mem[z][s] # Sentinel => t.mem[z][s] # t.root BY <1>1, Below
    <3>2. t.root # Sentinel BY <1>1 DEF ArmedIn
    <3> QED BY <3>1, <3>2
  <2>3. Before(x, subst, z) = z BY <1>1 DEF Before
  <2> QED BY <1>1, <1>9, <2>1, <2>2, <2>3 DEF Heired
<1>13. \A p : Renamed(x, subst, p) = p BY <1>1 DEF Renamed
<1>14. \A z \in ArmedIn(t) \ {x, subst, temp, t.root} : Parent(u, z) = Renamed(x, subst, Parent(t, z))
  BY <1>9, <1>13 DEF ArmedIn
<1>15. u.root = Heired(x, subst, temp, t.root) BY <1>1, <1>8 DEF Heired
<1>16. Excised(t, x, subst, temp, u) BY <1>1, <1>8, <1>11, <1>12, <1>14, <1>15 DEF Excised
<1>17. Tinted(t, x, subst, temp, u) BY <1>1, <1>9 DEF Tinted
<1> QED BY <1>16, <1>17

(* temp is linked where subst was.                                          *)
Cut(t, x, subst, temp) ==
    [Relink(t, subst, temp) EXCEPT
        !.mem[temp].parent = IF t.mem[subst].parent = x THEN subst ELSE t.mem[subst].parent]

(* The links after subst is cut off.                                        *)
LEMMA CutIs ==
    ASSUME NEW t, NEW b, NEW old, NEW x, NEW subst, NEW temp, NEW d,
           Chosen(t, b, old, x, subst, temp, d), subst # t.root,
           NEW v, v = Cut(t, x, subst, temp)
    PROVE  /\ IsTree(v) /\ v.root = t.root /\ DOMAIN v.mem = DOMAIN t.mem
           /\ \A z \in ArmedIn(t), s \in Sides :
                 v.mem[z][s] = IF t.mem[z][s] = subst THEN temp ELSE t.mem[z][s]
           /\ \A z \in DOMAIN t.mem :
                 /\ v.mem[z].key = t.mem[z].key /\ v.mem[z].color = t.mem[z].color
                 /\ Parent(v, z) = IF z = temp THEN Renamed(x, subst, Parent(t, subst)) ELSE Parent(t, z)
<1>1. /\ Struct(t, b, old) /\ Hangs(t, b) /\ subst \in ArmedIn(t) /\ temp \in DOMAIN t.mem
  BY ChosenFacts
<1>2. IsTree(t) BY <1>1 DEF Struct
<1>3. /\ Parent(t, subst) \in ArmedIn(t) /\ Side(t, subst) \in Sides
      /\ subst = t.mem[Parent(t, subst)][Side(t, subst)]
  BY <1>1, Above
<1>4. Parent(t, subst) \in DOMAIN t.mem BY <1>3 DEF ArmedIn
<1>5. PICK r : r = Relink(t, subst, temp) OBVIOUS
<1>6. /\ IsTree(r) /\ r.root = t.root /\ DOMAIN r.mem = DOMAIN t.mem
      /\ \A z \in DOMAIN t.mem, g \in Fields :
            r.mem[z][g] = IF z = Parent(t, subst) /\ g = Side(t, subst) THEN temp ELSE t.mem[z][g]
  BY <1>2, <1>4, <1>5, RelinkIs
<1>7. v = Set(r, temp, "parent", Renamed(x, subst, Parent(t, subst)))
  BY <1>5 DEF Cut, Set, Renamed, Parent
<1>8. "parent" \in Fields /\ "key" \in Fields /\ "color" \in Fields BY SideFacts
<1>9. /\ IsTree(v) /\ v.root = t.root /\ DOMAIN v.mem = DOMAIN t.mem
      /\ \A z \in DOMAIN t.mem, g \in Fields :
            v.mem[z][g] = IF z = temp /\ g = "parent" THEN Renamed(x, subst, Parent(t, subst)) ELSE r.mem[z][g]
  <2>1. IsTree(r) /\ temp \in DOMAIN r.mem BY <1>1, <1>6
  <2>2. PICK n : n = Renamed(x, subst, Parent(t, subst)) OBVIOUS
  <2>3. v = Set(r, temp, "parent", n) BY <1>7, <2>2
  <2>4. /\ IsTree(v) /\ v.root = r.root /\ DOMAIN v.mem = DOMAIN r.mem
        /\ \A z \in DOMAIN r.mem, g \in Fields :
              v.mem[z][g] = IF z = temp /\ g = "parent" THEN n ELSE r.mem[z][g]
    BY <1>8, <2>1, <2>3, SetIs
  <2> QED BY <1>6, <2>2, <2>4
<1>10. ASSUME NEW z \in ArmedIn(t), NEW s \in Sides
       PROVE  v.mem[z][s] = IF t.mem[z][s] = subst THEN temp ELSE t.mem[z][s]
  <2>1. z \in DOMAIN t.mem /\ s \in Fields /\ s # "parent" BY SideFacts DEF ArmedIn
  <2>2. v.mem[z][s] = r.mem[z][s] BY <1>9, <2>1
  <2>3. v.mem[z][s] = IF z = Parent(t, subst) /\ s = Side(t, subst) THEN temp ELSE t.mem[z][s]
    BY <1>6, <2>1, <2>2
  <2>4. CASE t.mem[z][s] = subst
    <3>1. subst # Sentinel BY <1>1 DEF ArmedIn
    <3>2. Parent(t, subst) = z /\ Side(t, subst) = s BY <1>1, <2>4, <3>1, Below
    <3> QED BY <2>3, <2>4, <3>2
  <2>5. CASE t.mem[z][s] # subst BY <1>3, <2>3, <2>5
  <2> QED BY <2>4, <2>5
<1>11. ASSUME NEW z \in DOMAIN t.mem
       PROVE  /\ v.mem[z].key = t.mem[z].key /\ v.mem[z].color = t.mem[z].color
              /\ Parent(v, z) = IF z = temp THEN Renamed(x, subst, Parent(t, subst)) ELSE Parent(t, z)
  <2>1. Side(t, subst) # "parent" /\ Side(t, subst) # "key" /\ Side(t, subst) # "color" BY <1>3, SideFacts
  <2>2. r.mem[z].key = t.mem[z].key /\ r.mem[z].color = t.mem[z].color /\ r.mem[z].parent = t.mem[z].parent
    BY <1>6, <1>8, <2>1
  <2> QED BY <1>8, <1>9, <2>2 DEF Parent
<1> QED BY <1>9, <1>10, <1>11

(* x, with a leaf on one side, is itself what is cut off.                   *)
LEMMA TakenSelf ==
    ASSUME NEW t, NEW b, NEW old, NEW x, NEW subst, NEW temp, NEW d,
           Chosen(t, b, old, x, subst, temp, d), temp = Heir(t, subst), subst # t.root, subst = x,
           NEW u, u = TakenOut(t, x, subst)
    PROVE  Excised(t, x, subst, temp, u) /\ Tinted(t, x, subst, temp, u)
<1>1. PICK v : v = Cut(t, x, subst, temp) OBVIOUS
<1>2. u = Without(v, x) BY <1>1 DEF TakenOut, Cut
<1>3. /\ IsTree(v) /\ v.root = t.root /\ DOMAIN v.mem = DOMAIN t.mem
      /\ \A z \in ArmedIn(t), s \in Sides :
            v.mem[z][s] = IF t.mem[z][s] = subst THEN temp ELSE t.mem[z][s]
  BY <1>1, CutIs
<1>4. \A z \in DOMAIN t.mem :
         /\ v.mem[z].key = t.mem[z].key /\ v.mem[z].color = t.mem[z].color
         /\ Parent(v, z) = IF z = temp THEN Renamed(x, subst, Parent(t, subst)) ELSE Parent(t, z)
  BY <1>1, CutIs
<1>5. /\ IsTree(u) /\ u.root = t.root /\ DOMAIN u.mem = DOMAIN t.mem \ {x}
      /\ \A z \in DOMAIN t.mem \ {x} : u.mem[z] = v.mem[z]
  BY <1>2, <1>3, WithoutIs
<1>6. /\ Struct(t, b, old) /\ x \in ArmedIn(t) /\ temp \in DOMAIN t.mem /\ temp # x
  BY ChosenFacts
<1>7. Typed(t) /\ x \in DOMAIN t.mem /\ DOMAIN t.mem \subseteq Nodes BY <1>6 DEF Struct, ArmedIn
<1>8. x \in Ev BY <1>6, <1>7 DEF ArmedIn, Nodes
<1>9. \A p : Renamed(x, subst, p) = p BY DEF Renamed
<1>10. \A z \in DOMAIN t.mem \ {x} : /\ u.mem[z].key = t.mem[z].key
                                     /\ Parent(u, z) = IF z = temp THEN Parent(t, subst) ELSE Parent(t, z)
                                     /\ u.mem[z].color = t.mem[z].color
  BY <1>4, <1>5, <1>9 DEF Parent
<1>11. \A z \in DOMAIN t.mem \ {x} : /\ u.mem[z].key = t.mem[z].key
                                     /\ Parent(u, z) \in Ev \cup {Null}
                                     /\ u.mem[z].color \in {Red, Black}
  BY <1>7, <1>10 DEF Typed
<1>12. \A z \in ArmedIn(t) \ {x}, s \in Sides :
           u.mem[z][s] = Heired(x, subst, temp, t.mem[Before(x, subst, z)][s])
  BY <1>3, <1>5 DEF Heired, Before, ArmedIn
<1>13. \A z \in ArmedIn(t) \ {x, subst, temp, t.root} : Parent(u, z) = Renamed(x, subst, Parent(t, z))
  BY <1>9, <1>10 DEF ArmedIn
<1>14. Parent(u, temp) = Renamed(x, subst, Parent(t, subst)) BY <1>6, <1>9, <1>10
<1>15. u.root = Heired(x, subst, temp, t.root) BY <1>5 DEF Heired
<1>16. Excised(t, x, subst, temp, u) BY <1>5, <1>11, <1>12, <1>13, <1>14, <1>15 DEF Excised
<1>17. Tinted(t, x, subst, temp, u) BY <1>10 DEF Tinted
<1> QED BY <1>16, <1>17

(* subst comes from below x, and takes its place.                           *)
LEMMA TakenPlace ==
    ASSUME NEW t, NEW b, NEW old, NEW x, NEW subst, NEW temp, NEW d,
           Chosen(t, b, old, x, subst, temp, d), temp = Heir(t, subst), subst # t.root, subst # x,
           NEW u, u = TakenOut(t, x, subst)
    PROVE  Excised(t, x, subst, temp, u) /\ Tinted(t, x, subst, temp, u)
<1>1. PICK v : v = Cut(t, x, subst, temp) OBVIOUS
<1>2. PICK w : w = TakePlace(v, x, subst) OBVIOUS
<1>2a. u = Without(w, x) BY <1>1, <1>2 DEF TakenOut, Cut
<1>3. /\ IsTree(v) /\ v.root = t.root /\ DOMAIN v.mem = DOMAIN t.mem
      /\ \A z \in ArmedIn(t), s \in Sides :
            v.mem[z][s] = IF t.mem[z][s] = subst THEN temp ELSE t.mem[z][s]
  BY <1>1, CutIs
<1>4. \A z \in DOMAIN t.mem :
         /\ v.mem[z].key = t.mem[z].key /\ v.mem[z].color = t.mem[z].color
         /\ Parent(v, z) = IF z = temp THEN Renamed(x, subst, Parent(t, subst)) ELSE Parent(t, z)
  BY <1>1, CutIs
<1>6. /\ Struct(t, b, old) /\ Hangs(t, b) /\ x \in ArmedIn(t) /\ subst \in ArmedIn(t)
      /\ temp \in DOMAIN t.mem /\ temp # x /\ temp # subst
      /\ (temp # Sentinel => temp \in ArmedIn(t) /\ Parent(t, temp) = subst)
  BY ChosenFacts
<1>7. Typed(t) /\ x \in DOMAIN t.mem /\ subst \in DOMAIN t.mem /\ DOMAIN t.mem \subseteq Nodes
      /\ x # Sentinel /\ subst # Sentinel
  BY <1>6 DEF Struct, ArmedIn
<1>8. x \in Ev /\ subst \in Ev BY <1>7 DEF Nodes
<1>9. ASSUME NEW z \in ArmedIn(t), NEW s \in Sides
      PROVE  /\ t.mem[z][s] \in DOMAIN t.mem /\ t.mem[z][s] # z
             /\ t.mem[z][s] # Sentinel => /\ t.mem[z][s] \in ArmedIn(t) /\ Parent(t, t.mem[z][s]) = z
                                          /\ Side(t, t.mem[z][s]) = s /\ t.mem[z][s] # t.root
  BY <1>6, Below
<1>10. x # t.root => /\ Parent(t, x) \in ArmedIn(t) /\ Parent(t, x) \in DOMAIN t.mem /\ Side(t, x) \in Sides
                     /\ x = t.mem[Parent(t, x)][Side(t, x)] /\ Parent(t, x) # x
  <2>1. SUFFICES ASSUME x # t.root
                 PROVE  /\ Parent(t, x) \in ArmedIn(t) /\ Parent(t, x) \in DOMAIN t.mem /\ Side(t, x) \in Sides
                        /\ x = t.mem[Parent(t, x)][Side(t, x)] /\ Parent(t, x) # x
    OBVIOUS
  <2>2. /\ Parent(t, x) \in ArmedIn(t) /\ Side(t, x) \in Sides
        /\ x = t.mem[Parent(t, x)][Side(t, x)] /\ Parent(t, x) # x
    BY <1>6, <2>1, Above
  <2> QED BY <2>2 DEF ArmedIn
<1>11. Parent(v, x) = Parent(t, x) BY <1>4, <1>6, <1>7
<1>12. x # t.root => Side(v, x) = Side(t, x)
  <2>1. SUFFICES ASSUME x # t.root PROVE Side(v, x) = Side(t, x) OBVIOUS
  <2>2. "left" \in Sides BY DEF Sides
  <2>3. v.mem[Parent(t, x)]["left"] = x <=> t.mem[Parent(t, x)]["left"] = x
    BY <1>3, <1>6, <1>10, <2>1, <2>2
  <2> QED BY <1>11, <2>3 DEF Side
<1>13. PICK l : l = v.mem[x]["left"] OBVIOUS
<1>14. PICK r : r = v.mem[x]["right"] OBVIOUS
<1>15. /\ l = (IF t.mem[x]["left"] = subst THEN temp ELSE t.mem[x]["left"])
       /\ r = (IF t.mem[x]["right"] = subst THEN temp ELSE t.mem[x]["right"])
  BY <1>3, <1>6, <1>13, <1>14 DEF Sides
<1>16. l \in DOMAIN t.mem /\ r \in DOMAIN t.mem /\ l # subst /\ r # subst
  BY <1>6, <1>9, <1>15 DEF Sides
<1>17. /\ IsTree(w) /\ w.root = (IF x = t.root THEN subst ELSE t.root) /\ DOMAIN w.mem = DOMAIN t.mem
       /\ \A z \in DOMAIN t.mem, g \in Fields :
             w.mem[z][g] =
                    IF z = subst /\ g # "key" THEN v.mem[x][g]
                    ELSE IF g = "parent" /\ z # Sentinel /\ (z = l \/ z = r) THEN subst
                    ELSE IF x # t.root /\ z = Parent(t, x) /\ g = Side(t, x) THEN subst
                    ELSE v.mem[z][g]
  <2>1. /\ IsTree(v) /\ x \in DOMAIN v.mem /\ subst \in DOMAIN v.mem
        /\ (x # v.root => Parent(v, x) \in DOMAIN v.mem)
        /\ l \in DOMAIN v.mem /\ r \in DOMAIN v.mem
    BY <1>3, <1>7, <1>10, <1>11, <1>16
  <2>2. /\ IsTree(w) /\ w.root = (IF x = v.root THEN subst ELSE v.root) /\ DOMAIN w.mem = DOMAIN v.mem
    BY <1>2, <1>13, <1>14, <1>16, <2>1, TakePlaceIs
  <2>3. \A z \in DOMAIN v.mem, g \in Fields :
             w.mem[z][g] =
                    IF z = subst /\ g # "key" THEN v.mem[x][g]
                    ELSE IF g = "parent" /\ z # Sentinel /\ (z = l \/ z = r) THEN subst
                    ELSE IF x # v.root /\ z = Parent(v, x) /\ g = Side(v, x) THEN subst
                    ELSE v.mem[z][g]
    BY <1>2, <1>13, <1>14, <1>16, <2>1, TakePlaceIs
  <2> QED BY <1>3, <1>11, <1>12, <2>2, <2>3
<1>18. /\ IsTree(u) /\ u.root = w.root /\ DOMAIN u.mem = DOMAIN t.mem \ {x}
       /\ \A z \in DOMAIN t.mem \ {x} : u.mem[z] = w.mem[z]
  BY <1>2a, <1>17, WithoutIs
<1>19. "key" \in Fields /\ "parent" \in Fields /\ "color" \in Fields BY SideFacts
<1>20. x # t.root => Side(t, x) # "key" /\ Side(t, x) # "parent" /\ Side(t, x) # "color" BY <1>10, SideFacts
<1>21. ASSUME NEW z \in DOMAIN t.mem \ {x}
       PROVE  /\ u.mem[z].key = t.mem[z].key
              /\ u.mem[z].color = IF z = subst THEN t.mem[x].color ELSE t.mem[z].color
              /\ Parent(u, z) = IF z = subst THEN Parent(t, x)
                                ELSE IF z # Sentinel /\ (z = l \/ z = r) THEN subst
                                ELSE IF z = temp THEN Renamed(x, subst, Parent(t, subst)) ELSE Parent(t, z)
  <2>1. u.mem[z] = w.mem[z] BY <1>18
  <2>2. w.mem[z].key = t.mem[z].key BY <1>4, <1>17, <1>19, <1>20
  <2>3. w.mem[z].color = IF z = subst THEN t.mem[x].color ELSE t.mem[z].color
    BY <1>4, <1>7, <1>17, <1>19, <1>20
  <2>4. w.mem[z]["parent"] = IF z = subst THEN v.mem[x]["parent"]
                             ELSE IF z # Sentinel /\ (z = l \/ z = r) THEN subst ELSE v.mem[z]["parent"]
    BY <1>17, <1>19, <1>20
  <2>5. Parent(v, z) = IF z = temp THEN Renamed(x, subst, Parent(t, subst)) ELSE Parent(t, z) BY <1>4
  <2> QED BY <1>11, <2>1, <2>2, <2>3, <2>4, <2>5 DEF Parent
<1>22. \A z \in DOMAIN t.mem \ {x} : /\ u.mem[z].key = t.mem[z].key
                                     /\ Parent(u, z) \in Ev \cup {Null}
                                     /\ u.mem[z].color \in {Red, Black}
  BY <1>7, <1>8, <1>21 DEF Typed, Renamed
<1>23. ASSUME NEW z \in ArmedIn(t) \ {x}, NEW s \in Sides
       PROVE  u.mem[z][s] = Heired(x, subst, temp, t.mem[Before(x, subst, z)][s])
  <2>1. z \in DOMAIN t.mem \ {x} /\ s \in Fields /\ s # "key" /\ s # "parent" BY SideFacts DEF ArmedIn
  <2>2. u.mem[z][s] = IF z = subst THEN v.mem[x][s]
                      ELSE IF x # t.root /\ z = Parent(t, x) /\ s = Side(t, x) THEN subst ELSE v.mem[z][s]
    BY <1>17, <1>18, <2>1
  <2>3. CASE z = subst
    <3>1. t.mem[x][s] # x BY <1>6, <1>9
    <3>2. v.mem[x][s] = Heired(x, subst, temp, t.mem[x][s]) BY <1>3, <1>6, <3>1 DEF Heired
    <3> QED BY <2>2, <2>3, <3>2 DEF Before
  <2>4. CASE z # subst /\ x # t.root /\ z = Parent(t, x) /\ s = Side(t, x)
    <3>1. t.mem[z][s] = x BY <1>10, <2>4
    <3> QED BY <2>2, <2>4, <3>1 DEF Heired, Before
  <2>5. CASE z # subst /\ ~(x # t.root /\ z = Parent(t, x) /\ s = Side(t, x))
    <3>1. t.mem[z][s] # x BY <1>7, <1>9, <2>5
    <3>2. v.mem[z][s] = Heired(x, subst, temp, t.mem[z][s]) BY <1>3, <3>1 DEF Heired
    <3> QED BY <2>2, <2>5, <3>2 DEF Before
  <2> QED BY <2>3, <2>4, <2>5
<1>24. ASSUME NEW z \in ArmedIn(t) \ {x, subst, temp, t.root} PROVE Parent(u, z) = Renamed(x, subst, Parent(t, z))
  <2>1. z \in DOMAIN t.mem \ {x} /\ z # Sentinel BY DEF ArmedIn
  <2>2. Parent(u, z) = IF z = l \/ z = r THEN subst ELSE Parent(t, z) BY <1>21, <2>1
  <2>3. (z = l \/ z = r) => Parent(t, z) = x
    <3>1. "left" \in Sides /\ "right" \in Sides BY DEF Sides
    <3>2. z = l => z = t.mem[x]["left"] BY <1>15
    <3>3. z = r => z = t.mem[x]["right"] BY <1>15
    <3> QED BY <1>6, <1>9, <2>1, <3>1, <3>2, <3>3
  <2>4. Parent(t, z) = x => z = l \/ z = r
    <3>1. SUFFICES ASSUME Parent(t, z) = x PROVE z = l \/ z = r OBVIOUS
    <3>2. Side(t, z) \in Sides /\ z = t.mem[Parent(t, z)][Side(t, z)] BY <1>6, Above
    <3> QED BY <1>15, <3>1, <3>2 DEF Sides
  <2> QED BY <2>2, <2>3, <2>4 DEF Renamed
<1>25. Parent(u, subst) = Parent(t, x) BY <1>7, <1>21
<1>26. Parent(u, temp) = Renamed(x, subst, Parent(t, subst))
  <2>1. Parent(u, temp) = IF temp # Sentinel /\ (temp = l \/ temp = r) THEN subst
                          ELSE Renamed(x, subst, Parent(t, subst))
    BY <1>6, <1>21
  <2>2. ASSUME temp # Sentinel, temp = l \/ temp = r PROVE Parent(t, subst) = x
    <3>1. Parent(t, temp) = subst BY <1>6, <2>2
    <3>2. "left" \in Sides /\ "right" \in Sides BY DEF Sides
    <3>3. t.mem[x]["left"] # temp /\ t.mem[x]["right"] # temp BY <1>6, <1>9, <2>2, <3>1, <3>2
    <3>4. t.mem[x]["left"] = subst \/ t.mem[x]["right"] = subst BY <1>15, <2>2, <3>3
    <3> QED BY <1>6, <1>7, <1>9, <3>2, <3>4
  <2> QED BY <2>1, <2>2 DEF Renamed
<1>27. u.root = Heired(x, subst, temp, t.root) BY <1>17, <1>18 DEF Heired
<1>28. Excised(t, x, subst, temp, u) BY <1>18, <1>22, <1>23, <1>24, <1>25, <1>26, <1>27 DEF Excised
<1>29. Tinted(t, x, subst, temp, u) BY <1>21 DEF Tinted
<1> QED BY <1>28, <1>29

-----------------------------------------------------------------------------
(* Colours and black nodes once a node is out.                              *)

(* rbtree_delete, up to its loop, takes x out and nothing else, whichever   *)
(* node takes its place.                                                    *)
LEMMA TakenIs ==
    ASSUME NEW t, NEW b, NEW old, NEW x, NEW subst, NEW temp, NEW d,
           Chosen(t, b, old, x, subst, temp, d), temp = Heir(t, subst),
           NEW u, u = TakenOut(t, x, subst)
    PROVE  Excised(t, x, subst, temp, u) /\ Tinted(t, x, subst, temp, u)
<1>1. CASE subst = t.root BY <1>1, TakenRoot
<1>2. CASE subst # t.root /\ subst = x BY <1>2, TakenSelf
<1>3. CASE subst # t.root /\ subst # x BY <1>3, TakenPlace
<1> QED BY <1>1, <1>2, <1>3

(* The heights once x is out.                                               *)
Lowered(t, h, x, subst, temp) ==
    IF subst = t.root
    THEN [h EXCEPT ![x] = 0, ![temp] = IF IsRed(t, temp) THEN @ + 1 ELSE @]
    ELSE IF subst = x THEN [h EXCEPT ![x] = 0] ELSE [h EXCEPT ![x] = 0, ![subst] = h[x]]

(* x is taken out of a tree on which nothing is at work.                    *)
Removed(t, b, old, h, x, subst, temp, d, u, c, new, k) ==
    /\ Settled(t, b, old, h) /\ Chosen(t, b, old, x, subst, temp, d) /\ temp = Heir(t, subst)
    /\ u = TakenOut(t, x, subst) /\ c = LessBelow(b, x, subst)
    /\ new = [y \in Ev |-> IF y = x THEN {} ELSE old[y] \ {x}]
    /\ k = Lowered(t, h, x, subst, temp)

(* The tree before and after, on which nothing was at work.                 *)
LEMMA RemovedFacts ==
    ASSUME NEW t, NEW b, NEW old, NEW h, NEW x, NEW subst, NEW temp, NEW d, NEW u, NEW c, NEW new, NEW k,
           Removed(t, b, old, h, x, subst, temp, d, u, c, new, k)
    PROVE  /\ Struct(u, c, new) /\ ArmedIn(u) = ArmedIn(t) \ {x} /\ DOMAIN u.mem = DOMAIN t.mem \ {x}
           /\ Chosen(t, b, old, x, subst, temp, d)
           /\ Excised(t, x, subst, temp, u) /\ Tinted(t, x, subst, temp, u)
           /\ u.root = Heired(x, subst, temp, t.root)
           /\ Struct(t, b, old) /\ Hangs(t, b) /\ DOMAIN t.mem \subseteq Nodes
           /\ ~IsRed(t, t.root) /\ ~IsRed(t, Sentinel)
           /\ \A z \in ArmedIn(t), s \in Sides : ~(IsRed(t, z) /\ IsRed(t, t.mem[z][s]))
           /\ h \in [Nodes -> Nat] /\ \A z \in Nodes \ ArmedIn(t) : h[z] = 0
           /\ \A z \in ArmedIn(t), s \in Sides : /\ h[z] \in Nat /\ h[t.mem[z][s]] \in Nat
                                                 /\ h[z] = h[t.mem[z][s]] + Black01(t, z)
           /\ \A z \in ArmedIn(t), s \in Sides : t.mem[z][s] \in DOMAIN t.mem
           /\ t.root \in ArmedIn(t)
<1>1. /\ Settled(t, b, old, h) /\ Chosen(t, b, old, x, subst, temp, d) /\ temp = Heir(t, subst)
      /\ u = TakenOut(t, x, subst) /\ c = LessBelow(b, x, subst)
      /\ new = [y \in Ev |-> IF y = x THEN {} ELSE old[y] \ {x}]
  BY DEF Removed
<1>2. Excised(t, x, subst, temp, u) /\ Tinted(t, x, subst, temp, u) BY <1>1, TakenIs
<1>3. Struct(u, c, new) /\ ArmedIn(u) = ArmedIn(t) \ {x} BY <1>1, <1>2, ExcisedStruct
<1>4. DOMAIN u.mem = DOMAIN t.mem \ {x} /\ u.root = Heired(x, subst, temp, t.root) BY <1>2 DEF Excised
<1>5. Struct(t, b, old) /\ HeightsIn(t, h, Null, "left") /\ ColorsIn(t, "none", Null) BY <1>1 DEF Settled
<1>6. Hangs(t, b) /\ DOMAIN t.mem \subseteq Nodes BY <1>5 DEF Struct
<1>7. /\ ~IsRed(t, t.root) /\ ~IsRed(t, Sentinel)
      /\ \A z \in ArmedIn(t), s \in Sides : ~(IsRed(t, z) /\ IsRed(t, t.mem[z][s]))
  BY <1>5 DEF ColorsIn, Exempt
<1>8. h \in [Nodes -> Nat] /\ \A z \in Nodes \ ArmedIn(t) : h[z] = 0 BY <1>5 DEF HeightsIn
<1>9. \A z \in ArmedIn(t), s \in Sides : /\ h[z] \in Nat /\ h[t.mem[z][s]] \in Nat
                                         /\ h[z] = h[t.mem[z][s]] + Black01(t, z)
  BY <1>5, WholeHeights
<1>10. \A z \in ArmedIn(t), s \in Sides : t.mem[z][s] \in DOMAIN t.mem BY <1>6, KidFacts
<1>11. t.root \in ArmedIn(t)
  <2>1. x \in ArmedIn(t) BY <1>1, ChosenFacts
  <2>2. t.root # Sentinel BY <1>6, <2>1, EmptyTrees
  <2> QED BY <1>6, <2>2 DEF Hangs, ArmedIn
<1> QED BY <1>1, <1>2, <1>3, <1>4, <1>5, <1>6, <1>7, <1>8, <1>9, <1>10, <1>11

(* The root had one kid at most, which is the root now.                     *)
LEMMA RootRemoved ==
    ASSUME NEW t, NEW b, NEW old, NEW h, NEW x, NEW subst, NEW temp, NEW d, NEW u, NEW c, NEW new, NEW k,
           Removed(t, b, old, h, x, subst, temp, d, u, c, new, k), subst = t.root
    PROVE  Settled(u, c, new, k)
<1>1. /\ Struct(u, c, new) /\ ArmedIn(u) = ArmedIn(t) \ {x} /\ DOMAIN u.mem = DOMAIN t.mem \ {x}
      /\ Chosen(t, b, old, x, subst, temp, d)
      /\ u.root = Heired(x, subst, temp, t.root)
      /\ Struct(t, b, old) /\ Hangs(t, b) /\ DOMAIN t.mem \subseteq Nodes
  BY RemovedFacts
<1>2. Excised(t, x, subst, temp, u) /\ Tinted(t, x, subst, temp, u) BY RemovedFacts
<1>3. /\ ~IsRed(t, t.root) /\ ~IsRed(t, Sentinel)
      /\ \A z \in ArmedIn(t), s \in Sides : ~(IsRed(t, z) /\ IsRed(t, t.mem[z][s]))
  BY RemovedFacts
<1>4. /\ h \in [Nodes -> Nat] /\ \A z \in Nodes \ ArmedIn(t) : h[z] = 0 BY RemovedFacts
<1>5. \A z \in ArmedIn(t), s \in Sides : /\ h[z] \in Nat /\ h[t.mem[z][s]] \in Nat
                                         /\ h[z] = h[t.mem[z][s]] + Black01(t, z)
  BY RemovedFacts
<1>6. \A z \in ArmedIn(t), s \in Sides : t.mem[z][s] \in DOMAIN t.mem BY RemovedFacts
<1>7. /\ subst = x /\ x \in ArmedIn(t) /\ temp \in DOMAIN t.mem /\ temp # x
      /\ (temp # Sentinel => Parent(t, temp) = x)
  <2>1. subst # x => subst # t.root BY <1>1, ChosenFacts
  <2>2. x \in ArmedIn(t) /\ temp \in DOMAIN t.mem /\ temp # x
        /\ (temp # Sentinel => Parent(t, temp) = subst)
    BY <1>1, ChosenFacts
  <2> QED BY <2>1, <2>2
<1>8. k = [h EXCEPT ![x] = 0, ![temp] = IF IsRed(t, temp) THEN @ + 1 ELSE @] BY DEF Removed, Lowered
<1>9. temp \in Nodes /\ x \in Nodes /\ ArmedIn(t) \subseteq Nodes BY <1>1, <1>7 DEF ArmedIn
<1>10. /\ k \in [Nodes -> Nat] /\ k[x] = 0 /\ \A z \in Nodes \ {x, temp} : k[z] = h[z]
       /\ k[temp] = IF IsRed(t, temp) THEN h[temp] + 1 ELSE h[temp]
  BY <1>4, <1>7, <1>8, <1>9
<1>11. \A z \in DOMAIN t.mem \ {x} : u.mem[z].color = IF z = temp THEN Black ELSE t.mem[z].color
  BY <1>2, <1>7 DEF Tinted
<1>12. \A z \in DOMAIN t.mem \ {x} : IsRed(u, z) <=> (z # temp /\ IsRed(t, z))
  BY <1>11, ColorNumbers DEF IsRed
<1>13. ASSUME NEW z \in ArmedIn(u), NEW s \in Sides
       PROVE  /\ u.mem[z][s] = t.mem[z][s] /\ t.mem[z][s] \in DOMAIN t.mem /\ t.mem[z][s] # x
              /\ (t.mem[z][s] = temp => temp = Sentinel)
  <2>1. z \in ArmedIn(t) \ {x} BY <1>1
  <2>2. t.mem[z][s] \in DOMAIN t.mem /\
        (t.mem[z][s] # Sentinel => t.mem[z][s] # t.root /\ Parent(t, t.mem[z][s]) = z)
    BY <1>1, <2>1, Below
  <2>3. t.root # Sentinel BY <1>7 DEF ArmedIn
  <2>4. t.mem[z][s] # x BY <1>7, <2>2, <2>3
  <2>5. u.mem[z][s] = Heired(x, subst, temp, t.mem[Before(x, subst, z)][s]) BY <1>2, <2>1 DEF Excised
  <2>6. u.mem[z][s] = t.mem[z][s] BY <1>7, <2>1, <2>4, <2>5 DEF Heired, Before
  <2> QED BY <1>7, <2>1, <2>2, <2>4, <2>6
<1>14. ColorsIn(u, "none", Null)
  <2>1. u.root = temp BY <1>1 DEF Heired
  <2>2. Sentinel \in DOMAIN t.mem \ {x} BY <1>1, <1>7 DEF Hangs, ArmedIn
  <2>3. ~IsRed(u, Sentinel) /\ ~IsRed(u, u.root) BY <1>3, <1>7, <1>12, <2>1, <2>2
  <2>4. ASSUME NEW z \in ArmedIn(u), NEW s \in Sides PROVE ~(IsRed(u, z) /\ IsRed(u, u.mem[z][s]))
    <3>1. z \in ArmedIn(t) /\ z \in DOMAIN t.mem \ {x} BY <1>1 DEF ArmedIn
    <3>2. ~(IsRed(t, z) /\ IsRed(t, t.mem[z][s])) BY <1>3, <3>1
    <3>3. IsRed(u, z) => IsRed(t, z) BY <1>12, <3>1
    <3>4. IsRed(u, u.mem[z][s]) => IsRed(t, t.mem[z][s]) BY <1>12, <1>13
    <3> QED BY <3>2, <3>3, <3>4
  <2> QED BY <2>3, <2>4 DEF ColorsIn
<1>15. HeightsIn(u, k, Null, "left")
  <2>1. \A z \in Nodes \ ArmedIn(u) : k[z] = 0
    <3>1. temp \notin ArmedIn(u) => temp = Sentinel /\ temp \notin ArmedIn(t) BY <1>1, <1>7 DEF ArmedIn
    <3> QED BY <1>1, <1>3, <1>4, <1>9, <1>10, <3>1
  <2>2. ASSUME NEW z \in ArmedIn(u), NEW s \in Sides
        PROVE  z \in Nodes /\ u.mem[z][s] \in Nodes /\ z # Null /\ k[z] = k[u.mem[z][s]] + Black01(u, z)
    <3>1. z \in ArmedIn(t) /\ z # x /\ z \in DOMAIN t.mem \ {x} BY <1>1 DEF ArmedIn
    <3>2. z # Null /\ z \in Nodes BY <1>1, <3>1, NullIsNoNode
    <3>3. PICK y : y = t.mem[z][s] OBVIOUS
    <3>4. u.mem[z][s] = y /\ y \in Nodes /\ y # x /\ (y = temp => temp = Sentinel) BY <1>1, <1>13, <3>3
    <3>5. k[y] = h[y] BY <1>3, <1>10, <3>4
    <3>6. h[z] \in Nat /\ h[y] \in Nat /\ h[z] = h[y] + Black01(t, z) BY <1>5, <3>1, <3>3
    <3>7. CASE z = temp
      <4>1. Black01(u, z) = 1 BY <1>12, <3>1, <3>7, BlackNumbers
      <4>2. CASE IsRed(t, temp)
        <5>1. Black01(t, z) = 0 BY <3>7, <4>2, BlackNumbers
        <5>2. k[z] = h[z] + 1 BY <1>10, <3>7, <4>2
        <5> QED BY <3>2, <3>4, <3>5, <3>6, <4>1, <5>1, <5>2
      <4>3. CASE ~IsRed(t, temp)
        <5>1. Black01(t, z) = 1 BY <3>7, <4>3, BlackNumbers
        <5>2. k[z] = h[z] BY <1>10, <3>7, <4>3
        <5> QED BY <3>2, <3>4, <3>5, <3>6, <4>1, <5>1, <5>2
      <4> QED BY <4>2, <4>3
    <3>8. CASE z # temp
      <4>1. Black01(u, z) = Black01(t, z) BY <1>12, <3>1, <3>8 DEF Black01
      <4>2. k[z] = h[z] BY <1>10, <3>1, <3>2, <3>8
      <4> QED BY <3>2, <3>4, <3>5, <3>6, <4>1, <4>2
    <3> QED BY <3>7, <3>8
  <2>3. PICK f : f = k OBVIOUS
  <2>4. /\ f \in [Nodes -> Nat] /\ \A z \in Nodes \ ArmedIn(u) : f[z] = 0
        /\ \A z \in ArmedIn(u), s \in Sides :
              z \in Nodes /\ u.mem[z][s] \in Nodes /\ z # Null /\ f[z] = f[u.mem[z][s]] + Black01(u, z)
    BY <1>10, <2>1, <2>2, <2>3
  <2>5. HeightsIn(u, f, Null, "left") BY <2>4, WholeFrom
  <2> QED BY <2>3, <2>5
<1> QED BY <1>1, <1>14, <1>15 DEF Settled

(* Any other place: what a node and a kid of it, or the kid that took its   *)
(* place, have to do with those before.                                     *)
LEMMA PlaceRemoved ==
    ASSUME NEW t, NEW b, NEW old, NEW h, NEW x, NEW subst, NEW temp, NEW d, NEW u, NEW c, NEW new, NEW k,
           Removed(t, b, old, h, x, subst, temp, d, u, c, new, k), subst # t.root
    PROVE  /\ k \in [Nodes -> Nat] /\ \A z \in Nodes \ ArmedIn(u) : k[z] = 0
           /\ \A z \in DOMAIN t.mem \ {x} : IsRed(u, z) <=> IsRed(t, Before(x, subst, z))
           /\ ~IsRed(u, Sentinel) /\ ~IsRed(u, u.root)
           /\ \A z \in ArmedIn(u), s \in Sides :
                 LET w == Before(x, subst, z)  kid == t.mem[w][s]  y == u.mem[z][s] IN
                 /\ w \in ArmedIn(t) /\ w # subst /\ y = Heired(x, subst, temp, kid)
                 /\ kid # subst => k[z] = k[y] + Black01(u, z) /\ ~(IsRed(u, z) /\ IsRed(u, y))
                 /\ kid = subst => /\ y = temp /\ k[z] = k[y] + Black01(u, z) + Black01(t, subst)
                                   /\ ~(IsRed(t, subst) /\ IsRed(u, z))
<1>1. /\ ArmedIn(u) = ArmedIn(t) \ {x} /\ DOMAIN u.mem = DOMAIN t.mem \ {x}
      /\ Chosen(t, b, old, x, subst, temp, d)
      /\ u.root = Heired(x, subst, temp, t.root)
      /\ Struct(t, b, old) /\ Hangs(t, b) /\ DOMAIN t.mem \subseteq Nodes
  BY RemovedFacts
<1>2. Excised(t, x, subst, temp, u) /\ Tinted(t, x, subst, temp, u) BY RemovedFacts
<1>3. /\ ~IsRed(t, t.root) /\ ~IsRed(t, Sentinel)
      /\ \A z \in ArmedIn(t), s \in Sides : ~(IsRed(t, z) /\ IsRed(t, t.mem[z][s]))
  BY RemovedFacts
<1>4. /\ h \in [Nodes -> Nat] /\ \A z \in Nodes \ ArmedIn(t) : h[z] = 0 BY RemovedFacts
<1>5. \A z \in ArmedIn(t), s \in Sides : /\ h[z] \in Nat /\ h[t.mem[z][s]] \in Nat
                                         /\ h[z] = h[t.mem[z][s]] + Black01(t, z)
  BY RemovedFacts
<1>6. \A z \in ArmedIn(t), s \in Sides : t.mem[z][s] \in DOMAIN t.mem BY RemovedFacts
<1>6a. t.root \in ArmedIn(t) BY RemovedFacts
<1>7. /\ x \in ArmedIn(t) /\ subst \in ArmedIn(t) /\ temp \in DOMAIN t.mem /\ temp # x /\ temp # subst
  BY <1>1, ChosenFacts
<1>8. k = IF subst = x THEN [h EXCEPT ![x] = 0] ELSE [h EXCEPT ![x] = 0, ![subst] = h[x]]
  BY DEF Removed, Lowered
<1>9. temp \in Nodes /\ x \in Nodes /\ subst \in Nodes /\ ArmedIn(t) \subseteq Nodes /\ ArmedIn(t) \subseteq DOMAIN t.mem
      /\ x # Sentinel /\ subst # Sentinel
  BY <1>1, <1>7 DEF ArmedIn
<1>10. /\ k \in [Nodes -> Nat] /\ k[x] = 0 /\ \A z \in Nodes \ {x, subst} : k[z] = h[z]
       /\ subst # x => k[subst] = h[x]
  BY <1>4, <1>7, <1>8, <1>9
<1>11. ASSUME NEW z \in DOMAIN t.mem \ {x} PROVE IsRed(u, z) <=> IsRed(t, Before(x, subst, z))
  <2>1. u.mem[z].color = IF z = subst THEN t.mem[x].color ELSE t.mem[z].color
    BY <1>2 DEF Tinted
  <2> QED BY <2>1 DEF IsRed, Before
<1>12. Sentinel \in DOMAIN t.mem \ {x} /\ Before(x, subst, Sentinel) = Sentinel
  BY <1>1, <1>9 DEF Hangs, Before
<1>13. ~IsRed(u, Sentinel) BY <1>3, <1>11, <1>12
<1>14. ~IsRed(u, u.root)
  <2>1. u.root \in DOMAIN t.mem \ {x} /\ Before(x, subst, u.root) = t.root
    BY <1>1, <1>6a, <1>7, <1>9 DEF Heired, Before
  <2> QED BY <1>3, <1>11, <2>1
<1>15. \A z \in Nodes \ ArmedIn(u) : k[z] = 0 BY <1>1, <1>4, <1>7, <1>9, <1>10
<1>16. ASSUME NEW z \in ArmedIn(u), NEW s \in Sides, NEW w, w = Before(x, subst, z),
              NEW kid, kid = t.mem[w][s], NEW y, y = u.mem[z][s]
       PROVE  /\ w \in ArmedIn(t) /\ w # subst /\ y = Heired(x, subst, temp, kid)
              /\ kid # subst => k[z] = k[y] + Black01(u, z) /\ ~(IsRed(u, z) /\ IsRed(u, y))
              /\ kid = subst => /\ y = temp /\ k[z] = k[y] + Black01(u, z) + Black01(t, subst)
                                /\ ~(IsRed(t, subst) /\ IsRed(u, z))
  <2>1. z \in ArmedIn(t) /\ z # x /\ z \in DOMAIN t.mem \ {x} /\ z \in Nodes BY <1>1, <1>9
  <2>2. w \in ArmedIn(t) /\ w # subst BY <1>7, <1>16, <2>1 DEF Before
  <2>3. y = Heired(x, subst, temp, kid) BY <1>2, <1>16, <2>1 DEF Excised
  <2>4. IsRed(u, z) <=> IsRed(t, w) BY <1>11, <1>16, <2>1
  <2>5. Black01(u, z) = Black01(t, w) BY <2>4 DEF Black01
  <2>6. k[z] = h[w] BY <1>10, <1>16, <2>1 DEF Before
  <2>7. h[w] \in Nat /\ h[kid] \in Nat /\ h[w] = h[kid] + Black01(t, w) BY <1>5, <1>16, <2>2
  <2>8. ~(IsRed(t, w) /\ IsRed(t, kid)) /\ kid \in DOMAIN t.mem /\ kid \in Nodes BY <1>1, <1>3, <1>6, <1>16, <2>2
  <2>9. CASE kid # subst
    <3>1. CASE kid = x
      <4>1. y = subst /\ subst # x BY <2>3, <2>9, <3>1 DEF Heired
      <4>2. k[y] = h[kid] BY <1>10, <3>1, <4>1
      <4>3. IsRed(u, y) <=> IsRed(t, kid)
        <5>1. subst \in DOMAIN t.mem \ {x} /\ Before(x, subst, subst) = x BY <1>7, <1>9, <4>1 DEF Before
        <5> QED BY <1>11, <3>1, <4>1, <5>1
      <4> QED BY <2>2, <2>3, <2>4, <2>5, <2>6, <2>7, <2>8, <2>9, <4>2, <4>3
    <3>2. CASE kid # x
      <4>1. y = kid BY <2>3, <2>9, <3>2 DEF Heired
      <4>2. k[y] = h[kid] BY <1>10, <2>8, <2>9, <3>2, <4>1
      <4>3. IsRed(u, y) <=> IsRed(t, kid)
        <5>1. kid \in DOMAIN t.mem \ {x} /\ Before(x, subst, kid) = kid BY <2>8, <2>9, <3>2 DEF Before
        <5> QED BY <1>11, <4>1, <5>1
      <4> QED BY <2>2, <2>3, <2>4, <2>5, <2>6, <2>7, <2>8, <2>9, <4>2, <4>3
    <3> QED BY <3>1, <3>2
  <2>10. CASE kid = subst
    <3>1. y = temp BY <2>3, <2>10 DEF Heired
    <3>2. k[temp] = h[temp] BY <1>7, <1>9, <1>10
    <3>3. d \in Sides /\ temp = t.mem[subst][d] BY <1>1, ChosenFacts
    <3>4. h[temp] \in Nat /\ h[subst] = h[temp] + Black01(t, subst) BY <1>5, <1>7, <3>3
    <3>5. Black01(t, w) \in {0, 1} /\ Black01(t, subst) \in {0, 1} BY DEF Black01
    <3>6. k[z] = k[y] + Black01(u, z) + Black01(t, subst)
      BY <2>5, <2>6, <2>7, <2>10, <3>1, <3>2, <3>4, <3>5
    <3> QED BY <2>2, <2>3, <2>4, <2>8, <2>10, <3>1, <3>6
  <2> QED BY <2>9, <2>10
<1>17. \A z \in ArmedIn(u), s \in Sides :
                 LET w == Before(x, subst, z)  kid == t.mem[w][s]  y == u.mem[z][s] IN
                 /\ w \in ArmedIn(t) /\ w # subst /\ y = Heired(x, subst, temp, kid)
                 /\ kid # subst => k[z] = k[y] + Black01(u, z) /\ ~(IsRed(u, z) /\ IsRed(u, y))
                 /\ kid = subst => /\ y = temp /\ k[z] = k[y] + Black01(u, z) + Black01(t, subst)
                                   /\ ~(IsRed(t, subst) /\ IsRed(u, z))
  BY <1>16
<1> QED BY <1>10, <1>11, <1>13, <1>14, <1>15, <1>17

(* A red node leaves no way short, ...                                      *)
LEMMA RedRemoved ==
    ASSUME NEW t, NEW b, NEW old, NEW h, NEW x, NEW subst, NEW temp, NEW d, NEW u, NEW c, NEW new, NEW k,
           Removed(t, b, old, h, x, subst, temp, d, u, c, new, k), subst # t.root, IsRed(t, subst)
    PROVE  Settled(u, c, new, k)
<1>1. Struct(u, c, new) BY RemovedFacts
<1>2. /\ k \in [Nodes -> Nat] /\ (\A z \in Nodes \ ArmedIn(u) : k[z] = 0)
      /\ ~IsRed(u, Sentinel) /\ ~IsRed(u, u.root)
  BY PlaceRemoved
<1>3. ASSUME NEW z \in ArmedIn(u), NEW s \in Sides
      PROVE  k[z] = k[u.mem[z][s]] + Black01(u, z) /\ ~(IsRed(u, z) /\ IsRed(u, u.mem[z][s]))
  <2>1. PICK kid : kid = t.mem[Before(x, subst, z)][s] OBVIOUS
  <2>2. PICK y : y = u.mem[z][s] OBVIOUS
  <2>3. /\ kid # subst => k[z] = k[y] + Black01(u, z) /\ ~(IsRed(u, z) /\ IsRed(u, y))
        /\ kid = subst => /\ k[z] = k[y] + Black01(u, z) + Black01(t, subst)
                          /\ ~(IsRed(t, subst) /\ IsRed(u, z))
    BY <2>1, <2>2, PlaceRemoved
  <2>4. Black01(t, subst) = 0 /\ Black01(u, z) \in {0, 1} BY BlackNumbers
  <2>5. k[y] \in Nat
    <3>1. Hangs(u, c) /\ DOMAIN u.mem \subseteq Nodes BY <1>1 DEF Struct
    <3>2. u.mem[z][s] \in DOMAIN u.mem BY <3>1, KidFacts
    <3> QED BY <1>2, <2>2, <3>1, <3>2
  <2>6. k[z] = k[y] + Black01(u, z) BY <2>3, <2>4, <2>5
  <2> QED BY <2>2, <2>3, <2>6
<1>4. ColorsIn(u, "none", Null) BY <1>2, <1>3 DEF ColorsIn
<1>5. HeightsIn(u, k, Null, "left")
  <2>1. ASSUME NEW z \in ArmedIn(u), NEW s \in Sides
        PROVE  z \in Nodes /\ u.mem[z][s] \in Nodes /\ z # Null
    <3>1. Hangs(u, c) /\ DOMAIN u.mem \subseteq Nodes BY <1>1 DEF Struct
    <3>2. u.mem[z][s] \in DOMAIN u.mem BY <3>1, KidFacts
    <3>3. z \in Nodes /\ z # Null BY <1>1, NullIsNoNode
    <3> QED BY <3>1, <3>2, <3>3
  <2>2. \A z \in ArmedIn(u), s \in Sides :
           z \in Nodes /\ u.mem[z][s] \in Nodes /\ z # Null /\ k[z] = k[u.mem[z][s]] + Black01(u, z)
    BY <1>3, <2>1
  <2> QED BY <1>2, <2>2, WholeFrom
<1> QED BY <1>1, <1>4, <1>5 DEF Settled

(* ... a black one the way on which it was.                                 *)
LEMMA BlackRemoved ==
    ASSUME NEW t, NEW b, NEW old, NEW h, NEW x, NEW subst, NEW temp, NEW d, NEW u, NEW c, NEW new, NEW k,
           Removed(t, b, old, h, x, subst, temp, d, u, c, new, k), subst # t.root, ~IsRed(t, subst)
    PROVE  DeleteAt(u, c, new, k, temp)
<1>1. /\ Struct(u, c, new) /\ ArmedIn(u) = ArmedIn(t) \ {x} /\ DOMAIN u.mem = DOMAIN t.mem \ {x}
      /\ Chosen(t, b, old, x, subst, temp, d)
      /\ u.root = Heired(x, subst, temp, t.root) /\ Hangs(t, b)
  BY RemovedFacts
<1>1a. Excised(t, x, subst, temp, u) /\ t.root \in ArmedIn(t) BY RemovedFacts
<1>2. /\ k \in [Nodes -> Nat] /\ (\A z \in Nodes \ ArmedIn(u) : k[z] = 0)
      /\ ~IsRed(u, Sentinel) /\ ~IsRed(u, u.root)
  BY PlaceRemoved
<1>3. /\ x \in ArmedIn(t) /\ subst \in ArmedIn(t) /\ temp \in DOMAIN t.mem /\ temp # x /\ temp # subst
      /\ (temp # Sentinel => temp # t.root)
  BY <1>1, ChosenFacts
<1>4. temp # u.root BY <1>1, <1>1a, <1>3 DEF Heired, ArmedIn
<1>5. PICK p : p = Parent(t, subst) OBVIOUS
<1>6. PICK r : r = Side(t, subst) OBVIOUS
<1>7. PICK q : q = Renamed(x, subst, p) OBVIOUS
<1>8. p \in ArmedIn(t) /\ r \in Sides /\ subst = t.mem[p][r] /\ p # subst BY <1>1, <1>3, <1>5, <1>6, Above
<1>9. q \in ArmedIn(u) /\ Before(x, subst, q) = p
  <2>1. q \in ArmedIn(t) \ {x} BY <1>3, <1>7, <1>8 DEF Renamed
  <2> QED BY <1>1, <1>7, <1>8, <2>1, RenamedBefore
<1>10. Parent(u, temp) = q BY <1>1a, <1>5, <1>7 DEF Excised
<1>11. ASSUME NEW z \in ArmedIn(u), NEW s \in Sides
       PROVE  /\ z = q /\ s = r => u.mem[z][s] = temp /\ k[z] = k[u.mem[z][s]] + Black01(u, z) + 1
              /\ ~(z = q /\ s = r) => k[z] = k[u.mem[z][s]] + Black01(u, z)
              /\ IsRed(u, z) /\ IsRed(u, u.mem[z][s]) => u.mem[z][s] = temp
  <2>1. PICK kid : kid = t.mem[Before(x, subst, z)][s] OBVIOUS
  <2>2. PICK y : y = u.mem[z][s] OBVIOUS
  <2>3. /\ kid # subst => k[z] = k[y] + Black01(u, z) /\ ~(IsRed(u, z) /\ IsRed(u, y))
        /\ kid = subst => y = temp /\ k[z] = k[y] + Black01(u, z) + Black01(t, subst)
        /\ Before(x, subst, z) \in ArmedIn(t) /\ Before(x, subst, z) # subst
    BY <2>1, <2>2, PlaceRemoved
  <2>4. Black01(t, subst) = 1 BY BlackNumbers
  <2>5. kid = subst <=> z = q /\ s = r
    <3>1. ASSUME z = q, s = r PROVE kid = subst BY <1>8, <1>9, <2>1, <3>1
    <3>2. ASSUME kid = subst PROVE z = q /\ s = r
      <4>1. subst # Sentinel BY <1>3 DEF ArmedIn
      <4>2. Parent(t, subst) = Before(x, subst, z) /\ Side(t, subst) = s
        <5>1. PICK w : w = Before(x, subst, z) OBVIOUS
        <5>2. w \in ArmedIn(t) /\ subst = t.mem[w][s] BY <2>1, <2>3, <3>2, <5>1
        <5>3. Parent(t, subst) = w /\ Side(t, subst) = s BY <1>1, <4>1, <5>2, Below
        <5> QED BY <5>1, <5>3
      <4>3. z # x BY <1>1
      <4>4. Renamed(x, subst, Before(x, subst, z)) = z BY <4>3, RenamedBefore
      <4> QED BY <1>5, <1>6, <1>7, <4>2, <4>4
    <3> QED BY <3>1, <3>2
  <2> QED BY <2>2, <2>3, <2>4, <2>5
<1>12. \A z \in ArmedIn(u), s \in Sides : z \in Nodes /\ u.mem[z][s] \in Nodes /\ k[u.mem[z][s]] \in Nat
  <2>1. Hangs(u, c) /\ DOMAIN u.mem \subseteq Nodes BY <1>1 DEF Struct
  <2>2. \A z \in ArmedIn(u), s \in Sides : u.mem[z][s] \in DOMAIN u.mem BY <2>1, KidFacts
  <2> QED BY <1>2, <2>1, <2>2 DEF ArmedIn
<1>13. u.mem[q][r] = temp BY <1>8, <1>9, <1>11
<1>14. u.mem[q][Other(r)] # temp
  <2>1. SUFFICES ASSUME u.mem[q][Other(r)] = temp PROVE FALSE OBVIOUS
  <2>2. Other(r) \in Sides /\ Other(r) # r BY <1>8, SideFacts
  <2>3. k[q] = k[temp] + Black01(u, q) + 1 BY <1>8, <1>9, <1>11, <1>13
  <2>4. k[q] = k[temp] + Black01(u, q) BY <1>9, <1>11, <2>1, <2>2
  <2>5. k[temp] \in Nat BY <1>8, <1>9, <1>12, <1>13
  <2>6. Black01(u, q) \in {0, 1} BY DEF Black01
  <2> QED BY <2>3, <2>4, <2>5, <2>6
<1>15. Side(u, temp) = r BY <1>8, <1>10, <1>13, <1>14, SideIs
<1>16. HeightsIn(u, k, q, r)
  <2>1. \A z \in ArmedIn(u), s \in Sides :
              /\ z \in Nodes /\ u.mem[z][s] \in Nodes
              /\ ~(z = q /\ s = r) => k[z] = k[u.mem[z][s]] + Black01(u, z)
              /\ z = q /\ s = r => k[z] = k[u.mem[z][s]] + Black01(u, z) + 1
    BY <1>11, <1>12
  <2> QED BY <1>2, <2>1, HeightsFrom
<1>17. ColorsIn(u, "delete", temp)
  <2>1. \A z \in ArmedIn(u), s \in Sides :
           IsRed(u, z) /\ IsRed(u, u.mem[z][s]) => Exempt("delete", temp, z, u.mem[z][s])
    BY <1>11 DEF Exempt
  <2> QED BY <1>2, <2>1 DEF ColorsIn
<1>18. temp \in DOMAIN u.mem BY <1>1, <1>3
<1> QED BY <1>1, <1>4, <1>8, <1>9, <1>10, <1>13, <1>15, <1>16, <1>17, <1>18 DEF DeleteAt

-----------------------------------------------------------------------------
(* rbtree_min, and the invariant.                                           *)

(* A node with a leaf on one side leaves the kid on the other.              *)
LEMMA HeirSide ==
    ASSUME NEW t, NEW y, NEW l, l = t.mem[y].left, NEW r, r = t.mem[y].right, l = Sentinel \/ r = Sentinel
    PROVE  \E d \in Sides : Heir(t, y) = t.mem[y][d] /\ t.mem[y][Other(d)] = Sentinel
<1>1. CASE l = Sentinel
  <2>1. "right" \in Sides /\ Other("right") = "left" BY DEF Sides, Other
  <2> QED BY <1>1, <2>1 DEF Heir
<1>2. CASE l # Sentinel
  <2>1. "left" \in Sides /\ Other("left") = "right" BY DEF Sides, Other
  <2> QED BY <1>2, <2>1 DEF Heir
<1> QED BY <1>1, <1>2

(* rbtree_min, on its way down from a node, is at a: what is below a comes  *)
(* before all else below that node.                                         *)
Seeks(t, b, old, from, a) ==
    /\ from \in ArmedIn(t) /\ a \in b[from]
    /\ \A x \in b[a], y \in b[from] \ b[a] : Bef(t, old, x, y)

(* rbtree_min starts.                                                       *)
LEMMA SeeksFrom ==
    ASSUME NEW t, NEW b, NEW old, Hangs(t, b), NEW from \in ArmedIn(t)
    PROVE  Seeks(t, b, old, from, from)
BY InItself DEF Seeks

(* What it knows of the node it is at.                                      *)
LEMMA SeeksAt ==
    ASSUME NEW t, NEW b, NEW old, Struct(t, b, old), NEW from, NEW a, Seeks(t, b, old, from, a)
    PROVE  /\ a \in ArmedIn(t) /\ from \in ArmedIn(t) /\ Hangs(t, b)
           /\ b[from] \subseteq ArmedIn(t) /\ b[a] \subseteq b[from] /\ a \in b[a]
           /\ b[a] = {a} \cup b[t.mem[a].left] \cup b[t.mem[a].right]
           /\ \A y \in b[t.mem[a].left] : Bef(t, old, y, a)
           /\ \A y \in b[t.mem[a].right] : Bef(t, old, a, y)
<1>1. Hangs(t, b) /\ SortedIn(t, b, old) BY DEF Struct
<1>2. from \in ArmedIn(t) /\ a \in b[from] BY DEF Seeks
<1>3. b[from] \subseteq ArmedIn(t) /\ Closed(t, b, from) BY <1>1, <1>2 DEF Hangs
<1>4. a \in ArmedIn(t) /\ b[a] \subseteq b[from] BY <1>2, <1>3 DEF Closed
<1>5. a \in b[a] BY <1>1, <1>4, InItself
<1>6. "left" \in Sides /\ "right" \in Sides /\ Other("left") = "right" BY DEF Sides, Other
<1>7. b[a] = {a} \cup b[t.mem[a].left] \cup b[t.mem[a].right]
  <2>1. b[a] = {a} \cup b[t.mem[a]["left"]] \cup b[t.mem[a][Other("left")]] BY <1>1, <1>4, <1>6, KidFacts
  <2> QED BY <1>6, <2>1
<1>8. (\A y \in b[t.mem[a].left] : Bef(t, old, y, a)) /\ (\A y \in b[t.mem[a].right] : Bef(t, old, a, y))
  BY <1>1, <1>4, <1>6 DEF SortedIn, InOrder
<1> QED BY <1>1, <1>2, <1>3, <1>4, <1>5, <1>7, <1>8

(* It goes down to the left, ...                                            *)
LEMMA SeeksDown ==
    ASSUME NEW t, NEW b, NEW old, Struct(t, b, old), NEW from, NEW a, Seeks(t, b, old, from, a),
           t.mem[a].left # Sentinel
    PROVE  Seeks(t, b, old, from, t.mem[a].left)
<1>1. /\ a \in ArmedIn(t) /\ from \in ArmedIn(t) /\ Hangs(t, b)
      /\ b[from] \subseteq ArmedIn(t) /\ b[a] \subseteq b[from]
      /\ b[a] = {a} \cup b[t.mem[a].left] \cup b[t.mem[a].right]
  BY SeeksAt
<1>2. /\ \A y \in b[t.mem[a].left] : Bef(t, old, y, a)
      /\ \A y \in b[t.mem[a].right] : Bef(t, old, a, y)
  BY SeeksAt
<1>3. PICK l : l = t.mem[a].left OBVIOUS
<1>4. l \in ArmedIn(t)
  <2>1. "left" \in Sides BY DEF Sides
  <2> QED BY <1>1, <1>3, <2>1, Below
<1>5. l \in b[l] BY <1>1, <1>4, InItself
<1>6. KeysOf(t) /\ Ages(ArmedIn(t), old) BY DEF Struct
<1>7. ASSUME NEW x \in b[l], NEW y \in b[from] \ b[l] PROVE Bef(t, old, x, y)
  <2>1. x \in b[a] /\ x \in ArmedIn(t) /\ y \in ArmedIn(t) BY <1>1, <1>3, <1>7
  <2>2. CASE y \notin b[a] BY <2>1, <2>2, <1>7 DEF Seeks
  <2>3. CASE y = a BY <1>2, <1>3, <1>7, <2>3
  <2>4. CASE y \in b[t.mem[a].right]
    <3>1. Bef(t, old, x, a) /\ Bef(t, old, a, y) BY <1>2, <1>3, <1>7, <2>4
    <3> QED BY <1>1, <1>6, <2>1, <3>1, BefTransitive
  <2> QED BY <1>1, <1>3, <1>7, <2>2, <2>3, <2>4
<1> QED BY <1>1, <1>3, <1>5, <1>7 DEF Seeks

(* ... and what it finds comes before all else below where it started.      *)
LEMMA SeeksEnd ==
    ASSUME NEW t, NEW b, NEW old, Struct(t, b, old), NEW from, NEW a, Seeks(t, b, old, from, a),
           t.mem[a].left = Sentinel
    PROVE  a \in ArmedIn(t) /\ \A y \in b[from] \ {a} : Bef(t, old, a, y)
<1>1. /\ a \in ArmedIn(t) /\ a \in b[a] /\ Hangs(t, b)
      /\ b[a] = {a} \cup b[t.mem[a].left] \cup b[t.mem[a].right]
      /\ \A y \in b[t.mem[a].right] : Bef(t, old, a, y)
  BY SeeksAt
<1>2. b[t.mem[a].left] = {} BY <1>1 DEF Hangs
<1>3. ASSUME NEW y \in b[from] \ {a} PROVE Bef(t, old, a, y)
  <2>1. CASE y \in b[a] BY <1>1, <1>2, <1>3, <2>1
  <2>2. CASE y \notin b[a] BY <1>1, <1>3, <2>2 DEF Seeks
  <2> QED BY <2>1, <2>2
<1> QED BY <1>1, <1>3

(* Where rbtree_min started.                                                *)
From == IF node = Null THEN tree.root ELSE tree.mem[node].right

(* The registers of the loops.                                              *)
Vars ==
    /\ job \in {"none", "descend", "insert", "min", "delete"}
    /\ node \in Ev \cup {Null} /\ key \in Keys \cup {0}
    /\ older \in [Ev -> SUBSET Ev]

(* The tree, as the loop that runs has it: settled, a red node that may     *)
(* have a red parent, or ways down to a node that are one black node short. *)
Shape ==
    /\ job \in {"none", "descend", "min"} => Settled(tree, below, older, height)
    /\ job = "insert" => InsertAt(tree, below, older, height, at)
    /\ job = "delete" => DeleteAt(tree, below, older, height, at)

(* What the ways down have passed: a new key belongs below the node the     *)
(* insertion is at, and what rbtree_min seeks is below the one it is at.    *)
Work ==
    /\ job = "none" => node = Null /\ at = Null
    /\ job = "descend" => /\ at \in Armed /\ Comes(Armed, older, node)
                          /\ key \in Keys /\ Fits(tree, below, key, at)
    /\ job = "min" => /\ Seeks(tree, below, older, From, at)
                      /\ node # Null => /\ node \in Armed
                                        /\ Sentinel \notin {tree.mem[node].left, tree.mem[node].right}

(* The inductive invariant.                                                 *)
IInv == Vars /\ Shape /\ Work

(* The nodes of the tree.                                                   *)
LEMMA ArmedIs == Armed = ArmedIn(tree) /\ Armed' = ArmedIn(tree')
BY DEF Armed, ArmedIn

(* The tree hangs together and is sorted between any two turns.             *)
LEMMA AlwaysStruct ==
    ASSUME IInv PROVE Struct(tree, below, older)
BY DEF IInv, Vars, Shape, Settled, InsertAt, DeleteAt

(* The empty tree.                                                          *)
LEMMA InitIInv == Init => IInv
<1> SUFFICES ASSUME Init PROVE IInv OBVIOUS
<1>1. /\ tree = EmptyTree /\ job = "none" /\ node = Null /\ key = 0 /\ at = Null
      /\ below = [x \in Nodes |-> {}] /\ height = [x \in Nodes |-> 0]
      /\ older = [x \in Ev |-> {}]
  BY DEF Init, Nodes
<1>2. /\ DOMAIN tree = {"root", "mem"} /\ tree.root = Sentinel /\ DOMAIN tree.mem = {Sentinel}
      /\ tree.mem[Sentinel] = [key |-> 0, left |-> Null, right |-> Null, parent |-> Null, color |-> Black]
  BY <1>1 DEF EmptyTree
<1>3. IsTree(tree) BY <1>2 DEF IsTree, Fields
<1>4. ArmedIn(tree) = {} /\ Sentinel \in Nodes BY <1>2 DEF ArmedIn, Nodes
<1>5. Hangs(tree, below) BY <1>1, <1>2, <1>4 DEF Hangs
<1>6. Typed(tree) BY <1>2 DEF Typed, Parent
<1>7. KeysOf(tree) /\ Ages(ArmedIn(tree), older) /\ SortedIn(tree, below, older)
  BY <1>1, <1>4 DEF KeysOf, Ages, SortedIn
<1>8. Struct(tree, below, older)
  <2>1. below \in [Nodes -> SUBSET Ev] /\ DOMAIN tree.mem \subseteq Nodes BY <1>1, <1>2, <1>4
  <2> QED BY <1>3, <1>5, <1>6, <1>7, <2>1 DEF Struct
<1>9. HeightsIn(tree, height, Null, "left") BY <1>1, <1>4 DEF HeightsIn
<1>10. ~IsRed(tree, Sentinel) BY <1>2 DEF IsRed, Red, Black
<1>11. ColorsIn(tree, "none", Null) BY <1>2, <1>4, <1>10 DEF ColorsIn
<1>12. Settled(tree, below, older, height) BY <1>8, <1>9, <1>11 DEF Settled
<1>13. Vars BY <1>1 DEF Vars
<1>14. Shape BY <1>1, <1>12 DEF Shape
<1>15. Work BY <1>1 DEF Work
<1> QED BY <1>13, <1>14, <1>15 DEF IInv

-----------------------------------------------------------------------------
(* The steps.                                                               *)

(* Where no loop writes, the tree is settled.                               *)
LEMMA SettledIs ==
    ASSUME IInv, job \in {"none", "descend", "min"}
    PROVE  Settled(tree, below, older, height) /\ Struct(tree, below, older)
BY AlwaysStruct DEF IInv, Shape

(* What is under way once a function has returned.                          *)
LEMMA ReturnsKeeps ==
    ASSUME Returns, Settled(tree', below', older', height'), older' \in [Ev -> SUBSET Ev]
    PROVE  IInv'
<1>1. job' = "none" /\ node' = Null /\ key' = 0 /\ at' = Null BY DEF Returns
<1>2. Vars' BY <1>1 DEF Vars
<1>3. Shape' BY <1>1 DEF Shape
<1>4. Work' BY <1>1 DEF Work
<1> QED BY <1>2, <1>3, <1>4 DEF IInv

(* rbtree_insert is called.                                                 *)
LEMMA InsertKeeps ==
    ASSUME IInv, NEW x \in Ev, NEW k \in Keys, Insert(x, k) PROVE IInv'
<1>1. job = "none" /\ x \in Ev /\ x \notin ArmedIn(tree) /\ older' = [older EXCEPT ![x] = ArmedIn(tree)]
  BY ArmedIs DEF Insert
<1>2. older \in [Ev -> SUBSET Ev] /\ node = Null /\ at = Null /\ key \in Keys \cup {0} BY <1>1 DEF IInv, Vars, Work
<1>3. Settled(tree, below, older, height) /\ Struct(tree, below, older) BY <1>1, SettledIs
<1>4. Hangs(tree, below) /\ Ages(ArmedIn(tree), older) /\ SortedIn(tree, below, older)
      /\ DOMAIN tree.mem \subseteq Nodes
  BY <1>3 DEF Struct
<1>5. CASE /\ tree.root = Sentinel
           /\ tree' = Planted(tree, x, k)
           /\ below' = [below EXCEPT ![x] = {x}]
           /\ height' = [height EXCEPT ![x] = 1]
           /\ UNCHANGED <<job, node, key, at>>
  <2>1. Settled(tree', below', older', height')
    <3>1. Planting(tree, below, older, height, x, k, tree', below', older', height')
      BY <1>1, <1>2, <1>3, <1>5 DEF Planting
    <3> QED BY <3>1, Plants
  <2>2. older' \in [Ev -> SUBSET Ev]
    <3>1. ArmedIn(tree) \subseteq Ev BY <1>4 DEF ArmedIn, Nodes
    <3> QED BY <1>1, <1>2, <3>1
  <2>3. job' = "none" /\ node' = Null /\ key' \in Keys \cup {0} /\ at' = Null BY <1>1, <1>2, <1>5
  <2>4. Vars' BY <2>2, <2>3 DEF Vars
  <2>5. Shape' BY <2>1, <2>3 DEF Shape
  <2>6. Work' BY <2>3 DEF Work
  <2> QED BY <2>4, <2>5, <2>6 DEF IInv
<1>6. CASE /\ tree.root # Sentinel
           /\ job' = "descend" /\ node' = x /\ key' = k /\ at' = tree.root
           /\ UNCHANGED <<tree, below, height>>
  <2>1. ArmedIn(tree) \subseteq Ev BY <1>4 DEF ArmedIn, Nodes
  <2>2. /\ older' \in [Ev -> SUBSET Ev] /\ Ages(ArmedIn(tree), older') /\ Comes(ArmedIn(tree), older', x)
        /\ \A y \in ArmedIn(tree) : older'[y] = older[y]
    BY <1>1, <1>2, <1>4, <2>1, AgesStart
  <2>3. SortedIn(tree, below, older') BY <1>4, <2>2, SameAgesSorted
  <2>4. Struct(tree, below, older') BY <1>3, <2>2, <2>3 DEF Struct
  <2>5. Settled(tree, below, older', height) BY <1>3, <2>4 DEF Settled
  <2>6. Fits(tree, below, k, tree.root) BY <1>4, FitsRoot
  <2>7. tree.root \in Armed BY <1>4, <1>6 DEF Hangs, Armed
  <2>8. Vars' BY <1>6, <2>2 DEF Vars
  <2>9. Shape' BY <1>6, <2>5 DEF Shape
  <2>10. Work' BY <1>6, <2>2, <2>6, <2>7, ArmedIs DEF Work
  <2> QED BY <2>8, <2>9, <2>10 DEF IInv
<1> QED BY <1>5, <1>6 DEF Insert

(* rbtree_insert_timer_value goes down one node, or hangs the new one.      *)
LEMMA DescendKeeps ==
    ASSUME IInv, Descend PROVE IInv'
<1>1. job = "descend" /\ UNCHANGED <<node, key, height, older>> BY DEF Descend
<1>2. /\ at \in ArmedIn(tree) /\ Comes(ArmedIn(tree), older, node)
      /\ key \in Keys /\ Fits(tree, below, key, at)
  BY <1>1, ArmedIs DEF IInv, Work
<1>3. Settled(tree, below, older, height) /\ Struct(tree, below, older) BY <1>1, SettledIs
<1>4. Hangs(tree, below) /\ KeysOf(tree) BY <1>3 DEF Struct
<1>5. older \in [Ev -> SUBSET Ev] /\ node \in Ev \cup {Null} BY DEF IInv, Vars
<1>6. CASE /\ tree.mem[at][Way(tree, at, key)] # Sentinel
           /\ at' = tree.mem[at][Way(tree, at, key)]
           /\ UNCHANGED <<tree, job, below>>
  <2>1. at' \in ArmedIn(tree) /\ Fits(tree, below, key, at') BY <1>2, <1>4, <1>6, FitsDown
  <2>2. Vars' BY <1>1, <1>2, <1>5, <1>6 DEF Vars
  <2>3. Shape' BY <1>1, <1>3, <1>6 DEF Shape
  <2>4. Work' BY <1>1, <1>2, <1>6, <2>1, ArmedIs DEF Work
  <2> QED BY <2>2, <2>3, <2>4 DEF IInv
<1>7. CASE /\ tree.mem[at][Way(tree, at, key)] = Sentinel
           /\ tree' = Hung(tree, node, key, at)
           /\ below' = [y \in Ev \cup {Sentinel} |->
                           IF y = node THEN {node}
                           ELSE IF at \in below[y] THEN below[y] \cup {node} ELSE below[y]]
           /\ job' = "insert" /\ at' = node
  <2>1. PICK d : d = Way(tree, at, key) OBVIOUS
  <2>2. Hanging(tree, below, older, height, at, node, key, d, tree', below')
    BY <1>2, <1>3, <1>7, <2>1 DEF Hanging, Nodes
  <2>3. InsertAt(tree', below', older, height, node) BY <2>2, HangsNew
  <2>4. Vars' BY <1>1, <1>2, <1>5, <1>7 DEF Vars
  <2>5. Shape' BY <1>1, <1>7, <2>3 DEF Shape
  <2>6. Work' BY <1>7 DEF Work
  <2> QED BY <2>4, <2>5, <2>6 DEF IInv
<1> QED BY <1>6, <1>7 DEF Descend

(* A turn of the loop of rbtree_insert, one case of its body each.          *)
LEMMA InsertTurnKeeps ==
    ASSUME IInv, InsertTurn PROVE IInv'
<1>1. job = "insert" /\ InsertLoops(tree, at) /\ UNCHANGED <<job, node, key, older>> BY DEF InsertTurn
<1>2. InsertAt(tree, below, older, height, at) BY <1>1 DEF IInv, Shape
<1>3. SUFFICES InsertAt(tree', below', older, height', at')
  <2>1. Vars' BY <1>1 DEF IInv, Vars
  <2>2. Shape' BY <1>1, <1>3 DEF Shape
  <2>3. Work' BY <1>1 DEF Work
  <2> QED BY <2>1, <2>2, <2>3 DEF IInv
<1>4. PICK p : p = Parent(tree, at) OBVIOUS
<1>5. PICK g : g = Grandparent(tree, at) OBVIOUS
<1>6. PICK uncle : uncle = Uncle(tree, at) OBVIOUS
<1>7. CASE /\ IsRed(tree, uncle)
           /\ tree' = Climbed(tree, at)
           /\ at' = g
           /\ height' = [height EXCEPT ![p] = @ + 1, ![uncle] = @ + 1]
           /\ UNCHANGED below
  BY <1>1, <1>2, <1>4, <1>5, <1>6, <1>7, Climb
<1>8. CASE /\ ~IsRed(tree, uncle) /\ IsBent(tree, at)
           /\ tree' = Rotate(tree, p, Side(tree, p))
           /\ at' = p
           /\ Rotation(p, Side(tree, p))
           /\ UNCHANGED height
  <2>1. below' = Turned(tree, below, p, Side(tree, p)) BY <1>8 DEF Rotation, Turned
  <2> QED BY <1>1, <1>2, <1>4, <1>8, <2>1, InsertBent
<1>9. CASE /\ ~IsRed(tree, uncle) /\ ~IsBent(tree, at)
           /\ tree' = InsertRotated(tree, at)
           /\ Rotation(g, Other(Side(tree, p)))
           /\ height' = [height EXCEPT ![p] = @ + 1, ![g] = @ - 1]
           /\ UNCHANGED at
  <2>1. below' = Turned(tree, below, g, Other(Side(tree, p))) BY <1>9 DEF Rotation, Turned
  <2> QED BY <1>1, <1>2, <1>4, <1>5, <1>6, <1>9, <2>1, InsertTurned
<1> QED BY <1>4, <1>5, <1>6, <1>7, <1>8, <1>9 DEF InsertTurn

(* rbtree_insert returns.                                                   *)
LEMMA InsertDoneKeeps ==
    ASSUME IInv, InsertDone PROVE IInv'
<1>1. /\ job = "insert" /\ ~InsertLoops(tree, at) /\ tree' = Paint(tree, tree.root, Black)
      /\ height' = [height EXCEPT ![tree.root] = IF IsRed(tree, tree.root) THEN @ + 1 ELSE @]
      /\ Returns /\ below' = below /\ older' = older
  BY DEF InsertDone
<1>2. InsertAt(tree, below, older, height, at) BY <1>1 DEF IInv, Shape
<1>3. Settled(tree', below, older, height') BY <1>1, <1>2, InsertEnds
<1>4. older \in [Ev -> SUBSET Ev] BY DEF IInv, Vars
<1> QED BY <1>1, <1>3, <1>4, ReturnsKeeps

(* rbtree_delete takes a node out, and starts its loop if that was black.   *)
LEMMA TakeOutKeeps ==
    ASSUME IInv, job \in {"none", "min"}, NEW x, NEW subst, TakeOut(x, subst),
           NEW temp, temp = Heir(tree, subst), NEW d, Chosen(tree, below, older, x, subst, temp, d)
    PROVE  IInv' /\ Armed' = Armed \ {x}
<1>1. Settled(tree, below, older, height) BY SettledIs
<1>2. /\ tree' = TakenOut(tree, x, subst) /\ below' = LessBelow(below, x, subst)
      /\ older' = [y \in Ev |-> IF y = x THEN {} ELSE older[y] \ {x}]
  BY DEF TakeOut, LessBelow, Nodes
<1>3. height' = Lowered(tree, height, x, subst, temp) BY DEF TakeOut, Lowered
<1>4. Removed(tree, below, older, height, x, subst, temp, d, tree', below', older', height')
  BY <1>1, <1>2, <1>3 DEF Removed
<1>5. ArmedIn(tree') = ArmedIn(tree) \ {x} BY <1>4, RemovedFacts
<1>6. older' \in [Ev -> SUBSET Ev] BY <1>2 DEF IInv, Vars
<1>7. CASE subst = tree.root \/ IsRed(tree, subst)
  <2>1. Returns BY <1>7 DEF TakeOut
  <2>2. Settled(tree', below', older', height') BY <1>4, <1>7, RootRemoved, RedRemoved
  <2> QED BY <1>5, <1>6, <2>1, <2>2, ReturnsKeeps, ArmedIs
<1>8. CASE subst # tree.root /\ ~IsRed(tree, subst)
  <2>1. job' = "delete" /\ node' = Null /\ key' = 0 /\ at' = temp BY <1>8 DEF TakeOut
  <2>2. DeleteAt(tree', below', older', height', temp) BY <1>4, <1>8, BlackRemoved
  <2>3. Vars' BY <1>6, <2>1 DEF Vars
  <2>4. Shape' BY <2>1, <2>2 DEF Shape
  <2>5. Work' BY <2>1 DEF Work
  <2> QED BY <1>5, <2>3, <2>4, <2>5, ArmedIs DEF IInv
<1> QED BY <1>7, <1>8

(* rbtree_delete is called.                                                 *)
LEMMA DeleteKeeps ==
    ASSUME IInv, NEW x \in Ev, Delete(x) PROVE IInv'
<1>1. job = "none" /\ x \in ArmedIn(tree) BY ArmedIs DEF Delete
<1>2. Settled(tree, below, older, height) /\ Struct(tree, below, older) BY <1>1, SettledIs
<1>3. CASE Sentinel \in {tree.mem[x].left, tree.mem[x].right} /\ TakeOut(x, x)
  <2>1. PICK temp : temp = Heir(tree, x) OBVIOUS
  <2>2. PICK d \in Sides : temp = tree.mem[x][d] /\ tree.mem[x][Other(d)] = Sentinel
    <3>1. \E d \in Sides : Heir(tree, x) = tree.mem[x][d] /\ tree.mem[x][Other(d)] = Sentinel
      <4>1. tree.mem[x].left = Sentinel \/ tree.mem[x].right = Sentinel BY <1>3
      <4> QED BY <4>1, HeirSide
    <3> QED BY <2>1, <3>1
  <2>3. Chosen(tree, below, older, x, x, temp, d) BY <1>1, <1>2, <2>2 DEF Chosen
  <2> QED BY <1>1, <1>3, <2>1, <2>3, TakeOutKeeps
<1>4. CASE /\ Sentinel \notin {tree.mem[x].left, tree.mem[x].right}
           /\ job' = "min" /\ node' = x /\ at' = tree.mem[x].right
           /\ UNCHANGED <<tree, key, below, height, older>>
  <2>1. Hangs(tree, below) BY <1>2 DEF Struct
  <2>2. tree.mem[x].right \in ArmedIn(tree)
    <3>1. "right" \in Sides BY DEF Sides
    <3> QED BY <1>1, <1>4, <2>1, <3>1, Below
  <2>3. Seeks(tree, below, older, tree.mem[x].right, tree.mem[x].right) BY <2>1, <2>2, SeeksFrom
  <2>4. x # Null BY <1>1, <1>2, NullIsNoNode
  <2>5. From' = tree.mem[x].right BY <1>4, <2>4 DEF From
  <2>6. Vars' BY <1>4 DEF IInv, Vars
  <2>7. Shape' BY <1>2, <1>4 DEF Shape
  <2>8. Work' BY <1>1, <1>4, <2>3, <2>5, ArmedIs DEF Work
  <2> QED BY <2>6, <2>7, <2>8 DEF IInv
<1> QED BY <1>3, <1>4 DEF Delete

(* expire_timers looks for the first node.                                  *)
LEMMA ExpireKeeps ==
    ASSUME IInv, Expire PROVE IInv'
<1>1. /\ job = "none" /\ tree.root # Sentinel /\ job' = "min" /\ at' = tree.root
      /\ UNCHANGED <<tree, node, key, below, height, older>>
  BY DEF Expire
<1>2. Settled(tree, below, older, height) /\ Struct(tree, below, older) BY <1>1, SettledIs
<1>3. node = Null BY <1>1 DEF IInv, Work
<1>4. Hangs(tree, below) BY <1>2 DEF Struct
<1>5. tree.root \in ArmedIn(tree) BY <1>1, <1>4 DEF Hangs, ArmedIn
<1>6. Seeks(tree, below, older, tree.root, tree.root) BY <1>4, <1>5, SeeksFrom
<1>7. From' = tree.root BY <1>1, <1>3 DEF From
<1>8. Vars' BY <1>1 DEF IInv, Vars
<1>9. Shape' BY <1>1, <1>2 DEF Shape
<1>10. Work' BY <1>1, <1>3, <1>6, <1>7 DEF Work
<1> QED BY <1>8, <1>9, <1>10 DEF IInv

(* rbtree_min goes down one node.                                           *)
LEMMA MinTurnKeeps ==
    ASSUME IInv, MinTurn PROVE IInv'
<1>1. /\ job = "min" /\ tree.mem[at].left # Sentinel /\ at' = tree.mem[at].left
      /\ UNCHANGED <<tree, job, node, key, below, height, older>>
  BY DEF MinTurn
<1>2. Settled(tree, below, older, height) /\ Struct(tree, below, older) BY <1>1, SettledIs
<1>3. /\ Seeks(tree, below, older, From, at)
      /\ node # Null => /\ node \in Armed
                        /\ Sentinel \notin {tree.mem[node].left, tree.mem[node].right}
  BY <1>1 DEF IInv, Work
<1>4. Seeks(tree, below, older, From, at') BY <1>1, <1>2, <1>3, SeeksDown
<1>5. From' = From BY <1>1 DEF From
<1>6. Vars' BY <1>1 DEF IInv, Vars
<1>7. Shape' BY <1>1, <1>2 DEF Shape
<1>8. Work' BY <1>1, <1>3, <1>4, <1>5 DEF Work, Armed
<1> QED BY <1>6, <1>7, <1>8 DEF IInv

(* What rbtree_min found is taken out, or takes the place of node.          *)
LEMMA MinFoundKeeps ==
    ASSUME IInv, MinFound
    PROVE  /\ IInv'
           /\ node = Null => /\ Armed' = Armed \ {at}
                             /\ \A y \in Armed \ {at} : Precedes(at, y)
<1>1. job = "min" /\ tree.mem[at].left = Sentinel /\ TakeOut(IF node = Null THEN at ELSE node, at)
  BY DEF MinFound
<1>2. Struct(tree, below, older) BY <1>1, SettledIs
<1>3. /\ Seeks(tree, below, older, From, at)
      /\ node # Null => node \in ArmedIn(tree)
  BY <1>1, ArmedIs DEF IInv, Work
<1>4. at \in ArmedIn(tree) /\ \A y \in below[From] \ {at} : Bef(tree, older, at, y)
  BY <1>1, <1>2, <1>3, SeeksEnd
<1>5. PICK temp : temp = Heir(tree, at) OBVIOUS
<1>6. PICK d \in Sides : temp = tree.mem[at][d] /\ tree.mem[at][Other(d)] = Sentinel
  <2>1. tree.mem[at].left = Sentinel BY <1>1
  <2>2. \E d \in Sides : Heir(tree, at) = tree.mem[at][d] /\ tree.mem[at][Other(d)] = Sentinel
    BY <2>1, HeirSide
  <2> QED BY <1>5, <2>2
<1>7. Hangs(tree, below) BY <1>2 DEF Struct
<1>8. CASE node = Null
  <2>1. TakeOut(at, at) BY <1>1, <1>8
  <2>2. Chosen(tree, below, older, at, at, temp, d) BY <1>2, <1>4, <1>6 DEF Chosen
  <2>3. IInv' /\ Armed' = Armed \ {at} BY <1>1, <1>5, <2>1, <2>2, TakeOutKeeps
  <2>4. below[From] = Armed BY <1>7, <1>8, ArmedIs DEF From, Hangs
  <2>5. \A y \in Armed \ {at} : Precedes(at, y) BY <1>4, <2>4 DEF Precedes, Bef
  <2> QED BY <2>3, <2>5
<1>9. CASE node # Null
  <2>1. TakeOut(node, at) BY <1>1, <1>9
  <2>2. From = tree.mem[node]["right"] BY <1>9 DEF From
  <2>3. at \in below[tree.mem[node]["right"]]
        /\ \A y \in below[tree.mem[node]["right"]] \ {at} : Bef(tree, older, at, y)
    BY <1>3, <1>4, <2>2 DEF Seeks
  <2>4. Chosen(tree, below, older, node, at, temp, d) BY <1>2, <1>3, <1>4, <1>6, <1>9, <2>3 DEF Chosen
  <2> QED BY <1>1, <1>5, <1>9, <2>1, <2>4, TakeOutKeeps
<1> QED BY <1>8, <1>9

(* A turn of the loop of rbtree_delete, one case of its body each.          *)
LEMMA DeleteTurnKeeps ==
    ASSUME IInv, DeleteTurn PROVE IInv'
<1>1. job = "delete" /\ DeleteLoops(tree, at) /\ UNCHANGED <<job, node, key, older>> BY DEF DeleteTurn
<1>2. DeleteAt(tree, below, older, height, at) BY <1>1 DEF IInv, Shape
<1>3. SUFFICES DeleteAt(tree', below', older, height', at')
  <2>1. Vars' BY <1>1 DEF IInv, Vars
  <2>2. Shape' BY <1>1, <1>3 DEF Shape
  <2>3. Work' BY <1>1 DEF Work
  <2> QED BY <2>1, <2>2, <2>3 DEF IInv
<1>4. PICK p : p = Parent(tree, at) OBVIOUS
<1>5. PICK s : s = Side(tree, at) OBVIOUS
<1>6. PICK w : w = Sibling(tree, at) OBVIOUS
<1>7. PICK near : near = Near(tree, at) OBVIOUS
<1>8. PICK far : far = Far(tree, at) OBVIOUS
<1>9. CASE /\ IsRed(tree, w)
           /\ tree' = SiblingUp(tree, at)
           /\ Rotation(p, s)
           /\ height' = [height EXCEPT ![p] = @ - 1, ![w] = @ + 1]
           /\ UNCHANGED at
  <2>1. below' = Turned(tree, below, p, s) BY <1>9 DEF Rotation, Turned
  <2> QED BY <1>1, <1>2, <1>4, <1>5, <1>6, <1>9, <2>1, SiblingTurn
<1>10. CASE /\ ~IsRed(tree, w) /\ ~IsRed(tree, near) /\ ~IsRed(tree, far)
            /\ tree' = Paint(tree, w, Red)
            /\ at' = p
            /\ height' = [height EXCEPT ![p] = @ - 1, ![w] = @ - 1]
            /\ UNCHANGED below
  BY <1>1, <1>2, <1>4, <1>6, <1>7, <1>8, <1>10, PaintTurn
<1>11. CASE /\ ~IsRed(tree, w) /\ IsRed(tree, near) /\ ~IsRed(tree, far)
            /\ tree' = NearUp(tree, at)
            /\ Rotation(w, Other(s))
            /\ height' = [height EXCEPT ![w] = @ - 1, ![near] = @ + 1]
            /\ UNCHANGED at
  <2>1. below' = Turned(tree, below, w, Other(s)) BY <1>11 DEF Rotation, Turned
  <2> QED BY <1>1, <1>2, <1>5, <1>6, <1>7, <1>8, <1>11, <2>1, NearTurn
<1>12. CASE /\ ~IsRed(tree, w) /\ IsRed(tree, far)
            /\ tree' = FarUp(tree, at)
            /\ at' = tree'.root
            /\ Rotation(p, s)
            /\ height' = [height EXCEPT ![p] = height[w], ![w] = height[p], ![far] = @ + 1]
  <2>1. below' = Turned(tree, below, p, s) BY <1>12 DEF Rotation, Turned
  <2> QED BY <1>1, <1>2, <1>4, <1>5, <1>6, <1>8, <1>12, <2>1, FarTurn
<1> QED BY <1>4, <1>5, <1>6, <1>7, <1>8, <1>9, <1>10, <1>11, <1>12 DEF DeleteTurn

(* rbtree_delete returns.                                                   *)
LEMMA DeleteDoneKeeps ==
    ASSUME IInv, DeleteDone PROVE IInv'
<1>1. /\ job = "delete" /\ ~DeleteLoops(tree, at) /\ tree' = Paint(tree, at, Black)
      /\ height' = [height EXCEPT ![at] = IF IsRed(tree, at) THEN @ + 1 ELSE @]
      /\ Returns /\ below' = below /\ older' = older
  BY DEF DeleteDone
<1>2. DeleteAt(tree, below, older, height, at) BY <1>1 DEF IInv, Shape
<1>3. Settled(tree', below, older, height') BY <1>1, <1>2, DeleteEnds
<1>4. older \in [Ev -> SUBSET Ev] BY DEF IInv, Vars
<1> QED BY <1>1, <1>3, <1>4, ReturnsKeeps

(* Every step keeps the invariant.                                          *)
LEMMA NextKeeps == IInv /\ [Next]_vars => IInv'
<1> SUFFICES ASSUME IInv, [Next]_vars PROVE IInv' OBVIOUS
<1>1. ASSUME NEW x \in Ev, NEW k \in Keys, Insert(x, k) PROVE IInv' BY <1>1, InsertKeeps
<1>2. CASE Descend BY <1>2, DescendKeeps
<1>3. CASE InsertTurn BY <1>3, InsertTurnKeeps
<1>4. CASE InsertDone BY <1>4, InsertDoneKeeps
<1>5. ASSUME NEW x \in Ev, Delete(x) PROVE IInv' BY <1>5, DeleteKeeps
<1>6. CASE Expire BY <1>6, ExpireKeeps
<1>7. CASE MinTurn BY <1>7, MinTurnKeeps
<1>8. CASE MinFound BY <1>8, MinFoundKeeps
<1>9. CASE DeleteTurn BY <1>9, DeleteTurnKeeps
<1>10. CASE DeleteDone BY <1>10, DeleteDoneKeeps
<1>11. CASE UNCHANGED vars
  BY <1>11 DEF vars, IInv, Vars, Shape, Work, From, Armed
<1> QED BY <1>1, <1>2, <1>3, <1>4, <1>5, <1>6, <1>7, <1>8, <1>9, <1>10, <1>11 DEF Next

(* It holds between any two turns of the loops.                             *)
LEMMA Invariance == Spec => []IInv
BY InitIInv, NextKeeps, PTL DEF Spec

(* It has the types in it, ...                                              *)
LEMMA IInvTypes == IInv => TypeOK
<1> SUFFICES ASSUME IInv PROVE TypeOK OBVIOUS
<1>1. Struct(tree, below, older) /\ Armed = ArmedIn(tree) BY AlwaysStruct, ArmedIs
<1>2. /\ DOMAIN tree.mem \subseteq Nodes /\ Typed(tree) /\ below \in [Nodes -> SUBSET Ev]
      /\ Hangs(tree, below) /\ KeysOf(tree)
  BY <1>1 DEF Struct
<1>3. {tree.root, Sentinel} \subseteq DOMAIN tree.mem BY <1>2 DEF Hangs
<1>4. \A x \in DOMAIN tree.mem :
          Parent(tree, x) \in Ev \cup {Null} /\ tree.mem[x].color \in {Red, Black}
  BY <1>2 DEF Typed
<1>5. ASSUME NEW x \in Armed PROVE tree.mem[x].key \in Keys /\ Kids(tree, x) \subseteq DOMAIN tree.mem
  <2>1. \A s \in Sides : tree.mem[x][s] \in DOMAIN tree.mem BY <1>1, <1>2, KidFacts
  <2>2. tree.mem[x]["left"] \in DOMAIN tree.mem /\ tree.mem[x]["right"] \in DOMAIN tree.mem
    BY <2>1 DEF Sides
  <2> QED BY <1>1, <1>2, <2>2 DEF Kids, KeysOf
<1>6. job \in {"none", "descend", "insert", "min", "delete"} /\ node \in Ev \cup {Null}
      /\ key \in Keys \cup {0} /\ older \in [Ev -> SUBSET Ev]
  BY DEF IInv, Vars
<1>7. height \in [Nodes -> Nat]
  <2>1. CASE job \in {"none", "descend", "min"} BY <2>1, SettledIs DEF Settled, HeightsIn
  <2>2. CASE job = "insert" BY <2>2 DEF IInv, Shape, InsertAt, HeightsIn
  <2>3. CASE job = "delete"
    <3>1. DeleteAt(tree, below, older, height, at) BY <2>3 DEF IInv, Shape
    <3> QED BY <3>1 DEF DeleteAt, HeightsIn
  <2> QED BY <1>6, <2>1, <2>2, <2>3
<1>8. at \in IF job = "none" THEN {Null} ELSE DOMAIN tree.mem
  <2>1. CASE job = "none" BY <2>1 DEF IInv, Work
  <2>2. CASE job = "descend" BY <2>2 DEF IInv, Work, Armed
  <2>3. CASE job = "insert" BY <2>3 DEF IInv, Shape, InsertAt, ArmedIn
  <2>4. CASE job = "min"
    <3>1. Seeks(tree, below, older, From, at) BY <2>4 DEF IInv, Work
    <3>2. at \in ArmedIn(tree) BY <1>1, <3>1, SeeksAt
    <3> QED BY <2>4, <3>2 DEF ArmedIn
  <2>5. CASE job = "delete" BY <2>5 DEF IInv, Shape, DeleteAt
  <2> QED BY <1>6, <2>1, <2>2, <2>3, <2>4, <2>5
<1> QED BY <1>2, <1>3, <1>4, <1>5, <1>6, <1>7, <1>8 DEF TypeOK

(* The tree and the registers of the loops of rb_tree.c hold what their     *)
(* types say, for any number of nodes and any keys: every link leads to a   *)
(* node of the tree or to the sentinel.                                     *)
THEOREM TypeCorrect == Spec => []TypeOK
BY Invariance, IInvTypes, PTL

(* ... the links, ...                                                       *)
LEMMA IInvLinked == IInv => TreeLinked
<1> SUFFICES ASSUME IInv PROVE TreeLinked OBVIOUS
<1>1. Hangs(tree, below) /\ Armed = ArmedIn(tree) BY AlwaysStruct, ArmedIs DEF Struct
<1>2. below[tree.root] = Armed /\ below[Sentinel] = {} BY <1>1 DEF Hangs
<1>3. ASSUME NEW x \in Armed, NEW l, l = tree.mem[x].left, NEW r, r = tree.mem[x].right
      PROVE  /\ below[x] = {x} \cup below[l] \cup below[r]
             /\ x \notin below[l] \cup below[r]
             /\ below[l] \cap below[r] = {}
             /\ \A y \in {l, r} \ {Sentinel} : Parent(tree, y) = x
  <2>1. "left" \in Sides /\ "right" \in Sides /\ Other("left") = "right" BY DEF Sides, Other
  <2>2. /\ below[x] = {x} \cup below[l] \cup below[r] /\ x \notin below[l] /\ x \notin below[r]
        /\ below[l] \cap below[r] = {}
    <3>1. /\ below[x] = {x} \cup below[tree.mem[x]["left"]] \cup below[tree.mem[x][Other("left")]]
          /\ x \notin below[tree.mem[x]["left"]] /\ x \notin below[tree.mem[x][Other("left")]]
          /\ below[tree.mem[x]["left"]] \cap below[tree.mem[x][Other("left")]] = {}
      BY <1>1, <2>1, KidFacts
    <3> QED BY <1>3, <2>1, <3>1
  <2>3. (l # Sentinel => Parent(tree, l) = x) /\ (r # Sentinel => Parent(tree, r) = x)
    <3>1. \A s \in Sides : tree.mem[x][s] # Sentinel => Parent(tree, tree.mem[x][s]) = x
      BY <1>1, Below
    <3> QED BY <1>3, <2>1, <3>1
  <2> QED BY <2>2, <2>3
<1>4. ASSUME NEW x \in Armed \ {tree.root} PROVE Parent(tree, x) \in Armed /\ x \in Kids(tree, Parent(tree, x))
  <2>1. HangsIn(tree, x) BY <1>1 DEF Hangs
  <2> QED BY <1>1, <2>1 DEF HangsIn, Kids, Sides
<1> QED BY <1>2, <1>3, <1>4 DEF TreeLinked

(* Between any two turns of the loops of rbtree_insert and rbtree_delete,   *)
(* every node hangs once, below the parent its field names: no rotation and *)
(* no excision loses a node or makes a ring.                                *)
THEOREM LinksHold == Spec => []TreeLinked
BY Invariance, IInvLinked, PTL

(* ... the colours and the black nodes, ...                                 *)
LEMMA IInvBalanced == IInv => TreeBalanced
<1> SUFFICES ASSUME IInv, job = "none"
             PROVE  /\ ~IsRed(tree, tree.root) /\ ~IsRed(tree, Sentinel)
                    /\ \A x \in Armed : \A y \in Kids(tree, x) :
                          /\ IsRed(tree, x) => ~IsRed(tree, y)
                          /\ height[x] = height[y] + (IF IsRed(tree, x) THEN 0 ELSE 1)
  BY DEF TreeBalanced
<1>1. Settled(tree, below, older, height) /\ Struct(tree, below, older) /\ Armed = ArmedIn(tree)
  BY SettledIs, ArmedIs
<1>2. ColorsIn(tree, "none", Null) /\ HeightsIn(tree, height, Null, "left") BY <1>1 DEF Settled
<1>3. /\ ~IsRed(tree, tree.root) /\ ~IsRed(tree, Sentinel)
      /\ \A x \in Armed, s \in Sides : ~(IsRed(tree, x) /\ IsRed(tree, tree.mem[x][s]))
  BY <1>1, <1>2 DEF ColorsIn, Exempt
<1>4. \A x \in Armed, s \in Sides : height[x] = height[tree.mem[x][s]] + Black01(tree, x)
  BY <1>1, <1>2, WholeHeights
<1>5. ASSUME NEW x \in Armed, NEW y \in Kids(tree, x)
      PROVE  /\ IsRed(tree, x) => ~IsRed(tree, y)
             /\ height[x] = height[y] + (IF IsRed(tree, x) THEN 0 ELSE 1)
  <2>1. PICK s \in Sides : y = tree.mem[x][s] BY DEF Kids, Sides
  <2> QED BY <1>3, <1>4, <2>1 DEF Black01
<1> QED BY <1>3, <1>5

(* Whenever rbtree_insert and rbtree_delete have returned, no red node has  *)
(* a red kid and all ways down have as many black nodes: the tree never     *)
(* becomes a list, however many insertions and deletions came before.       *)
THEOREM BalanceHolds == Spec => []TreeBalanced
BY Invariance, IInvBalanced, PTL

(* ... and the order.                                                       *)
LEMMA IInvOrdered == IInv => TreeOrdered
<1> SUFFICES ASSUME IInv PROVE TreeOrdered OBVIOUS
<1>1. SortedIn(tree, below, older) /\ Armed = ArmedIn(tree) BY AlwaysStruct, ArmedIs DEF Struct
<1>2. "left" \in Sides /\ "right" \in Sides BY DEF Sides
<1> QED BY <1>1, <1>2 DEF SortedIn, InOrder, TreeOrdered, Precedes, Bef

(* The nodes are in the order of their keys, those with equal keys in the   *)
(* order of their insertion, at every turn of the loops.                    *)
THEOREM OrderHolds == Spec => []TreeOrdered
BY Invariance, IInvOrdered, PTL

(* What expire_timers takes out of the tree is the node rbtree_min finds,   *)
(* and none of the others comes before it: events expire in the order of    *)
(* their times, and equal ones in the order in which they were added.       *)
THEOREM FirstFound == Spec => FirstIsTaken
<1>1. ASSUME IInv, [Next]_vars
      PROVE  [job = "min" /\ node = Null /\ tree' # tree =>
                 \A y \in Armed' : \A x \in Armed \ Armed' : Precedes(x, y)]_vars
  <2>1. SUFFICES ASSUME Next, job = "min", node = Null, tree' # tree
                 PROVE  \A y \in Armed' : \A x \in Armed \ Armed' : Precedes(x, y)
    BY <1>1
  <2>2. MinFound
    BY <2>1 DEF Next, Insert, Descend, InsertTurn, InsertDone, Delete, Expire, MinTurn, DeleteTurn, DeleteDone
  <2>3. Armed' = Armed \ {at} /\ \A y \in Armed \ {at} : Precedes(at, y) BY <1>1, <2>1, <2>2, MinFoundKeeps
  <2> QED BY <2>3
<1> QED BY <1>1, Invariance, PTL DEF Spec, FirstIsTaken
=============================================================================
