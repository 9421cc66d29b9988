------------------------ MODULE ConfigurationProofs ------------------------
(***************************************************************************)
(* The configuration of any server: how it is read and routes requests, in *)
(* the first part, and how it is reloaded, in the second.                  *)
(*                                                                         *)
(* The first part is about documents, rules and requests of any kind and   *)
(* size.  What it rests on is that the directives are a tree in pre-order  *)
(* (InFileOrder), in which Inside is a relation defined by recursion: that *)
(* it is what it should be (InsideStep), and the order of locations that   *)
(* ConfigRouter takes from it, are proved by least counterexamples.        *)
(*                                                                         *)
(* At its end is the syntax: the tokens of the lexer are those that        *)
(* ConfigText tells by the modes of the characters (TokenModes), and the   *)
(* parser is as deep in blocks as braces have been left open (Reading), so *)
(* that it stops at the first fault and nowhere else.  The directives that *)
(* have been parsed are those that begin and end before the next token     *)
(* (TreeInv), found from the places of words and braces alone.             *)
(*                                                                         *)
(* The second is about any contents of the file, any number of SIGHUPs and *)
(* any addresses: no SIGHUP is lost, nothing older replaces anything       *)
(* newer, and what is routed, listened on and served belongs to one        *)
(* configuration.  At its end are the listeners: opening is a recursion    *)
(* over the list of addresses, whose states keep, one after the other,     *)
(* what is proved of one (OpenOneKeeps, OpenAllKeeps).                     *)
(***************************************************************************)
EXTENDS ConfigReload, Configuration, FiniteSetTheorems, SequenceTheorems, WellFoundedInduction, TLAPS

\* The least of some numbers.
LEMMA NumberMin ==
  ASSUME NEW S \in SUBSET Nat, S # {}
  PROVE  \E x \in S : \A y \in S : x <= y
<1> DEFINE R == OpToRel(<, Nat)
<1>1. PICK x \in S : \A y \in S : <<y, x>> \notin R
  BY NatLessThanWellFounded, WFMin, Zenon
<1>2. ASSUME NEW y \in S PROVE x <= y
  <2>1. x \in Nat /\ y \in Nat /\ <<y, x>> \notin R
    BY <1>1
  <2>2. ~(y < x)
    BY <2>1 DEF OpToRel
  <2> HIDE DEF R
  <2>3. \A a, b \in Nat : ~(a < b) => b <= a
    OBVIOUS
  <2> QED BY <2>1, <2>2, <2>3
<1> QED BY <1>1, <1>2

(***************************************************************************)
(* Trees whose nodes have numbers, each greater than that of its parent.   *)
(***************************************************************************)
Tree(locs, len) ==
  /\ len \in Nat
  /\ DOMAIN locs \subseteq 1 .. len
  /\ \A l \in DOMAIN locs : locs[l].parent \in {0} \cup DOMAIN locs /\ locs[l].parent < l

Upto(locs, k) == {0} \cup {l \in DOMAIN locs : l <= k}

\* f says which of the nodes in a set are inside outer.
Tells(f, locs, outer, S) ==
  f = [i \in S |-> i # 0 /\ (locs[i].parent = outer \/ f[locs[i].parent])]

LEMMA TellingExists ==
  ASSUME NEW locs, NEW len, Tree(locs, len), NEW outer
  PROVE  \E f : Tells(f, locs, outer, {0} \cup DOMAIN locs)
<1> DEFINE Bad == {k \in Nat : ~ \E f : Tells(f, locs, outer, Upto(locs, k))}
<1>0. \A l \in DOMAIN locs : l \in Nat /\ l <= len /\ l # 0
  BY DEF Tree
<1>1. ASSUME Bad # {} PROVE FALSE
  <2>2. PICK k \in Bad : \A j \in Bad : k <= j
    BY <1>1, NumberMin
  <2>3. CASE k \notin DOMAIN locs
    <3>1. CASE k = 0
      <4> DEFINE f == [i \in Upto(locs, 0) |-> FALSE]
      <4>1. Upto(locs, 0) = {0}
        BY <1>0 DEF Upto
      <4>2. Tells(f, locs, outer, Upto(locs, 0))
        BY <4>1 DEF Tells
      <4> QED BY <2>2, <3>1, <4>2
    <3>2. CASE k # 0
      <4>1. k \in Nat /\ k - 1 \in Nat /\ k - 1 \notin Bad
        BY <2>2, <3>2
      <4>2. Upto(locs, k) = Upto(locs, k - 1)
        <5>1. \A l \in DOMAIN locs : l <= k <=> l <= k - 1
          BY <1>0, <2>3, <4>1
        <5> QED BY <5>1 DEF Upto
      <4> QED BY <2>2, <4>1, <4>2
    <3> QED BY <3>1, <3>2
  <2>4. CASE k \in DOMAIN locs
    <3>1. k \in Nat /\ k # 0 /\ k - 1 \in Nat /\ k - 1 \notin Bad
      BY <1>0, <2>2, <2>4
    <3>2. PICK f : Tells(f, locs, outer, Upto(locs, k - 1))
      BY <3>1
    <3> DEFINE p == locs[k].parent
               g == [i \in Upto(locs, k) |-> IF i = k THEN p = outer \/ f[p] ELSE f[i]]
    <3>3. Upto(locs, k) = Upto(locs, k - 1) \cup {k} /\ k \notin Upto(locs, k - 1)
      <4>1. \A l \in DOMAIN locs : l <= k <=> l <= k - 1 \/ l = k
        BY <1>0, <3>1
      <4>2. ~(k <= k - 1)
        BY <3>1
      <4> QED BY <4>1, <4>2, <2>4, <3>1 DEF Upto
    <3>4. p \in Upto(locs, k - 1)
      BY <1>0, <2>4, <3>1 DEF Tree, Upto
    <3>5. ASSUME NEW i \in Upto(locs, k)
          PROVE  g[i] = (i # 0 /\ (locs[i].parent = outer \/ g[locs[i].parent]))
      <4>1. CASE i = k
        <5>1. g[i] = (p = outer \/ f[p]) /\ g[p] = f[p]
          BY <3>3, <3>4, <4>1
        <5> QED BY <5>1, <4>1, <3>1
      <4>2. CASE i # k
        <5>1. i \in Upto(locs, k - 1) /\ g[i] = f[i]
          BY <3>3, <4>2
        <5>2. i # 0 => locs[i].parent \in Upto(locs, k - 1) /\ g[locs[i].parent] = f[locs[i].parent]
          <6>1. ASSUME i # 0 PROVE locs[i].parent \in Upto(locs, k - 1)
            BY <5>1, <6>1, <1>0, <3>1 DEF Tree, Upto
          <6> QED BY <6>1, <3>3
        <5>3. f[i] = (i # 0 /\ (locs[i].parent = outer \/ f[locs[i].parent]))
          BY <3>2, <5>1 DEF Tells
        <5> QED BY <5>1, <5>2, <5>3
      <4> QED BY <4>1, <4>2
    <3>6. Tells(g, locs, outer, Upto(locs, k))
      <4> HIDE DEF g
      <4>1. g = [i \in Upto(locs, k) |-> g[i]]
        BY DEF g
      <4> QED BY <3>5, <4>1 DEF Tells
    <3> QED BY <2>2, <3>6
  <2> QED BY <2>3, <2>4
<1>2. len \in Nat /\ Upto(locs, len) = {0} \cup DOMAIN locs
  BY <1>0 DEF Tree, Upto
<1> QED BY <1>1, <1>2

\* What is inside another is, or its parent is, a child of it.
LEMMA InsideStep ==
  ASSUME NEW locs, NEW len, Tree(locs, len), NEW outer, NEW i \in {0} \cup DOMAIN locs
  PROVE  Inside(locs, i, outer)
           <=> i # 0 /\ (locs[i].parent = outer \/ Inside(locs, locs[i].parent, outer))
<1> DEFINE f == CHOOSE g : Tells(g, locs, outer, {0} \cup DOMAIN locs)
<1>1. Tells(f, locs, outer, {0} \cup DOMAIN locs)
  BY TellingExists
<1>2. \A j : Inside(locs, j, outer) = f[j]
  BY DEF Inside, Tells
<1>3. f[i] = (i # 0 /\ (locs[i].parent = outer \/ f[locs[i].parent]))
  <2> HIDE DEF f
  <2> QED BY <1>1 DEF Tells
<1> HIDE DEF f
<1> QED BY <1>2, <1>3

LEMMA NodesAreNumbers ==
  ASSUME NEW locs, NEW len, Tree(locs, len)
  PROVE  \A l \in DOMAIN locs : l \in Nat /\ l # 0 /\ l <= len
BY DEF Tree

LEMMA InsideComesLater ==
  ASSUME NEW locs, NEW len, Tree(locs, len), NEW outer
  PROVE  \A l \in DOMAIN locs : Inside(locs, l, outer) => outer \in {0} \cup DOMAIN locs /\ outer < l
<1> DEFINE Bad == {l \in DOMAIN locs : Inside(locs, l, outer) /\ ~(outer \in {0} \cup DOMAIN locs /\ outer < l)}
<1>0. \A l \in DOMAIN locs : l \in Nat /\ l # 0
  BY NodesAreNumbers
<1>1. ASSUME Bad # {} PROVE FALSE
  <2>1. PICK l \in Bad : \A m \in Bad : l <= m
    <3>1. Bad \in SUBSET Nat
      BY <1>0
    <3> QED BY <1>1, <3>1, NumberMin
  <2> DEFINE p == locs[l].parent
  <2>2. l \in DOMAIN locs /\ l \in Nat /\ p \in {0} \cup DOMAIN locs /\ p < l /\ p \in Nat
    BY <2>1, <1>0 DEF Tree
  <2>3. p = outer \/ Inside(locs, p, outer)
    BY <2>1, <2>2, InsideStep
  <2>4. p # outer
    BY <2>1, <2>2
  <2>5. p # 0 /\ p \notin Bad
    <3>1. p # 0
      BY <2>2, <2>3, <2>4, InsideStep
    <3>2. ~(l <= p)
      BY <2>2
    <3> QED BY <3>1, <3>2, <2>1
  <2>6. outer \in {0} \cup DOMAIN locs /\ outer < p
    BY <2>2, <2>3, <2>4, <2>5
  <2>7. outer < l
    BY <2>2, <2>6, <1>0
  <2> QED BY <2>1, <2>6, <2>7
<1> QED BY <1>1

LEMMA InsideTransitive ==
  ASSUME NEW locs, NEW len, Tree(locs, len), NEW b, NEW c, Inside(locs, b, c), b \in DOMAIN locs
  PROVE  \A a \in DOMAIN locs : Inside(locs, a, b) => Inside(locs, a, c)
<1> DEFINE Bad == {a \in DOMAIN locs : Inside(locs, a, b) /\ ~Inside(locs, a, c)}
<1>0. \A l \in DOMAIN locs : l \in Nat /\ l # 0
  BY NodesAreNumbers
<1>1. ASSUME Bad # {} PROVE FALSE
  <2>1. PICK a \in Bad : \A m \in Bad : a <= m
    <3>1. Bad \in SUBSET Nat
      BY <1>0
    <3> QED BY <1>1, <3>1, NumberMin
  <2> DEFINE p == locs[a].parent
  <2>2. a \in DOMAIN locs /\ a \in Nat /\ p \in {0} \cup DOMAIN locs /\ p < a /\ p \in Nat
    BY <2>1, <1>0 DEF Tree
  <2>3. p = b \/ Inside(locs, p, b)
    BY <2>1, <2>2, InsideStep
  <2>4. ~(p = c \/ Inside(locs, p, c))
    BY <2>1, <2>2, <1>0, InsideStep
  <2>5. p # b /\ Inside(locs, p, b)
    BY <2>3, <2>4
  <2>6. p # 0
    BY <2>2, <2>5, InsideStep
  <2>7. p \notin Bad
    BY <2>1, <2>2
  <2> QED BY <2>2, <2>4, <2>5, <2>6, <2>7
<1> QED BY <1>1

LEMMA InsideRoot ==
  ASSUME NEW locs, NEW len, Tree(locs, len)
  PROVE  \A a \in DOMAIN locs : Inside(locs, a, 0)
<1> DEFINE Bad == {a \in DOMAIN locs : ~Inside(locs, a, 0)}
<1>0. \A l \in DOMAIN locs : l \in Nat /\ l # 0
  BY NodesAreNumbers
<1>1. ASSUME Bad # {} PROVE FALSE
  <2>1. PICK a \in Bad : \A m \in Bad : a <= m
    <3>1. Bad \in SUBSET Nat
      BY <1>0
    <3> QED BY <1>1, <3>1, NumberMin
  <2> DEFINE p == locs[a].parent
  <2>2. a \in DOMAIN locs /\ a \in Nat /\ p \in {0} \cup DOMAIN locs /\ p < a /\ p \in Nat
    BY <2>1, <1>0 DEF Tree
  <2>3. ~(p = 0 \/ Inside(locs, p, 0))
    BY <2>1, <2>2, <1>0, InsideStep
  <2>4. p \notin Bad
    BY <2>1, <2>2
  <2> QED BY <2>2, <2>3, <2>4
<1> QED BY <1>1

\* What is added to a tree later changes nothing between those that are in it.
LEMMA InsideUnchanged ==
  ASSUME NEW locs, NEW len, Tree(locs, len), NEW more, NEW len2, Tree(more, len2),
         DOMAIN locs \subseteq DOMAIN more,
         \A l \in DOMAIN locs : more[l].parent = locs[l].parent,
         NEW outer
  PROVE  \A a \in DOMAIN locs : Inside(more, a, outer) <=> Inside(locs, a, outer)
<1> DEFINE Bad == {a \in DOMAIN locs : ~(Inside(more, a, outer) <=> Inside(locs, a, outer))}
<1>0. \A l \in DOMAIN locs : l \in Nat /\ l # 0
  BY NodesAreNumbers
<1>1. ASSUME Bad # {} PROVE FALSE
  <2>1. PICK a \in Bad : \A m \in Bad : a <= m
    <3>1. Bad \in SUBSET Nat
      BY <1>0
    <3> QED BY <1>1, <3>1, NumberMin
  <2> DEFINE p == locs[a].parent
  <2>2. a \in DOMAIN locs /\ a \in Nat /\ p \in {0} \cup DOMAIN locs /\ p < a /\ p \in Nat
    BY <2>1, <1>0 DEF Tree
  <2>3. Inside(locs, a, outer) <=> p = outer \/ Inside(locs, p, outer)
    BY <2>2, <1>0, InsideStep
  <2>4. Inside(more, a, outer) <=> p = outer \/ Inside(more, p, outer)
    <3>1. a \in {0} \cup DOMAIN more /\ a # 0 /\ more[a].parent = p
      BY <2>2, <1>0
    <3> QED BY <3>1, InsideStep
  <2>5. p # 0
    <3>1. ~Inside(locs, 0, outer) /\ ~Inside(more, 0, outer)
      <4>1. 0 \in {0} \cup DOMAIN locs /\ 0 \in {0} \cup DOMAIN more
        OBVIOUS
      <4> QED BY <4>1, InsideStep
    <3> QED BY <3>1, <2>1, <2>3, <2>4
  <2>6. p \notin Bad
    BY <2>1, <2>2
  <2> QED BY <2>1, <2>2, <2>3, <2>4, <2>5, <2>6
<1> QED BY <1>1

(***************************************************************************)
(* Trees in pre-order, and the post-order of their nodes.                  *)
(***************************************************************************)
Ordered(locs, len) == len \in Nat /\ DOMAIN locs \subseteq 1 .. len /\ InFileOrder(locs)

LEMMA OrderedTree ==
  ASSUME NEW locs, NEW len, Ordered(locs, len)
  PROVE  Tree(locs, len)
BY DEF Ordered, Tree, InFileOrder

\* Between a node and what is inside it there is nothing else.
LEMMA InsideInterval ==
  ASSUME NEW locs, NEW len, Ordered(locs, len), NEW b, NEW c \in DOMAIN locs, b < c
  PROVE  \A a \in DOMAIN locs : Inside(locs, a, b) /\ c <= a => Inside(locs, c, b)
<1> DEFINE Bad == {a \in DOMAIN locs : Inside(locs, a, b) /\ c <= a}
<1>t. Tree(locs, len)
  BY OrderedTree
<1>0. \A l \in DOMAIN locs : l \in Nat /\ l # 0
  BY <1>t, NodesAreNumbers
<1>1. ASSUME Bad # {}, ~Inside(locs, c, b) PROVE FALSE
  <2>1. PICK a \in Bad : \A m \in Bad : a <= m
    <3>1. Bad \in SUBSET Nat
      BY <1>0
    <3> QED BY <1>1, <3>1, NumberMin
  <2> DEFINE p == locs[a].parent
  <2>2. a \in DOMAIN locs /\ a \in Nat /\ p \in {0} \cup DOMAIN locs /\ p < a /\ p \in Nat /\ c \in Nat
    BY <2>1, <1>0, <1>t DEF Tree
  <2>3. c < a
    BY <1>1, <2>1, <2>2
  <2>4. p = b \/ Inside(locs, p, b)
    BY <2>1, <2>2, <1>t, InsideStep
  <2>5. CASE c <= p
    <3>1. p # 0 /\ p \in DOMAIN locs
      BY <2>2, <2>5, <1>0
    <3>2. p \notin Bad
      BY <2>1, <2>2
    <3>3. p # b
      BY <2>5, <2>2, <1>0
    <3> QED BY <3>1, <3>2, <3>3, <2>4, <2>5
  <2>6. CASE ~(c <= p)
    <3>1. p < c
      BY <2>2, <2>6
    <3>2. Inside(locs, c, p)
      BY <2>2, <2>3, <3>1 DEF Ordered, InFileOrder
    <3>3. p # b /\ Inside(locs, p, b)
      BY <2>4, <3>2, <1>1
    <3>4. p \in DOMAIN locs
      BY <2>2, <3>3, <1>t, InsideStep
    <3> QED BY <3>2, <3>3, <3>4, <1>t, <1>1, InsideTransitive
  <2> QED BY <2>5, <2>6
<1> QED BY <1>1

LEMMA PostOrderTotal ==
  ASSUME NEW locs, NEW len, Ordered(locs, len), NEW a \in DOMAIN locs, NEW b \in DOMAIN locs, a # b
  PROVE  /\ PostOrder(locs, a, b) \/ PostOrder(locs, b, a)
         /\ ~(PostOrder(locs, a, b) /\ PostOrder(locs, b, a))
<1>1. a \in Nat /\ b \in Nat
  BY OrderedTree, NodesAreNumbers
<1>2. Inside(locs, a, b) => b < a
  BY OrderedTree, InsideComesLater
<1>3. Inside(locs, b, a) => a < b
  BY OrderedTree, InsideComesLater
<1> QED BY <1>1, <1>2, <1>3 DEF PostOrder

LEMMA PostOrderTransitive ==
  ASSUME NEW locs, NEW len, Ordered(locs, len),
         NEW a \in DOMAIN locs, NEW b \in DOMAIN locs, NEW c \in DOMAIN locs,
         PostOrder(locs, a, b), PostOrder(locs, b, c)
  PROVE  PostOrder(locs, a, c)
<1>1. a \in Nat /\ b \in Nat /\ c \in Nat
  BY OrderedTree, NodesAreNumbers
<1> DEFINE W(x, y) == Inside(locs, x, y)
<1>2. \A x, y \in {a, b, c} : W(x, y) => y < x
  BY OrderedTree, InsideComesLater
<1>3. \A x, y, z \in {a, b, c} : W(x, y) /\ W(y, z) => W(x, z)
  BY OrderedTree, InsideTransitive
<1>4. \A x, y, z \in {a, b, c} : W(x, z) /\ z < y /\ y <= x => W(y, z)
  BY InsideInterval
<1>5. W(a, b) \/ (a < b /\ ~W(b, a))
  BY DEF PostOrder
<1>6. W(b, c) \/ (b < c /\ ~W(c, b))
  BY DEF PostOrder
<1> HIDE DEF W
<1>7. W(a, c) \/ (a < c /\ ~W(c, a))
  <2>1. CASE W(a, b) /\ W(b, c)
    BY <2>1, <1>3
  <2>2. CASE W(a, b) /\ b < c /\ ~W(c, b)
    <3>1. b < a /\ ~(c <= a)
      BY <2>2, <1>2, <1>4
    <3>2. ~W(c, a)
      BY <2>2, <1>3
    <3> QED BY <3>1, <3>2, <1>1
  <2>3. CASE a < b /\ ~W(b, a) /\ W(b, c)
    <3>1. c < b
      BY <2>3, <1>2
    <3>2. CASE c < a
      <4>1. a <= b
        BY <2>3, <1>1
      <4> QED BY <4>1, <3>2, <2>3, <1>4
    <3>3. CASE c = a
      BY <3>3, <2>3
    <3>4. CASE a < c
      <4>1. ~W(c, a)
        BY <2>3, <1>3
      <4> QED BY <4>1, <3>4
    <3> QED BY <3>2, <3>3, <3>4, <1>1
  <2>4. CASE a < b /\ ~W(b, a) /\ b < c /\ ~W(c, b)
    <3>1. a < c /\ b <= c
      BY <2>4, <1>1
    <3>2. ~W(c, a)
      BY <2>4, <3>1, <1>4
    <3> QED BY <3>1, <3>2
  <2> QED BY <1>5, <1>6, <2>1, <2>2, <2>3, <2>4
<1> QED BY <1>7 DEF PostOrder, W

\* Of some locations, one comes first.
LEMMA FirstLocation ==
  ASSUME NEW locs, NEW len, Ordered(locs, len), NEW S \in SUBSET DOMAIN locs, S # {}
  PROVE  \E x \in S : \A y \in S \ {x} : PostOrder(locs, x, y)
<1> DEFINE Below(k) == {l \in S : l <= k}
           IsFirst(x, k) == x \in Below(k) /\ \A y \in Below(k) \ {x} : PostOrder(locs, x, y)
           Bad == {k \in Nat : Below(k) # {} /\ ~ \E x \in S : IsFirst(x, k)}
<1>0. \A l \in S : l \in Nat /\ l # 0 /\ l <= len
  BY OrderedTree, NodesAreNumbers
<1>1. ASSUME Bad # {} PROVE FALSE
  <2>1. PICK k \in Bad : \A j \in Bad : k <= j
    <3> HIDE DEF Below, IsFirst
    <3> QED BY <1>1, NumberMin
  <2>2. k \in Nat /\ k # 0 /\ k - 1 \in Nat /\ k - 1 \notin Bad
    <3>1. k # 0
      BY <2>1, <1>0
    <3>2. k - 1 \in Nat /\ ~(k <= k - 1)
      BY <3>1
    <3> HIDE DEF Bad
    <3> QED BY <2>1, <3>1, <3>2 DEF Bad
  <2>3. Below(k) = Below(k - 1) \cup (S \cap {k}) /\ k \notin Below(k - 1)
    <3>1. \A l \in S : l <= k <=> l <= k - 1 \/ l = k
      BY <2>2, <1>0
    <3>2. ~(k <= k - 1)
      BY <2>2
    <3> QED BY <3>1, <3>2
  <2>4. k \in S
    <3>1. CASE k \notin S
      <4>1. Below(k) = Below(k - 1)
        BY <2>3, <3>1
      <4> HIDE DEF Below
      <4> QED BY <4>1, <2>1, <2>2
    <3> QED BY <3>1
  <2>5. CASE Below(k - 1) = {}
    <3>1. IsFirst(k, k)
      BY <2>3, <2>4, <2>5
    <3> QED BY <3>1, <2>1, <2>4
  <2>6. CASE Below(k - 1) # {}
    <3>1. PICK x \in S : IsFirst(x, k - 1)
      BY <2>2, <2>6
    <3>2. x # k /\ x \in DOMAIN locs /\ k \in DOMAIN locs /\ x \in Below(k - 1)
      BY <3>1, <2>3, <2>4
    <3>3. CASE PostOrder(locs, x, k)
      <4>1. IsFirst(x, k)
        <5> HIDE DEF Below
        <5> QED BY <3>1, <3>3, <2>3
      <4> QED BY <4>1, <2>1
    <3>4. CASE PostOrder(locs, k, x)
      <4>1. \A y \in Below(k - 1) : PostOrder(locs, k, y)
        <5> TAKE y \in Below(k - 1)
        <5>1. y \in DOMAIN locs /\ (y = x \/ PostOrder(locs, x, y))
          BY <3>1
        <5> QED BY <5>1, <3>2, <3>4, PostOrderTransitive
      <4>2. IsFirst(k, k)
        <5> HIDE DEF Below
        <5>1. k \in Below(k)
          BY <2>3, <2>4
        <5> QED BY <4>1, <5>1, <2>3
      <4> QED BY <4>2, <2>1, <2>4
    <3> QED BY <3>2, <3>3, <3>4, PostOrderTotal
  <2> QED BY <2>5, <2>6
<1>2. len \in Nat /\ Below(len) = S
  BY <1>0 DEF Ordered
<1>3. PICK x \in S : IsFirst(x, len)
  BY <1>1, <1>2
<1> QED BY <1>2, <1>3

(***************************************************************************)
(* Routing                                                                 *)
(***************************************************************************)
ConfigPlaced(len) ==
  /\ len \in Nat /\ DOMAIN config \subseteq 1 .. len
  /\ \A s \in DOMAIN config : Ordered(config[s].locations, len)

LEMMA RouterPlaces ==
  \A r \in AllRouters(config) :
    /\ r.server \in DOMAIN config
    /\ r.location \in DOMAIN config[r.server].locations
    /\ r = [server |-> r.server, location |-> r.location]
BY DEF AllRouters, RoutersIn

LEMMA FirstExists ==
  ASSUME NEW len, ConfigPlaced(len), Left # {}
  PROVE  \E r \in Left : First(r)
<1>1. Left \subseteq AllRouters(config)
  BY DEF Left, Asked
<1> DEFINE S == {r.server : r \in Left}
<1>2. PICK s \in S : \A t \in S : s <= t
  <2>1. S \in SUBSET Nat
    BY <1>1, RouterPlaces DEF ConfigPlaced
  <2>2. S # {}
    OBVIOUS
  <2> HIDE DEF S
  <2> QED BY <2>1, <2>2, NumberMin
<1> DEFINE here == {r \in Left : r.server = s}
           places == {r.location : r \in here}
           locs == config[s].locations
<1>3. PICK x \in places : \A y \in places \ {x} : PostOrder(locs, x, y)
  <2>1. places \in SUBSET DOMAIN locs
    BY <1>1, RouterPlaces
  <2>2. places # {}
    BY <1>2
  <2>3. Ordered(locs, len)
    BY <1>1, <1>2, RouterPlaces DEF ConfigPlaced
  <2> HIDE DEF places, locs
  <2> QED BY <2>1, <2>2, <2>3, FirstLocation
<1>4. PICK r \in here : r.location = x
  BY <1>3
<1>5. ASSUME NEW q \in Left \ {r} PROVE Before(config, r, q)
  <2>1. q.server \in S /\ s <= q.server /\ r.server = s
    BY <1>2, <1>4
  <2>2. s \in Nat /\ q.server \in Nat
    BY <1>1, <1>2, RouterPlaces DEF ConfigPlaced
  <2>3. CASE q.server = s
    <3>1. q.location \in places /\ q.location # x
      BY <2>1, <2>3, <1>1, <1>4, <1>5, RouterPlaces
    <3>2. PostOrder(locs, x, q.location)
      BY <3>1, <1>3
    <3> QED BY <3>2, <2>1, <2>3, <1>4 DEF Before
  <2>4. CASE q.server # s
    BY <2>1, <2>2, <2>4 DEF Before
  <2> QED BY <2>3, <2>4
<1> QED BY <1>4, <1>5 DEF First

Answers == {"app", "content", "error", "none", "thrown"}

LEMMA RouterAnswers ==
  ASSUME NEW r \in AllRouters(config), files \in FilesFor(config, target)
  PROVE  Outcome(r) \in Answers
<1> DEFINE locs == config[r.server].locations
           node == HostingNode(locs, r.location)
           directive == locs[node].directive
<1>1. directive \in Browsing => r \in RoutersOf(config, Browsing)
  BY DEF RoutersOf
<1>2. \A found \in Found(target) : Answer(found) \in Answers
  BY DEF Answer, Found, Shown, WrittenInPromise, WrittenBySend, Announced, Answers
<1>3. directive \in Browsing => Answer(files[r]) \in Answers
  <2>1. directive \in Browsing => files[r] \in Found(target)
    BY <1>1 DEF FilesFor
  <2> QED BY <2>1, <1>2
<1>4. \A path, found : SingleApp(path, target, found) \in Answers
  BY DEF SingleApp, Answers
<1> DEFINE prefixed == IsPrefix(LocationPath(locs, r.location), target.path)
           redirected == Redirects(directive = "redirect_exact", LocationPath(locs, node), target)
           app == SingleApp(LocationPath(locs, r.location), target, apps[r])
<1>5. Outcome(r) = IF ~prefixed THEN "none"
                   ELSE CASE directive \in Browsing -> Answer(files[r])
                          [] directive = "app_dir" -> app
                          [] OTHER -> IF redirected THEN "content" ELSE "none"
  BY DEF Outcome
<1>6. app \in Answers
  BY <1>4
<1> HIDE DEF prefixed, redirected, app, directive
<1>7. directive = "app_dir" => directive \notin Browsing
  BY DEF Browsing
<1> QED BY <1>3, <1>5, <1>6, <1>7 DEF Answers

\* Servers of the same score have one address and one name; as their keys are
\* not the same, one of these is written in two ways.
LEMMA TiedServers ==
  ASSUME Accepted(config)
  PROVE  TiesAreAliases
<1> SUFFICES ASSUME NEW s \in DOMAIN config, NEW t \in DOMAIN config, s # t,
                    Score(config[s], target) > 0,
                    Score(config[s], target) = Score(config[t], target)
             PROVE  /\ AddressOf[config[s].host] = AddressOf[config[t].host]
                    /\ \/ NamesOf(config[s]) = NamesOf(config[t])
                       \/ NamesOf(config[s]) \cap NamesOf(config[t]) # {}
                    /\ config[s].host = config[t].host =>
                         /\ config[s].names \cap config[t].names = {}
                         /\ config[s].names # config[t].names
  BY DEF TiesAreAliases, Tied
<1> DEFINE a == config[s]
           b == config[t]
<1>1. a.port = target.port /\ b.port = target.port
  BY DEF Score
<1>2. NameMatches(a, target) /\ NameMatches(b, target)
  BY DEF Score
<1>3. HostScore(a, target) \in {1, 2} /\ HostScore(b, target) \in {1, 2}
  BY DEF Score, HostScore
<1>4. /\ Score(a, target) = HostScore(a, target) + (IF a.names = {} THEN 0 ELSE 3)
      /\ Score(b, target) = HostScore(b, target) + (IF b.names = {} THEN 0 ELSE 3)
  BY <1>1, <1>2, <1>3 DEF Score
<1>5. HostScore(a, target) = HostScore(b, target) /\ (a.names = {} <=> b.names = {})
  <2> DEFINE h == HostScore(a, target)
             i == HostScore(b, target)
             m == IF a.names = {} THEN 0 ELSE 3
             n == IF b.names = {} THEN 0 ELSE 3
  <2>1. h + m = i + n /\ h \in 1 .. 2 /\ i \in 1 .. 2 /\ m \in {0, 3} /\ n \in {0, 3}
    <3>1. h + m = i + n
      BY <1>4
    <3> QED BY <1>3, <3>1
  <2>2. (a.names = {} <=> m = 0) /\ (b.names = {} <=> n = 0)
    OBVIOUS
  <2> HIDE DEF h, i, m, n
  <2>3. h = i /\ m = n
    BY <2>1
  <2> QED BY <2>2, <2>3 DEF h, i
<1>6. AddressOf[a.host] = AddressOf[b.host]
  BY <1>3, <1>5 DEF HostScore
<1>7. NamesOf(a) = NamesOf(b) \/ NamesOf(a) \cap NamesOf(b) # {}
  <2>1. CASE a.names = {}
    BY <2>1, <1>5 DEF NamesOf
  <2>2. CASE a.names # {}
    BY <2>2, <1>2, <1>5 DEF NameMatches
  <2> QED BY <2>1, <2>2
<1>8. ASSUME a.host = b.host
      PROVE  a.names \cap b.names = {} /\ a.names # b.names
  <2>1. \A n : ~(/\ n \in IF a.names = {} THEN {""} ELSE a.names
                 /\ n \in IF b.names = {} THEN {""} ELSE b.names)
    <3> SUFFICES ASSUME NEW n, n \in IF a.names = {} THEN {""} ELSE a.names,
                        n \in IF b.names = {} THEN {""} ELSE b.names
                 PROVE  FALSE
      OBVIOUS
    <3>1. /\ <<a.host, a.port, n>> \in ServerKeys(a)
          /\ <<a.host, a.port, n>> \in ServerKeys(b)
      BY <1>1, <1>8 DEF ServerKeys
    <3> QED BY <3>1 DEF Accepted
  <2>2. a.names # {} /\ b.names # {}
    BY <2>1, <1>5
  <2> QED BY <2>1, <2>2
<1> QED BY <1>6, <1>7, <1>8

\* Those who have been asked have declined, and there is one that is next, or
\* the last that was asked has answered.
AskedInOrder ==
  /\ AnswerOK
  /\ \A r \in declined : Outcome(r) = "none"
  /\ Answered =>
       /\ First(result.by)
       /\ \/ result.answer = Outcome(result.by)
          \/ kind = "sock" /\ result.answer = "thrown" /\ Outcome(result.by) = "content"
  /\ result = NoApp => Left = {}

\* What routers answer depends on what was asked, and what was found.
LEMMA OutcomesStay ==
  ASSUME UNCHANGED inputs
  PROVE  \A q : (Outcome(q))' = Outcome(q)
<1>1. /\ config' = config /\ target' = target /\ kind' = kind
      /\ files' = files /\ apps' = apps
  BY DEF inputs
<1> QED BY <1>1 DEF Outcome, Answer, SingleApp, Redirects, HostingNode, LocationPath, IsPrefix

LEMMA AskingInOrder ==
  ASSUME files \in FilesFor(config, target), AskedInOrder, RoutingNext
  PROVE  AskedInOrder' /\ UNCHANGED inputs
<1>1. CASE GiveUp
  <2>1. result' = NoApp /\ Left = {} /\ UNCHANGED <<inputs, declined>>
    BY <1>1 DEF GiveUp
  <2>2. ~(NoApp.answer \in {"app", "content", "error", "thrown"})
    BY DEF NoApp
  <2>3. \A q : (Outcome(q))' = Outcome(q)
    BY <2>1, OutcomesStay
  <2>4. Left' = Left
    BY <2>1 DEF Left, inputs
  <2> QED BY <2>1, <2>2, <2>3, <2>4 DEF inputs, AskedInOrder, AnswerOK, Answered
<1>2. ASSUME NEW r \in Asked(config, target), Ask(r) PROVE AskedInOrder' /\ UNCHANGED inputs
  <2>1. result = Pending /\ First(r) /\ UNCHANGED inputs
    BY <1>2 DEF Ask
  <2>2. \A q : (Outcome(q))' = Outcome(q)
    BY <2>1, OutcomesStay
  <2>3. Outcome(r) \in Answers
    BY RouterAnswers DEF Asked
  <2>4. CASE Outcome(r) = "none"
    <3>1. declined' = declined \cup {r} /\ result' = Pending
      BY <1>2, <2>1, <2>4 DEF Ask
    <3>2. Pending # NoApp /\ ~(Pending.answer \in {"app", "content", "error", "thrown"})
      BY DEF Pending, NoApp
    <3> QED BY <2>1, <2>2, <2>4, <3>1, <3>2 DEF inputs, AskedInOrder, AnswerOK, Answered
  <2>5. CASE Outcome(r) # "none"
    <3>1. declined' = declined /\ result' = [answer |-> Outcome(r), by |-> r]
      BY <1>2, <2>5 DEF Ask
    <3>2. result' # NoApp /\ result'.by = r /\ result'.answer = Outcome(r)
      BY <3>1, <2>5 DEF NoApp
    <3>3. result'.answer \in {"app", "content", "error", "thrown"}
      BY <3>2, <2>3, <2>5 DEF Answers
    <3>4. First(r)'
      BY <2>1, <3>1 DEF First, Left, inputs
    <3> QED BY <2>1, <2>2, <3>1, <3>2, <3>3, <3>4 DEF inputs, AskedInOrder, AnswerOK, Answered
  <2> QED BY <2>1, <2>4, <2>5
<1>3. CASE WriteToNobody
  <2>1. /\ kind = "sock" /\ result.answer = "content"
        /\ result' = [answer |-> "thrown", by |-> result.by] /\ UNCHANGED <<inputs, declined>>
    BY <1>3 DEF WriteToNobody
  <2>2. Answered /\ result \notin {Pending, NoApp}
    BY <2>1 DEF Answered, Pending, NoApp
  <2>3. PICK b \in Asked(config, target) : b = result.by
    BY <2>2 DEF AskedInOrder, AnswerOK
  <2>4. First(b) /\ Outcome(b) = "content"
    BY <2>1, <2>2, <2>3 DEF AskedInOrder
  <2>5. /\ result'.by = b /\ result'.answer = "thrown" /\ result' # NoApp
    BY <2>1, <2>3 DEF NoApp
  <2>6. \A q : (Outcome(q))' = Outcome(q)
    BY <2>1, OutcomesStay
  <2>7. First(b)'
    BY <2>1, <2>4 DEF First, Left, inputs
  <2>8. AnswerOK'
    BY <2>1, <2>3, <2>5 DEF AskedInOrder, AnswerOK, inputs
  <2>9. kind' = "sock" /\ (\A r \in declined' : (Outcome(r))' = "none")
    BY <2>1, <2>6 DEF AskedInOrder, inputs
  <2> QED BY <2>1, <2>4, <2>5, <2>6, <2>7, <2>8, <2>9 DEF AskedInOrder, Answered, inputs
<1> QED BY <1>1, <1>2, <1>3 DEF RoutingNext

\* The locations of earlier servers are asked before those of the one that
\* answers.
LEMMA EarlierDeclined ==
  ASSUME NEW len, ConfigPlaced(len), AskedInOrder
  PROVE  TiesInFileOrder
<1> SUFFICES ASSUME Answered, NEW r \in AllRouters(config),
                    Tied(r.server, result.by.server), r.server < result.by.server
             PROVE  Outcome(r) = "none"
  BY DEF TiesInFileOrder
<1> DEFINE by == result.by
<1>1. First(by) /\ by \in Asked(config, target)
  BY DEF AskedInOrder, First, Left
<1>2. r \in Asked(config, target)
  BY DEF Asked, Tied
<1>3. r.server \in Nat /\ by.server \in Nat
  BY <1>1, RouterPlaces DEF ConfigPlaced, Asked
<1>4. ASSUME r \in Left PROVE FALSE
  <2>1. by # r
    BY <1>3
  <2>2. Before(config, by, r)
    BY <1>1, <1>4, <2>1 DEF First
  <2> QED BY <2>2, <1>3 DEF Before
<1> QED BY <1>2, <1>4 DEF Left, AskedInOrder

\* Those inside the location that answers are asked before it.
LEMMA InnermostAnswers ==
  ASSUME NEW len, ConfigPlaced(len), AskedInOrder
  PROVE  InnermostFirst
<1> SUFFICES ASSUME Answered, NEW r \in AllRouters(config),
                    r.server = result.by.server,
                    Inside(config[r.server].locations, r.location, result.by.location)
             PROVE  Outcome(r) = "none"
  BY DEF InnermostFirst
<1> DEFINE locs == config[r.server].locations
           by == result.by
<1>1. First(by) /\ by \in Asked(config, target)
  BY DEF AskedInOrder, First, Left
<1>2. r \in Asked(config, target)
  BY <1>1 DEF Asked
<1>3. Ordered(locs, len) /\ r.location \in DOMAIN locs /\ by.location \in DOMAIN locs
  BY <1>1, RouterPlaces DEF ConfigPlaced, Asked
<1>4. by.location < r.location /\ by.location # r.location
  <2>1. by.location < r.location
    BY <1>3, OrderedTree, InsideComesLater
  <2> QED BY <2>1, <1>3, OrderedTree, NodesAreNumbers
<1>5. ASSUME r \in Left PROVE FALSE
  <2>1. Before(config, by, r)
    BY <1>1, <1>4, <1>5 DEF First
  <2>2. PostOrder(locs, by.location, r.location)
    <3>1. ~(by.server < r.server)
      BY <1>1, RouterPlaces DEF ConfigPlaced, Asked
    <3> QED BY <2>1, <3>1 DEF Before
  <2>3. PostOrder(locs, r.location, by.location)
    BY DEF PostOrder
  <2> QED BY <1>3, <1>4, <2>2, <2>3, PostOrderTotal
<1> QED BY <1>2, <1>5 DEF Left, AskedInOrder

\* Servers have a score if and only if they are meant.
LEMMA AllAreAsked ==
  ASSUME AskedInOrder
  PROVE  NoneSkipped
<1> DEFINE Meant(s) == /\ config[s].port = target.port
                       /\ AddressOf[config[s].host] \in {Wildcard, target.ip}
                       /\ NameMatches(config[s], target)
<1>1. \A s \in DOMAIN config : Score(config[s], target) > 0 <=> Meant(s)
  BY DEF Score, HostScore
<1>2. ASSUME Answered PROVE result.by.server \in {s \in DOMAIN config : Meant(s)}
  <2>1. result.by \in AllRouters(config) /\ Score(config[result.by.server], target) > 0
    BY <1>2 DEF AskedInOrder, First, Left, Asked
  <2> QED BY <1>1, <2>1, RouterPlaces
<1>3. ASSUME result = NoApp, NEW r \in AllRouters(config),
             r.server \in {s \in DOMAIN config : Meant(s)}
      PROVE  Outcome(r) = "none"
  <2>1. r \in Asked(config, target)
    BY <1>1, <1>3 DEF Asked
  <2> QED BY <1>3, <2>1 DEF AskedInOrder, Left
<1> QED BY <1>2, <1>3 DEF NoneSkipped

(***************************************************************************)
(* The lexer                                                               *)
(***************************************************************************)
Words == Seq(STRING)

LEMMA SubText ==
  ASSUME NEW text \in Words, NEW i, NEW j, i \in 1 .. Len(text) + 1, j \in 0 .. Len(text)
  PROVE  SubSeq(text, i, j) \in Words
<1>1. \A k \in i .. j : text[k] \in STRING
  BY DEF Words
<1> QED BY <1>1, SubSeqProperties DEF Words

LEMMA Stripped ==
  ASSUME NEW text \in Words
  PROVE  StripCR(text) \in Words
<1>1. CASE CR \notin ToSet(text)
  BY <1>1 DEF StripCR
<1>2. CASE \E i \in 1 .. Len(text) : text[i] = CR
  <2> DEFINE I == {i \in 1 .. Len(text) : text[i] = CR}
  <2>1. PICK first \in I : \A y \in I : first <= y
    <3>1. I \in SUBSET Nat /\ I # {}
      BY <1>2
    <3> HIDE DEF I
    <3> QED BY <3>1, NumberMin
  <2>2. SelectInSeq(text, LAMBDA v : v = CR) \in I
    <3>1. SelectInSeq(text, LAMBDA v : v = CR) = CHOOSE x \in I : \A y \in I : x <= y
      BY <2>1 DEF SelectInSeq, Min
    <3> HIDE DEF I
    <3> QED BY <2>1, <3>1
  <2> DEFINE n == SelectInSeq(text, LAMBDA v : v = CR)
  <2>3. RemoveFirst(text, CR) = SubSeq(text, 1, n - 1) \o SubSeq(text, n + 1, Len(text))
    BY <1>2 DEF RemoveFirst, RemoveAt
  <2>4. n \in 1 .. Len(text) /\ Len(text) \in Nat
    BY <2>2 DEF Words
  <2> HIDE DEF n
  <2>5. SubSeq(text, 1, n - 1) \in Words
    BY <2>4, SubText
  <2>6. SubSeq(text, n + 1, Len(text)) \in Words
    BY <2>4, SubText
  <2>7. RemoveFirst(text, CR) \in Words
    BY <2>3, <2>5, <2>6, ConcatProperties DEF Words
  <2> QED BY <2>7 DEF StripCR
<1> QED BY <1>1, <1>2 DEF ToSet, Words

LEMMA FirstCharacter ==
  ASSUME data \in Words, NEW from \in 1 .. Len(data) + 1, NEW chars
  PROVE  /\ FirstIn(from, chars) \in from .. Len(data) + 1
         /\ FirstIn(from, chars) <= Len(data) => data[FirstIn(from, chars)] \in chars
         /\ \A j \in from .. FirstIn(from, chars) - 1 : data[j] \notin chars
         /\ FirstNotIn(from, chars) \in from .. Len(data) + 1
         /\ FirstNotIn(from, chars) <= Len(data) => data[FirstNotIn(from, chars)] \notin chars
         /\ \A j \in from .. FirstNotIn(from, chars) - 1 : data[j] \in chars
<1> DEFINE end == Len(data) + 1
           S == {i \in from .. end : i = end \/ data[i] \in chars}
           T == {i \in from .. end : i = end \/ data[i] \notin chars}
<1>0. Len(data) \in Nat
  BY DEF Words
<1>1. end \in S /\ end \in T /\ S \in SUBSET Nat /\ T \in SUBSET Nat
  BY <1>0
<1>2. PICK x \in S : \A y \in S : x <= y
  <2> HIDE DEF S, T, end
  <2> QED BY <1>1, NumberMin
<1>3. PICK z \in T : \A y \in T : z <= y
  <2> HIDE DEF S, T, end
  <2> QED BY <1>1, NumberMin
<1>4. \A j \in from .. x - 1 : data[j] \notin chars
  <2> TAKE j \in from .. x - 1
  <2>1. j \in from .. end /\ j # end /\ ~(x <= j)
    BY <1>0, <1>2
  <2> QED BY <1>2, <2>1
<1>5. \A j \in from .. z - 1 : data[j] \in chars
  <2> TAKE j \in from .. z - 1
  <2>1. j \in from .. end /\ j # end /\ ~(z <= j)
    BY <1>0, <1>3
  <2> QED BY <1>3, <2>1
<1>6. /\ FirstIn(from, chars) \in from .. end
      /\ FirstIn(from, chars) = end \/ data[FirstIn(from, chars)] \in chars
      /\ \A j \in from .. FirstIn(from, chars) - 1 : data[j] \notin chars
  BY <1>2, <1>4 DEF FirstIn
<1>7. /\ FirstNotIn(from, chars) \in from .. end
      /\ FirstNotIn(from, chars) = end \/ data[FirstNotIn(from, chars)] \notin chars
      /\ \A j \in from .. FirstNotIn(from, chars) - 1 : data[j] \in chars
  BY <1>3, <1>5 DEF FirstNotIn
<1> QED BY <1>0, <1>6, <1>7

\* The recursion of Quoted, from the end of the text.
Kept(c, token) ==
  IF token = LexicalError THEN token ELSE [token EXCEPT !.content = <<c>> \o @]

ReadOn(i, quot, f) ==
  IF i > Len(data) \/ (data[i] = "\\" /\ i = Len(data)) THEN LexicalError
  ELSE IF data[i] = quot THEN Token("WORD", i + 1, << >>)
  ELSE IF data[i] = "\\" THEN Kept(data[i + 1], f[i + 2])
  ELSE Kept(data[i], f[i + 1])

Reads(f, quot, from) == f = [i \in from .. Len(data) + 1 |-> ReadOn(i, quot, f)]

LEMMA ReadingExists ==
  ASSUME Len(data) \in Nat, NEW quot, NEW from \in 1 .. Len(data) + 1
  PROVE  \E f : Reads(f, quot, from)
<1> DEFINE end == Len(data) + 1
           Bad == {k \in Nat : k < end /\ ~ \E f : Reads(f, quot, end - k)}
<1>1. ASSUME Bad # {} PROVE FALSE
  <2>1. PICK k \in Bad : \A j \in Bad : k <= j
    BY <1>1, NumberMin
  <2> DEFINE m == end - k
  <2>2. k \in Nat /\ k < end /\ m \in Nat /\ m <= end /\ m \in m .. end /\ end \in Nat
    BY <2>1
  <2>3. CASE k = 0
    <3> DEFINE f == [i \in end .. end |-> LexicalError]
    <3>1. f = [i \in end .. end |-> ReadOn(i, quot, f)]
      <4> HIDE DEF f
      <4>1. \A i \in end .. end : ReadOn(i, quot, f) = LexicalError
        BY DEF ReadOn
      <4> QED BY <4>1 DEF f
    <3>2. Reads(f, quot, end - k)
      <4> HIDE DEF f
      <4> QED BY <2>3, <3>1, <2>2 DEF Reads
    <3> QED BY <2>1, <3>2
  <2>4. CASE k # 0
    <3>1. k - 1 \in Nat /\ k - 1 < end /\ k - 1 \notin Bad /\ end - (k - 1) = m + 1
      <4>1. k - 1 \in Nat /\ ~(k <= k - 1)
        BY <2>2, <2>4
      <4> QED BY <4>1, <2>1, <2>2
    <3>2. PICK f : Reads(f, quot, m + 1)
      BY <3>1
    <3> DEFINE g == [i \in m .. end |-> IF i = m THEN ReadOn(m, quot, f) ELSE f[i]]
    <3>3. \A i \in m + 1 .. end : g[i] = f[i]
      BY <2>2
    <3>4. ASSUME NEW i \in m .. end PROVE g[i] = ReadOn(i, quot, g)
      <4>1. /\ i < Len(data) => g[i + 2] = f[i + 2]
            /\ i <= Len(data) => g[i + 1] = f[i + 1]
        BY <3>3, <2>2
      <4>2. ReadOn(i, quot, g) = ReadOn(i, quot, f)
        <5> HIDE DEF g
        <5>1. CASE i > Len(data) \/ (data[i] = "\\" /\ i = Len(data))
          BY <5>1 DEF ReadOn
        <5>2. CASE ~(i > Len(data) \/ (data[i] = "\\" /\ i = Len(data)))
          <6>1. g[i + 1] = f[i + 1] /\ (data[i] = "\\" => g[i + 2] = f[i + 2])
            BY <4>1, <5>2, <2>2
          <6> QED BY <6>1 DEF ReadOn
        <5> QED BY <5>1, <5>2
      <4>3. g[i] = ReadOn(i, quot, f)
        <5>1. CASE i = m
          BY <5>1, <2>2
        <5>2. CASE i # m
          <6>1. i \in m + 1 .. end
            BY <5>2, <2>2
          <6> QED BY <6>1, <3>2, <3>3 DEF Reads
        <5> QED BY <5>1, <5>2
      <4> QED BY <4>2, <4>3
    <3>5. Reads(g, quot, m)
      <4> HIDE DEF g
      <4>1. g = [i \in m .. end |-> g[i]]
        BY DEF g
      <4> QED BY <3>4, <4>1 DEF Reads
    <3> HIDE DEF g
    <3> QED BY <2>1, <3>5
  <2> QED BY <2>3, <2>4
<1>2. end - from \in Nat /\ end - from < end /\ end - (end - from) = from
  OBVIOUS
<1> QED BY <1>1, <1>2

\* What the recursion finds: a word that ends within the text, or nothing.
QuotedFrom(i) == [type : {"WORD"}, next : i + 1 .. Len(data) + 1, content : Words]

LEMMA ReadingFinds ==
  ASSUME data \in Words, NEW quot, NEW from \in 1 .. Len(data) + 1, NEW f, Reads(f, quot, from)
  PROVE  \A i \in from .. Len(data) + 1 : f[i] = LexicalError \/ f[i] \in QuotedFrom(i)
<1> DEFINE end == Len(data) + 1
           Good(i) == f[i] = LexicalError \/ f[i] \in QuotedFrom(i)
           Bad == {k \in Nat : k <= end - from /\ ~Good(end - k)}
<1>0. Len(data) \in Nat /\ \A i \in 1 .. Len(data) : data[i] \in STRING
  BY DEF Words
<1>1. Reads(f, quot, from)
  OBVIOUS
<1>3. ASSUME Bad # {} PROVE FALSE
  <2>1. PICK k \in Bad : \A j \in Bad : k <= j
    BY <1>3, NumberMin
  <2> DEFINE m == end - k
  <2>2. k \in Nat /\ m \in from .. end /\ m \in 1 .. end /\ ~Good(m)
    BY <2>1, <1>0
  <2>3. f[m] = ReadOn(m, quot, f)
    BY <2>2, <1>1 DEF Reads
  <2>4. ASSUME NEW i \in m + 1 .. end PROVE Good(i)
    <3>1. end - i \in Nat /\ end - i <= end - from /\ ~(k <= end - i) /\ end - (end - i) = i
      BY <2>2, <1>0
    <3>2. end - i \notin Bad
      BY <2>1, <3>1
    <3> QED BY <3>1, <3>2
  <2>5. ASSUME NEW c \in STRING, NEW i \in m + 1 .. end, Good(i), f[m] = Kept(c, f[i])
        PROVE  FALSE
    <3>1. CASE f[i] = LexicalError
      BY <3>1, <2>2, <2>5 DEF Kept
    <3>2. CASE f[i] # LexicalError
      <4>1. f[i] \in QuotedFrom(i)
        BY <2>5, <3>2
      <4>2. f[m] = [f[i] EXCEPT !.content = <<c>> \o f[i].content]
        BY <2>5, <3>2 DEF Kept
      <4>3. <<c>> \o f[i].content \in Words
        BY <4>1 DEF Words, QuotedFrom
      <4>4. f[i].next \in m + 1 .. end
        BY <4>1, <2>2, <1>0 DEF QuotedFrom
      <4>5. f[m] \in QuotedFrom(m)
        BY <4>1, <4>2, <4>3, <4>4 DEF QuotedFrom
      <4> QED BY <4>5, <2>2
    <3> QED BY <3>1, <3>2
  <2>6. CASE m > Len(data) \/ (data[m] = "\\" /\ m = Len(data))
    BY <2>2, <2>3, <2>6 DEF ReadOn
  <2>7. CASE ~(m > Len(data) \/ (data[m] = "\\" /\ m = Len(data)))
    <3>1. m \in 1 .. Len(data) /\ m + 1 \in m + 1 .. end
      BY <2>2, <2>7, <1>0
    <3>2. CASE data[m] = quot
      <4>1. f[m] = [type |-> "WORD", next |-> m + 1, content |-> << >>]
        BY <2>3, <2>7, <3>2 DEF ReadOn, Token
      <4>2. << >> \in Words
        BY DEF Words
      <4> QED BY <4>1, <4>2, <3>1, <2>2 DEF QuotedFrom
    <3>3. CASE data[m] # quot /\ data[m] = "\\"
      <4>1. m + 2 \in m + 1 .. end /\ m + 1 \in 1 .. Len(data)
        BY <3>1, <3>3, <2>7, <1>0
      <4>2. f[m] = Kept(data[m + 1], f[m + 2])
        BY <2>3, <2>7, <3>3 DEF ReadOn
      <4> QED BY <4>1, <4>2, <2>4, <2>5, <1>0
    <3>4. CASE data[m] # quot /\ data[m] # "\\"
      <4>1. f[m] = Kept(data[m], f[m + 1])
        BY <2>3, <2>7, <3>4 DEF ReadOn
      <4> QED BY <4>1, <3>1, <2>4, <2>5, <1>0
    <3> QED BY <3>2, <3>3, <3>4
  <2> QED BY <2>6, <2>7
<1>4. ASSUME NEW i \in from .. end PROVE Good(i)
  <2>1. end - i \in Nat /\ end - i <= end - from /\ end - (end - i) = i
    BY <1>0
  <2> QED BY <1>3, <2>1
<1> QED BY <1>4

\* What is quoted is a word, which ends within the text.
LEMMA QuotedWord ==
  ASSUME data \in Words, NEW quot, NEW from \in 1 .. Len(data) + 1
  PROVE  LET token == Quoted(from, quot)
         IN  \/ token.type = "ERROR"
             \/ token.type = "WORD" /\ token.next \in from + 1 .. Len(data) + 1 /\ token.content \in Words
<1> DEFINE f == CHOOSE g : Reads(g, quot, from)
<1>0. Len(data) \in Nat
  BY DEF Words
<1>1. Reads(f, quot, from)
  BY <1>0, ReadingExists
<1>2. Quoted(from, quot) = f[from]
  BY DEF Quoted, Reads, ReadOn, Kept
<1> HIDE DEF f
<1>3. f[from] = LexicalError \/ f[from] \in QuotedFrom(from)
  <2>1. \A i \in from .. Len(data) + 1 : f[i] = LexicalError \/ f[i] \in QuotedFrom(i)
    BY <1>1, ReadingFinds
  <2> QED BY <1>0, <2>1
<1>4. LexicalError.type = "ERROR"
  BY DEF LexicalError, Token
<1> QED BY <1>2, <1>3, <1>4 DEF QuotedFrom

Consumed == {"WS", "COMMENT", "WORD", "TERM", "OPENBRACE", "CLOSEBRACE"}

\* A token that is consumed lies within the text.
LEMMA TokenRead ==
  ASSUME data \in Words, offset \in 0 .. Len(data), NextToken.type \in Consumed
  PROVE  /\ NextToken.next \in offset + 1 .. Len(data) + 1
         /\ NextToken.content \in Words
<1> DEFINE start == offset + 1
           first == data[start]
           UpTo(type, next) == Token(type, next, SubSeq(data, start, next - 1))
           end == Len(data) + 1
           Fine(token) == token.next \in start .. end /\ token.content \in Words
<1>0. Len(data) \in Nat
  BY DEF Words
<1>1. \A type, next : UpTo(type, next).type = type /\ UpTo(type, next).next = next
                      /\ UpTo(type, next).content = SubSeq(data, start, next - 1)
  BY DEF Token
<1>2. CASE start > Len(data)
  <2>1. NextToken.type = "EOD"
    BY <1>2 DEF NextToken, Token
  <2> QED BY <2>1 DEF Consumed
<1>3. CASE ~(start > Len(data))
  <2>0. start \in 1 .. Len(data) /\ start \in 1 .. end /\ start + 1 \in 1 .. end /\ start + 1 \in start .. end
    BY <1>0, <1>3
  <2>1. \A type : \A next \in start .. end : Fine(UpTo(type, next))
    <3> TAKE type
    <3> TAKE next \in start .. end
    <3>1. next - 1 \in 0 .. Len(data)
      BY <1>0, <2>0
    <3>2. SubSeq(data, start, next - 1) \in Words
      BY <3>1, <2>0, SubText
    <3> HIDE DEF UpTo
    <3> QED BY <3>2, <1>1
  <2>2. \A chars : FirstIn(start, chars) \in start .. end /\ FirstNotIn(start, chars) \in start .. end
    BY <2>0, FirstCharacter
  <2>3. \A quot : Quoted(start + 1, quot).type # "ERROR" => Fine(Quoted(start + 1, quot))
    <3> TAKE quot
    <3> DEFINE token == Quoted(start + 1, quot)
    <3>1. \/ token.type = "ERROR"
          \/ token.type = "WORD" /\ token.next \in start + 1 + 1 .. end /\ token.content \in Words
      BY <2>0, QuotedWord
    <3> HIDE DEF token
    <3>2. start + 1 + 1 .. end \subseteq start .. end
      BY <1>0, <2>0
    <3> QED BY <3>1, <3>2 DEF token
  <2>4. NextToken = CASE first = ";" -> UpTo("TERM", start + 1)
                      [] first = "{" -> UpTo("OPENBRACE", start + 1)
                      [] first = "}" -> UpTo("CLOSEBRACE", start + 1)
                      [] first = EOL -> UpTo("WS", start + 1)
                      [] first \in Blank -> UpTo("WS", FirstNotIn(start, Blank))
                      [] first = "#" -> UpTo("COMMENT", FirstIn(start, {EOL}))
                      [] first \in Quotes -> Quoted(start + 1, first)
                      [] first = Control -> LexicalError
                      [] OTHER -> UpTo("WORD", FirstIn(start, Special))
    BY <1>3 DEF NextToken
  <2>5. LexicalError.type = "ERROR" /\ "ERROR" \notin Consumed
    BY DEF LexicalError, Token, Consumed
  <2> HIDE DEF UpTo, Fine, first, start
  <2>6. \/ Fine(NextToken)
        \/ NextToken = LexicalError
        \/ NextToken = Quoted(start + 1, first)
    <3>1. /\ Fine(UpTo("TERM", start + 1)) /\ Fine(UpTo("OPENBRACE", start + 1))
          /\ Fine(UpTo("CLOSEBRACE", start + 1)) /\ Fine(UpTo("WS", start + 1))
          /\ Fine(UpTo("WS", FirstNotIn(start, Blank)))
          /\ Fine(UpTo("COMMENT", FirstIn(start, {EOL})))
          /\ Fine(UpTo("WORD", FirstIn(start, Special)))
      BY <2>0, <2>1, <2>2
    <3> QED BY <2>4, <3>1 DEF EOL, Blank, CR, Quotes, Control
  <2>7. Fine(NextToken)
    BY <2>3, <2>5, <2>6
  <2> QED BY <2>7 DEF Fine, start
<1> QED BY <1>2, <1>3

LEMMA NumberMax ==
  ASSUME NEW n \in Nat, NEW S \in SUBSET (1 .. n), S # {}
  PROVE  \E x \in S : \A y \in S : y <= x
<1> DEFINE T == {n - x : x \in S}
<1>1. T \in SUBSET Nat /\ T # {}
  <2>1. \A x \in S : n - x \in Nat
    OBVIOUS
  <2> QED BY <2>1
<1>2. PICK t \in T : \A u \in T : t <= u
  <2> HIDE DEF T
  <2> QED BY <1>1, NumberMin
<1>3. PICK x \in S : t = n - x
  BY <1>2
<1>4. ASSUME NEW y \in S PROVE y <= x
  <2>1. n - x <= n - y
    BY <1>2, <1>3
  <2>2. x \in 1 .. n /\ y \in 1 .. n
    OBVIOUS
  <2> QED BY <2>1, <2>2
<1> QED BY <1>3, <1>4

Greatest(S) == CHOOSE x \in S : \A y \in S : y <= x

LEMMA GreatestIs ==
  ASSUME NEW n \in Nat, NEW S \in SUBSET (1 .. n), S # {}
  PROVE  Greatest(S) \in S /\ \A y \in S : y <= Greatest(S)
BY NumberMax DEF Greatest

Eols(i) == {j \in 1 .. i - 1 : data[j] = EOL}

LEMMA PositionIs ==
  ASSUME NEW i
  PROVE  PositionOf(data, i) =
           [line |-> Cardinality(Eols(i)) + 1,
            col |-> i - IF Eols(i) = {} THEN 0 ELSE Greatest(Eols(i))]
BY DEF PositionOf, Eols, EOL, Greatest

\* Consuming a token, the lexer keeps count of lines and columns.
LEMMA PositionKept ==
  ASSUME data \in Words, offset \in 0 .. Len(data), line \in Nat, col \in Nat,
         Here = PositionOf(data, offset + 1),
         NEW next \in offset + 1 .. Len(data) + 1, Advance(next)
  PROVE  /\ data' = data /\ offset' \in 0 .. Len(data) /\ line' \in Nat /\ col' \in Nat
         /\ Here' = PositionOf(data, offset' + 1)
<1> DEFINE old == {j \in 1 .. offset : data[j] = EOL}
           new == {j \in offset + 1 .. next - 1 : data[j] = EOL}
           all == {j \in 1 .. next - 1 : data[j] = EOL}
           lastOf(S) == IF S = {} THEN 0 ELSE Greatest(S)
<1>0. Len(data) \in Nat /\ offset \in Nat /\ next \in Nat /\ next - 1 \in 0 .. Len(data) /\ next - 1 \in Nat
  BY DEF Words
<1>1. /\ data' = data /\ offset' = next - 1
      /\ line' = line + Cardinality(new)
      /\ col' = IF new = {} THEN col + (next - 1 - offset) ELSE next - Greatest(new)
  BY DEF Advance, Greatest
<1>11. lastOf(old) \in Nat
  <2>1. old \in SUBSET (1 .. offset)
    BY <1>0
  <2> HIDE DEF old
  <2>2. old # {} => Greatest(old) \in 1 .. offset
    BY <2>1, <1>0, GreatestIs
  <2> QED BY <2>2
<1>2. line = Cardinality(old) + 1 /\ col = offset + 1 - lastOf(old)
  <2> DEFINE i == offset + 1
  <2>1. Eols(i) = old
    <3>1. i - 1 = offset
      BY <1>0
    <3> QED BY <3>1 DEF Eols
  <2>2. Here = PositionOf(data, i)
    OBVIOUS
  <2> HIDE DEF i, old
  <2>3. PositionOf(data, i) = [line |-> Cardinality(old) + 1, col |-> i - lastOf(old)]
    BY <2>1, PositionIs
  <2> HIDE DEF lastOf
  <2>4. line = Cardinality(old) + 1 /\ col = i - lastOf(old)
    BY <2>2, <2>3 DEF Here
  <2> QED BY <2>4, <1>0, <1>11 DEF i
<1>3. PositionOf(data, next) = [line |-> Cardinality(all) + 1, col |-> next - lastOf(all)]
  BY PositionIs DEF Eols
<1>4. all = old \cup new /\ old \cap new = {}
  BY <1>0
<1>5. /\ old \in SUBSET (1 .. offset) /\ new \in SUBSET (offset + 1 .. next - 1)
      /\ new \in SUBSET (1 .. next - 1) /\ all \in SUBSET (1 .. next - 1)
  BY <1>0
<1>6. IsFiniteSet(old) /\ IsFiniteSet(new)
  <2> HIDE DEF old, new
  <2>1. IsFiniteSet(1 .. offset) /\ IsFiniteSet(offset + 1 .. next - 1)
    BY <1>0, FS_Interval
  <2> QED BY <2>1, <1>5, FS_Subset
<1> HIDE DEF old, new, all
<1>7. Cardinality(all) = Cardinality(old) + Cardinality(new) /\ Cardinality(old) \in Nat /\ Cardinality(new) \in Nat
  <2>1. Cardinality(old) \in Nat /\ Cardinality(new) \in Nat
    BY <1>6, FS_CardinalityType
  <2>2. Cardinality(old \cup new) = Cardinality(old) + Cardinality(new) - Cardinality(old \cap new)
    BY <1>6, FS_Union
  <2>3. Cardinality(old \cap new) = 0
    BY <1>4, FS_EmptySet
  <2> QED BY <2>1, <2>2, <2>3, <1>4
<1>8. new # {} => Greatest(new) \in new /\ \A y \in new : y <= Greatest(new)
  BY <1>0, <1>5, GreatestIs
<1>9. new # {} => lastOf(all) = Greatest(new)
  <2> SUFFICES ASSUME new # {} PROVE Greatest(all) = Greatest(new)
    BY <1>4
  <2>1. Greatest(all) \in all /\ \A y \in all : y <= Greatest(all)
    BY <1>0, <1>4, <1>5, GreatestIs
  <2>2. Greatest(new) <= Greatest(all) /\ Greatest(new) \in offset + 1 .. next - 1
    BY <2>1, <1>4, <1>5, <1>8
  <2> DEFINE g == Greatest(all)
             h == Greatest(new)
  <2>3. g \in 1 .. next - 1 /\ h \in offset + 1 .. next - 1 /\ h <= g
    BY <2>1, <2>2, <1>5
  <2> HIDE DEF g, h
  <2>4. g \notin 1 .. offset /\ g \in Int /\ h \in Int
    BY <2>3, <1>0
  <2>5. g \in new
    BY <2>1, <2>4, <1>4, <1>5 DEF g
  <2>6. g <= h
    BY <2>5, <1>8 DEF h
  <2>7. g = h
    BY <2>3, <2>4, <2>6
  <2> QED BY <2>7 DEF g, h
<1>10. new = {} => lastOf(all) = lastOf(old)
  BY <1>4
<1>12. line' = Cardinality(all) + 1 /\ col' = next - lastOf(all)
  <2>1. CASE new = {}
    <3>1. col' = col + (next - 1 - offset) /\ lastOf(all) = lastOf(old)
      BY <2>1, <1>1, <1>10
    <3>2. Cardinality(new) = 0
      BY <2>1, FS_EmptySet
    <3>3. col' = next - lastOf(all)
      <4> DEFINE x == lastOf(old)
      <4>1. col' = (offset + 1 - x) + (next - 1 - offset) /\ lastOf(all) = x /\ x \in Nat
        BY <3>1, <1>2, <1>11
      <4> HIDE DEF x, lastOf
      <4> QED BY <4>1, <1>0
    <3> QED BY <3>2, <3>3, <1>1, <1>2, <1>7
  <2>2. CASE new # {}
    BY <2>2, <1>1, <1>2, <1>7, <1>9
  <2> QED BY <2>1, <2>2
<1>13. line' \in Nat /\ col' \in Nat
  <2>1. CASE new = {}
    BY <2>1, <1>0, <1>1, <1>7
  <2>2. CASE new # {}
    <3>1. Greatest(new) \in offset + 1 .. next - 1 /\ col' = next - Greatest(new)
      BY <2>2, <1>1, <1>5, <1>8
    <3> QED BY <3>1, <1>0, <1>1, <1>7
  <2> QED BY <2>1, <2>2
<1>14. offset' + 1 = next
  BY <1>0, <1>1
<1> HIDE DEF lastOf
<1>15. Here' = PositionOf(data, next)
  BY <1>3, <1>12 DEF Here
<1> QED BY <1>0, <1>1, <1>13, <1>14, <1>15

(***************************************************************************)
(* The parser                                                              *)
(***************************************************************************)
Position == [line : Nat, col : Nat]

Directive == [name : Words, args : Seq(Words), parent : Nat, position : Position]

Reasons == {"none", "syntax", "unknown", "place", "arguments", "type", "maxcount", "precludes", "servers",
            "exit"}

\* The types of what is read, and of what is said of it.
FileTypes ==
  /\ doc \in Documents
  /\ data \in Words /\ offset \in 0 .. Len(data) /\ line \in Nat /\ col \in Nat
  /\ nodes \in Seq(Directive) /\ scope \in Nat /\ open \in BOOLEAN
  /\ checked \in Nat /\ (status = "parsing" => checked = 0)
  /\ status \in {"parsing", "checking", "valid", "rejected", "configured"}
  /\ error \in [reason : Reasons, at : Position]

\* Directives that are where they were are inside one another as they were.
LEMMA SameParents ==
  ASSUME NEW locs, NEW len, Ordered(locs, len), NEW more,
         DOMAIN more = DOMAIN locs, \A l \in DOMAIN locs : more[l].parent = locs[l].parent
  PROVE  /\ InFileOrder(more)
         /\ \A a \in DOMAIN locs : \A outer : Inside(more, a, outer) <=> Inside(locs, a, outer)
<1>1. Tree(locs, len)
  BY OrderedTree
<1>2. Tree(more, len)
  BY <1>1 DEF Tree
<1>3. \A a \in DOMAIN locs : \A outer : Inside(more, a, outer) <=> Inside(locs, a, outer)
  BY <1>1, <1>2, InsideUnchanged
<1>4. InFileOrder(more)
  BY <1>3 DEF InFileOrder, Ordered
<1> QED BY <1>3, <1>4

\* A directive is appended in the block that is being read.
LEMMA Appended ==
  ASSUME NEW locs, NEW len, Ordered(locs, len), DOMAIN locs = 1 .. len,
         NEW outer \in 0 .. len, \A n \in outer + 1 .. len : Inside(locs, n, outer),
         NEW more, DOMAIN more = 1 .. len + 1, \A l \in 1 .. len : more[l] = locs[l],
         more[len + 1].parent = outer
  PROVE  /\ InFileOrder(more)
         /\ \A n \in outer + 1 .. len + 1 : Inside(more, n, outer)
<1>0. len \in Nat /\ len + 1 \in Nat
  BY DEF Ordered
<1>1. Tree(locs, len)
  BY OrderedTree
<1>2. \A l \in 1 .. len + 1 : l # len + 1 => l \in 1 .. len
  BY <1>0
<1>3. Tree(more, len + 1)
  <2>1. ASSUME NEW l \in 1 .. len + 1
        PROVE  more[l].parent \in {0} \cup DOMAIN more /\ more[l].parent < l
    <3>1. CASE l = len + 1
      BY <3>1, <1>0
    <3>2. CASE l # len + 1
      <4>1. l \in DOMAIN locs /\ more[l].parent = locs[l].parent
        BY <3>2, <1>2
      <4> QED BY <4>1, <1>0, <1>1 DEF Tree
    <3> QED BY <3>1, <3>2
  <2> QED BY <2>1, <1>0 DEF Tree
<1>4. \A a \in 1 .. len : \A o : Inside(more, a, o) <=> Inside(locs, a, o)
  <2>1. DOMAIN locs \subseteq DOMAIN more
    BY <1>0
  <2>2. \A l \in DOMAIN locs : more[l].parent = locs[l].parent
    OBVIOUS
  <2>3. \A o : \A a \in DOMAIN locs : Inside(more, a, o) <=> Inside(locs, a, o)
    BY <2>1, <2>2, <1>1, <1>3, InsideUnchanged
  <2> QED BY <2>3
<1>5. \A n \in outer + 1 .. len + 1 : Inside(more, n, outer)
  <2> TAKE n \in outer + 1 .. len + 1
  <2>1. CASE n = len + 1
    <3>1. n \in {0} \cup DOMAIN more /\ n # 0
      BY <2>1, <1>0
    <3> QED BY <3>1, <2>1, <1>3, InsideStep
  <2>2. CASE n # len + 1
    <3>1. n \in outer + 1 .. len /\ n \in 1 .. len
      BY <2>2, <1>0
    <3> QED BY <3>1, <1>4
  <2> QED BY <2>1, <2>2
<1>6. InFileOrder(more)
  <2> SUFFICES ASSUME NEW l \in DOMAIN more
               PROVE  /\ more[l].parent \in {0} \cup DOMAIN more /\ more[l].parent < l
                      /\ \A m \in DOMAIN more :
                           more[l].parent < m /\ m < l => Inside(more, m, more[l].parent)
    BY DEF InFileOrder
  <2>1. more[l].parent \in {0} \cup DOMAIN more /\ more[l].parent < l
    BY <1>3 DEF Tree
  <2>2. ASSUME NEW m \in DOMAIN more, more[l].parent < m, m < l
        PROVE  Inside(more, m, more[l].parent)
    <3>1. m \in 1 .. len
      BY <2>2, <1>0
    <3>2. CASE l = len + 1
      BY <2>2, <3>1, <3>2, <1>0, <1>5
    <3>3. CASE l # len + 1
      <4>1. l \in DOMAIN locs /\ more[l].parent = locs[l].parent /\ m \in DOMAIN locs
        BY <3>1, <3>3, <1>2
      <4>2. Inside(locs, m, locs[l].parent)
        BY <4>1, <2>2 DEF Ordered, InFileOrder
      <4> QED BY <4>1, <4>2, <1>4
    <3> QED BY <3>2, <3>3
  <2> QED BY <2>1, <2>2
<1> QED BY <1>5, <1>6

\* What is read of a block is in it; and, when it ends, in the one around it.
ReadInScope(tree, block) == \A n \in block + 1 .. Len(tree) : Inside(tree, n, block)

NodesRead(tree, block) == tree \in Seq(Directive) /\ InFileOrder(tree) /\ block \in 0 .. Len(tree)

LEMMA NodesOrdered ==
  ASSUME NEW tree \in Seq(Directive), InFileOrder(tree)
  PROVE  Ordered(tree, Len(tree)) /\ DOMAIN tree = 1 .. Len(tree) /\ Len(tree) \in Nat
BY DEF Ordered

LEMMA BlockEnds ==
  ASSUME NEW tree, NEW block, NodesRead(tree, block), ReadInScope(tree, block), block # 0
  PROVE  NodesRead(tree, tree[block].parent) /\ ReadInScope(tree, tree[block].parent)
<1> DEFINE p == tree[block].parent
           len == Len(tree)
<1>1. Ordered(tree, len) /\ DOMAIN tree = 1 .. len /\ len \in Nat /\ Tree(tree, len)
  BY NodesOrdered, OrderedTree DEF NodesRead
<1>2. block \in DOMAIN tree /\ p \in {0} \cup DOMAIN tree /\ p < block
  BY <1>1 DEF NodesRead, Tree
<1>3. Inside(tree, block, p)
  BY <1>1, <1>2, InsideStep
<1>4. ASSUME NEW n \in p + 1 .. len PROVE Inside(tree, n, p)
  <2>1. n \in DOMAIN tree
    BY <1>1, <1>2
  <2>2. CASE n < block
    <3>1. p < n
      BY <1>1, <1>2
    <3> QED BY <2>1, <2>2, <3>1, <1>1, <1>2 DEF Ordered, InFileOrder
  <2>3. CASE n = block
    BY <2>3, <1>3
  <2>4. CASE block < n
    <3>1. Inside(tree, n, block)
      BY <2>4, <1>1, <1>2 DEF ReadInScope
    <3> QED BY <3>1, <2>1, <1>1, <1>2, <1>3, InsideTransitive
  <2> QED BY <2>2, <2>3, <2>4, <1>1, <1>2
<1> QED BY <1>1, <1>2, <1>4 DEF NodesRead, ReadInScope

\* What is kept by each step, from which the rest of the invariant follows.
Steady ==
  /\ status = "parsing" => Here = PositionOf(data, offset + 1)
  /\ InPreOrder
  /\ SchemaApplied
  /\ Configured =>
       /\ ConfigPlaced(Len(nodes)) /\ Accepted(config)
       /\ files \in FilesFor(config, target) /\ apps \in AppsFor(config)
       /\ AskedInOrder
  /\ ~Configured => result = Pending /\ declined = {}

TypedInv == FileTypes /\ Steady

\* What the schema says of a file depends on nothing but its directives.
LEMMA ComplaintUnchanged ==
  ASSUME nodes' = nodes
  PROVE  \A n : Complaint(n)' = Complaint(n)
BY DEF Complaint, RuleOf, NameOf, TooMany, PrecludedBy, GetOne, Children, Takes, MinParams, ParamFor, Converts

LEMMA SchemaUnchanged ==
  ASSUME SchemaApplied, UNCHANGED <<nodes, checked, status, error>>
  PROVE  SchemaApplied'
BY ComplaintUnchanged DEF SchemaApplied, Configured

\* A step of the parser that keeps the directives in pre-order keeps all of it.
LEMMA ParserStep ==
  ASSUME TypedInv, status = "parsing", status' = "parsing",
         UNCHANGED <<doc, checked, error, routingVars>>,
         Advance(NextToken.next), NextToken.type \in Consumed,
         open' \in BOOLEAN, open' => nodes' # << >>,
         NodesRead(nodes', scope'), ReadInScope(nodes', scope')
  PROVE  TypedInv'
<1>1. data' = data /\ offset' \in 0 .. Len(data) /\ line' \in Nat /\ col' \in Nat
      /\ Here' = PositionOf(data, offset' + 1)
  BY TokenRead, PositionKept DEF TypedInv, FileTypes, Steady
<1>2. FileTypes'
  <2>1. scope' \in Nat
    BY DEF NodesRead
  <2> QED BY <1>1, <2>1 DEF TypedInv, FileTypes, NodesRead
<1>3. (Here = PositionOf(data, offset + 1))'
  BY <1>1
<1>4. InPreOrder'
  BY DEF InPreOrder, NodesRead, ReadInScope
<1>5. SchemaApplied'
  BY DEF TypedInv, FileTypes, Steady, SchemaApplied, Configured
<1>6. ~Configured' /\ result' = Pending /\ declined' = {}
  BY DEF TypedInv, Steady, Configured, routingVars
<1> QED BY <1>2, <1>3, <1>4, <1>5, <1>6 DEF TypedInv, Steady

LEMMA ConsumeProvides ==
  ASSUME NEW type \in Consumed, Consume(type)
  PROVE  /\ status = "parsing" /\ status' = "parsing" /\ UNCHANGED <<doc, checked, error>>
         /\ NextToken.type \in Consumed /\ Advance(NextToken.next)
BY DEF Consume

LEMMA ParsingFacts ==
  ASSUME TypedInv, status = "parsing"
  PROVE  /\ NodesRead(nodes, scope) /\ ReadInScope(nodes, scope)
         /\ open => nodes # << >>
         /\ Ordered(nodes, Len(nodes)) /\ DOMAIN nodes = 1 .. Len(nodes) /\ Len(nodes) \in Nat
<1>1. nodes \in Seq(Directive) /\ InPreOrder
  BY DEF TypedInv, FileTypes, Steady
<1> QED BY <1>1, NodesOrdered DEF InPreOrder, NodesRead, ReadInScope

LEMMA SkipSound ==
  ASSUME TypedInv, Skip, UNCHANGED routingVars
  PROVE  TypedInv'
<1>1. PICK type \in Consumed : Consume(type)
  BY DEF Skip, Consumed
<1>2. UNCHANGED <<nodes, scope, open>>
  BY DEF Skip, treeVars
<1>3. NodesRead(nodes', scope') /\ ReadInScope(nodes', scope') /\ open' \in BOOLEAN /\ (open' => nodes' # << >>)
  BY <1>1, <1>2, ConsumeProvides, ParsingFacts DEF TypedInv, FileTypes
<1> QED BY <1>1, <1>3, ConsumeProvides, ParserStep

LEMMA ReadTermSound ==
  ASSUME TypedInv, ReadTerm, UNCHANGED routingVars
  PROVE  TypedInv'
<1>1. PICK type \in Consumed : Consume(type)
  BY DEF ReadTerm, Consumed
<1>2. UNCHANGED <<nodes, scope>> /\ open' = FALSE
  BY DEF ReadTerm
<1>3. NodesRead(nodes', scope') /\ ReadInScope(nodes', scope') /\ open' \in BOOLEAN /\ (open' => nodes' # << >>)
  BY <1>1, <1>2, ConsumeProvides, ParsingFacts
<1> QED BY <1>1, <1>3, ConsumeProvides, ParserStep

LEMMA OpenBlockSound ==
  ASSUME TypedInv, OpenBlock, UNCHANGED routingVars
  PROVE  TypedInv'
<1>1. PICK type \in Consumed : Consume(type)
  BY DEF OpenBlock, Consumed
<1>2. nodes' = nodes /\ scope' = Len(nodes) /\ open' = FALSE
  BY DEF OpenBlock
<1>3. NodesRead(nodes', scope') /\ ReadInScope(nodes', scope') /\ open' \in BOOLEAN /\ (open' => nodes' # << >>)
  <2>1. nodes \in Seq(Directive) /\ InFileOrder(nodes) /\ Len(nodes) \in Nat
    BY <1>1, ConsumeProvides, ParsingFacts DEF NodesRead
  <2>2. NodesRead(nodes, Len(nodes)) /\ ReadInScope(nodes, Len(nodes))
    <3>1. \A n \in Len(nodes) + 1 .. Len(nodes) : FALSE
      BY <2>1
    <3> QED BY <2>1, <3>1 DEF NodesRead, ReadInScope
  <2> QED BY <2>2, <1>2
<1> QED BY <1>1, <1>3, ConsumeProvides, ParserStep

LEMMA CloseBlockSound ==
  ASSUME TypedInv, CloseBlock, UNCHANGED routingVars
  PROVE  TypedInv'
<1>1. PICK type \in Consumed : Consume(type)
  BY DEF CloseBlock, Consumed
<1>2. nodes' = nodes /\ scope # 0 /\ scope' = nodes[scope].parent /\ open' = open /\ ~open
  BY DEF CloseBlock, Root
<1>3. NodesRead(nodes, scope) /\ ReadInScope(nodes, scope)
  BY <1>1, ConsumeProvides, ParsingFacts
<1>4. NodesRead(nodes, nodes[scope].parent) /\ ReadInScope(nodes, nodes[scope].parent)
  BY <1>2, <1>3, BlockEnds
<1>5. NodesRead(nodes', scope') /\ ReadInScope(nodes', scope') /\ open' \in BOOLEAN /\ (open' => nodes' # << >>)
  BY <1>2, <1>4 DEF TypedInv, FileTypes
<1> QED BY <1>1, <1>5, ConsumeProvides, ParserStep

\* A word changes the last directive, or appends one to the block being read.
LEMMA WordRead ==
  ASSUME TypedInv, ReadWord
  PROVE  /\ nodes' \in Seq(Directive) /\ nodes' # << >>
         /\ open => /\ Len(nodes') = Len(nodes) /\ DOMAIN nodes' = DOMAIN nodes
                    /\ \A l \in DOMAIN nodes : nodes'[l].parent = nodes[l].parent
                    /\ \A l \in DOMAIN nodes : l # Len(nodes) => nodes'[l] = nodes[l]
                    /\ LET last == nodes[Len(nodes)]
                       IN  nodes'[Len(nodes)] =
                             [last EXCEPT !.args = Append(last.args, NextToken.content)]
         /\ ~open => /\ Len(nodes') = Len(nodes) + 1 /\ DOMAIN nodes' = 1 .. Len(nodes) + 1
                     /\ \A l \in 1 .. Len(nodes) : nodes'[l] = nodes[l]
                     /\ nodes'[Len(nodes) + 1].parent = scope
                     /\ nodes'[Len(nodes) + 1] = [name |-> NextToken.content, args |-> << >>,
                                                  parent |-> scope, position |-> Here]
<1>1. Consume("WORD") /\ "WORD" \in Consumed
  BY DEF ReadWord, Consumed
<1>2. NodesRead(nodes, scope)
  BY <1>1, ConsumeProvides, ParsingFacts
<1>3. DOMAIN nodes = 1 .. Len(nodes) /\ Len(nodes) \in Nat
  BY <1>1, ConsumeProvides, ParsingFacts
<1>4. NextToken.content \in Words
  BY <1>1, ConsumeProvides, TokenRead DEF TypedInv, FileTypes
<1> DEFINE len == Len(nodes)
<1>5. CASE open
  <2> DEFINE last == nodes[len]
             more == [nodes EXCEPT ![len] = [last EXCEPT !.args = Append(last.args, NextToken.content)]]
  <2>0. len \in DOMAIN nodes /\ last \in Directive
    <3>1. nodes # << >>
      BY <1>1, <1>5, ConsumeProvides, ParsingFacts
    <3> QED BY <3>1, <1>2, <1>3 DEF NodesRead
  <2>1. nodes' = more
    BY <1>5, <2>0 DEF ReadWord
  <2>2. Append(last.args, NextToken.content) \in Seq(Words)
    BY <2>0, <1>4 DEF Directive
  <2>3. [last EXCEPT !.args = Append(last.args, NextToken.content)] \in Directive
    BY <2>0, <2>2 DEF Directive
  <2>4. more \in Seq(Directive) /\ Len(more) = len
    <3>1. nodes \in Seq(Directive)
      BY <1>2 DEF NodesRead
    <3> HIDE DEF last
    <3> QED BY <2>0, <2>3, <3>1, <1>3
  <2>5. DOMAIN more = DOMAIN nodes /\ \A l \in DOMAIN nodes : more[l].parent = nodes[l].parent
    BY <2>0 DEF Directive
  <2>7. more[len] = [last EXCEPT !.args = Append(last.args, NextToken.content)]
        /\ \A l \in DOMAIN nodes : l # len => more[l] = nodes[l]
    BY <2>0
  <2> HIDE DEF more
  <2>6. more # << >>
    BY <2>0, <2>5
  <2> QED BY <1>5, <2>1, <2>4, <2>5, <2>6, <2>7
<1>6. CASE ~open
  <2> DEFINE new == [name |-> NextToken.content, args |-> << >>, parent |-> scope, position |-> Here]
             more == Append(nodes, new)
  <2>1. nodes' = more
    BY <1>6 DEF ReadWord
  <2>2. new \in Directive
    <3>1. Here \in Position
      BY DEF TypedInv, FileTypes, Here, Position
    <3>2. scope \in Nat
      BY DEF TypedInv, FileTypes
    <3>3. << >> \in Seq(Words)
      OBVIOUS
    <3> QED BY <1>4, <3>1, <3>2, <3>3 DEF Directive
  <2>3. /\ more \in Seq(Directive) /\ Len(more) = len + 1 /\ more # << >>
        /\ \A l \in 1 .. len : more[l] = nodes[l]
        /\ more[len + 1] = new /\ DOMAIN more = 1 .. len + 1
    <3> HIDE DEF new
    <3> QED BY <2>2, <1>2, AppendProperties DEF NodesRead
  <2>4. more[len + 1].parent = scope
    BY <2>3
  <2> HIDE DEF more
  <2> QED BY <1>6, <2>1, <2>3, <2>4
<1> QED BY <1>5, <1>6

LEMMA ReadWordSound ==
  ASSUME TypedInv, ReadWord, UNCHANGED routingVars
  PROVE  TypedInv'
<1>1. Consume("WORD") /\ "WORD" \in Consumed
  BY DEF ReadWord, Consumed
<1>2. scope' = scope /\ open' = TRUE
  BY DEF ReadWord
<1>3. NodesRead(nodes, scope) /\ ReadInScope(nodes, scope)
  BY <1>1, ConsumeProvides, ParsingFacts
<1>4. Ordered(nodes, Len(nodes)) /\ DOMAIN nodes = 1 .. Len(nodes) /\ Len(nodes) \in Nat
  BY <1>1, ConsumeProvides, ParsingFacts
<1> DEFINE len == Len(nodes)
           more == nodes'
<1>5. more \in Seq(Directive) /\ more # << >>
  BY WordRead
<1>6. CASE open
  <2>1. /\ Len(more) = len /\ DOMAIN more = DOMAIN nodes
        /\ \A l \in DOMAIN nodes : more[l].parent = nodes[l].parent
    BY <1>6, WordRead
  <2>2. InFileOrder(more) /\ \A a \in DOMAIN nodes : \A outer : Inside(more, a, outer) <=> Inside(nodes, a, outer)
    BY <2>1, <1>4, SameParents
  <2>3. NodesRead(more, scope) /\ ReadInScope(more, scope)
    <3>1. \A n \in scope + 1 .. len : n \in DOMAIN nodes
      BY <1>3, <1>4 DEF NodesRead
    <3> QED BY <3>1, <1>3, <1>5, <2>1, <2>2 DEF NodesRead, ReadInScope
  <2> QED BY <1>1, <1>2, <1>5, <2>3, ConsumeProvides, ParserStep
<1>7. CASE ~open
  <2>1. /\ Len(more) = len + 1 /\ DOMAIN more = 1 .. len + 1
        /\ \A l \in 1 .. len : more[l] = nodes[l]
        /\ more[len + 1].parent = scope
    BY <1>7, WordRead
  <2>2. InFileOrder(more) /\ \A n \in scope + 1 .. len + 1 : Inside(more, n, scope)
    BY <2>1, <1>3, <1>4, Appended DEF NodesRead, ReadInScope
  <2>3. NodesRead(more, scope) /\ ReadInScope(more, scope)
    BY <2>1, <2>2, <1>3, <1>4, <1>5 DEF NodesRead, ReadInScope
  <2> QED BY <1>1, <1>2, <1>5, <2>3, ConsumeProvides, ParserStep
<1> QED BY <1>6, <1>7

\* The parser stops, and nothing has been checked.
LEMMA ParsingEnds ==
  ASSUME TypedInv, status = "parsing", UNCHANGED <<doc, lexVars, treeVars, checked>>, UNCHANGED routingVars,
         \/ status' = "checking" /\ error' = error
         \/ status' = "rejected" /\ error' \in [reason : {"syntax"}, at : Position]
  PROVE  TypedInv'
<1>1. /\ data' = data /\ offset' = offset /\ line' = line /\ col' = col
      /\ nodes' = nodes /\ scope' = scope /\ open' = open /\ checked' = checked /\ doc' = doc
  BY DEF lexVars, treeVars
<1>2. checked = 0 /\ checked \in 0 .. Len(nodes) /\ error.reason = "none"
  BY DEF TypedInv, FileTypes, Steady, SchemaApplied
<1>3. status' # "parsing" /\ ~Configured'
  BY DEF Configured
<1>4. FileTypes'
  BY <1>1, <1>3 DEF TypedInv, FileTypes, Reasons
<1>5. InPreOrder'
  <2>1. InFileOrder(nodes)' /\ (scope \in 0 .. Len(nodes))' /\ (open => nodes # << >>)'
    BY <1>1 DEF TypedInv, Steady, InPreOrder
  <2> QED BY <2>1, <1>3 DEF InPreOrder
<1>6. SchemaApplied'
  BY <1>1, <1>2, <1>3 DEF SchemaApplied
<1>7. result' = Pending /\ declined' = {}
  BY DEF TypedInv, Steady, Configured, routingVars
<1> QED BY <1>3, <1>4, <1>5, <1>6, <1>7 DEF TypedInv, Steady

LEMMA SyntaxErrorSound ==
  ASSUME TypedInv, SyntaxError, UNCHANGED routingVars
  PROVE  TypedInv'
<1>1. /\ status = "parsing" /\ status' = "rejected" /\ UNCHANGED <<doc, lexVars, treeVars, checked>>
      /\ error' = [reason |-> "syntax", at |-> Here]
  BY DEF SyntaxError, Reject
<1>2. Here \in Position
  BY DEF TypedInv, FileTypes, Here, Position
<1> QED BY <1>1, <1>2, ParsingEnds

LEMMA EndOfDataSound ==
  ASSUME TypedInv, EndOfData, UNCHANGED routingVars
  PROVE  TypedInv'
<1>1. status = "parsing"
  BY DEF EndOfData
<1>2. ASSUME NEW n \in DOMAIN nodes PROVE nodes[n].position \in Position
  <2>1. nodes[n] \in Directive
    BY DEF TypedInv, FileTypes
  <2> QED BY <2>1 DEF Directive
<1>3. /\ open => Len(nodes) \in DOMAIN nodes
      /\ scope # 0 => scope \in DOMAIN nodes
  BY <1>1, ParsingFacts DEF NodesRead
<1>4. CASE ~open /\ scope = Root
  BY <1>1, <1>4, ParsingEnds DEF EndOfData
<1>5. CASE open \/ scope # Root
  <2>1. PICK n \in DOMAIN nodes : Reject("syntax", nodes[n].position)
    BY <1>3, <1>5 DEF EndOfData, Root
  <2> QED BY <2>1, <1>1, <1>2, ParsingEnds DEF Reject
<1> QED BY <1>4, <1>5

(***************************************************************************)
(* The schema                                                              *)
(***************************************************************************)
Faulty == {"unknown", "place", "arguments", "type", "maxcount", "precludes"}

LEMMA ComplaintType ==
  ASSUME TypedInv, NEW n \in DOMAIN nodes
  PROVE  Complaint(n) = NoError \/ Complaint(n) \in [reason : Faulty, at : Position]
<1> DEFINE About(reason, m) ==
             [reason |-> reason, at |-> IF m = Root THEN NoPosition ELSE nodes[m].position]
<1>1. \A m \in DOMAIN nodes : nodes[m].position \in Position
  <2> TAKE m \in DOMAIN nodes
  <2>1. nodes[m] \in Directive
    BY DEF TypedInv, FileTypes
  <2> QED BY <2>1 DEF Directive
<1>2. nodes[n].parent \in {0} \cup DOMAIN nodes
  BY DEF TypedInv, Steady, InPreOrder, InFileOrder
<1>3. \A m \in {0} \cup DOMAIN nodes : \A reason \in Faulty : About(reason, m) \in [reason : Faulty, at : Position]
  BY <1>1 DEF Root, NoPosition, Position
<1>4. Complaint(n) \in {About("unknown", n), About("place", n), About("arguments", n), About("type", Root),
                        About("maxcount", n), About("precludes", nodes[n].parent), NoError}
  <2> DEFINE unknown == nodes[n].name \notin DOMAIN Rules
             misplaced == NameOf(nodes[n].parent) \notin RuleOf(n).at
             miscounted == ~Takes(RuleOf(n), Len(nodes[n].args))
             mistyped == \E i \in DOMAIN nodes[n].args : ~Converts(ParamFor(RuleOf(n), i), nodes[n].args[i])
  <2>1. Complaint(n) = IF unknown THEN About("unknown", n)
                       ELSE IF misplaced THEN About("place", n)
                       ELSE IF miscounted THEN About("arguments", n)
                       ELSE IF mistyped THEN About("type", Root)
                       ELSE IF TooMany(n) THEN About("maxcount", n)
                       ELSE IF PrecludedBy(n) THEN About("precludes", nodes[n].parent)
                       ELSE NoError
    BY DEF Complaint
  <2> HIDE DEF About, unknown, misplaced, miscounted, mistyped
  <2> QED BY <2>1
<1> HIDE DEF About
<1>5. /\ {"unknown", "place", "arguments", "type", "maxcount", "precludes"} \subseteq Faulty
      /\ {n, Root, nodes[n].parent} \subseteq {0} \cup DOMAIN nodes
  BY <1>2 DEF Faulty, Root
<1>6. {About("unknown", n), About("place", n), About("arguments", n), About("type", Root),
       About("maxcount", n), About("precludes", nodes[n].parent)} \subseteq [reason : Faulty, at : Position]
  <2> DEFINE Errors == [reason : Faulty, at : Position]
  <2> HIDE DEF Errors
  <2>1. \A m \in {n, Root, nodes[n].parent} : \A reason \in Faulty : About(reason, m) \in Errors
    BY <1>3, <1>5 DEF Errors
  <2>2. {About("unknown", n), About("place", n), About("arguments", n), About("type", Root),
         About("maxcount", n), About("precludes", nodes[n].parent)} \subseteq Errors
    BY <2>1, <1>5
  <2> QED BY <2>2 DEF Errors
<1> QED BY <1>4, <1>6

\* The schema is applied, and the directives stay.
LEMMA CheckingStep ==
  ASSUME TypedInv, ~Configured, status # "parsing", status' \notin {"parsing", "configured"},
         UNCHANGED <<doc, lexVars, treeVars>>, UNCHANGED routingVars,
         checked' \in Nat, status' \in {"checking", "valid", "rejected"},
         error' \in [reason : Reasons, at : Position], SchemaApplied'
  PROVE  TypedInv'
<1>1. /\ data' = data /\ offset' = offset /\ line' = line /\ col' = col
      /\ nodes' = nodes /\ scope' = scope /\ open' = open /\ doc' = doc
  BY DEF lexVars, treeVars
<1>2. FileTypes'
  BY <1>1 DEF TypedInv, FileTypes
<1>3. InPreOrder'
  <2>1. InFileOrder(nodes)' /\ (scope \in 0 .. Len(nodes))' /\ (open => nodes # << >>)'
    BY <1>1 DEF TypedInv, Steady, InPreOrder
  <2> QED BY <2>1 DEF InPreOrder
<1>4. ~Configured' /\ result' = Pending /\ declined' = {}
  BY DEF TypedInv, Steady, Configured, routingVars
<1> QED BY <1>2, <1>3, <1>4 DEF TypedInv, Steady

LEMMA CheckDirectiveSound ==
  ASSUME TypedInv, CheckDirective, UNCHANGED routingVars
  PROVE  TypedInv'
<1>1. status = "checking" /\ checked \in 0 .. Len(nodes) /\ checked < Len(nodes) /\ ~Configured /\ SchemaApplied
      /\ nodes' = nodes /\ nodes \in Seq(Directive)
  BY DEF CheckDirective, TypedInv, FileTypes, Steady, SchemaApplied, Configured, treeVars
<1>2. checked + 1 \in DOMAIN nodes /\ checked \in Nat /\ Len(nodes) \in Nat
  BY <1>1
<1>3. \A n : Complaint(n)' = Complaint(n)
  BY <1>1, ComplaintUnchanged
<1>4. error.reason = "none" /\ \A n \in 1 .. checked : Complaint(n) = NoError
  BY <1>1 DEF SchemaApplied
<1>5. CASE Complaint(checked + 1) = NoError
  <2>1. checked' = checked + 1 /\ UNCHANGED <<doc, lexVars, treeVars, status, error>>
    BY <1>5 DEF CheckDirective
  <2>2. \A n \in 1 .. checked + 1 : Complaint(n) = NoError
    <3>1. \A n \in 1 .. checked + 1 : n \in 1 .. checked \/ n = checked + 1
      BY <1>2
    <3> QED BY <3>1, <1>4, <1>5
  <2>3. SchemaApplied'
    BY <2>1, <2>2, <1>1, <1>2, <1>3, <1>4 DEF SchemaApplied, Configured
  <2> QED BY <2>1, <2>3, <1>1, <1>2, CheckingStep DEF TypedInv, FileTypes
<1>6. CASE Complaint(checked + 1) # NoError
  <2>1. /\ status' = "rejected" /\ error' = Complaint(checked + 1)
        /\ UNCHANGED <<doc, lexVars, treeVars, checked>>
    BY <1>6 DEF CheckDirective
  <2>2. error' \in [reason : Faulty, at : Position]
    BY <2>1, <1>2, <1>6, ComplaintType
  <2>3. error'.reason \in Faulty
    BY <2>2
  <2>4. SchemaApplied'
    BY <2>1, <2>3, <1>1, <1>2, <1>3, <1>4 DEF SchemaApplied, Configured, Faulty
  <2>5. error' \in [reason : Reasons, at : Position]
    BY <2>2 DEF Faulty, Reasons
  <2> QED BY <2>1, <2>4, <2>5, <1>1, <1>2, CheckingStep
<1> QED BY <1>5, <1>6

LEMMA ConformingSound ==
  ASSUME TypedInv, Conforming, UNCHANGED routingVars
  PROVE  TypedInv'
<1>1. /\ status = "checking" /\ checked = Len(nodes) /\ status' = "valid" /\ ~Configured /\ SchemaApplied
      /\ UNCHANGED <<doc, lexVars, treeVars, checked, error>> /\ nodes' = nodes
      /\ checked \in Nat /\ error \in [reason : Reasons, at : Position]
  BY DEF Conforming, TypedInv, FileTypes, Steady, Configured, treeVars
<1>2. \A n : Complaint(n)' = Complaint(n)
  BY <1>1, ComplaintUnchanged
<1>3. SchemaApplied'
  BY <1>1, <1>2 DEF SchemaApplied, Configured
<1> QED BY <1>1, <1>3, CheckingStep

LEMMA RefuseSound ==
  ASSUME TypedInv, Refuse
  PROVE  TypedInv'
<1>1. /\ status = "valid" /\ status' = "rejected" /\ ~Configured /\ SchemaApplied
      /\ UNCHANGED <<doc, lexVars, treeVars, checked>> /\ nodes' = nodes /\ UNCHANGED routingVars
      /\ checked \in Nat
      /\ error' \in [reason : {"servers", "exit"}, at : {NoPosition}]
  BY DEF Refuse, Reject, TypedInv, FileTypes, Steady, Configured, treeVars
<1>2. \A n : Complaint(n)' = Complaint(n)
  BY <1>1, ComplaintUnchanged
<1>3. SchemaApplied'
  <2>1. error'.reason \in {"servers", "exit"}
    BY <1>1
  <2> QED BY <2>1, <1>1, <1>2 DEF SchemaApplied, Configured
<1>4. error' \in [reason : Reasons, at : Position]
  BY <1>1 DEF Reasons, NoPosition, Position
<1> QED BY <1>1, <1>3, <1>4, CheckingStep

ArgumentsFit(n) ==
  /\ Takes(RuleOf(n), Len(nodes[n].args))
  /\ \A i \in DOMAIN nodes[n].args : Converts(ParamFor(RuleOf(n), i), nodes[n].args[i])

LEMMA NoComplaint ==
  ASSUME NEW n
  PROVE  Complaint(n) = NoError
           <=> /\ nodes[n].name \in DOMAIN Rules
               /\ NameOf(nodes[n].parent) \in RuleOf(n).at
               /\ ArgumentsFit(n)
               /\ ~TooMany(n)
               /\ ~PrecludedBy(n)
<1> DEFINE About(reason, m) ==
             [reason |-> reason, at |-> IF m = Root THEN NoPosition ELSE nodes[m].position]
           unknown == nodes[n].name \notin DOMAIN Rules
           misplaced == NameOf(nodes[n].parent) \notin RuleOf(n).at
           miscounted == ~Takes(RuleOf(n), Len(nodes[n].args))
           mistyped == \E i \in DOMAIN nodes[n].args : ~Converts(ParamFor(RuleOf(n), i), nodes[n].args[i])
<1>1. Complaint(n) = IF unknown THEN About("unknown", n)
                     ELSE IF misplaced THEN About("place", n)
                     ELSE IF miscounted THEN About("arguments", n)
                     ELSE IF mistyped THEN About("type", Root)
                     ELSE IF TooMany(n) THEN About("maxcount", n)
                     ELSE IF PrecludedBy(n) THEN About("precludes", nodes[n].parent)
                     ELSE NoError
  BY DEF Complaint
<1>2. \A reason, m : reason # "none" => About(reason, m) # NoError
  BY DEF NoError
<1>3. ArgumentsFit(n) <=> ~miscounted /\ ~mistyped
  BY DEF ArgumentsFit
<1> HIDE DEF About, miscounted, mistyped
<1> QED BY <1>1, <1>2, <1>3

\* A set of numbers that has those below each of its elements.
LEMMA InitialNumbers ==
  ASSUME NEW n \in Nat, NEW S \in SUBSET (1 .. n), \A i \in 1 .. n, j \in S : i < j => i \in S
  PROVE  Cardinality(S) \in Nat /\ S = 1 .. Cardinality(S)
<1>1. CASE S = {}
  <2>1. Cardinality(S) = 0
    BY <1>1, FS_EmptySet
  <2> QED BY <2>1, <1>1
<1>2. CASE S # {}
  <2> DEFINE g == Greatest(S)
  <2>1. g \in S /\ \A y \in S : y <= g
    BY <1>2, GreatestIs
  <2> HIDE DEF g
  <2>2. g \in 1 .. n
    BY <2>1
  <2>3. S = 1 .. g
    <3>1. \A i \in 1 .. g : i \in S
      <4> TAKE i \in 1 .. g
      <4>1. i \in 1 .. n /\ (i < g \/ i = g)
        BY <2>2
      <4> QED BY <4>1, <2>1
    <3>2. \A i \in S : i \in 1 .. g
      BY <2>1, <2>2
    <3> QED BY <3>1, <3>2
  <2>4. Cardinality(1 .. g) = g
    BY <2>2, FS_Interval
  <2> QED BY <2>2, <2>3, <2>4
<1> QED BY <1>1, <1>2

LEMMA ArgumentsConform ==
  ASSUME NEW n \in DOMAIN nodes, nodes \in Seq(Directive), nodes[n].name \in DOMAIN Rules
  PROVE  LET node == nodes[n]
             rule == Rules[node.name]
         IN  ArgumentsFit(n)
               <=> /\ {i \in DOMAIN rule.params : rule.params[i].kind = "required"} \subseteq DOMAIN node.args
                   /\ \A i \in DOMAIN node.args :
                        \E p \in DOMAIN rule.params :
                          /\ p = i \/ (p < i /\ rule.params[p].kind = "vararg")
                          /\ Converts(rule.params[p], node.args[i])
<1> DEFINE node == nodes[n]
           args == node.args
           rule == Rules[node.name]
           params == rule.params
           required == {i \in DOMAIN params : params[i].kind = "required"}
<1>1. args \in Seq(Words) /\ DOMAIN args = 1 .. Len(args) /\ Len(args) \in Nat
  <2>1. nodes[n] \in Directive
    OBVIOUS
  <2> QED BY <2>1 DEF Directive
<1>2. /\ DOMAIN params = 1 .. Len(params) /\ Len(params) \in Nat
      /\ InParamOrder(params)
  BY ConfigFileAssumption
<1>3. RuleOf(n) = rule
  BY DEF RuleOf
<1> HIDE DEF args, params
<1>4. Cardinality(required) \in Nat /\ required = 1 .. Cardinality(required)
  <2>1. required \in SUBSET (1 .. Len(params))
    BY <1>2
  <2>2. \A i \in 1 .. Len(params), j \in required : i < j => i \in required
    BY <1>2 DEF InParamOrder
  <2> HIDE DEF required
  <2> QED BY <2>1, <2>2, <1>2, InitialNumbers
<1>5. MinParams(rule) = Cardinality(required)
  BY DEF MinParams, params
<1>6. Len(args) >= MinParams(rule) <=> required \subseteq DOMAIN args
  <2> HIDE DEF required
  <2>1. 1 .. Cardinality(required) \subseteq 1 .. Len(args) <=> Cardinality(required) <= Len(args)
    BY <1>1, <1>4
  <2> QED BY <2>1, <1>1, <1>4, <1>5
<1> DEFINE Varied == \E i \in DOMAIN params : params[i].kind = "vararg"
           Fit(i, p) == (p = i \/ (p < i /\ params[p].kind = "vararg")) /\ Converts(params[p], args[i])
<1>7. Takes(rule, Len(args)) <=> required \subseteq DOMAIN args /\ (Len(args) > Len(params) => Varied)
  BY <1>6 DEF Takes, params
<1>8. \A p \in DOMAIN params : params[p].kind = "vararg" => p = Len(params)
  <2> TAKE p \in DOMAIN params
  <2>1. p < Len(params) => params[p].kind # "vararg"
    <3>1. p < Len(params) => Len(params) \in DOMAIN params
      BY <1>2
    <3> QED BY <3>1, <1>2 DEF InParamOrder
  <2> QED BY <2>1, <1>2
<1>9. \A i : ParamFor(rule, i) = params[IF i <= Len(params) THEN i ELSE Len(params)]
  BY DEF ParamFor, params
<1>10. ASSUME NEW i \in DOMAIN args, i <= Len(params)
       PROVE  Converts(ParamFor(rule, i), args[i]) <=> \E p \in DOMAIN params : Fit(i, p)
  <2>1. i \in DOMAIN params /\ ParamFor(rule, i) = params[i]
    BY <1>1, <1>2, <1>9, <1>10
  <2>2. \A p \in DOMAIN params : p < i => params[p].kind # "vararg"
    BY <2>1, <1>2 DEF InParamOrder
  <2> QED BY <2>1, <2>2
<1>11. ASSUME NEW i \in DOMAIN args, ~(i <= Len(params)), Varied
       PROVE  Converts(ParamFor(rule, i), args[i]) <=> \E p \in DOMAIN params : Fit(i, p)
  <2>1. Len(params) \in DOMAIN params /\ params[Len(params)].kind = "vararg"
    BY <1>8, <1>11
  <2>2. ParamFor(rule, i) = params[Len(params)] /\ Len(params) < i
    BY <1>1, <1>2, <1>9, <1>11
  <2>3. \A p \in DOMAIN params : p # i
    BY <1>1, <1>2, <1>11
  <2> QED BY <2>1, <2>2, <2>3, <1>8
<1>12. ASSUME NEW i \in DOMAIN args, ~(i <= Len(params)), ~Varied
       PROVE  ~ \E p \in DOMAIN params : Fit(i, p)
  BY <1>1, <1>2, <1>12
<1>13. (\E i \in DOMAIN args : ~(i <= Len(params))) <=> Len(args) > Len(params)
  <2>1. ASSUME Len(args) > Len(params) PROVE Len(args) \in DOMAIN args /\ ~(Len(args) <= Len(params))
    BY <2>1, <1>1, <1>2
  <2>2. ASSUME NEW i \in DOMAIN args, ~(i <= Len(params)) PROVE Len(args) > Len(params)
    BY <2>2, <1>1, <1>2
  <2> QED BY <2>1, <2>2
<1> HIDE DEF Varied, Fit, required, rule
<1>14. ArgumentsFit(n) <=> Takes(rule, Len(args)) /\ \A i \in DOMAIN args : Converts(ParamFor(rule, i), args[i])
  BY <1>3 DEF ArgumentsFit, args
<1>15. ArgumentsFit(n) <=> required \subseteq DOMAIN args /\ \A i \in DOMAIN args : \E p \in DOMAIN params : Fit(i, p)
  <2>1. CASE Len(args) > Len(params) => Varied
    <3>1. \A i \in DOMAIN args : Converts(ParamFor(rule, i), args[i]) <=> \E p \in DOMAIN params : Fit(i, p)
      BY <2>1, <1>10, <1>11, <1>13
    <3> QED BY <3>1, <2>1, <1>7, <1>14
  <2>2. CASE Len(args) > Len(params) /\ ~Varied
    <3>1. ~ \A i \in DOMAIN args : \E p \in DOMAIN params : Fit(i, p)
      BY <2>2, <1>12, <1>13
    <3> QED BY <3>1, <2>2, <1>7, <1>14
  <2> QED BY <2>1, <2>2
<1> QED BY <1>15 DEF required, Fit, args, params, rule

Namesakes(n) == {m \in Children(nodes[n].parent) : nodes[m].name = nodes[n].name}

LEMMA CountsConform ==
  ASSUME nodes \in Seq(Directive), \A n \in DOMAIN nodes : nodes[n].name \in DOMAIN Rules
  PROVE  (\A n \in DOMAIN nodes : ~TooMany(n))
           <=> \A n \in DOMAIN nodes : Cardinality(Namesakes(n)) <= RuleOf(n).maxcount
<1> DEFINE first(n, k) == {m \in Namesakes(n) : m <= k}
<1>1. Len(nodes) \in Nat /\ DOMAIN nodes = 1 .. Len(nodes)
  OBVIOUS
<1>2. \A n \in DOMAIN nodes : RuleOf(n).maxcount \in Nat
  <2> TAKE n \in DOMAIN nodes
  <2>1. RuleOf(n).maxcount \in 1 .. Unlimited
    BY ConfigFileAssumption DEF RuleOf
  <2>2. \A i \in 1 .. Unlimited : i \in Nat
    BY ConfigFileAssumption
  <2> QED BY <2>1, <2>2
<1>3. \A n \in DOMAIN nodes : TooMany(n) <=> Cardinality(first(n, n)) > RuleOf(n).maxcount
  <2> TAKE n \in DOMAIN nodes
  <2>1. first(n, n) = {m \in Children(nodes[n].parent) : m <= n /\ nodes[m].name = nodes[n].name}
    BY DEF Namesakes
  <2> QED BY <2>1 DEF TooMany
<1>4. \A n \in DOMAIN nodes : n \in Namesakes(n) /\ Namesakes(n) \in SUBSET (1 .. Len(nodes))
  BY <1>1 DEF Namesakes, Children
<1>5. \A n \in DOMAIN nodes : /\ IsFiniteSet(Namesakes(n)) /\ Cardinality(Namesakes(n)) \in Nat
                              /\ Cardinality(first(n, n)) \in Nat
                              /\ Cardinality(first(n, n)) <= Cardinality(Namesakes(n))
  <2> TAKE n \in DOMAIN nodes
  <2>1. IsFiniteSet(1 .. Len(nodes))
    BY <1>1, FS_Interval
  <2>2. IsFiniteSet(Namesakes(n))
    BY <2>1, <1>4, FS_Subset
  <2>3. first(n, n) \in SUBSET Namesakes(n)
    OBVIOUS
  <2> HIDE DEF first
  <2>4. IsFiniteSet(first(n, n)) /\ Cardinality(first(n, n)) <= Cardinality(Namesakes(n))
    BY <2>2, <2>3, FS_Subset
  <2> QED BY <2>2, <2>4, FS_CardinalityType
<1>6. ASSUME \A n \in DOMAIN nodes : ~TooMany(n), NEW n \in DOMAIN nodes
      PROVE  Cardinality(Namesakes(n)) <= RuleOf(n).maxcount
  <2>1. PICK g \in Namesakes(n) : \A m \in Namesakes(n) : m <= g
    BY <1>1, <1>4, NumberMax
  <2>2. g \in DOMAIN nodes /\ nodes[g].parent = nodes[n].parent /\ nodes[g].name = nodes[n].name
    BY <2>1 DEF Namesakes, Children
  <2>3. Namesakes(g) = Namesakes(n) /\ RuleOf(g) = RuleOf(n)
    BY <2>2 DEF Namesakes, RuleOf
  <2>4. first(g, g) = Namesakes(n)
    BY <2>1, <2>3
  <2> HIDE DEF first
  <2>5. ~(Cardinality(Namesakes(n)) > RuleOf(n).maxcount)
    BY <2>2, <2>3, <2>4, <1>3, <1>6
  <2> QED BY <2>5, <1>2, <1>5
<1> HIDE DEF first
<1>7. ASSUME \A n \in DOMAIN nodes : Cardinality(Namesakes(n)) <= RuleOf(n).maxcount, NEW n \in DOMAIN nodes
      PROVE  ~TooMany(n)
  BY <1>2, <1>3, <1>5, <1>7
<1> QED BY <1>6, <1>7

LEMMA PrecludesConform ==
  ASSUME NEW n, nodes \in Seq(Directive)
  PROVE  ~PrecludedBy(n)
           <=> \A m \in Children(nodes[n].parent) : nodes[m].name \notin RuleOf(n).precludes
<1>1. ASSUME NEW name
      PROVE  GetOne(nodes[n].parent, name) # Root
               <=> \E m \in Children(nodes[n].parent) : nodes[m].name = name
  <2> DEFINE found == {m \in Children(nodes[n].parent) : nodes[m].name = name}
  <2>1. found \in SUBSET Nat /\ 0 \notin found
    BY DEF Children
  <2>2. found = {} => GetOne(nodes[n].parent, name) = Root
    BY DEF GetOne
  <2>3. ASSUME found # {} PROVE GetOne(nodes[n].parent, name) \in found
    <3> DEFINE least == CHOOSE m \in found : \A k \in found : m <= k
    <3>1. \E m \in found : \A k \in found : m <= k
      <4> HIDE DEF found
      <4> QED BY <2>1, <2>3, NumberMin
    <3>2. least \in found
      <4> HIDE DEF found
      <4> QED BY <3>1
    <3>3. GetOne(nodes[n].parent, name) = least
      BY <2>3 DEF GetOne
    <3> QED BY <3>2, <3>3
  <2> QED BY <2>1, <2>2, <2>3 DEF Root
<1> QED BY <1>1 DEF PrecludedBy

\* A file conforms if and only if there is nothing to be said of a directive.
LEMMA NothingToComplain ==
  ASSUME nodes \in Seq(Directive)
  PROVE  Conforms <=> \A n \in DOMAIN nodes : Complaint(n) = NoError
<1> DEFINE Known(n) == nodes[n].name \in DOMAIN Rules
           Placed(n) == NameOf(nodes[n].parent) \in RuleOf(n).at
           Fitting(n) ==
             LET node == nodes[n]
                 rule == Rules[node.name]
             IN  /\ {i \in DOMAIN rule.params : rule.params[i].kind = "required"} \subseteq DOMAIN node.args
                 /\ \A i \in DOMAIN node.args :
                      \E p \in DOMAIN rule.params :
                        /\ p = i \/ (p < i /\ rule.params[p].kind = "vararg")
                        /\ Converts(rule.params[p], node.args[i])
           Few(n) == Cardinality(Namesakes(n)) <= RuleOf(n).maxcount
           Allowed(n) == \A m \in Children(nodes[n].parent) : nodes[m].name \notin RuleOf(n).precludes
<1>1. Conforms <=> \A n \in DOMAIN nodes : Known(n) /\ Placed(n) /\ Fitting(n) /\ Few(n) /\ Allowed(n)
  BY DEF Conforms, RuleOf, Namesakes
<1>2. \A n \in DOMAIN nodes : Known(n) => (ArgumentsFit(n) <=> Fitting(n))
  BY ArgumentsConform
<1>3. \A n : ~PrecludedBy(n) <=> Allowed(n)
  BY PrecludesConform
<1>4. (\A n \in DOMAIN nodes : Known(n)) =>
        ((\A n \in DOMAIN nodes : ~TooMany(n)) <=> \A n \in DOMAIN nodes : Few(n))
  BY CountsConform
<1>5. \A n : Complaint(n) = NoError <=> Known(n) /\ Placed(n) /\ ArgumentsFit(n) /\ ~TooMany(n) /\ ~PrecludedBy(n)
  BY NoComplaint
<1> HIDE DEF Known, Placed, Fitting, Few, Allowed
<1>6. (\A n \in DOMAIN nodes : Complaint(n) = NoError)
        <=> /\ \A n \in DOMAIN nodes : Known(n)
            /\ \A n \in DOMAIN nodes : Placed(n) /\ ArgumentsFit(n) /\ ~PrecludedBy(n)
            /\ \A n \in DOMAIN nodes : ~TooMany(n)
  BY <1>5
<1>7. ASSUME \A n \in DOMAIN nodes : Known(n)
      PROVE  (\A n \in DOMAIN nodes : Placed(n) /\ ArgumentsFit(n) /\ ~PrecludedBy(n))
               <=> \A n \in DOMAIN nodes : Placed(n) /\ Fitting(n) /\ Allowed(n)
  BY <1>2, <1>3, <1>7
<1> QED BY <1>1, <1>4, <1>6, <1>7

\* A directive that may come once in a block does.
LEMMA OnlyOne ==
  ASSUME nodes \in Seq(Directive), Conforms, NEW n \in DOMAIN nodes, NEW m \in DOMAIN nodes,
         nodes[n].name = nodes[m].name, nodes[n].parent = nodes[m].parent,
         Rules[nodes[n].name].maxcount = 1
  PROVE  n = m
<1> SUFFICES ASSUME n # m PROVE FALSE
  OBVIOUS
<1>1. {n, m} \in SUBSET Namesakes(n) /\ Namesakes(n) \in SUBSET (1 .. Len(nodes)) /\ Len(nodes) \in Nat
  BY DEF Namesakes, Children
<1>2. IsFiniteSet(Namesakes(n))
  <2>1. IsFiniteSet(1 .. Len(nodes))
    BY <1>1, FS_Interval
  <2> QED BY <1>1, <2>1, FS_Subset
<1>3. IsFiniteSet({n}) /\ Cardinality({n}) = 1
  BY FS_Singleton
<1>4. {n, m} = {n} \cup {m} /\ m \notin {n}
  OBVIOUS
<1>5. Cardinality({n, m}) = 2
  <2>1. \A S, x : IsFiniteSet(S) /\ x \notin S => Cardinality(S \cup {x}) = Cardinality(S) + 1
    BY FS_AddElement, Zenon
  <2>2. Cardinality({n} \cup {m}) = Cardinality({n}) + 1
    BY <1>3, <1>4, <2>1
  <2>3. Cardinality({n, m}) = Cardinality({n}) + 1
    BY <1>4, <2>2, Zenon
  <2> QED BY <1>3, <2>3
<1>6. 2 <= Cardinality(Namesakes(n)) /\ Cardinality(Namesakes(n)) \in Nat
  BY <1>1, <1>2, <1>5, FS_Subset, FS_CardinalityType
<1>7. Cardinality(Namesakes(n)) <= Rules[nodes[n].name].maxcount
  BY DEF Conforms, Namesakes
<1> QED BY <1>6, <1>7

\* So there are not two hosting models in one place.
LEMMA HostingModels ==
  ASSUME nodes \in Seq(Directive), Conforms
  PROVE  OneHostingModel
<1> SUFFICES ASSUME NEW n \in DOMAIN nodes, NEW m \in DOMAIN nodes,
                    nodes[n].name \in HostingNames, nodes[m].name \in HostingNames,
                    nodes[n].parent = nodes[m].parent, n # m
             PROVE  FALSE
  BY DEF OneHostingModel
<1>1. nodes[n].name \in DOMAIN Rules /\ nodes[m].name \in DOMAIN Rules
  BY DEF Conforms
<1>2. n \in Children(nodes[n].parent) /\ m \in Children(nodes[n].parent)
  BY DEF Children
<1>3. CASE nodes[n].name = nodes[m].name
  <2>1. Rules[nodes[n].name].maxcount = 1
    BY <1>1, ConfigurationAssumption
  <2> QED BY <1>3, <2>1, OnlyOne
<1>4. CASE nodes[n].name # nodes[m].name
  <2>1. nodes[n].name \in Rules[nodes[m].name].precludes \/ nodes[m].name \in Rules[nodes[n].name].precludes
    BY <1>1, <1>4, ConfigurationAssumption
  <2> QED BY <2>1, <1>2 DEF Conforms
<1> QED BY <1>3, <1>4

(***************************************************************************)
(* Servers and locations of a file that conforms                           *)
(***************************************************************************)
AllConform == \A n \in DOMAIN nodes : Complaint(n) = NoError

LEMMA ServersAndLocations ==
  /\ Word("server") # Word("location") /\ Word("server") # RootName /\ Word("location") # RootName
BY DEF Word, RootName

\* Servers are in no block, and locations in those of servers and locations.
LEMMA BlocksOfLocations ==
  ASSUME nodes \in Seq(Directive), InFileOrder(nodes), AllConform
  PROVE  /\ \A s \in Search(Word("server")) : nodes[s].parent = 0
         /\ \A l \in Search(Word("location")) :
              \/ nodes[l].parent \in Search(Word("location"))
              \/ nodes[l].parent \in Search(Word("server"))
<1>1. \A n \in DOMAIN nodes : nodes[n].name \in DOMAIN Rules /\ NameOf(nodes[n].parent) \in Rules[nodes[n].name].at
  BY NoComplaint DEF AllConform, RuleOf
<1>2. \A n \in DOMAIN nodes : nodes[n].parent \in {0} \cup DOMAIN nodes
  BY DEF InFileOrder
<1>3. \A n \in DOMAIN nodes : NameOf(nodes[n].parent) = IF nodes[n].parent = 0 THEN RootName ELSE nodes[nodes[n].parent].name
  BY DEF NameOf, Root
<1>4. ASSUME NEW s \in Search(Word("server")) PROVE nodes[s].parent = 0
  <2>1. s \in DOMAIN nodes /\ nodes[s].name = Word("server")
    BY DEF Search
  <2>2. NameOf(nodes[s].parent) = RootName
    BY <2>1, <1>1, ConfigurationAssumption
  <2> QED BY <2>1, <2>2, <1>1, <1>2, <1>3, ConfigFileAssumption
<1>5. ASSUME NEW l \in Search(Word("location"))
      PROVE  \/ nodes[l].parent \in Search(Word("location"))
             \/ nodes[l].parent \in Search(Word("server"))
  <2>1. l \in DOMAIN nodes /\ nodes[l].name = Word("location")
    BY DEF Search
  <2>2. NameOf(nodes[l].parent) \in {Word("server"), Word("location")}
    BY <2>1, <1>1, ConfigurationAssumption
  <2>3. nodes[l].parent # 0
    BY <2>1, <2>2, <1>3, ServersAndLocations
  <2> QED BY <2>1, <2>2, <2>3, <1>2, <1>3 DEF Search
<1> QED BY <1>4, <1>5

\* The locations of a server are in one another as their directives are.
LEMMA ServerPlaced ==
  ASSUME nodes \in Seq(Directive), InFileOrder(nodes), AllConform, NEW s \in Search(Word("server"))
  PROVE  Ordered(ServerOf(s).locations, Len(nodes))
<1> DEFINE len == Len(nodes)
           locs == ServerOf(s).locations
           D == LocationsIn(s)
<1>1. Ordered(nodes, len) /\ DOMAIN nodes = 1 .. len /\ len \in Nat /\ Tree(nodes, len)
  BY NodesOrdered, OrderedTree
<1>2. s \in 1 .. len /\ nodes[s].parent = 0 /\ s \notin Search(Word("location"))
  BY <1>1, BlocksOfLocations, ServersAndLocations DEF Search
<1>3. DOMAIN locs = D /\ \A n \in D : locs[n].parent = IF nodes[n].parent = s THEN 0 ELSE nodes[n].parent
  BY DEF ServerOf, LocationOf
<1>4. D \subseteq Search(Word("location")) /\ D \subseteq 1 .. len /\ \A n \in D : Inside(nodes, n, s)
  BY <1>1 DEF LocationsIn, Search
<1> HIDE DEF locs, D
<1>5. \A o : Inside(nodes, s, o) => o = 0
  <2> TAKE o
  <2>1. Inside(nodes, s, o) => o \in {0} \cup DOMAIN nodes /\ (nodes[s].parent = o \/ Inside(nodes, 0, o))
    BY <1>1, <1>2, InsideStep, InsideComesLater
  <2>2. ~Inside(nodes, 0, o)
    <3>1. 0 \in {0} \cup DOMAIN nodes
      OBVIOUS
    <3> QED BY <3>1, <1>1, InsideStep
  <2> QED BY <2>1, <2>2, <1>2
<1>6. ASSUME NEW n \in D PROVE nodes[n].parent = s \/ nodes[n].parent \in D
  <2> DEFINE p == nodes[n].parent
  <2>1. n \in DOMAIN nodes /\ n # 0 /\ (p = s \/ Inside(nodes, p, s))
    <3>1. n \in DOMAIN nodes /\ n # 0
      BY <1>1, <1>4
    <3> QED BY <3>1, <1>1, <1>4, InsideStep
  <2>2. p \in Search(Word("location")) \/ p \in Search(Word("server"))
    BY <1>4, BlocksOfLocations
  <2>3. CASE p \in Search(Word("location"))
    BY <2>1, <2>3 DEF D, LocationsIn
  <2>4. CASE p \in Search(Word("server"))
    <3>1. nodes[p].parent = 0 /\ p \in DOMAIN nodes
      BY <2>4, BlocksOfLocations DEF Search
    <3>2. ~Inside(nodes, p, s)
      <4>1. 0 \in {0} \cup DOMAIN nodes /\ p \in {0} \cup DOMAIN nodes /\ s # 0
        BY <3>1, <1>2
      <4>2. ~Inside(nodes, 0, s)
        BY <4>1, <1>1, InsideStep
      <4> QED BY <3>1, <4>1, <4>2, <1>1, InsideStep
    <3> QED BY <2>1, <3>2
  <2> QED BY <2>2, <2>3, <2>4
<1>7. Tree(locs, len)
  <2>1. ASSUME NEW n \in D PROVE locs[n].parent \in {0} \cup D /\ locs[n].parent < n
    <3>1. n \in 1 .. len /\ nodes[n].parent < n
      BY <1>1, <1>4 DEF Tree
    <3> QED BY <3>1, <1>3, <1>6
  <2> QED BY <2>1, <1>1, <1>3, <1>4 DEF Tree
<1>8. ASSUME NEW b \in D
      PROVE  \A a \in D : Inside(nodes, a, b) => Inside(locs, a, b)
  <2> DEFINE Bad == {a \in D : Inside(nodes, a, b) /\ ~Inside(locs, a, b)}
  <2>1. ASSUME Bad # {} PROVE FALSE
    <3>1. PICK a \in Bad : \A m \in Bad : a <= m
      <4>1. \A l \in Bad : l \in 1 .. len
        BY <1>4
      <4>2. Bad \in SUBSET Nat
        <5> HIDE DEF Bad, len
        <5> QED BY <1>1, <4>1
      <4> QED BY <4>2, <2>1, NumberMin
    <3> DEFINE p == nodes[a].parent
    <3>2. a \in D /\ a \in DOMAIN nodes /\ a # 0 /\ a \in Nat /\ p < a /\ p \in Nat /\ b # s
      BY <3>1, <1>1, <1>2, <1>4 DEF Tree
    <3>3. p = b \/ Inside(nodes, p, b)
      BY <3>1, <3>2, <1>1, InsideStep
    <3>4. p # s
      <4>1. b # 0
        BY <1>1, <1>4
      <4> QED BY <3>2, <3>3, <4>1, <1>5
    <3>5. p \in D /\ locs[a].parent = p
      BY <3>2, <3>4, <1>3, <1>6
    <3>6. ~(p = b \/ Inside(locs, p, b))
      <4>1. a \in {0} \cup DOMAIN locs
        BY <3>2, <1>3
      <4> QED BY <4>1, <3>1, <3>2, <3>5, <1>7, InsideStep
    <3>7. p \notin Bad
      BY <3>1, <3>2
    <3> QED BY <3>3, <3>5, <3>6, <3>7
  <2> QED BY <2>1
<1>9. InFileOrder(locs)
  <2> SUFFICES ASSUME NEW l \in D
               PROVE  /\ locs[l].parent \in {0} \cup D /\ locs[l].parent < l
                      /\ \A m \in D : locs[l].parent < m /\ m < l => Inside(locs, m, locs[l].parent)
    BY <1>3 DEF InFileOrder
  <2>1. locs[l].parent \in {0} \cup D /\ locs[l].parent < l
    BY <1>3, <1>7 DEF Tree
  <2>2. ASSUME NEW m \in D, locs[l].parent < m, m < l
        PROVE  Inside(locs, m, locs[l].parent)
    <3>1. CASE locs[l].parent = 0
      BY <3>1, <1>3, <1>7, InsideRoot
    <3>2. CASE locs[l].parent # 0
      <4>1. locs[l].parent = nodes[l].parent /\ nodes[l].parent \in D
        BY <3>2, <2>1, <1>3
      <4>2. Inside(nodes, m, nodes[l].parent)
        BY <4>1, <2>2, <1>1, <1>4 DEF Ordered, InFileOrder
      <4> QED BY <4>1, <4>2, <1>8
    <3> QED BY <3>1, <3>2
  <2> QED BY <2>1, <2>2
<1> QED BY <1>1, <1>3, <1>4, <1>9 DEF Ordered, locs

LEMMA ServersPlaced ==
  ASSUME nodes \in Seq(Directive), InFileOrder(nodes), AllConform
  PROVE  /\ Len(nodes) \in Nat /\ DOMAIN Servers \subseteq 1 .. Len(nodes)
         /\ \A s \in DOMAIN Servers : Ordered(Servers[s].locations, Len(nodes))
<1>1. DOMAIN Servers = Search(Word("server")) /\ \A s \in DOMAIN Servers : Servers[s] = ServerOf(s)
  BY DEF Servers
<1>2. Search(Word("server")) \subseteq DOMAIN nodes
  BY DEF Search
<1> QED BY <1>1, <1>2, ServerPlaced, NodesOrdered

(***************************************************************************)
(* getOne: the search for a directive in the blocks around one.            *)
(***************************************************************************)
Own(n, names) == {k \in Children(n) : nodes[k].name \in names}

FirstOwn(n, names) == CHOOSE k \in Own(n, names) : \A j \in Own(n, names) : k <= j

\* f tells what is found from each of the first directives.
LooksUp(f, names, n) ==
  f = [m \in 0 .. n |-> IF Own(m, names) # {} THEN FirstOwn(m, names)
                        ELSE IF m = Root THEN Root ELSE f[nodes[m].parent]]

LEMMA FirstIsOwn ==
  ASSUME nodes \in Seq(Directive), NEW n, NEW names, Own(n, names) # {}
  PROVE  FirstOwn(n, names) \in Own(n, names)
<1>1. Own(n, names) \in SUBSET Nat
  BY DEF Own, Children
<1>2. \E k \in Own(n, names) : \A j \in Own(n, names) : k <= j
  BY <1>1, NumberMin
<1> QED BY <1>2 DEF FirstOwn

LEMMA LookingUpExists ==
  ASSUME Tree(nodes, Len(nodes)), nodes \in Seq(Directive), NEW names
  PROVE  \A n \in 0 .. Len(nodes) : \E f : LooksUp(f, names, n)
<1> DEFINE Bad == {n \in 0 .. Len(nodes) : ~ \E f : LooksUp(f, names, n)}
<1>0. Len(nodes) \in Nat /\ DOMAIN nodes = 1 .. Len(nodes)
  OBVIOUS
<1>1. ASSUME Bad # {} PROVE FALSE
  <2>1. PICK n \in Bad : \A j \in Bad : n <= j
    <3>1. Bad \in SUBSET Nat
      OBVIOUS
    <3> QED BY <1>1, <3>1, NumberMin
  <2>2. n \in Nat /\ n \in 0 .. Len(nodes) /\ ~ \E f : LooksUp(f, names, n)
    BY <2>1
  <2> DEFINE Top(m, above) == IF Own(m, names) # {} THEN FirstOwn(m, names) ELSE above
  <2>3. CASE n = 0
    <3> DEFINE f == [m \in 0 .. 0 |-> Top(m, Root)]
    <3>1. \A m \in 0 .. 0 : m = 0
      OBVIOUS
    <3>2. LooksUp(f, names, 0)
      BY <3>1 DEF LooksUp, Root
    <3> QED BY <2>2, <2>3, <3>2
  <2>4. CASE n # 0
    <3>1. n - 1 \in 0 .. Len(nodes) /\ n - 1 \notin Bad /\ n \in DOMAIN nodes
      BY <1>0, <2>1, <2>2, <2>4
    <3>2. PICK g : LooksUp(g, names, n - 1)
      BY <3>1
    <3> DEFINE p == nodes[n].parent
               f == [m \in 0 .. n |-> IF m = n THEN Top(n, g[p]) ELSE g[m]]
    <3>3. p \in 0 .. n - 1
      BY <1>0, <2>2, <3>1 DEF Tree
    <3>4. \A m \in 0 .. n - 1 : m # n /\ m \in 0 .. n /\ f[m] = g[m]
      BY <2>2
    <3>5. ASSUME NEW m \in 0 .. n
          PROVE  f[m] = Top(m, IF m = Root THEN Root ELSE f[nodes[m].parent])
      <4>1. CASE m = n
        <5>1. m # Root /\ f[m] = Top(n, g[p]) /\ f[p] = g[p]
          BY <2>2, <2>4, <3>3, <3>4, <4>1 DEF Root
        <5> QED BY <4>1, <5>1
      <4>2. CASE m # n
        <5>1. m \in 0 .. n - 1 /\ f[m] = g[m]
          BY <2>2, <3>4, <4>2
        <5>2. g[m] = Top(m, IF m = Root THEN Root ELSE g[nodes[m].parent])
          BY <3>2, <5>1 DEF LooksUp
        <5>3. m # Root => nodes[m].parent \in 0 .. n - 1
          BY <1>0, <2>2, <5>1 DEF Tree, Root
        <5>4. m # Root => f[nodes[m].parent] = g[nodes[m].parent]
          BY <5>3, <3>4
        <5> HIDE DEF f, Top
        <5> QED BY <5>1, <5>2, <5>4
      <4> QED BY <4>1, <4>2
    <3>6. f = [m \in 0 .. n |-> f[m]]
      OBVIOUS
    <3> HIDE DEF f
    <3>7. LooksUp(f, names, n)
      BY <3>5, <3>6 DEF LooksUp
    <3> QED BY <2>2, <3>7
  <2> QED BY <2>3, <2>4
<1> QED BY <1>1

\* A directive in the own block comes before any other; and what is not in the
\* own block nor out of all blocks is not found from a directive in no block.
LEMMA InheritedIs ==
  ASSUME Tree(nodes, Len(nodes)), nodes \in Seq(Directive), NEW names, NEW n \in DOMAIN nodes
  PROVE  /\ Own(n, names) # {} => Inherited(n, names) \in Own(n, names)
         /\ Own(n, names) = {} /\ nodes[n].parent = 0 /\ Own(0, names) = {} => Inherited(n, names) = Root
<1> DEFINE f == CHOOSE g : LooksUp(g, names, n)
<1>0. Len(nodes) \in Nat /\ n \in 0 .. Len(nodes) /\ n \in Nat /\ n # 0 /\ 0 \in 0 .. n /\ n \in 0 .. n
  OBVIOUS
<1>1. LooksUp(f, names, n)
  <2>1. \E g : LooksUp(g, names, n)
    BY <1>0, LookingUpExists
  <2> QED BY <2>1
<1>2. Inherited(n, names) = f[n]
  BY DEF Inherited, LooksUp, Own, FirstOwn
<1> HIDE DEF f
<1>3. \A m \in 0 .. n : f[m] = IF Own(m, names) # {} THEN FirstOwn(m, names)
                               ELSE IF m = Root THEN Root ELSE f[nodes[m].parent]
  BY <1>1 DEF LooksUp
<1>4. Own(n, names) # {} => f[n] \in Own(n, names)
  BY <1>0, <1>3, FirstIsOwn
<1>5. Own(n, names) = {} /\ nodes[n].parent = 0 /\ Own(0, names) = {} => f[n] = Root
  BY <1>0, <1>3 DEF Root
<1> QED BY <1>2, <1>4, <1>5

\* The locations of a server are those before the next directive in no block.
LEMMA UpToTheNext ==
  ASSUME NEW len, Ordered(nodes, len), DOMAIN nodes = 1 .. len,
         NEW s \in DOMAIN nodes, nodes[s].parent = 0
  PROVE  \A l \in DOMAIN nodes :
           Inside(nodes, l, s) <=> s < l /\ \A n \in s + 1 .. l : nodes[n].parent # 0
<1>t. Tree(nodes, len) /\ len \in Nat
  BY OrderedTree DEF Ordered
<1>0. /\ \A l \in DOMAIN nodes : l \in Nat /\ l # 0 /\ nodes[l].parent \in Nat
      /\ s \in Nat /\ s # 0
  BY <1>t DEF Tree
<1>r. ~Inside(nodes, 0, s)
  <2>1. 0 \in {0} \cup DOMAIN nodes
    OBVIOUS
  <2> QED BY <2>1, <1>t, InsideStep
<1>1. ASSUME NEW l \in DOMAIN nodes, Inside(nodes, l, s)
      PROVE  s < l /\ \A n \in s + 1 .. l : nodes[n].parent # 0
  <2>1. s < l
    BY <1>1, <1>t, InsideComesLater
  <2>2. ASSUME NEW n \in s + 1 .. l PROVE nodes[n].parent # 0
    <3>1. n \in DOMAIN nodes /\ s < n /\ n <= l
      BY <1>0, <1>t
    <3>2. Inside(nodes, n, s)
      BY <3>1, <1>1, InsideInterval
    <3>3. nodes[n].parent = s \/ Inside(nodes, nodes[n].parent, s)
      BY <3>1, <3>2, <1>t, InsideStep
    <3> QED BY <3>3, <1>r, <1>0
  <2> QED BY <2>1, <2>2
<1>2. ASSUME NEW a \in DOMAIN nodes, s < a, \A n \in s + 1 .. a : nodes[n].parent # 0
      PROVE  Inside(nodes, a, s)
  <2> DEFINE Bad == {l \in DOMAIN nodes : s < l /\ l <= a /\ ~Inside(nodes, l, s)}
  <2>1. ASSUME Bad # {} PROVE FALSE
    <3>1. PICK l \in Bad : \A m \in Bad : l <= m
      <4>1. Bad \in SUBSET Nat
        BY <1>0
      <4> QED BY <2>1, <4>1, NumberMin
    <3> DEFINE p == nodes[l].parent
    <3>2. l \in DOMAIN nodes /\ s < l /\ l <= a /\ l \in Nat /\ a \in Nat /\ p \in Nat /\ p < l
          /\ p \in {0} \cup DOMAIN nodes
      BY <3>1, <1>0, <1>t DEF Tree
    <3>3. ~(p = s \/ Inside(nodes, p, s))
      BY <3>1, <3>2, <1>0, <1>t, InsideStep
    <3>4. p # 0
      <4>1. l \in s + 1 .. a
        BY <3>2, <1>0
      <4> QED BY <4>1, <1>2
    <3>5. CASE p < s
      <4>1. Inside(nodes, s, p)
        BY <3>2, <3>5 DEF Ordered, InFileOrder
      <4>2. nodes[s].parent = p \/ Inside(nodes, 0, p)
        BY <4>1, <1>t, <1>0, InsideStep
      <4>3. 0 \in {0} \cup DOMAIN nodes
        OBVIOUS
      <4> QED BY <4>2, <4>3, <3>4, <1>t, InsideStep
    <3>6. CASE s < p
      <4>1. p \in Bad
        BY <3>2, <3>3, <3>4, <3>6
      <4> QED BY <4>1, <3>1, <3>2
    <3> QED BY <3>2, <3>3, <3>5, <3>6, <1>0
  <2> QED BY <2>1, <1>2, <1>0
<1> QED BY <1>1, <1>2

\* The address of a server, and its names, are in its block if anywhere.
LEMMA OfServers ==
  ASSUME nodes \in Seq(Directive), InFileOrder(nodes), AllConform,
         NEW s \in Search(Word("server")), NEW name \in {Word("listen"), Word("server_name")}
  PROVE  LET own == {k \in Search(name) : nodes[k].parent = s}
         IN  \/ own = {} /\ Inherited(s, {name}) = Root
             \/ own = {Inherited(s, {name})} /\ Inherited(s, {name}) # Root
<1> DEFINE own == {k \in Search(name) : nodes[k].parent = s}
<1>0. Tree(nodes, Len(nodes)) /\ DOMAIN nodes = 1 .. Len(nodes)
  BY NodesOrdered, OrderedTree
<1>1. s \in DOMAIN nodes /\ nodes[s].parent = 0
  BY BlocksOfLocations DEF Search
<1>2. Conforms
  BY NothingToComplain DEF AllConform
<1>3. \A k \in Search(name) : name \in DOMAIN Rules /\ NameOf(nodes[k].parent) \in Rules[name].at
  BY <1>2 DEF Search, Conforms
<1>4. name \in DOMAIN Rules => Rules[name].at = {Word("server")} /\ Rules[name].maxcount = 1
  BY ConfigurationAssumption
<1>5. own = Own(s, {name})
  BY DEF Own, Children, Search
<1>6. Own(0, {name}) = {}
  <2> SUFFICES ASSUME NEW k \in Own(0, {name}) PROVE FALSE
    OBVIOUS
  <2>1. k \in Search(name) /\ nodes[k].parent = 0
    BY DEF Own, Children, Search
  <2> QED BY <2>1, <1>3, <1>4, ServersAndLocations DEF NameOf, Root
<1>7. CASE own = {}
  BY <1>0, <1>1, <1>5, <1>6, <1>7, InheritedIs
<1>8. CASE own # {}
  <2> DEFINE k == Inherited(s, {name})
  <2>1. k \in own
    BY <1>0, <1>1, <1>5, <1>8, InheritedIs
  <2>2. k # Root
    BY <2>1, <1>0 DEF Search, Root
  <2> HIDE DEF k
  <2>3. ASSUME NEW j \in own PROVE j = k
    <3>1. /\ j \in DOMAIN nodes /\ nodes[j].name = name /\ nodes[j].parent = s
          /\ k \in DOMAIN nodes /\ nodes[k].name = name /\ nodes[k].parent = s
          /\ k \in Search(name)
      BY <2>1 DEF Search
    <3>2. Rules[name].maxcount = 1
      BY <3>1, <1>3, <1>4
    <3> HIDE DEF own
    <3> QED BY <3>1, <3>2, <1>2, OnlyOne
  <2> QED BY <2>1, <2>2, <2>3 DEF k
<1> QED BY <1>7, <1>8

\* The router of a location, too, is that of the hosting model in its block.
LEMMA OfLocations ==
  ASSUME nodes \in Seq(Directive), InFileOrder(nodes), AllConform, NEW l \in DOMAIN nodes,
         {k \in Children(l) : nodes[k].name \in HostingNames} # {}
  PROVE  {k \in Children(l) : nodes[k].name \in HostingNames} = {Inherited(l, HostingNames)}
<1> DEFINE k == Inherited(l, HostingNames)
<1>0. Tree(nodes, Len(nodes)) /\ DOMAIN nodes = 1 .. Len(nodes)
  BY NodesOrdered, OrderedTree
<1>1. OneHostingModel
  BY NothingToComplain, HostingModels DEF AllConform
<1>2. k \in Own(l, HostingNames)
  BY <1>0, InheritedIs DEF Own
<1> HIDE DEF k
<1>3. \A j \in Own(l, HostingNames) : j = k
  BY <1>1, <1>2 DEF OneHostingModel, Own, Children
<1> QED BY <1>2, <1>3 DEF Own, k

LEMMA ServerAsWritten ==
  ASSUME nodes \in Seq(Directive), InFileOrder(nodes), AllConform,
         NEW s \in Search(Word("server")), Listens(s)
  PROVE  Servers[s] = ServersIn(nodes)[s]
<1> DEFINE named(name) == {n \in DOMAIN nodes : nodes[n].name = Word(name)}
           inside(n, set) == {k \in set : nodes[k].parent = n}
           the(set) == nodes[CHOOSE k \in set : TRUE]
           hosting == {k \in DOMAIN nodes : nodes[k].name \in HostingNames}
           location(l) ==
             LET models == inside(l, hosting)
             IN  [parent |-> IF nodes[l].parent = s THEN 0 ELSE nodes[l].parent,
                  path |-> PathOf(nodes[l].args[1]),
                  directive |-> IF models = {} THEN "none" ELSE DirectiveOf(the(models))]
           address == the(inside(s, named("listen"))).args
           names == UNION {ToSet(nodes[k].args) : k \in inside(s, named("server_name"))}
           within == {l \in named("location") : s < l /\ \A n \in s + 1 .. l : nodes[n].parent # Root}
           locations == [l \in within |-> location(l)]
           host == IF Len(address) < 2 \/ Head(address[2]) = "*" THEN "::" ELSE Head(address[2])
           listen == Inherited(s, {Word("listen")})
           sn == Inherited(s, {Word("server_name")})
<1>s. Servers[s] = ServerOf(s) /\ s \in named("server")
  BY DEF Servers, Search
<1>1. ServersIn(nodes)[s]
      = [port |-> Head(address[1]), host |-> host, names |-> {Head(w) : w \in names}, locations |-> locations]
  BY <1>s DEF ServersIn
<1>0. Ordered(nodes, Len(nodes)) /\ DOMAIN nodes = 1 .. Len(nodes)
  BY NodesOrdered
<1>p. s \in DOMAIN nodes /\ nodes[s].parent = 0
  BY BlocksOfLocations DEF Search
<1>2. address = nodes[listen].args
  <2>1. inside(s, named("listen")) = {k \in Search(Word("listen")) : nodes[k].parent = s}
    BY DEF Search
  <2>2. listen # Root
    BY DEF Listens
  <2>3. inside(s, named("listen")) = {listen}
    BY <2>1, <2>2, OfServers
  <2> HIDE DEF inside, named, listen
  <2>4. (CHOOSE k \in {listen} : TRUE) = listen
    OBVIOUS
  <2> QED BY <2>3, <2>4
<1>3. host = HostOf(listen)
  <2>1. listen \in DOMAIN nodes
    <3>1. listen # Root
      BY DEF Listens
    <3>2. {k \in Search(Word("listen")) : nodes[k].parent = s} = {listen}
      BY <3>1, OfServers
    <3> QED BY <3>2 DEF Search
  <2>2. nodes[listen].args \in Seq(Words)
    <3> HIDE DEF listen
    <3>1. nodes[listen] \in Directive
      BY <2>1
    <3> QED BY <3>1 DEF Directive
  <2>3. Len(nodes[listen].args) \in Nat
    BY <2>2
  <2>4. Len(address) < 2 <=> ~(2 <= Len(nodes[listen].args))
    BY <1>2, <2>3
  <2>5. Head(Word("*")) = "*"
    BY DEF Word
  <2> HIDE DEF address, listen
  <2> QED BY <1>2, <2>4, <2>5 DEF Value, HostOf
<1>4. names = IF sn = Root THEN {} ELSE ToSet(nodes[sn].args)
  <2>1. inside(s, named("server_name")) = {k \in Search(Word("server_name")) : nodes[k].parent = s}
    BY DEF Search
  <2>2. inside(s, named("server_name")) = IF sn = Root THEN {} ELSE {sn}
    BY <2>1, OfServers
  <2> HIDE DEF inside, named, sn
  <2> QED BY <2>2
<1>5. LocationsIn(s) = within
  BY <1>0, <1>p, UpToTheNext DEF LocationsIn, Search, Root
<1>6. ASSUME NEW l \in LocationsIn(s) PROVE LocationOf(s, l) = location(l)
  <2> DEFINE models == inside(l, hosting)
  <2>1. models = {k \in Children(l) : nodes[k].name \in HostingNames}
    BY DEF Children
  <2>2. l \in DOMAIN nodes
    BY DEF LocationsIn, Search
  <2>3. ASSUME models # {} PROVE the(models) = nodes[Inherited(l, HostingNames)]
    <3>1. models = {Inherited(l, HostingNames)}
      BY <2>1, <2>2, <2>3, OfLocations
    <3> HIDE DEF models
    <3> QED BY <3>1
  <2> DEFINE model == IF models = {} THEN "none" ELSE DirectiveOf(the(models))
             parent == IF nodes[l].parent = s THEN 0 ELSE nodes[l].parent
             path == PathOf(nodes[l].args[1])
  <2>4. LocationOf(s, l) = [parent |-> parent, path |-> path,
                            directive |-> IF models = {} THEN "none"
                                          ELSE DirectiveOf(nodes[Inherited(l, HostingNames)])]
    BY <2>1 DEF LocationOf
  <2>5. location(l) = [parent |-> parent, path |-> path, directive |-> model]
    OBVIOUS
  <2> HIDE DEF models, the, parent, path, location
  <2> QED BY <2>3, <2>4, <2>5
<1>7. [n \in LocationsIn(s) |-> LocationOf(s, n)] = locations
  <2> HIDE DEF location, within
  <2> QED BY <1>5, <1>6
<1>8. ServerOf(s) = [port |-> Head(nodes[listen].args[1]),
                     host |-> HostOf(listen),
                     names |-> IF sn = Root THEN {} ELSE {Head(w) : w \in ToSet(nodes[sn].args)},
                     locations |-> [n \in LocationsIn(s) |-> LocationOf(s, n)]]
  BY DEF ServerOf
<1>9. (IF sn = Root THEN {} ELSE {Head(w) : w \in ToSet(nodes[sn].args)}) = {Head(w) : w \in names}
  <2> HIDE DEF names, sn
  <2> QED BY <1>4
<1> HIDE DEF names, sn, listen, locations, address, host
<1> QED BY <1>s, <1>1, <1>2, <1>3, <1>7, <1>8, <1>9

\* getOne finds what is in the blocks of the servers and locations themselves.
LEMMA ServersAsWritten ==
  ASSUME nodes \in Seq(Directive), InFileOrder(nodes), AllConform,
         \A s \in Search(Word("server")) : Listens(s)
  PROVE  Servers = ServersIn(nodes)
<1>1. DOMAIN Servers = Search(Word("server")) /\ Servers = [s \in Search(Word("server")) |-> Servers[s]]
  BY DEF Servers
<1>2. ServersIn(nodes) = [s \in Search(Word("server")) |-> ServersIn(nodes)[s]]
  BY DEF ServersIn, Search
<1> QED BY <1>1, <1>2, ServerAsWritten

(***************************************************************************)
(* The invariant                                                           *)
(***************************************************************************)
LEMMA ConfigurationInitSound ==
  ASSUME ConfigurationInit
  PROVE  TypedInv
<1> USE DEF ConfigurationInit, FileInit
<1>1. data \in Words
  BY Stripped, ConfigFileAssumption DEF Words
<1>2. FileTypes
  <2>1. nodes \in Seq(Directive)
    OBVIOUS
  <2>2. error \in [reason : Reasons, at : Position]
    BY DEF NoError, NoPosition, Reasons, Position
  <2>3. doc \in Documents /\ Len(data) \in Nat /\ offset = 0 /\ line = 1 /\ col = 1 /\ scope = 0
        /\ open = FALSE /\ checked = 0 /\ status = "parsing"
    BY <1>1 DEF Words, Root
  <2> HIDE DEF ConfigurationInit, FileInit
  <2>4. data \in Words /\ offset \in 0 .. Len(data) /\ line \in Nat /\ col \in Nat
    BY <1>1, <2>3
  <2>5. scope \in Nat /\ open \in BOOLEAN /\ checked \in Nat /\ checked = 0
    BY <2>3
  <2>6. status \in {"parsing", "checking", "valid", "rejected", "configured"}
    BY <2>3
  <2>7. doc \in Documents
    BY <2>3
  <2> QED BY <2>1, <2>2, <2>4, <2>5, <2>6, <2>7 DEF FileTypes
<1>3. Here = PositionOf(data, offset + 1)
  <2>1. {j \in 1 .. offset + 1 - 1 : data[j] = "\n"} = {}
    OBVIOUS
  <2>2. PositionOf(data, offset + 1) = [line |-> Cardinality({}) + 1, col |-> offset + 1 - 0]
    BY <2>1 DEF PositionOf
  <2> QED BY <2>2, FS_EmptySet DEF Here
<1>4. InPreOrder
  BY DEF InPreOrder, InFileOrder, Root
<1>5. SchemaApplied
  BY DEF SchemaApplied, Configured, NoError
<1> QED BY <1>2, <1>3, <1>4, <1>5 DEF TypedInv, Steady, Configured

\* The router is made of directives that conform to the schema.
LEMMA ConfigureSound ==
  ASSUME TypedInv, Configure
  PROVE  TypedInv'
<1>1. /\ status = "valid" /\ status' = "configured" /\ ~Configured
      /\ doc' = doc /\ data' = data /\ offset' = offset /\ line' = line /\ col' = col
      /\ nodes' = nodes /\ scope' = scope /\ open' = open /\ checked' = checked /\ error' = error
      /\ declined' = {} /\ result' = Pending
  BY DEF Configure, lexVars, treeVars, TypedInv, Steady, Configured
<1>2. /\ config' = Servers /\ Accepted(Servers) /\ target' \in Targets
      /\ files' \in FilesFor(Servers, target') /\ kind' \in Kinds /\ apps' \in AppsFor(Servers)
  BY DEF Configure, Usable
<1>3. FileTypes'
  BY <1>1 DEF TypedInv, FileTypes
<1>4. InPreOrder'
  <2>1. InFileOrder(nodes)' /\ (scope \in 0 .. Len(nodes))' /\ (open => nodes # << >>)'
    BY <1>1 DEF TypedInv, Steady, InPreOrder
  <2> QED BY <2>1, <1>1 DEF InPreOrder
<1>5. SchemaApplied'
  BY <1>1 DEF TypedInv, Steady, SchemaApplied, Configured
<1>6. ConfigPlaced(Len(nodes))'
  <2>1. nodes \in Seq(Directive) /\ InFileOrder(nodes)
    BY DEF TypedInv, FileTypes, Steady, InPreOrder
  <2>2. AllConform
    <3>1. checked = Len(nodes) /\ \A n \in 1 .. checked : Complaint(n) = NoError
      BY <1>1 DEF TypedInv, Steady, SchemaApplied
    <3> QED BY <3>1, <2>1 DEF AllConform
  <2>3. /\ Len(nodes) \in Nat /\ DOMAIN Servers \subseteq 1 .. Len(nodes)
        /\ \A s \in DOMAIN Servers : Ordered(Servers[s].locations, Len(nodes))
    BY <2>1, <2>2, ServersPlaced
  <2> QED BY <2>3, <1>1, <1>2 DEF ConfigPlaced
<1>7. AskedInOrder'
  <2>1. Pending # NoApp /\ ~(Pending.answer \in {"app", "content", "error", "thrown"})
    BY DEF Pending, NoApp
  <2>3. AnswerOK'
    BY <1>1, <1>2 DEF AnswerOK
  <2> QED BY <1>1, <2>1, <2>3 DEF AskedInOrder, Answered
<1>8. (Here = PositionOf(data, offset + 1))' \/ status' # "parsing"
  BY <1>1
<1> QED BY <1>1, <1>2, <1>3, <1>4, <1>5, <1>6, <1>7, <1>8 DEF TypedInv, Steady, Configured

\* Routing leaves the file alone.
LEMMA RoutingSound ==
  ASSUME TypedInv, Configured, RoutingNext, UNCHANGED fileVars
  PROVE  TypedInv'
<1>1. /\ doc' = doc /\ data' = data /\ offset' = offset /\ line' = line /\ col' = col
      /\ nodes' = nodes /\ scope' = scope /\ open' = open
      /\ checked' = checked /\ status' = status /\ error' = error
  BY DEF fileVars, lexVars, treeVars
<1>2. AskedInOrder' /\ UNCHANGED inputs
  BY AskingInOrder DEF TypedInv, Steady
<1>3. config' = config /\ files' = files /\ apps' = apps /\ target' = target
  BY <1>2 DEF inputs
<1>4. FileTypes'
  BY <1>1 DEF TypedInv, FileTypes
<1>5. Configured' /\ status # "parsing"
  BY <1>1 DEF Configured
<1>6. InPreOrder'
  <2>1. InFileOrder(nodes)' /\ (scope \in 0 .. Len(nodes))' /\ (open => nodes # << >>)'
    BY <1>1 DEF TypedInv, Steady, InPreOrder
  <2> QED BY <2>1, <1>1, <1>5 DEF InPreOrder
<1>7. SchemaApplied'
  BY <1>1, SchemaUnchanged DEF TypedInv, Steady
<1>8. ConfigPlaced(Len(nodes))'
  BY <1>1, <1>3 DEF TypedInv, Steady, ConfigPlaced
<1> QED BY <1>1, <1>2, <1>3, <1>4, <1>5, <1>6, <1>7, <1>8 DEF TypedInv, Steady

LEMMA ConfigurationStutters ==
  ASSUME TypedInv, UNCHANGED configurationVars
  PROVE  TypedInv'
<1>1. /\ doc' = doc /\ data' = data /\ offset' = offset /\ line' = line /\ col' = col
      /\ nodes' = nodes /\ scope' = scope /\ open' = open
      /\ checked' = checked /\ status' = status /\ error' = error
      /\ config' = config /\ kind' = kind /\ target' = target /\ files' = files
      /\ apps' = apps /\ declined' = declined /\ result' = result
  BY DEF configurationVars, fileVars, lexVars, treeVars, routingVars, inputs
<1>2. FileTypes'
  BY <1>1 DEF TypedInv, FileTypes
<1>3. (status = "parsing" => Here = PositionOf(data, offset + 1))'
  BY <1>1 DEF TypedInv, Steady, Here
<1>4. InPreOrder'
  BY <1>1 DEF TypedInv, Steady, InPreOrder
<1>5. SchemaApplied'
  BY <1>1, SchemaUnchanged DEF TypedInv, Steady
<1>6. ASSUME Configured
      PROVE  /\ ConfigPlaced(Len(nodes))' /\ Accepted(config)'
             /\ (files \in FilesFor(config, target))' /\ (apps \in AppsFor(config))'
             /\ AskedInOrder'
  <2>1. ConfigPlaced(Len(nodes))'
    BY <1>1, <1>6 DEF TypedInv, Steady, ConfigPlaced
  <2>2. \A q : (Outcome(q))' = Outcome(q)
    BY <1>1, OutcomesStay DEF inputs
  <2>3. AskedInOrder'
    BY <1>1, <1>6, <2>2 DEF TypedInv, Steady, AskedInOrder, AnswerOK, Answered, First, Left
  <2> QED BY <1>1, <1>6, <2>1, <2>3 DEF TypedInv, Steady
<1> QED BY <1>1, <1>2, <1>3, <1>4, <1>5, <1>6 DEF TypedInv, Steady, Configured

LEMMA ConfigurationStep ==
  ASSUME TypedInv, [ConfigurationNext]_configurationVars
  PROVE  TypedInv'
<1>1. CASE FileNext /\ UNCHANGED routingVars
  BY <1>1, SkipSound, ReadWordSound, ReadTermSound, OpenBlockSound, CloseBlockSound,
     SyntaxErrorSound, EndOfDataSound, CheckDirectiveSound, ConformingSound DEF FileNext
<1>2. CASE Configure
  BY <1>2, ConfigureSound
<1>3. CASE Refuse
  BY <1>3, RefuseSound
<1>4. CASE status = "configured" /\ RoutingNext /\ UNCHANGED fileVars
  BY <1>4, RoutingSound DEF Configured
<1>5. CASE UNCHANGED configurationVars
  BY <1>5, ConfigurationStutters
<1> QED BY <1>1, <1>2, <1>3, <1>4, <1>5 DEF ConfigurationNext

LEMMA AlwaysTyped == ConfigurationSpec => []TypedInv
<1>1. ConfigurationInit => TypedInv
  BY ConfigurationInitSound
<1>2. TypedInv /\ [ConfigurationNext]_configurationVars => TypedInv'
  BY ConfigurationStep
<1> QED BY <1>1, <1>2, PTL DEF ConfigurationSpec

\* What is routed is the servers and locations that are written.
ServedAsWritten == Configured => config = ServersIn(nodes)

\* A file that conforms: its directives are checked, and nothing was said.
LEMMA ConformingFile ==
  ASSUME TypedInv, status = "valid"
  PROVE  nodes \in Seq(Directive) /\ InFileOrder(nodes) /\ AllConform
<1>1. nodes \in Seq(Directive) /\ InFileOrder(nodes)
  BY DEF TypedInv, FileTypes, Steady, InPreOrder
<1>2. checked = Len(nodes) /\ \A n \in 1 .. checked : Complaint(n) = NoError
  BY DEF TypedInv, Steady, SchemaApplied, Configured
<1> QED BY <1>1, <1>2 DEF AllConform

LEMMA ServedStep ==
  ASSUME TypedInv, ServedAsWritten, [ConfigurationNext]_configurationVars
  PROVE  ServedAsWritten'
<1>1. CASE FileNext
  <2>1. status \in {"parsing", "checking"}
    BY <1>1 DEF FileNext, Skip, ReadWord, ReadTerm, OpenBlock, CloseBlock, Consume, SyntaxError,
           EndOfData, CheckDirective, Conforming
  <2>2. status' # "configured"
    BY <1>1, <2>1 DEF FileNext, Skip, ReadWord, ReadTerm, OpenBlock, CloseBlock, Consume, SyntaxError,
           EndOfData, CheckDirective, Conforming, Reject
  <2> QED BY <2>2 DEF ServedAsWritten, Configured
<1>2. CASE Configure
  <2>1. /\ status = "valid" /\ nodes' = nodes /\ config' = Servers
        /\ \A s \in Search(Word("server")) : Listens(s)
    BY <1>2 DEF Configure, Usable, treeVars
  <2>2. Servers = ServersIn(nodes)
    BY <2>1, ConformingFile, ServersAsWritten
  <2> QED BY <2>1, <2>2 DEF ServedAsWritten
<1>3. CASE Refuse
  BY <1>3 DEF Refuse, Reject, ServedAsWritten, Configured
<1>4. CASE status = "configured" /\ RoutingNext /\ UNCHANGED fileVars
  <2>1. UNCHANGED inputs
    BY <1>4, AskingInOrder DEF TypedInv, Steady, Configured
  <2> QED BY <1>4, <2>1 DEF inputs, fileVars, treeVars, ServedAsWritten, Configured
<1>5. CASE UNCHANGED configurationVars
  BY <1>5 DEF configurationVars, fileVars, treeVars, routingVars, inputs, ServedAsWritten, Configured
<1> QED BY <1>1, <1>2, <1>3, <1>4, <1>5 DEF ConfigurationNext

\* While routers are left, one of them is next.
LEMMA TypedRouted ==
  ASSUME TypedInv, Configured
  PROVE  Routed
<1>1. /\ ConfigPlaced(Len(nodes)) /\ Accepted(config)
      /\ files \in FilesFor(config, target) /\ apps \in AppsFor(config)
      /\ AskedInOrder
  BY DEF TypedInv, Steady
<1>2. DOMAIN nodes = 1 .. Len(nodes)
  BY DEF TypedInv, FileTypes
<1>3. TiesAreAliases
  BY <1>1, TiedServers
<1>4. TiesInFileOrder
  BY <1>1, EarlierDeclined
<1>5. Left # {} => \E r \in Left : First(r)
  BY <1>1, FirstExists
<1>6. \A s \in DOMAIN config :
        /\ DOMAIN config[s].locations \subseteq DOMAIN nodes
        /\ InFileOrder(config[s].locations)
  BY <1>1, <1>2 DEF ConfigPlaced, Ordered
<1> QED BY <1>1, <1>2, <1>3, <1>4, <1>5, <1>6 DEF Routed, ConfigPlaced, AskedInOrder

(***************************************************************************)
(* The lexer always knows the line and the column it is at, the tree of    *)
(* directives is in pre-order, applySchema stops at the first complaint,   *)
(* and a request that is routed always has a router that is next.  Of      *)
(* servers that are equally good for it one's address or name is an alias  *)
(* of the other's, and the one that comes first in the file is asked first.*)
(***************************************************************************)
THEOREM ConfigurationCorrect == ConfigurationSpec => []ConfigurationInv
<1>1. TypedInv => ConfigurationInv
  BY TypedRouted DEF TypedInv, Steady, ConfigurationInv
<1> QED BY <1>1, AlwaysTyped, PTL

(***************************************************************************)
(* applySchema, which goes through the directives once, accepts the files  *)
(* that conform to the rules and no others; and so a location has one      *)
(* hosting model.                                                          *)
(***************************************************************************)
THEOREM SchemaIsEnforced == ConfigurationSpec => []SchemaEnforced
<1>1. TypedInv => SchemaEnforced
  <2> SUFFICES ASSUME TypedInv, error.reason # "syntax", status \in {"valid", "rejected"}
               PROVE  /\ error.reason \in {"none", "servers", "exit"} <=> Conforms
                      /\ status = "valid" => OneHostingModel
    BY DEF TypedInv, SchemaEnforced, Steady, SchemaApplied
  <2>1. nodes \in Seq(Directive) /\ SchemaApplied /\ ~Configured
    BY DEF TypedInv, FileTypes, Steady, Configured
  <2>2. Conforms <=> \A n \in DOMAIN nodes : Complaint(n) = NoError
    BY <2>1, NothingToComplain
  <2>3. CASE error.reason \in {"none", "servers", "exit"}
    <3>1. checked = Len(nodes)
      BY <2>1, <2>3 DEF SchemaApplied
    <3>2. \A n \in DOMAIN nodes : Complaint(n) = NoError
      BY <2>1, <3>1 DEF SchemaApplied
    <3> QED BY <2>1, <2>2, <2>3, <3>2, HostingModels
  <2>4. CASE error.reason \notin {"none", "servers", "exit"}
    <3>1. checked \in 0 .. Len(nodes) /\ checked < Len(nodes) /\ error = Complaint(checked + 1) /\ status # "valid"
      BY <2>1, <2>4 DEF SchemaApplied
    <3>2. checked + 1 \in DOMAIN nodes /\ Complaint(checked + 1) # NoError
      BY <2>1, <2>4, <3>1 DEF NoError
    <3> QED BY <2>2, <2>4, <3>1, <3>2
  <2> QED BY <2>3, <2>4
<1> QED BY <1>1, AlwaysTyped, PTL

\* No request is answered before it is.
LEMMA PendingIsNoAnswer ==
  ASSUME TypedInv, ~Configured
  PROVE  ~Answered /\ result # NoApp
BY DEF TypedInv, Steady, Answered, Pending, NoApp

(***************************************************************************)
(* When a location answers, those nested in it, at any depth, have         *)
(* declined: the post-order in which ConfigRouter asks is that of a tree.  *)
(***************************************************************************)
THEOREM InnermostIsFirst == ConfigurationSpec => []InnermostFirst
<1>1. TypedInv => InnermostFirst
  <2>1. TypedInv /\ Configured => InnermostFirst
    BY InnermostAnswers DEF TypedInv, Steady
  <2>2. TypedInv /\ ~Configured => InnermostFirst
    BY PendingIsNoAnswer DEF InnermostFirst
  <2> QED BY <2>1, <2>2
<1> QED BY <1>1, AlwaysTyped, PTL

(***************************************************************************)
(* Only servers that are meant for a request answer it, and nobody answers *)
(* only if none of their locations does: every one is asked.               *)
(***************************************************************************)
THEOREM NoneIsSkipped == ConfigurationSpec => []NoneSkipped
<1>1. TypedInv => NoneSkipped
  <2>1. TypedInv /\ Configured => NoneSkipped
    BY AllAreAsked DEF TypedInv, Steady
  <2>2. TypedInv /\ ~Configured => NoneSkipped
    BY PendingIsNoAnswer DEF NoneSkipped
  <2> QED BY <2>1, <2>2
<1> QED BY <1>1, AlwaysTyped, PTL

(***************************************************************************)
(* What the characters mean (ConfigText), and what the lexer takes them    *)
(* for.                                                                    *)
(***************************************************************************)
AfterPlain(c) ==
  IF c \in Quote THEN c
  ELSE IF c = "#" THEN "comment"
  ELSE IF c \in Structure \cup Space \cup {"control"} THEN "plain"
  ELSE "word"

\* The mode after a character, in the mode before it.
After(before, c) ==
  CASE before = "comment" -> IF c = "\n" THEN "plain" ELSE before
    [] before \in Quote -> IF c = before THEN "plain"
                           ELSE IF c = "\\" THEN Escaped(before) ELSE before
    [] before = Escaped("'") -> "'"
    [] before = Escaped("\"") -> "\""
    [] OTHER -> AfterPlain(c)

Moded(m, text, i) == m = [k \in 0 .. i |-> IF k = 0 THEN "plain" ELSE After(m[k - 1], text[k])]

\* The recursion of Modes.
LEMMA ModesExist ==
  ASSUME NEW text, Len(text) \in Nat
  PROVE  Moded(Modes(text), text, Len(text))
<1> DEFINE Bad == {k \in Nat : ~ \E m : Moded(m, text, k)}
<1>1. ASSUME Bad # {} PROVE FALSE
  <2>1. PICK k \in Bad : \A j \in Bad : k <= j
    BY <1>1, NumberMin
  <2>2. CASE k = 0
    <3> DEFINE m == [i \in 0 .. 0 |-> "plain"]
    <3>1. m = [i \in 0 .. 0 |-> IF i = 0 THEN "plain" ELSE After(m[i - 1], text[i])]
      <4> HIDE DEF m
      <4>1. \A i \in 0 .. 0 : i = 0
        OBVIOUS
      <4> QED BY <4>1 DEF m
    <3> HIDE DEF m
    <3> QED BY <2>1, <2>2, <3>1 DEF Moded
  <2>3. CASE k # 0
    <3>1. k \in Nat /\ k - 1 \in Nat /\ k - 1 \notin Bad
      <4>1. k \in Nat /\ k - 1 \in Nat /\ ~(k <= k - 1)
        BY <2>1, <2>3
      <4> QED BY <4>1, <2>1
    <3>2. PICK m : Moded(m, text, k - 1)
      BY <3>1
    <3> DEFINE g == [i \in 0 .. k |-> IF i = k THEN After(m[k - 1], text[k]) ELSE m[i]]
    <3>3. ASSUME NEW i \in 0 .. k
          PROVE  g[i] = IF i = 0 THEN "plain" ELSE After(g[i - 1], text[i])
      <4>1. CASE i = k
        <5>1. g[i] = After(m[k - 1], text[k]) /\ g[k - 1] = m[k - 1]
          BY <4>1, <3>1
        <5> QED BY <5>1, <4>1, <2>3
      <4>2. CASE i # k
        <5>1. i \in 0 .. k - 1 /\ g[i] = m[i] /\ (i # 0 => g[i - 1] = m[i - 1])
          BY <4>2, <3>1
        <5> HIDE DEF g
        <5>2. m[i] = IF i = 0 THEN "plain" ELSE After(m[i - 1], text[i])
          BY <5>1, <3>2 DEF Moded
        <5> QED BY <5>1, <5>2
      <4> QED BY <4>1, <4>2
    <3>4. Moded(g, text, k)
      <4> HIDE DEF g
      <4>1. g = [i \in 0 .. k |-> g[i]]
        BY DEF g
      <4> QED BY <3>3, <4>1 DEF Moded
    <3> HIDE DEF g
    <3> QED BY <2>1, <3>4
  <2> QED BY <2>2, <2>3
<1>2. \E m : Moded(m, text, Len(text))
  BY <1>1
<1> DEFINE mode == CHOOSE m : Moded(m, text, Len(text))
<1>3. Modes(text) = CHOOSE m \in {mode} : m = mode
  BY DEF Modes, Moded, After, AfterPlain
<1> HIDE DEF mode
<1>4. Modes(text) = mode
  BY <1>3
<1> QED BY <1>2, <1>4 DEF mode

\* data and the modes of its characters
ModesOfData(m) == data \in Words /\ Moded(m, data, Len(data))

LEMMA ModeSteps ==
  ASSUME NEW m, ModesOfData(m)
  PROVE  /\ Len(data) \in Nat /\ m[0] = "plain"
         /\ \A i \in 1 .. Len(data) : m[i] = After(m[i - 1], data[i]) /\ i - 1 \in 0 .. Len(data)
<1>1. Len(data) \in Nat
  BY DEF ModesOfData, Words
<1>2. m = [k \in 0 .. Len(data) |-> IF k = 0 THEN "plain" ELSE After(m[k - 1], data[k])]
  BY DEF ModesOfData, Moded
<1>3. m[0] = "plain"
  <2>1. 0 \in 0 .. Len(data)
    BY <1>1
  <2> QED BY <1>2, <2>1
<1>4. ASSUME NEW i \in 1 .. Len(data) PROVE m[i] = After(m[i - 1], data[i]) /\ i - 1 \in 0 .. Len(data)
  <2>1. i \in 0 .. Len(data) /\ i # 0 /\ i - 1 \in 0 .. Len(data)
    BY <1>1
  <2> QED BY <1>2, <2>1
<1> QED BY <1>1, <1>3, <1>4

\* Along characters that keep the reader in some modes.
LEMMA ModesKept ==
  ASSUME NEW m, ModesOfData(m), NEW a \in 0 .. Len(data), NEW b \in 0 .. Len(data),
         NEW Y, m[a] \in Y,
         \A k \in a + 1 .. b : \A y \in Y : After(y, data[k]) \in Y
  PROVE  \A k \in a .. b : m[k] \in Y
<1> DEFINE Bad == {k \in a .. b : m[k] \notin Y}
<1>0. a \in Nat /\ b \in Nat /\ Bad \in SUBSET Nat
  BY ModeSteps
<1>1. ASSUME Bad # {} PROVE FALSE
  <2>1. PICK k \in Bad : \A j \in Bad : k <= j
    <3> HIDE DEF Bad
    <3> QED BY <1>0, <1>1, NumberMin
  <2>2. k \in a + 1 .. b /\ k - 1 \in a .. b /\ k \in 1 .. Len(data)
    BY <2>1, <1>0, ModeSteps
  <2>3. m[k - 1] \in Y
    <3>1. k - 1 \notin Bad
      BY <2>1, <2>2, <1>0
    <3> QED BY <2>2, <3>1
  <2>4. m[k] = After(m[k - 1], data[k])
    BY <2>2, ModeSteps
  <2> QED BY <2>1, <2>2, <2>3, <2>4
<1> QED BY <1>1

Outdoors == {"plain", "word"}

LEMMA AfterOutdoors ==
  ASSUME NEW y \in Outdoors, NEW c
  PROVE  After(y, c) = AfterPlain(c)
BY DEF Outdoors, After, Quote, Escaped

Within(quot) == {quot, Escaped(quot)}

LEMMA AfterWithin ==
  ASSUME NEW quot \in Quote
  PROVE  /\ quot \notin Outdoors \cup {"comment"} /\ Escaped(quot) \notin Outdoors \cup {"comment"}
         /\ After(quot, quot) = "plain"
         /\ After(quot, "\\") = Escaped(quot)
         /\ \A c : c \notin {quot, "\\"} => After(quot, c) = quot
         /\ \A c : After(Escaped(quot), c) = quot
<1>1. CASE quot = "'"
  BY <1>1 DEF Outdoors, After, Quote, Escaped
<1>2. CASE quot = "\""
  BY <1>2 DEF Outdoors, After, Quote, Escaped
<1> QED BY <1>1, <1>2 DEF Quote

\* A character that is nothing to the parser by itself.
Quiet(m, k) == ~Outside(m, k) \/ data[k] \notin Structure \cup {"control"}

\* Read from the opening quote on, the modes are those of a quotation up to
\* where the recursion finds its end, if it finds one.
LEMMA ReadingModes ==
  ASSUME NEW m, ModesOfData(m), NEW quot \in Quote, NEW from \in 2 .. Len(data) + 1,
         m[from - 1] = quot, NEW f, Reads(f, quot, from)
  PROVE  /\ f[from] = LexicalError => \A k \in from .. Len(data) + 1 : m[k - 1] \in Within(quot)
         /\ f[from] # LexicalError =>
              /\ m[f[from].next - 1] = "plain"
              /\ \A k \in from .. f[from].next - 1 : m[k - 1] \in Within(quot)
<1> DEFINE end == Len(data) + 1
           Good(i) == m[i - 1] = quot =>
             /\ f[i] = LexicalError => \A k \in i .. end : m[k - 1] \in Within(quot)
             /\ f[i] # LexicalError =>
                  /\ m[f[i].next - 1] = "plain"
                  /\ \A k \in i .. f[i].next - 1 : m[k - 1] \in Within(quot)
           Bad == {k \in Nat : k <= end - from /\ ~Good(end - k)}
<1>0. Len(data) \in Nat /\ from \in 1 .. end
  BY ModeSteps
<1>1. \A i \in from .. end : f[i] = LexicalError \/ f[i] \in QuotedFrom(i)
  BY <1>0, ReadingFinds DEF ModesOfData
<1>2. quot \in Within(quot) /\ Escaped(quot) \in Within(quot)
  BY DEF Within
<1>3. ASSUME Bad # {} PROVE FALSE
  <2>1. PICK k \in Bad : \A j \in Bad : k <= j
    BY <1>3, NumberMin
  <2> DEFINE i == end - k
  <2>0. k \in Nat /\ k <= end - from /\ ~Good(i)
    <3> HIDE DEF Good
    <3> QED BY <2>1
  <2>2. k \in Nat /\ i \in from .. end /\ i \in Nat /\ end \in Nat /\ k <= end - from
    <3> HIDE DEF Good
    <3> QED BY <2>0, <1>0
  <2>3. f[i] = ReadOn(i, quot, f)
    BY <2>2 DEF Reads
  <2>4. ASSUME NEW j \in i + 1 .. end PROVE Good(j) /\ j \in from .. end
    <3>1. end - j \in Nat /\ end - j <= end - from /\ ~(k <= end - j) /\ end - (end - j) = j
      BY <2>2, <1>0
    <3>2. end - j \notin Bad
      BY <2>1, <3>1
    <3> QED BY <3>1, <3>2, <2>2, <1>0
  <2>5. m[i - 1] = quot
    BY <2>2
  <2>9. ASSUME f[i] = LexicalError, \A k2 \in i .. end : m[k2 - 1] \in Within(quot)
        PROVE  FALSE
    BY <2>0, <2>9
  <2>10. ASSUME f[i] # LexicalError, m[f[i].next - 1] = "plain",
                \A k2 \in i .. f[i].next - 1 : m[k2 - 1] \in Within(quot)
         PROVE  FALSE
    BY <2>0, <2>10
  <2> HIDE DEF Good, Bad, i
  \* What holds from a later character on holds from this one.
  <2>6. ASSUME NEW c, NEW j \in i + 1 .. end, m[j - 1] = quot, f[i] = Kept(c, f[j]),
               \A k2 \in i .. j : m[k2 - 1] \in Within(quot)
        PROVE  FALSE
    <3>1. Good(j) /\ j \in from .. end
      BY <2>4
    <3>2. CASE f[j] = LexicalError
      <4>1. f[i] = LexicalError
        BY <2>6, <3>2 DEF Kept
      <4>2. \A k2 \in j .. end : m[k2 - 1] \in Within(quot)
        BY <3>1, <3>2, <2>6 DEF Good
      <4>3. \A k2 \in i .. end : k2 \in i .. j \/ k2 \in j .. end
        BY <2>2
      <4> QED BY <4>1, <4>2, <4>3, <2>9, <2>6
    <3>3. CASE f[j] # LexicalError
      <4>1. f[j] \in [type : {"WORD"}, next : j + 1 .. end, content : Words]
        BY <3>1, <3>3, <1>1 DEF QuotedFrom
      <4>2. f[i].next = f[j].next /\ f[i].type = "WORD" /\ f[j].next \in Nat
        <5>1. f[i] = [f[j] EXCEPT !.content = <<c>> \o f[j].content]
          BY <2>6, <3>3 DEF Kept
        <5> QED BY <5>1, <4>1, <2>2
      <4>3. f[i] # LexicalError
        BY <4>2 DEF LexicalError, Token
      <4>4. m[f[j].next - 1] = "plain" /\ \A k2 \in j .. f[j].next - 1 : m[k2 - 1] \in Within(quot)
        BY <3>1, <3>3, <2>6 DEF Good
      <4>5. \A k2 \in i .. f[j].next - 1 : k2 \in i .. j \/ k2 \in j .. f[j].next - 1
        BY <2>2, <4>2
      <4>6. \A k2 \in i .. f[i].next - 1 : m[k2 - 1] \in Within(quot)
        BY <4>2, <4>4, <4>5, <2>6
      <4> QED BY <4>2, <4>3, <4>4, <4>6, <2>10
    <3> QED BY <3>2, <3>3
  <2>7. CASE i > Len(data)
    <3>1. i = end /\ f[i] = LexicalError
      BY <2>2, <2>3, <2>7, <1>0 DEF ReadOn
    <3>2. \A k2 \in i .. end : m[k2 - 1] \in Within(quot)
      BY <3>1, <2>2, <2>5, <1>2
    <3> QED BY <3>1, <3>2, <2>9
  <2>8. CASE i <= Len(data)
    <3>1. i \in 1 .. Len(data) /\ i + 1 \in i + 1 .. end /\ i + 1 - 1 = i /\ m[i] = After(quot, data[i])
      BY <2>2, <2>5, <2>8, <1>0, ModeSteps
    <3>2. CASE data[i] = "\\" /\ i = Len(data)
      <4>1. f[i] = LexicalError
        BY <2>3, <3>2 DEF ReadOn
      <4>2. m[i] = Escaped(quot)
        BY <3>1, <3>2, AfterWithin
      <4>3. \A k2 \in i .. end : k2 - 1 = i - 1 \/ k2 - 1 = i
        BY <2>2, <3>2, <1>0
      <4>4. \A k2 \in i .. end : m[k2 - 1] \in Within(quot)
        BY <4>2, <4>3, <2>5, <1>2
      <4> QED BY <4>1, <4>4, <2>9
    <3>3. CASE data[i] = quot
      <4>1. f[i] = Token("WORD", i + 1, << >>)
        <5>1. quot # "\\"
          BY DEF Quote
        <5> QED BY <5>1, <2>3, <2>8, <3>1, <3>3 DEF ReadOn
      <4>2. f[i] # LexicalError /\ f[i].next = i + 1
        BY <4>1 DEF Token, LexicalError
      <4>3. m[i] = "plain"
        BY <3>1, <3>3, AfterWithin
      <4>4. \A k2 \in i .. f[i].next - 1 : k2 = i
        BY <4>2, <2>2
      <4>5. \A k2 \in i .. f[i].next - 1 : m[k2 - 1] \in Within(quot)
        BY <4>4, <2>5, <1>2
      <4> QED BY <4>2, <4>3, <4>5, <3>1, <2>10
    <3>4. CASE data[i] # quot /\ data[i] = "\\" /\ i # Len(data)
      <4>1. f[i] = Kept(data[i + 1], f[i + 2])
        BY <2>3, <2>8, <3>1, <3>4 DEF ReadOn
      <4> DEFINE n == i + 1
                 j == i + 2
      <4>2. j \in i + 1 .. end /\ j - 1 = n /\ n \in 1 .. Len(data) /\ n - 1 = i
        BY <3>1, <3>4, <1>0
      <4>3. m[i] = Escaped(quot)
        BY <3>1, <3>4, AfterWithin
      <4>5. \A k2 \in i .. j : k2 - 1 = i - 1 \/ k2 - 1 = i \/ k2 - 1 = n
        BY <2>2
      <4> HIDE DEF n, j
      <4>4. m[n] = quot
        <5>1. m[n] = After(m[i], data[n])
          BY <4>2, ModeSteps
        <5> QED BY <5>1, <4>3, AfterWithin
      <4>6. \A k2 \in i .. j : m[k2 - 1] \in Within(quot)
        BY <4>3, <4>4, <4>5, <2>5, <1>2
      <4> QED BY <4>1, <4>2, <4>4, <4>6, <2>6 DEF j
    <3>5. CASE data[i] # quot /\ data[i] # "\\"
      <4>1. f[i] = Kept(data[i], f[i + 1])
        BY <2>3, <2>8, <3>1, <3>5 DEF ReadOn
      <4>2. m[i] = quot
        BY <3>1, <3>5, AfterWithin
      <4>3. \A k2 \in i .. i + 1 : k2 - 1 = i - 1 \/ k2 - 1 = i
        BY <2>2
      <4>4. \A k2 \in i .. i + 1 : m[k2 - 1] \in Within(quot)
        BY <4>2, <4>3, <2>5, <1>2
      <4>5. m[i + 1 - 1] = quot
        BY <4>2, <3>1
      <4> DEFINE j == i + 1
      <4>6. j \in i + 1 .. end /\ m[j - 1] = quot /\ f[i] = Kept(data[i], f[j])
            /\ \A k2 \in i .. j : m[k2 - 1] \in Within(quot)
        BY <4>1, <4>4, <4>5, <3>1
      <4> HIDE DEF j
      <4> QED BY <4>6, <2>6
    <3> QED BY <3>2, <3>3, <3>4, <3>5
  <2> QED BY <2>7, <2>8, <2>2, <1>0
<1>4. Good(from)
  <2>1. end - from \in Nat /\ end - from <= end - from /\ end - (end - from) = from
    BY <1>0
  <2> QED BY <1>3, <2>1
<1> QED BY <1>4

\* A quoted word is closed by its quote; an error is a quotation that does not
\* end.
LEMMA QuotedModes ==
  ASSUME NEW m, ModesOfData(m), NEW quot \in Quote, NEW from \in 2 .. Len(data) + 1,
         m[from - 1] = quot
  PROVE  LET token == Quoted(from, quot)
         IN  /\ token.type \in {"WORD", "ERROR"}
             /\ token.type = "ERROR" =>
                  /\ m[Len(data)] \notin Outdoors \cup {"comment"}
                  /\ \A k \in from .. Len(data) : ~Outside(m, k)
             /\ token.type = "WORD" =>
                  /\ token.next \in from + 1 .. Len(data) + 1
                  /\ m[token.next - 1] = "plain"
                  /\ \A k \in from .. token.next - 1 : ~Outside(m, k)
<1> DEFINE f == CHOOSE g : Reads(g, quot, from)
<1>0. Len(data) \in Nat /\ from \in 1 .. Len(data) + 1 /\ data \in Words
  BY ModeSteps DEF ModesOfData
<1>1. Reads(f, quot, from)
  BY <1>0, ReadingExists
<1>2. Quoted(from, quot) = f[from]
  BY DEF Quoted, Reads, ReadOn, Kept
<1> HIDE DEF f
<1>3. f[from] = LexicalError \/ f[from] \in QuotedFrom(from)
  <2>1. \A i \in from .. Len(data) + 1 : f[i] = LexicalError \/ f[i] \in QuotedFrom(i)
    BY <1>0, <1>1, ReadingFinds
  <2> QED BY <1>0, <2>1
<1>4. LexicalError.type = "ERROR"
  BY DEF LexicalError, Token
<1>5. \A k : m[k - 1] \in Within(quot) => ~Outside(m, k)
  BY AfterWithin DEF Within, Outside, Outdoors
<1>6. CASE f[from] = LexicalError
  <2>1. \A k \in from .. Len(data) + 1 : m[k - 1] \in Within(quot)
    BY <1>1, <1>6, ReadingModes
  <2>2. m[Len(data) + 1 - 1] \in Within(quot) /\ Len(data) + 1 - 1 = Len(data)
    BY <2>1, <1>0
  <2>3. m[Len(data)] \notin Outdoors \cup {"comment"}
    BY <2>2, AfterWithin DEF Within
  <2>4. \A k \in from .. Len(data) : ~Outside(m, k)
    BY <2>1, <1>0, <1>5
  <2> QED BY <2>3, <2>4, <1>2, <1>4, <1>6
<1>7. CASE f[from] # LexicalError
  <2>1. f[from].type = "WORD" /\ f[from].next \in from + 1 .. Len(data) + 1
    BY <1>3, <1>7 DEF QuotedFrom
  <2>2. m[f[from].next - 1] = "plain" /\ \A k \in from .. f[from].next - 1 : m[k - 1] \in Within(quot)
    BY <1>1, <1>7, ReadingModes
  <2> QED BY <2>1, <2>2, <1>2, <1>5
<1> QED BY <1>6, <1>7

\* Where one token ends and the next begins: no word, quoted or not, goes on,
\* and a comment only up to the end of its line.
Between(m, i) ==
  m[i] \in Outdoors \/ (m[i] = "comment" /\ (i < Len(data) => data[i + 1] = EOL))

\* What a token is made of, as ConfigText reads it.
TokenFits(m, token) ==
  LET first == offset + 1
      last == token.next - 1
  IN  \/ token.type = "EOD" /\ offset = Len(data)
      \/ /\ token.type \in {"WS", "COMMENT"} /\ last \in first .. Len(data) /\ Between(m, last)
         /\ \A k \in first .. last : Quiet(m, k) /\ ~WordAt(m, k)
      \/ /\ token.type = "WORD" /\ last \in first .. Len(data) /\ Between(m, last)
         /\ \A k \in first .. last : Quiet(m, k)
         /\ WordAt(m, first)
      \/ /\ <<token.type, data[first]>> \in {<<"TERM", ";">>, <<"OPENBRACE", "{">>, <<"CLOSEBRACE", "}">>}
         /\ first <= Len(data) /\ last = first
         /\ Outside(m, first) /\ m[first] = "plain"
      \/ /\ token.type = "ERROR" /\ first <= Len(data)
         /\ Outside(m, first) /\ data[first] = Control
      \/ /\ token.type = "ERROR" /\ first <= Len(data)
         /\ \A k \in first .. Len(data) : Quiet(m, k)
         /\ m[Len(data)] \notin Outdoors \cup {"comment"}

LEMMA RunsOfCharacters ==
  ASSUME NEW m, ModesOfData(m), NEW first \in 1 .. Len(data)
  PROVE  /\ data[first] \in Blank /\ Outside(m, first) =>
              LET next == FirstNotIn(first, Blank)
              IN  /\ next - 1 \in first .. Len(data) /\ Between(m, next - 1)
                  /\ \A k \in first .. next - 1 : Quiet(m, k) /\ ~WordAt(m, k)
         /\ data[first] = "#" /\ Outside(m, first) =>
              LET next == FirstIn(first, {EOL})
              IN  /\ next - 1 \in first .. Len(data) /\ Between(m, next - 1)
                  /\ \A k \in first .. next - 1 : Quiet(m, k) /\ ~WordAt(m, k)
         /\ data[first] \notin Special \cup Structure /\ Outside(m, first) =>
              LET next == FirstIn(first, Special)
              IN  /\ next - 1 \in first .. Len(data) /\ Between(m, next - 1)
                  /\ \A k \in first .. next - 1 : Quiet(m, k)
                  /\ WordAt(m, first)
<1>0. /\ Len(data) \in Nat /\ first - 1 \in 0 .. Len(data) /\ first \in 0 .. Len(data)
      /\ \A i \in 1 .. Len(data) : m[i] = After(m[i - 1], data[i])
      /\ first \in 1 .. Len(data) + 1 /\ data \in Words
  BY ModeSteps DEF ModesOfData
<1>1. ASSUME data[first] \in Blank, Outside(m, first)
      PROVE  LET next == FirstNotIn(first, Blank)
             IN  /\ next - 1 \in first .. Len(data) /\ Between(m, next - 1)
                 /\ \A k \in first .. next - 1 : Quiet(m, k) /\ ~WordAt(m, k)
  <2> DEFINE next == FirstNotIn(first, Blank)
  <2>1. /\ next \in first .. Len(data) + 1
        /\ next <= Len(data) => data[next] \notin Blank
        /\ \A j \in first .. next - 1 : data[j] \in Blank
    BY <1>0, FirstCharacter
  <2> HIDE DEF next
  <2>2. next - 1 \in first .. Len(data) /\ next - 1 \in 0 .. Len(data)
    BY <1>0, <1>1, <2>1
  <2>3. \A y \in Outdoors : \A c \in Blank : After(y, c) = "plain"
    BY AfterOutdoors DEF AfterPlain, Blank, CR, Quote, Structure, Space
  <2>4. \A k \in first - 1 + 1 .. next - 1 : data[k] \in Blank
    BY <1>0, <2>1
  <2>5. \A k \in first - 1 .. next - 1 : m[k] \in Outdoors
    <3>1. m[first - 1] \in Outdoors
      BY <1>1 DEF Outside, Outdoors
    <3>2. \A k \in first - 1 + 1 .. next - 1 : \A y \in Outdoors : After(y, data[k]) \in Outdoors
      BY <2>3, <2>4 DEF Outdoors
    <3> QED BY <3>1, <3>2, <2>2, <1>0, ModesKept
  <2>6. ASSUME NEW k \in first .. next - 1 PROVE Quiet(m, k) /\ ~WordAt(m, k)
    <3>1. k \in 1 .. Len(data) /\ k - 1 \in first - 1 .. next - 1 /\ data[k] \in Blank
      BY <1>0, <2>1, <2>2
    <3>2. m[k] = "plain"
      BY <3>1, <2>3, <2>5, <1>0
    <3> QED BY <3>1, <3>2 DEF Quiet, WordAt, Quote, Blank, CR, Structure
  <2>7. Between(m, next - 1)
    BY <1>0, <2>2, <2>5 DEF Between
  <2> QED BY <2>2, <2>6, <2>7 DEF next
<1>2. ASSUME data[first] = "#", Outside(m, first)
      PROVE  LET next == FirstIn(first, {EOL})
             IN  /\ next - 1 \in first .. Len(data) /\ Between(m, next - 1)
                 /\ \A k \in first .. next - 1 : Quiet(m, k) /\ ~WordAt(m, k)
  <2> DEFINE next == FirstIn(first, {EOL})
  <2>1. /\ next \in first .. Len(data) + 1
        /\ next <= Len(data) => data[next] \in {EOL}
        /\ \A j \in first .. next - 1 : data[j] \notin {EOL}
    BY <1>0, FirstCharacter
  <2> HIDE DEF next
  <2>2. next - 1 \in first .. Len(data) /\ next - 1 \in 0 .. Len(data) /\ next - 1 + 1 = next
    <3>1. next # first
      BY <1>2, <2>1 DEF EOL
    <3> QED BY <1>0, <2>1, <3>1
  <2>3. m[first] = "comment"
    <3>1. m[first - 1] \in Outdoors /\ m[first] = After(m[first - 1], data[first])
      BY <1>0, <1>2 DEF Outside, Outdoors
    <3> QED BY <3>1, <1>2, AfterOutdoors DEF AfterPlain, Quote
  <2>4. \A k \in first .. next - 1 : m[k] \in {"comment"}
    <3>1. \A k \in first + 1 .. next - 1 : \A y \in {"comment"} : After(y, data[k]) \in {"comment"}
      <4>1. \A c : c # EOL => After("comment", c) = "comment"
        BY DEF After, EOL, Quote, Escaped
      <4>2. \A k \in first + 1 .. next - 1 : data[k] # EOL
        BY <1>0, <2>1
      <4> QED BY <4>1, <4>2
    <3> QED BY <2>2, <2>3, <3>1, <1>0, ModesKept
  <2>5. ASSUME NEW k \in first .. next - 1 PROVE Quiet(m, k) /\ ~WordAt(m, k)
    <3>1. m[k] = "comment"
      BY <2>4
    <3>2. Quiet(m, k)
      <4>1. CASE k = first
        BY <4>1, <1>2 DEF Quiet, Structure
      <4>2. CASE k # first
        <5>1. k - 1 \in first .. next - 1
          BY <4>2, <1>0, <2>2
        <5>2. m[k - 1] = "comment"
          BY <5>1, <2>4
        <5> QED BY <5>2 DEF Quiet, Outside
      <4> QED BY <4>1, <4>2
    <3> QED BY <3>1, <3>2 DEF WordAt, Quote
  <2>6. Between(m, next - 1)
    <3>1. m[next - 1] = "comment"
      BY <1>0, <2>2, <2>4
    <3>2. next - 1 < Len(data) => next <= Len(data)
      BY <1>0, <2>1
    <3> QED BY <3>1, <3>2, <2>1, <2>2 DEF Between
  <2> QED BY <2>2, <2>5, <2>6 DEF next
<1>3. ASSUME data[first] \notin Special \cup Structure, Outside(m, first)
      PROVE  LET next == FirstIn(first, Special)
             IN  /\ next - 1 \in first .. Len(data) /\ Between(m, next - 1)
                 /\ \A k \in first .. next - 1 : Quiet(m, k)
                 /\ WordAt(m, first)
  <2> DEFINE next == FirstIn(first, Special)
  <2>1. /\ next \in first .. Len(data) + 1
        /\ next <= Len(data) => data[next] \in Special
        /\ \A j \in first .. next - 1 : data[j] \notin Special
    BY <1>0, FirstCharacter
  <2> HIDE DEF next
  <2>2. next - 1 \in first .. Len(data) /\ next - 1 \in 0 .. Len(data)
    <3>1. next # first
      BY <1>3, <2>1
    <3> QED BY <1>0, <2>1, <3>1
  <2>3. \A c : c \notin Special => c \notin Quote /\ c # "#" /\ c \notin Structure \cup Space \cup {"control"}
    BY DEF Special, Quotes, Blank, CR, EOL, Control, Quote, Structure, Space
  <2>4. \A y \in Outdoors : \A c : c \notin Special => After(y, c) = "word"
    BY <2>3, AfterOutdoors DEF AfterPlain
  <2>5. m[first] = "word" /\ WordAt(m, first)
    <3>1. m[first - 1] \in Outdoors /\ m[first] = After(m[first - 1], data[first])
      BY <1>0, <1>3 DEF Outside, Outdoors
    <3>2. m[first] = "word"
      BY <3>1, <1>3, <2>4
    <3> QED BY <3>2, <1>3 DEF WordAt
  <2>6. \A k \in first .. next - 1 : m[k] \in Outdoors
    <3>1. \A k \in first + 1 .. next - 1 : \A y \in Outdoors : After(y, data[k]) \in Outdoors
      BY <1>0, <2>1, <2>4 DEF Outdoors
    <3>2. m[first] \in Outdoors
      BY <2>5 DEF Outdoors
    <3> QED BY <2>2, <3>1, <3>2, <1>0, ModesKept
  <2>7. \A k \in first .. next - 1 : Quiet(m, k)
    BY <2>1, <2>3 DEF Quiet
  <2>8. Between(m, next - 1)
    BY <1>0, <2>2, <2>6 DEF Between
  <2> QED BY <2>2, <2>5, <2>7, <2>8 DEF next
<1> QED BY <1>1, <1>2, <1>3

LEMMA TokenModes ==
  ASSUME NEW m, ModesOfData(m), offset \in 0 .. Len(data), Between(m, offset)
  PROVE  TokenFits(m, NextToken)
<1> DEFINE start == offset + 1
           first == data[start]
           UpTo(type, next) == Token(type, next, SubSeq(data, start, next - 1))
<1>0. Len(data) \in Nat /\ offset \in Nat
  BY ModeSteps
<1>1. \A type, next : UpTo(type, next).type = type /\ UpTo(type, next).next = next
  BY DEF Token
<1>2. CASE start > Len(data)
  <2>1. NextToken.type = "EOD" /\ offset = Len(data)
    BY <1>0, <1>2 DEF NextToken, Token
  <2> QED BY <2>1 DEF TokenFits
<1>3. CASE ~(start > Len(data))
  <2>0. /\ start \in 1 .. Len(data) /\ start - 1 = offset /\ offset < Len(data) /\ start + 1 - 1 = start
        /\ start \in start .. Len(data) /\ start <= Len(data) /\ start + 1 \in 2 .. Len(data) + 1
        /\ \A k \in start .. start : k = start
    BY <1>0, <1>3
  <2>1. first # EOL => m[offset] \in Outdoors /\ Outside(m, start) /\ m[start] = AfterPlain(first)
    <3> SUFFICES ASSUME first # EOL PROVE m[offset] \in Outdoors /\ Outside(m, start) /\ m[start] = AfterPlain(first)
      OBVIOUS
    <3>1. m[offset] \in Outdoors
      BY <2>0 DEF Between
    <3>2. m[start] = After(m[offset], first)
      BY <2>0, ModeSteps
    <3> QED BY <2>0, <3>1, <3>2, AfterOutdoors DEF Outside, Outdoors
  <2>2. NextToken = CASE first = ";" -> UpTo("TERM", start + 1)
                      [] first = "{" -> UpTo("OPENBRACE", start + 1)
                      [] first = "}" -> UpTo("CLOSEBRACE", start + 1)
                      [] first = EOL -> UpTo("WS", start + 1)
                      [] first \in Blank -> UpTo("WS", FirstNotIn(start, Blank))
                      [] first = "#" -> UpTo("COMMENT", FirstIn(start, {EOL}))
                      [] first \in Quotes -> Quoted(start + 1, first)
                      [] first = Control -> LexicalError
                      [] OTHER -> UpTo("WORD", FirstIn(start, Special))
    BY <1>3 DEF NextToken
  <2> HIDE DEF UpTo, first, start
  <2>3. CASE first \in Structure
    <3>1. PICK type : /\ NextToken = UpTo(type, start + 1)
                      /\ <<type, first>> \in {<<"TERM", ";">>, <<"OPENBRACE", "{">>, <<"CLOSEBRACE", "}">>}
      BY <2>2, <2>3 DEF Structure, EOL, Blank, CR, Quotes, Control
    <3>2. NextToken.type = type /\ NextToken.next = start + 1
      BY <1>1, <3>1
    <3>3. Outside(m, start) /\ m[start] = "plain"
      BY <2>1, <2>3 DEF AfterPlain, EOL, Quote, Structure
    <3>4. <<NextToken.type, first>> \in {<<"TERM", ";">>, <<"OPENBRACE", "{">>, <<"CLOSEBRACE", "}">>}
      BY <3>1, <3>2
    <3>5. NextToken.next - 1 = start
      BY <2>0, <3>2
    <3> QED BY <2>0, <3>3, <3>4, <3>5 DEF TokenFits, start, first
  <2>4. CASE first = EOL
    <3>1. NextToken = UpTo("WS", start + 1)
      BY <2>2, <2>4 DEF EOL, Blank, CR, Quotes, Control
    <3>2. NextToken.type = "WS" /\ NextToken.next = start + 1
      BY <1>1, <3>1
    <3>3. m[start] = "plain"
      <4>1. m[start] = After(m[offset], first)
        BY <2>0, ModeSteps DEF first
      <4>2. CASE m[offset] \in Outdoors
        BY <4>1, <4>2, <2>4, AfterOutdoors DEF AfterPlain, EOL, Quote, Space
      <4>3. CASE m[offset] = "comment"
        BY <4>1, <4>3, <2>4 DEF After, EOL, Quote, Escaped
      <4> QED BY <4>2, <4>3 DEF Between
    <3>4. Between(m, start) /\ Quiet(m, start) /\ ~WordAt(m, start)
      BY <3>3, <2>4 DEF Between, Outdoors, Quiet, WordAt, EOL, Structure, Quote, first
    <3> QED BY <2>0, <3>2, <3>4 DEF TokenFits, start
  <2>5. CASE first \in Blank
    <3>1. NextToken = UpTo("WS", FirstNotIn(start, Blank))
      BY <2>2, <2>5 DEF EOL, Blank, CR, Quotes, Control
    <3>2. NextToken.type = "WS" /\ NextToken.next = FirstNotIn(start, Blank)
      BY <1>1, <3>1
    <3>3. Outside(m, start)
      BY <2>1, <2>5 DEF Blank, CR, EOL
    <3>4. LET next == NextToken.next
          IN  /\ next - 1 \in start .. Len(data) /\ Between(m, next - 1)
              /\ \A k \in start .. next - 1 : Quiet(m, k) /\ ~WordAt(m, k)
      BY <2>0, <2>5, <3>2, <3>3, RunsOfCharacters DEF first
    <3> QED BY <3>2, <3>4 DEF TokenFits, start
  <2>6. CASE first = "#"
    <3>1. NextToken = UpTo("COMMENT", FirstIn(start, {EOL}))
      BY <2>2, <2>6 DEF EOL, Blank, CR, Quotes, Control
    <3>2. NextToken.type = "COMMENT" /\ NextToken.next = FirstIn(start, {EOL})
      BY <1>1, <3>1
    <3>3. Outside(m, start)
      BY <2>1, <2>6 DEF EOL
    <3>4. LET next == NextToken.next
          IN  /\ next - 1 \in start .. Len(data) /\ Between(m, next - 1)
              /\ \A k \in start .. next - 1 : Quiet(m, k) /\ ~WordAt(m, k)
      BY <2>0, <2>6, <3>2, <3>3, RunsOfCharacters DEF first
    <3> QED BY <3>2, <3>4 DEF TokenFits, start
  <2>7. CASE first \in Quotes
    <3>1. NextToken = Quoted(start + 1, first)
      BY <2>2, <2>7 DEF EOL, Blank, CR, Quotes, Control
    <3>2. first \in Quote /\ Outside(m, start) /\ m[start] = first
      BY <2>1, <2>7 DEF Quotes, Quote, AfterPlain, EOL
    <3>3. Quiet(m, start) /\ WordAt(m, start)
      BY <3>2 DEF Quiet, WordAt, Structure, Quote, first
    <3> DEFINE from == start + 1
    <3>4. from \in 2 .. Len(data) + 1 /\ m[from - 1] = first
      BY <2>0, <3>2
    <3>5. from \in Nat /\ start \in Nat /\ \A k, b : k \in start .. b /\ b \in Nat => k = start \/ k \in from .. b
      BY <2>0
    <3>6. from .. Len(data) \subseteq start .. Len(data)
      BY <2>0
    <3> HIDE DEF from
    <3>7. /\ NextToken.type \in {"WORD", "ERROR"}
          /\ NextToken.type = "ERROR" =>
               /\ m[Len(data)] \notin Outdoors \cup {"comment"}
               /\ \A k \in from .. Len(data) : ~Outside(m, k)
          /\ NextToken.type = "WORD" =>
               /\ NextToken.next \in from + 1 .. Len(data) + 1
               /\ m[NextToken.next - 1] = "plain"
               /\ \A k \in from .. NextToken.next - 1 : ~Outside(m, k)
      BY <3>1, <3>2, <3>4, QuotedModes DEF from
    <3>8. CASE NextToken.type = "ERROR"
      <4>1. \A k \in start .. Len(data) : Quiet(m, k)
        BY <1>0, <3>3, <3>5, <3>7, <3>8 DEF Quiet
      <4> QED BY <2>0, <3>7, <3>8, <4>1 DEF TokenFits, start
    <3>9. CASE NextToken.type = "WORD"
      <4> DEFINE last == NextToken.next - 1
      <4>1. last \in from .. Len(data) /\ last \in Nat /\ m[last] = "plain"
            /\ \A k \in from .. last : ~Outside(m, k)
        BY <1>0, <3>5, <3>7, <3>9
      <4>2. last \in start .. Len(data)
        BY <3>6, <4>1
      <4> HIDE DEF last
      <4>3. \A k \in start .. last : Quiet(m, k)
        BY <3>3, <3>5, <4>1 DEF Quiet
      <4>4. Between(m, last)
        BY <4>1 DEF Between, Outdoors
      <4> QED BY <3>3, <3>9, <4>2, <4>3, <4>4 DEF TokenFits, start, last
    <3> QED BY <3>7, <3>8, <3>9
  <2>8. CASE first = Control
    <3>1. NextToken = LexicalError
      BY <2>2, <2>8 DEF Control, Quotes, Blank, CR, EOL
    <3>2. NextToken.type = "ERROR"
      BY <3>1 DEF LexicalError, Token
    <3>3. Outside(m, start)
      BY <2>1, <2>8 DEF Control, EOL
    <3> QED BY <2>0, <2>8, <3>2, <3>3 DEF TokenFits, start, first
  <2>9. CASE first \notin Special \cup Structure
    <3>1. NextToken = UpTo("WORD", FirstIn(start, Special))
      <4>1. first \notin {";", "{", "}", EOL, "#", Control} \cup Blank \cup Quotes
        BY <2>9 DEF Special, Structure
      <4> QED BY <2>2, <4>1
    <3>2. NextToken.type = "WORD" /\ NextToken.next = FirstIn(start, Special)
      BY <1>1, <3>1
    <3>3. Outside(m, start)
      BY <2>1, <2>9 DEF Special
    <3>4. LET next == NextToken.next
          IN  /\ next - 1 \in start .. Len(data) /\ Between(m, next - 1)
              /\ \A k \in start .. next - 1 : Quiet(m, k)
              /\ WordAt(m, start)
      BY <2>0, <2>9, <3>2, <3>3, RunsOfCharacters DEF first
    <3> QED BY <3>2, <3>4 DEF TokenFits, start
  <2> QED BY <2>3, <2>4, <2>5, <2>6, <2>7, <2>8, <2>9 DEF Special, Structure
<1> QED BY <1>2, <1>3

(***************************************************************************)
(* The braces, the directives and the faults among the first characters.   *)
(***************************************************************************)
Count(m, c, i) == Cardinality({j \in 1 .. i : data[j] = c /\ Outside(m, j)})

LEMMA BalanceCounts ==
  ASSUME NEW m, NEW i
  PROVE  Balance(data, m, i) = [opened |-> Count(m, "{", i), closed |-> Count(m, "}", i)]
BY DEF Balance, Count

LEMMA CountIsNumber ==
  ASSUME NEW m, NEW c, NEW i \in Nat
  PROVE  /\ IsFiniteSet({j \in 1 .. i : data[j] = c /\ Outside(m, j)})
         /\ Count(m, c, i) \in Nat
<1>1. IsFiniteSet(1 .. i) /\ {j \in 1 .. i : data[j] = c /\ Outside(m, j)} \subseteq 1 .. i
  BY FS_Interval
<1>2. IsFiniteSet({j \in 1 .. i : data[j] = c /\ Outside(m, j)})
  BY <1>1, FS_Subset
<1> QED BY <1>2, FS_CardinalityType DEF Count

LEMMA CountSame ==
  ASSUME NEW m, NEW c, NEW a \in Nat, NEW b \in Nat, a <= b,
         \A k \in a + 1 .. b : data[k] = c => ~Outside(m, k)
  PROVE  Count(m, c, b) = Count(m, c, a)
<1>1. {j \in 1 .. b : data[j] = c /\ Outside(m, j)} = {j \in 1 .. a : data[j] = c /\ Outside(m, j)}
  <2>1. \A j \in 1 .. b : j \in 1 .. a \/ j \in a + 1 .. b
    OBVIOUS
  <2>2. 1 .. a \subseteq 1 .. b
    OBVIOUS
  <2> QED BY <2>1, <2>2
<1> QED BY <1>1 DEF Count

LEMMA CountMore ==
  ASSUME NEW m, NEW c, NEW a \in Nat, data[a + 1] = c, Outside(m, a + 1)
  PROVE  Count(m, c, a + 1) = Count(m, c, a) + 1
<1> DEFINE S == {j \in 1 .. a : data[j] = c /\ Outside(m, j)}
           T == {j \in 1 .. a + 1 : data[j] = c /\ Outside(m, j)}
<1>1. T = S \cup {a + 1}
  <2>1. \A j : j \in 1 .. a + 1 <=> j \in 1 .. a \/ j = a + 1
    OBVIOUS
  <2> QED BY <2>1
<1>2. a + 1 \notin S
  OBVIOUS
<1>3. IsFiniteSet(S)
  BY CountIsNumber
<1> HIDE DEF S, T
<1>4. Cardinality(S \cup {a + 1}) = Cardinality(S) + 1
  BY <1>2, <1>3, FS_AddElement
<1> QED BY <1>1, <1>4 DEF Count, S, T

LEMMA BegunOver ==
  ASSUME NEW m, NEW a \in Nat, NEW b \in Nat, a <= b,
         \A k \in a + 1 .. b : ~Structural(data, m, k)
  PROVE  Begun(data, m, b + 1) <=> Begun(data, m, a + 1) \/ \E j \in a + 1 .. b : WordAt(m, j)
<1>1. \A n \in Nat : Begun(data, m, n + 1) <=>
        \E j \in 1 .. n : WordAt(m, j) /\ \A k \in j + 1 .. n : ~Structural(data, m, k)
  <2>1. \A n \in Nat : n + 1 - 1 = n
    OBVIOUS
  <2> QED BY <2>1 DEF Begun
<1>2. ASSUME NEW j \in 1 .. b, WordAt(m, j), \A k \in j + 1 .. b : ~Structural(data, m, k)
      PROVE  Begun(data, m, a + 1) \/ \E i \in a + 1 .. b : WordAt(m, i)
  <2>1. CASE j \in 1 .. a
    <3>1. \A k \in j + 1 .. a : k \in j + 1 .. b
      OBVIOUS
    <3> QED BY <2>1, <3>1, <1>1, <1>2
  <2>2. CASE j \in a + 1 .. b
    BY <2>2, <1>2
  <2> QED BY <2>1, <2>2
<1>3. ASSUME NEW j \in 1 .. a, WordAt(m, j), \A k \in j + 1 .. a : ~Structural(data, m, k)
      PROVE  Begun(data, m, b + 1)
  <2>1. \A k \in j + 1 .. b : k \in j + 1 .. a \/ k \in a + 1 .. b
    OBVIOUS
  <2>2. j \in 1 .. b
    OBVIOUS
  <2> QED BY <2>1, <2>2, <1>1, <1>3
<1>4. ASSUME NEW j \in a + 1 .. b, WordAt(m, j)
      PROVE  Begun(data, m, b + 1)
  <2>1. \A k \in j + 1 .. b : k \in a + 1 .. b
    OBVIOUS
  <2>2. j \in 1 .. b
    OBVIOUS
  <2> QED BY <2>1, <2>2, <1>1, <1>4
<1> QED BY <1>1, <1>2, <1>3, <1>4

LEMMA BegunEnds ==
  ASSUME NEW m, NEW a \in Nat, Outside(m, a + 1), data[a + 1] \in Structure, m[a + 1] = "plain"
  PROVE  ~Begun(data, m, a + 1 + 1)
<1>1. Structural(data, m, a + 1) /\ ~WordAt(m, a + 1)
  BY DEF Structural, WordAt, Quote
<1>2. ASSUME NEW j \in 1 .. a + 1, WordAt(m, j), \A k \in j + 1 .. a + 1 : ~Structural(data, m, k)
      PROVE  FALSE
  <2>1. j # a + 1
    BY <1>1, <1>2
  <2>2. a + 1 \in j + 1 .. a + 1
    BY <2>1
  <2> QED BY <2>2, <1>1, <1>2
<1>3. a + 1 + 1 - 1 = a + 1
  OBVIOUS
<1> QED BY <1>2, <1>3 DEF Begun

\* What is quiet is no fault, ends no directive and is no brace.
LEMMA QuietCharacters ==
  ASSUME NEW m, NEW k, Quiet(m, k)
  PROVE  /\ ~Fault(data, m, k) /\ ~Structural(data, m, k)
         /\ \A c \in {"{", "}"} : data[k] = c => ~Outside(m, k)
BY DEF Quiet, Fault, Structural, Structure

\* Nothing is wrong with the first characters, and they leave the parser at
\* some depth, in a directive or between two.
Sound(m, i) == \A k \in 1 .. i : ~Fault(data, m, k)

Deep(m, i, depth) == Count(m, "{", i) = Count(m, "}", i) + depth

LEMMA QuietText ==
  ASSUME NEW m, NEW a \in Nat, NEW b \in Nat, a <= b, NEW depth,
         Sound(m, a), Deep(m, a, depth), \A k \in a + 1 .. b : Quiet(m, k)
  PROVE  /\ Sound(m, b) /\ Deep(m, b, depth)
         /\ Begun(data, m, b + 1) <=> Begun(data, m, a + 1) \/ \E j \in a + 1 .. b : WordAt(m, j)
<1>1. \A k \in a + 1 .. b :
        /\ ~Fault(data, m, k) /\ ~Structural(data, m, k)
        /\ \A c \in {"{", "}"} : data[k] = c => ~Outside(m, k)
  BY QuietCharacters
<1>2. Sound(m, b)
  <2>1. \A k \in 1 .. b : k \in 1 .. a \/ k \in a + 1 .. b
    OBVIOUS
  <2> QED BY <2>1, <1>1 DEF Sound
<1>3. Count(m, "{", b) = Count(m, "{", a) /\ Count(m, "}", b) = Count(m, "}", a)
  <2>1. /\ \A k \in a + 1 .. b : data[k] = "{" => ~Outside(m, k)
        /\ \A k \in a + 1 .. b : data[k] = "}" => ~Outside(m, k)
    BY <1>1
  <2>2. Count(m, "{", b) = Count(m, "{", a)
    BY <2>1, CountSame
  <2>3. Count(m, "}", b) = Count(m, "}", a)
    BY <2>1, CountSame
  <2> QED BY <2>2, <2>3
<1>4. Begun(data, m, b + 1) <=> Begun(data, m, a + 1) \/ \E j \in a + 1 .. b : WordAt(m, j)
  BY <1>1, BegunOver
<1> QED BY <1>2, <1>3, <1>4 DEF Deep

\* A brace or semicolon
LEMMA OneMore ==
  ASSUME NEW m, NEW a \in Nat, Outside(m, a + 1), m[a + 1] = "plain",
         Sound(m, a), NEW depth \in Nat, Deep(m, a, depth)
  PROVE  /\ data[a + 1] = ";" => Sound(m, a + 1) /\ Deep(m, a + 1, depth)
         /\ data[a + 1] = "{" =>
              /\ Fault(data, m, a + 1) <=> ~Begun(data, m, a + 1)
              /\ Begun(data, m, a + 1) => Sound(m, a + 1) /\ Deep(m, a + 1, depth + 1)
         /\ data[a + 1] = "}" =>
              /\ Fault(data, m, a + 1) <=> Begun(data, m, a + 1) \/ depth = 0
              /\ ~Begun(data, m, a + 1) /\ depth # 0 => Sound(m, a + 1) /\ Deep(m, a + 1, depth - 1)
<1> DEFINE b == a + 1
<1>1. \A k \in a + 1 .. b : k = b
  OBVIOUS
<1>2. \A k \in 1 .. b : k \in 1 .. a \/ k = b
  OBVIOUS
<1>3. ~Fault(data, m, b) => Sound(m, b)
  BY <1>2 DEF Sound
<1>4. \A c : data[b] # c => Count(m, c, b) = Count(m, c, a)
  <2> TAKE c
  <2> HAVE data[b] # c
  <2>1. \A k \in a + 1 .. b : data[k] = c => ~Outside(m, k)
    BY <1>1
  <2> QED BY <2>1, CountSame
<1>5. Count(m, data[b], b) = Count(m, data[b], a) + 1
  BY CountMore
<1>6. /\ Count(m, "{", a) \in Nat /\ Count(m, "}", a) \in Nat
      /\ Count(m, "{", a) = Count(m, "}", a) + depth
  BY CountIsNumber DEF Deep
<1>7. Balance(data, m, b) = [opened |-> Count(m, "{", b), closed |-> Count(m, "}", b)]
  BY BalanceCounts
<1> HIDE DEF b
<1>8. CASE data[b] = ";"
  <2>1. ~Fault(data, m, b)
    BY <1>8 DEF Fault
  <2>2. Deep(m, b, depth)
    BY <1>4, <1>6, <1>8 DEF Deep
  <2> QED BY <1>3, <1>8, <2>1, <2>2 DEF b
<1>9. CASE data[b] = "{"
  <2>1. Fault(data, m, b) <=> ~Begun(data, m, b)
    BY <1>9 DEF Fault, b
  <2>2. Count(m, "{", b) = Count(m, "{", a) + 1 /\ Count(m, "}", b) = Count(m, "}", a)
    BY <1>4, <1>5, <1>9
  <2>3. Deep(m, b, depth + 1)
    <3>1. \A x, y \in Nat : x = y + depth => x + 1 = y + (depth + 1)
      OBVIOUS
    <3>2. Count(m, "{", a) + 1 = Count(m, "}", a) + (depth + 1)
      BY <1>6, <3>1
    <3> QED BY <2>2, <3>2 DEF Deep
  <2> QED BY <1>3, <1>9, <2>1, <2>3 DEF b
<1>10. CASE data[b] = "}"
  <2>1. Count(m, "{", b) = Count(m, "{", a) /\ Count(m, "}", b) = Count(m, "}", a) + 1
    BY <1>4, <1>5, <1>10
  <2>2. Balance(data, m, b).closed > Balance(data, m, b).opened <=> depth = 0
    <3>1. \A x, y \in Nat : x = y + depth => (y + 1 > x <=> depth = 0)
      OBVIOUS
    <3>2. Count(m, "}", a) + 1 > Count(m, "{", a) <=> depth = 0
      BY <1>6, <3>1
    <3>3. /\ Balance(data, m, b).closed = Count(m, "}", a) + 1
          /\ Balance(data, m, b).opened = Count(m, "{", a)
      <4> DEFINE x == Count(m, "{", b)
                 y == Count(m, "}", b)
      <4>1. Balance(data, m, b) = [opened |-> x, closed |-> y]
        BY <1>7
      <4> HIDE DEF x, y
      <4>2. Balance(data, m, b).closed = y /\ Balance(data, m, b).opened = x
        BY <4>1
      <4> QED BY <2>1, <4>2, Zenon DEF x, y
    <3> QED BY <3>2, <3>3, Zenon
  <2>3. Fault(data, m, b) <=> Begun(data, m, b) \/ depth = 0
    BY <1>10, <2>2 DEF Fault, b
  <2>4. depth # 0 => Deep(m, b, depth - 1)
    <3>1. \A x, y \in Nat : x = y + depth => x = (y + 1) + (depth - 1)
      OBVIOUS
    <3>2. Count(m, "{", a) = (Count(m, "}", a) + 1) + (depth - 1)
      BY <1>6, <3>1
    <3> QED BY <2>1, <3>2 DEF Deep
  <2> QED BY <1>3, <1>10, <2>3, <2>4 DEF b
<1> QED BY <1>8, <1>9, <1>10 DEF b

(***************************************************************************)
(* The parser, with the text that it has read                              *)
(***************************************************************************)
\* How many blocks are around a directive
Depths(depth, tree, len) ==
  /\ depth \in [0 .. len -> Nat] /\ depth[0] = 0
  /\ \A n \in 1 .. len : depth[n] = depth[tree[n].parent] + 1

\* What has been read has no fault; and the parser is within a directive, and
\* within a block, if the text is.
Reading(m, depth) ==
  /\ Between(m, offset)
  /\ Sound(m, offset)
  /\ open <=> Begun(data, m, offset + 1)
  /\ open => nodes[Len(nodes)].parent = scope
  /\ Depths(depth, nodes, Len(nodes))
  /\ Deep(m, offset, depth[scope])

TextRead == \E depth : Reading(Modes(data), depth)

SyntaxInv ==
  /\ status = "parsing" => TextRead
  /\ SyntaxChecked

LEMMA ModesAreOfData ==
  ASSUME data \in Words
  PROVE  ModesOfData(Modes(data))
BY ModesExist DEF ModesOfData, Words

\* A step of the parser, in the terms of Reading.
LEMMA ReadingStep ==
  ASSUME data' = data, NEW m, m = Modes(data), NEW depth, NEW i, offset' = i,
         Between(m, i), Sound(m, i), open' <=> Begun(data, m, i + 1),
         open' => nodes'[Len(nodes')].parent = scope',
         Depths(depth, nodes', Len(nodes')), Deep(m, i, depth[scope']),
         status' = "parsing", checked' = 0, error'.reason # "syntax"
  PROVE  SyntaxInv'
<1>1. \A k, c : (Between(m, k)' <=> Between(m, k)) /\ Count(m, c, k)' = Count(m, c, k)
  BY DEF Between, Count
<1>2. Reading(m, depth)'
  BY <1>1 DEF Reading, Sound, Deep
<1>3. TextRead'
  <2>1. m = Modes(data)'
    OBVIOUS
  <2> QED BY <1>2, <2>1 DEF TextRead
<1>4. SyntaxChecked'
  BY DEF SyntaxChecked, Parsed
<1> QED BY <1>3, <1>4 DEF SyntaxInv

LEMMA ReadingFacts ==
  ASSUME TypedInv, SyntaxInv, status = "parsing"
  PROVE  /\ \E depth : Reading(Modes(data), depth)
         /\ ModesOfData(Modes(data)) /\ offset \in 0 .. Len(data) /\ offset \in Nat /\ Len(data) \in Nat
         /\ checked = 0 /\ error.reason # "syntax"
         /\ DOMAIN nodes = 1 .. Len(nodes) /\ Len(nodes) \in Nat /\ scope \in 0 .. Len(nodes)
         /\ \A n \in 1 .. Len(nodes) : nodes[n].parent \in 0 .. Len(nodes)
<1>1. TextRead
  BY DEF SyntaxInv
<1>2. data \in Words /\ offset \in 0 .. Len(data) /\ checked = 0
  BY DEF TypedInv, FileTypes
<1>3. error.reason # "syntax"
  BY DEF TypedInv, Steady, SchemaApplied
<1>4. NodesRead(nodes, scope) /\ Ordered(nodes, Len(nodes)) /\ DOMAIN nodes = 1 .. Len(nodes) /\ Len(nodes) \in Nat
  BY ParsingFacts
<1>5. ASSUME NEW n \in 1 .. Len(nodes) PROVE nodes[n].parent \in 0 .. Len(nodes)
  <2>1. Tree(nodes, Len(nodes))
    BY <1>4, OrderedTree
  <2>2. nodes[n].parent \in {0} \cup 1 .. Len(nodes)
    BY <1>4, <2>1 DEF Tree
  <2> QED BY <1>4, <2>2
<1>6. Len(data) \in Nat /\ offset \in Nat
  BY <1>2 DEF Words
<1> QED BY <1>1, <1>2, <1>3, <1>4, <1>5, <1>6, ModesAreOfData DEF TextRead, NodesRead

LEMMA ConsumedToken ==
  ASSUME NEW type, Consume(type)
  PROVE  /\ status = "parsing" /\ NextToken.type = type
         /\ status' = "parsing" /\ checked' = checked /\ error' = error
         /\ data' = data /\ offset' = NextToken.next - 1
BY DEF Consume, Advance

LEMMA SkipReads ==
  ASSUME TypedInv, SyntaxInv, Skip
  PROVE  SyntaxInv'
<1>1. PICK type \in {"WS", "COMMENT"} : Consume(type)
  BY DEF Skip
<1>2. UNCHANGED <<nodes, scope, open>>
  BY DEF Skip, treeVars
<1> DEFINE m == Modes(data)
           last == NextToken.next - 1
<1>3. PICK depth : Reading(m, depth)
  BY <1>1, ConsumedToken, ReadingFacts
<1>4. /\ ModesOfData(m) /\ offset \in 0 .. Len(data) /\ offset \in Nat /\ Len(data) \in Nat
      /\ checked = 0 /\ error.reason # "syntax"
  BY <1>1, ConsumedToken, ReadingFacts
<1>5. NextToken.type \in {"WS", "COMMENT"} /\ data' = data /\ offset' = last /\ status' = "parsing"
      /\ checked' = checked /\ error' = error
  BY <1>1, ConsumedToken
<1> HIDE DEF m
<1>6. TokenFits(m, NextToken)
  BY <1>3, <1>4, TokenModes DEF Reading
<1>7. /\ last \in offset + 1 .. Len(data) /\ Between(m, last)
      /\ \A k \in offset + 1 .. last : Quiet(m, k) /\ ~WordAt(m, k)
  BY <1>5, <1>6 DEF TokenFits
<1>8. last \in Nat /\ offset <= last
  BY <1>4, <1>7
<1> HIDE DEF last
<1>9. /\ Sound(m, last) /\ Deep(m, last, depth[scope])
      /\ Begun(data, m, last + 1) <=> Begun(data, m, offset + 1)
  BY <1>3, <1>4, <1>7, <1>8, QuietText DEF Reading
<1>10. /\ open' <=> Begun(data, m, last + 1)
       /\ open' => nodes'[Len(nodes')].parent = scope'
       /\ Depths(depth, nodes', Len(nodes')) /\ Deep(m, last, depth[scope'])
  BY <1>2, <1>3, <1>9 DEF Reading
<1>11. m = Modes(data)
  BY DEF m
<1> QED BY <1>4, <1>5, <1>7, <1>9, <1>10, <1>11, ReadingStep

CharacterOf(type) == IF type = "TERM" THEN ";" ELSE IF type = "OPENBRACE" THEN "{" ELSE "}"

LEMMA StructureRead ==
  ASSUME NEW m, ModesOfData(m), offset \in 0 .. Len(data), Between(m, offset),
         NEW type \in {"TERM", "OPENBRACE", "CLOSEBRACE"}, NextToken.type = type
  PROVE  LET i == offset + 1
         IN  /\ NextToken.next - 1 = i /\ i \in 1 .. Len(data)
             /\ Outside(m, i) /\ m[i] = "plain" /\ data[i] = CharacterOf(type)
             /\ Between(m, i) /\ ~Begun(data, m, i + 1)
<1> DEFINE i == offset + 1
<1>0. Len(data) \in Nat /\ offset \in Nat /\ offset + 1 \in Nat
  BY ModeSteps
<1>1. TokenFits(m, NextToken)
  BY TokenModes
<1>2. /\ <<type, data[i]>> \in {<<"TERM", ";">>, <<"OPENBRACE", "{">>, <<"CLOSEBRACE", "}">>}
      /\ i <= Len(data) /\ NextToken.next - 1 = i
      /\ Outside(m, i) /\ m[i] = "plain"
  BY <1>1 DEF TokenFits
<1>3. data[i] = CharacterOf(type) /\ data[i] \in Structure
  <2>1. \A x, y : <<x, y>> \in {<<"TERM", ";">>, <<"OPENBRACE", "{">>, <<"CLOSEBRACE", "}">>} =>
          (x = "TERM" /\ y = ";") \/ (x = "OPENBRACE" /\ y = "{") \/ (x = "CLOSEBRACE" /\ y = "}")
    OBVIOUS
  <2>2. \/ type = "TERM" /\ data[i] = ";"
        \/ type = "OPENBRACE" /\ data[i] = "{"
        \/ type = "CLOSEBRACE" /\ data[i] = "}"
    BY <1>2, <2>1, Zenon
  <2> HIDE DEF i
  <2> QED BY <2>2 DEF CharacterOf, Structure
<1>4. Between(m, i)
  BY <1>2 DEF Between, Outdoors
<1>5. ~Begun(data, m, i + 1)
  BY <1>0, <1>2, <1>3, BegunEnds
<1>6. i \in 1 .. Len(data)
  <2>1. i <= Len(data)
    BY <1>2
  <2> QED BY <1>0, <2>1
<1> QED BY <1>2, <1>3, <1>4, <1>5, <1>6, Zenon

LEMMA ReadTermReads ==
  ASSUME TypedInv, SyntaxInv, ReadTerm
  PROVE  SyntaxInv'
<1>1. Consume("TERM") /\ UNCHANGED <<nodes, scope>> /\ open' = FALSE
  BY DEF ReadTerm
<1> DEFINE m == Modes(data)
           i == offset + 1
<1>2. PICK depth : Reading(m, depth)
  BY <1>1, ConsumedToken, ReadingFacts
<1>3. /\ ModesOfData(m) /\ offset \in 0 .. Len(data) /\ offset \in Nat
      /\ checked = 0 /\ error.reason # "syntax" /\ scope \in 0 .. Len(nodes)
  BY <1>1, ConsumedToken, ReadingFacts
<1>4. NextToken.type = "TERM" /\ data' = data /\ offset' = NextToken.next - 1 /\ status' = "parsing"
      /\ checked' = checked /\ error' = error
  BY <1>1, ConsumedToken
<1> HIDE DEF m
<1>5. /\ Between(m, offset) /\ Sound(m, offset) /\ Deep(m, offset, depth[scope])
      /\ Depths(depth, nodes, Len(nodes)) /\ depth[scope] \in Nat
  BY <1>2, <1>3 DEF Reading, Depths
<1>6. /\ NextToken.next - 1 = i /\ Outside(m, i) /\ m[i] = "plain" /\ data[i] = ";"
      /\ Between(m, i) /\ ~Begun(data, m, i + 1)
  BY <1>3, <1>4, <1>5, StructureRead DEF CharacterOf
<1>7. Sound(m, i) /\ Deep(m, i, depth[scope])
  BY <1>3, <1>5, <1>6, OneMore
<1>8. m = Modes(data)
  BY DEF m
<1> HIDE DEF i
<1>9. /\ open' <=> Begun(data, m, i + 1)
      /\ open' => nodes'[Len(nodes')].parent = scope'
      /\ Depths(depth, nodes', Len(nodes')) /\ Deep(m, i, depth[scope'])
  BY <1>1, <1>5, <1>6, <1>7
<1> QED BY <1>3, <1>4, <1>6, <1>7, <1>8, <1>9, ReadingStep

LEMMA OpenBlockReads ==
  ASSUME TypedInv, SyntaxInv, OpenBlock
  PROVE  SyntaxInv'
<1>1. Consume("OPENBRACE") /\ open /\ nodes' = nodes /\ scope' = Len(nodes) /\ open' = FALSE
  BY DEF OpenBlock
<1> DEFINE m == Modes(data)
           i == offset + 1
<1>2. PICK depth : Reading(m, depth)
  BY <1>1, ConsumedToken, ReadingFacts
<1>3. /\ ModesOfData(m) /\ offset \in 0 .. Len(data) /\ offset \in Nat
      /\ checked = 0 /\ error.reason # "syntax" /\ scope \in 0 .. Len(nodes) /\ Len(nodes) \in Nat
  BY <1>1, ConsumedToken, ReadingFacts
<1>4. NextToken.type = "OPENBRACE" /\ data' = data /\ offset' = NextToken.next - 1 /\ status' = "parsing"
      /\ checked' = checked /\ error' = error
  BY <1>1, ConsumedToken
<1>41. Len(nodes) \in 1 .. Len(nodes)
  <2>1. nodes # << >> /\ nodes \in Seq(Directive)
    BY <1>1, ConsumedToken, ParsingFacts DEF NodesRead
  <2> QED BY <2>1
<1> HIDE DEF m
<1>5. /\ Between(m, offset) /\ Sound(m, offset) /\ Deep(m, offset, depth[scope])
      /\ Depths(depth, nodes, Len(nodes)) /\ depth[scope] \in Nat
      /\ Begun(data, m, i) /\ depth[Len(nodes)] = depth[scope] + 1
  BY <1>1, <1>2, <1>3, <1>41 DEF Reading, Depths
<1>6. /\ NextToken.next - 1 = i /\ Outside(m, i) /\ m[i] = "plain" /\ data[i] = "{"
      /\ Between(m, i) /\ ~Begun(data, m, i + 1)
  BY <1>3, <1>4, <1>5, StructureRead DEF CharacterOf
<1>7. Sound(m, i) /\ Deep(m, i, depth[scope] + 1)
  BY <1>3, <1>5, <1>6, OneMore
<1>8. m = Modes(data)
  BY DEF m
<1> HIDE DEF i
<1>9. /\ open' <=> Begun(data, m, i + 1)
      /\ open' => nodes'[Len(nodes')].parent = scope'
      /\ Depths(depth, nodes', Len(nodes')) /\ Deep(m, i, depth[scope'])
  BY <1>1, <1>5, <1>6, <1>7
<1> QED BY <1>3, <1>4, <1>6, <1>7, <1>8, <1>9, ReadingStep

LEMMA CloseBlockReads ==
  ASSUME TypedInv, SyntaxInv, CloseBlock
  PROVE  SyntaxInv'
<1>1. /\ Consume("CLOSEBRACE") /\ ~open /\ scope # 0 /\ open' = open
      /\ nodes' = nodes /\ scope' = nodes[scope].parent
  BY DEF CloseBlock, Root
<1> DEFINE m == Modes(data)
           i == offset + 1
           p == nodes[scope].parent
<1>2. PICK depth : Reading(m, depth)
  BY <1>1, ConsumedToken, ReadingFacts
<1>3. /\ ModesOfData(m) /\ offset \in 0 .. Len(data) /\ offset \in Nat
      /\ checked = 0 /\ error.reason # "syntax" /\ scope \in 1 .. Len(nodes)
      /\ p \in 0 .. Len(nodes)
  BY <1>1, ConsumedToken, ReadingFacts
<1>4. NextToken.type = "CLOSEBRACE" /\ data' = data /\ offset' = NextToken.next - 1 /\ status' = "parsing"
      /\ checked' = checked /\ error' = error
  BY <1>1, ConsumedToken
<1> HIDE DEF m
<1>5. /\ Between(m, offset) /\ Sound(m, offset) /\ Deep(m, offset, depth[scope])
      /\ Depths(depth, nodes, Len(nodes)) /\ ~Begun(data, m, i)
  BY <1>1, <1>2 DEF Reading
<1>51. depth[p] \in Nat /\ depth[scope] = depth[p] + 1
  BY <1>3, <1>5 DEF Depths
<1>52. depth[scope] \in Nat /\ depth[scope] # 0 /\ depth[scope] - 1 = depth[p]
  BY <1>51
<1>6. /\ NextToken.next - 1 = i /\ Outside(m, i) /\ m[i] = "plain" /\ data[i] = "}"
      /\ Between(m, i) /\ ~Begun(data, m, i + 1)
  BY <1>3, <1>4, <1>5, StructureRead DEF CharacterOf
<1>7. Sound(m, i) /\ Deep(m, i, depth[scope] - 1)
  BY <1>3, <1>5, <1>52, <1>6, OneMore
<1>8. m = Modes(data)
  BY DEF m
<1> HIDE DEF i
<1>9. /\ open' <=> Begun(data, m, i + 1)
      /\ open' => nodes'[Len(nodes')].parent = scope'
      /\ Depths(depth, nodes', Len(nodes')) /\ Deep(m, i, depth[scope'])
  BY <1>1, <1>5, <1>52, <1>6, <1>7
<1> QED BY <1>3, <1>4, <1>6, <1>7, <1>8, <1>9, ReadingStep

LEMMA ReadWordReads ==
  ASSUME TypedInv, SyntaxInv, ReadWord
  PROVE  SyntaxInv'
<1>1. Consume("WORD") /\ open' = TRUE /\ scope' = scope
  BY DEF ReadWord
<1> DEFINE m == Modes(data)
           last == NextToken.next - 1
           len == Len(nodes)
<1>2. PICK depth : Reading(m, depth)
  BY <1>1, ConsumedToken, ReadingFacts
<1>3. /\ ModesOfData(m) /\ offset \in 0 .. Len(data) /\ offset \in Nat /\ Len(data) \in Nat
      /\ checked = 0 /\ error.reason # "syntax" /\ scope \in 0 .. len
      /\ DOMAIN nodes = 1 .. len /\ len \in Nat
      /\ \A n \in 1 .. len : nodes[n].parent \in 0 .. len
  BY <1>1, ConsumedToken, ReadingFacts
<1>4. NextToken.type = "WORD" /\ data' = data /\ offset' = last /\ status' = "parsing"
      /\ checked' = checked /\ error' = error
  BY <1>1, ConsumedToken
<1> HIDE DEF m, len
<1>5. /\ Between(m, offset) /\ Sound(m, offset) /\ Deep(m, offset, depth[scope])
      /\ Depths(depth, nodes, len) /\ (open => nodes[len].parent = scope)
  BY <1>2 DEF Reading, len
<1>6. TokenFits(m, NextToken)
  BY <1>3, <1>5, TokenModes
<1>7. /\ last \in offset + 1 .. Len(data) /\ Between(m, last)
      /\ \A k \in offset + 1 .. last : Quiet(m, k)
      /\ WordAt(m, offset + 1)
  BY <1>4, <1>6 DEF TokenFits
<1>8. last \in Nat /\ offset <= last /\ offset + 1 \in offset + 1 .. last
  BY <1>3, <1>7
<1> HIDE DEF last
<1>9. /\ Sound(m, last) /\ Deep(m, last, depth[scope])
      /\ Begun(data, m, last + 1)
  BY <1>3, <1>5, <1>7, <1>8, QuietText
<1>10. m = Modes(data)
  BY DEF m
<1>11. CASE open
  <2>1. Len(nodes') = len /\ \A l \in 1 .. len : nodes'[l].parent = nodes[l].parent
    BY <1>3, <1>11, WordRead DEF len
  <2>2. nodes'[len].parent = nodes[len].parent
    <3>1. len # 0
      <4>1. nodes # << >> /\ nodes \in Seq(Directive)
        BY <1>1, <1>11, ConsumedToken, ParsingFacts DEF NodesRead
      <4> QED BY <4>1 DEF len
    <3>2. len \in 1 .. len
      BY <1>3, <3>1
    <3> QED BY <2>1, <3>2
  <2>3. Depths(depth, nodes', Len(nodes'))
    BY <1>5, <2>1 DEF Depths
  <2>4. /\ open' <=> Begun(data, m, last + 1)
        /\ open' => nodes'[Len(nodes')].parent = scope'
        /\ Deep(m, last, depth[scope'])
    BY <1>1, <1>5, <1>9, <1>11, <2>1, <2>2
  <2> QED BY <1>3, <1>4, <1>7, <1>9, <1>10, <2>3, <2>4, ReadingStep
<1>12. CASE ~open
  <2> DEFINE deeper == [n \in 0 .. len + 1 |-> IF n = len + 1 THEN depth[scope] + 1 ELSE depth[n]]
  <2>1. /\ Len(nodes') = len + 1
        /\ \A l \in 1 .. len : nodes'[l] = nodes[l]
        /\ nodes'[len + 1].parent = scope
    BY <1>12, WordRead DEF len
  <2>2. \A n \in 0 .. len : n \in 0 .. len + 1 /\ n # len + 1 /\ deeper[n] = depth[n] /\ depth[n] \in Nat
    BY <1>3, <1>5 DEF Depths
  <2>3. len + 1 \in 0 .. len + 1 /\ deeper[len + 1] = depth[scope] + 1 /\ depth[scope] \in Nat
    <3>1. len + 1 \in 0 .. len + 1
      BY <1>3
    <3>2. depth[scope] \in Nat
      BY <1>3, <2>2
    <3> QED BY <3>1, <3>2
  <2>9. deeper = [n \in 0 .. len + 1 |-> deeper[n]]
    OBVIOUS
  <2> HIDE DEF deeper
  <2>4. deeper \in [0 .. len + 1 -> Nat]
    <3>1. ASSUME NEW n \in 0 .. len + 1 PROVE deeper[n] \in Nat
      <4>1. n = len + 1 \/ n \in 0 .. len
        BY <1>3
      <4> QED BY <4>1, <2>2, <2>3
    <3> QED BY <3>1, <2>9
  <2>5. ASSUME NEW n \in 1 .. len + 1
        PROVE  deeper[n] = deeper[nodes'[n].parent] + 1
    <3>1. CASE n = len + 1
      BY <3>1, <1>3, <2>1, <2>2, <2>3
    <3>2. CASE n # len + 1
      <4>1. n \in 1 .. len /\ n \in 0 .. len
        BY <3>2, <1>3
      <4>2. depth[n] = depth[nodes[n].parent] + 1 /\ nodes[n].parent \in 0 .. len
        BY <4>1, <1>3, <1>5 DEF Depths
      <4> QED BY <4>1, <4>2, <2>1, <2>2
    <3> QED BY <3>1, <3>2
  <2>6. deeper[0] = 0
    <3>1. 0 \in 0 .. len /\ depth[0] = 0
      BY <1>3, <1>5 DEF Depths
    <3> QED BY <3>1, <2>2
  <2>7. Depths(deeper, nodes', Len(nodes'))
    BY <2>1, <2>4, <2>5, <2>6 DEF Depths
  <2>8. /\ open' <=> Begun(data, m, last + 1)
        /\ open' => nodes'[Len(nodes')].parent = scope'
        /\ Deep(m, last, deeper[scope'])
    BY <1>1, <1>3, <1>9, <2>1, <2>2
  <2> QED BY <1>3, <1>4, <1>7, <1>9, <1>10, <2>7, <2>8, ReadingStep
<1> QED BY <1>11, <1>12

(***************************************************************************)
(* The end of parsing                                                      *)
(***************************************************************************)
LEMMA FaultAhead ==
  ASSUME ModesOfData(Modes(data)), offset \in Nat, Sound(Modes(data), offset),
         offset + 1 \in 1 .. Len(data), Fault(data, Modes(data), offset + 1)
  PROVE  /\ ~WellFormed(data)
         /\ (CHOOSE i \in Faults(data) : \A j \in Faults(data) : i <= j) = offset + 1
<1> DEFINE m == Modes(data)
           F == Faults(data)
<1>1. Len(data) \in Nat /\ DOMAIN data = 1 .. Len(data)
  BY DEF ModesOfData, Words
<1>2. F = {i \in 1 .. Len(data) : Fault(data, m, i)}
  BY <1>1 DEF Faults
<1>3. offset + 1 \in F
  BY <1>2
<1>4. \A j \in F : j \in Nat /\ offset + 1 <= j
  <2> TAKE j \in F
  <2>1. j \in 1 .. Len(data) /\ Fault(data, m, j)
    BY <1>2
  <2>2. j \notin 1 .. offset
    BY <2>1 DEF Sound
  <2> QED BY <1>1, <2>1, <2>2
<1> HIDE DEF F
<1>5. \A i \in F : (\A j \in F : i <= j) => i = offset + 1
  <2> TAKE i \in F
  <2> HAVE \A j \in F : i <= j
  <2>1. i <= offset + 1 /\ offset + 1 <= i /\ i \in Nat
    BY <1>3, <1>4
  <2> QED BY <2>1
<1>6. (CHOOSE i \in F : \A j \in F : i <= j) = offset + 1
  BY <1>3, <1>4, <1>5
<1> QED BY <1>3, <1>6 DEF WellFormed, F

LEMMA NoFaultAhead ==
  ASSUME ModesOfData(Modes(data)), Sound(Modes(data), Len(data))
  PROVE  Faults(data) = {}
<1>1. DOMAIN data = 1 .. Len(data)
  BY DEF ModesOfData, Words
<1> QED BY <1>1 DEF Faults, Sound

\* How parsing ends, in the terms of SyntaxChecked.
LEMMA EndSyntaxInv ==
  ASSUME data' = data, status' # "parsing",
         status' = "checking" <=> WellFormed(data),
         Faults(data) # {} =>
           error'.at = PositionOf(data, CHOOSE i \in Faults(data) : \A j \in Faults(data) : i <= j)
  PROVE  SyntaxInv'
BY DEF SyntaxInv, SyntaxChecked

LEMMA SyntaxErrorReads ==
  ASSUME TypedInv, SyntaxInv, SyntaxError
  PROVE  SyntaxInv'
<1>1. /\ status = "parsing"
      /\ NextToken.type = "ERROR" \/ Misplaced(NextToken.type)
      /\ status' = "rejected" /\ error'.at = Here /\ data' = data
  BY DEF SyntaxError, Reject, lexVars
<1> DEFINE m == Modes(data)
           i == offset + 1
           len == Len(data)
<1>2. PICK depth : Reading(m, depth)
  BY <1>1, ReadingFacts
<1>3. /\ ModesOfData(m) /\ offset \in 0 .. Len(data) /\ offset \in Nat /\ len \in Nat
      /\ scope \in 0 .. Len(nodes)
  BY <1>1, ReadingFacts
<1>4. Here = PositionOf(data, i)
  BY <1>1 DEF TypedInv, Steady
<1> HIDE DEF m, len
<1>5. /\ Between(m, offset) /\ Sound(m, offset) /\ Deep(m, offset, depth[scope])
      /\ Depths(depth, nodes, Len(nodes)) /\ depth[scope] \in Nat
      /\ open <=> Begun(data, m, i)
  BY <1>2, <1>3 DEF Reading, Depths
<1>6. TokenFits(m, NextToken)
  BY <1>3, <1>5, TokenModes
<1>7. ASSUME Fault(data, m, i), i \in 1 .. len PROVE SyntaxInv'
  <2>1. /\ ~WellFormed(data)
        /\ (CHOOSE j \in Faults(data) : \A k \in Faults(data) : j <= k) = i
    BY <1>3, <1>5, <1>7, FaultAhead DEF m, len
  <2> QED BY <1>1, <1>4, <2>1, EndSyntaxInv
<1>8. CASE NextToken.type = "ERROR"
  <2>1. i <= len /\ \/ Outside(m, i) /\ data[i] = Control
                    \/ /\ \A k \in i .. len : Quiet(m, k)
                       /\ m[len] \notin Outdoors \cup {"comment"}
    BY <1>6, <1>8 DEF TokenFits, len
  <2>2. i \in 1 .. len
    BY <1>3, <2>1
  <2>3. CASE Outside(m, i) /\ data[i] = Control
    <3>1. Fault(data, m, i)
      BY <2>3 DEF Fault, Control
    <3> QED BY <1>7, <2>2, <3>1
  <2>4. CASE (\A k \in i .. len : Quiet(m, k)) /\ m[len] \notin Outdoors \cup {"comment"}
    <3>1. Sound(m, len)
      <4>1. \A k \in 1 .. len : k \in 1 .. offset \/ k \in i .. len
        BY <1>3
      <4> QED BY <1>5, <2>4, <4>1, QuietCharacters DEF Sound
    <3>2. Faults(data) = {}
      BY <1>3, <3>1, NoFaultAhead DEF m, len
    <3>3. Unfinished(data)
      BY <2>4 DEF Unfinished, Outdoors, m, len
    <3> QED BY <1>1, <3>2, <3>3, EndSyntaxInv DEF WellFormed
  <2> QED BY <2>1, <2>3, <2>4
<1>9. CASE NextToken.type = "OPENBRACE" /\ ~open
  <2>1. Outside(m, i) /\ m[i] = "plain" /\ data[i] = "{" /\ i \in 1 .. len
    BY <1>3, <1>5, <1>9, StructureRead DEF CharacterOf, len
  <2>2. Fault(data, m, i)
    BY <1>5, <1>9, <2>1 DEF Fault
  <2> QED BY <1>7, <2>1, <2>2
<1>10. CASE NextToken.type = "CLOSEBRACE" /\ (open \/ scope = Root)
  <2>1. Outside(m, i) /\ m[i] = "plain" /\ data[i] = "}" /\ i \in 1 .. len
    BY <1>3, <1>5, <1>10, StructureRead DEF CharacterOf, len
  <2>2. scope = Root => depth[scope] = 0
    BY <1>5 DEF Depths, Root
  <2>3. Fault(data, m, i) <=> Begun(data, m, i) \/ depth[scope] = 0
    BY <1>3, <1>5, <2>1, OneMore
  <2> QED BY <1>5, <1>7, <1>10, <2>1, <2>2, <2>3
<1> QED BY <1>1, <1>8, <1>9, <1>10 DEF Misplaced

LEMMA EndOfDataReads ==
  ASSUME TypedInv, SyntaxInv, EndOfData
  PROVE  SyntaxInv'
<1>1. /\ status = "parsing" /\ NextToken.type = "EOD" /\ data' = data
      /\ status' = "checking" <=> ~open /\ scope = 0
      /\ status' # "parsing"
  BY DEF EndOfData, Reject, Root, lexVars
<1> DEFINE m == Modes(data)
           len == Len(data)
<1>2. PICK depth : Reading(m, depth)
  BY <1>1, ReadingFacts
<1>3. /\ ModesOfData(m) /\ offset \in 0 .. Len(data) /\ offset \in Nat /\ len \in Nat
      /\ scope \in 0 .. Len(nodes) /\ Len(nodes) \in Nat
      /\ \A n \in 1 .. Len(nodes) : nodes[n].parent \in 0 .. Len(nodes)
  BY <1>1, ReadingFacts
<1> HIDE DEF m
<1>4. offset = len
  <2>1. TokenFits(m, NextToken)
    BY <1>2, <1>3, TokenModes DEF Reading
  <2> QED BY <1>1, <2>1 DEF TokenFits
<1> HIDE DEF len
<1>5. /\ Between(m, len) /\ Sound(m, len) /\ Deep(m, len, depth[scope])
      /\ Depths(depth, nodes, Len(nodes))
      /\ open <=> Begun(data, m, len + 1)
  BY <1>2, <1>4 DEF Reading
<1>6. Faults(data) = {}
  BY <1>3, <1>5, NoFaultAhead DEF m, len
<1>7. m[len] \in {"plain", "word", "comment"}
  BY <1>5 DEF Between, Outdoors
<1>8. depth[scope] \in Nat /\ (depth[scope] = 0 <=> scope = 0)
  <2>1. depth[scope] \in Nat /\ depth[0] = 0
    BY <1>3, <1>5 DEF Depths
  <2>2. ASSUME scope # 0 PROVE depth[scope] # 0
    <3>1. scope \in 1 .. Len(nodes)
      BY <1>3, <2>2
    <3>2. depth[scope] = depth[nodes[scope].parent] + 1 /\ depth[nodes[scope].parent] \in Nat
      BY <1>3, <1>5, <3>1 DEF Depths
    <3> QED BY <3>2
  <2> QED BY <2>1, <2>2
<1>9. Balance(data, m, len).opened > Balance(data, m, len).closed <=> scope # 0
  <2> DEFINE x == Count(m, "{", len)
             y == Count(m, "}", len)
  <2>1. x \in Nat /\ y \in Nat
    BY <1>3, CountIsNumber
  <2>2. x = y + depth[scope]
    BY <1>5 DEF Deep
  <2>3. Balance(data, m, len) = [opened |-> x, closed |-> y]
    BY BalanceCounts
  <2> HIDE DEF x, y
  <2>4. Balance(data, m, len).opened = x /\ Balance(data, m, len).closed = y
    BY <2>3
  <2>5. x > y <=> scope # 0
    BY <1>8, <2>1, <2>2
  <2> QED BY <2>4, <2>5, Zenon
<1>10. Unfinished(data) <=> open \/ scope # 0
  BY <1>5, <1>7, <1>9 DEF Unfinished, m, len
<1>11. status' = "checking" <=> WellFormed(data)
  BY <1>1, <1>6, <1>10 DEF WellFormed
<1> QED BY <1>1, <1>6, <1>11, EndSyntaxInv

\* Once a text is parsed, what was said of it is not changed.
LEMMA AfterParsing ==
  ASSUME TypedInv, SyntaxInv, status # "parsing", data' = data, status' # "parsing",
         \/ UNCHANGED <<status, checked, error>>
         \/ status' # "checking" /\ error'.reason # "syntax"
         \/ checked' # 0 /\ error'.reason # "syntax"
  PROVE  SyntaxInv'
BY DEF SyntaxInv, SyntaxChecked, Parsed

LEMMA SyntaxStep ==
  ASSUME TypedInv, SyntaxInv, [ConfigurationNext]_configurationVars
  PROVE  SyntaxInv'
<1>1. CASE Skip \/ ReadWord \/ ReadTerm \/ OpenBlock \/ CloseBlock \/ SyntaxError \/ EndOfData
  BY <1>1, SkipReads, ReadWordReads, ReadTermReads, OpenBlockReads, CloseBlockReads,
     SyntaxErrorReads, EndOfDataReads
<1>2. CASE CheckDirective
  <2>1. status = "checking" /\ data' = data /\ checked \in Nat /\ error.reason = "none"
    <3>1. status = "checking" /\ data' = data
      BY <1>2 DEF CheckDirective, lexVars
    <3> QED BY <3>1 DEF TypedInv, FileTypes, Steady, SchemaApplied
  <2>2. CASE checked' = checked + 1 /\ UNCHANGED <<status, error>>
    BY <2>1, <2>2, AfterParsing
  <2>3. CASE status' = "rejected" /\ error' = Complaint(checked + 1)
    <3>1. Complaint(checked + 1).reason # "syntax"
      BY DEF Complaint, NoError
    <3> QED BY <2>1, <2>3, <3>1, AfterParsing
  <2> QED BY <1>2, <2>2, <2>3 DEF CheckDirective
<1>3. CASE Conforming \/ Refuse \/ Configure
  <2>1. /\ status \in {"checking", "valid"} /\ status' \in {"valid", "rejected", "configured"} /\ data' = data
        /\ error' = error \/ error'.reason \in {"servers", "exit"}
    BY <1>3 DEF Conforming, Refuse, Configure, Reject, lexVars
  <2>2. error.reason # "syntax"
    BY <2>1 DEF TypedInv, Steady, SchemaApplied
  <2> QED BY <2>1, <2>2, AfterParsing
<1>4. CASE (status = "configured" /\ UNCHANGED fileVars) \/ UNCHANGED configurationVars
  <2>1. /\ doc' = doc /\ data' = data /\ offset' = offset /\ line' = line /\ col' = col
        /\ nodes' = nodes /\ scope' = scope /\ open' = open
        /\ checked' = checked /\ status' = status /\ error' = error
    BY <1>4 DEF configurationVars, fileVars, lexVars, treeVars
  <2>2. CASE status = "parsing"
    <3>1. PICK depth : Reading(Modes(data), depth)
      BY <2>2 DEF SyntaxInv, TextRead
    <3>2. offset' = offset /\ Between(Modes(data), offset) /\ Sound(Modes(data), offset)
          /\ (open' <=> Begun(data, Modes(data), offset + 1))
          /\ (open' => nodes'[Len(nodes')].parent = scope')
          /\ Depths(depth, nodes', Len(nodes')) /\ Deep(Modes(data), offset, depth[scope'])
      BY <2>1, <3>1 DEF Reading
    <3>3. status' = "parsing" /\ checked' = 0 /\ error'.reason # "syntax"
      BY <2>1, <2>2, ReadingFacts
    <3> QED BY <2>1, <3>2, <3>3, ReadingStep
  <2>3. CASE status # "parsing"
    BY <2>1, <2>3, AfterParsing
  <2> QED BY <2>2, <2>3
<1> QED BY <1>1, <1>2, <1>3, <1>4 DEF ConfigurationNext, FileNext

LEMMA SyntaxInit ==
  ASSUME ConfigurationInit
  PROVE  SyntaxInv
<1>1. /\ data \in Words /\ offset = 0 /\ nodes = << >> /\ scope = 0 /\ open = FALSE
      /\ status = "parsing" /\ error.reason # "syntax"
  <2>1. TypedInv
    BY ConfigurationInitSound
  <2> QED BY <2>1 DEF ConfigurationInit, FileInit, Root, NoError, TypedInv, FileTypes
<1> DEFINE m == Modes(data)
           depth == [n \in 0 .. 0 |-> 0]
<1>2. ModesOfData(m)
  BY <1>1, ModesAreOfData
<1> HIDE DEF m
<1>3. Between(m, 0)
  BY <1>2, ModeSteps DEF Between, Outdoors
<1>4. 1 .. 0 = {}
  OBVIOUS
<1>5. Sound(m, 0) /\ ~Begun(data, m, 0 + 1)
  BY <1>4 DEF Sound, Begun
<1>6. Count(m, "{", 0) = 0 /\ Count(m, "}", 0) = 0
  <2>1. \A c : {j \in 1 .. 0 : data[j] = c /\ Outside(m, j)} = {}
    BY <1>4
  <2> QED BY <2>1, FS_EmptySet DEF Count
<1>7. depth \in [0 .. 0 -> Nat] /\ depth[0] = 0
  OBVIOUS
<1> HIDE DEF depth
<1>8. Depths(depth, nodes, Len(nodes)) /\ Deep(m, 0, depth[scope])
  <2>1. Len(nodes) = 0
    BY <1>1
  <2>2. Depths(depth, nodes, 0)
    BY <1>4, <1>7 DEF Depths
  <2>3. depth[scope] = 0
    BY <1>1, <1>7
  <2>4. Deep(m, 0, 0)
    <3>1. 0 + 0 = 0
      OBVIOUS
    <3> QED BY <1>6, <3>1, Zenon DEF Deep
  <2> QED BY <2>1, <2>2, <2>3, <2>4
<1>9. Reading(m, depth)
  BY <1>1, <1>3, <1>5, <1>8 DEF Reading
<1>10. TextRead
  BY <1>9 DEF TextRead, m
<1>11. SyntaxChecked
  BY <1>1 DEF SyntaxChecked, Parsed
<1> QED BY <1>10, <1>11 DEF SyntaxInv

(***************************************************************************)
(* Whatever is quoted, escaped or commented out in it, a text is parsed if *)
(* and only if it is well-formed, and an error is reported at the first    *)
(* character that cannot come where it is.                                 *)
(***************************************************************************)
THEOREM SyntaxIsChecked == ConfigurationSpec => []SyntaxChecked
<1>1. ConfigurationInit => SyntaxInv
  BY SyntaxInit
<1>2. TypedInv /\ SyntaxInv /\ [ConfigurationNext]_configurationVars => SyntaxInv'
  BY SyntaxStep
<1>3. SyntaxInv => SyntaxChecked
  BY DEF SyntaxInv
<1> QED BY <1>1, <1>2, <1>3, AlwaysTyped, PTL DEF ConfigurationSpec

(***************************************************************************)
(* Finite sets of numbers, in their order.                                 *)
(***************************************************************************)

\* How the rank of a number grows.
LEMMA RankNext ==
  ASSUME NEW S, IsFiniteSet(S), S \subseteq Nat, NEW i \in Nat
  PROVE  /\ Rank(S, i) \in Nat
         /\ i + 1 \in S => Rank(S, i + 1) = Rank(S, i) + 1
         /\ i + 1 \notin S => Rank(S, i + 1) = Rank(S, i)
<1> DEFINE T == {j \in S : j <= i}
           U == {j \in S : j <= i + 1}
<1>1. IsFiniteSet(T)
  <2>1. T \subseteq S
    OBVIOUS
  <2> QED BY <2>1, FS_Subset
<1>2. Rank(S, i) = Cardinality(T) /\ Rank(S, i + 1) = Cardinality(U)
  BY DEF Rank
<1>3. i + 1 \notin T /\ \A j \in S : j <= i + 1 <=> j <= i \/ j = i + 1
  OBVIOUS
<1>4. CASE i + 1 \in S
  <2>1. U = T \cup {i + 1}
    BY <1>3, <1>4
  <2> HIDE DEF T, U
  <2>2. Cardinality(U) = Cardinality(T) + 1
    BY <1>1, <1>3, <2>1, FS_AddElement
  <2> QED BY <1>1, <1>2, <1>4, <2>2, FS_CardinalityType
<1>5. CASE i + 1 \notin S
  <2>1. U = T
    BY <1>3, <1>5
  <2> HIDE DEF T, U
  <2> QED BY <1>1, <1>2, <1>5, <2>1, FS_CardinalityType
<1> QED BY <1>4, <1>5

LEMMA RankBounds ==
  ASSUME NEW S, IsFiniteSet(S), S \subseteq Nat, NEW i \in Nat, NEW k \in Nat, i <= k
  PROVE  /\ Rank(S, i) \in Nat /\ Cardinality(S) \in Nat
         /\ Rank(S, i) <= Rank(S, k) /\ Rank(S, i) <= Cardinality(S)
         /\ (k \in S /\ i # k) => Rank(S, i) < Rank(S, k)
         /\ (\A j \in S : j <= i) => Rank(S, i) = Cardinality(S)
<1> DEFINE T == {j \in S : j <= i}
           U == {j \in S : j <= k}
<1>1. T \subseteq U /\ U \subseteq S /\ T \subseteq S
  <2>1. \A j \in S : j <= i => j <= k
    OBVIOUS
  <2> QED BY <2>1
<1>2. IsFiniteSet(T) /\ IsFiniteSet(U)
  BY <1>1, FS_Subset
<1>3. Rank(S, i) = Cardinality(T) /\ Rank(S, k) = Cardinality(U)
  BY DEF Rank
<1>4. (k \in S /\ i # k) => k \in U /\ k \notin T
  OBVIOUS
<1>5. (\A j \in S : j <= i) => T = S
  OBVIOUS
<1> HIDE DEF T, U
<1>6. Cardinality(T) \in Nat /\ Cardinality(U) \in Nat /\ Cardinality(S) \in Nat
  BY <1>2, FS_CardinalityType
<1>7. Cardinality(T) <= Cardinality(U) /\ Cardinality(T) <= Cardinality(S)
  BY <1>1, <1>2, FS_Subset
<1>8. T # U => Cardinality(T) < Cardinality(U)
  <2>1. T # U => Cardinality(U) # Cardinality(T)
    BY <1>1, <1>2, FS_Subset
  <2> QED BY <1>6, <1>7, <2>1
<1> QED BY <1>3, <1>4, <1>5, <1>6, <1>7, <1>8

LEMMA NumbersFinite ==
  ASSUME NEW len \in Nat, NEW S \in SUBSET (1 .. len)
  PROVE  IsFiniteSet(S) /\ Cardinality(S) \in Nat /\ S \subseteq Nat
<1>1. IsFiniteSet(1 .. len)
  BY FS_Interval
<1>2. IsFiniteSet(S)
  BY <1>1, FS_Subset
<1> QED BY <1>2, FS_CardinalityType

\* The numbers of a set have the ranks from one on, each its own.
LEMMA RanksGiven ==
  ASSUME NEW len \in Nat, NEW S \in SUBSET (1 .. len), NEW k \in 1 .. Cardinality(S)
  PROVE  \E i \in S : Rank(S, i) = k /\ \A j \in S : Rank(S, j) = k => j = i
<1>0. Cardinality(S) \in Nat /\ S \subseteq Nat /\ IsFiniteSet(S)
  BY NumbersFinite
<1> DEFINE R == {i \in Nat : Rank(S, i) >= k}
<1>1. R # {}
  <2>1. S # {}
    BY FS_EmptySet
  <2>2. PICK b \in S : \A j \in S : j <= b
    BY <2>1, NumberMax
  <2>3. b \in Nat /\ Rank(S, b) = Cardinality(S)
    BY <1>0, <2>2, RankBounds
  <2> QED BY <1>0, <2>3
<1>2. PICK i \in R : \A j \in R : i <= j
  <2>1. R \in SUBSET Nat
    OBVIOUS
  <2> HIDE DEF R
  <2> QED BY <1>1, <2>1, NumberMin
<1>3. i # 0
  <2>1. {j \in S : j <= 0} = {}
    <3>1. \A j \in S : ~(j <= 0)
      OBVIOUS
    <3> QED BY <3>1
  <2>2. Rank(S, 0) = 0
    BY <2>1, FS_EmptySet DEF Rank
  <2> QED BY <1>2, <2>2
<1>4. PICK h \in Nat : i = h + 1
  <2>1. i - 1 \in Nat /\ i = (i - 1) + 1
    BY <1>2, <1>3
  <2> QED BY <2>1
<1>5. Rank(S, h) < k /\ Rank(S, h) \in Nat
  <2>1. h \notin R
    BY <1>2, <1>4
  <2>2. Rank(S, h) \in Nat
    BY <1>0, <1>4, RankNext
  <2> QED BY <1>0, <1>4, <2>1, <2>2
<1>6. i \in S /\ Rank(S, i) = k
  <2>1. /\ h + 1 \in S => Rank(S, h + 1) = Rank(S, h) + 1
        /\ h + 1 \notin S => Rank(S, h + 1) = Rank(S, h)
    BY <1>0, <1>4, RankNext
  <2>2. Rank(S, h + 1) >= k
    BY <1>2, <1>4
  <2> QED BY <1>4, <1>5, <2>1, <2>2
<1>7. ASSUME NEW j \in S, Rank(S, j) = k PROVE j = i
  <2>1. j \in Nat /\ i \in Nat
    BY <1>0, <1>6
  <2>2. ASSUME NEW a \in S, NEW b \in S, a < b PROVE Rank(S, a) # Rank(S, b)
    <3>1. a \in Nat /\ b \in Nat /\ a <= b /\ a # b
      BY <1>0, <2>2
    <3>2. Rank(S, a) \in Nat /\ Rank(S, a) < Rank(S, b)
      BY <1>0, <3>1, RankBounds
    <3>3. b <= b
      BY <3>1
    <3>4. Rank(S, b) \in Nat
      BY <1>0, <3>1, <3>3, RankBounds
    <3> QED BY <3>2, <3>4
  <2>3. j < i \/ i < j \/ j = i
    BY <2>1
  <2> QED BY <1>6, <1>7, <2>2, <2>3
<1> QED BY <1>6, <1>7

\* A sequence of its numbers by their ranks is the set in ascending order.
LEMMA AscendingIs ==
  ASSUME NEW len \in Nat, NEW S \in SUBSET (1 .. len), NEW e, DOMAIN e = 1 .. Cardinality(S),
         e = [k \in DOMAIN e |-> e[k]],
         \A k \in 1 .. Cardinality(S) : e[k] \in S /\ Rank(S, e[k]) = k
  PROVE  Ascending(S) = e
<1>1. \A k \in 1 .. Cardinality(S) : (CHOOSE i \in S : Rank(S, i) = k) = e[k]
  BY RanksGiven
<1> QED BY <1>1 DEF Ascending

LEMMA AscendingGives ==
  ASSUME NEW len \in Nat, NEW S \in SUBSET (1 .. len)
  PROVE  /\ Ascending(S) \in [1 .. Cardinality(S) -> S] /\ Ascending(S) \in Seq(S)
         /\ Len(Ascending(S)) = Cardinality(S) /\ Cardinality(S) \in Nat
         /\ \A k \in 1 .. Cardinality(S) : Ascending(S)[k] \in S /\ Rank(S, Ascending(S)[k]) = k
         /\ \A i \in S : Rank(S, i) \in 1 .. Cardinality(S) /\ Ascending(S)[Rank(S, i)] = i
<1>0. Cardinality(S) \in Nat /\ S \subseteq Nat /\ IsFiniteSet(S)
  BY NumbersFinite
<1>1. \A k \in 1 .. Cardinality(S) : Ascending(S)[k] \in S /\ Rank(S, Ascending(S)[k]) = k
  <2> TAKE k \in 1 .. Cardinality(S)
  <2>1. \E i \in S : Rank(S, i) = k
    BY RanksGiven
  <2>2. Ascending(S)[k] = CHOOSE i \in S : Rank(S, i) = k
    BY DEF Ascending
  <2> QED BY <2>1, <2>2
<1>2. Ascending(S) \in [1 .. Cardinality(S) -> S]
  BY <1>1 DEF Ascending
<1>3. ASSUME NEW i \in S PROVE Rank(S, i) \in 1 .. Cardinality(S) /\ Ascending(S)[Rank(S, i)] = i
  <2>1. i \in Nat /\ i # 0 /\ i - 1 \in Nat /\ i = (i - 1) + 1
    BY <1>0
  <2>2. Rank(S, i) \in Nat /\ Rank(S, i) <= Cardinality(S)
    <3>1. i <= i
      BY <2>1
    <3> QED BY <1>0, <2>1, <3>1, RankBounds
  <2>3. Rank(S, i) # 0
    <3>1. Rank(S, i - 1) \in Nat /\ Rank(S, i - 1 + 1) = Rank(S, i - 1) + 1
      BY <1>0, <2>1, RankNext
    <3> QED BY <2>1, <3>1
  <2>4. Rank(S, i) \in 1 .. Cardinality(S)
    BY <1>0, <2>2, <2>3
  <2>5. \E x \in S : Rank(S, x) = Rank(S, i) /\ \A j \in S : Rank(S, j) = Rank(S, i) => j = x
    BY <2>4, RanksGiven
  <2> QED BY <1>1, <2>4, <2>5
<1>4. Ascending(S) \in Seq(S)
  BY <1>0, <1>2
<1> QED BY <1>0, <1>1, <1>2, <1>3, <1>4

\* A greater number has the last rank.
LEMMA RankLast ==
  ASSUME NEW len \in Nat, NEW S \in SUBSET (1 .. len), NEW x \in Nat, \A j \in S : j < x
  PROVE  /\ Cardinality(S \cup {x}) = Cardinality(S) + 1
         /\ \A i \in Nat : i < x => Rank(S \cup {x}, i) = Rank(S, i)
         /\ \A i \in Nat : x <= i => Rank(S \cup {x}, i) = Cardinality(S) + 1 /\ Rank(S, i) = Cardinality(S)
<1>0. IsFiniteSet(S) /\ S \subseteq Nat
  BY NumbersFinite
<1>1. x \notin S /\ IsFiniteSet(S)
  <2>1. ~(x < x)
    OBVIOUS
  <2> QED BY <1>0, <2>1
<1>2. Cardinality(S \cup {x}) = Cardinality(S) + 1
  BY <1>1, FS_AddElement
<1>3. ASSUME NEW i \in Nat, i < x PROVE Rank(S \cup {x}, i) = Rank(S, i)
  <2>1. ~(x <= i)
    BY <1>3
  <2>2. {j \in S \cup {x} : j <= i} = {j \in S : j <= i}
    BY <2>1
  <2> QED BY <2>2 DEF Rank
<1>4. ASSUME NEW i \in Nat, x <= i
      PROVE  Rank(S \cup {x}, i) = Cardinality(S) + 1 /\ Rank(S, i) = Cardinality(S)
  <2>1. \A j \in S : j <= i
    <3> TAKE j \in S
    <3>1. j \in Nat /\ j < x
      BY <1>0
    <3> QED BY <1>4, <3>1
  <2>2. {j \in S \cup {x} : j <= i} = S \cup {x} /\ {j \in S : j <= i} = S
    BY <1>4, <2>1
  <2> QED BY <1>2, <2>2 DEF Rank
<1> QED BY <1>2, <1>3, <1>4

LEMMA AscendingAppend ==
  ASSUME NEW len \in Nat, NEW S \in SUBSET (1 .. len), NEW x \in 1 .. len, \A j \in S : j < x
  PROVE  Ascending(S \cup {x}) = Append(Ascending(S), x)
<1> DEFINE n == Cardinality(S)
           T == S \cup {x}
           e == Append(Ascending(S), x)
<1>1. n \in Nat /\ S \subseteq Nat /\ x \in Nat
  BY NumbersFinite
<1>2. /\ Cardinality(T) = n + 1
      /\ \A i \in Nat : i < x => Rank(T, i) = Rank(S, i)
      /\ Rank(T, x) = n + 1
  <2>1. x <= x
    OBVIOUS
  <2> QED BY <1>1, <2>1, RankLast
<1>3. /\ Ascending(S) \in Seq(Nat) /\ Len(Ascending(S)) = n
      /\ \A k \in 1 .. n : Ascending(S)[k] \in S /\ Rank(S, Ascending(S)[k]) = k
  <2>1. /\ Ascending(S) \in Seq(S) /\ Len(Ascending(S)) = n
        /\ \A k \in 1 .. n : Ascending(S)[k] \in S /\ Rank(S, Ascending(S)[k]) = k
    BY AscendingGives
  <2>2. \A q \in Seq(S) : q \in Seq(Nat)
    <3> TAKE q \in Seq(S)
    <3>1. q \in [1 .. Len(q) -> S] /\ Len(q) \in Nat
      OBVIOUS
    <3>2. q \in [1 .. Len(q) -> Nat]
      BY <1>1, <3>1
    <3> QED BY <3>1, <3>2
  <2> HIDE DEF n
  <2> QED BY <2>1, <2>2
<1> HIDE DEF n
<1>4. /\ e \in Seq(Nat) /\ Len(e) = n + 1 /\ DOMAIN e = 1 .. n + 1 /\ e[n + 1] = x
      /\ \A k \in 1 .. n : e[k] = Ascending(S)[k]
  BY <1>1, <1>3
<1> HIDE DEF e
<1>5. ASSUME NEW k \in 1 .. n + 1 PROVE e[k] \in T /\ Rank(T, e[k]) = k
  <2>1. CASE k = n + 1
    BY <2>1, <1>2, <1>4
  <2>2. CASE k # n + 1
    <3>1. k \in 1 .. n
      BY <1>1, <2>2
    <3>2. e[k] \in S /\ Rank(S, e[k]) = k
      BY <1>3, <1>4, <3>1
    <3>3. e[k] \in Nat /\ e[k] < x
      BY <1>1, <3>2
    <3> QED BY <1>2, <3>2, <3>3
  <2> QED BY <2>1, <2>2
<1>6. T \in SUBSET (1 .. len)
  OBVIOUS
<1> HIDE DEF T
<1>7. e = [k \in DOMAIN e |-> e[k]]
  BY <1>4
<1>8. Ascending(T) = e
  BY <1>2, <1>4, <1>5, <1>6, <1>7, AscendingIs
<1> QED BY <1>8 DEF T, e

\* A smaller one is first.
LEMMA AscendingPrepend ==
  ASSUME NEW len \in Nat, NEW S \in SUBSET (1 .. len), NEW x \in 1 .. len, \A j \in S : x < j
  PROVE  /\ Cardinality(S \cup {x}) = Cardinality(S) + 1
         /\ Ascending(S \cup {x}) = <<x>> \o Ascending(S)
<1> DEFINE n == Cardinality(S)
           T == S \cup {x}
           e == <<x>> \o Ascending(S)
<1>0. n \in Nat /\ S \subseteq Nat /\ IsFiniteSet(S)
  BY NumbersFinite
<1>1. n \in Nat /\ S \subseteq Nat /\ x \in Nat /\ IsFiniteSet(S) /\ x \notin S
  <2>1. x \in Nat /\ ~(x < x)
    OBVIOUS
  <2> HIDE DEF n
  <2> QED BY <1>0, <2>1
<1>2. Cardinality(T) = n + 1
  BY <1>1, FS_AddElement
<1>3. /\ Ascending(S) \in Seq(Nat) /\ Len(Ascending(S)) = n
      /\ \A k \in 1 .. n : Ascending(S)[k] \in S /\ Rank(S, Ascending(S)[k]) = k
  <2>1. /\ Ascending(S) \in Seq(S) /\ Len(Ascending(S)) = n
        /\ \A k \in 1 .. n : Ascending(S)[k] \in S /\ Rank(S, Ascending(S)[k]) = k
    BY AscendingGives
  <2>2. \A q \in Seq(S) : q \in Seq(Nat)
    <3> TAKE q \in Seq(S)
    <3>1. q \in [1 .. Len(q) -> S] /\ Len(q) \in Nat
      OBVIOUS
    <3>2. q \in [1 .. Len(q) -> Nat]
      BY <1>1, <3>1
    <3> QED BY <3>1, <3>2
  <2> HIDE DEF n
  <2> QED BY <2>1, <2>2
<1>4. ASSUME NEW i \in S PROVE Rank(T, i) = Rank(S, i) + 1
  <2> DEFINE U == {j \in S : j <= i}
  <2>1. {j \in T : j <= i} = U \cup {x} /\ x \notin U /\ U \subseteq S
    BY <1>1
  <2>2. IsFiniteSet(U)
    BY <1>1, <2>1, FS_Subset
  <2> HIDE DEF U
  <2>3. Cardinality(U \cup {x}) = Cardinality(U) + 1
    BY <2>1, <2>2, FS_AddElement
  <2> QED BY <2>1, <2>3 DEF Rank, U
<1>5. Rank(T, x) = 1
  <2>1. \A j \in S : ~(j <= x)
    <3> TAKE j \in S
    <3>1. j \in Nat /\ x < j
      BY <1>1
    <3> QED BY <1>1, <3>1
  <2>2. x <= x
    BY <1>1
  <2>3. {j \in T : j <= x} = {x}
    BY <2>1, <2>2
  <2> QED BY <2>3, FS_Singleton DEF Rank
<1> HIDE DEF n
<1>6. /\ e \in Seq(Nat) /\ Len(e) = n + 1 /\ DOMAIN e = 1 .. n + 1 /\ e[1] = x
      /\ \A k \in 2 .. n + 1 : e[k] = Ascending(S)[k - 1]
  BY <1>1, <1>3
<1> HIDE DEF e
<1>7. ASSUME NEW k \in 1 .. n + 1 PROVE e[k] \in T /\ Rank(T, e[k]) = k
  <2>1. CASE k = 1
    BY <2>1, <1>5, <1>6
  <2>2. CASE k # 1
    <3>1. k \in 2 .. n + 1 /\ k - 1 \in 1 .. n /\ (k - 1) + 1 = k
      BY <1>1, <2>2
    <3>2. e[k] \in S /\ Rank(S, e[k]) = k - 1
      BY <1>3, <1>6, <3>1
    <3>3. Rank(T, e[k]) = k
      BY <1>4, <3>1, <3>2
    <3> QED BY <3>2, <3>3
  <2> QED BY <2>1, <2>2
<1>8. T \in SUBSET (1 .. len)
  OBVIOUS
<1> HIDE DEF T
<1>9. e = [k \in DOMAIN e |-> e[k]]
  BY <1>6
<1>10. Ascending(T) = e
  BY <1>2, <1>6, <1>7, <1>8, <1>9, AscendingIs
<1> QED BY <1>2, <1>10 DEF T, e, n

LEMMA AscendingInterval ==
  ASSUME NEW a \in Nat, NEW b \in Nat, 1 <= a, a <= b + 1
  PROVE  Ascending(a .. b) = [k \in 1 .. b - a + 1 |-> a + k - 1]
<1> DEFINE S == a .. b
           e == [k \in 1 .. b - a + 1 |-> a + k - 1]
<1>1. S \in SUBSET (1 .. b)
  OBVIOUS
<1>2. Cardinality(S) = b - a + 1
  <2>1. Cardinality(S) = IF a > b THEN 0 ELSE b - a + 1
    BY FS_Interval
  <2>2. a > b => b - a + 1 = 0
    OBVIOUS
  <2> HIDE DEF S
  <2> QED BY <2>1, <2>2
<1>3. ASSUME NEW k \in 1 .. b - a + 1 PROVE a + k - 1 \in S /\ Rank(S, a + k - 1) = k
  <2>1. {j \in S : j <= a + k - 1} = a .. a + k - 1
    <3>1. \A j : j \in S /\ j <= a + k - 1 <=> j \in a .. a + k - 1
      OBVIOUS
    <3> QED BY <3>1
  <2>2. Cardinality(a .. a + k - 1) = k
    <3>1. a + k - 1 \in Int /\ ~(a > a + k - 1) /\ a + k - 1 - a + 1 = k
      OBVIOUS
    <3>2. \A c \in Int : Cardinality(a .. c) = IF a > c THEN 0 ELSE c - a + 1
      BY FS_Interval
    <3> QED BY <3>1, <3>2
  <2>3. a + k - 1 \in S
    OBVIOUS
  <2> HIDE DEF S
  <2> QED BY <2>1, <2>2, <2>3 DEF Rank
<1>4. DOMAIN e = 1 .. Cardinality(S) /\ e = [k \in DOMAIN e |-> e[k]]
  BY <1>2
<1>5. \A k \in 1 .. Cardinality(S) : e[k] \in S /\ Rank(S, e[k]) = k
  BY <1>2, <1>3
<1> HIDE DEF S, e
<1>6. Ascending(S) = e
  BY <1>1, <1>4, <1>5, AscendingIs
<1> QED BY <1>6 DEF S, e

(***************************************************************************)
(* Words, and the characters that spell them                               *)
(***************************************************************************)
SpelledBy(S) == [k \in DOMAIN Ascending(S) |-> data[Ascending(S)[k]]]

LEMMA SpelledWords ==
  ASSUME data \in Words, NEW S \in SUBSET (1 .. Len(data))
  PROVE  /\ SpelledBy(S) \in Words /\ Len(SpelledBy(S)) = Cardinality(S)
         /\ DOMAIN SpelledBy(S) = 1 .. Cardinality(S)
         /\ Cardinality(S) \in Nat
         /\ \A k \in 1 .. Cardinality(S) : SpelledBy(S)[k] = data[Ascending(S)[k]]
<1> DEFINE n == Cardinality(S)
<1>1. Len(data) \in Nat /\ \A i \in 1 .. Len(data) : data[i] \in STRING
  BY DEF Words
<1>2. n \in Nat /\ Ascending(S) \in [1 .. n -> S]
  BY <1>1, AscendingGives
<1> HIDE DEF n
<1>3. SpelledBy(S) \in [1 .. n -> STRING]
  BY <1>1, <1>2 DEF SpelledBy
<1>4. SpelledBy(S) \in Seq(STRING) /\ Len(SpelledBy(S)) = n
  BY <1>2, <1>3
<1> QED BY <1>2, <1>3, <1>4 DEF n, Words, SpelledBy

LEMMA SpelledPrepend ==
  ASSUME data \in Words, NEW S \in SUBSET (1 .. Len(data)), NEW x \in 1 .. Len(data), \A j \in S : x < j
  PROVE  SpelledBy(S \cup {x}) = <<data[x]>> \o SpelledBy(S)
<1> DEFINE n == Cardinality(S)
           T == S \cup {x}
           w == <<data[x]>> \o SpelledBy(S)
<1>1. Len(data) \in Nat /\ data[x] \in STRING
  BY DEF Words
<1>2. Cardinality(T) = n + 1 /\ Ascending(T) = <<x>> \o Ascending(S)
  BY <1>1, AscendingPrepend
<1>3. n \in Nat /\ Ascending(S) \in Seq(S) /\ Len(Ascending(S)) = n
  BY <1>1, AscendingGives
<1>4. /\ SpelledBy(S) \in Seq(STRING) /\ Len(SpelledBy(S)) = n
      /\ \A k \in 1 .. n : SpelledBy(S)[k] = data[Ascending(S)[k]]
  BY SpelledWords DEF Words
<1>5. T \in SUBSET (1 .. Len(data))
  OBVIOUS
<1>6. /\ SpelledBy(T) \in Seq(STRING) /\ Len(SpelledBy(T)) = Cardinality(T)
      /\ \A k \in 1 .. Cardinality(T) : SpelledBy(T)[k] = data[Ascending(T)[k]]
  BY <1>5, SpelledWords DEF Words
<1> HIDE DEF n, T
<1>7. w \in Seq(STRING) /\ Len(w) = n + 1
  BY <1>1, <1>3, <1>4
<1>8. ASSUME NEW k \in 1 .. n + 1 PROVE w[k] = SpelledBy(T)[k]
  <2>1. CASE k = 1
    <3>1. w[k] = data[x] /\ (<<x>> \o Ascending(S))[k] = x
      BY <2>1, <1>1, <1>3, <1>4
    <3> QED BY <3>1, <1>2, <1>6
  <2>2. CASE k # 1
    <3>1. k - 1 \in 1 .. n
      BY <1>3, <2>2
    <3>2. w[k] = SpelledBy(S)[k - 1] /\ (<<x>> \o Ascending(S))[k] = Ascending(S)[k - 1]
      BY <2>2, <3>1, <1>1, <1>3, <1>4
    <3> QED BY <3>1, <3>2, <1>2, <1>4, <1>6
  <2> QED BY <2>1, <2>2
<1> HIDE DEF w
<1>9. w = SpelledBy(T)
  BY <1>2, <1>6, <1>7, <1>8
<1> QED BY <1>9 DEF w, T

\* The letters of a quotation, from one of its characters on.
QuotedLetters(m, quot, i) ==
  {k \in i .. Len(data) : m[k] = quot /\ \A j \in i .. k : m[j] \in Within(quot)}

LEMMA LettersAhead ==
  ASSUME NEW m, NEW quot, Len(data) \in Nat, NEW i \in 1 .. Len(data)
  PROVE  /\ m[i] \notin Within(quot) => QuotedLetters(m, quot, i) = {}
         /\ m[i] = quot => QuotedLetters(m, quot, i) = QuotedLetters(m, quot, i + 1) \cup {i}
         /\ m[i] \in Within(quot) \ {quot} =>
              QuotedLetters(m, quot, i) = QuotedLetters(m, quot, i + 1)
<1> DEFINE ahead(a) == QuotedLetters(m, quot, a)
<1>1. ASSUME NEW k, k \in ahead(i) PROVE m[i] \in Within(quot)
  BY <1>1 DEF QuotedLetters
<1>2. ASSUME m[i] \in Within(quot), NEW k \in i + 1 .. Len(data)
      PROVE  k \in ahead(i) <=> k \in ahead(i + 1)
  <2>1. \A j : j \in i .. k <=> j = i \/ j \in i + 1 .. k
    OBVIOUS
  <2>2. k \in i .. Len(data)
    OBVIOUS
  <2> QED BY <1>2, <2>1, <2>2 DEF QuotedLetters
<1>3. ahead(i) \subseteq i .. Len(data) /\ ahead(i + 1) \subseteq i + 1 .. Len(data)
  BY DEF QuotedLetters
<1>4. \A k : k \in i .. Len(data) <=> k = i \/ k \in i + 1 .. Len(data)
  OBVIOUS
<1>5. i \in ahead(i) <=> m[i] = quot /\ m[i] \in Within(quot)
  <2>1. \A j : j \in i .. i <=> j = i
    OBVIOUS
  <2>2. i \in i .. Len(data)
    OBVIOUS
  <2> QED BY <2>1, <2>2 DEF QuotedLetters
<1>6. i \notin ahead(i + 1)
  BY <1>3
<1>7. quot \in Within(quot)
  BY DEF Within
<1> QED BY <1>1, <1>2, <1>3, <1>4, <1>5, <1>6, <1>7, Zenon

\* The recursion of Quoted collects these letters.
LEMMA ReadingSpells ==
  ASSUME NEW m, ModesOfData(m), NEW quot \in Quote, NEW from \in 2 .. Len(data) + 1,
         m[from - 1] = quot, NEW f, Reads(f, quot, from), f[from] # LexicalError
  PROVE  f[from].content = SpelledBy(QuotedLetters(m, quot, from))
<1> DEFINE end == Len(data) + 1
           Good(i) == m[i - 1] = quot /\ f[i] # LexicalError =>
                        f[i].content = SpelledBy(QuotedLetters(m, quot, i))
           Bad == {k \in Nat : k <= end - from /\ ~Good(end - k)}
<1>0. Len(data) \in Nat /\ from \in 1 .. end /\ data \in Words
  BY ModeSteps DEF ModesOfData
<1>1. \A i \in from .. end : f[i] = LexicalError \/ f[i] \in QuotedFrom(i)
  BY <1>0, ReadingFinds
<1>3. ASSUME Bad # {} PROVE FALSE
  <2>1. PICK k \in Bad : \A j \in Bad : k <= j
    BY <1>3, NumberMin
  <2> DEFINE i == end - k
  <2>0. k \in Nat /\ k <= end - from /\ ~Good(i)
    <3> HIDE DEF Good
    <3> QED BY <2>1
  <2>2. k \in Nat /\ i \in from .. end /\ i \in Nat /\ end \in Nat /\ k <= end - from
    <3> HIDE DEF Good
    <3> QED BY <2>0, <1>0
  <2>3. f[i] = ReadOn(i, quot, f)
    BY <2>2 DEF Reads
  <2>4. ASSUME NEW j \in i + 1 .. end PROVE Good(j) /\ j \in from .. end
    <3>1. end - j \in Nat /\ end - j <= end - from /\ ~(k <= end - j) /\ end - (end - j) = j
      BY <2>2, <1>0
    <3>2. end - j \notin Bad
      BY <2>1, <3>1
    <3> QED BY <3>1, <3>2, <2>2, <1>0
  <2>5. m[i - 1] = quot /\ f[i] # LexicalError
        /\ f[i].content # SpelledBy(QuotedLetters(m, quot, i))
    BY <2>0
  <2> HIDE DEF Good, Bad, i
  <2>6. i \in 1 .. Len(data)
    <3>1. ~(i > Len(data))
      BY <2>3, <2>5 DEF ReadOn
    <3> QED BY <3>1, <2>2, <1>0
  <2>7. m[i] = After(quot, data[i])
    BY <2>5, <2>6, ModeSteps
  <2>8. \A j : QuotedLetters(m, quot, j) \subseteq j .. Len(data)
    BY DEF QuotedLetters
  \* What a letter is followed by
  <2>9. ASSUME NEW x \in 1 .. Len(data), NEW j, j = x + 1, j \in i + 1 .. end, m[x] = quot,
               f[i] = Kept(data[x], f[j]), QuotedLetters(m, quot, i) = QuotedLetters(m, quot, x)
        PROVE  FALSE
    <3> DEFINE S == QuotedLetters(m, quot, j)
    <3>1. f[j] # LexicalError
      BY <2>5, <2>9 DEF Kept
    <3>2. m[j - 1] = quot
      BY <2>9
    <3>3. f[j].content = SpelledBy(S)
      BY <2>4, <2>9, <3>1, <3>2 DEF Good
    <3>4. f[i].content = <<data[x]>> \o f[j].content
      <4>1. f[j] \in [type : {"WORD"}, next : j + 1 .. end, content : Words]
        BY <1>1, <2>4, <2>9, <3>1 DEF QuotedFrom
      <4>2. f[i] = [f[j] EXCEPT !.content = <<data[x]>> \o f[j].content]
        BY <2>9, <3>1 DEF Kept
      <4> QED BY <4>1, <4>2
    <3>5. QuotedLetters(m, quot, x) = S \cup {x}
      BY <1>0, <2>9, LettersAhead
    <3>6. S \subseteq j .. Len(data)
      BY <2>8
    <3> HIDE DEF S
    <3>7. S \in SUBSET (1 .. Len(data)) /\ \A y \in S : x < y
      BY <2>9, <3>6, <1>0
    <3>8. SpelledBy(S \cup {x}) = <<data[x]>> \o SpelledBy(S)
      BY <1>0, <3>7, SpelledPrepend
    <3> QED BY <2>5, <2>9, <3>3, <3>4, <3>5, <3>8
  <2>10. CASE data[i] = quot
    <3>1. f[i] = Token("WORD", i + 1, << >>)
      <4>1. quot # "\\"
        BY DEF Quote
      <4> QED BY <4>1, <2>3, <2>6, <2>10 DEF ReadOn
    <3>2. m[i] \notin Within(quot)
      <4>1. m[i] = "plain"
        BY <2>7, <2>10, AfterWithin
      <4> QED BY <4>1, AfterWithin DEF Within, Outdoors
    <3>3. QuotedLetters(m, quot, i) = {}
      BY <1>0, <2>6, <3>2, LettersAhead
    <3>4. SpelledBy({}) = << >>
      <4>1. {} \in SUBSET (1 .. Len(data)) /\ Cardinality({}) = 0
        BY FS_EmptySet
      <4>2. SpelledBy({}) \in Seq(STRING) /\ Len(SpelledBy({})) = 0
        BY <1>0, <4>1, SpelledWords DEF Words
      <4> QED BY <4>2
    <3> QED BY <2>5, <3>1, <3>3, <3>4 DEF Token
  <2>11. CASE data[i] # quot /\ data[i] = "\\"
    <3>1. i # Len(data) /\ f[i] = Kept(data[i + 1], f[i + 2])
      <4>1. i # Len(data)
        BY <2>3, <2>5, <2>11 DEF ReadOn
      <4> QED BY <4>1, <2>3, <2>6, <2>11 DEF ReadOn
    <3> DEFINE x == i + 1
               j == i + 2
    <3>2. x \in 1 .. Len(data) /\ j = x + 1 /\ j \in i + 1 .. end /\ x - 1 = i
      BY <3>1, <2>6, <1>0
    <3>3. m[i] = Escaped(quot)
      BY <2>7, <2>11, AfterWithin
    <3>4. m[x] = quot
      <4> HIDE DEF x
      <4>1. m[x] = After(m[i], data[x])
        BY <3>2, ModeSteps
      <4> QED BY <4>1, <3>3, AfterWithin
    <3>5. Escaped(quot) \in Within(quot) \ {quot}
      BY DEF Within, Escaped, Quote
    <3>6. QuotedLetters(m, quot, i) = QuotedLetters(m, quot, x)
      BY <1>0, <2>6, <3>3, <3>5, LettersAhead
    <3>7. f[i] = Kept(data[x], f[j])
      BY <3>1
    <3> HIDE DEF x, j
    <3> QED BY <2>9, <3>2, <3>4, <3>6, <3>7
  <2>12. CASE data[i] # quot /\ data[i] # "\\"
    <3>1. f[i] = Kept(data[i], f[i + 1])
      BY <2>3, <2>6, <2>12 DEF ReadOn
    <3>2. m[i] = quot
      BY <2>7, <2>12, AfterWithin
    <3> DEFINE j == i + 1
    <3>3. j = i + 1 /\ j \in i + 1 .. end /\ f[i] = Kept(data[i], f[j])
      BY <3>1, <2>6, <1>0
    <3> HIDE DEF j
    <3> QED BY <2>6, <2>9, <3>2, <3>3
  <2> QED BY <2>10, <2>11, <2>12
<1>4. Good(from)
  <2>1. end - from \in Nat /\ end - from <= end - from /\ end - (end - from) = from
    BY <1>0
  <2> QED BY <1>3, <2>1
<1> QED BY <1>4

\* A word is outdoors where it is not quoted.
LEMMA WordsOutdoors ==
  ASSUME NEW m, ModesOfData(m), NEW k \in 1 .. Len(data), m[k] = "word"
  PROVE  Outside(m, k) /\ WordAt(m, k)
<1>1. m[k] = After(m[k - 1], data[k])
  BY ModeSteps
<1>2. Outside(m, k)
  <2> DEFINE Y == Outdoors \cup {"comment", Escaped("'"), Escaped("\"")} \cup Quote
  <2>0. m[k - 1] \in Y
    <3>1. \A c : AfterPlain(c) \in Y
      BY DEF AfterPlain, Outdoors
    <3>2. \A y \in Y : \A c : After(y, c) \in Y
      BY <3>1 DEF After, Outdoors, Escaped, Quote
    <3>3. m[0] \in Y /\ 0 \in 0 .. Len(data) /\ Len(data) \in Nat /\ k - 1 \in 0 .. Len(data)
      <4>1. m[0] = "plain" /\ Len(data) \in Nat
        BY ModeSteps
      <4> QED BY <4>1 DEF Outdoors
    <3> HIDE DEF Y
    <3>4. \A j \in 0 .. Len(data) : m[j] \in Y
      <4>1. Len(data) \in 0 .. Len(data)
        BY <3>3
      <4> QED BY <3>2, <3>3, <4>1, ModesKept
    <3> QED BY <3>3, <3>4
  <2>1. m[k - 1] # "comment" /\ m[k - 1] \notin Quote
        /\ m[k - 1] # Escaped("'") /\ m[k - 1] # Escaped("\"")
    BY <1>1 DEF After, Quote, Escaped
  <2>2. After(m[k - 1], data[k]) = AfterPlain(data[k])
    BY <2>1 DEF After
  <2> QED BY <2>0, <2>1 DEF Outside, Outdoors
<1> QED BY <1>2 DEF WordAt

\* A word that is not quoted, from its first character to the next special one.
LEMMA PlainWord ==
  ASSUME NEW m, ModesOfData(m), NEW start \in 1 .. Len(data), Outside(m, start),
         data[start] \notin Special \cup Structure
  PROVE  LET next == FirstIn(start, Special)
         IN  /\ next \in start + 1 .. Len(data) + 1
             /\ SubSeq(data, start, next - 1) = Spelled(data, m, start)
             /\ \A k \in start .. next - 1 : m[k] = "word"
             /\ next <= Len(data) => m[next] # "word"
<1> DEFINE next == FirstIn(start, Special)
<1>0. Len(data) \in Nat /\ data \in Words /\ start \in 1 .. Len(data) + 1
  BY ModeSteps DEF ModesOfData
<1>1. /\ next \in start .. Len(data) + 1
      /\ next <= Len(data) => data[next] \in Special
      /\ \A j \in start .. next - 1 : data[j] \notin Special
  BY <1>0, FirstCharacter
<1> HIDE DEF next
<1>2. \A y \in Outdoors : \A c : c \notin Special \cup Structure => After(y, c) = "word"
  BY AfterOutdoors DEF AfterPlain, Special, Structure, Quote, Quotes, Space, Blank, CR, EOL, Control
<1>3. \A c \in Special : After("word", c) # "word"
  <2>1. "word" \in Outdoors
    BY DEF Outdoors
  <2> QED BY <2>1, AfterOutdoors DEF AfterPlain, Special, Structure, Quote, Quotes, Space, Blank, CR, EOL, Control
<1>4. next # start
  BY <1>0, <1>1
<1>5. next \in start + 1 .. Len(data) + 1
  BY <1>0, <1>1, <1>4
<1>6. m[start] = "word"
  <2>1. m[start] = After(m[start - 1], data[start]) /\ m[start - 1] \in Outdoors
    BY ModeSteps DEF Outside, Outdoors
  <2> QED BY <1>2, <2>1
<1>7. \A k \in start .. next - 1 : m[k] = "word"
  <2>1. \A k \in start + 1 .. next - 1 : \A y \in {"word"} : After(y, data[k]) \in {"word"}
    <3> TAKE k \in start + 1 .. next - 1
    <3>1. data[k] \notin Special
      BY <1>1, <1>0
    <3>2. Structure \subseteq Special
      BY DEF Structure, Special
    <3> QED BY <1>2, <3>1, <3>2 DEF Outdoors
  <2>2. start \in 0 .. Len(data) /\ next - 1 \in 0 .. Len(data)
    BY <1>0, <1>5
  <2>3. \A k \in start .. next - 1 : m[k] \in {"word"}
    BY <1>6, <2>1, <2>2, ModesKept
  <2> QED BY <2>3
<1>8. next <= Len(data) => m[next] # "word"
  <2> HAVE next <= Len(data)
  <2>1. next \in 1 .. Len(data) /\ next - 1 \in start .. next - 1
    BY <1>0, <1>5
  <2>2. m[next] = After(m[next - 1], data[next])
    BY <2>1, ModeSteps
  <2> QED BY <1>1, <1>3, <1>7, <2>1, <2>2
<1>9. Letters(data, m, start) = start .. next - 1
  <2>1. "word" \notin Quote
    BY DEF Quote
  <2>2. ASSUME NEW k \in start .. next - 1 PROVE k \in Letters(data, m, start)
    <3>1. k \in start .. Len(data) /\ \A j \in start .. k : j \in start .. next - 1
      BY <1>0, <1>5
    <3>2. m[k] = "word" /\ \A j \in start .. k : m[j] = "word"
      BY <1>7, <3>1
    <3> QED BY <1>6, <2>1, <3>1, <3>2 DEF Letters
  <2>3. ASSUME NEW k \in start .. Len(data), k \notin start .. next - 1 PROVE k \notin Letters(data, m, start)
    <3>1. next \in start .. k /\ next <= Len(data) /\ next - 1 \in start .. next - 1
      BY <1>0, <1>5, <2>3
    <3>2. m[next] = After("word", data[next])
      <4>1. next \in 1 .. Len(data)
        BY <3>1, <1>0
      <4> QED BY <4>1, <3>1, <1>7, ModeSteps
    <3>3. m[next] # Escaped("word")
      <4>1. "word" \in Outdoors
        BY DEF Outdoors
      <4> QED BY <3>2, <4>1, AfterOutdoors DEF AfterPlain, Escaped, Quote
    <3> QED BY <1>6, <1>8, <3>1, <3>3 DEF Letters
  <2>4. Letters(data, m, start) \subseteq start .. Len(data)
    BY DEF Letters
  <2>5. start .. next - 1 \subseteq start .. Len(data)
    BY <1>0, <1>5
  <2> QED BY <2>2, <2>3, <2>4, <2>5
<1>10. SubSeq(data, start, next - 1) = Spelled(data, m, start)
  <2> DEFINE b == next - 1
             s == SubSeq(data, start, b)
             n == b - start + 1
  <2>1. b \in Nat /\ start \in Nat /\ 1 <= start /\ start <= b + 1 /\ n \in Nat /\ b <= Len(data)
    BY <1>0, <1>5
  <2>2. Ascending(start .. b) = [k \in 1 .. n |-> start + k - 1]
    BY <2>1, AscendingInterval
  <2>3. Spelled(data, m, start) = [k \in 1 .. n |-> data[start + k - 1]]
    <3>1. Spelled(data, m, start) = [k \in DOMAIN Ascending(start .. b) |-> data[Ascending(start .. b)[k]]]
      BY <1>9 DEF Spelled
    <3> HIDE DEF b, n
    <3> QED BY <2>2, <3>1
  <2>4. s = [k \in 1 .. n |-> data[start + k - 1]]
    BY <2>1
  <2> QED BY <2>3, <2>4
<1> QED BY <1>5, <1>7, <1>8, <1>10 DEF next

\* No word goes on with the next character.
WordOver(m, i) == ~(i < Len(data) /\ m[i] = "word" /\ m[i + 1] = "word")

LEMMA WordTokens ==
  ASSUME Len(data) \in Nat, offset \in Nat, offset + 1 \in 1 .. Len(data)
  PROVE  LET start == offset + 1
             first == data[start]
         IN  /\ first \in Quotes => NextToken = Quoted(start + 1, first)
             /\ first \notin Special \cup Structure =>
                  NextToken = Token("WORD", FirstIn(start, Special), SubSeq(data, start, FirstIn(start, Special) - 1))
<1> DEFINE start == offset + 1
           first == data[start]
           UpTo(type, next) == Token(type, next, SubSeq(data, start, next - 1))
<1>1. ~(start > Len(data))
  OBVIOUS
<1>2. NextToken = CASE first = ";" -> UpTo("TERM", start + 1)
             [] first = "{" -> UpTo("OPENBRACE", start + 1)
             [] first = "}" -> UpTo("CLOSEBRACE", start + 1)
             [] first = EOL -> UpTo("WS", start + 1)
             [] first \in Blank -> UpTo("WS", FirstNotIn(start, Blank))
             [] first = "#" -> UpTo("COMMENT", FirstIn(start, {EOL}))
             [] first \in Quotes -> Quoted(start + 1, first)
             [] first = Control -> LexicalError
             [] OTHER -> UpTo("WORD", FirstIn(start, Special))
  BY <1>1 DEF NextToken
<1> HIDE DEF first, start, UpTo
<1>3. first \in Quotes => NextToken = Quoted(start + 1, first)
  <2> HAVE first \in Quotes
  <2> QED BY <1>2 DEF EOL, Blank, CR, Quotes, Control
<1>4. first \notin Special \cup Structure => NextToken = UpTo("WORD", FirstIn(start, Special))
  <2> HAVE first \notin Special \cup Structure
  <2>1. first \notin {";", "{", "}", EOL, "#", Control} \cup Blank \cup Quotes
    BY DEF Special, Structure
  <2> QED BY <1>2, <2>1
<1> QED BY <1>3, <1>4 DEF first, start, UpTo

\* The word that is a token: how it is spelled, and that there is no other in it.
LEMMA WordToken ==
  ASSUME NEW m, ModesOfData(m), offset \in 0 .. Len(data), Between(m, offset), WordOver(m, offset),
         NextToken.type = "WORD"
  PROVE  LET last == NextToken.next - 1
         IN  /\ NextToken.content = Spelled(data, m, offset + 1)
             /\ offset + 1 \in WordStarts(data, m)
             /\ \A k \in offset + 2 .. last : k \notin WordStarts(data, m)
             /\ WordOver(m, last)
<1> DEFINE start == offset + 1
           first == data[start]
           last == NextToken.next - 1
<1>0. Len(data) \in Nat /\ offset \in Nat /\ data \in Words /\ DOMAIN data = 1 .. Len(data)
  BY ModeSteps DEF ModesOfData, Words
<1>1. TokenFits(m, NextToken)
  BY TokenModes
<1>2. /\ last \in start .. Len(data) /\ Between(m, last)
      /\ \A k \in start .. last : Quiet(m, k)
      /\ WordAt(m, start)
  BY <1>1 DEF TokenFits
<1>3. start \in 1 .. Len(data) /\ start - 1 = offset /\ offset < Len(data) /\ start + 1 \in 2 .. Len(data) + 1
  BY <1>0, <1>2
<1>4. Outside(m, start) /\ start \in WordStarts(data, m)
  BY <1>0, <1>2, <1>3 DEF WordStarts, WordAt, WordOver
<1>5. m[start] = AfterPlain(first)
  <2>1. m[start] = After(m[offset], first) /\ m[offset] \in Outdoors
    BY <1>3, <1>4, ModeSteps DEF Outside, Outdoors
  <2> QED BY <2>1, AfterOutdoors
<1>6. CASE first \in Quotes
  <2>1. NextToken = Quoted(start + 1, first)
    BY <1>0, <1>3, <1>6, WordTokens
  <2>2. first \in Quote /\ m[start] = first
    <3>1. Quotes = Quote
      BY DEF Quotes, Quote
    <3> HIDE DEF start
    <3> QED BY <1>5, <1>6, <3>1 DEF AfterPlain
  <2> DEFINE from == start + 1
             f == CHOOSE g : Reads(g, first, from)
  <2>3. from \in 1 .. Len(data) + 1 /\ from \in 2 .. Len(data) + 1 /\ m[from - 1] = first
    BY <1>3, <2>2
  <2>4. Reads(f, first, from)
    BY <1>0, <2>3, ReadingExists
  <2>5. NextToken = f[from]
    BY <2>1 DEF Quoted, Reads, ReadOn, Kept
  <2> HIDE DEF f
  <2>6. f[from] # LexicalError
    BY <2>5 DEF LexicalError, Token
  <2>7. /\ m[f[from].next - 1] = "plain"
        /\ \A k \in from .. f[from].next - 1 : m[k - 1] \in Within(first)
    BY <2>2, <2>3, <2>4, <2>6, ReadingModes
  <2>8. NextToken.content = SpelledBy(QuotedLetters(m, first, from))
    BY <2>2, <2>3, <2>4, <2>5, <2>6, ReadingSpells
  <2>9. QuotedLetters(m, first, from) = Letters(data, m, start)
    <3>1. \A k \in start .. Len(data) : k # start <=> k \in from .. Len(data)
      BY <1>3
    <3>2. \A k \in from .. Len(data) : \A j : j \in start .. k <=> j = start \/ j \in from .. k
      BY <1>3
    <3>3. from .. Len(data) \subseteq start .. Len(data)
      BY <1>3
    <3> HIDE DEF from
    <3> QED BY <2>2, <3>1, <3>2, <3>3 DEF Letters, QuotedLetters, Within
  <2>10. NextToken.content = Spelled(data, m, start)
    BY <2>8, <2>9 DEF SpelledBy, Spelled
  <2>11. ASSUME NEW k \in offset + 2 .. last PROVE k \notin WordStarts(data, m)
    <3>1. k \in from .. f[from].next - 1
      BY <1>0, <2>5, <2>11
    <3>2. m[k - 1] \in Within(first)
      BY <2>7, <3>1
    <3>3. ~Outside(m, k)
      BY <2>2, <3>2, AfterWithin DEF Within, Outside, Outdoors
    <3> QED BY <3>3 DEF WordStarts, WordAt
  <2>12. WordOver(m, last)
    BY <2>5, <2>7 DEF WordOver
  <2> QED BY <1>4, <2>10, <2>11, <2>12
<1>7. CASE first \notin Quotes
  <2>1. first \notin Special \cup Structure
    <3>1. ASSUME NEW c, AfterPlain(c) \in {"word"} \cup Quote, c \notin Quotes
          PROVE  c \notin Special \cup Structure
      <4>1. c \notin Quote /\ "comment" \notin {"word"} \cup Quote /\ "plain" \notin {"word"} \cup Quote
        BY <3>1 DEF Quote, Quotes
      <4>2. c # "#" /\ c \notin Structure \cup Space \cup {"control"}
        BY <3>1, <4>1 DEF AfterPlain
      <4> QED BY <3>1, <4>2 DEF Special, Structure, Space, Blank, CR, EOL, Control
    <3>2. AfterPlain(first) \in {"word"} \cup Quote
      BY <1>2, <1>5 DEF WordAt
    <3> QED BY <1>7, <3>1, <3>2
  <2>2. NextToken = Token("WORD", FirstIn(start, Special), SubSeq(data, start, FirstIn(start, Special) - 1))
    BY <1>0, <1>3, <2>1, WordTokens
  <2>3. NextToken.next = FirstIn(start, Special)
        /\ NextToken.content = SubSeq(data, start, FirstIn(start, Special) - 1)
    BY <2>2 DEF Token
  <2>4. /\ NextToken.next \in start + 1 .. Len(data) + 1
        /\ NextToken.content = Spelled(data, m, start)
        /\ \A k \in start .. last : m[k] = "word"
        /\ NextToken.next <= Len(data) => m[NextToken.next] # "word"
    BY <1>3, <1>4, <2>1, <2>3, PlainWord
  <2>5. ASSUME NEW k \in offset + 2 .. last PROVE k \notin WordStarts(data, m)
    <3>1. k \in start .. last /\ k - 1 \in start .. last
      BY <1>0, <1>2, <2>5
    <3> QED BY <2>4, <3>1 DEF WordStarts
  <2>6. WordOver(m, last)
    <3>1. last + 1 = NextToken.next /\ (last < Len(data) => NextToken.next <= Len(data))
      BY <1>0, <2>4
    <3> QED BY <2>4, <3>1 DEF WordOver
  <2> QED BY <1>4, <2>4, <2>5, <2>6
<1> QED BY <1>6, <1>7

\* Where there is no word, none goes on.
LEMMA NoWordOver ==
  ASSUME NEW m, ModesOfData(m), NEW i \in 1 .. Len(data), ~WordAt(m, i)
  PROVE  i \notin WordStarts(data, m) /\ WordOver(m, i)
BY WordsOutdoors DEF WordStarts, WordOver

(***************************************************************************)
(* Braces and depth                                                        *)
(***************************************************************************)
Opens(m, o) == data[o] = "{" /\ Outside(m, o)
Closes(m, o) == data[o] = "}" /\ Outside(m, o)

Depth(m, i) == Count(m, "{", i) - Count(m, "}", i)

\* The braces that led to the depth that there is after i characters.
Braces(m, i) == {o \in 1 .. i : Opens(m, o) /\ Depth(m, o) = Depth(m, i)}

LEMMA DepthSteps ==
  ASSUME NEW m, NEW a \in Nat
  PROVE  /\ Depth(m, a) \in Int
         /\ Opens(m, a + 1) => Depth(m, a + 1) = Depth(m, a) + 1
         /\ Closes(m, a + 1) => Depth(m, a + 1) = Depth(m, a) - 1
         /\ ~Opens(m, a + 1) /\ ~Closes(m, a + 1) => Depth(m, a + 1) = Depth(m, a)
<1> DEFINE b == a + 1
           x == Count(m, "{", a)
           y == Count(m, "}", a)
<1>1. b \in Nat /\ a <= b /\ (\A k \in a + 1 .. b : k = b) /\ b = a + 1
  OBVIOUS
<1>2. x \in Nat /\ y \in Nat
  BY CountIsNumber
<1>3. \A c : data[b] # c \/ ~Outside(m, b) => Count(m, c, b) = Count(m, c, a)
  <2> TAKE c
  <2> HAVE data[b] # c \/ ~Outside(m, b)
  <2>1. \A k \in a + 1 .. b : data[k] = c => ~Outside(m, k)
    BY <1>1
  <2> HIDE DEF b
  <2> QED BY <1>1, <2>1, CountSame
<1>4. \A c : data[b] = c /\ Outside(m, b) => Count(m, c, b) = Count(m, c, a) + 1
  BY CountMore
<1> HIDE DEF b
<1>5. Opens(m, b) => Count(m, "{", b) = x + 1 /\ Count(m, "}", b) = y
  BY <1>3, <1>4 DEF Opens
<1>6. Closes(m, b) => Count(m, "}", b) = y + 1 /\ Count(m, "{", b) = x
  BY <1>3, <1>4 DEF Closes
<1>7. ~Opens(m, b) /\ ~Closes(m, b) => Count(m, "}", b) = y /\ Count(m, "{", b) = x
  BY <1>3 DEF Closes, Opens
<1> HIDE DEF x, y
<1>8. Depth(m, a) = x - y
  BY DEF Depth, x, y
<1>9. Opens(m, b) => Depth(m, b) = (x + 1) - y
  BY <1>5 DEF Depth
<1>10. Closes(m, b) => Depth(m, b) = x - (y + 1)
  BY <1>6 DEF Depth
<1>11. ~Opens(m, b) /\ ~Closes(m, b) => Depth(m, b) = x - y
  BY <1>7 DEF Depth
<1>12. (x + 1) - y = (x - y) + 1 /\ x - (y + 1) = (x - y) - 1 /\ x - y \in Int
  BY <1>2
<1> QED BY <1>8, <1>9, <1>10, <1>11, <1>12, Zenon DEF b

LEMMA DepthKept ==
  ASSUME NEW m, NEW a \in Nat, NEW b \in Nat, a <= b,
         \A k \in a + 1 .. b : ~Opens(m, k) /\ ~Closes(m, k)
  PROVE  Depth(m, b) = Depth(m, a)
<1>1. Count(m, "{", b) = Count(m, "{", a)
  BY CountSame DEF Opens
<1>2. Count(m, "}", b) = Count(m, "}", a)
  BY CountSame DEF Closes
<1> QED BY <1>1, <1>2 DEF Depth

\* The brace of the innermost block is the last of these.
LEMMA BlockIs ==
  ASSUME NEW m, NEW i \in Nat
  PROVE  /\ Braces(m, i) = {} => BlockStart(data, m, i) = 0
         /\ \A o \in Braces(m, i) : (\A k \in Braces(m, i) : k <= o) => BlockStart(data, m, i) = o
         /\ Braces(m, i) # {} => BlockStart(data, m, i) \in Braces(m, i)
                                 /\ \A k \in Braces(m, i) : k <= BlockStart(data, m, i)
         /\ BlockStart(data, m, i) \in 0 .. i
<1> DEFINE same(o) == Balance(data, m, o).opened + Balance(data, m, i).closed
                      = Balance(data, m, i).opened + Balance(data, m, o).closed
           braces == {o \in 1 .. i : data[o] = "{" /\ Outside(m, o) /\ same(o)}
           B == Braces(m, i)
           start == BlockStart(data, m, i)
<1>1. ASSUME NEW o \in 0 .. i PROVE same(o) <=> Depth(m, o) = Depth(m, i)
  <2> DEFINE x == Count(m, "{", o)
             y == Count(m, "}", o)
             u == Count(m, "{", i)
             v == Count(m, "}", i)
  <2>1. x \in Nat /\ y \in Nat /\ u \in Nat /\ v \in Nat
    <3>1. o \in Nat
      OBVIOUS
    <3> QED BY <3>1, CountIsNumber
  <2>2. Balance(data, m, o) = [opened |-> x, closed |-> y] /\ Balance(data, m, i) = [opened |-> u, closed |-> v]
    BY BalanceCounts
  <2>3. Depth(m, o) = x - y /\ Depth(m, i) = u - v
    BY DEF Depth
  <2> HIDE DEF x, y, u, v
  <2>4. /\ Balance(data, m, o).opened = x /\ Balance(data, m, o).closed = y
        /\ Balance(data, m, i).opened = u /\ Balance(data, m, i).closed = v
    BY <2>2
  <2>5. x + v = u + y <=> x - y = u - v
    BY <2>1
  <2> QED BY <2>3, <2>4, <2>5, Zenon
<1>2. braces = B
  <2>1. \A o \in 1 .. i : o \in 0 .. i
    OBVIOUS
  <2> HIDE DEF same
  <2> QED BY <1>1, <2>1 DEF Braces, Opens
<1>3. start = IF braces = {} THEN 0 ELSE CHOOSE o \in braces : \A k \in braces : k <= o
  BY DEF BlockStart
<1>4. B \in SUBSET (1 .. i)
  BY DEF Braces
<1> HIDE DEF braces, B, start
<1>5. start = IF B = {} THEN 0 ELSE CHOOSE o \in B : \A k \in B : k <= o
  BY <1>2, <1>3
<1>6. ASSUME NEW o \in B, \A k \in B : k <= o PROVE start = o
  <2>1. \A x \in B : (\A k \in B : k <= x) => x = o
    <3> TAKE x \in B
    <3> HAVE \A k \in B : k <= x
    <3>1. o <= x /\ x <= o /\ o \in Nat /\ x \in Nat
      BY <1>4, <1>6
    <3> QED BY <3>1
  <2>2. (CHOOSE x \in B : \A k \in B : k <= x) = o
    BY <1>6, <2>1
  <2> QED BY <1>5, <2>2
<1>7. B # {} => start \in B /\ \A k \in B : k <= start
  <2> HAVE B # {}
  <2>1. PICK o \in B : \A k \in B : k <= o
    BY <1>4, NumberMax
  <2> QED BY <1>6, <2>1
<1>9. B = {} => start = 0
  BY <1>5
<1>8. start \in 0 .. i
  <2>1. B \subseteq 0 .. i /\ 0 \in 0 .. i
    BY <1>4
  <2> QED BY <1>7, <1>9, <2>1
<1> QED BY <1>6, <1>7, <1>8, <1>9, Zenon DEF B, start

LEMMA BlockQuiet ==
  ASSUME NEW m, NEW a \in Nat, NEW b \in Nat, a <= b,
         \A k \in a + 1 .. b : ~Opens(m, k) /\ ~Closes(m, k)
  PROVE  BlockStart(data, m, b) = BlockStart(data, m, a)
<1>1. Depth(m, b) = Depth(m, a)
  BY DepthKept
<1>2. Braces(m, b) = Braces(m, a)
  <2>1. \A k \in 1 .. b : k \in 1 .. a \/ k \in a + 1 .. b
    OBVIOUS
  <2>2. 1 .. a \subseteq 1 .. b
    OBVIOUS
  <2> QED BY <1>1, <2>1, <2>2 DEF Braces
<1>3. CASE Braces(m, a) = {}
  BY <1>2, <1>3, BlockIs
<1>4. CASE Braces(m, a) # {}
  <2>1. BlockStart(data, m, a) \in Braces(m, b) /\ \A k \in Braces(m, b) : k <= BlockStart(data, m, a)
    BY <1>2, <1>4, BlockIs
  <2> QED BY <2>1, BlockIs
<1> QED BY <1>3, <1>4

LEMMA BlockOpens ==
  ASSUME NEW m, NEW a \in Nat, Opens(m, a + 1)
  PROVE  BlockStart(data, m, a + 1) = a + 1
<1>1. a + 1 \in Nat /\ a + 1 \in 1 .. a + 1
  OBVIOUS
<1>2. a + 1 \in Braces(m, a + 1) /\ \A k \in Braces(m, a + 1) : k <= a + 1
  BY <1>1 DEF Braces
<1> QED BY <1>1, <1>2, BlockIs

\* A block that ends leaves the reader where it began.
LEMMA BlockCloses ==
  ASSUME NEW m, NEW a \in Nat, Closes(m, a + 1), BlockStart(data, m, a) # 0
  PROVE  LET o == BlockStart(data, m, a)
         IN  /\ o \in 1 .. a /\ Opens(m, o)
             /\ BlockStart(data, m, a + 1) = BlockStart(data, m, o - 1)
<1> DEFINE o == BlockStart(data, m, a)
           d == Depth(m, a)
<1>1. o \in Braces(m, a) /\ \A k \in Braces(m, a) : k <= o
  BY BlockIs
<1>2. o \in 1 .. a /\ Opens(m, o) /\ Depth(m, o) = d
  BY <1>1 DEF Braces
<1> HIDE DEF o
<1>3. o - 1 \in Nat /\ (o - 1) + 1 = o /\ d \in Int /\ o \in Nat /\ o <= a
  BY <1>2, DepthSteps
<1>4. Depth(m, o - 1) = d - 1 /\ Depth(m, a + 1) = d - 1
  <2>1. Depth(m, o - 1) \in Int /\ Depth(m, o) = Depth(m, o - 1) + 1
    BY <1>2, <1>3, DepthSteps
  <2>2. Depth(m, a + 1) = d - 1
    BY DepthSteps
  <2> HIDE DEF d
  <2> QED BY <1>2, <1>3, <2>1, <2>2
<1>5. \A k \in Nat : Depth(m, k) \in Int
  BY DepthSteps
<1>6. ASSUME NEW p \in o .. a, Opens(m, p), Depth(m, p) = d - 1 PROVE FALSE
  <2> DEFINE S == {q \in p .. a : Depth(m, q) >= d}
  <2> HIDE DEF d
  <2>0. p \in Nat /\ a \in p .. a
    BY <1>3
  <2>1. S # {}
    <3>1. Depth(m, a) = d
      BY DEF d
    <3> QED BY <2>0, <3>1, <1>3
  <2>2. PICK q \in S : \A r \in S : q <= r
    <3>1. S \in SUBSET Nat
      BY <1>3
    <3> HIDE DEF S
    <3> QED BY <2>1, <3>1, NumberMin
  <2>3. q \in p .. a /\ Depth(m, q) >= d /\ q # p
    BY <1>3, <1>6, <2>2
  <2>4. q - 1 \in p .. a /\ q - 1 \in Nat /\ (q - 1) + 1 = q /\ q \in Nat /\ ~(q <= q - 1)
    BY <1>3, <2>3
  <2>5. ~(Depth(m, q - 1) >= d)
    BY <2>2, <2>4
  <2>6. Depth(m, q - 1) \in Int
    BY <2>4, DepthSteps
  <2>61. /\ Opens(m, q) => Depth(m, q) = Depth(m, q - 1) + 1
         /\ Closes(m, q) => Depth(m, q) = Depth(m, q - 1) - 1
         /\ ~Opens(m, q) /\ ~Closes(m, q) => Depth(m, q) = Depth(m, q - 1)
    <3> DEFINE e == q - 1
    <3>1. e \in Nat /\ e + 1 = q
      BY <2>4
    <3> HIDE DEF e
    <3>2. /\ Opens(m, e + 1) => Depth(m, e + 1) = Depth(m, e) + 1
          /\ Closes(m, e + 1) => Depth(m, e + 1) = Depth(m, e) - 1
          /\ ~Opens(m, e + 1) /\ ~Closes(m, e + 1) => Depth(m, e + 1) = Depth(m, e)
      BY <3>1, DepthSteps
    <3> QED BY <3>1, <3>2 DEF e
  <2>7. Opens(m, q) /\ Depth(m, q) = d
    BY <1>3, <2>3, <2>5, <2>6, <2>61
  <2>8. q \in Braces(m, a) /\ q \in 1 .. a /\ o < q
    <3>1. q \in 1 .. a /\ o < q
      BY <1>2, <1>3, <2>3, <2>4
    <3> QED BY <2>7, <3>1 DEF Braces, d
  <2>9. q <= o
    BY <1>1, <2>8 DEF o
  <2> QED BY <1>3, <2>4, <2>8, <2>9
<1>7. Braces(m, a + 1) = Braces(m, o - 1)
  <2>1. ~Opens(m, a + 1)
    BY DEF Opens, Closes
  <2>2. \A k \in 1 .. a + 1 : k \in 1 .. o - 1 \/ k \in o .. a \/ k = a + 1
    BY <1>3
  <2>3. 1 .. o - 1 \subseteq 1 .. a + 1
    BY <1>3
  <2> HIDE DEF d
  <2> QED BY <1>4, <1>6, <2>1, <2>2, <2>3 DEF Braces
<1>8. BlockStart(data, m, a + 1) = BlockStart(data, m, o - 1)
  <2> DEFINE b == a + 1
             c == o - 1
  <2>1. b \in Nat /\ c \in Nat /\ Braces(m, b) = Braces(m, c)
    BY <1>3, <1>7
  <2> HIDE DEF b, c
  <2>2. CASE Braces(m, c) = {}
    <3>1. BlockStart(data, m, c) = 0
      BY <2>1, <2>2, BlockIs
    <3>2. BlockStart(data, m, b) = 0
      BY <2>1, <2>2, BlockIs
    <3> QED BY <3>1, <3>2 DEF b, c
  <2>3. CASE Braces(m, c) # {}
    <3>1. BlockStart(data, m, c) \in Braces(m, b) /\ \A k \in Braces(m, b) : k <= BlockStart(data, m, c)
      BY <2>1, <2>3, BlockIs
    <3>2. BlockStart(data, m, b) = BlockStart(data, m, c)
      BY <2>1, <3>1, BlockIs
    <3> QED BY <3>2 DEF b, c
  <2> QED BY <2>2, <2>3
<1> QED BY <1>2, <1>8 DEF o

(***************************************************************************)
(* The directives of a text, word by word                                  *)
(***************************************************************************)
RestIn(m, i) == {w \in WordStarts(data, m) : w <= i} \ Heads(data, m, i)

\* The n-th directive, if these words begin directives and those are the rest.
DirectiveAt(m, heads, rest, n) ==
  LET head == Ascending(heads)[n]
      args == Ascending({w \in rest : Rank(heads, w) = n})
  IN  [name |-> Spelled(data, m, head),
       args |-> [k \in DOMAIN args |-> Spelled(data, m, args[k])],
       parent |-> Rank(heads, BlockStart(data, m, head - 1)),
       position |-> PositionOf(data, head)]

DirectivesOf(m, heads, rest) ==
  [n \in 1 .. Cardinality(heads) |-> DirectiveAt(m, heads, rest, n)]

LEMMA DirectivesAre ==
  ASSUME NEW m, NEW i
  PROVE  DirectivesIn(data, m, i) = DirectivesOf(m, Heads(data, m, i), RestIn(m, i))
BY DEF DirectivesIn, DirectivesOf, DirectiveAt, RestIn

LEMMA WordsUpTo ==
  ASSUME data \in Words, NEW m, NEW i \in Nat
  PROVE  /\ Heads(data, m, i) \in SUBSET (1 .. Len(data)) /\ RestIn(m, i) \in SUBSET (1 .. Len(data))
         /\ Len(data) \in Nat
         /\ \A w \in Heads(data, m, i) \cup RestIn(m, i) : w <= i /\ w \in Nat /\ w # 0
<1>1. Len(data) \in Nat /\ DOMAIN data = 1 .. Len(data)
  BY DEF Words
<1>2. WordStarts(data, m) \subseteq 1 .. Len(data)
  BY <1>1 DEF WordStarts
<1> QED BY <1>1, <1>2 DEF Heads, RestIn

LEMMA NoNewWords ==
  ASSUME data \in Words, NEW m, NEW a \in Nat, NEW b \in Nat, a <= b,
         \A k \in a + 1 .. b : k \notin WordStarts(data, m)
  PROVE  Heads(data, m, b) = Heads(data, m, a) /\ RestIn(m, b) = RestIn(m, a)
<1>1. ASSUME NEW w \in WordStarts(data, m) PROVE w <= b <=> w <= a
  <2>1. w \in Nat
    BY DEF WordStarts, Words
  <2>2. w \notin a + 1 .. b
    BY <1>1
  <2> QED BY <2>1, <2>2
<1> QED BY <1>1 DEF Heads, RestIn

LEMMA OneNewWord ==
  ASSUME data \in Words, NEW m, NEW a \in Nat, NEW b \in Nat, a + 1 <= b,
         a + 1 \in WordStarts(data, m),
         \A k \in a + 2 .. b : k \notin WordStarts(data, m)
  PROVE  /\ Begun(data, m, a + 1) =>
              /\ Heads(data, m, b) = Heads(data, m, a)
              /\ RestIn(m, b) = RestIn(m, a) \cup {a + 1}
         /\ ~Begun(data, m, a + 1) =>
              /\ Heads(data, m, b) = Heads(data, m, a) \cup {a + 1}
              /\ RestIn(m, b) = RestIn(m, a)
<1>1. ASSUME NEW w \in WordStarts(data, m) PROVE w <= b <=> w <= a \/ w = a + 1
  <2>1. w \in Nat
    BY DEF WordStarts, Words
  <2>2. w \notin a + 2 .. b
    BY <1>1
  <2> QED BY <2>1, <2>2
<1>2. ~(a + 1 <= a)
  OBVIOUS
<1> QED BY <1>1, <1>2 DEF Heads, RestIn

\* What a word adds that begins a directive, and one that is an argument of the
\* last directive.
AddsHead(m, H, R, x, c) ==
  /\ Cardinality(H \cup {x}) = c + 1
  /\ \A n \in 1 .. c : DirectiveAt(m, H \cup {x}, R, n) = DirectiveAt(m, H, R, n)
  /\ BlockStart(data, m, x - 1) < x =>
       DirectiveAt(m, H \cup {x}, R, c + 1) =
         [name |-> Spelled(data, m, x), args |-> << >>,
          parent |-> Rank(H, BlockStart(data, m, x - 1)), position |-> PositionOf(data, x)]

AddsArgument(m, H, R, x, c) ==
  LET last == DirectiveAt(m, H, R, c)
  IN  /\ \A n \in 1 .. c : n # c => DirectiveAt(m, H, R \cup {x}, n) = DirectiveAt(m, H, R, n)
      /\ DirectiveAt(m, H, R \cup {x}, c) =
           [last EXCEPT !.args = Append(last.args, Spelled(data, m, x))]

LEMMA HeadAdded ==
  ASSUME NEW len \in Nat, NEW m, NEW H \in SUBSET (1 .. len), NEW R \in SUBSET (1 .. len),
         NEW x \in 1 .. len, \A w \in H \cup R : w < x
  PROVE  AddsHead(m, H, R, x, Cardinality(H))
<1> DEFINE c == Cardinality(H)
           T == H \cup {x}
<1>0. x \in Nat /\ x - 1 \in Nat /\ H \subseteq Nat /\ R \subseteq Nat /\ IsFiniteSet(H) /\ c \in Nat
      /\ \A w \in H \cup R : w < x /\ w \in Nat
  <2>1. H \subseteq Nat /\ R \subseteq Nat /\ IsFiniteSet(H) /\ c \in Nat
    BY NumbersFinite
  <2>2. x \in Nat /\ x - 1 \in Nat
    OBVIOUS
  <2> HIDE DEF c
  <2> QED BY <2>1, <2>2
<1>1. /\ Cardinality(T) = c + 1
      /\ \A i \in Nat : i < x => Rank(T, i) = Rank(H, i)
      /\ \A i \in Nat : x <= i => Rank(T, i) = c + 1 /\ Rank(H, i) = c
  BY <1>0, RankLast
<1>2. Ascending(T) = Append(Ascending(H), x)
  BY AscendingAppend
<1>3. /\ Ascending(H) \in Seq(H) /\ Len(Ascending(H)) = c
      /\ \A k \in 1 .. c : Ascending(H)[k] \in H
  BY AscendingGives
<1> HIDE DEF c, T
<1>4. /\ \A n \in 1 .. c : Ascending(T)[n] = Ascending(H)[n]
      /\ Ascending(T)[c + 1] = x
  BY <1>0, <1>2, <1>3
<1>5. \A n : {w \in R : Rank(T, w) = n} = {w \in R : Rank(H, w) = n}
  BY <1>0, <1>1
<1>6. ASSUME NEW n \in 1 .. c PROVE DirectiveAt(m, T, R, n) = DirectiveAt(m, H, R, n)
  <2> DEFINE h == Ascending(H)[n]
  <2>1. h \in Nat /\ h < x /\ h - 1 \in Nat
    <3>1. h \in H
      BY <1>3
    <3>2. h \in 1 .. len
      BY <3>1
    <3> QED BY <1>0, <3>1, <3>2
  <2> HIDE DEF h
  <2>2. BlockStart(data, m, h - 1) \in 0 .. h - 1
    BY <2>1, BlockIs
  <2>3. BlockStart(data, m, h - 1) \in Nat /\ BlockStart(data, m, h - 1) < x
    BY <1>0, <2>1, <2>2
  <2>4. Rank(T, BlockStart(data, m, h - 1)) = Rank(H, BlockStart(data, m, h - 1))
    BY <1>1, <2>3
  <2>5. Ascending(T)[n] = h /\ Ascending(H)[n] = h
    BY <1>4 DEF h
  <2> QED BY <1>5, <2>4, <2>5 DEF DirectiveAt
<1>7. ASSUME BlockStart(data, m, x - 1) < x
      PROVE  DirectiveAt(m, T, R, c + 1) =
               [name |-> Spelled(data, m, x), args |-> << >>,
                parent |-> Rank(H, BlockStart(data, m, x - 1)), position |-> PositionOf(data, x)]
  <2>1. \A w \in R : Rank(T, w) # c + 1
    <3> TAKE w \in R
    <3>1. w \in Nat /\ w < x /\ w <= w
      BY <1>0
    <3>2. Rank(H, w) \in Nat /\ Rank(H, w) <= c
      BY <1>0, <3>1, RankBounds DEF c
    <3> QED BY <1>0, <1>1, <3>1, <3>2
  <2>2. {w \in R : Rank(T, w) = c + 1} = {}
    BY <2>1
  <2>3. Ascending({}) = << >>
    <3>1. Cardinality({}) = 0 /\ {} \in SUBSET (1 .. len)
      BY FS_EmptySet
    <3>2. Ascending({}) \in Seq({}) /\ Len(Ascending({})) = 0
      BY <3>1, AscendingGives
    <3> QED BY <3>2
  <2> DEFINE none == << >>
  <2>4. [k \in DOMAIN none |-> Spelled(data, m, none[k])] = << >>
    OBVIOUS
  <2>5. BlockStart(data, m, x - 1) \in Nat
    BY <1>0, BlockIs
  <2>6. Rank(T, BlockStart(data, m, x - 1)) = Rank(H, BlockStart(data, m, x - 1))
    BY <1>1, <1>7, <2>5
  <2> QED BY <1>4, <2>2, <2>3, <2>4, <2>6 DEF DirectiveAt
<1> QED BY <1>0, <1>1, <1>6, <1>7 DEF c, T, AddsHead

LEMMA ArgumentAdded ==
  ASSUME NEW len \in Nat, NEW m, NEW H \in SUBSET (1 .. len), NEW R \in SUBSET (1 .. len),
         NEW x \in 1 .. len, \A w \in H \cup R : w < x
  PROVE  AddsArgument(m, H, R, x, Cardinality(H))
<1> DEFINE c == Cardinality(H)
           A(n) == {w \in R : Rank(H, w) = n}
           B(n) == {w \in R \cup {x} : Rank(H, w) = n}
<1>0. x \in Nat /\ H \subseteq Nat /\ R \subseteq Nat /\ IsFiniteSet(H) /\ c \in Nat
      /\ \A w \in H \cup R : w < x /\ w \in Nat
  BY NumbersFinite
<1>1. Rank(H, x) = c
  <2>1. \A j \in H : j <= x
    BY <1>0
  <2>2. x <= x
    BY <1>0
  <2> QED BY <1>0, <2>1, <2>2, RankBounds
<1> HIDE DEF c
<1>2. \A n : n # c => B(n) = A(n)
  BY <1>1
<1>3. B(c) = A(c) \cup {x}
  BY <1>1
<1>4. A(c) \in SUBSET (1 .. len) /\ \A w \in A(c) : w < x
  BY <1>0
<1>5. ASSUME NEW n, n # c PROVE DirectiveAt(m, H, R \cup {x}, n) = DirectiveAt(m, H, R, n)
  BY <1>2, <1>5 DEF DirectiveAt
<1>6. LET last == DirectiveAt(m, H, R, c)
      IN  DirectiveAt(m, H, R \cup {x}, c) = [last EXCEPT !.args = Append(last.args, Spelled(data, m, x))]
  <2> DEFINE s == Ascending(A(c))
             t == Ascending(B(c))
             u == [k \in DOMAIN s |-> Spelled(data, m, s[k])]
             v == [k \in DOMAIN t |-> Spelled(data, m, t[k])]
             k0 == Cardinality(A(c))
             X == {Spelled(data, m, w) : w \in 1 .. len}
  <2>1. s \in Seq(A(c)) /\ Len(s) = k0 /\ k0 \in Nat /\ \A k \in 1 .. k0 : s[k] \in A(c)
    BY <1>4, AscendingGives
  <2>2. t = Append(s, x)
    BY <1>3, <1>4, AscendingAppend
  <2>3. A(c) \subseteq 1 .. len
    BY <1>4
  <2> HIDE DEF s, t, k0, A, B
  <2>4. DOMAIN s = 1 .. k0 /\ DOMAIN t = 1 .. k0 + 1 /\ t[k0 + 1] = x /\ \A k \in 1 .. k0 : t[k] = s[k]
    BY <2>1, <2>2
  <2>5. u \in Seq(X) /\ Len(u) = k0 /\ \A k \in 1 .. k0 : u[k] = Spelled(data, m, s[k])
    <3>1. \A k \in 1 .. k0 : u[k] = Spelled(data, m, s[k]) /\ s[k] \in 1 .. len
      BY <2>1, <2>3, <2>4
    <3>2. u \in [1 .. k0 -> X]
      BY <2>4, <3>1
    <3> HIDE DEF u, X
    <3> QED BY <2>1, <3>1, <3>2
  <2>6. Spelled(data, m, x) \in X
    OBVIOUS
  <2> DEFINE z == Append(u, Spelled(data, m, x))
  <2>7. /\ z \in Seq(X) /\ Len(z) = k0 + 1 /\ z[k0 + 1] = Spelled(data, m, x)
        /\ \A k \in 1 .. k0 : z[k] = u[k]
    <3> HIDE DEF u, X
    <3> QED BY <2>1, <2>5, <2>6, AppendProperties
  <2>8. v = z
    <3>1. \A k \in 1 .. k0 + 1 : v[k] = z[k]
      <4> TAKE k \in 1 .. k0 + 1
      <4>1. v[k] = Spelled(data, m, t[k])
        BY <2>4
      <4>2. k \in 1 .. k0 \/ k = k0 + 1
        BY <2>1
      <4> HIDE DEF v, z, u
      <4> QED BY <2>4, <2>5, <2>7, <4>1, <4>2
    <3>2. DOMAIN v = 1 .. k0 + 1 /\ v = [k \in DOMAIN v |-> v[k]]
      BY <2>4
    <3>3. DOMAIN z = 1 .. k0 + 1 /\ z = [k \in DOMAIN z |-> z[k]]
      <4> HIDE DEF z, X
      <4> QED BY <2>7
    <3> HIDE DEF v, z
    <3> QED BY <3>1, <3>2, <3>3
  <2> DEFINE head == Ascending(H)[c]
             name == Spelled(data, m, head)
             parent == Rank(H, BlockStart(data, m, head - 1))
             position == PositionOf(data, head)
  <2>9. DirectiveAt(m, H, R, c) = [name |-> name, args |-> u, parent |-> parent, position |-> position]
    BY DEF DirectiveAt, s, A
  <2>10. DirectiveAt(m, H, R \cup {x}, c) = [name |-> name, args |-> v, parent |-> parent, position |-> position]
    BY DEF DirectiveAt, t, B
  <2> DEFINE last == DirectiveAt(m, H, R, c)
  <2> HIDE DEF u, v, z, name, parent, position, head, last
  <2>11. last = [name |-> name, args |-> u, parent |-> parent, position |-> position]
    BY <2>9 DEF last
  <2>12. last.args = u /\ [last EXCEPT !.args = z] = [name |-> name, args |-> z, parent |-> parent, position |-> position]
    BY <2>11
  <2>13. z = Append(last.args, Spelled(data, m, x))
    BY <2>12 DEF z
  <2> QED BY <2>8, <2>10, <2>12, <2>13, Zenon DEF last
<1> QED BY <1>5, <1>6 DEF c, AddsArgument

\* The last directive is in the block that is being read.
Attached(m, i) ==
  \E h \in Heads(data, m, i) :
    /\ \A j \in Heads(data, m, i) : j <= h
    /\ BlockStart(data, m, h - 1) = BlockStart(data, m, i)

\* The directive before a brace is in the block that is around the brace.
Placed(m, i) ==
  \A o \in 1 .. i : Opens(m, o) =>
    \E h \in Heads(data, m, i) :
      /\ h <= o /\ \A j \in Heads(data, m, i) : j <= o => j <= h
      /\ BlockStart(data, m, h - 1) = BlockStart(data, m, o - 1)

\* The tree is that of what has been read.
TreeRead(m) ==
  /\ nodes = DirectivesIn(data, m, offset)
  /\ scope = Rank(Heads(data, m, offset), BlockStart(data, m, offset))
  /\ WordOver(m, offset)
  /\ open => Attached(m, offset)
  /\ Placed(m, offset)

TreeInv ==
  /\ status = "parsing" => TreeRead(Modes(data))
  /\ status # "parsing" /\ error.reason # "syntax" => nodes = DirectivesIn(data, Modes(data), Len(data))

LEMMA TreeStep ==
  ASSUME data' = data, NEW m, m = Modes(data), NEW i, offset' = i, status' = "parsing",
         nodes' = DirectivesIn(data, m, i),
         scope' = Rank(Heads(data, m, i), BlockStart(data, m, i)),
         WordOver(m, i), open' => Attached(m, i), Placed(m, i)
  PROVE  TreeInv'
<1>1. WordOver(m, i)' /\ Placed(m, i)' /\ (Attached(m, i)' <=> Attached(m, i))
  BY DEF WordOver, Placed, Opens, Attached
<1>2. TreeRead(m)'
  BY <1>1 DEF TreeRead
<1>3. m = Modes(data)'
  OBVIOUS
<1> QED BY <1>2, <1>3 DEF TreeInv

LEMMA QuietNoBrace ==
  ASSUME NEW m, NEW k, Quiet(m, k)
  PROVE  ~Opens(m, k) /\ ~Closes(m, k)
BY DEF Quiet, Opens, Closes, Structure

LEMMA PlacesKept ==
  ASSUME NEW m, NEW a \in Nat, NEW b \in Nat, a <= b, Heads(data, m, b) = Heads(data, m, a),
         \A k \in a + 1 .. b : ~Opens(m, k) /\ ~Closes(m, k)
  PROVE  /\ BlockStart(data, m, b) = BlockStart(data, m, a)
         /\ Attached(m, a) => Attached(m, b)
         /\ Placed(m, a) => Placed(m, b)
<1>1. BlockStart(data, m, b) = BlockStart(data, m, a)
  BY BlockQuiet
<1>2. \A o \in 1 .. b : Opens(m, o) => o \in 1 .. a
  <2>1. \A o \in 1 .. b : o \in 1 .. a \/ o \in a + 1 .. b
    OBVIOUS
  <2> QED BY <2>1
<1> QED BY <1>1, <1>2 DEF Attached, Placed

\* What the proofs about each step begin with.
LEMMA TreeFacts ==
  ASSUME TypedInv, SyntaxInv, TreeInv, status = "parsing"
  PROVE  LET m == Modes(data)
             heads == Heads(data, m, offset)
         IN  /\ ModesOfData(m) /\ data \in Words /\ Len(data) \in Nat
             /\ offset \in 0 .. Len(data) /\ offset \in Nat
             /\ Between(m, offset) /\ (open <=> Begun(data, m, offset + 1))
             /\ TreeRead(m)
             /\ TokenFits(m, NextToken)
             /\ heads \in SUBSET (1 .. Len(data)) /\ RestIn(m, offset) \in SUBSET (1 .. Len(data))
             /\ \A w \in heads \cup RestIn(m, offset) : w <= offset /\ w \in Nat /\ w # 0
             /\ Cardinality(heads) = Len(nodes) /\ Len(nodes) \in Nat
             /\ DOMAIN nodes = 1 .. Len(nodes) /\ nodes \in Seq(Directive)
             /\ nodes = DirectivesOf(m, heads, RestIn(m, offset))
<1> DEFINE m == Modes(data)
           heads == Heads(data, m, offset)
<1>1. PICK depth : Reading(m, depth)
  BY ReadingFacts
<1>2. /\ ModesOfData(m) /\ offset \in 0 .. Len(data) /\ offset \in Nat /\ Len(data) \in Nat
      /\ data \in Words
  BY ReadingFacts DEF ModesOfData
<1>3. TreeRead(m)
  BY DEF TreeInv
<1> HIDE DEF m
<1>4. Between(m, offset) /\ (open <=> Begun(data, m, offset + 1))
  BY <1>1 DEF Reading
<1>5. TokenFits(m, NextToken)
  BY <1>2, <1>4, TokenModes
<1>6. /\ heads \in SUBSET (1 .. Len(data)) /\ RestIn(m, offset) \in SUBSET (1 .. Len(data))
      /\ \A w \in heads \cup RestIn(m, offset) : w <= offset /\ w \in Nat /\ w # 0
  BY <1>2, WordsUpTo
<1>7. nodes = DirectivesOf(m, heads, RestIn(m, offset))
  BY <1>3, DirectivesAre DEF TreeRead
<1>8. DOMAIN nodes = 1 .. Len(nodes) /\ Len(nodes) \in Nat /\ nodes \in Seq(Directive)
  BY ParsingFacts DEF NodesRead
<1>9. Cardinality(heads) = Len(nodes)
  <2>1. DOMAIN nodes = 1 .. Cardinality(heads)
    BY <1>7 DEF DirectivesOf
  <2>2. Cardinality(heads) \in Nat
    BY <1>2, <1>6, NumbersFinite
  <2> HIDE DEF heads
  <2>3. \A x, y \in Nat : 1 .. x = 1 .. y => x = y
    BY InitialNumbers
  <2> QED BY <1>8, <2>1, <2>2, <2>3
<1> QED BY <1>2, <1>3, <1>4, <1>5, <1>6, <1>7, <1>8, <1>9 DEF m

\* Tokens in which no word begins
LEMMA NoWordStep ==
  ASSUME TypedInv, SyntaxInv, TreeInv, status = "parsing", status' = "parsing", data' = data,
         UNCHANGED <<nodes, scope>>, open' => open,
         NEW last, offset' = last, last \in offset + 1 .. Len(data),
         \A k \in offset + 1 .. last :
           ~WordAt(Modes(data), k) /\ ~Opens(Modes(data), k) /\ ~Closes(Modes(data), k)
  PROVE  TreeInv'
<1> DEFINE m == Modes(data)
<1>1. /\ ModesOfData(m) /\ data \in Words /\ Len(data) \in Nat
      /\ offset \in 0 .. Len(data) /\ offset \in Nat /\ TreeRead(m)
  BY TreeFacts
<1>2. m = Modes(data)
  OBVIOUS
<1> HIDE DEF m
<1>3. last \in Nat /\ offset <= last /\ last \in 1 .. Len(data) /\ last \in offset + 1 .. last
  BY <1>1
<1>4. \A k \in offset + 1 .. last : k \notin WordStarts(data, m) /\ ~Opens(m, k) /\ ~Closes(m, k)
  BY <1>2 DEF WordStarts
<1>5. Heads(data, m, last) = Heads(data, m, offset) /\ RestIn(m, last) = RestIn(m, offset)
  BY <1>1, <1>3, <1>4, NoNewWords
<1>6. DirectivesIn(data, m, last) = DirectivesIn(data, m, offset)
  BY <1>5, DirectivesAre
<1>7. /\ BlockStart(data, m, last) = BlockStart(data, m, offset)
      /\ Attached(m, offset) => Attached(m, last)
      /\ Placed(m, offset) => Placed(m, last)
  BY <1>1, <1>3, <1>4, <1>5, PlacesKept
<1>8. WordOver(m, last)
  <2>1. ~WordAt(m, last)
    BY <1>2, <1>3
  <2> QED BY <1>1, <1>3, <2>1, NoWordOver
<1>9. /\ nodes' = DirectivesIn(data, m, last)
      /\ scope' = Rank(Heads(data, m, last), BlockStart(data, m, last))
      /\ open' => Attached(m, last)
      /\ Placed(m, last)
  BY <1>1, <1>5, <1>6, <1>7 DEF TreeRead
<1> QED BY <1>2, <1>8, <1>9, TreeStep

LEMMA SkipTree ==
  ASSUME TypedInv, SyntaxInv, TreeInv, Skip
  PROVE  TreeInv'
<1>1. PICK type \in {"WS", "COMMENT"} : Consume(type)
  BY DEF Skip
<1>2. UNCHANGED <<nodes, scope, open>>
  BY DEF Skip, treeVars
<1> DEFINE last == NextToken.next - 1
<1>3. NextToken.type \in {"WS", "COMMENT"} /\ data' = data /\ offset' = last /\ status = "parsing" /\ status' = "parsing"
  BY <1>1, ConsumedToken
<1>4. TokenFits(Modes(data), NextToken)
  BY <1>3, TreeFacts
<1>5. /\ last \in offset + 1 .. Len(data)
      /\ \A k \in offset + 1 .. last : Quiet(Modes(data), k) /\ ~WordAt(Modes(data), k)
  BY <1>3, <1>4 DEF TokenFits
<1>6. \A k \in offset + 1 .. last :
        ~WordAt(Modes(data), k) /\ ~Opens(Modes(data), k) /\ ~Closes(Modes(data), k)
  BY <1>5, QuietNoBrace
<1> HIDE DEF last
<1> QED BY <1>2, <1>3, <1>5, <1>6, NoWordStep

LEMMA StructureTree ==
  ASSUME TypedInv, SyntaxInv, TreeInv, NEW type \in {"TERM", "OPENBRACE", "CLOSEBRACE"}, Consume(type)
  PROVE  LET m == Modes(data)
             i == offset + 1
         IN  /\ status = "parsing" /\ status' = "parsing" /\ data' = data /\ offset' = i
             /\ i \in 1 .. Len(data) /\ Outside(m, i) /\ data[i] = CharacterOf(type) /\ ~WordAt(m, i)
             /\ Heads(data, m, i) = Heads(data, m, offset)
             /\ DirectivesIn(data, m, i) = DirectivesIn(data, m, offset)
             /\ WordOver(m, i)
<1> DEFINE m == Modes(data)
           i == offset + 1
<1>1. /\ status = "parsing" /\ NextToken.type = type /\ status' = "parsing"
      /\ data' = data /\ offset' = NextToken.next - 1
  BY ConsumedToken
<1>2. /\ ModesOfData(m) /\ data \in Words /\ Len(data) \in Nat /\ offset \in 0 .. Len(data) /\ offset \in Nat
      /\ Between(m, offset)
  BY <1>1, TreeFacts
<1> HIDE DEF m
<1>3. /\ NextToken.next - 1 = i /\ i \in 1 .. Len(data)
      /\ Outside(m, i) /\ m[i] = "plain" /\ data[i] = CharacterOf(type)
  BY <1>1, <1>2, StructureRead
<1>4. ~WordAt(m, i)
  BY <1>3 DEF WordAt, Quote
<1>5. i \in Nat /\ offset <= i /\ \A k \in offset + 1 .. i : k = i
  BY <1>2
<1> HIDE DEF i
<1>6. i \notin WordStarts(data, m) /\ WordOver(m, i)
  BY <1>2, <1>3, <1>4, NoWordOver
<1>7. Heads(data, m, i) = Heads(data, m, offset) /\ RestIn(m, i) = RestIn(m, offset)
  <2>1. \A k \in offset + 1 .. i : k \notin WordStarts(data, m)
    BY <1>5, <1>6
  <2> QED BY <1>2, <1>5, <2>1, NoNewWords
<1>8. DirectivesIn(data, m, i) = DirectivesIn(data, m, offset)
  BY <1>7, DirectivesAre
<1> QED BY <1>1, <1>3, <1>4, <1>6, <1>7, <1>8 DEF m, i

LEMMA ReadTermTree ==
  ASSUME TypedInv, SyntaxInv, TreeInv, ReadTerm
  PROVE  TreeInv'
<1>1. Consume("TERM") /\ UNCHANGED <<nodes, scope>> /\ open' = FALSE
  BY DEF ReadTerm
<1> DEFINE i == offset + 1
<1>2. /\ status = "parsing" /\ status' = "parsing" /\ data' = data /\ offset' = i
      /\ i \in 1 .. Len(data) /\ data[i] = ";" /\ ~WordAt(Modes(data), i)
  BY <1>1, StructureTree DEF CharacterOf
<1>3. offset \in Nat /\ Len(data) \in Nat
  BY <1>2, TreeFacts
<1>4. i \in offset + 1 .. Len(data) /\ \A k \in offset + 1 .. i : k = i
  <2>1. i \in 1 .. Len(data)
    BY <1>2
  <2> QED BY <1>3, <2>1
<1> HIDE DEF i
<1>5. \A k \in offset + 1 .. i :
        ~WordAt(Modes(data), k) /\ ~Opens(Modes(data), k) /\ ~Closes(Modes(data), k)
  BY <1>2, <1>4 DEF Opens, Closes
<1> QED BY <1>1, <1>2, <1>4, <1>5, NoWordStep

LEMMA OpenBlockTree ==
  ASSUME TypedInv, SyntaxInv, TreeInv, OpenBlock
  PROVE  TreeInv'
<1>1. Consume("OPENBRACE") /\ open /\ nodes' = nodes /\ scope' = Len(nodes) /\ open' = FALSE
  BY DEF OpenBlock
<1> DEFINE m == Modes(data)
           i == offset + 1
           heads == Heads(data, m, offset)
<1>2. /\ status = "parsing" /\ status' = "parsing" /\ data' = data /\ offset' = i
      /\ i \in 1 .. Len(data) /\ Outside(m, i) /\ data[i] = "{"
      /\ Heads(data, m, i) = heads
      /\ DirectivesIn(data, m, i) = DirectivesIn(data, m, offset)
      /\ WordOver(m, i)
  BY <1>1, StructureTree DEF CharacterOf
<1>3. /\ offset \in Nat /\ TreeRead(m) /\ Len(data) \in Nat /\ heads \in SUBSET (1 .. Len(data))
      /\ \A w \in heads : w <= offset /\ w \in Nat
      /\ Cardinality(heads) = Len(nodes)
  BY <1>2, TreeFacts
<1>4. m = Modes(data)
  OBVIOUS
<1> HIDE DEF m
<1>5. Opens(m, i)
  BY <1>2 DEF Opens
<1>6. BlockStart(data, m, i) = i
  BY <1>3, <1>5, BlockOpens
<1>7. i \in Nat /\ i - 1 = offset /\ (\A o \in 1 .. i : o # i => o \in 1 .. offset)
      /\ \A w \in Nat : w <= offset => w <= i
  BY <1>3
<1>8. Rank(heads, i) = Cardinality(heads)
  <2>1. IsFiniteSet(heads) /\ heads \subseteq Nat
    BY <1>3, NumbersFinite
  <2>2. \A j \in heads : j <= i
    BY <1>3, <1>7
  <2>3. i <= i
    BY <1>7
  <2> HIDE DEF heads, i
  <2> QED BY <1>7, <2>1, <2>2, <2>3, RankBounds
<1>9. Placed(m, i)
  <2> SUFFICES ASSUME NEW o \in 1 .. i, Opens(m, o)
               PROVE  \E h \in heads :
                        /\ h <= o /\ \A j \in heads : j <= o => j <= h
                        /\ BlockStart(data, m, h - 1) = BlockStart(data, m, o - 1)
    BY <1>2 DEF Placed
  <2>1. CASE o = i
    <3>1. PICK h \in heads : /\ \A j \in heads : j <= h
                             /\ BlockStart(data, m, h - 1) = BlockStart(data, m, offset)
      BY <1>1, <1>3 DEF TreeRead, Attached
    <3>2. h <= i
      BY <1>3, <1>7
    <3> HIDE DEF i
    <3> QED BY <1>7, <2>1, <3>1, <3>2
  <2>2. CASE o # i
    <3>1. o \in 1 .. offset
      BY <1>7, <2>2
    <3> QED BY <1>3, <3>1 DEF TreeRead, Placed
  <2> QED BY <2>1, <2>2
<1>10. /\ nodes' = DirectivesIn(data, m, i)
       /\ scope' = Rank(Heads(data, m, i), BlockStart(data, m, i))
       /\ open' => Attached(m, i)
  BY <1>1, <1>2, <1>3, <1>6, <1>8 DEF TreeRead
<1> QED BY <1>2, <1>4, <1>9, <1>10, TreeStep

LEMMA CloseBlockTree ==
  ASSUME TypedInv, SyntaxInv, TreeInv, CloseBlock
  PROVE  TreeInv'
<1>1. /\ Consume("CLOSEBRACE") /\ ~open /\ scope # 0 /\ open' = open
      /\ nodes' = nodes /\ scope' = nodes[scope].parent
  BY DEF CloseBlock, Root
<1> DEFINE m == Modes(data)
           i == offset + 1
           heads == Heads(data, m, offset)
           o == BlockStart(data, m, offset)
<1>2. /\ status = "parsing" /\ status' = "parsing" /\ data' = data /\ offset' = i
      /\ i \in 1 .. Len(data) /\ Outside(m, i) /\ data[i] = "}"
      /\ Heads(data, m, i) = heads
      /\ DirectivesIn(data, m, i) = DirectivesIn(data, m, offset)
      /\ WordOver(m, i)
  BY <1>1, StructureTree DEF CharacterOf
<1>3. /\ offset \in Nat /\ TreeRead(m) /\ Len(data) \in Nat /\ heads \in SUBSET (1 .. Len(data))
      /\ \A w \in heads : w <= offset /\ w \in Nat /\ w # 0
      /\ Cardinality(heads) = Len(nodes)
      /\ nodes = DirectivesOf(m, heads, RestIn(m, offset))
  BY <1>2, TreeFacts
<1>4. m = Modes(data) /\ i \in Nat
  BY <1>3
<1> HIDE DEF m
<1>5. Closes(m, i)
  BY <1>2 DEF Closes
<1>6. scope = Rank(heads, o)
  BY <1>3 DEF TreeRead
<1>7. o # 0
  <2>1. \A w \in heads : ~(w <= 0)
    BY <1>3
  <2>2. {w \in heads : w <= 0} = {}
    BY <2>1
  <2>3. Rank(heads, 0) = 0
    BY <2>2, FS_EmptySet DEF Rank
  <2> QED BY <1>1, <1>6, <2>3
<1>8. /\ o \in 1 .. offset /\ Opens(m, o)
      /\ BlockStart(data, m, i) = BlockStart(data, m, o - 1)
  BY <1>3, <1>5, <1>7, BlockCloses
<1>9. PICK h \in heads :
        /\ h <= o /\ \A j \in heads : j <= o => j <= h
        /\ BlockStart(data, m, h - 1) = BlockStart(data, m, o - 1)
  BY <1>3, <1>8 DEF TreeRead, Placed
<1> HIDE DEF heads, o
<1>10. scope = Rank(heads, h)
  <2>1. \A j \in heads : j <= o <=> j <= h
    <3> TAKE j \in heads
    <3>1. j \in Nat /\ h \in Nat /\ o \in Nat
      BY <1>3, <1>8
    <3> QED BY <1>9, <3>1
  <2>2. {j \in heads : j <= o} = {j \in heads : j <= h}
    BY <2>1
  <2> QED BY <1>6, <2>2 DEF Rank
<1>11. scope \in 1 .. Cardinality(heads) /\ Ascending(heads)[scope] = h
  BY <1>3, <1>10, AscendingGives
<1>12. nodes[scope].parent = Rank(heads, BlockStart(data, m, h - 1))
  <2>1. nodes[scope] = DirectiveAt(m, heads, RestIn(m, offset), scope)
    BY <1>3, <1>11 DEF DirectivesOf
  <2> QED BY <1>11, <2>1 DEF DirectiveAt
<1>13. scope' = Rank(Heads(data, m, i), BlockStart(data, m, i))
  BY <1>1, <1>2, <1>8, <1>9, <1>12
<1>14. Placed(m, i)
  <2>1. \A p \in 1 .. i : p = i \/ p \in 1 .. offset
    BY <1>3
  <2>2. ~Opens(m, i)
    BY <1>5 DEF Opens, Closes
  <2> QED BY <1>2, <1>3, <2>1, <2>2 DEF TreeRead, Placed, heads
<1>15. nodes' = DirectivesIn(data, m, i) /\ ~open'
  BY <1>1, <1>2, <1>3 DEF TreeRead
<1> QED BY <1>2, <1>4, <1>13, <1>14, <1>15, TreeStep

LEMMA ReadWordTree ==
  ASSUME TypedInv, SyntaxInv, TreeInv, ReadWord
  PROVE  TreeInv'
<1>1. Consume("WORD") /\ open' = TRUE /\ scope' = scope
  BY DEF ReadWord
<1> DEFINE m == Modes(data)
           last == NextToken.next - 1
           x == offset + 1
           c == Len(nodes)
           heads == Heads(data, m, offset)
           rest == RestIn(m, offset)
           here == BlockStart(data, m, offset)
<1>2. /\ status = "parsing" /\ NextToken.type = "WORD" /\ status' = "parsing"
      /\ data' = data /\ offset' = last
  BY <1>1, ConsumedToken
<1>3. /\ ModesOfData(m) /\ data \in Words /\ Len(data) \in Nat
      /\ offset \in 0 .. Len(data) /\ offset \in Nat
      /\ Between(m, offset) /\ (open <=> Begun(data, m, x))
      /\ TreeRead(m) /\ TokenFits(m, NextToken)
  BY <1>2, TreeFacts
<1>4. /\ heads \in SUBSET (1 .. Len(data)) /\ rest \in SUBSET (1 .. Len(data))
      /\ \A w \in heads \cup rest : w <= offset /\ w \in Nat /\ w # 0
      /\ Cardinality(heads) = c /\ c \in Nat /\ DOMAIN nodes = 1 .. c
      /\ nodes = DirectivesOf(m, heads, rest)
  BY <1>2, TreeFacts
<1>5. Here = PositionOf(data, x)
  BY <1>2 DEF TypedInv, Steady
<1>6. m = Modes(data)
  OBVIOUS
<1> HIDE DEF m
<1>7. WordOver(m, offset) /\ Placed(m, offset) /\ (open => Attached(m, offset)) /\ scope = Rank(heads, here)
  BY <1>3 DEF TreeRead
<1>8. /\ NextToken.content = Spelled(data, m, x)
      /\ x \in WordStarts(data, m)
      /\ \A k \in offset + 2 .. last : k \notin WordStarts(data, m)
      /\ WordOver(m, last)
  BY <1>2, <1>3, <1>7, WordToken
<1>9. last \in x .. Len(data) /\ \A k \in x .. last : Quiet(m, k)
  BY <1>2, <1>3 DEF TokenFits
<1> HIDE DEF last
<1>10. /\ last \in Nat /\ x <= last /\ offset <= last /\ x \in 1 .. Len(data) /\ x \in Nat
       /\ x - 1 = offset /\ \A w \in Nat : w <= offset => w < x
  BY <1>3, <1>9
<1>11. \A k \in offset + 1 .. last : ~Opens(m, k) /\ ~Closes(m, k)
  BY <1>9, QuietNoBrace
<1>12. here = BlockStart(data, m, last) /\ here \in 0 .. offset /\ here \in Nat /\ here < x
  <2>1. here = BlockStart(data, m, last)
    BY <1>3, <1>10, <1>11, BlockQuiet
  <2>2. here \in 0 .. offset
    BY <1>3, BlockIs
  <2> HIDE DEF here
  <2>3. here \in Nat /\ here < x
    BY <1>3, <2>2
  <2> QED BY <2>1, <2>2, <2>3
<1>13. /\ Begun(data, m, x) =>
            Heads(data, m, last) = heads /\ RestIn(m, last) = rest \cup {x}
       /\ ~Begun(data, m, x) =>
            Heads(data, m, last) = heads \cup {x} /\ RestIn(m, last) = rest
  BY <1>3, <1>8, <1>10, OneNewWord
<1>14. \A w \in heads \cup rest : w < x
  BY <1>4, <1>10
<1>15. nodes' \in Seq(Directive)
  BY WordRead
<1>16. CASE open
  <2>1. /\ Len(nodes') = c /\ DOMAIN nodes' = 1 .. c
        /\ \A n \in 1 .. c : n # c => nodes'[n] = nodes[n]
        /\ nodes'[c] = [nodes[c] EXCEPT !.args = Append(nodes[c].args, Spelled(data, m, x))]
    BY <1>4, <1>8, <1>16, WordRead
  <2>2. c \in 1 .. c
    <3>1. nodes # << >>
      BY <1>2, <1>16, ParsingFacts
    <3>2. nodes \in Seq(Directive)
      BY <1>2, TreeFacts
    <3> QED BY <3>1, <3>2
  <2> HIDE DEF x, heads, rest, c
  <2>3. /\ \A n \in 1 .. c : n # c => DirectiveAt(m, heads, rest \cup {x}, n) = DirectiveAt(m, heads, rest, n)
        /\ LET d == DirectiveAt(m, heads, rest, c)
           IN  DirectiveAt(m, heads, rest \cup {x}, c) =
                 [d EXCEPT !.args = Append(d.args, Spelled(data, m, x))]
    <3> DEFINE len == Len(data)
    <3>1. /\ len \in Nat /\ heads \in SUBSET (1 .. len) /\ rest \in SUBSET (1 .. len) /\ x \in 1 .. len
          /\ \A w \in heads \cup rest : w < x
      BY <1>3, <1>4, <1>10, <1>14
    <3> HIDE DEF len
    <3>2. AddsArgument(m, heads, rest, x, Cardinality(heads))
      BY <3>1, ArgumentAdded
    <3>3. Cardinality(heads) = c
      BY <1>4
    <3> QED BY <3>2, <3>3, Zenon DEF AddsArgument
  <2>4. \A n \in 1 .. c : nodes[n] = DirectiveAt(m, heads, rest, n)
    BY <1>4 DEF DirectivesOf
  <2>5. \A n \in 1 .. c : nodes'[n] = DirectiveAt(m, heads, rest \cup {x}, n)
    <3> TAKE n \in 1 .. c
    <3>1. CASE n = c
      BY <2>1, <2>2, <2>3, <2>4, <3>1
    <3>2. CASE n # c
      BY <2>1, <2>3, <2>4, <3>2
    <3> QED BY <3>1, <3>2
  <2>6. nodes' = DirectivesIn(data, m, last)
    <3>1. nodes' = [n \in 1 .. c |-> nodes'[n]]
      BY <1>15, <2>1
    <3>2. nodes' = DirectivesOf(m, heads, rest \cup {x})
      BY <1>4, <2>5, <3>1 DEF DirectivesOf
    <3> QED BY <1>3, <1>13, <1>16, <3>2, DirectivesAre
  <2>7. Heads(data, m, last) = heads
    BY <1>3, <1>13, <1>16
  <2>8. Attached(m, last) /\ Placed(m, last)
    BY <1>3, <1>7, <1>10, <1>11, <1>16, <2>7, PlacesKept DEF heads
  <2>9. scope' = Rank(Heads(data, m, last), BlockStart(data, m, last))
    BY <1>1, <1>7, <1>12, <2>7
  <2> QED BY <1>2, <1>6, <1>8, <2>6, <2>8, <2>9, TreeStep
<1>17. CASE ~open
  <2>1. /\ Len(nodes') = c + 1 /\ DOMAIN nodes' = 1 .. c + 1
        /\ \A n \in 1 .. c : nodes'[n] = nodes[n]
        /\ nodes'[c + 1] = [name |-> NextToken.content, args |-> << >>, parent |-> scope, position |-> Here]
    BY <1>17, WordRead
  <2>2. /\ Cardinality(heads \cup {x}) = c + 1
        /\ \A n \in 1 .. c : DirectiveAt(m, heads \cup {x}, rest, n) = DirectiveAt(m, heads, rest, n)
        /\ BlockStart(data, m, x - 1) < x =>
             DirectiveAt(m, heads \cup {x}, rest, c + 1) =
               [name |-> Spelled(data, m, x), args |-> << >>,
                parent |-> Rank(heads, BlockStart(data, m, x - 1)), position |-> PositionOf(data, x)]
    <3> HIDE DEF x, heads, rest, c
    <3> DEFINE len == Len(data)
    <3>1. /\ len \in Nat /\ heads \in SUBSET (1 .. len) /\ rest \in SUBSET (1 .. len) /\ x \in 1 .. len
          /\ \A w \in heads \cup rest : w < x
      BY <1>3, <1>4, <1>10, <1>14
    <3> HIDE DEF len
    <3>2. AddsHead(m, heads, rest, x, Cardinality(heads))
      BY <3>1, HeadAdded
    <3>3. Cardinality(heads) = c
      BY <1>4
    <3> QED BY <3>2, <3>3, Zenon DEF AddsHead
  <2>3. BlockStart(data, m, x - 1) = here
    <3> HIDE DEF x
    <3> QED BY <1>10
  <2> HIDE DEF x, heads, rest, c, here
  <2>4. \A n \in 1 .. c : nodes[n] = DirectiveAt(m, heads, rest, n)
    BY <1>4 DEF DirectivesOf
  <2>5. nodes'[c + 1] = DirectiveAt(m, heads \cup {x}, rest, c + 1)
    BY <1>5, <1>7, <1>8, <1>12, <2>1, <2>2, <2>3
  <2>6. \A n \in 1 .. c + 1 : nodes'[n] = DirectiveAt(m, heads \cup {x}, rest, n)
    <3> TAKE n \in 1 .. c + 1
    <3>1. n = c + 1 \/ n \in 1 .. c
      BY <1>4
    <3> QED BY <2>1, <2>2, <2>4, <2>5, <3>1
  <2>7. Heads(data, m, last) = heads \cup {x} /\ RestIn(m, last) = rest
    BY <1>3, <1>13, <1>17
  <2>8. nodes' = DirectivesIn(data, m, last)
    <3>1. nodes' = [n \in 1 .. c + 1 |-> nodes'[n]]
      BY <1>15, <2>1
    <3>2. nodes' = DirectivesOf(m, heads \cup {x}, rest)
      BY <2>2, <2>6, <3>1 DEF DirectivesOf
    <3> QED BY <2>7, <3>2, DirectivesAre
  <2>9. Rank(heads \cup {x}, here) = Rank(heads, here)
    <3>1. \A w \in heads : w < x
      BY <1>14
    <3> DEFINE len == Len(data)
    <3>2. len \in Nat /\ heads \in SUBSET (1 .. len)
      BY <1>3, <1>4
    <3> HIDE DEF len
    <3>3. \A i \in Nat : i < x => Rank(heads \cup {x}, i) = Rank(heads, i)
      BY <1>10, <3>1, <3>2, RankLast
    <3> QED BY <1>12, <3>3
  <2>10. scope' = Rank(Heads(data, m, last), BlockStart(data, m, last))
    BY <1>1, <1>7, <1>12, <2>7, <2>9
  <2>11. Attached(m, last)
    <3>1. x \in heads \cup {x} /\ \A j \in heads \cup {x} : j <= x
      BY <1>4, <1>10, <1>14
    <3> QED BY <1>12, <2>3, <2>7, <3>1 DEF Attached
  <2>12. Placed(m, last)
    <3> SUFFICES ASSUME NEW o \in 1 .. last, Opens(m, o)
                 PROVE  \E h \in heads \cup {x} :
                          /\ h <= o /\ \A j \in heads \cup {x} : j <= o => j <= h
                          /\ BlockStart(data, m, h - 1) = BlockStart(data, m, o - 1)
      BY <2>7 DEF Placed
    <3>1. o \in 1 .. offset /\ ~(x <= o)
      <4>1. o \notin offset + 1 .. last
        BY <1>11
      <4>2. o \in 1 .. offset
        BY <1>3, <1>10, <4>1
      <4> QED BY <1>3, <4>2 DEF x
    <3>2. PICK h \in heads : /\ h <= o /\ \A j \in heads : j <= o => j <= h
                             /\ BlockStart(data, m, h - 1) = BlockStart(data, m, o - 1)
      BY <1>7, <3>1 DEF Placed, heads
    <3> QED BY <3>1, <3>2
  <2> QED BY <1>2, <1>6, <1>8, <2>8, <2>10, <2>11, <2>12, TreeStep
<1> QED BY <1>16, <1>17

LEMMA TreeInit ==
  ASSUME ConfigurationInit
  PROVE  TreeInv
<1>1. /\ data \in Words /\ offset = 0 /\ nodes = << >> /\ scope = 0 /\ open = FALSE /\ status = "parsing"
  <2>1. TypedInv
    BY ConfigurationInitSound
  <2> QED BY <2>1 DEF ConfigurationInit, FileInit, Root, TypedInv, FileTypes
<1> DEFINE m == Modes(data)
<1>2. ModesOfData(m)
  BY <1>1, ModesAreOfData
<1> HIDE DEF m
<1>3. Heads(data, m, 0) = {}
  <2>1. \A w \in Heads(data, m, 0) : FALSE
    <3>1. 0 \in Nat
      OBVIOUS
    <3>2. \A w \in Heads(data, m, 0) : w <= 0 /\ w \in Nat /\ w # 0
      BY <1>1, <3>1, WordsUpTo
    <3> QED BY <3>2
  <2> QED BY <2>1
<1>4. Cardinality({}) = 0 /\ 1 .. 0 = {}
  BY FS_EmptySet
<1>5. nodes = DirectivesIn(data, m, 0)
  <2>1. DirectivesOf(m, {}, RestIn(m, 0)) = << >>
    BY <1>4 DEF DirectivesOf
  <2> QED BY <1>1, <1>3, <2>1, DirectivesAre
<1>6. scope = Rank(Heads(data, m, 0), BlockStart(data, m, 0))
  <2>1. \A i : {j \in {} : j <= i} = {}
    OBVIOUS
  <2> QED BY <1>1, <1>3, <1>4, <2>1 DEF Rank
<1>7. WordOver(m, 0)
  <2>1. m[0] = "plain"
    BY <1>2, ModeSteps
  <2> QED BY <2>1 DEF WordOver
<1>8. Placed(m, 0)
  BY <1>4 DEF Placed
<1> QED BY <1>1, <1>5, <1>6, <1>7, <1>8 DEF TreeInv, TreeRead, m

LEMMA EndOfDataTree ==
  ASSUME TypedInv, SyntaxInv, TreeInv, EndOfData
  PROVE  TreeInv'
<1>1. /\ status = "parsing" /\ NextToken.type = "EOD" /\ data' = data /\ nodes' = nodes /\ status' # "parsing"
  BY DEF EndOfData, Reject, lexVars, treeVars
<1>2. TreeRead(Modes(data)) /\ TokenFits(Modes(data), NextToken)
  BY <1>1, TreeFacts
<1>3. offset = Len(data)
  BY <1>1, <1>2 DEF TokenFits
<1>4. nodes' = DirectivesIn(data, Modes(data), Len(data))
  BY <1>1, <1>2, <1>3 DEF TreeRead
<1> QED BY <1>1, <1>4 DEF TreeInv

LEMMA TreeInvStep ==
  ASSUME TypedInv, SyntaxInv, TreeInv, [ConfigurationNext]_configurationVars
  PROVE  TreeInv'
<1>1. CASE Skip \/ ReadWord \/ ReadTerm \/ OpenBlock \/ CloseBlock \/ EndOfData
  BY <1>1, SkipTree, ReadWordTree, ReadTermTree, OpenBlockTree, CloseBlockTree, EndOfDataTree
<1>2. CASE SyntaxError
  <2>1. error'.reason = "syntax" /\ status' = "rejected"
    BY <1>2 DEF SyntaxError, Reject
  <2> QED BY <2>1 DEF TreeInv
<1>3. CASE CheckDirective \/ Conforming \/ Refuse \/ Configure
  <2>1. /\ status # "parsing" /\ status' # "parsing" /\ data' = data /\ nodes' = nodes
        /\ status \in {"checking", "valid"}
    BY <1>3 DEF CheckDirective, Conforming, Refuse, Configure, Reject, lexVars, treeVars
  <2>2. error.reason # "syntax"
    BY <2>1 DEF TypedInv, Steady, SchemaApplied
  <2> QED BY <2>1, <2>2 DEF TreeInv
<1>4. CASE (status = "configured" /\ UNCHANGED fileVars) \/ UNCHANGED configurationVars
  <2>1. /\ data' = data /\ offset' = offset /\ nodes' = nodes /\ scope' = scope /\ open' = open
        /\ status' = status /\ error' = error
    BY <1>4 DEF configurationVars, fileVars, lexVars, treeVars
  <2>2. CASE status = "parsing"
    <3>1. TreeRead(Modes(data))
      BY <2>2 DEF TreeInv
    <3> QED BY <2>1, <2>2, <3>1, TreeStep DEF TreeRead
  <2>3. CASE status # "parsing"
    BY <2>1, <2>3 DEF TreeInv
  <2> QED BY <2>2, <2>3
<1> QED BY <1>1, <1>2, <1>3, <1>4 DEF ConfigurationNext, FileNext

(***************************************************************************)
(* The directives are those that a text says, by the modes of its          *)
(* characters and the braces that are open, wherever it is cut into        *)
(* tokens; and the servers that are routed to are made of the directives   *)
(* in their own blocks, though getOne looks into the blocks around them.   *)
(***************************************************************************)
THEOREM WhatIsWritten == ConfigurationSpec => []ParsedAsWritten
<1>1. ConfigurationInit => SyntaxInv /\ TreeInv /\ ServedAsWritten
  <2>1. ConfigurationInit => ServedAsWritten
    BY DEF ConfigurationInit, FileInit, ServedAsWritten, Configured
  <2> QED BY <2>1, SyntaxInit, TreeInit
<1>2. /\ TypedInv /\ SyntaxInv /\ TreeInv /\ ServedAsWritten
      /\ [ConfigurationNext]_configurationVars
      => SyntaxInv' /\ TreeInv' /\ ServedAsWritten'
  BY SyntaxStep, TreeInvStep, ServedStep
<1>3. TypedInv /\ TreeInv /\ ServedAsWritten => ParsedAsWritten
  <2>1. TypedInv /\ status = "checking" => error.reason = "none"
    BY DEF TypedInv, Steady, SchemaApplied
  <2>2. TypedInv /\ status = "valid" /\ (\A s \in Search(Word("server")) : Listens(s))
          => Servers = ServersIn(nodes)
    BY ConformingFile, ServersAsWritten
  <2> QED BY <2>1, <2>2 DEF TreeInv, ServedAsWritten, ParsedAsWritten
<1> QED BY <1>1, <1>2, <1>3, AlwaysTyped, PTL DEF ConfigurationSpec

(***************************************************************************)
(* Reloads                                                                 *)
(***************************************************************************)
Load == [stage : {"reading", "read"}, version : {0} \cup Versions, startup : BOOLEAN]

\* The types of what main.js keeps.
Types ==
  /\ file \in Versions
  /\ loads \in Seq(Load)
  /\ waiting \in Nat
  /\ router \in {0} \cup Versions /\ sockjs \in {0} \cup Versions
  /\ due \in {0} \cup Versions /\ latest \in {0} \cup Versions
  /\ server \in {"starting", "up", "draining", "exited"}
  /\ signals \in Nat

IInv == Types /\ Serialized /\ InOrder /\ OneConfiguration

LEMMA VersionsAreNumbers == Versions \subseteq Nat /\ 1 \in Versions /\ 0 \notin Versions
BY ConfigReloadAssumption DEF Versions

\* The only load there is.
LEMMA OneLoad ==
  ASSUME Types, Serialized, NEW i \in DOMAIN loads
  PROVE  /\ i = 1 /\ DOMAIN loads = {1} /\ Len(loads) = 1
         /\ loads[1] \in Load
         /\ RemoveAt(loads, i) = << >>
         /\ Append(RemoveAt(loads, i), Started) = <<Started>>
<1>1. i = 1 /\ Len(loads) = 1 /\ DOMAIN loads = {1} /\ loads[1] \in Load
  <2>1. loads \in Seq(Load) /\ Len(loads) \in Nat /\ DOMAIN loads = 1 .. Len(loads)
    BY DEF Types
  <2>2. i = 1 /\ Len(loads) = 1
    BY <2>1 DEF Serialized
  <2>3. DOMAIN loads = {1}
    BY <2>1, <2>2
  <2>4. loads[1] \in Load
    BY <2>1, <2>2, ElementOfSeq
  <2> QED BY <2>2, <2>3, <2>4
<1>2. RemoveAt(loads, i) = << >>
  BY <1>1 DEF RemoveAt, Types
<1>3. Append(<< >>, Started) = <<Started>>
  OBVIOUS
<1> QED BY <1>1, <1>2, <1>3

LEMMA StartedIsLoad == Started \in Load /\ Started.stage = "reading"
BY DEF Started, Load

LEMMA InitIInv == Init => IInv
<1> SUFFICES ASSUME Init PROVE IInv
  OBVIOUS
<1>1. [Started EXCEPT !.startup = TRUE] \in Load /\ loads[1].stage = "reading"
  BY DEF Init, Started, Load
<1>2. loads \in Seq(Load) /\ Len(loads) = 1 /\ DOMAIN loads = {1}
  BY <1>1 DEF Init
<1>3. Types
  BY <1>2, VersionsAreNumbers DEF Init, Types
<1>4. Serialized
  <2>1. loads # << >> /\ \E j \in DOMAIN loads : loads[j].stage = "reading"
    <3>1. 1 \in DOMAIN loads /\ loads # << >>
      BY <1>2
    <3> QED BY <1>1, <3>1
  <2> QED BY <1>2, <2>1 DEF Serialized
<1>5. InOrder
  <2>1. \A j \in DOMAIN loads : loads[j].stage # "read"
    BY <1>1, <1>2
  <2>2. due = 1 /\ latest = 0 /\ router = 0 /\ sockjs = 0 /\ file = 1
    BY DEF Init
  <2> QED BY <2>1, <2>2 DEF InOrder
<1>6. OneConfiguration
  BY DEF Init, OneConfiguration
<1> QED BY <1>3, <1>4, <1>5, <1>6 DEF IInv

(***************************************************************************)
(* What becomes of the loads when the promise of one is settled.           *)
(***************************************************************************)
LEMMA SettledLoads ==
  ASSUME IInv, NEW i \in DOMAIN loads, Settled(i)
  PROVE  /\ waiting' \in Nat
         /\ \/ waiting = 0 /\ loads' = << >> /\ waiting' = 0
            \/ waiting > 0 /\ loads' = <<Started>>
BY OneLoad DEF IInv, Types, Settled
\* The two sequences of loads that a step may leave.
LEMMA OneStarted ==
  ASSUME NEW s, s = <<Started>>
  PROVE  /\ s \in Seq(Load) /\ s # << >> /\ Len(s) <= 1
         /\ \E j \in DOMAIN s : s[j].stage = "reading"
         /\ \A j \in DOMAIN s : s[j].stage # "read"
<1>1. s \in Seq(Load) /\ Len(s) = 1 /\ DOMAIN s = {1} /\ s[1] = Started
  BY StartedIsLoad
<1>2. s # << >> /\ 1 \in DOMAIN s /\ s[1].stage = "reading"
  BY <1>1, StartedIsLoad
<1> QED BY <1>1, <1>2

LEMMA NoneStarted ==
  ASSUME NEW s, s = << >>
  PROVE  s \in Seq(Load) /\ Len(s) <= 1 /\ DOMAIN s = {}
OBVIOUS

\* A load that ends leaves what follows from it in order.
LEMMA SettledStep ==
  ASSUME IInv, NEW i \in DOMAIN loads, loads[i].stage = "read", Settled(i),
         server' \in {"starting", "up", "draining", "exited"},
         server = "exited" => server' = "exited",
         UNCHANGED <<due, latest>>
  PROVE  /\ waiting' \in Nat /\ loads' \in Seq(Load)
         /\ Serialized'
         /\ \A j \in DOMAIN loads' : loads'[j].stage # "read"
<1>1. CASE waiting = 0 /\ loads' = << >> /\ waiting' = 0
  <2>1. server # "exited" => ~(latest < due)
    <3>1. i = 1 /\ DOMAIN loads = {1}
      BY OneLoad DEF IInv
    <3> QED BY <1>1, <3>1 DEF IInv, Serialized
  <2>2. loads' \in Seq(Load) /\ Len(loads') <= 1 /\ DOMAIN loads' = {}
    BY <1>1, NoneStarted
  <2> QED BY <1>1, <2>1, <2>2 DEF Serialized
<1>2. CASE waiting > 0 /\ loads' = <<Started>>
  <2>1. /\ loads' \in Seq(Load) /\ loads' # << >> /\ Len(loads') <= 1
        /\ \E j \in DOMAIN loads' : loads'[j].stage = "reading"
        /\ \A j \in DOMAIN loads' : loads'[j].stage # "read"
    BY <1>2, OneStarted
  <2>2. waiting' \in Nat
    BY SettledLoads
  <2> QED BY <2>1, <2>2 DEF Serialized
<1> QED BY <1>1, <1>2, SettledLoads

\* The process ends, and with it every load.
LEMMA ExitedStep ==
  ASSUME Exited
  PROVE  /\ waiting' \in Nat /\ loads' \in Seq(Load) /\ server' = "exited"
         /\ Serialized'
         /\ \A j \in DOMAIN loads' : loads'[j].stage # "read"
<1>1. loads' \in Seq(Load) /\ Len(loads') <= 1 /\ DOMAIN loads' = {}
  BY NoneStarted DEF Exited
<1> QED BY <1>1 DEF Exited, Serialized

LEMMA EditIInv ==
  ASSUME IInv, Edit
  PROVE  IInv'
<1>1. file \in Nat /\ file' = file + 1 /\ file' \in Versions
  BY ConfigReloadAssumption, VersionsAreNumbers DEF Edit, IInv, Types, Versions
<1>2. due \in Nat /\ latest \in Nat
  BY VersionsAreNumbers DEF IInv, Types
<1>3. UNCHANGED <<wanted, loads, waiting, router, sockjs, server, signals, due, latest>>
  BY DEF Edit, listeners
<1> QED BY <1>1, <1>2, <1>3 DEF IInv, Types, Serialized, InOrder, OneConfiguration

LEMMA SighupIInv ==
  ASSUME IInv, Sighup
  PROVE  IInv'
<1>1. UNCHANGED <<wanted, file, router, sockjs, server, latest>> /\ due' = file
      /\ signals' = signals + 1
  BY DEF Sighup, listeners
<1>2. /\ waiting' \in Nat /\ loads' \in Seq(Load) /\ Len(loads') <= 1 /\ loads' # << >>
      /\ waiting' > 0 \/ \E j \in DOMAIN loads' : loads'[j].stage = "reading"
      /\ \A j \in DOMAIN loads' :
           loads'[j].stage = "read" => loads'[j].version = latest /\ latest # 0
  <2>1. CASE loads = << >>
    <3>1. loads' = <<Started>> /\ waiting' = waiting
      BY <2>1 DEF Sighup, LoadConfig
    <3> QED BY <3>1, OneStarted DEF IInv, Types
  <2>2. CASE loads # << >>
    BY <2>2 DEF Sighup, LoadConfig, IInv, Types, Serialized, InOrder
  <2> QED BY <2>1, <2>2
<1>3. file \in Nat
  BY VersionsAreNumbers DEF IInv, Types
<1>4. Types'
  BY <1>1, <1>2 DEF IInv, Types
<1>5. Serialized'
  BY <1>1, <1>2 DEF Serialized
<1>6. InOrder' /\ OneConfiguration'
  BY <1>1, <1>2, <1>3 DEF IInv, InOrder, OneConfiguration
<1> QED BY <1>4, <1>5, <1>6 DEF IInv

LEMMA ReadIInv ==
  ASSUME IInv, NEW i \in DOMAIN loads, Read(i)
  PROVE  IInv'
<1>1. UNCHANGED <<wanted, file, waiting, router, sockjs, server, signals, due>> /\ latest' = file
      /\ loads' = [loads EXCEPT ![i].stage = "read", ![i].version = file]
  BY DEF Read, listeners
<1>2. i = 1 /\ DOMAIN loads = {1} /\ Len(loads) = 1 /\ loads[1] \in Load /\ loads \in Seq(Load)
  BY OneLoad DEF IInv, Types
<1>3. file \in Versions /\ file \in Nat /\ file # 0
  BY VersionsAreNumbers DEF IInv, Types
<1>4. [loads[1] EXCEPT !.stage = "read", !.version = file] \in Load
  BY <1>2, <1>3 DEF Load
<1>5. /\ loads' \in Seq(Load) /\ Len(loads') = 1 /\ DOMAIN loads' = {1} /\ loads' # << >>
      /\ loads'[1] = [loads[1] EXCEPT !.stage = "read", !.version = file]
  <2> DEFINE read == [loads[1] EXCEPT !.stage = "read", !.version = file]
  <2>1. loads' = [loads EXCEPT ![1] = read]
    BY <1>1, <1>2
  <2>2. read \in Load
    BY <1>4
  <2>3. loads' \in Seq(Load) /\ Len(loads') = Len(loads) /\ loads'[1] = read
    <3> HIDE DEF read
    <3> QED BY <1>2, <2>1, <2>2, ExceptSeq
  <2>4. DOMAIN loads' = {1} /\ loads' # << >>
    BY <1>2, <2>3
  <2> QED BY <1>2, <2>3, <2>4
<1>6. loads'[1].version = file
  BY <1>2, <1>5 DEF Load
<1>7. Types'
  BY <1>1, <1>3, <1>5 DEF IInv, Types
<1>8. /\ due <= file /\ router <= file /\ sockjs <= file
      /\ due \in Nat /\ router \in Nat /\ sockjs \in Nat /\ latest \in Nat
  <2>1. due \in Nat /\ router \in Nat /\ sockjs \in Nat /\ latest \in Nat
    BY VersionsAreNumbers DEF IInv, Types
  <2>2. due <= file /\ latest <= file /\ router <= latest /\ sockjs <= latest
    BY DEF IInv, InOrder
  <2> QED BY <1>3, <2>1, <2>2
<1>9. Serialized' /\ InOrder'
  BY <1>1, <1>3, <1>5, <1>6, <1>8 DEF Serialized, InOrder
<1>10. OneConfiguration'
  BY <1>1 DEF IInv, OneConfiguration
<1> QED BY <1>7, <1>9, <1>10 DEF IInv

LEMMA LoadFailsIInv ==
  ASSUME IInv, NEW i \in DOMAIN loads, LoadFails(i)
  PROVE  IInv'
<1>1. UNCHANGED <<wanted, file, router, sockjs, signals, due, latest>>
  BY DEF LoadFails, listeners
<1>2. /\ waiting' \in Nat /\ loads' \in Seq(Load) /\ Serialized'
      /\ \A j \in DOMAIN loads' : loads'[j].stage # "read"
      /\ server' \in {server, "exited"}
  <2>1. CASE Exited
    BY <2>1, ExitedStep
  <2>2. CASE Settled(i) /\ UNCHANGED server
    <3>1. loads[i].stage = "read" /\ server # "exited"
          /\ server' \in {"starting", "up", "draining", "exited"}
      BY <2>2 DEF LoadFails, Ready, IInv, Types
    <3> QED BY <1>1, <2>2, <3>1, SettledStep
  <2> QED BY <2>1, <2>2 DEF LoadFails, Failed
<1>3. Types'
  BY <1>1, <1>2 DEF IInv, Types
<1>4. InOrder' /\ OneConfiguration'
  BY <1>1, <1>2 DEF IInv, InOrder, OneConfiguration
<1> QED BY <1>2, <1>3, <1>4 DEF IInv

\* A load is applied: all of it, or without SockJS if setAddresses throws, for
\* which there is an address that is wanted and has a bad port.
LEMMA LoadAppliedIInv ==
  ASSUME IInv, NEW i \in DOMAIN loads, LoadApplied(i)
  PROVE  IInv'
<1> DEFINE v == loads[i].version
           addresses == Contents[v].addresses
<1>1. /\ v = latest /\ latest # 0 /\ latest \in Versions
      /\ loads[i].stage = "read" /\ server # "exited"
  BY DEF LoadApplied, Ready, IInv, Types, InOrder
<1>2. router' = latest /\ UNCHANGED <<file, signals, due, latest>> /\ wanted' = ToSet(addresses)
  <2>1. /\ router' = v /\ UNCHANGED <<file, signals, due, latest>>
        /\ L!SetAddresses(addresses)
    BY DEF LoadApplied
  <2>2. wanted' = ToSet(addresses)
    BY <2>1 DEF L!SetAddresses, L!ToSet, ToSet
  <2> QED BY <1>1, <2>1, <2>2
<1>3. \/ L!Throws(addresses) /\ Failed(i) /\ UNCHANGED sockjs
      \/ ~L!Throws(addresses) /\ sockjs' = v /\ UpIfStarting /\ Settled(i)
  BY DEF LoadApplied
<1>4. server' \in {"starting", "up", "draining", "exited"} /\ (sockjs' = sockjs \/ sockjs' = latest)
  BY <1>1, <1>3 DEF Failed, Exited, UpIfStarting, IInv, Types
<1>5. /\ waiting' \in Nat /\ loads' \in Seq(Load) /\ Serialized'
      /\ \A j \in DOMAIN loads' : loads'[j].stage # "read"
  <2>1. CASE Exited
    BY <2>1, ExitedStep
  <2>2. CASE Settled(i)
    BY <1>1, <1>2, <1>4, <2>2, SettledStep
  <2> QED BY <1>3, <2>1, <2>2 DEF Failed
<1>6. Types'
  BY <1>1, <1>2, <1>4, <1>5 DEF IInv, Types
<1>7. InOrder'
  <2>1. due <= file /\ latest <= file /\ sockjs <= latest /\ latest \in Nat
    BY <1>1, VersionsAreNumbers DEF IInv, InOrder
  <2> QED BY <1>2, <1>4, <1>5, <2>1 DEF InOrder
<1>8. OneConfiguration'
  <2> SUFFICES ASSUME server' = "up"
               PROVE  /\ router' # 0
                      /\ wanted' = ToSet(Contents[router'].addresses)
                      /\ sockjs' # router' => wanted' \cap BadPorts # {}
    BY DEF OneConfiguration
  <2>1. L!Throws(addresses) => wanted' \cap BadPorts # {}
    BY <1>2 DEF L!Throws, L!ToSet, ToSet
  <2>2. sockjs' # router' => L!Throws(addresses)
    BY <1>1, <1>2, <1>3
  <2> QED BY <1>1, <1>2, <2>1, <2>2
<1> QED BY <1>5, <1>6, <1>7, <1>8 DEF IInv

\* A shutdown, and what happens to the listeners.
LEMMA OtherIInv ==
  ASSUME IInv, GracefulShutdown \/ Exit \/ ListenerEvent \/ UNCHANGED vars
  PROVE  IInv'
<1>1. CASE GracefulShutdown
  BY <1>1 DEF GracefulShutdown, IInv, Types, Serialized, InOrder, OneConfiguration
<1>2. CASE Exit
  <2>1. /\ waiting' \in Nat /\ loads' \in Seq(Load) /\ server' = "exited" /\ Serialized'
        /\ \A j \in DOMAIN loads' : loads'[j].stage # "read"
    BY <1>2, ExitedStep DEF Exit
  <2>2. UNCHANGED <<file, router, sockjs, signals, due, latest>>
    BY <1>2 DEF Exit
  <2> QED BY <2>1, <2>2 DEF IInv, Types, InOrder, OneConfiguration
<1>3. CASE ListenerEvent \/ UNCHANGED vars
  <2>1. UNCHANGED wanted
    BY <1>3 DEF ListenerEvent, L!CloseEvent, L!OtherProcess, vars, listeners
  <2>2. UNCHANGED <<file, loads, waiting, router, sockjs, server, signals, due, latest>>
    BY <1>3 DEF ListenerEvent, vars
  <2> QED BY <2>1, <2>2 DEF IInv, Types, Serialized, InOrder, OneConfiguration
<1> QED BY <1>1, <1>2, <1>3

LEMMA StepIInv == IInv /\ [Next]_vars => IInv'
BY EditIInv, SighupIInv, ReadIInv, LoadFailsIInv, LoadAppliedIInv, OtherIInv DEF Next

THEOREM InductiveInvariant == Spec => []IInv
BY InitIInv, StepIInv, PTL DEF Spec

\* A signal that arrives at any moment of a load leads to another that reads
\* the file after it (qutil.serialized).
THEOREM NoReloadIsLost == Spec => []NoLostReload
<1>1. IInv => NoLostReload
  <2> SUFFICES ASSUME IInv, server # "exited", loads = << >> PROVE latest >= due
    BY DEF NoLostReload
  <2>1. waiting = 0 /\ DOMAIN loads = {}
    BY DEF IInv, Serialized
  <2>2. ~(latest < due)
    BY <2>1 DEF IInv, Serialized
  <2>3. latest \in Nat /\ due \in Nat
    BY VersionsAreNumbers DEF IInv, Types
  <2> QED BY <2>2, <2>3
<1> QED BY <1>1, InductiveInvariant, PTL

\* Requests are routed, listened for and served by one configuration, unless
\* setAddresses threw for a port out of range.
THEOREM ConfigurationIsOne == Spec => []OneConfiguration
<1>1. IInv => OneConfiguration
  BY DEF IInv
<1> QED BY <1>1, InductiveInvariant, PTL

\* A step changes the configuration to that of the load, which was read last.
LEMMA NotOlder ==
  ASSUME IInv, Next
  PROVE  router' >= router /\ sockjs' >= sockjs
<1>1. /\ router \in Nat /\ sockjs \in Nat /\ latest \in Nat
      /\ router <= latest /\ sockjs <= latest
  BY VersionsAreNumbers DEF IInv, Types, InOrder
<1>2. CASE UNCHANGED <<router, sockjs>>
  BY <1>1, <1>2
<1>3. ASSUME NEW i \in DOMAIN loads, LoadApplied(i)
      PROVE  router' >= router /\ sockjs' >= sockjs
  <2>1. router' = latest /\ (sockjs' = latest \/ sockjs' = sockjs)
    BY <1>3 DEF LoadApplied, Ready, IInv, InOrder
  <2> QED BY <1>1, <2>1
<1> QED BY <1>2, <1>3 DEF Next, Edit, Sighup, Read, LoadFails, GracefulShutdown, Exit, ListenerEvent

\* However signals, edits and loads are interleaved, an older configuration
\* never replaces a newer one.
THEOREM NothingOlder == Spec => NeverOlder
<1>1. IInv /\ [Next]_vars => [router' >= router /\ sockjs' >= sockjs]_vars
  BY NotOlder
<1> QED BY <1>1, InductiveInvariant, PTL DEF Spec, NeverOlder

-----------------------------------------------------------------------------
(* The listeners                                                           *)

\* What opening has done after each position of the passes.
OpenNext(addrs, n, st) ==
  IF L!ToOpen(addrs, n) /\ L!Reached(addrs, n) THEN L!OpenOne(st, L!Passes(addrs)[n]) ELSE st

OpensInTurn(f, start, addrs, len) ==
  f = [n \in 0 .. len |-> IF n = 0 THEN start ELSE OpenNext(addrs, n, f[n - 1])]

LEMMA OpeningExists ==
  ASSUME NEW start, NEW addrs, NEW len \in Nat
  PROVE  \E f : OpensInTurn(f, start, addrs, len)
<1> DEFINE Bad == {k \in Nat : ~ \E f : OpensInTurn(f, start, addrs, k)}
<1>1. SUFFICES ASSUME Bad # {} PROVE FALSE
  OBVIOUS
<1>2. PICK k \in Bad : \A j \in Bad : k <= j
  BY <1>1, NumberMin
<1>3. CASE k = 0
  <2> DEFINE f == [n \in 0 .. 0 |-> start]
  <2>1. OpensInTurn(f, start, addrs, 0)
    BY DEF OpensInTurn
  <2> QED BY <1>2, <1>3, <2>1
<1>4. CASE k # 0
  <2>1. k \in Nat /\ k - 1 \in Nat /\ k - 1 \notin Bad
    BY <1>2, <1>4
  <2>2. PICK f : OpensInTurn(f, start, addrs, k - 1)
    BY <2>1
  <2> DEFINE g == [n \in 0 .. k |-> IF n = k THEN OpenNext(addrs, k, f[k - 1]) ELSE f[n]]
  <2>3. ASSUME NEW n \in 0 .. k
        PROVE  g[n] = IF n = 0 THEN start ELSE OpenNext(addrs, n, g[n - 1])
    <3>1. CASE n = k
      <4>1. g[n] = OpenNext(addrs, k, f[k - 1]) /\ g[k - 1] = f[k - 1] /\ n # 0
        BY <2>1, <3>1, <1>4
      <4> QED BY <4>1, <3>1
    <3>2. CASE n # k
      <4>1. n \in 0 .. (k - 1) /\ g[n] = f[n] 
        BY <2>1, <3>2
      <4>2. n # 0 => g[n - 1] = f[n - 1]
        BY <2>1, <3>2
      <4>3. f[n] = IF n = 0 THEN start ELSE OpenNext(addrs, n, f[n - 1])
        BY <2>2, <4>1 DEF OpensInTurn
      <4> QED BY <4>1, <4>2, <4>3
    <3> QED BY <3>1, <3>2
  <2>4. OpensInTurn(g, start, addrs, k)
    <3> HIDE DEF g
    <3>1. g = [n \in 0 .. k |-> g[n]]
      BY DEF g
    <3> QED BY <2>3, <3>1 DEF OpensInTurn
  <2> QED BY <1>2, <2>1, <2>4
<1> QED BY <1>3, <1>4

LEMMA OpenAllInTurn ==
  ASSUME NEW start, NEW addrs, Len(addrs) \in Nat
  PROVE  \E f : OpensInTurn(f, start, addrs, 2 * Len(addrs)) /\ L!OpenAll(start, addrs) = f[2 * Len(addrs)]
<1> DEFINE f == CHOOSE g : OpensInTurn(g, start, addrs, 2 * Len(addrs))
<1>1. OpensInTurn(f, start, addrs, 2 * Len(addrs))
  BY OpeningExists
<1>2. L!OpenAll(start, addrs) = f[2 * Len(addrs)]
  BY DEF L!OpenAll, OpensInTurn, OpenNext
<1> QED BY <1>1, <1>2

HttpServer == [key : Addresses, state : L!ServerStates]

\* What opening works on.
Tables == [servers : Seq(HttpServer), table : [Addresses -> Nat], refused : SUBSET Addresses]

\* The table holds the listeners of st and no others.
HoldsListeners(st) ==
  /\ \A a \in Addresses : st.table[a] <= Len(st.servers)
  /\ \A i \in DOMAIN st.servers :
       (st.servers[i].state = "listening") <=> (st.table[st.servers[i].key] = i)
  /\ \A a \in Addresses : st.table[a] # 0 => st.servers[st.table[a]].key = a

\* What has been opened since start is wanted, and is refused for a cause.
OpenedFor(st, start, goal) ==
  /\ \A a \in Addresses : st.table[a] # 0 => a \in goal
  /\ \A a \in Addresses : start.table[a] # 0 => st.table[a] = start.table[a]
  /\ st.refused \subseteq goal
  /\ \A a \in st.refused :
       /\ st.table[a] = 0
       /\ \E b \in foreign \cup (goal \ {a}) : L!Conflict(a, b)

Decided(st, a) == st.table[a] # 0 \/ a \in st.refused

LEMMA ListeningKeys ==
  ASSUME NEW st \in Tables, HoldsListeners(st)
  PROVE  L!Listening(st.servers) = {a \in Addresses : st.table[a] # 0}
<1>1. st.servers \in Seq(HttpServer) /\ DOMAIN st.servers = 1 .. Len(st.servers) /\ Len(st.servers) \in Nat
      /\ st.table \in [Addresses -> Nat]
  BY DEF Tables
<1>2. ASSUME NEW a \in L!Listening(st.servers) PROVE a \in Addresses /\ st.table[a] # 0
  <2>1. PICK i \in DOMAIN st.servers : st.servers[i].state = "listening" /\ a = st.servers[i].key
    BY <1>2 DEF L!Listening
  <2>2. st.servers[i] \in HttpServer /\ i # 0
    BY <1>1, ElementOfSeq
  <2> QED BY <2>1, <2>2 DEF HoldsListeners, HttpServer
<1>3. ASSUME NEW a \in Addresses, st.table[a] # 0 PROVE a \in L!Listening(st.servers)
  <2>1. st.table[a] \in DOMAIN st.servers /\ st.servers[st.table[a]].key = a
    BY <1>1, <1>3 DEF HoldsListeners
  <2>2. st.servers[st.table[a]].state = "listening"
    BY <2>1 DEF HoldsListeners
  <2> QED BY <2>1, <2>2 DEF L!Listening
<1> QED BY <1>2, <1>3

\* One server more.
LEMMA OpenOneKeeps ==
  ASSUME NEW st \in Tables, NEW start \in Tables, NEW goal \in SUBSET Addresses, NEW a \in goal,
         HoldsListeners(st), OpenedFor(st, start, goal)
  PROVE  LET next == L!OpenOne(st, a)
         IN  /\ next \in Tables /\ HoldsListeners(next) /\ OpenedFor(next, start, goal)
             /\ Decided(next, a)
             /\ \A b \in Addresses : Decided(st, b) => Decided(next, b)
<1> DEFINE next == L!OpenOne(st, a)
           n == Len(st.servers)
<1>1. /\ st.servers \in Seq(HttpServer) /\ DOMAIN st.servers = 1 .. n /\ n \in Nat
      /\ st.table \in [Addresses -> Nat] /\ st.refused \in SUBSET Addresses /\ a \in Addresses
      /\ st = [servers |-> st.servers, table |-> st.table, refused |-> st.refused]
  BY DEF Tables
<1>2. CASE Decided(st, a)
  <2>1. next = st
    BY <1>2 DEF Decided, L!OpenOne
  <2> QED BY <1>2, <2>1
<1>3. CASE ~Decided(st, a) /\ L!Busy(a, st.servers)
  <2> DEFINE s == [key |-> a, state |-> "failed"]
  <2>1. /\ next.servers = Append(st.servers, s) /\ next.table = st.table
        /\ next.refused = st.refused \cup {a}
        /\ next = [servers |-> next.servers, table |-> next.table, refused |-> next.refused]
    BY <1>1, <1>3 DEF Decided, L!OpenOne
  <2>2. s \in HttpServer
    BY <1>1 DEF HttpServer, L!ServerStates
  <2>3. /\ next.servers \in Seq(HttpServer) /\ Len(next.servers) = n + 1
        /\ DOMAIN next.servers = 1 .. (n + 1)
        /\ \A i \in 1 .. n : next.servers[i] = st.servers[i]
        /\ next.servers[n + 1] = s
    <3> HIDE DEF s, next
    <3> QED BY <1>1, <2>1, <2>2, AppendProperties
  <2>4. next \in Tables
    <3> HIDE DEF next
    <3> QED BY <1>1, <2>1, <2>3 DEF Tables
  <2>5. HoldsListeners(next)
    <3> HIDE DEF next
    <3>1. \A b \in Addresses : next.table[b] <= n /\ next.table[b] \in Nat
      BY <1>1, <2>1 DEF HoldsListeners
    <3>2. ASSUME NEW i \in DOMAIN next.servers
          PROVE  (next.servers[i].state = "listening") <=> (next.table[next.servers[i].key] = i)
      <4>1. CASE i \in 1 .. n
        BY <1>1, <2>1, <2>3, <4>1 DEF HoldsListeners
      <4>2. CASE i = n + 1
        BY <1>1, <1>3, <2>1, <2>3, <3>1, <4>2 DEF Decided
      <4> QED BY <2>3, <4>1, <4>2
    <3>3. ASSUME NEW b \in Addresses, next.table[b] # 0 PROVE next.servers[next.table[b]].key = b
      BY <1>1, <2>1, <2>3, <3>1, <3>3 DEF HoldsListeners
    <3> QED BY <2>3, <3>1, <3>2, <3>3 DEF HoldsListeners
  <2>6. OpenedFor(next, start, goal)
    <3> HIDE DEF next
    <3>1. PICK b \in L!Listening(st.servers) \cup foreign : L!Conflict(a, b)
      BY <1>3 DEF L!Busy
    <3>2. b \in L!Listening(st.servers) => b \in goal \ {a}
      BY <1>3, ListeningKeys DEF OpenedFor, Decided
    <3>3. b \in foreign \cup (goal \ {a})
      BY <3>2
    <3>4. st.table[a] = 0
      BY <1>3 DEF Decided
    <3> QED BY <2>1, <3>1, <3>3, <3>4 DEF OpenedFor
  <2>7. Decided(next, a) /\ \A b \in Addresses : Decided(st, b) => Decided(next, b)
    <3> HIDE DEF next
    <3> QED BY <2>1 DEF Decided
  <2> QED BY <2>4, <2>5, <2>6, <2>7
<1>4. CASE ~Decided(st, a) /\ ~L!Busy(a, st.servers)
  <2> DEFINE s == [key |-> a, state |-> "listening"]
  <2>1. /\ next.servers = Append(st.servers, s) /\ next.table = [st.table EXCEPT ![a] = n + 1]
        /\ next.refused = st.refused
        /\ next = [servers |-> next.servers, table |-> next.table, refused |-> next.refused]
    BY <1>1, <1>4 DEF Decided, L!OpenOne
  <2>2. s \in HttpServer
    BY <1>1 DEF HttpServer, L!ServerStates
  <2>3. /\ next.servers \in Seq(HttpServer) /\ Len(next.servers) = n + 1
        /\ DOMAIN next.servers = 1 .. (n + 1)
        /\ \A i \in 1 .. n : next.servers[i] = st.servers[i]
        /\ next.servers[n + 1] = s
    <3> HIDE DEF s, next
    <3> QED BY <1>1, <2>1, <2>2, AppendProperties
  <2>4. next \in Tables
    <3> HIDE DEF next
    <3>1. next.table \in [Addresses -> Nat] /\ next.refused \in SUBSET Addresses
      BY <1>1, <2>1
    <3> QED BY <2>1, <2>3, <3>1 DEF Tables
  <2>5. HoldsListeners(next)
    <3> HIDE DEF next
    <3>1. /\ \A b \in Addresses : st.table[b] <= n /\ st.table[b] \in Nat
          /\ \A b \in Addresses : next.table[b] = IF b = a THEN n + 1 ELSE st.table[b]
      BY <1>1, <2>1 DEF HoldsListeners
    <3>2. ASSUME NEW i \in DOMAIN next.servers
          PROVE  (next.servers[i].state = "listening") <=> (next.table[next.servers[i].key] = i)
      <4>1. CASE i \in 1 .. n
        <5>1. st.servers[i].key \in Addresses
          <6>1. st.servers[i] \in HttpServer
            BY <1>1, <4>1, ElementOfSeq
          <6> QED BY <6>1 DEF HttpServer
        <5>2. (st.servers[i].state = "listening") <=> (st.table[st.servers[i].key] = i)
          BY <1>1, <4>1 DEF HoldsListeners
        <5>3. st.table[a] = 0 /\ i # 0 /\ i # n + 1 /\ next.servers[i] = st.servers[i]
          BY <1>1, <1>4, <2>3, <4>1 DEF Decided
        <5> QED BY <3>1, <5>1, <5>2, <5>3
      <4>2. CASE i = n + 1
        BY <1>1, <2>3, <3>1, <4>2
      <4> QED BY <2>3, <4>1, <4>2
    <3>3. ASSUME NEW b \in Addresses, next.table[b] # 0 PROVE next.servers[next.table[b]].key = b
      <4>1. CASE b = a
        BY <1>1, <2>3, <3>1, <4>1
      <4>2. CASE b # a
        <5>1. st.table[b] \in 1 .. n /\ next.table[b] = st.table[b] /\ st.servers[st.table[b]].key = b
          BY <1>1, <3>1, <3>3, <4>2 DEF HoldsListeners
        <5> QED BY <2>3, <5>1
      <4> QED BY <4>1, <4>2
    <3>4. \A b \in Addresses : next.table[b] <= Len(next.servers)
      BY <1>1, <2>3, <3>1
    <3> QED BY <3>2, <3>3, <3>4 DEF HoldsListeners
  <2>6. OpenedFor(next, start, goal)
    <3> HIDE DEF next
    <3>1. st.table[a] = 0 /\ a \notin st.refused
      BY <1>4 DEF Decided
    <3>2. \A b \in Addresses : next.table[b] = IF b = a THEN n + 1 ELSE st.table[b]
      BY <1>1, <2>1
    <3>3. \A b \in Addresses : start.table[b] # 0 => b # a
      BY <3>1 DEF OpenedFor
    <3>4. \A b \in st.refused : b \in Addresses /\ b # a
      BY <1>1, <3>1
    <3> QED BY <2>1, <3>2, <3>3, <3>4 DEF OpenedFor
  <2>7. Decided(next, a) /\ \A b \in Addresses : Decided(st, b) => Decided(next, b)
    <3> HIDE DEF next
    <3>1. \A b \in Addresses : next.table[b] = IF b = a THEN n + 1 ELSE st.table[b]
      BY <1>1, <2>1
    <3>2. n + 1 # 0
      BY <1>1
    <3> QED BY <1>1, <2>1, <3>1, <3>2 DEF Decided
  <2> QED BY <2>4, <2>5, <2>6, <2>7
<1> QED BY <1>2, <1>3, <1>4

\* All of them.
LEMMA OpenAllKeeps ==
  ASSUME NEW start \in Tables, NEW addrs \in Seq(Addresses),
         HoldsListeners(start), OpenedFor(start, start, ToSet(addrs))
  PROVE  LET last == L!OpenAll(start, addrs)
         IN  /\ last \in Tables /\ HoldsListeners(last) /\ OpenedFor(last, start, ToSet(addrs))
             /\ \A n \in 1 .. 2 * Len(addrs) :
                  L!ToOpen(addrs, n) /\ L!Reached(addrs, n) => Decided(last, L!Passes(addrs)[n])
<1> DEFINE len == 2 * Len(addrs)
           goal == ToSet(addrs)
           passes == L!Passes(addrs)
<1>1. /\ Len(addrs) \in Nat /\ len \in Nat /\ DOMAIN addrs = 1 .. Len(addrs)
      /\ \A n \in 1 .. Len(addrs) : addrs[n] \in Addresses /\ addrs[n] \in goal
  BY ElementOfSeq DEF ToSet
<1>2. \A n \in 1 .. len : passes[n] \in goal /\ passes[n] \in Addresses
  <2> SUFFICES ASSUME NEW n \in 1 .. len PROVE passes[n] \in goal /\ passes[n] \in Addresses
    OBVIOUS
  <2>1. n <= Len(addrs) => passes[n] = addrs[n]
    BY <1>1, ConcatProperties DEF L!Passes
  <2>2. n > Len(addrs) => passes[n] = addrs[n - Len(addrs)] /\ n - Len(addrs) \in 1 .. Len(addrs)
    BY <1>1, ConcatProperties DEF L!Passes
  <2> QED BY <1>1, <2>1, <2>2
<1>3. goal \in SUBSET Addresses
  BY <1>1 DEF ToSet
<1>4. PICK f : OpensInTurn(f, start, addrs, len) /\ L!OpenAll(start, addrs) = f[len]
  BY <1>1, OpenAllInTurn
<1> DEFINE Good(n) ==
             /\ f[n] \in Tables /\ HoldsListeners(f[n]) /\ OpenedFor(f[n], start, goal)
             /\ \A m \in 1 .. n :
                  L!ToOpen(addrs, m) /\ L!Reached(addrs, m) => Decided(f[n], passes[m])
           Bad == {n \in 0 .. len : ~Good(n)}
<1>5. f[0] = start /\ \A n \in 1 .. len : f[n] = OpenNext(addrs, n, f[n - 1])
  BY <1>1, <1>4 DEF OpensInTurn
<1>6. Good(0)
  BY <1>5
<1>7. ASSUME NEW n \in 1 .. len, Good(n - 1) PROVE Good(n)
  <2>1. n - 1 \in Nat /\ passes[n] \in goal /\ passes[n] \in Addresses
        /\ \A m \in 1 .. n : m # n => m \in 1 .. (n - 1)
    BY <1>1, <1>2
  <2>2. \A m \in 1 .. n : passes[m] \in Addresses
    BY <1>1, <1>2
  <2>3. CASE L!ToOpen(addrs, n) /\ L!Reached(addrs, n)
    <3>1. f[n] = L!OpenOne(f[n - 1], passes[n])
      BY <1>5, <2>3 DEF OpenNext
    <3>2. /\ f[n] \in Tables /\ HoldsListeners(f[n]) /\ OpenedFor(f[n], start, goal)
          /\ Decided(f[n], passes[n])
          /\ \A b \in Addresses : Decided(f[n - 1], b) => Decided(f[n], b)
      <4> HIDE DEF goal, passes
      <4> QED BY <1>3, <1>7, <2>1, <3>1, OpenOneKeeps
    <3> QED BY <1>7, <2>1, <2>2, <3>2
  <2>4. CASE ~(L!ToOpen(addrs, n) /\ L!Reached(addrs, n))
    <3>1. f[n] = f[n - 1]
      BY <1>5, <2>4 DEF OpenNext
    <3> QED BY <1>7, <2>1, <2>4, <3>1
  <2> QED BY <2>3, <2>4
<1>8. Bad = {}
  <2> SUFFICES ASSUME Bad # {} PROVE FALSE
    OBVIOUS
  <2>1. Bad \in SUBSET Nat
    BY <1>1
  <2> HIDE DEF Good
  <2>2. PICK k \in Bad : \A j \in Bad : k <= j
    <3> HIDE DEF Bad
    <3> QED BY <2>1, NumberMin
  <2>3. k # 0 /\ k \in 1 .. len /\ k - 1 \in 0 .. len /\ k - 1 \notin Bad
    BY <1>1, <1>6, <2>2
  <2> QED BY <1>7, <2>2, <2>3
<1>9. len \in 0 .. len
  BY <1>1
<1> QED
  BY <1>4, <1>8, <1>9

ListenersSound == L!TypeOK /\ L!TableHoldsListeners /\ L!ListensAsConfigured

\* The state of the listeners as opening sees it.
Present == [servers |-> servers, table |-> table, refused |-> refused]

LEMMA PresentTables ==
  ASSUME ListenersSound
  PROVE  /\ servers \in Seq(HttpServer) /\ DOMAIN servers = 1 .. Len(servers) /\ Len(servers) \in Nat
         /\ table \in [Addresses -> Nat]
         /\ \A a \in Addresses : table[a] \in 0 .. Len(servers)
         /\ Present \in Tables /\ HoldsListeners(Present)
         /\ L!Listening(servers) = L!Keys(table)
<1>1. /\ servers \in Seq(HttpServer) /\ DOMAIN servers = 1 .. Len(servers) /\ Len(servers) \in Nat
      /\ table \in [Addresses -> Nat] /\ \A a \in Addresses : table[a] \in 0 .. Len(servers)
      /\ refused \in SUBSET Addresses
  <2>1. servers \in Seq(HttpServer) /\ refused \in SUBSET Addresses
        /\ table \in [Addresses -> 0 .. Len(servers)]
    BY DEF ListenersSound, L!TypeOK, HttpServer
  <2> QED BY <2>1
<1>2. Present \in Tables
  BY <1>1 DEF Present, Tables
<1>3. HoldsListeners(Present)
  BY <1>1 DEF HoldsListeners, Present, ListenersSound, L!TableHoldsListeners, L!Keys
<1>4. L!Listening(Present.servers) = {a \in Addresses : Present.table[a] # 0}
  BY <1>2, <1>3, ListeningKeys
<1> QED BY <1>1, <1>2, <1>3, <1>4 DEF Present, L!Keys

\* What closing leaves.
LEMMA ClosedTables ==
  ASSUME ListenersSound, NEW keys \in SUBSET L!Keys(table)
  PROVE  LET closed == [servers |-> L!ClosedServers(keys), table |-> L!ClosedTable(keys), refused |-> {}]
         IN  closed \in Tables /\ HoldsListeners(closed) /\ Len(closed.servers) = Len(servers)
<1> DEFINE ss == L!ClosedServers(keys)
           t == L!ClosedTable(keys)
           closed == [servers |-> ss, table |-> t, refused |-> {}]
<1>1. /\ servers \in Seq(HttpServer) /\ DOMAIN servers = 1 .. Len(servers) /\ Len(servers) \in Nat
      /\ table \in [Addresses -> Nat]
      /\ \A a \in Addresses : table[a] \in 0 .. Len(servers)
      /\ HoldsListeners(Present)
  BY PresentTables
<1>2. \A i \in DOMAIN servers : servers[i] \in HttpServer
  BY <1>1, ElementOfSeq
<1>3. /\ DOMAIN ss = 1 .. Len(servers)
      /\ \A i \in 1 .. Len(servers) :
           /\ ss[i] \in HttpServer /\ ss[i].key = servers[i].key
           /\ (ss[i].state = "listening") <=>
                (servers[i].state = "listening" /\ ~ \E k \in keys : table[k] = i)
  <2> SUFFICES ASSUME NEW i \in 1 .. Len(servers)
               PROVE  /\ ss[i] \in HttpServer /\ ss[i].key = servers[i].key
                      /\ (ss[i].state = "listening") <=>
                           (servers[i].state = "listening" /\ ~ \E k \in keys : table[k] = i)
    BY <1>1 DEF L!ClosedServers
  <2>1. ss[i] = IF servers[i].state = "listening" /\ \E k \in keys : table[k] = i
                THEN [servers[i] EXCEPT !.state = "closing"] ELSE servers[i]
    BY <1>1 DEF L!ClosedServers
  <2>2. servers[i] \in HttpServer
    BY <1>1, <1>2
  <2>3. [servers[i] EXCEPT !.state = "closing"] \in HttpServer
    BY <2>2 DEF HttpServer, L!ServerStates
  <2>4. [servers[i] EXCEPT !.state = "closing"].key = servers[i].key
        /\ [servers[i] EXCEPT !.state = "closing"].state = "closing"
    BY <2>2 DEF HttpServer
  <2> HIDE DEF ss
  <2> QED BY <2>1, <2>2, <2>3, <2>4
<1>4. ss \in Seq(HttpServer) /\ Len(ss) = Len(servers)
  <2> HIDE DEF ss
  <2>1. ss = [i \in 1 .. Len(servers) |-> ss[i]]
    <3>1. ss = [i \in DOMAIN servers |-> ss[i]]
      BY DEF ss, L!ClosedServers
    <3> QED BY <1>1, <3>1
  <2>2. ss \in [1 .. Len(servers) -> HttpServer]
    BY <1>3, <2>1
  <2> QED BY <1>1, <2>2, SeqDef
<1>5. t \in [Addresses -> Nat] /\ \A a \in Addresses : t[a] = IF a \in keys THEN 0 ELSE table[a]
  BY <1>1 DEF L!ClosedTable
<1>6. closed \in Tables
  <2> HIDE DEF ss, t
  <2> QED BY <1>4, <1>5 DEF Tables
<1>7. HoldsListeners(closed)
  <2> HIDE DEF ss, t
  <2>1. \A a \in Addresses : t[a] <= Len(ss)
    BY <1>1, <1>4, <1>5
  <2>2. ASSUME NEW i \in DOMAIN ss PROVE (ss[i].state = "listening") <=> (t[ss[i].key] = i)
    <3>1. i \in 1 .. Len(servers) /\ i # 0
      BY <1>1, <1>3, <2>2
    <3>2. (servers[i].state = "listening") <=> (table[servers[i].key] = i)
      BY <1>1, <3>1 DEF HoldsListeners, Present
    <3>3. servers[i].key \in Addresses
      <4>1. servers[i] \in HttpServer
        BY <1>1, <1>2, <3>1
      <4> QED BY <4>1 DEF HttpServer
    <3>4. ASSUME NEW k \in keys, table[k] = i PROVE k = servers[i].key
      <4>1. k \in Addresses /\ table[k] # 0
        BY DEF L!Keys
      <4> QED BY <1>1, <3>4, <4>1 DEF HoldsListeners, Present
    <3> QED BY <1>3, <1>5, <3>1, <3>2, <3>3, <3>4
  <2>3. ASSUME NEW a \in Addresses, t[a] # 0 PROVE ss[t[a]].key = a
    <3>1. a \notin keys /\ t[a] = table[a] /\ table[a] # 0 /\ table[a] \in 1 .. Len(servers)
      BY <1>1, <1>5, <2>3
    <3>2. servers[table[a]].key = a
      BY <1>1, <3>1 DEF HoldsListeners, Present
    <3> QED BY <1>3, <3>1, <3>2
  <2> QED BY <2>1, <2>2, <2>3 DEF HoldsListeners
<1> QED BY <1>4, <1>6, <1>7

LEMMA SetAddressesSound ==
  ASSUME ListenersSound, NEW addrs \in Seq(Addresses), L!SetAddresses(addrs)
  PROVE  /\ ListenersSound'
         /\ \A a \in L!Keys(table) \cap wanted' : table'[a] = table[a]
         /\ \A a \in refused' : \E b \in foreign \cup (wanted' \ {a}) : L!Conflict(a, b)
<1> DEFINE goal == ToSet(addrs)
           keys == L!Keys(table) \ goal
           start == [servers |-> L!ClosedServers(keys), table |-> L!ClosedTable(keys), refused |-> {}]
           last == L!OpenAll(start, addrs)
<1>1. /\ servers' = last.servers /\ table' = last.table /\ refused' = last.refused /\ wanted' = goal
      /\ UNCHANGED foreign
  <2>1. L!ToSet(addrs) = goal
    BY DEF L!ToSet, ToSet
  <2>2. last = L!Opened(addrs, keys)
    BY DEF L!Opened
  <2> QED BY <2>1, <2>2 DEF L!SetAddresses
<1>2. /\ start \in Tables /\ HoldsListeners(start)
  BY ClosedTables
<1>3. /\ goal \in SUBSET Addresses /\ table \in [Addresses -> Nat]
      /\ DOMAIN addrs = 1 .. Len(addrs) /\ Len(addrs) \in Nat
  BY PresentTables, ElementOfSeq DEF ToSet
<1>4. /\ \A a \in Addresses : start.table[a] # 0 <=> a \in goal /\ table[a] # 0
      /\ \A a \in Addresses : start.table[a] # 0 => start.table[a] = table[a]
      /\ start.refused = {}
  BY <1>3 DEF L!ClosedTable, L!Keys
<1>5. OpenedFor(start, start, goal)
  <2> HIDE DEF start, goal
  <2> QED BY <1>4 DEF OpenedFor
<1>6. /\ last \in Tables /\ HoldsListeners(last) /\ OpenedFor(last, start, goal)
      /\ \A n \in 1 .. 2 * Len(addrs) :
           L!ToOpen(addrs, n) /\ L!Reached(addrs, n) => Decided(last, L!Passes(addrs)[n])
  <2> HIDE DEF start
  <2> QED BY <1>2, <1>5, OpenAllKeeps
<1>7. \A a \in L!Keys(table) \cap wanted' : table'[a] = table[a]
  <2> SUFFICES ASSUME NEW a \in L!Keys(table) \cap wanted' PROVE table'[a] = table[a]
    OBVIOUS
  <2> HIDE DEF start, last
  <2>1. a \in Addresses /\ a \in goal /\ table[a] # 0
    BY <1>1 DEF L!Keys
  <2> QED BY <1>1, <1>4, <1>6, <2>1 DEF OpenedFor
<1>8. \A a \in refused' : \E b \in foreign \cup (wanted' \ {a}) : L!Conflict(a, b)
  <2> HIDE DEF start, last, goal
  <2> QED BY <1>1, <1>6 DEF OpenedFor
<1>9. L!TypeOK' /\ L!TableHoldsListeners'
  <2> HIDE DEF start, last, goal
  <2>1. /\ servers' \in Seq(HttpServer) /\ table' \in [Addresses -> Nat]
        /\ refused' \in SUBSET Addresses /\ wanted' \in SUBSET Addresses
        /\ foreign' \in SUBSET Addresses
    BY <1>1, <1>3, <1>6 DEF Tables, ListenersSound, L!TypeOK
  <2>2. DOMAIN servers' = 1 .. Len(servers') /\ Len(servers') \in Nat
    BY <2>1
  <2>3. \A a \in Addresses : table'[a] \in 0 .. Len(servers')
    BY <1>1, <1>6, <2>1, <2>2 DEF HoldsListeners
  <2>4. table' \in [Addresses -> 0 .. Len(servers')]
    BY <2>1, <2>3
  <2> QED BY <1>1, <1>6, <2>1, <2>4 DEF HoldsListeners, HttpServer, L!TypeOK, L!TableHoldsListeners, L!Keys
<1>10. L!ListensAsConfigured'
  <2>1. L!Listening(servers') = {a \in Addresses : table'[a] # 0}
    <3> HIDE DEF last
    <3> QED BY <1>1, <1>6, ListeningKeys
  <2>2. \A a \in Addresses : table'[a] # 0 => a \in wanted' /\ a \notin refused'
    <3> HIDE DEF start, last, goal
    <3> QED BY <1>1, <1>6 DEF OpenedFor
  <2>3. ASSUME wanted' \cap BadPorts = {}, NEW a \in wanted', a \notin refused' PROVE table'[a] # 0
    <3>1. a \in Addresses /\ a \in goal
      BY <1>1, <1>3, <2>3
    <3>2. PICK i \in 1 .. Len(addrs) : addrs[i] = a
      BY <1>3, <3>1 DEF ToSet
    <3> DEFINE n == IF a \in Wildcards THEN i ELSE Len(addrs) + i
    <3>3. /\ n \in 1 .. 2 * Len(addrs) /\ (n <= Len(addrs) <=> a \in Wildcards)
      BY <1>3, <3>2
    <3>4. L!Passes(addrs)[n] = a
      BY <1>3, <3>2, ConcatProperties DEF L!Passes
    <3>5. CASE table[a] = 0
      <4>1. L!ToOpen(addrs, n)
        BY <3>3, <3>4, <3>5 DEF L!ToOpen
      <4>2. \A m \in 1 .. n : L!Passes(addrs)[m] \in goal
        <5> SUFFICES ASSUME NEW m \in 1 .. n PROVE L!Passes(addrs)[m] \in goal
          OBVIOUS
        <5>1. n \in Nat /\ n <= 2 * Len(addrs)
          BY <1>3, <3>3
        <5>2. m \in 1 .. 2 * Len(addrs)
          <6> HIDE DEF n
          <6> QED BY <1>3, <5>1
        <5>3. m <= Len(addrs) => L!Passes(addrs)[m] = addrs[m] /\ m \in 1 .. Len(addrs)
          BY <1>3, <5>2, ConcatProperties DEF L!Passes
        <5>4. m > Len(addrs) => L!Passes(addrs)[m] = addrs[m - Len(addrs)] /\ m - Len(addrs) \in 1 .. Len(addrs)
          BY <1>3, <5>2, ConcatProperties DEF L!Passes
        <5>5. \A j \in 1 .. Len(addrs) : addrs[j] \in goal
          BY <1>3 DEF ToSet
        <5> QED BY <1>3, <5>2, <5>3, <5>4, <5>5
      <4>3. L!Reached(addrs, n)
        <5> HIDE DEF n
        <5> QED BY <1>1, <2>3, <4>2 DEF L!Reached
      <4>4. Decided(last, a)
        <5> HIDE DEF n, last
        <5> QED BY <1>6, <3>3, <3>4, <4>1, <4>3
      <4> QED BY <1>1, <2>3, <4>4 DEF Decided
    <3>6. CASE table[a] # 0
      <4> HIDE DEF start, last
      <4> QED BY <1>1, <1>4, <1>6, <3>1, <3>6 DEF OpenedFor
    <3> QED BY <3>5, <3>6
  <2>4. wanted' \subseteq Addresses
    BY <1>1, <1>3
  <2>5. L!Listening(servers)' = L!Listening(servers')
    BY DEF L!Listening
  <2> HIDE DEF last, start, goal
  <2> QED BY <2>1, <2>2, <2>3, <2>4, <2>5 DEF L!ListensAsConfigured
<1> QED BY <1>7, <1>8, <1>9, <1>10 DEF ListenersSound

\* The handlers that open nothing: shutdown, close events, other processes.
LEMMA DestroySound ==
  ASSUME ListenersSound, L!Destroy
  PROVE  ListenersSound' /\ wanted' = {} /\ refused' = {}
<1> DEFINE keys == L!Keys(table)
           closed == [servers |-> L!ClosedServers(keys), table |-> L!ClosedTable(keys), refused |-> {}]
<1>1. /\ servers' = closed.servers /\ table' = closed.table /\ refused' = {} /\ wanted' = {}
      /\ UNCHANGED foreign
  BY DEF L!Destroy
<1>2. closed \in Tables /\ HoldsListeners(closed)
  BY ClosedTables
<1>3. table' = [a \in Addresses |-> 0]
  BY <1>1, PresentTables DEF L!ClosedTable, L!Keys
<1>4. servers' \in Seq(HttpServer) /\ Len(servers') \in Nat
  <2> HIDE DEF closed
  <2> QED BY <1>1, <1>2 DEF Tables
<1>5. L!TypeOK'
  BY <1>1, <1>3, <1>4 DEF L!TypeOK, ListenersSound, HttpServer
<1>6. L!TableHoldsListeners'
  <2> HIDE DEF closed
  <2> QED BY <1>1, <1>2 DEF L!TableHoldsListeners, HoldsListeners, L!Keys
<1>7. L!Listening(servers') = {}
  <2> HIDE DEF closed
  <2>1. L!Listening(servers') = {a \in Addresses : table'[a] # 0}
    BY <1>1, <1>2, ListeningKeys
  <2> QED BY <1>3, <2>1
<1>8. L!ListensAsConfigured'
  <2>1. L!Listening(servers)' = L!Listening(servers')
    BY DEF L!Listening
  <2> QED BY <1>1, <1>7, <2>1 DEF L!ListensAsConfigured
<1> QED BY <1>1, <1>5, <1>6, <1>8 DEF ListenersSound

LEMMA CloseEventSound ==
  ASSUME ListenersSound, NEW i \in DOMAIN servers, L!CloseEvent(i)
  PROVE  ListenersSound' /\ UNCHANGED <<table, wanted, refused>>
<1>1. /\ servers \in Seq(HttpServer) /\ DOMAIN servers = 1 .. Len(servers) /\ Len(servers) \in Nat
      /\ table \in [Addresses -> Nat] /\ HoldsListeners(Present)
  BY PresentTables
<1>2. /\ servers[i] \in HttpServer /\ servers[i].state = "closing"
      /\ servers' = [servers EXCEPT ![i].state = "closed"] /\ UNCHANGED <<wanted, refused, foreign>>
  BY <1>1, ElementOfSeq DEF L!CloseEvent
<1>3. table' = table
  <2>1. \A a \in Addresses : ~(a = servers[i].key /\ table[a] = i)
    BY <1>1, <1>2 DEF HoldsListeners, Present
  <2> QED BY <1>1, <2>1 DEF L!CloseEvent, L!RemoveFromTable
<1> DEFINE s == [servers[i] EXCEPT !.state = "closed"]
<1>4. s \in HttpServer /\ s.key = servers[i].key /\ s.state = "closed"
  BY <1>2 DEF HttpServer, L!ServerStates
<1>5. /\ servers' \in Seq(HttpServer) /\ Len(servers') = Len(servers) /\ DOMAIN servers' = DOMAIN servers
      /\ servers'[i] = s /\ \A j \in DOMAIN servers : j # i => servers'[j] = servers[j]
  <2>1. servers' = [servers EXCEPT ![i] = s]
    BY <1>2
  <2> HIDE DEF s
  <2> QED BY <1>1, <1>4, <2>1, ExceptSeq
<1> HIDE DEF s
<1>6. \A j \in DOMAIN servers : /\ servers'[j].key = servers[j].key
                                /\ servers'[j].state = "listening" <=> servers[j].state = "listening"
  BY <1>2, <1>4, <1>5
<1>7. L!TypeOK'
  BY <1>2, <1>3, <1>5 DEF L!TypeOK, ListenersSound, HttpServer
<1>8. L!TableHoldsListeners'
  <2>1. \A a \in L!Keys(table) : table[a] \in DOMAIN servers
    BY <1>1, PresentTables DEF L!Keys
  <2> QED BY <1>3, <1>5, <1>6, <2>1 DEF L!TableHoldsListeners, ListenersSound, L!Keys
<1>9. L!Listening(servers)' = L!Listening(servers)
  BY <1>5, <1>6 DEF L!Listening
<1>10. L!ListensAsConfigured'
  BY <1>2, <1>9 DEF L!ListensAsConfigured, ListenersSound
<1> QED BY <1>2, <1>3, <1>7, <1>8, <1>10 DEF ListenersSound

LEMMA ListenersUnchanged ==
  ASSUME ListenersSound, UNCHANGED <<servers, table, wanted, refused>>, foreign' \in SUBSET Addresses
  PROVE  ListenersSound'
BY DEF ListenersSound, L!TypeOK, L!TableHoldsListeners, L!ListensAsConfigured, L!Listening, L!Keys

\* What a step may do to the listeners.
ListenersStep ==
  \/ \E addrs \in Seq(Addresses) : L!SetAddresses(addrs)
  \/ L!Destroy
  \/ \E i \in DOMAIN servers : L!CloseEvent(i)
  \/ \E a \in Addresses : L!OtherProcess(a)
  \/ UNCHANGED listeners

LEMMA StepOfListeners ==
  ASSUME IInv, [Next]_vars
  PROVE  ListenersStep
<1>1. ASSUME NEW i \in DOMAIN loads, LoadApplied(i) PROVE ListenersStep
  <2>1. loads[i].version \in Versions
    BY <1>1 DEF LoadApplied, Ready, IInv, Types, InOrder
  <2>2. Contents[loads[i].version] \in [valid : BOOLEAN, exits : BOOLEAN, addresses : Seq(Addresses)]
    BY <2>1, ConfigReloadAssumption, ElementOfSeq, LenProperties DEF Versions
  <2>3. Contents[loads[i].version].addresses \in Seq(Addresses)
    BY <2>2
  <2>4. L!SetAddresses(Contents[loads[i].version].addresses)
    BY <1>1 DEF LoadApplied
  <2> QED BY <2>3, <2>4 DEF ListenersStep
<1>2. CASE UNCHANGED listeners
  BY <1>2 DEF ListenersStep
<1>3. CASE GracefulShutdown \/ ListenerEvent
  BY <1>3 DEF ListenersStep, GracefulShutdown, ListenerEvent
<1> QED
  BY <1>1, <1>2, <1>3 DEF Next, vars, Edit, Sighup, Read, LoadFails, Exit

\* What each of these leaves of the listeners, and what it refuses.
LEMMA ListenersKept ==
  ASSUME ListenersSound, ListenersStep
  PROVE  /\ ListenersSound'
         /\ \A a \in L!Keys(table) \cap wanted' : table'[a] = table[a]
         /\ \A a \in refused' \ refused : \E b \in foreign \cup (wanted' \ {a}) : L!Conflict(a, b)
<1>1. ASSUME NEW addrs \in Seq(Addresses), L!SetAddresses(addrs)
      PROVE  /\ ListenersSound'
             /\ \A a \in L!Keys(table) \cap wanted' : table'[a] = table[a]
             /\ \A a \in refused' \ refused : \E b \in foreign \cup (wanted' \ {a}) : L!Conflict(a, b)
  BY <1>1, SetAddressesSound
<1>2. CASE L!Destroy
  BY <1>2, DestroySound
<1>3. ASSUME NEW i \in DOMAIN servers, L!CloseEvent(i)
      PROVE  ListenersSound' /\ UNCHANGED <<table, wanted, refused>>
  BY <1>3, CloseEventSound
<1>4. CASE UNCHANGED listeners \/ \E a \in Addresses : L!OtherProcess(a)
  <2>1. foreign \in SUBSET Addresses
    BY DEF ListenersSound, L!TypeOK
  <2>2. foreign' \in SUBSET Addresses /\ UNCHANGED <<servers, table, wanted, refused>>
    BY <1>4, <2>1 DEF listeners, L!OtherProcess
  <2> QED BY <2>2, ListenersUnchanged
<1> QED BY <1>1, <1>2, <1>3, <1>4 DEF ListenersStep

\* Each call that waits for a load was made for a signal.
Bounded == signals \in 0 .. MaxSignals /\ waiting <= signals

LEMMA BoundedStep == IInv /\ Bounded /\ [Next]_vars => Bounded'
<1> SUFFICES ASSUME IInv, Bounded, [Next]_vars PROVE Bounded'
  OBVIOUS
<1>1. waiting \in Nat /\ signals \in Nat /\ MaxSignals \in Nat
  BY ConfigReloadAssumption DEF IInv, Types
<1>2. ASSUME NEW i \in DOMAIN loads, Settled(i) \/ Exited PROVE waiting' <= waiting
  BY <1>1, <1>2 DEF Settled, Exited
<1>3. CASE Sighup
  BY <1>1, <1>3 DEF Sighup, LoadConfig, Bounded
<1>4. ASSUME NEW i \in DOMAIN loads, LoadFails(i) \/ LoadApplied(i) PROVE Bounded'
  <2>1. UNCHANGED signals /\ waiting' <= waiting /\ waiting' \in Nat
    BY <1>1, <1>2, <1>4 DEF LoadFails, LoadApplied, Failed, Settled, Exited
  <2> QED BY <1>1, <2>1 DEF Bounded
<1>5. CASE Exit
  BY <1>1, <1>5 DEF Exit, Exited, Bounded
<1>6. CASE UNCHANGED <<signals, waiting>>
  BY <1>6 DEF Bounded
<1> QED BY <1>3, <1>4, <1>5, <1>6 DEF Next, vars, Edit, Read, GracefulShutdown, ListenerEvent

LEMMA ListenersInvariant == Spec => [](IInv /\ Bounded /\ ListenersSound)
<1>1. Init => Bounded /\ ListenersSound
  <2> SUFFICES ASSUME Init PROVE Bounded /\ ListenersSound
    OBVIOUS
  <2>1. Bounded
    BY ConfigReloadAssumption DEF Init, Bounded
  <2>2. servers = << >> /\ table = [a \in Addresses |-> 0] /\ wanted = {} /\ refused = {} /\ foreign = {}
    BY DEF Init, L!Init
  <2>3. servers \in Seq([key : Addresses, state : L!ServerStates]) /\ Len(servers) = 0 /\ DOMAIN servers = {}
    BY <2>2
  <2>4. L!TypeOK /\ L!TableHoldsListeners /\ L!ListensAsConfigured
    BY <2>2, <2>3 DEF L!TypeOK, L!TableHoldsListeners, L!ListensAsConfigured, L!Listening, L!Keys
  <2> QED BY <2>1, <2>4 DEF ListenersSound
<1>2. IInv /\ Bounded /\ ListenersSound /\ [Next]_vars => Bounded' /\ ListenersSound'
  BY BoundedStep, StepOfListeners, ListenersKept
<1> QED BY <1>1, <1>2, InductiveInvariant, PTL DEF Spec

\* Whatever is reloaded, closed late or taken by other processes, the table of
\* Server holds all its listeners and nothing else, so that each can be closed
\* and its address opened again, and the server listens on what the last
\* setAddresses was given, but for what it could not bind.
THEOREM ListenersInOrder == Spec => []Inv
<1>1. IInv /\ Bounded /\ ListenersSound => Inv
  <2> SUFFICES ASSUME IInv, Bounded, ListenersSound PROVE Inv
    OBVIOUS
  <2>1. waiting \in 0 .. MaxSignals
    BY ConfigReloadAssumption DEF IInv, Types, Bounded
  <2> QED BY <2>1 DEF IInv, Types, Bounded, ListenersSound, Inv, TypeOK, Load
<1> QED BY <1>1, ListenersInvariant, PTL

\* A reload neither disturbs a listener that stays nor is hindered by one that
\* goes.
THEOREM ListenersNotDisturbed == Spec => ListenersUndisturbed
<1>1. IInv /\ ListenersSound /\ [Next]_vars =>
        /\ [\A a \in L!Keys(table) \cap wanted' : table'[a] = table[a]]_(L!vars)
        /\ [\A a \in refused' \ refused :
              \E b \in foreign \cup (wanted' \ {a}) : L!Conflict(a, b)]_(L!vars)
  BY StepOfListeners, ListenersKept
<1> QED BY <1>1, ListenersInvariant, PTL DEF Spec, ListenersUndisturbed, L!Undisturbed, L!RefusedForCause

=============================================================================
