--------------------------- MODULE DocumentProofs ---------------------------
(* The versions of a document share nodes and no write of one is seen by       *)
(* another: for every heap the parses built, every set of callers and every    *)
(* sequence of edits.                                                          *)
EXTENDS Document, Minima, TLAPS

-----------------------------------------------------------------------------
(* Nodes.                                                                      *)

(* What the proofs use of a node.                                              *)
LEMMA NodeParts ==
    ASSUME NEW n \in Node
    PROVE  /\ n.owner \in Nat /\ n.kids \in Seq(Nat) /\ n.s \in Nat /\ n.e \in Nat
           /\ n.parsed \in BOOLEAN /\ n.type \in CaptureType
           /\ n.determines \in Path
BY DEF Node

(* The clone own() makes.                                                      *)
LEMMA NodeOwner ==
    ASSUME NEW n \in Node, NEW id \in Nat
    PROVE  /\ [n EXCEPT !.owner = id] \in Node
           /\ [n EXCEPT !.owner = id].owner = id
           /\ [n EXCEPT !.owner = id].kids = n.kids
BY DEF Node

(* A node with other children.                                                 *)
LEMMA NodeKids ==
    ASSUME NEW n \in Node, NEW ks \in Seq(Nat)
    PROVE  /\ [n EXCEPT !.kids = ks] \in Node
           /\ [n EXCEPT !.kids = ks].owner = n.owner
           /\ [n EXCEPT !.kids = ks].kids = ks
BY DEF Node

(* A node whose span no longer describes it, and the other writes of a leaf.   *)
LEMMA NodeParsed ==
    ASSUME NEW n \in Node
    PROVE  /\ [n EXCEPT !.parsed = FALSE] \in Node
           /\ [n EXCEPT !.parsed = FALSE].owner = n.owner
           /\ [n EXCEPT !.parsed = FALSE].kids = n.kids
BY DEF Node

(* set_int.                                                                    *)
LEMMA NodeInt ==
    ASSUME NEW n \in Node, NEW v \in Int
    PROVE  /\ [n EXCEPT !.ival = v, !.bval = <<>>] \in Node
           /\ [n EXCEPT !.ival = v, !.bval = <<>>].owner = n.owner
           /\ [n EXCEPT !.ival = v, !.bval = <<>>].kids = n.kids
<1> DEFINE none == <<>>
<1>1. none \in Seq(Nat)
  OBVIOUS
<1> HIDE DEF none
<1>2. \A b \in Seq(Nat) : LET m == [n EXCEPT !.ival = v, !.bval = b] IN m \in Node /\ m.owner = n.owner /\ m.kids = n.kids
  BY DEF Node
<1> QED BY <1>1, <1>2 DEF none

(* set_bytes.                                                                  *)
LEMMA NodeBytes ==
    ASSUME NEW n \in Node, NEW b \in Seq(Nat)
    PROVE  /\ [n EXCEPT !.bval = b] \in Node
           /\ [n EXCEPT !.bval = b].owner = n.owner
           /\ [n EXCEPT !.bval = b].kids = n.kids
BY DEF Node

(* set_derived.                                                                *)
LEMMA NodeDerived ==
    ASSUME NEW n \in Node, NEW v \in Int
    PROVE  /\ [n EXCEPT !.parsed = FALSE, !.ival = v, !.bval = <<>>] \in Node
           /\ [n EXCEPT !.parsed = FALSE, !.ival = v, !.bval = <<>>].owner = n.owner
           /\ [n EXCEPT !.parsed = FALSE, !.ival = v, !.bval = <<>>].kids = n.kids
<1> DEFINE none == <<>>
<1>1. none \in Seq(Nat)
  OBVIOUS
<1> HIDE DEF none
<1>2. \A b \in Seq(Nat) : LET m == [n EXCEPT !.parsed = FALSE, !.ival = v, !.bval = b] IN m \in Node /\ m.owner = n.owner /\ m.kids = n.kids
  BY DEF Node
<1> QED BY <1>1, <1>2 DEF none

(* append, replace and remove.                                                 *)
LEMMA NodeResized ==
    ASSUME NEW n \in Node, NEW ks \in Seq(Nat)
    PROVE  /\ Resized(n, ks) \in Node
           /\ Resized(n, ks).owner = n.owner
           /\ Resized(n, ks).kids = ks
BY DEF Node, Resized

(* A leaf appended.                                                            *)
LEMMA NodeLeaf ==
    ASSUME NEW elem \in [type : CaptureType, enc : Enc], NEW v \in Int, NEW id \in Nat
    PROVE  /\ NewLeaf(elem, v, id) \in Node
           /\ NewLeaf(elem, v, id).owner = id
           /\ NewLeaf(elem, v, id).kids = <<>>
<1>1. <<>> \in Seq(Nat) /\ <<>> \in Path /\ "Nothing" \in Derives
  BY DEF Derives, Path
<1>4. NoName \in STRING
  BY DocumentAssumption
<1>2. elem.type \in CaptureType /\ elem.enc \in Enc
  OBVIOUS
<1>3. \A b \in Seq(Nat), d \in Path :
          [name |-> NoName, type |-> elem.type, enc |-> elem.enc, s |-> 0, e |-> 0,
           parsed |-> FALSE, ival |-> v, was |-> 0, bval |-> b, derives |-> "Nothing",
           determines |-> d, resized |-> FALSE, kids |-> b, owner |-> id] \in Node
  BY <1>1, <1>2, <1>4 DEF Node
<1> QED BY <1>1, <1>3 DEF NewLeaf

-----------------------------------------------------------------------------
(* Heaps.  L is the set of ids of live transients.                             *)

(* Children a node of that owner may have: nodes of its own or frozen ones.    *)
KidsFit(h, L, id, ks) ==
    \A i \in 1 .. Len(ks) :
        /\ ks[i] \in 1 .. Len(h)
        /\ h[ks[i]].owner \in L => h[ks[i]].owner = id

HeapOK(h, L) ==
    /\ h \in Seq(Node)
    /\ \A n \in 1 .. Len(h) : KidsFit(h, L, h[n].owner, h[n].kids)

(* What one transient may make of a heap.                                      *)
Evolves(h, g, id) ==
    /\ Len(h) <= Len(g)
    /\ \A n \in 1 .. Len(h) : /\ g[n].owner = h[n].owner
                              /\ h[n].owner # id => g[n] = h[n]
    /\ \A n \in Len(h) + 1 .. Len(g) : g[n].owner = id

Step(h, g, id, L) == HeapOK(g, L) /\ Evolves(h, g, id)

Mine(h, id, n) == n \in 1 .. Len(h) /\ h[n].owner = id

(* A node the transient may own: its own already, or frozen.                   *)
Reaches(h, L, id, n) ==
    /\ n \in 1 .. Len(h)
    /\ h[n].owner \in L => h[n].owner = id

(* Steps compose.                                                              *)
LEMMA StepTrans ==
    ASSUME NEW L, NEW id, NEW h, NEW g, NEW f, h \in Seq(Node),
           Step(h, g, id, L), Step(g, f, id, L)
    PROVE  Step(h, f, id, L)
<1>1. Len(h) \in Nat /\ Len(g) \in Nat /\ Len(f) \in Nat
  BY DEF Step, HeapOK
<1>2. \A n \in 1 .. Len(h) : /\ f[n].owner = h[n].owner
                             /\ h[n].owner # id => f[n] = h[n]
  BY <1>1 DEF Step, Evolves
<1>3. \A n \in Len(h) + 1 .. Len(f) : f[n].owner = id
  BY <1>1 DEF Step, Evolves
<1> QED BY <1>1, <1>2, <1>3 DEF Step, Evolves

(* Doing nothing is a step.                                                    *)
LEMMA StepNone ==
    ASSUME NEW L, NEW id, NEW h, HeapOK(h, L)
    PROVE  Step(h, h, id, L)
BY DEF Step, Evolves, HeapOK

(* What one held before a step it holds after it.                              *)
LEMMA MineKept ==
    ASSUME NEW L, NEW id, NEW h, NEW g, h \in Seq(Node), Step(h, g, id, L),
           NEW n, Mine(h, id, n)
    PROVE  Mine(g, id, n)
<1>1. Len(h) \in Nat /\ Len(g) \in Nat
  BY DEF Step, HeapOK
<1> QED BY <1>1 DEF Step, Evolves, Mine

(* And so for what it could own.                                               *)
LEMMA ReachesKept ==
    ASSUME NEW L, NEW id, NEW h, NEW g, h \in Seq(Node), Step(h, g, id, L),
           NEW n, Reaches(h, L, id, n)
    PROVE  Reaches(g, L, id, n)
<1>1. Len(h) \in Nat /\ Len(g) \in Nat
  BY DEF Step, HeapOK
<1> QED BY <1>1 DEF Step, Evolves, Reaches

(* Children stay fit while the heap evolves.                                   *)
LEMMA KidsFitKept ==
    ASSUME NEW L, NEW id, NEW h, NEW g, h \in Seq(Node), g \in Seq(Node),
           Evolves(h, g, id), NEW w, NEW ks, KidsFit(h, L, w, ks)
    PROVE  KidsFit(g, L, w, ks)
<1>1. Len(h) \in Nat /\ Len(g) \in Nat
  OBVIOUS
<1> QED BY <1>1 DEF Evolves, KidsFit

(* The owner of a node writes it.                                              *)
LEMMA PutAt ==
    ASSUME NEW h \in Seq(Node), NEW n \in 1 .. Len(h), NEW node \in Node
    PROVE  /\ Put(h, n, node) \in Seq(Node)
           /\ Len(Put(h, n, node)) = Len(h)
           /\ Put(h, n, node)[n] = node
           /\ \A m \in 1 .. Len(h) : m # n => Put(h, n, node)[m] = h[m]
BY DEF Put

(* It is a step.                                                               *)
LEMMA PutStep ==
    ASSUME NEW L, NEW id, NEW h, HeapOK(h, L), NEW n, Mine(h, id, n),
           NEW node \in Node, node.owner = id, KidsFit(h, L, id, node.kids)
    PROVE  Step(h, Put(h, n, node), id, L)
<1> DEFINE g == Put(h, n, node)
<1>1. /\ h \in Seq(Node) /\ n \in 1 .. Len(h) /\ h[n].owner = id
  BY DEF HeapOK, Mine
<1>2. /\ g \in Seq(Node) /\ Len(g) = Len(h) /\ g[n] = node
      /\ \A m \in 1 .. Len(h) : m # n => g[m] = h[m]
  BY <1>1, PutAt
<1> HIDE DEF g
<1>3. \A m \in 1 .. Len(h) : g[m].owner = h[m].owner
  BY <1>1, <1>2
<1>4. Evolves(h, g, id)
  BY <1>1, <1>2, <1>3 DEF Evolves
<1>5. ASSUME NEW m \in 1 .. Len(h) PROVE KidsFit(h, L, g[m].owner, g[m].kids)
  BY <1>1, <1>2 DEF HeapOK
<1>6. HeapOK(g, L)
  BY <1>1, <1>2, <1>4, <1>5, KidsFitKept DEF HeapOK
<1> QED BY <1>2, <1>4, <1>6 DEF Step, g

(* A new node.                                                                 *)
LEMMA PushStep ==
    ASSUME NEW L, NEW id, NEW h, HeapOK(h, L),
           NEW node \in Node, node.owner = id, KidsFit(h, L, id, node.kids)
    PROVE  /\ Step(h, Append(h, node), id, L)
           /\ Len(Append(h, node)) = Len(h) + 1
           /\ Append(h, node)[Len(h) + 1] = node
           /\ \A m \in 1 .. Len(h) : Append(h, node)[m] = h[m]
<1> DEFINE g == Append(h, node)
<1>1. h \in Seq(Node) /\ Len(h) \in Nat
  BY DEF HeapOK
<1>2. /\ g \in Seq(Node) /\ Len(g) = Len(h) + 1 /\ g[Len(h) + 1] = node
      /\ \A m \in 1 .. Len(h) : g[m] = h[m]
  BY <1>1
<1> HIDE DEF g
<1>4. Evolves(h, g, id)
  BY <1>1, <1>2 DEF Evolves
<1>5. ASSUME NEW m \in 1 .. Len(g) PROVE KidsFit(h, L, g[m].owner, g[m].kids)
  <2>1. CASE m = Len(h) + 1
    BY <2>1, <1>2
  <2>2. CASE m \in 1 .. Len(h)
    BY <2>2, <1>2 DEF HeapOK
  <2> QED BY <1>1, <1>2, <2>1, <2>2
<1>6. HeapOK(g, L)
  BY <1>1, <1>2, <1>4, <1>5, KidsFitKept DEF HeapOK
<1> QED BY <1>2, <1>4, <1>6 DEF Step, g

(* The node own() leaves in the slot.                                          *)
LEMMA OwnStep ==
    ASSUME NEW L, NEW id \in Nat, id \in L, NEW h, HeapOK(h, L),
           NEW n, Reaches(h, L, id, n)
    PROVE  /\ Step(h, Own(h, id, n), id, L)
           /\ Mine(Own(h, id, n), id, Owned(h, id, n))
           /\ Own(h, id, n)[Owned(h, id, n)].kids = h[n].kids
           /\ \A m \in 1 .. Len(h) : Own(h, id, n)[m] = h[m]
<1>1. h \in Seq(Node) /\ Len(h) \in Nat /\ n \in 1 .. Len(h) /\ h[n] \in Node
  BY DEF HeapOK, Reaches
<1>2. CASE h[n].owner = id
  BY <1>1, <1>2, StepNone DEF Own, Owned, Mine
<1>3. CASE h[n].owner # id
  <2> DEFINE c == [h[n] EXCEPT !.owner = id]
  <2>1. c \in Node /\ c.owner = id /\ c.kids = h[n].kids
    BY <1>1, NodeOwner
  <2>2. Own(h, id, n) = Append(h, c) /\ Owned(h, id, n) = Len(h) + 1
    BY <1>3 DEF Own, Owned
  <2> HIDE DEF c
  <2>3. KidsFit(h, L, h[n].owner, h[n].kids)
    BY <1>1 DEF HeapOK
  <2>4. h[n].owner \notin L
    BY <1>3 DEF Reaches
  <2>5. KidsFit(h, L, id, c.kids)
    BY <2>1, <2>3, <2>4 DEF KidsFit
  <2>6. /\ Step(h, Append(h, c), id, L) /\ Len(Append(h, c)) = Len(h) + 1
        /\ Append(h, c)[Len(h) + 1] = c
        /\ \A m \in 1 .. Len(h) : Append(h, c)[m] = h[m]
    BY <2>1, <2>5, PushStep
  <2> QED BY <1>1, <2>1, <2>2, <2>6 DEF Mine
<1> QED BY <1>2, <1>3

(* A child, owned where its parent points to it.                               *)
LEMMA OwnKidStep ==
    ASSUME NEW L, NEW id \in Nat, id \in L, NEW h, HeapOK(h, L),
           NEW p, Mine(h, id, p), NEW i \in 1 .. Len(h[p].kids)
    PROVE  /\ Step(h, OwnKid(h, id, p, i), id, L)
           /\ Mine(OwnKid(h, id, p, i), id, Owned(h, id, h[p].kids[i]))
           /\ Len(OwnKid(h, id, p, i)[p].kids) = Len(h[p].kids)
<1> DEFINE k == h[p].kids[i]
           g == Own(h, id, k)
           o == Owned(h, id, k)
           ks == [h[p].kids EXCEPT ![i] = o]
<1>1. /\ h \in Seq(Node) /\ Len(h) \in Nat /\ p \in 1 .. Len(h) /\ h[p] \in Node
      /\ h[p].owner = id /\ KidsFit(h, L, id, h[p].kids)
  BY DEF HeapOK, Mine
<1>2. h[p].kids \in Seq(Nat)
  BY <1>1, NodeParts
<1>3. Reaches(h, L, id, k)
  BY <1>1 DEF KidsFit, Reaches
<1> HIDE DEF k
<1>4. /\ Step(h, g, id, L) /\ Mine(g, id, o)
      /\ \A m \in 1 .. Len(h) : g[m] = h[m]
  BY <1>3, OwnStep
<1> HIDE DEF g, o
<1>5. g \in Seq(Node) /\ HeapOK(g, L) /\ Evolves(h, g, id) /\ Len(g) \in Nat
  BY <1>4 DEF Step, HeapOK
<1>6. g[p] = h[p] /\ Mine(g, id, p)
  BY <1>1, <1>4, MineKept DEF Mine
<1>7. o \in Nat
  BY <1>4, <1>5 DEF Mine
<1>8. /\ ks \in Seq(Nat) /\ Len(ks) = Len(h[p].kids)
      /\ \A j \in 1 .. Len(ks) : ks[j] = IF j = i THEN o ELSE h[p].kids[j]
  BY <1>2, <1>7
<1> HIDE DEF ks
<1>9. KidsFit(g, L, id, h[p].kids)
  BY <1>1, <1>5, KidsFitKept
<1>10. KidsFit(g, L, id, ks)
  BY <1>4, <1>8, <1>9 DEF KidsFit, Mine
<1> DEFINE c == [g[p] EXCEPT !.kids = ks]
<1>11. c \in Node /\ c.owner = id /\ c.kids = ks
  BY <1>1, <1>6, <1>8, NodeKids
<1>12. OwnKid(h, id, p, i) = Put(g, p, c)
  BY <1>6 DEF OwnKid, g, o, ks, k, c
<1> HIDE DEF c
<1>16. KidsFit(g, L, id, c.kids)
  BY <1>10, <1>11
<1>13. Step(g, Put(g, p, c), id, L) /\ Put(g, p, c)[p] = c
  <2>1. Step(g, Put(g, p, c), id, L)
    BY <1>5, <1>6, <1>11, <1>16, PutStep
  <2>2. Put(g, p, c)[p] = c
    BY <1>5, <1>6, <1>11, PutAt DEF Mine
  <2> QED BY <2>1, <2>2
<1>14. Step(h, Put(g, p, c), id, L)
  BY <1>1, <1>4, <1>13, StepTrans
<1>15. Mine(Put(g, p, c), id, o)
  BY <1>4, <1>5, <1>13, MineKept
<1> QED BY <1>8, <1>11, <1>12, <1>13, <1>14, <1>15 DEF o, k

(* A write that leaves owner and children alone.                               *)
LEMMA WriteStep ==
    ASSUME NEW L, NEW id, NEW h, HeapOK(h, L), NEW n, Mine(h, id, n),
           NEW node \in Node, node.owner = h[n].owner, node.kids = h[n].kids
    PROVE  Step(h, Put(h, n, node), id, L)
<1>1. n \in 1 .. Len(h) /\ h[n].owner = id /\ KidsFit(h, L, id, h[n].kids)
  BY DEF HeapOK, Mine
<1> QED BY <1>1, PutStep

(* A node marked.                                                              *)
LEMMA DirtyStep ==
    ASSUME NEW L, NEW id, NEW h, HeapOK(h, L), NEW n, Mine(h, id, n)
    PROVE  Step(h, MarkDirty(h, n), id, L)
<1> DEFINE c == [h[n] EXCEPT !.parsed = FALSE]
<1>1. h[n] \in Node
  BY DEF HeapOK, Mine
<1>2. c \in Node /\ c.owner = h[n].owner /\ c.kids = h[n].kids
  BY <1>1, NodeParsed
<1>3. MarkDirty(h, n) = Put(h, n, c)
  BY DEF MarkDirty
<1> HIDE DEF c
<1> QED BY <1>2, <1>3, WriteStep

(* A derived field written.                                                    *)
LEMMA SetDerivedStep ==
    ASSUME NEW L, NEW id \in Nat, id \in L, NEW h, HeapOK(h, L),
           NEW p, Mine(h, id, p), NEW i \in 1 .. Len(h[p].kids), NEW want \in Int
    PROVE  Step(h, SetDerived(h, id, p, i, want), id, L)
<1> DEFINE g == OwnKid(h, id, p, i)
           k == Owned(h, id, h[p].kids[i])
           c == [g[k] EXCEPT !.parsed = FALSE, !.ival = want, !.bval = <<>>]
<1>1. Step(h, g, id, L) /\ Mine(g, id, k)
  BY OwnKidStep
<1>2. SetDerived(h, id, p, i, want) = Put(g, k, c)
  BY DEF SetDerived
<1> HIDE DEF g, k
<1>3. HeapOK(g, L) /\ g[k] \in Node
  BY <1>1 DEF Step, HeapOK, Mine
<1>4. c \in Node /\ c.owner = g[k].owner /\ c.kids = g[k].kids
  BY <1>3, NodeDerived
<1> HIDE DEF c
<1>5. Step(g, Put(g, k, c), id, L)
  BY <1>1, <1>3, <1>4, WriteStep
<1>6. h \in Seq(Node)
  BY DEF HeapOK
<1> QED BY <1>1, <1>2, <1>5, <1>6, StepTrans

(* The same behind the comparison, with the container the path stepped through *)
(* marked.                                                                     *)
LEMMA DerivedStep ==
    ASSUME NEW L, NEW e, edits[e].id \in Nat, edits[e].id \in L, NEW h, HeapOK(h, L),
           NEW p, Mine(h, edits[e].id, p), NEW i \in 1 .. Len(h[p].kids),
           NEW want \in Int, NEW chain, chain = 0 \/ Mine(h, edits[e].id, chain)
    PROVE  Step(h, Derived(h, e, p, i, want, chain), edits[e].id, L)
<1> DEFINE id == edits[e].id
           g == SetDerived(h, id, p, i, want)
<1>1. Step(h, g, id, L)
  BY SetDerivedStep
<1> HIDE DEF g
<1>2. h \in Seq(Node) /\ HeapOK(g, L)
  BY <1>1 DEF HeapOK, Step
<1>3. CASE chain # 0
  <2>1. Mine(g, id, chain)
    BY <1>1, <1>2, <1>3, MineKept
  <2>2. Step(g, MarkDirty(g, chain), id, L)
    BY <1>2, <2>1, DirtyStep
  <2>3. Step(h, MarkDirty(g, chain), id, L)
    BY <1>1, <1>2, <2>2, StepTrans
  <2> QED BY <1>3, <2>3, StepNone DEF Derived, g
<1>4. CASE chain = 0
  BY <1>1, <1>4, StepNone DEF Derived, g
<1> QED BY <1>3, <1>4

-----------------------------------------------------------------------------
(* Sequences and searches.                                                     *)

(* The stack without its top.                                                  *)
LEMMA FrontParts ==
    ASSUME NEW S, NEW q \in Seq(S), q # <<>>
    PROVE  /\ Front(q) \in Seq(S) /\ Len(Front(q)) = Len(q) - 1
           /\ \A j \in 1 .. Len(Front(q)) : Front(q)[j] = q[j]
<1>1. Len(q) \in Nat /\ Len(q) # 0
  OBVIOUS
<1>2. Front(q) = SubSeq(q, 1, Len(q) - 1)
  BY DEF Front
<1>3. /\ SubSeq(q, 1, Len(q) - 1) \in Seq(S) /\ Len(SubSeq(q, 1, Len(q) - 1)) = Len(q) - 1
      /\ \A j \in 1 .. Len(q) - 1 : SubSeq(q, 1, Len(q) - 1)[j] = q[j]
  <2> DEFINE m == Len(q) - 1
  <2>1. m \in 0 .. Len(q)
    BY <1>1
  <2> HIDE DEF m
  <2>2. SubSeq(q, 1, m) \in Seq(S)
    BY <1>1, <2>1
  <2>3. Len(SubSeq(q, 1, m)) = m
    BY <1>1, <2>1
  <2>4. \A j \in 1 .. m : SubSeq(q, 1, m)[j] = q[j]
    BY <1>1, <2>1
  <2> QED BY <2>2, <2>3, <2>4 DEF m
<1> QED BY <1>2, <1>3

(* The children without one.                                                   *)
LEMMA RemoveAtParts ==
    ASSUME NEW S, NEW q \in Seq(S), NEW i \in 1 .. Len(q)
    PROVE  /\ RemoveAt(q, i) \in Seq(S)
           /\ \A j \in 1 .. Len(RemoveAt(q, i)) :
                  \E m \in 1 .. Len(q) : RemoveAt(q, i)[j] = q[m]
<1> DEFINE a == SubSeq(q, 1, i - 1)
           b == SubSeq(q, i + 1, Len(q))
<1>1. Len(q) \in Nat /\ i \in Nat /\ 1 <= i /\ i <= Len(q)
  OBVIOUS
<1>2. /\ a \in Seq(S) /\ Len(a) = i - 1
      /\ \A j \in 1 .. i - 1 : a[j] = q[j]
  BY <1>1
<1>3. /\ b \in Seq(S) /\ Len(b) = Len(q) - i
      /\ \A j \in 1 .. Len(q) - i : b[j] = q[i + j]
  BY <1>1
<1>4. RemoveAt(q, i) = a \o b
  BY DEF RemoveAt
<1> HIDE DEF a, b
<1>5. /\ a \o b \in Seq(S) /\ Len(a \o b) = Len(q) - 1
      /\ \A j \in 1 .. Len(q) - 1 :
             (a \o b)[j] = IF j <= i - 1 THEN a[j] ELSE b[j - (i - 1)]
  BY <1>1, <1>2, <1>3
<1>6. ASSUME NEW j \in 1 .. Len(q) - 1 PROVE \E m \in 1 .. Len(q) : (a \o b)[j] = q[m]
  <2>1. CASE j <= i - 1
    <3>1. (a \o b)[j] = q[j] /\ j \in 1 .. Len(q)
      BY <1>1, <1>2, <1>5, <2>1
    <3> QED BY <3>1
  <2>2. CASE j > i - 1
    <3>1. (a \o b)[j] = b[j - (i - 1)] /\ j - (i - 1) \in 1 .. Len(q) - i
      BY <1>1, <1>5, <2>2
    <3>2. (a \o b)[j] = q[j + 1] /\ j + 1 \in 1 .. Len(q)
      <4>1. b[j - (i - 1)] = q[i + (j - (i - 1))]
        <5> DEFINE m == j - (i - 1)
        <5>1. m \in 1 .. Len(q) - i
          BY <3>1
        <5> HIDE DEF m
        <5>2. b[m] = q[i + m]
          BY <1>3, <5>1
        <5> QED BY <5>2 DEF m
      <4>2. i + (j - (i - 1)) = j + 1
        BY <1>1
      <4> QED BY <1>1, <3>1, <4>1, <4>2
    <3> QED BY <3>2
  <2>3. j <= i - 1 \/ j > i - 1
    BY <1>1
  <2> QED BY ONLY <2>1, <2>2, <2>3
<1> QED BY <1>4, <1>5, <1>6

(* The first child of a name is one of them.                                   *)
LEMMA FirstIn ==
    ASSUME NEW S \in SUBSET Nat, S # {}
    PROVE  First(S) \in S
BY Least DEF First

(* What the search for a name finds.                                           *)
LEMMA HolderFound ==
    ASSUME NEW q \in Seq(Frame), NEW name
    PROVE  /\ Holder(q, name) \in 0 .. Len(q)
           /\ Holder(q, name) # 0 => Named(nodes, q[Holder(q, name)].n, name) # {}
<1> DEFINE hs == {d \in 1 .. Len(q) : Named(nodes, q[d].n, name) # {}}
           Is(d) == d \in hs /\ \A c \in hs : c <= d
<1>1. Len(q) \in Nat
  OBVIOUS
<1>2. Holder(q, name) = IF hs = {} THEN 0 ELSE CHOOSE d \in hs : \A c \in hs : c <= d
  BY DEF Holder
<1>3. CASE hs # {}
  <2>1. hs \in SUBSET (0 .. Len(q))
    BY <1>1
  <2> HIDE DEF hs
  <2>2. \E d \in hs : \A c \in hs : c <= d
    BY <1>1, <1>3, <2>1, Greatest
  <2>3. Holder(q, name) \in hs
    BY <1>2, <1>3, <2>2
  <2>4. Holder(q, name) \in 1 .. Len(q) /\ Named(nodes, q[Holder(q, name)].n, name) # {}
    BY <2>3 DEF hs
  <2> QED BY <1>1, <2>4
<1>4. CASE hs = {}
  BY <1>1, <1>2, <1>4
<1> QED BY <1>3, <1>4

-----------------------------------------------------------------------------
(* States.                                                                     *)

(* What a live transient may point at.                                         *)
TransientOK(g, L, t) ==
    /\ t \in Transient /\ t.id # 0
    /\ Reaches(g, L, t.id, t.root)
    /\ t.at # 0 => Mine(g, t.id, t.at)
    /\ \A j \in 1 .. Len(t.stack) : Mine(g, t.id, t.stack[j].n)

(* The invariant, said of the heap and of one transient.                       *)
LEMMA InvParts ==
    ASSUME IInv, NEW e \in Slots, edits[e].id # 0
    PROVE  /\ HeapOK(nodes, LiveIds) /\ nodes \in Seq(Node)
           /\ TransientOK(nodes, LiveIds, edits[e])
           /\ edits[e].id \in LiveIds /\ edits[e].id \in Nat
<1>1. nodes \in Seq(Node) /\ edits \in [Slots -> Transient]
  BY DEF IInv, TypeOK
<1>2. HeapOK(nodes, LiveIds)
  BY <1>1 DEF IInv, TypeOK, Isolated, Frozen, HeapOK, KidsFit
<1>3. edits[e].id \in LiveIds
  BY DEF LiveIds
<1>4. edits[e].id \in Nat
  BY <1>1 DEF Transient
<1>5. TransientOK(nodes, LiveIds, edits[e])
  BY <1>1 DEF IInv, HandlesOwned, Isolated, Frozen, TransientOK, Reaches, Mine
<1> QED BY <1>1, <1>2, <1>3, <1>4, <1>5

(* A step of one live transient that begins and ends nothing.                  *)
Progress(e) ==
    /\ edits[e].id # 0
    /\ Step(nodes, nodes', edits[e].id, LiveIds)
    /\ docs' = docs /\ tokens' = tokens
    /\ edits' \in [Slots -> Transient]
    /\ \A f \in Slots \ {e} : edits'[f] = edits[f]
    /\ edits'[e].id = edits[e].id
    /\ TransientOK(nodes', LiveIds, edits'[e])

(* Such a step leaves the set of live ids alone.                               *)
LEMMA LiveIdsKept ==
    ASSUME NEW e \in Slots, Progress(e)
    PROVE  LiveIds' = LiveIds
<1>1. \A f \in Slots : edits'[f].id = edits[f].id
  BY DEF Progress
<1> QED BY <1>1 DEF LiveIds

(* It keeps the invariant, and writes no frozen node.                          *)
LEMMA Advance ==
    ASSUME IInv, NEW e \in Slots, Progress(e)
    PROVE  /\ IInv'
           /\ \A n \in 1 .. Len(nodes) : Frozen(n) => nodes'[n] = nodes[n]
<1> DEFINE L == LiveIds
           id == edits[e].id
<1>1. /\ HeapOK(nodes, L) /\ nodes \in Seq(Node) /\ id \in L /\ id \in Nat
      /\ edits \in [Slots -> Transient]
  BY InvParts DEF Progress, IInv, TypeOK
<1>2. HeapOK(nodes', L) /\ Evolves(nodes, nodes', id) /\ nodes' \in Seq(Node)
  BY DEF Progress, Step, HeapOK
<1>3. LiveIds' = L
  BY LiveIdsKept
<1> HIDE DEF L
<1>4. Len(nodes) \in Nat /\ Len(nodes') \in Nat /\ Len(nodes) <= Len(nodes')
  BY <1>1, <1>2 DEF Evolves
<1>5. \A n \in 1 .. Len(nodes) : nodes'[n].owner = nodes[n].owner
  BY <1>2 DEF Evolves
<1>6. \A n \in 1 .. Len(nodes') : n \in 1 .. Len(nodes) \/ nodes'[n].owner = id
  BY <1>2, <1>4 DEF Evolves
<1>7. TypeOK'
  <2>1. \A n \in 1 .. Len(nodes') : \A i \in 1 .. Len(nodes'[n].kids) :
            nodes'[n].kids[i] \in 1 .. Len(nodes')
    BY <1>2 DEF HeapOK, KidsFit
  <2>2. \A d \in 1 .. Len(docs) : docs[d].root \in 1 .. Len(nodes')
    BY <1>4 DEF IInv, TypeOK
  <2>3. docs \in Seq(Document) /\ tokens \in Nat \ {0}
    BY DEF IInv, TypeOK
  <2> QED BY <1>2, <2>1, <2>2, <2>3 DEF TypeOK, Progress
<1>8. TokensFresh'
  <2>1. \A f \in Slots : edits'[f].id = edits[f].id
    BY DEF Progress
  <2>2. id < tokens
    BY DEF IInv, TokensFresh
  <2>3. \A n \in 1 .. Len(nodes') : nodes'[n].owner < tokens
    BY <1>5, <1>6, <2>2 DEF IInv, TokensFresh
  <2>4. \A f \in Slots : edits'[f].id < tokens
    BY <2>1 DEF IInv, TokensFresh
  <2>5. \A f, g \in Slots : edits'[f].id = edits'[g].id /\ edits'[f].id # 0 => f = g
    BY <2>1 DEF IInv, TokensFresh
  <2>6. tokens' = tokens
    BY DEF Progress
  <2> QED BY <2>3, <2>4, <2>5, <2>6 DEF TokensFresh
<1>9. HandlesOwned'
  <2>1. ASSUME NEW f \in Slots PROVE
            /\ edits'[f].id = 0 => edits'[f] = Dead
            /\ edits'[f].id # 0 => edits'[f].root \in 1 .. Len(nodes')
            /\ edits'[f].at # 0 => /\ edits'[f].at \in 1 .. Len(nodes')
                                   /\ nodes'[edits'[f].at].owner = edits'[f].id
            /\ \A j \in 1 .. Len(edits'[f].stack) :
                   /\ edits'[f].stack[j].n \in 1 .. Len(nodes')
                   /\ nodes'[edits'[f].stack[j].n].owner = edits'[f].id
    <3>1. CASE f = e
      BY <3>1 DEF Progress, TransientOK, Reaches, Mine
    <3>2. CASE f # e
      <4>1. edits'[f] = edits[f]
        BY <3>2 DEF Progress
      <4>2. \A n \in 1 .. Len(nodes) : n \in 1 .. Len(nodes')
        BY <1>4
      <4> QED BY <1>5, <4>1, <4>2, ZenonT(60) DEF IInv, HandlesOwned
    <3> QED BY <3>1, <3>2
  <2> QED BY <2>1 DEF HandlesOwned
<1>10. Isolated'
  <2>1. ASSUME NEW d \in 1 .. Len(docs) PROVE nodes'[docs[d].root].owner \notin L
    <3>1. docs[d].root \in 1 .. Len(nodes) /\ nodes[docs[d].root].owner \notin L
      BY DEF IInv, TypeOK, Isolated, Frozen, L
    <3> QED BY <1>5, <3>1
  <2>2. \A n \in 1 .. Len(nodes') : \A i \in 1 .. Len(nodes'[n].kids) :
            \/ nodes'[nodes'[n].kids[i]].owner \notin L
            \/ nodes'[nodes'[n].kids[i]].owner = nodes'[n].owner
    BY <1>2 DEF HeapOK, KidsFit
  <2>3. ASSUME NEW f \in Slots, edits'[f].id # 0 PROVE
            \/ nodes'[edits'[f].root].owner \notin L
            \/ nodes'[edits'[f].root].owner = edits'[f].id
    <3>1. CASE f = e
      BY <3>1 DEF Progress, TransientOK, Reaches, L
    <3>2. CASE f # e
      <4>1. edits'[f] = edits[f]
        BY <3>2 DEF Progress
      <4>2. edits[f].root \in 1 .. Len(nodes)
        BY <2>3, <4>1 DEF IInv, HandlesOwned
      <4>3. nodes[edits[f].root].owner \notin L \/ nodes[edits[f].root].owner = edits[f].id
        BY <2>3, <4>1 DEF IInv, Isolated, Frozen, L
      <4> QED BY <1>5, <4>1, <4>2, <4>3
    <3> QED BY <3>1, <3>2
  <2>4. docs' = docs
    BY DEF Progress
  <2> QED BY <1>3, <2>1, <2>2, <2>3, <2>4 DEF Isolated, Frozen
<1>11. ASSUME NEW n \in 1 .. Len(nodes), Frozen(n) PROVE nodes'[n] = nodes[n]
  <2>1. nodes[n].owner # id
    BY <1>1, <1>11 DEF Frozen, L
  <2> QED BY <1>2, <2>1 DEF Evolves
<1> QED BY <1>7, <1>8, <1>9, <1>10, <1>11 DEF IInv

-----------------------------------------------------------------------------
(* The actions.                                                                *)

(* A transient keeps its handles through a step of its own.                    *)
LEMMA HandlesKept ==
    ASSUME NEW L, NEW h, NEW g, h \in Seq(Node), NEW t, TransientOK(h, L, t),
           Step(h, g, t.id, L)
    PROVE  TransientOK(g, L, t)
<1>1. Reaches(g, L, t.id, t.root)
  BY ReachesKept DEF TransientOK
<1>2. \A n : Mine(h, t.id, n) => Mine(g, t.id, n)
  BY MineKept
<1> QED BY <1>1, <1>2 DEF TransientOK

(* It may take handles to nodes it owns.                                       *)
LEMMA HandlesTaken ==
    ASSUME NEW L, NEW g, NEW t, TransientOK(g, L, t), NEW u \in Transient,
           u.id = t.id,
           u.root = t.root \/ Mine(g, t.id, u.root),
           u.at = t.at \/ Mine(g, t.id, u.at),
           u.stack = t.stack \/ \A j \in 1 .. Len(u.stack) : Mine(g, t.id, u.stack[j].n)
    PROVE  TransientOK(g, L, u)
<1>1. Reaches(g, L, u.id, u.root)
  BY DEF TransientOK, Reaches, Mine
<1>2. u.at # 0 => Mine(g, u.id, u.at)
  BY DEF TransientOK
<1>3. \A j \in 1 .. Len(u.stack) : Mine(g, u.id, u.stack[j].n)
  BY DEF TransientOK
<1> QED BY <1>1, <1>2, <1>3 DEF TransientOK

(* The shape every action but two has.                                         *)
LEMMA Proceeds ==
    ASSUME IInv, NEW e \in Slots, edits[e].id # 0,
           Step(nodes, nodes', edits[e].id, LiveIds),
           docs' = docs, tokens' = tokens,
           NEW t \in Transient, edits' = [edits EXCEPT ![e] = t],
           t.id = edits[e].id,
           t.root = edits[e].root \/ Mine(nodes', edits[e].id, t.root),
           t.at = edits[e].at \/ Mine(nodes', edits[e].id, t.at),
           t.stack = edits[e].stack
               \/ \A j \in 1 .. Len(t.stack) : Mine(nodes', edits[e].id, t.stack[j].n)
    PROVE  Progress(e)
<1>1. /\ nodes \in Seq(Node) /\ TransientOK(nodes, LiveIds, edits[e])
      /\ edits \in [Slots -> Transient]
  BY InvParts DEF IInv, TypeOK
<1>2. TransientOK(nodes', LiveIds, edits[e])
  BY <1>1, HandlesKept
<1>3. TransientOK(nodes', LiveIds, t)
  BY <1>2, HandlesTaken
<1>4. edits' \in [Slots -> Transient] /\ edits'[e] = t
  BY <1>1
<1>5. \A f \in Slots \ {e} : edits'[f] = edits[f]
  BY <1>1
<1> QED BY <1>3, <1>4, <1>5 DEF Progress

(* A write through the cursor.                                                 *)
LEMMA Written ==
    ASSUME IInv, NEW e \in Slots, NEW call, Writing(e, call),
           Step(nodes, nodes', edits[e].id, LiveIds)
    PROVE  Progress(e)
<1> DEFINE t == [edits[e] EXCEPT !.ops = @ + 1]
<1>1. edits \in [Slots -> Transient] /\ edits[e].id # 0
  BY DEF IInv, TypeOK, Writing, Live
<1>2. t \in Transient /\ t.id = edits[e].id /\ t.root = edits[e].root
      /\ t.at = edits[e].at /\ t.stack = edits[e].stack
  <2> DEFINE m == edits[e].ops + 1
  <2>1. edits[e] \in Transient /\ m \in Nat
    BY <1>1 DEF Transient
  <2> HIDE DEF m
  <2>2. \A x \in Transient : LET u == [x EXCEPT !.ops = m] IN
            /\ u \in Transient /\ u.id = x.id /\ u.root = x.root
            /\ u.at = x.at /\ u.stack = x.stack
    BY <2>1 DEF Transient
  <2> QED BY <2>1, <2>2 DEF m
<1>3. edits' = [edits EXCEPT ![e] = t] /\ docs' = docs /\ tokens' = tokens
  BY DEF Writing
<1> HIDE DEF t
<1> QED BY <1>1, <1>2, <1>3, Proceeds

(* The node the cursor is at, and its children.                                *)
LEMMA Cursor ==
    ASSUME IInv, NEW e \in Slots, edits[e].id # 0, edits[e].at # 0
    PROVE  /\ Mine(nodes, edits[e].id, edits[e].at)
           /\ nodes[edits[e].at] \in Node
           /\ nodes[edits[e].at].owner = edits[e].id
           /\ nodes[edits[e].at].kids \in Seq(Nat)
           /\ KidsFit(nodes, LiveIds, edits[e].id, nodes[edits[e].at].kids)
           /\ \A i \in HereKids(e) : i \in 1 .. Len(nodes[edits[e].at].kids)
<1>1. Mine(nodes, edits[e].id, edits[e].at) /\ HeapOK(nodes, LiveIds)
  BY InvParts DEF TransientOK
<1>2. nodes[edits[e].at] \in Node /\ nodes[edits[e].at].owner = edits[e].id
  BY <1>1 DEF Mine, HeapOK
<1>3. nodes[edits[e].at].kids \in Seq(Nat)
  BY <1>2, NodeParts
<1>4. KidsFit(nodes, LiveIds, edits[e].id, nodes[edits[e].at].kids)
  BY <1>1, <1>2, SMTT(60) DEF HeapOK, Mine
<1> QED BY <1>1, <1>2, <1>3, <1>4 DEF HereKids

(* own_child.                                                                  *)
LEMMA OwnedKidStep ==
    ASSUME IInv, NEW e \in Slots, edits[e].id # 0, edits[e].at # 0,
           NEW i \in HereKids(e)
    PROVE  /\ Step(nodes, OwnedKid(e, i), edits[e].id, LiveIds)
           /\ HeapOK(OwnedKid(e, i), LiveIds)
           /\ Mine(OwnedKid(e, i), edits[e].id,
                   Owned(nodes, edits[e].id, nodes[edits[e].at].kids[i]))
<1> DEFINE L == LiveIds
           id == edits[e].id
           p == edits[e].at
           k == Owned(nodes, id, nodes[p].kids[i])
           g == OwnKid(nodes, id, p, i)
<1>1. /\ HeapOK(nodes, L) /\ nodes \in Seq(Node) /\ id \in L /\ id \in Nat
      /\ Mine(nodes, id, p) /\ i \in 1 .. Len(nodes[p].kids)
  BY InvParts, Cursor
<1>2. OwnedKid(e, i) = MarkDirty(MarkDirty(g, p), k)
  BY DEF OwnedKid
<1> HIDE DEF L, id, p
<1>3. Step(nodes, g, id, L) /\ Mine(g, id, k)
  BY <1>1, OwnKidStep
<1> HIDE DEF g, k
<1>4. HeapOK(g, L) /\ g \in Seq(Node) /\ Mine(g, id, p)
  BY <1>1, <1>3, MineKept DEF Step, HeapOK
<1>5. Step(g, MarkDirty(g, p), id, L)
  BY <1>4, DirtyStep
<1>6. /\ HeapOK(MarkDirty(g, p), L) /\ MarkDirty(g, p) \in Seq(Node)
      /\ Mine(MarkDirty(g, p), id, k)
  BY <1>3, <1>4, <1>5, MineKept DEF Step, HeapOK
<1>7. Step(MarkDirty(g, p), MarkDirty(MarkDirty(g, p), k), id, L)
  BY <1>6, DirtyStep
<1>8. Mine(MarkDirty(MarkDirty(g, p), k), id, k)
  BY <1>6, <1>7, MineKept
<1>9. Step(nodes, MarkDirty(g, p), id, L)
  BY <1>1, <1>3, <1>5, StepTrans
<1>10. Step(nodes, MarkDirty(MarkDirty(g, p), k), id, L)
  BY <1>1, <1>7, <1>9, StepTrans
<1> QED BY <1>2, <1>7, <1>8, <1>10 DEF L, id, p, k, Step

(* root_mut.                                                                   *)
LEMMA RootMutProgress ==
    ASSUME IInv, NEW e \in Slots, RootMut(e)
    PROVE  Progress(e)
<1> DEFINE r == Owned(nodes, edits[e].id, edits[e].root)
           t == [edits[e] EXCEPT !.root = r, !.at = r]
<1>1. edits[e].id # 0 /\ edits \in [Slots -> Transient]
  BY DEF RootMut, Live, IInv, TypeOK
<1>2. /\ HeapOK(nodes, LiveIds) /\ TransientOK(nodes, LiveIds, edits[e])
      /\ edits[e].id \in LiveIds /\ edits[e].id \in Nat
  BY <1>1, InvParts
<1>3. nodes' = Own(nodes, edits[e].id, edits[e].root) /\ docs' = docs /\ tokens' = tokens
  BY DEF RootMut
<1>4. Step(nodes, nodes', edits[e].id, LiveIds) /\ Mine(nodes', edits[e].id, r)
  BY <1>2, <1>3, OwnStep DEF TransientOK
<1>5. edits' = [edits EXCEPT ![e] = t]
  BY <1>1 DEF RootMut
<1>6. r \in Nat
  BY <1>4 DEF Mine, Step, HeapOK
<1> HIDE DEF r
<1>7. /\ t \in Transient /\ t.id = edits[e].id /\ t.root = r /\ t.at = r
      /\ t.stack = edits[e].stack
  BY <1>1, <1>6 DEF Transient
<1> HIDE DEF t
<1> QED BY <1>1, <1>3, <1>4, <1>5, <1>7, Proceeds

(* own_child as a step of its own.                                             *)
LEMMA OwnChildProgress ==
    ASSUME IInv, NEW e \in Slots, NEW i \in HereKids(e), OwnChild(e, i)
    PROVE  Progress(e)
<1> DEFINE k == Owned(nodes, edits[e].id, nodes[edits[e].at].kids[i])
           t == [edits[e] EXCEPT !.at = k]
<1>1. edits[e].id # 0 /\ edits[e].at # 0 /\ edits \in [Slots -> Transient]
  BY DEF OwnChild, Live, IInv, TypeOK
<1>2. nodes' = OwnedKid(e, i) /\ docs' = docs /\ tokens' = tokens
      /\ edits' = [edits EXCEPT ![e] = t]
  BY DEF OwnChild
<1>3. Step(nodes, nodes', edits[e].id, LiveIds) /\ Mine(nodes', edits[e].id, k)
  BY <1>1, <1>2, OwnedKidStep
<1>4. k \in Nat
  BY <1>3 DEF Mine, Step, HeapOK
<1> HIDE DEF k
<1>5. /\ t \in Transient /\ t.id = edits[e].id /\ t.root = edits[e].root /\ t.at = k
      /\ t.stack = edits[e].stack
  BY <1>1, <1>4 DEF Transient
<1> HIDE DEF t
<1> QED BY <1>1, <1>2, <1>3, <1>5, Proceeds

(* What a write to a child leaves: own_child, then the leaf as it is to be.    *)
LEMMA KidWritten ==
    ASSUME IInv, NEW e \in Slots, NEW call, Writing(e, call), NEW i \in HereKids(e),
           NEW node \in Node,
           nodes' = Put(OwnedKid(e, i),
                        Owned(nodes, edits[e].id, nodes[edits[e].at].kids[i]), node),
           LET c == OwnedKid(e, i)[Owned(nodes, edits[e].id, nodes[edits[e].at].kids[i])]
           IN  node.owner = c.owner /\ node.kids = c.kids
    PROVE  Progress(e)
<1> DEFINE g == OwnedKid(e, i)
           k == Owned(nodes, edits[e].id, nodes[edits[e].at].kids[i])
<1>1. edits[e].id # 0 /\ edits[e].at # 0
  BY SMTT(60) DEF Writing, Live
<1>2. Step(nodes, g, edits[e].id, LiveIds) /\ HeapOK(g, LiveIds) /\ Mine(g, edits[e].id, k)
  BY <1>1, OwnedKidStep
<1>3. nodes' = Put(g, k, node) /\ node.owner = g[k].owner /\ node.kids = g[k].kids
  OBVIOUS
<1> HIDE DEF g, k
<1>4. Step(g, nodes', edits[e].id, LiveIds)
  BY <1>2, <1>3, WriteStep
<1>5. nodes \in Seq(Node)
  BY SMTT(60) DEF IInv, TypeOK
<1>6. Step(nodes, nodes', edits[e].id, LiveIds)
  BY <1>2, <1>4, <1>5, StepTrans
<1> QED BY <1>6, Written

(* The child the cursor reaches, once owned, is a node.                        *)
LEMMA KidIsNode ==
    ASSUME IInv, NEW e \in Slots, edits[e].id # 0, edits[e].at # 0, NEW i \in HereKids(e)
    PROVE  OwnedKid(e, i)[Owned(nodes, edits[e].id, nodes[edits[e].at].kids[i])] \in Node
BY OwnedKidStep, SMTT(60) DEF HeapOK, Mine

(* set_int.                                                                    *)
LEMMA SetIntProgress ==
    ASSUME IInv, NEW e \in Slots, NEW i \in HereKids(e), NEW v \in Values, SetInt(e, i, v)
    PROVE  Progress(e)
<1> DEFINE k == Owned(nodes, edits[e].id, nodes[edits[e].at].kids[i])
           x == OwnedKid(e, i)[k]
           c == [x EXCEPT !.ival = v, !.bval = <<>>]
<1>1. Writing(e, "set_int") /\ edits[e].id # 0 /\ edits[e].at # 0
  BY ZenonT(60) DEF SetInt, Writing, Live
<1>2. nodes' = Put(OwnedKid(e, i), k, c)
  BY DEF SetInt
<1>3. x \in Node
  BY <1>1, KidIsNode
<1> HIDE DEF x
<1>4. c \in Node /\ c.owner = x.owner /\ c.kids = x.kids
  BY <1>3, NodeInt, DocumentAssumption, ZenonT(60)
<1> HIDE DEF c
<1> QED BY <1>1, <1>2, <1>4, KidWritten, ZenonT(60) DEF x, k

(* set_bytes.                                                                  *)
LEMMA SetBytesProgress ==
    ASSUME IInv, NEW e \in Slots, NEW i \in HereKids(e), NEW b \in Blobs, SetBytes(e, i, b)
    PROVE  Progress(e)
<1> DEFINE k == Owned(nodes, edits[e].id, nodes[edits[e].at].kids[i])
           x == OwnedKid(e, i)[k]
           c == [x EXCEPT !.bval = b]
<1>1. Writing(e, "set_bytes") /\ edits[e].id # 0 /\ edits[e].at # 0
  BY ZenonT(60) DEF SetBytes, Writing, Live
<1>2. nodes' = Put(OwnedKid(e, i), k, c)
  BY DEF SetBytes
<1>3. x \in Node
  BY <1>1, KidIsNode
<1> HIDE DEF x
<1>4. c \in Node /\ c.owner = x.owner /\ c.kids = x.kids
  BY <1>3, NodeBytes, DocumentAssumption
<1> HIDE DEF c
<1> QED BY <1>1, <1>2, <1>4, KidWritten, ZenonT(60) DEF x, k

(* The cursor's node gets other children.                                      *)
LEMMA HereWritten ==
    ASSUME IInv, NEW e \in Slots, NEW call, Writing(e, call),
           NEW node \in Node, nodes' = Put(nodes, edits[e].at, node),
           node.owner = nodes[edits[e].at].owner,
           KidsFit(nodes, LiveIds, edits[e].id, node.kids)
    PROVE  Progress(e)
<1>1. edits[e].id # 0 /\ edits[e].at # 0
  BY DEF Writing, Live
<1>2. /\ HeapOK(nodes, LiveIds) /\ Mine(nodes, edits[e].id, edits[e].at)
      /\ node.owner = edits[e].id
  BY <1>1, InvParts, Cursor
<1>3. Step(nodes, nodes', edits[e].id, LiveIds)
  BY <1>2, PutStep
<1> QED BY <1>3, Written

(* splice.                                                                     *)
LEMMA SpliceProgress ==
    ASSUME IInv, NEW e \in Slots, NEW b \in Blobs, Splice(e, b)
    PROVE  Progress(e)
<1> DEFINE n == nodes[edits[e].at]
           c == [n EXCEPT !.kids = <<>>, !.bval = b, !.type = "Bytes",
                          !.enc = "Fixed", !.parsed = FALSE,
                          !.resized = @ \/ Len(b) # n.e - n.s]
<1>1. Writing(e, "splice") /\ edits[e].id # 0 /\ edits[e].at # 0
  BY DEF Splice, Writing, Live
<1>2. nodes' = Put(nodes, edits[e].at, c)
  BY DEF Splice
<1>3. n \in Node
  BY <1>1, Cursor
<1> HIDE DEF n
<1>4. c \in Node /\ c.owner = n.owner /\ c.kids = <<>>
  <2> DEFINE r == n.resized \/ Len(b) # n.e - n.s
  <2>1. r \in BOOLEAN /\ b \in Seq(Nat) /\ "Bytes" \in CaptureType /\ "Fixed" \in Enc
    BY DocumentAssumption DEF CaptureType, Enc
  <2> HIDE DEF r
  <2>2. \A ks \in Seq(Nat) : LET u == [n EXCEPT !.kids = ks, !.bval = b, !.type = "Bytes",
                                      !.enc = "Fixed", !.parsed = FALSE, !.resized = r]
                            IN  u \in Node /\ u.owner = n.owner /\ u.kids = ks
    BY <1>3, <2>1 DEF Node
  <2>3. c = [n EXCEPT !.kids = <<>>, !.bval = b, !.type = "Bytes",
                      !.enc = "Fixed", !.parsed = FALSE, !.resized = r]
    BY <1>3 DEF r, Node
  <2>4. <<>> \in Seq(Nat)
    OBVIOUS
  <2> HIDE DEF c
  <2> QED BY <2>2, <2>3, <2>4
<1> HIDE DEF c
<1>5. KidsFit(nodes, LiveIds, edits[e].id, c.kids)
  BY <1>4 DEF KidsFit
<1> QED BY <1>1, <1>2, <1>4, <1>5, HereWritten DEF n

(* append(type).                                                               *)
LEMMA AppendIntProgress ==
    ASSUME IInv, NEW e \in Slots, NEW elem \in Elems, NEW v \in Values, AppendInt(e, elem, v)
    PROVE  Progress(e)
<1> DEFINE L == LiveIds
           id == edits[e].id
           p == edits[e].at
           leaf == NewLeaf(elem, v, id)
           g == Append(nodes, leaf)
           ks == Append(nodes[p].kids, Len(nodes) + 1)
           c == Resized(nodes[p], ks)
<1>1. Writing(e, "append") /\ id # 0 /\ p # 0
  BY DEF AppendInt, Writing, Live
<1>2. nodes' = Put(g, p, c)
  BY DEF AppendInt
<1>3. /\ HeapOK(nodes, L) /\ nodes \in Seq(Node) /\ id \in L /\ id \in Nat
      /\ Mine(nodes, id, p) /\ nodes[p] \in Node /\ nodes[p].kids \in Seq(Nat)
      /\ nodes[p].owner = id /\ KidsFit(nodes, L, id, nodes[p].kids)
  BY <1>1, InvParts, Cursor
<1> HIDE DEF L, id, p
<1>4. leaf \in Node /\ leaf.owner = id /\ leaf.kids = <<>>
  BY <1>3, NodeLeaf, DocumentAssumption
<1> HIDE DEF leaf
<1>5. KidsFit(nodes, L, id, leaf.kids)
  BY <1>4 DEF KidsFit
<1>6. Step(nodes, g, id, L) /\ Len(g) = Len(nodes) + 1 /\ g[Len(nodes) + 1] = leaf
  BY <1>3, <1>4, <1>5, PushStep
<1>7. g \in Seq(Node) /\ HeapOK(g, L) /\ Mine(g, id, p) /\ Evolves(nodes, g, id)
  BY <1>3, <1>6, MineKept DEF Step, HeapOK
<1> HIDE DEF g
<1>8. /\ ks \in Seq(Nat) /\ Len(ks) = Len(nodes[p].kids) + 1
      /\ \A j \in 1 .. Len(ks) : ks[j] = IF j = Len(ks) THEN Len(nodes) + 1 ELSE nodes[p].kids[j]
  BY <1>3
<1> HIDE DEF ks
<1>9. KidsFit(g, L, id, nodes[p].kids)
  BY <1>3, <1>7, KidsFitKept
<1>10. KidsFit(g, L, id, ks)
  <2>1. Len(nodes) \in Nat /\ Len(nodes[p].kids) \in Nat
    BY <1>3
  <2>2. Len(nodes) + 1 \in 1 .. Len(g) /\ g[Len(nodes) + 1].owner = id
    BY <1>4, <1>6, <2>1
  <2>3. \A j \in 1 .. Len(ks) : j = Len(ks) \/ j \in 1 .. Len(nodes[p].kids)
    BY <1>8, <2>1
  <2> QED BY <1>8, <1>9, <2>2, <2>3 DEF KidsFit
<1>11. c \in Node /\ c.owner = id /\ c.kids = ks
  BY <1>3, <1>8, NodeResized
<1> HIDE DEF c
<1>12. KidsFit(g, L, id, c.kids)
  BY <1>10, <1>11
<1>13. Step(g, Put(g, p, c), id, L)
  BY <1>7, <1>11, <1>12, PutStep
<1>14. Step(nodes, nodes', id, L)
  BY <1>2, <1>3, <1>6, <1>13, StepTrans
<1> QED BY <1>1, <1>14, Written DEF id, L

(* A node lifted out of a document is frozen.                                  *)
LEMMA LiftsFrozen ==
    ASSUME IInv, NEW d \in 1 .. Len(docs), NEW x \in Lifts(d)
    PROVE  x \in 1 .. Len(nodes) /\ nodes[x].owner \notin LiveIds
<1>1. docs[d].root \in 1 .. Len(nodes) /\ nodes[docs[d].root].owner \notin LiveIds
  BY DEF IInv, TypeOK, Isolated, Frozen
<1>2. ASSUME NEW n \in 1 .. Len(nodes), nodes[n].owner \notin LiveIds, NEW k \in KidsOf(n)
      PROVE  k \in 1 .. Len(nodes) /\ nodes[k].owner \notin LiveIds
  <2>1. PICK i \in 1 .. Len(nodes[n].kids) : k = nodes[n].kids[i]
    BY DEF KidsOf
  <2> QED BY <1>2, <2>1 DEF IInv, TypeOK, Isolated, Frozen
<1>3. CASE x \in KidsOf(docs[d].root)
  BY <1>1, <1>2, <1>3
<1>4. CASE \E n \in KidsOf(docs[d].root) : x \in KidsOf(n)
  <2>1. PICK n \in KidsOf(docs[d].root) : x \in KidsOf(n)
    BY <1>4
  <2>2. n \in 1 .. Len(nodes) /\ nodes[n].owner \notin LiveIds
    BY <1>1, <1>2
  <2> QED BY <1>2, <2>1, <2>2
<1> QED BY <1>3, <1>4 DEF Lifts

(* append(node_ptr).                                                           *)
LEMMA AppendNodeProgress ==
    ASSUME IInv, NEW e \in Slots, NEW d \in 1 .. Len(docs), NEW x \in Lifts(d),
           AppendNode(e, d, x)
    PROVE  Progress(e)
<1> DEFINE n == nodes[edits[e].at]
           ks == Append(n.kids, x)
           c == Resized(n, ks)
<1>1. Writing(e, "append_node") /\ edits[e].id # 0 /\ edits[e].at # 0
  BY DEF AppendNode, Writing, Live
<1>2. nodes' = Put(nodes, edits[e].at, c)
  BY DEF AppendNode
<1>3. /\ n \in Node /\ n.kids \in Seq(Nat) /\ nodes \in Seq(Node)
      /\ KidsFit(nodes, LiveIds, edits[e].id, n.kids)
  BY <1>1, Cursor, InvParts
<1>4. x \in 1 .. Len(nodes) /\ nodes[x].owner \notin LiveIds
  BY LiftsFrozen
<1> HIDE DEF n
<1>5. x \in Nat
  BY <1>3, <1>4
<1>6. /\ ks \in Seq(Nat) /\ Len(ks) = Len(n.kids) + 1
      /\ \A j \in 1 .. Len(ks) : ks[j] = x \/ (j \in 1 .. Len(n.kids) /\ ks[j] = n.kids[j])
  BY <1>3, <1>5
<1> HIDE DEF ks
<1>7. KidsFit(nodes, LiveIds, edits[e].id, ks)
  BY <1>3, <1>4, <1>6 DEF KidsFit
<1>8. c \in Node /\ c.owner = n.owner /\ c.kids = ks
  BY <1>3, <1>6, NodeResized
<1> HIDE DEF c
<1>9. KidsFit(nodes, LiveIds, edits[e].id, c.kids)
  BY <1>7, <1>8
<1> QED BY <1>1, <1>2, <1>8, <1>9, HereWritten DEF n

(* replace.                                                                    *)
LEMMA ReplaceKidProgress ==
    ASSUME IInv, NEW e \in Slots, NEW d \in 1 .. Len(docs), NEW x \in Lifts(d),
           NEW i \in HereKids(e), ReplaceKid(e, i, d, x)
    PROVE  Progress(e)
<1> DEFINE n == nodes[edits[e].at]
           ks == [n.kids EXCEPT ![i] = x]
           c == Resized(n, ks)
<1>1. Writing(e, "replace") /\ edits[e].id # 0 /\ edits[e].at # 0
  BY DEF ReplaceKid, Writing, Live
<1>2. nodes' = Put(nodes, edits[e].at, c)
  BY DEF ReplaceKid
<1>3. /\ n \in Node /\ n.kids \in Seq(Nat) /\ nodes \in Seq(Node)
      /\ KidsFit(nodes, LiveIds, edits[e].id, n.kids)
  BY <1>1, Cursor, InvParts
<1>4. x \in 1 .. Len(nodes) /\ nodes[x].owner \notin LiveIds
  BY LiftsFrozen
<1> HIDE DEF n
<1>5. x \in Nat
  BY <1>3, <1>4
<1>6. /\ ks \in Seq(Nat) /\ Len(ks) = Len(n.kids)
      /\ \A j \in 1 .. Len(ks) : ks[j] = x \/ (j \in 1 .. Len(n.kids) /\ ks[j] = n.kids[j])
  <2>1. i \in 1 .. Len(n.kids)
    BY <1>1, Cursor DEF n
  <2> QED BY <1>3, <1>5, <2>1
<1> HIDE DEF ks
<1>7. KidsFit(nodes, LiveIds, edits[e].id, ks)
  BY <1>3, <1>4, <1>6 DEF KidsFit
<1>8. c \in Node /\ c.owner = n.owner /\ c.kids = ks
  BY <1>3, <1>6, NodeResized
<1> HIDE DEF c
<1>9. KidsFit(nodes, LiveIds, edits[e].id, c.kids)
  BY <1>7, <1>8
<1> QED BY <1>1, <1>2, <1>8, <1>9, HereWritten DEF n

(* remove.                                                                     *)
LEMMA RemoveKidProgress ==
    ASSUME IInv, NEW e \in Slots, NEW i \in HereKids(e), RemoveKid(e, i)
    PROVE  Progress(e)
<1> DEFINE n == nodes[edits[e].at]
           ks == RemoveAt(n.kids, i)
           c == Resized(n, ks)
<1>1. Writing(e, "remove") /\ edits[e].id # 0 /\ edits[e].at # 0
  BY DEF RemoveKid, Writing, Live
<1>2. nodes' = Put(nodes, edits[e].at, c)
  BY DEF RemoveKid
<1>3. /\ n \in Node /\ n.kids \in Seq(Nat) /\ i \in 1 .. Len(n.kids)
      /\ KidsFit(nodes, LiveIds, edits[e].id, n.kids)
  BY <1>1, Cursor
<1> HIDE DEF n
<1>6. /\ ks \in Seq(Nat)
      /\ \A j \in 1 .. Len(ks) : \E m \in 1 .. Len(n.kids) : ks[j] = n.kids[m]
  BY <1>3, RemoveAtParts
<1> HIDE DEF ks
<1>7. KidsFit(nodes, LiveIds, edits[e].id, ks)
  <2>1. ASSUME NEW j \in 1 .. Len(ks)
        PROVE  /\ ks[j] \in 1 .. Len(nodes)
               /\ nodes[ks[j]].owner \in LiveIds => nodes[ks[j]].owner = edits[e].id
    <3>1. PICK m \in 1 .. Len(n.kids) : ks[j] = n.kids[m]
      BY <1>6
    <3> QED BY <1>3, <3>1 DEF KidsFit
  <2> QED BY <2>1 DEF KidsFit
<1>8. c \in Node /\ c.owner = n.owner /\ c.kids = ks
  BY <1>3, <1>6, NodeResized
<1> HIDE DEF c
<1>9. KidsFit(nodes, LiveIds, edits[e].id, c.kids)
  BY <1>7, <1>8
<1> QED BY <1>1, <1>2, <1>8, <1>9, HereWritten DEF n

-----------------------------------------------------------------------------
(* The walk.                                                                   *)

(* A walking transient is alive, and so are the nodes on its stack.            *)
LEMMA WalkParts ==
    ASSUME IInv, NEW e \in Slots, Walking(e)
    PROVE  /\ edits[e].id # 0 /\ edits[e] \in Transient /\ edits[e].stack \in Seq(Frame)
           /\ \A j \in 1 .. Len(edits[e].stack) : Mine(nodes, edits[e].id, edits[e].stack[j].n)
           /\ edits[e].stack # <<>> =>
                  /\ Len(edits[e].stack) \in 1 .. Len(edits[e].stack)
                  /\ Top(e) \in Frame
                  /\ Mine(nodes, edits[e].id, Top(e).n)
<1>1. edits[e] \in Transient
  BY DEF IInv, TypeOK
<1>2. edits[e].stack \in Seq(Frame)
  BY <1>1 DEF Transient
<1>3. edits[e].id # 0
  <2>1. edits[e].id = 0 => edits[e].mode = "dead"
    BY DEF IInv, HandlesOwned, Dead
  <2> QED BY <2>1 DEF Walking
<1>4. \A j \in 1 .. Len(edits[e].stack) : Mine(nodes, edits[e].id, edits[e].stack[j].n)
  BY <1>3, InvParts DEF TransientOK
<1>5. edits[e].stack # <<>> => Len(edits[e].stack) \in 1 .. Len(edits[e].stack)
  BY <1>2
<1>6. edits[e].stack # <<>> => Top(e) \in Frame /\ Mine(nodes, edits[e].id, Top(e).n)
  BY <1>2, <1>4, <1>5 DEF Top
<1> QED BY <1>1, <1>2, <1>3, <1>4, <1>5, <1>6

(* A step of the walk: a heap of its own making and another stack.             *)
LEMMA Walks ==
    ASSUME IInv, NEW e \in Slots, Walking(e),
           Step(nodes, nodes', edits[e].id, LiveIds), docs' = docs, tokens' = tokens,
           NEW q \in Seq(Frame), edits' = [edits EXCEPT ![e].stack = q],
           \A j \in 1 .. Len(q) : Mine(nodes', edits[e].id, q[j].n)
    PROVE  Progress(e)
<1> DEFINE t == [edits[e] EXCEPT !.stack = q]
<1>1. edits[e].id # 0 /\ edits[e] \in Transient
  BY WalkParts
<1>2. edits' = [edits EXCEPT ![e] = t]
  OBVIOUS
<1>3. /\ t \in Transient /\ t.id = edits[e].id /\ t.root = edits[e].root
      /\ t.at = edits[e].at /\ t.stack = q
  BY <1>1 DEF Transient
<1> HIDE DEF t
<1> QED BY <1>1, <1>2, <1>3, Proceeds

(* The stack with its top one child on.                                        *)
LEMMA AdvancedParts ==
    ASSUME IInv, NEW e \in Slots, Walking(e), edits[e].stack # <<>>
    PROVE  /\ Advanced(e) \in Seq(Frame)
           /\ Len(Advanced(e)) = Len(edits[e].stack)
           /\ \A j \in 1 .. Len(Advanced(e)) : Mine(nodes, edits[e].id, Advanced(e)[j].n)
<1> DEFINE q == edits[e].stack
           m == Len(q)
           fr == [q[m] EXCEPT !.kid = @ + 1]
<1>1. /\ q \in Seq(Frame) /\ m \in 1 .. Len(q) /\ q[m] \in Frame
      /\ \A j \in 1 .. Len(q) : Mine(nodes, edits[e].id, q[j].n)
  BY WalkParts
<1>2. fr \in Frame /\ fr.n = q[m].n
  <2> DEFINE x == q[m].kid + 1
  <2>1. x \in Nat
    BY <1>1 DEF Frame
  <2> HIDE DEF x
  <2>2. \A f \in Frame : [f EXCEPT !.kid = x] \in Frame /\ [f EXCEPT !.kid = x].n = f.n
    BY <2>1 DEF Frame
  <2> QED BY <1>1, <2>2 DEF x
<1>3. Advanced(e) = [q EXCEPT ![m] = fr]
  BY DEF Advanced
<1> HIDE DEF fr, m, q
<1>4. /\ [q EXCEPT ![m] = fr] \in Seq(Frame) /\ Len([q EXCEPT ![m] = fr]) = Len(q)
      /\ \A j \in 1 .. Len(q) : [q EXCEPT ![m] = fr][j].n = q[j].n
  BY <1>1, <1>2
<1> QED BY <1>1, <1>3, <1>4 DEF q

(* The child the walk is at.                                                   *)
LEMMA VisitParts ==
    ASSUME IInv, NEW e \in Slots, Visiting(e)
    PROVE  /\ Walking(e) /\ edits[e].stack # <<>>
           /\ Mine(nodes, edits[e].id, Top(e).n)
           /\ Top(e).kid + 1 \in 1 .. Len(nodes[Top(e).n].kids)
           /\ NextKid(e) = nodes[Top(e).n].kids[Top(e).kid + 1]
<1>1. Walking(e) /\ edits[e].stack # <<>> /\ Top(e).kid < Len(nodes[Top(e).n].kids)
  BY DEF Visiting, KidsLeft
<1>2. Top(e) \in Frame /\ Mine(nodes, edits[e].id, Top(e).n) /\ HeapOK(nodes, LiveIds)
  BY <1>1, WalkParts, InvParts
<1>3. nodes[Top(e).n].kids \in Seq(Nat)
  BY <1>2, NodeParts DEF Mine, HeapOK
<1>4. Top(e).kid \in Nat /\ Len(nodes[Top(e).n].kids) \in Nat
  BY <1>2, <1>3 DEF Frame
<1>5. Top(e).kid + 1 \in 1 .. Len(nodes[Top(e).n].kids)
  BY <1>1, <1>4
<1> QED BY <1>1, <1>2, <1>5 DEF NextKid

(* A child still described by its span is passed over.                         *)
LEMMA SkipKidProgress ==
    ASSUME IInv, NEW e \in Slots, SkipKid(e)
    PROVE  Progress(e)
<1>1. /\ Walking(e) /\ edits[e].stack # <<>> /\ nodes' = nodes /\ docs' = docs
      /\ tokens' = tokens /\ edits' = [edits EXCEPT ![e].stack = Advanced(e)]
  BY DEF SkipKid, Visiting
<1>2. edits[e].id # 0
  BY <1>1, WalkParts
<1>3. Step(nodes, nodes', edits[e].id, LiveIds)
  BY <1>1, <1>2, InvParts, StepNone
<1>4. /\ Advanced(e) \in Seq(Frame)
      /\ \A j \in 1 .. Len(Advanced(e)) : Mine(nodes', edits[e].id, Advanced(e)[j].n)
  BY <1>1, AdvancedParts
<1> QED BY <1>1, <1>3, <1>4, Walks

(* A container is owned and entered.                                           *)
LEMMA EnterKidProgress ==
    ASSUME IInv, NEW e \in Slots, EnterKid(e)
    PROVE  Progress(e)
<1> DEFINE L == LiveIds
           id == edits[e].id
           p == Top(e).n
           i == Top(e).kid + 1
           g == OwnKid(nodes, id, p, i)
           k == Owned(nodes, id, NextKid(e))
           a == Advanced(e)
           fr == [n |-> k, kid |-> 0]
           q == Append(a, fr)
<1>1. Visiting(e)
  BY DEF EnterKid
<1>2. /\ Walking(e) /\ edits[e].stack # <<>> /\ Mine(nodes, id, p)
      /\ i \in 1 .. Len(nodes[p].kids) /\ NextKid(e) = nodes[p].kids[i]
  BY <1>1, VisitParts
<1>3. HeapOK(nodes, L) /\ nodes \in Seq(Node) /\ id \in L /\ id \in Nat
  BY <1>2, WalkParts, InvParts
<1>4. /\ nodes' = g /\ docs' = docs /\ tokens' = tokens
      /\ edits' = [edits EXCEPT ![e].stack = q]
  BY DEF EnterKid
<1>5. Step(nodes, g, id, L) /\ Mine(g, id, k)
  BY <1>2, <1>3, OwnKidStep
<1>6. a \in Seq(Frame) /\ \A j \in 1 .. Len(a) : Mine(nodes, id, a[j].n)
  BY <1>2, AdvancedParts
<1> HIDE DEF L, id, p, i, g, k, a
<1>7. \A j \in 1 .. Len(a) : Mine(g, id, a[j].n)
  BY <1>3, <1>5, <1>6, MineKept
<1>8. k \in Nat
  BY <1>5 DEF Mine, Step, HeapOK
<1>9. fr \in Frame /\ fr.n = k
  BY <1>8 DEF Frame
<1> HIDE DEF fr
<1>10. q \in Seq(Frame) /\ \A j \in 1 .. Len(q) : q[j] = fr \/ (j \in 1 .. Len(a) /\ q[j] = a[j])
  BY <1>6, <1>9
<1> HIDE DEF q
<1>11. \A j \in 1 .. Len(q) : Mine(g, id, q[j].n)
  BY <1>5, <1>7, <1>9, <1>10
<1> QED BY <1>2, <1>4, <1>5, <1>10, <1>11, Walks DEF L, id

(* A leaf that says what its span says is put back.                            *)
LEMMA RestoreKidProgress ==
    ASSUME IInv, NEW e \in Slots, RestoreKid(e)
    PROVE  Progress(e)
<1> DEFINE L == LiveIds
           id == edits[e].id
           p == Top(e).n
           i == Top(e).kid + 1
           g == OwnKid(nodes, id, p, i)
           k == Owned(nodes, id, NextKid(e))
           b == IF g[k].type = "Bytes" THEN <<>> ELSE g[k].bval
           c == [g[k] EXCEPT !.parsed = TRUE, !.bval = b]
<1>1. Visiting(e)
  BY DEF RestoreKid
<1>2. /\ Walking(e) /\ edits[e].stack # <<>> /\ Mine(nodes, id, p)
      /\ i \in 1 .. Len(nodes[p].kids) /\ NextKid(e) = nodes[p].kids[i]
  BY <1>1, VisitParts
<1>3. HeapOK(nodes, L) /\ nodes \in Seq(Node) /\ id \in L /\ id \in Nat
  BY <1>2, WalkParts, InvParts
<1>4. /\ nodes' = nodes \/ nodes' = Put(g, k, c)
      /\ docs' = docs /\ tokens' = tokens
      /\ edits' = [edits EXCEPT ![e].stack = Advanced(e)]
  BY DEF RestoreKid
<1>5. Step(nodes, g, id, L) /\ Mine(g, id, k)
  BY <1>2, <1>3, OwnKidStep
<1>6. /\ Advanced(e) \in Seq(Frame)
      /\ \A j \in 1 .. Len(Advanced(e)) : Mine(nodes, id, Advanced(e)[j].n)
  BY <1>2, AdvancedParts
<1> HIDE DEF L, id, p, i, g, k
<1>7. HeapOK(g, L) /\ g[k] \in Node
  BY <1>5 DEF Step, HeapOK, Mine
<1>8. b \in Seq(Nat)
  <2>1. g[k].bval \in Seq(Nat) /\ <<>> \in Seq(Nat)
    BY <1>7 DEF Node
  <2> QED BY <2>1
<1> HIDE DEF b
<1>9. c \in Node /\ c.owner = g[k].owner /\ c.kids = g[k].kids
  BY <1>7, <1>8 DEF Node
<1> HIDE DEF c
<1>10. Step(g, Put(g, k, c), id, L)
  BY <1>5, <1>7, <1>9, WriteStep
<1>11. Step(nodes, Put(g, k, c), id, L)
  BY <1>3, <1>5, <1>10, StepTrans
<1>12. Step(nodes, nodes', id, L)
  BY <1>3, <1>4, <1>11, StepNone
<1>13. \A j \in 1 .. Len(Advanced(e)) : Mine(nodes', id, Advanced(e)[j].n)
  BY <1>3, <1>6, <1>12, MineKept
<1> QED BY <1>2, <1>4, <1>6, <1>12, <1>13, Walks DEF id, L

(* A container leaves the stack once it is settled.                            *)
LEMMA Settles ==
    ASSUME IInv, NEW e \in Slots, Settling(e),
           Step(nodes, nodes', edits[e].id, LiveIds), docs' = docs, tokens' = tokens,
           edits' = Popped(e)
    PROVE  Progress(e)
<1> DEFINE q == Front(edits[e].stack)
<1>1. Walking(e) /\ edits[e].stack # <<>>
  BY DEF Settling
<1>2. /\ edits[e].stack \in Seq(Frame) /\ edits[e].id # 0
      /\ \A j \in 1 .. Len(edits[e].stack) : Mine(nodes, edits[e].id, edits[e].stack[j].n)
  BY <1>1, WalkParts
<1>3. /\ q \in Seq(Frame) /\ Len(q) = Len(edits[e].stack) - 1
      /\ \A j \in 1 .. Len(q) : q[j] = edits[e].stack[j]
  BY <1>1, <1>2, FrontParts
<1>4. edits' = [edits EXCEPT ![e].stack = q]
  BY DEF Popped
<1> HIDE DEF q
<1>5. \A j \in 1 .. Len(q) : j \in 1 .. Len(edits[e].stack)
  BY <1>2, <1>3
<1>6. \A j \in 1 .. Len(q) : Mine(nodes, edits[e].id, q[j].n)
  BY <1>2, <1>3, <1>5
<1>7. nodes \in Seq(Node)
  BY DEF IInv, TypeOK
<1>8. \A j \in 1 .. Len(q) : Mine(nodes', edits[e].id, q[j].n)
  BY <1>6, <1>7, MineKept
<1> QED BY <1>1, <1>3, <1>4, <1>8, Walks

(* A child found by name.                                                      *)
LEMMA NamedKid ==
    ASSUME NEW h, NEW p, NEW name, h[p].kids \in Seq(Nat), Named(h, p, name) # {}
    PROVE  First(Named(h, p, name)) \in 1 .. Len(h[p].kids)
<1>1. Named(h, p, name) \in SUBSET (1 .. Len(h[p].kids)) /\ Named(h, p, name) \in SUBSET Nat
  BY DEF Named
<1>2. First(Named(h, p, name)) \in Named(h, p, name)
  BY <1>1, FirstIn
<1> QED BY <1>1, <1>2

(* The children of a node one holds.                                           *)
LEMMA MineKids ==
    ASSUME NEW L, NEW h, HeapOK(h, L), NEW id, NEW p, Mine(h, id, p)
    PROVE  h[p].kids \in Seq(Nat) /\ h[p] \in Node
<1>1. h[p] \in Node
  BY DEF HeapOK, Mine
<1> QED BY <1>1, NodeParts

(* The count of an array is written where its path leads.                      *)
LEMMA CountStep ==
    ASSUME IInv, NEW e \in Slots, Settling(e)
    PROVE  Step(nodes, CountWritten(e), edits[e].id, LiveIds)
<1> DEFINE L == LiveIds
           id == edits[e].id
           n == nodes[Top(e).n]
           path == n.determines
           d == Holder(edits[e].stack, path[1])
           p == edits[e].stack[d].n
           i == First(Named(nodes, p, path[1]))
           want == Len(n.kids)
           inner == Owned(nodes, id, nodes[p].kids[i])
           h == OwnKid(nodes, id, p, i)
           j == First(Named(h, inner, path[2]))
<1>1. Walking(e) /\ edits[e].stack # <<>>
  BY DEF Settling
<1>2. /\ edits[e].stack \in Seq(Frame) /\ id # 0 /\ Mine(nodes, id, Top(e).n)
      /\ \A c \in 1 .. Len(edits[e].stack) : Mine(nodes, id, edits[e].stack[c].n)
  BY <1>1, WalkParts
<1>3. HeapOK(nodes, L) /\ nodes \in Seq(Node) /\ id \in L /\ id \in Nat
  BY <1>2, InvParts
<1>4. n \in Node /\ n.kids \in Seq(Nat)
  BY <1>2, <1>3, MineKids, NodeParts
<1>5. want \in Int
  BY <1>4
<1>6. /\ d \in 0 .. Len(edits[e].stack)
      /\ d # 0 => Named(nodes, p, path[1]) # {}
  BY <1>2, HolderFound
<1>7. CountWritten(e) =
          IF path = <<>> \/ d = 0 THEN nodes
          ELSE IF Len(path) = 1 THEN Derived(nodes, e, p, i, want, 0)
          ELSE IF Named(h, inner, path[2]) = {} THEN h
          ELSE Derived(h, e, inner, j, want, inner)
  BY DEF CountWritten
<1> HIDE DEF L, n, path, d, want, id
<1>8. CASE path = <<>> \/ d = 0
  <2>1. CountWritten(e) = nodes
    BY <1>7, <1>8
  <2> QED BY <1>3, <2>1, StepNone, SMTT(60) DEF id, L
<1>9. CASE path # <<>> /\ d # 0
  <2>1. Mine(nodes, id, p) /\ nodes[p].kids \in Seq(Nat)
    <3>1. d \in 1 .. Len(edits[e].stack)
      BY <1>2, <1>6, <1>9
    <3> QED BY <1>2, <1>3, <3>1, MineKids
  <2> HIDE DEF p
  <2>2. i \in 1 .. Len(nodes[p].kids)
    BY <1>6, <1>9, <2>1, NamedKid
  <2> HIDE DEF i
  <2>3. CASE Len(path) = 1
    <3>1. CountWritten(e) = Derived(nodes, e, p, i, want, 0)
      BY <1>7, <1>9, <2>3
    <3>2. Step(nodes, Derived(nodes, e, p, i, want, 0), id, L)
      BY <1>3, <1>5, <2>1, <2>2, DerivedStep DEF id
    <3> QED BY <3>1, <3>2 DEF id, L
  <2>4. CASE Len(path) # 1
    <3>1. CountWritten(e) = IF Named(h, inner, path[2]) = {} THEN h
                            ELSE Derived(h, e, inner, j, want, inner)
      BY <1>7, <1>9, <2>4
    <3>2. Step(nodes, h, id, L) /\ Mine(h, id, inner)
      BY <1>3, <2>1, <2>2, OwnKidStep
    <3> HIDE DEF h, inner
    <3>3. HeapOK(h, L)
      BY <3>2 DEF Step
    <3>4. h[inner].kids \in Seq(Nat)
      BY <3>2, <3>3, MineKids
    <3>5. CASE Named(h, inner, path[2]) = {}
      BY <3>1, <3>2, <3>5 DEF id, L
    <3>6. CASE Named(h, inner, path[2]) # {}
      <4>1. j \in 1 .. Len(h[inner].kids)
        BY <3>4, <3>6, NamedKid
      <4> HIDE DEF j
      <4>2. Step(h, Derived(h, e, inner, j, want, inner), id, L)
        BY <1>3, <1>5, <3>2, <3>3, <4>1, DerivedStep DEF id
      <4>3. Step(nodes, Derived(h, e, inner, j, want, inner), id, L)
        BY <1>3, <3>2, <4>2, StepTrans
      <4> QED BY <3>1, <3>6, <4>3 DEF id, L
    <3> QED BY <3>5, <3>6
  <2> QED BY <2>3, <2>4
<1> QED BY <1>8, <1>9

(* The window after a size field is written into it.                           *)
LEMMA WindowStep ==
    ASSUME IInv, NEW e \in Slots, SettleWindow(e)
    PROVE  Step(nodes, nodes', edits[e].id, LiveIds)
<1> DEFINE L == LiveIds
           id == edits[e].id
           p == Top(e).n
           sizes == Named(nodes, p, nodes[p].determines[1])
           i == First(sizes)
           w == Window(e, p, i)
<1>1. Walking(e) /\ edits[e].stack # <<>>
  BY DEF SettleWindow, Settling
<1>2. id # 0 /\ Mine(nodes, id, p)
  BY <1>1, WalkParts
<1>3. HeapOK(nodes, L) /\ id \in L /\ id \in Nat
  BY <1>2, InvParts
<1>4. CASE sizes = {}
  <2>1. nodes' = nodes
    BY <1>4 DEF SettleWindow
  <2> QED BY <1>3, <2>1, StepNone
<1>5. CASE sizes # {}
  <2>1. w \in 0 .. MaxBytes /\ nodes' = Derived(nodes, e, p, i, w, 0)
    BY <1>5 DEF SettleWindow
  <2>2. i \in 1 .. Len(nodes[p].kids)
    BY <1>2, <1>3, <1>5, MineKids, NamedKid
  <2> HIDE DEF w, i
  <2>3. w \in Int
    BY <2>1, DocumentAssumption
  <2> QED BY <1>2, <1>3, <2>1, <2>2, <2>3, DerivedStep
<1> QED BY <1>4, <1>5

(* What is left of the walk.                                                   *)
LEMMA SettleProgress ==
    ASSUME IInv, NEW e \in Slots,
           SettleCount(e) \/ SettleWindow(e) \/ SettleNothing(e)
    PROVE  Progress(e)
<1>1. Settling(e) /\ docs' = docs /\ tokens' = tokens /\ edits' = Popped(e)
  BY DEF SettleCount, SettleWindow, SettleNothing
<1>2. CASE SettleCount(e)
  <2>1. nodes' = CountWritten(e)
    BY <1>2 DEF SettleCount
  <2> QED BY <1>1, <2>1, CountStep, Settles
<1>3. CASE SettleWindow(e)
  BY <1>1, <1>3, WindowStep, Settles
<1>4. CASE SettleNothing(e)
  <2>1. nodes' = nodes /\ HeapOK(nodes, LiveIds)
    BY <1>1, <1>4, WalkParts, InvParts DEF SettleNothing, Settling
  <2> QED BY <1>1, <2>1, StepNone, Settles
<1> QED BY <1>2, <1>3, <1>4

(* commit() and serialize() own the root, unless its span still describes it.  *)
LEMMA EnterProgress ==
    ASSUME IInv, NEW e \in Slots, NEW mode \in {"commit", "serialize"}, Enter(e, mode)
    PROVE  Progress(e)
<1> DEFINE L == LiveIds
           id == edits[e].id
           root == edits[e].root
           r == Owned(nodes, id, root)
<1>1. edits[e].id # 0 /\ edits[e] \in Transient /\ mode \in Modes
  BY DEF Enter, Live, IInv, TypeOK, Modes
<1>2. /\ HeapOK(nodes, L) /\ TransientOK(nodes, L, edits[e])
      /\ id \in L /\ id \in Nat
  BY <1>1, InvParts
<1>3. docs' = docs /\ tokens' = tokens
  BY DEF Enter
<1>4. CASE nodes[root].parsed
  <2> DEFINE t == [edits[e] EXCEPT !.mode = mode]
  <2>1. nodes' = nodes /\ edits' = [edits EXCEPT ![e] = t]
    BY <1>4 DEF Enter
  <2>2. Step(nodes, nodes', id, L)
    BY <1>2, <2>1, StepNone
  <2>3. /\ t \in Transient /\ t.id = id /\ t.root = root /\ t.at = edits[e].at
        /\ t.stack = edits[e].stack
    BY <1>1 DEF Transient
  <2> HIDE DEF t
  <2> QED BY <1>1, <1>3, <2>1, <2>2, <2>3, Proceeds
<1>5. CASE ~nodes[root].parsed
  <2> DEFINE q == <<[n |-> r, kid |-> 0]>>
             t == [edits[e] EXCEPT !.mode = mode, !.root = r, !.stack = q]
  <2>1. nodes' = Own(nodes, id, root)
    BY <1>5 DEF Enter
  <2>2. edits \in [Slots -> Transient]
    BY DEF IInv, TypeOK
  <2>3. edits' = [edits EXCEPT ![e] = t]
    BY <1>5, <2>2 DEF Enter
  <2>4. Step(nodes, nodes', id, L) /\ Mine(nodes', id, r)
    BY <1>2, <2>1, OwnStep DEF TransientOK
  <2>5. r \in Nat
    BY <2>4 DEF Mine, Step, HeapOK
  <2> HIDE DEF r
  <2>6. q \in Seq(Frame) /\ \A j \in 1 .. Len(q) : q[j].n = r
    BY <2>5 DEF Frame
  <2> HIDE DEF q
  <2>7. /\ t \in Transient /\ t.id = id /\ t.root = r /\ t.at = edits[e].at
        /\ t.stack = q
    BY <1>1, <2>5, <2>6 DEF Transient
  <2> HIDE DEF t
  <2>8. \A j \in 1 .. Len(t.stack) : Mine(nodes', id, t.stack[j].n)
    BY <2>4, <2>6, <2>7
  <2> QED BY <1>1, <1>3, <2>3, <2>4, <2>7, <2>8, Proceeds
<1> QED BY <1>4, <1>5

(* serialize() comes back.                                                     *)
LEMMA SerializeDoneProgress ==
    ASSUME IInv, NEW e \in Slots, SerializeDone(e)
    PROVE  Progress(e)
<1> DEFINE t == [edits[e] EXCEPT !.mode = "edit"]
<1>1. edits[e].id # 0 /\ edits[e] \in Transient
  BY WalkParts DEF SerializeDone, Walked
<1>2. nodes' = nodes /\ docs' = docs /\ tokens' = tokens /\ edits' = [edits EXCEPT ![e] = t]
  BY DEF SerializeDone
<1>3. Step(nodes, nodes', edits[e].id, LiveIds)
  BY <1>1, <1>2, InvParts, StepNone
<1>4. /\ t \in Transient /\ t.id = edits[e].id /\ t.root = edits[e].root
      /\ t.at = edits[e].at /\ t.stack = edits[e].stack
  BY <1>1 DEF Transient, Modes
<1> HIDE DEF t
<1> QED BY <1>1, <1>2, <1>3, <1>4, Proceeds

(* begin_edit: a new id is live, and no node carries it.                       *)
LEMMA BeginEditKeeps ==
    ASSUME IInv, NEW e \in Slots, NEW d \in 1 .. Len(docs), BeginEdit(e, d)
    PROVE  IInv'
<1> DEFINE t == [id |-> tokens, root |-> docs[d].root, src |-> docs[d].src,
                 from |-> d, at |-> 0, mode |-> "edit", stack |-> <<>>, ops |-> 0]
<1>1. /\ edits[e].id = 0 /\ edits' = [edits EXCEPT ![e] = t] /\ tokens' = tokens + 1
      /\ nodes' = nodes /\ docs' = docs
  BY DEF BeginEdit
<1>2. /\ edits \in [Slots -> Transient] /\ tokens \in Nat \ {0} /\ docs \in Seq(Document)
      /\ nodes \in Seq(Node) /\ docs[d] \in Document /\ docs[d].root \in 1 .. Len(nodes)
  BY DEF IInv, TypeOK
<1>3. /\ t \in Transient /\ t.id = tokens /\ t.root = docs[d].root /\ t.at = 0
      /\ t.stack = <<>>
  <2>1. /\ docs[d].root \in Nat /\ docs[d].src \in Nat /\ d \in Nat /\ tokens \in Nat
        /\ "edit" \in Modes /\ <<>> \in Seq(Frame)
    BY <1>2 DEF Document, Modes
  <2>2. \A q \in Seq(Frame) :
            [id |-> tokens, root |-> docs[d].root, src |-> docs[d].src,
             from |-> d, at |-> 0, mode |-> "edit", stack |-> q, ops |-> 0] \in Transient
    BY <2>1 DEF Transient
  <2>3. t \in Transient
    BY <2>1, <2>2
  <2> QED BY <2>3
<1> HIDE DEF t
<1>4. /\ edits' \in [Slots -> Transient] /\ edits'[e] = t
      /\ \A f \in Slots \ {e} : edits'[f] = edits[f]
  BY <1>1, <1>2, <1>3
<1>5. /\ \A n \in 1 .. Len(nodes) : nodes[n].owner < tokens
      /\ \A f \in Slots : edits[f].id < tokens /\ edits[f].id \in Nat
  BY <1>2 DEF IInv, TokensFresh, Transient
<1>6. \A n \in 1 .. Len(nodes) : nodes[n].owner \in Nat
  BY <1>2, NodeParts
<1>7. \A x \in LiveIds' : x = tokens \/ x \in LiveIds
  BY <1>3, <1>4 DEF LiveIds
<1>8. \A n \in 1 .. Len(nodes) : nodes[n].owner \notin LiveIds => nodes[n].owner \notin LiveIds'
  <2>1. \A n \in 1 .. Len(nodes) : nodes[n].owner # tokens
    BY <1>2, <1>5, <1>6
  <2> QED BY <1>7, <2>1
<1>9. TypeOK'
  BY <1>1, <1>2, <1>4 DEF IInv, TypeOK
<1>10. TokensFresh'
  <2>1. \A n \in 1 .. Len(nodes) : nodes[n].owner < tokens + 1
    BY <1>2, <1>5, <1>6
  <2>2. \A f \in Slots : edits'[f].id < tokens + 1
    BY <1>2, <1>3, <1>4, <1>5, SMTT(60)
  <2>3. ASSUME NEW f \in Slots, NEW g \in Slots, edits'[f].id = edits'[g].id, edits'[f].id # 0
        PROVE  f = g
    <3>1. \A x \in Slots \ {e} : edits'[x].id # tokens
      BY <1>2, <1>4, <1>5
    <3>2. CASE f = e \/ g = e
      BY <1>3, <1>4, <2>3, <3>1, <3>2
    <3>3. CASE f # e /\ g # e
      BY <1>4, <2>3, <3>3 DEF IInv, TokensFresh
    <3> QED BY <3>2, <3>3
  <2> QED BY <1>1, <2>1, <2>2, <2>3 DEF TokensFresh
<1>11. HandlesOwned'
  <2>1. ASSUME NEW f \in Slots PROVE
            /\ edits'[f].id = 0 => edits'[f] = Dead
            /\ edits'[f].id # 0 => edits'[f].root \in 1 .. Len(nodes)
            /\ edits'[f].at # 0 => /\ edits'[f].at \in 1 .. Len(nodes)
                                   /\ nodes[edits'[f].at].owner = edits'[f].id
            /\ \A j \in 1 .. Len(edits'[f].stack) :
                   /\ edits'[f].stack[j].n \in 1 .. Len(nodes)
                   /\ nodes[edits'[f].stack[j].n].owner = edits'[f].id
    <3>1. CASE f = e
      BY <1>2, <1>3, <1>4, <3>1
    <3>2. CASE f # e
      BY <1>4, <3>2, SMTT(60) DEF IInv, HandlesOwned
    <3> QED BY <3>1, <3>2
  <2> QED BY <1>1, <2>1 DEF HandlesOwned
<1>12. Isolated'
  <2>1. \A c \in 1 .. Len(docs) : nodes[docs[c].root].owner \notin LiveIds'
    BY <1>8 DEF IInv, TypeOK, Isolated, Frozen
  <2>2. \A n \in 1 .. Len(nodes) : \A i \in 1 .. Len(nodes[n].kids) :
            \/ nodes[nodes[n].kids[i]].owner \notin LiveIds'
            \/ nodes[nodes[n].kids[i]].owner = nodes[n].owner
    BY <1>8 DEF IInv, TypeOK, Isolated, Frozen
  <2>3. ASSUME NEW f \in Slots, edits'[f].id # 0 PROVE
            \/ nodes[edits'[f].root].owner \notin LiveIds'
            \/ nodes[edits'[f].root].owner = edits'[f].id
    <3>1. CASE f = e
      BY <1>3, <1>4, <2>1, <3>1
    <3>2. CASE f # e
      <4>1. edits'[f] = edits[f] /\ edits[f].root \in 1 .. Len(nodes)
        BY <1>4, <2>3, <3>2 DEF IInv, HandlesOwned
      <4>2. \/ nodes[edits[f].root].owner \notin LiveIds
            \/ nodes[edits[f].root].owner = edits[f].id
        BY <2>3, <4>1 DEF IInv, Isolated, Frozen
      <4> QED BY <1>8, <4>1, <4>2
    <3> QED BY <3>1, <3>2
  <2> QED BY <1>1, <2>1, <2>2, <2>3 DEF Isolated, Frozen
<1> QED BY <1>9, <1>10, <1>11, <1>12 DEF IInv

(* commit: the id dies, and what carried it is frozen.                         *)
LEMMA CommitDoneKeeps ==
    ASSUME IInv, NEW e \in Slots, CommitDone(e)
    PROVE  IInv'
<1> DEFINE new == [root |-> edits[e].root, src |-> edits[e].src, from |-> edits[e].from]
<1>1. /\ docs' = Append(docs, new) /\ edits' = [edits EXCEPT ![e] = Dead]
      /\ nodes' = nodes /\ tokens' = tokens /\ Walking(e)
  BY DEF CommitDone, Walked
<1>2. /\ edits \in [Slots -> Transient] /\ docs \in Seq(Document) /\ nodes \in Seq(Node)
      /\ edits[e].id # 0 /\ edits[e] \in Transient
  BY <1>1, WalkParts DEF IInv, TypeOK
<1>3. new \in Document /\ new.root = edits[e].root
  BY <1>2 DEF Transient, Document
<1> HIDE DEF new
<1>4. /\ docs' \in Seq(Document) /\ Len(docs') = Len(docs) + 1
      /\ \A d \in 1 .. Len(docs') : docs'[d] = new \/ (d \in 1 .. Len(docs) /\ docs'[d] = docs[d])
  BY <1>1, <1>2, <1>3
<1>5. /\ edits' \in [Slots -> Transient] /\ edits'[e] = Dead
      /\ \A f \in Slots \ {e} : edits'[f] = edits[f]
  <2>1. Dead \in Transient
    <3>1. <<>> \in Seq(Frame)
      OBVIOUS
    <3> QED BY <3>1 DEF Dead, Transient, Modes
  <2> QED BY <1>1, <1>2, <2>1
<1>6. Dead.id = 0 /\ Dead.at = 0 /\ Dead.stack = <<>>
  BY DEF Dead
<1>7. \A f \in Slots : edits'[f].id # 0 => f # e /\ edits'[f] = edits[f]
  BY <1>5, <1>6
<1>8. edits[e].id \notin LiveIds'
  <2>1. \A f \in Slots : f # e => edits[f].id # edits[e].id
    BY <1>2 DEF IInv, TokensFresh
  <2> QED BY <1>5, <1>6, <1>7, <2>1 DEF LiveIds
<1>9. \A x \in LiveIds' : x \in LiveIds
  BY <1>7 DEF LiveIds
<1>10. /\ edits[e].root \in 1 .. Len(nodes)
       /\ nodes[edits[e].root].owner \notin LiveIds'
  <2>1. edits[e].root \in 1 .. Len(nodes)
    BY <1>2 DEF IInv, HandlesOwned
  <2>2. \/ nodes[edits[e].root].owner \notin LiveIds
        \/ nodes[edits[e].root].owner = edits[e].id
    BY <1>2 DEF IInv, Isolated, Frozen
  <2> QED BY <1>8, <1>9, <2>1, <2>2
<1>11. TypeOK'
  <2>1. \A d \in 1 .. Len(docs') : docs'[d].root \in 1 .. Len(nodes)
    BY <1>3, <1>4, <1>10 DEF IInv, TypeOK
  <2> QED BY <1>1, <1>4, <1>5, <2>1 DEF IInv, TypeOK
<1>12. TokensFresh'
  <2>1. \A n \in 1 .. Len(nodes) : nodes[n].owner < tokens
    BY DEF IInv, TokensFresh
  <2>2. ASSUME NEW f \in Slots PROVE edits'[f].id < tokens
    <3>1. CASE f = e
      BY <1>5, <1>6, <3>1 DEF IInv, TypeOK
    <3>2. CASE f # e
      BY <1>5, <3>2 DEF IInv, TokensFresh
    <3> QED BY <3>1, <3>2
  <2>3. \A f, g \in Slots : edits'[f].id = edits'[g].id /\ edits'[f].id # 0 => f = g
    BY <1>7 DEF IInv, TokensFresh
  <2> QED BY <1>1, <2>1, <2>2, <2>3 DEF TokensFresh
<1>13. HandlesOwned'
  <2>1. ASSUME NEW f \in Slots PROVE
            /\ edits'[f].id = 0 => edits'[f] = Dead
            /\ edits'[f].id # 0 => edits'[f].root \in 1 .. Len(nodes)
            /\ edits'[f].at # 0 => /\ edits'[f].at \in 1 .. Len(nodes)
                                   /\ nodes[edits'[f].at].owner = edits'[f].id
            /\ \A j \in 1 .. Len(edits'[f].stack) :
                   /\ edits'[f].stack[j].n \in 1 .. Len(nodes)
                   /\ nodes[edits'[f].stack[j].n].owner = edits'[f].id
    <3>1. CASE f = e
      BY <1>5, <1>6, <3>1
    <3>2. CASE f # e
      BY <1>5, <3>2 DEF IInv, HandlesOwned
    <3> QED BY <3>1, <3>2
  <2> QED BY <1>1, <2>1 DEF HandlesOwned
<1>14. Isolated'
  <2>1. \A d \in 1 .. Len(docs') : nodes[docs'[d].root].owner \notin LiveIds'
    BY <1>3, <1>4, <1>9, <1>10 DEF IInv, Isolated, Frozen
  <2>2. \A n \in 1 .. Len(nodes) : \A i \in 1 .. Len(nodes[n].kids) :
            \/ nodes[nodes[n].kids[i]].owner \notin LiveIds'
            \/ nodes[nodes[n].kids[i]].owner = nodes[n].owner
    BY <1>9 DEF IInv, Isolated, Frozen
  <2>3. \A f \in Slots : edits'[f].id # 0 =>
            \/ nodes[edits'[f].root].owner \notin LiveIds'
            \/ nodes[edits'[f].root].owner = edits'[f].id
    BY <1>7, <1>9 DEF IInv, Isolated, Frozen
  <2> QED BY <1>1, <2>1, <2>2, <2>3 DEF Isolated, Frozen
<1> QED BY <1>11, <1>12, <1>13, <1>14 DEF IInv

-----------------------------------------------------------------------------
(* Theorems.                                                                   *)

(* The documents the parses returned.                                          *)
LEMMA InitKeeps == Init => IInv
<1> SUFFICES ASSUME Init PROVE IInv
  OBVIOUS
<1>1. /\ nodes = Heap0 /\ docs = Docs0 /\ tokens = 1 /\ edits = [e \in Slots |-> Dead]
  BY DEF Init
<1>2. \A e \in Slots : edits[e] = Dead
  BY <1>1
<1>3. Dead \in Transient /\ Dead.id = 0 /\ Dead.at = 0 /\ Dead.stack = <<>>
  <2>1. <<>> \in Seq(Frame)
    OBVIOUS
  <2> QED BY <2>1 DEF Dead, Transient, Modes
<1>4. LiveIds = {}
  BY <1>2, <1>3 DEF LiveIds
<1>5. TypeOK
  BY <1>1, <1>3, DocumentAssumption DEF TypeOK
<1>6. TokensFresh
  <2>1. \A n \in 1 .. Len(nodes) : nodes[n].owner < tokens
    BY <1>1, DocumentAssumption
  <2>2. \A e \in Slots : edits[e].id < tokens
    BY <1>1, <1>2, <1>3
  <2> QED BY <1>2, <1>3, <2>1, <2>2 DEF TokensFresh
<1>7. HandlesOwned
  BY <1>2, <1>3 DEF HandlesOwned
<1>8. Isolated
  BY <1>2, <1>3, <1>4 DEF Isolated, Frozen
<1> QED BY <1>5, <1>6, <1>7, <1>8 DEF IInv

(* Every action but begin_edit and the end of commit is a step of a live       *)
(* transient.                                                                  *)
LEMMA NextCases ==
    ASSUME IInv, Next
    PROVE  \E e \in Slots : \/ \E d \in 1 .. Len(docs) : BeginEdit(e, d)
                            \/ CommitDone(e)
                            \/ Progress(e)
<1>1. PICK e \in Slots :
          \/ \E d \in 1 .. Len(docs) : BeginEdit(e, d)
          \/ RootMut(e)
          \/ \E i \in HereKids(e) : OwnChild(e, i)
          \/ Edit(e)
          \/ Commit(e) \/ Serialize(e)
          \/ Walk(e)
  BY DEF Next
<1>2. CASE RootMut(e)
  BY <1>2, RootMutProgress
<1>3. CASE \E i \in HereKids(e) : OwnChild(e, i)
  BY <1>3, OwnChildProgress
<1>4. CASE Edit(e)
  <2>1. CASE \E i \in HereKids(e), v \in Values : SetInt(e, i, v)
    BY <2>1, SetIntProgress
  <2>2. CASE \E i \in HereKids(e), b \in Blobs : SetBytes(e, i, b)
    BY <2>2, SetBytesProgress
  <2>3. CASE \E b \in Blobs : Splice(e, b)
    BY <2>3, SpliceProgress
  <2>4. CASE \E elem \in Elems, v \in Values : AppendInt(e, elem, v)
    BY <2>4, AppendIntProgress
  <2>5. CASE \E d \in 1 .. Len(docs) : \E x \in Lifts(d) : AppendNode(e, d, x)
    BY <2>5, AppendNodeProgress
  <2>6. CASE \E d \in 1 .. Len(docs) : \E x \in Lifts(d) :
                 \E i \in HereKids(e) : ReplaceKid(e, i, d, x)
    BY <2>6, ReplaceKidProgress
  <2>7. CASE \E i \in HereKids(e) : RemoveKid(e, i)
    BY <2>7, RemoveKidProgress
  <2> QED BY <1>4, <2>1, <2>2, <2>3, <2>4, <2>5, <2>6, <2>7 DEF Edit
<1>5. CASE Commit(e) \/ Serialize(e)
  BY <1>5, EnterProgress DEF Commit, Serialize
<1>6. CASE Walk(e)
  BY <1>6, SkipKidProgress, EnterKidProgress, RestoreKidProgress, SettleProgress,
     SerializeDoneProgress DEF Walk
<1> QED BY <1>1, <1>2, <1>3, <1>4, <1>5, <1>6

(* Every step keeps the invariant and the frozen nodes.                        *)
LEMMA NextKeeps ==
    ASSUME IInv, [Next]_vars
    PROVE  /\ IInv'
           /\ \A n \in 1 .. Len(nodes) : Frozen(n) => nodes'[n] = nodes[n]
<1>1. CASE Next
  <2>1. PICK e \in Slots : \/ \E d \in 1 .. Len(docs) : BeginEdit(e, d)
                           \/ CommitDone(e)
                           \/ Progress(e)
    BY <1>1, NextCases
  <2>2. CASE \E d \in 1 .. Len(docs) : BeginEdit(e, d)
    BY <2>2, BeginEditKeeps DEF BeginEdit
  <2>3. CASE CommitDone(e)
    BY <2>3, CommitDoneKeeps DEF CommitDone
  <2>4. CASE Progress(e)
    BY <2>4, Advance
  <2> QED BY <2>1, <2>2, <2>3, <2>4
<1>2. CASE UNCHANGED vars
  BY <1>2 DEF vars, IInv, TypeOK, TokensFresh, HandlesOwned, Isolated, Frozen, LiveIds
<1> QED BY <1>1, <1>2

(* Ownership tokens are fresh, a transient holds only nodes it owns, and what  *)
(* versions share no live transient may write: own(), append, replace, splice, *)
(* remove and the walk of commit() and serialize() keep this up.               *)
THEOREM DocumentInvariant == Spec => []IInv
<1>1. Init => IInv
  BY InitKeeps
<1>2. IInv /\ [Next]_vars => IInv'
  BY NextKeeps
<1> QED BY <1>1, <1>2, PTL DEF Spec

(* Structure is shared and writes are not (transient, Def 4.5): no document    *)
(* and no other version reaches a node a live transient may write.             *)
THEOREM VersionsIsolated == Spec => []Isolated
<1>1. IInv => Isolated
  BY DEF IInv
<1> QED BY <1>1, DocumentInvariant, PTL

(* No step of any caller, or of the walk, writes a frozen node: a document     *)
(* keeps every node it reaches as it was committed.                            *)
THEOREM FrozenForEver == Spec => FrozenStep
<1>1. IInv /\ [Next]_vars => [\A n \in 1 .. Len(nodes) : Frozen(n) => nodes'[n] = nodes[n]]_vars
  BY NextKeeps
<1> QED BY <1>1, DocumentInvariant, PTL DEF Spec, FrozenStep

=============================================================================
