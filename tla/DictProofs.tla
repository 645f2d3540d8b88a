----------------------------- MODULE DictProofs -----------------------------
(***************************************************************************)
(* The dictionary implements a finite map, for every hash function, every  *)
(* number of keys and every radix: the tree is at every moment the set of  *)
(* its leaves' positions closed under prefixes, no leaf above another, and *)
(* only the nodes a delete has yet to walk back over may be without a      *)
(* second leaf below.                                                      *)
(***************************************************************************)
EXTENDS Dict, Minima, FiniteSetTheorems, SequenceTheorems, FunctionTheorems, TLAPS

-----------------------------------------------------------------------------
(* Prefixes of hashes: the positions of the tree.                          *)

(* A prefix of a hash, nibble by nibble.                                   *)
LEMMA UptoIs ==
  ASSUME NEW h \in HKeys, NEW n \in 0 .. Nibbles
  PROVE  /\ Upto(h, n) = [i \in 1 .. n |-> h[i]]
         /\ Len(Upto(h, n)) = n
         /\ Upto(h, n) \in Seq(0 .. Radix - 1)
<1>1. Nibbles \in Nat
  BY RadixAssumption
<1>2. h \in Seq(0 .. Radix - 1) /\ Len(h) = Nibbles
  <2>1. h \in [1 .. Nibbles -> 0 .. Radix - 1]
    BY DEF HKeys
  <2>2. h \in Seq(0 .. Radix - 1)
    BY <1>1, <2>1, SeqDef
  <2>3. DOMAIN h = 1 .. Nibbles /\ DOMAIN h = 1 .. Len(h) /\ Len(h) \in Nat
    BY <2>1, <2>2, LenProperties
  <2> QED
    BY <1>1, <2>2, <2>3
<1>3. SubSeq(h, 1, n) = [i \in 1 .. n |-> h[i]]
  BY <1>1, <1>2
<1>4. \A i \in 1 .. n : h[i] \in 0 .. Radix - 1
  BY <1>1 DEF HKeys
<1> QED
  BY <1>1, <1>3, <1>4 DEF Upto

(* Two hashes have the same prefix when they agree nibble by nibble.       *)
LEMMA UptoSame ==
  ASSUME NEW g \in HKeys, NEW h \in HKeys, NEW n \in 0 .. Nibbles
  PROVE  Upto(g, n) = Upto(h, n) <=> \A i \in 1 .. n : g[i] = h[i]
<1>1. Upto(g, n) = [i \in 1 .. n |-> g[i]] /\ Upto(h, n) = [i \in 1 .. n |-> h[i]]
  BY UptoIs
<1> QED
  BY <1>1

(* ... then shorter prefixes are the same too.                             *)
LEMMA UptoShorter ==
  ASSUME NEW g \in HKeys, NEW h \in HKeys, NEW n \in 0 .. Nibbles, NEW m \in 0 .. n,
         Upto(g, n) = Upto(h, n)
  PROVE  Upto(g, m) = Upto(h, m)
<1>1. m \in 0 .. Nibbles /\ \A i \in 1 .. m : i \in 1 .. n
  BY RadixAssumption
<1> QED
  BY <1>1, UptoSame

(* One nibble more.                                                        *)
LEMMA UptoNext ==
  ASSUME NEW g \in HKeys, NEW h \in HKeys, NEW n \in 0 .. Nibbles - 1
  PROVE  Upto(g, n + 1) = Upto(h, n + 1) <=> Upto(g, n) = Upto(h, n) /\ g[n + 1] = h[n + 1]
<1>1. n \in 0 .. Nibbles /\ n + 1 \in 0 .. Nibbles
  BY RadixAssumption
<1>2. \A i : i \in 1 .. n + 1 <=> i \in 1 .. n \/ i = n + 1
  BY <1>1, RadixAssumption
<1> QED
  BY <1>1, <1>2, UptoSame

(* All the nibbles are the hash.                                           *)
LEMMA UptoAll ==
  ASSUME NEW g \in HKeys, NEW h \in HKeys, Upto(g, Nibbles) = Upto(h, Nibbles)
  PROVE  g = h
<1>1. \A i \in 1 .. Nibbles : g[i] = h[i]
  BY UptoSame, RadixAssumption
<1>2. g = [i \in 1 .. Nibbles |-> g[i]] /\ h = [i \in 1 .. Nibbles |-> h[i]]
  BY DEF HKeys
<1> QED
  BY <1>1, <1>2

(* No nibble at all is the root.                                           *)
LEMMA UptoNone ==
  ASSUME NEW h \in HKeys
  PROVE  Upto(h, 0) = <<>>
<1>1. Upto(h, 0) \in Seq(0 .. Radix - 1) /\ Len(Upto(h, 0)) = 0
  BY UptoIs, RadixAssumption
<1> QED
  BY <1>1

(* A prefix of a prefix.                                                   *)
LEMMA UptoUpto ==
  ASSUME NEW h \in HKeys, NEW n \in 0 .. Nibbles, NEW m \in 0 .. n
  PROVE  Upto(Upto(h, n), m) = Upto(h, m)
<1>1. m \in 0 .. Nibbles /\ n \in Nat /\ \A i \in 1 .. m : i \in 1 .. n
  BY RadixAssumption
<1>2. Upto(h, m) = [i \in 1 .. m |-> h[i]] /\ Upto(h, n) = [i \in 1 .. n |-> h[i]]
  BY <1>1, UptoIs
<1>3. Upto(h, n) \in Seq(0 .. Radix - 1) /\ Len(Upto(h, n)) = n
  BY UptoIs
<1>4. SubSeq(Upto(h, n), 1, m) = [i \in 1 .. m |-> Upto(h, n)[i]]
  BY <1>1, <1>3
<1>5. Upto(Upto(h, n), m) = [i \in 1 .. m |-> Upto(h, n)[i]]
  BY <1>4 DEF Upto
<1> QED
  BY <1>1, <1>2, <1>5

(* The child of a position along a nibble.                                 *)
LEMMA UptoAppend ==
  ASSUME NEW h \in HKeys, NEW n \in 0 .. Nibbles - 1
  PROVE  /\ Append(Upto(h, n), h[n + 1]) = Upto(h, n + 1)
         /\ h[n + 1] \in 0 .. Radix - 1
<1>1. n \in 0 .. Nibbles /\ n + 1 \in 0 .. Nibbles /\ n + 1 \in 1 .. Nibbles /\ n \in Nat
  BY RadixAssumption
<1>2. Upto(h, n) = [i \in 1 .. n |-> h[i]] /\ Upto(h, n + 1) = [i \in 1 .. n + 1 |-> h[i]]
  BY <1>1, UptoIs
<1>3. Upto(h, n) \in Seq(0 .. Radix - 1) /\ Len(Upto(h, n)) = n
  BY <1>1, UptoIs
<1>4. h[n + 1] \in 0 .. Radix - 1
  BY <1>1 DEF HKeys
<1>5. Append(Upto(h, n), h[n + 1]) = [i \in 1 .. n + 1 |-> IF i = n + 1 THEN h[n + 1] ELSE Upto(h, n)[i]]
  BY <1>1, <1>3, <1>4
<1>6. \A i \in 1 .. n + 1 : i # n + 1 => i \in 1 .. n
  BY <1>1
<1> QED
  BY <1>2, <1>4, <1>5, <1>6

(* Children of one position along different nibbles are different, and a   *)
(* prefix of a hash is a child only of the prefix one nibble shorter.      *)
LEMMA AppendSame ==
  ASSUME NEW h \in HKeys, NEW n \in 0 .. Nibbles - 1, NEW i \in 0 .. Radix - 1,
         NEW g \in HKeys, NEW m \in 0 .. Nibbles, Append(Upto(h, n), i) = Upto(g, m)
  PROVE  m = n + 1 /\ Upto(g, n) = Upto(h, n) /\ g[n + 1] = i
<1>1. n \in 0 .. Nibbles /\ n \in Nat /\ m \in Nat
  BY RadixAssumption
<1>2. /\ Upto(h, n) \in Seq(0 .. Radix - 1) /\ Len(Upto(h, n)) = n
      /\ Upto(g, m) \in Seq(0 .. Radix - 1) /\ Len(Upto(g, m)) = m
  BY <1>1, UptoIs
<1>3. Len(Append(Upto(h, n), i)) = n + 1
  BY <1>1, <1>2
<1>4. m = n + 1
  BY <1>2, <1>3
<1>5. Append(Upto(h, n), g[n + 1]) = Upto(g, m) \/ Upto(g, n) # Upto(h, n)
  BY <1>4, UptoAppend
<1>6. Append(Upto(h, n), i)[n + 1] = i /\ \A j \in 1 .. n : Append(Upto(h, n), i)[j] = Upto(h, n)[j]
  BY <1>1, <1>2
<1>7. Upto(g, m) = [j \in 1 .. m |-> g[j]] /\ Upto(h, n) = [j \in 1 .. n |-> h[j]]
  BY <1>1, UptoIs
<1>8. \A j \in 1 .. n : j \in 1 .. m
  BY <1>1, <1>4
<1>9. \A j \in 1 .. n : g[j] = h[j]
  BY <1>6, <1>7, <1>8
<1>10. n + 1 \in 1 .. m
  BY <1>1, <1>4
<1>11. g[n + 1] = i
  BY <1>6, <1>7, <1>10
<1> QED
  BY <1>1, <1>4, <1>9, <1>11, UptoSame

-----------------------------------------------------------------------------
(* The tree.                                                               *)

(* The leaves below an interior position.                                  *)
Under(t, p) == {l \in DOMAIN t.leaf : Len(p) < Len(l) /\ p = Upto(t.leaf[l].key, Len(p))}

(* A tree is the positions of its leaves, each on its key's path, and all  *)
(* that lies above them; no leaf lies above another.                       *)
LeafOK(t, l) ==
    /\ t.leaf[l] = [key |-> t.leaf[l].key, value |-> t.leaf[l].value]
    /\ t.leaf[l].key \in HKeys
    /\ Len(l) \in 0 .. Nibbles /\ l = Upto(t.leaf[l].key, Len(l))
    /\ \A n \in 0 .. Len(l) - 1 : Upto(t.leaf[l].key, n) \in t.inner
TreeOK(t) ==
    /\ t = [inner |-> t.inner, leaf |-> t.leaf]
    /\ t.leaf = [p \in DOMAIN t.leaf |-> t.leaf[p]]
    /\ IsFiniteSet(t.inner) /\ IsFiniteSet(DOMAIN t.leaf)
    /\ \A l \in DOMAIN t.leaf : LeafOK(t, l)
    /\ \A p \in t.inner : Len(p) \in 0 .. Nibbles - 1 /\ Under(t, p) # {}
    /\ t.inner \cap DOMAIN t.leaf = {}

(* Two keys of a set share the path to a position.                         *)
Forks(hs, p) == \E g, h \in hs : g # h /\ Upto(g, Len(p)) = p /\ Upto(h, Len(p)) = p

(* What the leaves hold, wherever they are.                                *)
Held(t) == {t.leaf[p] : p \in DOMAIN t.leaf}

(* An interior position is a prefix of some leaf's key, and so is all      *)
(* above it.                                                               *)
LEMMA InnerIs ==
  ASSUME NEW t, TreeOK(t), NEW p \in t.inner
  PROVE  \E l \in DOMAIN t.leaf :
            /\ Len(p) < Len(l) /\ p = Upto(t.leaf[l].key, Len(p)) /\ t.leaf[l].key \in HKeys
            /\ Len(p) \in 0 .. Nibbles - 1 /\ Len(l) \in 0 .. Nibbles
BY Zenon DEF TreeOK, Under, LeafOK

(* What lies above an interior position is interior.                       *)
LEMMA InnerClosed ==
  ASSUME NEW t, TreeOK(t), NEW h \in HKeys, NEW n \in 0 .. Nibbles, Upto(h, n) \in t.inner,
         NEW m \in 0 .. n
  PROVE  Upto(h, m) \in t.inner
<1>1. Len(Upto(h, n)) = n
  BY UptoIs
<1>2. PICK l \in DOMAIN t.leaf :
            /\ n < Len(l) /\ Upto(h, n) = Upto(t.leaf[l].key, n) /\ t.leaf[l].key \in HKeys
            /\ Len(l) \in 0 .. Nibbles
  BY <1>1, InnerIs
<1>3. Upto(h, m) = Upto(t.leaf[l].key, m)
  BY <1>2, UptoShorter
<1>4. m \in 0 .. Len(l) - 1
  BY <1>2, RadixAssumption
<1>5. LeafOK(t, l)
  BY DEF TreeOK
<1> QED
  BY <1>3, <1>4, <1>5 DEF LeafOK

(* The descent stops at the first position on the path that is not         *)
(* interior.                                                               *)
LEMMA LevelIs ==
  ASSUME NEW t, NEW h \in HKeys, NEW n \in 0 .. Nibbles,
         \A m \in 0 .. n - 1 : Upto(h, m) \in t.inner, Upto(h, n) \notin t.inner
  PROVE  Level(t, h) = n
<1> DEFINE S == {a \in 0 .. Nibbles : \A m \in 0 .. a : Upto(h, m) \in t.inner}
<1>1. n \in Nat /\ Nibbles \in Nat
  BY RadixAssumption
<1>2. S = 0 .. n - 1
  <2>1. ASSUME NEW a \in S PROVE a \in 0 .. n - 1
    <3>1. a \in Nat /\ \A m \in 0 .. a : Upto(h, m) \in t.inner
      BY <1>1
    <3>2. ~ (n <= a)
      BY <1>1, <3>1
    <3> QED BY <1>1, <3>1, <3>2
  <2>2. ASSUME NEW a \in 0 .. n - 1 PROVE a \in S
    <3>1. a \in 0 .. Nibbles /\ \A m \in 0 .. a : m \in 0 .. n - 1
      BY <1>1
    <3> QED BY <3>1
  <2> HIDE DEF S
  <2> QED BY <2>1, <2>2
<1>3. Cardinality(0 .. n - 1) = n
  BY <1>1, FS_Interval
<1> QED
  BY <1>2, <1>3 DEF Level

(* A descent stops at the first position that is not interior, within the  *)
(* nibbles of the key.                                                     *)
LEMMA LevelStops ==
  ASSUME NEW t, TreeOK(t), NEW h \in HKeys
  PROVE  /\ Level(t, h) \in 0 .. Nibbles
         /\ \A m \in 0 .. Level(t, h) - 1 : Upto(h, m) \in t.inner
         /\ Slot(t, h) \notin t.inner /\ Len(Slot(t, h)) = Level(t, h)
<1> DEFINE D == {n \in 0 .. Nibbles : Upto(h, n) \notin t.inner}
<1>1. Nibbles \in 0 .. Nibbles /\ Nibbles \in Nat
  BY RadixAssumption
<1>2. Upto(h, Nibbles) \notin t.inner
  <2>1. Len(Upto(h, Nibbles)) = Nibbles
    BY <1>1, UptoIs
  <2> QED BY <1>1, <2>1 DEF TreeOK
<1>3. PICK n \in D : \A e \in D : n <= e
  <2>1. D \in SUBSET Nat /\ D # {}
    BY <1>1, <1>2
  <2> HIDE DEF D
  <2> QED BY <2>1, Least
<1>4. n \in 0 .. Nibbles /\ Upto(h, n) \notin t.inner
  OBVIOUS
<1>5. \A m \in 0 .. n - 1 : Upto(h, m) \in t.inner
  <2>1. \A m \in 0 .. n - 1 : m \in 0 .. Nibbles /\ ~ (n <= m)
    BY <1>1, <1>4
  <2> QED BY <1>3, <2>1
<1>6. Level(t, h) = n
  BY <1>4, <1>5, LevelIs
<1> QED
  BY <1>4, <1>5, <1>6, UptoIs DEF Slot

(* A leaf is found under its key.                                          *)
LEMMA AtLeaf ==
  ASSUME NEW t, TreeOK(t), NEW l \in DOMAIN t.leaf
  PROVE  Level(t, t.leaf[l].key) = Len(l) /\ Slot(t, t.leaf[l].key) = l
<1> DEFINE h == t.leaf[l].key
<1>1. /\ h \in HKeys /\ Len(l) \in 0 .. Nibbles /\ l = Upto(h, Len(l))
      /\ \A n \in 0 .. Len(l) - 1 : Upto(h, n) \in t.inner
  BY DEF TreeOK, LeafOK
<1>2. l \notin t.inner
  BY DEF TreeOK
<1>3. Upto(h, Len(l)) \notin t.inner
  BY <1>1, <1>2
<1>4. Level(t, h) = Len(l)
  <2> DEFINE n == Len(l)
  <2>1. n \in 0 .. Nibbles /\ (\A m \in 0 .. n - 1 : Upto(h, m) \in t.inner) /\ Upto(h, n) \notin t.inner
    BY <1>1, <1>3
  <2> HIDE DEF n, h
  <2>2. h \in HKeys
    BY <1>1
  <2>3. Level(t, h) = n
    BY <2>1, <2>2, LevelIs
  <2> QED BY <2>3 DEF n
<1> QED
  BY <1>1, <1>4 DEF Slot

(* Leaves of one key are one leaf.                                         *)
LEMMA OneLeaf ==
  ASSUME NEW t, TreeOK(t), NEW l \in DOMAIN t.leaf, NEW m \in DOMAIN t.leaf,
         t.leaf[l].key = t.leaf[m].key
  PROVE  l = m
BY AtLeaf

(* A leaf at another key's slot.                                           *)
LEMMA SlotLeaf ==
  ASSUME NEW t, TreeOK(t), NEW h \in HKeys, HasLeaf(t, h)
  PROVE  LET p == Slot(t, h)
             o == t.leaf[p]
         IN  /\ p \in DOMAIN t.leaf /\ LeafOK(t, p) /\ o.key \in HKeys
             /\ Level(t, h) \in 0 .. Nibbles
             /\ Upto(o.key, Level(t, h)) = Upto(h, Level(t, h))
<1>1. Slot(t, h) \in DOMAIN t.leaf /\ LeafOK(t, Slot(t, h))
  BY DEF HasLeaf, TreeOK
<1>2. Len(Slot(t, h)) = Level(t, h) /\ Level(t, h) \in 0 .. Nibbles
  BY LevelStops
<1> QED
  BY <1>1, <1>2 DEF LeafOK, Slot

(* find_leaf finds the key's leaf, and what it holds.                      *)
LEMMA FindLeafIs ==
  ASSUME NEW t, TreeOK(t), NEW h \in HKeys
  PROVE  /\ FindLeaf(t, h) <=> \E r \in Held(t) : r.key = h
         /\ \A r \in Held(t) : r.key = h => r = t.leaf[Slot(t, h)] /\ r = Leaf(h, r.value)
<1>1. ASSUME NEW r \in Held(t), r.key = h
      PROVE  r = t.leaf[Slot(t, h)] /\ r = Leaf(h, r.value) /\ FindLeaf(t, h)
  <2>1. PICK l \in DOMAIN t.leaf : r = t.leaf[l]
    BY DEF Held
  <2>2. Slot(t, h) = l
    BY <1>1, <2>1, AtLeaf
  <2>3. r = [key |-> r.key, value |-> r.value]
    BY <2>1 DEF TreeOK, LeafOK
  <2> QED
    BY <1>1, <2>1, <2>2, <2>3 DEF Leaf, FindLeaf
<1>2. FindLeaf(t, h) => \E r \in Held(t) : r.key = h
  BY DEF FindLeaf, Held
<1> QED
  BY <1>1, <1>2

-----------------------------------------------------------------------------
(* Insertion.                                                              *)

(* A leaf is its key and its value.                                        *)
LEMMA LeafRecord ==
  ASSUME NEW h, NEW v
  PROVE  /\ Leaf(h, v) = [key |-> Leaf(h, v).key, value |-> Leaf(h, v).value]
         /\ Leaf(h, v).key = h /\ Leaf(h, v).value = v
BY DEF Leaf

(* A tree whose leaves are those of another but for one position, which    *)
(* is a leaf's or free, below interior ones only.                          *)
LEMMA LeafPut ==
  ASSUME NEW t, TreeOK(t), NEW h \in HKeys, NEW v, FindLeaf(t, h) \/ ~HasLeaf(t, h),
         NEW u, u = [t EXCEPT !.leaf = PutLeaf(@, Slot(t, h), Leaf(h, v))]
  PROVE  /\ TreeOK(u) /\ u.inner = t.inner
         /\ Held(u) = {r \in Held(t) : r.key # h} \cup {Leaf(h, v)}
         /\ Nodes(u) = Nodes(t) \cup {Slot(t, h)}
<1> DEFINE p == Slot(t, h)
<1>1. u = [inner |-> t.inner, leaf |-> PutLeaf(t.leaf, p, Leaf(h, v))]
  <2>1. t = [inner |-> t.inner, leaf |-> t.leaf]
    BY DEF TreeOK
  <2> QED BY <2>1
<1>2. /\ u.inner = t.inner /\ DOMAIN u.leaf = DOMAIN t.leaf \cup {p}
      /\ u.leaf = [q \in DOMAIN u.leaf |-> u.leaf[q]]
      /\ u.leaf[p] = Leaf(h, v)
      /\ \A q \in DOMAIN t.leaf : q # p => u.leaf[q] = t.leaf[q]
  <2> DEFINE f == PutLeaf(t.leaf, p, Leaf(h, v))
  <2>1. /\ DOMAIN f = DOMAIN t.leaf \cup {p} /\ f = [q \in DOMAIN f |-> f[q]] /\ f[p] = Leaf(h, v)
        /\ \A q \in DOMAIN t.leaf : q # p => f[q] = t.leaf[q]
    <3> DEFINE g == t.leaf
               x == Leaf(h, v)
    <3> HIDE DEF p, g, x
    <3>1. /\ DOMAIN PutLeaf(g, p, x) = DOMAIN g \cup {p}
          /\ PutLeaf(g, p, x) = [q \in DOMAIN PutLeaf(g, p, x) |-> PutLeaf(g, p, x)[q]]
          /\ PutLeaf(g, p, x)[p] = x
          /\ \A q \in DOMAIN g : q # p => PutLeaf(g, p, x)[q] = g[q]
      BY DEF PutLeaf
    <3> QED BY <3>1 DEF g, x
  <2>2. u.inner = t.inner /\ u.leaf = f
    BY <1>1
  <2> HIDE DEF f, p
  <2> QED BY <2>1, <2>2
<1>3. /\ Level(t, h) \in 0 .. Nibbles /\ Len(p) = Level(t, h) /\ p = Upto(h, Len(p))
      /\ \A m \in 0 .. Len(p) - 1 : Upto(h, m) \in t.inner
      /\ p \notin t.inner
  <2> HIDE DEF p
  <2> QED BY LevelStops DEF p, Slot
<1>4. p \in DOMAIN t.leaf => t.leaf[p].key = h
  <2>1. FindLeaf(t, h) => t.leaf[p].key = h
    BY DEF FindLeaf
  <2>2. p \in DOMAIN t.leaf => HasLeaf(t, h)
    BY DEF HasLeaf
  <2> QED
    BY <2>1, <2>2
<1>5. \A q \in DOMAIN t.leaf : u.leaf[q].key = t.leaf[q].key
  BY <1>2, <1>4, LeafRecord
<1>6. \A q \in DOMAIN u.leaf : LeafOK(u, q)
  <2>1. ASSUME NEW q \in DOMAIN u.leaf, q = p PROVE LeafOK(u, q)
    BY <1>2, <1>3, <2>1, LeafRecord DEF LeafOK
  <2>2. ASSUME NEW q \in DOMAIN u.leaf, q # p PROVE LeafOK(u, q)
    <3>1. q \in DOMAIN t.leaf /\ u.leaf[q] = t.leaf[q] /\ LeafOK(t, q)
      BY <1>2, <2>2 DEF TreeOK
    <3> QED BY <1>2, <3>1 DEF LeafOK
  <2> QED BY <2>1, <2>2
<1>7. \A q \in u.inner : Len(q) \in 0 .. Nibbles - 1 /\ Under(u, q) # {}
  <2> SUFFICES ASSUME NEW q \in t.inner PROVE Len(q) \in 0 .. Nibbles - 1 /\ Under(u, q) # {}
    BY <1>2
  <2>1. PICK l \in DOMAIN t.leaf : Len(q) < Len(l) /\ q = Upto(t.leaf[l].key, Len(q)) /\ Len(q) \in 0 .. Nibbles - 1
    BY InnerIs
  <2>2. l \in DOMAIN u.leaf /\ u.leaf[l].key = t.leaf[l].key
    BY <1>2, <1>5
  <2> QED BY <2>1, <2>2 DEF Under
<1>8. IsFiniteSet(u.inner) /\ IsFiniteSet(DOMAIN u.leaf)
  <2>1. IsFiniteSet(DOMAIN t.leaf \cup {p})
    BY FS_AddElement DEF TreeOK
  <2> QED BY <1>2, <2>1 DEF TreeOK
<1>9. u.inner \cap DOMAIN u.leaf = {}
  BY <1>2, <1>3 DEF TreeOK
<1>10. u = [inner |-> u.inner, leaf |-> u.leaf]
  BY <1>1
<1>11. TreeOK(u)
  BY <1>2, <1>6, <1>7, <1>8, <1>9, <1>10 DEF TreeOK
<1>12. Held(u) = {r \in Held(t) : r.key # h} \cup {Leaf(h, v)}
  <2>1. ASSUME NEW q \in DOMAIN t.leaf, q # p PROVE t.leaf[q].key # h
    BY <2>1, AtLeaf
  <2>2. \A r \in Held(u) : r \in {x \in Held(t) : x.key # h} \cup {Leaf(h, v)}
    BY <1>2, <2>1 DEF Held
  <2>3. \A r \in Held(t) : r.key # h => r \in Held(u)
    BY <1>2, <1>4 DEF Held
  <2>4. Leaf(h, v) \in Held(u)
    BY <1>2 DEF Held
  <2> QED BY <2>2, <2>3, <2>4
<1> QED
  BY <1>2, <1>11, <1>12 DEF Nodes

(* Where the two keys of a split part.                                     *)
LEMMA DivergenceIs ==
  ASSUME NEW a \in HKeys, NEW b \in HKeys, NEW n \in 0 .. Nibbles, Upto(a, n) = Upto(b, n), a # b,
         NEW d, d = Divergence(a, b, n)
  PROVE  d \in n .. Nibbles - 1 /\ a[d + 1] # b[d + 1] /\ Upto(a, d) = Upto(b, d)
<1> DEFINE D == {x \in n .. Nibbles : x < Nibbles => a[x + 1] # b[x + 1]}
<1>1. Nibbles \in Nat /\ n \in Nat
  BY RadixAssumption
<1>2. PICK x \in D : \A e \in D : x <= e
  <2>1. D \in SUBSET Nat /\ Nibbles \in D
    BY <1>1
  <2> HIDE DEF D
  <2> QED BY <2>1, Least
<1>3. /\ x \in n .. Nibbles /\ (x < Nibbles => a[x + 1] # b[x + 1])
      /\ \A e \in n .. x - 1 : a[e + 1] = b[e + 1]
  <2>1. \A e \in n .. x - 1 : e \in n .. Nibbles /\ e < Nibbles /\ ~ (x <= e)
    BY <1>1
  <2> QED BY <1>2, <2>1
<1>4. /\ d \in n .. Nibbles /\ (d < Nibbles => a[d + 1] # b[d + 1])
      /\ \A e \in n .. d - 1 : a[e + 1] = b[e + 1]
  BY <1>3 DEF Divergence
<1>5. d \in 0 .. Nibbles /\ d \in Nat
  BY <1>1, <1>4
<1>6. Upto(a, d) = Upto(b, d)
  <2>1. ASSUME NEW i \in 1 .. d PROVE a[i] = b[i]
    <3>1. CASE i <= n
      BY <1>1, <3>1, UptoSame
    <3>2. CASE i > n
      <4>1. i - 1 \in n .. d - 1 /\ (i - 1) + 1 = i
        BY <1>1, <1>5, <3>2
      <4> QED BY <1>4, <4>1
    <3> QED BY <1>1, <1>5, <3>1, <3>2
  <2> QED BY <1>5, <2>1, UptoSame
<1>7. d # Nibbles
  BY <1>6, UptoAll
<1> QED
  BY <1>1, <1>4, <1>6, <1>7

(* split_leaf.  The old leaf and the new one hang below the position where *)
(* their keys part.                                                        *)
LEMMA SplitIs ==
  ASSUME NEW t, TreeOK(t), NEW h \in HKeys, NEW v, HasLeaf(t, h), ~FindLeaf(t, h),
         NEW u, u = SplitLeaf(t, h, v),
         NEW p, p = Slot(t, h), NEW o, o = t.leaf[p], NEW d, d = SplitAt(t, h),
         NEW n, n = Level(t, h)
  PROVE  /\ n \in Nat /\ d \in n .. Nibbles - 1 /\ o.key \in HKeys /\ o.key # h
         /\ o.key[d + 1] # h[d + 1] /\ Upto(o.key, d) = Upto(h, d)
         /\ p \in DOMAIN t.leaf /\ p = Upto(h, n) /\ p = Upto(o.key, n) /\ Len(p) = n
         /\ u = [inner |-> u.inner, leaf |-> u.leaf]
         /\ u.inner = t.inner \cup {Upto(h, l) : l \in n .. d}
         /\ DOMAIN u.leaf = (DOMAIN t.leaf \ {p}) \cup {Upto(o.key, d + 1), Upto(h, d + 1)}
         /\ u.leaf = [q \in DOMAIN u.leaf |-> u.leaf[q]]
         /\ u.leaf[Upto(h, d + 1)] = Leaf(h, v)
         /\ u.leaf[Upto(o.key, d + 1)] = o
         /\ \A q \in DOMAIN t.leaf \ {p} :
               q # Upto(o.key, d + 1) /\ q # Upto(h, d + 1) => u.leaf[q] = t.leaf[q]
<1>1. /\ p \in DOMAIN t.leaf /\ LeafOK(t, p) /\ o.key \in HKeys /\ n \in 0 .. Nibbles
      /\ Upto(o.key, n) = Upto(h, n) /\ p = Upto(h, n) /\ Len(p) = n
  <2>1. p = Upto(h, n) /\ Len(p) = n
    BY LevelStops DEF Slot
  <2> QED BY <2>1, SlotLeaf
<1>2. o.key # h
  BY <1>1 DEF FindLeaf
<1>3. d \in n .. Nibbles - 1 /\ o.key[d + 1] # h[d + 1] /\ Upto(o.key, d) = Upto(h, d)
  <2>1. d = Divergence(o.key, h, n)
    BY DEF SplitAt
  <2> QED BY <1>1, <1>2, <2>1, DivergenceIs
<1> DEFINE po == Upto(o.key, d + 1)
           ph == Upto(h, d + 1)
           l == Leaf(h, v)
           e == DropLeaf(t.leaf, p)
           f == PutLeaf(e, po, o)
           g == PutLeaf(f, ph, l)
<1>4. po # ph
  <2>1. d \in 0 .. Nibbles - 1
    BY <1>1, <1>3, RadixAssumption
  <2> QED BY <1>1, <1>3, <2>1, UptoNext
<1>5. u = [inner |-> t.inner \cup {Upto(h, x) : x \in n .. d}, leaf |-> g]
  <2>1. SplitLeaf(t, h, v) =
          [inner |-> t.inner \cup {Upto(h, x) : x \in Level(t, h) .. SplitAt(t, h)},
           leaf |-> PutLeaf(PutLeaf(DropLeaf(t.leaf, Slot(t, h)),
                                    Upto(t.leaf[Slot(t, h)].key, SplitAt(t, h) + 1), t.leaf[Slot(t, h)]),
                            Upto(h, SplitAt(t, h) + 1), Leaf(h, v))]
    BY Zenon DEF SplitLeaf
  <2>2. p = Slot(t, h) /\ o = t.leaf[Slot(t, h)] /\ d = SplitAt(t, h) /\ n = Level(t, h) /\ u = SplitLeaf(t, h, v)
    OBVIOUS
  <2> QED BY <2>1, <2>2
<1>6. DOMAIN e = DOMAIN t.leaf \ {p} /\ \A q \in DOMAIN t.leaf : q # p => e[q] = t.leaf[q]
  BY DEF DropLeaf
<1>7. DOMAIN f = DOMAIN e \cup {po} /\ f[po] = o /\ \A q \in DOMAIN e : q # po => f[q] = e[q]
  <2> HIDE DEF e, po
  <2> QED BY DEF PutLeaf
<1>8. /\ DOMAIN g = DOMAIN f \cup {ph} /\ g[ph] = l /\ \A q \in DOMAIN f : q # ph => g[q] = f[q]
      /\ g = [q \in DOMAIN g |-> g[q]]
  <2> HIDE DEF f, ph, l
  <2> QED BY DEF PutLeaf
<1>9. u.leaf = g /\ u.inner = t.inner \cup {Upto(h, x) : x \in n .. d}
  <2> HIDE DEF g
  <2> QED BY <1>5
<1>10. /\ DOMAIN g = (DOMAIN t.leaf \ {p}) \cup {po, ph}
       /\ g[ph] = l /\ g[po] = o
       /\ \A q \in DOMAIN t.leaf \ {p} : q # po /\ q # ph => g[q] = t.leaf[q]
  <2> HIDE DEF g, f, e, po, ph, l
  <2> QED BY <1>4, <1>6, <1>7, <1>8
<1>11. n \in Nat
  BY <1>1, RadixAssumption
<1>12. u = [inner |-> u.inner, leaf |-> u.leaf]
  <2> HIDE DEF g
  <2> QED BY <1>5
<1> HIDE DEF g, f, e
<1> QED
  BY <1>1, <1>2, <1>3, <1>8, <1>9, <1>10, <1>11, <1>12

(* split_leaf makes a tree: both leaves and a chain that forks at its end, *)
(* one node for each nibble that is new, and the fork's.                   *)
LEMMA SplitTree ==
  ASSUME NEW t, TreeOK(t), NEW h \in HKeys, NEW v, HasLeaf(t, h), ~FindLeaf(t, h),
         NEW u, u = SplitLeaf(t, h, v)
  PROVE  /\ TreeOK(u)
         /\ Held(u) = {r \in Held(t) : r.key # h} \cup {Leaf(h, v)}
         /\ \A p \in u.inner \ t.inner : Forks(KeysOf(u), p)
         /\ \E n \in 0 .. Nibbles, d \in 0 .. Nibbles - 1 :
               /\ n <= d /\ NodesNeeded(t, h) = d - n + 2
               /\ \E q : /\ Nodes(u) = Nodes(t) \cup {Upto(h, x) : x \in n + 1 .. d + 1} \cup {q}
                         /\ q \notin Nodes(t) \cup {Upto(h, x) : x \in n + 1 .. d + 1}
               /\ \A x \in n + 1 .. d + 1 : Upto(h, x) \notin Nodes(t)
<1> DEFINE p == Slot(t, h)
           o == t.leaf[p]
           d == SplitAt(t, h)
           n == Level(t, h)
           po == Upto(o.key, d + 1)
           ph == Upto(h, d + 1)
<1>1. /\ n \in Nat /\ d \in n .. Nibbles - 1 /\ o.key \in HKeys /\ o.key # h
      /\ o.key[d + 1] # h[d + 1] /\ Upto(o.key, d) = Upto(h, d)
      /\ p \in DOMAIN t.leaf /\ p = Upto(h, n) /\ p = Upto(o.key, n) /\ Len(p) = n
      /\ u = [inner |-> u.inner, leaf |-> u.leaf]
      /\ u.inner = t.inner \cup {Upto(h, l) : l \in n .. d}
      /\ DOMAIN u.leaf = (DOMAIN t.leaf \ {p}) \cup {po, ph}
      /\ u.leaf = [q \in DOMAIN u.leaf |-> u.leaf[q]]
      /\ u.leaf[ph] = Leaf(h, v)
      /\ u.leaf[po] = o
      /\ \A q \in DOMAIN t.leaf \ {p} : q # po /\ q # ph => u.leaf[q] = t.leaf[q]
  BY SplitIs
<1>2. LeafOK(t, p) /\ p \notin t.inner
  BY <1>1 DEF TreeOK
<1>3. \A m \in 0 .. n - 1 : Upto(h, m) \in t.inner
  BY LevelStops
<1>a. \A x \in 0 .. d + 1 : x \in 0 .. Nibbles /\ Len(Upto(h, x)) = x /\ Len(Upto(o.key, x)) = x
  <2>1. \A x \in 0 .. d + 1 : x \in 0 .. Nibbles
    BY <1>1, RadixAssumption
  <2> HIDE DEF o, d
  <2> QED BY <1>1, <2>1, UptoIs
<1>b. \A x \in 0 .. d : Upto(o.key, x) = Upto(h, x)
  <2>1. d \in 0 .. Nibbles
    BY <1>1, <1>a
  <2> HIDE DEF o, d
  <2> QED BY <1>1, <2>1, UptoShorter
<1>c. po # ph
  <2>1. d \in 0 .. Nibbles - 1
    BY <1>1, RadixAssumption
  <2> HIDE DEF o, d
  <2> QED BY <1>1, <2>1, UptoNext
<1> HIDE DEF p, o, d, n
\* Below the old leaf there was nothing.
<1>4. ASSUME NEW g \in {h, o.key}, NEW x \in n + 1 .. d + 1 PROVE Upto(g, x) \notin Nodes(t)
  <2>1. g \in HKeys /\ x \in 0 .. Nibbles /\ n \in 0 .. x /\ Len(Upto(g, x)) = x /\ Upto(g, n) = p
    <3>1. x \in 0 .. d + 1 /\ n \in 0 .. x
      BY <1>1
    <3> QED BY <1>1, <1>a, <3>1
  <2>2. Upto(g, x) \notin t.inner
    BY <1>2, <2>1, InnerClosed
  <2>3. ASSUME Upto(g, x) \in DOMAIN t.leaf PROVE FALSE
    <3> DEFINE k == t.leaf[Upto(g, x)].key
    <3>1. LeafOK(t, Upto(g, x))
      BY <2>3 DEF TreeOK
    <3>2. k \in HKeys /\ Upto(g, x) = Upto(k, x) /\ \A m \in 0 .. x - 1 : Upto(k, m) \in t.inner
      BY <2>1, <3>1 DEF LeafOK
    <3>3. Upto(k, n) = p
      BY <2>1, <3>2, UptoShorter
    <3>4. n \in 0 .. x - 1
      BY <1>1
    <3> QED BY <1>2, <3>2, <3>3, <3>4
  <2> QED BY <2>2, <2>3 DEF Nodes
<1>5. d + 1 \in n + 1 .. d + 1 /\ d + 1 \in Nat /\ d \in Nat
  BY <1>1
<1>6. po \notin Nodes(t) /\ ph \notin Nodes(t) /\ p # po /\ p # ph
  <2>1. po \notin Nodes(t) /\ ph \notin Nodes(t)
    BY <1>4, <1>5
  <2> QED BY <1>1, <2>1 DEF Nodes
<1>7. \A q \in DOMAIN t.leaf \ {p} : q \in DOMAIN u.leaf /\ u.leaf[q] = t.leaf[q]
  <2>1. \A q \in DOMAIN t.leaf : q # po /\ q # ph
    BY <1>6 DEF Nodes
  <2> HIDE DEF po, ph
  <2> QED BY <1>1, <2>1
<1>8. \A x \in 0 .. d : Upto(h, x) \in u.inner /\ Upto(o.key, x) \in u.inner
  <2>1. ASSUME NEW x \in 0 .. d PROVE Upto(h, x) \in u.inner
    <3>1. x \in 0 .. n - 1 \/ x \in n .. d
      BY <1>1, <1>5
    <3> QED BY <1>1, <1>3, <3>1
  <2> QED BY <1>b, <2>1
<1>9. ASSUME NEW q \in DOMAIN u.leaf PROVE LeafOK(u, q)
  <2>1. CASE q = ph
    <3>1. u.leaf[q] = Leaf(h, v) /\ Len(q) = d + 1 /\ q = Upto(h, d + 1) /\ d + 1 \in 0 .. Nibbles
      BY <1>1, <1>5, <1>a, <2>1
    <3>2. \A x \in 0 .. Len(q) - 1 : x \in 0 .. d
      BY <1>5, <3>1
    <3> QED BY <1>8, <3>1, <3>2, LeafRecord DEF LeafOK
  <2>2. CASE q = po
    <3>1. u.leaf[q] = o /\ Len(q) = d + 1 /\ q = Upto(o.key, d + 1) /\ d + 1 \in 0 .. Nibbles
      BY <1>1, <1>5, <1>a, <2>2
    <3>2. \A x \in 0 .. Len(q) - 1 : x \in 0 .. d
      BY <1>5, <3>1
    <3>3. o = [key |-> o.key, value |-> o.value]
      BY <1>2 DEF LeafOK, o
    <3> QED BY <1>1, <1>8, <3>1, <3>2, <3>3 DEF LeafOK
  <2>3. CASE q \in DOMAIN t.leaf \ {p}
    <3>1. u.leaf[q] = t.leaf[q] /\ LeafOK(t, q)
      BY <1>7, <2>3 DEF TreeOK
    <3> QED BY <1>1, <3>1 DEF LeafOK
  <2> QED BY <1>1, <2>1, <2>2, <2>3
<1>10. ASSUME NEW q \in u.inner PROVE Len(q) \in 0 .. Nibbles - 1 /\ Under(u, q) # {}
  <2>1. CASE q \in t.inner
    <3>1. PICK l \in DOMAIN t.leaf : Len(q) < Len(l) /\ q = Upto(t.leaf[l].key, Len(q)) /\ Len(q) \in 0 .. Nibbles - 1
      BY <2>1, InnerIs
    <3>2. CASE l # p
      <4>1. l \in DOMAIN u.leaf /\ u.leaf[l].key = t.leaf[l].key
        BY <1>7, <3>2
      <4> QED BY <3>1, <4>1 DEF Under
    <3>3. CASE l = p
      <4>1. q = Upto(o.key, Len(q)) /\ Len(q) < n
        BY <1>1, <3>1, <3>3 DEF o
      <4>2. po \in DOMAIN u.leaf /\ u.leaf[po].key = o.key /\ Len(po) = d + 1
        BY <1>1, <1>5, <1>a
      <4>3. Len(q) < Len(po)
        BY <1>1, <3>1, <4>1, <4>2, RadixAssumption
      <4> QED BY <3>1, <4>1, <4>2, <4>3 DEF Under
    <3> QED BY <3>2, <3>3
  <2>2. CASE q \in {Upto(h, l) : l \in n .. d}
    <3>1. PICK l \in n .. d : q = Upto(h, l)
      BY <2>2
    <3>2. l \in 0 .. d + 1 /\ l \in 0 .. Nibbles - 1 /\ l < d + 1
      BY <1>1, RadixAssumption
    <3>3. Len(q) = l
      BY <1>a, <3>1, <3>2
    <3>4. ph \in DOMAIN u.leaf /\ u.leaf[ph].key = h /\ Len(ph) = d + 1
      BY <1>1, <1>5, <1>a, LeafRecord
    <3> QED BY <3>1, <3>2, <3>3, <3>4 DEF Under
  <2> QED BY <1>1, <2>1, <2>2
<1>11. u.inner \cap DOMAIN u.leaf = {}
  <2>1. ASSUME NEW q \in u.inner, q \in DOMAIN u.leaf PROVE FALSE
    <3>1. PICK l \in Under(u, q) : TRUE
      BY <1>10, <2>1
    <3>2. CASE q \in t.inner
      <4>1. q \notin DOMAIN t.leaf /\ q # po /\ q # ph
        BY <1>6, <3>2 DEF Nodes, TreeOK
      <4> QED BY <1>1, <2>1, <4>1
    <3>3. CASE q \in {Upto(h, x) : x \in n .. d}
      <4>1. PICK x \in n .. d : q = Upto(h, x)
        BY <3>3
      <4>2. x \in 0 .. d + 1 /\ x < d + 1
        BY <1>1
      <4>3. Len(q) = x /\ Len(po) = d + 1 /\ Len(ph) = d + 1
        BY <1>5, <1>a, <4>1, <4>2
      <4>4. q # po /\ q # ph
        BY <4>2, <4>3
      <4>5. q \in DOMAIN t.leaf /\ q # p
        BY <1>1, <2>1, <4>4
      <4>6. x # n
        BY <1>1, <4>1, <4>5
      <4>7. x \in n + 1 .. d + 1
        BY <1>1, <4>6
      <4> QED BY <1>4, <4>1, <4>5, <4>7 DEF Nodes
    <3> QED BY <1>1, <2>1, <3>2, <3>3
  <2> QED BY <2>1
<1>12. IsFiniteSet(u.inner) /\ IsFiniteSet(DOMAIN u.leaf)
  <2>1. IsFiniteSet({Upto(h, l) : l \in n .. d})
    <3>1. IsFiniteSet(n .. d)
      BY <1>1, <1>5, FS_Interval
    <3> DEFINE F == [l \in n .. d |-> Upto(h, l)]
               T == {Upto(h, l) : l \in n .. d}
    <3>2. F \in Surjection(n .. d, T)
      BY DEF Surjection
    <3> HIDE DEF F, T
    <3>3. IsFiniteSet(T)
      BY <3>1, <3>2, FS_Surjection
    <3> QED BY <3>3 DEF T
  <2>2. IsFiniteSet(t.inner) /\ IsFiniteSet(DOMAIN t.leaf)
    BY DEF TreeOK
  <2>3. IsFiniteSet(t.inner \cup {Upto(h, l) : l \in n .. d})
    BY <2>1, <2>2, FS_Union
  <2>4. IsFiniteSet((DOMAIN t.leaf \ {p}) \cup {po, ph})
    <3> HIDE DEF po, ph
    <3>1. IsFiniteSet(DOMAIN t.leaf \ {p})
      BY <2>2, FS_RemoveElement
    <3>2. IsFiniteSet((DOMAIN t.leaf \ {p}) \cup {po})
      BY <3>1, FS_AddElement
    <3>3. IsFiniteSet(((DOMAIN t.leaf \ {p}) \cup {po}) \cup {ph})
      BY <3>2, FS_AddElement
    <3>4. ((DOMAIN t.leaf \ {p}) \cup {po}) \cup {ph} = (DOMAIN t.leaf \ {p}) \cup {po, ph}
      OBVIOUS
    <3> QED BY <3>3, <3>4
  <2> HIDE DEF po, ph
  <2> QED BY <1>1, <2>3, <2>4
<1>13. TreeOK(u)
  BY <1>1, <1>9, <1>10, <1>11, <1>12 DEF TreeOK
<1>14. Held(u) = {r \in Held(t) : r.key # h} \cup {Leaf(h, v)}
  <2>1. \A q \in DOMAIN t.leaf : t.leaf[q].key # h
    <3>1. \A r \in Held(t) : r.key # h
      BY FindLeafIs
    <3> QED BY <3>1 DEF Held
  <2>2. o \in Held(t) /\ o.key # h /\ t.leaf[p] = o
    BY <1>1 DEF Held, o
  <2>3. ASSUME NEW r \in Held(u) PROVE r \in {x \in Held(t) : x.key # h} \cup {Leaf(h, v)}
    <3>1. PICK q \in DOMAIN u.leaf : r = u.leaf[q]
      BY DEF Held
    <3>2. CASE q = ph
      BY <1>1, <3>1, <3>2
    <3>3. CASE q = po
      BY <1>1, <2>2, <3>1, <3>3
    <3>4. CASE q \in DOMAIN t.leaf \ {p}
      BY <1>7, <2>1, <3>1, <3>4 DEF Held
    <3> QED BY <1>1, <3>2, <3>3, <3>4
  <2>4. ASSUME NEW r \in Held(t) PROVE r \in Held(u)
    <3>1. PICK q \in DOMAIN t.leaf : r = t.leaf[q]
      BY DEF Held
    <3>2. CASE q = p
      <4>1. r = o /\ po \in DOMAIN u.leaf /\ u.leaf[po] = o
        BY <1>1, <2>2, <3>1, <3>2
      <4> QED BY <4>1 DEF Held
    <3>3. CASE q # p
      BY <1>7, <3>1, <3>3 DEF Held
    <3> QED BY <3>2, <3>3
  <2>5. Leaf(h, v) \in Held(u)
    BY <1>1 DEF Held
  <2> QED BY <2>3, <2>4, <2>5
<1>15. ASSUME NEW q \in u.inner \ t.inner PROVE Forks(KeysOf(u), q)
  <2>1. PICK l \in n .. d : q = Upto(h, l)
    BY <1>1
  <2>2. l \in 0 .. d
    BY <1>1
  <2>3. Len(q) = l /\ Upto(o.key, l) = q
    BY <1>a, <1>b, <1>5, <2>1, <2>2
  <2>4. h \in KeysOf(u) /\ o.key \in KeysOf(u)
    BY <1>1, LeafRecord DEF KeysOf
  <2> QED BY <1>1, <2>1, <2>3, <2>4 DEF Forks
<1>16. NodesNeeded(t, h) = d - n + 2
  BY DEF NodesNeeded, d, n
<1>17. Nodes(u) = Nodes(t) \cup {Upto(h, x) : x \in n + 1 .. d + 1} \cup {po}
  <2>1. \A q : q \in {Upto(h, x) : x \in n + 1 .. d + 1} =>
               q \in {Upto(h, x) : x \in n .. d} \/ q = ph
    <3>1. \A x \in n + 1 .. d + 1 : x \in n .. d \/ x = d + 1
      BY <1>1
    <3> QED BY <3>1
  <2>2. \A q : q \in {Upto(h, x) : x \in n .. d} =>
               q \in {Upto(h, x) : x \in n + 1 .. d + 1} \/ q = p
    <3>1. \A x \in n .. d : x \in n + 1 .. d + 1 \/ x = n
      BY <1>1
    <3> QED BY <1>1, <3>1
  <2>3. ph \in {Upto(h, x) : x \in n + 1 .. d + 1} /\ p \in {Upto(h, x) : x \in n .. d}
    <3>1. n \in n .. d
      BY <1>1
    <3> QED BY <1>1, <1>5, <3>1
  <2> HIDE DEF po, ph
  <2> DEFINE A == {Upto(h, x) : x \in n + 1 .. d + 1}
             B == {Upto(h, x) : x \in n .. d}
  <2>4. /\ \A q : q \in A => q \in B \/ q = ph
        /\ \A q : q \in B => q \in A \/ q = p
        /\ ph \in A /\ p \in B
    BY <2>1, <2>2, <2>3
  <2>5. u.inner = t.inner \cup B /\ DOMAIN u.leaf = (DOMAIN t.leaf \ {p}) \cup {po, ph} /\ p \in DOMAIN t.leaf
    BY <1>1
  <2> HIDE DEF A, B
  <2>6. Nodes(u) = Nodes(t) \cup A \cup {po}
    BY <2>4, <2>5, Zenon DEF Nodes
  <2> QED BY <2>6 DEF A
<1>18. po \notin {Upto(h, x) : x \in n + 1 .. d + 1}
  <2>1. ASSUME NEW x \in n + 1 .. d + 1, po = Upto(h, x) PROVE FALSE
    <3>1. x \in 0 .. d + 1
      BY <1>1
    <3>2. Len(po) = d + 1 /\ Len(Upto(h, x)) = x
      BY <1>5, <1>a, <3>1
    <3>3. x = d + 1
      BY <2>1, <3>2
    <3> QED BY <1>c, <2>1, <3>3
  <2> QED BY <2>1
<1>19. n \in 0 .. Nibbles /\ d \in 0 .. Nibbles - 1 /\ n <= d
  BY <1>1, RadixAssumption
<1>20. \E q : /\ Nodes(u) = Nodes(t) \cup {Upto(h, x) : x \in n + 1 .. d + 1} \cup {q}
              /\ q \notin Nodes(t) \cup {Upto(h, x) : x \in n + 1 .. d + 1}
  BY <1>6, <1>17, <1>18
<1>21. \A x \in n + 1 .. d + 1 : Upto(h, x) \notin Nodes(t)
  BY <1>4
<1>22. \A q \in u.inner \ t.inner : Forks(KeysOf(u), q)
  BY <1>15
<1> QED
  BY <1>13, <1>14, <1>16, <1>19, <1>20, <1>21, <1>22, Zenon

(* bbq_htree_insert: the leaves hold the new value under the key and what  *)
(* they held under every other; a new interior node has two keys below;    *)
(* and the tree grows by the nodes it was granted.                         *)
LEMMA InsertTree ==
  ASSUME NEW t, TreeOK(t), NEW h \in HKeys, NEW v, NEW u, u = Insert(t, h, v)
  PROVE  /\ TreeOK(u)
         /\ Held(u) = {r \in Held(t) : r.key # h} \cup {Leaf(h, v)}
         /\ \A p \in u.inner \ t.inner : Forks(KeysOf(u), p)
         /\ FindLeaf(t, h) => u.inner = t.inner /\ DOMAIN u.leaf = DOMAIN t.leaf
         /\ IsFiniteSet(Nodes(t)) /\ NodesNeeded(t, h) \in Nat
         /\ Cardinality(Nodes(u)) = Cardinality(Nodes(t)) + NodesNeeded(t, h)
<1>1. IsFiniteSet(Nodes(t))
  BY FS_Union DEF Nodes, TreeOK
<1>2. CASE FindLeaf(t, h)
  <2>1. u = [t EXCEPT !.leaf = PutLeaf(@, Slot(t, h), Leaf(h, v))]
    BY <1>2 DEF Insert
  <2>2. /\ TreeOK(u) /\ u.inner = t.inner
        /\ Held(u) = {r \in Held(t) : r.key # h} \cup {Leaf(h, v)}
        /\ Nodes(u) = Nodes(t) \cup {Slot(t, h)}
    BY <1>2, <2>1, LeafPut
  <2>3. Slot(t, h) \in DOMAIN t.leaf
    BY <1>2 DEF FindLeaf
  <2>4. Nodes(u) = Nodes(t)
    BY <2>2, <2>3 DEF Nodes
  <2>5. NodesNeeded(t, h) = 0 /\ Cardinality(Nodes(t)) \in Nat
    BY <1>1, <1>2, FS_CardinalityType DEF NodesNeeded
  <2>6. DOMAIN u.leaf = DOMAIN t.leaf
    BY <2>2, <2>4 DEF Nodes, TreeOK
  <2> QED BY <1>1, <2>2, <2>4, <2>5, <2>6, SMTT(60)
<1>3. CASE ~FindLeaf(t, h) /\ ~HasLeaf(t, h)
  <2>1. u = [t EXCEPT !.leaf = PutLeaf(@, Slot(t, h), Leaf(h, v))]
    BY <1>3 DEF Insert
  <2>2. /\ TreeOK(u) /\ u.inner = t.inner
        /\ Held(u) = {r \in Held(t) : r.key # h} \cup {Leaf(h, v)}
        /\ Nodes(u) = Nodes(t) \cup {Slot(t, h)}
    BY <1>3, <2>1, LeafPut
  <2>3. Slot(t, h) \notin Nodes(t)
    BY <1>3, LevelStops DEF HasLeaf, Nodes
  <2>4. NodesNeeded(t, h) = 1
    BY <1>3 DEF NodesNeeded
  <2>5. Cardinality(Nodes(u)) = Cardinality(Nodes(t)) + 1
    BY <1>1, <2>2, <2>3, FS_AddElement
  <2> QED BY <1>1, <1>3, <2>2, <2>4, <2>5
<1>4. CASE ~FindLeaf(t, h) /\ HasLeaf(t, h)
  <2>1. u = SplitLeaf(t, h, v)
    BY <1>4 DEF Insert
  <2>2. PICK n \in 0 .. Nibbles, d \in 0 .. Nibbles - 1 :
               /\ n <= d /\ NodesNeeded(t, h) = d - n + 2
               /\ \E q : /\ Nodes(u) = Nodes(t) \cup {Upto(h, x) : x \in n + 1 .. d + 1} \cup {q}
                         /\ q \notin Nodes(t) \cup {Upto(h, x) : x \in n + 1 .. d + 1}
               /\ \A x \in n + 1 .. d + 1 : Upto(h, x) \notin Nodes(t)
    BY <1>4, <2>1, SplitTree
  <2> DEFINE A == {Upto(h, x) : x \in n + 1 .. d + 1}
             F == [x \in n + 1 .. d + 1 |-> Upto(h, x)]
  <2>3. PICK q : Nodes(u) = Nodes(t) \cup A \cup {q} /\ q \notin Nodes(t) \cup A
    BY <2>2
  <2>4. Nodes(t) \cap A = {}
    BY <2>2
  <2>5. n \in Nat /\ d \in Nat /\ n <= d /\ \A x \in n + 1 .. d + 1 : x \in 0 .. Nibbles
    BY <2>2, RadixAssumption
  <2>6. IsFiniteSet(A) /\ Cardinality(A) = d - n + 1
    <3>1. \A x \in n + 1 .. d + 1 : Len(Upto(h, x)) = x
      BY <2>5, UptoIs
    <3>2. F \in Bijection(n + 1 .. d + 1, A)
      <4>1. F \in [n + 1 .. d + 1 -> A] /\ \A y \in A : \E x \in n + 1 .. d + 1 : F[x] = y
        OBVIOUS
      <4>2. \A x, y \in n + 1 .. d + 1 : F[x] = F[y] => x = y
        BY <3>1
      <4> HIDE DEF A, F
      <4> QED BY <4>1, <4>2, Fun_IsBij
    <3>3. IsFiniteSet(n + 1 .. d + 1) /\ Cardinality(n + 1 .. d + 1) = d - n + 1
      BY <2>5, FS_Interval
    <3> HIDE DEF A, F
    <3> QED BY <3>2, <3>3, FS_Bijection DEF ExistsBijection
  <2> HIDE DEF A
  <2>7. /\ IsFiniteSet(Nodes(t) \cup A)
        /\ Cardinality(Nodes(t) \cup A) = Cardinality(Nodes(t)) + (d - n + 1)
    <3>1. Cardinality(Nodes(t) \cap A) = 0 /\ Cardinality(Nodes(t)) \in Nat
      BY <1>1, <2>4, FS_EmptySet, FS_CardinalityType
    <3> QED BY <1>1, <2>5, <2>6, <3>1, FS_Union
  <2>8. Cardinality(Nodes(u)) = Cardinality(Nodes(t)) + (d - n + 1) + 1
    BY <2>3, <2>7, FS_AddElement
  <2>9. Cardinality(Nodes(u)) = Cardinality(Nodes(t)) + NodesNeeded(t, h) /\ NodesNeeded(t, h) \in Nat
    BY <1>1, <2>2, <2>5, <2>8, FS_CardinalityType
  <2> QED BY <1>1, <1>4, <2>1, <2>9, SplitTree
<1> QED
  BY <1>2, <1>3, <1>4

-----------------------------------------------------------------------------
(* Deletion.                                                               *)

(* Every node is on the way to a key.                                      *)
LEMMA NodeKey ==
  ASSUME NEW t, TreeOK(t), NEW x \in Nodes(t)
  PROVE  \E k \in KeysOf(t) : k \in HKeys /\ Len(x) \in 0 .. Nibbles /\ x = Upto(k, Len(x))
<1>1. CASE x \in t.inner
  <2>1. PICK l \in DOMAIN t.leaf :
            /\ x = Upto(t.leaf[l].key, Len(x)) /\ t.leaf[l].key \in HKeys
            /\ Len(x) \in 0 .. Nibbles - 1
    BY <1>1, InnerIs
  <2>2. Len(x) \in 0 .. Nibbles
    BY <2>1, RadixAssumption
  <2> QED BY <2>1, <2>2 DEF KeysOf
<1>2. CASE x \in DOMAIN t.leaf
  BY <1>2 DEF TreeOK, LeafOK, KeysOf
<1> QED
  BY <1>1, <1>2 DEF Nodes

(* A key whose path passes an interior node has its leaf below.            *)
LEMMA PassesUnder ==
  ASSUME NEW t, TreeOK(t), NEW p \in t.inner, NEW l \in DOMAIN t.leaf,
         p = Upto(t.leaf[l].key, Len(p))
  PROVE  l \in Under(t, p)
<1>1. LeafOK(t, l) /\ l \notin t.inner /\ Len(p) \in 0 .. Nibbles - 1
  BY DEF TreeOK
<1>2. Len(p) \in 0 .. Nibbles /\ Len(l) \in 0 .. Nibbles /\ t.leaf[l].key \in HKeys
  BY <1>1, RadixAssumption DEF LeafOK
<1>3. ASSUME Len(l) <= Len(p) PROVE FALSE
  <2>1. Len(l) \in 0 .. Len(p)
    BY <1>2, <1>3, RadixAssumption
  <2>2. Upto(t.leaf[l].key, Len(l)) \in t.inner
    BY <1>2, <2>1, InnerClosed
  <2> QED BY <1>1, <2>2 DEF LeafOK
<1>4. Len(p) < Len(l)
  BY <1>2, <1>3, RadixAssumption
<1> QED
  BY <1>4 DEF Under

(* The child on the way to a leaf below.                                   *)
LEMMA ChildOnTheWay ==
  ASSUME NEW t, TreeOK(t), NEW p \in t.inner, NEW l \in Under(t, p)
  PROVE  LET k == t.leaf[l].key
             n == Len(p)
         IN  /\ n \in 0 .. Nibbles - 1 /\ k \in HKeys /\ p = Upto(k, n)
             /\ k[n + 1] \in Children(t, p) /\ k[n + 1] \in 0 .. Radix - 1
             /\ Append(p, k[n + 1]) = Upto(k, n + 1)
             /\ Upto(k, n + 1) \in DOMAIN t.leaf => Upto(k, n + 1) = l
<1> DEFINE k == t.leaf[l].key
           n == Len(p)
<1>1. /\ n \in 0 .. Nibbles - 1 /\ n < Len(l) /\ p = Upto(k, n) /\ l \in DOMAIN t.leaf
      /\ LeafOK(t, l)
  BY DEF TreeOK, Under
<1>2. k \in HKeys /\ Len(l) \in 0 .. Nibbles /\ l = Upto(k, Len(l))
  BY <1>1 DEF LeafOK
<1>3. Append(p, k[n + 1]) = Upto(k, n + 1) /\ k[n + 1] \in 0 .. Radix - 1
  <2> HIDE DEF k, n
  <2> QED BY <1>1, <1>2, UptoAppend
<1>4. n + 1 = Len(l) \/ n + 1 \in 0 .. Len(l) - 1
  BY <1>1, <1>2, RadixAssumption
<1>5. n + 1 \in 0 .. Len(l) - 1 => Upto(k, n + 1) \in t.inner
  BY <1>1 DEF LeafOK
<1>6. Upto(k, n + 1) \in t.inner \/ Upto(k, n + 1) = l
  BY <1>2, <1>4, <1>5
<1>7. Upto(k, n + 1) \in Nodes(t)
  BY <1>1, <1>6 DEF Nodes
<1>8. Upto(k, n + 1) \in DOMAIN t.leaf => Upto(k, n + 1) = l
  BY <1>6 DEF TreeOK
<1>9. k[n + 1] \in Children(t, p)
  BY <1>3, <1>7 DEF Children
<1> QED
  BY <1>1, <1>2, <1>3, <1>8, <1>9

(* What a child is on the way to.                                          *)
LEMMA ChildKey ==
  ASSUME NEW t, TreeOK(t), NEW h \in HKeys, NEW n \in 0 .. Nibbles - 1,
         NEW j \in Children(t, Upto(h, n))
  PROVE  \E k \in KeysOf(t) : /\ k \in HKeys /\ Upto(k, n) = Upto(h, n) /\ k[n + 1] = j
                              /\ Append(Upto(h, n), j) = Upto(k, n + 1)
<1>1. j \in 0 .. Radix - 1 /\ Append(Upto(h, n), j) \in Nodes(t)
  BY DEF Children
<1>2. PICK k \in KeysOf(t) :
         /\ k \in HKeys /\ Len(Append(Upto(h, n), j)) \in 0 .. Nibbles
         /\ Append(Upto(h, n), j) = Upto(k, Len(Append(Upto(h, n), j)))
  BY <1>1, NodeKey
<1> DEFINE m == Len(Append(Upto(h, n), j))
<1>3. m \in 0 .. Nibbles /\ Append(Upto(h, n), j) = Upto(k, m)
  BY <1>2
<1> HIDE DEF m
<1>4. m = n + 1 /\ Upto(k, n) = Upto(h, n) /\ k[n + 1] = j
  BY <1>1, <1>2, <1>3, AppendSame
<1> QED
  BY <1>2, <1>3, <1>4

(* bbq_htree_delete up to its walk back, in a tree where all forks.        *)
LEMMA UnlinkedTree ==
  ASSUME NEW t, TreeOK(t), NEW h \in HKeys, FindLeaf(t, h), NEW u, u = Unlinked(t, h),
         \A p \in t.inner : Forks(KeysOf(t), p)
  PROVE  /\ TreeOK(u) /\ Held(u) = {r \in Held(t) : r.key # h}
         /\ IsFiniteSet(Nodes(t)) /\ Cardinality(Nodes(u)) = Cardinality(Nodes(t)) - 1
         /\ \A p \in u.inner : Forks(KeysOf(u), p) \/ \E m \in 0 .. Level(t, h) - 1 : p = Upto(h, m)
         /\ Level(t, h) \in 0 .. Nibbles
         /\ Upto(h, Level(t, h)) \notin u.inner
         /\ \A m \in 0 .. Level(t, h) - 1 : Upto(h, m) \in u.inner
<1> DEFINE s == Slot(t, h)
<1>1. s \in DOMAIN t.leaf /\ t.leaf[s].key = h
  BY DEF FindLeaf
<1>2. /\ u.inner = t.inner /\ DOMAIN u.leaf = DOMAIN t.leaf \ {s}
      /\ u = [inner |-> u.inner, leaf |-> u.leaf]
      /\ u.leaf = [q \in DOMAIN u.leaf |-> u.leaf[q]]
      /\ \A q \in DOMAIN u.leaf : u.leaf[q] = t.leaf[q]
  <2> DEFINE f == DropLeaf(t.leaf, s)
             g == t.leaf
  <2>1. t = [inner |-> t.inner, leaf |-> t.leaf]
    BY DEF TreeOK
  <2>2. u.inner = t.inner /\ u.leaf = f /\ u = [inner |-> t.inner, leaf |-> f]
    BY <2>1 DEF Unlinked
  <2>3. /\ DOMAIN f = DOMAIN t.leaf \ {s} /\ f = [q \in DOMAIN f |-> f[q]]
        /\ \A q \in DOMAIN f : f[q] = t.leaf[q]
    <3> HIDE DEF s, g
    <3>1. /\ DOMAIN DropLeaf(g, s) = DOMAIN g \ {s}
          /\ DropLeaf(g, s) = [q \in DOMAIN DropLeaf(g, s) |-> DropLeaf(g, s)[q]]
          /\ \A q \in DOMAIN DropLeaf(g, s) : DropLeaf(g, s)[q] = g[q]
      BY DEF DropLeaf
    <3> QED BY <3>1 DEF g
  <2> HIDE DEF f, s
  <2> QED BY <2>2, <2>3
<1>3. \A l \in DOMAIN t.leaf : t.leaf[l].key = h => l = s
  BY AtLeaf
<1>4. \A l \in DOMAIN t.leaf : t.leaf[l].key # h => l \in DOMAIN u.leaf /\ u.leaf[l].key = t.leaf[l].key
  BY <1>1, <1>2
<1>5. KeysOf(u) = KeysOf(t) \ {h}
  <2> HIDE DEF s
  <2> QED BY <1>1, <1>2, <1>3, <1>4 DEF KeysOf
<1>6. \A q \in DOMAIN u.leaf : LeafOK(u, q)
  <2> TAKE q \in DOMAIN u.leaf
  <2>1. u.leaf[q] = t.leaf[q] /\ LeafOK(t, q)
    BY <1>2 DEF TreeOK
  <2> QED BY <1>2, <2>1 DEF LeafOK
<1>7. \A q \in u.inner : Len(q) \in 0 .. Nibbles - 1 /\ Under(u, q) # {}
  <2> SUFFICES ASSUME NEW q \in t.inner PROVE Len(q) \in 0 .. Nibbles - 1 /\ Under(u, q) # {}
    BY <1>2
  <2>1. PICK k \in KeysOf(t) : k # h /\ Upto(k, Len(q)) = q
    BY DEF Forks
  <2>2. PICK l \in DOMAIN t.leaf : t.leaf[l].key = k
    BY DEF KeysOf
  <2>3. l \in Under(t, q)
    BY <2>1, <2>2, PassesUnder
  <2>4. l \in Under(u, q)
    BY <1>4, <2>1, <2>2, <2>3 DEF Under
  <2> QED BY <2>4 DEF TreeOK
<1>8. IsFiniteSet(u.inner) /\ IsFiniteSet(DOMAIN u.leaf)
  <2>1. IsFiniteSet(DOMAIN t.leaf \ {s})
    BY FS_RemoveElement DEF TreeOK
  <2> QED BY <1>2, <2>1 DEF TreeOK
<1>9. TreeOK(u)
  <2>1. u.inner \cap DOMAIN u.leaf = {}
    BY <1>2 DEF TreeOK
  <2> QED BY <1>2, <1>6, <1>7, <1>8, <2>1 DEF TreeOK
<1>10. Held(u) = {r \in Held(t) : r.key # h}
  <2> HIDE DEF s
  <2>1. \A r \in Held(u) : r \in Held(t) /\ r.key # h
    BY <1>2, <1>3 DEF Held
  <2>2. \A r \in Held(t) : r.key # h => r \in Held(u)
    BY <1>1, <1>2 DEF Held
  <2> QED BY <2>1, <2>2
<1>11. IsFiniteSet(Nodes(t)) /\ Cardinality(Nodes(u)) = Cardinality(Nodes(t)) - 1
  <2>1. IsFiniteSet(Nodes(t))
    BY FS_Union DEF Nodes, TreeOK
  <2>2. Nodes(u) = Nodes(t) \ {s} /\ s \in Nodes(t)
    <3> HIDE DEF s
    <3> QED BY <1>1, <1>2 DEF Nodes, TreeOK
  <2> HIDE DEF s
  <2> QED BY <2>1, <2>2, FS_RemoveElement
<1>12. ASSUME NEW p \in u.inner, ~ Forks(KeysOf(u), p)
       PROVE  \E m \in 0 .. Level(t, h) - 1 : p = Upto(h, m)
  <2>1. PICK a \in KeysOf(t), b \in KeysOf(t) : a # b /\ Upto(a, Len(p)) = p /\ Upto(b, Len(p)) = p
    BY <1>2, <1>12 DEF Forks
  <2>2. a = h \/ b = h
    BY <1>5, <1>12, <2>1 DEF Forks
  <2>3. Upto(h, Len(p)) = p /\ p \in t.inner
    BY <1>2, <1>12, <2>1, <2>2
  <2>4. s \in Under(t, p)
    BY <1>1, <2>3, PassesUnder
  <2>5. Len(p) < Len(s) /\ Len(s) = Level(t, h) /\ Level(t, h) \in 0 .. Nibbles /\ Len(p) \in 0 .. Nibbles - 1
    BY <2>3, <2>4, LevelStops DEF Under, TreeOK
  <2>6. Len(p) \in 0 .. Level(t, h) - 1
    BY <2>5, RadixAssumption
  <2> QED BY <2>3, <2>6
<1> QED
  BY <1>2, <1>9, <1>10, <1>11, <1>12, LevelStops DEF Slot

(* The tree once a lone leaf has taken its parent's place.                 *)
LEMMA CollapsedIs ==
  ASSUME NEW t, NEW p, NEW i, Children(t, p) = {i}
  PROVE  Collapsed(t, p) = [inner |-> t.inner \ {p},
                            leaf |-> PutLeaf(DropLeaf(t.leaf, Append(p, i)), p, t.leaf[Append(p, i)])]
<1>1. (CHOOSE x \in Children(t, p) : TRUE) = i /\ Children(t, p) # {}
  OBVIOUS
<1> QED
  BY <1>1, Zenon DEF Collapsed

(* A turn of the walk back: a lone leaf takes its parent's place.          *)
LEMMA CollapsedTree ==
  ASSUME NEW t, TreeOK(t), NEW h \in HKeys, NEW n \in 0 .. Nibbles - 1,
         NEW p, p = Upto(h, n), p \in t.inner, Collapses(t, p), NEW u, u = Collapsed(t, p)
  PROVE  /\ TreeOK(u) /\ Held(u) = Held(t) /\ u.inner = t.inner \ {p}
         /\ IsFiniteSet(Nodes(t)) /\ Cardinality(Nodes(u)) = Cardinality(Nodes(t)) - 1
<1>0. n \in 0 .. Nibbles /\ n + 1 \in 0 .. Nibbles /\ n \in Nat
  BY RadixAssumption
<1>1. Len(p) = n
  BY <1>0, UptoIs
<1>2. Under(t, p) # {}
  BY DEF TreeOK
<1>3. PICK q \in Under(t, p) : TRUE
  BY <1>2
<1> DEFINE o == t.leaf[q]
           k == o.key
<1>4. /\ k \in HKeys /\ p = Upto(k, n) /\ k[n + 1] \in Children(t, p)
      /\ Append(p, k[n + 1]) = Upto(k, n + 1)
      /\ Upto(k, n + 1) \in DOMAIN t.leaf => Upto(k, n + 1) = q
  BY <1>1, ChildOnTheWay
<1>5. Children(t, p) = {k[n + 1]} /\ Upto(k, n + 1) = q
  <2>1. PICK i \in Children(t, p) : Children(t, p) = {i} /\ Append(p, i) \in DOMAIN t.leaf
    BY <1>4 DEF Collapses
  <2> QED BY <1>4, <2>1
<1>6. q \in DOMAIN t.leaf /\ p # q /\ LeafOK(t, q) /\ Len(q) = n + 1
  <2>1. q \in DOMAIN t.leaf
    BY <1>3 DEF Under
  <2>2. Len(q) = n + 1
    BY <1>0, <1>4, <1>5, UptoIs
  <2> QED BY <1>0, <1>1, <2>1, <2>2 DEF TreeOK
<1>7. /\ u = [inner |-> u.inner, leaf |-> u.leaf] /\ u.inner = t.inner \ {p}
      /\ DOMAIN u.leaf = (DOMAIN t.leaf \ {q}) \cup {p}
      /\ u.leaf = [x \in DOMAIN u.leaf |-> u.leaf[x]]
      /\ u.leaf[p] = o /\ \A x \in DOMAIN t.leaf \ {q} : x # p => u.leaf[x] = t.leaf[x]
  <2> DEFINE g == PutLeaf(DropLeaf(t.leaf, q), p, t.leaf[q])
             c == k[n + 1]
  <2>1. Children(t, p) = {c} /\ Append(p, c) = q
    BY <1>4, <1>5
  <2>2. u = [inner |-> t.inner \ {p}, leaf |-> g]
    <3> HIDE DEF c, g
    <3>1. u = [inner |-> t.inner \ {p},
               leaf |-> PutLeaf(DropLeaf(t.leaf, Append(p, c)), p, t.leaf[Append(p, c)])]
      BY <2>1, CollapsedIs, Zenon
    <3> QED BY <2>1, <3>1, Zenon DEF g
  <2>3. PICK f : f = g
    OBVIOUS
  <2>4. /\ DOMAIN f = (DOMAIN t.leaf \ {q}) \cup {p} /\ f = [x \in DOMAIN f |-> f[x]]
        /\ f[p] = o /\ \A x \in DOMAIN t.leaf \ {q} : x # p => f[x] = t.leaf[x]
    <3> DEFINE l == t.leaf
    <3>1. p # q /\ o = l[q] /\ f = PutLeaf(DropLeaf(l, q), p, o)
      BY <1>6, <2>3
    <3> HIDE DEF l, o
    <3>2. /\ DOMAIN f = (DOMAIN l \ {q}) \cup {p} /\ f = [x \in DOMAIN f |-> f[x]]
          /\ f[p] = o /\ \A x \in DOMAIN l \ {q} : x # p => f[x] = l[x]
      <4> DEFINE e == DropLeaf(l, q)
      <4>1. DOMAIN e = DOMAIN l \ {q} /\ \A x \in DOMAIN e : e[x] = l[x]
        BY DEF DropLeaf
      <4>2. f = PutLeaf(e, p, o)
        BY <3>1
      <4> HIDE DEF e
      <4>3. /\ DOMAIN f = DOMAIN e \cup {p} /\ f = [x \in DOMAIN f |-> f[x]]
            /\ f[p] = o /\ \A x \in DOMAIN e : x # p => f[x] = e[x]
        BY <4>2 DEF PutLeaf
      <4> QED BY <4>1, <4>3
    <3> QED BY <3>2 DEF l
  <2> HIDE DEF g
  <2> QED BY <2>2, <2>3, <2>4
<1>8. p \notin DOMAIN t.leaf
  BY DEF TreeOK
<1>9. \A x \in DOMAIN t.leaf \ {q} : x \in DOMAIN u.leaf /\ u.leaf[x] = t.leaf[x] /\ x # p
  BY <1>7, <1>8
\* No other leaf is below.
<1>10. ASSUME NEW l \in Under(t, p) PROVE l = q
  <2> DEFINE j == t.leaf[l].key
  <2>1. j \in HKeys /\ p = Upto(j, n) /\ j[n + 1] \in Children(t, p) /\ Append(p, j[n + 1]) = Upto(j, n + 1)
        /\ (Upto(j, n + 1) \in DOMAIN t.leaf => Upto(j, n + 1) = l)
    BY <1>1, <1>10, ChildOnTheWay
  <2>2. Upto(j, n + 1) = q
    BY <1>4, <1>5, <2>1
  <2> QED BY <1>6, <2>1, <2>2
<1> HIDE DEF o, k
<1>11. ASSUME NEW x \in DOMAIN u.leaf PROVE LeafOK(u, x)
  <2>1. CASE x = p
    <3>1. \A m \in 0 .. n - 1 : Upto(k, m) \in u.inner
      <4> TAKE m \in 0 .. n - 1
      <4>1. m \in 0 .. Len(q) - 1 /\ m \in 0 .. Nibbles /\ m # n
        BY <1>0, <1>6, RadixAssumption
      <4>2. Upto(k, m) \in t.inner /\ Len(Upto(k, m)) = m
        BY <1>4, <1>6, <4>1, UptoIs DEF LeafOK, k, o
      <4> QED BY <1>1, <1>7, <4>1, <4>2
    <3>2. u.leaf[x] = o /\ o = [key |-> o.key, value |-> o.value] /\ o.key = k
      BY <1>6, <1>7, <2>1 DEF LeafOK, k, o
    <3> QED BY <1>0, <1>1, <1>4, <2>1, <3>1, <3>2 DEF LeafOK
  <2>2. CASE x \in DOMAIN t.leaf \ {q}
    <3>1. u.leaf[x] = t.leaf[x] /\ LeafOK(t, x)
      BY <1>9, <2>2 DEF TreeOK
    <3>2. \A m \in 0 .. Len(x) - 1 : Upto(t.leaf[x].key, m) # p
      <4> TAKE m \in 0 .. Len(x) - 1
      <4>1. ASSUME Upto(t.leaf[x].key, m) = p PROVE FALSE
        <5>1. m \in 0 .. Nibbles /\ t.leaf[x].key \in HKeys /\ m < Len(x)
          BY <3>1, RadixAssumption DEF LeafOK
        <5>2. Len(p) = m
          BY <4>1, <5>1, UptoIs
        <5>3. x \in Under(t, p)
          BY <2>2, <4>1, <5>1, <5>2 DEF Under
        <5> QED BY <1>10, <2>2, <5>3
      <4> QED BY <4>1
    <3> QED BY <1>7, <3>1, <3>2 DEF LeafOK
  <2> QED BY <1>7, <2>1, <2>2
<1>12. ASSUME NEW x \in u.inner PROVE Len(x) \in 0 .. Nibbles - 1 /\ Under(u, x) # {}
  <2>1. x \in t.inner /\ x # p
    BY <1>7, <1>12
  <2>2. PICK l \in DOMAIN t.leaf : Len(x) < Len(l) /\ x = Upto(t.leaf[l].key, Len(x)) /\ Len(x) \in 0 .. Nibbles - 1
    BY <2>1, InnerIs
  <2>3. CASE l # q
    BY <1>9, <2>2, <2>3 DEF Under
  <2>4. CASE l = q
    <3>1. x = Upto(k, Len(x)) /\ Len(x) < n + 1
      BY <1>6, <2>2, <2>4 DEF k, o
    <3>2. Len(x) # n
      BY <1>4, <2>1, <3>1
    <3>3. Len(x) < Len(p)
      BY <1>0, <1>1, <2>2, <3>1, <3>2, RadixAssumption
    <3> QED BY <1>7, <2>2, <3>1, <3>3 DEF Under, k
  <2> QED BY <2>2, <2>3, <2>4
<1>13. IsFiniteSet(u.inner) /\ IsFiniteSet(DOMAIN u.leaf)
  <2>1. IsFiniteSet(t.inner \ {p})
    BY FS_RemoveElement DEF TreeOK
  <2>2. IsFiniteSet(DOMAIN t.leaf \ {q})
    BY FS_RemoveElement DEF TreeOK
  <2>3. IsFiniteSet((DOMAIN t.leaf \ {q}) \cup {p})
    BY <2>2, FS_AddElement
  <2> QED BY <1>7, <2>1, <2>3
<1>14. TreeOK(u)
  <2>1. u.inner \cap DOMAIN u.leaf = {}
    BY <1>7 DEF TreeOK
  <2> QED BY <1>7, <1>11, <1>12, <1>13, <2>1 DEF TreeOK
<1>15. Held(u) = Held(t)
  <2>1. t.leaf[q] = o
    BY DEF o
  <2>2. \A r \in Held(u) : r \in Held(t)
    BY <1>6, <1>7, <1>9, <2>1 DEF Held
  <2>3. \A r \in Held(t) : r \in Held(u)
    BY <1>7, <1>9, <2>1 DEF Held
  <2> QED BY <2>2, <2>3
<1>16. IsFiniteSet(Nodes(t))
  BY FS_Union DEF Nodes, TreeOK
<1>17. Nodes(u) = Nodes(t) \ {q} /\ q \in Nodes(t)
  BY <1>6, <1>7 DEF Nodes, TreeOK
<1>18. Cardinality(Nodes(u)) = Cardinality(Nodes(t)) - 1
  BY <1>16, <1>17, FS_RemoveElement
<1> QED
  BY <1>7, <1>14, <1>15, <1>16, <1>18

(* Where the walk back stops, two keys part, here or further down.         *)
LEMMA WalkStops ==
  ASSUME NEW t, TreeOK(t), NEW h \in HKeys, NEW n \in 1 .. Nibbles,
         Upto(h, n - 1) \in t.inner, Upto(h, n) \notin t.inner, ~ Collapses(t, Upto(h, n - 1)),
         \A p \in t.inner : Forks(KeysOf(t), p) \/ \E m \in 0 .. n - 1 : p = Upto(h, m)
  PROVE  \A p \in t.inner : Forks(KeysOf(t), p)
<1> DEFINE e == n - 1
           p == Upto(h, e)
<1>0. e \in 0 .. Nibbles - 1 /\ e \in 0 .. Nibbles /\ e + 1 = n /\ e + 1 \in 0 .. Nibbles /\ e \in Nat
  BY RadixAssumption
<1>1. Len(p) = e
  BY <1>0, UptoIs
<1>2. p \in t.inner /\ ~ Collapses(t, p)
  OBVIOUS
<1> HIDE DEF e
<1>3. PICK l \in Under(t, p) : TRUE
  BY <1>2 DEF TreeOK
<1> DEFINE k == t.leaf[l].key
<1>4. /\ k \in HKeys /\ p = Upto(k, e) /\ k[e + 1] \in Children(t, p)
      /\ Append(p, k[e + 1]) = Upto(k, e + 1)
      /\ k \in KeysOf(t)
  <2>1. k \in KeysOf(t)
    BY <1>3 DEF Under, KeysOf
  <2> HIDE DEF p
  <2> QED BY <1>1, <1>2, <2>1, ChildOnTheWay
<1> HIDE DEF k
<1>5. Forks(KeysOf(t), p)
  <2>1. CASE \E j \in Children(t, p) : j # k[e + 1]
    <3>1. PICK j \in Children(t, p) : j # k[e + 1]
      BY <2>1
    <3>2. PICK g \in KeysOf(t) : g \in HKeys /\ Upto(g, e) = p /\ g[e + 1] = j
      BY <1>0, <3>1, ChildKey
    <3> QED BY <1>1, <1>4, <3>1, <3>2 DEF Forks
  <2>2. CASE \A j \in Children(t, p) : j = k[e + 1]
    <3>1. Children(t, p) = {k[e + 1]}
      BY <1>4, <2>2
    <3>2. Upto(k, e + 1) \notin DOMAIN t.leaf
      <4> HIDE DEF p
      <4> QED BY <1>2, <1>4, <3>1 DEF Collapses
    <3>3. Upto(k, e + 1) \in t.inner
      BY <1>4, <3>2 DEF Children, Nodes
    <3>4. Len(Upto(k, e + 1)) = e + 1
      BY <1>0, <1>4, UptoIs
    <3>5. ASSUME NEW m \in 0 .. n - 1, Upto(k, e + 1) = Upto(h, m) PROVE FALSE
      <4>1. Len(Upto(h, m)) = m /\ m # e + 1
        <5>1. m \in 0 .. Nibbles /\ m # e + 1
          BY <1>0, RadixAssumption
        <5> QED BY <5>1, UptoIs
      <4> QED BY <3>4, <3>5, <4>1
    <3>6. Forks(KeysOf(t), Upto(k, e + 1))
      BY <3>3, <3>5
    <3>7. PICK a \in KeysOf(t), b \in KeysOf(t) :
             a # b /\ Upto(a, e + 1) = Upto(k, e + 1) /\ Upto(b, e + 1) = Upto(k, e + 1)
      BY <3>4, <3>6 DEF Forks
    <3>8. a \in HKeys /\ b \in HKeys
      BY DEF KeysOf, TreeOK, LeafOK
    <3>9. Upto(a, e) = Upto(k, e) /\ Upto(b, e) = Upto(k, e)
      <4>1. e \in 0 .. e + 1
        BY <1>0
      <4> QED BY <1>0, <1>4, <3>7, <3>8, <4>1, UptoShorter
    <3> QED BY <1>1, <1>4, <3>7, <3>9 DEF Forks
  <2> QED BY <2>1, <2>2
<1>6. ASSUME NEW q \in t.inner, NEW m \in 0 .. n - 1, q = Upto(h, m) PROVE Forks(KeysOf(t), q)
  <2>1. m \in 0 .. e /\ m \in 0 .. Nibbles
    BY <1>0, RadixAssumption
  <2>2. Len(q) = m
    BY <1>6, <2>1, UptoIs
  <2>3. PICK a \in KeysOf(t), b \in KeysOf(t) : a # b /\ Upto(a, e) = p /\ Upto(b, e) = p
    BY <1>1, <1>5 DEF Forks
  <2>4. a \in HKeys /\ b \in HKeys
    BY DEF KeysOf, TreeOK, LeafOK
  <2>5. Upto(a, m) = Upto(h, m) /\ Upto(b, m) = Upto(h, m)
    BY <1>0, <2>1, <2>3, <2>4, UptoShorter
  <2> QED BY <1>6, <2>2, <2>3, <2>5 DEF Forks
<1> QED
  BY <1>6

-----------------------------------------------------------------------------
(* Chains, and the map they make under a hash function H.                  *)

FoundIn(c, k) ==
    IF \E j \in DOMAIN c : c[j][1] = k
    THEN CHOOSE j \in DOMAIN c : c[j][1] = k /\ \A m \in 1 .. j - 1 : c[m][1] # k
    ELSE 0
KeysIn(H, t) == {k \in Keys : FoundIn(Chain(t, H[k]), k) # 0}
MapIn(H, t) == [k \in KeysIn(H, t) |-> Chain(t, H[k])[FoundIn(Chain(t, H[k]), k)][2]]

(* A chain holds entries of its hash, no key twice.                        *)
EntriesOK(H, h, c) ==
    /\ c \in Seq(Keys \X Vals)
    /\ \A j \in 1 .. Len(c) : H[c[j][1]] = h
    /\ \A i, j \in 1 .. Len(c) : c[i][1] = c[j][1] => i = j
TableOK(H, t) ==
    /\ TreeOK(t)
    /\ \A r \in Held(t) : r.value # <<>> /\ EntriesOK(H, r.key, r.value)
Pairs(c) == {c[j] : j \in 1 .. Len(c)}
Without(S, k) == {e \in S : e[1] # k}
Fronted(c, e) == <<e>> \o c
Rewritten(c, n, e) == [c EXCEPT ![n] = e]
Unlisted(c, n) == SubSeq(c, 1, n - 1) \o SubSeq(c, n + 1, Len(c))

(* A map with a key put, and with a key deleted.                           *)
With(f, k, v) == [x \in DOMAIN f \cup {k} |-> IF x = k THEN v ELSE f[x]]
Less(f, k) == [x \in DOMAIN f \ {k} |-> f[x]]

(* The chain of a hash is what the leaf of that key holds.                 *)
LEMMA ChainIs ==
  ASSUME NEW t, TreeOK(t), NEW h \in HKeys
  PROVE  /\ \A r \in Held(t) : r.key = h => Chain(t, h) = r.value
         /\ (\A r \in Held(t) : r.key # h) => Chain(t, h) = <<>>
         /\ Chain(t, h) # <<>> => FindLeaf(t, h) /\ Leaf(h, Chain(t, h)) \in Held(t)
<1>1. Chain(t, h) = IF FindLeaf(t, h) THEN t.leaf[Slot(t, h)].value ELSE <<>>
  BY DEF Chain, FindLeaf
<1>2. FindLeaf(t, h) => t.leaf[Slot(t, h)] \in Held(t) /\ t.leaf[Slot(t, h)].key = h
  BY DEF FindLeaf, Held
<1> QED
  BY <1>1, <1>2, FindLeafIs

(* Every chain holds entries of its own hash, the empty one too.           *)
LEMMA EntriesOfChain ==
  ASSUME NEW H, NEW t, TableOK(H, t), NEW h \in HKeys
  PROVE  EntriesOK(H, h, Chain(t, h))
<1>0. TreeOK(t)
  BY DEF TableOK
<1>1. CASE Chain(t, h) = <<>>
  BY <1>1, EmptySeq DEF EntriesOK
<1>2. CASE Chain(t, h) # <<>>
  <2>1. Leaf(h, Chain(t, h)) \in Held(t)
    BY <1>0, <1>2, ChainIs
  <2> QED BY <2>1, LeafRecord DEF TableOK
<1> QED
  BY <1>1, <1>2

(* find comes to the one place of the key.                                 *)
LEMMA FoundIs ==
  ASSUME NEW H, NEW h, NEW c, EntriesOK(H, h, c), NEW k
  PROVE  /\ \A j \in 1 .. Len(c) : c[j][1] = k => FoundIn(c, k) = j /\ FoundIn(c, k) # 0
         /\ FoundIn(c, k) # 0 => FoundIn(c, k) \in 1 .. Len(c) /\ c[FoundIn(c, k)][1] = k
<1>1. c \in Seq(Keys \X Vals) /\ DOMAIN c = 1 .. Len(c) /\ Len(c) \in Nat
  BY LenProperties DEF EntriesOK
<1>2. ASSUME NEW j \in 1 .. Len(c), c[j][1] = k PROVE FoundIn(c, k) = j /\ FoundIn(c, k) # 0
  <2>1. \A i \in 1 .. Len(c) : c[i][1] = k => i = j
    BY <1>2 DEF EntriesOK
  <2>2. \A m \in 1 .. j - 1 : c[m][1] # k
    <3>1. \A m \in 1 .. j - 1 : m \in 1 .. Len(c) /\ m # j
      BY <1>1
    <3> QED BY <2>1, <3>1
  <2>3. FoundIn(c, k) = CHOOSE i \in DOMAIN c : c[i][1] = k /\ \A m \in 1 .. i - 1 : c[m][1] # k
    BY <1>1, <1>2 DEF FoundIn
  <2>4. FoundIn(c, k) \in DOMAIN c /\ c[FoundIn(c, k)][1] = k
    BY <1>1, <1>2, <2>2, <2>3
  <2> QED BY <1>1, <2>1, <2>4
<1>3. (~ \E j \in 1 .. Len(c) : c[j][1] = k) => FoundIn(c, k) = 0
  BY <1>1 DEF FoundIn
<1> QED
  BY <1>2, <1>3

(* The map, entry by entry.                                                *)
LEMMA MapIs ==
  ASSUME NEW H \in [Keys -> HKeys], NEW t, TableOK(H, t), NEW k \in Keys
  PROVE  /\ k \in KeysIn(H, t) <=> \E v \in Vals : <<k, v>> \in Pairs(Chain(t, H[k]))
         /\ \A v : <<k, v>> \in Pairs(Chain(t, H[k])) => k \in KeysIn(H, t) /\ MapIn(H, t)[k] = v
         /\ k \in KeysIn(H, t) => <<k, MapIn(H, t)[k]>> \in Pairs(Chain(t, H[k]))
<1> DEFINE c == Chain(t, H[k])
<1>1. H[k] \in HKeys
  OBVIOUS
<1>2. EntriesOK(H, H[k], c)
  BY <1>1, EntriesOfChain
<1> HIDE DEF c
<1>3. \A j \in 1 .. Len(c) : c[j] \in Keys \X Vals
  BY <1>2, ElementOfSeq DEF EntriesOK
<1>4. \A j \in 1 .. Len(c) : c[j] = <<c[j][1], c[j][2]>> /\ c[j][2] \in Vals
  BY <1>3
<1>5. k \in KeysIn(H, t) <=> FoundIn(c, k) # 0
  BY DEF KeysIn, c
<1>6. k \in KeysIn(H, t) => MapIn(H, t)[k] = c[FoundIn(c, k)][2]
  BY DEF MapIn, c
<1>7. ASSUME NEW v, <<k, v>> \in Pairs(c) PROVE k \in KeysIn(H, t) /\ MapIn(H, t)[k] = v
  <2>1. PICK j \in 1 .. Len(c) : c[j] = <<k, v>>
    BY <1>7 DEF Pairs
  <2>2. c[j][1] = k /\ c[j][2] = v
    BY <2>1
  <2>3. FoundIn(c, k) = j /\ FoundIn(c, k) # 0
    BY <1>2, <2>2, FoundIs
  <2> QED BY <1>5, <1>6, <2>2, <2>3
<1>8. ASSUME k \in KeysIn(H, t) PROVE <<k, MapIn(H, t)[k]>> \in Pairs(c) /\ MapIn(H, t)[k] \in Vals
  <2>1. FoundIn(c, k) \in 1 .. Len(c) /\ c[FoundIn(c, k)][1] = k
    BY <1>2, <1>5, <1>8, FoundIs
  <2> DEFINE j == FoundIn(c, k)
  <2>2. c[j] = <<k, MapIn(H, t)[k]>> /\ c[j][2] \in Vals /\ MapIn(H, t)[k] = c[j][2]
    BY <1>4, <1>6, <1>8, <2>1
  <2> QED BY <2>1, <2>2 DEF Pairs
<1> QED
  BY <1>7, <1>8 DEF c

(* What a key maps to, from its entry.                                     *)
LEMMA MapAt ==
  ASSUME NEW H \in [Keys -> HKeys], NEW t, TableOK(H, t), NEW k \in Keys,
         NEW v, <<k, v>> \in Pairs(Chain(t, H[k]))
  PROVE  MapIn(H, t)[k] = v
<1>1. \A w : <<k, w>> \in Pairs(Chain(t, H[k])) => MapIn(H, t)[k] = w
  BY MapIs
<1> QED
  BY <1>1, Zenon

(* What a new chain makes of the table and of the map.                     *)
LEMMA TableSet ==
  ASSUME NEW H \in [Keys -> HKeys], NEW t, TableOK(H, t), NEW u, TreeOK(u),
         NEW h \in HKeys, NEW c, EntriesOK(H, h, c), c # <<>>,
         Held(u) = {r \in Held(t) : r.key # h} \cup {Leaf(h, c)}
  PROVE  /\ TableOK(H, u) /\ Chain(u, h) = c
         /\ \A g \in HKeys : g # h => Chain(u, g) = Chain(t, g)
<1>1. TreeOK(t)
  BY DEF TableOK
<1>2. Chain(u, h) = c
  BY ChainIs, LeafRecord
<1>3. ASSUME NEW g \in HKeys, g # h PROVE Chain(u, g) = Chain(t, g)
  <2>1. CASE \E r \in Held(t) : r.key = g
    <3>1. PICK r \in Held(t) : r.key = g
      BY <2>1
    <3>2. r \in Held(u)
      BY <1>3, <3>1
    <3> QED BY <1>1, <3>1, <3>2, ChainIs
  <2>2. CASE ~ \E r \in Held(t) : r.key = g
    <3>1. \A r \in Held(u) : r.key # g
      BY <1>3, <2>2, LeafRecord
    <3> QED BY <1>1, <2>2, <3>1, ChainIs
  <2> QED BY <2>1, <2>2
<1>4. TableOK(H, u)
  BY LeafRecord DEF TableOK
<1> QED
  BY <1>2, <1>3, <1>4

(* A table with the leaf of a hash gone.                                   *)
LEMMA TableCut ==
  ASSUME NEW H \in [Keys -> HKeys], NEW t, TableOK(H, t), NEW u, TreeOK(u), NEW h \in HKeys,
         Held(u) = {r \in Held(t) : r.key # h}
  PROVE  /\ TableOK(H, u) /\ Chain(u, h) = <<>>
         /\ \A g \in HKeys : g # h => Chain(u, g) = Chain(t, g)
<1>1. TreeOK(t)
  BY DEF TableOK
<1>2. Chain(u, h) = <<>>
  BY ChainIs
<1>3. ASSUME NEW g \in HKeys, g # h PROVE Chain(u, g) = Chain(t, g)
  <2>1. CASE \E r \in Held(t) : r.key = g
    <3>1. PICK r \in Held(t) : r.key = g
      BY <2>1
    <3>2. r \in Held(u)
      BY <1>3, <3>1
    <3> QED BY <1>1, <3>1, <3>2, ChainIs
  <2>2. CASE ~ \E r \in Held(t) : r.key = g
    BY <1>1, <2>2, ChainIs
  <2> QED BY <2>1, <2>2
<1> QED
  BY <1>2, <1>3 DEF TableOK

(* A table with the same leaves elsewhere.                                 *)
LEMMA TableSame ==
  ASSUME NEW H \in [Keys -> HKeys], NEW t, TableOK(H, t), NEW u, TreeOK(u), Held(u) = Held(t)
  PROVE  /\ TableOK(H, u) /\ KeysIn(H, u) = KeysIn(H, t) /\ MapIn(H, u) = MapIn(H, t)
         /\ \A g \in HKeys : Chain(u, g) = Chain(t, g)
<1>1. TreeOK(t)
  BY DEF TableOK
<1>2. \A g \in HKeys : Chain(u, g) = Chain(t, g)
  BY <1>1, ChainIs
<1>3. KeysIn(H, u) = KeysIn(H, t)
  BY <1>2 DEF KeysIn
<1>4. \A k \in KeysIn(H, t) : Chain(u, H[k]) = Chain(t, H[k])
  BY <1>2 DEF KeysIn
<1>5. MapIn(H, u) = MapIn(H, t)
  BY <1>3, <1>4 DEF MapIn
<1> QED
  BY <1>2, <1>3, <1>5 DEF TableOK

(* The map with an entry put in the chain of its hash.                     *)
LEMMA MapSet ==
  ASSUME NEW H \in [Keys -> HKeys], NEW t, TableOK(H, t), NEW u, TableOK(H, u),
         NEW k \in Keys, NEW v \in Vals,
         \A g \in HKeys : g # H[k] => Chain(u, g) = Chain(t, g),
         Pairs(Chain(u, H[k])) = Without(Pairs(Chain(t, H[k])), k) \cup {<<k, v>>}
  PROVE  /\ KeysIn(H, u) = KeysIn(H, t) \cup {k}
         /\ MapIn(H, u) = With(MapIn(H, t), k, v)
<1>1. k \in KeysIn(H, u) /\ MapIn(H, u)[k] = v
  BY MapIs, ZenonT(60)
<1>2. ASSUME NEW x \in Keys, x # k, NEW w
      PROVE  <<x, w>> \in Pairs(Chain(u, H[x])) <=> <<x, w>> \in Pairs(Chain(t, H[x]))
  <2>1. CASE H[x] = H[k]
    <3>1. <<x, w>>[1] = x /\ <<x, w>> # <<k, v>>
      BY <1>2
    <3> HIDE DEF Pairs
    <3> QED BY <1>2, <2>1, <3>1 DEF Without
  <2>2. CASE H[x] # H[k]
    BY <2>2
  <2> QED BY <2>1, <2>2
<1>3. ASSUME NEW x \in Keys, x # k PROVE x \in KeysIn(H, u) <=> x \in KeysIn(H, t)
  BY <1>2, <1>3, MapIs
<1>4. ASSUME NEW x \in KeysIn(H, t), x # k PROVE MapIn(H, u)[x] = MapIn(H, t)[x]
  <2>1. x \in Keys
    BY DEF KeysIn
  <2>2. <<x, MapIn(H, t)[x]>> \in Pairs(Chain(t, H[x]))
    BY <2>1, MapIs
  <2> DEFINE w == MapIn(H, t)[x]
  <2>3. <<x, w>> \in Pairs(Chain(u, H[x]))
    BY <1>2, <1>4, <2>1, <2>2
  <2> HIDE DEF w
  <2>4. MapIn(H, u)[x] = w
    BY <2>1, <2>3, MapAt, Zenon
  <2> QED BY <2>4 DEF w
<1>5. KeysIn(H, u) = KeysIn(H, t) \cup {k}
  <2>1. KeysIn(H, u) \subseteq Keys /\ KeysIn(H, t) \subseteq Keys
    BY DEF KeysIn
  <2> QED BY <1>1, <1>3, <2>1
<1>6. MapIn(H, u) = [x \in KeysIn(H, u) |-> MapIn(H, u)[x]]
  BY DEF MapIn
<1>7. DOMAIN MapIn(H, t) = KeysIn(H, t)
  BY DEF MapIn
<1> DEFINE f == MapIn(H, u)
           g == MapIn(H, t)
<1> HIDE DEF f, g
<1>8. f = With(g, k, v)
  BY <1>1, <1>4, <1>5, <1>6, <1>7 DEF f, g, With
<1> QED
  BY <1>5, <1>8 DEF f, g

(* The map with an entry taken out of the chain of its hash.               *)
LEMMA MapCut ==
  ASSUME NEW H \in [Keys -> HKeys], NEW t, TableOK(H, t), NEW u, TableOK(H, u), NEW k \in Keys,
         \A g \in HKeys : g # H[k] => Chain(u, g) = Chain(t, g),
         Pairs(Chain(u, H[k])) = Without(Pairs(Chain(t, H[k])), k)
  PROVE  /\ KeysIn(H, u) = KeysIn(H, t) \ {k}
         /\ MapIn(H, u) = Less(MapIn(H, t), k)
<1>1. k \notin KeysIn(H, u)
  <2>1. \A v : <<k, v>>[1] = k
    OBVIOUS
  <2>2. \A v : <<k, v>> \notin Pairs(Chain(u, H[k]))
    BY <2>1 DEF Without
  <2> QED BY <2>2, MapIs
<1>2. ASSUME NEW x \in Keys, x # k, NEW w
      PROVE  <<x, w>> \in Pairs(Chain(u, H[x])) <=> <<x, w>> \in Pairs(Chain(t, H[x]))
  <2>1. CASE H[x] = H[k]
    <3>1. <<x, w>>[1] = x
      OBVIOUS
    <3> QED BY <1>2, <2>1, <3>1 DEF Without
  <2>2. CASE H[x] # H[k]
    BY <2>2
  <2> QED BY <2>1, <2>2
<1>3. ASSUME NEW x \in Keys, x # k PROVE x \in KeysIn(H, u) <=> x \in KeysIn(H, t)
  BY <1>2, <1>3, MapIs
<1>4. ASSUME NEW x \in KeysIn(H, t), x # k PROVE MapIn(H, u)[x] = MapIn(H, t)[x]
  <2>1. x \in Keys
    BY DEF KeysIn
  <2>2. <<x, MapIn(H, t)[x]>> \in Pairs(Chain(t, H[x]))
    BY <2>1, MapIs
  <2> DEFINE w == MapIn(H, t)[x]
  <2>3. <<x, w>> \in Pairs(Chain(u, H[x]))
    BY <1>2, <1>4, <2>1, <2>2
  <2> HIDE DEF w
  <2>4. MapIn(H, u)[x] = w
    BY <2>1, <2>3, MapAt, Zenon
  <2> QED BY <2>4 DEF w
<1>5. KeysIn(H, u) = KeysIn(H, t) \ {k}
  <2>1. KeysIn(H, u) \subseteq Keys /\ KeysIn(H, t) \subseteq Keys
    BY DEF KeysIn
  <2> QED BY <1>1, <1>3, <2>1
<1>6. MapIn(H, u) = [x \in KeysIn(H, u) |-> MapIn(H, u)[x]]
  BY DEF MapIn
<1>7. DOMAIN MapIn(H, t) = KeysIn(H, t)
  BY DEF MapIn
<1>8. \A x \in KeysIn(H, t) \ {k} : MapIn(H, u)[x] = MapIn(H, t)[x]
  BY <1>4
<1> QED
  BY <1>5, <1>6, <1>7, <1>8 DEF Less

(* As many entries as keys.                                                *)
LEMMA EntriesCount ==
  ASSUME NEW H \in [Keys -> HKeys], NEW t, TableOK(H, t)
  PROVE  /\ IsFiniteSet(KeysIn(H, t)) /\ Cardinality(KeysIn(H, t)) \in Nat
         /\ IsFiniteSet(Entries(t)) /\ Cardinality(Entries(t)) = Cardinality(KeysIn(H, t))
<1>0. TreeOK(t)
  BY DEF TableOK
<1> DEFINE V(p) == t.leaf[p].value
           E(p) == {<<p, j>> : j \in DOMAIN V(p)}
           C == {E(p) : p \in DOMAIN t.leaf}
           F == [e \in Entries(t) |-> V(e[1])[e[2]][1]]
<1>1. \A p \in DOMAIN t.leaf : /\ V(p) \in Seq(Keys \X Vals) /\ t.leaf[p].key \in HKeys
                               /\ DOMAIN V(p) = 1 .. Len(V(p)) /\ Len(V(p)) \in Nat
                               /\ EntriesOK(H, t.leaf[p].key, V(p))
                               /\ Chain(t, t.leaf[p].key) = V(p)
  <2> TAKE p \in DOMAIN t.leaf
  <2>1. t.leaf[p] \in Held(t)
    BY DEF Held
  <2>2. EntriesOK(H, t.leaf[p].key, V(p)) /\ t.leaf[p].key \in HKeys
    BY <1>0, <2>1 DEF TableOK, TreeOK, LeafOK
  <2>3. V(p) \in Seq(Keys \X Vals)
    BY <2>2 DEF EntriesOK
  <2> HIDE DEF V
  <2>4. DOMAIN V(p) = 1 .. Len(V(p)) /\ Len(V(p)) \in Nat
    BY <2>3, LenProperties
  <2> QED BY <1>0, <2>1, <2>2, <2>3, <2>4, ChainIs DEF V
<1>2. Entries(t) = UNION C
  BY DEF Entries
<1>3. IsFiniteSet(Entries(t))
  <2>1. ASSUME NEW p \in DOMAIN t.leaf PROVE IsFiniteSet(E(p))
    <3> DEFINE G == [j \in DOMAIN V(p) |-> <<p, j>>]
               D == DOMAIN V(p)
               X == E(p)
    <3>1. IsFiniteSet(DOMAIN V(p))
      <4>1. DOMAIN V(p) = 1 .. Len(V(p)) /\ Len(V(p)) \in Int
        BY <1>1
      <4> HIDE DEF V
      <4> QED BY <4>1, FS_Interval
    <3>2. G \in [DOMAIN V(p) -> E(p)] /\ \A x \in E(p) : \E j \in DOMAIN V(p) : G[j] = x
      <4> HIDE DEF V
      <4> QED OBVIOUS
    <3> HIDE DEF V, G, E
    <3>3. G \in Surjection(DOMAIN V(p), E(p))
      BY <3>2, Fun_IsSurj
    <3> QED BY <3>1, <3>3, FS_Surjection
  <2>2. IsFiniteSet(C)
    <3> DEFINE G == [p \in DOMAIN t.leaf |-> E(p)]
    <3> HIDE DEF E
    <3>1. G \in [DOMAIN t.leaf -> C] /\ \A x \in C : \E p \in DOMAIN t.leaf : G[p] = x
      OBVIOUS
    <3>2. IsFiniteSet(DOMAIN t.leaf)
      BY <1>0 DEF TreeOK
    <3> HIDE DEF G, C
    <3>3. G \in Surjection(DOMAIN t.leaf, C)
      BY <3>1, Fun_IsSurj
    <3> QED BY <3>2, <3>3, FS_Surjection
  <2>3. \A T \in C : IsFiniteSet(T)
    <3> HIDE DEF E
    <3> QED BY <2>1
  <2> HIDE DEF C
  <2> QED BY <1>2, <2>2, <2>3, FS_UNION
<1>4. \A e \in Entries(t) : /\ e[1] \in DOMAIN t.leaf /\ e[2] \in 1 .. Len(V(e[1])) /\ e = <<e[1], e[2]>>
                            /\ V(e[1])[e[2]] \in Keys \X Vals
  <2> TAKE e \in Entries(t)
  <2>1. PICK p \in DOMAIN t.leaf : \E j \in DOMAIN V(p) : e = <<p, j>>
    BY DEF Entries
  <2>2. PICK j \in DOMAIN V(p) : e = <<p, j>>
    BY <2>1
  <2>3. e[1] = p /\ e[2] = j /\ e = <<e[1], e[2]>> /\ j \in 1 .. Len(V(p)) /\ V(p) \in Seq(Keys \X Vals)
    BY <1>1, <2>2, SMTT(60)
  <2>4. V(p)[j] \in Keys \X Vals
    <3> HIDE DEF V
    <3> QED BY <2>3, ElementOfSeq
  <2> HIDE DEF V
  <2> QED BY <2>3, <2>4
<1>5. \A e \in Entries(t) : F[e] \in KeysIn(H, t)
  <2> TAKE e \in Entries(t)
  <2> DEFINE p == e[1]
             k == V(p)[e[2]][1]
  <2>1. p \in DOMAIN t.leaf /\ e[2] \in 1 .. Len(V(p)) /\ k \in Keys
    BY <1>4, SMTT(60)
  <2>2. EntriesOK(H, t.leaf[p].key, V(p)) /\ Chain(t, t.leaf[p].key) = V(p) /\ H[k] = t.leaf[p].key
    BY <1>1, <2>1 DEF EntriesOK
  <2>3. FoundIn(V(p), k) # 0
    <3> HIDE DEF V, p
    <3> QED BY <2>1, <2>2, FoundIs
  <2> QED BY <2>1, <2>2, <2>3 DEF KeysIn
<1>6. ASSUME NEW d \in Entries(t), NEW e \in Entries(t), F[d] = F[e] PROVE d = e
  <2> DEFINE p == d[1]
             q == e[1]
  <2>1. p \in DOMAIN t.leaf /\ d[2] \in 1 .. Len(V(p)) /\ q \in DOMAIN t.leaf /\ e[2] \in 1 .. Len(V(q))
        /\ V(p)[d[2]][1] = V(q)[e[2]][1] /\ d = <<p, d[2]>> /\ e = <<q, e[2]>>
    BY <1>4, <1>6, ZenonT(60)
  <2>2. H[V(p)[d[2]][1]] = t.leaf[p].key /\ H[V(q)[e[2]][1]] = t.leaf[q].key
    BY <1>1, <2>1 DEF EntriesOK
  <2>3. t.leaf[p].key = t.leaf[q].key
    BY <2>1, <2>2
  <2>4. p = q
    BY <1>0, <2>1, <2>3, OneLeaf
  <2>5. d[2] = e[2]
    <3>1. /\ EntriesOK(H, t.leaf[p].key, V(p)) /\ d[2] \in 1 .. Len(V(p)) /\ e[2] \in 1 .. Len(V(p))
          /\ V(p)[d[2]][1] = V(p)[e[2]][1]
      BY <1>1, <2>1, <2>4
    <3> HIDE DEF V, p, q
    <3> QED BY <3>1 DEF EntriesOK
  <2> QED BY <2>1, <2>4, <2>5
<1>7. \A k \in KeysIn(H, t) : \E e \in Entries(t) : F[e] = k
  <2> TAKE k \in KeysIn(H, t)
  <2> DEFINE c == Chain(t, H[k])
  <2>1. k \in Keys /\ H[k] \in HKeys /\ FoundIn(c, k) # 0
    BY DEF KeysIn
  <2>2. EntriesOK(H, H[k], c)
    BY <2>1, EntriesOfChain
  <2>3. FoundIn(c, k) \in 1 .. Len(c) /\ c[FoundIn(c, k)][1] = k
    BY <2>1, <2>2, FoundIs
  <2>4. c # <<>>
    <3> HIDE DEF c
    <3> QED BY <2>3, EmptySeq
  <2>5. FindLeaf(t, H[k])
    BY <1>0, <2>1, <2>4, ChainIs
  <2> DEFINE p == Slot(t, H[k])
  <2>6. p \in DOMAIN t.leaf /\ V(p) = c
    BY <2>5 DEF FindLeaf, Chain
  <2>7. DOMAIN V(p) = 1 .. Len(V(p))
    BY <1>1, <2>6
  <2>8. <<p, FoundIn(c, k)>> \in Entries(t)
    <3> HIDE DEF p, c
    <3>1. FoundIn(c, k) \in DOMAIN V(p)
      BY <2>3, <2>6, <2>7
    <3> QED BY <2>6, <3>1 DEF Entries
  <2>9. F[<<p, FoundIn(c, k)>>] = k
    <3> HIDE DEF p, c
    <3> QED BY <2>3, <2>6, <2>8
  <2> QED BY <2>8, <2>9
<1>8. F \in Bijection(Entries(t), KeysIn(H, t))
  <2>1. F \in [Entries(t) -> KeysIn(H, t)]
    BY <1>5
  <2> HIDE DEF F
  <2> QED BY <1>6, <1>7, <2>1, Fun_IsBij
<1>9. ExistsBijection(Entries(t), KeysIn(H, t))
  <2> HIDE DEF F
  <2> QED BY <1>8 DEF ExistsBijection
<1> QED
  BY <1>3, <1>9, FS_Bijection, FS_CardinalityType

-----------------------------------------------------------------------------
(* What the calls make of a chain.                                         *)

(* A new entry goes to the front.                                          *)
LEMMA ChainCons ==
  ASSUME NEW H, NEW h, NEW c, EntriesOK(H, h, c), NEW k \in Keys, NEW v \in Vals, H[k] = h,
         FoundIn(c, k) = 0, NEW d, d = Fronted(c, <<k, v>>)
  PROVE  /\ EntriesOK(H, h, d) /\ d # <<>>
         /\ Pairs(d) = Without(Pairs(c), k) \cup {<<k, v>>}
<1> DEFINE S == Keys \X Vals
           x == <<k, v>>
<1>1. c \in Seq(S) /\ Len(c) \in Nat
  BY LenProperties DEF EntriesOK
<1>2. x \in S /\ x[1] = k
  OBVIOUS
<1>3. \A j \in 1 .. Len(c) : c[j][1] # k
  BY FoundIs
<1>4. <<x>> \in Seq(S) /\ Len(<<x>>) = 1 /\ <<x>>[1] = x
  <2> HIDE DEF x, S
  <2> QED BY <1>2
<1> HIDE DEF x, S
<1> DEFINE L == Len(c)
<1>0. L = Len(c) /\ L \in Nat
  BY <1>1
<1> HIDE DEF L
<1>5. /\ d \in Seq(S) /\ Len(d) = 1 + L /\ d[1] = x
      /\ \A j \in 1 .. L : d[j + 1] = c[j]
  <2> DEFINE y == <<x>>
  <2>1. d = y \o c /\ y \in Seq(S) /\ Len(y) = 1 /\ y[1] = x
    BY <1>4 DEF x, Fronted
  <2> HIDE DEF y
  <2>2. /\ y \o c \in Seq(S) /\ Len(y \o c) = Len(y) + Len(c)
        /\ \A i \in 1 .. Len(y) + Len(c) :
               (y \o c)[i] = IF i <= Len(y) THEN y[i] ELSE c[i - Len(y)]
    BY <1>1, <2>1, ConcatProperties
  <2>3. /\ d \in Seq(S) /\ Len(d) = 1 + L
        /\ \A i \in 1 .. 1 + L : d[i] = IF i <= 1 THEN y[i] ELSE c[i - 1]
    BY <1>0, <2>1, <2>2
  <2>4. 1 \in 1 .. 1 + L
    BY <1>0
  <2>5. d[1] = x
    <3>1. \A i \in 1 .. 1 + L : i <= 1 => d[i] = y[i]
      BY <2>3
    <3>2. d[1] = y[1]
      BY <2>4, <3>1
    <3> QED BY <2>1, <3>2
  <2>6. ASSUME NEW j \in 1 .. L PROVE d[j + 1] = c[j]
    <3>1. j + 1 \in 1 .. 1 + L /\ ~ (j + 1 <= 1) /\ (j + 1) - 1 = j
      BY <1>0
    <3> QED BY <2>3, <3>1
  <2> QED BY <2>3, <2>5, <2>6
<1>6. \A i \in 1 .. 1 + L : i = 1 \/ \E j \in 1 .. L : i = j + 1 /\ d[i] = c[j]
  <2> TAKE i \in 1 .. 1 + L
  <2>1. i = 1 \/ (i - 1 \in 1 .. L /\ i = (i - 1) + 1)
    BY <1>0
  <2> QED BY <1>5, <2>1
<1>7. 1 \in 1 .. 1 + L /\ \A j \in 1 .. L : j + 1 \in 1 .. 1 + L
  BY <1>0
<1>8. EntriesOK(H, h, d)
  <2>0. /\ \A j \in 1 .. L : H[c[j][1]] = h
        /\ \A i, j \in 1 .. L : c[i][1] = c[j][1] => i = j
    BY <1>0 DEF EntriesOK
  <2>1. ASSUME NEW i \in 1 .. 1 + L PROVE H[d[i][1]] = h
    <3>1. CASE i = 1
      BY <1>2, <1>5, <3>1
    <3>2. CASE i # 1
      <4>1. PICK j \in 1 .. L : i = j + 1 /\ d[i] = c[j]
        BY <1>6, <3>2
      <4>2. H[c[j][1]] = h
        BY <2>0
      <4> QED BY <4>1, <4>2
    <3> QED BY <3>1, <3>2
  <2>2. ASSUME NEW i \in 1 .. 1 + L, NEW j \in 1 .. 1 + L, d[i][1] = d[j][1] PROVE i = j
    <3>1. ASSUME NEW m \in 1 .. 1 + L, m # 1 PROVE d[m][1] # k
      <4>1. PICK a \in 1 .. L : d[m] = c[a]
        BY <1>6, <3>1
      <4>2. c[a][1] # k
        BY <1>0, <1>3
      <4> QED BY <4>1, <4>2
    <3>2. d[1][1] = k
      BY <1>2, <1>5
    <3>3. CASE i = 1 \/ j = 1
      BY <2>2, <3>1, <3>2, <3>3
    <3>4. CASE i # 1 /\ j # 1
      <4>1. PICK a \in 1 .. L : i = a + 1 /\ d[i] = c[a]
        BY <1>6, <3>4
      <4>2. PICK b \in 1 .. L : j = b + 1 /\ d[j] = c[b]
        BY <1>6, <3>4
      <4>3. c[a][1] = c[b][1]
        BY <2>2, <4>1, <4>2
      <4>4. a = b
        BY <2>0, <4>3
      <4> QED BY <4>1, <4>2, <4>4
    <3> QED BY <3>3, <3>4
  <2> QED BY <1>5, <2>1, <2>2 DEF EntriesOK, S
<1>9. d # <<>>
  BY <1>0, <1>5, EmptySeq
<1>10. Pairs(d) = Without(Pairs(c), k) \cup {x}
  <2>1. ASSUME NEW e \in Pairs(d) PROVE e \in Without(Pairs(c), k) \cup {x}
    <3>1. PICK i \in 1 .. 1 + L : e = d[i]
      BY <1>5 DEF Pairs
    <3>2. CASE i = 1
      BY <1>5, <3>1, <3>2
    <3>3. CASE i # 1
      <4>1. PICK j \in 1 .. L : d[i] = c[j]
        BY <1>6, <3>3
      <4>2. c[j][1] # k /\ c[j] \in Pairs(c)
        BY <1>0, <1>3 DEF Pairs
      <4> QED BY <3>1, <4>1, <4>2 DEF Without
    <3> QED BY <3>2, <3>3
  <2>2. ASSUME NEW e \in Pairs(c) PROVE e \in Pairs(d)
    <3>1. PICK j \in 1 .. L : e = c[j]
      BY <1>0 DEF Pairs
    <3>2. e = d[j + 1] /\ j + 1 \in 1 .. Len(d)
      BY <1>5, <1>7, <3>1
    <3> QED BY <3>2 DEF Pairs
  <2>3. x \in Pairs(d)
    BY <1>5, <1>7 DEF Pairs
  <2> QED BY <2>1, <2>2, <2>3 DEF Without
<1> QED
  BY <1>8, <1>9, <1>10 DEF x

(* An entry is overwritten in its place.                                   *)
LEMMA ChainSet ==
  ASSUME NEW H, NEW h, NEW c, EntriesOK(H, h, c), NEW k \in Keys, NEW v \in Vals,
         NEW n \in 1 .. Len(c), c[n][1] = k, NEW d, d = Rewritten(c, n, <<k, v>>)
  PROVE  /\ EntriesOK(H, h, d) /\ d # <<>>
         /\ Pairs(d) = Without(Pairs(c), k) \cup {<<k, v>>}
<1> DEFINE S == Keys \X Vals
           x == <<k, v>>
<1>1. c \in Seq(S) /\ Len(c) \in Nat
  BY LenProperties DEF EntriesOK
<1>2. x \in S /\ x[1] = k
  OBVIOUS
<1>3. d = [c EXCEPT ![n] = x]
  BY DEF Rewritten
<1> HIDE DEF x, S
<1>4. d \in Seq(S) /\ Len(d) = Len(c) /\ \A j \in 1 .. Len(c) : d[j] = IF j = n THEN x ELSE c[j]
  <2> DEFINE g == [c EXCEPT ![n] = x]
  <2>1. g \in Seq(S) /\ Len(g) = Len(c) /\ \A j \in 1 .. Len(c) : g[j] = IF j = n THEN x ELSE c[j]
    BY <1>1, <1>2, ExceptSeq
  <2> HIDE DEF g
  <2>2. d = g
    BY <1>3 DEF g
  <2> QED BY <2>1, <2>2
<1>5. \A j \in 1 .. Len(c) : d[j][1] = c[j][1]
  BY <1>2, <1>4
<1>6. EntriesOK(H, h, d)
  <2>1. /\ \A j \in 1 .. Len(c) : H[c[j][1]] = h
        /\ \A i, j \in 1 .. Len(c) : c[i][1] = c[j][1] => i = j
    BY DEF EntriesOK
  <2>2. \A j \in 1 .. Len(c) : H[d[j][1]] = h
    BY <1>5, <2>1
  <2>3. ASSUME NEW i \in 1 .. Len(c), NEW j \in 1 .. Len(c), d[i][1] = d[j][1] PROVE i = j
    <3>1. c[i][1] = c[j][1]
      BY <1>5, <2>3
    <3> QED BY <2>1, <3>1
  <2> QED BY <1>4, <2>2, <2>3 DEF EntriesOK, S
<1>7. d # <<>>
  BY <1>1, <1>4, EmptySeq
<1>8. \A j \in 1 .. Len(c) : j # n => c[j][1] # k
  BY DEF EntriesOK
<1>9. Pairs(d) = Without(Pairs(c), k) \cup {x}
  <2>1. ASSUME NEW e \in Pairs(d) PROVE e \in {y \in Pairs(c) : y[1] # k} \cup {x}
    <3>1. PICK i \in 1 .. Len(c) : e = d[i]
      BY <1>4 DEF Pairs
    <3> QED BY <1>4, <1>8, <3>1 DEF Pairs
  <2>2. ASSUME NEW e \in Pairs(c), e[1] # k PROVE e \in Pairs(d)
    <3>1. PICK j \in 1 .. Len(c) : e = c[j]
      BY DEF Pairs
    <3>2. d[j] = e
      BY <1>4, <2>2, <3>1
    <3> QED BY <1>4, <3>2 DEF Pairs
  <2>3. x \in Pairs(d)
    BY <1>4 DEF Pairs
  <2> QED BY <2>1, <2>2, <2>3 DEF Without
<1> QED
  BY <1>6, <1>7, <1>9 DEF x

(* An entry is unlinked.                                                   *)
LEMMA ChainDel ==
  ASSUME NEW H, NEW h, NEW c, EntriesOK(H, h, c), NEW k, NEW n \in 1 .. Len(c), c[n][1] = k,
         NEW d, d = Unlisted(c, n)
  PROVE  /\ EntriesOK(H, h, d) /\ Len(d) = Len(c) - 1
         /\ Pairs(d) = Without(Pairs(c), k)
<1> DEFINE S == Keys \X Vals
           a == SubSeq(c, 1, n - 1)
           b == SubSeq(c, n + 1, Len(c))
<1>1. c \in Seq(S) /\ Len(c) \in Nat /\ n \in 1 .. Len(c)
  BY LenProperties DEF EntriesOK
<1> HIDE DEF S
<1>2. a \in Seq(S) /\ Len(a) = n - 1 /\ \A i \in 1 .. n - 1 : a[i] = c[i]
  <2>1. n - 1 \in 0 .. Len(c) /\ \A i \in 1 .. n - 1 : i \in 1 .. Len(c)
    BY <1>1
  <2>2. \A i \in 1 .. n - 1 : c[i] \in S
    BY <1>1, <2>1, ElementOfSeq
  <2> QED BY <1>1, <2>1, <2>2, SubSeqProperties
<1>3. b \in Seq(S) /\ Len(b) = Len(c) - n /\ \A i \in 1 .. Len(c) - n : b[i] = c[n + i]
  <2>1. \A i \in n + 1 .. Len(c) : i \in 1 .. Len(c)
    BY <1>1
  <2>2. \A i \in n + 1 .. Len(c) : c[i] \in S
    BY <1>1, <2>1, ElementOfSeq
  <2>3. /\ b \in Seq(S)
        /\ Len(b) = IF n + 1 <= Len(c) THEN Len(c) - (n + 1) + 1 ELSE 0
        /\ \A i \in 1 .. Len(c) - (n + 1) + 1 : b[i] = c[n + 1 + i - 1]
    BY <1>1, <2>2, SubSeqProperties
  <2>4. Len(b) = Len(c) - n
    BY <1>1, <2>3
  <2>5. ASSUME NEW i \in 1 .. Len(c) - n PROVE b[i] = c[n + i]
    <3>1. i \in 1 .. Len(c) - (n + 1) + 1 /\ n + 1 + i - 1 = n + i
      BY <1>1
    <3> QED BY <2>3, <3>1
  <2> QED BY <2>3, <2>4, <2>5
<1> HIDE DEF a, b
<1> DEFINE L == Len(c)
<1>0. L = Len(c) /\ L \in Nat /\ n \in 1 .. L /\ n \in Nat
  BY <1>1
<1> HIDE DEF L
<1>4. /\ d \in Seq(S) /\ Len(d) = L - 1
      /\ \A i \in 1 .. L - 1 : d[i] = IF i < n THEN c[i] ELSE c[i + 1]
  <2>2. /\ d \in Seq(S) /\ Len(d) = (n - 1) + (L - n)
        /\ \A i \in 1 .. (n - 1) + (L - n) : d[i] = IF i <= n - 1 THEN a[i] ELSE b[i - (n - 1)]
    <3>1. /\ a \o b \in Seq(S) /\ Len(a \o b) = Len(a) + Len(b)
          /\ \A i \in 1 .. Len(a) + Len(b) :
                 (a \o b)[i] = IF i <= Len(a) THEN a[i] ELSE b[i - Len(a)]
      BY <1>2, <1>3, ConcatProperties
    <3>2. d = a \o b
      BY DEF a, b, Unlisted
    <3>3. Len(a) = n - 1 /\ Len(b) = L - n
      BY <1>0, <1>2, <1>3
    <3> QED BY <3>1, <3>2, <3>3
  <2>3. (n - 1) + (L - n) = L - 1
    BY <1>0
  <2>4. ASSUME NEW i \in 1 .. L - 1, i < n PROVE d[i] = c[i]
    <3>1. i <= n - 1 /\ i \in 1 .. n - 1
      BY <1>0, <2>4
    <3>2. a[i] = c[i]
      BY <1>2, <3>1
    <3> QED BY <2>2, <2>3, <3>1, <3>2
  <2>5. ASSUME NEW i \in 1 .. L - 1, ~ (i < n) PROVE d[i] = c[i + 1]
    <3>1. ~ (i <= n - 1) /\ i - (n - 1) \in 1 .. L - n /\ n + (i - (n - 1)) = i + 1
      BY <1>0, <2>5
    <3>2. b[i - (n - 1)] = c[i + 1]
      BY <1>0, <1>3, <3>1
    <3> QED BY <2>2, <2>3, <3>1, <3>2
  <2> QED BY <2>2, <2>3, <2>4, <2>5
<1> DEFINE from == [i \in 1 .. L - 1 |-> IF i < n THEN i ELSE i + 1]
<1>5. \A i \in 1 .. L - 1 : d[i] = c[from[i]] /\ from[i] \in 1 .. L /\ from[i] # n
  <2> TAKE i \in 1 .. L - 1
  <2>1. i \in Nat /\ i >= 1 /\ i <= L - 1
    BY <1>0
  <2>2. CASE i < n
    <3>1. from[i] = i /\ d[i] = c[i]
      BY <1>4, <2>2
    <3>2. i \in 1 .. L /\ i # n
      BY <1>0, <2>1, <2>2
    <3> HIDE DEF from
    <3> QED BY <3>1, <3>2
  <2>3. CASE ~ (i < n)
    <3>1. from[i] = i + 1 /\ d[i] = c[i + 1]
      BY <1>4, <2>3
    <3>2. i + 1 \in 1 .. L /\ i + 1 # n
      BY <1>0, <2>1, <2>3
    <3> HIDE DEF from
    <3> QED BY <3>1, <3>2
  <2> QED BY <2>2, <2>3
<1>6. \A i, j \in 1 .. L - 1 : from[i] = from[j] => i = j
  BY <1>0
<1>7. \A j \in 1 .. L : j # n => \E i \in 1 .. L - 1 : from[i] = j
  <2> SUFFICES ASSUME NEW j \in 1 .. L, j # n PROVE \E i \in 1 .. L - 1 : from[i] = j
    OBVIOUS
  <2>1. CASE j < n
    <3>1. j \in 1 .. L - 1 /\ from[j] = j
      BY <1>0, <2>1
    <3> QED BY <3>1
  <2>2. CASE j > n
    <3>1. j - 1 \in 1 .. L - 1 /\ from[j - 1] = j
      BY <1>0, <2>2
    <3> QED BY <3>1
  <2> QED BY <1>0, <2>1, <2>2
<1> HIDE DEF from
<1>8. EntriesOK(H, h, d)
  <2> DEFINE D == 1 .. L - 1
  <2>0. /\ \A j \in 1 .. L : H[c[j][1]] = h
        /\ \A i, j \in 1 .. L : c[i][1] = c[j][1] => i = j
        /\ \A i \in D : d[i] = c[from[i]] /\ from[i] \in 1 .. L
        /\ \A i, j \in D : from[i] = from[j] => i = j
    BY <1>0, <1>5, <1>6 DEF EntriesOK
  <2> HIDE DEF D
  <2>1. ASSUME NEW i \in D PROVE H[d[i][1]] = h
    <3>1. d[i] = c[from[i]] /\ from[i] \in 1 .. L
      BY <2>0
    <3>2. H[c[from[i]][1]] = h
      BY <2>0, <3>1
    <3> QED BY <3>1, <3>2
  <2>2. ASSUME NEW i \in D, NEW j \in D, d[i][1] = d[j][1] PROVE i = j
    <3>1. d[i] = c[from[i]] /\ from[i] \in 1 .. L /\ d[j] = c[from[j]] /\ from[j] \in 1 .. L
      BY <2>0
    <3>2. c[from[i]][1] = c[from[j]][1]
      BY <2>2, <3>1
    <3>3. from[i] = from[j]
      BY <2>0, <3>1, <3>2
    <3> QED BY <2>0, <3>3
  <2> USE DEF D
  <2> QED BY <1>4, <2>1, <2>2 DEF EntriesOK, S
<1>9. \A j \in 1 .. L : j # n <=> c[j][1] # k
  BY <1>0 DEF EntriesOK
<1>10. Pairs(d) = Without(Pairs(c), k)
  <2>1. ASSUME NEW e \in Pairs(d) PROVE e \in Pairs(c) /\ e[1] # k
    <3>1. PICK i \in 1 .. L - 1 : e = d[i]
      BY <1>0, <1>4 DEF Pairs
    <3> QED BY <1>0, <1>5, <1>9, <3>1, SMTT(60) DEF Pairs
  <2>2. ASSUME NEW e \in Pairs(c), e[1] # k PROVE e \in Pairs(d)
    <3>1. PICK j \in 1 .. L : e = c[j]
      BY <1>0, <1>4 DEF Pairs
    <3>2. PICK i \in 1 .. L - 1 : from[i] = j
      BY <1>7, <1>9, <2>2, <3>1
    <3> QED BY <1>4, <1>5, <3>1, <3>2 DEF Pairs
  <2> QED BY <2>1, <2>2 DEF Without
<1> QED
  BY <1>0, <1>4, <1>8, <1>10


-----------------------------------------------------------------------------
(* The invariant, between calls and in the middle of a delete.             *)

(* The interior positions fork, except the ones a delete has yet to walk   *)
(* back over, which are all there.                                         *)
Shaped(H, t, k, d) ==
    /\ \A p \in t.inner : Forks(KeysOf(t), p) \/ (k # NoKey /\ \E m \in 0 .. d - 1 : p = Upto(H[k], m))
    /\ k # NoKey => /\ Upto(H[k], d) \notin t.inner
                    /\ \A m \in 0 .. d - 1 : Upto(H[k], m) \in t.inner

(* A deleted entry is released, and counted out, when the walk has ended.  *)
Counted(H, t, k, a, n) ==
    /\ a \in [nodes : Nat, entries : Nat] /\ n = a.entries
    /\ a.nodes = Cardinality(Nodes(t))
    /\ a.entries = Cardinality(KeysIn(H, t)) + (IF k = NoKey THEN 0 ELSE 1)

DInv ==
    /\ hash \in Hashes /\ oom \in BOOLEAN /\ treeOom \in BOOLEAN
    /\ deleting \in Keys \cup {NoKey} /\ depth \in 0 .. Nibbles
    /\ deleting # NoKey => ~walking
    /\ TableOK(hash, index)
    /\ Shaped(hash, index, deleting, depth)
    /\ Counted(hash, index, deleting, held, count)

(* The keys of the tree are those of its leaves, wherever they are.        *)
LEMMA KeysOfHeld ==
  ASSUME NEW t
  PROVE  KeysOf(t) = {r.key : r \in Held(t)}
BY DEF KeysOf, Held

(* What the map holds of a chain, as a function of the hash.               *)
LEMMA FoundLink ==
  ASSUME NEW k
  PROVE  /\ Found(index, k) = FoundIn(Chain(index, hash[k]), k)
         /\ Contains(index, k) <=> FoundIn(Chain(index, hash[k]), k) # 0
BY DEF Found, FoundIn, Contains

(* The map of the specification is the map of the tree.                    *)
LEMMA MapLink == map = MapIn(hash, index) /\ Present = KeysIn(hash, index)
<1>1. \A k : Found(index, k) = FoundIn(Chain(index, hash[k]), k)
  BY DEF Found, FoundIn
<1>2. Present = KeysIn(hash, index)
  BY <1>1 DEF Present, Contains, KeysIn
<1>3. \A k : Get(index, k) = Chain(index, hash[k])[FoundIn(Chain(index, hash[k]), k)][2]
  BY <1>1 DEF Get
<1> QED
  BY <1>2, <1>3 DEF MapIn, map

(* ... and after a step.                                                   *)
LEMMA MapLinkNext == map' = MapIn(hash', index') /\ Present' = KeysIn(hash', index')
<1>1. (map = MapIn(hash, index) /\ Present = KeysIn(hash, index))'
  BY MapLink, PTL
<1> QED
  BY <1>1

(* A tree with a chain put under a hash.                                   *)
LEMMA TreeSet ==
  ASSUME NEW H \in [Keys -> HKeys], NEW t, TableOK(H, t), NEW d, Shaped(H, t, NoKey, d),
         NEW h \in HKeys, NEW c, EntriesOK(H, h, c), c # <<>>, NEW u, u = Insert(t, h, c)
  PROVE  /\ TableOK(H, u) /\ Shaped(H, u, NoKey, d) /\ Chain(u, h) = c
         /\ \A g \in HKeys : g # h => Chain(u, g) = Chain(t, g)
         /\ IsFiniteSet(Nodes(t)) /\ NodesNeeded(t, h) \in Nat
         /\ Cardinality(Nodes(u)) = Cardinality(Nodes(t)) + NodesNeeded(t, h)
<1>1. TreeOK(t)
  BY DEF TableOK
<1>2. /\ TreeOK(u)
      /\ Held(u) = {r \in Held(t) : r.key # h} \cup {Leaf(h, c)}
      /\ \A p \in u.inner \ t.inner : Forks(KeysOf(u), p)
      /\ IsFiniteSet(Nodes(t)) /\ NodesNeeded(t, h) \in Nat
      /\ Cardinality(Nodes(u)) = Cardinality(Nodes(t)) + NodesNeeded(t, h)
  BY <1>1, InsertTree
<1>3. /\ TableOK(H, u) /\ Chain(u, h) = c
      /\ \A g \in HKeys : g # h => Chain(u, g) = Chain(t, g)
  BY <1>2, TableSet
<1>4. KeysOf(t) \subseteq KeysOf(u)
  BY <1>2, KeysOfHeld, LeafRecord
<1>5. \A p \in t.inner : Forks(KeysOf(u), p)
  BY <1>4 DEF Shaped, Forks
<1>6. Shaped(H, u, NoKey, d)
  BY <1>2, <1>5 DEF Shaped
<1> QED
  BY <1>2, <1>3, <1>6

(* Putting a key counts it once.                                           *)
LEMMA CountSet ==
  ASSUME NEW H \in [Keys -> HKeys], NEW t, TableOK(H, t), NEW u, TableOK(H, u),
         NEW k \in Keys, KeysIn(H, u) = KeysIn(H, t) \cup {k}
  PROVE  Cardinality(KeysIn(H, u)) = Cardinality(KeysIn(H, t)) + (IF k \in KeysIn(H, t) THEN 0 ELSE 1)
<1>1. IsFiniteSet(KeysIn(H, t)) /\ Cardinality(KeysIn(H, t)) \in Nat
  BY EntriesCount
<1>2. CASE k \in KeysIn(H, t)
  <2> DEFINE n == Cardinality(KeysIn(H, t))
  <2>1. KeysIn(H, u) = KeysIn(H, t)
    BY <1>2
  <2>2. n \in Nat /\ Cardinality(KeysIn(H, u)) = n
    BY <1>1, <2>1
  <2> HIDE DEF n
  <2>3. Cardinality(KeysIn(H, u)) = n + 0
    BY <2>2
  <2> QED BY <1>2, <2>3 DEF n
<1>3. CASE k \notin KeysIn(H, t)
  BY <1>1, <1>3, FS_AddElement
<1> QED
  BY <1>2, <1>3

(* ... and cutting it counts it out.                                       *)
LEMMA CountCut ==
  ASSUME NEW H \in [Keys -> HKeys], NEW t, TableOK(H, t), NEW u, TableOK(H, u),
         NEW k \in KeysIn(H, t), KeysIn(H, u) = KeysIn(H, t) \ {k}
  PROVE  /\ Cardinality(KeysIn(H, t)) \in Nat \ {0}
         /\ Cardinality(KeysIn(H, u)) = Cardinality(KeysIn(H, t)) - 1
<1>1. IsFiniteSet(KeysIn(H, t)) /\ Cardinality(KeysIn(H, t)) \in Nat
  BY EntriesCount
<1> DEFINE n == Cardinality(KeysIn(H, t))
           m == Cardinality(KeysIn(H, u))
<1>2. m = n - 1
  BY <1>1, FS_RemoveElement
<1>3. m \in Nat /\ n \in Nat
  BY EntriesCount
<1> HIDE DEF m, n
<1>4. n \in Nat \ {0} /\ m = n - 1
  BY <1>2, <1>3
<1> QED
  BY <1>4 DEF m, n

(* The types the invariant gives.                                          *)
LEMMA DInvIs ==
  ASSUME DInv
  PROVE  /\ hash \in [Keys -> HKeys] /\ \A k \in Keys : hash[k] \in HKeys
         /\ TreeOK(index)
         /\ \A h \in HKeys : EntriesOK(hash, h, Chain(index, h))
<1>1. hash \in [Keys -> HKeys]
  BY DictAssumption DEF DInv
<1>2. TableOK(hash, index) /\ TreeOK(index)
  BY DEF DInv, TableOK
<1>3. \A h \in HKeys : EntriesOK(hash, h, Chain(index, h))
  BY <1>2, EntriesOfChain
<1> QED
  BY <1>1, <1>2, <1>3

(* The first tree is empty.                                                *)
LEMMA EmptyTree ==
  ASSUME NEW H \in [Keys -> HKeys], NEW d
  PROVE  /\ TableOK(H, NoTree) /\ Shaped(H, NoTree, NoKey, d)
         /\ Nodes(NoTree) = {} /\ KeysIn(H, NoTree) = {} /\ Entries(NoTree) = {}
         /\ MapIn(H, NoTree) = [k \in {} |-> k]
<1> DEFINE t == NoTree
<1>1. t.inner = {} /\ t.leaf = [p \in {} |-> p] /\ DOMAIN t.leaf = {} /\ t = [inner |-> t.inner, leaf |-> t.leaf]
  BY DEF NoTree
<1>2. t.leaf = [p \in DOMAIN t.leaf |-> t.leaf[p]]
  BY <1>1
<1> HIDE DEF t
<1>3. TreeOK(t)
  BY <1>1, <1>2, FS_EmptySet DEF TreeOK
<1>4. Held(t) = {} /\ Nodes(t) = {} /\ Entries(t) = {}
  BY <1>1 DEF Held, Nodes, Entries
<1>5. TableOK(H, t) /\ Shaped(H, t, NoKey, d)
  BY <1>1, <1>3, <1>4 DEF TableOK, Shaped
<1>6. KeysIn(H, t) = {}
  <2>1. ASSUME NEW k \in KeysIn(H, t) PROVE FALSE
    <3>1. k \in Keys /\ H[k] \in HKeys /\ FoundIn(Chain(t, H[k]), k) # 0
      BY DEF KeysIn
    <3>2. Chain(t, H[k]) = <<>>
      BY <1>3, <1>4, <3>1, ChainIs
    <3>3. DOMAIN Chain(t, H[k]) = {}
      BY <3>2
    <3> QED BY <3>1, <3>3 DEF FoundIn
  <2> QED BY <2>1
<1>7. MapIn(H, t) = [k \in {} |-> k]
  BY <1>6 DEF MapIn
<1> QED
  BY <1>4, <1>5, <1>6, <1>7 DEF t


(* What a put makes of the map, of the nodes and of the entries.           *)
LEMMA PutMap ==
  ASSUME NEW H \in [Keys -> HKeys], NEW t, TableOK(H, t), NEW d, Shaped(H, t, NoKey, d),
         NEW k \in Keys, NEW v \in Vals, NEW c, EntriesOK(H, H[k], c), c # <<>>,
         Pairs(c) = Without(Pairs(Chain(t, H[k])), k) \cup {<<k, v>>},
         NEW u, u = Insert(t, H[k], c)
  PROVE  /\ TableOK(H, u) /\ Shaped(H, u, NoKey, d)
         /\ MapIn(H, u) = With(MapIn(H, t), k, v)
         /\ Cardinality(Nodes(t)) \in Nat /\ NodesNeeded(t, H[k]) \in Nat
         /\ Cardinality(Nodes(u)) = Cardinality(Nodes(t)) + NodesNeeded(t, H[k])
         /\ Cardinality(KeysIn(H, u))
              = Cardinality(KeysIn(H, t)) + (IF k \in KeysIn(H, t) THEN 0 ELSE 1)
<1> DEFINE h == H[k]
<1>1. h \in HKeys
  OBVIOUS
<1>2. /\ TableOK(H, u) /\ Shaped(H, u, NoKey, d) /\ Chain(u, h) = c
      /\ \A g \in HKeys : g # h => Chain(u, g) = Chain(t, g)
      /\ IsFiniteSet(Nodes(t)) /\ NodesNeeded(t, h) \in Nat
      /\ Cardinality(Nodes(u)) = Cardinality(Nodes(t)) + NodesNeeded(t, h)
  <2> HIDE DEF h
  <2> QED BY <1>1, TreeSet DEF h
<1>3. Pairs(Chain(u, h)) = Without(Pairs(Chain(t, h)), k) \cup {<<k, v>>}
  BY <1>2
<1>4. /\ KeysIn(H, u) = KeysIn(H, t) \cup {k}
      /\ MapIn(H, u) = With(MapIn(H, t), k, v)
  BY <1>2, <1>3, MapSet
<1>5. Cardinality(KeysIn(H, u))
        = Cardinality(KeysIn(H, t)) + (IF k \in KeysIn(H, t) THEN 0 ELSE 1)
  BY <1>2, <1>4, CountSet
<1>6. Cardinality(Nodes(t)) \in Nat
  BY <1>2, FS_CardinalityType
<1> QED
  BY <1>2, <1>4, <1>5, <1>6

(* bbq_dict_put of a key that is there.                                    *)
LEMMA OverwriteStep ==
  ASSUME DInv, NEW k \in Keys, NEW v \in Vals, Overwrite(k, v)
  PROVE  /\ DInv'
         /\ MapIn(hash', index')
              = With(MapIn(hash, index), k, v)
<1> DEFINE h == hash[k]
           c == Chain(index, h)
           n == Found(index, k)
           x == <<k, v>>
           d == Rewritten(c, n, x)
           u == Insert(index, h, d)
<1>1. /\ hash \in [Keys -> HKeys] /\ h \in HKeys /\ TreeOK(index) /\ EntriesOK(hash, h, c)
      /\ TableOK(hash, index) /\ deleting = NoKey /\ Shaped(hash, index, NoKey, depth)
  BY DInvIs DEF DInv, Overwrite, Idle
<1>2. n = FoundIn(c, k) /\ n # 0
  BY FoundLink DEF Overwrite, Contains
<1>3. n \in 1 .. Len(c) /\ c[n][1] = k
  <2> HIDE DEF c, n, h
  <2> QED BY <1>1, <1>2, FoundIs
<1>4. c # <<>>
  <2> HIDE DEF c, n
  <2> QED BY <1>3, EmptySeq
<1>5. FindLeaf(index, h) /\ Leaf(h, c) \in Held(index)
  BY <1>1, <1>4, ChainIs
<1>6. index' = u
  <2> DEFINE p == Slot(index, h)
             f == index.leaf
  <2>1. p \in DOMAIN f /\ f[p].key = h /\ f[p] \in Held(index) /\ f[p].value = c
    BY <1>5 DEF FindLeaf, Held, Chain
  <2>2. f[p] = Leaf(h, f[p].value)
    BY <1>1, <2>1, FindLeafIs
  <2>3. index' = [index EXCEPT !.leaf[p].value[n] = x]
    BY DEF Overwrite
  <2>4. index = [inner |-> index.inner, leaf |-> f] /\ f = [q \in DOMAIN f |-> f[q]]
    BY <1>1 DEF TreeOK
  <2>5. u = [index EXCEPT !.leaf = PutLeaf(@, p, Leaf(h, d))]
    BY <1>5 DEF Insert
  <2> DEFINE r == f[p]
  <2>6. [r EXCEPT !.value[n] = x] = Leaf(h, d)
    <3>1. r = [key |-> h, value |-> c]
      BY <2>1, <2>2 DEF Leaf
    <3> HIDE DEF r, c, h, n, x
    <3> QED BY <3>1 DEF Leaf, Rewritten
  <2>7. [f EXCEPT ![p] = Leaf(h, d)] = PutLeaf(f, p, Leaf(h, d))
    <3> DEFINE l == Leaf(h, d)
    <3>1. DOMAIN f \cup {p} = DOMAIN f
      BY <2>1
    <3> HIDE DEF l, f, p
    <3> QED BY <2>4, <3>1 DEF PutLeaf
  <2>8. index' = [index EXCEPT !.leaf = [f EXCEPT ![p] = [f[p] EXCEPT !.value[n] = x]]]
    <3> HIDE DEF p, x, n
    <3> QED BY <2>3
  <2>9. index' = [index EXCEPT !.leaf = [f EXCEPT ![p] = Leaf(h, d)]]
    BY <2>6, <2>8
  <2>10. index' = [index EXCEPT !.leaf = PutLeaf(f, p, Leaf(h, d))]
    BY <2>7, <2>9
  <2> QED BY <2>5, <2>10
<1>7. /\ EntriesOK(hash, h, d) /\ d # <<>>
      /\ Pairs(d) = Without(Pairs(c), k) \cup {<<k, v>>}
  <2>1. hash[k] = h
    OBVIOUS
  <2>2. d = Rewritten(c, n, <<k, v>>)
    OBVIOUS
  <2> HIDE DEF d, c, h, n
  <2> QED BY <1>1, <1>3, <2>1, <2>2, ChainSet
<1>8. k \in KeysIn(hash, index)
  BY <1>2 DEF KeysIn
<1>9. NodesNeeded(index, h) = 0
  BY <1>5 DEF NodesNeeded
<1> HIDE DEF u, d
<1>10. /\ TableOK(hash, u) /\ Shaped(hash, u, NoKey, depth)
       /\ MapIn(hash, u) = With(MapIn(hash, index), k, v)
       /\ Cardinality(Nodes(index)) \in Nat
       /\ Cardinality(Nodes(u)) = Cardinality(Nodes(index)) + NodesNeeded(index, h)
       /\ Cardinality(KeysIn(hash, u))
            = Cardinality(KeysIn(hash, index)) + (IF k \in KeysIn(hash, index) THEN 0 ELSE 1)
  BY <1>1, <1>7, PutMap DEF u
<1>11. /\ Cardinality(Nodes(u)) = Cardinality(Nodes(index))
       /\ Cardinality(KeysIn(hash, u)) = Cardinality(KeysIn(hash, index))
  <2>1. Cardinality(KeysIn(hash, index)) \in Nat
    BY <1>1, EntriesCount
  <2> QED BY <1>8, <1>9, <1>10, <2>1
<1>12. UNCHANGED <<hash, count, oom, treeOom, held, deleting, depth, walking>>
  BY DEF Overwrite
<1>13. Counted(hash, u, NoKey, held, count)
  BY <1>1, <1>11 DEF DInv, Counted
<1> QED
  BY <1>1, <1>6, <1>10, <1>12, <1>13 DEF DInv


(* bbq_dict_put of a new key.                                              *)
LEMMA PutNewStep ==
  ASSUME DInv, NEW k \in Keys, NEW v \in Vals, PutNew(k, v)
  PROVE  /\ DInv'
         /\ MapIn(hash', index') = With(MapIn(hash, index), k, v)
<1> DEFINE h == hash[k]
           c == Chain(index, h)
           x == <<k, v>>
           d == Fronted(c, x)
           u == Insert(index, h, d)
<1>1. /\ hash \in [Keys -> HKeys] /\ h \in HKeys /\ TreeOK(index) /\ EntriesOK(hash, h, c)
      /\ TableOK(hash, index) /\ deleting = NoKey /\ Shaped(hash, index, NoKey, depth)
  BY DInvIs DEF DInv, PutNew, Idle
<1>2. FoundIn(c, k) = 0
  BY FoundLink DEF PutNew
<1>3. /\ index' = u /\ count' = count + 1
      /\ held' = [held EXCEPT !.entries = @ + 1, !.nodes = @ + NodesNeeded(index, h)]
      /\ UNCHANGED <<hash, oom, treeOom, deleting, depth, walking>>
  BY DEF PutNew, Fronted
<1>4. /\ EntriesOK(hash, h, d) /\ d # <<>>
      /\ Pairs(d) = Without(Pairs(c), k) \cup {<<k, v>>}
  <2>1. hash[k] = h /\ d = Fronted(c, <<k, v>>)
    OBVIOUS
  <2> HIDE DEF d, c, h
  <2> QED BY <1>1, <1>2, <2>1, ChainCons
<1>5. k \notin KeysIn(hash, index)
  BY <1>2 DEF KeysIn
<1> HIDE DEF u, d
<1>6. /\ TableOK(hash, u) /\ Shaped(hash, u, NoKey, depth)
      /\ MapIn(hash, u) = With(MapIn(hash, index), k, v)
      /\ Cardinality(Nodes(index)) \in Nat /\ NodesNeeded(index, h) \in Nat
      /\ Cardinality(Nodes(u)) = Cardinality(Nodes(index)) + NodesNeeded(index, h)
      /\ Cardinality(KeysIn(hash, u))
           = Cardinality(KeysIn(hash, index)) + (IF k \in KeysIn(hash, index) THEN 0 ELSE 1)
  BY <1>1, <1>4, PutMap DEF u
<1>7. Cardinality(KeysIn(hash, u)) = Cardinality(KeysIn(hash, index)) + 1
  BY <1>5, <1>6
<1>8. Counted(hash, u, NoKey, held', count')
  <2> DEFINE a == Cardinality(KeysIn(hash, index))
             b == Cardinality(Nodes(index))
             m == NodesNeeded(index, h)
  <2>1. a \in Nat /\ b \in Nat /\ m \in Nat
    BY <1>1, <1>6, EntriesCount
  <2>2. held \in [nodes : Nat, entries : Nat] /\ held.nodes = b /\ held.entries = a + 0 /\ count = held.entries
    BY <1>1 DEF DInv, Counted
  <2>3. Cardinality(KeysIn(hash, u)) = a + 1 /\ Cardinality(Nodes(u)) = b + m
    BY <1>6, <1>7
  <2>4. held' = [held EXCEPT !.entries = @ + 1, !.nodes = @ + m] /\ count' = count + 1
    BY <1>3
  <2> HIDE DEF a, b, m
  <2>5. held' \in [nodes : Nat, entries : Nat] /\ held'.nodes = b + m /\ held'.entries = a + 1 /\ count' = a + 1
    <3>1. held = [nodes |-> b, entries |-> a]
      BY <2>1, <2>2
    <3>2. held' = [nodes |-> b + m, entries |-> a + 1]
      BY <2>4, <3>1
    <3> QED BY <2>1, <2>2, <2>4, <3>2
  <2> QED BY <2>1, <2>3, <2>5 DEF Counted
<1> QED
  BY <1>1, <1>3, <1>6, <1>8 DEF DInv

(* A refused insert keeps none of the nodes it was granted.                *)
LEMMA NothingKept ==
  ASSUME NEW t, TreeOK(t), NEW h \in HKeys, NEW granted \in 0 .. NodesNeeded(t, h) - 1
  PROVE  NodesKept(t, h, granted) = 0
<1>1. FindLeaf(t, h) => HasLeaf(t, h)
  BY DEF FindLeaf, HasLeaf
<1>2. ~ FindLeaf(t, h)
  BY DEF NodesNeeded
<1>3. CASE ~ HasLeaf(t, h)
  <2>1. NodesNeeded(t, h) = 1
    BY <1>1, <1>3 DEF NodesNeeded
  <2> QED BY <1>3, <2>1 DEF NodesKept
<1>4. CASE HasLeaf(t, h)
  <2> DEFINE d == SplitAt(t, h)
             n == Level(t, h)
  <2>1. n \in Nat /\ d \in n .. Nibbles - 1
    BY <1>2, <1>4, SplitIs
  <2>2. NodesNeeded(t, h) = d - n + 2
    BY <1>2, <1>4 DEF NodesNeeded
  <2>3. NodesKept(t, h, granted)
          = granted - (IF granted < d - n THEN granted ELSE d - n) - (IF granted > d - n THEN 1 ELSE 0)
    BY <1>4 DEF NodesKept
  <2>4. granted \in 0 .. d - n + 1
    BY <2>1, <2>2, RadixAssumption
  <2> HIDE DEF d, n
  <2> QED BY <2>1, <2>3, <2>4, RadixAssumption
<1> QED
  BY <1>3, <1>4

(* bbq_dict_put that is refused.                                           *)
LEMMA PutRefusedStep ==
  ASSUME DInv, NEW k \in Keys, PutRefused(k)
  PROVE  DInv' /\ UNCHANGED <<hash, index>> /\ oom' = TRUE
<1>1. hash[k] \in HKeys /\ TreeOK(index)
  BY DInvIs
<1>2. held \in [nodes : Nat, entries : Nat]
  BY DEF DInv, Counted
<1>3. held' = held /\ treeOom' \in BOOLEAN
  <2>1. CASE UNCHANGED <<held, treeOom>>
    BY <2>1 DEF DInv
  <2>2. ASSUME NEW granted \in 0 .. NodesNeeded(index, hash[k]) - 1,
               held' = [held EXCEPT !.nodes = @ + NodesKept(index, hash[k], granted)],
               treeOom' = TRUE
        PROVE  held' = held /\ treeOom' \in BOOLEAN
    <3>1. NodesKept(index, hash[k], granted) = 0
      BY <1>1, NothingKept
    <3> QED BY <1>2, <2>2, <3>1
  <2> QED BY <2>1, <2>2 DEF PutRefused
<1>4. UNCHANGED <<hash, index, count, deleting, depth, walking>> /\ oom' = TRUE
  BY DEF PutRefused, iter
<1> QED
  BY <1>3, <1>4 DEF DInv


(* What a delete makes of the map and of the entries.                      *)
LEMMA CutMap ==
  ASSUME NEW H \in [Keys -> HKeys], NEW t, TableOK(H, t), NEW u, TableOK(H, u),
         NEW k \in KeysIn(H, t),
         \A g \in HKeys : g # H[k] => Chain(u, g) = Chain(t, g),
         Pairs(Chain(u, H[k])) = Without(Pairs(Chain(t, H[k])), k)
  PROVE  /\ MapIn(H, u) = Less(MapIn(H, t), k)
         /\ Cardinality(KeysIn(H, t)) \in Nat \ {0}
         /\ Cardinality(KeysIn(H, u)) = Cardinality(KeysIn(H, t)) - 1
<1>1. k \in Keys
  BY DEF KeysIn
<1>2. KeysIn(H, u) = KeysIn(H, t) \ {k} /\ MapIn(H, u) = Less(MapIn(H, t), k)
  BY <1>1, MapCut
<1> QED
  BY <1>2, CountCut

(* bbq_dict_delete of one of several entries.                              *)
LEMMA DeleteFromChainStep ==
  ASSUME DInv, NEW k \in Keys, DeleteFromChain(k)
  PROVE  /\ DInv'
         /\ MapIn(hash', index') = Less(MapIn(hash, index), k)
<1> DEFINE h == hash[k]
           c == Chain(index, h)
           n == Found(index, k)
           d == Unlisted(c, n)
           u == Insert(index, h, d)
<1>1. /\ hash \in [Keys -> HKeys] /\ h \in HKeys /\ TreeOK(index) /\ EntriesOK(hash, h, c)
      /\ TableOK(hash, index) /\ deleting = NoKey /\ Shaped(hash, index, NoKey, depth)
  BY DInvIs DEF DInv, DeleteFromChain, Idle
<1>2. n = FoundIn(c, k) /\ n # 0 /\ Len(c) > 1
  BY FoundLink DEF DeleteFromChain, Contains
<1>3. n \in 1 .. Len(c) /\ c[n][1] = k
  <2> HIDE DEF c, n, h
  <2> QED BY <1>1, <1>2, FoundIs
<1>4. c # <<>>
  <2> HIDE DEF c, n
  <2> QED BY <1>3, EmptySeq
<1>5. FindLeaf(index, h)
  BY <1>1, <1>4, ChainIs
<1>6. /\ index' = u /\ held' = [held EXCEPT !.entries = @ - 1] /\ count' = count - 1
      /\ UNCHANGED <<hash, oom, treeOom, deleting, depth, walking>>
  BY DEF DeleteFromChain, Released, Unlisted
<1>7. /\ EntriesOK(hash, h, d) /\ d # <<>>
      /\ Pairs(d) = Without(Pairs(c), k)
  <2> HIDE DEF c, n, h
  <2>1. /\ EntriesOK(hash, h, d) /\ Len(d) = Len(c) - 1
        /\ Pairs(d) = Without(Pairs(c), k)
    BY <1>1, <1>3, ChainDel
  <2>2. Len(c) \in Nat
    BY <1>1, LenProperties DEF EntriesOK
  <2> HIDE DEF d
  <2> QED BY <1>2, <2>1, <2>2, EmptySeq
<1>8. k \in KeysIn(hash, index)
  BY <1>2 DEF KeysIn
<1> HIDE DEF u, d
<1>9. /\ TableOK(hash, u) /\ Shaped(hash, u, NoKey, depth) /\ Chain(u, h) = d
      /\ \A g \in HKeys : g # h => Chain(u, g) = Chain(index, g)
      /\ IsFiniteSet(Nodes(index)) /\ NodesNeeded(index, h) \in Nat
      /\ Cardinality(Nodes(u)) = Cardinality(Nodes(index)) + NodesNeeded(index, h)
  <2> HIDE DEF h
  <2> QED BY <1>1, <1>7, TreeSet DEF u
<1>10. Pairs(Chain(u, h)) = Without(Pairs(Chain(index, h)), k)
  BY <1>7, <1>9
<1>11. /\ MapIn(hash, u) = Less(MapIn(hash, index), k)
       /\ Cardinality(KeysIn(hash, index)) \in Nat \ {0}
       /\ Cardinality(KeysIn(hash, u)) = Cardinality(KeysIn(hash, index)) - 1
  BY <1>1, <1>8, <1>9, <1>10, CutMap
<1>12. NodesNeeded(index, h) = 0
  BY <1>5 DEF NodesNeeded
<1>13. Counted(hash, u, NoKey, held', count')
  <2> DEFINE a == Cardinality(KeysIn(hash, index))
             b == Cardinality(Nodes(index))
  <2>1. a \in Nat \ {0} /\ b \in Nat
    BY <1>9, <1>11, FS_CardinalityType
  <2>2. held \in [nodes : Nat, entries : Nat] /\ held.nodes = b /\ held.entries = a + 0 /\ count = held.entries
    BY <1>1 DEF DInv, Counted
  <2>3. Cardinality(KeysIn(hash, u)) = a - 1 /\ Cardinality(Nodes(u)) = b + 0
    BY <1>9, <1>11, <1>12
  <2> HIDE DEF a, b
  <2>4. held = [nodes |-> b, entries |-> a]
    BY <2>1, <2>2
  <2>5. held' = [nodes |-> b, entries |-> a - 1] /\ count' = a - 1
    BY <1>6, <2>1, <2>2, <2>4
  <2>6. held' \in [nodes : Nat, entries : Nat]
    BY <2>1, <2>5
  <2> QED BY <2>1, <2>3, <2>5, <2>6 DEF Counted
<1> QED
  BY <1>1, <1>6, <1>9, <1>11, <1>13 DEF DInv

(* bbq_dict_delete of a chain's only entry.                                *)
LEMMA DeleteLastStep ==
  ASSUME DInv, NEW k \in Keys, DeleteLast(k)
  PROVE  /\ DInv'
         /\ MapIn(hash', index') = Less(MapIn(hash, index), k)
<1> DEFINE h == hash[k]
           c == Chain(index, h)
           n == Found(index, k)
           u == Unlinked(index, h)
<1>1. /\ hash \in [Keys -> HKeys] /\ h \in HKeys /\ TreeOK(index) /\ EntriesOK(hash, h, c)
      /\ TableOK(hash, index) /\ deleting = NoKey /\ Shaped(hash, index, NoKey, depth) /\ ~walking
  BY DInvIs DEF DInv, DeleteLast, Idle
<1>2. n = FoundIn(c, k) /\ n # 0 /\ Len(c) = 1
  BY FoundLink DEF DeleteLast, Contains
<1>3. n \in 1 .. Len(c) /\ c[n][1] = k
  <2> HIDE DEF c, n, h
  <2> QED BY <1>1, <1>2, FoundIs
<1>4. c # <<>> /\ c[1][1] = k /\ \A j \in 1 .. Len(c) : j = 1
  <2> HIDE DEF c, n
  <2> QED BY <1>2, <1>3, EmptySeq
<1>5. FindLeaf(index, h)
  BY <1>1, <1>4, ChainIs
<1>6. /\ index' = u /\ held' = [held EXCEPT !.nodes = @ - 1]
      /\ deleting' = k /\ depth' = Level(index, h)
      /\ UNCHANGED <<hash, count, oom, treeOom, walking>>
  BY DEF DeleteLast
<1>7. \A p \in index.inner : Forks(KeysOf(index), p)
  BY <1>1 DEF Shaped
<1>8. k \in KeysIn(hash, index) /\ k # NoKey
  BY <1>2, DictAssumption DEF KeysIn
<1> HIDE DEF u
<1>9. /\ TreeOK(u) /\ Held(u) = {r \in Held(index) : r.key # h}
      /\ IsFiniteSet(Nodes(index)) /\ Cardinality(Nodes(u)) = Cardinality(Nodes(index)) - 1
      /\ \A p \in u.inner : Forks(KeysOf(u), p) \/ \E m \in 0 .. Level(index, h) - 1 : p = Upto(h, m)
      /\ Level(index, h) \in 0 .. Nibbles
      /\ Upto(h, Level(index, h)) \notin u.inner
      /\ \A m \in 0 .. Level(index, h) - 1 : Upto(h, m) \in u.inner
  <2> HIDE DEF h
  <2> QED BY <1>1, <1>5, <1>7, UnlinkedTree DEF u
<1>10. /\ TableOK(hash, u) /\ Chain(u, h) = <<>>
       /\ \A g \in HKeys : g # h => Chain(u, g) = Chain(index, g)
  <2> HIDE DEF h
  <2> QED BY <1>1, <1>9, TableCut
<1>11. Shaped(hash, u, k, Level(index, h))
  BY <1>8, <1>9 DEF Shaped
<1>12. Pairs(Chain(u, h)) = Without(Pairs(Chain(index, h)), k)
  <2>1. Pairs(Chain(u, h)) = {}
    BY <1>10 DEF Pairs
  <2>2. \A e \in Pairs(c) : e[1] = k
    <3> HIDE DEF c
    <3> QED BY <1>4 DEF Pairs
  <2> QED BY <2>1, <2>2 DEF Without
<1>13. /\ MapIn(hash, u) = Less(MapIn(hash, index), k)
       /\ Cardinality(KeysIn(hash, index)) \in Nat \ {0}
       /\ Cardinality(KeysIn(hash, u)) = Cardinality(KeysIn(hash, index)) - 1
  BY <1>1, <1>8, <1>10, <1>12, CutMap
<1>14. Counted(hash, u, k, held', count')
  <2> DEFINE a == Cardinality(KeysIn(hash, index))
             b == Cardinality(Nodes(index))
  <2>1. a \in Nat \ {0} /\ b \in Nat /\ b - 1 \in Nat
    <3>1. IsFiniteSet(Nodes(u))
      BY <1>9, FS_Union DEF TreeOK, Nodes
    <3> QED BY <1>9, <1>13, <3>1, FS_CardinalityType
  <2>2. held \in [nodes : Nat, entries : Nat] /\ held.nodes = b /\ held.entries = a + 0 /\ count = held.entries
    BY <1>1 DEF DInv, Counted
  <2>3. Cardinality(KeysIn(hash, u)) = a - 1 /\ Cardinality(Nodes(u)) = b - 1
    BY <1>9, <1>13
  <2> HIDE DEF a, b
  <2>4. held = [nodes |-> b, entries |-> a]
    BY <2>1, <2>2
  <2>5. held' = [nodes |-> b - 1, entries |-> a] /\ count' = a
    BY <1>6, <2>1, <2>2, <2>4
  <2>6. held' \in [nodes : Nat, entries : Nat] /\ a = (a - 1) + 1
    BY <2>1, <2>5
  <2> QED BY <1>8, <2>1, <2>3, <2>5, <2>6 DEF Counted
<1> QED
  BY <1>1, <1>6, <1>8, <1>9, <1>10, <1>11, <1>13, <1>14 DEF DInv


(* A turn of the walk back that goes on.                                   *)
LEMMA CollapseStep ==
  ASSUME DInv, Collapse
  PROVE  /\ DInv'
         /\ hash' = hash /\ MapIn(hash', index') = MapIn(hash, index)
         /\ KeysIn(hash', index') = KeysIn(hash, index)
<1> DEFINE k == deleting
           h == hash[k]
           n == depth - 1
           p == Upto(h, n)
           u == Collapsed(index, p)
<1>1. /\ hash \in [Keys -> HKeys] /\ TreeOK(index) /\ TableOK(hash, index)
      /\ Shaped(hash, index, k, depth) /\ k \in Keys /\ k # NoKey /\ ~walking
  BY DInvIs DEF DInv, Collapse
<1>2. h \in HKeys
  BY <1>1
<1>3. /\ n \in 0 .. Nibbles - 1 /\ depth = n + 1 /\ n \in 0 .. depth - 1 /\ n \in 0 .. Nibbles
      /\ n \in Nat
  BY RadixAssumption DEF Collapse, DInv
<1>4. p \in index.inner
  BY <1>1, <1>3 DEF Shaped
<1>5. /\ Collapses(index, p) /\ index' = u
      /\ held' = [held EXCEPT !.nodes = @ - 1] /\ depth' = n
      /\ UNCHANGED <<hash, count, oom, treeOom, deleting, walking>>
  BY DEF Collapse, iter
<1> HIDE DEF u, n
<1>6. /\ TreeOK(u) /\ Held(u) = Held(index) /\ u.inner = index.inner \ {p}
      /\ IsFiniteSet(Nodes(index)) /\ Cardinality(Nodes(u)) = Cardinality(Nodes(index)) - 1
  <2> HIDE DEF h
  <2>1. p = Upto(h, n) /\ u = Collapsed(index, p)
    BY DEF u
  <2> HIDE DEF p
  <2> QED BY <1>1, <1>2, <1>3, <1>4, <1>5, <2>1, CollapsedTree
<1>7. /\ TableOK(hash, u) /\ KeysIn(hash, u) = KeysIn(hash, index)
      /\ MapIn(hash, u) = MapIn(hash, index)
  BY <1>1, <1>6, TableSame
<1>8. Shaped(hash, u, k, n)
  <2>1. KeysOf(u) = KeysOf(index)
    BY <1>6, KeysOfHeld
  <2>2. ASSUME NEW q \in u.inner
        PROVE  Forks(KeysOf(u), q) \/ \E m \in 0 .. n - 1 : q = Upto(h, m)
    <3>1. q \in index.inner /\ q # p
      BY <1>6
    <3>2. CASE Forks(KeysOf(index), q)
      BY <2>1, <3>2
    <3>3. ASSUME NEW m \in 0 .. depth - 1, q = Upto(h, m)
          PROVE  \E i \in 0 .. n - 1 : q = Upto(h, i)
      <4>1. m \in 0 .. n /\ m # n
        BY <1>3, <3>1, <3>3
      <4>2. m \in 0 .. n - 1
        BY <1>3, <4>1
      <4> QED BY <3>3, <4>2
    <3> QED BY <1>1, <3>1, <3>2, <3>3 DEF Shaped
  <2>3. ASSUME NEW m \in 0 .. n - 1 PROVE Upto(h, m) \in u.inner
    <3>1. m \in 0 .. depth - 1 /\ m \in 0 .. Nibbles /\ m # n
      BY <1>3, RadixAssumption
    <3>2. Len(Upto(h, m)) = m /\ Len(p) = n
      BY <1>2, <1>3, <3>1, UptoIs
    <3>3. Upto(h, m) \in index.inner
      BY <1>1, <3>1 DEF Shaped
    <3> QED BY <1>6, <3>1, <3>2, <3>3
  <2>4. p \notin u.inner
    BY <1>6
  <2> QED BY <1>1, <2>2, <2>3, <2>4 DEF Shaped
<1>9. Counted(hash, u, k, held', count')
  <2> DEFINE a == Cardinality(KeysIn(hash, index))
             b == Cardinality(Nodes(index))
  <2>1. a \in Nat /\ b \in Nat /\ b - 1 \in Nat
    <3>1. IsFiniteSet(Nodes(u))
      BY <1>6, FS_Union DEF TreeOK, Nodes
    <3> QED BY <1>1, <1>6, <3>1, FS_CardinalityType, EntriesCount
  <2>2. held \in [nodes : Nat, entries : Nat] /\ held.nodes = b /\ held.entries = a + 1 /\ count = held.entries
    BY <1>1 DEF DInv, Counted
  <2>3. Cardinality(KeysIn(hash, u)) = a /\ Cardinality(Nodes(u)) = b - 1
    BY <1>6, <1>7
  <2> HIDE DEF a, b
  <2>4. held = [nodes |-> b, entries |-> a + 1]
    BY <2>1, <2>2
  <2>5. held' = [nodes |-> b - 1, entries |-> a + 1] /\ count' = a + 1
    BY <1>5, <2>1, <2>2, <2>4
  <2>6. held' \in [nodes : Nat, entries : Nat]
    BY <2>1, <2>5
  <2> QED BY <1>1, <2>1, <2>3, <2>5, <2>6 DEF Counted
<1>10. n \in 0 .. Nibbles
  BY <1>3
<1> QED
  BY <1>1, <1>5, <1>7, <1>8, <1>9, <1>10 DEF DInv

(* The walk back ends.                                                     *)
LEMMA DeleteEndsStep ==
  ASSUME DInv, DeleteEnds
  PROVE  DInv' /\ UNCHANGED <<hash, index>>
<1> DEFINE k == deleting
           h == hash[k]
<1>1. /\ hash \in [Keys -> HKeys] /\ TreeOK(index) /\ TableOK(hash, index)
      /\ Shaped(hash, index, k, depth) /\ k \in Keys /\ k # NoKey /\ ~walking
      /\ depth \in 0 .. Nibbles
  BY DInvIs DEF DInv, DeleteEnds
<1>2. h \in HKeys
  BY <1>1
<1>3. /\ held' = [held EXCEPT !.entries = @ - 1] /\ count' = count - 1
      /\ deleting' = NoKey /\ depth' = 0
      /\ UNCHANGED <<hash, index, oom, treeOom, walking>>
  BY DEF DeleteEnds, Released
<1>4. \A p \in index.inner : Forks(KeysOf(index), p)
  <2>1. CASE depth = 0
    <3>1. ~ \E m \in 0 .. depth - 1 : TRUE
      BY <2>1
    <3> QED BY <1>1, <3>1 DEF Shaped
  <2>2. CASE depth # 0
    <3> DEFINE d == depth
    <3>1. d \in 1 .. Nibbles /\ d > 0 /\ d - 1 \in 0 .. d - 1
      BY <1>1, <2>2, RadixAssumption
    <3>2. ~ Collapses(index, Upto(h, d - 1))
      BY <3>1 DEF DeleteEnds
    <3>3. /\ Upto(h, d - 1) \in index.inner /\ Upto(h, d) \notin index.inner
          /\ \A p \in index.inner : Forks(KeysOf(index), p) \/ \E m \in 0 .. d - 1 : p = Upto(h, m)
      BY <1>1, <3>1 DEF Shaped
    <3> HIDE DEF h, d
    <3> QED BY <1>1, <1>2, <3>1, <3>2, <3>3, WalkStops
  <2> QED BY <2>1, <2>2
<1>5. Shaped(hash, index, NoKey, 0)
  BY <1>4 DEF Shaped
<1>6. Counted(hash, index, NoKey, held', count')
  <2> DEFINE a == Cardinality(KeysIn(hash, index))
             b == Cardinality(Nodes(index))
  <2>1. a \in Nat
    BY <1>1, EntriesCount
  <2>2. held \in [nodes : Nat, entries : Nat] /\ held.nodes = b /\ held.entries = a + 1 /\ count = held.entries
    BY <1>1 DEF DInv, Counted
  <2> HIDE DEF a, b
  <2>3. b \in Nat /\ held = [nodes |-> b, entries |-> a + 1]
    BY <2>1, <2>2
  <2>4. held' = [nodes |-> b, entries |-> a] /\ count' = a
    BY <1>3, <2>1, <2>2, <2>3
  <2>5. held' \in [nodes : Nat, entries : Nat] /\ a = a + 0
    BY <2>1, <2>3, <2>4
  <2> QED BY <2>1, <2>4, <2>5 DEF Counted, a, b
<1>7. 0 \in 0 .. Nibbles
  BY RadixAssumption
<1> QED
  BY <1>1, <1>3, <1>5, <1>6, <1>7 DEF DInv

(* bbq_dict_clear and bbq_dict_free.                                       *)
LEMMA EmptiedStep ==
  ASSUME DInv, Emptied, oom' \in BOOLEAN, treeOom' \in BOOLEAN
  PROVE  DInv' /\ hash' = hash /\ index' = NoTree
<1>1. /\ hash \in [Keys -> HKeys] /\ TreeOK(index) /\ TableOK(hash, index) /\ deleting = NoKey
      /\ Counted(hash, index, NoKey, held, count)
  BY DInvIs DEF DInv, Emptied, Idle
<1>2. /\ held' = [nodes |-> held.nodes - Cardinality(Nodes(index)),
                  entries |-> held.entries - Cardinality(Entries(index))]
      /\ index' = NoTree /\ count' = 0
      /\ UNCHANGED <<hash, deleting, depth, walking>>
  BY DEF Emptied
<1>3. /\ TableOK(hash, NoTree) /\ Shaped(hash, NoTree, NoKey, depth)
      /\ Nodes(NoTree) = {} /\ KeysIn(hash, NoTree) = {}
  BY <1>1, EmptyTree
<1>4. held' = [nodes |-> 0, entries |-> 0]
  <2>1. Cardinality(Entries(index)) = Cardinality(KeysIn(hash, index)) /\ Cardinality(KeysIn(hash, index)) \in Nat
    BY <1>1, EntriesCount
  <2>2. held.nodes \in Nat /\ held.nodes = Cardinality(Nodes(index))
        /\ held.entries = Cardinality(KeysIn(hash, index)) + 0
    BY <1>1 DEF Counted
  <2> QED BY <1>2, <2>1, <2>2
<1>5. Cardinality({}) = 0
  BY FS_EmptySet
<1>6. Counted(hash, NoTree, NoKey, held', count')
  <2>1. held' \in [nodes : Nat, entries : Nat] /\ held'.nodes = 0 /\ held'.entries = 0 /\ count' = 0
    BY <1>2, <1>4
  <2> QED BY <1>3, <1>5, <2>1 DEF Counted
<1> QED
  BY <1>1, <1>2, <1>3, <1>6 DEF DInv

(* An iterator changes nothing of the dictionary.                          *)
LEMMA LookStep ==
  ASSUME DInv, UNCHANGED <<deleting, depth>>, UNCHANGED dict, deleting # NoKey => ~walking'
  PROVE  DInv' /\ UNCHANGED <<hash, index, oom, treeOom>>
BY DEF DInv, dict


-----------------------------------------------------------------------------
(* The invariant is inductive.                                             *)

(* It holds of an empty dictionary.                                        *)
LEMMA InitDInv == Init => DInv
<1> SUFFICES ASSUME Init PROVE DInv
  OBVIOUS
<1>1. hash \in Hashes /\ hash \in [Keys -> HKeys] /\ index = NoTree
  BY DictAssumption DEF Init
<1>2. /\ TableOK(hash, NoTree) /\ Shaped(hash, NoTree, NoKey, depth)
      /\ Nodes(NoTree) = {} /\ KeysIn(hash, NoTree) = {}
  BY <1>1, EmptyTree
<1>3. Cardinality({}) = 0
  BY FS_EmptySet
<1>4. Counted(hash, NoTree, NoKey, held, count)
  <2>1. held = [nodes |-> 0, entries |-> 0] /\ count = 0
    BY DEF Init
  <2>2. held \in [nodes : Nat, entries : Nat] /\ held.nodes = 0 /\ held.entries = 0
    BY <2>1
  <2> QED BY <1>2, <1>3, <2>1, <2>2 DEF Counted
<1>5. 0 \in 0 .. Nibbles
  BY RadixAssumption
<1> QED
  BY <1>1, <1>2, <1>4, <1>5 DEF Init, DInv

(* What a step makes of the map: what a call promises, or nothing.         *)
Promised ==
    \/ \E k \in Keys, v \in Vals : map' = With(map, k, v) /\ UNCHANGED <<oom, treeOom>>
    \/ \E k \in Keys : map' = Less(map, k) /\ UNCHANGED <<oom, treeOom>>
    \/ map' = map /\ oom' = TRUE
    \/ map' = map /\ UNCHANGED <<oom, treeOom>>
    \/ map' = [k \in {} |-> k] /\ oom' \in BOOLEAN /\ treeOom' \in BOOLEAN

(* Every step keeps it, and keeps its promise.                             *)
LEMMA StepDInv == DInv /\ [Next]_vars => DInv' /\ Promised
<1> SUFFICES ASSUME DInv, [Next]_vars PROVE DInv' /\ Promised
  OBVIOUS
<1>0. map = MapIn(hash, index) /\ map' = MapIn(hash', index')
  BY MapLink, MapLinkNext
<1>1. ASSUME NEW k \in Keys, NEW v \in Vals, Overwrite(k, v) PROVE DInv' /\ Promised
  <2>1. DInv' /\ map' = With(map, k, v)
    BY <1>0, <1>1, OverwriteStep
  <2>2. UNCHANGED <<oom, treeOom>>
    BY <1>1 DEF Overwrite
  <2> QED BY <2>1, <2>2 DEF Promised
<1>2. ASSUME NEW k \in Keys, NEW v \in Vals, PutNew(k, v) PROVE DInv' /\ Promised
  <2>1. DInv' /\ map' = With(map, k, v)
    BY <1>0, <1>2, PutNewStep
  <2>2. UNCHANGED <<oom, treeOom>>
    BY <1>2 DEF PutNew
  <2> QED BY <2>1, <2>2 DEF Promised
<1>3. ASSUME NEW k \in Keys, PutRefused(k) PROVE DInv' /\ Promised
  BY <1>0, <1>3, PutRefusedStep DEF Promised
<1>4. ASSUME NEW k \in Keys, DeleteFromChain(k) PROVE DInv' /\ Promised
  <2>1. DInv' /\ map' = Less(map, k)
    BY <1>0, <1>4, DeleteFromChainStep
  <2>2. UNCHANGED <<oom, treeOom>>
    BY <1>4 DEF DeleteFromChain
  <2> QED BY <2>1, <2>2 DEF Promised
<1>5. ASSUME NEW k \in Keys, DeleteLast(k) PROVE DInv' /\ Promised
  <2>1. DInv' /\ map' = Less(map, k)
    BY <1>0, <1>5, DeleteLastStep
  <2>2. UNCHANGED <<oom, treeOom>>
    BY <1>5 DEF DeleteLast
  <2> QED BY <2>1, <2>2 DEF Promised
<1>6. CASE Collapse
  <2>1. DInv' /\ map' = map
    BY <1>0, <1>6, CollapseStep
  <2>2. UNCHANGED <<oom, treeOom>>
    BY <1>6 DEF Collapse
  <2> QED BY <2>1, <2>2 DEF Promised
<1>7. CASE DeleteEnds
  <2>1. DInv' /\ map' = map
    BY <1>0, <1>7, DeleteEndsStep
  <2>2. UNCHANGED <<oom, treeOom>>
    BY <1>7 DEF DeleteEnds
  <2> QED BY <2>1, <2>2 DEF Promised
<1>8. CASE Clear \/ FreeDict
  <2>1. Emptied /\ oom' \in BOOLEAN /\ treeOom' \in BOOLEAN
    BY <1>8 DEF Clear, FreeDict, DInv
  <2>2. DInv' /\ hash' = hash /\ index' = NoTree
    BY <2>1, EmptiedStep
  <2>3. map' = [k \in {} |-> k]
    BY <1>0, <2>2, DInvIs, EmptyTree
  <2> QED BY <2>1, <2>2, <2>3 DEF Promised
<1>9. CASE IterInit \/ NextInChain \/ NextChain \/ WalkInner \/ WalkLeaf \/ WalkEnd \/ UNCHANGED vars
  <2>1. UNCHANGED <<deleting, depth>> /\ UNCHANGED dict
    BY <1>9 DEF IterInit, NextInChain, NextChain, WalkInner, WalkLeaf, WalkEnd, vars, dict
  <2>2. deleting # NoKey => ~walking'
    BY <1>9 DEF IterInit, NextInChain, NextChain, WalkInner, WalkLeaf, WalkEnd, vars, Idle, DInv
  <2>3. DInv' /\ UNCHANGED <<hash, index, oom, treeOom>>
    BY <2>1, <2>2, LookStep
  <2> QED BY <1>0, <2>3 DEF Promised
<1> QED
  BY <1>1, <1>2, <1>3, <1>4, <1>5, <1>6, <1>7, <1>8, <1>9 DEF Next

(* The invariant holds.                                                    *)
LEMMA DictInvariant == Spec => []DInv
BY InitDInv, StepDInv, PTL DEF Spec

(* bbq_htree.h:29, what is allocated is what can be reached, whichever     *)
(* allocation was refused.                                                 *)
THEOREM NothingEverLeaks == Spec => []NothingLeaks
<1>1. DInv => NothingLeaks
  <2> SUFFICES ASSUME DInv PROVE NothingLeaks
    OBVIOUS
  <2>1. hash \in [Keys -> HKeys] /\ TableOK(hash, index)
    BY DInvIs DEF DInv
  <2>2. Cardinality(Entries(index)) = Cardinality(KeysIn(hash, index)) /\ Cardinality(KeysIn(hash, index)) \in Nat
    BY <2>1, EntriesCount
  <2> QED BY <2>2 DEF DInv, Counted, NothingLeaks
<1> QED
  BY <1>1, DictInvariant, PTL

(* bbq_dict.h, the dictionary implements a finite map, whatever hashes     *)
(* collide and in the middle of a delete's walk too.                       *)
THEOREM DictImplementsMap == Spec => ImplementsFiniteMap
<1>1. Init => M!Init
  <2> SUFFICES ASSUME Init PROVE M!Init
    OBVIOUS
  <2>1. hash \in [Keys -> HKeys] /\ index = NoTree
    BY DictAssumption DEF Init
  <2>2. map = [k \in {} |-> k]
    BY <2>1, MapLink, EmptyTree
  <2> QED BY <2>2 DEF Init, M!Init, M!Empty
<1>2. Promised /\ DInv => [M!Next]_M!vars
  <2> SUFFICES ASSUME Promised, DInv PROVE M!Next \/ UNCHANGED M!vars
    OBVIOUS
  <2>0. oom \in BOOLEAN /\ treeOom \in BOOLEAN
    BY DEF DInv
  <2>1. ASSUME NEW k \in Keys, NEW v \in Vals, map' = With(map, k, v), UNCHANGED <<oom, treeOom>>
        PROVE  M!Put(k, v)
    BY <2>1 DEF M!Put, With
  <2>2. ASSUME NEW k \in Keys, map' = Less(map, k), UNCHANGED <<oom, treeOom>> PROVE M!Delete(k)
    BY <2>2 DEF M!Delete, Less
  <2>3. CASE map' = map /\ oom' = TRUE
    BY <2>3 DEF M!Refuse, M!Next
  <2>4. CASE map' = map /\ UNCHANGED <<oom, treeOom>>
    BY <2>4 DEF M!vars
  <2>5. CASE map' = [k \in {} |-> k] /\ oom' \in BOOLEAN /\ treeOom' \in BOOLEAN
    BY <2>5 DEF M!Renew, M!Empty, M!Next
  <2> QED BY <2>1, <2>2, <2>3, <2>4, <2>5 DEF Promised, M!Next
<1> QED
  BY <1>1, <1>2, StepDInv, DictInvariant, PTL DEF Spec, ImplementsFiniteMap, M!Spec


-----------------------------------------------------------------------------
(* The shape of the tree, between calls.                                   *)

(* How many keys of a set share a path.                                    *)
LEMMA AgreeingIs ==
  ASSUME NEW hs, IsFiniteSet(hs), NEW p
  PROVE  /\ Cardinality(Agreeing(hs, p)) > 1 <=> Forks(hs, p)
         /\ Cardinality(Agreeing(hs, p)) = 1
              <=> (\E h \in hs : Upto(h, Len(p)) = p) /\ ~ Forks(hs, p)
<1> DEFINE A == Agreeing(hs, p)
           n == Cardinality(A)
<1>1. A \in SUBSET hs
  BY DEF Agreeing
<1>2. IsFiniteSet(A)
  BY <1>1, FS_Subset
<1>3. n \in Nat
  BY <1>2, FS_CardinalityType
<1>4. n = 0 <=> A = {}
  BY <1>2, FS_EmptySet
<1>5. n = 1 <=> \E x : A = {x}
  BY <1>2, FS_Singleton
<1>6. \A h : h \in A <=> h \in hs /\ Upto(h, Len(p)) = p
  BY DEF Agreeing
<1>7. Forks(hs, p) <=> \E g, h \in A : g # h
  BY <1>6 DEF Forks
<1>8. (\E x : A = {x}) <=> A # {} /\ ~ \E g, h \in A : g # h
  <2> HIDE DEF A
  <2> QED OBVIOUS
<1>9. A # {} <=> \E h \in hs : Upto(h, Len(p)) = p
  BY <1>6
<1> HIDE DEF n, A
<1>10. n > 1 <=> Forks(hs, p)
  <2>1. n > 1 <=> n # 0 /\ n # 1
    BY <1>3
  <2>2. Forks(hs, p) => A # {}
    BY <1>7
  <2> QED BY <1>4, <1>5, <1>7, <1>8, <2>1, <2>2, Zenon
<1>11. n = 1 <=> (\E h \in hs : Upto(h, Len(p)) = p) /\ ~ Forks(hs, p)
  BY <1>5, <1>7, <1>8, <1>9
<1> QED
  BY <1>10, <1>11 DEF n, A

(* Two keys part below every path they share.                              *)
LEMMA ForksInner ==
  ASSUME NEW t, TreeOK(t), NEW h \in HKeys, NEW n \in 0 .. Nibbles, Forks(KeysOf(t), Upto(h, n))
  PROVE  Upto(h, n) \in t.inner
<1> DEFINE p == Upto(h, n)
<1>1. Len(p) = n
  BY UptoIs
<1>2. PICK l \in DOMAIN t.leaf, m \in DOMAIN t.leaf :
         t.leaf[l].key # t.leaf[m].key /\ Upto(t.leaf[l].key, n) = p /\ Upto(t.leaf[m].key, n) = p
  BY <1>1 DEF Forks, KeysOf
<1> DEFINE a == t.leaf[l].key
           b == t.leaf[m].key
<1>3. LeafOK(t, l) /\ LeafOK(t, m) /\ l \notin t.inner /\ m \notin t.inner
  BY DEF TreeOK
<1>4. /\ a \in HKeys /\ b \in HKeys /\ Len(l) \in 0 .. Nibbles /\ Len(m) \in 0 .. Nibbles
      /\ l = Upto(a, Len(l)) /\ m = Upto(b, Len(m))
      /\ \A i \in 0 .. Len(l) - 1 : Upto(a, i) \in t.inner
      /\ \A i \in 0 .. Len(m) - 1 : Upto(b, i) \in t.inner
  BY <1>3 DEF LeafOK
<1> DEFINE c == Len(l)
           d == Len(m)
<1>5. a # b /\ Upto(a, n) = p /\ Upto(b, n) = p
  BY <1>2
<1> HIDE DEF a, b, c, d, p
<1>6. c \in 0 .. Nibbles /\ d \in 0 .. Nibbles /\ n \in Nat /\ Nibbles \in Nat
  BY <1>4, RadixAssumption DEF c, d
<1>7. CASE n < c
  <2>1. n \in 0 .. c - 1
    BY <1>6, <1>7
  <2> QED BY <1>4, <1>5, <2>1 DEF c, p
<1>8. CASE n < d
  <2>1. n \in 0 .. d - 1
    BY <1>6, <1>8
  <2> QED BY <1>4, <1>5, <2>1 DEF d, p
<1>9. CASE c <= n /\ d <= n
  <2>1. c \in 0 .. n /\ d \in 0 .. n
    BY <1>6, <1>9
  <2>2. Upto(a, n) = Upto(b, n)
    BY <1>5
  <2>3. Upto(a, c) = Upto(b, c) /\ Upto(a, d) = Upto(b, d)
    BY <1>4, <2>1, <2>2, UptoShorter
  <2>4. ~ (c < d)
    <3>1. c < d => c \in 0 .. d - 1
      BY <1>6
    <3> QED BY <1>3, <1>4, <2>3, <3>1 DEF c, d
  <2>5. ~ (d < c)
    <3>1. d < c => d \in 0 .. c - 1
      BY <1>6
    <3> QED BY <1>3, <1>4, <2>3, <3>1 DEF c, d
  <2>6. c = d
    BY <1>6, <2>4, <2>5
  <2>7. l = m
    BY <1>4, <2>3, <2>6 DEF c, d
  <2> QED BY <1>5, <2>7 DEF a, b
<1> QED
  BY <1>6, <1>7, <1>8, <1>9

(* A tree that forks at every interior position is the tree of its keys.   *)
LEMMA CanonicalTree ==
  ASSUME NEW t, TreeOK(t), \A p \in t.inner : Forks(KeysOf(t), p)
  PROVE  Canonical(t)
<1> DEFINE K == KeysOf(t)
<1>0. Nibbles \in Nat /\ K \subseteq HKeys
  BY RadixAssumption DEF KeysOf, TreeOK, LeafOK
<1>1. IsFiniteSet(K)
  <2> DEFINE G == [l \in DOMAIN t.leaf |-> t.leaf[l].key]
  <2>1. G \in [DOMAIN t.leaf -> K] /\ \A x \in K : \E l \in DOMAIN t.leaf : G[l] = x
    BY DEF KeysOf
  <2>2. IsFiniteSet(DOMAIN t.leaf)
    BY DEF TreeOK
  <2> HIDE DEF G, K
  <2>3. G \in Surjection(DOMAIN t.leaf, K)
    BY <2>1, Fun_IsSurj
  <2> QED BY <2>2, <2>3, FS_Surjection
<1>2. \A p : p \in Prefixes(K) <=> \E h \in K, n \in 0 .. Nibbles : p = Upto(h, n)
  BY DEF Prefixes
<1>3. \A p : p \in InnerOf(K) <=> p \in Prefixes(K) /\ Forks(K, p)
  <2> HIDE DEF K
  <2> QED BY <1>1, AgreeingIs DEF InnerOf
<1>4. \A p : p \in LeavesOf(K)
               <=> /\ p \in Prefixes(K)
                   /\ (\E h \in K : Upto(h, Len(p)) = p) /\ ~ Forks(K, p)
                   /\ p # <<>> => Upto(p, Len(p) - 1) \in InnerOf(K)
  <2> HIDE DEF K
  <2> QED BY <1>1, AgreeingIs DEF LeavesOf
<1>5. t.inner = InnerOf(K)
  <2>1. ASSUME NEW p \in t.inner PROVE p \in InnerOf(K)
    <3>1. PICK l \in DOMAIN t.leaf : /\ p = Upto(t.leaf[l].key, Len(p)) /\ Len(p) \in 0 .. Nibbles - 1
      BY InnerIs
    <3>2. t.leaf[l].key \in K /\ Len(p) \in 0 .. Nibbles
      BY <1>0, <3>1 DEF KeysOf
    <3> HIDE DEF K
    <3>3. p \in Prefixes(K)
      BY <1>2, <3>1, <3>2
    <3> QED BY <1>3, <3>3 DEF K
  <2>2. ASSUME NEW p \in InnerOf(K) PROVE p \in t.inner
    <3>1. PICK h \in K, n \in 0 .. Nibbles : p = Upto(h, n)
      BY <1>2, <1>3
    <3> QED BY <1>0, <1>3, <3>1, ForksInner
  <2> QED BY <2>1, <2>2
<1>6. ASSUME NEW l \in DOMAIN t.leaf PROVE l \in LeavesOf(K) /\ l = Upto(t.leaf[l].key, Len(l))
  <2> DEFINE k == t.leaf[l].key
             n == Len(l)
  <2>1. /\ k \in HKeys /\ k \in K /\ n \in 0 .. Nibbles /\ l = Upto(k, n) /\ l \notin t.inner
        /\ \A i \in 0 .. n - 1 : Upto(k, i) \in t.inner
    BY DEF TreeOK, LeafOK, KeysOf
  <2>2. ~ Forks(K, l)
    BY <2>1, ForksInner
  <2>3. l \in Prefixes(K)
    <3> HIDE DEF K, k, n
    <3> QED BY <1>2, <2>1
  <2>4. ASSUME l # <<>> PROVE Upto(l, n - 1) \in InnerOf(K)
    <3> HIDE DEF k, n, K
    <3>1. n # 0
      BY <2>1, <2>4, UptoNone
    <3>2. n - 1 \in 0 .. n - 1 /\ n - 1 \in 0 .. n
      BY <1>0, <2>1, <3>1
    <3>3. Upto(l, n - 1) = Upto(k, n - 1)
      BY <2>1, <3>2, UptoUpto
    <3> QED BY <1>5, <2>1, <3>2, <3>3
  <2> HIDE DEF K
  <2> QED BY <1>4, <2>1, <2>2, <2>3, <2>4
<1>7. ASSUME NEW p \in LeavesOf(K) PROVE p \in DOMAIN t.leaf
  <2>0. /\ p \in Prefixes(K) /\ ~ Forks(K, p)
        /\ p # <<>> => Upto(p, Len(p) - 1) \in InnerOf(K)
    <3> HIDE DEF K
    <3> QED BY <1>4
  <2>1. PICK h \in K, n \in 0 .. Nibbles : p = Upto(h, n)
    BY <1>2, <2>0
  <2>2. PICK l \in DOMAIN t.leaf : t.leaf[l].key = h
    BY DEF KeysOf
  <2>3. /\ h \in HKeys /\ Len(l) \in 0 .. Nibbles /\ l = Upto(h, Len(l)) /\ l \notin t.inner
        /\ \A i \in 0 .. Len(l) - 1 : Upto(h, i) \in t.inner
    BY <2>2 DEF TreeOK, LeafOK
  <2> DEFINE c == Len(l)
  <2>4. c \in 0 .. Nibbles /\ n \in Nat /\ l = Upto(h, c) /\ \A i \in 0 .. c - 1 : Upto(h, i) \in t.inner
    BY <2>3, RadixAssumption
  <2> HIDE DEF c, K
  <2>5. CASE n < c
    <3>1. n \in 0 .. c - 1
      BY <1>0, <2>4, <2>5
    <3>2. p \in InnerOf(K)
      BY <1>5, <2>1, <2>4, <3>1
    <3> QED BY <1>3, <2>0, <3>2
  <2>6. CASE c < n
    <3>1. n - 1 \in 0 .. n /\ n - 1 \in 0 .. Nibbles /\ c \in 0 .. n - 1 /\ n # 0
      BY <1>0, <2>4, <2>6
    <3>2. Len(p) = n /\ Len(<<>>) = 0
      BY <2>1, <2>3, UptoIs
    <3>3. Upto(p, n - 1) = Upto(h, n - 1)
      BY <2>1, <2>3, <3>1, UptoUpto
    <3>4. Upto(h, n - 1) \in t.inner
      BY <1>5, <2>0, <3>1, <3>2, <3>3
    <3>5. Upto(h, c) \in t.inner
      BY <2>3, <3>1, <3>4, InnerClosed
    <3> QED BY <2>3, <2>4, <3>5
  <2>7. CASE n = c
    BY <2>1, <2>4, <2>7
  <2> QED BY <1>0, <2>4, <2>5, <2>6, <2>7
<1>8. DOMAIN t.leaf = LeavesOf(K)
  BY <1>6, <1>7
<1> QED
  BY <1>5, <1>6, <1>8 DEF Canonical

(* bbq_htree.h:16, the tree is the one its keys determine.                 *)
THEOREM ShapeIsTheKeys == Spec => []ShapeIsItsKeys
<1>1. DInv => ShapeIsItsKeys
  <2> SUFFICES ASSUME DInv, deleting = NoKey PROVE Canonical(index)
    BY DEF ShapeIsItsKeys
  <2>1. TreeOK(index) /\ \A p \in index.inner : Forks(KeysOf(index), p)
    BY DEF DInv, TableOK, Shaped
  <2> QED BY <2>1, CanonicalTree
<1> QED
  BY <1>1, DictInvariant, PTL


-----------------------------------------------------------------------------
(* The order of hashes.                                                    *)

(* The order is strict.                                                    *)
LEMMA BeforeIsOrder ==
  ASSUME NEW a \in HKeys, NEW b \in HKeys, Before(a, b)
  PROVE  a # b /\ ~ Before(b, a)
<1>1. PICK n \in 1 .. Nibbles : a[n] < b[n] /\ \A m \in 1 .. n - 1 : a[m] = b[m]
  BY DEF Before
<1>2. \A i \in 1 .. Nibbles : a[i] \in Int /\ b[i] \in Int
  BY RadixAssumption DEF HKeys
<1>3. ASSUME NEW m \in 1 .. Nibbles, b[m] < a[m], \A i \in 1 .. m - 1 : b[i] = a[i] PROVE FALSE
  <2>1. n \in Nat /\ m \in Nat /\ Nibbles \in Nat
    BY RadixAssumption
  <2>2. CASE m < n
    <3>1. m \in 1 .. n - 1
      BY <2>1, <2>2
    <3> QED BY <1>1, <1>2, <1>3, <3>1
  <2>3. CASE n < m
    <3>1. n \in 1 .. m - 1
      BY <2>1, <2>3
    <3> QED BY <1>1, <1>2, <1>3, <3>1
  <2>4. CASE n = m
    BY <1>1, <1>2, <1>3, <2>4
  <2> QED BY <2>1, <2>2, <2>3, <2>4
<1>4. a # b
  BY <1>1, <1>2
<1> QED
  BY <1>3, <1>4 DEF Before

(* Two keys part at the first nibble after a path they share.              *)
LEMMA BeforeAt ==
  ASSUME NEW a \in HKeys, NEW b \in HKeys, NEW n \in 0 .. Nibbles - 1,
         Upto(a, n) = Upto(b, n), a[n + 1] < b[n + 1]
  PROVE  Before(a, b)
<1>1. n \in 0 .. Nibbles /\ n + 1 \in 1 .. Nibbles /\ (n + 1) - 1 = n
  BY RadixAssumption
<1>2. \A i \in 1 .. n : a[i] = b[i]
  BY <1>1, UptoSame
<1> QED
  BY <1>1, <1>2 DEF Before

-----------------------------------------------------------------------------
(* The iterator's stack.                                                   *)

(* The hashes an entry <<position, next child>> of the stack stands for.   *)
Coming(t, e) ==
    {h \in KeysOf(t) :
        IF e[1] \in t.inner THEN Upto(h, Len(e[1])) = e[1] /\ h[Len(e[1]) + 1] >= e[2]
        ELSE e[1] \in DOMAIN t.leaf /\ t.leaf[e[1]].key = h}
Waiting(t, s) == UNION {Coming(t, s[n]) : n \in 1 .. Len(s)}
Sorted(t, s) ==
    \A m, n \in 1 .. Len(s) :
        m < n => \A a \in Coming(t, s[n]), b \in Coming(t, s[m]) : Before(a, b)

(* An entry popped.                                                        *)
LEMMA PoppedIs ==
  ASSUME NEW S, NEW s \in Seq(S), s # <<>>, NEW t, Sorted(t, s)
  PROVE  /\ Popped(s) \in Seq(S) /\ Sorted(t, Popped(s)) /\ Top(s) \in S
         /\ Waiting(t, s) = Waiting(t, Popped(s)) \cup Coming(t, Top(s))
         /\ \A a \in Coming(t, Top(s)), b \in Waiting(t, Popped(s)) : Before(a, b)
<1> DEFINE L == Len(s)
           r == Popped(s)
<1>1. L \in Nat /\ L # 0
  BY EmptySeq, LenProperties
<1>2. \A i \in 1 .. L : s[i] \in S
  BY ElementOfSeq
<1>3. r \in Seq(S) /\ Len(r) = L - 1 /\ \A i \in 1 .. L - 1 : r[i] = s[i]
  <2>1. \A i \in 1 .. L - 1 : s[i] \in S /\ i + 1 - 1 = i /\ 1 + i - 1 = i
    BY <1>1, <1>2
  <2>2. L - 1 \in Int /\ 1 \in Int /\ (L - 1) - 1 + 1 = L - 1
    BY <1>1
  <2> HIDE DEF L
  <2>3. /\ SubSeq(s, 1, L - 1) \in Seq(S)
        /\ Len(SubSeq(s, 1, L - 1)) = IF 1 <= L - 1 THEN (L - 1) - 1 + 1 ELSE 0
        /\ \A i \in 1 .. (L - 1) - 1 + 1 : SubSeq(s, 1, L - 1)[i] = s[1 + i - 1]
    BY <2>1, <2>2, SubSeqProperties
  <2>4. Popped(s) = SubSeq(s, 1, L - 1)
    BY DEF Popped, L
  <2> QED BY <1>1, <2>1, <2>2, <2>3, <2>4
<1>4. Top(s) = s[L] /\ L \in 1 .. L /\ \A i \in 1 .. L : i \in 1 .. L - 1 \/ i = L
  BY <1>1 DEF Top
<1>5. \A i \in 1 .. L - 1 : i \in 1 .. L /\ i < L
  BY <1>1
<1> HIDE DEF L, r
<1>6. Sorted(t, r)
  <2>1. \A m, n \in 1 .. L : m < n => \A a \in Coming(t, s[n]), b \in Coming(t, s[m]) : Before(a, b)
    BY DEF Sorted, L
  <2> QED BY <1>3, <1>5, <2>1 DEF Sorted
<1>7. \A a : a \in Waiting(t, r) <=> \E i \in 1 .. L - 1 : a \in Coming(t, s[i])
  BY <1>3 DEF Waiting
<1>8. \A a : a \in Waiting(t, s) <=> \E i \in 1 .. L : a \in Coming(t, s[i])
  BY DEF Waiting, L
<1>9. Waiting(t, s) = Waiting(t, r) \cup Coming(t, Top(s))
  BY <1>4, <1>5, <1>7, <1>8
<1>10. ASSUME NEW a \in Coming(t, Top(s)), NEW b \in Waiting(t, r) PROVE Before(a, b)
  <2>1. PICK i \in 1 .. L - 1 : b \in Coming(t, s[i])
    BY <1>7
  <2> QED BY <1>4, <1>5, <2>1 DEF Sorted, L
<1> QED
  BY <1>2, <1>3, <1>4, <1>6, <1>9, <1>10 DEF r

(* The entries a turn at an interior node pushes.                          *)
Pushed(r, x, y) == r \o <<x, y>>
AllBefore(A, B) == \A a \in A, b \in B : Before(a, b)

(* Two entries pushed, in order.                                           *)
LEMMA PushedIs ==
  ASSUME NEW S, NEW r \in Seq(S), NEW t, Sorted(t, r), NEW x \in S, NEW y \in S,
         AllBefore(Coming(t, x) \cup Coming(t, y), Waiting(t, r)),
         AllBefore(Coming(t, y), Coming(t, x)),
         NEW u, u = Pushed(r, x, y)
  PROVE  /\ u \in Seq(S) /\ Sorted(t, u)
         /\ Waiting(t, u) = Waiting(t, r) \cup Coming(t, x) \cup Coming(t, y)
<1> DEFINE L == Len(r)
           z == <<x, y>>
<1>1. L \in Nat
  BY LenProperties
<1>2. z \in Seq(S) /\ Len(z) = 2 /\ z[1] = x /\ z[2] = y
  OBVIOUS
<1> HIDE DEF L, z
<1>3. /\ u \in Seq(S) /\ Len(u) = L + 2
      /\ \A i \in 1 .. L + 2 : u[i] = IF i <= L THEN r[i] ELSE z[i - L]
  <2>1. /\ r \o z \in Seq(S) /\ Len(r \o z) = L + Len(z)
        /\ \A i \in 1 .. L + Len(z) : (r \o z)[i] = IF i <= L THEN r[i] ELSE z[i - L]
    BY <1>2, ConcatProperties DEF L
  <2>2. u = r \o z
    BY DEF z, Pushed
  <2> QED BY <1>2, <2>1, <2>2
<1>4. \A i \in 1 .. L : i \in 1 .. L + 2 /\ u[i] = r[i]
  <2> TAKE i \in 1 .. L
  <2>1. i \in 1 .. L + 2 /\ i <= L
    BY <1>1
  <2> QED BY <1>3, <2>1
<1>5. u[L + 1] = x /\ u[L + 2] = y /\ L + 1 \in 1 .. L + 2 /\ L + 2 \in 1 .. L + 2
  <2>1. /\ L + 1 \in 1 .. L + 2 /\ L + 2 \in 1 .. L + 2 /\ ~ (L + 1 <= L) /\ ~ (L + 2 <= L)
        /\ (L + 1) - L = 1 /\ (L + 2) - L = 2
    BY <1>1
  <2> QED BY <1>2, <1>3, <2>1
<1>6. \A i \in 1 .. L + 2 : i \in 1 .. L \/ i = L + 1 \/ i = L + 2
  BY <1>1
<1>7. \A a : a \in Waiting(t, r) <=> \E i \in 1 .. L : a \in Coming(t, r[i])
  BY DEF Waiting, L
<1>8. \A a : a \in Waiting(t, u) <=> \E i \in 1 .. L + 2 : a \in Coming(t, u[i])
  BY <1>3 DEF Waiting
<1>9. Waiting(t, u) = Waiting(t, r) \cup Coming(t, x) \cup Coming(t, y)
  BY <1>4, <1>5, <1>6, <1>7, <1>8
<1>10. ASSUME NEW m \in 1 .. L + 2, NEW n \in 1 .. L + 2, m < n,
              NEW a \in Coming(t, u[n]), NEW b \in Coming(t, u[m])
       PROVE  Before(a, b)
  <2>1. CASE n \in 1 .. L
    <3>1. m \in 1 .. L
      BY <1>1, <1>10, <2>1
    <3> QED BY <1>4, <1>10, <2>1, <3>1 DEF Sorted, L
  <2>2. CASE n = L + 1
    <3>1. m \in 1 .. L
      BY <1>1, <1>10, <2>2
    <3>2. b \in Waiting(t, r) /\ a \in Coming(t, x)
      BY <1>4, <1>5, <1>7, <2>2, <3>1
    <3> QED BY <3>2 DEF AllBefore
  <2>3. CASE n = L + 2
    <3>1. a \in Coming(t, y)
      BY <1>5, <2>3
    <3>2. CASE m \in 1 .. L
      <4>1. b \in Waiting(t, r)
        BY <1>4, <1>7, <3>2
      <4> QED BY <3>1, <4>1 DEF AllBefore
    <3>3. CASE m = L + 1
      BY <1>5, <3>1, <3>3 DEF AllBefore
    <3>4. m # L + 2
      BY <1>1, <1>10, <2>3
    <3> QED BY <1>6, <3>2, <3>3, <3>4
  <2> QED BY <1>6, <2>1, <2>2, <2>3
<1>11. Sorted(t, u)
  BY <1>3, <1>10 DEF Sorted
<1> QED
  BY <1>3, <1>9, <1>11


(* Every node's hashes are coming when it is entered at its first child.   *)
LEMMA ComingRoot ==
  ASSUME NEW t, TreeOK(t)
  PROVE  /\ IterStack(t) \in Seq(Nodes(t) \X Nat) /\ Sorted(t, IterStack(t))
         /\ Waiting(t, IterStack(t)) = KeysOf(t)
<1> DEFINE e == << <<>>, 0 >>
<1>1. CASE Nodes(t) = {}
  <2>1. IterStack(t) = <<>> /\ Len(<<>>) = 0 /\ <<>> \in Seq(Nodes(t) \X Nat)
    BY <1>1 DEF IterStack
  <2>2. KeysOf(t) = {}
    BY <1>1 DEF Nodes, KeysOf
  <2>3. 1 .. 0 = {}
    OBVIOUS
  <2> QED BY <2>1, <2>2, <2>3 DEF Sorted, Waiting
<1>2. CASE Nodes(t) # {}
  <2>1. IterStack(t) = <<e>>
    BY <1>2 DEF IterStack
  <2>2. PICK l \in DOMAIN t.leaf : TRUE
    BY <1>2, InnerIs DEF Nodes
  <2>3. \A m \in DOMAIN t.leaf : /\ t.leaf[m].key \in HKeys /\ Len(m) \in 0 .. Nibbles
                                 /\ m = Upto(t.leaf[m].key, Len(m)) /\ m \notin t.inner
                                 /\ \A n \in 0 .. Len(m) - 1 : Upto(t.leaf[m].key, n) \in t.inner
                                 /\ Upto(t.leaf[m].key, 0) = <<>>
    BY UptoNone DEF TreeOK, LeafOK
  <2>4. \A m \in DOMAIN t.leaf : m = <<>> \/ <<>> \in t.inner
    <3> TAKE m \in DOMAIN t.leaf
    <3> DEFINE n == Len(m)
    <3>1. n \in 0 .. Nibbles /\ (n # 0 => 0 \in 0 .. n - 1)
      BY <2>3, RadixAssumption
    <3>2. CASE n = 0
      BY <2>3, <3>2
    <3>3. CASE n # 0
      BY <2>3, <3>1, <3>3
    <3> QED BY <3>2, <3>3
  <2>5. <<>> \in Nodes(t)
    BY <2>2, <2>4 DEF Nodes
  <2>6. Len(<<>>) = 0 /\ 1 \in 1 .. Nibbles
    BY RadixAssumption
  <2>7. \A h \in KeysOf(t) : h \in Coming(t, e)
    <3> TAKE h \in KeysOf(t)
    <3>1. PICK m \in DOMAIN t.leaf : t.leaf[m].key = h
      BY DEF KeysOf
    <3>2. h \in HKeys /\ Upto(h, 0) = <<>>
      BY <2>3, <3>1
    <3>3. h[1] >= 0
      BY <2>6, <3>2 DEF HKeys
    <3>4. CASE <<>> \in t.inner
      BY <2>6, <3>2, <3>3, <3>4 DEF Coming
    <3>5. CASE <<>> \notin t.inner
      BY <2>4, <3>1, <3>5 DEF Coming
    <3> QED BY <3>4, <3>5
  <2>8. Coming(t, e) = KeysOf(t)
    BY <2>7 DEF Coming
  <2>9. e \in Nodes(t) \X Nat
    BY <2>5
  <2> HIDE DEF e
  <2>10. <<e>> \in Seq(Nodes(t) \X Nat) /\ Len(<<e>>) = 1 /\ <<e>>[1] = e
    BY <2>9
  <2>11. \A n : n \in 1 .. 1 <=> n = 1
    OBVIOUS
  <2>12. Waiting(t, <<e>>) = Coming(t, e)
    BY <2>10, <2>11 DEF Waiting
  <2>13. Sorted(t, <<e>>)
    BY <2>10, <2>11 DEF Sorted
  <2> QED BY <2>1, <2>8, <2>10, <2>12, <2>13
<1> QED
  BY <1>1, <1>2

(* A nibble is a natural.                                                  *)
LEMMA NibbleIs ==
  ASSUME NEW h \in HKeys, NEW m \in 1 .. Nibbles
  PROVE  h[m] \in Int /\ h[m] >= 0
<1>1. h[m] \in 0 .. Radix - 1
  BY DEF HKeys
<1> QED
  BY <1>1, RadixAssumption

(* A key that passes an interior node passes one of its children.          *)
LEMMA ChildOfKey ==
  ASSUME NEW t, TreeOK(t), NEW p \in t.inner, NEW h \in KeysOf(t), Upto(h, Len(p)) = p
  PROVE  h[Len(p) + 1] \in Children(t, p)
<1>1. PICK l \in DOMAIN t.leaf : t.leaf[l].key = h
  BY DEF KeysOf
<1>2. l \in Under(t, p)
  BY <1>1, PassesUnder
<1> QED
  BY <1>1, <1>2, ChildOnTheWay

(* An interior node with no child left has nothing to come.                *)
LEMMA ComingNone ==
  ASSUME NEW t, TreeOK(t), NEW p \in t.inner, NEW i, ChildrenFrom(t, p, i) = {}
  PROVE  Coming(t, <<p, i>>) = {}
<1> SUFFICES ASSUME NEW h \in Coming(t, <<p, i>>) PROVE FALSE
  OBVIOUS
<1>1. <<p, i>>[1] = p /\ <<p, i>>[2] = i
  OBVIOUS
<1>2. h \in KeysOf(t) /\ Upto(h, Len(p)) = p /\ h[Len(p) + 1] >= i
  BY <1>1 DEF Coming
<1>3. h[Len(p) + 1] \in Children(t, p)
  BY <1>2, ChildOfKey
<1> QED
  BY <1>2, <1>3 DEF ChildrenFrom

(* Else its first child's come, then those of the children after it.       *)
LEMMA ComingChild ==
  ASSUME NEW t, TreeOK(t), NEW p \in t.inner, NEW i \in Nat, NEW j \in ChildrenFrom(t, p, i),
         \A k \in ChildrenFrom(t, p, i) : j <= k
  PROVE  /\ j + 1 \in Nat /\ Append(p, j) \in Nodes(t)
         /\ Coming(t, <<p, i>>) = Coming(t, <<p, j + 1>>) \cup Coming(t, <<Append(p, j), 0>>)
         /\ \A a \in Coming(t, <<Append(p, j), 0>>), b \in Coming(t, <<p, j + 1>>) : Before(a, b)
<1> DEFINE q == Append(p, j)
           n == Len(p)
<1>1. j \in 0 .. Radix - 1 /\ q \in Nodes(t) /\ j >= i /\ j \in Nat /\ j + 1 \in Nat
  BY RadixAssumption DEF ChildrenFrom, Children
<1>2. n \in 0 .. Nibbles - 1 /\ n + 1 \in 1 .. Nibbles /\ n + 1 \in 0 .. Nibbles /\ n \in 0 .. n + 1
      /\ n \in 0 .. Nibbles /\ n \in 0 .. (n + 1) - 1
  <2>1. n \in 0 .. Nibbles - 1
    BY DEF TreeOK
  <2> HIDE DEF n
  <2> QED BY <2>1, RadixAssumption
<1>3. PICK g \in HKeys : p = Upto(g, n)
  BY InnerIs
<1>4. /\ Len(q) = n + 1
      /\ \A h \in HKeys : Upto(h, n + 1) = q <=> Upto(h, n) = p /\ h[n + 1] = j
  <2>1. p \in Seq(0 .. Radix - 1)
    BY <1>2, <1>3, UptoIs
  <2>2. Len(q) = n + 1
    BY <1>1, <2>1
  <2>3. ASSUME NEW h \in HKeys, Upto(h, n + 1) = q PROVE Upto(h, n) = p /\ h[n + 1] = j
    <3>1. Append(Upto(g, n), j) = Upto(h, n + 1)
      BY <1>3, <2>3
    <3> HIDE DEF q, n
    <3>2. Upto(h, n) = Upto(g, n) /\ h[n + 1] = j
      BY <1>1, <1>2, <3>1, AppendSame, SMTT(60)
    <3> QED BY <1>3, <3>2
  <2>4. ASSUME NEW h \in HKeys, Upto(h, n) = p, h[n + 1] = j PROVE Upto(h, n + 1) = q
    BY <1>2, <2>4, UptoAppend
  <2> QED BY <2>2, <2>3, <2>4
<1>5. KeysOf(t) \subseteq HKeys /\ \A h \in KeysOf(t) : h[n + 1] \in Int
  <2>1. KeysOf(t) \subseteq HKeys
    BY DEF KeysOf, TreeOK, LeafOK
  <2> HIDE DEF n
  <2>2. \A h \in KeysOf(t) : h[n + 1] \in Int
    BY <1>2, <2>1, NibbleIs
  <2> QED BY <2>1, <2>2
<1> HIDE DEF n, q
<1>6. \A h, m : h \in Coming(t, <<p, m>>) <=> h \in KeysOf(t) /\ Upto(h, n) = p /\ h[n + 1] >= m
  BY DEF Coming, n
<1>7. \A h : h \in Coming(t, <<q, 0>>) <=> h \in KeysOf(t) /\ Upto(h, n) = p /\ h[n + 1] = j
  <2>1. CASE q \in t.inner
    <3>1. n + 1 \in 0 .. Nibbles - 1 /\ (n + 1) + 1 \in 1 .. Nibbles
      <4>1. n + 1 \in 0 .. Nibbles - 1
        BY <1>4, <2>1 DEF TreeOK
      <4> QED BY <4>1, RadixAssumption
    <3>2. \A h \in KeysOf(t) : h[(n + 1) + 1] >= 0
      BY <1>5, <3>1, NibbleIs
    <3>3. \A h : h \in Coming(t, <<q, 0>>) <=> h \in KeysOf(t) /\ Upto(h, n + 1) = q /\ h[(n + 1) + 1] >= 0
      BY <1>4, <2>1 DEF Coming
    <3> QED BY <1>4, <1>5, <3>2, <3>3
  <2>2. CASE q \notin t.inner
    <3>1. q \in DOMAIN t.leaf /\ LeafOK(t, q)
      BY <1>1, <2>2 DEF Nodes, TreeOK, q
    <3>2. \A h : h \in Coming(t, <<q, 0>>) <=> h \in KeysOf(t) /\ t.leaf[q].key = h
      BY <2>2, <3>1 DEF Coming
    <3>3. ASSUME NEW h \in KeysOf(t), t.leaf[q].key = h PROVE Upto(h, n + 1) = q
      BY <1>4, <3>1, <3>3 DEF LeafOK
    <3>4. ASSUME NEW h \in KeysOf(t), Upto(h, n + 1) = q PROVE t.leaf[q].key = h
      <4>1. PICK l \in DOMAIN t.leaf : t.leaf[l].key = h
        BY DEF KeysOf
      <4> DEFINE c == Len(l)
      <4>2. /\ h \in HKeys /\ c \in 0 .. Nibbles /\ l = Upto(h, c) /\ l \notin t.inner
            /\ \A m \in 0 .. c - 1 : Upto(h, m) \in t.inner
        BY <4>1 DEF TreeOK, LeafOK
      <4> HIDE DEF c
      <4>3. ~ (n + 1 < c)
        <5>1. n + 1 < c => n + 1 \in 0 .. c - 1
          BY <1>2, <4>2, RadixAssumption
        <5> QED BY <2>2, <3>4, <4>2, <5>1
      <4>4. ~ (c <= n)
        <5>1. ASSUME c <= n PROVE FALSE
          <6>1. c \in 0 .. n
            BY <1>2, <4>2, <5>1, RadixAssumption
          <6>2. Upto(h, n) \in t.inner
            BY <1>4, <3>4, <4>2
          <6>3. Upto(h, c) \in t.inner
            BY <1>2, <4>2, <6>1, <6>2, InnerClosed
          <6> QED BY <4>2, <6>3
        <5> QED BY <5>1
      <4>5. c = n + 1
        BY <1>2, <4>2, <4>3, <4>4, RadixAssumption
      <4> QED BY <3>4, <4>1, <4>2, <4>5
    <3> QED BY <1>4, <1>5, <3>2, <3>3, <3>4
  <2> QED BY <2>1, <2>2
<1>8. \A h \in KeysOf(t) : Upto(h, n) = p /\ h[n + 1] >= i => h[n + 1] = j \/ h[n + 1] >= j + 1
  <2> TAKE h \in KeysOf(t)
  <2> HAVE Upto(h, n) = p /\ h[n + 1] >= i
  <2>1. h[n + 1] \in Children(t, p)
    BY ChildOfKey DEF n
  <2>2. j <= h[n + 1]
    BY <2>1 DEF ChildrenFrom
  <2> QED BY <1>1, <1>5, <2>2
<1>9. Coming(t, <<p, i>>) = Coming(t, <<p, j + 1>>) \cup Coming(t, <<q, 0>>)
  <2>1. \A h \in KeysOf(t) : h[n + 1] >= j + 1 \/ h[n + 1] = j => h[n + 1] >= i
    BY <1>1, <1>5
  <2> QED BY <1>6, <1>7, <1>8, <2>1
<1>10. ASSUME NEW a \in Coming(t, <<q, 0>>), NEW b \in Coming(t, <<p, j + 1>>) PROVE Before(a, b)
  <2>1. /\ a \in HKeys /\ b \in HKeys /\ Upto(a, n) = Upto(b, n)
        /\ a[n + 1] = j /\ b[n + 1] >= j + 1 /\ b[n + 1] \in Int
    BY <1>5, <1>6, <1>7
  <2>2. a[n + 1] < b[n + 1]
    BY <1>1, <2>1
  <2> QED BY <1>2, <2>1, <2>2, BeforeAt
<1> QED
  BY <1>1, <1>9, <1>10 DEF q


-----------------------------------------------------------------------------
(* The iterator.                                                           *)

(* The entries left of the chain of the entry to come.                     *)
RestOf(H, t, c) ==
    IF c = NoKey THEN {}
    ELSE LET ch == Chain(t, H[c])
         IN {ch[j][1] : j \in {m \in 1 .. Len(ch) : m >= FoundIn(ch, c)}}
GivenOf(g) == {g[n] : n \in 1 .. Len(g)}
Then(g, k) == Append(g, k)
After(ch, n) == IF n < Len(ch) THEN ch[n + 1][1] ELSE NoKey
StillIn(H, t, s) == {k \in KeysIn(H, t) : H[k] \in Waiting(t, s)}
Upper(H, a, b) == H[a] = H[b] \/ Before(H[a], H[b])
UpTo(H, g, c) == \A k \in GivenOf(g) : Upper(H, k, c)
InOrder(H, g) ==
    \A m, n \in 1 .. Len(g) : m < n => g[m] # g[n] /\ Upper(H, g[m], g[n])

(* What has been given, what is left of a chain and what is in the stack   *)
(* are the entries, in the order of their hashes.                          *)
IterOK(H, t, s, c, g) ==
    /\ s \in Seq(Nodes(t) \X Nat) /\ Sorted(t, s)
    /\ g \in Seq(Keys) /\ InOrder(H, g)
    /\ c \in KeysIn(H, t) \cup {NoKey}
    /\ \A a \in Waiting(t, s), k \in GivenOf(g) \cup RestOf(H, t, c) : Before(H[k], a)
    /\ c # NoKey => UpTo(H, g, c)
    /\ GivenOf(g) \cap RestOf(H, t, c) = {}
    /\ GivenOf(g) \cup RestOf(H, t, c) \cup StillIn(H, t, s) = KeysIn(H, t)

(* The entry at a place of a chain.                                        *)
LEMMA ChainKey ==
  ASSUME NEW H \in [Keys -> HKeys], NEW t, TableOK(H, t), NEW h \in HKeys,
         NEW ch, ch = Chain(t, h), NEW j \in 1 .. Len(ch), NEW k, k = ch[j][1]
  PROVE  k \in KeysIn(H, t) /\ k \in Keys /\ k # NoKey /\ H[k] = h /\ FoundIn(ch, k) = j
<1>1. EntriesOK(H, h, ch)
  BY EntriesOfChain
<1>2. ch[j] \in Keys \X Vals
  BY <1>1, ElementOfSeq DEF EntriesOK
<1>3. k \in Keys /\ k # NoKey
  BY <1>2, DictAssumption
<1>4. H[k] = h
  BY <1>1 DEF EntriesOK
<1>5. FoundIn(ch, k) = j /\ FoundIn(ch, k) # 0
  BY <1>1, FoundIs
<1> QED
  BY <1>3, <1>4, <1>5 DEF KeysIn

(* What is left once the entry to come is given.                           *)
LEMMA RestIs ==
  ASSUME NEW H \in [Keys -> HKeys], NEW t, TableOK(H, t), NEW c \in KeysIn(H, t),
         NEW ch, ch = Chain(t, H[c]), NEW n, n = FoundIn(ch, c),
         NEW d, d = IF n < Len(ch) THEN ch[n + 1][1] ELSE NoKey
  PROVE  /\ c \in Keys /\ c # NoKey /\ n \in 1 .. Len(ch) /\ ch[n][1] = c
         /\ c \in RestOf(H, t, c) /\ RestOf(H, t, d) = RestOf(H, t, c) \ {c}
         /\ d \in KeysIn(H, t) \cup {NoKey} /\ (d # NoKey => H[d] = H[c])
         /\ \A k \in RestOf(H, t, c) : k \in KeysIn(H, t) /\ H[k] = H[c]
<1> DEFINE L == Len(ch)
           K(j) == ch[j][1]
<1>1. c \in Keys /\ c # NoKey /\ H[c] \in HKeys /\ n # 0
  BY DictAssumption DEF KeysIn
<1>2. EntriesOK(H, H[c], ch)
  BY <1>1, EntriesOfChain
<1>3. n \in 1 .. Len(ch) /\ ch[n][1] = c
  BY <1>1, <1>2, FoundIs
<1>4. Len(ch) \in Nat
  BY <1>2, LenProperties DEF EntriesOK
<1>5. \A j \in 1 .. L : K(j) \in KeysIn(H, t) /\ K(j) # NoKey /\ H[K(j)] = H[c] /\ FoundIn(ch, K(j)) = j
  BY <1>1, ChainKey
<1>6. RestOf(H, t, c) = {K(j) : j \in {m \in 1 .. L : m >= n}}
  BY <1>1 DEF RestOf
<1>7. n \in 1 .. L /\ L \in Nat /\ K(n) = c /\ n \in Nat
  BY <1>3, <1>4
<1>8. d = IF n < L THEN K(n + 1) ELSE NoKey
  OBVIOUS
<1> HIDE DEF L, K
<1>9. \A i, j \in 1 .. L : K(i) = K(j) => i = j
  BY <1>5
<1>10. ASSUME n < L
       PROVE  /\ d \in KeysIn(H, t) \cup {NoKey} /\ (d # NoKey => H[d] = H[c])
              /\ RestOf(H, t, d) = RestOf(H, t, c) \ {c}
  <2>1. n + 1 \in 1 .. L
    BY <1>7, <1>10
  <2>2. d \in KeysIn(H, t) /\ d # NoKey /\ H[d] = H[c] /\ FoundIn(ch, d) = n + 1
    BY <1>5, <1>8, <1>10, <2>1
  <2>3. RestOf(H, t, d) = {K(j) : j \in {m \in 1 .. L : m >= n + 1}}
    BY <2>2 DEF RestOf, K, L
  <2>4. \A j \in 1 .. L : j >= n + 1 <=> j >= n /\ j # n
    BY <1>7
  <2>5. \A j \in 1 .. L : j >= n + 1 <=> j >= n /\ K(j) # c
    BY <1>7, <1>9, <2>4
  <2>6. RestOf(H, t, d) = RestOf(H, t, c) \ {c}
    <3>1. ASSUME NEW x \in RestOf(H, t, d) PROVE x \in RestOf(H, t, c) \ {c}
      BY <1>6, <2>3, <2>5, <3>1
    <3>2. ASSUME NEW x \in RestOf(H, t, c) \ {c} PROVE x \in RestOf(H, t, d)
      BY <1>6, <2>3, <2>5, <3>2
    <3> QED BY <3>1, <3>2
  <2> QED BY <2>2, <2>6
<1>11. ASSUME ~ (n < L)
       PROVE  /\ d \in KeysIn(H, t) \cup {NoKey} /\ (d # NoKey => H[d] = H[c])
              /\ RestOf(H, t, d) = RestOf(H, t, c) \ {c}
  <2>1. d = NoKey
    BY <1>8, <1>11
  <2>2. \A j \in 1 .. L : j >= n => j = n
    BY <1>7, <1>11
  <2>3. RestOf(H, t, d) = {}
    BY <2>1 DEF RestOf
  <2>4. RestOf(H, t, c) \ {c} = {}
    BY <1>6, <1>7, <2>2
  <2> QED BY <2>1, <2>3, <2>4
<1>12. c \in RestOf(H, t, c)
  BY <1>6, <1>7
<1>13. \A k \in RestOf(H, t, c) : k \in KeysIn(H, t) /\ H[k] = H[c]
  BY <1>5, <1>6
<1> QED
  BY <1>1, <1>3, <1>10, <1>11, <1>12, <1>13

(* An entry is given.                                                      *)
LEMMA GivenIs ==
  ASSUME NEW H, NEW g \in Seq(Keys), InOrder(H, g), NEW k \in Keys, k \notin GivenOf(g),
         UpTo(H, g, k), NEW f, f = Then(g, k)
  PROVE  f \in Seq(Keys) /\ InOrder(H, f) /\ GivenOf(f) = GivenOf(g) \cup {k}
<1> DEFINE L == Len(g)
<1>1. L \in Nat
  BY LenProperties
<1>2. /\ f \in Seq(Keys) /\ Len(f) = L + 1 /\ f[L + 1] = k
      /\ \A i \in 1 .. L : f[i] = g[i]
  BY AppendProperties DEF Then
<1>3. \A i : i \in 1 .. L + 1 <=> i \in 1 .. L \/ i = L + 1
  BY <1>1
<1>4. \A i \in 1 .. L : i < L + 1 /\ ~ (L + 1 < i)
  BY <1>1
<1>5. \A x : x \in GivenOf(g) <=> \E i \in 1 .. L : x = g[i]
  BY DEF GivenOf
<1>6. \A i, j \in 1 .. L : i < j => g[i] # g[j] /\ Upper(H, g[i], g[j])
  BY DEF InOrder
<1>7. ~ (L + 1 < L + 1)
  BY <1>1
<1> HIDE DEF L
<1>8. \A i \in 1 .. L : g[i] # k /\ Upper(H, g[i], k)
  BY <1>5 DEF UpTo
<1>9. \A i, j \in 1 .. L + 1 : i < j => f[i] # f[j] /\ Upper(H, f[i], f[j])
  BY <1>2, <1>3, <1>4, <1>6, <1>7, <1>8
<1>10. GivenOf(f) = GivenOf(g) \cup {k}
  <2>1. \A x : x \in GivenOf(f) <=> \E i \in 1 .. L + 1 : x = f[i]
    BY <1>2 DEF GivenOf
  <2> QED BY <1>2, <1>3, <1>5, <2>1
<1> QED
  BY <1>2, <1>9, <1>10 DEF InOrder

(* bbq_dict_next gives the entry to come and keeps the one after it.       *)
LEMMA GiveOK ==
  ASSUME NEW H \in [Keys -> HKeys], NEW t, TableOK(H, t), NEW s, NEW c, NEW g,
         IterOK(H, t, s, c, g), c # NoKey,
         NEW ch, ch = Chain(t, H[c]), NEW n, n = FoundIn(ch, c),
         NEW d, d = After(ch, n), NEW f, f = Then(g, c)
  PROVE  ch[n][1] = c /\ c \in Keys /\ IterOK(H, t, s, d, f)
<1> DEFINE R == RestOf(H, t, c)
           Q == RestOf(H, t, d)
           G == GivenOf(g)
<1>1. c \in KeysIn(H, t)
  BY DEF IterOK
<1>2. /\ c \in Keys /\ n \in 1 .. Len(ch) /\ ch[n][1] = c
      /\ c \in R /\ Q = R \ {c}
      /\ d \in KeysIn(H, t) \cup {NoKey} /\ (d # NoKey => H[d] = H[c])
  <2>1. d = IF n < Len(ch) THEN ch[n + 1][1] ELSE NoKey
    BY DEF After
  <2> QED BY <1>1, <2>1, RestIs
<1>3. /\ s \in Seq(Nodes(t) \X Nat) /\ Sorted(t, s)
      /\ g \in Seq(Keys) /\ InOrder(H, g)
      /\ \A a \in Waiting(t, s), k \in G \cup R : Before(H[k], a)
      /\ UpTo(H, g, c)
      /\ G \cap R = {}
      /\ G \cup R \cup StillIn(H, t, s) = KeysIn(H, t)
  BY DEF IterOK
<1>4. f \in Seq(Keys) /\ InOrder(H, f) /\ GivenOf(f) = G \cup {c}
  <2>1. c \notin GivenOf(g)
    BY <1>2, <1>3
  <2>2. g \in Seq(Keys) /\ InOrder(H, g) /\ c \in Keys
    BY <1>2, <1>3
  <2>3. UpTo(H, g, c)
    BY <1>3
  <2>5. f \in Seq(Keys) /\ InOrder(H, f) /\ GivenOf(f) = GivenOf(g) \cup {c}
    <3> HIDE DEF R, Q, G
    <3>1. g \in Seq(Keys)
      BY <2>2
    <3>2. InOrder(H, g)
      BY <2>2
    <3>3. c \in Keys
      BY <2>2
    <3> QED BY <2>1, <2>3, <3>1, <3>2, <3>3, GivenIs
  <2> QED BY <2>5
<1> HIDE DEF R, Q, G
<1>5. GivenOf(f) \cap Q = {} /\ GivenOf(f) \cup Q = G \cup R
  BY <1>2, <1>3, <1>4
<1>6. d # NoKey => UpTo(H, f, d)
  <2>1. ASSUME d # NoKey, NEW k \in GivenOf(f) PROVE Upper(H, k, d)
    <3>1. H[d] = H[c]
      BY <1>2, <2>1
    <3>2. CASE k = c
      BY <3>1, <3>2 DEF Upper
    <3>3. CASE k \in G
      BY <1>3, <3>1, <3>3, SMTT(60) DEF Upper, UpTo, G
    <3> QED BY <1>4, <3>2, <3>3
  <2> QED BY <2>1 DEF UpTo
<1> QED
  BY <1>2, <1>3, <1>4, <1>5, <1>6 DEF IterOK, Q

(* bbq_htree_next comes to a leaf: its chain's first entry is the one to   *)
(* come.                                                                   *)
LEMMA EnterLeaf ==
  ASSUME NEW H \in [Keys -> HKeys], NEW t, TableOK(H, t), NEW s, NEW g,
         IterOK(H, t, s, NoKey, g), s # <<>>,
         NEW p, p = Top(s)[1], p \in DOMAIN t.leaf,
         NEW ch, ch = t.leaf[p].value, NEW k, k = ch[1][1], NEW r, r = Popped(s)
  PROVE  IterOK(H, t, r, k, g) /\ k # NoKey /\ k \in Keys /\ ch = Chain(t, H[k]) /\ FoundIn(ch, k) = 1
<1> DEFINE h == t.leaf[p].key
<1>1. TreeOK(t) /\ t.leaf[p] \in Held(t) /\ h \in HKeys /\ p \notin t.inner /\ h \in KeysOf(t)
  BY DEF TableOK, TreeOK, LeafOK, Held, KeysOf
<1>2. ch # <<>> /\ EntriesOK(H, h, ch) /\ Chain(t, h) = ch
  BY <1>1, ChainIs DEF TableOK
<1>3. /\ s \in Seq(Nodes(t) \X Nat) /\ Sorted(t, s)
      /\ g \in Seq(Keys) /\ InOrder(H, g)
      /\ \A a \in Waiting(t, s), x \in GivenOf(g) : Before(H[x], a)
      /\ GivenOf(g) \cup StillIn(H, t, s) = KeysIn(H, t)
  BY DEF IterOK, RestOf
<1>4. Coming(t, Top(s)) = {h}
  <2>1. \A x : x \in Coming(t, Top(s)) <=> x \in KeysOf(t) /\ h = x
    BY <1>1 DEF Coming
  <2> QED BY <1>1, <2>1
<1> HIDE DEF h
<1>5. 1 \in 1 .. Len(ch) /\ Len(ch) \in Nat
  <2> DEFINE L == Len(ch)
  <2>1. L \in Nat /\ L # 0
    BY <1>2, LenProperties, EmptySeq DEF EntriesOK
  <2> HIDE DEF L
  <2>2. 1 \in 1 .. L /\ L \in Nat
    BY <2>1
  <2> QED BY <2>2 DEF L
<1>6. k \in KeysIn(H, t) /\ k \in Keys /\ k # NoKey /\ H[k] = h /\ FoundIn(ch, k) = 1
  BY <1>1, <1>2, <1>5, ChainKey
<1>7. /\ r \in Seq(Nodes(t) \X Nat) /\ Sorted(t, r)
      /\ Waiting(t, s) = Waiting(t, r) \cup {h}
      /\ \A b \in Waiting(t, r) : Before(h, b)
  <2> DEFINE S == Nodes(t) \X Nat
  <2>1. s \in Seq(S) /\ Sorted(t, s)
    BY <1>3
  <2> HIDE DEF S
  <2>2. /\ Popped(s) \in Seq(S) /\ Sorted(t, Popped(s))
        /\ Waiting(t, s) = Waiting(t, Popped(s)) \cup Coming(t, Top(s))
        /\ \A a \in Coming(t, Top(s)), b \in Waiting(t, Popped(s)) : Before(a, b)
    BY <2>1, PoppedIs
  <2> QED BY <1>4, <2>2 DEF S
<1>8. ~ Before(h, h)
  BY <1>1, BeforeIsOrder
<1>9. RestOf(H, t, k) = {x \in KeysIn(H, t) : H[x] = h}
  <2> DEFINE L == Len(ch)
             K(j) == ch[j][1]
  <2>1. RestOf(H, t, k) = {K(j) : j \in {m \in 1 .. L : m >= 1}}
    BY <1>2, <1>6 DEF RestOf
  <2>2. \A j \in 1 .. L : K(j) \in KeysIn(H, t) /\ H[K(j)] = h
    BY <1>1, <1>2, ChainKey
  <2>3. \A x \in KeysIn(H, t) : H[x] = h => FoundIn(ch, x) \in 1 .. L /\ K(FoundIn(ch, x)) = x
    BY <1>2, FoundIs DEF KeysIn
  <2>4. \A m \in 1 .. L : m >= 1
    BY <1>5
  <2> HIDE DEF L, K
  <2> QED BY <2>1, <2>2, <2>3, <2>4, SMTT(60)
<1>10. RestOf(H, t, k) \cup StillIn(H, t, r) = StillIn(H, t, s)
  BY <1>7, <1>9 DEF StillIn
<1>11. \A x \in GivenOf(g) : Before(H[x], h)
  BY <1>3, <1>7
<1>12. UpTo(H, g, k)
  BY <1>6, <1>11 DEF UpTo, Upper
<1>13. GivenOf(g) \cap RestOf(H, t, k) = {}
  BY <1>8, <1>9, <1>11
<1>14. \A a \in Waiting(t, r), x \in GivenOf(g) \cup RestOf(H, t, k) : Before(H[x], a)
  BY <1>3, <1>7, <1>9
<1>15. GivenOf(g) \cup RestOf(H, t, k) \cup StillIn(H, t, r) = KeysIn(H, t)
  BY <1>3, <1>10, SMTT(60)
<1>16. IterOK(H, t, r, k, g)
  BY <1>3, <1>6, <1>7, <1>12, <1>13, <1>14, <1>15 DEF IterOK
<1> QED
  BY <1>2, <1>6, <1>16

(* A turn at an interior node: the same hashes are waiting, in order.      *)
LEMMA AdvancedIs ==
  ASSUME NEW t, TreeOK(t), NEW s \in Seq(Nodes(t) \X Nat), s # <<>>, Sorted(t, s),
         Top(s)[1] \in t.inner, NEW u, u = Advanced(t, s)
  PROVE  u \in Seq(Nodes(t) \X Nat) /\ Sorted(t, u) /\ Waiting(t, u) = Waiting(t, s)
<1> DEFINE S == Nodes(t) \X Nat
           r == Popped(s)
           p == Top(s)[1]
           i == Top(s)[2]
           cs == ChildrenFrom(t, p, i)
           j == CHOOSE e \in cs : \A k \in cs : e <= k
           x == <<p, j + 1>>
           y == <<Append(p, j), 0>>
<1>1. /\ r \in Seq(S) /\ Sorted(t, r) /\ Top(s) \in S
      /\ Waiting(t, s) = Waiting(t, r) \cup Coming(t, Top(s))
      /\ \A a \in Coming(t, Top(s)), b \in Waiting(t, r) : Before(a, b)
  BY PoppedIs
<1>2. Top(s) = <<p, i>> /\ i \in Nat /\ p \in Nodes(t)
  BY <1>1
<1>3. u = IF cs = {} THEN r ELSE r \o <<x, y>>
  BY DEF Advanced
<1>4. ASSUME cs = {} PROVE u \in Seq(S) /\ Sorted(t, u) /\ Waiting(t, u) = Waiting(t, s)
  <2>1. Coming(t, <<p, i>>) = {}
    BY <1>4, ComingNone
  <2> HIDE DEF r, p, i, S
  <2> QED BY <1>1, <1>2, <1>3, <1>4, <2>1
<1>5. ASSUME cs # {} PROVE u \in Seq(S) /\ Sorted(t, u) /\ Waiting(t, u) = Waiting(t, s)
  <2>1. cs \in SUBSET Nat
    BY RadixAssumption DEF ChildrenFrom, Children
  <2>2. j \in cs /\ \A k \in cs : j <= k
    <3>1. \E e \in cs : \A k \in cs : e <= k
      <4> HIDE DEF cs
      <4> QED BY <1>5, <2>1, Least
    <3> HIDE DEF cs
    <3> QED BY <3>1
  <2> HIDE DEF j
  <2>3. /\ j + 1 \in Nat /\ Append(p, j) \in Nodes(t)
        /\ Coming(t, <<p, i>>) = Coming(t, x) \cup Coming(t, y)
        /\ \A a \in Coming(t, y), b \in Coming(t, x) : Before(a, b)
    BY <1>2, <2>2, ComingChild
  <2>4. x \in S /\ y \in S
    BY <1>2, <2>3
  <2>5. u = Pushed(r, x, y)
    BY <1>3, <1>5 DEF Pushed
  <2> HIDE DEF x, y, S, r, p, i, cs
  <2>6. AllBefore(Coming(t, x) \cup Coming(t, y), Waiting(t, r))
    <3> SUFFICES ASSUME NEW a \in Coming(t, x) \cup Coming(t, y), NEW b \in Waiting(t, r)
                 PROVE  Before(a, b)
      BY DEF AllBefore
    <3>1. a \in Coming(t, Top(s))
      BY <1>2, <2>3
    <3> QED BY <1>1, <3>1
  <2>7. /\ u \in Seq(S) /\ Sorted(t, u)
        /\ Waiting(t, u) = Waiting(t, r) \cup Coming(t, x) \cup Coming(t, y)
    <3>1. AllBefore(Coming(t, y), Coming(t, x))
      BY <2>3 DEF AllBefore
    <3>2. r \in Seq(S) /\ Sorted(t, r)
      BY <1>1
    <3> QED BY <2>4, <2>5, <2>6, <3>1, <3>2, PushedIs
  <2> QED BY <1>1, <1>2, <2>3, <2>7
<1> QED
  BY <1>4, <1>5

(* ... so what the iterator owes is unchanged.                             *)
LEMMA AdvanceOK ==
  ASSUME NEW H, NEW t, TableOK(H, t), NEW s, NEW c, NEW g, IterOK(H, t, s, c, g), s # <<>>,
         Top(s)[1] \in t.inner, NEW u, u = Advanced(t, s)
  PROVE  IterOK(H, t, u, c, g)
<1>1. u \in Seq(Nodes(t) \X Nat) /\ Sorted(t, u) /\ Waiting(t, u) = Waiting(t, s)
  BY AdvancedIs DEF TableOK, IterOK
<1>2. StillIn(H, t, u) = StillIn(H, t, s)
  BY <1>1 DEF StillIn
<1> QED
  BY <1>1, <1>2 DEF IterOK

(* bbq_dict_iter_init: everything is still ahead.                          *)
LEMMA StartOK ==
  ASSUME NEW H \in [Keys -> HKeys], NEW t, TableOK(H, t)
  PROVE  IterOK(H, t, IterStack(t), NoKey, <<>>)
<1> DEFINE s == IterStack(t)
<1>0. TreeOK(t)
  BY DEF TableOK
<1>1. s \in Seq(Nodes(t) \X Nat) /\ Sorted(t, s) /\ Waiting(t, s) = KeysOf(t)
  BY <1>0, ComingRoot
<1>2. \A k \in KeysIn(H, t) : H[k] \in KeysOf(t)
  <2> TAKE k \in KeysIn(H, t)
  <2> DEFINE c == Chain(t, H[k])
  <2>1. k \in Keys /\ H[k] \in HKeys /\ FoundIn(c, k) # 0
    BY DEF KeysIn
  <2>2. EntriesOK(H, H[k], c)
    BY <2>1, EntriesOfChain
  <2>3. c # <<>>
    <3> HIDE DEF c
    <3>1. FoundIn(c, k) \in 1 .. Len(c)
      BY <2>1, <2>2, FoundIs
    <3>2. Len(<<>>) = 0 /\ 1 .. 0 = {}
      OBVIOUS
    <3> QED BY <3>1, <3>2
  <2>4. Leaf(H[k], c) \in Held(t) /\ Leaf(H[k], c).key = H[k]
    BY <1>0, <2>1, <2>3, ChainIs, LeafRecord
  <2> QED BY <2>4, KeysOfHeld
<1>3. GivenOf(<<>>) = {} /\ InOrder(H, <<>>) /\ <<>> \in Seq(Keys)
  <2>1. Len(<<>>) = 0 /\ 1 .. 0 = {} /\ <<>> \in Seq(Keys)
    OBVIOUS
  <2> QED BY <2>1 DEF GivenOf, InOrder
<1>4. RestOf(H, t, NoKey) = {}
  BY DEF RestOf
<1>5. StillIn(H, t, s) = KeysIn(H, t)
  BY <1>1, <1>2 DEF StillIn
<1> HIDE DEF s
<1> QED
  BY <1>1, <1>3, <1>4, <1>5 DEF IterOK, s

-----------------------------------------------------------------------------
(* The iterator's invariant.                                               *)

(* Between calls an iterator whose generation holds owes exactly what it   *)
(* has not given, and its tree's generation holds too.                     *)
IterInv ==
    /\ cur \in Keys \cup {NoKey} /\ given \in Seq(Keys)
    /\ freshTree \in BOOLEAN /\ freshDict \in BOOLEAN /\ walking \in BOOLEAN
    /\ walking => freshDict /\ cur = NoKey
    /\ freshDict /\ deleting = NoKey => freshTree /\ IterOK(hash, index, stack, cur, given)

(* A change of the dictionary ends the iteration.                          *)
LEMMA ForgottenStep ==
  ASSUME IterInv, DictMutated, freshTree' \in BOOLEAN, walking' = FALSE
  PROVE  IterInv'
<1>1. <<>> \in Seq(Keys)
  OBVIOUS
<1> QED
  BY <1>1 DEF DictMutated, IterInv

(* A delete under way ends it too.                                         *)
LEMMA UnderWayStep ==
  ASSUME IterInv, UNCHANGED <<cur, given, freshDict>>, freshTree' \in BOOLEAN,
         walking' = FALSE, deleting' # NoKey
  PROVE  IterInv'
BY DEF IterInv

(* bbq_dict_next inside a chain.                                           *)
LEMMA NextInChainStep ==
  ASSUME DInv, IterInv, NextInChain
  PROVE  IterInv'
<1> DEFINE ch == Chain(index, hash[cur])
           n == Found(index, cur)
           d == After(ch, n)
           f == Then(given, cur)
<1>1. /\ hash \in [Keys -> HKeys] /\ TableOK(hash, index) /\ IterOK(hash, index, stack, cur, given)
      /\ cur # NoKey /\ freshTree
  BY DInvIs DEF DInv, IterInv, NextInChain, Idle
<1>2. n = FoundIn(ch, cur)
  BY FoundLink
<1>3. /\ UNCHANGED <<deleting, stack, freshTree, freshDict, walking>> /\ UNCHANGED <<hash, index>>
      /\ given' = Then(given, ch[n][1]) /\ cur' = d /\ ~ walking
  BY DEF NextInChain, Give, dict, Idle, Then, After
<1>4. ch[n][1] = cur /\ cur \in Keys /\ IterOK(hash, index, stack, d, f)
  <2> HIDE DEF ch, n, d, f
  <2>1. ch = Chain(index, hash[cur]) /\ d = After(ch, n) /\ f = Then(given, cur)
    BY DEF ch, d, f
  <2> QED BY <1>1, <1>2, <2>1, GiveOK
<1>5. given' = f
  <2> HIDE DEF ch, n
  <2> QED BY <1>3, <1>4
<1> HIDE DEF ch, n, d, f
<1>6. IterOK(hash', index', stack', cur', given')
  BY <1>3, <1>4, <1>5
<1>7. cur' \in Keys \cup {NoKey} /\ given' \in Seq(Keys)
  <2>1. \A k \in KeysIn(hash', index') : k \in Keys
    BY DEF KeysIn
  <2> QED BY <1>6, <2>1 DEF IterOK
<1> QED
  BY <1>1, <1>3, <1>6, <1>7 DEF IterInv

(* bbq_htree_next at an interior node.                                     *)
LEMMA WalkInnerStep ==
  ASSUME DInv, IterInv, WalkInner
  PROVE  IterInv'
<1> DEFINE u == Advanced(index, stack)
<1>1. /\ TableOK(hash, index) /\ IterOK(hash, index, stack, cur, given) /\ freshTree
      /\ stack # <<>> /\ Top(stack)[1] \in index.inner
  BY DEF DInv, IterInv, WalkInner
<1>2. /\ UNCHANGED <<deleting, cur, freshTree, freshDict, walking, given>> /\ UNCHANGED <<hash, index>>
      /\ stack' = u
  BY DEF WalkInner, dict
<1>3. IterOK(hash, index, u, cur, given)
  <2> HIDE DEF u
  <2>1. u = Advanced(index, stack)
    BY DEF u
  <2> QED BY <1>1, <2>1, AdvanceOK
<1> HIDE DEF u
<1>4. IterOK(hash', index', stack', cur', given')
  BY <1>2, <1>3
<1> QED
  BY <1>1, <1>2, <1>4 DEF IterInv

(* bbq_htree_next at a leaf: its chain's first entry is given.             *)
LEMMA WalkLeafStep ==
  ASSUME DInv, IterInv, WalkLeaf
  PROVE  IterInv'
<1> DEFINE p == Top(stack)[1]
           ch == index.leaf[p].value
           k == ch[1][1]
           r == Popped(stack)
           d == After(ch, 1)
           f == Then(given, k)
<1>1. /\ hash \in [Keys -> HKeys] /\ TableOK(hash, index)
      /\ IterOK(hash, index, stack, NoKey, given) /\ freshTree /\ freshDict
      /\ stack # <<>> /\ p \in DOMAIN index.leaf
  BY DInvIs DEF DInv, IterInv, WalkLeaf
<1>2. /\ UNCHANGED <<deleting, freshTree, freshDict>> /\ UNCHANGED <<hash, index>>
      /\ stack' = r /\ given' = f /\ cur' = d /\ walking' = FALSE
  BY DEF WalkLeaf, Give, dict, Then, After
<1>3. IterOK(hash, index, r, k, given) /\ k # NoKey /\ ch = Chain(index, hash[k]) /\ FoundIn(ch, k) = 1
  <2> HIDE DEF p, ch, k, r
  <2>1. p = Top(stack)[1] /\ ch = index.leaf[p].value /\ k = ch[1][1] /\ r = Popped(stack)
    BY DEF p, ch, k, r
  <2> QED BY <1>1, <2>1, EnterLeaf
<1>4. IterOK(hash, index, r, d, f)
  <2> HIDE DEF ch, k, r, d, f
  <2> DEFINE n == 1
  <2>1. d = After(ch, n) /\ f = Then(given, k) /\ n = FoundIn(ch, k)
    BY <1>3 DEF d, f
  <2> HIDE DEF n
  <2> QED BY <1>1, <1>3, <2>1, GiveOK
<1> HIDE DEF p, ch, k, r, d, f
<1>5. IterOK(hash', index', stack', cur', given')
  BY <1>2, <1>4
<1>6. cur' \in Keys \cup {NoKey} /\ given' \in Seq(Keys)
  <2>1. \A x \in KeysIn(hash', index') : x \in Keys
    BY DEF KeysIn
  <2> QED BY <1>5, <2>1 DEF IterOK
<1> QED
  BY <1>1, <1>2, <1>5, <1>6 DEF IterInv

(* The invariant is inductive.                                             *)
LEMMA InitIterInv == Init => IterInv
<1>1. <<>> \in Seq(Keys)
  OBVIOUS
<1> QED
  BY <1>1 DEF Init, IterInv

(* Every step keeps it.                                                    *)
LEMMA StepIterInv == DInv /\ IterInv /\ [Next]_vars => IterInv'
<1> SUFFICES ASSUME DInv, IterInv, [Next]_vars PROVE IterInv'
  OBVIOUS
<1>0. freshTree \in BOOLEAN /\ (deleting # NoKey => ~walking) /\ walking \in BOOLEAN
  BY DEF IterInv, DInv
<1>1. ASSUME NEW k \in Keys, NEW v \in Vals, Overwrite(k, v) PROVE IterInv'
  BY <1>0, <1>1, ForgottenStep DEF Overwrite, Idle
<1>2. ASSUME NEW k \in Keys, NEW v \in Vals, PutNew(k, v) PROVE IterInv'
  <2>1. DictMutated /\ freshTree' = FALSE /\ walking' = FALSE
    BY <1>0, <1>2 DEF PutNew, TreeMutated, Idle
  <2> QED BY <2>1, ForgottenStep
<1>3. ASSUME NEW k \in Keys, PutRefused(k) PROVE IterInv'
  BY <1>3 DEF PutRefused, iter, IterInv
<1>4. ASSUME NEW k \in Keys, DeleteFromChain(k) PROVE IterInv'
  <2>1. DictMutated /\ freshTree' \in BOOLEAN /\ walking' = FALSE
    BY <1>0, <1>4 DEF DeleteFromChain, Released, Idle
  <2> QED BY <2>1, ForgottenStep
<1>5. ASSUME NEW k \in Keys, DeleteLast(k) PROVE IterInv'
  <2>1. k # NoKey
    BY DictAssumption
  <2> QED BY <1>0, <1>5, <2>1, UnderWayStep DEF DeleteLast, TreeMutated, Idle
<1>6. CASE Collapse
  BY <1>0, <1>6, UnderWayStep DEF Collapse, iter
<1>7. CASE DeleteEnds
  <2>1. DictMutated /\ freshTree' \in BOOLEAN /\ walking' = FALSE
    BY <1>0, <1>7 DEF DeleteEnds, Released
  <2> QED BY <2>1, ForgottenStep
<1>8. CASE Clear \/ FreeDict
  <2>1. Emptied
    BY <1>8 DEF Clear, FreeDict
  <2>2. DictMutated /\ freshTree' = FALSE /\ walking' = FALSE
    BY <1>0, <2>1 DEF Emptied, TreeMutated, Idle
  <2> QED BY <2>2, ForgottenStep
<1>9. CASE IterInit
  <2>1. hash \in [Keys -> HKeys] /\ TableOK(hash, index)
    BY DInvIs DEF DInv
  <2>2. IterOK(hash, index, IterStack(index), NoKey, <<>>)
    BY <2>1, StartOK
  <2>3. <<>> \in Seq(Keys)
    OBVIOUS
  <2> QED BY <1>9, <2>2, <2>3 DEF IterInit, IterInv, Idle, dict
<1>10. CASE NextInChain
  BY <1>10, NextInChainStep
<1>11. CASE NextChain
  <2>1. freshTree /\ ~ walking /\ deleting = NoKey /\ cur = NoKey /\ freshDict
    BY <1>11 DEF NextChain, Idle, IterInv
  <2> QED BY <1>11, <2>1 DEF NextChain, IterInv, dict
<1>12. CASE WalkInner
  BY <1>12, WalkInnerStep
<1>13. CASE WalkLeaf
  BY <1>13, WalkLeafStep
<1>14. CASE WalkEnd
  BY <1>14 DEF WalkEnd, IterInv, dict
<1>15. CASE UNCHANGED vars
  BY <1>15 DEF vars, IterInv
<1> QED
  BY <1>1, <1>2, <1>3, <1>4, <1>5, <1>6, <1>7, <1>8, <1>9, <1>10, <1>11, <1>12, <1>13, <1>14, <1>15
  DEF Next

(* The invariant holds.                                                    *)
LEMMA IterInvariant == Spec => [](DInv /\ IterInv)
BY InitDInv, StepDInv, InitIterInv, StepIterInv, PTL DEF Spec

-----------------------------------------------------------------------------
(* What the invariant says of the iterator's history.                      *)

(* A leaf's chain ...                                                      *)
LEMMA LeafChain ==
  ASSUME NEW H \in [Keys -> HKeys], NEW t, TableOK(H, t), NEW p \in DOMAIN t.leaf,
         NEW h, h = t.leaf[p].key, NEW ch, ch = t.leaf[p].value
  PROVE  /\ h \in HKeys /\ Chain(t, h) = ch /\ EntriesOK(H, h, ch) /\ DOMAIN ch = 1 .. Len(ch)
<1>1. TreeOK(t) /\ t.leaf[p] \in Held(t) /\ h \in HKeys
  BY DEF TableOK, TreeOK, LeafOK, Held
<1>2. Chain(t, h) = ch /\ EntriesOK(H, h, ch)
  BY <1>1, ChainIs DEF TableOK
<1>3. DOMAIN ch = 1 .. Len(ch)
  BY <1>2, LenProperties DEF EntriesOK
<1> QED
  BY <1>1, <1>2, <1>3

(* ... and each of its entries.                                            *)
LEMMA LeafEntry ==
  ASSUME NEW H \in [Keys -> HKeys], NEW t, TableOK(H, t), NEW p \in DOMAIN t.leaf,
         NEW j \in DOMAIN t.leaf[p].value, NEW k, k = t.leaf[p].value[j][1]
  PROVE  k \in KeysIn(H, t) /\ H[k] = t.leaf[p].key
<1> DEFINE h == t.leaf[p].key
           ch == t.leaf[p].value
<1>1. h \in HKeys /\ Chain(t, h) = ch /\ DOMAIN ch = 1 .. Len(ch)
  BY LeafChain
<1>2. j \in DOMAIN ch /\ k = ch[j][1]
  OBVIOUS
<1> HIDE DEF h, ch
<1>3. k \in KeysIn(H, t) /\ H[k] = h
  BY <1>1, <1>2, ChainKey
<1> QED
  BY <1>3 DEF h

(* A present key is in the chain of its hash's leaf.                       *)
LEMMA LeafOfKey ==
  ASSUME NEW H \in [Keys -> HKeys], NEW t, TableOK(H, t), NEW k \in KeysIn(H, t)
  PROVE  \E p \in DOMAIN t.leaf : \E j \in DOMAIN t.leaf[p].value :
            t.leaf[p].key = H[k] /\ t.leaf[p].value[j][1] = k
<1> DEFINE ch == Chain(t, H[k])
           j == FoundIn(ch, k)
           p == Slot(t, H[k])
<1>1. k \in Keys /\ H[k] \in HKeys /\ j # 0 /\ TreeOK(t)
  BY DEF KeysIn, TableOK
<1>2. EntriesOK(H, H[k], ch)
  BY <1>1, EntriesOfChain
<1>3. j \in 1 .. Len(ch) /\ ch[j][1] = k /\ DOMAIN ch = 1 .. Len(ch)
  <2> HIDE DEF ch
  <2>1. DOMAIN ch = 1 .. Len(ch)
    BY <1>2, LenProperties DEF EntriesOK
  <2> QED BY <1>1, <1>2, <2>1, FoundIs
<1>4. ch # <<>>
  <2> HIDE DEF ch, j
  <2>1. Len(<<>>) = 0 /\ 1 .. 0 = {}
    OBVIOUS
  <2> QED BY <1>3, <2>1
<1>5. FindLeaf(t, H[k])
  BY <1>1, <1>4, ChainIs
<1>6. p \in DOMAIN t.leaf /\ t.leaf[p].key = H[k] /\ t.leaf[p].value = ch
  BY <1>5 DEF FindLeaf, Chain
<1> HIDE DEF ch, j, p
<1> QED
  BY <1>3, <1>6

(* The leaves an entry of the stack stands for.                            *)
LEMMA BelowIs ==
  ASSUME TreeOK(index), NEW p \in Nodes(index), NEW i, NEW l \in DOMAIN index.leaf
  PROVE  l \in Below(p, i) <=> index.leaf[l].key \in Coming(index, <<p, i>>)
<1> DEFINE h == index.leaf[l].key
           n == Len(p)
           m == Len(l)
<1>1. h \in HKeys /\ m \in 0 .. Nibbles /\ l = Upto(h, m) /\ h \in KeysOf(index)
  BY DEF TreeOK, LeafOK, KeysOf
<1>2. <<p, i>>[1] = p /\ <<p, i>>[2] = i
  OBVIOUS
<1>3. ASSUME p \in index.inner PROVE l \in Below(p, i) <=> h \in Coming(index, <<p, i>>)
  <2>1. n \in 0 .. Nibbles - 1
    BY <1>3 DEF TreeOK
  <2>2. Upto(h, n) = p => m > n
    <3>1. Upto(h, n) = p => l \in Under(index, p)
      BY <1>3, PassesUnder
    <3>2. l \in Under(index, p) => n < m
      BY DEF Under
    <3> HIDE DEF m, n
    <3> QED BY <1>1, <2>1, <3>1, <3>2, RadixAssumption
  <2>3. m > n => Upto(l, n) = Upto(h, n) /\ l[n + 1] = h[n + 1]
    <3> HIDE DEF h, n, m
    <3> SUFFICES ASSUME m > n PROVE Upto(l, n) = Upto(h, n) /\ l[n + 1] = h[n + 1]
      OBVIOUS
    <3>1. n \in 0 .. m /\ n + 1 \in 1 .. m
      BY <1>1, <2>1, RadixAssumption
    <3>2. Upto(Upto(h, m), n) = Upto(h, n)
      BY <1>1, <3>1, UptoUpto
    <3>3. Upto(h, m) = [x \in 1 .. m |-> h[x]]
      BY <1>1, UptoIs
    <3>4. Upto(h, m)[n + 1] = h[n + 1]
      BY <3>1, <3>3
    <3> QED BY <1>1, <3>2, <3>4
  <2>4. l \in Below(p, i) <=> m > n /\ Upto(l, n) = p /\ l[n + 1] >= i
    BY <1>3 DEF Below
  <2>5. h \in Coming(index, <<p, i>>) <=> Upto(h, n) = p /\ h[n + 1] >= i
    BY <1>1, <1>2, <1>3 DEF Coming
  <2> HIDE DEF h, n, m
  <2> QED BY <2>2, <2>3, <2>4, <2>5
<1>4. ASSUME p \notin index.inner PROVE l \in Below(p, i) <=> h \in Coming(index, <<p, i>>)
  <2>1. p \in DOMAIN index.leaf
    BY <1>4 DEF Nodes
  <2>2. l \in Below(p, i) <=> l = p
    BY <1>4 DEF Below
  <2>3. h \in Coming(index, <<p, i>>) <=> index.leaf[p].key = h
    BY <1>1, <1>2, <1>4, <2>1 DEF Coming
  <2>4. index.leaf[p].key = h => l = p
    BY <2>1, OneLeaf
  <2> QED BY <2>2, <2>3, <2>4
<1> QED
  BY <1>3, <1>4

(* What is ahead of the iterator.                                          *)
LEMMA AheadIs ==
  ASSUME hash \in [Keys -> HKeys], TableOK(hash, index), stack \in Seq(Nodes(index) \X Nat),
         cur \in Keys \cup {NoKey}
  PROVE  Ahead = RestOf(hash, index, cur) \cup StillIn(hash, index, stack)
<1> DEFINE leaves == UNION {Below(stack[n][1], stack[n][2]) : n \in DOMAIN stack}
           rest   == IF cur = NoKey THEN {}
                     ELSE LET c == Chain(index, hash[cur])
                          IN {c[j][1] : j \in {m \in DOMAIN c : m >= Found(index, cur)}}
           K(e)   == index.leaf[e[1]].value[e[2]][1]
           still  == {K(e) : e \in {x \in Entries(index) : x[1] \in leaves}}
           W      == Waiting(index, stack)
<1>1. Ahead = rest \cup still
  BY DEF Ahead
<1>2. rest = RestOf(hash, index, cur)
  <2>1. CASE cur = NoKey
    BY <2>1 DEF RestOf
  <2>2. CASE cur # NoKey
    <3> DEFINE c == Chain(index, hash[cur])
    <3>1. hash[cur] \in HKeys
      BY <2>2
    <3>2. EntriesOK(hash, hash[cur], c)
      BY <3>1, EntriesOfChain
    <3>3. DOMAIN c = 1 .. Len(c)
      BY <3>2, LenProperties DEF EntriesOK
    <3>4. Found(index, cur) = FoundIn(c, cur)
      BY FoundLink
    <3> HIDE DEF c
    <3>5. rest = {c[j][1] : j \in {m \in DOMAIN c : m >= Found(index, cur)}}
      BY <2>2 DEF c
    <3>6. RestOf(hash, index, cur) = {c[j][1] : j \in {m \in 1 .. Len(c) : m >= FoundIn(c, cur)}}
      BY <2>2 DEF RestOf, c
    <3> QED BY <3>3, <3>4, <3>5, <3>6
  <2> QED BY <2>1, <2>2
<1> HIDE DEF rest
<1>3. \A l : l \in leaves <=> l \in DOMAIN index.leaf /\ index.leaf[l].key \in W
  <2>1. DOMAIN stack = 1 .. Len(stack) /\ \A n \in 1 .. Len(stack) : stack[n] \in Nodes(index) \X Nat
    <3> DEFINE S == Nodes(index) \X Nat
    <3> HIDE DEF S
    <3>1. stack \in Seq(S)
      BY DEF S
    <3>2. DOMAIN stack = 1 .. Len(stack) /\ \A n \in 1 .. Len(stack) : stack[n] \in S
      BY <3>1, LenProperties, ElementOfSeq
    <3> QED BY <3>2 DEF S
  <2>2. \A n \in 1 .. Len(stack) : \A l \in DOMAIN index.leaf :
           l \in Below(stack[n][1], stack[n][2]) <=> index.leaf[l].key \in Coming(index, stack[n])
    <3> TAKE n \in 1 .. Len(stack)
    <3> TAKE l \in DOMAIN index.leaf
    <3> DEFINE p == stack[n][1]
               i == stack[n][2]
    <3>1. p \in Nodes(index) /\ stack[n] = <<p, i>>
      BY <2>1
    <3> HIDE DEF p, i
    <3>2. l \in Below(p, i) <=> index.leaf[l].key \in Coming(index, <<p, i>>)
      BY <3>1, BelowIs DEF TableOK
    <3> QED BY <3>1, <3>2 DEF p, i
  <2>3. \A n \in 1 .. Len(stack) : Below(stack[n][1], stack[n][2]) \subseteq DOMAIN index.leaf
    BY DEF Below
  <2>4. \A l : l \in leaves <=> \E n \in 1 .. Len(stack) : l \in Below(stack[n][1], stack[n][2])
    BY <2>1
  <2>5. \A h : h \in W <=> \E n \in 1 .. Len(stack) : h \in Coming(index, stack[n])
    BY DEF Waiting
  <2> HIDE DEF leaves, W
  <2> QED BY <2>2, <2>3, <2>4, <2>5
<1> HIDE DEF leaves, W
<1>4. ASSUME NEW k \in still PROVE k \in StillIn(hash, index, stack)
  <2>1. PICK e \in Entries(index) : e[1] \in leaves /\ k = K(e)
    BY <1>4
  <2>9. PICK p \in DOMAIN index.leaf : \E j \in DOMAIN index.leaf[p].value : e = <<p, j>>
    BY DEF Entries
  <2>2. PICK j \in DOMAIN index.leaf[p].value : e = <<p, j>>
    BY <2>9
  <2>3. e[1] = p /\ e[2] = j
    BY <2>2, SMTT(60)
  <2>4. k = index.leaf[p].value[j][1]
    BY <2>1, <2>3
  <2>5. k \in KeysIn(hash, index) /\ hash[k] = index.leaf[p].key
    <3> HIDE DEF still, K
    <3> QED BY <2>4, LeafEntry, SMTT(60)
  <2>6. hash[k] \in W
    BY <1>3, <2>1, <2>3, <2>5
  <2> QED BY <2>5, <2>6 DEF StillIn, W
<1>5. ASSUME NEW k \in StillIn(hash, index, stack) PROVE k \in still
  <2>1. k \in KeysIn(hash, index) /\ hash[k] \in W
    BY <1>5 DEF StillIn, W
  <2>9. PICK p \in DOMAIN index.leaf : \E j \in DOMAIN index.leaf[p].value :
            index.leaf[p].key = hash[k] /\ index.leaf[p].value[j][1] = k
    BY <2>1, LeafOfKey
  <2>2. PICK j \in DOMAIN index.leaf[p].value :
           index.leaf[p].key = hash[k] /\ index.leaf[p].value[j][1] = k
    BY <2>9
  <2> DEFINE e == <<p, j>>
  <2>3. e \in Entries(index) /\ e[1] = p /\ e[2] = j
    BY DEF Entries
  <2>4. p \in leaves
    BY <1>3, <2>1, <2>2
  <2>5. K(e) = k
    BY <2>2, <2>3
  <2> HIDE DEF e, K
  <2> QED BY <2>3, <2>4, <2>5
<1> HIDE DEF still
<1> QED
  BY <1>1, <1>2, <1>4, <1>5

(* bbq_dict.c:235-251, bbq_htree.h:123: while the generation holds, what   *)
(* the iterator has given and what it has ahead are all the entries, each  *)
(* once, in the order of their hashes, whichever calls came between.       *)
THEOREM EachOnceInOrder == Spec => []OnceEachInOrder
<1>1. DInv /\ IterInv => OnceEachInOrder
  <2> SUFFICES ASSUME DInv, IterInv, freshDict, deleting = NoKey
               PROVE  /\ Given \cap Ahead = {} /\ Given \cup Ahead = Present
                      /\ \A m, n \in DOMAIN given :
                            m < n => /\ given[m] # given[n]
                                     /\ ~ Before(hash[given[n]], hash[given[m]])
                      /\ freshTree /\ (cur # NoKey => cur \in Present)
    BY DEF OnceEachInOrder
  <2>1. /\ hash \in [Keys -> HKeys] /\ TableOK(hash, index)
        /\ freshTree /\ IterOK(hash, index, stack, cur, given)
        /\ cur \in Keys \cup {NoKey} /\ given \in Seq(Keys)
    BY DInvIs DEF DInv, IterInv
  <2>2. /\ GivenOf(given) \cap RestOf(hash, index, cur) = {}
        /\ GivenOf(given) \cup RestOf(hash, index, cur) \cup StillIn(hash, index, stack) = KeysIn(hash, index)
        /\ \A a \in Waiting(index, stack), k \in GivenOf(given) : Before(hash[k], a)
        /\ cur \in KeysIn(hash, index) \cup {NoKey} /\ InOrder(hash, given)
        /\ stack \in Seq(Nodes(index) \X Nat)
    BY <2>1 DEF IterOK
  <2>3. DOMAIN given = 1 .. Len(given) /\ \A n \in 1 .. Len(given) : given[n] \in Keys
    BY <2>1, LenProperties, ElementOfSeq
  <2>4. Given = GivenOf(given)
    BY <2>3 DEF Given, GivenOf
  <2>5. Ahead = RestOf(hash, index, cur) \cup StillIn(hash, index, stack)
    BY <2>1, <2>2, AheadIs
  <2>6. Present = KeysIn(hash, index)
    BY MapLink
  <2>7. \A k \in Keys : ~ Before(hash[k], hash[k])
    BY <2>1, BeforeIsOrder
  <2>8. GivenOf(given) \subseteq Keys
    BY <2>3 DEF GivenOf
  <2>9. GivenOf(given) \cap StillIn(hash, index, stack) = {}
    BY <2>2, <2>7, <2>8 DEF StillIn
  <2>10. ASSUME NEW m \in 1 .. Len(given), NEW n \in 1 .. Len(given), m < n
         PROVE  given[m] # given[n] /\ ~ Before(hash[given[n]], hash[given[m]])
    <3>1. given[m] # given[n] /\ Upper(hash, given[m], given[n])
      BY <2>2, <2>10 DEF InOrder
    <3>2. given[m] \in Keys /\ given[n] \in Keys
      BY <2>3
    <3>3. hash[given[m]] \in HKeys /\ hash[given[n]] \in HKeys
      BY <2>1, <3>2
    <3> QED BY <2>7, <3>1, <3>2, <3>3, BeforeIsOrder DEF Upper
  <2> QED BY <2>1, <2>2, <2>3, <2>4, <2>5, <2>6, <2>9, <2>10
<1> QED
  BY <1>1, IterInvariant, PTL

(* The types of the dictionary's state: no position past the last nibble,  *)
(* and every leaf holds a chain of entries.                                *)
THEOREM DictTypes == Spec => []TypeOK
<1>1. DInv /\ IterInv => TypeOK
  <2> SUFFICES ASSUME DInv, IterInv PROVE TypeOK
    OBVIOUS
  <2>1. hash \in [Keys -> HKeys] /\ TableOK(hash, index) /\ TreeOK(index)
    BY DInvIs DEF DInv
  <2>2. ASSUME NEW p \in index.inner
        PROVE  p \in UNION {[1 .. n -> 0 .. Radix - 1] : n \in 0 .. Nibbles - 1}
    <3> DEFINE n == Len(p)
    <3>1. PICK h \in HKeys : p = Upto(h, n)
      BY <2>1, <2>2, InnerIs
    <3>2. n \in 0 .. Nibbles - 1
      BY <2>1, <2>2 DEF TreeOK
    <3> HIDE DEF n
    <3>3. n \in 0 .. Nibbles /\ \A i \in 1 .. n : i \in 1 .. Nibbles
      BY <3>2, RadixAssumption
    <3>4. p = [i \in 1 .. n |-> h[i]]
      BY <3>1, <3>3, UptoIs
    <3>5. \A i \in 1 .. n : h[i] \in 0 .. Radix - 1
      BY <3>3 DEF HKeys
    <3>6. p \in [1 .. n -> 0 .. Radix - 1]
      BY <3>4, <3>5
    <3> QED BY <3>2, <3>6
  <2>3. ASSUME NEW p \in DOMAIN index.leaf
        PROVE  index.leaf[p].key \in HKeys /\ index.leaf[p].value \in Seq(Keys \X Vals)
    BY <2>1, LeafChain DEF EntriesOK
  <2>4. count \in Nat /\ held \in [nodes : Nat, entries : Nat]
    BY DEF DInv, Counted
  <2> QED BY <2>2, <2>3, <2>4 DEF TypeOK, DInv, IterInv
<1> QED
  BY <1>1, IterInvariant, PTL

=============================================================================
