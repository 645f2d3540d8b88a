----------------------------- MODULE HMapProofs -----------------------------
EXTENDS HMap, Minima, FiniteSetTheorems, WellFoundedInduction, TLAPS

(* Arithmetic of the probe: a start is a slot, and so is every position.   *)
LEMMA ModRange == \A a \in Nat, c \in Nat \ {0} : a % c \in 0 .. c - 1
OBVIOUS

(* A size below the modulus does not wrap.                                 *)
LEMMA WrapId == \A n \in Nat : n <= SIZE_MAX => Wrap(n) = n
BY ConstantsAssumption DEF Wrap

-----------------------------------------------------------------------------
(* A table of c slots.                                                     *)
Tables(c) == [Slots(c) -> (Keys \X Vals) \cup {Free}]

(* An entry is not the mark of an unused slot, and is a key and a value.   *)
LEMMA EntryShape ==
    \A e \in Keys \X Vals : e # Free /\ e[1] \in Keys /\ e[2] \in Vals /\ e = <<e[1], e[2]>>
BY ConstantsAssumption

(* The probe path of a key visits every slot once.                         *)
LEMMA ProbePath ==
    ASSUME NEW c \in Nat \ {0}, NEW k \in Keys
    PROVE  /\ \A d \in Slots(c) : Probe(k, d, c) \in Slots(c)
           /\ \A d, e \in Slots(c) : d # e => Probe(k, d, c) # Probe(k, e, c)
           /\ \A s \in Slots(c) : \E d \in Slots(c) : Probe(k, d, c) = s
<1> DEFINE h == Mix[k] % c
<1>1. h \in 0 .. c - 1
  BY ModRange, ConstantsAssumption
<1> HIDE DEF h
<1>2. \A d : Probe(k, d, c) = IF h + d < c THEN h + d ELSE h + d - c
  BY DEF Probe, Along, h
<1>3. ASSUME NEW s \in Slots(c) PROVE \E d \in Slots(c) : Probe(k, d, c) = s
  <2>1. CASE s >= h
    <3>1. s - h \in Slots(c) /\ Probe(k, s - h, c) = s
      BY <1>1, <1>2, <2>1 DEF Slots
    <3> QED BY <3>1
  <2>2. CASE s < h
    <3>1. s - h + c \in Slots(c) /\ Probe(k, s - h + c, c) = s
      BY <1>1, <1>2, <2>2 DEF Slots
    <3> QED BY <3>1
  <2> QED BY <1>1, <2>1, <2>2 DEF Slots
<1> QED BY <1>1, <1>2, <1>3 DEF Slots

(* hmap_slot is well defined when there is a free slot: it is the first    *)
(* position of the path that stops.                                        *)
LEMMA SlotIsFirst ==
    ASSUME NEW c \in Nat \ {0}, NEW k \in Keys, NEW t \in Tables(c),
           \E d \in Slots(c) : Stops(t, k, d, c)
    PROVE  \E d \in Slots(c) : /\ HMapSlot(t, k, c) = Probe(k, d, c)
                               /\ Stops(t, k, d, c)
                               /\ \A e \in Slots(c) : e < d => ~Stops(t, k, e, c)
<1> DEFINE D == {d \in Slots(c) : Stops(t, k, d, c)}
           First(d) == Stops(t, k, d, c) /\ \A e \in Slots(c) : e < d => ~Stops(t, k, e, c)
<1>1. PICK d \in D : \A e \in D : d <= e
  <2>1. D \in SUBSET Nat /\ D # {}
    BY DEF Slots
  <2> HIDE DEF D
  <2> QED BY <2>1, Least
<1>2. d \in Slots(c) /\ First(d)
  BY <1>1 DEF Slots
<1>3. HMapSlot(t, k, c) = Probe(k, CHOOSE x \in Slots(c) : First(x), c)
  BY DEF HMapSlot
<1> HIDE DEF First
<1>4. PICK x \in Slots(c) : First(x) /\ HMapSlot(t, k, c) = Probe(k, x, c)
  BY <1>2, <1>3
<1> QED BY <1>4 DEF First

(* The first stopping position is unique, so finding one settles the slot. *)
LEMMA SlotUnique ==
    ASSUME NEW c \in Nat \ {0}, NEW k \in Keys, NEW t \in Tables(c),
           NEW d \in Slots(c), Stops(t, k, d, c),
           \A e \in Slots(c) : e < d => ~Stops(t, k, e, c)
    PROVE  HMapSlot(t, k, c) = Probe(k, d, c)
<1>1. PICK x \in Slots(c) : /\ HMapSlot(t, k, c) = Probe(k, x, c)
                            /\ Stops(t, k, x, c)
                            /\ \A e \in Slots(c) : e < x => ~Stops(t, k, e, c)
  BY SlotIsFirst
<1>2. x = d
  BY <1>1 DEF Slots
<1> QED BY <1>1, <1>2

(* A free slot ends every probe.                                           *)
LEMMA FreeEnds ==
    ASSUME NEW c \in Nat \ {0}, NEW k \in Keys, NEW t \in Tables(c),
           NEW s \in Slots(c), t[s] = Free
    PROVE  \E d \in Slots(c) : Stops(t, k, d, c)
BY ProbePath DEF Stops

(* What a probe returns: a slot of the table, free or the key's own.       *)
LEMMA SlotValue ==
    ASSUME NEW c \in Nat \ {0}, NEW k \in Keys, NEW t \in Tables(c),
           \E s \in Slots(c) : t[s] = Free
    PROVE  /\ HMapSlot(t, k, c) \in Slots(c)
           /\ t[HMapSlot(t, k, c)] # Free => t[HMapSlot(t, k, c)][1] = k
BY FreeEnds, SlotIsFirst, ProbePath DEF Stops

(* In a findable table the slot found for a key holds the key's entry, if  *)
(* there is one.                                                           *)
LEMMA FindableSlot ==
    ASSUME NEW c \in Nat \ {0}, NEW k \in Keys, NEW t \in Tables(c),
           \E s \in Slots(c) : t[s] = Free, Findable(t, c),
           NEW u \in UsedSlots(t, c), t[u][1] = k
    PROVE  HMapSlot(t, k, c) = u
BY DEF Findable

(* Storing an entry where its probe stops keeps every entry findable: the  *)
(* slot only goes from free to used or keeps its key.                      *)
LEMMA StoreFindable ==
    ASSUME NEW c \in Nat \ {0}, NEW k \in Keys, NEW v \in Vals, NEW t \in Tables(c),
           \E s \in Slots(c) : t[s] = Free, Findable(t, c)
    PROVE  Findable([t EXCEPT ![HMapSlot(t, k, c)] = <<k, v>>], c)
<1> DEFINE s == HMapSlot(t, k, c)
           n == [t EXCEPT ![s] = <<k, v>>]
<1>1. PICK d \in Slots(c) : /\ s = Probe(k, d, c)
                            /\ Stops(t, k, d, c)
                            /\ \A e \in Slots(c) : e < d => ~Stops(t, k, e, c)
  BY FreeEnds, SlotIsFirst
<1>2. s \in Slots(c) /\ (t[s] # Free => t[s][1] = k)
  BY SlotValue
<1> HIDE DEF s
<1>3. n \in Tables(c) /\ n[s] = <<k, v>> /\ \A u \in Slots(c) : u # s => n[u] = t[u]
  BY <1>2 DEF Tables
<1>4. n[s] # Free /\ n[s][1] = k
  BY <1>3, EntryShape
<1> HIDE DEF n
<1>5. HMapSlot(n, k, c) = s
  <2>1. Stops(n, k, d, c)
    BY <1>1, <1>4 DEF Stops
  <2>2. \A e \in Slots(c) : e < d => ~Stops(n, k, e, c)
    <3> SUFFICES ASSUME NEW e \in Slots(c), e < d PROVE ~Stops(n, k, e, c)
      OBVIOUS
    <3>1. Probe(k, e, c) \in Slots(c) /\ Probe(k, e, c) # s
      BY <1>1, ProbePath DEF Slots
    <3> QED BY <1>1, <1>3, <3>1 DEF Stops
  <2> QED BY <1>1, <1>3, <2>1, <2>2, SlotUnique
<1>6. ASSUME NEW u \in UsedSlots(n, c), u # s PROVE HMapSlot(n, n[u][1], c) = u
  <2>1. u \in UsedSlots(t, c) /\ n[u] = t[u] /\ t[u] \in Keys \X Vals
    BY <1>3, <1>6 DEF UsedSlots, Tables
  <2> DEFINE k2 == t[u][1]
  <2>2. k2 \in Keys /\ HMapSlot(t, k2, c) = u
    BY <2>1, EntryShape DEF Findable
  <2>3. k2 # k
    BY <1>6, <2>2 DEF s
  <2>4. PICK x \in Slots(c) : /\ u = Probe(k2, x, c)
                              /\ Stops(t, k2, x, c)
                              /\ \A e \in Slots(c) : e < x => ~Stops(t, k2, e, c)
    BY <2>2, FreeEnds, SlotIsFirst
  <2> HIDE DEF k2
  <2>5. Stops(n, k2, x, c)
    BY <2>1, <2>4 DEF Stops
  <2>6. \A e \in Slots(c) : e < x => ~Stops(n, k2, e, c)
    <3> SUFFICES ASSUME NEW e \in Slots(c), e < x PROVE ~Stops(n, k2, e, c)
      OBVIOUS
    <3> DEFINE q == Probe(k2, e, c)
    <3>1. q \in Slots(c) /\ ~Stops(t, k2, e, c)
      BY <2>2, <2>4, ProbePath
    <3>2. CASE q = s
      BY <1>4, <2>3, <3>2 DEF Stops
    <3>3. CASE q # s
      BY <1>3, <3>1, <3>3 DEF Stops
    <3> QED BY <3>2, <3>3
  <2> QED BY <1>3, <2>1, <2>2, <2>4, <2>5, <2>6, SlotUnique DEF k2
<1> QED BY <1>4, <1>5, <1>6 DEF Findable, n, s

-----------------------------------------------------------------------------
(* The used slots of a table are finitely many, and fewer than its slots   *)
(* means that one is free.                                                 *)
LEMMA UsedFinite ==
    ASSUME NEW c \in Nat, NEW t \in Tables(c)
    PROVE  /\ IsFiniteSet(UsedSlots(t, c)) /\ Cardinality(UsedSlots(t, c)) \in Nat
           /\ Cardinality(UsedSlots(t, c)) < c => \E s \in Slots(c) : t[s] = Free
<1>1. IsFiniteSet(Slots(c)) /\ Cardinality(Slots(c)) = c
  BY FS_Interval DEF Slots
<1>2. UsedSlots(t, c) \in SUBSET Slots(c)
  BY DEF UsedSlots
<1>3. IsFiniteSet(UsedSlots(t, c)) /\ Cardinality(UsedSlots(t, c)) \in Nat
  BY <1>1, <1>2, FS_Subset, FS_CardinalityType
<1>4. ASSUME Cardinality(UsedSlots(t, c)) < c, \A s \in Slots(c) : t[s] # Free PROVE FALSE
  <2>1. UsedSlots(t, c) = Slots(c)
    BY <1>4 DEF UsedSlots
  <2> QED BY <1>1, <1>4, <2>1
<1> QED BY <1>3, <1>4

(* Storing counts one more used slot exactly when the slot was free.       *)
LEMMA StoreCount ==
    ASSUME NEW c \in Nat, NEW t \in Tables(c), NEW s \in Slots(c), NEW e \in Keys \X Vals
    PROVE  LET n == [t EXCEPT ![s] = e]
           IN /\ n \in Tables(c)
              /\ UsedSlots(n, c) = UsedSlots(t, c) \cup {s}
              /\ Cardinality(UsedSlots(n, c)) =
                   IF t[s] = Free THEN Cardinality(UsedSlots(t, c)) + 1
                                  ELSE Cardinality(UsedSlots(t, c))
<1> DEFINE n == [t EXCEPT ![s] = e]
<1>1. n \in Tables(c) /\ n[s] = e /\ \A u \in Slots(c) : u # s => n[u] = t[u]
  BY DEF Tables
<1>2. UsedSlots(n, c) = UsedSlots(t, c) \cup {s}
  BY <1>1, EntryShape DEF UsedSlots
<1>3. s \in UsedSlots(t, c) <=> t[s] # Free
  BY DEF UsedSlots
<1> QED BY <1>1, <1>2, <1>3, UsedFinite, FS_AddElement

(* The sizes of the three arrays; the bytes of the keys bound the slots.   *)
LEMMA ArraysOfBytes ==
    ASSUME NEW c \in Nat
    PROVE  LET a == ArraysOf(c)
           IN /\ a[1] \in Nat /\ a[2] \in Nat /\ a[3] \in Nat /\ a[1] = a[2]
              /\ a[1] # 0 => 8 * c <= SIZE_MAX
              /\ TableBytes(c) = a[1] + a[2] + a[3]
<1>1. /\ ArraysOf(c)[1] = ArrayBytes(c, 8)
      /\ ArraysOf(c)[2] = ArrayBytes(c, 8)
      /\ ArraysOf(c)[3] = ArrayBytes(c, 1)
  BY DEF ArraysOf
<1>2. ArrayBytes(c, 8) \in Nat /\ ArrayBytes(c, 1) \in Nat
  BY ConstantsAssumption DEF ArrayBytes
<1>3. ArrayBytes(c, 8) # 0 => 8 * c <= SIZE_MAX
  BY ConstantsAssumption DEF ArrayBytes
<1> QED BY <1>1, <1>2, <1>3 DEF TableBytes

(* hmap_alloc: granted, the three arrays are charged and fit size_t;       *)
(* refused, nothing is.                                                    *)
LEMMA AllocBytes ==
    ASSUME NEW c \in Nat, used \in Nat, NEW under \in [1 .. 3 -> BOOLEAN]
    PROVE  LET r == HMapAlloc(c, under)
           IN /\ r.ok \in BOOLEAN /\ r.used \in Nat
              /\ r.ok => c # 0 /\ 8 * c <= SIZE_MAX /\ r.used = used + TableBytes(c)
              /\ ~r.ok => r.used = used
<1> DEFINE a == ArraysOf(c)
           k == BudgetAlloc(used,   Limit, a[1], under[1])
           v == BudgetAlloc(k.used, Limit, a[2], under[2])
           u == BudgetAlloc(v.used, Limit, a[3], under[3])
<1>1. /\ a[1] \in Nat /\ a[2] \in Nat /\ a[3] \in Nat /\ a[1] = a[2]
      /\ a[1] # 0 => 8 * c <= SIZE_MAX
      /\ TableBytes(c) = a[1] + a[2] + a[3]
  BY ArraysOfBytes
<1> DEFINE x == a[1]
           y == a[2]
           z == a[3]
<1>2. /\ k.ok \in BOOLEAN /\ k.used = IF k.ok THEN used + x ELSE used
  BY <1>1 DEF BudgetAlloc
<1>3. /\ v.ok \in BOOLEAN /\ v.used = IF v.ok THEN k.used + y ELSE k.used
  BY <1>1 DEF BudgetAlloc
<1>4. /\ u.ok \in BOOLEAN /\ u.used = IF u.ok THEN v.used + z ELSE v.used
  BY <1>1 DEF BudgetAlloc
<1> DEFINE Back(r, n, bytes) == IF r.ok THEN BudgetRelease(n, bytes) ELSE n
           all == k.ok /\ v.ok /\ u.ok
           back == Back(u, Back(v, Back(k, u.used, x), y), z)
<1>5. HMapAlloc(c, under) =
         IF c = 0 \/ x = 0 \/ y = 0 \/ z = 0 THEN [ok |-> FALSE, used |-> used]
         ELSE IF all THEN [ok |-> TRUE, used |-> u.used]
         ELSE [ok |-> FALSE, used |-> back]
  BY DEF HMapAlloc
<1> HIDE DEF a, k, v, u
<1>6. /\ k.used \in Nat /\ v.used \in Nat /\ u.used \in Nat /\ back = used
      /\ all => u.used = used + TableBytes(c)
  <2>1. k.used \in Nat /\ v.used \in Nat /\ u.used \in Nat
    BY <1>1, <1>2, <1>3, <1>4
  <2>2. Back(k, u.used, x) = u.used - (IF k.ok THEN x ELSE 0) /\ Back(k, u.used, x) \in Nat
    BY <1>1, <1>2, <1>3, <1>4 DEF BudgetRelease
  <2> DEFINE b1 == Back(k, u.used, x)
  <2> HIDE DEF b1
  <2>3. Back(v, b1, y) = b1 - (IF v.ok THEN y ELSE 0) /\ Back(v, b1, y) \in Nat
    BY <1>1, <1>2, <1>3, <1>4, <2>2 DEF BudgetRelease, b1
  <2> DEFINE b2 == Back(v, b1, y)
  <2> HIDE DEF b2
  <2>4. Back(u, b2, z) = b2 - (IF u.ok THEN z ELSE 0) /\ Back(u, b2, z) \in Nat
    BY <1>1, <1>2, <1>3, <1>4, <2>2, <2>3, SMTT(60) DEF BudgetRelease, b1, b2
  <2>5. back = Back(u, b2, z)
    BY DEF b1, b2
  <2> QED BY <1>1, <1>2, <1>3, <1>4, <2>1, <2>2, <2>3, <2>4, <2>5 DEF b1, b2
<1> HIDE DEF x, y, z, back, all
<1>7. (c = 0 \/ x = 0 \/ y = 0 \/ z = 0) \/ ((c # 0 /\ x # 0))
  OBVIOUS
<1> QED BY <1>1, <1>5, <1>6 DEF x, all

(* Releasing a table's arrays gives back what it was charged.              *)
LEMMA ReleaseBytes ==
    ASSUME NEW c \in Nat, NEW x \in Nat
    PROVE  LET a == ArraysOf(c)
           IN /\ TableBytes(c) \in Nat
              /\ BudgetRelease(BudgetRelease(BudgetRelease(x + TableBytes(c), a[1]), a[2]), a[3]) = x
<1> DEFINE a == ArraysOf(c)
<1>1. a[1] \in Nat /\ a[2] \in Nat /\ a[3] \in Nat /\ TableBytes(c) = a[1] + a[2] + a[3]
  BY ArraysOfBytes
<1> HIDE DEF a
<1> QED BY <1>1 DEF BudgetRelease, a

-----------------------------------------------------------------------------
(* What a table answers, through its probes.                               *)
Content(t, c) == [k \in {k \in Keys : Contains(t, c, k)} |-> Get(t, c, k)]

Sound(t, c) == /\ c \in Nat /\ t \in Tables(c) /\ Findable(t, c)
               /\ c # 0 => \E s \in Slots(c) : t[s] = Free

(* A sound table contains the keys of its used slots, with their values.   *)
LEMMA Lookup ==
    ASSUME NEW t, NEW c, Sound(t, c), NEW k \in Keys
    PROVE  /\ Contains(t, c, k) <=> \E u \in UsedSlots(t, c) : t[u][1] = k
           /\ \A u \in UsedSlots(t, c) : t[u][1] = k => Get(t, c, k) = t[u][2]
<1>1. CASE c = 0
  BY <1>1 DEF Contains, UsedSlots, Slots, Sound
<1>2. CASE c # 0
  <2>1. HMapSlot(t, k, c) \in Slots(c) /\ (t[HMapSlot(t, k, c)] # Free => t[HMapSlot(t, k, c)][1] = k)
    BY <1>2, SlotValue DEF Sound
  <2>2. \A u \in UsedSlots(t, c) : t[u][1] = k => HMapSlot(t, k, c) = u
    BY <1>2, FindableSlot DEF Sound
  <2> QED BY <1>2, <2>1, <2>2 DEF Contains, Get, UsedSlots
<1> QED BY <1>1, <1>2

(* Two sound tables with the same entries answer alike.                    *)
LEMMA SameContent ==
    ASSUME NEW t, NEW c, Sound(t, c), NEW t2, NEW c2, Sound(t2, c2),
           \A u \in UsedSlots(t, c) : \E w \in UsedSlots(t2, c2) : t2[w] = t[u],
           \A w \in UsedSlots(t2, c2) : \E u \in UsedSlots(t, c) : t[u] = t2[w]
    PROVE  Content(t, c) = Content(t2, c2)
<1>1. \A k \in Keys : Contains(t, c, k) <=> Contains(t2, c2, k)
  BY Lookup
<1>2. \A k \in Keys : Contains(t, c, k) => Get(t, c, k) = Get(t2, c2, k)
  BY Lookup
<1> QED BY <1>1, <1>2 DEF Content

(* A table that differs in the slot of one key has the content of a put.   *)
LEMMA OneSlotContent ==
    ASSUME NEW t, NEW c, Sound(t, c), NEW n, Sound(n, c),
           NEW k \in Keys, NEW v \in Vals, NEW s \in Slots(c),
           t[s] # Free => t[s][1] = k, n[s] = <<k, v>>,
           \A u \in Slots(c) : u # s => n[u] = t[u]
    PROVE  Content(n, c) = [x \in DOMAIN Content(t, c) \cup {k} |->
                              IF x = k THEN v ELSE Content(t, c)[x]]
<1>1. Contains(n, c, k) /\ Get(n, c, k) = v
  <2>1. s \in UsedSlots(n, c) /\ n[s][1] = k /\ n[s][2] = v
    BY EntryShape DEF UsedSlots
  <2> QED BY <2>1, Lookup
<1>2. ASSUME NEW x \in Keys, x # k
      PROVE  /\ Contains(n, c, x) <=> Contains(t, c, x)
             /\ Contains(t, c, x) => Get(n, c, x) = Get(t, c, x)
  <2>1. \A u \in UsedSlots(n, c) : n[u][1] = x => u \in UsedSlots(t, c) /\ t[u] = n[u]
    BY <1>2 DEF UsedSlots
  <2>2. \A u \in UsedSlots(t, c) : t[u][1] = x => u \in UsedSlots(n, c) /\ n[u] = t[u]
    BY <1>2 DEF UsedSlots
  <2>3. /\ Contains(t, c, x) <=> \E u \in UsedSlots(t, c) : t[u][1] = x
        /\ \A u \in UsedSlots(t, c) : t[u][1] = x => Get(t, c, x) = t[u][2]
    BY <1>2, Lookup
  <2>4. /\ Contains(n, c, x) <=> \E u \in UsedSlots(n, c) : n[u][1] = x
        /\ \A u \in UsedSlots(n, c) : n[u][1] = x => Get(n, c, x) = n[u][2]
    BY <1>2, Lookup
  <2>5. Contains(n, c, x) <=> Contains(t, c, x)
    BY <2>1, <2>2, <2>3, <2>4
  <2>6. ASSUME Contains(t, c, x) PROVE Get(n, c, x) = Get(t, c, x)
    <3>1. PICK u \in UsedSlots(t, c) : t[u][1] = x
      BY <2>3, <2>6
    <3> QED BY <2>2, <2>3, <2>4, <3>1
  <2> QED BY <2>5, <2>6
<1>3. {x \in Keys : Contains(n, c, x)} = {x \in Keys : Contains(t, c, x)} \cup {k}
  BY <1>1, <1>2
<1> QED BY <1>1, <1>2, <1>3 DEF Content

(* What a put makes of a table, and of a map.                              *)
After(t, c, k, v) == [t EXCEPT ![HMapSlot(t, k, c)] = <<k, v>>]
PutOf(m, k, v) == [x \in DOMAIN m \cup {k} |-> IF x = k THEN v ELSE m[x]]

(* Storing in a sound table with a spare free slot: the table stays sound  *)
(* but for that slot, and its content is that of the map's put.            *)
LEMMA Stored ==
    ASSUME NEW t, NEW c, Sound(t, c), c # 0, NEW k \in Keys, NEW v \in Vals
    PROVE  /\ HMapSlot(t, k, c) \in Slots(c)
           /\ After(t, c, k, v) \in Tables(c) /\ Findable(After(t, c, k, v), c)
           /\ t[HMapSlot(t, k, c)] = Free =>
                Cardinality(UsedSlots(After(t, c, k, v), c)) = Cardinality(UsedSlots(t, c)) + 1
           /\ t[HMapSlot(t, k, c)] # Free =>
                Cardinality(UsedSlots(After(t, c, k, v), c)) = Cardinality(UsedSlots(t, c))
           /\ Cardinality(UsedSlots(After(t, c, k, v), c)) < c =>
                /\ Sound(After(t, c, k, v), c)
                /\ Content(After(t, c, k, v), c) = PutOf(Content(t, c), k, v)
<1> DEFINE s == HMapSlot(t, k, c)
           n == After(t, c, k, v)
<1>1. s \in Slots(c) /\ (t[s] # Free => t[s][1] = k)
  BY SlotValue DEF Sound
<1>2. Findable(n, c)
  BY StoreFindable DEF Sound, After
<1>3. /\ n \in Tables(c)
      /\ Cardinality(UsedSlots(n, c)) = IF t[s] = Free THEN Cardinality(UsedSlots(t, c)) + 1
                                        ELSE Cardinality(UsedSlots(t, c))
  <2> DEFINE e == <<k, v>>
  <2>1. e \in Keys \X Vals /\ c \in Nat /\ t \in Tables(c)
    BY DEF Sound
  <2>2. n = [t EXCEPT ![s] = e]
    BY DEF After
  <2> HIDE DEF s, e, n
  <2>3. LET m == [t EXCEPT ![s] = e]
        IN /\ m \in Tables(c)
           /\ Cardinality(UsedSlots(m, c)) = IF t[s] = Free THEN Cardinality(UsedSlots(t, c)) + 1
                                             ELSE Cardinality(UsedSlots(t, c))
    BY <1>1, <2>1, StoreCount
  <2> QED BY <2>2, <2>3
<1>4. n[s] = <<k, v>> /\ \A u \in Slots(c) : u # s => n[u] = t[u]
  BY <1>1 DEF Sound, Tables, After
<1>5. ASSUME Cardinality(UsedSlots(n, c)) < c
      PROVE  Sound(n, c) /\ Content(n, c) = PutOf(Content(t, c), k, v)
  <2> HIDE DEF s, n
  <2>1. Sound(n, c)
    BY <1>2, <1>3, <1>5, UsedFinite DEF Sound
  <2> QED BY <1>1, <1>4, <2>1, OneSlotContent DEF PutOf
<1> QED BY <1>1, <1>2, <1>3, <1>5

-----------------------------------------------------------------------------
(* The empty table is sound, and holds nothing.                            *)
LEMMA EmptyTable ==
    ASSUME NEW c \in Nat
    PROVE  /\ NoTable(c) \in Tables(c) /\ UsedSlots(NoTable(c), c) = {}
           /\ Cardinality(UsedSlots(NoTable(c), c)) = 0 /\ Findable(NoTable(c), c)
           /\ Sound(NoTable(c), c)
<1>1. NoTable(c) \in Tables(c) /\ UsedSlots(NoTable(c), c) = {}
  BY DEF NoTable, Tables, UsedSlots
<1>2. Findable(NoTable(c), c)
  BY <1>1 DEF Findable
<1>3. c # 0 => \E s \in Slots(c) : NoTable(c)[s] = Free
  <2>1. c # 0 => 0 \in Slots(c)
    BY DEF Slots
  <2> QED BY <2>1 DEF NoTable
<1> QED BY <1>1, <1>2, <1>3, FS_EmptySet DEF Sound

(* The growing table holds no more than the old one did, and every table   *)
(* is below its load: both have a free slot.                               *)
LEMMA TablesSound ==
    ASSUME IInv
    PROVE  /\ Sound(table, cap) /\ Sound(old, oldcap)
           /\ ~Idle => Cardinality(UsedSlots(table, cap)) <= len
           /\ CurrentCap \in Nat /\ Sound(Current, CurrentCap)
<1>1. /\ cap \in Nat /\ oldcap \in Nat /\ len \in Nat /\ DefaultCap \in Nat /\ DefaultCap >= 2
      /\ table \in Tables(cap) /\ old \in Tables(oldcap)
  BY ConstantsAssumption DEF IInv, TypeOK, Tables
<1>2. len = Cardinality(UsedSlots(Current, CurrentCap))
  BY DEF IInv, LenCounts, UsedSlots
<1>3. CASE Idle
  <2>1. oldcap = 0 /\ (cap # 0 => len < cap) /\ len = Cardinality(UsedSlots(table, cap))
    BY <1>1, <1>2, <1>3 DEF IInv, Phase, Load, Current, CurrentCap
  <2>2. cap # 0 => \E s \in Slots(cap) : table[s] = Free
    BY <1>1, <2>1, UsedFinite
  <2> QED BY <1>1, <1>3, <2>1, <2>2 DEF IInv, Sound, Current, CurrentCap
<1>4. CASE ~Idle
  <2>1. len = Cardinality(UsedSlots(old, oldcap))
    BY <1>2, <1>4 DEF Current, CurrentCap
  <2>2. MovedSlots \in SUBSET UsedSlots(old, oldcap)
    BY DEF MovedSlots, UsedSlots
  <2>3. Cardinality(UsedSlots(table, cap)) <= len
    BY <1>1, <1>4, <2>1, <2>2, UsedFinite, FS_Subset DEF IInv, Moved
  <2>4. /\ oldcap # 0 => len < oldcap /\ cap = 2 * oldcap
        /\ oldcap = 0 => len = 0 /\ cap = DefaultCap
    BY <1>1, <1>4 DEF IInv, Phase, Load, CurrentCap
  <2>5. len < cap
    BY <1>1, <2>4
  <2>6. \E s \in Slots(cap) : table[s] = Free
    BY <1>1, <2>3, <2>5, UsedFinite
  <2>7. oldcap # 0 => \E s \in Slots(oldcap) : old[s] = Free
    BY <1>1, <2>1, <2>4, UsedFinite
  <2> QED BY <1>1, <1>4, <2>3, <2>6, <2>7 DEF IInv, Sound, Current, CurrentCap
<1> QED BY <1>3, <1>4

(* A put that need not grow leaves the table below 3/4 afterwards; nothing *)
(* in the test wraps.                                                      *)
LEMMA LoadTest ==
    ASSUME IInv, Idle
    PROVE  MustGrow <=> 4 * (len + 1) >= 3 * cap
<1>1. cap \in Nat /\ len \in Nat /\ SIZE_MAX \in Nat /\ 8 * cap <= SIZE_MAX
  BY ConstantsAssumption DEF IInv, TypeOK, Phase
<1>2. cap = 0 => len = 0
  BY DEF IInv, Load, CurrentCap
<1>3. cap # 0 => 4 * len < 3 * cap
  BY DEF IInv, Load, CurrentCap
<1>4. CASE cap = 0
  <2>1. Wrap(cap * 3) = 0
    BY <1>1, <1>4, WrapId
  <2>2. Wrap(Wrap(len + 1) * 4) \in Nat
    BY <1>1, <1>2, <1>4 DEF Wrap
  <2> QED BY <1>1, <1>2, <1>4, <2>1, <2>2 DEF MustGrow
<1>5. CASE cap # 0
  <2>1. len + 1 <= cap /\ len + 1 <= SIZE_MAX /\ (len + 1) * 4 <= SIZE_MAX /\ cap * 3 <= SIZE_MAX
    BY <1>1, <1>3, <1>5
  <2>2. /\ len + 1 \in Nat /\ (len + 1) * 4 \in Nat /\ cap * 3 \in Nat
    BY <1>1
  <2>3. Wrap(len + 1) = len + 1 /\ Wrap((len + 1) * 4) = (len + 1) * 4 /\ Wrap(cap * 3) = cap * 3
    BY <2>1, <2>2, WrapId
  <2> QED BY <1>1, <2>3 DEF MustGrow
<1> QED BY <1>4, <1>5

(* Initially there is no table.                                            *)
LEMMA InitInv == Init => IInv
<1> SUFFICES ASSUME Init PROVE IInv
  OBVIOUS
<1> USE DEF Init
<1>1. Idle /\ Current = NoTable(0) /\ CurrentCap = 0
  BY DEF Idle, Current, CurrentCap
<1>2. NoTable(0) \in Tables(0) /\ Cardinality(UsedSlots(NoTable(0), 0)) = 0 /\ Findable(NoTable(0), 0)
  BY EmptyTable
<1>3. TypeOK
  BY <1>2 DEF TypeOK, Tables
<1>4. Phase /\ Load /\ Moved /\ NothingLeaks
  BY <1>1, ConstantsAssumption DEF Phase, Load, Moved, NothingLeaks
<1>5. LenCounts
  BY <1>1, <1>2 DEF LenCounts, UsedSlots
<1> QED BY <1>2, <1>3, <1>4, <1>5 DEF IInv

(* A fresh table, from bbq_hmap_init or none from bbq_hmap_free.           *)
LEMMA FreshInv ==
    ASSUME NEW c \in Nat, cap' = c, table' = NoTable(c), len' = 0, 8 * c <= SIZE_MAX,
           used' = (IF c = 0 THEN 0 ELSE TableBytes(c)), used' \in Nat,
           oom' \in BOOLEAN, refused' = {}, put' = NoPut, old' = NoTable(0), oldcap' = 0, i' = 0
    PROVE  IInv'
<1>1. Idle' /\ Current' = NoTable(c) /\ CurrentCap' = c
  BY DEF Idle, Current, CurrentCap
<1>2. /\ NoTable(c) \in Tables(c) /\ Cardinality(UsedSlots(NoTable(c), c)) = 0 /\ Findable(NoTable(c), c)
      /\ NoTable(0) \in Tables(0) /\ Findable(NoTable(0), 0)
  BY EmptyTable
<1>3. TypeOK'
  BY <1>2 DEF TypeOK, Tables
<1>4. Phase' /\ Load' /\ Moved' /\ NothingLeaks'
  BY <1>1, ConstantsAssumption DEF Phase, Load, Moved, NothingLeaks
<1>5. LenCounts'
  BY <1>1, <1>2 DEF LenCounts, UsedSlots
<1>6. Findable(table, cap)' /\ Findable(old, oldcap)'
  <2>1. Findable(table', cap') /\ Findable(old', oldcap')
    BY <1>2
  <2> QED BY <2>1 DEF Findable, UsedSlots, HMapSlot, Stops
<1> QED BY <1>3, <1>4, <1>5, <1>6 DEF IInv

(* round_pow2 returns a size: a power of two, or 0.                        *)
LEMMA RoundPow2Type == ASSUME NEW n \in Nat PROVE RoundPow2(n) \in Nat
<1> DEFINE D == {c \in Pow2s : c >= n}
           IsLeast(c) == c >= n /\ \A d \in Pow2s : d >= n => c <= d
<1>1. Pow2s \subseteq Nat
  BY ConstantsAssumption DEF Pow2s
<1>2. CASE \E c \in Pow2s : c >= n
  <2>1. D \in SUBSET Nat /\ D # {}
    BY <1>1, <1>2
  <2>2. PICK c \in D : \A e \in D : c <= e
    <3> HIDE DEF D
    <3> QED BY <2>1, Least
  <2>3. c \in Pow2s /\ IsLeast(c)
    BY <1>1, <2>2
  <2>4. RoundPow2(n) = CHOOSE x \in Pow2s : IsLeast(x)
    BY <1>2 DEF RoundPow2
  <2> HIDE DEF IsLeast
  <2> QED BY <1>1, <2>3, <2>4
<1>3. CASE ~ \E c \in Pow2s : c >= n
  BY <1>3 DEF RoundPow2
<1> QED BY <1>2, <1>3

(* bbq_hmap_init: an empty table, or none and the flag.                    *)
LEMMA InitStep ==
    ASSUME IInv, NEW initial \in InitCaps, HMapInit(initial)
    PROVE  IInv'
<1>1. PICK under \in [1 .. 3 -> BOOLEAN] :
         LET c == RoundPow2(IF initial = 0 THEN DefaultCap ELSE initial)
             r == HMapAlloc(c, under)
         IN /\ used' = r.used /\ oom' = ~r.ok
            /\ cap' = IF r.ok THEN c ELSE 0
            /\ table' = NoTable(cap')
  BY DEF HMapInit
<1> DEFINE c == RoundPow2(IF initial = 0 THEN DefaultCap ELSE initial)
           r == HMapAlloc(c, under)
<1>2. c \in Nat
  BY RoundPow2Type, ConstantsAssumption
<1>3. used = 0
  BY DEF IInv, NothingLeaks, Phase, HMapInit
<1>4. /\ r.ok \in BOOLEAN /\ r.used \in Nat
      /\ r.ok => c # 0 /\ 8 * c <= SIZE_MAX /\ r.used = used + TableBytes(c)
      /\ ~r.ok => r.used = used
  <2> HIDE DEF c
  <2> QED BY <1>2, <1>3, AllocBytes
<1>5. used' = r.used /\ oom' = ~r.ok /\ cap' = (IF r.ok THEN c ELSE 0) /\ table' = NoTable(cap')
  BY <1>1
<1> HIDE DEF c, r
<1>6. /\ cap' \in Nat /\ 8 * cap' <= SIZE_MAX /\ used' \in Nat /\ oom' \in BOOLEAN
      /\ used' = IF cap' = 0 THEN 0 ELSE TableBytes(cap')
  <2>1. CASE r.ok
    <3>1. TableBytes(c) \in Nat
      BY <1>2, ReleaseBytes
    <3> QED BY <1>2, <1>3, <1>4, <1>5, <2>1, <3>1
  <2>2. CASE ~r.ok
    BY <1>3, <1>4, <1>5, <2>2, ConstantsAssumption
  <2> QED BY <1>4, <2>1, <2>2
<1>7. len' = 0 /\ refused' = {} /\ put' = NoPut /\ old' = NoTable(0) /\ oldcap' = 0 /\ i' = 0
  <2>1. old = NoTable(0)
    <3>1. oldcap = 0 /\ old \in [Slots(0) -> (Keys \X Vals) \cup {Free}]
      BY DEF IInv, Phase, TypeOK, HMapInit
    <3> QED BY <3>1 DEF NoTable, Slots
  <2> QED BY <2>1 DEF HMapInit, Idle, IInv, Phase
<1> QED BY <1>5, <1>6, <1>7, FreshInv

(* bbq_hmap_free: no table.                                                *)
LEMMA FreeStep == ASSUME IInv, HMapFree PROVE IInv'
<1>1. cap \in Nat /\ oldcap = 0 /\ used = (IF cap = 0 THEN 0 ELSE TableBytes(cap)) + 0
  BY DEF IInv, TypeOK, Phase, NothingLeaks, HMapFree
<1>2. used' = 0
  <2>1. CASE cap = 0
    BY <1>1, <2>1 DEF HMapFree
  <2>2. CASE cap # 0
    <3>1. TableBytes(cap) \in Nat
      BY <1>1, ReleaseBytes
    <3>2. used = 0 + TableBytes(cap)
      BY <1>1, <2>2, <3>1
    <3> QED BY <1>1, <2>2, <3>2, ReleaseBytes DEF HMapFree
  <2> QED BY <2>1, <2>2
<1>3. old = NoTable(0)
  <2>1. old \in [Slots(0) -> (Keys \X Vals) \cup {Free}]
    BY <1>1 DEF IInv, TypeOK
  <2> QED BY <2>1 DEF NoTable, Slots
<1>4. /\ cap' = 0 /\ table' = NoTable(0) /\ len' = 0 /\ oom' \in BOOLEAN /\ refused' = {}
      /\ put' = NoPut /\ old' = NoTable(0) /\ oldcap' = 0 /\ i' = 0
  BY <1>1, <1>3 DEF HMapFree, Idle, IInv, Phase
<1> QED BY <1>2, <1>4, FreshInv, ConstantsAssumption

(* The store that ends a put: the table stays sound below its load, the    *)
(* length counts its entries and its content is that of the map's put.     *)
LEMMA StoreStep ==
    ASSUME Sound(table, cap), cap # 0, len \in Nat, len = Cardinality(UsedSlots(table, cap)),
           4 * (len + 1) < 3 * cap, NEW k \in Keys, NEW v \in Vals, Store(k, v)
    PROVE  /\ table' \in Tables(cap) /\ Findable(table', cap) /\ Sound(table', cap)
           /\ len' \in Nat /\ len' = Cardinality(UsedSlots(table', cap))
           /\ 4 * len' < 3 * cap
           /\ Content(table', cap) = PutOf(Content(table, cap), k, v)
<1> DEFINE s == HMapSlot(table, k, cap)
<1>1. table' = After(table, cap, k, v) /\ len' = IF table[s] = Free THEN len + 1 ELSE len
  BY DEF Store, After
<1>2. /\ table' \in Tables(cap) /\ Findable(table', cap)
      /\ table[s] = Free => Cardinality(UsedSlots(table', cap)) = len + 1
      /\ table[s] # Free => Cardinality(UsedSlots(table', cap)) = len
      /\ Cardinality(UsedSlots(table', cap)) < cap =>
           /\ Sound(table', cap)
           /\ Content(table', cap) = PutOf(Content(table, cap), k, v)
  BY <1>1, Stored
<1> HIDE DEF s
<1>3. cap \in Nat
  BY DEF Sound
<1>4. len' = Cardinality(UsedSlots(table', cap)) /\ len' \in Nat /\ 4 * len' < 3 * cap /\ len' < cap
  BY <1>1, <1>2, <1>3
<1> QED BY <1>2, <1>4

(* A put with room: the entry is stored and the load stays below 3/4.      *)
LEMMA PutInPlaceStep ==
    ASSUME IInv, NEW k \in Keys, NEW v \in Vals, PutInPlace(k, v)
    PROVE  /\ IInv'
           /\ Idle /\ Idle' /\ oom' = oom
           /\ Content(table', cap') = PutOf(Content(table, cap), k, v)
<1>1. /\ Idle /\ cap \in Nat /\ len \in Nat /\ Sound(table, cap) /\ 4 * (len + 1) < 3 * cap
      /\ len = Cardinality(UsedSlots(table, cap)) /\ oldcap = 0 /\ i = 0 /\ cap # 0
  <2>1. len = Cardinality(UsedSlots(table, cap))
    BY DEF IInv, LenCounts, UsedSlots, Current, CurrentCap, PutInPlace
  <2> QED BY <2>1, LoadTest, TablesSound DEF IInv, TypeOK, Phase, PutInPlace
<1>2. Store(k, v) /\ UNCHANGED <<cap, oom, used, put, old, oldcap, i>> /\ refused' = {}
  BY DEF PutInPlace
<1>3. /\ table' \in Tables(cap) /\ Findable(table', cap)
      /\ len' \in Nat /\ len' = Cardinality(UsedSlots(table', cap)) /\ 4 * len' < 3 * cap
      /\ Content(table', cap) = PutOf(Content(table, cap), k, v)
  BY <1>1, <1>2, StoreStep
<1>4. Idle' /\ Current' = table' /\ CurrentCap' = cap
  BY <1>1, <1>2 DEF Idle, Current, CurrentCap
<1>5. TypeOK'
  BY <1>1, <1>2, <1>3 DEF IInv, TypeOK, Tables
<1>6. Phase' /\ Moved' /\ NothingLeaks'
  BY <1>1, <1>2, <1>4 DEF IInv, Phase, Moved, NothingLeaks, Idle
<1>7. Load'
  BY <1>1, <1>3, <1>4 DEF Load
<1>8. LenCounts'
  BY <1>3, <1>4 DEF LenCounts, UsedSlots
<1>9. Findable(table, cap)' /\ Findable(old, oldcap)'
  <2>1. Findable(table', cap') /\ Findable(old', oldcap')
    BY <1>2, <1>3 DEF IInv
  <2> QED BY <2>1 DEF Findable, UsedSlots, HMapSlot, Stops
<1> QED BY <1>1, <1>2, <1>3, <1>4, <1>5, <1>6, <1>7, <1>8, <1>9 DEF IInv

(* hmap_grow up to its loop: a fresh table beside the old one, or a        *)
(* refusal that leaves the map as it was.                                  *)
LEMMA GrowStep ==
    ASSUME IInv, NEW k \in Keys, NEW v \in Vals, Grow(k, v)
    PROVE  IInv'
<1>1. PICK under \in [1 .. 3 -> BOOLEAN] :
         LET c == IF cap = 0 THEN DefaultCap ELSE Wrap(cap * 2)
             r == IF 2 * cap > SIZE_MAX THEN [ok |-> FALSE, used |-> used]
                  ELSE HMapAlloc(c, under)
         IN /\ used' = r.used
            /\ IF r.ok
               THEN /\ table' = NoTable(c) /\ cap' = c
                    /\ old' = table /\ oldcap' = cap /\ i' = 0
                    /\ put' = <<k, v>>
                    /\ refused' = {} /\ UNCHANGED oom
               ELSE /\ oom' = TRUE /\ refused' = {k}
                    /\ UNCHANGED <<table, cap, old, oldcap, i, put>>
  BY DEF Grow
<1> DEFINE c == IF cap = 0 THEN DefaultCap ELSE Wrap(cap * 2)
           r == IF 2 * cap > SIZE_MAX THEN [ok |-> FALSE, used |-> used]
                ELSE HMapAlloc(c, under)
<1>2. /\ Idle /\ cap \in Nat /\ len \in Nat /\ used \in Nat /\ oldcap = 0 /\ i = 0 /\ len' = len
      /\ SIZE_MAX \in Nat /\ DefaultCap \in Nat /\ 8 * cap <= SIZE_MAX
      /\ used = IF cap = 0 THEN 0 ELSE TableBytes(cap)
      /\ len = Cardinality(UsedSlots(table, cap))
  <2>1. len = Cardinality(UsedSlots(table, cap))
    BY DEF IInv, LenCounts, UsedSlots, Current, CurrentCap, Grow
  <2>2. TableBytes(cap) \in Nat
    BY ReleaseBytes DEF IInv, TypeOK
  <2> QED BY <2>1, <2>2, ConstantsAssumption DEF IInv, TypeOK, Phase, NothingLeaks, Grow
<1>3. c = (IF cap = 0 THEN DefaultCap ELSE 2 * cap) /\ c \in Nat
  BY <1>2, WrapId
<1>4. /\ r.ok \in BOOLEAN /\ r.used \in Nat
      /\ r.ok => c # 0 /\ 8 * c <= SIZE_MAX /\ r.used = used + TableBytes(c)
      /\ ~r.ok => r.used = used
  <2>1. CASE 2 * cap > SIZE_MAX
    BY <1>2, <2>1
  <2>2. CASE ~(2 * cap > SIZE_MAX)
    <3>1. r = HMapAlloc(c, under)
      BY <2>2
    <3> HIDE DEF c, r
    <3> QED BY <1>2, <1>3, <3>1, AllocBytes
  <2> QED BY <2>1, <2>2
<1>5. CASE r.ok
  <2>1. /\ used' = used + TableBytes(c) /\ table' = NoTable(c) /\ cap' = c /\ old' = table
        /\ oldcap' = cap /\ i' = 0 /\ put' = <<k, v>> /\ refused' = {} /\ oom' = oom
    BY <1>1, <1>4, <1>5
  <2>2. TableBytes(c) \in Nat
    BY <1>3, ReleaseBytes
  <2>3. /\ NoTable(c) \in Tables(c) /\ Cardinality(UsedSlots(NoTable(c), c)) = 0
        /\ UsedSlots(NoTable(c), c) = {} /\ Findable(NoTable(c), c)
    BY <1>3, EmptyTable
  <2> HIDE DEF c, r
  <2>4. <<k, v>> \in Keys \X Vals /\ <<k, v>> # NoPut
    BY ConstantsAssumption
  <2>5. ~Idle' /\ Current' = table /\ CurrentCap' = cap
    BY <2>1, <2>4 DEF Idle, Current, CurrentCap
  <2>6. TypeOK'
    BY <1>2, <1>3, <1>4, <1>5, <2>1, <2>2, <2>3, <2>4 DEF IInv, TypeOK, Tables
  <2>7. Phase'
    BY <1>2, <1>3, <1>4, <1>5, <2>1, <2>5 DEF Phase
  <2>8. Load'
    BY <1>2, <2>5 DEF IInv, Load, Current, CurrentCap
  <2>9. Moved'
    <3>1. MovedSlots' = {}
      BY <1>2, <2>1 DEF MovedSlots, Slots
    <3>2. UsedSlots(table, cap)' = {}
      BY <2>1, <2>3 DEF UsedSlots
    <3> QED BY <3>1, <3>2 DEF Moved
  <2>10. LenCounts'
    BY <1>2, <2>5 DEF LenCounts, UsedSlots
  <2>11. NothingLeaks'
    BY <1>2, <1>4, <1>5, <2>1, <2>2 DEF NothingLeaks
  <2>12. Findable(table, cap)' /\ Findable(old, oldcap)'
    <3>1. Findable(table', cap') /\ Findable(old', oldcap')
      BY <2>1, <2>3 DEF IInv
    <3> QED BY <3>1 DEF Findable, UsedSlots, HMapSlot, Stops
  <2> QED BY <2>6, <2>7, <2>8, <2>9, <2>10, <2>11, <2>12 DEF IInv
<1>6. CASE ~r.ok
  <2>1. used' = used /\ oom' = TRUE /\ refused' = {k} /\ UNCHANGED <<table, cap, len, old, oldcap, i, put>>
    BY <1>1, <1>2, <1>4, <1>6
  <2> HIDE DEF c, r
  <2>2. TypeOK'
    BY <2>1 DEF IInv, TypeOK
  <2>3. Phase' /\ Load' /\ NothingLeaks'
    BY <2>1 DEF IInv, Phase, Load, NothingLeaks, Idle, Current, CurrentCap
  <2>4. LenCounts'
    BY <2>1 DEF IInv, LenCounts, Idle, Current, CurrentCap
  <2>5. Moved'
    BY <1>2, <2>1 DEF Moved, Idle
  <2>6. Findable(table, cap)' /\ Findable(old, oldcap)'
    <3>1. Findable(table', cap') /\ Findable(old', oldcap')
      BY <2>1 DEF IInv
    <3> QED BY <3>1 DEF Findable, UsedSlots, HMapSlot, Stops
  <2> QED BY <2>2, <2>3, <2>4, <2>5, <2>6 DEF IInv
<1> QED BY <1>4, <1>5, <1>6

(* One turn of the re-placing loop: the entry of old slot i is put where   *)
(* its probe stops, which is free because no key is in the old table twice.*)
LEMMA ReplaceStep == ASSUME IInv, Replace PROVE IInv'
<1>1. /\ ~Idle /\ i \in Nat /\ oldcap \in Nat /\ i < oldcap /\ cap \in Nat /\ cap # 0 /\ oldcap # 0
      /\ Sound(table, cap) /\ Sound(old, oldcap)
  BY TablesSound DEF IInv, TypeOK, Phase, Replace
<1>2. /\ i' = i + 1 /\ UNCHANGED <<cap, len, oom, used, put, old, oldcap, refused>>
      /\ ~Idle' /\ i \in Slots(oldcap)
  BY <1>1 DEF Replace, Idle, Slots
<1>3. /\ Cardinality(UsedSlots(table, cap)) = Cardinality(MovedSlots)
      /\ \A m \in MovedSlots : \E u \in Slots(cap) : table[u] = old[m]
      /\ \A u \in UsedSlots(table, cap) : \E m \in MovedSlots : old[m] = table[u]
  BY <1>1 DEF IInv, Moved
<1>4. /\ table' \in Tables(cap) /\ Findable(table', cap)
      /\ Cardinality(UsedSlots(table', cap)) = Cardinality(MovedSlots')
      /\ \A m \in MovedSlots' : \E u \in Slots(cap) : table'[u] = old[m]
      /\ \A u \in UsedSlots(table', cap) : \E m \in MovedSlots' : old[m] = table'[u]
  <2>1. CASE old[i] = Free
    <3>1. table' = table
      BY <2>1 DEF Replace
    <3>2. MovedSlots' = MovedSlots
      BY <1>1, <1>2, <2>1 DEF MovedSlots, Slots
    <3> QED BY <1>1, <1>3, <3>1, <3>2 DEF Sound
  <2>2. CASE old[i] # Free
    <3> DEFINE k == old[i][1]
               v == old[i][2]
               s == HMapSlot(table, k, cap)
    <3>1. k \in Keys /\ v \in Vals /\ old[i] = <<k, v>>
      <4>1. old[i] \in Keys \X Vals
        BY <1>1, <1>2, <2>2 DEF Sound, Tables
      <4> QED BY <4>1, EntryShape
    <3>2. table' = After(table, cap, k, v)
      BY <2>2, <3>1 DEF Replace, After
    <3> HIDE DEF k, v
    <3>3. s \in Slots(cap) /\ (table[s] # Free => table[s][1] = k)
      BY <1>1, <3>1, SlotValue DEF Sound
    <3>4. table[s] = Free
      <4> SUFFICES ASSUME table[s] # Free PROVE FALSE
        OBVIOUS
      <4>1. PICK m \in MovedSlots : old[m] = table[s]
        BY <1>3, <3>3 DEF UsedSlots
      <4>2. m \in UsedSlots(old, oldcap) /\ old[m][1] = k /\ m < i
        BY <3>3, <4>1 DEF UsedSlots, MovedSlots
      <4>3. i \in UsedSlots(old, oldcap) /\ old[i][1] = k
        BY <1>2, <2>2, <3>1 DEF UsedSlots, k
      <4>4. HMapSlot(old, k, oldcap) = m /\ HMapSlot(old, k, oldcap) = i
        BY <1>1, <3>1, <4>2, <4>3, FindableSlot DEF Sound
      <4> QED BY <1>1, <4>2, <4>4
    <3>5. /\ table' \in Tables(cap) /\ Findable(table', cap)
          /\ Cardinality(UsedSlots(table', cap)) = Cardinality(UsedSlots(table, cap)) + 1
      BY <1>1, <3>1, <3>2, <3>4, Stored
    <3>6. table'[s] = old[i] /\ \A u \in Slots(cap) : u # s => table'[u] = table[u]
      BY <1>1, <3>1, <3>2, <3>3 DEF After, Sound, Tables
    <3>7. MovedSlots' = MovedSlots \cup {i} /\ i \notin MovedSlots
      BY <1>1, <1>2, <2>2 DEF MovedSlots, Slots
    <3>8. Cardinality(MovedSlots') = Cardinality(MovedSlots) + 1
      <4>1. MovedSlots \in SUBSET UsedSlots(old, oldcap) /\ IsFiniteSet(UsedSlots(old, oldcap))
        BY <1>1, UsedFinite DEF MovedSlots, UsedSlots, Sound
      <4>2. IsFiniteSet(MovedSlots)
        BY <4>1, FS_Subset
      <4> QED BY <3>7, <4>2, FS_AddElement
    <3>9. ASSUME NEW m \in MovedSlots' PROVE \E u \in Slots(cap) : table'[u] = old[m]
      <4>1. CASE m = i
        BY <3>3, <3>6, <4>1
      <4>2. CASE m \in MovedSlots
        <5>1. PICK u \in Slots(cap) : table[u] = old[m]
          BY <1>3, <4>2
        <5>2. u # s
          BY <3>4, <4>2, <5>1 DEF MovedSlots
        <5> QED BY <3>6, <5>1, <5>2
      <4> QED BY <3>7, <3>9, <4>1, <4>2
    <3>10. ASSUME NEW u \in UsedSlots(table', cap) PROVE \E m \in MovedSlots' : old[m] = table'[u]
      <4>1. CASE u = s
        BY <3>6, <3>7, <4>1
      <4>2. CASE u # s
        <5>1. table'[u] = table[u] /\ u \in UsedSlots(table, cap)
          BY <3>6, <4>2 DEF UsedSlots
        <5> QED BY <1>3, <3>7, <5>1
      <4> QED BY <4>1, <4>2
    <3> QED BY <1>3, <3>5, <3>8, <3>9, <3>10
  <2> QED BY <2>1, <2>2
<1>5. TypeOK'
  BY <1>1, <1>2, <1>4 DEF IInv, TypeOK, Tables
<1>6. Phase'
  BY <1>1, <1>2 DEF IInv, Phase
<1>7. Load' /\ LenCounts' /\ NothingLeaks'
  BY <1>1, <1>2 DEF IInv, Load, LenCounts, NothingLeaks, Current, CurrentCap
<1>8. Moved'
  BY <1>2, <1>4 DEF Moved, UsedSlots
<1>9. Findable(table, cap)' /\ Findable(old, oldcap)'
  <2>1. Findable(table', cap') /\ Findable(old', oldcap')
    BY <1>2, <1>4 DEF IInv
  <2> QED BY <2>1 DEF Findable, UsedSlots, HMapSlot, Stops
<1> QED BY <1>5, <1>6, <1>7, <1>8, <1>9 DEF IInv

(* The put that grew resumes in a table with the entries of the old one,   *)
(* all of them, below its load.                                            *)
LEMMA ResumeStep ==
    ASSUME IInv, Resume
    PROVE  /\ IInv'
           /\ ~Idle /\ Idle' /\ oom' = oom /\ put \in Keys \X Vals
           /\ Content(table', cap') = PutOf(Content(old, oldcap), put[1], put[2])
<1>1. /\ ~Idle /\ i \in Nat /\ oldcap \in Nat /\ i >= oldcap /\ cap \in Nat /\ len \in Nat
      /\ Sound(table, cap) /\ Sound(old, oldcap)
      /\ cap = (IF oldcap = 0 THEN DefaultCap ELSE 2 * oldcap)
      /\ DefaultCap \in Nat /\ DefaultCap >= 2
      /\ put \in Keys \X Vals
  BY TablesSound, ConstantsAssumption DEF IInv, TypeOK, Phase, Resume, Idle
<1> DEFINE k == put[1]
           v == put[2]
<1>2. k \in Keys /\ v \in Vals
  BY <1>1
<1>3. /\ Store(k, v) /\ put' = NoPut /\ old' = NoTable(0) /\ oldcap' = 0 /\ i' = 0
      /\ refused' = {} /\ cap' = cap /\ oom' = oom
  BY DEF Resume
<1> HIDE DEF k, v
<1>4. MovedSlots = UsedSlots(old, oldcap)
  BY <1>1 DEF MovedSlots, UsedSlots, Slots
<1>5. /\ len = Cardinality(UsedSlots(old, oldcap))
      /\ IF oldcap = 0 THEN len = 0 ELSE 4 * len < 3 * oldcap
  BY <1>1 DEF IInv, LenCounts, UsedSlots, Load, Current, CurrentCap
<1>6. /\ len = Cardinality(UsedSlots(table, cap))
      /\ Content(table, cap) = Content(old, oldcap)
  <2>1. /\ Cardinality(UsedSlots(table, cap)) = Cardinality(MovedSlots)
        /\ \A m \in MovedSlots : \E u \in Slots(cap) : table[u] = old[m]
        /\ \A u \in UsedSlots(table, cap) : \E m \in MovedSlots : old[m] = table[u]
    BY <1>1 DEF IInv, Moved
  <2>2. \A m \in UsedSlots(old, oldcap) : \E u \in UsedSlots(table, cap) : table[u] = old[m]
    BY <1>4, <2>1 DEF UsedSlots
  <2>3. Content(table, cap) = Content(old, oldcap)
    BY <1>1, <1>4, <2>1, <2>2, SameContent
  <2> QED BY <1>4, <1>5, <2>1, <2>3
<1>7. 4 * (len + 1) < 3 * cap /\ cap # 0
  BY <1>1, <1>5
<1>8. /\ table' \in Tables(cap) /\ Findable(table', cap)
      /\ len' \in Nat /\ len' = Cardinality(UsedSlots(table', cap)) /\ 4 * len' < 3 * cap
      /\ Content(table', cap) = PutOf(Content(table, cap), k, v)
  BY <1>1, <1>2, <1>3, <1>6, <1>7, StoreStep
<1>9. used' = TableBytes(cap) /\ used' \in Nat
  <2>1. TableBytes(cap) \in Nat /\ TableBytes(oldcap) \in Nat
    BY <1>1, ReleaseBytes
  <2>2. used = TableBytes(cap) + (IF oldcap = 0 THEN 0 ELSE TableBytes(oldcap))
    BY <1>7 DEF IInv, NothingLeaks
  <2>3. CASE oldcap = 0
    BY <2>1, <2>2, <2>3 DEF Resume
  <2>4. CASE oldcap # 0
    <3>1. used = TableBytes(cap) + TableBytes(oldcap)
      BY <2>2, <2>4
    <3> QED BY <1>1, <2>1, <2>4, <3>1, ReleaseBytes DEF Resume
  <2> QED BY <2>3, <2>4
<1>10. Idle' /\ Current' = table' /\ CurrentCap' = cap
  BY <1>3 DEF Idle, Current, CurrentCap
<1>11. NoTable(0) \in Tables(0) /\ Findable(NoTable(0), 0)
  BY EmptyTable
<1>12. TypeOK'
  BY <1>1, <1>3, <1>8, <1>9, <1>11 DEF IInv, TypeOK, Tables
<1>13. Phase' /\ Moved' /\ NothingLeaks'
  <2>1. TableBytes(cap) \in Nat
    BY <1>1, ReleaseBytes
  <2>2. Phase' /\ Moved'
    BY <1>3, <1>10, ConstantsAssumption DEF IInv, Phase, Moved
  <2>3. NothingLeaks'
    BY <1>3, <1>7, <1>9, <2>1 DEF NothingLeaks
  <2> QED BY <2>2, <2>3
<1>14. Load'
  BY <1>7, <1>8, <1>10 DEF Load
<1>15. LenCounts'
  BY <1>8, <1>10 DEF LenCounts, UsedSlots
<1>16. Findable(table, cap)' /\ Findable(old, oldcap)'
  <2>1. Findable(table', cap') /\ Findable(old', oldcap')
    BY <1>3, <1>8, <1>11
  <2> QED BY <2>1 DEF Findable, UsedSlots, HMapSlot, Stops
<1> QED BY <1>1, <1>3, <1>6, <1>8, <1>10, <1>12, <1>13, <1>14, <1>15, <1>16 DEF IInv, k, v

-----------------------------------------------------------------------------
(* Every step of bbq_hmap preserves the invariant.                         *)
LEMMA StepInv == IInv /\ [Next]_vars => IInv'
<1> SUFFICES ASSUME IInv, [Next]_vars PROVE IInv'
  OBVIOUS
<1>1. ASSUME NEW initial \in InitCaps, HMapInit(initial) PROVE IInv'
  BY <1>1, InitStep
<1>2. CASE HMapFree
  BY <1>2, FreeStep
<1>3. ASSUME NEW k \in Keys, NEW v \in Vals, PutInPlace(k, v) PROVE IInv'
  BY <1>3, PutInPlaceStep
<1>4. ASSUME NEW k \in Keys, NEW v \in Vals, Grow(k, v) PROVE IInv'
  BY <1>4, GrowStep
<1>5. CASE Replace
  BY <1>5, ReplaceStep
<1>6. CASE Resume
  BY <1>6, ResumeStep
<1>7. CASE UNCHANGED vars
  <2>1. TypeOK'
    BY <1>7 DEF IInv, TypeOK, vars
  <2>2. Phase' /\ Load' /\ NothingLeaks'
    BY <1>7 DEF IInv, Phase, Load, NothingLeaks, Idle, Current, CurrentCap, vars
  <2>3. LenCounts'
    BY <1>7 DEF IInv, LenCounts, Idle, Current, CurrentCap, vars
  <2>4. Moved'
    <3>1. MovedSlots' = MovedSlots /\ UsedSlots(table, cap)' = UsedSlots(table, cap)
      BY <1>7 DEF MovedSlots, UsedSlots, vars
    <3> QED BY <1>7, <3>1 DEF IInv, Moved, Idle, vars
  <2>5. Findable(table, cap)' /\ Findable(old, oldcap)'
    <3>1. Findable(table', cap') /\ Findable(old', oldcap')
      BY <1>7 DEF IInv, vars
    <3> QED BY <3>1 DEF Findable, UsedSlots, HMapSlot, Stops
  <2> QED BY <2>1, <2>2, <2>3, <2>4, <2>5 DEF IInv
<1> QED BY <1>1, <1>2, <1>3, <1>4, <1>5, <1>6, <1>7 DEF Next

(* bbq_hmap.c:104-159, for every size_t, seed, budget and call sequence:   *)
(* the invariant holds in every phase of every put.                        *)
THEOREM HMapInvariant == Spec => []IInv
<1>1. Init => IInv
  BY InitInv
<1>2. IInv /\ [Next]_vars => IInv'
  BY StepInv
<1> QED BY <1>1, <1>2, PTL DEF Spec

(* bbq_hmap.c:104, no table a probe walks is ever full: hmap_slot ends.    *)
THEOREM ProbesAlwaysEnd == Spec => []ProbesEnd
<1>1. IInv => ProbesEnd
  BY TablesSound DEF ProbesEnd, Sound
<1> QED BY <1>1, HMapInvariant, PTL

(* bbq_hmap.h:98 and bbq_hmap.c:40-65, the length counts the entries and   *)
(* what is charged to the budget is the bytes of the tables.               *)
THEOREM LenAndBytes == Spec => [](LenCounts /\ NothingLeaks)
<1>1. IInv => LenCounts /\ NothingLeaks
  BY DEF IInv
<1> QED BY <1>1, HMapInvariant, PTL

-----------------------------------------------------------------------------
(* The map the table stands for.                                           *)
Map == Content(Current, CurrentCap)

(* Initially it is empty.                                                  *)
LEMMA InitRefines == Init => M!Init
<1> SUFFICES ASSUME Init PROVE M!Init
  OBVIOUS
<1>1. CurrentCap = 0
  BY DEF Init, Idle, CurrentCap
<1>2. Present = {}
  BY <1>1 DEF Present, Contains
<1> QED BY <1>2 DEF Init, M!Init, M!Empty

(* A sound table in which nothing is used stands for the empty map.        *)
LEMMA NothingPresent ==
    ASSUME NEW c \in Nat
    PROVE  {k \in Keys : Contains(NoTable(c), c, k)} = {}
BY EmptyTable, Lookup

(* Every step of the table is a step of the map: a put takes effect when   *)
(* its entry is stored, growing changes nothing, a refusal sets the flag.  *)
LEMMA StepRefines == IInv /\ [Next]_vars => [M!Next]_M!vars
<1> DEFINE map == [k \in Present |-> Get(Current, CurrentCap, k)]
<1>0. map = Map /\ map' = Map'
  BY DEF Map, Content, Present
<1> SUFFICES ASSUME IInv, [Next]_vars PROVE M!Next \/ (map' = map /\ oom' = oom)
  BY DEF M!vars
<1> HIDE DEF map
<1>1. ASSUME NEW initial \in InitCaps, HMapInit(initial) PROVE M!Renew
  <2>1. table' = NoTable(cap') /\ Idle' /\ cap' \in Nat /\ oom' \in BOOLEAN
    BY <1>1, InitStep DEF HMapInit, Idle, IInv, TypeOK
  <2>2. Current' = NoTable(cap') /\ CurrentCap' = cap'
    BY <2>1 DEF Current, CurrentCap
  <2>3. Present' = {}
    BY <2>1, <2>2, NothingPresent DEF Present
  <2> QED BY <2>1, <2>3 DEF M!Renew, M!Empty
<1>2. ASSUME HMapFree PROVE M!Renew
  <2>1. Idle' /\ cap' = 0 /\ oom' \in BOOLEAN
    BY <1>2 DEF HMapFree, Idle
  <2>2. Present' = {}
    BY <2>1 DEF Present, Contains, Current, CurrentCap
  <2> QED BY <2>1, <2>2 DEF M!Renew, M!Empty
<1>3. ASSUME NEW k \in Keys, NEW v \in Vals, PutInPlace(k, v) PROVE M!Put(k, v)
  <2>1. Map = Content(table, cap) /\ Map' = Content(table', cap')
    BY <1>3, PutInPlaceStep DEF Map, Current, CurrentCap
  <2>2. map' = PutOf(map, k, v) /\ oom' = oom
    BY <1>0, <1>3, <2>1, PutInPlaceStep
  <2> QED BY <2>2 DEF M!Put, PutOf, map
<1>4. ASSUME NEW k \in Keys, NEW v \in Vals, Grow(k, v)
      PROVE  M!Refuse \/ (map' = map /\ oom' = oom)
  <2>1. \/ old' = table /\ oldcap' = cap /\ put' = <<k, v>> /\ oom' = oom
        \/ oom' = TRUE /\ UNCHANGED <<table, cap, put>>
    BY <1>4 DEF Grow
  <2>2. Idle /\ <<k, v>> # NoPut
    BY <1>4, ConstantsAssumption DEF Grow
  <2>3. Current' = Current /\ CurrentCap' = CurrentCap
    BY <2>1, <2>2 DEF Idle, Current, CurrentCap
  <2>4. map' = map
    BY <1>0, <2>3, SMTT(60) DEF Map, Content, Contains, Get, HMapSlot, Stops
  <2> QED BY <2>1, <2>4 DEF M!Refuse, map
<1>5. ASSUME Replace PROVE map' = map /\ oom' = oom
  <2>1. Current' = Current /\ CurrentCap' = CurrentCap
    BY <1>5 DEF Replace, Idle, Current, CurrentCap
  <2> QED BY <1>0, <1>5, <2>1 DEF Replace, Map, Content, Contains, Get, HMapSlot, Stops
<1>6. ASSUME Resume PROVE \E k \in Keys, v \in Vals : M!Put(k, v)
  <2>1. put[1] \in Keys /\ put[2] \in Vals
    BY <1>6, ResumeStep
  <2>2. Map = Content(old, oldcap) /\ Map' = Content(table', cap')
    BY <1>6, ResumeStep DEF Map, Current, CurrentCap
  <2>3. map' = PutOf(map, put[1], put[2]) /\ oom' = oom
    BY <1>0, <1>6, <2>2, ResumeStep
  <2>4. M!Put(put[1], put[2])
    BY <2>3 DEF M!Put, PutOf, map
  <2> QED BY <2>1, <2>4
<1>7. ASSUME UNCHANGED vars PROVE map' = map /\ oom' = oom
  <2>1. Current' = Current /\ CurrentCap' = CurrentCap /\ oom' = oom
    BY <1>7 DEF vars, Idle, Current, CurrentCap
  <2> QED BY <1>0, <2>1 DEF Map, Content, Contains, Get, HMapSlot, Stops
<1> QED BY <1>1, <1>2, <1>3, <1>4, <1>5, <1>6, <1>7 DEF Next, M!Next

(* bbq_hmap.h:82-89, a put either takes effect as a map's put or is        *)
(* refused and changes no answer, through any number of growths.           *)
THEOREM ImplementsMap == Spec => ImplementsFiniteMap
<1>1. Init => M!Init
  BY InitRefines
<1>2. IInv /\ [Next]_vars => [M!Next]_M!vars
  BY StepRefines
<1> QED BY <1>1, <1>2, HMapInvariant, PTL DEF Spec, ImplementsFiniteMap, M!Spec
=============================================================================
