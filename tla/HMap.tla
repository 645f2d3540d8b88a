-------------------------------- MODULE HMap --------------------------------
(***************************************************************************)
(* src/crt/bbq_hmap.c: an open-addressed map with linear probing that      *)
(* doubles at 3/4 load, under an allocator that may refuse.  The three     *)
(* parallel arrays are one table of entries; growing re-places them one by *)
(* one, which is one step each, and a put that grew resumes afterwards.    *)
(* size_t is 0 .. SIZE_MAX, so that its limits are within reach.           *)
(***************************************************************************)
EXTENDS Integers, FiniteSets

CONSTANTS Keys, Vals,
          Mix,         \* hmap_mix under the map's seed: any function of the key
          DefaultCap,  \* BBQ_HMAP_DEFAULT_CAP
          SIZE_MAX,    \* the largest size_t
          InitCaps,    \* initial_cap arguments
          Limit,       \* the budget the map allocates from
          Free,        \* what an unused slot holds
          NoPut        \* no put is under way

ASSUME ConstantsAssumption ==
    /\ SIZE_MAX \in Nat /\ DefaultCap \in Nat /\ DefaultCap >= 2
    /\ Mix \in [Keys -> Nat] /\ InitCaps \subseteq Nat /\ Limit \in Nat
    /\ Free \notin Keys \X Vals /\ NoPut \notin Keys \X Vals

VARIABLES table,   \* slot -> <<key, value>> or Free
          cap,     \* slots: a power of two, or 0 when there is no table
          len,     \* entries in use
          oom,     \* sticky: some put was refused
          used,    \* bytes charged to the budget
          put,     \* the <<key, value>> being put while the table grows
          old,     \* old_keys/old_vals/old_used while the table grows
          oldcap,  \* old_cap
          i,       \* the loop index of hmap_grow
          refused  \* {k} when the last call was a refused put of k (history)

vars == <<table, cap, len, oom, used, put, old, oldcap, i, refused>>

-----------------------------------------------------------------------------
(* The budget allocator of src/crt/bbq_alloc.c.  It refuses what would     *)
(* take the live total past its limit; what is under it (libc, or the      *)
(* fault injector of the tests) may refuse too, which is the Boolean       *)
(* "under".  A refusal is a NULL return and changes no byte count.         *)

\* bbq_mem_array_bytes: n * size, or 0 when the product would not fit size_t.
ArrayBytes(n, size) == IF n * size > SIZE_MAX THEN 0 ELSE n * size

\* budget_alloc's test, written in the code so that it cannot overflow.
BudgetGrants(total, limit, n) == total <= limit /\ n <= limit - total

\* What is charged after a request for n bytes: [ok, used].
BudgetAlloc(total, limit, n, under) ==
    IF n # 0 /\ BudgetGrants(total, limit, n) /\ under
    THEN [ok |-> TRUE,  used |-> total + n]
    ELSE [ok |-> FALSE, used |-> total]

BudgetRelease(total, n) == IF n > total THEN 0 ELSE total - n

-----------------------------------------------------------------------------
(* The map.                                                                *)

Wrap(n) == n % (SIZE_MAX + 1)
Slots(c) == 0 .. c - 1
NoTable(c) == [s \in Slots(c) |-> Free]

\* round_pow2: the least power of two at or above n, 0 when there is none.
Pow2s == {c \in 1 .. SIZE_MAX : \A d \in 2 .. c : c % d = 0 => d % 2 = 0}
RoundPow2(n) ==
    IF \E c \in Pow2s : c >= n
    THEN CHOOSE c \in Pow2s : c >= n /\ \A d \in Pow2s : d >= n => c <= d
    ELSE 0

\* kbytes, vbytes and ubytes.
ArraysOf(c) == <<ArrayBytes(c, 8), ArrayBytes(c, 8), ArrayBytes(c, 1)>>
TableBytes(c) == ArraysOf(c)[1] + ArraysOf(c)[2] + ArraysOf(c)[3]

\* Mutant: the survivors of a refusal stay allocated.
HMapAllocKeeps(c, under) ==
    LET a == ArraysOf(c)
        k == BudgetAlloc(used,   Limit, a[1], under[1])
        v == BudgetAlloc(k.used, Limit, a[2], under[2])
        u == BudgetAlloc(v.used, Limit, a[3], under[3])
    IN IF c = 0 \/ a[1] = 0 \/ a[2] = 0 \/ a[3] = 0
       THEN [ok |-> FALSE, used |-> used]
       ELSE [ok |-> k.ok /\ v.ok /\ u.ok, used |-> u.used]

\* hmap_alloc: the three arrays, each of which may be refused; the survivors
\* are released unless all three are there.
HMapAlloc(c, under) ==
    LET a == ArraysOf(c)
        k == BudgetAlloc(used,   Limit, a[1], under[1])
        v == BudgetAlloc(k.used, Limit, a[2], under[2])
        u == BudgetAlloc(v.used, Limit, a[3], under[3])
        Back(r, n, bytes) == IF r.ok THEN BudgetRelease(n, bytes) ELSE n
    IN IF c = 0 \/ a[1] = 0 \/ a[2] = 0 \/ a[3] = 0
       THEN [ok |-> FALSE, used |-> used]
       ELSE IF k.ok /\ v.ok /\ u.ok THEN [ok |-> TRUE, used |-> u.used]
       ELSE [ok   |-> FALSE,
             used |-> Back(u, Back(v, Back(k, u.used, a[1]), a[2]), a[3])]

\* (i + 1) & mask, and the position d steps along a key's probe path.
Along(start, d, c) == IF start + d < c THEN start + d ELSE start + d - c
Probe(k, d, c) == Along(Mix[k] % c, d, c)

\* hmap_slot: the slot of the key, or the first free one on its probe path.
Stops(t, k, d, c) == \/ t[Probe(k, d, c)] = Free
                     \/ t[Probe(k, d, c)] # Free /\ t[Probe(k, d, c)][1] = k
HMapSlot(t, k, c) ==
    Probe(k, CHOOSE d \in Slots(c) :
                /\ Stops(t, k, d, c)
                /\ \A e \in Slots(c) : e < d => ~Stops(t, k, e, c), c)

Contains(t, c, k) == c # 0 /\ t[HMapSlot(t, k, c)] # Free
Get(t, c, k) == t[HMapSlot(t, k, c)][2]

Init ==
    /\ table = NoTable(0) /\ cap = 0 /\ len = 0 /\ oom \in BOOLEAN /\ used = 0
    /\ put = NoPut /\ old = NoTable(0) /\ oldcap = 0 /\ i = 0
    /\ refused = {}

Idle == put = NoPut

\* bbq_hmap_init_seeded, on a map that holds no table.
HMapInit(initial) ==
    /\ Idle /\ cap = 0
    /\ \E under \in [1 .. 3 -> BOOLEAN] :
         LET c == RoundPow2(IF initial = 0 THEN DefaultCap ELSE initial)
             r == HMapAlloc(c, under)
         IN /\ used' = r.used /\ oom' = ~r.ok
            /\ cap' = IF r.ok THEN c ELSE 0
            /\ table' = NoTable(cap')
    /\ len' = 0 /\ refused' = {}
    /\ UNCHANGED <<put, old, oldcap, i>>

\* bbq_hmap_free
HMapFree ==
    /\ Idle
    /\ LET a == ArraysOf(cap)
       IN used' = IF cap = 0 THEN used
                  ELSE BudgetRelease(BudgetRelease(BudgetRelease(used, a[1]), a[2]), a[3])
    /\ table' = NoTable(0) /\ cap' = 0 /\ len' = 0 /\ oom' = FALSE
    /\ refused' = {}
    /\ UNCHANGED <<put, old, oldcap, i>>

\* Mutant: a put grows a full table only.
MustGrowFull == Wrap(len + 1) > cap

\* Is the table at the load a put must grow from?
MustGrow == Wrap(Wrap(len + 1) * 4) >= Wrap(cap * 3)

\* The insert-or-replace at the end of bbq_hmap_put.
Store(k, v) ==
    LET s == HMapSlot(table, k, cap)
    IN /\ len' = IF table[s] = Free THEN len + 1 ELSE len
       /\ table' = [table EXCEPT ![s] = <<k, v>>]

PutInPlace(k, v) ==
    /\ Idle /\ ~MustGrow
    /\ Store(k, v)
    /\ refused' = {}
    /\ UNCHANGED <<cap, oom, used, put, old, oldcap, i>>

\* hmap_grow up to its loop; a refusal is the put's.
Grow(k, v) ==
    /\ Idle /\ MustGrow
    /\ \E under \in [1 .. 3 -> BOOLEAN] :
         LET c == IF cap = 0 THEN DefaultCap ELSE Wrap(cap * 2)
             r == IF 2 * cap > SIZE_MAX THEN [ok |-> FALSE, used |-> used]
                  ELSE HMapAlloc(c, under)
         IN /\ used' = r.used
            /\ IF r.ok
               THEN /\ table' = NoTable(c) /\ cap' = c
                    /\ old' = table /\ oldcap' = cap /\ i' = 0
                    /\ put' = <<k, v>>
                    /\ refused' = {} /\ UNCHANGED oom
               ELSE /\ oom' = TRUE /\ refused' = {k}
                    /\ UNCHANGED <<table, cap, old, oldcap, i, put>>
    /\ UNCHANGED len

\* Mutants: an entry keeps its slot number, or is placed under the old mask.
ReplaceInPlace ==
    /\ ~Idle /\ i < oldcap
    /\ table' = IF old[i] = Free THEN table ELSE [table EXCEPT ![i] = old[i]]
    /\ i' = i + 1
    /\ UNCHANGED <<cap, len, oom, used, put, old, oldcap, refused>>
ReplaceOldMask ==
    /\ ~Idle /\ i < oldcap
    /\ table' = IF old[i] = Free THEN table
                ELSE [table EXCEPT ![HMapSlot(table, old[i][1], oldcap)] = old[i]]
    /\ i' = i + 1
    /\ UNCHANGED <<cap, len, oom, used, put, old, oldcap, refused>>

\* One turn of hmap_grow's loop.
Replace ==
    /\ ~Idle /\ i < oldcap
    /\ table' = IF old[i] = Free THEN table
                ELSE [table EXCEPT ![HMapSlot(table, old[i][1], cap)] = old[i]]
    /\ i' = i + 1
    /\ UNCHANGED <<cap, len, oom, used, put, old, oldcap, refused>>

\* The old arrays are released and the put resumes.
Resume ==
    /\ ~Idle /\ i >= oldcap
    /\ LET a == ArraysOf(oldcap)
       IN used' = IF oldcap = 0 THEN used
                  ELSE BudgetRelease(BudgetRelease(BudgetRelease(used, a[1]), a[2]), a[3])
    /\ Store(put[1], put[2])
    /\ refused' = {}
    /\ put' = NoPut /\ old' = NoTable(0) /\ oldcap' = 0 /\ i' = 0
    /\ UNCHANGED <<cap, oom>>

Next ==
    \/ \E initial \in InitCaps : HMapInit(initial)
    \/ HMapFree
    \/ \E k \in Keys, v \in Vals : PutInPlace(k, v) \/ Grow(k, v)
    \/ Replace
    \/ Resume

Spec == Init /\ [][Next]_vars

-----------------------------------------------------------------------------
(* The table the caller's entries are in: while the map grows, the old one. *)
Current == IF Idle THEN table ELSE old
CurrentCap == IF Idle THEN cap ELSE oldcap

(* Type correctness. *)
TypeOK ==
    /\ cap \in Nat /\ oldcap \in Nat /\ len \in Nat /\ i \in Nat
    /\ used \in Nat /\ oom \in BOOLEAN /\ refused \subseteq Keys
    /\ put \in (Keys \X Vals) \cup {NoPut}
    /\ table \in [Slots(cap) -> (Keys \X Vals) \cup {Free}]
    /\ old \in [Slots(oldcap) -> (Keys \X Vals) \cup {Free}]

(* bbq_hmap.c:104, "The table is never allowed to fill, so this always     *)
(* terminates": every table a probe walks has a free slot, the one being   *)
(* filled by a grow included.                                              *)
ProbesEnd == cap # 0 => \E s \in Slots(cap) : table[s] = Free

(* bbq_hmap.h:98, the map's length is the number of its entries.           *)
LenCounts == len = Cardinality({s \in Slots(CurrentCap) : Current[s] # Free})

(* bbq_hmap.c:40, all or nothing: what the map holds of its budget is the  *)
(* bytes of its tables, whichever of the three arrays was refused.         *)
NothingLeaks ==
    used = (IF cap = 0 THEN 0 ELSE TableBytes(cap))
           + (IF oldcap = 0 THEN 0 ELSE TableBytes(oldcap))

(* bbq_hmap.h:82-89, the map implements a finite map: get and contains,    *)
(* through the probing of the code, answer as the map of the puts that     *)
(* were not refused; growing moves every entry and a refused grow none.    *)
Present == {k \in Keys : Contains(Current, CurrentCap, k)}
M == INSTANCE FiniteMap WITH map <- [k \in Present |-> Get(Current, CurrentCap, k)]
ImplementsFiniteMap == M!Spec

(* bbq_hmap.h:87 says of a refused put: 'A false here is "this key is not  *)
(* in the map"'.                                                           *)
RefusedIsAbsent == \A k \in refused : ~Contains(Current, CurrentCap, k)

-----------------------------------------------------------------------------
(* What every step preserves, from which the four above follow: the phase  *)
(* and the load; every entry sits where a probe for its key stops; a       *)
(* growing table holds exactly the entries moved so far.                   *)
UsedSlots(t, c) == {s \in Slots(c) : t[s] # Free}
Findable(t, c) == \A s \in UsedSlots(t, c) : HMapSlot(t, t[s][1], c) = s
MovedSlots == {s \in Slots(oldcap) : s < i /\ old[s] # Free}

Phase ==
    /\ Idle => oldcap = 0 /\ i = 0
    /\ ~Idle => i <= oldcap /\ cap = IF oldcap = 0 THEN DefaultCap ELSE 2 * oldcap
    /\ 8 * cap <= SIZE_MAX /\ 8 * oldcap <= SIZE_MAX
Load == IF CurrentCap = 0 THEN len = 0 ELSE 4 * len < 3 * CurrentCap
Moved ==
    ~Idle => /\ Cardinality(UsedSlots(table, cap)) = Cardinality(MovedSlots)
             /\ \A s \in MovedSlots : \E u \in Slots(cap) : table[u] = old[s]
             /\ \A u \in UsedSlots(table, cap) : \E s \in MovedSlots : old[s] = table[u]

(* The inductive invariant of the proofs, TypeOK and the sound table of    *)
(* bbq_hmap.c:104-112 in every phase.                                      *)
IInv ==
    /\ TypeOK /\ Phase /\ Load /\ Moved
    /\ Findable(table, cap) /\ Findable(old, oldcap)
    /\ LenCounts /\ NothingLeaks
=============================================================================
