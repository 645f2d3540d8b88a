--------------------------- MODULE CodeBufProofs ----------------------------
(***************************************************************************)
(* Proofs about CodeBuf, for every page size, capacity, address and        *)
(* driver.                                                                 *)
(***************************************************************************)
EXTENDS CodeBuf, TLAPS

\* Rounding up to a page loses nothing (jcb_page_align).
LEMMA PageAlignUp == ASSUME NEW n \in Nat PROVE PageAlign(n) \in Nat /\ PageAlign(n) >= n
<1> DEFINE q == (n + Page - 1) \div Page
           r == (n + Page - 1) % Page
<1>1. Page \in Nat \ {0} BY CodeBufAssumption
<1>2. q \in Nat /\ r \in 0 .. Page - 1 /\ n + Page - 1 = Page * q + r
  BY <1>1, SMTT(30)
<1>3. PageAlign(n) = q * Page
  BY DEF PageAlign
<1> HIDE DEF q, r
<1>4. q * Page = Page * q /\ Page * q \in Nat
  BY <1>1, <1>2
<1> QED BY <1>1, <1>2, <1>3, <1>4

-----------------------------------------------------------------------------
\* What jcb_reserve answers: room, and every stamped unit where it was; a
\* buffer that moved was still being emitted.
LEMMA ReservedAnswers ==
  ASSUME TypeOK, NEW extra \in Nat, NEW nb \in Bases \cup {0},
         NEW r, r = Reserved(extra, nb)
  PROVE  /\ r.ok \in BOOLEAN /\ r.base \in Bases \cup {0} /\ r.cap \in Nat
         /\ r.cap >= size /\ DOMAIN r.mem = 0 .. r.cap - 1
         /\ \A u \in 0 .. size - 1 : r.mem[u] = mem[u]
         /\ r.ok => size + extra <= r.cap
         /\ r.base # base => ~sealed /\ ~finalized /\ r.base # 0
         /\ r.base = base \/ r.ok
<1> DEFINE w == Wanted(extra)
<1>1. /\ size \in Nat /\ cap \in Nat /\ size <= cap /\ base \in Bases \cup {0}
      /\ DOMAIN mem = 0 .. cap - 1
  BY DEF TypeOK
<1>2. w \in Nat /\ w >= size + extra
  <2>1. CASE 2 * cap > size + extra
    BY <2>1, <1>1, PageAlignUp, w = PageAlign(2 * cap) DEF Wanted
  <2>2. CASE ~(2 * cap > size + extra)
    <3>1. w = PageAlign(size + extra + Page) /\ size + extra + Page \in Nat
      BY <2>2, <1>1, CodeBufAssumption DEF Wanted
    <3> QED BY <3>1, <1>1, PageAlignUp, CodeBufAssumption
  <2> QED BY <2>1, <2>2
<1> HIDE DEF w
<1>3. CASE size + extra <= cap
  <2>1. r = [ok |-> TRUE, base |-> base, cap |-> cap, mem |-> mem]
    BY <1>3 DEF Reserved
  <2> QED BY <2>1, <1>1, <1>3
<1>4. CASE ~(size + extra <= cap) /\ (sealed \/ finalized \/ nb = 0 \/ w > MaxCap)
  <2>1. r = [ok |-> FALSE, base |-> base, cap |-> cap, mem |-> mem]
    BY <1>4 DEF Reserved, w
  <2> QED BY <2>1, <1>1
<1>5. CASE ~(size + extra <= cap) /\ ~(sealed \/ finalized \/ nb = 0 \/ w > MaxCap)
  <2>1. r = [ok |-> TRUE, base |-> nb, cap |-> w, mem |-> Moved(w)]
    BY <1>5 DEF Reserved, w
  <2>2. DOMAIN Moved(w) = 0 .. w - 1 /\ \A u \in 0 .. size - 1 : Moved(w)[u] = mem[u]
    BY <1>1, <1>2 DEF Moved
  <2> QED BY <2>1, <2>2, <1>1, <1>2, <1>5
<1> QED BY <1>3, <1>4, <1>5

\* A buffer whose stamped units, patches and place are as they were is as
\* faithful as it was.
LEMMA StillFaithful ==
  ASSUME Faithful, size \in Nat,
         size' = size, base' = base, units' = units, patches' = patches,
         \A o \in 0 .. size - 1 : mem'[o] = mem[o]
  PROVE  Faithful'
<1>1. Displaced' = Displaced BY DEF Displaced
<1>2. \A o \in Displaced : o \in 0 .. size - 1 BY DEF Displaced
<1> QED BY <1>1, <1>2 DEF Faithful

LEMMA StillDisplaced ==
  ASSUME size \in Nat, size' = size, \A o \in 0 .. size - 1 : mem'[o] = mem[o]
  PROVE  Displaced' = Displaced
  BY DEF Displaced

-----------------------------------------------------------------------------
\* Every step keeps the invariant; one lemma for each call.
LEMMA InitInv == Init => IInv
<1> SUFFICES ASSUME Init PROVE IInv OBVIOUS
<1>1. Displaced = {} BY DEF Init, Displaced
<1>2. DOMAIN mem = 0 .. cap - 1 BY DEF Init, Zeroes
<1>5. Flags BY Zenon DEF Init, Flags
<1>3. TypeOK BY <1>2, <1>5 DEF Init, TypeOK
<1>4. Phases BY <1>1 DEF Init, Phases
<1> QED BY <1>3, <1>4 DEF IInv, Init

\* A write the hardware refuses leaves the buffer as it was.
LEMMA FaultsInv == ASSUME IInv, Faults PROVE IInv'
<1>0. TypeOK /\ size \in Nat BY DEF IInv, TypeOK
<1>1. /\ fault' = TRUE
      /\ UNCHANGED <<base, mem, cap, size, sealed, finalized, failed, exec, units, patches, out>>
  BY DEF Faults
<1>2. Displaced' = Displaced BY <1>0, <1>1, StillDisplaced
<1>3. Flags' BY <1>0, <1>1, Zenon DEF TypeOK, Flags
<1>4. TypeOK' BY <1>0, <1>1, <1>3 DEF TypeOK
<1>5. Phases' BY <1>1, <1>2 DEF Phases, IInv
<1>6. Faithful => Faithful' BY <1>0, <1>1, StillFaithful
<1> QED BY <1>1, <1>4, <1>5, <1>6 DEF IInv

LEMMA JcbInitInv ==
  ASSUME IInv, NEW initial \in Caps, NEW b \in Bases, JcbInit(initial, b)
  PROVE  IInv'
<1>1. cap' \in Nat /\ cap' >= 0
  <2>1. (IF initial = 0 THEN DefaultCap ELSE initial) \in Nat BY CodeBufAssumption
  <2> QED BY <2>1, PageAlignUp DEF JcbInit
<1>2. DOMAIN mem' = 0 .. cap' - 1 BY DEF JcbInit, Zeroes
<1>3. Displaced' = {} BY DEF JcbInit, Displaced
<1>7. Flags' BY Zenon DEF JcbInit, TypeOK, IInv, Flags
<1>4. TypeOK' BY <1>1, <1>2, <1>7 DEF JcbInit, TypeOK, IInv
<1>5. Phases' BY <1>3 DEF JcbInit, Phases, IInv
<1>6. Faithful' BY <1>3 DEF JcbInit, Faithful, NoPatch
<1> QED BY <1>4, <1>5, <1>6 DEF IInv

LEMMA ReserveInv ==
  ASSUME IInv, NEW extra \in Lens, NEW nb \in Bases \cup {0}, Reserve(extra, nb)
  PROVE  IInv'
<1> DEFINE r == Reserved(extra, nb)
<1>0. TypeOK /\ extra \in Nat BY CodeBufAssumption DEF IInv
<1>1. /\ r.ok \in BOOLEAN /\ r.base \in Bases \cup {0} /\ r.cap \in Nat
      /\ r.cap >= size /\ DOMAIN r.mem = 0 .. r.cap - 1
      /\ \A u \in 0 .. size - 1 : r.mem[u] = mem[u]
      /\ r.base # base => ~sealed /\ ~finalized /\ r.base # 0
  BY <1>0, ReservedAnswers
<1>2. /\ base # 0 /\ ~fault
      /\ base' = r.base /\ cap' = r.cap /\ mem' = r.mem
      /\ failed' = (failed \/ ~r.ok) /\ exec' = (exec /\ r.base = base)
      /\ UNCHANGED <<size, sealed, finalized, fault, units, patches, out>>
  BY DEF Reserve, StillExec, Alive
<1> HIDE DEF r
<1>3. size \in Nat BY <1>0 DEF TypeOK
<1>4. Displaced' = Displaced BY <1>1, <1>2, <1>3, StillDisplaced
<1>8. Flags' BY <1>0, <1>1, <1>2 DEF TypeOK, Flags
<1>5. TypeOK' BY <1>0, <1>1, <1>2, <1>8 DEF TypeOK
<1>6. Phases' BY <1>1, <1>2, <1>4 DEF Phases, IInv
<1>7. ASSUME ~failed' \/ out' # 0 PROVE Faithful'
  <2>1. Faithful BY <1>2, <1>7 DEF IInv
  <2>2. CASE base' = base BY <2>1, <2>2, <1>1, <1>2, <1>3, StillFaithful
  <2>3. CASE base' # base
    <3>1. Displaced' = {} BY <2>3, <1>1, <1>2, <1>4 DEF IInv, Phases
    <3> QED BY <3>1, <2>1, <1>1, <1>2, <1>3 DEF Faithful
  <2> QED BY <2>2, <2>3
<1> QED BY <1>5, <1>6, <1>7 DEF IInv

LEMMA EmitSealedInv == ASSUME IInv, NEW len \in Lens, EmitSealed(len) PROVE IInv'
<1>0. TypeOK /\ len \in Nat /\ size \in Nat BY CodeBufAssumption DEF IInv, TypeOK
<1>1. /\ base # 0 /\ sealed /\ failed' = TRUE /\ patches' = patches
      /\ units' = IF Noting THEN units + len ELSE units
      /\ UNCHANGED <<base, mem, cap, size, sealed, finalized, exec, fault, out>>
  BY DEF EmitSealed, Asked, Alive
<1>2. Displaced' = Displaced BY <1>0, <1>1, StillDisplaced
<1>3. Flags' BY <1>0, <1>1, Zenon DEF TypeOK, Flags
<1>4. units' \in Nat BY <1>0, <1>1 DEF TypeOK
<1>5. TypeOK' BY <1>0, <1>1, <1>3, <1>4 DEF TypeOK
<1>6. Phases' BY <1>1, <1>2 DEF Phases, IInv
<1>7. ASSUME out' # 0 PROVE Faithful'
  <2>1. Faithful /\ finalized BY <1>1, <1>7 DEF IInv, Phases
  <2>2. units' = units BY <2>1, <1>1 DEF Noting
  <2> QED BY <2>1, <2>2, <1>0, <1>1, StillFaithful
<1> QED BY <1>1, <1>5, <1>6, <1>7 DEF IInv

LEMMA EmitInv ==
  ASSUME IInv, NEW len \in Lens, NEW nb \in Bases \cup {0}, Emit(len, nb), ~Faults
  PROVE  IInv'
<1> DEFINE r == Reserved(len, nb)
<1>0. TypeOK /\ len \in Nat /\ size \in Nat BY CodeBufAssumption DEF IInv, TypeOK
<1>1. /\ r.ok \in BOOLEAN /\ r.base \in Bases \cup {0} /\ r.cap \in Nat
      /\ r.cap >= size /\ DOMAIN r.mem = 0 .. r.cap - 1
      /\ \A u \in 0 .. size - 1 : r.mem[u] = mem[u]
      /\ r.ok => size + len <= r.cap
      /\ r.base # base => r.base # 0
      /\ r.base = base \/ r.ok
  <2>1. r = Reserved(len, nb) OBVIOUS
  <2> HIDE DEF r
  <2> QED BY <2>1, <1>0, ReservedAnswers
<1>2. /\ base # 0 /\ ~fault /\ ~sealed
      /\ base' = r.base /\ cap' = r.cap /\ failed' = (failed \/ ~r.ok)
      /\ exec' = (exec /\ r.base = base)
      /\ mem' = (IF r.ok THEN Written(r.mem, size, len, Stencil) ELSE r.mem)
      /\ size' = (IF r.ok THEN size + len ELSE size)
      /\ units' = (IF Noting THEN units + len ELSE units)
      /\ UNCHANGED <<sealed, finalized, fault, out, patches>>
  <2>1. ~(r.ok /\ StillExec(r)) BY DEF Emit
  <2>2. /\ Alive /\ ~sealed
        /\ base' = r.base /\ cap' = r.cap /\ failed' = (failed \/ ~r.ok)
        /\ exec' = StillExec(r) /\ Asked(len)
        /\ mem' = (IF r.ok THEN Written(r.mem, size, len, Stencil) ELSE r.mem)
        /\ size' = (IF r.ok THEN size + len ELSE size)
        /\ UNCHANGED <<sealed, finalized, fault, out>>
    BY <2>1 DEF Emit
  <2> QED BY <2>2 DEF StillExec, Alive, Asked
<1> HIDE DEF r
<1>3. /\ DOMAIN mem' = 0 .. r.cap - 1
      /\ \A u \in 0 .. size - 1 : mem'[u] = mem[u]
      /\ r.ok => \A u \in size .. size + len - 1 : mem'[u] = Stencil
  BY <1>0, <1>1, <1>2 DEF Written
<1>4. size' \in Nat /\ size' <= cap' /\ units' \in Nat
  BY <1>0, <1>1, <1>2 DEF TypeOK
<1>5. ~finalized /\ out = 0 /\ Displaced = {}
  BY <1>2 DEF IInv, Phases
<1>6. Displaced' = {}
  <2> SUFFICES ASSUME NEW o \in 0 .. size' - 1 PROVE mem'[o][1] # "rel"
    BY DEF Displaced
  <2>1. CASE o \in 0 .. size - 1 BY <2>1, <1>3, <1>5 DEF Displaced
  <2>2. CASE o \notin 0 .. size - 1
    <3>1. r.ok /\ o \in size .. size + len - 1 BY <2>2, <1>0, <1>2, <1>4
    <3>2. mem'[o] = Stencil BY <3>1, <1>3
    <3> QED BY <3>2 DEF Stencil
  <2> QED BY <2>1, <2>2
<1>7. Flags' BY <1>0, <1>1, <1>2 DEF TypeOK, Flags
<1>8. TypeOK' BY <1>0, <1>1, <1>2, <1>3, <1>4, <1>7 DEF TypeOK
<1>9. Phases' BY <1>1, <1>2, <1>5, <1>6 DEF Phases, IInv
<1>10. ASSUME ~failed' PROVE Faithful'
  <2>1. Faithful /\ ~failed /\ r.ok BY <1>2, <1>10 DEF IInv
  <2>2. size' = size + len /\ units' = units + len
    BY <2>1, <1>2, <1>5 DEF Noting
  <2>3. size' = units' BY <2>1, <2>2 DEF Faithful
  <2>4. ASSUME NEW o \in 0 .. size' - 1 PROVE mem'[o] # Zero
    <3>1. CASE o \in 0 .. size - 1 BY <3>1, <2>1, <1>3 DEF Faithful
    <3>2. CASE o \in size .. size + len - 1
      <4>1. mem'[o] = Stencil BY <3>2, <2>1, <1>3
      <4> QED BY <4>1 DEF Stencil, Zero
    <3> QED BY <3>1, <3>2, <2>2, <2>4, <1>0
  <2>5. ASSUME NEW o \in DOMAIN patches'
        PROVE  /\ o \in 0 .. size' - 1 /\ mem'[o][1] = patches'[o][1]
               /\ patches'[o] # Absolute => mem'[o][2] = patches'[o][2]
    <3>1. o \in 0 .. size - 1 BY <2>1, <2>5, <1>2 DEF Faithful
    <3>2. mem'[o] = mem[o] BY <3>1, <1>3
    <3>3. o \in 0 .. size' - 1 BY <3>1, <2>2, <1>0
    <3> QED BY <3>2, <3>3, <2>1, <2>5, <1>2 DEF Faithful
  <2> QED BY <2>3, <2>4, <2>5, <1>6 DEF Faithful
<1> QED BY <1>2, <1>5, <1>8, <1>9, <1>10 DEF IInv

\* A write inside what was stamped.
LEMMA WrittenUnits ==
  ASSUME TypeOK, NEW o \in Nat, NEW n \in Nat, o + n <= size, NEW v
  PROVE  /\ DOMAIN Written(mem, o, n, v) = 0 .. cap - 1
         /\ \A u \in 0 .. size - 1 :
                Written(mem, o, n, v)[u] = IF u \in o .. o + n - 1 THEN v ELSE mem[u]
  BY DEF TypeOK, Written

LEMMA PatchInv ==
  ASSUME IInv, NEW o \in Holes, NEW n \in 1 .. 2, Patch(o, n), ~Faults
  PROVE  IInv'
<1>0. TypeOK /\ o \in Nat /\ n \in Nat /\ size \in Nat BY CodeBufAssumption DEF IInv, TypeOK
<1>1. /\ base # 0 /\ ~fault
      /\ UNCHANGED <<base, cap, size, sealed, finalized, exec, fault, out, units>>
      /\ patches' = IF Noting
                    THEN [p \in DOMAIN patches \cup (o .. o + n - 1) |->
                             IF p \in o .. o + n - 1 THEN Absolute ELSE patches[p]]
                    ELSE patches
  BY DEF Patch, Patched, Alive, AskedAt
<1>2. out # 0 => finalized /\ Faithful BY <1>1 DEF IInv, Phases
<1>3. CASE o + n > size
  <2>1. failed' = TRUE /\ mem' = mem BY <1>3 DEF Patch, Patched
  <2>2. Displaced' = Displaced BY <2>1, <1>0, <1>1, StillDisplaced
  <2>3. Flags' BY <2>1, <1>0, <1>1, Zenon DEF TypeOK, Flags
  <2>4. TypeOK' BY <2>1, <2>3, <1>0, <1>1 DEF TypeOK
  <2>5. Phases' BY <2>1, <2>2, <1>1 DEF Phases, IInv
  <2>6. ASSUME out' # 0 PROVE Faithful'
    <3>1. Faithful /\ patches' = patches BY <2>6, <1>1, <1>2 DEF Noting
    <3> QED BY <3>1, <2>1, <1>0, <1>1, StillFaithful
  <2> QED BY <2>1, <2>4, <2>5, <2>6 DEF IInv
<1>4. CASE o + n <= size
  <2>1. mem' = Written(mem, o, n, Absolute) /\ failed' = failed /\ ~exec
    <3>1. ~(o + n > size) BY <1>4, <1>0
    <3> QED BY <3>1 DEF Patch, Patched
  <2>2. /\ DOMAIN mem' = 0 .. cap - 1
        /\ \A u \in 0 .. size - 1 : mem'[u] = IF u \in o .. o + n - 1 THEN Absolute ELSE mem[u]
    BY <2>1, <1>0, <1>4, WrittenUnits
  <2>3. Absolute[1] = "absolute" /\ Absolute # Zero BY DEF Absolute, Zero
  <2>4. Displaced' = Displaced \ (o .. o + n - 1)
    BY <2>2, <2>3, <1>0, <1>1 DEF Displaced
  <2>5. Flags' BY <2>1, <1>0, <1>1, Zenon DEF TypeOK, Flags
  <2>6. TypeOK' BY <2>2, <2>5, <1>0, <1>1 DEF TypeOK
  <2>7. ~finalized /\ out = 0 BY <2>1, <1>1 DEF IInv, Phases
  <2>8. Phases' BY <2>1, <2>4, <2>7, <1>1 DEF Phases, IInv
  <2>9. ASSUME ~failed PROVE Faithful'
    <3>1. Faithful BY <2>9, <1>1 DEF IInv
    <3>2. patches' = [p \in DOMAIN patches \cup (o .. o + n - 1) |->
                         IF p \in o .. o + n - 1 THEN Absolute ELSE patches[p]]
      BY <2>9, <2>7, <1>1 DEF Noting
    <3>3. size' = units' BY <3>1, <1>1 DEF Faithful
    <3>4. \A u \in 0 .. size' - 1 : mem'[u] # Zero BY <3>1, <2>2, <2>3, <1>1 DEF Faithful
    <3>5. ASSUME NEW p \in DOMAIN patches'
          PROVE  /\ p \in 0 .. size' - 1 /\ mem'[p][1] = patches'[p][1]
                 /\ patches'[p] # Absolute => mem'[p][2] = patches'[p][2]
      <4>1. CASE p \in o .. o + n - 1
        <5>1. p \in 0 .. size - 1 BY <4>1, <1>0, <1>4
        <5>2. mem'[p] = Absolute /\ patches'[p] = Absolute BY <4>1, <5>1, <2>2, <3>2, <3>5
        <5> QED BY <5>1, <5>2, <1>1
      <4>2. CASE p \notin o .. o + n - 1
        <5>1. p \in DOMAIN patches /\ patches'[p] = patches[p] BY <4>2, <3>2, <3>5
        <5>2. p \in 0 .. size - 1 BY <5>1, <3>1 DEF Faithful
        <5>3. mem'[p] = mem[p] BY <4>2, <5>2, <2>2
        <5> QED BY <5>1, <5>2, <5>3, <3>1, <1>1 DEF Faithful
      <4> QED BY <4>1, <4>2
    <3>6. \A p \in Displaced' : base' + p + 1 + mem'[p][3] = mem'[p][2]
      <4> TAKE p \in Displaced'
      <4>1. p \in Displaced /\ p \notin o .. o + n - 1 BY <2>4
      <4>2. mem'[p] = mem[p] BY <4>1, <2>2 DEF Displaced
      <4> QED BY <4>1, <4>2, <3>1, <1>1 DEF Faithful
    <3> QED BY <3>3, <3>4, <3>5, <3>6 DEF Faithful
  <2> QED BY <2>1, <2>6, <2>7, <2>8, <2>9, <1>1 DEF IInv
<1> QED BY <1>0, <1>3, <1>4

LEMMA PatchRelInv ==
  ASSUME IInv, NEW o \in Holes, NEW target \in Int, PatchRel(o, target), ~Faults
  PROVE  IInv'
<1> DEFINE d == Disp(o, target)
           v == Rel(target, d)
<1> HIDE DEF d, v
<1>0. TypeOK /\ o \in Nat /\ size \in Nat /\ base \in Nat
  BY CodeBufAssumption DEF IInv, TypeOK
<1>1. /\ base # 0 /\ ~fault
      /\ UNCHANGED <<base, cap, size, sealed, finalized, exec, fault, out, units>>
      /\ patches' = IF Noting
                    THEN [p \in DOMAIN patches \cup (o .. o + 1 - 1) |->
                             IF p \in o .. o + 1 - 1 THEN <<"rel", target>> ELSE patches[p]]
                    ELSE patches
  BY DEF PatchRel, Patched, Alive, AskedAt
<1>2. out # 0 => finalized /\ Faithful BY <1>1 DEF IInv, Phases
<1>3. CASE RelRefused(o, target)
  <2>1. failed' = TRUE /\ mem' = mem BY <1>3 DEF PatchRel, Patched
  <2>2. Displaced' = Displaced BY <2>1, <1>0, <1>1, StillDisplaced
  <2>3. Flags' BY <2>1, <1>0, <1>1, Zenon DEF TypeOK, Flags
  <2>4. TypeOK' BY <2>1, <2>3, <1>0, <1>1 DEF TypeOK
  <2>5. Phases' BY <2>1, <2>2, <1>1 DEF Phases, IInv
  <2>6. ASSUME out' # 0 PROVE Faithful'
    <3>1. Faithful /\ patches' = patches BY <2>6, <1>1, <1>2 DEF Noting
    <3> QED BY <3>1, <2>1, <1>0, <1>1, StillFaithful
  <2> QED BY <2>1, <2>4, <2>5, <2>6 DEF IInv
<1>4. CASE ~RelRefused(o, target)
  <2>1. mem' = Written(mem, o, 1, v) /\ failed' = failed /\ ~exec
    BY <1>4 DEF PatchRel, Patched, v, d
  <2>2. o + 1 <= size BY <1>4, <1>0 DEF RelRefused
  <2>3. /\ DOMAIN mem' = 0 .. cap - 1
        /\ \A u \in 0 .. size - 1 : mem'[u] = IF u \in o .. o + 1 - 1 THEN v ELSE mem[u]
    <3>1. /\ DOMAIN Written(mem, o, 1, v) = 0 .. cap - 1
          /\ \A u \in 0 .. size - 1 :
                 Written(mem, o, 1, v)[u] = IF u \in o .. o + 1 - 1 THEN v ELSE mem[u]
      <4>1. 1 \in Nat
        OBVIOUS
      <4> HIDE <1>1, <1>2, <1>4, <2>1
      <4> QED BY <4>1, <2>2, <1>0, WrittenUnits
    <3> QED BY <2>1, <3>1, Zenon
  <2>4. /\ v[1] = "rel" /\ v[2] = target /\ v[3] = d /\ v # Zero
        /\ base + o + 1 + d = target
    <3>1. v[1] = "rel" /\ v[2] = target /\ v[3] = d BY DEF Rel, v
    <3>2. Zero[1] = "zero" BY DEF Zero
    <3>3. v # Zero BY <3>1, <3>2
    <3>4. base + o + 1 + d = target BY <1>0 DEF Disp, d
    <3> QED BY <3>1, <3>3, <3>4
  <2>5. Flags' BY <2>1, <1>0, <1>1, Zenon DEF TypeOK, Flags
  <2>6. TypeOK' BY <2>3, <2>5, <1>0, <1>1 DEF TypeOK
  <2>7. ~finalized /\ out = 0 BY <2>1, <1>1 DEF IInv, Phases
  <2>10. sealed BY <1>4 DEF RelRefused
  <2>8. Phases' BY <2>1, <2>7, <2>10, <1>1 DEF Phases, IInv
  <2>9. ASSUME ~failed PROVE Faithful'
    <3>1. Faithful BY <2>9, <1>1 DEF IInv
    <3>2. patches' = [p \in DOMAIN patches \cup (o .. o + 1 - 1) |->
                         IF p \in o .. o + 1 - 1 THEN <<"rel", target>> ELSE patches[p]]
      BY <2>9, <2>7, <1>1 DEF Noting
    <3>3. size' = units' BY <3>1, <1>1 DEF Faithful
    <3>4. \A u \in 0 .. size' - 1 : mem'[u] # Zero BY <3>1, <2>3, <2>4, <1>1 DEF Faithful
    <3>5. ASSUME NEW p \in DOMAIN patches'
          PROVE  /\ p \in 0 .. size' - 1 /\ mem'[p][1] = patches'[p][1]
                 /\ patches'[p] # Absolute => mem'[p][2] = patches'[p][2]
      <4>1. CASE p \in o .. o + 1 - 1
        <5>1. p \in 0 .. size - 1 BY <4>1, <2>2, <1>0
        <5>2. mem'[p] = v /\ patches'[p] = <<"rel", target>> BY <4>1, <5>1, <2>3, <3>2, <3>5
        <5> QED BY <5>1, <5>2, <2>4, <1>1
      <4>2. CASE p \notin o .. o + 1 - 1
        <5>1. p \in DOMAIN patches /\ patches'[p] = patches[p] BY <4>2, <3>2, <3>5
        <5>2. p \in 0 .. size - 1 BY <5>1, <3>1 DEF Faithful
        <5>3. mem'[p] = mem[p] BY <4>2, <5>2, <2>3
        <5> QED BY <5>1, <5>2, <5>3, <3>1, <1>1 DEF Faithful
      <4> QED BY <4>1, <4>2
    <3>6. \A p \in Displaced' : base' + p + 1 + mem'[p][3] = mem'[p][2]
      <4> TAKE p \in Displaced'
      <4>1. p \in 0 .. size - 1 /\ mem'[p][1] = "rel" BY <1>1 DEF Displaced
      <4>2. CASE p \in o .. o + 1 - 1
        <5>1. p = o /\ mem'[p] = v BY <4>1, <4>2, <2>3, <1>0
        <5> QED BY <5>1, <2>4, <1>1
      <4>3. CASE p \notin o .. o + 1 - 1
        <5>1. mem'[p] = mem[p] BY <4>1, <4>3, <2>3
        <5>2. p \in Displaced BY <4>1, <5>1 DEF Displaced
        <5> QED BY <5>1, <5>2, <3>1, <1>1 DEF Faithful
      <4> QED BY <4>2, <4>3
    <3> QED BY <3>3, <3>4, <3>5, <3>6 DEF Faithful
  <2> QED BY <2>1, <2>6, <2>7, <2>8, <2>9, <1>1 DEF IInv
<1> QED BY <1>3, <1>4

LEMMA SealInv == ASSUME IInv, Seal PROVE IInv'
<1>0. TypeOK /\ size \in Nat BY DEF IInv, TypeOK
<1>1. /\ sealed' = TRUE
      /\ UNCHANGED <<base, mem, cap, size, finalized, failed, exec, fault, units, patches, out>>
  BY DEF Seal
<1>2. Flags' BY <1>0, <1>1, Zenon DEF TypeOK, Flags
<1>3. TypeOK' BY <1>0, <1>1, <1>2 DEF TypeOK
<1>4. Phases' BY <1>1 DEF Phases, IInv
<1>5. Faithful => Faithful' BY <1>0, <1>1, StillFaithful
<1> QED BY <1>1, <1>3, <1>4, <1>5 DEF IInv

LEMMA FinalizeAgainInv == ASSUME IInv, FinalizeAgain PROVE IInv'
<1>0. TypeOK /\ size \in Nat BY DEF IInv, TypeOK
<1>1. /\ base # 0 /\ (failed \/ finalized \/ size = 0)
      /\ out' = (IF finalized /\ ~failed THEN base ELSE 0)
      /\ failed' = (failed \/ (~finalized /\ size = 0))
      /\ UNCHANGED <<base, mem, cap, size, sealed, finalized, exec, fault, units, patches>>
  BY DEF FinalizeAgain, Alive
<1>2. Displaced' = Displaced BY <1>0, <1>1, StillDisplaced
<1>3. Flags' BY <1>0, <1>1 DEF TypeOK, Flags
<1>4. out' \in Bases \cup {0} BY <1>0, <1>1 DEF TypeOK
<1>5. TypeOK' BY <1>0, <1>1, <1>3, <1>4 DEF TypeOK
<1>6. Phases' BY <1>1, <1>2 DEF Phases, IInv
<1>7. ~failed' \/ out' # 0 => ~failed BY <1>1
<1>8. Faithful => Faithful' BY <1>0, <1>1, StillFaithful
<1> QED BY <1>1, <1>5, <1>6, <1>7, <1>8 DEF IInv

LEMMA FinalizeInv ==
  ASSUME IInv, NEW trimmed \in BOOLEAN, NEW granted \in BOOLEAN, Finalize(trimmed, granted)
  PROVE  IInv'
<1>0. TypeOK /\ size \in Nat /\ cap \in Nat /\ size <= cap BY DEF IInv, TypeOK
<1>1. /\ base # 0 /\ ~failed /\ ~finalized /\ ~fault
      /\ cap' = (IF trimmed THEN PageAlign(size) ELSE cap)
      /\ mem' = [u \in 0 .. cap' - 1 |-> mem[u]]
      /\ UNCHANGED <<base, size, failed, fault, units, patches>>
  BY DEF Finalize, Alive
<1>2. \/ finalized' = TRUE /\ sealed' = TRUE /\ exec' = TRUE /\ out' = base
      \/ out' = 0 /\ UNCHANGED <<finalized, sealed, exec>>
  BY DEF Finalize
<1>3. cap' \in Nat /\ size <= cap' BY <1>0, <1>1, PageAlignUp
<1>4. DOMAIN mem' = 0 .. cap' - 1 /\ \A u \in 0 .. size - 1 : mem'[u] = mem[u]
  BY <1>0, <1>1, <1>3
<1>5. Displaced' = Displaced BY <1>0, <1>1, <1>4, StillDisplaced
<1>6. Flags' BY <1>0, <1>1, <1>2, Zenon DEF TypeOK, Flags
<1>7. TypeOK' BY <1>0, <1>1, <1>2, <1>3, <1>4, <1>6 DEF TypeOK
<1>8. Phases' BY <1>1, <1>2, <1>5 DEF Phases, IInv
<1>9. Faithful BY <1>1 DEF IInv
<1>10. Faithful' BY <1>9, <1>0, <1>1, <1>4, StillFaithful
<1> QED BY <1>7, <1>8, <1>10 DEF IInv

LEMMA ResetInv == ASSUME IInv, Reset PROVE IInv'
<1>0. TypeOK /\ cap \in Nat BY DEF IInv, TypeOK
<1>1. /\ base # 0 /\ ~fault
      /\ size' = 0 /\ finalized' = FALSE /\ sealed' = FALSE /\ failed' = FALSE
      /\ units' = 0 /\ patches' = NoPatch /\ out' = 0
      /\ UNCHANGED <<base, mem, cap, exec, fault>>
  BY DEF Reset, Alive
<1>2. Displaced' = {} BY <1>1 DEF Displaced
<1>3. Flags' BY <1>0, <1>1, Zenon DEF TypeOK, Flags
<1>4. TypeOK' BY <1>0, <1>1, <1>3 DEF TypeOK
<1>5. Phases' BY <1>1, <1>2 DEF Phases, IInv
<1>6. Faithful' BY <1>1, <1>2 DEF Faithful, NoPatch
<1> QED BY <1>4, <1>5, <1>6 DEF IInv

LEMMA FreeInv == ASSUME IInv, Free PROVE IInv'
<1>0. TypeOK BY DEF IInv
<1>1. /\ base # 0 /\ ~fault
      /\ base' = 0 /\ mem' = Zeroes(0) /\ cap' = 0 /\ size' = 0 /\ exec' = FALSE
      /\ out' = 0
      /\ UNCHANGED <<sealed, finalized, failed, fault, units, patches>>
  BY DEF Free, Alive
<1>2. Displaced' = {} BY <1>1 DEF Displaced
<1>3. Flags' BY <1>0, <1>1, Zenon DEF TypeOK, Flags
<1>4. DOMAIN mem' = 0 .. cap' - 1 BY <1>1 DEF Zeroes
<1>5. TypeOK' BY <1>0, <1>1, <1>3, <1>4 DEF TypeOK
<1>6. Phases' BY <1>1, <1>2 DEF Phases, IInv
<1> QED BY <1>1, <1>5, <1>6 DEF IInv

-----------------------------------------------------------------------------
\* Every step keeps the invariant.
LEMMA NextInv == IInv /\ [Next]_vars => IInv'
<1> SUFFICES ASSUME IInv, [Next]_vars PROVE IInv' OBVIOUS
<1>1. ASSUME NEW o \in Holes, NEW target \in {base + p : p \in Labels} \cup Natives,
             PatchRel(o, target), ~Faults
      PROVE  IInv'
  <2>1. base \in Nat BY CodeBufAssumption DEF IInv, TypeOK
  <2>2. target \in Int
    <3>1. CASE target \in Natives BY <3>1, CodeBufAssumption
    <3>2. CASE target \in {base + p : p \in Labels}
      <4>1. PICK p \in Labels : target = base + p BY <3>2
      <4>2. p \in Nat BY CodeBufAssumption
      <4> QED BY <4>1, <4>2, <2>1
    <3> QED BY <3>1, <3>2
  <2> QED BY <2>2, <1>1, PatchRelInv
<1>2. CASE UNCHANGED vars
  <2>0. Flags' BY <1>2, Zenon DEF vars, IInv, TypeOK, Flags
  <2>1. TypeOK' BY <1>2, <2>0 DEF vars, IInv, TypeOK
  <2>2. Displaced' = Displaced BY <1>2 DEF vars, Displaced
  <2>3. Phases' BY <1>2, <2>2 DEF vars, IInv, Phases
  <2>4. Faithful => Faithful' BY <1>2, <2>2 DEF vars, Faithful
  <2> QED BY <1>2, <2>1, <2>3, <2>4 DEF vars, IInv
<1>3. CASE Faults BY <1>3, FaultsInv
<1>4. CASE Next /\ ~Faults
  BY <1>1, <1>4, JcbInitInv, ReserveInv, EmitSealedInv, EmitInv, PatchInv, SealInv,
     FinalizeAgainInv, FinalizeInv, ResetInv, FreeInv
  DEF Next
<1> QED BY <1>2, <1>3, <1>4

\* jit_codebuf.h:22-34, "TWO PHASES, and the boundary is the whole safety
\* argument": on every platform's page size and addresses, for every driver.
THEOREM BufferIsSound == Spec => []IInv
<1>1. Init => IInv BY InitInv
<1>2. IInv /\ [Next]_vars => IInv' BY NextInv
<1> QED BY <1>1, <1>2, PTL DEF Spec

\* jit_codebuf.h:180, finalize gives back only what was stamped, with every
\* displacement reaching its target from where the buffer is.
THEOREM FinalizedCodeIsRight == Spec => []HandedOutIsWhatWasAsked
<1>1. IInv => HandedOutIsWhatWasAsked
  <2> SUFFICES ASSUME IInv, out # 0 PROVE out = base /\ Faithful
    BY DEF HandedOutIsWhatWasAsked
  <2>1. out = base /\ base # 0 BY DEF IInv, Phases
  <2> QED BY <2>1 DEF IInv
<1> QED BY <1>1, BufferIsSound, PTL

\* jit_codebuf.h:24, a buffer that holds a displacement stays where it is.
THEOREM DisplacementsHold == Spec => DisplacementsPinIt
<1> DEFINE Pinned == Displaced # {} => \/ base' = base /\ size' = size
                                      \/ size' = 0
<1>1. IInv /\ [Next]_vars => [Pinned]_vars
  <2> SUFFICES ASSUME IInv, Next, Displaced # {} PROVE Pinned OBVIOUS
  <2>1. sealed /\ base # 0
    <3>1. sealed BY DEF IInv, Phases
    <3>2. size # 0 BY DEF Displaced
    <3> QED BY <3>1, <3>2 DEF IInv, Phases
  <2>2. ASSUME NEW len \in Lens, NEW nb \in Bases \cup {0}, Reserve(len, nb) PROVE Pinned
    <3> DEFINE r == Reserved(len, nb)
    <3>1. TypeOK /\ len \in Nat BY CodeBufAssumption DEF IInv
    <3>2. r.base = base BY <3>1, <2>1, ReservedAnswers
    <3>3. base' = r.base /\ size' = size BY <2>2 DEF Reserve
    <3> QED BY <3>2, <3>3
  <2>3. ASSUME NEW len \in Lens, NEW nb \in Bases \cup {0}, Emit(len, nb) PROVE FALSE
    BY <2>1, <2>3 DEF Emit
  <2>4. ASSUME NEW initial \in Caps, NEW b \in Bases, JcbInit(initial, b) PROVE FALSE
    BY <2>1, <2>4 DEF JcbInit
  <2> QED BY <2>2, <2>3, <2>4
      DEF Next, EmitSealed, Patch, PatchRel, Patched, Faults, Seal, FinalizeAgain, Finalize,
          Reset, Free
<1> QED BY <1>1, BufferIsSound, PTL DEF Spec, DisplacementsPinIt

=============================================================================
