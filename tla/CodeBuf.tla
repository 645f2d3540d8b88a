------------------------------ MODULE CodeBuf -------------------------------
(***************************************************************************)
(* src/jitterator/runtime/jit_codebuf.h: the buffer a copy-and-patch JIT   *)
(* stamps its code into.  A driver emits stencils, seals, patches the      *)
(* displacements and finalizes; the buffer may move while it grows.  The   *)
(* unit is the four bytes of a 32-bit field.  mmap, munmap and mprotect    *)
(* may fail, and mmap may return any address not in use.                   *)
(***************************************************************************)
EXTENDS Integers

CONSTANTS Page,       \* units of a page
          DefaultCap, \* the capacity of an initial_cap of 0
          Bases,      \* where mmap may place a mapping
          MaxCap,     \* mmap refuses more than this: the bound of the model
          MaxAsked,   \* units a driver asks for: the other bound
          Caps, Lens, \* the arguments of jcb_init, jcb_emit and jcb_reserve
          Holes,      \* the places a driver patches
          Labels,     \* the places in the buffer that displacements aim at
          Natives,    \* the targets outside it
          Reach       \* how far a 32-bit displacement reaches

ASSUME CodeBufAssumption ==
    /\ Page \in Nat \ {0} /\ DefaultCap \in Nat \ {0}
    /\ Bases \subseteq Nat \ {0} /\ Natives \subseteq Nat
    /\ Holes \subseteq Nat /\ Labels \subseteq Nat
    /\ MaxCap \in Nat /\ MaxAsked \in Nat /\ Caps \subseteq Nat /\ Lens \subseteq Nat \ {0}
    /\ Reach \in Nat

VARIABLES base,       \* 0 is NULL
          mem,        \* the mapping's units: what was written there
          cap, size, sealed, finalized, failed,
          exec,       \* is the mapping executable, and so not writable?
          fault,      \* did a write meet an executable mapping?
          units,      \* asked to be emitted, from a reset to finalize or the
          patches,    \* first failure, and what was patched where (history)
          out         \* the pointer finalize last gave the caller, 0 for none

vars == <<base, mem, cap, size, sealed, finalized, failed, exec, fault, units, patches, out>>

Zero == <<"zero">>
Stencil == <<"stencil">>
Absolute == <<"absolute">>
Rel(target, disp) == <<"rel", target, disp>>
Zeroes(n) == [o \in 0 .. n - 1 |-> Zero]

PageAlign(n) == ((n + Page - 1) \div Page) * Page

\* A failed buffer stays refused until a reset, whatever else it is asked.
Noting == ~finalized /\ ~failed
Asked(len) == units' = (IF Noting THEN units + len ELSE units) /\ UNCHANGED patches
NoPatch == [o \in {} |-> Zero]
AskedAt(o, n, v) ==
    /\ patches' = IF Noting
                  THEN [p \in DOMAIN patches \cup (o .. o + n - 1) |->
                           IF p \in o .. o + n - 1 THEN v ELSE patches[p]]
                  ELSE patches
    /\ UNCHANGED units

Init ==
    /\ base = 0 /\ mem = Zeroes(0) /\ cap = 0 /\ size = 0
    /\ sealed = FALSE /\ finalized = FALSE /\ failed = FALSE
    /\ exec = FALSE /\ fault = FALSE /\ units = 0 /\ patches = NoPatch /\ out = 0

\* jcb_init that is given a mapping; one that is not leaves no buffer to use.
JcbInit(initial, b) ==
    /\ base = 0
    /\ cap' = PageAlign(IF initial = 0 THEN DefaultCap ELSE initial)
    /\ base' = b /\ mem' = Zeroes(cap')
    /\ size' = 0 /\ sealed' = FALSE /\ finalized' = FALSE /\ failed' = FALSE
    /\ exec' = FALSE /\ units' = 0 /\ patches' = NoPatch /\ out' = 0
    /\ UNCHANGED fault

\* What a write through base does: units o .. o + n - 1 become v.
Written(m, o, n, v) == [u \in DOMAIN m |-> IF u \in o .. o + n - 1 THEN v ELSE m[u]]

\* The capacity jcb_reserve asks for.
Wanted(extra) ==
    PageAlign(IF 2 * cap > size + extra THEN 2 * cap ELSE size + extra + Page)

\* The units of a new mapping: memcpy(nb, b->base, b->size).
Moved(n) == [u \in 0 .. n - 1 |-> IF u < size THEN mem[u] ELSE Zero]

\* jcb_reserve, with its outcome: [ok, base, cap, mem].  A sealed or finalized
\* buffer does not grow.
Reserved(extra, nb) ==
    IF size + extra <= cap THEN [ok |-> TRUE, base |-> base, cap |-> cap, mem |-> mem]
    ELSE IF sealed \/ finalized \/ nb = 0 \/ Wanted(extra) > MaxCap
    THEN [ok |-> FALSE, base |-> base, cap |-> cap, mem |-> mem]
    ELSE [ok |-> TRUE, base |-> nb, cap |-> Wanted(extra), mem |-> Moved(Wanted(extra))]

\* A mapping that grew is a new one: readable and writable.
StillExec(r) == exec /\ r.base = base

Alive == base # 0 /\ ~fault

\* memcpy into a mapping that is read and execute only: the program ends there.
Faults ==
    /\ fault' = TRUE
    /\ UNCHANGED <<base, mem, cap, size, sealed, finalized, failed, exec, units, patches, out>>

Reserve(extra, nb) ==
    /\ Alive
    /\ LET r == Reserved(extra, nb)
       IN /\ base' = r.base /\ cap' = r.cap /\ mem' = r.mem
          /\ failed' = (failed \/ ~r.ok) /\ exec' = StillExec(r)
    /\ UNCHANGED <<size, sealed, finalized, fault, units, patches, out>>

\* jcb_emit after the seal.
EmitSealed(len) ==
    /\ Alive /\ sealed
    /\ failed' = TRUE /\ Asked(len)
    /\ UNCHANGED <<base, mem, cap, size, sealed, finalized, exec, fault, out>>

\* jcb_emit in the emit phase; a reserve that fails has marked the buffer.
Emit(len, nb) ==
    /\ Alive /\ ~sealed
    /\ LET r == Reserved(len, nb)
       IN IF r.ok /\ StillExec(r) THEN Faults
          ELSE /\ base' = r.base /\ cap' = r.cap /\ failed' = (failed \/ ~r.ok)
               /\ exec' = StillExec(r) /\ Asked(len)
               /\ mem' = IF r.ok THEN Written(r.mem, size, len, Stencil) ELSE r.mem
               /\ size' = IF r.ok THEN size + len ELSE size
               /\ UNCHANGED <<sealed, finalized, fault, out>>

\* A patch of n units at o that become v, asked for as w.
Patched(refused, o, n, v, w) ==
    IF ~refused /\ exec THEN Faults
    ELSE /\ AskedAt(o, n, w)
         /\ IF refused THEN failed' = TRUE /\ UNCHANGED mem
            ELSE mem' = Written(mem, o, n, v) /\ UNCHANGED failed
         /\ UNCHANGED <<base, cap, size, sealed, finalized, exec, fault, out>>

\* jcb_patch32 (n = 1) and jcb_patch64 (n = 2)
Patch(o, n) == Alive /\ Patched(o + n > size, o, n, Absolute, Absolute)

Disp(o, target) == target - (base + o + 1)

\* Mutant: a displacement may be written in the emit phase.
RelRefusedUnsealed(o, target) ==
    \/ o + 1 > size
    \/ Disp(o, target) < -Reach \/ Disp(o, target) >= Reach

\* jcb_patch_rel32's three refusals.
RelRefused(o, target) ==
    \/ ~sealed
    \/ o + 1 > size
    \/ Disp(o, target) < -Reach \/ Disp(o, target) >= Reach

\* jcb_patch_rel32
PatchRel(o, target) ==
    /\ Alive
    /\ Patched(RelRefused(o, target), o, 1, Rel(target, Disp(o, target)), <<"rel", target>>)

Seal ==
    /\ Alive /\ sealed' = TRUE
    /\ UNCHANGED <<base, mem, cap, size, finalized, failed, exec, fault, units, patches, out>>

\* jcb_finalize that gives nothing back, or what it gave before.
FinalizeAgain ==
    /\ Alive /\ (failed \/ finalized \/ size = 0)
    /\ out' = IF finalized /\ ~failed THEN base ELSE 0
    /\ failed' = (failed \/ (~finalized /\ size = 0))
    /\ UNCHANGED <<base, mem, cap, size, sealed, finalized, exec, fault, units, patches>>

\* Mutant: the failed mark is not looked at.
FinalizeFailed(trimmed, granted) ==
    /\ Alive /\ ~finalized /\ size # 0
    /\ cap' = IF trimmed THEN PageAlign(size) ELSE cap
    /\ mem' = [u \in 0 .. cap' - 1 |-> mem[u]]
    /\ IF granted THEN finalized' = TRUE /\ sealed' = TRUE /\ exec' = TRUE /\ out' = base
       ELSE out' = 0 /\ UNCHANGED <<finalized, sealed, exec>>
    /\ UNCHANGED <<base, size, failed, fault, units, patches>>

\* jcb_finalize: the tail is unmapped unless munmap fails, and what is left is
\* made executable unless mprotect fails.
Finalize(trimmed, granted) ==
    /\ Alive /\ ~failed /\ ~finalized /\ size # 0
    /\ cap' = IF trimmed THEN PageAlign(size) ELSE cap
    /\ mem' = [u \in 0 .. cap' - 1 |-> mem[u]]
    /\ IF granted THEN finalized' = TRUE /\ sealed' = TRUE /\ exec' = TRUE /\ out' = base
       ELSE out' = 0 /\ UNCHANGED <<finalized, sealed, exec>>
    /\ UNCHANGED <<base, size, failed, fault, units, patches>>

\* jcb_reset: the flags and the size, not the mapping or its protection.
Reset ==
    /\ Alive
    /\ size' = 0 /\ finalized' = FALSE /\ sealed' = FALSE /\ failed' = FALSE
    /\ units' = 0 /\ patches' = NoPatch /\ out' = 0
    /\ UNCHANGED <<base, mem, cap, exec, fault>>

\* jcb_free
Free ==
    /\ Alive
    /\ base' = 0 /\ mem' = Zeroes(0) /\ cap' = 0 /\ size' = 0 /\ exec' = FALSE
    /\ out' = 0
    /\ UNCHANGED <<sealed, finalized, failed, fault, units, patches>>

Next ==
    \/ \E initial \in Caps, b \in Bases : JcbInit(initial, b)
    \/ \E len \in Lens, nb \in (Bases \cup {0}) \ {base} :
           \/ Reserve(len, nb)
           \/ units + len <= MaxAsked /\ Emit(len, nb)
    \/ \E len \in Lens : units + len <= MaxAsked /\ EmitSealed(len)
    \/ \E o \in Holes :
           \/ \E n \in 1 .. 2 : Patch(o, n)
           \/ \E target \in {base + p : p \in Labels} \cup Natives : PatchRel(o, target)
    \/ Seal \/ FinalizeAgain
    \/ \E trimmed, granted \in BOOLEAN : Finalize(trimmed, granted)
    \/ Reset \/ Free

Spec == Init /\ [][Next]_vars

-----------------------------------------------------------------------------
Flags ==
    /\ sealed \in BOOLEAN /\ finalized \in BOOLEAN /\ failed \in BOOLEAN
    /\ exec \in BOOLEAN /\ fault \in BOOLEAN

(* Type correctness, and what was stamped is inside the mapping. *)
TypeOK ==
    /\ Flags
    /\ base \in Bases \cup {0} /\ out \in Bases \cup {0}
    /\ cap \in Nat /\ size \in 0 .. cap /\ units \in Nat
    /\ DOMAIN mem = 0 .. cap - 1

Displaced == {o \in 0 .. size - 1 : mem[o][1] = "rel"}

\* The buffer holds what was asked of it.
Faithful ==
    /\ size = units
    /\ \A o \in 0 .. size - 1 : mem[o] # Zero
    /\ \A o \in DOMAIN patches :
           /\ o \in 0 .. size - 1 /\ mem[o][1] = patches[o][1]
           /\ patches[o] # Absolute => mem[o][2] = patches[o][2]
    /\ \A o \in Displaced : base + o + 1 + mem[o][3] = mem[o][2]

(* jit_codebuf.h:180, code that finalize hands back is what was stamped:   *)
(* every unit asked for is there and written, every patch asked for is     *)
(* there, and a displacement reaches its target from where the buffer now  *)
(* is, whatever moves, refusals and failures came before.                  *)
HandedOutIsWhatWasAsked == out # 0 => out = base /\ Faithful

(* jit_codebuf.h:24, "nothing whose value depends on `base` may be written *)
(* while the layout can still change": a buffer with a displacement in it  *)
(* does not move and does not grow.                                        *)
DisplacementsPinIt ==
    [][Displaced # {} => \/ base' = base /\ size' = size
                         \/ size' = 0]_vars

(* jit_codebuf.h:80, reset is for a driver that has to "stamp again from   *)
(* the start, keeping the mapping": the only writes that meet a mapping    *)
(* that is not writable are those on code that is finalized, which         *)
(* jit_codebuf.h:173 does not allow.                                       *)
WritesAreWritable == fault => finalized

-----------------------------------------------------------------------------
\* What the flags say of the phase, and of the mapping.
Phases ==
    /\ base = 0 => size = 0 /\ out = 0 /\ ~exec
    /\ finalized => sealed
    /\ base # 0 /\ finalized => exec
    /\ out # 0 => finalized /\ out = base
    /\ Displaced # {} => sealed

(* jit_codebuf.h:22, the inductive invariant of the proofs: a buffer not   *)
(* marked failed, or handed out before it was, holds what was asked of it. *)
IInv ==
    /\ TypeOK /\ Phases
    /\ base # 0 /\ (~failed \/ out # 0) => Faithful
=============================================================================
