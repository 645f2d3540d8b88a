------------------------------ MODULE CEKProps ------------------------------
(***************************************************************************)
(* What must hold of every run of the CEK machine.  The first group is     *)
(* about the machine alone and is meant for any well-formed program; the   *)
(* second group relies on how bbq.ddcg lays a grammar out.                 *)
(***************************************************************************)
EXTENDS CEK, FiniteSets

Slot == [lo : Nat, hi : Nat]
Binding == [name : STRING, val : Value]
KontRecord == [role : Roles, node : Nat, vals : Seq(Value), i : Nat]
FrameRecord ==
  [type : {"Savepoint", "Loop", "Return"}, on_fail : Nat, next : Nat,
   pos : Nat, depth : Nat, le : BOOLEAN, ksize : Nat, mark : Mark,
   env : Seq(Binding), counter : Nat, limit : Int]

(* Every register of the machine holds a value of its C++ type, and the    *)
(* interval depth never exceeds the interval vectors' size, which          *)
(* PushIntervalApplyKont and the Savepoint restores both index by.         *)
TypeOK ==
  /\ job \in Jobs
  /\ pos \in Nat
  /\ slots \in Seq(Slot)
  /\ depth \in 0..Len(slots)
  /\ le \in BOOLEAN
  /\ env \in Seq(Binding)
  /\ frames \in Seq(FrameRecord)
  /\ K \in Seq(KontRecord)
  /\ ac \in Value
  /\ builder \in BuilderState
  /\ best \in Nat
  /\ failed \in BOOLEAN

(* No read or recorded span leaves the buffer: the cursor, every saved     *)
(* cursor, the furthest error, every window (live or stale), every node's  *)
(* span and the bytes decode_int would read a scalar node from lie inside  *)
(* the input.  AdvancePos and ExternalCall move the cursor unchecked, and  *)
(* Seek checks against input_length only.                                  *)
InBuffer ==
  /\ pos <= Len(input) /\ best <= Len(input)
  /\ \A i \in DOMAIN frames : frames[i].pos <= Len(input)
  /\ \A i \in DOMAIN slots : slots[i].hi <= Len(input)
  /\ \A i \in DOMAIN builder.nodes :
       LET n == builder.nodes[i]
       IN  /\ n.start <= Len(input) /\ n.end <= Len(input)
           /\ n.type.k = "Int" => n.start + n.type.width <= Len(input)
           /\ n.type.k = "Bool" => n.start < Len(input)

(* Truncating kont_stack to a Savepoint's size never pads it with null     *)
(* konts: failure handlers only ever run on a stack that still holds all   *)
(* that was below the attempt, which is nothing.                           *)
StackOnlyShrinks ==
  \A i \in Savepoints(frames) : frames[i].ksize = 0

-----------------------------------------------------------------------------
(* The kont at the bottom of K: the spine kont being run or evaluated for. *)
Base == Prog[K[1].node].kind
Seeking == Base \in {"PushInterval"} \cup FailKinds

(* Bounds confinement (docs/Laws.md): while anything is parsed, the cursor *)
(* is inside the innermost window and each window inside the one around    *)
(* it.  Only between Seek and the PushInterval that follows it, and until  *)
(* a failure handler has restored a Savepoint, may the cursor be outside.  *)
Confined ==
  /\ ~Halted /\ ~Seeking => pos \in effective_start..effective_end
  /\ \A d \in 2..depth : /\ slots[d - 1].lo <= slots[d].lo
                         /\ slots[d].lo <= slots[d].hi
                         /\ slots[d].hi <= slots[d - 1].hi

(* A Savepoint's windows are still there when it is restored: the depth    *)
(* never drops below that of a pending Savepoint, so no slot a Savepoint   *)
(* would bring back to life is overwritten by a later PushInterval.        *)
SavedWindowsIntact ==
  \A i \in Savepoints(frames) : frames[i].depth <= depth

(* The ReturnRule comment: "reaching ReturnRule with no frame means 'rule  *)
(* body finished at top level, jump to next which is Halt.'"  A ReturnRule *)
(* that finds no Return frame on top must have no caller further down.     *)
TopLevelReturnHasNoCaller ==
  ~Halted /\ Base = "ReturnRule" /\ ~TopIs("Return") =>
    \A i \in DOMAIN frames : frames[i].type # "Return"

(* The EvalConstraintCheck comment: "static dispatch here reaches the same *)
(* place fail() would after walking."  When a where-check that is false    *)
(* jumps to a failure handler, it is the handler fail() would have run.    *)
StaticDispatchIsDynamic ==
  /\ ~Halted /\ Top.role = "apply" /\ C.kind = "EvalConstraint"
  /\ HasTruth(ac) /\ ~Truth(ac) /\ IsFail(C.on_false)
  => \E i \in Innermost1(Handlers(frames)) : frames[i].on_fail = C.on_false

(* A successful parse has closed every scope it opened and undone every    *)
(* frame and window: finish() drops what hangs off an open scope.          *)
NothingLeftOpen ==
  Halted /\ ~failed => builder.stack = <<>> /\ frames = <<>> /\ depth = 0

(* What docs/Laws.md says Sema's refusals buy, "the absence of any input   *)
(* that makes the parser spin", as two measures.  An array that only the   *)
(* input bounds (eof, until) has at most one element a byte, and one more  *)
(* when it is a separator that reads.                                      *)
LoopsAreFed ==
  \A i \in Loops : frames[i].limit < 0 => frames[i].counter <= Len(input) + 1

(* A rule calls itself only after it has read: no call, known by where it  *)
(* returns to, is pending more often than the input has positions.         *)
CallsAreFed ==
  \A i \in DOMAIN frames : frames[i].type = "Return" =>
    Cardinality({j \in 1..i : /\ frames[j].type = "Return"
                              /\ frames[j].next = frames[i].next})
      <= Len(input) + 1

(* A parse ends: the trampoline drains K or fails.  Loops advance the      *)
(* cursor or count, and every resync retry starts one byte further on.     *)
Termination == <>Halted
=============================================================================
