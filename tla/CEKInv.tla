------------------------------- MODULE CEKInv -------------------------------
(***************************************************************************)
(* An inductive invariant of the CEK machine, for every well-formed        *)
(* program: what CEKProofs shows every step preserves, and from which type *)
(* correctness, InBuffer and StackOnlyShrinks follow.  Each part is a set  *)
(* or a predicate with its context as parameters: n is the number of nodes *)
(* allocated, len the length of the input, d the number of window slots.   *)
(***************************************************************************)
EXTENDS CEKProps

Scalar == {v \in Value : v.t # "cap"}
GoodValue(n) == {v \in Value : v.t = "cap" => v.v \in 1..n}

(* A node's children exist, and its bytes are in the buffer.               *)
GoodNode(n, len) ==
  {x \in Node : /\ x.val \in Scalar
                /\ x.kids \in Seq(1..n)
                /\ x.start <= len /\ x.end <= len
                /\ x.type.k = "Int" => /\ x.type.width \in {1, 2, 4}
                                       /\ x.start + x.type.width <= len
                /\ x.type.k = "Bool" => x.start < len}
GoodBuilder(len) ==
  {b \in BuilderState : /\ b.nodes \in Seq(GoodNode(Len(b.nodes), len))
                        /\ b.stack \in Seq(1..Len(b.nodes))
                        /\ b.roots \in Seq(1..Len(b.nodes))}

GoodEnv == Seq([name : STRING, val : Scalar])
GoodSlot(len) == {w \in Slot : w.hi <= len}

(* A frame leads somewhere, and what it restores is still meaningful.      *)
GoodFrame(d, len) ==
  {f \in FrameRecord : /\ f.env \in GoodEnv
                       /\ f.pos <= len /\ f.depth <= d
                       /\ IsFailOrNil(f.on_fail)
                       /\ f.type = "Return" => /\ IsSpine(f.next)
                                               /\ Owing(f.next) = 0
                       /\ f.type = "Savepoint" => f.ksize = 0}

(* A continuation is in the program, has its operands, and owes no more    *)
(* bytes than there are left.                                              *)
GoodKont(n, room) ==
  {k \in KontRecord :
     /\ k.node \in KontId /\ Owing(k.node) <= room
     /\ k.vals \in Seq(GoodValue(n))
     /\ k.role = "apply" /\ Prog[k.node].kind \in {"Bin", "IndexAccess"} =>
          Len(k.vals) = 1
     /\ k.role = "apply" /\ Prog[k.node].kind = "Call" =>
          Len(k.vals) = Len(Prog[k.node].args)}

(* Everything above the bottom of the stack belongs to an expression, or   *)
(* is the handler of a failure in one.                                     *)
Above(k) == Prog[k.node].kind \in ExprKinds \cup FailKinds
(* EvalLeft stands on the apply kont it stores into.                       *)
Paired(k, below) ==
  k.role = "left" => /\ below.role = "apply" /\ below.node = k.node
                     /\ Prog[k.node].kind \in {"Bin", "IndexAccess"}
GoodStack(n, room) ==
  {s \in Seq(GoodKont(n, room)) :
     /\ \A i \in 2..Len(s) : Above(s[i]) /\ Paired(s[i], s[i - 1])
     /\ s # <<>> => s[1].role # "left"}

(* The inductive invariant: every register is good in the context of the   *)
(* others.                                                                 *)
IInv ==
  /\ job \in Jobs /\ le \in BOOLEAN /\ failed \in BOOLEAN
  /\ pos \in 0..Len(input) /\ best \in 0..Len(input)
  /\ slots \in Seq(GoodSlot(Len(input))) /\ depth \in 0..Len(slots)
  /\ env \in GoodEnv
  /\ frames \in Seq(GoodFrame(Len(slots), Len(input)))
  /\ builder \in GoodBuilder(Len(input))
  /\ ac \in GoodValue(Len(builder.nodes))
  /\ K \in GoodStack(Len(builder.nodes), Len(input) - pos)
=============================================================================
