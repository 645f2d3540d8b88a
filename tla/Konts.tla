------------------------------- MODULE Konts -------------------------------
(***************************************************************************)
(* Compiled grammars: the static konts of backends/cek/bbq_ir.asdl, which  *)
(* bbq.ddcg emits and the CEK machine runs.  A grammar is a graph Prog of  *)
(* konts; a kont is a record whose fields have the names of the C++        *)
(* members, a link is a position in Prog and Nil is nullptr.               *)
(*                                                                         *)
(* Left out: floats, 64-bit widths and the bitwise operators.              *)
(***************************************************************************)
EXTENDS Builder

CONSTANTS
  Prog,          \* the compiled grammar: a sequence of static konts
  Jobs,          \* execute_from calls: [entry, input, le, ...]
  ExternParse    \* registered external parsers: name -> bytes one consumes

Nil == 0
KontId == DOMAIN Prog

-----------------------------------------------------------------------------
(* Well-formed programs: what the compiler guarantees about the graph.     *)

ExprKinds == {"Lit", "Ref", "Pos", "Remaining", "EOI", "Start", "End",
              "Buffer", "LoopVar", "Bin", "Un", "Logical", "Ternary", "Call",
              "PathStart", "FieldAccess", "IndexAccess", "CaptureValue"}
SiteKinds == {"EvalConstraint", "BindCompute", "SetEndian", "MatchBytes",
              "SwitchDispatch", "Seek"}
ChainKinds == {"BindCompute", "SetEndian", "MatchBytes", "Seek",
               "EvalConstraint", "EndArray", "ExtractBits", "AdvancePos",
               "ExternalCall", "InvokeRule", "ReturnRule", "BeginStruct",
               "BeginVariant", "EndStruct", "PushInterval", "PopInterval",
               "BeginChoice", "CommitChoice", "BeginOptional", "EndOptional",
               "MatchPrimitive", "Capture", "StoreEnv", "BeginArray"}
SpineKinds == ChainKinds \cup {"SwitchDispatch", "ArrayNext", "AbortRule",
                               "Halt"}
FailKinds == {"OnFail", "Resync"}

IsExpr(n) == n \in KontId /\ Prog[n].kind \in ExprKinds
IsSpine(n) == n \in KontId /\ Prog[n].kind \in SpineKinds
IsFail(n) == n \in KontId /\ Prog[n].kind \in FailKinds
IsFailOrNil(n) == n = Nil \/ IsFail(n)

PrimitiveInfo == [kind : {"Integer", "Bool"}, width : {1, 2, 4},
                  signed : BOOLEAN, endian : {"Little", "Big", "Native"},
                  encoding : {"Fixed", "Uleb", "Sleb"}]
BinOps == {"+", "-", "*", "/", "%", "==", "!=", "<", "<=", ">", ">="}
Modes == {"FixedCount", "EOF", "Count", "Until"}

(* owes: the bytes an AdvancePos further down the chain will step over     *)
(* without a check of its own; only ExtractBits may establish it.          *)
Owing(n) == IF n \in KontId /\ Prog[n].kind \in SpineKinds
            THEN Prog[n].owes ELSE 0

KontOK(c) ==
  /\ c.kind \in ExprKinds \cup SpineKinds \cup FailKinds
  /\ c.kind \in SpineKinds => c.owes \in Nat
  /\ c.kind = "Lit" => c.val \in Value /\ c.val.t # "cap"
  /\ c.kind \in {"Ref", "PathStart", "Capture", "StoreEnv", "BeginStruct",
                 "BeginVariant", "BeginArray"} => c.name \in STRING
  /\ c.kind \in {"Bin", "Logical", "IndexAccess"} =>
       IsExpr(c.left) /\ IsExpr(c.right)
  /\ c.kind = "Bin" => c.op \in BinOps
  /\ c.kind \in {"Un", "FieldAccess", "CaptureValue"} => IsExpr(c.operand)
  /\ c.kind = "Ternary" => IsExpr(c.cond) /\ IsExpr(c.then) /\ IsExpr(c.else)
  /\ c.kind = "Call" => c.args \in Seq(KontId) /\ \A i \in DOMAIN c.args :
                                                    IsExpr(c.args[i])
  /\ c.kind \in SiteKinds \cup {"PushInterval"} => IsExpr(c.expr)
  /\ c.kind \in ChainKinds => IsSpine(c.next)
  /\ c.kind = "EvalConstraint" =>
       IsFailOrNil(c.on_false) \/ IsSpine(c.on_false)
  /\ c.kind = "SwitchDispatch" =>
       /\ c.default = Nil \/ IsSpine(c.default)
       /\ c.cases \in Seq([val : Value, target : KontId, ordinal : Nat])
       /\ \A i \in DOMAIN c.cases : IsSpine(c.cases[i].target)
  /\ c.kind \in {"PushInterval", "BeginArray"} => c.path \in Seq(STRING)
  /\ c.kind = "PushInterval" => c.relative \in BOOLEAN
  /\ c.kind \in {"BeginArray", "ArrayNext"} =>
       /\ c.mode \in Modes
       /\ c.mode # "EOF" => IsExpr(c.expr)
       /\ IsSpine(c.end)
  /\ c.kind = "BeginArray" => IsFailOrNil(c.resync)
  /\ c.kind \in {"ArrayNext", "EndArray"} => c.resync \in BOOLEAN
  /\ c.kind = "ArrayNext" => IsSpine(c.body)
  /\ c.kind = "Resync" => IsSpine(c.body) /\ IsSpine(c.end)
  /\ c.kind = "ExtractBits" =>
       /\ c.prim \in PrimitiveInfo /\ c.prim.encoding = "Fixed"
       /\ c.width \in 1..30 /\ c.offset \in 0..30 /\ c.signed \in BOOLEAN
       /\ c.offset + c.width <= 8 * c.prim.width
       /\ 8 * c.prim.width - c.offset - c.width <= 30
  /\ c.kind = "AdvancePos" => c.by \in Nat
  /\ c.kind = "InvokeRule" => IsSpine(c.entry) /\ IsFailOrNil(c.fail_target)
  /\ c.kind = "OnFail" =>
       /\ c.target = Nil \/ IsSpine(c.target)
       /\ IsFailOrNil(c.next_on_fail)
       /\ c.pop_frame \in BOOLEAN
  /\ c.kind = "BeginVariant" => c.tag \in Nat
  /\ c.kind = "PopInterval" => c.checked \in BOOLEAN
  /\ c.kind \in {"BeginChoice", "BeginOptional"} => IsFail(c.on_fail)
  /\ c.kind = "MatchPrimitive" => c.prim \in PrimitiveInfo
  /\ c.kind = "MatchBytes" => c.is_string \in BOOLEAN

(* A kont that owes bytes hands the debt to its successor unchanged; every *)
(* other link of the graph leads to a kont that owes nothing.              *)
DebtOK(c) ==
  /\ c.kind \in SpineKinds /\ c.owes > 0 =>
       c.kind \in {"AdvancePos", "Capture", "StoreEnv", "EvalConstraint"}
  /\ c.kind = "AdvancePos" => c.owes = c.by /\ Owing(c.next) = 0
  /\ c.kind \in {"Capture", "StoreEnv", "EvalConstraint"} =>
       Owing(c.next) = c.owes
  /\ c.kind = "EvalConstraint" => Owing(c.on_false) = 0
  /\ c.kind = "ExtractBits" => Owing(c.next) <= c.prim.width
  /\ c.kind \in ChainKinds \ {"AdvancePos", "Capture", "StoreEnv",
                              "EvalConstraint", "ExtractBits"} =>
       Owing(c.next) = 0
  /\ c.kind = "SwitchDispatch" =>
       /\ Owing(c.default) = 0
       /\ \A i \in DOMAIN c.cases : Owing(c.cases[i].target) = 0
  /\ c.kind \in {"ArrayNext", "Resync"} => Owing(c.body) = 0
  /\ c.kind \in {"BeginArray", "ArrayNext", "Resync"} => Owing(c.end) = 0
  /\ c.kind = "InvokeRule" => Owing(c.entry) = 0
  /\ c.kind = "OnFail" => Owing(c.target) = 0

ASSUME ProgAssumption ==
  /\ KontId \subseteq Nat \ {Nil}
  /\ \A n \in KontId : KontOK(Prog[n]) /\ DebtOK(Prog[n])
ASSUME JobsAssumption ==
  \A j \in Jobs : /\ IsSpine(j.entry) /\ Owing(j.entry) = 0
                  /\ j.input \in Seq(0..255)
                  /\ j.le \in BOOLEAN
ASSUME ExternAssumption ==
  \A f \in DOMAIN ExternParse : ExternParse[f] \in Nat
(* The scales a bitfield entry is shifted and masked by.                   *)
ASSUME ScaleAssumption == \A n \in 0..30 : 2^n \in Nat \ {0}
=============================================================================
