-------------------------------- MODULE CEK --------------------------------
(***************************************************************************)
(* The CEK machine of backends/cek/Machine.cpp: a trampoline over a stack  *)
(* of continuations K that runs a compiled grammar on a byte string and    *)
(* builds the document tree.  One action per invoke() method.              *)
(*                                                                         *)
(* A dynamic kont (ApplyAddKont, BeginArrayWithLimitKont, ...) is          *)
(* allocated per use and copies its fields from the static kont that       *)
(* pushed it, so it is that kont in another role, with the value slots     *)
(* that later konts write into.                                            *)
(*                                                                         *)
(* Expression arithmetic is over the integers where the code's is int64_t. *)
(* Error messages are left out; the furthest error position is kept.       *)
(***************************************************************************)
EXTENDS Konts

VARIABLES
  job,      \* the execute_from call: entry kont, input bytes, byte order
  pos,      \* the cursor
  slots,    \* interval_starts / interval_ends, the bound stack's store
  depth,    \* interval_depth: slots above it are stale
  le,       \* little_endian
  env,      \* the environment chain, newest binding last
  frames,   \* the frame chain, frame_top last
  K,        \* kont_stack, top last
  ac,       \* result, the accumulator
  builder,  \* the document builder
  best,     \* best_error_pos
  failed    \* the failed flag

vars == <<job, pos, slots, depth, le, env, frames, K, ac, builder, best,
          failed>>
window == <<slots, depth>>
store == <<env, frames>>
status == <<job, best, failed>>

-----------------------------------------------------------------------------
input == job.input
Byte(i) == input[i + 1]
effective_start == IF depth > 0 THEN slots[depth].lo ELSE 0
EndAt(d) == IF d > 0 THEN slots[d].hi ELSE Len(input)
effective_end == EndAt(depth)

(* Continuations on K.                                                     *)
Roles == {"run", "apply", "left", "norm", "arg"}
Kont(role, n, vals, i) == [role |-> role, node |-> n, vals |-> vals, i |-> i]
Run(n) == Kont("run", n, <<>>, 0)
Apply(n) == Kont("apply", n, <<Null>>, 0)

Top == K[Len(K)]
Rest == SubSeq(K, 1, Len(K) - 1)
C == Prog[Top.node]

(* The trampoline pops a kont of this kind in this role.                   *)
Control(role, kind) ==
  /\ ~failed /\ K # <<>>
  /\ Top.role = role /\ Top.node \in KontId /\ C.kind = kind

Continue(n) == K' = Append(Rest, Run(n))

(* Frames.  A Return frame keeps return_to in next, a Loop frame outer_env *)
(* in env; the members nothing reads are left out.                         *)
FrameAfterPush(type, on_fail, next, m) ==    \* mutant: counts itself
  [type |-> type, on_fail |-> on_fail, next |-> next, pos |-> pos,
   depth |-> depth, le |-> le, ksize |-> Len(K), mark |-> m, env |-> env,
   counter |-> 0, limit |-> -1]
Frame(type, on_fail, next, m) ==
  [type |-> type, on_fail |-> on_fail, next |-> next, pos |-> pos,
   depth |-> depth, le |-> le, ksize |-> Len(Rest), mark |-> m, env |-> env,
   counter |-> 0, limit |-> -1]
Savepoint(on_fail, b) == Frame("Savepoint", on_fail, Nil, mark(b))
LoopFrame(limit) ==
  [Frame("Loop", Nil, Nil, mark(builder)) EXCEPT !.limit = limit]

FrameTop == frames[Len(frames)]
TopIs(type) == frames # <<>> /\ FrameTop.type = type
PopFrame == SubSeq(frames, 1, Len(frames) - 1)

(* The innermost frame of a set of positions in the chain.                 *)
Innermost1(S) == {i \in S : \A j \in S : j <= i}
Savepoints(fs) == {i \in DOMAIN fs : fs[i].type = "Savepoint"}

(* fail(): note the error position and unwind chain fs to the innermost    *)
(* Savepoint that still has a failure target, which runs next on rest.     *)
Handlers(fs) == {i \in Savepoints(fs) : fs[i].on_fail # Nil}
Unwind(p, fs, rest) ==
  /\ best' = IF p >= best THEN p ELSE best
  /\ \/ \E i \in Innermost1(Handlers(fs)) :
          /\ frames' = SubSeq(fs, 1, i)
          /\ K' = Append(rest, Run(fs[i].on_fail))
          /\ failed' = FALSE
     \/ /\ Handlers(fs) = {}
        /\ frames' = <<>> /\ K' = rest
        /\ failed' = TRUE
Fail ==
  /\ Unwind(pos, frames, Rest)
  /\ UNCHANGED <<job, pos, window, le, env, ac, builder>>

-----------------------------------------------------------------------------
(* Expression konts: deliver a value to the accumulator, push nothing.     *)

Give(v) ==
  /\ ac' = v /\ K' = Rest
  /\ UNCHANGED <<status, pos, window, le, store, builder>>
Schedule(ks) ==
  /\ K' = Rest \o ks
  /\ UNCHANGED <<status, pos, window, le, store, ac, builder>>

Lit == Control("run", "Lit") /\ Give(C.val)

Bound(name) == {i \in DOMAIN env : env[i].name = name}
Ref ==
  /\ Control("run", "Ref")
  /\ \/ \E i \in Innermost1(Bound(C.name)) : Give(env[i].val)
     \/ Bound(C.name) = {} /\ Fail

Pos == Control("run", "Pos") /\ Give(IntV(pos))
Remaining == Control("run", "Remaining") /\ Give(IntV(effective_end - pos))
EOI == Control("run", "EOI") /\ Give(IntV(Len(input)))
Start == Control("run", "Start") /\ Give(IntV(current_scope_start(builder)))
End == Control("run", "End") /\ Give(IntV(effective_end))

Buffer ==
  /\ Control("run", "Buffer")
  /\ ac' = Cap(FreeId(builder)) /\ K' = Rest
  /\ builder' = make_free(builder,
       FreshNode("", Plain("Bytes"), current_scope_start(builder), pos, -1))
  /\ UNCHANGED <<status, pos, window, le, store>>

Loops == {i \in DOMAIN frames : frames[i].type = "Loop"}
LoopVar ==
  /\ Control("run", "LoopVar")
  /\ \/ \E i \in Innermost1(Loops) : Give(IntV(frames[i].counter))
     \/ Loops = {} /\ Fail

(* Binary operators and indexing evaluate right, then left.                *)
BinOp ==
  /\ Control("run", "Bin") \/ Control("run", "IndexAccess")
  /\ Schedule(<<Apply(Top.node), Kont("left", Top.node, <<>>, 0),
                Run(C.right)>>)
EvalLeft ==
  /\ Control("left", "Bin") \/ Control("left", "IndexAccess")
  /\ LET under == [Rest[Len(Rest)] EXCEPT !.vals = <<ac>>]
     IN  K' = Append([Rest EXCEPT ![Len(Rest)] = under], Run(C.left))
  /\ UNCHANGED <<status, pos, window, le, store, ac, builder>>

Abs(a) == IF a < 0 THEN -a ELSE a
(* C++ division truncates toward zero.                                     *)
Quotient(a, b) == IF (a < 0) = (b < 0) THEN Abs(a) \div Abs(b)
                                       ELSE -(Abs(a) \div Abs(b))
Arith(op, a, b) ==
  CASE op = "+" -> a + b
    [] op = "-" -> a - b
    [] op = "*" -> a * b
    [] op = "/" -> Quotient(a, b)
    [] op = "%" -> a - b * Quotient(a, b)
Compare(op, a, b) ==
  CASE op = "<" -> a < b
    [] op = "<=" -> a <= b
    [] op = ">" -> a > b
    [] op = ">=" -> a >= b

ApplyBin ==
  /\ Control("apply", "Bin")
  /\ LET l == ac
         r == Top.vals[1]
         null == l.t = "null" \/ r.t = "null"
         ints == l.t = "int" /\ r.t = "int"
     IN \/ /\ C.op \in {"+", "-", "*", "/", "%"} /\ ints
           /\ C.op \in {"/", "%"} => r.v # 0
           /\ Give(IntV(Arith(C.op, l.v, r.v)))
        \/ /\ C.op \in {"==", "!="} /\ ~null
           /\ Give(BoolV((l = r) = (C.op = "==")))
        \/ /\ C.op \in {"<", "<=", ">", ">="} /\ l.t = r.t
           /\ l.t \in {"int", "str"}
           /\ Give(BoolV(Compare(C.op, l.v, r.v)))
        \/ /\ \/ C.op \in {"+", "-", "*", "/", "%"} /\ ~ints
              \/ C.op \in {"/", "%"} /\ ints /\ r.v = 0
              \/ null
              \/ C.op \in {"<", "<=", ">", ">="}
                 /\ (l.t # r.t \/ l.t \notin {"int", "str"})
           /\ Fail

(* coerce_to_bool: bools and ints have a truth value, nothing else does.   *)
HasTruth(v) == v.t \in {"bool", "int"}
Truth(v) == v.v # 0

UnOp ==
  /\ \E kind \in {"Un", "FieldAccess", "CaptureValue"} : Control("run", kind)
  /\ Schedule(<<Apply(Top.node), Run(C.operand)>>)
ApplyUn ==
  /\ Control("apply", "Un")
  /\ \/ C.op = "-" /\ ac.t = "int" /\ Give(IntV(-ac.v))
     \/ C.op = "!" /\ HasTruth(ac) /\ Give(BoolV(~Truth(ac)))
     \/ C.op = "-" /\ ac.t # "int" /\ Fail
     \/ C.op = "!" /\ ~HasTruth(ac) /\ Fail

Logical ==
  /\ Control("run", "Logical")
  /\ Schedule(<<Apply(Top.node), Run(C.left)>>)
LogicalCheck ==
  /\ Control("apply", "Logical")
  /\ LET decided == Truth(ac) = (C.op = "||")
     IN \/ HasTruth(ac) /\ decided /\ Give(BoolV(Truth(ac)))
        \/ /\ HasTruth(ac) /\ ~decided
           /\ Schedule(<<Kont("norm", Top.node, <<>>, 0), Run(C.right)>>)
        \/ ~HasTruth(ac) /\ Fail
Normalize ==
  /\ Control("norm", "Logical")
  /\ \/ HasTruth(ac) /\ Give(BoolV(Truth(ac)))
     \/ ~HasTruth(ac) /\ Fail

Ternary ==
  /\ Control("run", "Ternary")
  /\ Schedule(<<Apply(Top.node), Run(C.cond)>>)
TernaryDispatch ==
  /\ Control("apply", "Ternary")
  /\ \/ /\ HasTruth(ac)
        /\ Schedule(<<Run(IF Truth(ac) THEN C.then ELSE C.else)>>)
     \/ ~HasTruth(ac) /\ Fail

(* Calls evaluate their arguments left to right into the apply kont's      *)
(* buffer: an ArgStore below each argument writes slot i of it.            *)
Call ==
  /\ Control("run", "Call")
  /\ LET n == Len(C.args)
         Arg(j) == n - ((j + 1) \div 2)
     IN Schedule(<<Kont("apply", Top.node, [i \in 1..n |-> Null], 0)>>
                 \o [j \in 1..(2 * n) |->
                       IF j % 2 = 1 THEN Kont("arg", Top.node, <<>>, Arg(j))
                                    ELSE Run(C.args[Arg(j) + 1])])
ArgStore ==
  /\ Control("arg", "Call")
  /\ LET a == Len(Rest) - 2 * (Len(C.args) - 1 - Top.i)
         vals == [Rest[a].vals EXCEPT ![Top.i + 1] = ac]
     IN K' = [Rest EXCEPT ![a] = [Rest[a] EXCEPT !.vals = vals]]
  /\ UNCHANGED <<status, pos, window, le, store, ac, builder>>

Arity == [abs |-> 1, min |-> 2, max |-> 2, clamp |-> 3, peek |-> 0]
Lesser(a, b) == IF a < b THEN a ELSE b
Greater(a, b) == IF a > b THEN a ELSE b
CallApply ==
  /\ Control("apply", "Call")
  /\ LET a == Top.vals
         known == C.func \in DOMAIN Arity /\ Arity[C.func] = Len(C.args)
         ints == \A i \in DOMAIN a : a[i].t = "int"
         peekable == C.func = "peek" => pos < effective_end
     IN \/ /\ known /\ ints /\ peekable
           /\ \/ C.func = "abs" /\ Give(IntV(Abs(a[1].v)))
              \/ C.func = "min" /\ Give(IntV(Lesser(a[1].v, a[2].v)))
              \/ C.func = "max" /\ Give(IntV(Greater(a[1].v, a[2].v)))
              \/ /\ C.func = "clamp"
                 /\ Give(IntV(IF a[1].v < a[2].v THEN a[2].v
                              ELSE Lesser(a[1].v, a[3].v)))
              \/ C.func = "peek" /\ Give(IntV(Byte(pos)))
        \/ ~(known /\ ints /\ peekable) /\ Fail

(* Paths: a chain of lookups that delivers a node, then the value in it.   *)
PathStart ==
  /\ Control("run", "PathStart")
  /\ LET found == find_field(builder, C.name)
     IN \/ \E id \in found : Give(Cap(id))
        \/ found = {} /\ Fail
FieldAccessApply ==
  /\ Control("apply", "FieldAccess")
  /\ LET found == IF ac.t = "cap" THEN find_child(builder, ac.v, C.name)
                                  ELSE {}
     IN \/ \E id \in found : Give(Cap(id))
        \/ found = {} /\ Fail
IndexAccessApply ==
  /\ Control("apply", "IndexAccess")
  /\ LET ix == Top.vals[1]
         found == IF ac.t = "cap" /\ ix.t = "int"
                  THEN find_child_at(builder, ac.v, ix.v) ELSE {}
     IN \/ \E id \in found : Give(Cap(id))
        \/ found = {} /\ Fail

(* read_primitive: the bytes at p, most significant digit signed if asked. *)
WantLE(prim) == IF prim.endian = "Native" THEN le ELSE prim.endian = "Little"
SignedDigit(d, base, signed) ==
  IF signed /\ 2 * d >= base THEN d - base ELSE d
Number(p, width, signed, little) ==
  LET Digit(i) == Byte(IF little THEN p + i ELSE p + width - 1 - i)
      D(i) == IF i >= width THEN 0
              ELSE SignedDigit(Digit(i), 256, signed /\ i = width - 1)
  IN  D(0) + 256 * (D(1) + 256 * (D(2) + 256 * D(3)))
read_primitive(p, prim) ==
  IF prim.kind = "Bool" THEN BoolV(Byte(p) # 0)
  ELSE IntV(Number(p, prim.width, prim.signed, WantLE(prim)))
primitive_capture_type(prim) ==
  IF prim.kind = "Bool" THEN Plain("Bool")
  ELSE [k |-> "Int", width |-> prim.width, signed |-> prim.signed,
        le |-> prim.width > 1 /\ WantLE(prim)]

(* CaptureValueApply: a computed value, or decode_int of the node's span.  *)
decode_int(n) ==
  IF n.type.k = "Bool" THEN IntV(IF Byte(n.start) # 0 THEN 1 ELSE 0)
  ELSE IntV(Number(n.start, n.type.width, n.type.signed, n.type.le))
CaptureValueApply ==
  /\ Control("apply", "CaptureValue")
  /\ LET n == builder.nodes[ac.v]
     IN \/ ac.t = "cap" /\ n.val # Null /\ Give(n.val)
        \/ /\ ac.t = "cap" /\ n.val = Null /\ n.type.k \in {"Int", "Bool"}
           /\ Give(decode_int(n))
        \/ /\ ac.t = "cap" => n.val = Null /\ n.type.k \notin {"Int", "Bool"}
           /\ Fail

-----------------------------------------------------------------------------
(* Site konts evaluate an expression and then act on it.                   *)

Site ==
  /\ \E kind \in SiteKinds : Control("run", kind)
  /\ Schedule(<<Apply(Top.node), Run(C.expr)>>)

EvalConstraintCheck ==
  /\ Control("apply", "EvalConstraint")
  /\ \/ HasTruth(ac) /\ Truth(ac) /\ Schedule(<<Run(C.next)>>)
     \/ /\ HasTruth(ac) /\ ~Truth(ac) /\ C.on_false # Nil
        /\ Schedule(<<Run(C.on_false)>>)
     \/ /\ HasTruth(ac) => ~Truth(ac) /\ C.on_false = Nil
        /\ Fail

(* A producer leaves free node n in the accumulator for the store konts.   *)
Produce(n) ==
  /\ ac' = Cap(FreeId(builder)) /\ builder' = make_free(builder, n)
  /\ Continue(C.next)
  /\ UNCHANGED <<status, window, le, store>>
Span(type, start, end) == FreshNode("", type, start, end, -1)

(* lower_computed: what is not a scalar is carried as 0.                   *)
lower_computed(v) == IF v.t \in {"null", "cap"} THEN IntV(0) ELSE v
BindComputeStore ==
  /\ Control("apply", "BindCompute")
  /\ \/ /\ ac.t # "null" /\ UNCHANGED pos
        /\ Produce([Span(Plain("Computed"), pos, pos) EXCEPT
                      !.val = lower_computed(ac)])
     \/ ac.t = "null" /\ Fail

SetEndianApply ==
  /\ Control("apply", "SetEndian")
  /\ \/ /\ HasTruth(ac)
        /\ le' = Truth(ac) /\ Continue(C.next)
        /\ UNCHANGED <<status, pos, window, store, ac, builder>>
     \/ ~HasTruth(ac) /\ Fail

(* A run of len bytes: not negative, and inside the window.                *)
FitsIfPositive(len) == len >= 0          \* mutant: no bound check
Fits(len) == len >= 0 /\ pos + len <= effective_end
MatchBytesApply ==
  /\ Control("apply", "MatchBytes")
  /\ LET fits == ac.t = "int" /\ Fits(ac.v)
     IN \/ /\ fits /\ pos' = pos + ac.v
           /\ Produce(Span(Plain(IF C.is_string THEN "String" ELSE "Bytes"),
                           pos, pos + ac.v))
        \/ ~fits /\ Fail

(* The first case that matches; the default's ordinal follows the last.    *)
SwitchSelect ==
  /\ Control("apply", "SwitchDispatch")
  /\ LET hits == {i \in DOMAIN C.cases : C.cases[i].val = ac}
         Take(tag, target) ==
           /\ builder' = set_pending_variant_tag(builder, tag)
           /\ Continue(target)
           /\ UNCHANGED <<status, pos, window, le, store, ac>>
         ordinals == {-1} \cup {C.cases[i].ordinal : i \in DOMAIN C.cases}
     IN \/ \E i \in hits : /\ \A j \in hits : i <= j
                           /\ Take(C.cases[i].ordinal, C.cases[i].target)
        \/ /\ hits = {} /\ ac.t # "null" /\ C.default # Nil
           /\ \E last \in ordinals : /\ \A o \in ordinals : o <= last
                                     /\ Take(last + 1, C.default)
        \/ /\ ac.t # "null" => hits = {} /\ C.default = Nil
           /\ Fail

-----------------------------------------------------------------------------
(* Arrays.                                                                 *)

(* A counted array evaluates its bound first, noting the field it names.   *)
BeginCounted ==
  /\ Control("run", "BeginArray") /\ C.mode \in {"FixedCount", "Count"}
  /\ builder' = IF C.path = <<>> THEN builder
                ELSE set_pending_count_field(builder, C.path)
  /\ K' = Rest \o <<Apply(Top.node), Run(C.expr)>>
  /\ UNCHANGED <<status, pos, window, le, store, ac>>

(* Open the array's scope and its frames; the mark is the new scope's.     *)
OpenArray(limit, resync) ==
  LET b == begin_array(builder, C.name, pos)
      loop == Append(frames, LoopFrame(limit))
  IN  /\ builder' = b
      /\ frames' = IF resync = Nil THEN loop
                   ELSE Append(loop, Savepoint(resync, b))
      /\ UNCHANGED <<status, pos, window, le, env, ac>>
BeginUncounted ==
  /\ Control("run", "BeginArray") /\ C.mode \in {"EOF", "Until"}
  /\ OpenArray(-1, C.resync)
  /\ \/ C.mode = "EOF" /\ pos >= effective_end /\ Continue(C.end)
     \/ C.mode = "EOF" /\ pos < effective_end /\ Continue(C.next)
     \/ C.mode = "Until" /\ K' = Rest \o <<Apply(Top.node), Run(C.expr)>>
BeginArrayWithLimit ==
  /\ Control("apply", "BeginArray") /\ C.mode \in {"FixedCount", "Count"}
  /\ \/ /\ ac.t = "int"
        /\ OpenArray(ac.v, IF ac.v > 0 THEN C.resync ELSE Nil)
        /\ Continue(IF ac.v <= 0 THEN C.end ELSE C.next)
     \/ ac.t # "int" /\ Fail

(* ArrayNext: refresh the resync Savepoint, count the element, go on.      *)
Refreshed(f, p, d, e, rest, b, en) ==
  [f EXCEPT !.pos = p, !.depth = d, !.le = e, !.ksize = Len(rest),
            !.mark = mark(b), !.env = en]
ArrayNext ==
  /\ Control("run", "ArrayNext")
  /\ LET saved == ~C.resync \/ TopIs("Savepoint")
         fs == IF C.resync /\ saved
               THEN [frames EXCEPT ![Len(frames)] =
                       Refreshed(FrameTop, pos, depth, le, Rest, builder, env)]
               ELSE frames
         l == IF C.resync THEN Len(frames) - 1 ELSE Len(frames)
         looping == saved /\ l \in DOMAIN fs /\ fs[l].type = "Loop"
         more == IF C.mode = "FixedCount" THEN fs[l].counter + 1 < fs[l].limit
                                          ELSE pos < effective_end
     IN \/ /\ looping
           /\ frames' = [fs EXCEPT ![l] =
                           [fs[l] EXCEPT !.counter = fs[l].counter + 1]]
           /\ \/ /\ C.mode \in {"FixedCount", "EOF"}
                 /\ Continue(IF more THEN C.body ELSE C.end)
              \/ /\ C.mode \in {"Count", "Until"}
                 /\ K' = Rest \o <<Apply(Top.node), Run(C.expr)>>
           /\ UNCHANGED <<status, pos, window, le, env, ac, builder>>
        \/ /\ ~looping /\ Unwind(pos, fs, Rest)
           /\ UNCHANGED <<job, pos, window, le, env, ac, builder>>
ArrayCountCheck ==
  /\ Control("apply", "ArrayNext") /\ C.mode = "Count"
  /\ \/ /\ ac.t = "int" /\ TopIs("Loop")
        /\ Schedule(<<Run(IF FrameTop.counter >= ac.v THEN C.end
                                                      ELSE C.body)>>)
     \/ ~(ac.t = "int" /\ TopIs("Loop")) /\ Fail
ArrayUntilCheck ==
  /\ \/ Control("apply", "BeginArray") /\ C.mode = "Until"
     \/ Control("apply", "ArrayNext") /\ C.mode = "Until"
  /\ LET again == IF C.kind = "BeginArray" THEN C.next ELSE C.body
     IN \/ HasTruth(ac) /\ Schedule(<<Run(IF Truth(ac) THEN C.end ELSE again)>>)
        \/ ~HasTruth(ac) /\ Fail

EndArray ==
  /\ Control("run", "EndArray")
  /\ LET fs == IF C.resync /\ TopIs("Savepoint") THEN PopFrame ELSE frames
         l == Len(fs)
     IN \/ /\ fs # <<>> /\ fs[l].type = "Loop"
           /\ builder' = close(builder, pos)
           /\ frames' = SubSeq(fs, 1, l - 1)
           /\ env' = fs[l].env
           /\ Continue(C.next)
           /\ UNCHANGED <<status, pos, window, le, ac>>
        \/ /\ fs = <<>> \/ fs[l].type # "Loop"
           /\ Unwind(pos, fs, Rest)
           /\ UNCHANGED <<job, pos, window, le, env, ac, builder>>

-----------------------------------------------------------------------------
(* Failure handlers.  Both restore the innermost Savepoint, whichever one  *)
(* that is.  kont_stack.resize() pads with null konts should the stack be  *)
(* shorter than it was.                                                    *)

Resized(k, n) == IF n <= Len(k) THEN SubSeq(k, 1, n)
                 ELSE k \o [i \in 1..(n - Len(k)) |-> Run(Nil)]
Restored(f) ==
  /\ depth' = f.depth /\ env' = f.env /\ le' = f.le
  /\ builder' = restore(builder, f.mark)
  /\ UNCHANGED <<job, slots, ac>>

OnFailSameArm ==                        \* mutant: arms no further handler
  /\ Control("run", "OnFail")
  /\ \/ \E i \in Innermost1(Savepoints(frames)) :
          LET f == frames[i]
              outer == SubSeq(frames, 1, i - 1)
          IN /\ Restored(f) /\ pos' = f.pos
             /\ \/ C.target = Nil /\ Unwind(f.pos, outer, Resized(Rest, f.ksize))
                \/ /\ C.target # Nil
                   /\ frames' = IF C.pop_frame THEN outer ELSE frames
                   /\ K' = Append(Resized(Rest, f.ksize), Run(C.target))
                   /\ UNCHANGED <<best, failed>>
     \/ Savepoints(frames) = {} /\ Fail
OnFail ==
  /\ Control("run", "OnFail")
  /\ \/ \E i \in Innermost1(Savepoints(frames)) :
          LET f == frames[i]
              outer == SubSeq(frames, 1, i - 1)
          IN /\ Restored(f) /\ pos' = f.pos
             /\ \/ C.target = Nil /\ Unwind(f.pos, outer, Resized(Rest, f.ksize))
                \/ /\ C.target # Nil
                   /\ frames' = IF C.pop_frame THEN outer
                                ELSE [frames EXCEPT ![i] =
                                        [f EXCEPT !.on_fail = C.next_on_fail]]
                   /\ K' = Append(Resized(Rest, f.ksize), Run(C.target))
                   /\ UNCHANGED <<best, failed>>
     \/ Savepoints(frames) = {} /\ Fail

(* Resync: restart the element one byte further on, or leave the array at  *)
(* the end of the window; a counted array that is short of elements fails. *)
RetrySame(f) == f.pos                    \* mutant: retries where it was
Retry(f) == f.pos + 1
Resync ==
  /\ Control("run", "Resync")
  /\ \/ \E i \in Innermost1(Savepoints(frames)) :
          LET f == frames[i]
              outer == SubSeq(frames, 1, i - 1)
              atEnd == f.pos >= EndAt(f.depth)
              short == /\ i > 1 /\ frames[i - 1].type = "Loop"
                       /\ frames[i - 1].limit >= 0
                       /\ frames[i - 1].counter < frames[i - 1].limit
              rest == Resized(Rest, f.ksize)
          IN /\ Restored(f)
             /\ \/ /\ atEnd /\ short /\ pos' = f.pos
                   /\ Unwind(f.pos, outer, rest)
                \/ /\ atEnd /\ ~short /\ pos' = f.pos
                   /\ frames' = outer /\ K' = Append(rest, Run(C.end))
                   /\ UNCHANGED <<best, failed>>
                \/ /\ ~atEnd /\ pos' = Retry(f)
                   /\ frames' = [frames EXCEPT ![i] =
                        Refreshed(f, Retry(f), f.depth, f.le, rest,
                                  restore(builder, f.mark), f.env)]
                   /\ K' = Append(rest, Run(C.body))
                   /\ UNCHANGED <<best, failed>>
     \/ Savepoints(frames) = {} /\ Fail

(* AbortRule: jump to the failure handler of the innermost call that has   *)
(* one, dropping the frames above and including that call's.               *)
Callers == {i \in DOMAIN frames : /\ frames[i].type = "Return"
                                  /\ frames[i].on_fail # Nil}
AbortRule ==
  /\ Control("run", "AbortRule")
  /\ \/ \E i \in Innermost1(Callers) :
          /\ frames' = SubSeq(frames, 1, i - 1)
          /\ Continue(frames[i].on_fail)
          /\ UNCHANGED <<status, pos, window, le, env, ac, builder>>
     \/ Callers = {} /\ Fail

-----------------------------------------------------------------------------
(* Rules, scopes, choices.                                                 *)

InvokeRule ==
  /\ Control("run", "InvokeRule")
  /\ frames' = Append(frames,
                      Frame("Return", C.fail_target, C.next, mark(builder)))
  /\ Continue(C.entry)
  /\ UNCHANGED <<status, pos, window, le, env, ac, builder>>

ReturnRule ==
  /\ Control("run", "ReturnRule")
  /\ \/ /\ TopIs("Return")
        /\ frames' = PopFrame /\ env' = FrameTop.env
        /\ Continue(FrameTop.next)
     \/ /\ ~TopIs("Return")
        /\ Continue(C.next)
        /\ UNCHANGED store
  /\ UNCHANGED <<status, pos, window, le, ac, builder>>

Halt == Control("run", "Halt") /\ Schedule(<<>>)

BeginStruct ==
  /\ Control("run", "BeginStruct")
  /\ builder' = begin_struct(builder, C.name, pos) /\ Continue(C.next)
  /\ UNCHANGED <<status, pos, window, le, store, ac>>
BeginVariant ==
  /\ Control("run", "BeginVariant")
  /\ builder' = begin_variant(builder, C.name, pos, C.tag) /\ Continue(C.next)
  /\ UNCHANGED <<status, pos, window, le, store, ac>>
EndStruct ==
  /\ Control("run", "EndStruct")
  /\ builder' = close(builder, pos) /\ Continue(C.next)
  /\ UNCHANGED <<status, pos, window, le, store, ac>>

(* BeginOptional's inner chain is its next.                                *)
BeginChoice ==
  /\ Control("run", "BeginChoice") \/ Control("run", "BeginOptional")
  /\ frames' = Append(frames, Savepoint(C.on_fail, builder))
  /\ Continue(C.next)
  /\ UNCHANGED <<status, pos, window, le, env, ac, builder>>
CommitChoiceKeeps ==                     \* mutant: leaves the Savepoint
  /\ Control("run", "CommitChoice") \/ Control("run", "EndOptional")
  /\ Continue(C.next)
  /\ UNCHANGED <<status, pos, window, le, store, ac, builder>>
CommitChoice ==
  /\ Control("run", "CommitChoice") \/ Control("run", "EndOptional")
  /\ frames' = IF TopIs("Savepoint") THEN PopFrame ELSE frames
  /\ Continue(C.next)
  /\ UNCHANGED <<status, pos, window, le, env, ac, builder>>

-----------------------------------------------------------------------------
(* Windows.                                                                *)

SeekApply ==
  /\ Control("apply", "Seek")
  /\ LET ok == ac.t = "int" /\ 0 <= ac.v /\ ac.v <= Len(input)
     IN \/ /\ ok /\ pos' = ac.v /\ Continue(C.next)
           /\ UNCHANGED <<status, window, le, store, ac, builder>>
        \/ ~ok /\ Fail

(* A relative window over one plain field records what the field measures. *)
PushInterval ==
  /\ Control("run", "PushInterval")
  /\ builder' = IF C.relative /\ Len(C.path) = 1
                THEN scope_determines_rest(builder, C.path) ELSE builder
  /\ K' = Rest \o <<Apply(Top.node), Run(C.expr)>>
  /\ UNCHANGED <<status, pos, window, le, store, ac>>
NestedInBuffer(w) ==                     \* mutant: bounded by the input only
  w.lo <= w.hi /\ w.hi <= Len(input)
Nested(w) ==
  w.lo <= w.hi /\ effective_start <= w.lo /\ w.hi <= effective_end
(* The slots grow by one, or a stale slot is used again.                   *)
SlotsWith(w) == IF depth = Len(slots) THEN Append(slots, w)
                ELSE [slots EXCEPT ![depth + 1] = w]
PushIntervalApply ==
  /\ Control("apply", "PushInterval")
  /\ LET v == IF ac.v < 0 THEN 0 ELSE ac.v
         w == [lo |-> pos, hi |-> IF C.relative THEN pos + v ELSE v]
         ok == ac.t = "int" /\ Nested(w)
     IN \/ /\ ok
           /\ slots' = SlotsWith(w) /\ depth' = depth + 1
           /\ Continue(C.next)
           /\ UNCHANGED <<status, pos, le, store, ac, builder>>
        \/ ~ok /\ Fail
PopInterval ==
  /\ Control("run", "PopInterval")
  /\ LET mismatch == depth > 0 /\ C.checked /\ pos # slots[depth].hi
     IN \/ /\ ~mismatch
           /\ depth' = IF depth > 0 THEN depth - 1 ELSE depth
           /\ Continue(C.next)
           /\ UNCHANGED <<status, pos, slots, le, store, ac, builder>>
        \/ mismatch /\ Fail

-----------------------------------------------------------------------------
(* Reading bytes.                                                          *)

(* decode_uleb128 / decode_sleb128 at 32 bits: the number ends at the      *)
(* first byte below 128, within five bytes and inside the window, and the  *)
(* spare high bits of a fifth byte are zero or a sign extension.           *)
LebLengths(p, end, signed) ==
  {n \in 1..5 :
     /\ p + n <= end
     /\ \A j \in 0..(n - 2) : Byte(p + j) >= 128
     /\ Byte(p + n - 1) < 128
     /\ n = 5 => LET b == Byte(p + 4)
                 IN IF signed THEN b < 8 \/ b >= 120 ELSE b < 16}
LebValue(p, n, signed) ==
  LET D(i) == IF i >= n THEN 0
              ELSE SignedDigit(Byte(p + i) % 128, 128, signed /\ i = n - 1)
  IN  D(0) + 128 * (D(1) + 128 * (D(2) + 128 * (D(3) + 128 * D(4))))

MatchLeb ==
  /\ Control("run", "MatchPrimitive") /\ C.prim.encoding # "Fixed"
  /\ LET signed == C.prim.encoding = "Sleb"
         lens == LebLengths(pos, effective_end, signed)
     IN \/ \E n \in lens :
             /\ pos' = pos + n
             /\ Produce([Span(Plain("Computed"), pos, pos + n) EXCEPT
                           !.enc = C.prim.encoding,
                           !.val = IntV(LebValue(pos, n, signed))])
        \/ lens = {} /\ Fail
MatchPrimitive ==
  /\ Control("run", "MatchPrimitive") /\ C.prim.encoding = "Fixed"
  /\ LET end == pos + C.prim.width
     IN \/ /\ end <= effective_end /\ pos' = end
           /\ Produce([Span(primitive_capture_type(C.prim), pos, end) EXCEPT
                         !.val = read_primitive(pos, C.prim)])
        \/ end > effective_end /\ Fail

(* One entry of a bitfield, read in place from the container at the cursor *)
(* and recorded as a bit range of it; the scope becomes a bitfield run.    *)
ExtractBits ==
  /\ Control("run", "ExtractBits")
  /\ LET end == pos + C.prim.width
         raw == Number(pos, C.prim.width, C.prim.signed, WantLE(C.prim))
         msb_first == ~WantLE(C.prim)
         shift == IF msb_first THEN 8 * C.prim.width - C.offset - C.width
                               ELSE C.offset
         field == (raw \div 2^shift) % 2^C.width
         bits == [entry |-> TRUE, start |-> shift, end |-> shift + C.width,
                  signed |-> C.signed]
         n == [Span(Plain("Computed"), pos, end) EXCEPT
                 !.bits = bits,
                 !.val = IntV(SignedDigit(field, 2^C.width, C.signed))]
     IN \/ /\ end <= effective_end
           /\ ac' = Cap(FreeId(builder))
           /\ builder' = scope_is_bits_run(make_free(builder, n), msb_first)
           /\ Continue(C.next)
           /\ UNCHANGED <<status, pos, window, le, store>>
        \/ end > effective_end /\ Fail
(* The members checked that the container fits: no check here.             *)
AdvancePosBits ==                        \* mutant: counts bits, not bytes
  /\ Control("run", "AdvancePos")
  /\ pos' = pos + 8 * C.by /\ Continue(C.next)
  /\ UNCHANGED <<status, window, le, store, ac, builder>>
AdvancePos ==
  /\ Control("run", "AdvancePos")
  /\ pos' = pos + C.by /\ Continue(C.next)
  /\ UNCHANGED <<status, window, le, store, ac, builder>>

(* An external parser sees the rest of the window, and succeeds when its   *)
(* bytes are there.                                                        *)
ExternalCall ==
  /\ Control("run", "ExternalCall")
  /\ LET ok == C.func \in DOMAIN ExternParse
               /\ ExternParse[C.func] <= effective_end - pos
         end == pos + ExternParse[C.func]
     IN \/ ok /\ pos' = end /\ Produce(Span(Plain("External"), pos, end))
        \/ ~ok /\ Fail

(* The store konts: record the produced node in the tree, or bind its      *)
(* value in the environment.                                               *)
Capture ==
  /\ Control("run", "Capture")
  /\ \/ /\ ac.t = "cap"
        /\ builder' = add_field(builder, C.name, builder.nodes[ac.v])
        /\ Continue(C.next)
        /\ UNCHANGED <<status, pos, window, le, store, ac>>
     \/ ac.t # "cap" /\ Fail
StoreEnv ==
  /\ Control("run", "StoreEnv")
  /\ \/ /\ ac.t = "cap"
        /\ env' = Append(env, [name |-> C.name, val |-> builder.nodes[ac.v].val])
        /\ Continue(C.next)
        /\ UNCHANGED <<status, pos, window, le, frames, ac, builder>>
     \/ ac.t # "cap" /\ Fail

-----------------------------------------------------------------------------
(* execute_from resets everything but env and frame_top, which a fresh     *)
(* machine has empty.                                                      *)
Init ==
  /\ job \in Jobs
  /\ pos = 0 /\ slots = <<>> /\ depth = 0 /\ le = job.le
  /\ env = <<>> /\ frames = <<>> /\ K = <<Run(job.entry)>>
  /\ ac = Null /\ builder = EmptyBuilder /\ best = 0 /\ failed = FALSE

Evaluate ==
  \/ Lit \/ Ref \/ Pos \/ Remaining \/ EOI \/ Start \/ End \/ Buffer
  \/ LoopVar \/ BinOp \/ EvalLeft \/ ApplyBin \/ UnOp \/ ApplyUn \/ Logical
  \/ LogicalCheck \/ Normalize \/ Ternary \/ TernaryDispatch \/ Call
  \/ ArgStore \/ CallApply \/ PathStart \/ FieldAccessApply
  \/ IndexAccessApply \/ CaptureValueApply
Consume ==
  \/ Site \/ EvalConstraintCheck \/ BindComputeStore \/ SetEndianApply
  \/ MatchBytesApply \/ SwitchSelect \/ SeekApply \/ PushInterval
  \/ PushIntervalApply \/ PopInterval \/ MatchLeb \/ MatchPrimitive
  \/ ExtractBits \/ AdvancePos \/ ExternalCall \/ Capture \/ StoreEnv
Structure ==
  \/ BeginCounted \/ BeginUncounted \/ BeginArrayWithLimit \/ ArrayNext
  \/ ArrayCountCheck \/ ArrayUntilCheck \/ EndArray \/ InvokeRule
  \/ ReturnRule \/ Halt \/ BeginStruct \/ BeginVariant \/ EndStruct
  \/ BeginChoice \/ CommitChoice
Recover == OnFail \/ Resync \/ AbortRule

(* The trampoline runs until K drains or the parse has failed.             *)
Halted == failed \/ K = <<>>
Step == Evaluate \/ Consume \/ Structure \/ Recover
Next == Step \/ (Halted /\ UNCHANGED vars)

(* execute_from is one sequential loop: it keeps going.                    *)
Spec == Init /\ [][Next]_vars /\ WF_vars(Step)
=============================================================================
