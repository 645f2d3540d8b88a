------------------------------ MODULE Compile ------------------------------
(***************************************************************************)
(* The grammar compiler of backends/cek/bbq.ddcg: a type expression, the   *)
(* scope chain rho it stands in and the kont Lnext that follows it become  *)
(* a chain of static konts.  g is the graph emitted so far; every operator *)
(* yields [g, h], the longer graph and the head of what it compiled.       *)
(*                                                                         *)
(* Abstract syntax.  An expression is the kont it compiles to, with        *)
(* subtrees in place of links.  A type expression is a record whose t      *)
(* names its constructor in BBQ.asdl; an optional part is a sequence of    *)
(* length 0 or 1.  Alternatives are a Union with variants alt_0, alt_1...  *)
(* The operators are recursive: this module is for TLC only.               *)
(***************************************************************************)
EXTENDS Integers, Sequences, SequencesExt, TLC

Absent == 0    \* nullptr

Result(g, h) == [g |-> g, h |-> h]
Emit(g, c) == Result(Append(g, c), Len(g) + 1)

(* What Op compiles in front of k, once k is compiled.                     *)
Before(k, Op(_)) == IF k.h = Absent THEN k ELSE Op(k)

(* A spine kont, with the bytes it owes: AdvancePos steps over its         *)
(* container unchecked, and the konts that merely pass control on inherit. *)
EmitSpine(g, c) ==
  Emit(g, c @@ [owes |->
    IF c.kind = "AdvancePos" THEN c.by
    ELSE IF c.kind \in {"Capture", "StoreEnv", "EvalConstraint"}
         THEN g[c.next].owes ELSE 0])

-----------------------------------------------------------------------------
(* Expressions: children first, then the kont that links to them.          *)

ChildFields(kind) ==
  CASE kind \in {"Bin", "Logical", "IndexAccess"} -> <<"left", "right">>
    [] kind \in {"Un", "FieldAccess", "CaptureValue"} -> <<"operand">>
    [] kind = "Ternary" -> <<"cond", "then", "else">>
    [] OTHER -> <<>>

RECURSIVE compile_expr(_, _), Children(_, _, _), compile_call_args(_, _)
compile_expr(e, g) ==
  IF e.kind = "Call"
  THEN LET as == compile_call_args(e.args, g)
       IN  Emit(as.g, [e EXCEPT !.args = as.h])
  ELSE LET c == Children(e, ChildFields(e.kind), g) IN Emit(c.g, c.h)
Children(e, fields, g) ==
  IF fields = <<>> THEN Result(g, e)
  ELSE LET k == compile_expr(e[Head(fields)], g)
       IN  Children([e EXCEPT ![Head(fields)] = k.h], Tail(fields), k.g)
compile_call_args(args, g) ==
  IF args = <<>> THEN Result(g, <<>>)
  ELSE LET k == compile_expr(Head(args), g)
           ks == compile_call_args(Tail(args), k.g)
       IN  Result(ks.g, <<k.h>> \o ks.h)

(* count_path_of: the field a bound names, when it is nothing but a        *)
(* reference to one; <<>> for a computed bound.                            *)
RECURSIVE count_path_of(_)
count_path_of(e) ==
  CASE e.kind \in {"Ref", "PathStart"} -> <<e.name>>
    [] e.kind = "FieldAccess" ->
         LET base == count_path_of(e.operand)
         IN  IF base = <<>> THEN <<>> ELSE Append(base, e.name)
    [] e.kind = "CaptureValue" -> count_path_of(e.operand)
    [] OTHER -> <<>>

-----------------------------------------------------------------------------
(* rho, innermost scope first.                                             *)

in_field(name, r) == <<[tag |-> "InField", name |-> name, fail |-> Absent]>> \o r
in_alt(link, r) == <<[tag |-> "InAlt", name |-> "", fail |-> link]>> \o r
in_optional(skip, r) == <<[tag |-> "InOptional", name |-> "", fail |-> skip]>> \o r
in_array_elem(skip, r) ==
  <<[tag |-> "InArrayElem", name |-> "", fail |-> skip]>> \o r

intern_field_or_anon(r) ==
  LET i == SelectInSeq(r, LAMBDA s : s.tag \in {"InField", "InArrayElem"})
  IN  IF i = 0 THEN "" ELSE r[i].name

find_backtrack_target(r) ==
  LET i == SelectInSeq(r, LAMBDA s : \/ s.tag \in {"InAlt", "InOptional"}
                                     \/ s.tag = "InArrayElem" /\ s.fail # Absent)
  IN  IF i = 0 THEN Absent ELSE r[i].fail

-----------------------------------------------------------------------------
(* Where-checks and the destination of a produced value.                   *)

wrap_where(where, r, L, g) ==
  IF where = <<>> THEN Result(g, L)
  ELSE LET e == compile_expr(where[1], g)
           t == find_backtrack_target(r)
           f == IF t # Absent THEN Result(e.g, t)
                ELSE EmitSpine(e.g, [kind |-> "AbortRule"])
       IN  EmitSpine(f.g, [kind |-> "EvalConstraint", expr |-> e.h,
                           on_false |-> f.h, next |-> L])

field_dest(name, L, g) ==
  LET s == EmitSpine(g, [kind |-> "StoreEnv", name |-> name, next |-> L])
  IN  IF name = "_" THEN s
      ELSE EmitSpine(s.g, [kind |-> "Capture", name |-> name, next |-> s.h])

(* An interval [start, end] seeks and bounds; [length] only bounds.        *)
interval_entry(iv, L, g) ==
  LET e == compile_expr(iv.end, g)
      relative == iv.start = <<>>
      push == EmitSpine(e.g, [kind |-> "PushInterval", relative |-> relative,
                              expr |-> e.h, path |-> count_path_of(iv.end),
                              next |-> L])
      s == compile_expr(iv.start[1], push.g)
  IN  IF relative THEN push
      ELSE EmitSpine(s.g, [kind |-> "Seek", expr |-> s.h, next |-> push.h])

pop_interval(checked, L, g) ==
  EmitSpine(g, [kind |-> "PopInterval", checked |-> checked, next |-> L])

(* Members are compiled last to first; offset counts the bits before one.  *)
RECURSIVE compile_bitfield(_, _, _, _, _, _)
compile_bitfield(prim, entries, offset, r, L, g) ==
  IF entries = <<>>
  THEN EmitSpine(g, [kind |-> "AdvancePos", by |-> prim.width, next |-> L])
  ELSE LET m == Head(entries)
           later == compile_bitfield(prim, Tail(entries), offset + m.width, r, L, g)
           check == wrap_where(m.where, r, later.h, later.g)
           dest == field_dest(m.name, check.h, check.g)
       IN  EmitSpine(dest.g, [kind |-> "ExtractBits", prim |-> prim,
                              width |-> m.width, offset |-> offset,
                              signed |-> m.signed, next |-> dest.h])

-----------------------------------------------------------------------------
RECURSIVE compile_type_expr(_, _, _, _), compile_field(_, _, _),
          compile_fields(_, _, _, _), compile_arms(_, _, _, _, _),
          compile_switch_cases(_, _, _, _, _)

(* Struct fields, right to left.  An @rest field opens a window over the   *)
(* fields after it, closed by a checked pop at the end of the struct.      *)
HasRest(fields) == \E i \in DOMAIN fields : fields[i].rest
compile_struct_fields(fields, r, L, g) ==
  LET tail == IF HasRest(fields) THEN pop_interval(TRUE, L, g) ELSE Result(g, L)
  IN  compile_fields(fields, r, tail.h, tail.g)

FieldInterval(f) ==
  IF f.iv # <<>> THEN f.iv
  ELSE IF f.body.t \in {"Primitive", "RuleRef", "Array", "Extern"} THEN f.body.iv
  ELSE IF f.body.t = "Bytes" /\ \E i \in DOMAIN f.body.iv :
                                   f.body.iv[i].start # <<>> THEN f.body.iv
  ELSE <<>>

compile_field(f, r, later) ==
  LET rho == in_field(f.name, r)
      iv == FieldInterval(f)
  IN  IF f.rest
      THEN LET push == interval_entry(
                 [start |-> <<>>, end |-> [kind |-> "Ref", name |-> f.name]],
                 later.h, later.g)
           IN  compile_type_expr(f.body, rho, push.h, push.g)
      ELSE IF iv # <<>>
      THEN LET pop == pop_interval(FALSE, later.h, later.g)
               body == compile_type_expr(f.body, rho, pop.h, pop.g)
           IN  interval_entry(iv[1], body.h, body.g)
      ELSE compile_type_expr(f.body, rho, later.h, later.g)
compile_fields(fields, r, L, g) ==
  IF fields = <<>> THEN Result(g, L)
  ELSE Before(compile_fields(Tail(fields), r, L, g),
              LAMBDA later : compile_field(Head(fields), r, later))

(* A named capture scope around a body that ends in EndStruct.             *)
make_begin_struct(name, body) ==
  EmitSpine(body.g, [kind |-> "BeginStruct", name |-> name, next |-> body.h])
make_end_struct(L, g) == EmitSpine(g, [kind |-> "EndStruct", next |-> L])

make_invoke_rule(rule, target, L, g) ==
  EmitSpine(g, [kind |-> "InvokeRule", rule |-> rule, entry |-> Absent,
                fail_target |-> target, next |-> L])

compile_optional(e, r, L, g) ==
  IF e.where # <<>>
  THEN LET inner == compile_type_expr(e.elem, r, L, g)
           cond == compile_expr(e.where[1], inner.g)
       IN  EmitSpine(cond.g, [kind |-> "EvalConstraint", expr |-> cond.h,
                              on_false |-> L, next |-> inner.h])
  ELSE LET end == EmitSpine(g, [kind |-> "EndOptional", next |-> L])
           skip == Emit(end.g, [kind |-> "OnFail", target |-> L,
                                next_on_fail |-> Absent, pop_frame |-> TRUE])
           inner == compile_type_expr(e.elem, in_optional(skip.h, r), end.h,
                                      skip.g)
       IN  EmitSpine(inner.g, [kind |-> "BeginOptional", on_fail |-> skip.h,
                               next |-> inner.h])

(* One arm of a choice: a tagged scope around the variant's body.          *)
build_variant_arm(u, i, r, L, g) ==
  LET body == u.bodies[i]
      end == make_end_struct(L, g)
      inner == IF body.t = "RuleRef"
               THEN make_invoke_rule(body.name, find_backtrack_target(r),
                                     end.h, end.g)
               ELSE compile_type_expr(body, r, end.h, end.g)
  IN  EmitSpine(inner.g, [kind |-> "BeginVariant", name |-> u.names[i],
                          tag |-> i - 1, next |-> inner.h])

(* Arms i, i-1, ..., 1: each is compiled under the link that leads to the  *)
(* arm after it.  The first one is entered by BeginChoice.                 *)
make_on_fail(target, link, g) ==
  Emit(g, [kind |-> "OnFail", target |-> target, next_on_fail |-> link,
           pop_frame |-> FALSE])
compile_arms(u, i, r, commit, next) ==
  LET link == make_on_fail(next.h, next.link, next.g)
      arm == build_variant_arm(u, i, in_alt(link.h, r), commit, link.g)
  IN  IF i = 1
      THEN EmitSpine(arm.g, [kind |-> "BeginChoice", on_fail |-> link.h,
                             next |-> arm.h])
      ELSE compile_arms(u, i - 1, r, commit,
                        [g |-> arm.g, h |-> arm.h, link |-> link.h])
(* The last arm is compiled under the enclosing rho.                       *)
compile_choice(u, r, L, g) ==
  LET n == Len(u.bodies)
      commit == EmitSpine(g, [kind |-> "CommitChoice", next |-> L])
      exhausted == Emit(commit.g, [kind |-> "OnFail", target |-> Absent,
                                   next_on_fail |-> Absent, pop_frame |-> TRUE])
      last == build_variant_arm(u, n, r, commit.h, exhausted.g)
  IN  IF n = 0 THEN Result(g, L)
      ELSE IF n = 1 THEN build_variant_arm(u, 1, r, L, g)
      ELSE compile_arms(u, n - 1, r, commit.h,
                        [g |-> last.g, h |-> last.h, link |-> exhausted.h])

(* A range is one arm matched by several values.                           *)
compile_switch_cases(cases, n, r, L, g) ==
  IF cases = <<>> THEN Result(g, <<>>)
  ELSE LET c == Head(cases)
           Arm(i, arm) == [val |-> c.vals[i], target |-> arm.h, ordinal |-> n]
       IN  Before(compile_type_expr(c.body, r, L, g),
             LAMBDA arm :
               LET rest == compile_switch_cases(Tail(cases), n + 1, r, L, arm.g)
               IN  Result(rest.g, [i \in DOMAIN c.vals |-> Arm(i, arm)] \o rest.h))

(* ArrayNext and Resync are emitted before the body they loop to, and      *)
(* patched once it is compiled.                                            *)
(* A terminator that is a type selects no mode: the default, EOF, stays.   *)
compile_array(a, r, L, g) ==
  LET mode == IF a.spec = "TypeTerm" THEN "EOF" ELSE a.spec
      bound == IF mode = "EOF" THEN Result(g, Absent)
               ELSE compile_expr(a.expr, g)
      end == EmitSpine(bound.g, [kind |-> "EndArray", resync |-> a.resync,
                                 next |-> L])
      next == EmitSpine(end.g, [kind |-> "ArrayNext", mode |-> mode,
                                expr |-> bound.h, end |-> end.h,
                                body |-> Absent, resync |-> a.resync])
      rs == IF a.resync THEN Emit(next.g, [kind |-> "Resync", body |-> Absent,
                                           end |-> end.h])
            ELSE Result(next.g, Absent)
      rho == in_array_elem(rs.h, r)
      pop == pop_interval(FALSE, next.h, rs.g)
      elem == IF a.elem_iv = <<>>
              THEN compile_type_expr(a.elem, rho, next.h, rs.g)
              ELSE LET b == compile_type_expr(a.elem, rho, pop.h, pop.g)
                   IN  interval_entry(a.elem_iv[1], b.h, b.g)
      loop == IF a.sep = <<>> THEN elem
              ELSE compile_type_expr(a.sep[1], in_field("_", rho), elem.h, elem.g)
      patched == [n \in DOMAIN loop.g |->
                    IF n = next.h \/ n = rs.h
                    THEN [loop.g[n] EXCEPT !.body = loop.h] ELSE loop.g[n]]
  IN  EmitSpine(patched,
        [kind |-> "BeginArray", name |-> intern_field_or_anon(r),
         mode |-> mode, expr |-> bound.h, end |-> end.h, resync |-> rs.h,
         path |-> IF mode \in {"FixedCount", "Count"}
                  THEN count_path_of(a.expr) ELSE <<>>,
         next |-> elem.h])

compile_primitive(p, r, L, g) ==
  LET check == wrap_where(p.where, r, L, g)
      dest == field_dest(intern_field_or_anon(r), check.h, check.g)
      len == IF p.iv # <<>> /\ p.iv[1].start = <<>> THEN p.iv[1].end
             ELSE [kind |-> "Remaining"]
      e == compile_expr(len, dest.g)
  IN  IF p.t = "Bytes"
      THEN EmitSpine(e.g, [kind |-> "MatchBytes", expr |-> e.h,
                           is_string |-> p.is_string, next |-> dest.h])
      ELSE EmitSpine(dest.g, [kind |-> "MatchPrimitive", prim |-> p.prim,
                              next |-> dest.h])

compile_type_expr(e, r, L, g) ==
  CASE e.t \in {"Primitive", "Bytes"} -> compile_primitive(e, r, L, g)
    [] e.t = "Struct" ->
         LET end == make_end_struct(L, g)
             check == wrap_where(e.where, r, end.h, end.g)
         IN  make_begin_struct(intern_field_or_anon(r),
               compile_struct_fields(e.fields, r, check.h, check.g))
    [] e.t = "RuleRef" ->
         LET end == make_end_struct(L, g)
         IN  make_begin_struct(intern_field_or_anon(r),
               make_invoke_rule(e.name, find_backtrack_target(r), end.h, end.g))
    [] e.t = "Bitfield" ->
         LET end == make_end_struct(L, g)
         IN  make_begin_struct(intern_field_or_anon(r),
               compile_bitfield(e.prim, e.entries, 0, r, end.h, end.g))
    [] e.t = "Compute" ->
         LET dest == field_dest(intern_field_or_anon(r), L, g)
             v == compile_expr(e.expr, dest.g)
         IN  EmitSpine(v.g, [kind |-> "BindCompute", expr |-> v.h,
                             next |-> dest.h])
    [] e.t = "Extern" ->
         LET dest == field_dest(intern_field_or_anon(r), L, g)
         IN  EmitSpine(dest.g, [kind |-> "ExternalCall", func |-> e.func,
                                next |-> dest.h])
    [] e.t = "EndianSwitch" ->
         LET v == compile_expr(e.expr, g)
         IN  EmitSpine(v.g, [kind |-> "SetEndian", expr |-> v.h, next |-> L])
    [] e.t = "Optional" -> compile_optional(e, r, L, g)
    [] e.t = "Switch" ->
         LET cs == compile_switch_cases(e.cases, 0, r, L, g)
             disc == compile_expr(e.disc, cs.g)
             dflt == IF e.default = <<>> THEN Result(disc.g, Absent)
                     ELSE compile_type_expr(e.default[1], r, L, disc.g)
         IN  EmitSpine(dflt.g, [kind |-> "SwitchDispatch", expr |-> disc.h,
                                cases |-> cs.h, default |-> dflt.h])
    [] e.t = "Union" -> compile_choice(e, r, L, g)
    [] e.t = "Array" ->
         LET check == wrap_where(e.where, r, L, g)
         IN  compile_array(e, r, check.h, check.g)

-----------------------------------------------------------------------------
(* compile_grammar: each rule's body ends in ReturnRule -> Halt; top-level *)
(* structs and bitfields are inlined.  Rule references are patched once    *)
(* every rule has an entry.                                                *)

compile_rule(body, g) ==
  LET halt == EmitSpine(g, [kind |-> "Halt"])
      exit == EmitSpine(halt.g, [kind |-> "ReturnRule", next |-> halt.h])
      check == wrap_where(body.where, <<>>, exit.h, exit.g)
  IN  CASE body.t = "Struct" ->
             compile_struct_fields(body.fields, <<>>, check.h, check.g)
        [] body.t = "Bitfield" ->
             compile_bitfield(body.prim, body.entries, 0, <<>>, exit.h, exit.g)
        [] OTHER -> compile_type_expr(body, <<>>, exit.h, exit.g)

RECURSIVE compile_rules(_, _, _)
compile_rules(rules, g, entries) ==
  IF rules = <<>> THEN Result(g, entries)
  ELSE Before(compile_rule(Head(rules).body, g),
         LAMBDA k : compile_rules(Tail(rules), k.g,
                                  (Head(rules).name :> k.h) @@ entries))

compile_grammar(rules) ==
  LET k == compile_rules(rules, <<>>, <<>>)
  IN  [prog |-> [n \in DOMAIN k.g |->
                   IF k.g[n].kind = "InvokeRule"
                   THEN [k.g[n] EXCEPT !.entry = k.h[k.g[n].rule]]
                   ELSE k.g[n]],
       entries |-> k.h]
=============================================================================
