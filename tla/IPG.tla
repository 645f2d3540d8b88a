-------------------------------- MODULE IPG --------------------------------
(***************************************************************************)
(* What a grammar means: the interval parsing grammar semantics of         *)
(* docs/Laws.md and docs/Grammar.md, as a function from a rule and a byte  *)
(* string to a document.  A parse either fails or yields a new state, and  *)
(* a failed attempt leaves no trace: a choice, an optional or a resync     *)
(* goes on from the state the attempt began in.  There are no              *)
(* continuations, frames or savepoints here; the CEK machine, running what *)
(* Compile emits, is compared with this.                                   *)
(*                                                                         *)
(* A parse state is [ok, pos, le, env, kids, tag]: cursor, byte order,     *)
(* bindings, the children of the current scope and the ordinal a switch    *)
(* has armed for the next capture.  A context is [in, lo, hi, outer,       *)
(* start, ix]: the bytes, the window, the children of the enclosing        *)
(* scopes, the start of the current one and the loop indices.  The         *)
(* abstract syntax is that of module Compile.                              *)
(***************************************************************************)
EXTENDS Builder, SequencesExt

CONSTANTS
  Rules,         \* rule name -> type expression
  ExternParse    \* external parser name -> bytes it consumes

Fails == [ok |-> FALSE]
Err == [t |-> "err", v |-> 0]
Tree(name, type, start, end, tag, val, kids) ==
  [name |-> name, type |-> type, start |-> start, end |-> end, tag |-> tag,
   val |-> val, kids |-> kids]

-----------------------------------------------------------------------------
(* Expressions.                                                            *)

(* A number from its digits, least significant first.                      *)
FromDigits(ds, base, signed) ==
  LET n == Len(ds)
      top == IF signed /\ 2 * ds[n] >= base THEN ds[n] - base ELSE ds[n]
  IN  FoldRight(LAMBDA d, acc : d + base * acc, [ds EXCEPT ![n] = top], 0)
ReadInt(in, p, width, signed, le) ==
  LET bytes == SubSeq(in, p + 1, p + width)
  IN  FromDigits(IF le THEN bytes ELSE Reverse(bytes), 256, signed)

IsTrue(v) == v.t \in {"bool", "int"} /\ v.v # 0
IsFalse(v) == v.t \in {"bool", "int"} /\ v.v = 0
Magnitude(a) == IF a < 0 THEN -a ELSE a
Div(a, b) == LET q == Magnitude(a) \div Magnitude(b)
             IN  IF (a < 0) = (b < 0) THEN q ELSE -q

BinValue(op, l, r) ==
  IF l.t \in {"err", "null"} \/ r.t \in {"err", "null"} THEN Err
  ELSE IF op \in {"==", "!="}
  THEN BoolV((l.t = r.t /\ l.v = r.v) = (op = "=="))
  ELSE IF l.t # r.t \/ l.t \notin {"int", "str"} THEN Err
  ELSE CASE op = "<" -> BoolV(l.v < r.v)
         [] op = "<=" -> BoolV(l.v <= r.v)
         [] op = ">" -> BoolV(l.v > r.v)
         [] op = ">=" -> BoolV(l.v >= r.v)
         [] l.t = "str" -> Err
         [] op = "+" -> IntV(l.v + r.v)
         [] op = "-" -> IntV(l.v - r.v)
         [] op = "*" -> IntV(l.v * r.v)
         [] r.v = 0 -> Err
         [] op = "/" -> IntV(Div(l.v, r.v))
         [] op = "%" -> IntV(l.v - r.v * Div(l.v, r.v))

(* The most recent of the named things, wherever it is.                    *)
Latest(name, seq) ==
  LET i == SelectLastInSeq(seq, LAMBDA x : x.name = name)
  IN  IF i = 0 THEN {} ELSE {seq[i]}
ValueOr(S, f(_)) == IF S = {} THEN Err ELSE f(CHOOSE x \in S : TRUE)
NodeValue(in, n) ==
  IF n.val # Null THEN n.val
  ELSE IF n.type.k = "Int"
  THEN IntV(ReadInt(in, n.start, n.type.width, n.type.signed, n.type.le))
  ELSE IF n.type.k = "Bool" THEN IntV(IF in[n.start + 1] = 0 THEN 0 ELSE 1)
  ELSE Err

Builtin(f, a, s, c) ==
  IF \E i \in DOMAIN a : a[i].t # "int" THEN Err
  ELSE CASE f = "abs" -> IntV(Magnitude(a[1].v))
         [] f = "min" -> IF a[2].v < a[1].v THEN a[2] ELSE a[1]
         [] f = "max" -> IF a[2].v > a[1].v THEN a[2] ELSE a[1]
         [] f = "clamp" -> IF a[1].v < a[2].v THEN a[2]
                           ELSE IF a[1].v > a[3].v THEN a[3] ELSE a[1]
         [] f = "peek" -> IF s.pos < c.hi THEN IntV(c.in[s.pos + 1]) ELSE Err
         [] OTHER -> Err

RECURSIVE Eval(_, _, _)
Eval(e, s, c) ==
  LET E(x) == Eval(x, s, c)
  IN CASE e.kind = "Lit" -> e.val
       [] e.kind = "Ref" -> ValueOr(Latest(e.name, s.env), LAMBDA b : b.val)
       [] e.kind = "Pos" -> IntV(s.pos)
       [] e.kind = "Remaining" -> IntV(c.hi - s.pos)
       [] e.kind = "EOI" -> IntV(Len(c.in))
       [] e.kind = "Start" -> IntV(c.start)
       [] e.kind = "End" -> IntV(c.hi)
       [] e.kind = "Buffer" ->
            Cap(Tree("", Plain("Bytes"), c.start, s.pos, -1, Null, <<>>))
       [] e.kind = "LoopVar" ->
            IF c.ix = <<>> THEN Err ELSE IntV(c.ix[Len(c.ix)])
       [] e.kind = "Bin" -> BinValue(e.op, E(e.left), E(e.right))
       [] e.kind = "Un" /\ e.op = "-" ->
            LET v == E(e.operand) IN IF v.t = "int" THEN IntV(-v.v) ELSE Err
       [] e.kind = "Un" /\ e.op = "!" ->
            LET v == E(e.operand)
            IN  IF IsTrue(v) \/ IsFalse(v) THEN BoolV(IsFalse(v)) ELSE Err
       [] e.kind = "Logical" ->
            LET l == E(e.left)
                r == E(e.right)
            IN  IF ~(IsTrue(l) \/ IsFalse(l)) THEN Err
                ELSE IF IsTrue(l) = (e.op = "||") THEN BoolV(IsTrue(l))
                ELSE IF IsTrue(r) \/ IsFalse(r) THEN BoolV(IsTrue(r)) ELSE Err
       [] e.kind = "Ternary" ->
            LET b == E(e.cond)
            IN  IF IsTrue(b) THEN E(e.then)
                ELSE IF IsFalse(b) THEN E(e.else) ELSE Err
       [] e.kind = "Call" ->
            Builtin(e.func, [i \in DOMAIN e.args |-> E(e.args[i])], s, c)
       [] e.kind = "PathStart" ->
            ValueOr(Latest(e.name, FlattenSeq(Append(c.outer, s.kids))), Cap)
       [] e.kind = "FieldAccess" ->
            LET b == E(e.operand)
                i == SelectInSeq(b.v.kids, LAMBDA k : k.name = e.name)
            IN  IF b.t # "cap" \/ i = 0 THEN Err ELSE Cap(b.v.kids[i])
       [] e.kind = "IndexAccess" ->
            LET b == E(e.left)
                i == E(e.right)
            IN  IF b.t # "cap" \/ i.t # "int" THEN Err
                ELSE IF (i.v + 1) \notin DOMAIN b.v.kids THEN Err
                ELSE Cap(b.v.kids[i.v + 1])
       [] e.kind = "CaptureValue" ->
            LET b == E(e.operand)
            IN  IF b.t = "cap" THEN NodeValue(c.in, b.v) ELSE Err

-----------------------------------------------------------------------------
(* Scopes, leaves, checks, windows.                                        *)

Enter(s) == [s EXCEPT !.kids = <<>>, !.tag = -1]
Inside(s, c) == [c EXCEPT !.outer = Append(@, s.kids), !.start = s.pos]
Leave(s, r, name, type, tag) ==
  IF ~r.ok THEN Fails
  ELSE [r EXCEPT !.kids = Append(s.kids, Tree(name, Plain(type), s.pos, r.pos,
                                              tag, Null, r.kids)),
                 !.tag = -1]

(* A leaf is bound in the environment and, unless it is _, recorded.       *)
Place(name, type, end, v, s) ==
  [s EXCEPT !.env = Append(@, [name |-> name, val |-> v]),
            !.kids = IF name = "_" THEN @
                     ELSE Append(@, Tree(name, type, s.pos, end, s.tag,
                            IF type.k = "Computed" THEN v ELSE Null, <<>>)),
            !.tag = IF name = "_" THEN @ ELSE -1,
            !.pos = end]

Check(where, r, c) ==
  IF r.ok /\ where # <<>> THEN IF IsTrue(Eval(where[1], r, c)) THEN r ELSE Fails
  ELSE r

(* A window may only narrow the one around it, and may start anywhere in   *)
(* it.  Sought is the state at its start, Narrowed the context inside it.  *)
Sought(iv, s, c) ==
  IF iv.start = <<>> THEN s
  ELSE LET v == Eval(iv.start[1], s, c)
       IN  IF v.t = "int" /\ v.v \in 0..Len(c.in) THEN [s EXCEPT !.pos = v.v]
           ELSE Fails
Narrowed(iv, s, c) ==
  LET v == Eval(iv.end, s, c)
      len == IF v.v < 0 THEN 0 ELSE v.v
      hi == IF iv.start = <<>> THEN s.pos + len ELSE len
  IN  IF v.t = "int" /\ c.lo <= s.pos /\ s.pos <= hi /\ hi <= c.hi
      THEN {[c EXCEPT !.lo = s.pos, !.hi = hi]} ELSE {}

LebLength(in, p, hi) ==
  LET S == {n \in 1..5 : p + n <= hi /\ in[p + n] < 128}
  IN  IF S = {} THEN 0 ELSE CHOOSE n \in S : \A m \in S : n <= m
LebFits(b, signed) == IF signed THEN b \notin 8..119 ELSE b < 16

-----------------------------------------------------------------------------
RECURSIVE Parse(_, _, _, _), Fields(_, _, _), Members(_, _, _, _, _),
          Arms(_, _, _, _, _), Elements(_, _, _, _, _)

Windowed(iv, e, name, s, c) ==
  IF iv = <<>> THEN Parse(e, name, s, c)
  ELSE LET s1 == Sought(iv[1], s, c)
           W == IF s1.ok THEN Narrowed(iv[1], s1, c) ELSE {}
       IN  IF W = {} THEN Fails
           ELSE Parse(e, name, s1, CHOOSE w \in W : TRUE)

FieldWindow(f) ==
  IF f.iv # <<>> THEN f.iv
  ELSE IF "iv" \notin DOMAIN f.body THEN <<>>
  ELSE IF f.body.t = "Bytes" /\ (f.body.iv = <<>> \/ f.body.iv[1].start = <<>>)
  THEN <<>> ELSE f.body.iv

(* The fields after an @rest field fill exactly the bytes it announces.    *)
Fields(fs, s, c) ==
  IF fs = <<>> \/ ~s.ok THEN s
  ELSE LET f == Head(fs)
           r == Windowed(IF f.rest THEN <<>> ELSE FieldWindow(f), f.body,
                         f.name, s, c)
           W == Narrowed([start |-> <<>>, end |-> [kind |-> "Ref",
                                                   name |-> f.name]], r, c)
       IN  IF ~r.ok THEN Fails
           ELSE IF ~f.rest THEN Fields(Tail(fs), r, c)
           ELSE IF W = {} THEN Fails
           ELSE LET w == CHOOSE x \in W : TRUE
                    z == Fields(Tail(fs), r, w)
                IN  IF z.ok /\ z.pos = w.hi THEN z ELSE Fails

(* Bitfield members share the container; the cursor moves past it once.    *)
Members(b, i, offset, s, c) ==
  IF ~s.ok THEN Fails
  ELSE IF i > Len(b.entries)
  THEN [s EXCEPT !.pos = @ + b.prim.width]
  ELSE LET m == b.entries[i]
           end == s.pos + b.prim.width
           le == IF b.prim.endian = "Native" THEN s.le
                 ELSE b.prim.endian = "Little"
           raw == ReadInt(c.in, s.pos, b.prim.width, FALSE, le)
           shift == IF le THEN offset ELSE 8 * b.prim.width - offset - m.width
           bits == (raw \div 2^shift) % 2^m.width
           v == IF m.signed /\ bits >= 2^(m.width - 1) THEN bits - 2^m.width
                ELSE bits
           r == Place(m.name, Plain("Computed"), end, IntV(v), s)
       IN  IF end > c.hi THEN Fails
           ELSE Members(b, i + 1, offset + m.width,
                        Check(m.where, [r EXCEPT !.pos = s.pos], c), c)

(* A rule's own bindings do not reach its caller.                          *)
RuleBody(name, s, c) ==
  LET b == Rules[name]
      r == IF b.t = "Struct" THEN Check(b.where, Fields(b.fields, s, c), c)
           ELSE IF b.t = "Bitfield" THEN Members(b, 1, 0, s, c)
           ELSE Parse(b, "", s, c)
  IN  IF r.ok THEN [r EXCEPT !.env = s.env] ELSE Fails

(* Biased choice: the first arm that parses.                               *)
Arms(u, i, name, s, c) ==
  IF i > Len(u.bodies) THEN Fails
  ELSE LET inner == [s EXCEPT !.kids = <<>>]
           r == IF u.bodies[i].t = "RuleRef"
                THEN RuleBody(u.bodies[i].name, inner, Inside(s, c))
                ELSE Parse(u.bodies[i], name, inner, Inside(s, c))
       IN  IF r.ok THEN Leave(s, r, u.names[i], "Struct", i - 1)
           ELSE Arms(u, i + 1, name, s, c)

(* Elements from the i-th on.  With resync a failed element is retried one *)
(* byte further; at the end of the window only a counted array fails.      *)
Counted(a) == a.spec \in {"FixedCount", "Count"}
Elements(a, i, limit, s, c) ==
  LET ci == [c EXCEPT !.ix = Append(@, i)]
      test == Eval(a.expr, s, ci)
      stop == CASE Counted(a) -> i >= limit
                [] a.spec = "EOF" -> s.pos >= c.hi
                [] a.spec = "TypeTerm" -> Parse(a.term, "", s, c).ok
                [] a.spec = "Until" -> IsTrue(test)
      sep == IF i > 0 /\ a.sep # <<>> THEN Parse(a.sep[1], "_", s, ci) ELSE s
      r == IF ~sep.ok THEN Fails ELSE Windowed(a.elem_iv, a.elem, "", sep, ci)
  IN  IF stop THEN s
      ELSE IF a.spec = "Until" /\ ~IsFalse(test) THEN Fails
      ELSE IF r.ok THEN Elements(a, i + 1, limit, r, c)
      ELSE IF ~a.resync THEN Fails
      ELSE IF s.pos < c.hi THEN Elements(a, i, limit, [s EXCEPT !.pos = @ + 1], c)
      ELSE IF Counted(a) THEN Fails ELSE s

ParseArray(a, name, s, c) ==
  LET limit == IF Counted(a) THEN Eval(a.expr, s, c) ELSE IntV(0)
      r == Elements(a, 0, limit.v, Enter(s), Inside(s, c))
  IN  IF limit.t # "int" \/ ~r.ok THEN Fails
      ELSE [Leave(s, r, name, "Array", s.tag) EXCEPT !.env = s.env]

ParseSwitch(w, name, s, c) ==
  LET d == Eval(w.disc, s, c)
      hits == {i \in DOMAIN w.cases :
                 \E j \in DOMAIN w.cases[i].vals :
                   /\ w.cases[i].vals[j].t = d.t
                   /\ w.cases[i].vals[j].v = d.v}
      i == CHOOSE i \in hits : \A j \in hits : i <= j
      arm == IF hits # {} THEN <<i - 1, w.cases[i].body>>
             ELSE <<Len(w.cases), w.default[1]>>
      r == Parse(arm[2], name, [s EXCEPT !.tag = arm[1]], c)
  IN  IF d.t \in {"err", "null"} \/ (hits = {} /\ w.default = <<>>) THEN Fails
      ELSE IF r.ok THEN [r EXCEPT !.tag = -1] ELSE Fails

ParseLeaf(e, name, s, c) ==
  CASE e.t = "Primitive" /\ e.prim.encoding # "Fixed" ->
         LET n == LebLength(c.in, s.pos, c.hi)
             signed == e.prim.encoding = "Sleb"
             ds == [i \in 1..n |-> c.in[s.pos + i] % 128]
         IN  IF n = 0 \/ (n = 5 /\ ~LebFits(ds[5], signed)) THEN Fails
             ELSE Place(name, Plain("Computed"), s.pos + n,
                        IntV(FromDigits(ds, 128, signed)), s)
    [] e.t = "Primitive" /\ e.prim.encoding = "Fixed" ->
         LET end == s.pos + e.prim.width
             le == IF e.prim.endian = "Native" THEN s.le
                   ELSE e.prim.endian = "Little"
         IN  IF end > c.hi THEN Fails
             ELSE IF e.prim.kind = "Bool"
             THEN Place(name, Plain("Bool"), end, BoolV(c.in[end] # 0), s)
             ELSE Place(name, [k |-> "Int", width |-> e.prim.width,
                               signed |-> e.prim.signed,
                               le |-> e.prim.width > 1 /\ le], end,
                        IntV(ReadInt(c.in, s.pos, e.prim.width, e.prim.signed,
                                     le)), s)
    [] e.t = "Bytes" ->
         LET len == IF e.iv # <<>> /\ e.iv[1].start = <<>>
                    THEN Eval(e.iv[1].end, s, c) ELSE IntV(c.hi - s.pos)
         IN  IF len.t # "int" \/ len.v < 0 \/ s.pos + len.v > c.hi THEN Fails
             ELSE Place(name, Plain(IF e.is_string THEN "String" ELSE "Bytes"),
                        s.pos + len.v, Null, s)

Parse(e, name, s, c) ==
  CASE e.t \in {"Primitive", "Bytes"} ->
         Check(e.where, ParseLeaf(e, name, s, c), c)
    [] e.t = "Struct" ->
         Leave(s, Check(e.where, Fields(e.fields, Enter(s), Inside(s, c)),
                        Inside(s, c)), name, "Struct", s.tag)
    [] e.t = "RuleRef" ->
         Leave(s, RuleBody(e.name, Enter(s), Inside(s, c)), name, "Struct", s.tag)
    [] e.t = "Bitfield" ->
         Leave(s, Members(e, 1, 0, Enter(s), Inside(s, c)), name, "Struct", s.tag)
    [] e.t = "Compute" ->
         LET v == Eval(e.expr, s, c)
         IN  IF v.t \in {"err", "null"} THEN Fails
             ELSE Place(name, Plain("Computed"), s.pos,
                        IF v.t = "cap" THEN IntV(0) ELSE v, s)
    [] e.t = "Extern" ->
         IF e.func \notin DOMAIN ExternParse THEN Fails
         ELSE IF s.pos + ExternParse[e.func] > c.hi THEN Fails
         ELSE Place(name, Plain("External"), s.pos + ExternParse[e.func], Null, s)
    [] e.t = "EndianSwitch" ->
         LET v == Eval(e.expr, s, c)
         IN  IF IsTrue(v) \/ IsFalse(v) THEN [s EXCEPT !.le = IsTrue(v)] ELSE Fails
    [] e.t = "Optional" ->
         IF e.where # <<>>
         THEN LET v == Eval(e.where[1], s, c)
              IN  IF IsTrue(v) THEN Parse(e.elem, name, s, c)
                  ELSE IF IsFalse(v) THEN s ELSE Fails
         ELSE LET r == Parse(e.elem, name, s, c) IN IF r.ok THEN r ELSE s
    [] e.t = "Switch" -> ParseSwitch(e, name, s, c)
    [] e.t = "Union" -> Arms(e, 1, name, s, c)
    [] e.t = "Array" -> Check(e.where, ParseArray(e, name, s, c), c)

(* The document a rule yields on an input: the children of its root.       *)
Document(rule, in, le) ==
  RuleBody(rule,
    [ok |-> TRUE, pos |-> 0, le |-> le, env |-> <<>>, kids |-> <<>>, tag |-> -1],
    [in |-> in, lo |-> 0, hi |-> Len(in), outer |-> <<>>, start |-> 0,
     ix |-> <<>>])
=============================================================================
