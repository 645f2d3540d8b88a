------------------------------ MODULE Grammars ------------------------------
(***************************************************************************)
(* The grammars the machine is checked on, in the abstract syntax of       *)
(* module Compile; each is a sequence of <<rule name, body>>.              *)
(***************************************************************************)
EXTENDS Builder, TLC

-----------------------------------------------------------------------------
(* Notation for grammars.                                                  *)

Num(i) == [kind |-> "Lit", val |-> IntV(i)]
Text(i) == [kind |-> "Lit", val |-> [t |-> "str", v |-> i]]
True == [kind |-> "Lit", val |-> BoolV(TRUE)]
False == [kind |-> "Lit", val |-> BoolV(FALSE)]
Var(x) == [kind |-> "Ref", name |-> x]
Now(kind) == [kind |-> kind]
Bin(l, op, r) == [kind |-> "Bin", op |-> op, left |-> l, right |-> r]
Both(l, op, r) == [kind |-> "Logical", op |-> op, left |-> l, right |-> r]
Un(op, e) == [kind |-> "Un", op |-> op, operand |-> e]
Cond(c, a, b) == [kind |-> "Ternary", cond |-> c, then |-> a, else |-> b]
Fun(f, as) == [kind |-> "Call", func |-> f, args |-> as]
Root(x) == [kind |-> "PathStart", name |-> x]
Dot(e, x) == [kind |-> "FieldAccess", name |-> x, operand |-> e]
At(e, i) == [kind |-> "IndexAccess", left |-> e, right |-> i]
Val(e) == [kind |-> "CaptureValue", operand |-> e]
Is(x, i) == Bin(Var(x), "==", Num(i))

IntPrim(w, signed, endian) ==
  [kind |-> "Integer", width |-> w, signed |-> signed, endian |-> endian,
   encoding |-> "Fixed"]
LebPrim(enc) ==
  [kind |-> "Integer", width |-> 4, signed |-> enc = "Sleb",
   endian |-> "Native", encoding |-> enc]
BoolPrim == [kind |-> "Bool", width |-> 1, signed |-> FALSE,
             endian |-> "Native", encoding |-> "Fixed"]

PrimWhere(p, where) ==
  [t |-> "Primitive", prim |-> p, where |-> where, iv |-> <<>>]
Prim(p) == PrimWhere(p, <<>>)
U8 == Prim(IntPrim(1, FALSE, "Native"))
U16 == Prim(IntPrim(2, FALSE, "Native"))
U8Is(x, i) == PrimWhere(IntPrim(1, FALSE, "Native"), <<Is(x, i)>>)
BytesOf(iv) == [t |-> "Bytes", is_string |-> FALSE, where |-> <<>>, iv |-> iv]
Len1(e) == <<[start |-> <<>>, end |-> e]>>
FromTo(a, b) == <<[start |-> <<a>>, end |-> b]>>

F(name, body) == [name |-> name, body |-> body, rest |-> FALSE, iv |-> <<>>]
FRest(name, body) == [name |-> name, body |-> body, rest |-> TRUE, iv |-> <<>>]
StructWhere(fs, where) == [t |-> "Struct", fields |-> fs, where |-> where]
Struct(fs) == StructWhere(fs, <<>>)
Rule(r) == [t |-> "RuleRef", name |-> r, iv |-> <<>>]
In(body, iv) == [body EXCEPT !.iv = iv]
Compute(e) == [t |-> "Compute", expr |-> e]
Endian(e) == [t |-> "EndianSwitch", expr |-> e]
Extern(f) == [t |-> "Extern", func |-> f, iv |-> <<>>]
Opt(e) == [t |-> "Optional", elem |-> e, where |-> <<>>]
OptIf(e, where) == [t |-> "Optional", elem |-> e, where |-> <<where>>]
Case(vs, body) == [vals |-> [i \in DOMAIN vs |-> IntV(vs[i])], body |-> body]
Switch(disc, cases, default) ==
  [t |-> "Switch", disc |-> disc, cases |-> cases, default |-> default]
AltNames == <<"alt_0", "alt_1", "alt_2">>
Alt(bodies) == [t |-> "Union", bodies |-> bodies,
                names |-> [i \in DOMAIN bodies |-> AltNames[i]]]
Member(name, width, signed, where) ==
  [name |-> name, width |-> width, signed |-> signed, where |-> where]
Bitfield(prim, ms) == [t |-> "Bitfield", prim |-> prim, entries |-> ms]

ArrayOf(elem, spec, expr) ==
  [t |-> "Array", elem |-> elem, spec |-> spec, expr |-> expr, term |-> <<>>,
   sep |-> <<>>, where |-> <<>>, elem_iv |-> <<>>, resync |-> FALSE,
   iv |-> <<>>]
Many(elem) == ArrayOf(elem, "EOF", Num(0))
Times(elem, n) == ArrayOf(elem, "FixedCount", n)
Resyncing(a) == [a EXCEPT !.resync = TRUE]

-----------------------------------------------------------------------------
One == Struct(<<F("v", U8Is("v", 1))>>)
Record == <<"Record", Struct(<<F("v", U8Is("v", 1)), F("w", U8)>>)>>

(* The grammars, by the part of the machine they exercise.                 *)

(* A choice of expressions, most of which fail to evaluate.                *)
OddRule(es) == Struct(<<F("a", U8),
  F("o", Opt(Struct(<<F("v", U8Is("v", 99))>>))),
  F("t", OptIf(U8, Is("a", 99))), F("xs", Times(U8, Num(0))),
  F("h", Struct(<<F("g", Struct(<<>>)), F("w", Opt(U16))>>)),
  F("s", [BytesOf(Len1(Num(0))) EXCEPT !.is_string = TRUE]),
  F("b", Switch(Var("a"),
           [i \in DOMAIN es |-> Case(<<i - 1>>, Compute(es[i]))], <<>>))>>)

Scalars == <<
  <<"Prims", Struct(<<F("a", PrimWhere(IntPrim(1, TRUE, "Native"),
                                       <<Bin(Var("a"), "<", Num(100))>>)),
                      F("b", U16), F("c", Prim(IntPrim(2, TRUE, "Big"))),
                      F("d", Prim(BoolPrim)), F("_", U8)>>)>>,
  <<"Lebs", Struct(<<F("u", Prim(LebPrim("Uleb"))),
                     F("s", PrimWhere(LebPrim("Sleb"),
                                      <<Bin(Var("s"), "<=", Var("u"))>>))>>)>>,
  <<"Bits", Struct(<<F("f", Bitfield(IntPrim(2, FALSE, "Native"),
                       <<Member("hi", 3, FALSE, <<>>),
                         Member("_", 4, FALSE, <<>>),
                         Member("lo", 9, TRUE,
                                <<Bin(Var("lo"), ">=", Var("hi"))>>)>>))>>)>>,
  <<"BitsTop", Bitfield(IntPrim(1, FALSE, "Native"),
                        <<Member("p", 2, FALSE, <<>>),
                          Member("q", 6, TRUE, <<>>)>>)>>,
  <<"Order", Struct(<<F("e", U8), F("", Endian(Cond(Is("e", 1), True, False))),
                      F("v", U16),
                      F("x", Alt(<<Struct(<<F("", Endian(True)), F("w", U16)>>),
                                   Struct(<<F("u", U8)>>)>>))>>)>>,
  <<"Arith", Struct(<<F("a", PrimWhere(IntPrim(1, TRUE, "Native"), <<>>)),
     F("q", Compute(Bin(Bin(Num(7), "/", Var("a")), "+",
                        Bin(Un("-", Num(7)), "%", Var("a"))))),
     F("m", Compute(Bin(Fun("min", <<Var("a"), Num(2)>>), "*",
                        Fun("max", <<Un("-", Var("a")), Num(1)>>)))),
     F("c", Compute(Fun("clamp", <<Var("a"), Num(0), Num(2)>>))),
     F("n", Compute(Cond(Both(Bin(Var("a"), ">", Num(0)), "&&",
                              Bin(Fun("peek", <<>>), "!=", Num(1))),
                         Bin(Now("Remaining"), "-", Now("Pos")),
                         Now("EOI")))),
     F("o", Compute(Both(Un("!", Is("a", 1)), "||",
                         Bin(Text(1), "<", Text(2)))))>>)>>,
  <<"Odd", OddRule(<<Now("Buffer"), Bin(Now("Start"), "+", Now("End")),
     Now("LoopVar"), Fun("foo", <<Num(1)>>), Fun("peek", <<>>),
     Val(At(Root("xs"), Num(3)))>>)>>,
  <<"Odder", OddRule(<<Bin(Var("s"), "==", Text(1)), Val(Dot(Root("o"), "v")),
     Var("t"), Val(Dot(Root("h"), "w")), Val(Dot(Root("h"), "g")),
     Bin(Text(1), "==", Text(2)), Var("s")>>)>>,
  <<"Paths", Struct(<<F("h", Struct(<<F("n", U8)>>)),
     F("xs", Times(Struct(<<F("i", Compute(Now("LoopVar"))),
                            F("v", U8)>>), Val(Dot(Root("h"), "n")))),
     F("y", Compute(Val(Dot(At(Root("xs"), Num(1)), "v")))),
     F("z", U8Is("z", 1))>>)>>
>>

ChoiceRules == <<
  <<"Alts", Alt(<<Struct(<<F("a", U8Is("a", 1)), F("b", U16)>>),
                  Struct(<<F("c", U8Is("c", 2)),
                           F("d", Alt(<<Struct(<<F("e", U8Is("e", 1)),
                                                 F("f", U8)>>),
                                        Struct(<<F("g", U8)>>)>>))>>),
                  Rule("Tail")>>)>>,
  <<"Tail", StructWhere(<<F("t", U8), F("u", U8)>>,
                        <<Bin(Var("t"), "<", Var("u"))>>)>>,
  <<"Caller", Alt(<<Struct(<<F("x", Rule("Inner")), F("y", U8Is("y", 1))>>),
                    Struct(<<F("z", Rule("Tail"))>>),
                    Struct(<<F("w", Many(U8))>>)>>)>>,
  <<"Inner", Alt(<<Struct(<<F("p", U8Is("p", 1))>>),
                   Struct(<<F("q", U8Is("q", 2)), F("r", U8)>>)>>)>>,
  <<"Opts", Struct(<<F("a", Opt(One)), F("b", U8),
                     F("c", OptIf(U16, Is("b", 1))), F("d", Opt(U16)),
                     F("e", Opt(U8Is("e", 3)))>>)>>,
  <<"Picks", Struct(<<F("k", U8),
     F("s", Switch(Var("k"),
              <<Case(<<1>>, U8), Case(<<2, 3>>, Struct(<<F("v", U8)>>)),
                Case(<<4>>, Many(U8))>>,
              <<U16>>)),
     F("r", Switch(Var("k"), <<Case(<<1>>, U8), Case(<<0>>, One)>>, <<>>))>>)>>
>>

Arrays == <<
  <<"Fixed", Struct(<<F("n", U8), F("a", Times(U8, Var("n"))), F("z", U8)>>)>>,
  <<"Counts", Struct(<<F("n", U8),
     F("a", [ArrayOf(Struct(<<F("m", U8), F("b", Times(U8, Var("m")))>>),
                     "Count", Var("n")) EXCEPT
               !.sep = <<U8Is("_", 0)>>,
               !.where = <<Bin(Now("Pos"), "<", Num(6))>>]),
     F("z", U8)>>)>>,
  <<"Until", Struct(<<F("a", ArrayOf(Struct(<<F("v", U8)>>), "Until",
                                     Bin(Fun("peek", <<>>), "==", Num(0)))),
                      F("z", U8)>>)>>,
  Record,
  <<"Scan", Struct(<<F("a", Resyncing(Many(Struct(<<F("v", U8Is("v", 1)),
                                                    F("w", U8)>>))))>>)>>,
  <<"Scan2", Struct(<<F("a", Resyncing(Times(Rule("Record"), Num(2)))),
                      F("z", U8)>>)>>,
  <<"ScanWin", Struct(<<F("n", U8),
     F("a", In(Resyncing(Many(One)), Len1(Var("n")))),
     F("z", U8)>>)>>,
  <<"ScanWide", Struct(<<F("a", Resyncing(Many(U16))), F("z", Opt(U8))>>)>>
>>

Windows == <<
  <<"Rest", Struct(<<FRest("n", U8), F("a", Opt(One)),
                     F("b", BytesOf(Len1(Num(1)))),
                     F("c", Alt(<<Struct(<<F("x", U8)>>), Struct(<<>>)>>))>>)>>,
  <<"Seeks", Struct(<<F("o", U8),
     F("c", Alt(<<
        Struct(<<F("a", In(Rule("Ahead"), FromTo(Var("o"), Num(4))))>>),
        Struct(<<F("b", In(Rule("Hop"), FromTo(Num(1), Num(3))))>>),
        Struct(<<F("s", BytesOf(Len1(Var("o"))))>>)>>)),
     F("z", Opt(U8))>>)>>,
  <<"Ahead", Struct(<<F("p", U8Is("p", 1)),
                      F("q", BytesOf(Len1(Now("Remaining"))))>>)>>,
  <<"Hop", Struct(<<F("r", In(U8, FromTo(Fun("peek", <<>>), Num(3)))),
                    F("t", U8)>>)>>,
  <<"Ext", Struct(<<F("a", In(Extern("skip2"), Len1(Fun("peek", <<>>)))),
                    F("b", Opt(Extern("nobody"))),
                    F("c", [BytesOf(Len1(Num(1))) EXCEPT !.is_string = TRUE])>>)>>,
  <<"Table", Struct(<<F("n", U8),
     F("a", [Times(Struct(<<F("v", PrimWhere(IntPrim(1, FALSE, "Native"),
                              <<Bin(Var("v"), "<", Num(4))>>))>>), Var("n"))
               EXCEPT !.elem_iv = FromTo(
                 Bin(Num(1), "+", Bin(Now("LoopVar"), "*", Num(2))),
                 Bin(Num(2), "+", Bin(Now("LoopVar"), "*", Num(2))))]),
     F("z", U8)>>)>>
>>

(* Grammars offered to Sema, which refuses some.  An array that only the   *)
(* input bounds, over every kind of element, with and without a separator; *)
(* and rules that come back to themselves.                                 *)
LoopElements == <<
  U8, BytesOf(Len1(Num(0))), BytesOf(Len1(Num(1))), BytesOf(Len1(Var("n"))),
  Compute(Num(1)), Opt(U8), Struct(<<>>),
  Struct(<<F("c", Compute(Num(1))), F("v", U8)>>),
  Alt(<<Struct(<<F("v", U8Is("v", 1))>>), Struct(<<>>)>>),
  Alt(<<Struct(<<F("v", U16)>>), Struct(<<F("v", U8)>>)>>),
  Switch(Fun("peek", <<>>), <<Case(<<1>>, U8), Case(<<2>>, U16)>>, <<>>),
  Switch(Fun("peek", <<>>), <<Case(<<1>>, U8)>>, <<Struct(<<>>)>>),
  Times(U8, Num(0)), Times(U8, Num(2)), Times(Compute(Num(1)), Num(2)),
  Times(U8, Var("n")), Many(U8), Extern("skip2"), Rule("Record"),
  Bitfield(IntPrim(1, FALSE, "Native"),
           <<Member("p", 2, FALSE, <<>>), Member("q", 6, FALSE, <<>>)>>)>>
LoopSpecs == <<Many(U8),
  ArrayOf(U8, "Until", Bin(Fun("peek", <<>>), "==", Num(0))),
  [Many(U8) EXCEPT !.sep = <<U8Is("_", 0)>>],
  [Many(U8) EXCEPT !.sep = <<Opt(U8)>>]>>
LoopGrammar(i, j) == <<
  <<"Loop" \o ToString(i) \o ToString(j),
    Struct(<<F("n", U8),
             F("x", [LoopSpecs[j] EXCEPT !.elem = LoopElements[i]])>>)>>,
  Record>>
LoopGrammars == [k \in 1..(Len(LoopElements) * Len(LoopSpecs)) |->
  LoopGrammar(((k - 1) \div Len(LoopSpecs)) + 1, ((k - 1) % Len(LoopSpecs)) + 1)]

CallGrammars == <<
  <<<<"Tree", Struct(<<F("n", U8), F("x", Times(Rule("Tree"), Var("n")))>>)>>>>,
  <<<<"Even", Struct(<<F("v", U8), F("o", Rule("Odd1"))>>)>>,
    <<"Odd1", Struct(<<F("x", Times(Rule("Even"), Fun("peek", <<>>)))>>)>>>>,
  <<<<"Here", Struct(<<F("x", Opt(Rule("Here")))>>)>>>>,
  <<<<"Once", Struct(<<F("x", Times(Opt(Rule("Once")), Num(1)))>>)>>>>,
  <<<<"Pick", Alt(<<Struct(<<F("v", U8Is("v", 1))>>), Rule("Pick")>>)>>>>,
  <<<<"Ping", Struct(<<F("x", Rule("Pong"))>>)>>,
    <<"Pong", Alt(<<Rule("Ping"), Struct(<<F("v", U8)>>)>>)>>>>>>

(* Grammars on which the machine and the text of its comments or of the    *)
(* documentation disagree; each has a run of its own.                      *)
Odds == <<
  <<"LoopLeft", Struct(<<F("x", Rule("LoopInner")), F("y", U8)>>)>>,
  <<"LoopInner", Alt(<<Struct(<<F("a", Times(One, Num(2)))>>),
                       Struct(<<F("b", U8)>>)>>)>>,
  <<"LastArm", Struct(<<F("x", Rule("LastInner")), F("y", U8)>>)>>,
  <<"LastInner", Alt(<<Struct(<<F("p", U8),
                                F("q", Alt(<<Struct(<<F("a", U8Is("a", 1))>>),
                                             Struct(<<F("b", U8Is("b", 2))>>)>>))>>),
                       Struct(<<F("c", U8)>>)>>)>>,
  <<"ScanNested", Struct(<<F("x", Resyncing(Many(Struct(<<F("v", U8Is("v", 1)),
        F("w", Times(Struct(<<F("z", U8Is("z", 2))>>), Num(2)))>>))))>>)>>,
  <<"ScanCount", Struct(<<F("n", U8),
        F("x", Resyncing(ArrayOf(One, "Count", Var("n")))), F("z", U8)>>)>>,
  <<"TagLeak", Struct(<<F("x", Rule("TagInner"))>>)>>,
  <<"TagInner", Alt(<<Struct(<<F("s", Switch(Fun("peek", <<>>),
                                             <<Case(<<1>>, U16)>>, <<>>))>>),
                      Struct(<<F("b", U8)>>)>>)>>,
  <<"CountShadow", Struct(<<F("n", U8),
        F("x", ArrayOf(Struct(<<F("n", U8)>>), "Count", Var("n"))),
        F("z", U8)>>)>>,
  <<"Terminated", Struct(<<
        F("x", [ArrayOf(Struct(<<F("v", U8)>>), "TypeTerm", Num(0)) EXCEPT
                  !.term = Struct(<<F("e", U8Is("e", 0))>>)]), F("z", U8)>>)>>,
  <<"SeekBack", Struct(<<
        F("x", Many(Struct(<<F("v", In(U8, FromTo(Num(0), Num(1))))>>)))>>)>>,
  <<"NeverTried", Struct(<<
        F("x", [ArrayOf(Struct(<<F("v", Compute(Num(1)))>>), "TypeTerm", Num(0))
                  EXCEPT !.term = Struct(<<F("e", U8Is("e", 0))>>)])>>)>>,
  <<"Itself", Struct(<<F("x", Times(Rule("Itself"), Num(1)))>>)>>
>>
=============================================================================
