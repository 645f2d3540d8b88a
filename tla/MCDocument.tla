----------------------------- MODULE MCDocument -----------------------------
(* Documents small enough to check: their grammars and the bytes they were    *)
(* parsed from.                                                               *)
EXTENDS DocumentLaws

CONSTANT Inputs     \* one byte string a document

Moved(n, by) == [n EXCEPT !.kids = [i \in DOMAIN @ |-> @[i] + by]]

Parses == [i \in DOMAIN Inputs |-> Parsed(Grammar[i], Inputs[i])]
Before(i) == IF i = 1 THEN 0 ELSE Len(Parses[1].heap)

MCHeap ==
    FlattenSeq([i \in DOMAIN Parses |->
        [n \in DOMAIN Parses[i].heap |-> Moved(Parses[i].heap[n], Before(i))]])
MCDocs ==
    [i \in DOMAIN Parses |->
        [root |-> Parses[i].node + Before(i), src |-> i, from |-> 0]]

ASSUME InputsParse == \A i \in DOMAIN Parses : Sentence(Parses[i])

(* n: uint8, xs: array<uint8>[n]                                              *)
Counted == Record(<<F("n", U8), F("xs", List(U8, <<"n">>))>>, "")
CountedInput == <<<<1, 5>>>>
Bytes1 == {[type |-> "UInt8", enc |-> "Fixed"]}

(* sz: uleb @rest, h: struct { n: uleb }, xs: array<uint8>[h.n], f: bool      *)
Sized == Record(<<F("sz", Leb), F("h", Record(<<F("n", Leb)>>, "")),
                  F("xs", List(U8, <<"h", "n">>)), F("f", Bool)>>, "sz")
SizedInput == <<<<5, 1, 3, 1, 2, 3, 6>>>>

(* a: uint8, one byte no field covers, f: bool, another, h: struct { b, c }    *)
Gapped == Record(<<F("a", U8), F("", Pad), F("f", Bool), F("", Pad),
                   F("h", Record(<<F("b", U8), F("", Pad), F("c", Bool)>>, ""))>>, "")
GappedInput == <<<<1, 7, 5, 6, 2, 4, 0>>>>

(* sz: uint8 @rest, h: struct { n: uleb @rest, b: bytes }                     *)
Framed == Record(<<F("sz", U8), F("h", Record(<<F("n", Leb), F("b", Raw)>>, "n"))>>, "sz")
FramedInput == <<<<4, 3, 5, 5, 5>>>>
SomeBlobs == {<<>>, <<5, 5, 5>>, <<1, 2, 3, 4>>}
OneBlob == {<<7>>}

(* A third element brings the count to where one more needs another byte.     *)
FullInput == <<<<3, 1, 1, 1>>>>

(* h: struct { sz: uint8 @rest, n: uleb }, xs: array<uint8>[h.n]              *)
HeadSized == Record(<<F("h", Record(<<F("sz", U8), F("n", Leb)>>, "sz")),
                      F("xs", List(U8, <<"h", "n">>))>>, "")
HeadSizedInput == <<<<1, 3, 1, 1, 1>>>>

(* n: uint8, body: struct { xs: array<uint8>[n], n: uint8 }                   *)
Shadowed == Record(<<F("n", U8),
                     F("body", Record(<<F("xs", List(U8, <<"n">>)), F("n", U8)>>, ""))>>, "")
ShadowedInput == <<<<1, 5, 1>>>>

(* n: uleb, xs: array<uint8>[n], the count not encoded minimally              *)
LebCounted == Record(<<F("n", Leb), F("xs", List(U8, <<"n">>))>>, "")
PaddedInput == <<<<5, 0, 3>>>>
CountedTwo == <<<<2, 1, 5>>, <<2, 3, 4>>>>

(* len: uint8, body: struct { xs: array<uint8> } [len], crc: uint8            *)
Checked == Record(<<F("len", U8), Windowed("body", Record(<<F("xs", List(U8, <<>>))>>, ""), "len"),
                    F("crc", U8)>>, "")
CheckedInput == <<<<1, 5, 6>>>>

(* v: uleb, a byte no field covers, a: uint8                                  *)
GapAfterLeb == Record(<<F("v", Leb), F("", Pad), F("a", U8)>>, "")
GapAfterLebInput == <<<<1, 7, 2>>>>

(* The documents of a run, each with its grammar.                             *)
One(g) == <<g>>
OfSized == One(Sized)
FramedAndGapped == <<Framed, Gapped>>
FramedAndGappedInputs == <<FramedInput[1], GappedInput[1]>>
OfCounted == One(Counted)
OfCountedTwice == <<Counted, Counted>>
OfHeadSized == One(HeadSized)
OfShadowed == One(Shadowed)
OfLebCounted == One(LebCounted)
OfChecked == One(Checked)
OfGapAfterLeb == One(GapAfterLeb)

SlotSymmetry == Permutations(Slots)

=============================================================================
