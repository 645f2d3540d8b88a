------------------------------ MODULE Layouts -------------------------------
(* Small grammars, and what a parse of a byte string by one of them is: the   *)
(* nodes the generated reader records and the value it reads.  A document is  *)
(* built by the first and judged by the second.                               *)
EXTENDS Document

(* Leaves; pad is a byte no field covers.                                     *)
U8 == [k |-> "UInt8"]
Bool == [k |-> "Bool"]
Leb == [k |-> "Computed"]
Raw == [k |-> "Bytes"]      \* all that is left of the window
Pad == [k |-> "pad"]

(* A field: its name, its type, and the field holding the length of the       *)
(* window around it ("" for none).                                            *)
F(name, g) == [name |-> name, g |-> g, win |-> ""]
Windowed(name, g, len) == [name |-> name, g |-> g, win |-> len]

(* "rest" names the field marked @rest; "count" the path of the field bounding *)
(* an array, empty for one that fills its window.                             *)
Record(fields, rest) == [k |-> "Struct", fields |-> fields, rest |-> rest]
List(elem, count) == [k |-> "Array", elem |-> elem, count |-> count]

(* A parse in progress: the bytes and the window's end, the nodes recorded,   *)
(* the fields of the open structs, innermost last, and the value and the node *)
(* just read (node 0: none).                                                  *)
Start(bytes) == [ok |-> TRUE, in |-> bytes, pos |-> 0, lim |-> Len(bytes),
                 heap |-> <<>>, scopes |-> <<>>, val |-> <<>>, node |-> 0]

Fail(st) == [st EXCEPT !.ok = FALSE]

BlankNode(name, type, s, e) ==
    [name |-> name, type |-> type, enc |-> IF type = "Computed" THEN "Uleb" ELSE "Fixed",
     s |-> s, e |-> e, parsed |-> TRUE, ival |-> 0, was |-> 0, bval |-> <<>>,
     derives |-> "Nothing", determines |-> <<>>, resized |-> FALSE, kids |-> <<>>,
     owner |-> 0]

Recorded(st, node, val) ==
    [st EXCEPT !.heap = Append(@, node), !.node = Len(st.heap) + 1, !.val = val,
               !.pos = node.e]

IntOf(v) == [int |-> v]
BytesOf(b) == [bytes |-> b]
KidsAre(vals) == [kids |-> vals]

(* The bytes of a varint at pos: up to the first without the continuation bit. *)
UlebLen(st) ==
    LET ends == {p \in st.pos + 1 .. st.lim : st.in[p] < Half}
    IN  IF ends = {} THEN 0 ELSE First(ends) - st.pos

RECURSIVE UlebValue(_)
UlebValue(b) == IF b = <<>> THEN 0 ELSE (b[1] % Half) + Half * UlebValue(Tail(b))

ParseLeaf(type, name, st) ==
    LET w == CASE type = "Computed" -> UlebLen(st)
               [] type = "Bytes" -> st.lim - st.pos
               [] OTHER -> 1
        n == BlankNode(name, type, st.pos, st.pos + w)
        b == SubSeq(st.in, st.pos + 1, st.pos + w)
    IN  IF st.pos + w > st.lim \/ (w = 0 /\ type = "Computed") THEN Fail(st)
        ELSE CASE type = "UInt8" -> Recorded(st, n, IntOf(b[1]))
               [] type = "Bool" -> Recorded(st, n, IntOf(IF b[1] = 0 THEN 0 ELSE 1))
               [] type = "Computed" ->
                    Recorded(st, [n EXCEPT !.was = UlebValue(b)], IntOf(UlebValue(b)))
               [] OTHER -> Recorded(st, n, BytesOf(b))

(* A name means the latest field of that name in the innermost open struct    *)
(* that has one.                                                              *)
Latest(S) == CHOOSE i \in S : \A j \in S : j <= i

Known(st, scope, name) == {i \in DOMAIN scope : st.heap[scope[i]].name = name}

RECURSIVE Lookup(_, _, _)
Lookup(st, d, name) ==
    IF d = 0 THEN 0
    ELSE IF Known(st, st.scopes[d], name) # {}
         THEN st.scopes[d][Latest(Known(st, st.scopes[d], name))]
         ELSE Lookup(st, d - 1, name)

FieldAt(st, path) ==
    LET n == Lookup(st, Len(st.scopes), path[1])
    IN  IF n = 0 \/ Len(path) = 1 THEN n
        ELSE LET kids == st.heap[n].kids
             IN  IF Known(st, kids, path[2]) = {} THEN 0
                 ELSE kids[First(Known(st, kids, path[2]))]

ReadAt(st, n) ==
    IF st.heap[n].type = "Computed" THEN st.heap[n].was ELSE st.in[st.heap[n].s + 1]

RECURSIVE Parse(_, _, _), ParseFields(_, _, _, _), ParseElems(_, _, _, _)

(* The fields of a struct from the i-th on; vals are the values of those      *)
(* before it.  A [length] window around a field and the @rest window after    *)
(* one both lie inside the window that is open.                               *)
ParseFields(g, i, vals, st) ==
    IF ~st.ok THEN st
    ELSE IF i > Len(g.fields) THEN [st EXCEPT !.val = KidsAre(vals)]
    ELSE LET f == g.fields[i]
             outer == st.lim
             len == IF f.win = "" THEN 0 ELSE ReadAt(st, FieldAt(st, <<f.win>>))
             in == IF f.win = "" THEN st ELSE [st EXCEPT !.lim = st.pos + len]
             r == IF in.lim > outer THEN Fail(st) ELSE Parse(f.g, f.name, in)
             read == [r EXCEPT !.lim = outer]
             kept == IF f.g.k = "pad" THEN read
                     ELSE [read EXCEPT !.scopes[Len(read.scopes)] = Append(@, r.node)]
         IN  IF ~r.ok THEN Fail(st)
             ELSE IF f.name # g.rest \/ f.g.k = "pad"
             THEN ParseFields(g, i + 1, IF f.g.k = "pad" THEN vals ELSE Append(vals, r.val), kept)
             ELSE LET end == r.pos + r.val.int
                      rest == ParseFields(g, i + 1, Append(vals, r.val), [kept EXCEPT !.lim = end])
                  IN  IF end > outer \/ rest.pos # end THEN Fail(st)
                      ELSE [rest EXCEPT !.lim = outer]

(* Elements of an array, "left" of them, or to the window's end when -1.      *)
ParseElems(g, left, acc, st) ==
    IF ~st.ok THEN st
    ELSE IF left = 0 \/ (left = -1 /\ st.pos = st.lim)
    THEN [st EXCEPT !.val = KidsAre(acc.vals), !.scopes = Append(@, acc.ids)]
    ELSE LET r == Parse(g.elem, NoName, st)
         IN  IF ~r.ok THEN Fail(st)
             ELSE ParseElems(g, IF left = -1 THEN -1 ELSE left - 1,
                             [vals |-> Append(acc.vals, r.val), ids |-> Append(acc.ids, r.node)], r)

(* What the reader records of a grammar that derives a field: the path of a   *)
(* plain count on the array; on a struct the field its window's length is in, *)
(* whether @rest says so or a [length] around a later field.                  *)
DerivesOf(g) ==
    LET sized == {i \in DOMAIN g.fields : g.fields[i].win # ""}
    IN  CASE g.k = "Array" /\ g.count # <<>> -> <<"HasCount", g.count>>
          [] g.k = "Struct" /\ g.rest # "" -> <<"HasRestSize", <<g.rest>>>>
          [] g.k = "Struct" /\ g.rest = "" /\ sized # {} ->
               <<"HasRestSize", <<g.fields[First(sized)].win>>>>
          [] OTHER -> <<"Nothing", <<>>>>

(* A container: what it encloses is left as the last scope, and becomes its   *)
(* kids.                                                                      *)
Closed(g, name, st, r) ==
    LET d == DerivesOf(g)
    IN  IF ~r.ok THEN Fail(st)
        ELSE Recorded([r EXCEPT !.scopes = Front(@)],
                      [BlankNode(name, g.k, st.pos, r.pos) EXCEPT
                         !.kids = r.scopes[Len(r.scopes)],
                         !.derives = d[1], !.determines = d[2]],
                      r.val)

Parse(g, name, st) ==
    CASE g.k = "pad" -> IF st.pos < st.lim THEN [st EXCEPT !.pos = @ + 1, !.node = 0]
                        ELSE Fail(st)
      [] g.k = "Struct" ->
           Closed(g, name, st, ParseFields(g, 1, <<>>, [st EXCEPT !.scopes = Append(@, <<>>)]))
      [] g.k = "Array" ->
           LET none == [vals |-> <<>>, ids |-> <<>>]
               n == IF g.count = <<>> THEN 0 ELSE FieldAt(st, g.count)
           IN  IF g.count # <<>> /\ n = 0 THEN Fail(st)
               ELSE Closed(g, name, st,
                           ParseElems(g, IF n = 0 THEN -1 ELSE ReadAt(st, n), none, st))
      [] OTHER -> ParseLeaf(g.k, name, st)

Parsed(g, bytes) == Parse(g, NoName, Start(bytes))

(* The bytes are one whole sentence of the grammar.                           *)
Sentence(r) == r.ok /\ r.pos = Len(r.in)

----------------------------------------------------------------------------
(* The value a tree of the heap stands for: what its readers read.            *)
ReadBytes(src, n) == IF n.parsed THEN Span(src, n) ELSE n.bval
ReadInt(src, n) ==
    IF n.parsed THEN Decode(src, n) ELSE n.ival

ValueOf(h, src, root) ==
    LET val[d \in 0 .. MaxDepth, n \in 1 .. Len(h)] ==
            CASE h[n].type \in Containers ->
                   KidsAre([i \in DOMAIN h[n].kids |-> val[d - 1, h[n].kids[i]]])
              [] h[n].type = "Bytes" -> BytesOf(ReadBytes(src, h[n]))
              [] OTHER -> IntOf(ReadInt(src, h[n]))
    IN  val[MaxDepth, root]

=============================================================================
