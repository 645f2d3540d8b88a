------------------------------ MODULE Document ------------------------------
(* The copy-on-write document of the C++ runtime (CaptureCow.h).  A document  *)
(* is a root in a heap of shared nodes; a transient edits a version of it by  *)
(* cloning each node it does not own on the way down, and commit() or         *)
(* serialize() walks what the edits touched and recomputes the counts and     *)
(* window sizes the grammar derives.                                          *)
EXTENDS Integers, Sequences, SequencesExt

CONSTANTS
    Base,       \* how many values a byte has
    Sources,    \* the byte strings the documents were parsed from
    Heap0,      \* the nodes the parses built
    Docs0,      \* the documents they returned
    Slots,      \* the variables a caller keeps transients in
    Calls,      \* the calls the caller makes
    Fields,     \* the names of the fields it writes (NoName for array elements)
    Elems,      \* the leaves it appends: [type, enc]
    Values,     \* the integers and
    Blobs,      \* the byte strings it writes
    MaxEdits,   \* bound: transients ever begun
    MaxOps,     \* bound: writes through one transient
    MaxBytes,   \* bound: the size of a measured window
    MaxDepth    \* bound: how deep a document nests

Half == Base \div 2

(* The name of an array element: it has none.                                  *)
NoName == "-"

CaptureType == {"UInt8", "Bool", "Computed", "Bytes", "Struct", "Array"}
Containers == {"Struct", "Array"}
Enc == {"Fixed", "Uleb"}
Derives == {"Nothing", "HasCount", "HasRestSize"}

(* A path of "determines": one name, or two when it is dotted.                *)
Path == {q \in Seq(STRING) : Len(q) <= 2}

(* The span is the bytes s+1 .. e of the source; "was" is the value the parse *)
(* computed for a leaf it could not read at a fixed width (computed_value).   *)
Node == [name : STRING, type : CaptureType, enc : Enc, s : Nat, e : Nat,
         parsed : BOOLEAN, ival : Int, was : Int, bval : Seq(Nat),
         derives : Derives, determines : Path, resized : BOOLEAN,
         kids : Seq(Nat), owner : Nat]

Document == [root : Nat, src : Nat, from : Nat]
Frame == [n : Nat, kid : Nat]
Modes == {"dead", "edit", "commit", "serialize"}
Transient == [id : Nat, root : Nat, src : Nat, from : Nat, at : Nat,
              mode : Modes, stack : Seq(Frame), ops : Nat]

Dead == [id |-> 0, root |-> 0, src |-> 0, from |-> 0, at |-> 0,
         mode |-> "dead", stack |-> <<>>, ops |-> 0]

ASSUME DocumentAssumption ==
    /\ NoName \in STRING
    /\ MaxBytes \in Nat
    /\ Values \subseteq Int /\ Blobs \subseteq Seq(Nat)
    /\ Elems \subseteq [type : CaptureType, enc : Enc]
    /\ Heap0 \in Seq(Node) /\ Docs0 \in Seq(Document)
    /\ \A n \in 1 .. Len(Heap0) : /\ Heap0[n].owner = 0
                                  /\ \A i \in 1 .. Len(Heap0[n].kids) :
                                         Heap0[n].kids[i] \in 1 .. Len(Heap0)
    /\ \A d \in 1 .. Len(Docs0) : Docs0[d].root \in 1 .. Len(Heap0)

VARIABLES
    nodes,      \* the heap: one record a node, never freed
    docs,       \* the persistent documents
    edits,      \* the transient in each slot
    tokens,     \* the next owner id
    shown       \* <<the bytes last serialized>> while no edit followed

vars == <<nodes, docs, edits, tokens, shown>>

----------------------------------------------------------------------------
(* Bytes.                                                                     *)

Span(src, n) == SubSeq(Sources[src], n.s + 1, n.e)

Uleb[v \in Nat] ==
    IF v < Half THEN <<v>> ELSE <<(v % Half) + Half>> \o Uleb[v \div Half]

Encode(n) ==
    CASE n.enc = "Uleb" -> Uleb[n.ival]
      [] n.type = "UInt8" -> <<n.ival % Base>>
      [] n.type = "Bool" -> <<IF n.ival = 0 THEN 0 ELSE 1>>
      [] n.type = "Bytes" -> n.bval
      [] OTHER -> <<>>

LeafHolds(type, enc, v) ==
    \/ enc = "Uleb" /\ v >= 0
    \/ enc = "Fixed" /\ (type = "UInt8" => v \in 0 .. Base - 1)

(* What the span of a leaf says; "none" for a type no integer is read from.   *)
Decode(src, n) ==
    CASE n.type = "Computed" -> n.was
      [] n.type = "UInt8" -> Span(src, n)[1]
      [] n.type = "Bool" -> IF Span(src, n)[1] = 0 THEN 0 ELSE 1

Emit(h, src, top) ==
    LET emit[d \in 0 .. MaxDepth, n \in 1 .. Len(h)] ==
            CASE h[n].parsed -> Span(src, h[n])
              [] ~h[n].parsed /\ h[n].type \in Containers ->
                   FlattenSeq([i \in DOMAIN h[n].kids |-> emit[d - 1, h[n].kids[i]]])
              [] OTHER -> Encode(h[n])
    IN  emit[MaxDepth, top]

(* Everything below a node, itself included, whose span no longer describes   *)
(* it and that is reached through such nodes alone.                           *)
Changed(h, top) ==
    LET changed[d \in 0 .. MaxDepth, n \in 1 .. Len(h)] ==
            IF h[n].parsed THEN {}
            ELSE {n} \cup UNION {changed[d - 1, h[n].kids[i]] : i \in DOMAIN h[n].kids}
    IN  changed[MaxDepth, top]

(* Mutant: any change at all rebuilds the document from its tree.             *)
ChangesLengthAlways(h, top) == Changed(h, top) # {}

ChangesLength(h, top) ==
    \E n \in Changed(h, top) :
        \/ h[n].resized
        \/ /\ h[n].kids = <<>>
           /\ IF h[n].type = "Computed" THEN h[n].enc # "Fixed"
              ELSE \/ h[n].e <= h[n].s
                   \/ h[n].enc # "Fixed"
                   \/ h[n].type = "Bytes" /\ Len(h[n].bval) # h[n].e - h[n].s

(* The span of the root with each changed leaf written at its own offset.     *)
Patch(h, src, top) ==
    LET leaves == {n \in Changed(h, top) :
                      h[n].kids = <<>> /\ h[n].type # "Computed"}
        byte(p) ==
            IF \E n \in leaves : p \in h[n].s + 1 .. h[n].e
            THEN LET n == CHOOSE n \in leaves : p \in h[n].s + 1 .. h[n].e
                 IN  Encode(h[n])[p - h[n].s]
            ELSE Sources[src][p]
    IN  [k \in 1 .. h[top].e - h[top].s |-> byte(h[top].s + k)]

EmitDocument(h, src, root) ==
    IF ~h[root].parsed /\ ~ChangesLength(h, root)
    THEN Patch(h, src, root)
    ELSE Emit(h, src, root)

----------------------------------------------------------------------------
(* Ownership: a transient writes only nodes that carry its id, and clones the *)
(* others when it first needs to.                                             *)

Owned(h, id, n) == IF h[n].owner = id THEN n ELSE Len(h) + 1

Own(h, id, n) ==
    IF h[n].owner = id THEN h ELSE Append(h, [h[n] EXCEPT !.owner = id])

Put(h, n, node) == [h EXCEPT ![n] = node]

OwnKid(h, id, p, i) ==
    LET k == h[p].kids[i]
        g == Own(h, id, k)
    IN  Put(g, p, [g[p] EXCEPT !.kids = [@ EXCEPT ![i] = Owned(h, id, k)]])

MarkDirty(h, n) == Put(h, n, [h[n] EXCEPT !.parsed = FALSE])

LiveIds == {edits[e].id : e \in Slots} \ {0}

Live(e) == edits[e].id # 0 /\ edits[e].mode = "edit"

----------------------------------------------------------------------------
(* begin_edit(), the way down, and the writes.                                *)

(* The kids of the node the caller holds.                                     *)
HereKids(e) ==
    IF edits[e].at = 0 THEN {} ELSE 1 .. Len(nodes[edits[e].at].kids)

(* Mutant: the owner token of the last transient is handed out again.         *)
BeginEditReuses(e, d) ==
    /\ edits[e].id = 0
    /\ edits' = [edits EXCEPT ![e] =
                   [id |-> tokens, root |-> docs[d].root, src |-> docs[d].src,
                    from |-> d, at |-> 0, mode |-> "edit", stack |-> <<>>, ops |-> 0]]
    /\ shown' = [shown EXCEPT ![e] = <<>>]
    /\ UNCHANGED <<nodes, docs, tokens>>

BeginEdit(e, d) ==
    /\ edits[e].id = 0
    /\ tokens <= MaxEdits
    /\ edits' = [edits EXCEPT ![e] =
                   [id |-> tokens, root |-> docs[d].root, src |-> docs[d].src,
                    from |-> d, at |-> 0, mode |-> "edit", stack |-> <<>>, ops |-> 0]]
    /\ tokens' = tokens + 1
    /\ shown' = [shown EXCEPT ![e] = <<>>]
    /\ UNCHANGED <<nodes, docs>>

RootMut(e) ==
    /\ Live(e)
    /\ nodes' = Own(nodes, edits[e].id, edits[e].root)
    /\ LET r == Owned(nodes, edits[e].id, edits[e].root)
       IN  edits' = [edits EXCEPT ![e].root = r, ![e].at = r]
    /\ UNCHANGED <<docs, tokens, shown>>

(* own_child: the kid to be written through, and its parent, no longer match  *)
(* their spans.                                                               *)
OwnedKid(e, i) ==
    LET p == edits[e].at
        k == Owned(nodes, edits[e].id, nodes[p].kids[i])
    IN  MarkDirty(MarkDirty(OwnKid(nodes, edits[e].id, p, i), p), k)

OwnChild(e, i) ==
    /\ Live(e) /\ edits[e].at # 0
    /\ LET k == nodes[edits[e].at].kids[i]
       IN  /\ nodes[k].type \in Containers
           /\ nodes' = OwnedKid(e, i)
           /\ edits' = [edits EXCEPT ![e].at = Owned(nodes, edits[e].id, k)]
    /\ UNCHANGED <<docs, tokens, shown>>

(* One write through the cursor; what follows it is no longer what was shown. *)
Writing(e, call) ==
    /\ Live(e) /\ edits[e].at # 0
    /\ call \in Calls /\ edits[e].ops < MaxOps
    /\ edits' = [edits EXCEPT ![e].ops = @ + 1]
    /\ shown' = [shown EXCEPT ![e] = <<>>]
    /\ UNCHANGED <<docs, tokens>>

(* set_int(own_child(at, i), v, enc): a leaf is owned only to be written.     *)
SetInt(e, i, v) ==
    /\ Writing(e, "set_int")
    /\ LET n == nodes[nodes[edits[e].at].kids[i]]
           k == Owned(nodes, edits[e].id, nodes[edits[e].at].kids[i])
       IN  /\ n.type \in {"UInt8", "Bool", "Computed"} /\ n.name \in Fields
           /\ n.type = "Bool" => v \in {0, 1}
           /\ LeafHolds(n.type, n.enc, v)
           /\ nodes' = Put(OwnedKid(e, i), k,
                           [OwnedKid(e, i)[k] EXCEPT !.ival = v, !.bval = <<>>])

SetBytes(e, i, b) ==
    /\ Writing(e, "set_bytes")
    /\ LET n == nodes[nodes[edits[e].at].kids[i]]
           k == Owned(nodes, edits[e].id, nodes[edits[e].at].kids[i])
       IN  /\ n.type = "Bytes" /\ n.name \in Fields
           /\ nodes' = Put(OwnedKid(e, i), k, [OwnedKid(e, i)[k] EXCEPT !.bval = b])

(* splice: the node the caller holds becomes these bytes.                     *)
Splice(e, b) ==
    /\ Writing(e, "splice")
    /\ LET n == nodes[edits[e].at]
       IN  /\ n.name \in Fields
           /\ nodes' = Put(nodes, edits[e].at,
                           [n EXCEPT !.kids = <<>>, !.bval = b, !.type = "Bytes",
                                     !.enc = "Fixed", !.parsed = FALSE,
                                     !.resized = @ \/ Len(b) # n.e - n.s])

Resized(n, kids) == [n EXCEPT !.parsed = FALSE, !.resized = TRUE, !.kids = kids]

NewLeaf(elem, v, id) ==
    [name |-> NoName, type |-> elem.type, enc |-> elem.enc, s |-> 0, e |-> 0,
     parsed |-> FALSE, ival |-> v, was |-> 0, bval |-> <<>>,
     derives |-> "Nothing", determines |-> <<>>, resized |-> FALSE,
     kids |-> <<>>, owner |-> id]

(* set_int(append(xs, type), v, enc): a new leaf and the value written to it. *)
AppendInt(e, elem, v) ==
    /\ Writing(e, "append")
    /\ LET n == nodes[edits[e].at]
       IN  /\ n.type = "Array"
           /\ LeafHolds(elem.type, elem.enc, v)
           /\ nodes' = Put(Append(nodes, NewLeaf(elem, v, edits[e].id)), edits[e].at,
                           Resized(n, Append(n.kids, Len(nodes) + 1)))

(* The nodes a caller reaches from a document, as far down as two levels, and *)
(* may hand to append or replace.                                             *)
KidsOf(n) == {nodes[n].kids[i] : i \in 1 .. Len(nodes[n].kids)}

Lifts(d) == KidsOf(docs[d].root) \cup UNION {KidsOf(n) : n \in KidsOf(docs[d].root)}

(* What of a document goes where: array elements into arrays.                 *)
Fits(e, x) == nodes[edits[e].at].type = "Array" /\ nodes[x].name = NoName

AppendNode(e, d, x) ==
    /\ Writing(e, "append_node")
    /\ x \in Lifts(d) /\ Fits(e, x)
    /\ LET n == nodes[edits[e].at]
       IN  nodes' = Put(nodes, edits[e].at, Resized(n, Append(n.kids, x)))

ReplaceKid(e, i, d, x) ==
    /\ Writing(e, "replace")
    /\ x \in Lifts(d) /\ Fits(e, x)
    /\ LET n == nodes[edits[e].at]
       IN  nodes' = Put(nodes, edits[e].at, Resized(n, [n.kids EXCEPT ![i] = x]))

RemoveKid(e, i) ==
    /\ Writing(e, "remove")
    /\ LET n == nodes[edits[e].at]
       IN  /\ n.type = "Array"
           /\ nodes' = Put(nodes, edits[e].at, Resized(n, RemoveAt(n.kids, i)))

----------------------------------------------------------------------------
(* reconcile: the post-order walk commit() and serialize() make over what the *)
(* edits dirtied.  The nodes on the stack are the scope names resolve in.     *)

Walking(e) == edits[e].mode \in {"commit", "serialize"}

Enter(e, mode) ==
    /\ Live(e)
    /\ LET id == edits[e].id
           root == edits[e].root
           r == Owned(nodes, id, root)
       IN  IF nodes[root].parsed
           THEN /\ edits' = [edits EXCEPT ![e].mode = mode]
                /\ UNCHANGED nodes
           ELSE /\ nodes' = Own(nodes, id, root)
                /\ edits' = [edits EXCEPT ![e].mode = mode, ![e].root = r,
                                          ![e].stack = <<[n |-> r, kid |-> 0]>>]
    /\ UNCHANGED <<docs, tokens, shown>>

Commit(e) == Enter(e, "commit")
Serialize(e) == "serialize" \in Calls /\ Enter(e, "serialize")

Top(e) == edits[e].stack[Len(edits[e].stack)]
KidsLeft(e) == Top(e).kid < Len(nodes[Top(e).n].kids)
NextKid(e) == nodes[Top(e).n].kids[Top(e).kid + 1]

(* Mutant: the frame stays at the kid it is at.                               *)
AdvancedNot(e) == edits[e].stack

(* The stack with the top frame one kid further.                              *)
Advanced(e) == [edits[e].stack EXCEPT ![Len(edits[e].stack)].kid = @ + 1]

Visiting(e) == Walking(e) /\ edits[e].stack # <<>> /\ KidsLeft(e)

SkipKid(e) ==
    /\ Visiting(e) /\ nodes[NextKid(e)].parsed
    /\ edits' = [edits EXCEPT ![e].stack = Advanced(e)]
    /\ UNCHANGED <<nodes, docs, tokens, shown>>

EnterKid(e) ==
    /\ Visiting(e)
    /\ ~nodes[NextKid(e)].parsed /\ nodes[NextKid(e)].type \in Containers
    /\ nodes' = OwnKid(nodes, edits[e].id, Top(e).n, Top(e).kid + 1)
    /\ edits' = [edits EXCEPT ![e].stack =
                   Append(Advanced(e),
                          [n |-> Owned(nodes, edits[e].id, NextKid(e)), kid |-> 0])]
    /\ UNCHANGED <<docs, tokens, shown>>

(* Mutant: leaves read at a fixed width are left as written.                  *)
SaysTheSameVarint(src, k) ==
    k.kids = <<>> /\ k.e > k.s /\ k.type = "Computed" /\ k.ival = k.was

(* restore_if_unchanged: the leaf holds just what its span says.              *)
SaysTheSame(src, k) ==
    /\ k.kids = <<>> /\ k.e > k.s
    /\ CASE k.type = "Computed" -> k.ival = k.was
         [] k.type = "Bytes" -> k.bval = Span(src, k)
         [] OTHER -> k.enc = "Fixed" /\ k.ival = Decode(src, k)

RestoreKid(e) ==
    /\ Visiting(e)
    /\ ~nodes[NextKid(e)].parsed /\ nodes[NextKid(e)].type \notin Containers
    /\ IF SaysTheSame(edits[e].src, nodes[NextKid(e)])
       THEN LET k == Owned(nodes, edits[e].id, NextKid(e))
                g == OwnKid(nodes, edits[e].id, Top(e).n, Top(e).kid + 1)
            IN  nodes' = Put(g, k, [g[k] EXCEPT !.parsed = TRUE,
                                                !.bval = IF g[k].type = "Bytes" THEN <<>> ELSE @])
       ELSE UNCHANGED nodes
    /\ edits' = [edits EXCEPT ![e].stack = Advanced(e)]
    /\ UNCHANGED <<docs, tokens, shown>>

(* settle_derived, once the kids of the top frame are done.                   *)
Settling(e) == Walking(e) /\ edits[e].stack # <<>> /\ ~KidsLeft(e)
Popped(e) == [edits EXCEPT ![e].stack = Front(@)]

Named(h, p, name) ==
    {i \in 1 .. Len(h[p].kids) : h[h[p].kids[i]].name = name}
First(S) == CHOOSE i \in S : \A j \in S : i <= j

(* The frame, counted from the root, whose node has a kid of that name and is *)
(* the innermost one: 0 when no frame has.                                    *)
Holder(stack, name) ==
    LET holders == {d \in 1 .. Len(stack) : Named(nodes, stack[d].n, name) # {}}
    IN  IF holders = {} THEN 0 ELSE CHOOSE d \in holders : \A c \in holders : c <= d

(* Mutant: a field still described by its span is taken to be right.          *)
DisagreesIfWritten(src, k, want) == ~k.parsed /\ want # k.ival

(* What set_derived finds in the field already.                               *)
Disagrees(src, k, want) ==
    IF k.type = "Computed"
    THEN want # IF k.parsed THEN k.was ELSE k.ival
    ELSE IF k.parsed THEN k.type = "Bytes" \/ k.type \in Containers \/ want # Decode(src, k)
                     ELSE want # k.ival

(* Mutant: the field is written where it is, shared or not.                   *)
SetDerivedInPlace(h, id, p, i, want) ==
    LET k == h[p].kids[i]
    IN  Put(h, k, [h[k] EXCEPT !.parsed = FALSE, !.ival = want, !.bval = <<>>])

SetDerived(h, id, p, i, want) ==
    LET g == OwnKid(h, id, p, i)
        k == Owned(h, id, h[p].kids[i])
    IN  Put(g, k, [g[k] EXCEPT !.parsed = FALSE, !.ival = want, !.bval = <<>>])

(* Mutant: what the path stepped through still claims to match its span.      *)
DerivedOnly(h, e, p, i, want, chain) ==
    IF Disagrees(edits[e].src, h[h[p].kids[i]], want)
    THEN SetDerived(h, edits[e].id, p, i, want)
    ELSE h

(* The kid i of p is to say "want"; chain is what its path stepped through.   *)
Derived(h, e, p, i, want, chain) ==
    IF Disagrees(edits[e].src, h[h[p].kids[i]], want)
    THEN LET g == SetDerived(h, edits[e].id, p, i, want)
         IN  IF chain = 0 THEN g ELSE MarkDirty(g, chain)
    ELSE h

(* The count of the array on top of the stack, one name or two.               *)
CountWritten(e) ==
    LET n == nodes[Top(e).n]
        path == n.determines
        d == Holder(edits[e].stack, path[1])
        p == edits[e].stack[d].n
        i == First(Named(nodes, p, path[1]))
        want == Len(n.kids)
        inner == Owned(nodes, edits[e].id, nodes[p].kids[i])
        h == OwnKid(nodes, edits[e].id, p, i)
    IN  IF path = <<>> \/ d = 0 THEN nodes
        ELSE IF Len(path) = 1 THEN Derived(nodes, e, p, i, want, 0)
        ELSE IF Named(h, inner, path[2]) = {} THEN h
        ELSE Derived(h, e, inner, First(Named(h, inner, path[2])), want, inner)

SettleCount(e) ==
    /\ Settling(e) /\ nodes[Top(e).n].derives = "HasCount"
    /\ nodes' = CountWritten(e)
    /\ edits' = Popped(e)
    /\ UNCHANGED <<docs, tokens, shown>>

(* Mutant: the size field is counted into its own window.                     *)
WindowWithItself(e, p, i) ==
    Len(FlattenSeq([j \in 1 .. Len(nodes[p].kids) - i + 1 |->
                       Emit(nodes, edits[e].src, nodes[p].kids[i + j - 1])]))

(* How many bytes follow kid i of p inside p.                                 *)
Window(e, p, i) ==
    Len(FlattenSeq([j \in 1 .. Len(nodes[p].kids) - i |->
                       Emit(nodes, edits[e].src, nodes[p].kids[i + j])]))

SettleWindow(e) ==
    /\ Settling(e) /\ nodes[Top(e).n].derives = "HasRestSize"
    /\ LET p == Top(e).n
           sizes == Named(nodes, p, nodes[p].determines[1])
       IN  IF sizes = {} THEN UNCHANGED nodes
           ELSE LET window == Window(e, p, First(sizes))
                IN  /\ window \in 0 .. MaxBytes
                    /\ nodes' = Derived(nodes, e, p, First(sizes), window, 0)
    /\ edits' = Popped(e)
    /\ UNCHANGED <<docs, tokens, shown>>

SettleNothing(e) ==
    /\ Settling(e) /\ nodes[Top(e).n].derives = "Nothing"
    /\ edits' = Popped(e)
    /\ UNCHANGED <<nodes, docs, tokens, shown>>

Walked(e) == Walking(e) /\ edits[e].stack = <<>>

(* The document takes the root; the transient is dead.                        *)
CommitDone(e) ==
    /\ Walked(e) /\ edits[e].mode = "commit"
    /\ docs' = Append(docs, [root |-> edits[e].root, src |-> edits[e].src,
                             from |-> edits[e].from])
    /\ edits' = [edits EXCEPT ![e] = Dead]
    /\ UNCHANGED <<nodes, tokens, shown>>

SerializeDone(e) ==
    /\ Walked(e) /\ edits[e].mode = "serialize"
    /\ edits' = [edits EXCEPT ![e].mode = "edit"]
    /\ shown' = [shown EXCEPT ![e] =
                   <<EmitDocument(nodes, edits[e].src, edits[e].root)>>]
    /\ UNCHANGED <<nodes, docs, tokens>>

----------------------------------------------------------------------------

Init ==
    /\ nodes = Heap0
    /\ docs = Docs0
    /\ edits = [e \in Slots |-> Dead]
    /\ tokens = 1
    /\ shown = [e \in Slots |-> <<>>]

Edit(e) ==
    \/ \E i \in HereKids(e), v \in Values : SetInt(e, i, v)
    \/ \E i \in HereKids(e), b \in Blobs : SetBytes(e, i, b)
    \/ \E b \in Blobs : Splice(e, b)
    \/ \E elem \in Elems, v \in Values : AppendInt(e, elem, v)
    \/ \E d \in 1 .. Len(docs) : \E x \in Lifts(d) : AppendNode(e, d, x)
    \/ \E d \in 1 .. Len(docs) : \E x \in Lifts(d) :
           \E i \in HereKids(e) : ReplaceKid(e, i, d, x)
    \/ \E i \in HereKids(e) : RemoveKid(e, i)

Walk(e) ==
    \/ SkipKid(e) \/ EnterKid(e) \/ RestoreKid(e)
    \/ SettleCount(e) \/ SettleWindow(e) \/ SettleNothing(e)
    \/ CommitDone(e) \/ SerializeDone(e)

Next ==
    \E e \in Slots :
        \/ \E d \in 1 .. Len(docs) : BeginEdit(e, d)
        \/ RootMut(e)
        \/ \E i \in HereKids(e) : OwnChild(e, i)
        \/ Edit(e)
        \/ Commit(e) \/ Serialize(e)
        \/ Walk(e)

Spec == Init /\ [][Next]_vars

(* A thread inside commit() or serialize() keeps running.                     *)
FairSpec == Spec /\ \A e \in Slots : WF_vars(Walk(e))

----------------------------------------------------------------------------
(* What must hold of the heap the versions share.                             *)

(* A node belongs to the transient whose id it carries, while that one lives. *)
Frozen(n) == nodes[n].owner \notin LiveIds

(* Structure is shared, writes are not (commit's contract, Def 4.5): what any *)
(* document or any other version can reach is a node no live transient may    *)
(* write, and a transient reaches its own nodes and such nodes only.          *)
Isolated ==
    /\ \A d \in 1 .. Len(docs) : Frozen(docs[d].root)
    /\ \A n \in 1 .. Len(nodes) : \A i \in 1 .. Len(nodes[n].kids) :
           \/ Frozen(nodes[n].kids[i])
           \/ nodes[nodes[n].kids[i]].owner = nodes[n].owner
    /\ \A e \in Slots : edits[e].id # 0 =>
           \/ Frozen(edits[e].root)
           \/ nodes[edits[e].root].owner = edits[e].id

(* No step, of the walk included, writes a node that is frozen; what one      *)
(* transient does leaves the nodes of the others alone.                       *)
FrozenStep ==
    [][\A n \in 1 .. Len(nodes) : Frozen(n) => nodes'[n] = nodes[n]]_vars

(* commit() and serialize() come to an end however the tree was put together. *)
WalkEnds == \A e \in Slots : Walking(e) ~> ~Walking(e)

(* The inductive invariant behind them.                                       *)
TypeOK ==
    /\ nodes \in Seq(Node) /\ docs \in Seq(Document)
    /\ edits \in [Slots -> Transient] /\ tokens \in Nat \ {0}
    /\ \A n \in 1 .. Len(nodes) : \A i \in 1 .. Len(nodes[n].kids) :
           nodes[n].kids[i] \in 1 .. Len(nodes)
    /\ \A d \in 1 .. Len(docs) : docs[d].root \in 1 .. Len(nodes)

(* Owner tokens are never handed out twice.                                   *)
TokensFresh ==
    /\ \A n \in 1 .. Len(nodes) : nodes[n].owner < tokens
    /\ \A e \in Slots : edits[e].id < tokens
    /\ \A e, f \in Slots : edits[e].id = edits[f].id /\ edits[e].id # 0 => e = f

(* The pointers a transient holds, the walk's stack included, are to nodes    *)
(* it owns; a dead one holds none.                                            *)
HandlesOwned ==
    \A e \in Slots :
        /\ edits[e].id = 0 => edits[e] = Dead
        /\ edits[e].id # 0 => edits[e].root \in 1 .. Len(nodes)
        /\ edits[e].at # 0 => /\ edits[e].at \in 1 .. Len(nodes)
                              /\ nodes[edits[e].at].owner = edits[e].id
        /\ \A j \in 1 .. Len(edits[e].stack) :
               /\ edits[e].stack[j].n \in 1 .. Len(nodes)
               /\ nodes[edits[e].stack[j].n].owner = edits[e].id

IInv == TypeOK /\ TokensFresh /\ HandlesOwned /\ Isolated

=============================================================================
