---------------------------- MODULE DocumentLaws ----------------------------
(* The laws a document keeps: what it serializes to is a sentence of its      *)
(* grammar saying what the edits said, an edit that changes nothing leaves    *)
(* nothing behind, and no version is disturbed by another.                    *)
EXTENDS Layouts

CONSTANT Grammar    \* of each source, the grammar it was parsed by

BytesOfDoc(h, doc) == EmitDocument(h, doc.src, doc.root)
ValueOfDoc(h, doc) == ValueOf(h, doc.src, doc.root)

(* PutGet: what commit() and serialize() put out parses, whole, to the value  *)
(* the edited tree reads as, its counts and window sizes included.            *)
Accepted ==
    \A e \in Slots : Walked(e) =>
        LET r == Parsed(Grammar[edits[e].src], EmitDocument(nodes, edits[e].src, edits[e].root))
        IN  Sentence(r) /\ r.val = ValueOf(nodes, edits[e].src, edits[e].root)

(* GetPut: a version that reads as the one it was edited from, however many   *)
(* writes and serializations it took to get back there, is the same bytes.    *)
WriteBack ==
    \A d \in 1 .. Len(docs) : docs[d].from # 0 =>
        (ValueOfDoc(nodes, docs[d]) = ValueOfDoc(nodes, docs[docs[d].from])
            => BytesOfDoc(nodes, docs[d]) = BytesOfDoc(nodes, docs[docs[d].from]))

(* A version that resized nothing differs from the input in the leaves whose  *)
(* values differ and nowhere else: the bytes no field covers stay put.        *)
GapsKept ==
    \A d \in 1 .. Len(docs) :
        LET input == Sources[docs[d].src]
            bytes == BytesOfDoc(nodes, docs[d])
            changed == Changed(nodes, docs[d].root)
            written == {n \in changed :
                           /\ nodes[n].kids = <<>>
                           /\ IF nodes[n].type = "Bytes"
                              THEN nodes[n].bval # Span(docs[d].src, nodes[n])
                              ELSE nodes[n].ival # Decode(docs[d].src, nodes[n])}
        IN  (/\ \A n \in changed : ~nodes[n].resized
             /\ \A n \in written : Len(Encode(nodes[n])) = nodes[n].e - nodes[n].s)
               => /\ Len(bytes) = Len(input)
                  /\ \A p \in 1 .. Len(bytes) :
                         \/ bytes[p] = input[p]
                         \/ \E n \in written : p \in nodes[n].s + 1 .. nodes[n].e

(* Serializing repeats without drifting: with no edit in between, a second    *)
(* serialize() and the commit() answer with the bytes of the first.           *)
SameAnswer ==
    \A e \in Slots : (Walked(e) /\ shown[e] # <<>>) =>
        EmitDocument(nodes, edits[e].src, edits[e].root) = shown[e][1]

(* Versions are persistent: whatever is done to a transient, no document that *)
(* exists serializes to different bytes afterwards.                           *)
Persistent ==
    [][\A d \in 1 .. Len(docs) : BytesOfDoc(nodes', docs[d]) = BytesOfDoc(nodes, docs[d])]_vars

(* An element lifted out of a document with append(node_ptr) reads, where it  *)
(* arrives, as it did where it came from.                                     *)
LiftsKeepTheirValue ==
    [][\A e \in Slots, d \in 1 .. Len(docs) : \A x \in Lifts(d) :
          AppendNode(e, d, x) =>
              ValueOf(nodes, edits[e].src, x) = ValueOf(nodes, docs[d].src, x)]_vars

=============================================================================
