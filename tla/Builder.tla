------------------------------ MODULE Builder ------------------------------
(***************************************************************************)
(* The document builder of backends/cpp/runtime/CaptureCow.h              *)
(* (bbq::zcow::builder): the half-built tree a parser records its captures *)
(* in, with open scopes, marks and restores.  A C++ node pointer is a      *)
(* position in b.nodes, which only grows: nodes the code frees on restore  *)
(* stay there, unreachable.  A name or path the code leaves null is "" or  *)
(* <<>>.  Every operator takes the builder before a call and yields the    *)
(* builder after it; lookups yield the set of nodes found, {} for nullptr  *)
(* and never more than one.                                                *)
(***************************************************************************)
EXTENDS Integers, Sequences

-----------------------------------------------------------------------------
(* Values: the machine's typed accumulator values and, without "cap", the  *)
(* neutral ComputedValue a node carries.  An interned string is its number *)
(* in the pool, numbered in strcmp order; "cap" points at a node.          *)

Value == [t : {"null", "int", "bool", "str", "cap"}, v : Int]
Null == [t |-> "null", v |-> 0]
IntV(i) == [t |-> "int", v |-> i]
BoolV(p) == [t |-> "bool", v |-> IF p THEN 1 ELSE 0]
Cap(id) == [t |-> "cap", v |-> id]

(* CaptureType: k names the family; width, sign and byte order are part of *)
(* the type of a fixed-width integer and 0/FALSE elsewhere.                *)
CaptureKinds == {"Int", "Bool", "Bytes", "String", "Struct", "Array",
                 "Computed", "External"}
CaptureType == [k : CaptureKinds, width : {0, 1, 2, 4},
                signed : BOOLEAN, le : BOOLEAN]
Plain(k) == [k |-> k, width |-> 0, signed |-> FALSE, le |-> FALSE]

Bits == [entry : BOOLEAN, start : Int, end : Int, signed : BOOLEAN]
NoBits == [entry |-> FALSE, start |-> 0, end |-> 0, signed |-> FALSE]

(* What a scope determines: the field holding its element count or the     *)
(* byte length of the rest of it, and whether it is a bitfield run.        *)
Annotation == [derives : {"Nothing", "HasCount", "HasRestSize"},
               determines : Seq(STRING), run : {"none", "msb", "lsb"}]
NoAnnotation == [derives |-> "Nothing", determines |-> <<>>, run |-> "none"]

Name == STRING \cup {""}    \* "" stands for nullptr
Node == [name : Name, type : CaptureType, start : Nat, end : Nat, tag : Int,
         val : Value, kids : Seq(Nat), enc : {"Fixed", "Uleb", "Sleb"},
         bits : Bits, ann : Annotation]
FreshNode(name, type, start, end, tag) ==
  [name |-> name, type |-> type, start |-> start, end |-> end, tag |-> tag,
   val |-> Null, kids |-> <<>>, enc |-> "Fixed", bits |-> NoBits,
   ann |-> NoAnnotation]

BuilderState == [nodes : Seq(Node), stack : Seq(Nat), roots : Seq(Nat),
                 tag : Int, count : Seq(STRING), root : Annotation]

(* clear(): the builder execute_from starts with.                          *)
EmptyBuilder == [nodes |-> <<>>, stack |-> <<>>, roots |-> <<>>,
                 tag |-> -1, count |-> <<>>, root |-> NoAnnotation]

-----------------------------------------------------------------------------
Innermost(b) == b.stack[Len(b.stack)]
SetNode(b, id, n) == [b EXCEPT !.nodes = [@ EXCEPT ![id] = n]]

(* The children of the scope at depth d; depth 0 is the top level.         *)
KidsAt(b, d) == IF d = 0 THEN b.roots ELSE b.nodes[b.stack[d]].kids
SetKidsAt(b, d, kids) ==
  IF d = 0 THEN [b EXCEPT !.roots = kids]
           ELSE SetNode(b, b.stack[d],
                        [b.nodes[b.stack[d]] EXCEPT !.kids = kids])

Mark == [depth : Nat, kids : Nat]
mark(b) == [depth |-> Len(b.stack), kids |-> Len(KidsAt(b, Len(b.stack)))]

Shorten(s, n) == IF n < Len(s) THEN SubSeq(s, 1, n) ELSE s

(* Mutants of restore: one that forgets open scopes only, one that forgets *)
(* children only.                                                          *)
restore_scopes_only(b, m) == [b EXCEPT !.stack = Shorten(@, m.depth)]
restore_kids_only(b, m) ==
  LET d == Len(b.stack)
  IN  SetKidsAt(b, d, Shorten(KidsAt(b, d), m.kids))

(* restore forgets open scopes and attached children.  It leaves the       *)
(* pending tag, the pending count field and the annotations alone.         *)
restore(b, m) ==
  LET cut == [b EXCEPT !.stack = Shorten(@, m.depth)]
      d == Len(cut.stack)
  IN  SetKidsAt(cut, d, Shorten(KidsAt(cut, d), m.kids))

current_scope_start(b) ==
  IF b.stack = <<>> THEN 0 ELSE b.nodes[Innermost(b)].start

-----------------------------------------------------------------------------
(* Scopes.                                                                 *)

Allocate(b, n) == [b EXCEPT !.nodes = Append(@, n)]

open(b, n) ==
  [Allocate(b, n) EXCEPT !.stack = Append(@, Len(b.nodes) + 1)]

attach(b, id) ==
  SetKidsAt(b, Len(b.stack), Append(KidsAt(b, Len(b.stack)), id))

begin_struct(b, name, pos) ==
  [open(b, FreshNode(name, Plain("Struct"), pos, pos, b.tag)) EXCEPT !.tag = -1]

begin_array(b, name, pos) ==
  LET n == FreshNode(name, Plain("Array"), pos, pos, b.tag)
      a == [derives |-> "HasCount", determines |-> b.count, run |-> "none"]
  IN  [open(b, [n EXCEPT !.ann = IF b.count = <<>> THEN @ ELSE a])
         EXCEPT !.tag = -1, !.count = <<>>]

begin_variant(b, name, pos, tag) ==
  open(b, FreshNode(name, Plain("Struct"), pos, pos, tag))

(* end_struct and end_array are both close(): nothing to close, no effect. *)
close(b, pos) ==
  LET id == Innermost(b)
      ended == SetNode(b, id, [b.nodes[id] EXCEPT !.end = pos])
  IN  IF b.stack = <<>> THEN b
      ELSE attach([ended EXCEPT !.stack = SubSeq(@, 1, Len(@) - 1)], id)

(* Annotate the innermost open scope, or the wrapper finish() will build.  *)
ScopeAnnotation(b) ==
  IF b.stack = <<>> THEN b.root ELSE b.nodes[Innermost(b)].ann
Annotate(b, a) ==
  IF b.stack = <<>> THEN [b EXCEPT !.root = a]
  ELSE SetNode(b, Innermost(b), [b.nodes[Innermost(b)] EXCEPT !.ann = a])

scope_is_bits_run(b, msb_first) ==
  Annotate(b, [ScopeAnnotation(b) EXCEPT
                 !.run = IF msb_first THEN "msb" ELSE "lsb"])

scope_determines_rest(b, path) ==
  Annotate(b, [ScopeAnnotation(b) EXCEPT !.derives = "HasRestSize",
                                         !.determines = path])

set_pending_variant_tag(b, tag) == [b EXCEPT !.tag = tag]
set_pending_count_field(b, path) == [b EXCEPT !.count = path]

-----------------------------------------------------------------------------
(* Leaves.  add_field records a copy of carrier c, the free node a         *)
(* producer left in the accumulator, under a name: CaptureKont keeps the   *)
(* value of a Computed carrier only, and its bits and encoding.            *)

add_field(b, name, c) ==
  LET n == [FreshNode(name, c.type, c.start, c.end, b.tag) EXCEPT
              !.val = IF c.type.k = "Computed" THEN c.val ELSE Null,
              !.enc = c.enc, !.bits = c.bits]
  IN  [attach(Allocate(b, n), Len(b.nodes) + 1) EXCEPT !.tag = -1]

(* make_free: a node carried as a value, not (yet) in the tree.            *)
make_free(b, n) == Allocate(b, n)
FreeId(b) == Len(b.nodes) + 1

-----------------------------------------------------------------------------
(* Mid-parse lookup: the most recent child of that name in the innermost   *)
(* open scope that has one, the top level being the outermost.             *)

HasKid(b, d, name) ==
  \E i \in DOMAIN KidsAt(b, d) : b.nodes[KidsAt(b, d)[i]].name = name

find_field(b, name) ==
  {id \in DOMAIN b.nodes :
     /\ b.nodes[id].name = name
     /\ \E d \in 0..Len(b.stack) :
          /\ \A e \in (d + 1)..Len(b.stack) : ~HasKid(b, e, name)
          /\ \E i \in DOMAIN KidsAt(b, d) :
               /\ KidsAt(b, d)[i] = id
               /\ \A j \in (i + 1)..Len(KidsAt(b, d)) :
                    b.nodes[KidsAt(b, d)[j]].name # name}

find_child(b, parent, name) ==
  LET kids == b.nodes[parent].kids
  IN  {id \in DOMAIN b.nodes :
         \E i \in DOMAIN kids :
           /\ kids[i] = id /\ b.nodes[id].name = name
           /\ \A j \in 1..(i - 1) : b.nodes[kids[j]].name # name}

find_child_at(b, parent, index) ==
  LET kids == b.nodes[parent].kids
  IN  {id \in DOMAIN b.nodes :
         /\ 0 <= index /\ index < Len(kids)
         /\ kids[index + 1] = id}
=============================================================================
