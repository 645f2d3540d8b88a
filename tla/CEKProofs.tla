----------------------------- MODULE CEKProofs -----------------------------
(***************************************************************************)
(* IInv is an inductive invariant of the CEK machine, whatever the program *)
(* and the input; the properties of CEKProps that hold of every well-      *)
(* formed program follow from it.  First come lemmas about the values,     *)
(* nodes and builder operators of module Builder, stated with the sets of  *)
(* module CEKInv: a builder call on a good builder yields a good builder,  *)
(* and node numbers stay valid.                                            *)
(***************************************************************************)
EXTENDS CEKInv, SequenceTheorems, TLAPS

-----------------------------------------------------------------------------
(* Sequences.                                                              *)

(* The prefix of a sequence is one of the same elements.                   *)
LEMMA PrefixSeq ==
  ASSUME NEW S, NEW s \in Seq(S), NEW n \in 0..Len(s)
  PROVE  /\ SubSeq(s, 1, n) \in Seq(S)
         /\ Len(SubSeq(s, 1, n)) = n
         /\ \A i \in 1..n : SubSeq(s, 1, n)[i] = s[i]
<1>1. \A i \in 1..n : s[i] \in S
  BY ElementOfSeq, LenProperties, SMT
<1>2. Len(s) \in Nat
  BY LenProperties
<1>. QED
  BY <1>1, <1>2, SubSeqProperties, SMT

(* Shorten, vector::resize to a smaller size, keeps the elements' set.     *)
LEMMA ShortenSeq ==
  ASSUME NEW S, NEW s \in Seq(S), NEW n \in Nat
  PROVE  Shorten(s, n) \in Seq(S)
BY PrefixSeq, LenProperties, SMT DEF Shorten

-----------------------------------------------------------------------------
(* Values.                                                                 *)

(* What the expression konts deliver is a good value.                      *)
LEMMA GoodValues ==
  ASSUME NEW n \in Nat
  PROVE  /\ Null \in Scalar
         /\ \A i \in Int : IntV(i) \in Scalar
         /\ \A p : BoolV(p) \in Scalar
         /\ Scalar \subseteq GoodValue(n)
         /\ \A id \in 1..n : Cap(id) \in GoodValue(n)
         /\ GoodValue(n) \subseteq Value
         /\ \A m \in Nat : n <= m => GoodValue(n) \subseteq GoodValue(m)
BY SMT DEF Null, IntV, BoolV, Cap, Scalar, GoodValue, Value

-----------------------------------------------------------------------------
(* Nodes.                                                                  *)

(* A good node stays good when more nodes are allocated.                   *)
LEMMA NodeMonotonic ==
  ASSUME NEW n \in Nat, NEW m \in Nat, n <= m, NEW len \in Nat
  PROVE  GoodNode(n, len) \subseteq GoodNode(m, len)
<1>1. 1..n \subseteq 1..m
  BY SMT
<1>2. \A x \in GoodNode(n, len) : x.kids \in Seq(1..m)
  BY <1>1, SeqMonotonic DEF GoodNode
<1>. QED
  BY <1>2, SMT DEF GoodNode

(* A new node without children, over a span of the buffer.                 *)
LEMMA FreshNodeGood ==
  ASSUME NEW n \in Nat, NEW len \in Nat, NEW name \in Name,
         NEW type \in CaptureType, NEW start \in 0..len, NEW end \in 0..len,
         NEW tag \in Int,
         type.k = "Int" => type.width \in {1, 2, 4} /\ start + type.width <= len,
         type.k = "Bool" => start < len
  PROVE  FreshNode(name, type, start, end, tag) \in GoodNode(n, len)
<1>1. <<>> \in Seq(Nat) /\ <<>> \in Seq(1..n) /\ <<>> \in Seq(STRING)
  BY EmptySeq
<1>2. NoAnnotation \in Annotation /\ NoBits \in Bits
  BY <1>1, SMT DEF NoAnnotation, Annotation, NoBits, Bits
<1>3. Null \in Scalar /\ Scalar \subseteq Value
  BY SMT DEF Null, Scalar, Value
<1>4. start \in Nat /\ end \in Nat /\ start <= len /\ end <= len
  BY SMT
<1>. QED
  BY <1>1, <1>2, <1>3, <1>4, Zenon DEF FreshNode, GoodNode, Node

(* The members of a node that may change without making it bad.            *)
LEMMA NodeExceptGood ==
  ASSUME NEW n \in Nat, NEW len \in Nat, NEW x \in GoodNode(n, len)
  PROVE  /\ \A kids \in Seq(1..n) : [x EXCEPT !.kids = kids] \in GoodNode(n, len)
         /\ \A end \in 0..len : [x EXCEPT !.end = end] \in GoodNode(n, len)
         /\ \A a \in Annotation : [x EXCEPT !.ann = a] \in GoodNode(n, len)
         /\ \A v \in Scalar : [x EXCEPT !.val = v] \in GoodNode(n, len)
         /\ \A e \in {"Fixed", "Uleb", "Sleb"} :
              [x EXCEPT !.enc = e] \in GoodNode(n, len)
         /\ \A e \in Bits : [x EXCEPT !.bits = e] \in GoodNode(n, len)
<1>1. \A kids \in Seq(1..n) : kids \in Seq(Nat)
  <2>1. 1..n \subseteq Nat
    BY SMT
  <2>. QED
    BY <2>1, SeqMonotonic
<1>2. Scalar \subseteq Value
  BY DEF Scalar
<1>3. \A kids \in Seq(1..n) : [x EXCEPT !.kids = kids] \in GoodNode(n, len)
  BY <1>1, Zenon DEF GoodNode, Node
<1>4. \A end \in 0..len : [x EXCEPT !.end = end] \in GoodNode(n, len)
  BY SMTT(60) DEF GoodNode, Node
<1>5. \A a \in Annotation : [x EXCEPT !.ann = a] \in GoodNode(n, len)
  BY Zenon DEF GoodNode, Node
<1>6. \A v \in Scalar : [x EXCEPT !.val = v] \in GoodNode(n, len)
  BY <1>2, Zenon DEF GoodNode, Node
<1>7. \A e \in {"Fixed", "Uleb", "Sleb"} :
        [x EXCEPT !.enc = e] \in GoodNode(n, len)
  BY SMT DEF GoodNode, Node
<1>8. \A e \in Bits : [x EXCEPT !.bits = e] \in GoodNode(n, len)
  BY Zenon DEF GoodNode, Node
<1>. QED
  BY <1>3, <1>4, <1>5, <1>6, <1>7, <1>8

-----------------------------------------------------------------------------
(* Builders.                                                               *)

(* What a good builder's parts are.                                        *)
LEMMA BuilderFacts ==
  ASSUME NEW len \in Nat, NEW b \in GoodBuilder(len)
  PROVE  /\ Len(b.nodes) \in Nat /\ Len(b.stack) \in Nat
         /\ b.nodes \in Seq(GoodNode(Len(b.nodes), len))
         /\ DOMAIN b.nodes = 1..Len(b.nodes)
         /\ \A i \in 1..Len(b.nodes) :
              b.nodes[i] \in GoodNode(Len(b.nodes), len)
         /\ \A d \in 1..Len(b.stack) : b.stack[d] \in 1..Len(b.nodes)
<1>1. /\ b.nodes \in Seq(GoodNode(Len(b.nodes), len))
      /\ b.stack \in Seq(1..Len(b.nodes))
  BY DEF GoodBuilder
<1>. QED
  BY <1>1, LenProperties, ElementOfSeq

(* Replacing a node by a good node.                                        *)
LEMMA ReplaceNode ==
  ASSUME NEW len \in Nat, NEW b \in GoodBuilder(len),
         NEW id \in 1..Len(b.nodes), NEW x \in GoodNode(Len(b.nodes), len)
  PROVE  /\ SetNode(b, id, x) \in GoodBuilder(len)
         /\ Len(SetNode(b, id, x).nodes) = Len(b.nodes)
         /\ SetNode(b, id, x).stack = b.stack
<1> DEFINE ns == [b.nodes EXCEPT ![id] = x]
<1>1. b.nodes \in Seq(GoodNode(Len(b.nodes), len))
  BY DEF GoodBuilder
<1>2. ns \in Seq(GoodNode(Len(b.nodes), len)) /\ Len(ns) = Len(b.nodes)
  BY <1>1, ExceptSeq
<1>3. ns \in Seq(Node)
  BY <1>2, SeqMonotonic DEF GoodNode
<1> HIDE DEF ns
<1>4. LET c == [b EXCEPT !.nodes = ns]
      IN  /\ c \in GoodBuilder(len) /\ Len(c.nodes) = Len(b.nodes)
          /\ c.stack = b.stack
  BY <1>2, <1>3, Zenon DEF GoodBuilder, BuilderState
<1>. QED
  BY <1>4 DEF ns, SetNode

(* Allocating a node.                                                      *)
LEMMA AllocateGood ==
  ASSUME NEW len \in Nat, NEW b \in GoodBuilder(len),
         NEW x \in GoodNode(Len(b.nodes) + 1, len)
  PROVE  /\ Allocate(b, x) \in GoodBuilder(len)
         /\ Len(Allocate(b, x).nodes) = Len(b.nodes) + 1
         /\ Allocate(b, x).stack = b.stack
         /\ Allocate(b, x).nodes[Len(b.nodes) + 1] = x
<1> DEFINE n == Len(b.nodes)
           ns == Append(b.nodes, x)
<1>1. n \in Nat /\ b.nodes \in Seq(GoodNode(n, len))
  BY BuilderFacts
<1>2. b.nodes \in Seq(GoodNode(n + 1, len))
  <2>1. GoodNode(n, len) \subseteq GoodNode(n + 1, len)
    BY <1>1, NodeMonotonic, SMT
  <2>. QED
    BY <1>1, <2>1, SeqMonotonic
<1>3. ns \in Seq(GoodNode(n + 1, len)) /\ Len(ns) = n + 1 /\ ns[n + 1] = x
  BY <1>2, AppendProperties
<1>4. ns \in Seq(Node)
  BY <1>3, SeqMonotonic DEF GoodNode
<1>5. b.stack \in Seq(1..(n + 1)) /\ b.roots \in Seq(1..(n + 1))
  <2>1. 1..n \subseteq 1..(n + 1)
    BY <1>1, SMT
  <2>2. b.stack \in Seq(1..n) /\ b.roots \in Seq(1..n)
    BY DEF GoodBuilder
  <2>. QED
    BY <2>1, <2>2, SeqMonotonic
<1> HIDE DEF ns
<1>6. LET c == [b EXCEPT !.nodes = ns]
      IN  /\ c \in GoodBuilder(len) /\ Len(c.nodes) = n + 1
          /\ c.stack = b.stack /\ c.nodes[n + 1] = x
  BY <1>3, <1>4, <1>5, SMTT(60) DEF GoodBuilder, BuilderState
<1>. QED
  BY <1>6 DEF Allocate, ns

(* The children of an open scope.                                          *)
LEMMA KidsGood ==
  ASSUME NEW len \in Nat, NEW b \in GoodBuilder(len),
         NEW d \in 0..Len(b.stack)
  PROVE  /\ KidsAt(b, d) \in Seq(1..Len(b.nodes))
         /\ Len(KidsAt(b, d)) \in Nat
<1>1. CASE d = 0
  BY <1>1, LenProperties DEF KidsAt, GoodBuilder
<1>2. CASE d # 0
  <2>1. d \in 1..Len(b.stack)
    BY <1>2, BuilderFacts, SMT
  <2>2. b.nodes[b.stack[d]] \in GoodNode(Len(b.nodes), len)
    BY <2>1, BuilderFacts
  <2>. QED
    BY <1>2, <2>2, LenProperties DEF KidsAt, GoodNode
<1>. QED
  BY <1>1, <1>2

(* Giving an open scope other children.                                    *)
LEMMA SetKidsGood ==
  ASSUME NEW len \in Nat, NEW b \in GoodBuilder(len),
         NEW d \in 0..Len(b.stack), NEW kids \in Seq(1..Len(b.nodes))
  PROVE  /\ SetKidsAt(b, d, kids) \in GoodBuilder(len)
         /\ Len(SetKidsAt(b, d, kids).nodes) = Len(b.nodes)
<1>1. CASE d = 0
  <2>1. kids \in Seq(Nat)
    <3>1. 1..Len(b.nodes) \subseteq Nat
      BY BuilderFacts, SMT
    <3>. QED
      BY <3>1, SeqMonotonic
  <2>2. /\ [b EXCEPT !.roots = kids] \in GoodBuilder(len)
        /\ Len([b EXCEPT !.roots = kids].nodes) = Len(b.nodes)
    BY <2>1, Zenon DEF GoodBuilder, BuilderState
  <2>. QED
    BY <1>1, <2>2 DEF SetKidsAt
<1>2. CASE d # 0
  <2> DEFINE id == b.stack[d]
  <2>1. d \in 1..Len(b.stack)
    BY <1>2, BuilderFacts, SMT
  <2>2. id \in 1..Len(b.nodes) /\ Len(b.nodes) \in Nat
        /\ b.nodes[id] \in GoodNode(Len(b.nodes), len)
    BY <2>1, BuilderFacts
  <2>3. [b.nodes[id] EXCEPT !.kids = kids] \in GoodNode(Len(b.nodes), len)
    BY <2>2, NodeExceptGood
  <2>. QED
    BY <1>2, <2>2, <2>3, ReplaceNode DEF SetKidsAt
<1>. QED
  BY <1>1, <1>2

(* mark() counts what restore() will keep.                                 *)
LEMMA MarkType ==
  ASSUME NEW len \in Nat, NEW b \in GoodBuilder(len)
  PROVE  mark(b) \in Mark
<1>1. Len(b.stack) \in Nat /\ Len(b.stack) \in 0..Len(b.stack)
  BY BuilderFacts, SMT
<1>2. Len(KidsAt(b, Len(b.stack))) \in Nat
  BY <1>1, KidsGood
<1>. QED
  BY <1>1, <1>2 DEF mark, Mark

(* Cutting the scope stack.                                                *)
LEMMA CutStackGood ==
  ASSUME NEW len \in Nat, NEW b \in GoodBuilder(len),
         NEW s \in Seq(1..Len(b.nodes))
  PROVE  /\ [b EXCEPT !.stack = s] \in GoodBuilder(len)
         /\ Len([b EXCEPT !.stack = s].nodes) = Len(b.nodes)
         /\ [b EXCEPT !.stack = s].stack = s
<1>1. s \in Seq(Nat)
  <2>1. 1..Len(b.nodes) \subseteq Nat
    BY BuilderFacts, SMT
  <2>. QED
    BY <2>1, SeqMonotonic
<1>. QED
  BY <1>1, Zenon DEF GoodBuilder, BuilderState

(* restore() of any mark: the scopes and children left still exist.        *)
LEMMA RestoreGood ==
  ASSUME NEW len \in Nat, NEW b \in GoodBuilder(len), NEW m \in Mark
  PROVE  /\ restore(b, m) \in GoodBuilder(len)
         /\ Len(restore(b, m).nodes) = Len(b.nodes)
<1> DEFINE cut == [b EXCEPT !.stack = Shorten(b.stack, m.depth)]
           d == Len(cut.stack)
           kids == Shorten(KidsAt(cut, d), m.kids)
<1>1. m.depth \in Nat /\ m.kids \in Nat
  BY DEF Mark
<1>2. Shorten(b.stack, m.depth) \in Seq(1..Len(b.nodes))
  BY <1>1, ShortenSeq DEF GoodBuilder
<1>3. cut \in GoodBuilder(len) /\ Len(cut.nodes) = Len(b.nodes)
  BY <1>2, CutStackGood
<1>4. d \in 0..Len(cut.stack)
  BY <1>3, BuilderFacts, SMT
<1>5. kids \in Seq(1..Len(cut.nodes))
  BY <1>1, <1>3, <1>4, KidsGood, ShortenSeq
<1>6. restore(b, m) = SetKidsAt(cut, d, kids)
  BY DEF restore
<1> HIDE DEF cut, d, kids
<1>. QED
  BY <1>3, <1>4, <1>5, <1>6, SetKidsGood

(* The innermost open scope.                                               *)
LEMMA InnermostGood ==
  ASSUME NEW len \in Nat, NEW b \in GoodBuilder(len), b.stack # <<>>
  PROVE  /\ Innermost(b) \in 1..Len(b.nodes)
         /\ b.nodes[Innermost(b)] \in GoodNode(Len(b.nodes), len)
         /\ Len(b.stack) \in Nat \ {0}
<1>1. Len(b.stack) \in Nat \ {0}
  BY EmptySeq DEF GoodBuilder
<1>2. Len(b.stack) \in 1..Len(b.stack)
  BY <1>1, SMT
<1>. QED
  BY <1>1, <1>2, BuilderFacts DEF Innermost

(* @start is a position of the buffer.                                     *)
LEMMA ScopeStartInBuffer ==
  ASSUME NEW len \in Nat, NEW b \in GoodBuilder(len)
  PROVE  current_scope_start(b) \in 0..len
<1>1. CASE b.stack = <<>>
  BY <1>1, SMT DEF current_scope_start
<1>2. CASE b.stack # <<>>
  <2>1. b.nodes[Innermost(b)] \in GoodNode(Len(b.nodes), len)
    BY <1>2, InnermostGood
  <2>2. b.nodes[Innermost(b)].start \in Nat /\ b.nodes[Innermost(b)].start <= len
    BY <2>1, Zenon DEF GoodNode, Node
  <2>. QED
    BY <1>2, <2>2, SMT DEF current_scope_start
<1>. QED
  BY <1>1, <1>2

(* The members of a builder no node number occurs in.                      *)
LEMMA PendingGood ==
  ASSUME NEW len \in Nat, NEW b \in GoodBuilder(len)
  PROVE  /\ \A tag \in Int :
              /\ [b EXCEPT !.tag = tag] \in GoodBuilder(len)
              /\ [b EXCEPT !.tag = tag].nodes = b.nodes
         /\ \A path \in Seq(STRING) :
              /\ [b EXCEPT !.count = path] \in GoodBuilder(len)
              /\ [b EXCEPT !.count = path].nodes = b.nodes
         /\ \A a \in Annotation :
              /\ [b EXCEPT !.root = a] \in GoodBuilder(len)
              /\ [b EXCEPT !.root = a].nodes = b.nodes
BY Zenon DEF GoodBuilder, BuilderState

(* Opening a scope.                                                        *)
LEMMA OpenGood ==
  ASSUME NEW len \in Nat, NEW b \in GoodBuilder(len),
         NEW x \in GoodNode(Len(b.nodes) + 1, len)
  PROVE  /\ open(b, x) \in GoodBuilder(len)
         /\ Len(open(b, x).nodes) = Len(b.nodes) + 1
<1> DEFINE c == Allocate(b, x)
           s == Append(c.stack, Len(b.nodes) + 1)
<1>1. c \in GoodBuilder(len) /\ Len(c.nodes) = Len(b.nodes) + 1
  BY AllocateGood
<1>2. Len(b.nodes) + 1 \in 1..Len(c.nodes)
  BY <1>1, BuilderFacts, SMT
<1>3. s \in Seq(1..Len(c.nodes))
  BY <1>1, <1>2, AppendProperties DEF GoodBuilder
<1>4. open(b, x) = [c EXCEPT !.stack = s]
  BY DEF open
<1> HIDE DEF c, s
<1>5. /\ [c EXCEPT !.stack = s] \in GoodBuilder(len)
      /\ Len([c EXCEPT !.stack = s].nodes) = Len(c.nodes)
  BY <1>1, <1>3, CutStackGood
<1>. QED
  BY <1>1, <1>4, <1>5, Zenon

(* Attaching a node to the innermost scope.                                *)
LEMMA AttachGood ==
  ASSUME NEW len \in Nat, NEW b \in GoodBuilder(len),
         NEW id \in 1..Len(b.nodes)
  PROVE  /\ attach(b, id) \in GoodBuilder(len)
         /\ Len(attach(b, id).nodes) = Len(b.nodes)
<1>1. Len(b.stack) \in 0..Len(b.stack)
  BY BuilderFacts, SMT
<1>2. Append(KidsAt(b, Len(b.stack)), id) \in Seq(1..Len(b.nodes))
  BY <1>1, KidsGood, AppendProperties
<1>. QED
  BY <1>1, <1>2, SetKidsGood DEF attach

(* What membership of GoodBuilder says of the single fields.               *)
LEMMA BuilderTypes ==
  ASSUME NEW len \in Nat, NEW b \in GoodBuilder(len)
  PROVE  /\ b.tag \in Int /\ b.count \in Seq(STRING)
         /\ b.root \in Annotation
BY Zenon DEF GoodBuilder, BuilderState

(* A CaptureValue without a payload is a well-typed one.                   *)
LEMMA PlainGood ==
  ASSUME NEW k \in CaptureKinds
  PROVE  Plain(k) \in CaptureType /\ Plain(k).k = k
BY SMT DEF Plain, CaptureType

(* begin_struct, begin_array and begin_variant open a scope at a position. *)
LEMMA BeginGood ==
  ASSUME NEW len \in Nat, NEW b \in GoodBuilder(len), NEW name \in STRING,
         NEW p \in 0..len
  PROVE  /\ begin_struct(b, name, p) \in GoodBuilder(len)
         /\ Len(begin_struct(b, name, p).nodes) = Len(b.nodes) + 1
         /\ begin_array(b, name, p) \in GoodBuilder(len)
         /\ Len(begin_array(b, name, p).nodes) = Len(b.nodes) + 1
         /\ \A tag \in Int :
              /\ begin_variant(b, name, p, tag) \in GoodBuilder(len)
              /\ Len(begin_variant(b, name, p, tag).nodes) = Len(b.nodes) + 1
<1> DEFINE m == Len(b.nodes) + 1
<1>0. name \in Name
  BY Zenon DEF Name
<1>1. m \in Nat
  BY BuilderFacts, SMT
<1>2. \A tag \in Int :
        /\ FreshNode(name, Plain("Struct"), p, p, tag) \in GoodNode(m, len)
        /\ FreshNode(name, Plain("Array"), p, p, tag) \in GoodNode(m, len)
  BY <1>0, <1>1, PlainGood, FreshNodeGood DEF CaptureKinds
<1>3. -1 \in Int /\ <<>> \in Seq(STRING)
  BY EmptySeq, SMT
<1>4. /\ begin_struct(b, name, p) \in GoodBuilder(len)
      /\ Len(begin_struct(b, name, p).nodes) = m
  <2> DEFINE c == open(b, FreshNode(name, Plain("Struct"), p, p, b.tag))
  <2>1. c \in GoodBuilder(len) /\ Len(c.nodes) = m
    BY <1>2, BuilderTypes, OpenGood
  <2>2. begin_struct(b, name, p) = [c EXCEPT !.tag = -1]
    BY DEF begin_struct
  <2> HIDE DEF c
  <2>. QED
    BY <1>3, <2>1, <2>2, PendingGood
<1>5. /\ begin_array(b, name, p) \in GoodBuilder(len)
      /\ Len(begin_array(b, name, p).nodes) = m
  <2> DEFINE x == FreshNode(name, Plain("Array"), p, p, b.tag)
             a == [derives |-> "HasCount", determines |-> b.count,
                   run |-> "none"]
             y == [x EXCEPT !.ann = IF b.count = <<>> THEN x.ann ELSE a]
             c == open(b, y)
             e == [c EXCEPT !.tag = -1]
  <2>1. x \in GoodNode(m, len)
    BY <1>2, BuilderTypes
  <2>2. a \in Annotation
    BY BuilderTypes, SMT DEF Annotation
  <2>3. x.ann \in Annotation
    BY <2>1, Zenon DEF GoodNode, Node
  <2>4. y \in GoodNode(m, len)
    BY <1>1, <2>1, <2>2, <2>3, NodeExceptGood
  <2>5. c \in GoodBuilder(len) /\ Len(c.nodes) = m
    BY <2>4, OpenGood
  <2>6. begin_array(b, name, p) = [c EXCEPT !.tag = -1, !.count = <<>>]
    BY DEF begin_array
  <2> HIDE DEF c
  <2>7. e \in GoodBuilder(len) /\ Len(e.nodes) = m
    BY <1>3, <2>5, PendingGood
  <2>8. [c EXCEPT !.tag = -1, !.count = <<>>] = [e EXCEPT !.count = <<>>]
    OBVIOUS
  <2> HIDE DEF e
  <2>9. /\ [e EXCEPT !.count = <<>>] \in GoodBuilder(len)
        /\ [e EXCEPT !.count = <<>>].nodes = e.nodes
    BY <1>3, <2>7, PendingGood
  <2>. QED
    BY <2>6, <2>7, <2>8, <2>9, Zenon
<1>6. \A tag \in Int :
        /\ begin_variant(b, name, p, tag) \in GoodBuilder(len)
        /\ Len(begin_variant(b, name, p, tag).nodes) = m
  BY <1>2, OpenGood DEF begin_variant
<1>. QED
  BY <1>4, <1>5, <1>6

(* end_struct and end_array close a scope at a position.                   *)
LEMMA CloseGood ==
  ASSUME NEW len \in Nat, NEW b \in GoodBuilder(len), NEW p \in 0..len
  PROVE  /\ close(b, p) \in GoodBuilder(len)
         /\ Len(close(b, p).nodes) = Len(b.nodes)
<1>1. CASE b.stack = <<>>
  BY <1>1 DEF close
<1>2. CASE b.stack # <<>>
  <2> DEFINE id == Innermost(b)
             c == SetNode(b, id, [b.nodes[id] EXCEPT !.end = p])
             s == SubSeq(c.stack, 1, Len(c.stack) - 1)
             e == [c EXCEPT !.stack = s]
  <2>1. /\ id \in 1..Len(b.nodes) /\ Len(b.nodes) \in Nat
        /\ b.nodes[id] \in GoodNode(Len(b.nodes), len)
        /\ Len(b.stack) \in Nat \ {0}
    BY <1>2, InnermostGood, BuilderFacts
  <2>2. [b.nodes[id] EXCEPT !.end = p] \in GoodNode(Len(b.nodes), len)
    BY <2>1, NodeExceptGood
  <2>3. c \in GoodBuilder(len) /\ Len(c.nodes) = Len(b.nodes)
        /\ c.stack = b.stack
    BY <2>1, <2>2, ReplaceNode
  <2>4. Len(c.stack) - 1 \in 0..Len(c.stack)
    BY <2>1, <2>3, SMT
  <2>5. s \in Seq(1..Len(c.nodes))
    BY <2>3, <2>4, PrefixSeq DEF GoodBuilder
  <2>6. close(b, p) = attach(e, id)
    BY <1>2 DEF close
  <2> HIDE DEF c, s
  <2>7. e \in GoodBuilder(len) /\ Len(e.nodes) = Len(b.nodes)
    BY <2>3, <2>5, CutStackGood, ZenonT(60)
  <2> HIDE DEF e
  <2>. QED
    BY <2>1, <2>6, <2>7, AttachGood
<1>. QED
  BY <1>1, <1>2

(* Annotating the innermost scope, or the top level.                       *)
LEMMA AnnotateGood ==
  ASSUME NEW len \in Nat, NEW b \in GoodBuilder(len)
  PROVE  /\ ScopeAnnotation(b) \in Annotation
         /\ \A a \in Annotation :
              /\ Annotate(b, a) \in GoodBuilder(len)
              /\ Len(Annotate(b, a).nodes) = Len(b.nodes)
<1>1. CASE b.stack = <<>>
  <2>1. ScopeAnnotation(b) \in Annotation
    BY <1>1, BuilderTypes DEF ScopeAnnotation
  <2>2. ASSUME NEW a \in Annotation
        PROVE  /\ Annotate(b, a) \in GoodBuilder(len)
               /\ Annotate(b, a).nodes = b.nodes
    <3> DEFINE c == [b EXCEPT !.root = a]
    <3>1. Annotate(b, a) = c
      BY <1>1 DEF Annotate
    <3>2. c \in GoodBuilder(len) /\ c.nodes = b.nodes
      BY PendingGood
    <3> HIDE DEF c
    <3>. QED
      BY <3>1, <3>2
  <2>. QED
    BY <2>1, <2>2
<1>2. CASE b.stack # <<>>
  <2> DEFINE id == Innermost(b)
  <2>1. /\ id \in 1..Len(b.nodes) /\ Len(b.nodes) \in Nat
        /\ b.nodes[id] \in GoodNode(Len(b.nodes), len)
    BY <1>2, InnermostGood, BuilderFacts
  <2>2. b.nodes[id].ann \in Annotation
    BY <2>1, Zenon DEF GoodNode, Node
  <2>3. \A a \in Annotation :
          [b.nodes[id] EXCEPT !.ann = a] \in GoodNode(Len(b.nodes), len)
    BY <2>1, NodeExceptGood
  <2>. QED
    BY <1>2, <2>1, <2>2, <2>3, ReplaceNode DEF Annotate, ScopeAnnotation
<1>. QED
  BY <1>1, <1>2

(* A scope becomes a bitfield run, or names the field that measures it.    *)
LEMMA ScopeMarksGood ==
  ASSUME NEW len \in Nat, NEW b \in GoodBuilder(len)
  PROVE  /\ \A msb_first \in BOOLEAN :
              /\ scope_is_bits_run(b, msb_first) \in GoodBuilder(len)
              /\ Len(scope_is_bits_run(b, msb_first).nodes) = Len(b.nodes)
         /\ \A path \in Seq(STRING) :
              /\ scope_determines_rest(b, path) \in GoodBuilder(len)
              /\ Len(scope_determines_rest(b, path).nodes) = Len(b.nodes)
<1> DEFINE a == ScopeAnnotation(b)
<1>1. a \in Annotation
  BY AnnotateGood
<1>2. \A msb_first \in BOOLEAN :
        [a EXCEPT !.run = IF msb_first THEN "msb" ELSE "lsb"] \in Annotation
  BY <1>1, SMT DEF Annotation
<1>3. \A path \in Seq(STRING) :
        [a EXCEPT !.derives = "HasRestSize", !.determines = path] \in Annotation
  BY <1>1, Zenon DEF Annotation
<1>. QED
  BY <1>2, <1>3, AnnotateGood DEF scope_is_bits_run, scope_determines_rest

(* add_field: a copy of a carrier, under a name, in the innermost scope.   *)
LEMMA AddFieldGood ==
  ASSUME NEW len \in Nat, NEW b \in GoodBuilder(len), NEW name \in STRING,
         NEW id \in 1..Len(b.nodes)
  PROVE  /\ add_field(b, name, b.nodes[id]) \in GoodBuilder(len)
         /\ Len(add_field(b, name, b.nodes[id]).nodes) = Len(b.nodes) + 1
<1> DEFINE c == b.nodes[id]
           m == Len(b.nodes) + 1
           x == FreshNode(name, c.type, c.start, c.end, b.tag)
           v == IF c.type.k = "Computed" THEN c.val ELSE Null
           y == [x EXCEPT !.val = v, !.enc = c.enc, !.bits = c.bits]
           e == attach(Allocate(b, y), m)
<1>1. c \in GoodNode(Len(b.nodes), len) /\ Len(b.nodes) \in Nat
  BY BuilderFacts
<1>2. /\ c.type \in CaptureType /\ c.start \in Nat /\ c.end \in Nat
      /\ c.start <= len /\ c.end <= len
      /\ c.type.k = "Int" => /\ c.type.width \in {1, 2, 4}
                             /\ c.start + c.type.width <= len
      /\ c.type.k = "Bool" => c.start < len
      /\ c.val \in Scalar /\ c.bits \in Bits
      /\ c.enc \in {"Fixed", "Uleb", "Sleb"}
  BY <1>1, Zenon DEF GoodNode, Node
<1>3. m \in Nat /\ c.start \in 0..len /\ c.end \in 0..len
  BY <1>1, <1>2, SMT
<1>4. x \in GoodNode(m, len)
  BY <1>2, <1>3, BuilderTypes, FreshNodeGood DEF Name
<1>5. v \in Scalar
  BY <1>2, GoodValues
<1>6. y \in GoodNode(m, len)
  <2> DEFINE y1 == [x EXCEPT !.val = v]
             y2 == [y1 EXCEPT !.enc = c.enc]
             y3 == [y2 EXCEPT !.bits = c.bits]
  <2>1. y = y3
    OBVIOUS
  <2> HIDE DEF x, v, c
  <2>2. y1 \in GoodNode(m, len)
    BY <1>3, <1>4, <1>5, NodeExceptGood
  <2> HIDE DEF y1
  <2>3. y2 \in GoodNode(m, len)
    BY <1>2, <1>3, <2>2, NodeExceptGood
  <2> HIDE DEF y2
  <2>4. y3 \in GoodNode(m, len)
    BY <1>2, <1>3, <2>3, NodeExceptGood
  <2>. QED
    BY <2>1, <2>4
<1>7. add_field(b, name, c) = [e EXCEPT !.tag = -1]
  BY DEF add_field
<1> HIDE DEF y
<1>8. Allocate(b, y) \in GoodBuilder(len) /\ Len(Allocate(b, y).nodes) = m
  BY <1>6, AllocateGood
<1>9. m \in 1..Len(Allocate(b, y).nodes)
  BY <1>3, <1>8, <1>1, SMT
<1>10. e \in GoodBuilder(len) /\ Len(e.nodes) = m
  BY <1>8, <1>9, AttachGood
<1> HIDE DEF e
<1>11. /\ [e EXCEPT !.tag = -1] \in GoodBuilder(len)
       /\ [e EXCEPT !.tag = -1].nodes = e.nodes
  <2>1. -1 \in Int
    BY SMT
  <2>. QED
    BY <1>10, <2>1, PendingGood
<1>. QED
  BY <1>7, <1>10, <1>11, Zenon

(* Lookups yield nodes of the builder.                                     *)
LEMMA FoundGood ==
  ASSUME NEW len \in Nat, NEW b \in GoodBuilder(len), NEW name, NEW id, NEW i
  PROVE  /\ find_field(b, name) \subseteq 1..Len(b.nodes)
         /\ find_child(b, id, name) \subseteq 1..Len(b.nodes)
         /\ find_child_at(b, id, i) \subseteq 1..Len(b.nodes)
<1>1. DOMAIN b.nodes = 1..Len(b.nodes)
  BY BuilderFacts
<1>. QED
  BY <1>1, Zenon DEF find_field, find_child, find_child_at

-----------------------------------------------------------------------------
(* Continuations and stacks of them.                                       *)

(* Only spine konts owe bytes.                                             *)
LEMMA OwingFacts ==
  ASSUME NEW n
  PROVE  /\ IsExpr(n) => Owing(n) = 0
         /\ IsFail(n) => Owing(n) = 0
         /\ n \in KontId => n \in Nat /\ KontOK(Prog[n]) /\ DebtOK(Prog[n])
                            /\ Owing(n) \in Nat
<1>1. n \in KontId => n \in Nat /\ KontOK(Prog[n]) /\ DebtOK(Prog[n])
  BY ProgAssumption
<1>2. n \in KontId => Owing(n) \in Nat
  BY <1>1, Zenon DEF Owing, KontOK
<1>3. IsExpr(n) \/ IsFail(n) => n \in KontId /\ Prog[n].kind \notin SpineKinds
  BY Zenon DEF IsExpr, IsFail, ExprKinds, FailKinds, SpineKinds, ChainKinds
<1>. QED
  BY <1>1, <1>2, <1>3 DEF Owing

(* The continuations the actions push.                                     *)
LEMMA RunGood ==
  ASSUME NEW m \in Nat, NEW room \in Nat, NEW n \in KontId, Owing(n) <= room
  PROVE  Run(n) \in GoodKont(m, room)
<1>1. <<>> \in Seq(Value) /\ <<>> \in Seq(GoodValue(m))
  BY EmptySeq
<1>2. n \in Nat /\ 0 \in Nat
  BY OwingFacts
<1>. QED
  BY <1>1, <1>2, Zenon DEF Run, Kont, GoodKont, KontRecord, Roles
(* A fresh apply kont is a good kont for any room its node fits in.        *)
LEMMA ApplyGood ==
  ASSUME NEW m \in Nat, NEW room \in Nat, NEW n \in KontId, Owing(n) <= room,
         Prog[n].kind # "Call"
  PROVE  Apply(n) \in GoodKont(m, room)
<1>1. Null \in Value /\ Null \in GoodValue(m)
  BY GoodValues DEF Scalar
<1>2. /\ <<Null>> \in Seq(Value) /\ <<Null>> \in Seq(GoodValue(m))
      /\ Len(<<Null>>) = 1
  BY <1>1
<1>3. n \in Nat
  BY OwingFacts
<1>. QED
  BY <1>2, <1>3, SMTT(60) DEF Apply, Kont, GoodKont, KontRecord, Roles

(* The lowest continuation of a stack is not an EvalLeft.                  *)
LEMMA StackFacts ==
  ASSUME NEW m \in Nat, NEW room \in Nat, NEW s \in GoodStack(m, room)
  PROVE  /\ s \in Seq(GoodKont(m, room)) /\ Len(s) \in Nat
         /\ DOMAIN s = 1..Len(s)
         /\ \A i \in 1..Len(s) : s[i] \in GoodKont(m, room)
         /\ \A i \in 2..Len(s) : Above(s[i]) /\ Paired(s[i], s[i - 1])
         /\ s # <<>> => Len(s) >= 1 /\ s[1].role # "left"
<1>1. s \in Seq(GoodKont(m, room))
  BY DEF GoodStack
<1>2. s # <<>> => Len(s) \in Nat \ {0}
  BY <1>1, EmptySeq
<1>3. s # <<>> => Len(s) >= 1
  BY <1>2, SMT
<1>. QED
  BY <1>1, <1>3, LenProperties, ElementOfSeq DEF GoodStack

(* Stacking t on s.                                                        *)
LEMMA ConcatStack ==
  ASSUME NEW m \in Nat, NEW room \in Nat, NEW s \in GoodStack(m, room),
         NEW t \in GoodStack(m, room),
         s # <<>> /\ t # <<>> => Above(t[1])
  PROVE  s \o t \in GoodStack(m, room)
<1> DEFINE u == s \o t
<1>1. /\ u \in Seq(GoodKont(m, room)) /\ Len(u) = Len(s) + Len(t)
      /\ \A i \in 1..(Len(s) + Len(t)) :
           u[i] = IF i <= Len(s) THEN s[i] ELSE t[i - Len(s)]
  BY StackFacts, ConcatProperties
<1>2. Len(s) \in Nat /\ Len(t) \in Nat
  BY StackFacts
<1> HIDE DEF u
<1>3. ASSUME NEW i \in 2..Len(u)
      PROVE  Above(u[i]) /\ Paired(u[i], u[i - 1])
  <2>1. CASE i <= Len(s)
    <3>1. i \in 2..Len(s) /\ u[i] = s[i] /\ u[i - 1] = s[i - 1]
      BY <1>1, <1>2, <2>1, SMT
    <3>. QED
      BY <3>1, StackFacts
  <2>2. CASE i = Len(s) + 1
    <3>1. u[i] = t[1] /\ Len(s) >= 1 /\ Len(t) >= 1
      BY <1>1, <1>2, <2>2, SMT
    <3>2. s # <<>> /\ t # <<>>
      BY <3>1, EmptySeq, SMT
    <3>3. t[1].role # "left"
      BY <3>2, StackFacts
    <3>. QED
      BY <3>1, <3>2, <3>3 DEF Paired
  <2>3. CASE i > Len(s) + 1
    <3>1. /\ i - Len(s) \in 2..Len(t) /\ u[i] = t[i - Len(s)]
          /\ u[i - 1] = t[(i - Len(s)) - 1]
      BY <1>1, <1>2, <2>3, SMTT(60)
    <3>. QED
      BY <3>1, StackFacts
  <2>. QED
    BY <1>1, <1>2, <2>1, <2>2, <2>3, SMT
<1>4. u # <<>> => u[1].role # "left"
  <2>1. CASE s = <<>>
    <3>1. u = t
      BY <2>1, StackFacts, ConcatEmptySeq DEF u
    <3>. QED
      BY <3>1, StackFacts
  <2>2. CASE s # <<>>
    <3>1. Len(s) >= 1 /\ s[1].role # "left"
      BY <2>2, StackFacts
    <3>2. u[1] = s[1]
      BY <1>1, <1>2, <3>1, SMT
    <3>. QED
      BY <3>1, <3>2
  <2>. QED
    BY <2>1, <2>2
<1>5. u \in GoodStack(m, room)
  BY <1>1, <1>3, <1>4 DEF GoodStack
<1>. QED
  BY <1>5 DEF u

(* A stack of one, and one of a site's apply kont and its expression.      *)
LEMMA OneStack ==
  ASSUME NEW m \in Nat, NEW room \in Nat, NEW k \in GoodKont(m, room),
         k.role # "left"
  PROVE  <<k>> \in GoodStack(m, room) /\ <<k>> # <<>> /\ <<k>>[1] = k
<1>1. /\ <<k>> \in Seq(GoodKont(m, room)) /\ Len(<<k>>) = 1 /\ <<k>>[1] = k
      /\ <<k>> # <<>>
  OBVIOUS
<1>2. 2..Len(<<k>>) = {}
  BY <1>1, SMT
<1>. QED
  BY <1>1, <1>2, Zenon DEF GoodStack
(* A good kont and an expression kont or handler on it make a good stack.  *)
LEMMA TwoStack ==
  ASSUME NEW m \in Nat, NEW room \in Nat, NEW k \in GoodKont(m, room),
         NEW l \in GoodKont(m, room), k.role # "left",
         Above(l), Paired(l, k)
  PROVE  <<k, l>> \in GoodStack(m, room) /\ <<k, l>>[1] = k
<1>1. /\ <<k, l>> \in Seq(GoodKont(m, room)) /\ Len(<<k, l>>) = 2
      /\ <<k, l>>[1] = k /\ <<k, l>>[2] = l
  OBVIOUS
<1>2. \A i \in 2..Len(<<k, l>>) : i = 2 /\ i - 1 = 1
  BY <1>1, SMT
<1>. QED
  BY <1>1, <1>2, Zenon DEF GoodStack
(* The same of a kont with two expression konts or handlers on it.         *)
LEMMA ThreeStack ==
  ASSUME NEW m \in Nat, NEW room \in Nat, NEW k \in GoodKont(m, room),
         NEW l \in GoodKont(m, room), NEW r \in GoodKont(m, room),
         k.role # "left", Above(l), Paired(l, k), Above(r), Paired(r, l)
  PROVE  <<k, l, r>> \in GoodStack(m, room) /\ <<k, l, r>>[1] = k
<1>1. /\ <<k, l, r>> \in Seq(GoodKont(m, room)) /\ Len(<<k, l, r>>) = 3
      /\ <<k, l, r>>[1] = k /\ <<k, l, r>>[2] = l /\ <<k, l, r>>[3] = r
  OBVIOUS
<1>2. \A i \in 2..3 : (i = 2 /\ i - 1 = 1) \/ (i = 3 /\ i - 1 = 2)
  BY SMT
<1>. QED
  BY <1>1, <1>2, Zenon DEF GoodStack

(* What lies under the top of a stack.                                     *)
LEMMA PopStack ==
  ASSUME NEW m \in Nat, NEW room \in Nat, NEW s \in GoodStack(m, room),
         s # <<>>
  PROVE  LET t == SubSeq(s, 1, Len(s) - 1)
             k == s[Len(s)]
         IN  /\ t \in GoodStack(m, room)
             /\ Len(t) = Len(s) - 1
             /\ \A i \in 1..Len(t) : t[i] = s[i]
             /\ k \in GoodKont(m, room)
             /\ t # <<>> => Above(k) /\ Paired(k, t[Len(t)])
             /\ k.role = "left" => t # <<>>
<1> DEFINE t == SubSeq(s, 1, Len(s) - 1)
           k == s[Len(s)]
<1>1. Len(s) \in Nat /\ Len(s) >= 1 /\ s[1].role # "left"
  BY StackFacts
<1>2. Len(s) - 1 \in 0..Len(s) /\ Len(s) \in 1..Len(s)
  BY <1>1, SMT
<1>3. /\ t \in Seq(GoodKont(m, room)) /\ Len(t) = Len(s) - 1
      /\ \A i \in 1..(Len(s) - 1) : t[i] = s[i]
  <2>1. s \in Seq(GoodKont(m, room))
    BY StackFacts
  <2>. QED
    BY <1>2, <2>1, PrefixSeq
<1>4. k \in GoodKont(m, room)
  BY <1>2, StackFacts
<1> HIDE DEF t
<1>5. \A i \in 2..Len(t) : Above(t[i]) /\ Paired(t[i], t[i - 1])
  <2>1. \A i \in 2..Len(t) : i \in 2..Len(s) /\ t[i] = s[i] /\ t[i - 1] = s[i - 1]
    BY <1>1, <1>3, SMT
  <2>. QED
    BY <2>1, StackFacts
<1>6. t # <<>> => Len(t) \in Nat \ {0}
  BY <1>3, EmptySeq
<1>7. t # <<>> => t[1] = s[1]
  BY <1>1, <1>3, <1>6, SMT
<1>8. t \in GoodStack(m, room)
  BY <1>1, <1>3, <1>5, <1>7, Zenon DEF GoodStack
<1>9. t # <<>> => /\ Len(s) \in 2..Len(s) /\ t[Len(t)] = s[Len(s) - 1]
  BY <1>1, <1>3, <1>6, SMT
<1>10. t # <<>> => Above(k) /\ Paired(k, t[Len(t)])
  BY <1>9, StackFacts
<1>11. k.role = "left" => t # <<>>
  <2>1. t = <<>> => Len(s) = 1
    BY <1>1, <1>3, EmptySeq, SMT
  <2>. QED
    BY <1>1, <2>1
<1>. QED
  BY <1>3, <1>4, <1>8, <1>10, <1>11 DEF t

(* A stack stays good when more nodes are allocated.                       *)
LEMMA StackMonotonic ==
  ASSUME NEW m \in Nat, NEW n \in Nat, m <= n, NEW room \in Nat
  PROVE  GoodStack(m, room) \subseteq GoodStack(n, room)
<1>1. GoodValue(m) \subseteq GoodValue(n)
  BY GoodValues
<1>2. \A k \in GoodKont(m, room) : k.vals \in Seq(GoodValue(n))
  BY <1>1, SeqMonotonic DEF GoodKont
<1>3. GoodKont(m, room) \subseteq GoodKont(n, room)
  BY <1>2 DEF GoodKont
<1>4. \A s \in GoodStack(m, room) : s \in Seq(GoodKont(n, room))
  BY <1>3, StackFacts, SeqMonotonic
<1>. QED
  BY <1>4 DEF GoodStack

-----------------------------------------------------------------------------
(* Frames.                                                                 *)

(* A failure link is null or a failure handler of the program.             *)
LEMMA FailLinkFacts ==
  ASSUME NEW n, IsFailOrNil(n)
  PROVE  n \in Nat /\ (n # Nil => n \in KontId /\ Owing(n) = 0 /\ IsFail(n))
<1>1. Nil \in Nat
  BY DEF Nil
<1>2. IsFail(n) => n \in KontId
  BY DEF IsFail
<1>. QED
  BY <1>1, <1>2, OwingFacts DEF IsFailOrNil

(* What may change in a frame.                                             *)
LEMMA FrameExceptGood ==
  ASSUME NEW d \in Nat, NEW len \in Nat, NEW f \in GoodFrame(d, len)
  PROVE  /\ \A c \in Nat : [f EXCEPT !.counter = c] \in GoodFrame(d, len)
         /\ \A c \in Int : [f EXCEPT !.limit = c] \in GoodFrame(d, len)
         /\ \A n : IsFailOrNil(n) =>
                    [f EXCEPT !.on_fail = n] \in GoodFrame(d, len)
<1>1. \A n : IsFailOrNil(n) => n \in Nat
  BY FailLinkFacts
<1>2. ASSUME NEW c \in Nat PROVE [f EXCEPT !.counter = c] \in GoodFrame(d, len)
  BY Zenon DEF GoodFrame, FrameRecord
<1>3. ASSUME NEW c \in Int PROVE [f EXCEPT !.limit = c] \in GoodFrame(d, len)
  BY Zenon DEF GoodFrame, FrameRecord
<1>4. ASSUME NEW n, IsFailOrNil(n)
      PROVE  [f EXCEPT !.on_fail = n] \in GoodFrame(d, len)
  BY <1>1, <1>4, Zenon DEF GoodFrame, FrameRecord
<1>. QED
  BY <1>2, <1>3, <1>4

(* A resync Savepoint moved to a new start.                                *)
LEMMA RefreshedGood ==
  ASSUME NEW d \in Nat, NEW len \in Nat, NEW f \in GoodFrame(d, len),
         NEW p \in 0..len, NEW dd \in 0..d, NEW e \in BOOLEAN, NEW rest,
         Len(rest) = 0, NEW b \in GoodBuilder(len), NEW en \in GoodEnv
  PROVE  Refreshed(f, p, dd, e, rest, b, en) \in GoodFrame(d, len)
<1>1. /\ p \in Nat /\ p <= len /\ dd \in Nat /\ dd <= d
      /\ Len(rest) \in Nat
  BY SMT
<1>2. mark(b) \in Mark
  BY MarkType
<1>3. en \in Seq(Binding)
  <2>1. [name : STRING, val : Scalar] \subseteq Binding
    BY DEF Binding, Scalar
  <2>. QED
    BY <2>1, SeqMonotonic DEF GoodEnv
<1>. QED
  BY <1>1, <1>2, <1>3, Zenon DEF Refreshed, GoodFrame, FrameRecord

(* A frame stays good when the window store grows.                         *)
LEMMA FrameMonotonic ==
  ASSUME NEW d \in Nat, NEW e \in Nat, d <= e, NEW len \in Nat
  PROVE  GoodFrame(d, len) \subseteq GoodFrame(e, len)
<1>1. \A f \in GoodFrame(d, len) : f.depth <= e
  <2>1. \A f \in GoodFrame(d, len) : f.depth \in Nat /\ f.depth <= d
    BY Zenon DEF GoodFrame, FrameRecord
  <2>. QED
    BY <2>1, SMT
<1>. QED
  BY <1>1, Zenon DEF GoodFrame

-----------------------------------------------------------------------------
(* The state.                                                              *)

(* The typing facts of IInv that the steps below cite most.                *)
LEMMA StateFacts ==
  ASSUME IInv
  PROVE  /\ input \in Seq(0..255) /\ Len(input) \in Nat
         /\ Len(builder.nodes) \in Nat
         /\ pos \in Nat /\ pos <= Len(input) /\ Len(input) - pos \in Nat
         /\ slots \in Seq(GoodSlot(Len(input)))
         /\ Len(slots) \in Nat /\ depth \in Nat /\ depth <= Len(slots)
         /\ \A i \in 1..Len(slots) : slots[i].lo \in Nat /\ slots[i].hi \in Nat
                                      /\ slots[i].hi <= Len(input)
         /\ frames \in Seq(GoodFrame(Len(slots), Len(input)))
         /\ Len(frames) \in Nat
         /\ DOMAIN frames = 1..Len(frames)
         /\ \A i \in 1..Len(frames) :
              frames[i] \in GoodFrame(Len(slots), Len(input))
<1>1. job \in Jobs
  BY DEF IInv
<1>2. input \in Seq(0..255)
  BY <1>1, JobsAssumption DEF input
<1>3. Len(input) \in Nat
  BY <1>2, LenProperties
<1>4. Len(builder.nodes) \in Nat
  BY <1>3, BuilderFacts DEF IInv
<1>5. pos \in Nat /\ pos <= Len(input) /\ Len(input) - pos \in Nat
  BY <1>3, SMT DEF IInv
<1>6. slots \in Seq(GoodSlot(Len(input))) /\ Len(slots) \in Nat
  BY LenProperties DEF IInv
<1>7. depth \in Nat /\ depth <= Len(slots)
  BY <1>6, SMT DEF IInv
<1>8. \A i \in 1..Len(slots) : slots[i] \in GoodSlot(Len(input))
  BY <1>6, ElementOfSeq
<1>9. \A i \in 1..Len(slots) : slots[i].lo \in Nat /\ slots[i].hi \in Nat
                               /\ slots[i].hi <= Len(input)
  BY <1>8 DEF GoodSlot, Slot
<1>10. frames \in Seq(GoodFrame(Len(slots), Len(input)))
  BY DEF IInv
<1>11. /\ Len(frames) \in Nat /\ DOMAIN frames = 1..Len(frames)
       /\ \A i \in 1..Len(frames) :
            frames[i] \in GoodFrame(Len(slots), Len(input))
  BY <1>10, LenProperties, ElementOfSeq
<1>. QED
  BY <1>2, <1>3, <1>4, <1>5, <1>6, <1>7, <1>9, <1>10, <1>11

(* The window in force lies in the buffer.                                 *)
LEMMA WindowFacts ==
  ASSUME IInv
  PROVE  /\ effective_start \in Nat
         /\ effective_end \in Nat /\ effective_end <= Len(input)
         /\ \A d \in 0..Len(slots) : EndAt(d) \in Nat /\ EndAt(d) <= Len(input)
<1>1. /\ Len(input) \in Nat /\ Len(slots) \in Nat
      /\ depth \in Nat /\ depth <= Len(slots)
      /\ \A i \in 1..Len(slots) : slots[i].lo \in Nat /\ slots[i].hi \in Nat
                                   /\ slots[i].hi <= Len(input)
  BY StateFacts
<1>2. \A d \in 0..Len(slots) : EndAt(d) \in Nat /\ EndAt(d) <= Len(input)
  <2>1. SUFFICES ASSUME NEW d \in 0..Len(slots)
                 PROVE  EndAt(d) \in Nat /\ EndAt(d) <= Len(input)
    OBVIOUS
  <2>2. d > 0 => d \in 1..Len(slots)
    BY <1>1, SMT
  <2>3. ~(d > 0) => Len(input) <= Len(input)
    BY <1>1, SMT
  <2>. QED
    BY <1>1, <2>2, <2>3 DEF EndAt
<1>3. depth \in 0..Len(slots) /\ (depth > 0 => depth \in 1..Len(slots))
  BY <1>1, SMT
<1>. QED
  BY <1>1, <1>2, <1>3 DEF effective_end, effective_start

(* The continuation the trampoline pops, and what lies under it.           *)
LEMMA TopFacts ==
  ASSUME IInv, K # <<>>
  PROVE  /\ Top \in GoodKont(Len(builder.nodes), Len(input) - pos)
         /\ Top.node \in KontId /\ Top.node \in Nat
         /\ Owing(Top.node) <= Len(input) - pos
         /\ KontOK(C) /\ DebtOK(C)
         /\ Rest \in GoodStack(Len(builder.nodes), Len(input) - pos)
         /\ Rest # <<>> => Above(Top) /\ Paired(Top, Rest[Len(Rest)])
         /\ Top.role = "left" => Rest # <<>>
<1>1. /\ Len(builder.nodes) \in Nat /\ Len(input) - pos \in Nat
      /\ K \in GoodStack(Len(builder.nodes), Len(input) - pos)
  BY StateFacts DEF IInv
<1>2. /\ Top \in GoodKont(Len(builder.nodes), Len(input) - pos)
      /\ Rest \in GoodStack(Len(builder.nodes), Len(input) - pos)
      /\ Rest # <<>> => Above(Top) /\ Paired(Top, Rest[Len(Rest)])
      /\ Top.role = "left" => Rest # <<>>
  BY <1>1, PopStack DEF Top, Rest
<1>3. Top.node \in KontId /\ Owing(Top.node) <= Len(input) - pos
  BY <1>2 DEF GoodKont
<1>. QED
  BY <1>2, <1>3, OwingFacts DEF C

(* A spine kont stands alone on the stack.                                 *)
LEMMA SpineAlone ==
  ASSUME IInv, K # <<>>, C.kind \in SpineKinds
  PROVE  Rest = <<>> /\ Len(Rest) = 0 /\ C.owes = Owing(Top.node)
<1>1. ~Above(Top)
  BY Zenon DEF Above, C, ExprKinds, FailKinds, SpineKinds, ChainKinds
<1>2. Rest = <<>>
  BY <1>1, TopFacts
<1>3. Len(Rest) = 0
  BY <1>2
<1>. QED
  BY <1>2, <1>3, TopFacts DEF Owing, C

(* The next state is good when each register is.                           *)
LEMMA Preserved ==
  ASSUME IInv, job' = job, le' \in BOOLEAN, failed' \in BOOLEAN,
         pos' \in 0..Len(input), best' \in 0..Len(input),
         slots' \in Seq(GoodSlot(Len(input))), depth' \in 0..Len(slots'),
         env' \in GoodEnv,
         frames' \in Seq(GoodFrame(Len(slots'), Len(input))),
         builder' \in GoodBuilder(Len(input)),
         ac' \in GoodValue(Len(builder'.nodes)),
         K' \in GoodStack(Len(builder'.nodes), Len(input) - pos')
  PROVE  IInv'
<1>1. input' = input /\ job' \in Jobs
  BY DEF input, IInv
<1>. QED
  BY <1>1 DEF IInv

-----------------------------------------------------------------------------
(* What the actions have in common.                                        *)

(* Pushing a kont to run.                                                  *)
LEMMA PushRun ==
  ASSUME NEW m \in Nat, NEW room \in Nat, NEW s \in GoodStack(m, room),
         NEW n \in KontId, Owing(n) <= room,
         s # <<>> => Prog[n].kind \in ExprKinds \cup FailKinds
  PROVE  Append(s, Run(n)) \in GoodStack(m, room)
<1>1. Run(n) \in GoodKont(m, room)
  BY RunGood
<1>2. Run(n).role # "left" /\ (s # <<>> => Above(Run(n)))
  BY DEF Run, Kont, Above
<1>3. <<Run(n)>> \in GoodStack(m, room) /\ <<Run(n)>>[1] = Run(n)
  BY <1>1, <1>2, OneStack
<1>4. Append(s, Run(n)) = s \o <<Run(n)>>
  BY <1>1, StackFacts, AppendIsConcat
<1>5. s \o <<Run(n)>> \in GoodStack(m, room)
  BY <1>2, <1>3, ConcatStack
<1>. QED
  BY <1>4, <1>5

(* fail(): the chain that is left, and the handler that runs.              *)
LEMMA Unwound ==
  ASSUME IInv, NEW m \in Nat, NEW room \in Nat,
         \E p \in 0..Len(input), fs \in Seq(GoodFrame(Len(slots), Len(input))),
            rest \in GoodStack(m, room) : Unwind(p, fs, rest)
  PROVE  /\ best' \in 0..Len(input) /\ failed' \in BOOLEAN
         /\ frames' \in Seq(GoodFrame(Len(slots), Len(input)))
         /\ K' \in GoodStack(m, room)
<1>1. PICK p \in 0..Len(input), fs \in Seq(GoodFrame(Len(slots), Len(input))),
           rest \in GoodStack(m, room) : Unwind(p, fs, rest)
  OBVIOUS
<1>2. best' \in 0..Len(input)
  BY <1>1 DEF Unwind, IInv
<1>3. CASE Handlers(fs) = {}
  <2>1. frames' = <<>> /\ K' = rest /\ failed' = TRUE
    BY <1>1, <1>3 DEF Unwind, Innermost1
  <2>. QED
    BY <1>2, <2>1, EmptySeq
<1>4. CASE Handlers(fs) # {}
  <2>1. PICK i \in Innermost1(Handlers(fs)) :
          /\ frames' = SubSeq(fs, 1, i)
          /\ K' = Append(rest, Run(fs[i].on_fail))
          /\ failed' = FALSE
    BY <1>1, <1>4 DEF Unwind
  <2>2. i \in DOMAIN fs /\ fs[i].on_fail # Nil
    BY <2>1 DEF Innermost1, Handlers, Savepoints
  <2>3. i \in 1..Len(fs) /\ fs[i] \in GoodFrame(Len(slots), Len(input))
        /\ Len(fs) \in Nat
    BY <2>2, LenProperties, ElementOfSeq
  <2>4. IsFailOrNil(fs[i].on_fail)
    BY <2>3 DEF GoodFrame
  <2>5. /\ fs[i].on_fail \in KontId /\ Owing(fs[i].on_fail) = 0
        /\ IsFail(fs[i].on_fail)
    BY <2>2, <2>4, FailLinkFacts
  <2>6. Prog[fs[i].on_fail].kind \in FailKinds /\ Owing(fs[i].on_fail) <= room
    BY <2>5, SMT DEF IsFail
  <2>7. K' \in GoodStack(m, room)
    BY <2>1, <2>5, <2>6, PushRun
  <2>8. i \in 0..Len(fs)
    BY <2>3, SMT
  <2>9. frames' \in Seq(GoodFrame(Len(slots), Len(input)))
    BY <2>1, <2>8, PrefixSeq
  <2>. QED
    BY <1>2, <2>1, <2>7, <2>9
<1>. QED
  BY <1>3, <1>4

(* The failure of an operation that changed nothing.                       *)
LEMMA FailGood ==
  ASSUME IInv, K # <<>>, Fail
  PROVE  IInv'
<1>1. Len(builder.nodes) \in Nat /\ Len(input) - pos \in Nat
  BY StateFacts
<1>2. /\ pos \in 0..Len(input)
      /\ frames \in Seq(GoodFrame(Len(slots), Len(input)))
      /\ Rest \in GoodStack(Len(builder.nodes), Len(input) - pos)
  BY TopFacts DEF IInv
<1>3. Unwind(pos, frames, Rest)
  BY DEF Fail
<1>4. /\ best' \in 0..Len(input) /\ failed' \in BOOLEAN
      /\ frames' \in Seq(GoodFrame(Len(slots), Len(input)))
      /\ K' \in GoodStack(Len(builder.nodes), Len(input) - pos)
  BY <1>1, <1>2, <1>3, Unwound
<1>5. UNCHANGED <<job, pos, slots, depth, le, env, ac, builder>>
  BY DEF Fail, window
<1>6. /\ le \in BOOLEAN /\ slots \in Seq(GoodSlot(Len(input)))
      /\ depth \in 0..Len(slots) /\ env \in GoodEnv
      /\ builder \in GoodBuilder(Len(input))
      /\ ac \in GoodValue(Len(builder.nodes))
  BY DEF IInv
<1>. QED
  BY <1>2, <1>4, <1>5, <1>6, Preserved

(* An expression kont that delivers a value.                               *)
LEMMA GiveGood ==
  ASSUME IInv, K # <<>>,
         \E v \in GoodValue(Len(builder.nodes)) : Give(v)
  PROVE  IInv'
<1>1. Rest \in GoodStack(Len(builder.nodes), Len(input) - pos)
  BY TopFacts
<1>2. /\ ac' \in GoodValue(Len(builder.nodes)) /\ K' = Rest
      /\ UNCHANGED <<job, best, failed, pos, slots, depth, le, env, frames, builder>>
  BY DEF Give, status, window, store
<1>. QED
  BY <1>1, <1>2, Preserved DEF IInv

(* A kont that only schedules others in its own place.                     *)
LEMMA ScheduleGood ==
  ASSUME IInv, K # <<>>,
         \E ks \in GoodStack(Len(builder.nodes), Len(input) - pos) :
            /\ Rest # <<>> /\ ks # <<>> => Above(ks[1])
            /\ Schedule(ks)
  PROVE  IInv'
<1>1. /\ Len(builder.nodes) \in Nat /\ Len(input) - pos \in Nat
      /\ Rest \in GoodStack(Len(builder.nodes), Len(input) - pos)
  BY TopFacts, StateFacts
<1>2. PICK ks \in GoodStack(Len(builder.nodes), Len(input) - pos) :
            /\ Rest # <<>> /\ ks # <<>> => Above(ks[1])
            /\ Schedule(ks)
  OBVIOUS
<1>3. /\ K' = Rest \o ks
      /\ UNCHANGED <<job, best, failed, pos, slots, depth, le, env, frames, ac, builder>>
  BY <1>2 DEF Schedule, status, window, store
<1>4. K' \in GoodStack(Len(builder.nodes), Len(input) - pos)
  BY <1>1, <1>2, <1>3, ConcatStack
<1>. QED
  BY <1>3, <1>4, Preserved DEF IInv

(* The stack after a spine kont hands over to another.                     *)
LEMMA ContinueStack ==
  ASSUME IInv, K # <<>>, C.kind \in SpineKinds, NEW m \in Nat,
         NEW room \in Nat, NEW n \in KontId, Owing(n) <= room
  PROVE  Append(Rest, Run(n)) \in GoodStack(m, room)
<1>1. Rest = <<>>
  BY SpineAlone
<1>2. <<>> \in GoodStack(m, room)
  <2>1. <<>> \in Seq(GoodKont(m, room)) /\ 2..Len(<<>>) = {}
    BY EmptySeq, SMT
  <2>. QED
    BY <2>1, Zenon DEF GoodStack
<1>. QED
  BY <1>1, <1>2, PushRun

(* An apply kont and the expression it waits for, in the kont's place.     *)
LEMMA AwaitStack ==
  ASSUME IInv, K # <<>>, NEW m \in Nat, NEW e, IsExpr(e), C.kind # "Call"
  PROVE  LET ks == <<Apply(Top.node), Run(e)>>
         IN  /\ ks \in GoodStack(m, Len(input) - pos)
             /\ Rest # <<>> /\ ks # <<>> => Above(ks[1])
<1>1. /\ Len(input) - pos \in Nat /\ Top.node \in KontId
      /\ Owing(Top.node) <= Len(input) - pos
      /\ Rest # <<>> => Above(Top)
  BY TopFacts, StateFacts
<1>2. Apply(Top.node) \in GoodKont(m, Len(input) - pos)
  BY <1>1, ApplyGood DEF C
<1>3. e \in KontId /\ Owing(e) = 0
  BY OwingFacts DEF IsExpr
<1>4. Owing(e) <= Len(input) - pos
  BY <1>1, <1>3, SMT
<1>5. Run(e) \in GoodKont(m, Len(input) - pos)
  BY <1>1, <1>3, <1>4, RunGood
<1>6. /\ Apply(Top.node).role # "left" /\ Run(e).role # "left"
      /\ Above(Run(e)) /\ (Above(Top) => Above(Apply(Top.node)))
  BY DEF Apply, Run, Kont, Above, IsExpr
<1>7. Paired(Run(e), Apply(Top.node))
  BY <1>6 DEF Paired
<1>8. /\ <<Apply(Top.node), Run(e)>> \in GoodStack(m, Len(input) - pos)
      /\ <<Apply(Top.node), Run(e)>>[1] = Apply(Top.node)
  BY <1>1, <1>2, <1>5, <1>6, <1>7, TwoStack
<1>. QED
  BY <1>1, <1>6, <1>8

(* Changing the values a continuation holds.                               *)
LEMMA ReplaceOnStack ==
  ASSUME NEW m \in Nat, NEW room \in Nat, NEW s \in GoodStack(m, room),
         NEW i \in 1..Len(s), NEW k \in GoodKont(m, room),
         k.role = s[i].role, k.node = s[i].node
  PROVE  [s EXCEPT ![i] = k] \in GoodStack(m, room)
<1> DEFINE t == [s EXCEPT ![i] = k]
<1>1. /\ t \in Seq(GoodKont(m, room)) /\ Len(t) = Len(s)
      /\ \A j \in 1..Len(s) : t[j] = IF j = i THEN k ELSE s[j]
  <2>1. s \in Seq(GoodKont(m, room))
    BY StackFacts
  <2>. QED
    BY <2>1, ExceptSeq
<1>2. \A j \in 1..Len(s) : t[j].role = s[j].role /\ t[j].node = s[j].node
  BY <1>1
<1> HIDE DEF t
<1>3. ASSUME NEW j \in 2..Len(t)
      PROVE  Above(t[j]) /\ Paired(t[j], t[j - 1])
  <2>1. j \in 1..Len(s) /\ j - 1 \in 1..Len(s) /\ j \in 2..Len(s)
    BY <1>1, StackFacts, SMT
  <2>2. Above(s[j]) /\ Paired(s[j], s[j - 1])
    BY <2>1, StackFacts
  <2>3. /\ t[j].role = s[j].role /\ t[j].node = s[j].node
        /\ t[j - 1].role = s[j - 1].role /\ t[j - 1].node = s[j - 1].node
    BY <1>2, <2>1
  <2>. QED
    BY <2>2, <2>3, Zenon DEF Above, Paired
<1>4. t # <<>> => t[1].role # "left"
  <2>0. Len(s) \in Nat
    BY StackFacts
  <2>1. 1 \in 1..Len(s)
    BY <2>0, SMT
  <2>2. s # <<>>
    BY <2>1, EmptySeq, SMT
  <2>. QED
    BY <1>2, <2>1, <2>2, StackFacts, ZenonT(60)
<1>. QED
  BY <1>1, <1>3, <1>4 DEF t, GoodStack

(* Writing outside a sequence changes nothing.                             *)
LEMMA ExceptOutside ==
  ASSUME NEW S, NEW s \in Seq(S), NEW i, NEW e, i \notin DOMAIN s
  PROVE  [s EXCEPT ![i] = e] = s
<1>1. s \in [1..Len(s) -> S] /\ DOMAIN s = 1..Len(s)
  BY LenProperties
<1>. QED
  BY <1>1

-----------------------------------------------------------------------------
(* Reading numbers.                                                        *)

(* Every byte of the buffer is one.                                        *)
LEMMA ByteGood ==
  ASSUME IInv, NEW i \in Nat, i < Len(input)
  PROVE  Byte(i) \in 0..255 /\ Byte(i) \in Int
<1>1. i + 1 \in 1..Len(input)
  BY StateFacts, SMT
<1>2. Byte(i) \in 0..255
  BY <1>1, StateFacts, ElementOfSeq, ZenonT(60) DEF Byte
<1>3. \A b \in 0..255 : b \in Int
  BY SMT
<1>. QED
  BY <1>2, <1>3

(* read_primitive's last digit is an integer, signed or not.               *)
LEMMA SignedDigitInt ==
  ASSUME NEW d \in Int, NEW base \in Int, NEW signed
  PROVE  SignedDigit(d, base, signed) \in Int
BY SMT DEF SignedDigit

(* A number whose bytes are in the buffer is one.                          *)
LEMMA NumberInt ==
  ASSUME IInv, NEW p \in Nat, NEW width \in {1, 2, 4}, NEW signed, NEW little,
         p + width <= Len(input)
  PROVE  Number(p, width, signed, little) \in Int
<1> DEFINE Digit(i) == Byte(IF little THEN p + i ELSE p + width - 1 - i)
           D(i) == IF i >= width THEN 0
                   ELSE SignedDigit(Digit(i), 256, signed /\ i = width - 1)
<1>1. ASSUME NEW i \in 0..3 PROVE D(i) \in Int
  <2>1. CASE i >= width
    BY <2>1
  <2>2. CASE ~(i >= width)
    <3> DEFINE q == IF little THEN p + i ELSE p + width - 1 - i
    <3>0. Len(input) \in Nat
      BY StateFacts
    <3>1. q \in Nat /\ q < Len(input)
      <4>1. /\ p + i \in Nat /\ p + i < Len(input)
            /\ p + width - 1 - i \in Nat /\ p + width - 1 - i < Len(input)
        BY <2>2, <3>0, SMT
      <4>. QED
        BY <4>1
    <3>2. D(i) = SignedDigit(Byte(q), 256, signed /\ i = width - 1)
      BY <2>2
    <3> HIDE DEF q, D
    <3>3. Byte(q) \in Int /\ 256 \in Int
      BY <3>1, ByteGood
    <3>4. SignedDigit(Byte(q), 256, signed /\ i = width - 1) \in Int
      BY <3>3, SignedDigitInt
    <3>. QED
      BY <3>2, <3>4
  <2>. QED
    BY <2>1, <2>2
<1>2. D(0) \in Int /\ D(1) \in Int /\ D(2) \in Int /\ D(3) \in Int
  BY <1>1
<1>3. Number(p, width, signed, little)
        = D(0) + 256 * (D(1) + 256 * (D(2) + 256 * D(3)))
  BY DEF Number
<1> HIDE DEF D
<1>. QED
  BY <1>2, <1>3, SMTT(60)

-----------------------------------------------------------------------------
(* Expression konts.                                                       *)

(* An integer or a truth value is always good to give.                     *)
LEMMA GiveScalar ==
  ASSUME IInv, K # <<>>, \E v \in Scalar : Give(v)
  PROVE  IInv'
<1>1. Scalar \subseteq GoodValue(Len(builder.nodes))
  BY StateFacts, GoodValues
<1>. QED
  BY <1>1, GiveGood

(* Literals, references and the registers an expression can name.          *)
LEMMA LeafGood ==
  ASSUME IInv,
         Lit \/ Ref \/ Pos \/ Remaining \/ EOI \/ Start \/ End \/ LoopVar
  PROVE  IInv'
<1>1. \A i \in Int : IntV(i) \in Scalar
  BY StateFacts, GoodValues
<1>2. CASE Lit
  <2>1. K # <<>> /\ C.kind = "Lit" /\ Give(C.val)
    BY <1>2 DEF Lit, Control
  <2>2. C.val \in Scalar
    BY <2>1, TopFacts, Zenon DEF KontOK, Scalar
  <2>. QED
    BY <2>1, <2>2, GiveScalar
<1>3. CASE Ref
  <2>1. K # <<>>
    BY <1>3 DEF Ref, Control
  <2>2. CASE Fail
    BY <2>1, <2>2, FailGood
  <2>3. CASE \E i \in Innermost1(Bound(C.name)) : Give(env[i].val)
    <3>1. PICK i \in DOMAIN env : Give(env[i].val)
      BY <2>3 DEF Innermost1, Bound
    <3>2. env \in Seq([name : STRING, val : Scalar])
      BY DEF IInv, GoodEnv
    <3>3. i \in 1..Len(env)
      BY <3>1, <3>2, LenProperties
    <3>4. env[i] \in [name : STRING, val : Scalar]
      BY <3>2, <3>3, ElementOfSeq
    <3>. QED
      BY <2>1, <3>1, <3>4, GiveScalar
  <2>. QED
    BY <1>3, <2>2, <2>3 DEF Ref
<1>4. CASE Pos \/ Remaining \/ EOI \/ Start \/ End
  <2>1. /\ pos \in Int /\ effective_end \in Int /\ effective_end - pos \in Int
        /\ Len(input) \in Int
    BY StateFacts, WindowFacts, SMT
  <2>2. current_scope_start(builder) \in 0..Len(input)
    BY StateFacts, ScopeStartInBuffer DEF IInv
  <2>3. current_scope_start(builder) \in Int
    BY <2>1, <2>2, SMT
  <2>4. K # <<>> /\ \E i \in Int : Give(IntV(i))
    BY <1>4, <2>1, <2>3 DEF Pos, Remaining, EOI, Start, End, Control
  <2>. QED
    BY <1>1, <2>4, GiveScalar
<1>5. CASE LoopVar
  <2>1. K # <<>>
    BY <1>5 DEF LoopVar, Control
  <2>2. CASE Fail
    BY <2>1, <2>2, FailGood
  <2>3. CASE \E i \in Innermost1(Loops) : Give(IntV(frames[i].counter))
    <3>1. PICK i \in DOMAIN frames : Give(IntV(frames[i].counter))
      BY <2>3 DEF Innermost1, Loops
    <3>2. frames[i].counter \in Nat
      BY <3>1, StateFacts DEF GoodFrame, FrameRecord
    <3>. QED
      BY <1>1, <2>1, <3>1, <3>2, GiveScalar
  <2>. QED
    BY <1>5, <2>2, <2>3 DEF LoopVar
<1>. QED
  BY <1>2, <1>3, <1>4, <1>5

(* A producer allocates a node of its own.                                 *)
LEMMA MakeFreeGood ==
  ASSUME IInv, NEW x, x \in GoodNode(Len(builder.nodes) + 1, Len(input))
  PROVE  /\ make_free(builder, x) \in GoodBuilder(Len(input))
         /\ Len(make_free(builder, x).nodes) = Len(builder.nodes) + 1
         /\ Cap(FreeId(builder)) \in GoodValue(Len(builder.nodes) + 1)
<1>1. Len(input) \in Nat /\ Len(builder.nodes) \in Nat
      /\ builder \in GoodBuilder(Len(input))
  BY StateFacts DEF IInv
<1>2. Len(builder.nodes) + 1 \in Nat
      /\ Len(builder.nodes) + 1 \in 1..(Len(builder.nodes) + 1)
  BY <1>1, SMT
<1>3. Cap(FreeId(builder)) \in GoodValue(Len(builder.nodes) + 1)
  BY <1>2, GoodValues DEF FreeId
<1>. QED
  BY <1>1, <1>3, AllocateGood DEF make_free

(* @buffer is a node over what the scope has consumed so far.              *)
LEMMA BufferGood ==
  ASSUME IInv, Buffer
  PROVE  IInv'
<1> DEFINE x == FreshNode("", Plain("Bytes"), current_scope_start(builder),
                          pos, -1)
           n == Len(builder.nodes)
<1>1. /\ n \in Nat /\ n + 1 \in Nat /\ n <= n + 1 /\ Len(input) \in Nat
      /\ Len(input) - pos \in Nat
  BY StateFacts, SMT
<1>2. current_scope_start(builder) \in 0..Len(input) /\ pos \in 0..Len(input)
  BY <1>1, ScopeStartInBuffer DEF IInv
<1>3. x \in GoodNode(n + 1, Len(input))
  <2>1. Plain("Bytes") \in CaptureType /\ Plain("Bytes").k = "Bytes"
    BY PlainGood DEF CaptureKinds
  <2>2. -1 \in Int
    BY SMT
  <2>3. "" \in Name
    BY DEF Name
  <2>. QED
    BY <1>1, <1>2, <2>1, <2>2, <2>3, FreshNodeGood
<1>4. /\ K # <<>> /\ ac' = Cap(FreeId(builder)) /\ K' = Rest
      /\ builder' = make_free(builder, x)
      /\ UNCHANGED <<job, best, failed, pos, slots, depth, le, env, frames>>
  BY DEF Buffer, Control, status, window, store
<1> HIDE DEF x
<1>5. /\ builder' \in GoodBuilder(Len(input)) /\ Len(builder'.nodes) = n + 1
      /\ ac' \in GoodValue(Len(builder'.nodes))
  BY <1>3, <1>4, MakeFreeGood
<1>6. Rest \in GoodStack(n, Len(input) - pos)
  BY <1>4, TopFacts
<1>7. K' \in GoodStack(Len(builder'.nodes), Len(input) - pos)
  BY <1>1, <1>4, <1>5, <1>6, StackMonotonic
<1>. QED
  BY <1>4, <1>5, <1>7, Preserved DEF IInv

(* The operands of the operators are expressions.                          *)
LEMMA OperandFacts ==
  ASSUME IInv, K # <<>>
  PROVE  /\ C.kind \in {"Bin", "Logical", "IndexAccess"} =>
              IsExpr(C.left) /\ IsExpr(C.right)
         /\ C.kind \in {"Un", "FieldAccess", "CaptureValue"} => IsExpr(C.operand)
         /\ C.kind = "Ternary" =>
              IsExpr(C.cond) /\ IsExpr(C.then) /\ IsExpr(C.else)
         /\ C.kind \in SiteKinds \cup {"PushInterval"} => IsExpr(C.expr)
BY TopFacts, Zenon DEF KontOK

(* Binary operators and indexing push their apply kont, EvalLeft and the   *)
(* right operand.                                                          *)
LEMMA BinOpGood ==
  ASSUME IInv, BinOp
  PROVE  IInv'
<1> DEFINE n == Len(builder.nodes)
           room == Len(input) - pos
           left == Kont("left", Top.node, <<>>, 0)
           ks == <<Apply(Top.node), left, Run(C.right)>>
<1>1. /\ K # <<>> /\ C.kind \in {"Bin", "IndexAccess"}
      /\ Schedule(ks)
  BY DEF BinOp, Control
<1>2. /\ n \in Nat /\ room \in Nat /\ Top.node \in KontId /\ Top.node \in Nat
      /\ Owing(Top.node) <= room
      /\ Rest # <<>> => Above(Top)
  BY <1>1, StateFacts, TopFacts
<1>3. Apply(Top.node) \in GoodKont(n, room)
  BY <1>1, <1>2, ApplyGood DEF C
<1>4. left \in GoodKont(n, room)
  <2>1. <<>> \in Seq(Value) /\ <<>> \in Seq(GoodValue(n)) /\ 0 \in Nat
    BY EmptySeq
  <2>. QED
    BY <1>2, <2>1, Zenon DEF Kont, GoodKont, KontRecord, Roles
<1>5. /\ Above(left) /\ Paired(left, Apply(Top.node))
      /\ Apply(Top.node).role # "left" /\ Above(Apply(Top.node))
  BY <1>1 DEF Above, Paired, Kont, Apply, C, ExprKinds
<1>6. IsExpr(C.right)
  BY <1>1, OperandFacts
<1>7. /\ Run(C.right) \in GoodKont(n, room)
      /\ Above(Run(C.right)) /\ Paired(Run(C.right), left)
  <2>1. C.right \in KontId /\ Owing(C.right) = 0
    BY <1>6, OwingFacts DEF IsExpr
  <2>2. Owing(C.right) <= room
    BY <1>2, <2>1, SMT
  <2>3. Run(C.right) \in GoodKont(n, room)
    BY <1>2, <2>1, <2>2, RunGood
  <2>. QED
    BY <1>6, <2>3 DEF Above, Paired, Run, Kont, IsExpr
<1>8. ks \in GoodStack(n, room) /\ ks[1] = Apply(Top.node)
  BY <1>2, <1>3, <1>4, <1>5, <1>7, ThreeStack
<1> HIDE DEF ks, left
<1>. QED
  BY <1>1, <1>5, <1>8, ScheduleGood

(* EvalLeft stores the right operand in the apply kont under it.           *)
LEMMA EvalLeftGood ==
  ASSUME IInv, EvalLeft
  PROVE  IInv'
<1> DEFINE n == Len(builder.nodes)
           room == Len(input) - pos
           a == Len(Rest)
           under == [Rest[a] EXCEPT !.vals = <<ac>>]
           s == [Rest EXCEPT ![a] = under]
<1>1. /\ K # <<>> /\ C.kind \in {"Bin", "IndexAccess"} /\ Top.role = "left"
      /\ K' = Append(s, Run(C.left))
      /\ UNCHANGED <<job, best, failed, pos, slots, depth, le, env, frames, ac, builder>>
  BY DEF EvalLeft, Control, status, window, store
<1>2. /\ n \in Nat /\ room \in Nat
      /\ Rest \in GoodStack(n, room) /\ Rest # <<>>
      /\ Paired(Top, Rest[a])
  BY <1>1, StateFacts, TopFacts
<1>3. a \in 1..a
  BY <1>2, StackFacts, SMT
<1>4. Rest[a] \in GoodKont(n, room) /\ Rest[a].node = Top.node
      /\ Rest[a].role = "apply"
  BY <1>1, <1>2, <1>3, StackFacts DEF Paired
<1>5. under \in GoodKont(n, room)
  <2>1. ac \in GoodValue(n) /\ ac \in Value
    BY <1>2, GoodValues DEF IInv
  <2>2. <<ac>> \in Seq(GoodValue(n)) /\ <<ac>> \in Seq(Value) /\ Len(<<ac>>) = 1
    BY <2>1
  <2>3. Prog[Rest[a].node].kind # "Call"
    BY <1>1, <1>4 DEF C
  <2>. QED
    BY <1>4, <2>2, <2>3, Zenon DEF GoodKont, KontRecord
<1>6. under.role = Rest[a].role /\ under.node = Rest[a].node
  BY <1>4, Zenon DEF GoodKont, KontRecord
<1> HIDE DEF under
<1>7. s \in GoodStack(n, room)
  BY <1>2, <1>3, <1>5, <1>6, ReplaceOnStack
<1>8. IsExpr(C.left)
  BY <1>1, OperandFacts
<1>9. C.left \in KontId /\ Owing(C.left) = 0
  BY <1>8, OwingFacts DEF IsExpr
<1>10. Owing(C.left) <= room /\ Prog[C.left].kind \in ExprKinds
  BY <1>2, <1>8, <1>9, SMT DEF IsExpr
<1> HIDE DEF s
<1>11. K' \in GoodStack(n, room)
  BY <1>1, <1>2, <1>7, <1>9, <1>10, PushRun
<1>. QED
  BY <1>1, <1>11, Preserved DEF IInv

(* A kont that waits for one expression.                                   *)
LEMMA AwaitGood ==
  ASSUME IInv, K # <<>>, C.kind # "Call", NEW e, IsExpr(e),
         Schedule(<<Apply(Top.node), Run(e)>>)
  PROVE  IInv'
<1> DEFINE ks == <<Apply(Top.node), Run(e)>>
<1>1. Len(builder.nodes) \in Nat
  BY StateFacts
<1>2. /\ ks \in GoodStack(Len(builder.nodes), Len(input) - pos)
      /\ Rest # <<>> /\ ks # <<>> => Above(ks[1])
  BY <1>1, AwaitStack
<1> HIDE DEF ks
<1>3. Schedule(ks)
  BY DEF ks
<1>. QED
  BY <1>2, <1>3, ScheduleGood

(* An expression that goes on as another expression.                       *)
LEMMA RunExprGood ==
  ASSUME IInv, K # <<>>, NEW e, IsExpr(e), Schedule(<<Run(e)>>)
  PROVE  IInv'
<1>1. /\ Len(builder.nodes) \in Nat /\ Len(input) - pos \in Nat
      /\ e \in KontId /\ Owing(e) = 0
  BY StateFacts, OwingFacts DEF IsExpr
<1>2. Owing(e) <= Len(input) - pos
  BY <1>1, SMT
<1>3. /\ Run(e) \in GoodKont(Len(builder.nodes), Len(input) - pos)
      /\ Run(e).role # "left" /\ Above(Run(e))
  BY <1>1, <1>2, RunGood DEF Run, Kont, Above, IsExpr
<1>4. /\ <<Run(e)>> \in GoodStack(Len(builder.nodes), Len(input) - pos)
      /\ <<Run(e)>>[1] = Run(e)
  BY <1>1, <1>3, OneStack
<1>. QED
  BY <1>3, <1>4, ScheduleGood

(* Unary, logical, ternary and where-check sites: push an operand's kont,  *)
(* or store the value they computed.                                       *)
LEMMA OperatorGood ==
  ASSUME IInv, UnOp \/ Logical \/ Ternary \/ Site
  PROVE  IInv'
<1>1. CASE UnOp
  <2>1. /\ K # <<>> /\ C.kind \in {"Un", "FieldAccess", "CaptureValue"}
        /\ Schedule(<<Apply(Top.node), Run(C.operand)>>)
    BY <1>1 DEF UnOp, Control
  <2>2. C.kind # "Call" /\ IsExpr(C.operand)
    BY <2>1, OperandFacts
  <2>. QED
    BY <2>1, <2>2, AwaitGood
<1>2. CASE Logical
  <2>1. /\ K # <<>> /\ C.kind = "Logical"
        /\ Schedule(<<Apply(Top.node), Run(C.left)>>)
    BY <1>2 DEF Logical, Control
  <2>2. C.kind # "Call" /\ IsExpr(C.left)
    BY <2>1, OperandFacts
  <2>. QED
    BY <2>1, <2>2, AwaitGood
<1>3. CASE Ternary
  <2>1. /\ K # <<>> /\ C.kind = "Ternary"
        /\ Schedule(<<Apply(Top.node), Run(C.cond)>>)
    BY <1>3 DEF Ternary, Control
  <2>2. C.kind # "Call" /\ IsExpr(C.cond)
    BY <2>1, OperandFacts
  <2>. QED
    BY <2>1, <2>2, AwaitGood
<1>4. CASE Site
  <2>1. /\ K # <<>> /\ C.kind \in SiteKinds
        /\ Schedule(<<Apply(Top.node), Run(C.expr)>>)
    BY <1>4 DEF Site, Control
  <2>2. C.kind # "Call" /\ IsExpr(C.expr)
    BY <2>1, OperandFacts DEF SiteKinds
  <2>. QED
    BY <2>1, <2>2, AwaitGood
<1>. QED
  BY <1>1, <1>2, <1>3, <1>4

(* Arithmetic on integers yields integers.                                 *)
LEMMA ArithInt ==
  ASSUME NEW a \in Int, NEW b \in Int,
         NEW op \in {"+", "-", "*", "/", "%"}, op \in {"/", "%"} => b # 0
  PROVE  Arith(op, a, b) \in Int
<1>1. Abs(a) \in Nat /\ Abs(b) \in Nat /\ (b # 0 => Abs(b) > 0)
  BY SMT DEF Abs
<1>2. b # 0 => Abs(a) \div Abs(b) \in Int
  BY <1>1, SMT
<1>3. b # 0 => Quotient(a, b) \in Int
  <2> DEFINE q == Abs(a) \div Abs(b)
  <2> HIDE DEF q
  <2>1. b # 0 => q \in Int
    BY <1>2 DEF q
  <2>2. b # 0 => -q \in Int
    BY <2>1, SMT
  <2>3. Quotient(a, b) = IF (a < 0) = (b < 0) THEN q ELSE -q
    BY DEF Quotient, q
  <2>. QED
    BY <2>1, <2>2, <2>3
<1>4. op = "+" => Arith(op, a, b) = a + b
  BY DEF Arith
<1>5. op = "-" => Arith(op, a, b) = a - b
  BY DEF Arith
<1>6. op = "*" => Arith(op, a, b) = a * b
  BY DEF Arith
<1>7. op = "/" => Arith(op, a, b) = Quotient(a, b)
  BY DEF Arith
<1>8. op = "%" => Arith(op, a, b) = a - b * Quotient(a, b)
  BY DEF Arith
<1>9. b # 0 => a - b * Quotient(a, b) \in Int
  BY <1>3, SMT
<1>10. a + b \in Int /\ a - b \in Int /\ a * b \in Int
  BY SMT
<1>. QED
  BY <1>3, <1>4, <1>5, <1>6, <1>7, <1>8, <1>9, <1>10, Zenon

(* The right operand waits in the apply kont.                              *)
LEMMA HeldValues ==
  ASSUME IInv, K # <<>>
  PROVE  /\ Top.vals \in Seq(GoodValue(Len(builder.nodes)))
         /\ \A i \in 1..Len(Top.vals) : Top.vals[i].v \in Int
         /\ Top.role = "apply" /\ C.kind \in {"Bin", "IndexAccess"} =>
              Len(Top.vals) = 1
         /\ Top.role = "apply" /\ C.kind = "Call" =>
              Len(Top.vals) = Len(C.args)
         /\ ac.v \in Int
<1>1. Top.vals \in Seq(GoodValue(Len(builder.nodes)))
  BY TopFacts DEF GoodKont
<1>2. \A i \in 1..Len(Top.vals) : Top.vals[i] \in GoodValue(Len(builder.nodes))
  BY <1>1, ElementOfSeq
<1>3. \A v \in GoodValue(Len(builder.nodes)) : v.v \in Int
  BY DEF GoodValue, Value
<1>4. /\ Top.role = "apply" /\ C.kind \in {"Bin", "IndexAccess"} =>
           Len(Top.vals) = 1
      /\ Top.role = "apply" /\ C.kind = "Call" => Len(Top.vals) = Len(C.args)
  BY TopFacts DEF GoodKont, C
<1>5. ac \in GoodValue(Len(builder.nodes))
  BY DEF IInv
<1>. QED
  BY <1>1, <1>2, <1>3, <1>4, <1>5

(* BinOpApplyKont: both operands stored, one value out.                    *)
LEMMA ApplyBinGood ==
  ASSUME IInv, ApplyBin
  PROVE  IInv'
<1>1. K # <<>> /\ C.kind = "Bin" /\ Top.role = "apply"
  BY DEF ApplyBin, Control
<1>2. ac.v \in Int /\ Top.vals[1].v \in Int
  <2>0. Len(Top.vals) = 1
    BY <1>1, HeldValues
  <2>1. 1 \in 1..Len(Top.vals)
    BY <2>0, SMT
  <2>. QED
    BY <1>1, <2>1, HeldValues
<1>3. CASE Fail
  BY <1>1, <1>3, FailGood
<1>4. CASE /\ C.op \in {"+", "-", "*", "/", "%"}
           /\ C.op \in {"/", "%"} => Top.vals[1].v # 0
           /\ Give(IntV(Arith(C.op, ac.v, Top.vals[1].v)))
  <2>1. Arith(C.op, ac.v, Top.vals[1].v) \in Int
    BY <1>2, <1>4, ArithInt
  <2>2. IntV(Arith(C.op, ac.v, Top.vals[1].v)) \in Scalar
    BY <2>1, StateFacts, GoodValues
  <2>. QED
    BY <1>1, <1>4, <2>2, GiveScalar
<1>5. CASE \E p : Give(BoolV(p))
  <2>1. \A p : BoolV(p) \in Scalar
    BY StateFacts, GoodValues
  <2>. QED
    BY <1>1, <1>5, <2>1, GiveScalar
<1>. QED
  BY <1>3, <1>4, <1>5, Zenon DEF ApplyBin

(* Negation and the truth operators.                                       *)
LEMMA TruthGood ==
  ASSUME IInv, ApplyUn \/ LogicalCheck \/ Normalize \/ TernaryDispatch
  PROVE  IInv'
<1>1. K # <<>>
  BY DEF ApplyUn, LogicalCheck, Normalize, TernaryDispatch, Control
<1>2. (\A i \in Int : IntV(i) \in Scalar) /\ \A p : BoolV(p) \in Scalar
  BY StateFacts, GoodValues
<1>3. CASE Fail
  BY <1>1, <1>3, FailGood
<1>4. CASE Give(IntV(-ac.v)) \/ \E p : Give(BoolV(p))
  <2>1. ac.v \in Int
    BY <1>1, HeldValues
  <2>2. -ac.v \in Int
    BY <2>1, SMT
  <2>. QED
    BY <1>1, <1>2, <1>4, <2>2, GiveScalar
<1>5. CASE TernaryDispatch /\ ~Fail
  <2> DEFINE e == IF Truth(ac) THEN C.then ELSE C.else
  <2>1. C.kind = "Ternary" /\ Schedule(<<Run(e)>>)
    BY <1>5 DEF TernaryDispatch, Control
  <2>2. IsExpr(e)
    BY <1>1, <2>1, OperandFacts
  <2> HIDE DEF e
  <2>. QED
    BY <1>1, <2>1, <2>2, RunExprGood
<1>6. CASE C.kind = "Logical"
           /\ Schedule(<<Kont("norm", Top.node, <<>>, 0), Run(C.right)>>)
  <2> DEFINE n == Len(builder.nodes)
             room == Len(input) - pos
             norm == Kont("norm", Top.node, <<>>, 0)
  <2>1. /\ n \in Nat /\ room \in Nat /\ Top.node \in KontId /\ Top.node \in Nat
        /\ Owing(Top.node) <= room
    BY <1>1, StateFacts, TopFacts
  <2>2. norm \in GoodKont(n, room)
    <3>1. <<>> \in Seq(Value) /\ <<>> \in Seq(GoodValue(n)) /\ 0 \in Nat
      BY EmptySeq
    <3>. QED
      BY <2>1, <3>1, Zenon DEF Kont, GoodKont, KontRecord, Roles
  <2>3. norm.role # "left" /\ Above(norm)
    BY <1>6 DEF Kont, Above, C, ExprKinds
  <2>4. C.right \in KontId /\ Owing(C.right) = 0 /\ IsExpr(C.right)
    BY <1>1, <1>6, OperandFacts, OwingFacts DEF IsExpr
  <2>5. Owing(C.right) <= room
    BY <2>1, <2>4, SMT
  <2>6. /\ Run(C.right) \in GoodKont(n, room)
        /\ Above(Run(C.right)) /\ Paired(Run(C.right), norm)
    BY <2>1, <2>4, <2>5, RunGood DEF Run, Kont, Above, Paired, IsExpr
  <2> HIDE DEF norm
  <2>7. /\ <<norm, Run(C.right)>> \in GoodStack(n, room)
        /\ <<norm, Run(C.right)>>[1] = norm
    BY <2>1, <2>2, <2>3, <2>6, TwoStack
  <2>. QED
    BY <1>1, <1>6, <2>3, <2>7, ScheduleGood DEF norm
<1>7. CASE ApplyUn
  BY <1>3, <1>4, <1>7, Zenon DEF ApplyUn
<1>8. CASE LogicalCheck
  <2>1. C.kind = "Logical"
    BY <1>8 DEF LogicalCheck, Control
  <2>. QED
    BY <1>3, <1>4, <1>6, <1>8, <2>1, Zenon DEF LogicalCheck
<1>9. CASE Normalize
  BY <1>3, <1>4, <1>9, Zenon DEF Normalize
<1>. QED
  BY <1>3, <1>5, <1>7, <1>8, <1>9

(* Calls: the apply kont waits under its arguments.                        *)
LEMMA CallGood ==
  ASSUME IInv, Call
  PROVE  IInv'
<1> DEFINE m == Len(builder.nodes)
           room == Len(input) - pos
           n == Len(C.args)
           nulls == [i \in 1..n |-> Null]
           wait == Kont("apply", Top.node, nulls, 0)
           Arg(j) == n - ((j + 1) \div 2)
           F(j) == IF j % 2 = 1 THEN Kont("arg", Top.node, <<>>, Arg(j))
                                ELSE Run(C.args[Arg(j) + 1])
           t == [j \in 1..(2 * n) |-> F(j)]
<1>1. K # <<>> /\ C.kind = "Call" /\ Schedule(<<wait>> \o t)
  BY DEF Call, Control
<1>2. /\ m \in Nat /\ room \in Nat /\ Top.node \in KontId /\ Top.node \in Nat
      /\ Owing(Top.node) <= room /\ 0 <= room
      /\ Rest # <<>> => Above(Top)
  BY <1>1, StateFacts, TopFacts, SMT
<1>3. C.args \in Seq(KontId) /\ \A i \in DOMAIN C.args : IsExpr(C.args[i])
  BY <1>1, TopFacts, Zenon DEF KontOK
<1>4. n \in Nat /\ DOMAIN C.args = 1..n
  BY <1>3, LenProperties
<1>5. \A k : k.node = Top.node => Above(k)
  BY <1>1, Zenon DEF Above, C, ExprKinds
<1>6. wait \in GoodKont(m, room) /\ wait.role # "left" /\ Above(wait)
  <2>1. Null \in Value /\ Null \in GoodValue(m)
    BY <1>2, GoodValues DEF Scalar
  <2>2. nulls \in Seq(Value) /\ nulls \in Seq(GoodValue(m)) /\ Len(nulls) = n
    BY <1>4, <2>1, IsASeq
  <2> HIDE DEF nulls
  <2>3. wait \in KontRecord /\ wait.node = Top.node /\ wait.role = "apply"
        /\ wait.vals = nulls
    BY <1>2, <2>2, SMT DEF Kont, KontRecord, Roles
  <2>4. Prog[Top.node].kind = "Call" /\ n = Len(Prog[Top.node].args)
    BY <1>1 DEF C
  <2> HIDE DEF wait, n
  <2>. QED
    BY <1>2, <1>5, <2>2, <2>3, <2>4, Zenon DEF GoodKont
<1>7. ASSUME NEW j \in 1..(2 * n)
      PROVE  /\ F(j) \in GoodKont(m, room) /\ F(j).role # "left" /\ Above(F(j))
  <2> DEFINE i == Arg(j)
  <2>1. i \in Nat /\ i + 1 \in 1..n
    BY <1>4, SMT
  <2> HIDE DEF i
  <2>2. CASE j % 2 = 1
    <3>1. F(j) = Kont("arg", Top.node, <<>>, i)
      BY <2>2 DEF i
    <3>2. <<>> \in Seq(Value) /\ <<>> \in Seq(GoodValue(m))
      BY EmptySeq
    <3>3. Kont("arg", Top.node, <<>>, i) \in GoodKont(m, room)
      BY <1>2, <2>1, <3>2, Zenon DEF Kont, GoodKont, KontRecord, Roles
    <3>4. /\ Kont("arg", Top.node, <<>>, i).role # "left"
          /\ Kont("arg", Top.node, <<>>, i).node = Top.node
      BY DEF Kont
    <3>. QED
      BY <1>5, <3>1, <3>3, <3>4
  <2>3. CASE j % 2 # 1
    <3>1. F(j) = Run(C.args[i + 1])
      BY <2>3 DEF i
    <3>2. IsExpr(C.args[i + 1])
      BY <1>3, <1>4, <2>1
    <3>3. C.args[i + 1] \in KontId /\ Owing(C.args[i + 1]) = 0
      BY <3>2, OwingFacts DEF IsExpr
    <3>4. Run(C.args[i + 1]) \in GoodKont(m, room)
      BY <1>2, <3>3, RunGood
    <3>5. Run(C.args[i + 1]).role # "left" /\ Above(Run(C.args[i + 1]))
      BY <3>2 DEF Run, Kont, Above, IsExpr
    <3>. QED
      BY <3>1, <3>4, <3>5
  <2>. QED
    BY <2>2, <2>3
<1> HIDE DEF F
<1>8. 2 * n \in Nat
  BY <1>4, SMT
<1>9. /\ t \in Seq(GoodKont(m, room)) /\ Len(t) = 2 * n
      /\ \A j \in 1..(2 * n) : t[j] = F(j)
  BY <1>7, <1>8, IsASeq
<1>10. t \in GoodStack(m, room)
  <2>1. \A j \in 2..Len(t) : j \in 1..(2 * n)
    BY <1>8, <1>9, SMT
  <2>2. t # <<>> => 1 \in 1..(2 * n)
    <3>1. t # <<>> => Len(t) # 0
      BY <1>9, EmptySeq
    <3>. QED
      BY <1>8, <1>9, <3>1, SMT
  <2>. QED
    BY <1>7, <1>9, <2>1, <2>2, Zenon DEF GoodStack, Paired
<1>11. t # <<>> => Above(t[1])
  <2>1. t # <<>> => Len(t) # 0
    BY <1>9, EmptySeq
  <2>2. t # <<>> => 1 \in 1..(2 * n)
    BY <1>8, <1>9, <2>1, SMT
  <2>. QED
    BY <1>7, <1>9, <2>2
<1> HIDE DEF t, wait
<1>12. <<wait>> \in GoodStack(m, room)
  BY <1>2, <1>6, OneStack
<1>13. <<wait>> \o t \in GoodStack(m, room)
  BY <1>2, <1>10, <1>11, <1>12, ConcatStack
<1>14. (<<wait>> \o t)[1] = wait
  <2>1. <<wait>> \in Seq({wait} \cup GoodKont(m, room)) /\ Len(<<wait>>) = 1
    OBVIOUS
  <2>2. t \in Seq(GoodKont(m, room))
    BY <1>9
  <2>3. <<wait>> \in Seq(GoodKont(m, room))
    BY <1>6
  <2>4. 1 \in 1..(Len(<<wait>>) + Len(t)) /\ 1 <= Len(<<wait>>)
    BY <1>8, <1>9, <2>1, SMT
  <2>5. (<<wait>> \o t)[1] = <<wait>>[1]
    BY <2>2, <2>3, <2>4, ConcatProperties
  <2>. QED
    BY <2>5
<1>. QED
  BY <1>1, <1>6, <1>13, <1>14, ScheduleGood

(* An argument's value goes into its slot of the apply kont.               *)
LEMMA ArgStoreGood ==
  ASSUME IInv, ArgStore
  PROVE  IInv'
<1> DEFINE m == Len(builder.nodes)
           room == Len(input) - pos
           a == Len(Rest) - 2 * (Len(C.args) - 1 - Top.i)
           vals == [Rest[a].vals EXCEPT ![Top.i + 1] = ac]
           k == [Rest[a] EXCEPT !.vals = vals]
           s == [Rest EXCEPT ![a] = k]
<1>1. /\ K # <<>> /\ K' = s
      /\ UNCHANGED <<job, best, failed, pos, slots, depth, le, env, frames, ac, builder>>
  BY DEF ArgStore, Control, status, window, store
<1>2. m \in Nat /\ room \in Nat /\ Rest \in GoodStack(m, room)
  BY <1>1, StateFacts, TopFacts
<1>3. Rest \in Seq(GoodKont(m, room)) /\ DOMAIN Rest = 1..Len(Rest)
  BY <1>2, StackFacts
<1> HIDE DEF a
<1>4. CASE a \notin DOMAIN Rest
  <2>1. s = Rest
    BY <1>3, <1>4, ExceptOutside
  <2>. QED
    BY <1>1, <1>2, <2>1, Preserved DEF IInv
<1>5. CASE a \in DOMAIN Rest
  <2>1. a \in 1..Len(Rest) /\ Rest[a] \in GoodKont(m, room)
    BY <1>3, <1>5, ElementOfSeq
  <2>2. Rest[a].vals \in Seq(GoodValue(m))
    BY <2>1 DEF GoodKont
  <2>3. ac \in GoodValue(m)
    BY DEF IInv
  <2>4. vals \in Seq(GoodValue(m)) /\ Len(vals) = Len(Rest[a].vals)
    <3>1. CASE Top.i + 1 \notin DOMAIN Rest[a].vals
      BY <2>2, <3>1, ExceptOutside
    <3>2. CASE Top.i + 1 \in DOMAIN Rest[a].vals
      <4>1. Top.i + 1 \in 1..Len(Rest[a].vals)
        BY <2>2, <3>2, LenProperties
      <4>. QED
        BY <2>2, <2>3, <4>1, ExceptSeq
    <3>. QED
      BY <3>1, <3>2
  <2> HIDE DEF vals
  <2>5. vals \in Seq(Value)
    <3>1. GoodValue(m) \subseteq Value
      BY <1>2, GoodValues
    <3>. QED
      BY <2>4, <3>1, SeqMonotonic
  <2>6. k \in GoodKont(m, room) /\ k.role = Rest[a].role
        /\ k.node = Rest[a].node
    BY <2>1, <2>4, <2>5, Zenon DEF GoodKont, KontRecord
  <2> HIDE DEF k
  <2>7. s \in GoodStack(m, room)
    BY <1>2, <2>1, <2>6, ReplaceOnStack
  <2>. QED
    BY <1>1, <2>7, Preserved DEF IInv
<1>. QED
  BY <1>4, <1>5

(* CallApplyKont: the builtin runs on the arguments stored so far.         *)
LEMMA CallApplyGood ==
  ASSUME IInv, CallApply
  PROVE  IInv'
<1> DEFINE a == Top.vals
<1>1. K # <<>> /\ Top.role = "apply" /\ C.kind = "Call"
  BY DEF CallApply, Control
<1>2. Len(a) = Len(C.args) /\ \A i \in 1..Len(a) : a[i].v \in Int
  BY <1>1, HeldValues
<1>3. \A i \in Int : IntV(i) \in Scalar
  BY StateFacts, GoodValues
<1>0. /\ Arity["abs"] = 1 /\ Arity["min"] = 2 /\ Arity["max"] = 2
      /\ Arity["clamp"] = 3
  BY DEF Arity
<1>4. CASE Fail
  BY <1>1, <1>4, FailGood
<1>5. CASE /\ C.func \in DOMAIN Arity /\ Arity[C.func] = Len(C.args)
           /\ C.func = "abs" /\ Give(IntV(Abs(a[1].v)))
  <2>1. Len(a) = 1
    BY <1>0, <1>2, <1>5
  <2>2. 1 \in 1..Len(a)
    BY <2>1, SMT
  <2>3. a[1].v \in Int
    BY <1>2, <2>2
  <2>4. Abs(a[1].v) \in Int
    BY <2>3, SMT DEF Abs
  <2>. QED
    BY <1>1, <1>3, <1>5, <2>4, GiveScalar
<1>6. CASE /\ C.func \in DOMAIN Arity /\ Arity[C.func] = Len(C.args)
           /\ \/ C.func = "min" /\ Give(IntV(Lesser(a[1].v, a[2].v)))
              \/ C.func = "max" /\ Give(IntV(Greater(a[1].v, a[2].v)))
  <2>1. Len(a) = 2
    BY <1>0, <1>2, <1>6
  <2>2. 1 \in 1..Len(a) /\ 2 \in 1..Len(a)
    BY <2>1, SMT
  <2>3. a[1].v \in Int /\ a[2].v \in Int
    BY <1>2, <2>2
  <2>4. Lesser(a[1].v, a[2].v) \in Int /\ Greater(a[1].v, a[2].v) \in Int
    BY <2>3 DEF Lesser, Greater
  <2>. QED
    BY <1>1, <1>3, <1>6, <2>4, GiveScalar
<1>7. CASE /\ C.func \in DOMAIN Arity /\ Arity[C.func] = Len(C.args)
           /\ C.func = "clamp"
           /\ Give(IntV(IF a[1].v < a[2].v THEN a[2].v
                        ELSE Lesser(a[1].v, a[3].v)))
  <2>1. Len(a) = 3
    BY <1>0, <1>2, <1>7
  <2>2. 1 \in 1..Len(a) /\ 2 \in 1..Len(a) /\ 3 \in 1..Len(a)
    BY <2>1, SMT
  <2>3. a[1].v \in Int /\ a[2].v \in Int /\ a[3].v \in Int
    BY <1>2, <2>2
  <2>4. (IF a[1].v < a[2].v THEN a[2].v ELSE Lesser(a[1].v, a[3].v)) \in Int
    BY <2>3 DEF Lesser
  <2>. QED
    BY <1>1, <1>3, <1>7, <2>4, GiveScalar
<1>8. CASE pos < effective_end /\ Give(IntV(Byte(pos)))
  <2>1. /\ pos \in Nat /\ Len(input) \in Nat
        /\ effective_end \in Nat /\ effective_end <= Len(input)
    BY StateFacts, WindowFacts
  <2>2. pos < Len(input)
    BY <1>8, <2>1, SMT
  <2>3. Byte(pos) \in Int
    BY <2>1, <2>2, ByteGood
  <2>. QED
    BY <1>1, <1>3, <1>8, <2>3, GiveScalar
<1>. QED
  BY <1>4, <1>5, <1>6, <1>7, <1>8, Zenon DEF CallApply

(* A path lookup delivers an allocated node.                               *)
LEMMA PathGood ==
  ASSUME IInv, PathStart \/ FieldAccessApply \/ IndexAccessApply
  PROVE  IInv'
<1> DEFINE n == Len(builder.nodes)
<1>1. K # <<>>
  BY DEF PathStart, FieldAccessApply, IndexAccessApply, Control
<1>2. n \in Nat /\ Len(input) \in Nat /\ builder \in GoodBuilder(Len(input))
  BY StateFacts DEF IInv
<1>3. CASE Fail
  BY <1>1, <1>3, FailGood
<1>4. CASE \E id \in 1..n : Give(Cap(id))
  <2>1. \A id \in 1..n : Cap(id) \in GoodValue(n)
    BY <1>2, GoodValues
  <2>. QED
    BY <1>1, <1>4, <2>1, GiveGood
<1>5. CASE PathStart
  <2>1. find_field(builder, C.name) \subseteq 1..n
    BY <1>2, FoundGood
  <2>. QED
    BY <1>3, <1>4, <1>5, <2>1, Zenon DEF PathStart
<1>6. CASE FieldAccessApply
  <2>1. find_child(builder, ac.v, C.name) \subseteq 1..n
    BY <1>2, FoundGood
  <2>. QED
    BY <1>3, <1>4, <1>6, <2>1, Zenon DEF FieldAccessApply
<1>7. CASE IndexAccessApply
  <2>1. find_child_at(builder, ac.v, Top.vals[1].v) \subseteq 1..n
    BY <1>2, FoundGood
  <2>. QED
    BY <1>3, <1>4, <1>7, <2>1, Zenon DEF IndexAccessApply
<1>. QED
  BY <1>5, <1>6, <1>7

(* The node a "cap" accumulator points at.                                 *)
LEMMA CarriedNode ==
  ASSUME IInv, ac.t = "cap"
  PROVE  /\ ac.v \in 1..Len(builder.nodes)
         /\ builder.nodes[ac.v] \in GoodNode(Len(builder.nodes), Len(input))
<1>1. ac.v \in 1..Len(builder.nodes)
  BY DEF IInv, GoodValue
<1>2. Len(input) \in Nat /\ builder \in GoodBuilder(Len(input))
  BY StateFacts DEF IInv
<1>. QED
  BY <1>1, <1>2, BuilderFacts

(* CaptureValueApplyKont: adds a computed field to the document.           *)
LEMMA CaptureValueGood ==
  ASSUME IInv, CaptureValueApply
  PROVE  IInv'
<1> DEFINE n == builder.nodes[ac.v]
<1>1. K # <<>>
  BY DEF CaptureValueApply, Control
<1>2. CASE Fail
  BY <1>1, <1>2, FailGood
<1>3. ASSUME ac.t = "cap"
      PROVE  /\ n.val \in Scalar /\ n.start \in Nat
             /\ n.type.k = "Int" => /\ n.type.width \in {1, 2, 4}
                                    /\ n.start + n.type.width <= Len(input)
             /\ n.type.k = "Bool" => n.start < Len(input)
  BY <1>3, CarriedNode DEF GoodNode, Node
<1>4. CASE ac.t = "cap" /\ Give(n.val)
  BY <1>1, <1>3, <1>4, GiveScalar
<1>5. CASE /\ ac.t = "cap" /\ n.type.k \in {"Int", "Bool"}
           /\ Give(decode_int(n))
  <2>1. \A i \in Int : IntV(i) \in Scalar
    BY StateFacts, GoodValues
  <2>2. CASE n.type.k = "Bool"
    <3>1. decode_int(n) = IntV(IF Byte(n.start) # 0 THEN 1 ELSE 0)
      BY <2>2 DEF decode_int
    <3>2. decode_int(n) \in Scalar
      BY <2>1, <3>1
    <3>. QED
      BY <1>1, <1>5, <3>2, GiveScalar
  <2>3. CASE n.type.k # "Bool"
    <3>1. n.type.k = "Int"
      BY <1>5, <2>3
    <3>2. Number(n.start, n.type.width, n.type.signed, n.type.le) \in Int
      BY <1>3, <1>5, <3>1, NumberInt
    <3>3. decode_int(n)
            = IntV(Number(n.start, n.type.width, n.type.signed, n.type.le))
      BY <2>3 DEF decode_int
    <3>. QED
      BY <1>1, <1>5, <2>1, <3>2, <3>3, GiveScalar
  <2>. QED
    BY <2>2, <2>3
<1>. QED
  BY <1>2, <1>4, <1>5, Zenon DEF CaptureValueApply

(* Evaluating expressions.                                                 *)
LEMMA EvaluateGood ==
  ASSUME IInv, Evaluate
  PROVE  IInv'
BY LeafGood, BufferGood, BinOpGood, EvalLeftGood, ApplyBinGood, OperatorGood,
   TruthGood, CallGood, ArgStoreGood, CallApplyGood, PathGood,
   CaptureValueGood, Zenon DEF Evaluate

-----------------------------------------------------------------------------
(* Spine konts.                                                            *)

(* What the successor of a spine kont owes.                                *)
LEMMA NextFacts ==
  ASSUME IInv, K # <<>>, C.kind \in ChainKinds
  PROVE  /\ C.kind \in SpineKinds /\ C.next \in KontId /\ Owing(C.next) \in Nat
         /\ C.owes \in Nat /\ C.owes <= Len(input) - pos
         /\ C.kind \in {"Capture", "StoreEnv", "EvalConstraint"} =>
              Owing(C.next) <= Len(input) - pos
         /\ C.kind = "AdvancePos" => C.by = C.owes /\ Owing(C.next) = 0
         /\ C.kind = "ExtractBits" => Owing(C.next) <= C.prim.width
         /\ C.kind \notin {"Capture", "StoreEnv", "EvalConstraint",
                           "AdvancePos", "ExtractBits"} => Owing(C.next) = 0
<1>1. C.kind \in SpineKinds
  BY DEF SpineKinds
<1>2. C.next \in KontId
  BY TopFacts, Zenon DEF KontOK, IsSpine
<1>3. Owing(C.next) \in Nat
  BY <1>2, OwingFacts
<1>4. C.owes \in Nat
  BY <1>1, TopFacts, Zenon DEF KontOK
<1>5. C.owes = Owing(Top.node) /\ Owing(Top.node) <= Len(input) - pos
  BY <1>1, SpineAlone, TopFacts
<1>6. DebtOK(C)
  BY TopFacts
<1>7. C.kind \in {"Capture", "StoreEnv", "EvalConstraint"} =>
        Owing(C.next) = C.owes
  BY <1>6, Zenon DEF DebtOK
<1>8. C.kind = "AdvancePos" => C.owes = C.by /\ Owing(C.next) = 0
  BY <1>6, Zenon DEF DebtOK
<1>9. C.kind = "ExtractBits" => Owing(C.next) <= C.prim.width
  BY <1>6, Zenon DEF DebtOK
<1>10. C.kind \notin {"Capture", "StoreEnv", "EvalConstraint", "AdvancePos",
                      "ExtractBits"} => Owing(C.next) = 0
  BY <1>6, Zenon DEF DebtOK
<1>11. C.owes <= Len(input) - pos
  BY <1>5
<1>. QED
  BY <1>1, <1>2, <1>3, <1>4, <1>7, <1>8, <1>9, <1>10, <1>11, Zenon

(* A spine kont that changes good registers to good ones and continues.    *)
LEMMA ContinueGood ==
  ASSUME IInv, K # <<>>, C.kind \in SpineKinds,
         NEW n \in KontId, Owing(n) <= Len(input) - pos', Continue(n),
         job' = job, best' = best, failed' = failed,
         le' \in BOOLEAN, pos' \in 0..Len(input),
         slots' \in Seq(GoodSlot(Len(input))), depth' \in 0..Len(slots'),
         env' \in GoodEnv,
         frames' \in Seq(GoodFrame(Len(slots'), Len(input))),
         builder' \in GoodBuilder(Len(input)),
         ac' \in GoodValue(Len(builder'.nodes))
  PROVE  IInv'
<1>1. Len(input) \in Nat
  BY StateFacts
<1>2. Len(input) - pos' \in Nat
  BY <1>1, SMT
<1>3. Len(builder'.nodes) \in Nat
  BY <1>1, BuilderFacts
<1>4. K' \in GoodStack(Len(builder'.nodes), Len(input) - pos')
  BY <1>2, <1>3, ContinueStack DEF Continue
<1>5. failed' \in BOOLEAN /\ best' \in 0..Len(input)
  BY DEF IInv
<1>. QED
  BY <1>4, <1>5, Preserved

(* A spine kont that only goes somewhere else.                             *)
LEMMA GotoGood ==
  ASSUME IInv, K # <<>>, C.kind \in SpineKinds,
         NEW n \in KontId, Owing(n) <= Len(input) - pos, Schedule(<<Run(n)>>)
  PROVE  IInv'
<1>1. Len(builder.nodes) \in Nat /\ Len(input) - pos \in Nat
  BY StateFacts
<1>2. Run(n) \in GoodKont(Len(builder.nodes), Len(input) - pos)
      /\ Run(n).role # "left"
  BY <1>1, RunGood DEF Run, Kont
<1>3. <<Run(n)>> \in GoodStack(Len(builder.nodes), Len(input) - pos)
  BY <1>1, <1>2, OneStack
<1>4. Rest = <<>>
  BY SpineAlone
<1>. QED
  BY <1>3, <1>4, ScheduleGood

(* Nothing is owed: any distance to the end will do.                       *)
LEMMA DebtFree ==
  ASSUME IInv, NEW p \in 0..Len(input), NEW n, Owing(n) = 0
  PROVE  Owing(n) <= Len(input) - p
<1>1. Len(input) \in Nat
  BY StateFacts
<1>. QED
  BY <1>1, SMT

(* EvalConstraintCheckKont: goes on, or leaves along its static link.      *)
LEMMA EvalConstraintGood ==
  ASSUME IInv, EvalConstraintCheck
  PROVE  IInv'
<1>1. K # <<>> /\ C.kind = "EvalConstraint" /\ C.kind \in SpineKinds
  BY DEF EvalConstraintCheck, Control, SpineKinds, ChainKinds
<1>2. CASE Fail
  BY <1>1, <1>2, FailGood
<1>3. CASE Schedule(<<Run(C.next)>>)
  <2>1. C.next \in KontId /\ Owing(C.next) <= Len(input) - pos
    BY <1>1, NextFacts DEF ChainKinds
  <2>. QED
    BY <1>1, <1>3, <2>1, GotoGood
<1>4. CASE C.on_false # Nil /\ Schedule(<<Run(C.on_false)>>)
  <2>1. IsFailOrNil(C.on_false) \/ IsSpine(C.on_false)
    BY <1>1, TopFacts, Zenon DEF KontOK
  <2>2. C.on_false \in KontId
    BY <1>4, <2>1 DEF IsFailOrNil, IsFail, IsSpine
  <2>3. Owing(C.on_false) = 0
    BY <1>1, TopFacts, Zenon DEF DebtOK
  <2>4. pos \in 0..Len(input)
    BY DEF IInv
  <2>5. Owing(C.on_false) <= Len(input) - pos
    BY <2>3, <2>4, DebtFree
  <2>. QED
    BY <1>1, <1>4, <2>2, <2>5, GotoGood
<1>. QED
  BY <1>2, <1>3, <1>4, Zenon DEF EvalConstraintCheck

(* A producer that owes nothing: it leaves a good node and moves on.       *)
LEMMA ProduceGood ==
  ASSUME IInv, K # <<>>,
         C.kind \in {"BindCompute", "MatchBytes", "MatchPrimitive",
                     "ExternalCall"},
         pos' \in 0..Len(input),
         \E x \in GoodNode(Len(builder.nodes) + 1, Len(input)) : Produce(x)
  PROVE  IInv'
<1>1. PICK x \in GoodNode(Len(builder.nodes) + 1, Len(input)) : Produce(x)
  OBVIOUS
<1>2. /\ C.kind \in SpineKinds /\ C.next \in KontId /\ Owing(C.next) = 0
  BY NextFacts, Zenon DEF ChainKinds
<1>3. /\ ac' = Cap(FreeId(builder)) /\ builder' = make_free(builder, x)
      /\ Continue(C.next)
      /\ UNCHANGED <<job, best, failed, slots, depth, le, env, frames>>
  BY <1>1 DEF Produce, status, window, store
<1>4. /\ builder' \in GoodBuilder(Len(input))
      /\ ac' \in GoodValue(Len(builder'.nodes))
  BY <1>3, MakeFreeGood
<1>5. Owing(C.next) <= Len(input) - pos'
  BY <1>2, DebtFree
<1>. QED
  BY <1>2, <1>3, <1>4, <1>5, ContinueGood DEF IInv

(* The nodes producers leave.                                              *)
LEMMA SpanGood ==
  ASSUME NEW m \in Nat, NEW len \in Nat, NEW type \in CaptureType,
         NEW start \in 0..len, NEW end \in 0..len,
         type.k = "Int" => type.width \in {1, 2, 4} /\ start + type.width <= len,
         type.k = "Bool" => start < len
  PROVE  /\ Span(type, start, end) \in GoodNode(m, len)
         /\ \A v \in Scalar :
              [Span(type, start, end) EXCEPT !.val = v] \in GoodNode(m, len)
         /\ \A v \in Scalar, e \in {"Fixed", "Uleb", "Sleb"} :
              [Span(type, start, end) EXCEPT !.enc = e, !.val = v]
                \in GoodNode(m, len)
         /\ \A v \in Scalar, b \in Bits :
              [Span(type, start, end) EXCEPT !.bits = b, !.val = v]
                \in GoodNode(m, len)
<1> DEFINE x == Span(type, start, end)
<1>1. x \in GoodNode(m, len)
  <2> DEFINE none == -1
             nullptr == ""
  <2>1. none \in Int /\ nullptr \in Name
    BY SMT DEF Name
  <2>2. x = FreshNode(nullptr, type, start, end, none)
    BY DEF Span
  <2> HIDE DEF none, nullptr, x
  <2>3. FreshNode(nullptr, type, start, end, none) \in GoodNode(m, len)
    BY <2>1, FreshNodeGood
  <2>. QED
    BY <2>2, <2>3
<1> HIDE DEF x
<1>2. ASSUME NEW v \in Scalar
      PROVE  [x EXCEPT !.val = v] \in GoodNode(m, len)
  BY <1>1, NodeExceptGood
<1>3. ASSUME NEW v \in Scalar, NEW e \in {"Fixed", "Uleb", "Sleb"}
      PROVE  [x EXCEPT !.enc = e, !.val = v] \in GoodNode(m, len)
  <2> DEFINE y == [x EXCEPT !.enc = e]
  <2>1. y \in GoodNode(m, len)
    BY <1>1, NodeExceptGood
  <2>2. [x EXCEPT !.enc = e, !.val = v] = [y EXCEPT !.val = v]
    OBVIOUS
  <2> HIDE DEF y
  <2>. QED
    BY <2>1, <2>2, NodeExceptGood
<1>4. ASSUME NEW v \in Scalar, NEW b \in Bits
      PROVE  [x EXCEPT !.bits = b, !.val = v] \in GoodNode(m, len)
  <2> DEFINE y == [x EXCEPT !.bits = b]
  <2>1. y \in GoodNode(m, len)
    BY <1>1, NodeExceptGood
  <2>2. [x EXCEPT !.bits = b, !.val = v] = [y EXCEPT !.val = v]
    OBVIOUS
  <2> HIDE DEF y
  <2>. QED
    BY <2>1, <2>2, NodeExceptGood
<1>5. /\ x \in GoodNode(m, len)
      /\ \A v \in Scalar : [x EXCEPT !.val = v] \in GoodNode(m, len)
      /\ \A v \in Scalar, e \in {"Fixed", "Uleb", "Sleb"} :
           [x EXCEPT !.enc = e, !.val = v] \in GoodNode(m, len)
      /\ \A v \in Scalar, b \in Bits :
           [x EXCEPT !.bits = b, !.val = v] \in GoodNode(m, len)
  BY <1>1, <1>2, <1>3, <1>4, Zenon
<1>. QED
  BY <1>5, Zenon DEF x

(* Nodes whose type says nothing about the bytes.                          *)
LEMMA PlainSpanGood ==
  ASSUME NEW m \in Nat, NEW len \in Nat,
         NEW k \in CaptureKinds \ {"Int", "Bool"},
         NEW start \in 0..len, NEW end \in 0..len
  PROVE  /\ Span(Plain(k), start, end) \in GoodNode(m, len)
         /\ \A v \in Scalar :
              [Span(Plain(k), start, end) EXCEPT !.val = v] \in GoodNode(m, len)
         /\ \A v \in Scalar, e \in {"Fixed", "Uleb", "Sleb"} :
              [Span(Plain(k), start, end) EXCEPT !.enc = e, !.val = v]
                \in GoodNode(m, len)
         /\ \A v \in Scalar, b \in Bits :
              [Span(Plain(k), start, end) EXCEPT !.bits = b, !.val = v]
                \in GoodNode(m, len)
<1> DEFINE t == Plain(k)
<1>1. t \in CaptureType /\ t.k = k
  BY PlainGood
<1>2. t.k # "Int" /\ t.k # "Bool"
  BY <1>1
<1> HIDE DEF t
<1>3. /\ Span(t, start, end) \in GoodNode(m, len)
      /\ \A v \in Scalar :
           [Span(t, start, end) EXCEPT !.val = v] \in GoodNode(m, len)
      /\ \A v \in Scalar, e \in {"Fixed", "Uleb", "Sleb"} :
           [Span(t, start, end) EXCEPT !.enc = e, !.val = v]
             \in GoodNode(m, len)
      /\ \A v \in Scalar, b \in Bits :
           [Span(t, start, end) EXCEPT !.bits = b, !.val = v]
             \in GoodNode(m, len)
  BY <1>1, <1>2, SpanGood, Zenon
<1>. QED
  BY <1>3, Zenon DEF t

(* BindComputeStoreKont: binds a computed value in the environment.        *)
LEMMA BindComputeGood ==
  ASSUME IInv, BindComputeStore
  PROVE  IInv'
<1> DEFINE m == Len(builder.nodes) + 1
           v == lower_computed(ac)
           x == [Span(Plain("Computed"), pos, pos) EXCEPT !.val = v]
<1>1. K # <<>> /\ C.kind = "BindCompute"
  BY DEF BindComputeStore, Control
<1>2. m \in Nat /\ Len(input) \in Nat /\ pos \in 0..Len(input)
  BY StateFacts, SMT DEF IInv
<1>3. v \in Scalar
  <2>1. ac \in Value /\ IntV(0) \in Scalar
    BY StateFacts, GoodValues, SMTT(60) DEF IInv
  <2>. QED
    BY <2>1 DEF lower_computed, Scalar
<1>4. "Computed" \in CaptureKinds \ {"Int", "Bool"}
  BY DEF CaptureKinds
<1> HIDE DEF v, m
<1>5. x \in GoodNode(m, Len(input))
  BY <1>2, <1>3, <1>4, PlainSpanGood
<1>6. CASE Fail
  BY <1>1, <1>6, FailGood
<1> HIDE DEF x
<1>7. CASE UNCHANGED pos /\ Produce(x)
  <2>1. pos' \in 0..Len(input)
    BY <1>2, <1>7
  <2>. QED
    BY <1>1, <1>5, <1>7, <2>1, ProduceGood DEF m
<1>. QED
  BY <1>6, <1>7 DEF BindComputeStore, x, v

(* SetEndianApplyKont: only the byte order changes.                        *)
LEMMA SetEndianGood ==
  ASSUME IInv, SetEndianApply
  PROVE  IInv'
<1>1. K # <<>> /\ C.kind = "SetEndian"
  BY DEF SetEndianApply, Control
<1>2. CASE Fail
  BY <1>1, <1>2, FailGood
<1>3. CASE ~Fail
  <2>1. /\ le' = Truth(ac) /\ Continue(C.next)
        /\ UNCHANGED <<job, best, failed, pos, slots, depth, env, frames, ac,
                       builder>>
    BY <1>3 DEF SetEndianApply, status, window, store
  <2>2. /\ C.kind \in SpineKinds /\ C.next \in KontId /\ Owing(C.next) = 0
    BY <1>1, NextFacts DEF ChainKinds
  <2>3. pos' \in 0..Len(input) /\ le' \in BOOLEAN
    BY <2>1 DEF IInv, Truth
  <2>4. Owing(C.next) <= Len(input) - pos'
    BY <2>2, <2>3, DebtFree
  <2>. QED
    BY <1>1, <2>1, <2>2, <2>3, <2>4, ContinueGood DEF IInv
<1>. QED
  BY <1>2, <1>3

(* MatchBytesApplyKont: the run it reads fits in the window.               *)
LEMMA MatchBytesGood ==
  ASSUME IInv, MatchBytesApply
  PROVE  IInv'
<1> DEFINE m == Len(builder.nodes) + 1
           k == IF C.is_string THEN "String" ELSE "Bytes"
           end == pos + ac.v
<1>1. K # <<>> /\ C.kind = "MatchBytes"
  BY DEF MatchBytesApply, Control
<1>2. CASE Fail
  BY <1>1, <1>2, FailGood
<1>3. CASE ~Fail
  <2>1. Fits(ac.v) /\ pos' = end /\ Produce(Span(Plain(k), pos, end))
    BY <1>3 DEF MatchBytesApply
  <2>2. /\ m \in Nat /\ pos \in Nat /\ Len(input) \in Nat /\ pos <= Len(input)
        /\ effective_end \in Nat /\ effective_end <= Len(input)
        /\ ac.v \in Int
    BY <1>1, StateFacts, WindowFacts, HeldValues, SMTT(60)
  <2>3. pos \in 0..Len(input) /\ end \in 0..Len(input)
    BY <2>1, <2>2, SMT DEF Fits
  <2>4. k \in CaptureKinds \ {"Int", "Bool"}
    BY DEF CaptureKinds
  <2> HIDE DEF k, end, m
  <2>5. Span(Plain(k), pos, end) \in GoodNode(m, Len(input))
    BY <2>2, <2>3, <2>4, PlainSpanGood
  <2>. QED
    BY <1>1, <2>1, <2>3, <2>5, ProduceGood DEF m
<1>. QED
  BY <1>2, <1>3

(* SwitchSelectKont: pushes one arm, the default, or fails.                *)
LEMMA SwitchGood ==
  ASSUME IInv, SwitchSelect
  PROVE  IInv'
<1> DEFINE Take(tag, target) ==
             /\ builder' = set_pending_variant_tag(builder, tag)
             /\ Continue(target)
             /\ UNCHANGED <<status, pos, window, le, store, ac>>
           ordinals == {-1} \cup {C.cases[i].ordinal : i \in DOMAIN C.cases}
<1>1. K # <<>> /\ C.kind = "SwitchDispatch" /\ C.kind \in SpineKinds
  BY DEF SwitchSelect, Control, SpineKinds
<1>2. CASE Fail
  BY <1>1, <1>2, FailGood
<1>3. /\ C.default = Nil \/ IsSpine(C.default)
      /\ C.cases \in Seq([val : Value, target : KontId, ordinal : Nat])
      /\ Owing(C.default) = 0
      /\ \A i \in DOMAIN C.cases : Owing(C.cases[i].target) = 0
  BY <1>1, TopFacts, Zenon DEF KontOK, DebtOK
<1>4. \A i \in DOMAIN C.cases :
         C.cases[i].target \in KontId /\ C.cases[i].ordinal \in Nat
  <2>1. DOMAIN C.cases = 1..Len(C.cases)
    BY <1>3, LenProperties
  <2>2. \A i \in 1..Len(C.cases) :
          C.cases[i] \in [val : Value, target : KontId, ordinal : Nat]
    BY <1>3, ElementOfSeq
  <2>. QED
    BY <2>1, <2>2
<1>5. ASSUME NEW tag \in Int, NEW target \in KontId, Owing(target) = 0,
             Take(tag, target)
      PROVE  IInv'
  <2>1. /\ builder' = [builder EXCEPT !.tag = tag] /\ Continue(target)
        /\ UNCHANGED <<job, best, failed, pos, slots, depth, le, env, frames,
                       ac>>
    BY <1>5 DEF set_pending_variant_tag, status, window, store
  <2>2. Len(input) \in Nat /\ builder \in GoodBuilder(Len(input))
    BY StateFacts DEF IInv
  <2>3. builder' \in GoodBuilder(Len(input)) /\ builder'.nodes = builder.nodes
    BY <2>1, <2>2, PendingGood
  <2>4. pos' \in 0..Len(input)
    BY <2>1 DEF IInv
  <2>5. Owing(target) <= Len(input) - pos'
    BY <1>5, <2>4, DebtFree
  <2>. QED
    BY <1>1, <2>1, <2>3, <2>5, ContinueGood DEF IInv
<1>6. CASE \E i \in DOMAIN C.cases : Take(C.cases[i].ordinal, C.cases[i].target)
  <2>1. PICK i \in DOMAIN C.cases : Take(C.cases[i].ordinal, C.cases[i].target)
    BY <1>6
  <2>2. C.cases[i].target \in KontId /\ C.cases[i].ordinal \in Int
        /\ Owing(C.cases[i].target) = 0
    BY <1>3, <1>4
  <2> HIDE DEF Take
  <2>. QED
    BY <1>5, <2>1, <2>2
<1>7. CASE C.default # Nil /\ \E last \in ordinals : Take(last + 1, C.default)
  <2>1. PICK last \in ordinals : Take(last + 1, C.default)
    BY <1>7
  <2>2. last \in Int
    BY <1>4
  <2>3. last + 1 \in Int
    BY <2>2, SMT
  <2>4. C.default \in KontId /\ Owing(C.default) = 0
    BY <1>3, <1>7 DEF IsSpine
  <2> HIDE DEF Take
  <2>. QED
    BY <1>5, <2>1, <2>3, <2>4
<1>. QED
  BY <1>2, <1>6, <1>7, Zenon DEF SwitchSelect

(* SeekApplyKont: the target is checked against the input.                 *)
LEMMA SeekGood ==
  ASSUME IInv, SeekApply
  PROVE  IInv'
<1>1. K # <<>> /\ C.kind = "Seek"
  BY DEF SeekApply, Control
<1>2. CASE Fail
  BY <1>1, <1>2, FailGood
<1>3. CASE ~Fail
  <2>1. /\ 0 <= ac.v /\ ac.v <= Len(input) /\ pos' = ac.v /\ Continue(C.next)
        /\ UNCHANGED <<job, best, failed, slots, depth, le, env, frames, ac,
                       builder>>
    BY <1>3 DEF SeekApply, status, window, store
  <2>2. /\ C.kind \in SpineKinds /\ C.next \in KontId /\ Owing(C.next) = 0
    BY <1>1, NextFacts DEF ChainKinds
  <2>3. ac.v \in Int /\ Len(input) \in Nat
    BY <1>1, HeldValues, StateFacts
  <2>4. pos' \in 0..Len(input)
    BY <2>1, <2>3, SMT
  <2>5. Owing(C.next) <= Len(input) - pos'
    BY <2>2, <2>4, DebtFree
  <2>. QED
    BY <1>1, <2>1, <2>2, <2>4, <2>5, ContinueGood DEF IInv
<1>. QED
  BY <1>2, <1>3

(* A spine kont that waits for its expression, having changed some of the  *)
(* registers.                                                              *)
LEMMA WaitGood ==
  ASSUME IInv, K # <<>>, C.kind \in SpineKinds, NEW e, IsExpr(e),
         K' = Rest \o <<Apply(Top.node), Run(e)>>,
         UNCHANGED <<job, pos, best, failed, le, slots, depth>>,
         env' \in GoodEnv,
         frames' \in Seq(GoodFrame(Len(slots), Len(input))),
         builder' \in GoodBuilder(Len(input)),
         ac' \in GoodValue(Len(builder'.nodes))
  PROVE  IInv'
<1> DEFINE n == Len(builder'.nodes)
           ks == <<Apply(Top.node), Run(e)>>
<1>1. n \in Nat
  BY StateFacts, BuilderFacts
<1>2. C.kind # "Call"
  BY Zenon DEF SpineKinds, ChainKinds
<1>3. ks \in GoodStack(n, Len(input) - pos)
  BY <1>1, <1>2, AwaitStack
<1>4. Rest = <<>>
  BY SpineAlone
<1>5. K' = ks
  BY <1>4
<1> HIDE DEF ks
<1>. QED
  BY <1>3, <1>5, Preserved DEF IInv

(* PushIntervalNode: pushes the evaluation of its start or its end.        *)
LEMMA PushIntervalGood ==
  ASSUME IInv, PushInterval
  PROVE  IInv'
<1>1. /\ K # <<>> /\ C.kind = "PushInterval" /\ C.kind \in SpineKinds
      /\ builder' = IF C.relative /\ Len(C.path) = 1
                    THEN scope_determines_rest(builder, C.path) ELSE builder
      /\ K' = Rest \o <<Apply(Top.node), Run(C.expr)>>
      /\ UNCHANGED <<job, pos, best, failed, le, slots, depth, env, frames, ac>>
  BY DEF PushInterval, Control, status, window, store, SpineKinds, ChainKinds
<1>2. IsExpr(C.expr)
  BY <1>1, OperandFacts
<1>3. C.path \in Seq(STRING)
  BY <1>1, TopFacts, Zenon DEF KontOK
<1>4. Len(input) \in Nat /\ builder \in GoodBuilder(Len(input))
  BY StateFacts DEF IInv
<1>5. /\ scope_determines_rest(builder, C.path) \in GoodBuilder(Len(input))
      /\ Len(scope_determines_rest(builder, C.path).nodes) = Len(builder.nodes)
  BY <1>3, <1>4, ScopeMarksGood
<1>6. builder' \in GoodBuilder(Len(input))
      /\ Len(builder'.nodes) = Len(builder.nodes)
  BY <1>1, <1>4, <1>5
<1>. QED
  BY <1>1, <1>2, <1>6, WaitGood DEF IInv

(* A new window is in the buffer, and takes a new slot or a stale one.     *)
LEMMA SlotsGood ==
  ASSUME IInv, NEW w \in GoodSlot(Len(input))
  PROVE  /\ SlotsWith(w) \in Seq(GoodSlot(Len(input)))
         /\ Len(SlotsWith(w)) \in Nat
         /\ depth + 1 \in 0..Len(SlotsWith(w))
         /\ Len(slots) <= Len(SlotsWith(w))
<1>1. /\ slots \in Seq(GoodSlot(Len(input))) /\ Len(slots) \in Nat
      /\ depth \in Nat /\ depth <= Len(slots)
  BY StateFacts
<1>2. CASE depth = Len(slots)
  <2>1. SlotsWith(w) = Append(slots, w)
    BY <1>2 DEF SlotsWith
  <2>2. /\ Append(slots, w) \in Seq(GoodSlot(Len(input)))
        /\ Len(Append(slots, w)) = Len(slots) + 1
    BY <1>1, AppendProperties
  <2>. QED
    BY <1>1, <1>2, <2>1, <2>2, SMT
<1>3. CASE depth # Len(slots)
  <2>1. SlotsWith(w) = [slots EXCEPT ![depth + 1] = w]
    BY <1>3 DEF SlotsWith
  <2>2. depth + 1 \in 1..Len(slots)
    BY <1>1, <1>3, SMT
  <2>3. /\ [slots EXCEPT ![depth + 1] = w] \in Seq(GoodSlot(Len(input)))
        /\ Len([slots EXCEPT ![depth + 1] = w]) = Len(slots)
    BY <1>1, <2>2, ExceptSeq
  <2>4. depth + 1 \in 0..Len(slots) /\ Len(slots) <= Len(slots)
    BY <1>1, <2>2, SMT
  <2>. QED
    BY <1>1, <2>1, <2>3, <2>4
<1>. QED
  BY <1>2, <1>3

(* PushIntervalApplyKont: the window opened lies in the one around it.     *)
LEMMA PushIntervalApplyGood ==
  ASSUME IInv, PushIntervalApply
  PROVE  IInv'
<1> DEFINE v == IF ac.v < 0 THEN 0 ELSE ac.v
           hi == IF C.relative THEN pos + v ELSE v
           w == [lo |-> pos, hi |-> hi]
<1>1. K # <<>> /\ C.kind = "PushInterval"
  BY DEF PushIntervalApply, Control
<1>2. CASE Fail
  BY <1>1, <1>2, FailGood
<1>3. CASE ~Fail
  <2>1. /\ Nested(w) /\ slots' = SlotsWith(w) /\ depth' = depth + 1
        /\ Continue(C.next)
        /\ UNCHANGED <<job, best, failed, pos, le, env, frames, ac, builder>>
    BY <1>3 DEF PushIntervalApply, status, store
  <2>2. /\ C.kind \in SpineKinds /\ C.next \in KontId /\ Owing(C.next) = 0
    BY <1>1, NextFacts DEF ChainKinds
  <2>3. /\ pos \in Nat /\ effective_end \in Nat /\ Len(input) \in Nat
        /\ effective_end <= Len(input) /\ Len(slots) \in Nat
    BY StateFacts, WindowFacts
  <2>4. hi \in Nat
    <3>1. ac.v \in Int
      BY <1>1, HeldValues
    <3>2. v \in Nat
      BY <3>1, SMT
    <3> HIDE DEF v
    <3>. QED
      BY <2>3, <3>2, SMT
  <2>5. hi <= effective_end
    BY <2>1 DEF Nested
  <2> HIDE DEF hi
  <2>6. hi <= Len(input)
    BY <2>3, <2>4, <2>5, SMT
  <2>7. w \in GoodSlot(Len(input))
    BY <2>3, <2>4, <2>6, Zenon DEF GoodSlot, Slot
  <2> HIDE DEF w
  <2>8. /\ slots' \in Seq(GoodSlot(Len(input))) /\ Len(slots') \in Nat
        /\ depth' \in 0..Len(slots') /\ Len(slots) <= Len(slots')
    BY <2>1, <2>7, SlotsGood
  <2>9. frames' \in Seq(GoodFrame(Len(slots'), Len(input)))
    <3>1. GoodFrame(Len(slots), Len(input))
            \subseteq GoodFrame(Len(slots'), Len(input))
      BY <2>3, <2>8, FrameMonotonic
    <3>2. frames \in Seq(GoodFrame(Len(slots), Len(input)))
      BY DEF IInv
    <3>. QED
      BY <2>1, <3>1, <3>2, SeqMonotonic
  <2>10. pos' \in 0..Len(input)
    BY <2>1 DEF IInv
  <2>11. Owing(C.next) <= Len(input) - pos'
    BY <2>2, <2>10, DebtFree
  <2>. QED
    BY <1>1, <2>1, <2>2, <2>8, <2>9, <2>10, <2>11, ContinueGood DEF IInv
<1>. QED
  BY <1>2, <1>3

(* PopIntervalNode: the cursor moves to the end of the window it leaves.   *)
LEMMA PopIntervalGood ==
  ASSUME IInv, PopInterval
  PROVE  IInv'
<1>1. K # <<>> /\ C.kind = "PopInterval"
  BY DEF PopInterval, Control
<1>2. CASE Fail
  BY <1>1, <1>2, FailGood
<1>3. CASE ~Fail
  <2>1. /\ depth' = IF depth > 0 THEN depth - 1 ELSE depth
        /\ Continue(C.next)
        /\ UNCHANGED <<job, best, failed, pos, slots, le, env, frames, ac,
                       builder>>
    BY <1>3 DEF PopInterval, status, store
  <2>2. /\ C.kind \in SpineKinds /\ C.next \in KontId /\ Owing(C.next) = 0
    BY <1>1, NextFacts DEF ChainKinds
  <2>3. depth \in Nat /\ depth <= Len(slots) /\ Len(slots) \in Nat
    BY StateFacts
  <2>4. depth' \in 0..Len(slots)
    BY <2>1, <2>3, SMT
  <2>5. pos' \in 0..Len(input)
    BY <2>1 DEF IInv
  <2>6. Owing(C.next) <= Len(input) - pos'
    BY <2>2, <2>5, DebtFree
  <2>. QED
    BY <1>1, <2>1, <2>2, <2>4, <2>5, <2>6, ContinueGood DEF IInv
<1>. QED
  BY <1>2, <1>3

(* Reading bytes.                                                          *)
LEMMA LebInt ==
  ASSUME IInv, NEW p \in Nat, NEW n \in 1..5, NEW signed,
         p + n <= Len(input)
  PROVE  LebValue(p, n, signed) \in Int
<1> DEFINE D(i) == IF i >= n THEN 0
                   ELSE SignedDigit(Byte(p + i) % 128, 128, signed /\ i = n - 1)
<1>1. ASSUME NEW i \in 0..4 PROVE D(i) \in Int
  <2>1. CASE i >= n
    BY <2>1
  <2>2. CASE ~(i >= n)
    <3>0. Len(input) \in Nat
      BY StateFacts
    <3>1. p + i \in Nat /\ p + i < Len(input)
      BY <2>2, <3>0, SMT
    <3>2. Byte(p + i) \in Int
      BY <3>1, ByteGood
    <3>3. Byte(p + i) % 128 \in Int /\ 128 \in Int
      BY <3>2, SMT
    <3>4. SignedDigit(Byte(p + i) % 128, 128, signed /\ i = n - 1) \in Int
      BY <3>3, SignedDigitInt
    <3>. QED
      BY <2>2, <3>4
  <2>. QED
    BY <2>1, <2>2
<1>2. D(0) \in Int /\ D(1) \in Int /\ D(2) \in Int /\ D(3) \in Int /\ D(4) \in Int
  BY <1>1
<1>3. LebValue(p, n, signed)
        = D(0) + 128 * (D(1) + 128 * (D(2) + 128 * (D(3) + 128 * D(4))))
  BY DEF LebValue
<1> HIDE DEF D
<1>4. \A d \in Int, rest \in Int : d + 128 * rest \in Int
  BY SMT
<1>5. D(3) + 128 * D(4) \in Int
  BY <1>2, <1>4
<1>6. D(2) + 128 * (D(3) + 128 * D(4)) \in Int
  BY <1>2, <1>4, <1>5
<1>7. D(1) + 128 * (D(2) + 128 * (D(3) + 128 * D(4))) \in Int
  BY <1>2, <1>4, <1>6
<1>. QED
  BY <1>2, <1>3, <1>4, <1>7, SMTT(60)

(* MatchLebNode: reads byte by byte and stops at the window's end.         *)
LEMMA MatchLebGood ==
  ASSUME IInv, MatchLeb
  PROVE  IInv'
<1> DEFINE signed == C.prim.encoding = "Sleb"
           m == Len(builder.nodes) + 1
<1>1. K # <<>> /\ C.kind = "MatchPrimitive" /\ C.prim.encoding # "Fixed"
  BY DEF MatchLeb, Control
<1>2. CASE Fail
  BY <1>1, <1>2, FailGood
<1>3. CASE ~Fail
  <2>1. PICK n \in LebLengths(pos, effective_end, signed) :
          /\ pos' = pos + n
          /\ Produce([Span(Plain("Computed"), pos, pos + n) EXCEPT
                        !.enc = C.prim.encoding,
                        !.val = IntV(LebValue(pos, n, signed))])
    BY <1>3 DEF MatchLeb
  <2>2. n \in 1..5 /\ pos + n <= effective_end
    BY DEF LebLengths
  <2>3. /\ pos \in Nat /\ pos <= Len(input) /\ Len(input) \in Nat /\ m \in Nat
        /\ effective_end \in Nat /\ effective_end <= Len(input)
    BY StateFacts, WindowFacts, SMT
  <2> DEFINE end == pos + n
             v == IntV(LebValue(pos, n, signed))
             enc == C.prim.encoding
             x == [Span(Plain("Computed"), pos, end) EXCEPT !.enc = enc, !.val = v]
  <2>4. end <= Len(input) /\ end \in 0..Len(input) /\ pos \in 0..Len(input)
    BY <2>2, <2>3, SMT
  <2>5. v \in Scalar
    <3>1. LebValue(pos, n, signed) \in Int
      BY <2>2, <2>3, <2>4, LebInt
    <3>. QED
      BY <3>1, StateFacts, GoodValues
  <2>6. enc \in {"Fixed", "Uleb", "Sleb"}
    <3>1. C.prim \in PrimitiveInfo
      BY <1>1, TopFacts, Zenon DEF KontOK
    <3>. QED
      BY <3>1 DEF PrimitiveInfo
  <2>7. "Computed" \in CaptureKinds \ {"Int", "Bool"}
    BY DEF CaptureKinds
  <2>8. pos' = end /\ Produce(x)
    BY <2>1, SMTT(60)
  <2> HIDE DEF end, v, enc, m
  <2>9. x \in GoodNode(m, Len(input))
    BY <2>3, <2>4, <2>5, <2>6, <2>7, PlainSpanGood
  <2> HIDE DEF x
  <2>. QED
    BY <1>1, <2>4, <2>8, <2>9, ProduceGood DEF m
<1>. QED
  BY <1>2, <1>3

(* A fixed-width read, inside the buffer.                                  *)
LEMMA PrimitiveGood ==
  ASSUME IInv, NEW prim \in PrimitiveInfo, pos + prim.width <= Len(input)
  PROVE  /\ prim.width \in {1, 2, 4}
         /\ Number(pos, prim.width, prim.signed, WantLE(prim)) \in Int
         /\ read_primitive(pos, prim) \in Scalar
         /\ primitive_capture_type(prim) \in CaptureType
         /\ primitive_capture_type(prim).k \in {"Int", "Bool"}
         /\ primitive_capture_type(prim).k = "Int" =>
              primitive_capture_type(prim).width = prim.width
<1>1. prim.width \in {1, 2, 4} /\ prim.signed \in BOOLEAN
  BY DEF PrimitiveInfo
<1>2. Number(pos, prim.width, prim.signed, WantLE(prim)) \in Int
  BY <1>1, StateFacts, NumberInt
<1>3. read_primitive(pos, prim) \in Scalar
  BY <1>2, StateFacts, GoodValues DEF read_primitive
<1>4. CASE prim.kind = "Bool"
  <2>1. primitive_capture_type(prim) = Plain("Bool")
    BY <1>4 DEF primitive_capture_type
  <2>2. Plain("Bool") \in CaptureType /\ Plain("Bool").k = "Bool"
    BY PlainGood DEF CaptureKinds
  <2>. QED
    BY <1>1, <1>2, <1>3, <2>1, <2>2
<1>5. CASE prim.kind # "Bool"
  <2> DEFINE little == prim.width > 1 /\ WantLE(prim)
             t == [k |-> "Int", width |-> prim.width, signed |-> prim.signed,
                   le |-> little]
  <2>1. primitive_capture_type(prim) = t
    BY <1>5 DEF primitive_capture_type
  <2>2. little \in BOOLEAN
    OBVIOUS
  <2> HIDE DEF little
  <2>3. t \in CaptureType /\ t.k = "Int" /\ t.width = prim.width
    BY <1>1, <2>2, Zenon DEF CaptureType, CaptureKinds
  <2>. QED
    BY <1>1, <1>2, <1>3, <2>1, <2>3
<1>. QED
  BY <1>4, <1>5

(* MatchPrimitiveNode: the bytes are there before the cursor moves.        *)
LEMMA MatchPrimitiveGood ==
  ASSUME IInv, MatchPrimitive
  PROVE  IInv'
<1> DEFINE m == Len(builder.nodes) + 1
           end == pos + C.prim.width
           t == primitive_capture_type(C.prim)
           v == read_primitive(pos, C.prim)
           x == [Span(t, pos, end) EXCEPT !.val = v]
<1>1. K # <<>> /\ C.kind = "MatchPrimitive"
  BY DEF MatchPrimitive, Control
<1>2. CASE Fail
  BY <1>1, <1>2, FailGood
<1>3. CASE ~Fail
  <2>1. end <= effective_end /\ pos' = end /\ Produce(x)
    BY <1>3 DEF MatchPrimitive
  <2>2. C.prim \in PrimitiveInfo
    BY <1>1, TopFacts, Zenon DEF KontOK
  <2>3. C.prim.width \in {1, 2, 4}
    BY <2>2 DEF PrimitiveInfo
  <2>4. /\ pos \in Nat /\ pos <= Len(input) /\ Len(input) \in Nat /\ m \in Nat
        /\ effective_end \in Nat /\ effective_end <= Len(input)
    BY StateFacts, WindowFacts, SMT
  <2>5. /\ end \in 0..Len(input) /\ pos \in 0..Len(input)
        /\ end <= Len(input) /\ pos < Len(input)
    BY <2>1, <2>3, <2>4, SMTT(60)
  <2>6. /\ v \in Scalar /\ t \in CaptureType
        /\ t.k = "Int" => t.width = C.prim.width
    BY <2>2, <2>5, PrimitiveGood
  <2>7. /\ t.k = "Int" => t.width \in {1, 2, 4} /\ pos + t.width <= Len(input)
        /\ t.k = "Bool" => pos < Len(input)
    BY <2>3, <2>5, <2>6
  <2> HIDE DEF m, end, t, v
  <2>8. x \in GoodNode(m, Len(input))
    BY <2>4, <2>5, <2>6, <2>7, SpanGood
  <2> HIDE DEF x
  <2>. QED
    BY <1>1, <2>1, <2>5, <2>8, ProduceGood DEF m
<1>. QED
  BY <1>2, <1>3

(* ExtractBitsNode: checks the container, which AdvancePos relies on.      *)
LEMMA ExtractBitsGood ==
  ASSUME IInv, ExtractBits
  PROVE  IInv'
<1> DEFINE end == pos + C.prim.width
           raw == Number(pos, C.prim.width, C.prim.signed, WantLE(C.prim))
           msb_first == ~WantLE(C.prim)
           shift == IF msb_first THEN 8 * C.prim.width - C.offset - C.width
                                 ELSE C.offset
           field == (raw \div 2^shift) % 2^C.width
           bits == [entry |-> TRUE, start |-> shift, end |-> shift + C.width,
                    signed |-> C.signed]
           v == IntV(SignedDigit(field, 2^C.width, C.signed))
           x == [Span(Plain("Computed"), pos, end) EXCEPT
                   !.bits = bits, !.val = v]
           m == Len(builder.nodes) + 1
           b == make_free(builder, x)
<1>1. K # <<>> /\ C.kind = "ExtractBits"
  BY DEF ExtractBits, Control
<1>2. CASE Fail
  BY <1>1, <1>2, FailGood
<1>3. CASE ~Fail
  <2>1. /\ end <= effective_end
        /\ ac' = Cap(FreeId(builder))
        /\ builder' = scope_is_bits_run(b, msb_first)
        /\ Continue(C.next)
        /\ UNCHANGED <<job, best, failed, pos, slots, depth, le, env, frames>>
    BY <1>3 DEF ExtractBits, status, window, store
  <2>2. /\ C.prim \in PrimitiveInfo /\ C.width \in 1..30 /\ C.offset \in 0..30
        /\ C.signed \in BOOLEAN
        /\ C.offset + C.width <= 8 * C.prim.width
        /\ 8 * C.prim.width - C.offset - C.width <= 30
    BY <1>1, TopFacts, Zenon DEF KontOK
  <2>3. C.prim.width \in {1, 2, 4} /\ C.prim.signed \in BOOLEAN
    BY <2>2 DEF PrimitiveInfo
  <2>4. /\ pos \in Nat /\ pos <= Len(input) /\ Len(input) \in Nat /\ m \in Nat
        /\ effective_end \in Nat /\ effective_end <= Len(input)
    BY StateFacts, WindowFacts, SMT
  <2>5. /\ end \in 0..Len(input) /\ pos \in 0..Len(input) /\ end <= Len(input)
        /\ C.prim.width <= Len(input) - pos
    BY <2>1, <2>3, <2>4, SMTT(60)
  <2>6. raw \in Int
    BY <2>3, <2>4, <2>5, NumberInt
  <2>7. shift \in 0..30
    <3>1. 8 * C.prim.width - C.offset - C.width \in 0..30
      BY <2>2, <2>3, SMT
    <3>. QED
      BY <2>2, <3>1
  <2>8. 2^shift \in Nat \ {0} /\ 2^C.width \in Nat \ {0}
    <3>1. C.width \in 0..30
      BY <2>2, SMT
    <3>. QED
      BY <2>7, <3>1, ScaleAssumption
  <2>9. v \in Scalar
    <3> DEFINE s == 2^shift
               w == 2^C.width
    <3>1. s \in Nat \ {0} /\ w \in Nat \ {0}
      BY <2>8
    <3> HIDE DEF s, w, raw
    <3>2. (raw \div s) % w \in Int /\ w \in Int
      BY <2>6, <3>1, SMT
    <3>3. SignedDigit((raw \div s) % w, w, C.signed) \in Int
      BY <3>2, SignedDigitInt
    <3>. QED
      BY <3>3, StateFacts, GoodValues DEF s, w
  <2>10. bits \in Bits
    <3>1. shift \in Int /\ shift + C.width \in Int
      BY <2>2, <2>7, SMTT(60)
    <3> HIDE DEF shift
    <3>. QED
      BY <2>2, <3>1, Zenon DEF Bits
  <2>11. "Computed" \in CaptureKinds \ {"Int", "Bool"}
    BY DEF CaptureKinds
  <2>12. msb_first \in BOOLEAN
    OBVIOUS
  <2> HIDE DEF end, v, bits, msb_first, m
  <2>13. x \in GoodNode(m, Len(input))
    BY <2>4, <2>5, <2>9, <2>10, <2>11, PlainSpanGood
  <2> HIDE DEF x
  <2>14. /\ b \in GoodBuilder(Len(input)) /\ Len(b.nodes) = m
         /\ Cap(FreeId(builder)) \in GoodValue(m)
    BY <2>13, MakeFreeGood DEF m
  <2> HIDE DEF b
  <2>15. /\ builder' \in GoodBuilder(Len(input)) /\ Len(builder'.nodes) = m
    BY <2>1, <2>4, <2>12, <2>14, ScopeMarksGood
  <2>16. ac' \in GoodValue(Len(builder'.nodes))
    BY <2>1, <2>14, <2>15
  <2>17. /\ C.kind \in SpineKinds /\ C.next \in KontId
         /\ Owing(C.next) \in Nat /\ Owing(C.next) <= C.prim.width
    BY <1>1, NextFacts DEF ChainKinds
  <2>18. Owing(C.next) <= Len(input) - pos'
    BY <2>1, <2>3, <2>4, <2>5, <2>17, SMT
  <2>19. pos' \in 0..Len(input)
    BY <2>1, <2>5
  <2>. QED
    BY <1>1, <2>1, <2>15, <2>16, <2>17, <2>18, <2>19, ContinueGood DEF IInv
<1>. QED
  BY <1>2, <1>3

(* AdvancePos needs no check: what it steps over was owed, so it is there. *)
LEMMA AdvancePosGood ==
  ASSUME IInv, AdvancePos
  PROVE  IInv'
<1>1. /\ K # <<>> /\ C.kind = "AdvancePos" /\ pos' = pos + C.by
      /\ Continue(C.next)
      /\ UNCHANGED <<job, best, failed, slots, depth, le, env, frames, ac,
                     builder>>
  BY DEF AdvancePos, Control, status, window, store
<1>2. /\ C.kind \in SpineKinds /\ C.next \in KontId /\ Owing(C.next) = 0
      /\ C.by \in Nat /\ C.by <= Len(input) - pos
  BY <1>1, NextFacts DEF ChainKinds
<1>3. pos \in Nat /\ Len(input) \in Nat
  BY StateFacts
<1>4. pos' \in 0..Len(input)
  BY <1>1, <1>2, <1>3, SMT
<1>5. Owing(C.next) <= Len(input) - pos'
  BY <1>2, <1>4, DebtFree
<1>. QED
  BY <1>1, <1>2, <1>4, <1>5, ContinueGood DEF IInv

(* ExternalCallNode: moves by what the external parser reports.            *)
LEMMA ExternalCallGood ==
  ASSUME IInv, ExternalCall
  PROVE  IInv'
<1> DEFINE m == Len(builder.nodes) + 1
           by == ExternParse[C.func]
           end == pos + by
           x == Span(Plain("External"), pos, end)
<1>1. K # <<>> /\ C.kind = "ExternalCall"
  BY DEF ExternalCall, Control
<1>2. CASE Fail
  BY <1>1, <1>2, FailGood
<1>3. CASE ~Fail
  <2>1. /\ C.func \in DOMAIN ExternParse /\ by <= effective_end - pos
        /\ pos' = end /\ Produce(x)
    BY <1>3 DEF ExternalCall
  <2>2. by \in Nat
    BY <2>1, ExternAssumption
  <2>3. /\ pos \in Nat /\ pos <= Len(input) /\ Len(input) \in Nat /\ m \in Nat
        /\ effective_end \in Nat /\ effective_end <= Len(input)
    BY StateFacts, WindowFacts, SMT
  <2> HIDE DEF by
  <2>4. end \in 0..Len(input) /\ pos \in 0..Len(input)
    BY <2>1, <2>2, <2>3, SMT
  <2>5. "External" \in CaptureKinds \ {"Int", "Bool"}
    BY SMTT(60) DEF CaptureKinds
  <2> HIDE DEF end, m
  <2>6. x \in GoodNode(m, Len(input))
    BY <2>3, <2>4, <2>5, PlainSpanGood
  <2> HIDE DEF x
  <2>. QED
    BY <1>1, <2>1, <2>4, <2>6, ProduceGood DEF m
<1>. QED
  BY <1>2, <1>3

(* The store konts.                                                        *)
LEMMA CaptureGood ==
  ASSUME IInv, Capture
  PROVE  IInv'
<1> DEFINE n == Len(builder.nodes)
<1>1. K # <<>> /\ C.kind = "Capture"
  BY DEF Capture, Control
<1>2. CASE Fail
  BY <1>1, <1>2, FailGood
<1>3. CASE ~Fail
  <2>1. /\ ac.t = "cap"
        /\ builder' = add_field(builder, C.name, builder.nodes[ac.v])
        /\ Continue(C.next)
        /\ UNCHANGED <<job, best, failed, pos, slots, depth, le, env, frames, ac>>
    BY <1>3 DEF Capture, status, window, store
  <2>2. ac.v \in 1..n
    BY <2>1, CarriedNode
  <2>3. C.name \in STRING
    BY <1>1, TopFacts, Zenon DEF KontOK
  <2>4. /\ Len(input) \in Nat /\ builder \in GoodBuilder(Len(input))
        /\ n \in Nat
    BY StateFacts DEF IInv
  <2>5. builder' \in GoodBuilder(Len(input)) /\ Len(builder'.nodes) = n + 1
    BY <2>1, <2>2, <2>3, <2>4, AddFieldGood
  <2>6. ac' \in GoodValue(Len(builder'.nodes))
    <3>1. n + 1 \in Nat /\ n <= n + 1
      BY <2>4, SMT
    <3>2. GoodValue(n) \subseteq GoodValue(n + 1)
      BY <2>4, <3>1, GoodValues
    <3>. QED
      BY <2>1, <2>5, <3>2 DEF IInv
  <2>7. C.kind \in SpineKinds /\ C.next \in KontId
        /\ Owing(C.next) <= Len(input) - pos
    BY <1>1, NextFacts DEF ChainKinds
  <2>8. Owing(C.next) <= Len(input) - pos'
    BY <2>1, <2>7
  <2>. QED
    BY <1>1, <2>1, <2>5, <2>6, <2>7, <2>8, ContinueGood DEF IInv
<1>. QED
  BY <1>2, <1>3

(* StoreEnvNode: binds the value just matched.                             *)
LEMMA StoreEnvGood ==
  ASSUME IInv, StoreEnv
  PROVE  IInv'
<1> DEFINE v == builder.nodes[ac.v].val
           bind == [name |-> C.name, val |-> v]
<1>1. K # <<>> /\ C.kind = "StoreEnv"
  BY DEF StoreEnv, Control
<1>2. CASE Fail
  BY <1>1, <1>2, FailGood
<1>3. CASE ~Fail
  <2>1. /\ ac.t = "cap" /\ env' = Append(env, bind) /\ Continue(C.next)
        /\ UNCHANGED <<job, best, failed, pos, slots, depth, le, frames, ac,
                       builder>>
    BY <1>3 DEF StoreEnv, status, window
  <2>2. v \in Scalar
    BY <2>1, CarriedNode DEF GoodNode
  <2>3. C.name \in STRING
    BY <1>1, TopFacts, Zenon DEF KontOK
  <2> HIDE DEF v
  <2>4. bind \in [name : STRING, val : Scalar]
    BY <2>2, <2>3
  <2> HIDE DEF bind
  <2>5. env \in Seq([name : STRING, val : Scalar])
    BY DEF IInv, GoodEnv
  <2>6. env' \in GoodEnv
    BY <2>1, <2>4, <2>5, AppendProperties DEF GoodEnv
  <2>7. C.kind \in SpineKinds /\ C.next \in KontId
        /\ Owing(C.next) <= Len(input) - pos
    BY <1>1, NextFacts DEF ChainKinds
  <2>8. Owing(C.next) <= Len(input) - pos'
    BY <2>1, <2>7
  <2>. QED
    BY <1>1, <2>1, <2>6, <2>7, <2>8, ContinueGood DEF IInv
<1>. QED
  BY <1>2, <1>3

(* Sites, windows, reads and stores.                                       *)
LEMMA ConsumeGood ==
  ASSUME IInv, Consume
  PROVE  IInv'
BY OperatorGood, EvalConstraintGood, BindComputeGood, SetEndianGood,
   MatchBytesGood, SwitchGood, SeekGood, PushIntervalGood,
   PushIntervalApplyGood, PopIntervalGood, MatchLebGood, MatchPrimitiveGood,
   ExtractBitsGood, AdvancePosGood, ExternalCallGood, CaptureGood,
   StoreEnvGood, Zenon DEF Consume

-----------------------------------------------------------------------------
(* Frames pushed and popped.                                               *)

(* A new frame records where the machine is.                               *)
LEMMA FrameGood ==
  ASSUME IInv, K # <<>>, C.kind \in SpineKinds,
         NEW b \in GoodBuilder(Len(input))
  PROVE  /\ \A on_fail : IsFailOrNil(on_fail) =>
              Savepoint(on_fail, b) \in GoodFrame(Len(slots), Len(input))
         /\ \A limit \in Int :
              LoopFrame(limit) \in GoodFrame(Len(slots), Len(input))
         /\ \A on_fail, next :
              IsFailOrNil(on_fail) /\ IsSpine(next) /\ Owing(next) = 0 =>
                Frame("Return", on_fail, next, mark(b))
                  \in GoodFrame(Len(slots), Len(input))
<1> DEFINE d == Len(slots)
           len == Len(input)
<1>1. /\ d \in Nat /\ len \in Nat /\ pos \in Nat /\ pos <= len
      /\ depth \in Nat /\ depth <= d /\ le \in BOOLEAN /\ env \in GoodEnv
      /\ builder \in GoodBuilder(len)
  BY StateFacts DEF IInv
<1>2. env \in Seq(Binding)
  <2>1. [name : STRING, val : Scalar] \subseteq Binding
    BY DEF Binding, Scalar
  <2>. QED
    BY <1>1, <2>1, SeqMonotonic DEF GoodEnv
<1>3. Len(Rest) = 0
  BY SpineAlone
<1>4. 0 \in Nat /\ -1 \in Int /\ Nil \in Nat /\ IsFailOrNil(Nil)
  BY SMT DEF Nil, IsFailOrNil
<1>5. \A n \in KontId : n \in Nat
  BY OwingFacts
<1>6. mark(b) \in Mark /\ mark(builder) \in Mark
  BY <1>1, MarkType
<1>7. ASSUME NEW type \in {"Savepoint", "Loop", "Return"},
             NEW on_fail, IsFailOrNil(on_fail), NEW next \in Nat,
             NEW m \in Mark, NEW limit \in Int,
             type = "Return" => IsSpine(next) /\ Owing(next) = 0
      PROVE  [type |-> type, on_fail |-> on_fail, next |-> next, pos |-> pos,
              depth |-> depth, le |-> le, ksize |-> 0, mark |-> m, env |-> env,
              counter |-> 0, limit |-> limit] \in GoodFrame(d, len)
  <2>1. on_fail \in Nat
    BY <1>7, FailLinkFacts
  <2> HIDE DEF d, len
  <2>. QED
    BY <1>1, <1>2, <1>4, <1>7, <2>1, Zenon DEF GoodFrame, FrameRecord
<1> DEFINE none == -1
<1>8. none \in Int
  BY <1>4
<1>9. \A type, on_fail, next, m :
        Frame(type, on_fail, next, m)
          = [type |-> type, on_fail |-> on_fail, next |-> next, pos |-> pos,
             depth |-> depth, le |-> le, ksize |-> 0, mark |-> m, env |-> env,
             counter |-> 0, limit |-> none]
  BY <1>3 DEF Frame
<1> HIDE DEF none
<1>10. ASSUME NEW on_fail, IsFailOrNil(on_fail)
       PROVE  Savepoint(on_fail, b) \in GoodFrame(d, len)
  <2>1. Frame("Savepoint", on_fail, Nil, mark(b)) \in GoodFrame(d, len)
    BY <1>4, <1>6, <1>7, <1>8, <1>9, <1>10
  <2>. QED
    BY <2>1 DEF Savepoint
<1>11. ASSUME NEW limit \in Int
       PROVE  LoopFrame(limit) \in GoodFrame(d, len)
  <2> DEFINE f == Frame("Loop", Nil, Nil, mark(builder))
  <2>1. f \in GoodFrame(d, len)
    BY <1>4, <1>6, <1>7, <1>8, <1>9
  <2>2. LoopFrame(limit) = [f EXCEPT !.limit = limit]
    BY DEF LoopFrame
  <2> HIDE DEF f
  <2>. QED
    BY <1>1, <2>1, <2>2, FrameExceptGood
<1>12. ASSUME NEW on_fail, NEW next, IsFailOrNil(on_fail), IsSpine(next),
              Owing(next) = 0
       PROVE  Frame("Return", on_fail, next, mark(b)) \in GoodFrame(d, len)
  <2>1. next \in Nat
    BY <1>5, <1>12 DEF IsSpine
  <2>. QED
    BY <1>6, <1>7, <1>8, <1>9, <1>12, <2>1
<1>. QED
  BY <1>10, <1>11, <1>12

(* A good frame pushed on the chain leaves a good chain.                   *)
LEMMA PushFrame ==
  ASSUME IInv, NEW f \in GoodFrame(Len(slots), Len(input))
  PROVE  Append(frames, f) \in Seq(GoodFrame(Len(slots), Len(input)))
BY StateFacts, AppendProperties

(* The innermost frame, and the chain without it.                          *)
LEMMA TopFrame ==
  ASSUME IInv, frames # <<>>
  PROVE  /\ Len(frames) \in 1..Len(frames) /\ Len(frames) \in DOMAIN frames
         /\ FrameTop \in GoodFrame(Len(slots), Len(input))
         /\ PopFrame \in Seq(GoodFrame(Len(slots), Len(input)))
<1>1. frames \in Seq(GoodFrame(Len(slots), Len(input)))
  BY StateFacts
<1>2. Len(frames) \in Nat \ {0}
  BY <1>1, EmptySeq
<1>3. Len(frames) \in 1..Len(frames) /\ Len(frames) - 1 \in 0..Len(frames)
  BY <1>2, SMT
<1>4. DOMAIN frames = 1..Len(frames)
  BY <1>1, LenProperties
<1>5. PopFrame \in Seq(GoodFrame(Len(slots), Len(input)))
  BY <1>1, <1>3, PrefixSeq DEF PopFrame
<1>6. FrameTop \in GoodFrame(Len(slots), Len(input))
  BY <1>1, <1>3, ElementOfSeq DEF FrameTop
<1>. QED
  BY <1>3, <1>4, <1>5, <1>6

(* The accumulator stays good when nodes are allocated.                    *)
LEMMA KeepAc ==
  ASSUME IInv, ac' = ac, Len(builder'.nodes) = Len(builder.nodes) + 1
  PROVE  ac' \in GoodValue(Len(builder'.nodes))
<1> DEFINE n == Len(builder.nodes)
<1>1. n \in Nat
  BY StateFacts
<1>2. n + 1 \in Nat /\ n <= n + 1
  BY <1>1, SMT
<1>3. GoodValue(n) \subseteq GoodValue(n + 1)
  BY <1>1, <1>2, GoodValues
<1>. QED
  BY <1>3 DEF IInv

(* Opening an array.                                                       *)
LEMMA OpenArrayGood ==
  ASSUME IInv, K # <<>>, C.kind = "BeginArray",
         \E limit \in Int : \E resync :
           IsFailOrNil(resync) /\ OpenArray(limit, resync)
  PROVE  /\ UNCHANGED <<job, best, failed, pos, slots, depth, le, env>>
         /\ builder' \in GoodBuilder(Len(input))
         /\ ac' \in GoodValue(Len(builder'.nodes))
         /\ frames' \in Seq(GoodFrame(Len(slots), Len(input)))
<1>0. PICK limit \in Int :
             \E resync : IsFailOrNil(resync) /\ OpenArray(limit, resync)
  OBVIOUS
<1>1. PICK resync : IsFailOrNil(resync) /\ OpenArray(limit, resync)
  BY <1>0
<1> DEFINE b == begin_array(builder, C.name, pos)
           loop == Append(frames, LoopFrame(limit))
           S == Seq(GoodFrame(Len(slots), Len(input)))
<1>2. /\ builder' = b
      /\ frames' = IF resync = Nil THEN loop
                   ELSE Append(loop, Savepoint(resync, b))
      /\ UNCHANGED <<job, best, failed, pos, slots, depth, le, env, ac>>
  BY <1>1 DEF OpenArray, status, window
<1>3. /\ Len(input) \in Nat /\ builder \in GoodBuilder(Len(input))
      /\ pos \in 0..Len(input)
  BY StateFacts DEF IInv
<1>4. C.name \in STRING
  BY TopFacts, Zenon DEF KontOK
<1>5. b \in GoodBuilder(Len(input)) /\ Len(b.nodes) = Len(builder.nodes) + 1
  BY <1>3, <1>4, BeginGood
<1>6. C.kind \in SpineKinds
  BY DEF SpineKinds, ChainKinds
<1> HIDE DEF b
<1>7. LoopFrame(limit) \in GoodFrame(Len(slots), Len(input))
  BY <1>5, <1>6, FrameGood
<1>8. loop \in S
  BY <1>7, PushFrame
<1>9. Savepoint(resync, b) \in GoodFrame(Len(slots), Len(input))
  BY <1>1, <1>5, <1>6, FrameGood
<1> HIDE DEF loop
<1>10. Append(loop, Savepoint(resync, b)) \in S
  BY <1>8, <1>9, AppendProperties
<1>11. ac' \in GoodValue(Len(builder'.nodes))
  BY <1>2, <1>5, KeepAc
<1>. QED
  BY <1>2, <1>5, <1>8, <1>10, <1>11

(* Where array konts lead.                                                 *)
LEMMA ArrayFacts ==
  ASSUME IInv, K # <<>>, C.kind \in {"BeginArray", "ArrayNext"}
  PROVE  /\ C.kind \in SpineKinds /\ C.mode \in Modes
         /\ C.mode # "EOF" => IsExpr(C.expr)
         /\ C.end \in KontId /\ Owing(C.end) = 0
         /\ C.kind = "BeginArray" => /\ C.next \in KontId /\ Owing(C.next) = 0
                                     /\ IsFailOrNil(C.resync)
                                     /\ C.path \in Seq(STRING)
         /\ C.kind = "ArrayNext" => /\ C.body \in KontId /\ Owing(C.body) = 0
                                    /\ C.resync \in BOOLEAN
<1>1. C.kind \in SpineKinds
  BY DEF SpineKinds, ChainKinds
<1>2. /\ C.mode \in Modes
      /\ C.mode # "EOF" => IsExpr(C.expr)
      /\ IsSpine(C.end)
      /\ C.kind = "BeginArray" => IsFailOrNil(C.resync) /\ C.path \in Seq(STRING)
      /\ C.kind = "ArrayNext" => C.resync \in BOOLEAN /\ IsSpine(C.body)
  BY TopFacts, Zenon DEF KontOK
<1>3. Owing(C.end) = 0 /\ (C.kind = "ArrayNext" => Owing(C.body) = 0)
  BY TopFacts, Zenon DEF DebtOK
<1>4. C.kind = "BeginArray" => C.next \in KontId /\ Owing(C.next) = 0
  BY NextFacts DEF ChainKinds
<1>. QED
  BY <1>1, <1>2, <1>3, <1>4 DEF IsSpine

(* BeginArrayNode and its limit: a Loop frame, and a Savepoint under       *)
(* resync.                                                                 *)
LEMMA BeginArrayGood ==
  ASSUME IInv, BeginCounted \/ BeginUncounted \/ BeginArrayWithLimit
  PROVE  IInv'
<1>1. K # <<>> /\ C.kind = "BeginArray"
  BY DEF BeginCounted, BeginUncounted, BeginArrayWithLimit, Control
<1>2. /\ C.kind \in SpineKinds
      /\ C.mode # "EOF" => IsExpr(C.expr)
      /\ C.end \in KontId /\ Owing(C.end) = 0
      /\ C.next \in KontId /\ Owing(C.next) = 0
      /\ IsFailOrNil(C.resync) /\ C.path \in Seq(STRING)
  BY <1>1, ArrayFacts
<1>3. CASE Fail
  BY <1>1, <1>3, FailGood
<1>4. ASSUME \E limit \in Int : \E resync :
               IsFailOrNil(resync) /\ OpenArray(limit, resync),
             Continue(C.end) \/ Continue(C.next)
      PROVE  IInv'
  <2>1. /\ UNCHANGED <<job, best, failed, pos, slots, depth, le, env>>
        /\ builder' \in GoodBuilder(Len(input))
        /\ ac' \in GoodValue(Len(builder'.nodes))
        /\ frames' \in Seq(GoodFrame(Len(slots), Len(input)))
    BY <1>1, <1>4, OpenArrayGood
  <2>2. PICK n \in KontId : Continue(n) /\ Owing(n) = 0
    BY <1>2, <1>4
  <2>3. pos' \in 0..Len(input)
    BY <2>1 DEF IInv
  <2>4. Owing(n) <= Len(input) - pos'
    BY <2>2, <2>3, DebtFree
  <2>. QED
    BY <1>1, <1>2, <2>1, <2>2, <2>3, <2>4, ContinueGood DEF IInv
<1>5. CASE BeginCounted
  <2>1. /\ builder' = IF C.path = <<>> THEN builder
                      ELSE [builder EXCEPT !.count = C.path]
        /\ C.mode # "EOF"
        /\ K' = Rest \o <<Apply(Top.node), Run(C.expr)>>
        /\ UNCHANGED <<job, pos, best, failed, le, slots, depth, env, frames,
                       ac>>
    BY <1>5 DEF BeginCounted, set_pending_count_field, status, window, store
  <2>2. Len(input) \in Nat /\ builder \in GoodBuilder(Len(input))
    BY StateFacts DEF IInv
  <2>3. builder' \in GoodBuilder(Len(input)) /\ builder'.nodes = builder.nodes
    BY <1>2, <2>1, <2>2, PendingGood
  <2>. QED
    BY <1>1, <1>2, <2>1, <2>3, WaitGood DEF IInv
<1>6. CASE BeginUncounted
  <2>1. -1 \in Int
    BY SMT
  <2>2. \E limit \in Int : \E resync :
          IsFailOrNil(resync) /\ OpenArray(limit, resync)
    BY <1>2, <1>6, <2>1 DEF BeginUncounted
  <2>3. CASE Continue(C.end) \/ Continue(C.next)
    BY <1>4, <2>2, <2>3
  <2>4. CASE C.mode = "Until" /\ K' = Rest \o <<Apply(Top.node), Run(C.expr)>>
    <3>1. /\ UNCHANGED <<job, best, failed, pos, slots, depth, le, env>>
          /\ builder' \in GoodBuilder(Len(input))
          /\ ac' \in GoodValue(Len(builder'.nodes))
          /\ frames' \in Seq(GoodFrame(Len(slots), Len(input)))
      BY <1>1, <2>2, OpenArrayGood
    <3>2. IsExpr(C.expr)
      BY <1>2, <2>4
    <3>. QED
      BY <1>1, <1>2, <2>4, <3>1, <3>2, WaitGood DEF IInv
  <2>. QED
    BY <1>6, <2>3, <2>4 DEF BeginUncounted
<1>7. CASE BeginArrayWithLimit /\ ~Fail
  <2>1. ac.v \in Int
    BY <1>1, HeldValues
  <2>2. /\ OpenArray(ac.v, IF ac.v > 0 THEN C.resync ELSE Nil)
        /\ Continue(IF ac.v <= 0 THEN C.end ELSE C.next)
    BY <1>7 DEF BeginArrayWithLimit
  <2>3. IsFailOrNil(IF ac.v > 0 THEN C.resync ELSE Nil)
    BY <1>2 DEF IsFailOrNil
  <2>. QED
    BY <1>4, <2>1, <2>2, <2>3
<1>. QED
  BY <1>3, <1>5, <1>6, <1>7

(* fail() on a chain of frames that may have lost or gained some.          *)
LEMMA UnwindGood ==
  ASSUME IInv, K # <<>>,
         NEW fs \in Seq(GoodFrame(Len(slots), Len(input))),
         Unwind(pos, fs, Rest),
         UNCHANGED <<job, pos, slots, depth, le, env, ac, builder>>
  PROVE  IInv'
<1>1. Len(builder.nodes) \in Nat /\ Len(input) - pos \in Nat
  BY StateFacts
<1>2. /\ pos \in 0..Len(input)
      /\ Rest \in GoodStack(Len(builder.nodes), Len(input) - pos)
  BY TopFacts DEF IInv
<1>3. /\ best' \in 0..Len(input) /\ failed' \in BOOLEAN
      /\ frames' \in Seq(GoodFrame(Len(slots), Len(input)))
      /\ K' \in GoodStack(Len(builder.nodes), Len(input) - pos)
  BY <1>1, <1>2, Unwound
<1>. QED
  BY <1>2, <1>3, Preserved DEF IInv

(* ArrayNextNode: counts the element and goes on or ends.                  *)
LEMMA ArrayNextGood ==
  ASSUME IInv, ArrayNext
  PROVE  IInv'
<1> DEFINE S == Seq(GoodFrame(Len(slots), Len(input)))
           f == Refreshed(FrameTop, pos, depth, le, Rest, builder, env)
           saved == ~C.resync \/ TopIs("Savepoint")
           fs == IF C.resync /\ saved THEN [frames EXCEPT ![Len(frames)] = f]
                 ELSE frames
           l == IF C.resync THEN Len(frames) - 1 ELSE Len(frames)
           g == [fs[l] EXCEPT !.counter = fs[l].counter + 1]
<1>1. K # <<>> /\ C.kind = "ArrayNext"
  BY DEF ArrayNext, Control
<1>2. /\ C.kind \in SpineKinds
      /\ C.mode # "EOF" => IsExpr(C.expr)
      /\ C.end \in KontId /\ Owing(C.end) = 0
      /\ C.body \in KontId /\ Owing(C.body) = 0
  BY <1>1, ArrayFacts
<1>3. fs \in S
  <2>1. CASE ~(C.resync /\ TopIs("Savepoint"))
    BY <2>1, StateFacts
  <2>2. CASE C.resync /\ TopIs("Savepoint")
    <3>1. /\ Len(frames) \in 1..Len(frames)
          /\ FrameTop \in GoodFrame(Len(slots), Len(input))
      BY <2>2, TopFrame DEF TopIs
    <3>2. /\ Len(slots) \in Nat /\ Len(input) \in Nat /\ pos \in 0..Len(input)
          /\ depth \in 0..Len(slots) /\ le \in BOOLEAN /\ env \in GoodEnv
          /\ builder \in GoodBuilder(Len(input))
      BY StateFacts DEF IInv
    <3>3. Len(Rest) = 0
      BY <1>1, <1>2, SpineAlone
    <3>4. f \in GoodFrame(Len(slots), Len(input))
      BY <3>1, <3>2, <3>3, RefreshedGood
    <3> HIDE DEF f
    <3>5. [frames EXCEPT ![Len(frames)] = f] \in S
      BY <3>1, <3>4, StateFacts, ExceptSeq
    <3>. QED
      BY <2>2, <3>5
  <2>. QED
    BY <2>1, <2>2
<1>4. CASE Unwind(pos, fs, Rest)
           /\ UNCHANGED <<job, pos, window, le, env, ac, builder>>
  <2>1. UNCHANGED <<job, pos, slots, depth, le, env, ac, builder>>
    BY <1>4 DEF window
  <2> HIDE DEF fs
  <2>. QED
    BY <1>1, <1>3, <1>4, <2>1, UnwindGood
<1>5. CASE ~(/\ Unwind(pos, fs, Rest)
             /\ UNCHANGED <<job, pos, window, le, env, ac, builder>>)
  <2> DEFINE more == IF C.mode = "FixedCount"
                     THEN fs[l].counter + 1 < fs[l].limit
                     ELSE pos < effective_end
  <2>1. /\ l \in DOMAIN fs
        /\ frames' = [fs EXCEPT ![l] = g]
        /\ \/ Continue(IF more THEN C.body ELSE C.end)
           \/ /\ C.mode \in {"Count", "Until"}
              /\ K' = Rest \o <<Apply(Top.node), Run(C.expr)>>
        /\ UNCHANGED <<job, best, failed, pos, slots, depth, le, env, ac,
                       builder>>
    BY <1>5 DEF ArrayNext, status, window
  <2> HIDE DEF more, fs, l
  <2>2. l \in 1..Len(fs)
    BY <1>3, <2>1, LenProperties
  <2>3. fs[l] \in GoodFrame(Len(slots), Len(input))
    BY <1>3, <2>2, ElementOfSeq
  <2>4. fs[l].counter + 1 \in Nat
    <3>1. fs[l].counter \in Nat
      BY <2>3 DEF GoodFrame, FrameRecord
    <3>. QED
      BY <3>1, SMT
  <2>5. g \in GoodFrame(Len(slots), Len(input))
    BY <2>3, <2>4, StateFacts, FrameExceptGood
  <2> HIDE DEF g
  <2>6. frames' \in S
    BY <1>3, <2>1, <2>2, <2>5, ExceptSeq
  <2>7. CASE Continue(IF more THEN C.body ELSE C.end)
    <3>1. PICK n \in KontId : Continue(n) /\ Owing(n) = 0
      BY <1>2, <2>7
    <3>2. pos' \in 0..Len(input)
      BY <2>1 DEF IInv
    <3>3. Owing(n) <= Len(input) - pos'
      BY <3>1, <3>2, DebtFree
    <3>. QED
      BY <1>1, <1>2, <2>1, <2>6, <3>1, <3>2, <3>3, ContinueGood DEF IInv
  <2>8. CASE /\ C.mode \in {"Count", "Until"}
             /\ K' = Rest \o <<Apply(Top.node), Run(C.expr)>>
    <3>1. IsExpr(C.expr)
      BY <1>2, <2>8
    <3>. QED
      BY <1>1, <1>2, <2>1, <2>6, <2>8, <3>1, WaitGood DEF IInv
  <2>. QED
    BY <2>1, <2>7, <2>8
<1>. QED
  BY <1>4, <1>5 DEF ArrayNext

(* The count and until checks push the body or the end.                    *)
LEMMA ArrayCheckGood ==
  ASSUME IInv, ArrayCountCheck \/ ArrayUntilCheck
  PROVE  IInv'
<1>1. K # <<>> /\ C.kind \in {"BeginArray", "ArrayNext"}
  BY DEF ArrayCountCheck, ArrayUntilCheck, Control
<1>2. CASE Fail
  BY <1>1, <1>2, FailGood
<1>3. CASE ~Fail
  <2>1. PICK n : /\ Schedule(<<Run(n)>>)
                 /\ \/ n = C.end
                    \/ C.kind = "ArrayNext" /\ n = C.body
                    \/ C.kind = "BeginArray" /\ n = C.next
    <3>1. CASE ArrayCountCheck
      BY <1>3, <3>1 DEF ArrayCountCheck, Control
    <3>2. CASE ArrayUntilCheck
      BY <1>1, <1>3, <3>2 DEF ArrayUntilCheck, Control
    <3>. QED
      BY <3>1, <3>2
  <2>2. C.kind \in SpineKinds /\ n \in KontId /\ Owing(n) = 0
    BY <1>1, <2>1, ArrayFacts
  <2>3. pos \in 0..Len(input)
    BY DEF IInv
  <2>4. Owing(n) <= Len(input) - pos
    BY <2>2, <2>3, DebtFree
  <2>. QED
    BY <1>1, <2>1, <2>2, <2>4, GotoGood
<1>. QED
  BY <1>2, <1>3

(* EndArrayNode: closes the array and pops its frames.                     *)
LEMMA EndArrayGood ==
  ASSUME IInv, EndArray
  PROVE  IInv'
<1> DEFINE S == Seq(GoodFrame(Len(slots), Len(input)))
           fs == IF C.resync /\ TopIs("Savepoint") THEN PopFrame ELSE frames
           l == Len(fs)
<1>1. K # <<>> /\ C.kind = "EndArray"
  BY DEF EndArray, Control
<1>2. fs \in S
  <2>1. TopIs("Savepoint") => PopFrame \in S
    BY TopFrame DEF TopIs
  <2>. QED
    BY <2>1, StateFacts
<1>3. CASE Unwind(pos, fs, Rest)
           /\ UNCHANGED <<job, pos, window, le, env, ac, builder>>
  <2>1. UNCHANGED <<job, pos, slots, depth, le, env, ac, builder>>
    BY <1>3 DEF window
  <2> HIDE DEF fs
  <2>. QED
    BY <1>1, <1>2, <1>3, <2>1, UnwindGood
<1>4. CASE ~(/\ Unwind(pos, fs, Rest)
             /\ UNCHANGED <<job, pos, window, le, env, ac, builder>>)
  <2>1. /\ fs # <<>> /\ builder' = close(builder, pos)
        /\ frames' = SubSeq(fs, 1, l - 1) /\ env' = fs[l].env
        /\ Continue(C.next)
        /\ UNCHANGED <<job, best, failed, pos, slots, depth, le, ac>>
    BY <1>4 DEF EndArray, status, window
  <2> HIDE DEF fs
  <2>2. l \in Nat \ {0}
    BY <1>2, <2>1, EmptySeq
  <2>3. l \in 1..Len(fs) /\ l - 1 \in 0..Len(fs)
    BY <2>2, SMT
  <2>4. frames' \in S
    BY <1>2, <2>1, <2>3, PrefixSeq
  <2>5. fs[l] \in GoodFrame(Len(slots), Len(input))
    BY <1>2, <2>3, ElementOfSeq
  <2>6. env' \in GoodEnv
    BY <2>1, <2>5 DEF GoodFrame
  <2>7. /\ Len(input) \in Nat /\ builder \in GoodBuilder(Len(input))
        /\ pos \in 0..Len(input)
    BY StateFacts DEF IInv
  <2>8. builder' \in GoodBuilder(Len(input))
        /\ Len(builder'.nodes) = Len(builder.nodes)
    BY <2>1, <2>7, CloseGood
  <2>9. C.kind \in SpineKinds /\ C.next \in KontId /\ Owing(C.next) = 0
    BY <1>1, NextFacts DEF ChainKinds
  <2>10. pos' \in 0..Len(input)
    BY <2>1, <2>7
  <2>11. Owing(C.next) <= Len(input) - pos'
    BY <2>9, <2>10, DebtFree
  <2>. QED
    BY <1>1, <2>1, <2>4, <2>6, <2>8, <2>9, <2>10, <2>11, ContinueGood DEF IInv
<1>. QED
  BY <1>3, <1>4 DEF EndArray

(* Calls and returns.                                                      *)
LEMMA InvokeRuleGood ==
  ASSUME IInv, InvokeRule
  PROVE  IInv'
<1> DEFINE f == Frame("Return", C.fail_target, C.next, mark(builder))
<1>1. /\ K # <<>> /\ C.kind = "InvokeRule" /\ frames' = Append(frames, f)
      /\ Continue(C.entry)
      /\ UNCHANGED <<job, best, failed, pos, slots, depth, le, env, ac, builder>>
  BY DEF InvokeRule, Control, status, window
<1>2. C.kind \in SpineKinds /\ Owing(C.next) = 0
  BY <1>1, NextFacts DEF ChainKinds
<1>3. IsSpine(C.next) /\ IsSpine(C.entry) /\ IsFailOrNil(C.fail_target)
  BY <1>1, TopFacts, Zenon DEF KontOK, ChainKinds
<1>4. C.entry \in KontId /\ Owing(C.entry) = 0
  BY <1>1, <1>3, TopFacts, Zenon DEF DebtOK, IsSpine
<1>5. builder \in GoodBuilder(Len(input)) /\ pos' \in 0..Len(input)
  BY <1>1 DEF IInv
<1>6. f \in GoodFrame(Len(slots), Len(input))
  BY <1>1, <1>2, <1>3, <1>5, FrameGood
<1> HIDE DEF f
<1>7. frames' \in Seq(GoodFrame(Len(slots), Len(input)))
  BY <1>1, <1>6, PushFrame
<1>8. Owing(C.entry) <= Len(input) - pos'
  BY <1>4, <1>5, DebtFree
<1>. QED
  BY <1>1, <1>2, <1>4, <1>5, <1>7, <1>8, ContinueGood DEF IInv

(* ReturnRuleNode: pops a Return frame, or goes to Halt.                   *)
LEMMA ReturnRuleGood ==
  ASSUME IInv, ReturnRule
  PROVE  IInv'
<1>1. /\ K # <<>> /\ C.kind = "ReturnRule"
      /\ UNCHANGED <<job, best, failed, pos, slots, depth, le, ac, builder>>
  BY DEF ReturnRule, Control, status, window
<1>2. C.kind \in SpineKinds /\ C.next \in KontId /\ Owing(C.next) = 0
  BY <1>1, NextFacts DEF ChainKinds
<1>3. pos' \in 0..Len(input)
  BY <1>1 DEF IInv
<1>4. CASE TopIs("Return")
  <2>1. /\ frames' = PopFrame /\ env' = FrameTop.env
        /\ Continue(FrameTop.next)
    BY <1>4 DEF ReturnRule
  <2>2. /\ FrameTop \in GoodFrame(Len(slots), Len(input))
        /\ PopFrame \in Seq(GoodFrame(Len(slots), Len(input)))
        /\ FrameTop.type = "Return"
    BY <1>4, TopFrame DEF TopIs
  <2>3. /\ FrameTop.env \in GoodEnv /\ FrameTop.next \in KontId
        /\ Owing(FrameTop.next) = 0
    BY <2>2 DEF GoodFrame, IsSpine
  <2>4. Owing(FrameTop.next) <= Len(input) - pos'
    BY <1>3, <2>3, DebtFree
  <2>. QED
    BY <1>1, <1>2, <1>3, <2>1, <2>2, <2>3, <2>4, ContinueGood DEF IInv
<1>5. CASE ~TopIs("Return")
  <2>1. Continue(C.next) /\ env' = env /\ frames' = frames
    BY <1>5 DEF ReturnRule, store
  <2>2. Owing(C.next) <= Len(input) - pos'
    BY <1>2, <1>3, DebtFree
  <2>. QED
    BY <1>1, <1>2, <1>3, <2>1, <2>2, ContinueGood DEF IInv
<1>. QED
  BY <1>4, <1>5

(* The empty stack is good whatever the room.                              *)
LEMMA EmptyStack ==
  ASSUME NEW m, NEW room
  PROVE  <<>> \in GoodStack(m, room)
<1>1. <<>> \in Seq(GoodKont(m, room)) /\ 2..Len(<<>>) = {}
  BY EmptySeq, SMT
<1>. QED
  BY <1>1, Zenon DEF GoodStack

(* HaltNode: the machine stops on the stack it leaves.                     *)
LEMMA HaltGood ==
  ASSUME IInv, Halt
  PROVE  IInv'
<1> DEFINE ks == <<>>
<1>1. K # <<>> /\ Schedule(ks)
  BY DEF Halt, Control
<1>2. ks \in GoodStack(Len(builder.nodes), Len(input) - pos)
  BY EmptyStack
<1>3. Rest # <<>> /\ ks # <<>> => Above(ks[1])
  OBVIOUS
<1> HIDE DEF ks
<1>. QED
  BY <1>1, <1>2, <1>3, ScheduleGood

(* Scopes.                                                                 *)
LEMMA ScopeGood ==
  ASSUME IInv, BeginStruct \/ BeginVariant \/ EndStruct
  PROVE  IInv'
<1> DEFINE n == Len(builder.nodes)
<1>1. /\ K # <<>> /\ C.kind \in {"BeginStruct", "BeginVariant", "EndStruct"}
      /\ Continue(C.next)
      /\ UNCHANGED <<job, best, failed, pos, slots, depth, le, env, frames, ac>>
  BY DEF BeginStruct, BeginVariant, EndStruct, Control, status, window, store
<1>2. C.kind \in SpineKinds /\ C.next \in KontId /\ Owing(C.next) = 0
  BY <1>1, NextFacts DEF ChainKinds
<1>3. /\ Len(input) \in Nat /\ builder \in GoodBuilder(Len(input))
      /\ pos \in 0..Len(input) /\ pos' \in 0..Len(input)
  BY <1>1, StateFacts DEF IInv
<1>4. /\ C.kind \in {"BeginStruct", "BeginVariant"} => C.name \in STRING
      /\ C.kind = "BeginVariant" => C.tag \in Int
  <2>1. /\ C.kind \in {"BeginStruct", "BeginVariant"} => C.name \in STRING
        /\ C.kind = "BeginVariant" => C.tag \in Nat
    BY <1>1, TopFacts, Zenon DEF KontOK
  <2>. QED
    BY <2>1
<1>5. Owing(C.next) <= Len(input) - pos'
  BY <1>2, <1>3, DebtFree
<1>6. /\ builder' \in GoodBuilder(Len(input))
      /\ Len(builder'.nodes) \in {n, n + 1}
  <2>1. CASE BeginStruct
    <3>1. C.name \in STRING /\ builder' = begin_struct(builder, C.name, pos)
      BY <1>4, <2>1 DEF BeginStruct, Control
    <3>. QED
      BY <1>3, <3>1, BeginGood
  <2>2. CASE BeginVariant
    <3>1. /\ C.name \in STRING /\ C.tag \in Int
          /\ builder' = begin_variant(builder, C.name, pos, C.tag)
      BY <1>4, <2>2 DEF BeginVariant, Control
    <3>. QED
      BY <1>3, <3>1, BeginGood, ZenonT(60)
  <2>3. CASE EndStruct
    <3>1. builder' = close(builder, pos)
      BY <2>3 DEF EndStruct
    <3>. QED
      BY <1>3, <3>1, CloseGood
  <2>. QED
    BY <2>1, <2>2, <2>3
<1>7. ac' \in GoodValue(Len(builder'.nodes))
  <2>1. CASE Len(builder'.nodes) = n
    BY <1>1, <2>1 DEF IInv
  <2>2. CASE Len(builder'.nodes) = n + 1
    BY <1>1, <2>2, KeepAc
  <2>. QED
    BY <1>6, <2>1, <2>2
<1>. QED
  BY <1>1, <1>2, <1>3, <1>5, <1>6, <1>7, ContinueGood DEF IInv

(* Savepoints.                                                             *)
LEMMA ChoiceGood ==
  ASSUME IInv, BeginChoice \/ CommitChoice
  PROVE  IInv'
<1>1. /\ K # <<>>
      /\ C.kind \in {"BeginChoice", "BeginOptional", "CommitChoice",
                     "EndOptional"}
      /\ Continue(C.next)
      /\ UNCHANGED <<job, best, failed, pos, slots, depth, le, env, ac, builder>>
  BY DEF BeginChoice, CommitChoice, Control, status, window
<1>2. C.kind \in SpineKinds /\ C.next \in KontId /\ Owing(C.next) = 0
  BY <1>1, NextFacts DEF ChainKinds
<1>3. builder \in GoodBuilder(Len(input)) /\ pos' \in 0..Len(input)
  BY <1>1 DEF IInv
<1>4. Owing(C.next) <= Len(input) - pos'
  BY <1>2, <1>3, DebtFree
<1>5. frames' \in Seq(GoodFrame(Len(slots), Len(input)))
  <2>1. CASE BeginChoice
    <3>1. /\ frames' = Append(frames, Savepoint(C.on_fail, builder))
          /\ C.kind \in {"BeginChoice", "BeginOptional"}
      BY <2>1 DEF BeginChoice, Control
    <3>2. IsFailOrNil(C.on_fail)
      BY <1>1, <3>1, TopFacts, Zenon DEF KontOK, IsFailOrNil
    <3>3. Savepoint(C.on_fail, builder) \in GoodFrame(Len(slots), Len(input))
      BY <1>1, <1>2, <1>3, <3>2, FrameGood
    <3>. QED
      BY <3>1, <3>3, PushFrame
  <2>2. CASE CommitChoice
    <3>1. frames' = IF TopIs("Savepoint") THEN PopFrame ELSE frames
      BY <2>2 DEF CommitChoice
    <3>2. TopIs("Savepoint") =>
            PopFrame \in Seq(GoodFrame(Len(slots), Len(input)))
      BY TopFrame DEF TopIs
    <3>. QED
      BY <3>1, <3>2, StateFacts
  <2>. QED
    BY <2>1, <2>2
<1>. QED
  BY <1>1, <1>2, <1>3, <1>4, <1>5, ContinueGood DEF IInv

(* Arrays, rules, scopes and choices.                                      *)
LEMMA StructureGood ==
  ASSUME IInv, Structure
  PROVE  IInv'
BY BeginArrayGood, ArrayNextGood, ArrayCheckGood, EndArrayGood,
   InvokeRuleGood, ReturnRuleGood, HaltGood, ScopeGood, ChoiceGood, Zenon
   DEF Structure

-----------------------------------------------------------------------------
(* Failure handlers.                                                       *)

(* The Savepoint a handler restores, and the machine it restores.          *)
LEMMA RestoredGood ==
  ASSUME IInv, K # <<>>, NEW i \in Innermost1(Savepoints(frames)),
         Restored(frames[i])
  PROVE  /\ i \in 1..Len(frames)
         /\ frames[i] \in GoodFrame(Len(slots), Len(input))
         /\ frames[i].pos \in 0..Len(input)
         /\ frames[i].depth \in 0..Len(slots)
         /\ frames[i].le \in BOOLEAN /\ frames[i].env \in GoodEnv
         /\ Resized(Rest, frames[i].ksize) = <<>>
         /\ SubSeq(frames, 1, i - 1) \in Seq(GoodFrame(Len(slots), Len(input)))
         /\ UNCHANGED <<job, slots, ac>>
         /\ depth' \in 0..Len(slots) /\ env' \in GoodEnv /\ le' \in BOOLEAN
         /\ restore(builder, frames[i].mark) \in GoodBuilder(Len(input))
         /\ builder' = restore(builder, frames[i].mark)
         /\ ac' \in GoodValue(Len(builder'.nodes))
<1> DEFINE f == frames[i]
<1>1. i \in DOMAIN frames /\ f.type = "Savepoint"
  BY DEF Innermost1, Savepoints
<1>2. i \in 1..Len(frames) /\ f \in GoodFrame(Len(slots), Len(input))
  BY <1>1, StateFacts
<1>3. /\ f.pos \in Nat /\ f.depth \in Nat /\ f.mark \in Mark
      /\ f.pos <= Len(input) /\ f.depth <= Len(slots) /\ f.ksize = 0
      /\ f.env \in GoodEnv /\ f.le \in BOOLEAN
  BY <1>1, <1>2, Zenon DEF GoodFrame, FrameRecord
<1>4. /\ Len(input) \in Nat /\ Len(slots) \in Nat /\ Len(frames) \in Nat
      /\ builder \in GoodBuilder(Len(input))
      /\ frames \in Seq(GoodFrame(Len(slots), Len(input)))
  BY StateFacts DEF IInv
<1>5. f.pos \in 0..Len(input) /\ f.depth \in 0..Len(slots)
  BY <1>3, <1>4, SMT
<1>6. Resized(Rest, f.ksize) = <<>>
  <2>1. /\ Len(builder.nodes) \in Nat /\ Len(input) - pos \in Nat
        /\ Rest \in GoodStack(Len(builder.nodes), Len(input) - pos)
    BY TopFacts, StateFacts
  <2>2. /\ Rest \in Seq(GoodKont(Len(builder.nodes), Len(input) - pos))
        /\ Len(Rest) \in Nat
    BY <2>1, StackFacts
  <2>3. 0 \in 0..Len(Rest) /\ 0 <= Len(Rest)
    BY <2>2, SMT
  <2>4. /\ SubSeq(Rest, 1, 0)
             \in Seq(GoodKont(Len(builder.nodes), Len(input) - pos))
        /\ Len(SubSeq(Rest, 1, 0)) = 0
    BY <2>2, <2>3, PrefixSeq
  <2>5. SubSeq(Rest, 1, 0) = <<>>
    BY <2>4, EmptySeq
  <2>6. Resized(Rest, 0) = SubSeq(Rest, 1, 0)
    BY <2>3 DEF Resized
  <2>. QED
    BY <1>3, <2>5, <2>6
<1>7. SubSeq(frames, 1, i - 1) \in Seq(GoodFrame(Len(slots), Len(input)))
  <2>1. i - 1 \in 0..Len(frames)
    BY <1>2, <1>4, SMT
  <2>. QED
    BY <1>4, <2>1, PrefixSeq
<1>8. /\ depth' = f.depth /\ env' = f.env /\ le' = f.le
      /\ builder' = restore(builder, f.mark)
      /\ UNCHANGED <<job, slots, ac>>
  BY DEF Restored
<1>9. /\ restore(builder, f.mark) \in GoodBuilder(Len(input))
      /\ Len(restore(builder, f.mark).nodes) = Len(builder.nodes)
  BY <1>3, <1>4, RestoreGood
<1>10. ac' \in GoodValue(Len(builder'.nodes))
  BY <1>8, <1>9 DEF IInv
<1>. QED
  BY <1>2, <1>3, <1>5, <1>6, <1>7, <1>8, <1>9, <1>10

(* What a handler puts on the empty stack it restored.                     *)
LEMMA HandlerStack ==
  ASSUME IInv, NEW m \in Nat, NEW p \in 0..Len(input), NEW n, IsSpine(n),
         Owing(n) = 0
  PROVE  Append(<<>>, Run(n)) \in GoodStack(m, Len(input) - p)
<1>1. Len(input) - p \in Nat
  BY StateFacts, SMT
<1>2. n \in KontId /\ Owing(n) <= Len(input) - p
  BY DebtFree DEF IsSpine
<1>. QED
  BY <1>1, <1>2, EmptyStack, PushRun

(* OnFailKont: reinstates the Savepoint and dispatches to an arm or        *)
(* outward.                                                                *)
LEMMA OnFailGood ==
  ASSUME IInv, OnFail
  PROVE  IInv'
<1>1. K # <<>> /\ C.kind = "OnFail"
  BY DEF OnFail, Control
<1>2. CASE Fail
  BY <1>1, <1>2, FailGood
<1>3. CASE ~Fail
  <2> DEFINE S == Seq(GoodFrame(Len(slots), Len(input)))
  <2>1. PICK i \in Innermost1(Savepoints(frames)) :
          LET f == frames[i]
              outer == SubSeq(frames, 1, i - 1)
          IN /\ Restored(f) /\ pos' = f.pos
             /\ \/ C.target = Nil /\ Unwind(f.pos, outer, Resized(Rest, f.ksize))
                \/ /\ C.target # Nil
                   /\ frames' = IF C.pop_frame THEN outer
                                ELSE [frames EXCEPT ![i] =
                                        [f EXCEPT !.on_fail = C.next_on_fail]]
                   /\ K' = Append(Resized(Rest, f.ksize), Run(C.target))
                   /\ UNCHANGED <<best, failed>>
    BY <1>3 DEF OnFail
  <2> DEFINE f == frames[i]
             outer == SubSeq(frames, 1, i - 1)
             g == [f EXCEPT !.on_fail = C.next_on_fail]
  <2>2. Restored(f) /\ pos' = f.pos
    BY <2>1
  <2>3. /\ i \in 1..Len(frames) /\ f \in GoodFrame(Len(slots), Len(input))
        /\ f.pos \in 0..Len(input) /\ Resized(Rest, f.ksize) = <<>>
        /\ outer \in S /\ UNCHANGED <<job, slots, ac>>
        /\ depth' \in 0..Len(slots) /\ env' \in GoodEnv /\ le' \in BOOLEAN
        /\ builder' \in GoodBuilder(Len(input))
        /\ ac' \in GoodValue(Len(builder'.nodes))
    BY <1>1, <2>2, RestoredGood
  <2>4. /\ C.target = Nil \/ IsSpine(C.target)
        /\ IsFailOrNil(C.next_on_fail) /\ Owing(C.target) = 0
    BY <1>1, TopFacts, Zenon DEF KontOK, DebtOK
  <2>5. Len(input) \in Nat /\ Len(builder'.nodes) \in Nat
    BY <2>3, StateFacts, BuilderFacts
  <2>6. pos' \in 0..Len(input) /\ Len(input) - pos' \in Nat
    BY <2>2, <2>3, <2>5, SMT
  <2>7. CASE Unwind(f.pos, outer, <<>>)
    <3>1. <<>> \in GoodStack(Len(builder'.nodes), Len(input) - pos')
      BY EmptyStack
    <3> HIDE DEF f, outer
    <3>2. /\ best' \in 0..Len(input) /\ failed' \in BOOLEAN
          /\ frames' \in S
          /\ K' \in GoodStack(Len(builder'.nodes), Len(input) - pos')
      BY <2>3, <2>5, <2>6, <2>7, <3>1, Unwound
    <3>. QED
      BY <2>3, <2>6, <3>2, Preserved DEF IInv
  <2>8. CASE /\ C.target # Nil
             /\ frames' = IF C.pop_frame THEN outer ELSE [frames EXCEPT ![i] = g]
             /\ K' = Append(<<>>, Run(C.target))
             /\ UNCHANGED <<best, failed>>
    <3>1. K' \in GoodStack(Len(builder'.nodes), Len(input) - pos')
      BY <2>4, <2>5, <2>6, <2>8, HandlerStack
    <3>2. frames' \in S
      <4>1. g \in GoodFrame(Len(slots), Len(input))
        BY <2>3, <2>4, StateFacts, FrameExceptGood
      <4> HIDE DEF g
      <4>2. [frames EXCEPT ![i] = g] \in S
        BY <2>3, <4>1, StateFacts, ExceptSeq
      <4>. QED
        BY <2>3, <2>8, <4>2
    <3>. QED
      BY <2>3, <2>6, <2>8, <3>1, <3>2, Preserved DEF IInv
  <2>. QED
    BY <2>1, <2>3, <2>7, <2>8
<1>. QED
  BY <1>2, <1>3

(* ResyncKont: reinstates the Savepoint one byte further on, or ends the   *)
(* array.                                                                  *)
LEMMA ResyncGood ==
  ASSUME IInv, Resync
  PROVE  IInv'
<1>1. K # <<>> /\ C.kind = "Resync"
  BY DEF Resync, Control
<1>2. CASE Fail
  BY <1>1, <1>2, FailGood
<1>3. CASE ~Fail
  <2> DEFINE S == Seq(GoodFrame(Len(slots), Len(input)))
             atEnd(g) == g.pos >= EndAt(g.depth)
  <2>1. PICK i \in Innermost1(Savepoints(frames)) :
          LET f == frames[i]
              outer == SubSeq(frames, 1, i - 1)
              rest == Resized(Rest, f.ksize)
          IN /\ Restored(f)
             /\ \/ pos' = f.pos /\ Unwind(f.pos, outer, rest)
                \/ /\ pos' = f.pos
                   /\ frames' = outer /\ K' = Append(rest, Run(C.end))
                   /\ UNCHANGED <<best, failed>>
                \/ /\ ~atEnd(f) /\ pos' = Retry(f)
                   /\ frames' = [frames EXCEPT ![i] =
                        Refreshed(f, Retry(f), f.depth, f.le, rest,
                                  restore(builder, f.mark), f.env)]
                   /\ K' = Append(rest, Run(C.body))
                   /\ UNCHANGED <<best, failed>>
    BY <1>3 DEF Resync
  <2> DEFINE f == frames[i]
             outer == SubSeq(frames, 1, i - 1)
             b == restore(builder, f.mark)
             g == Refreshed(f, Retry(f), f.depth, f.le, <<>>, b, f.env)
  <2>2. Restored(f)
    BY <2>1
  <2>3. /\ i \in 1..Len(frames) /\ f \in GoodFrame(Len(slots), Len(input))
        /\ f.pos \in 0..Len(input) /\ f.depth \in 0..Len(slots)
        /\ f.le \in BOOLEAN /\ f.env \in GoodEnv
        /\ Resized(Rest, f.ksize) = <<>>
        /\ outer \in S /\ UNCHANGED <<job, slots, ac>>
        /\ depth' \in 0..Len(slots) /\ env' \in GoodEnv /\ le' \in BOOLEAN
        /\ b \in GoodBuilder(Len(input))
        /\ builder' \in GoodBuilder(Len(input))
        /\ ac' \in GoodValue(Len(builder'.nodes))
    BY <1>1, <2>2, RestoredGood
  <2>4. IsSpine(C.body) /\ IsSpine(C.end) /\ Owing(C.body) = 0
        /\ Owing(C.end) = 0
    BY <1>1, TopFacts, Zenon DEF KontOK, DebtOK
  <2>5. Len(input) \in Nat /\ Len(builder'.nodes) \in Nat /\ Len(slots) \in Nat
    BY <2>3, StateFacts, BuilderFacts
  <2>6. CASE pos' = f.pos /\ Unwind(f.pos, outer, <<>>)
    <3>1. pos' \in 0..Len(input) /\ Len(input) - pos' \in Nat
      BY <2>3, <2>5, <2>6, SMT
    <3>2. <<>> \in GoodStack(Len(builder'.nodes), Len(input) - pos')
      BY EmptyStack
    <3> HIDE DEF f, outer
    <3>3. /\ best' \in 0..Len(input) /\ failed' \in BOOLEAN
          /\ frames' \in S
          /\ K' \in GoodStack(Len(builder'.nodes), Len(input) - pos')
      BY <2>3, <2>5, <2>6, <3>1, <3>2, Unwound
    <3>. QED
      BY <2>3, <3>1, <3>3, Preserved DEF IInv
  <2>7. CASE /\ pos' = f.pos /\ frames' = outer
             /\ K' = Append(<<>>, Run(C.end))
             /\ UNCHANGED <<best, failed>>
    <3>1. pos' \in 0..Len(input)
      BY <2>3, <2>7
    <3>2. K' \in GoodStack(Len(builder'.nodes), Len(input) - pos')
      BY <2>4, <2>5, <2>7, <3>1, HandlerStack
    <3>. QED
      BY <2>3, <2>7, <3>1, <3>2, Preserved DEF IInv
  <2>8. CASE /\ ~atEnd(f) /\ pos' = Retry(f)
             /\ frames' = [frames EXCEPT ![i] = g]
             /\ K' = Append(<<>>, Run(C.body))
             /\ UNCHANGED <<best, failed>>
    <3>1. EndAt(f.depth) \in Nat /\ EndAt(f.depth) <= Len(input)
      BY <2>3, WindowFacts
    <3>2. Retry(f) \in 0..Len(input)
      BY <2>3, <2>5, <2>8, <3>1, SMT DEF Retry
    <3>3. K' \in GoodStack(Len(builder'.nodes), Len(input) - pos')
      BY <2>4, <2>5, <2>8, <3>2, HandlerStack
    <3>4. Len(<<>>) = 0
      OBVIOUS
    <3>5. g \in GoodFrame(Len(slots), Len(input))
      BY <2>3, <2>5, <3>2, <3>4, RefreshedGood
    <3> HIDE DEF g
    <3>6. frames' \in S
      BY <2>3, <2>8, <3>5, StateFacts, ExceptSeq
    <3>. QED
      BY <2>3, <2>8, <3>2, <3>3, <3>6, Preserved DEF IInv
  <2>. QED
    BY <2>1, <2>3, <2>6, <2>7, <2>8
<1>. QED
  BY <1>2, <1>3

(* AbortRuleKont: cuts the chain at a caller with a handler, or fails.     *)
LEMMA AbortRuleGood ==
  ASSUME IInv, AbortRule
  PROVE  IInv'
<1>1. K # <<>> /\ C.kind = "AbortRule" /\ C.kind \in SpineKinds
  BY DEF AbortRule, Control, SpineKinds
<1>2. CASE Fail
  BY <1>1, <1>2, FailGood
<1>3. CASE ~Fail
  <2>1. PICK i \in Innermost1(Callers) :
          /\ frames' = SubSeq(frames, 1, i - 1)
          /\ Continue(frames[i].on_fail)
          /\ UNCHANGED <<status, pos, window, le, env, ac, builder>>
    BY <1>3 DEF AbortRule
  <2>2. i \in DOMAIN frames /\ frames[i].on_fail # Nil
    BY DEF Innermost1, Callers
  <2>3. /\ i \in 1..Len(frames) /\ Len(frames) \in Nat
        /\ frames \in Seq(GoodFrame(Len(slots), Len(input)))
        /\ frames[i] \in GoodFrame(Len(slots), Len(input))
    BY <2>2, StateFacts
  <2>4. IsFailOrNil(frames[i].on_fail)
    BY <2>3 DEF GoodFrame
  <2>5. frames[i].on_fail \in KontId /\ Owing(frames[i].on_fail) = 0
    BY <2>2, <2>4, FailLinkFacts
  <2>6. i - 1 \in 0..Len(frames)
    BY <2>3, SMT
  <2>7. frames' \in Seq(GoodFrame(Len(slots), Len(input)))
    BY <2>1, <2>3, <2>6, PrefixSeq
  <2>8. UNCHANGED <<job, best, failed, pos, slots, depth, le, env, ac, builder>>
    BY <2>1 DEF status, window
  <2>9. pos' \in 0..Len(input)
    BY <2>8 DEF IInv
  <2>10. Owing(frames[i].on_fail) <= Len(input) - pos'
    BY <2>5, <2>9, DebtFree
  <2>. QED
    BY <1>1, <2>1, <2>5, <2>7, <2>8, <2>9, <2>10, ContinueGood DEF IInv
<1>. QED
  BY <1>2, <1>3

(* Every failure handler preserves the invariant.                          *)
LEMMA RecoverGood ==
  ASSUME IInv, Recover
  PROVE  IInv'
BY OnFailGood, ResyncGood, AbortRuleGood DEF Recover

-----------------------------------------------------------------------------
(* The theorems.                                                           *)

(* A machine on a job's entry kont satisfies the invariant.                *)
LEMMA InitGood ==
  ASSUME Init
  PROVE  IInv
<1>1. /\ job \in Jobs /\ pos = 0 /\ slots = <<>> /\ depth = 0 /\ le = job.le
      /\ env = <<>> /\ frames = <<>> /\ K = <<Run(job.entry)>>
      /\ ac = Null /\ builder = EmptyBuilder /\ best = 0 /\ failed = FALSE
  BY DEF Init
<1>2. /\ IsSpine(job.entry) /\ Owing(job.entry) = 0 /\ input \in Seq(0..255)
      /\ job.le \in BOOLEAN
  BY <1>1, JobsAssumption DEF input
<1>3. Len(input) \in Nat
  BY <1>2, LenProperties
<1>4. 0 \in 0..Len(input) /\ Len(input) - 0 \in Nat /\ 0 <= Len(input) - 0
  BY <1>3, SMT
<1>5. /\ \A S : <<>> \in Seq(S)
      /\ Len(slots) = 0
  BY <1>1, EmptySeq
<1>6. builder \in GoodBuilder(Len(input)) /\ Len(builder.nodes) = 0
  <2> DEFINE none == -1
             empty == <<>>
  <2>1. NoAnnotation \in Annotation
    BY EmptySeq DEF NoAnnotation, Annotation
  <2>2. none \in Int /\ Len(empty) = 0 /\ \A S : empty \in Seq(S)
    BY <1>5, EmptySeq, SMT
  <2>3. EmptyBuilder = [nodes |-> empty, stack |-> empty, roots |-> empty,
                        tag |-> none, count |-> empty, root |-> NoAnnotation]
    BY DEF EmptyBuilder
  <2> HIDE DEF none, empty
  <2>. QED
    BY <1>1, <2>1, <2>2, <2>3, Zenon DEF GoodBuilder, BuilderState
<1>7. ac \in GoodValue(0)
  BY <1>1, GoodValues
<1>8. K \in GoodStack(0, Len(input) - pos)
  <2> DEFINE entry == job.entry
             room == Len(input) - pos
  <2>1. entry \in KontId /\ Owing(entry) <= room /\ room \in Nat
    BY <1>1, <1>2, <1>4 DEF IsSpine
  <2> HIDE DEF entry, room
  <2>2. Run(entry) \in GoodKont(0, room) /\ Run(entry).role # "left"
    BY <2>1, RunGood DEF Run, Kont
  <2>3. <<Run(entry)>> \in GoodStack(0, room)
    BY <2>1, <2>2, OneStack
  <2>. QED
    BY <1>1, <2>3 DEF entry, room
<1>9. 0 \in 0..Len(slots)
  BY <1>5, SMT
<1>. QED
  BY <1>1, <1>2, <1>4, <1>5, <1>6, <1>7, <1>8, <1>9 DEF IInv, GoodEnv

(* Every step, and every stutter, preserves the invariant.                 *)
LEMMA StepGood ==
  ASSUME IInv, [Next]_vars
  PROVE  IInv'
<1>1. CASE UNCHANGED vars
  <2>1. UNCHANGED <<job, pos, slots, depth, le, env, frames, K, ac, builder,
                    best, failed>>
    BY <1>1 DEF vars
  <2>. QED
    BY <2>1 DEF IInv, input
<1>2. CASE Step
  BY <1>2, EvaluateGood, ConsumeGood, StructureGood, RecoverGood DEF Step
<1>. QED
  BY <1>1, <1>2 DEF Next

(* IInv implies the properties.                                            *)
LEMMA Consequences ==
  ASSUME IInv
  PROVE  TypeOK /\ InBuffer /\ StackOnlyShrinks
<1> DEFINE n == Len(builder.nodes)
           room == Len(input) - pos
<1>1. TypeOK
  <2>1. /\ n \in Nat /\ room \in Nat /\ pos \in Nat /\ best \in Nat
        /\ Len(input) \in Nat
    BY StateFacts, SMT DEF IInv
  <2>2. slots \in Seq(Slot)
    <3>1. GoodSlot(Len(input)) \subseteq Slot
      BY DEF GoodSlot
    <3>. QED
      BY <3>1, StateFacts, SeqMonotonic
  <2>3. env \in Seq(Binding)
    <3>1. [name : STRING, val : Scalar] \subseteq Binding
      BY DEF Binding, Scalar
    <3>. QED
      BY <3>1, SeqMonotonic DEF IInv, GoodEnv
  <2>4. frames \in Seq(FrameRecord)
    <3>1. GoodFrame(Len(slots), Len(input)) \subseteq FrameRecord
      BY DEF GoodFrame
    <3>. QED
      BY <3>1, StateFacts, SeqMonotonic
  <2>5. K \in Seq(KontRecord)
    <3>1. GoodKont(n, room) \subseteq KontRecord
      BY DEF GoodKont
    <3>2. K \in Seq(GoodKont(n, room))
      BY DEF IInv, GoodStack
    <3>. QED
      BY <3>1, <3>2, SeqMonotonic
  <2>6. ac \in Value /\ builder \in BuilderState
    BY DEF IInv, GoodValue, GoodBuilder
  <2>. QED
    BY <2>1, <2>2, <2>3, <2>4, <2>5, <2>6 DEF TypeOK, IInv
<1>2. InBuffer
  <2>1. pos <= Len(input) /\ best <= Len(input)
    BY StateFacts, SMT DEF IInv
  <2>2. \A i \in DOMAIN frames : frames[i].pos <= Len(input)
    BY StateFacts DEF GoodFrame
  <2>3. \A i \in DOMAIN slots : slots[i].hi <= Len(input)
    <3>1. DOMAIN slots = 1..Len(slots)
      BY LenProperties DEF IInv
    <3>. QED
      BY <3>1, StateFacts
  <2>4. ASSUME NEW i \in DOMAIN builder.nodes
        PROVE  /\ builder.nodes[i].start <= Len(input)
               /\ builder.nodes[i].end <= Len(input)
               /\ builder.nodes[i].type.k = "Int" =>
                    builder.nodes[i].start + builder.nodes[i].type.width
                      <= Len(input)
               /\ builder.nodes[i].type.k = "Bool" =>
                    builder.nodes[i].start < Len(input)
    <3>1. Len(input) \in Nat /\ builder \in GoodBuilder(Len(input))
      BY StateFacts DEF IInv
    <3>2. builder.nodes[i] \in GoodNode(n, Len(input))
      BY <2>4, <3>1, BuilderFacts
    <3>. QED
      BY <3>2 DEF GoodNode
  <2>. QED
    BY <2>1, <2>2, <2>3, <2>4 DEF InBuffer
<1>3. StackOnlyShrinks
  BY StateFacts DEF StackOnlyShrinks, Savepoints, GoodFrame
<1>. QED
  BY <1>1, <1>2, <1>3

(* The registers of the machine stay good in the context of each other:    *)
(* pointers lead to allocated nodes, links to konts of the right kind,     *)
(* continuations have their operands, and AdvancePos, which checks         *)
(* nothing, only steps over bytes ExtractBits has checked for.             *)
THEOREM Invariance == Spec => []IInv
<1>1. Init => IInv
  BY InitGood
<1>2. IInv /\ [Next]_vars => IInv'
  BY StepGood
<1>. QED
  BY <1>1, <1>2, PTL DEF Spec

(* Every register keeps the type it has in Machine.h, and interval_depth   *)
(* never exceeds the size of the vectors it indexes.                       *)
THEOREM TypeCorrect == Spec => []TypeOK
<1>1. IInv => TypeOK
  BY Consequences
<1>. QED
  BY <1>1, Invariance, PTL

(* For every program and every input, no cursor, window, error position or *)
(* recorded span ever leaves the buffer execute_from was given.            *)
THEOREM StaysInBuffer == Spec => []InBuffer
<1>1. IInv => InBuffer
  BY Consequences
<1>. QED
  BY <1>1, Invariance, PTL

(* Every Savepoint was pushed on an empty kont_stack, so restoring one     *)
(* only ever pops continuations and never pads the stack with null ones.   *)
THEOREM TruncationShrinks == Spec => []StackOnlyShrinks
<1>1. IInv => StackOnlyShrinks
  BY Consequences
<1>. QED
  BY <1>1, Invariance, PTL
=============================================================================
