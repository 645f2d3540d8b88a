---------------------------- MODULE EGraphProofs ----------------------------
(* The graph is sound: nothing eg_add, eg_merge, eg_rebuild or the analysis   *)
(* does equates terms that mean different things or states a fact that is not *)
(* so, for every consumer that keeps its contract and whatever is refused.    *)
(* And it is congruent after every eg_rebuild that nothing refuses, with no   *)
(* node lost, filed twice or listed twice on the way.  A plan that is ready   *)
(* has the price of the cheapest term of each class, and what is extracted    *)
(* from it is such a term.                                                    *)
EXTENDS Extraction, SequenceTheorems, Minima, TLAPS

(* A sequence given element by element.                                       *)
LEMMA SeqOf ==
    ASSUME NEW S, NEW n \in Nat, NEW f \in [1 .. n -> S]
    PROVE  f \in Seq(S) /\ Len(f) = n /\ \A i \in 1 .. n : f[i] \in S
OBVIOUS

(* One element more.                                                          *)
LEMMA AppendIs ==
    ASSUME NEW S, NEW s \in Seq(S), NEW x \in S
    PROVE  /\ Append(s, x) \in Seq(S) /\ Len(Append(s, x)) = Len(s) + 1
           /\ \A i \in 1 .. Len(s) : Append(s, x)[i] = s[i]
           /\ Append(s, x)[Len(s) + 1] = x
OBVIOUS

(* The parts of the kids' contract as they are used.                          *)
LEMMA OpArity == \A o \in Ops : Arity[o] \in Nat
BY EGraphAssumption

(* A term denotes something, and a fact made of it holds of that.             *)
LEMMA DenotesType ==
    ASSUME Stored, NEW op \in Ops, NEW ks \in Kids(Ids, op)
    PROVE  /\ [k \in 1 .. Arity[op] |-> means[ks[k]]] \in [1 .. Arity[op] -> Meaning]
           /\ Denotes(means, op, ks) \in Meaning
<1>1. \A k \in 1 .. Arity[op] : ks[k] \in 1 .. Len(means)
  BY DEF Stored, Kids, Ids
<1>3. \A k \in 1 .. Arity[op] : means[ks[k]] \in Meaning
  BY <1>1 DEF Stored
<1>2. [k \in 1 .. Arity[op] |-> means[ks[k]]] \in [1 .. Arity[op] -> Meaning]
  BY <1>3
<1> QED BY <1>2, EGraphAssumption DEF Denotes

(* Kids made canonical are kids, and denote what they did.                    *)
LEMMA CanonicalKids ==
    ASSUME Data, NEW op \in Ops, NEW ks \in Kids(Ids, op)
    PROVE  Canonical(ks) \in Kids(Ids, op) /\ Denotes(means, op, Canonical(ks)) = Denotes(means, op, ks)
<1>1. \A k \in 1 .. Arity[op] : /\ ks[k] \in Ids /\ canon[ks[k]] \in Ids
                                /\ means[canon[ks[k]]] = means[ks[k]]
  BY DEF Kids, Data, InGraph, Sound
<1>2. DOMAIN ks = 1 .. Arity[op]
  BY DEF Kids
<1>3. Canonical(ks) = [k \in 1 .. Arity[op] |-> canon[ks[k]]]
  BY <1>2 DEF Canonical
<1>4. [k \in 1 .. Arity[op] |-> means[Canonical(ks)[k]]] = [k \in 1 .. Arity[op] |-> means[ks[k]]]
  BY <1>1, <1>3
<1>5. Canonical(ks) \in Kids(Ids, op)
  BY <1>1, <1>3 DEF Kids
<1> QED BY <1>4, <1>5 DEF Denotes

(* Kids are a sequence of class ids.                                          *)
LEMMA KidsSeq ==
    ASSUME canon \in Seq(Nat), NEW op \in Ops, NEW ks \in Kids(Ids, op)
    PROVE  ks \in Seq(Nat)
<1>1. Arity[op] \in Nat /\ ks \in [1 .. Arity[op] -> Nat]
  BY OpArity DEF Kids, Ids
<1> QED BY <1>1, SeqOf

(* What make() says of a term is so.                                          *)
LEMMA MadeHolds ==
    ASSUME Data, Len(facts) = Len(canon), NEW op \in Ops, NEW ks \in Kids(Ids, op)
    PROVE  Made(op, ks) \in Fact /\ Holds(Made(op, ks), Denotes(means, op, ks))
<1> DEFINE fs == [k \in 1 .. Arity[op] |-> facts[canon[ks[k]]]]
           vs == [k \in 1 .. Arity[op] |-> means[ks[k]]]
<1>1. \A k \in 1 .. Arity[op] : /\ ks[k] \in Ids /\ canon[ks[k]] \in Ids
                                /\ means[canon[ks[k]]] = means[ks[k]]
  BY DEF Kids, Data, InGraph, Sound
<1>2. \A k \in 1 .. Arity[op] : /\ facts[canon[ks[k]]] \in Fact
                                /\ Holds(facts[canon[ks[k]]], means[ks[k]])
  BY <1>1 DEF Data, Stored, FactsHold, Ids
<1>3. fs \in [1 .. Arity[op] -> Fact]
  BY <1>2
<1>4. vs \in [1 .. Arity[op] -> Meaning]
  BY DenotesType DEF Data
<1>5. \A k \in 1 .. Arity[op] : Holds(fs[k], vs[k])
  BY <1>2
<1>6. Made(op, ks) = Make(op, fs)
  BY DEF Made, Kids
<1>7. Denotes(means, op, ks) = Eval(op, vs)
  BY DEF Denotes
<1> HIDE DEF fs, vs
<1>8. Make(op, fs) \in Fact /\ Holds(Make(op, fs), Eval(op, vs))
  BY <1>3, <1>4, <1>5, EGraphAssumption, AnalysisAssumption
<1> QED BY <1>6, <1>7, <1>8

-----------------------------------------------------------------------------
(* A class that was just made, before its node.                               *)
LEMMA NewClassStep ==
    ASSUME Data, NEW v \in Meaning, NewClass, means' = Append(means, v)
    PROVE  /\ canon' \in Seq(Nat) /\ Len(canon') = Len(canon) + 1
           /\ means' \in Seq(Meaning) /\ Len(means') = Len(canon')
           /\ means'[Len(canon')] = v
           /\ \A c \in Ids : canon'[c] = canon[c] /\ means'[c] = means[c]
           /\ \A c \in Ids' : canon'[c] \in Ids' /\ canon'[canon'[c]] = canon'[c]
           /\ \A c \in Ids' : means'[canon'[c]] = means'[c]
<1>1. /\ canon \in Seq(Nat) /\ means \in Seq(Meaning) /\ Len(means) = Len(canon)
      /\ Len(canon) \in Nat /\ Len(canon) + 1 \in Nat
  BY DEF Data, Stored
<1>2. /\ canon' \in Seq(Nat) /\ Len(canon') = Len(canon) + 1
      /\ \A c \in Ids : canon'[c] = canon[c]
      /\ canon'[Len(canon) + 1] = Len(canon) + 1
  BY <1>1, AppendIs DEF NewClass, Ids
<1>3. /\ means' \in Seq(Meaning) /\ Len(means') = Len(canon) + 1
      /\ \A c \in Ids : means'[c] = means[c]
      /\ means'[Len(canon) + 1] = v
  BY <1>1, AppendIs DEF Ids
<1>4. \A c \in Ids : canon[c] \in Ids /\ canon[canon[c]] = canon[c] /\ means[canon[c]] = means[c]
  BY DEF Data, InGraph, Sound
<1>5. \A c \in Ids' : c \in Ids \/ c = Len(canon) + 1
  BY <1>1, <1>2 DEF Ids
<1>6. \A c \in Ids : c \in Ids'
  BY <1>1, <1>2 DEF Ids
<1>7. Len(canon) + 1 \in Ids'
  BY <1>1, <1>2 DEF Ids
<1>8. ASSUME NEW c \in Ids'
      PROVE  /\ canon'[c] \in Ids' /\ canon'[canon'[c]] = canon'[c]
             /\ means'[canon'[c]] = means'[c]
  <2>1. CASE c \in Ids
    <3> DEFINE r == canon[c]
    <3>1. r \in Ids /\ canon[r] = r /\ means[r] = means[c] /\ canon'[c] = r
      BY <1>2, <1>4, <2>1
    <3> HIDE DEF r
    <3>2. canon'[r] = r /\ means'[r] = means'[c] /\ r \in Ids'
      BY <1>2, <1>3, <1>6, <2>1, <3>1
    <3> QED BY <3>1, <3>2
  <2>2. CASE c = Len(canon) + 1
    BY <1>2, <1>7, <2>2
  <2> QED BY <1>5, <2>1, <2>2
<1> QED BY <1>2, <1>3, <1>8

(* A larger graph has the kids a smaller one had.                             *)
LEMMA KidsGrow ==
    ASSUME NEW D, NEW S, NEW T, S \subseteq T, NEW f \in [D -> S]
    PROVE  f \in [D -> T]
OBVIOUS

(* A class more, with a node in it that denotes what the class was made for,  *)
(* or with none.                                                              *)
LEMMA GrownStep ==
    ASSUME Data, NEW v \in Meaning, NewClass, means' = Append(means, v),
           NEW ms \in Seq(Nat), members' = Append(members, ms),
           nodes' \in Seq(Node), Len(nodes) <= Len(nodes'),
           \A i \in Index : nodes'[i] = nodes[i],
           \A i \in Index' : i \notin Index =>
               /\ nodes'[i].cls = Len(canon) + 1
               /\ nodes'[i].kids \in Kids(Ids, nodes'[i].op)
               /\ Denotes(means, nodes'[i].op, nodes'[i].kids) = v,
           \A k \in 1 .. Len(ms) : ms[k] \in Index' /\ ms[k] \notin Index,
           filed' \subseteq Index'
    PROVE  /\ members' \in Seq(Seq(Nat)) /\ Len(members') = Len(canon')
           /\ InGraph' /\ Sound'
<1>1. /\ canon' \in Seq(Nat) /\ Len(canon') = Len(canon) + 1
      /\ means' \in Seq(Meaning) /\ Len(means') = Len(canon')
      /\ means'[Len(canon')] = v
      /\ \A c \in Ids : canon'[c] = canon[c] /\ means'[c] = means[c]
      /\ \A c \in Ids' : canon'[c] \in Ids' /\ canon'[canon'[c]] = canon'[c]
      /\ \A c \in Ids' : means'[canon'[c]] = means'[c]
  BY NewClassStep
<1>2. /\ Len(canon) \in Nat /\ Len(nodes) \in Nat /\ Len(nodes') \in Nat
      /\ members \in Seq(Seq(Nat)) /\ Len(members) = Len(canon)
  BY DEF Data, Stored
<1>3. /\ \A c \in Ids' : c \in Ids \/ c = Len(canon) + 1
      /\ Ids \subseteq Ids' /\ Len(canon) + 1 \in Ids' /\ Index \subseteq Index'
  BY <1>1, <1>2 DEF Ids, Index
<1>4. /\ members' \in Seq(Seq(Nat)) /\ Len(members') = Len(canon')
      /\ \A c \in Ids : members'[c] = members[c]
      /\ members'[Len(canon) + 1] = ms
  BY <1>1, <1>2, AppendIs DEF Ids
<1>5. ASSUME NEW i \in Index
      PROVE  /\ nodes[i].op \in Ops /\ nodes[i].cls \in Ids
             /\ nodes[i].kids \in Kids(Ids, nodes[i].op)
             /\ means[nodes[i].cls] = Denotes(means, nodes[i].op, nodes[i].kids)
  <2>1. nodes[i] \in Node
    BY DEF Data, Stored, Index
  <2> QED BY <2>1 DEF Data, InGraph, Sound, Node
<1>6. \A i \in Index' : nodes'[i].op \in Ops
  <2>1. \A i \in Index' : nodes'[i] \in Node
    BY DEF Index
  <2> QED BY <2>1 DEF Node
<1>7. ASSUME NEW op \in Ops, NEW ks \in Kids(Ids, op)
      PROVE  ks \in Kids(Ids', op) /\ Denotes(means', op, ks) = Denotes(means, op, ks)
  <2>1. ks \in Kids(Ids', op)
    BY <1>3, KidsGrow DEF Kids
  <2>2. \A k \in 1 .. Arity[op] : ks[k] \in Ids
    BY DEF Kids
  <2>3. [k \in 1 .. Arity[op] |-> means'[ks[k]]] = [k \in 1 .. Arity[op] |-> means[ks[k]]]
    BY <1>1, <2>2
  <2> QED BY <2>1, <2>3 DEF Denotes
<1>8. ASSUME NEW i \in Index'
      PROVE  /\ nodes'[i].cls \in Ids' /\ nodes'[i].kids \in Kids(Ids', nodes'[i].op)
             /\ means'[nodes'[i].cls] = Denotes(means', nodes'[i].op, nodes'[i].kids)
             /\ i \notin Index => nodes'[i].cls = Len(canon) + 1
  <2> DEFINE op == nodes'[i].op
             ks == nodes'[i].kids
  <2>1. op \in Ops
    BY <1>6
  <2>2. CASE i \in Index
    <3>1. /\ ks \in Kids(Ids, op) /\ nodes'[i].cls \in Ids /\ nodes'[i] = nodes[i]
          /\ means[nodes'[i].cls] = Denotes(means, op, ks)
      BY <1>5, <2>2
    <3> HIDE DEF op, ks
    <3>2. ks \in Kids(Ids', op) /\ Denotes(means', op, ks) = Denotes(means, op, ks)
      BY <1>7, <2>1, <3>1
    <3>3. means'[nodes'[i].cls] = means[nodes'[i].cls] /\ nodes'[i].cls \in Ids'
      BY <1>1, <1>3, <3>1
    <3> QED BY <2>2, <3>1, <3>2, <3>3 DEF op, ks
  <2>3. CASE i \notin Index
    <3>1. /\ ks \in Kids(Ids, op) /\ nodes'[i].cls = Len(canon) + 1 /\ Denotes(means, op, ks) = v
      BY <2>3
    <3> HIDE DEF op, ks
    <3>2. ks \in Kids(Ids', op) /\ Denotes(means', op, ks) = Denotes(means, op, ks)
      BY <1>7, <2>1, <3>1
    <3> QED BY <1>1, <1>3, <3>1, <3>2 DEF op, ks
  <2> QED BY <2>2, <2>3
<1>9. ASSUME NEW c \in Ids', NEW k \in 1 .. Len(members'[c])
      PROVE  members'[c][k] \in Index' /\ means'[nodes'[members'[c][k]].cls] = means'[c]
  <2>1. CASE c \in Ids
    <3> DEFINE i == members[c][k]
    <3>1. members'[c] = members[c]
      BY <1>4, <2>1
    <3>2. i \in Index /\ means[nodes[i].cls] = means[c]
      BY <2>1, <3>1 DEF Data, InGraph, Sound, Size
    <3> HIDE DEF i
    <3>3. nodes'[i] = nodes[i] /\ nodes[i].cls \in Ids /\ i \in Index'
      BY <1>3, <1>5, <3>2
    <3>4. means'[nodes'[i].cls] = means'[c]
      BY <1>1, <2>1, <3>2, <3>3, ZenonT(60)
    <3> QED BY <3>1, <3>3, <3>4 DEF i
  <2>2. CASE c = Len(canon) + 1
    <3> DEFINE i == ms[k]
    <3>1. members'[c][k] = i /\ i \in Index' /\ i \notin Index
      BY <1>4, <2>2
    <3> HIDE DEF i
    <3>2. nodes'[i].cls = c
      BY <1>8, <2>2, <3>1
    <3> QED BY <3>1, <3>2
  <2> QED BY <1>3, <2>1, <2>2
<1>10. InGraph'
  BY <1>1, <1>8, <1>9 DEF InGraph, Size
<1>11. Sound'
  BY <1>1, <1>8, <1>9 DEF Sound, Size
<1> QED BY <1>4, <1>10, <1>11

(* The facts of the classes there were.                                       *)
LEMMA FactsGrown ==
    ASSUME Data, NEW v \in Meaning, NewClass, means' = Append(means, v), facts' = facts
    PROVE  FactsHold' /\ Len(facts') <= Len(canon')
<1>1. /\ Len(canon') = Len(canon) + 1 /\ \A c \in Ids : means'[c] = means[c]
  BY NewClassStep
<1>2. /\ Len(facts) \in Nat /\ Len(canon) \in Nat /\ Len(facts) <= Len(canon)
  BY DEF Data, Stored
<1>3. \A c \in 1 .. Len(facts) : c \in Ids
  BY <1>2 DEF Ids
<1>4. \A c \in 1 .. Len(facts) : Holds(facts'[c], means'[c])
  BY <1>1, <1>3 DEF Data, FactsHold
<1>5. Len(facts') <= Len(canon')
  BY <1>1, <1>2
<1>6. FactsHold'
  BY <1>4 DEF FactsHold
<1> QED BY <1>5, <1>6

(* eg_add stops before its node.                                              *)
LEMMA NotCreatedStep ==
    ASSUME Data, NotCreated PROVE Data'
<1>0. /\ nodes' = nodes /\ filed' = filed /\ facts' = facts /\ dirty' = dirty /\ oom' = TRUE
      /\ Index' = Index
  BY DEF NotCreated, Refused, Index
<1>1. CASE UNCHANGED <<canon, members, means>>
  BY <1>0, <1>1 DEF Data, Stored, InGraph, Sound, FactsHold, Ids, Index, Size, Kids, Denotes
<1>2. CASE \E v \in Meaning : NewClass /\ members' = Append(members, <<>>) /\ means' = Append(means, v)
  <2>1. PICK v \in Meaning : NewClass /\ members' = Append(members, <<>>) /\ means' = Append(means, v)
    BY <1>2
  <2> DEFINE ms == <<>>
  <2>2. ms \in Seq(Nat) /\ Len(ms) = 0 /\ members' = Append(members, ms)
    BY <2>1
  <2> HIDE DEF ms
  <2>3. /\ nodes' \in Seq(Node) /\ Len(nodes) <= Len(nodes') /\ filed' \subseteq Index'
        /\ \A k \in 1 .. Len(ms) : ms[k] \in Index' /\ ms[k] \notin Index
    BY <1>0, <2>2 DEF Data, Stored, InGraph
  <2>4. /\ members' \in Seq(Seq(Nat)) /\ Len(members') = Len(canon')
        /\ InGraph' /\ Sound'
    BY <1>0, <2>1, <2>2, <2>3, GrownStep
  <2>5. canon' \in Seq(Nat) /\ means' \in Seq(Meaning) /\ Len(means') = Len(canon')
    BY <2>1, NewClassStep
  <2>6. FactsHold' /\ Len(facts') <= Len(canon')
    BY <1>0, <2>1, FactsGrown
  <2>7. Stored'
    BY <1>0, <2>4, <2>5, <2>6 DEF Data, Stored
  <2> QED BY <2>4, <2>6, <2>7 DEF Data
<1> QED BY <1>1, <1>2 DEF NotCreated

(* eg_add makes a class and its node, and stops where it is refused.          *)
LEMMA CreatedStep ==
    ASSUME Data, ~oom, NEW op \in Ops, NEW ks \in Kids(Ids, op),
           Created(op, ks, Denotes(means, op, ks))
    PROVE  Data'
<1> DEFINE v == Denotes(means, op, ks)
           n == Len(nodes) + 1
           new == [op |-> op, kids |-> ks, cls |-> Len(canon) + 1, live |-> TRUE]
<1>1. v \in Meaning
  BY DenotesType DEF Data
<1>2. /\ nodes \in Seq(Node) /\ Len(nodes) \in Nat /\ Len(canon) \in Nat
      /\ Len(facts) = Len(canon) /\ facts \in Seq(Fact) /\ dirty \in BOOLEAN
      /\ filed \subseteq Index /\ canon \in Seq(Nat)
  BY DEF Data, Stored, InGraph
<1>3. new \in Node
  <2>1. ks \in Seq(Nat)
    BY <1>2, KidsSeq
  <2> QED BY <1>2, <2>1 DEF Node
<1>4. new.op = op /\ new.kids = ks /\ new.cls = Len(canon) + 1
  OBVIOUS
<1>5. NewClass /\ means' = Append(means, v) /\ nodes' = Append(nodes, new) /\ dirty' = dirty
  BY DEF Created
<1>6. PICK listed, kept, known, copied \in BOOLEAN :
              /\ members' = Append(members, IF listed THEN <<n>> ELSE <<>>)
              /\ filed' = IF kept THEN filed \cup {n} ELSE filed
              /\ facts' = IF listed /\ kept /\ known THEN Append(facts, Made(op, ks))
                          ELSE facts
              /\ oom' = ~(listed /\ kept /\ known /\ copied)
  BY DEF Created
<1> DEFINE ms == IF listed THEN <<n>> ELSE <<>>
<1>7. ms \in Seq(Nat) /\ \A k \in 1 .. Len(ms) : ms[k] = n
  BY <1>2
<1>8. members' = Append(members, ms)
  BY <1>6
<1> HIDE DEF v, new, ms
<1>9. /\ nodes' \in Seq(Node) /\ Len(nodes') = n
      /\ \A i \in Index : nodes'[i] = nodes[i]
      /\ nodes'[n] = new
  BY <1>2, <1>3, <1>5, AppendIs DEF Index
<1>10. /\ Index' = Index \cup {n} /\ n \notin Index /\ Len(nodes) <= Len(nodes')
  BY <1>2, <1>9 DEF Index
<1>11. \A i \in Index' : i \notin Index =>
           /\ nodes'[i].cls = Len(canon) + 1
           /\ nodes'[i].kids \in Kids(Ids, nodes'[i].op)
           /\ Denotes(means, nodes'[i].op, nodes'[i].kids) = v
  BY <1>4, <1>9, <1>10 DEF v
<1>12. \A k \in 1 .. Len(ms) : ms[k] \in Index' /\ ms[k] \notin Index
  BY <1>7, <1>10
<1>13. filed' \subseteq Index'
  BY <1>2, <1>6, <1>10
<1>14. /\ members' \in Seq(Seq(Nat)) /\ Len(members') = Len(canon')
       /\ InGraph' /\ Sound'
  BY <1>1, <1>5, <1>7, <1>8, <1>9, <1>10, <1>11, <1>12, <1>13, GrownStep
<1>15. /\ canon' \in Seq(Nat) /\ means' \in Seq(Meaning) /\ Len(means') = Len(canon')
       /\ Len(canon') = Len(canon) + 1 /\ means'[Len(canon')] = v
       /\ \A c \in Ids : means'[c] = means[c]
  BY <1>1, <1>5, NewClassStep
<1>16. /\ facts' \in Seq(Fact) /\ FactsHold' /\ Len(facts') <= Len(canon')
       /\ ~oom' => Len(facts') = Len(canon')
  <2>1. CASE listed /\ kept /\ known
    <3> DEFINE f == Made(op, ks)
    <3>1. f \in Fact /\ Holds(f, v)
      BY <1>2, MadeHolds DEF v
    <3>2. facts' = Append(facts, f)
      BY <1>6, <2>1
    <3> HIDE DEF f
    <3>3. /\ facts' \in Seq(Fact) /\ Len(facts') = Len(facts) + 1
          /\ \A c \in 1 .. Len(facts) : facts'[c] = facts[c]
          /\ facts'[Len(facts) + 1] = f
      BY <1>2, <3>1, <3>2, AppendIs
    <3>4. ASSUME NEW c \in 1 .. Len(facts') PROVE Holds(facts'[c], means'[c])
      <4>1. CASE c \in 1 .. Len(facts)
        BY <1>2, <1>15, <3>3, <4>1 DEF Data, FactsHold, Ids
      <4>2. CASE c = Len(facts) + 1
        BY <1>2, <1>15, <3>1, <3>3, <4>2
      <4> QED BY <1>2, <3>3, <4>1, <4>2
    <3>5. FactsHold'
      BY <3>4 DEF FactsHold
    <3> QED BY <1>2, <1>15, <3>3, <3>5
  <2>2. CASE ~(listed /\ kept /\ known)
    <3>1. facts' = facts /\ oom'
      BY <1>6, <2>2
    <3>2. FactsHold' /\ Len(facts') <= Len(canon')
      BY <1>1, <1>5, <3>1, FactsGrown
    <3> QED BY <1>2, <3>1, <3>2
  <2> QED BY <2>1, <2>2
<1>17. oom' \in BOOLEAN
  BY <1>6
<1>18. Stored'
  BY <1>2, <1>5, <1>9, <1>14, <1>15, <1>16, <1>17 DEF Stored
<1> QED BY <1>14, <1>16, <1>18 DEF Data

-----------------------------------------------------------------------------
(* A list with the first part of another behind it.                           *)
LEMMA JoinedList ==
    ASSUME NEW s \in Seq(Nat), NEW t \in Seq(Nat), NEW m \in 0 .. Len(t)
    PROVE  /\ s \o SubSeq(t, 1, m) \in Seq(Nat)
           /\ \A k \in 1 .. Len(s \o SubSeq(t, 1, m)) :
                 \/ \E l \in 1 .. Len(s) : (s \o SubSeq(t, 1, m))[k] = s[l]
                 \/ \E l \in 1 .. Len(t) : (s \o SubSeq(t, 1, m))[k] = t[l]
<1> DEFINE u == SubSeq(t, 1, m)
<1>1. u \in Seq(Nat) /\ Len(u) = m /\ \A l \in 1 .. m : u[l] = t[l]
  OBVIOUS
<1> HIDE DEF u
<1>2. /\ s \o u \in Seq(Nat) /\ Len(s \o u) = Len(s) + m
      /\ \A k \in 1 .. Len(s) + m : (s \o u)[k] = IF k <= Len(s) THEN s[k] ELSE u[k - Len(s)]
  BY <1>1, ConcatProperties
<1>3. ASSUME NEW k \in 1 .. Len(s \o u)
      PROVE  \/ \E l \in 1 .. Len(s) : (s \o u)[k] = s[l]
             \/ \E l \in 1 .. Len(t) : (s \o u)[k] = t[l]
  <2>1. CASE k <= Len(s)
    BY <1>2, <2>1, SMTT(60)
  <2>2. CASE k > Len(s)
    <3>1. /\ k - Len(s) \in 1 .. m /\ (s \o u)[k] = u[k - Len(s)]
          /\ k - Len(s) \in 1 .. Len(t)
      BY <1>2, <2>2
    <3>2. (s \o u)[k] = t[k - Len(s)]
      BY <1>1, <3>1
    <3> QED BY <3>1, <3>2
  <2> QED BY <2>1, <2>2
<1> QED BY <1>2, <1>3 DEF u

(* The nodes a class lists.                                                   *)
Lists(c, i) == \E k \in 1 .. Size(c) : members[c][k] = i

(* eg_merge of two roots that mean the same, its pushes refused or not.       *)
LEMMA FoldedStep ==
    ASSUME Data, ~oom, NEW from \in Ids, NEW to \in Ids, from # to,
           canon[from] = from, canon[to] = to, means[from] = means[to],
           Folded(from, to), filed' = filed, means' = means,
           nodes' \in Seq(Node), Len(nodes') = Len(nodes),
           \A i \in Index : /\ nodes'[i].op = nodes[i].op /\ nodes'[i].kids = nodes[i].kids
                            /\ nodes'[i].cls = IF Lists(from, i) THEN to ELSE nodes[i].cls
    PROVE  Data'
<1>1. /\ canon \in Seq(Nat) /\ members \in Seq(Seq(Nat)) /\ Len(members) = Len(canon)
      /\ means \in Seq(Meaning) /\ Len(means) = Len(canon)
      /\ facts \in Seq(Fact) /\ Len(facts) = Len(canon) /\ dirty \in BOOLEAN
      /\ Len(canon) \in Nat
  BY DEF Data, Stored
<1>2. \A c \in Ids : canon[c] \in Ids /\ canon[canon[c]] = canon[c] /\ means[canon[c]] = means[c]
  BY DEF Data, InGraph, Sound
<1>3. canon' = [i \in Ids |-> IF canon[i] = from THEN to ELSE canon[i]]
  BY DEF Folded
<1>4. canon' \in Seq(Nat) /\ Len(canon') = Len(canon) /\ Ids' = Ids /\ Index' = Index
  <2>1. canon' \in [1 .. Len(canon) -> Nat]
    BY <1>1, <1>2, <1>3, SMTT(60) DEF Ids
  <2>3. \A n \in Nat : canon' \in [1 .. n -> Nat] => canon' \in Seq(Nat) /\ Len(canon') = n
    BY SeqOf
  <2>2. canon' \in Seq(Nat) /\ Len(canon') = Len(canon)
    BY <1>1, <2>1, <2>3
  <2> QED BY <2>2 DEF Ids, Index
<1>5. ASSUME NEW c \in Ids
      PROVE  /\ canon'[c] \in Ids /\ canon'[canon'[c]] = canon'[c]
             /\ means[canon'[c]] = means[c]
  <2>1. CASE canon[c] = from
    <3>1. canon'[c] = to /\ canon'[to] = to
      BY <1>3, <2>1
    <3> QED BY <1>2, <2>1, <3>1
  <2>2. CASE canon[c] # from
    <3> DEFINE r == canon[c]
    <3>1. r \in Ids /\ canon[r] = r /\ means[r] = means[c] /\ r # from /\ canon'[c] = r
      BY <1>2, <1>3, <2>2
    <3> HIDE DEF r
    <3>2. canon'[r] = r
      BY <1>3, <3>1
    <3> QED BY <3>1, <3>2
  <2> QED BY <2>1, <2>2
<1>6. PICK listed \in 0 .. Size(from), noted \in BOOLEAN :
          /\ members' = [members EXCEPT ![to] = @ \o SubSeq(members[from], 1, listed),
                                        ![from] = <<>>]
          /\ dirty' = (dirty \/ noted)
          /\ oom' = ~(listed = Size(from) /\ noted)
  BY DEF Folded
<1> DEFINE ms == members[to] \o SubSeq(members[from], 1, listed)
           none == <<>>
<1>7. \A c \in Ids : members[c] \in Seq(Nat)
  BY <1>1 DEF Ids
<1>8. /\ ms \in Seq(Nat)
      /\ \A k \in 1 .. Len(ms) : Lists(to, ms[k]) \/ Lists(from, ms[k])
  <2>1. members[to] \in Seq(Nat) /\ members[from] \in Seq(Nat) /\ listed \in 0 .. Len(members[from])
    BY <1>6, <1>7 DEF Size
  <2>2. /\ ms \in Seq(Nat)
        /\ \A k \in 1 .. Len(ms) : \/ \E l \in 1 .. Len(members[to]) : ms[k] = members[to][l]
                                   \/ \E l \in 1 .. Len(members[from]) : ms[k] = members[from][l]
    BY <2>1, JoinedList
  <2> HIDE DEF ms
  <2>3. ASSUME NEW k \in 1 .. Len(ms)
        PROVE  Lists(to, ms[k]) \/ Lists(from, ms[k])
    <3>1. CASE \E l \in 1 .. Len(members[to]) : ms[k] = members[to][l]
      BY <3>1 DEF Lists, Size
    <3>2. CASE \E l \in 1 .. Len(members[from]) : ms[k] = members[from][l]
      BY <3>2 DEF Lists, Size
    <3> QED BY <2>2, <3>1, <3>2, Zenon
  <2> QED BY <2>2, <2>3, Zenon
<1>20. none \in Seq(Nat) /\ Len(none) = 0
  OBVIOUS
<1>21. members' = [members EXCEPT ![to] = ms, ![from] = none]
  BY <1>6
<1> HIDE DEF ms, none
<1>9. \A c \in Ids : members'[c] = IF c = from THEN none ELSE IF c = to THEN ms ELSE members[c]
  BY <1>1, <1>21, SMTT(60) DEF Ids
<1>10. members' \in Seq(Seq(Nat)) /\ Len(members') = Len(canon)
  <2>1. \A c \in 1 .. Len(canon) : members'[c] \in Seq(Nat)
    BY <1>7, <1>8, <1>9, <1>20 DEF Ids
  <2>2. DOMAIN members = 1 .. Len(canon)
    BY <1>1
  <2>3. members' = [c \in 1 .. Len(canon) |-> members'[c]]
    BY <1>21, <2>2
  <2>4. members' \in [1 .. Len(canon) -> Seq(Nat)]
    BY <2>1, <2>3
  <2>5. \A n \in Nat : members' \in [1 .. n -> Seq(Nat)] => members' \in Seq(Seq(Nat)) /\ Len(members') = n
    BY SeqOf
  <2> QED BY <1>1, <2>4, <2>5
<1>11. \A i : \A c \in Ids : Lists(c, i) => i \in Index /\ means[nodes[i].cls] = means[c]
  BY DEF Lists, Data, InGraph, Sound
<1>12. ASSUME NEW i \in Index
       PROVE  /\ nodes[i].cls \in Ids /\ nodes[i].kids \in Kids(Ids, nodes[i].op)
              /\ nodes'[i].cls \in Ids /\ means[nodes'[i].cls] = means[nodes[i].cls]
  BY <1>11 DEF Data, InGraph
<1>13. ASSUME NEW c \in Ids, NEW k \in 1 .. Len(members'[c])
       PROVE  members'[c][k] \in Index /\ means[nodes'[members'[c][k]].cls] = means[c]
  <2> DEFINE i == members'[c][k]
  <2>1. i \in Index /\ means[nodes[i].cls] = means[c]
    <3>1. CASE c = from
      BY <1>9, <1>20, <3>1
    <3>2. CASE c = to
      BY <1>8, <1>9, <1>11, <3>2, SMTT(60)
    <3>3. CASE c # from /\ c # to
      BY <1>9, <1>11, <3>3, ZenonT(60) DEF Lists, Size
    <3> QED BY <3>1, <3>2, <3>3
  <2> HIDE DEF i
  <2>2. means[nodes'[i].cls] = means[c]
    BY <1>12, <2>1
  <2> QED BY <2>1, <2>2 DEF i
<1>14. facts' = [facts EXCEPT ![to] = Join(facts[to], facts[from])]
  BY DEF Folded
<1>15. /\ facts' \in Seq(Fact) /\ Len(facts') = Len(canon)
       /\ \A c \in Ids : Holds(facts'[c], means[c])
  <2>1. \A c \in Ids : facts[c] \in Fact /\ Holds(facts[c], means[c]) /\ means[c] \in Meaning
    BY <1>1, SMTT(60) DEF Data, FactsHold, Ids
  <2> DEFINE f == Join(facts[to], facts[from])
  <2>2. f \in Fact /\ Holds(f, means[to])
    BY <2>1, EGraphAssumption, AnalysisAssumption
  <2> HIDE DEF f
  <2>3. facts' = [facts EXCEPT ![to] = f]
    BY <1>14 DEF f
  <2>4. \A c \in Ids : facts'[c] = IF c = to THEN f ELSE facts[c]
    BY <1>1, <2>3, SMTT(60) DEF Ids
  <2>5. facts' \in [1 .. Len(canon) -> Fact]
    BY <1>1, <2>1, <2>2, <2>3 DEF Ids
  <2>6. facts' \in Seq(Fact) /\ Len(facts') = Len(canon)
    <3>1. \A n \in Nat : facts' \in [1 .. n -> Fact] => facts' \in Seq(Fact) /\ Len(facts') = n
      BY SeqOf
    <3> QED BY <1>1, <2>5, <3>1
  <2>7. \A c \in Ids : Holds(facts'[c], means[c])
    BY <2>1, <2>2, <2>4
  <2> QED BY <2>6, <2>7
<1>16. Stored'
  BY <1>1, <1>4, <1>6, <1>10, <1>15 DEF Stored
<1>17. InGraph'
  <2>1. \A i \in Index : nodes'[i].cls \in Ids /\ nodes'[i].kids \in Kids(Ids, nodes'[i].op)
    BY <1>12
  <2>2. filed' \subseteq Index
    BY DEF Data, InGraph
  <2> QED BY <1>4, <1>5, <1>13, <2>1, <2>2 DEF InGraph, Size
<1>18. Sound'
  <2>1. \A i \in Index : means[nodes'[i].cls] = Denotes(means, nodes'[i].op, nodes'[i].kids)
    BY <1>12 DEF Data, Sound
  <2> QED BY <1>4, <1>5, <1>13, <2>1 DEF Sound, Size
<1>19. FactsHold'
  BY <1>4, <1>15 DEF FactsHold, Ids
<1> QED BY <1>16, <1>17, <1>18, <1>19 DEF Data

(* A change of nodes that leaves op, kids and class alone.                    *)
LEMMA RetireIs ==
    ASSUME NEW h \in Seq(Node), NEW j \in 1 .. Len(h)
    PROVE  LET g == [h EXCEPT ![j].live = FALSE]
           IN  /\ g \in Seq(Node) /\ Len(g) = Len(h)
               /\ \A i \in 1 .. Len(h) : g[i].op = h[i].op /\ g[i].kids = h[i].kids /\ g[i].cls = h[i].cls
               /\ \A i \in 1 .. Len(h) : g[i].live <=> h[i].live /\ i # j
<1> DEFINE n == [h[j] EXCEPT !.live = FALSE]
           g == [h EXCEPT ![j] = n]
<1>1. \A i \in 1 .. Len(h) : h[i] \in Node
  OBVIOUS
<1>2. n \in Node /\ n.op = h[j].op /\ n.kids = h[j].kids /\ n.cls = h[j].cls /\ ~n.live
  BY <1>1 DEF Node
<1>3. g = [h EXCEPT ![j].live = FALSE]
  OBVIOUS
<1> HIDE DEF n
<1>4. g \in Seq(Node) /\ Len(g) = Len(h) /\ \A i \in 1 .. Len(h) : g[i] = IF i = j THEN n ELSE h[i]
  BY <1>1, <1>2
<1> HIDE DEF g
<1> QED BY <1>2, <1>3, <1>4

(* The nodes of a class moved to another.                                     *)
LEMMA InToIs ==
    ASSUME Data, NEW from \in Ids, NEW to \in Ids
    PROVE  /\ InTo(from, to) \in Seq(Node) /\ Len(InTo(from, to)) = Len(nodes)
           /\ \A i \in Index :
                 /\ InTo(from, to)[i].op = nodes[i].op /\ InTo(from, to)[i].kids = nodes[i].kids
                 /\ InTo(from, to)[i].cls = IF Lists(from, i) THEN to ELSE nodes[i].cls
                 /\ InTo(from, to)[i].live = nodes[i].live
<1>1. nodes \in Seq(Node) /\ to \in Nat /\ Len(nodes) \in Nat
  BY DEF Data, Stored, Ids
<1>2. \A i \in Index : InTo(from, to)[i] = IF Lists(from, i) THEN [nodes[i] EXCEPT !.cls = to] ELSE nodes[i]
  BY DEF InTo, Lists
<1>3. ASSUME NEW x \in Node
      PROVE  LET y == [x EXCEPT !.cls = to]
             IN  y \in Node /\ y.op = x.op /\ y.kids = x.kids /\ y.cls = to /\ y.live = x.live
  BY <1>1 DEF Node
<1>4. \A i \in Index : nodes[i] \in Node
  BY <1>1 DEF Index
<1>5. \A i \in Index :
         /\ InTo(from, to)[i] \in Node
         /\ InTo(from, to)[i].op = nodes[i].op /\ InTo(from, to)[i].kids = nodes[i].kids
         /\ InTo(from, to)[i].cls = IF Lists(from, i) THEN to ELSE nodes[i].cls
         /\ InTo(from, to)[i].live = nodes[i].live
  BY <1>2, <1>3, <1>4, ZenonT(60)
<1>6. InTo(from, to) \in [1 .. Len(nodes) -> Node]
  <2>1. InTo(from, to) = [i \in 1 .. Len(nodes) |-> InTo(from, to)[i]]
    BY DEF InTo, Index
  <2> QED BY <1>5, <2>1 DEF Index
<1> QED BY <1>1, <1>5, <1>6, SeqOf

(* eg_merge, refused or not.                                                  *)
LEMMA MergedStep ==
    ASSUME Data, ~oom, NEW a \in Ids, NEW b \in Ids, a # b,
           canon[a] = a, canon[b] = b, means[a] = means[b],
           Merged(a, b), filed' = filed, means' = means
    PROVE  Data'
<1> DEFINE to == IF Size(a) < Size(b) THEN b ELSE a
           from == IF to = a THEN b ELSE a
<1>1. Folded(from, to) /\ nodes' = InTo(from, to)
  BY DEF Merged
<1>2. /\ from \in Ids /\ to \in Ids /\ from # to /\ canon[from] = from /\ canon[to] = to
      /\ means[from] = means[to]
  OBVIOUS
<1> HIDE DEF from, to
<1>3. /\ nodes' \in Seq(Node) /\ Len(nodes') = Len(nodes)
      /\ \A i \in Index : /\ nodes'[i].op = nodes[i].op /\ nodes'[i].kids = nodes[i].kids
                          /\ nodes'[i].cls = IF Lists(from, i) THEN to ELSE nodes[i].cls
  BY <1>1, <1>2, InToIs
<1> QED BY <1>1, <1>2, <1>3, FoldedStep

(* Nodes with other liveness only, and the rest as it was or the flag up.     *)
LEMMA RetiredStep ==
    ASSUME Data, nodes' \in Seq(Node), Len(nodes') = Len(nodes),
           \A i \in Index : /\ nodes'[i].op = nodes[i].op /\ nodes'[i].kids = nodes[i].kids
                            /\ nodes'[i].cls = nodes[i].cls,
           UNCHANGED <<canon, members, facts, means>>,
           filed' \subseteq Index, dirty' \in BOOLEAN, oom' \in BOOLEAN, oom => oom'
    PROVE  Data'
<1>1. Ids' = Ids /\ Index' = Index /\ canon' = canon /\ members' = members /\ facts' = facts /\ means' = means
  BY DEF Ids, Index
<1>2. Stored'
  BY <1>1 DEF Data, Stored
<1>3. InGraph'
  <2>1. \A i \in Index : nodes'[i].cls \in Ids /\ nodes'[i].kids \in Kids(Ids, nodes'[i].op)
    BY DEF Data, InGraph
  <2>2. /\ \A c \in Ids : canon[c] \in Ids /\ canon[canon[c]] = canon[c]
        /\ \A c \in Ids : \A k \in 1 .. Len(members[c]) : members[c][k] \in Index
    BY DEF Data, InGraph, Size
  <2> QED BY <1>1, <2>1, <2>2 DEF InGraph, Size
<1>4. Sound'
  <2>1. \A i \in Index : means[nodes'[i].cls] = Denotes(means, nodes'[i].op, nodes'[i].kids)
    BY DEF Data, Sound
  <2>2. \A c \in Ids : \A k \in 1 .. Len(members[c]) :
            members[c][k] \in Index /\ means[nodes[members[c][k]].cls] = means[c]
    BY DEF Data, Sound, InGraph, Size
  <2>3. \A c \in Ids : \A k \in 1 .. Len(members[c]) : means[nodes'[members[c][k]].cls] = means[c]
    BY <2>2
  <2>4. \A c \in Ids : means[canon[c]] = means[c]
    BY DEF Data, Sound
  <2> QED BY <1>1, <2>1, <2>3, <2>4 DEF Sound, Size
<1>5. FactsHold'
  BY <1>1 DEF Data, FactsHold
<1> QED BY <1>2, <1>3, <1>4, <1>5 DEF Data

(* Nothing but the flags and what is filed.                                   *)
LEMMA FlagsStep ==
    ASSUME Data, UNCHANGED <<nodes, canon, members, facts, means>>,
           filed' \subseteq Index, dirty' \in BOOLEAN, oom' \in BOOLEAN, oom => oom'
    PROVE  Data'
<1>1. nodes' \in Seq(Node) /\ nodes' = nodes
  BY DEF Data, Stored
<1> QED BY <1>1, RetiredStep

(* A pass makes the kids and the classes of the live nodes canonical.         *)
LEMMA CanonicalStep ==
    ASSUME Data, BeginPass, nodes' = Repaired, oom' = oom
    PROVE  Data'
<1>1. /\ Ids' = Ids /\ canon' = canon /\ members' = members /\ facts' = facts /\ means' = means
      /\ filed' = {} /\ dirty' = FALSE
  BY DEF Ids, BeginPass
<1>2. nodes \in Seq(Node) /\ Len(nodes) \in Nat /\ canon \in Seq(Nat)
  BY DEF Data, Stored
<1>3. ASSUME NEW i \in Index
      PROVE  /\ nodes'[i] \in Node /\ nodes'[i].op \in Ops /\ nodes'[i].cls \in Ids
             /\ nodes'[i].kids \in Kids(Ids, nodes'[i].op)
             /\ means[nodes'[i].cls] = Denotes(means, nodes'[i].op, nodes'[i].kids)
             /\ means[nodes'[i].cls] = means[nodes[i].cls]
  <2> DEFINE n == nodes[i]
             ks == Canonical(n.kids)
             r == canon[n.cls]
  <2>1. n \in Node /\ n.op \in Ops
    <3>1. n \in Node
      BY <1>2 DEF Index
    <3> QED BY <3>1 DEF Node
  <2>2. /\ n.cls \in Ids /\ n.kids \in Kids(Ids, n.op) /\ means[n.cls] = Denotes(means, n.op, n.kids)
    BY DEF Data, InGraph, Sound
  <2>3. r \in Ids /\ means[r] = means[n.cls]
    BY <2>2 DEF Data, InGraph, Sound
  <2>4. ks \in Kids(Ids, n.op) /\ Denotes(means, n.op, ks) = Denotes(means, n.op, n.kids)
    BY <2>1, <2>2, CanonicalKids
  <2>5. ks \in Seq(Nat)
    BY <1>2, <2>1, <2>4, KidsSeq
  <2>6. nodes'[i] = IF n.live THEN [n EXCEPT !.kids = ks, !.cls = r] ELSE n
    BY DEF Repaired, Recanonicalised
  <2> HIDE DEF n, ks, r
  <2>7. r \in Nat
    BY <2>3 DEF Ids
  <2>8. LET m == [n EXCEPT !.kids = ks, !.cls = r]
        IN  m \in Node /\ m.op = n.op /\ m.kids = ks /\ m.cls = r
    BY <2>1, <2>5, <2>7 DEF Node
  <2>9. CASE n.live
    BY <2>1, <2>2, <2>3, <2>4, <2>6, <2>8, <2>9 DEF n
  <2>10. CASE ~n.live
    BY <2>1, <2>2, <2>6, <2>10 DEF n
  <2> QED BY <2>9, <2>10
<1>4. nodes' \in Seq(Node) /\ Len(nodes') = Len(nodes) /\ Index' = Index
  <2>1. nodes' \in [1 .. Len(nodes) -> Node]
    BY <1>3 DEF Index, Repaired
  <2>2. \A n \in Nat : nodes' \in [1 .. n -> Node] => nodes' \in Seq(Node) /\ Len(nodes') = n
    BY SeqOf
  <2>3. nodes' \in Seq(Node) /\ Len(nodes') = Len(nodes)
    BY <1>2, <2>1, <2>2
  <2> QED BY <2>3 DEF Index
<1>5. Stored'
  BY <1>1, <1>4 DEF Data, Stored
<1>6. InGraph'
  <2>2. /\ \A c \in Ids : canon[c] \in Ids /\ canon[canon[c]] = canon[c]
        /\ \A c \in Ids : \A k \in 1 .. Len(members[c]) : members[c][k] \in Index
    BY DEF Data, InGraph, Size
  <2> QED BY <1>1, <1>3, <1>4, <2>2 DEF InGraph, Size
<1>7. Sound'
  <2>2. \A c \in Ids : \A k \in 1 .. Len(members[c]) :
            members[c][k] \in Index /\ means[nodes[members[c][k]].cls] = means[c]
    BY DEF Data, Sound, InGraph, Size
  <2>3. \A c \in Ids : \A k \in 1 .. Len(members[c]) : means[nodes'[members[c][k]].cls] = means[c]
    BY <1>3, <2>2
  <2>4. \A c \in Ids : means[canon[c]] = means[c]
    BY DEF Data, Sound
  <2> QED BY <1>1, <1>3, <1>4, <2>3, <2>4 DEF Sound, Size
<1>8. FactsHold'
  BY <1>1 DEF Data, FactsHold
<1> QED BY <1>5, <1>6, <1>7, <1>8 DEF Data

-----------------------------------------------------------------------------
(* A hit is a node with that operator and those kids, whose class denotes the *)
(* term that was looked up.                                                   *)
LEMMA HitIs ==
    ASSUME Data, NEW op \in Ops, NEW ks \in Kids(Ids, op), Hits(op, ks) # {}
    PROVE  LET c == canon[nodes[CHOOSE i \in Hits(op, ks) : TRUE].cls]
           IN  c \in Ids /\ canon[c] = c /\ means[c] = Denotes(means, op, ks)
<1> DEFINE i == CHOOSE i \in Hits(op, ks) : TRUE
<1>1. i \in Hits(op, ks)
  OBVIOUS
<1> HIDE DEF i
<1>2. i \in Index /\ nodes[i].op = op /\ nodes[i].kids = ks
  BY <1>1 DEF Hits, Data, InGraph
<1>3. nodes[i].cls \in Ids /\ means[nodes[i].cls] = Denotes(means, op, ks)
  BY <1>2 DEF Data, InGraph, Sound
<1>4. /\ canon[nodes[i].cls] \in Ids
      /\ canon[canon[nodes[i].cls]] = canon[nodes[i].cls]
      /\ means[canon[nodes[i].cls]] = means[nodes[i].cls]
  BY <1>3 DEF Data, InGraph, Sound
<1> QED BY <1>3, <1>4 DEF i

(* The constant a fact implies, with no kids, denotes what the class does.    *)
LEMMA ConstIs ==
    ASSUME Data, NEW c \in Ids, Wanting(c)
    PROVE  /\ Const(c) \in Ops /\ <<>> \in Kids(Ids, Const(c))
           /\ Denotes(means, Const(c), <<>>) = means[c]
<1>1. /\ c \in 1 .. Len(facts) /\ c \in 1 .. Len(means)
      /\ facts \in Seq(Fact) /\ means \in Seq(Meaning)
  BY DEF Data, Stored, Wanting, Ids
<1>2. facts[c] \in Fact /\ means[c] \in Meaning /\ Holds(facts[c], means[c])
  BY <1>1 DEF Data, FactsHold
<1>3. Const(c) \in Implied(facts[c])
  BY DEF Const, Wanting
<1>4. Const(c) \in Ops /\ Arity[Const(c)] = 0
  BY <1>2, <1>3, EGraphAssumption
<1>5. <<>> \in Kids(Ids, Const(c))
  BY <1>4 DEF Kids
<1>6. [k \in 1 .. Arity[Const(c)] |-> means[<<>>[k]]] \in [1 .. Arity[Const(c)] -> Meaning]
  BY <1>4, <1>5, DenotesType DEF Data
<1>7. Denotes(means, Const(c), <<>>) = means[c]
  BY <1>2, <1>3, <1>6, AnalysisAssumption DEF Denotes
<1> QED BY <1>4, <1>5, <1>7

(* modify() of a class, refused or not.                                       *)
LEMMA ModifyStep ==
    ASSUME Data, NEW c \in Ids, ModifyNothing(c) \/ ModifyIntern(c) \/ ModifyMerge(c)
    PROVE  Data'
<1>1. CASE ModifyNothing(c)
  <2>1. /\ UNCHANGED <<nodes, canon, members, facts, means>>
        /\ filed' \subseteq Index /\ dirty' \in BOOLEAN /\ oom' \in BOOLEAN /\ (oom => oom')
    BY <1>1 DEF ModifyNothing, Data, Stored, InGraph
  <2> QED BY <2>1, FlagsStep
<1>2. CASE ModifyIntern(c)
  <2>1. /\ Const(c) \in Ops /\ <<>> \in Kids(Ids, Const(c)) /\ ~oom
        /\ Created(Const(c), <<>>, Denotes(means, Const(c), <<>>)) \/ NotCreated
    BY <1>2, ConstIs DEF ModifyIntern, Wanting
  <2> QED BY <2>1, CreatedStep, NotCreatedStep
<1>3. CASE ModifyMerge(c)
  <2> DEFINE d == ConstClass(c)
  <2>1. ~oom /\ canon[c] = c /\ d # c /\ Hits(Const(c), <<>>) # {} /\ filed' = filed /\ means' = means
    BY <1>3 DEF ModifyMerge, Wanting, Held
  <2>2. /\ Const(c) \in Ops /\ <<>> \in Kids(Ids, Const(c))
        /\ Denotes(means, Const(c), <<>>) = means[c]
    BY <1>3, ConstIs DEF ModifyMerge
  <2>3. d \in Ids /\ canon[d] = d /\ means[d] = means[c]
    BY <2>1, <2>2, HitIs DEF ConstClass
  <2>4. Merged(c, d) \/ NotMerged
    BY <1>3 DEF ModifyMerge
  <2> HIDE DEF d
  <2>5. CASE Merged(c, d)
    BY <2>1, <2>3, <2>5, MergedStep
  <2>6. CASE NotMerged
    <3>1. /\ UNCHANGED <<nodes, canon, members, facts, means>>
          /\ filed' \subseteq Index /\ dirty' \in BOOLEAN /\ oom' \in BOOLEAN /\ (oom => oom')
      BY <2>1, <2>6 DEF NotMerged, Refused, Data, Stored, InGraph
    <3> QED BY <3>1, FlagsStep
  <2> QED BY <2>4, <2>5, <2>6
<1> QED BY <1>1, <1>2, <1>3

(* eg_merge as a caller calls it.                                             *)
LEMMA MergeStep ==
    ASSUME Data, NEW a \in Ids, NEW b \in Ids, Merge(a, b) PROVE Data'
<1> DEFINE p == canon[a]
           q == canon[b]
<1>1. /\ ~oom /\ p # q /\ means[a] = means[b] /\ filed' = filed /\ means' = means
      /\ Merged(p, q) \/ NotMerged
  BY DEF Merge
<1>2. /\ p \in Ids /\ q \in Ids /\ canon[p] = p /\ canon[q] = q
      /\ means[p] = means[a] /\ means[q] = means[b]
  BY DEF Data, InGraph, Sound
<1> HIDE DEF p, q
<1>3. CASE Merged(p, q)
  BY <1>1, <1>2, <1>3, MergedStep
<1>4. CASE NotMerged
  <2>1. /\ UNCHANGED <<nodes, canon, members, facts, means>>
        /\ filed' \subseteq Index /\ dirty' \in BOOLEAN /\ oom' \in BOOLEAN /\ (oom => oom')
    BY <1>1, <1>4 DEF NotMerged, Refused, Data, Stored, InGraph
  <2> QED BY <2>1, FlagsStep
<1> QED BY <1>1, <1>3, <1>4

(* Two nodes with one key: their classes become one, and one is retired.      *)
LEMMA TwinStep ==
    ASSUME Data, at \in Nat \ {0}, SweepTwin PROVE Data'
<1> DEFINE mine == canon[nodes[at].cls]
           twin == Twin
           from == IF Size(Twin) < Size(mine) THEN Twin ELSE mine
           to == IF from = mine THEN Twin ELSE mine
           op == nodes[at].op
           ks == nodes[at].kids
<1>1. /\ at \in Index /\ Hits(op, ks) # {} /\ filed' = filed /\ means' = means
      /\ nodes \in Seq(Node) /\ Len(nodes) \in Nat
  BY DEF SweepTwin, Sweeping, Twins, Index, Data, Stored
<1>2. op \in Ops
  <2>1. nodes[at] \in Node
    BY <1>1 DEF Index
  <2> QED BY <2>1 DEF Node
<1>3. /\ ks \in Kids(Ids, op) /\ nodes[at].cls \in Ids
      /\ means[nodes[at].cls] = Denotes(means, op, ks)
  BY <1>1 DEF Data, InGraph, Sound
<1>4. mine \in Ids /\ canon[mine] = mine /\ means[mine] = Denotes(means, op, ks)
  BY <1>3 DEF Data, InGraph, Sound
<1>5. twin \in Ids /\ canon[twin] = twin /\ means[twin] = Denotes(means, op, ks)
  BY <1>1, <1>2, <1>3, HitIs DEF Twin, Twins
<1>6. \/ /\ nodes' = Retire(nodes)
         /\ UNCHANGED <<canon, members, facts, dirty>> /\ oom' \in BOOLEAN /\ (oom => oom')
      \/ /\ mine # twin /\ ~oom /\ Folded(from, to) /\ nodes' = Retire(InTo(from, to))
  BY DEF SweepTwin, Refused, Data, Stored
<1> HIDE DEF op, ks
<1>7. CASE /\ nodes' = Retire(nodes)
           /\ UNCHANGED <<canon, members, facts, dirty>> /\ oom' \in BOOLEAN /\ (oom => oom')
  <2>1. /\ nodes' \in Seq(Node) /\ Len(nodes') = Len(nodes)
        /\ \A i \in Index : /\ nodes'[i].op = nodes[i].op /\ nodes'[i].kids = nodes[i].kids
                            /\ nodes'[i].cls = nodes[i].cls
    BY <1>1, <1>7, RetireIs DEF Retire, Index
  <2>2. filed' \subseteq Index /\ dirty' \in BOOLEAN
    BY <1>1, <1>7 DEF Data, Stored, InGraph
  <2> QED BY <1>1, <1>7, <2>1, <2>2, RetiredStep
<1>8. CASE mine # twin /\ ~oom /\ Folded(from, to) /\ nodes' = Retire(InTo(from, to))
  <2>1. /\ from \in Ids /\ to \in Ids /\ from # to /\ canon[from] = from /\ canon[to] = to
        /\ means[from] = means[to]
    BY <1>4, <1>5, <1>8
  <2> HIDE DEF from, to
  <2> DEFINE h == InTo(from, to)
  <2>2. /\ h \in Seq(Node) /\ Len(h) = Len(nodes)
        /\ \A i \in Index : /\ h[i].op = nodes[i].op /\ h[i].kids = nodes[i].kids
                            /\ h[i].cls = IF Lists(from, i) THEN to ELSE nodes[i].cls
    BY <2>1, InToIs
  <2>3. nodes' = [h EXCEPT ![at].live = FALSE] /\ at \in 1 .. Len(h)
    BY <1>1, <1>8, <2>2 DEF Retire, Index
  <2> HIDE DEF h
  <2>4. /\ nodes' \in Seq(Node) /\ Len(nodes') = Len(h)
        /\ \A i \in 1 .. Len(h) : /\ nodes'[i].op = h[i].op /\ nodes'[i].kids = h[i].kids
                                  /\ nodes'[i].cls = h[i].cls
    BY <2>2, <2>3, RetireIs
  <2>5. \A i \in Index : /\ nodes'[i].op = nodes[i].op /\ nodes'[i].kids = nodes[i].kids
                         /\ nodes'[i].cls = IF Lists(from, i) THEN to ELSE nodes[i].cls
    BY <2>2, <2>4 DEF Index
  <2> QED BY <1>1, <1>8, <2>1, <2>2, <2>4, <2>5, FoldedStep, SMTT(60)
<1> QED BY <1>6, <1>7, <1>8

(* A round of analysis_restore joins what make() says into a class.           *)
LEMMA JoinFactStep ==
    ASSUME Data, ~oom, at \in Nat \ {0}, JoinFact PROVE Data'
<1> DEFINE op == nodes[at].op
           ks == nodes[at].kids
           c == canon[nodes[at].cls]
           f == Join(facts[c], Made(op, ks))
<1>1. /\ UNCHANGED <<nodes, canon, members, filed, dirty, oom, means>>
      /\ facts' = [facts EXCEPT ![c] = f] \/ facts' = facts
      /\ at \in Index
  BY DEF JoinFact, Index, Data, Stored
<1>2. /\ nodes \in Seq(Node) /\ facts \in Seq(Fact) /\ means \in Seq(Meaning)
      /\ Len(facts) = Len(canon) /\ Len(means) = Len(canon) /\ Len(canon) \in Nat
  BY DEF Data, Stored
<1>3. op \in Ops
  <2>1. nodes[at] \in Node
    BY <1>1, <1>2 DEF Index
  <2> QED BY <2>1 DEF Node
<1>4. ks \in Kids(Ids, op) /\ nodes[at].cls \in Ids /\ means[nodes[at].cls] = Denotes(means, op, ks)
  BY <1>1 DEF Data, InGraph, Sound
<1>5. c \in Ids /\ means[c] = Denotes(means, op, ks)
  BY <1>4 DEF Data, InGraph, Sound
<1>6. Made(op, ks) \in Fact /\ Holds(Made(op, ks), Denotes(means, op, ks))
  BY <1>2, <1>3, <1>4, MadeHolds
<1> HIDE DEF op, ks, c
<1>7. facts[c] \in Fact /\ means[c] \in Meaning /\ Holds(facts[c], means[c])
  BY <1>2, <1>5 DEF Data, FactsHold, Ids
<1>8. f \in Fact /\ Holds(f, means[c])
  BY <1>5, <1>6, <1>7, EGraphAssumption, AnalysisAssumption
<1> HIDE DEF f
<1>9. /\ facts' \in Seq(Fact) /\ Len(facts') = Len(facts)
      /\ \A d \in 1 .. Len(facts) : facts'[d] = IF d = c /\ facts' # facts THEN f ELSE facts[d]
  <2>1. c \in 1 .. Len(facts)
    BY <1>2, <1>5 DEF Ids
  <2>2. CASE facts' = facts
    BY <1>2, <2>2
  <2>3. CASE facts' # facts
    <3>1. facts' = [facts EXCEPT ![c] = f]
      BY <1>1, <2>3
    <3> QED BY <1>2, <1>8, <2>1, <2>3, <3>1
  <2> QED BY <2>2, <2>3
<1>10. FactsHold'
  <2>1. \A d \in 1 .. Len(facts) : Holds(facts'[d], means[d])
    BY <1>8, <1>9 DEF Data, FactsHold
  <2> QED BY <1>1, <1>9, <2>1 DEF FactsHold
<1>11. Stored'
  BY <1>1, <1>2, <1>9 DEF Data, Stored
<1>12. InGraph' /\ Sound'
  BY <1>1 DEF Data, InGraph, Sound, Ids, Index, Size, Kids, Denotes
<1> QED BY <1>10, <1>11, <1>12 DEF Data

(* An empty graph.                                                            *)
LEMMA InitInv == Init => IInv
<1> SUFFICES ASSUME Init PROVE IInv
  OBVIOUS
<1>1. /\ Len(canon) = 0 /\ Len(nodes) = 0 /\ Len(facts) = 0 /\ Len(members) = 0 /\ Len(means) = 0
  BY DEF Init
<1>5. /\ nodes \in Seq(Node) /\ canon \in Seq(Nat) /\ members \in Seq(Seq(Nat))
      /\ means \in Seq(Meaning) /\ facts \in Seq(Fact)
  BY DEF Init
<1>6. dirty \in BOOLEAN /\ oom \in BOOLEAN /\ moved \in BOOLEAN
  BY DEF Init
<1>2. Stored
  BY <1>1, <1>5, <1>6 DEF Stored
<1>3. InGraph /\ Sound /\ FactsHold
  BY <1>1 DEF Init, InGraph, Sound, FactsHold, Ids, Index
<1>4. Control
  <2>1. pc = "idle" /\ at = 1 /\ round = 1
    BY DEF Init
  <2> QED BY <1>6, <2>1 DEF Control, Phases
<1> QED BY <1>2, <1>3, <1>4 DEF IInv, Data

(* Every step keeps what is stored sound.                                     *)
LEMMA StepData == IInv /\ [Next]_vars => Data'
<1> SUFFICES ASSUME IInv, [Next]_vars PROVE Data'
  OBVIOUS
<1>0. Data /\ at \in Nat \ {0} /\ (pc = "added" => at \in Ids) /\ (pc = "facts" => ~oom)
  BY DEF IInv, Control
<1>s. filed \subseteq Index /\ dirty \in BOOLEAN /\ oom \in BOOLEAN
  BY <1>0 DEF Data, Stored, InGraph
<1>1. ASSUME NEW op \in Ops, NEW ks \in Kids(Ids, op), Add(op, ks) PROVE Data'
  <2> DEFINE cs == Canonical(ks)
  <2>1. cs \in Kids(Ids, op) /\ Denotes(means, op, cs) = Denotes(means, op, ks)
    BY <1>0, CanonicalKids
  <2>2. ~oom /\ (Created(op, cs, Denotes(means, op, ks)) \/ NotCreated)
    BY <1>1 DEF Add
  <2> HIDE DEF cs
  <2>3. Created(op, cs, Denotes(means, op, cs)) \/ NotCreated
    BY <2>1, <2>2
  <2> QED BY <1>0, <2>1, <2>2, <2>3, CreatedStep, NotCreatedStep
<1>2. ASSUME NEW a \in Ids, NEW b \in Ids, Merge(a, b) PROVE Data'
  BY <1>0, <1>2, MergeStep
<1>3. CASE ModifyAdded
  <2>1. at \in Ids /\ (ModifyNothing(at) \/ ModifyIntern(at) \/ ModifyMerge(at))
    BY <1>0, <1>3 DEF ModifyAdded
  <2> QED BY <1>0, <2>1, ModifyStep
<1>4. CASE BeginPass
  <2>1. CASE nodes' = Repaired /\ oom' = oom
    BY <1>0, <1>4, <2>1, CanonicalStep
  <2>2. CASE nodes' = nodes /\ oom' = TRUE
    <3>1. /\ UNCHANGED <<nodes, canon, members, facts, means>>
          /\ filed' \subseteq Index /\ dirty' \in BOOLEAN /\ oom' \in BOOLEAN /\ (oom => oom')
      BY <1>4, <2>2 DEF BeginPass
    <3> QED BY <1>0, <3>1, FlagsStep
  <2> QED BY <1>4, <2>1, <2>2 DEF BeginPass, Refused
<1>5. CASE SweepDead \/ SweepFile \/ BeginFacts \/ EndRound \/ EndPass
  <2>1. /\ UNCHANGED <<nodes, canon, members, facts, means>>
        /\ filed' \subseteq Index /\ dirty' \in BOOLEAN /\ oom' \in BOOLEAN /\ (oom => oom')
    <3>1. CASE SweepDead
      BY <1>s, <3>1 DEF SweepDead
    <3>2. CASE SweepFile
      <4>1. at \in Index
        BY <1>0, <3>2 DEF SweepFile, Sweeping, Index, Data, Stored
      <4>2. /\ UNCHANGED <<nodes, canon, members, facts, means>> /\ dirty' = dirty
            /\ filed' = filed \cup {at} \/ filed' = filed
            /\ oom' = oom \/ oom' = TRUE
        BY <3>2 DEF SweepFile, Refused
      <4>3. filed' \subseteq Index
        BY <1>s, <4>1, <4>2
      <4>4. dirty' \in BOOLEAN /\ oom' \in BOOLEAN /\ (oom => oom')
        <5>1. dirty' \in BOOLEAN
          BY <1>s, <4>2
        <5>2. CASE oom' = oom
          BY <1>s, <5>1, <5>2
        <5>3. CASE oom' = TRUE
          BY <5>1, <5>3
        <5> QED BY <4>2, <5>2, <5>3
      <4> QED BY <4>2, <4>3, <4>4
    <3>3. CASE BeginFacts
      BY <1>s, <3>3 DEF BeginFacts, Refused
    <3>4. CASE EndRound
      BY <1>s, <3>4 DEF EndRound
    <3>5. CASE EndPass
      BY <1>s, <3>5 DEF EndPass
    <3> QED BY <1>5, <3>1, <3>2, <3>3, <3>4, <3>5
  <2> QED BY <1>0, <2>1, FlagsStep
<1>6. CASE SweepTwin
  BY <1>0, <1>6, TwinStep
<1>7. CASE JoinFact
  BY <1>0, <1>7, JoinFactStep DEF JoinFact
<1>8. CASE ModifyClass
  <2>1. at \in Ids /\ (ModifyNothing(at) \/ ModifyIntern(at) \/ ModifyMerge(at))
    BY <1>0, <1>8 DEF ModifyClass, Ids, Data, Stored
  <2> QED BY <1>0, <2>1, ModifyStep
<1>9. CASE UNCHANGED vars
  <2>1. /\ UNCHANGED <<nodes, canon, members, facts, means>>
        /\ filed' \subseteq Index /\ dirty' \in BOOLEAN /\ oom' \in BOOLEAN /\ (oom => oom')
    BY <1>s, <1>9 DEF vars
  <2> QED BY <1>0, <2>1, FlagsStep
<1> QED BY <1>1, <1>2, <1>3, <1>4, <1>5, <1>6, <1>7, <1>8, <1>9 DEF Next, Rebuild

(* Classes are never taken back, and equal ids stay equal.                    *)
Coarser == /\ Len(canon') >= Len(canon)
           /\ \A a, b \in Ids : canon[a] = canon[b] => canon'[a] = canon'[b]

(* A class more.                                                              *)
LEMMA NewClassCoarser == ASSUME Data, NewClass PROVE Coarser
<1>1. canon \in Seq(Nat) /\ Len(canon) \in Nat /\ Len(canon) + 1 \in Nat
  BY DEF Data, Stored
<1>2. Len(canon') = Len(canon) + 1 /\ \A c \in Ids : canon'[c] = canon[c]
  BY <1>1, AppendIs DEF NewClass, Ids
<1> QED BY <1>1, <1>2 DEF Coarser

(* Two classes less one.                                                      *)
LEMMA FoldedCoarser ==
    ASSUME Data, NEW from, NEW to, Folded(from, to) PROVE Coarser
<1>1. Len(canon) \in Nat /\ canon' = [i \in 1 .. Len(canon) |-> IF canon[i] = from THEN to ELSE canon[i]]
  BY DEF Folded, Data, Stored, Ids
<1>2. Len(canon') = Len(canon)
  BY <1>1
<1> QED BY <1>1, <1>2 DEF Coarser, Ids

(* No step takes a class back or splits one.                                  *)
LEMMA StepCoarser == IInv /\ [Next]_vars => Coarser
<1> SUFFICES ASSUME IInv, [Next]_vars PROVE Coarser
  OBVIOUS
<1>0. Data
  BY DEF IInv
<1>1. canon' = canon => Coarser
  BY <1>0 DEF Coarser, Ids, Data, Stored
<1>2. ASSUME NEW op, NEW ks, NEW v, Created(op, ks, v) \/ NotCreated PROVE Coarser
  BY <1>0, <1>1, <1>2, NewClassCoarser DEF Created, NotCreated
<1>3. ASSUME NEW a, NEW b, Merged(a, b) \/ NotMerged PROVE Coarser
  <2>1. CASE Merged(a, b)
    <3>1. \E from, to : Folded(from, to)
      BY <2>1 DEF Merged
    <3> QED BY <1>0, <3>1, FoldedCoarser
  <2>2. CASE NotMerged
    BY <1>1, <2>2 DEF NotMerged
  <2> QED BY <1>3, <2>1, <2>2
<1>4. ASSUME NEW c, ModifyNothing(c) \/ ModifyIntern(c) \/ ModifyMerge(c) PROVE Coarser
  BY <1>1, <1>2, <1>3, <1>4 DEF ModifyNothing, ModifyIntern, ModifyMerge
<1>5. CASE \E op \in Ops : \E ks \in Kids(Ids, op) : Add(op, ks)
  BY <1>2, <1>5 DEF Add
<1>6. CASE \E a, b \in Ids : Merge(a, b)
  BY <1>3, <1>6 DEF Merge
<1>7. CASE ModifyAdded \/ ModifyClass
  BY <1>4, <1>7 DEF ModifyAdded, ModifyClass
<1>8. CASE SweepTwin
  <2>1. canon' = canon \/ \E from, to : Folded(from, to)
    BY <1>8 DEF SweepTwin
  <2> QED BY <1>0, <1>1, <2>1, FoldedCoarser
<1>9. CASE BeginPass \/ SweepDead \/ SweepFile \/ BeginFacts \/ JoinFact \/ EndRound \/ EndPass
  BY <1>1, <1>9 DEF BeginPass, SweepDead, SweepFile, BeginFacts, JoinFact, EndRound, EndPass
<1>10. CASE UNCHANGED vars
  BY <1>1, <1>10 DEF vars
<1> QED BY <1>5, <1>6, <1>7, <1>8, <1>9, <1>10 DEF Next, Rebuild

(* The step a call has come to is one it can be at.                           *)
LEMMA StepControl == IInv /\ [Next]_vars => Control'
<1> SUFFICES ASSUME IInv, [Next]_vars PROVE Control'
  OBVIOUS
<1>0. /\ pc \in Phases /\ at \in Nat \ {0} /\ moved \in BOOLEAN /\ round \in Nat
      /\ pc = "added" => at \in Ids
      /\ pc = "facts" => ~oom
      /\ Len(canon) \in Nat
  BY DEF IInv, Control, Data, Stored
<1>c. \A c \in Ids : c \in Ids'
  <2>1. Len(canon') >= Len(canon) /\ Len(canon') \in Nat
    BY StepCoarser, StepData DEF Coarser, Data, Stored
  <2> QED BY <1>0, <2>1 DEF Ids
<1>1. ASSUME NEW op \in Ops, NEW ks \in Kids(Ids, op), Add(op, ks) PROVE Control'
  <2>1. pc = "idle" /\ moved' = moved /\ round' = round
    BY <1>1 DEF Add
  <2>2. CASE /\ Created(op, Canonical(ks), Denotes(means, op, ks))
             /\ pc' = IF oom' THEN "idle" ELSE "added"
             /\ at' = Len(canon) + 1
    <3>1. at' \in Ids'
      <4>1. canon \in Seq(Nat) /\ Len(canon) + 1 \in Nat
        BY DEF IInv, Data, Stored
      <4>2. Len(canon') = Len(canon) + 1
        BY <2>2, <4>1, AppendIs DEF Created, NewClass
      <4> QED BY <1>0, <2>2, <4>2 DEF Ids
    <3> QED BY <1>0, <2>1, <2>2, <3>1 DEF Control, Phases
  <2>3. CASE NotCreated /\ UNCHANGED <<pc, at>>
    BY <1>0, <2>1, <2>3 DEF Control
  <2> QED BY <1>1, <2>2, <2>3 DEF Add
<1>2. ASSUME NEW a \in Ids, NEW b \in Ids, Merge(a, b) PROVE Control'
  BY <1>0, <1>2 DEF Merge, Control, control
<1>3. CASE ModifyAdded
  BY <1>0, <1>c, <1>3 DEF ModifyAdded, Control, Phases
<1>4. CASE BeginPass
  BY <1>0, <1>4 DEF BeginPass, Control, Phases
<1>5. CASE SweepDead \/ SweepFile \/ SweepTwin
  BY <1>0, <1>5 DEF SweepDead, SweepFile, SweepTwin, Sweeping, Next1, Control, Phases
<1>6. CASE BeginFacts
  <2>1. moved' \in BOOLEAN
    BY <1>0, <1>6 DEF BeginFacts
  <2>2. \/ pc' = "facts" /\ at' = 1 /\ round' = 1 /\ ~oom /\ UNCHANGED oom
        \/ pc' = "idle" /\ at' = at /\ round' = round
    BY <1>6 DEF BeginFacts
  <2> QED BY <1>0, <2>1, <2>2 DEF Control, Phases
<1>7. CASE JoinFact
  <2>1. moved' \in BOOLEAN
    BY <1>0, <1>7 DEF JoinFact
  <2>2. pc = "facts" /\ pc' = pc /\ at' = at + 1 /\ round' = round /\ oom' = oom
    BY <1>7 DEF JoinFact
  <2> QED BY <1>0, <2>1, <2>2 DEF Control, Phases
<1>8. CASE EndRound
  <2>1. moved' \in BOOLEAN
    BY <1>8 DEF EndRound
  <2>2. /\ pc = "facts" /\ at' = 1 /\ oom' = oom
        /\ \/ round' = round + 1 /\ pc' = pc
           \/ round' = round /\ pc' = "modify"
    BY <1>8 DEF EndRound
  <2> QED BY <1>0, <2>1, <2>2 DEF Control, Phases
<1>9. CASE ModifyClass
  BY <1>0, <1>9 DEF ModifyClass, Next1, control, Control, Phases
<1>10. CASE EndPass
  BY <1>0, <1>10 DEF EndPass, Control, Phases
<1>11. CASE UNCHANGED vars
  BY <1>0, <1>11 DEF vars, Control, Ids
<1> QED BY <1>1, <1>2, <1>3, <1>4, <1>5, <1>6, <1>7, <1>8, <1>9, <1>10, <1>11 DEF Next, Rebuild

-----------------------------------------------------------------------------
(* Nothing is lost or doubled: what a step that nothing refuses does to the   *)
(* lists of the classes, to the hashcons and to the keys of the nodes.        *)

(* The parts of the graph, as they are used below.                            *)
LEMMA GraphFacts ==
    ASSUME Data
    PROVE  /\ nodes \in Seq(Node) /\ Len(nodes) \in Nat
           /\ canon \in Seq(Nat) /\ Len(canon) \in Nat
           /\ members \in Seq(Seq(Nat)) /\ Len(members) = Len(canon)
           /\ filed \subseteq Index /\ dirty \in BOOLEAN /\ oom \in BOOLEAN
           /\ \A c \in Ids : /\ members[c] \in Seq(Nat) /\ Size(c) \in Nat
                             /\ \A k \in 1 .. Size(c) : members[c][k] \in Index
                             /\ canon[c] \in Ids /\ canon[canon[c]] = canon[c]
           /\ \A i \in Index : /\ nodes[i].op \in Ops /\ nodes[i].cls \in Ids
                               /\ canon[nodes[i].cls] \in Ids
                               /\ nodes[i].kids \in Kids(Ids, nodes[i].op)
                               /\ nodes[i].live \in BOOLEAN
<1>1. /\ nodes \in Seq(Node) /\ Len(nodes) \in Nat
      /\ canon \in Seq(Nat) /\ Len(canon) \in Nat
      /\ members \in Seq(Seq(Nat)) /\ Len(members) = Len(canon)
      /\ filed \subseteq Index /\ dirty \in BOOLEAN /\ oom \in BOOLEAN
  BY DEF Data, Stored, InGraph
<1>2. ASSUME NEW c \in Ids
      PROVE  /\ members[c] \in Seq(Nat) /\ Size(c) \in Nat
             /\ \A k \in 1 .. Size(c) : members[c][k] \in Index
             /\ canon[c] \in Ids /\ canon[canon[c]] = canon[c]
  <2>1. members[c] \in Seq(Nat)
    BY <1>1 DEF Ids
  <2>2. Size(c) \in Nat
    BY <2>1 DEF Size
  <2> QED BY <2>1, <2>2 DEF Data, InGraph
<1>3. ASSUME NEW i \in Index
      PROVE  /\ nodes[i].op \in Ops /\ nodes[i].cls \in Ids
             /\ canon[nodes[i].cls] \in Ids
             /\ nodes[i].kids \in Kids(Ids, nodes[i].op)
             /\ nodes[i].live \in BOOLEAN
  <2>1. nodes[i] \in Node
    BY <1>1 DEF Index
  <2> QED BY <1>2, <2>1 DEF Data, InGraph, Node
<1> QED BY <1>1, <1>2, <1>3

(* Kids canonical in every graph that holds them.                             *)
LEMMA KidsFacts ==
    ASSUME Data, NEW op \in Ops, NEW ks \in Kids(Ids, op)
    PROVE  /\ DOMAIN ks = 1 .. Arity[op]
           /\ \A k \in DOMAIN ks : ks[k] \in Ids
           /\ Canonical(ks) \in Kids(Ids, op)
           /\ Canonical(Canonical(ks)) = Canonical(ks)
<1>1. DOMAIN ks = 1 .. Arity[op] /\ \A k \in DOMAIN ks : ks[k] \in Ids
  BY DEF Kids
<1>2. Canonical(ks) \in Kids(Ids, op)
  BY CanonicalKids
<1>3. \A k \in DOMAIN ks : canon[canon[ks[k]]] = canon[ks[k]]
  BY <1>1 DEF Data, InGraph
<1>4. Canonical(Canonical(ks)) = Canonical(ks)
  BY <1>3 DEF Canonical
<1> QED BY <1>1, <1>2, <1>4

(* Equal kids stay equal when classes are joined.                             *)
LEMMA KidsStayEqual ==
    ASSUME Data, Coarser, NEW op \in Ops, NEW ks \in Kids(Ids, op), NEW ls \in Kids(Ids, op),
           Canonical(ks) = Canonical(ls)
    PROVE  [k \in DOMAIN ks |-> canon'[ks[k]]] = [k \in DOMAIN ls |-> canon'[ls[k]]]
<1>1. /\ DOMAIN ks = 1 .. Arity[op] /\ DOMAIN ls = 1 .. Arity[op]
      /\ \A k \in 1 .. Arity[op] : ks[k] \in Ids /\ ls[k] \in Ids
  BY KidsFacts, ZenonT(60)
<1>2. \A k \in 1 .. Arity[op] : canon[ks[k]] = canon[ls[k]]
  <2> SUFFICES ASSUME NEW k \in 1 .. Arity[op] PROVE canon[ks[k]] = canon[ls[k]]
    OBVIOUS
  <2>1. Canonical(ks)[k] = canon[ks[k]] /\ Canonical(ls)[k] = canon[ls[k]]
    BY <1>1 DEF Canonical
  <2> QED BY <2>1
<1>3. \A k \in 1 .. Arity[op] : canon'[ks[k]] = canon'[ls[k]]
  BY <1>1, <1>2 DEF Coarser
<1> QED BY <1>1, <1>3

(* Kids keep their roots where none is folded.                                *)
LEMMA KidsStay ==
    ASSUME Data, \A c \in Ids : canon'[c] = canon[c],
           NEW op \in Ops, NEW ks \in Kids(Ids, op)
    PROVE  Canonical(ks)' = Canonical(ks)
<1>1. \A k \in DOMAIN ks : canon'[ks[k]] = canon[ks[k]]
  BY KidsFacts
<1> QED BY <1>1 DEF Canonical

(* A node interned whole.                                                     *)
LEMMA CreatedIs ==
    ASSUME Data, NEW op \in Ops, NEW ks \in Kids(Ids, op), NEW v, Created(op, ks, v), ~oom'
    PROVE  LET n == Len(nodes) + 1
               c == Len(canon) + 1
           IN  /\ Index' = Index \cup {n} /\ n \notin Index
               /\ Ids' = Ids \cup {c} /\ c \notin Ids
               /\ \A i \in Index : nodes'[i] = nodes[i]
               /\ nodes'[n] = [op |-> op, kids |-> ks, cls |-> c, live |-> TRUE]
               /\ \A d \in Ids : canon'[d] = canon[d] /\ members'[d] = members[d]
               /\ canon'[c] = c /\ members'[c] = <<n>>
               /\ filed' = filed \cup {n} /\ dirty' = dirty
<1> DEFINE n == Len(nodes) + 1
           c == Len(canon) + 1
           new == [op |-> op, kids |-> ks, cls |-> c, live |-> TRUE]
           list == <<n>>
<1>1. /\ nodes \in Seq(Node) /\ Len(nodes) \in Nat /\ canon \in Seq(Nat) /\ Len(canon) \in Nat
      /\ members \in Seq(Seq(Nat)) /\ Len(members) = Len(canon)
  BY GraphFacts
<1>2. /\ canon' = Append(canon, c) /\ nodes' = Append(nodes, new) /\ dirty' = dirty
      /\ members' = Append(members, list) /\ filed' = filed \cup {n}
  BY DEF Created, NewClass
<1>3. new \in Node /\ list \in Seq(Nat)
  BY <1>1, KidsSeq DEF Node
<1> HIDE DEF new, list
<1>4. /\ Len(nodes') = n /\ nodes'[n] = new /\ \A i \in Index : nodes'[i] = nodes[i]
  BY <1>1, <1>2, <1>3, AppendIs DEF Index
<1>5. /\ Len(canon') = c /\ canon'[c] = c /\ \A d \in Ids : canon'[d] = canon[d]
  BY <1>1, <1>2, AppendIs DEF Ids
<1>6. members'[c] = list /\ \A d \in Ids : members'[d] = members[d]
  BY <1>1, <1>2, <1>3, AppendIs DEF Ids
<1>7. /\ Index' = Index \cup {n} /\ n \notin Index
      /\ Ids' = Ids \cup {c} /\ c \notin Ids
  BY <1>1, <1>4, <1>5 DEF Index, Ids
<1> QED BY <1>2, <1>4, <1>5, <1>6, <1>7 DEF new, list

(* Two classes made one, whole.                                               *)
LEMMA FoldedIs ==
    ASSUME Data, NEW from \in Ids, NEW to \in Ids, from # to,
           canon[from] = from, canon[to] = to, Folded(from, to), ~oom'
    PROVE  /\ Ids' = Ids /\ dirty' = TRUE
           /\ \A c \in Ids : canon'[c] = IF canon[c] = from THEN to ELSE canon[c]
           /\ \A c \in Ids : c # from /\ c # to => members'[c] = members[c]
           /\ Len(members'[from]) = 0
           /\ Len(members'[to]) = Size(to) + Size(from)
           /\ \A k \in 1 .. Size(to) : members'[to][k] = members[to][k]
           /\ \A k \in 1 .. Size(from) : members'[to][Size(to) + k] = members[from][k]
<1>1. /\ Len(canon) \in Nat /\ members \in Seq(Seq(Nat)) /\ Len(members) = Len(canon)
      /\ dirty \in BOOLEAN
      /\ members[to] \in Seq(Nat) /\ members[from] \in Seq(Nat)
      /\ Size(to) \in Nat /\ Size(from) \in Nat
  BY GraphFacts
<1>2. canon' = [i \in 1 .. Len(canon) |-> IF canon[i] = from THEN to ELSE canon[i]]
  BY DEF Folded, Ids
<1>3. Len(canon') = Len(canon)
  BY <1>1, <1>2
<1>4. PICK listed \in 0 .. Size(from), noted \in BOOLEAN :
          /\ members' = [members EXCEPT ![to] = @ \o SubSeq(members[from], 1, listed),
                                        ![from] = <<>>]
          /\ dirty' = (dirty \/ noted)
          /\ oom' = ~(listed = Size(from) /\ noted)
  BY DEF Folded
<1>5. listed = Size(from) /\ dirty' = TRUE
  BY <1>1, <1>4
<1> DEFINE s == members[to]
           t == members[from]
           none == <<>>
<1>6. SubSeq(t, 1, listed) = t
  BY <1>1, <1>5 DEF Size
<1>7. members' = [members EXCEPT ![to] = s \o t, ![from] = none]
  BY <1>4, <1>6
<1>8. /\ Len(s \o t) = Len(s) + Len(t)
      /\ \A k \in 1 .. Len(s) : (s \o t)[k] = s[k]
      /\ \A k \in 1 .. Len(t) : (s \o t)[Len(s) + k] = t[k]
  <2>1. \A x, y \in Seq(Nat) : /\ Len(x \o y) = Len(x) + Len(y)
                               /\ \A k \in 1 .. Len(x) : (x \o y)[k] = x[k]
                               /\ \A k \in 1 .. Len(y) : (x \o y)[Len(x) + k] = y[k]
    BY ConcatProperties
  <2> QED BY <1>1, <2>1
<1>9. Len(none) = 0
  OBVIOUS
<1> DEFINE st == s \o t
<1>10. members' = [members EXCEPT ![to] = st, ![from] = none]
  BY <1>7
<1> HIDE DEF none, st
<1>11. /\ members'[from] = none /\ members'[to] = st
       /\ \A c \in Ids : c # from /\ c # to => members'[c] = members[c]
  BY <1>1, <1>10, SMTT(60) DEF Ids
<1> QED BY <1>1, <1>2, <1>3, <1>5, <1>8, <1>9, <1>11 DEF Ids, Size, st

-----------------------------------------------------------------------------
(* A node interned where no live one has its key leaves the graph whole.      *)
LEMMA CreatedWhole ==
    ASSUME Data, Whole, ~oom, NEW op \in Ops, NEW ks \in Kids(Ids, op), NEW v,
           Created(op, ks, v), ~oom', Canonical(ks) = ks, Hits(op, ks) = {},
           pc # "sweep", pc' # "sweep"
    PROVE  Whole'
<1> DEFINE n == Len(nodes) + 1
           c == Len(canon) + 1
           new == [op |-> op, kids |-> ks, cls |-> c, live |-> TRUE]
<1>1. /\ Index' = Index \cup {n} /\ n \notin Index
      /\ Ids' = Ids \cup {c} /\ c \notin Ids
      /\ \A i \in Index : nodes'[i] = nodes[i]
      /\ nodes'[n] = new
      /\ \A d \in Ids : canon'[d] = canon[d] /\ members'[d] = members[d]
      /\ canon'[c] = c /\ members'[c] = <<n>>
      /\ filed' = filed \cup {n} /\ dirty' = dirty
  BY CreatedIs
<1>2. new.op = op /\ new.kids = ks /\ new.cls = c /\ new.live
  OBVIOUS
<1>3. /\ filed \subseteq Index
      /\ \A d \in Ids : /\ canon[d] \in Ids
                        /\ \A k \in 1 .. Size(d) : members[d][k] \in Index
      /\ \A i \in Index : /\ nodes[i].op \in Ops /\ nodes[i].cls \in Ids
                          /\ canon[nodes[i].cls] \in Ids
                          /\ nodes[i].kids \in Kids(Ids, nodes[i].op)
  BY GraphFacts
<1>4. ListsOnce /\ FiledOnce /\ Canonised /\ Replaced
  BY DEF Whole
<1> HIDE DEF n, c, new
<1>5. Alive' = Alive \cup {n} /\ Alive \subseteq Index
  BY <1>1, <1>2 DEF Alive
<1>6. ListsOnce'
  <2>1. ASSUME NEW i \in Alive'
        PROVE  \E k \in 1 .. Size(canon[nodes[i].cls])' : members'[canon'[nodes'[i].cls]][k] = i
    <3>1. CASE i = n
      <4>1. canon'[nodes'[i].cls] = c /\ members'[c] = <<n>>
        BY <1>1, <1>2, <3>1
      <4>2. Len(<<n>>) = 1 /\ <<n>>[1] = i
        BY <3>1
      <4> QED BY <4>1, <4>2 DEF Size
    <3>2. CASE i \in Alive
      <4> DEFINE r == canon[nodes[i].cls]
      <4>1. r \in Ids /\ canon'[nodes'[i].cls] = r /\ members'[r] = members[r]
        BY <1>1, <1>3, <1>5, <3>2
      <4>2. \E k \in 1 .. Size(r) : members[r][k] = i
        BY <1>4, <3>2 DEF ListsOnce
      <4> HIDE DEF r
      <4> QED BY <4>1, <4>2 DEF Size
    <3> QED BY <1>5, <3>1, <3>2
  <2>2. ASSUME NEW d \in Ids', NEW k \in 1 .. Size(d)', NEW l \in 1 .. Size(d)'
        PROVE  /\ canon'[nodes'[members'[d][k]].cls] = d
               /\ members'[d][k] = members'[d][l] => k = l
    <3>1. CASE d = c
      <4>1. members'[d] = <<n>> /\ canon'[nodes'[n].cls] = d
        BY <1>1, <1>2, <3>1
      <4>2. Len(<<n>>) = 1 /\ <<n>>[1] = n
        OBVIOUS
      <4>3. k = 1 /\ l = 1
        BY <2>2, <4>1, <4>2 DEF Size
      <4> QED BY <4>1, <4>2, <4>3
    <3>2. CASE d \in Ids
      <4>1. members'[d] = members[d] /\ k \in 1 .. Size(d) /\ l \in 1 .. Size(d)
        BY <1>1, <2>2, <3>2 DEF Size
      <4> DEFINE x == members[d][k]
      <4>2. x \in Index /\ nodes'[x] = nodes[x] /\ nodes[x].cls \in Ids
        BY <1>1, <1>3, <3>2, <4>1
      <4>3. canon[nodes[x].cls] = d /\ (members[d][k] = members[d][l] => k = l)
        BY <1>4, <3>2, <4>1 DEF ListsOnce
      <4> QED BY <1>1, <4>1, <4>2, <4>3
    <3> QED BY <1>1, <3>1, <3>2
  <2> QED BY <2>1, <2>2 DEF ListsOnce
<1>7. FiledOnce'
  <2>1. ASSUME NEW i \in filed \cap Alive PROVE ~(nodes[i].op = op /\ nodes[i].kids = ks)
    BY DEF Hits, Alive
  <2>2. ASSUME NEW i \in filed' \cap Alive', NEW j \in filed' \cap Alive',
               nodes'[i].op = nodes'[j].op, nodes'[i].kids = nodes'[j].kids
        PROVE  i = j
    <3>1. /\ i = n \/ i \in filed \cap Alive
          /\ j = n \/ j \in filed \cap Alive
      BY <1>1, <1>3, <1>5
    <3>2. \A x \in filed \cap Alive : nodes'[x] = nodes[x]
      BY <1>1, <1>3
    <3>3. CASE i \in filed \cap Alive /\ j \in filed \cap Alive
      BY <1>4, <2>2, <3>2, <3>3 DEF FiledOnce
    <3>4. CASE i = n \/ j = n
      BY <1>1, <1>2, <2>1, <2>2, <3>1, <3>2, <3>4
    <3> QED BY <3>1, <3>3, <3>4
  <2>3. \A i \in Alive' : i \in filed'
    BY <1>1, <1>4, <1>5 DEF FiledOnce
  <2> QED BY <2>2, <2>3 DEF FiledOnce
<1>8. ASSUME NEW i \in Index
      PROVE  /\ Canonical(nodes[i].kids)' = Canonical(nodes[i].kids)
             /\ nodes'[i].op = nodes[i].op
             /\ canon'[nodes'[i].cls] = canon[nodes[i].cls]
  <2> DEFINE ls == nodes[i].kids
             o == nodes[i].op
  <2>1. o \in Ops /\ ls \in Kids(Ids, o)
    BY <1>3
  <2>2. \A k \in DOMAIN ls : canon'[ls[k]] = canon[ls[k]]
    BY <1>1, <2>1, KidsFacts
  <2>3. nodes'[i].kids = ls /\ nodes'[i].op = o /\ canon'[nodes'[i].cls] = canon[nodes[i].cls]
    BY <1>1, <1>3
  <2> QED BY <2>2, <2>3 DEF Canonical
<1>9. Canonical(ks)' = ks
  BY <1>1, KidsStay
<1>10. Canonised'
  <2>1. ASSUME ~dirty', NEW i \in Alive' PROVE Canonical(nodes[i].kids)' = nodes'[i].kids
    <3>1. CASE i = n
      BY <1>1, <1>2, <1>9, <3>1 DEF Canonical
    <3>2. CASE i \in Alive
      BY <1>1, <1>4, <1>5, <1>8, <2>1, <3>2 DEF Canonised
    <3> QED BY <1>5, <3>1, <3>2
  <2> QED BY <2>1 DEF Canonised
<1>11. Replaced'
  <2>1. ASSUME NEW i \in Index'
        PROVE  \E j \in Alive' : /\ nodes'[j].op = nodes'[i].op
                                 /\ Canonical(nodes[j].kids)' = Canonical(nodes[i].kids)'
                                 /\ canon'[nodes'[j].cls] = canon'[nodes'[i].cls]
    <3>1. CASE i = n
      BY <1>5, <3>1
    <3>2. CASE i \in Index
      <4>1. PICK j \in Alive : /\ nodes[j].op = nodes[i].op
                               /\ Canonical(nodes[j].kids) = Canonical(nodes[i].kids)
                               /\ canon[nodes[j].cls] = canon[nodes[i].cls]
        BY <1>4, <3>2 DEF Replaced
      <4> QED BY <1>5, <1>8, <3>2, <4>1
    <3> QED BY <1>1, <3>1, <3>2
  <2> QED BY <2>1 DEF Replaced
<1> QED BY <1>6, <1>7, <1>10, <1>11 DEF Whole

(* Nodes renewed or retired for a twin, and no class touched.                 *)
LEMMA SteadyWhole ==
    ASSUME Data, Whole, ~oom, NEW gone, canon' = canon, members' = members, Index' = Index,
           \A i \in Index : /\ nodes'[i].op = nodes[i].op
                            /\ Canonical(nodes[i].kids)' = Canonical(nodes[i].kids)
                            /\ canon'[nodes'[i].cls] = canon[nodes[i].cls]
                            /\ nodes'[i].live <=> nodes[i].live /\ i \notin gone,
           \A i \in gone : \E j \in Alive \ gone :
               /\ nodes[j].op = nodes[i].op
               /\ Canonical(nodes[j].kids) = Canonical(nodes[i].kids)
               /\ canon[nodes[j].cls] = canon[nodes[i].cls],
           FiledOnce', Canonised'
    PROVE  Whole'
<1>1. ListsOnce /\ Replaced
  BY DEF Whole
<1>2. Alive' = Alive \ gone /\ Alive \subseteq Index /\ Ids' = Ids
  BY DEF Alive, Ids
<1>3. \A c \in Ids : \A k \in 1 .. Size(c) : members[c][k] \in Index
  BY GraphFacts
<1>4. \A c : Size(c)' = Size(c) /\ members'[c] = members[c]
  BY DEF Size
<1>5. ListsOnce'
  <2>1. ASSUME NEW i \in Alive'
        PROVE  \E k \in 1 .. Size(canon[nodes[i].cls])' : members'[canon'[nodes'[i].cls]][k] = i
    <3> DEFINE r == canon[nodes[i].cls]
    <3>1. i \in Index /\ i \in Alive /\ canon'[nodes'[i].cls] = r
      BY <1>2
    <3>2. \E k \in 1 .. Size(r) : members[r][k] = i
      BY <1>1, <3>1 DEF ListsOnce
    <3> HIDE DEF r
    <3> QED BY <3>1, <3>2 DEF Size
  <2>2. ASSUME NEW d \in Ids', NEW k \in 1 .. Size(d)', NEW l \in 1 .. Size(d)'
        PROVE  /\ canon'[nodes'[members'[d][k]].cls] = d
               /\ members'[d][k] = members'[d][l] => k = l
    <3>1. d \in Ids /\ k \in 1 .. Size(d) /\ l \in 1 .. Size(d)
      BY <1>2, <1>4, <2>2
    <3>2. /\ canon[nodes[members[d][k]].cls] = d /\ members[d][k] \in Index
          /\ members[d][k] = members[d][l] => k = l
      BY <1>1, <1>3, <3>1 DEF ListsOnce
    <3> QED BY <3>2
  <2> QED BY <2>1, <2>2 DEF ListsOnce
<1>6. Replaced'
  <2>1. ASSUME NEW i \in Index
        PROVE  \E j \in Alive \ gone : /\ nodes[j].op = nodes[i].op
                                       /\ Canonical(nodes[j].kids) = Canonical(nodes[i].kids)
                                       /\ canon[nodes[j].cls] = canon[nodes[i].cls]
    <3>1. PICK j \in Alive : /\ nodes[j].op = nodes[i].op
                             /\ Canonical(nodes[j].kids) = Canonical(nodes[i].kids)
                             /\ canon[nodes[j].cls] = canon[nodes[i].cls]
      BY <1>1 DEF Replaced
    <3>2. CASE j \in gone
      <4>1. PICK m \in Alive \ gone : /\ nodes[m].op = nodes[j].op
                                      /\ Canonical(nodes[m].kids) = Canonical(nodes[j].kids)
                                      /\ canon[nodes[m].cls] = canon[nodes[j].cls]
        BY <3>2
      <4> QED BY <3>1, <4>1
    <3> QED BY <3>1, <3>2
  <2>2. ASSUME NEW i \in Index'
        PROVE  \E j \in Alive' : /\ nodes'[j].op = nodes'[i].op
                                 /\ Canonical(nodes[j].kids)' = Canonical(nodes[i].kids)'
                                 /\ canon'[nodes'[j].cls] = canon'[nodes'[i].cls]
    <3>1. PICK j \in Alive \ gone : /\ nodes[j].op = nodes[i].op
                                    /\ Canonical(nodes[j].kids) = Canonical(nodes[i].kids)
                                    /\ canon[nodes[j].cls] = canon[nodes[i].cls]
      BY <2>1, <2>2
    <3> QED BY <1>2, <2>2, <3>1
  <2> QED BY <2>2 DEF Replaced
<1> QED BY <1>5, <1>6 DEF Whole

(* A place in one list behind another is a place in one of them.              *)
LEMMA SplitAt ==
    ASSUME NEW m \in Nat, NEW n \in Nat, NEW x \in 1 .. m + n
    PROVE  x \in 1 .. m \/ \E y \in 1 .. n : x = m + y
<1>1. x - m \in Int /\ x = m + (x - m) /\ (x \in 1 .. m \/ x - m \in 1 .. n)
  OBVIOUS
<1> QED BY <1>1

(* Two classes made one, with a node retired whose twin is in one of them, or *)
(* with none.                                                                 *)
LEMMA FoldedWhole ==
    ASSUME Data, Whole, ~oom, NEW gone, NEW from \in Ids, NEW to \in Ids, from # to,
           canon[from] = from, canon[to] = to, Folded(from, to), ~oom', Index' = Index,
           \A i \in Index : /\ nodes'[i].op = nodes[i].op /\ nodes'[i].kids = nodes[i].kids
                            /\ nodes'[i].cls = IF Lists(from, i) THEN to ELSE nodes[i].cls
                            /\ nodes'[i].live <=> nodes[i].live /\ i \notin gone,
           gone \subseteq {i \in Index : canon[nodes[i].cls] \in {from, to}},
           \A i \in gone : \E j \in Alive \ gone :
               /\ nodes[j].op = nodes[i].op /\ nodes[j].kids = nodes[i].kids
               /\ canon[nodes[j].cls] \in {from, to},
           FiledOnce'
    PROVE  Whole'
<1>1. ListsOnce /\ Replaced
  BY DEF Whole
<1>2. /\ Ids' = Ids /\ dirty' = TRUE
      /\ \A c \in Ids : canon'[c] = IF canon[c] = from THEN to ELSE canon[c]
      /\ \A c \in Ids : c # from /\ c # to => members'[c] = members[c]
      /\ Len(members'[from]) = 0
      /\ Len(members'[to]) = Size(to) + Size(from)
      /\ \A k \in 1 .. Size(to) : members'[to][k] = members[to][k]
      /\ \A k \in 1 .. Size(from) : members'[to][Size(to) + k] = members[from][k]
  BY FoldedIs, ZenonT(60)
<1>3. /\ \A c \in Ids : Size(c) \in Nat /\ \A k \in 1 .. Size(c) : members[c][k] \in Index
      /\ \A i \in Index : /\ nodes[i].op \in Ops /\ nodes[i].cls \in Ids
                          /\ canon[nodes[i].cls] \in Ids
                          /\ nodes[i].kids \in Kids(Ids, nodes[i].op)
  BY GraphFacts
<1>4. Alive' = Alive \ gone /\ Alive \subseteq Index
  BY DEF Alive
<1> DEFINE r(i) == canon[nodes[i].cls]
           s(i) == canon'[nodes'[i].cls]
<1>5. ASSUME NEW i \in Index
      PROVE  s(i) = IF r(i) = from THEN to ELSE r(i)
  <2>1. CASE Lists(from, i)
    <3>1. r(i) = from
      BY <1>1, <2>1 DEF Lists, ListsOnce
    <3>2. nodes'[i].cls = to
      BY <2>1
    <3> QED BY <1>2, <3>1, <3>2
  <2>2. CASE ~Lists(from, i)
    <3>1. nodes'[i].cls = nodes[i].cls
      BY <2>2
    <3> QED BY <1>2, <1>3, <3>1
  <2> QED BY <2>1, <2>2
<1>6. \A c \in Ids : \A k, l \in 1 .. Size(c) :
          /\ members[c][k] \in Index /\ r(members[c][k]) = c
          /\ members[c][k] = members[c][l] => k = l
  BY <1>1, <1>3 DEF ListsOnce
<1>7. \A i \in Alive : \E k \in 1 .. Size(r(i)) : members[r(i)][k] = i
  BY <1>1 DEF ListsOnce
<1> HIDE DEF r, s
<1>8. ListsOnce'
  <2>1. ASSUME NEW i \in Alive'
        PROVE  \E k \in 1 .. Len(members'[s(i)]) : members'[s(i)][k] = i
    <3>1. /\ i \in Alive /\ i \in Index /\ r(i) \in Ids /\ s(i) = IF r(i) = from THEN to ELSE r(i)
      BY <1>3, <1>4, <1>5 DEF r
    <3>2. PICK k \in 1 .. Size(r(i)) : members[r(i)][k] = i
      BY <1>7, <3>1
    <3>3. CASE r(i) = from
      <4>1. Size(to) + k \in 1 .. Len(members'[to]) /\ members'[to][Size(to) + k] = i
        BY <1>2, <1>3, <3>2, <3>3
      <4> QED BY <3>1, <3>3, <4>1
    <3>4. CASE r(i) = to
      <4>1. k \in 1 .. Len(members'[to]) /\ members'[to][k] = i
        BY <1>2, <1>3, <3>2, <3>4
      <4> QED BY <3>1, <3>4, <4>1
    <3>5. CASE r(i) # from /\ r(i) # to
      BY <1>2, <3>1, <3>2, <3>5 DEF Size
    <3> QED BY <3>3, <3>4, <3>5
  <2>2. ASSUME NEW d \in Ids, NEW k \in 1 .. Len(members'[d]), NEW l \in 1 .. Len(members'[d])
        PROVE  /\ s(members'[d][k]) = d
               /\ members'[d][k] = members'[d][l] => k = l
    <3>1. CASE d = from
      BY <1>2, <2>2, <3>1
    <3>2. CASE d = to
      <4>1. /\ Size(to) \in Nat /\ Size(from) \in Nat
            /\ k \in 1 .. Size(to) + Size(from) /\ l \in 1 .. Size(to) + Size(from)
        BY <1>2, <1>3, <2>2, <3>2
      <4>2. \A x \in 1 .. Size(to) + Size(from) :
               \/ x \in 1 .. Size(to) /\ members'[to][x] = members[to][x]
               \/ \E y \in 1 .. Size(from) : x = Size(to) + y /\ members'[to][x] = members[from][y]
        <5> SUFFICES ASSUME NEW x \in 1 .. Size(to) + Size(from)
                     PROVE  \/ x \in 1 .. Size(to) /\ members'[to][x] = members[to][x]
                            \/ \E y \in 1 .. Size(from) : x = Size(to) + y /\ members'[to][x] = members[from][y]
          OBVIOUS
        <5>1. x \in 1 .. Size(to) \/ \E y \in 1 .. Size(from) : x = Size(to) + y
          BY <4>1, SplitAt
        <5>2. CASE x \in 1 .. Size(to)
          BY <1>2, <5>2
        <5>3. ASSUME NEW y \in 1 .. Size(from), x = Size(to) + y
              PROVE  members'[to][x] = members[from][y]
          BY <1>2, <5>3
        <5> QED BY <5>1, <5>2, <5>3
      <4>3. ASSUME NEW x \in 1 .. Size(to) + Size(from)
            PROVE  /\ s(members'[to][x]) = to
                   /\ \/ /\ x \in 1 .. Size(to) /\ members'[to][x] = members[to][x]
                         /\ r(members'[to][x]) = to
                      \/ /\ r(members'[to][x]) = from
                         /\ \E y \in 1 .. Size(from) : x = Size(to) + y /\ members'[to][x] = members[from][y]
        <5>1. CASE x \in 1 .. Size(to) /\ members'[to][x] = members[to][x]
          <6>1. members[to][x] \in Index /\ r(members[to][x]) = to
            BY <1>6, <5>1
          <6> QED BY <1>5, <5>1, <6>1
        <5>2. CASE \E y \in 1 .. Size(from) : x = Size(to) + y /\ members'[to][x] = members[from][y]
          <6>1. PICK y \in 1 .. Size(from) : x = Size(to) + y /\ members'[to][x] = members[from][y]
            BY <5>2
          <6>2. members[from][y] \in Index /\ r(members[from][y]) = from
            BY <1>6
          <6> QED BY <1>5, <5>2, <6>1, <6>2
        <5> QED BY <4>2, <5>1, <5>2
      <4>4. ASSUME members'[to][k] = members'[to][l] PROVE k = l
        <5>1. CASE r(members'[to][k]) = to
          <6>1. /\ k \in 1 .. Size(to) /\ members'[to][k] = members[to][k]
                /\ l \in 1 .. Size(to) /\ members'[to][l] = members[to][l]
            BY <4>1, <4>3, <4>4, <5>1
          <6>2. members[to][k] = members[to][l]
            BY <4>4, <6>1
          <6> QED BY <1>6, <6>1, <6>2
        <5>2. CASE r(members'[to][k]) = from
          <6>t. to # from /\ r(members'[to][l]) = from
            BY <4>4, <5>2
          <6>1. /\ \E y \in 1 .. Size(from) : k = Size(to) + y /\ members'[to][k] = members[from][y]
                /\ \E z \in 1 .. Size(from) : l = Size(to) + z /\ members'[to][l] = members[from][z]
            <7>1. \A x \in 1 .. Size(to) + Size(from) : r(members'[to][x]) = from =>
                     \E y \in 1 .. Size(from) : x = Size(to) + y /\ members'[to][x] = members[from][y]
              BY <4>3, <6>t
            <7> QED BY <4>1, <5>2, <6>t, <7>1
          <6>2. PICK y \in 1 .. Size(from) : k = Size(to) + y /\ members'[to][k] = members[from][y]
            BY <6>1
          <6>3. PICK z \in 1 .. Size(from) : l = Size(to) + z /\ members'[to][l] = members[from][z]
            BY <6>1
          <6>4. members[from][y] = members[from][z]
            BY <4>4, <6>2, <6>3
          <6>5. y = z
            BY <1>6, <6>4
          <6> QED BY <6>2, <6>3, <6>5
        <5> QED BY <4>1, <4>3, <5>1, <5>2
      <4> QED BY <3>2, <4>1, <4>3, <4>4
    <3>3. CASE d # from /\ d # to
      <4>1. members'[d] = members[d] /\ k \in 1 .. Size(d) /\ l \in 1 .. Size(d)
        BY <1>2, <2>2, <3>3 DEF Size
      <4>2. members[d][k] \in Index /\ r(members[d][k]) = d /\ (members[d][k] = members[d][l] => k = l)
        BY <1>6, <4>1
      <4> QED BY <1>5, <3>3, <4>1, <4>2
    <3> QED BY <3>1, <3>2, <3>3
  <2> QED BY <1>2, <2>1, <2>2 DEF ListsOnce, Size, s
<1>9. Canonised'
  BY <1>2 DEF Canonised
<1>10. Coarser
  BY FoldedCoarser
<1>11. Replaced'
  <2>1. ASSUME NEW i \in Index
        PROVE  \E j \in Alive \ gone : /\ nodes[j].op = nodes[i].op
                                       /\ Canonical(nodes[j].kids) = Canonical(nodes[i].kids)
                                       /\ s(j) = s(i)
    <3>1. PICK j \in Alive : /\ nodes[j].op = nodes[i].op
                             /\ Canonical(nodes[j].kids) = Canonical(nodes[i].kids)
                             /\ r(j) = r(i)
      BY <1>1 DEF Replaced, r
    <3>2. s(j) = s(i)
      BY <1>4, <1>5, <3>1
    <3>3. CASE j \in gone
      <4>1. PICK m \in Alive \ gone : /\ nodes[m].op = nodes[j].op
                                      /\ nodes[m].kids = nodes[j].kids
                                      /\ r(m) \in {from, to}
        BY <3>3 DEF r
      <4>2. r(j) \in {from, to}
        BY <3>3 DEF r
      <4>3. s(m) = s(j)
        BY <1>4, <1>5, <4>1, <4>2
      <4> QED BY <3>1, <3>2, <4>1, <4>3
    <3> QED BY <3>1, <3>2, <3>3
  <2>2. ASSUME NEW i \in Index
        PROVE  \E j \in Alive' : /\ nodes'[j].op = nodes'[i].op
                                 /\ Canonical(nodes[j].kids)' = Canonical(nodes[i].kids)'
                                 /\ s(j) = s(i)
    <3>1. PICK j \in Alive \ gone : /\ nodes[j].op = nodes[i].op
                                    /\ Canonical(nodes[j].kids) = Canonical(nodes[i].kids)
                                    /\ s(j) = s(i)
      BY <2>1
    <3> DEFINE ks == nodes[i].kids
               ls == nodes[j].kids
               op == nodes[i].op
    <3>2. j \in Index /\ op \in Ops /\ ks \in Kids(Ids, op) /\ ls \in Kids(Ids, op)
      BY <1>3, <1>4, <3>1
    <3>4. [k \in DOMAIN ks |-> canon'[ks[k]]] = [k \in DOMAIN ls |-> canon'[ls[k]]]
      BY <1>10, <3>1, <3>2, KidsStayEqual
    <3>5. nodes'[i].kids = ks /\ nodes'[j].kids = ls /\ nodes'[j].op = nodes'[i].op
      BY <3>1, <3>2
    <3> HIDE DEF ks, ls, op
    <3>6. Canonical(nodes[j].kids)' = Canonical(nodes[i].kids)'
      BY <3>4, <3>5 DEF Canonical
    <3> QED BY <1>4, <3>1, <3>5, <3>6
  <2> QED BY <2>2 DEF Replaced, s
<1> QED BY <1>8, <1>9, <1>11 DEF Whole

-----------------------------------------------------------------------------
(* Keys that stay as they are stay filed, while a pass comes to the next.     *)
LEMMA FiledKept ==
    ASSUME Data, FiledOnce, NEW gone, Index' = Index, filed' = filed,
           \A i \in Index : /\ nodes'[i].op = nodes[i].op /\ nodes'[i].kids = nodes[i].kids
                            /\ nodes'[i].live <=> nodes[i].live /\ i \notin gone,
           \/ pc # "sweep" /\ pc' # "sweep"
           \/ /\ pc = "sweep" /\ pc' = "sweep" /\ at \in Nat /\ at' = at + 1
              /\ at \in gone \/ ~nodes[at].live
    PROVE  FiledOnce'
<1>1. Alive' \subseteq Alive /\ (\A i \in Alive' : i \notin gone) /\ Alive \subseteq Index
  BY DEF Alive
<1>2. filed \subseteq Index /\ Index \subseteq Nat
  BY GraphFacts DEF Index
<1>3. \A i, j \in filed' \cap Alive' :
          nodes'[i].op = nodes'[j].op /\ nodes'[i].kids = nodes'[j].kids => i = j
  <2> SUFFICES ASSUME NEW i \in filed' \cap Alive', NEW j \in filed' \cap Alive',
                      nodes'[i].op = nodes'[j].op, nodes'[i].kids = nodes'[j].kids
               PROVE  i = j
    OBVIOUS
  <2>1. /\ i \in filed \cap Alive /\ j \in filed \cap Alive
        /\ nodes[i].op = nodes[j].op /\ nodes[i].kids = nodes[j].kids
    BY <1>1, <1>2
  <2> QED BY <2>1 DEF FiledOnce
<1>4. CASE pc # "sweep" /\ pc' # "sweep"
  BY <1>1, <1>3, <1>4 DEF FiledOnce
<1>5. CASE /\ pc = "sweep" /\ pc' = "sweep" /\ at \in Nat /\ at' = at + 1
           /\ at \in gone \/ ~nodes[at].live
  <2>1. \A i \in Alive' : i \in filed' \/ (pc' = "sweep" /\ i >= at')
    <3> SUFFICES ASSUME NEW i \in Alive', i \notin filed PROVE i >= at + 1
      BY <1>5
    <3>1. i \in Alive /\ i \in Nat /\ i # at
      BY <1>1, <1>2, <1>5 DEF Alive
    <3>2. i >= at
      BY <3>1 DEF FiledOnce
    <3> QED BY <1>5, <3>1, <3>2
  <2>2. \A i \in filed' : i < at'
    BY <1>2, <1>5 DEF FiledOnce
  <2> QED BY <1>3, <2>1, <2>2 DEF FiledOnce
<1> QED BY <1>4, <1>5

(* Steps that touch nothing but facts and the place a call has come to.       *)
LEMMA IdleWhole ==
    ASSUME Data, Whole, ~oom, UNCHANGED <<nodes, canon, members, filed, dirty>>,
           \/ pc # "sweep" /\ pc' # "sweep"
           \/ pc = "sweep" /\ pc' # "sweep" /\ at \in Nat /\ at > Len(nodes)
           \/ pc = "sweep" /\ pc' = "sweep" /\ at \in Nat /\ at' = at + 1 /\ ~nodes[at].live
           \/ pc' = pc /\ at' = at
    PROVE  Whole'
<1>1. Index' = Index /\ Alive' = Alive /\ Alive \subseteq Index /\ Index \subseteq Nat
  BY DEF Index, Alive
<1>2. ListsOnce /\ FiledOnce /\ Canonised /\ Replaced
  BY DEF Whole
<1>3. FiledOnce'
  <2>1. CASE \/ pc # "sweep" /\ pc' # "sweep"
             \/ pc = "sweep" /\ pc' = "sweep" /\ at \in Nat /\ at' = at + 1 /\ ~nodes[at].live
    <3> DEFINE gone == {}
    <3>1. \A i \in Index : /\ nodes'[i].op = nodes[i].op /\ nodes'[i].kids = nodes[i].kids
                           /\ nodes'[i].live <=> nodes[i].live /\ i \notin gone
      OBVIOUS
    <3> HIDE DEF gone
    <3> QED BY <1>1, <1>2, <2>1, <3>1, FiledKept
  <2>2. CASE pc = "sweep" /\ pc' # "sweep" /\ at \in Nat /\ at > Len(nodes)
    <3>1. \A i \in Alive : i \in filed
      <4> SUFFICES ASSUME NEW i \in Alive PROVE ~(i >= at)
        BY <1>2 DEF FiledOnce
      <4>1. Len(nodes) \in Nat /\ i \in 1 .. Len(nodes)
        BY <1>1, GraphFacts DEF Index
      <4> QED BY <2>2, <4>1
    <3>2. \A i, j \in filed \cap Alive :
              nodes[i].op = nodes[j].op /\ nodes[i].kids = nodes[j].kids => i = j
      BY <1>2 DEF FiledOnce
    <3> QED BY <1>1, <2>2, <3>1, <3>2 DEF FiledOnce
  <2>3. CASE pc' = pc /\ at' = at
    BY <1>1, <1>2, <2>3 DEF FiledOnce
  <2> QED BY <2>1, <2>2, <2>3
<1>4. Canonised'
  BY <1>1, <1>2 DEF Canonised, Canonical
<1>5. nodes' = nodes /\ canon' = canon /\ members' = members
  OBVIOUS
<1>6. ListsOnce'
  BY <1>1, <1>2, <1>5 DEF ListsOnce, Size, Ids
<1>7. Replaced'
  BY <1>1, <1>2, <1>5 DEF Replaced, Canonical
<1> QED BY <1>3, <1>4, <1>6, <1>7 DEF Whole

(* A pass files a node whose key is not filed.                                *)
LEMMA FileWhole ==
    ASSUME Data, Whole, ~oom, at \in Nat, SweepFile, ~oom'
    PROVE  Whole'
<1>1. /\ pc = "sweep" /\ pc' = "sweep" /\ at' = at + 1
      /\ UNCHANGED <<nodes, canon, members, dirty>> /\ filed' = filed \cup {at}
      /\ Hits(nodes[at].op, nodes[at].kids) = {}
  BY DEF SweepFile, Sweeping, Next1, Twins, Refused
<1>2. Index' = Index /\ Alive' = Alive /\ Alive \subseteq Index /\ Index \subseteq Nat /\ filed \subseteq Index
  BY <1>1, GraphFacts DEF Index, Alive
<1>3. ListsOnce /\ FiledOnce /\ Canonised /\ Replaced
  BY DEF Whole
<1>4. ASSUME NEW i \in filed' \cap Alive', NEW j \in filed' \cap Alive',
             nodes[i].op = nodes[j].op, nodes[i].kids = nodes[j].kids
      PROVE  i = j
  <2>1. \A x \in filed \cap Alive : ~(nodes[x].op = nodes[at].op /\ nodes[x].kids = nodes[at].kids)
    BY <1>1 DEF Hits, Alive
  <2>2. (i = at \/ i \in filed \cap Alive) /\ (j = at \/ j \in filed \cap Alive)
    BY <1>1, <1>2
  <2>3. CASE i \in filed \cap Alive /\ j \in filed \cap Alive
    BY <1>3, <1>4, <2>3 DEF FiledOnce
  <2>4. CASE i = at \/ j = at
    BY <1>4, <2>1, <2>2, <2>4
  <2> QED BY <2>2, <2>3, <2>4
<1>5. \A i \in Alive' : i \in filed' \/ (pc' = "sweep" /\ i >= at')
  <2> SUFFICES ASSUME NEW i \in Alive, i \notin filed, i # at PROVE i >= at + 1
    BY <1>1, <1>2
  <2>1. i \in Nat /\ i >= at
    BY <1>2, <1>3 DEF FiledOnce
  <2> QED BY <2>1
<1>6. \A i \in filed' : i < at'
  <2>1. \A i \in filed : i \in Nat /\ i < at
    BY <1>1, <1>2, <1>3 DEF FiledOnce
  <2> QED BY <1>1, <2>1
<1>7. FiledOnce'
  <2>1. nodes' = nodes
    BY <1>1
  <2> QED BY <1>4, <1>5, <1>6, <2>1 DEF FiledOnce
<1>8. Canonised'
  BY <1>1, <1>2, <1>3 DEF Canonised, Canonical
<1>9. ListsOnce' /\ Replaced'
  BY <1>1, <1>2, <1>3 DEF ListsOnce, Replaced, Canonical, Size, Ids
<1> QED BY <1>7, <1>8, <1>9 DEF Whole

(* A node as a pass leaves it.                                                *)
LEMMA RecanonicalisedIs ==
    ASSUME Data, NEW n \in Node
    PROVE  LET m == Recanonicalised(n)
           IN  /\ m.op = n.op /\ m.live = n.live
               /\ m.kids = IF n.live THEN Canonical(n.kids) ELSE n.kids
               /\ m.cls = IF n.live THEN canon[n.cls] ELSE n.cls
<1> DEFINE ks == Canonical(n.kids)
           r == canon[n.cls]
<1>1. Recanonicalised(n) = IF n.live THEN [n EXCEPT !.kids = ks, !.cls = r] ELSE n
  BY DEF Recanonicalised
<1> HIDE DEF ks, r
<1>2. LET m == [n EXCEPT !.kids = ks, !.cls = r]
      IN  m.op = n.op /\ m.live = n.live /\ m.kids = ks /\ m.cls = r
  BY DEF Node
<1> QED BY <1>1, <1>2 DEF ks, r

(* A pass begins: nothing is filed, and every live node has canonical kids.   *)
LEMMA RepairedWhole ==
    ASSUME Data, Whole, ~oom, BeginPass, ~oom' PROVE Whole'
<1> DEFINE gone == {}
<1>1. /\ nodes' = Repaired /\ canon' = canon /\ members' = members /\ filed' = {}
      /\ pc' = "sweep" /\ at' = 1
  BY DEF BeginPass, Refused
<1>2. nodes \in Seq(Node) /\ Len(nodes) \in Nat /\ Index \subseteq Nat
  BY GraphFacts DEF Index
<1>3. Index' = Index
  <2>1. nodes' = [i \in 1 .. Len(nodes) |-> Recanonicalised(nodes[i])]
    BY <1>1 DEF Repaired, Index
  <2>2. Len(nodes') = Len(nodes)
    BY <1>2, <2>1
  <2> QED BY <2>2 DEF Index
<1>4. ASSUME NEW i \in Index
      PROVE  /\ nodes'[i].op = nodes[i].op /\ nodes'[i].live = nodes[i].live
             /\ Canonical(nodes[i].kids)' = Canonical(nodes[i].kids)
             /\ canon'[nodes'[i].cls] = canon[nodes[i].cls]
             /\ nodes[i].live => nodes'[i].kids = Canonical(nodes[i].kids)
  <2> DEFINE n == nodes[i]
             ks == Canonical(n.kids)
             r == canon[n.cls]
  <2>1. n \in Node
    BY <1>2 DEF Index
  <2>2. nodes'[i] = Recanonicalised(n)
    BY <1>1 DEF Repaired
  <2>3. /\ nodes'[i].op = n.op /\ nodes'[i].live = n.live
        /\ nodes'[i].kids = IF n.live THEN ks ELSE n.kids
        /\ nodes'[i].cls = IF n.live THEN r ELSE n.cls
    BY <2>1, <2>2, RecanonicalisedIs
  <2>4. Canonical(ks) = ks /\ canon[r] = r
    BY GraphFacts, KidsFacts
  <2>5. Canonical(nodes[i].kids)' = Canonical(nodes'[i].kids)
    BY <1>1 DEF Canonical
  <2> HIDE DEF ks, r
  <2>6. Canonical(nodes'[i].kids) = ks /\ canon[nodes'[i].cls] = r
    BY <2>3, <2>4 DEF ks, r
  <2> QED BY <1>1, <2>3, <2>5, <2>6 DEF ks, r
<1>5. FiledOnce'
  BY <1>1, <1>2, <1>3 DEF FiledOnce, Alive, Index
<1>6. Canonised'
  <2>1. ASSUME NEW i \in Alive' PROVE Canonical(nodes[i].kids)' = nodes'[i].kids
    BY <1>3, <1>4 DEF Alive
  <2> QED BY <2>1 DEF Canonised
<1>7. \A i \in gone : FALSE
  OBVIOUS
<1> HIDE DEF gone
<1> QED BY <1>1, <1>3, <1>4, <1>5, <1>6, <1>7, SteadyWhole

(* Two roots merged outside a pass over the hashcons.                         *)
LEMMA MergedWhole ==
    ASSUME Data, Whole, ~oom, NEW a \in Ids, NEW b \in Ids, a # b,
           canon[a] = a, canon[b] = b, Merged(a, b), ~oom', filed' = filed,
           pc # "sweep", pc' # "sweep"
    PROVE  Whole'
<1> DEFINE to == IF Size(a) < Size(b) THEN b ELSE a
           from == IF to = a THEN b ELSE a
           gone == {}
<1>1. Folded(from, to) /\ nodes' = InTo(from, to)
  BY DEF Merged
<1>2. from \in Ids /\ to \in Ids /\ from # to /\ canon[from] = from /\ canon[to] = to
  OBVIOUS
<1>3. /\ \A i \in gone : FALSE
      /\ \A i \in Index : i \notin gone
      /\ gone \subseteq {i \in Index : canon[nodes[i].cls] \in {from, to}}
  OBVIOUS
<1> HIDE DEF from, to, gone
<1>4. /\ Len(nodes') = Len(nodes)
      /\ \A i \in Index : /\ nodes'[i].op = nodes[i].op /\ nodes'[i].kids = nodes[i].kids
                          /\ nodes'[i].cls = IF Lists(from, i) THEN to ELSE nodes[i].cls
                          /\ nodes'[i].live = nodes[i].live
  BY <1>1, <1>2, InToIs
<1>5. Index' = Index
  BY <1>4 DEF Index
<1>6. \A i \in Index : nodes'[i].live <=> nodes[i].live /\ i \notin gone
  BY <1>3, <1>4
<1>7. FiledOnce
  BY DEF Whole
<1>8. FiledOnce'
  BY <1>4, <1>5, <1>6, <1>7, FiledKept
<1> QED BY <1>1, <1>2, <1>3, <1>4, <1>5, <1>6, <1>8, FoldedWhole

(* modify() of a class, outside a pass over the hashcons.                     *)
LEMMA ModifyWhole ==
    ASSUME Data, Whole, NEW c \in Ids, ModifyNothing(c) \/ ModifyIntern(c) \/ ModifyMerge(c),
           ~oom', pc # "sweep", pc' # "sweep"
    PROVE  Whole'
<1>1. CASE ModifyNothing(c)
  <2>1. ~oom /\ UNCHANGED <<nodes, canon, members, filed, dirty>>
    BY <1>1 DEF ModifyNothing
  <2> QED BY <2>1, IdleWhole
<1>2. CASE ModifyIntern(c)
  <2> DEFINE op == Const(c)
             ks == <<>>
             v == Denotes(means, op, ks)
  <2>1. ~oom /\ Wanting(c) /\ Hits(op, ks) = {} /\ Created(op, ks, v)
    BY <1>2 DEF ModifyIntern, Wanting, Held, NotCreated, Refused
  <2>2. op \in Ops /\ ks \in Kids(Ids, op)
    BY <2>1, ConstIs
  <2>3. Canonical(ks) = ks
    BY DEF Canonical
  <2> HIDE DEF op, ks, v
  <2> QED BY <2>1, <2>2, <2>3, CreatedWhole
<1>3. CASE ModifyMerge(c)
  <2> DEFINE d == ConstClass(c)
  <2>1. ~oom /\ canon[c] = c /\ d # c /\ Hits(Const(c), <<>>) # {} /\ filed' = filed
    BY <1>3 DEF ModifyMerge, Wanting, Held
  <2>2. Const(c) \in Ops /\ <<>> \in Kids(Ids, Const(c))
    BY <1>3, ConstIs DEF ModifyMerge
  <2>3. d \in Ids /\ canon[d] = d
    BY <2>1, <2>2, HitIs DEF ConstClass
  <2>4. Merged(c, d)
    BY <1>3 DEF ModifyMerge, NotMerged, Refused
  <2> HIDE DEF d
  <2> QED BY <2>1, <2>3, <2>4, MergedWhole
<1> QED BY <1>1, <1>2, <1>3

(* A pass comes to a node whose key is filed: its twin stays, in its class.   *)
LEMMA TwinWhole ==
    ASSUME Data, Whole, ~oom, at \in Nat \ {0}, SweepTwin, ~oom' PROVE Whole'
<1> DEFINE mine == canon[nodes[at].cls]
           twin == Twin
           from == IF Size(Twin) < Size(mine) THEN Twin ELSE mine
           to == IF from = mine THEN Twin ELSE mine
           gone == {at}
           j == CHOOSE i \in Twins : TRUE
<1>1. /\ at \in Index /\ Twins # {} /\ filed' = filed
      /\ pc = "sweep" /\ pc' = "sweep" /\ at' = at + 1
      /\ nodes \in Seq(Node) /\ Len(nodes) \in Nat /\ filed \subseteq Index /\ Index \subseteq Nat
  BY GraphFacts DEF SweepTwin, Sweeping, Next1, Index
<1>2. FiledOnce /\ Canonised
  BY DEF Whole
<1>3. j \in filed /\ nodes[j].live /\ nodes[j].op = nodes[at].op /\ nodes[j].kids = nodes[at].kids
  <2>1. j \in Twins
    BY <1>1
  <2> HIDE DEF j
  <2> QED BY <2>1 DEF Twins, Hits
<1> HIDE DEF j
<1>4. j \in Index /\ j # at /\ j \in Alive \ gone
  BY <1>1, <1>2, <1>3 DEF FiledOnce, Alive
<1>5. /\ mine \in Ids /\ canon[mine] = mine
      /\ twin \in Ids /\ canon[twin] = twin /\ twin = canon[nodes[j].cls]
  <2>1. twin = canon[nodes[j].cls]
    BY DEF Twin, j
  <2> QED BY <1>1, <1>4, <2>1, GraphFacts
<1>6. \/ mine = twin /\ nodes' = Retire(nodes) /\ UNCHANGED <<canon, members, dirty>>
      \/ mine # twin /\ Folded(from, to) /\ nodes' = Retire(InTo(from, to))
  BY DEF SweepTwin, Refused
<1>7. gone = {at}
  OBVIOUS
<1> HIDE DEF gone
<1>8. CASE mine = twin /\ nodes' = Retire(nodes) /\ UNCHANGED <<canon, members, dirty>>
  <2>1. nodes' = [nodes EXCEPT ![at].live = FALSE] /\ at \in 1 .. Len(nodes)
    BY <1>1, <1>8 DEF Retire, Index
  <2>2. /\ Len(nodes') = Len(nodes)
        /\ \A i \in Index : /\ nodes'[i].op = nodes[i].op /\ nodes'[i].kids = nodes[i].kids
                            /\ nodes'[i].cls = nodes[i].cls
                            /\ nodes'[i].live <=> nodes[i].live /\ i # at
    BY <1>1, <2>1, RetireIs DEF Index
  <2>3. Index' = Index /\ \A i \in Index : nodes'[i].live <=> nodes[i].live /\ i \notin gone
    BY <1>7, <2>2 DEF Index
  <2>4. FiledOnce'
    BY <1>1, <1>2, <1>7, <2>2, <2>3, FiledKept
  <2>5. \A i \in Index : /\ Canonical(nodes[i].kids)' = Canonical(nodes[i].kids)
                         /\ canon'[nodes'[i].cls] = canon[nodes[i].cls]
    BY <1>8, <2>2 DEF Canonical
  <2>6. Canonised'
    <3>1. Alive' \subseteq Alive /\ Alive \subseteq Index
      BY <2>3 DEF Alive
    <3> QED BY <1>2, <1>8, <2>2, <2>5, <3>1 DEF Canonised
  <2>7. \A i \in gone : \E m \in Alive \ gone :
            /\ nodes[m].op = nodes[i].op
            /\ Canonical(nodes[m].kids) = Canonical(nodes[i].kids)
            /\ canon[nodes[m].cls] = canon[nodes[i].cls]
    BY <1>3, <1>4, <1>5, <1>7, <1>8
  <2>8. canon' = canon /\ members' = members
    BY <1>8
  <2> HIDE DEF mine, twin, from, to
  <2> QED BY <2>2, <2>3, <2>4, <2>5, <2>6, <2>7, <2>8, SteadyWhole
<1>9. CASE mine # twin /\ Folded(from, to) /\ nodes' = Retire(InTo(from, to))
  <2>1. /\ from \in Ids /\ to \in Ids /\ from # to /\ canon[from] = from /\ canon[to] = to
        /\ {from, to} = {mine, twin}
    BY <1>5, <1>9, ZenonT(60)
  <2>2. Folded(from, to)
    BY <1>9
  <2> HIDE DEF from, to
  <2> DEFINE h == InTo(from, to)
  <2>3. /\ h \in Seq(Node) /\ Len(h) = Len(nodes)
        /\ \A i \in Index : /\ h[i].op = nodes[i].op /\ h[i].kids = nodes[i].kids
                            /\ h[i].cls = IF Lists(from, i) THEN to ELSE nodes[i].cls
                            /\ h[i].live = nodes[i].live
    BY <2>1, InToIs
  <2>4. nodes' = [h EXCEPT ![at].live = FALSE] /\ at \in 1 .. Len(h)
    BY <1>1, <1>9, <2>3 DEF Retire, Index
  <2> HIDE DEF h
  <2>5. /\ Len(nodes') = Len(h)
        /\ \A i \in 1 .. Len(h) : /\ nodes'[i].op = h[i].op /\ nodes'[i].kids = h[i].kids
                                  /\ nodes'[i].cls = h[i].cls
                                  /\ nodes'[i].live <=> h[i].live /\ i # at
    BY <2>3, <2>4, RetireIs
  <2>6. /\ Index' = Index
        /\ \A i \in Index : /\ nodes'[i].op = nodes[i].op /\ nodes'[i].kids = nodes[i].kids
                            /\ nodes'[i].cls = IF Lists(from, i) THEN to ELSE nodes[i].cls
                            /\ nodes'[i].live <=> nodes[i].live /\ i \notin gone
    BY <1>7, <2>3, <2>5 DEF Index
  <2>7. FiledOnce'
    BY <1>1, <1>2, <1>7, <2>6, FiledKept
  <2>8. gone \subseteq {i \in Index : canon[nodes[i].cls] \in {from, to}}
    BY <1>1, <1>7, <2>1
  <2>9. \A i \in gone : \E m \in Alive \ gone :
            /\ nodes[m].op = nodes[i].op /\ nodes[m].kids = nodes[i].kids
            /\ canon[nodes[m].cls] \in {from, to}
    BY <1>3, <1>4, <1>5, <1>7, <2>1
  <2> HIDE DEF mine, twin
  <2> QED BY <2>1, <2>2, <2>6, <2>7, <2>8, <2>9, FoldedWhole, SMTT(60)
<1> QED BY <1>6, <1>8, <1>9

(* Every step that nothing refuses leaves the graph whole.                    *)
LEMMA StepWhole == WInv /\ [Next]_vars => Whole'
<1> SUFFICES ASSUME IInv, Whole, [Next]_vars, ~oom' PROVE Whole'
  BY DEF WInv, Whole
<1>0. Data /\ at \in Nat \ {0} /\ (pc = "added" => at \in Ids)
  BY DEF IInv, Control
<1>1. ASSUME NEW op \in Ops, NEW ks \in Kids(Ids, op), Add(op, ks) PROVE Whole'
  <2> DEFINE cs == Canonical(ks)
             v == Denotes(means, op, ks)
  <2>1. cs \in Kids(Ids, op) /\ Canonical(cs) = cs
    BY <1>0, KidsFacts
  <2>2. ~oom /\ Hits(op, cs) = {} /\ Created(op, cs, v) /\ pc # "sweep" /\ pc' # "sweep"
    BY <1>1 DEF Add, NotCreated, Refused
  <2> HIDE DEF cs, v
  <2> QED BY <1>0, <2>1, <2>2, CreatedWhole
<1>2. ASSUME NEW a \in Ids, NEW b \in Ids, Merge(a, b) PROVE Whole'
  <2> DEFINE p == canon[a]
             q == canon[b]
  <2>1. /\ ~oom /\ p # q /\ Merged(p, q) /\ filed' = filed /\ pc # "sweep" /\ pc' # "sweep"
    BY <1>2 DEF Merge, NotMerged, Refused, control
  <2>2. p \in Ids /\ q \in Ids /\ canon[p] = p /\ canon[q] = q
    BY <1>0, GraphFacts
  <2> HIDE DEF p, q
  <2> QED BY <1>0, <2>1, <2>2, MergedWhole
<1>3. CASE ModifyAdded
  <2>1. /\ at \in Ids /\ (ModifyNothing(at) \/ ModifyIntern(at) \/ ModifyMerge(at))
        /\ pc # "sweep" /\ pc' # "sweep"
    BY <1>0, <1>3 DEF ModifyAdded
  <2> QED BY <1>0, <2>1, ModifyWhole
<1>4. CASE BeginPass
  <2>1. CASE oom
    BY <1>4, <2>1 DEF BeginPass, Refused
  <2>2. CASE ~oom
    BY <1>0, <1>4, <2>2, RepairedWhole
  <2> QED BY <2>1, <2>2
<1>5. CASE SweepDead \/ BeginFacts \/ JoinFact \/ EndRound \/ EndPass \/ UNCHANGED vars
  <2>1. ~oom /\ UNCHANGED <<nodes, canon, members, filed, dirty>>
    BY <1>5 DEF SweepDead, BeginFacts, JoinFact, EndRound, EndPass, vars, Refused
  <2>2. \/ pc # "sweep" /\ pc' # "sweep"
        \/ pc = "sweep" /\ pc' # "sweep" /\ at \in Nat /\ at > Len(nodes)
        \/ pc = "sweep" /\ pc' = "sweep" /\ at \in Nat /\ at' = at + 1 /\ ~nodes[at].live
        \/ pc' = pc /\ at' = at
    BY <1>0, <1>5 DEF SweepDead, Sweeping, Next1, BeginFacts, JoinFact, EndRound, EndPass, vars
  <2> QED BY <1>0, <2>1, <2>2, IdleWhole
<1>6. CASE SweepFile
  <2>1. ~oom
    BY <1>6 DEF SweepFile, Refused
  <2> QED BY <1>0, <1>6, <2>1, FileWhole
<1>7. CASE SweepTwin
  <2>1. ~oom
    BY <1>7 DEF SweepTwin, Refused
  <2> QED BY <1>0, <1>7, <2>1, TwinWhole
<1>8. CASE ModifyClass
  <2>1. /\ at \in Ids /\ (ModifyNothing(at) \/ ModifyIntern(at) \/ ModifyMerge(at))
        /\ pc # "sweep" /\ pc' # "sweep"
    BY <1>0, <1>8 DEF ModifyClass, Next1, control, Ids, Data, Stored
  <2> QED BY <1>0, <2>1, ModifyWhole
<1> QED BY <1>1, <1>2, <1>3, <1>4, <1>5, <1>6, <1>7, <1>8 DEF Next, Rebuild

(* An empty graph is whole.                                                   *)
LEMMA InitWhole == Init => Whole
<1> SUFFICES ASSUME Init PROVE Whole
  OBVIOUS
<1>1. Len(canon) = 0 /\ Len(nodes) = 0 /\ filed = {}
  BY DEF Init
<1>2. Ids = {} /\ Index = {} /\ Alive = {}
  BY <1>1 DEF Ids, Index, Alive
<1> QED BY <1>1, <1>2 DEF Whole, ListsOnce, FiledOnce, Canonised, Replaced

(* Between calls a whole graph is a congruent one.                            *)
LEMMA WholeIsCongruent == WInv => Congruent /\ Kept
<1> SUFFICES ASSUME Data, Whole, Clean PROVE Congruent /\ Kept
  BY DEF WInv, IInv, Congruent, Kept
<1>1. ListsOnce /\ FiledOnce /\ Canonised /\ Replaced /\ pc = "idle" /\ ~dirty
  BY DEF Whole, Clean
<1>2. ASSUME NEW i \in Alive PROVE Hits(nodes[i].op, nodes[i].kids) = {i}
  <2>1. \A j \in Alive : j \in filed
    BY <1>1 DEF FiledOnce
  <2>2. nodes[i].live /\ filed \subseteq Index
    BY GraphFacts DEF Alive
  <2>3. \A j \in filed : nodes[j].live => j \in filed \cap Alive
    BY <2>2 DEF Alive
  <2> QED BY <1>1, <2>1, <2>2, <2>3 DEF FiledOnce, Hits
<1>3. Congruent
  BY <1>1, <1>2 DEF Congruent, ListsOnce, Canonised
<1> QED BY <1>1, <1>3 DEF Kept

-----------------------------------------------------------------------------
(* For every consumer that keeps its contract, every graph it builds and      *)
(* every allocation refused, no class holds terms that mean different things  *)
(* and no fact is stated of a class that does not have it: eg_add, eg_merge,  *)
(* eg_rebuild, analysis_restore.                                              *)
THEOREM EGraphIsSound == Spec => []IInv
<1>1. IInv /\ [Next]_vars => IInv'
  BY StepData, StepControl DEF IInv
<1> QED BY InitInv, <1>1, PTL DEF Spec

(* eg_find never tells two ids apart that it once gave one root.              *)
THEOREM ClassesOnlyMerge == Spec => Grows
<1>1. IInv /\ [Next]_vars => [/\ Len(canon') >= Len(canon)
            /\ \A a, b \in Ids : canon[a] = canon[b] => canon'[a] = canon'[b]]_vars
  BY StepCoarser DEF Coarser
<1> QED BY EGraphIsSound, <1>1, PTL DEF Spec, Grows

(* While nothing is refused the graph stays whole, at every step of every     *)
(* call: eg_add, eg_merge, each node of a pass of eg_rebuild, modify().       *)
THEOREM GraphStaysWhole == Spec => []WInv
<1>1. Init => WInv
  BY InitInv, InitWhole DEF WInv
<1>2. WInv /\ [Next]_vars => WInv'
  BY StepData, StepControl, StepWhole DEF WInv, IInv
<1> QED BY <1>1, <1>2, PTL DEF Spec

(* A rebuild that is not refused leaves a congruent graph, with each live     *)
(* node filed and listed once: eg_rebuild's promise.                          *)
THEOREM RebuildRestoresCongruence == Spec => []Congruent
BY GraphStaysWhole, WholeIsCongruent, PTL

(* Retiring twins loses no term: each node ever interned has a live one like  *)
(* it in its class.                                                           *)
THEOREM NoTermIsLost == Spec => []Kept
BY GraphStaysWhole, WholeIsCongruent, PTL
-----------------------------------------------------------------------------
(* Extraction from a whole graph: eg_extract_prepare and eg_extract_from.     *)

(* What Sum counts.                                                           *)
Units(f) == UNION {{k} \X (1 .. f[k]) : k \in DOMAIN f}

(* Sum counts units, and a unit is one of a column.                           *)
LEMMA SumUnits == ASSUME NEW f PROVE Sum(f) = Cardinality(Units(f))
BY DEF Sum, Units

(* The numbers up to n are n.                                                 *)
LEMMA UpTo ==
    ASSUME NEW n \in Nat
    PROVE  IsFiniteSet(1 .. n) /\ Cardinality(1 .. n) = n
<1>1. IsFiniteSet(1 .. n) /\ Cardinality(1 .. n) = IF 1 > n THEN 0 ELSE n - 1 + 1
  BY FS_Interval
<1> QED BY <1>1

(* A column has as many as it is high.                                        *)
LEMMA Column ==
    ASSUME NEW k, NEW m \in Nat
    PROVE  IsFiniteSet({k} \X (1 .. m)) /\ Cardinality({k} \X (1 .. m)) = m
<1> DEFINE A == {k}
           B == 1 .. m
<1>1. IsFiniteSet(A) /\ Cardinality(A) = 1
  BY FS_Singleton
<1>2. IsFiniteSet(B) /\ Cardinality(B) = m
  BY UpTo
<1>3. IsFiniteSet(A \X B) /\ Cardinality(A \X B) = 1 * m
  <2> HIDE DEF A, B
  <2> QED BY <1>1, <1>2, FS_Product
<1>4. 1 * m = m
  OBVIOUS
<1> QED BY <1>3, <1>4, Zenon

LEMMA UnitsAre ==
    ASSUME NEW n \in Nat, NEW f \in [1 .. n -> Nat]
    PROVE  /\ IsFiniteSet(Units(f))
           /\ \A k, w : <<k, w>> \in Units(f) <=> k \in 1 .. n /\ w \in 1 .. f[k]
           /\ \A u \in Units(f) : u = <<u[1], u[2]>>
<1> DEFINE Part(k) == {k} \X (1 .. f[k])
           Parts == {Part(k) : k \in 1 .. n}
<1>1. Units(f) = UNION Parts
  <2>1. DOMAIN f = 1 .. n
    OBVIOUS
  <2> QED BY <2>1, Zenon DEF Units
<1>2. \A k \in 1 .. n : IsFiniteSet(Part(k))
  BY Column
<1>3. IsFiniteSet(1 .. n)
  BY UpTo
<1>4. IsFiniteSet(Parts)
  <2> DEFINE p == [k \in 1 .. n |-> Part(k)]
  <2>1. p \in Surjection(1 .. n, Parts)
    <3> HIDE DEF Part
    <3>1. p \in [1 .. n -> Parts]
      OBVIOUS
    <3>2. \A S \in Parts : \E k \in 1 .. n : p[k] = S
      OBVIOUS
    <3> HIDE DEF p, Parts
    <3> QED BY <3>1, <3>2 DEF Surjection
  <2> HIDE DEF p, Parts
  <2> QED BY <1>3, <2>1, FS_Surjection
<1>5. IsFiniteSet(Units(f))
  <2> HIDE DEF Part
  <2>1. \A S \in Parts : IsFiniteSet(S)
    BY <1>2
  <2> HIDE DEF Parts
  <2> QED BY <1>1, <1>4, <2>1, FS_UNION
<1> QED BY <1>1, <1>5

(* A sum is a natural, and at least each of what is added.                    *)
LEMMA SumIs ==
    ASSUME NEW n \in Nat, NEW f \in [1 .. n -> Nat]
    PROVE  Sum(f) \in Nat /\ \A k \in 1 .. n : f[k] <= Sum(f)
<1>1. IsFiniteSet(Units(f)) /\ Sum(f) = Cardinality(Units(f))
  BY UnitsAre, SumUnits
<1>2. ASSUME NEW k \in 1 .. n PROVE f[k] <= Sum(f)
  <2> DEFINE P == {k} \X (1 .. f[k])
  <2>1. P \subseteq Units(f)
    BY DEF Units
  <2>2. Cardinality(P) = f[k]
    BY Column, Zenon
  <2> HIDE DEF P
  <2> QED BY <1>1, <2>1, <2>2, FS_Subset
<1>3. Sum(f) \in Nat
  BY <1>1, FS_CardinalityType, Zenon
<1> QED BY <1>2, <1>3

(* Added up, values that are no smaller, one for each, are no smaller.        *)
LEMMA SumGrows ==
    ASSUME NEW m \in Nat, NEW f \in [1 .. m -> Nat],
           NEW n \in Nat, NEW g \in [1 .. n -> Nat],
           NEW h \in [1 .. m -> 1 .. n],
           \A i, j \in 1 .. m : h[i] = h[j] => i = j,
           \A j \in 1 .. m : f[j] <= g[h[j]]
    PROVE  Sum(f) <= Sum(g)
<1> DEFINE F == Units(f)
           G == Units(g)
           t == [u \in F |-> <<h[u[1]], u[2]>>]
<1>1. /\ IsFiniteSet(F) /\ IsFiniteSet(G)
      /\ Sum(f) = Cardinality(F) /\ Sum(g) = Cardinality(G)
  BY UnitsAre, SumUnits
<1>2. ASSUME NEW u \in F
      PROVE  /\ u = <<u[1], u[2]>> /\ u[1] \in 1 .. m /\ u[2] \in 1 .. f[u[1]]
             /\ t[u] = <<h[u[1]], u[2]>> /\ t[u] \in G
  <2>1. u = <<u[1], u[2]>>
    BY UnitsAre
  <2>2. u[1] \in 1 .. m /\ u[2] \in 1 .. f[u[1]]
    <3>1. <<u[1], u[2]>> \in Units(f)
      BY <2>1
    <3> QED BY <3>1, UnitsAre
  <2>3. h[u[1]] \in 1 .. n /\ u[2] \in 1 .. g[h[u[1]]]
    BY <2>2
  <2>4. <<h[u[1]], u[2]>> \in G
    BY <2>3, UnitsAre
  <2> QED BY <2>1, <2>2, <2>4
<1>3. t \in Injection(F, G)
  <2>1. ASSUME NEW u \in F, NEW v \in F, t[u] = t[v] PROVE u = v
    <3>1. h[u[1]] = h[v[1]] /\ u[2] = v[2]
      BY <1>2, <2>1
    <3>2. u[1] = v[1]
      BY <1>2, <3>1
    <3>3. u = <<u[1], u[2]>> /\ v = <<v[1], v[2]>>
      BY <1>2
    <3> QED BY <3>1, <3>2, <3>3
  <2>2. t \in [F -> G]
    BY <1>2
  <2> HIDE DEF t, F, G
  <2> QED BY <2>1, <2>2 DEF Injection, IsInjective
<1> HIDE DEF t, F, G
<1> QED BY <1>1, <1>3, FS_Injection

(* The class of a node's kid.                                                 *)
Kin(i, k) == canon[nodes[i].kids[k]]
Many(i) == 1 .. Arity[nodes[i].op]
Prices == [Ids -> Nat \cup {NoCost}]
Dues(i, prices) == [k \in Many(i) |-> prices[Kin(i, k)]]
Payable(i, prices) == \A k \in Many(i) : prices[Kin(i, k)] # NoCost

(* A node, its kids and what it costs by itself.                              *)
LEMMA NodeIs ==
    ASSUME Data, NEW i \in Index
    PROVE  /\ nodes[i].op \in Ops /\ Arity[nodes[i].op] \in Nat /\ Cost[nodes[i].op] \in Nat
           /\ DOMAIN nodes[i].kids = Many(i)
           /\ nodes[i].kids \in Seq(Nat) /\ Len(nodes[i].kids) = Arity[nodes[i].op]
           /\ \A k \in Many(i) : /\ nodes[i].kids[k] \in Ids /\ Kin(i, k) \in Ids
                                  /\ canon[Kin(i, k)] = Kin(i, k)
           /\ canon[nodes[i].cls] \in Ids
<1>1. /\ nodes[i].op \in Ops /\ nodes[i].kids \in Kids(Ids, nodes[i].op)
      /\ canon[nodes[i].cls] \in Ids /\ canon \in Seq(Nat)
  BY GraphFacts
<1>2. Arity[nodes[i].op] \in Nat /\ Cost[nodes[i].op] \in Nat
  <2>1. \A o \in Ops : Cost[o] \in Nat
    BY CostAssumption
  <2> QED BY <1>1, <2>1, OpArity
<1>3. DOMAIN nodes[i].kids = Many(i) /\ \A k \in Many(i) : nodes[i].kids[k] \in Ids
  BY <1>1, KidsFacts DEF Many
<1>4. nodes[i].kids \in Seq(Nat)
  BY <1>1, KidsSeq
<1>5. Len(nodes[i].kids) = Arity[nodes[i].op]
  BY <1>2, <1>3, <1>4 DEF Many
<1>6. \A k \in Many(i) : Kin(i, k) \in Ids /\ canon[Kin(i, k)] = Kin(i, k)
  BY <1>3, GraphFacts DEF Kin
<1> QED BY <1>1, <1>2, <1>3, <1>4, <1>5, <1>6

(* What a node costs: nothing finite unless its kids do, and then no less     *)
(* than each of them.                                                         *)
LEMMA NodeCostIs ==
    ASSUME Data, NEW i \in Index, NEW prices \in Prices
    PROVE  /\ NodeCost(i, prices) \in Nat \cup {NoCost}
           /\ ~Payable(i, prices) => NodeCost(i, prices) = NoCost
           /\ Payable(i, prices) =>
                 /\ NodeCost(i, prices) \in Nat
                 /\ NodeCost(i, prices) = Cost[nodes[i].op] + Sum(Dues(i, prices))
                 /\ Dues(i, prices) \in [Many(i) -> Nat]
                 /\ \A k \in Many(i) : /\ prices[Kin(i, k)] \in Nat
                                        /\ prices[Kin(i, k)] <= NodeCost(i, prices)
<1> DEFINE d == Dues(i, prices)
<1>1. /\ DOMAIN nodes[i].kids = Many(i) /\ Cost[nodes[i].op] \in Nat /\ Arity[nodes[i].op] \in Nat
      /\ \A k \in Many(i) : Kin(i, k) \in Ids
  BY NodeIs
<1>2. d = [k \in DOMAIN nodes[i].kids |-> prices[canon[nodes[i].kids[k]]]]
  BY <1>1 DEF Dues, Kin
<1>3. DOMAIN d = Many(i) /\ \A k \in Many(i) : d[k] = prices[Kin(i, k)]
  BY DEF Dues
<1>4. NodeCost(i, prices) = IF \E k \in DOMAIN d : d[k] = NoCost THEN NoCost
                            ELSE Cost[nodes[i].op] + Sum(d)
  BY <1>2, Zenon DEF NodeCost
<1>5. CASE ~Payable(i, prices)
  BY <1>3, <1>4, <1>5 DEF Payable
<1>6. CASE Payable(i, prices)
  <2>1. \A k \in Many(i) : prices[Kin(i, k)] \in Nat
    BY <1>1, <1>6 DEF Payable, Prices
  <2>2. d \in [Many(i) -> Nat]
    BY <2>1 DEF Dues
  <2>3. Sum(d) \in Nat /\ \A k \in Many(i) : d[k] <= Sum(d)
    <3> HIDE DEF d
    <3> QED BY <1>1, <2>2, SumIs DEF Many
  <2>4. NodeCost(i, prices) = Cost[nodes[i].op] + Sum(d)
    BY <1>3, <1>4, <1>6 DEF Payable
  <2> DEFINE total == Sum(d)
             due(k) == prices[Kin(i, k)]
  <2>5. \A k \in Many(i) : due(k) \in Nat /\ due(k) <= total
    BY <1>3, <2>1, <2>3
  <2>6. \A k \in Many(i) : due(k) <= Cost[nodes[i].op] + total
    <3> HIDE DEF due, total
    <3> QED BY <1>1, <2>3, <2>5 DEF total
  <2>7. NodeCost(i, prices) \in Nat
    <3> HIDE DEF d
    <3> QED BY <1>1, <2>3, <2>4
  <2> QED BY <1>6, <2>1, <2>2, <2>4, <2>6, <2>7
<1> QED BY <1>5, <1>6

(* Prices that fell.                                                          *)
Fell(prices, lower) ==
    \A c \in Ids : prices[c] # NoCost => lower[c] # NoCost /\ lower[c] <= prices[c]

(* Cheaper kids make a node no dearer.                                        *)
LEMMA NodeCostFalls ==
    ASSUME Data, NEW i \in Index, NEW prices \in Prices, NEW lower \in Prices,
           NodeCost(i, prices) # NoCost,
           \A k \in Many(i) : lower[Kin(i, k)] # NoCost /\ lower[Kin(i, k)] <= prices[Kin(i, k)]
    PROVE  NodeCost(i, lower) # NoCost /\ NodeCost(i, lower) <= NodeCost(i, prices)
<1> DEFINE d == Dues(i, prices)
           e == Dues(i, lower)
<1>1. Payable(i, prices)
  BY NodeCostIs
<1>2. \A k \in Many(i) : Kin(i, k) \in Ids
  BY NodeIs
<1>3. Payable(i, lower)
  BY DEF Payable
<1>4. /\ NodeCost(i, prices) = Cost[nodes[i].op] + Sum(d) /\ d \in [Many(i) -> Nat]
      /\ NodeCost(i, lower) = Cost[nodes[i].op] + Sum(e) /\ e \in [Many(i) -> Nat]
      /\ NodeCost(i, lower) \in Nat
  BY <1>1, <1>3, NodeCostIs
<1>5. \A k \in Many(i) : e[k] <= d[k]
  BY DEF Dues
<1>6. Cost[nodes[i].op] \in Nat /\ Arity[nodes[i].op] \in Nat
  BY NodeIs
<1> HIDE DEF d, e
<1>7. Sum(e) <= Sum(d) /\ Sum(e) \in Nat /\ Sum(d) \in Nat
  <2> DEFINE id == [k \in Many(i) |-> k]
  <2>1. id \in [Many(i) -> Many(i)] /\ \A k \in Many(i) : id[k] = k
    OBVIOUS
  <2> HIDE DEF id
  <2>2. \A k \in Many(i) : e[k] <= d[id[k]]
    BY <1>5, <2>1
  <2>3. \A k, l \in Many(i) : id[k] = id[l] => k = l
    BY <2>1
  <2>4. Sum(e) <= Sum(d)
    BY <1>4, <1>6, <2>1, <2>2, <2>3, SumGrows DEF Many
  <2> QED BY <1>4, <1>6, <2>4, SumIs DEF Many
<1>8. NodeCost(i, lower) # NoCost
  BY <1>4 DEF NoCost
<1> DEFINE S == Sum(e)
           T == Sum(d)
           K == Cost[nodes[i].op]
<1>9. K + S <= K + T
  <2> HIDE DEF S, T, K
  <2>1. S <= T /\ S \in Nat /\ T \in Nat /\ K \in Nat
    BY <1>6, <1>7 DEF S, T, K
  <2> QED BY <2>1
<1> QED BY <1>4, <1>8, <1>9

(* And so do prices that fell throughout.                                     *)
LEMMA PricesFall ==
    ASSUME Data, NEW i \in Index, NEW prices \in Prices, NEW lower \in Prices,
           Fell(prices, lower), NodeCost(i, prices) # NoCost
    PROVE  NodeCost(i, lower) # NoCost /\ NodeCost(i, lower) <= NodeCost(i, prices)
<1>1. Payable(i, prices) /\ \A k \in Many(i) : Kin(i, k) \in Ids
  BY NodeCostIs, NodeIs
<1>2. \A k \in Many(i) : lower[Kin(i, k)] # NoCost /\ lower[Kin(i, k)] <= prices[Kin(i, k)]
  BY <1>1 DEF Payable, Fell
<1> QED BY <1>2, NodeCostFalls

(* e comes before c: it is cheaper, or as cheap and ranked below.             *)
Under(rank, e, c) == cost[e] < cost[c] \/ (cost[e] = cost[c] /\ rank[e] < rank[c])
Chooses(c) == best[c] # 0

(* What is planned so far: a class is priced by a node of its own that may be *)
(* chosen and costs no more than the price.                                   *)
Planned ==
    /\ cost \in Prices /\ best \in [Ids -> 0 .. Len(nodes)]
    /\ \A c \in Ids : Chooses(c) <=> cost[c] # NoCost
    /\ \A c \in Ids : Chooses(c) =>
          /\ Candidate(best[c]) /\ canon[nodes[best[c]].cls] = c
          /\ NodeCost(best[c], cost) # NoCost /\ NodeCost(best[c], cost) <= cost[c]

(* The nodes chosen form no cycle: each kid's class comes before the class,   *)
(* and so does what is on the stack before the root.                          *)
Descends(rank) ==
    \A c \in Ids : Chooses(c) => \A k \in Many(best[c]) : Under(rank, Kin(best[c], k), c)
Ranked(rank) ==
    /\ Descends(rank)
    /\ \A p \in 2 .. Len(stack) : Under(rank, stack[p], root)
Acyclic == \E m \in Nat : \E rank \in [Ids -> 0 .. m] : Ranked(rank)

(* None of the first n nodes would make its class cheaper.                    *)
Settled(n) == \A i \in 1 .. n :
    Candidate(i) => ~Better(NodeCost(i, cost), cost[canon[nodes[i].cls]])

PlanInv == xpc # "none" =>
    /\ pc = "idle" /\ xat \in 1 .. Len(nodes) + 1 /\ improved \in BOOLEAN
    /\ Planned /\ Acyclic
    /\ Settled(IF xpc = "plan" THEN IF improved THEN 0 ELSE xat - 1 ELSE Len(nodes))
    /\ xpc # "walk" => stack = <<>>

(* What is written: one node of each class that has a number, numbered in the *)
(* order they were written, its kids before it.                               *)
OutNode == [op : Ops, kids : Seq(Nat)]
Entry(c) == [op |-> nodes[best[c]].op, kids |-> [k \in Many(best[c]) |-> memo[Kin(best[c], k)]]]
Laid ==
    /\ out \in Seq(OutNode) /\ memo \in [Ids -> 0 .. Len(out)]
    /\ \A c, d \in Ids : memo[c] = memo[d] /\ memo[c] # 0 => c = d
    /\ \A j \in 1 .. Len(out) : \E c \in Ids : memo[c] = j
    /\ \A c \in Ids : memo[c] # 0 =>
          /\ Chooses(c)
          /\ out[memo[c]] = Entry(c)
          /\ \A k \in Many(best[c]) : memo[Kin(best[c], k)] \in 1 .. memo[c] - 1

Stacked ==
    /\ root \in Ids /\ Chooses(root)
    /\ stack \in Seq(Ids)
    /\ \A p \in 1 .. Len(stack) : canon[stack[p]] = stack[p] /\ Chooses(stack[p])
    /\ stack # <<>> => stack[1] = root /\ memo[root] = 0
    /\ stack = <<>> => memo[root] = Len(out) /\ Len(out) # 0

WalkInv == xpc = "walk" => Laid /\ Stacked

XPhases == {"none", "plan", "ready", "walk"}

(* A plan that is left alone stands, in a graph that is.                      *)
LEMMA GraphKept ==
    ASSUME UNCHANGED <<nodes, canon, without>>
    PROVE  /\ Ids' = Ids /\ Index' = Index /\ Prices' = Prices
           /\ \A i, k : Kin(i, k)' = Kin(i, k)
           /\ \A i : Many(i)' = Many(i) /\ (Candidate(i)' <=> Candidate(i))
           /\ \A i : NodeCost(i, cost)' = NodeCost(i, cost')
<1>1. Ids' = Ids /\ Index' = Index
  BY DEF Ids, Index
<1>2. Prices' = Prices
  BY <1>1, Zenon DEF Prices
<1>3. /\ \A i, k : Kin(i, k)' = Kin(i, k)
      /\ \A i : Many(i)' = Many(i) /\ (Candidate(i)' <=> Candidate(i))
  BY DEF Kin, Many, Candidate
<1>4. \A i : NodeCost(i, cost)' = NodeCost(i, cost')
  BY Zenon DEF NodeCost
<1> QED BY <1>1, <1>2, <1>3, <1>4

(* What the plan is stated with does not change while it is left alone.       *)
LEMMA PlanKept ==
    ASSUME UNCHANGED <<nodes, canon, without, cost, best>>
    PROVE  /\ Planned => Planned'
           /\ \A n : Settled(n) => Settled(n)'
           /\ \A rank : Descends(rank) => Descends(rank)'
<1>1. /\ Ids' = Ids /\ Prices' = Prices /\ \A i, k : Kin(i, k)' = Kin(i, k)
      /\ \A i : Many(i)' = Many(i) /\ (Candidate(i)' <=> Candidate(i))
      /\ \A i : NodeCost(i, cost)' = NodeCost(i, cost)
  BY GraphKept
<1>2. \A c : Chooses(c)' <=> Chooses(c)
  BY DEF Chooses
<1>3. Planned => Planned'
  BY <1>1, <1>2 DEF Planned
<1>4. \A n : Settled(n) => Settled(n)'
  BY <1>1 DEF Settled, Better
<1>5. \A rank, e, c : Under(rank, e, c)' <=> Under(rank, e, c)
  BY DEF Under
<1>6. \A rank : Descends(rank) => Descends(rank)'
  BY <1>1, <1>2, <1>5 DEF Descends
<1> QED BY <1>3, <1>4, <1>6

(* The chosen node of a class, and what its kids cost.                        *)
LEMMA ChosenIs ==
    ASSUME Data, Planned, NEW c \in Ids, Chooses(c)
    PROVE  /\ best[c] \in Index /\ cost[c] \in Nat
           /\ NodeCost(best[c], cost) \in Nat /\ NodeCost(best[c], cost) <= cost[c]
           /\ Payable(best[c], cost)
           /\ \A k \in Many(best[c]) :
                 /\ Kin(best[c], k) \in Ids /\ canon[Kin(best[c], k)] = Kin(best[c], k)
                 /\ Chooses(Kin(best[c], k)) /\ cost[Kin(best[c], k)] \in Nat
<1>1. best[c] \in Index /\ cost[c] \in Nat /\ cost \in Prices
  BY DEF Planned, Chooses, Prices, Index, Data, Stored
<1>2. NodeCost(best[c], cost) # NoCost /\ NodeCost(best[c], cost) <= cost[c]
  BY DEF Planned
<1>3. Payable(best[c], cost) /\ NodeCost(best[c], cost) \in Nat
  BY <1>1, <1>2, NodeCostIs
<1>4. \A k \in Many(best[c]) : /\ Kin(best[c], k) \in Ids
                              /\ canon[Kin(best[c], k)] = Kin(best[c], k)
  BY <1>1, NodeIs
<1>5. \A k \in Many(best[c]) : Chooses(Kin(best[c], k)) /\ cost[Kin(best[c], k)] \in Nat
  BY <1>3, <1>4, <1>1 DEF Payable, Planned, Prices
<1> QED BY <1>1, <1>2, <1>3, <1>4, <1>5

(* A node that makes its class cheaper.                                       *)
PricedBy(i, c, v) ==
    /\ cost' = [cost EXCEPT ![c] = v] /\ best' = [best EXCEPT ![c] = i]
    /\ UNCHANGED <<nodes, canon, without>>

(* It leaves a plan, of prices that fell.                                     *)
LEMMA CheaperPlanned ==
    ASSUME Data, Planned, NEW i \in Index, Candidate(i),
           NEW c, c = canon[nodes[i].cls], NEW v, v = NodeCost(i, cost),
           Better(v, cost[c]), PricedBy(i, c, v)
    PROVE  Planned'
<1>1. /\ Ids' = Ids /\ Prices' = Prices /\ (\A j : Candidate(j)' <=> Candidate(j))
      /\ (\A j : NodeCost(j, cost)' = NodeCost(j, cost'))
      /\ nodes' = nodes /\ canon' = canon
  BY GraphKept DEF PricedBy
<1>2. c \in Ids /\ v \in Nat /\ (cost[c] # NoCost => v < cost[c])
  <2>1. c \in Ids /\ v \in Nat \cup {NoCost}
    BY NodeIs, NodeCostIs DEF Planned
  <2> QED BY <2>1 DEF Better, NoCost
<1>3. /\ cost' \in Prices /\ cost'[c] = v /\ best'[c] = i
      /\ \A d \in Ids \ {c} : cost'[d] = cost[d] /\ best'[d] = best[d]
      /\ best' \in [Ids -> 0 .. Len(nodes)] /\ i # 0
  BY <1>2 DEF Planned, Prices, PricedBy, Index
<1>4. Fell(cost, cost') /\ cost \in Prices
  <2>1. cost \in Prices
    BY DEF Planned
  <2>2. ASSUME NEW d \in Ids, cost[d] # NoCost
        PROVE  cost'[d] # NoCost /\ cost'[d] <= cost[d]
    <3>1. cost[d] \in Nat
      BY <2>1, <2>2 DEF Prices
    <3> QED BY <1>2, <1>3, <2>2, <3>1 DEF NoCost
  <2> QED BY <2>1, <2>2 DEF Fell
<1>5. \A d \in Ids : Chooses(d)' <=> cost'[d] # NoCost
  BY <1>2, <1>3 DEF Planned, Chooses, NoCost
<1>6. ASSUME NEW d \in Ids, Chooses(d)'
      PROVE  /\ Candidate(best'[d]) /\ canon[nodes[best'[d]].cls] = d
             /\ NodeCost(best'[d], cost') # NoCost /\ NodeCost(best'[d], cost') <= cost'[d]
  <2>1. CASE d = c
    <3>1. NodeCost(i, cost) # NoCost
      BY <1>2 DEF NoCost
    <3>2. NodeCost(i, cost') # NoCost /\ NodeCost(i, cost') <= NodeCost(i, cost)
      BY <1>3, <1>4, <3>1, PricesFall
    <3> QED BY <1>3, <2>1, <3>2
  <2>2. CASE d # c
    <3>1. Chooses(d) /\ best'[d] = best[d] /\ cost'[d] = cost[d]
      BY <1>3, <1>6, <2>2 DEF Chooses
    <3>2. /\ best[d] \in Index /\ cost[d] \in Nat
          /\ NodeCost(best[d], cost) \in Nat /\ NodeCost(best[d], cost) <= cost[d]
      BY <3>1, ChosenIs
    <3>3. NodeCost(best[d], cost) # NoCost
      BY <3>2 DEF NoCost
    <3>4. NodeCost(best[d], cost') # NoCost /\ NodeCost(best[d], cost') <= NodeCost(best[d], cost)
      BY <1>3, <1>4, <3>2, <3>3, PricesFall
    <3>5. NodeCost(best[d], cost') \in Nat \cup {NoCost}
      BY <1>3, <3>2, NodeCostIs
    <3>6. NodeCost(best[d], cost') <= cost[d]
      BY <3>2, <3>4, <3>5 DEF NoCost
    <3> QED BY <3>1, <3>4, <3>6 DEF Planned
  <2> QED BY <2>1, <2>2
<1> QED BY <1>1, <1>3, <1>5, <1>6 DEF Planned

(* The class is ranked above all others: its kids come before it, and it is   *)
(* cheaper now than what has it for a kid.                                    *)
LEMMA CheaperDescends ==
    ASSUME Data, Planned, NEW i \in Index, Candidate(i),
           NEW c, c = canon[nodes[i].cls], NEW v, v = NodeCost(i, cost),
           Better(v, cost[c]), PricedBy(i, c, v),
           NEW m \in Nat, NEW rank \in [Ids -> 0 .. m], Descends(rank)
    PROVE  \E r \in [Ids' -> 0 .. m + 1] : Descends(r)'
<1>1. /\ Ids' = Ids /\ (\A j : Many(j)' = Many(j)) /\ (\A j, k : Kin(j, k)' = Kin(j, k))
  BY GraphKept DEF PricedBy
<1>2. /\ c \in Ids /\ v \in Nat /\ (cost[c] # NoCost => v < cost[c]) /\ cost \in Prices
      /\ Payable(i, cost)
  <2>1. c \in Ids /\ v \in Nat \cup {NoCost} /\ cost \in Prices
    BY NodeIs, NodeCostIs DEF Planned
  <2>2. v \in Nat /\ (cost[c] # NoCost => v < cost[c])
    BY <2>1 DEF Better, NoCost
  <2>3. v # NoCost
    BY DEF Better
  <2> QED BY <2>1, <2>2, <2>3, NodeCostIs
<1>3. /\ cost'[c] = v /\ best'[c] = i
      /\ \A d \in Ids \ {c} : cost'[d] = cost[d] /\ best'[d] = best[d]
  BY <1>2 DEF Planned, Prices, PricedBy
<1> DEFINE r == [rank EXCEPT ![c] = m + 1]
<1>4. /\ r \in [Ids -> 0 .. m + 1] /\ r[c] = m + 1
      /\ \A d \in Ids \ {c} : r[d] = rank[d] /\ rank[d] \in 0 .. m
  BY <1>2
<1> HIDE DEF r
<1>5. ASSUME NEW k \in Many(i)
      PROVE  Under(r, Kin(i, k), c)'
  <2> DEFINE e == Kin(i, k)
  <2>1. e \in Ids /\ cost[e] \in Nat /\ cost[e] <= v
    BY <1>2, NodeIs, NodeCostIs
  <2> HIDE DEF e
  <2>2. e # c
    BY <1>2, <2>1 DEF NoCost
  <2>3. cost'[e] = cost[e] /\ r[e] < r[c]
    BY <1>3, <1>4, <2>1, <2>2
  <2>4. Kin(i, k)' = e
    BY <1>1 DEF e
  <2> QED BY <1>2, <1>3, <2>1, <2>3, <2>4 DEF Under
<1>6. ASSUME NEW d \in Ids, d # c, Chooses(d)', NEW k \in Many(best[d])
      PROVE  Under(r, Kin(best[d], k), d)'
  <2> DEFINE e == Kin(best[d], k)
  <2>1. Chooses(d) /\ best'[d] = best[d] /\ cost'[d] = cost[d]
    BY <1>3, <1>6 DEF Chooses
  <2>2. e \in Ids /\ cost[e] \in Nat /\ cost[d] \in Nat /\ Under(rank, e, d)
    BY <2>1, ChosenIs DEF Descends
  <2>3. Kin(best[d], k)' = e
    BY <1>1, <2>1
  <2> HIDE DEF e
  <2>4. CASE e = c
    BY <1>2, <1>3, <2>1, <2>2, <2>3, <2>4 DEF Under, NoCost
  <2>5. CASE e # c
    BY <1>3, <1>4, <1>6, <2>1, <2>2, <2>3, <2>5 DEF Under
  <2> QED BY <2>4, <2>5
<1>7. Descends(r)'
  <2> SUFFICES ASSUME NEW d \in Ids, Chooses(d)', NEW k \in Many(best[d])'
               PROVE  Under(r, Kin(best[d], k), d)'
    BY <1>1 DEF Descends
  <2>1. CASE d = c
    BY <1>1, <1>3, <1>5, <2>1
  <2>2. CASE d # c
    BY <1>1, <1>3, <1>6, <2>2
  <2> QED BY <2>1, <2>2
<1> QED BY <1>1, <1>4, <1>7

(* An order of the classes that suits the next plan.                          *)
LEMMA AcyclicNow ==
    ASSUME NEW n \in Nat, NEW r \in [Ids' -> 0 .. n], Ranked(r)'
    PROVE  Acyclic'
BY DEF Acyclic

(* A plan before its first node.                                              *)
LEMMA PlanBegins ==
    ASSUME Data, NEW x, Prepare(x), UNCHANGED vars, stack = <<>>
    PROVE  PlanInv'
<1>1. /\ Ids' = Ids /\ nodes' = nodes /\ canon' = canon /\ pc' = "idle" /\ stack' = <<>>
      /\ xpc' = "plan" /\ xat' = 1 /\ improved' = FALSE
      /\ cost' = [c \in Ids |-> NoCost] /\ best' = [c \in Ids |-> 0]
      /\ Len(nodes) \in Nat
  BY GraphFacts DEF Prepare, vars, Ids
<1>2. Planned'
  BY <1>1 DEF Planned, Prices, Chooses
<1>3. Acyclic'
  <2>1. \E rank \in [Ids' -> 0 .. 1] : TRUE
    <3>1. [c \in Ids' |-> 0] \in [Ids' -> 0 .. 1]
      OBVIOUS
    <3> QED BY <3>1, Zenon
  <2>5. PICK rank \in [Ids' -> 0 .. 1] : TRUE
    BY <2>1
  <2>2. Ranked(rank)'
    <3>1. Len(stack') = 0 /\ (\A c \in Ids' : ~Chooses(c)')
      BY <1>1 DEF Chooses
    <3>2. 2 .. Len(stack') = {}
      BY <3>1
    <3> QED BY <3>1, <3>2 DEF Ranked, Descends
  <2> QED BY <2>2, AcyclicNow
<1>4. Settled(0)'
  BY DEF Settled
<1>5. xat' - 1 = 0 /\ xat' \in 1 .. Len(nodes') + 1
  BY <1>1
<1>6. Settled(IF xpc = "plan" THEN IF improved THEN 0 ELSE xat - 1 ELSE Len(nodes))'
  BY <1>1, <1>4, <1>5
<1> QED BY <1>1, <1>2, <1>3, <1>5, <1>6 DEF PlanInv

(* A node the plan looks at.                                                  *)
LEMMA PlanNodeStep ==
    ASSUME Data, PlanInv, PlanNode, UNCHANGED vars
    PROVE  PlanInv'
<1>1. /\ xpc = "plan" /\ xat \in Index /\ pc = "idle" /\ improved \in BOOLEAN /\ stack = <<>>
      /\ Planned /\ Acyclic /\ (~improved => Settled(xat - 1)) /\ Len(nodes) \in Nat
  BY GraphFacts DEF PlanInv, PlanNode, Index
<1>2. /\ xpc' = "plan" /\ xat' = xat + 1 /\ pc' = "idle" /\ stack' = <<>>
      /\ UNCHANGED <<nodes, canon, without>> /\ Ids' = Ids
  BY <1>1 DEF PlanNode, vars, Ids
<1> DEFINE c == canon[nodes[xat].cls]
           v == NodeCost(xat, cost)
           Cheaper == Candidate(xat) /\ Better(v, cost[c])
<1>3. PICK m \in Nat : \E rank \in [Ids -> 0 .. m] : Ranked(rank)
  BY <1>1 DEF Acyclic
<1>4. PICK rank \in [Ids -> 0 .. m] : Descends(rank)
  BY <1>3 DEF Ranked
<1>5. ASSUME NEW n \in Nat, NEW r \in [Ids' -> 0 .. n], Descends(r)' PROVE Acyclic'
  <2>1. 2 .. Len(stack') = {}
    BY <1>2
  <2>2. Ranked(r)'
    BY <1>5, <2>1 DEF Ranked
  <2> QED BY <1>5, <2>2 DEF Acyclic
<1>6. CASE Cheaper
  <2>1. PricedBy(xat, c, v) /\ improved' = TRUE
    BY <1>2, <1>6 DEF PlanNode, PricedBy
  <2>2. c = canon[nodes[xat].cls] /\ v = NodeCost(xat, cost) /\ Candidate(xat) /\ Better(v, cost[c])
    BY <1>6
  <2> HIDE DEF c, v
  <2>3. Planned'
    BY <1>1, <2>1, <2>2, CheaperPlanned
  <2>4. PICK r \in [Ids' -> 0 .. m + 1] : Descends(r)'
    BY <1>1, <1>4, <2>1, <2>2, CheaperDescends
  <2>5. Acyclic'
    BY <1>5, <2>4
  <2>6. Settled(0)'
    BY DEF Settled
  <2> QED BY <1>1, <1>2, <2>1, <2>3, <2>5, <2>6 DEF PlanInv, Index
<1>7. CASE ~Cheaper
  <2>1. UNCHANGED <<cost, best, improved>>
    BY <1>7 DEF PlanNode
  <2>2. Planned' /\ Descends(rank)'
    BY <1>1, <1>2, <1>4, <2>1, PlanKept
  <2>3. Acyclic'
    BY <1>2, <1>4, <1>5, <2>2
  <2>4. ~improved => Settled(xat)
    BY <1>1, <1>7 DEF Settled, Index
  <2>5. \A n : Settled(n) => Settled(n)'
    BY <1>2, <2>1, PlanKept
  <2>6. xat' - 1 = xat /\ Settled(0)'
    BY <1>1, <1>2 DEF Settled, Index
  <2> QED BY <1>1, <1>2, <2>1, <2>2, <2>3, <2>4, <2>5, <2>6 DEF PlanInv, Index
<1> QED BY <1>6, <1>7

(* A plan that nothing changes: the end of a round, a walk begun or gone on   *)
(* with, a term delivered.                                                    *)
LEMMA PlanStands ==
    ASSUME Data, PlanInv, xpc # "none", UNCHANGED <<plan, vars>>,
           xpc' # "none" => /\ xat' \in 1 .. Len(nodes) + 1 /\ improved' \in BOOLEAN
                            /\ xpc' = "plan" => improved' = FALSE /\ xat' = 1
                            /\ xpc' # "plan" => Settled(Len(nodes)),
           xpc' # "walk" => stack' = <<>>,
           \A m \in Nat : \A rank \in [Ids -> 0 .. m] :
               Ranked(rank) => \A p \in 2 .. Len(stack') : Under(rank, stack'[p], root')
    PROVE  PlanInv'
<1>1. /\ UNCHANGED <<nodes, canon, without, cost, best, pc>> /\ Ids' = Ids
  BY DEF plan, vars, Ids
<1>2. /\ Planned' /\ (\A n : Settled(n) => Settled(n)')
      /\ (\A rank : Descends(rank) => Descends(rank)') /\ pc' = "idle"
  BY <1>1, PlanKept DEF PlanInv
<1>3. Acyclic'
  <2>1. PICK m \in Nat : \E rank \in [Ids -> 0 .. m] : Ranked(rank)
    BY DEF Acyclic, PlanInv
  <2>2. PICK rank \in [Ids -> 0 .. m] : Ranked(rank)
    BY <2>1
  <2>3. \A p \in 2 .. Len(stack') : Under(rank, stack[p], root)'
    BY <1>1, <2>2 DEF Under
  <2>4. Ranked(rank)'
    BY <1>2, <2>2, <2>3 DEF Ranked
  <2> QED BY <1>1, <2>4 DEF Acyclic
<1>4. Settled(0)'
  BY DEF Settled
<1> QED BY <1>1, <1>2, <1>3, <1>4 DEF PlanInv

(* What comes before what comes before a class comes before it, and nothing   *)
(* before itself.                                                             *)
LEMMA UnderIs ==
    ASSUME NEW rank, NEW b, NEW c, NEW d,
           \A e \in {b, c, d} : cost[e] \in Nat /\ rank[e] \in Nat
    PROVE  /\ Under(rank, b, c) /\ Under(rank, c, d) => Under(rank, b, d)
           /\ ~Under(rank, b, b)
BY DEF Under

(* The class on top of the stack and the node chosen for it.                  *)
LEMMA TopIs ==
    ASSUME Data, Planned, WalkInv, Walking
    PROVE  /\ Len(stack) \in Nat \ {0} /\ Top = stack[Len(stack)]
           /\ Top \in Ids /\ Chooses(Top) /\ cost[Top] \in Nat
           /\ best[Top] \in Index /\ Chosen = nodes[best[Top]]
           /\ Waiting = {k \in Many(best[Top]) : memo[Kin(best[Top], k)] = 0}
           /\ Arity[Chosen.op] \in Nat
           /\ Rest \in Seq(Ids) /\ Len(Rest) = Len(stack) - 1
           /\ \A p \in 1 .. Len(Rest) : Rest[p] = stack[p]
<1>1. /\ stack \in Seq(Ids) /\ stack # <<>>
      /\ \A p \in 1 .. Len(stack) : canon[stack[p]] = stack[p] /\ Chooses(stack[p])
  BY DEF WalkInv, Walking, Stacked
<1>2. Len(stack) \in Nat \ {0}
  BY <1>1
<1>3. Top = stack[Len(stack)] /\ Top \in Ids /\ Chooses(Top)
  BY <1>1, <1>2 DEF Top
<1>4. best[Top] \in Index /\ cost[Top] \in Nat
  BY <1>3, ChosenIs
<1>5. Chosen = nodes[best[Top]]
  BY DEF Chosen
<1>6. DOMAIN Chosen.kids = Many(best[Top]) /\ Arity[Chosen.op] \in Nat
  BY <1>4, <1>5, NodeIs
<1>7. Waiting = {k \in Many(best[Top]) : memo[Kin(best[Top], k)] = 0}
  <2>1. Waiting = {k \in DOMAIN Chosen.kids : memo[canon[Chosen.kids[k]]] = 0}
    BY DEF Waiting
  <2> QED BY <1>5, <1>6, <2>1, Zenon DEF Kin
<1>8. /\ Rest \in Seq(Ids) /\ Len(Rest) = Len(stack) - 1
      /\ \A p \in 1 .. Len(Rest) : Rest[p] = stack[p]
  <2> DEFINE n == Len(stack) - 1
  <2>1. n \in Nat /\ n <= Len(stack) /\ stack \in Seq(Ids) /\ Rest = SubSeq(stack, 1, n)
    BY <1>1, <1>2 DEF Rest
  <2> HIDE DEF n
  <2>2. /\ SubSeq(stack, 1, n) \in Seq(Ids) /\ Len(SubSeq(stack, 1, n)) = n
        /\ \A p \in 1 .. n : SubSeq(stack, 1, n)[p] = stack[p]
    BY <2>1
  <2> QED BY <2>1, <2>2 DEF n
<1> QED BY <1>2, <1>3, <1>4, <1>5, <1>6, <1>7, <1>8

(* The root is met again nowhere above the bottom of the stack.               *)
LEMMA RootIsBelow ==
    ASSUME Data, Planned, Acyclic, Stacked, NEW p \in 2 .. Len(stack)
    PROVE  stack[p] # root
<1>1. PICK m \in Nat : \E rank \in [Ids -> 0 .. m] : Ranked(rank)
  BY DEF Acyclic
<1>2. PICK rank \in [Ids -> 0 .. m] : Ranked(rank)
  BY <1>1
<1>3. root \in Ids /\ Chooses(root)
  BY DEF Stacked
<1>4. cost[root] \in Nat /\ rank[root] \in Nat
  BY <1>3, ChosenIs
<1>5. ~Under(rank, root, root)
  BY <1>4, UnderIs
<1> QED BY <1>2, <1>5 DEF Ranked

(* A walk begins at a class that has a price.                                 *)
LEMMA WalkBegins ==
    ASSUME Data, Planned, NEW r \in Ids, ExtractFrom(r), UNCHANGED vars
    PROVE  WalkInv' /\ Len(stack') = 1
<1>1. /\ UNCHANGED <<nodes, canon, cost, best>> /\ Ids' = Ids /\ xpc' = "walk"
      /\ root' = canon[r] /\ stack' = <<root'>> /\ memo' = [c \in Ids |-> 0] /\ out' = <<>>
      /\ cost[root'] # NoCost /\ root' \in Ids /\ canon[root'] = root'
  BY GraphFacts DEF ExtractFrom, vars, plan, Ids
<1>2. Chooses(root)'
  BY <1>1 DEF Planned, Chooses
<1>3. stack' \in Seq(Ids') /\ Len(stack') = 1 /\ stack'[1] = root' /\ stack' # <<>>
  BY <1>1
<1>4. Stacked'
  BY <1>1, <1>2, <1>3 DEF Stacked
<1>5. Laid'
  <2>1. out' \in Seq(OutNode') /\ Len(out') = 0
    BY <1>1
  <2> QED BY <1>1, <2>1 DEF Laid
<1> QED BY <1>3, <1>4, <1>5 DEF WalkInv

(* Nor does what is written.                                                  *)
LEMMA LaidKept ==
    ASSUME UNCHANGED <<nodes, canon, best, memo, out>>, Laid
    PROVE  Laid'
<1>1. /\ (\A i : Many(i)' = Many(i)) /\ (\A i, k : Kin(i, k)' = Kin(i, k))
      /\ OutNode' = OutNode /\ Ids' = Ids /\ (\A c : Chooses(c)' <=> Chooses(c))
  BY DEF Many, Kin, OutNode, Ids, Chooses
<1>2. \A c : Entry(c)' = Entry(c)
  BY Zenon DEF Entry, Many, Kin
<1> QED BY <1>1, <1>2 DEF Laid

(* An entry that was numbered already.                                        *)
LEMMA VisitedStep ==
    ASSUME Data, Planned, WalkInv, Visited, xpc' = xpc,
           UNCHANGED <<nodes, canon, cost, best, root>>
    PROVE  WalkInv'
<1>1. /\ Walking /\ memo[Top] # 0 /\ stack' = Rest /\ memo' = memo /\ out' = out
      /\ Ids' = Ids /\ Laid /\ Stacked
  BY DEF Visited, WalkInv, Walking, Ids
<1>2. /\ Len(stack) \in Nat \ {0} /\ Top = stack[Len(stack)]
      /\ stack' \in Seq(Ids) /\ Len(stack') = Len(stack) - 1
      /\ \A p \in 1 .. Len(stack') : stack'[p] = stack[p]
  BY <1>1, TopIs
<1>3. stack[1] = root /\ memo[root] = 0
  BY <1>1 DEF Stacked, Walking
<1>4. Len(stack) # 1
  BY <1>1, <1>2, <1>3
<1>5. stack' # <<>> /\ stack'[1] = root
  BY <1>2, <1>3, <1>4
<1>6. \A c : Chooses(c)' <=> Chooses(c)
  BY DEF Chooses
<1>7. Stacked'
  BY <1>1, <1>2, <1>3, <1>5, <1>6 DEF Stacked
<1>8. Laid'
  BY <1>1, LaidKept
<1> QED BY <1>7, <1>8 DEF WalkInv

(* One sequence after another.                                                *)
LEMMA JoinIs ==
    ASSUME NEW S, NEW s \in Seq(S), NEW t \in Seq(S)
    PROVE  /\ s \o t \in Seq(S) /\ Len(s \o t) = Len(s) + Len(t)
           /\ \A p \in 1 .. Len(s) : (s \o t)[p] = s[p]
           /\ \A p \in 1 .. Len(s) + Len(t) : p > Len(s) => (s \o t)[p] = t[p - Len(s)]
BY ConcatProperties

(* What is put on the stack: classes with a price that come before the one on *)
(* top of it.                                                                 *)
LEMMA DescendIs ==
    ASSUME Data, Planned, WalkInv, Descend
    PROVE  /\ stack' \in Seq(Ids) /\ Len(stack') \in Nat /\ Len(stack') >= Len(stack)
           /\ \A p \in 1 .. Len(stack) : stack'[p] = stack[p]
           /\ \A p \in 1 .. Len(stack') : p > Len(stack) =>
                 \E k \in Many(best[Top]) : stack'[p] = Kin(best[Top], k)
<1>1. Walking
  BY DEF Descend
<1>2. /\ Len(stack) \in Nat \ {0} /\ best[Top] \in Index /\ Top \in Ids /\ Chooses(Top)
      /\ Chosen = nodes[best[Top]] /\ Waiting \subseteq Many(best[Top])
      /\ Arity[Chosen.op] \in Nat /\ stack \in Seq(Ids)
  BY <1>1, TopIs DEF WalkInv, Walking, Stacked
<1>3. Cardinality(Waiting) \in Nat
  <2> DEFINE i == best[Top]
  <2>1. IsFiniteSet(Many(i))
    <3>1. Arity[nodes[i].op] \in Nat
      BY <1>2, NodeIs
    <3> HIDE DEF i
    <3> QED BY <3>1, UpTo DEF Many
  <2>2. IsFiniteSet(Waiting)
    BY <1>2, <2>1, FS_Subset
  <2> QED BY <2>2, FS_CardinalityType, Zenon
<1> DEFINE n == Cardinality(Waiting)
<1>4. PICK ks \in [1 .. n -> Waiting] :
          stack' = stack \o [l \in DOMAIN ks |-> canon[Chosen.kids[ks[l]]]]
  BY DEF Descend
<1> DEFINE w == [l \in 1 .. n |-> canon[Chosen.kids[ks[l]]]]
<1>5. stack' = stack \o w
  <2>1. DOMAIN ks = 1 .. n
    OBVIOUS
  <2> QED BY <1>4, <2>1
<1>6. \A l \in 1 .. n : ks[l] \in Many(best[Top]) /\ w[l] = Kin(best[Top], ks[l]) /\ w[l] \in Ids
  <2> SUFFICES ASSUME NEW l \in 1 .. n
               PROVE  ks[l] \in Many(best[Top]) /\ w[l] = Kin(best[Top], ks[l]) /\ w[l] \in Ids
    OBVIOUS
  <2>1. ks[l] \in Many(best[Top])
    BY <1>2
  <2>2. w[l] = Kin(best[Top], ks[l])
    BY <1>2 DEF Kin
  <2> QED BY <1>2, <2>1, <2>2, NodeIs
<1>7. w \in Seq(Ids) /\ Len(w) = n
  <2>1. w \in [1 .. n -> Ids]
    BY <1>6
  <2> HIDE DEF w
  <2>2. n \in Nat
    BY <1>3
  <2> HIDE DEF n
  <2> QED BY <2>1, <2>2, SeqOf
<1>9. n \in Nat
  BY <1>3
<1> HIDE DEF w, n
<1>8. /\ stack \o w \in Seq(Ids) /\ Len(stack \o w) = Len(stack) + n
      /\ \A p \in 1 .. Len(stack) : (stack \o w)[p] = stack[p]
      /\ \A p \in 1 .. Len(stack) + n : p > Len(stack) => (stack \o w)[p] = w[p - Len(stack)]
  BY <1>2, <1>7, JoinIs
<1>10. \A p \in 1 .. Len(stack') : p > Len(stack) =>
          \E k \in Many(best[Top]) : stack'[p] = Kin(best[Top], k)
  <2> SUFFICES ASSUME NEW p \in 1 .. Len(stack'), p > Len(stack)
               PROVE  \E k \in Many(best[Top]) : stack'[p] = Kin(best[Top], k)
    OBVIOUS
  <2>1. p - Len(stack) \in 1 .. n /\ stack'[p] = w[p - Len(stack)]
    BY <1>2, <1>5, <1>8, <1>9
  <2> QED BY <1>6, <2>1
<1>11. stack' \in Seq(Ids) /\ Len(stack') = Len(stack) + n
       /\ \A p \in 1 .. Len(stack) : stack'[p] = stack[p]
  BY <1>5, <1>8
<1>12. Len(stack') \in Nat /\ Len(stack') >= Len(stack)
  BY <1>2, <1>9, <1>11
<1> QED BY <1>10, <1>11, <1>12

(* Kids go on the stack.                                                      *)
LEMMA DescendStep ==
    ASSUME Data, Planned, WalkInv, Descend, xpc' = xpc,
           UNCHANGED <<nodes, canon, cost, best, root>>
    PROVE  /\ WalkInv'
           /\ \A m \in Nat : \A rank \in [Ids -> 0 .. m] :
                 Ranked(rank) => \A p \in 2 .. Len(stack') : Under(rank, stack'[p], root')
<1>1. /\ Walking /\ memo' = memo /\ out' = out /\ Ids' = Ids /\ Laid /\ Stacked /\ root' = root
  BY DEF Descend, WalkInv, Walking, Ids
<1>2. /\ Len(stack) \in Nat \ {0} /\ Top = stack[Len(stack)] /\ Top \in Ids /\ Chooses(Top)
      /\ cost[Top] \in Nat
  BY <1>1, TopIs
<1>3. /\ stack' \in Seq(Ids) /\ Len(stack') \in Nat /\ Len(stack') >= Len(stack)
      /\ \A p \in 1 .. Len(stack) : stack'[p] = stack[p]
      /\ \A p \in 1 .. Len(stack') : p > Len(stack) =>
            \E k \in Many(best[Top]) : stack'[p] = Kin(best[Top], k)
  BY DescendIs
<1>4. \A k \in Many(best[Top]) : /\ Kin(best[Top], k) \in Ids /\ Chooses(Kin(best[Top], k))
                                 /\ canon[Kin(best[Top], k)] = Kin(best[Top], k)
                                 /\ cost[Kin(best[Top], k)] \in Nat
  BY <1>2, ChosenIs
<1>5. \A c : Chooses(c)' <=> Chooses(c)
  BY DEF Chooses
<1>6. stack[1] = root /\ memo[root] = 0 /\ stack # <<>> /\ root \in Ids /\ Chooses(root)
  BY <1>1 DEF Stacked, Walking
<1>7. Stacked'
  <2>1. stack' # <<>> /\ stack'[1] = root
    BY <1>2, <1>3, <1>6
  <2>2. ASSUME NEW p \in 1 .. Len(stack') PROVE canon[stack'[p]] = stack'[p] /\ Chooses(stack'[p])
    <3>1. CASE p <= Len(stack)
      BY <1>1, <1>2, <1>3, <3>1 DEF Stacked
    <3>2. CASE p > Len(stack)
      BY <1>3, <1>4, <3>2
    <3> QED BY <1>2, <3>1, <3>2
  <2> QED BY <1>1, <1>3, <1>5, <1>6, <2>1, <2>2 DEF Stacked
<1>8. Laid'
  BY <1>1, LaidKept
<1>9. ASSUME NEW m \in Nat, NEW rank \in [Ids -> 0 .. m], Ranked(rank), NEW p \in 2 .. Len(stack')
      PROVE  Under(rank, stack'[p], root)
  <2>1. CASE p <= Len(stack)
    BY <1>2, <1>3, <1>9, <2>1 DEF Ranked
  <2>2. CASE p > Len(stack)
    <3>1. PICK k \in Many(best[Top]) : stack'[p] = Kin(best[Top], k)
      BY <1>3, <2>2
    <3> DEFINE e == Kin(best[Top], k)
    <3>2. Under(rank, e, Top)
      BY <1>2, <1>9 DEF Ranked, Descends
    <3>3. e \in Ids /\ cost[e] \in Nat /\ cost[root] \in Nat
      BY <1>4, <1>6, ChosenIs
    <3>4. rank[e] \in Nat /\ rank[root] \in Nat /\ rank[Top] \in Nat
      BY <1>2, <1>6, <3>3
    <3>5. Top = root \/ Under(rank, Top, root)
      BY <1>2, <1>6, <1>9 DEF Ranked
    <3> HIDE DEF e
    <3>6. Under(rank, e, root)
      BY <1>2, <3>2, <3>3, <3>4, <3>5, UnderIs
    <3> QED BY <3>1, <3>6 DEF e
  <2> QED BY <1>2, <2>1, <2>2
<1> QED BY <1>1, <1>7, <1>8, <1>9 DEF WalkInv

(* A class is given the next number: its kids have theirs.                    *)
LEMMA EmitLaid ==
    ASSUME Data, Planned, WalkInv, EmitNode, UNCHANGED <<nodes, canon, best>>
    PROVE  Laid' /\ Len(out') = Len(out) + 1 /\ Len(out) \in Nat
<1>1. Walking /\ memo[Top] = 0 /\ Waiting = {} /\ Laid
  BY DEF EmitNode, WalkInv, Walking
<1> DEFINE t == Top
           n == Len(out) + 1
           x == [op |-> Chosen.op, kids |-> [k \in DOMAIN Chosen.kids |-> memo[canon[Chosen.kids[k]]]]]
<1>2. /\ t \in Ids /\ Chooses(t) /\ best[t] \in Index /\ Chosen = nodes[best[t]]
      /\ Waiting = {k \in Many(best[t]) : memo[Kin(best[t], k)] = 0}
  BY <1>1, TopIs
<1>3. memo' = [memo EXCEPT ![t] = n] /\ out' = Append(out, x)
  BY DEF EmitNode
<1>4. x = Entry(t)
  <2>1. DOMAIN nodes[best[t]].kids = Many(best[t])
    BY <1>2, NodeIs
  <2> QED BY <1>2, <2>1, Zenon DEF Entry, Kin
<1> HIDE DEF t, x
<1>5. /\ out \in Seq(OutNode) /\ Len(out) \in Nat /\ memo \in [Ids -> 0 .. Len(out)]
  BY <1>1 DEF Laid
<1>6. \A k \in Many(best[t]) : /\ Kin(best[t], k) \in Ids /\ memo[Kin(best[t], k)] \in 1 .. Len(out)
                               /\ Kin(best[t], k) # t
  <2>1. ASSUME NEW k \in Many(best[t])
        PROVE  Kin(best[t], k) \in Ids /\ memo[Kin(best[t], k)] # 0
    BY <1>1, <1>2, ChosenIs
  <2>2. memo[t] = 0
    BY <1>1 DEF t
  <2> QED BY <1>5, <2>1, <2>2
<1>7. x \in OutNode
  <2>1. nodes[best[t]].op \in Ops /\ Arity[nodes[best[t]].op] \in Nat
    BY <1>2, NodeIs
  <2> DEFINE f == [k \in Many(best[t]) |-> memo[Kin(best[t], k)]]
  <2>2. f \in [1 .. Arity[nodes[best[t]].op] -> Nat]
    BY <1>5, <1>6 DEF Many
  <2>3. f \in Seq(Nat)
    <3> HIDE DEF f
    <3> QED BY <2>1, <2>2, SeqOf
  <2>4. x = [op |-> nodes[best[t]].op, kids |-> f]
    BY <1>4 DEF Entry
  <2> HIDE DEF f
  <2> QED BY <2>1, <2>3, <2>4 DEF OutNode
<1>8. /\ out' \in Seq(OutNode) /\ Len(out') = n /\ out'[n] = x
      /\ \A j \in 1 .. Len(out) : out'[j] = out[j]
  BY <1>3, <1>5, <1>7, AppendIs
<1>9. /\ memo' \in [Ids -> 0 .. Len(out')] /\ memo'[t] = n
      /\ \A c \in Ids \ {t} : memo'[c] = memo[c] /\ memo[c] \in 0 .. Len(out)
  BY <1>2, <1>3, <1>5, <1>8
<1>10. /\ (\A i : Many(i)' = Many(i)) /\ (\A i, k : Kin(i, k)' = Kin(i, k))
       /\ OutNode' = OutNode /\ Ids' = Ids /\ (\A c : Chooses(c)' <=> Chooses(c)) /\ best' = best
  BY DEF Many, Kin, OutNode, Ids, Chooses
<1>11. ASSUME NEW c \in Ids, \A k \in Many(best[c]) : memo'[Kin(best[c], k)] = memo[Kin(best[c], k)]
       PROVE  Entry(c)' = Entry(c)
  <2>1. Entry(c)' = [op |-> nodes[best[c]].op, kids |-> [k \in Many(best[c]) |-> memo'[Kin(best[c], k)]]]
    BY <1>10, Zenon DEF Entry
  <2>2. [k \in Many(best[c]) |-> memo'[Kin(best[c], k)]] = [k \in Many(best[c]) |-> memo[Kin(best[c], k)]]
    BY <1>11
  <2> QED BY <2>1, <2>2, Zenon DEF Entry
<1>12. ASSUME NEW c \in Ids, memo'[c] # 0
       PROVE  /\ Chooses(c) /\ out'[memo'[c]] = Entry(c)'
              /\ \A k \in Many(best[c]) : memo'[Kin(best[c], k)] \in 1 .. memo'[c] - 1
  <2>1. CASE c = t
    <3>1. \A k \in Many(best[c]) : memo'[Kin(best[c], k)] = memo[Kin(best[c], k)]
      BY <1>6, <1>9, <2>1
    <3>2. Entry(c)' = Entry(c)
      BY <1>11, <3>1
    <3>3. \A k \in Many(best[c]) : memo'[Kin(best[c], k)] \in 1 .. n - 1
      BY <1>5, <1>6, <2>1, <3>1
    <3> QED BY <1>2, <1>4, <1>8, <1>9, <2>1, <3>2, <3>3
  <2>2. CASE c # t
    <3>1. memo'[c] = memo[c] /\ memo[c] # 0 /\ memo[c] \in 1 .. Len(out)
      BY <1>5, <1>9, <1>12, <2>2
    <3>2. /\ Chooses(c) /\ out[memo[c]] = Entry(c)
          /\ \A k \in Many(best[c]) : memo[Kin(best[c], k)] \in 1 .. memo[c] - 1
      BY <1>1, <3>1 DEF Laid
    <3>3. \A k \in Many(best[c]) : Kin(best[c], k) \in Ids /\ Kin(best[c], k) # t
      <4>1. memo[t] = 0
        BY <1>1 DEF t
      <4>2. \A k \in Many(best[c]) : Kin(best[c], k) \in Ids
        BY <3>2, ChosenIs
      <4>3. \A k \in Many(best[c]) : memo[Kin(best[c], k)] # 0
        BY <1>5, <3>1, <3>2
      <4> QED BY <4>1, <4>2, <4>3
    <3>4. \A k \in Many(best[c]) : memo'[Kin(best[c], k)] = memo[Kin(best[c], k)]
      BY <1>9, <3>3
    <3>5. Entry(c)' = Entry(c)
      BY <1>11, <3>4
    <3> QED BY <1>8, <3>1, <3>2, <3>4, <3>5
  <2> QED BY <2>1, <2>2
<1>13. \A c, d \in Ids : memo'[c] = memo'[d] /\ memo'[c] # 0 => c = d
  BY <1>1, <1>5, <1>9 DEF Laid
<1>14. \A j \in 1 .. Len(out') : \E c \in Ids : memo'[c] = j
  <2> SUFFICES ASSUME NEW j \in 1 .. Len(out') PROVE \E c \in Ids : memo'[c] = j
    OBVIOUS
  <2>1. CASE j = n
    BY <1>2, <1>9, <2>1 DEF t
  <2>2. CASE j # n
    <3>1. PICK c \in Ids : memo[c] = j
      BY <1>1, <1>5, <1>8, <2>2 DEF Laid
    <3>2. c # t
      BY <1>1, <1>5, <1>8, <3>1 DEF t
    <3> QED BY <1>9, <3>1, <3>2
  <2> QED BY <2>1, <2>2
<1>15. Laid'
  BY <1>8, <1>9, <1>10, <1>12, <1>13, <1>14 DEF Laid
<1> QED BY <1>5, <1>8, <1>15

(* Writing a node keeps the walk's invariant.                                 *)
LEMMA EmitStep ==
    ASSUME Data, Planned, Acyclic, WalkInv, EmitNode, xpc' = xpc,
           UNCHANGED <<nodes, canon, cost, best, root>>
    PROVE  WalkInv'
<1>1. /\ Walking /\ memo[Top] = 0 /\ stack' = Rest /\ Ids' = Ids /\ Laid /\ Stacked
      /\ memo' = [memo EXCEPT ![Top] = Len(out) + 1]
  BY DEF EmitNode, WalkInv, Walking, Ids
<1>2. Laid' /\ Len(out') = Len(out) + 1 /\ Len(out) \in Nat
  BY EmitLaid
<1>3. /\ Len(stack) \in Nat \ {0} /\ Top = stack[Len(stack)] /\ Top \in Ids
      /\ stack' \in Seq(Ids) /\ Len(stack') = Len(stack) - 1
      /\ \A p \in 1 .. Len(stack') : stack'[p] = stack[p]
  BY <1>1, TopIs
<1>4. stack[1] = root /\ memo[root] = 0 /\ memo \in [Ids -> 0 .. Len(out)] /\ root \in Ids
  BY <1>1 DEF Stacked, Walking, Laid
<1>5. \A c : Chooses(c)' <=> Chooses(c)
  BY DEF Chooses
<1>6. stack' # <<>> => stack'[1] = root /\ memo'[root] = 0
  <2> SUFFICES ASSUME stack' # <<>> PROVE stack'[1] = root /\ memo'[root] = 0
    OBVIOUS
  <2>1. Len(stack) \in 2 .. Len(stack)
    BY <1>3
  <2>2. Top # root
    BY <1>1, <1>3, <2>1, RootIsBelow
  <2> QED BY <1>1, <1>3, <1>4, <2>1, <2>2
<1>7. stack' = <<>> => memo'[root] = Len(out') /\ Len(out') # 0
  <2> SUFFICES ASSUME stack' = <<>> PROVE memo'[root] = Len(out') /\ Len(out') # 0
    OBVIOUS
  <2>1. Len(stack) = 1
    BY <1>3
  <2> QED BY <1>1, <1>2, <1>3, <1>4, <2>1
<1>8. Stacked'
  BY <1>1, <1>3, <1>5, <1>6, <1>7 DEF Stacked
<1> QED BY <1>2, <1>8 DEF WalkInv

(* A step of an extraction: the graph is as it was.                           *)
LEMMA ExtractStep ==
    ASSUME WInv, PlanInv, WalkInv, xpc \in XPhases, UNCHANGED vars,
           \/ \E x \in Excludable \cup {NoOp} : Prepare(x)
           \/ \E r \in Ids : ExtractFrom(r)
           \/ Extract \/ PlanFree,
           xpc = "none" => stack = <<>>
    PROVE  PlanInv' /\ WalkInv' /\ xpc' \in XPhases /\ (xpc' = "none" => stack' = <<>>)
<1>1. Data /\ Len(nodes) \in Nat /\ UNCHANGED <<nodes, canon, pc>> /\ Ids' = Ids
  BY GraphFacts DEF WInv, IInv, vars, Ids
<1>2. xpc # "none" => /\ Planned /\ Acyclic /\ xat \in 1 .. Len(nodes) + 1 /\ improved \in BOOLEAN
                      /\ (xpc # "walk" => stack = <<>>)
  BY DEF PlanInv
<1>3. ASSUME NEW x, Prepare(x) PROVE PlanInv' /\ WalkInv' /\ xpc' \in XPhases /\ xpc' # "none"
  <2>1. xpc = "none" /\ xpc' = "plan"
    BY <1>3 DEF Prepare
  <2> QED BY <1>1, <1>3, <2>1, PlanBegins DEF WalkInv, XPhases
<1>4. ASSUME NEW r \in Ids, ExtractFrom(r)
      PROVE  PlanInv' /\ WalkInv' /\ xpc' \in XPhases /\ xpc' # "none"
  <2>1. /\ xpc = "ready" /\ xpc' = "walk" /\ UNCHANGED <<xat, improved, plan>>
    BY <1>4 DEF ExtractFrom
  <2>2. WalkInv' /\ Len(stack') = 1
    BY <1>1, <1>2, <1>4, <2>1, WalkBegins
  <2>3. Settled(Len(nodes))
    BY <2>1 DEF PlanInv
  <2>4. 2 .. Len(stack') = {}
    BY <2>2
  <2>5. PlanInv'
    BY <1>1, <1>2, <2>1, <2>3, <2>4, PlanStands
  <2> QED BY <2>1, <2>2, <2>5 DEF XPhases
<1>5. CASE PlanNode
  <2>1. xpc = "plan" /\ xpc' = "plan"
    BY <1>5 DEF PlanNode
  <2> QED BY <1>1, <1>5, <2>1, PlanNodeStep DEF WalkInv, XPhases
<1>6. CASE PlanRound
  <2>1. /\ xpc = "plan" /\ xat > Len(nodes) /\ xpc' \in {"plan", "ready"} /\ stack' = stack
        /\ UNCHANGED plan
        /\ xpc' = "plan" => improved' = FALSE /\ xat' = 1
        /\ xpc' = "ready" => ~improved /\ UNCHANGED <<xat, improved>>
    BY <1>6 DEF PlanRound
  <2>2. xpc' = "ready" => Settled(Len(nodes))
    <3> SUFFICES ASSUME xpc' = "ready" PROVE Settled(Len(nodes))
      OBVIOUS
    <3>1. Settled(xat - 1)
      BY <2>1 DEF PlanInv
    <3>2. xat - 1 = Len(nodes)
      BY <1>1, <1>2, <2>1
    <3> QED BY <3>1, <3>2
  <2>3. stack' = <<>> /\ 2 .. Len(stack') = {}
    BY <1>2, <2>1
  <2>4. PlanInv'
    <3>1. xat' \in 1 .. Len(nodes) + 1 /\ improved' \in BOOLEAN
      <4>1. CASE xpc' = "plan"
        <5>1. xat' = 1 /\ improved' = FALSE
          BY <2>1, <4>1
        <5>2. xat' \in 1 .. Len(nodes) + 1
          BY <1>1, <5>1
        <5> QED BY <5>1, <5>2, Zenon
      <4>2. CASE xpc' = "ready"
        <5>1. xat' = xat /\ improved' = improved
          BY <2>1, <4>2
        <5> QED BY <1>2, <2>1, <5>1
      <4> QED BY <2>1, <4>1, <4>2
    <3> QED BY <1>1, <2>1, <2>2, <2>3, <3>1, PlanStands
  <2> QED BY <2>1, <2>4 DEF WalkInv, XPhases
<1>7. CASE Walk
  <2>1. /\ xpc = "walk" /\ UNCHANGED <<xpc, xat, improved, plan, root>> /\ Walking
        /\ UNCHANGED <<cost, best>>
    BY <1>7 DEF Walk, Visited, Descend, EmitNode, Walking, plan
  <2>2. Settled(Len(nodes)) /\ Planned /\ Acyclic
    BY <2>1 DEF PlanInv
  <2>3. WalkInv'
    BY <1>1, <1>7, <2>1, <2>2, VisitedStep, DescendStep, EmitStep DEF Walk
  <2>4. ASSUME NEW m \in Nat, NEW rank \in [Ids -> 0 .. m], Ranked(rank)
        PROVE  \A p \in 2 .. Len(stack') : Under(rank, stack'[p], root')
    <3>1. CASE Descend
      BY <1>1, <2>1, <2>2, <2>4, <3>1, DescendStep
    <3>2. CASE Visited \/ EmitNode
      <4>1. /\ Len(stack) \in Nat \ {0} /\ Len(stack') = Len(stack) - 1
            /\ \A p \in 1 .. Len(stack') : stack'[p] = stack[p]
        BY <1>1, <2>1, <2>2, <3>2, TopIs DEF Visited, EmitNode
      <4> QED BY <2>1, <2>4, <4>1 DEF Ranked
    <3> QED BY <1>7, <3>1, <3>2 DEF Walk
  <2>5. PlanInv'
    BY <1>1, <1>2, <2>1, <2>2, <2>4, PlanStands
  <2> QED BY <2>1, <2>3, <2>5 DEF XPhases
<1>8. CASE Delivered
  <2>1. /\ xpc = "walk" /\ xpc' = "ready" /\ UNCHANGED <<xat, improved, plan>> /\ stack' = <<>>
    BY <1>8 DEF Delivered
  <2>2. Settled(Len(nodes))
    BY <2>1 DEF PlanInv
  <2>3. 2 .. Len(stack') = {}
    BY <2>1
  <2>4. PlanInv'
    BY <1>1, <1>2, <2>1, <2>2, <2>3, PlanStands
  <2> QED BY <2>1, <2>4 DEF WalkInv, XPhases
<1>9. CASE PlanFree
  <2>1. xpc' = "none" /\ stack' = <<>>
    BY <1>9 DEF PlanFree, Dropped
  <2> QED BY <2>1 DEF PlanInv, WalkInv, XPhases
<1> QED BY <1>3, <1>4, <1>5, <1>6, <1>7, <1>8, <1>9 DEF Extract

(* An allocation refused to an extraction: nothing but the flag is changed.   *)
LEMMA ExtractRefusedStep ==
    ASSUME WInv, PlanInv, ExtractRefused
    PROVE  WInv' /\ PlanInv' /\ WalkInv' /\ xpc' = "none" /\ stack' = <<>>
<1>1. /\ xpc' = "none" /\ stack' = <<>> /\ oom' = TRUE
      /\ UNCHANGED <<nodes, canon, members, filed, facts, dirty, pc, at, moved, round, means>>
  BY DEF ExtractRefused, Dropped, Refused
<1>2. pc = "idle"
  BY DEF ExtractRefused, PlanInv, Walking
<1>3. Data'
  BY <1>1, GraphFacts, FlagsStep DEF WInv, IInv
<1>4. Control'
  BY <1>1, <1>2 DEF WInv, IInv, Control
<1>5. Whole'
  BY <1>1 DEF Whole
<1> QED BY <1>1, <1>3, <1>4, <1>5 DEF WInv, IInv, PlanInv, WalkInv

(* A step that touches neither keeps the plan's invariant, and the walk's.    *)
LEMMA PlanInvKept ==
    ASSUME UNCHANGED <<nodes, canon, pc, xpc, xat, improved, without, cost, best, root, stack>>, PlanInv
    PROVE  PlanInv'
<1> SUFFICES ASSUME xpc # "none" PROVE PlanInv'
  BY DEF PlanInv
<1>1. /\ Planned' /\ (\A n : Settled(n) => Settled(n)') /\ (\A rank : Descends(rank) => Descends(rank)')
      /\ Ids' = Ids
  BY PlanKept DEF PlanInv, Ids
<1>2. Acyclic'
  <2>1. PICK m \in Nat : \E rank \in [Ids -> 0 .. m] : Ranked(rank)
    BY DEF Acyclic, PlanInv
  <2>2. PICK rank \in [Ids -> 0 .. m] : Ranked(rank)
    BY <2>1
  <2>3. Ranked(rank)'
    BY <1>1, <2>2 DEF Ranked, Under
  <2> QED BY <1>1, <2>3, AcyclicNow
<1> DEFINE n == IF xpc = "plan" THEN IF improved THEN 0 ELSE xat - 1 ELSE Len(nodes)
<1>3. Settled(n)'
  <2>1. n' = n /\ Settled(n)
    BY DEF PlanInv
  <2> HIDE DEF n
  <2> QED BY <1>1, <2>1
<1> QED BY <1>1, <1>2, <1>3 DEF PlanInv

LEMMA WalkInvKept ==
    ASSUME UNCHANGED <<nodes, canon, xpc, best, root, stack, memo, out>>, WalkInv
    PROVE  WalkInv'
<1>1. Ids' = Ids /\ (\A c : Chooses(c)' <=> Chooses(c))
  BY DEF Ids, Chooses
<1> QED BY <1>1, LaidKept DEF WalkInv, Stacked

(* The invariant of the graph and of an extraction from it.                   *)
XInv ==
    /\ WInv /\ PlanInv /\ WalkInv /\ xpc \in XPhases
    /\ xpc = "none" => stack = <<>>

(* The invariant holds at the start and is kept by every step.                *)
LEMMA XInitInv == XInit => XInv
<1> SUFFICES ASSUME XInit PROVE XInv
  OBVIOUS
<1>1. Init /\ xpc = "none" /\ stack = <<>>
  BY DEF XInit
<1> QED BY <1>1, InitInv, InitWhole DEF XInv, WInv, PlanInv, WalkInv, XPhases

LEMMA XStepInv == XInv /\ [XNext]_<<vars, xvars>> => XInv'
<1> SUFFICES ASSUME XInv, [XNext]_<<vars, xvars>> PROVE XInv'
  OBVIOUS
<1>1. WInv /\ PlanInv /\ WalkInv /\ xpc \in XPhases /\ (xpc = "none" => stack = <<>>)
  BY DEF XInv
<1>2. WInv /\ [Next]_vars => WInv'
  BY StepData, StepControl, StepWhole DEF WInv, IInv
<1>3. CASE xpc = "none" /\ Next /\ UNCHANGED xvars
  <2>1. xpc' = "none" /\ stack' = stack
    BY <1>3 DEF xvars
  <2> QED BY <1>1, <1>2, <1>3, <2>1 DEF XInv, PlanInv, WalkInv, XPhases
<1>4. CASE /\ \/ \E x \in Excludable \cup {NoOp} : Prepare(x)
              \/ \E r \in Ids : ExtractFrom(r)
              \/ Extract \/ PlanFree
           /\ UNCHANGED vars
  BY <1>1, <1>2, <1>4, ExtractStep DEF XInv
<1>5. CASE ExtractRefused
  BY <1>1, <1>5, ExtractRefusedStep DEF XInv, XPhases
<1>6. CASE UNCHANGED <<vars, xvars>>
  <2>1. UNCHANGED <<nodes, canon, pc, xpc, xat, improved, without, cost, best, root, stack, memo, out>>
    BY <1>6 DEF vars, xvars
  <2>3. PlanInv'
    BY <1>1, <2>1, PlanInvKept
  <2>4. WalkInv'
    BY <1>1, <2>1, WalkInvKept
  <2> QED BY <1>1, <1>2, <1>6, <2>1, <2>3, <2>4 DEF XInv
<1> QED BY <1>3, <1>4, <1>5, <1>6 DEF XNext

(* Whatever a caller does to the graph and extracts from it, and wherever an  *)
(* allocation is refused, the graph stays whole, the plan stays a plan without *)
(* cycles and the walk writes only what it can: eg_extract_prepare,           *)
(* eg_extract_from.                                                           *)
THEOREM XInvariant == XSpec => []XInv
BY XInitInv, XStepInv, PTL DEF XSpec

-----------------------------------------------------------------------------
(* What a plan that is ready and a walk that is over have to say.             *)

(* A class costs what its node costs, and no node of its own costs less.      *)
LEMMA PricesAre ==
    ASSUME Data, Planned, Settled(Len(nodes)), NEW c \in Ids, Chooses(c)
    PROVE  cost[c] = NodeCost(best[c], cost)
<1>1. /\ best[c] \in Index /\ cost[c] \in Nat
      /\ NodeCost(best[c], cost) \in Nat /\ NodeCost(best[c], cost) <= cost[c]
  BY ChosenIs
<1>2. Candidate(best[c]) /\ canon[nodes[best[c]].cls] = c
  BY DEF Planned
<1>3. ~Better(NodeCost(best[c], cost), cost[c])
  BY <1>1, <1>2 DEF Settled, Index
<1> QED BY <1>1, <1>3 DEF Better, NoCost

(* The class written with a number.                                           *)
Of(j) == CHOOSE c \in Ids : memo[c] = j
Done == xpc = "walk" /\ stack = <<>>

(* What is written for a class.                                               *)
LEMMA EntryIs ==
    ASSUME NEW c
    PROVE  /\ Entry(c).op = nodes[best[c]].op /\ DOMAIN Entry(c).kids = Many(best[c])
           /\ \A k \in Many(best[c]) : Entry(c).kids[k] = memo[Kin(best[c], k)]
BY DEF Entry

(* A walk that is over: each number is a class's, and its kids' came before.  *)
LEMMA DoneIs ==
    ASSUME XInv, Done
    PROVE  /\ Data /\ Planned /\ Settled(Len(nodes)) /\ Len(out) \in Nat \ {0}
           /\ DOMAIN out = 1 .. Len(out)
           /\ root \in Ids /\ memo[root] = Len(out) /\ Of(Len(out)) = root /\ Chooses(root)
           /\ \A j \in 1 .. Len(out) :
                 /\ Of(j) \in Ids /\ Chooses(Of(j)) /\ memo[Of(j)] = j /\ best[Of(j)] \in Index
                 /\ out[j].op = nodes[best[Of(j)]].op
                 /\ DOMAIN out[j].kids = Many(best[Of(j)]) /\ out[j].kids \in Seq(Nat)
                 /\ \A k \in Many(best[Of(j)]) :
                       /\ out[j].kids[k] \in 1 .. j - 1
                       /\ Of(out[j].kids[k]) = Kin(best[Of(j)], k)
<1>1. /\ Data /\ Planned /\ Settled(Len(nodes)) /\ Laid /\ Stacked
  BY DEF XInv, WInv, IInv, PlanInv, WalkInv, Done
<1>2. /\ out \in Seq(OutNode) /\ Len(out) \in Nat /\ DOMAIN out = 1 .. Len(out)
      /\ root \in Ids /\ memo[root] = Len(out) /\ Len(out) # 0 /\ Chooses(root)
      /\ memo \in [Ids -> 0 .. Len(out)]
  BY <1>1 DEF Laid, Stacked, Done
<1>3. ASSUME NEW c \in Ids, memo[c] # 0 PROVE Of(memo[c]) = c
  <2>1. Of(memo[c]) \in Ids /\ memo[Of(memo[c])] = memo[c]
    BY DEF Of
  <2> QED BY <1>1, <1>3, <2>1 DEF Laid
<1>4. ASSUME NEW j \in 1 .. Len(out)
      PROVE  /\ Of(j) \in Ids /\ Chooses(Of(j)) /\ memo[Of(j)] = j /\ best[Of(j)] \in Index
             /\ out[j].op = nodes[best[Of(j)]].op
             /\ DOMAIN out[j].kids = Many(best[Of(j)]) /\ out[j].kids \in Seq(Nat)
             /\ \A k \in Many(best[Of(j)]) :
                   /\ out[j].kids[k] \in 1 .. j - 1
                   /\ Of(out[j].kids[k]) = Kin(best[Of(j)], k)
  <2>1. \E c \in Ids : memo[c] = j
    BY <1>1 DEF Laid
  <2>2. Of(j) \in Ids /\ memo[Of(j)] = j
    BY <2>1 DEF Of
  <2> DEFINE c == Of(j)
             i == best[c]
  <2>3. /\ Chooses(c) /\ out[j] = Entry(c) /\ j # 0
        /\ \A k \in Many(i) : memo[Kin(i, k)] \in 1 .. j - 1
    <3>1. c \in Ids /\ memo[c] = j /\ j # 0
      BY <2>2
    <3>2. \A b \in Ids : memo[b] # 0 =>
             /\ Chooses(b) /\ out[memo[b]] = Entry(b)
             /\ \A k \in Many(best[b]) : memo[Kin(best[b], k)] \in 1 .. memo[b] - 1
      BY <1>1 DEF Laid
    <3> HIDE DEF c
    <3> QED BY <3>1, <3>2
  <2>4. /\ i \in Index /\ \A k \in Many(i) : Kin(i, k) \in Ids
    <3>1. c \in Ids /\ Chooses(c)
      BY <2>2, <2>3
    <3> HIDE DEF c
    <3>2. best[c] \in Index
      BY <1>1, <3>1, ChosenIs
    <3> QED BY <1>1, <3>2, NodeIs
  <2>5. /\ out[j].op = nodes[i].op /\ DOMAIN out[j].kids = Many(i)
        /\ \A k \in Many(i) : out[j].kids[k] = memo[Kin(i, k)]
    <3>1. /\ Entry(c).op = nodes[i].op /\ DOMAIN Entry(c).kids = Many(i)
          /\ \A k \in Many(i) : Entry(c).kids[k] = memo[Kin(i, k)]
      BY EntryIs
    <3> HIDE DEF c, i
    <3> QED BY <2>3, <3>1
  <2>6. out[j].kids \in Seq(Nat)
    <3>1. out[j] \in OutNode
      BY <1>2
    <3> QED BY <3>1 DEF OutNode
  <2> HIDE DEF c, i
  <2>7. \A k \in Many(i) : out[j].kids[k] \in 1 .. j - 1 /\ Of(out[j].kids[k]) = Kin(i, k)
    <3> SUFFICES ASSUME NEW k \in Many(i)
                 PROVE  out[j].kids[k] \in 1 .. j - 1 /\ Of(out[j].kids[k]) = Kin(i, k)
      OBVIOUS
    <3>1. memo[Kin(i, k)] # 0
      BY <2>3
    <3> QED BY <1>3, <2>3, <2>4, <2>5, <3>1
  <2> QED BY <2>2, <2>3, <2>4, <2>5, <2>6, <2>7 DEF c, i
<1>5. Of(Len(out)) = root
  BY <1>2, <1>3
<1> QED BY <1>1, <1>2, <1>4, <1>5

(* A term means what the class it was written for means.                      *)
Denoted(j, f) == Eval(out[j].op, [k \in DOMAIN out[j].kids |-> f[out[j].kids[k]]])

LEMMA ValueIs ==
    ASSUME XInv, Done
    PROVE  \A j \in 1 .. Len(out) : Value[j] = means[Of(j)]
<1> DEFINE n == Len(out)
           v == [j \in 1 .. n |-> means[Of(j)]]
<1>1. /\ Data /\ n \in Nat /\ DOMAIN out = 1 .. n
  BY DoneIs
<1>2. ASSUME NEW j \in 1 .. n PROVE v[j] = Denoted(j, v)
  <2> DEFINE i == best[Of(j)]
  <2>1. /\ i \in Index /\ out[j].op = nodes[i].op /\ DOMAIN out[j].kids = Many(i)
        /\ Of(j) \in Ids /\ Chooses(Of(j))
        /\ \A k \in Many(i) : out[j].kids[k] \in 1 .. j - 1 /\ Of(out[j].kids[k]) = Kin(i, k)
    BY DoneIs
  <2>2. canon[nodes[i].cls] = Of(j) /\ nodes[i].cls \in Ids
    <3>1. canon[nodes[i].cls] = Of(j)
      BY <2>1, DoneIs DEF Planned
    <3> QED BY <1>1, <2>1, <3>1, GraphFacts
  <2>3. means[Of(j)] = Denotes(means, nodes[i].op, nodes[i].kids)
    BY <1>1, <2>1, <2>2 DEF Data, Sound
  <2>4. ASSUME NEW k \in Many(i) PROVE v[out[j].kids[k]] = means[nodes[i].kids[k]]
    <3>1. v[out[j].kids[k]] = means[Kin(i, k)]
      BY <1>1, <2>1
    <3>2. nodes[i].kids[k] \in Ids
      BY <1>1, <2>1, NodeIs
    <3> QED BY <1>1, <3>1, <3>2 DEF Kin, Data, Sound
  <2>5. [k \in DOMAIN out[j].kids |-> v[out[j].kids[k]]] = [k \in 1 .. Arity[nodes[i].op] |-> means[nodes[i].kids[k]]]
    BY <2>1, <2>4 DEF Many
  <2>6. v[j] = means[Of(j)]
    OBVIOUS
  <2> HIDE DEF v, i
  <2> QED BY <2>1, <2>3, <2>5, <2>6 DEF Denotes, Denoted
<1>3. v = [j \in DOMAIN out |-> Denoted(j, v)]
  <2>1. DOMAIN v = DOMAIN out /\ v = [j \in DOMAIN v |-> v[j]]
    BY <1>1
  <2> HIDE DEF v
  <2> QED BY <1>1, <1>2, <2>1
<1> HIDE DEF v
<1>4. Value = [j \in DOMAIN out |-> Denoted(j, Value)]
  <2>1. Value = CHOOSE f : f = [j \in DOMAIN out |-> Denoted(j, f)]
    BY DEF Value, Denoted
  <2> QED BY <1>3, <2>1
<1> DEFINE D == {j \in 1 .. n : Value[j] # v[j]}
<1>5. D = {}
  <2> SUFFICES ASSUME D # {} PROVE FALSE
    OBVIOUS
  <2>1. PICK j \in D : \A l \in D : j <= l
    <3>1. D \in SUBSET Nat
      BY <1>1
    <3> HIDE DEF D
    <3> QED BY <3>1, Least
  <2>2. j \in 1 .. n /\ \A l \in 1 .. j - 1 : Value[l] = v[l]
    BY <1>1, <2>1
  <2>3. \A k \in DOMAIN out[j].kids : out[j].kids[k] \in 1 .. j - 1
    BY <2>2, DoneIs
  <2>4. Denoted(j, Value) = Denoted(j, v)
    BY <2>2, <2>3 DEF Denoted
  <2>5. Value[j] = Denoted(j, Value)
    BY <1>1, <1>4, <2>2
  <2> QED BY <1>2, <2>1, <2>2, <2>4, <2>5
<1>6. \A j \in 1 .. n : v[j] = means[Of(j)]
  BY DEF v
<1> QED BY <1>5, <1>6

(* And costs what that class was priced at.                                   *)
Paid(j, f) == Cost[out[j].op] + Sum([k \in DOMAIN out[j].kids |-> f[out[j].kids[k]]])

LEMMA PriceIs ==
    ASSUME XInv, Done
    PROVE  \A j \in 1 .. Len(out) : Price[j] = cost[Of(j)]
<1> DEFINE n == Len(out)
           v == [j \in 1 .. n |-> cost[Of(j)]]
<1>1. /\ Data /\ n \in Nat /\ DOMAIN out = 1 .. n
  BY DoneIs
<1>2. ASSUME NEW j \in 1 .. n PROVE v[j] = Paid(j, v)
  <2> DEFINE i == best[Of(j)]
  <2>1. /\ i \in Index /\ out[j].op = nodes[i].op /\ DOMAIN out[j].kids = Many(i)
        /\ Of(j) \in Ids /\ Chooses(Of(j))
        /\ \A k \in Many(i) : out[j].kids[k] \in 1 .. j - 1 /\ Of(out[j].kids[k]) = Kin(i, k)
    BY DoneIs
  <2>2. cost[Of(j)] = NodeCost(i, cost) /\ Payable(i, cost) /\ cost \in Prices
    BY <2>1, DoneIs, PricesAre, ChosenIs DEF Planned
  <2>3. cost[Of(j)] = Cost[nodes[i].op] + Sum(Dues(i, cost))
    BY <1>1, <2>1, <2>2, NodeCostIs
  <2>4. \A k \in Many(i) : v[out[j].kids[k]] = cost[Kin(i, k)]
    BY <1>1, <2>1
  <2>5. [k \in DOMAIN out[j].kids |-> v[out[j].kids[k]]] = Dues(i, cost)
    BY <2>1, <2>4 DEF Dues
  <2>6. v[j] = cost[Of(j)]
    OBVIOUS
  <2> HIDE DEF v, i
  <2> QED BY <2>1, <2>3, <2>5, <2>6 DEF Paid
<1>3. v = [j \in DOMAIN out |-> Paid(j, v)]
  <2>1. DOMAIN v = DOMAIN out /\ v = [j \in DOMAIN v |-> v[j]]
    BY <1>1
  <2> HIDE DEF v
  <2> QED BY <1>1, <1>2, <2>1
<1> HIDE DEF v
<1>4. Price = [j \in DOMAIN out |-> Paid(j, Price)]
  <2>1. Price = CHOOSE f : f = [j \in DOMAIN out |-> Paid(j, f)]
    BY DEF Price, Paid
  <2> QED BY <1>3, <2>1
<1> DEFINE D == {j \in 1 .. n : Price[j] # v[j]}
<1>5. D = {}
  <2> SUFFICES ASSUME D # {} PROVE FALSE
    OBVIOUS
  <2>1. PICK j \in D : \A l \in D : j <= l
    <3>1. D \in SUBSET Nat
      BY <1>1
    <3> HIDE DEF D
    <3> QED BY <3>1, Least
  <2>2. j \in 1 .. n /\ \A l \in 1 .. j - 1 : Price[l] = v[l]
    BY <1>1, <2>1
  <2>3. \A k \in DOMAIN out[j].kids : out[j].kids[k] \in 1 .. j - 1
    BY <2>2, DoneIs
  <2>4. [k \in DOMAIN out[j].kids |-> Price[out[j].kids[k]]] = [k \in DOMAIN out[j].kids |-> v[out[j].kids[k]]]
    BY <2>2, <2>3
  <2>5. Paid(j, Price) = Paid(j, v)
    BY <2>4, Zenon DEF Paid
  <2>6. Price[j] = Paid(j, Price)
    BY <1>1, <1>4, <2>2
  <2> QED BY <1>2, <2>1, <2>2, <2>5, <2>6
<1>6. \A j \in 1 .. n : v[j] = cost[Of(j)]
  BY DEF v
<1> QED BY <1>5, <1>6

(* The arrays sized for a walk before it hold what it writes: each class is   *)
(* written once, as the node chosen for it.                                   *)
LEMMA OutFits ==
    ASSUME XInv, Done
    PROVE  Len(out) <= Len(canon) /\ AllKids(out) <= AllKids(nodes)
<1>1. /\ Data /\ Planned /\ Len(out) \in Nat /\ DOMAIN out = 1 .. Len(out)
      /\ \A j \in 1 .. Len(out) :
            /\ Of(j) \in Ids /\ memo[Of(j)] = j /\ Chooses(Of(j)) /\ best[Of(j)] \in Index
            /\ DOMAIN out[j].kids = Many(best[Of(j)]) /\ out[j].kids \in Seq(Nat)
  BY DoneIs
<1>2. Len(canon) \in Nat /\ Len(nodes) \in Nat /\ DOMAIN nodes = 1 .. Len(nodes)
  BY <1>1 DEF Data, Stored
<1>3. Len(out) <= Len(canon)
  <2> DEFINE t == [j \in 1 .. Len(out) |-> Of(j)]
  <2>1. t \in [1 .. Len(out) -> Ids] /\ \A j \in 1 .. Len(out) : t[j] = Of(j)
    BY <1>1
  <2> HIDE DEF t
  <2>2. \A j, l \in 1 .. Len(out) : t[j] = t[l] => j = l
    BY <1>1, <2>1
  <2>3. t \in Injection(1 .. Len(out), Ids)
    BY <2>1, <2>2 DEF Injection, IsInjective
  <2>4. IsFiniteSet(Ids) /\ Cardinality(Ids) = Len(canon)
    BY <1>2, UpTo DEF Ids
  <2>5. Cardinality(1 .. Len(out)) = Len(out)
    BY <1>1, UpTo
  <2>6. Cardinality(1 .. Len(out)) <= Cardinality(Ids)
    BY <2>3, <2>4, FS_Injection
  <2> QED BY <2>4, <2>5, <2>6
<1>4. AllKids(out) <= AllKids(nodes)
  <2> DEFINE f == [j \in 1 .. Len(out) |-> Len(out[j].kids)]
             g == [i \in 1 .. Len(nodes) |-> Len(nodes[i].kids)]
             h == [j \in 1 .. Len(out) |-> best[Of(j)]]
  <2>1. AllKids(out) = Sum(f) /\ AllKids(nodes) = Sum(g)
    BY <1>1, <1>2, Zenon DEF AllKids
  <2>2. \A j \in 1 .. Len(out) : Len(out[j].kids) \in Nat
    BY <1>1
  <2>3. \A i \in 1 .. Len(nodes) : Len(nodes[i].kids) \in Nat
    BY <1>1, NodeIs DEF Index
  <2>4. \A j \in 1 .. Len(out) : best[Of(j)] \in 1 .. Len(nodes)
    BY <1>1 DEF Index
  <2>5. /\ f \in [1 .. Len(out) -> Nat] /\ g \in [1 .. Len(nodes) -> Nat]
        /\ h \in [1 .. Len(out) -> 1 .. Len(nodes)]
    BY <2>2, <2>3, <2>4
  <2>6. ASSUME NEW j \in 1 .. Len(out), NEW l \in 1 .. Len(out), h[j] = h[l] PROVE j = l
    <3>1. best[Of(j)] = best[Of(l)]
      BY <2>6
    <3>2. canon[nodes[best[Of(j)]].cls] = Of(j) /\ canon[nodes[best[Of(l)]].cls] = Of(l)
      BY <1>1 DEF Planned
    <3> QED BY <1>1, <3>1, <3>2
  <2>7. ASSUME NEW j \in 1 .. Len(out) PROVE f[j] <= g[h[j]]
    <3>1. /\ f[j] = Len(out[j].kids) /\ h[j] = best[Of(j)]
          /\ g[best[Of(j)]] = Len(nodes[best[Of(j)]].kids)
      BY <2>4
    <3>2. Len(nodes[best[Of(j)]].kids) = Arity[nodes[best[Of(j)]].op] /\ Arity[nodes[best[Of(j)]].op] \in Nat
      BY <1>1, NodeIs
    <3>3. DOMAIN out[j].kids = 1 .. Arity[nodes[best[Of(j)]].op] /\ out[j].kids \in Seq(Nat)
      BY <1>1 DEF Many
    <3>4. Len(out[j].kids) = Arity[nodes[best[Of(j)]].op]
      BY <3>2, <3>3
    <3> HIDE DEF f, g, h
    <3> QED BY <3>1, <3>2, <3>4
  <2> HIDE DEF f, g, h
  <2>8. Sum(f) <= Sum(g)
    BY <1>1, <1>2, <2>5, <2>6, <2>7, SumGrows
  <2> QED BY <2>1, <2>8
<1> QED BY <1>3, <1>4

(* What eg_extract_from hands out is laid out kids first, fits the arrays sized *)
(* for it, has the excluded operator nowhere, denotes what its root denotes and *)
(* costs what the plan said.                                                  *)
THEOREM ExtractionIsRight == XSpec => []Extracted
<1>1. ASSUME XInv PROVE Extracted
  <2> SUFFICES ASSUME Done
               PROVE  /\ \A j \in DOMAIN out : \A k \in DOMAIN out[j].kids : out[j].kids[k] \in 1 .. j - 1
                      /\ Len(out) <= Len(canon)
                      /\ AllKids(out) <= AllKids(nodes)
                      /\ \A j \in DOMAIN out : out[j].op # without
                      /\ memo[root] = Len(out)
                      /\ Value[Len(out)] = means[root]
                      /\ Price[Len(out)] = cost[root]
    BY DEF Extracted, Done
  <2>1. /\ Planned /\ Len(out) \in 1 .. Len(out) /\ DOMAIN out = 1 .. Len(out)
        /\ memo[root] = Len(out) /\ Of(Len(out)) = root
    BY <1>1, DoneIs
  <2>2. ASSUME NEW j \in 1 .. Len(out)
        PROVE  /\ \A k \in DOMAIN out[j].kids : out[j].kids[k] \in 1 .. j - 1
               /\ out[j].op # without
    <3>1. /\ DOMAIN out[j].kids = Many(best[Of(j)])
          /\ \A k \in Many(best[Of(j)]) : out[j].kids[k] \in 1 .. j - 1
          /\ out[j].op = nodes[best[Of(j)]].op /\ Of(j) \in Ids /\ Chooses(Of(j))
      BY <1>1, DoneIs
    <3>2. Candidate(best[Of(j)])
      BY <2>1, <3>1 DEF Planned
    <3> QED BY <3>1, <3>2 DEF Candidate
  <2>3. Value[Len(out)] = means[root] /\ Price[Len(out)] = cost[root]
    BY <1>1, <2>1, ValueIs, PriceIs
  <2> QED BY <1>1, <2>1, <2>2, <2>3, OutFits
<1> QED BY <1>1, XInvariant, PTL

-----------------------------------------------------------------------------
(* That a plan which is ready is the reference: the tables of the cheapest    *)
(* terms no deeper than d, one after the other.                               *)

(* Prices as a table, what the nodes of a class cost at them, and the prices  *)
(* of the next table.                                                         *)
Chart(g) == {<<c, g[c]>> : c \in {b \in Ids : g[b] # NoCost}}
Bids(c, g) == {NodeCost(i, g) : i \in {n \in Index :
    Candidate(n) /\ canon[nodes[n].cls] = c /\ NodeCost(n, g) # NoCost}}
Deeper(g) == [c \in Ids |-> IF Bids(c, g) = {} THEN NoCost ELSE Lowest(Bids(c, g))]
Sheet(prices) == {<<c, Lowest(Offers(c, prices))>> : c \in {b \in Ids : Offers(b, prices) # {}}}

(* A table looked up.                                                         *)
LEMMA ChartIs ==
    ASSUME NEW g, NEW c \in Ids
    PROVE  /\ (\E pr \in Chart(g) : pr[1] = c) <=> g[c] # NoCost
           /\ g[c] # NoCost => (CHOOSE pr \in Chart(g) : pr[1] = c)[2] = g[c]
<1>1. \A pr \in Chart(g) : pr = <<pr[1], g[pr[1]]>> /\ g[pr[1]] # NoCost
  BY DEF Chart
<1>2. g[c] # NoCost => <<c, g[c]>> \in Chart(g) /\ <<c, g[c]>>[1] = c
  BY DEF Chart
<1>3. (\E pr \in Chart(g) : pr[1] = c) <=> g[c] # NoCost
  BY <1>1, <1>2
<1>4. ASSUME g[c] # NoCost PROVE (CHOOSE pr \in Chart(g) : pr[1] = c)[2] = g[c]
  <2> DEFINE pr == CHOOSE q \in Chart(g) : q[1] = c
  <2>1. pr \in Chart(g) /\ pr[1] = c
    BY <1>3, <1>4
  <2> HIDE DEF pr
  <2>2. pr = <<c, g[c]>>
    BY <1>1, <2>1
  <2>3. pr[2] = g[c]
    BY <2>2
  <2> QED BY <2>3 DEF pr
<1> QED BY <1>3, <1>4

(* What a class is offered from a table is what its nodes cost at its prices. *)
LEMMA OffersAre ==
    ASSUME Data, NEW g \in Prices, NEW c \in Ids
    PROVE  Offers(c, Chart(g)) = Bids(c, g)
<1> DEFINE P == {n \in Index : /\ Candidate(n) /\ canon[nodes[n].cls] = c
                               /\ \A k \in DOMAIN nodes[n].kids :
                                     \E pr \in Chart(g) : pr[1] = canon[nodes[n].kids[k]]}
           Q == {n \in Index : Candidate(n) /\ canon[nodes[n].cls] = c /\ NodeCost(n, g) # NoCost}
           offer(i) == Cost[nodes[i].op] + Sum([k \in DOMAIN nodes[i].kids |-> Below(Chart(g), i, k)])
<1>1. ASSUME NEW i \in Index
      PROVE  (\A k \in DOMAIN nodes[i].kids : \E pr \in Chart(g) : pr[1] = canon[nodes[i].kids[k]])
                <=> NodeCost(i, g) # NoCost
  <2>1. DOMAIN nodes[i].kids = Many(i) /\ \A k \in Many(i) : Kin(i, k) \in Ids
    BY NodeIs
  <2>2. (\A k \in DOMAIN nodes[i].kids : \E pr \in Chart(g) : pr[1] = canon[nodes[i].kids[k]])
           <=> \A k \in Many(i) : \E pr \in Chart(g) : pr[1] = Kin(i, k)
    BY <2>1 DEF Kin
  <2>3. (\A k \in Many(i) : \E pr \in Chart(g) : pr[1] = Kin(i, k)) <=> Payable(i, g)
    BY <2>1, ChartIs DEF Payable
  <2>4. Payable(i, g) <=> NodeCost(i, g) # NoCost
    BY NodeCostIs DEF NoCost
  <2> QED BY <2>2, <2>3, <2>4
<1>2. P = Q
  BY <1>1
<1>3. ASSUME NEW i \in Q PROVE offer(i) = NodeCost(i, g)
  <2>1. i \in Index /\ NodeCost(i, g) # NoCost
    OBVIOUS
  <2>2. Payable(i, g)
    BY <2>1, NodeCostIs
  <2>3. DOMAIN nodes[i].kids = Many(i) /\ \A k \in Many(i) : Kin(i, k) \in Ids
    BY <2>1, NodeIs
  <2>4. ASSUME NEW k \in Many(i) PROVE Below(Chart(g), i, k) = g[Kin(i, k)]
    <3>1. Kin(i, k) \in Ids /\ g[Kin(i, k)] # NoCost
      BY <2>2, <2>3 DEF Payable
    <3>2. (CHOOSE pr \in Chart(g) : pr[1] = Kin(i, k))[2] = g[Kin(i, k)]
      BY <3>1, ChartIs
    <3> QED BY <3>2, Zenon DEF Below, Kin
  <2>5. [k \in DOMAIN nodes[i].kids |-> Below(Chart(g), i, k)] = Dues(i, g)
    BY <2>3, <2>4 DEF Dues
  <2>6. NodeCost(i, g) = Cost[nodes[i].op] + Sum(Dues(i, g))
    BY <2>1, <2>2, NodeCostIs
  <2> QED BY <2>5, <2>6
<1>4. Offers(c, Chart(g)) = {offer(i) : i \in P}
  BY Zenon DEF Offers
<1>5. Bids(c, g) = {NodeCost(i, g) : i \in Q}
  BY Zenon DEF Bids
<1> HIDE DEF P, Q, offer
<1> QED BY <1>2, <1>3, <1>4, <1>5

(* Of the bids there are, one is the lowest.                                  *)
LEMMA BidsAre ==
    ASSUME Data, NEW g \in Prices, NEW c \in Ids
    PROVE  /\ Bids(c, g) \in SUBSET Nat
           /\ Bids(c, g) # {} => /\ Lowest(Bids(c, g)) \in Bids(c, g)
                                 /\ \A p \in Bids(c, g) : Lowest(Bids(c, g)) <= p
<1>1. Bids(c, g) \in SUBSET Nat
  <2>1. \A i \in Index : NodeCost(i, g) # NoCost => NodeCost(i, g) \in Nat
    BY NodeCostIs
  <2> QED BY <2>1 DEF Bids
<1>2. ASSUME Bids(c, g) # {}
      PROVE  /\ Lowest(Bids(c, g)) \in Bids(c, g)
             /\ \A p \in Bids(c, g) : Lowest(Bids(c, g)) <= p
  <2>1. \E p \in Bids(c, g) : \A q \in Bids(c, g) : p <= q
    BY <1>1, <1>2, Least
  <2> QED BY <2>1 DEF Lowest
<1> QED BY <1>1, <1>2

(* The next table is that of the next prices.                                 *)
LEMMA DeeperIs ==
    ASSUME Data, NEW g \in Prices
    PROVE  Deeper(g) \in Prices /\ Sheet(Chart(g)) = Chart(Deeper(g))
<1>1. \A c \in Ids : Bids(c, g) \in SUBSET Nat
                     /\ (Bids(c, g) # {} => Lowest(Bids(c, g)) \in Nat)
  BY BidsAre
<1>2. Deeper(g) \in Prices
  BY <1>1 DEF Deeper, Prices
<1>3. \A c \in Ids : /\ Offers(c, Chart(g)) # {} <=> Deeper(g)[c] # NoCost
                     /\ Deeper(g)[c] # NoCost => Lowest(Offers(c, Chart(g))) = Deeper(g)[c]
  <2> SUFFICES ASSUME NEW c \in Ids
               PROVE  /\ Offers(c, Chart(g)) # {} <=> Deeper(g)[c] # NoCost
                      /\ Deeper(g)[c] # NoCost => Lowest(Offers(c, Chart(g))) = Deeper(g)[c]
    OBVIOUS
  <2>1. Offers(c, Chart(g)) = Bids(c, g)
    BY OffersAre
  <2>2. Deeper(g)[c] = IF Bids(c, g) = {} THEN NoCost ELSE Lowest(Bids(c, g))
    BY DEF Deeper
  <2>3. Bids(c, g) # {} => Lowest(Bids(c, g)) # NoCost
    BY <1>1 DEF NoCost
  <2> QED BY <2>1, <2>2, <2>3
<1>4. Sheet(Chart(g)) = Chart(Deeper(g))
  <2> DEFINE T == Chart(g)
             D == Deeper(g)
  <2>1. \A c \in Ids : /\ Offers(c, T) # {} <=> D[c] # NoCost
                       /\ D[c] # NoCost => Lowest(Offers(c, T)) = D[c]
    BY <1>3
  <2> HIDE DEF T, D
  <2>2. Sheet(T) = {<<c, Lowest(Offers(c, T))>> : c \in {b \in Ids : Offers(b, T) # {}}}
    BY DEF Sheet
  <2>3. Chart(D) = {<<c, D[c]>> : c \in {b \in Ids : D[b] # NoCost}}
    BY DEF Chart
  <2>4. Sheet(T) = Chart(D)
    BY <2>1, <2>2, <2>3
  <2> QED BY <2>4 DEF T, D
<1> QED BY <1>2, <1>4

(* The tables no deeper than d, each made from the one before.                *)
Leaf(d, f) == IF d = 0 THEN {} ELSE Sheet(f[d - 1])

(* The reference's recursion has a solution, which is the reference.          *)
LEMMA TablesExist ==
    ASSUME NEW n \in Nat
    PROVE  \E f : f = [d \in 0 .. n |-> Leaf(d, f)]
<1> DEFINE Exists(m) == \E f : f = [d \in 0 .. m |-> Leaf(d, f)]
           D == {m \in Nat : ~Exists(m)}
<1>1. ASSUME D # {} PROVE FALSE
  <2>1. PICK m \in D : \A e \in D : m <= e
    <3>1. D \in SUBSET Nat
      OBVIOUS
    <3> HIDE DEF D
    <3> QED BY <1>1, <3>1, Least
  <2>2. m \in Nat /\ ~Exists(m)
    OBVIOUS
  <2>3. CASE m = 0
    <3> DEFINE f == [d \in 0 .. m |-> {}]
    <3>1. \A d \in 0 .. m : Leaf(d, f) = {}
      BY <2>3 DEF Leaf
    <3>2. f = [d \in 0 .. m |-> Leaf(d, f)]
      <4>1. [d \in 0 .. m |-> Leaf(d, f)] = [d \in 0 .. m |-> {}]
        BY <3>1
      <4> QED BY <4>1
    <3> HIDE DEF f
    <3> QED BY <2>2, <3>2
  <2>4. CASE m # 0
    <3>1. m - 1 \in Nat /\ ~(m <= m - 1)
      BY <2>2, <2>4
    <3>2. Exists(m - 1)
      <4> HIDE DEF Exists
      <4> QED BY <2>1, <3>1
    <3>3. PICK g : g = [d \in 0 .. m - 1 |-> Leaf(d, g)]
      BY <3>2
    <3> DEFINE f == [d \in 0 .. m |-> IF d = m THEN Sheet(g[m - 1]) ELSE g[d]]
    <3>4. ASSUME NEW d \in 0 .. m PROVE f[d] = Leaf(d, f)
      <4>1. CASE d = m
        <5>1. f[d] = Sheet(g[m - 1]) /\ f[d - 1] = g[m - 1]
          BY <2>2, <2>4, <4>1
        <5> HIDE DEF f
        <5> QED BY <2>4, <4>1, <5>1 DEF Leaf
      <4>2. CASE d # m
        <5>1. d \in 0 .. m - 1 /\ (d # 0 => d - 1 \in 0 .. m - 1 /\ d - 1 # m)
          BY <2>2, <4>2
        <5>2. g[d] = Leaf(d, g)
          BY <3>3, <5>1
        <5>3. f[d] = g[d] /\ (d # 0 => f[d - 1] = g[d - 1])
          BY <2>2, <4>2, <5>1
        <5> HIDE DEF f
        <5> QED BY <5>2, <5>3 DEF Leaf
      <4> QED BY <4>1, <4>2
    <3>5. f = [d \in 0 .. m |-> f[d]]
      OBVIOUS
    <3> HIDE DEF f
    <3>6. f = [d \in 0 .. m |-> Leaf(d, f)]
      BY <3>4, <3>5
    <3> QED BY <2>2, <3>6
  <2> QED BY <2>3, <2>4
<1>2. n \notin D
  BY <1>1
<1> QED BY <1>2

LEMMA TablesAre ==
    ASSUME Len(canon) \in Nat
    PROVE  /\ CheapestTo[0] = {}
           /\ \A d \in 1 .. Len(canon) : CheapestTo[d] = Sheet(CheapestTo[d - 1])
<1> DEFINE n == Len(canon)
           C == CheapestTo
<1>1. C = CHOOSE f : f = [d \in 0 .. n |-> Leaf(d, f)]
  BY DEF CheapestTo, Leaf, Sheet
<1>2. C = [d \in 0 .. n |-> Leaf(d, C)]
  <2>1. \E f : f = [d \in 0 .. n |-> Leaf(d, f)]
    BY TablesExist
  <2> HIDE DEF C
  <2> QED BY <1>1, <2>1
<1> HIDE DEF C
<1>3. \A d \in 0 .. n : C[d] = Leaf(d, C)
  BY <1>2
<1>4. C[0] = {} /\ \A d \in 1 .. n : C[d] = Sheet(C[d - 1])
  BY <1>3 DEF Leaf
<1> QED BY <1>4 DEF C

(* The classes a term of c is made of: itself, and those priced before it.    *)
Within(rank, c) == {e \in Ids : Chooses(e) /\ (e = c \/ Under(rank, e, c))}
Depth(rank, c) == Cardinality(Within(rank, c))

(* A class is deeper than the kids of its node, and no deeper than there are  *)
(* classes.                                                                   *)
LEMMA DepthIs ==
    ASSUME Data, Planned, NEW m \in Nat, NEW rank \in [Ids -> 0 .. m], Descends(rank),
           NEW c \in Ids, Chooses(c)
    PROVE  /\ Depth(rank, c) \in Nat \ {0} /\ Depth(rank, c) <= Len(canon)
           /\ \A k \in Many(best[c]) : /\ Depth(rank, Kin(best[c], k)) \in Nat
                                       /\ Depth(rank, Kin(best[c], k)) < Depth(rank, c)
<1>1. Len(canon) \in Nat /\ IsFiniteSet(Ids) /\ Cardinality(Ids) = Len(canon)
  BY UpTo DEF Data, Stored, Ids
<1>2. ASSUME NEW e \in Ids, Chooses(e)
      PROVE  /\ Within(rank, e) \subseteq Ids /\ e \in Within(rank, e)
             /\ IsFiniteSet(Within(rank, e)) /\ Depth(rank, e) \in Nat
             /\ Depth(rank, e) <= Len(canon) /\ Depth(rank, e) # 0
  <2>1. Within(rank, e) \subseteq Ids /\ e \in Within(rank, e)
    BY <1>2 DEF Within
  <2>2. IsFiniteSet(Within(rank, e)) /\ Depth(rank, e) <= Len(canon)
    BY <1>1, <2>1, FS_Subset DEF Depth
  <2>3. Depth(rank, e) \in Nat
    BY <2>2, FS_CardinalityType DEF Depth
  <2>4. Depth(rank, e) # 0
    BY <2>1, <2>2, FS_EmptySet DEF Depth
  <2> QED BY <2>1, <2>2, <2>3, <2>4
<1>3. ASSUME NEW k \in Many(best[c])
      PROVE  Depth(rank, Kin(best[c], k)) \in Nat /\ Depth(rank, Kin(best[c], k)) < Depth(rank, c)
  <2>1. PICK e \in Ids : e = Kin(best[c], k) /\ Chooses(e)
    BY ChosenIs
  <2>2. Under(rank, e, c)
    BY <2>1 DEF Descends
  <2>3. \A b \in Ids : Chooses(b) => cost[b] \in Nat /\ rank[b] \in Nat
    BY ChosenIs
  <2>4. Within(rank, e) \subseteq Within(rank, c)
    <3> SUFFICES ASSUME NEW b \in Within(rank, e) PROVE b \in Within(rank, c)
      OBVIOUS
    <3>1. b \in Ids /\ Chooses(b) /\ (b = e \/ Under(rank, b, e))
      BY DEF Within
    <3>2. Under(rank, b, c)
      <4>1. \A d \in {b, e, c} : cost[d] \in Nat /\ rank[d] \in Nat
        BY <2>1, <2>3, <3>1
      <4> QED BY <2>2, <3>1, <4>1, UnderIs
    <3> QED BY <3>1, <3>2 DEF Within
  <2>5. c \notin Within(rank, e)
    <3> SUFFICES ASSUME c \in Within(rank, e) PROVE FALSE
      OBVIOUS
    <3>1. c = e \/ Under(rank, c, e)
      BY DEF Within
    <3>2. \A d \in {c, e} : cost[d] \in Nat /\ rank[d] \in Nat
      BY <2>1, <2>3
    <3>3. Under(rank, c, c)
      BY <2>2, <3>1, <3>2, UnderIs
    <3> QED BY <3>2, <3>3, UnderIs
  <2>6. Within(rank, e) # Within(rank, c)
    BY <1>2, <2>5
  <2>7. Depth(rank, e) <= Depth(rank, c) /\ Depth(rank, e) # Depth(rank, c)
    BY <1>2, <2>4, <2>6, FS_Subset DEF Depth
  <2> QED BY <1>2, <2>1, <2>7
<1> QED BY <1>1, <1>2, <1>3

(* The table of depth d, as prices: none below the plan's, and those of the   *)
(* classes whose term is no deeper than d.                                    *)
Charted(d, rank) == \E g \in Prices :
    /\ CheapestTo[d] = Chart(g)
    /\ Fell(g, cost)
    /\ \A c \in Ids : Chooses(c) /\ Depth(rank, c) <= d => g[c] # NoCost /\ g[c] <= cost[c]

(* The first table, the next one, and the last, which is the plan.            *)
LEMMA ChartedFirst ==
    ASSUME Data, Planned, NEW m \in Nat, NEW rank \in [Ids -> 0 .. m], Descends(rank)
    PROVE  Charted(0, rank)
<1> DEFINE g == [c \in Ids |-> NoCost]
<1>1. Len(canon) \in Nat
  BY DEF Data, Stored
<1>2. g \in Prices /\ \A c \in Ids : g[c] = NoCost
  BY DEF Prices
<1> HIDE DEF g
<1>3. Chart(g) = {}
  BY <1>2 DEF Chart
<1>4. CheapestTo[0] = Chart(g)
  BY <1>1, <1>3, TablesAre
<1>5. \A c \in Ids : Chooses(c) => ~(Depth(rank, c) <= 0)
  BY DepthIs
<1> QED BY <1>2, <1>4, <1>5 DEF Charted, Fell

LEMMA ChartedNext ==
    ASSUME Data, Planned, Settled(Len(nodes)),
           NEW m \in Nat, NEW rank \in [Ids -> 0 .. m], Descends(rank),
           NEW d \in 1 .. Len(canon), Charted(d - 1, rank)
    PROVE  Charted(d, rank)
<1>1. PICK g \in Prices :
         /\ CheapestTo[d - 1] = Chart(g)
         /\ Fell(g, cost)
         /\ \A c \in Ids : Chooses(c) /\ Depth(rank, c) <= d - 1 => g[c] # NoCost /\ g[c] <= cost[c]
  BY DEF Charted
<1> DEFINE h == Deeper(g)
<1>2. h \in Prices /\ CheapestTo[d] = Chart(h)
  <2>1. Len(canon) \in Nat
    BY DEF Data, Stored
  <2>2. CheapestTo[d] = Sheet(Chart(g))
    BY <1>1, <2>1, TablesAre
  <2> QED BY <2>2, DeeperIs
<1>3. \A c \in Ids : h[c] = IF Bids(c, g) = {} THEN NoCost ELSE Lowest(Bids(c, g))
  BY DEF Deeper
<1>4. cost \in Prices
  BY DEF Planned
<1> HIDE DEF h
<1>5. ASSUME NEW c \in Ids, h[c] # NoCost PROVE cost[c] # NoCost /\ cost[c] <= h[c]
  <2>1. h[c] \in Bids(c, g)
    BY <1>3, <1>5, BidsAre
  <2>2. PICK i \in Index : /\ Candidate(i) /\ canon[nodes[i].cls] = c
                           /\ NodeCost(i, g) # NoCost /\ h[c] = NodeCost(i, g)
    BY <2>1 DEF Bids
  <2>3. NodeCost(i, cost) # NoCost /\ NodeCost(i, cost) <= NodeCost(i, g)
    BY <1>1, <1>4, <2>2, PricesFall
  <2>4. ~Better(NodeCost(i, cost), cost[c])
    BY <2>2 DEF Settled, Index
  <2>5. cost[c] # NoCost /\ ~(NodeCost(i, cost) < cost[c])
    BY <2>3, <2>4 DEF Better
  <2>6. NodeCost(i, cost) \in Nat /\ cost[c] \in Nat /\ NodeCost(i, g) \in Nat
    BY <1>4, <2>2, <2>3, <2>5, NodeCostIs DEF Prices
  <2> QED BY <2>2, <2>3, <2>5, <2>6
<1>6. ASSUME NEW c \in Ids, Chooses(c), Depth(rank, c) <= d PROVE h[c] # NoCost /\ h[c] <= cost[c]
  <2>1. /\ best[c] \in Index /\ cost[c] \in Nat
        /\ NodeCost(best[c], cost) \in Nat /\ NodeCost(best[c], cost) <= cost[c]
        /\ \A k \in Many(best[c]) : Kin(best[c], k) \in Ids /\ Chooses(Kin(best[c], k))
    BY <1>6, ChosenIs
  <2>2. Candidate(best[c]) /\ canon[nodes[best[c]].cls] = c /\ NodeCost(best[c], cost) # NoCost
    BY <1>6 DEF Planned
  <2>3. \A k \in Many(best[c]) : g[Kin(best[c], k)] # NoCost /\ g[Kin(best[c], k)] <= cost[Kin(best[c], k)]
    <3> SUFFICES ASSUME NEW k \in Many(best[c])
                 PROVE  g[Kin(best[c], k)] # NoCost /\ g[Kin(best[c], k)] <= cost[Kin(best[c], k)]
      OBVIOUS
    <3>1. /\ Depth(rank, c) \in Nat /\ Depth(rank, Kin(best[c], k)) \in Nat
          /\ Depth(rank, Kin(best[c], k)) < Depth(rank, c)
      BY <1>6, DepthIs
    <3>2. Depth(rank, Kin(best[c], k)) <= d - 1
      <4> DEFINE low == Depth(rank, Kin(best[c], k))
                 high == Depth(rank, c)
      <4>1. low \in Nat /\ high \in Nat /\ low < high /\ high <= d /\ d \in Int
        BY <1>6, <3>1
      <4> HIDE DEF low, high
      <4>2. low <= d - 1
        BY <4>1
      <4> QED BY <4>2 DEF low
    <3> QED BY <1>1, <2>1, <3>2
  <2>4. NodeCost(best[c], g) # NoCost /\ NodeCost(best[c], g) <= NodeCost(best[c], cost)
    BY <1>4, <2>1, <2>2, <2>3, NodeCostFalls
  <2>5. NodeCost(best[c], g) \in Bids(c, g)
    BY <2>1, <2>2, <2>4 DEF Bids
  <2>6. /\ Bids(c, g) \in SUBSET Nat /\ h[c] \in Bids(c, g) /\ h[c] <= NodeCost(best[c], g)
    BY <1>3, <2>5, BidsAre
  <2>7. h[c] \in Nat /\ NodeCost(best[c], g) \in Nat
    BY <2>5, <2>6
  <2> QED BY <2>1, <2>4, <2>6, <2>7 DEF NoCost
<1> QED BY <1>2, <1>5, <1>6 DEF Charted, Fell

LEMMA PlanIsTheTable ==
    ASSUME Data, Planned, Settled(Len(nodes)), Acyclic
    PROVE  Chart(cost) = CheapestTo[Len(canon)]
<1>1. PICK m \in Nat : \E rank \in [Ids -> 0 .. m] : Ranked(rank)
  BY DEF Acyclic
<1>2. PICK rank \in [Ids -> 0 .. m] : Descends(rank)
  BY <1>1 DEF Ranked
<1>3. Len(canon) \in Nat
  BY DEF Data, Stored
<1> DEFINE D == {d \in 0 .. Len(canon) : ~Charted(d, rank)}
<1>4. ASSUME D # {} PROVE FALSE
  <2>1. PICK d \in D : \A e \in D : d <= e
    <3>1. D \in SUBSET Nat
      BY <1>3
    <3> HIDE DEF D
    <3> QED BY <1>4, <3>1, Least
  <2>2. d \in 0 .. Len(canon) /\ ~Charted(d, rank)
    OBVIOUS
  <2>3. d # 0
    BY <1>2, <2>2, ChartedFirst
  <2>4. d \in 1 .. Len(canon) /\ d - 1 \in 0 .. Len(canon) /\ ~(d <= d - 1)
    BY <1>3, <2>2, <2>3
  <2>5. Charted(d - 1, rank)
    BY <2>1, <2>4
  <2> QED BY <1>2, <2>2, <2>4, <2>5, ChartedNext
<1>5. Charted(Len(canon), rank)
  <2>1. Len(canon) \in 0 .. Len(canon)
    BY <1>3
  <2> QED BY <1>4, <2>1
<1>6. PICK g \in Prices :
         /\ CheapestTo[Len(canon)] = Chart(g)
         /\ Fell(g, cost)
         /\ \A c \in Ids : Chooses(c) /\ Depth(rank, c) <= Len(canon) => g[c] # NoCost /\ g[c] <= cost[c]
  BY <1>5 DEF Charted
<1>7. ASSUME NEW c \in Ids PROVE g[c] = cost[c]
  <2>1. cost \in Prices /\ (Chooses(c) <=> cost[c] # NoCost)
    BY DEF Planned
  <2>2. CASE cost[c] = NoCost
    BY <1>6, <2>2 DEF Fell
  <2>3. CASE cost[c] # NoCost
    <3>1. Depth(rank, c) <= Len(canon)
      BY <1>2, <1>3, <2>1, <2>3, DepthIs
    <3>2. g[c] # NoCost /\ g[c] <= cost[c]
      BY <1>6, <2>1, <2>3, <3>1
    <3>3. cost[c] <= g[c]
      BY <1>6, <3>2 DEF Fell
    <3>4. g[c] \in Nat /\ cost[c] \in Nat
      BY <1>6, <2>1, <2>3, <3>2 DEF Prices
    <3> QED BY <3>2, <3>3, <3>4
  <2> QED BY <2>2, <2>3
<1>8. g = cost
  BY <1>6, <1>7 DEF Prices, Planned
<1> QED BY <1>6, <1>8

(* eg_extract_prepare prices every class at its cheapest finite term, and no  *)
(* class that has none, whatever the costs, the exclusion and the cycles.     *)
THEOREM PlanIsCheapest == XSpec => []Cheapest
<1>1. ASSUME XInv PROVE Cheapest
  <2> SUFFICES ASSUME xpc = "ready"
               PROVE  {<<c, cost[c]>> : c \in {b \in Ids : cost[b] # NoCost}} = CheapestTo[Len(canon)]
    BY DEF Cheapest
  <2>1. Data /\ Planned /\ Settled(Len(nodes)) /\ Acyclic
    BY <1>1 DEF XInv, WInv, IInv, PlanInv
  <2> QED BY <2>1, PlanIsTheTable, Zenon DEF Chart
<1> QED BY <1>1, XInvariant, PTL
=============================================================================
