------------------------------- MODULE EGraph -------------------------------
(* The e-graph a generated rewriter saturates over: interning, merging, the   *)
(* repair that restores congruence and the facts an e-class analysis keeps,   *)
(* with any allocation refused.                                               *)
(*                                                                            *)
(* An operator stands for op and data together, which are only ever compared. *)
(* The union-find forest is kept as the map from a class id to its root,      *)
(* which halving a path does not change; the hashcons as the set of nodes     *)
(* filed in it, since a bucket's chain is searched for an equal key.          *)
EXTENDS Naturals, Sequences, FiniteSets

CONSTANTS
    Ops, Arity,             \* the consumer's operators
    Meaning, Eval(_, _),    \* what terms denote; the graph never looks
    Fact, Make(_, _), Join(_, _), Implied(_),   \* the installed analysis
    Holds(_, _),            \* a fact about a meaning
    MaxNodes,               \* the node budget of the caller
    FactRounds              \* analysis_restore's bound

VARIABLES
    nodes,      \* op, kids, class and whether it is live
    canon,      \* eg_find of every class handed out
    members,    \* the node indices each class lists
    filed,      \* the nodes in the hashcons
    facts,      \* the fact of each class
    dirty,      \* the worklist is not empty
    oom,
    pc,         \* what eg_add, eg_rebuild is doing
    at,         \* the node or class it has come to
    moved,      \* a fact changed in this round
    round,
    means       \* ghost: what the term a class was made for denotes

vars == <<nodes, canon, members, filed, facts, dirty, oom, pc, at, moved, round, means>>
control == <<pc, at, moved, round>>

Ids == 1 .. Len(canon)
Index == 1 .. Len(nodes)
Node == [op : Ops, kids : Seq(Nat), cls : Nat, live : BOOLEAN]
Phases == {"idle", "added", "again", "sweep", "facts", "modify"}

(* The caller's contract: make, join and modify's constant say only what is   *)
(* so, and the constant has no children.                                      *)
ASSUME EGraphAssumption ==
    /\ Arity \in [Ops -> Nat]
    /\ MaxNodes \in Nat /\ FactRounds \in Nat
    /\ \A o \in Ops : \A vs \in [1 .. Arity[o] -> Meaning] : Eval(o, vs) \in Meaning
    /\ \A o \in Ops : \A fs \in [1 .. Arity[o] -> Fact] : Make(o, fs) \in Fact
    /\ \A f, g \in Fact : Join(f, g) \in Fact
    /\ \A f \in Fact : Implied(f) \subseteq {o \in Ops : Arity[o] = 0}

ASSUME AnalysisAssumption ==
    /\ \A o \in Ops : \A fs \in [1 .. Arity[o] -> Fact], vs \in [1 .. Arity[o] -> Meaning] :
          (\A k \in 1 .. Arity[o] : Holds(fs[k], vs[k])) => Holds(Make(o, fs), Eval(o, vs))
    /\ \A f, g \in Fact, v \in Meaning : Holds(f, v) /\ Holds(g, v) => Holds(Join(f, g), v)
    /\ \A f \in Fact, v \in Meaning : Holds(f, v) =>
          \A o \in Implied(f) : \A vs \in [1 .. Arity[o] -> Meaning] : Eval(o, vs) = v

----------------------------------------------------------------------------
Kids(ids, op) == [1 .. Arity[op] -> ids]
Denotes(m, op, ks) == Eval(op, [k \in 1 .. Arity[op] |-> m[ks[k]]])

Canonical(ks) == [k \in DOMAIN ks |-> canon[ks[k]]]

(* The filed node with this operator and these very kids.                     *)
Hits(op, ks) ==
    {i \in filed : nodes[i].live /\ nodes[i].op = op /\ nodes[i].kids = ks}

Made(op, ks) == Make(op, [k \in DOMAIN ks |-> facts[canon[ks[k]]]])

(* A refused allocation: the flag is set, and nothing will be changed again.  *)
Refused == oom' = TRUE

(* A mistake: the refused push goes unnoticed and the id is handed out.       *)
NewClassUnchecked == canon' \in {canon, Append(canon, Len(canon) + 1)}

NewClass == canon' = Append(canon, Len(canon) + 1)

(* eg_add of a term that is not there.  Refused, one of its pushes leaves the *)
(* parts that were made before it: nothing, a class without its node, or a    *)
(* node its class does not list, that is not filed, that has no fact or whose *)
(* fact is not copied for modify().                                           *)
Created(op, ks, v) ==
    LET c == Len(canon) + 1
        n == Len(nodes) + 1
    IN  /\ NewClass
        /\ means' = Append(means, v)
        /\ nodes' = Append(nodes, [op |-> op, kids |-> ks, cls |-> c, live |-> TRUE])
        /\ UNCHANGED dirty
        /\ \E listed, kept, known, copied \in BOOLEAN :
              /\ members' = Append(members, IF listed THEN <<n>> ELSE <<>>)
              /\ filed' = IF kept THEN filed \cup {n} ELSE filed
              /\ facts' = IF listed /\ kept /\ known THEN Append(facts, Made(op, ks))
                          ELSE facts
              /\ oom' = ~(listed /\ kept /\ known /\ copied)

NotCreated ==
    /\ Refused
    /\ UNCHANGED <<nodes, filed, facts, dirty>>
    /\ \/ UNCHANGED <<canon, members, means>>
       \/ /\ NewClass /\ members' = Append(members, <<>>)
          /\ \E v \in Meaning : means' = Append(means, v)

(* Interning, and then modify() on the class it made.                         *)
Add(op, ks) ==
    /\ pc = "idle" /\ ~oom
    /\ Hits(op, Canonical(ks)) = {}
    /\ Len(nodes) < MaxNodes
    /\ \/ /\ Created(op, Canonical(ks), Denotes(means, op, ks))
          /\ pc' = IF oom' THEN "idle" ELSE "added"
          /\ at' = Len(canon) + 1
       \/ NotCreated /\ UNCHANGED <<pc, at>>
    /\ UNCHANGED <<moved, round>>

----------------------------------------------------------------------------
Size(c) == Len(members[c])

(* eg_merge of two roots: the smaller class goes into the larger, its nodes   *)
(* one push at a time, then the facts are joined and the repair scheduled.    *)
Folded(from, to) ==
    /\ canon' = [i \in Ids |-> IF canon[i] = from THEN to ELSE canon[i]]
    /\ \E listed \in 0 .. Size(from), noted \in BOOLEAN :
          /\ members' = [members EXCEPT ![to] = @ \o SubSeq(members[from], 1, listed),
                                        ![from] = <<>>]
          /\ dirty' = (dirty \/ noted)
          /\ oom' = ~(listed = Size(from) /\ noted)
    /\ facts' = [facts EXCEPT ![to] = Join(facts[to], facts[from])]

InTo(from, to) == [i \in Index |->
    IF \E k \in 1 .. Size(from) : members[from][k] = i
    THEN [nodes[i] EXCEPT !.cls = to] ELSE nodes[i]]

Merged(a, b) ==
    LET to == IF Size(a) < Size(b) THEN b ELSE a
        from == IF to = a THEN b ELSE a
    IN  Folded(from, to) /\ nodes' = InTo(from, to)

NotMerged == Refused /\ UNCHANGED <<nodes, canon, members, facts, dirty>>

Merge(a, b) ==
    /\ pc = "idle" /\ ~oom
    /\ canon[a] # canon[b]
    /\ means[a] = means[b]
    /\ Merged(canon[a], canon[b]) \/ NotMerged
    /\ UNCHANGED <<filed, means, control>>

----------------------------------------------------------------------------
(* modify(c): the constant the fact implies is interned, then merged with c.  *)
(* The constant's own modify() finds itself.                                  *)
Const(c) == CHOOSE o \in Implied(facts[c]) : TRUE
ConstClass(c) == canon[nodes[CHOOSE i \in Hits(Const(c), <<>>) : TRUE].cls]

Wanting(c) == ~oom /\ canon[c] = c /\ Implied(facts[c]) # {}
Held(c) == Hits(Const(c), <<>>) # {}

ModifyNothing(c) ==
    /\ Wanting(c) => Held(c) /\ ConstClass(c) = c
    /\ UNCHANGED <<nodes, canon, members, filed, facts, dirty, oom, means>>
ModifyIntern(c) ==
    /\ Wanting(c) /\ ~Held(c)
    /\ Created(Const(c), <<>>, Denotes(means, Const(c), <<>>)) \/ NotCreated
ModifyMerge(c) ==
    /\ Wanting(c) /\ Held(c) /\ ConstClass(c) # c
    /\ Merged(c, ConstClass(c)) \/ NotMerged
    /\ UNCHANGED <<filed, means>>

ModifyAdded ==
    /\ pc = "added"
    /\ \/ (ModifyNothing(at) \/ ModifyMerge(at)) /\ pc' = "idle" /\ at' = 1
       \/ ModifyIntern(at) /\ UNCHANGED <<pc, at>>
    /\ UNCHANGED <<moved, round>>

----------------------------------------------------------------------------
Recanonicalised(n) ==
    IF n.live THEN [n EXCEPT !.kids = Canonical(n.kids), !.cls = canon[@]] ELSE n
Repaired == [i \in Index |-> Recanonicalised(nodes[i])]

(* A mistake: the worklist is walked, never emptied.                          *)
BeginPassKeepsList ==
    /\ (pc = "idle" /\ dirty /\ ~oom) \/ pc = "again"
    /\ filed' = {}
    /\ nodes' = Repaired
    /\ pc' = "sweep" /\ at' = 1
    /\ UNCHANGED <<canon, members, facts, dirty, oom, moved, round, means>>

(* eg_rebuild: a pass takes the worklist, empties the hashcons and makes      *)
(* every live node's kids canonical, then files the nodes again one by one.   *)
BeginPass ==
    /\ (pc = "idle" /\ dirty /\ ~oom) \/ pc = "again"
    /\ filed' = {}
    /\ dirty' = FALSE
    /\ \/ /\ nodes' = Repaired
          /\ pc' = "sweep" /\ at' = 1
          /\ UNCHANGED oom
       \/ Refused /\ pc' = "idle" /\ UNCHANGED <<nodes, at>>
    /\ UNCHANGED <<canon, members, facts, moved, round, means>>

Sweeping == pc = "sweep" /\ at <= Len(nodes)
Next1 == at' = at + 1 /\ UNCHANGED <<pc, moved, round>>
Twins == Hits(nodes[at].op, nodes[at].kids)
Twin == canon[nodes[CHOOSE i \in Twins : TRUE].cls]

SweepDead == Sweeping /\ ~nodes[at].live /\ Next1
             /\ UNCHANGED <<nodes, canon, members, filed, facts, dirty, oom, means>>

SweepFile ==
    /\ Sweeping /\ nodes[at].live /\ Twins = {}
    /\ \/ filed' = filed \cup {at} /\ UNCHANGED oom
       \/ Refused /\ UNCHANGED filed
    /\ Next1
    /\ UNCHANGED <<nodes, canon, members, facts, dirty, means>>

(* A node whose key is filed already: the classes are one, and it is retired. *)
Retire(h) == [h EXCEPT ![at].live = FALSE]

(* A mistake: the twin is retired and its class is left as it was.            *)
SweepTwinOnly ==
    /\ Sweeping /\ nodes[at].live /\ Twins # {}
    /\ nodes' = Retire(nodes)
    /\ Next1
    /\ UNCHANGED <<canon, members, filed, facts, dirty, oom, means>>

SweepTwin ==
    /\ Sweeping /\ nodes[at].live /\ Twins # {}
    /\ LET mine == canon[nodes[at].cls]
           from == IF Size(Twin) < Size(mine) THEN Twin ELSE mine
           to == IF from = mine THEN Twin ELSE mine
       IN  \/ /\ mine = Twin \/ oom
              /\ nodes' = Retire(nodes)
              /\ UNCHANGED <<canon, members, facts, dirty, oom>>
           \/ /\ mine # Twin /\ ~oom
              /\ \/ Folded(from, to) /\ nodes' = Retire(InTo(from, to))
                 \/ Refused /\ nodes' = Retire(nodes) /\ UNCHANGED <<canon, members, facts, dirty>>
    /\ Next1
    /\ UNCHANGED <<filed, means>>

(* analysis_restore: rounds over the nodes until no fact moves.               *)
BeginFacts ==
    /\ pc = "sweep" /\ at > Len(nodes)
    /\ \/ /\ ~oom /\ pc' = "facts" /\ at' = 1 /\ moved' = FALSE /\ round' = 1
          /\ UNCHANGED oom
       \/ Refused /\ pc' = "idle" /\ UNCHANGED <<at, moved, round>>
    /\ UNCHANGED <<nodes, canon, members, filed, facts, dirty, means>>

(* A mistake: the fact of the last node swept is the fact of the class.       *)
JoinFactReplaces ==
    /\ pc = "facts" /\ at <= Len(nodes)
    /\ LET c == canon[nodes[at].cls]
           f == Made(nodes[at].op, nodes[at].kids)
       IN  IF nodes[at].live
           THEN facts' = [facts EXCEPT ![c] = f] /\ moved' = (moved \/ f # facts[c])
           ELSE UNCHANGED <<facts, moved>>
    /\ at' = at + 1
    /\ UNCHANGED <<nodes, canon, members, filed, dirty, oom, pc, round, means>>

JoinFact ==
    /\ pc = "facts" /\ at <= Len(nodes)
    /\ LET c == canon[nodes[at].cls]
           f == Join(facts[c], Made(nodes[at].op, nodes[at].kids))
       IN  IF nodes[at].live
           THEN facts' = [facts EXCEPT ![c] = f] /\ moved' = (moved \/ f # facts[c])
           ELSE UNCHANGED <<facts, moved>>
    /\ at' = at + 1
    /\ UNCHANGED <<nodes, canon, members, filed, dirty, oom, pc, round, means>>

EndRound ==
    /\ pc = "facts" /\ at > Len(nodes)
    /\ at' = 1 /\ moved' = FALSE
    /\ IF moved /\ round < FactRounds THEN round' = round + 1 /\ UNCHANGED pc
       ELSE pc' = "modify" /\ UNCHANGED round
    /\ UNCHANGED <<nodes, canon, members, filed, facts, dirty, oom, means>>

ModifyClass ==
    /\ pc = "modify" /\ at <= Len(canon)
    /\ \/ (ModifyNothing(at) \/ ModifyMerge(at)) /\ Next1
       \/ ModifyIntern(at) /\ UNCHANGED control

(* A mistake: the worklist is repaired once, not to its fixpoint.             *)
EndPassOnce ==
    /\ pc = "modify" /\ at > Len(canon)
    /\ pc' = "idle" /\ dirty' = FALSE
    /\ UNCHANGED <<nodes, canon, members, filed, facts, oom, at, moved, round, means>>

(* A merge on the way has put the worklist back: there is another pass.       *)
EndPass ==
    /\ pc = "modify" /\ at > Len(canon)
    /\ pc' = IF dirty /\ ~oom THEN "again" ELSE "idle"
    /\ at' = 1 /\ round' = 1
    /\ UNCHANGED <<nodes, canon, members, filed, facts, dirty, oom, moved, means>>

----------------------------------------------------------------------------
Init ==
    /\ nodes = <<>> /\ canon = <<>> /\ members = <<>> /\ facts = <<>> /\ means = <<>>
    /\ filed = {} /\ dirty = FALSE /\ oom \in BOOLEAN
    /\ pc = "idle" /\ at = 1 /\ moved = FALSE /\ round = 1

Rebuild ==
    \/ BeginPass \/ SweepDead \/ SweepFile \/ SweepTwin \/ BeginFacts
    \/ JoinFact \/ EndRound \/ ModifyClass \/ EndPass

Next ==
    \/ \E op \in Ops : \E ks \in Kids(Ids, op) : Add(op, ks)
    \/ \E a, b \in Ids : Merge(a, b)
    \/ ModifyAdded
    \/ Rebuild

Spec == Init /\ [][Next]_vars

----------------------------------------------------------------------------
(* What is stored, and the step a call has come to: a fact slot is missing    *)
(* only once the flag is up, and the sweep over the facts is never run then.  *)
Stored ==
    /\ nodes \in Seq(Node) /\ canon \in Seq(Nat) /\ members \in Seq(Seq(Nat))
    /\ means \in Seq(Meaning) /\ facts \in Seq(Fact)
    /\ Len(members) = Len(canon) /\ Len(means) = Len(canon)
    /\ Len(facts) <= Len(canon) /\ (~oom => Len(facts) = Len(canon))
    /\ dirty \in BOOLEAN /\ oom \in BOOLEAN
Control ==
    /\ pc \in Phases /\ at \in Nat \ {0} /\ moved \in BOOLEAN /\ round \in Nat
    /\ pc = "added" => at \in Ids
    /\ pc = "facts" => ~oom

(* Everything points at something that was made, whatever was refused: a      *)
(* root is its own root, a node's kids and its class are classes, and what a  *)
(* class lists and what is filed are nodes.                                   *)
InGraph ==
    /\ \A c \in Ids : canon[c] \in Ids /\ canon[canon[c]] = canon[c]
    /\ \A i \in Index : nodes[i].cls \in Ids /\ nodes[i].kids \in Kids(Ids, nodes[i].op)
    /\ \A c \in Ids : \A k \in 1 .. Size(c) : members[c][k] \in Index
    /\ filed \subseteq Index

(* No step, refused or not, equates two terms that mean different things: a   *)
(* class has the meaning of its root, of each of its nodes and of each node   *)
(* it lists.                                                                  *)
Sound ==
    /\ \A c \in Ids : means[canon[c]] = means[c]
    /\ \A i \in Index : means[nodes[i].cls] = Denotes(means, nodes[i].op, nodes[i].kids)
    /\ \A c \in Ids : \A k \in 1 .. Size(c) : means[nodes[members[c][k]].cls] = means[c]

(* What the analysis says of a class is so.                                   *)
FactsHold == \A c \in 1 .. Len(facts) : Holds(facts[c], means[c])

Data == Stored /\ InGraph /\ Sound /\ FactsHold
IInv == Data /\ Control

(* While nothing is refused, at every step of every call: a class lists its   *)
(* nodes, once each.                                                          *)
Alive == {i \in Index : nodes[i].live}
ListsOnce ==
    /\ \A i \in Alive : \E k \in 1 .. Size(canon[nodes[i].cls]) :
          members[canon[nodes[i].cls]][k] = i
    /\ \A c \in Ids : \A k, l \in 1 .. Size(c) :
          /\ canon[nodes[members[c][k]].cls] = c
          /\ members[c][k] = members[c][l] => k = l

(* The hashcons holds one live node of a key, and every live node but those a *)
(* pass has yet to come to.                                                   *)
FiledOnce ==
    /\ \A i, j \in filed \cap Alive :
          nodes[i].op = nodes[j].op /\ nodes[i].kids = nodes[j].kids => i = j
    /\ \A i \in Alive : i \in filed \/ (pc = "sweep" /\ i >= at)
    /\ pc = "sweep" => \A i \in filed : i < at

(* Kids are canonical unless a repair is scheduled.                           *)
Canonised == ~dirty => \A i \in Alive : Canonical(nodes[i].kids) = nodes[i].kids

(* A retired node has a live one with its operator and equal kids in the same *)
(* class.                                                                     *)
Replaced == \A i \in Index \ Alive : \E j \in Alive :
    /\ nodes[j].op = nodes[i].op
    /\ Canonical(nodes[j].kids) = Canonical(nodes[i].kids)
    /\ canon[nodes[j].cls] = canon[nodes[i].cls]

Whole == ~oom => ListsOnce /\ FiledOnce /\ Canonised /\ Replaced
WInv == IInv /\ Whole

(* Between calls, with nothing scheduled and nothing refused, the graph is    *)
(* congruent and whole: the live nodes have canonical kids, no two are equal, *)
(* each is filed and is listed, once, by its class.                           *)
Clean == pc = "idle" /\ ~dirty /\ ~oom
Congruent == Clean =>
    /\ \A i \in Alive :
          /\ Canonical(nodes[i].kids) = nodes[i].kids
          /\ Hits(nodes[i].op, nodes[i].kids) = {i}
          /\ \E k \in 1 .. Size(canon[nodes[i].cls]) : members[canon[nodes[i].cls]][k] = i
    /\ \A c \in Ids : \A k, l \in 1 .. Size(c) :
          /\ canon[nodes[members[c][k]].cls] = c
          /\ members[c][k] = members[c][l] => k = l

(* Nothing that was interned is lost while nothing is refused.                *)
Kept == Clean => Replaced

(* egg's analysis invariant, which analysis_restore is to restore: the fact   *)
(* of a class has in it what make() says of each of its nodes, and what       *)
(* modify() would add is there.                                               *)
FactsExact == Clean => \A i \in Alive :
    LET c == canon[nodes[i].cls]
    IN  /\ Join(facts[c], Made(nodes[i].op, nodes[i].kids)) = facts[c]
        /\ \A o \in Implied(facts[c]) : Hits(o, <<>>) # {} /\ ConstClass(c) = c

(* Classes are only ever joined: ids that were equal stay equal, also in a    *)
(* call that runs out of memory.                                              *)
Grows == [][/\ Len(canon') >= Len(canon)
            /\ \A a, b \in Ids : canon[a] = canon[b] => canon'[a] = canon'[b]]_vars
=============================================================================
