------------------------------- MODULE MCCEK -------------------------------
(***************************************************************************)
(* The CEK machine on concrete grammars: module Compile turns Grammar into *)
(* a program, the machine runs it on every input of a bounded set, and     *)
(* what it yields is compared with module IPG.                             *)
(***************************************************************************)
EXTENDS Scoping, Grammars, SequencesExt

CONSTANTS
  Grammar,    \* one of the grammars of module Grammars
  Asked,      \* what to parse: a set of <<rule, inputs, byte orders>>
  Meaning     \* what module IPG says each job yields

(* Compiled, AllJobs and AllMeanings depend on constants only, so TLC       *)
(* computes each once; the MC names hand them to the constants.            *)
G == INSTANCE Compile
Compiled ==
  LET g == Grammar
  IN  G!compile_grammar([i \in DOMAIN g |-> [name |-> g[i][1], body |-> g[i][2]]])
MCProg == LET compiled == Compiled IN compiled.prog

AllJobs ==
  LET entries == Compiled.entries
  IN  UNION {{[rule |-> s[1], entry |-> entries[s[1]], input |-> in, le |-> e] :
                in \in s[2], e \in s[3]} : s \in Asked}
MCJobs == LET jobs == AllJobs IN jobs
MCExtern == [skip2 |-> 2]

RulesOf(g) == {g[i][1] : i \in DOMAIN g}
TableOf(g) == [r \in RulesOf(g) |->
                 LET i == CHOOSE i \in DOMAIN g : g[i][1] = r IN g[i][2]]
RuleTable == TableOf(Grammar)
R == INSTANCE IPG WITH Rules <- RuleTable
AllMeanings == [j \in AllJobs |-> R!Document(j.rule, j.input, j.le)]
MCMeaning == LET meanings == AllMeanings IN meanings
NotAsked == <<>>                         \* for runs that compare nothing

(* The scope of every kont, spread from the rule entries along the links   *)
(* by Rounds steps, more than a chain is long: labels are the konts        *)
(* reached, todo the links to those not reached yet.                       *)
Rounds == 36
Fitting(c, s) ==
  IF \/ c.kind \in Committers
     \/ c.kind = "EndArray" /\ c.resync /\ s.open # <<>> /\ Newest(s.open) # Nil
  THEN Closed(s) ELSE s
Spread(prog, at) ==
  LET heads == {l[1] : l \in at.todo}
      new == [n \in heads |->
                LET l == CHOOSE l \in at.todo : l[1] = n IN Fitting(prog[n], l[2])]
      labels == new @@ at.labels
      links == UNION {Links(prog, n, new[n]) : n \in heads}
  IN  [labels |-> labels, todo |-> {l \in links : l[1] \notin DOMAIN labels}]
AllScopes ==
  LET compiled == Compiled
      prog == compiled.prog
      entries == {<<compiled.entries[r], Nothing>> : r \in DOMAIN compiled.entries}
      spread[i \in 0..Rounds] ==
        IF i = 0 THEN [labels |-> <<>>, todo |-> entries]
        ELSE Spread(prog, spread[i - 1])
      labels == spread[Rounds].labels
  IN  [n \in 1..Len(prog) |-> IF n \in DOMAIN labels THEN labels[n] ELSE Nothing]
MCScope == LET scopes == AllScopes IN scopes
(* Odds are not well scoped: their runs take no scopes.                    *)
Unscoped == <<>>
ASSUME ScopeAssumption == Scope = Unscoped \/ WellScoped(KontId, Jobs)

(* What Sema accepts of the grammars it is offered, as one grammar; Record *)
(* is a rule of several of them.                                           *)
S(g) == INSTANCE Sema WITH Rules <- TableOf(g)
Accepted(gs) ==
  LET rules == FlattenSeq(SelectSeq(gs, LAMBDA g : S(g)!analyze))
  IN  SelectSeq(rules, LAMBDA r : r # Record)
Offered == Accepted(<<Arrays>> \o LoopGrammars \o CallGrammars) \o <<Record>>

-----------------------------------------------------------------------------
(* The inputs: all byte strings over an alphabet, up to a length.          *)

Inputs(A, n) == UNION {[1..k -> A] : k \in 0..n}
Only(rules, inputs) == {<<r, inputs, {FALSE}>> : r \in rules}

AskScalars == {
  <<"Prims", Inputs({1, 200}, 7), BOOLEAN>>,
  <<"Bits", Inputs({0, 1, 129, 255}, 2), BOOLEAN>>,
  <<"BitsTop", Inputs({0, 1, 129, 255}, 1), BOOLEAN>>,
  <<"Order", Inputs({0, 1, 129}, 5), BOOLEAN>>,
  <<"Lebs", Inputs({0, 64, 127, 128, 255}, 3)
     \cup {<<255, 255, 255, 255>> \o <<b, 1>> : b \in {0, 7, 16, 128}}
     \cup {<<1, 255, 255, 255, 255>> \o <<b>> : b \in {0, 7, 8, 119, 120, 127}},
     {FALSE}>>,
  <<"Arith", Inputs({0, 1, 3, 255}, 2), {FALSE}>>,
  <<"Odd", Inputs(0..6, 2), {FALSE}>>,
  <<"Odder", Inputs(0..7, 2), {FALSE}>>,
  <<"Paths", Inputs(0..2, 4), {FALSE}>>}
AskArrays == Only(RulesOf(Arrays), Inputs(0..3, 4) \cup Inputs({0, 1}, 6))
AskAll ==
  AskScalars \cup AskArrays
    \cup Only(RulesOf(ChoiceRules), Inputs(0..3, 4))
    \cup Only(RulesOf(Windows), Inputs(0..4, 4) \cup Inputs({1, 2}, 5))
AllGrammars == Scalars \o ChoiceRules \o Windows \o Arrays
AskOffered == Only(RulesOf(Offered), Inputs(0..2, 3))

(* One input for each disagreement.                                        *)
AcceptedOdds == Accepted(<<Odds>>)
AskLoopLeft == Only({"LoopLeft"}, {<<1, 2, 7>>})
AskLastArm == Only({"LastArm"}, {<<9, 3, 7>>})
AskScanNested ==
  Only({"ScanNested"}, {<<1, 2, 2, 1, 2, 3, 1, 2, 2, 1, 2, 2>>})
AskScanCount == Only({"ScanCount"}, {<<2, 1, 1, 9>>})
AskTagLeak == Only({"TagLeak"}, {<<1>>})
AskCountShadow == Only({"CountShadow"}, {<<2, 1, 5, 7>>})
AskSeekBack == Only({"SeekBack"}, {<<7, 7>>})
AskNeverTried == Only({"NeverTried"}, {<<7, 7>>})
AskItself == Only({"Itself"}, {<<7, 7>>})
AskTerminated == Only({"Terminated"}, {<<1, 0, 7>>})
AskOdds ==
  AskScanNested \cup AskScanCount \cup AskTagLeak \cup AskCountShadow
    \cup AskTerminated \cup AskLastArm

(* A bound on the nodes allocated that no parse of these grammars meets:   *)
(* freed nodes stay in the model, so a parse that never ends grows.        *)
MaxNodes == 40
NodesBounded == Len(builder.nodes) < MaxNodes

-----------------------------------------------------------------------------
(* The document the builder holds: finish() keeps what hangs off the top   *)
(* level.                                                                  *)

RECURSIVE TreeOf(_)
TreeOf(id) ==
  LET n == builder.nodes[id]
  IN  R!Tree(n.name, n.type, n.start, n.end, n.tag, n.val,
             [i \in DOMAIN n.kids |-> TreeOf(n.kids[i])])
Built == [i \in DOMAIN builder.roots |-> TreeOf(builder.roots[i])]
Meant == Meaning[job]

(* The compiled grammar, run by the machine, means what the grammar means: *)
(* it accepts the same inputs, consumes the same bytes and builds the same *)
(* document, spans, values and variant tags included.                      *)
AgreesWithIPG ==
  Halted => /\ Meant.ok = ~failed
            /\ Meant.ok => pos = Meant.pos /\ Built = Meant.kids
=============================================================================
