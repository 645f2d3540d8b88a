-------------------------------- MODULE Sema --------------------------------
(***************************************************************************)
(* What frontend/Sema.cpp refuses of a grammar's structure: references to  *)
(* rules that do not exist, rules that contain themselves, and arrays that *)
(* only the input bounds whose element need not read any.  It is on these  *)
(* refusals that the machine, which checks none of this, relies to end.    *)
(* Reference and expression checks (phases 5 to 8) are left out, so more   *)
(* grammars pass here than there.  The abstract syntax is that of module   *)
(* Compile; the operators are recursive, for TLC only.                     *)
(***************************************************************************)
EXTENDS Integers, Sequences, FiniteSets, FiniteSetsExt

CONSTANT Rules     \* rule_map_: rule name -> type expression

Bodies(arms) == [i \in DOMAIN arms |-> arms[i].body]
Any(ts, Holds(_)) == \E i \in DOMAIN ts : Holds(ts[i])
All(ts, Holds(_)) == \A i \in DOMAIN ts : Holds(ts[i])

(* A literal that is at least one.                                         *)
PositiveOrZero(e) ==                     \* mutant: and zero
  e.kind = "Lit" /\ e.val.t = "int" /\ e.val.v >= 0
Positive(e) == e.kind = "Lit" /\ e.val.t = "int" /\ e.val.v > 0

(* Might an accepted parse of this type consume nothing?  One arm of a     *)
(* choice is enough; a width only the data decides is not established, and *)
(* neither is a rule already on the way.                                   *)
RECURSIVE may_read_nothing(_, _)
may_read_nothing(type, visiting) ==
  LET Nothing(t) == may_read_nothing(t, visiting)
  IN CASE type.t = "Struct" -> All(Bodies(type.fields), Nothing)
       [] type.t = "Union" -> Any(type.bodies, Nothing)
       [] type.t = "Switch" ->
            Any(Bodies(type.cases) \o type.default, Nothing)
       [] type.t = "Array" ->
            type.spec = "FixedCount" /\ Positive(type.expr) => Nothing(type.elem)
       [] type.t = "RuleRef" ->
            type.name \in DOMAIN Rules \ visiting =>
              may_read_nothing(Rules[type.name], visiting \cup {type.name})
       [] type.t = "Bytes" ->
            ~\E i \in DOMAIN type.iv : /\ type.iv[i].start = <<>>
                                       /\ Positive(type.iv[i].end)
       [] type.t \in {"Primitive", "Bitfield"} -> FALSE
       [] OTHER -> TRUE

-----------------------------------------------------------------------------
(* validate_type descends into the parts of a type with a flag: a rule     *)
(* referred to from an array's element is guarded, it need not be complete *)
(* before this one; an optional holds its element by value.                *)
Under(ts, guarded) == [i \in DOMAIN ts |-> <<ts[i], guarded>>]
OptionalGuardsToo == TRUE                \* mutant: as an array does
OptionalGuards == FALSE
Parts(type, guarded) ==
  CASE type.t = "Struct" -> Under(Bodies(type.fields), guarded)
    [] type.t = "Union" -> Under(type.bodies, guarded)
    [] type.t = "Array" ->
         Under(<<type.elem>>, TRUE) \o Under(type.sep, guarded)
           \o Under(IF type.spec = "TypeTerm" THEN <<type.term>> ELSE <<>>, guarded)
    [] type.t = "Optional" -> Under(<<type.elem>>, OptionalGuards)
    [] type.t = "Switch" -> Under(Bodies(type.cases) \o type.default, guarded)
    [] OTHER -> <<>>

(* An eof or until array ends only if each turn reads.                     *)
Unfed(a) ==
  /\ a.spec \in {"EOF", "Until"}
  /\ All(a.sep, LAMBDA t : may_read_nothing(t, {}))
  /\ may_read_nothing(a.elem, {})

(* The entries of a bitfield fill its container, under different names.    *)
FillsContainer(b) ==
  /\ b.prim.kind = "Integer"
  /\ \A i \in DOMAIN b.entries : b.entries[i].width > 0
  /\ \A i, j \in DOMAIN b.entries :
       b.entries[i].name = b.entries[j].name => i = j
  /\ MapThenSumSet(LAMBDA i : b.entries[i].width, DOMAIN b.entries)
       = 8 * b.prim.width

RECURSIVE validate_type(_)
validate_type(type) ==
  /\ All(Parts(type, FALSE), LAMBDA part : validate_type(part[1]))
  /\ type.t = "Array" =>
       /\ ~Unfed(type)
       /\ ~(type.spec = "Until" /\ type.resync)
       /\ type.elem_iv # <<>> => type.spec \in {"FixedCount", "Count"}
  /\ type.t = "RuleRef" => type.name \in DOMAIN Rules
  /\ type.t = "Bytes" => type.iv # <<>>
  /\ type.t = "Bitfield" => FillsContainer(type)

(* deps_: the rules a type refers to outside a guard.                      *)
RECURSIVE Deps(_, _)
Deps(type, guarded) ==
  IF type.t = "RuleRef" THEN IF guarded THEN {} ELSE {type.name}
  ELSE LET parts == Parts(type, guarded)
       IN  UNION {Deps(parts[i][1], parts[i][2]) : i \in DOMAIN parts}

(* Kahn's algorithm, a rank at a time: every rule must get its turn.       *)
RECURSIVE Sorted(_)
Sorted(done) ==
  LET ready == {r \in DOMAIN Rules \ done : Deps(Rules[r], FALSE) \subseteq done}
  IN  IF ready = {} THEN done ELSE Sorted(done \cup ready)
topological_sort == Sorted({}) = DOMAIN Rules

analyze ==
  /\ \A r \in DOMAIN Rules : validate_type(Rules[r])
  /\ topological_sort
=============================================================================
