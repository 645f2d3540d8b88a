------------------------------ MODULE Scoping -------------------------------
(***************************************************************************)
(* How bbq.ddcg nests what it opens.  A scope says what is open at a kont, *)
(* relative to the entry of its rule: the Loop frames (Nil) and Savepoints *)
(* (their failure handlers) in the order they were pushed, the number of   *)
(* windows and the number of document nodes.  WellScoped is the discipline *)
(* a program must obey for its frames, windows and nodes to be undone in   *)
(* the order they were made; not every program the compiler emits does.    *)
(* WellNested is what the machine then keeps: the frame chain, interval    *)
(* depth and builder stack are at every step what the scopes say.          *)
(***************************************************************************)
EXTENDS CEKInv

CONSTANT Scope    \* kont -> what is open when it runs

ScopeRecord == [open : Seq(Nat), wins : Nat, tree : Nat]
Nothing == [open |-> <<>>, wins |-> 0, tree |-> 0]

Newest(s) == s[Len(s)]
Older(s) == SubSeq(s, 1, Len(s) - 1)
Opened(x, h) == [x EXCEPT !.open = Append(@, h)]
Closed(x) == [x EXCEPT !.open = Older(@)]
Windowed(x, d) == [x EXCEPT !.wins = @ + d]
Noded(x, d) == [x EXCEPT !.tree = @ + d]

(* A handler that leaves no frame of its attempt: it drops the Savepoint,  *)
(* and with it what is above, or goes on unwinding below it.               *)
Pops(h) == Prog[h].kind = "OnFail" /\ (Prog[h].pop_frame \/ Prog[h].target = Nil)

(* A jump to handler h under these open frames meets its own Savepoint     *)
(* innermost, and on top unless the handler clears what is above.          *)
Reaches(held, h) ==
  \E k \in DOMAIN held : /\ held[k] = h
                         /\ \A m \in k + 1..Len(held) : held[m] = Nil
                         /\ Pops(h) \/ k = Len(held)

(* CommitChoice and EndOptional run under the Savepoint they drop, each    *)
(* arm under its own handler; EndArray may or may not have one to drop.    *)
Committers == {"CommitChoice", "EndOptional"}
Drops(n) == \/ Prog[n].kind \in Committers
            \/ Prog[n].kind = "EndArray" /\ Prog[n].resync
Leads(s, n) ==
  \/ Prog[n].kind \notin Committers /\ s = Scope[n]
  \/ Drops(n) /\ s.open # <<>> /\ IsFail(Newest(s.open)) /\ Closed(s) = Scope[n]

(* No open Savepoint is of an attempt that had more open than there is.    *)
Bounded(s) ==
  \A k \in DOMAIN s.open : s.open[k] # Nil =>
    Scope[s.open[k]].wins <= s.wins /\ Scope[s.open[k]].tree <= s.tree

-----------------------------------------------------------------------------
(* The scope kont n, run in scope x, leaves each kont it leads to in.      *)
After(c, x) ==       \* what is open at c.next
  CASE c.kind \in {"BeginStruct", "BeginVariant"} -> Noded(x, 1)
    [] c.kind = "EndStruct" -> Noded(x, -1)
    [] c.kind = "PushInterval" -> Windowed(x, 1)
    [] c.kind = "PopInterval" -> Windowed(x, -1)
    [] c.kind \in {"BeginChoice", "BeginOptional"} -> Opened(x, c.on_fail)
    [] c.kind = "EndArray" -> Noded(Closed(x), -1)
    [] OTHER -> x
Looping(x) == Opened(Noded(x, 1), Nil)
InArray(c, x) ==
  IF c.resync = Nil THEN Looping(x) ELSE Opened(Looping(x), c.resync)

Links(prog, n, x) ==
  LET c == prog[n]
  IN  (IF c.kind \in ChainKinds \ {"BeginArray"} THEN {<<c.next, After(c, x)>>}
                                                 ELSE {})
      \cup
      CASE c.kind = "EvalConstraint"
             /\ c.on_false # Nil /\ prog[c.on_false].kind \in SpineKinds ->
             {<<c.on_false, x>>}
        [] c.kind = "SwitchDispatch" ->
             {<<c.cases[i].target, x>> : i \in DOMAIN c.cases}
               \cup (IF c.default = Nil THEN {} ELSE {<<c.default, x>>})
        [] c.kind = "InvokeRule" -> {<<c.entry, Nothing>>}
        [] c.kind \in {"BeginChoice", "BeginOptional"} -> {<<c.on_fail, x>>}
        [] c.kind = "BeginArray" ->
             {<<c.next, InArray(c, x)>>, <<c.end, InArray(c, x)>>,
              <<c.end, Looping(x)>>}
               \cup (IF c.resync = Nil THEN {} ELSE {<<c.resync, Looping(x)>>})
        [] c.kind = "ArrayNext" -> {<<c.body, x>>, <<c.end, x>>}
        [] c.kind = "Resync" -> {<<c.body, Opened(x, n)>>, <<c.end, x>>}
        [] c.kind = "OnFail" /\ c.target # Nil ->
             IF c.pop_frame THEN {<<c.target, x>>}
             ELSE {<<c.target, Opened(x, c.next_on_fail)>>, <<c.next_on_fail, x>>}
        [] OTHER -> {}
LinkFits(n, m, s) ==
  /\ m \in KontId /\ s \in ScopeRecord /\ Leads(s, m) /\ Bounded(s)
  /\ Prog[m].kind = "Halt" => Prog[n].kind = "ReturnRule"

(* What a kont needs of its own scope.                                     *)
ScopeFits(n) ==
  LET c == Prog[n]
      x == Scope[n]
  IN  /\ x \in ScopeRecord
      /\ c.kind \in {"ReturnRule", "Halt"} => x = Nothing
      /\ c.kind = "EndArray" => x.open # <<>> /\ Newest(x.open) = Nil
      /\ c.kind = "ArrayNext" /\ c.resync =>
           /\ x.open # <<>> /\ Newest(x.open) # Nil
           /\ Scope[Newest(x.open)] = Closed(x)
      /\ c.kind = "EvalConstraint" /\ IsFail(c.on_false) =>
           Reaches(x.open, c.on_false)
      /\ c.kind = "InvokeRule" =>
           /\ Prog[c.next].kind \notin Committers \cup {"EndArray"}
           /\ c.fail_target # Nil => Reaches(x.open, c.fail_target)
      /\ c.kind = "Seek" => Prog[c.next].kind = "PushInterval"

KontScoped(n) ==
  Prog[n].kind \notin ExprKinds =>
    /\ ScopeFits(n)
    /\ \A l \in Links(Prog, n, Scope[n]) : LinkFits(n, l[1], l[2])
JobScoped(j) == Leads(Nothing, j.entry) /\ Prog[j.entry].kind # "Halt"
WellScoped(konts, jobs) ==
  (\A n \in konts : KontScoped(n)) /\ (\A j \in jobs : JobScoped(j))

-----------------------------------------------------------------------------
(* With the first j frames pushed, d windows and t nodes open, scope x is  *)
(* what is open: its frames are on top of those of the caller, whose       *)
(* Return frame says how many windows and nodes were open at the call.     *)
Holds(fs, j, d, t, x) ==
  LET a == j - Len(x.open)
  IN  /\ a >= 0
      /\ \A k \in DOMAIN x.open : /\ fs[a + k].type # "Return"
                                  /\ fs[a + k].on_fail = x.open[k]
      /\ a = 0 => d = x.wins /\ t = x.tree
      /\ a > 0 => /\ fs[a].type = "Return"
                  /\ d = fs[a].depth + x.wins
                  /\ t = fs[a].mark.depth + x.tree

(* The same for a kont about to run: it may stand on the Savepoint it      *)
(* drops.                                                                  *)
Stands(fs, d, t, n) ==
  \/ Prog[n].kind \notin Committers /\ Holds(fs, Len(fs), d, t, Scope[n])
  \/ /\ Drops(n) /\ fs # <<>> /\ Newest(fs).type = "Savepoint"
     /\ Holds(fs, Len(fs) - 1, d, t, Scope[n])

(* Each frame knows the scope it was pushed in: a Savepoint by its         *)
(* handler, a Return frame by where it returns to.                         *)
FrameFits(fs, j) ==
  LET f == fs[j]
      Within(n) == Holds(fs, j - 1, f.depth, f.mark.depth, Scope[n])
  IN  /\ f.type = "Loop" => f.on_fail = Nil
      /\ f.type = "Savepoint" => IsFail(f.on_fail) /\ Within(f.on_fail)
      /\ f.type = "Return" =>
           /\ Within(f.next)
           /\ Prog[f.next].kind \notin Committers \cup {"EndArray", "Halt"}
           /\ f.on_fail # Nil => Reaches(Scope[f.next].open, f.on_fail)

(* What a frame restores is a part of what is open above it.               *)
Under(f, d, t) == f.type # "Loop" => f.depth <= d /\ f.mark.depth <= t
Over(fs, d, t) == \A i \in DOMAIN fs : Under(fs[i], d, t)
Chain(fs) ==
  \A j \in DOMAIN fs :
    /\ FrameFits(fs, j)
    /\ fs[j].type # "Loop" =>
         \A i \in 1..j : Under(fs[i], fs[j].depth, fs[j].mark.depth)

(* A handler about to run finds the Savepoint that names it.               *)
HandlerReady(fs, h) ==
  \E i \in Savepoints(fs) :
    /\ fs[i].on_fail = h
    /\ \A m \in i + 1..Len(fs) : fs[m].type # "Savepoint"
    /\ Pops(h) \/ i = Len(fs)

(* Windows lie in one another, and a saved cursor in the saved window.     *)
Window(d, p) == d > 0 => slots[d].lo <= p /\ p <= slots[d].hi
WindowsFit ==
  /\ \A d \in 1..depth : slots[d].lo <= slots[d].hi
  /\ \A d \in 2..depth : /\ slots[d - 1].lo <= slots[d].lo
                         /\ slots[d].hi <= slots[d - 1].hi
  /\ \A i \in Savepoints(frames) : Window(frames[i].depth, frames[i].pos)

Tree == Len(builder.stack)
Opening(k) ==        \* an "until" array is open before its first test
  /\ k.role = "apply" /\ Prog[k.node].kind = "BeginArray"
  /\ Prog[k.node].mode = "Until"
Standing(k) ==
  IF Opening(k)
  THEN Holds(frames, Len(frames), depth, Tree, InArray(Prog[k.node], Scope[k.node]))
  ELSE Stands(frames, depth, Tree, k.node)

Running == ~failed /\ K # <<>>
WellNested ==
  /\ Chain(frames) /\ Over(frames, depth, Tree)
  /\ WindowsFit
  /\ K # <<>> => Base \in SpineKinds \cup FailKinds
  /\ \A i \in 1..Len(K) - 1 : Prog[K[i].node].kind \notin FailKinds
  /\ Len(K) > 1 => Base # "ReturnRule"
  /\ Running /\ C.kind \in FailKinds => HandlerReady(frames, Top.node)
  /\ Running /\ C.kind \notin FailKinds =>
       /\ Standing(K[1])
       /\ Base = "Halt" => frames = <<>>
  /\ Running /\ ~Seeking => /\ Window(depth, pos)
                            /\ pos + Owing(K[1].node) <= effective_end
  /\ ~failed /\ K = <<>> => frames = <<>> /\ depth = 0 /\ builder.stack = <<>>

(* The frame chain, the interval depth and the builder's open nodes are    *)
(* what bbq.ddcg laid out, and every register is good in that context.     *)
SInv == IInv /\ WellNested
=============================================================================
