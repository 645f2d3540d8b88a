---------------------------- MODULE ScopeProofs ----------------------------
(***************************************************************************)
(* What the machine keeps when its program nests what it opens: for every  *)
(* well-scoped program WellNested is preserved by every step, and the      *)
(* properties of CEKProps that rely on how bbq.ddcg lays a grammar out     *)
(* follow from it.                                                         *)
(***************************************************************************)
EXTENDS CEKProofs, Scoping

(* The hypothesis of every theorem here.                                   *)
Disciplined == WellScoped(KontId, Jobs)

-----------------------------------------------------------------------------
(* Programs: every kont but an expression has a scope and keeps to it.     *)

(* What a well-scoped program says of a kont and of its links.             *)
LEMMA ScopeFacts ==
  ASSUME Disciplined, NEW n \in KontId, Prog[n].kind \notin ExprKinds
  PROVE  /\ ScopeFits(n) /\ Scope[n] \in ScopeRecord
         /\ \A l \in Links(Prog, n, Scope[n]) : LinkFits(n, l[1], l[2])
<1>1. KontScoped(n)
  BY DEF Disciplined, WellScoped
<1>2. ScopeFits(n) /\ \A l \in Links(Prog, n, Scope[n]) : LinkFits(n, l[1], l[2])
  BY <1>1 DEF KontScoped
<1>. QED
  BY <1>2 DEF ScopeFits

(* The three sorts of konts exclude each other.                            *)
LEMMA SortFacts ==
  /\ \A kind \in ExprKinds : kind \notin SpineKinds \cup FailKinds
  /\ \A kind \in FailKinds : kind \notin SpineKinds \cup ExprKinds
  /\ SiteKinds \subseteq SpineKinds /\ ChainKinds \subseteq SpineKinds
  /\ Committers \cup {"EndArray", "BeginArray", "ReturnRule", "PushInterval"} \subseteq ChainKinds
BY DEF ExprKinds, FailKinds, SpineKinds, ChainKinds, SiteKinds, Committers

(* A spine kont or a handler has a scope.                                  *)
LEMMA HasScope ==
  ASSUME Disciplined, NEW n, IsSpine(n) \/ IsFail(n)
  PROVE  /\ n \in KontId /\ n # Nil /\ n \in Nat
         /\ Prog[n].kind \notin ExprKinds
         /\ ScopeFits(n) /\ Scope[n] \in ScopeRecord
         /\ \A l \in Links(Prog, n, Scope[n]) : LinkFits(n, l[1], l[2])
<1>1. n \in KontId /\ Prog[n].kind \notin ExprKinds
  BY SortFacts DEF IsSpine, IsFail
<1>2. n \in Nat /\ n # Nil
  BY <1>1, ProgAssumption
<1>. QED
  BY <1>1, <1>2, ScopeFacts

-----------------------------------------------------------------------------
(* Scopes: what opening and closing does to the parts of one.              *)

(* The parts of a scope.                                                   *)
LEMMA ScopeParts ==
  ASSUME NEW x \in ScopeRecord
  PROVE  /\ x.open \in Seq(Nat) /\ x.wins \in Nat /\ x.tree \in Nat
         /\ Len(x.open) \in Nat /\ DOMAIN x.open = 1..Len(x.open)
         /\ x = [open |-> x.open, wins |-> x.wins, tree |-> x.tree]
BY LenProperties DEF ScopeRecord

(* Opening adds a frame at the end, closing takes the newest away.         *)
LEMMA OpenedParts ==
  ASSUME NEW x \in ScopeRecord, NEW h \in Nat
  PROVE  /\ Opened(x, h) \in ScopeRecord
         /\ Opened(x, h).wins = x.wins /\ Opened(x, h).tree = x.tree
         /\ Len(Opened(x, h).open) = Len(x.open) + 1
         /\ \A k \in 1..Len(x.open) : Opened(x, h).open[k] = x.open[k]
         /\ Opened(x, h).open[Len(x.open) + 1] = h
<1>1. Opened(x, h) = [open |-> Append(x.open, h), wins |-> x.wins, tree |-> x.tree]
  BY ScopeParts, SMTT(60) DEF Opened, ScopeRecord
<1>2. /\ Append(x.open, h) \in Seq(Nat) /\ Len(Append(x.open, h)) = Len(x.open) + 1
      /\ \A k \in 1..Len(x.open) : Append(x.open, h)[k] = x.open[k]
      /\ Append(x.open, h)[Len(x.open) + 1] = h
  BY ScopeParts, AppendProperties
<1>. QED
  BY <1>1, <1>2, ScopeParts DEF ScopeRecord

(* A scope with its newest frame popped is a scope.                        *)
LEMMA ClosedParts ==
  ASSUME NEW x \in ScopeRecord, x.open # <<>>
  PROVE  /\ Closed(x) \in ScopeRecord
         /\ Closed(x).wins = x.wins /\ Closed(x).tree = x.tree
         /\ Len(x.open) >= 1
         /\ Len(Closed(x).open) = Len(x.open) - 1
         /\ \A k \in 1..Len(x.open) - 1 : Closed(x).open[k] = x.open[k]
<1>1. Closed(x) = [open |-> Older(x.open), wins |-> x.wins, tree |-> x.tree]
  BY ScopeParts DEF Closed, ScopeRecord
<1>2. Len(x.open) >= 1 /\ Len(x.open) - 1 \in 0..Len(x.open)
  BY ScopeParts, EmptySeq
<1>3. /\ Older(x.open) \in Seq(Nat) /\ Len(Older(x.open)) = Len(x.open) - 1
      /\ \A k \in 1..Len(x.open) - 1 : Older(x.open)[k] = x.open[k]
  BY <1>2, ScopeParts, PrefixSeq DEF Older
<1>. QED
  BY <1>1, <1>2, <1>3, ScopeParts DEF ScopeRecord

(* Windows and nodes are counted.                                          *)
LEMMA CountedParts ==
  ASSUME NEW x \in ScopeRecord, NEW d \in Int
  PROVE  /\ Windowed(x, d).open = x.open /\ Windowed(x, d).tree = x.tree
         /\ Windowed(x, d).wins = x.wins + d
         /\ Noded(x, d).open = x.open /\ Noded(x, d).wins = x.wins
         /\ Noded(x, d).tree = x.tree + d
         /\ x.wins + d \in Nat => Windowed(x, d) \in ScopeRecord
         /\ x.tree + d \in Nat => Noded(x, d) \in ScopeRecord
<1>1. /\ Windowed(x, d) = [open |-> x.open, wins |-> x.wins + d, tree |-> x.tree]
      /\ Noded(x, d) = [open |-> x.open, wins |-> x.wins, tree |-> x.tree + d]
  BY ScopeParts DEF Windowed, Noded, ScopeRecord
<1>. QED
  BY <1>1, ScopeParts DEF ScopeRecord

-----------------------------------------------------------------------------
(* Frame chains.                                                           *)

(* What the lemmas need of a frame: its links lead somewhere.              *)
Linked == {f \in FrameRecord : /\ IsFailOrNil(f.on_fail)
                               /\ f.type = "Return" => IsSpine(f.next)}
(* Frames that hold the same place in a chain.                             *)
Alike(f, g) ==
  /\ g.type = f.type /\ g.on_fail = f.on_fail
  /\ f.type = "Return" => g.depth = f.depth /\ g.mark.depth = f.mark.depth
AlikeTo(fs, gs, j) == \A k \in 1..j : Alike(fs[k], gs[k])

(* The members of a linked frame.                                          *)
LEMMA LinkedFacts ==
  ASSUME NEW fs \in Seq(Linked)
  PROVE  /\ Len(fs) \in Nat /\ DOMAIN fs = 1..Len(fs)
         /\ fs # <<>> => Len(fs) >= 1
         /\ \A i \in 1..Len(fs) :
              /\ fs[i] \in Linked /\ fs[i].type \in {"Savepoint", "Loop", "Return"}
              /\ fs[i].on_fail \in Nat /\ IsFailOrNil(fs[i].on_fail)
              /\ fs[i].depth \in Nat /\ fs[i].mark.depth \in Nat
              /\ fs[i].type = "Return" => IsSpine(fs[i].next)
<1>1. Len(fs) \in Nat /\ DOMAIN fs = 1..Len(fs) /\ (fs # <<>> => Len(fs) >= 1)
  BY LenProperties, EmptySeq
<1>2. \A i \in 1..Len(fs) : fs[i] \in Linked
  BY ElementOfSeq
<1>3. \A f \in Linked : /\ f.type \in {"Savepoint", "Loop", "Return"}
                        /\ f.on_fail \in Nat /\ IsFailOrNil(f.on_fail)
                        /\ f.depth \in Nat /\ f.mark.depth \in Nat
                        /\ f.type = "Return" => IsSpine(f.next)
  BY DEF Linked, FrameRecord, Mark
<1>. QED
  BY <1>1, <1>2, <1>3

(* Holds looks at the frames it counts, and at no more of them than their  *)
(* place in the chain.                                                     *)
LEMMA HoldsAlike ==
  ASSUME NEW fs \in Seq(Linked), NEW gs \in Seq(Linked),
         NEW j \in 0..Len(fs), j <= Len(gs), AlikeTo(fs, gs, j),
         NEW d, NEW t, NEW x \in ScopeRecord, Holds(fs, j, d, t, x)
  PROVE  Holds(gs, j, d, t, x)
<1> DEFINE a == j - Len(x.open)
<1>1. /\ Len(x.open) \in Nat /\ DOMAIN x.open = 1..Len(x.open)
      /\ j \in Nat /\ a \in Int
  BY ScopeParts, LinkedFacts
<1>2. a >= 0 /\ (a > 0 => a \in 1..j) /\ \A k \in 1..Len(x.open) : a + k \in 1..j
  BY <1>1, SMTT(60) DEF Holds
<1>3. \A i \in 1..j : /\ gs[i].type = fs[i].type /\ gs[i].on_fail = fs[i].on_fail
                      /\ fs[i].type = "Return" =>
                           gs[i].depth = fs[i].depth /\ gs[i].mark.depth = fs[i].mark.depth
  BY DEF AlikeTo, Alike
<1>4. /\ \A k \in 1..Len(x.open) : /\ fs[a + k].type # "Return"
                                   /\ fs[a + k].on_fail = x.open[k]
      /\ a = 0 => d = x.wins /\ t = x.tree
      /\ a > 0 => /\ fs[a].type = "Return"
                  /\ d = fs[a].depth + x.wins
                  /\ t = fs[a].mark.depth + x.tree
  BY <1>1 DEF Holds
<1>5. /\ \A k \in 1..Len(x.open) : /\ gs[a + k].type # "Return"
                                   /\ gs[a + k].on_fail = x.open[k]
      /\ a > 0 => /\ gs[a].type = "Return"
                  /\ d = gs[a].depth + x.wins
                  /\ t = gs[a].mark.depth + x.tree
  BY <1>2, <1>3, <1>4
<1>. QED
  BY <1>1, <1>2, <1>4, <1>5 DEF Holds

(* A frame that is not a caller's opens a scope; taken away it closes.     *)
LEMMA HoldsOpened ==
  ASSUME NEW fs \in Seq(Linked), NEW j \in 1..Len(fs), NEW d, NEW t,
         NEW x \in ScopeRecord, Holds(fs, j - 1, d, t, x),
         fs[j].type # "Return"
  PROVE  Holds(fs, j, d, t, Opened(x, fs[j].on_fail))
<1> DEFINE h == fs[j].on_fail
           y == Opened(x, h)
           a == j - 1 - Len(x.open)
<1>1. /\ Len(x.open) \in Nat /\ DOMAIN x.open = 1..Len(x.open)
      /\ j \in Nat /\ a \in Int /\ h \in Nat
  BY ScopeParts, LinkedFacts
<1>2. /\ y \in ScopeRecord /\ y.wins = x.wins /\ y.tree = x.tree
      /\ Len(y.open) = Len(x.open) + 1
      /\ DOMAIN y.open = 1..Len(x.open) + 1
      /\ \A k \in 1..Len(x.open) : y.open[k] = x.open[k]
      /\ y.open[Len(x.open) + 1] = h
  <2> HIDE DEF h
  <2>1. /\ y \in ScopeRecord /\ y.wins = x.wins /\ y.tree = x.tree
        /\ Len(y.open) = Len(x.open) + 1
        /\ \A k \in 1..Len(x.open) : y.open[k] = x.open[k]
        /\ y.open[Len(x.open) + 1] = h
    BY <1>1, OpenedParts
  <2> HIDE DEF y
  <2>2. DOMAIN y.open = 1..Len(y.open)
    BY <2>1, ScopeParts
  <2>. QED
    BY <2>1, <2>2
<1>3. /\ a >= 0
      /\ \A k \in 1..Len(x.open) : /\ fs[a + k].type # "Return"
                                   /\ fs[a + k].on_fail = x.open[k]
      /\ a = 0 => d = x.wins /\ t = x.tree
      /\ a > 0 => /\ fs[a].type = "Return"
                  /\ d = fs[a].depth + x.wins
                  /\ t = fs[a].mark.depth + x.tree
  BY <1>1 DEF Holds
<1>4. a = j - Len(y.open) /\ a + (Len(x.open) + 1) = j
  BY <1>1, <1>2, SMTT(60)
<1> HIDE DEF y, a, h
<1>5. \A k \in DOMAIN y.open : fs[a + k].type # "Return" /\ fs[a + k].on_fail = y.open[k]
  <2>1. \A k \in DOMAIN y.open : k \in 1..Len(x.open) \/ k = Len(x.open) + 1
    BY <1>1, <1>2
  <2>. QED
    BY <2>1, <1>2, <1>3, <1>4 DEF h
<1>6. Holds(fs, j, d, t, y)
  BY <1>2, <1>3, <1>4, <1>5 DEF Holds
<1>. QED
  BY <1>6 DEF y, h

(* Popping the newest frame leaves what was open below it.                 *)
LEMMA HoldsClosed ==
  ASSUME NEW fs \in Seq(Linked), NEW j \in 0..Len(fs), NEW d, NEW t,
         NEW x \in ScopeRecord, Holds(fs, j, d, t, x), x.open # <<>>
  PROVE  /\ Holds(fs, j - 1, d, t, Closed(x)) /\ j >= 1
         /\ fs[j].type # "Return" /\ fs[j].on_fail = Newest(x.open)
<1> DEFINE y == Closed(x)
           a == j - Len(x.open)
<1>1. /\ Len(x.open) \in Nat /\ DOMAIN x.open = 1..Len(x.open) /\ Len(x.open) >= 1
      /\ j \in Nat /\ a \in Int
  BY ScopeParts, LinkedFacts, ClosedParts
<1>2. /\ y \in ScopeRecord /\ y.wins = x.wins /\ y.tree = x.tree
      /\ Len(y.open) = Len(x.open) - 1
      /\ DOMAIN y.open = 1..Len(x.open) - 1
      /\ \A k \in 1..Len(x.open) - 1 : y.open[k] = x.open[k]
  <2>1. /\ y \in ScopeRecord /\ y.wins = x.wins /\ y.tree = x.tree
        /\ Len(y.open) = Len(x.open) - 1
        /\ \A k \in 1..Len(x.open) - 1 : y.open[k] = x.open[k]
    BY ClosedParts
  <2> HIDE DEF y
  <2>2. DOMAIN y.open = 1..Len(y.open)
    BY <2>1, ScopeParts
  <2>. QED
    BY <2>1, <2>2
<1>3. /\ a >= 0
      /\ \A k \in 1..Len(x.open) : /\ fs[a + k].type # "Return"
                                   /\ fs[a + k].on_fail = x.open[k]
      /\ a = 0 => d = x.wins /\ t = x.tree
      /\ a > 0 => /\ fs[a].type = "Return"
                  /\ d = fs[a].depth + x.wins
                  /\ t = fs[a].mark.depth + x.tree
  BY <1>1 DEF Holds
<1>4. a = j - 1 - Len(y.open) /\ a + Len(x.open) = j /\ j >= 1
  BY <1>1, <1>2, <1>3
<1> HIDE DEF y, a
<1>5. \A k \in DOMAIN y.open : fs[a + k].type # "Return" /\ fs[a + k].on_fail = y.open[k]
  <2>1. \A k \in DOMAIN y.open : k \in 1..Len(x.open) /\ k \in 1..Len(x.open) - 1
    BY <1>1, <1>2
  <2>. QED
    BY <2>1, <1>2, <1>3, Zenon
<1>6. Holds(fs, j - 1, d, t, y)
  BY <1>2, <1>3, <1>4, <1>5 DEF Holds
<1>7. Len(x.open) \in 1..Len(x.open)
  BY <1>1
<1>8. fs[j].type # "Return" /\ fs[j].on_fail = x.open[Len(x.open)]
  BY <1>3, <1>4, <1>7, Zenon
<1>. QED
  BY <1>4, <1>6, <1>8 DEF y, Newest

(* A window or a node more or less.                                        *)
LEMMA HoldsCounted ==
  ASSUME NEW fs \in Seq(Linked), NEW j \in 0..Len(fs), NEW d, NEW t,
         NEW x \in ScopeRecord, Holds(fs, j, d, t, x), NEW c \in Int
  PROVE  /\ Holds(fs, j, d + c, t, Windowed(x, c))
         /\ Holds(fs, j, d, t + c, Noded(x, c))
<1> DEFINE a == j - Len(x.open)
<1>1. /\ x.wins \in Nat /\ x.tree \in Nat /\ Len(x.open) \in Nat
      /\ a \in Int /\ j \in Nat /\ Len(fs) \in Nat
  BY ScopeParts, LinkedFacts
<1>2. /\ a >= 0
      /\ \A k \in DOMAIN x.open : /\ fs[a + k].type # "Return"
                                  /\ fs[a + k].on_fail = x.open[k]
      /\ a = 0 => d = x.wins /\ t = x.tree
      /\ a > 0 => /\ fs[a].type = "Return"
                  /\ d = fs[a].depth + x.wins
                  /\ t = fs[a].mark.depth + x.tree
  BY DEF Holds
<1>3. a > 0 => a \in 1..Len(fs)
  BY <1>1, <1>2
<1>4. a > 0 => fs[a].depth \in Nat /\ fs[a].mark.depth \in Nat
  BY <1>3, LinkedFacts
<1>5. /\ Windowed(x, c).open = x.open /\ Windowed(x, c).tree = x.tree
      /\ Windowed(x, c).wins = x.wins + c
      /\ Noded(x, c).open = x.open /\ Noded(x, c).wins = x.wins
      /\ Noded(x, c).tree = x.tree + c
  BY CountedParts
<1> DEFINE p == fs[a].depth
           q == fs[a].mark.depth
<1> HIDE DEF a, p, q
<1>6. /\ a = 0 => d + c = x.wins + c /\ t + c = x.tree + c
      /\ a > 0 => /\ d + c = fs[a].depth + (x.wins + c)
                  /\ t + c = fs[a].mark.depth + (x.tree + c)
  <2>1. a > 0 => d = p + x.wins /\ t = q + x.tree /\ p \in Nat /\ q \in Nat
    BY <1>2, <1>4 DEF p, q
  <2>2. a > 0 => d + c = p + (x.wins + c) /\ t + c = q + (x.tree + c)
    BY <2>1, <1>1, SMTT(60)
  <2>. QED
    BY <2>2, <1>2 DEF p, q
<1>. QED
  BY <1>2, <1>5, <1>6, Zenon DEF Holds, a

(* A rule starts with nothing open over its caller, and ends so.           *)
LEMMA HoldsCall ==
  ASSUME NEW fs \in Seq(Linked), NEW f \in Linked, f.type = "Return"
  PROVE  Holds(Append(fs, f), Len(fs) + 1, f.depth, f.mark.depth, Nothing)
<1>1. /\ Len(fs) \in Nat /\ Append(fs, f)[Len(fs) + 1] = f
      /\ f.depth \in Nat /\ f.mark.depth \in Nat
  BY LinkedFacts, AppendProperties DEF Linked, FrameRecord, Mark
<1>2. /\ Nothing.open = <<>> /\ Len(Nothing.open) = 0 /\ DOMAIN Nothing.open = {}
      /\ Nothing.wins = 0 /\ Nothing.tree = 0
  BY DEF Nothing
<1>3. Len(fs) + 1 - 0 = Len(fs) + 1 /\ Len(fs) + 1 > 0 /\ Len(fs) + 1 # 0
  BY <1>1
<1>4. f.depth = f.depth + 0 /\ f.mark.depth = f.mark.depth + 0
  BY <1>1
<1>. QED
  BY <1>1, <1>2, <1>3, <1>4 DEF Holds

(* With nothing open the caller's frame is on top, or there is none.       *)
LEMMA HoldsNothing ==
  ASSUME NEW fs \in Seq(Linked), NEW j \in 0..Len(fs), NEW d, NEW t,
         Holds(fs, j, d, t, Nothing)
  PROVE  /\ j = 0 => d = 0 /\ t = 0
         /\ j > 0 => /\ fs[j].type = "Return"
                     /\ d = fs[j].depth /\ t = fs[j].mark.depth
<1>1. /\ Nothing.open = <<>> /\ Len(Nothing.open) = 0
      /\ Nothing.wins = 0 /\ Nothing.tree = 0
  BY DEF Nothing
<1>2. j - 0 = j /\ j \in Nat /\ Len(fs) \in Nat
  BY LinkedFacts
<1>3. /\ j = 0 => d = 0 /\ t = 0
      /\ j > 0 => /\ fs[j].type = "Return"
                  /\ d = fs[j].depth + 0 /\ t = fs[j].mark.depth + 0
  BY <1>1, <1>2 DEF Holds
<1>4. j > 0 => fs[j].depth \in Nat /\ fs[j].mark.depth \in Nat
  <2>1. j > 0 => j \in 1..Len(fs)
    BY <1>2
  <2>. QED
    BY <2>1, LinkedFacts
<1>. QED
  BY <1>3, <1>4

-----------------------------------------------------------------------------
(* Chains of frames that fit.                                              *)

(* The failure handlers of the program are not Nil and have scopes.        *)
LEMMA HandlerFacts ==
  ASSUME Disciplined
  PROVE  /\ ~IsFail(Nil)
         /\ \A h : IsFail(h) => h \in Nat /\ h # Nil /\ Scope[h] \in ScopeRecord
         /\ \A n : IsSpine(n) => n \in Nat /\ n # Nil /\ Scope[n] \in ScopeRecord
<1>1. \A h : IsFail(h) \/ IsSpine(h) =>
               h \in Nat /\ h # Nil /\ Scope[h] \in ScopeRecord
  BY HasScope
<1>. QED
  BY <1>1

(* A frame fits where one like it does.                                    *)
LEMMA FrameFitsAlike ==
  ASSUME Disciplined, NEW fs \in Seq(Linked), NEW gs \in Seq(Linked),
         NEW j \in 1..Len(fs), j <= Len(gs), AlikeTo(fs, gs, j - 1),
         gs[j].type = fs[j].type, gs[j].on_fail = fs[j].on_fail,
         fs[j].type # "Loop" => gs[j] = fs[j], FrameFits(fs, j)
  PROVE  FrameFits(gs, j)
<1>1. /\ Len(fs) \in Nat /\ Len(gs) \in Nat /\ j \in 1..Len(fs)
      /\ j - 1 \in 0..Len(fs) /\ j - 1 <= Len(gs)
      /\ fs[j].type = "Return" => IsSpine(fs[j].next)
      /\ fs[j].type \in {"Savepoint", "Loop", "Return"}
  BY LinkedFacts
<1>2. CASE fs[j].type = "Loop"
  BY <1>2 DEF FrameFits
<1>3. CASE fs[j].type = "Savepoint"
  <2>1. /\ IsFail(fs[j].on_fail)
        /\ Holds(fs, j - 1, fs[j].depth, fs[j].mark.depth, Scope[fs[j].on_fail])
    BY <1>3 DEF FrameFits
  <2>2. Scope[fs[j].on_fail] \in ScopeRecord
    BY <2>1, HandlerFacts
  <2>3. Holds(gs, j - 1, fs[j].depth, fs[j].mark.depth, Scope[fs[j].on_fail])
    BY <1>1, <2>1, <2>2, HoldsAlike
  <2>. QED
    BY <1>3, <2>1, <2>3 DEF FrameFits
<1>4. CASE fs[j].type = "Return"
  <2>1. Holds(fs, j - 1, fs[j].depth, fs[j].mark.depth, Scope[fs[j].next])
    BY <1>4 DEF FrameFits
  <2>2. Scope[fs[j].next] \in ScopeRecord
    BY <1>1, <1>4, HandlerFacts
  <2>3. Holds(gs, j - 1, fs[j].depth, fs[j].mark.depth, Scope[fs[j].next])
    BY <1>1, <2>1, <2>2, HoldsAlike
  <2>. QED
    BY <1>4, <2>3 DEF FrameFits
<1>. QED
  BY <1>1, <1>2, <1>3, <1>4

(* What is left of a chain when frames are popped.                         *)
LEMMA ChainPrefix ==
  ASSUME Disciplined, NEW fs \in Seq(Linked), Chain(fs), NEW i \in 0..Len(fs)
  PROVE  /\ Chain(SubSeq(fs, 1, i)) /\ SubSeq(fs, 1, i) \in Seq(Linked)
         /\ Len(SubSeq(fs, 1, i)) = i
         /\ \A k \in 1..i : SubSeq(fs, 1, i)[k] = fs[k]
         /\ AlikeTo(fs, SubSeq(fs, 1, i), i)
<1> DEFINE gs == SubSeq(fs, 1, i)
<1>1. /\ gs \in Seq(Linked) /\ Len(gs) = i /\ \A k \in 1..i : gs[k] = fs[k]
  BY PrefixSeq
<1> HIDE DEF gs
<1>2. /\ Len(fs) \in Nat /\ DOMAIN fs = 1..Len(fs) /\ DOMAIN gs = 1..i /\ i \in Nat
  BY <1>1, LinkedFacts
<1>3. \A j \in 0..i : AlikeTo(fs, gs, j)
  <2>1. \A j \in 0..i : \A k \in 1..j : k \in 1..i
    BY <1>2
  <2>. QED
    BY <1>1, <2>1 DEF AlikeTo, Alike
<1>4. ASSUME NEW j \in 1..i
      PROVE  /\ FrameFits(gs, j)
             /\ gs[j].type # "Loop" =>
                  \A m \in 1..j : Under(gs[m], gs[j].depth, gs[j].mark.depth)
  <2>1. j \in 1..Len(fs) /\ j <= Len(gs) /\ j - 1 \in 0..i /\ gs[j] = fs[j]
        /\ j \in DOMAIN fs
    BY <1>1, <1>2
  <2>2. FrameFits(fs, j) /\ AlikeTo(fs, gs, j - 1)
    BY <1>3, <2>1 DEF Chain
  <2>3. FrameFits(gs, j)
    BY <1>1, <2>1, <2>2, FrameFitsAlike
  <2>4. \A m \in 1..j : gs[m] = fs[m]
    BY <1>1, <1>2
  <2>. QED
    BY <2>1, <2>3, <2>4 DEF Chain
<1>5. Chain(gs)
  BY <1>2, <1>4 DEF Chain
<1>6. i \in 0..i
  BY <1>2
<1>. QED
  BY <1>1, <1>3, <1>5, <1>6 DEF gs

(* A chain grows by a frame that fits over all that is open.               *)
LEMMA ChainAppend ==
  ASSUME Disciplined, NEW fs \in Seq(Linked), Chain(fs), NEW f \in Linked,
         f.type = "Loop" => f.on_fail = Nil,
         f.type = "Savepoint" =>
           /\ IsFail(f.on_fail)
           /\ Holds(fs, Len(fs), f.depth, f.mark.depth, Scope[f.on_fail]),
         f.type = "Return" =>
           /\ Holds(fs, Len(fs), f.depth, f.mark.depth, Scope[f.next])
           /\ Prog[f.next].kind \notin Committers \cup {"EndArray", "Halt"}
           /\ f.on_fail # Nil => Reaches(Scope[f.next].open, f.on_fail),
         f.type # "Loop" => Over(fs, f.depth, f.mark.depth)
  PROVE  /\ Chain(Append(fs, f)) /\ Append(fs, f) \in Seq(Linked)
         /\ Len(Append(fs, f)) = Len(fs) + 1 /\ Append(fs, f)[Len(fs) + 1] = f
         /\ \A k \in 1..Len(fs) : Append(fs, f)[k] = fs[k]
         /\ AlikeTo(fs, Append(fs, f), Len(fs))
<1> DEFINE gs == Append(fs, f)
<1>1. /\ gs \in Seq(Linked) /\ Len(gs) = Len(fs) + 1 /\ gs[Len(fs) + 1] = f
      /\ \A k \in 1..Len(fs) : gs[k] = fs[k]
  BY AppendProperties
<1> HIDE DEF gs
<1>2. /\ Len(fs) \in Nat /\ DOMAIN fs = 1..Len(fs)
      /\ DOMAIN gs = 1..Len(fs) + 1
      /\ f.type \in {"Savepoint", "Loop", "Return"}
      /\ f.depth \in Nat /\ f.mark.depth \in Nat
      /\ f.type = "Return" => IsSpine(f.next)
  BY <1>1, LinkedFacts DEF Linked, FrameRecord, Mark
<1>3. \A j \in 0..Len(fs) : AlikeTo(fs, gs, j)
  <2>1. \A j \in 0..Len(fs) : \A k \in 1..j : k \in 1..Len(fs)
    BY <1>2
  <2>. QED
    BY <1>1, <2>1 DEF AlikeTo, Alike
<1>4. ASSUME NEW j \in 1..Len(fs)
      PROVE  /\ FrameFits(gs, j)
             /\ gs[j].type # "Loop" =>
                  \A m \in 1..j : Under(gs[m], gs[j].depth, gs[j].mark.depth)
  <2>1. j <= Len(gs) /\ j - 1 \in 0..Len(fs) /\ gs[j] = fs[j] /\ j \in DOMAIN fs
    BY <1>1, <1>2
  <2>2. FrameFits(fs, j) /\ AlikeTo(fs, gs, j - 1)
    BY <1>3, <2>1 DEF Chain
  <2>3. FrameFits(gs, j)
    BY <1>1, <2>1, <2>2, FrameFitsAlike
  <2>4. \A m \in 1..j : gs[m] = fs[m]
    BY <1>1, <1>2
  <2>. QED
    BY <2>1, <2>3, <2>4 DEF Chain
<1> DEFINE l == Len(fs) + 1
<1>5. FrameFits(gs, l)
  <2>1. l - 1 = Len(fs) /\ Len(fs) \in 0..Len(fs) /\ Len(fs) <= Len(gs)
        /\ AlikeTo(fs, gs, Len(fs))
    BY <1>1, <1>2, <1>3
  <2>2. \A d, t, x : x \in ScopeRecord /\ Holds(fs, Len(fs), d, t, x) =>
                       Holds(gs, Len(fs), d, t, x)
    BY <1>1, <2>1, HoldsAlike
  <2>3. f.type = "Savepoint" => Scope[f.on_fail] \in ScopeRecord
    BY HandlerFacts
  <2>4. f.type = "Return" => Scope[f.next] \in ScopeRecord
    BY <1>2, HandlerFacts
  <2> HIDE DEF l
  <2>5. gs[l] = f
    BY <1>1 DEF l
  <2>6. f.type = "Savepoint" =>
          Holds(gs, l - 1, f.depth, f.mark.depth, Scope[f.on_fail])
    BY <2>1, <2>2, <2>3
  <2>7. f.type = "Return" =>
          Holds(gs, l - 1, f.depth, f.mark.depth, Scope[f.next])
    BY <2>1, <2>2, <2>4
  <2>. QED
    BY <2>5, <2>6, <2>7, Zenon DEF FrameFits
<1>6. gs[l].type # "Loop" =>
        \A m \in 1..l : Under(gs[m], gs[l].depth, gs[l].mark.depth)
  <2>1. \A m \in 1..l : m \in 1..Len(fs) \/ m = l
    BY <1>2
  <2>2. Under(f, f.depth, f.mark.depth)
    BY <1>2 DEF Under
  <2>3. gs[l] = f
    BY <1>1
  <2> HIDE DEF l
  <2>. QED
    BY <1>1, <1>2, <2>1, <2>2, <2>3 DEF Over
<1>7. \A j \in 1..Len(fs) + 1 : j \in 1..Len(fs) \/ j = l
  BY <1>2
<1>8. Chain(gs)
  <2> HIDE DEF l
  <2>. QED
    BY <1>2, <1>4, <1>5, <1>6, <1>7 DEF Chain
<1>9. Len(fs) \in 0..Len(fs)
  BY <1>2
<1>. QED
  BY <1>1, <1>3, <1>8, <1>9 DEF gs

(* Counting an element changes a Loop frame, which restores nothing.       *)
LEMMA ChainCounted ==
  ASSUME Disciplined, NEW fs \in Seq(Linked), Chain(fs), NEW gs \in Seq(Linked),
         Len(gs) = Len(fs),
         \A k \in 1..Len(fs) : /\ gs[k].type = fs[k].type
                               /\ gs[k].on_fail = fs[k].on_fail
                               /\ fs[k].type # "Loop" => gs[k] = fs[k]
  PROVE  /\ Chain(gs) /\ AlikeTo(fs, gs, Len(fs))
         /\ \A d, t : Over(fs, d, t) => Over(gs, d, t)
<1>1. /\ Len(fs) \in Nat /\ DOMAIN fs = 1..Len(fs) /\ DOMAIN gs = 1..Len(fs)
  BY LinkedFacts
<1>2. \A j \in 0..Len(fs) : AlikeTo(fs, gs, j)
  <2>1. \A j \in 0..Len(fs) : \A k \in 1..j : k \in 1..Len(fs)
    BY <1>1
  <2>2. \A k \in 1..Len(fs) : fs[k].type = "Return" => gs[k] = fs[k]
    OBVIOUS
  <2>. QED
    BY <2>1, <2>2 DEF AlikeTo, Alike
<1>3. \A k \in 1..Len(fs) : \A d, t : Under(fs[k], d, t) => Under(gs[k], d, t)
  <2>1. SUFFICES ASSUME NEW k \in 1..Len(fs), NEW d, NEW t, Under(fs[k], d, t)
                 PROVE  Under(gs[k], d, t)
    OBVIOUS
  <2>2. gs[k].type = fs[k].type /\ (fs[k].type # "Loop" => gs[k] = fs[k])
    OBVIOUS
  <2>. QED
    BY <2>1, <2>2 DEF Under
<1>4. ASSUME NEW j \in 1..Len(fs)
      PROVE  /\ FrameFits(gs, j)
             /\ gs[j].type # "Loop" =>
                  \A m \in 1..j : Under(gs[m], gs[j].depth, gs[j].mark.depth)
  <2>1. j <= Len(gs) /\ j - 1 \in 0..Len(fs) /\ j \in DOMAIN fs
        /\ \A m \in 1..j : m \in 1..Len(fs)
    BY <1>1
  <2>2. FrameFits(fs, j) /\ AlikeTo(fs, gs, j - 1)
    BY <1>2, <2>1 DEF Chain
  <2>3. FrameFits(gs, j)
    BY <1>1, <2>1, <2>2, FrameFitsAlike
  <2>4. gs[j].type # "Loop" => gs[j] = fs[j] /\ fs[j].type # "Loop"
    OBVIOUS
  <2>5. fs[j].type # "Loop" =>
          \A m \in 1..j : Under(fs[m], fs[j].depth, fs[j].mark.depth)
    BY <2>1 DEF Chain
  <2>. QED
    BY <1>3, <2>1, <2>3, <2>4, <2>5
<1>5. Chain(gs)
  BY <1>1, <1>4 DEF Chain
<1>6. \A d, t : Over(fs, d, t) => Over(gs, d, t)
  BY <1>1, <1>3 DEF Over
<1>7. Len(fs) \in 0..Len(fs)
  BY <1>1
<1>. QED
  BY <1>2, <1>5, <1>6, <1>7

(* What is over a chain is over what is left of it.                        *)
LEMMA OverPrefix ==
  ASSUME NEW fs \in Seq(Linked), NEW i \in 0..Len(fs), NEW d, NEW t,
         Over(fs, d, t)
  PROVE  Over(SubSeq(fs, 1, i), d, t)
<1> DEFINE gs == SubSeq(fs, 1, i)
<1>1. /\ gs \in Seq(Linked) /\ Len(gs) = i /\ \A k \in 1..i : gs[k] = fs[k]
  BY PrefixSeq
<1> HIDE DEF gs
<1>2. /\ DOMAIN fs = 1..Len(fs) /\ DOMAIN gs = 1..i
      /\ \A k \in 1..i : k \in 1..Len(fs)
  BY <1>1, LinkedFacts
<1>3. Over(gs, d, t)
  BY <1>1, <1>2 DEF Over
<1>. QED
  BY <1>3 DEF gs

(* What a frame of the chain restores is over the frames up to it.         *)
LEMMA OverFrame ==
  ASSUME NEW fs \in Seq(Linked), Chain(fs), NEW i \in 1..Len(fs),
         fs[i].type # "Loop", NEW m \in 0..i
  PROVE  Over(SubSeq(fs, 1, m), fs[i].depth, fs[i].mark.depth)
<1> DEFINE gs == SubSeq(fs, 1, m)
<1>0. /\ Len(fs) \in Nat /\ DOMAIN fs = 1..Len(fs) /\ m \in 0..Len(fs)
  BY LinkedFacts
<1>1. /\ gs \in Seq(Linked) /\ Len(gs) = m /\ \A k \in 1..m : gs[k] = fs[k]
  BY <1>0, PrefixSeq
<1> HIDE DEF gs
<1>2. /\ DOMAIN gs = 1..m /\ \A k \in 1..m : k \in 1..i
  BY <1>0, <1>1, LinkedFacts
<1>3. \A k \in 1..i : Under(fs[k], fs[i].depth, fs[i].mark.depth)
  BY <1>0 DEF Chain
<1>4. Over(gs, fs[i].depth, fs[i].mark.depth)
  BY <1>1, <1>2, <1>3 DEF Over
<1>. QED
  BY <1>4 DEF gs

(* What was over a chain is over a frame more, if it is over that frame.   *)
LEMMA OverAppend ==
  ASSUME NEW fs \in Seq(Linked), NEW f \in Linked, NEW d, NEW t,
         Over(fs, d, t), Under(f, d, t)
  PROVE  Over(Append(fs, f), d, t)
<1> DEFINE gs == Append(fs, f)
<1>1. /\ gs \in Seq(Linked) /\ Len(gs) = Len(fs) + 1 /\ gs[Len(fs) + 1] = f
      /\ \A k \in 1..Len(fs) : gs[k] = fs[k]
  BY AppendProperties
<1> HIDE DEF gs
<1>2. /\ DOMAIN fs = 1..Len(fs) /\ DOMAIN gs = 1..Len(fs) + 1
      /\ \A k \in 1..Len(fs) + 1 : k \in 1..Len(fs) \/ k = Len(fs) + 1
  BY <1>1, LinkedFacts
<1>3. Over(gs, d, t)
  BY <1>1, <1>2 DEF Over
<1>. QED
  BY <1>3 DEF gs

(* A deeper state is over all that a shallower one is over.                *)
LEMMA OverMore ==
  ASSUME NEW fs \in Seq(Linked), NEW d \in Int, NEW t \in Int, Over(fs, d, t),
         NEW e \in Int, NEW u \in Int, d <= e, t <= u
  PROVE  Over(fs, e, u)
<1>1. SUFFICES ASSUME NEW i \in DOMAIN fs, fs[i].type # "Loop"
               PROVE  fs[i].depth <= e /\ fs[i].mark.depth <= u
  BY DEF Over, Under
<1>2. fs[i].depth \in Nat /\ fs[i].mark.depth \in Nat
  BY LinkedFacts
<1>3. fs[i].depth <= d /\ fs[i].mark.depth <= t
  BY <1>1 DEF Over, Under
<1>. QED
  BY <1>2, <1>3

(* A scope that bounds its Savepoints says that what is open is over the   *)
(* whole chain: its own frames were pushed with no more open, and the      *)
(* frames of the callers with less than at the call.                       *)
LEMMA Covered ==
  ASSUME Disciplined, NEW fs \in Seq(Linked), Chain(fs), NEW j \in 0..Len(fs),
         NEW d \in Int, NEW t \in Int, NEW x \in ScopeRecord,
         Holds(fs, j, d, t, x), Bounded(x), NEW k \in 1..j
  PROVE  Under(fs[k], d, t)
<1> DEFINE a == j - Len(x.open)
           l == Len(fs)
           n == Len(x.open)
           p == fs[a].depth
           q == fs[a].mark.depth
           w == x.wins
           u == x.tree
           kd == fs[k].depth
           kt == fs[k].mark.depth
<1>1. /\ w \in Nat /\ u \in Nat /\ n \in Nat /\ l \in Nat
      /\ DOMAIN x.open = 1..n /\ DOMAIN fs = 1..l
      /\ j \in 0..l /\ k \in 1..j /\ a = j - n
  BY ScopeParts, LinkedFacts
<1>2. /\ a >= 0
      /\ \A i \in DOMAIN x.open : /\ fs[a + i].type # "Return"
                                  /\ fs[a + i].on_fail = x.open[i]
      /\ a = 0 => d = w /\ t = u
      /\ a > 0 => fs[a].type = "Return" /\ d = p + w /\ t = q + u
  BY DEF Holds
<1> HIDE DEF a, l, n, w, u
<1>3. /\ a \in Int /\ k \in 1..l /\ (a > 0 => a \in 1..l)
  BY <1>1, <1>2
<1>4. SUFFICES ASSUME fs[k].type # "Loop"
               PROVE  kd <= d /\ kt <= t
  BY DEF Under
<1>5. /\ kd \in Nat /\ kt \in Nat
      /\ fs[k].type \in {"Savepoint", "Loop", "Return"}
  BY <1>3, LinkedFacts DEF l
<1>6. a > 0 => p \in Nat /\ q \in Nat
  BY <1>3, LinkedFacts DEF l
<1>7. CASE k <= a
  <2>1. a > 0 /\ k \in 1..a /\ a \in DOMAIN fs
    BY <1>1, <1>3, <1>7
  <2>2. Under(fs[k], fs[a].depth, fs[a].mark.depth)
    BY <1>2, <2>1 DEF Chain
  <2>3. kd <= p /\ kt <= q
    BY <1>4, <2>2 DEF Under
  <2>4. d = p + w /\ t = q + u /\ p \in Nat /\ q \in Nat
    BY <1>2, <1>6, <2>1
  <2> HIDE DEF kd, kt, p, q
  <2>. QED
    BY <1>1, <1>5, <2>3, <2>4
<1>8. CASE k > a
  <2> DEFINE i == k - a
  <2>1. i \in DOMAIN x.open /\ a + i = k /\ i \in Int
    <3>1. i \in 1..n /\ a + i = k
      BY <1>1, <1>3, <1>8
    <3>. QED
      BY <1>1, <3>1
  <2> HIDE DEF i
  <2>2. fs[k].type = "Savepoint" /\ fs[k].on_fail = x.open[i]
    BY <1>2, <1>4, <1>5, <2>1
  <2> DEFINE h == x.open[i]
             y == Scope[h]
             b == (k - 1) - Len(y.open)
             m == Len(y.open)
             yw == y.wins
             yu == y.tree
             bp == fs[b].depth
             bq == fs[b].mark.depth
  <2>3. IsFail(h) /\ Holds(fs, k - 1, kd, kt, y)
    BY <1>1, <1>3, <2>2 DEF Chain, FrameFits
  <2>4. /\ h # Nil /\ y \in ScopeRecord
    BY <2>3, HandlerFacts
  <2> HIDE DEF h
  <2>5. /\ yw \in Nat /\ yu \in Nat /\ m \in Nat /\ DOMAIN y.open = 1..m
        /\ b = (k - 1) - m
    BY <2>4, ScopeParts
  <2>6. yw <= w /\ yu <= u
    BY <2>1, <2>4 DEF Bounded, h, w, u
  <2> HIDE DEF y
  <2>7. /\ b >= 0
        /\ \A e \in DOMAIN y.open : fs[b + e].type # "Return"
        /\ b = 0 => kd = yw /\ kt = yu
        /\ b > 0 => fs[b].type = "Return" /\ kd = bp + yw /\ kt = bq + yu
    BY <2>3 DEF Holds
  <2> HIDE DEF b, m, yw, yu
  <2>8. b = a
    <3>0. b \in Int /\ b < k /\ a \in Int
      BY <1>1, <1>3, <2>5
    <3>1. ASSUME b < a PROVE FALSE
      <4>1. a - b \in 1..m /\ b + (a - b) = a /\ a > 0
        BY <1>1, <1>3, <1>8, <2>5, <2>7, <3>0, <3>1
      <4>2. a - b \in DOMAIN y.open
        BY <2>5, <4>1
      <4>. QED
        BY <1>2, <2>7, <4>1, <4>2
    <3>2. ASSUME b > a PROVE FALSE
      <4>1. b - a \in 1..n /\ a + (b - a) = b /\ b > 0
        BY <1>1, <1>2, <1>3, <3>0, <3>2
      <4>2. b - a \in DOMAIN x.open
        BY <1>1, <4>1
      <4>. QED
        BY <1>2, <2>7, <4>1, <4>2
    <3>. QED
      BY <3>0, <3>1, <3>2
  <2>9. CASE a = 0
    BY <1>2, <2>6, <2>7, <2>8, <2>9
  <2>10. CASE a > 0
    <3>1. /\ d = p + w /\ t = q + u /\ p \in Nat /\ q \in Nat
          /\ kd = p + yw /\ kt = q + yu
      BY <1>2, <1>6, <2>7, <2>8, <2>10
    <3> HIDE DEF p, q, kd, kt
    <3>2. \A c, e, f \in Nat : e <= f => c + e <= c + f
      OBVIOUS
    <3>3. p + yw <= p + w /\ q + yu <= q + u
      BY <1>1, <2>5, <2>6, <3>1, <3>2, Zenon
    <3>. QED
      BY <3>1, <3>3, Zenon
  <2>. QED
    BY <1>2, <1>3, <2>9, <2>10
<1>. QED
  BY <1>1, <1>3, <1>7, <1>8

(* So it is over all of them when all are counted.                         *)
LEMMA CoveredAll ==
  ASSUME Disciplined, NEW fs \in Seq(Linked), Chain(fs),
         NEW d \in Int, NEW t \in Int, NEW x \in ScopeRecord,
         Holds(fs, Len(fs), d, t, x), Bounded(x)
  PROVE  Over(fs, d, t)
<1>1. DOMAIN fs = 1..Len(fs) /\ Len(fs) \in 0..Len(fs)
  BY LinkedFacts
<1>. QED
  BY <1>1, Covered DEF Over

(* A kont that is led to stands on its scope, or on the Savepoint it drops.*)
LEMMA LeadsStands ==
  ASSUME Disciplined, NEW fs \in Seq(Linked), Chain(fs), NEW d, NEW t,
         NEW s \in ScopeRecord, Holds(fs, Len(fs), d, t, s), NEW n, Leads(s, n)
  PROVE  Stands(fs, d, t, n)
<1>1. CASE Prog[n].kind \notin Committers /\ s = Scope[n]
  BY <1>1 DEF Stands
<1>2. CASE /\ Drops(n) /\ s.open # <<>> /\ IsFail(Newest(s.open))
           /\ Closed(s) = Scope[n]
  <2>1. Len(fs) \in 0..Len(fs) /\ DOMAIN fs = 1..Len(fs)
    BY LinkedFacts
  <2>2. /\ Holds(fs, Len(fs) - 1, d, t, Scope[n]) /\ Len(fs) >= 1
        /\ fs[Len(fs)].type # "Return" /\ fs[Len(fs)].on_fail = Newest(s.open)
    BY <1>2, <2>1, HoldsClosed
  <2>3. Len(fs) \in 1..Len(fs) /\ fs # <<>>
    BY <2>1, <2>2
  <2>4. FrameFits(fs, Len(fs))
    BY <2>1, <2>3 DEF Chain
  <2>5. ~IsFail(Nil)
    BY HandlerFacts
  <2>6. fs[Len(fs)].type # "Loop"
    BY <1>2, <2>2, <2>4, <2>5 DEF FrameFits
  <2>7. fs[Len(fs)].type = "Savepoint"
    BY <2>2, <2>3, <2>6, LinkedFacts
  <2>. QED
    BY <1>2, <2>2, <2>3, <2>7 DEF Stands, Newest
<1>. QED
  BY <1>1, <1>2 DEF Leads

(* A handler that a scope reaches finds its Savepoint in the chain.        *)
LEMMA ReachesReady ==
  ASSUME Disciplined, NEW fs \in Seq(Linked), Chain(fs), NEW j \in 0..Len(fs),
         NEW d, NEW t, NEW x \in ScopeRecord, Holds(fs, j, d, t, x),
         NEW h, IsFail(h), Reaches(x.open, h)
  PROVE  HandlerReady(SubSeq(fs, 1, j), h)
<1> DEFINE a == j - Len(x.open)
           gs == SubSeq(fs, 1, j)
           n == Len(x.open)
<1>1. /\ n \in Nat /\ DOMAIN x.open = 1..n /\ a = j - n
      /\ Len(fs) \in Nat /\ DOMAIN fs = 1..Len(fs) /\ j \in Nat /\ j <= Len(fs)
  BY ScopeParts, LinkedFacts
<1>2. /\ gs \in Seq(Linked) /\ Len(gs) = j /\ \A i \in 1..j : gs[i] = fs[i]
  BY PrefixSeq
<1>3. /\ a >= 0
      /\ \A k \in DOMAIN x.open : /\ fs[a + k].type # "Return"
                                  /\ fs[a + k].on_fail = x.open[k]
  BY DEF Holds
<1>4. PICK k \in DOMAIN x.open : /\ x.open[k] = h
                                 /\ \A m \in k + 1..n : x.open[m] = Nil
                                 /\ Pops(h) \/ k = n
  BY DEF Reaches
<1> HIDE DEF a, gs, n
<1>5. /\ k \in 1..n /\ k \in Int /\ a + k \in 1..j /\ a + n = j
      /\ DOMAIN gs = 1..j /\ a + k \in 1..Len(fs)
  <2>1. k \in 1..n /\ k \in Int
    BY <1>1, <1>4
  <2>2. a + k \in 1..j /\ a + n = j /\ a + k \in 1..Len(fs)
    BY <1>1, <1>3, <2>1
  <2>. QED
    BY <1>2, <2>1, <2>2, LinkedFacts
<1>6. gs[a + k].on_fail = h /\ fs[a + k].on_fail = h /\ fs[a + k].type # "Return"
  BY <1>2, <1>3, <1>4, <1>5
<1>7. ~IsFail(Nil)
  BY HandlerFacts
<1>8. gs[a + k].type = "Savepoint"
  <2>1. FrameFits(fs, a + k)
    BY <1>1, <1>5 DEF Chain
  <2>2. fs[a + k].type # "Loop"
    BY <1>6, <1>7, <2>1 DEF FrameFits
  <2>3. fs[a + k].type = "Savepoint"
    BY <1>5, <1>6, <2>2, LinkedFacts
  <2>. QED
    BY <1>2, <1>5, <2>3
<1>9. ASSUME NEW m \in a + k + 1..j
      PROVE  gs[m].type # "Savepoint"
  <2> DEFINE i == m - a
  <2>1. i \in 1..n /\ i \in k + 1..n /\ a + i = m /\ m \in 1..j /\ m \in 1..Len(fs)
    BY <1>1, <1>3, <1>5
  <2> HIDE DEF i
  <2>2. x.open[i] = Nil
    BY <1>4, <2>1
  <2>3. fs[m].on_fail = Nil
    BY <1>1, <1>3, <2>1, <2>2
  <2>4. FrameFits(fs, m)
    BY <1>1, <2>1 DEF Chain
  <2>5. fs[m].type # "Savepoint"
    BY <1>7, <2>3, <2>4 DEF FrameFits
  <2>. QED
    BY <1>2, <2>1, <2>5
<1>10. Pops(h) \/ a + k = j
  BY <1>4, <1>5
<1>11. a + k \in Savepoints(gs) /\ Len(gs) = j
  BY <1>2, <1>5, <1>8 DEF Savepoints
<1>. QED
  BY <1>6, <1>9, <1>10, <1>11 DEF HandlerReady, gs

(* fail() stops at a Savepoint whose handler is ready to run.              *)
LEMMA UnwindReady ==
  ASSUME NEW fs \in Seq(Linked), NEW i \in Innermost1(Handlers(fs))
  PROVE  /\ i \in 1..Len(fs) /\ IsFail(fs[i].on_fail)
         /\ HandlerReady(SubSeq(fs, 1, i), fs[i].on_fail)
<1>1. /\ i \in DOMAIN fs /\ fs[i].type = "Savepoint" /\ fs[i].on_fail # Nil
  BY DEF Innermost1, Handlers, Savepoints
<1>2. i \in 1..Len(fs) /\ Len(fs) \in Nat /\ i \in 0..Len(fs)
  BY <1>1, LinkedFacts
<1>3. IsFail(fs[i].on_fail)
  BY <1>1, <1>2, LinkedFacts DEF IsFailOrNil
<1> DEFINE gs == SubSeq(fs, 1, i)
<1>4. /\ gs \in Seq(Linked) /\ Len(gs) = i /\ \A k \in 1..i : gs[k] = fs[k]
  BY <1>2, PrefixSeq
<1> HIDE DEF gs
<1>5. DOMAIN gs = 1..i /\ i \in 1..i /\ i + 1..i = {}
  BY <1>2, <1>4, LinkedFacts
<1>6. i \in Savepoints(gs) /\ gs[i].on_fail = fs[i].on_fail
  BY <1>1, <1>4, <1>5 DEF Savepoints
<1>7. HandlerReady(gs, fs[i].on_fail)
  BY <1>4, <1>5, <1>6 DEF HandlerReady
<1>. QED
  BY <1>2, <1>3, <1>7 DEF gs

(* The frames of a good state are linked.                                  *)
LEMMA GoodLinked ==
  ASSUME NEW d, NEW len
  PROVE  /\ GoodFrame(d, len) \subseteq Linked
         /\ Seq(GoodFrame(d, len)) \subseteq Seq(Linked)
<1>1. GoodFrame(d, len) \subseteq Linked
  BY DEF GoodFrame, Linked
<1>. QED
  BY <1>1, SeqMonotonic

(* So are those of this state, and of the next.                            *)
LEMMA FramesLinked ==
  /\ IInv => frames \in Seq(Linked)
  /\ IInv' => frames' \in Seq(Linked)
BY GoodLinked DEF IInv

-----------------------------------------------------------------------------
(* How many nodes the builder has open after each call.                    *)

Shaped(b) ==
  b = [nodes |-> b.nodes, stack |-> b.stack, roots |-> b.roots,
       tag |-> b.tag, count |-> b.count, root |-> b.root]

(* A builder keeps its shape and, but for one member, its members.         *)
LEMMA ShapeFacts ==
  ASSUME NEW b, Shaped(b), NEW v
  PROVE  /\ Shaped([b EXCEPT !.nodes = v]) /\ [b EXCEPT !.nodes = v].stack = b.stack
         /\ Shaped([b EXCEPT !.roots = v]) /\ [b EXCEPT !.roots = v].stack = b.stack
         /\ Shaped([b EXCEPT !.root = v]) /\ [b EXCEPT !.root = v].stack = b.stack
         /\ Shaped([b EXCEPT !.tag = v]) /\ [b EXCEPT !.tag = v].stack = b.stack
         /\ Shaped([b EXCEPT !.count = v]) /\ [b EXCEPT !.count = v].stack = b.stack
         /\ Shaped([b EXCEPT !.stack = v]) /\ [b EXCEPT !.stack = v].stack = v
         /\ [b EXCEPT !.stack = v].nodes = b.nodes
         /\ [b EXCEPT !.nodes = v].nodes = v
BY DEF Shaped

(* The one that matters here.                                              *)
LEMMA StackSet ==
  ASSUME NEW b, Shaped(b), NEW v
  PROVE  Shaped([b EXCEPT !.stack = v]) /\ [b EXCEPT !.stack = v].stack = v
BY ShapeFacts

(* The calls that only touch nodes and children.                           *)
LEMMA StackKept ==
  ASSUME NEW b, Shaped(b), NEW n, NEW id, NEW d, NEW kids
  PROVE  /\ Shaped(SetNode(b, id, n)) /\ SetNode(b, id, n).stack = b.stack
         /\ Shaped(Allocate(b, n)) /\ Allocate(b, n).stack = b.stack
         /\ Shaped(SetKidsAt(b, d, kids)) /\ SetKidsAt(b, d, kids).stack = b.stack
         /\ Shaped(attach(b, id)) /\ attach(b, id).stack = b.stack
         /\ Shaped(Annotate(b, n)) /\ Annotate(b, n).stack = b.stack
<1>1. \A i, x : Shaped(SetNode(b, i, x)) /\ SetNode(b, i, x).stack = b.stack
  BY ShapeFacts DEF SetNode
<1>2. Shaped(Allocate(b, n)) /\ Allocate(b, n).stack = b.stack
  BY ShapeFacts DEF Allocate
<1>3. \A e, ks : Shaped(SetKidsAt(b, e, ks)) /\ SetKidsAt(b, e, ks).stack = b.stack
  <2>1. SUFFICES ASSUME NEW e, NEW ks
                 PROVE Shaped(SetKidsAt(b, e, ks)) /\ SetKidsAt(b, e, ks).stack = b.stack
    OBVIOUS
  <2>2. CASE e = 0
    BY <2>2, ShapeFacts DEF SetKidsAt
  <2>3. CASE e # 0
    BY <2>3, <1>1 DEF SetKidsAt
  <2>. QED
    BY <2>2, <2>3
<1>4. Shaped(attach(b, id)) /\ attach(b, id).stack = b.stack
  BY <1>3 DEF attach
<1>5. Shaped(Annotate(b, n)) /\ Annotate(b, n).stack = b.stack
  <2>1. CASE b.stack = <<>>
    BY <2>1, ShapeFacts DEF Annotate
  <2>2. CASE b.stack # <<>>
    BY <2>2, <1>1 DEF Annotate
  <2>. QED
    BY <2>1, <2>2
<1>. QED
  BY <1>1, <1>2, <1>3, <1>4, <1>5

(* The machine's calls that open and close nothing.                        *)
LEMMA CallsKeep ==
  ASSUME NEW b, Shaped(b), NEW n, NEW v
  PROVE  /\ make_free(b, n).stack = b.stack
         /\ Shaped(make_free(b, n))
         /\ add_field(b, v, n).stack = b.stack
         /\ scope_is_bits_run(b, v).stack = b.stack
         /\ scope_determines_rest(b, v).stack = b.stack
         /\ set_pending_variant_tag(b, v).stack = b.stack
         /\ set_pending_count_field(b, v).stack = b.stack
<1>1. make_free(b, n).stack = b.stack /\ Shaped(make_free(b, n))
  BY StackKept DEF make_free
<1>2. add_field(b, v, n).stack = b.stack
  <2>1. \A x, id : /\ Shaped(attach(Allocate(b, x), id))
                   /\ attach(Allocate(b, x), id).stack = b.stack
    BY StackKept
  <2>2. \A x, id : [attach(Allocate(b, x), id) EXCEPT !.tag = -1].stack = b.stack
    BY <2>1, ShapeFacts
  <2>. QED
    BY <2>2 DEF add_field
<1>3. \A a : Annotate(b, a).stack = b.stack
  BY StackKept
<1>4. /\ scope_is_bits_run(b, v).stack = b.stack
      /\ scope_determines_rest(b, v).stack = b.stack
  BY <1>3 DEF scope_is_bits_run, scope_determines_rest
<1>5. /\ set_pending_variant_tag(b, v).stack = b.stack
      /\ set_pending_count_field(b, v).stack = b.stack
  BY ShapeFacts DEF set_pending_variant_tag, set_pending_count_field
<1>. QED
  BY <1>1, <1>2, <1>4, <1>5

(* The calls that open a node.                                             *)
LEMMA CallsOpen ==
  ASSUME NEW b, Shaped(b), NEW S, b.stack \in Seq(S), NEW v, NEW p, NEW g
  PROVE  /\ Len(begin_struct(b, v, p).stack) = Len(b.stack) + 1
         /\ Len(begin_variant(b, v, p, g).stack) = Len(b.stack) + 1
         /\ Len(begin_array(b, v, p).stack) = Len(b.stack) + 1
<1>1. \A n : /\ Shaped(open(b, n))
             /\ open(b, n).stack = Append(b.stack, Len(b.nodes) + 1)
  <2>1. SUFFICES ASSUME NEW n
                 PROVE  /\ Shaped(open(b, n))
                        /\ open(b, n).stack = Append(b.stack, Len(b.nodes) + 1)
    OBVIOUS
  <2>2. Shaped(Allocate(b, n)) /\ Allocate(b, n).stack = b.stack
    BY StackKept
  <2> DEFINE top == Append(Allocate(b, n).stack, Len(b.nodes) + 1)
             grown == [Allocate(b, n) EXCEPT !.stack = top]
  <2> HIDE DEF top
  <2>3. Shaped(grown) /\ grown.stack = top
    BY <2>2, StackSet
  <2>. QED
    BY <2>2, <2>3 DEF open, top
<1>2. Len(Append(b.stack, Len(b.nodes) + 1)) = Len(b.stack) + 1
  <2>1. b.stack \in Seq(S \cup {Len(b.nodes) + 1})
    BY SeqMonotonic
  <2>. QED
    BY <2>1, AppendProperties
<1>3. Len(begin_struct(b, v, p).stack) = Len(b.stack) + 1
  <2>1. \A n : [open(b, n) EXCEPT !.tag = -1].stack = open(b, n).stack
    BY <1>1, ShapeFacts
  <2>. QED
    BY <1>1, <1>2, <2>1 DEF begin_struct
<1>4. Len(begin_variant(b, v, p, g).stack) = Len(b.stack) + 1
  BY <1>1, <1>2 DEF begin_variant
<1>5. Len(begin_array(b, v, p).stack) = Len(b.stack) + 1
  <2>1. \A n : /\ [open(b, n) EXCEPT !.tag = -1, !.count = <<>>].stack
                    = open(b, n).stack
    <3>1. \A n : /\ Shaped([open(b, n) EXCEPT !.tag = -1])
                 /\ [open(b, n) EXCEPT !.tag = -1].stack = open(b, n).stack
      BY <1>1, ShapeFacts
    <3>2. \A n : [[open(b, n) EXCEPT !.tag = -1] EXCEPT !.count = <<>>].stack
                    = open(b, n).stack
      BY <3>1, ShapeFacts
    <3>. QED
      BY <3>2
  <2>. QED
    BY <1>1, <1>2, <2>1 DEF begin_array
<1>. QED
  BY <1>3, <1>4, <1>5

(* The calls that close a node, and that go back to a mark.                *)
LEMMA CallsClose ==
  ASSUME NEW b, Shaped(b), NEW S, b.stack \in Seq(S)
  PROVE  /\ \A p : b.stack # <<>> =>
                     Len(close(b, p).stack) = Len(b.stack) - 1
         /\ \A m : m.depth \in Nat /\ m.depth <= Len(b.stack) =>
                     Len(restore(b, m).stack) = m.depth
<1>0. Len(b.stack) \in Nat
  BY LenProperties
<1>1. ASSUME NEW p, b.stack # <<>>
      PROVE  Len(close(b, p).stack) = Len(b.stack) - 1
  <2> DEFINE id == Innermost(b)
             ended == SetNode(b, id, [b.nodes[id] EXCEPT !.end = p])
             cut == [ended EXCEPT !.stack = SubSeq(@, 1, Len(@) - 1)]
  <2>1. Shaped(ended) /\ ended.stack = b.stack
    BY StackKept
  <2> HIDE DEF ended
  <2>2. Shaped(cut) /\ cut.stack = SubSeq(b.stack, 1, Len(b.stack) - 1)
    <3> DEFINE rest == SubSeq(ended.stack, 1, Len(ended.stack) - 1)
    <3> HIDE DEF rest
    <3>1. /\ Shaped([ended EXCEPT !.stack = rest])
          /\ [ended EXCEPT !.stack = rest].stack = rest
      BY <2>1, StackSet
    <3>. QED
      BY <2>1, <3>1 DEF rest
  <2> HIDE DEF cut
  <2>3. Len(b.stack) - 1 \in 0..Len(b.stack)
    BY <1>0, <1>1, EmptySeq
  <2>4. attach(cut, id).stack = SubSeq(b.stack, 1, Len(b.stack) - 1)
    BY <2>2, StackKept
  <2>5. Len(SubSeq(b.stack, 1, Len(b.stack) - 1)) = Len(b.stack) - 1
    BY <2>3, PrefixSeq
  <2>. QED
    BY <1>1, <2>4, <2>5 DEF close, cut, ended
<1>2. ASSUME NEW m, m.depth \in Nat, m.depth <= Len(b.stack)
      PROVE  Len(restore(b, m).stack) = m.depth
  <2> DEFINE cut == [b EXCEPT !.stack = Shorten(@, m.depth)]
             d == Len(cut.stack)
  <2>1. Shaped(cut) /\ cut.stack = Shorten(b.stack, m.depth)
    BY StackSet
  <2> HIDE DEF cut
  <2>2. Len(Shorten(b.stack, m.depth)) = m.depth
    <3>1. CASE m.depth < Len(b.stack)
      <4>1. m.depth \in 0..Len(b.stack)
        BY <1>0, <1>2
      <4>. QED
        BY <3>1, <4>1, PrefixSeq DEF Shorten
    <3>2. CASE ~(m.depth < Len(b.stack))
      BY <1>0, <1>2, <3>2 DEF Shorten
    <3>. QED
      BY <3>1, <3>2
  <2>3. SetKidsAt(cut, d, Shorten(KidsAt(cut, d), m.kids)).stack = cut.stack
    BY <2>1, StackKept
  <2>. QED
    BY <2>1, <2>2, <2>3 DEF restore, cut
<1>. QED
  BY <1>1, <1>2

(* The builder of a good state.                                            *)
LEMMA TreeFacts ==
  ASSUME IInv
  PROVE  /\ Shaped(builder) /\ builder.stack \in Seq(1..Len(builder.nodes))
         /\ Tree \in Nat /\ mark(builder).depth = Tree
         /\ builder.stack = <<>> <=> Tree = 0
<1>1. Shaped(builder)
  BY DEF IInv, GoodBuilder, BuilderState, Shaped
<1>2. builder.stack \in Seq(1..Len(builder.nodes))
  BY DEF IInv, GoodBuilder
<1>. QED
  BY <1>1, <1>2, LenProperties, EmptySeq DEF Tree, mark

-----------------------------------------------------------------------------
(* Windows.                                                                *)

(* Every Savepoint of a chain keeps a cursor of its window.                *)
Windowed1(fs) == \A i \in Savepoints(fs) : Window(fs[i].depth, fs[i].pos)

(* Popping and pushing frames keeps the saved cursors in their windows.    *)
LEMMA SavedPrefix ==
  ASSUME NEW fs \in Seq(Linked), Windowed1(fs), NEW i \in 0..Len(fs)
  PROVE  Windowed1(SubSeq(fs, 1, i))
<1> DEFINE gs == SubSeq(fs, 1, i)
<1>1. /\ gs \in Seq(Linked) /\ Len(gs) = i /\ \A k \in 1..i : gs[k] = fs[k]
  BY PrefixSeq
<1> HIDE DEF gs
<1>2. /\ DOMAIN fs = 1..Len(fs) /\ DOMAIN gs = 1..i
      /\ \A k \in 1..i : k \in 1..Len(fs)
  BY <1>1, LinkedFacts
<1>3. \A k \in Savepoints(gs) : k \in Savepoints(fs) /\ gs[k] = fs[k]
  BY <1>1, <1>2 DEF Savepoints
<1>4. Windowed1(gs)
  BY <1>3 DEF Windowed1
<1>. QED
  BY <1>4 DEF gs

(* A new Savepoint is pushed with a cursor inside the window.              *)
LEMMA SavedAppend ==
  ASSUME NEW fs \in Seq(Linked), Windowed1(fs), NEW f \in Linked,
         f.type = "Savepoint" => Window(f.depth, f.pos)
  PROVE  Windowed1(Append(fs, f))
<1> DEFINE gs == Append(fs, f)
<1>1. /\ gs \in Seq(Linked) /\ Len(gs) = Len(fs) + 1 /\ gs[Len(fs) + 1] = f
      /\ \A k \in 1..Len(fs) : gs[k] = fs[k]
  BY AppendProperties
<1> HIDE DEF gs
<1>2. /\ DOMAIN fs = 1..Len(fs) /\ DOMAIN gs = 1..Len(fs) + 1
      /\ \A k \in 1..Len(fs) + 1 : k \in 1..Len(fs) \/ k = Len(fs) + 1
  BY <1>1, LinkedFacts
<1>3. \A k \in Savepoints(gs) : \/ k \in Savepoints(fs) /\ gs[k] = fs[k]
                                \/ gs[k] = f /\ f.type = "Savepoint"
  BY <1>1, <1>2 DEF Savepoints
<1>4. Windowed1(gs)
  BY <1>3 DEF Windowed1
<1>. QED
  BY <1>4 DEF gs

(* The windows still fit when some are closed.                             *)
LEMMA WindowsKept ==
  ASSUME IInv, WindowsFit, slots' = slots, depth' \in Int, depth' <= depth,
         Windowed1(frames')
  PROVE  WindowsFit'
<1>1. \A d, p : Window(d, p)' <=> Window(d, p)
  BY DEF Window
<1>2. depth \in Nat
  BY StateFacts
<1>3. /\ \A d \in 1..depth' : d \in 1..depth
      /\ \A d \in 2..depth' : d \in 2..depth
  BY <1>2
<1>4. \A i \in Savepoints(frames') :
        (slots'[frames'[i].depth].lo <= frames'[i].pos
           /\ frames'[i].pos <= slots'[frames'[i].depth].hi)
        \/ ~(frames'[i].depth > 0)
  BY DEF Windowed1, Window
<1>5. /\ \A d \in 1..depth' : slots'[d].lo <= slots'[d].hi
      /\ \A d \in 2..depth' : /\ slots'[d - 1].lo <= slots'[d].lo
                              /\ slots'[d].hi <= slots'[d - 1].hi
  BY <1>3 DEF WindowsFit
<1>. QED
  BY <1>4, <1>5 DEF WindowsFit, Window

-----------------------------------------------------------------------------
(* What the actions have in common.                                        *)

(* A kont of each sort is next.                                            *)
LEMMA GotoNested ==
  ASSUME Disciplined, NEW n, IsSpine(n), K' = <<Run(n)>>,
         Chain(frames)', Over(frames, depth, Tree)', WindowsFit',
         Stands(frames, depth, Tree, n)',
         Prog[n].kind = "Halt" => frames' = <<>>,
         Prog[n].kind # "PushInterval" =>
           Window(depth, pos)' /\ (pos + Owing(n) <= effective_end)'
  PROVE  WellNested'
<1>1. /\ K' # <<>> /\ Len(K') = 1 /\ K'[1] = Run(n) /\ K'[Len(K')] = Run(n)
      /\ Run(n).node = n /\ Run(n).role = "run"
  BY DEF Run, Kont
<1>2. Prog[n].kind \in SpineKinds /\ Prog[n].kind \notin FailKinds
  BY SortFacts DEF IsSpine
<1>3. ~Opening(K[1])'
  BY <1>1 DEF Opening
<1>4. 1..Len(K') - 1 = {}
  BY <1>1
<1>5. Top'.node = n /\ C'.kind = Prog[n].kind /\ Base' = Prog[n].kind
  BY <1>1 DEF Top, C, Base
<1>6. Standing(K[1])'
  BY <1>1, <1>3 DEF Standing
<1>7. (Running /\ ~Seeking)' => Prog[n].kind # "PushInterval"
  BY <1>5 DEF Seeking
<1>. QED
  BY <1>1, <1>2, <1>4, <1>5, <1>6, <1>7 DEF WellNested

(* A spine kont waits for the expression on top of it.                     *)
LEMMA AwaitNested ==
  ASSUME Disciplined, NEW n, IsSpine(n), NEW e, IsExpr(e),
         K' = <<Apply(n), Run(e)>>,
         Chain(frames)', Over(frames, depth, Tree)', WindowsFit',
         Standing(Apply(n))', Prog[n].kind \notin {"Halt", "ReturnRule"},
         Prog[n].kind # "PushInterval" =>
           Window(depth, pos)' /\ (pos + Owing(n) <= effective_end)'
  PROVE  WellNested'
<1>1. /\ K' # <<>> /\ Len(K') = 2 /\ K'[1] = Apply(n) /\ K'[Len(K')] = Run(e)
      /\ Run(e).node = e /\ Apply(n).node = n
  BY DEF Run, Apply, Kont
<1>2. /\ Prog[n].kind \in SpineKinds /\ Prog[n].kind \notin FailKinds
      /\ Prog[e].kind \notin FailKinds
  BY SortFacts DEF IsSpine, IsExpr
<1>4. \A i \in 1..Len(K') - 1 : i = 1
  BY <1>1
<1>5. Top'.node = e /\ C'.kind = Prog[e].kind /\ Base' = Prog[n].kind
  BY <1>1 DEF Top, C, Base
<1>6. Standing(K[1])'
  BY <1>1
<1>7. (Running /\ ~Seeking)' => Prog[n].kind # "PushInterval"
  BY <1>5 DEF Seeking
<1>. QED
  BY <1>1, <1>2, <1>4, <1>5, <1>6, <1>7 DEF WellNested

(* A failure handler is next.                                              *)
LEMMA HandlerNested ==
  ASSUME Disciplined, NEW h, IsFail(h), K' = <<Run(h)>>,
         Chain(frames)', Over(frames, depth, Tree)', WindowsFit',
         HandlerReady(frames', h)
  PROVE  WellNested'
<1>1. /\ K' # <<>> /\ Len(K') = 1 /\ K'[1] = Run(h) /\ K'[Len(K')] = Run(h)
      /\ Run(h).node = h
  BY DEF Run, Kont
<1>2. Prog[h].kind \in FailKinds
  BY DEF IsFail
<1>4. 1..Len(K') - 1 = {}
  BY <1>1
<1>5. Top'.node = h /\ C'.kind = Prog[h].kind /\ Base' = Prog[h].kind
  BY <1>1 DEF Top, C, Base
<1>6. HandlerReady(frames, Top.node)'
  BY <1>5
<1>7. Seeking'
  BY <1>2, <1>5 DEF Seeking
<1>. QED
  BY <1>1, <1>2, <1>4, <1>5, <1>6, <1>7 DEF WellNested

(* The stack a running machine has: its lowest kont is below what was      *)
(* pushed for it, and no handler is below another kont.                    *)
LEMMA RunFacts ==
  ASSUME IInv, WellNested, K # <<>>
  PROVE  /\ Len(K) \in Nat /\ Len(K) >= 1 /\ Len(Rest) = Len(K) - 1
         /\ \A i \in 1..Len(Rest) : /\ Rest[i] = K[i]
                                    /\ Prog[Rest[i].node].kind \notin FailKinds
         /\ Rest # <<>> => Len(Rest) >= 1 /\ Rest[1] = K[1]
         /\ Rest = <<>> => K[1] = Top
<1>1. /\ Len(builder.nodes) \in Nat /\ Len(input) - pos \in Nat
      /\ K \in GoodStack(Len(builder.nodes), Len(input) - pos)
  BY StateFacts DEF IInv
<1>2. /\ Len(Rest) = Len(K) - 1 /\ \A i \in 1..Len(Rest) : Rest[i] = K[i]
      /\ Rest \in GoodStack(Len(builder.nodes), Len(input) - pos)
  BY <1>1, PopStack DEF Rest
<1>3. Len(K) \in Nat /\ Len(K) >= 1 /\ (Rest # <<>> => Len(Rest) >= 1)
  BY <1>1, <1>2, StackFacts
<1>4. \A i \in 1..Len(Rest) : Prog[Rest[i].node].kind \notin FailKinds
  BY <1>2 DEF WellNested
<1>5. Rest # <<>> => Rest[1] = K[1]
  BY <1>2, <1>3
<1>6. Rest = <<>> => K[1] = Top
  <2>1. Rest = <<>> => Len(Rest) = 0
    OBVIOUS
  <2>2. Rest = <<>> => Len(K) = 1
    BY <1>2, <1>3, <2>1
  <2>. QED
    BY <2>2 DEF Top
<1>. QED
  BY <1>2, <1>3, <1>4, <1>5, <1>6

(* What waits for another kont is no return.                               *)
LEMMA WaitsBase ==
  ASSUME IInv, WellNested, K # <<>>, C.kind # "ReturnRule" \/ Rest # <<>>
  PROVE  Base # "ReturnRule"
<1>1. Len(K) > 1 => Base # "ReturnRule"
  BY DEF WellNested
<1>2. CASE Rest = <<>>
  BY <1>2, RunFacts DEF Base, C
<1>3. CASE Rest # <<>>
  <2>1. Len(K) \in Nat /\ Len(Rest) = Len(K) - 1 /\ Len(Rest) >= 1
    BY <1>3, RunFacts
  <2>. QED
    BY <1>1, <2>1
<1>. QED
  BY <1>2, <1>3

(* fail() leaves a chain with the handler's Savepoint innermost, over what *)
(* is left of the stack.                                                   *)
LEMMA UnwindNested ==
  ASSUME Disciplined, IInv, WellNested, K # <<>>,
         NEW p, NEW fs \in Seq(Linked), NEW rest, Unwind(p, fs, rest),
         Chain(fs), Windowed1(fs), Over(fs, depth', Tree'),
         job' = job, slots' = slots, depth' \in Int, depth' <= depth,
         \/ rest = <<>>
         \/ /\ rest = Rest /\ ~failed /\ pos' = pos /\ depth' = depth
            /\ C.kind \notin SpineKinds \cup FailKinds
  PROVE  WellNested'
<1>1. CASE Handlers(fs) = {}
  <2>1. frames' = <<>> /\ K' = rest /\ failed' = TRUE
    BY <1>1 DEF Unwind, Innermost1
  <2>2. /\ DOMAIN frames' = {} /\ Windowed1(frames')
    BY <2>1 DEF Windowed1, Savepoints
  <2>3. Chain(frames)' /\ Over(frames, depth, Tree)'
    BY <2>2 DEF Chain, Over
  <2>4. WindowsFit'
    BY <2>2, WindowsKept DEF WellNested
  <2>5. CASE rest = <<>>
    BY <2>1, <2>3, <2>4, <2>5 DEF WellNested, Running
  <2>6. CASE rest # <<>>
    <3>1. rest = Rest /\ Len(Rest) \in Nat /\ K'[1] = K[1]
          /\ \A i \in 1..Len(K') - 1 : Prog[K'[i].node].kind \notin FailKinds
          /\ Base # "ReturnRule"
      <4>1. /\ rest = Rest /\ K' = Rest /\ Rest # <<>>
        BY <2>1, <2>6
      <4>2. Len(Rest) \in Nat /\ Base # "ReturnRule"
        BY <4>1, WaitsBase, RunFacts
      <4>3. \A i \in 1..Len(Rest) - 1 : i \in 1..Len(Rest)
        BY <4>2
      <4>. QED
        BY <4>1, <4>2, <4>3, RunFacts
    <3>2. Base' = Base /\ Base \in SpineKinds \cup FailKinds
      BY <3>1 DEF Base, WellNested
    <3>. QED
      BY <2>1, <2>3, <2>4, <3>1, <3>2 DEF WellNested, Running
  <2>. QED
    BY <2>5, <2>6
<1>2. CASE Handlers(fs) # {}
  <2>1. PICK i \in Innermost1(Handlers(fs)) :
          /\ frames' = SubSeq(fs, 1, i)
          /\ K' = Append(rest, Run(fs[i].on_fail))
          /\ failed' = FALSE
    BY <1>2 DEF Unwind
  <2> DEFINE h == fs[i].on_fail
  <2>2. /\ i \in 1..Len(fs) /\ IsFail(h) /\ HandlerReady(frames', h)
    BY <2>1, UnwindReady
  <2>3. i \in 0..Len(fs)
    BY <2>2, LinkedFacts
  <2>4. Chain(frames)'
    BY <2>1, <2>3, ChainPrefix
  <2>5. Over(frames, depth, Tree)'
    BY <2>1, <2>3, OverPrefix
  <2>6. WindowsFit'
    BY <2>1, <2>3, SavedPrefix, WindowsKept DEF WellNested
  <2> HIDE DEF h
  <2>7. CASE rest = <<>>
    <3>1. K' = <<Run(h)>>
      BY <2>1, <2>7 DEF h
    <3>. QED
      BY <2>2, <2>4, <2>5, <2>6, <3>1, HandlerNested
  <2>8. CASE rest # <<>>
    <3>1. /\ rest = Rest /\ ~failed /\ pos' = pos /\ depth' = depth
          /\ K' = Append(Rest, Run(h))
      BY <2>1, <2>8 DEF h
    <3>2. /\ Len(Rest) \in Nat /\ Len(Rest) >= 1 /\ Rest[1] = K[1]
          /\ \A j \in 1..Len(Rest) : Prog[Rest[j].node].kind \notin FailKinds
      BY <2>8, <3>1, RunFacts
    <3>3. /\ Len(K') = Len(Rest) + 1 /\ K'[Len(Rest) + 1] = Run(h)
          /\ \A j \in 1..Len(Rest) : K'[j] = Rest[j]
      <4>1. Rest \in Seq(GoodKont(Len(builder.nodes), Len(input) - pos))
        BY TopFacts DEF GoodStack
      <4>2. Rest \in Seq(GoodKont(Len(builder.nodes), Len(input) - pos)
                           \cup {Run(h)})
        BY <4>1, SeqMonotonic
      <4>. QED
        BY <3>1, <4>2, AppendProperties
    <3>4. /\ K' # <<>> /\ K'[1] = K[1]
          /\ K'[Len(K')] = Run(h) /\ Run(h).node = h
          /\ \A j \in 1..Len(K') - 1 : Prog[K'[j].node].kind \notin FailKinds
      <4>1. Len(K') - 1 = Len(Rest) /\ 1 \in 1..Len(Rest)
        BY <3>2, <3>3
      <4>2. K' # <<>>
        BY <3>2, <3>3
      <4>. QED
        BY <3>2, <3>3, <4>1, <4>2 DEF Run, Kont
    <3>5. /\ Base' = Base /\ Base \in SpineKinds \cup FailKinds
          /\ Top'.node = h /\ C'.kind \in FailKinds
      BY <2>2, <3>1, <3>4 DEF Base, WellNested, Top, C, IsFail
    <3>8. Base # "ReturnRule"
      BY <2>8, <3>1, WaitsBase
    <3>6. HandlerReady(frames, Top.node)'
      BY <2>2, <3>5
    <3>7. (Running /\ ~Seeking)' =>
            Window(depth, pos)' /\ (pos + Owing(K[1].node) <= effective_end)'
      <4>1. ASSUME ~Seeking' PROVE Running /\ ~Seeking
        BY <3>1, <3>5, <4>1 DEF Seeking, Running
      <4>2. ASSUME Running, ~Seeking
            PROVE  Window(depth, pos) /\ pos + Owing(K[1].node) <= effective_end
        BY <4>2 DEF WellNested
      <4>3. /\ Window(depth, pos)' <=> Window(depth, pos)
            /\ effective_end' = effective_end /\ K'[1].node = K[1].node
        BY <3>1, <3>4 DEF Window, effective_end, EndAt, input
      <4>. QED
        BY <3>1, <4>1, <4>2, <4>3
    <3>. QED
      BY <2>4, <2>5, <2>6, <3>4, <3>5, <3>6, <3>7, <3>8 DEF WellNested
  <2>. QED
    BY <2>7, <2>8
<1>. QED
  BY <1>1, <1>2

(* The failure of an operation that changed nothing.                       *)
LEMMA FailNested ==
  ASSUME Disciplined, IInv, WellNested, Running, C.kind \notin FailKinds, Fail
  PROVE  WellNested'
<1>1. /\ Unwind(pos, frames, Rest)
      /\ UNCHANGED <<job, pos, slots, depth, builder>>
  BY DEF Fail, window
<1>2. /\ frames \in Seq(Linked) /\ Chain(frames) /\ Windowed1(frames)
      /\ Over(frames, depth, Tree)
  BY FramesLinked DEF WellNested, WindowsFit, Windowed1
<1>3. Over(frames, depth', Tree')
  BY <1>1, <1>2 DEF Tree
<1>4. depth \in Int /\ depth <= depth
  BY StateFacts
<1>5. C.kind \in SpineKinds => Rest = <<>>
  BY SpineAlone DEF Running
<1>. QED
  BY <1>1, <1>2, <1>3, <1>4, <1>5, UnwindNested DEF Running

(* A step of an expression, or of the kont that waits for it: the kont at  *)
(* the bottom of the stack stays where it stands.                          *)
LEMMA SameBaseNested ==
  ASSUME Disciplined, IInv, WellNested, Running, C.kind \notin FailKinds,
         C.kind # "ReturnRule",
         UNCHANGED <<job, pos, slots, depth, frames, failed>>,
         builder'.stack = builder.stack,
         K' # <<>>, K'[1].node = K[1].node, Opening(K'[1]) <=> Opening(K[1]),
         NEW T, K' \in Seq(T),
         \A i \in 1..Len(K') : Prog[K'[i].node].kind \notin FailKinds
  PROVE  WellNested'
<1>1. Tree' = Tree /\ depth \in Int /\ depth <= depth
  BY StateFacts DEF Tree
<1>2. Windowed1(frames')
  BY DEF WellNested, WindowsFit, Windowed1
<1>3. WindowsFit'
  BY <1>1, <1>2, WindowsKept DEF WellNested
<1>4. Chain(frames)' /\ Over(frames, depth, Tree)'
  BY <1>1 DEF WellNested
<1>5. Len(K') \in Nat /\ Len(K') >= 1
  BY LenProperties, EmptySeq
<1>6. /\ Len(K') \in 1..Len(K') /\ \A i \in 1..Len(K') - 1 : i \in 1..Len(K')
  BY <1>5
<1>7. C'.kind \notin FailKinds
  BY <1>6 DEF C, Top
<1>8. Base' = Base /\ Base \in SpineKinds \cup FailKinds
  BY DEF Base, WellNested, Running
<1>9. Standing(K[1])' /\ (Base = "Halt" => frames' = <<>>)
  <2>1. Standing(K[1]) /\ (Base = "Halt" => frames = <<>>)
    BY DEF WellNested
  <2>2. Standing(K[1])' <=> Standing(K[1])
    BY <1>1, Zenon DEF Standing
  <2>. QED
    BY <2>1, <2>2
<1>10. (Running /\ ~Seeking)' =>
            Window(depth, pos)' /\ (pos + Owing(K[1].node) <= effective_end)'
  <2>1. Seeking' <=> Seeking
    BY <1>8 DEF Seeking
  <2>2. /\ Window(depth, pos)' <=> Window(depth, pos)
        /\ effective_end' = effective_end
    BY DEF Window, effective_end, EndAt, input
  <2>. QED
    BY <2>1, <2>2 DEF WellNested
<1>11. Base # "ReturnRule"
  BY WaitsBase DEF Running
<1>. QED
  BY <1>3, <1>4, <1>6, <1>7, <1>8, <1>9, <1>10, <1>11 DEF WellNested

-----------------------------------------------------------------------------
(* Expressions: none of them touches what the scopes are about.            *)

(* An expression always has a kont to deliver to.                          *)
LEMMA ExprFacts ==
  ASSUME IInv, WellNested, K # <<>>, C.kind \in ExprKinds
  PROVE  /\ Rest # <<>> /\ C.kind \notin FailKinds /\ C.kind \notin SpineKinds
         /\ C.kind # "ReturnRule"
<1>1. /\ C.kind \notin FailKinds /\ C.kind \notin SpineKinds
      /\ C.kind # "ReturnRule"
  BY SortFacts DEF ExprKinds
<1>2. Base \in SpineKinds \cup FailKinds
  BY DEF WellNested
<1>3. Rest = <<>> => Base = C.kind
  BY RunFacts DEF Base, C
<1>. QED
  BY <1>1, <1>2, <1>3

(* Pushing konts of which none is a handler, on what was under the top.    *)
LEMMA PushNested ==
  ASSUME Disciplined, IInv, WellNested, Running, C.kind \notin FailKinds,
         C.kind # "ReturnRule",
         UNCHANGED <<job, pos, slots, depth, frames, failed>>,
         builder'.stack = builder.stack,
         NEW S, NEW ks \in Seq(S), K' = Rest \o ks,
         \A k \in S : Prog[k.node].kind \notin FailKinds,
         \/ Rest # <<>>
         \/ /\ ks # <<>> /\ ks[1].node = Top.node
            /\ ~Opening(ks[1]) /\ ~Opening(Top)
  PROVE  WellNested'
<1> DEFINE T == S \cup GoodKont(Len(builder.nodes), Len(input) - pos)
<1>0. K # <<>>
  BY DEF Running
<1>1. /\ Rest \in Seq(GoodKont(Len(builder.nodes), Len(input) - pos))
      /\ \A i \in 1..Len(Rest) : Prog[Rest[i].node].kind \notin FailKinds
  BY <1>0, TopFacts, RunFacts DEF GoodStack
<1>2. Rest \in Seq(T) /\ ks \in Seq(T)
  BY <1>1, SeqMonotonic
<1> HIDE DEF T
<1>3. /\ K' \in Seq(T) /\ Len(K') = Len(Rest) + Len(ks)
      /\ \A i \in 1..Len(Rest) + Len(ks) :
           K'[i] = IF i <= Len(Rest) THEN Rest[i] ELSE ks[i - Len(Rest)]
  BY <1>2, ConcatProperties
<1>4. /\ Len(Rest) \in Nat /\ Len(ks) \in Nat
      /\ Rest # <<>> => Len(Rest) >= 1
      /\ ks # <<>> => Len(ks) >= 1
      /\ \A i \in 1..Len(ks) : Prog[ks[i].node].kind \notin FailKinds
  BY <1>2, LenProperties, EmptySeq, ElementOfSeq
<1>5. ASSUME NEW i \in 1..Len(K')
      PROVE  Prog[K'[i].node].kind \notin FailKinds
  <2>1. CASE i <= Len(Rest)
    BY <1>1, <1>3, <1>4, <2>1
  <2>2. CASE ~(i <= Len(Rest))
    <3>1. i - Len(Rest) \in 1..Len(ks) /\ K'[i] = ks[i - Len(Rest)]
      BY <1>3, <1>4, <2>2
    <3>. QED
      BY <1>4, <3>1
  <2>. QED
    BY <2>1, <2>2
<1>6. /\ K' # <<>> /\ K'[1].node = K[1].node /\ (Opening(K'[1]) <=> Opening(K[1]))
      /\ Len(K') >= 1 /\ Len(K') \in Nat
  <2>1. CASE Rest # <<>>
    <3>1. K'[1] = Rest[1] /\ Rest[1] = K[1] /\ Len(K') >= 1 /\ Len(K') \in Nat
      BY <1>0, <1>3, <1>4, <2>1, RunFacts
    <3>2. K' # <<>>
      BY <3>1
    <3>. QED
      BY <3>1, <3>2
  <2>2. CASE Rest = <<>>
    <3>0. Len(Rest) = 0
      BY <2>2
    <3>1. K'[1] = ks[1] /\ Top = K[1] /\ Len(K') >= 1 /\ Len(K') \in Nat
      BY <1>0, <1>3, <1>4, <2>2, <3>0, RunFacts
    <3>2. K' # <<>>
      BY <3>1
    <3>. QED
      BY <2>2, <3>1, <3>2
  <2>. QED
    BY <2>1, <2>2
<1>. QED
  BY <1>3, <1>5, <1>6, SameBaseNested

(* An expression that delivers its value.                                  *)
LEMMA DeliverNested ==
  ASSUME Disciplined, IInv, WellNested, Running, C.kind \in ExprKinds,
         UNCHANGED <<job, pos, slots, depth, frames, failed>>,
         builder'.stack = builder.stack, K' = Rest
  PROVE  WellNested'
<1>1. C.kind \notin FailKinds /\ C.kind # "ReturnRule" /\ Rest # <<>>
  BY ExprFacts DEF Running
<1>2. Rest \o <<>> = Rest
  BY TopFacts, StackFacts, StateFacts, ConcatEmptySeq DEF Running
<1> DEFINE S == {}
           ks == <<>>
<1>3. ks \in Seq(S) /\ K' = Rest \o ks
  BY <1>2, EmptySeq
<1>4. \A k \in S : Prog[k.node].kind \notin FailKinds
  OBVIOUS
<1> HIDE DEF S, ks
<1>. QED
  BY <1>1, <1>3, <1>4, PushNested

(* The same of one that leaves the builder alone.                          *)
LEMMA GiveNested ==
  ASSUME Disciplined, IInv, WellNested, Running, C.kind \in ExprKinds,
         NEW v, Give(v)
  PROVE  WellNested'
BY DeliverNested DEF Give, status, window, store

(* A node of the expression's kind is no handler.                          *)
LEMMA CalmNode ==
  ASSUME NEW n, IsExpr(n) \/ IsSpine(n)
  PROVE  /\ Prog[n].kind \notin FailKinds
         /\ Run(n).node = n /\ Apply(n).node = n
         /\ \A role, vals, i : Kont(role, n, vals, i).node = n
BY SortFacts DEF IsExpr, IsSpine, Run, Apply, Kont

(* An expression that schedules more of itself.                            *)
LEMMA ScheduleNested ==
  ASSUME Disciplined, IInv, WellNested, Running, C.kind \in ExprKinds,
         NEW S, NEW ks \in Seq(S), Schedule(ks),
         \A k \in S : k.node = Top.node \/ IsExpr(k.node)
  PROVE  WellNested'
<1>1. C.kind \notin FailKinds /\ C.kind # "ReturnRule" /\ Rest # <<>>
  BY ExprFacts DEF Running
<1>2. \A k \in S : Prog[k.node].kind \notin FailKinds
  BY <1>1, CalmNode DEF C
<1>. QED
  BY <1>1, <1>2, PushNested DEF Schedule, status, window, store

(* An expression with one operand, or one that goes on as another.         *)
LEMMA OperandNested ==
  ASSUME Disciplined, IInv, WellNested, Running, C.kind \in ExprKinds,
         NEW e, IsExpr(e), NEW role, NEW vals, NEW i,
         \/ Schedule(<<Kont(role, Top.node, vals, i), Run(e)>>)
         \/ Schedule(<<Run(e)>>)
  PROVE  WellNested'
<1> DEFINE k == Kont(role, Top.node, vals, i)
           S == {k, Run(e)}
<1>1. k.node = Top.node /\ Run(e).node = e
  BY DEF Kont, Run
<1> HIDE DEF k
<1>2. <<k, Run(e)>> \in Seq(S) /\ <<Run(e)>> \in Seq(S)
  OBVIOUS
<1>3. \A l \in S : l.node = Top.node \/ IsExpr(l.node)
  BY <1>1
<1>4. Schedule(<<k, Run(e)>>) \/ Schedule(<<Run(e)>>)
  BY DEF k
<1> HIDE DEF S
<1>. QED
  BY <1>2, <1>3, <1>4, ScheduleNested

(* A control of an expression kind, and one of another.                    *)
LEMMA ControlFacts ==
  ASSUME NEW role, NEW kind, Control(role, kind)
  PROVE  /\ Running /\ K # <<>> /\ ~failed /\ C.kind = kind /\ Top.role = role
         /\ Top.node \in KontId
BY DEF Control, Running

(* The expressions that deliver at once.                                   *)
LEMMA LeafNested ==
  ASSUME Disciplined, IInv, WellNested,
         Lit \/ Ref \/ Pos \/ Remaining \/ EOI \/ Start \/ End \/ LoopVar
           \/ PathStart \/ FieldAccessApply \/ IndexAccessApply
           \/ CaptureValueApply
  PROVE  WellNested'
<1>1. Running /\ C.kind \in ExprKinds /\ C.kind \notin FailKinds
  BY SortFacts, Zenon DEF Lit, Ref, Pos, Remaining, EOI, Start, End, LoopVar,
        PathStart, FieldAccessApply, IndexAccessApply, CaptureValueApply,
        Control, Running, ExprKinds
<1>2. Fail \/ \E v : Give(v)
  BY Zenon DEF Lit, Ref, Pos, Remaining, EOI, Start, End, LoopVar,
        PathStart, FieldAccessApply, IndexAccessApply, CaptureValueApply
<1>. QED
  BY <1>1, <1>2, FailNested, GiveNested

(* The current field's bytes as a value.                                   *)
LEMMA BufferNested ==
  ASSUME Disciplined, IInv, WellNested, Buffer
  PROVE  WellNested'
<1>1. Running /\ C.kind \in ExprKinds
  BY DEF Buffer, Control, Running, ExprKinds
<1>2. /\ UNCHANGED <<job, pos, slots, depth, frames, failed>> /\ K' = Rest
      /\ \E n : builder' = make_free(builder, n)
  BY DEF Buffer, status, window, store
<1>3. builder'.stack = builder.stack
  BY <1>2, TreeFacts, CallsKeep
<1>. QED
  BY <1>1, <1>2, <1>3, DeliverNested

(* Binary operators and indexing.                                          *)
LEMMA BinOpNested ==
  ASSUME Disciplined, IInv, WellNested, BinOp
  PROVE  WellNested'
<1> DEFINE left == Kont("left", Top.node, <<>>, 0)
           S == {Apply(Top.node), left, Run(C.right)}
<1>1. /\ Running /\ K # <<>> /\ C.kind \in {"Bin", "IndexAccess"}
      /\ C.kind \in ExprKinds
      /\ Schedule(<<Apply(Top.node), left, Run(C.right)>>)
  BY DEF BinOp, Control, Running, ExprKinds
<1>2. IsExpr(C.right)
  BY <1>1, OperandFacts
<1>3. left.node = Top.node /\ Apply(Top.node).node = Top.node
      /\ Run(C.right).node = C.right
  BY DEF Kont, Apply, Run
<1> HIDE DEF left
<1>4. \A k \in S : k.node = Top.node \/ IsExpr(k.node)
  BY <1>2, <1>3
<1>5. <<Apply(Top.node), left, Run(C.right)>> \in Seq(S)
  OBVIOUS
<1> HIDE DEF S
<1>. QED
  BY <1>1, <1>4, <1>5, ScheduleNested

Stored(a, v) == [Rest EXCEPT ![a] = [Rest[a] EXCEPT !.vals = v]]

(* A kont of the stack that gets a value stays the same kont.              *)
LEMMA StoredNode ==
  ASSUME IInv, K # <<>>, NEW a, NEW v
  PROVE  /\ \A i \in 1..Len(Rest) : /\ Stored(a, v)[i].node = Rest[i].node
                                   /\ Stored(a, v)[i].role = Rest[i].role
         /\ \E S : Stored(a, v) \in Seq(S) /\ Len(Stored(a, v)) = Len(Rest)
<1> DEFINE s == Stored(a, v)
<1>1. /\ DOMAIN Rest = 1..Len(Rest) /\ Len(Rest) \in Nat
      /\ \A i \in 1..Len(Rest) : Rest[i] \in KontRecord
      /\ Rest = [i \in 1..Len(Rest) |-> Rest[i]]
  <2> DEFINE n == Len(builder.nodes)
             room == Len(input) - pos
  <2>1. n \in Nat /\ room \in Nat /\ Rest \in GoodStack(n, room)
    BY TopFacts, StateFacts
  <2>2. /\ DOMAIN Rest = 1..Len(Rest) /\ Len(Rest) \in Nat
        /\ \A i \in 1..Len(Rest) : Rest[i] \in GoodKont(n, room)
        /\ Rest \in Seq(GoodKont(n, room))
    BY <2>1, StackFacts
  <2>3. GoodKont(n, room) \subseteq KontRecord
    BY DEF GoodKont
  <2>. QED
    BY <2>2, <2>3, LenProperties
<1>2. \A i \in 1..Len(Rest) : /\ [Rest[i] EXCEPT !.vals = v].node = Rest[i].node
                             /\ [Rest[i] EXCEPT !.vals = v].role = Rest[i].role
  BY <1>1 DEF KontRecord
<1>3. s = [i \in 1..Len(Rest) |-> IF i = a THEN [Rest[a] EXCEPT !.vals = v]
                                            ELSE Rest[i]]
  BY <1>1 DEF Stored
<1>4. \A i \in 1..Len(Rest) : s[i] = IF i = a THEN [Rest[i] EXCEPT !.vals = v]
                                              ELSE Rest[i]
  BY <1>3
<1> DEFINE S == {s[i] : i \in 1..Len(Rest)}
<1>5. s \in Seq(S) /\ Len(s) = Len(Rest)
  <2> DEFINE F(i) == IF i = a THEN [Rest[a] EXCEPT !.vals = v] ELSE Rest[i]
  <2>1. \A i \in 1..Len(Rest) : F(i) \in S
    BY <1>4
  <2> HIDE DEF S, F
  <2>2. [i \in 1..Len(Rest) |-> F(i)] \in Seq(S)
    BY <1>1, <2>1, IsASeq
  <2>3. Len([i \in 1..Len(Rest) |-> F(i)]) = Len(Rest)
    BY <1>1, <2>1, IsASeq
  <2>. QED
    BY <1>3, <2>2, <2>3 DEF F
<1>6. \A i \in 1..Len(Rest) : /\ s[i].node = Rest[i].node
                             /\ s[i].role = Rest[i].role
  BY <1>2, <1>4
<1>. QED
  BY <1>5, <1>6

(* EvalLeft, and the storing of an argument.                               *)
LEMMA StoreNested ==
  ASSUME Disciplined, IInv, WellNested, EvalLeft \/ ArgStore
  PROVE  WellNested'
<1>1. /\ Running /\ K # <<>> /\ C.kind \in ExprKinds
      /\ UNCHANGED <<job, pos, slots, depth, frames, failed, builder>>
  BY Zenon DEF EvalLeft, ArgStore, Control, Running, ExprKinds, status, window, store
<1>2. /\ C.kind \notin FailKinds /\ C.kind # "ReturnRule"
      /\ Rest # <<>> /\ builder'.stack = builder.stack
  BY <1>1, ExprFacts
<1>3. /\ Len(Rest) \in Nat /\ Len(Rest) >= 1 /\ Rest[1] = K[1]
      /\ \A i \in 1..Len(Rest) : Prog[Rest[i].node].kind \notin FailKinds
  BY <1>1, <1>2, RunFacts
<1>4. ASSUME NEW a, NEW v
      PROVE  /\ \E S : Stored(a, v) \in Seq(S) /\ Len(Stored(a, v)) = Len(Rest)
             /\ \A i \in 1..Len(Rest) :
                  Prog[Stored(a, v)[i].node].kind \notin FailKinds
             /\ Stored(a, v)[1].node = K[1].node
             /\ Opening(Stored(a, v)[1]) <=> Opening(K[1])
  <2>1. /\ \E S : Stored(a, v) \in Seq(S) /\ Len(Stored(a, v)) = Len(Rest)
        /\ \A i \in 1..Len(Rest) : /\ Stored(a, v)[i].node = Rest[i].node
                                   /\ Stored(a, v)[i].role = Rest[i].role
    BY <1>1, StoredNode
  <2>2. 1 \in 1..Len(Rest)
    BY <1>3
  <2>. QED
    BY <1>3, <2>1, <2>2 DEF Opening
<1>5. CASE ArgStore
  <2> DEFINE a == Len(Rest) - 2 * (Len(C.args) - 1 - Top.i)
             v == [Rest[a].vals EXCEPT ![Top.i + 1] = ac]
  <2>2. K' = Stored(a, v)
    BY <1>5 DEF ArgStore, Stored
  <2> HIDE DEF a, v
  <2>3. /\ (\E S : K' \in Seq(S)) /\ Len(K') = Len(Rest) /\ K'[1].node = K[1].node
        /\ Opening(K'[1]) <=> Opening(K[1])
        /\ \A i \in 1..Len(K') : Prog[K'[i].node].kind \notin FailKinds
    BY <1>4, <2>2
  <2>4. K' # <<>>
    BY <1>3, <2>3
  <2>. QED
    BY <1>1, <1>2, <2>3, <2>4, SameBaseNested
<1>6. CASE EvalLeft
  <2> DEFINE s == Stored(Len(Rest), <<ac>>)
  <2>1. K' = Append(s, Run(C.left)) /\ C.kind \in {"Bin", "IndexAccess"}
    BY <1>6 DEF EvalLeft, Control, Stored
  <2>2. IsExpr(C.left)
    BY <1>1, <2>1, OperandFacts
  <2>3. PICK S : s \in Seq(S) /\ Len(s) = Len(Rest)
    BY <1>4
  <2>4. /\ s[1].node = K[1].node /\ (Opening(s[1]) <=> Opening(K[1]))
        /\ \A i \in 1..Len(Rest) : Prog[s[i].node].kind \notin FailKinds
    BY <1>4
  <2> HIDE DEF s
  <2> DEFINE T == S \cup {Run(C.left)}
  <2>5. s \in Seq(T) /\ Run(C.left) \in T
    BY <2>3, SeqMonotonic
  <2> HIDE DEF T
  <2>6. /\ K' \in Seq(T) /\ Len(K') = Len(Rest) + 1
        /\ K'[Len(Rest) + 1] = Run(C.left)
        /\ \A i \in 1..Len(Rest) : K'[i] = s[i]
    BY <2>1, <2>3, <2>5, AppendProperties
  <2>7. Prog[Run(C.left).node].kind \notin FailKinds
    BY <2>2, CalmNode
  <2>8. \A i \in 1..Len(K') : i \in 1..Len(Rest) \/ i = Len(Rest) + 1
    BY <1>3, <2>6
  <2>9. \A i \in 1..Len(K') : Prog[K'[i].node].kind \notin FailKinds
    BY <2>4, <2>6, <2>7, <2>8
  <2>10. K' # <<>> /\ K'[1] = s[1]
    BY <1>3, <2>6
  <2>. QED
    BY <1>1, <1>2, <2>4, <2>6, <2>9, <2>10, SameBaseNested
<1>. QED
  BY <1>5, <1>6

(* Unary operators, logic and conditionals.                                *)
LEMMA OperatorNested ==
  ASSUME Disciplined, IInv, WellNested,
         ApplyBin \/ UnOp \/ ApplyUn \/ Logical \/ LogicalCheck \/ Normalize
           \/ Ternary \/ TernaryDispatch \/ CallApply
  PROVE  WellNested'
<1>1. /\ Running /\ K # <<>> /\ C.kind \in ExprKinds /\ C.kind \notin FailKinds
  BY SortFacts, Zenon DEF ApplyBin, UnOp, ApplyUn, Logical, LogicalCheck, Normalize,
        Ternary, TernaryDispatch, CallApply, Control, Running, ExprKinds
<1>2. /\ Apply(Top.node) = Kont("apply", Top.node, <<Null>>, 0)
  BY DEF Apply
<1>3. CASE Fail \/ \E v : Give(v)
  BY <1>1, <1>3, FailNested, GiveNested
<1>4. CASE ApplyBin \/ ApplyUn \/ Normalize \/ CallApply
  BY <1>3, <1>4, Zenon DEF ApplyBin, ApplyUn, Normalize, CallApply
<1>5. CASE UnOp
  <2>1. /\ C.kind \in {"Un", "FieldAccess", "CaptureValue"}
        /\ Schedule(<<Apply(Top.node), Run(C.operand)>>)
    BY <1>5 DEF UnOp, Control
  <2>2. IsExpr(C.operand)
    BY <1>1, <2>1, OperandFacts
  <2>. QED
    BY <1>1, <1>2, <2>1, <2>2, OperandNested
<1>6. CASE Logical
  <2>1. /\ C.kind = "Logical"
        /\ Schedule(<<Apply(Top.node), Run(C.left)>>)
    BY <1>6 DEF Logical, Control
  <2>2. IsExpr(C.left)
    BY <1>1, <2>1, OperandFacts
  <2>. QED
    BY <1>1, <1>2, <2>1, <2>2, OperandNested
<1>7. CASE Ternary
  <2>1. /\ C.kind = "Ternary"
        /\ Schedule(<<Apply(Top.node), Run(C.cond)>>)
    BY <1>7 DEF Ternary, Control
  <2>2. IsExpr(C.cond)
    BY <1>1, <2>1, OperandFacts
  <2>. QED
    BY <1>1, <1>2, <2>1, <2>2, OperandNested
<1>8. CASE LogicalCheck
  <2>1. C.kind = "Logical"
    BY <1>8 DEF LogicalCheck, Control
  <2>2. IsExpr(C.right)
    BY <1>1, <2>1, OperandFacts
  <2>3. CASE Schedule(<<Kont("norm", Top.node, <<>>, 0), Run(C.right)>>)
    BY <1>1, <2>2, <2>3, OperandNested
  <2>. QED
    BY <1>3, <1>8, <2>3, Zenon DEF LogicalCheck
<1>9. CASE TernaryDispatch
  <2> DEFINE e == IF Truth(ac) THEN C.then ELSE C.else
  <2>1. C.kind = "Ternary"
    BY <1>9 DEF TernaryDispatch, Control
  <2>2. IsExpr(e)
    BY <1>1, <2>1, OperandFacts
  <2>3. Schedule(<<Run(e)>>) \/ Fail
    BY <1>9, Zenon DEF TernaryDispatch
  <2> HIDE DEF e
  <2>. QED
    BY <1>1, <1>3, <2>2, <2>3, OperandNested
<1>. QED
  BY <1>4, <1>5, <1>6, <1>7, <1>8, <1>9

(* Calls push their arguments, each under the kont that stores it.         *)
LEMMA CallNested ==
  ASSUME Disciplined, IInv, WellNested, Call
  PROVE  WellNested'
<1> DEFINE n == Len(C.args)
           nulls == [i \in 1..n |-> Null]
           wait == Kont("apply", Top.node, nulls, 0)
           Arg(j) == n - ((j + 1) \div 2)
           F(j) == IF j % 2 = 1 THEN Kont("arg", Top.node, <<>>, Arg(j))
                                ELSE Run(C.args[Arg(j) + 1])
           t == [j \in 1..(2 * n) |-> F(j)]
           S == {wait} \cup {F(j) : j \in 1..(2 * n)}
<1>1. Running /\ K # <<>> /\ C.kind = "Call" /\ Schedule(<<wait>> \o t)
  BY DEF Call, Control, Running
<1>2. C.kind \in ExprKinds
  BY <1>1 DEF ExprKinds
<1>3. C.args \in Seq(KontId) /\ \A i \in DOMAIN C.args : IsExpr(C.args[i])
  BY <1>1, TopFacts, Zenon DEF KontOK
<1>4. n \in Nat /\ DOMAIN C.args = 1..n /\ 2 * n \in Nat
  BY <1>3, LenProperties
<1>5. ASSUME NEW j \in 1..(2 * n)
      PROVE  F(j).node = Top.node \/ IsExpr(F(j).node)
  <2>1. Arg(j) + 1 \in 1..n
    BY <1>4
  <2>2. CASE j % 2 = 1
    BY <2>2 DEF Kont
  <2>3. CASE j % 2 # 1
    <3>1. IsExpr(C.args[Arg(j) + 1])
      BY <1>3, <1>4, <2>1
    <3>2. F(j) = Run(C.args[Arg(j) + 1])
      BY <2>3
    <3> HIDE DEF F, Arg
    <3>. QED
      BY <3>1, <3>2 DEF Run, Kont
  <2>. QED
    BY <2>2, <2>3
<1>6. wait.node = Top.node
  BY DEF Kont
<1> HIDE DEF F, wait
<1>7. \A k \in S : k.node = Top.node \/ IsExpr(k.node)
  BY <1>5, <1>6
<1>8. t \in Seq(S)
  <2>1. \A j \in 1..(2 * n) : F(j) \in S
    OBVIOUS
  <2> HIDE DEF S
  <2>. QED
    BY <1>4, <2>1, IsASeq
<1>9. <<wait>> \in Seq(S)
  OBVIOUS
<1> HIDE DEF S, t
<1>10. <<wait>> \o t \in Seq(S)
  BY <1>8, <1>9, ConcatProperties
<1>. QED
  BY <1>1, <1>2, <1>7, <1>10, ScheduleNested

(* No expression disturbs the nesting.                                     *)
LEMMA EvaluateNested ==
  ASSUME Disciplined, IInv, WellNested, Evaluate
  PROVE  WellNested'
BY LeafNested, BufferNested, BinOpNested, StoreNested, OperatorNested, CallNested,
   Zenon DEF Evaluate

-----------------------------------------------------------------------------
(* Konts of a chain: where a link leads, and what the machine is then.     *)

(* A spine kont runs alone, and stands where its scope says.               *)
LEMMA SpineFacts ==
  ASSUME Disciplined, IInv, WellNested, Running, C.kind \in SpineKinds
  PROVE  /\ IsSpine(Top.node) /\ Prog[Top.node] = C /\ K[1] = Top
         /\ Rest = <<>> /\ Base = C.kind /\ C.kind \notin FailKinds
         /\ \A n : Append(Rest, Run(n)) = <<Run(n)>>
         /\ \A k, l : Rest \o <<k, l>> = <<k, l>>
         /\ ~Opening(Top) => Stands(frames, depth, Tree, Top.node)
         /\ Opening(Top) =>
              Holds(frames, Len(frames), depth, Tree, InArray(C, Scope[Top.node]))
         /\ C.kind # "PushInterval" =>
              Window(depth, pos) /\ pos + Owing(Top.node) <= effective_end
         /\ C.kind = "Halt" => frames = <<>>
         /\ ScopeFits(Top.node) /\ Scope[Top.node] \in ScopeRecord
         /\ \A l \in Links(Prog, Top.node, Scope[Top.node]) :
              LinkFits(Top.node, l[1], l[2])
         /\ frames \in Seq(Linked) /\ Chain(frames)
         /\ Over(frames, depth, Tree) /\ Windowed1(frames) /\ WindowsFit
<1>1. K # <<>> /\ Prog[Top.node] = C /\ C.kind \notin FailKinds
  BY SortFacts DEF Running, C
<1>2. Rest = <<>> /\ K[1] = Top /\ IsSpine(Top.node)
  BY <1>1, SpineAlone, RunFacts, TopFacts DEF IsSpine
<1>3. /\ \A n : Append(Rest, Run(n)) = <<Run(n)>>
      /\ \A k, l : Rest \o <<k, l>> = <<k, l>>
  BY <1>2
<1>4. Base = C.kind
  BY <1>1, <1>2 DEF Base
<1>5. Standing(Top) /\ (C.kind = "Halt" => frames = <<>>)
  BY <1>1, <1>2, <1>4 DEF WellNested
<1>6. /\ ~Opening(Top) => Stands(frames, depth, Tree, Top.node)
      /\ Opening(Top) =>
           Holds(frames, Len(frames), depth, Tree, InArray(C, Scope[Top.node]))
  BY <1>1, <1>5 DEF Standing
<1>7. C.kind # "PushInterval" =>
        Window(depth, pos) /\ pos + Owing(Top.node) <= effective_end
  BY <1>1, <1>2, <1>4 DEF WellNested, Seeking
<1>8. /\ ScopeFits(Top.node) /\ Scope[Top.node] \in ScopeRecord
      /\ \A l \in Links(Prog, Top.node, Scope[Top.node]) :
           LinkFits(Top.node, l[1], l[2])
  BY <1>2, HasScope
<1>9. /\ frames \in Seq(Linked) /\ Chain(frames)
      /\ Over(frames, depth, Tree) /\ Windowed1(frames) /\ WindowsFit
  BY FramesLinked DEF WellNested, WindowsFit, Windowed1
<1>. QED
  BY <1>1, <1>2, <1>3, <1>4, <1>5, <1>6, <1>7, <1>8, <1>9

(* Most konts stand on their own scope, with no Savepoint to drop.         *)
LEMMA PlainFacts ==
  ASSUME Disciplined, IInv, WellNested, Running, C.kind \in SpineKinds,
         C.kind \notin Committers \cup {"EndArray"}, ~Opening(Top)
  PROVE  Holds(frames, Len(frames), depth, Tree, Scope[Top.node])
BY SpineFacts DEF Stands, Drops

(* The interval depth and the number of open nodes of the next state.      *)
LEMMA TreeNext ==
  ASSUME IInv'
  PROVE  depth' \in Nat /\ Tree' \in Nat
<1>1. /\ job' \in Jobs /\ slots' \in Seq(GoodSlot(Len(input'))) /\ depth' \in 0..Len(slots')
      /\ builder' \in GoodBuilder(Len(input'))
  BY DEF IInv
<1>2. builder'.stack \in Seq(1..Len(builder'.nodes))
  BY <1>1 DEF GoodBuilder
<1>3. Len(slots') \in Nat /\ Len(builder'.stack) \in Nat
  BY <1>1, <1>2, LenProperties
<1>. QED
  BY <1>1, <1>3 DEF Tree

(* Following a link with the frames and windows in place.                  *)
LEMMA LinkNested ==
  ASSUME Disciplined, NEW m, NEW n, NEW s, LinkFits(m, n, s),
         IsSpine(n), K' = <<Run(n)>>, IInv', Chain(frames)',
         Holds(frames, Len(frames), depth, Tree, s)', WindowsFit',
         Prog[m].kind # "ReturnRule",
         Prog[n].kind # "PushInterval" =>
           Window(depth, pos)' /\ (pos + Owing(n) <= effective_end)'
  PROVE  WellNested'
<1>1. s \in ScopeRecord /\ Leads(s, n) /\ Bounded(s) /\ Prog[n].kind # "Halt"
  BY DEF LinkFits
<1>2. frames' \in Seq(Linked)
  BY FramesLinked
<1>3. depth' \in Int /\ Tree' \in Int
  BY TreeNext
<1>4. Over(frames, depth, Tree)'
  BY <1>1, <1>2, <1>3, CoveredAll
<1>5. Stands(frames, depth, Tree, n)'
  BY <1>1, <1>2, LeadsStands
<1>. QED
  BY <1>1, <1>4, <1>5, GotoNested

(* The window of a cursor that moves, with the windows in place.           *)
LEMMA RoomFacts ==
  ASSUME IInv, job' = job, slots' = slots, depth' = depth
  PROVE  /\ effective_end' = effective_end /\ effective_end \in Nat
         /\ Window(depth, pos)' <=> Window(depth, pos')
         /\ \A p \in Int : Window(depth, pos) /\ pos <= p /\ p <= effective_end
                            => Window(depth, p)
<1>1. effective_end' = effective_end
  BY DEF effective_end, EndAt, input
<1>2. Window(depth, pos)' <=> Window(depth, pos')
  BY DEF Window
<1>3. ASSUME NEW p \in Int, Window(depth, pos), pos <= p, p <= effective_end
      PROVE  Window(depth, p)
  <2>1. CASE depth > 0
    <3> DEFINE lo == slots[depth].lo
               hi == slots[depth].hi
    <3>1. lo <= pos /\ effective_end = hi
      BY <1>3, <2>1 DEF Window, effective_end, EndAt
    <3>2. lo \in Nat /\ pos \in Nat
      <4>1. depth \in 1..Len(slots)
        BY <2>1, StateFacts
      <4>. QED
        BY <4>1, StateFacts
    <3> HIDE DEF lo, hi
    <3>3. lo <= p /\ p <= hi
      BY <1>3, <3>1, <3>2
    <3>. QED
      BY <3>3 DEF Window, lo, hi
  <2>2. CASE ~(depth > 0)
    BY <2>2 DEF Window
  <2>. QED
    BY <2>1, <2>2
<1>4. effective_end \in Nat
  BY WindowFacts
<1>. QED
  BY <1>1, <1>2, <1>3, <1>4

(* Chain konts that neither open nor close anything.                       *)
Steady == ChainKinds \ {"BeginStruct", "BeginVariant", "EndStruct", "PushInterval",
                        "PopInterval", "BeginChoice", "BeginOptional", "EndArray",
                        "BeginArray", "ReturnRule", "CommitChoice", "EndOptional"}

(* Such a kont goes on in its own scope.                                   *)
LEMMA SteadyFacts ==
  ASSUME Disciplined, IInv, WellNested, Running, C.kind \in Steady
  PROVE  /\ K # <<>> /\ C.kind \in SpineKinds /\ C.kind \in ChainKinds
         /\ C.kind \notin FailKinds /\ C.kind # "ReturnRule" /\ ~Opening(Top)
         /\ IsSpine(Top.node) /\ IsSpine(C.next) /\ Prog[Top.node] = C
         /\ LinkFits(Top.node, C.next, Scope[Top.node])
         /\ Holds(frames, Len(frames), depth, Tree, Scope[Top.node])
         /\ Append(Rest, Run(C.next)) = <<Run(C.next)>>
         /\ pos \in Nat /\ Owing(C.next) \in Nat
         /\ pos + Owing(Top.node) <= effective_end /\ Window(depth, pos)
<1>1. /\ K # <<>> /\ C.kind \in ChainKinds /\ C.kind \in SpineKinds
      /\ C.kind \notin FailKinds
      /\ C.kind \notin Committers \cup {"EndArray", "BeginArray", "ReturnRule",
                                        "PushInterval"}
  BY SortFacts DEF Steady, Running, Committers
<1>2. Prog[Top.node] = C
  BY DEF C
<1>3. ~Opening(Top)
  BY <1>1, <1>2 DEF Opening
<1>4. IsSpine(C.next)
  BY <1>1, TopFacts, Zenon DEF KontOK
<1>5. C.kind \notin {"BeginStruct", "BeginVariant", "EndStruct", "PushInterval",
                     "PopInterval", "BeginChoice", "BeginOptional", "EndArray"}
  BY DEF Steady
<1>6. After(C, Scope[Top.node]) = Scope[Top.node]
  BY <1>5, Zenon DEF After
<1>7. <<C.next, Scope[Top.node]>> \in Links(Prog, Top.node, Scope[Top.node])
  BY <1>1, <1>2, <1>6, Zenon DEF Links
<1>8. LinkFits(Top.node, C.next, Scope[Top.node])
  <2>1. \A m, s : <<m, s>>[1] = m /\ <<m, s>>[2] = s
    OBVIOUS
  <2>. QED
    BY <1>1, <1>7, <2>1, SpineFacts, Zenon
<1>9. Owing(C.next) \in Nat /\ pos \in Nat
  BY <1>1, NextFacts, StateFacts
<1>. QED
  BY <1>1, <1>2, <1>3, <1>4, <1>8, <1>9, SpineFacts, PlainFacts

(* It may move the cursor, if it leaves what its successor owes.           *)
LEMMA SteadyNested ==
  ASSUME Disciplined, IInv, WellNested, IInv', Running, C.kind \in Steady,
         UNCHANGED <<job, slots, depth, frames>>, builder'.stack = builder.stack,
         Continue(C.next),
         \/ Prog[C.next].kind = "PushInterval"
         \/ pos' \in Nat /\ pos <= pos' /\ pos' + Owing(C.next) <= effective_end
  PROVE  WellNested'
<1>1. Tree' = Tree
  BY DEF Tree
<1>2. K' = <<Run(C.next)>>
  BY SteadyFacts DEF Continue
<1>3. PICK s, n : s = Scope[Top.node] /\ n = C.next
  OBVIOUS
<1>4. /\ IsSpine(Top.node) /\ IsSpine(n) /\ LinkFits(Top.node, n, s)
      /\ Holds(frames, Len(frames), depth, Tree, s)
      /\ Prog[Top.node].kind # "ReturnRule"
  BY <1>3, SteadyFacts
<1>5. Chain(frames) /\ Windowed1(frames) /\ WindowsFit
  BY SteadyFacts, SpineFacts
<1>6. WindowsFit'
  <2>1. depth' \in Int /\ depth' <= depth /\ Windowed1(frames') /\ slots' = slots
    BY <1>5, StateFacts
  <2>. QED
    BY <1>5, <2>1, WindowsKept
<1>7. Prog[n].kind # "PushInterval" =>
        Window(depth, pos)' /\ pos' + Owing(n) <= effective_end'
  <2>1. SUFFICES ASSUME pos' \in Nat, pos <= pos', pos' + Owing(n) <= effective_end
                 PROVE  Window(depth, pos)' /\ pos' + Owing(n) <= effective_end'
    BY <1>3
  <2>2. Owing(n) \in Nat /\ effective_end \in Nat /\ Window(depth, pos)
    BY <1>3, SteadyFacts, RoomFacts
  <2>3. pos' <= effective_end /\ pos' \in Int
    BY <2>1, <2>2
  <2>4. Window(depth, pos')
    BY <2>1, <2>2, <2>3, RoomFacts
  <2>. QED
    BY <2>1, <2>4, RoomFacts
<1>8. frames' = frames /\ depth' = depth /\ K' = <<Run(n)>>
  BY <1>2, <1>3
<1>. QED
  BY <1>1, <1>4, <1>5, <1>6, <1>7, <1>8, LinkNested

(* A spine kont that has its expression evaluated before it acts.          *)
LEMMA WaitNested ==
  ASSUME Disciplined, IInv, WellNested, Running, C.kind \in SpineKinds,
         C.kind = "BeginArray" => C.mode # "Until", IsExpr(C.expr),
         C.kind # "ReturnRule",
         UNCHANGED <<job, pos, slots, depth, frames, failed>>,
         builder'.stack = builder.stack,
         K' = Rest \o <<Apply(Top.node), Run(C.expr)>>
  PROVE  WellNested'
<1> DEFINE ks == <<Apply(Top.node), Run(C.expr)>>
           S == {Apply(Top.node), Run(C.expr)}
<1>1. /\ ks \in Seq(S) /\ ks # <<>> /\ ks[1] = Apply(Top.node)
  OBVIOUS
<1>2. IsSpine(Top.node) /\ Prog[Top.node] = C /\ C.kind \notin FailKinds
  BY SpineFacts
<1>3. \A k \in S : Prog[k.node].kind \notin FailKinds
  BY <1>2, CalmNode
<1>4. ~Opening(Top) /\ ~Opening(Apply(Top.node)) /\ Apply(Top.node).node = Top.node
  BY <1>2, CalmNode DEF Opening
<1>5. K' = Rest \o ks
  OBVIOUS
<1> HIDE DEF ks, S
<1>. QED
  BY <1>1, <1>2, <1>3, <1>4, <1>5, PushNested

(* Site konts, intervals and counted arrays.                               *)
LEMMA AwaitingNested ==
  ASSUME Disciplined, IInv, WellNested, Site \/ PushInterval \/ BeginCounted
  PROVE  WellNested'
<1>1. /\ Running /\ K # <<>>
      /\ C.kind \in SiteKinds \cup {"PushInterval", "BeginArray"}
      /\ C.kind = "BeginArray" => C.mode \in {"FixedCount", "Count"}
      /\ UNCHANGED <<job, pos, slots, depth, frames, failed>>
      /\ K' = Rest \o <<Apply(Top.node), Run(C.expr)>>
  <2>1. CASE Site
    <3>1. PICK kind \in SiteKinds : Control("run", kind)
      BY <2>1 DEF Site
    <3>2. Running /\ K # <<>> /\ C.kind \in SiteKinds
      BY <3>1, ControlFacts
    <3>3. "BeginArray" \notin SiteKinds
      BY DEF SiteKinds
    <3>. QED
      BY <2>1, <3>2, <3>3 DEF Site, Schedule, Running, status, window, store
  <2>2. CASE PushInterval
    BY <2>2 DEF PushInterval, Control, Running, status, window, store
  <2>3. CASE BeginCounted
    BY <2>3 DEF BeginCounted, Control, Running, status, window, store
  <2>. QED
    BY <2>1, <2>2, <2>3
<1>2. C.kind \in SpineKinds /\ C.kind # "ReturnRule"
  BY <1>1, SortFacts DEF SiteKinds
<1>3. IsExpr(C.expr)
  <2>1. C.kind = "BeginArray" => IsExpr(C.expr)
    BY <1>1, TopFacts, Zenon DEF KontOK
  <2>. QED
    BY <1>1, <2>1, OperandFacts
<1>4. builder'.stack = builder.stack
  <2>1. /\ \A v : scope_determines_rest(builder, v).stack = builder.stack
        /\ \A v : set_pending_count_field(builder, v).stack = builder.stack
    BY TreeFacts, CallsKeep
  <2>2. CASE Site
    BY <2>2 DEF Site, Schedule
  <2>3. CASE PushInterval
    BY <2>1, <2>3, Zenon DEF PushInterval
  <2>4. CASE BeginCounted
    BY <2>1, <2>4, Zenon DEF BeginCounted
  <2>. QED
    BY <2>2, <2>3, <2>4
<1>. QED
  BY <1>1, <1>2, <1>3, <1>4, WaitNested

(* What a steady kont's successor owes.                                    *)
LEMMA DebtNested ==
  ASSUME Disciplined, IInv, WellNested, Running, C.kind \in Steady
  PROVE  /\ C.kind \in {"Capture", "StoreEnv", "EvalConstraint"} =>
              Owing(C.next) = Owing(Top.node)
         /\ C.kind = "AdvancePos" => Owing(Top.node) = C.by /\ Owing(C.next) = 0
         /\ C.kind = "ExtractBits" => Owing(C.next) <= C.prim.width
         /\ C.kind \notin {"Capture", "StoreEnv", "EvalConstraint", "AdvancePos",
                           "ExtractBits"} => Owing(C.next) = 0
         /\ pos \in Nat /\ effective_end \in Nat /\ Owing(Top.node) \in Nat
         /\ pos + Owing(Top.node) <= effective_end /\ pos <= effective_end
<1>1. /\ K # <<>> /\ C.kind \in ChainKinds /\ C.kind \in SpineKinds
      /\ pos \in Nat /\ pos + Owing(Top.node) <= effective_end
      /\ IsSpine(Top.node) /\ Owing(C.next) \in Nat
  BY SteadyFacts
<1>2. C.owes = Owing(Top.node) /\ effective_end \in Nat
  BY <1>1, SpineAlone, WindowFacts
<1>3. DebtOK(C)
  BY <1>1, TopFacts
<1>4. C.kind \in {"Capture", "StoreEnv", "EvalConstraint"} =>
        Owing(C.next) = Owing(Top.node)
  BY <1>2, <1>3, Zenon DEF DebtOK
<1>5. Owing(Top.node) \in Nat
  BY <1>1, OwingFacts DEF IsSpine
<1>6. pos <= effective_end
  BY <1>1, <1>2, <1>5
<1>. QED
  BY <1>1, <1>2, <1>4, <1>5, <1>6, NextFacts

(* A producer: it moves the cursor no further than the window's end.       *)
LEMMA ProduceNested ==
  ASSUME Disciplined, IInv, WellNested, IInv', Running,
         C.kind \in {"BindCompute", "MatchBytes", "MatchPrimitive", "ExternalCall"},
         NEW x, Produce(x), pos' \in Nat, pos <= pos', pos' <= effective_end
  PROVE  WellNested'
<1>1. C.kind \in Steady
  BY DEF Steady, ChainKinds
<1>2. /\ UNCHANGED <<job, slots, depth, frames>> /\ Continue(C.next)
      /\ builder'.stack = builder.stack
  BY TreeFacts, CallsKeep DEF Produce, status, window, store
<1>3. Owing(C.next) = 0 /\ effective_end \in Nat
  BY <1>1, DebtNested
<1>4. pos' + Owing(C.next) <= effective_end
  <2>1. \A p \in Nat : p + 0 = p
    OBVIOUS
  <2>. QED
    BY <1>3, <2>1
<1>. QED
  BY <1>1, <1>2, <1>4, SteadyNested

(* Computed values, byte runs and external parsers.                        *)
LEMMA ProducersNested ==
  ASSUME Disciplined, IInv, WellNested, IInv',
         BindComputeStore \/ MatchBytesApply \/ MatchLeb \/ MatchPrimitive
           \/ ExternalCall
  PROVE  WellNested'
<1>1. /\ Running /\ K # <<>>
      /\ C.kind \in {"BindCompute", "MatchBytes", "MatchPrimitive", "ExternalCall"}
  BY DEF BindComputeStore, MatchBytesApply, MatchLeb, MatchPrimitive, ExternalCall,
     Control, Running
<1>2. C.kind \in Steady /\ C.kind \notin FailKinds
  BY <1>1 DEF Steady, ChainKinds, FailKinds
<1>3. pos \in Nat /\ pos <= effective_end /\ effective_end \in Nat
  BY <1>1, <1>2, DebtNested
<1>4. CASE Fail
  BY <1>1, <1>2, <1>4, FailNested
<1>5. CASE BindComputeStore
  <2>1. Fail \/ (pos' = pos /\ \E x : Produce(x))
    BY <1>5 DEF BindComputeStore
  <2>2. CASE pos' = pos /\ \E x : Produce(x)
    <3>1. pos' \in Nat /\ pos <= pos' /\ pos' <= effective_end
      BY <1>3, <2>2
    <3>. QED
      BY <1>1, <2>2, <3>1, ProduceNested
  <2>. QED
    BY <1>4, <2>1, <2>2
<1>6. CASE MatchBytesApply
  <2>1. Fail \/ (ac.t = "int" /\ Fits(ac.v) /\ pos' = pos + ac.v /\ \E x : Produce(x))
    BY <1>6 DEF MatchBytesApply
  <2>2. CASE ac.t = "int" /\ Fits(ac.v) /\ pos' = pos + ac.v /\ \E x : Produce(x)
    <3>1. ac.v \in Int
      BY <1>1, <2>2, HeldValues
    <3>2. pos' \in Nat /\ pos <= pos' /\ pos' <= effective_end
      BY <1>3, <2>2, <3>1 DEF Fits
    <3>. QED
      BY <1>1, <2>2, <3>2, ProduceNested
  <2>. QED
    BY <1>4, <2>1, <2>2
<1>7. CASE MatchLeb
  <2> DEFINE signed == C.prim.encoding = "Sleb"
  <2>1. Fail \/ \E n \in LebLengths(pos, effective_end, signed) :
                   pos' = pos + n /\ \E x : Produce(x)
    BY <1>7 DEF MatchLeb
  <2>2. ASSUME NEW n \in LebLengths(pos, effective_end, signed), pos' = pos + n,
               NEW x, Produce(x)
        PROVE  WellNested'
    <3>1. n \in 1..5 /\ pos + n <= effective_end
      BY <2>2 DEF LebLengths
    <3>2. pos' \in Nat /\ pos <= pos' /\ pos' <= effective_end
      BY <1>3, <2>2, <3>1
    <3>. QED
      BY <1>1, <2>2, <3>2, ProduceNested
  <2>. QED
    BY <1>4, <2>1, <2>2, SMTT(60)
<1>8. CASE MatchPrimitive
  <2>1. Fail \/ /\ pos + C.prim.width <= effective_end /\ pos' = pos + C.prim.width
                /\ \E x : Produce(x)
    BY <1>8 DEF MatchPrimitive
  <2>2. CASE /\ pos + C.prim.width <= effective_end /\ pos' = pos + C.prim.width
             /\ \E x : Produce(x)
    <3>0. C.kind = "MatchPrimitive"
      BY <1>8 DEF MatchPrimitive, Control
    <3>1. C.prim \in PrimitiveInfo
      BY <1>1, <3>0, TopFacts, Zenon DEF KontOK
    <3>2. C.prim.width \in {1, 2, 4}
      BY <3>1 DEF PrimitiveInfo
    <3>3. pos' \in Nat /\ pos <= pos' /\ pos' <= effective_end
      BY <1>3, <2>2, <3>2
    <3>. QED
      BY <1>1, <2>2, <3>3, ProduceNested
  <2>. QED
    BY <1>4, <2>1, <2>2
<1>9. CASE ExternalCall
  <2> DEFINE by == ExternParse[C.func]
  <2>1. Fail \/ /\ C.func \in DOMAIN ExternParse /\ by <= effective_end - pos
                /\ pos' = pos + by /\ \E x : Produce(x)
    BY <1>9 DEF ExternalCall
  <2>2. CASE /\ C.func \in DOMAIN ExternParse /\ by <= effective_end - pos
             /\ pos' = pos + by /\ \E x : Produce(x)
    <3>1. by \in Nat
      BY <2>2, ExternAssumption
    <3> HIDE DEF by
    <3>2. pos' \in Nat /\ pos <= pos' /\ pos' <= effective_end
      BY <1>3, <2>2, <3>1
    <3>. QED
      BY <1>1, <2>2, <3>2, ProduceNested
  <2>. QED
    BY <1>4, <2>1, <2>2
<1>. QED
  BY <1>5, <1>6, <1>7, <1>8, <1>9, SMTT(60)

(* Konts that change a register beside the cursor, or only the cursor.     *)
LEMMA SettersNested ==
  ASSUME Disciplined, IInv, WellNested, IInv',
         SetEndianApply \/ SeekApply \/ ExtractBits \/ AdvancePos \/ Capture \/ StoreEnv
  PROVE  WellNested'
<1>1. /\ Running /\ K # <<>>
      /\ C.kind \in {"SetEndian", "Seek", "ExtractBits", "AdvancePos", "Capture",
                     "StoreEnv"}
  BY DEF SetEndianApply, SeekApply, ExtractBits, AdvancePos, Capture, StoreEnv,
     Control, Running
<1>2. C.kind \in Steady /\ C.kind \notin FailKinds
  BY <1>1 DEF Steady, ChainKinds, FailKinds
<1>3. /\ pos \in Nat /\ pos <= effective_end /\ effective_end \in Nat
      /\ Owing(Top.node) \in Nat /\ pos + Owing(Top.node) <= effective_end
  BY <1>1, <1>2, DebtNested
<1>4. Fail \/ /\ UNCHANGED <<job, slots, depth, frames>> /\ Continue(C.next)
              /\ builder'.stack = builder.stack
              /\ \/ C.kind = "SetEndian" /\ pos' = pos
                 \/ C.kind = "Seek"
                 \/ /\ C.kind = "ExtractBits" /\ pos' = pos
                    /\ pos + C.prim.width <= effective_end
                 \/ C.kind = "AdvancePos" /\ pos' = pos + C.by
                 \/ C.kind \in {"Capture", "StoreEnv"} /\ pos' = pos
  <2>1. /\ \A n : Shaped(make_free(builder, n))
                  /\ make_free(builder, n).stack = builder.stack
        /\ \A n, v : add_field(builder, v, n).stack = builder.stack
    BY TreeFacts, CallsKeep, SMTT(60)
  <2>2. \A n, v : scope_is_bits_run(make_free(builder, n), v).stack = builder.stack
    BY <2>1, CallsKeep
  <2>3. CASE SetEndianApply \/ SeekApply \/ AdvancePos \/ StoreEnv
    BY <2>3 DEF SetEndianApply, SeekApply, AdvancePos, StoreEnv, status, window, store,
       Control
  <2>4. CASE Capture
    BY <2>1, <2>4 DEF Capture, status, window, store, Control
  <2>5. CASE ExtractBits
    BY <2>2, <2>5, ZenonT(60) DEF ExtractBits, status, window, store, Control
  <2>. QED
    BY <2>3, <2>4, <2>5
<1>5. CASE Fail
  BY <1>1, <1>2, <1>5, FailNested
<1>6. CASE ~Fail
  <2>1. /\ UNCHANGED <<job, slots, depth, frames>> /\ Continue(C.next)
        /\ builder'.stack = builder.stack
    BY <1>4, <1>6
  <2>2. \/ Prog[C.next].kind = "PushInterval"
        \/ pos' \in Nat /\ pos <= pos' /\ pos' + Owing(C.next) <= effective_end
    <3>1. CASE C.kind = "Seek"
      <4>1. ScopeFits(Top.node) /\ Prog[Top.node] = C
        BY <1>1, <1>2, SteadyFacts, SpineFacts
      <4>. QED
        BY <3>1, <4>1, Zenon DEF ScopeFits
    <3>2. CASE C.kind = "SetEndian"
      <4>1. Owing(C.next) = 0
        BY <1>1, <1>2, <3>2, DebtNested
      <4>. QED
        BY <1>3, <1>4, <1>6, <3>2, <4>1
    <3>3. CASE C.kind = "ExtractBits"
      <4>1. Owing(C.next) <= C.prim.width /\ Owing(C.next) \in Nat
        BY <1>1, <1>2, <3>3, DebtNested, SteadyFacts
      <4>2. C.prim \in PrimitiveInfo
        BY <1>1, <3>3, TopFacts, Zenon DEF KontOK
      <4>3. C.prim.width \in {1, 2, 4}
        BY <4>2 DEF PrimitiveInfo
      <4>4. pos' = pos /\ pos + C.prim.width <= effective_end
        BY <1>4, <1>6, <3>3
      <4>. QED
        BY <1>3, <4>1, <4>3, <4>4
    <3>4. CASE C.kind = "AdvancePos"
      <4>1. Owing(Top.node) = C.by /\ Owing(C.next) = 0
        BY <1>1, <1>2, <3>4, DebtNested
      <4>2. pos' = pos + Owing(Top.node)
        BY <1>4, <1>6, <3>4, <4>1
      <4>. QED
        BY <1>3, <4>1, <4>2
    <3>5. CASE C.kind \in {"Capture", "StoreEnv"}
      <4>1. Owing(C.next) = Owing(Top.node)
        BY <1>1, <1>2, <3>5, DebtNested
      <4>2. pos' = pos
        BY <1>4, <1>6, <3>5
      <4>. QED
        BY <1>3, <4>1, <4>2
    <3>. QED
      BY <1>1, <3>1, <3>2, <3>3, <3>4, <3>5
  <2>. QED
    BY <1>1, <1>2, <2>1, <2>2, SteadyNested
<1>. QED
  BY <1>5, <1>6

(* What is open is no more than there is.                                  *)
LEMMA HoldsAtLeast ==
  ASSUME NEW fs \in Seq(Linked), NEW j \in 0..Len(fs), NEW d, NEW t,
         NEW x \in ScopeRecord, Holds(fs, j, d, t, x)
  PROVE  d \in Nat /\ t \in Nat /\ x.wins <= d /\ x.tree <= t
<1> DEFINE a == j - Len(x.open)
           p == fs[a].depth
           q == fs[a].mark.depth
           w == x.wins
           u == x.tree
<1>1. /\ w \in Nat /\ u \in Nat /\ Len(x.open) \in Nat
      /\ a \in Int /\ j \in Nat /\ Len(fs) \in Nat
  BY ScopeParts, LinkedFacts
<1>2. /\ a >= 0 /\ (a = 0 => d = w /\ t = u)
      /\ a > 0 => d = p + w /\ t = q + u
  BY DEF Holds
<1>3. a > 0 => a \in 1..Len(fs)
  BY <1>1, <1>2
<1>4. a > 0 => p \in Nat /\ q \in Nat
  BY <1>3, LinkedFacts
<1> HIDE DEF a, p, q, w, u
<1>5. d \in Nat /\ t \in Nat /\ w <= d /\ u <= t
  BY <1>1, <1>2, <1>4
<1>. QED
  BY <1>5 DEF w, u

(* All of a sequence is the sequence.                                      *)
LEMMA WholeSeq ==
  ASSUME NEW S, NEW s \in Seq(S)
  PROVE  SubSeq(s, 1, Len(s)) = s
<1>1. Len(s) \in Nat /\ Len(s) \in 0..Len(s)
  BY LenProperties
<1>2. /\ SubSeq(s, 1, Len(s)) \in Seq(S) /\ Len(SubSeq(s, 1, Len(s))) = Len(s)
      /\ \A k \in 1..Len(s) : SubSeq(s, 1, Len(s))[k] = s[k]
  BY <1>1, PrefixSeq
<1>. QED
  BY <1>2, SeqEqual

(* A kont that goes elsewhere with the cursor, the frames and the windows  *)
(* where they were.                                                        *)
LEMMA HopNested ==
  ASSUME Disciplined, IInv, WellNested, IInv', Running, C.kind \in SpineKinds,
         C.kind \notin Committers \cup {"EndArray", "ReturnRule", "PushInterval"},
         ~Opening(Top),
         UNCHANGED <<job, pos, slots, depth, frames>>, builder'.stack = builder.stack,
         NEW n, IsSpine(n), LinkFits(Top.node, n, Scope[Top.node]), Owing(n) = 0,
         K' = <<Run(n)>>
  PROVE  WellNested'
<1>1. Tree' = Tree
  BY DEF Tree
<1>2. PICK s : s = Scope[Top.node]
  OBVIOUS
<1>3. /\ IsSpine(Top.node) /\ LinkFits(Top.node, n, s)
      /\ Holds(frames, Len(frames), depth, Tree, s)
      /\ Prog[Top.node].kind # "ReturnRule"
  BY <1>2, SpineFacts, PlainFacts
<1>4. /\ Chain(frames) /\ Windowed1(frames) /\ WindowsFit
      /\ Window(depth, pos) /\ pos + Owing(Top.node) <= effective_end
  BY SpineFacts
<1>5. WindowsFit'
  <2>1. depth' \in Int /\ depth' <= depth /\ Windowed1(frames') /\ slots' = slots
    BY <1>4, StateFacts
  <2>. QED
    BY <1>4, <2>1, WindowsKept
<1>6. Window(depth, pos)' /\ pos' + Owing(n) <= effective_end'
  <2>1. /\ pos \in Nat /\ effective_end \in Nat /\ Owing(Top.node) \in Nat
    BY <1>3, StateFacts, WindowFacts, OwingFacts DEF IsSpine
  <2>2. pos + 0 <= effective_end
    BY <1>4, <2>1
  <2>. QED
    BY <1>4, <2>2, RoomFacts
<1>. QED
  BY <1>1, <1>3, <1>4, <1>5, <1>6, LinkNested

(* A where-check: it goes on, or leaves to the handler its scope has.      *)
LEMMA EvalConstraintNested ==
  ASSUME Disciplined, IInv, WellNested, IInv', EvalConstraintCheck
  PROVE  WellNested'
<1>1. /\ Running /\ K # <<>> /\ C.kind = "EvalConstraint"
  BY DEF EvalConstraintCheck, Control, Running
<1>2. /\ C.kind \in Steady /\ C.kind \in SpineKinds /\ C.kind \notin FailKinds
      /\ C.kind \notin Committers \cup {"EndArray", "ReturnRule", "PushInterval"}
  BY <1>1 DEF Steady, SpineKinds, ChainKinds, FailKinds, Committers
<1>3. /\ ~Opening(Top) /\ Rest = <<>> /\ Prog[Top.node] = C
      /\ ScopeFits(Top.node) /\ Scope[Top.node] \in ScopeRecord
      /\ frames \in Seq(Linked) /\ Chain(frames) /\ Over(frames, depth, Tree)
      /\ Windowed1(frames) /\ WindowsFit
      /\ Holds(frames, Len(frames), depth, Tree, Scope[Top.node])
  BY <1>1, <1>2, SteadyFacts, SpineFacts
<1>4. ASSUME NEW n, Schedule(<<Run(n)>>)
      PROVE  /\ K' = <<Run(n)>> /\ Continue(n)
             /\ UNCHANGED <<job, pos, slots, depth, frames, failed>>
             /\ builder'.stack = builder.stack
  BY <1>3, <1>4 DEF Schedule, Continue, status, window, store
<1>5. CASE Fail
  BY <1>1, <1>2, <1>5, FailNested
<1>6. CASE Schedule(<<Run(C.next)>>)
  <2>1. /\ pos' \in Nat /\ pos <= pos' /\ pos' + Owing(C.next) <= effective_end
    <3>1. /\ Owing(C.next) = Owing(Top.node) /\ pos \in Nat
          /\ pos + Owing(Top.node) <= effective_end
      BY <1>1, <1>2, DebtNested
    <3>2. pos' = pos
      BY <1>4, <1>6
    <3>3. pos <= pos
      BY <3>1
    <3>. QED
      BY <3>1, <3>2, <3>3
  <2>. QED
    BY <1>1, <1>2, <1>4, <1>6, <2>1, SteadyNested
<1>7. CASE C.on_false # Nil /\ Schedule(<<Run(C.on_false)>>)
  <2>1. IsFailOrNil(C.on_false) \/ IsSpine(C.on_false)
    BY <1>1, TopFacts, Zenon DEF KontOK
  <2>2. Owing(C.on_false) = 0
    BY <1>1, TopFacts, Zenon DEF DebtOK
  <2>3. CASE IsSpine(C.on_false)
    <3>1. C.on_false # Nil /\ Prog[C.on_false].kind \in SpineKinds
      BY <1>7, <2>3 DEF IsSpine
    <3>2. <<C.on_false, Scope[Top.node]>> \in Links(Prog, Top.node, Scope[Top.node])
      BY <1>1, <1>3, <3>1, Zenon DEF Links
    <3>3. LinkFits(Top.node, C.on_false, Scope[Top.node])
      <4>1. \A m, s : <<m, s>>[1] = m /\ <<m, s>>[2] = s
        OBVIOUS
      <4>. QED
        BY <1>1, <1>2, <3>2, <4>1, SpineFacts, Zenon
    <3>. QED
      BY <1>1, <1>2, <1>3, <1>4, <1>7, <2>2, <2>3, <3>3, HopNested
  <2>4. CASE IsFail(C.on_false)
    <3> DEFINE x == Scope[Top.node]
               h == C.on_false
    <3>1. Reaches(x.open, h)
      BY <1>1, <1>3, <2>4, Zenon DEF ScopeFits
    <3>2. Len(frames) \in 0..Len(frames)
      BY <1>3, LinkedFacts
    <3>3. HandlerReady(SubSeq(frames, 1, Len(frames)), h)
      BY <1>3, <2>4, <3>1, <3>2, ReachesReady
    <3>4. HandlerReady(frames, h)
      BY <1>3, <3>3, WholeSeq
    <3>5. K' = <<Run(h)>> /\ frames' = frames /\ Tree' = Tree /\ depth' = depth
      BY <1>4, <1>7 DEF Tree
    <3>6. WindowsFit'
      <4>1. depth' \in Int /\ depth' <= depth /\ Windowed1(frames') /\ slots' = slots
        BY <1>3, <1>4, <1>7, StateFacts
      <4>. QED
        BY <1>3, <4>1, WindowsKept
    <3>7. PICK g : g = h
      OBVIOUS
    <3>8. IsFail(g) /\ K' = <<Run(g)>> /\ HandlerReady(frames', g)
      BY <2>4, <3>4, <3>5, <3>7
    <3>. QED
      BY <1>3, <3>5, <3>6, <3>8, HandlerNested
  <2>. QED
    BY <1>7, <2>1, <2>3, <2>4 DEF IsFailOrNil
<1>. QED
  BY <1>5, <1>6, <1>7, Zenon DEF EvalConstraintCheck

(* A switch goes to one of its cases or to the default.                    *)
LEMMA SwitchNested ==
  ASSUME Disciplined, IInv, WellNested, IInv', SwitchSelect
  PROVE  WellNested'
<1>1. Running /\ K # <<>> /\ C.kind = "SwitchDispatch"
  BY DEF SwitchSelect, Control, Running
<1>2. /\ C.kind \in SpineKinds /\ C.kind \notin FailKinds
      /\ C.kind \notin Committers \cup {"EndArray", "ReturnRule", "PushInterval"}
  BY <1>1 DEF SpineKinds, ChainKinds, FailKinds, Committers
<1>3. /\ Prog[Top.node] = C /\ ~Opening(Top)
      /\ \A n : Append(Rest, Run(n)) = <<Run(n)>>
  BY <1>1, <1>2, SpineFacts DEF Opening
<1>4. CASE Fail
  BY <1>1, <1>2, <1>4, FailNested
<1>5. CASE \E tag, n : /\ \/ \E i \in DOMAIN C.cases : n = C.cases[i].target
                          \/ n = C.default /\ n # Nil
                       /\ builder' = set_pending_variant_tag(builder, tag)
                       /\ Continue(n)
                       /\ UNCHANGED <<job, pos, slots, depth, frames>>
  <2>1. PICK tag, n : /\ \/ \E i \in DOMAIN C.cases : n = C.cases[i].target
                         \/ n = C.default /\ n # Nil
                      /\ builder' = set_pending_variant_tag(builder, tag)
                      /\ Continue(n)
                      /\ UNCHANGED <<job, pos, slots, depth, frames>>
    BY <1>5
  <2>2. /\ C.default = Nil \/ IsSpine(C.default)
        /\ \A i \in DOMAIN C.cases : IsSpine(C.cases[i].target)
        /\ Owing(C.default) = 0
        /\ \A i \in DOMAIN C.cases : Owing(C.cases[i].target) = 0
    BY <1>1, TopFacts, Zenon DEF KontOK, DebtOK
  <2>3. IsSpine(n) /\ Owing(n) = 0
    BY <2>1, <2>2
  <2>4. <<n, Scope[Top.node]>> \in Links(Prog, Top.node, Scope[Top.node])
    <3> DEFINE x == Scope[Top.node]
               T == {<<C.cases[i].target, x>> : i \in DOMAIN C.cases}
               D == IF C.default = Nil THEN {} ELSE {<<C.default, x>>}
    <3>1. <<n, x>> \in T \cup D
      BY <2>1
    <3>2. T \cup D \subseteq Links(Prog, Top.node, x)
      BY <1>1, <1>3, ZenonT(60) DEF Links
    <3>. QED
      BY <3>1, <3>2
  <2>5. LinkFits(Top.node, n, Scope[Top.node])
    <3>1. \A m, s : <<m, s>>[1] = m /\ <<m, s>>[2] = s
      OBVIOUS
    <3>. QED
      BY <1>1, <1>2, <2>4, <3>1, SpineFacts, Zenon
  <2>6. builder'.stack = builder.stack /\ K' = <<Run(n)>>
    BY <1>3, <2>1, TreeFacts, CallsKeep DEF Continue
  <2>. QED
    BY <1>1, <1>2, <1>3, <2>1, <2>3, <2>5, <2>6, HopNested
<1>6. \/ Fail
      \/ \E tag, n : /\ \/ \E i \in DOMAIN C.cases : n = C.cases[i].target
                        \/ n = C.default /\ n # Nil
                     /\ builder' = set_pending_variant_tag(builder, tag)
                     /\ Continue(n)
                     /\ UNCHANGED <<job, pos, slots, depth, frames>>
  <2> DEFINE Take(tag, n) == /\ builder' = set_pending_variant_tag(builder, tag)
                             /\ Continue(n)
                             /\ UNCHANGED <<status, pos, window, le, store, ac>>
             ordinals == {-1} \cup {C.cases[i].ordinal : i \in DOMAIN C.cases}
  <2>1. \/ Fail
        \/ \E i \in DOMAIN C.cases : Take(C.cases[i].ordinal, C.cases[i].target)
        \/ C.default # Nil /\ \E last \in ordinals : Take(last + 1, C.default)
    BY Zenon DEF SwitchSelect
  <2>2. ASSUME NEW tag, NEW n, Take(tag, n)
        PROVE  /\ builder' = set_pending_variant_tag(builder, tag)
               /\ Continue(n) /\ UNCHANGED <<job, pos, slots, depth, frames>>
    BY <2>2 DEF status, window, store
  <2> HIDE DEF Take, ordinals
  <2>. QED
    BY <2>1, <2>2, Zenon
<1>. QED
  BY <1>4, <1>5, <1>6

-----------------------------------------------------------------------------
(* Opening and closing windows.                                            *)

(* A new window takes the slot above the live ones, which stay.            *)
LEMMA SlotsKept ==
  ASSUME IInv, NEW w \in GoodSlot(Len(input))
  PROVE  /\ SlotsWith(w)[depth + 1] = w
         /\ \A d \in 1..depth : SlotsWith(w)[d] = slots[d]
<1>1. /\ slots \in Seq(GoodSlot(Len(input))) /\ Len(slots) \in Nat
      /\ depth \in Nat /\ depth <= Len(slots)
  BY StateFacts
<1>2. CASE depth = Len(slots)
  <2>1. SlotsWith(w) = Append(slots, w)
    BY <1>2 DEF SlotsWith
  <2>2. /\ Append(slots, w)[Len(slots) + 1] = w
        /\ \A d \in 1..Len(slots) : Append(slots, w)[d] = slots[d]
    BY <1>1, AppendProperties
  <2>. QED
    BY <1>2, <2>1, <2>2
<1>3. CASE depth # Len(slots)
  <2>1. SlotsWith(w) = [slots EXCEPT ![depth + 1] = w]
    BY <1>3 DEF SlotsWith
  <2>2. DOMAIN slots = 1..Len(slots)
    BY <1>1, LenProperties
  <2>3. depth + 1 \in 1..Len(slots)
        /\ \A d \in 1..depth : d \in 1..Len(slots) /\ d # depth + 1
    BY <1>1, <1>3
  <2>. QED
    BY <2>1, <2>2, <2>3
<1>. QED
  BY <1>2, <1>3

(* The windows still fit with a window more inside the innermost.          *)
LEMMA WindowPushed ==
  ASSUME IInv, WellNested, NEW w \in GoodSlot(Len(input)), Nested(w),
         slots' = SlotsWith(w), depth' = depth + 1, frames' = frames
  PROVE  WindowsFit'
<1>1. /\ depth \in Nat /\ Len(slots) \in Nat /\ depth <= Len(slots)
      /\ WindowsFit /\ Over(frames, depth, Tree)
      /\ frames \in Seq(Linked)
      /\ \A i \in 1..Len(slots) : slots[i].lo \in Nat /\ slots[i].hi \in Nat
  BY StateFacts, FramesLinked DEF WellNested
<1>2. /\ slots'[depth + 1] = w
      /\ \A d \in 1..depth : slots'[d] = slots[d]
  BY SlotsKept
<1>3. /\ w.lo <= w.hi
      /\ depth > 0 => slots[depth].lo <= w.lo
      /\ depth > 0 => w.hi <= slots[depth].hi
  BY DEF Nested, effective_start, effective_end, EndAt
<1>4. \A d \in 1..depth' : d \in 1..depth \/ d = depth + 1
  BY <1>1
<1>5. \A d \in 1..depth' : slots'[d].lo <= slots'[d].hi
  <2>1. \A d \in 1..depth : slots'[d].lo <= slots'[d].hi
    BY <1>1, <1>2 DEF WindowsFit
  <2>2. slots'[depth + 1].lo <= slots'[depth + 1].hi
    BY <1>2, <1>3
  <2>. QED
    BY <1>4, <2>1, <2>2
<1>6. \A d \in 2..depth' : /\ slots'[d - 1].lo <= slots'[d].lo
                           /\ slots'[d].hi <= slots'[d - 1].hi
  <2>1. ASSUME NEW d \in 2..depth
        PROVE  /\ slots'[d - 1].lo <= slots'[d].lo
               /\ slots'[d].hi <= slots'[d - 1].hi
    <3>1. d - 1 \in 1..depth /\ d \in 1..depth
      BY <1>1
    <3>2. slots'[d - 1] = slots[d - 1] /\ slots'[d] = slots[d]
      BY <1>2, <3>1
    <3>3. slots[d - 1].lo <= slots[d].lo /\ slots[d].hi <= slots[d - 1].hi
      BY <1>1 DEF WindowsFit
    <3>. QED
      BY <3>2, <3>3
  <2>2. ASSUME depth + 1 \in 2..depth'
        PROVE  /\ slots'[depth].lo <= slots'[depth + 1].lo
               /\ slots'[depth + 1].hi <= slots'[depth].hi
    <3>1. depth > 0 /\ depth \in 1..depth
      BY <1>1, <2>2
    <3>2. slots'[depth] = slots[depth] /\ slots'[depth + 1] = w
      BY <1>2, <3>1
    <3>. QED
      BY <1>3, <3>1, <3>2
  <2>3. \A d \in 2..depth' : d \in 2..depth \/ d = depth + 1
    BY <1>1
  <2>4. (depth + 1) - 1 = depth
    BY <1>1
  <2>. QED
    BY <2>1, <2>2, <2>3, <2>4
<1>7. ASSUME NEW i \in Savepoints(frames')
      PROVE  Window(frames[i].depth, frames[i].pos)'
  <2>1. /\ i \in DOMAIN frames /\ frames[i].type = "Savepoint"
        /\ Window(frames[i].depth, frames[i].pos) /\ i \in 1..Len(frames)
    BY <1>1, LinkedFacts DEF Savepoints, WindowsFit
  <2> DEFINE e == frames[i].depth
             p == frames[i].pos
  <2>2. e \in Nat /\ e <= depth
    <3>1. e \in Nat
      BY <1>1, <2>1, LinkedFacts
    <3>2. Under(frames[i], depth, Tree)
      BY <1>1, <2>1 DEF Over
    <3>. QED
      BY <2>1, <3>1, <3>2 DEF Under
  <2>3. Window(e, p)
    BY <2>1
  <2>4. frames'[i].depth = e /\ frames'[i].pos = p
    OBVIOUS
  <2> HIDE DEF e, p
  <2>5. e > 0 => e \in 1..depth
    BY <1>1, <2>2
  <2>6. e > 0 => slots'[e].lo <= p /\ p <= slots'[e].hi
    BY <1>2, <2>3, <2>5 DEF Window
  <2>. QED
    BY <2>4, <2>6 DEF Window
<1>. QED
  BY <1>5, <1>6, <1>7 DEF WindowsFit

(* PushIntervalApplyKont: a window is opened.                              *)
LEMMA PushIntervalApplyNested ==
  ASSUME Disciplined, IInv, WellNested, IInv', PushIntervalApply
  PROVE  WellNested'
<1> DEFINE v == IF ac.v < 0 THEN 0 ELSE ac.v
           hi == IF C.relative THEN pos + v ELSE v
           w == [lo |-> pos, hi |-> hi]
<1>1. Running /\ K # <<>> /\ C.kind = "PushInterval"
  BY DEF PushIntervalApply, Control, Running
<1>2. /\ C.kind \in SpineKinds /\ C.kind \in ChainKinds /\ C.kind \notin FailKinds
      /\ C.kind \notin Committers \cup {"EndArray", "ReturnRule"}
  BY <1>1 DEF SpineKinds, ChainKinds, FailKinds, Committers
<1>3. CASE Fail
  BY <1>1, <1>2, <1>3, FailNested
<1>4. CASE ~Fail
  <2>1. /\ Nested(w) /\ slots' = SlotsWith(w) /\ depth' = depth + 1
        /\ Continue(C.next)
        /\ UNCHANGED <<job, pos, frames, builder>>
    BY <1>4 DEF PushIntervalApply, status, store
  <2>2. w \in GoodSlot(Len(input)) /\ hi \in Nat /\ pos \in Nat
    <3>1. /\ pos \in Nat /\ effective_end \in Nat /\ Len(input) \in Nat
          /\ effective_end <= Len(input)
      BY StateFacts, WindowFacts
    <3>2. ac.v \in Int
      BY <1>1, HeldValues
    <3>3. v \in Nat
      BY <3>2
    <3> HIDE DEF v
    <3>4. hi \in Nat
      BY <3>1, <3>3
    <3>5. hi <= effective_end
      BY <2>1 DEF Nested
    <3> HIDE DEF hi
    <3>6. hi <= Len(input)
      BY <3>1, <3>4, <3>5
    <3>. QED
      BY <3>1, <3>4, <3>6, Zenon DEF GoodSlot, Slot
  <2>3. w.lo = pos /\ w.hi = hi
    OBVIOUS
  <2>4. pos <= hi
    BY <2>1, <2>3 DEF Nested
  <2> HIDE DEF w, hi
  <2>5. WindowsFit'
    BY <2>1, <2>2, WindowPushed
  <2>6. slots'[depth'] = w /\ depth' > 0 /\ depth \in Nat
    BY <2>1, <2>2, SlotsKept, StateFacts
  <2>7. Window(depth, pos)' /\ pos' + 0 <= effective_end'
    <3>1. slots'[depth'].lo <= pos /\ pos <= slots'[depth'].hi
      BY <2>2, <2>3, <2>4, <2>6
    <3>2. effective_end' = slots'[depth'].hi
      BY <2>6 DEF effective_end, EndAt
    <3>3. pos' = pos /\ pos + 0 = pos
      BY <2>1, <2>2
    <3>. QED
      BY <3>1, <3>2, <3>3 DEF Window
  <2>8. /\ IsSpine(Top.node) /\ Prog[Top.node] = C /\ ~Opening(Top)
        /\ Scope[Top.node] \in ScopeRecord
        /\ frames \in Seq(Linked) /\ Chain(frames) /\ K' = <<Run(C.next)>>
    BY <1>1, <1>2, <2>1, SpineFacts DEF Opening, Continue
  <2>9. IsSpine(C.next) /\ Owing(C.next) = 0
    BY <1>1, <1>2, TopFacts, NextFacts, Zenon DEF KontOK
  <2>10. PICK s : s = Windowed(Scope[Top.node], 1)
    OBVIOUS
  <2>11. LinkFits(Top.node, C.next, s)
    <3>1. After(C, Scope[Top.node]) = s
      BY <1>1, <2>10 DEF After
    <3>2. <<C.next, s>> \in Links(Prog, Top.node, Scope[Top.node])
      BY <1>1, <1>2, <2>8, <3>1, Zenon DEF Links
    <3>3. \A m, x : <<m, x>>[1] = m /\ <<m, x>>[2] = x
      OBVIOUS
    <3>. QED
      BY <1>1, <1>2, <3>2, <3>3, SpineFacts, Zenon
  <2>12. Holds(frames', Len(frames'), depth', Tree', s)
    <3>1. Holds(frames, Len(frames), depth, Tree, Scope[Top.node])
      BY <1>1, <1>2, <2>8, PlainFacts
    <3>2. Len(frames) \in 0..Len(frames)
      BY <2>8, LinkedFacts
    <3>3. Holds(frames, Len(frames), depth + 1, Tree, s)
      BY <2>8, <2>10, <3>1, <3>2, HoldsCounted
    <3>4. Tree' = Tree
      BY <2>1 DEF Tree
    <3>. QED
      BY <2>1, <3>3, <3>4
  <2>13. PICK m, n : m = Top.node /\ n = C.next
    OBVIOUS
  <2>14. /\ IsSpine(m) /\ LinkFits(m, n, s) /\ IsSpine(n) /\ K' = <<Run(n)>>
         /\ Prog[m].kind # "ReturnRule"
    BY <1>2, <2>8, <2>9, <2>11, <2>13
  <2>15. Chain(frames)' /\ Holds(frames, Len(frames), depth, Tree, s)'
    BY <2>1, <2>8, <2>12
  <2>16. Window(depth, pos)' /\ (pos + Owing(n) <= effective_end)'
    BY <2>7, <2>9, <2>13
  <2>. QED
    BY <2>5, <2>14, <2>15, <2>16, LinkNested
<1>. QED
  BY <1>3, <1>4

(* The cursor is in the window around the one that is left.                *)
LEMMA WindowLeft ==
  ASSUME IInv, WellNested, depth > 0, Window(depth, pos), job' = job, slots' = slots,
         depth' = depth - 1, pos' = pos
  PROVE  Window(depth, pos)' /\ pos' <= effective_end'
<1>1. /\ depth \in Nat /\ Len(slots) \in Nat /\ depth <= Len(slots) /\ pos \in Nat
      /\ \A i \in 1..Len(slots) : /\ slots[i].lo \in Nat /\ slots[i].hi \in Nat
                                   /\ slots[i].hi <= Len(input)
      /\ Len(input) \in Nat /\ pos <= Len(input)
  BY StateFacts
<1>2. WindowsFit /\ depth \in 1..Len(slots)
  BY <1>1 DEF WellNested
<1>3. slots[depth].lo <= pos /\ pos <= slots[depth].hi
  BY DEF Window
<1>4. CASE depth = 1
  <2>1. ~(depth' > 0) /\ effective_end' = Len(input)
    BY <1>4 DEF effective_end, EndAt, input
  <2>. QED
    BY <1>1, <2>1 DEF Window
<1>5. CASE depth # 1
  <2>1. depth' > 0 /\ depth \in 2..depth /\ depth' \in 1..Len(slots)
    BY <1>1, <1>5
  <2>2. /\ slots[depth - 1].lo <= slots[depth].lo
        /\ slots[depth].hi <= slots[depth - 1].hi
    BY <1>2, <2>1 DEF WindowsFit
  <2> DEFINE lo == slots[depth'].lo
             hi == slots[depth'].hi
             lo1 == slots[depth].lo
             hi1 == slots[depth].hi
  <2>3. /\ lo \in Nat /\ hi \in Nat /\ lo1 \in Nat /\ hi1 \in Nat
        /\ lo <= lo1 /\ hi1 <= hi /\ lo1 <= pos /\ pos <= hi1
    BY <1>1, <1>2, <1>3, <2>1, <2>2
  <2>4. effective_end' = hi /\ (Window(depth, pos)' <=> lo <= pos /\ pos <= hi)
    BY <2>1 DEF effective_end, EndAt, Window
  <2> HIDE DEF lo, hi, lo1, hi1
  <2>5. lo <= pos /\ pos <= hi
    BY <1>1, <2>3
  <2>. QED
    BY <2>4, <2>5
<1>. QED
  BY <1>4, <1>5

(* PopIntervalNode: the innermost window is left.                          *)
LEMMA PopIntervalNested ==
  ASSUME Disciplined, IInv, WellNested, IInv', PopInterval
  PROVE  WellNested'
<1>1. Running /\ K # <<>> /\ C.kind = "PopInterval"
  BY DEF PopInterval, Control, Running
<1>2. /\ C.kind \in SpineKinds /\ C.kind \in ChainKinds /\ C.kind \notin FailKinds
      /\ C.kind \notin Committers \cup {"EndArray", "ReturnRule"}
  BY <1>1 DEF SpineKinds, ChainKinds, FailKinds, Committers
<1>3. CASE Fail
  BY <1>1, <1>2, <1>3, FailNested
<1>4. CASE ~Fail
  <2>1. /\ depth' = IF depth > 0 THEN depth - 1 ELSE depth
        /\ Continue(C.next)
        /\ UNCHANGED <<job, pos, slots, frames, builder>>
    BY <1>4 DEF PopInterval, status, store
  <2>2. /\ IsSpine(Top.node) /\ Prog[Top.node] = C /\ ~Opening(Top)
        /\ Scope[Top.node] \in ScopeRecord /\ Window(depth, pos)
        /\ frames \in Seq(Linked) /\ Chain(frames) /\ K' = <<Run(C.next)>>
        /\ Windowed1(frames) /\ WindowsFit
    BY <1>1, <1>2, <2>1, SpineFacts DEF Opening, Continue
  <2>3. IsSpine(C.next) /\ Owing(C.next) = 0
    BY <1>1, <1>2, TopFacts, NextFacts, Zenon DEF KontOK
  <2>4. PICK x : x = Scope[Top.node]
    OBVIOUS
  <2>5. /\ Holds(frames, Len(frames), depth, Tree, x)
        /\ Len(frames) \in 0..Len(frames) /\ x \in ScopeRecord
    BY <1>1, <1>2, <2>2, <2>4, PlainFacts, LinkedFacts
  <2>6. LinkFits(Top.node, C.next, Windowed(x, -1))
    <3>1. After(C, Scope[Top.node]) = Windowed(x, -1)
      BY <1>1, <2>4 DEF After
    <3>2. <<C.next, Windowed(x, -1)>> \in Links(Prog, Top.node, Scope[Top.node])
      BY <1>1, <1>2, <2>2, <3>1, Zenon DEF Links
    <3>3. \A m, s : <<m, s>>[1] = m /\ <<m, s>>[2] = s
      OBVIOUS
    <3>. QED
      BY <1>1, <1>2, <3>2, <3>3, SpineFacts, Zenon
  <2>7. depth > 0 /\ depth \in Nat /\ Len(slots) \in Nat
    <3>1. Windowed(x, -1) \in ScopeRecord /\ Windowed(x, -1).wins = x.wins + (-1)
      BY <2>5, <2>6, CountedParts DEF LinkFits
    <3>2. x.wins + (-1) \in Nat /\ x.wins \in Nat
      BY <2>5, <3>1, ScopeParts
    <3>3. x.wins <= depth /\ depth \in Nat
      BY <2>2, <2>5, HoldsAtLeast
    <3>. QED
      BY <3>2, <3>3, StateFacts
  <2>8. depth' = depth - 1 /\ depth + (-1) = depth - 1 /\ depth' \in Int /\ depth' <= depth
    BY <2>1, <2>7
  <2>9. WindowsFit'
    BY <2>1, <2>2, <2>8, WindowsKept
  <2>10. Window(depth, pos)' /\ pos' <= effective_end' /\ pos' + 0 = pos' 
    <3>1. pos' + 0 = pos'
      BY <2>1, StateFacts
    <3>. QED
      BY <2>1, <2>2, <2>7, <2>8, <3>1, WindowLeft
  <2>11. Holds(frames', Len(frames'), depth', Tree', Windowed(x, -1))
    <3>1. Holds(frames, Len(frames), depth + (-1), Tree, Windowed(x, -1))
      BY <2>2, <2>5, HoldsCounted
    <3>2. Tree' = Tree
      BY <2>1 DEF Tree
    <3>. QED
      BY <2>1, <2>8, <3>1, <3>2
  <2>12. PICK m, n, s : m = Top.node /\ n = C.next /\ s = Windowed(x, -1)
    OBVIOUS
  <2>13. /\ IsSpine(m) /\ LinkFits(m, n, s) /\ IsSpine(n) /\ K' = <<Run(n)>>
         /\ Prog[m].kind # "ReturnRule"
    BY <1>2, <2>2, <2>3, <2>6, <2>12
  <2>14. Chain(frames)' /\ Holds(frames, Len(frames), depth, Tree, s)'
    BY <2>1, <2>2, <2>11, <2>12
  <2>15. Window(depth, pos)' /\ (pos + Owing(n) <= effective_end)'
    BY <2>3, <2>10, <2>12
  <2>. QED
    BY <2>9, <2>13, <2>14, <2>15, LinkNested
<1>. QED
  BY <1>3, <1>4

-----------------------------------------------------------------------------
(* Rules, scopes, choices.                                                 *)

(* A kont fits the scope of the link it is reached by.                     *)
LEMMA LinkOf ==
  ASSUME Disciplined, NEW m, IsSpine(m) \/ IsFail(m), NEW n, NEW s,
         <<n, s>> \in Links(Prog, m, Scope[m])
  PROVE  LinkFits(m, n, s)
<1>1. \A l \in Links(Prog, m, Scope[m]) : LinkFits(m, l[1], l[2])
  BY HasScope
<1>2. <<n, s>>[1] = n /\ <<n, s>>[2] = s
  OBVIOUS
<1>. QED
  BY <1>1, <1>2, Zenon

(* What a chain kont leaves open at its next.                              *)
LEMMA NextLink ==
  ASSUME Disciplined, IInv, WellNested, Running,
         C.kind \in ChainKinds \ {"BeginArray"}
  PROVE  /\ LinkFits(Top.node, C.next, After(C, Scope[Top.node]))
         /\ IsSpine(C.next)
<1>1. /\ K # <<>> /\ C.kind \in SpineKinds /\ Prog[Top.node] = C /\ IsSpine(Top.node)
  BY SortFacts, SpineFacts DEF Running
<1>2. <<C.next, After(C, Scope[Top.node])>> \in Links(Prog, Top.node, Scope[Top.node])
  BY <1>1, Zenon DEF Links
<1>3. IsSpine(C.next)
  BY <1>1, TopFacts, Zenon DEF KontOK
<1>. QED
  BY <1>1, <1>2, <1>3, LinkOf

(* A spine kont that changes the frames and the tree, and leaves the       *)
(* cursor and the windows as they are.                                     *)
LEMMA MoveNested ==
  ASSUME Disciplined, IInv, WellNested, IInv', Running, C.kind \in SpineKinds,
         C.kind \notin {"PushInterval", "ReturnRule"},
         UNCHANGED <<job, pos, slots, depth>>,
         NEW n, IsSpine(n), Owing(n) = 0, K' = <<Run(n)>>,
         NEW s, LinkFits(Top.node, n, s),
         Chain(frames'), Windowed1(frames'),
         Holds(frames', Len(frames'), depth, Tree', s)
  PROVE  WellNested'
<1>1. /\ IsSpine(Top.node) /\ Prog[Top.node].kind # "ReturnRule"
      /\ WindowsFit /\ Window(depth, pos)
      /\ pos + Owing(Top.node) <= effective_end
  BY SpineFacts
<1>2. WindowsFit'
  <2>1. depth' \in Int /\ depth' <= depth
    BY StateFacts
  <2>. QED
    BY <1>1, <2>1, WindowsKept
<1>3. Window(depth, pos)' /\ pos' + Owing(n) <= effective_end'
  <2>1. /\ pos \in Nat /\ effective_end \in Nat /\ Owing(Top.node) \in Nat
    BY <1>1, StateFacts, WindowFacts, OwingFacts DEF IsSpine
  <2>2. pos + 0 <= effective_end
    BY <1>1, <2>1
  <2>. QED
    BY <1>1, <2>2, RoomFacts
<1>4. PICK m : m = Top.node
  OBVIOUS
<1>5. IsSpine(m) /\ LinkFits(m, n, s) /\ Prog[m].kind # "ReturnRule"
  BY <1>1, <1>4
<1>6. Chain(frames)' /\ Holds(frames, Len(frames), depth, Tree, s)'
  OBVIOUS
<1>7. Window(depth, pos)' /\ (pos + Owing(n) <= effective_end)'
  BY <1>3
<1>. QED
  BY <1>2, <1>5, <1>6, <1>7, LinkNested

(* Structs and variants: a node is opened or closed.                       *)
LEMMA ScopeNested ==
  ASSUME Disciplined, IInv, WellNested, IInv', BeginStruct \/ BeginVariant \/ EndStruct
  PROVE  WellNested'
<1>1. /\ Running /\ K # <<>> /\ C.kind \in {"BeginStruct", "BeginVariant", "EndStruct"}
      /\ Continue(C.next) /\ UNCHANGED <<job, pos, slots, depth, frames>>
  BY DEF BeginStruct, BeginVariant, EndStruct, Control, Running, status, window, store
<1>2. /\ C.kind \in SpineKinds /\ C.kind \in ChainKinds \ {"BeginArray"}
      /\ C.kind \notin Committers \cup {"EndArray", "PushInterval", "ReturnRule"}
  BY <1>1 DEF SpineKinds, ChainKinds, Committers
<1>3. /\ ~Opening(Top) /\ Prog[Top.node] = C /\ Scope[Top.node] \in ScopeRecord
      /\ frames \in Seq(Linked) /\ Chain(frames) /\ Windowed1(frames)
      /\ K' = <<Run(C.next)>>
  BY <1>1, <1>2, SpineFacts DEF Opening, Continue
<1>4. PICK x : x = Scope[Top.node]
  OBVIOUS
<1>5. /\ Holds(frames, Len(frames), depth, Tree, x)
      /\ Len(frames) \in 0..Len(frames) /\ x \in ScopeRecord
  BY <1>1, <1>2, <1>3, <1>4, PlainFacts, LinkedFacts
<1>6. PICK c \in Int : /\ After(C, x) = Noded(x, c)
                       /\ EndStruct => c = -1 /\ C.kind = "EndStruct"
                       /\ ~EndStruct => c = 1
  <2>1. CASE EndStruct
    <3>1. C.kind = "EndStruct"
      BY <2>1 DEF EndStruct, Control
    <3>2. After(C, x) = Noded(x, -1)
      BY <3>1 DEF After
    <3>. QED
      BY <2>1, <3>1, <3>2
  <2>2. CASE ~EndStruct
    <3>1. C.kind \in {"BeginStruct", "BeginVariant"}
      BY <2>2 DEF BeginStruct, BeginVariant, Control
    <3>2. After(C, x) = Noded(x, 1)
      BY <3>1 DEF After
    <3>. QED
      BY <2>2, <3>2
  <2>. QED
    BY <2>1, <2>2
<1>7. LinkFits(Top.node, C.next, Noded(x, c)) /\ IsSpine(C.next)
  BY <1>1, <1>2, <1>4, <1>6, NextLink
<1>8. Tree' = Tree + c
  <2>1. CASE EndStruct
    <3>1. Noded(x, -1) \in ScopeRecord /\ Noded(x, -1).tree = x.tree + (-1)
      BY <1>5, <1>6, <1>7, <2>1, CountedParts DEF LinkFits
    <3>2. x.tree + (-1) \in Nat /\ x.tree \in Nat
      BY <1>5, <3>1, ScopeParts
    <3>3. x.tree <= Tree /\ Tree \in Nat
      BY <1>3, <1>5, HoldsAtLeast
    <3>4. Tree # 0
      BY <3>2, <3>3
    <3>5. builder' = close(builder, pos)
      BY <2>1 DEF EndStruct
    <3>6. Len(close(builder, pos).stack) = Len(builder.stack) - 1
      BY <3>4, TreeFacts, CallsClose
    <3>. QED
      BY <1>6, <2>1, <3>3, <3>5, <3>6 DEF Tree
  <2>2. CASE ~EndStruct
    <3>1. \A v, g : /\ Len(begin_struct(builder, v, pos).stack) = Len(builder.stack) + 1
                    /\ Len(begin_variant(builder, v, pos, g).stack) = Len(builder.stack) + 1
      BY TreeFacts, CallsOpen
    <3>2. Len(builder'.stack) = Len(builder.stack) + 1
      <4>1. CASE BeginStruct
        BY <3>1, <4>1 DEF BeginStruct
      <4>2. CASE BeginVariant
        BY <3>1, <4>2 DEF BeginVariant
      <4>. QED
        BY <2>2, <4>1, <4>2
    <3>. QED
      BY <1>6, <2>2, <3>2 DEF Tree
  <2>. QED
    BY <2>1, <2>2
<1>9. Holds(frames, Len(frames), depth, Tree + c, Noded(x, c))
  BY <1>3, <1>5, HoldsCounted
<1>10. Owing(C.next) = 0
  BY <1>1, <1>2, NextFacts
<1>11. PICK n, s : n = C.next /\ s = Noded(x, c)
  OBVIOUS
<1>12. /\ IsSpine(n) /\ Owing(n) = 0 /\ K' = <<Run(n)>> /\ LinkFits(Top.node, n, s)
       /\ Chain(frames') /\ Windowed1(frames')
       /\ Holds(frames', Len(frames'), depth, Tree', s)
  BY <1>1, <1>3, <1>7, <1>8, <1>9, <1>10, <1>11
<1>. QED
  BY <1>1, <1>2, <1>12, MoveNested

(* The members of new frames.                                              *)
LEMMA FrameParts ==
  ASSUME NEW h, NEW n, NEW b, NEW limit
  PROVE  /\ Savepoint(h, b).type = "Savepoint" /\ Savepoint(h, b).on_fail = h
         /\ Savepoint(h, b).depth = depth /\ Savepoint(h, b).pos = pos
         /\ Savepoint(h, b).mark.depth = mark(b).depth
         /\ LoopFrame(limit).type = "Loop" /\ LoopFrame(limit).on_fail = Nil
         /\ Frame("Return", h, n, mark(b)).type = "Return"
         /\ Frame("Return", h, n, mark(b)).on_fail = h
         /\ Frame("Return", h, n, mark(b)).next = n
         /\ Frame("Return", h, n, mark(b)).depth = depth
         /\ Frame("Return", h, n, mark(b)).mark.depth = mark(b).depth
BY DEF Savepoint, LoopFrame, Frame

(* Pushing a frame that is not a caller's opens the scope.                 *)
LEMMA PushHolds ==
  ASSUME Disciplined, NEW fs \in Seq(Linked), Chain(fs), NEW f \in Linked,
         f.type # "Return", f.type = "Loop" => f.on_fail = Nil,
         f.type = "Savepoint" =>
           /\ IsFail(f.on_fail)
           /\ Holds(fs, Len(fs), f.depth, f.mark.depth, Scope[f.on_fail])
           /\ Over(fs, f.depth, f.mark.depth),
         NEW d, NEW t, NEW x \in ScopeRecord, Holds(fs, Len(fs), d, t, x)
  PROVE  /\ Append(fs, f) \in Seq(Linked) /\ Chain(Append(fs, f))
         /\ Len(Append(fs, f)) = Len(fs) + 1
         /\ Holds(Append(fs, f), Len(Append(fs, f)), d, t, Opened(x, f.on_fail))
<1> DEFINE gs == Append(fs, f)
<1>1. f.type \in {"Savepoint", "Loop", "Return"} /\ Len(fs) \in Nat
      /\ Len(fs) \in 0..Len(fs)
  BY LinkedFacts DEF Linked, FrameRecord
<1>2. /\ Chain(gs) /\ gs \in Seq(Linked) /\ Len(gs) = Len(fs) + 1
      /\ gs[Len(fs) + 1] = f /\ AlikeTo(fs, gs, Len(fs))
  BY <1>1, ChainAppend
<1> HIDE DEF gs
<1>3. Len(fs) <= Len(gs)
  BY <1>1, <1>2
<1>4. Holds(gs, Len(fs), d, t, x)
  BY <1>1, <1>2, <1>3, HoldsAlike
<1>5. PICK j : j = Len(fs) + 1
  OBVIOUS
<1>6. /\ j \in 1..Len(gs) /\ j - 1 = Len(fs) /\ gs[j] = f /\ Len(gs) = j
  BY <1>1, <1>2, <1>5
<1>7. Holds(gs, j, d, t, Opened(x, gs[j].on_fail))
  BY <1>2, <1>4, <1>6, HoldsOpened
<1>8. Holds(gs, Len(gs), d, t, Opened(x, f.on_fail))
  BY <1>6, <1>7
<1>. QED
  BY <1>2, <1>8 DEF gs

(* A link to a handler leads where its scope is.                           *)
LEMMA HandlerLink ==
  ASSUME NEW m, NEW h, IsFail(h), NEW s, LinkFits(m, h, s)
  PROVE  s = Scope[h] /\ s \in ScopeRecord
<1>1. Prog[h].kind \in FailKinds
  BY DEF IsFail
<1>2. Prog[h].kind \notin Committers \cup {"EndArray"}
  BY <1>1 DEF FailKinds, Committers
<1>. QED
  BY <1>2 DEF LinkFits, Leads, Drops

(* Choices and optionals open a Savepoint.                                 *)
LEMMA BeginChoiceNested ==
  ASSUME Disciplined, IInv, WellNested, IInv', BeginChoice
  PROVE  WellNested'
<1> DEFINE f == Savepoint(C.on_fail, builder)
<1>1. /\ Running /\ K # <<>> /\ C.kind \in {"BeginChoice", "BeginOptional"}
      /\ Continue(C.next) /\ UNCHANGED <<job, pos, slots, depth, builder>>
      /\ frames' = Append(frames, f)
  BY DEF BeginChoice, Control, Running, status, window
<1>2. /\ C.kind \in SpineKinds /\ C.kind \in ChainKinds \ {"BeginArray"}
      /\ C.kind \notin Committers \cup {"EndArray", "PushInterval", "ReturnRule"}
  BY <1>1 DEF SpineKinds, ChainKinds, Committers
<1>3. /\ ~Opening(Top) /\ Prog[Top.node] = C /\ Scope[Top.node] \in ScopeRecord
      /\ frames \in Seq(Linked) /\ Chain(frames) /\ Windowed1(frames)
      /\ K' = <<Run(C.next)>> /\ IsSpine(Top.node)
      /\ Over(frames, depth, Tree) /\ Window(depth, pos)
  BY <1>1, <1>2, SpineFacts DEF Opening, Continue
<1>4. PICK x : x = Scope[Top.node]
  OBVIOUS
<1>5. Holds(frames, Len(frames), depth, Tree, x) /\ x \in ScopeRecord
  BY <1>1, <1>2, <1>3, <1>4, PlainFacts
<1>6. /\ IsFail(C.on_fail) /\ IsFailOrNil(C.on_fail)
  BY <1>1, TopFacts, Zenon DEF KontOK, IsFailOrNil
<1>7. x = Scope[C.on_fail]
  <2>1. <<C.on_fail, x>> \in Links(Prog, Top.node, Scope[Top.node])
    BY <1>1, <1>3, <1>4, Zenon DEF Links
  <2>. QED
    BY <1>3, <1>6, <2>1, LinkOf, HandlerLink
<1>8. LinkFits(Top.node, C.next, Opened(x, C.on_fail)) /\ IsSpine(C.next)
  <2>1. After(C, x) = Opened(x, C.on_fail)
    BY <1>1 DEF After
  <2>. QED
    BY <1>1, <1>2, <1>4, <2>1, NextLink
<1>9. Owing(C.next) = 0
  BY <1>1, <1>2, NextFacts
<1>10. f \in Linked
  <2>1. f \in GoodFrame(Len(slots), Len(input))
    BY <1>1, <1>2, <1>6, FrameGood DEF IInv
  <2>. QED
    BY <2>1, GoodLinked
<1>11. /\ f.type = "Savepoint" /\ f.on_fail = C.on_fail /\ f.depth = depth
       /\ f.pos = pos /\ f.mark.depth = Tree
  BY FrameParts, TreeFacts
<1> HIDE DEF f
<1>12. /\ Chain(frames') /\ Holds(frames', Len(frames'), depth, Tree, Opened(x, C.on_fail))
  BY <1>1, <1>3, <1>5, <1>6, <1>7, <1>10, <1>11, PushHolds
<1>13. Windowed1(frames')
  BY <1>1, <1>3, <1>10, <1>11, SavedAppend
<1>14. PICK n, s : n = C.next /\ s = Opened(x, C.on_fail)
  OBVIOUS
<1>15. /\ IsSpine(n) /\ Owing(n) = 0 /\ K' = <<Run(n)>> /\ LinkFits(Top.node, n, s)
       /\ Chain(frames') /\ Windowed1(frames') /\ Tree' = Tree
       /\ Holds(frames', Len(frames'), depth, Tree', s)
  BY <1>1, <1>3, <1>8, <1>9, <1>12, <1>13, <1>14 DEF Tree
<1>. QED
  BY <1>1, <1>2, <1>15, MoveNested

(* Committing drops the Savepoint the arm stands on.                       *)
LEMMA CommitChoiceNested ==
  ASSUME Disciplined, IInv, WellNested, IInv', CommitChoice
  PROVE  WellNested'
<1>1. /\ Running /\ K # <<>> /\ C.kind \in Committers
      /\ Continue(C.next) /\ UNCHANGED <<job, pos, slots, depth, builder>>
      /\ frames' = IF TopIs("Savepoint") THEN PopFrame ELSE frames
  BY DEF CommitChoice, Control, Running, status, window, Committers
<1>2. /\ C.kind \in SpineKinds /\ C.kind \in ChainKinds \ {"BeginArray"}
      /\ C.kind \notin {"EndArray", "PushInterval", "ReturnRule"}
  BY <1>1 DEF SpineKinds, ChainKinds, Committers
<1>3. /\ ~Opening(Top) /\ Prog[Top.node] = C /\ Scope[Top.node] \in ScopeRecord
      /\ frames \in Seq(Linked) /\ Chain(frames) /\ Windowed1(frames)
      /\ K' = <<Run(C.next)>> /\ Stands(frames, depth, Tree, Top.node)
  BY <1>1, <1>2, SpineFacts DEF Opening, Continue
<1>4. PICK x : x = Scope[Top.node]
  OBVIOUS
<1>5. /\ frames # <<>> /\ Newest(frames).type = "Savepoint"
      /\ Holds(frames, Len(frames) - 1, depth, Tree, x)
  BY <1>1, <1>3, <1>4 DEF Stands
<1>6. frames' = SubSeq(frames, 1, Len(frames) - 1)
  BY <1>1, <1>5 DEF TopIs, FrameTop, Newest, PopFrame
<1>7. PICK j : j = Len(frames) - 1
  OBVIOUS
<1>8. j \in 0..Len(frames)
  BY <1>3, <1>5, <1>7, LinkedFacts
<1>9. /\ Chain(frames') /\ frames' \in Seq(Linked) /\ Len(frames') = j
      /\ AlikeTo(frames, frames', j) /\ Windowed1(frames')
  BY <1>3, <1>6, <1>7, <1>8, ChainPrefix, SavedPrefix
<1>10. Holds(frames', Len(frames'), depth, Tree, x)
  <2>1. j <= Len(frames')
    BY <1>8, <1>9
  <2>. QED
    BY <1>3, <1>4, <1>5, <1>7, <1>8, <1>9, <2>1, HoldsAlike
<1>11. LinkFits(Top.node, C.next, x) /\ IsSpine(C.next)
  <2>1. After(C, x) = x
    BY <1>1 DEF After, Committers
  <2>. QED
    BY <1>1, <1>2, <1>4, <2>1, NextLink
<1>12. Owing(C.next) = 0
  <2>1. C.kind \notin {"Capture", "StoreEnv", "EvalConstraint", "AdvancePos",
                       "ExtractBits"}
    BY <1>1 DEF Committers
  <2>. QED
    BY <1>1, <1>2, <2>1, NextFacts
<1>13. PICK n : n = C.next
  OBVIOUS
<1>14. /\ IsSpine(n) /\ Owing(n) = 0 /\ K' = <<Run(n)>> /\ LinkFits(Top.node, n, x)
       /\ Tree' = Tree
  BY <1>1, <1>3, <1>11, <1>12, <1>13 DEF Tree
<1>. QED
  BY <1>1, <1>2, <1>9, <1>10, <1>14, MoveNested

(* A call pushes a Return frame, over which nothing is open.               *)
LEMMA InvokeRuleNested ==
  ASSUME Disciplined, IInv, WellNested, IInv', InvokeRule
  PROVE  WellNested'
<1> DEFINE f == Frame("Return", C.fail_target, C.next, mark(builder))
<1>1. /\ Running /\ K # <<>> /\ C.kind = "InvokeRule"
      /\ Continue(C.entry) /\ UNCHANGED <<job, pos, slots, depth, builder>>
      /\ frames' = Append(frames, f)
  BY DEF InvokeRule, Control, Running, status, window
<1>2. /\ C.kind \in SpineKinds /\ C.kind \in ChainKinds \ {"BeginArray"}
      /\ C.kind \notin Committers \cup {"EndArray", "PushInterval", "ReturnRule"}
  BY <1>1 DEF SpineKinds, ChainKinds, Committers
<1>3. /\ ~Opening(Top) /\ Prog[Top.node] = C /\ Scope[Top.node] \in ScopeRecord
      /\ frames \in Seq(Linked) /\ Chain(frames) /\ Windowed1(frames)
      /\ K' = <<Run(C.entry)>> /\ IsSpine(Top.node) /\ ScopeFits(Top.node)
      /\ Over(frames, depth, Tree)
  BY <1>1, <1>2, SpineFacts DEF Opening, Continue
<1>4. PICK x : x = Scope[Top.node]
  OBVIOUS
<1>5. Holds(frames, Len(frames), depth, Tree, x) /\ x \in ScopeRecord
  BY <1>1, <1>2, <1>3, <1>4, PlainFacts
<1>6. /\ IsSpine(C.entry) /\ Owing(C.entry) = 0
      /\ IsFailOrNil(C.fail_target)
  BY <1>1, TopFacts, Zenon DEF KontOK, DebtOK
<1>7. /\ Prog[C.next].kind \notin Committers \cup {"EndArray", "Halt"}
      /\ x = Scope[C.next] /\ IsSpine(C.next) /\ Owing(C.next) = 0
      /\ C.fail_target # Nil => Reaches(Scope[C.next].open, C.fail_target)
  <2>1. After(C, x) = x
    BY <1>1 DEF After
  <2>2. LinkFits(Top.node, C.next, x) /\ IsSpine(C.next)
    BY <1>1, <1>2, <1>4, <2>1, NextLink
  <2>3. /\ Prog[C.next].kind \notin Committers \cup {"EndArray"}
        /\ C.fail_target # Nil => Reaches(x.open, C.fail_target)
    BY <1>1, <1>3, <1>4, Zenon DEF ScopeFits
  <2>4. x = Scope[C.next] /\ Prog[C.next].kind # "Halt"
    BY <1>1, <1>3, <2>2, <2>3 DEF LinkFits, Leads, Drops
  <2>5. Owing(C.next) = 0
    BY <1>1, <1>2, NextFacts
  <2>. QED
    BY <2>2, <2>3, <2>4, <2>5
<1>8. f \in Linked
  <2>1. f \in GoodFrame(Len(slots), Len(input))
    BY <1>1, <1>2, <1>6, <1>7, FrameGood DEF IInv
  <2>. QED
    BY <2>1, GoodLinked
<1>9. /\ f.type = "Return" /\ f.on_fail = C.fail_target /\ f.next = C.next
      /\ f.depth = depth /\ f.mark.depth = Tree
  BY FrameParts, TreeFacts
<1> HIDE DEF f
<1>10. Chain(frames') /\ Len(frames') = Len(frames) + 1
  BY <1>1, <1>3, <1>5, <1>7, <1>8, <1>9, ChainAppend
<1>11. Windowed1(frames')
  BY <1>1, <1>3, <1>8, <1>9, SavedAppend
<1>12. Holds(frames', Len(frames'), depth, Tree, Nothing)
  BY <1>1, <1>3, <1>8, <1>9, <1>10, HoldsCall
<1>13. LinkFits(Top.node, C.entry, Nothing)
  <2>1. <<C.entry, Nothing>> \in Links(Prog, Top.node, Scope[Top.node])
    BY <1>1, <1>3, Zenon DEF Links
  <2>. QED
    BY <1>3, <2>1, LinkOf
<1>14. PICK n, s : n = C.entry /\ s = Nothing
  OBVIOUS
<1>15. /\ IsSpine(n) /\ Owing(n) = 0 /\ K' = <<Run(n)>> /\ LinkFits(Top.node, n, s)
       /\ Tree' = Tree /\ Holds(frames', Len(frames'), depth, Tree', s)
  BY <1>1, <1>3, <1>6, <1>12, <1>13, <1>14 DEF Tree
<1>. QED
  BY <1>1, <1>2, <1>10, <1>11, <1>15, MoveNested

(* A return finds its caller's frame on top, or there is none.             *)
LEMMA ReturnRuleNested ==
  ASSUME Disciplined, IInv, WellNested, IInv', ReturnRule
  PROVE  WellNested'
<1>1. /\ Running /\ K # <<>> /\ C.kind = "ReturnRule"
      /\ UNCHANGED <<job, pos, slots, depth, builder>>
  BY DEF ReturnRule, Control, Running, status, window
<1>2. /\ C.kind \in SpineKinds /\ C.kind \in ChainKinds \ {"BeginArray"}
      /\ C.kind \notin Committers \cup {"EndArray", "PushInterval"}
  BY <1>1 DEF SpineKinds, ChainKinds, Committers
<1>3. /\ ~Opening(Top) /\ Prog[Top.node] = C /\ Scope[Top.node] \in ScopeRecord
      /\ frames \in Seq(Linked) /\ Chain(frames) /\ Windowed1(frames)
      /\ IsSpine(Top.node) /\ ScopeFits(Top.node)
      /\ Over(frames, depth, Tree) /\ WindowsFit /\ Window(depth, pos)
      /\ pos + Owing(Top.node) <= effective_end
      /\ \A n : Append(Rest, Run(n)) = <<Run(n)>>
  BY <1>1, <1>2, SpineFacts DEF Opening
<1>4. Scope[Top.node] = Nothing
  BY <1>1, <1>3, Zenon DEF ScopeFits
<1>5. Holds(frames, Len(frames), depth, Tree, Nothing)
  BY <1>1, <1>2, <1>3, <1>4, PlainFacts
<1>6. /\ Len(frames) \in Nat /\ Len(frames) \in 0..Len(frames)
      /\ frames # <<>> => Len(frames) \in 1..Len(frames)
      /\ frames = <<>> => Len(frames) = 0
  BY <1>3, LinkedFacts
<1>7. Len(frames) > 0 => /\ frames[Len(frames)].type = "Return"
                         /\ depth = frames[Len(frames)].depth
                         /\ Tree = frames[Len(frames)].mark.depth
  BY <1>3, <1>5, <1>6, HoldsNothing
<1>8. WindowsFit' /\ Tree' = Tree
  <2>1. Windowed1(frames')
    <3>1. frames' = frames \/ (frames # <<>> /\ frames' = PopFrame)
      BY DEF ReturnRule, TopIs, store
    <3>2. CASE frames # <<>> /\ frames' = PopFrame
      <4>1. Len(frames) - 1 \in 0..Len(frames)
        BY <1>6, <3>2
      <4>. QED
        BY <1>3, <3>2, <4>1, SavedPrefix DEF PopFrame
    <3>. QED
      BY <1>3, <3>1, <3>2
  <2>2. depth' \in Int /\ depth' <= depth /\ slots' = slots
    BY <1>1, StateFacts
  <2>. QED
    BY <1>1, <1>3, <2>1, <2>2, WindowsKept DEF Tree
<1>9. ASSUME NEW n, Owing(n) = 0
      PROVE  Window(depth, pos)' /\ (pos + Owing(n) <= effective_end)'
  <2>1. /\ pos \in Nat /\ effective_end \in Nat /\ Owing(Top.node) \in Nat
    BY <1>3, StateFacts, WindowFacts, OwingFacts DEF IsSpine
  <2>2. pos + 0 <= effective_end
    BY <1>3, <2>1
  <2>. QED
    BY <1>1, <1>3, <1>9, <2>2, RoomFacts
<1>10. CASE TopIs("Return")
  <2> DEFINE f == frames[Len(frames)]
  <2>1. /\ frames # <<>> /\ frames' = SubSeq(frames, 1, Len(frames) - 1)
        /\ f.type = "Return" /\ K' = <<Run(f.next)>>
    BY <1>3, <1>10 DEF ReturnRule, TopIs, FrameTop, PopFrame, Continue
  <2>2. PICK j : j = Len(frames) - 1
    OBVIOUS
  <2>3. j \in 0..Len(frames) /\ Len(frames) \in DOMAIN frames /\ Len(frames) > 0
    BY <1>3, <1>6, <2>1, <2>2, LinkedFacts
  <2>4. /\ Chain(frames') /\ frames' \in Seq(Linked) /\ Len(frames') = j
        /\ AlikeTo(frames, frames', j) /\ Over(frames', depth, Tree)
    BY <1>3, <2>1, <2>2, <2>3, ChainPrefix, OverPrefix
  <2>5. FrameFits(frames, Len(frames))
    BY <1>3, <2>3 DEF Chain
  <2>6. /\ Holds(frames, j, f.depth, f.mark.depth, Scope[f.next])
        /\ Prog[f.next].kind \notin Committers \cup {"EndArray", "Halt"}
    BY <2>1, <2>2, <2>5, Zenon DEF FrameFits
  <2>7. IsSpine(f.next) /\ Owing(f.next) = 0
    <3>1. f \in GoodFrame(Len(slots), Len(input))
      BY <1>6, <2>1, StateFacts
    <3>. QED
      BY <2>1, <3>1 DEF GoodFrame
  <2>8. Scope[f.next] \in ScopeRecord
    BY <2>7, HasScope
  <2>9. Holds(frames, j, depth, Tree, Scope[f.next])
    BY <1>7, <2>3, <2>6
  <2> HIDE DEF f
  <2>10. j <= Len(frames')
    BY <2>3, <2>4
  <2>11. Holds(frames', Len(frames'), depth, Tree, Scope[f.next])
    BY <1>3, <2>3, <2>4, <2>8, <2>9, <2>10, HoldsAlike
  <2>12. PICK n : n = f.next
    OBVIOUS
  <2>13. /\ IsSpine(n) /\ K' = <<Run(n)>> /\ Prog[n].kind # "Halt"
         /\ Chain(frames)' /\ Over(frames, depth, Tree)' /\ WindowsFit'
         /\ Window(depth, pos)' /\ (pos + Owing(n) <= effective_end)'
    BY <1>1, <1>8, <1>9, <2>1, <2>4, <2>6, <2>7, <2>12
  <2>14. Stands(frames, depth, Tree, n)'
    BY <1>1, <1>8, <2>6, <2>11, <2>12 DEF Stands
  <2>. QED
    BY <2>13, <2>14, GotoNested
<1>11. CASE ~TopIs("Return")
  <2>1. frames' = frames /\ K' = <<Run(C.next)>>
    BY <1>3, <1>11 DEF ReturnRule, store, Continue
  <2>2. frames = <<>>
    <3>1. SUFFICES ASSUME frames # <<>> PROVE FALSE
      OBVIOUS
    <3>2. Len(frames) > 0
      BY <1>6, <3>1
    <3>. QED
      BY <1>7, <1>11, <3>1, <3>2 DEF TopIs, FrameTop
  <2>3. LinkFits(Top.node, C.next, Nothing) /\ IsSpine(C.next)
    <3>1. After(C, Nothing) = Nothing
      BY <1>1 DEF After
    <3>. QED
      BY <1>1, <1>2, <1>4, <3>1, NextLink
  <2>4. Nothing \in ScopeRecord /\ Leads(Nothing, C.next) /\ Bounded(Nothing)
    BY <2>3 DEF LinkFits
  <2>5. Owing(C.next) = 0
    BY <1>1, <1>2, NextFacts
  <2>6. PICK n : n = C.next
    OBVIOUS
  <2>7. Stands(frames, depth, Tree, n)
    BY <1>3, <1>5, <2>4, <2>6, LeadsStands
  <2>8. /\ IsSpine(n) /\ K' = <<Run(n)>> /\ frames' = <<>>
        /\ Chain(frames)' /\ Over(frames, depth, Tree)' /\ WindowsFit'
        /\ Window(depth, pos)' /\ (pos + Owing(n) <= effective_end)'
    BY <1>1, <1>3, <1>8, <1>9, <2>1, <2>2, <2>3, <2>5, <2>6
  <2>9. Stands(frames, depth, Tree, n)'
    BY <1>1, <1>8, <2>1, <2>7 DEF Stands
  <2>. QED
    BY <2>8, <2>9, GotoNested
<1>. QED
  BY <1>10, <1>11

(* The machine halts with nothing open.                                    *)
LEMMA HaltNested ==
  ASSUME Disciplined, IInv, WellNested, IInv', Halt
  PROVE  WellNested'
<1>1. /\ Running /\ K # <<>> /\ C.kind = "Halt" /\ K' = Rest \o <<>>
      /\ UNCHANGED <<job, pos, slots, depth, frames, builder, failed>>
  BY DEF Halt, Control, Running, Schedule, status, window, store
<1>2. /\ C.kind \in SpineKinds
      /\ C.kind \notin Committers \cup {"EndArray", "PushInterval"}
  BY <1>1 DEF SpineKinds, Committers
<1>3. /\ ~Opening(Top) /\ Prog[Top.node] = C /\ frames = <<>> /\ Rest = <<>>
      /\ frames \in Seq(Linked) /\ Chain(frames) /\ Windowed1(frames)
      /\ Over(frames, depth, Tree) /\ WindowsFit /\ ScopeFits(Top.node)
  BY <1>1, <1>2, SpineFacts DEF Opening
<1>4. Scope[Top.node] = Nothing
  BY <1>1, <1>3, Zenon DEF ScopeFits
<1>5. Holds(frames, Len(frames), depth, Tree, Nothing)
  BY <1>1, <1>2, <1>3, <1>4, PlainFacts
<1>6. Len(frames) = 0 /\ Len(frames) \in 0..Len(frames)
  BY <1>3, EmptySeq
<1>7. depth = 0 /\ Tree = 0
  <2>1. PICK j, d, t : j = Len(frames) /\ d = depth /\ t = Tree
    OBVIOUS
  <2>2. j \in 0..Len(frames) /\ Holds(frames, j, d, t, Nothing)
    BY <1>5, <1>6, <2>1
  <2>3. frames \in Seq(Linked)
    BY <1>3
  <2>4. j = 0 => d = 0 /\ t = 0
    BY <2>2, <2>3, HoldsNothing
  <2>. QED
    BY <1>6, <2>1, <2>4
<1>8. builder.stack = <<>>
  BY <1>7, TreeFacts
<1>9. K' = <<>>
  BY <1>1, <1>3
<1>10. WindowsFit'
  <2>1. depth' \in Int /\ depth' <= depth /\ Windowed1(frames') /\ slots' = slots
    BY <1>1, <1>3, StateFacts
  <2>. QED
    BY <1>3, <2>1, WindowsKept
<1>11. Chain(frames') /\ Over(frames', depth', Tree')
  BY <1>1, <1>3 DEF Tree
<1>12. 1..Len(K') - 1 = {}
  BY <1>9, EmptySeq
<1>13. frames' = <<>> /\ depth' = 0 /\ builder'.stack = <<>>
  BY <1>1, <1>3, <1>7, <1>8
<1>14. ~Running'
  BY <1>9 DEF Running
<1>. QED
  BY <1>9, <1>10, <1>11, <1>12, <1>13, <1>14, EmptySeq DEF WellNested

-----------------------------------------------------------------------------
(* Arrays.                                                                 *)

(* What OpenArray opens: a node, a Loop frame and, if the array recovers,  *)
(* the Savepoint its elements are retried from.                            *)
LEMMA OpenArrayOpens ==
  ASSUME Disciplined, IInv, WellNested, Running, C.kind = "BeginArray",
         ~Opening(Top), NEW limit \in Int, NEW h, h \in {Nil, C.resync},
         OpenArray(limit, h), NEW x, x = Scope[Top.node]
  PROVE  /\ UNCHANGED <<job, pos, slots, depth>>
         /\ Chain(frames') /\ Windowed1(frames') /\ frames' \in Seq(Linked)
         /\ h = Nil => Holds(frames', Len(frames'), depth, Tree', Looping(x))
         /\ h # Nil => Holds(frames', Len(frames'), depth, Tree',
                             Opened(Looping(x), h))
<1> DEFINE b == begin_array(builder, C.name, pos)
           l == LoopFrame(limit)
           s == Savepoint(h, b)
           loop == Append(frames, l)
           y == Noded(x, 1)
<1>1. K # <<>> /\ C.kind \in SpineKinds /\ C.kind \notin Committers \cup {"EndArray"}
  BY DEF Running, SpineKinds, ChainKinds, Committers
<1>2. /\ Prog[Top.node] = C /\ Scope[Top.node] \in ScopeRecord
      /\ frames \in Seq(Linked) /\ Chain(frames) /\ Windowed1(frames)
      /\ IsSpine(Top.node) /\ Over(frames, depth, Tree) /\ Window(depth, pos)
  BY <1>1, SpineFacts
<1>3. Holds(frames, Len(frames), depth, Tree, x) /\ x \in ScopeRecord
  BY <1>1, <1>2, PlainFacts
<1>4. /\ UNCHANGED <<job, pos, slots, depth>> /\ builder' = b
      /\ frames' = IF h = Nil THEN loop ELSE Append(loop, s)
  BY DEF OpenArray, status, window
<1>5. IsFailOrNil(C.resync) /\ IsFailOrNil(h) /\ (h # Nil => IsFail(h))
  BY <1>1, ArrayFacts DEF IsFailOrNil
<1>6. b \in GoodBuilder(Len(input))
  BY <1>1, <1>4, <1>5, OpenArrayGood
<1>7. Tree' = Tree + 1 /\ mark(b).depth = Tree + 1 /\ Tree \in Nat
  <2>1. Len(b.stack) = Len(builder.stack) + 1
    BY TreeFacts, CallsOpen
  <2>. QED
    BY <1>4, <2>1, TreeFacts DEF Tree, mark
<1>8. /\ l \in Linked /\ l.type = "Loop" /\ l.on_fail = Nil
  <2>1. l \in GoodFrame(Len(slots), Len(input))
    BY <1>1, <1>6, FrameGood
  <2>. QED
    BY <2>1, GoodLinked, FrameParts
<1>9. s \in Linked /\ s.type = "Savepoint" /\ s.on_fail = h
      /\ s.depth = depth /\ s.pos = pos /\ s.mark.depth = Tree + 1
  <2>1. s \in GoodFrame(Len(slots), Len(input))
    BY <1>1, <1>5, <1>6, FrameGood
  <2>. QED
    BY <1>7, <2>1, GoodLinked, FrameParts
<1> HIDE DEF b, l, s
<1>10. y \in ScopeRecord /\ Holds(frames, Len(frames), depth, Tree + 1, y)
  <2>1. Len(frames) \in 0..Len(frames)
    BY <1>2, LinkedFacts
  <2>2. x.tree + 1 \in Nat
    BY <1>3, ScopeParts
  <2>4. y \in ScopeRecord
    BY <1>3, <2>2, CountedParts
  <2>3. Holds(frames, Len(frames), depth, Tree + 1, y)
    BY <1>2, <1>3, <2>1, HoldsCounted
  <2> HIDE DEF y
  <2>. QED
    BY <2>3, <2>4
<1>11. PICK t : t = Tree + 1
  OBVIOUS
<1> HIDE DEF y
<1>12. /\ loop \in Seq(Linked) /\ Chain(loop)
       /\ Holds(loop, Len(loop), depth, t, Opened(y, Nil))
  <2>1. l.type # "Return" /\ l.type # "Savepoint"
    BY <1>8
  <2>2. Holds(frames, Len(frames), depth, t, y)
    BY <1>10, <1>11
  <2>. QED
    BY <1>2, <1>8, <1>10, <2>1, <2>2, PushHolds
<1>13. Windowed1(loop)
  BY <1>2, <1>8, SavedAppend
<1>14. Over(loop, depth, t)
  <2>1. Over(frames, depth, t)
    BY <1>2, <1>7, <1>11, StateFacts, OverMore
  <2>2. Under(l, depth, t)
    BY <1>8 DEF Under
  <2>. QED
    BY <1>2, <1>8, <2>1, <2>2, OverAppend
<1>15. Looping(x) = Opened(y, Nil)
  BY DEF Looping, y
<1>16. CASE h = Nil
  BY <1>4, <1>7, <1>11, <1>12, <1>13, <1>15, <1>16
<1>17. CASE h # Nil
  <2>1. C.resync = h /\ C.resync # Nil /\ IsFail(h)
    BY <1>5, <1>17
  <2>2. <<h, Looping(x)>> \in Links(Prog, Top.node, Scope[Top.node])
    BY <1>2, <2>1, Zenon DEF Links
  <2>3. Looping(x) = Scope[h] /\ Looping(x) \in ScopeRecord
    BY <1>2, <2>1, <2>2, LinkOf, HandlerLink
  <2> HIDE DEF loop
  <2>4. /\ Holds(loop, Len(loop), s.depth, s.mark.depth, Scope[s.on_fail])
        /\ Over(loop, s.depth, s.mark.depth)
        /\ Holds(loop, Len(loop), depth, t, Looping(x))
    BY <1>9, <1>11, <1>12, <1>14, <1>15, <2>3
  <2>5. /\ Append(loop, s) \in Seq(Linked) /\ Chain(Append(loop, s))
        /\ Holds(Append(loop, s), Len(Append(loop, s)), depth, t,
                 Opened(Looping(x), s.on_fail))
    <3>1. s.type # "Return" /\ s.type # "Loop" /\ IsFail(s.on_fail)
      BY <1>9, <2>1
    <3>. QED
      BY <1>9, <1>12, <2>3, <2>4, <3>1, PushHolds
  <2>6. Windowed1(Append(loop, s))
    BY <1>2, <1>9, <1>12, <1>13, SavedAppend
  <2>. QED
    BY <1>4, <1>7, <1>9, <1>11, <1>17, <2>5, <2>6
<1>. QED
  BY <1>16, <1>17

(* The links of an array's beginning.                                      *)
LEMMA ArrayLinks ==
  ASSUME Disciplined, IInv, WellNested, Running, C.kind = "BeginArray",
         NEW x, x = Scope[Top.node]
  PROVE  /\ IsSpine(Top.node) /\ IsSpine(C.next) /\ IsSpine(C.end)
         /\ Owing(C.next) = 0 /\ Owing(C.end) = 0
         /\ LinkFits(Top.node, C.next, InArray(C, x))
         /\ LinkFits(Top.node, C.end, InArray(C, x))
         /\ LinkFits(Top.node, C.end, Looping(x))
         /\ InArray(C, x) = IF C.resync = Nil THEN Looping(x)
                            ELSE Opened(Looping(x), C.resync)
<1>1. K # <<>> /\ C.kind \in SpineKinds /\ C.kind \in ChainKinds
  BY DEF Running, SpineKinds, ChainKinds
<1>2. Prog[Top.node] = C /\ IsSpine(Top.node)
  BY <1>1, SpineFacts
<1>3. IsSpine(C.next) /\ IsSpine(C.end)
  BY <1>1, TopFacts, Zenon DEF KontOK
<1>4. Owing(C.next) = 0 /\ Owing(C.end) = 0
  BY <1>1, ArrayFacts
<1>5. {<<C.next, InArray(C, x)>>, <<C.end, InArray(C, x)>>,
       <<C.end, Looping(x)>>} \subseteq Links(Prog, Top.node, Scope[Top.node])
  BY <1>2, Zenon DEF Links
<1>6. /\ LinkFits(Top.node, C.next, InArray(C, x))
      /\ LinkFits(Top.node, C.end, InArray(C, x))
      /\ LinkFits(Top.node, C.end, Looping(x))
  BY <1>2, <1>5, LinkOf
<1>. QED
  BY <1>2, <1>3, <1>4, <1>6 DEF InArray

(* An array begins.                                                        *)
LEMMA BeginArrayNested ==
  ASSUME Disciplined, IInv, WellNested, IInv', BeginUncounted \/ BeginArrayWithLimit
  PROVE  WellNested'
<1>1. /\ Running /\ K # <<>> /\ C.kind = "BeginArray" /\ Top.role \in {"run", "apply"}
      /\ Top.role = "apply" => C.mode # "Until"
  BY DEF BeginUncounted, BeginArrayWithLimit, Control, Running
<1>2. /\ C.kind \in SpineKinds /\ C.kind \notin FailKinds
      /\ C.kind \notin {"PushInterval", "ReturnRule"} /\ C.kind # "Halt"
  BY <1>1 DEF SpineKinds, ChainKinds, FailKinds
<1>3. /\ ~Opening(Top) /\ Prog[Top.node] = C /\ IsSpine(Top.node)
      /\ \A n : Append(Rest, Run(n)) = <<Run(n)>>
      /\ \A k, l : Rest \o <<k, l>> = <<k, l>>
      /\ Window(depth, pos) /\ pos + Owing(Top.node) <= effective_end
      /\ WindowsFit
  BY <1>1, <1>2, SpineFacts DEF Opening
<1>4. PICK x : x = Scope[Top.node]
  OBVIOUS
<1>5. /\ IsSpine(C.next) /\ IsSpine(C.end)
      /\ Owing(C.next) = 0 /\ Owing(C.end) = 0
      /\ LinkFits(Top.node, C.next, InArray(C, x))
      /\ LinkFits(Top.node, C.end, InArray(C, x))
      /\ LinkFits(Top.node, C.end, Looping(x))
      /\ InArray(C, x) = IF C.resync = Nil THEN Looping(x)
                         ELSE Opened(Looping(x), C.resync)
  BY <1>1, <1>4, ArrayLinks
<1>6. ASSUME NEW limit \in Int, NEW h \in {Nil, C.resync}, OpenArray(limit, h),
             NEW n, IsSpine(n), Owing(n) = 0, Continue(n),
             \/ h = C.resync /\ LinkFits(Top.node, n, InArray(C, x))
             \/ h = Nil /\ LinkFits(Top.node, n, Looping(x))
      PROVE  WellNested'
  <2>1. /\ UNCHANGED <<job, pos, slots, depth>>
        /\ Chain(frames') /\ Windowed1(frames') /\ frames' \in Seq(Linked)
        /\ h = Nil => Holds(frames', Len(frames'), depth, Tree', Looping(x))
        /\ h # Nil => Holds(frames', Len(frames'), depth, Tree',
                            Opened(Looping(x), h))
    BY <1>1, <1>3, <1>4, <1>6, OpenArrayOpens
  <2>2. PICK s : /\ LinkFits(Top.node, n, s)
                 /\ Holds(frames', Len(frames'), depth, Tree', s)
    <3>1. CASE h = C.resync /\ LinkFits(Top.node, n, InArray(C, x))
      BY <1>5, <2>1, <3>1
    <3>2. CASE h = Nil /\ LinkFits(Top.node, n, Looping(x))
      BY <2>1, <3>2
    <3>. QED
      BY <1>6, <3>1, <3>2
  <2>3. K' = <<Run(n)>>
    BY <1>3, <1>6 DEF Continue
  <2>. QED
    BY <1>1, <1>2, <1>6, <2>1, <2>2, <2>3, MoveNested
<1>7. CASE BeginArrayWithLimit
  <2>1. CASE ac.t # "int" /\ Fail
    BY <1>1, <1>2, <2>1, FailNested
  <2>2. CASE ac.t = "int"
    <3>1. /\ OpenArray(ac.v, IF ac.v > 0 THEN C.resync ELSE Nil) /\ ac.v \in Int
          /\ Continue(IF ac.v <= 0 THEN C.end ELSE C.next)
      BY <1>1, <1>7, <2>2, HeldValues DEF BeginArrayWithLimit
    <3>2. CASE ac.v > 0
      <4>1. ~(ac.v <= 0) /\ OpenArray(ac.v, C.resync) /\ Continue(C.next)
        BY <3>1, <3>2
      <4>. QED
        BY <1>5, <1>6, <3>1, <4>1
    <3>3. CASE ~(ac.v > 0)
      <4>1. ac.v <= 0 /\ OpenArray(ac.v, Nil) /\ Continue(C.end)
        BY <3>1, <3>3
      <4>. QED
        BY <1>5, <1>6, <3>1, <4>1
    <3>. QED
      BY <3>2, <3>3
  <2>. QED
    BY <1>7, <2>1, <2>2 DEF BeginArrayWithLimit
<1>8. CASE BeginUncounted
  <2>1. OpenArray(-1, C.resync) /\ -1 \in Int
    BY <1>8 DEF BeginUncounted
  <2>2. CASE Continue(C.end) \/ Continue(C.next)
    BY <1>5, <1>6, <2>1, <2>2
  <2>3. CASE C.mode = "Until" /\ K' = Rest \o <<Apply(Top.node), Run(C.expr)>>
    <3>1. /\ UNCHANGED <<job, pos, slots, depth>>
          /\ Chain(frames') /\ Windowed1(frames') /\ frames' \in Seq(Linked)
          /\ C.resync = Nil => Holds(frames', Len(frames'), depth, Tree', Looping(x))
          /\ C.resync # Nil => Holds(frames', Len(frames'), depth, Tree',
                                     Opened(Looping(x), C.resync))
      BY <1>1, <1>3, <1>4, <2>1, OpenArrayOpens
    <3>2. PICK s : s = InArray(C, x)
      OBVIOUS
    <3>3. Holds(frames', Len(frames'), depth, Tree', s)
      BY <1>5, <3>1, <3>2
    <3>4. s \in ScopeRecord /\ Bounded(s)
      BY <1>5, <3>2 DEF LinkFits
    <3>5. depth' \in Int /\ Tree' \in Int /\ depth' = depth
      BY <3>1, TreeNext
    <3>6. PICK d, t : d = depth /\ t = Tree'
      OBVIOUS
    <3>7. Over(frames', d, t)
      BY <3>1, <3>3, <3>4, <3>5, <3>6, CoveredAll
    <3>8. WindowsFit'
      <4>1. depth' <= depth /\ slots' = slots
        BY <3>1, <3>5
      <4>. QED
        BY <1>3, <3>1, <3>5, <4>1, WindowsKept
    <3>9. Window(depth, pos)' /\ pos' + Owing(Top.node) <= effective_end'
      BY <1>3, <3>1, RoomFacts
    <3>10. PICK n, e : n = Top.node /\ e = C.expr
      OBVIOUS
    <3>11. /\ IsSpine(n) /\ K' = <<Apply(n), Run(e)>> /\ IsExpr(e)
           /\ Prog[n].kind # "Halt" /\ Prog[n] = C /\ s = InArray(Prog[n], Scope[n])
           /\ pos' + Owing(n) <= effective_end'
      BY <1>1, <1>2, <1>3, <1>4, <2>3, <3>2, <3>9, <3>10, ArrayFacts
    <3>16. Prog[n].kind \notin {"Halt", "ReturnRule"}
      BY <1>1, <2>3, <3>11
    <3>12. Opening(Apply(n))
      BY <1>1, <2>3, <3>11 DEF Opening, Apply, Kont
    <3>13. Standing(Apply(n))'
      <4>1. Apply(n).node = n
        BY DEF Apply, Kont
      <4>. QED
        BY <3>1, <3>3, <3>11, <3>12, <4>1 DEF Standing
    <3>14. Over(frames, depth, Tree)' /\ Chain(frames)'
      BY <3>1, <3>5, <3>6, <3>7
    <3>15. (pos + Owing(n) <= effective_end)'
      BY <3>11
    <3>. QED
      BY <3>8, <3>9, <3>11, <3>13, <3>14, <3>15, <3>16, AwaitNested
  <2>. QED
    BY <1>8, <2>2, <2>3 DEF BeginUncounted
<1>. QED
  BY <1>7, <1>8

(* A scope closed and opened again.                                        *)
LEMMA Reopened ==
  ASSUME NEW x \in ScopeRecord, x.open # <<>>
  PROVE  Opened(Closed(x), Newest(x.open)) = x
<1> DEFINE o == x.open
           p == SubSeq(o, 1, Len(o) - 1)
           v == o[Len(o)]
<1>1. /\ o \in Seq(Nat) /\ Len(o) \in Nat /\ Len(o) >= 1
      /\ x = [open |-> o, wins |-> x.wins, tree |-> x.tree]
  BY ScopeParts, ClosedParts
<1> HIDE DEF o
<1>2. Len(o) - 1 \in 0..Len(o) /\ Len(o) \in 1..Len(o)
  BY <1>1
<1>3. /\ p \in Seq(Nat) /\ Len(p) = Len(o) - 1
      /\ \A i \in 1..Len(o) - 1 : p[i] = o[i]
  BY <1>1, <1>2, PrefixSeq
<1>4. v \in Nat
  BY <1>1, <1>2, ElementOfSeq
<1> HIDE DEF p, v
<1>5. /\ Append(p, v) \in Seq(Nat) /\ Len(Append(p, v)) = Len(p) + 1
      /\ Append(p, v)[Len(p) + 1] = v
      /\ \A i \in 1..Len(p) : Append(p, v)[i] = p[i]
  BY <1>3, <1>4, AppendProperties
<1>6. Len(Append(p, v)) = Len(o)
  BY <1>1, <1>3, <1>5
<1>7. ASSUME NEW i \in 1..Len(o) PROVE Append(p, v)[i] = o[i]
  <2>1. CASE i = Len(o)
    BY <1>1, <1>3, <1>5, <2>1 DEF v
  <2>2. CASE i # Len(o)
    <3>1. i \in 1..Len(o) - 1 /\ i \in 1..Len(p)
      BY <1>1, <1>3, <2>2
    <3>. QED
      BY <1>3, <1>5, <3>1
  <2>. QED
    BY <2>1, <2>2
<1>8. Append(p, v) = o
  BY <1>1, <1>5, <1>6, <1>7, SeqEqual
<1>9. Opened(Closed(x), Newest(x.open)) = [x EXCEPT !.open = Append(p, v)]
  BY <1>1 DEF Opened, Closed, Older, Newest, p, v, o
<1>. QED
  BY <1>1, <1>8, <1>9 DEF o

(* Replacing the frame on top.                                             *)
LEMMA TopReplaced ==
  ASSUME NEW fs \in Seq(Linked), fs # <<>>, NEW r \in Linked
  PROVE  /\ [fs EXCEPT ![Len(fs)] = r]
              = Append(SubSeq(fs, 1, Len(fs) - 1), r)
         /\ [fs EXCEPT ![Len(fs)] = r] \in Seq(Linked)
         /\ Len([fs EXCEPT ![Len(fs)] = r]) = Len(fs)
<1> DEFINE gs == [fs EXCEPT ![Len(fs)] = r]
           p == SubSeq(fs, 1, Len(fs) - 1)
<1>1. Len(fs) \in Nat /\ Len(fs) >= 1
  BY LinkedFacts
<1>2. Len(fs) - 1 \in 0..Len(fs) /\ Len(fs) \in 1..Len(fs)
  BY <1>1
<1>3. /\ gs \in Seq(Linked) /\ Len(gs) = Len(fs)
      /\ \A i \in 1..Len(fs) : gs[i] = IF i = Len(fs) THEN r ELSE fs[i]
  <2>1. gs \in Seq(Linked)
    BY <1>2, ExceptSeq
  <2>2. Len(gs) = Len(fs) /\ DOMAIN fs = 1..Len(fs)
    BY <1>2, ExceptSeq, LinkedFacts
  <2>. QED
    BY <2>1, <2>2
<1>4. /\ p \in Seq(Linked) /\ Len(p) = Len(fs) - 1
      /\ \A i \in 1..Len(fs) - 1 : p[i] = fs[i]
  BY <1>2, PrefixSeq
<1> HIDE DEF gs, p
<1>5. /\ Append(p, r) \in Seq(Linked) /\ Len(Append(p, r)) = Len(p) + 1
      /\ Append(p, r)[Len(p) + 1] = r
      /\ \A i \in 1..Len(p) : Append(p, r)[i] = p[i]
  BY <1>4, AppendProperties
<1>6. Len(Append(p, r)) = Len(gs)
  BY <1>1, <1>3, <1>4, <1>5
<1>7. ASSUME NEW i \in 1..Len(gs) PROVE Append(p, r)[i] = gs[i]
  <2>1. CASE i = Len(fs)
    BY <1>1, <1>3, <1>4, <1>5, <2>1
  <2>2. CASE i # Len(fs)
    <3>1. i \in 1..Len(fs) - 1 /\ i \in 1..Len(p) /\ i \in 1..Len(fs)
      BY <1>1, <1>3, <1>4, <2>2
    <3>. QED
      BY <1>3, <1>4, <1>5, <2>2, <3>1
  <2>. QED
    BY <2>1, <2>2
<1>8. Append(p, r) = gs
  BY <1>3, <1>5, <1>6, <1>7, SeqEqual
<1>. QED
  BY <1>3, <1>8 DEF gs, p

Counting(fs, l, c) == [fs EXCEPT ![l] = [fs[l] EXCEPT !.counter = c]]

(* Counting an element changes what no scope, window or frame relies on.   *)
LEMMA ElementCounted ==
  ASSUME Disciplined, NEW fs \in Seq(Linked), Chain(fs), Windowed1(fs),
         NEW l \in 1..Len(fs), fs[l].type = "Loop", NEW c,
         NEW gs \in Seq(Linked),
         gs = Counting(fs, l, c),
         NEW d, NEW t, NEW x \in ScopeRecord, Holds(fs, Len(fs), d, t, x)
  PROVE  /\ Chain(gs) /\ Windowed1(gs) /\ Holds(gs, Len(gs), d, t, x)
         /\ Over(fs, d, t) => Over(gs, d, t)
<1> DEFINE g == [fs[l] EXCEPT !.counter = c]
<1>1. fs[l] \in FrameRecord
  BY LinkedFacts DEF Linked
<1>2. g.type = fs[l].type /\ g.on_fail = fs[l].on_fail
  BY <1>1 DEF FrameRecord
<1> HIDE DEF g
<1>3. Len(gs) = Len(fs) /\ DOMAIN gs = DOMAIN fs /\ DOMAIN fs = 1..Len(fs)
  <2>1. DOMAIN gs = DOMAIN fs
    BY DEF Counting
  <2>. QED
    BY <2>1, LinkedFacts, LenProperties
<1>4. \A k \in 1..Len(fs) : gs[k] = IF k = l THEN g ELSE fs[k]
  BY <1>3 DEF g, Counting
<1>5. \A k \in 1..Len(fs) : /\ gs[k].type = fs[k].type
                            /\ gs[k].on_fail = fs[k].on_fail
                            /\ fs[k].type # "Loop" => gs[k] = fs[k]
  BY <1>2, <1>4
<1>6. /\ Chain(gs) /\ AlikeTo(fs, gs, Len(fs))
      /\ \A e, u : Over(fs, e, u) => Over(gs, e, u)
  BY <1>3, <1>5, ChainCounted
<1>7. Windowed1(gs)
  <2>1. \A i \in Savepoints(gs) : i \in Savepoints(fs) /\ gs[i] = fs[i]
    BY <1>3, <1>5 DEF Savepoints
  <2>. QED
    BY <2>1 DEF Windowed1
<1>8. Holds(gs, Len(gs), d, t, x)
  <2>1. Len(fs) \in 0..Len(fs) /\ Len(fs) <= Len(gs)
    BY <1>3, LinkedFacts
  <2>. QED
    BY <1>3, <1>6, <2>1, HoldsAlike
<1>. QED
  BY <1>6, <1>7, <1>8

(* At the next element of an array that recovers, its Savepoint is on top, *)
(* and is refreshed.                                                       *)
LEMMA ElementRefreshed ==
  ASSUME Disciplined, IInv, WellNested, Running, C.kind = "ArrayNext", C.resync,
         NEW r, r = Refreshed(FrameTop, pos, depth, le, Rest, builder, env),
         NEW x, x = Scope[Top.node]
  PROVE  LET fs == [frames EXCEPT ![Len(frames)] = r]
         IN  /\ TopIs("Savepoint")
             /\ fs \in Seq(Linked) /\ Len(fs) = Len(frames) /\ Chain(fs)
             /\ Windowed1(fs) /\ Over(fs, depth, Tree)
             /\ Holds(fs, Len(fs), depth, Tree, x)
<1> DEFINE h == Newest(x.open)
           p == SubSeq(frames, 1, Len(frames) - 1)
           fs == [frames EXCEPT ![Len(frames)] = r]
<1>1. /\ K # <<>> /\ C.kind \in SpineKinds /\ C.kind \notin Committers \cup {"EndArray"}
      /\ ~Opening(Top)
  BY DEF Running, SpineKinds, ChainKinds, Committers, Opening, C
<1>2. /\ Prog[Top.node] = C /\ Scope[Top.node] \in ScopeRecord
      /\ frames \in Seq(Linked) /\ Chain(frames) /\ Windowed1(frames)
      /\ IsSpine(Top.node) /\ Over(frames, depth, Tree) /\ Window(depth, pos)
      /\ ScopeFits(Top.node)
  BY <1>1, SpineFacts
<1>3. Holds(frames, Len(frames), depth, Tree, x) /\ x \in ScopeRecord
  BY <1>1, <1>2, PlainFacts
<1>4. x.open # <<>> /\ h # Nil /\ Scope[h] = Closed(x)
  BY <1>2, Zenon DEF ScopeFits
<1>5. PICK j : j = Len(frames)
  OBVIOUS
<1>6. j \in 0..Len(frames) /\ Len(frames) \in Nat
  BY <1>2, <1>5, LinkedFacts
<1>7. /\ Holds(frames, j - 1, depth, Tree, Closed(x)) /\ j >= 1
      /\ frames[j].type # "Return" /\ frames[j].on_fail = h
  BY <1>2, <1>3, <1>4, <1>5, <1>6, HoldsClosed
<1>8. j \in 1..Len(frames) /\ j - 1 \in 0..Len(frames) /\ frames # <<>>
  BY <1>2, <1>5, <1>6, <1>7, LinkedFacts
<1>9. frames[j].type = "Savepoint" /\ IsFail(h)
  <2>1. FrameFits(frames, j)
    BY <1>2, <1>8, LinkedFacts DEF Chain
  <2>2. frames[j].type # "Loop"
    BY <1>4, <1>7, <2>1 DEF FrameFits
  <2>3. frames[j].type \in {"Savepoint", "Loop", "Return"}
    BY <1>2, <1>8, LinkedFacts
  <2>. QED
    BY <1>7, <2>1, <2>2, <2>3 DEF FrameFits
<1>10. TopIs("Savepoint") /\ FrameTop = frames[j]
  BY <1>5, <1>8, <1>9 DEF TopIs, FrameTop
<1>11. /\ r.type = "Savepoint" /\ r.on_fail = h /\ r.depth = depth /\ r.pos = pos
       /\ r.mark.depth = Tree /\ r \in Linked
  <2>1. frames[j] \in GoodFrame(Len(slots), Len(input)) /\ frames[j] \in FrameRecord
    BY <1>8, StateFacts DEF GoodFrame
  <2>2. /\ Len(slots) \in Nat /\ Len(input) \in Nat /\ pos \in 0..Len(input)
        /\ depth \in 0..Len(slots) /\ le \in BOOLEAN /\ env \in GoodEnv
        /\ builder \in GoodBuilder(Len(input)) /\ Len(Rest) = 0
    BY <1>1, StateFacts, SpineAlone DEF IInv
  <2>3. r \in GoodFrame(Len(slots), Len(input))
    BY <1>10, <2>1, <2>2, RefreshedGood
  <2>4. /\ r.type = frames[j].type /\ r.on_fail = frames[j].on_fail
        /\ r.depth = depth /\ r.pos = pos /\ r.mark = mark(builder)
    BY <1>10, <2>1 DEF Refreshed, FrameRecord
  <2>. QED
    BY <1>7, <1>9, <2>3, <2>4, GoodLinked, TreeFacts
<1> HIDE DEF h, p, fs
<1>12. fs = Append(p, r) /\ fs \in Seq(Linked) /\ Len(fs) = Len(frames)
  BY <1>2, <1>8, <1>11, TopReplaced DEF fs, p
<1>13. /\ p \in Seq(Linked) /\ Chain(p) /\ Len(p) = j - 1 /\ AlikeTo(frames, p, j - 1)
       /\ Windowed1(p) /\ Over(p, depth, Tree)
  BY <1>2, <1>5, <1>8, ChainPrefix, SavedPrefix, OverPrefix DEF p
<1>14. PICK y : y = Closed(x)
  OBVIOUS
<1>15. y \in ScopeRecord /\ Opened(y, h) = x
  BY <1>3, <1>4, <1>14, ClosedParts, Reopened DEF h
<1>16. Holds(p, Len(p), depth, Tree, y)
  <2>1. PICK i : i = j - 1
    OBVIOUS
  <2>2. i <= Len(p) /\ i \in 0..Len(frames)
    BY <1>8, <1>13, <2>1
  <2>3. Holds(p, i, depth, Tree, y)
    BY <1>2, <1>7, <1>13, <1>14, <1>15, <2>1, <2>2, HoldsAlike
  <2>. QED
    BY <1>13, <2>1, <2>3
<1>17. /\ Chain(Append(p, r))
       /\ Holds(Append(p, r), Len(Append(p, r)), depth, Tree, Opened(y, r.on_fail))
  <2>1. /\ r.type # "Return" /\ r.type # "Loop" /\ IsFail(r.on_fail)
        /\ Holds(p, Len(p), r.depth, r.mark.depth, Scope[r.on_fail])
        /\ Over(p, r.depth, r.mark.depth)
    BY <1>4, <1>9, <1>11, <1>13, <1>14, <1>16
  <2>. QED
    BY <1>11, <1>13, <1>15, <1>16, <2>1, PushHolds
<1>18. Windowed1(Append(p, r))
  BY <1>2, <1>11, <1>13, SavedAppend
<1>19. Over(Append(p, r), depth, Tree)
  <2>1. Under(r, depth, Tree)
    BY <1>11, StateFacts, TreeFacts DEF Under
  <2>. QED
    BY <1>11, <1>13, <2>1, OverAppend
<1>. QED
  BY <1>10, <1>11, <1>12, <1>15, <1>17, <1>18, <1>19 DEF fs

(* The next element: the Loop frame counts it, and the array goes on, ends *)
(* or tests its condition.                                                 *)
LEMMA ArrayNextNested ==
  ASSUME Disciplined, IInv, WellNested, IInv', ArrayNext
  PROVE  WellNested'
<1> DEFINE r == Refreshed(FrameTop, pos, depth, le, Rest, builder, env)
           saved == ~C.resync \/ TopIs("Savepoint")
           fs == IF C.resync /\ saved THEN [frames EXCEPT ![Len(frames)] = r]
                 ELSE frames
           l == IF C.resync THEN Len(frames) - 1 ELSE Len(frames)
           more == IF C.mode = "FixedCount" THEN fs[l].counter + 1 < fs[l].limit
                                            ELSE pos < effective_end
           wait == Rest \o <<Apply(Top.node), Run(C.expr)>>
<1>1. /\ Running /\ K # <<>> /\ C.kind = "ArrayNext"
  BY DEF ArrayNext, Control, Running
<1>2. /\ C.kind \in SpineKinds /\ C.kind \notin FailKinds
      /\ C.kind \notin Committers \cup {"EndArray", "PushInterval", "ReturnRule"}
      /\ ~Opening(Top) /\ C.kind # "Halt"
  BY <1>1 DEF SpineKinds, ChainKinds, FailKinds, Committers, Opening, C
<1>3. /\ Prog[Top.node] = C /\ IsSpine(Top.node) /\ Scope[Top.node] \in ScopeRecord
      /\ Rest = <<>> /\ \A n : Append(Rest, Run(n)) = <<Run(n)>>
      /\ \A k, m : Rest \o <<k, m>> = <<k, m>>
      /\ Window(depth, pos) /\ pos + Owing(Top.node) <= effective_end
      /\ frames \in Seq(Linked) /\ Chain(frames) /\ Windowed1(frames)
      /\ Over(frames, depth, Tree) /\ WindowsFit
  BY <1>1, <1>2, SpineFacts
<1>4. PICK x : x = Scope[Top.node]
  OBVIOUS
<1>5. /\ fs \in Seq(Linked) /\ Len(fs) = Len(frames) /\ Chain(fs)
      /\ Windowed1(fs) /\ Over(fs, depth, Tree)
      /\ Holds(fs, Len(fs), depth, Tree, x) /\ x \in ScopeRecord
  <2>1. CASE C.resync
    BY <1>1, <1>3, <1>4, <2>1, ElementRefreshed
  <2>2. CASE ~C.resync
    BY <1>1, <1>2, <1>3, <1>4, <2>2, PlainFacts
  <2>. QED
    BY <2>1, <2>2
<1>6. \/ /\ l \in DOMAIN fs /\ fs[l].type = "Loop"
         /\ frames' = [fs EXCEPT ![l] = [fs[l] EXCEPT !.counter = fs[l].counter + 1]]
         /\ \/ Continue(IF more THEN C.body ELSE C.end)
            \/ C.mode \in {"Count", "Until"} /\ K' = wait
         /\ UNCHANGED <<status, pos, window, le, env, ac, builder>>
      \/ /\ Unwind(pos, fs, Rest)
         /\ UNCHANGED <<job, pos, window, le, env, ac, builder>>
  BY DEF ArrayNext
<1>7. PICK gs, i : gs = fs /\ i = l
  OBVIOUS
<1> HIDE DEF r, saved, l
<1>8. CASE /\ Unwind(pos, fs, Rest)
           /\ UNCHANGED <<job, pos, window, le, env, ac, builder>>
  <2>1. /\ Unwind(pos, gs, Rest) /\ UNCHANGED <<job, pos, slots, depth, builder>>
        /\ gs \in Seq(Linked) /\ Chain(gs) /\ Windowed1(gs) /\ Over(gs, depth, Tree)
    BY <1>5, <1>7, <1>8, ZenonT(60) DEF window
  <2> HIDE DEF fs
  <2>2. /\ Over(gs, depth', Tree') /\ depth' \in Int /\ depth' <= depth
    BY <2>1, StateFacts DEF Tree
  <2>. QED
    BY <1>1, <1>3, <2>1, <2>2, UnwindNested, SMTT(60)
<1>9. CASE /\ l \in DOMAIN fs /\ fs[l].type = "Loop"
           /\ frames' = [fs EXCEPT ![l] = [fs[l] EXCEPT !.counter = fs[l].counter + 1]]
           /\ \/ Continue(IF more THEN C.body ELSE C.end)
              \/ C.mode \in {"Count", "Until"} /\ K' = wait
           /\ UNCHANGED <<status, pos, window, le, env, ac, builder>>
  <2>1. PICK c : c = gs[i].counter + 1
    OBVIOUS
  <2>2. /\ gs \in Seq(Linked) /\ Chain(gs) /\ Windowed1(gs) /\ Over(gs, depth, Tree)
        /\ Holds(gs, Len(gs), depth, Tree, x)
        /\ i \in 1..Len(gs) /\ gs[i].type = "Loop"
        /\ frames' = Counting(gs, i, c)
        /\ UNCHANGED <<job, pos, slots, depth, builder, failed>>
    BY <1>5, <1>7, <1>9, <2>1, LinkedFacts, ZenonT(60) DEF status, window, Counting
  <2>3. Continue(IF more THEN C.body ELSE C.end)
        \/ (C.mode \in {"Count", "Until"} /\ K' = wait)
    BY <1>9
  <2> HIDE DEF fs, l, more
  <2>4. /\ Chain(frames') /\ Windowed1(frames') /\ Over(frames', depth, Tree)
        /\ Holds(frames', Len(frames'), depth, Tree, x)
    BY <1>5, <2>2, FramesLinked, ElementCounted
  <2>5. Tree' = Tree
    BY <2>2 DEF Tree
  <2>6. CASE Continue(IF more THEN C.body ELSE C.end)
    <3>1. PICK n : n \in {C.body, C.end} /\ Continue(n)
      BY <2>6
    <3>2. IsSpine(C.body) /\ IsSpine(C.end) /\ Owing(C.body) = 0 /\ Owing(C.end) = 0
      BY <1>1, TopFacts, Zenon DEF KontOK, DebtOK
    <3>3. {<<C.body, x>>, <<C.end, x>>} \subseteq Links(Prog, Top.node, Scope[Top.node])
      BY <1>1, <1>3, <1>4, Zenon DEF Links
    <3>4. LinkFits(Top.node, C.body, x) /\ LinkFits(Top.node, C.end, x)
      BY <1>3, <3>3, LinkOf
    <3>5. IsSpine(n) /\ Owing(n) = 0 /\ LinkFits(Top.node, n, x) /\ K' = <<Run(n)>>
      BY <1>3, <3>1, <3>2, <3>4 DEF Continue
    <3>. QED
      BY <1>1, <1>2, <2>2, <2>4, <2>5, <3>5, MoveNested
  <2>7. CASE C.mode \in {"Count", "Until"} /\ K' = wait
    <3>1. PICK n, e : n = Top.node /\ e = C.expr
      OBVIOUS
    <3>2. /\ IsSpine(n) /\ IsExpr(e) /\ K' = <<Apply(n), Run(e)>>
          /\ Prog[n].kind = "ArrayNext" /\ x = Scope[n]
          /\ pos + Owing(n) <= effective_end
      BY <1>1, <1>3, <1>4, <2>7, <3>1, ArrayFacts
    <3>3. ~Opening(Apply(n)) /\ Apply(n).node = n
      BY <3>2 DEF Opening, Apply, Kont
    <3>4. Standing(Apply(n))'
      <4>1. Prog[n].kind \notin Committers
        BY <3>2 DEF Committers
      <4>. QED
        BY <2>2, <2>4, <2>5, <3>2, <3>3, <4>1 DEF Standing, Stands
    <3>5. WindowsFit'
      <4>1. depth' \in Int /\ depth' <= depth /\ slots' = slots
        BY <2>2, StateFacts
      <4>. QED
        BY <1>3, <2>4, <4>1, WindowsKept
    <3>6. Window(depth, pos)' /\ pos' + Owing(n) <= effective_end'
      BY <1>3, <2>2, <3>2, RoomFacts
    <3>7. /\ Over(frames, depth, Tree)' /\ Chain(frames)'
          /\ Prog[n].kind \notin {"Halt", "ReturnRule"}
          /\ (pos + Owing(n) <= effective_end)'
      BY <2>2, <2>4, <2>5, <3>2, <3>6
    <3>. QED
      BY <3>2, <3>4, <3>5, <3>6, <3>7, AwaitNested
  <2>. QED
    BY <2>3, <2>6, <2>7
<1>. QED
  BY <1>6, <1>8, <1>9

(* An array's condition is tested: at its beginning, with everything it    *)
(* opens open, or at its next element.                                     *)
LEMMA ArrayChecksNested ==
  ASSUME Disciplined, IInv, WellNested, IInv', ArrayCountCheck \/ ArrayUntilCheck
  PROVE  WellNested'
<1>1. /\ Running /\ K # <<>> /\ C.kind \in {"BeginArray", "ArrayNext"}
      /\ C.kind = "BeginArray" => Top.role = "apply" /\ C.mode = "Until"
  BY DEF ArrayCountCheck, ArrayUntilCheck, Control, Running
<1>2. /\ C.kind \in SpineKinds /\ C.kind \notin FailKinds
      /\ C.kind \notin Committers \cup {"EndArray", "PushInterval", "ReturnRule"}
  BY <1>1 DEF SpineKinds, ChainKinds, FailKinds, Committers
<1>3. /\ Prog[Top.node] = C /\ IsSpine(Top.node) /\ Rest = <<>>
      /\ Chain(frames) /\ Windowed1(frames)
      /\ C.kind = "BeginArray" <=> Opening(Top)
  <2>1. Prog[Top.node] = C
    BY DEF C
  <2>. QED
    BY <1>1, <1>2, <2>1, SpineFacts DEF Opening
<1>4. PICK n : \/ Fail
               \/ /\ Schedule(<<Run(n)>>)
                  /\ n = C.end \/ n = IF C.kind = "BeginArray" THEN C.next
                                                               ELSE C.body
  <2>1. CASE ArrayCountCheck
    <3>1. C.kind = "ArrayNext"
      BY <2>1 DEF ArrayCountCheck, Control
    <3>2. PICK n : n = IF FrameTop.counter >= ac.v THEN C.end ELSE C.body
      OBVIOUS
    <3>. QED
      BY <2>1, <3>1, <3>2 DEF ArrayCountCheck
  <2>2. CASE ArrayUntilCheck
    <3>1. PICK n : n = IF Truth(ac) THEN C.end
                       ELSE IF C.kind = "BeginArray" THEN C.next ELSE C.body
      OBVIOUS
    <3>. QED
      BY <2>2, <3>1 DEF ArrayUntilCheck
  <2>. QED
    BY <2>1, <2>2
<1>5. CASE Fail
  BY <1>1, <1>2, <1>5, FailNested
<1>6. CASE /\ Schedule(<<Run(n)>>)
           /\ n = C.end \/ n = IF C.kind = "BeginArray" THEN C.next ELSE C.body
  <2>1. /\ K' = <<Run(n)>> /\ UNCHANGED <<job, pos, slots, depth, frames, builder>>
        /\ Tree' = Tree
    BY <1>3, <1>6 DEF Schedule, status, window, store, Tree
  <2>2. CASE C.kind = "BeginArray"
    <3>1. PICK x, s : x = Scope[Top.node] /\ s = InArray(C, x)
      OBVIOUS
    <3>2. IsSpine(n) /\ Owing(n) = 0 /\ LinkFits(Top.node, n, s)
      BY <1>1, <1>6, <2>2, <3>1, ArrayLinks
    <3>3. Holds(frames', Len(frames'), depth, Tree', s)
      BY <1>1, <1>2, <1>3, <2>1, <2>2, <3>1, SpineFacts
    <3>4. Chain(frames') /\ Windowed1(frames')
      BY <1>3, <2>1
    <3>. QED
      BY <1>1, <1>2, <2>1, <3>2, <3>3, <3>4, MoveNested
  <2>3. CASE C.kind = "ArrayNext"
    <3>1. PICK x : x = Scope[Top.node]
      OBVIOUS
    <3>2. IsSpine(C.body) /\ IsSpine(C.end) /\ Owing(C.body) = 0 /\ Owing(C.end) = 0
      BY <1>1, <2>3, TopFacts, Zenon DEF KontOK, DebtOK
    <3>3. {<<C.body, x>>, <<C.end, x>>} \subseteq Links(Prog, Top.node, Scope[Top.node])
      BY <1>3, <2>3, <3>1, Zenon DEF Links
    <3>4. LinkFits(Top.node, C.body, x) /\ LinkFits(Top.node, C.end, x)
      BY <1>1, <1>3, <3>3, LinkOf
    <3>5. n \in {C.body, C.end}
      BY <1>6, <2>3
    <3>6. IsSpine(n) /\ Owing(n) = 0 /\ LinkFits(Top.node, n, Scope[Top.node])
      BY <3>1, <3>2, <3>4, <3>5
    <3>7. ~Opening(Top) /\ builder'.stack = builder.stack
      BY <1>3, <2>1, <2>3
    <3>. QED
      BY <1>1, <1>2, <2>1, <3>6, <3>7, HopNested
  <2>. QED
    BY <1>1, <2>2, <2>3
<1>. QED
  BY <1>4, <1>5, <1>6

(* An array ends: its Savepoint goes if there is one, then its Loop frame  *)
(* and its node.                                                           *)
LEMMA EndArrayNested ==
  ASSUME Disciplined, IInv, WellNested, IInv', EndArray
  PROVE  WellNested'
<1> DEFINE fs == IF C.resync /\ TopIs("Savepoint") THEN PopFrame ELSE frames
           l == Len(fs)
<1>1. /\ Running /\ K # <<>> /\ C.kind = "EndArray"
  BY DEF EndArray, Control, Running
<1>2. /\ C.kind \in SpineKinds /\ C.kind \in ChainKinds \ {"BeginArray"}
      /\ C.kind \notin {"PushInterval", "ReturnRule"} /\ C.kind \notin Committers
  BY <1>1 DEF SpineKinds, ChainKinds, Committers
<1>3. /\ ~Opening(Top) /\ Prog[Top.node] = C /\ Scope[Top.node] \in ScopeRecord
      /\ frames \in Seq(Linked) /\ Chain(frames) /\ Windowed1(frames)
      /\ \A n : Append(Rest, Run(n)) = <<Run(n)>>
      /\ Stands(frames, depth, Tree, Top.node) /\ ScopeFits(Top.node)
      /\ Prog[Top.node].kind \notin Committers
  BY <1>1, <1>2, SpineFacts DEF Opening
<1>4. PICK x : x = Scope[Top.node]
  OBVIOUS
<1>5. x \in ScopeRecord /\ x.open # <<>> /\ Newest(x.open) = Nil
  BY <1>1, <1>3, <1>4, Zenon DEF ScopeFits
<1>6. ASSUME NEW j \in 0..Len(frames), Holds(frames, j, depth, Tree, x)
      PROVE  /\ j \in 1..Len(frames) /\ frames[j].type = "Loop"
             /\ Holds(frames, j - 1, depth, Tree, Closed(x))
  <2>1. /\ Holds(frames, j - 1, depth, Tree, Closed(x)) /\ j >= 1
        /\ frames[j].type # "Return" /\ frames[j].on_fail = Nil
    BY <1>3, <1>5, <1>6, HoldsClosed
  <2>2. j \in 1..Len(frames)
    BY <2>1
  <2>3. FrameFits(frames, j) /\ frames[j].type \in {"Savepoint", "Loop", "Return"}
    BY <1>3, <2>2, LinkedFacts DEF Chain
  <2>4. frames[j].type # "Savepoint"
    BY <2>1, <2>3, HandlerFacts DEF FrameFits
  <2>. QED
    BY <2>1, <2>2, <2>3, <2>4
<1>7. PICK j \in 0..Len(frames) :
        fs = SubSeq(frames, 1, j) /\ Holds(frames, j, depth, Tree, x)
  <2>1. CASE Holds(frames, Len(frames), depth, Tree, x)
    <3>1. Len(frames) \in 0..Len(frames)
      BY <1>3, LinkedFacts
    <3>2. frames[Len(frames)].type = "Loop"
      BY <1>6, <2>1, <3>1
    <3>3. fs = frames
      BY <3>2 DEF TopIs, FrameTop
    <3>4. fs = SubSeq(frames, 1, Len(frames))
      BY <1>3, <3>3, WholeSeq
    <3>. QED
      BY <2>1, <3>1, <3>4
  <2>2. CASE /\ Drops(Top.node) /\ frames # <<>> /\ Newest(frames).type = "Savepoint"
             /\ Holds(frames, Len(frames) - 1, depth, Tree, x)
    <3>1. C.resync
      BY <1>3, <2>2 DEF Drops
    <3>2. fs = SubSeq(frames, 1, Len(frames) - 1)
      BY <2>2, <3>1 DEF TopIs, FrameTop, Newest, PopFrame
    <3>3. Len(frames) - 1 \in 0..Len(frames)
      BY <1>3, <2>2, LinkedFacts
    <3>. QED
      BY <2>2, <3>2, <3>3
  <2>. QED
    BY <1>3, <1>4, <2>1, <2>2 DEF Stands
<1>8. /\ j \in 1..Len(frames) /\ frames[j].type = "Loop"
      /\ Holds(frames, j - 1, depth, Tree, Closed(x))
  BY <1>6, <1>7
<1>9. /\ fs \in Seq(Linked) /\ Chain(fs) /\ Windowed1(fs) /\ l = j
      /\ AlikeTo(frames, fs, j) /\ fs[j].type = "Loop" /\ fs # <<>>
  <2>1. PICK gs : gs = SubSeq(frames, 1, j)
    OBVIOUS
  <2>2. /\ gs \in Seq(Linked) /\ Chain(gs) /\ Windowed1(gs) /\ Len(gs) = j
         /\ AlikeTo(frames, gs, j) /\ gs[j] = frames[j]
    <3>1. j \in 1..j
      BY <1>8
    <3>. QED
      BY <1>3, <2>1, <3>1, ChainPrefix, SavedPrefix
  <2>3. /\ fs \in Seq(Linked) /\ Chain(fs) /\ Windowed1(fs) /\ l = j
        /\ AlikeTo(frames, fs, j) /\ fs[j] = frames[j]
    BY <1>7, <2>1, <2>2
  <2>4. fs # <<>>
    <3>1. Len(fs) # 0
      BY <1>8, <2>3
    <3>. QED
      BY <3>1, EmptySeq
  <2>. QED
    BY <1>8, <2>3, <2>4
<1>10. /\ builder' = close(builder, pos) /\ frames' = SubSeq(fs, 1, l - 1)
       /\ Continue(C.next) /\ UNCHANGED <<job, pos, slots, depth>>
  <2>1. ~(fs = <<>> \/ fs[l].type # "Loop")
    BY <1>9
  <2>. QED
    BY <2>1 DEF EndArray, status, window
<1> HIDE DEF fs, l
<1>11. PICK y, i : y = Closed(x) /\ i = j - 1
  OBVIOUS
<1>12. /\ i \in 0..Len(frames) /\ i <= Len(fs) /\ i \in 0..Len(fs) /\ i <= j /\ i \in Nat
  BY <1>3, <1>8, <1>9, <1>11, LinkedFacts DEF l
<1>13. y \in ScopeRecord /\ y.tree = x.tree
  BY <1>5, <1>11, ClosedParts
<1>14. Holds(fs, i, depth, Tree, y)
  <2>1. AlikeTo(frames, fs, i)
    <3>1. \A k \in 1..i : k \in 1..j
      BY <1>8, <1>12
    <3>. QED
      BY <1>9, <3>1 DEF AlikeTo
  <2>2. Holds(frames, i, depth, Tree, y)
    BY <1>8, <1>11
  <2>. QED
    BY <1>3, <1>9, <1>12, <1>13, <2>1, <2>2, HoldsAlike
<1>15. frames' = SubSeq(fs, 1, i)
  BY <1>9, <1>10, <1>11
<1>16. /\ frames' \in Seq(Linked) /\ Chain(frames') /\ Windowed1(frames')
       /\ Len(frames') = i /\ AlikeTo(fs, frames', i)
  BY <1>9, <1>12, <1>15, ChainPrefix, SavedPrefix
<1>17. Holds(frames', i, depth, Tree, y)
  <2>1. i <= Len(frames')
    BY <1>12, <1>16
  <2>. QED
    BY <1>9, <1>12, <1>13, <1>14, <1>16, <2>1, HoldsAlike
<1>18. LinkFits(Top.node, C.next, Noded(y, -1)) /\ IsSpine(C.next)
  <2>1. After(C, x) = Noded(y, -1)
    BY <1>1, <1>11 DEF After
  <2>. QED
    BY <1>1, <1>2, <1>4, <2>1, NextLink
<1>19. Tree' = Tree + (-1)
  <2>1. Noded(y, -1) \in ScopeRecord /\ Noded(y, -1).tree = y.tree + (-1)
    BY <1>13, <1>18, CountedParts DEF LinkFits
  <2>2. y.tree + (-1) \in Nat /\ y.tree \in Nat
    BY <1>13, <2>1, ScopeParts
  <2>3. y.tree <= Tree /\ Tree \in Nat
    BY <1>9, <1>12, <1>13, <1>14, HoldsAtLeast
  <2>4. Tree # 0
    BY <2>2, <2>3
  <2>5. Len(close(builder, pos).stack) = Len(builder.stack) - 1
    BY <2>4, TreeFacts, CallsClose
  <2>. QED
    BY <1>10, <2>3, <2>5 DEF Tree
<1>20. PICK n, s, t : n = C.next /\ s = Noded(y, -1) /\ t = Tree + (-1)
  OBVIOUS
<1>21. Holds(frames', i, depth, t, s)
  <2>1. i \in 0..Len(frames') /\ -1 \in Int
    BY <1>12, <1>16
  <2>. QED
    BY <1>13, <1>16, <1>17, <1>20, <2>1, HoldsCounted
<1>22. Owing(C.next) = 0
  BY <1>1, <1>2, NextFacts
<1>23. /\ IsSpine(n) /\ Owing(n) = 0 /\ K' = <<Run(n)>> /\ LinkFits(Top.node, n, s)
       /\ Holds(frames', Len(frames'), depth, Tree', s)
  BY <1>3, <1>10, <1>16, <1>18, <1>19, <1>20, <1>21, <1>22 DEF Continue
<1>. QED
  BY <1>1, <1>2, <1>10, <1>16, <1>23, MoveNested

-----------------------------------------------------------------------------
(* Failure handlers.                                                       *)

(* A handler finds its own Savepoint innermost, with the scope it was      *)
(* pushed in below it.                                                     *)
LEMMA HandlerFinds ==
  ASSUME Disciplined, IInv, WellNested, Running, C.kind \in FailKinds
  PROVE  /\ Savepoints(frames) # {} /\ IsFail(Top.node) /\ Prog[Top.node] = C
         /\ Scope[Top.node] \in ScopeRecord
         /\ \A i \in Innermost1(Savepoints(frames)) :
              LET f == frames[i]
                  outer == SubSeq(frames, 1, i - 1)
              IN  /\ i \in 1..Len(frames) /\ f.type = "Savepoint" /\ f \in Linked
                  /\ f.on_fail = Top.node /\ Window(f.depth, f.pos)
                  /\ Pops(Top.node) \/ i = Len(frames)
                  /\ f.depth <= depth /\ f.mark.depth <= Tree
                  /\ outer \in Seq(Linked) /\ Chain(outer) /\ Windowed1(outer)
                  /\ Len(outer) = i - 1
                  /\ Over(outer, f.depth, f.mark.depth)
                  /\ Holds(outer, Len(outer), f.depth, f.mark.depth, Scope[Top.node])
<1>1. K # <<>> /\ Top.node \in KontId
  BY TopFacts DEF Running
<1>2. IsFail(Top.node) /\ Prog[Top.node] = C
  BY <1>1 DEF C, IsFail
<1>3. PICK x : x = Scope[Top.node]
  OBVIOUS
<1>4. x \in ScopeRecord
  BY <1>2, <1>3, HasScope
<1>5. /\ HandlerReady(frames, Top.node) /\ Chain(frames) /\ Over(frames, depth, Tree)
      /\ Windowed1(frames) /\ frames \in Seq(Linked)
  BY FramesLinked DEF WellNested, WindowsFit, Windowed1
<1>6. PICK j \in Savepoints(frames) :
             /\ frames[j].on_fail = Top.node
             /\ \A m \in j + 1..Len(frames) : frames[m].type # "Savepoint"
             /\ Pops(Top.node) \/ j = Len(frames)
  BY <1>5 DEF HandlerReady
<1>7. ASSUME NEW i \in Innermost1(Savepoints(frames))
      PROVE  LET f == frames[i]
                 outer == SubSeq(frames, 1, i - 1)
             IN  /\ i \in 1..Len(frames) /\ f.type = "Savepoint" /\ f \in Linked
                 /\ f.on_fail = Top.node /\ Window(f.depth, f.pos)
                 /\ Pops(Top.node) \/ i = Len(frames)
                 /\ f.depth <= depth /\ f.mark.depth <= Tree
                 /\ outer \in Seq(Linked) /\ Chain(outer) /\ Windowed1(outer)
                 /\ Len(outer) = i - 1
                 /\ Over(outer, f.depth, f.mark.depth)
                 /\ Holds(outer, Len(outer), f.depth, f.mark.depth, x)
  <2> DEFINE f == frames[i]
             outer == SubSeq(frames, 1, i - 1)
  <2>1. /\ i \in Savepoints(frames) /\ j <= i /\ i \in 1..Len(frames)
        /\ j \in 1..Len(frames) /\ Len(frames) \in Nat
        /\ f.type = "Savepoint" /\ f \in Linked
    BY <1>5, <1>6, LinkedFacts DEF Innermost1, Savepoints
  <2>2. i = j
    <3>1. ~(i \in j + 1..Len(frames))
      BY <1>6, <2>1
    <3>. QED
      BY <2>1, <3>1
  <2>3. f.on_fail = Top.node /\ (Pops(Top.node) \/ i = Len(frames))
    BY <1>6, <2>2
  <2>4. Window(f.depth, f.pos)
    BY <1>5, <2>1 DEF Windowed1
  <2>5. FrameFits(frames, i) /\ Under(frames[i], depth, Tree)
    BY <1>5, <2>1, LinkedFacts DEF Chain, Over
  <2>6. Holds(frames, i - 1, f.depth, f.mark.depth, x)
    BY <1>3, <2>1, <2>3, <2>5, Zenon DEF FrameFits
  <2>7. f.depth <= depth /\ f.mark.depth <= Tree
    BY <2>1, <2>5 DEF Under
  <2>8. PICK k : k = i - 1
    OBVIOUS
  <2>9. k \in 0..Len(frames) /\ k \in 0..i
    BY <2>1, <2>8
  <2>10. PICK gs : gs = SubSeq(frames, 1, k)
    OBVIOUS
  <2>11. /\ gs \in Seq(Linked) /\ Chain(gs) /\ Windowed1(gs) /\ Len(gs) = k
         /\ AlikeTo(frames, gs, k)
    BY <1>5, <2>9, <2>10, ChainPrefix, SavedPrefix
  <2>12. PICK d, t : d = f.depth /\ t = f.mark.depth
    OBVIOUS
  <2>13. Over(gs, d, t)
    BY <1>5, <2>1, <2>9, <2>10, <2>12, OverFrame
  <2>14. Holds(gs, Len(gs), d, t, x)
    <3>1. k <= Len(gs) /\ Holds(frames, k, d, t, x)
      BY <2>6, <2>8, <2>9, <2>11, <2>12
    <3>. QED
      BY <1>4, <1>5, <2>9, <2>11, <3>1, HoldsAlike
  <2>. QED
    BY <2>1, <2>3, <2>4, <2>7, <2>8, <2>10, <2>11, <2>12, <2>13, <2>14
<1>8. Savepoints(frames) # {}
  BY <1>6
<1>. QED
  BY <1>2, <1>3, <1>4, <1>7, <1>8

(* What restoring a frame leaves: its windows, its nodes, and room up to   *)
(* the end of its window.                                                  *)
LEMMA Restoring ==
  ASSUME IInv, NEW i \in 1..Len(frames), Restored(frames[i]),
         frames[i].depth <= depth, frames[i].mark.depth <= Tree,
         Window(frames[i].depth, frames[i].pos)
  PROVE  /\ UNCHANGED <<job, slots>> /\ depth' = frames[i].depth
         /\ depth' \in Int /\ depth' <= depth /\ Tree' = frames[i].mark.depth
         /\ Len(restore(builder, frames[i].mark).stack) = frames[i].mark.depth
         /\ effective_end' = EndAt(frames[i].depth) /\ effective_end' \in Nat
         /\ frames[i].pos \in Nat /\ frames[i].pos <= effective_end'
         /\ \A p \in Int : frames[i].pos <= p /\ p <= effective_end' =>
                            Window(frames[i].depth, p)
         /\ Window(depth, pos)' <=> Window(frames[i].depth, pos')
<1> DEFINE f == frames[i]
           d == f.depth
           t == f.mark.depth
<1>1. /\ UNCHANGED <<job, slots>> /\ depth' = d
      /\ builder' = restore(builder, f.mark)
  BY DEF Restored
<1>2. /\ f.pos \in Nat /\ d \in Nat /\ t \in Nat /\ f.pos <= Len(input)
      /\ d <= Len(slots) /\ Len(slots) \in Nat /\ Len(input) \in Nat
      /\ depth \in Nat
  <2>1. f \in GoodFrame(Len(slots), Len(input))
    BY StateFacts
  <2>2. f.pos \in Nat /\ f.depth \in Nat /\ f.mark \in Mark
    BY <2>1, Zenon DEF GoodFrame, FrameRecord
  <2>3. f.pos <= Len(input) /\ d <= Len(slots)
    BY <2>1 DEF GoodFrame
  <2>. QED
    BY <2>2, <2>3, StateFacts DEF Mark
<1>3. Len(restore(builder, f.mark).stack) = t
  <2>1. f.mark.depth \in Nat /\ f.mark.depth <= Len(builder.stack)
    BY <1>2 DEF Tree
  <2>. QED
    BY <2>1, TreeFacts, CallsClose
<1>4. Tree' = t
  BY <1>1, <1>3 DEF Tree
<1>5. effective_end' = EndAt(d)
  BY <1>1 DEF effective_end, EndAt, input
<1>6. Window(depth, pos)' <=> Window(d, pos')
  BY <1>1 DEF Window
<1>7. CASE d = 0
  <2>1. ~(d > 0)
    BY <1>7
  <2>2. EndAt(d) = Len(input) /\ \A p : Window(d, p)
    BY <2>1 DEF EndAt, Window
  <2>. QED
    BY <1>1, <1>2, <1>3, <1>4, <1>5, <1>6, <2>2
<1>8. CASE d # 0
  <2> DEFINE lo == slots[d].lo
             hi == slots[d].hi
  <2>1. d > 0 /\ d \in 1..Len(slots)
    BY <1>2, <1>8
  <2>2. lo \in Nat /\ hi \in Nat /\ EndAt(d) = hi
    BY <2>1, StateFacts DEF EndAt
  <2>3. lo <= f.pos /\ f.pos <= hi /\ \A p : Window(d, p) <=> lo <= p /\ p <= hi
    BY <2>1 DEF Window
  <2> HIDE DEF lo, hi
  <2>4. \A p \in Int : f.pos <= p /\ p <= hi => Window(d, p)
    <3>1. PICK q : q = f.pos
      OBVIOUS
    <3>2. q \in Nat /\ lo <= q
      BY <1>2, <2>3, <3>1
    <3>3. \A p \in Int : q <= p => lo <= p
      BY <2>2, <3>2
    <3>. QED
      BY <2>3, <3>1, <3>3
  <2>. QED
    BY <1>1, <1>2, <1>3, <1>4, <1>5, <1>6, <2>2, <2>3, <2>4
<1>. QED
  BY <1>7, <1>8

(* A handler goes on at kont n with these frames.                          *)
LEMMA ResumeNested ==
  ASSUME Disciplined, IInv, WellNested, IInv', Running, C.kind \in FailKinds,
         NEW i \in Innermost1(Savepoints(frames)), Restored(frames[i]),
         NEW n, IsSpine(n), Owing(n) = 0, K' = <<Run(n)>>,
         NEW s, LinkFits(Top.node, n, s),
         Chain(frames'), Windowed1(frames'),
         Holds(frames', Len(frames'), frames[i].depth, frames[i].mark.depth, s),
         pos' \in Int, frames[i].pos <= pos', pos' <= EndAt(frames[i].depth)
  PROVE  WellNested'
<1> DEFINE f == frames[i]
<1>1. /\ i \in 1..Len(frames) /\ f.depth <= depth /\ f.mark.depth <= Tree
      /\ Window(f.depth, f.pos) /\ Prog[Top.node] = C
  BY HandlerFinds
<1>2. /\ UNCHANGED <<job, slots>> /\ depth' = f.depth
      /\ depth' \in Int /\ depth' <= depth /\ Tree' = f.mark.depth
      /\ effective_end' = EndAt(f.depth)
      /\ \A p \in Int : f.pos <= p /\ p <= effective_end' => Window(f.depth, p)
      /\ Window(depth, pos)' <=> Window(f.depth, pos')
  BY <1>1, Restoring
<1>3. WindowsFit'
  BY <1>2, WindowsKept DEF WellNested
<1>4. Window(depth, pos)'
  BY <1>2
<1>5. pos' + Owing(n) <= effective_end'
  <2>1. PICK p : p = pos'
    OBVIOUS
  <2>2. p \in Int /\ p <= effective_end'
    BY <1>2, <2>1
  <2>3. p + 0 = p
    BY <2>2
  <2>. QED
    BY <2>1, <2>2, <2>3
<1>6. Holds(frames, Len(frames), depth, Tree, s)'
  BY <1>2
<1>7. Prog[Top.node].kind # "ReturnRule"
  BY <1>1 DEF FailKinds
<1>8. Chain(frames)' /\ (pos + Owing(n) <= effective_end)'
  BY <1>5
<1>. QED
  BY <1>3, <1>4, <1>6, <1>7, <1>8, LinkNested

(* A handler goes on unwinding below its Savepoint.                        *)
LEMMA UnwindOnNested ==
  ASSUME Disciplined, IInv, WellNested, Running, C.kind \in FailKinds,
         NEW i \in Innermost1(Savepoints(frames)), Restored(frames[i]), NEW p,
         Unwind(p, SubSeq(frames, 1, i - 1), <<>>)
  PROVE  WellNested'
<1> DEFINE f == frames[i]
<1>1. PICK outer : outer = SubSeq(frames, 1, i - 1)
  OBVIOUS
<1>2. /\ i \in 1..Len(frames) /\ f.depth <= depth /\ f.mark.depth <= Tree
      /\ Window(f.depth, f.pos)
      /\ outer \in Seq(Linked) /\ Chain(outer) /\ Windowed1(outer)
      /\ Over(outer, f.depth, f.mark.depth)
  BY <1>1, HandlerFinds
<1>3. /\ UNCHANGED <<job, slots>> /\ depth' = f.depth
      /\ depth' \in Int /\ depth' <= depth /\ Tree' = f.mark.depth
  BY <1>2, Restoring
<1>4. Over(outer, depth', Tree') /\ K # <<>> /\ Unwind(p, outer, <<>>)
  BY <1>1, <1>2, <1>3 DEF Running
<1>. QED
  BY <1>2, <1>3, <1>4, UnwindNested

(* OnFail: to its target with the Savepoint dropped or handed to the next  *)
(* arm, or on to an outer handler.                                         *)
LEMMA OnFailNested ==
  ASSUME Disciplined, IInv, WellNested, IInv', OnFail
  PROVE  WellNested'
<1>1. /\ Running /\ K # <<>> /\ C.kind = "OnFail" /\ C.kind \in FailKinds
  BY DEF OnFail, Control, Running, FailKinds
<1>2. PICK h, x : h = Top.node /\ x = Scope[h]
  OBVIOUS
<1>3. /\ Savepoints(frames) # {} /\ IsFail(h) /\ Prog[h] = C /\ x \in ScopeRecord
  BY <1>1, <1>2, HandlerFinds
<1>4. PICK i \in Innermost1(Savepoints(frames)) :
        LET f == frames[i]
            outer == SubSeq(frames, 1, i - 1)
        IN /\ Restored(f) /\ pos' = f.pos
           /\ \/ C.target = Nil /\ Unwind(f.pos, outer, Resized(Rest, f.ksize))
              \/ /\ C.target # Nil
                 /\ frames' = IF C.pop_frame THEN outer
                              ELSE [frames EXCEPT ![i] =
                                      [f EXCEPT !.on_fail = C.next_on_fail]]
                 /\ K' = Append(Resized(Rest, f.ksize), Run(C.target))
  BY <1>3 DEF OnFail
<1> DEFINE f == frames[i]
           outer == SubSeq(frames, 1, i - 1)
           g == [f EXCEPT !.on_fail = C.next_on_fail]
<1>5. Restored(f) /\ pos' = f.pos
  BY <1>4
<1>6. /\ i \in 1..Len(frames) /\ f.type = "Savepoint" /\ f \in Linked
      /\ f.on_fail = h /\ Window(f.depth, f.pos)
      /\ Pops(h) \/ i = Len(frames)
      /\ f.depth <= depth /\ f.mark.depth <= Tree
      /\ outer \in Seq(Linked) /\ Chain(outer) /\ Windowed1(outer)
      /\ Over(outer, f.depth, f.mark.depth)
      /\ Holds(outer, Len(outer), f.depth, f.mark.depth, x)
  BY <1>1, <1>2, HandlerFinds
<1>7. Resized(Rest, f.ksize) = <<>>
  BY <1>1, <1>5, RestoredGood
<1>8. /\ f.pos \in Nat /\ f.pos <= EndAt(f.depth)
  BY <1>5, <1>6, Restoring
<1>9. CASE Unwind(f.pos, outer, <<>>)
  BY <1>1, <1>5, <1>9, UnwindOnNested
<1>10. CASE /\ C.target # Nil
            /\ frames' = IF C.pop_frame THEN outer ELSE [frames EXCEPT ![i] = g]
            /\ K' = <<Run(C.target)>>
  <2>1. PICK n : n = C.target
    OBVIOUS
  <2>2. /\ IsSpine(n) /\ Owing(n) = 0 /\ K' = <<Run(n)>>
        /\ IsFailOrNil(C.next_on_fail)
    BY <1>1, <1>10, <2>1, TopFacts, Zenon DEF KontOK, DebtOK
  <2>3. ASSUME NEW s, LinkFits(h, n, s), Chain(frames'), Windowed1(frames'),
               Holds(frames', Len(frames'), f.depth, f.mark.depth, s)
        PROVE  WellNested'
    <3>1. pos' \in Int /\ f.pos <= pos' /\ pos' <= EndAt(f.depth)
      BY <1>5, <1>8
    <3> HIDE DEF f
    <3>2. Restored(frames[i]) /\ LinkFits(Top.node, n, s)
      BY <1>2, <1>5, <2>3 DEF f
    <3>. QED
      BY <1>1, <2>2, <2>3, <3>1, <3>2, ResumeNested DEF f
  <2>4. CASE C.pop_frame
    <3>1. <<n, x>> \in Links(Prog, h, Scope[h])
      BY <1>1, <1>2, <1>3, <1>10, <2>1, <2>4, Zenon DEF Links
    <3>2. LinkFits(h, n, x)
      BY <1>3, <3>1, LinkOf
    <3>. QED
      BY <1>6, <1>10, <2>3, <2>4, <3>2
  <2>5. CASE ~C.pop_frame
    <3>1. ~Pops(h) /\ i = Len(frames)
      BY <1>3, <1>6, <1>10, <2>5 DEF Pops
    <3>2. /\ <<n, Opened(x, C.next_on_fail)>> \in Links(Prog, h, Scope[h])
          /\ <<C.next_on_fail, x>> \in Links(Prog, h, Scope[h])
      BY <1>1, <1>2, <1>3, <1>10, <2>1, <2>5, Zenon DEF Links
    <3>3. /\ LinkFits(h, n, Opened(x, C.next_on_fail))
          /\ LinkFits(h, C.next_on_fail, x)
      BY <1>3, <3>2, LinkOf
    <3>4. IsFail(C.next_on_fail) /\ x = Scope[C.next_on_fail]
      <4>1. C.next_on_fail \in KontId
        BY <3>3 DEF LinkFits
      <4>2. C.next_on_fail # Nil
        BY <4>1, ProgAssumption
      <4>3. IsFail(C.next_on_fail)
        BY <2>2, <4>2 DEF IsFailOrNil
      <4>. QED
        BY <3>3, <4>3, HandlerLink
    <3>5. /\ g.type = "Savepoint" /\ g.on_fail = C.next_on_fail /\ g.depth = f.depth
          /\ g.mark.depth = f.mark.depth /\ g.pos = f.pos /\ g \in Linked
      <4>1. f \in FrameRecord
        BY <1>6, SMTT(60) DEF Linked
      <4>2. f \in GoodFrame(Len(slots), Len(input)) /\ Len(slots) \in Nat /\ Len(input) \in Nat
        BY <1>6, StateFacts, ZenonT(60)
      <4>3. g \in GoodFrame(Len(slots), Len(input))
        BY <2>2, <4>2, FrameExceptGood
      <4>4. g.type = f.type /\ g.on_fail = C.next_on_fail /\ g.depth = f.depth
            /\ g.mark = f.mark /\ g.pos = f.pos
        BY <4>1 DEF FrameRecord
      <4>. QED
        BY <1>6, <4>3, <4>4, GoodLinked
    <3>6. frames' = [frames EXCEPT ![Len(frames)] = g]
      BY <1>10, <2>5, <3>1
    <3>7. frames \in Seq(Linked) /\ frames # <<>>
      <4>1. frames \in Seq(Linked)
        BY FramesLinked
      <4>2. Len(frames) # 0
        BY <1>6
      <4>. QED
        BY <4>1, <4>2, EmptySeq
    <3> HIDE DEF g
    <3>8. frames' = Append(SubSeq(frames, 1, Len(frames) - 1), g)
      BY <3>5, <3>6, <3>7, TopReplaced
    <3>9. frames' = Append(outer, g)
      BY <3>1, <3>8
    <3> HIDE DEF outer
    <3>10. PICK d, t, p : d = f.depth /\ t = f.mark.depth /\ p = f.pos
      OBVIOUS
    <3>11. /\ g.type # "Return" /\ g.type # "Loop" /\ IsFail(g.on_fail)
           /\ Holds(outer, Len(outer), g.depth, g.mark.depth, Scope[g.on_fail])
           /\ Over(outer, g.depth, g.mark.depth)
           /\ Holds(outer, Len(outer), d, t, x)
      BY <1>6, <3>4, <3>5, <3>10
    <3>12. /\ Chain(frames')
           /\ Holds(frames', Len(frames'), d, t, Opened(x, g.on_fail))
      BY <1>3, <1>6, <3>5, <3>9, <3>11, PushHolds
    <3>13. Windowed1(frames')
      <4>1. Window(g.depth, g.pos)
        BY <1>6, <3>5
      <4>. QED
        BY <1>6, <3>5, <3>9, <4>1, SavedAppend
    <3>14. Holds(frames', Len(frames'), f.depth, f.mark.depth, Opened(x, C.next_on_fail))
      BY <3>5, <3>10, <3>12
    <3>. QED
      BY <2>3, <3>3, <3>12, <3>13, <3>14
  <2>. QED
    BY <2>4, <2>5
<1>. QED
  BY <1>4, <1>7, <1>9, <1>10

(* Resync: the element again one byte on, or out of the array.             *)
LEMMA ResyncNested ==
  ASSUME Disciplined, IInv, WellNested, IInv', Resync
  PROVE  WellNested'
<1>1. /\ Running /\ K # <<>> /\ C.kind = "Resync" /\ C.kind \in FailKinds
  BY DEF Resync, Control, Running, FailKinds
<1>2. PICK h, x : h = Top.node /\ x = Scope[h]
  OBVIOUS
<1>3. /\ Savepoints(frames) # {} /\ IsFail(h) /\ Prog[h] = C /\ x \in ScopeRecord
  BY <1>1, <1>2, HandlerFinds
<1>4. PICK i \in Innermost1(Savepoints(frames)) :
        LET f == frames[i]
            outer == SubSeq(frames, 1, i - 1)
            rest == Resized(Rest, f.ksize)
        IN /\ Restored(f)
           /\ \/ Unwind(f.pos, outer, rest)
              \/ /\ pos' = f.pos /\ frames' = outer
                 /\ K' = Append(rest, Run(C.end))
              \/ /\ ~(f.pos >= EndAt(f.depth)) /\ pos' = Retry(f)
                 /\ frames' = [frames EXCEPT ![i] =
                      Refreshed(f, Retry(f), f.depth, f.le, rest,
                                restore(builder, f.mark), f.env)]
                 /\ K' = Append(rest, Run(C.body))
  BY <1>3 DEF Resync
<1> DEFINE f == frames[i]
           outer == SubSeq(frames, 1, i - 1)
           g == Refreshed(f, Retry(f), f.depth, f.le, <<>>,
                          restore(builder, f.mark), f.env)
<1>5. Restored(f)
  BY <1>4
<1>6. /\ i \in 1..Len(frames) /\ f.type = "Savepoint" /\ f \in Linked
      /\ f.on_fail = h /\ Window(f.depth, f.pos)
      /\ Pops(h) \/ i = Len(frames)
      /\ f.depth <= depth /\ f.mark.depth <= Tree
      /\ outer \in Seq(Linked) /\ Chain(outer) /\ Windowed1(outer)
      /\ Over(outer, f.depth, f.mark.depth)
      /\ Holds(outer, Len(outer), f.depth, f.mark.depth, x)
  BY <1>1, <1>2, HandlerFinds
<1>7. /\ Resized(Rest, f.ksize) = <<>>
      /\ f \in GoodFrame(Len(slots), Len(input)) /\ f.depth \in 0..Len(slots)
      /\ f.le \in BOOLEAN /\ f.env \in GoodEnv
      /\ restore(builder, f.mark) \in GoodBuilder(Len(input))
  BY <1>1, <1>5, RestoredGood
<1>8. /\ f.pos \in Nat /\ f.pos <= EndAt(f.depth) /\ EndAt(f.depth) \in Nat
      /\ Len(restore(builder, f.mark).stack) = f.mark.depth
      /\ \A p \in Int : f.pos <= p /\ p <= EndAt(f.depth) => Window(f.depth, p)
  BY <1>5, <1>6, Restoring
<1>9. ASSUME NEW n, IsSpine(n), Owing(n) = 0, K' = <<Run(n)>>,
             NEW s, LinkFits(h, n, s), Chain(frames'), Windowed1(frames'),
             Holds(frames', Len(frames'), f.depth, f.mark.depth, s),
             pos' \in Int, f.pos <= pos', pos' <= EndAt(f.depth)
      PROVE  WellNested'
  <2> HIDE DEF f
  <2>1. Restored(frames[i]) /\ LinkFits(Top.node, n, s)
    BY <1>2, <1>5, <1>9 DEF f
  <2>. QED
    BY <1>1, <1>9, <2>1, ResumeNested DEF f
<1>10. CASE Unwind(f.pos, outer, <<>>)
  BY <1>1, <1>5, <1>10, UnwindOnNested
<1>11. /\ IsSpine(C.end) /\ Owing(C.end) = 0 /\ IsSpine(C.body) /\ Owing(C.body) = 0
  BY <1>1, TopFacts, Zenon DEF KontOK, DebtOK
<1>12. LinkFits(h, C.end, x) /\ LinkFits(h, C.body, Opened(x, h))
  <2>1. /\ <<C.end, x>> \in Links(Prog, h, Scope[h])
        /\ <<C.body, Opened(x, h)>> \in Links(Prog, h, Scope[h])
    BY <1>1, <1>2, <1>3, Zenon DEF Links
  <2>. QED
    BY <1>3, <2>1, LinkOf
<1>13. CASE pos' = f.pos /\ frames' = outer /\ K' = <<Run(C.end)>>
  <2>1. PICK n : n = C.end
    OBVIOUS
  <2>2. pos' \in Int /\ f.pos <= pos' /\ pos' <= EndAt(f.depth)
    BY <1>8, <1>13
  <2>. QED
    BY <1>6, <1>9, <1>11, <1>12, <1>13, <2>1, <2>2
<1>14. CASE /\ ~(f.pos >= EndAt(f.depth)) /\ pos' = Retry(f)
            /\ frames' = [frames EXCEPT ![i] = g] /\ K' = <<Run(C.body)>>
  <2>1. ~Pops(h) /\ i = Len(frames)
    BY <1>1, <1>3, <1>6 DEF Pops
  <2>2. /\ pos' = f.pos + 1 /\ pos' \in Int /\ f.pos <= pos'
        /\ pos' <= EndAt(f.depth) /\ Window(f.depth, pos')
    <3>1. pos' = f.pos + 1
      BY <1>14 DEF Retry
    <3> DEFINE p == f.pos
               e == EndAt(f.depth)
    <3>2. p \in Nat /\ e \in Nat /\ ~(p >= e)
      BY <1>8, <1>14
    <3> HIDE DEF p, e
    <3>3. p + 1 \in Int /\ p <= p + 1 /\ p + 1 <= e
      BY <3>2
    <3>4. Window(f.depth, p + 1)
      BY <1>8, <3>3 DEF p, e
    <3>. QED
      BY <3>1, <3>3, <3>4 DEF p, e
  <2>3. pos' \in 0..Len(input)
    <3>1. EndAt(f.depth) <= Len(input) /\ Len(input) \in Nat
      <4>1. PICK d : d = f.depth
        OBVIOUS
      <4>2. d \in 0..Len(slots)
        BY <1>7, <4>1
      <4>3. EndAt(d) <= Len(input)
        BY <4>2, WindowFacts
      <4>. QED
        BY <4>1, <4>3, StateFacts
    <3>2. PICK p, e, z : p = pos' /\ e = EndAt(f.depth) /\ z = f.pos
      OBVIOUS
    <3>3. p <= e /\ p \in Nat /\ e \in Nat /\ e <= Len(input)
      <4>1. z \in Nat /\ p = z + 1 /\ p <= e /\ e \in Nat /\ e <= Len(input)
        BY <1>8, <2>2, <3>1, <3>2
      <4>. QED
        BY <4>1
    <3>. QED
      BY <3>1, <3>2, <3>3
  <2>4. /\ g.type = "Savepoint" /\ g.on_fail = h /\ g.depth = f.depth
        /\ g.mark.depth = f.mark.depth /\ g.pos = pos' /\ g \in Linked
    <3>1. f \in FrameRecord
      BY <1>6 DEF Linked
    <3>2. Len(slots) \in Nat /\ Len(input) \in Nat /\ Len(<<>>) = 0
      BY StateFacts
    <3>3. pos' = Retry(f)
      BY <1>14
    <3> DEFINE q == Retry(f)
               b == restore(builder, f.mark)
    <3>4. q \in 0..Len(input) /\ b \in GoodBuilder(Len(input))
      BY <1>7, <2>3, <3>3
    <3>5. mark(b).depth = f.mark.depth
      BY <1>8 DEF mark
    <3> HIDE DEF q, b
    <3>6. g \in GoodFrame(Len(slots), Len(input))
      BY <1>7, <3>2, <3>4, RefreshedGood DEF q, b
    <3>7. g.type = f.type /\ g.on_fail = f.on_fail /\ g.depth = f.depth
          /\ g.mark = mark(b) /\ g.pos = q
      BY <3>1 DEF FrameRecord, Refreshed, b, q
    <3>. QED
      BY <1>6, <3>3, <3>5, <3>6, <3>7, GoodLinked DEF q
  <2>5. frames' = [frames EXCEPT ![Len(frames)] = g]
    BY <1>14, <2>1
  <2>6. frames \in Seq(Linked) /\ frames # <<>>
    <3>1. frames \in Seq(Linked)
      BY FramesLinked
    <3>2. Len(frames) # 0
      BY <1>6
    <3>. QED
      BY <3>1, <3>2, EmptySeq
  <2> HIDE DEF g
  <2>7. frames' = Append(SubSeq(frames, 1, Len(frames) - 1), g)
    BY <2>4, <2>5, <2>6, TopReplaced
  <2>8. frames' = Append(outer, g)
    BY <2>1, <2>7
  <2> HIDE DEF outer
  <2>9. PICK d, t : d = f.depth /\ t = f.mark.depth
    OBVIOUS
  <2>10. /\ g.type # "Return" /\ g.type # "Loop" /\ IsFail(g.on_fail)
         /\ Holds(outer, Len(outer), g.depth, g.mark.depth, Scope[g.on_fail])
         /\ Over(outer, g.depth, g.mark.depth)
         /\ Holds(outer, Len(outer), d, t, x)
    BY <1>2, <1>3, <1>6, <2>4, <2>9
  <2>11. /\ Chain(frames')
         /\ Holds(frames', Len(frames'), d, t, Opened(x, g.on_fail))
    BY <1>3, <1>6, <2>4, <2>8, <2>10, PushHolds
  <2>12. Windowed1(frames')
    <3>1. Window(g.depth, g.pos)
      BY <2>2, <2>4
    <3>. QED
      BY <1>6, <2>4, <2>8, <3>1, SavedAppend
  <2>13. Holds(frames', Len(frames'), f.depth, f.mark.depth, Opened(x, h))
    BY <2>4, <2>9, <2>11
  <2>14. PICK n : n = C.body
    OBVIOUS
  <2>. QED
    BY <1>9, <1>11, <1>12, <1>14, <2>2, <2>11, <2>12, <2>13, <2>14
<1>. QED
  BY <1>4, <1>7, <1>10, <1>13, <1>14

(* AbortRule: to the handler of a call, which the caller's scope holds.    *)
LEMMA AbortRuleNested ==
  ASSUME Disciplined, IInv, WellNested, IInv', AbortRule
  PROVE  WellNested'
<1>1. /\ Running /\ K # <<>> /\ C.kind = "AbortRule" /\ C.kind \notin FailKinds
      /\ C.kind \in SpineKinds
  BY DEF AbortRule, Control, Running, FailKinds, SpineKinds
<1>2. CASE Fail
  BY <1>1, <1>2, FailNested
<1>3. CASE ~Fail
  <2>1. PICK i \in Callers : /\ frames' = SubSeq(frames, 1, i - 1)
                             /\ Continue(frames[i].on_fail)
                             /\ UNCHANGED <<job, pos, slots, depth, builder>>
    BY <1>3 DEF AbortRule, Innermost1, status, window
  <2>2. /\ frames \in Seq(Linked) /\ Chain(frames) /\ Windowed1(frames)
        /\ Over(frames, depth, Tree) /\ WindowsFit
        /\ \A n : Append(Rest, Run(n)) = <<Run(n)>>
    BY <1>1, SpineFacts
  <2>3. PICK f, h, j : f = frames[i] /\ h = f.on_fail /\ j = i - 1
    OBVIOUS
  <2>4. /\ i \in 1..Len(frames) /\ f.type = "Return" /\ h # Nil
        /\ Len(frames) \in Nat /\ IsFail(h) /\ j \in 0..Len(frames)
    <3>1. /\ i \in 1..Len(frames) /\ f.type = "Return" /\ h # Nil
          /\ Len(frames) \in Nat
      BY <2>2, <2>3, LinkedFacts DEF Callers
    <3>2. IsFail(h)
      BY <2>2, <2>3, <3>1, LinkedFacts DEF IsFailOrNil
    <3>. QED
      BY <2>3, <3>1, <3>2
  <2>5. FrameFits(frames, i)
    BY <2>2, <2>4, LinkedFacts DEF Chain
  <2>6. /\ Holds(frames, j, f.depth, f.mark.depth, Scope[f.next])
        /\ Reaches(Scope[f.next].open, h)
    BY <2>3, <2>4, <2>5, Zenon DEF FrameFits
  <2>7. Scope[f.next] \in ScopeRecord
    <3>1. IsSpine(f.next)
      BY <2>2, <2>3, <2>4, LinkedFacts
    <3>. QED
      BY <3>1, HasScope
  <2>8. PICK x, d, t : x = Scope[f.next] /\ d = f.depth /\ t = f.mark.depth
    OBVIOUS
  <2>9. HandlerReady(SubSeq(frames, 1, j), h)
    BY <2>2, <2>4, <2>6, <2>7, <2>8, ReachesReady
  <2>10. /\ frames' = SubSeq(frames, 1, j) /\ K' = <<Run(h)>> /\ Tree' = Tree
         /\ slots' = slots /\ depth' = depth
    BY <2>1, <2>2, <2>3 DEF Continue, Tree
  <2>11. Chain(frames') /\ Windowed1(frames') /\ Over(frames', depth, Tree)
    BY <2>2, <2>4, <2>10, ChainPrefix, SavedPrefix, OverPrefix
  <2>12. Chain(frames)' /\ Over(frames, depth, Tree)'
    BY <2>10, <2>11
  <2>13. WindowsFit'
    <3>1. depth' \in Int /\ depth' <= depth
      BY <2>10, StateFacts
    <3>. QED
      BY <2>2, <2>10, <2>11, <3>1, WindowsKept
  <2>14. HandlerReady(frames', h)
    BY <2>9, <2>10
  <2>. QED
    BY <2>4, <2>10, <2>12, <2>13, <2>14, HandlerNested
<1>. QED
  BY <1>2, <1>3

-----------------------------------------------------------------------------
(* The invariant.                                                          *)

(* A machine on the entry of a scoped job has nothing open.                *)
LEMMA InitNested ==
  ASSUME Disciplined, Init
  PROVE  WellNested
<1>1. IInv
  BY InitGood
<1>2. /\ job \in Jobs /\ pos = 0 /\ slots = <<>> /\ depth = 0
      /\ frames = <<>> /\ K = <<Run(job.entry)>> /\ builder.stack = <<>>
  BY DEF Init, EmptyBuilder
<1>3. PICK n : n = job.entry
  OBVIOUS
<1>4. /\ IsSpine(n) /\ Owing(n) = 0 /\ Leads(Nothing, n)
      /\ Prog[n].kind # "Halt"
  BY <1>2, <1>3, JobsAssumption DEF Disciplined, WellScoped, JobScoped
<1>5. /\ Prog[n].kind \in SpineKinds /\ Prog[n].kind \notin FailKinds
  BY <1>4, SortFacts DEF IsSpine
<1>6. Prog[n].kind \notin Committers /\ Scope[n] = Nothing
  BY <1>4 DEF Leads, Nothing
<1>7. /\ Run(n).node = n /\ Run(n).role = "run" /\ K # <<>> /\ Len(K) = 1
      /\ K[1] = Run(n) /\ K[Len(K)] = Run(n) /\ 1..Len(K) - 1 = {}
  BY <1>2, <1>3 DEF Run, Kont
<1>8. Top.node = n /\ C.kind = Prog[n].kind /\ Base = Prog[n].kind
  BY <1>7 DEF Top, C, Base
<1>9. /\ frames \in Seq(Linked) /\ Len(frames) = 0 /\ DOMAIN frames = {}
      /\ Len(builder.stack) = 0 /\ Nothing.open = <<>> /\ Len(Nothing.open) = 0
      /\ DOMAIN Nothing.open = {} /\ Nothing.wins = 0 /\ Nothing.tree = 0
  BY <1>2, EmptySeq DEF Nothing
<1>10. Holds(frames, Len(frames), depth, Tree, Nothing)
  BY <1>2, <1>9 DEF Holds, Tree
<1>11. Standing(K[1])
  BY <1>6, <1>7, <1>10 DEF Standing, Stands, Opening
<1>12. Chain(frames) /\ Over(frames, depth, Tree)
  BY <1>9 DEF Chain, Over
<1>13. WindowsFit
  BY <1>2, <1>9 DEF WindowsFit, Savepoints
<1>14. Window(depth, pos) /\ pos + Owing(n) <= effective_end
  <2>1. effective_end \in Nat
    BY <1>1, WindowFacts
  <2>. QED
    BY <1>2, <1>4, <2>1 DEF Window
<1>. QED
  BY <1>2, <1>4, <1>5, <1>7, <1>8, <1>11, <1>12, <1>13, <1>14 DEF WellNested

(* Every operation of the chain keeps to the nesting.                      *)
LEMMA ConsumeNested ==
  ASSUME Disciplined, IInv, WellNested, IInv', Consume
  PROVE  WellNested'
BY AwaitingNested, ProducersNested, SettersNested, EvalConstraintNested,
   SwitchNested, PushIntervalApplyNested, PopIntervalNested, Zenon DEF Consume

(* Every array, rule, node and choice keeps to it.                         *)
LEMMA StructureNested ==
  ASSUME Disciplined, IInv, WellNested, IInv', Structure
  PROVE  WellNested'
BY AwaitingNested, BeginArrayNested, ArrayNextNested, ArrayChecksNested,
   EndArrayNested, InvokeRuleNested, ReturnRuleNested, HaltNested, ScopeNested,
   BeginChoiceNested, CommitChoiceNested, Zenon DEF Structure

(* Every failure handler keeps to it.                                      *)
LEMMA RecoverNested ==
  ASSUME Disciplined, IInv, WellNested, IInv', Recover
  PROVE  WellNested'
BY OnFailNested, ResyncNested, AbortRuleNested, Zenon DEF Recover

(* A stutter changes nothing the nesting is about.                         *)
LEMMA StutterNested ==
  ASSUME WellNested, UNCHANGED vars
  PROVE  WellNested'
<1>1. UNCHANGED <<job, pos, slots, depth, frames, K, builder, failed>>
  BY DEF vars
<1>2. /\ Window(depth, pos)' <=> Window(depth, pos)
      /\ WindowsFit' <=> WindowsFit
      /\ Standing(K[1])' <=> Standing(K[1])
      /\ Tree' = Tree /\ effective_end' = effective_end
  BY <1>1 DEF Window, WindowsFit, Standing, Tree, effective_end, EndAt, input
<1>3. (Running <=> Running') /\ (Seeking <=> Seeking') /\ C' = C /\ Top' = Top
      /\ Base' = Base
  BY <1>1 DEF Running, Seeking, C, Top, Base
<1>. QED
  BY <1>1, <1>2, <1>3 DEF WellNested

(* So every step keeps the frames, windows and nodes as they were laid out.*)
LEMMA StepNested ==
  ASSUME Disciplined, SInv, [Next]_vars
  PROVE  SInv'
<1>1. IInv /\ WellNested /\ IInv'
  BY StepGood DEF SInv
<1>2. CASE UNCHANGED vars
  BY <1>1, <1>2, StutterNested DEF SInv
<1>3. CASE Step
  BY <1>1, <1>3, EvaluateNested, ConsumeNested, StructureNested, RecoverNested
  DEF Step, SInv
<1>. QED
  BY <1>2, <1>3 DEF Next

(* The cursor is in the innermost window, and the windows in one another.  *)
LEMMA NestedConfined ==
  ASSUME SInv
  PROVE  Confined
<1>1. /\ IInv /\ WindowsFit /\ depth \in Nat
      /\ Running /\ ~Seeking => /\ Window(depth, pos)
                                /\ pos + Owing(K[1].node) <= effective_end
  BY StateFacts DEF SInv, WellNested
<1>2. ASSUME ~Halted, ~Seeking
      PROVE  pos \in effective_start..effective_end
  <2>1. Running /\ K # <<>>
    BY <1>2 DEF Halted, Running
  <2>2. Window(depth, pos) /\ pos + Owing(K[1].node) <= effective_end
    BY <1>1, <1>2, <2>1
  <2>3. pos \in Nat /\ effective_start \in Nat /\ effective_end \in Nat
    BY <1>1, StateFacts, WindowFacts
  <2>4. Owing(K[1].node) \in Nat
    <3>1. K \in GoodStack(Len(builder.nodes), Len(input) - pos)
      BY <1>1 DEF IInv
    <3>2. /\ Len(builder.nodes) \in Nat /\ Len(input) - pos \in Nat
      BY <1>1, StateFacts
    <3> DEFINE m == Len(builder.nodes)
               room == Len(input) - pos
    <3> HIDE DEF m, room
    <3>3. 1 \in 1..Len(K) /\ K[1].node \in KontId
      <4>1. /\ Len(K) \in Nat /\ Len(K) >= 1
            /\ \A i \in 1..Len(K) : K[i] \in GoodKont(m, room)
        BY <2>1, <3>1, <3>2, StackFacts DEF m, room
      <4>2. 1 \in 1..Len(K)
        BY <4>1
      <4>. QED
        BY <4>1, <4>2 DEF GoodKont
    <3>. QED
      BY <3>3, OwingFacts
  <2>5. pos <= effective_end
    BY <2>2, <2>3, <2>4
  <2>6. effective_start <= pos
    BY <1>1, <2>2, <2>3 DEF Window, effective_start
  <2>. QED
    BY <2>3, <2>5, <2>6
<1>3. \A d \in 2..depth : /\ slots[d - 1].lo <= slots[d].lo
                          /\ slots[d].lo <= slots[d].hi
                          /\ slots[d].hi <= slots[d - 1].hi
  BY <1>1 DEF WindowsFit
<1>. QED
  BY <1>2, <1>3 DEF Confined

(* Every pending Savepoint's windows are among those open.                 *)
LEMMA NestedSaved ==
  ASSUME SInv
  PROVE  SavedWindowsIntact
<1>1. Over(frames, depth, Tree)
  BY DEF SInv, WellNested
<1>. QED
  BY <1>1 DEF SavedWindowsIntact, Savepoints, Over, Under

(* Below a ReturnRule that has no Return frame on top there is nothing.    *)
LEMMA NestedReturn ==
  ASSUME Disciplined, SInv
  PROVE  TopLevelReturnHasNoCaller
<1>1. SUFFICES ASSUME ~Halted, Base = "ReturnRule", ~TopIs("Return")
               PROVE  frames = <<>>
  BY DEF TopLevelReturnHasNoCaller
<1>2. IInv /\ WellNested /\ Running /\ K # <<>>
  BY <1>1 DEF SInv, Halted, Running
<1>3. C.kind = "ReturnRule" /\ K[1] = Top
  BY <1>1, <1>2, WaitsBase, RunFacts
<1>4. /\ C.kind \in SpineKinds
      /\ C.kind \notin Committers \cup {"EndArray"} /\ ~Opening(Top)
  BY <1>3 DEF SpineKinds, ChainKinds, Committers, Opening, C
<1>5. /\ ScopeFits(Top.node) /\ Prog[Top.node] = C
      /\ frames \in Seq(Linked)
      /\ Holds(frames, Len(frames), depth, Tree, Scope[Top.node])
  BY <1>2, <1>4, SpineFacts, PlainFacts
<1>6. Holds(frames, Len(frames), depth, Tree, Nothing)
  <2>1. Scope[Top.node] = Nothing
    BY <1>3, <1>5, Zenon DEF ScopeFits
  <2>. QED
    BY <1>5, <2>1
<1>7. /\ Len(frames) \in Nat /\ Len(frames) \in 0..Len(frames)
      /\ frames # <<>> => Len(frames) >= 1
  BY <1>5, LinkedFacts
<1>8. Len(frames) > 0 => frames[Len(frames)].type = "Return"
  BY <1>5, <1>6, <1>7, HoldsNothing
<1>. QED
  BY <1>1, <1>7, <1>8 DEF TopIs, FrameTop

(* The handler a where-check jumps to is the one fail() would find.        *)
LEMMA NestedDispatch ==
  ASSUME Disciplined, SInv
  PROVE  StaticDispatchIsDynamic
<1> DEFINE h == C.on_false
<1>1. SUFFICES ASSUME ~Halted, Top.role = "apply", C.kind = "EvalConstraint",
                      IsFail(h)
               PROVE  \E i \in Innermost1(Handlers(frames)) :
                        frames[i].on_fail = h
  BY DEF StaticDispatchIsDynamic
<1>2. /\ IInv /\ WellNested /\ Running /\ K # <<>>
      /\ C.kind \in SpineKinds
      /\ C.kind \notin Committers \cup {"EndArray"} /\ ~Opening(Top)
  BY <1>1 DEF SInv, Halted, Running, SpineKinds, SiteKinds, ChainKinds,
              Committers, Opening, C
<1>3. /\ ScopeFits(Top.node) /\ Prog[Top.node] = C
      /\ Scope[Top.node] \in ScopeRecord
      /\ frames \in Seq(Linked) /\ Chain(frames)
      /\ Holds(frames, Len(frames), depth, Tree, Scope[Top.node])
  BY <1>2, SpineFacts, PlainFacts
<1>4. Reaches(Scope[Top.node].open, h)
  BY <1>1, <1>3, Zenon DEF ScopeFits
<1>5. Len(frames) \in 0..Len(frames) /\ DOMAIN frames = 1..Len(frames)
  BY <1>3, LinkedFacts
<1> HIDE DEF h
<1>6. HandlerReady(SubSeq(frames, 1, Len(frames)), h)
  BY <1>1, <1>3, <1>4, <1>5, ReachesReady
<1>7. HandlerReady(frames, h)
  BY <1>3, <1>6, WholeSeq
<1>8. PICK i \in Savepoints(frames) :
        /\ frames[i].on_fail = h
        /\ \A m \in i + 1..Len(frames) : frames[m].type # "Savepoint"
  BY <1>7 DEF HandlerReady
<1>9. i \in Handlers(frames)
  BY <1>1, <1>8, HandlerFacts DEF Handlers
<1>10. ASSUME NEW j \in Handlers(frames)
       PROVE  j <= i
  <2>1. /\ j \in 1..Len(frames) /\ frames[j].type = "Savepoint"
        /\ i \in 1..Len(frames) /\ Len(frames) \in Nat
    BY <1>3, <1>5, <1>8, LinkedFacts DEF Handlers, Savepoints
  <2>2. j \notin i + 1..Len(frames)
    BY <1>8, <2>1
  <2>. QED
    BY <2>1, <2>2
<1>. QED
  BY <1>8, <1>9, <1>10 DEF Innermost1

-----------------------------------------------------------------------------
(* The theorems, for every program that nests as Scope says, and every     *)
(* input.                                                                  *)

(* The frame chain, the interval depth and the open nodes are at every     *)
(* step what bbq.ddcg laid out: BeginChoice, BeginArray, PushInterval and  *)
(* InvokeRule are undone in the order they were done, by the kont that is  *)
(* meant to or by the failure that passes it.                              *)
THEOREM ScopesHold ==
  ASSUME Disciplined
  PROVE  Spec => []SInv
<1>1. Init => SInv
  BY InitGood, InitNested DEF SInv
<1>2. SInv /\ [Next]_vars => SInv'
  BY StepNested
<1>. QED
  BY <1>1, <1>2, PTL DEF Spec

(* Bounds confinement of docs/Laws.md: the cursor never leaves the         *)
(* innermost interval, nor an interval the one around it.                  *)
THEOREM StaysConfined ==
  ASSUME Disciplined
  PROVE  Spec => []Confined
<1>1. SInv => Confined
  BY NestedConfined
<1>. QED
  BY <1>1, ScopesHold, PTL

(* No slot a pending Savepoint would restore is overwritten.               *)
THEOREM SavedWindowsStay ==
  ASSUME Disciplined
  PROVE  Spec => []SavedWindowsIntact
<1>1. SInv => SavedWindowsIntact
  BY NestedSaved
<1>. QED
  BY <1>1, ScopesHold, PTL

(* A ReturnRule without a frame is the top level's, as its comment says.   *)
THEOREM ReturnsAtTopLevel ==
  ASSUME Disciplined
  PROVE  Spec => []TopLevelReturnHasNoCaller
<1>1. SInv => TopLevelReturnHasNoCaller
  BY NestedReturn
<1>. QED
  BY <1>1, ScopesHold, PTL

(* A where-check's static jump goes where fail() would have gone.          *)
THEOREM StaticDispatch ==
  ASSUME Disciplined
  PROVE  Spec => []StaticDispatchIsDynamic
<1>1. SInv => StaticDispatchIsDynamic
  BY NestedDispatch
<1>. QED
  BY <1>1, ScopesHold, PTL

(* A successful parse ends with every frame, window and node closed.       *)
THEOREM EverythingCloses ==
  ASSUME Disciplined
  PROVE  Spec => []NothingLeftOpen
<1>1. SInv => NothingLeftOpen
  BY DEF SInv, WellNested, NothingLeftOpen, Halted
<1>. QED
  BY <1>1, ScopesHold, PTL
=============================================================================
