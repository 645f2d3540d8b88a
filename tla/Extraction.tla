----------------------------- MODULE Extraction -----------------------------
(* The cheapest term of a class: a plan over every class, then a walk that    *)
(* writes the chosen nodes out, children first.                               *)
EXTENDS EGraph, Integers

CONSTANTS
    Cost,       \* of an operator
    Excludable  \* the operators a caller may exclude

VARIABLES
    xpc,        \* what the extraction is doing
    xat,        \* the node the plan has come to
    improved,
    without,    \* the operator that may not be chosen, if any
    cost, best, \* per class: of its cheapest term, and that term's node
    root, stack, memo, out

xvars == <<xpc, xat, improved, without, cost, best, root, stack, memo, out>>
plan == <<without, cost, best>>

NoOp == "none"
NoCost == -1

(* eg_cost_fn: a negative cost would make a cycle look cheap.                 *)
ASSUME CostAssumption == Cost \in [Ops -> Nat]

(* The sum of the values of a function, counted out.                          *)
Sum(f) == Cardinality(UNION {{k} \X (1 .. f[k]) : k \in DOMAIN f})

----------------------------------------------------------------------------
(* eg_extract_prepare.  A refused allocation undoes what was taken.           *)
Prepare(x) ==
    /\ xpc = "none" /\ pc = "idle" /\ ~oom
    /\ xpc' = "plan" /\ xat' = 1 /\ improved' = FALSE /\ without' = x
    /\ cost' = [c \in Ids |-> NoCost] /\ best' = [c \in Ids |-> 0]
    /\ UNCHANGED <<root, stack, memo, out>>

(* What a node costs when its kids' classes cost these prices.                *)
NodeCost(i, prices) ==
    LET kid == [k \in DOMAIN nodes[i].kids |-> prices[canon[nodes[i].kids[k]]]]
    IN  IF \E k \in DOMAIN kid : kid[k] = NoCost THEN NoCost
        ELSE Cost[nodes[i].op] + Sum(kid)

(* A mistake: the exclusion is for the root alone.                            *)
CandidateAlive(i) == nodes[i].live
Candidate(i) == nodes[i].live /\ nodes[i].op # without

(* A mistake: a term that costs the same is an improvement.                   *)
BetterOrEqual(new, old) == new # NoCost /\ (old = NoCost \/ new <= old)
Better(new, old) == new # NoCost /\ (old = NoCost \/ new < old)

PlanNode ==
    /\ xpc = "plan" /\ xat <= Len(nodes)
    /\ LET c == canon[nodes[xat].cls]
       IN  IF Candidate(xat) /\ Better(NodeCost(xat, cost), cost[c])
           THEN /\ cost' = [cost EXCEPT ![c] = NodeCost(xat, cost)]
                /\ best' = [best EXCEPT ![c] = xat]
                /\ improved' = TRUE
           ELSE UNCHANGED <<cost, best, improved>>
    /\ xat' = xat + 1
    /\ UNCHANGED <<xpc, without, root, stack, memo, out>>

(* A mistake: every class is priced in one sweep.                             *)
PlanRoundOnce ==
    /\ xpc = "plan" /\ xat > Len(nodes)
    /\ xpc' = "ready"
    /\ UNCHANGED <<xat, improved, plan, root, stack, memo, out>>

PlanRound ==
    /\ xpc = "plan" /\ xat > Len(nodes)
    /\ IF improved THEN xat' = 1 /\ improved' = FALSE /\ UNCHANGED xpc
       ELSE xpc' = "ready" /\ UNCHANGED <<xat, improved>>
    /\ UNCHANGED <<plan, root, stack, memo, out>>

(* eg_extract_from *)
ExtractFrom(r) ==
    /\ xpc = "ready" /\ cost[canon[r]] # NoCost
    /\ xpc' = "walk" /\ root' = canon[r]
    /\ stack' = <<canon[r]>> /\ memo' = [c \in Ids |-> 0] /\ out' = <<>>
    /\ UNCHANGED <<xat, improved, plan>>

Top == canon[stack[Len(stack)]]
Chosen == nodes[best[Top]]
Waiting == {k \in DOMAIN Chosen.kids : memo[canon[Chosen.kids[k]]] = 0}
Walking == xpc = "walk" /\ stack # <<>>
Rest == SubSeq(stack, 1, Len(stack) - 1)

Visited ==
    /\ Walking /\ memo[Top] # 0
    /\ stack' = Rest
    /\ UNCHANGED <<memo, out>>
Pending == memo[Top] = 0 /\ Waiting # {}
Descend ==
    /\ Walking /\ Pending
    /\ \E ks \in [1 .. Cardinality(Waiting) -> Waiting] :
          /\ \A m, n \in DOMAIN ks : m < n => ks[m] < ks[n]
          /\ stack' = stack \o [n \in DOMAIN ks |-> canon[Chosen.kids[ks[n]]]]
    /\ UNCHANGED <<memo, out>>
EmitNode ==
    /\ Walking /\ memo[Top] = 0 /\ Waiting = {}
    /\ stack' = Rest
    /\ memo' = [memo EXCEPT ![Top] = Len(out) + 1]
    /\ out' = Append(out, [op |-> Chosen.op,
                 kids |-> [k \in DOMAIN Chosen.kids |-> memo[canon[Chosen.kids[k]]]]])

Walk ==
    /\ Visited \/ Descend \/ EmitNode
    /\ UNCHANGED <<xpc, xat, improved, plan, root>>

Delivered ==
    /\ xpc = "walk" /\ stack = <<>>
    /\ xpc' = "ready" /\ root' = 0 /\ memo' = <<>> /\ out' = <<>>
    /\ UNCHANGED <<xat, improved, plan, stack>>

Dropped ==
    /\ xpc' = "none" /\ xat' = 1 /\ improved' = FALSE /\ without' = NoOp
    /\ cost' = <<>> /\ best' = <<>> /\ root' = 0 /\ stack' = <<>> /\ memo' = <<>> /\ out' = <<>>
PlanFree == xpc = "ready" /\ Dropped
ExtractRefused ==
    /\ (xpc = "none" /\ pc = "idle" /\ ~oom) \/ xpc = "ready" \/ (Walking /\ Pending)
    /\ Refused /\ Dropped
    /\ UNCHANGED <<nodes, canon, members, filed, facts, dirty, pc, at, moved, round, means>>

Extract == PlanNode \/ PlanRound \/ Walk \/ Delivered

----------------------------------------------------------------------------
XInit ==
    /\ Init
    /\ xpc = "none" /\ xat = 1 /\ improved = FALSE /\ without = NoOp
    /\ cost = <<>> /\ best = <<>> /\ root = 0 /\ stack = <<>> /\ memo = <<>> /\ out = <<>>

XNext ==
    \/ xpc = "none" /\ Next /\ UNCHANGED xvars
    \/ /\ \/ \E x \in Excludable \cup {NoOp} : Prepare(x)
          \/ \E r \in Ids : ExtractFrom(r)
          \/ Extract \/ PlanFree
       /\ UNCHANGED vars
    \/ ExtractRefused

XSpec == XInit /\ [][XNext]_<<vars, xvars>>

(* A call that was entered keeps running; a caller need not make one.         *)
Entered == pc # "idle" \/ xpc \in {"plan", "walk"}
XFairSpec == XSpec /\ WF_<<vars, xvars>>(Entered /\ XNext)

----------------------------------------------------------------------------
(* The reference: <<class, price>> of the cheapest term of each class that    *)
(* has one no deeper than d.                                                  *)
Below(prices, i, k) == (CHOOSE pr \in prices : pr[1] = canon[nodes[i].kids[k]])[2]
Offers(c, prices) ==
    {Cost[nodes[i].op] + Sum([k \in DOMAIN nodes[i].kids |-> Below(prices, i, k)]) :
        i \in {n \in Index :
                  /\ Candidate(n) /\ canon[nodes[n].cls] = c
                  /\ \A k \in DOMAIN nodes[n].kids :
                        \E pr \in prices : pr[1] = canon[nodes[n].kids[k]]}}
Lowest(ps) == CHOOSE p \in ps : \A q \in ps : p <= q
CheapestTo[d \in 0 .. Len(canon)] ==
    IF d = 0 THEN {}
    ELSE LET below == CheapestTo[d - 1]
         IN  {<<c, Lowest(Offers(c, below))>> : c \in {b \in Ids : Offers(b, below) # {}}}

(* The plan prices every class at its cheapest finite term, with operators    *)
(* that cost nothing and with cycles among the classes: eg_extract_prepare    *)
(* stops only where no order of its sweep would have found a cheaper one.     *)
Cheapest == xpc = "ready" =>
    {<<c, cost[c]>> : c \in {b \in Ids : cost[b] # NoCost}} = CheapestTo[Len(canon)]

(* The term handed out is laid out kids first, fits the arrays sized for it   *)
(* before the walk, has the excluded operator nowhere, denotes what the root  *)
(* denotes and costs what the plan said: eg_extract_from.                     *)
Value[j \in DOMAIN out] == Eval(out[j].op, [k \in DOMAIN out[j].kids |-> Value[out[j].kids[k]]])
Price[j \in DOMAIN out] == Cost[out[j].op] + Sum([k \in DOMAIN out[j].kids |-> Price[out[j].kids[k]]])
AllKids(s) == Sum([j \in DOMAIN s |-> Len(s[j].kids)])
Extracted == xpc = "walk" /\ stack = <<>> =>
    /\ \A j \in DOMAIN out : \A k \in DOMAIN out[j].kids : out[j].kids[k] \in 1 .. j - 1
    /\ Len(out) <= Len(canon)
    /\ AllKids(out) <= AllKids(nodes)
    /\ \A j \in DOMAIN out : out[j].op # without
    /\ memo[root] = Len(out)
    /\ Value[Len(out)] = means[root]
    /\ Price[Len(out)] = cost[root]

(* A merge never lets a rebuild run forever: each pass that arms another has  *)
(* joined two classes.  A plan comes to its fixpoint and a walk to its end,   *)
(* cycles in the graph or not.                                                *)
CallsEnd == Entered ~> ~Entered
=============================================================================
