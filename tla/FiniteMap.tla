------------------------------ MODULE FiniteMap -----------------------------
(***************************************************************************)
(* What the maps of src/crt promise their callers: a finite map, and for   *)
(* every call either its effect or a refusal that leaves the map as it was *)
(* and is remembered until the map is made anew.                           *)
(***************************************************************************)
CONSTANTS Keys, Vals

VARIABLES map,     \* the entries: a function from the keys present
          oom      \* has any put been refused?

vars == <<map, oom>>

Empty == [k \in {} |-> k]

Init == map = Empty /\ oom \in BOOLEAN

Put(k, v) ==
    /\ map' = [x \in DOMAIN map \cup {k} |-> IF x = k THEN v ELSE map[x]]
    /\ UNCHANGED oom

Refuse == UNCHANGED map /\ oom' = TRUE

Delete(k) ==
    /\ map' = [x \in DOMAIN map \ {k} |-> map[x]]
    /\ UNCHANGED oom

\* Freed, cleared, or made again (which may itself be refused).
Renew == map' = Empty /\ oom' \in BOOLEAN

\* get, contains, len and iteration.
Look == UNCHANGED vars

Next == \/ Look
        \/ Refuse
        \/ Renew
        \/ \E k \in Keys : Delete(k)
        \/ \E k \in Keys, v \in Vals : Put(k, v)

Spec == Init /\ [][Next]_vars
=============================================================================
