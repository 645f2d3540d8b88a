-------------------------------- MODULE Dict --------------------------------
(***************************************************************************)
(* src/crt/bbq_dict.c over src/crt/bbq_htree.c: a dictionary keyed by      *)
(* bytes.  The tree maps a hash to the chain of the entries that share it; *)
(* a key is told from the others of its chain by comparing it whole.  Any  *)
(* allocation may be refused.  A caller may hold an iterator across any    *)
(* calls: it stops when the generation it captured has passed.             *)
(* Generations are compared for equality only, so the model keeps whether  *)
(* the iterator's is the container's.                                      *)
(***************************************************************************)
EXTENDS HTree

CONSTANTS Keys, Vals,
          Hashes,     \* the hash functions a seed may select
          NoKey       \* a NULL entry pointer, and no delete under way

ASSUME DictAssumption == Hashes \subseteq [Keys -> HKeys] /\ NoKey \notin Keys

VARIABLES hash,     \* d->hash under d->seed
          index,    \* the tree: hash -> chain
          count, oom,
          treeOom,  \* index.oom
          held,     \* [nodes, entries] allocated and not released
          deleting, \* the key whose delete is walking back up the tree
          depth,    \* of that walk
          stack, cur,              \* the iterator: its tree stack, its next entry
          freshTree, freshDict,    \* has it the tree's / the dict's generation?
          walking,  \* is bbq_htree_next under way?
          given     \* what the iterator has given (history)

iter == <<stack, cur, freshTree, freshDict, walking, given>>
dict == <<hash, index, count, oom, treeOom, held>>
vars == <<hash, index, count, oom, treeOom, held, deleting, depth,
          stack, cur, freshTree, freshDict, walking, given>>

\* The chain of a hash, head first; find walks it comparing the full key.
Chain(t, h) == LET p == Slot(t, h)
               IN IF p \in DOMAIN t.leaf /\ t.leaf[p].key = h THEN t.leaf[p].value ELSE <<>>
\* find: the entry's place in its chain, 0 when the key is absent.
Found(t, k) ==
    LET c == Chain(t, hash[k])
    IN IF \E j \in DOMAIN c : c[j][1] = k
       THEN CHOOSE j \in DOMAIN c : c[j][1] = k /\ \A m \in 1 .. j - 1 : c[m][1] # k
       ELSE 0
Contains(t, k) == Found(t, k) # 0
Get(t, k) == Chain(t, hash[k])[Found(t, k)][2]

Idle == deleting = NoKey /\ ~walking

Init ==
    /\ hash \in Hashes
    /\ index = NoTree /\ count = 0 /\ oom = FALSE /\ treeOom = FALSE
    /\ held = [nodes |-> 0, entries |-> 0]
    /\ deleting = NoKey /\ depth = 0
    /\ stack = <<>> /\ cur = NoKey /\ given = <<>>
    /\ freshTree = FALSE /\ freshDict = FALSE /\ walking = FALSE

\* t->gen++ and d->gen++, as the iterator sees them.  bbq_dict_next reads
\* nothing more of an iterator whose generation has passed: it is forgotten.
TreeMutated == freshTree' = FALSE
DictMutated ==
    /\ freshDict' = FALSE
    /\ stack' = <<>> /\ cur' = NoKey /\ given' = <<>>

\* bbq_dict_put of a key that is there.
Overwrite(k, v) ==
    /\ Idle /\ Contains(index, k)
    /\ LET h == hash[k]
       IN index' = [index EXCEPT !.leaf[Slot(index, h)].value[Found(index, k)] = <<k, v>>]
    /\ DictMutated
    /\ UNCHANGED <<hash, count, oom, treeOom, held, deleting, depth, freshTree, walking>>

\* Mutant: the new entry is the whole chain.
PutNewAlone(k, v) ==
    /\ Idle /\ ~Contains(index, k)
    /\ LET h == hash[k]
       IN /\ index' = Insert(index, h, << <<k, v>> >>)
          /\ held' = [held EXCEPT !.entries = @ + 1, !.nodes = @ + NodesNeeded(index, h)]
    /\ count' = count + 1
    /\ TreeMutated /\ DictMutated
    /\ UNCHANGED <<hash, oom, treeOom, deleting, depth, walking>>

\* bbq_dict_put of a new key: the entry goes to the front of its chain.
PutNew(k, v) ==
    /\ Idle /\ ~Contains(index, k)
    /\ LET h == hash[k]
       IN /\ index' = Insert(index, h, << <<k, v>> >> \o Chain(index, h))
          /\ held' = [held EXCEPT !.entries = @ + 1, !.nodes = @ + NodesNeeded(index, h)]
    /\ count' = count + 1
    /\ TreeMutated /\ DictMutated
    /\ UNCHANGED <<hash, oom, treeOom, deleting, depth, walking>>

\* The entry is refused, or one of the nodes the tree needs is: the tree is as
\* it was and the entry is released.
PutRefused(k) ==
    /\ Idle /\ ~Contains(index, k)
    /\ \/ UNCHANGED <<held, treeOom>>
       \/ \E granted \in 0 .. NodesNeeded(index, hash[k]) - 1 :
            /\ held' = [held EXCEPT !.nodes = @ + NodesKept(index, hash[k], granted)]
            /\ treeOom' = TRUE
    /\ oom' = TRUE
    /\ UNCHANGED <<hash, index, count, deleting, depth>> /\ UNCHANGED iter

\* The end of bbq_dict_delete.
Released ==
    /\ held' = [held EXCEPT !.entries = @ - 1]
    /\ count' = count - 1
    /\ DictMutated

\* bbq_dict_delete of one of several entries: unlinked, or a new chain head
\* (an insert that only rewrites the leaf).
DeleteFromChain(k) ==
    /\ Idle /\ Len(Chain(index, hash[k])) > 1 /\ Contains(index, k)
    /\ LET h == hash[k]
           n == Found(index, k)
           c == Chain(index, h)
       IN /\ index' = Insert(index, h, SubSeq(c, 1, n - 1) \o SubSeq(c, n + 1, Len(c)))
          /\ freshTree' = (freshTree /\ n # 1)
    /\ Released
    /\ UNCHANGED <<hash, oom, treeOom, deleting, depth, walking>>

\* bbq_dict_delete of a chain's only entry, into bbq_htree_delete.
DeleteLast(k) ==
    /\ Idle /\ Len(Chain(index, hash[k])) = 1 /\ Contains(index, k)
    /\ index' = Unlinked(index, hash[k])
    /\ held' = [held EXCEPT !.nodes = @ - 1]
    /\ TreeMutated
    /\ deleting' = k /\ depth' = Level(index, hash[k])
    /\ UNCHANGED <<hash, count, oom, treeOom, stack, cur, freshDict, walking, given>>

\* A turn of the walk back that goes on.
Collapse ==
    /\ deleting # NoKey /\ depth > 0
    /\ LET p == Upto(hash[deleting], depth - 1)
       IN Collapses(index, p) /\ index' = Collapsed(index, p)
    /\ held' = [held EXCEPT !.nodes = @ - 1]
    /\ depth' = depth - 1
    /\ UNCHANGED <<hash, count, oom, treeOom, deleting>> /\ UNCHANGED iter

\* The walk back ends, and with it the delete.
DeleteEnds ==
    /\ deleting # NoKey
    /\ depth > 0 => ~Collapses(index, Upto(hash[deleting], depth - 1))
    /\ Released
    /\ deleting' = NoKey /\ depth' = 0
    /\ UNCHANGED <<hash, index, oom, treeOom, freshTree, walking>>

\* bbq_dict_clear: the chains found by walking the tree, then the tree.
Entries(t) == UNION {{<<p, j>> : j \in DOMAIN t.leaf[p].value} : p \in DOMAIN t.leaf}
Emptied ==
    /\ Idle
    /\ held' = [nodes   |-> held.nodes - Cardinality(Nodes(index)),
                entries |-> held.entries - Cardinality(Entries(index))]
    /\ index' = NoTree /\ count' = 0
    /\ TreeMutated /\ DictMutated
    /\ UNCHANGED <<hash, deleting, depth, walking>>
Clear == Emptied /\ UNCHANGED <<oom, treeOom>>
\* bbq_dict_free
FreeDict == Emptied /\ oom' = FALSE /\ treeOom' = FALSE

-----------------------------------------------------------------------------
\* bbq_dict_iter_init
IterInit ==
    /\ Idle
    /\ stack' = IterStack(index) /\ cur' = NoKey /\ given' = <<>>
    /\ freshTree' = TRUE /\ freshDict' = TRUE
    /\ UNCHANGED <<deleting, depth, walking>> /\ UNCHANGED dict

\* An entry is handed out; the iterator keeps the one after it.
Give(c, n) ==
    /\ given' = Append(given, c[n][1])
    /\ cur' = IF n < Len(c) THEN c[n + 1][1] ELSE NoKey

\* bbq_dict_next inside a chain.
NextInChain ==
    /\ Idle /\ freshDict /\ cur # NoKey
    /\ Give(Chain(index, hash[cur]), Found(index, cur))
    /\ UNCHANGED <<deleting, depth, stack, freshTree, freshDict, walking>>
    /\ UNCHANGED dict

\* bbq_dict_next at the end of one: bbq_htree_next, or its refusal of a tree
\* that has changed.
NextChain ==
    /\ Idle /\ freshDict /\ cur = NoKey /\ stack # <<>>
    /\ IF freshTree THEN walking' = TRUE /\ UNCHANGED stack
       ELSE stack' = <<>> /\ UNCHANGED walking
    /\ UNCHANGED <<deleting, depth, cur, freshTree, freshDict, given>>
    /\ UNCHANGED dict

\* The turns of bbq_htree_next: at an interior node, at a leaf, at the end.
WalkInner ==
    /\ walking /\ stack # <<>> /\ Top(stack)[1] \in index.inner
    /\ stack' = Advanced(index, stack)
    /\ UNCHANGED <<deleting, depth, cur, freshTree, freshDict, walking, given>>
    /\ UNCHANGED dict
WalkLeaf ==
    /\ walking /\ stack # <<>> /\ Top(stack)[1] \in DOMAIN index.leaf
    /\ stack' = Popped(stack)
    /\ Give(index.leaf[Top(stack)[1]].value, 1)
    /\ walking' = FALSE
    /\ UNCHANGED <<deleting, depth, freshTree, freshDict>> /\ UNCHANGED dict
WalkEnd ==
    /\ walking /\ stack = <<>>
    /\ walking' = FALSE
    /\ UNCHANGED <<deleting, depth, stack, cur, freshTree, freshDict, given>>
    /\ UNCHANGED dict

Next ==
    \/ \E k \in Keys, v \in Vals : Overwrite(k, v) \/ PutNew(k, v)
    \/ \E k \in Keys : PutRefused(k) \/ DeleteFromChain(k) \/ DeleteLast(k)
    \/ Collapse \/ DeleteEnds
    \/ Clear \/ FreeDict
    \/ IterInit \/ NextInChain \/ NextChain
    \/ WalkInner \/ WalkLeaf \/ WalkEnd

Spec == Init /\ [][Next]_vars

-----------------------------------------------------------------------------
(* Type correctness. *)
TypeOK ==
    /\ hash \in Hashes
    /\ index.inner \subseteq UNION {[1 .. n -> 0 .. Radix - 1] : n \in 0 .. Nibbles - 1}
    /\ \A p \in DOMAIN index.leaf : /\ index.leaf[p].key \in HKeys
                                    /\ index.leaf[p].value \in Seq(Keys \X Vals)
    /\ count \in Nat /\ held \in [nodes : Nat, entries : Nat]
    /\ oom \in BOOLEAN /\ treeOom \in BOOLEAN
    /\ deleting \in Keys \cup {NoKey} /\ depth \in 0 .. Nibbles
    /\ cur \in Keys \cup {NoKey} /\ given \in Seq(Keys)
    /\ freshTree \in BOOLEAN /\ freshDict \in BOOLEAN /\ walking \in BOOLEAN

(* bbq_htree.h:16, "A leaf sits at the SHALLOWEST depth that distinguishes *)
(* its key from every other key in the tree": between calls the tree is    *)
(* the one its keys determine, whatever inserts, splits and collapses in   *)
(* which order made it.                                                    *)
ShapeIsItsKeys == deleting = NoKey => Canonical(index)

(* bbq_htree.h:29, "no half-built path": what the dictionary has allocated *)
(* is the nodes and entries it can reach, at whichever allocation a put    *)
(* was refused; and its length is the number of its entries.               *)
NothingLeaks ==
    /\ held.nodes = Cardinality(Nodes(index))
    /\ deleting = NoKey => held.entries = Cardinality(Entries(index))
                           /\ count = held.entries

(* bbq_dict.h, the dictionary implements a finite map: for every hash      *)
(* function, colliding ones included, find answers as the map of the calls *)
(* that were not refused, in the middle of a delete's walk too.            *)
Present == {k \in Keys : Contains(index, k)}
map == [k \in Present |-> Get(index, k)]
M == INSTANCE FiniteMap WITH oom <- oom \/ treeOom
ImplementsFiniteMap == M!Spec

(* bbq_dict.c:235-251 with bbq_htree.c:252-281: while the generation       *)
(* holds, what next has given and what the iterator has still ahead are    *)
(* all the entries, each once, and the hashes come in ascending order      *)
(* (bbq_htree.h:123).  A refused put does not end an iteration.            *)
Before(a, b) == \E n \in 1 .. Nibbles : a[n] < b[n] /\ \A m \in 1 .. n - 1 : a[m] = b[m]
Below(p, i) ==
    {l \in DOMAIN index.leaf :
        IF p \in index.inner THEN Len(l) > Len(p) /\ Upto(l, Len(p)) = p /\ l[Len(p) + 1] >= i
        ELSE l = p}
Ahead ==
    LET leaves == UNION {Below(stack[n][1], stack[n][2]) : n \in DOMAIN stack}
        rest   == IF cur = NoKey THEN {}
                  ELSE LET c == Chain(index, hash[cur])
                       IN {c[j][1] : j \in {m \in DOMAIN c : m >= Found(index, cur)}}
    IN rest \cup {index.leaf[e[1]].value[e[2]][1] : e \in {x \in Entries(index) : x[1] \in leaves}}
Given == {given[n] : n \in DOMAIN given}
OnceEachInOrder ==
    freshDict /\ deleting = NoKey =>
        /\ Given \cap Ahead = {} /\ Given \cup Ahead = Present
        /\ \A m, n \in DOMAIN given :
               m < n => /\ given[m] # given[n]
                        /\ ~Before(hash[given[n]], hash[given[m]])
        /\ freshTree /\ (cur # NoKey => cur \in Present)
=============================================================================
