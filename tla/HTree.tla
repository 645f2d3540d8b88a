------------------------------- MODULE HTree --------------------------------
(***************************************************************************)
(* src/crt/bbq_htree.c: the radix tree with lazy expansion, as operators   *)
(* on a tree.  A key is its sequence of nibbles and a node is known by its *)
(* position, the nibbles that lead to it from the root; a tree is the set  *)
(* of its interior positions and its leaves.  The calls that loop over     *)
(* nodes they change (the walk up of a delete, the walk of an iterator)    *)
(* are one operator per turn.                                              *)
(***************************************************************************)
EXTENDS Integers, Sequences, FiniteSets

CONSTANTS Radix,     \* children of an interior node: 16 in the code
          Nibbles    \* BBQ_HTREE_NIBBLES

ASSUME RadixAssumption == Radix \in Nat \ {0} /\ Nibbles \in Nat \ {0}

HKeys == [1 .. Nibbles -> 0 .. Radix - 1]
Upto(h, n) == SubSeq(h, 1, n)

NoTree == [inner |-> {}, leaf |-> [p \in {} |-> p]]
Nodes(t) == t.inner \cup DOMAIN t.leaf

Children(t, p) == {i \in 0 .. Radix - 1 : Append(p, i) \in Nodes(t)}

\* The descent of insert, search and delete: past every interior node on the
\* key's path.  The code refuses an interior node past the last nibble, which
\* TypeOK shows there never is.
Level(t, h) == Cardinality({n \in 0 .. Nibbles : \A m \in 0 .. n : Upto(h, m) \in t.inner})
Slot(t, h) == Upto(h, Level(t, h))
HasLeaf(t, h) == Slot(t, h) \in DOMAIN t.leaf

\* find_leaf and bbq_htree_contains.
FindLeaf(t, h) == LET p == Slot(t, h) IN p \in DOMAIN t.leaf /\ t.leaf[p].key = h

\* divergence
Divergence(a, b, from) ==
    CHOOSE d \in from .. Nibbles :
        /\ d < Nibbles => a[d + 1] # b[d + 1]
        /\ \A e \in from .. d - 1 : a[e + 1] = b[e + 1]

\* The nodes split_leaf needs: one per shared nibble, the fork and the leaf.
SplitAt(t, h) == Divergence(t.leaf[Slot(t, h)].key, h, Level(t, h))
NodesNeeded(t, h) ==
    CASE FindLeaf(t, h) -> 0
      [] HasLeaf(t, h) /\ ~FindLeaf(t, h) -> SplitAt(t, h) - Level(t, h) + 2
      [] OTHER -> 1

\* Mutant: the fork is not on the chain yet when its leaf is refused.
NodesKeptForkLost(t, h, granted) ==
    LET mids == SplitAt(t, h) - Level(t, h)
    IN IF HasLeaf(t, h) /\ granted > mids THEN 1 ELSE 0

\* What a refused insert keeps of the nodes it was granted: split_leaf frees
\* the chain it has built (the mids), and the fork when the leaf is refused.
NodesKept(t, h, granted) ==
    LET mids  == SplitAt(t, h) - Level(t, h)
        chain == IF granted < mids THEN granted ELSE mids
        fork  == IF granted > mids THEN 1 ELSE 0
    IN IF HasLeaf(t, h) THEN granted - chain - fork ELSE granted

Leaf(h, v) == [key |-> h, value |-> v]
PutLeaf(leaves, p, l) == [q \in DOMAIN leaves \cup {p} |-> IF q = p THEN l ELSE leaves[q]]
DropLeaf(leaves, p)   == [q \in DOMAIN leaves \ {p} |-> leaves[q]]

\* split_leaf: both leaves below a chain down to the first differing nibble.
SplitLeaf(t, h, v) ==
    LET p == Slot(t, h)
        o == t.leaf[p]
        d == SplitAt(t, h)
    IN [inner |-> t.inner \cup {Upto(h, l) : l \in Level(t, h) .. d},
        leaf  |-> PutLeaf(PutLeaf(DropLeaf(t.leaf, p), Upto(o.key, d + 1), o),
                          Upto(h, d + 1), Leaf(h, v))]

\* bbq_htree_insert that was granted its nodes.
Insert(t, h, v) ==
    IF HasLeaf(t, h) /\ ~FindLeaf(t, h) THEN SplitLeaf(t, h, v)
    ELSE [t EXCEPT !.leaf = PutLeaf(@, Slot(t, h), Leaf(h, v))]

\* bbq_htree_delete up to its walk back: the leaf goes.
Unlinked(t, h) == [t EXCEPT !.leaf = DropLeaf(@, Slot(t, h))]

\* Mutant: only an empty interior node goes.
CollapsesEmptyOnly(t, p) == Children(t, p) = {}

\* One turn of the walk back: an interior node with nothing left goes, one
\* with a lone leaf is replaced by it; any other ends the walk.
Collapses(t, p) ==
    LET c == Children(t, p)
    IN \/ c = {}
       \/ \E i \in c : c = {i} /\ Append(p, i) \in DOMAIN t.leaf

Collapsed(t, p) ==
    LET c == Children(t, p)
        only == CHOOSE i \in c : TRUE
        q == Append(p, only)
    IN [inner |-> t.inner \ {p},
        leaf  |-> IF c = {} THEN t.leaf
                  ELSE PutLeaf(DropLeaf(t.leaf, q), p, t.leaf[q])]

-----------------------------------------------------------------------------
(* An iterator is its stack of <<position, next child>>; idx 16 and above  *)
(* are "no child left".                                                    *)
IterStack(t) == IF Nodes(t) = {} THEN <<>> ELSE << <<<<>>, 0>> >>

Top(s) == s[Len(s)]
Popped(s) == SubSeq(s, 1, Len(s) - 1)

\* The children at or after i, as "while (i < 16 && !cur->u.children[i]) i++".
ChildrenFrom(t, p, i) == {j \in Children(t, p) : j >= i}

\* Mutant: the child just entered is entered again.
AdvancedNot(t, s) ==
    LET p  == Top(s)[1]
        cs == ChildrenFrom(t, p, Top(s)[2])
        i  == CHOOSE j \in cs : \A k \in cs : j <= k
    IN IF cs = {} THEN Popped(s)
       ELSE Popped(s) \o << <<p, i>>, <<Append(p, i), 0>> >>

\* One turn of bbq_htree_next's loop at an interior node.
Advanced(t, s) ==
    LET p  == Top(s)[1]
        cs == ChildrenFrom(t, p, Top(s)[2])
        i  == CHOOSE j \in cs : \A k \in cs : j <= k
    IN IF cs = {} THEN Popped(s)
       ELSE Popped(s) \o << <<p, i + 1>>, <<Append(p, i), 0>> >>

-----------------------------------------------------------------------------
(* The tree a set of keys has, whatever calls built it: interior where two *)
(* keys still agree, and each leaf at the shallowest position of its own.  *)
Agreeing(hs, p) == {h \in hs : Upto(h, Len(p)) = p}
Prefixes(hs) == {Upto(h, n) : h \in hs, n \in 0 .. Nibbles}
InnerOf(hs) == {p \in Prefixes(hs) : Cardinality(Agreeing(hs, p)) > 1}
LeavesOf(hs) ==
    {p \in Prefixes(hs) : /\ Cardinality(Agreeing(hs, p)) = 1
                          /\ p # <<>> => Upto(p, Len(p) - 1) \in InnerOf(hs)}
KeysOf(t) == {t.leaf[p].key : p \in DOMAIN t.leaf}
Canonical(t) ==
    /\ t.inner = InnerOf(KeysOf(t))
    /\ DOMAIN t.leaf = LeavesOf(KeysOf(t))
    /\ \A p \in DOMAIN t.leaf : p = Upto(t.leaf[p].key, Len(p))
=============================================================================
