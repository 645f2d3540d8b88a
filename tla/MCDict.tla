------------------------------- MODULE MCDict -------------------------------
(* Dict on three keys and hashes of three binary nibbles: every way three  *)
(* keys can share, part from and collide with one another, up to the names *)
(* of the keys and of a nibble's two values.                               *)
EXTENDS Dict, TLC
CONSTANTS k1, k2, k3
Number(h) == 4 * h[1] + 2 * h[2] + h[3]
MCHashes ==
    {f \in [Keys -> HKeys] : /\ Number(f[k1]) = 0
                             /\ Number(f[k2]) \in {0, 1, 2, 4}
                             /\ Number(f[k2]) <= Number(f[k3])}
ValsAlike == Permutations(Vals)
=============================================================================
