------------------------------ MODULE MCEGraph ------------------------------
(* Terms over two bits: x is opaque, xor is free, and the analysis is the    *)
(* constant folding of the repository's tests.                              *)
EXTENDS Extraction

Arities == [o \in Ops |-> IF o = "xor" THEN 2 ELSE 0]
Bits == {0, 1}
Xor(a, b) == IF a = b THEN 0 ELSE 1
BitOf(o, vs) == CASE o = "xor" -> Xor(vs[1], vs[2]) [] o = "one" -> 1 [] OTHER -> 0

(* kc_make, kc_join and kc_modify of burgc/tests/egraph_test.cpp.             *)
Unknown == 2
Known == Bits \cup {Unknown}
KnownMake(o, fs) ==
    CASE o = "zero" -> 0
      [] o = "one" -> 1
      [] o = "xor" /\ fs[1] # Unknown /\ fs[2] # Unknown -> Xor(fs[1], fs[2])
      [] OTHER -> Unknown
KnownJoin(f, g) == IF f # Unknown THEN f ELSE g
KnownConst(f) == CASE f = 0 -> {"zero"} [] f = 1 -> {"one"} [] OTHER -> {}
KnownHolds(f, v) == f = Unknown \/ f = v

Costs == [o \in Ops |-> CASE o = "xor" -> 0 [] o = "x" -> 2 [] OTHER -> 1]
=============================================================================
