----------------------------- MODULE FixedWidth -----------------------------
(***************************************************************************)
(* The 32 bit integers of LLVM IR, at a smaller width for TLC: a signed    *)
(* type is named by half its range, 2^31 for i32.                          *)
(***************************************************************************)
EXTENDS Integers

CONSTANT Half  \* half the range of i32

ASSUME HalfAssumption == Half \in Nat /\ Half > 1

(* v in a signed type of half range h *)
Wrap(v, h) == ((v + h) % (2 * h)) - h

(* sdiv rounds towards 0 *)
SDiv(a, b) ==
  LET Abs(x) == IF x < 0 THEN -x ELSE x
      q == Abs(a) \div Abs(b)
  IN IF (a < 0) = (b < 0) THEN q ELSE -q
=============================================================================
