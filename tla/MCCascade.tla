----------------------------- MODULE MCCascade -----------------------------
(***************************************************************************)
(* Five instructions, each computed from earlier ones.                     *)
(***************************************************************************)
EXTENDS Cascade

MCInsts == 0 .. 4

(* 0 is no result: the first is a constant *)
Earlier(i) == 0 .. i - 1

Operands(i) ==
  UNION {[1 .. n -> Earlier(i) \cup {Undef}] : n \in IF i = 1 THEN {0} ELSE IF i = 2 THEN {1} ELSE 1 .. 2}

Programs ==
  /\ \E a \in Operands(2), b \in Operands(3), c \in Operands(4) :
       operands = [i \in MCInsts |-> CASE i = 2 -> a [] i = 3 -> b [] i = 4 -> c
                                       [] OTHER -> <<>>]
  /\ pure \in SUBSET {1, 2, 3}
  /\ CascadeStart

LinkInit == Programs /\ SingleLink

LinkSpec == LinkInit /\ [][CascadeNext]_cascadeVars

AnySpec == Programs /\ [][CascadeNext]_cascadeVars
============================================================================
