----------------------------- MODULE MCDeadArgs -----------------------------
(***************************************************************************)
(* Two functions that may call themselves and each other, each with one    *)
(* argument and one return value.  In StructSpec f returns a struct of two *)
(* values.                                                                 *)
(***************************************************************************)
EXTENDS DeadArgs

CONSTANTS f, g, a, b, r, s, r2

MCFunctions == {f, g}
MCModule == <<f, g>>
Single == {a, b, r, s}
Struct == Single \cup {r2}
StructOf == [v \in Struct |-> IF v \in {a, r, r2} THEN f ELSE g]
SingleOf == [v \in Single |-> StructOf[v]]
MCArgs == [h \in MCFunctions |-> IF h = f THEN <<a>> ELSE <<b>>]
SingleRets == [h \in MCFunctions |-> IF h = f THEN <<r>> ELSE <<s>>]
StructRets == [h \in MCFunctions |-> IF h = f THEN <<r, r2>> ELSE <<s>>]

UpTo(n, S) == {T \in SUBSET S : Cardinality(T) <= n}

(* an argument goes to the returns of its own function, and anywhere else *)
SomeUses(n) ==
  \E A \in UpTo(n, {a, b, r, Other}), B \in UpTo(1, {a, b, s, Other}),
     R \in UpTo(n, {a, r, s, Other}), S \in UpTo(1, {a, r, s, Other}) :
     uses = [v \in Values |-> CASE v = a -> A [] v = b -> B [] v = r -> R [] v = s -> S]

Linked(F, G) == linkage = [h \in Functions |-> IF h = f THEN F ELSE G]

ModuleInit ==
  /\ \/ Linked("local", "local") \/ Linked("local", "taken") \/ Linked("unread", "external")
     \/ Linked("variadic", "local") \/ Linked("local", "weak")
  /\ returned \in {{}, {a}}
  /\ SomeUses(2)
  /\ Start /\ ~adaptive

(* a program that goes on changing *)
AdaptiveInit ==
  /\ Linked("local", "local")
  /\ returned = {}
  /\ SomeUses(1)
  /\ Start /\ adaptive

MCSpec == (ModuleInit \/ AdaptiveInit) /\ [][Next]_vars

AdaptiveSpec == AdaptiveInit /\ [][Next]_vars

(* f calls itself and returns the second value of that call as its first *)
StructInit ==
  /\ Linked("local", "local")
  /\ returned = {}
  /\ \E R \in UpTo(1, {r2, Other}), T \in UpTo(1, {r, s, Other}), S \in UpTo(1, {a, r}) :
       uses = [v \in Values |-> CASE v = r -> R [] v = r2 -> T [] v = s -> S [] OTHER -> {}]
  /\ Start /\ ~adaptive

StructSpec == StructInit /\ [][Next]_vars
============================================================================
