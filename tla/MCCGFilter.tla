----------------------------- MODULE MCCGFilter -----------------------------
(***************************************************************************)
(* All call graphs of a few functions, with a run of main.  The filter and *)
(* the run do not look at each other, so main is run to its end once the   *)
(* functions are numbered, and the filter is asked after that.             *)
(***************************************************************************)
EXTENDS MainRun

CONSTANTS a, b, c, d

MCFunctions == {a, b, c, d}

Bodies(S, n) == UNION {[1 .. m -> S] : m \in 0 .. n}

(* main calls a, b and c freely; d is called by all and calls no one *)
Small ==
  \E A \in Bodies({a, b, c, Declared}, 2), B \in Bodies({a, b, c}, 2),
     C \in Bodies({a, b, d}, 2) :
     calls = [f \in MCFunctions \cup {External} |->
                CASE f = a -> A [] f = b -> B [] f = c -> C [] OTHER -> <<>>]

(* longer bodies, no function calls back *)
Wide ==
  \E A \in Bodies({b, c, d}, 3), B \in Bodies({c, d, Declared}, 2), C \in Bodies({d}, 1) :
     calls = [f \in MCFunctions \cup {External} |->
                CASE f = a -> A [] f = b -> B [] f = c -> C [] OTHER -> <<>>]

MainInit == root = a /\ (Small \/ Wide) /\ Start /\ RunInit

MainNext == IF pc = "ready" /\ stack # <<>> THEN Execute ELSE Next /\ UNCHANGED runVars

MainSpec == MainInit /\ [][MainNext]_<<vars, runVars>>

(* a library, in which every function may be called from outside *)
NoMainInit ==
  /\ root = External
  /\ \E A \in Bodies({a, b, d}, 2), B \in Bodies({a, d}, 1) :
       calls = [f \in MCFunctions \cup {External} |->
                  CASE f = a -> A [] f = b -> B [] f = External -> <<a, b, c, d>>
                    [] OTHER -> <<>>]
  /\ Start

NoMainSpec ==
  /\ NoMainInit /\ stack = <<>> /\ entered = {} /\ ran = <<>>
  /\ [][Next /\ UNCHANGED runVars]_<<vars, runVars>>

(* which keys the queries have inserted so far makes no difference to them *)
View == <<root, calls, walk, threshold_inst, threshold, pc, runVars>>
============================================================================
