---------------------------- MODULE GraphSearch ----------------------------
(***************************************************************************)
(* What a caller of ResolveEngine::resolve relies on, whatever order the   *)
(* engine takes its work in and however it keeps its graph: a search that  *)
(* starts from some uses, follows links, never enters what a filter        *)
(* refuses, may answer with any wanted use it comes to, and answers with   *)
(* nothing only when there is nowhere left to go.                          *)
(***************************************************************************)
CONSTANTS
  Uses,     \* the uses of the program
  None      \* no answer

VARIABLES
  problem,  \* what is searched
  seen,     \* the uses entered so far
  found,    \* the answer so far
  status    \* "running", then "done", or "gave_up" at the limit

vars == <<problem, seen, found, status>>

(* many: the search goes on after the first answer (findStore) *)
Problem ==
  [seeds : SUBSET Uses, links : [Uses -> SUBSET Uses], first : Uses \cup {None},
   refused : SUBSET Uses, wanted : SUBSET Uses, many : BOOLEAN]

Init ==
  /\ problem \in Problem
  /\ seen = {}
  /\ found = None
  /\ status = "running"

(* the uses the search has come to *)
Linked == problem.seeds \cup UNION {problem.links[v] : v \in seen}

Explore(u) ==
  /\ status = "running"
  /\ u \in Linked \ (problem.refused \cup problem.wanted)
  /\ found = None \/ problem.many
  /\ seen' = seen \cup {u}
  /\ UNCHANGED <<problem, found, status>>

Answer(u) ==
  /\ status = "running"
  /\ u \in (Linked \cap problem.wanted) \ problem.refused
  /\ found' = u
  /\ UNCHANGED <<problem, seen, status>>

(* the use the search began with need not be entered again *)
Exhausted == Linked \subseteq seen \cup problem.refused \cup {problem.first}

Finish ==
  /\ status = "running"
  /\ found # None \/ Exhausted
  /\ status' = "done"
  /\ UNCHANGED <<problem, seen, found>>

Abandon ==
  /\ status = "running"
  /\ status' = "gave_up"
  /\ UNCHANGED <<problem, seen, found>>

Next == (\E u \in Uses : Explore(u) \/ Answer(u)) \/ Finish \/ Abandon

Spec == Init /\ [][Next]_vars
============================================================================
