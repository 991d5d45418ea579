---------------------------- MODULE MCTripCount ----------------------------
(***************************************************************************)
(* Every start, end and step of a 4 bit type for every form of the exit,   *)
(* and every form analysis() tells apart for a few of the numbers.         *)
(***************************************************************************)
EXTENDS TripCount

MCHalf == 8

Plain(p, t, a, s, e) ==
  [variable |-> "phi", tested |-> t, predicate |-> p, leaves |-> p # "SLT",
   exits |-> "one", simple |-> TRUE, invariant |-> TRUE, constant |-> TRUE,
   before |-> 1, adds |-> 1, others |-> {}, skips |-> FALSE,
   start |-> a, steps |-> <<s>>, end |-> e,
   half |-> MCHalf, compared |-> MCHalf, unsigned |-> FALSE]

Predicates == {"SGT", "EQ", "SLT", "switch"}

(* the arithmetic *)
Numbers ==
  {Plain(p, t, a, s, e) : p \in {"SGT", "EQ", "SLT"}, t \in {"old", "new"},
                          a \in -8 .. 7, s \in {-3, -2, -1, 1, 2, 3}, e \in -8 .. 7}

(* the types: 3, 4 and 5 bits, where the count has 4 *)
Types ==
  {[[Plain(p, "old", a, s, e) EXCEPT !.half = h] EXCEPT !.compared = c, !.unsigned = u] :
      p \in {"SGT", "EQ", "SLT"}, a \in {-2, 0, 1, 3}, s \in {-1, 1, 2}, e \in {-1, 0, 2, 3},
      h \in {4, 16}, c \in {4, 8, 16}, u \in BOOLEAN}

(* the forms *)
Forms ==
  UNION {LET l == Plain(p, t, 0, s, 4) IN
         {[l EXCEPT !.exits = x] : x \in {"latch", "abort", "many"}}
         \cup {[l EXCEPT !.leaves = ~@], [l EXCEPT !.simple = FALSE],
               [l EXCEPT !.invariant = FALSE], [l EXCEPT !.constant = FALSE],
               [l EXCEPT !.predicate = "other"]}
         \cup {[l EXCEPT !.variable = "memory", !.before = b, !.adds = n] :
                 b \in {0, 1, 2}, n \in {0, 1, 2}}
         \cup {[l EXCEPT !.variable = "memory", !.others = {2}],
               [l EXCEPT !.variable = "memory", !.skips = TRUE]}
         \cup {[l EXCEPT !.steps = q] : q \in {<<s, s>>, <<s, s, s>>, <<1, 2, 1>>}}
         : p \in Predicates, t \in {"old", "new"}, s \in {1, 2}}

(* a phi that merges two paths which step by different constants *)
Merged == {[Plain("SLT", "old", 0, 1, 4) EXCEPT !.steps = <<1, 2>>]}

MCLoops == Numbers \cup Types \cup Forms \cup Merged

============================================================================
