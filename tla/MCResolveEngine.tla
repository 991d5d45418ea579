-------------------------- MODULE MCResolveEngine --------------------------
(***************************************************************************)
(* Every def-use graph on three uses, given to the engine as the table of  *)
(* one solve rule; with a second rule tried before it, which stops (the    *)
(* iuse rule under InitRule) or does not (icast, gep and useonly rules).   *)
(***************************************************************************)
EXTENDS ResolveEngine

CONSTANTS u1, u2, u3

MCUses == {u1, u2, u3}

(* what a rule may add for one use *)
Lists == {<<>>, <<u1>>, <<u2>>, <<u3>>, <<u2, u1>>, <<u1, u3>>, <<u2, u3>>}

Tables == [MCUses -> Lists]

Base(t, b) ==
  [adds |-> t, stop |-> [u \in MCUses |-> TRUE], batch |-> b, once |-> FALSE]

InitOnly(l) ==
  [adds |-> [u \in MCUses |-> IF u = u1 THEN l ELSE <<u2>>],
   stop |-> [u \in MCUses |-> TRUE], batch |-> FALSE, once |-> TRUE]

(* a rule that returns true when it added something *)
Partial(S) ==
  [adds |-> [u \in MCUses |-> IF u \in S THEN <<u3>> ELSE <<>>],
   stop |-> [u \in MCUses |-> u \in S], batch |-> FALSE, once |-> FALSE]

(* a rule that always lets the next one run *)
Also(S) ==
  [adds |-> [u \in MCUses |-> IF u \in S THEN <<u2>> ELSE <<>>],
   stop |-> [u \in MCUses |-> FALSE], batch |-> FALSE, once |-> FALSE]

(* what is looked for *)
Goals == {[callback |-> "visit", visits |-> {u2, u3}, stores |-> {}],
          [callback |-> "visit", visits |-> {u3}, stores |-> {u2}],
          [callback |-> "store", visits |-> {u2}, stores |-> {u3}],
          [callback |-> "ref",   visits |-> {u3}, stores |-> {u2}]}

Ask(root, implicit, rules, refused, goal, max) ==
  [root |-> root, implicit |-> implicit, rules |-> rules, refused |-> refused,
   visits |-> goal.visits, stores |-> goal.stores, callback |-> goal.callback,
   max_iteration |-> max]

(* stands for UINT32_MAX, the limit where none is given *)
Far == 30

OneRule ==
  \E t \in Tables, b \in BOOLEAN, f \in {{}, {u2}}, g \in Goals :
     query = Ask(u1, <<>>, <<Base(t, b)>>, f, g, Far)

WithInitRule ==
  \E t \in Tables, l \in {<<>>, <<u2>>, <<u1, u2>>, <<u3, u2>>}, f \in {{}, {u1}},
     g \in Goals :
     query = Ask(u1, <<>>, <<Base(t, FALSE), InitOnly(l)>>, f, g, Far)

TwoRules ==
  \E t \in Tables, g \in Goals,
     r \in {Partial(S) : S \in SUBSET {u1, u2}} \cup {Also({u1, u3})} :
     query = Ask(u1, <<>>, <<Base(t, TRUE), r>>, {}, g, Far)

ValueQuery ==
  \E t \in Tables, l \in {<<>>, <<u1>>, <<u1, u2>>}, m \in {1, Far}, g \in Goals :
     query = Ask(ValueNode, l, <<Base(t, FALSE)>>, {}, g, m)

(* resolve() with the default callback, which never refuses *)
Dump ==
  \E t \in Tables :
     query = Ask(u1, <<>>, <<Base(t, TRUE)>>, {u2},
                 [callback |-> "never", visits |-> {u3}, stores |-> {}], Far)

MCInit == (OneRule \/ WithInitRule \/ TwoRules \/ ValueQuery \/ Dump) /\ Start

MCSpec == MCInit /\ [][Next]_vars /\ WF_vars(Next)

(***************************************************************************)
(* The search ends, although the def-use graph has cycles (a phi in a      *)
(* loop) and a use may be on the work list several times: it drains the    *)
(* list, and only a limit the caller gave may stop it before.  The limit   *)
(* of 2^32 - 1 iterations would end any search; it is not why one ends.    *)
(***************************************************************************)
Terminates ==
  <>IF query.max_iteration = Far THEN pc = "done" /\ ~Exceeded(iteration)
                                 ELSE pc = "done"

============================================================================
