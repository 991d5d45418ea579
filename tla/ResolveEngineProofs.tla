------------------------ MODULE ResolveEngineProofs ------------------------
(***************************************************************************)
(* Proofs about ResolveEngine, for every program, every set of rules and   *)
(* every query: type correctness, and that a search that ends with nothing *)
(* found missed nothing, and that what it finds is there.                  *)
(***************************************************************************)
EXTENDS ResolveEngine, SequenceTheorems, TLAPS

(***************************************************************************)
(* Taking the head of the work list, and appending to it, change its set   *)
(* of elements by that one element (DataDepGraph::popUnsolved, addSolved). *)
(***************************************************************************)
LEMMA PopElements ==
  ASSUME NEW s \in Seq(Uses), s # <<>>
  PROVE  /\ Head(s) \in Uses
         /\ Tail(s) \in Seq(Uses)
         /\ Range(Tail(s)) \subseteq Range(s)
         /\ Range(s) \subseteq Range(Tail(s)) \cup {Head(s)}
<1>1. Len(s) \in Nat /\ Len(s) > 0 /\ Head(s) = s[1] /\ DOMAIN s = 1 .. Len(s)
  OBVIOUS
<1>2. /\ Tail(s) \in Seq(Uses) /\ DOMAIN Tail(s) = 1 .. (Len(s) - 1)
      /\ \A i \in 1 .. (Len(s) - 1) : Tail(s)[i] = s[i + 1]
  BY <1>1
<1>3. Head(s) \in Uses
  BY <1>1
<1>4. Range(Tail(s)) \subseteq Range(s)
  BY <1>1, <1>2 DEF Range
<1>5. Range(s) \subseteq Range(Tail(s)) \cup {Head(s)}
  <2>1. SUFFICES ASSUME NEW i \in 1 .. Len(s), i # 1
                 PROVE  s[i] \in Range(Tail(s))
    BY <1>1 DEF Range
  <2>2. i - 1 \in 1 .. (Len(s) - 1) /\ (i - 1) + 1 = i
    BY <1>1, <2>1
  <2>3. Tail(s)[i - 1] = s[i]
    BY <1>2, <2>2
  <2>4. QED BY <1>2, <2>2, <2>3 DEF Range
<1>6. QED BY <1>2, <1>3, <1>4, <1>5

LEMMA PushElements ==
  ASSUME NEW s \in Seq(Uses), NEW c \in Uses
  PROVE  /\ Append(s, c) \in Seq(Uses)
         /\ Range(Append(s, c)) = Range(s) \cup {c}
<1>1. /\ Append(s, c) \in Seq(Uses) /\ Len(s) \in Nat /\ DOMAIN s = 1 .. Len(s)
      /\ DOMAIN Append(s, c) = 1 .. (Len(s) + 1)
      /\ \A i \in 1 .. Len(s) : Append(s, c)[i] = s[i]
      /\ Append(s, c)[Len(s) + 1] = c
  OBVIOUS
<1>2. ASSUME NEW i \in 1 .. (Len(s) + 1)
      PROVE  i \in 1 .. Len(s) \/ i = Len(s) + 1
  BY <1>1
<1>3. QED BY <1>1, <1>2 DEF Range

----------------------------------------------------------------------------
(***************************************************************************)
(* Type correctness.                                                       *)
(***************************************************************************)
LEMMA RuleTypes ==
  ASSUME query \in Query
  PROVE  /\ query.rules \in Seq(Rule) /\ Len(query.rules) \in Nat
         /\ query.implicit \in Seq(Uses)
         /\ query.root \in Nodes
         /\ query.refused \in SUBSET Uses
         /\ query.visits \in SUBSET Uses
         /\ query.stores \in SUBSET Uses
         /\ query.max_iteration \in Nat
         /\ query.callback \in {"never", "visit", "store", "ref"}
         /\ \A i \in 1 .. Len(query.rules) :
              /\ query.rules[i] \in Rule
              /\ query.rules[i].adds \in [Uses -> Seq(Uses)]
              /\ query.rules[i].stop \in [Uses -> BOOLEAN]
              /\ query.rules[i].once \in BOOLEAN
              /\ query.rules[i].batch \in BOOLEAN
<1>1. /\ query.rules \in Seq(Rule) /\ Len(query.rules) \in Nat
      /\ query.implicit \in Seq(Uses)
      /\ query.root \in Nodes
      /\ query.refused \in SUBSET Uses
      /\ query.visits \in SUBSET Uses
      /\ query.stores \in SUBSET Uses
      /\ query.max_iteration \in Nat
      /\ query.callback \in {"never", "visit", "store", "ref"}
  BY DEF Query
<1>2. \A i \in 1 .. Len(query.rules) : query.rules[i] \in Rule
  BY <1>1
<1>3. QED BY <1>1, <1>2 DEF Rule

TypeInv == TypeOK /\ NoNullUse

LEMMA InitTypeInv == Init => TypeInv
<1>1. SUFFICES ASSUME Init PROVE TypeInv
  OBVIOUS
<1>2. Len(query.rules) \in Nat
  BY <1>1, RuleTypes DEF Init
<1>3. unsolved \in Seq(Uses)
  BY <1>1, RuleTypes DEF Init, Start
<1>4. TypeOK
  BY <1>1, <1>2, <1>3 DEF Init, Start, TypeOK, FlagType
<1>5. NoNullUse
  BY <1>1 DEF Init, Start, NoNullUse
<1>6. QED BY <1>4, <1>5 DEF TypeInv

LEMMA NextTypeInv == TypeInv /\ [Next]_vars => TypeInv'
<1>1. SUFFICES ASSUME TypeInv, [Next]_vars PROVE TypeInv'
  OBVIOUS
<1>2. query' = query
  BY <1>1 DEF Next, vars, SolveRootUse, SolveRootValue, Filtered, Stopped,
       Accepted, GiveUp, SkipRule, AddSolved, EndRule, EndRules, Drained
<1>3. TypeOK /\ query \in Query /\ query' \in Query
  BY <1>1, <1>2 DEF TypeInv, TypeOK
<1>4. /\ query.rules \in Seq(Rule) /\ Len(query.rules) \in Nat
      /\ query.implicit \in Seq(Uses)
  BY <1>3, RuleTypes
<1>5. NoNullUse'
  <2>1. ASSUME SolveRootUse PROVE Head(unsolved) = query.root
    BY <1>3, <1>1, <2>1 DEF TypeInv, NoNullUse, SolveRootUse
  <2>2. QED BY <1>1, <1>2, <2>1, NodesAssumption
     DEF TypeInv, NoNullUse, Next, vars, SolveRootUse, SolveRootValue,
       StartRules, Filtered, Stopped, Accepted, GiveUp, Pop, SkipRule,
       AddSolved, EndRule, EndRules, Drained
<1>6. CASE SolveRootUse
  <2>1. unsolved \in Seq(Uses) /\ unsolved # <<>>
    BY <1>1, <1>3, <1>6 DEF TypeInv, TypeOK, NoNullUse, SolveRootUse
  <2>2. Head(unsolved) \in Uses /\ Tail(unsolved) \in Seq(Uses)
    BY <2>1, PopElements
  <2>3. TypeOK'
    BY <1>3, <1>4, <1>6, <2>2 DEF TypeOK, SolveRootUse, StartRules
  <2>4. QED BY <1>5, <2>3 DEF TypeInv
<1>7. CASE SolveRootValue
  <2>1. flags' \in [Nodes -> FlagType]
    BY <1>3, <1>7 DEF TypeOK, SolveRootValue, Mark, FlagType
  <2>2. childs' \in [Nodes -> Seq(Uses)]
    BY <1>3, <1>4, <1>7 DEF TypeOK, SolveRootValue
  <2>3. TypeOK'
    BY <1>3, <1>4, <1>7, <2>1, <2>2 DEF TypeOK, SolveRootValue
  <2>4. QED BY <1>5, <2>3 DEF TypeInv
<1>8. ASSUME NEW u \in Uses, Filtered(u) \/ Stopped(u) \/ Accepted(u) \/ GiveUp(u)
      PROVE  TypeInv'
  <2>1. Pop(u)
    BY <1>8 DEF Filtered, Stopped, Accepted, GiveUp
  <2>2. unsolved' \in Seq(Uses) /\ iteration' \in Nat
    BY <1>3, <2>1, PopElements DEF TypeOK, Pop
  <2>3. Found(u) \in Uses \cup {None}
    BY <1>3 DEF TypeOK, Found
  <2>4. flags' \in [Nodes -> FlagType]
    BY <1>3, <1>8 DEF TypeOK, Filtered, Stopped, Accepted, GiveUp, Mark, FlagType
  <2>5. CASE Filtered(u)
    BY <1>3, <1>5, <2>2, <2>4, <2>5 DEF TypeInv, TypeOK, Filtered
  <2>6. CASE Stopped(u)
    BY <1>3, <1>5, <2>2, <2>3, <2>4, <2>6 DEF TypeInv, TypeOK, Stopped
  <2>7. CASE Accepted(u)
    BY <1>3, <1>5, <1>4, <2>2, <2>3, <2>4, <2>7 DEF TypeInv, TypeOK, Accepted, StartRules
  <2>8. CASE GiveUp(u)
    BY <1>3, <1>5, <2>2, <2>4, <2>8 DEF TypeInv, TypeOK, GiveUp
  <2>9. QED BY <1>8, <2>5, <2>6, <2>7, <2>8
<1>9. CASE SkipRule
  <2>1. rule' \in 0 .. Len(query.rules)
    BY <1>3, <1>4, <1>9 DEF TypeOK, SkipRule
  <2>2. TypeOK'
    BY <1>3, <1>9, <2>1 DEF TypeOK, SkipRule, graph
  <2>3. QED BY <1>5, <2>2 DEF TypeInv
<1>10. CASE AddSolved
  <2>1. cur \in Uses /\ query.rules[rule].adds \in [Uses -> Seq(Uses)]
    <3>1. pc = "rules" /\ rule > 0
      BY <1>10 DEF AddSolved, Runs
    <3>2. cur \in Uses /\ rule \in 1 .. Len(query.rules)
      BY <1>1, <1>3, <1>4, <3>1 DEF TypeInv, TypeOK, NoNullUse
    <3>3. QED BY <1>3, <3>2, RuleTypes DEF TypeOK
  <2>2. query.rules[rule].adds[cur] \in Seq(Uses)
    BY <2>1
  <2>3. query.rules[rule].adds[cur][kid + 1] \in Uses
    BY <1>3, <1>10, <2>2 DEF TypeOK, AddSolved, Current
  <2>4. unsolved' \in Seq(Uses)
    BY <1>3, <1>10, <2>3, PushElements DEF TypeOK, AddSolved, Current, Push
  <2>5. flags' \in [Nodes -> FlagType]
    BY <1>3, <1>10 DEF TypeOK, AddSolved, Mark, FlagType
  <2>6. childs' \in [Nodes -> Seq(Uses)]
    BY <1>3, <1>10, <2>3, PushElements DEF TypeOK, AddSolved, Link, Current
  <2>7. TypeOK'
    BY <1>3, <1>10, <2>4, <2>5, <2>6 DEF TypeOK, AddSolved
  <2>8. QED BY <1>5, <2>7 DEF TypeInv
<1>11. CASE EndRule
  <2>1. rule' \in 0 .. Len(query.rules)
    BY <1>3, <1>4, <1>11 DEF TypeOK, EndRule, Runs
  <2>2. flags' \in [Nodes -> FlagType]
    BY <1>3, <1>11 DEF TypeOK, EndRule, Mark, FlagType
  <2>3. ran' \in [1 .. Len(query.rules) -> BOOLEAN]
    BY <1>3, <1>11 DEF TypeOK, EndRule
  <2>4. TypeOK'
    BY <1>3, <1>11, <2>1, <2>2, <2>3 DEF TypeOK, EndRule
  <2>5. QED BY <1>5, <2>4 DEF TypeInv
<1>12. CASE EndRules
  BY <1>3, <1>5, <1>12 DEF TypeInv, TypeOK, EndRules, graph
<1>13. CASE Drained
  BY <1>3, <1>5, <1>13 DEF TypeInv, TypeOK, Drained, graph
<1>14. CASE UNCHANGED vars
  BY <1>3, <1>5, <1>14 DEF TypeInv, TypeOK, vars
<1>15. QED
  BY <1>1, <1>6, <1>7, <1>8, <1>9, <1>10, <1>11, <1>12, <1>13, <1>14 DEF Next

(***************************************************************************)
(* The variables of the engine keep their types: in particular the work    *)
(* list holds uses only, and do_solve never takes from an empty list.      *)
(***************************************************************************)
THEOREM TypeCorrect == Spec => []TypeOK
<1>1. TypeInv => TypeOK
  BY DEF TypeInv
<1>2. QED BY InitTypeInv, NextTypeInv, <1>1, PTL DEF Spec

----------------------------------------------------------------------------
(***************************************************************************)
(* The query never changes, so neither do the paths of the search.         *)
(***************************************************************************)
LEMMA QueryStays == [Next]_vars => query' = query
  BY DEF Next, vars, SolveRootUse, SolveRootValue, Filtered, Stopped,
     Accepted, GiveUp, SkipRule, AddSolved, EndRule, EndRules, Drained

LEMMA PathsStay ==
  ASSUME query' = query
  PROVE  /\ Seeds' = Seeds
         /\ TriedFirst' = TriedFirst
         /\ Wanted' = Wanted
         /\ \A v : Tried(v)' = Tried(v)
         /\ \A v : Expand(v)' = Expand(v)
         /\ \A v, cut : Reachable(v, cut)' = Reachable(v, cut)
<1>1. Wanted' = Wanted
  BY DEF Wanted
<1>2. \A v : Tried(v)' = Tried(v)
  BY DEF Tried
<1>3. \A v : Expand(v)' = Expand(v)
  BY <1>2 DEF Expand
<1>4. TriedFirst' = TriedFirst
  BY DEF TriedFirst, Tried
<1>5. Seeds' = Seeds
  BY <1>4 DEF Seeds
<1>6. \A S, cut : ClosedUnder(S, cut)' = ClosedUnder(S, cut)
  BY <1>3, <1>5 DEF ClosedUnder
<1>7. \A v, cut : Reachable(v, cut)' = Reachable(v, cut)
  BY <1>6 DEF Reachable
<1>8. QED BY <1>1, <1>2, <1>3, <1>4, <1>5, <1>7

(* a use the callback looks for is refused by it, once and for all *)
LEMMA WantedIsRefused ==
  ASSUME TypeOK, NEW u \in Uses
  PROVE  /\ Found(u) \in Uses \cup {None}
         /\ Refuses(u) => Found(u) # None
         /\ ~Refuses(u) => u \notin Wanted /\ Found(u) = ret
         /\ Found(u) = None => ret = None
         /\ Found(u) # ret => Found(u) = u /\ u \in Wanted
  BY NodesAssumption, RuleTypes DEF TypeOK, Found, Refuses, Wanted, Nodes

LEMMA ControlKept ==
  ASSUME TypeInv, WellFormed(query), Control, [Next]_vars
  PROVE  Control'
<1>1. TypeOK /\ query' = query /\ Wanted' = Wanted
  BY QueryStays, PathsStay DEF TypeInv
<1>2. CASE SolveRootUse
  <2>1. Head(unsolved) = query.root
    BY <1>2 DEF TypeInv, NoNullUse, SolveRootUse
  <2>2. QED BY <1>1, <1>2, <2>1 DEF Control, First, SolveRootUse, StartRules
<1>3. CASE SolveRootValue
  BY <1>1, <1>3, NodesAssumption DEF Control, First, SolveRootValue, Mark, TypeOK
<1>4. ASSUME NEW u \in Uses, Filtered(u) PROVE Control'
  BY <1>1, <1>4, NodesAssumption
     DEF Control, First, Filtered, Pop, Mark, TypeOK, Nodes
<1>5. ASSUME NEW u \in Uses, Stopped(u) PROVE Control'
  BY <1>1, <1>5, NodesAssumption, WantedIsRefused
     DEF Control, First, Stopped, Pop, Mark, TypeOK, Nodes
<1>6. ASSUME NEW u \in Uses, Accepted(u) PROVE Control'
  BY <1>1, <1>6, NodesAssumption, WantedIsRefused
     DEF Control, First, Accepted, Pop, StartRules, TypeOK
<1>7. ASSUME NEW u \in Uses, GiveUp(u) PROVE Control'
  BY <1>1, <1>7 DEF Control, First, GiveUp, Pop, Exceeded
<1>8. CASE SkipRule
  BY <1>1, <1>8 DEF Control, First, SkipRule, graph, Exceeded
<1>9. CASE AddSolved
  BY <1>1, <1>9 DEF TypeInv, NoNullUse, Control, First, AddSolved, Mark, TypeOK, Nodes
<1>10. CASE EndRule
  BY <1>1, <1>10 DEF TypeInv, NoNullUse, Control, First, EndRule, Mark, TypeOK, Nodes
<1>11. CASE EndRules
  BY <1>1, <1>11 DEF Control, First, EndRules, graph
<1>12. CASE Drained
  BY <1>1, <1>12 DEF Control, First, Drained, graph
<1>13. CASE UNCHANGED vars
  BY <1>1, <1>13 DEF Control, First, vars, Exceeded
<1>14. QED
  BY <1>2, <1>3, <1>4, <1>5, <1>6, <1>7, <1>8, <1>9, <1>10, <1>11, <1>12, <1>13
     DEF Next

(***************************************************************************)
(* The InitRule.  It is the first rule tried, and the query is the first   *)
(* use solved, so it runs there, and it runs for no use after that         *)
(* (InitRule::operator()).                                                 *)
(***************************************************************************)
LEMMA InitRuleIsLast ==
  ASSUME TypeOK, WellFormed(query), NEW i \in 1 .. Len(query.rules),
         query.rules[i].once
  PROVE  /\ i = Len(query.rules)
         /\ query.root \in Uses /\ query.root # ValueNode
  BY NodesAssumption, RuleTypes DEF TypeOK, WellFormed

LEMMA InitRuleRunsKept ==
  ASSUME TypeInv, WellFormed(query), Control, InitRuleRuns, [Next]_vars
  PROVE  InitRuleRuns'
<1>1. TypeOK /\ query' = query /\ Len(query.rules) \in Nat
  BY QueryStays, RuleTypes DEF TypeInv, TypeOK
<1>2. SUFFICES ASSUME NEW i \in 1 .. Len(query.rules), query.rules[i].once
               PROVE  /\ pc' \in {"pop", "done"} \/ (pc' = "rules" /\ ~First') => ran'[i]
                      /\ First' => (ran'[i] <=> rule' < i)
  BY <1>1 DEF InitRuleRuns
<1>3. i = Len(query.rules) /\ query.root \in Uses /\ query.root # ValueNode
  BY <1>1, <1>2, InitRuleIsLast
<1>4. /\ pc \in {"pop", "done"} \/ (pc = "rules" /\ ~First) => ran[i]
      /\ First => (ran[i] <=> rule < i)
  BY <1>2 DEF InitRuleRuns
<1>5. CASE SolveRootUse
  BY <1>1, <1>3, <1>5 DEF Control, First, SolveRootUse, StartRules
<1>6. CASE SolveRootValue
  BY <1>3, <1>6 DEF SolveRootValue
<1>7. ASSUME NEW u \in Uses, Filtered(u) \/ Stopped(u) \/ Accepted(u) \/ GiveUp(u)
      PROVE  ran'[i] /\ ~First'
  BY <1>4, <1>7 DEF Filtered, Stopped, Accepted, GiveUp, Pop, StartRules, First
<1>8. CASE SkipRule
  <2>1. ran' = ran /\ pc' = pc /\ First' = First /\ rule' = rule - 1
    BY <1>8 DEF SkipRule, First
  <2>2. rule \in Nat /\ rule <= i /\ i \in Nat
    BY <1>1, <1>3 DEF TypeOK
  <2>3. First /\ rule = i => ran[i]
    BY <1>2, <1>8 DEF SkipRule, Runs, Current
  <2>4. QED BY <1>4, <2>1, <2>2, <2>3
<1>9. CASE AddSolved
  BY <1>4, <1>9 DEF AddSolved, First
<1>10. CASE EndRule
  <2>1. rule \in 1 .. Len(query.rules) /\ rule' < rule /\ rule' \in Nat
    BY <1>1, <1>10 DEF TypeOK, EndRule, Runs
  <2>2. ran' = [ran EXCEPT ![rule] = TRUE] /\ pc' = pc /\ First' = First
    BY <1>10 DEF EndRule, First
  <2>3. ran \in [1 .. Len(query.rules) -> BOOLEAN]
    BY <1>1 DEF TypeOK
  <2>4. CASE rule = i
    BY <1>2, <2>1, <2>2, <2>3, <2>4
  <2>5. CASE rule # i
    <3>1. ran'[i] = ran[i]
      BY <1>2, <2>2, <2>3, <2>5
    <3>2. rule < i /\ rule' < i
      BY <1>1, <1>3, <2>1, <2>5
    <3>3. QED BY <1>4, <2>2, <3>1, <3>2
  <2>6. QED BY <2>4, <2>5
<1>11. CASE EndRules
  <2>1. First => ran[i]
    BY <1>1, <1>2, <1>4, <1>11 DEF EndRules
  <2>2. QED BY <1>4, <1>11, <2>1 DEF EndRules, First, graph
<1>12. CASE Drained
  BY <1>4, <1>12 DEF Drained, First, graph
<1>13. CASE UNCHANGED vars
  BY <1>4, <1>13 DEF First, vars
<1>14. QED
  BY <1>5, <1>6, <1>7, <1>8, <1>9, <1>10, <1>11, <1>12, <1>13 DEF Next

LEMMA RuleIsTriedKept ==
  ASSUME TypeInv, WellFormed(query), Control, InitRuleRuns, RuleIsTried, [Next]_vars
  PROVE  RuleIsTried'
<1>1. TypeOK /\ query' = query /\ Len(query.rules) \in Nat
  BY QueryStays, RuleTypes DEF TypeInv, TypeOK
<1>2. CASE SolveRootUse
  BY <1>1, <1>2 DEF RuleIsTried, SolveRootUse, StartRules
<1>3. CASE SolveRootValue
  BY <1>3 DEF RuleIsTried, SolveRootValue
<1>4. ASSUME NEW u \in Uses, Filtered(u) \/ Stopped(u) \/ Accepted(u) \/ GiveUp(u)
      PROVE  RuleIsTried'
  BY <1>1, <1>4 DEF RuleIsTried, Filtered, Stopped, Accepted, GiveUp, Pop, StartRules
<1>5. CASE SkipRule
  <2>1. rule \in 1 .. Len(query.rules) /\ rule' = rule - 1
    BY <1>1, <1>5 DEF SkipRule, TypeOK
  <2>2. query.rules[rule].once /\ ran[rule]
    BY <1>5 DEF SkipRule, Runs, Current
  <2>3. ~First
    BY <1>1, <2>1, <2>2 DEF InitRuleRuns, First
  <2>4. pc' = pc /\ cur' = cur /\ First' = First
    BY <1>5 DEF SkipRule, First
  <2>5. ASSUME pc' = "rules", NEW j \in 1 .. Len(query.rules), j > rule', rule' > 0
        PROVE  /\ ~query.rules[j].once => ~query.rules[j].stop[cur]
               /\ query.rules[j].once /\ First => ~query.rules[j].stop[cur]
    <3>1. j = rule \/ j > rule
      BY <1>1, <2>1, <2>5
    <3>2. CASE j = rule
      BY <2>2, <2>3, <3>2
    <3>3. CASE j > rule
      BY <2>1, <2>4, <2>5, <3>3 DEF RuleIsTried
    <3>4. QED BY <3>1, <3>2, <3>3
  <2>6. QED BY <1>1, <2>4, <2>5 DEF RuleIsTried
<1>6. CASE AddSolved
  BY <1>1, <1>6 DEF RuleIsTried, AddSolved, First
<1>7. CASE EndRule
  <2>1. /\ rule \in 1 .. Len(query.rules)
        /\ rule' = IF query.rules[rule].stop[cur] THEN 0 ELSE rule - 1
    BY <1>1, <1>7 DEF EndRule, TypeOK, Runs, Current
  <2>2. pc' = pc /\ cur' = cur /\ First' = First
    BY <1>7 DEF EndRule, First
  <2>3. ASSUME pc' = "rules", NEW j \in 1 .. Len(query.rules), j > rule', rule' > 0
        PROVE  /\ ~query.rules[j].once => ~query.rules[j].stop[cur]
               /\ query.rules[j].once /\ First => ~query.rules[j].stop[cur]
    <3>1. ~query.rules[rule].stop[cur] /\ rule' = rule - 1
      BY <2>1, <2>3
    <3>2. j = rule \/ j > rule
      BY <1>1, <2>1, <2>3, <3>1
    <3>3. QED BY <2>1, <2>2, <2>3, <3>1, <3>2 DEF RuleIsTried
  <2>4. QED BY <1>1, <2>2, <2>3 DEF RuleIsTried
<1>8. CASE EndRules
  BY <1>8 DEF RuleIsTried, EndRules
<1>9. CASE Drained
  BY <1>9 DEF RuleIsTried, Drained
<1>10. CASE UNCHANGED vars
  BY <1>10 DEF RuleIsTried, First, vars
<1>11. QED
  BY <1>2, <1>3, <1>4, <1>5, <1>6, <1>7, <1>8, <1>9, <1>10 DEF Next

LEMMA RuleStartsKept ==
  ASSUME TypeInv, RuleStarts, [Next]_vars
  PROVE  RuleStarts'
<1>1. query' = query
  BY QueryStays
<1>2. QED
  BY <1>1 DEF RuleStarts, Runs, Current, Next, vars, graph, SolveRootUse,
     SolveRootValue, Filtered, Stopped, Accepted, GiveUp, Pop, StartRules,
     SkipRule, AddSolved, EndRule, EndRules, Drained

----------------------------------------------------------------------------
(***************************************************************************)
(* Completeness.  Every use a rule gives is pushed unless its flag says it *)
(* was solved or ignored before, so it stays among the covered ones.       *)
(***************************************************************************)
LEMMA TriedAreRules ==
  ASSUME TypeOK
  PROVE  /\ \A v : Tried(v) \subseteq 1 .. Len(query.rules)
         /\ TriedFirst \subseteq 1 .. Len(query.rules)
         /\ TriedNow \subseteq 1 .. Len(query.rules)
<1>1. \A v : Tried(v) \subseteq 1 .. Len(query.rules)
  BY DEF Tried
<1>2. Len(query.rules) \in Nat
  BY RuleTypes DEF TypeOK
<1>3. Len(query.rules) > 0 => Len(query.rules) \in 1 .. Len(query.rules)
  BY <1>2
<1>4. TriedFirst \subseteq 1 .. Len(query.rules)
  BY <1>1, <1>3 DEF TriedFirst
<1>5. QED BY <1>1, <1>4 DEF TriedNow

(* a rule that returned true ends the search for rules *)
LEMMA StopsThere ==
  ASSUME TypeInv, WellFormed(query), Control, InitRuleRuns,
         pc = "rules", Runs, Current.stop[cur], NEW i \in TriedNow
  PROVE  i >= rule
<1>1. TypeOK /\ Len(query.rules) \in Nat /\ rule \in 1 .. Len(query.rules)
  BY RuleTypes DEF TypeInv, TypeOK, Runs
<1>2. SUFFICES ASSUME i < rule PROVE FALSE
  BY <1>1, TriedAreRules
<1>3. ASSUME NEW v, i \in Tried(v), ~query.rules[rule].once,
             query.rules[rule].stop[v]
      PROVE  FALSE
  BY <1>1, <1>2, <1>3 DEF Tried
<1>4. CASE cur \in asked
  <2>1. i \in Tried(cur)
    BY <1>4 DEF TriedNow
  <2>2. ~query.rules[rule].once
    BY <1>1, <1>4 DEF InitRuleRuns, First, Runs, Current
  <2>3. QED BY <1>3, <2>1, <2>2 DEF Current
<1>5. CASE cur \notin asked
  <2>1. cur = query.root /\ i \in TriedFirst
    BY <1>5 DEF Control, TriedNow
  <2>2. CASE query.rules[rule].once
    <3>1. rule = Len(query.rules)
      BY <1>1, <2>2, InitRuleIsLast
    <3>2. i = rule
      BY <1>1, <2>1, <2>2, <3>1 DEF TriedFirst, Current
    <3>3. QED BY <1>1, <1>2, <3>2
  <2>3. CASE ~query.rules[rule].once
    <3>1. i # Len(query.rules)
      BY <1>1, <1>2
    <3>2. i \in Tried(query.root)
      BY <2>1, <3>1 DEF TriedFirst
    <3>3. QED BY <1>3, <2>1, <2>3, <3>2 DEF Current
  <2>4. QED BY <2>2, <2>3
<1>6. QED BY <1>4, <1>5

LEMMA NothingForgottenKept ==
  ASSUME TypeInv, WellFormed(query), Control, InitRuleRuns, RuleStarts,
         NothingForgotten, [Next]_vars
  PROVE  NothingForgotten'
<1>1. TypeOK /\ query' = query /\ Len(query.rules) \in Nat
  BY QueryStays, RuleTypes DEF TypeInv, TypeOK
<1>2. /\ Seeds' = Seeds /\ TriedFirst' = TriedFirst
      /\ \A v : Tried(v)' = Tried(v)
      /\ \A v : Expand(v)' = Expand(v)
  BY <1>1, PathsStay
<1>3. SUFFICES ASSUME ret' = None, ~Exceeded(iteration')
               PROVE  NothingForgotten'
  BY <1>1 DEF NothingForgotten, Exceeded
<1>4. CASE SolveRootUse
  <2>1. /\ pc' = "rules" /\ asked' = {} /\ First'
        /\ rule' = Len(query.rules) /\ kid' = 0
    BY <1>4 DEF Control, SolveRootUse, StartRules, First
  <2>2. TriedNow' \subseteq 1 .. Len(query.rules)
    BY <1>1, <1>2, <2>1, TriedAreRules DEF TriedNow
  <2>3. QED BY <1>1, <2>1, <2>2 DEF NothingForgotten
<1>5. CASE SolveRootValue
  <2>1. Seeds \subseteq Range(unsolved') /\ asked' = {} /\ pc' = "pop"
    BY <1>5 DEF Control, SolveRootValue, Seeds
  <2>2. QED BY <1>2, <2>1 DEF NothingForgotten, Covered
<1>6. ASSUME NEW u \in Uses, Filtered(u) PROVE NothingForgotten'
  <2>1. /\ pc = "pop" /\ pc' = "pop" /\ ret = None /\ asked' = asked
        /\ u \in query.refused /\ unsolved # <<>> /\ u = Head(unsolved)
        /\ unsolved' = Tail(unsolved) /\ iteration' = iteration + 1
    BY <1>3, <1>6 DEF Filtered, Pop
  <2>2. Covered \subseteq Covered'
    BY <1>1, <2>1, PopElements DEF Covered, TypeOK
  <2>3. ~Exceeded(iteration)
    BY <1>1, <1>3, <2>1, RuleTypes DEF Exceeded, TypeOK
  <2>4. QED BY <1>1, <1>2, <2>1, <2>2, <2>3 DEF NothingForgotten
<1>7. ASSUME NEW u \in Uses, Stopped(u) PROVE NothingForgotten'
  BY <1>1, <1>3, <1>7, WantedIsRefused DEF Stopped
<1>8. ASSUME NEW u \in Uses, Accepted(u) PROVE NothingForgotten'
  <2>1. /\ pc = "pop" /\ pc' = "rules" /\ asked' = asked \cup {u}
        /\ cur' = u /\ rule' = Len(query.rules) /\ kid' = 0
        /\ unsolved # <<>> /\ u = Head(unsolved)
        /\ unsolved' = Tail(unsolved) /\ iteration' = iteration + 1
    BY <1>3, <1>8 DEF Accepted, Pop, StartRules
  <2>2. Covered \subseteq Covered'
    BY <1>1, <2>1, PopElements DEF Covered, TypeOK
  <2>3. ~Exceeded(iteration) /\ ret = None
    BY <1>1, <1>3, <1>8, <2>1, RuleTypes, WantedIsRefused DEF Exceeded, TypeOK, Accepted
  <2>4. TriedNow' \subseteq 1 .. Len(query.rules)
    BY <1>1, <1>2, <2>1, TriedAreRules DEF TriedNow
  <2>5. QED BY <1>1, <1>2, <2>1, <2>2, <2>3, <2>4 DEF NothingForgotten
<1>9. ASSUME NEW u \in Uses, GiveUp(u) PROVE NothingForgotten'
  BY <1>1, <1>3, <1>9 DEF GiveUp
<1>10. CASE SkipRule
  <2>1. /\ pc = "rules" /\ UNCHANGED <<pc, cur, asked, unsolved, ret, iteration, kid>>
        /\ rule \in 1 .. Len(query.rules) /\ rule' = rule - 1
        /\ query.rules[rule].once /\ ran[rule] /\ kid = 0
    BY <1>1, <1>10 DEF SkipRule, graph, Runs, Current, TypeOK, RuleStarts
  <2>2. ~First
    BY <1>1, <2>1 DEF InitRuleRuns, First
  <2>3. rule \notin TriedNow
    BY <2>1, <2>2 DEF TriedNow, Tried, First
  <2>4. Covered' = Covered /\ TriedNow' = TriedNow /\ First' = First
    BY <1>1, <1>2, <2>1 DEF Covered, TriedNow, First
  <2>5. ASSUME NEW i \in TriedNow, i > rule' PROVE i > rule
    BY <1>1, <2>1, <2>3, <2>5, TriedAreRules
  <2>6. QED BY <1>1, <1>2, <1>3, <2>1, <2>4, <2>5 DEF NothingForgotten, Exceeded
<1>11. CASE AddSolved
  <2> DEFINE kids == query.rules[rule].adds[cur]
  <2>1. /\ pc = "rules" /\ UNCHANGED <<pc, cur, asked, ret, iteration, rule>>
        /\ rule \in 1 .. Len(query.rules) /\ kid' = kid + 1
        /\ kid < Len(kids) /\ Push(kids[kid + 1])
    BY <1>1, <1>11 DEF AddSolved, Runs, Current, TypeOK
  <2>2. kids \in Seq(Uses) /\ kid \in Nat /\ kids[kid + 1] \in Uses
    <3>1. cur \in Uses
      BY <2>1 DEF TypeInv, NoNullUse
    <3>2. kids \in Seq(Uses)
      BY <1>1, <2>1, <3>1, RuleTypes DEF TypeOK
    <3>3. kid \in Nat
      BY <1>1 DEF TypeOK
    <3>4. QED BY <2>1, <3>2, <3>3
  <2>3. Covered \subseteq Covered'
    BY <1>1, <2>1, <2>2, PushElements DEF Covered, Push, TypeOK
  <2>4. kids[kid + 1] \in Covered'
    <3>1. CASE flags[kids[kid + 1]] = "UNSOLVED"
      BY <1>1, <2>1, <2>2, <3>1, PushElements DEF Covered, Push, TypeOK
    <3>2. CASE flags[kids[kid + 1]] = "SOLVED"
      BY <1>1, <2>1, <2>2, <3>2 DEF Covered, Control, Nodes
    <3>3. CASE flags[kids[kid + 1]] = "IGNORED"
      BY <1>1, <1>3, <2>1, <2>2, <3>3 DEF Covered, Control, Nodes
    <3>4. QED BY <1>1, <2>2, <3>1, <3>2, <3>3 DEF TypeOK, FlagType, Nodes
  <2>5. \A k \in 1 .. kid' : k \in 1 .. kid \/ k = kid + 1
    BY <2>1, <2>2
  <2>6. TriedNow' = TriedNow /\ First' = First
    BY <1>1, <1>2, <2>1 DEF TriedNow, First
  <2>7. ret = None /\ ~Exceeded(iteration)
    BY <1>1, <1>3, <2>1 DEF Exceeded
  <2>8. ASSUME NEW i \in TriedNow
        PROVE  /\ i > rule => Range(query.rules[i].adds[cur]) \subseteq Covered'
               /\ i = rule => \A k \in 1 .. kid' : k <= Len(query.rules[i].adds[cur])
                                => query.rules[i].adds[cur][k] \in Covered'
    BY <2>1, <2>3, <2>4, <2>5, <2>7 DEF NothingForgotten
  <2>9. /\ ~First => Seeds \subseteq Covered'
        /\ \A v \in asked : v # cur => Expand(v) \subseteq Covered'
    BY <2>1, <2>3, <2>7 DEF NothingForgotten
  <2>10. QED BY <1>1, <1>2, <2>1, <2>6, <2>8, <2>9 DEF NothingForgotten
<1>12. CASE EndRule
  <2> DEFINE kids == query.rules[rule].adds[cur]
  <2>1. /\ pc = "rules" /\ Runs
        /\ UNCHANGED <<pc, cur, asked, unsolved, ret, iteration>>
        /\ rule \in 1 .. Len(query.rules)
        /\ rule' = IF Current.stop[cur] THEN 0 ELSE rule - 1
        /\ kid = Len(kids) /\ kid' = 0
    BY <1>1, <1>12 DEF EndRule, Runs, Current, TypeOK
  <2>2. kids \in Seq(Uses)
    BY <1>1, <2>1, RuleTypes DEF TypeOK, TypeInv, NoNullUse
  <2>3. Covered' = Covered /\ TriedNow' = TriedNow /\ First' = First
    BY <1>1, <1>2, <2>1 DEF Covered, TriedNow, First
  <2>4. ret = None /\ ~Exceeded(iteration)
    BY <1>1, <1>3, <2>1 DEF Exceeded
  <2>5. ASSUME NEW i \in TriedNow, i > rule'
        PROVE  Range(query.rules[i].adds[cur]) \subseteq Covered
    <3>1. i >= rule /\ i \in 1 .. Len(query.rules)
      BY <1>1, <2>1, <2>5, StopsThere, TriedAreRules
    <3>2. CASE i > rule
      BY <2>1, <2>4, <3>2 DEF NothingForgotten
    <3>3. CASE i = rule
      <4>1. \A k \in 1 .. Len(kids) : kids[k] \in Covered
        BY <2>1, <2>2, <2>4, <3>3 DEF NothingForgotten
      <4>2. QED BY <2>2, <3>3, <4>1 DEF Range
    <3>4. QED BY <1>1, <2>1, <3>1, <3>2, <3>3
  <2>6. /\ ~First => Seeds \subseteq Covered
        /\ \A v \in asked : v # cur => Expand(v) \subseteq Covered
    BY <2>1, <2>4 DEF NothingForgotten
  <2>7. QED BY <1>1, <1>2, <2>1, <2>3, <2>5, <2>6 DEF NothingForgotten
<1>13. CASE EndRules
  <2>1. /\ pc = "rules" /\ rule = 0 /\ pc' = "pop"
        /\ UNCHANGED <<cur, asked, unsolved, ret, iteration>>
    BY <1>13 DEF EndRules, graph
  <2>2. ret = None /\ ~Exceeded(iteration) /\ Covered' = Covered
    BY <1>1, <1>3, <2>1 DEF Exceeded, Covered
  <2>3. \A i \in TriedNow : Range(query.rules[i].adds[cur]) \subseteq Covered
    BY <1>1, <2>1, <2>2, TriedAreRules DEF NothingForgotten
  <2>4. cur \in asked => Expand(cur) \subseteq Covered
    BY <2>3 DEF Expand, TriedNow
  <2>5. Seeds \subseteq Covered
    <3>1. CASE First
      <4>1. cur = query.root /\ query.root # ValueNode /\ TriedNow = TriedFirst
        BY <2>1, <3>1, NodesAssumption DEF Control, First, TypeInv, NoNullUse, TriedNow
      <4>2. QED BY <2>3, <4>1 DEF Seeds
    <3>2. CASE ~First
      BY <2>1, <2>2, <3>2 DEF NothingForgotten
    <3>3. QED BY <3>1, <3>2
  <2>6. \A v \in asked : Expand(v) \subseteq Covered
    BY <2>1, <2>2, <2>4 DEF NothingForgotten
  <2>7. QED BY <1>1, <1>2, <2>1, <2>2, <2>5, <2>6 DEF NothingForgotten
<1>14. CASE Drained
  <2>1. Covered' = Covered /\ asked' = asked /\ pc = "pop" /\ pc' = "done"
        /\ ret' = ret /\ iteration' = iteration
    BY <1>1, <1>14 DEF Drained, graph, Covered
  <2>2. QED BY <1>1, <1>2, <1>3, <2>1 DEF NothingForgotten, Exceeded
<1>15. CASE UNCHANGED vars
  <2>1. Covered' = Covered /\ First' = First /\ TriedNow' = TriedNow
    BY <1>1, <1>2, <1>15 DEF vars, Covered, First, TriedNow
  <2>2. QED BY <1>1, <1>2, <1>15, <2>1 DEF NothingForgotten, vars, Exceeded
<1>16. QED
  BY <1>4, <1>5, <1>6, <1>7, <1>8, <1>9, <1>10, <1>11, <1>12, <1>13, <1>14, <1>15
     DEF Next

----------------------------------------------------------------------------
(***************************************************************************)
(* Soundness.  The uses a rule gives lie one step further on a path.       *)
(***************************************************************************)
LEMMA PathsBegin ==
  ASSUME NEW cut, NEW u \in Seeds
  PROVE  u \in cut \/ Reachable(u, cut)
  BY DEF Reachable, ClosedUnder

LEMMA PathsGoOn ==
  ASSUME NEW cut, NEW v, Reachable(v, cut), NEW u \in Expand(v)
  PROVE  u \in cut \/ Reachable(u, cut)
  BY DEF Reachable, ClosedUnder

(* the rule that runs is one of those that solve the use *)
LEMMA RunningIsTried ==
  ASSUME TypeInv, WellFormed(query), Control, InitRuleRuns, RuleIsTried,
         pc = "rules", Runs
  PROVE  rule \in TriedNow
<1>1. TypeOK /\ Len(query.rules) \in Nat /\ rule \in 1 .. Len(query.rules)
  BY RuleTypes DEF TypeInv, TypeOK, Runs
<1>2. \A j \in 1 .. Len(query.rules) : j > rule =>
        /\ ~query.rules[j].once => ~query.rules[j].stop[cur]
        /\ query.rules[j].once /\ First => ~query.rules[j].stop[cur]
  BY <1>1 DEF RuleIsTried
<1>3. ~query.rules[rule].once => rule \in Tried(cur)
  BY <1>1, <1>2 DEF Tried
<1>4. CASE cur \in asked
  <2>1. ~query.rules[rule].once
    BY <1>1, <1>4 DEF InitRuleRuns, First, Runs, Current
  <2>2. QED BY <1>3, <1>4, <2>1 DEF TriedNow
<1>5. CASE cur \notin asked
  <2>1. cur = query.root /\ TriedNow = TriedFirst /\ First
    BY <1>5 DEF Control, TriedNow, First
  <2>2. CASE query.rules[rule].once
    <3>1. rule = Len(query.rules)
      BY <1>1, <2>2, InitRuleIsLast
    <3>2. QED BY <1>1, <2>1, <2>2, <3>1 DEF TriedFirst
  <2>3. CASE ~query.rules[rule].once
    <3>1. rule \in Tried(query.root)
      BY <1>3, <2>1, <2>3
    <3>2. query.rules[Len(query.rules)].once =>
            ~query.rules[Len(query.rules)].stop[query.root]
      <4>1. SUFFICES ASSUME query.rules[Len(query.rules)].once
                     PROVE  ~query.rules[Len(query.rules)].stop[query.root]
        OBVIOUS
      <4>2. rule # Len(query.rules)
        BY <2>3, <4>1
      <4>3. Len(query.rules) \in 1 .. Len(query.rules) /\ Len(query.rules) > rule
        BY <1>1, <4>2
      <4>4. QED BY <1>2, <2>1, <4>1, <4>3
    <3>3. QED BY <2>1, <3>1, <3>2 DEF TriedFirst
  <2>4. QED BY <2>2, <2>3
<1>6. QED BY <1>4, <1>5

LEMMA OnlyPathsKept ==
  ASSUME TypeInv, WellFormed(query), Control, InitRuleRuns, RuleIsTried,
         OnlyPaths, [Next]_vars
  PROVE  OnlyPaths'
<1>1. TypeOK /\ query' = query
  BY QueryStays DEF TypeInv
<1>2. /\ Seeds' = Seeds /\ Wanted' = Wanted
      /\ \A v : Expand(v)' = Expand(v)
      /\ \A v, cut : Reachable(v, cut)' = Reachable(v, cut)
  BY <1>1, PathsStay
<1>3. CASE SolveRootUse
  <2>1. /\ Range(unsolved') = {} /\ asked' = {} /\ ret' = None
    <3>1. unsolved = <<query.root>> /\ unsolved' = Tail(unsolved)
      BY <1>3 DEF SolveRootUse, TypeInv, NoNullUse
    <3>2. unsolved' = <<>>
      BY <1>1, <3>1 DEF TypeOK
    <3>3. QED BY <1>3, <3>2 DEF Control, SolveRootUse, Range
  <2>2. QED BY <2>1 DEF OnlyPaths, FoundIsReachable
<1>4. CASE SolveRootValue
  <2>1. unsolved' = query.implicit /\ asked' = asked /\ ret' = ret
        /\ Seeds = Range(query.implicit)
    BY <1>4 DEF SolveRootValue, Seeds
  <2>2. QED BY <1>1, <1>2, <2>1, PathsBegin DEF OnlyPaths, FoundIsReachable
<1>5. ASSUME NEW u \in Uses, Filtered(u) \/ Stopped(u) \/ Accepted(u) \/ GiveUp(u)
      PROVE  OnlyPaths'
  <2>1. /\ pc = "pop" /\ unsolved # <<>> /\ u = Head(unsolved)
        /\ unsolved' = Tail(unsolved)
    BY <1>5 DEF Filtered, Stopped, Accepted, GiveUp, Pop
  <2>2. /\ Range(unsolved') \subseteq Range(unsolved)
        /\ u \in Range(unsolved)
    <3>1. Head(unsolved) = unsolved[1] /\ 1 \in DOMAIN unsolved
      BY <1>1, <2>1 DEF TypeOK
    <3>2. QED BY <1>1, <2>1, <3>1, PopElements DEF TypeOK, Range
  <2>3. /\ \A w \in Range(unsolved') :
             w \in query.refused \/ Reachable(w, query.refused)
        /\ u \in query.refused \/ Reachable(u, query.refused)
    BY <2>1, <2>2 DEF OnlyPaths
  <2>4. CASE Filtered(u) \/ GiveUp(u)
    BY <1>1, <1>2, <2>3, <2>4 DEF OnlyPaths, FoundIsReachable, Filtered, GiveUp
  <2>5. CASE Stopped(u)
    <3>1. /\ ret' = Found(u) /\ asked' = asked /\ u \notin query.refused
      BY <2>5 DEF Stopped
    <3>2. ret' = ret \/ (ret' = u /\ u \in Wanted)
      BY <1>1, <3>1, WantedIsRefused
    <3>3. QED BY <1>1, <1>2, <2>3, <3>1, <3>2 DEF OnlyPaths, FoundIsReachable
  <2>6. CASE Accepted(u)
    <3>1. /\ ret' = ret /\ asked' = asked \cup {u} /\ u \notin query.refused
      BY <1>1, <2>6, WantedIsRefused DEF Accepted
    <3>2. QED BY <1>1, <1>2, <2>3, <3>1 DEF OnlyPaths, FoundIsReachable
  <2>7. QED BY <1>5, <2>4, <2>5, <2>6
<1>6. CASE AddSolved
  <2> DEFINE kids == query.rules[rule].adds[cur]
             c == kids[kid + 1]
  <2>1. /\ pc = "rules" /\ Runs /\ Push(c) /\ kid < Len(kids)
        /\ UNCHANGED <<ret, asked, pc>>
    BY <1>6 DEF AddSolved, Current
  <2>2. rule \in TriedNow
    BY <2>1, RunningIsTried
  <2>3. cur \in Uses /\ rule \in 1 .. Len(query.rules)
    BY <1>1, <2>1, <2>2, TriedAreRules DEF TypeInv, NoNullUse
  <2>4. kids \in Seq(Uses) /\ kid \in Nat
    BY <1>1, <2>3, RuleTypes DEF TypeOK
  <2>5. c \in Uses /\ c \in Range(kids)
    BY <2>1, <2>4 DEF Range
  <2>6. c \in query.refused \/ Reachable(c, query.refused)
    <3>1. CASE cur \in asked
      <4>1. c \in Expand(cur)
        BY <2>2, <2>5, <3>1 DEF TriedNow, Expand
      <4>2. Reachable(cur, query.refused)
        BY <3>1 DEF OnlyPaths
      <4>3. QED BY <4>1, <4>2, PathsGoOn
    <3>2. CASE cur \notin asked
      <4>1. cur = query.root /\ query.root # ValueNode /\ rule \in TriedFirst
        BY <2>1, <2>2, <2>3, <3>2, NodesAssumption DEF Control, TriedNow
      <4>2. c \in Seeds
        BY <2>5, <4>1 DEF Seeds
      <4>3. QED BY <4>2, PathsBegin
    <3>3. QED BY <3>1, <3>2
  <2>7. Range(unsolved') \subseteq Range(unsolved) \cup {c}
    BY <1>1, <2>1, <2>5, PushElements DEF TypeOK, Push
  <2>8. QED BY <1>1, <1>2, <2>1, <2>6, <2>7 DEF OnlyPaths, FoundIsReachable
<1>7. CASE SkipRule \/ EndRule \/ EndRules \/ Drained \/ UNCHANGED vars
  <2>1. UNCHANGED <<unsolved, asked, ret>> /\ (pc' = "root" => pc = "root")
    BY <1>7 DEF SkipRule, EndRule, EndRules, Drained, vars, graph
  <2>2. pc' # "root" => pc # "root"
    BY <1>7 DEF SkipRule, EndRule, EndRules, Drained, vars
  <2>3. QED BY <1>1, <1>2, <2>1, <2>2 DEF OnlyPaths, FoundIsReachable
<1>8. QED BY <1>3, <1>4, <1>5, <1>6, <1>7 DEF Next

----------------------------------------------------------------------------
(***************************************************************************)
(* The work list and the edges hold what the rules gave, and no more.      *)
(***************************************************************************)
(***************************************************************************)
(* A use a rule adds is linked to the query or to the use being solved.    *)
(***************************************************************************)
LEMMA AddedIsLinked ==
  ASSUME TypeInv, WellFormed(query), Control, InitRuleRuns, RuleIsTried,
         AddSolved
  PROVE  LET c == query.rules[rule].adds[cur][kid + 1] IN
         /\ c \in Uses /\ cur \in Uses
         /\ cur \in asked => c \in Expand(cur)
         /\ cur \notin asked => /\ cur = query.root
                                /\ c \in Seeds
<1> DEFINE kids == query.rules[rule].adds[cur]
           c == kids[kid + 1]
<1>1. TypeOK /\ pc = "rules" /\ Runs /\ kid < Len(kids)
  BY DEF TypeInv, AddSolved, Current
<1>2. rule \in TriedNow
  BY <1>1, RunningIsTried
<1>3. cur \in Uses /\ rule \in 1 .. Len(query.rules)
  BY <1>1, <1>2, TriedAreRules DEF TypeInv, NoNullUse
<1>4. kids \in Seq(Uses) /\ kid \in Nat
  BY <1>1, <1>3, RuleTypes DEF TypeOK
<1>5. c \in Uses /\ c \in Range(kids)
  BY <1>1, <1>4 DEF Range
<1>6. cur \in asked => c \in Expand(cur)
  BY <1>2, <1>5 DEF TriedNow, Expand
<1>7. ASSUME cur \notin asked
      PROVE  cur = query.root /\ c \in Seeds
  <2>1. cur = query.root /\ query.root # ValueNode /\ rule \in TriedFirst
    BY <1>1, <1>2, <1>3, <1>7, NodesAssumption DEF Control, TriedNow
  <2>2. QED BY <1>5, <2>1 DEF Seeds
<1>8. QED BY <1>3, <1>5, <1>6, <1>7

(* what is linked stays linked, since the search never leaves a use *)
LEMMA LinkedGrows ==
  ASSUME query \in Query, query' = query, asked \subseteq asked', asked' \subseteq Uses
  PROVE  Abstract!Linked \subseteq Abstract!Linked'
<1>1. Searched' = Searched
  BY PathsStay DEF Searched
<1>2. QED BY <1>1 DEF Abstract!Linked

LEMMA LinkedIs ==
  ASSUME asked \subseteq Uses
  PROVE  Abstract!Linked = Seeds \cup UNION {Expand(v) : v \in asked}
<1>1. \A v \in asked : Searched.links[v] = Expand(v)
  BY DEF Searched
<1>2. Searched.seeds = Seeds
  BY DEF Searched
<1>3. QED BY <1>1, <1>2 DEF Abstract!Linked

LEMMA ListIsLinkedKept ==
  ASSUME TypeInv, WellFormed(query), Control, InitRuleRuns, RuleIsTried,
         ListIsLinked, [Next]_vars
  PROVE  ListIsLinked'
<1>1. TypeOK /\ query' = query
  BY QueryStays DEF TypeInv
<1>2. asked \subseteq asked' /\ asked \subseteq Uses /\ asked' \subseteq Uses
  BY <1>1 DEF Next, vars, SolveRootUse, SolveRootValue, Filtered, Stopped,
       Accepted, GiveUp, SkipRule, AddSolved, EndRule, EndRules, Drained, TypeOK
<1>3. Abstract!Linked \subseteq Abstract!Linked'
  BY <1>1, <1>2, LinkedGrows DEF TypeOK
<1>4. CASE SolveRootUse
  <2>1. unsolved = <<query.root>> /\ unsolved' = Tail(unsolved)
    BY <1>4 DEF SolveRootUse, TypeInv, NoNullUse
  <2>2. unsolved' = <<>>
    BY <1>1, <2>1 DEF TypeOK
  <2>3. QED BY <2>2 DEF ListIsLinked, Range
<1>5. CASE SolveRootValue
  <2>1. unsolved' = query.implicit /\ Seeds = Range(query.implicit)
    BY <1>5 DEF SolveRootValue, Seeds
  <2>2. QED BY <1>2, <1>3, <2>1, LinkedIs DEF ListIsLinked
<1>6. ASSUME NEW u \in Uses, Filtered(u) \/ Stopped(u) \/ Accepted(u) \/ GiveUp(u)
      PROVE  ListIsLinked'
  <2>1. /\ pc = "pop" /\ unsolved # <<>> /\ unsolved' = Tail(unsolved)
    BY <1>6 DEF Filtered, Stopped, Accepted, GiveUp, Pop
  <2>2. Range(unsolved') \subseteq Range(unsolved)
    BY <1>1, <2>1, PopElements DEF TypeOK
  <2>3. QED BY <1>3, <2>1, <2>2 DEF ListIsLinked
<1>7. CASE AddSolved
  <2> DEFINE c == query.rules[rule].adds[cur][kid + 1]
  <2>1. pc = "rules" /\ Push(c)
    BY <1>7 DEF AddSolved, Current
  <2>2. c \in Uses /\ c \in Abstract!Linked
    BY <1>2, <1>7, AddedIsLinked, LinkedIs
  <2>3. Range(unsolved') \subseteq Range(unsolved) \cup {c}
    BY <1>1, <2>1, <2>2, PushElements DEF TypeOK, Push
  <2>4. QED BY <1>3, <2>1, <2>2, <2>3 DEF ListIsLinked
<1>8. CASE SkipRule \/ EndRule \/ EndRules \/ Drained \/ UNCHANGED vars
  <2>1. unsolved' = unsolved /\ (pc' # "root" => pc # "root")
    BY <1>8 DEF SkipRule, EndRule, EndRules, Drained, vars, graph
  <2>2. QED BY <1>3, <2>1 DEF ListIsLinked
<1>9. QED BY <1>4, <1>5, <1>6, <1>7, <1>8 DEF Next

(***************************************************************************)
(* The edges of a node follow the rules: one more with each link a rule    *)
(* gives, and all of them once the rules are through.                      *)
(***************************************************************************)
LEMMA EdgesAreGivenKept ==
  ASSUME TypeInv, WellFormed(query), Control, InitRuleRuns, RuleIsTried,
         RuleStarts, EdgesAreGiven, [Next]_vars
  PROVE  EdgesAreGiven'
<1>1. TypeOK /\ query' = query /\ Len(query.rules) \in Nat
  BY QueryStays, RuleTypes DEF TypeInv, TypeOK
<1>2. /\ Seeds' = Seeds /\ TriedFirst' = TriedFirst
      /\ \A v : Tried(v)' = Tried(v)
      /\ \A v : Expand(v)' = Expand(v)
  BY <1>1, PathsStay
<1>3. CASE SolveRootUse
  <2>1. /\ pc = "root" /\ pc' = "rules" /\ asked = {} /\ asked' = {}
        /\ childs' = childs /\ rule' = Len(query.rules) /\ kid' = 0
        /\ cur' = query.root
    BY <1>3 DEF Control, SolveRootUse, StartRules, TypeInv, NoNullUse
  <2>2. TriedNow' \subseteq 1 .. Len(query.rules)
    BY <1>1, <1>2, <2>1, TriedAreRules DEF TriedNow
  <2>3. ASSUME NEW n \in Nodes PROVE GivenTo(n)'
    <3>1. Range(childs'[n]) = {}
      BY <2>1 DEF EdgesAreGiven, Range
    <3>2. n # query.root => LinksOf(n)' = {}
      BY <1>1, <2>1 DEF LinksOf
    <3>3. \A i \in TriedNow' : ~(i > rule') /\ 1 .. kid' = {}
      BY <1>1, <2>1, <2>2
    <3>4. QED BY <1>1, <2>1, <3>1, <3>2, <3>3 DEF GivenTo, Solving
  <2>4. QED BY <2>1, <2>3 DEF EdgesAreGiven
<1>4. CASE SolveRootValue
  <2>1. /\ pc = "root" /\ pc' = "pop" /\ asked = {} /\ asked' = {}
        /\ query.root = ValueNode /\ Seeds = Range(query.implicit)
        /\ childs' = [childs EXCEPT ![ValueNode] = query.implicit]
    BY <1>4 DEF Control, SolveRootValue, Seeds
  <2>2. ASSUME NEW n \in Nodes PROVE GivenTo(n)'
    <3>1. n = ValueNode => childs'[n] = query.implicit /\ LinksOf(n)' = Seeds
      BY <1>1, <1>2, <2>1 DEF LinksOf, TypeOK
    <3>2. n # ValueNode => Range(childs'[n]) = {} /\ LinksOf(n)' = {}
      BY <1>1, <2>1 DEF LinksOf, EdgesAreGiven, Range, TypeOK
    <3>3. QED BY <2>1, <3>1, <3>2 DEF GivenTo, Solving
  <2>3. QED BY <2>1, <2>2 DEF EdgesAreGiven
<1>5. ASSUME NEW u \in Uses, Filtered(u) \/ Stopped(u) \/ GiveUp(u)
      PROVE  EdgesAreGiven'
  <2>1. /\ pc = "pop" /\ pc' \in {"pop", "done"}
        /\ childs' = childs /\ asked' = asked
    BY <1>5 DEF Filtered, Stopped, GiveUp, Pop
  <2>2. QED BY <1>1, <1>2, <2>1 DEF EdgesAreGiven, GivenTo, Solving, LinksOf
<1>6. ASSUME NEW u \in Uses, Accepted(u) PROVE EdgesAreGiven'
  <2>1. /\ pc = "pop" /\ pc' = "rules" /\ childs' = childs
        /\ asked' = asked \cup {u}
        /\ cur' = u /\ rule' = Len(query.rules) /\ kid' = 0
    BY <1>6 DEF Accepted, Pop, StartRules
  <2>2. TriedNow' \subseteq 1 .. Len(query.rules)
    BY <1>1, <1>2, <2>1, TriedAreRules DEF TriedNow
  <2>3. \A i \in TriedNow' : ~(i > rule') /\ 1 .. kid' = {}
    BY <1>1, <2>1, <2>2
  <2>4. ASSUME NEW n \in Nodes PROVE GivenTo(n)'
    <3>1. Range(childs[n]) = LinksOf(n)
      BY <2>1 DEF EdgesAreGiven, GivenTo, Solving
    <3>2. CASE n = u
      <4>1. LinksOf(n) \subseteq LinksOf(n)'
        BY <1>1, <1>2, <2>1 DEF LinksOf
      <4>2. n = query.root => Seeds \subseteq Range(childs[n])
        BY <3>1 DEF LinksOf
      <4>3. QED BY <1>1, <1>2, <2>1, <2>3, <3>1, <3>2, <4>1, <4>2 DEF GivenTo, Solving
    <3>3. CASE n # u
      <4>1. LinksOf(n)' = LinksOf(n)
        BY <1>1, <1>2, <2>1, <3>3 DEF LinksOf
      <4>2. ~Solving(n)'
        BY <2>1, <3>3 DEF Solving
      <4>3. QED BY <2>1, <3>1, <4>1, <4>2 DEF GivenTo
    <3>4. QED BY <3>2, <3>3
  <2>5. QED BY <2>1, <2>4 DEF EdgesAreGiven
<1>7. CASE SkipRule
  <2>1. /\ pc = "rules" /\ UNCHANGED <<pc, cur, asked, childs, kid>>
        /\ rule \in 1 .. Len(query.rules) /\ rule' = rule - 1
        /\ query.rules[rule].once /\ ran[rule] /\ kid = 0
    BY <1>1, <1>7 DEF SkipRule, graph, Runs, Current, TypeOK, RuleStarts
  <2>2. cur \in asked
    BY <1>1, <2>1 DEF InitRuleRuns, First
  <2>3. rule \notin TriedNow
    BY <2>1, <2>2 DEF TriedNow, Tried
  <2>4. TriedNow' = TriedNow
    BY <1>1, <1>2, <2>1 DEF TriedNow
  <2>5. ASSUME NEW i \in TriedNow, i > rule' PROVE i > rule
    BY <1>1, <2>1, <2>3, <2>5, TriedAreRules
  <2>6. \A n \in Nodes : GivenTo(n)
    BY <2>1 DEF EdgesAreGiven
  <2>7. 1 .. kid' = {}
    BY <2>1
  <2>8. ASSUME NEW n \in Nodes PROVE GivenTo(n)'
    <3>1. LinksOf(n)' = LinksOf(n) /\ Solving(n)' = Solving(n)
      BY <1>1, <1>2, <2>1 DEF LinksOf, Solving
    <3>2. GivenTo(n)
      BY <2>6
    <3>3. QED BY <1>1, <1>2, <2>1, <2>4, <2>5, <2>7, <3>1, <3>2 DEF GivenTo
  <2>9. QED BY <2>1, <2>8 DEF EdgesAreGiven
<1>8. CASE AddSolved
  <2> DEFINE kids == query.rules[rule].adds[cur]
             c == kids[kid + 1]
  <2>1. /\ pc = "rules" /\ UNCHANGED <<pc, cur, asked, rule>>
        /\ kid' = kid + 1 /\ kid \in Nat
        /\ childs' = [childs EXCEPT ![cur] = Append(@, c)]
    BY <1>1, <1>8 DEF AddSolved, Link, Current, TypeOK
  <2>2. /\ c \in Uses /\ cur \in Uses
        /\ cur \in asked => c \in Expand(cur)
        /\ cur \notin asked => cur = query.root /\ c \in Seeds
    BY <1>8, AddedIsLinked
  <2>3. \A n \in Nodes : GivenTo(n)
    BY <2>1 DEF EdgesAreGiven
  <2>4. TriedNow' = TriedNow
    BY <1>1, <1>2, <2>1 DEF TriedNow
  <2>5. \A k \in 1 .. kid' : k \in 1 .. kid \/ k = kid + 1
    BY <2>1
  <2>6. ASSUME NEW n \in Nodes PROVE GivenTo(n)'
    <3>1. LinksOf(n)' = LinksOf(n) /\ Solving(n)' = Solving(n)
      BY <1>1, <1>2, <2>1 DEF LinksOf, Solving
    <3>2. CASE n # cur
      <4>1. childs'[n] = childs[n] /\ ~Solving(n)
        BY <1>1, <2>1, <3>2 DEF TypeOK, Solving
      <4>2. GivenTo(n)
        BY <2>3
      <4>3. QED BY <3>1, <4>1, <4>2 DEF GivenTo
    <3>3. CASE n = cur
      <4>1. Solving(n) /\ GivenTo(n)
        BY <2>1, <2>3, <3>3 DEF Solving
      <4>2. childs[n] \in Seq(Uses) /\ childs'[n] = Append(childs[n], c)
        BY <1>1, <2>1, <3>3 DEF TypeOK
      <4>3. Range(childs'[n]) = Range(childs[n]) \cup {c}
        BY <2>2, <4>2, PushElements
      <4>4. c \in LinksOf(n)
        BY <2>2, <3>3 DEF LinksOf
      <4>5. Range(childs'[n]) \subseteq LinksOf(n)'
        BY <3>1, <4>1, <4>3, <4>4 DEF GivenTo
      <4>6. n = query.root /\ n \in asked => Seeds \subseteq Range(childs'[n])
        BY <4>1, <4>3 DEF GivenTo
      <4>7. ASSUME NEW i \in TriedNow
            PROVE  /\ i > rule => Range(query.rules[i].adds[n]) \subseteq Range(childs'[n])
                   /\ i = rule => \A k \in 1 .. kid' : k <= Len(query.rules[i].adds[n])
                                    => query.rules[i].adds[n][k] \in Range(childs'[n])
        BY <2>5, <3>3, <4>1, <4>3 DEF GivenTo
      <4>8. QED BY <1>1, <1>2, <2>1, <2>4, <3>1, <4>1, <4>5, <4>6, <4>7 DEF GivenTo
    <3>4. QED BY <3>2, <3>3
  <2>7. QED BY <2>1, <2>6 DEF EdgesAreGiven
<1>9. CASE EndRule
  <2> DEFINE kids == query.rules[rule].adds[cur]
  <2>1. /\ pc = "rules" /\ Runs /\ UNCHANGED <<pc, cur, asked, childs>>
        /\ rule \in 1 .. Len(query.rules)
        /\ rule' = IF Current.stop[cur] THEN 0 ELSE rule - 1
        /\ kid = Len(kids) /\ kid' = 0
    BY <1>1, <1>9 DEF EndRule, Runs, Current, TypeOK
  <2>2. kids \in Seq(Uses)
    BY <1>1, <2>1, RuleTypes DEF TypeOK, TypeInv, NoNullUse
  <2>3. \A n \in Nodes : GivenTo(n)
    BY <2>1 DEF EdgesAreGiven
  <2>4. TriedNow' = TriedNow /\ 1 .. kid' = {}
    BY <1>1, <1>2, <2>1 DEF TriedNow
  <2>5. ASSUME NEW n \in Nodes, Solving(n), NEW i \in TriedNow, i > rule'
        PROVE  Range(query.rules[i].adds[n]) \subseteq Range(childs[n])
    <3>1. i >= rule /\ i \in 1 .. Len(query.rules) /\ GivenTo(n) /\ n = cur
      BY <1>1, <2>1, <2>3, <2>5, StopsThere, TriedAreRules DEF Solving
    <3>2. CASE i > rule
      BY <2>5, <3>1, <3>2 DEF GivenTo
    <3>3. CASE i = rule
      <4>1. \A k \in 1 .. Len(kids) : kids[k] \in Range(childs[n])
        BY <2>1, <2>2, <2>5, <3>1, <3>3 DEF GivenTo
      <4>2. QED BY <2>2, <3>1, <3>3, <4>1 DEF Range
    <3>4. QED BY <1>1, <2>1, <3>1, <3>2, <3>3
  <2>6. ASSUME NEW n \in Nodes PROVE GivenTo(n)'
    <3>1. LinksOf(n)' = LinksOf(n) /\ Solving(n)' = Solving(n)
      BY <1>1, <1>2, <2>1 DEF LinksOf, Solving
    <3>2. GivenTo(n)
      BY <2>3
    <3>3. QED BY <1>1, <1>2, <2>1, <2>4, <2>5, <3>1, <3>2 DEF GivenTo
  <2>7. QED BY <2>1, <2>6 DEF EdgesAreGiven
<1>10. CASE EndRules
  <2>1. /\ pc = "rules" /\ rule = 0 /\ pc' = "pop"
        /\ UNCHANGED <<cur, asked, childs>>
    BY <1>10 DEF EndRules, graph
  <2>2. cur \in Uses /\ GivenTo(cur) /\ Solving(cur)
    BY <2>1 DEF TypeInv, NoNullUse, EdgesAreGiven, Solving, Nodes
  <2>3. \A i \in TriedNow : Range(query.rules[i].adds[cur]) \subseteq Range(childs[cur])
    BY <1>1, <2>1, <2>2, TriedAreRules DEF GivenTo
  <2>4. LinksOf(cur) \subseteq Range(childs[cur])
    <3>1. CASE cur \in asked
      <4>1. Expand(cur) \subseteq Range(childs[cur])
        BY <2>3, <3>1 DEF Expand, TriedNow
      <4>2. cur = query.root => Seeds \subseteq Range(childs[cur])
        BY <2>2, <3>1 DEF GivenTo
      <4>3. QED BY <4>1, <4>2 DEF LinksOf
    <3>2. CASE cur \notin asked
      <4>1. cur = query.root /\ query.root # ValueNode /\ TriedNow = TriedFirst
        BY <2>1, <2>2, <3>2, NodesAssumption DEF Control, TriedNow
      <4>2. Seeds \subseteq Range(childs[cur])
        BY <2>3, <4>1 DEF Seeds
      <4>3. QED BY <3>2, <4>2 DEF LinksOf
    <3>3. QED BY <3>1, <3>2
  <2>5. ASSUME NEW n \in Nodes PROVE GivenTo(n)'
    <3>1. LinksOf(n)' = LinksOf(n) /\ ~Solving(n)'
      BY <1>1, <1>2, <2>1 DEF LinksOf, Solving
    <3>2. GivenTo(n) /\ (n # cur => ~Solving(n))
      BY <2>1 DEF EdgesAreGiven, Solving
    <3>3. LinksOf(n) \subseteq Range(childs[n])
      BY <2>4, <3>2 DEF GivenTo
    <3>4. QED BY <2>1, <3>1, <3>2, <3>3 DEF GivenTo
  <2>6. QED BY <2>1, <2>5 DEF EdgesAreGiven
<1>11. CASE Drained
  <2>1. pc = "pop" /\ pc' = "done" /\ UNCHANGED <<childs, asked>>
    BY <1>11 DEF Drained, graph
  <2>2. QED BY <1>1, <1>2, <2>1 DEF EdgesAreGiven, GivenTo, Solving, LinksOf
<1>12. CASE UNCHANGED vars
  <2>1. UNCHANGED <<pc, cur, asked, childs, rule, kid>>
    BY <1>12 DEF vars
  <2>2. TriedNow' = TriedNow
    BY <1>1, <1>2, <2>1 DEF TriedNow
  <2>3. ASSUME NEW n \in Nodes
        PROVE  LinksOf(n)' = LinksOf(n) /\ Solving(n)' = Solving(n)
    BY <1>1, <1>2, <2>1 DEF LinksOf, Solving
  <2>4. QED BY <1>1, <1>2, <2>1, <2>2, <2>3 DEF EdgesAreGiven, GivenTo
<1>13. QED BY <1>3, <1>4, <1>5, <1>6, <1>7, <1>8, <1>9, <1>10, <1>11, <1>12 DEF Next

----------------------------------------------------------------------------
(***************************************************************************)
(* The theorems.                                                           *)
(***************************************************************************)
LEMMA InitSearchInv == Init => SearchInv
<1>1. SUFFICES ASSUME Init PROVE SearchInv
  OBVIOUS
<1>2. TypeOK /\ NoNullUse /\ WellFormed(query)
  BY <1>1, InitTypeInv DEF Init, TypeInv
<1>3. Control
  BY <1>1 DEF Init, Start, Control, First
<1>4. InitRuleRuns /\ RuleIsTried /\ RuleStarts /\ NothingForgotten
  BY <1>1 DEF Init, Start, InitRuleRuns, RuleIsTried, RuleStarts, NothingForgotten, First
<1>5. OnlyPaths
  BY <1>1 DEF Init, Start, OnlyPaths, FoundIsReachable
<1>6. ListIsLinked /\ EdgesAreGiven
  BY <1>1 DEF Init, Start, ListIsLinked, EdgesAreGiven
<1>7. QED BY <1>2, <1>3, <1>4, <1>5, <1>6 DEF SearchInv

LEMMA NextSearchInv == SearchInv /\ [Next]_vars => SearchInv'
<1>1. SUFFICES ASSUME SearchInv, [Next]_vars PROVE SearchInv'
  OBVIOUS
<1>2. /\ TypeInv /\ WellFormed(query) /\ Control /\ InitRuleRuns
      /\ RuleIsTried /\ RuleStarts /\ NothingForgotten /\ OnlyPaths
      /\ ListIsLinked /\ EdgesAreGiven
  BY <1>1 DEF SearchInv, TypeInv
<1>3. TypeOK' /\ NoNullUse'
  BY <1>1, <1>2, NextTypeInv DEF TypeInv
<1>4. WellFormed(query)'
  BY <1>1, <1>2, QueryStays DEF WellFormed
<1>5. Control' /\ InitRuleRuns'
  BY <1>1, <1>2, ControlKept, InitRuleRunsKept
<1>6. RuleIsTried' /\ RuleStarts'
  BY <1>1, <1>2, RuleIsTriedKept, RuleStartsKept
<1>7. NothingForgotten' /\ OnlyPaths'
  BY <1>1, <1>2, NothingForgottenKept, OnlyPathsKept
<1>8. ListIsLinked' /\ EdgesAreGiven'
  BY <1>1, <1>2, ListIsLinkedKept, EdgesAreGivenKept
<1>9. QED BY <1>3, <1>4, <1>5, <1>6, <1>7, <1>8 DEF SearchInv

(***************************************************************************)
(* The invariant the safety theorems below rest on, by itself.             *)
(***************************************************************************)
THEOREM SearchInvariant == Spec => []SearchInv
<1>1. QED BY InitSearchInv, NextSearchInv, PTL DEF Spec

(***************************************************************************)
(* The graph that resolve() leaves behind has every link the rules gave as *)
(* an edge, and no other edge.  The order of a node's edges is checked by  *)
(* TLC (EdgesAreLinks).                                                    *)
(***************************************************************************)
THEOREM GraphIsTrue == Spec => []EdgesAreGiven
<1>1. SearchInv => EdgesAreGiven
  BY DEF SearchInv
<1>2. QED BY InitSearchInv, NextSearchInv, <1>1, PTL DEF Spec

(***************************************************************************)
(* When the search is over and nothing was found, the uses it asked about  *)
(* are closed under the rules, and the callback refused none of them.      *)
(***************************************************************************)
LEMMA InvGivesNothingMissed == SearchInv => NothingMissed
<1>1. SUFFICES ASSUME SearchInv, Finished, ret = None,
                      NEW u \in Wanted \ {query.root},
                      Reachable(u, query.refused \cup {query.root})
               PROVE  FALSE
  BY DEF NothingMissed
<1> DEFINE cut == query.refused \cup {query.root}
<1>2. unsolved = <<>> /\ pc = "done" /\ ~Exceeded(iteration)
  BY <1>1 DEF SearchInv, Control, Finished
<1>3. Covered = asked \cup cut
  BY <1>2 DEF Covered, Range
<1>4. Seeds \subseteq Covered /\ \A v \in asked : Expand(v) \subseteq Covered
  BY <1>1, <1>2 DEF SearchInv, NothingForgotten
<1>5. asked \in SUBSET Uses /\ ClosedUnder(asked, cut)
  BY <1>1, <1>3, <1>4 DEF SearchInv, TypeOK, ClosedUnder
<1>6. u \in asked
  BY <1>1, <1>5 DEF Reachable
<1>7. QED BY <1>1, <1>6 DEF SearchInv, Control

(***************************************************************************)
(* Completeness of ResolveEngine::resolve: whatever the program and the    *)
(* rules, an answer of nothing means there is nothing.                     *)
(***************************************************************************)
THEOREM Completeness == Spec => []NothingMissed
<1>1. QED BY InitSearchInv, NextSearchInv, InvGivesNothingMissed, PTL DEF Spec

(***************************************************************************)
(* Soundness of ResolveEngine::resolve: what it returns is wanted, and a   *)
(* path of uses that no filter refuses leads to it.                        *)
(***************************************************************************)
THEOREM Soundness == Spec => []FoundIsReachable
<1>1. SearchInv => FoundIsReachable
  BY DEF SearchInv, OnlyPaths
<1>2. QED BY InitSearchInv, NextSearchInv, <1>1, PTL DEF Spec

(***************************************************************************)
(* Once a visit is found no use is let through any more, so the rules do   *)
(* not run again: the search only drains its work list.                    *)
(***************************************************************************)
Draining ==
  ret # None /\ query.callback # "store" => pc \in {"pop", "done"}

THEOREM Drains == Spec => OnlyDrains
<1>1. Init => Draining
  BY DEF Init, Start, Draining
<1>2. ASSUME SearchInv, Draining, [Next]_vars
      PROVE  /\ Draining'
             /\ ret # None /\ query.callback # "store" =>
                  ret' # None /\ asked' = asked /\ childs' = childs
  <2>1. TypeOK /\ Control /\ query' = query
    BY <1>2, QueryStays DEF SearchInv
  <2>2. CASE SolveRootUse \/ SolveRootValue
    BY <2>1, <2>2 DEF Control, SolveRootUse, SolveRootValue, Draining
  <2>3. ASSUME NEW u \in Uses, Filtered(u) \/ Stopped(u) \/ GiveUp(u)
        PROVE  /\ pc' \in {"pop", "done"} /\ asked' = asked /\ childs' = childs
               /\ ret # None => ret' # None
    BY <2>1, <2>3, WantedIsRefused DEF Filtered, Stopped, GiveUp, Pop
  <2>4. ASSUME NEW u \in Uses, Accepted(u), query.callback # "store"
        PROVE  ret = None /\ ret' = None
    BY <2>1, <2>4, WantedIsRefused DEF Accepted, Refuses
  <2>5. CASE SkipRule \/ AddSolved \/ EndRule \/ EndRules \/ Drained \/ UNCHANGED vars
    BY <1>2, <2>1, <2>5
       DEF Draining, SkipRule, AddSolved, EndRule, EndRules, Drained, vars, graph
  <2>6. QED BY <1>2, <2>1, <2>2, <2>3, <2>4, <2>5 DEF Next, Draining
<1>3. SearchInv /\ Draining /\ [Next]_vars
        => [ret # None /\ query.callback # "store" =>
              ret' # None /\ asked' = asked /\ childs' = childs]_vars
  BY <1>2
<1>4. SearchInv /\ Draining /\ [Next]_vars => Draining'
  BY <1>2
<1>5. QED
  BY InitSearchInv, NextSearchInv, <1>1, <1>3, <1>4, PTL DEF Spec, OnlyDrains

----------------------------------------------------------------------------
(***************************************************************************)
(* The refinement.                                                         *)
(***************************************************************************)
LEMMA SearchedIsProblem ==
  ASSUME query \in Query
  PROVE  Searched \in Abstract!Problem
<1>1. /\ query.root \in Nodes /\ query.implicit \in Seq(Uses)
      /\ query.refused \in SUBSET Uses
      /\ query.visits \in SUBSET Uses /\ query.stores \in SUBSET Uses
      /\ query.callback \in {"never", "visit", "store", "ref"}
  BY RuleTypes
<1>2. \A i \in 1 .. Len(query.rules) : query.rules[i].adds \in [Uses -> Seq(Uses)]
  BY RuleTypes
<1>3. \A i \in 1 .. Len(query.rules), u \in Uses :
         Range(query.rules[i].adds[u]) \subseteq Uses
  BY <1>2 DEF Range
<1>4. \A u \in Uses : Expand(u) \in SUBSET Uses
  BY <1>3 DEF Expand, Tried
<1>5. Seeds \in SUBSET Uses
  <2>1. CASE query.root = ValueNode
    BY <1>1, <2>1 DEF Seeds, Range
  <2>2. CASE query.root # ValueNode
    <3>1. query.root \in Uses
      BY <1>1, <2>2 DEF Nodes
    <3>2. \A i \in TriedFirst : i \in 1 .. Len(query.rules)
      <4>1. Len(query.rules) \in Nat
        BY RuleTypes
      <4>2. Tried(query.root) \subseteq 1 .. Len(query.rules)
        BY DEF Tried
      <4>3. QED BY <4>1, <4>2 DEF TriedFirst
    <3>3. QED BY <1>3, <2>2, <3>1, <3>2 DEF Seeds
  <2>3. QED BY <2>1, <2>2
<1>6. Wanted \in SUBSET Uses
  BY <1>1 DEF Wanted
<1>7. [u \in Uses |-> Expand(u)] \in [Uses -> SUBSET Uses]
  BY <1>4
<1>8. QED BY <1>1, <1>5, <1>6, <1>7 DEF Searched, Abstract!Problem

LEMMA InitImplements == Init => Abstract!Init
<1>1. SUFFICES ASSUME Init PROVE Abstract!Init
  OBVIOUS
<1>2. Searched \in Abstract!Problem
  BY <1>1, SearchedIsProblem DEF Init
<1>3. asked = {} /\ ret = None /\ Status = "running"
  BY <1>1 DEF Init, Start, Status
<1>4. QED BY <1>2, <1>3 DEF Abstract!Init

LEMMA StepImplements == SearchInv /\ [Next]_vars => [Abstract!Next]_(Abstract!vars)
<1>1. SUFFICES ASSUME SearchInv, [Next]_vars
               PROVE  [Abstract!Next]_(Abstract!vars)
  OBVIOUS
<1>2. TypeOK /\ TypeInv /\ query' = query /\ Control
  BY <1>1, QueryStays DEF SearchInv, TypeInv
<1>3. Searched' = Searched
  BY <1>2, PathsStay DEF Searched
<1>4. /\ Searched.refused = query.refused /\ Searched.wanted = Wanted
      /\ Searched.many = (query.callback = "store")
      /\ query.root \in Uses => Searched.first = query.root
  BY DEF Searched
<1>5. ASSUME asked' = asked, ret' = ret, pc # "done", pc' # "done"
      PROVE  UNCHANGED Abstract!vars
  BY <1>3, <1>5 DEF Abstract!vars, Status
<1>6. ASSUME NEW u \in Uses, Pop(u)
      PROVE  u \in Abstract!Linked /\ pc = "pop" /\ Status = "running"
  <2>1. Head(unsolved) = unsolved[1] /\ 1 \in DOMAIN unsolved
    BY <1>2, <1>6 DEF TypeOK, Pop
  <2>2. u \in Range(unsolved) /\ pc = "pop"
    BY <1>6, <2>1 DEF Pop, Range
  <2>3. QED BY <1>1, <2>2 DEF SearchInv, ListIsLinked, Status
<1>7. CASE SolveRootUse \/ SolveRootValue \/ SkipRule \/ AddSolved \/ EndRule \/ EndRules
  <2>1. asked' = asked /\ ret' = ret /\ pc # "done" /\ pc' # "done"
    BY <1>7 DEF SolveRootUse, SolveRootValue, SkipRule, AddSolved, EndRule,
         EndRules, StartRules
  <2>2. QED BY <1>5, <2>1
<1>8. ASSUME NEW u \in Uses, Filtered(u)
      PROVE  [Abstract!Next]_(Abstract!vars)
  BY <1>5, <1>8 DEF Filtered, Pop
<1>9. ASSUME NEW u \in Uses, Stopped(u)
      PROVE  [Abstract!Next]_(Abstract!vars)
  <2>1. /\ Pop(u) /\ u \notin query.refused /\ ret' = Found(u)
        /\ asked' = asked /\ pc' = pc
    BY <1>9 DEF Stopped
  <2>2. u \in Abstract!Linked /\ Status = "running" /\ pc = "pop"
    BY <1>6, <2>1
  <2>3. Status' = "running"
    BY <2>1, <2>2 DEF Status
  <2>4. CASE ret' = ret
    BY <1>5, <2>1, <2>2, <2>4
  <2>5. CASE ret' = u /\ u \in Wanted
    <3>1. Abstract!Answer(u)
      BY <1>3, <1>4, <2>1, <2>2, <2>3, <2>5 DEF Abstract!Answer
    <3>2. QED BY <3>1 DEF Abstract!Next
  <2>6. QED BY <1>2, <2>1, <2>4, <2>5, WantedIsRefused
<1>10. ASSUME NEW u \in Uses, Accepted(u)
       PROVE  [Abstract!Next]_(Abstract!vars)
  <2>1. /\ Pop(u) /\ u \notin query.refused /\ ~Refuses(u) /\ pc' = "rules"
        /\ asked' = asked \cup {u} /\ ret' = Found(u)
    BY <1>10 DEF Accepted, StartRules
  <2>2. u \in Abstract!Linked /\ Status = "running"
    BY <1>6, <2>1
  <2>3. Status' = "running"
    BY <2>1 DEF Status
  <2>4. u \notin Wanted /\ ret' = ret
    BY <1>2, <2>1, WantedIsRefused
  <2>5. ret = None \/ query.callback = "store"
    BY <1>2, <2>1, <2>4 DEF Refuses
  <2>6. Abstract!Explore(u)
    BY <1>3, <1>4, <2>1, <2>2, <2>3, <2>4, <2>5 DEF Abstract!Explore
  <2>7. QED BY <2>6 DEF Abstract!Next
<1>11. ASSUME NEW u \in Uses, GiveUp(u)
       PROVE  [Abstract!Next]_(Abstract!vars)
  <2>1. pc = "pop" /\ pc' = "done" /\ Exceeded(iteration') /\ asked' = asked /\ ret' = ret
    BY <1>11 DEF GiveUp, Pop
  <2>2. Status = "running" /\ Status' = "gave_up"
    BY <1>2, <2>1 DEF Status, Exceeded
  <2>3. Abstract!Abandon
    BY <1>3, <2>1, <2>2 DEF Abstract!Abandon
  <2>4. QED BY <2>3 DEF Abstract!Next
<1>12. CASE Drained
  <2>1. /\ pc = "pop" /\ pc' = "done" /\ asked' = asked /\ ret' = ret
        /\ unsolved = <<>> /\ iteration' = iteration
    BY <1>12 DEF Drained, graph
  <2>2. Status = "running"
    BY <2>1 DEF Status
  <2>3. CASE Exceeded(iteration)
    <3>1. Status' = "gave_up"
      BY <1>2, <2>1, <2>3 DEF Status, Exceeded
    <3>2. Abstract!Abandon
      BY <1>3, <2>1, <2>2, <3>1 DEF Abstract!Abandon
    <3>3. QED BY <3>2 DEF Abstract!Next
  <2>4. CASE ~Exceeded(iteration)
    <3>1. Status' = "done"
      BY <1>2, <2>1, <2>4 DEF Status, Exceeded
    <3>2. ASSUME ret = None
          PROVE  Abstract!Exhausted
      <4>1. Seeds \subseteq Covered /\ \A v \in asked : Expand(v) \subseteq Covered
        BY <1>1, <2>1, <2>4, <3>2 DEF SearchInv, NothingForgotten
      <4>2. Covered = asked \cup query.refused \cup {query.root}
        BY <2>1 DEF Covered, Range
      <4>3. asked \subseteq Uses /\ Abstract!Linked \subseteq Covered
        BY <1>2, <4>1, LinkedIs DEF TypeOK
      <4>4. Abstract!Linked \subseteq Uses
        <5>1. /\ Searched.seeds \in SUBSET Uses
              /\ Searched.links \in [Uses -> SUBSET Uses]
          BY <1>2, SearchedIsProblem DEF TypeOK, Abstract!Problem
        <5>2. QED BY <4>3, <5>1 DEF Abstract!Linked
      <4>5. QED BY <1>4, <4>2, <4>3, <4>4 DEF Abstract!Exhausted
    <3>3. Abstract!Finish
      BY <1>3, <2>1, <2>2, <3>1, <3>2 DEF Abstract!Finish
    <3>4. QED BY <3>3 DEF Abstract!Next
  <2>5. QED BY <2>3, <2>4
<1>13. CASE UNCHANGED vars
  BY <1>3, <1>13 DEF vars, Abstract!vars, Status, Exceeded
<1>14. QED
  BY <1>1, <1>7, <1>8, <1>9, <1>10, <1>11, <1>12, <1>13 DEF Next

(***************************************************************************)
(* resolve() is an implementation of the abstract search, for every        *)
(* program, rules, filters and query.                                      *)
(***************************************************************************)
THEOREM Implementation == Spec => ImplementsGraphSearch
<1>1. QED
  BY InitSearchInv, NextSearchInv, InitImplements, StepImplements, PTL
     DEF Spec, ImplementsGraphSearch, Abstract!Spec
============================================================================
