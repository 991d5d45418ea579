--------------------------- MODULE ResolveEngine ---------------------------
(***************************************************************************)
(* One call of ResolveEngine::resolve (Resolver.cpp) and the DataDepGraph  *)
(* it builds (ddg.h, ddg.cpp).                                             *)
(*                                                                         *)
(* The engine searches the def-use graph of the compiled program from a    *)
(* query.  Its work list holds uses (llvm::Use, an operand slot of an      *)
(* instruction).  A use taken from the list is first shown to the filters, *)
(* then to a callback; if either refuses it the branch is cut, otherwise   *)
(* the solve rules are tried and every use they add is put on the list     *)
(* unless it is already solved or ignored.                                 *)
(*                                                                         *)
(* What the rules add for a use follows from the program; for the search   *)
(* it is given, so a rule is a table.  A filter is the set of uses it      *)
(* refuses.                                                                *)
(***************************************************************************)
EXTENDS Naturals, SequencesExt

CONSTANTS
  Uses,          \* the uses of the program
  ValueNode,     \* the key of the root node when a Value is queried
  None           \* a null pointer

Nodes == Uses \cup {ValueNode}

(***************************************************************************)
(* A SolveRule.  Called on u it links u to the uses adds[u], in order, and *)
(* returns stop[u].  batch says which of the two overloads of addSolved it *)
(* calls: one call for the whole array of operands, or one per use.  once  *)
(* is the InitRule wrapper, which runs the rule for its first use only.    *)
(***************************************************************************)
Rule == [adds : [Uses -> Seq(Uses)], stop : [Uses -> BOOLEAN],
         batch : BOOLEAN, once : BOOLEAN]

(***************************************************************************)
(* A call of resolve: the queried use, or ValueNode and the uses the       *)
(* implicit rule links it to; the rules in the order they were added; the  *)
(* uses some filter refuses; the callback, and the uses whose user is a    *)
(* visit (a load or a call) or a store; the limit on the iterations.       *)
(***************************************************************************)
Query == [root : Nodes, implicit : Seq(Uses), rules : Seq(Rule),
          refused : SUBSET Uses, visits : SUBSET Uses, stores : SUBSET Uses,
          callback : {"never", "visit", "store", "ref"}, max_iteration : Nat]

(***************************************************************************)
(* An InitRule is the rule added last, so the first one tried, and it is   *)
(* used for the query of a use only (Reduce.cpp, noused_flat).             *)
(***************************************************************************)
WellFormed(q) ==
  \A i \in 1 .. Len(q.rules) :
     q.rules[i].once => i = Len(q.rules) /\ q.root \in Uses

ASSUME NodesAssumption == ValueNode \notin Uses /\ None \notin Nodes

VARIABLES
  query,      \* the arguments of the call
  unsolved,   \* DataDepGraph::unsolved, the work list
  flags,      \* DataDepNode::flags_
  childs,     \* DataDepNode::childs_
  ret,        \* the Value*& the callback writes: the use it was found at
  iteration,  \* ResolveEngine::iteration
  ran,        \* InitRule::initialized, per rule
  pc,         \* where do_solve is
  cur,        \* un, the use being solved
  rule,       \* the rule being tried, counting down; 0 when none is left
  kid,        \* how many uses that rule has added so far
  asked       \* history: the uses the callback let through

graph == <<unsolved, flags, childs>>
vars  == <<query, unsolved, flags, childs, ret, iteration, ran,
            pc, cur, rule, kid, asked>>

(* the state in which resolve() starts on its arguments *)
Start ==
  /\ unsolved = IF query.root \in Uses THEN <<query.root>> ELSE <<>>
  /\ flags = [n \in Nodes |-> "UNSOLVED"]
  /\ childs = [n \in Nodes |-> <<>>]
  /\ ret = None
  /\ iteration = 0
  /\ ran = [i \in 1 .. Len(query.rules) |-> FALSE]
  /\ pc = "root"
  /\ cur = None
  /\ rule = 0
  /\ kid = 0
  /\ asked = {}

Init ==
  /\ query \in Query
  /\ WellFormed(query)
  /\ Start

(***************************************************************************)
(* addSolved(u, c) pushes c before it marks u solved.                      *)
(***************************************************************************)
(* mutant: a use is put only on an empty list *)
PushFirst(c) ==
  unsolved' = IF flags[c] = "UNSOLVED" /\ unsolved = <<>>
                THEN Append(unsolved, c) ELSE unsolved

(* mutant: a use is put on the list whatever its flag *)
PushAlways(c) == unsolved' = Append(unsolved, c)

Push(c) ==
  unsolved' = IF flags[c] = "UNSOLVED" THEN Append(unsolved, c) ELSE unsolved

(* mutant: a link is put before those the node has *)
LinkFront(n, c) == childs' = [childs EXCEPT ![n] = <<c>> \o @]

Link(n, c) == childs' = [childs EXCEPT ![n] = Append(@, c)]

Mark(n, f) == flags' = [flags EXCEPT ![n] = f]

(* mutant: the loop over the rules starts past the last one *)
StartPastEnd(u) ==
  /\ pc' = "rules"
  /\ cur' = u
  /\ rule' = Len(query.rules) + 1
  /\ kid' = 0

(* mutant: the loop over the rules leaves the last one out *)
StartPastFirst(u) ==
  /\ pc' = "rules"
  /\ cur' = u
  /\ rule' = Len(query.rules) - 1
  /\ kid' = 0

StartRules(u) ==
  /\ pc' = "rules"
  /\ cur' = u
  /\ rule' = Len(query.rules)
  /\ kid' = 0

(***************************************************************************)
(* The query is solved first, without filters and callback: a filter often *)
(* refuses the query itself.  A Value is solved by the implicit rule.      *)
(***************************************************************************)
SolveRootUse ==
  /\ pc = "root" /\ query.root \in Uses
  /\ unsolved' = Tail(unsolved)
  /\ StartRules(Head(unsolved))
  /\ UNCHANGED <<query, flags, childs, ret, iteration, ran, asked>>

SolveRootValue ==
  /\ pc = "root" /\ query.root = ValueNode
  /\ unsolved' = query.implicit
  /\ childs' = [childs EXCEPT ![ValueNode] = query.implicit]
  /\ IF query.implicit = <<>> THEN UNCHANGED flags
                              ELSE Mark(ValueNode, "SOLVED")
  /\ pc' = "pop"
  /\ UNCHANGED <<query, ret, iteration, ran, cur, rule, kid, asked>>

(***************************************************************************)
(* The callbacks: what ret becomes when u is shown to it, and whether it   *)
(* refuses u.  find_visit goes on refusing once ret is set; findStore      *)
(* looks at u alone; findRef tries the one and then the other.             *)
(***************************************************************************)
(* mutant: a store counts as a visit *)
FoundAny(u) ==
  IF u \in query.visits \cup query.stores /\ query.callback # "never" THEN u ELSE ret

Found(u) ==
  IF u \in query.visits /\ query.callback \in {"visit", "ref"} THEN u
  ELSE IF /\ u \in query.stores
          /\ query.callback = "store" \/ (query.callback = "ref" /\ ret = None)
       THEN u ELSE ret

(* mutant: find_visit refuses the visit itself only *)
RefusesVisit(u) == Found(u) = u

Refuses(u) ==
  IF query.callback = "store" THEN u \in query.stores ELSE Found(u) # None

Pop(u) ==
  /\ pc = "pop" /\ unsolved # <<>>
  /\ u = Head(unsolved)
  /\ unsolved' = Tail(unsolved)
  /\ iteration' = iteration + 1

Exceeded(n) == n > query.max_iteration

(* a filter refuses u *)
Filtered(u) ==
  /\ Pop(u) /\ ~Exceeded(iteration')
  /\ u \in query.refused
  /\ Mark(u, "IGNORED")
  /\ UNCHANGED <<query, childs, ret, ran, pc, cur, rule, kid, asked>>

(* the callback refuses u *)
Stopped(u) ==
  /\ Pop(u) /\ ~Exceeded(iteration')
  /\ u \notin query.refused /\ Refuses(u)
  /\ ret' = Found(u)
  /\ Mark(u, "IGNORED")
  /\ UNCHANGED <<query, childs, ran, pc, cur, rule, kid, asked>>

(* both let u through *)
Accepted(u) ==
  /\ Pop(u) /\ ~Exceeded(iteration')
  /\ u \notin query.refused /\ ~Refuses(u)
  /\ ret' = Found(u)
  /\ asked' = asked \cup {u}
  /\ StartRules(u)
  /\ UNCHANGED <<query, flags, childs, ran>>

Current == query.rules[rule]

(* mutant: every rule runs once *)
RunsOnce == rule > 0 /\ ~ran[rule]

Runs == rule > 0 /\ ~(Current.once /\ ran[rule])

(* an InitRule that ran before returns false *)
SkipRule ==
  /\ pc = "rules" /\ rule > 0 /\ ~Runs
  /\ rule' = rule - 1
  /\ UNCHANGED <<query, graph, ret, iteration, ran, pc, cur, kid, asked>>

(* the rule adds its next use *)
AddSolved ==
  /\ pc = "rules" /\ Runs
  /\ LET kids == Current.adds[cur] IN
     /\ kid < Len(kids)
     /\ Push(kids[kid + 1])
     /\ Link(cur, kids[kid + 1])
     /\ IF Current.batch /\ kid + 1 < Len(kids)
          THEN UNCHANGED flags
          ELSE Mark(cur, "SOLVED")
  /\ kid' = kid + 1
  /\ UNCHANGED <<query, ret, iteration, ran, pc, cur, rule, asked>>

(* the rule returns; if true no other rule is tried *)
EndRule ==
  /\ pc = "rules" /\ Runs
  /\ kid = Len(Current.adds[cur])
  /\ IF Current.batch THEN Mark(cur, "SOLVED") ELSE UNCHANGED flags
  /\ ran' = [ran EXCEPT ![rule] = TRUE]
  /\ rule' = IF Current.stop[cur] THEN 0 ELSE rule - 1
  /\ kid' = 0
  /\ UNCHANGED <<query, unsolved, childs, ret, iteration, pc, cur, asked>>

EndRules ==
  /\ pc = "rules" /\ rule = 0
  /\ pc' = "pop"
  /\ UNCHANGED <<query, graph, ret, iteration, ran, cur, rule, kid, asked>>

Drained ==
  /\ pc = "pop" /\ unsolved = <<>>
  /\ pc' = "done"
  /\ UNCHANGED <<query, graph, ret, iteration, ran, cur, rule, kid, asked>>

(* the use taken from the list is dropped *)
GiveUp(u) ==
  /\ Pop(u) /\ Exceeded(iteration')
  /\ pc' = "done"
  /\ UNCHANGED <<query, flags, childs, ret, ran, cur, rule, kid, asked>>

Next ==
  \/ SolveRootUse \/ SolveRootValue
  \/ \E u \in Uses : Filtered(u) \/ Stopped(u) \/ Accepted(u) \/ GiveUp(u)
  \/ SkipRule \/ AddSolved \/ EndRule \/ EndRules
  \/ Drained

Spec == Init /\ [][Next]_vars

(* resolve() is a sequential function: it runs until it returns *)
FairSpec == Spec /\ WF_vars(Next)

----------------------------------------------------------------------------
(***************************************************************************)
(* The paths of the search.                                                *)
(***************************************************************************)
(* the rules that solve u once the InitRule has run *)
Tried(u) ==
  {i \in 1 .. Len(query.rules) :
     /\ ~query.rules[i].once
     /\ \A j \in 1 .. Len(query.rules) :
          (j > i /\ ~query.rules[j].once) => ~query.rules[j].stop[u]}

Expand(u) == UNION {Range(query.rules[i].adds[u]) : i \in Tried(u)}

(* the rules that solve the query itself *)
TriedFirst ==
  LET n == Len(query.rules) IN
  IF n > 0 /\ query.rules[n].once
    THEN {n} \cup (IF query.rules[n].stop[query.root] THEN {} ELSE Tried(query.root))
    ELSE Tried(query.root)

(* the uses the query itself is linked to *)
Seeds ==
  IF query.root = ValueNode THEN Range(query.implicit)
  ELSE UNION {Range(query.rules[i].adds[query.root]) : i \in TriedFirst}

(* S holds every use that a path from the query avoiding cut leads to *)
ClosedUnder(S, cut) ==
  /\ Seeds \ cut \subseteq S
  /\ \A v \in S : Expand(v) \ cut \subseteq S

(* some path from the query leads to u, and no use on it is in cut *)
Reachable(u, cut) == \A S \in SUBSET Uses : ClosedUnder(S, cut) => u \in S

----------------------------------------------------------------------------
FlagType == {"UNSOLVED", "SOLVED", "IGNORED"}

TypeOK ==
  /\ query \in Query
  /\ unsolved \in Seq(Uses)
  /\ flags \in [Nodes -> FlagType]
  /\ childs \in [Nodes -> Seq(Uses)]
  /\ ret \in Uses \cup {None}
  /\ iteration \in Nat
  /\ ran \in [1 .. Len(query.rules) -> BOOLEAN]
  /\ pc \in {"root", "pop", "rules", "done"}
  /\ cur \in Uses \cup {None}
  /\ rule \in 0 .. Len(query.rules)
  /\ kid \in Nat
  /\ asked \in SUBSET Uses

Finished == pc = "done" /\ ~Exceeded(iteration)

(* what the callback of the query looks for *)
Wanted ==
  CASE query.callback = "visit" -> query.visits
    [] query.callback = "store" -> query.stores
    [] query.callback = "ref"   -> query.visits \cup query.stores
    [] query.callback = "never" -> {}

(***************************************************************************)
(* Completeness.  When the search ends with nothing found, then nothing    *)
(* the callback looks for can be reached from the query along uses no      *)
(* filter refuses.  Reduce deletes a call on the strength of this answer.  *)
(* The query itself is solved once and not asked about.                    *)
(***************************************************************************)
NothingMissed ==
  Finished /\ ret = None =>
    \A u \in Wanted \ {query.root} :
       ~Reachable(u, query.refused \cup {query.root})

(***************************************************************************)
(* Soundness.  What the search returns is something the callback looks     *)
(* for, that no filter refuses, and that a path of uses no filter refuses  *)
(* leads to.                                                               *)
(***************************************************************************)
FoundIsReachable ==
  ret # None => ret \in Wanted /\ Reachable(ret, query.refused)

(***************************************************************************)
(* "if we found one, we can stop search" (find_visit): after the first     *)
(* visit the search only drains its work list.  It never solves another    *)
(* use, and what it has found is never lost.                               *)
(***************************************************************************)
OnlyDrains ==
  [][ret # None /\ query.callback # "store" =>
       ret' # None /\ asked' = asked /\ childs' = childs]_vars

(***************************************************************************)
(* The links that the rules in T give for u, in the order they give them:  *)
(* the rule added last is tried first.                                     *)
(***************************************************************************)
LinkList(u, T) ==
  LET n == Len(query.rules)
      Given(k) == IF n + 1 - k \in T THEN query.rules[n + 1 - k].adds[u] ELSE <<>>
  IN  FlattenSeq([k \in 1 .. n |-> Given(k)])

(* what the query is linked to when it is solved *)
QueryLinks ==
  IF query.root = ValueNode THEN query.implicit ELSE LinkList(query.root, TriedFirst)

(* what the solving in progress has linked cur to so far *)
LinksSoFar ==
  LET T == IF cur \in asked THEN Tried(cur) ELSE TriedFirst
  IN  LinkList(cur, {i \in T : i > rule})
        \o (IF rule = 0 THEN <<>> ELSE SubSeq(Current.adds[cur], 1, kid))

(***************************************************************************)
(* The edges of the graph are the links the rules gave, each use's in the  *)
(* order of the rules, none missing and no other.  A use that several uses *)
(* led to before it was solved is on the work list as often, do_solve      *)
(* solves it each time, and each time its edges are added once more.  So   *)
(* the edges of a node are those of the query's own solving, then whole    *)
(* copies of its links, and last, while it is being solved, what its rules *)
(* have given so far.  DAG walks over the graph (DSE_Adaptive,             *)
(* GraphTraits) rely on it.                                                *)
(***************************************************************************)
EdgesAreLinks ==
  \A n \in Nodes :
    LET solving  == pc = "rules" /\ cur = n
        queried  == n = query.root /\ pc # "root" /\ ~(solving /\ n \notin asked)
        again    == IF n \in asked THEN LinkList(n, Tried(n)) ELSE <<>>
        least    == IF n \in asked /\ ~solving THEN 1 ELSE 0
        Edges(k) == (IF queried THEN QueryLinks ELSE <<>>)
                      \o FlattenSeq([j \in 1 .. k |-> again])
                      \o (IF solving THEN LinksSoFar ELSE <<>>)
    IN  \E k \in least .. Len(childs[n]) + 1 : childs[n] = Edges(k)

(***************************************************************************)
(* The abstract search that the engine implements: the work list, the      *)
(* flags, the graph and the rules are its own affair, a caller sees what   *)
(* was asked, what was found and how the search ended.                     *)
(***************************************************************************)
Searched ==
  [seeds   |-> Seeds,
   links   |-> [u \in Uses |-> Expand(u)],
   first   |-> IF query.root \in Uses THEN query.root ELSE None,
   refused |-> query.refused,
   wanted  |-> Wanted,
   many    |-> query.callback = "store"]

Status ==
  IF pc # "done" THEN "running"
  ELSE IF Exceeded(iteration) THEN "gave_up" ELSE "done"

Abstract == INSTANCE GraphSearch
  WITH problem <- Searched, seen <- asked, found <- ret, status <- Status

(***************************************************************************)
(* resolve() implements the abstract search: what do_solve asks next is    *)
(* always linked to the query or to something it asked before, its answer  *)
(* is such a use, and unless its limit stops it, it ends with no answer    *)
(* only when every link leads back.  Its work list neither loses a use     *)
(* (addSolved pushes what is not solved yet) nor invents one.              *)
(***************************************************************************)
ImplementsGraphSearch == Abstract!Spec

----------------------------------------------------------------------------
(***************************************************************************)
(* The inductive invariants behind NothingMissed and FoundIsReachable.     *)
(***************************************************************************)

(* the query is being solved, for the first time *)
First == pc = "rules" /\ cur \notin asked

(* the rules that solve cur *)
TriedNow == IF cur \in asked THEN Tried(cur) ELSE TriedFirst

(* resolve() puts a queried use on the list before do_solve takes it, and *)
(* the rules are called on a use                                          *)
NoNullUse ==
  /\ pc = "root" /\ query.root \in Uses => unsolved = <<query.root>>
  /\ pc = "rules" => cur \in Uses

(* where the search is *)
Control ==
  /\ pc = "root" => /\ asked = {} /\ ret = None /\ iteration = 0
                    /\ \A n \in Nodes : flags[n] = "UNSOLVED"
                    /\ \A i \in 1 .. Len(query.rules) : ~ran[i]
  /\ pc = "rules" => cur \in asked \/ cur = query.root
  /\ First => asked = {} /\ ret = None
  /\ pc = "done" /\ ~Exceeded(iteration) => unsolved = <<>>
  /\ asked \cap query.refused = {}
  /\ asked \cap Wanted = {}
  /\ \A n \in Nodes : /\ flags[n] = "SOLVED" => n \in asked \cup {query.root}
                      /\ flags[n] = "IGNORED" => n \in query.refused \/ ret # None

(* an InitRule runs for the query and for no other use *)
InitRuleRuns ==
  \A i \in 1 .. Len(query.rules) : query.rules[i].once =>
    /\ pc \in {"pop", "done"} \/ (pc = "rules" /\ ~First) => ran[i]
    /\ First => (ran[i] <=> rule < i)

(* no rule that stops comes before the one being tried *)
RuleIsTried ==
  pc = "rules" =>
    \A j \in 1 .. Len(query.rules) : j > rule /\ rule > 0 =>
      /\ ~query.rules[j].once => ~query.rules[j].stop[cur]
      /\ query.rules[j].once /\ First => ~query.rules[j].stop[cur]

(* a rule starts with its first use *)
RuleStarts == pc = "rules" /\ ~Runs => kid = 0

(* the uses that need no further work *)
Covered == asked \cup Range(unsolved) \cup query.refused \cup {query.root}

(* as long as nothing is found, no link that was given is forgotten *)
NothingForgotten ==
  ret = None /\ ~Exceeded(iteration) =>
    /\ pc \in {"pop", "done"} \/ (pc = "rules" /\ ~First) => Seeds \subseteq Covered
    /\ \A v \in asked : ~(pc = "rules" /\ v = cur) => Expand(v) \subseteq Covered
    /\ pc = "rules" => \A i \in TriedNow :
         LET kids == query.rules[i].adds[cur] IN
         /\ i > rule => Range(kids) \subseteq Covered
         /\ i = rule => \A k \in 1 .. kid : k <= Len(kids) => kids[k] \in Covered

(* only what paths lead to is put on the list, asked or returned *)
OnlyPaths ==
  /\ pc # "root" => \A u \in Range(unsolved) :
                      u \in query.refused \/ Reachable(u, query.refused)
  /\ \A u \in asked : Reachable(u, query.refused)
  /\ FoundIsReachable

(* the uses that n has been linked to, or will be when it is solved *)
LinksOf(n) ==
  (IF n = query.root THEN Seeds ELSE {}) \cup (IF n \in asked THEN Expand(n) ELSE {})

(* the node is being solved *)
Solving(n) == pc = "rules" /\ cur = n

(* as sets, the edges of n are the links that the rules gave it *)
GivenTo(n) ==
  /\ Range(childs[n]) \subseteq LinksOf(n)
  /\ ~Solving(n) => LinksOf(n) \subseteq Range(childs[n])
  /\ Solving(n) /\ n = query.root /\ n \in asked => Seeds \subseteq Range(childs[n])
  /\ Solving(n) => \A i \in TriedNow :
       LET kids == query.rules[i].adds[n] IN
       /\ i > rule => Range(kids) \subseteq Range(childs[n])
       /\ i = rule => \A k \in 1 .. kid : k <= Len(kids) => kids[k] \in Range(childs[n])

(***************************************************************************)
(* No link the rules gave is missing in the graph and no other is there:   *)
(* EdgesAreLinks without the order of a node's edges and their number.     *)
(***************************************************************************)
EdgesAreGiven ==
  IF pc = "root" THEN \A n \in Nodes : childs[n] = <<>>
                 ELSE \A n \in Nodes : GivenTo(n)

(* the work list holds what the rules gave *)
ListIsLinked == pc # "root" => Range(unsolved) \subseteq Abstract!Linked

SearchInv ==
  TypeOK /\ NoNullUse /\ WellFormed(query) /\ Control /\ InitRuleRuns
  /\ RuleIsTried /\ RuleStarts /\ NothingForgotten /\ OnlyPaths
  /\ ListIsLinked /\ EdgesAreGiven

============================================================================
