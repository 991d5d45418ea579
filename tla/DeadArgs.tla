------------------------------ MODULE DeadArgs ------------------------------
(***************************************************************************)
(* Dead argument elimination (DeadArgumentElimination.cpp), in the two     *)
(* ways it is driven: runOnModule surveys all functions and then changes   *)
(* each of them once; DAE_Adaptive (DAEAdaptive.cpp) surveys all once, and *)
(* then, while Reduce goes on, surveys and changes one function at a time. *)
(*                                                                         *)
(* An argument or return value is a member of Values.  Its uses are where  *)
(* its value goes: to an argument of a function that is called, to a       *)
(* return value of the function it is used in, or anywhere else (Other).   *)
(***************************************************************************)
EXTENDS Naturals, Sequences, FiniteSets

CONSTANTS
  Functions,
  Values,       \* the arguments and return values of all functions
  Of,           \* the function of a value
  Args, Rets,   \* the arguments, the return values of a function, by index
  Module,       \* the functions in the order of the module
  Other,        \* a use that is live in itself
  MaxUses       \* how many uses forwarding gives a value at most: a bound

ASSUME DeadArgsAssumption ==
  /\ IsFiniteSet(Values)
  /\ Of \in [Values -> Functions]
  /\ Args \in [Functions -> Seq(Values)] /\ Rets \in [Functions -> Seq(Values)]
  /\ \A f \in Functions :
       /\ \A k \in DOMAIN Args[f] : Of[Args[f][k]] = f
       /\ \A k \in DOMAIN Rets[f] : Of[Rets[f][k]] = f
       /\ \A j \in DOMAIN Args[f], k \in DOMAIN Rets[f] : Args[f][j] # Rets[f][k]
  /\ \A v \in Values : \/ \E k \in DOMAIN Args[Of[v]] : Args[Of[v]][k] = v
                       \/ \E k \in DOMAIN Rets[Of[v]] : Rets[Of[v]][k] = v
  /\ Module \in Seq(Functions) /\ \A f \in Functions : \E k \in DOMAIN Module : Module[k] = f
  /\ \A j, k \in DOMAIN Module : Module[j] = Module[k] => j = k
  /\ Other \notin Values
  /\ MaxUses \in Nat

VARIABLES
  adaptive,       \* whether DAE_Adaptive drives it, or runOnModule
  linkage,        \* how each function may be called
  returned,       \* the arguments with the attribute returned
  uses,           \* where each value goes, in the program now
  removed,        \* the values that were removed
  version,        \* how often the object of a function was replaced
  LiveValues,     \* DAE::LiveValues, DAE::LiveFunctions
  LiveFunctions,
  Uses,           \* DAE::Uses, the pairs (use, value)
  RetValLiveness, \* SurveyFunction: the return values found live
  at,             \* its progress: the values marked so far, 0 before any
  tasks,          \* what the driver has still to do
  ran             \* history: the functions it has tried to change

program == <<adaptive, linkage, returned, uses, removed, version>>
dae     == <<LiveValues, LiveFunctions, Uses>>
survey  == <<RetValLiveness, at>>
vars    == <<adaptive, linkage, returned, uses, removed, version, LiveValues, LiveFunctions,
             Uses, RetValLiveness, at, tasks, ran>>

(***************************************************************************)
(* A RetOrArg holds the pointer of its function, so that what was noted of *)
(* a function says nothing of the one that replaced it.                    *)
(***************************************************************************)
(* mutant: of the function object before *)
RetOrArgBefore(v) == <<v, version[Of[v]] - 1>>

RetOrArg(v) == <<v, version[Of[v]]>>
RetOrArgs == Values \X Nat

ValuesOf(f) == {v \in Values : Of[v] = f}

(* what was removed has no uses: to survey it again would change nothing *)
InOrder(f) == Rets[f] \o Args[f]
IsArg(v) == \E k \in DOMAIN Args[Of[v]] : Args[Of[v]][k] = v
IsRet(v) == \E k \in DOMAIN Rets[Of[v]] : Rets[Of[v]][k] = v

(* variadic functions are local, unread ones do not call llvm.vastart *)
Linkages == {"local", "variadic", "unread", "taken", "external", "weak"}
IntrinsicallyLive(f) == linkage[f] \in {"taken", "external", "weak"}

Task(what, f) == [what |-> what, f |-> f]
ForAll(what) == [k \in DOMAIN Module |-> Task(what, Module[k])]
Doing(what, f) == tasks # <<>> /\ Head(tasks) = Task(what, f)
Done == tasks' = Tail(tasks)

(* DAE::runOnModule, or DAE_Adaptive::prepare, begins *)
prepare == ForAll("varargs") \o ForAll("survey")
runOnModule == prepare \o ForAll("remove") \o ForAll("undef")

Start ==
  /\ adaptive \in BOOLEAN
  /\ tasks = IF adaptive THEN prepare ELSE runOnModule
  /\ removed = {}
  /\ version = [f \in Functions |-> 0]
  /\ LiveValues = {} /\ LiveFunctions = {} /\ Uses = {}
  /\ RetValLiveness = {} /\ at = 0
  /\ ran = {}

(* an argument is returned by its own function only *)
Goes(v) ==
  {x \in Values : IsRet(x) /\ Of[x] # Of[v] => IsRet(v)}

Programs ==
  /\ linkage \in [Functions -> Linkages]
  /\ returned \subseteq {v \in Values : IsArg(v)}
  /\ uses \in [Values -> SUBSET (Values \cup {Other})]
  /\ \A v \in Values : uses[v] \subseteq Goes(v) \cup {Other}

Init == Programs /\ Start

(* a function that never reads its variable arguments gets a fixed list *)
DeleteDeadVarargs(f) ==
  /\ Doing("varargs", f)
  /\ IF linkage[f] = "unread"
       THEN /\ linkage' = [linkage EXCEPT ![f] = "local"]
            /\ version' = [version EXCEPT ![f] = @ + 1]
       ELSE UNCHANGED <<linkage, version>>
  /\ Done
  /\ UNCHANGED <<adaptive, returned, uses, removed, dae, survey, ran>>

----------------------------------------------------------------------------
(***************************************************************************)
(* MarkLive(RA): RA becomes live, then each value noted to be used by it,  *)
(* and so on; a value that is live already, or of a live function, is      *)
(* passed over.  The pairs of what became live are erased.                 *)
(***************************************************************************)
Known(S) == S \cup {e[2] : e \in Uses}

Unmarked(r) == Of[r[1]] \notin LiveFunctions /\ r \notin LiveValues

(* what MarkLive on each member of S makes live *)
Spread(S) ==
  {r \in Known(S) : \A T \in SUBSET Known(S) :
     (/\ \A s \in S : Unmarked(s) => s \in T
      /\ \A e \in Uses : e[1] \in T /\ Unmarked(e[2]) => e[2] \in T) => r \in T}

MarkLive(r) ==
  /\ LiveValues' = LiveValues \cup Spread({r})
  /\ Uses' = {e \in Uses : e[1] \notin Spread({r})}

(* MarkLive(F): the function may not be changed in any way *)
MarkFunctionLive(f) ==
  LET own == {RetOrArg(v) : v \in ValuesOf(f)}
      next == {e[2] : e \in {d \in Uses : d[1] \in own}}
      new == {r \in Spread(next) : Of[r[1]] # f}
  IN /\ LiveFunctions' = LiveFunctions \cup {f}
     /\ LiveValues' = LiveValues \cup new
     /\ Uses' = {e \in Uses : e[1] \notin own \cup new}

(***************************************************************************)
(* SurveyUses: a use elsewhere is live; a use as an argument or a return   *)
(* value is live if that is known to be live.                              *)
(***************************************************************************)
(* mutant: the argument it goes to need not be live *)
LiveUseAny(x) == x = Other \/ x \in Values

LiveUse(x) ==
  \/ x = Other
  \/ x \in Values /\ (Of[x] \in LiveFunctions \/ RetOrArg(x) \in LiveValues)

SurveyedLive(v) == \E x \in uses[v] : LiveUse(x)

MaybeLiveUses(v) == {<<RetOrArg(x), RetOrArg(v)>> : x \in uses[v]}

(* mutant: the uses of a value are not noted *)
MarkUnnoted(v, live) ==
  IF live THEN MarkLive(RetOrArg(v)) ELSE UNCHANGED <<LiveValues, Uses>>

MarkValue(v, live) ==
  IF live THEN MarkLive(RetOrArg(v))
  ELSE /\ Uses' = Uses \cup MaybeLiveUses(v)
       /\ UNCHANGED LiveValues

(***************************************************************************)
(* SurveyFunction.  The return values are all surveyed before the first of *)
(* them is marked; an argument is marked as soon as it is surveyed.        *)
(***************************************************************************)
SurveyLiveFunction(f) ==
  /\ Doing("survey", f) /\ at = 0
  /\ IntrinsicallyLive(f)
  /\ MarkFunctionLive(f)
  /\ Done
  /\ UNCHANGED <<program, survey, ran>>

SurveyReturns(f) ==
  /\ Doing("survey", f) /\ at = 0
  /\ ~IntrinsicallyLive(f)
  /\ RetValLiveness' = {k \in DOMAIN Rets[f] : SurveyedLive(Rets[f][k])}
  /\ at' = 1
  /\ UNCHANGED <<program, dae, tasks, ran>>

MarkReturn(f) ==
  /\ Doing("survey", f) /\ at \in DOMAIN Rets[f]
  /\ MarkValue(Rets[f][at], at \in RetValLiveness)
  /\ at' = at + 1
  /\ UNCHANGED <<program, LiveFunctions, RetValLiveness, tasks, ran>>

SurveyArgument(f) ==
  /\ Doing("survey", f) /\ at > Len(Rets[f]) /\ at \in DOMAIN InOrder(f)
  /\ LET arg == InOrder(f)[at] IN
     MarkValue(arg, linkage[f] = "variadic" \/ SurveyedLive(arg))
  /\ at' = at + 1
  /\ UNCHANGED <<program, LiveFunctions, RetValLiveness, tasks, ran>>

EndSurvey(f) ==
  /\ Doing("survey", f) /\ at > Len(InOrder(f))
  /\ at' = 0 /\ RetValLiveness' = {}
  /\ Done
  /\ UNCHANGED <<program, dae, ran>>

(***************************************************************************)
(* RemoveDeadStuffFromFunction.  What is live is erased from LiveValues    *)
(* while the new type is put together, whether it differs or not.          *)
(***************************************************************************)
Alive(v) == RetOrArg(v) \in LiveValues

KeepsReturns(f) == \E a \in returned \ removed : Of[a] = f /\ Alive(a)

Dead(f) ==
  {v \in ValuesOf(f) \ removed :
     ~Alive(v) /\ ~(KeepsReturns(f) /\ IsRet(v))}

Erased(f) ==
  {RetOrArg(v) : v \in {u \in ValuesOf(f) : ~(KeepsReturns(f) /\ IsRet(u))}}

(* a live function is not changed *)
RemoveNothing(f) ==
  /\ Doing("remove", f) /\ f \in LiveFunctions
  /\ ran' = ran \cup {f}
  /\ Done
  /\ UNCHANGED <<program, dae, survey>>

SameType(f) ==
  /\ Doing("remove", f) /\ f \notin LiveFunctions
  /\ Dead(f) = {}
  /\ LiveValues' = LiveValues \ Erased(f)
  /\ ran' = ran \cup {f}
  /\ Done
  /\ UNCHANGED <<program, LiveFunctions, Uses, survey>>

(***************************************************************************)
(* A new function takes the body; what is dead is replaced by null.  Then  *)
(* DAE_Adaptive returns, without giving undef to the callers.              *)
(***************************************************************************)
RemoveDeadStuff(f) ==
  /\ Doing("remove", f) /\ f \notin LiveFunctions
  /\ Dead(f) # {}
  /\ LiveValues' = LiveValues \ Erased(f)
  /\ removed' = removed \cup Dead(f)
  /\ uses' = [v \in Values |-> IF v \in Dead(f) THEN {} ELSE uses[v] \ Dead(f)]
  /\ version' = [version EXCEPT ![f] = @ + 1]
  /\ ran' = ran \cup {f}
  /\ tasks' = IF adaptive THEN <<>> ELSE Tail(tasks)
  /\ UNCHANGED <<adaptive, linkage, returned, LiveFunctions, Uses, survey>>

(***************************************************************************)
(* RemoveDeadArgumentsFromCallers: what is passed to an unused argument is *)
(* replaced by undef, where removing the argument is not possible.         *)
(***************************************************************************)
Unused(f) ==
  IF linkage[f] \in {"external", "variadic"}
    THEN {v \in ValuesOf(f) \ removed : uses[v] = {} /\ IsArg(v)}
    ELSE {}

PutUndef(f) ==
  /\ Doing("undef", f)
  /\ uses' = [v \in Values |-> uses[v] \ Unused(f)]
  /\ Done
  /\ UNCHANGED <<adaptive, linkage, returned, removed, version, dae, survey, ran>>

Survey(f) ==
  \/ DeleteDeadVarargs(f)
  \/ SurveyLiveFunction(f) \/ SurveyReturns(f) \/ MarkReturn(f)
  \/ SurveyArgument(f) \/ EndSurvey(f)

Change(f) == RemoveNothing(f) \/ SameType(f) \/ RemoveDeadStuff(f) \/ PutUndef(f)

(***************************************************************************)
(* DAE_Adaptive::runOnFunction, and what Reduce does between two runs: it  *)
(* deletes uses; forwarding what was stored gives a stored value new ones. *)
(***************************************************************************)
Idle == adaptive /\ tasks = <<>>

runOnFunction(f) ==
  /\ Idle
  /\ tasks' = <<Task("survey", f), Task("remove", f), Task("undef", f)>>
  /\ UNCHANGED <<program, dae, survey, ran>>

DeleteUse(v, x) ==
  /\ Idle /\ x \in uses[v]
  /\ uses' = [uses EXCEPT ![v] = @ \ {x}]
  /\ UNCHANGED <<adaptive, linkage, returned, removed, version, dae, survey, tasks, ran>>

ForwardUse(v, x) ==
  /\ Idle /\ Other \in uses[v]
  /\ x \in Goes(v) \ removed /\ Cardinality(uses[v]) < MaxUses
  /\ uses' = [uses EXCEPT ![v] = @ \cup {x}]
  /\ UNCHANGED <<adaptive, linkage, returned, removed, version, dae, survey, tasks, ran>>

Next ==
  \/ \E f \in Functions : Survey(f) \/ Change(f) \/ runOnFunction(f)
  \/ \E v \in Values, x \in Values \cup {Other} : DeleteUse(v, x) \/ ForwardUse(v, x)

Spec == Init /\ [][Next]_vars

----------------------------------------------------------------------------
TypeOK ==
  /\ adaptive \in BOOLEAN
  /\ linkage \in [Functions -> Linkages]
  /\ returned \subseteq Values
  /\ uses \in [Values -> SUBSET (Values \cup {Other})]
  /\ removed \subseteq Values
  /\ version \in [Functions -> Nat]
  /\ LiveValues \subseteq RetOrArgs
  /\ LiveFunctions \subseteq Functions
  /\ Uses \subseteq RetOrArgs \X RetOrArgs
  /\ RetValLiveness \subseteq Nat /\ at \in Nat
  /\ tasks \in Seq([what : {"varargs", "survey", "remove", "undef"}, f : Functions])
  /\ ran \subseteq Functions

(***************************************************************************)
(* The program needs a value that has a use elsewhere, or goes to a value  *)
(* it needs, or to one of a function that may not be changed.              *)
(***************************************************************************)
NeedsAll(S) ==
  \A v \in Values :
    \/ Other \in uses[v]
    \/ \E x \in uses[v] \ {Other} : IntrinsicallyLive(Of[x]) \/ x \in S
    \/ linkage[Of[v]] = "variadic" /\ IsArg(v)
    => v \in S

Needed(v) == \A S \in SUBSET Values : NeedsAll(S) => v \in S

(***************************************************************************)
(* "This pass removes arguments from functions which are not used by the   *)
(* body of the function" (createDeadArgEliminationPass): an argument or    *)
(* return value that is removed is one the program does not need.          *)
(***************************************************************************)
RemovedAreDead == [][\A v \in removed' \ removed : ~Needed(v)]_vars

(***************************************************************************)
(* Nothing is kept out of caution: until a function is changed, only what  *)
(* the program needs is marked live, so that functions which pass a dead   *)
(* argument on to themselves or each other lose it.                        *)
(***************************************************************************)
LiveAreNeeded ==
  ~adaptive /\ tasks # <<>> /\ Head(tasks).what # "undef" =>
    \A v \in Values \ removed : Alive(v) => Needed(v)

(***************************************************************************)
(* At least the first change of each function is right, which is the only  *)
(* one when a module is run on: what was found by surveying all functions  *)
(* outlives the changes of the program, and of other functions, until      *)
(* then.                                                                   *)
(***************************************************************************)
FirstRunIsRight ==
  [][\A v \in removed' \ removed : Of[v] \notin ran => ~Needed(v)]_vars
============================================================================
