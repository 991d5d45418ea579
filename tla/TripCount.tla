----------------------------- MODULE TripCount -----------------------------
(***************************************************************************)
(* The count LoopTripCount inserts before a loop, against the loop it is   *)
(* inserted for (LoopTripCount.cpp).                                       *)
(*                                                                         *)
(* analysis() takes a loop apart by its form: a start, a constant step, an *)
(* end, and whether the exit compares the value before or after the step.  *)
(* insertTripCount() computes from these, in 32 bit arithmetic and before  *)
(* the loop, how often the loop goes back to its header.  Then the loop    *)
(* runs, a round at a time, in the types it was written in.                *)
(*                                                                         *)
(* A signed integer type is named by half its range, as in FixedWidth.     *)
(***************************************************************************)
EXTENDS FixedWidth, SequencesExt

CONSTANTS
  LoopForms,  \* the loops looked at
  Asserted,   \* whether assertions are compiled in, for each of the builds
  MaxRounds,  \* a bound on the rounds of one run
  NotFound    \* the count of a loop that analysis() throws NotFound for

(***************************************************************************)
(* What analysis() looks at.  variable: the induction variable is a phi of *)
(* the header, or memory that is loaded and stored.  tested: the value the *)
(* exit compares.  exits: the loop has one exiting block; or several and   *)
(* the latch is one of them; or several of which all but one end in        *)
(* unreachable code; or something else.  leaves: what leaves is successor  *)
(* 0 of the branch, for a switch a single case.  A phi may merge several   *)
(* steps, one for each path through the body.  before: the stores to the   *)
(* variable before the loop, of which the nearest is also the last to run; *)
(* adds: those of a sum in the loop.  others: values other stores in the   *)
(* loop put after the load, skips: some path leaves the value alone.       *)
(* half, compared: the types of the variable and of the comparison, where  *)
(* a narrow value is extended with its sign unless unsigned.               *)
(***************************************************************************)
Loop ==
  [variable : {"phi", "memory"}, tested : {"old", "new"},
   predicate : {"SGT", "EQ", "SLT", "switch", "other"}, leaves : BOOLEAN,
   exits : {"one", "latch", "abort", "many"},
   simple : BOOLEAN, invariant : BOOLEAN, constant : BOOLEAN,
   before : Nat, adds : Nat, others : SUBSET Int, skips : BOOLEAN,
   start : Int, steps : Seq(Int), end : Int,
   half : Nat \ {0}, compared : Nat \ {0}, unsigned : BOOLEAN]

(* the variable steps, and starts and is stored to with values it can have *)
InType(l) ==
  l.steps # <<>> /\ {l.start} \cup l.others \subseteq -l.half .. l.half - 1

ASSUME LoopsAssumption ==
  /\ MaxRounds \in Nat /\ NotFound \notin Int
  /\ Asserted \subseteq BOOLEAN
  /\ LoopForms \subseteq {l \in Loop : InType(l)}

VARIABLES
  loop,   \* the loop
  count,  \* the value of <header>.tc
  iv,     \* the induction variable
  taken,  \* how often the loop has gone back to its header
  pc      \* before, in or after the loop

loopVars == <<loop, count, iv, taken, pc>>

----------------------------------------------------------------------------
(***************************************************************************)
(* analysis().                                                             *)
(***************************************************************************)
(* a branch must leave on this side, or it is an "abnormal exit" *)
ExitIsKnown(l) ==
  \/ l.predicate \in {"SGT", "EQ", "switch"} /\ l.leaves
  \/ l.predicate = "SLT" /\ ~l.leaves

(***************************************************************************)
(* "should only have 1 store in/before loop": of those before, "we always  *)
(* found the nearest"; a load after the step finds that of the sum.        *)
(***************************************************************************)
StoresAreKnown(l) ==
  l.variable = "memory" => l.before >= 1 /\ l.tested = "old" /\ l.adds = 1

(* a phi of the body that is compared is no phi of the header *)
StartIsFound(l) == Len(l.steps) > 1 => l.variable = "phi" /\ l.tested = "old"

(* the assertion in the loop over next_phi runs one step behind *)
StepsAsserted(l) ==
  \A j, k \in 1 .. Len(l.steps) - 1 : l.steps[j] = l.steps[k]

FormIsKnown(l) ==
  /\ l.simple /\ l.invariant /\ l.constant
  /\ l.exits # "many"
  /\ ExitIsKnown(l) /\ StoresAreKnown(l) /\ StartIsFound(l)

(* of all the steps a phi merges, the last one *)
Step(l) == Last(l.steps)

addfirst(l) == l.variable = "phi" /\ l.tested = "new"

(* mutant: the step the exit has taken already is not counted off *)
AdjustForExit(l) == IF l.predicate = "SGT" THEN 1 ELSE 0

AdjustStep(l) ==
  LET OneStep == (IF l.predicate = "SGT" THEN 1 ELSE 0)
                   - (IF addfirst(l) THEN 1 ELSE 0)
  IN IF Step(l) = -1 THEN -OneStep ELSE OneStep

----------------------------------------------------------------------------
(***************************************************************************)
(* insertTripCount().                                                      *)
(***************************************************************************)
(* CreateCast with isSigned false: a narrow value is extended by zeros *)
AdjustType(v, h) == IF h < Half THEN v % (2 * h) ELSE Wrap(v, Half)

(* mutant: the difference of the ends is not kept in 32 bits *)
WideDifference(s, e, step) == IF step = -1 THEN s - e ELSE e - s

Difference(s, e, step) == Wrap(IF step = -1 THEN s - e ELSE e - s, Half)

Adjusted(d, step, one) ==
  CASE one = 1  -> Wrap(d + step, Half)
    [] one = -1 -> Wrap(d - step, Half)
    [] one = 0  -> d

(* mutant: the step is left out of the division unless it is positive *)
DividedIfPositive(d, step) == IF step > 1 THEN SDiv(d, step) ELSE d

Divided(d, step) == IF step \in {-1, 1} THEN d ELSE SDiv(d, step)

insertTripCount(l) ==
  LET s == AdjustType(l.start, l.half)
      e == AdjustType(l.end, l.compared)
      step == AdjustType(Step(l), l.half)
  IN Divided(Adjusted(Difference(s, e, step), step, AdjustStep(l)), step)

----------------------------------------------------------------------------
LoopInit ==
  /\ loop \in LoopForms
  /\ count = NotFound
  /\ iv = loop.start
  /\ taken = 0
  /\ pc = "preheader"

(* a loop whose step is 0 in 32 bits would be divided by 0 *)
Insert ==
  /\ pc = "preheader" /\ FormIsKnown(loop)
  /\ FALSE \in Asserted \/ StepsAsserted(loop)
  /\ AdjustType(Step(loop), loop.half) # 0
  /\ count' = insertTripCount(loop)
  /\ pc' = "round"
  /\ UNCHANGED <<loop, iv, taken>>

(* runOnFunction catches NotFound and keeps an entry without a start *)
Unfound ==
  /\ pc = "preheader" /\ ~FormIsKnown(loop)
  /\ pc' = "unfound"
  /\ UNCHANGED <<loop, count, iv, taken>>

(* an assertion that fails ends the compiler; NO_DEBUG leaves it out *)
Abort ==
  /\ pc = "preheader" /\ FormIsKnown(loop)
  /\ TRUE \in Asserted /\ ~StepsAsserted(loop)
  /\ pc' = "aborted"
  /\ UNCHANGED <<loop, count, iv, taken>>

(* by how much the variable may change in a round *)
Changes == Range(loop.steps) \cup (IF loop.skips THEN {0} ELSE {})

(* what the exit compares *)
Tested(c) ==
  LET v == IF loop.tested = "new" THEN Wrap(iv + c, loop.half) ELSE iv
  IN IF loop.unsigned /\ loop.half < loop.compared THEN v % (2 * loop.half)
                                                  ELSE Wrap(v, loop.compared)

Leaves(v) ==
  CASE loop.predicate = "SGT" -> v > loop.end
    [] loop.predicate = "SLT" -> ~(v < loop.end)
    [] loop.predicate \in {"EQ", "switch"} -> v = loop.end

(* the loop goes back to its header *)
Stay(c) ==
  /\ pc = "round" /\ taken < MaxRounds
  /\ ~Leaves(Tested(c))
  /\ iv' = Wrap(iv + c, loop.half)
  /\ taken' = taken + 1
  /\ UNCHANGED <<loop, count, pc>>

(* it leaves by the exit analysis() took for the true one *)
Leave(c) ==
  /\ pc = "round"
  /\ Leaves(Tested(c))
  /\ pc' = "left"
  /\ UNCHANGED <<loop, count, iv, taken>>

(* it leaves by another one *)
Break ==
  /\ pc = "round" /\ loop.exits \in {"latch", "abort"}
  /\ pc' = "broke"
  /\ UNCHANGED <<loop, count, iv, taken>>

(* a store in the loop that is no sum *)
Store(v) ==
  /\ pc = "round"
  /\ iv' = v
  /\ UNCHANGED <<loop, count, taken, pc>>

LoopNext ==
  \/ Insert \/ Unfound \/ Abort \/ Break
  \/ \E c \in Changes : Stay(c) \/ Leave(c)
  \/ \E v \in loop.others : Store(v)

LoopSpec == LoopInit /\ [][LoopNext]_loopVars

----------------------------------------------------------------------------
LoopTypeOK ==
  /\ loop \in Loop
  /\ count \in -Half .. Half - 1 \cup {NotFound}
  /\ iv \in -loop.half .. loop.half - 1
  /\ taken \in 0 .. MaxRounds
  /\ pc \in {"preheader", "round", "left", "broke", "unfound", "aborted"}
  /\ (count = NotFound) = (pc \in {"preheader", "unfound", "aborted"})

(***************************************************************************)
(* The loops the formula is meant for.  The body changes the variable by   *)
(* one constant and in one place; the exit of a loop over memory comes     *)
(* before its step.                                                        *)
(***************************************************************************)
OneChange(l) ==
  /\ \A c \in Range(l.steps) : c = Step(l)
  /\ l.others = {} /\ ~l.skips
  /\ l.variable = "memory" => l.tested = "old"

(* the first value the exit compares *)
FirstTested(l) == IF l.tested = "new" THEN l.start + Step(l) ELSE l.start

(* a narrow type is extended by zeros, so its values must not be negative *)
Fits(l) ==
  /\ \A v \in {l.start, l.end, Step(l)} : -Half <= v /\ v < Half
  /\ l.half < Half \/ l.unsigned => l.start >= 0 /\ Step(l) > 0
  /\ l.compared < Half \/ l.unsigned => l.end >= 0

(* the distance, with a step to spare, stays in both types *)
NoOverflow(l) ==
  LET far == IF Step(l) > 0 THEN l.end - l.start + Step(l)
                            ELSE l.start - l.end - Step(l)
      h == IF l.half < l.compared THEN l.half ELSE l.compared
  IN /\ -Half < far /\ far < Half
     /\ \A v \in {l.start, l.end} :
          -h <= v /\ v < h /\ -h <= v + Step(l) /\ v + Step(l) < h

(* the loop is entered and steps towards its end *)
Towards(l) ==
  \/ l.predicate = "SLT" /\ Step(l) > 0 /\ FirstTested(l) <= l.end
  \/ l.predicate = "SGT" /\ Step(l) > 0 /\ l.start <= l.end
  \/ /\ l.predicate \in {"EQ", "switch"}
     /\ IF Step(l) > 0 THEN FirstTested(l) <= l.end ELSE l.end <= FirstTested(l)

(* some round compares the end itself *)
MeetsEnd(l) == (l.end - l.start) % (IF Step(l) > 0 THEN Step(l) ELSE -Step(l)) = 0

IsMeant(l) == OneChange(l) /\ Fits(l) /\ NoOverflow(l) /\ Towards(l)

(***************************************************************************)
(* The count is what SCEV calls the backedge-taken count, the value the    *)
(* other build of this pass inserts: for every loop the formula is meant   *)
(* for it is exact when the loop stops at its end, or behind it in the     *)
(* form i > end.                                                           *)
(***************************************************************************)
CountIsExact ==
  pc = "left" /\ IsMeant(loop) /\ (MeetsEnd(loop) \/ loop.predicate = "SGT")
    => count = taken

(***************************************************************************)
(* Otherwise, in the form i < end, the division loses the last round, and  *)
(* no more; a loop that leaves early has taken no more rounds than that.   *)
(***************************************************************************)
CountIsClose ==
  pc \in {"round", "left", "broke"} /\ IsMeant(loop) /\
  (MeetsEnd(loop) \/ loop.predicate \in {"SGT", "SLT"})
    => /\ taken <= count + 1
       /\ pc = "left" => count <= taken

(***************************************************************************)
(* "if(step&&PrevStep) Assert(step == PrevStep)": a count is inserted only *)
(* when all the steps a phi merges are the same, in a build that has the   *)
(* assertion.                                                              *)
(***************************************************************************)
StepsAgree ==
  count # NotFound => \A c \in Range(loop.steps) : c = Step(loop)
============================================================================
