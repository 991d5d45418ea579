---------------------------- MODULE ReduceProofs ----------------------------
(***************************************************************************)
(* Proofs about Reduce, for every module of functions and calls and every  *)
(* order in which Reduce deletes them: type correctness, that the count of *)
(* MPIStatistics covers the MPI calls left, and what follows from it; and  *)
(* that nothing is left to delete when it ends (FixpointInv), as long as   *)
(* no function was replaced that waits for the count to drop to 0.         *)
(***************************************************************************)
EXTENDS Reduce, FiniteSetTheorems, TLAPS

(***************************************************************************)
(* The blocks are lists of calls, and those of a function are its calls.   *)
(***************************************************************************)
LEMMA BlockTypes ==
  ASSUME NEW f \in Functions
  PROVE  /\ Blocks[f] \in Seq(Seq(Calls))
         /\ Len(Blocks[f]) \in Nat
         /\ \A b \in 1 .. Len(Blocks[f]) : Len(Blocks[f][b]) \in Nat
         /\ CallsOf(f) \subseteq Calls
<1>1. Blocks[f] \in Seq(Seq(Calls)) /\ Len(Blocks[f]) \in Nat
      /\ DOMAIN Blocks[f] = 1 .. Len(Blocks[f])
  BY ReduceAssumption
<1>2. ASSUME NEW b \in 1 .. Len(Blocks[f])
      PROVE  /\ Blocks[f][b] \in Seq(Calls)
             /\ Len(Blocks[f][b]) \in Nat
             /\ \A k \in DOMAIN Blocks[f][b] : Blocks[f][b][k] \in Calls
  <2>1. Blocks[f][b] \in Seq(Calls)
    BY <1>1
  <2>2. QED BY <2>1
<1>3. CallsOf(f) \subseteq Calls
  <2>1. SUFFICES ASSUME NEW c \in CallsOf(f) PROVE c \in Calls
    OBVIOUS
  <2>2. PICK b \in DOMAIN Blocks[f] : c \in {Blocks[f][b][k] : k \in DOMAIN Blocks[f][b]}
    BY DEF CallsOf
  <2>3. PICK k \in DOMAIN Blocks[f][b] : c = Blocks[f][b][k]
    BY <2>2
  <2>4. QED BY <1>1, <1>2, <2>3
<1>4. QED BY <1>1, <1>2, <1>3

(* sets of calls are finite *)
LEMMA FiniteCalls ==
  ASSUME NEW S, S \subseteq Calls
  PROVE  IsFiniteSet(S) /\ Cardinality(S) \in Nat
<1>1. IsFiniteSet(Calls)
  BY ReduceAssumption
<1>2. IsFiniteSet(S)
  BY <1>1, FS_Subset
<1>3. QED BY <1>2, FS_CardinalityType

(* where the loop over DirtyFunc is; the file is written last *)
Control ==
  /\ I >= 1
  /\ pc \in {"scan", "dae"} => I <= Len(Names)
  /\ report # "none" => pc = "done"

TypeInv == TypeOK /\ Control

LEMMA CurrentFunction ==
  ASSUME I \in Nat, I >= 1, I <= Len(Names)
  PROVE  I \in 1 .. Len(Names) /\ F \in Functions
BY ReduceAssumption DEF F

LEMMA BlockBounds ==
  ASSUME NEW b \in Nat, b >= 1, F \in Functions, ToBlock(b)
  PROVE  bb' \in Nat /\ end' \in Nat /\ at' \in Nat
<1>1. b <= Len(Blocks[F]) => Len(Blocks[F][b]) \in Nat
  BY BlockTypes
<1>2. QED BY <1>1 DEF ToBlock


----------------------------------------------------------------------------
(***************************************************************************)
(* Type correctness.                                                       *)
(***************************************************************************)
LEMMA TypeInvInit == Init => TypeInv
<1> SUFFICES ASSUME Init PROVE TypeInv
  OBVIOUS
<1>1. version \in [Functions -> Nat] /\ kind \in [Calls -> Kinds]
  BY DEF Init, Start
<1>2. /\ alive \subseteq Calls /\ functions \subseteq Functions
      /\ DirtyFunc \subseteq Functions /\ edges \subseteq Functions \X Functions
      /\ on_empty \subseteq Functions \X Nat
  BY DEF Init, Start
<1>3. Dirty \in BOOLEAN /\ Ret \in BOOLEAN
  BY Zenon DEF Init, Start
<1>4. QED BY <1>1, <1>2, <1>3 DEF Init, Start, TypeInv, TypeOK, Control

LEMMA TypeInvStep == TypeInv /\ [Next]_vars => TypeInv'
<1> SUFFICES ASSUME TypeInv, [Next]_vars PROVE TypeInv'
  OBVIOUS
<1> USE DEF TypeInv, TypeOK, Control, stats, scan
<1>1. CASE doInitialization
  <2>1. Cardinality({c \in Calls : Counted(c)}) \in Nat
    BY FiniteCalls
  <2>2. on_empty' \subseteq Functions \X Nat
    BY <1>1 DEF doInitialization
  <2>3. QED BY <1>1, <2>1, <2>2 DEF doInitialization
<1>2. CASE recaculate
  <2>1. CallGraph \subseteq Functions \X Functions
    BY DEF CallGraph
  <2>2. ReachedIn(CallGraph) \subseteq Functions
    BY DEF ReachedIn
  <2>3. Dirty' \in BOOLEAN
    BY <1>2, Zenon DEF recaculate
  <2>4. QED BY <1>2, <2>1, <2>2, <2>3 DEF recaculate
<1>3. CASE SkipClean
  BY <1>3 DEF SkipClean
<1>4. CASE SweepAgain
  <2>1. Dirty' \in BOOLEAN
    BY <1>4, Zenon DEF SweepAgain
  <2>2. QED BY <1>4, <2>1 DEF SweepAgain
<1>5. CASE RunIgnored
  BY <1>5 DEF RunIgnored
<1>6. CASE RunOnFunction
  <2>1. F \in Functions
    BY <1>6, CurrentFunction DEF RunOnFunction
  <2>2. bb' \in Nat /\ end' \in Nat /\ at' \in Nat
    BY <1>6, <2>1, BlockBounds DEF RunOnFunction
  <2>3. alive' \subseteq alive
    BY <1>6 DEF RunOnFunction, DeadStores
  <2>4. QED BY <1>6, <2>2, <2>3 DEF RunOnFunction
<1>7. ASSUME NEW c \in Calls, Keep(c) PROVE TypeInv'
  BY <1>7 DEF Keep, At
<1>8. ASSUME NEW c \in Calls, Delete(c) PROVE TypeInv'
  <2>1. ref_num' \in Nat
    BY <1>8, ReduceAssumption DEF Delete, unref
  <2>2. Wake => DirtyFunc' \subseteq Functions
    BY DEF Wake, Dangling
  <2>3. DirtyFunc' \subseteq Functions
    BY <1>8, <2>2 DEF Delete, unref
  <2>4. end' \in Nat /\ at' = end'
    BY <1>8 DEF Delete, At
  <2>5. alive' \subseteq alive
    BY <1>8 DEF Delete
  <2>6. QED BY <1>8, <2>1, <2>3, <2>4, <2>5 DEF Delete, At
<1>9. CASE NextBlock
  <2>1. F \in Functions
    BY <1>9, CurrentFunction DEF NextBlock
  <2>2. bb' \in Nat /\ end' \in Nat /\ at' \in Nat
    BY <1>9, <2>1, BlockBounds DEF NextBlock
  <2>3. alive' \subseteq alive
    BY <1>9 DEF NextBlock, DeadStores
  <2>4. QED BY <1>9, <2>2, <2>3 DEF NextBlock
<1>10. CASE ReturnFalse
  BY <1>10 DEF ReturnFalse
<1>11. ASSUME NEW gone \in SUBSET Calls, ReturnTrue(gone) PROVE TypeInv'
  <2>1. F \in Functions
    BY <1>11, CurrentFunction DEF ReturnTrue
  <2>2. DirtyFunc' \subseteq Functions
    BY <1>11, <2>1 DEF ReturnTrue
  <2>3. QED BY <1>11, <2>2 DEF ReturnTrue
<1>12. CASE SameFunction
  BY <1>12 DEF SameFunction
<1>13. CASE NewFunction
  <2>1. F \in Functions
    BY <1>13, CurrentFunction DEF NewFunction
  <2>2. version' \in [Functions -> Nat]
    BY <1>13, <2>1 DEF NewFunction
  <2>3. QED BY <1>13, <2>2 DEF NewFunction
<1>14. CASE RemoveDeadFunction
  BY <1>14 DEF RemoveDeadFunction
<1>15. CASE doFinalization
  BY <1>15 DEF doFinalization
<1>16. CASE UNCHANGED vars
  BY <1>16 DEF vars
<1>17. QED
  BY <1>1, <1>2, <1>3, <1>4, <1>5, <1>6, <1>7, <1>8, <1>9, <1>10, <1>11, <1>12, <1>13, <1>14, <1>15, <1>16 DEF Next

(* TypeOK, for every module and every way the pass may go (Reduce.cpp).     *)
THEOREM TypeCorrect == Spec => []TypeOK
<1>1. Spec => []TypeInv
  BY TypeInvInit, TypeInvStep, PTL DEF Spec
<1>2. TypeInv => TypeOK
  BY DEF TypeInv
<1>3. QED BY <1>1, <1>2, PTL

----------------------------------------------------------------------------
(***************************************************************************)
(* The count covers the calls.  Only Delete lowers ref_num, once for a     *)
(* counted call it takes out of alive; whatever else removes calls leaves  *)
(* ref_num alone.                                                          *)
(***************************************************************************)
LEMMA CountedTypes ==
  ASSUME TypeInv
  PROVE  IsFiniteSet(AliveCounted) /\ Cardinality(AliveCounted) \in Nat
BY FiniteCalls DEF AliveCounted, TypeInv, TypeOK

(* a step that removes calls and counts none keeps the count covering *)
LEMMA FewerCalls ==
  ASSUME TypeInv, TypeInv', CountCovers, pc # "doInitialization",
         alive' \subseteq alive, UNCHANGED <<kind, ref_num>>
  PROVE  CountCovers'
<1>1. AliveCounted' \subseteq AliveCounted
  BY DEF AliveCounted, Counted
<1>2. Cardinality(AliveCounted') <= Cardinality(AliveCounted)
  BY <1>1, CountedTypes, FS_Subset
<1>3. Cardinality(AliveCounted') \in Nat /\ Cardinality(AliveCounted) \in Nat
  BY CountedTypes, FiniteCalls DEF AliveCounted, TypeInv, TypeOK
<1>4. QED BY <1>2, <1>3 DEF CountCovers, TypeInv, TypeOK

LEMMA CountInitially ==
  ASSUME TypeInv, TypeInv', doInitialization PROVE CountCovers'
<1>1. AliveCounted' \subseteq {c \in Calls : Counted(c)}
  BY DEF doInitialization, AliveCounted, Counted, TypeInv, TypeOK
<1>2. Cardinality(AliveCounted') <= Cardinality({c \in Calls : Counted(c)})
  BY <1>1, FiniteCalls, FS_Subset
<1>3. QED BY <1>2 DEF CountCovers, doInitialization

LEMMA CountDeleted ==
  ASSUME TypeInv, TypeInv', CountCovers, NEW c \in Calls, Delete(c)
  PROVE  CountCovers'
<1>1. c \in alive /\ alive' \subseteq alive \ {c} /\ UNCHANGED kind /\ pc # "doInitialization"
  BY DEF Delete, At, MayDelete
<1>2. CASE ~Counted(c)
  <2>1. UNCHANGED ref_num
    BY <1>2 DEF Delete
  <2>2. QED BY <1>1, <2>1, FewerCalls
<1>3. CASE Counted(c)
  <2>1. AliveCounted' \subseteq AliveCounted \ {c} /\ c \in AliveCounted
    BY <1>1, <1>3 DEF AliveCounted, Counted
  <2>2. Cardinality(AliveCounted') <= Cardinality(AliveCounted) - 1
    <3>1. /\ IsFiniteSet(AliveCounted \ {c})
          /\ Cardinality(AliveCounted \ {c}) = Cardinality(AliveCounted) - 1
      BY <2>1, CountedTypes, FS_RemoveElement
    <3>2. Cardinality(AliveCounted') <= Cardinality(AliveCounted \ {c})
      BY <2>1, <3>1, FS_Subset
    <3>3. QED BY <3>1, <3>2
  <2>3. AliveCounted # {} /\ Cardinality(AliveCounted) # 0
    BY <2>1, CountedTypes, FS_EmptySet
  <2>4. ref_num > 0 /\ Cardinality(AliveCounted) <= ref_num
    BY <1>1, <2>3, CountedTypes DEF CountCovers, TypeInv, TypeOK
  <2>5. ref_num' = ref_num - 1
    BY <1>3, <2>4 DEF Delete, unref, TypeInv, TypeOK
  <2>6. Cardinality(AliveCounted') \in Nat
    BY FiniteCalls DEF AliveCounted, TypeInv, TypeOK
  <2>7. QED BY <2>2, <2>4, <2>5, <2>6, CountedTypes DEF CountCovers, TypeInv, TypeOK
<1>4. QED BY <1>2, <1>3

CountInv == TypeInv /\ CountCovers

LEMMA CountInvStep == CountInv /\ [Next]_vars => CountInv'
<1> SUFFICES ASSUME CountInv, [Next]_vars PROVE CountInv'
  OBVIOUS
<1>1. TypeInv /\ TypeInv' /\ CountCovers
  BY TypeInvStep DEF CountInv
<1>2. CASE doInitialization
  BY <1>1, <1>2, CountInitially DEF CountInv
<1>3. ASSUME NEW c \in Calls, Delete(c) PROVE CountInv'
  BY <1>1, <1>3, CountDeleted DEF CountInv
<1>4. ASSUME NEW gone \in SUBSET Calls, ReturnTrue(gone) PROVE CountInv'
  BY <1>1, <1>4, FewerCalls DEF ReturnTrue, stats, CountInv
<1>5. CASE RemoveDeadFunction
  BY <1>1, <1>5, FewerCalls DEF RemoveDeadFunction, stats, CountInv
<1>6. CASE \/ recaculate \/ SkipClean \/ SweepAgain \/ RunIgnored \/ RunOnFunction
           \/ NextBlock \/ ReturnFalse \/ SameFunction \/ NewFunction \/ doFinalization
  <2>1. /\ pc # "doInitialization" /\ UNCHANGED <<kind, ref_num>>
        /\ alive' \subseteq alive
    BY <1>6 DEF recaculate, SkipClean, SweepAgain, RunIgnored, RunOnFunction, NextBlock,
         DeadStores, ReturnFalse, SameFunction, NewFunction, doFinalization, stats
  <2>2. QED BY <1>1, <2>1, FewerCalls DEF CountInv
<1>7. ASSUME NEW c \in Calls, Keep(c) PROVE CountInv'
  BY <1>1, <1>7, FewerCalls DEF Keep, At, stats, CountInv
<1>8. CASE UNCHANGED vars
  <2>1. UNCHANGED <<kind, alive, ref_num, pc>>
    BY <1>8 DEF vars, stats
  <2>2. CASE pc = "doInitialization"
    BY <1>1, <2>1, <2>2 DEF CountInv, CountCovers
  <2>3. CASE pc # "doInitialization"
    BY <1>1, <2>1, <2>3, FewerCalls DEF CountInv
  <2>4. QED BY <2>2, <2>3
<1>9. QED BY <1>2, <1>3, <1>4, <1>5, <1>6, <1>7, <1>8 DEF Next

LEMMA CountInvAlways == Spec => []CountInv
<1>1. Init => pc = "doInitialization"
  BY DEF Init, Start
<1>2. Init => CountInv
  BY <1>1, TypeInvInit DEF CountInv, CountCovers
<1>3. QED BY <1>2, CountInvStep, PTL DEF Spec

(* MPIStatistics::ref_num covers the counted calls left in the program,     *)
(* whatever the cleanup passes removed without unref.                      *)
THEOREM CountIsCovering == Spec => []CountCovers
<1>1. CountInv => CountCovers
  BY DEF CountInv
<1>2. QED BY <1>1, CountInvAlways, PTL

(* where the count is 0 no counted call is left *)
LEMMA EmptyCount ==
  ASSUME CountInv, pc # "doInitialization", ref_num = 0 PROVE AliveCounted = {}
<1>1. Cardinality(AliveCounted) = 0
  BY CountedTypes DEF CountInv, CountCovers
<1>2. QED BY <1>1, CountedTypes, FS_EmptySet DEF CountInv

(* mpi_delay_delete and mpi_comm_replace act only when every counted MPI    *)
(* call of the program is gone.                                            *)
THEOREM SetupIsSafe == Spec => SetupOutlivesUse
<1>1. ASSUME CountInv, [Next]_vars,
             NEW c \in alive \ alive', pc = "scan", at > 0, kind[c] \in DelayedKinds
      PROVE  AliveCounted = {}
  <2>1. PICK d \in Calls : Delete(d)
    <3>1. at \in Nat /\ at # 0
      BY <1>1 DEF CountInv, TypeInv, TypeOK
    <3>2. ~\E gone \in SUBSET Calls : ReturnTrue(gone)
      BY <3>1 DEF ReturnTrue
    <3>3. ~(\/ doInitialization \/ recaculate \/ SkipClean \/ SweepAgain \/ RunIgnored
            \/ RunOnFunction \/ NextBlock \/ ReturnFalse \/ SameFunction \/ NewFunction
            \/ RemoveDeadFunction \/ doFinalization \/ UNCHANGED vars)
      BY <1>1, <3>1 DEF doInitialization, recaculate, SkipClean, SweepAgain, RunIgnored,
           RunOnFunction, NextBlock, ReturnFalse, SameFunction, NewFunction,
           RemoveDeadFunction, doFinalization, vars
    <3>4. ~\E d \in Calls : Keep(d)
      BY <1>1 DEF Keep
    <3>5. QED BY <1>1, <3>2, <3>3, <3>4 DEF Next
  <2>2. c = d /\ ref_num = 0
    BY <1>1, <2>1 DEF Delete, DeletedWith, MayDelete, DelayedKinds
  <2>3. QED BY <1>1, <2>2, EmptyCount
<1>2. CountInv /\ [Next]_vars => [\A c \in alive \ alive' :
        pc = "scan" /\ at > 0 /\ kind[c] \in DelayedKinds => AliveCounted = {}]_vars
  BY <1>1
<1>3. QED BY <1>2, CountInvAlways, PTL DEF Spec, SetupOutlivesUse

(* the file doFinalization writes says 1 only if no counted call is left. *)
THEOREM ReportIsTrue == Spec => []ReportIsRight
<1>1. Init => ReportIsRight
  BY DEF Init, Start, ReportIsRight
<1>2. CountInv /\ ReportIsRight /\ [Next]_vars => ReportIsRight'
  <2> SUFFICES ASSUME CountInv, ReportIsRight, [Next]_vars, report' = "1"
               PROVE  AliveCounted' = {}
    BY DEF ReportIsRight
  <2>1. CASE report = "1"
    <3>1. pc = "done"
      BY <2>1 DEF CountInv, TypeInv, Control
    <3>2. UNCHANGED <<kind, alive>>
      BY <3>1 DEF Next, doInitialization, recaculate, SkipClean, SweepAgain, RunIgnored,
           RunOnFunction, Keep, Delete, At, NextBlock, ReturnFalse, ReturnTrue,
           SameFunction, NewFunction, RemoveDeadFunction, doFinalization, vars
    <3>3. QED BY <2>1, <3>2 DEF ReportIsRight, AliveCounted, Counted
  <2>2. CASE report # "1"
    <3>1. doFinalization
      BY <2>2 DEF Next, doInitialization, recaculate, SkipClean, SweepAgain, RunIgnored,
           RunOnFunction, Keep, Delete, NextBlock, ReturnFalse, ReturnTrue,
           SameFunction, NewFunction, RemoveDeadFunction, vars
    <3>2. ref_num = 0 /\ pc # "doInitialization" /\ UNCHANGED <<kind, alive>>
      BY <3>1 DEF doFinalization, CountInv, TypeInv, TypeOK
    <3>3. QED BY <3>2, EmptyCount DEF AliveCounted, Counted
  <2>3. QED BY <2>1, <2>2
<1>3. QED BY <1>1, <1>2, CountInvAlways, PTL DEF Spec

----------------------------------------------------------------------------
(***************************************************************************)
(* The fixpoint.  A function that main reaches is dirty or has nothing     *)
(* left (WorkIsDirty); while nothing was deleted in a sweep, what it has   *)
(* passed is not dirty (PassedIsClean), and while nothing was deleted in a *)
(* run of a function, what was looked at is kept for good                  *)
(* (ScannedIsClean).  A call is only freed to be deleted when the count    *)
(* drops to 0, and then its function waits to be woken (Waiting).          *)
(***************************************************************************)
CleanCall(c) ==
  c \in alive => /\ kind[c] \notin {"direct", "barrier"}
                 /\ ref_num = 0 => kind[c] \notin DelayedKinds

Clean(f) == \A c \in CallsOf(f) : CleanCall(c)

WorkIsDirty ==
  pc \notin {"doInitialization", "recaculate"} =>
    \A f \in ReachedIn(edges) \ Ignored : f \in DirtyFunc \/ Clean(f)

PassedIsClean ==
  /\ pc \in {"sweep", "scan"} /\ ~Dirty /\ (pc = "scan" => ~Ret) =>
       \A j \in DOMAIN Names : j < I => Names[j] \notin DirtyFunc
  /\ pc = "dae" => Dirty
  /\ pc \in {"clean", "done"} => DirtyFunc = {}

LookedAt(b, k) == b < bb \/ (b = bb /\ k > at)

ScannedIsClean ==
  pc = "scan" /\ ~Ret =>
    /\ bb >= 1 /\ at <= end
    /\ bb \in DOMAIN Blocks[F] => end = Len(Blocks[F][bb])
    /\ \A b \in DOMAIN Blocks[F] : \A k \in DOMAIN Blocks[F][b] :
         LookedAt(b, k) => CleanCall(Blocks[F][b][k])

Waiting ==
  pc # "doInitialization" =>
    \A f \in Functions : (\E c \in CallsOf(f) : Delayed(c)) => f \in {e[1] : e \in on_empty}

FixpointInv == CountInv /\ WorkIsDirty /\ PassedIsClean /\ ScannedIsClean /\ Waiting

(* the places in a block of a function *)
LEMMA Places ==
  ASSUME NEW f \in Functions
  PROVE  /\ DOMAIN Blocks[f] = 1 .. Len(Blocks[f]) /\ Len(Blocks[f]) \in Nat
         /\ \A b \in DOMAIN Blocks[f] : /\ DOMAIN Blocks[f][b] = 1 .. Len(Blocks[f][b])
                                        /\ Len(Blocks[f][b]) \in Nat
         /\ \A c \in CallsOf(f) : \E b \in DOMAIN Blocks[f] : \E k \in DOMAIN Blocks[f][b] :
              c = Blocks[f][b][k]
<1>1. Blocks[f] \in Seq(Seq(Calls)) /\ DOMAIN Blocks[f] = 1 .. Len(Blocks[f])
      /\ Len(Blocks[f]) \in Nat
  BY ReduceAssumption
<1>2. ASSUME NEW b \in DOMAIN Blocks[f]
      PROVE  DOMAIN Blocks[f][b] = 1 .. Len(Blocks[f][b]) /\ Len(Blocks[f][b]) \in Nat
  <2>1. Blocks[f][b] \in Seq(Calls)
    BY <1>1
  <2>2. QED BY <2>1
<1>3. ASSUME NEW c \in CallsOf(f)
      PROVE  \E b \in DOMAIN Blocks[f] : \E k \in DOMAIN Blocks[f][b] : c = Blocks[f][b][k]
  <2>1. PICK b \in DOMAIN Blocks[f] : c \in {Blocks[f][b][k] : k \in DOMAIN Blocks[f][b]}
    BY DEF CallsOf
  <2>2. QED BY <2>1
<1>4. QED BY <1>1, <1>2, <1>3

(* a call stays clean unless the count drops to 0 *)
LEMMA StaysClean ==
  ASSUME alive' \subseteq alive, UNCHANGED kind, ref_num' = ref_num,
         NEW c, CleanCall(c)
  PROVE  CleanCall(c)'
BY DEF CleanCall

(* what a step leaves dirty that marks functions and deletes calls *)
LEMMA WorkKept ==
  ASSUME WorkIsDirty, pc \notin {"doInitialization", "recaculate"},
         alive' \subseteq alive, UNCHANGED <<kind, ref_num, edges>>,
         \A f \in ReachedIn(edges) \ Ignored : f \in DirtyFunc => f \in DirtyFunc' \/ Clean(f)'
  PROVE  WorkIsDirty'
<1>1. ReachedIn(edges)' = ReachedIn(edges)
  BY DEF ReachedIn
<1>2. \A f : Clean(f) => Clean(f)'
  BY StaysClean DEF Clean
<1>3. QED BY <1>1, <1>2 DEF WorkIsDirty

(* the first place of a block: nothing of it was looked at *)
LEMMA FreshBlock ==
  ASSUME NEW b \in Nat, b >= 1, F \in Functions, UNCHANGED I, ToBlock(b),
         \A a \in DOMAIN Blocks[F] : \A k \in DOMAIN Blocks[F][a] :
           a < b => CleanCall(Blocks[F][a][k])'
  PROVE  ScannedIsClean'
<1>1. F' = F
  BY DEF F
<1>2. bb' = b /\ at' = end'
  BY DEF ToBlock
<1>3. ASSUME b \in DOMAIN Blocks[F]
      PROVE  end' = Len(Blocks[F][b])
  BY <1>3, Places DEF ToBlock
<1>4. end' \in Nat
  BY BlockBounds
<1>5. ASSUME NEW a \in DOMAIN Blocks[F], NEW k \in DOMAIN Blocks[F][a], LookedAt(a, k)'
      PROVE  CleanCall(Blocks[F][a][k])'
  <2>1. a < b \/ (a = b /\ k > at')
    BY <1>2, <1>5 DEF LookedAt
  <2>2. CASE a < b
    BY <2>2
  <2>3. CASE a = b /\ k > at'
    <3>1. k \in 1 .. Len(Blocks[F][b]) /\ at' = Len(Blocks[F][b]) /\ Len(Blocks[F][b]) \in Nat
      BY <1>2, <1>3, <2>3, Places
    <3>2. QED BY <2>3, <3>1
  <2>4. QED BY <2>1, <2>2, <2>3
<1>6. QED BY <1>1, <1>2, <1>3, <1>4, <1>5 DEF ScannedIsClean

(* a function with nothing left when its run ends without a deletion *)
LEMMA RunIsClean ==
  ASSUME ScannedIsClean, TypeInv, pc = "scan", ~Ret, at = 0, bb >= Len(Blocks[F])
  PROVE  Clean(F)
<1>1. F \in Functions
  BY CurrentFunction DEF TypeInv, TypeOK, Control
<1>2. ASSUME NEW b \in DOMAIN Blocks[F], NEW k \in DOMAIN Blocks[F][b]
      PROVE  LookedAt(b, k)
  <2>1. /\ b \in 1 .. Len(Blocks[F]) /\ k \in 1 .. Len(Blocks[F][b])
        /\ Len(Blocks[F]) \in Nat /\ Len(Blocks[F][b]) \in Nat /\ bb \in Nat
    BY <1>1, Places DEF TypeInv, TypeOK
  <2>2. QED BY <2>1 DEF LookedAt
<1>3. QED BY <1>1, <1>2, Places DEF ScannedIsClean, Clean

(* deleting a call, when the closures that wake are sound *)
LEMMA DeleteFixpoint ==
  ASSUME FixpointInv, NEW c \in Calls, Delete(c),
         ref_num' = 0 /\ ref_num # 0 => Dangling = {}
  PROVE  FixpointInv'
<1>1. CountInv' /\ TypeInv /\ CountCovers
  <2>1. Next
    BY DEF Next
  <2>2. QED BY <2>1, CountInvStep DEF FixpointInv, CountInv
<1>2. /\ c \in alive /\ alive' \subseteq alive /\ UNCHANGED <<kind, edges, on_empty>>
      /\ pc = "scan" /\ pc' = pc /\ Ret'
      /\ IF Counted(c) THEN unref ELSE UNCHANGED <<ref_num, DirtyFunc>>
  BY Zenon DEF Delete, At, MayDelete
<1>3. Waiting'
  BY <1>2 DEF FixpointInv, Waiting, Delayed
<1>4. PassedIsClean' /\ ScannedIsClean'
  BY <1>2 DEF PassedIsClean, ScannedIsClean
<1>5. DirtyFunc \subseteq DirtyFunc'
  BY <1>2 DEF unref, Wake
<1>6. WorkIsDirty'
  <2>1. CASE ref_num' = ref_num
    BY <1>2, <1>5, <2>1, WorkKept DEF FixpointInv
  <2>2. CASE ref_num' # ref_num
    <3>1. Counted(c) /\ unref
      BY <1>2, <2>2
    <3>2. ref_num \in Nat /\ ref_num # 0 /\ ref_num' = ref_num - 1
      <4>1. c \in AliveCounted
        BY <1>2, <3>1 DEF AliveCounted
      <4>2. ref_num # 0
        BY <1>2, <4>1, EmptyCount DEF FixpointInv
      <4>3. QED BY <1>1, <3>1, <4>2 DEF unref, TypeInv, TypeOK
    <3>3. ReachedIn(edges)' = ReachedIn(edges) /\ ReachedIn(edges) \subseteq Functions
      BY <1>2 DEF ReachedIn
    <3>4. ASSUME NEW f \in ReachedIn(edges) \ Ignored, f \notin DirtyFunc'
          PROVE  Clean(f)'
      <4>1. Clean(f)
        BY <1>2, <1>5, <3>4 DEF FixpointInv, WorkIsDirty
      <4>2. CASE ref_num' # 0
        BY <1>2, <3>2, <4>1, <4>2 DEF Clean, CleanCall
      <4>3. CASE ref_num' = 0
        <5>1. {e[1] : e \in on_empty} \subseteq DirtyFunc'
          BY <3>1, <3>2, <4>3 DEF unref, Wake
        <5>2. \A d \in CallsOf(f) : ~Delayed(d)
          BY <1>2, <3>3, <3>4, <5>1 DEF FixpointInv, Waiting
        <5>3. QED BY <1>2, <4>1, <5>2 DEF Clean, CleanCall, Delayed, MpiDelayDelete
      <4>4. QED BY <4>2, <4>3
    <3>5. QED BY <3>3, <3>4 DEF WorkIsDirty
  <2>3. QED BY <2>1, <2>2
<1>7. QED BY <1>1, <1>3, <1>4, <1>6 DEF FixpointInv

LEMMA FixpointStep ==
  ASSUME FixpointInv, [Next]_vars, ref_num' = 0 /\ ref_num # 0 => Dangling = {}
  PROVE  FixpointInv'
<1>1. CountInv /\ CountInv' /\ TypeInv /\ TypeOK /\ Control
  BY CountInvStep DEF FixpointInv, CountInv, TypeInv
<1>2. WorkIsDirty /\ PassedIsClean /\ ScannedIsClean /\ Waiting
  BY DEF FixpointInv
<1> USE DEF stats, scan
<1>3. CASE doInitialization
  <2>1. pc' = "recaculate"
    BY <1>3 DEF doInitialization
  <2>2. ASSUME NEW f \in Functions, NEW c \in CallsOf(f), Delayed(c)
        PROVE  f \in {e[1] : e \in on_empty'}
    <3>1. <<f, version[f]>> \in on_empty'
      BY <1>3, <2>2 DEF doInitialization
    <3>2. <<f, version[f]>>[1] = f
      OBVIOUS
    <3>3. QED BY <3>1, <3>2
  <2>3. kind' = kind
    BY <1>3 DEF doInitialization
  <2>4. Waiting'
    BY <2>2, <2>3 DEF Waiting, Delayed
  <2>5. QED BY <1>1, <2>1, <2>4 DEF FixpointInv, WorkIsDirty, PassedIsClean, ScannedIsClean
<1>4. ASSUME pc # "doInitialization", UNCHANGED <<kind, on_empty>>
      PROVE  Waiting'
  BY <1>2, <1>4 DEF Waiting, Delayed
<1>5. CASE recaculate
  <2>1. pc = "recaculate" /\ pc' = "sweep" /\ I' = 1
        /\ edges' = CallGraph /\ DirtyFunc' = ReachedIn(CallGraph) /\ UNCHANGED <<kind, on_empty>>
    BY <1>5 DEF recaculate
  <2>2. ReachedIn(edges)' = DirtyFunc'
    BY <2>1 DEF ReachedIn
  <2>3. \A j \in DOMAIN Names : ~(j < I')
    BY <2>1, ReduceAssumption
  <2>4. QED BY <1>1, <1>4, <2>1, <2>2, <2>3 DEF FixpointInv, WorkIsDirty, PassedIsClean, ScannedIsClean
<1>6. CASE SkipClean
  <2>1. /\ pc = "sweep" /\ pc' = pc /\ F \notin DirtyFunc /\ I' = I + 1
        /\ UNCHANGED <<kind, alive, ref_num, on_empty, DirtyFunc, edges, Dirty>>
    BY <1>6 DEF SkipClean
  <2>2. WorkIsDirty'
    BY <1>2, <2>1, WorkKept
  <2>3. ASSUME NEW j \in DOMAIN Names, j < I + 1
        PROVE  j < I \/ j = I
    BY <1>1, <2>3, ReduceAssumption DEF TypeOK
  <2>4. PassedIsClean'
    BY <1>2, <2>1, <2>3 DEF PassedIsClean, F
  <2>5. QED BY <1>1, <1>4, <2>1, <2>2, <2>4 DEF FixpointInv, ScannedIsClean
<1>7. CASE SweepAgain
  <2>1. /\ pc = "sweep" /\ pc' = (IF Dirty THEN "sweep" ELSE "clean") /\ I' = 1 /\ I > Len(Names)
        /\ UNCHANGED <<kind, alive, ref_num, on_empty, DirtyFunc, edges>>
    BY <1>7 DEF SweepAgain
  <2>2. pc' \in {"sweep", "clean"}
    BY <2>1
  <2>3. WorkIsDirty'
    BY <1>2, <2>1, WorkKept
  <2>4. \A j \in DOMAIN Names : ~(j < I')
    BY <2>1, ReduceAssumption
  <2>5. ASSUME pc' = "clean"
        PROVE  DirtyFunc' = {}
    <3>1. ~Dirty
      BY <2>1, <2>5
    <3>2. ASSUME NEW f \in DirtyFunc
          PROVE  FALSE
      <4>1. f \in Functions
        BY <1>1, <3>2 DEF TypeOK
      <4>2. PICK j \in DOMAIN Names : Names[j] = f
        BY <4>1, ReduceAssumption
      <4>3. j < I
        BY <1>1, <2>1, <4>2, ReduceAssumption DEF TypeOK
      <4>4. QED BY <1>2, <2>1, <3>1, <3>2, <4>2, <4>3 DEF PassedIsClean
    <3>3. QED BY <2>1, <3>2
  <2>6. PassedIsClean'
    BY <2>2, <2>4, <2>5 DEF PassedIsClean
  <2>7. QED BY <1>1, <1>4, <2>1, <2>2, <2>3, <2>6 DEF FixpointInv, ScannedIsClean
<1>8. CASE RunIgnored
  <2>1. /\ pc = "sweep" /\ pc' = pc /\ F \in Ignored /\ DirtyFunc' = DirtyFunc \ {F}
        /\ UNCHANGED <<kind, alive, ref_num, on_empty, edges, Dirty, I>>
    BY <1>8 DEF RunIgnored
  <2>2. WorkIsDirty'
    BY <1>2, <2>1, WorkKept
  <2>3. PassedIsClean'
    BY <1>2, <2>1 DEF PassedIsClean
  <2>4. QED BY <1>1, <1>4, <2>1, <2>2, <2>3 DEF FixpointInv, ScannedIsClean
<1>9. CASE RunOnFunction
  <2>1. /\ pc = "sweep" /\ pc' = "scan" /\ alive' \subseteq alive /\ ToBlock(1) /\ ~Ret'
        /\ UNCHANGED <<kind, ref_num, on_empty, edges, Dirty, I, DirtyFunc>> /\ I <= Len(Names)
    BY <1>9, Zenon DEF RunOnFunction, DeadStores
  <2>2. WorkIsDirty'
    BY <1>2, <2>1, WorkKept
  <2>3. PassedIsClean'
    BY <1>2, <2>1 DEF PassedIsClean
  <2>4. F \in Functions
    BY <1>1, <2>1, CurrentFunction DEF TypeOK, Control
  <2>5. \A a \in DOMAIN Blocks[F] : ~(a < 1)
    BY <2>4, Places
  <2>6. ScannedIsClean'
    BY <2>1, <2>4, <2>5, FreshBlock
  <2>7. QED BY <1>1, <1>4, <2>1, <2>2, <2>3, <2>6 DEF FixpointInv
<1>10. ASSUME NEW c \in Calls, Keep(c)
       PROVE  FixpointInv'
  <2>1. /\ pc = "scan" /\ pc' = pc /\ at > 0 /\ c = Blocks[F][bb][at] /\ at' = at - 1 /\ MayKeep(c)
        /\ UNCHANGED <<kind, alive, ref_num, on_empty, edges, Dirty, I, DirtyFunc, bb, end, Ret>>
    BY <1>10 DEF Keep, At
  <2>2. WorkIsDirty' /\ PassedIsClean'
    BY <1>2, <2>1, WorkKept DEF PassedIsClean
  <2>3. CleanCall(c)
    BY <2>1 DEF CleanCall, MayKeep, DelayedKinds
  <2>4. F \in Functions /\ F' = F
    BY <1>1, <2>1, CurrentFunction DEF TypeOK, Control, F
  <2>5. ScannedIsClean'
    <3> SUFFICES ASSUME ~Ret PROVE ScannedIsClean'
      BY <2>1 DEF ScannedIsClean
    <3>1. /\ bb >= 1 /\ at <= end
          /\ bb \in DOMAIN Blocks[F] => end = Len(Blocks[F][bb])
          /\ \A b \in DOMAIN Blocks[F] : \A k \in DOMAIN Blocks[F][b] :
               LookedAt(b, k) => CleanCall(Blocks[F][b][k])
      BY <1>2, <2>1 DEF ScannedIsClean
    <3>2. at - 1 <= end
      BY <1>1, <3>1 DEF TypeOK
    <3>3. ASSUME NEW b \in DOMAIN Blocks[F], NEW k \in DOMAIN Blocks[F][b], LookedAt(b, k)'
          PROVE  CleanCall(Blocks[F][b][k])'
      <4>1. b < bb \/ (b = bb /\ k > at - 1)
        BY <2>1, <3>3 DEF LookedAt
      <4>2. k \in Nat /\ at \in Nat
        BY <1>1, <2>4, Places DEF TypeOK
      <4>3. LookedAt(b, k) \/ (b = bb /\ k = at)
        BY <4>1, <4>2 DEF LookedAt
      <4>4. CleanCall(Blocks[F][b][k])
        BY <2>1, <2>3, <3>1, <4>3
      <4>5. QED BY <2>1, <2>4, <4>4, StaysClean
    <3>4. QED BY <2>1, <2>4, <3>1, <3>2, <3>3 DEF ScannedIsClean
  <2>6. QED BY <1>1, <1>4, <2>1, <2>2, <2>5 DEF FixpointInv
<1>11. ASSUME NEW c \in Calls, Delete(c)
       PROVE  FixpointInv'
  BY <1>11, DeleteFixpoint
<1>12. CASE NextBlock
  <2>1. /\ pc = "scan" /\ pc' = pc /\ at = 0 /\ alive' \subseteq alive /\ ToBlock(bb + 1)
        /\ UNCHANGED <<kind, ref_num, on_empty, edges, Dirty, I, DirtyFunc, Ret>>
    BY <1>12 DEF NextBlock, DeadStores
  <2>2. WorkIsDirty' /\ PassedIsClean'
    BY <1>2, <2>1, WorkKept DEF PassedIsClean
  <2>3. F \in Functions /\ bb \in Nat /\ F' = F
    BY <1>1, <2>1, CurrentFunction DEF TypeOK, Control, F
  <2>4. ScannedIsClean'
    <3> SUFFICES ASSUME ~Ret PROVE ScannedIsClean'
      BY <2>1 DEF ScannedIsClean
    <3>1. ASSUME NEW b \in DOMAIN Blocks[F], NEW k \in DOMAIN Blocks[F][b], b < bb + 1
          PROVE  CleanCall(Blocks[F][b][k])'
      <4>1. b \in Nat /\ k \in Nat /\ k > 0
        BY <2>3, Places
      <4>2. LookedAt(b, k)
        BY <2>1, <2>3, <3>1, <4>1 DEF LookedAt
      <4>3. CleanCall(Blocks[F][b][k])
        BY <1>2, <2>1, <4>2 DEF ScannedIsClean
      <4>4. QED BY <2>1, <2>3, <4>3, StaysClean
    <3>2. bb + 1 \in Nat /\ bb + 1 >= 1
      BY <2>3
    <3>3. QED BY <2>1, <2>3, <3>1, <3>2, FreshBlock
  <2>5. QED BY <1>1, <1>4, <2>1, <2>2, <2>4 DEF FixpointInv
<1>13. CASE ReturnFalse
  <2>1. /\ pc = "scan" /\ pc' = "sweep" /\ at = 0 /\ bb >= Len(Blocks[F]) /\ ~Ret
        /\ DirtyFunc' = DirtyFunc \ {F}
        /\ UNCHANGED <<kind, alive, ref_num, on_empty, edges, Dirty, I>>
    BY <1>13 DEF ReturnFalse
  <2>2. Clean(F)
    BY <1>1, <1>2, <2>1, RunIsClean
  <2>3. Clean(F)'
    <3>1. F' = F
      BY <2>1 DEF F
    <3>2. QED BY <2>1, <2>2, <3>1, StaysClean DEF Clean
  <2>4. \A f : f = F => Clean(f)'
    BY <2>1, <2>2, StaysClean DEF Clean
  <2>5. WorkIsDirty'
    BY <1>2, <2>1, <2>4, WorkKept
  <2>6. PassedIsClean'
    BY <1>2, <2>1 DEF PassedIsClean
  <2>7. QED BY <1>1, <1>4, <2>1, <2>5, <2>6 DEF FixpointInv, ScannedIsClean
<1>14. ASSUME NEW gone \in SUBSET Calls, ReturnTrue(gone)
       PROVE  FixpointInv'
  <2>1. /\ pc = "scan" /\ pc' = "dae" /\ alive' \subseteq alive /\ Dirty'
        /\ DirtyFunc \subseteq DirtyFunc' /\ UNCHANGED <<kind, ref_num, on_empty, edges>>
    BY <1>14, Zenon DEF ReturnTrue
  <2>2. WorkIsDirty' /\ PassedIsClean'
    BY <1>2, <2>1, WorkKept DEF PassedIsClean
  <2>3. QED BY <1>1, <1>4, <2>1, <2>2 DEF FixpointInv, ScannedIsClean
<1>15. CASE SameFunction
  <2>1. /\ pc = "dae" /\ pc' = "sweep" /\ Dirty' = Dirty
        /\ UNCHANGED <<kind, alive, ref_num, on_empty, edges, DirtyFunc>>
    BY <1>15 DEF SameFunction
  <2>2. WorkIsDirty' /\ PassedIsClean'
    BY <1>2, <2>1, WorkKept DEF PassedIsClean
  <2>3. QED BY <1>1, <1>4, <2>1, <2>2 DEF FixpointInv, ScannedIsClean
<1>16. CASE NewFunction
  <2>1. pc = "dae" /\ pc' = "recaculate" /\ UNCHANGED <<kind, on_empty>>
    BY <1>16 DEF NewFunction
  <2>2. QED BY <1>1, <1>4, <2>1 DEF FixpointInv, WorkIsDirty, PassedIsClean, ScannedIsClean
<1>17. CASE RemoveDeadFunction \/ doFinalization
  <2>1. /\ pc = "clean" /\ pc' \in {"clean", "done"} /\ alive' \subseteq alive
        /\ UNCHANGED <<kind, ref_num, on_empty, edges, DirtyFunc>>
    BY <1>17 DEF RemoveDeadFunction, doFinalization
  <2>2. WorkIsDirty' /\ PassedIsClean'
    BY <1>2, <2>1, WorkKept DEF PassedIsClean
  <2>3. QED BY <1>1, <1>4, <2>1, <2>2 DEF FixpointInv, ScannedIsClean
<1>18. CASE UNCHANGED vars
  <2>1. /\ UNCHANGED <<kind, alive, ref_num, on_empty, edges, DirtyFunc, Dirty, I, bb, end, at, Ret, pc>>
    BY <1>18 DEF vars
  <2>2. ReachedIn(edges)' = ReachedIn(edges) /\ F' = F /\ \A c : CleanCall(c)' <=> CleanCall(c)
    BY <2>1 DEF ReachedIn, F, CleanCall
  <2>3. WorkIsDirty'
    BY <1>2, <2>1, <2>2 DEF WorkIsDirty, Clean
  <2>4. PassedIsClean' /\ Waiting'
    BY <1>2, <2>1 DEF PassedIsClean, Waiting, Delayed
  <2>5. ScannedIsClean'
    BY <1>2, <2>1, <2>2 DEF ScannedIsClean, LookedAt
  <2>6. QED BY <1>1, <2>3, <2>4, <2>5 DEF FixpointInv
<1>19. QED
  BY <1>3, <1>5, <1>6, <1>7, <1>8, <1>9, <1>10, <1>11, <1>12, <1>13, <1>14, <1>15, <1>16,
     <1>17, <1>18 DEF Next

(***************************************************************************)
(* When runOnModule ends it has left nothing to do in a function that main *)
(* reaches, unless a closure of _on_empty was run on a function object     *)
(* that dead argument elimination had replaced.                            *)
(***************************************************************************)
THEOREM FixpointReached == Spec /\ NoDanglingWake => []NothingLeft
<1>1. Init => FixpointInv
  <2> SUFFICES ASSUME Init PROVE FixpointInv
    OBVIOUS
  <2>1. pc = "doInitialization"
    BY DEF Init, Start
  <2>2. CountInv
    BY <2>1, TypeInvInit DEF CountInv, CountCovers
  <2>3. QED BY <2>1, <2>2 DEF FixpointInv, WorkIsDirty, PassedIsClean, ScannedIsClean, Waiting
<1>2. FixpointInv /\ [Next]_vars /\ [ref_num' = 0 /\ ref_num # 0 => Dangling = {}]_vars
        => FixpointInv'
  <2> SUFFICES ASSUME FixpointInv, [Next]_vars,
                      [ref_num' = 0 /\ ref_num # 0 => Dangling = {}]_vars
               PROVE  FixpointInv'
    OBVIOUS
  <2>1. ref_num' = 0 /\ ref_num # 0 => Dangling = {}
    BY DEF vars, stats
  <2>2. QED BY <2>1, FixpointStep
<1>3. FixpointInv => NothingLeft
  <2> SUFFICES ASSUME FixpointInv, pc = "done",
                      NEW f \in (ReachedIn(edges) \cap functions) \ Ignored,
                      NEW c \in CallsOf(f) \cap alive
               PROVE  CleanCall(c)
    BY DEF NothingLeft, CleanCall
  <2>1. DirtyFunc = {}
    BY DEF FixpointInv, PassedIsClean
  <2>2. Clean(f)
    BY <2>1 DEF FixpointInv, WorkIsDirty
  <2>3. QED BY <2>2 DEF Clean
<1>4. QED BY <1>1, <1>2, <1>3, PTL DEF Spec, NoDanglingWake

=============================================================================
