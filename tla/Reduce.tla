------------------------------- MODULE Reduce -------------------------------
(***************************************************************************)
(* ReduceCode (Reduce.h, Reduce.cpp), the pass that deletes the calls a    *)
(* program can do without, MPI calls first.  It runs a function again and  *)
(* again until nothing in it can be deleted, lets the cleanup passes wash  *)
(* it, marks its callers and callees as dirty, and starts over whenever    *)
(* dead argument elimination has replaced a function.                      *)
(*                                                                         *)
(* Set-up and tear-down calls (mpi_init_, mpi_comm_rank_, ...) may only be *)
(* deleted when no other MPI call is left: MPIStatistics counts those, and *)
(* wakes the functions that hold a set-up call when it counts none.        *)
(*                                                                         *)
(* Whether a buffer is used is a question for NousedFlat and CGFilter;     *)
(* here the verdict is any.                                                *)
(***************************************************************************)
EXTENDS Naturals, Sequences, FiniteSets

CONSTANTS
  Functions,    \* the defined functions
  Main,         \* the function main
  Names,        \* the functions in the order of their names
  Calls,        \* the instructions Reduce may delete, and the calls of functions
  Blocks,       \* the blocks of a function in post-order, each a list of calls
  Callee,       \* the function a call calls, if it is defined
  Ignored,      \* the functions of the IgnoreList
  Rewritable,   \* the functions whose signature dead argument elimination changes
  MaxRewrites,  \* how often it does so at most: bounds versions
  None,
  SizeMax       \* the largest size_t

(***************************************************************************)
(* How Attributes, MpiDelayDelete and the prefix mpi_ class the calls:     *)
(*   direct   counted, always deleted (mpi_wait_, mpi_comm_split_, ...)    *)
(*   buffer   counted, deleted if its buffer is unused (mpi_send_, ...)    *)
(*   kept     counted, no attribute (mpi_comm_dup_)                        *)
(*   setup    delayed (mpi_init_, mpi_finalize_)                           *)
(*   comm     delayed, and replaced (mpi_comm_rank_, mpi_comm_size_)       *)
(*   barrier  not counted, always deleted (mpi_barrier_)                   *)
(*   other    no MPI call; deleted on its verdict (stores, prints)         *)
(*   call     a call of a defined function: no attribute                   *)
(***************************************************************************)
CountedKinds == {"direct", "buffer", "kept"}
DelayedKinds == {"setup", "comm"}
MpiDelayDelete == DelayedKinds \cup {"barrier"}
Kinds == CountedKinds \cup MpiDelayDelete \cup {"other", "call"}

ASSUME ReduceAssumption ==
  /\ IsFiniteSet(Calls) /\ IsFiniteSet(Functions)
  /\ Main \in Functions
  /\ Names \in Seq(Functions) /\ \A f \in Functions : \E k \in DOMAIN Names : Names[k] = f
  /\ Blocks \in [Functions -> Seq(Seq(Calls))]
  /\ Callee \in [Calls -> Functions \cup {None}] /\ None \notin Functions
  /\ Ignored \subseteq Functions /\ Rewritable \subseteq Functions
  /\ MaxRewrites \in Nat /\ SizeMax \in Nat

CallsOf(f) ==
  UNION {{Blocks[f][b][k] : k \in DOMAIN Blocks[f][b]} : b \in DOMAIN Blocks[f]}

VARIABLES
  kind,         \* what each call calls
  alive,        \* the calls that are in the program
  functions,    \* the functions that are in the module
  version,      \* how often a function object was replaced by a new one
  ref_num,      \* MPIStatistics::ref_num
  on_empty,     \* MPIStatistics::_on_empty: the function objects to wake
  DirtyFunc,    \* the names DirtyFunc maps to true
  edges,        \* CG: the call graph as it was when it was built
  Dirty,        \* the local of that name in runOnModule
  I,            \* its iterator, a position in Names
  bb, end, at,  \* runOnFunction: the block, its length, the next to look at
  Ret,          \* its result so far
  report,       \* the file doFinalization writes
  pc

stats == <<ref_num, on_empty>>
scan  == <<bb, end, at, Ret>>
vars  == <<kind, alive, functions, version, stats, DirtyFunc, edges, Dirty,
           I, scan, report, pc>>

Counted(c) == kind[c] \in CountedKinds
Delayed(c) == kind[c] \in MpiDelayDelete

(* a new pass object, on a module whose calls are of these kinds *)
Start ==
  /\ alive = Calls
  /\ functions = Functions
  /\ version = [f \in Functions |-> 0]
  /\ ref_num = 0
  /\ on_empty = {}
  /\ DirtyFunc = {}
  /\ edges = {}
  /\ Dirty = FALSE
  /\ I = 1
  /\ bb = 1 /\ end = 0 /\ at = 0 /\ Ret = FALSE
  /\ report = "none"
  /\ pc = "doInitialization"

Init ==
  /\ kind \in [Calls -> Kinds]
  /\ \A c \in Calls : kind[c] = "call" <=> Callee[c] # None
  /\ Start

(* mutant: the calls of ignored functions are not counted *)
CountUnignored ==
  /\ pc = "doInitialization"
  /\ ref_num' = Cardinality({c \in Calls : /\ Counted(c)
                                          /\ \A f \in Ignored : c \notin CallsOf(f)})
  /\ on_empty' = {<<f, version[f]>> : f \in
                    {g \in Functions : \E c \in CallsOf(g) : Delayed(c)}}
  /\ pc' = "recaculate"
  /\ UNCHANGED <<kind, alive, functions, version, DirtyFunc, edges, Dirty, I,
                 scan, report>>

(* every counted call is counted, every function with a delayed one noted *)
doInitialization ==
  /\ pc = "doInitialization"
  /\ ref_num' = Cardinality({c \in Calls : Counted(c)})
  /\ on_empty' = {<<f, version[f]>> : f \in
                    {g \in Functions : \E c \in CallsOf(g) : Delayed(c)}}
  /\ pc' = "recaculate"
  /\ UNCHANGED <<kind, alive, functions, version, DirtyFunc, edges, Dirty, I,
                 scan, report>>

(***************************************************************************)
(* The call graph of the program now, and what main reaches in it.         *)
(***************************************************************************)
CallGraph ==
  {e \in Functions \X Functions :
     \E c \in CallsOf(e[1]) \cap alive : Callee[c] = e[2]}

ReachedIn(E) ==
  {f \in Functions : \A S \in SUBSET Functions :
     (Main \in S /\ \A e \in E : e[1] \in S => e[2] \in S) => f \in S}

recaculate ==
  /\ pc = "recaculate"
  /\ edges' = CallGraph
  /\ DirtyFunc' = ReachedIn(CallGraph)
  /\ Dirty' = FALSE
  /\ I' = 1
  /\ pc' = "sweep"
  /\ UNCHANGED <<kind, alive, functions, version, stats, scan, report>>

(***************************************************************************)
(* The loop of runOnModule over DirtyFunc.                                 *)
(***************************************************************************)
F == Names[I]

SkipClean ==
  /\ pc = "sweep" /\ I <= Len(Names)
  /\ F \notin DirtyFunc
  /\ I' = I + 1
  /\ UNCHANGED <<kind, alive, functions, version, stats, DirtyFunc, edges,
                 Dirty, scan, report, pc>>

SweepAgain ==
  /\ pc = "sweep" /\ I > Len(Names)
  /\ I' = 1
  /\ Dirty' = FALSE
  /\ pc' = IF Dirty THEN "sweep" ELSE "clean"
  /\ UNCHANGED <<kind, alive, functions, version, stats, DirtyFunc, edges,
                 scan, report>>

RunIgnored ==
  /\ pc = "sweep" /\ I <= Len(Names)
  /\ F \in DirtyFunc /\ F \in Ignored
  /\ DirtyFunc' = DirtyFunc \ {F}
  /\ UNCHANGED <<kind, alive, functions, version, stats, edges, Dirty, I,
                 scan, report, pc>>

ToBlock(b) ==
  /\ bb' = b
  /\ end' = IF b <= Len(Blocks[F]) THEN Len(Blocks[F][b]) ELSE 0
  /\ at' = end'

(***************************************************************************)
(* dse.runOnBasicBlock, called before a block is looked at, deletes dead   *)
(* stores.  It does not count as a change.                                 *)
(***************************************************************************)
DeadStores == \E dead \in SUBSET {c \in CallsOf(F) : kind[c] = "other"} :
                alive' = alive \ dead

RunOnFunction ==
  /\ pc = "sweep" /\ I <= Len(Names)
  /\ F \in DirtyFunc \ Ignored
  /\ DeadStores
  /\ ToBlock(1)
  /\ Ret' = FALSE
  /\ pc' = "scan"
  /\ UNCHANGED <<kind, functions, version, stats, DirtyFunc, edges,
                 Dirty, I, report>>

(***************************************************************************)
(* The loop of runOnFunction, from the end of each block.                  *)
(***************************************************************************)
At(c) == /\ pc = "scan" /\ at > 0
         /\ c = Blocks[F][bb][at]

MayKeep(c) ==
  \/ c \notin alive
  \/ kind[c] \in {"buffer", "other", "kept", "call"}
  \/ kind[c] \in DelayedKinds /\ ref_num > 0

(* mutant: set-up calls do not wait *)
MayDeleteNow(c) ==
  c \in alive /\ kind[c] \in {"direct", "buffer", "barrier", "other"} \cup DelayedKinds

MayDelete(c) ==
  /\ c \in alive
  /\ \/ kind[c] \in {"direct", "buffer", "barrier", "other"}
     \/ kind[c] \in DelayedKinds /\ ref_num = 0

Keep(c) ==
  /\ At(c) /\ MayKeep(c)
  /\ at' = at - 1
  /\ UNCHANGED <<kind, alive, functions, version, stats, DirtyFunc, edges,
                 Dirty, I, bb, end, Ret, report, pc>>

(***************************************************************************)
(* The closures of _on_empty mark their function by its name.  A closure   *)
(* whose function object was replaced reads freed memory: it may mark any. *)
(***************************************************************************)
Dangling == {e \in on_empty : version[e[1]] # e[2]}

(* mutant: no one is woken *)
WakeNone == UNCHANGED DirtyFunc

Wake ==
  LET woken == {e[1] : e \in on_empty \ Dangling}
  IN IF Dangling = {} THEN DirtyFunc' = DirtyFunc \cup woken
     ELSE \E S \in SUBSET Functions : DirtyFunc' = DirtyFunc \cup woken \cup S

(* mutant: a call is counted off twice *)
unrefTwice ==
  /\ ref_num' = IF ref_num = 0 THEN SizeMax ELSE ref_num - 2
  /\ IF ref_num' = 0 THEN Wake ELSE UNCHANGED DirtyFunc

unref ==
  /\ ref_num' = IF ref_num = 0 THEN SizeMax ELSE ref_num - 1
  /\ IF ref_num' = 0 THEN Wake ELSE UNCHANGED DirtyFunc

(***************************************************************************)
(* After a deletion the block is looked at again from its end, after its   *)
(* dead stores.  Replacing a comm call splits the block, and the half      *)
(* behind it is not one of the blocks of this run.  With mpi_wtime_ goes   *)
(* what is computed from its value, a number: stores, prints and calls by  *)
(* value, but no MPI call, whose arguments are pointers.                   *)
(***************************************************************************)
DeletedWith(c) ==
  {d \in CallsOf(F) : kind[d] = "other" \/ (kind[d] = "call" /\ kind[c] = "direct")}

Delete(c) ==
  /\ At(c) /\ MayDelete(c)
  /\ \E more \in SUBSET DeletedWith(c) : alive' = alive \ ({c} \cup more)
  /\ IF Counted(c) THEN unref ELSE UNCHANGED <<ref_num, DirtyFunc>>
  /\ Ret' = TRUE
  /\ end' = IF kind[c] = "comm" THEN at - 1 ELSE end
  /\ at' = end'
  /\ UNCHANGED <<kind, functions, version, on_empty, edges, Dirty, I, bb,
                 report, pc>>

NextBlock ==
  /\ pc = "scan" /\ at = 0 /\ bb < Len(Blocks[F])
  /\ DeadStores
  /\ ToBlock(bb + 1)
  /\ UNCHANGED <<kind, functions, version, stats, DirtyFunc, edges,
                 Dirty, I, Ret, report, pc>>

(* mutant: the result of runOnFunction is not stored *)
ReturnDirty ==
  /\ pc = "scan" /\ at = 0 /\ bb >= Len(Blocks[F]) /\ ~Ret
  /\ pc' = "sweep"
  /\ UNCHANGED <<kind, alive, functions, version, stats, DirtyFunc, edges,
                 Dirty, I, scan, report>>

ReturnFalse ==
  /\ pc = "scan" /\ at = 0 /\ bb >= Len(Blocks[F]) /\ ~Ret
  /\ DirtyFunc' = DirtyFunc \ {F}
  /\ pc' = "sweep"
  /\ UNCHANGED <<kind, alive, functions, version, stats, edges, Dirty, I,
                 scan, report>>

(***************************************************************************)
(* runOnFunction made a change.  instcombine and simplifycfg may remove    *)
(* further calls, of unreachable blocks, and tell no one.  The callers are *)
(* those of now, the callees those of the call graph as it was built.      *)
(***************************************************************************)
ReturnTrue(gone) ==
  /\ pc = "scan" /\ at = 0 /\ bb >= Len(Blocks[F]) /\ Ret
  /\ gone \subseteq CallsOf(F)
  /\ alive' = alive \ gone
  /\ Dirty' = TRUE
  /\ DirtyFunc' = DirtyFunc \cup {F}
       \cup {f \in Functions : \E c \in CallsOf(f) \cap alive' : Callee[c] = F}
       \cup {g \in Functions : <<F, g>> \in edges}
  /\ pc' = "dae"
  /\ UNCHANGED <<kind, functions, version, stats, edges, I, scan, report>>

(* dead argument elimination found nothing to remove *)
SameFunction ==
  /\ pc = "dae"
  /\ pc' = "sweep"
  /\ UNCHANGED <<kind, alive, functions, version, stats, DirtyFunc, edges,
                 Dirty, I, scan, report>>

(* it has put a new function with the body and the name of F in its place *)
NewFunction ==
  /\ pc = "dae" /\ F \in Rewritable /\ version[F] < MaxRewrites
  /\ version' = [version EXCEPT ![F] = @ + 1]
  /\ DirtyFunc' = {}
  /\ pc' = "recaculate"
  /\ UNCHANGED <<kind, alive, functions, stats, edges, Dirty, I, scan, report>>

(***************************************************************************)
(* RemoveDeadFunction, function after function, then the report.           *)
(***************************************************************************)
Unused(f) ==
  ~\E g \in functions : \E c \in CallsOf(g) \cap alive : Callee[c] = f

RemoveDeadFunction ==
  /\ pc = "clean" /\ I <= Len(Names)
  /\ I' = I + 1
  /\ IF F # Main /\ Unused(F)
       THEN /\ functions' = functions \ {F}
            /\ alive' = alive \ CallsOf(F)
       ELSE UNCHANGED <<functions, alive>>
  /\ UNCHANGED <<kind, version, stats, DirtyFunc, edges, Dirty, scan, report, pc>>

(* mutant: off by one *)
ReportEarly ==
  /\ pc = "clean" /\ I > Len(Names)
  /\ report' = IF ref_num > 1 THEN "0" ELSE "1"
  /\ pc' = "done"
  /\ UNCHANGED <<kind, alive, functions, version, stats, DirtyFunc, edges,
                 Dirty, I, scan>>

doFinalization ==
  /\ pc = "clean" /\ I > Len(Names)
  /\ report' = IF ref_num > 0 THEN "0" ELSE "1"
  /\ pc' = "done"
  /\ UNCHANGED <<kind, alive, functions, version, stats, DirtyFunc, edges,
                 Dirty, I, scan>>

Next ==
  \/ doInitialization \/ recaculate
  \/ SkipClean \/ SweepAgain \/ RunIgnored \/ RunOnFunction
  \/ \E c \in Calls : Keep(c) \/ Delete(c)
  \/ NextBlock \/ ReturnFalse
  \/ \E gone \in SUBSET Calls : ReturnTrue(gone)
  \/ SameFunction \/ NewFunction
  \/ RemoveDeadFunction \/ doFinalization

Spec == Init /\ [][Next]_vars

(* a pass is a sequential function: it runs until it returns *)
FairSpec == Spec /\ WF_vars(Next)

----------------------------------------------------------------------------
TypeOK ==
  /\ kind \in [Calls -> Kinds]
  /\ alive \subseteq Calls
  /\ functions \subseteq Functions
  /\ version \in [Functions -> Nat]
  /\ ref_num \in Nat
  /\ on_empty \subseteq Functions \X Nat
  /\ DirtyFunc \subseteq Functions
  /\ edges \subseteq Functions \X Functions
  /\ Dirty \in BOOLEAN
  /\ I \in Nat
  /\ bb \in Nat /\ end \in Nat /\ at \in Nat
  /\ Ret \in BOOLEAN
  /\ report \in {"none", "0", "1"}
  /\ pc \in {"doInitialization", "recaculate", "sweep", "scan", "dae", "clean", "done"}

AliveCounted == {c \in alive : Counted(c)}

(***************************************************************************)
(* ref_num never falls below the number of counted calls in the program,   *)
(* whatever the cleanup passes and RemoveDeadFunction removed without      *)
(* telling MPIStatistics; so it never wraps around either.                 *)
(***************************************************************************)
CountCovers ==
  pc # "doInitialization" => Cardinality(AliveCounted) <= ref_num

(***************************************************************************)
(* MPI stays usable: ReduceCode deletes a set-up call, or replaces rank    *)
(* and size by environment variables, only when no MPI call that needs     *)
(* them is left in any function, ignored and unreachable ones included.    *)
(***************************************************************************)
SetupOutlivesUse ==
  [][\A c \in alive \ alive' :
       pc = "scan" /\ at > 0 /\ kind[c] \in DelayedKinds => AliveCounted = {}]_vars

(***************************************************************************)
(* doFinalization writes 1 only if no counted MPI call is left.            *)
(***************************************************************************)
ReportIsRight == report = "1" => AliveCounted = {}

(***************************************************************************)
(* The fixpoint is reached: at the end, in every function main reached     *)
(* when the call graph was last built, no call is left that is always      *)
(* deletable, nor, if the count is 0, a delayed one.  No order of deleting *)
(* and waking loses a function that had work left.                         *)
(***************************************************************************)
NothingLeft ==
  pc = "done" => \A f \in (ReachedIn(edges) \cap functions) \ Ignored :
    \A c \in CallsOf(f) \cap alive :
      /\ kind[c] \notin {"direct", "barrier"}
      /\ ref_num = 0 => kind[c] \notin DelayedKinds

(***************************************************************************)
(* When the closures of _on_empty run, the functions they captured still   *)
(* exist: "this function has already removed from module" (DAEAdaptive)    *)
(* holds of none of them.  The code does not see to it: a function with a  *)
(* set-up call may be rewritten (CommInF of MCReduce).                     *)
(***************************************************************************)
NoDanglingWake == [][ref_num' = 0 /\ ref_num # 0 => Dangling = {}]_vars

(***************************************************************************)
(* The pass ends: each true result of runOnFunction deleted something.     *)
(***************************************************************************)
Terminates == <>(pc = "done")
============================================================================
