# A TLA+ specification of llvm-pred's dependence search and code reduction

llvm-pred takes an MPI program compiled to LLVM IR and cuts it down to the part
that decides how long it runs: it deletes MPI calls whose buffers nobody reads,
what was computed for them, and in the end MPI itself, so that the rest can be
run on one machine to predict the time of the whole. The core is the pass
`ReduceCode` (`src/src/Reduce.cpp`), which asks `ResolveEngine`
(`src/src/Resolver.cpp`) whether some memory is read again, and which drives
changed copies of LLVM's dead store and dead argument elimination. A wrong "no"
deletes a call the program needs, silently. That is what this specification is
about. The other half of the tool instruments what is left: `LoopTripCount` and
`InsertTripCount` insert how often each loop runs, and `PerformPred` computes
from that how often each block does.

The modules here model both. TLC checks them on small instances. For every
instance TLAPS proves the invariants of the search, that it implements its
abstract specification, that no store is declared unused which is read, that the
caches of `noused_flat` give no wrong verdict unless a visit is rewritten to none, the invariants of `ReduceCode` and
its fixpoint, how the ranges of `CGFilter` nest, what a cascade of deletions
leaves, that dead argument elimination is right the first time, and that a trip
count is of its own loop and stands where it can be used.
What is said of caches (`ResolveCache`, `NousedFlat` and the first finding) holds for a
build with `USE_CACHE`, which is off by default, as `DELETE_STORE` is (`CMakeLists.txt:22-23`).
`PROJECT.json` lists components, runs, the source lines of every definition, the
mutants that show that each property can fail, findings and hazards.

Run a check with `tlc -workers 2 -config X.cfg M`, a proof with `tlapm M.tla`.

## 1. The system

| component | state | operations | works with |
|---|---|---|---|
| `ResolveEngine`, `DataDepGraph` (Resolver, ddg) | work list `unsolved`, flag and children of every node, `iteration`, the result slot of the callback | `resolve` of a use or a value: filters, callback, solve rules; `InitRule`; `find_visit`, `findStore`, `findRef` | called by the attribute functions, the caches and DSE_Adaptive; rules and filters are closures given by the caller |
| solve rules and local filters | none, they read the IR | `useonly`, `direct`, `use_inverse`, `iuse`, `gep`, `icast` rules, MDARule; `GEPFilter`, `iUseFilter` | called by the engine for each use |
| `ResolveCache` (Resolver) | entries use -> `WeakVH` + operand number, a stored key | `ask`, `storeKey`, `storeValue` | LLVM changes the `WeakVH`s behind its back when values are deleted or replaced |
| `noused_flat` (Reduce) | three static caches | up to three queries; the verdict `IsDeletable` | engine, caches, `CGFilter`; runs between passes that rewrite the program |
| `CGFilter` (Resolver) | numbers `[first, last)` of every function, a threshold | constructor (two walks of the call graph), `indexof`, `update`, the verdict | built by `ReduceCode` whenever the call graph is rebuilt |
| `ReduceCode`, `MPIStatistics` (Reduce) | `DirtyFunc`, call graph, `ref_num`, `_on_empty` closures | `doInitialization`, `runOnModule`, `runOnFunction`, `unref`, `RemoveDeadFunction`, `doFinalization` | everything; closures are called back from `unref` |
| attribute functions (Reduce) | none | verdicts for each known callee; `replace_with_memcpy`, `mpi_comm_replace` change the program | `noused_flat`, engine |
| DSE_Adaptive, `DeleteDeadInstruction` | the dependence graph, `NowDeadInsts` | `DeleteCascadeInstruction` | engine, `ReduceCode` |
| dead argument elimination | `LiveValues`, `LiveFunctions`, `Uses` | survey, propagation, removal; once per module, or adaptively per function | replaces `Function` objects under `ReduceCode` |
| dead store elimination | where the walk is, `DeadStackObjects` | `runOnBasicBlock`, `HandleFree`, `handleEndBlock` | `ReduceCode` before every scan of a block; memory dependence and alias analysis of LLVM |
| LoopTripCount, InsertTripCount | `LoopMap` (Loop object -> index), `CycleMap` (index -> what is known of the loop) | `analysis`, `insertTripCount`, `updateCache`, `getOrInsertTripCount`, `runOnLoop` | kept by the pass manager between passes; LoopInfo allocates the Loop objects |
| PerformPred | `ViewPort` | promotion, `operator/`, `CreateMul`, `selectBranch`, the counter of each block | LoopTripCount, LLVM's block frequencies |
| util | none | order of instructions, paths between blocks | all |

Nothing here runs in threads. What is hard is the *sequence*: state kept across
calls (caches, numberings, counters, captured pointers, the tables of dead
argument elimination) while other passes delete and rewrite the program it
speaks about; a graph search with cycles, cut branches and early stops; a
fixpoint that must not lose work and must end; unsigned arithmetic at 0; the
arithmetic of the compiled program done ahead of it, in other widths and with
other signs.
`PROJECT.json` lists each such hazard at its line.

What makes each component right:

* the search misses nothing that filters let through, returns only what is
  reachable, stops after the first visit, ends;
* the caches never turn a "used" into "unused" and never hold a freed pointer;
* the numbers of `CGFilter` nest, and its verdict is the order in which a run
  first comes to instructions;
* `ReduceCode` deletes set-up calls only when no MPI call is left, its count
  never falls below the truth, it reaches its fixpoint and ends;
* a cascade deletes what is computed from its root, and else only what this leaves
  without users and effect, and touches nothing it has freed;
* dead argument elimination removes only what the program does not need;
* the rules and filters find every read of a store that is asked about;
* dead store elimination leaves what the program does as it was;
* an inserted count is the number of back edges the loop takes, it is the count
  of the loop asked for, and it stands where its operands can be used;
* the prediction of a block is the number of its runs.

## 2. The modules

**ResolveEngine** is one call of `resolve`. `do_solve` is a program counter:
`root` (the query is solved without filters), `pop` (take a use, show it to
filters and callback), `rules` (try the rules, one `addSolved` at a time),
`done`. `Filtered`, `Stopped`, `Accepted`, `GiveUp` are the outcomes of the head
of the loop; `AddSolved`, `EndRule`, `SkipRule`, `EndRules` its body, down to
the order in which `addSolved` pushes a child before its parent is marked. The
IR is data: a rule is a table from uses to the uses it adds and whether it
stops, a filter is the set it refuses, a callback the set of visits and stores.
`Reachable` is the reference: membership in every set closed under the rules.

**GraphSearch** is what a caller of `resolve` may rely on: some set of uses is
come to, by links only and none that is refused, in any order, the search ends with a visit that was
come to, or when everything linked was, or it gives up. ResolveEngine implements
it (`ImplementsGraphSearch`): the work list, the flags and the program counter
are hidden, a use is "come to" when the rules start on it.

**UnusedStore** EXTENDS ResolveEngine and fills in what it leaves open, for the
question `getAttribute` asks of a store: the tables of the rules and the sets
the filters refuse come from the instructions of a function, and the queries of
`noused_flat` and `noused_global` are put to the engine one after the other,
until the verdict. A list of uses is the set of instructions with that operand,
in their order (`InOrder`) or from the last (`Backwards`). `UsedAfter` is the
reference: a later load reads a field the store writes.

**ResolveCache** has the cache as a value with functions on it, among them what
LLVM does to a `WeakVH` (`Deleted`, `Replaced`). **NousedFlat** is `noused_flat`
with its three caches. The engine is taken at its specification: a query ends
with some visit the filters pass, if there is any. Between two calls the
environment deletes instructions, replaces and deletes them, puts undef into
slots and inserts instructions, which is what DSE, instcombine, dead argument
elimination and `replace_with_memcpy` do.

**CGFilter** is the constructor's walk (`Descend`, `Ascend`: `df_iterator`'s path
and `LastPathLen`, then the post-order walk's `last`, computed when a node is
left), then `update` and `query`. Numbers are unsigned of width `Wrap`. Functions
are straight-line code, so `less` is the order of positions. **MainRun** EXTENDS it with
what its order is about, a run of the program from `main` (`Enter`, `Pass`, `Return` of
an explicit `stack`), which starts when the filter is built and notes in `ran` the
instructions as they first execute. The filter and the run do not look at each other.

**Reduce** is the pass: `recaculate`, the loop over `DirtyFunc` in the order of
names, the backward scan of a function's blocks with a restart after every
deletion, what the cleanup passes remove silently, callers and callees marked
dirty, dead argument elimination putting a new function object in place and the
jump back to `recaculate`, `RemoveDeadFunction`, the report. Calls are grouped by
what the tables of attributes say of their callee. The verdict on buffers is any,
since it is the subject of the modules above. A closure in `on_empty` holds a
function *object* (a function with a version): waking one whose object was
replaced is a read of freed memory, and marks any functions.

**Cascade** is DSE_Adaptive's walk over the graph of uses, and
`DeleteDeadInstruction` one instruction at a time. `freed_used` notes when an
erased instruction is touched.

**DeadArgs** is dead argument elimination with its two drivers, told apart by
`adaptive`: `runOnModule` (survey all, remove from all, put undef into calls) and
DAE_Adaptive (`prepare` surveys all once, then `runOnFunction` handles function
after function while Reduce goes on: `DeleteUse`, `ForwardUse`). A driver is a list
of `tasks`. Arguments and return values are members of `Values`; `uses` says where
each goes. A `RetOrArg` holds the version of its function object. A survey is a
step per value, because what is noted when is what goes wrong.

**DeadStores** is dead store elimination on two blocks, an action per way
through the loops of `runOnBasicBlock`, `HandleFree` and `handleEndBlock`.
Instructions (stores, loads, memset, memcpy and memmove, lifetime_end, free, calls) are records on byte ranges of three objects and of a pointer that
may point to several; what LLVM's analyses answer is defined from these.
`Behaviour` runs the function on an abstract memory, where a byte holds what put it
there, and collects what the rest of the program sees: what volatile stores and loads with users do,
what calls and other functions find, what is left at the end.

**FixedWidth** has wrap-around and signed division in a type of any width.
**TripCount** has `analysis` and `insertTripCount` as operators on the form of a
loop, and then the loop itself as a state machine: `Insert`, `Unfound` or `Abort` first,
then `Stay` or `Leave` a round at a time. `Asserted` says whether the build has assertions:
the default one (Release, `NO_DEBUG`) has not, and inserts a count where the other aborts.
Of the assertions on a loop's form only that on its steps is modelled; programs that fail another are not among the loops. **TripCountCache** is the cache of
counts across passes: `runOnFunction`, `updateCache`, `getOrInsertTripCount` step by
step over the loops, and what happens in between (other passes delete counts,
LoopInfo allocates its objects anew, the pass manager drops the analysis).
**PerformPred** EXTENDS it: for each loop the view port and the promotion of the
count, then the counter of each block, with the arithmetic of the code in integers and in
doubles. A profile says how often a block runs (`runs`) and how often each of its edges is
taken (`taken`): what `selectBranch` adds is added once for each time its edge is. `seen` are the
preheaders that were there when LLVM last counted frequencies.

The **MC** modules give each an instance and, where the properties need one, a
reference definition.
The proofs are in a module of their own beside each component: **ResolveEngineProofs**,
**UnusedStoreProofs** (which builds on it), **NousedFlatProofs**, **ReduceProofs**,
**DeadArgsProofs**, **CGFilterProofs**, **TripCountProofs** (TripCount, TripCountCache
and PerformPred), and **DeletionProofs** (Cascade and DeadStores).

## 3. What the runs show

| run | bounds | result |
|---|---|---|
| `search` | every def-use graph on 3 uses (7 child lists each), 1 or 2 rules, InitRule with the query refused or not, 4 goals, filters, use and value queries, iteration limit 1 or none | `NothingMissed`, `FoundIsReachable`, `EdgesAreLinks`, `OnlyDrains`, `Terminates`; `SearchInv`, the inductive invariant of the proofs; `ImplementsGraphSearch`, the refinement |
| `noused` | 2 uses (one derived from the other by a cast or a GEP), 2 slots, any sequence of calls and program changes | `DeletableIsUnused`: no verdict to delete is wrong; `NoDanglingEntry` |
| `noused_rewritten` | same, and a visit may be rewritten to a value that is none | *violated*: a wrong verdict to delete |
| `unused_store` | every function of 4 instructions (casts, GEPs with index 0, 1 or unknown, loads, frees, one store) around an alloca or a global | `NobodyReads` |
| `callgraph` | 4 functions, all bodies of up to 2 calls with recursion, and of up to 3 without | `RangesNest`, `SameIndexSameFunction`, `OrderIsFirstRun`; main is run to its end before the filter is asked |
| `reduce` | 4 functions, one of them on the IgnoreList, 8 calls of every class, one function replaced once | `CountCovers`, `SetupOutlivesUse`, `ReportIsRight`, `NothingLeft`, `Terminates` |
| `cascade` | 4 instructions of up to 2 operands, single links | `NoUseAfterDelete`, `NoDanglingOperand`, `CascadeIsExact` |
| `dead_stores` | every function of 3 instructions, in one block or two, six shapes of function, objects of four bytes | `SameBehaviour`, `DeadAreUnread`, `Terminates` |
| `dead_args` | both drivers, 2 functions of every linkage, one argument and one return value each, any uses up to 2 per value of the first and 1 of the second function, programs that go on changing | `FirstRunIsRight`, `LiveAreNeeded` |
| `dead_args_twice` | a second run on one function | *violated*: `RemovedAreDead` |
| `trip_count` | a 4 bit type: every start and end, steps of -3 to 3, every form of exit; types of 3 and 5 bits; every form `analysis` tells apart; builds with assertions and without | `CountIsExact`, `CountIsClose` |
| `predict` | three loops in each other below a branch, two one after the other, two in a third, two in each other, some without a preheader, one that two ways lead to; 302 programs; any 3 passes, 3 addresses for Loop objects | `CountIsOwn`, `EntryIsOwn`, `PredictsRuns`, `ViewsAreAvailable` |

Why the bounds are enough: three uses have every shape that matters to the
search (a cycle, a diamond, a node on the list twice, a visit behind a filtered
use); two slots are a visit that is cached and one that is not, two uses are
one that hits and one that misses; four functions give a first and a repeated call, a
cycle and two depths; in Reduce one function each is root, called and
unreachable, with one rewriting before and after the count reaches 0. Four
instructions around an object are a pointer derived before the store, the store,
one derived after, and a load. Three memory instructions are a write, one that may
read it and one that overwrites it; a pair of a load and a store of what it
loaded with a write between. Four bits have the overflow at both ends and every
rest of a division; three passes are one that inserts, one that changes the
program and one that finds counts again. The larger claims that need no bound are
in section 5.

`Wrap` is 64 in CGFilter and `SizeMax` 63 in Reduce: any value larger than what the
instance can count to, so that a wrap-around is seen as one. `MaxRewrites` bounds
the versions: in the program each replacement removes an argument, so there are
finitely many. `Far`, 30, stands for the engine's default limit in MCResolveEngine, and `Terminates` there asks
that a search without a limit of its own ends by draining its list, not by `Far`: the flag test
of `addSolved` (`ddg.cpp:33`) is why it does. `UINT32_MAX`, the same
default limit (`Resolver.cpp:34`), is 4 in UnusedStore, as many as there are
instructions, which is the least that is enough for any search. `MaxUses` is 2 in
DeadArgs: how many uses forwarding may give a value. `MaxRounds` ends a loop that
does not stop by itself, `MaxPasses` a run of the pass manager. `Word`, `Half` and
`Square` are the constants of 32 bit arithmetic, for 8 bits, and `Mantissa` and `Powers` those of
doubles, for 12 bits of mantissa. Four bytes to an object (`Size`) have an offset that is no power of two, so that
a memset is shortened there for its alignment only. `Length` and `N` are the instructions of a function.

What the properties leave out, because the code does not do it: in `reduce` no function with
a set-up call is rewritten, in `noused` there are
rewrites to other visits only, `FirstRunIsRight` for the first change of each
function. `NobodyReads` is stated for functions the rules see through (`Simple`): pointers
derived in one step, no cast but the store's own before it, no unknown index
beside a constant one, no GEP of a global before the store. `CountIsExact` needs a
loop that meets its end (`MeetsEnd`), steps that agree, no narrow or negative
number extended by zeros, and no store that is no sum; `CountIsClose` the same
with a rest. `PredictsRuns` needs a profile that the counts and LLVM's frequencies tell the
truth of (`Agrees`), that nothing is cut off (`exact`: `n/d` is rounded before it is multiplied, so that a
double may be just below the number it stands for, and fptosi takes one off), and loops a prediction is meant for (`Meant`): LLVM knows the
preheader of an inner loop and of one whose count is not known (one the pass inserted itself has
the frequency 0 until LLVM counts again); only the one branch that `selectBranch` looks at decides whether an outer
loop runs (it adds once for each time the branch takes its edge; where another way leads to the
loop, as in `Around`, the counter ends too low); and a view port is at the loop level `getPathProb` assumes
(`PerformPredLevel.cfg` shows a program where it is not). `SameBehaviour` speaks of
targets of the selected pointer for which two copies from one place by one pointer are to another place, or
both onto themselves (`SameSource`, which `isPossibleSelfRead` takes for granted; `DeadStoresCopies.cfg`
shows that this is needed). A memcpy that overlaps itself, which LLVM leaves undefined, is taken for a
memmove. Each of these conditions is listed as a
hazard at its line.

### Findings

Runs that TLC refutes; `PROJECT.json` quotes the lines.

1. `noused_rewritten`: a `WeakVH` follows `replaceAllUsesWith`. A cached load that
   instcombine replaced by a value that is no load hides every other reader.
2. `dead_args_twice`: live values are erased function by function, but DAE_Adaptive
   surveys callees only once: its second run on a function removes values in use.

Eight more disagreements have a configuration of their own beside the runs. TLC
refutes each as well:

| `tlc -config` | module | refuted | what the code does |
|---|---|---|---|
| `UnusedStoreNested.cfg` | UnusedStore | `RemovedIsUnused` | a store to an alloca is declared unused ("it isn't used after then it can be removed", `Reduce.cpp:297`) although a load reads it through a pointer cast before the store: `iUseFilter` (`Resolver.cpp:498`) spares getelementptrs only |
| `ReduceRewritten.cfg` | MCReduce | `NoDanglingWake` | the closures of `_on_empty` capture `Function&` for the whole run (`Reduce.cpp:387`); dead argument elimination frees such functions |
| `CGFilterNoMain.cfg` | MCCGFilter | `LaterInFunctionPasses` | without `main` the first function's number is `UINT_MAX` (`Resolver.cpp:419`), the mark for "not in the call graph" |
| `CascadeAny.cfg` | MCCascade | `NoUseAfterDelete` | "a single link" (`DSEAdaptive.cpp:60`) is not so when a value is computed from the root in two ways; the walk then uses what it freed |
| `DeadArgsStruct.cfg` | MCDeadArgs | `RemovedAreDead` | return values are surveyed together and noted too late (`DeadArgumentElimination.cpp:588`); one that goes to a live one by a recursive call is removed |
| `DeadStoresCopies.cfg` | MCDeadStores | `CopyIsSafe` | where two copies are from one place, "removing the first memcpy is safe (assuming it writes <= # bytes as the second one" (`DeadStoreElimination.cpp:476`); `isPossibleSelfRead` does not look at where they go. Of a copy of A's first byte to P + 1 and one of two bytes of A to P the first is removed; when P is A, the second does nothing, and A's second byte is not written |
| `PerformPredLevel.cfg` | MCPerformPred | `SameLevel` | "Assume they are in same loop level" (`PerformPred.cpp:263`): a count that needs a value of a neighbouring loop's header is promoted into that loop, and the ratio of the frequencies of the preheader and that header is no probability; the view port runs more often than the prediction takes it to |
| `TripCountSteps.cfg` | MCTripCount | `StepsAgree` | the assertion that the steps a phi merges are equal (`LoopTripCount.cpp:229`) runs one behind; the last is never compared. The default build has no assertion here at all |

## 4. Fairness

The passes are sequential functions; the only assumption, made where something
must happen (`Terminates` of MCResolveEngine, Reduce and DeadStores), is weak fairness of `Next`: a function that can take a
step does so until it returns. The environment of NousedFlat, DeadArgs and TripCountCache has no
fairness, since nothing there is promised to happen. The loop of TripCount is the
compiled program's, and may run for ever.

`CHECK_DEADLOCK FALSE` is set in every configuration because a call that has
returned, or a program nothing can be deleted from, has no next step.

## 5. What is proved

**ResolveEngineProofs**, for every program, query, rule table, filter and limit
(`NodesAssumption`: the null pointer and the value node are no uses; `WellFormed`: an
`InitRule` is the first rule tried, and only for the query of a use, which filters may
refuse, as they do in the second search of `noused_flat`):

* `TypeCorrect`: `[]TypeOK`.
* `Completeness`: `[]NothingMissed`. `Soundness`: `[]FoundIsReachable`. Neither is
  inductive. The invariant `SearchInv` adds where the search is (`Control`), that
  the `InitRule` runs for the query and for no other use (`InitRuleRuns`), that no
  stopping rule precedes the one tried (`RuleIsTried`), that no link ever given
  is forgotten (`NothingForgotten`: every child of an accepted use is accepted,
  waiting, refused or the query) and that only paths are followed (`OnlyPaths`).
  When the list is empty, the accepted uses then form a set closed under the
  rules, without a visit; by the definition of `Reachable` no visit is reachable.
  A use marked SOLVED is never dropped unseen because marking comes with being
  accepted, or with being the query, which is why the query is exempt.
* `Drains`: `OnlyDrains`, the action property, from the same invariant.
* `SearchInvariant`: `[]SearchInv` itself. `GraphIsTrue`: `[]EdgesAreGiven`, a part of it: every link the
  rules gave is an edge of the graph and no other is. `EdgesAreLinks`, which TLC checks, says more: the edges of
  a use are in the order of its rules, and are whole copies of its links, one for each time it was solved. A use
  that several uses link to before it is solved is on the list as often. This repeats on the way down: a
  chain of n values that each use the one before twice costs 2^n steps (no property bounds the cost).
* `Implementation`: `ImplementsGraphSearch`. Every action maps to a step of
  GraphSearch or to a stutter: `Accepted` comes to a use, `Found` answers, an empty list
  is `Exhausted` because `NothingForgotten` makes what was come to closed under the
  rules.

**UnusedStoreProofs**, for straight-line functions of any length around an alloca or
a global (`NAssumption`: instructions are numbered; `LimitAssumption`: a function has
no more instructions than the limit on iterations):

* `UnusedRight`: `[]NobodyReads`. The queries are well-formed, so `SearchInv` of the engine
  holds in each search, and a search that ends with nothing leaves a set closed
  under the rules and without a visit. What is left to show is that the sets hold every
  later instruction that points to a field the store writes (`SeenOrElsewhere`): the
  first one they missed would be a use of a pointer that is in them, or of one derived
  before the store, and both are seen. The verdict may rest on two searches, so the invariant `StoreInv` keeps what the first has shown
  (`DirectClear`) while the second runs. It has to be shown first that the recursive
  function `Fields` exists; that is done by a least counterexample.
* `LimitNeverMet`: an answer is never cut short. An instruction has one pointer
  operand, so each use is put on the list once (`ListedOnce`), `iteration` is the
  number of those taken off it, and this is at most `N`. Without it `UnusedRight`
  would fail: a search that gives up answers "nobody".

**NousedFlatProofs**, for all uses and visits, filters, and sequences of calls,
deletions and rewrites (`CacheAssumption`: a null pointer is no value, and the value
that is no visit is neither; `NousedAssumption`: a pointer that is cast or indexed
is a use of the program):

* `TypeCorrect`: `[]TypeOK`, which also says that each of the caches is asked and filled for its own sort of
  use only. `CachesAreLive`: `[]NoDanglingEntry`. The invariant `FlatInv`
  says of each of the three caches that what its entries lead to is a live visit, a
  value visits are rewritten to, or null (`CacheIn`). One lemma per function on a
  cache shows that it keeps this for any set of values; erasing an instruction
  clears its entries in all caches before it leaves `live`.
* `DeletableIsRight`: `DeletableIsUnused`, if visits are rewritten to visits only
  (`Rewrites = {}`; `noused_rewritten` shows that this is needed). A hit skips the
  filters and the search, so the verdict is right only because a hit always shows a
  visit, which is a verdict to keep; a miss searches, and finds none only where the
  filters refuse every visit.

**ReduceProofs**, for every module and table of calls (`ReduceAssumption`: finitely
many calls, names and blocks are sequences, every function has a name):

* `TypeCorrect`; `CountIsCovering`: `[]CountCovers`. The count and the truth fall
  together only in `unref`; everything else removes calls, never adds them. So the
  invariant is `CountCovers` with the types, and 0 cannot be passed: a counted call
  that is being deleted is alive, so the count is at least 1.
* `SetupIsSafe`: `SetupOutlivesUse`, since a set-up call is deleted only at count 0,
  where no counted call is alive; calls deleted with another one are of other
  classes. `ReportIsTrue`: `[]ReportIsRight`.
* `FixpointReached`: `[]NothingLeft`, if no closure wakes a function that is gone. The
  invariant `FixpointInv`: what main reaches is dirty or has nothing left to delete; what
  a sweep has passed is not dirty, unless something was deleted; what a scan of a
  function has looked at is kept for good, unless something was deleted. A kept call
  can become one to delete only when the count drops to 0, and then its function
  waits in `_on_empty` and is woken (`Waiting`).
  Its hypothesis, `NoDanglingWake`, is not something the code sees to (`ReduceRewritten.cfg`): it
  holds where dead argument elimination changes no function with a set-up call.

**DeletionProofs**, first of Cascade, for every program of instructions with up to two operands
(`CascadeAssumption`: the root is an instruction, undef and null are none):

* `OperandsStay`: `[]NoDanglingOperand`. `CascadeRight`: `[]CascadeIsExact`. The invariant
  `CascadeInv`: `Links`, the graph keeps at least the links the program has; `Walk`, what
  was come to depends on the root, and is on the path or has no child left to come
  to; `Deaths`, what is dead or about to be has been come to or has no effect, and
  nothing uses it. At the end the path is empty, so what was come to is closed under
  links and holds all that depends on the root, unless the walk used a freed instruction, which ends it.
  `Bereft`, what dies without being come to had users, and lost them all.
* `SingleLinkIsSafe`: `NoUseAfterDelete`, if every value is computed from the root in one
  way (`SingleLink`; `CascadeAny.cfg` shows that this is needed). `LinkInv`: an instruction
  of the cascade dies only by being come to, so what is come to next is alive.

and of DeadStores, for every set of instructions, length and shape of function and every
size of objects (`DeadStoresAssumption`: accesses stay within their object, the first block is
no longer than the function):

* `WalkAlways`: `[]WalkInv`, the inductive invariant of the pass, and from it `TypeAlways`
  (`TypeOK`) and `DeadAreUnreadAlways` (`DeadAreUnread`). The search goes up from one write to
  the next, and what it passed on the way does not read the place (`Overwriting`) or touch
  the freed object (`Freeing`); on the way up, `DeadAreUnread` itself (`Ending`). A
  store that is left stores a constant or what a load that is left returned (`LoadsLeft`),
  since deleting a store takes with it the load it was of, when nobody else uses that.
  The pass goes on at an instruction that is left, or at the end of the block, whatever it
  deleted. And `FunctionOK`: an instruction is as it was but for its length (`Trim`), which is never 0.
* `SameBehaviourAlways`: `SameBehaviour`, and `BehaviourAlways` more than that: the behaviour
  stays the same at every step, for every target of the selected pointer that `SameSource` holds of. Each step
  of the pass that removes or shortens is compared with the program before it, the two run
  side by side. They *agree* but for a set of bytes and of loads nobody uses (`Agree`); an instruction that
  reads none of these bytes keeps it so, and one that writes them ends it
  (`StepAgrees`). So a change is unseen (`Changing`) if what is left from there to some
  later instruction does not read the difference, and that one overwrites it, or its object
  ends there or with the function, and no other block can look in between. What is left to show is that each
  action is of this kind: `OverwrittenSame`, `TrimmedSame` (a copy whose source may be its
  destination is where `isPossibleSelfRead` and `SameSource` come in, in
  `SelfRead`), `FreedSame`, `UpSame`, and `StoredBackSame`, where the store changes nothing because
  nothing touched the place since the load. `Run` is a recursive function; that it is defined
  (`RunsExist`) and that two runs agree all the way (`Simulation`) is shown by a least counterexample.

**DeadArgsProofs**, for every module, call graph and sequence of changes
(`DeadArgsAssumption`: every value is an argument or a return value of one
function, every function is in the module once):

* `TypeCorrect`: `[]TypeOK`. It needs where a survey is (`Progress`): only the
  first task is surveyed, and a return value found not live has no use elsewhere.
* `FirstRunRight`: `FirstRunIsRight`, if no function returns more than one value
  (`SingleReturns`; `DeadArgsStruct.cfg` shows that this is needed). The invariant has
  two phases. `SurveyInv`: what was surveyed is *closed*, that is, live, or in use
  only by values that are not live and noted in `Uses`; propagation keeps this,
  because it follows every note of what it makes live. When no survey is left, the
  live values are a set closed under the rules of `Needed`, so all that is needed is
  live. `Judged`: that stays so for a function until it is changed, because the
  program only comes to need less, and what is erased from `LiveValues` belongs to
  the function that is changed.

* `LiveRight`: `LiveAreNeeded`, the other direction on a whole module, with the same
  hypothesis. `NeededInv`: the tasks come in turn, each function once (`InTurn`); what is
  marked live is needed (`MarkedRight`) and a pair noted is a use (`NotedRight`), as long as
  functions are surveyed. `Needed` is the least closed set, so a value that goes to a
  needed one is needed, and propagation marks no other. It holds on while functions
  are changed because what is removed is not needed, so no need goes with it.

**CGFilterProofs**, for every call graph that is walked from a function
(`CGFilterAssumption`: what is declared or external is no function):

* `RangesRight`: `[]RangesNest`. `SameIndexRight`: `[]SameIndexSameFunction`, the assertion of
  `operator()`. `LaterRight`: in one function the filter lets every later instruction
  pass. Their invariant is `WalkAlways`: `[]WalkInv`. The argument is the one for the
  opening and closing times of a depth-first search. The code has no clock, but `i`
  and the lengths of two paths make one (`Clock`), which goes on by one when a
  function is reached and by one when it is left (`Time`), so that the numbers are
  like `Parentheses`; an index belongs to the one function that opens at it or called
  what closes there (`Marks`).
* `OrderRight`: `[]OrderIsFirstRun`, and `ReachedRight`: `[]NumberedAreReached` (no run checks it), both for
  `RunSpec`, every call graph with recursion as it likes, and every length of the run. The
  invariant says of the walk that a call it passes over is of a function that has its
  number before what follows the call (`PassedOver`), and of the run that its stack is a
  path of the walk's tree (`Frames`), that each function has entered what it was the first
  to call, up to where it is (`Called`), and that it goes upwards in the order of the verdict
  (`Sorted`). The step that needs thought is a call of a function the run has not
  entered: it must be the one by which the walk came to the function, since no
  function with a number below the run's place is left out (`NoneLeftOut`, from the first
  one left out: its caller was entered and is either not that far, or above its
  extent). `RunIsWalk`: `RunSpec` allows the filter nothing that `Spec` does not.
* Hypotheses: numbers do not wrap (`NumbersFit`: a function takes two), and the walk
  starts from a function. The second is the one `CGFilterNoMain.cfg` refutes
  `LaterInFunctionPasses` without.

**TripCountProofs**, of the cache, the view ports and the prediction, for every function and every sequence of passes, new Loop objects
and deletions (`ProgramsAssumption`, what LLVM guarantees: dominance is an order, the dominators of a
block are in line, loops nest and are counted from outer to inner, each has a
preheader of its own, and operands of a count dominate it):

* `CacheAlways`: `[]CacheInv`, and from it `CountRight`: `[]CountIsOwn`, `EntryRight`:
  `[]EntryIsOwn`. An entry that names a count in the program names one that was inserted
  for its loop, and no two entries name one (`EntriesRight`); while a pass runs,
  `LoopMap` leads from the objects there are now to the entries (`Numbered`), because
  `updateCache` is run first; names are the link between entry and count, and
  a new count gets a name no other has (`FreshName`: of more names than there are counts
  one is free).
* `ViewsRight`: `[]ViewsAreAvailable`. `ViewInv`: a view port dominates the preheader of its
  loop and comes after those of the loops around it (`Nested`), and a count that was
  moved stands in the view port, after its operands (`CountsMoved`).
* `PredictsAlways`: `[]PredictsRuns`, for every depth of nesting, profile of blocks and edges, width of the numbers
  and doubles, and place the counts are promoted to. The invariant is `PredictInv`, on top of the two above: of every view, its
  third is the trips of the loop (`TripsRight`), and its second times the runs of the view port, or of the
  edge that is selected there, is the runs of the header (`ViewRight`). Each way to compute a
  view keeps that: `TopView`, `SameView` and `ThroughView`, the last by one `OneRound` per loop
  between the view port and the loop, over a recursive function whose existence is proved, too
  (`ProductsExist`). The arithmetic comes to `Passed`: a value times the ratio of the
  frequencies of two blocks of the same loops counts the second where it counted the first, and from the
  first what it counted from the second; shifting 64 bits into 32 and reducing by the greatest
  common divisor change nothing where no bit is lost (`RatioRight`). A product in floating point is
  marked `exact` only if it is the product.
* `TypeRight`: `[]TypeOK`, rounded or not. The hypothesis is `Sized` of each function (and finitely many
  loops): no two frequencies are 2^31 apart, a count LLVM knows fits its type, and of a
  preheader that was inserted no ratio divides by the frequency, which is 0: the code checks
  none of it, and LLVM asserts on a denominator of 0. TLC evaluates it for every function of the run (`SizedAssumption`). That nothing
  divides by 0 needs an invariant: every view port is a block LLVM knows the frequency of
  (`ViewsFit`, with `PortSighted`: a view port is an operand's block, the view port
  around it, or the entry). The bound on the numbers in names needs
  another: each pass adds one count for a loop at most, so that there are never more than
  `Room` for them (`CountsFit`, `InsertFits`), and the number a name gets is at most that of the counts
  (`FreshName`). The inductive invariant is `TypeInv`, checked on the run first.
* Hypotheses: `Agrees` and `Meant` are in `PredictsRuns` itself. Before the proof it was stated
  without the level of the view port and for uncountable loops without a preheader, and it was
  false of programs the run did not have; MCPerformPred has them now.
  `Enclosing` and `Measured` (`ProgramsAssumption`) are what LoopInfo and BlockFrequencyInfo
  guarantee: a block is in the loops of its innermost loop's header, a preheader is in the loop around, and
  a frequency is at least 1.

**TripCountProofs**, of the formula, for every width, every set of loops that analysis()
can be given and every bound on the rounds (`LoopsAssumption`: a phi has a step, and start and stored
values are values of the variable's type):

* `CountExactAlways`: `[]CountIsExact`; `CountCloseAlways`: `[]CountIsClose`; `LoopTypeAlways`:
  `[]LoopTypeOK`, so that the formula gives a 32 bit number for *every* loop `analysis` accepts, also
  for one it counts wrong. The inductive invariant is `LoopInv` (`LoopAlways`): after `taken` rounds the variable is
  start plus `taken` steps, which does not wrap, and `taken` strides have not passed the `Distance` from what
  the exit compares first to the end (`NotPast`; `AtEnd` is when it leaves).
* `CountIs` reduces `insertTripCount` to `Distance \div Stride`: the casts, the 32 bit difference, the
  correction by `OneStep` (which changes sign for a step of -1 only) and a division that rounds towards 0 come to
  that, for both directions and all forms of exit. `Compared` says that what the exit sees is
  that value, whatever the types. `Quotient` and `Fewer` do the rest.
* Hypothesis: `IsMeant`, which is what the two properties are stated of. It asks that
  start and end are values of both types. Of the start it did not ask that before the proof, and
  the two properties were false of a loop outside the bounds of the run: TLC finds it when it is given an
  8 value comparison of a 16 value variable that starts at -5 with 1 (the comparison sees 3).

Only model-checked:

* liveness under fairness (`Terminates`), which TLAPS 1.4.5 does not do, nor `ENABLED`.

* the order and the repetition of edges (`EdgesAreLinks`; as sets they are proved).

Every other safety property a passing run checks is stated by a theorem, `NothingLeft` under
the hypothesis above.

## 6. Not modelled

* `noused_param`, `noused_ret_rep` and the tables of attributes of MPI and libc
  calls: any verdict, in Reduce. `useonly`, `direct`, `gep`, `icast` and MDARule: tables of
  ResolveEngine, which no query of `noused_flat` uses. Pointers through memory, and a
  store in a loop: UnusedStore has straight-line code.
* In DeadStores: strcpy and its relatives, `init_trampoline`, accesses of unknown
  size, byval arguments, a circle of blocks above a free (the search would not
  return). In Reduce some dead stores go.
* In TripCount: assertions on a loop's form but that on its steps; counts by SCEV, which the default build leaves out; two crashes of
  `analysis`, on a switch that does not leave by any case (`LoopTripCount.cpp:159`) and
  on a comparison of two constants (`:165`). In PerformPred: `findCriticalBlock`, which
  nothing calls, and the promotion of chains of instructions: the operands of a
  count are one set of blocks.
* Branches within a function in CGFilter; attributes and debug information in
  DeadArgs; drawing, printing, reading the IgnoreList from a file.
* `src/unit/gtest` is a vendored library and most of the repository's lines. Scripts,
  build files, examples and the unit tests were read as documentation.

## 7. Plan

In this order:

1. *ParamUse*: `noused_param` over call graphs with recursion, on top of UnusedStore.
2. Loops in UnusedStore: a second round of the body after the store.
