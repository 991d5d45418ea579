--------------------------- MODULE TripCountCache ---------------------------
(***************************************************************************)
(* The counts LoopTripCount keeps (LoopTripCount.cpp, .h) and the pass     *)
(* that inserts them (InsertTripCount.cpp).                                *)
(*                                                                         *)
(* CycleMap holds an entry per loop in depth-first order; LoopMap leads    *)
(* from the Loop object, which lives as long as one LoopInfo, to the index *)
(* of its entry.  A count in the program is known again by its name, that  *)
(* of the header with ".tc", if it stands in the preheader of the loop.    *)
(***************************************************************************)
EXTENDS Integers, FiniteSets, SequencesExt

CONSTANTS
  Loops,      \* the loops of the function
  Blocks,     \* its blocks, preheaders that may have to be inserted included
  Addresses,  \* where a Loop object may be allocated
  None,       \* a null pointer
  MaxPasses   \* a bound on the passes that run

(***************************************************************************)
(* The function, as far as the cache looks at it: the order of its loops,  *)
(* the name of each header (an empty name counts as a name), the block     *)
(* that is or becomes its preheader, the loops without one, those whose    *)
(* count analysis() finds, and those where start and end are constants.    *)
(***************************************************************************)
VARIABLES
  prog,        \* the function
  address,     \* LoopInfo: the object of each loop
  LoopMap,     \* address -> index
  CycleMap,    \* index -> what analysis() returned, and the count
  placed,      \* the counts in the program: the block each is in
  preheaders,  \* the loops that have a preheader
  valid,       \* the pass manager holds the analysis
  pass,        \* the pass that runs
  at,          \* the loop it is at, as a position in prog.order
  passes,      \* how many passes have run
  returned     \* what getOrInsertTripCount returned last, and for which loop

cacheVars == <<prog, address, LoopMap, CycleMap, placed, preheaders, valid,
               pass, at, passes, returned>>

(***************************************************************************)
(* A count is the loop it was computed for and its name, a header's name   *)
(* and the number LLVM adds when the name is taken; a constant has none.   *)
(***************************************************************************)
Count(l, n) == [of |-> l, name |-> n]

theLoops == Range(prog.order)

Names == {prog.name[l] : l \in theLoops}

(* every header has a name of its own *)
Named == IsInjective(prog.name)

Taken(n) == \E c \in DOMAIN placed : c.name = n

(* Value::setName *)
setName(n) ==
  <<n, CHOOSE k \in 0 .. Cardinality(DOMAIN placed) :
         ~Taken(<<n, k>>) /\ \A j \in 0 .. k - 1 : Taken(<<n, j>>)>>

(* a std::map: what f holds, and under other keys what g holds *)
Over(f, g) ==
  [x \in DOMAIN f \cup DOMAIN g |-> IF x \in DOMAIN f THEN f[x] ELSE g[x]]

(* map[x] = y *)
Put(f, x, y) == Over([z \in {x} |-> y], f)

Index(l) == (CHOOSE k \in 1 .. Len(prog.order) : prog.order[k] = l) - 1

Indices == [a \in Range(address) |-> Index(CHOOSE l \in theLoops : address[l] = a)]

----------------------------------------------------------------------------
(* mutant: any count in the preheader is taken for that of the loop *)
InsertedAny(l) ==
  {c \in DOMAIN placed : l \in preheaders /\ placed[c] = prog.pre[l]}

(* "trying to find inserted loop trip count in preheader" *)
Inserted(l) ==
  {c \in DOMAIN placed : /\ c.name = <<prog.name[l], 0>>
                         /\ l \in preheaders /\ placed[c] = prog.pre[l]}

Analysed(l) ==
  [Start |-> l \in prog.countable,
   TripCount |-> IF l \in prog.countable /\ Inserted(l) # {}
                   THEN CHOOSE c \in Inserted(l) : TRUE ELSE None]

(* LoopTripCount::runOnFunction, when a pass requires what is not valid *)
runOnFunction ==
  /\ pass = "none" /\ ~valid
  /\ LoopMap' = Indices
  /\ CycleMap' = [k \in 1 .. Len(prog.order) |-> Analysed(prog.order[k])]
  /\ valid' = TRUE
  /\ UNCHANGED <<prog, address, placed, preheaders, pass, at, passes, returned>>

(* mutant: only loops that are new get an index *)
updateNew == LoopMap' = Over(LoopMap, Indices)

updateCache == LoopMap' = Over(Indices, LoopMap)

(* a pass that preserves LoopTripCount starts with updateCache *)
Begin(p) ==
  /\ pass = "none" /\ valid /\ passes < MaxPasses
  /\ pass' = p /\ at' = 1
  /\ passes' = passes + 1
  /\ updateCache
  /\ UNCHANGED <<prog, address, CycleMap, placed, preheaders, valid, returned>>

Entry(l) == CycleMap[LoopMap[address[l]] + 1]

(* LoopTripCount::get: a start was found *)
Known(l) == address[l] \in DOMAIN LoopMap /\ Entry(l).Start

(* LoopTripCount::getTripCount *)
getTripCount(l) == IF Known(l) THEN Entry(l).TripCount ELSE None

(* what insertTripCount makes for l *)
NewCount(l) ==
  Count(l, IF l \in prog.folded THEN None ELSE setName(prog.name[l]))

CountFor(l) ==
  IF Known(l) /\ getTripCount(l) = None THEN NewCount(l) ELSE getTripCount(l)

(* mutant: a constant is put into the program, too *)
PlacedAlways(l) ==
  IF Known(l) /\ getTripCount(l) = None
    THEN Put(placed, NewCount(l), prog.pre[l]) ELSE placed

(* the program once l has its count *)
Placed(l) ==
  IF Known(l) /\ getTripCount(l) = None /\ l \notin prog.folded
    THEN Put(placed, NewCount(l), prog.pre[l]) ELSE placed

(* LoopTripCount::getOrInsertTripCount, but for what it does to the program *)
getOrInsertTripCount(l) ==
  /\ preheaders' = preheaders \cup {l}
  /\ returned' = [loop |-> l, count |-> CountFor(l)]
  /\ CycleMap' = IF Known(l)
                   THEN [CycleMap EXCEPT ![LoopMap[address[l]] + 1].TripCount = CountFor(l)]
                   ELSE CycleMap

Here == prog.order[at]

AtLoop(p) == pass = p /\ at <= Len(prog.order)

(* InsertLoopTripCount::runOnLoop *)
runOnLoop ==
  /\ AtLoop("insert")
  /\ getOrInsertTripCount(Here)
  /\ placed' = Placed(Here)
  /\ at' = at + 1
  /\ UNCHANGED <<prog, address, LoopMap, valid, pass, passes>>

(* InsertLoopTripCount preserves all *)
EndInsert ==
  /\ pass = "insert" /\ at > Len(prog.order)
  /\ pass' = "none"
  /\ UNCHANGED <<prog, address, LoopMap, CycleMap, placed, preheaders, valid, at,
                 passes, returned>>

(* LoopInfo is computed again, its objects are allocated somewhere else *)
NewLoopInfo(new) ==
  /\ pass = "none" /\ passes < MaxPasses
  /\ address' = new
  /\ UNCHANGED <<prog, LoopMap, CycleMap, placed, preheaders, valid, pass, at,
                 passes, returned>>

(* other passes preserve nothing, and delete counts nobody uses *)
Transform(gone) ==
  /\ pass = "none" /\ valid /\ passes < MaxPasses
  /\ placed' = [c \in DOMAIN placed \ gone |-> placed[c]]
  /\ valid' = FALSE
  /\ passes' = passes + 1
  /\ UNCHANGED <<prog, address, LoopMap, CycleMap, preheaders, pass, at, returned>>

Allocations == {f \in [theLoops -> Addresses] : IsInjective(f)}

Counts == [of : theLoops, name : Names \X (0 .. Cardinality(Loops) * MaxPasses)]

CacheInit ==
  /\ address \in Allocations
  /\ LoopMap = << >>
  /\ CycleMap = <<>>
  /\ placed = << >>
  /\ preheaders = theLoops \ prog.lacks
  /\ valid = FALSE
  /\ pass = "none"
  /\ at = 1
  /\ passes = 0
  /\ returned = [loop |-> None, count |-> None]

----------------------------------------------------------------------------
CacheTypeOK ==
  /\ address \in Allocations
  /\ DOMAIN LoopMap \subseteq Addresses
  /\ DOMAIN placed \subseteq Counts
  /\ \A c \in DOMAIN placed : placed[c] \in Blocks
  /\ preheaders \subseteq Loops
  /\ valid \in BOOLEAN
  /\ pass \in {"none", "insert", "perform"}
  /\ at \in 1 .. Len(prog.order) + 1
  /\ passes \in 0 .. MaxPasses

(***************************************************************************)
(* getOrInsertTripCount returns the count of the loop it is asked for,     *)
(* however often counts were inserted, promoted to other blocks, deleted   *)
(* and found again by name, and wherever LoopInfo put its objects ("a      *)
(* stable cache", "an unstable cache").  The names tell loops apart only   *)
(* if they differ: a program built without names has one ".tc" for all.    *)
(***************************************************************************)
CountIsOwn ==
  Named /\ returned.count # None
    => returned.count.of = returned.loop

(***************************************************************************)
(* "should insert indeed": while a pass asks, every loop has an entry, the *)
(* one analysis() made for it, and the count it names is in the program.   *)
(***************************************************************************)
EntryIsOwn ==
  AtLoop("insert") \/ AtLoop("perform") =>
    \A l \in theLoops :
      /\ address[l] \in DOMAIN LoopMap
      /\ LoopMap[address[l]] < Len(CycleMap)
      /\ Entry(l).Start = (l \in prog.countable)
      /\ LET c == Entry(l).TripCount IN
         c # None => c.name = None \/ c \in DOMAIN placed
=============================================================================
