----------------------------- MODULE PerformPred -----------------------------
(***************************************************************************)
(* The pass that inserts how often each block of a function will run       *)
(* (PerformPred.cpp), on top of the counts of TripCountCache.              *)
(*                                                                         *)
(* For each loop, outer ones first, the pass finds a view port: the        *)
(* deepest block that the operands of the loop's count, and the view port  *)
(* of the loop around it, need.  The count is moved there, and there a     *)
(* value is computed that says how often one execution of the view port    *)
(* runs the header.  A block of the loop gets that value times the ratio   *)
(* of LLVM's frequencies of block and header.  Blocks outside loops have   *)
(* the entry for their view port.                                          *)
(*                                                                         *)
(* The build is the default one: USE_PROMOTE, PROMOTE_FREQ_select, and     *)
(* counts without SCEV.                                                    *)
(***************************************************************************)
EXTENDS TripCountCache, FixedWidth

CONSTANTS
  Square,    \* sqrt(INT32_MAX), rounded down
  Word,      \* UINT32_MAX + 1
  Mantissa,  \* 2^53: the first number a double has no room for
  Powers,    \* the powers of 2 a double may be a fraction of
  Programs   \* the functions looked at

ASSUME WordAssumption == Word \in Nat \ {0} /\ Square \in Nat

ASSUME DoubleAssumption ==
  Mantissa \in Nat \ {0} /\ Powers \subseteq 1 .. Mantissa * Word

(***************************************************************************)
(* What LLVM guarantees of a function: each loop has a preheader of its    *)
(* own, loops nest, and the order of LoopInfo is from outer to inner;      *)
(* blocks that dominate the same block dominate each other, in one order;  *)
(* and what a count is computed from stands where it can be used.          *)
(***************************************************************************)
Dominance(p) ==
  /\ p.entry \in DOMAIN p.dom
  /\ \A b \in DOMAIN p.dom :
       /\ IsFiniteSet(p.dom[b]) /\ p.dom[b] \subseteq DOMAIN p.dom
       /\ {p.entry, b} \subseteq p.dom[b]
       /\ \A a \in p.dom[b] : p.dom[a] \subseteq p.dom[b]
       /\ \A a, c \in p.dom[b] : a \in p.dom[c] \/ c \in p.dom[a]

Nesting(p) ==
  /\ p.order \in Seq(Loops) /\ IsInjective(p.order)
  /\ \A k \in DOMAIN p.order :
       LET l == p.order[k]  nest == p.nest[p.header[l]] IN
       /\ l \in DOMAIN p.name
       /\ p.pre[l] \in DOMAIN p.dom
       /\ \A j \in DOMAIN p.order : p.pre[p.order[j]] = p.pre[l] => j = k
       /\ p.needs[l] \subseteq p.dom[p.pre[l]]
       /\ nest \in Seq(Loops) /\ nest # <<>>
       /\ Len(nest) > 1 =>
            /\ \E j \in 1 .. k - 1 : p.order[j] = nest[2]
            /\ p.nest[p.header[nest[2]]] = Tail(nest)
            /\ p.pre[nest[2]] \in p.dom[p.pre[l]]

(***************************************************************************)
(* A block is in the same loops as the header of its innermost one, and a  *)
(* preheader is in the loop around; one that is inserted is a new block.   *)
(***************************************************************************)
Enclosing(p) ==
  /\ DOMAIN p.nest = DOMAIN p.dom /\ p.nest[p.entry] = <<>>
  /\ \A b \in DOMAIN p.nest : p.nest[b] # <<>> =>
       p.nest[b][1] \in Range(p.order) /\ p.nest[b] = p.nest[p.header[p.nest[b][1]]]
  /\ \A l \in Range(p.order) :
       LET nest == p.nest[p.header[l]] IN
       /\ p.header[l] \in DOMAIN p.nest /\ nest[1] = l
       /\ \A i \in 1 .. Len(nest) - 1 : p.nest[p.pre[nest[i]]] = p.nest[p.header[nest[i + 1]]]
  /\ p.lacks \subseteq Range(p.order)
  /\ \A l \in p.lacks : p.pre[l] \notin {p.entry} \cup {p.header[m] : m \in Range(p.order)}

(* LLVM's frequencies are at least 1 *)
Measured(p) ==
  /\ \A b \in DOMAIN p.nest : p.freq[b] \in Nat \ {0} /\ p.runs[b] \in Nat
  /\ \A b \in DOMAIN p.nest : \A i \in DOMAIN p.succ[b] : p.taken[b][i] \in Nat
  /\ \A l \in Range(p.order) : p.trips[l] \in Nat

(***************************************************************************)
(* What nothing guarantees, and without which a ratio divides by 0 or a    *)
(* number has no 32 bits: no block runs 2^31 times as often as another, as *)
(* the smaller frequency is shifted to 0; and neither a view port nor      *)
(* LLVM's guess for a loop takes the frequency of a preheader that was     *)
(* inserted.                                                               *)
(***************************************************************************)
Sized(p) ==
  /\ DOMAIN p.dom \subseteq Blocks
  /\ \A b \in DOMAIN p.dom : p.succ[b] \in Seq(Blocks)
  /\ \A l \in Range(p.order) : p.trips[l] < Half
  /\ \A b, c \in DOMAIN p.nest : 2 * p.freq[b] <= Word * p.freq[c]
  /\ \A l \in p.lacks :
       l \in p.countable /\ \A m \in Range(p.order) : p.pre[l] \notin p.needs[m]

theNames == UNION {Range(p.name) : p \in Programs}

ASSUME ProgramsAssumption ==
  /\ \A p \in Programs : Dominance(p) /\ Nesting(p) /\ Enclosing(p) /\ Measured(p)
  /\ None \notin theNames \X Nat
  /\ None \notin [of : Loops, name : (theNames \X Nat) \cup {None}]

(***************************************************************************)
(* More of the function: the loops around each block from the inner to     *)
(* the outer, its dominators, successors and LLVM's frequency, the headers *)
(* and the blocks where operands of a count are that have other users.     *)
(* trips, runs and taken are one profile: how often a loop runs its header *)
(* each time it is entered, how often each block runs, and how often each  *)
(* of its successors is next.                                              *)
(***************************************************************************)
VARIABLES
  seen,        \* the loops that had a preheader when LLVM counted the frequencies
  ViewPort,    \* loop -> (E_V, B_PN, TC), as in the code
  prediction   \* what is added to the counter of each block, and where

vars == <<cacheVars, seen, ViewPort, prediction>>

dominates(a, b) == a \in prog.dom[b]

Nest(l) == prog.nest[prog.header[l]]

contains(l, b) == Contains(prog.nest[b], l)

unseen == prog.lacks \ seen

(* a preheader that came after LLVM's analysis has no frequency *)
getBlockFreq(b) ==
  IF \E l \in unseen : b = prog.pre[l] THEN 0 ELSE prog.freq[b]

in_freq(l) == getBlockFreq(prog.pre[l])

----------------------------------------------------------------------------
(***************************************************************************)
(* The arithmetic.  A value is a number, 0 instead where a branch does not *)
(* take its successor of number "on".  exact: nothing was rounded or       *)
(* wrapped around.                                                         *)
(***************************************************************************)
Value(k) == [n |-> k, on |-> None, exact |-> TRUE]

(* 2^(ilog2(high) + 1), or 1 where nothing must be shifted out *)
ShiftOf(high) == Max({b \in 1 .. 2 * high : \E k \in 0 .. high : b = 2^(k + 1)} \cup {1})

GCD(a, b) == Max({k \in 1 .. a : a % k = 0 /\ b % k = 0})

scale(p) ==
  LET g == IF p.n = 0 \/ p.d = 0 THEN 1 ELSE GCD(p.n, p.d)
  IN [p EXCEPT !.n = @ \div g, !.d = @ \div g]

(* operator/ of two frequencies, made to fit into 32 bits *)
Ratio(to, from) ==
  LET bit == ShiftOf(Max({to, from}) \div Word)
  IN scale([n |-> to \div bit, d |-> from \div bit,
            exact |-> to % bit = 0 /\ from % bit = 0])

getPathProb(from, to) == Ratio(to, getBlockFreq(from))

Mul(v, w) ==
  [n |-> Wrap(v.n * w.n, Half),
   on |-> IF v.on = None THEN w.on ELSE v.on,
   exact |-> v.exact /\ w.exact /\ Wrap(v.n * w.n, Half) = v.n * w.n]

(***************************************************************************)
(* A double is m/s.  Of a/b it is the nearest, or the even one of two; a   *)
(* number too large for its m has no 32 bits either.                       *)
(***************************************************************************)
Nearest(a, b) ==
  LET q == a \div b
      r == 2 * (a % b)
  IN IF r > b \/ (r = b /\ q % 2 = 1) THEN q + 1 ELSE q

Double(a, b) ==
  LET s == Max({t \in Powers : a = 0 \/ t <= (Mantissa * b - 1) \div a} \cup {1})
  IN [m |-> Nearest(a * s, b), s |-> s]

(* fmul and fptosi, which rounds towards 0 *)
FMul(k, f) ==
  LET r == Double((IF k < 0 THEN -k ELSE k) * f.m, f.s)
      q == r.m \div r.s
  IN IF k < 0 THEN -q ELSE q

(***************************************************************************)
(* Where n is large it is computed in floating point, n/d first, which is  *)
(* rounded twice, then cut off, and undefined if it does not fit.          *)
(***************************************************************************)
CreateMul(v, p) ==
  IF p.n = p.d THEN [v EXCEPT !.exact = @ /\ p.exact]
  ELSE LET q == IF p.n > Square THEN FMul(v.n, Double(p.n, p.d))
                                ELSE SDiv(Wrap(v.n * p.n, Half), p.d)
       IN [v EXCEPT !.n = Wrap(q, Half),
                    !.exact = @ /\ p.exact /\ q * p.d = v.n * p.n /\ Wrap(q, Half) = q]

----------------------------------------------------------------------------
(***************************************************************************)
(* promote: operands nobody else uses move along with the count.           *)
(***************************************************************************)
depends(l) ==
  (IF CountFor(l).name = None THEN {} ELSE prog.needs[l])
    \cup (IF Len(Nest(l)) > 1 THEN {ViewPort[Nest(l)[2]].first} ELSE {})

(* mutant: the view port around the loop is not looked at *)
promoteAlone(l) ==
  IF CountFor(l).name = None \/ prog.needs[l] = {} THEN prog.entry
  ELSE CHOOSE b \in prog.needs[l] : \A d \in prog.needs[l] : dominates(d, b)

promote(l) ==
  IF depends(l) = {} THEN prog.entry
  ELSE CHOOSE b \in depends(l) : \A d \in depends(l) : dominates(d, b)

(* the view port of l *)
E_V(l) ==
  IF CountFor(l) # None THEN promote(l)
  ELSE IF Len(Nest(l)) > 1 THEN ViewPort[Nest(l)[2]].first ELSE prog.entry

(* the number of trips, by LLVM's guess where the count is not known *)
TC(l) ==
  IF CountFor(l) = None
    THEN CreateMul(Value(1), Ratio(getBlockFreq(prog.header[l]), in_freq(l)))
    ELSE Value(prog.trips[CountFor(l).of])

(* some path from b leads to c, and does not come by a *)
Reaches(b, c, a) ==
  b # a /\ \A S \in SUBSET (Blocks \ {a}) :
             b \in S /\ (\A x \in S : Range(prog.succ[x]) \ {a} \subseteq S) => c \in S

(* selectBranch: the first successor from which the header is reached *)
selectBranch(v, from, to) ==
  LET N == 1 .. Len(prog.succ[from])
      Path(i) == Reaches(prog.succ[from][i], to, from)
  IN IF Cardinality(N) < 2 \/ from \in prog.switches \/ ~\E i \in N : Path(i) THEN v
     ELSE [v EXCEPT !.on = CHOOSE i \in N : Path(i) /\ \A j \in 1 .. i - 1 : ~Path(j)]

(* mutant: only the innermost of the loops counts *)
ThroughOne(l) ==
  CreateMul(TC(l), getPathProb(E_V(l), in_freq(l)))

(***************************************************************************)
(* "caculate all nest parent view point": outwards from l, up to the first *)
(* loop whose parent contains the view port e.                             *)
(***************************************************************************)
Outside(l, e) ==
  LET nest == Nest(l) IN
  CHOOSE n \in 1 .. Len(nest) :
    /\ n = Len(nest) \/ contains(nest[n + 1], e)
    /\ \A i \in 2 .. n : ~contains(nest[i], e)

(* B_PN after the i-th of these loops *)
Products(l) ==
  LET nest == Nest(l)
      n == Outside(l, E_V(l))
      third(i) == IF i = 1 THEN TC(l) ELSE ViewPort[nest[i]].third
      from(i) == IF i = n THEN E_V(l) ELSE prog.header[nest[i + 1]]
      v[i \in 0 .. n] ==
        IF i = 0 THEN Value(1)
        ELSE CreateMul(Mul(v[i - 1], third(i)), getPathProb(from(i), in_freq(nest[i])))
  IN v

ThroughNest(l) == Products(l)[Outside(l, E_V(l))]

(* the view of l: how many headers one execution of E_V(l) runs *)
B_PN(l) ==
  LET around == ViewPort[Nest(l)[2]] IN
  IF Len(Nest(l)) = 1 THEN selectBranch(TC(l), E_V(l), prog.header[l])
  ELSE IF around.first = E_V(l)
    THEN Mul(CreateMul(around.second, getPathProb(prog.header[Nest(l)[2]], in_freq(l))),
             TC(l))
  ELSE ThroughNest(l)

View(l) == [first |-> E_V(l), second |-> B_PN(l), third |-> TC(l)]

(* one round of the loop over LoopInfo *)
ViewLoop ==
  /\ AtLoop("perform")
  /\ getOrInsertTripCount(Here)
  /\ placed' = IF CountFor(Here) \in DOMAIN Placed(Here)
                 THEN [Placed(Here) EXCEPT ![CountFor(Here)] = E_V(Here)]
                 ELSE Placed(Here)
  /\ ViewPort' = Put(ViewPort, Here, View(Here))
  /\ at' = at + 1
  /\ UNCHANGED <<prog, address, LoopMap, valid, pass, passes, seen, prediction>>

(* what is added to the counter of b, and where *)
Predicted(b) ==
  LET l == prog.nest[b][1]
      view == IF prog.nest[b] = <<>> THEN [first |-> prog.entry, second |-> Value(1)]
                                     ELSE ViewPort[l]
      H == IF prog.nest[b] = <<>> THEN prog.entry ELSE prog.header[l]
  IN [at |-> view.first,
      freq |-> CreateMul(view.second, getPathProb(H, getBlockFreq(b)))]

(* the loop over the blocks; the pass preserves the control flow only *)
PredictBlocks ==
  /\ pass = "perform" /\ at > Len(prog.order)
  /\ prediction' = [b \in DOMAIN prog.nest |-> Predicted(b)]
  /\ pass' = "none"
  /\ valid' = FALSE
  /\ UNCHANGED <<prog, address, LoopMap, CycleMap, placed, preheaders, at, passes,
                 returned, seen, ViewPort>>

(***************************************************************************)
(* ViewPort.clear().  LLVM's frequencies are those of an earlier pass, as  *)
(* the passes that insert preheaders preserve them, or computed now.       *)
(***************************************************************************)
BeginPerform ==
  /\ Begin("perform")
  /\ seen' \in {seen, preheaders}
  /\ ViewPort' = << >> /\ prediction' = << >>

Cached ==
  /\ \/ runOnFunction \/ Begin("insert") \/ runOnLoop \/ EndInsert
     \/ \E new \in Allocations : NewLoopInfo(new)
     \/ \E gone \in SUBSET DOMAIN placed : Transform(gone)
  /\ UNCHANGED <<seen, ViewPort, prediction>>

Init ==
  /\ prog \in Programs
  /\ CacheInit
  /\ seen = preheaders
  /\ ViewPort = << >> /\ prediction = << >>

Next == Cached \/ BeginPerform \/ ViewLoop \/ PredictBlocks

Spec == Init /\ [][Next]_vars

----------------------------------------------------------------------------
IsValue(v) ==
  /\ v.n \in -Half .. Half - 1 /\ v.on \in Nat \cup {None} /\ v.exact \in BOOLEAN

TypeOK ==
  /\ CacheTypeOK
  /\ seen \subseteq Loops
  /\ \A l \in DOMAIN ViewPort :
       /\ l \in theLoops
       /\ ViewPort[l].first \in Blocks
       /\ IsValue(ViewPort[l].second) /\ IsValue(ViewPort[l].third)
  /\ \A b \in DOMAIN prediction :
       b \in Blocks /\ prediction[b].at \in Blocks /\ IsValue(prediction[b].freq)

(* how often v is added where it is not 0, if b is where it is added *)
RunsAt(b, v) == IF v.on = None THEN prog.runs[b] ELSE prog.taken[b][v.on]

(* what is counted for a block in all *)
Total(p) == p.freq.n * RunsAt(p.at, p.freq)

(***************************************************************************)
(* A profile that LLVM's frequencies tell the truth of, within each loop   *)
(* and, where no count is found, of the loop.                              *)
(***************************************************************************)
Agrees ==
  /\ \A b, c \in DOMAIN prog.nest : prog.nest[b] = prog.nest[c] =>
       prog.runs[b] * prog.freq[c] = prog.runs[c] * prog.freq[b]
  /\ \A l \in theLoops :
       /\ prog.runs[prog.header[l]] = prog.trips[l] * prog.runs[prog.pre[l]]
       /\ l \notin prog.countable =>
            prog.freq[prog.header[l]] = prog.trips[l] * prog.freq[prog.pre[l]]

(* where the outermost loop is entered that the view of l goes through *)
Outermost(l) == prog.pre[Nest(l)[Outside(l, ViewPort[l].first)]]

Through(l) == Len(Nest(l)) > 1 /\ ViewPort[l].first # ViewPort[Nest(l)[2]].first

(***************************************************************************)
(* "Assume they are in same loop level": a view port that is not that of   *)
(* the loop around it is in no loop that does not contain the loop, too.   *)
(***************************************************************************)
SameLevel ==
  \A l \in DOMAIN ViewPort :
    Through(l) => prog.nest[ViewPort[l].first] = prog.nest[Outermost(l)]

(***************************************************************************)
(* The loops a prediction is meant for: LLVM knows the preheader of an     *)
(* inner loop; where the branch of a view port decides whether an outer    *)
(* loop runs, nothing else does (the code counts less where another way    *)
(* leads to the loop); and the code's assumption holds, of blocks whose    *)
(* frequency LLVM knows.                                                   *)
(***************************************************************************)
Meant(l) ==
  LET v == ViewPort[l] IN
  /\ l \in unseen => Len(Nest(l)) = 1 /\ l \in prog.countable
  /\ Len(Nest(l)) = 1 /\ l \in DOMAIN ViewPort =>
       RunsAt(v.first, v.second) = prog.runs[prog.pre[l]]
  /\ l \in DOMAIN ViewPort /\ Through(l) =>
       /\ prog.nest[v.first] = prog.nest[Outermost(l)]
       /\ 0 \notin {getBlockFreq(v.first), getBlockFreq(Outermost(l))}

(***************************************************************************)
(* The counter of a block ends at the number of its runs, wherever the     *)
(* promotion has put the view ports, if the profile agrees with the counts *)
(* and with LLVM's frequencies and nothing is cut off: no division leaves  *)
(* a rest, and no double is rounded to less.                               *)
(***************************************************************************)
PredictsRuns ==
  \A b \in DOMAIN prediction :
    /\ Named /\ Agrees /\ prediction[b].freq.exact /\ getBlockFreq(b) # 0
    /\ \A l \in Range(prog.nest[b]) : Meant(l)
    => Total(prediction[b]) = prog.runs[b]

(***************************************************************************)
(* "dep1 dom C, dep2 dom C => dep1 dom dep2 or dep2 dom dep1": what is     *)
(* computed in a view port stands where it can be used: after the operands *)
(* of the count, after the count itself and after the values of the view   *)
(* port around it.                                                         *)
(***************************************************************************)
ViewsAreAvailable ==
  \A l \in DOMAIN ViewPort :
    LET v == ViewPort[l]  c == Entry(l).TripCount IN
    /\ dominates(v.first, prog.pre[l])
    /\ \A k \in Range(Tail(Nest(l))) : dominates(ViewPort[k].first, v.first)
    /\ pass = "perform" /\ Known(l) /\ c \in DOMAIN placed =>
         /\ placed[c] = v.first
         /\ \A d \in prog.needs[l] : dominates(d, v.first)
=============================================================================
