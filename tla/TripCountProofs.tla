--------------------------- MODULE TripCountProofs ---------------------------
(***************************************************************************)
(* Proofs about the counts of LoopTripCount.  That what is inserted before *)
(* a loop is how often the loop goes back, for every loop the formula is   *)
(* meant for and every width of the numbers; that the pass finds the count *)
(* of the loop it asks for; and that the view ports PerformPred puts the   *)
(* counts into have what they need, for every function whose blocks        *)
(* dominate each other and whose loops nest as LLVM guarantees, and every  *)
(* order of the passes; and that the counters PerformPred inserts end at   *)
(* the runs of the blocks, for every such function, profile and promotion; *)
(* and that all of it has its type where no ratio divides by 0.            *)
(***************************************************************************)
EXTENDS TripCount, PerformPred, FiniteSetTheorems, FunctionTheorems, SequenceTheorems,
        WellFoundedInduction, TLAPS

(***************************************************************************)
(* A set of numbers has a smallest one.                                    *)
(***************************************************************************)
LEMMA NatOrder == IsWellFoundedOn({p \in Nat \X Nat : p[1] < p[2]}, Nat)
BY NatLessThanWellFounded DEF OpToRel

LEMMA Smallest ==
  ASSUME NEW T, T \subseteq Nat, T # {}
  PROVE  \E m \in T : \A n \in T : m <= n
<1> DEFINE R == {p \in Nat \X Nat : p[1] < p[2]}
<1>1. IsWellFoundedOn(R, Nat)
  BY NatOrder
<1>2. ASSUME NEW m \in T, NEW n \in T, ~(<<n, m>> \in R)
      PROVE  m <= n
  <2>1. n \in Nat /\ m \in Nat /\ <<n, m>> \in Nat \X Nat
    OBVIOUS
  <2>2. <<n, m>>[1] = n /\ <<n, m>>[2] = m
    OBVIOUS
  <2>3. ~(n < m)
    BY <1>2, <2>1, <2>2
  <2>4. QED BY <2>1, <2>3
<1> HIDE DEF R
<1>3. PICK m \in T : \A n \in T : ~(<<n, m>> \in R)
  BY <1>1, WFMin
<1>4. \A n \in T : m <= n
  BY <1>2, <1>3
<1>5. QED BY <1>4

(***************************************************************************)
(* The size of a finite set bounds the numbers it can be mapped onto.      *)
(***************************************************************************)
LEMMA Pigeons ==
  ASSUME NEW S, IsFiniteSet(S), NEW f, f = [s \in S |-> f[s]]
  PROVE  \E k \in 0 .. Cardinality(S) : \A s \in S : f[s] # k
<1>1. Cardinality(S) \in Nat
  BY FS_CardinalityType
<1>2. SUFFICES ASSUME \A k \in 0 .. Cardinality(S) : \E s \in S : f[s] = k
               PROVE  FALSE
  OBVIOUS
<1> DEFINE K == 0 .. Cardinality(S)
           S2 == {s \in S : f[s] \in K}
           g == [s \in S2 |-> f[s]]
<1>3. S2 \subseteq S /\ S2 \in SUBSET S
  OBVIOUS
<1>4. IsFiniteSet(S2) /\ Cardinality(S2) <= Cardinality(S) /\ Cardinality(S2) \in Nat
  <2> HIDE DEF S2
  <2>1. QED BY <1>3, FS_Subset, FS_CardinalityType
<1>5. g \in Surjection(S2, K)
  <2>1. g \in [S2 -> K]
    OBVIOUS
  <2>2. \A k \in K : \E s \in S2 : g[s] = k
    BY <1>2
  <2>3. QED BY <2>1, <2>2 DEF Surjection
<1>6. Cardinality(K) = Cardinality(S) + 1
  <2>1. ASSUME NEW n \in Nat PROVE Cardinality(0 .. n) = n + 1
    <3>1. 0 \in Int /\ n \in Int
      OBVIOUS
    <3>2. Cardinality(0 .. n) = IF 0 > n THEN 0 ELSE n - 0 + 1
      BY <3>1, FS_Interval
    <3>3. QED BY <3>2
  <2>2. QED BY <1>1, <2>1
<1>7. Cardinality(K) <= Cardinality(S2)
  <2> HIDE DEF S2, K, g
  <2>1. QED BY <1>4, <1>5, FS_Surjection
<1> HIDE DEF S2, K, g
<1>8. QED BY <1>1, <1>4, <1>6, <1>7

(***************************************************************************)
(* Of blocks that dominate one block, one is dominated by all the others.  *)
(***************************************************************************)
LEMMA Deepest ==
  ASSUME NEW p \in Programs, NEW b \in DOMAIN p.dom,
         NEW S, S \subseteq p.dom[b], S # {}
  PROVE  \E s \in S : \A d \in S : d \in p.dom[s]
<1>1. Dominance(p)
  BY ProgramsAssumption
<1>2. \A a \in S : a \in DOMAIN p.dom /\ IsFiniteSet(p.dom[a])
  BY <1>1 DEF Dominance
<1>3. IsFiniteSet(p.dom[b]) /\ Cardinality(p.dom[b]) \in Nat
  BY <1>1, FS_CardinalityType DEF Dominance
<1> DEFINE size(a) == Cardinality(p.dom[a])
           rest(a) == Cardinality(p.dom[b]) - size(a)
           T == {rest(a) : a \in S}
<1>4. ASSUME NEW a \in S
      PROVE  size(a) \in Nat /\ rest(a) \in Nat
  <2>1. p.dom[a] \in SUBSET p.dom[b]
    BY <1>1 DEF Dominance
  <2>2. size(a) <= Cardinality(p.dom[b]) /\ size(a) \in Nat
    BY <1>2, <1>3, <2>1, FS_Subset, FS_CardinalityType
  <2>3. QED BY <1>3, <2>2
<1>5. T \subseteq Nat /\ T # {}
  BY <1>4
<1>6. PICK s \in S : \A a \in S : rest(s) <= rest(a)
  <2> HIDE DEF rest
  <2>1. PICK t \in T : \A u \in T : t <= u
    <3> HIDE DEF T
    <3>1. QED BY <1>5, Smallest
  <2>2. PICK s \in S : t = rest(s)
    BY <2>1
  <2>3. \A a \in S : rest(s) <= rest(a)
    BY <2>1, <2>2
  <2>4. QED BY <2>3
<1>7. ASSUME NEW d \in S
      PROVE  d \in p.dom[s]
  <2>1. d \in p.dom[s] \/ s \in p.dom[d]
    BY <1>1 DEF Dominance
  <2>2. CASE s \in p.dom[d]
    <3>1. p.dom[s] \in SUBSET p.dom[d]
      BY <1>1, <1>2, <2>2 DEF Dominance
    <3>2. size(d) <= size(s)
      <4>1. rest(s) <= rest(d) /\ size(s) \in Nat /\ size(d) \in Nat
        BY <1>4, <1>6
      <4>2. QED BY <4>1, <1>3
    <3>3. size(s) <= size(d)
      BY <1>2, <3>1, FS_Subset
    <3>4. p.dom[s] = p.dom[d]
      <4>1. size(s) = size(d)
        <5>1. size(s) \in Nat /\ size(d) \in Nat
          BY <1>4
        <5> HIDE DEF size
        <5>2. QED BY <5>1, <3>2, <3>3
      <4>2. QED BY <1>2, <3>1, <4>1, FS_Subset
    <3>5. d \in p.dom[d]
      BY <1>1, <1>2 DEF Dominance
    <3>6. QED BY <3>4, <3>5
  <2>3. QED BY <2>1, <2>2
<1>8. QED BY <1>7
----------------------------------------------------------------------------
(***************************************************************************)
(* Value::setName finds a name that nothing in the program has.            *)
(***************************************************************************)
LEMMA FreshName ==
  ASSUME NEW n, IsFiniteSet(DOMAIN placed)
  PROVE  \E k \in Nat : /\ setName(n) = <<n, k>> /\ ~Taken(<<n, k>>)
                        /\ k <= Cardinality(DOMAIN placed)
<1> DEFINE N == Cardinality(DOMAIN placed)
           f == [c \in DOMAIN placed |-> c.name[2]]
           T == {k \in 0 .. N : ~Taken(<<n, k>>)}
<1>1. N \in Nat
  BY FS_CardinalityType
<1>2. \E k \in 0 .. N : \A c \in DOMAIN placed : f[c] # k
  <2>1. f = [c \in DOMAIN placed |-> f[c]]
    OBVIOUS
  <2> HIDE DEF f
  <2>2. QED BY <2>1, Pigeons
<1>3. T \subseteq Nat /\ T # {}
  <2>1. PICK k \in 0 .. N : \A c \in DOMAIN placed : f[c] # k
    BY <1>2
  <2>2. ASSUME NEW c \in DOMAIN placed PROVE c.name # <<n, k>>
    <3>1. c.name[2] # k
      BY <2>1
    <3>2. QED BY <3>1
  <2>3. k \in T
    BY <2>2 DEF Taken
  <2>4. QED BY <1>1, <2>3
<1>4. PICK m \in T : \A j \in T : m <= j
  <2> HIDE DEF T
  <2>1. QED BY <1>3, Smallest
<1> DEFINE First(k) == ~Taken(<<n, k>>) /\ \A j \in 0 .. k - 1 : Taken(<<n, j>>)
<1>5. m \in 0 .. N /\ First(m)
  <2>1. m \in 0 .. N /\ ~Taken(<<n, m>>)
    OBVIOUS
  <2>2. ASSUME NEW j \in 0 .. m - 1 PROVE Taken(<<n, j>>)
    <3>1. j \in 0 .. N /\ ~(m <= j)
      BY <1>1, <2>1
    <3>2. QED BY <1>4, <3>1
  <2>3. QED BY <2>1, <2>2
<1> DEFINE k == CHOOSE i \in 0 .. N : First(i)
<1>6. k \in 0 .. N /\ First(k)
  <2> HIDE DEF First, N, T
  <2>1. QED BY <1>5
<1>7. setName(n) = <<n, k>>
  BY DEF setName
<1>8. k \in Nat /\ ~Taken(<<n, k>>) /\ k <= N
  <2> HIDE DEF k, T
  <2>1. QED BY <1>1, <1>6
<1>9. QED BY <1>7, <1>8
----------------------------------------------------------------------------
(***************************************************************************)
(* The counts that stand in the program, and the entries that name them:   *)
(* an entry has what analysis() found of its loop, and two entries have    *)
(* two counts.                                                             *)
(***************************************************************************)
Standing(c) ==
  /\ c \in [of : theLoops, name : theNames \X Nat]
  /\ c.name[1] = prog.name[c.of]

TripCountAt(k) == CycleMap[k].TripCount

EntriesRight ==
  /\ CycleMap = [k \in 1 .. Len(prog.order) |-> CycleMap[k]]
  /\ \A k \in 1 .. Len(prog.order) :
       /\ CycleMap[k] = [Start |-> prog.order[k] \in prog.countable,
                         TripCount |-> TripCountAt(k)]
       /\ TripCountAt(k) # None
            => TripCountAt(k).name = None \/ TripCountAt(k) \in DOMAIN placed
       /\ Named /\ TripCountAt(k) # None => TripCountAt(k).of = prog.order[k]
  /\ \A j, k \in 1 .. Len(prog.order) :
       TripCountAt(j) = TripCountAt(k) /\ TripCountAt(j) \in DOMAIN placed => j = k

(* LoopMap leads from the objects there are now to the entries *)
Numbered ==
  \A l \in theLoops : address[l] \in DOMAIN LoopMap /\ LoopMap[address[l]] = Index(l)

PlacedRight ==
  /\ IsFiniteSet(DOMAIN placed)
  /\ \A c \in DOMAIN placed : Standing(c)

CacheInv ==
  /\ prog \in Programs
  /\ address \in Allocations
  /\ at \in 1 .. Len(prog.order) + 1
  /\ PlacedRight
  /\ valid => EntriesRight
  /\ pass # "none" => valid /\ Numbered
  /\ CountIsOwn

LEMMA LenOf ==
  ASSUME NEW n \in Nat, NEW f, f = [k \in 1 .. n |-> f[k]]
  PROVE  Len(f) = n
<1> DEFINE S == {f[k] : k \in 1 .. n}
<1>1. f \in [1 .. n -> S]
  OBVIOUS
<1>2. f \in Seq(S)
  <2> HIDE DEF S
  <2>1. QED BY <1>1, SeqDef
<1>3. DOMAIN f = 1 .. n
  BY <1>1
<1>4. Len(f) \in Nat /\ DOMAIN f = 1 .. Len(f)
  <2> HIDE DEF S
  <2>1. QED BY <1>2, LenProperties
<1>5. QED BY <1>3, <1>4

(* the loops of a function and their places *)
LEMMA TheLoops ==
  ASSUME prog \in Programs
  PROVE  /\ Len(prog.order) \in Nat
         /\ \A k \in 1 .. Len(prog.order) : prog.order[k] \in theLoops
         /\ theLoops \subseteq Loops
         /\ \A l \in theLoops : l \in DOMAIN prog.name /\ prog.name[l] \in theNames
         /\ \A j, k \in 1 .. Len(prog.order) : prog.order[j] = prog.order[k] => j = k
<1>1. Nesting(prog)
  BY ProgramsAssumption
<1>2. prog.order \in Seq(Loops) /\ IsInjective(prog.order)
  BY <1>1 DEF Nesting
<1>3. Len(prog.order) \in Nat /\ DOMAIN prog.order = 1 .. Len(prog.order)
      /\ prog.order \in [1 .. Len(prog.order) -> Loops]
  BY <1>2, LenProperties
<1>4. \A k \in 1 .. Len(prog.order) : prog.order[k] \in theLoops
  BY <1>3 DEF theLoops, Range
<1>5. theLoops \subseteq Loops
  BY <1>3 DEF theLoops, Range
<1>6. ASSUME NEW l \in theLoops
      PROVE  l \in DOMAIN prog.name /\ prog.name[l] \in theNames
  <2>1. PICK k \in DOMAIN prog.order : l = prog.order[k]
    BY DEF theLoops, Range
  <2>2. l \in DOMAIN prog.name
    BY <1>1, <2>1 DEF Nesting
  <2>3. prog.name[l] \in Range(prog.name)
    BY <2>2 DEF Range
  <2>4. QED BY <2>2, <2>3 DEF theNames
<1>7. QED BY <1>2, <1>3, <1>4, <1>5, <1>6 DEF IsInjective

LEMMA Place ==
  ASSUME prog \in Programs, NEW l \in theLoops
  PROVE  /\ Index(l) + 1 \in 1 .. Len(prog.order)
         /\ Index(l) \in 0 .. Len(prog.order) - 1
         /\ prog.order[Index(l) + 1] = l
         /\ \A k \in 1 .. Len(prog.order) : prog.order[k] = l => k = Index(l) + 1
<1> DEFINE P == CHOOSE k \in 1 .. Len(prog.order) : prog.order[k] = l
<1>1. P \in 1 .. Len(prog.order) /\ prog.order[P] = l
  <2>1. \E k \in 1 .. Len(prog.order) : prog.order[k] = l
    <3>1. prog.order \in Seq(Loops)
      BY ProgramsAssumption DEF Nesting
    <3>2. DOMAIN prog.order = 1 .. Len(prog.order)
      BY <3>1, LenProperties
    <3>3. QED BY <3>2 DEF theLoops, Range
  <2>2. QED BY <2>1
<1>2. Index(l) = P - 1
  BY DEF Index
<1> HIDE DEF P
<1>3. Index(l) + 1 = P
  BY <1>1, <1>2
<1>4. QED BY <1>1, <1>2, <1>3, TheLoops

(* what stands in the program is neither None nor a constant *)
LEMMA StandingIsNamed ==
  ASSUME prog \in Programs, NEW c, Standing(c)
  PROVE  c # None /\ c.name # None /\ c.of \in theLoops
<1>1. theLoops \subseteq Loops
  BY TheLoops
<1>2. c \in [of : Loops, name : theNames \X Nat]
  BY <1>1 DEF Standing
<1>3. QED BY <1>2, ProgramsAssumption DEF Standing

LEMMA EntryAt ==
  ASSUME CacheInv, valid, Numbered, NEW l \in theLoops
  PROVE  /\ Entry(l) = CycleMap[Index(l) + 1]
         /\ Entry(l).TripCount = TripCountAt(Index(l) + 1)
         /\ Known(l) <=> l \in prog.countable
         /\ Entry(l).Start = (l \in prog.countable)
<1>1. prog \in Programs /\ EntriesRight
  BY DEF CacheInv
<1>2. address[l] \in DOMAIN LoopMap /\ LoopMap[address[l]] = Index(l)
  BY DEF Numbered
<1>3. Entry(l) = CycleMap[Index(l) + 1]
  BY <1>2 DEF Entry
<1>4. Entry(l).TripCount = TripCountAt(Index(l) + 1)
  BY <1>3 DEF TripCountAt
<1> DEFINE k == Index(l) + 1
<1>5. k \in 1 .. Len(prog.order) /\ prog.order[k] = l
  BY <1>1, Place
<1>6. CycleMap[k] = [Start |-> prog.order[k] \in prog.countable,
                     TripCount |-> TripCountAt(k)]
  <2> HIDE DEF k
  <2>1. QED BY <1>1, <1>5 DEF EntriesRight
<1>7. Entry(l).Start = (l \in prog.countable)
  <2>1. Entry(l).Start = (prog.order[k] \in prog.countable)
    BY <1>3, <1>6
  <2>2. QED BY <1>5, <2>1
<1>8. Known(l) <=> l \in prog.countable
  BY <1>2, <1>7 DEF Known
<1>9. QED BY <1>3, <1>4, <1>7, <1>8

(* a count that is inserted is that of the loop, and new *)
LEMMA NewCountRight ==
  ASSUME prog \in Programs, PlacedRight, NEW l \in theLoops
  PROVE  /\ NewCount(l).of = l
         /\ l \in prog.folded => NewCount(l).name = None
         /\ l \notin prog.folded =>
              /\ Standing(NewCount(l)) /\ NewCount(l) \notin DOMAIN placed
              /\ NewCount(l).name[2] \in 0 .. Cardinality(DOMAIN placed)
<1>1. PICK k \in Nat : /\ setName(prog.name[l]) = <<prog.name[l], k>>
                       /\ ~Taken(<<prog.name[l], k>>)
                       /\ k <= Cardinality(DOMAIN placed)
  BY FreshName DEF PlacedRight
<1>2. NewCount(l).of = l
  BY DEF NewCount, Count
<1>3. l \in prog.folded => NewCount(l).name = None
  BY DEF NewCount, Count
<1>4. ASSUME l \notin prog.folded
      PROVE  /\ Standing(NewCount(l)) /\ NewCount(l) \notin DOMAIN placed
             /\ NewCount(l).name[2] \in 0 .. Cardinality(DOMAIN placed)
  <2>1. NewCount(l) = [of |-> l, name |-> <<prog.name[l], k>>]
    BY <1>1, <1>4 DEF NewCount, Count
  <2>2. NewCount(l) \in [of : theLoops, name : theNames \X Nat]
    BY <2>1, TheLoops
  <2>3. NewCount(l).name = <<prog.name[l], k>>
    BY <2>1
  <2>4. NewCount(l).name[1] = prog.name[l]
    BY <2>3
  <2>5. NewCount(l) \notin DOMAIN placed
    BY <1>1, <2>3 DEF Taken
  <2>6. NewCount(l).name[2] \in 0 .. Cardinality(DOMAIN placed)
    <3>1. Cardinality(DOMAIN placed) \in Nat
      BY FS_CardinalityType DEF PlacedRight
    <3>2. NewCount(l).name[2] = k
      BY <2>3
    <3>3. QED BY <1>1, <3>1, <3>2
  <2>7. QED BY <1>2, <2>2, <2>4, <2>5, <2>6 DEF Standing
<1>5. QED BY <1>2, <1>3, <1>4

(***************************************************************************)
(* getOrInsertTripCount: the count is that of the loop, and in the program *)
(* unless it is a constant; no other entry has it.                         *)
(***************************************************************************)
LEMMA CountForRight ==
  ASSUME CacheInv, valid, Numbered, NEW l \in theLoops
  PROVE  /\ IsFiniteSet(DOMAIN Placed(l))
         /\ DOMAIN placed \subseteq DOMAIN Placed(l)
         /\ \A c \in DOMAIN Placed(l) : Standing(c)
         /\ \A c \in DOMAIN placed : Placed(l)[c] = placed[c]
         /\ CountFor(l) # None
              => CountFor(l).name = None \/ CountFor(l) \in DOMAIN Placed(l)
         /\ Named /\ CountFor(l) # None => CountFor(l).of = l
         /\ \A k \in 1 .. Len(prog.order) :
              k # Index(l) + 1 /\ TripCountAt(k) \in DOMAIN Placed(l)
                => TripCountAt(k) \in DOMAIN placed /\ TripCountAt(k) # CountFor(l)
<1> DEFINE p == Index(l) + 1
           new == Known(l) /\ getTripCount(l) = None
<1>1. prog \in Programs /\ EntriesRight /\ PlacedRight
  BY DEF CacheInv
<1>2. p \in 1 .. Len(prog.order) /\ prog.order[p] = l
  BY <1>1, Place
<1>3. Known(l) => getTripCount(l) = TripCountAt(p)
  BY EntryAt DEF getTripCount
<1>4. ~Known(l) => getTripCount(l) = None
  BY DEF getTripCount
<1>5. /\ \A k \in 1 .. Len(prog.order) :
           /\ TripCountAt(k) # None
                => TripCountAt(k).name = None \/ TripCountAt(k) \in DOMAIN placed
           /\ Named /\ TripCountAt(k) # None => TripCountAt(k).of = prog.order[k]
      /\ \A j, k \in 1 .. Len(prog.order) :
           TripCountAt(j) = TripCountAt(k) /\ TripCountAt(j) \in DOMAIN placed => j = k
  BY <1>1 DEF EntriesRight
<1>6. ASSUME NEW c, Standing(c)
      PROVE  c # None /\ c.name # None
  BY <1>1, <1>6, StandingIsNamed
<1>7. IsFiniteSet(DOMAIN placed) /\ \A c \in DOMAIN placed : Standing(c)
  BY <1>1 DEF PlacedRight
<1>8. CASE ~new
  <2>1. Placed(l) = placed
    BY <1>8 DEF Placed
  <2>2. CountFor(l) = getTripCount(l)
    BY <1>8 DEF CountFor
  <2>3. CountFor(l) = None \/ CountFor(l) = TripCountAt(p)
    BY <1>3, <1>4, <2>2
  <2>4. ASSUME NEW k \in 1 .. Len(prog.order), k # p, TripCountAt(k) \in DOMAIN placed
        PROVE  TripCountAt(k) # CountFor(l)
    <3>1. CASE CountFor(l) = None
      BY <1>6, <1>7, <2>4, <3>1
    <3>2. CASE CountFor(l) = TripCountAt(p)
      BY <1>2, <1>5, <2>4, <3>2
    <3>3. QED BY <2>3, <3>1, <3>2
  <2> HIDE DEF p, new
  <2>5. QED BY <1>2, <1>5, <1>7, <2>1, <2>3, <2>4 DEF p
<1>9. CASE new
  <2>1. CountFor(l) = NewCount(l)
    BY <1>9 DEF CountFor
  <2>2. CountFor(l).of = l
    BY <1>1, <2>1, NewCountRight
  <2>3. CASE l \in prog.folded
    <3>1. Placed(l) = placed
      BY <2>3 DEF Placed
    <3>2. CountFor(l).name = None
      BY <1>1, <2>1, <2>3, NewCountRight
    <3>3. \A k \in 1 .. Len(prog.order) :
            TripCountAt(k) \in DOMAIN placed => TripCountAt(k) # CountFor(l)
      BY <1>6, <1>7, <3>2
    <3>4. QED BY <1>7, <2>2, <3>1, <3>2, <3>3
  <2>4. CASE l \notin prog.folded
    <3>1. Placed(l) = Put(placed, NewCount(l), prog.pre[l])
      BY <1>9, <2>4 DEF Placed
    <3>2. Standing(NewCount(l)) /\ NewCount(l) \notin DOMAIN placed
      BY <1>1, <2>4, NewCountRight
    <3>3. /\ DOMAIN Placed(l) = DOMAIN placed \cup {CountFor(l)}
          /\ \A c \in DOMAIN placed : Placed(l)[c] = placed[c]
      <4> DEFINE n == NewCount(l)
                 b == prog.pre[l]
      <4>1. /\ DOMAIN Put(placed, n, b) = DOMAIN placed \cup {n}
            /\ \A c \in DOMAIN placed \ {n} : Put(placed, n, b)[c] = placed[c]
        <5> HIDE DEF n, b
        <5>1. QED BY DEF Put, Over
      <4>2. Placed(l) = Put(placed, n, b) /\ n \notin DOMAIN placed /\ CountFor(l) = n
        BY <2>1, <3>1, <3>2
      <4> HIDE DEF n, b
      <4>3. QED BY <4>1, <4>2
    <3>4. IsFiniteSet(DOMAIN Placed(l))
      BY <1>7, <3>3, FS_AddElement
    <3>5. ASSUME NEW k \in 1 .. Len(prog.order), TripCountAt(k) \in DOMAIN Placed(l)
          PROVE  TripCountAt(k) \in DOMAIN placed /\ TripCountAt(k) # CountFor(l)
      <4>1. SUFFICES TripCountAt(k) # CountFor(l)
        BY <3>3, <3>5
      <4>2. CountFor(l) # None /\ CountFor(l).name # None /\ CountFor(l) \notin DOMAIN placed
        BY <1>6, <2>1, <3>2
      <4>3. QED BY <1>5, <4>2
    <3>6. \A c \in DOMAIN Placed(l) : Standing(c)
      BY <1>7, <2>1, <3>2, <3>3
    <3>7. QED BY <2>2, <3>3, <3>4, <3>5, <3>6
  <2>5. QED BY <2>3, <2>4
<1>10. QED BY <1>8, <1>9
----------------------------------------------------------------------------
(***************************************************************************)
(* The invariant of the cache, one lemma for each action.                  *)
(***************************************************************************)
LEMMA SameStart ==
  ASSUME NEW r, NEW s, NEW t, NEW u, r = [Start |-> s, TripCount |-> t]
  PROVE  [r EXCEPT !.TripCount = u] = [Start |-> s, TripCount |-> u]
OBVIOUS

(* getOrInsertTripCount in the loop over the loops, wherever counts go *)
LEMMA InsertedRight ==
  ASSUME CacheInv, pass # "none", at <= Len(prog.order),
         getOrInsertTripCount(Here), DOMAIN placed' = DOMAIN Placed(Here),
         at' = at + 1, UNCHANGED <<prog, address, LoopMap, valid, pass>>
  PROVE  /\ CacheInv'
         /\ \A k \in 1 .. Len(prog.order) :
              TripCountAt(k)' = IF Known(Here) /\ k = Index(Here) + 1 THEN CountFor(Here)
                                                                     ELSE TripCountAt(k)
<1> DEFINE l == Here
           K == Index(l) + 1
           n == Len(prog.order)
<1>1. /\ prog \in Programs /\ EntriesRight /\ PlacedRight /\ valid /\ Numbered
      /\ at \in 1 .. n /\ n \in Nat /\ address \in Allocations /\ CountIsOwn
  BY TheLoops DEF CacheInv
<1>2. l \in theLoops
  BY <1>1, TheLoops DEF Here
<1>3. K \in 1 .. n /\ prog.order[K] = l /\ Index(l) = LoopMap[address[l]]
      /\ address[l] \in DOMAIN LoopMap
  <2> HIDE DEF l
  <2>1. QED BY <1>1, <1>2, Place DEF Numbered
<1>4. /\ IsFiniteSet(DOMAIN Placed(l))
      /\ DOMAIN placed \subseteq DOMAIN Placed(l)
      /\ \A c \in DOMAIN Placed(l) : Standing(c)
      /\ CountFor(l) # None => CountFor(l).name = None \/ CountFor(l) \in DOMAIN Placed(l)
      /\ Named /\ CountFor(l) # None => CountFor(l).of = l
      /\ \A k \in 1 .. n :
           k # K /\ TripCountAt(k) \in DOMAIN Placed(l)
             => TripCountAt(k) \in DOMAIN placed /\ TripCountAt(k) # CountFor(l)
  <2> HIDE DEF l
  <2>1. QED BY <1>1, <1>2, CountForRight
<1>5. CycleMap' = IF Known(l) THEN [CycleMap EXCEPT ![K].TripCount = CountFor(l)]
                              ELSE CycleMap
  BY <1>3 DEF getOrInsertTripCount
<1>6. CycleMap = [k \in 1 .. n |-> CycleMap[k]]
  BY <1>1 DEF EntriesRight
<1>7. /\ CycleMap' = [k \in 1 .. n |-> CycleMap'[k]]
      /\ \A k \in 1 .. n : k # K => CycleMap'[k] = CycleMap[k]
      /\ Known(l) => CycleMap'[K] = [CycleMap[K] EXCEPT !.TripCount = CountFor(l)]
      /\ ~Known(l) => CycleMap' = CycleMap
  <2> HIDE DEF l, K, n
  <2>1. QED BY <1>3, <1>5, <1>6
<1>8. \A k \in 1 .. n :
        CycleMap[k] = [Start |-> prog.order[k] \in prog.countable, TripCount |-> TripCountAt(k)]
  BY <1>1 DEF EntriesRight
<1>9. ASSUME NEW k \in 1 .. n
      PROVE  /\ TripCountAt(k)' = IF Known(l) /\ k = K THEN CountFor(l) ELSE TripCountAt(k)
             /\ CycleMap'[k] = [Start |-> prog.order[k] \in prog.countable,
                                TripCount |-> TripCountAt(k)']
  <2>1. CASE Known(l) /\ k = K
    <3>1. CycleMap[k] = [Start |-> prog.order[k] \in prog.countable,
                         TripCount |-> TripCountAt(k)]
      BY <1>8
    <3>2. CycleMap'[k] = [CycleMap[k] EXCEPT !.TripCount = CountFor(l)]
      BY <1>7, <2>1
    <3> DEFINE st == prog.order[k] \in prog.countable
    <3>3. CycleMap'[k] = [Start |-> st, TripCount |-> CountFor(l)]
      <4> HIDE DEF st
      <4>1. CycleMap[k] = [Start |-> st, TripCount |-> TripCountAt(k)]
        BY <3>1 DEF st
      <4>2. QED BY <3>2, <4>1
    <3>4. TripCountAt(k)' = CountFor(l)
      BY <3>3 DEF TripCountAt
    <3>5. QED BY <2>1, <3>3, <3>4
  <2>2. CASE ~(Known(l) /\ k = K)
    <3>1. CycleMap'[k] = CycleMap[k]
      BY <1>7, <2>2
    <3>2. TripCountAt(k)' = TripCountAt(k)
      BY <3>1 DEF TripCountAt
    <3>3. CycleMap[k] = [Start |-> prog.order[k] \in prog.countable,
                         TripCount |-> TripCountAt(k)]
      BY <1>8
    <3>4. QED BY <2>2, <3>1, <3>2, <3>3
  <2>3. QED BY <2>1, <2>2
<1>10. /\ \A k \in 1 .. n :
           /\ TripCountAt(k) # None
                => TripCountAt(k).name = None \/ TripCountAt(k) \in DOMAIN placed
           /\ Named /\ TripCountAt(k) # None => TripCountAt(k).of = prog.order[k]
       /\ \A j, k \in 1 .. n :
           TripCountAt(j) = TripCountAt(k) /\ TripCountAt(j) \in DOMAIN placed => j = k
  BY <1>1 DEF EntriesRight
<1>11. DOMAIN placed' = DOMAIN Placed(l)
  OBVIOUS
<1>12. ASSUME NEW k \in 1 .. n
       PROVE  /\ TripCountAt(k)' # None
                   => TripCountAt(k)'.name = None \/ TripCountAt(k)' \in DOMAIN placed'
              /\ Named /\ TripCountAt(k)' # None => TripCountAt(k)'.of = prog.order[k]
  <2>1. CASE Known(l) /\ k = K
    <3>1. TripCountAt(k)' = CountFor(l) /\ prog.order[k] = l
      BY <1>3, <1>9, <2>1
    <3>2. QED BY <1>4, <1>11, <3>1
  <2>2. CASE ~(Known(l) /\ k = K)
    <3>1. TripCountAt(k)' = TripCountAt(k)
      BY <1>9, <2>2
    <3> HIDE DEF l, K, n
    <3>2. QED BY <1>4, <1>10, <1>11, <3>1
  <2>3. QED BY <2>1, <2>2
<1>13. ASSUME NEW j \in 1 .. n, NEW k \in 1 .. n,
              TripCountAt(j)' = TripCountAt(k)', TripCountAt(j)' \in DOMAIN placed'
       PROVE  j = k
  <2> DEFINE moved(m) == Known(l) /\ m = K
  <2>1. ASSUME NEW m \in 1 .. n
        PROVE  TripCountAt(m)' = IF moved(m) THEN CountFor(l) ELSE TripCountAt(m)
    BY <1>9
  <2>2. CASE moved(j) /\ moved(k)
    BY <2>2
  <2>3. CASE moved(j) /\ ~moved(k)
    <3>1. TripCountAt(j)' = CountFor(l) /\ TripCountAt(k)' = TripCountAt(k) /\ k # K
      BY <2>1, <2>3
    <3>2. QED BY <1>4, <1>11, <1>13, <3>1
  <2>4. CASE ~moved(j) /\ moved(k)
    <3>1. TripCountAt(k)' = CountFor(l) /\ TripCountAt(j)' = TripCountAt(j) /\ j # K
      BY <2>1, <2>4
    <3>2. QED BY <1>4, <1>11, <1>13, <3>1
  <2>5. CASE ~moved(j) /\ ~moved(k)
    <3>1. TripCountAt(j)' = TripCountAt(j) /\ TripCountAt(k)' = TripCountAt(k)
      BY <2>1, <2>5
    <3>2. TripCountAt(j) = TripCountAt(k) /\ TripCountAt(j) \in DOMAIN Placed(l)
      BY <1>11, <1>13, <3>1
    <3>3. TripCountAt(j) \in DOMAIN placed \/ TripCountAt(k) \in DOMAIN placed \/ (j = K /\ k = K)
      BY <1>4, <3>2
    <3>4. QED BY <1>10, <3>2, <3>3
  <2>6. QED BY <2>2, <2>3, <2>4, <2>5
<1>14. prog' = prog /\ (Named' <=> Named)
  BY DEF Named
<1>15. EntriesRight'
  BY <1>7, <1>9, <1>12, <1>13, <1>14 DEF EntriesRight
<1>16. PlacedRight'
  <2>1. \A c : Standing(c)' <=> Standing(c)
    BY <1>14 DEF Standing, theLoops
  <2>2. QED BY <1>4, <1>11, <2>1 DEF PlacedRight
<1>17. Numbered'
  BY <1>1 DEF Numbered, theLoops, Index
<1>18. CountIsOwn'
  <2>1. returned' = [loop |-> l, count |-> CountFor(l)]
    BY DEF getOrInsertTripCount
  <2>2. returned'.loop = l /\ returned'.count = CountFor(l)
    BY <2>1
  <2>3. QED BY <1>4, <1>14, <2>2 DEF CountIsOwn
<1>19. at' \in 1 .. Len(prog'.order) + 1
  BY <1>1
<1>20. CacheInv'
  BY <1>1, <1>15, <1>16, <1>17, <1>18, <1>19 DEF CacheInv, Allocations, theLoops
<1>21. QED BY <1>9, <1>20

(* analysis: a count is known again by its name and its place *)
LEMMA AnalysedRight ==
  ASSUME prog \in Programs, PlacedRight, NEW l \in theLoops,
         NEW c, c = Analysed(l).TripCount, c # None
  PROVE  /\ c \in DOMAIN placed
         /\ placed[c] = prog.pre[l]
         /\ Named => c.of = l
<1>1. c = IF l \in prog.countable /\ Inserted(l) # {}
            THEN CHOOSE d \in Inserted(l) : TRUE ELSE None
  BY DEF Analysed
<1>2. c \in Inserted(l)
  BY <1>1
<1>3. c \in DOMAIN placed /\ c.name = <<prog.name[l], 0>> /\ placed[c] = prog.pre[l]
  BY <1>2 DEF Inserted
<1>4. Named => c.of = l
  <2>1. c.of \in theLoops /\ c.name[1] = prog.name[c.of]
    BY <1>3, StandingIsNamed DEF PlacedRight, Standing
  <2>2. prog.name[c.of] = prog.name[l]
    BY <1>3, <2>1
  <2>3. c.of \in DOMAIN prog.name /\ l \in DOMAIN prog.name
    BY <2>1, TheLoops
  <2>4. QED BY <2>2, <2>3 DEF Named, IsInjective
<1>5. QED BY <1>3, <1>4

LEMMA AnalysisKeeps ==
  ASSUME CacheInv, runOnFunction
  PROVE  CacheInv'
<1> DEFINE n == Len(prog.order)
<1> USE DEF runOnFunction
<1>1. prog \in Programs /\ PlacedRight /\ CountIsOwn /\ n \in Nat
      /\ at \in 1 .. n + 1 /\ address \in Allocations
  BY TheLoops DEF CacheInv
<1>2. CycleMap' = [k \in 1 .. n |-> Analysed(prog.order[k])]
  OBVIOUS
<1>3. ASSUME NEW k \in 1 .. n
      PROVE  /\ prog.order[k] \in theLoops
             /\ TripCountAt(k)' = Analysed(prog.order[k]).TripCount
             /\ CycleMap'[k] = [Start |-> prog.order[k] \in prog.countable,
                                TripCount |-> TripCountAt(k)']
  <2>1. prog.order[k] \in theLoops
    BY <1>1, TheLoops
  <2>2. CycleMap'[k] = Analysed(prog.order[k])
    BY <1>2
  <2>3. TripCountAt(k)' = Analysed(prog.order[k]).TripCount
    BY <2>2 DEF TripCountAt
  <2>4. Analysed(prog.order[k])
          = [Start |-> prog.order[k] \in prog.countable,
             TripCount |-> Analysed(prog.order[k]).TripCount]
    BY DEF Analysed
  <2>5. QED BY <2>1, <2>2, <2>3, <2>4
<1>4. ASSUME NEW k \in 1 .. n, TripCountAt(k)' # None
      PROVE  /\ TripCountAt(k)' \in DOMAIN placed
             /\ placed[TripCountAt(k)'] = prog.pre[prog.order[k]]
             /\ Named => TripCountAt(k)'.of = prog.order[k]
  <2> DEFINE c == Analysed(prog.order[k]).TripCount
             l == prog.order[k]
  <2>1. l \in theLoops /\ TripCountAt(k)' = c
    BY <1>3
  <2> HIDE DEF l
  <2>2. c # None
    BY <1>4, <2>1
  <2>3. c \in DOMAIN placed /\ placed[c] = prog.pre[l] /\ (Named => c.of = l)
    BY <1>1, <2>1, <2>2, AnalysedRight DEF l
  <2>4. QED BY <2>1, <2>3 DEF l
<1>5. ASSUME NEW j \in 1 .. n, NEW k \in 1 .. n,
             TripCountAt(j)' = TripCountAt(k)', TripCountAt(j)' \in DOMAIN placed
      PROVE  j = k
  <2>1. TripCountAt(j)' # None
    BY <1>1, <1>5, StandingIsNamed DEF PlacedRight
  <2>2. prog.pre[prog.order[j]] = prog.pre[prog.order[k]]
    BY <1>4, <1>5, <2>1
  <2>3. Nesting(prog) /\ DOMAIN prog.order = 1 .. n
    <3>1. Nesting(prog)
      BY <1>1, ProgramsAssumption
    <3>2. prog.order \in Seq(Loops)
      BY <3>1 DEF Nesting
    <3>3. QED BY <3>1, <3>2, LenProperties
  <2>4. QED BY <2>2, <2>3 DEF Nesting
<1>6. prog' = prog /\ placed' = placed /\ (Named' <=> Named)
  BY DEF Named
<1>7. CycleMap' = [k \in 1 .. n |-> CycleMap'[k]]
  BY <1>2
<1>8. EntriesRight'
  BY <1>3, <1>4, <1>5, <1>6, <1>7 DEF EntriesRight
<1>9. PlacedRight'
  BY <1>1, <1>6 DEF PlacedRight, Standing, theLoops
<1>10. pass' = "none"
  OBVIOUS
<1>11. QED BY <1>1, <1>6, <1>8, <1>9, <1>10
           DEF CacheInv, CountIsOwn, Allocations, theLoops

(* updateCache: every object has an index, and it is the one of its loop *)
LEMMA BeginKeeps ==
  ASSUME CacheInv, NEW p, Begin(p)
  PROVE  CacheInv'
<1> USE DEF Begin
<1>1. prog \in Programs /\ PlacedRight /\ CountIsOwn /\ EntriesRight
      /\ address \in Allocations /\ Len(prog.order) \in Nat
  BY TheLoops DEF CacheInv
<1>2. ASSUME NEW l \in theLoops
      PROVE  address[l] \in DOMAIN LoopMap' /\ LoopMap'[address[l]] = Index(l)
  <2>1. address \in [theLoops -> Addresses] /\ IsInjective(address)
    BY <1>1 DEF Allocations
  <2>2. address[l] \in Range(address)
    BY <2>1 DEF Range
  <2>3. (CHOOSE m \in theLoops : address[m] = address[l]) = l
    <3> DEFINE q == CHOOSE m \in theLoops : address[m] = address[l]
    <3>1. q \in theLoops /\ address[q] = address[l]
      OBVIOUS
    <3> HIDE DEF q
    <3>2. q = l
      BY <2>1, <3>1 DEF IsInjective
    <3>3. QED BY <3>2 DEF q
  <2>4. address[l] \in DOMAIN Indices /\ Indices[address[l]] = Index(l)
    BY <2>2, <2>3 DEF Indices
  <2>5. LoopMap' = Over(Indices, LoopMap)
    BY DEF updateCache
  <2>6. QED BY <2>4, <2>5 DEF Over
<1>3. Numbered'
  BY <1>2 DEF Numbered, theLoops, Index
<1>4. EntriesRight'
  BY <1>1 DEF EntriesRight, TripCountAt, Named
<1>5. at' \in 1 .. Len(prog'.order) + 1
  BY <1>1
<1>6. QED BY <1>1, <1>3, <1>4, <1>5
          DEF CacheInv, PlacedRight, Standing, theLoops, CountIsOwn, Named, Allocations

LEMMA NewLoopInfoKeeps ==
  ASSUME CacheInv, NEW new \in Allocations, NewLoopInfo(new)
  PROVE  CacheInv'
BY DEF CacheInv, NewLoopInfo, PlacedRight, Standing, theLoops, CountIsOwn, Named, Allocations,
       EntriesRight, TripCountAt

LEMMA TransformKeeps ==
  ASSUME CacheInv, NEW gone \in SUBSET DOMAIN placed, Transform(gone)
  PROVE  CacheInv'
<1> USE DEF Transform
<1>1. DOMAIN placed' = DOMAIN placed \ gone /\ prog' = prog
  OBVIOUS
<1>2. PlacedRight'
  <2>1. IsFiniteSet(DOMAIN placed)
    BY DEF CacheInv, PlacedRight
  <2>2. IsFiniteSet(DOMAIN placed \ gone)
    BY <2>1, FS_Difference
  <2>3. QED BY <1>1, <2>2 DEF CacheInv, PlacedRight, Standing, theLoops
<1>3. QED BY <1>1, <1>2 DEF CacheInv, CountIsOwn, Named, Allocations, theLoops

LEMMA CacheStep ==
  ASSUME CacheInv, [Next]_vars
  PROVE  CacheInv'
<1> USE DEF Cached, vars, cacheVars
<1>1. CASE runOnFunction
  BY <1>1, AnalysisKeeps
<1>2. CASE Begin("insert") \/ BeginPerform
  BY <1>2, BeginKeeps DEF BeginPerform
<1>3. CASE runOnLoop
  BY <1>3, InsertedRight DEF runOnLoop, AtLoop
<1>4. CASE ViewLoop
  <2>1. DOMAIN placed' = DOMAIN Placed(Here)
    BY <1>4 DEF ViewLoop
  <2>2. QED BY <1>4, <2>1, InsertedRight DEF ViewLoop, AtLoop
<1>5. CASE \E new \in Allocations : NewLoopInfo(new)
  BY <1>5, NewLoopInfoKeeps
<1>6. CASE \E gone \in SUBSET DOMAIN placed : Transform(gone)
  BY <1>6, TransformKeeps
<1>7. CASE EndInsert \/ PredictBlocks \/ UNCHANGED vars
  <2>1. /\ UNCHANGED <<prog, address, LoopMap, CycleMap, placed, at, returned>>
        /\ pass' \in {pass, "none"}
        /\ valid' = valid \/ (pass' = "none" /\ ~valid')
    BY <1>7 DEF EndInsert, PredictBlocks
  <2>2. EntriesRight' <=> EntriesRight
    BY <2>1 DEF EntriesRight, TripCountAt, Named
  <2>3. PlacedRight' <=> PlacedRight
    BY <2>1 DEF PlacedRight, Standing, theLoops
  <2>4. Numbered' <=> Numbered
    BY <2>1 DEF Numbered, theLoops, Index
  <2>5. CountIsOwn' <=> CountIsOwn
    BY <2>1 DEF CountIsOwn, Named
  <2>6. Allocations' = Allocations
    BY <2>1 DEF Allocations, theLoops
  <2>7. QED BY <2>1, <2>2, <2>3, <2>4, <2>5, <2>6 DEF CacheInv
<1>8. QED BY <1>1, <1>2, <1>3, <1>4, <1>5, <1>6, <1>7 DEF Next

LEMMA CacheStart == Init => CacheInv
<1> SUFFICES ASSUME Init PROVE CacheInv
  OBVIOUS
<1> USE DEF Init, CacheInit
<1>1. prog \in Programs /\ address \in Allocations /\ pass = "none" /\ ~valid /\ at = 1
      /\ placed = << >> /\ returned = [loop |-> None, count |-> None]
  OBVIOUS
<1>2. DOMAIN placed = {}
  BY <1>1
<1>3. PlacedRight
  BY <1>2, FS_EmptySet DEF PlacedRight
<1>4. CountIsOwn
  BY <1>1 DEF CountIsOwn
<1>5. at \in 1 .. Len(prog.order) + 1
  BY <1>1, TheLoops
<1>6. QED BY <1>1, <1>3, <1>4, <1>5 DEF CacheInv

THEOREM CacheAlways == Spec => []CacheInv
<1>1. CacheInv /\ [Next]_vars => CacheInv'
  BY CacheStep
<1>2. QED BY CacheStart, <1>1, PTL DEF Spec

(***************************************************************************)
(* getOrInsertTripCount returns the count of the loop it is asked for,     *)
(* if headers have names and whatever passes ran before.                   *)
(***************************************************************************)
THEOREM CountRight == Spec => []CountIsOwn
<1>1. CacheInv => CountIsOwn
  BY DEF CacheInv
<1>2. QED BY CacheAlways, <1>1, PTL

(***************************************************************************)
(* While a pass asks, every loop has the entry analysis() made for it, and *)
(* the count it names is in the program.                                   *)
(***************************************************************************)
THEOREM EntryRight == Spec => []EntryIsOwn
<1>1. ASSUME CacheInv, AtLoop("insert") \/ AtLoop("perform"), NEW l \in theLoops
      PROVE  /\ address[l] \in DOMAIN LoopMap
             /\ LoopMap[address[l]] < Len(CycleMap)
             /\ Entry(l).Start = (l \in prog.countable)
             /\ LET c == Entry(l).TripCount IN
                c # None => c.name = None \/ c \in DOMAIN placed
  <2>1. valid /\ Numbered /\ EntriesRight /\ prog \in Programs
    BY <1>1 DEF CacheInv, AtLoop
  <2>2. Len(CycleMap) = Len(prog.order)
    <3>1. CycleMap = [k \in 1 .. Len(prog.order) |-> CycleMap[k]]
      BY <2>1 DEF EntriesRight
    <3>2. QED BY <2>1, <3>1, TheLoops, LenOf
  <2>3. Index(l) \in 0 .. Len(prog.order) - 1 /\ Index(l) + 1 \in 1 .. Len(prog.order)
        /\ Len(prog.order) \in Nat
    BY <2>1, Place, TheLoops
  <2>4. address[l] \in DOMAIN LoopMap /\ LoopMap[address[l]] = Index(l)
    BY <2>1 DEF Numbered
  <2>5. /\ Entry(l).TripCount = TripCountAt(Index(l) + 1)
        /\ Entry(l).Start = (l \in prog.countable)
    BY <1>1, <2>1, EntryAt
  <2>6. LET c == TripCountAt(Index(l) + 1) IN
        c # None => c.name = None \/ c \in DOMAIN placed
    BY <2>1, <2>3 DEF EntriesRight
  <2>7. LoopMap[address[l]] < Len(CycleMap)
    BY <2>2, <2>3, <2>4
  <2>8. QED BY <2>4, <2>5, <2>6, <2>7
<1>2. CacheInv => EntryIsOwn
  BY <1>1 DEF EntryIsOwn
<1>3. QED BY CacheAlways, <1>2, PTL
----------------------------------------------------------------------------
(***************************************************************************)
(* The view ports: each dominates the preheader of its loop and lies after *)
(* the view ports of the loops around it; outer loops come first; and what *)
(* has been moved stands in the view port, after its operands.             *)
(***************************************************************************)
Nested ==
  \A m \in DOMAIN ViewPort :
    /\ m \in theLoops
    /\ dominates(ViewPort[m].first, prog.pre[m])
    /\ \A k \in Range(Tail(Nest(m))) :
         k \in DOMAIN ViewPort /\ dominates(ViewPort[k].first, ViewPort[m].first)

ViewedSoFar == DOMAIN ViewPort = {prog.order[j] : j \in 1 .. at - 1}

CountsMoved ==
  \A m \in DOMAIN ViewPort :
    m \in prog.countable /\ TripCountAt(Index(m) + 1) \in DOMAIN placed =>
      /\ placed[TripCountAt(Index(m) + 1)] = ViewPort[m].first
      /\ \A d \in prog.needs[m] : dominates(d, ViewPort[m].first)

ViewInv ==
  /\ Nested
  /\ pass = "perform" => ViewedSoFar /\ CountsMoved

LEMMA TailRange ==
  ASSUME NEW S, NEW s \in Seq(S), s # <<>>
  PROVE  /\ Len(s) \in Nat
         /\ ~(Len(s) > 1) => Range(Tail(s)) = {}
         /\ Tail(s) \in Seq(S)
         /\ Len(s) > 1 => Tail(s) # <<>> /\ Tail(s)[1] = s[2]
         /\ \A x \in Range(s) : x = s[1] \/ x \in Range(Tail(s))
<1>1. /\ Len(s) \in Nat \ {0} /\ DOMAIN s = 1 .. Len(s)
  BY LenProperties, EmptySeq
<1>2. /\ Tail(s) \in Seq(S) /\ Len(Tail(s)) = Len(s) - 1
      /\ \A i \in 1 .. Len(Tail(s)) : Tail(s)[i] = s[i + 1]
  BY HeadTailProperties
<1>3. DOMAIN Tail(s) = 1 .. Len(s) - 1
  BY <1>2, LenProperties
<1>4. ~(Len(s) > 1) => Range(Tail(s)) = {}
  <2>1. ~(Len(s) > 1) => DOMAIN Tail(s) = {}
    BY <1>1, <1>3
  <2>2. QED BY <2>1 DEF Range
<1>5. Len(s) > 1 => Tail(s) # <<>> /\ Tail(s)[1] = s[2]
  <2>1. ASSUME Len(s) > 1 PROVE Tail(s) # <<>>
    <3>1. Len(Tail(s)) # 0
      BY <1>1, <1>2, <2>1
    <3>2. Len(<<>>) = 0
      BY EmptySeq
    <3>3. QED BY <3>1, <3>2
  <2>2. ASSUME Len(s) > 1 PROVE Tail(s)[1] = s[2]
    <3>1. 1 \in 1 .. Len(Tail(s))
      BY <1>1, <1>2, <2>2
    <3>2. Tail(s)[1] = s[1 + 1]
      BY <1>2, <3>1
    <3>3. 1 + 1 = 2
      OBVIOUS
    <3>4. QED
      <4> DEFINE two == 1 + 1
      <4>1. Tail(s)[1] = s[two] /\ two = 2
        BY <3>2, <3>3
      <4> HIDE DEF two
      <4>2. QED BY <4>1
  <2>3. QED BY <2>1, <2>2
<1>6. ASSUME NEW x \in Range(s) PROVE x = s[1] \/ x \in Range(Tail(s))
  <2>1. PICK i \in 1 .. Len(s) : x = s[i]
    BY <1>1 DEF Range
  <2>2. CASE i = 1
    BY <2>1, <2>2
  <2>3. CASE i # 1
    <3>1. i - 1 \in 1 .. Len(Tail(s)) /\ i - 1 \in DOMAIN Tail(s)
      BY <1>1, <1>2, <1>3, <2>1, <2>3
    <3>2. Tail(s)[i - 1] = x
      BY <1>1, <1>2, <2>1, <3>1
    <3>3. QED BY <3>1, <3>2 DEF Range
  <2>4. QED BY <2>2, <2>3
<1>7. QED BY <1>1, <1>2, <1>4, <1>5, <1>6

(***************************************************************************)
(* The loop around a loop has its view port already, and that dominates    *)
(* the preheader of the inner loop, too.                                   *)
(***************************************************************************)
LEMMA OuterViewed ==
  ASSUME CacheInv, Nested, ViewedSoFar, at <= Len(prog.order), Len(Nest(Here)) > 1
  PROVE  LET o == Nest(Here)[2] IN
         /\ o \in DOMAIN ViewPort
         /\ ViewPort[o].first \in prog.dom[prog.pre[Here]]
         /\ \A k \in Range(Tail(Nest(Here))) :
              k \in DOMAIN ViewPort /\ dominates(ViewPort[k].first, ViewPort[o].first)
<1> DEFINE l == Here
           o == Nest(l)[2]
<1>1. prog \in Programs /\ at \in 1 .. Len(prog.order)
  BY TheLoops DEF CacheInv
<1>2. Nesting(prog) /\ Dominance(prog)
  BY <1>1, ProgramsAssumption
<1>3. at \in DOMAIN prog.order
  BY <1>1, <1>2, LenProperties DEF Nesting
<1>4. /\ prog.pre[l] \in DOMAIN prog.dom
      /\ Nest(l) \in Seq(Loops) /\ Nest(l) # <<>>
      /\ \E j \in 1 .. at - 1 : prog.order[j] = o
      /\ Nest(o) = Tail(Nest(l))
      /\ prog.pre[o] \in prog.dom[prog.pre[l]]
  BY <1>2, <1>3 DEF Nesting, Here, Nest
<1>5. o \in DOMAIN ViewPort
  BY <1>4 DEF ViewedSoFar
<1>6. /\ ViewPort[o].first \in prog.dom[prog.pre[o]]
      /\ \A k \in Range(Tail(Nest(o))) :
           k \in DOMAIN ViewPort /\ dominates(ViewPort[k].first, ViewPort[o].first)
  BY <1>5 DEF Nested, dominates
<1>7. ViewPort[o].first \in prog.dom[prog.pre[l]]
  BY <1>2, <1>4, <1>6 DEF Dominance
<1>8. ASSUME NEW k \in Range(Tail(Nest(l)))
      PROVE  k \in DOMAIN ViewPort /\ dominates(ViewPort[k].first, ViewPort[o].first)
  <2>1. Tail(Nest(l)) \in Seq(Loops) /\ Tail(Nest(l)) # <<>> /\ Tail(Nest(l))[1] = o
    <3> HIDE DEF l
    <3>1. QED BY <1>4, TailRange DEF l
  <2>2. k = o \/ k \in Range(Tail(Nest(o)))
    <3> DEFINE t == Tail(Nest(l))
    <3>1. \A x \in Range(t) : x = t[1] \/ x \in Range(Tail(t))
      <4> HIDE DEF t
      <4>1. QED BY <2>1, TailRange DEF t
    <3>2. QED BY <1>4, <2>1, <3>1
  <2>3. ViewPort[o].first \in prog.dom[ViewPort[o].first]
    <3>1. ViewPort[o].first \in DOMAIN prog.dom
      BY <1>2, <1>4, <1>7 DEF Dominance
    <3>2. QED BY <1>2, <3>1 DEF Dominance
  <2>4. QED BY <1>5, <1>6, <2>2, <2>3 DEF dominates
<1>9. QED BY <1>5, <1>7, <1>8

(***************************************************************************)
(* The view port that is found for a loop lies after all it depends on,    *)
(* and before the loop.                                                    *)
(***************************************************************************)
LEMMA PortRight ==
  ASSUME CacheInv, Nested, ViewedSoFar, valid, Numbered, at <= Len(prog.order)
  PROVE  /\ dominates(E_V(Here), prog.pre[Here])
         /\ E_V(Here) \in depends(Here) \cup {prog.entry}
         /\ \A k \in Range(Tail(Nest(Here))) :
              k \in DOMAIN ViewPort /\ dominates(ViewPort[k].first, E_V(Here))
         /\ CountFor(Here) \in DOMAIN Placed(Here)
              => \A d \in prog.needs[Here] : dominates(d, E_V(Here))
<1> DEFINE l == Here
           b == prog.pre[l]
           D == depends(l)
<1>1. prog \in Programs /\ at \in 1 .. Len(prog.order) /\ l \in theLoops
  BY TheLoops DEF CacheInv, Here
<1>2. Nesting(prog) /\ Dominance(prog)
  BY <1>1, ProgramsAssumption
<1>3. at \in DOMAIN prog.order
  BY <1>1, <1>2, LenProperties DEF Nesting
<1>4. /\ b \in DOMAIN prog.dom /\ prog.needs[l] \subseteq prog.dom[b]
      /\ Nest(l) \in Seq(Loops) /\ Nest(l) # <<>>
  BY <1>2, <1>3 DEF Nesting, Here, Nest
<1>5. CASE CountFor(l) # None
  <2>1. E_V(l) = promote(l)
    BY <1>5 DEF E_V
  <2>2. D \subseteq prog.dom[b]
    BY <1>4, OuterViewed DEF depends
  <2>3. CASE D = {}
    <3>1. E_V(l) = prog.entry /\ ~(Len(Nest(l)) > 1)
          /\ (CountFor(l).name = None \/ prog.needs[l] = {})
      BY <2>1, <2>3 DEF promote, depends
    <3>2. Range(Tail(Nest(l))) = {}
      <4> HIDE DEF l
      <4>1. QED BY <1>4, <3>1, TailRange
    <3>3. prog.entry \in prog.dom[b]
      BY <1>2, <1>4 DEF Dominance
    <3>4. CountFor(l) \in DOMAIN Placed(l) => CountFor(l).name # None
      <4> HIDE DEF l
      <4>1. QED BY <1>1, CountForRight, StandingIsNamed
    <3>5. QED BY <3>1, <3>2, <3>3, <3>4 DEF dominates
  <2>4. CASE D # {}
    <3>1. \E s \in D : \A d \in D : d \in prog.dom[s]
      <4> HIDE DEF D, b
      <4>1. QED BY <1>1, <1>4, <2>2, <2>4, Deepest
    <3>2. promote(l) = CHOOSE s \in D : \A d \in D : dominates(d, s)
      BY <2>4 DEF promote
    <3>3. E_V(l) \in D /\ \A d \in D : dominates(d, E_V(l))
      <4> HIDE DEF D
      <4>1. QED BY <2>1, <3>1, <3>2 DEF dominates
    <3>4. dominates(E_V(l), b)
      BY <2>2, <3>3 DEF dominates
    <3>5. ASSUME NEW k \in Range(Tail(Nest(l)))
          PROVE  k \in DOMAIN ViewPort /\ dominates(ViewPort[k].first, E_V(l))
      <4>1. Len(Nest(l)) > 1
        <5> HIDE DEF l
        <5>1. QED BY <1>4, <3>5, TailRange
      <4> DEFINE o == Nest(l)[2]
      <4>2. k \in DOMAIN ViewPort /\ dominates(ViewPort[k].first, ViewPort[o].first)
        BY <3>5, <4>1, OuterViewed
      <4>3. ViewPort[o].first \in D
        BY <4>1 DEF depends
      <4>4. dominates(ViewPort[o].first, E_V(l))
        BY <3>3, <4>3
      <4>5. E_V(l) \in DOMAIN prog.dom
        BY <1>2, <1>4, <3>4 DEF Dominance, dominates
      <4>6. QED BY <1>2, <4>2, <4>4, <4>5 DEF Dominance, dominates
    <3>6. CountFor(l) \in DOMAIN Placed(l) => \A d \in prog.needs[l] : dominates(d, E_V(l))
      <4>1. CountFor(l) \in DOMAIN Placed(l) => CountFor(l).name # None
        <5> HIDE DEF l
        <5>1. QED BY <1>1, CountForRight, StandingIsNamed
      <4>2. CountFor(l).name # None => prog.needs[l] \subseteq D
        BY DEF depends
      <4>3. QED BY <3>3, <4>1, <4>2
    <3>7. QED BY <3>3, <3>4, <3>5, <3>6
  <2>5. QED BY <2>3, <2>4
<1>6. CASE CountFor(l) = None
  <2>1. E_V(l) = IF Len(Nest(l)) > 1 THEN ViewPort[Nest(l)[2]].first ELSE prog.entry
    BY <1>6 DEF E_V
  <2>2. CountFor(l) \notin DOMAIN Placed(l)
    <3> HIDE DEF l
    <3>1. QED BY <1>1, <1>6, CountForRight, StandingIsNamed
  <2>3. CASE Len(Nest(l)) > 1
    BY <2>1, <2>2, <2>3, OuterViewed DEF dominates, depends
  <2>4. CASE ~(Len(Nest(l)) > 1)
    <3>1. Range(Tail(Nest(l))) = {}
      <4> HIDE DEF l
      <4>1. QED BY <1>4, <2>4, TailRange
    <3>2. prog.entry \in prog.dom[b]
      BY <1>2, <1>4 DEF Dominance
    <3>3. QED BY <2>1, <2>2, <2>4, <3>1, <3>2 DEF dominates
  <2>5. QED BY <2>3, <2>4
<1>7. QED BY <1>5, <1>6

(* one round of the loop over LoopInfo *)
LEMMA ViewLoopKeeps ==
  ASSUME CacheInv, ViewInv, ViewLoop
  PROVE  ViewInv'
<1> DEFINE l == Here
           K == Index(l) + 1
<1>1. /\ prog \in Programs /\ at \in 1 .. Len(prog.order) /\ Len(prog.order) \in Nat
      /\ valid /\ Numbered /\ Nested /\ ViewedSoFar /\ CountsMoved /\ pass = "perform"
  BY TheLoops DEF CacheInv, ViewInv, ViewLoop, AtLoop
<1>2. l \in theLoops
  BY <1>1, TheLoops DEF Here
<1>3. /\ dominates(E_V(l), prog.pre[l])
      /\ \A k \in Range(Tail(Nest(l))) :
           k \in DOMAIN ViewPort /\ dominates(ViewPort[k].first, E_V(l))
      /\ CountFor(l) \in DOMAIN Placed(l) => \A d \in prog.needs[l] : dominates(d, E_V(l))
  BY <1>1, PortRight
<1>4. /\ CacheInv'
      /\ \A k \in 1 .. Len(prog.order) :
           TripCountAt(k)' = IF Known(l) /\ k = K THEN CountFor(l) ELSE TripCountAt(k)
  <2>1. DOMAIN placed' = DOMAIN Placed(Here)
    BY DEF ViewLoop
  <2>2. QED BY <1>1, <2>1, InsertedRight DEF ViewLoop
<1>5. l \notin DOMAIN ViewPort
  <2>1. \A j \in 1 .. at - 1 : prog.order[j] # l
    BY <1>1, TheLoops DEF Here
  <2>2. QED BY <1>1, <2>1 DEF ViewedSoFar
<1>6. /\ DOMAIN ViewPort' = DOMAIN ViewPort \cup {l}
      /\ ViewPort'[l].first = E_V(l)
      /\ \A m \in DOMAIN ViewPort : ViewPort'[m] = ViewPort[m]
  <2> DEFINE w == View(l)
  <2>1. w.first = E_V(l)
    BY DEF View
  <2>2. ViewPort' = Put(ViewPort, l, w)
    BY DEF ViewLoop
  <2> HIDE DEF l, w
  <2>3. DOMAIN ViewPort' = DOMAIN ViewPort \cup {l} /\ ViewPort'[l] = w
    BY <2>2 DEF Put, Over
  <2>4. \A m \in DOMAIN ViewPort : ViewPort'[m] = ViewPort[m]
    BY <1>5, <2>2 DEF Put, Over
  <2>5. QED BY <2>1, <2>3, <2>4
<1>7. prog' = prog /\ at' = at + 1 /\ pass' = pass
  BY DEF ViewLoop
<1>8. ASSUME NEW m \in DOMAIN ViewPort'
      PROVE  /\ m \in theLoops
             /\ dominates(ViewPort'[m].first, prog.pre[m])
             /\ \A k \in Range(Tail(Nest(m))) :
                  k \in DOMAIN ViewPort' /\ dominates(ViewPort'[k].first, ViewPort'[m].first)
  <2>1. CASE m = l
    BY <1>2, <1>3, <1>6, <2>1
  <2>2. CASE m \in DOMAIN ViewPort
    BY <1>1, <1>6, <2>2 DEF Nested
  <2>3. QED BY <1>6, <2>1, <2>2
<1>9. Nested'
  BY <1>7, <1>8 DEF Nested, dominates, theLoops, Nest
<1>10. ViewedSoFar'
  <2>1. {prog.order[j] : j \in 1 .. at} = {prog.order[j] : j \in 1 .. at - 1} \cup {l}
    <3>1. 1 .. at = (1 .. at - 1) \cup {at}
      BY <1>1
    <3>2. QED BY <3>1 DEF Here
  <2>2. at' - 1 = at
    BY <1>1, <1>7
  <2>3. QED BY <1>1, <1>6, <1>7, <2>1, <2>2 DEF ViewedSoFar
<1>11. /\ DOMAIN placed' = DOMAIN Placed(l)
       /\ CountFor(l) \in DOMAIN Placed(l) => placed'[CountFor(l)] = E_V(l)
       /\ \A c \in DOMAIN Placed(l) : c # CountFor(l) => placed'[c] = Placed(l)[c]
  <2> DEFINE n == CountFor(l)
             P == Placed(l)
             v == E_V(l)
  <2>1. placed' = IF n \in DOMAIN P THEN [P EXCEPT ![n] = v] ELSE P
    BY DEF ViewLoop
  <2> HIDE DEF n, P, v
  <2>2. /\ DOMAIN placed' = DOMAIN P
        /\ n \in DOMAIN P => placed'[n] = v
        /\ \A c \in DOMAIN P : c # n => placed'[c] = P[c]
    BY <2>1
  <2>3. QED BY <2>2 DEF n, P, v
<1>12. ASSUME NEW m \in DOMAIN ViewPort', m \in prog.countable,
              NEW k, k = Index(m) + 1, TripCountAt(k)' \in DOMAIN placed'
       PROVE  /\ placed'[TripCountAt(k)'] = ViewPort'[m].first
              /\ \A d \in prog.needs[m] : dominates(d, ViewPort'[m].first)
  <2>1. CASE m = l
    <3>1. Known(l)
      <4> HIDE DEF l
      <4>1. QED BY <1>1, <1>2, <1>12, <2>1, EntryAt
    <3>2. TripCountAt(k)' = CountFor(l)
      <4>1. K \in 1 .. Len(prog.order)
        <5> HIDE DEF l
        <5>1. QED BY <1>1, <1>2, Place
      <4>2. QED BY <1>4, <1>12, <2>1, <3>1, <4>1
    <3>3. QED BY <1>3, <1>6, <1>11, <1>12, <2>1, <3>2
  <2>2. CASE m \in DOMAIN ViewPort
    <3>1. m # l /\ m \in theLoops
      BY <1>1, <1>5, <2>2 DEF Nested
    <3>2. k \in 1 .. Len(prog.order) /\ k # K
      <4> HIDE DEF l
      <4>1. QED BY <1>1, <1>2, <1>12, <3>1, Place
    <3>3. TripCountAt(k)' = TripCountAt(k)
      BY <1>4, <3>2
    <3> DEFINE c == TripCountAt(k)
    <3>4. c \in DOMAIN placed /\ c # CountFor(l) /\ Placed(l)[c] = placed[c]
          /\ c \in DOMAIN Placed(l)
      <4>1. c \in DOMAIN Placed(l)
        BY <1>11, <1>12, <3>3
      <4>2. QED
        <5> HIDE DEF l
        <5>1. QED BY <1>1, <1>2, <3>2, <4>1, CountForRight
    <3>5. placed'[c] = placed[c]
      BY <1>11, <3>4
    <3>6. placed[c] = ViewPort[m].first /\ \A d \in prog.needs[m] : dominates(d, ViewPort[m].first)
      BY <1>1, <1>12, <2>2, <3>4 DEF CountsMoved
    <3>7. QED BY <1>6, <2>2, <3>3, <3>5, <3>6
  <2>3. QED BY <1>6, <2>1, <2>2
<1>13. CountsMoved'
  <2>1. SUFFICES ASSUME NEW m \in DOMAIN ViewPort', m \in prog.countable,
                        TripCountAt(Index(m) + 1)' \in DOMAIN placed'
                 PROVE  /\ placed'[TripCountAt(Index(m) + 1)'] = ViewPort'[m].first
                        /\ \A d \in prog.needs[m] : dominates(d, ViewPort'[m].first)
    BY <1>7 DEF CountsMoved, dominates
  <2>2. PICK k : k = Index(m) + 1
    OBVIOUS
  <2>3. TripCountAt(Index(m) + 1)' = TripCountAt(k)'
    BY <1>7, <2>2 DEF TripCountAt, Index
  <2>4. QED BY <1>12, <2>1, <2>2, <2>3
<1>14. QED BY <1>9, <1>10, <1>13 DEF ViewInv

LEMMA ViewStep ==
  ASSUME CacheInv, ViewInv, [Next]_vars
  PROVE  ViewInv'
<1> USE DEF vars, cacheVars
<1>1. CASE ViewLoop
  BY <1>1, ViewLoopKeeps
<1>2. CASE BeginPerform
  <2>1. DOMAIN ViewPort' = {} /\ at' = 1 /\ prog' = prog
    BY <1>2 DEF BeginPerform, Begin
  <2>2. {prog.order[j] : j \in 1 .. at' - 1} = {}
    BY <2>1
  <2>3. QED BY <2>1, <2>2 DEF ViewInv, Nested, ViewedSoFar, CountsMoved
<1>3. CASE Cached \/ PredictBlocks \/ UNCHANGED vars
  <2>1. CASE UNCHANGED vars
    <3>1. Nested' <=> Nested
      BY <2>1 DEF Nested, dominates, Nest, theLoops
    <3>2. ViewedSoFar' <=> ViewedSoFar
      BY <2>1 DEF ViewedSoFar
    <3>3. CountsMoved' <=> CountsMoved
      BY <2>1 DEF CountsMoved, TripCountAt, Index, dominates
    <3>4. QED BY <2>1, <3>1, <3>2, <3>3 DEF ViewInv
  <2>2. CASE Cached \/ PredictBlocks
    <3>1. ViewPort' = ViewPort /\ prog' = prog /\ pass' # "perform"
      BY <2>2 DEF Cached, PredictBlocks, runOnFunction, Begin, runOnLoop, AtLoop,
                  getOrInsertTripCount, EndInsert, NewLoopInfo, Transform
    <3>2. Nested'
      BY <3>1 DEF ViewInv, Nested, dominates, Nest, theLoops
    <3>3. QED BY <3>1, <3>2 DEF ViewInv
  <2>3. QED BY <1>3, <2>1, <2>2
<1>4. QED BY <1>1, <1>2, <1>3 DEF Next

(***************************************************************************)
(* What is computed in a view port stands where it can be used: after the  *)
(* operands of the count, after the count itself and after the values of   *)
(* the view port around it.                                                *)
(***************************************************************************)
THEOREM ViewsRight == Spec => []ViewsAreAvailable
<1>1. Init => CacheInv /\ ViewInv
  <2>1. Init => ViewPort = << >> /\ pass = "none"
    BY DEF Init, CacheInit
  <2>2. ViewPort = << >> => DOMAIN ViewPort = {}
    OBVIOUS
  <2>3. QED BY <2>1, <2>2, CacheStart DEF ViewInv, Nested
<1>2. (CacheInv /\ ViewInv) /\ [Next]_vars => (CacheInv /\ ViewInv)'
  BY CacheStep, ViewStep
<1>3. CacheInv /\ ViewInv => ViewsAreAvailable
  <2>1. SUFFICES ASSUME CacheInv, ViewInv, NEW l \in DOMAIN ViewPort
                 PROVE  LET v == ViewPort[l]  c == Entry(l).TripCount IN
                        /\ dominates(v.first, prog.pre[l])
                        /\ \A k \in Range(Tail(Nest(l))) : dominates(ViewPort[k].first, v.first)
                        /\ pass = "perform" /\ Known(l) /\ c \in DOMAIN placed =>
                             /\ placed[c] = v.first
                             /\ \A d \in prog.needs[l] : dominates(d, v.first)
    BY DEF ViewsAreAvailable
  <2>2. /\ l \in theLoops
        /\ dominates(ViewPort[l].first, prog.pre[l])
        /\ \A k \in Range(Tail(Nest(l))) : dominates(ViewPort[k].first, ViewPort[l].first)
    BY <2>1 DEF ViewInv, Nested
  <2>3. ASSUME pass = "perform", Known(l), Entry(l).TripCount \in DOMAIN placed
        PROVE  /\ placed[Entry(l).TripCount] = ViewPort[l].first
               /\ \A d \in prog.needs[l] : dominates(d, ViewPort[l].first)
    <3>1. valid /\ Numbered
      BY <2>1, <2>3 DEF CacheInv
    <3>2. Entry(l).TripCount = TripCountAt(Index(l) + 1) /\ l \in prog.countable
      BY <2>1, <2>2, <2>3, <3>1, EntryAt
    <3>3. QED BY <2>1, <2>3, <3>2 DEF ViewInv, CountsMoved
  <2>4. QED BY <2>2, <2>3
<1>4. QED BY <1>1, <1>2, <1>3, PTL DEF Spec

----------------------------------------------------------------------------
(***************************************************************************)
(* The prediction.  Numbers first: where nothing is rounded, a product     *)
(* with the ratio of two frequencies is one in the integers.               *)
(***************************************************************************)

(* a set of numbers with a bound has a largest one *)
LEMMA Largest ==
  ASSUME NEW n \in Nat, NEW S, S \subseteq 0 .. n, S # {}
  PROVE  Max(S) \in S /\ \A y \in S : y <= Max(S)
<1> DEFINE T == {n - k : k \in S}
<1>1. T \subseteq Nat /\ T # {}
  <2>1. \A k \in S : n - k \in Nat
    OBVIOUS
  <2>2. QED BY <2>1
<1>2. PICK m \in T : \A t \in T : m <= t
  <2> HIDE DEF T
  <2>1. QED BY <1>1, Smallest
<1>3. PICK x \in S : m = n - x
  OBVIOUS
<1>4. \A y \in S : x >= y
  <2>1. TAKE y \in S
  <2>2. m <= n - y
    BY <1>2
  <2>3. QED BY <1>3, <2>2
<1>5. Max(S) \in S /\ \A y \in S : Max(S) >= y
  BY <1>4 DEF Max
<1>6. QED BY <1>5

LEMMA ShiftIs == ASSUME NEW h \in Nat PROVE ShiftOf(h) \in Nat \ {0}
<1> DEFINE S == {b \in 1 .. 2 * h : \E k \in 0 .. h : b = 2^(k + 1)} \cup {1}
<1>1. S \subseteq 0 .. 2 * h + 1 /\ S # {} /\ 2 * h + 1 \in Nat /\ 0 \notin S
  <2>1. S \subseteq 1 .. 2 * h + 1
    OBVIOUS
  <2>2. S # {}
    OBVIOUS
  <2> HIDE DEF S
  <2>3. 1 .. 2 * h + 1 \subseteq 0 .. 2 * h + 1 /\ 0 \notin 1 .. 2 * h + 1
    OBVIOUS
  <2>4. QED BY <2>1, <2>2, <2>3
<1>2. ShiftOf(h) = Max(S)
  BY DEF ShiftOf
<1> HIDE DEF S
<1>3. Max(S) \in S
  BY <1>1, Largest
<1>4. Max(S) \in 0 .. 2 * h + 1 /\ Max(S) # 0
  BY <1>1, <1>3
<1>5. QED BY <1>2, <1>4

LEMMA DivExact ==
  ASSUME NEW a \in Nat, NEW k \in Nat \ {0}, a % k = 0
  PROVE  /\ (a \div k) \in Nat /\ a = (a \div k) * k
         /\ a # 0 => (a \div k) # 0
OBVIOUS

LEMMA DivisorRight ==
  ASSUME NEW a \in Nat \ {0}, NEW b \in Nat
  PROVE  GCD(a, b) \in Nat \ {0} /\ a % GCD(a, b) = 0 /\ b % GCD(a, b) = 0
<1> DEFINE S == {k \in 1 .. a : a % k = 0 /\ b % k = 0}
<1>1. S \subseteq 0 .. a /\ a \in Nat
  OBVIOUS
<1>2. 1 \in S
  OBVIOUS
<1>3. GCD(a, b) = Max(S)
  BY DEF GCD
<1>4. Max(S) \in S
  <2> HIDE DEF S
  <2>1. QED BY <1>1, <1>2, Largest
<1>5. QED BY <1>3, <1>4

LEMMA Cancel ==
  ASSUME NEW x \in Int, NEW y \in Int, NEW c \in Int, c # 0, x * c = y * c
  PROVE  x = y
OBVIOUS


(***************************************************************************)
(* The arithmetic of a view.  Where no division leaves a rest, a ratio is  *)
(* that of its frequencies, and a product is the product.                  *)
(***************************************************************************)
Valued(v) == v = [n |-> v.n, on |-> v.on, exact |-> v.exact]

LEMMA RatioRight ==
  ASSUME NEW to \in Nat, NEW from \in Nat \ {0}, Ratio(to, from).exact
  PROVE  /\ Ratio(to, from).n \in Nat /\ Ratio(to, from).d \in Nat \ {0}
         /\ Ratio(to, from).n * from = Ratio(to, from).d * to
<1> DEFINE bit == ShiftOf(Max({to, from}) \div Word)
           a == to \div bit
           b == from \div bit
           e == to % bit = 0 /\ from % bit = 0
           p == [n |-> a, d |-> b, exact |-> e]
           g == IF p.n = 0 \/ p.d = 0 THEN 1 ELSE GCD(p.n, p.d)
<1>1. bit \in Nat \ {0}
  <2>1. Max({to, from}) \in Nat
    <3> DEFINE S == {to, from}
    <3>1. S \subseteq 0 .. to + from /\ S # {} /\ to + from \in Nat /\ S \subseteq Nat
      OBVIOUS
    <3> HIDE DEF S
    <3>2. Max(S) \in S
      BY <3>1, Largest
    <3>3. QED BY <3>1, <3>2 DEF S
  <2>2. (Max({to, from}) \div Word) \in Nat
    BY <2>1, WordAssumption
  <2>3. QED BY <2>2, ShiftIs
<1>2. Ratio(to, from) = scale(p)
  BY DEF Ratio
<1> HIDE DEF bit
<1>3. scale(p) = [p EXCEPT !.n = @ \div g, !.d = @ \div g]
  BY DEF scale
<1>4. scale(p) = [n |-> a \div g, d |-> b \div g, exact |-> e]
  <2>1. p.n = a /\ p.d = b
    OBVIOUS
  <2> HIDE DEF g, a, b, e
  <2>2. QED BY <1>3, <2>1
<1>5. e
  <2>1. scale(p).exact = e
    BY <1>4
  <2> HIDE DEF e
  <2>2. QED BY <1>2, <2>1
<1>6. /\ a \in Nat /\ to = a * bit
      /\ b \in Nat \ {0} /\ from = b * bit
  BY <1>1, <1>5, DivExact
<1>7. g \in Nat \ {0} /\ a % g = 0 /\ b % g = 0
  <2>1. g = IF a = 0 \/ b = 0 THEN 1 ELSE GCD(a, b)
    OBVIOUS
  <2> HIDE DEF g, a, b
  <2>2. CASE a = 0
    <3>1. g = 1
      BY <2>1, <2>2
    <3>2. QED BY <1>6, <3>1
  <2>3. CASE a # 0
    <3>1. g = GCD(a, b)
      BY <1>6, <2>1, <2>3
    <3>2. a \in Nat \ {0} /\ b \in Nat
      BY <1>6, <2>3
    <3>3. QED BY <3>1, <3>2, DivisorRight
  <2>4. QED BY <2>2, <2>3
<1> HIDE DEF a, b, g, e
<1> DEFINE x == a \div g
           y == b \div g
<1>8. x \in Nat /\ a = x * g /\ y \in Nat \ {0} /\ b = y * g
  BY <1>6, <1>7, DivExact
<1>9. Ratio(to, from).n = x /\ Ratio(to, from).d = y
  BY <1>2, <1>4
<1> HIDE DEF x, y
<1>10. x * from = y * to
  <2>1. from = (y * g) * bit /\ to = (x * g) * bit
    BY <1>6, <1>8
  <2>2. ASSUME NEW i \in Nat, NEW j \in Nat, NEW k \in Nat, NEW m \in Nat
        PROVE  i * ((j * k) * m) = j * ((i * k) * m)
    OBVIOUS
  <2>3. QED BY <1>1, <1>7, <1>8, <2>1, <2>2
<1>11. QED BY <1>8, <1>9, <1>10

LEMMA SDivInt == ASSUME NEW a \in Int, NEW b \in Nat \ {0} PROVE SDiv(a, b) \in Int
<1>1. ASSUME NEW i \in Nat PROVE (i \div b) \in Int /\ -(i \div b) \in Int
  OBVIOUS
<1> DEFINE c == IF a < 0 THEN -a ELSE a
           d == IF b < 0 THEN -b ELSE b
<1>2. c \in Nat /\ d = b
  OBVIOUS
<1>3. SDiv(a, b) = IF (a < 0) = (b < 0) THEN c \div d ELSE -(c \div d)
  BY DEF SDiv
<1> HIDE DEF c, d
<1>4. QED BY <1>1, <1>2, <1>3

(* what a double of a fraction consists of *)
LEMMA DoubleIs ==
  ASSUME NEW a \in Nat, NEW b \in Nat \ {0}
  PROVE  Double(a, b).m \in Nat /\ Double(a, b).s \in Nat \ {0}
<1> DEFINE S == {t \in Powers : a = 0 \/ t <= (Mantissa * b - 1) \div a} \cup {1}
           n == Mantissa * Word + 1
           s == Max(S)
<1>1. S \subseteq 0 .. n /\ S # {} /\ n \in Nat /\ 0 \notin S
  <2>1. n \in Nat /\ Mantissa * Word \in Nat
    BY WordAssumption, DoubleAssumption
  <2>2. S \subseteq Powers \cup {1} /\ Powers \subseteq 1 .. Mantissa * Word
    BY DoubleAssumption
  <2>3. 1 .. Mantissa * Word \subseteq 0 .. n /\ 1 \in 0 .. n /\ 0 \notin 1 .. Mantissa * Word
    BY <2>1
  <2>4. S # {}
    OBVIOUS
  <2> HIDE DEF S, n
  <2>5. QED BY <2>1, <2>2, <2>3, <2>4
<1>2. s \in Nat \ {0}
  <2> HIDE DEF S, n
  <2>1. s \in S
    BY <1>1, Largest DEF s
  <2>2. s \in 0 .. n /\ s # 0
    BY <1>1, <2>1
  <2>3. QED BY <1>1, <2>2
<1>3. Double(a, b) = [m |-> Nearest(a * s, b), s |-> s]
  BY DEF Double
<1> HIDE DEF s
<1>4. Double(a, b).m = Nearest(a * s, b) /\ Double(a, b).s = s
  BY <1>3
<1>5. a * s \in Nat
  BY <1>2
<1>6. ASSUME NEW i \in Nat PROVE Nearest(i, b) \in Nat
  <2>1. i \div b \in Nat
    OBVIOUS
  <2>2. Nearest(i, b) \in {i \div b, i \div b + 1}
    BY DEF Nearest
  <2>3. QED BY <2>1, <2>2
<1>7. QED BY <1>2, <1>4, <1>5, <1>6

LEMMA FMulInt ==
  ASSUME NEW k \in Int, NEW a \in Nat, NEW b \in Nat \ {0}
  PROVE  FMul(k, Double(a, b)) \in Int
<1> DEFINE f == Double(a, b)
           c == (IF k < 0 THEN -k ELSE k) * f.m
           r == Double(c, f.s)
           q == r.m \div r.s
<1>1. f.m \in Nat /\ f.s \in Nat \ {0}
  BY DoubleIs
<1>2. FMul(k, f) = IF k < 0 THEN -q ELSE q
  BY DEF FMul
<1> HIDE DEF f
<1>3. c \in Nat
  <2>1. (IF k < 0 THEN -k ELSE k) \in Nat
    OBVIOUS
  <2>2. QED BY <1>1, <2>1
<1> HIDE DEF c
<1>4. r.m \in Nat /\ r.s \in Nat \ {0}
  BY <1>1, <1>3, DoubleIs
<1> HIDE DEF r
<1>5. q \in Int /\ -q \in Int
  BY <1>4
<1> HIDE DEF q
<1>6. QED BY <1>2, <1>5 DEF f

LEMMA CreateMulRight ==
  ASSUME NEW v, Valued(v), NEW p
  PROVE  /\ Valued(CreateMul(v, p)) /\ CreateMul(v, p).on = v.on
         /\ CreateMul(v, p).exact => v.exact /\ p.exact
         /\ CreateMul(v, p).exact /\ v.n \in Int /\ p.n \in Nat /\ p.d \in Nat \ {0}
              => CreateMul(v, p).n \in Int /\ CreateMul(v, p).n * p.d = v.n * p.n
<1>1. CASE p.n = p.d
  <2>1. CreateMul(v, p) = [v EXCEPT !.exact = @ /\ p.exact]
    BY <1>1 DEF CreateMul
  <2>2. CreateMul(v, p) = [n |-> v.n, on |-> v.on, exact |-> v.exact /\ p.exact]
    BY <2>1 DEF Valued
  <2>3. CreateMul(v, p).n = v.n /\ CreateMul(v, p).on = v.on
        /\ CreateMul(v, p).exact = (v.exact /\ p.exact)
    BY <2>2
  <2>4. Valued(CreateMul(v, p))
    BY <2>2 DEF Valued
  <2>5. QED BY <1>1, <2>3, <2>4
<1>2. CASE p.n # p.d
  <2> DEFINE q == IF p.n > Square THEN FMul(v.n, Double(p.n, p.d))
                                  ELSE SDiv(Wrap(v.n * p.n, Half), p.d)
             w == Wrap(q, Half)
             x == v.exact /\ p.exact /\ q * p.d = v.n * p.n /\ w = q
  <2>1. CreateMul(v, p) = [v EXCEPT !.n = w, !.exact = x]
    BY <1>2 DEF CreateMul
  <2>2. CreateMul(v, p) = [n |-> w, on |-> v.on, exact |-> x]
    <3> HIDE DEF w, x
    <3>1. QED BY <2>1 DEF Valued
  <2>3. CreateMul(v, p).n = w /\ CreateMul(v, p).on = v.on /\ CreateMul(v, p).exact = x
        /\ Valued(CreateMul(v, p))
    <3> HIDE DEF w, x
    <3>1. QED BY <2>2 DEF Valued
  <2>4. ASSUME x, v.n \in Int, p.n \in Nat, p.d \in Nat \ {0}
        PROVE  w \in Int /\ w * p.d = v.n * p.n
    <3>1. w = q /\ q * p.d = v.n * p.n
      BY <2>4
    <3>2. v.n * p.n \in Int
      BY <2>4
    <3>3. Wrap(v.n * p.n, Half) \in Int
      BY <3>2, HalfAssumption DEF Wrap
    <3>4. q \in Int
      <4>1. SDiv(Wrap(v.n * p.n, Half), p.d) \in Int
        BY <2>4, <3>3, SDivInt
      <4>2. FMul(v.n, Double(p.n, p.d)) \in Int
        BY <2>4, FMulInt
      <4>3. QED BY <4>1, <4>2
    <3> HIDE DEF w, q
    <3>5. QED BY <3>1, <3>4
  <2> HIDE DEF w, x
  <2>5. x => v.exact /\ p.exact
    BY DEF x
  <2>6. QED BY <2>3, <2>4, <2>5
<1>3. QED BY <1>1, <1>2

LEMMA MulRight ==
  ASSUME NEW v, NEW w
  PROVE  /\ Valued(Mul(v, w))
         /\ Mul(v, w).on = IF v.on = None THEN w.on ELSE v.on
         /\ Mul(v, w).exact => v.exact /\ w.exact /\ Mul(v, w).n = v.n * w.n
<1> DEFINE a == Wrap(v.n * w.n, Half)
           o == IF v.on = None THEN w.on ELSE v.on
           e == v.exact /\ w.exact /\ a = v.n * w.n
<1>1. Mul(v, w) = [n |-> a, on |-> o, exact |-> e]
  BY DEF Mul
<1> HIDE DEF a, o, e
<1>2. Mul(v, w).n = a /\ Mul(v, w).on = o /\ Mul(v, w).exact = e /\ Valued(Mul(v, w))
  BY <1>1 DEF Valued
<1>3. e => v.exact /\ w.exact /\ a = v.n * w.n
  BY DEF e
<1>4. QED BY <1>2, <1>3 DEF o

(***************************************************************************)
(* The blocks of a function: LLVM knows the frequency of the entry and of  *)
(* every header, and of a preheader it has seen.                           *)
(***************************************************************************)
LEMMA BlocksRight ==
  ASSUME prog \in Programs
  PROVE  /\ \A b \in DOMAIN prog.nest : prog.freq[b] \in Nat \ {0} /\ prog.runs[b] \in Nat
         /\ \A b : getBlockFreq(b) # 0 => getBlockFreq(b) = prog.freq[b]
         /\ prog.entry \in DOMAIN prog.nest /\ prog.nest[prog.entry] = <<>>
         /\ getBlockFreq(prog.entry) = prog.freq[prog.entry]
         /\ \A l \in theLoops :
              /\ prog.header[l] \in DOMAIN prog.nest /\ prog.pre[l] \in DOMAIN prog.nest
              /\ prog.trips[l] \in Nat
              /\ getBlockFreq(prog.header[l]) = prog.freq[prog.header[l]]
              /\ l \notin unseen => in_freq(l) = prog.freq[prog.pre[l]]
<1>1. Dominance(prog) /\ Nesting(prog) /\ Enclosing(prog) /\ Measured(prog)
  BY ProgramsAssumption
<1>2. DOMAIN prog.nest = DOMAIN prog.dom /\ prog.entry \in DOMAIN prog.dom
      /\ prog.nest[prog.entry] = <<>>
  BY <1>1 DEF Dominance, Enclosing
<1>3. \A b \in DOMAIN prog.nest : prog.freq[b] \in Nat \ {0} /\ prog.runs[b] \in Nat
  BY <1>1 DEF Measured
<1>4. \A b : getBlockFreq(b) # 0 => getBlockFreq(b) = prog.freq[b]
  BY DEF getBlockFreq
<1>5. \A l \in unseen :
        prog.pre[l] \notin {prog.entry} \cup {prog.header[m] : m \in theLoops}
  BY <1>1 DEF Enclosing, theLoops, unseen
<1>6. getBlockFreq(prog.entry) = prog.freq[prog.entry]
  BY <1>5 DEF getBlockFreq
<1>7. ASSUME NEW l \in theLoops
      PROVE  /\ prog.header[l] \in DOMAIN prog.nest /\ prog.pre[l] \in DOMAIN prog.nest
             /\ prog.trips[l] \in Nat
             /\ getBlockFreq(prog.header[l]) = prog.freq[prog.header[l]]
             /\ l \notin unseen => in_freq(l) = prog.freq[prog.pre[l]]
  <2>1. PICK k \in DOMAIN prog.order : l = prog.order[k]
    BY DEF theLoops, Range
  <2>2. prog.header[l] \in DOMAIN prog.nest
    BY <1>1 DEF Enclosing, theLoops
  <2>3. prog.pre[l] \in DOMAIN prog.nest
    BY <1>1, <1>2, <2>1 DEF Nesting
  <2>4. prog.trips[l] \in Nat
    BY <1>1 DEF Measured, theLoops
  <2>5. getBlockFreq(prog.header[l]) = prog.freq[prog.header[l]]
    BY <1>5 DEF getBlockFreq
  <2>6. ASSUME l \notin unseen
        PROVE  in_freq(l) = prog.freq[prog.pre[l]]
    <3>1. ASSUME NEW m \in unseen PROVE prog.pre[l] # prog.pre[m]
      <4>1. m \in theLoops
        BY <1>1 DEF Enclosing, theLoops, unseen
      <4>2. PICK j \in DOMAIN prog.order : m = prog.order[j]
        BY <4>1 DEF theLoops, Range
      <4>3. prog.pre[prog.order[j]] = prog.pre[prog.order[k]] => j = k
        BY <1>1 DEF Nesting
      <4>4. QED BY <2>1, <2>6, <4>2, <4>3
    <3>2. QED BY <3>1 DEF in_freq, getBlockFreq
  <2>7. QED BY <2>2, <2>3, <2>4, <2>5, <2>6
<1>8. QED BY <1>2, <1>3, <1>4, <1>6, <1>7

(* the loops around a loop *)
LEMMA NestRight ==
  ASSUME prog \in Programs, NEW l \in theLoops
  PROVE  /\ Nest(l) \in Seq(Loops) /\ Len(Nest(l)) \in Nat \ {0} /\ Nest(l)[1] = l
         /\ Range(Nest(l)) = {Nest(l)[i] : i \in 1 .. Len(Nest(l))}
         /\ Len(Nest(l)) > 1 => Nest(l)[2] \in theLoops /\ Nest(Nest(l)[2]) = Tail(Nest(l))
         /\ \A i \in 1 .. Len(Nest(l)) - 1 :
              prog.nest[prog.pre[Nest(l)[i]]] = Nest(Nest(l)[i + 1])
<1>1. Nesting(prog) /\ Enclosing(prog)
  BY ProgramsAssumption
<1>2. PICK k \in DOMAIN prog.order : l = prog.order[k]
  BY DEF theLoops, Range
<1>3. Nest(l) \in Seq(Loops) /\ Nest(l) # <<>>
  BY <1>1, <1>2 DEF Nesting, Nest
<1>4. Len(Nest(l)) \in Nat \ {0} /\ DOMAIN Nest(l) = 1 .. Len(Nest(l))
  BY <1>3, LenProperties, EmptySeq
<1>5. Range(Nest(l)) = {Nest(l)[i] : i \in 1 .. Len(Nest(l))}
  BY <1>4 DEF Range
<1>6. ASSUME Len(Nest(l)) > 1
      PROVE  Nest(l)[2] \in theLoops /\ Nest(Nest(l)[2]) = Tail(Nest(l))
  <2>1. /\ \E j \in 1 .. k - 1 : prog.order[j] = Nest(l)[2]
        /\ Nest(Nest(l)[2]) = Tail(Nest(l))
    BY <1>1, <1>2, <1>6 DEF Nesting, Nest
  <2>2. k \in 1 .. Len(prog.order) /\ Len(prog.order) \in Nat
    <3>1. prog.order \in Seq(Loops)
      BY <1>1 DEF Nesting
    <3>2. QED BY <1>2, <3>1, LenProperties
  <2>3. Nest(l)[2] \in theLoops
    <3>1. PICK j \in 1 .. k - 1 : prog.order[j] = Nest(l)[2]
      BY <2>1
    <3>2. j \in 1 .. Len(prog.order)
      BY <2>2
    <3>3. QED BY <3>1, <3>2, TheLoops
  <2>4. QED BY <2>1, <2>3
<1>7. Nest(l)[1] = l /\ \A i \in 1 .. Len(Nest(l)) - 1 :
                          prog.nest[prog.pre[Nest(l)[i]]] = Nest(Nest(l)[i + 1])
  BY <1>1 DEF Enclosing, theLoops, Nest
<1>8. QED BY <1>3, <1>4, <1>5, <1>6, <1>7

(* the loops around the i-th of them *)
LEMMA NestOfNest ==
  ASSUME prog \in Programs, NEW l \in theLoops, NEW i \in 1 .. Len(Nest(l))
  PROVE  /\ Nest(l)[i] \in theLoops
         /\ Len(Nest(Nest(l)[i])) = Len(Nest(l)) - i + 1
         /\ \A j \in 1 .. Len(Nest(l)) - i + 1 : Nest(Nest(l)[i])[j] = Nest(l)[i + j - 1]
<1> DEFINE L == Len(Nest(l))
           P(k) == /\ Nest(l)[k] \in theLoops
                   /\ Len(Nest(Nest(l)[k])) = L - k + 1
                   /\ \A j \in 1 .. L - k + 1 : Nest(Nest(l)[k])[j] = Nest(l)[k + j - 1]
           T == {k \in 1 .. L : ~P(k)}
<1>1. L \in Nat \ {0} /\ Nest(l)[1] = l
  BY NestRight
<1>2. P(1)
  <2>1. L - 1 + 1 = L /\ \A j \in 1 .. L : 1 + j - 1 = j
    BY <1>1
  <2>2. QED BY <1>1, <2>1
<1>3. ASSUME NEW k \in 1 .. L, k < L, P(k) PROVE P(k + 1)
  <2> DEFINE m == Nest(l)[k]  o == Nest(l)[k + 1]
  <2>1. m \in theLoops /\ Len(Nest(m)) = L - k + 1
        /\ \A j \in 1 .. L - k + 1 : Nest(m)[j] = Nest(l)[k + j - 1]
    BY <1>3
  <2>2. Len(Nest(m)) > 1
    BY <1>1, <1>3, <2>1
  <2>3. Nest(m)[2] = o
    <3>1. 2 \in 1 .. L - k + 1 /\ k + 2 - 1 = k + 1
      BY <1>1, <1>3
    <3> DEFINE c == k + 2 - 1
    <3>2. Nest(m)[2] = Nest(l)[c] /\ c = k + 1
      BY <2>1, <3>1
    <3> HIDE DEF c
    <3>3. QED BY <3>2
  <2> HIDE DEF m, o
  <2>4. o \in theLoops /\ Nest(o) = Tail(Nest(m))
    BY <2>1, <2>2, <2>3, NestRight
  <2>5. Nest(m) \in Seq(Loops) /\ Nest(m) # <<>>
    BY <2>1, <2>2, NestRight, EmptySeq
  <2>6. /\ Len(Nest(o)) = Len(Nest(m)) - 1
        /\ \A j \in 1 .. Len(Nest(o)) : Nest(o)[j] = Nest(m)[j + 1]
    BY <2>4, <2>5, HeadTailProperties
  <2>7. Len(Nest(o)) = L - (k + 1) + 1
    BY <1>1, <2>1, <2>6
  <2>8. ASSUME NEW j \in 1 .. L - (k + 1) + 1
        PROVE  Nest(o)[j] = Nest(l)[k + 1 + j - 1]
    <3> DEFINE a == j + 1  b == k + a - 1  c == k + 1 + j - 1
    <3>1. a \in 1 .. L - k + 1 /\ b = c /\ j \in 1 .. Len(Nest(o))
      BY <1>1, <2>7
    <3> HIDE DEF c
    <3>2. Nest(m)[a] = Nest(l)[b]
      <4> HIDE DEF a
      <4>1. QED BY <2>1, <3>1
    <3>3. Nest(o)[j] = Nest(m)[a]
      BY <2>6, <3>1
    <3> HIDE DEF a, b
    <3>4. Nest(o)[j] = Nest(l)[c]
      BY <3>1, <3>2, <3>3
    <3>5. QED BY <3>4 DEF c
  <2>9. QED BY <2>4, <2>7, <2>8 DEF o
<1> HIDE DEF P
<1>4. T = {}
  <2> SUFFICES ASSUME T # {} PROVE FALSE
    OBVIOUS
  <2>1. T \subseteq Nat
    BY <1>1
  <2>2. PICK k \in T : \A n \in T : k <= n
    <3> HIDE DEF T
    <3>1. QED BY <2>1, Smallest
  <2>3. k \in 1 .. L /\ ~P(k) /\ k # 1
    BY <1>2
  <2>4. k - 1 \in 1 .. L /\ k - 1 < L /\ ~(k <= k - 1)
    BY <1>1, <2>3
  <2>5. P(k - 1)
    BY <2>2, <2>4
  <2>6. P(k - 1 + 1)
    BY <1>3, <2>4, <2>5
  <2>7. k - 1 + 1 = k
    BY <1>1, <2>3
  <2> DEFINE c == k - 1 + 1
  <2>8. P(c) /\ c = k
    BY <2>6, <2>7
  <2> HIDE DEF c
  <2>9. QED BY <2>3, <2>8
<1>5. P(i)
  BY <1>4
<1>6. QED BY <1>5 DEF P

(* the outermost of the loops a view goes through *)
LEMMA OutsideRight ==
  ASSUME prog \in Programs, NEW l \in theLoops, NEW e
  PROVE  Outside(l, e) \in 1 .. Len(Nest(l))
<1> DEFINE L == Len(Nest(l))
           T == {n \in 1 .. L : n = L \/ contains(Nest(l)[n + 1], e)}
           Q(n) == /\ n = L \/ contains(Nest(l)[n + 1], e)
                   /\ \A i \in 2 .. n : ~contains(Nest(l)[i], e)
<1>1. L \in Nat \ {0}
  BY NestRight
<1>2. T \subseteq Nat /\ L \in T
  BY <1>1
<1>3. PICK m \in T : \A n \in T : m <= n
  <2> HIDE DEF T
  <2>1. QED BY <1>2, Smallest
<1>4. m \in 1 .. L /\ Q(m)
  <2>1. m \in 1 .. L /\ (m = L \/ contains(Nest(l)[m + 1], e))
    OBVIOUS
  <2>2. ASSUME NEW i \in 2 .. m PROVE ~contains(Nest(l)[i], e)
    <3> DEFINE j == i - 1  c == j + 1
    <3>1. j \in 1 .. L /\ ~(m <= j) /\ c = i /\ j # L
      BY <1>1, <2>1
    <3>2. j \notin T
      <4> HIDE DEF T, j
      <4>1. QED BY <1>3, <3>1
    <3> HIDE DEF j
    <3>3. ~contains(Nest(l)[c], e)
      BY <3>1, <3>2
    <3> HIDE DEF c
    <3>4. QED BY <3>1, <3>3
  <2>3. QED BY <2>1, <2>2
<1>5. Outside(l, e) = CHOOSE n \in 1 .. L : Q(n)
  BY DEF Outside
<1> HIDE DEF Q, T
<1>6. QED BY <1>4, <1>5

LEMMA Ratios ==
  ASSUME NEW q \in Int, NEW m \in Int, NEW n \in Nat, NEW d \in Nat \ {0},
         NEW ff \in Nat \ {0}, NEW ft \in Nat, q * d = m * n, n * ff = d * ft
  PROVE  q * ff = m * ft
<1>1. (q * ff) * d = (q * d) * ff
  OBVIOUS
<1>2. (q * d) * ff = (m * n) * ff
  OBVIOUS
<1>3. (m * n) * ff = m * (n * ff)
  OBVIOUS
<1>4. m * (n * ff) = m * (d * ft)
  OBVIOUS
<1>5. m * (d * ft) = (m * ft) * d
  OBVIOUS
<1>6. (q * ff) * d = (m * ft) * d
  BY <1>1, <1>2, <1>3, <1>4, <1>5
<1>7. q * ff \in Int /\ m * ft \in Int /\ d \in Int /\ d # 0
  OBVIOUS
<1> DEFINE x == q * ff  y == m * ft
<1>8. x \in Int /\ y \in Int /\ x * d = y * d
  BY <1>6, <1>7
<1> HIDE DEF x, y
<1>9. x = y
  BY <1>7, <1>8, Cancel
<1>10. QED BY <1>9 DEF x, y

(***************************************************************************)
(* A value times the ratio of two blocks of the same loops: what counts    *)
(* the first block from somewhere counts the second from there, and what   *)
(* counts something from the second counts it from the first.              *)
(***************************************************************************)
LEMMA Passed ==
  ASSUME prog \in Programs, Agrees,
         NEW a \in DOMAIN prog.nest, NEW c \in DOMAIN prog.nest,
         prog.nest[a] = prog.nest[c],
         getBlockFreq(a) = prog.freq[a], getBlockFreq(c) = prog.freq[c],
         NEW v, Valued(v), v.n \in Int,
         CreateMul(v, getPathProb(a, getBlockFreq(c))).exact
  PROVE  LET w == CreateMul(v, getPathProb(a, getBlockFreq(c))) IN
         /\ w.n \in Int
         /\ \A R \in Int : v.n * R = prog.runs[a] => w.n * R = prog.runs[c]
         /\ \A R \in Int : v.n * prog.runs[c] = R => w.n * prog.runs[a] = R
<1> DEFINE ff == prog.freq[a]  ft == prog.freq[c]
           ra == prog.runs[a]  rc == prog.runs[c]
           p == Ratio(ft, ff)
           w == CreateMul(v, p)
<1>1. ff \in Nat \ {0} /\ ft \in Nat \ {0} /\ ra \in Nat /\ rc \in Nat
  BY BlocksRight
<1>2. w = CreateMul(v, getPathProb(a, getBlockFreq(c)))
  BY DEF getPathProb
<1>3. ra * ft = rc * ff
  BY DEF Agrees
<1> HIDE DEF ff, ft, ra, rc, p
<1>4. p.exact
  BY <1>2, CreateMulRight
<1>5. p.n \in Nat /\ p.d \in Nat \ {0} /\ p.n * ff = p.d * ft
  BY <1>1, <1>4, RatioRight DEF p
<1>6. w.n \in Int /\ w.n * p.d = v.n * p.n
  BY <1>2, <1>5, CreateMulRight
<1>7. w.n * ff = v.n * ft
  <2> DEFINE q == w.n  m == v.n  n == p.n  d == p.d
  <2>1. q \in Int /\ m \in Int /\ n \in Nat /\ d \in Nat \ {0}
        /\ q * d = m * n /\ n * ff = d * ft
    BY <1>5, <1>6
  <2> HIDE DEF q, m, n, d
  <2>2. q * ff = m * ft
    BY <1>1, <2>1, Ratios
  <2>3. QED BY <2>2 DEF q, m
<1> DEFINE q == w.n  m == v.n
<1>8. q \in Int /\ m \in Int /\ q * ff = m * ft
  BY <1>6, <1>7
<1> HIDE DEF q, m, w
<1>9. ASSUME NEW R \in Int, m * R = ra
      PROVE  q * R = rc
  <2>1. (q * R) * ff = (q * ff) * R
    BY <1>1, <1>8
  <2>2. (q * ff) * R = (m * ft) * R
    BY <1>8
  <2>3. (m * ft) * R = (m * R) * ft
    BY <1>1, <1>8
  <2>4. (m * R) * ft = rc * ff
    BY <1>3, <1>9
  <2>5. (q * R) * ff = rc * ff
    BY <2>1, <2>2, <2>3, <2>4
  <2> DEFINE x == q * R
  <2>6. x \in Int /\ rc \in Int /\ ff \in Int /\ ff # 0 /\ x * ff = rc * ff
    BY <1>1, <1>8, <2>5
  <2> HIDE DEF x
  <2>7. x = rc
    BY <2>6, Cancel
  <2>8. QED BY <2>7 DEF x
<1>10. ASSUME NEW R \in Int, m * rc = R
       PROVE  q * ra = R
  <2>1. (q * ra) * ft = q * (ra * ft)
    BY <1>1, <1>8
  <2>2. q * (ra * ft) = q * (rc * ff)
    BY <1>3
  <2>3. q * (rc * ff) = (q * ff) * rc
    BY <1>1, <1>8
  <2>4. (q * ff) * rc = (m * ft) * rc
    BY <1>8
  <2>5. (m * ft) * rc = (m * rc) * ft
    BY <1>1, <1>8
  <2>6. (m * rc) * ft = R * ft
    BY <1>10
  <2>7. (q * ra) * ft = R * ft
    BY <2>1, <2>2, <2>3, <2>4, <2>5, <2>6
  <2> DEFINE x == q * ra
  <2>8. x \in Int /\ ft \in Int /\ ft # 0 /\ x * ft = R * ft
    BY <1>1, <1>8, <2>7
  <2> HIDE DEF x
  <2>9. x = R
    BY <2>8, Cancel
  <2>10. QED BY <2>9 DEF x
<1>11. QED BY <1>2, <1>8, <1>9, <1>10 DEF q, m, ra, rc

(***************************************************************************)
(* What a view says: how many trips one entry of the loop takes, and how   *)
(* many headers one execution of the view port runs.                       *)
(***************************************************************************)
TripsRight(l, t) ==
  /\ Valued(t) /\ t.on = None
  /\ Named /\ Agrees /\ t.exact /\ (l \in unseen => l \in prog.countable)
       => t.n = prog.trips[l]

ViewRight(l) ==
  LET v == ViewPort[l] IN
  /\ Valued(v.second)
  /\ Named /\ Agrees /\ v.second.exact /\ (\A k \in Range(Nest(l)) : Meant(k))
       => /\ v.second.n \in Int /\ RunsAt(v.first, v.second) \in Nat
          /\ v.second.n * RunsAt(v.first, v.second) = prog.runs[prog.header[l]]

LEMMA ValueRight ==
  ASSUME NEW k
  PROVE  Valued(Value(k)) /\ Value(k).n = k /\ Value(k).on = None /\ Value(k).exact
BY DEF Value, Valued

(* a count that is not found is not that of a loop with a start *)
LEMMA UnknownIs ==
  ASSUME CacheInv, valid, Numbered, NEW l \in theLoops, CountFor(l) = None
  PROVE  l \notin prog.countable
<1> SUFFICES ASSUME l \in prog.countable PROVE FALSE
  OBVIOUS
<1>1. prog \in Programs /\ PlacedRight
  BY DEF CacheInv
<1>2. Known(l)
  BY EntryAt
<1>3. getTripCount(l) = None /\ NewCount(l) = None
  BY <1>2 DEF CountFor
<1>4. NewCount(l) \in [of : Loops, name : (theNames \X Nat) \cup {None}]
  <2>1. CASE l \in prog.folded
    <3>1. NewCount(l) = [of |-> l, name |-> None]
      BY <2>1 DEF NewCount, Count
    <3>2. QED BY <1>1, <3>1, TheLoops
  <2>2. CASE l \notin prog.folded
    <3>1. Standing(NewCount(l))
      BY <1>1, <2>2, NewCountRight
    <3>2. QED BY <1>1, <3>1, TheLoops DEF Standing
  <2>3. QED BY <2>1, <2>2
<1>5. QED BY <1>3, <1>4, ProgramsAssumption

LEMMA TripsAreRight ==
  ASSUME CacheInv, valid, Numbered, NEW l \in theLoops
  PROVE  TripsRight(l, TC(l))
<1>1. prog \in Programs
  BY DEF CacheInv
<1>2. CASE CountFor(l) # None
  <2>1. TC(l) = Value(prog.trips[CountFor(l).of])
    BY <1>2 DEF TC
  <2>2. Named => CountFor(l).of = l
    BY <1>2, CountForRight
  <2>3. QED BY <2>1, <2>2, ValueRight DEF TripsRight
<1>3. CASE CountFor(l) = None
  <2> DEFINE h == prog.header[l]
             to == getBlockFreq(h)
             from == in_freq(l)
             p == Ratio(to, from)
  <2>1. TC(l) = CreateMul(Value(1), p)
    BY <1>3 DEF TC
  <2>2. Valued(TC(l)) /\ TC(l).on = None /\ (TC(l).exact => p.exact)
    <3> HIDE DEF p
    <3>1. Valued(Value(1)) /\ Value(1).on = None
      BY ValueRight
    <3>2. /\ Valued(CreateMul(Value(1), p)) /\ CreateMul(Value(1), p).on = Value(1).on
          /\ CreateMul(Value(1), p).exact => p.exact
      BY <3>1, CreateMulRight
    <3>3. QED BY <2>1, <3>1, <3>2
  <2>3. ASSUME Agrees, TC(l).exact, l \in unseen => l \in prog.countable
        PROVE  TC(l).n = prog.trips[l]
    <3>1. l \notin prog.countable
      BY <1>3, UnknownIs
    <3>2. /\ prog.freq[h] = prog.trips[l] * prog.freq[prog.pre[l]]
          /\ to = prog.freq[h] /\ from = prog.freq[prog.pre[l]]
          /\ prog.freq[h] \in Nat \ {0} /\ prog.freq[prog.pre[l]] \in Nat \ {0}
          /\ prog.trips[l] \in Nat
      BY <1>1, <2>3, <3>1, BlocksRight DEF Agrees
    <3>3. to \in Nat /\ from \in Nat \ {0} /\ prog.trips[l] \in Nat
          /\ to = prog.trips[l] * from
      BY <3>2
    <3> HIDE DEF to, from, h
    <3>4. p.n \in Nat /\ p.d \in Nat \ {0} /\ p.n * from = p.d * to
      BY <2>2, <2>3, <3>3, RatioRight
    <3> HIDE DEF p
    <3>5. TC(l).n \in Int /\ TC(l).n * p.d = 1 * p.n
      <4>1. Valued(Value(1)) /\ Value(1).n = 1 /\ 1 \in Int
        BY ValueRight
      <4>2. QED BY <2>1, <2>3, <3>4, <4>1, CreateMulRight
    <3> DEFINE q == TC(l).n  n == p.n  d == p.d  t == prog.trips[l]
    <3>6. /\ q \in Int /\ 1 \in Int /\ n \in Nat /\ d \in Nat \ {0} /\ t \in Nat
          /\ q * d = 1 * n /\ n * from = d * to /\ to = t * from
      BY <3>3, <3>4, <3>5
    <3> HIDE DEF q, n, d, t
    <3>7. q * from = 1 * to
      <4> DEFINE m == 1
      <4>1. m \in Int /\ q * d = m * n
        BY <3>6
      <4> HIDE DEF m
      <4>2. n * from = d * to /\ from \in Nat \ {0} /\ to \in Nat
            /\ q \in Int /\ n \in Nat /\ d \in Nat \ {0}
        BY ONLY <3>3, <3>6
      <4>3. q * from = m * to
        BY ONLY <4>1, <4>2, Ratios
      <4>4. QED BY <4>3 DEF m
    <3>8. q * from = t * from /\ t \in Int /\ from \in Int /\ from # 0
      BY <3>3, <3>6, <3>7
    <3>9. q = t
      BY <3>6, <3>8, Cancel
    <3>10. QED BY <3>9 DEF q, t
  <2>4. QED BY <2>2, <2>3 DEF TripsRight
<1>4. QED BY <1>2, <1>3

(***************************************************************************)
(* B_PN of a view port that is not that of the loop around, loop by loop:  *)
(* the trips of the i-th loop, where the way to it begins, and the round.  *)
(***************************************************************************)
ThirdOf(l, i) == IF i = 1 THEN TC(l) ELSE ViewPort[Nest(l)[i]].third

From(l, i) ==
  IF i = Outside(l, E_V(l)) THEN E_V(l) ELSE prog.header[Nest(l)[i + 1]]

Round(l, v, i) ==
  CreateMul(Mul(v, ThirdOf(l, i)), getPathProb(From(l, i), in_freq(Nest(l)[i])))

LEMMA ProductsExist ==
  ASSUME NEW l, NEW n \in Nat
  PROVE  \E f : f = [i \in 0 .. n |-> IF i = 0 THEN Value(1) ELSE Round(l, f[i - 1], i)]
<1> DEFINE Is(f, m) == f = [i \in 0 .. m |-> IF i = 0 THEN Value(1) ELSE Round(l, f[i - 1], i)]
           T == {m \in Nat : ~\E f : Is(f, m)}
<1>1. \E f : Is(f, 0)
  <2> DEFINE g == [i \in 0 .. 0 |-> Value(1)]
  <2>1. \A i \in 0 .. 0 : i = 0
    OBVIOUS
  <2>2. g = [i \in 0 .. 0 |-> IF i = 0 THEN Value(1) ELSE Round(l, g[i - 1], i)]
    BY <2>1
  <2>3. QED BY <2>2
<1>2. ASSUME NEW m \in Nat, NEW f, Is(f, m)
      PROVE  \E g : Is(g, m + 1)
  <2> DEFINE g == [i \in 0 .. m + 1 |-> IF i = m + 1 THEN Round(l, f[m], m + 1) ELSE f[i]]
  <2>1. ASSUME NEW i \in 0 .. m + 1
        PROVE  g[i] = IF i = 0 THEN Value(1) ELSE Round(l, g[i - 1], i)
    <3>1. CASE i = m + 1
      <4>1. i # 0 /\ i - 1 = m /\ m \in 0 .. m + 1 /\ m # m + 1
        BY <3>1
      <4>2. g[i] = Round(l, f[m], m + 1)
        BY <3>1
      <4>3. g[m] = f[m]
        BY <4>1
      <4>4. g[i - 1] = f[m]
        BY <4>1, <4>3
      <4> HIDE DEF g
      <4>5. QED BY <3>1, <4>1, <4>2, <4>4
    <3>2. CASE i # m + 1
      <4>1. i \in 0 .. m
        BY <3>2
      <4>2. g[i] = f[i] /\ f[i] = IF i = 0 THEN Value(1) ELSE Round(l, f[i - 1], i)
        BY <1>2, <3>2, <4>1
      <4>3. i # 0 => g[i - 1] = f[i - 1]
        <5>1. i # 0 => i - 1 \in 0 .. m + 1 /\ i - 1 # m + 1
          BY <4>1
        <5>2. QED BY <5>1
      <4> HIDE DEF g
      <4>4. QED BY <4>2, <4>3
    <3>3. QED BY <3>1, <3>2
  <2>2. g = [i \in 0 .. m + 1 |-> g[i]]
    OBVIOUS
  <2> HIDE DEF g
  <2>3. Is(g, m + 1)
    BY <2>1, <2>2
  <2> HIDE DEF Is
  <2>4. QED BY <2>3
<1> HIDE DEF Is
<1>3. T = {}
  <2> SUFFICES ASSUME T # {} PROVE FALSE
    OBVIOUS
  <2>1. T \subseteq Nat
    OBVIOUS
  <2>2. PICK m \in T : \A k \in T : m <= k
    <3> HIDE DEF T
    <3>1. QED BY <2>1, Smallest
  <2>3. m \in Nat /\ m # 0
    BY <1>1
  <2>4. m - 1 \in Nat /\ ~(m <= m - 1)
    BY <2>3
  <2>5. PICK f : Is(f, m - 1)
    BY <2>2, <2>4
  <2>6. PICK g : Is(g, m - 1 + 1)
    BY <1>2, <2>4, <2>5
  <2> DEFINE c == m - 1 + 1
  <2>7. c = m /\ Is(g, c)
    BY <2>3, <2>6
  <2> HIDE DEF c
  <2>8. QED BY <2>7
<1>4. \E f : Is(f, n)
  BY <1>3
<1>5. QED BY <1>4 DEF Is

LEMMA ProductsIs ==
  ASSUME prog \in Programs, NEW l \in theLoops
  PROVE  /\ Products(l)[0] = Value(1)
         /\ \A i \in 1 .. Outside(l, E_V(l)) :
              Products(l)[i] = Round(l, Products(l)[i - 1], i)
<1> DEFINE n == Outside(l, E_V(l))
           Is(f) == f = [i \in 0 .. n |-> IF i = 0 THEN Value(1) ELSE Round(l, f[i - 1], i)]
<1>1. n \in Nat
  BY OutsideRight, NestRight
<1>2. \E f : Is(f)
  <2> HIDE DEF n
  <2>1. QED BY <1>1, ProductsExist
<1>3. Products(l) = CHOOSE f : Is(f)
  BY DEF Products, Round, ThirdOf, From
<1>4. Is(Products(l))
  <2> HIDE DEF Is
  <2>1. QED BY <1>2, <1>3
<1> DEFINE v == Products(l)
<1>5. v = [i \in 0 .. n |-> IF i = 0 THEN Value(1) ELSE Round(l, v[i - 1], i)]
  BY <1>4
<1> HIDE DEF v, n
<1>6. v[0] = Value(1)
  BY <1>1, <1>5
<1>7. \A i \in 1 .. n : v[i] = Round(l, v[i - 1], i)
  <2>1. TAKE i \in 1 .. n
  <2>2. i \in 0 .. n /\ i # 0
    BY <1>1
  <2>3. QED BY <1>5, <2>2
<1>8. QED BY <1>6, <1>7 DEF v, n

(* the assumptions of the code, of a loop that is being looked at *)
MeantThrough(l) ==
  LET n == Outside(l, E_V(l)) IN
  /\ Named /\ Agrees
  /\ E_V(l) \in DOMAIN prog.nest
  /\ prog.nest[E_V(l)] = prog.nest[prog.pre[Nest(l)[n]]]
  /\ getBlockFreq(E_V(l)) = prog.freq[E_V(l)]
  /\ \A i \in 1 .. n :
       /\ in_freq(Nest(l)[i]) = prog.freq[prog.pre[Nest(l)[i]]]
       /\ Nest(l)[i] \in unseen => Nest(l)[i] \in prog.countable

(* the headers one execution of where the i-th round begins runs *)
RoundRight(l, v, b) ==
  /\ Valued(v) /\ v.on = None
  /\ MeantThrough(l) /\ v.exact
       => v.n \in Int /\ v.n * prog.runs[b] = prog.runs[prog.header[l]]

LEMMA OneRound ==
  ASSUME CacheInv, NEW l \in theLoops, NEW i \in 1 .. Outside(l, E_V(l)),
         TripsRight(Nest(l)[i], ThirdOf(l, i)),
         NEW v, RoundRight(l, v, prog.header[Nest(l)[i]])
  PROVE  RoundRight(l, Round(l, v, i), From(l, i))
<1> DEFINE n == Outside(l, E_V(l))
           m == Nest(l)[i]
           t == ThirdOf(l, i)
           a == From(l, i)
           c == prog.pre[m]
           u == Mul(v, t)
           w == CreateMul(u, getPathProb(a, getBlockFreq(c)))
<1>1. prog \in Programs
  BY DEF CacheInv
<1>2. n \in 1 .. Len(Nest(l)) /\ Len(Nest(l)) \in Nat
  BY <1>1, OutsideRight, NestRight
<1>3. m \in theLoops
  BY <1>1, <1>2, NestOfNest
<1>4. w = Round(l, v, i)
  BY DEF Round, in_freq
<1> HIDE DEF w
<1>5. /\ Valued(u) /\ u.on = None
      /\ u.exact => v.exact /\ t.exact /\ u.n = v.n * t.n
  BY MulRight DEF TripsRight, RoundRight
<1> HIDE DEF u
<1>6. Valued(w) /\ w.on = None /\ (w.exact => u.exact)
  <2> DEFINE p == getPathProb(a, getBlockFreq(c))
  <2>1. w = CreateMul(u, p)
    BY DEF w
  <2> HIDE DEF p
  <2>2. QED BY <1>5, <2>1, CreateMulRight
<1>7. ASSUME MeantThrough(l), w.exact
      PROVE  w.n \in Int /\ w.n * prog.runs[a] = prog.runs[prog.header[l]]
  <2>1. u.exact /\ v.exact /\ t.exact /\ u.n = v.n * t.n
    BY <1>5, <1>6, <1>7
  <2>2. v.n \in Int /\ v.n * prog.runs[prog.header[m]] = prog.runs[prog.header[l]]
    BY <1>7, <2>1 DEF RoundRight
  <2>3. Named /\ Agrees /\ getBlockFreq(c) = prog.freq[c]
        /\ (m \in unseen => m \in prog.countable)
    BY <1>7 DEF MeantThrough, in_freq
  <2>4. t.n = prog.trips[m]
    BY <2>1, <2>3 DEF TripsRight
  <2>5. prog.runs[prog.header[m]] = prog.trips[m] * prog.runs[c]
    BY <1>3, <2>3 DEF Agrees
  <2>6. c \in DOMAIN prog.nest /\ prog.runs[c] \in Nat /\ prog.trips[m] \in Nat
    BY <1>1, <1>3, BlocksRight
  <2>7. /\ a \in DOMAIN prog.nest /\ prog.nest[a] = prog.nest[c]
        /\ getBlockFreq(a) = prog.freq[a]
    <3>1. CASE i = n
      BY <1>7, <3>1 DEF From, MeantThrough
    <3>2. CASE i # n
      <4>1. i \in 1 .. Len(Nest(l)) - 1 /\ i + 1 \in 1 .. Len(Nest(l))
        BY <1>2, <3>2
      <4>2. a = prog.header[Nest(l)[i + 1]] /\ Nest(l)[i + 1] \in theLoops
        <5>1. a = prog.header[Nest(l)[i + 1]]
          BY <3>2 DEF From
        <5> DEFINE j == i + 1
        <5>2. j \in 1 .. Len(Nest(l))
          BY <4>1
        <5> HIDE DEF j
        <5>3. Nest(l)[j] \in theLoops
          BY <1>1, <5>2, NestOfNest
        <5>4. QED BY <5>1, <5>3 DEF j
      <4>3. prog.nest[c] = prog.nest[a]
        <5>1. prog.nest[prog.pre[Nest(l)[i]]] = Nest(Nest(l)[i + 1])
          BY <1>1, <4>1, NestRight
        <5> DEFINE o == Nest(l)[i + 1]
        <5>2. Nest(o) = prog.nest[prog.header[o]]
          BY DEF Nest
        <5>3. QED BY <4>2, <5>1, <5>2
      <4>4. QED BY <1>1, <4>2, <4>3, BlocksRight
    <3>3. QED BY <3>1, <3>2
  <2> DEFINE R == prog.runs[prog.header[l]]
  <2>8. R \in Int /\ u.n \in Int /\ u.n * prog.runs[c] = R
    <3>1. R \in Int
      BY <1>1, BlocksRight
    <3>2. u.n \in Int
      BY <2>1, <2>2, <2>4, <2>6
    <3> DEFINE x == v.n  y == prog.trips[m]  z == prog.runs[c]
    <3>3. x \in Int /\ y \in Int /\ z \in Int /\ u.n = x * y /\ x * (y * z) = R
      BY <2>1, <2>2, <2>4, <2>5, <2>6
    <3> HIDE DEF x, y, z, R
    <3>4. u.n * z = R
      <4>1. (x * y) * z = x * (y * z)
        BY <3>3
      <4>2. QED BY <3>3, <4>1
    <3>5. QED BY <3>1, <3>2, <3>4 DEF z
  <2> HIDE DEF R, a, c, m, t, n
  <2>9. /\ w.n \in Int
        /\ \A S \in Int : u.n * prog.runs[c] = S => w.n * prog.runs[a] = S
    BY <1>1, <1>5, <1>7, <2>3, <2>6, <2>7, <2>8, Passed DEF w
  <2>10. w.n * prog.runs[a] = R
    BY <2>8, <2>9
  <2>11. QED BY <2>9, <2>10 DEF R
<1>8. QED BY <1>4, <1>6, <1>7 DEF RoundRight

LEMMA ThroughRight ==
  ASSUME CacheInv, NEW l \in theLoops,
         \A i \in 1 .. Len(Nest(l)) : TripsRight(Nest(l)[i], ThirdOf(l, i))
  PROVE  RoundRight(l, ThroughNest(l), E_V(l))
<1> DEFINE n == Outside(l, E_V(l))
           v == Products(l)
           port(i) == IF i = 0 THEN prog.header[l] ELSE From(l, i)
           T == {i \in 0 .. n : ~RoundRight(l, v[i], port(i))}
<1>1. prog \in Programs
  BY DEF CacheInv
<1>2. n \in 1 .. Len(Nest(l)) /\ Len(Nest(l)) \in Nat /\ Nest(l)[1] = l
  BY <1>1, OutsideRight, NestRight
<1>3. v[0] = Value(1) /\ \A i \in 1 .. n : v[i] = Round(l, v[i - 1], i)
  BY <1>1, ProductsIs
<1> HIDE DEF v, n
<1>4. RoundRight(l, v[0], prog.header[l])
  <2>1. prog.runs[prog.header[l]] \in Nat
    BY <1>1, BlocksRight
  <2>2. Valued(v[0]) /\ v[0].on = None /\ v[0].n = 1
    BY <1>3, ValueRight
  <2>3. QED BY <2>1, <2>2 DEF RoundRight
<1>5. T = {}
  <2> SUFFICES ASSUME T # {} PROVE FALSE
    OBVIOUS
  <2>1. T \subseteq Nat
    BY <1>2
  <2>2. PICK i \in T : \A k \in T : i <= k
    <3> HIDE DEF T
    <3>1. QED BY <2>1, Smallest
  <2>3. i \in 0 .. n /\ i # 0
    BY <1>4
  <2> DEFINE j == i - 1
  <2>4. i \in 1 .. n /\ j \in 0 .. n /\ ~(i <= j) /\ j + 1 = i /\ j # n /\ i \in 1 .. Len(Nest(l))
    BY <1>2, <2>3
  <2>5. RoundRight(l, v[j], port(j))
    <3> HIDE DEF j, port
    <3>1. QED BY <2>2, <2>4
  <2>6. port(j) = prog.header[Nest(l)[i]]
    <3>1. CASE j = 0
      <4>1. i = 1 /\ port(j) = prog.header[l]
        BY <2>4, <3>1
      <4>2. QED BY <1>2, <4>1
    <3>2. CASE j # 0
      <4> HIDE DEF j
      <4>1. port(j) = prog.header[Nest(l)[j + 1]]
        BY <2>4, <3>2 DEF From, n
      <4> DEFINE k == j + 1
      <4>2. port(j) = prog.header[Nest(l)[k]] /\ k = i
        BY <2>4, <4>1
      <4> HIDE DEF k, port
      <4>3. QED BY <4>2
    <3>3. QED BY <3>1, <3>2
  <2>7. v[i] = Round(l, v[j], i)
    BY <1>3, <2>4
  <2> HIDE DEF j
  <2>8. RoundRight(l, v[i], From(l, i))
    <3>1. TripsRight(Nest(l)[i], ThirdOf(l, i))
      BY <2>4
    <3>2. i \in 1 .. Outside(l, E_V(l))
      BY <2>4 DEF n
    <3>3. RoundRight(l, v[j], prog.header[Nest(l)[i]])
      BY <2>5, <2>6
    <3> HIDE DEF port, T
    <3>4. RoundRight(l, Round(l, v[j], i), From(l, i))
      BY <3>1, <3>2, <3>3, OneRound
    <3>5. QED BY <2>7, <3>4
  <2>9. QED BY <2>3, <2>8
<1>6. RoundRight(l, v[n], From(l, n))
  <2>1. n \in 0 .. n /\ n # 0
    BY <1>2
  <2>2. QED BY <1>5, <2>1
<1>7. v[n] = ThroughNest(l) /\ From(l, n) = E_V(l)
  BY DEF ThroughNest, v, n, From
<1>8. QED BY <1>6, <1>7

(* the loops around a loop, but for itself *)
LEMMA Around ==
  ASSUME prog \in Programs, NEW l \in theLoops, NEW i \in 2 .. Len(Nest(l))
  PROVE  Nest(l)[i] \in Range(Tail(Nest(l)))
<1>1. Nest(l) \in Seq(Loops) /\ Len(Nest(l)) \in Nat \ {0} /\ Nest(l)[1] = l
      /\ Range(Nest(l)) = {Nest(l)[j] : j \in 1 .. Len(Nest(l))}
  BY NestRight
<1>2. i \in 1 .. Len(Nest(l)) /\ i # 1
  BY <1>1
<1>3. Len(Nest(Nest(l)[i])) = Len(Nest(l)) - i + 1
  BY <1>2, NestOfNest
<1>4. Len(Nest(Nest(l)[i])) # Len(Nest(l))
  BY <1>1, <1>2, <1>3
<1>5. Nest(l)[i] # l
  BY <1>4
<1>6. Nest(l)[i] \in Range(Nest(l)) /\ Nest(l) # <<>>
  BY <1>1, <1>2, EmptySeq
<1>7. QED BY <1>1, <1>5, <1>6, TailRange

(***************************************************************************)
(* What Meant says of a loop that gets the view w.                         *)
(***************************************************************************)
MeantFor(l, w) ==
  /\ l \in unseen => Len(Nest(l)) = 1 /\ l \in prog.countable
  /\ Len(Nest(l)) = 1 => RunsAt(w.first, w.second) = prog.runs[prog.pre[l]]
  /\ Len(Nest(l)) > 1 /\ w.first # ViewPort[Nest(l)[2]].first =>
       LET b == prog.pre[Nest(l)[Outside(l, w.first)]] IN
       /\ prog.nest[w.first] = prog.nest[b]
       /\ getBlockFreq(w.first) # 0 /\ getBlockFreq(b) # 0

ViewsKnown ==
  \A m \in DOMAIN ViewPort : TripsRight(m, ViewPort[m].third) /\ ViewRight(m)

ViewFits(l, w) ==
  /\ Valued(w.second)
  /\ Named /\ Agrees /\ w.second.exact /\ MeantFor(l, w)
     /\ (\A k \in Range(Tail(Nest(l))) : Meant(k))
       => /\ w.second.n \in Int /\ RunsAt(w.first, w.second) \in Nat
          /\ w.second.n * RunsAt(w.first, w.second) = prog.runs[prog.header[l]]

LEMMA BranchKeeps ==
  ASSUME NEW v, Valued(v), NEW a, NEW b
  PROVE  LET w == selectBranch(v, a, b) IN
         Valued(w) /\ w.n = v.n /\ w.exact = v.exact
<1> DEFINE w == selectBranch(v, a, b)
<1>1. CASE w = v
  BY <1>1
<1>2. CASE w # v
  <2>1. \E x : w = [v EXCEPT !.on = x]
    BY <1>2 DEF selectBranch
  <2>2. PICK x : w = [n |-> v.n, on |-> x, exact |-> v.exact]
    BY <2>1 DEF Valued
  <2> HIDE DEF w
  <2>3. w.n = v.n /\ w.on = x /\ w.exact = v.exact /\ Valued(w)
    BY <2>2 DEF Valued
  <2>4. QED BY <2>3 DEF w
<1>3. QED BY <1>1, <1>2

LEMMA TopView ==
  ASSUME CacheInv, valid, Numbered, NEW l \in theLoops, Len(Nest(l)) = 1
  PROVE  ViewFits(l, View(l))
<1> DEFINE w == View(l)
           t == TC(l)
<1>1. w.first = E_V(l) /\ w.second = selectBranch(t, E_V(l), prog.header[l])
  BY DEF View, B_PN
<1>2. TripsRight(l, t) /\ prog \in Programs
  BY TripsAreRight DEF CacheInv
<1>3. Valued(t)
  BY <1>2 DEF TripsRight
<1> HIDE DEF t, w
<1>4. Valued(w.second) /\ w.second.n = t.n /\ w.second.exact = t.exact
  BY <1>1, <1>3, BranchKeeps
<1>5. ASSUME Named, Agrees, w.second.exact, MeantFor(l, w)
      PROVE  /\ w.second.n \in Int /\ RunsAt(w.first, w.second) \in Nat
             /\ w.second.n * RunsAt(w.first, w.second) = prog.runs[prog.header[l]]
  <2>1. t.n = prog.trips[l]
    BY <1>2, <1>4, <1>5 DEF TripsRight, MeantFor
  <2>2. RunsAt(w.first, w.second) = prog.runs[prog.pre[l]]
    BY <1>5 DEF MeantFor
  <2>3. prog.runs[prog.header[l]] = prog.trips[l] * prog.runs[prog.pre[l]]
    BY <1>5 DEF Agrees
  <2>4. prog.trips[l] \in Nat /\ prog.runs[prog.pre[l]] \in Nat
    BY <1>2, BlocksRight
  <2>5. QED BY <1>4, <2>1, <2>2, <2>3, <2>4
<1>6. QED BY <1>4, <1>5 DEF ViewFits, w

(* the view port is that of the loop around: its value, and one loop more *)
LEMMA SameView ==
  ASSUME CacheInv, valid, Numbered, ViewsKnown, NEW l \in theLoops,
         Len(Nest(l)) > 1, Nest(l)[2] \in DOMAIN ViewPort,
         ViewPort[Nest(l)[2]].first = E_V(l)
  PROVE  ViewFits(l, View(l))
<1> DEFINE w == View(l)
           t == TC(l)
           o == Nest(l)[2]
           v == ViewPort[o].second
           a == prog.header[o]
           c == prog.pre[l]
           u == CreateMul(v, getPathProb(a, getBlockFreq(c)))
<1>1. w.first = E_V(l) /\ w.second = Mul(u, t)
  BY DEF View, B_PN, in_freq
<1>2. TripsRight(l, t) /\ prog \in Programs
  BY TripsAreRight DEF CacheInv
<1>3. ViewRight(o)
  BY DEF ViewsKnown
<1>4. Valued(v) /\ t.on = None
  BY <1>2, <1>3 DEF ViewRight, TripsRight
<1>5. /\ o \in theLoops /\ Len(Nest(l)) \in Nat /\ Nest(l)[1] = l
      /\ prog.nest[prog.pre[Nest(l)[1]]] = Nest(Nest(l)[1 + 1])
      /\ Nest(o) = Tail(Nest(l))
  <2>1. 1 \in 1 .. Len(Nest(l)) - 1
    BY <1>2, NestRight
  <2>2. QED BY <1>2, <2>1, NestRight
<1>6. prog.nest[a] = prog.nest[c]
  <2> DEFINE k == 1 + 1
  <2>1. prog.nest[c] = Nest(Nest(l)[k]) /\ k = 2
    BY <1>5
  <2> HIDE DEF k
  <2>2. prog.nest[c] = Nest(o)
    BY <2>1
  <2>3. QED BY <2>2 DEF Nest
<1>7. a \in DOMAIN prog.nest /\ c \in DOMAIN prog.nest /\ getBlockFreq(a) = prog.freq[a]
      /\ prog.runs[c] \in Nat /\ prog.trips[l] \in Nat
  BY <1>2, <1>5, BlocksRight
<1> DEFINE p == getPathProb(a, getBlockFreq(c))
<1>8. Valued(u) /\ u.on = v.on /\ (u.exact => v.exact)
  <2>1. u = CreateMul(v, p)
    OBVIOUS
  <2> HIDE DEF p, u, v
  <2>2. QED BY <1>4, <2>1, CreateMulRight
<1>9. /\ Valued(w.second) /\ w.second.on = v.on
      /\ w.second.exact => u.exact /\ t.exact /\ w.second.n = u.n * t.n
  <2> HIDE DEF w, u, t, v
  <2>1. QED BY <1>1, <1>4, <1>8, MulRight
<1>10. ASSUME Named, Agrees, w.second.exact, MeantFor(l, w),
              \A k \in Range(Tail(Nest(l))) : Meant(k)
       PROVE  /\ w.second.n \in Int /\ RunsAt(w.first, w.second) \in Nat
              /\ w.second.n * RunsAt(w.first, w.second) = prog.runs[prog.header[l]]
  <2>1. u.exact /\ t.exact /\ v.exact /\ w.second.n = u.n * t.n
    BY <1>8, <1>9, <1>10
  <2>2. l \notin unseen
    BY <1>10 DEF MeantFor
  <2>3. t.n = prog.trips[l]
    BY <1>2, <1>10, <2>1, <2>2 DEF TripsRight
  <2>4. getBlockFreq(c) = prog.freq[c]
    BY <1>2, <2>2, BlocksRight DEF in_freq
  <2> DEFINE R == RunsAt(ViewPort[o].first, v)
  <2>5. v.n \in Int /\ R \in Nat /\ v.n * R = prog.runs[a]
    <3>1. \A k \in Range(Nest(o)) : Meant(k)
      BY <1>5, <1>10
    <3>2. QED BY <1>3, <1>10, <2>1, <3>1 DEF ViewRight
  <2>6. R = RunsAt(w.first, w.second)
    BY <1>1, <1>9 DEF RunsAt
  <2>7. prog.runs[prog.header[l]] = prog.trips[l] * prog.runs[c]
    BY <1>10 DEF Agrees
  <2> HIDE DEF R, a, c, t, v, w, p
  <2>8. /\ u.n \in Int
        /\ \A S \in Int : v.n * S = prog.runs[a] => u.n * S = prog.runs[c]
    BY <1>2, <1>4, <1>6, <1>7, <1>10, <2>1, <2>4, <2>5, Passed DEF p
  <2> HIDE DEF u
  <2>9. u.n * R = prog.runs[c]
    BY <2>5, <2>8
  <2> DEFINE x == u.n  y == prog.trips[l]  z == prog.runs[c]
  <2>10. x \in Int /\ y \in Nat /\ R \in Nat /\ w.second.n = x * y /\ x * R = z
    BY <1>7, <2>1, <2>3, <2>5, <2>8, <2>9
  <2> HIDE DEF x, y, z
  <2>11. w.second.n \in Int /\ w.second.n * R = y * z
    <3>1. (x * y) * R = y * (x * R)
      BY <2>10
    <3>2. QED BY <2>10, <3>1
  <2>12. QED BY <2>5, <2>6, <2>7, <2>11 DEF y, z
<1>11. QED BY <1>9, <1>10 DEF ViewFits

(* the view port lies somewhere else: a product over the loops on the way *)
LEMMA ThroughView ==
  ASSUME CacheInv, valid, Numbered, ViewsKnown, NEW l \in theLoops,
         Len(Nest(l)) > 1, \A k \in Range(Tail(Nest(l))) : k \in DOMAIN ViewPort,
         ViewPort[Nest(l)[2]].first # E_V(l), E_V(l) \in DOMAIN prog.nest
  PROVE  ViewFits(l, View(l))
<1> DEFINE w == View(l)
           n == Outside(l, E_V(l))
           L == Len(Nest(l))
<1>1. w.first = E_V(l) /\ w.second = ThroughNest(l)
  BY DEF View, B_PN
<1>2. prog \in Programs /\ TripsRight(l, TC(l))
  BY TripsAreRight DEF CacheInv
<1>3. n \in 1 .. L /\ L \in Nat /\ Nest(l)[1] = l
  BY <1>2, OutsideRight, NestRight
<1>4. ASSUME NEW i \in 1 .. L, i # 1
      PROVE  i \in 2 .. L /\ Nest(l)[i] \in Range(Tail(Nest(l))) /\ Nest(l)[i] \in DOMAIN ViewPort
  <2>1. i \in 2 .. L
    BY <1>3, <1>4
  <2>2. QED BY <1>2, <2>1, Around
<1>5. \A i \in 1 .. L : TripsRight(Nest(l)[i], ThirdOf(l, i))
  <2>1. TAKE i \in 1 .. L
  <2>2. CASE i = 1
    BY <1>2, <1>3, <2>2 DEF ThirdOf
  <2>3. CASE i # 1
    BY <1>4, <2>3 DEF ThirdOf, ViewsKnown
  <2>4. QED BY <2>2, <2>3
<1>6. RoundRight(l, w.second, E_V(l))
  BY <1>1, <1>5, ThroughRight
<1>7. ASSUME Named, Agrees, MeantFor(l, w), \A k \in Range(Tail(Nest(l))) : Meant(k)
      PROVE  MeantThrough(l)
  <2> DEFINE b == prog.pre[Nest(l)[n]]
  <2>1. /\ prog.nest[E_V(l)] = prog.nest[b]
        /\ getBlockFreq(E_V(l)) # 0 /\ getBlockFreq(b) # 0
    BY <1>1, <1>7 DEF MeantFor
  <2>2. getBlockFreq(E_V(l)) = prog.freq[E_V(l)] /\ getBlockFreq(b) = prog.freq[b]
    BY <1>2, <2>1, BlocksRight
  <2>3. ASSUME NEW i \in 1 .. n
        PROVE  /\ in_freq(Nest(l)[i]) = prog.freq[prog.pre[Nest(l)[i]]]
               /\ Nest(l)[i] \in unseen => Nest(l)[i] \in prog.countable
    <3> DEFINE m == Nest(l)[i]
    <3>1. i \in 1 .. L
      BY <1>3
    <3>2. m \in theLoops /\ Len(Nest(m)) = L - i + 1
      BY <1>2, <3>1, NestOfNest
    <3>3. m \in unseen => Len(Nest(m)) = 1 /\ m \in prog.countable
      <4>1. CASE i = 1
        BY <1>3, <1>7, <4>1 DEF MeantFor
      <4>2. CASE i # 1
        BY <1>4, <1>7, <3>1, <4>2 DEF Meant
      <4>3. QED BY <4>1, <4>2
    <3>4. CASE i = n
      BY <2>2, <3>3, <3>4 DEF in_freq
    <3>5. CASE i # n
      <4>1. Len(Nest(m)) # 1
        <5> HIDE DEF m, n
        <5>1. QED BY <1>3, <3>2, <3>5
      <4>2. m \notin unseen
        BY <3>3, <4>1
      <4>3. QED BY <1>2, <3>2, <4>2, BlocksRight
    <3>6. QED BY <3>4, <3>5
  <2>4. QED BY <1>7, <2>1, <2>2, <2>3 DEF MeantThrough
<1>8. Valued(w.second) /\ w.second.on = None
  BY <1>6 DEF RoundRight
<1>9. RunsAt(w.first, w.second) = prog.runs[E_V(l)] /\ prog.runs[E_V(l)] \in Nat
  BY <1>1, <1>2, <1>8, BlocksRight DEF RunsAt
<1>10. ASSUME Named, Agrees, w.second.exact, MeantFor(l, w),
              \A k \in Range(Tail(Nest(l))) : Meant(k)
       PROVE  /\ w.second.n \in Int /\ RunsAt(w.first, w.second) \in Nat
              /\ w.second.n * RunsAt(w.first, w.second) = prog.runs[prog.header[l]]
  <2>1. MeantThrough(l)
    BY <1>7, <1>10
  <2>2. QED BY <1>6, <1>9, <1>10, <2>1 DEF RoundRight
<1>11. QED BY <1>8, <1>10 DEF ViewFits

(* the view that is added *)
LEMMA NewView ==
  ASSUME CacheInv, Nested, ViewedSoFar, ViewsKnown, valid, Numbered, at <= Len(prog.order)
  PROVE  ViewFits(Here, View(Here))
<1> DEFINE l == Here
<1>1. prog \in Programs /\ at \in 1 .. Len(prog.order) /\ l \in theLoops
  BY TheLoops DEF CacheInv, Here
<1>2. E_V(l) \in DOMAIN prog.nest
  <2>1. E_V(l) \in prog.dom[prog.pre[l]]
    BY PortRight DEF dominates
  <2>2. Dominance(prog) /\ Enclosing(prog)
    BY <1>1, ProgramsAssumption
  <2>3. prog.pre[l] \in DOMAIN prog.nest /\ DOMAIN prog.nest = DOMAIN prog.dom
    BY <1>1, <2>2, BlocksRight DEF Enclosing
  <2>4. QED BY <2>1, <2>2, <2>3 DEF Dominance
<1>3. \A k \in Range(Tail(Nest(l))) : k \in DOMAIN ViewPort
  BY PortRight
<1>4. Len(Nest(l)) > 1 => Nest(l)[2] \in DOMAIN ViewPort
  BY OuterViewed
<1>5. Len(Nest(l)) \in Nat \ {0}
  BY <1>1, NestRight
<1> HIDE DEF l
<1>6. ASSUME Len(Nest(l)) = 1 PROVE ViewFits(l, View(l))
  BY <1>1, <1>6, TopView
<1>7. ASSUME Len(Nest(l)) > 1, ViewPort[Nest(l)[2]].first = E_V(l)
      PROVE  ViewFits(l, View(l))
  BY <1>1, <1>4, <1>7, SameView
<1>8. ASSUME Len(Nest(l)) > 1, ViewPort[Nest(l)[2]].first # E_V(l)
      PROVE  ViewFits(l, View(l))
  BY <1>1, <1>2, <1>3, <1>8, ThroughView
<1>9. Len(Nest(l)) = 1 \/ Len(Nest(l)) > 1
  <2>1. \A k \in Nat \ {0} : k = 1 \/ k > 1
    OBVIOUS
  <2>2. QED BY ONLY <1>5, <2>1
<1>10. ViewFits(l, View(l))
  BY <1>6, <1>7, <1>8, <1>9
<1>11. QED BY <1>10 DEF l

(***************************************************************************)
(* What is known of the views stays known while views are added.           *)
(***************************************************************************)
Added(m) ==
  /\ m \in DOMAIN ViewPort /\ m \in DOMAIN ViewPort' /\ ViewPort'[m] = ViewPort[m]

LEMMA ProgStays ==
  ASSUME prog' = prog, seen' = seen
  PROVE  /\ Named' <=> Named
         /\ Agrees' <=> Agrees
         /\ theLoops' = theLoops
         /\ \A l : Nest(l)' = Nest(l)
         /\ \A l, t : TripsRight(l, t)' <=> TripsRight(l, t)
         /\ \A l, e : Outside(l, e)' = Outside(l, e)
         /\ \A b : getBlockFreq(b)' = getBlockFreq(b)
         /\ \A b, v : RunsAt(b, v)' = RunsAt(b, v)
         /\ unseen' = unseen
<1>1. (Named' <=> Named) /\ (Agrees' <=> Agrees) /\ theLoops' = theLoops
  BY DEF Named, Agrees, theLoops
<1>2. \A l : Nest(l)' = Nest(l)
  BY DEF Nest
<1>3. \A l, t : TripsRight(l, t)' <=> TripsRight(l, t)
  BY <1>1 DEF TripsRight, Valued, unseen
<1>4. \A l, e : Outside(l, e)' = Outside(l, e)
  BY DEF Outside, contains, Nest
<1>5. (\A b : getBlockFreq(b)' = getBlockFreq(b)) /\ unseen' = unseen
  BY DEF getBlockFreq, unseen
<1>6. \A b, v : RunsAt(b, v)' = RunsAt(b, v)
  BY DEF RunsAt
<1>7. QED BY <1>1, <1>2, <1>3, <1>4, <1>5, <1>6

LEMMA MeantStays ==
  ASSUME prog' = prog, seen' = seen, NEW l, Added(l), Len(Nest(l)) > 1 => Added(Nest(l)[2])
  PROVE  Meant(l)' <=> Meant(l)
<1>1. /\ \A m : Nest(m)' = Nest(m)
      /\ \A m, e : Outside(m, e)' = Outside(m, e)
      /\ \A b : getBlockFreq(b)' = getBlockFreq(b)
      /\ \A b, v : RunsAt(b, v)' = RunsAt(b, v)
      /\ unseen' = unseen
  BY ProgStays
<1>2. /\ l \in DOMAIN ViewPort /\ l \in DOMAIN ViewPort' /\ ViewPort'[l] = ViewPort[l]
      /\ Len(Nest(l)) > 1 => ViewPort'[Nest(l)[2]] = ViewPort[Nest(l)[2]]
  BY DEF Added
<1>3. Through(l)' <=> Through(l)
  BY <1>1, <1>2 DEF Through
<1>4. Outermost(l)' = Outermost(l)
  BY <1>1, <1>2 DEF Outermost
<1>5. QED BY <1>1, <1>2, <1>3, <1>4 DEF Meant

LEMMA ViewStays ==
  ASSUME prog \in Programs, Nested, prog' = prog, seen' = seen,
         \A m \in DOMAIN ViewPort : Added(m), NEW l \in DOMAIN ViewPort
  PROVE  /\ Meant(l)' <=> Meant(l)
         /\ \A k \in Range(Nest(l)) : k \in DOMAIN ViewPort
         /\ ViewRight(l) => ViewRight(l)'
<1>1. ASSUME NEW m \in DOMAIN ViewPort
      PROVE  /\ m \in theLoops
             /\ \A k \in Range(Tail(Nest(m))) : k \in DOMAIN ViewPort
             /\ Meant(m)' <=> Meant(m)
  <2>1. m \in theLoops /\ \A k \in Range(Tail(Nest(m))) : k \in DOMAIN ViewPort
    BY DEF Nested
  <2>2. ASSUME Len(Nest(m)) > 1 PROVE Added(Nest(m)[2])
    <3>1. 2 \in 2 .. Len(Nest(m))
      BY <2>1, <2>2, NestRight
    <3>2. QED BY <2>1, <3>1, Around
  <2>3. QED BY <2>1, <2>2, MeantStays
<1>2. Nest(l) \in Seq(Loops) /\ Len(Nest(l)) \in Nat \ {0} /\ Nest(l)[1] = l
  BY <1>1, NestRight
<1>3. \A k \in Range(Nest(l)) : k \in DOMAIN ViewPort
  <2>1. Nest(l) # <<>>
    BY <1>2, EmptySeq
  <2>2. \A k \in Range(Nest(l)) : k = l \/ k \in Range(Tail(Nest(l)))
    BY <1>2, <2>1, TailRange
  <2>3. QED BY <1>1, <2>2
<1>4. ASSUME ViewRight(l) PROVE ViewRight(l)'
  <2>1. /\ ViewPort'[l] = ViewPort[l] /\ (Named' <=> Named) /\ (Agrees' <=> Agrees)
        /\ Nest(l)' = Nest(l) /\ \A b, v : RunsAt(b, v)' = RunsAt(b, v)
    BY ProgStays DEF Added
  <2>2. \A k \in Range(Nest(l)) : Meant(k)' <=> Meant(k)
    BY <1>1, <1>3
  <2>3. QED BY <1>4, <2>1, <2>2 DEF ViewRight, Valued
<1>5. QED BY <1>1, <1>3, <1>4

(* the view that is added says what it should *)
LEMMA AddedView ==
  ASSUME CacheInv, ViewInv, ViewsKnown, ViewLoop
  PROVE  ViewsKnown'
<1> DEFINE l == Here
           w == View(l)
<1>1. /\ prog \in Programs /\ at \in 1 .. Len(prog.order) /\ l \in theLoops
      /\ valid /\ Numbered /\ Nested /\ ViewedSoFar /\ prog' = prog /\ seen' = seen
  BY TheLoops DEF CacheInv, ViewInv, ViewLoop, AtLoop, Here
<1>2. l \notin DOMAIN ViewPort
  <2>1. \A j \in 1 .. at - 1 : prog.order[j] # l
    BY <1>1, TheLoops DEF Here
  <2>2. QED BY <1>1, <2>1 DEF ViewedSoFar
<1>3. ViewFits(l, w)
  BY <1>1, NewView
<1>4. TripsRight(l, w.third)
  <2>1. TripsRight(l, TC(l))
    BY <1>1, TripsAreRight
  <2>2. w.third = TC(l)
    BY DEF View
  <2>3. QED BY <2>1, <2>2
<1>5. /\ DOMAIN ViewPort' = DOMAIN ViewPort \cup {l} /\ ViewPort'[l] = w
      /\ \A m \in DOMAIN ViewPort : ViewPort'[m] = ViewPort[m]
  <2>1. ViewPort' = Put(ViewPort, l, w)
    BY DEF ViewLoop
  <2> HIDE DEF l, w
  <2>2. DOMAIN ViewPort' = DOMAIN ViewPort \cup {l} /\ ViewPort'[l] = w
    BY <2>1 DEF Put, Over
  <2>3. \A m \in DOMAIN ViewPort : ViewPort'[m] = ViewPort[m]
    BY <1>2, <2>1 DEF Put, Over
  <2>4. QED BY <2>2, <2>3
<1>6. \A m \in DOMAIN ViewPort : Added(m)
  BY <1>5 DEF Added
<1>7. PICK x, k : x = w /\ k = l
  OBVIOUS
<1> HIDE DEF l, w
<1>8. /\ k \in theLoops /\ k \notin DOMAIN ViewPort /\ ViewFits(k, x) /\ TripsRight(k, x.third)
      /\ DOMAIN ViewPort' = DOMAIN ViewPort \cup {k} /\ ViewPort'[k] = x
  BY <1>1, <1>2, <1>3, <1>4, <1>5, <1>7
<1>9. \A m \in Range(Tail(Nest(k))) : m \in DOMAIN ViewPort
  BY <1>1, <1>7, PortRight, TheLoops DEF l, ViewLoop, AtLoop
<1>10. ASSUME Meant(k)' PROVE MeantFor(k, x)
  <2>1. /\ Nest(k)' = Nest(k) /\ \A e : Outside(k, e)' = Outside(k, e)
        /\ \A b : getBlockFreq(b)' = getBlockFreq(b)
        /\ \A b, v : RunsAt(b, v)' = RunsAt(b, v)
        /\ unseen' = unseen
    BY <1>1, ProgStays
  <2>2. k \in unseen => Len(Nest(k)) = 1 /\ k \in prog.countable
    BY <1>1, <1>10, <2>1 DEF Meant
  <2>3. Len(Nest(k)) = 1 => RunsAt(x.first, x.second) = prog.runs[prog.pre[k]]
    BY <1>1, <1>8, <1>10, <2>1 DEF Meant
  <2>4. ASSUME Len(Nest(k)) > 1, x.first # ViewPort[Nest(k)[2]].first
        PROVE  LET b == prog.pre[Nest(k)[Outside(k, x.first)]] IN
               /\ prog.nest[x.first] = prog.nest[b]
               /\ getBlockFreq(x.first) # 0 /\ getBlockFreq(b) # 0
    <3>1. 2 \in 2 .. Len(Nest(k))
      BY <1>1, <1>8, <2>4, NestRight
    <3>2. ViewPort'[Nest(k)[2]] = ViewPort[Nest(k)[2]]
      BY <1>1, <1>5, <1>8, <1>9, <3>1, Around
    <3>3. Through(k)'
      BY <1>8, <2>1, <2>4, <3>2 DEF Through
    <3>4. Outermost(k)' = prog.pre[Nest(k)[Outside(k, x.first)]]
      BY <1>1, <1>8, <2>1 DEF Outermost
    <3>5. QED BY <1>1, <1>8, <1>10, <2>1, <3>3, <3>4 DEF Meant
  <2>5. QED BY <2>2, <2>3, <2>4 DEF MeantFor
<1>11. ViewRight(k)'
  <2>1. /\ (Named' <=> Named) /\ (Agrees' <=> Agrees)
        /\ Nest(k)' = Nest(k) /\ \A b, v : RunsAt(b, v)' = RunsAt(b, v)
    BY <1>1, ProgStays
  <2>2. Valued(x.second)
    BY <1>8 DEF ViewFits
  <2>3. ASSUME Named, Agrees, x.second.exact, \A m \in Range(Nest(k)) : Meant(m)'
        PROVE  /\ x.second.n \in Int /\ RunsAt(x.first, x.second) \in Nat
               /\ x.second.n * RunsAt(x.first, x.second) = prog.runs[prog.header[k]]
    <3>1. Nest(k) \in Seq(Loops) /\ Len(Nest(k)) \in Nat \ {0} /\ Nest(k)[1] = k
          /\ Range(Nest(k)) = {Nest(k)[i] : i \in 1 .. Len(Nest(k))}
      BY <1>1, <1>8, NestRight
    <3>2. k \in Range(Nest(k)) /\ Nest(k) # <<>>
      BY <3>1, EmptySeq
    <3>3. MeantFor(k, x)
      BY <1>10, <2>3, <3>2
    <3>4. \A m \in Range(Tail(Nest(k))) : Meant(m)
      <4>1. TAKE m \in Range(Tail(Nest(k)))
      <4>2. m \in DOMAIN ViewPort
        BY <1>9
      <4>3. m \in Range(Nest(k))
        <5>1. /\ Len(Tail(Nest(k))) = Len(Nest(k)) - 1 /\ Tail(Nest(k)) \in Seq(Loops)
              /\ \A i \in 1 .. Len(Tail(Nest(k))) : Tail(Nest(k))[i] = Nest(k)[i + 1]
          BY <3>1, <3>2, HeadTailProperties
        <5>2. DOMAIN Tail(Nest(k)) = 1 .. Len(Nest(k)) - 1
          BY <5>1, LenProperties
        <5>3. PICK i \in DOMAIN Tail(Nest(k)) : m = Tail(Nest(k))[i]
          BY DEF Range
        <5>4. i \in 1 .. Len(Tail(Nest(k))) /\ i + 1 \in 1 .. Len(Nest(k))
          BY <3>1, <5>1, <5>2
        <5>5. m = Nest(k)[i + 1]
          BY <5>1, <5>3, <5>4
        <5>6. QED BY <3>1, <5>4, <5>5
      <4>4. Meant(m)' <=> Meant(m)
        BY <1>1, <1>6, <4>2, ViewStays
      <4>5. QED BY <2>3, <4>3, <4>4
    <3>5. QED BY <1>8, <2>3, <3>3, <3>4 DEF ViewFits
  <2>4. QED BY <1>1, <1>8, <2>1, <2>2, <2>3 DEF ViewRight, Valued
<1>12. ASSUME NEW m \in DOMAIN ViewPort'
       PROVE  TripsRight(m, ViewPort'[m].third) /\ ViewRight(m)'
  <2>1. CASE m = k
    BY <1>8, <1>11, <2>1
  <2>2. CASE m \in DOMAIN ViewPort
    BY <1>1, <1>5, <1>6, <2>2, ViewStays DEF ViewsKnown
  <2>3. QED BY <1>8, <2>1, <2>2
<1>13. (Named' <=> Named) /\ (Agrees' <=> Agrees)
  BY <1>1, ProgStays
<1>14. unseen' = unseen
  BY <1>1, ProgStays
<1>15. QED BY <1>1, <1>12, <1>13, <1>14 DEF ViewsKnown, TripsRight, Valued

(* while views are added nothing is predicted yet *)
PredictInv ==
  /\ ViewsKnown
  /\ pass = "perform" => DOMAIN prediction = {}
  /\ PredictsRuns

(* a block outside loops, and one in a loop *)
LEMMA PredictedRight ==
  ASSUME CacheInv, ViewInv, ViewsKnown, pass = "perform", at > Len(prog.order),
         Named, Agrees, NEW b \in DOMAIN prog.nest, Predicted(b).freq.exact,
         getBlockFreq(b) # 0, \A l \in Range(prog.nest[b]) : Meant(l)
  PROVE  Total(Predicted(b)) = prog.runs[b]
<1>1. prog \in Programs /\ Nested /\ ViewedSoFar /\ at = Len(prog.order) + 1
      /\ Len(prog.order) \in Nat
  BY TheLoops DEF CacheInv, ViewInv
<1>2. getBlockFreq(b) = prog.freq[b] /\ prog.runs[b] \in Nat
  BY <1>1, BlocksRight
<1>3. CASE prog.nest[b] = <<>>
  <2> DEFINE e == prog.entry
             v == Value(1)
             w == CreateMul(v, getPathProb(e, getBlockFreq(b)))
  <2>1. Predicted(b) = [at |-> e, freq |-> w]
    BY <1>3 DEF Predicted
  <2>2. Predicted(b).at = e /\ Predicted(b).freq = w
    BY <2>1
  <2>3. Valued(Value(1)) /\ Value(1).n = 1 /\ Value(1).on = None
    BY ValueRight
  <2>4. /\ e \in DOMAIN prog.nest /\ prog.nest[e] = prog.nest[b]
        /\ getBlockFreq(e) = prog.freq[e] /\ prog.runs[e] \in Nat
    BY <1>1, <1>3, BlocksRight
  <2>5. v.n \in Int /\ Valued(v) /\ v.n * prog.runs[e] = prog.runs[e] /\ v.on = None
    BY <2>3, <2>4
  <2> HIDE DEF v, e
  <2>6. w.n \in Int /\ \A R \in Int : v.n * R = prog.runs[e] => w.n * R = prog.runs[b]
    BY <1>1, <1>2, <2>2, <2>4, <2>5, Passed
  <2>7. w.n * prog.runs[e] = prog.runs[b]
    <3> HIDE DEF w
    <3>1. QED BY <2>4, <2>5, <2>6
  <2>8. w.on = None
    <3> DEFINE p == getPathProb(e, getBlockFreq(b))
    <3>1. w = CreateMul(v, p)
      OBVIOUS
    <3> HIDE DEF p, w
    <3>2. QED BY <2>5, <3>1, CreateMulRight
  <2>9. Total(Predicted(b)) = w.n * prog.runs[e]
    <3> HIDE DEF w
    <3>1. QED BY <2>2, <2>8 DEF Total, RunsAt
  <2>10. QED BY <2>7, <2>9
<1>4. CASE prog.nest[b] # <<>>
  <2> DEFINE l == prog.nest[b][1]
             h == prog.header[l]
             v == ViewPort[l].second
             w == CreateMul(v, getPathProb(h, getBlockFreq(b)))
  <2>1. Predicted(b) = [at |-> ViewPort[l].first, freq |-> w]
    BY <1>4 DEF Predicted
  <2>2. Predicted(b).at = ViewPort[l].first /\ Predicted(b).freq = w
    <3> HIDE DEF w, l
    <3>1. QED BY <2>1
  <2>3. l \in theLoops /\ prog.nest[b] = Nest(l)
    <3>1. Enclosing(prog)
      BY <1>1, ProgramsAssumption
    <3>2. QED BY <1>4, <3>1 DEF Enclosing, theLoops, Nest
  <2>4. l \in DOMAIN ViewPort
    <3>1. DOMAIN ViewPort = {prog.order[j] : j \in 1 .. Len(prog.order)}
      BY <1>1 DEF ViewedSoFar
    <3>2. Index(l) + 1 \in 1 .. Len(prog.order) /\ prog.order[Index(l) + 1] = l
      <4> HIDE DEF l
      <4>1. QED BY <1>1, <2>3, Place
    <3>3. QED BY <3>1, <3>2
  <2>5. /\ h \in DOMAIN prog.nest /\ prog.nest[h] = prog.nest[b]
        /\ getBlockFreq(h) = prog.freq[h]
    <3>1. h \in DOMAIN prog.nest /\ getBlockFreq(h) = prog.freq[h]
      BY <1>1, <2>3, BlocksRight
    <3>2. QED BY <2>3, <3>1 DEF Nest
  <2>6. Valued(v) /\ ViewRight(l)
    BY <2>4 DEF ViewsKnown, ViewRight
  <2>7. w.on = v.on /\ (w.exact => v.exact)
    <3> DEFINE p == getPathProb(h, getBlockFreq(b))
    <3>1. w = CreateMul(v, p)
      OBVIOUS
    <3> HIDE DEF p, w, v
    <3>2. QED BY <2>6, <3>1, CreateMulRight
  <2> DEFINE R == RunsAt(ViewPort[l].first, v)
  <2>8. w.exact
    BY <2>2
  <2>9. v.n \in Int /\ R \in Nat /\ v.n * R = prog.runs[h]
    <3>1. v.exact
      BY <2>7, <2>8
    <3>2. \A k \in Range(Nest(l)) : Meant(k)
      BY <2>3
    <3>3. QED BY <2>6, <3>1, <3>2 DEF ViewRight
  <2> HIDE DEF R, v, h, l
  <2>10. \A S \in Int : v.n * S = prog.runs[h] => w.n * S = prog.runs[b]
    BY <1>1, <1>2, <2>5, <2>6, <2>8, <2>9, Passed
  <2>11. w.n * R = prog.runs[b]
    <3> HIDE DEF w
    <3>1. QED BY <2>9, <2>10
  <2>12. Total(Predicted(b)) = w.n * R
    <3> HIDE DEF w
    <3>1. QED BY <2>2, <2>7 DEF Total, R, RunsAt
  <2>13. QED BY <2>11, <2>12
<1>5. QED BY <1>3, <1>4

LEMMA PredictStep ==
  ASSUME CacheInv, ViewInv, PredictInv, [Next]_vars
  PROVE  PredictInv'
<1> USE DEF vars, cacheVars
<1>1. CASE ViewLoop
  <2>1. ViewsKnown'
    BY <1>1, AddedView DEF PredictInv
  <2>2. DOMAIN prediction = {} /\ prediction' = prediction
    BY <1>1 DEF PredictInv, ViewLoop, AtLoop
  <2>3. QED BY <2>1, <2>2 DEF PredictInv, PredictsRuns
<1>2. CASE BeginPerform
  <2>1. DOMAIN ViewPort' = {} /\ DOMAIN prediction' = {}
    BY <1>2 DEF BeginPerform
  <2>2. QED BY <2>1 DEF PredictInv, PredictsRuns, ViewsKnown
<1>3. CASE Cached \/ PredictBlocks \/ UNCHANGED vars
  <2>1. prog' = prog /\ ViewPort' = ViewPort /\ seen' = seen
    BY <1>3 DEF Cached, PredictBlocks, runOnFunction, Begin, runOnLoop, EndInsert,
                NewLoopInfo, Transform
  <2>2. /\ \A k : Meant(k)' <=> Meant(k)
        /\ (Named' <=> Named) /\ (Agrees' <=> Agrees)
        /\ \A b : getBlockFreq(b)' = getBlockFreq(b)
        /\ \A x : Total(x)' = Total(x)
    <3>1. /\ (Named' <=> Named) /\ (Agrees' <=> Agrees)
          /\ \A b : getBlockFreq(b)' = getBlockFreq(b)
          /\ \A b, v : RunsAt(b, v)' = RunsAt(b, v)
          /\ unseen' = unseen
          /\ \A l : Nest(l)' = Nest(l)
          /\ \A l, e : Outside(l, e)' = Outside(l, e)
      BY <2>1, ProgStays
    <3>2. \A k : Meant(k)' <=> Meant(k)
      BY <2>1, <3>1 DEF Meant, Through, Outermost
    <3>3. \A x : Total(x)' = Total(x)
      BY <3>1 DEF Total
    <3>4. QED BY <3>1, <3>2, <3>3
  <2>3. ViewsKnown'
    <3>1. /\ \A l, t : TripsRight(l, t)' <=> TripsRight(l, t)
          /\ \A l : Nest(l)' = Nest(l)
          /\ \A b, v : RunsAt(b, v)' = RunsAt(b, v)
      BY <2>1, ProgStays
    <3>2. \A l : ViewRight(l)' <=> ViewRight(l)
      BY <2>1, <2>2, <3>1 DEF ViewRight, Valued
    <3>3. ViewsKnown' <=> ViewsKnown
      <4>1. unseen' = unseen
        BY <2>1, ProgStays
      <4>2. QED BY <2>1, <2>2, <3>2, <4>1 DEF ViewsKnown, TripsRight, Valued
    <3>4. QED BY <3>3 DEF PredictInv
  <2>4. CASE PredictBlocks
    <3>1. pass = "perform" /\ at > Len(prog.order) /\ pass' = "none"
          /\ prediction' = [b \in DOMAIN prog.nest |-> Predicted(b)]
      BY <2>4 DEF PredictBlocks
    <3>2. ASSUME NEW b \in DOMAIN prediction', Named, Agrees, prediction'[b].freq.exact,
                 getBlockFreq(b) # 0, \A l \in Range(prog.nest[b]) : Meant(l)
          PROVE  Total(prediction'[b]) = prog.runs[b]
      <4>1. b \in DOMAIN prog.nest /\ prediction'[b] = Predicted(b)
        BY <3>1
      <4>2. Predicted(b).freq.exact
        BY <3>2, <4>1
      <4>3. Total(Predicted(b)) = prog.runs[b]
        BY <3>1, <3>2, <4>1, <4>2, PredictedRight DEF PredictInv
      <4>4. QED BY <4>1, <4>3
    <3>3. PredictsRuns'
      <4>1. PredictsRuns' <=>
              \A b \in DOMAIN prediction' :
                /\ Named /\ Agrees /\ prediction'[b].freq.exact /\ getBlockFreq(b) # 0
                /\ \A l \in Range(prog.nest[b]) : Meant(l)
                => Total(prediction'[b]) = prog.runs[b]
        BY <2>1, <2>2 DEF PredictsRuns
      <4>2. QED BY <3>2, <4>1
    <3>4. QED BY <2>3, <3>1, <3>3 DEF PredictInv
  <2>5. CASE Cached \/ UNCHANGED vars
    <3>1. prediction' = prediction /\ (pass' = "perform" => pass = "perform")
      BY <2>5 DEF Cached, runOnFunction, Begin, runOnLoop, EndInsert, NewLoopInfo, Transform
    <3>2. PredictsRuns'
      <4>1. PredictsRuns' <=> PredictsRuns
        BY <2>1, <2>2, <3>1 DEF PredictsRuns
      <4>2. QED BY <4>1 DEF PredictInv
    <3>3. QED BY <2>3, <3>1, <3>2 DEF PredictInv
  <2>6. QED BY <1>3, <2>4, <2>5
<1>4. QED BY <1>1, <1>2, <1>3 DEF Next

(***************************************************************************)
(* The counter of a block ends at the number of its runs, wherever the     *)
(* promotion has put the view ports, if the profile agrees with the counts *)
(* and with LLVM's frequencies and nothing is cut off: no division leaves  *)
(* a rest, and no double is rounded to less.                               *)
(***************************************************************************)
THEOREM PredictsAlways == Spec => []PredictsRuns
<1>1. Init => CacheInv /\ ViewInv /\ PredictInv
  <2>1. ASSUME Init PROVE ViewInv /\ PredictInv
    <3>1. DOMAIN ViewPort = {} /\ DOMAIN prediction = {} /\ pass = "none"
      BY <2>1 DEF Init, CacheInit
    <3>2. QED BY <3>1 DEF ViewInv, Nested, PredictInv, ViewsKnown, PredictsRuns
  <2>2. QED BY <2>1, CacheStart
<1>2. CacheInv /\ ViewInv /\ PredictInv /\ [Next]_vars => CacheInv' /\ ViewInv' /\ PredictInv'
  BY CacheStep, ViewStep, PredictStep
<1>3. PredictInv => PredictsRuns
  BY DEF PredictInv
<1>4. QED BY <1>1, <1>2, <1>3, PTL DEF Spec
-----------------------------------------------------------------------------
(***************************************************************************)
(* The count that is inserted, and the loop as it runs (TripCount).        *)
(***************************************************************************)
Stride(l) == IF Step(l) > 0 THEN Step(l) ELSE -Step(l)

(***************************************************************************)
(* How far the end is from what the exit compares first, and a step more   *)
(* where the exit is behind the end.                                       *)
(***************************************************************************)
Distance(l) ==
  IF Step(l) > 0 THEN l.end - FirstTested(l) + (IF l.predicate = "SGT" THEN Step(l) ELSE 0)
                 ELSE FirstTested(l) - l.end

Countable(l) == IsMeant(l) /\ (MeetsEnd(l) \/ l.predicate \in {"SGT", "SLT"})

(* t rounds have not come to the end, or have just done so *)
NotPast(l, t) ==
  /\ l.predicate = "SLT" => t * Stride(l) < Distance(l) + Stride(l)
  /\ l.predicate # "SLT" => t * Stride(l) <= Distance(l)

AtEnd(l, t) ==
  /\ l.predicate = "SLT" => Distance(l) <= t * Stride(l)
  /\ l.predicate = "SGT" => Distance(l) < t * Stride(l) + Stride(l)
  /\ l.predicate \in {"EQ", "switch"} => t * Stride(l) = Distance(l)

(* before the count is there no round is *)
Begun == pc = "preheader" => iv = loop.start /\ taken = 0

(* what holds once a count is there *)
CountInv ==
  pc \in {"round", "left", "broke"} =>
    /\ FormIsKnown(loop)
    /\ Countable(loop) =>
         /\ Step(loop) # 0 /\ count = Distance(loop) \div Stride(loop)
         /\ iv = loop.start + taken * Step(loop)
         /\ NotPast(loop, taken)
         /\ pc = "left" => AtEnd(loop, taken)

LoopInv == LoopTypeOK /\ loop \in LoopForms /\ Begun /\ CountInv

----------------------------------------------------------------------------
(***************************************************************************)
(* Arithmetic.                                                             *)
(***************************************************************************)
LEMMA Product ==
  ASSUME NEW t \in Int, NEW c \in Int
  PROVE  t * c \in Int /\ (t + 1) * c = t * c + c /\ t * (-c) = -(t * c)
<1>1. t * c \in Int
  OBVIOUS
<1>2. (t + 1) * c = t * c + c
  OBVIOUS
<1>3. t * (-c) = -(t * c)
  OBVIOUS
<1>4. QED BY <1>1, <1>2, <1>3

LEMMA Fewer ==
  ASSUME NEW a \in Int, NEW b \in Int, NEW m \in Int, m > 0, a * m < b * m
  PROVE  a < b /\ a * m + m <= b * m
<1>1. a < b
  OBVIOUS
<1>2. \A x, y, z \in Int : z > 0 /\ x < y => x * z + z <= y * z
  OBVIOUS
<1>3. QED BY <1>1, <1>2

LEMMA Quotient ==
  ASSUME NEW n \in Int, NEW m \in Int, m > 0
  PROVE  /\ n \div m \in Int /\ (n \div m) * m \in Int
         /\ (n \div m) * m <= n /\ n < (n \div m) * m + m
<1>1. n = m * (n \div m) + (n % m) /\ n % m \in 0 .. m - 1 /\ n \div m \in Int
  OBVIOUS
<1>2. m * (n \div m) = (n \div m) * m
  BY <1>1
<1>3. (n \div m) * m \in Int
  BY <1>1, Product
<1>4. QED BY <1>1, <1>2, <1>3

LEMMA WrapIs ==
  ASSUME NEW v \in Int, NEW h \in Nat \ {0}
  PROVE  /\ Wrap(v, h) \in -h .. h - 1
         /\ -h <= v /\ v < h => Wrap(v, h) = v
  BY DEF Wrap

LEMMA SDivIs ==
  ASSUME NEW a \in -Half .. Half - 1, NEW b \in Int, b \notin {-1, 0, 1}
  PROVE  SDiv(a, b) \in -Half .. Half - 1
<1>1. Half \in Nat /\ Half > 1
  BY HalfAssumption
<1> DEFINE x == IF a < 0 THEN -a ELSE a
           y == IF b < 0 THEN -b ELSE b
<1>2. x \in 0 .. Half /\ y \in Int /\ y > 1
  BY <1>1
<1>3. PICK q : q = x \div y
  OBVIOUS
<1>4. q \in Int /\ q * y <= x /\ x < q * y + y /\ q * y \in Int
  BY <1>2, <1>3, Quotient
<1>5. q >= 0
  <2>1. ASSUME q < 0 PROVE FALSE
    <3>1. q * y + y <= 0 * y
      <4>1. q * y < 0 * y
        BY <1>2, <1>4, <2>1
      <4>2. QED BY <1>2, <1>4, <4>1, Fewer
    <3>2. QED BY <1>2, <1>4, <3>1
  <2>2. QED BY <1>4, <2>1
<1>6. q * 2 <= q * y
  BY <1>2, <1>4, <1>5
<1>7. q <= Half - 1
  BY <1>1, <1>2, <1>4, <1>5, <1>6
<1>8. SDiv(a, b) = q \/ SDiv(a, b) = -q
  BY <1>3 DEF SDiv
<1>9. QED BY <1>1, <1>4, <1>5, <1>7, <1>8

(***************************************************************************)
(* Loops.                                                                  *)
(***************************************************************************)
(* the numbers of a loop *)
LEMMA LoopParts ==
  ASSUME NEW l \in LoopForms
  PROVE  /\ l \in Loop
         /\ l.half \in Nat \ {0} /\ l.compared \in Nat \ {0}
         /\ l.start \in -l.half .. l.half - 1 /\ l.others \subseteq -l.half .. l.half - 1
         /\ l.start \in Int /\ l.end \in Int
         /\ l.steps \in Seq(Int) /\ Len(l.steps) \in Nat \ {0}
         /\ Step(l) \in Int /\ Step(l) \in Range(l.steps) /\ Range(l.steps) \subseteq Int
         /\ l.variable \in {"phi", "memory"} /\ l.tested \in {"old", "new"}
         /\ l.predicate \in {"SGT", "EQ", "SLT", "switch", "other"}
<1>1. l \in Loop /\ InType(l)
  BY LoopsAssumption
<1>2. /\ l.half \in Nat \ {0} /\ l.compared \in Nat \ {0} /\ l.start \in Int /\ l.end \in Int
      /\ l.steps \in Seq(Int)
      /\ l.variable \in {"phi", "memory"} /\ l.tested \in {"old", "new"}
      /\ l.predicate \in {"SGT", "EQ", "SLT", "switch", "other"}
  BY <1>1 DEF Loop
<1>3. l.start \in -l.half .. l.half - 1 /\ l.others \subseteq -l.half .. l.half - 1
      /\ l.steps # <<>>
  BY <1>1 DEF InType
<1>4. PICK s : s = l.steps
  OBVIOUS
<1>5. Len(s) \in Nat \ {0} /\ \A k \in 1 .. Len(s) : s[k] \in Int
  BY <1>2, <1>3, <1>4
<1>6. s[Len(s)] \in Range(s) /\ Range(s) \subseteq Int /\ s[Len(s)] \in Int
  BY <1>2, <1>4, <1>5 DEF Range
<1>7. QED BY <1>1, <1>2, <1>3, <1>4, <1>5, <1>6 DEF Step, Last

(* what is computed is a number of 32 bits *)
LEMMA CountFits ==
  ASSUME NEW l \in LoopForms, AdjustType(Step(l), l.half) # 0
  PROVE  insertTripCount(l) \in -Half .. Half - 1
<1>1. Half \in Nat \ {0}
  BY HalfAssumption
<1>2. \A v \in Int, h \in Nat \ {0} : AdjustType(v, h) \in Int
  <2>1. ASSUME NEW v \in Int, NEW h \in Nat \ {0} PROVE AdjustType(v, h) \in Int
    <3>1. Wrap(v, Half) \in Int
      BY <1>1, WrapIs
    <3>2. v % (2 * h) \in Int
      OBVIOUS
    <3>3. QED BY <3>1, <3>2 DEF AdjustType
  <2>2. QED BY <2>1
<1>3. PICK s, e, c, one :
        /\ s = AdjustType(l.start, l.half) /\ e = AdjustType(l.end, l.compared)
        /\ c = AdjustType(Step(l), l.half) /\ one = AdjustStep(l)
  OBVIOUS
<1>4. s \in Int /\ e \in Int /\ c \in Int
  BY <1>2, <1>3, LoopParts DEF Step
<1>5. one \in {-1, 0, 1}
  BY <1>3 DEF AdjustStep
<1>6. Difference(s, e, c) \in -Half .. Half - 1
  <2>1. s - e \in Int /\ e - s \in Int
    BY <1>4
  <2>2. QED BY <1>1, <2>1, WrapIs DEF Difference
<1>7. PICK d : d = Adjusted(Difference(s, e, c), c, one)
  OBVIOUS
<1>8. d \in -Half .. Half - 1
  <2>1. PICK f : f = Difference(s, e, c)
    OBVIOUS
  <2>2. f + c \in Int /\ f - c \in Int /\ f \in -Half .. Half - 1
    BY <1>1, <1>4, <1>6, <2>1
  <2>3. Wrap(f + c, Half) \in -Half .. Half - 1 /\ Wrap(f - c, Half) \in -Half .. Half - 1
    BY <1>1, <2>2, WrapIs
  <2>4. QED BY <1>5, <1>7, <2>1, <2>2, <2>3 DEF Adjusted
<1>9. Divided(d, c) \in -Half .. Half - 1
  <2>1. CASE c \in {-1, 1}
    BY <1>8, <2>1 DEF Divided
  <2>2. CASE c \notin {-1, 0, 1}
    BY <1>4, <1>8, <2>2, SDivIs DEF Divided
  <2>3. QED BY <1>3, <2>1, <2>2
<1>10. QED BY <1>3, <1>7, <1>9 DEF insertTripCount

(* a loop the formula is meant for *)
LEMMA MeantParts ==
  ASSUME NEW l \in LoopForms, FormIsKnown(l), IsMeant(l)
  PROVE  /\ l.others = {} /\ ~l.skips /\ Range(l.steps) = {Step(l)}
         /\ addfirst(l) <=> l.tested = "new"
         /\ l.predicate \in {"SGT", "EQ", "SLT", "switch"}
         /\ l.predicate \in {"SGT", "SLT"} => Step(l) > 0
         /\ AdjustType(l.start, l.half) = l.start
         /\ AdjustType(l.end, l.compared) = l.end
         /\ AdjustType(Step(l), l.half) = Step(l)
<1>1. OneChange(l) /\ Fits(l) /\ NoOverflow(l) /\ Towards(l)
  BY DEF IsMeant
<1>2. PICK s, e, c, h, k : s = l.start /\ e = l.end /\ c = Step(l) /\ h = l.half /\ k = l.compared
  OBVIOUS
<1>3. /\ s \in -h .. h - 1 /\ s \in Int /\ e \in Int /\ c \in Int
      /\ h \in Nat \ {0} /\ k \in Nat \ {0} /\ Half \in Nat \ {0}
  BY <1>2, LoopParts, HalfAssumption
<1>4. /\ -Half <= s /\ s < Half /\ -Half <= e /\ e < Half /\ -Half <= c /\ c < Half
      /\ h < Half => s >= 0 /\ c > 0
      /\ k < Half => e >= 0
  BY <1>1, <1>2 DEF Fits
<1>5. /\ s + c < h /\ e < k
  <2>1. PICK m : m = IF h < k THEN h ELSE k
    OBVIOUS
  <2>2. s + c < m /\ e < m
    BY <1>1, <1>2, <2>1 DEF NoOverflow
  <2>3. QED BY <1>3, <2>1, <2>2
<1>6. AdjustType(s, h) = s
  <2>1. CASE h < Half
    BY <1>3, <1>4, <2>1 DEF AdjustType
  <2>2. CASE ~(h < Half)
    BY <1>3, <1>4, <2>2, WrapIs DEF AdjustType
  <2>3. QED BY <2>1, <2>2
<1>7. AdjustType(e, k) = e
  <2>1. CASE k < Half
    BY <1>3, <1>4, <1>5, <2>1 DEF AdjustType
  <2>2. CASE ~(k < Half)
    BY <1>3, <1>4, <2>2, WrapIs DEF AdjustType
  <2>3. QED BY <2>1, <2>2
<1>8. AdjustType(c, h) = c
  <2>1. CASE h < Half
    BY <1>3, <1>4, <1>5, <2>1 DEF AdjustType
  <2>2. CASE ~(h < Half)
    BY <1>3, <1>4, <2>2, WrapIs DEF AdjustType
  <2>3. QED BY <2>1, <2>2
<1>10. Range(l.steps) = {Step(l)}
  BY <1>1, LoopParts DEF OneChange
<1>11. addfirst(l) <=> l.tested = "new"
  BY <1>1, LoopParts DEF OneChange, addfirst
<1>12. l.predicate \in {"SGT", "EQ", "SLT", "switch"}
  BY DEF FormIsKnown, ExitIsKnown
<1>13. l.predicate \in {"SGT", "SLT"} => Step(l) > 0
  BY <1>1 DEF Towards
<1>14. l.others = {} /\ ~l.skips
  BY <1>1 DEF OneChange
<1>15. QED BY <1>2, <1>6, <1>7, <1>8, <1>10, <1>11, <1>12, <1>13, <1>14

(* the numbers of such a loop *)
Bounded(l, h) ==
  /\ -h <= l.start /\ l.start < h /\ -h <= l.end /\ l.end < h
  /\ -h <= l.start + Step(l) /\ l.start + Step(l) < h
  /\ -h <= l.end + Step(l) /\ l.end + Step(l) < h

LEMMA MeantNumbers ==
  ASSUME NEW l \in LoopForms, FormIsKnown(l), IsMeant(l), Step(l) # 0
  PROVE  /\ Distance(l) \in Nat /\ Stride(l) \in Nat \ {0}
         /\ Distance(l) < Half
         /\ Bounded(l, l.half) /\ Bounded(l, l.compared)
         /\ FirstTested(l) \in Int
         /\ l.unsigned => l.start >= 0 /\ Step(l) > 0 /\ l.end >= 0
         /\ Step(l) > 0 => l.start <= l.end /\ l.end - l.start + Step(l) < Half
         /\ Step(l) < 0 => l.end <= l.start /\ l.start - l.end - Step(l) < Half
<1>1. OneChange(l) /\ Fits(l) /\ NoOverflow(l) /\ Towards(l)
  BY DEF IsMeant
<1>2. PICK s, e, c, h, k : s = l.start /\ e = l.end /\ c = Step(l) /\ h = l.half /\ k = l.compared
  OBVIOUS
<1>3. /\ s \in -h .. h - 1 /\ s \in Int /\ e \in Int /\ c \in Int /\ c # 0
      /\ h \in Nat \ {0} /\ k \in Nat \ {0} /\ Half \in Nat \ {0}
  BY <1>2, LoopParts, HalfAssumption
<1>4. Bounded(l, h) /\ Bounded(l, k)
  <2>1. PICK m : m = IF h < k THEN h ELSE k
    OBVIOUS
  <2>2. Bounded(l, m)
    BY <1>1, <1>2, <2>1 DEF NoOverflow, Bounded
  <2>3. m \in Int /\ m <= h /\ m <= k
    BY <1>3, <2>1
  <2>4. QED BY <1>2, <1>3, <2>2, <2>3 DEF Bounded
<1>5. FirstTested(l) = (IF l.tested = "new" THEN s + c ELSE s)
  BY <1>2 DEF FirstTested
<1>6. c > 0 => e - s + c < Half
  BY <1>1, <1>2 DEF NoOverflow
<1>7. c < 0 => s - e - c < Half
  BY <1>1, <1>2, <1>3 DEF NoOverflow
<1>8. /\ c > 0 /\ l.predicate # "SGT" => FirstTested(l) <= e
      /\ c > 0 /\ l.predicate = "SGT" => s <= e
      /\ c < 0 => e <= FirstTested(l) /\ l.predicate # "SGT"
  BY <1>1, <1>2, <1>3 DEF Towards
<1>9. Distance(l) \in Nat /\ Distance(l) < Half
  BY <1>2, <1>3, <1>5, <1>6, <1>7, <1>8 DEF Distance
<1>10. l.unsigned => s >= 0 /\ c > 0 /\ e >= 0
  BY <1>1, <1>2 DEF Fits
<1>11. /\ c > 0 => s <= e
       /\ c < 0 => e <= s
  BY <1>3, <1>5, <1>8
<1>12. QED BY <1>2, <1>3, <1>4, <1>5, <1>6, <1>7, <1>9, <1>10, <1>11 DEF Stride

(* the formula, for such a loop *)
LEMMA CountIs ==
  ASSUME NEW l \in LoopForms, FormIsKnown(l), IsMeant(l), Step(l) # 0
  PROVE  insertTripCount(l) = Distance(l) \div Stride(l)
<1>1. PICK s, e, c, one :
        s = l.start /\ e = l.end /\ c = Step(l) /\ one = AdjustStep(l)
  OBVIOUS
<1>2. insertTripCount(l) = Divided(Adjusted(Difference(s, e, c), c, one), c)
  BY <1>1, MeantParts DEF insertTripCount
<1>3. s \in Int /\ e \in Int /\ c \in Int /\ c # 0 /\ Half \in Nat \ {0}
  BY <1>1, LoopParts, HalfAssumption
<1>4. PICK D, n, g : /\ D = Distance(l)
                     /\ n = (IF l.tested = "new" THEN 1 ELSE 0)
                     /\ g = (IF l.predicate = "SGT" THEN 1 ELSE 0)
  OBVIOUS
<1>5. n \in {0, 1} /\ g \in {0, 1} /\ D \in Nat /\ D < Half
  BY <1>4, MeantNumbers
<1>6. one = IF c = -1 THEN n - g ELSE g - n
  <2>1. one = IF Step(l) = -1 THEN -(g - n) ELSE g - n
    BY <1>1, <1>4, MeantParts DEF AdjustStep
  <2>2. QED BY <1>1, <1>5, <2>1 DEF Step
<1>7. /\ c > 0 => D = e - s - (IF n = 1 THEN c ELSE 0) + (IF g = 1 THEN c ELSE 0)
      /\ c < 0 => D = s - e + (IF n = 1 THEN c ELSE 0) /\ g = 0
  <2>1. (n = 1 <=> l.tested = "new") /\ (g = 1 <=> l.predicate = "SGT")
    BY <1>4
  <2>3. c < 0 => g = 0
    BY <1>1, <1>3, <1>4, MeantParts
  <2>4. FirstTested(l) = s + (IF l.tested = "new" THEN c ELSE 0)
    BY <1>1, <1>3 DEF FirstTested
  <2>5. QED BY <1>1, <1>3, <1>4, <2>1, <2>3, <2>4 DEF Distance
<1>8. /\ c > 0 => s <= e /\ e - s + c < Half
      /\ c < 0 => e <= s /\ s - e - c < Half
  BY <1>1, MeantNumbers
<1>9. \A v \in Int : -Half <= v /\ v < Half => Wrap(v, Half) = v
  BY <1>3, WrapIs
<1>10. CASE c > 0
  <2>1. Difference(s, e, c) = e - s
    BY <1>3, <1>8, <1>9, <1>10 DEF Difference
  <2>2. Adjusted(e - s, c, one) = D
    <3>1. one = g - n
      BY <1>3, <1>6, <1>10
    <3>2. CASE n = g
      <4>1. one = 0 /\ D = e - s
        BY <1>3, <1>5, <1>7, <1>10, <3>1, <3>2
      <4>2. QED BY <4>1 DEF Adjusted
    <3>3. CASE n = 1 /\ g = 0
      <4>1. one = -1 /\ D = e - s - c
        BY <1>3, <1>7, <1>10, <3>1, <3>3
      <4>2. Wrap(e - s - c, Half) = e - s - c
        BY <1>3, <1>5, <1>9, <4>1
      <4>3. QED BY <4>1, <4>2 DEF Adjusted
    <3>4. CASE n = 0 /\ g = 1
      <4>1. one = 1 /\ D = e - s + c
        BY <1>3, <1>7, <1>10, <3>1, <3>4
      <4>2. Wrap(e - s + c, Half) = e - s + c
        BY <1>3, <1>5, <1>9, <4>1
      <4>3. QED BY <4>1, <4>2 DEF Adjusted
    <3>5. QED BY <1>5, <3>2, <3>3, <3>4
  <2>3. Divided(D, c) = D \div c
    <3>1. CASE c = 1
      BY <1>5, <3>1 DEF Divided
    <3>2. CASE c # 1
      BY <1>3, <1>5, <1>10, <3>2 DEF Divided, SDiv
    <3>3. QED BY <3>1, <3>2
  <2>4. QED BY <1>1, <1>2, <1>4, <1>10, <2>1, <2>2, <2>3 DEF Stride
<1>11. CASE c = -1
  <2>1. Difference(s, e, c) = s - e
    BY <1>3, <1>8, <1>9, <1>11 DEF Difference
  <2>2. Adjusted(s - e, c, one) = D
    <3>1. one = n
      BY <1>3, <1>5, <1>6, <1>7, <1>11
    <3>2. CASE n = 0
      <4>1. one = 0 /\ D = s - e
        BY <1>3, <1>7, <1>11, <3>1, <3>2
      <4>2. QED BY <4>1 DEF Adjusted
    <3>3. CASE n = 1
      <4>1. one = 1 /\ D = s - e + c
        BY <1>3, <1>7, <1>11, <3>1, <3>3
      <4>2. Wrap(s - e + c, Half) = s - e + c
        BY <1>3, <1>5, <1>9, <4>1
      <4>3. QED BY <4>1, <4>2 DEF Adjusted
    <3>4. QED BY <1>5, <3>2, <3>3
  <2>3. Divided(D, c) = D \div 1
    BY <1>5, <1>11 DEF Divided
  <2>4. QED BY <1>1, <1>2, <1>4, <1>11, <2>1, <2>2, <2>3 DEF Stride
<1>12. CASE c < -1
  <2>1. Difference(s, e, c) = e - s
    BY <1>3, <1>8, <1>9, <1>12 DEF Difference
  <2>2. PICK M \in Int : M + D = 0
    BY <1>5
  <2>3. Adjusted(e - s, c, one) = M
    <3>1. one + n = 0 /\ one \in Int
      BY <1>3, <1>5, <1>6, <1>7, <1>12
    <3>2. CASE n = 0
      <4>1. one = 0 /\ M = e - s
        BY <1>3, <1>5, <1>7, <1>12, <2>2, <3>1, <3>2
      <4>2. QED BY <4>1 DEF Adjusted
    <3>3. CASE n = 1
      <4>1. one = -1 /\ M = e - s - c
        BY <1>3, <1>5, <1>7, <1>12, <2>2, <3>1, <3>3
      <4>2. Wrap(e - s - c, Half) = e - s - c
        BY <1>3, <1>5, <1>9, <2>2, <4>1
      <4>3. QED BY <4>1, <4>2 DEF Adjusted
    <3>4. QED BY <1>5, <3>2, <3>3
  <2>4. Divided(M, c) = D \div (-c)
    <3>1. Divided(M, c) = SDiv(M, c)
      BY <1>3, <1>12 DEF Divided
    <3>2. PICK m : m = -c
      OBVIOUS
    <3>3. m \in Int /\ m > 0
      BY <1>3, <1>12, <3>2
    <3>4. CASE D = 0
      <4>1. M = 0
        BY <2>2, <3>4
      <4>2. 0 \div m = 0
        BY <3>3
      <4>3. SDiv(0, c) = 0 \div m \/ SDiv(0, c) = -(0 \div m)
        <5>1. (IF c < 0 THEN -c ELSE c) = m /\ ~(0 < 0)
          BY <1>3, <1>12, <3>2
        <5>2. QED BY ONLY <5>1 DEF SDiv
      <4>4. SDiv(0, c) = 0
        BY <4>2, <4>3
      <4>5. QED BY <3>1, <3>2, <3>4, <4>1, <4>2, <4>4
    <3>5. CASE D # 0
      <4>1. M < 0 /\ -M = D
        BY <1>5, <2>2, <3>5
      <4>2. SDiv(M, c) = D \div (-c)
        BY <1>3, <1>12, <4>1 DEF SDiv
      <4>3. QED BY <3>1, <4>2
    <3>6. QED BY <3>4, <3>5
  <2>5. QED BY <1>1, <1>2, <1>3, <1>4, <1>12, <2>1, <2>3, <2>4 DEF Stride
<1>13. QED BY <1>3, <1>10, <1>11, <1>12

(* the value a round of such a loop compares *)
LEMMA Compared ==
  ASSUME NEW l \in LoopForms, FormIsKnown(l), IsMeant(l), Step(l) # 0,
         NEW t \in Nat, NotPast(l, t),
         NEW w, w = FirstTested(l) + t * Step(l)
  PROVE  /\ w \in Int /\ t * Step(l) \in Int
         /\ -l.half <= w /\ w < l.half /\ -l.compared <= w /\ w < l.compared
         /\ l.unsigned => w >= 0
         /\ l.predicate = "SGT" => (w > l.end <=> AtEnd(l, t))
         /\ l.predicate = "SLT" => (~(w < l.end) <=> AtEnd(l, t))
         /\ l.predicate \in {"EQ", "switch"} => (w = l.end <=> AtEnd(l, t))
<1>1. PICK s, e, c, f, D, S, p :
        /\ s = l.start /\ e = l.end /\ c = Step(l) /\ f = FirstTested(l)
        /\ D = Distance(l) /\ S = Stride(l) /\ p = t * c
  OBVIOUS
<1>2. /\ s \in Int /\ e \in Int /\ c \in Int /\ c # 0 /\ f \in Int
      /\ D \in Nat /\ S \in Nat \ {0}
      /\ l.half \in Nat \ {0} /\ l.compared \in Nat \ {0}
  BY <1>1, LoopParts, MeantNumbers
<1>3. p \in Int /\ t * S \in Int
  BY <1>1, <1>2, Product
<1>4. /\ c > 0 => t * S = p /\ S = c
      /\ c < 0 => t * S = -p /\ S = -c
  <2>1. S = (IF c > 0 THEN c ELSE -c)
    BY <1>1 DEF Stride
  <2>2. t * (-c) = -(t * c)
    BY <1>2, Product
  <2>3. QED BY <1>1, <1>2, <2>1, <2>2
<1>5. t * S >= 0
  BY <1>2
<1>6. PICK q : q = t * S
  OBVIOUS
<1>7. /\ l.predicate = "SLT" => q < D + S
      /\ l.predicate # "SLT" => q <= D
  BY <1>1, <1>6 DEF NotPast
<1>8. AtEnd(l, t) <=> /\ l.predicate = "SLT" => D <= q
                      /\ l.predicate = "SGT" => D < q + S
                      /\ l.predicate \in {"EQ", "switch"} => q = D
  BY <1>1, <1>6 DEF AtEnd
<1>9. f = (IF l.tested = "new" THEN s + c ELSE s)
  BY <1>1 DEF FirstTested
<1>10. /\ c > 0 => D = e - f + (IF l.predicate = "SGT" THEN c ELSE 0)
       /\ c < 0 => D = f - e
  BY <1>1, <1>2 DEF Distance
<1>11. /\ l.predicate \in {"SGT", "EQ", "SLT", "switch"}
       /\ l.predicate \in {"SGT", "SLT"} => c > 0
  BY <1>1, MeantParts
<1>12. w = f + p
  BY <1>1
<1>13. ASSUME NEW h \in {l.half, l.compared}
       PROVE  -h <= w /\ w < h
  <2>1. Bounded(l, h) /\ h \in Nat
    BY <1>2, MeantNumbers
  <2>2. -h <= s /\ s < h /\ -h <= e /\ e < h /\ -h <= s + c /\ s + c < h /\ -h <= e + c /\ e + c < h
    BY <1>1, <2>1 DEF Bounded
  <2>3. -h <= f /\ f < h
    BY <1>9, <2>2
  <2>4. CASE c > 0
    <3>1. p >= 0 /\ w >= f
      BY <1>2, <1>3, <1>4, <1>5, <1>12, <2>4
    <3>2. w < e + c \/ w <= e \/ w <= e + c
      BY <1>2, <1>3, <1>4, <1>6, <1>7, <1>10, <1>12, <2>4
    <3>3. QED BY <1>2, <1>3, <1>12, <2>1, <2>2, <2>3, <2>4, <3>1, <3>2
  <2>5. CASE c < 0
    <3>1. w <= f
      BY <1>2, <1>3, <1>4, <1>5, <1>12, <2>5
    <3>2. q <= D
      BY <1>2, <1>7, <1>11, <2>5
    <3>3. w >= e
      BY <1>2, <1>3, <1>4, <1>6, <1>10, <1>12, <2>5, <3>2
    <3>4. QED BY <1>2, <1>3, <1>12, <2>1, <2>2, <2>3, <3>1, <3>3
  <2>6. QED BY <1>2, <2>4, <2>5
<1>14. l.unsigned => w >= 0
  <2>1. l.unsigned => s >= 0 /\ c > 0
    BY <1>1, MeantNumbers
  <2>2. QED BY <1>2, <1>3, <1>4, <1>5, <1>9, <1>12, <2>1
<1>15. l.predicate = "SGT" => (w > e <=> AtEnd(l, t))
  BY <1>2, <1>3, <1>4, <1>6, <1>8, <1>10, <1>11, <1>12
<1>16. l.predicate = "SLT" => (~(w < e) <=> AtEnd(l, t))
  BY <1>2, <1>3, <1>4, <1>6, <1>8, <1>10, <1>11, <1>12
<1>17. l.predicate \in {"EQ", "switch"} => (w = e <=> AtEnd(l, t))
  <2>1. l.predicate \in {"EQ", "switch"} => l.predicate # "SGT" /\ l.predicate # "SLT"
    OBVIOUS
  <2>2. CASE c > 0
    BY <1>2, <1>3, <1>4, <1>6, <1>8, <1>10, <1>12, <2>1, <2>2
  <2>3. CASE c < 0
    BY <1>2, <1>3, <1>4, <1>6, <1>8, <1>10, <1>12, <2>1, <2>3
  <2>4. QED BY <1>2, <2>2, <2>3
<1>18. w \in Int /\ p \in Int
  BY <1>2, <1>3, <1>12
<1>19. QED BY <1>1, <1>13, <1>14, <1>15, <1>16, <1>17, <1>18

(* where some round compares the end, the distance is a number of strides *)
LEMMA WholeStrides ==
  ASSUME NEW l \in LoopForms, FormIsKnown(l), IsMeant(l), Step(l) # 0, MeetsEnd(l)
  PROVE  \E k \in Int : k * Stride(l) = Distance(l)
<1>1. PICK s, e, c, S, D, n, g :
        /\ s = l.start /\ e = l.end /\ c = Step(l) /\ D = Distance(l) /\ S = Stride(l)
        /\ n = (IF l.tested = "new" THEN 1 ELSE 0)
        /\ g = (IF l.predicate = "SGT" THEN 1 ELSE 0)
  OBVIOUS
<1>2. /\ s \in Int /\ e \in Int /\ c \in Int /\ c # 0
      /\ S \in Nat \ {0} /\ n \in {0, 1} /\ g \in {0, 1}
  BY <1>1, LoopParts, MeantNumbers
<1>3. S = (IF c > 0 THEN c ELSE -c)
  BY <1>1 DEF Stride
<1>4. (e - s) % S = 0
  BY <1>1, <1>3 DEF MeetsEnd
<1>5. PICK d \in Int : d = e - s
  BY <1>2
<1>6. PICK k \in Int : k * S = d
  <2>1. d = S * (d \div S) + (d % S) /\ d \div S \in Int /\ d % S = 0
    BY <1>2, <1>4, <1>5
  <2>2. S * (d \div S) = (d \div S) * S /\ (d \div S) * S \in Int
    BY <1>2, <2>1
  <2>3. QED BY <1>5, <2>1, <2>2
<1>7. \A k1, k2 \in Int : k1 * S \in Int /\ (k1 + 1) * S = k1 * S + S /\ (k1 - 1) * S = k1 * S - S
                          /\ (-k1) * S = -(k1 * S)
  BY <1>2
<1>8. FirstTested(l) = (IF n = 1 THEN s + c ELSE s)
  BY <1>1 DEF FirstTested
<1>9. /\ c > 0 => D = d - (IF n = 1 THEN S ELSE 0) + (IF g = 1 THEN S ELSE 0)
      /\ c < 0 => D = -d - (IF n = 1 THEN S ELSE 0)
  <2>1. l.predicate = "SGT" <=> g = 1
    BY <1>1
  <2>2. QED BY <1>1, <1>2, <1>3, <1>5, <1>8, <2>1 DEF Distance
<1>10. CASE c > 0
  <2>1. CASE n = g
    BY <1>1, <1>2, <1>5, <1>6, <1>9, <1>10, <2>1
  <2>2. CASE n = 1 /\ g = 0
    <3>1. (k - 1) * S = D
      BY <1>2, <1>5, <1>6, <1>7, <1>9, <1>10, <2>2
    <3>2. QED BY <1>1, <3>1
  <2>3. CASE n = 0 /\ g = 1
    <3>1. (k + 1) * S = D
      BY <1>2, <1>5, <1>6, <1>7, <1>9, <1>10, <2>3
    <3>2. QED BY <1>1, <3>1
  <2>4. QED BY <1>2, <2>1, <2>2, <2>3
<1>11. CASE c < 0
  <2>1. PICK m \in Int : m = -k
    OBVIOUS
  <2>2. m * S = -d
    BY <1>6, <1>7, <2>1
  <2>3. CASE n = 0
    BY <1>1, <1>2, <1>5, <1>9, <1>11, <2>2, <2>3
  <2>4. CASE n = 1
    <3>1. (m - 1) * S = D
      BY <1>2, <1>5, <1>7, <1>9, <1>11, <2>1, <2>2, <2>4
    <3>2. QED BY <1>1, <2>1, <3>1
  <2>5. QED BY <1>2, <2>3, <2>4
<1>12. QED BY <1>2, <1>10, <1>11

(* a round that does not leave is one more that has not come past the end *)
LEMMA Further ==
  ASSUME NEW l \in LoopForms, FormIsKnown(l), Countable(l), Step(l) # 0,
         NEW t \in Nat, NotPast(l, t), ~AtEnd(l, t)
  PROVE  NotPast(l, t + 1)
<1>1. PICK D, S : D = Distance(l) /\ S = Stride(l)
  OBVIOUS
<1>2. D \in Nat /\ S \in Nat \ {0} /\ IsMeant(l)
  BY <1>1, MeantNumbers DEF Countable
<1>3. l.predicate \in {"SGT", "EQ", "SLT", "switch"}
  BY <1>2, MeantParts
<1>4. t * S \in Int /\ (t + 1) * S = t * S + S
  BY <1>2, Product
<1>5. PICK q \in Int : q = t * S
  BY <1>4
<1>6. /\ l.predicate = "SLT" => q < D + S
      /\ l.predicate # "SLT" => q <= D
  BY <1>1, <1>5 DEF NotPast
<1>7. ~(/\ l.predicate = "SLT" => D <= q
        /\ l.predicate = "SGT" => D < q + S
        /\ l.predicate \in {"EQ", "switch"} => q = D)
  BY <1>1, <1>5 DEF AtEnd
<1>8. NotPast(l, t + 1) <=> /\ l.predicate = "SLT" => q + S < D + S
                            /\ l.predicate # "SLT" => q + S <= D
  BY <1>1, <1>4, <1>5 DEF NotPast
<1>9. CASE l.predicate = "SLT"
  BY <1>2, <1>7, <1>8, <1>9
<1>10. CASE l.predicate = "SGT"
  BY <1>2, <1>7, <1>8, <1>10
<1>11. CASE l.predicate \in {"EQ", "switch"}
  <2>1. MeetsEnd(l)
    BY <1>11 DEF Countable
  <2>2. PICK k \in Int : k * S = D
    BY <1>1, <1>2, <2>1, WholeStrides
  <2>3. q < D
    BY <1>2, <1>6, <1>7, <1>11
  <2>4. t * S + S <= k * S
    BY <1>2, <1>5, <2>2, <2>3, Fewer
  <2>5. QED BY <1>5, <1>8, <1>11, <2>2, <2>4
<1>12. QED BY <1>3, <1>9, <1>10, <1>11

(***************************************************************************)
(* The steps.                                                              *)
(***************************************************************************)
LEMMA LoopInitInv == LoopInit => LoopInv
<1> SUFFICES ASSUME LoopInit PROVE LoopInv
  OBVIOUS
<1>1. loop \in LoopForms /\ count = NotFound /\ iv = loop.start /\ taken = 0 /\ pc = "preheader"
  BY DEF LoopInit
<1>2. loop \in Loop /\ loop.start \in -loop.half .. loop.half - 1
  BY <1>1, LoopParts
<1>3. taken \in 0 .. MaxRounds
  BY <1>1, LoopsAssumption
<1>4. LoopTypeOK
  BY <1>1, <1>2, <1>3 DEF LoopTypeOK
<1>5. QED BY <1>1, <1>4 DEF LoopInv, CountInv, Begun

(* what a round finds *)
LEMMA RoundParts ==
  ASSUME LoopInv
  PROVE  /\ loop \in LoopForms /\ loop \in Loop /\ loop.half \in Nat \ {0}
         /\ iv \in -loop.half .. loop.half - 1 /\ iv \in Int
         /\ taken \in 0 .. MaxRounds /\ taken \in Nat
         /\ MaxRounds \in Nat
<1>1. loop \in LoopForms /\ LoopTypeOK
  BY DEF LoopInv
<1>2. loop \in Loop /\ loop.half \in Nat \ {0} /\ MaxRounds \in Nat
  BY <1>1, LoopParts, LoopsAssumption
<1>3. iv \in -loop.half .. loop.half - 1 /\ taken \in 0 .. MaxRounds
  BY <1>1 DEF LoopTypeOK
<1>4. QED BY <1>1, <1>2, <1>3

(* in a round of a loop that is counted right, the exit sees what AtEnd says *)
LEMMA RoundIs ==
  ASSUME LoopInv, pc = "round", Countable(loop), NEW c \in Changes
  PROVE  /\ c = Step(loop) /\ loop.others = {}
         /\ FormIsKnown(loop) /\ Step(loop) # 0
         /\ NotPast(loop, taken) /\ count = Distance(loop) \div Stride(loop)
         /\ iv = loop.start + taken * Step(loop)
         /\ Leaves(Tested(c)) <=> AtEnd(loop, taken)
<1>1. loop \in LoopForms /\ taken \in Nat /\ loop.half \in Nat \ {0} /\ iv \in Int
  BY RoundParts
<1>2. /\ FormIsKnown(loop) /\ Step(loop) # 0
      /\ NotPast(loop, taken) /\ count = Distance(loop) \div Stride(loop)
      /\ iv = loop.start + taken * Step(loop)
  BY DEF LoopInv, CountInv
<1>3. IsMeant(loop)
  BY DEF Countable
<1>4. loop.others = {} /\ c = Step(loop)
  BY <1>1, <1>2, <1>3, MeantParts DEF Changes
<1>5. PICK w : w = FirstTested(loop) + taken * Step(loop)
  OBVIOUS
<1>6. /\ w \in Int /\ taken * Step(loop) \in Int
      /\ -loop.half <= w /\ w < loop.half /\ -loop.compared <= w /\ w < loop.compared
      /\ loop.unsigned => w >= 0
      /\ loop.predicate = "SGT" => (w > loop.end <=> AtEnd(loop, taken))
      /\ loop.predicate = "SLT" => (~(w < loop.end) <=> AtEnd(loop, taken))
      /\ loop.predicate \in {"EQ", "switch"} => (w = loop.end <=> AtEnd(loop, taken))
  BY <1>1, <1>2, <1>3, <1>5, Compared
<1>7. /\ loop.compared \in Nat \ {0} /\ loop.start \in Int /\ Step(loop) \in Int
      /\ loop.predicate \in {"SGT", "EQ", "SLT", "switch"}
  BY <1>1, <1>2, <1>3, LoopParts, MeantParts
<1>8. w = (IF loop.tested = "new" THEN iv + c ELSE iv)
  <2>1. FirstTested(loop) = (IF loop.tested = "new" THEN loop.start + c ELSE loop.start)
    BY <1>4 DEF FirstTested
  <2>2. c \in Int
    BY <1>4, <1>7
  <2>3. QED BY <1>2, <1>5, <1>6, <1>7, <2>1, <2>2
<1>9. Tested(c) = w
  <2>1. (IF loop.tested = "new" THEN Wrap(iv + c, loop.half) ELSE iv) = w
    <3>1. Wrap(w, loop.half) = w
      BY <1>1, <1>6, WrapIs
    <3>2. QED BY <1>8, <3>1
  <2>2. Wrap(w, loop.compared) = w
    BY <1>6, <1>7, WrapIs
  <2>3. loop.unsigned => w % (2 * loop.half) = w
    <3>1. \A v \in Int, h \in Nat : 0 <= v /\ v < h => v % (2 * h) = v
      OBVIOUS
    <3>2. QED BY <1>1, <1>6, <3>1
  <2>4. QED BY <2>1, <2>2, <2>3 DEF Tested
<1>10. Leaves(w) <=> AtEnd(loop, taken)
  <2>1. CASE loop.predicate = "SGT"
    <3>1. Leaves(w) <=> w > loop.end
      BY <2>1 DEF Leaves
    <3>2. QED BY <1>6, <2>1, <3>1
  <2>2. CASE loop.predicate = "SLT"
    <3>1. Leaves(w) <=> ~(w < loop.end)
      BY <2>2 DEF Leaves
    <3>2. QED BY <1>6, <2>2, <3>1
  <2>3. CASE loop.predicate \in {"EQ", "switch"}
    <3>1. Leaves(w) <=> w = loop.end
      BY <2>3 DEF Leaves
    <3>2. QED BY <1>6, <2>3, <3>1
  <2>4. QED BY <1>7, <2>1, <2>2, <2>3
<1>11. QED BY <1>2, <1>4, <1>9, <1>10

LEMMA InsertInv == LoopInv /\ Insert => LoopInv'
<1> SUFFICES ASSUME LoopInv, Insert PROVE LoopInv'
  OBVIOUS
<1>1. /\ pc = "preheader" /\ FormIsKnown(loop) /\ AdjustType(Step(loop), loop.half) # 0
      /\ count' = insertTripCount(loop) /\ pc' = "round"
      /\ loop' = loop /\ iv' = iv /\ taken' = taken
  BY DEF Insert
<1>2. loop \in LoopForms /\ iv \in -loop.half .. loop.half - 1 /\ taken \in 0 .. MaxRounds
      /\ loop \in Loop
  BY RoundParts
<1>3. count' \in -Half .. Half - 1
  BY <1>1, <1>2, CountFits
<1>4. count' # NotFound
  <2>1. Half \in Int
    BY HalfAssumption
  <2>2. QED BY <1>3, <2>1, LoopsAssumption
<1>5. LoopTypeOK'
  <2>1. iv' \in -loop'.half .. loop'.half - 1 /\ taken' \in 0 .. MaxRounds /\ loop' \in Loop
    BY <1>1, <1>2
  <2>2. (count' = NotFound) = (pc' \in {"preheader", "unfound", "aborted"})
    BY <1>1, <1>4
  <2>3. QED BY <1>1, <1>3, <2>1, <2>2 DEF LoopTypeOK
<1>6. CountInv'
  <2>1. ASSUME Countable(loop)
        PROVE  /\ Step(loop) # 0 /\ count' = Distance(loop) \div Stride(loop)
               /\ iv = loop.start + taken * Step(loop)
               /\ NotPast(loop, taken)
    <3>1. IsMeant(loop)
      BY <2>1 DEF Countable
    <3>2. Step(loop) # 0
      BY <1>1, <1>2, <3>1, MeantParts
    <3>3. count' = Distance(loop) \div Stride(loop)
      BY <1>1, <1>2, <3>1, <3>2, CountIs
    <3>4. iv = loop.start /\ taken = 0
      BY <1>1 DEF LoopInv, Begun
    <3>5. loop.start \in Int /\ Step(loop) \in Int
      BY <1>2, LoopParts
    <3>6. iv = loop.start + taken * Step(loop)
      BY <3>4, <3>5
    <3>7. Distance(loop) \in Nat /\ Stride(loop) \in Nat \ {0}
      BY <1>1, <1>2, <3>1, <3>2, MeantNumbers
    <3>8. NotPast(loop, taken)
      BY <3>4, <3>7 DEF NotPast
    <3>9. QED BY <3>2, <3>3, <3>6, <3>8
  <2>2. pc' # "left"
    BY <1>1
  <2>3. FormIsKnown(loop') <=> FormIsKnown(loop)
    BY <1>1
  <2>4. QED BY <1>1, <2>1, <2>2 DEF CountInv, Begun
<1>7. QED BY <1>1, <1>2, <1>5, <1>6 DEF LoopInv, Begun

LEMMA UnfoundInv == LoopInv /\ (Unfound \/ Abort) => LoopInv'
<1> SUFFICES ASSUME LoopInv, Unfound \/ Abort PROVE LoopInv'
  OBVIOUS
<1>1. /\ pc = "preheader" /\ pc' \in {"unfound", "aborted"}
      /\ loop' = loop /\ count' = count /\ iv' = iv /\ taken' = taken
  BY DEF Unfound, Abort
<1>2. LoopTypeOK /\ loop \in LoopForms
  BY DEF LoopInv
<1>3. LoopTypeOK'
  BY <1>1, <1>2 DEF LoopTypeOK
<1>4. QED BY <1>1, <1>2, <1>3 DEF LoopInv, CountInv, Begun

LEMMA BreakInv == LoopInv /\ Break => LoopInv'
<1> SUFFICES ASSUME LoopInv, Break PROVE LoopInv'
  OBVIOUS
<1>1. /\ pc = "round" /\ pc' = "broke"
      /\ loop' = loop /\ count' = count /\ iv' = iv /\ taken' = taken
  BY DEF Break
<1>2. LoopTypeOK /\ loop \in LoopForms /\ CountInv
  BY DEF LoopInv
<1>3. LoopTypeOK'
  BY <1>1, <1>2 DEF LoopTypeOK
<1>4. CountInv'
  BY <1>1, <1>2 DEF CountInv
<1>5. QED BY <1>1, <1>2, <1>3, <1>4 DEF LoopInv, Begun

LEMMA StayInv == ASSUME NEW c \in Changes PROVE LoopInv /\ Stay(c) => LoopInv'
<1> SUFFICES ASSUME LoopInv, Stay(c) PROVE LoopInv'
  OBVIOUS
<1>1. /\ pc = "round" /\ taken < MaxRounds /\ ~Leaves(Tested(c))
      /\ iv' = Wrap(iv + c, loop.half) /\ taken' = taken + 1
      /\ loop' = loop /\ count' = count /\ pc' = pc
  BY DEF Stay
<1>2. /\ loop \in LoopForms /\ loop \in Loop /\ loop.half \in Nat \ {0}
      /\ iv \in Int /\ taken \in 0 .. MaxRounds /\ taken \in Nat /\ MaxRounds \in Nat
  BY RoundParts
<1>3. c \in Int
  <2>1. Range(loop.steps) \subseteq Int
    BY <1>2, LoopParts
  <2>2. QED BY <2>1 DEF Changes
<1>4. iv' \in -loop.half .. loop.half - 1
  BY <1>1, <1>2, <1>3, WrapIs
<1>5. LoopTypeOK'
  <2>1. taken' \in 0 .. MaxRounds
    BY <1>1, <1>2
  <2>2. LoopTypeOK
    BY DEF LoopInv
  <2>3. QED BY <1>1, <1>4, <2>1, <2>2 DEF LoopTypeOK
<1>6. CountInv'
  <2>1. ASSUME Countable(loop)
        PROVE  /\ Step(loop) # 0 /\ count = Distance(loop) \div Stride(loop)
               /\ iv' = loop.start + taken' * Step(loop)
               /\ NotPast(loop, taken')
    <3>1. /\ c = Step(loop) /\ FormIsKnown(loop) /\ Step(loop) # 0
          /\ NotPast(loop, taken) /\ count = Distance(loop) \div Stride(loop)
          /\ iv = loop.start + taken * Step(loop)
          /\ ~AtEnd(loop, taken)
      BY <1>1, <2>1, RoundIs
    <3>2. NotPast(loop, taken + 1)
      BY <1>2, <2>1, <3>1, Further
    <3>3. loop.start \in Int /\ Step(loop) \in Int
      BY <1>2, LoopParts
    <3>4. iv + c = loop.start + (taken + 1) * Step(loop) /\ taken * Step(loop) \in Int
      <4>1. (taken + 1) * Step(loop) = taken * Step(loop) + Step(loop) /\ taken * Step(loop) \in Int
        BY <1>2, <3>3, Product
      <4>2. QED BY <3>1, <3>3, <4>1
    <3>5. -loop.half <= iv + c /\ iv + c < loop.half
      <4>1. IsMeant(loop)
        BY <2>1 DEF Countable
      <4>2. FirstTested(loop) = (IF loop.tested = "new" THEN loop.start + c ELSE loop.start)
        BY <3>1 DEF FirstTested
      <4>3. CASE loop.tested = "new"
        <5>1. iv + c = FirstTested(loop) + taken * Step(loop)
          BY <3>1, <3>3, <3>4, <4>2, <4>3
        <5>2. QED BY <1>2, <3>1, <4>1, <5>1, Compared
      <4>4. CASE loop.tested # "new"
        <5>1. iv + c = FirstTested(loop) + (taken + 1) * Step(loop)
          BY <3>4, <4>2, <4>4
        <5>2. taken + 1 \in Nat
          BY <1>2
        <5>3. QED BY <1>2, <3>1, <3>2, <4>1, <5>1, <5>2, Compared
      <4>5. QED BY <4>3, <4>4
    <3>6. iv' = iv + c
      BY <1>1, <1>2, <1>3, <3>5, WrapIs
    <3>7. QED BY <1>1, <3>1, <3>2, <3>4, <3>6
  <2>2. FormIsKnown(loop)
    BY <1>1 DEF LoopInv, CountInv
  <2>3. QED BY <1>1, <2>1, <2>2 DEF CountInv
<1>7. QED BY <1>1, <1>2, <1>5, <1>6 DEF LoopInv, Begun

LEMMA LeaveInv == ASSUME NEW c \in Changes PROVE LoopInv /\ Leave(c) => LoopInv'
<1> SUFFICES ASSUME LoopInv, Leave(c) PROVE LoopInv'
  OBVIOUS
<1>1. /\ pc = "round" /\ Leaves(Tested(c)) /\ pc' = "left"
      /\ loop' = loop /\ count' = count /\ iv' = iv /\ taken' = taken
  BY DEF Leave
<1>2. LoopTypeOK /\ loop \in LoopForms /\ CountInv
  BY DEF LoopInv
<1>3. LoopTypeOK'
  BY <1>1, <1>2 DEF LoopTypeOK
<1>4. CountInv'
  <2>1. Countable(loop) => AtEnd(loop, taken)
    BY <1>1, RoundIs
  <2>2. QED BY <1>1, <1>2, <2>1 DEF CountInv
<1>5. QED BY <1>1, <1>2, <1>3, <1>4 DEF LoopInv, Begun

LEMMA StoreInv == ASSUME NEW v \in loop.others PROVE LoopInv /\ Store(v) => LoopInv'
<1> SUFFICES ASSUME LoopInv, Store(v) PROVE LoopInv'
  OBVIOUS
<1>1. /\ pc = "round" /\ iv' = v
      /\ loop' = loop /\ count' = count /\ taken' = taken /\ pc' = pc
  BY DEF Store
<1>2. LoopTypeOK /\ loop \in LoopForms /\ CountInv
  BY DEF LoopInv
<1>3. v \in -loop.half .. loop.half - 1
  BY <1>2, LoopParts
<1>4. LoopTypeOK'
  BY <1>1, <1>2, <1>3 DEF LoopTypeOK
<1>5. ~Countable(loop)
  BY DEF Countable, IsMeant, OneChange
<1>6. CountInv'
  BY <1>1, <1>2, <1>5 DEF CountInv
<1>7. QED BY <1>1, <1>2, <1>4, <1>6 DEF LoopInv, Begun

THEOREM LoopAlways == LoopSpec => []LoopInv
<1>1. LoopInv /\ [LoopNext]_loopVars => LoopInv'
  <2> SUFFICES ASSUME LoopInv, [LoopNext]_loopVars PROVE LoopInv'
    OBVIOUS
  <2>1. CASE Insert
    BY <2>1, InsertInv
  <2>2. CASE Unfound \/ Abort
    BY <2>2, UnfoundInv
  <2>3. CASE Break
    BY <2>3, BreakInv
  <2>4. ASSUME NEW c \in Changes, Stay(c) PROVE LoopInv'
    BY <2>4, StayInv
  <2>5. ASSUME NEW c \in Changes, Leave(c) PROVE LoopInv'
    BY <2>5, LeaveInv
  <2>6. ASSUME NEW v \in loop.others, Store(v) PROVE LoopInv'
    BY <2>6, StoreInv
  <2>7. CASE UNCHANGED loopVars
    <3>1. loop' = loop /\ count' = count /\ iv' = iv /\ taken' = taken /\ pc' = pc
      BY <2>7 DEF loopVars
    <3>2. LoopTypeOK' /\ CountInv' /\ Begun'
      BY <3>1 DEF LoopInv, LoopTypeOK, CountInv, Begun
    <3>3. QED BY <3>1, <3>2 DEF LoopInv
  <2>8. QED BY <2>1, <2>2, <2>3, <2>4, <2>5, <2>6, <2>7 DEF LoopNext
<1>2. QED BY <1>1, LoopInitInv, PTL DEF LoopSpec

THEOREM LoopTypeAlways == LoopSpec => []LoopTypeOK
<1>1. LoopInv => LoopTypeOK
  BY DEF LoopInv
<1>2. QED BY <1>1, LoopAlways, PTL

(***************************************************************************)
(* The count.                                                              *)
(***************************************************************************)
LEMMA CountBounds ==
  ASSUME LoopInv, pc \in {"round", "left", "broke"}, Countable(loop)
  PROVE  /\ taken <= count + 1
         /\ pc = "left" => count <= taken
         /\ pc = "left" /\ (MeetsEnd(loop) \/ loop.predicate = "SGT") => count = taken
<1>1. PICK D, S, q, t : D = Distance(loop) /\ S = Stride(loop) /\ q = count /\ t = taken
  OBVIOUS
<1>2. loop \in LoopForms /\ t \in Nat
  BY <1>1, RoundParts
<1>3. /\ FormIsKnown(loop) /\ IsMeant(loop) /\ Step(loop) # 0
      /\ q = D \div S /\ NotPast(loop, t) /\ (pc = "left" => AtEnd(loop, t))
  BY <1>1 DEF LoopInv, CountInv, Countable
<1>4. D \in Nat /\ S \in Nat \ {0} /\ loop.predicate \in {"SGT", "EQ", "SLT", "switch"}
  BY <1>1, <1>2, <1>3, MeantNumbers, MeantParts
<1>5. q \in Int /\ q * S \in Int /\ q * S <= D /\ D < q * S + S
  BY <1>3, <1>4, Quotient
<1>6. /\ t * S \in Int
      /\ loop.predicate = "SLT" => t * S < D + S
      /\ loop.predicate # "SLT" => t * S <= D
  <2>1. t * S \in Int
    BY <1>2, <1>4, Product
  <2>2. QED BY <1>1, <1>3, <2>1 DEF NotPast
<1>7. (q + 1) * S = q * S + S /\ (q + 2) * S = q * S + S + S /\ (t + 1) * S = t * S + S
  <2>1. \A x \in Int : (x + 1) * S = x * S + S /\ (x + 2) * S = x * S + S + S
    BY <1>4
  <2>2. QED BY <1>2, <1>5, <2>1
<1>8. t <= q + 1
  <2>1. t * S < (q + 2) * S
    BY <1>4, <1>5, <1>6, <1>7
  <2>2. t < q + 2
    <3>1. q + 2 \in Int
      BY <1>5
    <3>2. QED BY <1>2, <1>4, <2>1, <3>1, Fewer
  <2>3. QED BY <1>2, <1>5, <2>2
<1>9. ASSUME pc = "left"
      PROVE  /\ q <= t
             /\ MeetsEnd(loop) \/ loop.predicate = "SGT" => q = t
  <2>1. /\ loop.predicate = "SLT" => D <= t * S
        /\ loop.predicate = "SGT" => D < t * S + S
        /\ loop.predicate \in {"EQ", "switch"} => t * S = D
    BY <1>1, <1>3, <1>9 DEF AtEnd
  <2>2. q <= t
    <3>1. q * S < (t + 1) * S
      BY <1>4, <1>5, <1>6, <1>7, <2>1
    <3>2. q < t + 1
      <4>1. t + 1 \in Int
        BY <1>2
      <4>2. QED BY <1>4, <1>5, <3>1, <4>1, Fewer
    <3>3. QED BY <1>2, <1>5, <3>2
  <2>3. ASSUME t * S < q * S + S PROVE q = t
    <3>1. t * S < (q + 1) * S
      BY <1>7, <2>3
    <3>2. t < q + 1
      <4>1. q + 1 \in Int
        BY <1>5
      <4>2. QED BY <1>2, <1>4, <3>1, <4>1, Fewer
    <3>3. QED BY <1>2, <1>5, <2>2, <3>2
  <2>4. CASE loop.predicate # "SLT"
    BY <1>4, <1>5, <1>6, <2>2, <2>3, <2>4
  <2>5. CASE loop.predicate = "SLT" /\ MeetsEnd(loop)
    <3>1. PICK k \in Int : k * S = D
      BY <1>1, <1>2, <1>3, <2>5, WholeStrides
    <3>2. k * S < (q + 1) * S
      BY <1>5, <1>7, <3>1
    <3>3. k * S + S <= (q + 1) * S
      <4>1. q + 1 \in Int
        BY <1>5
      <4>2. QED BY <1>4, <3>1, <3>2, <4>1, Fewer
    <3>4. t * S < q * S + S
      <4>1. k * S \in Int
        BY <1>4, <3>1
      <4>2. D <= q * S
        BY <1>4, <1>5, <1>7, <3>1, <3>3
      <4>3. QED BY <1>4, <1>5, <1>6, <2>5, <4>2
    <3>5. QED BY <2>2, <2>3, <3>4
  <2>6. QED BY <2>2, <2>4, <2>5
<1>10. QED BY <1>1, <1>8, <1>9

THEOREM CountExactAlways == LoopSpec => []CountIsExact
<1>1. LoopInv => CountIsExact
  BY CountBounds DEF CountIsExact, Countable
<1>2. QED BY <1>1, LoopAlways, PTL

THEOREM CountCloseAlways == LoopSpec => []CountIsClose
<1>1. LoopInv => CountIsClose
  BY CountBounds DEF CountIsClose, Countable
<1>2. QED BY <1>1, LoopAlways, PTL

----------------------------------------------------------------------------
(***************************************************************************)
(* The types of PerformPred.  No ratio divides by 0, as every view port is *)
(* a block LLVM knows the frequency of; and the numbers in the names stay  *)
(* within bounds, as a pass adds one count for a loop at most.             *)
(***************************************************************************)
(* a value whose record has the fields of one *)
HasWidth(v) == Valued(v) /\ IsValue(v)

(* a block LLVM knows the frequency of *)
Sighted(b) == b \in DOMAIN prog.nest /\ getBlockFreq(b) # 0

CacheTypes ==
  /\ DOMAIN LoopMap \subseteq Addresses
  /\ preheaders \subseteq Loops
  /\ valid \in BOOLEAN
  /\ pass \in {"none", "insert", "perform"}
  /\ passes \in 0 .. MaxPasses
  /\ pass # "none" => passes # 0

(* a pass adds one count for a loop at most *)
Room ==
  IF pass = "none" THEN Cardinality(Loops) * passes
                   ELSE Cardinality(Loops) * (passes - 1) + (at - 1)

CountsFit ==
  /\ Cardinality(DOMAIN placed) <= Room
  /\ \A c \in DOMAIN placed :
       placed[c] \in Blocks /\ c.name[2] \in 0 .. Cardinality(Loops) * MaxPasses
  /\ valid => \A k \in 1 .. Len(prog.order) :
       TripCountAt(k) # None => TripCountAt(k).of \in theLoops

ViewsFit ==
  \A l \in DOMAIN ViewPort :
    Sighted(ViewPort[l].first) /\ HasWidth(ViewPort[l].second) /\ HasWidth(ViewPort[l].third)

PredictionsFit ==
  \A b \in DOMAIN prediction :
    b \in Blocks /\ prediction[b].at \in Blocks /\ IsValue(prediction[b].freq)

TypeInv == CacheTypes /\ CountsFit /\ ViewsFit /\ PredictionsFit /\ seen \subseteq Loops

IsRatio(p) == p.n \in Nat /\ p.d \in Nat \ {0} /\ p.exact \in BOOLEAN

(***************************************************************************)
(* The arithmetic once more, for values that may be rounded.               *)
(***************************************************************************)
LEMMA WrapFits == ASSUME NEW x \in Int PROVE Wrap(x, Half) \in -Half .. Half - 1
BY WrapIs, HalfAssumption

LEMMA ValueFits ==
  ASSUME NEW k \in Nat, k < Half
  PROVE  HasWidth(Value(k))
<1>1. Value(k).n = k /\ Value(k).on = None /\ Value(k).exact = TRUE /\ Valued(Value(k))
  BY ValueRight DEF Value
<1>2. k \in -Half .. Half - 1
  BY HalfAssumption
<1>3. QED BY <1>1, <1>2 DEF HasWidth, IsValue

LEMMA ShiftFits ==
  ASSUME NEW h \in Nat
  PROVE  ShiftOf(h) = 1 \/ ShiftOf(h) <= 2 * h
<1> DEFINE S == {b \in 1 .. 2 * h : \E k \in 0 .. h : b = 2^(k + 1)} \cup {1}
<1>1. S \subseteq 0 .. 2 * h + 1 /\ S # {} /\ 2 * h + 1 \in Nat
  <2>1. S \subseteq 1 .. 2 * h + 1
    OBVIOUS
  <2>2. S # {}
    OBVIOUS
  <2> HIDE DEF S
  <2>3. 1 .. 2 * h + 1 \subseteq 0 .. 2 * h + 1
    OBVIOUS
  <2>4. QED BY <2>1, <2>2, <2>3
<1>2. ShiftOf(h) = Max(S)
  BY DEF ShiftOf
<1>3. \A x \in S : x = 1 \/ x <= 2 * h
  OBVIOUS
<1> HIDE DEF S
<1>4. Max(S) \in S
  BY <1>1, Largest
<1>5. QED BY <1>2, <1>3, <1>4

LEMMA Shrunk ==
  ASSUME NEW a \in Nat, NEW k \in Nat \ {0}
  PROVE  (a \div k) \in Nat /\ (a >= k => (a \div k) # 0)
<1>1. a \div k \in Int /\ (a \div k) * k <= a /\ a < (a \div k) * k + k
  BY Quotient
<1>2. PICK q : q = a \div k
  OBVIOUS
<1>3. q \in Nat
  BY <1>2
<1>4. a < q * k + k
  BY <1>1, <1>2
<1>5. q = 0 => a < k
  BY <1>4
<1>6. QED BY <1>2, <1>3, <1>5

(* the greater of two frequencies is not 2^31 times the smaller *)
LEMMA RatioFits ==
  ASSUME NEW to \in Nat, NEW from \in Nat \ {0}, 2 * to <= Word * from, 2 <= Word
  PROVE  IsRatio(Ratio(to, from))
<1> DEFINE high == Max({to, from}) \div Word
           bit == ShiftOf(high)
           a == to \div bit
           b == from \div bit
           e == to % bit = 0 /\ from % bit = 0
           p == [n |-> a, d |-> b, exact |-> e]
           g == IF p.n = 0 \/ p.d = 0 THEN 1 ELSE GCD(p.n, p.d)
<1>1. high \in Nat /\ 2 * high <= from
  <2>1. Max({to, from}) \in {to, from}
    <3> DEFINE S == {to, from}
    <3>1. S \subseteq 0 .. to + from /\ S # {} /\ to + from \in Nat
      OBVIOUS
    <3> HIDE DEF S
    <3>2. Max(S) \in S
      BY <3>1, Largest
    <3>3. QED BY <3>2 DEF S
  <2>2. PICK m : m = Max({to, from})
    OBVIOUS
  <2>3. m \in Nat /\ 2 * m <= Word * from
    <3>1. 2 * from <= Word * from
      BY WordAssumption
    <3>2. QED BY <2>1, <2>2, <3>1
  <2>4. PICK q : q = m \div Word
    OBVIOUS
  <2>5. q \in Nat /\ q * Word <= m
    <3>1. Word \in Int /\ Word > 0
      BY WordAssumption
    <3>2. QED BY <2>3, <2>4, <3>1, Quotient, Shrunk, WordAssumption
  <2>6. 2 * q <= from
    <3>1. Word * (2 * q) <= Word * from
      <4>1. Word * (2 * q) = 2 * (q * Word)
        BY <2>5, WordAssumption
      <4>2. QED BY <2>3, <2>5, <4>1, WordAssumption
    <3>2. ASSUME NEW x \in Int, NEW y \in Int, NEW w \in Nat \ {0}, w * x <= w * y
          PROVE  x <= y
      <4>1. SUFFICES ASSUME x >= y + 1 PROVE FALSE
        OBVIOUS
      <4>2. w * x >= w * (y + 1)
        BY <4>1
      <4>3. w * (y + 1) = w * y + w
        OBVIOUS
      <4>4. QED BY <3>2, <4>2, <4>3
    <3>3. 2 * q \in Int
      BY <2>5
    <3>4. QED BY <3>1, <3>2, <3>3, WordAssumption
  <2>7. high = q
    BY <2>2, <2>4
  <2>8. QED BY <2>5, <2>6, <2>7
<1> HIDE DEF high
<1>2. bit \in Nat \ {0} /\ from >= bit
  <2>1. bit \in Nat \ {0} /\ (bit = 1 \/ bit <= 2 * high)
    BY <1>1, ShiftIs, ShiftFits
  <2> HIDE DEF bit
  <2>2. QED BY <1>1, <2>1
<1> HIDE DEF bit
<1>3. a \in Nat /\ b \in Nat \ {0}
  BY <1>2, Shrunk
<1>4. scale(p) = [p EXCEPT !.n = @ \div g, !.d = @ \div g]
  BY DEF scale
<1>5. Ratio(to, from) = scale(p)
  BY DEF Ratio, bit, high
<1>6. e \in BOOLEAN
  OBVIOUS
<1>7. g = IF a = 0 \/ b = 0 THEN 1 ELSE GCD(a, b)
  OBVIOUS
<1>8. scale(p) = [n |-> a \div g, d |-> b \div g, exact |-> e]
  <2>1. p.n = a /\ p.d = b
    OBVIOUS
  <2> HIDE DEF g, a, b, e
  <2>2. QED BY <1>4, <2>1
<1> HIDE DEF a, b, g, e
<1>9. g \in Nat \ {0} /\ b % g = 0
  <2>1. CASE a = 0
    <3>1. g = 1
      BY <1>7, <2>1
    <3>2. QED BY <1>3, <3>1
  <2>2. CASE a # 0
    <3>1. g = GCD(a, b)
      BY <1>3, <1>7, <2>2
    <3>2. QED BY <1>3, <2>2, <3>1, DivisorRight
  <2>3. QED BY <2>1, <2>2
<1>10. (a \div g) \in Nat /\ (b \div g) \in Nat \ {0}
  BY <1>3, <1>9, DivExact, Shrunk
<1> DEFINE x == a \div g
           y == b \div g
<1> HIDE DEF x, y
<1>11. Ratio(to, from) = [n |-> x, d |-> y, exact |-> e]
  BY <1>5, <1>8 DEF x, y
<1>12. x \in Nat /\ y \in Nat \ {0}
  BY <1>10 DEF x, y
<1>13. QED BY <1>6, <1>11, <1>12 DEF IsRatio

LEMMA CreateMulFits ==
  ASSUME NEW v, HasWidth(v), NEW p, IsRatio(p)
  PROVE  HasWidth(CreateMul(v, p))
<1>1. v = [n |-> v.n, on |-> v.on, exact |-> v.exact] /\ v.n \in -Half .. Half - 1
      /\ v.on \in Nat \cup {None} /\ v.exact \in BOOLEAN
  BY DEF HasWidth, Valued, IsValue
<1>2. p.n \in Nat /\ p.d \in Nat \ {0} /\ p.exact \in BOOLEAN
  BY DEF IsRatio
<1>3. CASE p.n = p.d
  <2>1. CreateMul(v, p) = [v EXCEPT !.exact = @ /\ p.exact]
    BY <1>3 DEF CreateMul
  <2> DEFINE e == v.exact /\ p.exact
  <2>2. CreateMul(v, p) = [n |-> v.n, on |-> v.on, exact |-> e]
    BY <1>1, <2>1
  <2>3. e \in BOOLEAN
    OBVIOUS
  <2> HIDE DEF e
  <2>4. CreateMul(v, p).n = v.n /\ CreateMul(v, p).on = v.on /\ CreateMul(v, p).exact = e
    BY <2>2
  <2>5. QED BY <1>1, <2>2, <2>3, <2>4 DEF HasWidth, Valued, IsValue
<1>4. CASE p.n # p.d
  <2> DEFINE q == IF p.n > Square THEN FMul(v.n, Double(p.n, p.d))
                                  ELSE SDiv(Wrap(v.n * p.n, Half), p.d)
             w == Wrap(q, Half)
             x == v.exact /\ p.exact /\ q * p.d = v.n * p.n /\ w = q
  <2>1. CreateMul(v, p) = [v EXCEPT !.n = w, !.exact = x]
    BY <1>4 DEF CreateMul
  <2>2. w \in -Half .. Half - 1
    <3>1. v.n \in Int /\ v.n * p.n \in Int
      <4>1. v.n \in Int
        BY <1>1, HalfAssumption
      <4>2. QED BY <1>2, <4>1
    <3>2. Wrap(v.n * p.n, Half) \in Int
      BY <3>1, WrapFits, HalfAssumption
    <3>3. q \in Int
      <4>1. SDiv(Wrap(v.n * p.n, Half), p.d) \in Int
        BY <1>2, <3>2, SDivInt
      <4>2. FMul(v.n, Double(p.n, p.d)) \in Int
        BY <1>2, <3>1, FMulInt
      <4>3. QED BY <4>1, <4>2
    <3> HIDE DEF q
    <3>4. QED BY <3>3, WrapFits
  <2>3. x \in BOOLEAN
    OBVIOUS
  <2> HIDE DEF w, x
  <2>4. CreateMul(v, p) = [n |-> w, on |-> v.on, exact |-> x]
    BY <1>1, <2>1
  <2>5. CreateMul(v, p).n = w /\ CreateMul(v, p).on = v.on /\ CreateMul(v, p).exact = x
    BY <2>4
  <2>6. QED BY <1>1, <2>2, <2>3, <2>4, <2>5 DEF HasWidth, Valued, IsValue
<1>5. QED BY <1>3, <1>4

LEMMA MulFits ==
  ASSUME NEW v, HasWidth(v), NEW w, HasWidth(w)
  PROVE  HasWidth(Mul(v, w))
<1> DEFINE a == Wrap(v.n * w.n, Half)
           o == IF v.on = None THEN w.on ELSE v.on
           e == v.exact /\ w.exact /\ a = v.n * w.n
<1>1. Mul(v, w) = [n |-> a, on |-> o, exact |-> e]
  BY DEF Mul
<1>2. a \in -Half .. Half - 1
  <2>1. v.n \in Int /\ w.n \in Int
    BY HalfAssumption DEF HasWidth, IsValue
  <2>2. v.n * w.n \in Int
    BY <2>1
  <2>3. QED BY <2>2, WrapFits
<1>3. o \in Nat \cup {None}
  BY DEF HasWidth, IsValue
<1>4. e \in BOOLEAN
  OBVIOUS
<1> HIDE DEF a, o, e
<1>5. Mul(v, w).n = a /\ Mul(v, w).on = o /\ Mul(v, w).exact = e
  BY <1>1
<1>6. QED BY <1>1, <1>2, <1>3, <1>4, <1>5 DEF HasWidth, Valued, IsValue

(***************************************************************************)
(* A ratio divides by the frequency of a block LLVM knows.                 *)
(***************************************************************************)
LEMMA SightedBlocks ==
  ASSUME prog \in Programs
  PROVE  /\ Sighted(prog.entry)
         /\ \A l \in theLoops :
              Sighted(prog.header[l]) /\ (l \notin unseen => Sighted(prog.pre[l]))
         /\ \A b \in DOMAIN prog.nest :
              getBlockFreq(b) \in Nat /\ getBlockFreq(b) \in {0, prog.freq[b]}
<1>1. \A b \in DOMAIN prog.nest : prog.freq[b] \in Nat \ {0}
  BY BlocksRight
<1>2. Sighted(prog.entry)
  BY <1>1, BlocksRight DEF Sighted
<1>3. \A l \in theLoops :
        Sighted(prog.header[l]) /\ (l \notin unseen => Sighted(prog.pre[l]))
  BY <1>1, BlocksRight DEF Sighted, in_freq
<1>4. \A b \in DOMAIN prog.nest :
        getBlockFreq(b) \in Nat /\ getBlockFreq(b) \in {0, prog.freq[b]}
  BY <1>1 DEF getBlockFreq
<1>5. QED BY <1>2, <1>3, <1>4

LEMMA FrequenciesFit ==
  ASSUME prog \in Programs, Sized(prog), NEW a \in DOMAIN prog.nest, NEW c, Sighted(c)
  PROVE  /\ IsRatio(Ratio(getBlockFreq(a), getBlockFreq(c)))
         /\ IsRatio(getPathProb(c, getBlockFreq(a)))
<1>1. c \in DOMAIN prog.nest /\ getBlockFreq(c) # 0
  BY DEF Sighted
<1>2. PICK to, from, f : to = getBlockFreq(a) /\ from = getBlockFreq(c) /\ f = prog.freq[a]
  OBVIOUS
<1>3. /\ to \in Nat /\ to \in {0, f} /\ f \in Nat
      /\ from \in Nat \ {0} /\ from = prog.freq[c]
  <2>1. f \in Nat
    BY <1>2, BlocksRight
  <2>2. QED BY <1>1, <1>2, <2>1, SightedBlocks
<1>4. 2 * f <= Word * from /\ 2 * from <= Word * from
  BY <1>1, <1>2, <1>3 DEF Sized
<1>5. 2 * to <= Word * from
  <2>1. 0 <= Word * from
    BY <1>3, WordAssumption
  <2>2. QED BY <1>3, <1>4, <2>1
<1>6. 2 <= Word
  <2>1. SUFFICES ASSUME Word = 1 PROVE FALSE
    BY WordAssumption
  <2>2. QED BY <1>3, <1>4, <2>1
<1>7. IsRatio(Ratio(to, from))
  BY <1>3, <1>5, <1>6, RatioFits
<1>8. QED BY <1>2, <1>7 DEF getPathProb

LEMMA NeedsSighted ==
  ASSUME prog \in Programs, Sized(prog), NEW l \in theLoops, NEW d \in prog.needs[l]
  PROVE  Sighted(d)
<1>1. Dominance(prog) /\ Nesting(prog) /\ Enclosing(prog)
  BY ProgramsAssumption
<1>2. PICK k \in DOMAIN prog.order : l = prog.order[k]
  BY DEF theLoops, Range
<1>3. prog.pre[l] \in DOMAIN prog.dom /\ d \in prog.dom[prog.pre[l]]
  BY <1>1, <1>2 DEF Nesting
<1>4. d \in DOMAIN prog.nest
  BY <1>1, <1>3 DEF Dominance, Enclosing
<1>5. \A m \in unseen : prog.pre[m] # d
  BY DEF Sized, theLoops, unseen
<1>6. getBlockFreq(d) = prog.freq[d]
  BY <1>5 DEF getBlockFreq
<1>7. prog.freq[d] # 0
  BY <1>4, BlocksRight
<1>8. QED BY <1>4, <1>6, <1>7 DEF Sighted

LEMMA PortSighted ==
  ASSUME CacheInv, Nested, ViewedSoFar, ViewsFit, valid, Numbered, Sized(prog),
         at <= Len(prog.order)
  PROVE  Sighted(E_V(Here))
<1> DEFINE l == Here
<1>1. prog \in Programs /\ l \in theLoops
  BY TheLoops DEF CacheInv, Here
<1>2. E_V(l) \in depends(l) \cup {prog.entry}
  BY PortRight
<1>3. ASSUME NEW d \in depends(l) PROVE Sighted(d)
  <2>1. CASE d \in prog.needs[l]
    BY <1>1, <2>1, NeedsSighted
  <2>2. CASE d \notin prog.needs[l]
    <3>1. Len(Nest(l)) > 1 /\ d = ViewPort[Nest(l)[2]].first
      BY <2>2 DEF depends
    <3>2. Nest(l)[2] \in DOMAIN ViewPort
      BY <3>1, OuterViewed
    <3>3. QED BY <3>1, <3>2 DEF ViewsFit
  <2>3. QED BY <2>1, <2>2
<1> HIDE DEF l
<1>4. Sighted(E_V(l))
  BY <1>1, <1>2, <1>3, SightedBlocks
<1>5. QED BY <1>4 DEF l

(* a count is one of a loop, also where two loops have one name *)
LEMMA CountOf ==
  ASSUME CacheInv, CountsFit, valid, Numbered, NEW l \in theLoops, CountFor(l) # None
  PROVE  CountFor(l).of \in theLoops
<1>1. prog \in Programs /\ PlacedRight
  BY DEF CacheInv
<1>2. CASE Known(l) /\ getTripCount(l) = None
  <2>1. CountFor(l) = NewCount(l)
    BY <1>2 DEF CountFor
  <2>2. QED BY <1>1, <2>1, NewCountRight
<1>3. CASE ~(Known(l) /\ getTripCount(l) = None)
  <2>1. CountFor(l) = getTripCount(l)
    BY <1>3 DEF CountFor
  <2>2. CountFor(l) = Entry(l).TripCount
    BY <2>1 DEF getTripCount
  <2>3. PICK k : k = Index(l) + 1
    OBVIOUS
  <2>4. k \in 1 .. Len(prog.order)
    BY <1>1, <2>3, Place
  <2>5. CountFor(l) = TripCountAt(k)
    BY <2>2, <2>3, EntryAt
  <2>6. QED BY <2>4, <2>5 DEF CountsFit
<1>4. QED BY <1>2, <1>3

LEMMA TripsFit ==
  ASSUME CacheInv, CountsFit, valid, Numbered, Sized(prog), NEW l \in theLoops
  PROVE  HasWidth(TC(l))
<1>1. prog \in Programs
  BY DEF CacheInv
<1>2. CASE CountFor(l) = None
  <2>1. l \notin unseen
    BY <1>2, UnknownIs DEF Sized, unseen
  <2> DEFINE p == Ratio(getBlockFreq(prog.header[l]), getBlockFreq(prog.pre[l]))
  <2>2. TC(l) = CreateMul(Value(1), p)
    BY <1>2 DEF TC, in_freq
  <2>3. IsRatio(p)
    <3>1. prog.header[l] \in DOMAIN prog.nest /\ Sighted(prog.pre[l])
      BY <1>1, <2>1, SightedBlocks DEF Sighted
    <3>2. QED BY <1>1, <3>1, FrequenciesFit
  <2> HIDE DEF p
  <2>4. HasWidth(Value(1))
    BY ValueFits, HalfAssumption
  <2>5. QED BY <2>2, <2>3, <2>4, CreateMulFits
<1>3. CASE CountFor(l) # None
  <2>1. TC(l) = Value(prog.trips[CountFor(l).of])
    BY <1>3 DEF TC
  <2>2. PICK m : m = CountFor(l).of
    OBVIOUS
  <2>3. m \in theLoops
    BY <1>3, <2>2, CountOf
  <2>4. prog.trips[m] \in Nat /\ prog.trips[m] < Half
    BY <1>1, <2>3, BlocksRight DEF Sized, theLoops
  <2>5. QED BY <2>1, <2>2, <2>4, ValueFits
<1>4. QED BY <1>2, <1>3

LEMMA BranchFits ==
  ASSUME prog \in Programs, Sized(prog), NEW v, HasWidth(v), NEW from \in DOMAIN prog.dom, NEW to
  PROVE  HasWidth(selectBranch(v, from, to))
<1> DEFINE s == prog.succ[from]
           N == 1 .. Len(s)
           Path(i) == Reaches(s[i], to, from)
           T == {i \in N : Path(i)}
           k == CHOOSE i \in N : Path(i) /\ \A j \in 1 .. i - 1 : ~Path(j)
           stays == Cardinality(N) < 2 \/ from \in prog.switches \/ ~\E i \in N : Path(i)
<1>1. s \in Seq(Blocks)
  BY DEF Sized
<1>2. Len(s) \in Nat
  <2> HIDE DEF s
  <2>1. QED BY <1>1, LenProperties
<1>3. selectBranch(v, from, to) = IF stays THEN v ELSE [v EXCEPT !.on = k]
  BY DEF selectBranch
<1>4. ASSUME ~stays PROVE k \in N
  <2> HIDE DEF Path, s
  <2>1. T \subseteq Nat /\ T # {}
    BY <1>2, <1>4
  <2>2. PICK m \in T : \A n \in T : m <= n
    <3> HIDE DEF T
    <3>1. QED BY <2>1, Smallest
  <2>3. m \in N /\ Path(m)
    OBVIOUS
  <2>4. ASSUME NEW j \in 1 .. m - 1 PROVE ~Path(j)
    <3>1. j \in N /\ ~(m <= j)
      BY <1>2, <2>3
    <3>2. QED BY <2>2, <3>1
  <2> HIDE DEF T
  <2>5. QED BY <2>3, <2>4
<1> HIDE DEF k, stays
<1>5. CASE stays
  BY <1>3, <1>5
<1>6. CASE ~stays
  <2>1. PICK b : b = k
    OBVIOUS
  <2>2. b \in Nat
    BY <1>2, <1>4, <1>6, <2>1
  <2>3. selectBranch(v, from, to) = [v EXCEPT !.on = b]
    BY <1>3, <1>6, <2>1
  <2>4. PICK w : w = [n |-> v.n, on |-> b, exact |-> v.exact]
    OBVIOUS
  <2>5. v = [n |-> v.n, on |-> v.on, exact |-> v.exact]
    BY DEF HasWidth, Valued
  <2>6. selectBranch(v, from, to) = w
    BY <2>3, <2>4, <2>5
  <2>7. w.n = v.n /\ w.on = b /\ w.exact = v.exact
    BY <2>4
  <2>8. HasWidth(w)
    BY <2>2, <2>4, <2>7 DEF HasWidth, Valued, IsValue
  <2>9. QED BY <2>6, <2>8
<1>7. QED BY <1>5, <1>6

LEMMA ThroughFits ==
  ASSUME prog \in Programs, Sized(prog), NEW l \in theLoops, Sighted(E_V(l)),
         \A i \in 1 .. Len(Nest(l)) : HasWidth(ThirdOf(l, i))
  PROVE  HasWidth(ThroughNest(l))
<1> DEFINE n == Outside(l, E_V(l))
           v == Products(l)
           T == {i \in 0 .. n : ~HasWidth(v[i])}
<1>1. n \in 1 .. Len(Nest(l)) /\ Len(Nest(l)) \in Nat
  BY OutsideRight, NestRight
<1>2. v[0] = Value(1) /\ \A i \in 1 .. n : v[i] = Round(l, v[i - 1], i)
  BY ProductsIs
<1>3. n = Outside(l, E_V(l)) /\ v[n] = ThroughNest(l)
  BY DEF ThroughNest
<1> HIDE DEF v, n
<1>4. HasWidth(v[0])
  BY <1>2, ValueFits, HalfAssumption
<1>5. ASSUME NEW i \in 1 .. n, NEW u, HasWidth(u)
      PROVE  HasWidth(Round(l, u, i))
  <2>1. i \in 1 .. Len(Nest(l))
    BY <1>1
  <2>2. Sighted(From(l, i))
    <3>1. CASE i = n
      BY <1>3, <3>1 DEF From
    <3>2. CASE i # n
      <4>1. PICK j : j = i + 1
        OBVIOUS
      <4>2. j \in 1 .. Len(Nest(l))
        BY <1>1, <3>2, <4>1
      <4>3. From(l, i) = prog.header[Nest(l)[j]]
        BY <1>3, <3>2, <4>1 DEF From
      <4>4. Nest(l)[j] \in theLoops
        BY <4>2, NestOfNest
      <4>5. QED BY <4>3, <4>4, SightedBlocks
    <3>3. QED BY <3>1, <3>2
  <2>3. prog.pre[Nest(l)[i]] \in DOMAIN prog.nest
    BY <2>1, NestOfNest, BlocksRight
  <2>4. IsRatio(getPathProb(From(l, i), in_freq(Nest(l)[i])))
    BY <2>2, <2>3, FrequenciesFit DEF in_freq
  <2>5. HasWidth(Mul(u, ThirdOf(l, i)))
    BY <1>5, <2>1, MulFits
  <2>6. QED BY <2>4, <2>5, CreateMulFits DEF Round
<1>6. T = {}
  <2> SUFFICES ASSUME T # {} PROVE FALSE
    OBVIOUS
  <2>1. T \subseteq Nat
    BY <1>1
  <2>2. PICK i \in T : \A k \in T : i <= k
    <3> HIDE DEF T
    <3>1. QED BY <2>1, Smallest
  <2>3. i \in 0 .. n /\ i # 0 /\ ~HasWidth(v[i])
    BY <1>4
  <2>4. PICK j : j = i - 1
    OBVIOUS
  <2>5. i \in 1 .. n /\ j \in 0 .. n /\ ~(i <= j)
    BY <1>1, <2>3, <2>4
  <2>6. HasWidth(v[j])
    BY <2>2, <2>5
  <2>7. v[i] = Round(l, v[j], i)
    BY <1>2, <2>4, <2>5
  <2>8. QED BY <1>5, <2>3, <2>5, <2>6, <2>7
<1>7. HasWidth(v[n])
  <2>1. n \in 0 .. n
    BY <1>1
  <2>2. QED BY <1>6, <2>1
<1>8. QED BY <1>3, <1>7

(* the view that is added *)
LEMMA ViewAdded ==
  ASSUME CacheInv, ViewInv, CountsFit, ViewsFit, pass = "perform", Sized(prog),
         at <= Len(prog.order)
  PROVE  /\ Sighted(E_V(Here)) /\ E_V(Here) \in Blocks
         /\ HasWidth(B_PN(Here)) /\ HasWidth(TC(Here))
<1> DEFINE l == Here
           e == E_V(l)
           L == Len(Nest(l))
<1>1. /\ prog \in Programs /\ l \in theLoops /\ valid /\ Numbered /\ Nested /\ ViewedSoFar
  BY TheLoops DEF CacheInv, ViewInv, Here
<1>2. Sighted(e) /\ e \in DOMAIN prog.dom /\ e \in Blocks
  <2>1. Sighted(e)
    BY <1>1, PortSighted
  <2>2. Enclosing(prog)
    BY <1>1, ProgramsAssumption
  <2>3. QED BY <2>1, <2>2 DEF Sighted, Enclosing, Sized
<1>3. HasWidth(TC(l))
  BY <1>1, TripsFit
<1>4. \A k \in Range(Tail(Nest(l))) : k \in DOMAIN ViewPort
  BY <1>1, PortRight
<1>5. L \in Nat \ {0}
  BY <1>1, NestRight
<1>6. ASSUME NEW i \in 2 .. L
      PROVE  Nest(l)[i] \in DOMAIN ViewPort /\ Nest(l)[i] \in theLoops
  <2>1. Nest(l)[i] \in Range(Tail(Nest(l)))
    BY <1>1, Around
  <2>2. QED BY <1>1, <1>4, <2>1 DEF Nested
<1>7. CASE L = 1
  <2>1. B_PN(l) = selectBranch(TC(l), e, prog.header[l])
    BY <1>7 DEF B_PN
  <2>2. HasWidth(B_PN(l))
    <3> HIDE DEF l, e
    <3>1. QED BY <1>1, <1>2, <1>3, <2>1, BranchFits
  <2>3. QED BY <1>2, <1>3, <2>2
<1>8. CASE L # 1
  <2> DEFINE o == Nest(l)[2]
  <2>1. 2 \in 2 .. L
    <3> HIDE DEF L
    <3>1. QED BY <1>5, <1>8
  <2>2. o \in DOMAIN ViewPort /\ o \in theLoops
    BY <1>6, <2>1
  <2>3. CASE ViewPort[o].first = e
    <3> DEFINE v == ViewPort[o].second
               p == getPathProb(prog.header[o], getBlockFreq(prog.pre[l]))
    <3>1. B_PN(l) = Mul(CreateMul(v, p), TC(l))
      BY <1>8, <2>3 DEF B_PN, in_freq
    <3>2. HasWidth(v)
      BY <2>2 DEF ViewsFit
    <3>3. IsRatio(p)
      <4>1. Sighted(prog.header[o]) /\ prog.pre[l] \in DOMAIN prog.nest
        BY <1>1, <2>2, SightedBlocks, BlocksRight
      <4>2. QED BY <1>1, <4>1, FrequenciesFit
    <3> HIDE DEF v, p
    <3>4. HasWidth(B_PN(l))
      BY <1>3, <3>1, <3>2, <3>3, CreateMulFits, MulFits
    <3>5. QED BY <1>2, <1>3, <3>4
  <2>4. CASE ViewPort[o].first # e
    <3>1. B_PN(l) = ThroughNest(l)
      BY <1>8, <2>4 DEF B_PN
    <3>2. \A i \in 1 .. L : HasWidth(ThirdOf(l, i))
      <4>1. TAKE i \in 1 .. L
      <4>2. CASE i = 1
        BY <1>3, <4>2 DEF ThirdOf
      <4>3. CASE i # 1
        <5>1. i \in 2 .. L
          BY <1>5, <4>3
        <5>2. QED BY <1>6, <4>3, <5>1 DEF ThirdOf, ViewsFit
      <4>4. QED BY <4>2, <4>3
    <3>3. HasWidth(ThroughNest(l))
      <4> HIDE DEF l
      <4>1. QED BY <1>1, <1>2, <3>2, ThroughFits
    <3>4. QED BY <1>2, <1>3, <3>1, <3>3
  <2>5. QED BY <2>3, <2>4
<1>9. QED BY <1>7, <1>8

(* what is predicted for a block *)
LEMMA PredictionFits ==
  ASSUME CacheInv, ViewInv, ViewsFit, pass = "perform", at > Len(prog.order),
         Sized(prog), NEW b \in DOMAIN prog.nest
  PROVE  b \in Blocks /\ Predicted(b).at \in Blocks /\ IsValue(Predicted(b).freq)
<1>1. prog \in Programs /\ Nested /\ ViewedSoFar /\ at = Len(prog.order) + 1
      /\ Len(prog.order) \in Nat
  BY TheLoops DEF CacheInv, ViewInv
<1>2. /\ DOMAIN prog.nest \subseteq Blocks
      /\ \A c : Sighted(c) => c \in Blocks
  <2>1. Enclosing(prog)
    BY <1>1, ProgramsAssumption
  <2>2. QED BY <2>1 DEF Sighted, Enclosing, Sized
<1>3. ASSUME NEW v, HasWidth(v), NEW c, Sighted(c)
      PROVE  IsValue(CreateMul(v, getPathProb(c, getBlockFreq(b))))
  <2>1. IsRatio(getPathProb(c, getBlockFreq(b)))
    BY <1>1, <1>3, FrequenciesFit
  <2>2. HasWidth(CreateMul(v, getPathProb(c, getBlockFreq(b))))
    BY <1>3, <2>1, CreateMulFits
  <2>3. QED BY <2>2 DEF HasWidth
<1>4. CASE prog.nest[b] = <<>>
  <2> DEFINE v == Value(1)
             w == CreateMul(v, getPathProb(prog.entry, getBlockFreq(b)))
  <2>1. Predicted(b) = [at |-> prog.entry, freq |-> w]
    BY <1>4 DEF Predicted
  <2>2. Predicted(b).at = prog.entry /\ Predicted(b).freq = w
    <3> HIDE DEF w
    <3>1. QED BY <2>1
  <2>3. HasWidth(v) /\ Sighted(prog.entry)
    BY <1>1, ValueFits, HalfAssumption, SightedBlocks
  <2>4. IsValue(w)
    <3> HIDE DEF v
    <3>1. QED BY <1>3, <2>3
  <2>5. QED BY <1>2, <2>2, <2>3, <2>4
<1>5. CASE prog.nest[b] # <<>>
  <2> DEFINE l == prog.nest[b][1]
             h == prog.header[l]
             v == ViewPort[l].second
             w == CreateMul(v, getPathProb(h, getBlockFreq(b)))
  <2>1. Predicted(b) = [at |-> ViewPort[l].first, freq |-> w]
    BY <1>5 DEF Predicted
  <2>2. Predicted(b).at = ViewPort[l].first /\ Predicted(b).freq = w
    <3> HIDE DEF w, l
    <3>1. QED BY <2>1
  <2>3. l \in theLoops
    <3>1. Enclosing(prog)
      BY <1>1, ProgramsAssumption
    <3>2. QED BY <1>5, <3>1 DEF Enclosing, theLoops
  <2>4. l \in DOMAIN ViewPort
    <3>1. DOMAIN ViewPort = {prog.order[j] : j \in 1 .. Len(prog.order)}
      BY <1>1 DEF ViewedSoFar
    <3>2. Index(l) + 1 \in 1 .. Len(prog.order) /\ prog.order[Index(l) + 1] = l
      <4> HIDE DEF l
      <4>1. QED BY <1>1, <2>3, Place
    <3>3. QED BY <3>1, <3>2
  <2>5. HasWidth(v) /\ Sighted(ViewPort[l].first) /\ Sighted(h)
    BY <1>1, <2>3, <2>4, SightedBlocks DEF ViewsFit
  <2> HIDE DEF l, h, v
  <2>6. IsValue(w)
    BY <1>3, <2>5
  <2>7. QED BY <1>2, <2>2, <2>5, <2>6
<1>6. QED BY <1>4, <1>5

(* what the types of the pass ask for *)
TypesFit ==
  /\ \A p \in Programs : Sized(p)
  /\ IsFiniteSet(Loops) /\ MaxPasses \in Nat

LEMMA OrderFits ==
  ASSUME TypesFit, CacheInv
  PROVE  /\ Cardinality(Loops) \in Nat /\ Len(prog.order) \in Nat
         /\ Len(prog.order) <= Cardinality(Loops) /\ at \in 1 .. Len(prog.order) + 1
<1>1. prog.order \in Seq(Loops) /\ IsInjective(prog.order)
  BY ProgramsAssumption DEF CacheInv, Nesting
<1>2. PICK n \in Nat : n = Len(prog.order)
  BY <1>1, LenProperties
<1>3. prog.order \in [1 .. n -> Loops]
  BY <1>1, <1>2, LenProperties
<1>4. prog.order \in Injection(1 .. n, Loops)
  BY <1>1, <1>3 DEF Injection
<1>5. IsFiniteSet(Loops) /\ Cardinality(Loops) \in Nat
  BY FS_CardinalityType DEF TypesFit
<1>6. Cardinality(1 .. n) <= Cardinality(Loops)
  BY <1>4, <1>5, FS_Injection
<1>7. Cardinality(1 .. n) = n
  <2>1. 1 \in Int /\ n \in Int
    OBVIOUS
  <2>2. Cardinality(1 .. n) = IF 1 > n THEN 0 ELSE n - 1 + 1
    BY <2>1, FS_Interval
  <2>3. QED BY <2>2
<1>8. QED BY <1>2, <1>5, <1>6, <1>7 DEF CacheInv

LEMMA Passes ==
  ASSUME NEW C \in Nat, NEW p \in Nat \ {0}
  PROVE  /\ C * (p - 1) \in Nat /\ C * p \in Nat /\ C * (p - 1) + C = C * p
         /\ \A m \in Nat : p <= m => C * p <= C * m
<1>1. C * (p - 1) + C = C * p
  OBVIOUS
<1>2. ASSUME NEW m \in Nat, p <= m PROVE C * p <= C * m
  <2>1. PICK d \in Nat : m = p + d
    <3>1. m - p \in Nat /\ m = p + (m - p)
      BY <1>2
    <3>2. QED BY <3>1
  <2>2. C * m = C * p + C * d /\ C * d \in Nat
    BY <2>1
  <2>3. QED BY <2>2
<1>3. C * (p - 1) \in Nat /\ C * p \in Nat
  <2>1. p - 1 \in Nat
    OBVIOUS
  <2>2. QED BY <2>1
<1>4. QED BY <1>1, <1>2, <1>3

LEMMA RoomFits ==
  ASSUME TypesFit, CacheInv, CacheTypes
  PROVE  /\ Room \in Int /\ Room <= Cardinality(Loops) * passes
         /\ Cardinality(Loops) * passes \in Nat
         /\ Cardinality(Loops) * passes <= Cardinality(Loops) * MaxPasses
<1>1. PICK C, n : C = Cardinality(Loops) /\ n = Len(prog.order)
  OBVIOUS
<1>2. C \in Nat /\ n \in Nat /\ n <= C /\ at \in 1 .. n + 1
  BY <1>1, OrderFits
<1>3. passes \in Nat /\ passes <= MaxPasses /\ MaxPasses \in Nat
  BY DEF CacheTypes, TypesFit
<1>4. CASE passes = 0
  <2>1. pass = "none" /\ C * 0 = 0 /\ 0 <= C * MaxPasses
    BY <1>2, <1>3, <1>4 DEF CacheTypes
  <2>2. QED BY <1>1, <1>4, <2>1 DEF Room
<1>5. CASE passes # 0
  <2>1. C * (passes - 1) \in Nat /\ C * passes \in Nat /\ C * (passes - 1) + C = C * passes
        /\ C * passes <= C * MaxPasses
    BY <1>2, <1>3, <1>5, Passes
  <2>2. Room = C * passes \/ Room = C * (passes - 1) + (at - 1)
    BY <1>1 DEF Room
  <2>3. QED BY <1>1, <1>2, <2>1, <2>2
<1>6. QED BY <1>4, <1>5

(* getOrInsertTripCount, and the count is moved to b or is not moved *)
LEMMA InsertFits ==
  ASSUME TypesFit, CacheInv, CacheTypes, CountsFit, pass # "none", at <= Len(prog.order),
         getOrInsertTripCount(Here), NEW b \in Blocks, DOMAIN placed' = DOMAIN Placed(Here),
         \A c \in DOMAIN placed' : placed'[c] \in {Placed(Here)[c], b},
         at' = at + 1, UNCHANGED <<prog, address, LoopMap, valid, pass, passes>>
  PROVE  CacheTypes' /\ CountsFit'
<1> DEFINE l == Here
<1>1. prog \in Programs /\ l \in theLoops /\ valid /\ Numbered /\ PlacedRight
      /\ IsFiniteSet(DOMAIN placed) /\ theLoops \subseteq Loops
  BY TheLoops DEF CacheInv, Here, PlacedRight
<1>2. PICK N, N2 : N = Cardinality(DOMAIN placed) /\ N2 = Cardinality(DOMAIN placed')
  OBVIOUS
<1>3. N \in Nat /\ N <= Room
  BY <1>1, <1>2, FS_CardinalityType DEF CountsFit
<1>4. \/ Placed(l) = placed
      \/ l \notin prog.folded /\ Placed(l) = Put(placed, NewCount(l), prog.pre[l])
  BY DEF Placed
<1>5. PICK new : new = NewCount(l)
  OBVIOUS
<1>6. l \notin prog.folded => new \notin DOMAIN placed /\ new.name[2] \in 0 .. N
  <2> HIDE DEF l
  <2>1. QED BY <1>1, <1>2, <1>5, NewCountRight
<1>7. prog.pre[l] \in Blocks
  <2>1. Enclosing(prog) /\ Sized(prog)
    BY <1>1, ProgramsAssumption DEF TypesFit
  <2>2. prog.pre[l] \in DOMAIN prog.nest
    <3> HIDE DEF l
    <3>1. QED BY <1>1, BlocksRight
  <2>3. QED BY <2>1, <2>2 DEF Enclosing, Sized
<1>8. /\ \/ DOMAIN placed' = DOMAIN placed
         \/ DOMAIN placed' = DOMAIN placed \cup {new} /\ new.name[2] \in 0 .. N
      /\ \A c \in DOMAIN Placed(l) : Placed(l)[c] \in Blocks
  <2>1. CASE Placed(l) = placed
    BY <2>1 DEF CountsFit
  <2>2. CASE l \notin prog.folded /\ Placed(l) = Put(placed, NewCount(l), prog.pre[l])
    <3>1. PICK a : a = prog.pre[l]
      OBVIOUS
    <3>2. Placed(l) = Put(placed, new, a) /\ a \in Blocks
      BY <1>5, <1>7, <2>2, <3>1
    <3>3. /\ DOMAIN Put(placed, new, a) = DOMAIN placed \cup {new}
          /\ Put(placed, new, a)[new] = a
          /\ \A c \in DOMAIN placed \ {new} : Put(placed, new, a)[c] = placed[c]
      BY DEF Put, Over
    <3>4. \A c \in DOMAIN placed : placed[c] \in Blocks
      BY DEF CountsFit
    <3> HIDE DEF l
    <3>5. QED BY <1>6, <2>2, <3>2, <3>3, <3>4 DEF l
  <2>3. QED BY <1>4, <2>1, <2>2
<1>9. N2 \in Nat /\ N2 <= N + 1
  <2>1. CASE DOMAIN placed' = DOMAIN placed
    BY <1>2, <1>3, <2>1
  <2>2. CASE DOMAIN placed' = DOMAIN placed \cup {new}
    <3>1. Cardinality(DOMAIN placed \cup {new}) \in {N, N + 1}
      BY <1>1, <1>2, FS_AddElement
    <3>2. QED BY <1>2, <1>3, <2>2, <3>1
  <2>3. QED BY <1>8, <2>1, <2>2
<1>10. Room' = Room + 1
  <2>1. PICK r : r = Cardinality(Loops) * (passes - 1)
    OBVIOUS
  <2>2. Room = r + (at - 1) /\ Room' = r + (at' - 1) /\ at' = at + 1
    BY <2>1 DEF Room
  <2>3. r \in Nat /\ at \in Nat
    <3>1. passes \in Nat \ {0} /\ Cardinality(Loops) \in Nat /\ at \in Nat
      BY OrderFits DEF CacheTypes
    <3>2. QED BY <2>1, <3>1, Passes
  <2>4. QED BY <2>2, <2>3
<1>11. N2 <= Room'
  <2>1. Room \in Int
    BY RoomFits
  <2>2. QED BY <1>3, <1>9, <1>10, <2>1
<1>12. ASSUME NEW c \in DOMAIN placed'
       PROVE  placed'[c] \in Blocks /\ c.name[2] \in 0 .. Cardinality(Loops) * MaxPasses
  <2>1. placed'[c] \in Blocks
    <3>1. c \in DOMAIN Placed(l)
      OBVIOUS
    <3>2. QED BY <1>8, <3>1
  <2>2. CASE c \in DOMAIN placed
    BY <2>1, <2>2 DEF CountsFit
  <2>3. CASE c \notin DOMAIN placed
    <3>1. c.name[2] \in 0 .. N
      BY <1>8, <2>3
    <3>2. N <= Cardinality(Loops) * MaxPasses /\ Cardinality(Loops) * MaxPasses \in Int
      <4>1. PICK p, q, r : p = Cardinality(Loops) * passes /\ q = Cardinality(Loops) * MaxPasses
                           /\ r = Room
        OBVIOUS
      <4>2. r \in Int /\ r <= p /\ p \in Nat /\ p <= q
        BY <4>1, RoomFits
      <4>3. q \in Int
        BY <4>1, OrderFits DEF TypesFit
      <4>4. QED BY <1>3, <4>1, <4>2, <4>3
    <3>3. c.name[2] \in 0 .. Cardinality(Loops) * MaxPasses
      <4>1. PICK q : q = Cardinality(Loops) * MaxPasses
        OBVIOUS
      <4>2. QED BY <1>3, <3>1, <3>2, <4>1
    <3>4. QED BY <2>1, <3>3
  <2>4. QED BY <2>2, <2>3
<1>13. ASSUME NEW k \in 1 .. Len(prog.order), TripCountAt(k)' # None
       PROVE  TripCountAt(k)'.of \in theLoops
  <2>1. TripCountAt(k)' \in {CountFor(l), TripCountAt(k)}
    BY InsertedRight
  <2>2. CASE TripCountAt(k)' = CountFor(l)
    <3> HIDE DEF l
    <3>1. QED BY <1>1, <1>13, <2>2, CountOf
  <2>3. CASE TripCountAt(k)' = TripCountAt(k)
    BY <1>1, <1>13, <2>3 DEF CountsFit
  <2>4. QED BY <2>1, <2>2, <2>3
<1>14. CountsFit'
  <2>1. Cardinality(DOMAIN placed') <= Room'
    BY <1>2, <1>11
  <2>2. prog' = prog /\ theLoops' = theLoops
    BY DEF theLoops
  <2>3. QED BY <1>12, <1>13, <2>1, <2>2 DEF CountsFit
<1>15. CacheTypes'
  <2>1. preheaders' \subseteq Loops
    <3>1. preheaders' = preheaders \cup {l}
      BY DEF getOrInsertTripCount
    <3>2. QED BY <1>1, <3>1 DEF CacheTypes
  <2>2. QED BY <2>1 DEF CacheTypes
<1>16. QED BY <1>14, <1>15

(* runOnFunction, Begin, EndInsert and what other passes do *)
LEMMA CachedFits ==
  ASSUME TypesFit, CacheInv, CacheTypes, CountsFit,
         \/ runOnFunction \/ (\E p \in {"insert", "perform"} : Begin(p))
         \/ EndInsert \/ PredictBlocks
         \/ \E new \in Allocations : NewLoopInfo(new)
         \/ \E gone \in SUBSET DOMAIN placed : Transform(gone)
  PROVE  CacheTypes' /\ CountsFit'
<1>1. prog \in Programs /\ PlacedRight /\ IsFiniteSet(DOMAIN placed)
      /\ address \in [theLoops -> Addresses]
  BY DEF CacheInv, PlacedRight, Allocations
<1>2. /\ Room \in Int /\ Room <= Cardinality(Loops) * passes
      /\ Cardinality(Loops) * passes \in Nat
      /\ passes \in Nat /\ Cardinality(Loops) \in Nat
      /\ Cardinality(DOMAIN placed) <= Room /\ Cardinality(DOMAIN placed) \in Nat
  BY <1>1, RoomFits, OrderFits, FS_CardinalityType DEF CacheTypes, CountsFit
<1>3. /\ DOMAIN Indices = Range(address)
      /\ Range(address) \subseteq Addresses
  BY <1>1 DEF Indices, Range
<1>4. PICK C, N, R : /\ C = Cardinality(Loops) /\ N = Cardinality(DOMAIN placed) /\ R = C * passes
  OBVIOUS
<1>5. C \in Nat /\ N \in Nat /\ R \in Nat /\ N <= R
  BY <1>2, <1>4
<1>6. CASE runOnFunction
  <2> USE <1>6 DEF runOnFunction
  <2>1. CacheTypes'
    BY <1>3 DEF CacheTypes
  <2>2. ASSUME NEW k \in 1 .. Len(prog.order), TripCountAt(k)' # None
        PROVE  TripCountAt(k)'.of \in theLoops
    <3>1. PICK c, l : c = TripCountAt(k)' /\ l = prog.order[k]
      OBVIOUS
    <3>2. c = Analysed(l).TripCount
      BY <3>1 DEF TripCountAt
    <3>3. l \in theLoops
      BY <1>1, <3>1, TheLoops
    <3>4. c \in DOMAIN placed
      BY <1>1, <2>2, <3>1, <3>2, <3>3, AnalysedRight
    <3>5. QED BY <1>1, <3>1, <3>4, StandingIsNamed DEF PlacedRight
  <2>3. CountsFit'
    <3>1. Room' = Room /\ theLoops' = theLoops
      BY DEF Room, theLoops
    <3>2. QED BY <2>2, <3>1 DEF CountsFit
  <2>4. QED BY <2>1, <2>3
<1>7. CASE \E p \in {"insert", "perform"} : Begin(p)
  <2>1. PICK p \in {"insert", "perform"} : Begin(p)
    BY <1>7
  <2> USE <2>1 DEF Begin
  <2>2. LoopMap' = Over(Indices, LoopMap)
    BY DEF updateCache
  <2>3. DOMAIN LoopMap' = DOMAIN Indices \cup DOMAIN LoopMap
    BY <2>2 DEF Over
  <2>4. passes' \in 0 .. MaxPasses /\ passes' # 0
    BY <1>2 DEF TypesFit
  <2>5. CacheTypes'
    BY <1>3, <2>3, <2>4 DEF CacheTypes
  <2>6. Room' = R
    <3>1. pass' # "none" /\ passes' - 1 = passes /\ at' - 1 = 0
      BY <1>2
    <3>2. Room' = C * (passes' - 1) + (at' - 1)
      BY <1>4, <3>1 DEF Room
    <3>3. Room' = C * passes + 0
      BY <3>1, <3>2
    <3>4. QED BY <1>4, <1>5, <3>3
  <2>7. CountsFit'
    <3>1. Cardinality(DOMAIN placed') <= Room'
      BY <1>4, <1>5, <2>6
    <3>2. theLoops' = theLoops /\ \A k : TripCountAt(k)' = TripCountAt(k)
      BY DEF theLoops, TripCountAt
    <3>3. placed' = placed /\ prog' = prog /\ valid' = valid
      OBVIOUS
    <3> HIDE <2>1
    <3>4. QED BY <3>1, <3>2, <3>3 DEF CountsFit
  <2>8. QED BY <2>5, <2>7
<1>8. CASE EndInsert \/ PredictBlocks
  <2>1. /\ UNCHANGED <<prog, address, LoopMap, CycleMap, placed, preheaders, at, passes>>
        /\ pass' = "none" /\ valid' \in BOOLEAN /\ (valid' => valid)
    <3>1. valid \in BOOLEAN
      BY DEF CacheTypes
    <3>2. /\ UNCHANGED <<prog, address, LoopMap, CycleMap, placed, preheaders, at, passes>>
          /\ pass' = "none" /\ (valid' = valid \/ valid' = FALSE)
      BY <1>8 DEF EndInsert, PredictBlocks
    <3>3. valid' \in BOOLEAN /\ (valid' => valid)
      <4>1. CASE valid' = valid
        BY ONLY <3>1, <4>1
      <4>2. CASE valid' = FALSE
        BY ONLY <4>2
      <4>3. QED BY <3>2, <4>1, <4>2
    <3>4. QED BY ONLY <3>2, <3>3
  <2>2. CacheTypes'
    BY <2>1 DEF CacheTypes
  <2>3. Room' = R
    BY <1>4, <2>1 DEF Room
  <2>4. CountsFit'
    <3>1. Cardinality(DOMAIN placed') <= Room'
      BY <1>4, <1>5, <2>1, <2>3
    <3>2. theLoops' = theLoops /\ \A k : TripCountAt(k)' = TripCountAt(k)
      BY <2>1 DEF theLoops, TripCountAt
    <3>3. QED BY <2>1, <3>1, <3>2 DEF CountsFit
  <2>5. QED BY <2>2, <2>4
<1>9. CASE \E new \in Allocations : NewLoopInfo(new)
  <2>1. UNCHANGED <<prog, LoopMap, CycleMap, placed, preheaders, valid, pass, at, passes>>
    BY <1>9 DEF NewLoopInfo
  <2>2. QED BY <2>1 DEF CacheTypes, CountsFit, Room, TripCountAt, theLoops
<1>10. CASE \E gone \in SUBSET DOMAIN placed : Transform(gone)
  <2>1. PICK gone \in SUBSET DOMAIN placed : Transform(gone)
    BY <1>10
  <2> USE <2>1 DEF Transform
  <2>2. DOMAIN placed' \subseteq DOMAIN placed /\ \A c \in DOMAIN placed' : placed'[c] = placed[c]
    OBVIOUS
  <2>3. Cardinality(DOMAIN placed') <= N /\ Cardinality(DOMAIN placed') \in Nat
    <3>1. DOMAIN placed' \in SUBSET DOMAIN placed
      BY <2>2
    <3>2. QED BY <1>1, <1>4, <3>1, FS_Subset, FS_CardinalityType
  <2>4. Room' = R + C
    <3>1. Room' = C * (passes + 1)
      BY <1>4 DEF Room
    <3>2. C * (passes + 1) = C * passes + C
      BY <1>2, <1>5
    <3>3. QED BY <1>4, <3>1, <3>2
  <2>5. Cardinality(DOMAIN placed') <= Room'
    BY <1>5, <2>3, <2>4
  <2>6. CountsFit'
    BY <2>2, <2>5 DEF CountsFit
  <2>7. passes' \in 0 .. MaxPasses /\ passes' # 0
    BY <1>2 DEF TypesFit
  <2>8. CacheTypes'
    BY <2>7 DEF CacheTypes
  <2>9. QED BY <2>6, <2>8
<1>11. QED BY <1>6, <1>7, <1>8, <1>9, <1>10

(* one round of the pass *)
LEMMA RoundFits ==
  ASSUME TypesFit, CacheInv, ViewInv, TypeInv, ViewLoop
  PROVE  TypeInv'
<1> DEFINE l == Here
           e == E_V(l)
           n == CountFor(l)
           P == Placed(l)
           w == View(l)
<1>1. /\ prog \in Programs /\ Sized(prog) /\ CacheTypes /\ CountsFit /\ ViewsFit /\ PredictionsFit
      /\ seen \subseteq Loops
      /\ pass = "perform" /\ at <= Len(prog.order)
  BY DEF CacheInv, TypesFit, TypeInv, ViewLoop, AtLoop
<1>2. Sighted(e) /\ e \in Blocks /\ HasWidth(B_PN(l)) /\ HasWidth(TC(l))
  BY <1>1, ViewAdded
<1>3. /\ getOrInsertTripCount(l) /\ at' = at + 1 /\ ViewPort' = Put(ViewPort, l, w)
      /\ placed' = IF n \in DOMAIN P THEN [P EXCEPT ![n] = e] ELSE P
      /\ UNCHANGED <<prog, address, LoopMap, valid, pass, passes, prediction>>
  BY DEF ViewLoop
<1>4. w.first = e /\ w.second = B_PN(l) /\ w.third = TC(l)
  BY DEF View
<1>5. DOMAIN placed' = DOMAIN P /\ \A c \in DOMAIN placed' : placed'[c] \in {P[c], e}
  <2> HIDE DEF n, P, e
  <2>1. QED BY <1>3
<1>6. CacheTypes' /\ CountsFit'
  <2>1. pass # "none"
    BY <1>1
  <2> HIDE DEF e
  <2>2. QED BY <1>1, <1>2, <1>3, <1>5, <2>1, InsertFits
<1>7. ASSUME NEW m \in DOMAIN ViewPort'
      PROVE  /\ Sighted(ViewPort'[m].first) /\ HasWidth(ViewPort'[m].second)
             /\ HasWidth(ViewPort'[m].third)
  <2> HIDE DEF w, l, e, n, P
  <2>1. \/ m = l /\ ViewPort'[m] = w
        \/ m \in DOMAIN ViewPort /\ ViewPort'[m] = ViewPort[m]
    <3>1. ViewPort' = Put(ViewPort, l, w)
      BY <1>3
    <3>2. /\ DOMAIN Put(ViewPort, l, w) = DOMAIN ViewPort \cup {l}
          /\ Put(ViewPort, l, w)[l] = w
          /\ \A k \in DOMAIN ViewPort \ {l} : Put(ViewPort, l, w)[k] = ViewPort[k]
      BY DEF Put, Over
    <3>3. QED BY <3>1, <3>2
  <2>2. CASE m = l /\ ViewPort'[m] = w
    BY <1>2, <1>4, <2>2
  <2>3. CASE m \in DOMAIN ViewPort /\ ViewPort'[m] = ViewPort[m]
    BY <1>1, <2>3 DEF ViewsFit
  <2>4. QED BY <2>1, <2>2, <2>3
<1>8. ViewsFit' /\ seen' \subseteq Loops
  <2>1. prog' = prog /\ seen' = seen
    BY DEF ViewLoop
  <2>2. \A b : Sighted(b)' <=> Sighted(b)
    BY <2>1 DEF Sighted, getBlockFreq, unseen
  <2>3. QED BY <1>1, <1>7, <2>1, <2>2 DEF ViewsFit
<1>9. PredictionsFit'
  BY <1>1, <1>3 DEF PredictionsFit
<1>10. QED BY <1>6, <1>8, <1>9 DEF TypeInv

LEMMA TypeStep ==
  ASSUME TypesFit, CacheInv, ViewInv, TypeInv, [Next]_vars
  PROVE  TypeInv'
<1>1. /\ prog \in Programs /\ Sized(prog) /\ CacheTypes /\ CountsFit /\ ViewsFit /\ PredictionsFit
      /\ seen \subseteq Loops
  BY DEF CacheInv, TypesFit, TypeInv
<1>2. ASSUME prog' = prog, ViewPort' = ViewPort, seen' = seen
      PROVE  ViewsFit' /\ seen' \subseteq Loops
  <2>1. \A b : Sighted(b) => Sighted(b)'
    BY <1>2 DEF Sighted, getBlockFreq, unseen
  <2>2. QED BY <1>1, <1>2, <2>1 DEF ViewsFit
<1>3. ASSUME prediction' = prediction PROVE PredictionsFit'
  BY <1>1, <1>3 DEF PredictionsFit
<1>4. CASE ViewLoop
  BY <1>4, RoundFits
<1>5. CASE PredictBlocks
  <2>1. CacheTypes' /\ CountsFit'
    BY <1>1, <1>5, CachedFits
  <2>2. /\ ViewPort' = ViewPort /\ prog' = prog /\ seen' = seen
        /\ pass = "perform" /\ at > Len(prog.order)
        /\ prediction' = [b \in DOMAIN prog.nest |-> Predicted(b)]
    BY <1>5 DEF PredictBlocks
  <2>3. PredictionsFit'
    <3>1. \A b \in DOMAIN prog.nest :
            b \in Blocks /\ Predicted(b).at \in Blocks /\ IsValue(Predicted(b).freq)
      BY <1>1, <2>2, PredictionFits
    <3>2. DOMAIN prediction' = DOMAIN prog.nest
          /\ \A b \in DOMAIN prog.nest : prediction'[b] = Predicted(b)
      BY <2>2
    <3>3. QED BY <3>1, <3>2 DEF PredictionsFit
  <2>4. QED BY <1>2, <2>1, <2>2, <2>3 DEF TypeInv
<1>6. CASE BeginPerform
  <2>1. CacheTypes' /\ CountsFit'
    <3>1. Begin("perform")
      BY <1>6 DEF BeginPerform
    <3>2. \E p \in {"insert", "perform"} : Begin(p)
      BY <3>1
    <3>3. QED BY <1>1, <3>2, CachedFits
  <2>2. DOMAIN ViewPort' = {} /\ DOMAIN prediction' = {}
    BY <1>6 DEF BeginPerform
  <2>3. seen' \subseteq Loops
    BY <1>1, <1>6 DEF BeginPerform, CacheTypes
  <2>4. QED BY <2>1, <2>2, <2>3 DEF TypeInv, ViewsFit, PredictionsFit
<1>7. CASE Cached
  <2>1. ViewPort' = ViewPort /\ prediction' = prediction /\ seen' = seen
    BY <1>7 DEF Cached
  <2>2. prog' = prog
    BY <1>7 DEF Cached, runOnFunction, Begin, runOnLoop, EndInsert, NewLoopInfo, Transform
  <2>3. CacheTypes' /\ CountsFit'
    <3>1. CASE runOnLoop
      <4> DEFINE l == Here
                 b == prog.pre[l]
      <4>1. /\ getOrInsertTripCount(l) /\ placed' = Placed(l) /\ at' = at + 1
            /\ pass = "insert" /\ at <= Len(prog.order)
            /\ UNCHANGED <<prog, address, LoopMap, valid, pass, passes>>
        BY <3>1 DEF runOnLoop, AtLoop
      <4>2. b \in Blocks
        <5>1. l \in theLoops
          BY <4>1, TheLoops DEF CacheInv, Here
        <5>2. b \in DOMAIN prog.nest
          <6> HIDE DEF l
          <6>1. QED BY <1>1, <5>1, BlocksRight
        <5>3. Enclosing(prog)
          BY <1>1, ProgramsAssumption
        <5>4. QED BY <1>1, <5>2, <5>3 DEF Enclosing, Sized
      <4>3. /\ pass # "none" /\ DOMAIN placed' = DOMAIN Placed(l)
            /\ \A c \in DOMAIN placed' : placed'[c] \in {Placed(l)[c], b}
        BY <4>1
      <4> HIDE DEF b
      <4>4. QED BY <1>1, <4>1, <4>2, <4>3, InsertFits
    <3>2. CASE ~runOnLoop
      <4>1. \/ runOnFunction \/ (\E p \in {"insert", "perform"} : Begin(p))
            \/ EndInsert \/ PredictBlocks
            \/ \E new \in Allocations : NewLoopInfo(new)
            \/ \E gone \in SUBSET DOMAIN placed : Transform(gone)
        BY <1>7, <3>2 DEF Cached
      <4>2. QED BY <1>1, <4>1, CachedFits
    <3>3. QED BY <3>1, <3>2
  <2>4. QED BY <1>2, <1>3, <2>1, <2>2, <2>3 DEF TypeInv
<1>8. CASE UNCHANGED vars
  <2>1. UNCHANGED <<prog, address, LoopMap, CycleMap, placed, preheaders, valid, pass, at, passes,
                    seen, ViewPort, prediction>>
    BY <1>8 DEF vars, cacheVars
  <2>2. CacheTypes'
    BY <1>1, <2>1 DEF CacheTypes
  <2>3. CountsFit'
    <3>1. Room' = Room /\ theLoops' = theLoops /\ \A k : TripCountAt(k)' = TripCountAt(k)
      BY <2>1 DEF Room, theLoops, TripCountAt
    <3>2. QED BY <1>1, <2>1, <3>1 DEF CountsFit
  <2>4. QED BY <1>2, <1>3, <2>1, <2>2, <2>3 DEF TypeInv
<1>9. QED BY <1>4, <1>5, <1>6, <1>7, <1>8 DEF Next

LEMMA TypeStart ==
  ASSUME TypesFit, Init
  PROVE  TypeInv
<1>1. /\ prog \in Programs /\ LoopMap = << >> /\ placed = << >>
      /\ preheaders = theLoops \ prog.lacks /\ valid = FALSE /\ pass = "none" /\ passes = 0
      /\ ViewPort = << >> /\ prediction = << >> /\ seen = preheaders
  BY DEF Init, CacheInit
<1>2. DOMAIN << >> = {}
  OBVIOUS
<1>3. CacheTypes
  <2>1. theLoops \subseteq Loops
    <3>1. prog.order \in Seq(Loops)
      BY <1>1, ProgramsAssumption DEF Nesting
    <3>2. QED BY <3>1 DEF theLoops, Range
  <2>2. DOMAIN LoopMap = {} /\ preheaders \subseteq Loops
    BY <1>1, <1>2, <2>1
  <2>3. valid \in BOOLEAN /\ pass \in {"none", "insert", "perform"}
    BY <1>1
  <2>4. passes \in 0 .. MaxPasses
    BY <1>1 DEF TypesFit
  <2>5. QED BY <1>1, <2>2, <2>3, <2>4 DEF CacheTypes
<1>4. CountsFit
  <2>1. DOMAIN placed = {} /\ Cardinality(DOMAIN placed) = 0
    BY <1>1, <1>2, FS_EmptySet
  <2>2. Room = 0
    <3>1. PICK c : c = Cardinality(Loops)
      OBVIOUS
    <3>2. c \in Nat
      BY <3>1, FS_CardinalityType DEF TypesFit
    <3>3. Room = c * 0
      BY <1>1, <3>1 DEF Room
    <3>4. QED BY <3>2, <3>3
  <2>3. QED BY <1>1, <2>1, <2>2 DEF CountsFit
<1>5. seen \subseteq Loops
  BY <1>1, <1>3 DEF CacheTypes
<1>6. QED BY <1>1, <1>2, <1>3, <1>4, <1>5 DEF TypeInv, ViewsFit, PredictionsFit

LEMMA TypesFollow ==
  ASSUME TypesFit, CacheInv, ViewInv, TypeInv
  PROVE  TypeOK
<1>1. /\ prog \in Programs /\ Sized(prog) /\ CacheTypes /\ CountsFit /\ ViewsFit /\ PredictionsFit
      /\ seen \subseteq Loops
      /\ PlacedRight /\ Nested
  BY DEF CacheInv, ViewInv, TypesFit, TypeInv
<1>2. DOMAIN placed \subseteq Counts
  <2>1. SUFFICES ASSUME NEW c \in DOMAIN placed PROVE c \in Counts
    OBVIOUS
  <2>2. c \in [of : theLoops, name : theNames \X Nat] /\ c.name[1] = prog.name[c.of]
    BY <1>1, <2>1 DEF PlacedRight, Standing
  <2>3. c.name[2] \in 0 .. Cardinality(Loops) * MaxPasses
    BY <1>1, <2>1 DEF CountsFit
  <2>4. PICK l, x : l = c.of /\ x = c.name
    OBVIOUS
  <2>5. c = [of |-> l, name |-> x] /\ l \in theLoops /\ x = <<x[1], x[2]>>
    BY <2>2, <2>4
  <2>6. x[1] \in Names
    BY <2>2, <2>4, <2>5 DEF Names
  <2>7. x \in Names \X (0 .. Cardinality(Loops) * MaxPasses)
    BY <2>3, <2>4, <2>5, <2>6
  <2>8. QED BY <2>5, <2>7 DEF Counts
<1>3. CacheTypeOK
  BY <1>1, <1>2 DEF CacheInv, CacheTypes, CountsFit, CacheTypeOK
<1>4. ASSUME NEW l \in DOMAIN ViewPort
      PROVE  /\ l \in theLoops /\ ViewPort[l].first \in Blocks
             /\ IsValue(ViewPort[l].second) /\ IsValue(ViewPort[l].third)
  <2>1. Enclosing(prog)
    BY <1>1, ProgramsAssumption
  <2>2. Sighted(ViewPort[l].first) /\ HasWidth(ViewPort[l].second) /\ HasWidth(ViewPort[l].third)
    BY <1>1 DEF ViewsFit
  <2>3. ViewPort[l].first \in Blocks
    BY <1>1, <2>1, <2>2 DEF Sighted, Enclosing, Sized
  <2>4. l \in theLoops
    BY <1>1 DEF Nested
  <2>5. QED BY <2>2, <2>3, <2>4 DEF HasWidth
<1>5. QED BY <1>1, <1>3, <1>4 DEF TypeOK, PredictionsFit

(***************************************************************************)
(* The types of PerformPred: each count in the program has the name of a   *)
(* header and a number no pass exceeds, each view port is a block, and     *)
(* each value that is inserted fits its width, for every function whose    *)
(* ratios do not divide by 0.                                              *)
(***************************************************************************)
THEOREM TypeRight == TypesFit /\ Spec => []TypeOK
<1> SUFFICES ASSUME TypesFit PROVE Spec => []TypeOK
  OBVIOUS
<1>1. Init => CacheInv /\ ViewInv /\ TypeInv
  <2>1. Init => ViewPort = << >> /\ pass = "none"
    BY DEF Init, CacheInit
  <2>2. ViewPort = << >> => DOMAIN ViewPort = {}
    OBVIOUS
  <2>3. QED BY <2>1, <2>2, CacheStart, TypeStart DEF ViewInv, Nested
<1>2. (CacheInv /\ ViewInv /\ TypeInv) /\ [Next]_vars => (CacheInv /\ ViewInv /\ TypeInv)'
  BY CacheStep, ViewStep, TypeStep
<1>3. CacheInv /\ ViewInv /\ TypeInv => TypeOK
  BY TypesFollow
<1>4. QED BY <1>1, <1>2, <1>3, PTL DEF Spec
==============================================================================
