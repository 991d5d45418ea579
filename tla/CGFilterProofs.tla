--------------------------- MODULE CGFilterProofs ---------------------------
(***************************************************************************)
(* Proofs about the numbers CGFilter gives to functions, for every call    *)
(* graph that is walked from a function: the ranges of two functions nest  *)
(* or have nothing in common, instructions with one index are in one       *)
(* function, and the verdict is the order in which a run of main first     *)
(* comes to the instructions (MainRun).                                    *)
(*                                                                         *)
(* The argument is the one for the opening and closing times of a          *)
(* depth-first search.  The code has no clock, but i and the two path      *)
(* lengths make one (Clock): it goes on by one when a function is reached  *)
(* and by one when it is left, and these are the numbers given.            *)
(*                                                                         *)
(* A run of main takes the calls the walk has taken, in their order: what  *)
(* it executes next always has a higher place than what it has executed.   *)
(***************************************************************************)
EXTENDS MainRun, FiniteSetTheorems, SequenceTheorems, WellFoundedInduction, TLAPS

(* there are numbers enough: a function takes two *)
NumbersFit == IsFiniteSet(Functions) /\ 2 * Cardinality(Functions) <= Wrap

Clock == i + LastPathLen - Len(path)

OnPath(f) == \E k \in 1 .. Len(path) : path[k] = f

Closed(f) == f \in visited /\ ~OnPath(f)

Types ==
  /\ root \in Functions
  /\ calls \in [Functions \cup {External} -> Seq(Functions \cup {Declared})]
  /\ path \in Seq(visited) /\ visited \subseteq Functions
  /\ i \in Int /\ LastPathLen \in Int
  /\ first \in [Functions -> Int] /\ last \in [Functions -> Int]
  /\ pc \in {"walk", "ready"} /\ (pc = "ready" => path = <<>>)
  /\ \A f \in visited : first[f] >= 0

IsGreatest(k, S) == k \in S /\ \A j \in S : j <= k

(* functions are reached in the order of their first calls, each by one *)
Tree ==
  /\ \A f \in Functions : TreeCalls(f) # {} =>
       f \in visited /\ IsGreatest(Greatest(TreeCalls(f)), TreeCalls(f))
  /\ \A f \in Functions : \A k \in TreeCalls(f) :
       /\ calls[f][k] \in visited /\ first[f] < first[calls[f][k]]
       /\ \A j \in 1 .. k : calls[f][j] \notin Functions \ visited
       /\ \A g \in Functions : \A j \in TreeCalls(g) :
            calls[g][j] = calls[f][k] => g = f /\ j = k

(* the path leads along the last call of each function that was taken *)
Path ==
  /\ \A k \in 1 .. Len(path) - 1 :
       TreeCalls(path[k]) # {} /\ last_valid_child(path[k]) = path[k + 1]
  /\ \A j, k \in 1 .. Len(path) :
       /\ j < k => first[path[j]] < first[path[k]]
       /\ path[j] = path[k] => j = k

(* what the clock shows is the number that was given last *)
Time ==
  /\ i + LastPathLen = 2 * Cardinality(visited) - 1
  /\ path # <<>> =>
       Clock = IF TreeCalls(Top) = {} THEN first[Top] ELSE last[last_valid_child(Top)]
  /\ \A k \in 1 .. Len(path) : first[path[k]] <= Clock
  /\ \A f \in visited : Closed(f) => first[f] < last[f] /\ last[f] <= Clock

(* opening and closing numbers are like parentheses *)
Parentheses ==
  /\ \A f \in visited : Closed(f) =>
       \A k \in 1 .. Len(path) : first[path[k]] < first[f] \/ last[f] < first[path[k]]
  /\ \A f, g \in visited : Closed(f) /\ Closed(g) /\ f # g =>
       \/ last[f] < first[g] \/ last[g] < first[f]
       \/ first[f] < first[g] /\ last[g] < last[f]
       \/ first[g] < first[f] /\ last[f] < last[g]

(***************************************************************************)
(* The numbers that belong to f: its own opening, and the closings of the  *)
(* functions it was the first to call.  What opens or closes next to one   *)
(* of them is called by f, or f itself.                                    *)
(***************************************************************************)
Mark(f, n) ==
  \/ n = first[f]
  \/ \E j \in TreeCalls(f) : Closed(calls[f][j]) /\ n = last[calls[f][j]]

Marks ==
  /\ \A f \in Functions : \A k \in TreeCalls(f) : Mark(f, first[calls[f][k]] - 1)
  /\ \A f \in visited : Closed(f) => Mark(f, last[f] - 1)

(* what f calls later opens later, and closes before f does *)
InOrder ==
  /\ \A f \in Functions : \A j, k \in TreeCalls(f) :
       j < k => first[calls[f][j]] < first[calls[f][k]]
  /\ \A f \in visited : Closed(f) => \A k \in TreeCalls(f) :
       Closed(calls[f][k]) /\ last[calls[f][k]] < last[f]

WalkInv == Types /\ Tree /\ Path /\ Time /\ Parentheses /\ Marks /\ InOrder

----------------------------------------------------------------------------
LEMMA Fits ==
  ASSUME NEW n \in Int, 0 <= n, n < Wrap
  PROVE  Unsigned(n) = n
BY CGFilterAssumption DEF Unsigned

(* Nat is well-founded, so a set of numbers has a least one *)
LEMMA NatFounded == IsWellFoundedOn({p \in Nat \X Nat : p[1] < p[2]}, Nat)
BY NatLessThanWellFounded DEF OpToRel

LEMMA LeastOf ==
  ASSUME NEW S, S \subseteq Nat, S # {}
  PROVE  \E k \in S : \A j \in S : k <= j
<1>1. PICK k \in S : \A j \in S : ~(<<j, k>> \in {p \in Nat \X Nat : p[1] < p[2]})
  BY NatFounded, WFMin
<1>2. ASSUME NEW j \in S PROVE k <= j
  <2>1. j \in Nat /\ k \in Nat
    BY <1>1
  <2>2. ~(j < k)
    BY <1>1, <2>1
  <2>3. QED BY <2>1, <2>2
<1>3. QED BY <1>1, <1>2

LEMMA GreatestIs ==
  ASSUME NEW S, S \subseteq Int, NEW k, IsGreatest(k, S)
  PROVE  Greatest(S) = k
<1>1. \A m \in S : (\A j \in S : j <= m) => m = k
  BY DEF IsGreatest
<1>2. QED BY <1>1 DEF Greatest, IsGreatest

(* the calls a walk has taken, after one more *)
LEMMA TreeCallsGrow ==
  ASSUME NEW f, NEW k, k \in 1 .. Len(calls[f]), calls' = calls,
         Only' = Only \cup {CallInst(f, k)}
  PROVE  /\ TreeCalls(f)' = TreeCalls(f) \cup {k}
         /\ \A g : g # f => TreeCalls(g)' = TreeCalls(g)
<1>1. ASSUME NEW g, NEW j \in 1 .. Len(calls[g])
      PROVE  CallInst(g, j) = CallInst(f, k) <=> g = f /\ j = k
  <2>1. CallInst(g, j) = [f |-> g, at |-> 2 * j] /\ CallInst(f, k) = [f |-> f, at |-> 2 * k]
    BY DEF CallInst, Inst
  <2>2. ASSUME CallInst(g, j) = CallInst(f, k) PROVE g = f /\ j = k
    <3>1. g = f /\ 2 * j = 2 * k
      BY <2>1, <2>2
    <3>2. QED BY <3>1
  <2>3. QED BY <2>1, <2>2
<1>2. TreeCalls(f)' = TreeCalls(f) \cup {k}
  BY <1>1 DEF TreeCalls
<1>3. ASSUME NEW g, g # f PROVE TreeCalls(g)' = TreeCalls(g)
  BY <1>1, <1>3 DEF TreeCalls
<1>4. QED BY <1>2, <1>3

(* what the function the walk is in shows: its opening, or the last closing *)
LEMMA TopMark ==
  ASSUME WalkInv, path # <<>>
  PROVE  Mark(Top, Clock)
<1> DEFINE t == Top
           n == Len(path)
<1>1. Types /\ Tree /\ Path /\ Time
  BY DEF WalkInv
<1>2. n \in Nat \ {0} /\ t = path[n] /\ t \in visited /\ visited \subseteq Functions
  <2>1. n \in Nat \ {0} /\ path \in [1 .. n -> visited]
    BY <1>1, LenProperties, EmptySeq DEF Types
  <2>2. QED BY <1>1, <2>1 DEF Top, Last, Types
<1>3. CASE TreeCalls(t) = {}
  <2>1. Clock = first[t]
    BY <1>1, <1>3 DEF Time
  <2>2. QED BY <2>1 DEF Mark
<1>4. CASE TreeCalls(t) # {}
  <2> DEFINE j == Greatest(TreeCalls(t))
             g == calls[t][j]
  <2>1. Clock = last[g]
    BY <1>1, <1>4 DEF Time, last_valid_child
  <2>2. j \in TreeCalls(t)
    BY <1>1, <1>2, <1>4 DEF Tree, IsGreatest
  <2> HIDE DEF j, t, n
  <2>3. g \in visited /\ first[t] < first[g]
    BY <1>1, <1>2, <2>2 DEF Tree
  <2>4. ~OnPath(g)
    <3> HIDE DEF g
    <3>1. SUFFICES ASSUME NEW m \in 1 .. n, path[m] = g PROVE FALSE
      BY DEF OnPath, n
    <3>2. m = n \/ first[path[m]] < first[path[n]]
      BY <1>1, <1>2 DEF Path, n
    <3>3. first[t] \in Int /\ first[g] \in Int
      BY <1>1, <1>2, <2>3 DEF Types
    <3>4. QED BY <1>2, <2>3, <3>1, <3>2, <3>3
  <2>5. QED BY <2>1, <2>2, <2>3, <2>4 DEF Mark, Closed, t
<1>5. QED BY <1>3, <1>4

(***************************************************************************)
(* What a step of the walk comes to, of the functions the walk has been    *)
(* to: where it goes, and which numbers it gives.                          *)
(***************************************************************************)
Descended(k) ==
  LET c == calls[Top][k] IN
  /\ Top \in visited /\ c \in Functions \ visited /\ visited' = visited \cup {c}
  /\ \A j \in 1 .. k - 1 : calls[Top][j] \notin Functions \ visited
  /\ UNCHANGED <<root, calls, last>>
  /\ Clock \in Int /\ first'[c] = Clock + 1 /\ \A f \in visited : first'[f] = first[f]
  /\ \A f : TreeCalls(f)' = IF f = Top THEN TreeCalls(f) \cup {k} ELSE TreeCalls(f)
  /\ \A f : Closed(f)' <=> Closed(f)

Ascended ==
  /\ Top \in visited
  /\ \A j \in 1 .. Len(calls[Top]) : calls[Top][j] \notin Functions \ visited
  /\ UNCHANGED <<root, calls, visited, first>>
  /\ Clock \in Int /\ last'[Top] = Clock + 1
  /\ \A f \in Functions : f # Top => last'[f] = last[f]
  /\ \A f : TreeCalls(f)' = TreeCalls(f)
  /\ \A f : Closed(f)' <=> Closed(f) \/ f = Top

(***************************************************************************)
(* ++N: the child opens at the next tick of the clock, right after what    *)
(* its caller's range holds so far.                                        *)
(***************************************************************************)
LEMMA DescendKeeps ==
  ASSUME NumbersFit, WalkInv, NEW k \in 1 .. Len(calls[Top]), path # <<>>, Descend(k)
  PROVE  WalkInv' /\ Descended(k)
<1>1. Types /\ Tree /\ Path /\ Time /\ Parentheses /\ Marks /\ InOrder
  BY DEF WalkInv
<1>2. PICK n : n = Len(path)
  OBVIOUS
<1>3. PICK t : t = path[n]
  OBVIOUS
<1>4. PICK c : c = calls[t][k]
  OBVIOUS
<1>5. /\ n \in Nat \ {0} /\ Top = t /\ t \in visited /\ visited \subseteq Functions
      /\ \A m \in 1 .. n : path[m] \in visited
  <2>1. n \in Nat /\ path \in [1 .. n -> visited]
    BY <1>1, <1>2, LenProperties DEF Types
  <2>2. n # 0
    BY <1>1, <1>2, EmptySeq DEF Types
  <2>3. Top = t
    BY <1>2, <1>3 DEF Top, Last
  <2>4. QED BY <1>1, <1>3, <2>1, <2>2, <2>3 DEF Types
<1>6. /\ k \in 1 .. Len(calls[t]) /\ c \in Functions /\ c \notin visited
      /\ \A j \in Unvisited : k <= j
  BY <1>4, <1>5 DEF Descend, Unvisited
<1>7. t # External /\ t # c
  BY <1>5, <1>6, CGFilterAssumption
<1>8. /\ path' = Append(path, c) /\ visited' = visited \cup {c}
      /\ i' = NextNumber(n + 1) /\ LastPathLen' = n + 1
      /\ first' = [first EXCEPT ![c] = Unsigned(i')]
      /\ Only' = Only \cup {CallInst(t, k)}
      /\ root' = root /\ calls' = calls /\ last' = last /\ pc' = "walk"
  BY <1>2, <1>4, <1>5, <1>7 DEF Descend
<1>9. /\ path' \in Seq(visited') /\ Len(path') = n + 1 /\ path'[n + 1] = c /\ path' # <<>>
      /\ \A m \in 1 .. n : path'[m] = path[m]
  <2>1. path \in Seq(visited') /\ c \in visited'
    <3>1. visited \subseteq visited'
      BY <1>8
    <3>2. QED BY <1>1, <1>8, <3>1, SeqMonotonic DEF Types
  <2>2. QED BY <1>2, <1>8, <2>1, AppendProperties
<1>10. Top' = c
  BY <1>9 DEF Top, Last
<1>11. /\ IsFiniteSet(visited) /\ Cardinality(visited) \in Nat
       /\ Cardinality(visited') = Cardinality(visited) + 1
       /\ Cardinality(visited') <= Cardinality(Functions)
       /\ Cardinality(Functions) \in Nat
  <2>1. IsFiniteSet(Functions) /\ visited \in SUBSET Functions
    BY <1>5 DEF NumbersFit
  <2>2. IsFiniteSet(visited)
    BY <2>1, FS_Subset
  <2>3. Cardinality(visited') = Cardinality(visited) + 1
    BY <1>6, <1>8, <2>2, FS_AddElement
  <2>4. visited' \in SUBSET Functions
    BY <1>6, <1>8, <2>1
  <2>5. Cardinality(visited') <= Cardinality(Functions)
    BY <2>1, <2>4, FS_Subset
  <2>6. QED BY <2>1, <2>2, <2>3, <2>5, FS_CardinalityType
<1>12. /\ i \in Int /\ LastPathLen \in Int /\ Clock \in Int
       /\ Clock = 2 * Cardinality(visited) - 1 - n
       /\ i' = Clock + 1 /\ Clock' = Clock + 1
       /\ i' + LastPathLen' = 2 * Cardinality(visited') - 1
  <2>1. i \in Int /\ LastPathLen \in Int /\ i + LastPathLen = 2 * Cardinality(visited) - 1
    BY <1>1 DEF Types, Time
  <2>2. i' = i + LastPathLen - (n + 1) + 2
    BY <1>8 DEF NextNumber
  <2>3. Clock = i + LastPathLen - n
    BY <1>2 DEF Clock
  <2>4. Clock' = i' + (n + 1) - (n + 1)
    BY <1>8, <1>9 DEF Clock
  <2>5. LastPathLen' = n + 1
    BY <1>8
  <2>6. PICK v : v = Cardinality(visited)
    OBVIOUS
  <2>7. v \in Nat /\ i + LastPathLen = 2 * v - 1 /\ Cardinality(visited') = v + 1
    BY <1>11, <2>1, <2>6
  <2>8. i' = Clock + 1 /\ Clock \in Int
    BY <1>5, <2>1, <2>2, <2>3
  <2>9. Clock' = Clock + 1
    BY <1>5, <2>4, <2>8
  <2>10. Clock = 2 * v - 1 - n
    BY <1>5, <2>1, <2>3, <2>7
  <2>11. i' + LastPathLen' = 2 * (v + 1) - 1
    BY <1>5, <2>5, <2>7, <2>8, <2>10
  <2>12. QED BY <2>1, <2>6, <2>7, <2>8, <2>9, <2>10, <2>11
<1>13. first[t] <= Clock /\ 0 <= first[t] /\ first[t] \in Int
  <2>1. Time /\ n \in 1 .. Len(path)
    BY <1>1, <1>2, <1>5
  <2>2. first[path[n]] <= Clock
    BY <2>1 DEF Time
  <2>3. 0 <= first[t] /\ first[t] \in Int
    BY <1>1, <1>5 DEF Types
  <2>4. QED BY <1>3, <2>2, <2>3
<1>14. Unsigned(i') = Clock + 1
  <2>1. Clock + 1 < Wrap
    BY <1>5, <1>11, <1>12, CGFilterAssumption DEF NumbersFit
  <2>2. 0 <= Clock + 1
    BY <1>12, <1>13
  <2>3. QED BY <1>12, <2>1, <2>2, Fits
<1>15. /\ first' \in [Functions -> Int] /\ first'[c] = Clock + 1
       /\ \A f \in visited : first'[f] = first[f]
  <2>1. first' = [first EXCEPT ![c] = Clock + 1]
    BY <1>8, <1>14
  <2>2. first \in [Functions -> Int] /\ Clock + 1 \in Int
    <3>1. Types
      BY <1>1
    <3>2. first \in [Functions -> Int]
      BY <3>1 DEF Types
    <3>3. Clock \in Int
      BY <1>12
    <3>4. QED BY <3>2, <3>3
  <2>3. c \in Functions /\ c \notin visited /\ visited \subseteq Functions
    BY <1>5, <1>6
  <2>4. PICK x \in Int : x = Clock + 1
    BY <2>2
  <2>5. first' = [first EXCEPT ![c] = x]
    BY <2>1, <2>4
  <2>6. first' \in [Functions -> Int] /\ first'[c] = x /\ \A f \in visited : first'[f] = first[f]
    BY <2>2, <2>3, <2>5
  <2>7. QED BY <2>4, <2>6
<1>16. /\ TreeCalls(t)' = TreeCalls(t) \cup {k}
       /\ \A f : f # t => TreeCalls(f)' = TreeCalls(f)
  BY <1>6, <1>8, TreeCallsGrow
<1>17. TreeCalls(c)' = {} /\ TreeCalls(c) = {}
  BY <1>1, <1>6, <1>7, <1>16 DEF Tree
<1>18. ASSUME NEW f
       PROVE  TreeCalls(f) \subseteq 1 .. Len(calls[f]) /\ TreeCalls(f) \subseteq Int
  BY DEF TreeCalls
<1>19. \A j \in TreeCalls(t) : j < k
  <2>1. SUFFICES ASSUME NEW j \in TreeCalls(t), k <= j PROVE FALSE
    BY <1>6, <1>18
  <2>2. k \in 1 .. j
    BY <1>6, <1>18, <2>1
  <2>3. c \notin Functions \ visited
    BY <1>1, <1>4, <1>5, <2>1, <2>2 DEF Tree
  <2>4. QED BY <1>6, <2>3
<1>20. IsGreatest(k, TreeCalls(t)') /\ Greatest(TreeCalls(t)') = k
  <2>1. TreeCalls(t)' \subseteq Int
    BY <1>6, <1>16, <1>18
  <2>2. IsGreatest(k, TreeCalls(t)')
    BY <1>6, <1>16, <1>18, <1>19 DEF IsGreatest
  <2> DEFINE S == TreeCalls(t) \cup {k}
  <2>3. S \subseteq Int /\ IsGreatest(k, S)
    BY <1>16, <2>1, <2>2
  <2>4. Greatest(S) = k
    <3> HIDE DEF S
    <3>1. QED BY <2>3, GreatestIs
  <2>5. QED BY <1>16, <2>2, <2>4
<1>21. /\ last_valid_child(t)' = c
       /\ \A f : f # t => last_valid_child(f)' = last_valid_child(f)
  <2>1. last_valid_child(t)' = calls[t][k]
    BY <1>8, <1>16, <1>20 DEF last_valid_child
  <2>2. QED BY <1>4, <1>8, <1>16, <2>1 DEF last_valid_child
<1>22. /\ \A f : OnPath(f)' <=> OnPath(f) \/ f = c
       /\ OnPath(t) /\ \A f : OnPath(f) => f \in visited
  <2>1. ASSUME NEW f PROVE OnPath(f)' <=> OnPath(f) \/ f = c
    <3>1. 1 .. n + 1 = (1 .. n) \cup {n + 1}
      BY <1>5
    <3>2. QED BY <1>2, <1>9, <3>1 DEF OnPath
  <2>2. OnPath(t)
    BY <1>2, <1>3, <1>5 DEF OnPath
  <2>3. QED BY <1>2, <1>5, <2>1, <2>2 DEF OnPath
<1>23. \A f : Closed(f)' <=> Closed(f)
  BY <1>6, <1>8, <1>22 DEF Closed
<1>24. Types'
  <2>1. i' \in Int /\ LastPathLen' \in Int
    <3>1. i' = Clock + 1 /\ Clock \in Int /\ LastPathLen' = n + 1
      BY <1>8, <1>12
    <3>2. QED BY <1>5, <3>1
  <2>2. \A f \in visited' : first'[f] >= 0
    <3>1. \A f \in visited : first'[f] >= 0
      BY <1>1, <1>15 DEF Types
    <3>2. first'[c] >= 0
      BY <1>12, <1>13, <1>15
    <3>3. QED BY <1>8, <3>1, <3>2
  <2>3. visited' \subseteq Functions
    BY <1>5, <1>6, <1>8
  <2>4. QED BY <1>1, <1>8, <1>9, <1>15, <2>1, <2>2, <2>3 DEF Types
<1>25. Tree'
  <2>1. ASSUME NEW f \in Functions, TreeCalls(f)' # {}
        PROVE  f \in visited' /\ IsGreatest(Greatest(TreeCalls(f)'), TreeCalls(f)')
    <3>1. CASE f = t
      BY <1>5, <1>8, <1>20, <3>1
    <3>2. CASE f # t
      BY <1>1, <1>8, <1>16, <2>1, <3>2 DEF Tree
    <3>3. QED BY <3>1, <3>2
  <2>2. ASSUME NEW f \in Functions, NEW m \in TreeCalls(f)'
        PROVE  (f = t /\ m = k) \/ m \in TreeCalls(f)
    BY <1>16
  <2>3. ASSUME NEW f \in Functions, NEW m \in TreeCalls(f)
        PROVE  /\ f \in visited /\ calls[f][m] \in visited
               /\ first[f] < first[calls[f][m]]
               /\ \A j \in 1 .. m : calls[f][j] \notin Functions \ visited
    BY <1>1, <2>3 DEF Tree
  <2>4. ASSUME NEW f \in Functions, NEW m \in TreeCalls(f)'
        PROVE  /\ calls'[f][m] \in visited' /\ first'[f] < first'[calls'[f][m]]
               /\ \A j \in 1 .. m : calls'[f][j] \notin Functions \ visited'
    <3>1. CASE f = t /\ m = k
      <4>1. calls[t][k] \in visited' /\ first'[t] < first'[calls[t][k]]
        BY <1>4, <1>5, <1>8, <1>12, <1>13, <1>15
      <4>2. ASSUME NEW j \in 1 .. k PROVE calls[t][j] \notin Functions \ visited'
        <5>1. CASE j = k
          BY <1>4, <1>8, <5>1
        <5>2. CASE j # k
          <6>1. j \in 1 .. Len(calls[t]) /\ ~(k <= j)
            BY <1>6, <5>2
          <6>2. j \notin Unvisited
            BY <1>6, <6>1
          <6>3. QED BY <1>5, <1>8, <6>1, <6>2 DEF Unvisited
        <5>3. QED BY <5>1, <5>2
      <4>3. QED BY <1>8, <3>1, <4>1, <4>2
    <3>2. CASE m \in TreeCalls(f)
      BY <1>8, <1>15, <2>3, <3>2
    <3>3. QED BY <2>2, <3>1, <3>2
  <2>5. ASSUME NEW f \in Functions, NEW m \in TreeCalls(f)',
               NEW g \in Functions, NEW j \in TreeCalls(g)', calls'[g][j] = calls'[f][m]
        PROVE  g = f /\ j = m
    <3>1. CASE (f = t /\ m = k) \/ (g = t /\ j = k)
      <4>1. c = calls[f][m] /\ c = calls[g][j]
        BY <1>4, <1>8, <2>5, <3>1
      <4>2. m \notin TreeCalls(f) /\ j \notin TreeCalls(g)
        BY <1>6, <2>3, <4>1
      <4>3. QED BY <2>2, <4>2
    <3>2. CASE m \in TreeCalls(f) /\ j \in TreeCalls(g)
      BY <1>1, <1>8, <2>5, <3>2 DEF Tree
    <3>3. QED BY <2>2, <3>1, <3>2
  <2>6. QED BY <2>1, <2>4, <2>5 DEF Tree
<1>26. Path'
  <2>1. ASSUME NEW m \in 1 .. n
        PROVE  /\ path[m] \in visited /\ path[m] # c /\ path'[m] = path[m]
               /\ first[path[m]] <= Clock /\ first[path[m]] \in Int
               /\ first'[path'[m]] = first[path[m]]
    <3>1. path[m] \in visited /\ path'[m] = path[m]
      BY <1>5, <1>9
    <3>2. first[path[m]] <= Clock
      BY <1>1, <1>2 DEF Time
    <3>3. first[path[m]] \in Int
      BY <1>1, <1>5, <3>1 DEF Types
    <3>4. first'[path'[m]] = first[path[m]]
      BY <1>15, <3>1
    <3>5. path[m] # c
      BY <1>6, <3>1
    <3>6. QED BY <3>1, <3>2, <3>3, <3>4, <3>5
  <2>2. ASSUME NEW m \in 1 .. n, NEW f, f = path'[m]
        PROVE  TreeCalls(f)' # {} /\ last_valid_child(f)' = path'[m + 1]
    <3>1. CASE m = n
      BY <1>3, <1>9, <1>16, <1>21, <2>2, <3>1
    <3>2. CASE m # n
      <4>1. m \in 1 .. Len(path) - 1 /\ m + 1 \in 1 .. n
        BY <1>2, <1>5, <3>2
      <4>2. f = path[m] /\ TreeCalls(f) # {} /\ last_valid_child(f) = path[m + 1]
        BY <1>1, <1>9, <2>2, <4>1 DEF Path
      <4>3. f # t
        <5>1. m = n <=> path[m] = path[n]
          BY <1>1, <1>2, <1>5 DEF Path
        <5>2. QED BY <1>3, <3>2, <4>2, <5>1
      <4>4. QED BY <1>9, <1>16, <1>21, <4>1, <4>2, <4>3
    <3>3. QED BY <3>1, <3>2
  <2>3. ASSUME NEW j \in 1 .. n + 1, NEW m \in 1 .. n + 1
        PROVE  /\ j < m => first'[path'[j]] < first'[path'[m]]
               /\ path'[j] = path'[m] => j = m
    <3>1. CASE j \in 1 .. n /\ m \in 1 .. n
      <4>1. /\ j < m => first[path[j]] < first[path[m]]
            /\ path[j] = path[m] => j = m
        BY <1>1, <1>2, <3>1 DEF Path
      <4>2. QED BY <2>1, <3>1, <4>1
    <3>2. CASE j \in 1 .. n /\ m = n + 1
      <4>1. first'[path'[j]] <= Clock /\ first'[path'[m]] = Clock + 1
            /\ first'[path'[j]] \in Int /\ path'[j] # path'[m]
        BY <1>9, <1>15, <2>1, <3>2
      <4>2. QED BY <1>12, <3>2, <4>1
    <3>3. CASE j = n + 1
      <4>1. CASE m \in 1 .. n
        <5>1. path'[j] # path'[m] /\ ~(j < m)
          BY <1>5, <1>9, <2>1, <3>3, <4>1
        <5>2. QED BY <5>1
      <4>2. CASE m = n + 1
        BY <1>5, <3>3, <4>2
      <4>3. QED BY <1>5, <4>1, <4>2
    <3>4. QED BY <1>5, <3>1, <3>2, <3>3
  <2>4. Len(path') - 1 = n /\ Len(path') = n + 1
    BY <1>5, <1>9
  <2>5. ASSUME NEW m \in 1 .. n
        PROVE  TreeCalls(path[m])' # {} /\ last_valid_child(path[m])' = path[m + 1]'
    <3>1. PICK f : f = path'[m]
      OBVIOUS
    <3>2. TreeCalls(f)' # {} /\ last_valid_child(f)' = path'[m + 1]
      BY <2>2, <3>1
    <3>3. TreeCalls(path[m])' = TreeCalls(f)' /\ last_valid_child(path[m])' = last_valid_child(f)'
      BY <3>1 DEF last_valid_child, TreeCalls
    <3>4. QED BY <3>2, <3>3
  <2>6. QED BY <2>3, <2>4, <2>5 DEF Path
<1>27. Time'
  <2>1. Clock' = IF TreeCalls(Top)' = {} THEN first'[Top'] ELSE last[last_valid_child(Top)]'
    <3>1. PICK f : f = Top'
      OBVIOUS
    <3>2. f = c /\ TreeCalls(Top)' = TreeCalls(f)'
      BY <1>10, <3>1 DEF TreeCalls
    <3>3. TreeCalls(Top)' = {} /\ Clock' = first'[Top']
      BY <1>10, <1>12, <1>15, <1>17, <3>2
    <3>4. QED BY <3>3
  <2>2. ASSUME NEW m \in 1 .. n + 1 PROVE first'[path'[m]] <= Clock'
    <3>1. CASE m = n + 1
      BY <1>9, <1>12, <1>15, <3>1
    <3>2. CASE m # n + 1
      <4>1. m \in 1 .. n
        BY <1>5, <3>2
      <4>2. first[path[m]] <= Clock /\ path[m] \in visited /\ path'[m] = path[m]
        BY <1>1, <1>2, <1>5, <1>9, <4>1 DEF Time
      <4>3. first[path[m]] \in Int
        BY <1>1, <1>5, <4>2 DEF Types
      <4>4. QED BY <1>12, <1>15, <4>2, <4>3
    <3>3. QED BY <3>1, <3>2
  <2>3. ASSUME NEW f \in visited', Closed(f)'
        PROVE  first'[f] < last'[f] /\ last'[f] <= Clock'
    <3>1. f \in visited /\ Closed(f)
      BY <1>23, <2>3 DEF Closed
    <3>2. first[f] < last[f] /\ last[f] <= Clock /\ last[f] \in Int
      BY <1>1, <1>5, <3>1 DEF Time, Types
    <3>3. QED BY <1>8, <1>12, <1>15, <3>1, <3>2
  <2>4. QED BY <1>9, <1>12, <2>1, <2>2, <2>3 DEF Time
<1>28. Parentheses'
  <2>1. ASSUME NEW f \in visited', Closed(f)'
        PROVE  /\ f \in visited /\ Closed(f) /\ first'[f] = first[f] /\ last'[f] = last[f]
               /\ last[f] <= Clock /\ last[f] \in Int
    <3>1. f \in visited /\ Closed(f)
      BY <1>23, <2>1 DEF Closed
    <3>2. QED BY <1>1, <1>5, <1>8, <1>15, <3>1 DEF Time, Types
  <2>2. ASSUME NEW f \in visited', Closed(f)', NEW m \in 1 .. n + 1
        PROVE  first'[path'[m]] < first'[f] \/ last'[f] < first'[path'[m]]
    <3>1. CASE m = n + 1
      BY <1>9, <1>12, <1>15, <2>1, <2>2, <3>1
    <3>2. CASE m # n + 1
      <4>1. m \in 1 .. n
        BY <1>5, <3>2
      <4>2. path'[m] = path[m] /\ path[m] \in visited
        BY <1>5, <1>9, <4>1
      <4>3. first[path[m]] < first[f] \/ last[f] < first[path[m]]
        BY <1>1, <1>2, <2>1, <2>2, <4>1 DEF Parentheses
      <4>4. QED BY <1>15, <2>1, <2>2, <4>2, <4>3
    <3>3. QED BY <3>1, <3>2
  <2>3. ASSUME NEW f \in visited', NEW g \in visited', Closed(f)', Closed(g)', f # g
        PROVE  \/ last'[f] < first'[g] \/ last'[g] < first'[f]
               \/ first'[f] < first'[g] /\ last'[g] < last'[f]
               \/ first'[g] < first'[f] /\ last'[f] < last'[g]
    BY <1>1, <2>1, <2>3 DEF Parentheses
  <2>4. QED BY <1>9, <2>2, <2>3 DEF Parentheses
<1>29. Marks'
  <2>1. ASSUME NEW f \in visited, NEW m, Mark(f, m)
        PROVE  Mark(f, m)'
    <3>1. CASE m = first[f]
      BY <1>15, <3>1 DEF Mark
    <3>2. ASSUME NEW j \in TreeCalls(f), Closed(calls[f][j]), m = last[calls[f][j]]
          PROVE  Mark(f, m)'
      <4>1. j \in TreeCalls(f)'
        BY <1>16
      <4>2. PICK g : g = calls[f][j]
        OBVIOUS
      <4>3. Closed(g)' /\ m = last'[g] /\ g = calls'[f][j]
        BY <1>8, <1>23, <3>2, <4>2
      <4>4. Closed(calls[f][j])'
        BY <4>3 DEF Closed, OnPath
      <4>5. QED BY <4>1, <4>3, <4>4 DEF Mark
    <3>3. QED BY <2>1, <3>1, <3>2 DEF Mark
  <2>2. Mark(t, Clock)
    BY <1>5, TopMark
  <2>3. ASSUME NEW f \in Functions, NEW m \in TreeCalls(f)'
        PROVE  Mark(f, first[calls[f][m]] - 1)'
    <3>1. CASE f = t /\ m = k
      <4>1. first'[calls'[f][m]] - 1 = Clock
        BY <1>4, <1>8, <1>12, <1>15, <3>1
      <4>2. PICK x : x = Clock
        OBVIOUS
      <4>3. Mark(f, x)'
        BY <1>5, <2>1, <2>2, <3>1, <4>2
      <4>4. QED BY <4>1, <4>2, <4>3 DEF Mark
    <3>2. CASE m \in TreeCalls(f)
      <4>1. f \in visited /\ calls[f][m] \in visited
        BY <1>1, <3>2 DEF Tree
      <4>2. PICK x : x = first[calls[f][m]] - 1
        OBVIOUS
      <4>3. Mark(f, x)
        BY <1>1, <3>2, <4>2 DEF Marks
      <4>4. Mark(f, x)'
        BY <2>1, <4>1, <4>3
      <4>5. first'[calls'[f][m]] - 1 = x
        BY <1>8, <1>15, <4>1, <4>2
      <4>6. QED BY <4>4, <4>5 DEF Mark
    <3>3. QED BY <1>16, <2>3, <3>1, <3>2
  <2>4. ASSUME NEW f \in visited', Closed(f)'
        PROVE  Mark(f, last[f] - 1)'
    <3>1. f \in visited /\ Closed(f)
      BY <1>23, <2>4 DEF Closed
    <3>2. PICK x : x = last[f] - 1
      OBVIOUS
    <3>3. Mark(f, x)'
      BY <1>1, <2>1, <3>1, <3>2 DEF Marks
    <3>4. QED BY <1>8, <3>2, <3>3 DEF Mark
  <2>5. QED BY <2>3, <2>4 DEF Marks
<1>30. InOrder'
  <2>1. ASSUME NEW f \in Functions, NEW m \in TreeCalls(f)
        PROVE  /\ f \in visited /\ calls[f][m] \in visited /\ m \in Int
               /\ first'[calls[f][m]] = first[calls[f][m]]
               /\ first[calls[f][m]] <= Clock /\ first[calls[f][m]] \in Int
    <3>1. f \in visited /\ calls[f][m] \in visited
      BY <1>1 DEF Tree
    <3>2. PICK g : g = calls[f][m]
      OBVIOUS
    <3>3. first[g] \in Int /\ last[g] \in Int
      BY <1>1, <1>5, <3>1, <3>2 DEF Types
    <3>4. CASE OnPath(g)
      BY <1>1, <1>15, <1>18, <3>1, <3>2, <3>3, <3>4 DEF OnPath, Time
    <3>5. CASE ~OnPath(g)
      <4>1. first[g] < last[g] /\ last[g] <= Clock
        BY <1>1, <3>1, <3>2, <3>5 DEF Time, Closed
      <4>2. QED BY <1>12, <1>15, <1>18, <3>1, <3>2, <3>3, <4>1
    <3>6. QED BY <3>4, <3>5
  <2>2. ASSUME NEW f \in Functions, NEW j \in TreeCalls(f)', NEW m \in TreeCalls(f)', j < m
        PROVE  first'[calls'[f][j]] < first'[calls'[f][m]]
    <3>1. CASE f = t /\ m = k
      <4>1. j \in TreeCalls(t)
        BY <1>6, <1>16, <2>2, <3>1
      <4>2. first'[calls[t][j]] <= Clock /\ first'[calls[t][j]] \in Int
        BY <1>5, <2>1, <4>1
      <4>3. QED BY <1>4, <1>8, <1>12, <1>15, <3>1, <4>2
    <3>2. CASE f = t /\ j = k /\ m # k
      <4>1. m \in TreeCalls(t)
        BY <1>16, <3>2
      <4>2. m < k /\ m \in Int /\ k \in Int
        BY <1>6, <1>18, <1>19, <4>1
      <4>3. QED BY <2>2, <3>2, <4>2
    <3>3. CASE j \in TreeCalls(f) /\ m \in TreeCalls(f)
      BY <1>1, <1>8, <2>1, <2>2, <3>3 DEF InOrder
    <3>4. QED BY <1>16, <3>1, <3>2, <3>3
  <2>3. ASSUME NEW f \in visited', Closed(f)', NEW m \in TreeCalls(f)'
        PROVE  Closed(calls[f][m])' /\ last'[calls'[f][m]] < last'[f]
    <3>1. f \in visited /\ Closed(f) /\ f # t
      BY <1>22, <1>23, <2>3 DEF Closed
    <3>2. m \in TreeCalls(f)
      BY <1>16, <3>1
    <3>3. PICK g : g = calls[f][m]
      OBVIOUS
    <3>4. Closed(g)' /\ last'[g] < last'[f] /\ g = calls'[f][m]
      BY <1>1, <1>8, <1>23, <3>1, <3>2, <3>3 DEF InOrder
    <3>5. QED BY <3>4 DEF Closed, OnPath
  <2>4. QED BY <2>2, <2>3 DEF InOrder
<1>31. Descended(k)
  <2>1. \A j \in 1 .. k - 1 : calls[t][j] \notin Functions \ visited
    <3>1. SUFFICES ASSUME NEW j \in 1 .. k - 1, calls[t][j] \in Functions \ visited PROVE FALSE
      OBVIOUS
    <3>2. j \in 1 .. Len(calls[t]) /\ ~(k <= j)
      BY <1>6
    <3>3. QED BY <1>5, <1>6, <3>1, <3>2 DEF Unvisited
  <2>2. \A f : TreeCalls(f)' = IF f = t THEN TreeCalls(f) \cup {k} ELSE TreeCalls(f)
    BY <1>16
  <2>3. QED BY <1>4, <1>5, <1>6, <1>8, <1>12, <1>15, <1>23, <2>1, <2>2 DEF Descended
<1>32. QED BY <1>24, <1>25, <1>26, <1>27, <1>28, <1>29, <1>30, <1>31 DEF WalkInv

(***************************************************************************)
(* A function that is left closes at the next tick of the clock, after all *)
(* that was reached from it.                                               *)
(***************************************************************************)
LEMMA AscendKeeps ==
  ASSUME NumbersFit, WalkInv, Ascend
  PROVE  WalkInv' /\ Ascended
<1>1. Types /\ Tree /\ Path /\ Time /\ Parentheses /\ Marks /\ InOrder
  BY DEF WalkInv
<1>2. PICK n : n = Len(path)
  OBVIOUS
<1>3. PICK t : t = path[n]
  OBVIOUS
<1>4. /\ n \in Nat \ {0} /\ Top = t /\ t \in visited /\ visited \subseteq Functions
      /\ \A m \in 1 .. n : path[m] \in visited
  <2>1. n \in Nat /\ path \in [1 .. n -> visited] /\ path # <<>>
    BY <1>1, <1>2, LenProperties DEF Types, Ascend
  <2>2. n # 0
    BY <1>1, <1>2, <2>1, EmptySeq DEF Types
  <2>3. Top = t
    BY <1>2, <1>3 DEF Top, Last
  <2>4. QED BY <1>1, <1>3, <2>1, <2>2, <2>3 DEF Types
<1>5. UNCHANGED <<root, calls, visited, i, LastPathLen, first, keys, Only, pc>>
      /\ path' = Front(path) /\ path # <<>> /\ pc = "walk"
  BY DEF Ascend
<1>6. /\ path' \in Seq(visited') /\ Len(path') = n - 1
      /\ \A m \in 1 .. n - 1 : path'[m] = path[m]
  <2>1. path' = SubSeq(path, 1, n - 1)
    BY <1>2, <1>5 DEF Front
  <2>2. \A m \in 1 .. n - 1 : path[m] \in visited
    BY <1>4
  <2>3. 1 \in Int /\ n - 1 \in Int
    BY <1>4
  <2>4. /\ SubSeq(path, 1, n - 1) \in Seq(visited)
        /\ Len(SubSeq(path, 1, n - 1)) = IF 1 <= n - 1 THEN (n - 1) - 1 + 1 ELSE 0
        /\ \A m \in 1 .. (n - 1) - 1 + 1 : SubSeq(path, 1, n - 1)[m] = path[1 + m - 1]
    BY <2>2, <2>3, SubSeqProperties
  <2>5. Len(path') = n - 1
    BY <1>4, <2>1, <2>4
  <2>6. ASSUME NEW m \in 1 .. n - 1 PROVE path'[m] = path[m]
    <3>1. m \in 1 .. (n - 1) - 1 + 1 /\ 1 + m - 1 = m
      BY <1>4
    <3>2. path'[m] = path[1 + m - 1]
      BY <2>1, <2>4, <3>1
    <3>3. QED BY <3>1, <3>2
  <2>7. QED BY <1>5, <2>1, <2>4, <2>5, <2>6
<1>7. /\ \A f : TreeCalls(f)' = TreeCalls(f)
      /\ \A f : last_valid_child(f)' = last_valid_child(f)
  BY <1>5 DEF TreeCalls, last_valid_child
<1>8. PICK T : T = Clock
  OBVIOUS
<1>9. T \in Int /\ Clock' = T + 1 /\ T + 1 < Wrap
  <2>1. IsFiniteSet(Functions) /\ visited \in SUBSET Functions
    BY <1>4 DEF NumbersFit
  <2>2. PICK v : v = Cardinality(visited)
    OBVIOUS
  <2>3. v \in Nat /\ v <= Cardinality(Functions) /\ Cardinality(Functions) \in Nat
    BY <2>1, <2>2, FS_Subset, FS_CardinalityType
  <2>4. i \in Int /\ LastPathLen \in Int /\ i + LastPathLen = 2 * v - 1
    BY <1>1, <2>2 DEF Types, Time
  <2>5. T = i + LastPathLen - n
    BY <1>2, <1>8 DEF Clock
  <2>6. Clock' = i + LastPathLen - (n - 1)
    BY <1>5, <1>6 DEF Clock
  <2>7. QED BY <1>4, <2>3, <2>4, <2>5, <2>6, CGFilterAssumption DEF NumbersFit
<1>10. first[t] <= T /\ 0 <= first[t] /\ first[t] \in Int
  <2>1. n \in 1 .. Len(path) /\ path[n] = t
    BY <1>2, <1>3, <1>4
  <2>2. \A k \in 1 .. Len(path) : first[path[k]] <= Clock
    BY <1>1 DEF Time
  <2>3. first[t] <= T
    BY <1>8, <2>1, <2>2
  <2>4. first[t] \in Int /\ first[t] >= 0
    BY <1>1, <1>4 DEF Types
  <2>5. QED BY <2>3, <2>4
<1>11. last' = [last EXCEPT ![t] = T + 1]
  <2>1. t # External
    BY <1>4, CGFilterAssumption
  <2>2. last' = [last EXCEPT ![t] =
                   IF last_valid_child(t) = None THEN Unsigned(first[t] + 1)
                   ELSE Unsigned(last[last_valid_child(t)] + 1)]
    BY <1>4, <2>1 DEF Ascend
  <2>3. Unsigned(T + 1) = T + 1
    BY <1>9, <1>10, Fits
  <2>4. CASE TreeCalls(t) = {}
    <3>1. T = first[t] /\ last_valid_child(t) = None
      BY <1>1, <1>4, <1>5, <1>8, <2>4 DEF Time, last_valid_child
    <3>2. QED BY <2>2, <2>3, <3>1
  <2>5. CASE TreeCalls(t) # {}
    <3>1. T = last[last_valid_child(t)]
      BY <1>1, <1>4, <1>5, <1>8, <2>5 DEF Time
    <3>2. last_valid_child(t) \in visited
      <4>1. Greatest(TreeCalls(t)) \in TreeCalls(t)
        BY <1>1, <1>4, <2>5 DEF Tree, IsGreatest
      <4>2. QED BY <1>1, <1>4, <2>5, <4>1 DEF Tree, last_valid_child
    <3>3. last_valid_child(t) # None
      BY <1>4, <3>2, CGFilterAssumption
    <3>4. QED BY <2>2, <2>3, <3>1, <3>3
  <2>6. QED BY <2>4, <2>5
<1>12. /\ last' \in [Functions -> Int] /\ last'[t] = T + 1
       /\ \A f \in Functions : f # t => last'[f] = last[f]
  <2>1. last \in [Functions -> Int] /\ T + 1 \in Int
    BY <1>1, <1>9 DEF Types
  <2>2. QED BY <1>4, <1>11, <2>1
<1>13. \A f : OnPath(f)' <=> OnPath(f) /\ f # t
  <2>1. ASSUME NEW f PROVE OnPath(f)' <=> OnPath(f) /\ f # t
    <3>1. OnPath(f)' <=> \E m \in 1 .. n - 1 : path[m] = f
      BY <1>4, <1>6 DEF OnPath
    <3>2. \A m \in 1 .. n : path[m] = t <=> m = n
      BY <1>1, <1>2, <1>3, <1>4 DEF Path
    <3>3. 1 .. n = (1 .. n - 1) \cup {n}
      BY <1>4
    <3>4. QED BY <1>2, <1>3, <1>4, <3>1, <3>2, <3>3 DEF OnPath
  <2>2. QED BY <2>1
<1>14. OnPath(t) /\ \A f : Closed(f)' <=> Closed(f) \/ f = t
  <2>1. OnPath(t)
    BY <1>2, <1>3, <1>4 DEF OnPath
  <2>2. QED BY <1>4, <1>5, <1>13, <2>1 DEF Closed
<1>15. Types'
  BY <1>1, <1>5, <1>6, <1>12 DEF Types
<1>16. Tree'
  BY <1>1, <1>5, <1>7 DEF Tree
<1>17. Path'
  <2>1. ASSUME NEW m \in 1 .. Len(path') - 1
        PROVE  TreeCalls(path[m])' # {} /\ last_valid_child(path[m])' = path'[m + 1]
    <3>1. m \in 1 .. Len(path) - 1 /\ m \in 1 .. n - 1 /\ m + 1 \in 1 .. n - 1
      BY <1>2, <1>4, <1>6
    <3>2. PICK f : f = path'[m]
      OBVIOUS
    <3>3. f = path[m] /\ path'[m + 1] = path[m + 1]
      BY <1>6, <3>1, <3>2
    <3>4. TreeCalls(f) # {} /\ last_valid_child(f) = path[m + 1]
      BY <1>1, <3>1, <3>3 DEF Path
    <3>5. TreeCalls(path[m])' = TreeCalls(f)' /\ last_valid_child(path[m])' = last_valid_child(f)'
      BY <3>2 DEF last_valid_child, TreeCalls
    <3>6. QED BY <1>7, <3>3, <3>4, <3>5
  <2>2. ASSUME NEW j \in 1 .. Len(path'), NEW m \in 1 .. Len(path')
        PROVE  /\ j < m => first'[path'[j]] < first'[path'[m]]
               /\ path'[j] = path'[m] => j = m
    <3>1. j \in 1 .. n - 1 /\ m \in 1 .. n - 1 /\ j \in 1 .. Len(path) /\ m \in 1 .. Len(path)
      BY <1>2, <1>4, <1>6
    <3>2. path'[j] = path[j] /\ path'[m] = path[m]
      BY <1>6, <3>1
    <3>3. QED BY <1>1, <1>5, <3>1, <3>2 DEF Path
  <2>3. QED BY <2>1, <2>2 DEF Path
<1>18. Time'
  <2>1. ASSUME path' # <<>>
        PROVE  Clock' = IF TreeCalls(Top)' = {} THEN first'[Top'] ELSE last[last_valid_child(Top)]'
    <3>1. n - 1 \in Nat \ {0}
      BY <1>5, <1>6, <2>1, EmptySeq
    <3>2. PICK f : f = Top'
      OBVIOUS
    <3>3. f = path[n - 1]
      <4>1. PICK m \in Nat \ {0} : m = n - 1
        BY <3>1
      <4>2. Len(path') = m
        <5>1. Len(path') = n - 1
          BY <1>6
        <5>2. QED BY <4>1, <5>1
      <4>3. Top' = path'[m]
        BY <4>2 DEF Top, Last
      <4>4. path'[m] = path[m]
        <5>1. m \in 1 .. n - 1
          BY <1>4, <4>1
        <5>2. QED BY <1>6, <5>1
      <4>5. QED BY <3>2, <4>1, <4>3, <4>4
    <3>4. TreeCalls(f) # {} /\ last_valid_child(f) = t
      <4>1. n - 1 \in 1 .. Len(path) - 1 /\ (n - 1) + 1 = n
        BY <1>2, <3>1
      <4>2. QED BY <1>1, <1>3, <3>3, <4>1 DEF Path
    <3>5. TreeCalls(Top)' = TreeCalls(f)' /\ last_valid_child(Top)' = last_valid_child(f)'
      BY <3>2 DEF TreeCalls, last_valid_child
    <3>6. TreeCalls(Top)' # {} /\ last_valid_child(Top)' = t
      BY <1>7, <3>4, <3>5
    <3>7. QED BY <1>9, <1>12, <3>6
  <2>2. ASSUME NEW m \in 1 .. n - 1 PROVE first'[path'[m]] <= Clock'
    <3>1. m \in 1 .. n /\ path'[m] = path[m]
      BY <1>4, <1>6
    <3>2. first[path[m]] <= T /\ first[path[m]] \in Int
      BY <1>1, <1>2, <1>4, <1>8, <3>1 DEF Time, Types
    <3>3. QED BY <1>5, <1>9, <3>1, <3>2
  <2>3. ASSUME NEW f \in visited', Closed(f)'
        PROVE  first'[f] < last'[f] /\ last'[f] <= Clock'
    <3>1. CASE f = t
      BY <1>5, <1>9, <1>10, <1>12, <3>1
    <3>2. CASE f # t
      <4>1. f \in visited /\ Closed(f) /\ last'[f] = last[f]
        BY <1>4, <1>5, <1>12, <1>14, <2>3, <3>2
      <4>2. first[f] < last[f] /\ last[f] <= T /\ last[f] \in Int
        BY <1>1, <1>4, <1>8, <4>1 DEF Time, Types
      <4>3. QED BY <1>5, <1>9, <4>1, <4>2
    <3>3. QED BY <3>1, <3>2
  <2>4. (i + LastPathLen = 2 * Cardinality(visited) - 1)'
    BY <1>1, <1>5 DEF Time
  <2>5. QED BY <1>6, <2>1, <2>2, <2>3, <2>4 DEF Time
<1>19. ASSUME NEW f \in visited, Closed(f)
       PROVE  /\ f # t /\ last'[f] = last[f] /\ first'[f] = first[f]
              /\ first[f] \in Int /\ last[f] \in Int
              /\ first[f] < last[f] /\ last[f] <= T
              /\ first[t] < first[f] \/ last[f] < first[t]
  <2>1. f # t
    BY <1>14, <1>19 DEF Closed
  <2>2. first[t] < first[f] \/ last[f] < first[t]
    BY <1>1, <1>2, <1>3, <1>4, <1>19 DEF Parentheses
  <2>3. QED BY <1>1, <1>4, <1>5, <1>8, <1>12, <1>19, <2>1, <2>2 DEF Time, Types
<1>20. Parentheses'
  <2>1. ASSUME NEW f \in visited', Closed(f)', NEW m \in 1 .. n - 1
        PROVE  first'[path'[m]] < first'[f] \/ last'[f] < first'[path'[m]]
    <3>1. m \in 1 .. n /\ path'[m] = path[m] /\ m < n
      BY <1>4, <1>6
    <3>2. CASE f = t
      <4>1. first[path[m]] < first[t]
        BY <1>1, <1>2, <1>3, <1>4, <3>1 DEF Path
      <4>2. QED BY <1>5, <3>1, <3>2, <4>1
    <3>3. CASE f # t
      <4>1. f \in visited /\ Closed(f)
        BY <1>5, <1>14, <2>1, <3>3
      <4>2. first[path[m]] < first[f] \/ last[f] < first[path[m]]
        BY <1>1, <1>2, <3>1, <4>1 DEF Parentheses
      <4>3. QED BY <1>5, <1>19, <3>1, <4>1, <4>2
    <3>4. QED BY <3>2, <3>3
  <2>2. ASSUME NEW f \in visited, NEW g \in visited, Closed(f)', Closed(g)', f # g
        PROVE  \/ last'[f] < first'[g] \/ last'[g] < first'[f]
               \/ first'[f] < first'[g] /\ last'[g] < last'[f]
               \/ first'[g] < first'[f] /\ last'[f] < last'[g]
    <3>1. CASE f = t
      <4>1. Closed(g)
        BY <1>14, <2>2, <3>1
      <4>2. QED BY <1>5, <1>9, <1>12, <1>19, <3>1, <4>1
    <3>2. CASE g = t
      <4>1. Closed(f)
        BY <1>14, <2>2, <3>2
      <4>2. QED BY <1>5, <1>9, <1>12, <1>19, <3>2, <4>1
    <3>3. CASE f # t /\ g # t
      <4>1. Closed(f) /\ Closed(g)
        BY <1>14, <2>2, <3>3
      <4>2. QED BY <1>1, <1>19, <2>2, <4>1 DEF Parentheses
    <3>4. QED BY <3>1, <3>2, <3>3
  <2>3. QED BY <1>5, <1>6, <2>1, <2>2 DEF Parentheses
<1>21. Marks'
  <2>1. ASSUME NEW f, NEW m, Mark(f, m)
        PROVE  Mark(f, m)'
    <3>1. CASE m = first[f]
      BY <1>5, <3>1 DEF Mark
    <3>2. ASSUME NEW j \in TreeCalls(f), Closed(calls[f][j]), m = last[calls[f][j]]
          PROVE  Mark(f, m)'
      <4>1. PICK g : g = calls[f][j]
        OBVIOUS
      <4>2. g \in visited /\ Closed(g)'
        BY <1>14, <3>2, <4>1 DEF Closed
      <4>3. m = last'[g] /\ g = calls'[f][j] /\ j \in TreeCalls(f)'
        BY <1>5, <1>7, <1>19, <3>2, <4>1, <4>2
      <4>4. Closed(calls[f][j])'
        BY <4>2, <4>3 DEF Closed, OnPath
      <4>5. QED BY <4>3, <4>4 DEF Mark
    <3>3. QED BY <2>1, <3>1, <3>2 DEF Mark
  <2>2. Mark(t, T)
    BY <1>4, <1>5, <1>8, TopMark
  <2>3. ASSUME NEW f \in Functions, NEW m \in TreeCalls(f)'
        PROVE  Mark(f, first[calls[f][m]] - 1)'
    <3>1. PICK x : x = first[calls[f][m]] - 1
      OBVIOUS
    <3>2. Mark(f, x)'
      BY <1>1, <1>7, <2>1, <3>1 DEF Marks
    <3>3. first'[calls'[f][m]] - 1 = x
      BY <1>5, <3>1
    <3>4. QED BY <3>2, <3>3 DEF Mark
  <2>4. ASSUME NEW f \in visited, Closed(f)'
        PROVE  Mark(f, last[f] - 1)'
    <3>1. PICK x : x = last'[f] - 1
      OBVIOUS
    <3>2. Mark(f, x)
      <4>1. CASE f = t
        <5>1. x = T
          BY <1>9, <1>12, <3>1, <4>1
        <5>2. QED BY <2>2, <4>1, <5>1
      <4>2. CASE f # t
        <5>1. Closed(f)
          BY <1>14, <2>4, <4>2
        <5>2. x = last[f] - 1
          BY <1>19, <3>1, <5>1
        <5>3. QED BY <1>1, <5>1, <5>2 DEF Marks
      <4>3. QED BY <4>1, <4>2
    <3>3. QED BY <2>1, <3>1, <3>2 DEF Mark
  <2>5. QED BY <1>5, <2>3, <2>4 DEF Marks
<1>22. InOrder'
  <2>1. ASSUME NEW m \in TreeCalls(t)
        PROVE  Closed(calls[t][m])
    <3>1. PICK g : g = calls[t][m]
      OBVIOUS
    <3>2. g \in visited /\ first[t] < first[g]
      BY <1>1, <1>4, <3>1 DEF Tree
    <3>3. \A x \in 1 .. n : first[path[x]] <= first[t] /\ first[path[x]] \in Int
      <4>1. ASSUME NEW x \in 1 .. n
            PROVE  first[path[x]] <= first[t] /\ first[path[x]] \in Int
        <5>1. x < n => first[path[x]] < first[t]
          BY <1>1, <1>2, <1>3, <1>4 DEF Path
        <5>2. first[path[x]] \in Int
          BY <1>1, <1>4 DEF Types
        <5>3. QED BY <1>3, <1>4, <1>10, <5>1, <5>2
      <4>2. QED BY <4>1
    <3>4. ~OnPath(g)
      BY <1>2, <1>10, <3>2, <3>3 DEF OnPath
    <3>5. QED BY <3>1, <3>2, <3>4 DEF Closed
  <2>2. ASSUME NEW f \in Functions, NEW j \in TreeCalls(f)', NEW m \in TreeCalls(f)', j < m
        PROVE  first'[calls'[f][j]] < first'[calls'[f][m]]
    BY <1>1, <1>5, <1>7, <2>2 DEF InOrder
  <2>3. ASSUME NEW f \in visited', Closed(f)', NEW m \in TreeCalls(f)'
        PROVE  Closed(calls[f][m])' /\ last'[calls'[f][m]] < last'[f]
    <3>1. PICK g : g = calls[f][m]
      OBVIOUS
    <3>2. Closed(g) /\ g \in visited /\ last'[f] \in Int /\ last'[g] < last'[f]
      <4>1. CASE f = t
        <5>1. Closed(g) /\ g \in visited
          BY <1>7, <2>1, <3>1, <4>1 DEF Closed
        <5>2. last'[g] = last[g] /\ last[g] <= T /\ last[g] \in Int
          BY <1>19, <5>1
        <5>3. QED BY <1>9, <1>12, <4>1, <5>1, <5>2
      <4>2. CASE f # t
        <5>1. f \in visited /\ Closed(f) /\ m \in TreeCalls(f)
          BY <1>5, <1>7, <1>14, <2>3, <4>2
        <5>2. Closed(g) /\ last[g] < last[f] /\ g \in visited
          BY <1>1, <3>1, <5>1 DEF InOrder, Closed
        <5>3. QED BY <1>19, <5>1, <5>2
      <4>3. QED BY <4>1, <4>2
    <3>3. Closed(g)' /\ g = calls'[f][m]
      BY <1>5, <1>14, <3>1, <3>2
    <3>4. QED BY <3>2, <3>3 DEF Closed, OnPath
  <2>4. QED BY <2>2, <2>3 DEF InOrder
<1>23. Ascended
  <2>1. \A j \in 1 .. Len(calls[t]) : calls[t][j] \notin Functions \ visited
    BY <1>4 DEF Ascend, Unvisited
  <2>2. QED BY <1>4, <1>5, <1>7, <1>8, <1>9, <1>12, <1>14, <2>1 DEF Ascended
<1>24. QED BY <1>15, <1>16, <1>17, <1>18, <1>20, <1>21, <1>22, <1>23 DEF WalkInv

LEMMA WalkStart ==
  ASSUME Init, root \in Functions
  PROVE  WalkInv
<1> USE DEF Init, Start
<1>1. /\ path = <<root>> /\ visited = {root} /\ i = 0 /\ LastPathLen = 1
      /\ first = [f \in Functions |-> 0] /\ last = [f \in Functions |-> 0]
      /\ Only = {} /\ pc = "walk"
  BY CGFilterAssumption
<1>2. /\ path \in Seq(visited) /\ Len(path) = 1 /\ path[1] = root /\ path # <<>>
  BY <1>1
<1>3. \A f : TreeCalls(f) = {}
  BY <1>1 DEF TreeCalls
<1>4. \A f : f \in visited => OnPath(f)
  BY <1>1, <1>2 DEF OnPath
<1>5. Types
  BY <1>1, <1>2 DEF Types
<1>6. Tree /\ Marks /\ Parentheses /\ InOrder
  BY <1>3, <1>4 DEF Tree, Marks, Parentheses, Closed, InOrder
<1>7. Path
  BY <1>1, <1>2 DEF Path
<1>8. Time
  <2>1. Cardinality(visited) = 1
    BY <1>1, FS_Singleton
  <2>2. Clock = 0 /\ Top = root
    BY <1>1, <1>2 DEF Clock, Top, Last
  <2>3. \A k \in 1 .. Len(path) : path[k] = root
    BY <1>2
  <2>4. QED BY <1>1, <1>3, <1>4, <2>1, <2>2, <2>3 DEF Time, Closed
<1>9. QED BY <1>5, <1>6, <1>7, <1>8 DEF WalkInv

LEMMA WalkStep ==
  ASSUME NumbersFit, WalkInv, [Next]_vars
  PROVE  WalkInv'
<1>1. ASSUME NEW k \in 1 .. (IF path = <<>> THEN 0 ELSE Len(calls[Top])), Descend(k)
      PROVE  WalkInv'
  <2>1. path # <<>>
    BY <1>1
  <2>2. QED BY <1>1, <2>1, DescendKeeps
<1>2. CASE Ascend
  BY <1>2, AscendKeeps
<1>3. CASE Constructed \/ (\E I \in Insts : update(I) \/ query(I)) \/ UNCHANGED vars
  <2>1. UNCHANGED <<root, calls, path, visited, i, LastPathLen, first, last, Only>>
        /\ pc' \in {pc, "ready"} /\ (pc' # pc => path = <<>>)
    BY <1>3 DEF Constructed, update, query, vars, walk
  <2>2. Types'
    BY <2>1 DEF WalkInv, Types
  <2>3. Tree'
    <3>1. \A f : TreeCalls(f)' = TreeCalls(f)
      BY <2>1 DEF TreeCalls
    <3>2. Tree /\ first' = first /\ visited' = visited /\ calls' = calls
      BY <2>1 DEF WalkInv
    <3>3. QED BY <3>1, <3>2 DEF Tree
  <2>4. Path'
    <3>1. \A f : TreeCalls(f)' = TreeCalls(f)
      BY <2>1 DEF TreeCalls
    <3>2. \A f : last_valid_child(f)' = last_valid_child(f)
      BY <2>1, <3>1 DEF last_valid_child
    <3>3. \A k : TreeCalls(path[k])' = TreeCalls(path[k])
                 /\ last_valid_child(path[k])' = last_valid_child(path[k])
      BY <2>1, <3>1, <3>2 DEF TreeCalls, last_valid_child
    <3>4. Path
      BY DEF WalkInv
    <3>5. QED BY <2>1, <3>3, <3>4 DEF Path
  <2>5. Time'
    <3>1. Clock' = Clock /\ Top' = Top /\ (\A f : Closed(f)' <=> Closed(f))
      BY <2>1 DEF Clock, Top, Closed, OnPath
    <3>2. TreeCalls(Top)' = TreeCalls(Top) /\ last_valid_child(Top)' = last_valid_child(Top)
      BY <2>1, <3>1 DEF TreeCalls, last_valid_child, Top
    <3>3. Time
      BY DEF WalkInv
    <3>4. QED BY <2>1, <3>1, <3>2, <3>3 DEF Time
  <2>6. Parentheses'
    BY <2>1 DEF WalkInv, Parentheses, Closed, OnPath
  <2>7. Marks'
    BY <2>1 DEF WalkInv, Marks, Mark, Closed, OnPath, TreeCalls
  <2>8. InOrder'
    BY <2>1 DEF WalkInv, InOrder, Closed, OnPath, TreeCalls
  <2>9. QED BY <2>2, <2>3, <2>4, <2>5, <2>6, <2>7, <2>8 DEF WalkInv
<1>4. QED BY <1>1, <1>2, <1>3 DEF Next

THEOREM WalkAlways == NumbersFit /\ root \in Functions /\ Spec => []WalkInv
<1> SUFFICES ASSUME NumbersFit PROVE root \in Functions /\ Spec => []WalkInv
  OBVIOUS
<1>1. WalkInv /\ [Next]_vars => WalkInv'
  BY WalkStep
<1>2. root \in Functions /\ Init => WalkInv
  BY WalkStart
<1>3. QED BY <1>1, <1>2, PTL DEF Spec

----------------------------------------------------------------------------
(***************************************************************************)
(* Once the walk is over every function it came to is closed.              *)
(***************************************************************************)
LEMMA AllClosed ==
  ASSUME WalkInv, pc = "ready"
  PROVE  /\ \A f \in visited :
              /\ Closed(f) /\ f \in Functions
              /\ first[f] \in Int /\ last[f] \in Int
              /\ 0 <= first[f] /\ first[f] < last[f]
         /\ \A f, g \in visited : f # g =>
              \/ last[f] < first[g] \/ last[g] < first[f]
              \/ first[f] < first[g] /\ last[g] < last[f]
              \/ first[g] < first[f] /\ last[f] < last[g]
<1>1. Types /\ Time /\ Parentheses
  BY DEF WalkInv
<1>2. path = <<>> /\ Len(path) = 0
  BY <1>1, EmptySeq DEF Types
<1>3. \A f \in visited : Closed(f)
  BY <1>2 DEF Closed, OnPath
<1>4. QED BY <1>1, <1>3 DEF Types, Time, Parentheses

(***************************************************************************)
(* The ranges [first, last) of two functions nest or have nothing in       *)
(* common, and none is empty, for every call graph walked from a function. *)
(***************************************************************************)
THEOREM RangesRight == NumbersFit /\ root \in Functions /\ Spec => []RangesNest
<1>1. ASSUME WalkInv, pc = "ready", NEW f \in visited, NEW g \in visited
      PROVE  /\ Extent(f) # {}
             /\ f # g => \/ Extent(f) \cap Extent(g) = {}
                         \/ Extent(f) \subseteq Extent(g) /\ first[g] < first[f]
                         \/ Extent(g) \subseteq Extent(f) /\ first[f] < first[g]
  <2>1. /\ first[f] \in Int /\ last[f] \in Int /\ first[f] < last[f]
        /\ first[g] \in Int /\ last[g] \in Int /\ first[g] < last[g]
    BY <1>1, AllClosed
  <2>2. first[f] \in Extent(f)
    BY <2>1 DEF Extent
  <2>3. ASSUME f # g
        PROVE  \/ Extent(f) \cap Extent(g) = {}
               \/ Extent(f) \subseteq Extent(g) /\ first[g] < first[f]
               \/ Extent(g) \subseteq Extent(f) /\ first[f] < first[g]
    <3>1. \/ last[f] < first[g] \/ last[g] < first[f]
          \/ first[f] < first[g] /\ last[g] < last[f]
          \/ first[g] < first[f] /\ last[f] < last[g]
      BY <1>1, <2>3, AllClosed
    <3>2. CASE last[f] < first[g] \/ last[g] < first[f]
      BY <2>1, <3>2 DEF Extent
    <3>3. CASE first[f] < first[g] /\ last[g] < last[f]
      BY <2>1, <3>3 DEF Extent
    <3>4. CASE first[g] < first[f] /\ last[f] < last[g]
      BY <2>1, <3>4 DEF Extent
    <3>5. QED BY <3>1, <3>2, <3>3, <3>4
  <2>4. QED BY <2>2, <2>3
<1>2. WalkInv => RangesNest
  BY <1>1 DEF RangesNest
<1>3. QED BY WalkAlways, <1>2, PTL

(***************************************************************************)
(* No number of a function wraps.                                          *)
(***************************************************************************)
LEMMA NumbersInRange ==
  ASSUME NumbersFit, WalkInv, pc = "ready", NEW g \in visited
  PROVE  /\ Closed(g) /\ first[g] \in Int /\ last[g] \in Int
         /\ 0 <= first[g] /\ first[g] < last[g] /\ last[g] < Wrap
<1>1. Types /\ Time
  BY DEF WalkInv
<1>2. visited \subseteq Functions
  BY <1>1 DEF Types
<1>3. /\ Closed(g) /\ first[g] \in Int /\ last[g] \in Int
      /\ 0 <= first[g] /\ first[g] < last[g]
  BY AllClosed
<1>4. last[g] < Wrap
  <2>1. last[g] <= Clock
    BY <1>1, <1>3 DEF Time
  <2>2. Clock <= 2 * Cardinality(visited) - 1 /\ Clock \in Int
    <3>1. Len(path) = 0
      BY <1>1, EmptySeq DEF Types
    <3>2. QED BY <1>1, <3>1 DEF Types, Time, Clock
  <2>3. Cardinality(visited) <= Cardinality(Functions) /\ Cardinality(visited) \in Nat
        /\ Cardinality(Functions) \in Nat
    <3>1. IsFiniteSet(Functions) /\ visited \in SUBSET Functions
      BY <1>2 DEF NumbersFit
    <3>2. QED BY <3>1, FS_Subset, FS_CardinalityType
  <2>4. QED BY <1>3, <2>1, <2>2, <2>3, CGFilterAssumption DEF NumbersFit
<1>5. QED BY <1>3, <1>4

(* the call the instruction is put before *)
LEMMA FirstAhead ==
  ASSUME WalkInv, NEW I \in Insts, NEW ahead,
         ahead = {k \in TreeCalls(I.f) : less_equal(I, CallInst(I.f, k))}, ahead # {}
  PROVE  \E k \in ahead : /\ \A j \in ahead : k <= j
                          /\ (CHOOSE m \in ahead : \A j \in ahead : m <= j) = k
                          /\ calls[I.f] # <<>>
<1>1. ahead \subseteq Nat
  BY DEF TreeCalls
<1>2. PICK k \in ahead : \A j \in ahead : k <= j
  BY <1>1, LeastOf
<1>3. \A m \in ahead : (\A j \in ahead : m <= j) => m = k
  BY <1>1, <1>2
<1>4. calls[I.f] # <<>>
  <2>1. k \in 1 .. Len(calls[I.f])
    BY <1>2 DEF TreeCalls
  <2>2. QED BY <2>1, EmptySeq
<1>5. QED BY <1>2, <1>3, <1>4

(***************************************************************************)
(* What indexof comes to: the places of the calls do not wrap.             *)
(***************************************************************************)
LEMMA IndexIs ==
  ASSUME NumbersFit, WalkInv, pc = "ready", NEW I \in Insts, I.f \in visited
  PROVE  \/ calls[I.f] = <<>> /\ indexof(I) = first[I.f]
         \/ /\ \A k \in TreeCalls(I.f) : ~less_equal(I, CallInst(I.f, k))
            /\ calls[I.f] # <<>> /\ indexof(I) = last[I.f] - 1
         \/ \E k \in TreeCalls(I.f) :
              /\ less_equal(I, CallInst(I.f, k))
              /\ \A j \in TreeCalls(I.f) : less_equal(I, CallInst(I.f, j)) => k <= j
              /\ indexof(I) = first[calls[I.f][k]] - 1
<1>1. Types /\ Tree /\ Time
  BY DEF WalkInv
<1> DEFINE f == I.f
<1>2. f \in Functions /\ visited \subseteq Functions
  BY <1>1 DEF Types
<1>3. \A g \in visited : /\ first[g] \in Int /\ last[g] \in Int /\ 0 <= first[g]
                         /\ first[g] < last[g] /\ last[g] < Wrap
  BY NumbersInRange
<1> DEFINE ahead == {k \in TreeCalls(f) : less_equal(I, CallInst(f, k))}
<1>4. CASE calls[f] = <<>>
  <2>1. ahead = {}
    <3>1. Len(calls[f]) = 0
      BY <1>4, EmptySeq
    <3>2. QED BY <3>1 DEF TreeCalls
  <2>2. QED BY <1>4, <2>1 DEF indexof
<1>5. CASE calls[f] # <<>> /\ ahead = {}
  <2>1. indexof(I) = Unsigned(last[f] - 1)
    BY <1>5 DEF indexof
  <2>2. last[f] - 1 \in Int /\ 0 <= last[f] - 1 /\ last[f] - 1 < Wrap
    BY <1>3, CGFilterAssumption
  <2>3. indexof(I) = last[f] - 1
    BY <2>1, <2>2, Fits
  <2>4. QED BY <1>5, <2>3
<1>6. CASE ahead # {}
  <2>1. PICK k \in ahead : /\ \A j \in ahead : k <= j
                          /\ (CHOOSE m \in ahead : \A j \in ahead : m <= j) = k
                          /\ calls[f] # <<>>
    <3> HIDE DEF ahead
    <3>1. \E k \in ahead : /\ \A j \in ahead : k <= j
                          /\ (CHOOSE m \in ahead : \A j \in ahead : m <= j) = k
                          /\ calls[I.f] # <<>>
      BY <1>6, FirstAhead DEF ahead
    <3>2. QED BY <3>1
  <2>2. k \in TreeCalls(f) /\ less_equal(I, CallInst(f, k))
    BY <2>1
  <2>3. indexof(I) = Unsigned(first[calls[f][k]] - 1)
    BY <1>6, <2>1 DEF indexof
  <2>4. PICK g : g = calls[f][k]
    OBVIOUS
  <2>5. g \in visited /\ first[f] < first[g]
    BY <1>1, <1>2, <2>2, <2>4 DEF Tree
  <2>6. first[g] - 1 \in Int /\ 0 <= first[g] - 1 /\ first[g] - 1 < Wrap
    BY <1>3, <2>5, CGFilterAssumption
  <2>7. indexof(I) = first[calls[f][k]] - 1
    BY <2>3, <2>4, <2>6, Fits
  <2>8. \A j \in TreeCalls(f) : less_equal(I, CallInst(f, j)) => k <= j
    BY <2>1
  <2>9. QED BY <2>2, <2>7, <2>8
<1>7. QED BY <1>4, <1>5, <1>6

(***************************************************************************)
(* An index is a number of the function it was computed for.               *)
(***************************************************************************)
LEMMA IndexIsMark ==
  ASSUME NumbersFit, WalkInv, pc = "ready", NEW I \in Insts, I.f \in visited
  PROVE  Mark(I.f, indexof(I))
<1>1. Marks /\ I.f \in Functions /\ Closed(I.f)
  BY AllClosed DEF WalkInv
<1>2. CASE indexof(I) = first[I.f]
  BY <1>2 DEF Mark
<1>3. CASE indexof(I) = last[I.f] - 1
  BY <1>1, <1>3 DEF Marks
<1>4. CASE \E k \in TreeCalls(I.f) : indexof(I) = first[calls[I.f][k]] - 1
  BY <1>1, <1>4 DEF Marks
<1>5. QED BY <1>2, <1>3, <1>4, IndexIs

(***************************************************************************)
(* No number belongs to two functions.                                     *)
(***************************************************************************)
LEMMA MarkOfOne ==
  ASSUME WalkInv, pc = "ready", NEW f \in visited, NEW g \in visited,
         NEW n, Mark(f, n), Mark(g, n)
  PROVE  f = g
<1>1. Types /\ Tree
  BY DEF WalkInv
<1>2. \A h \in visited : /\ h \in Functions /\ first[h] \in Int /\ last[h] \in Int
                        /\ first[h] < last[h]
  BY AllClosed
<1>3. \A h, k \in visited : h # k =>
        first[h] # first[k] /\ last[h] # last[k] /\ first[h] # last[k]
  <2>1. ASSUME NEW h \in visited, NEW k \in visited, h # k
        PROVE  first[h] # first[k] /\ last[h] # last[k] /\ first[h] # last[k]
    <3>1. \/ last[h] < first[k] \/ last[k] < first[h]
          \/ first[h] < first[k] /\ last[k] < last[h]
          \/ first[k] < first[h] /\ last[h] < last[k]
      BY <2>1, AllClosed
    <3>2. QED BY <1>2, <3>1
  <2>2. QED BY <2>1
<1>4. ASSUME NEW h \in visited, NEW j \in TreeCalls(h)
      PROVE  calls[h][j] \in visited /\ \A k \in visited : first[k] # last[calls[h][j]]
  <2>1. calls[h][j] \in visited
    BY <1>1, <1>2 DEF Tree
  <2>2. QED BY <1>2, <1>3, <2>1
<1>5. CASE n = first[f]
  <2>1. n = first[g]
    BY <1>4, <1>5 DEF Mark
  <2>2. QED BY <1>3, <1>5, <2>1
<1>6. CASE n # first[f]
  <2>1. PICK j \in TreeCalls(f) : n = last[calls[f][j]]
    BY <1>6 DEF Mark
  <2>2. n # first[g]
    BY <1>4, <2>1
  <2>3. PICK k \in TreeCalls(g) : n = last[calls[g][k]]
    BY <2>2 DEF Mark
  <2>4. calls[f][j] = calls[g][k]
    BY <1>3, <1>4, <2>1, <2>3
  <2>5. QED BY <1>1, <1>2, <2>4 DEF Tree
<1>7. QED BY <1>5, <1>6

(***************************************************************************)
(* "should be same function", the assertion of operator(): instructions    *)
(* with one index are in one function, for every call graph walked from a  *)
(* function.                                                               *)
(***************************************************************************)
THEOREM SameIndexRight == NumbersFit /\ root \in Functions /\ Spec => []SameIndexSameFunction
<1> SUFFICES ASSUME NumbersFit
             PROVE  root \in Functions /\ Spec => []SameIndexSameFunction
  OBVIOUS
<1>1. ASSUME WalkInv, pc = "ready", NEW I \in Insts, NEW J \in Insts,
             I.f \in visited, J.f \in visited, indexof(I) = indexof(J)
      PROVE  I.f = J.f
  <2>1. PICK n : n = indexof(I)
    OBVIOUS
  <2>2. Mark(I.f, n)
    BY <1>1, <2>1, IndexIsMark
  <2>3. Mark(J.f, n)
    BY <1>1, <2>1, IndexIsMark
  <2>4. QED BY <1>1, <2>2, <2>3, MarkOfOne
<1>2. WalkInv => SameIndexSameFunction
  BY <1>1 DEF SameIndexSameFunction
<1>3. QED BY WalkAlways, <1>2, PTL

----------------------------------------------------------------------------
LEMMA InstIs ==
  ASSUME NEW I \in Insts
  PROVE  /\ I.f \in Functions /\ I.at \in Nat /\ I = Inst(I.f, I.at)
         /\ \A k \in Nat : less_equal(I, CallInst(I.f, k)) <=> I.at <= 2 * k
<1>1. PICK f \in Functions : I \in InstsOf(f)
  BY DEF Insts
<1>2. PICK at \in Nat : I = [f |-> f, at |-> at]
  BY <1>1 DEF InstsOf, Inst
<1>3. I.f = f /\ I.at = at
  BY <1>2
<1>4. ASSUME NEW k \in Nat
      PROVE  less_equal(I, CallInst(I.f, k)) <=> I.at <= 2 * k
  <2>1. CallInst(I.f, k) = [f |-> f, at |-> 2 * k]
    BY <1>3 DEF CallInst, Inst
  <2>2. [f |-> f, at |-> 2 * k].f = f /\ [f |-> f, at |-> 2 * k].at = 2 * k
    OBVIOUS
  <2>3. (I = CallInst(I.f, k)) <=> at = 2 * k
    BY <1>2, <2>1, <2>2, <1>3
  <2>4. less(I, CallInst(I.f, k)) <=> at < 2 * k
    BY <1>3, <2>1, <2>2 DEF less
  <2>5. QED BY <1>3, <2>3, <2>4 DEF less_equal
<1>5. QED BY <1>2, <1>3, <1>4 DEF Inst

(***************************************************************************)
(* The index goes up along a function, and is never the one that stands    *)
(* for a function without a number.                                        *)
(***************************************************************************)
LEMMA IndexGrows ==
  ASSUME NumbersFit, WalkInv, pc = "ready", NEW I \in Insts, NEW J \in Insts,
         less(I, J), I.f \in visited
  PROVE  /\ indexof(I) <= indexof(J) /\ indexof(J) # UINT_MAX
<1>1. PICK f : f = I.f
  OBVIOUS
<1>2. J.f = f /\ f \in visited /\ f \in Functions /\ I.at \in Nat /\ J.at \in Nat /\ I.at < J.at
  BY <1>1, InstIs DEF less
<1>3. \A k \in TreeCalls(f) : k \in Nat
  BY DEF TreeCalls
<1>4. \A k \in TreeCalls(f) : less_equal(J, CallInst(f, k)) => less_equal(I, CallInst(f, k))
  <2>1. ASSUME NEW k \in TreeCalls(f), less_equal(J, CallInst(f, k))
        PROVE  less_equal(I, CallInst(f, k))
    <3>1. less_equal(J, CallInst(f, k)) <=> J.at <= 2 * k
      BY <1>2, <1>3, InstIs
    <3>2. less_equal(I, CallInst(f, k)) <=> I.at <= 2 * k
      BY <1>1, <1>3, InstIs
    <3>3. QED BY <1>2, <1>3, <2>1, <3>1, <3>2
  <2>2. QED BY <2>1
<1>5. ASSUME NEW k \in TreeCalls(f)
      PROVE  /\ calls[f][k] \in visited /\ Closed(calls[f][k])
             /\ last[calls[f][k]] < last[f]
             /\ \A j \in TreeCalls(f) : k < j => first[calls[f][k]] < first[calls[f][j]]
  <2>1. Closed(f)
    BY <1>2, AllClosed
  <2>2. QED BY <1>2, <2>1 DEF WalkInv, InOrder, Closed
<1>6. /\ first[f] \in Int /\ last[f] \in Int /\ first[f] < last[f] /\ last[f] < Wrap
      /\ \A k \in TreeCalls(f) : /\ first[calls[f][k]] \in Int /\ last[calls[f][k]] \in Int
                                 /\ first[calls[f][k]] < last[calls[f][k]]
  BY <1>2, <1>5, NumbersInRange
<1>7. \/ calls[f] = <<>> /\ indexof(J) = first[f]
      \/ calls[f] # <<>> /\ indexof(J) = last[f] - 1
      \/ \E k \in TreeCalls(f) : less_equal(J, CallInst(f, k)) /\ indexof(J) = first[calls[f][k]] - 1
  BY <1>2, IndexIs
<1>8. \/ calls[f] = <<>> /\ indexof(I) = first[f]
      \/ /\ \A k \in TreeCalls(f) : ~less_equal(I, CallInst(f, k))
         /\ calls[f] # <<>> /\ indexof(I) = last[f] - 1
      \/ \E k \in TreeCalls(f) :
           /\ less_equal(I, CallInst(f, k))
           /\ \A j \in TreeCalls(f) : less_equal(I, CallInst(f, j)) => k <= j
           /\ indexof(I) = first[calls[f][k]] - 1
  BY <1>1, <1>2, IndexIs
<1>9. TreeCalls(f) # {} => calls[f] # <<>>
  <2>1. calls[f] = <<>> => Len(calls[f]) = 0
    BY EmptySeq
  <2>2. QED BY <2>1 DEF TreeCalls
<1>10. CASE calls[f] = <<>>
  <2>1. indexof(I) = first[f] /\ indexof(J) = first[f]
    BY <1>7, <1>8, <1>9, <1>10
  <2>2. QED BY <1>6, <2>1, CGFilterAssumption DEF UINT_MAX
<1>11. CASE calls[f] # <<>> /\ indexof(J) = last[f] - 1
  <2>1. CASE indexof(I) = last[f] - 1
    BY <1>6, <1>11, <2>1, CGFilterAssumption DEF UINT_MAX
  <2>2. CASE \E k \in TreeCalls(f) : indexof(I) = first[calls[f][k]] - 1
    <3>1. PICK k \in TreeCalls(f) : indexof(I) = first[calls[f][k]] - 1
      BY <2>2
    <3>2. first[calls[f][k]] < last[f]
      BY <1>5, <1>6
    <3>3. QED BY <1>6, <1>11, <3>1, <3>2, CGFilterAssumption DEF UINT_MAX
  <2>3. QED BY <1>8, <1>11, <2>1, <2>2
<1>12. ASSUME NEW k \in TreeCalls(f), less_equal(J, CallInst(f, k)),
              indexof(J) = first[calls[f][k]] - 1
       PROVE  /\ indexof(I) <= indexof(J) /\ indexof(J) # UINT_MAX
  <2>1. less_equal(I, CallInst(f, k))
    BY <1>4, <1>12
  <2>2. PICK j \in TreeCalls(f) : j <= k /\ indexof(I) = first[calls[f][j]] - 1
    BY <1>8, <1>9, <1>12, <2>1
  <2>3. first[calls[f][j]] <= first[calls[f][k]]
    <3>1. j = k \/ j < k
      BY <1>3, <2>2
    <3>2. QED BY <1>5, <1>6, <3>1
  <2>4. first[calls[f][k]] < last[f]
    BY <1>5, <1>6
  <2>5. QED BY <1>6, <1>12, <2>2, <2>3, <2>4, CGFilterAssumption DEF UINT_MAX
<1>13. QED BY <1>7, <1>10, <1>11, <1>12

LEMMA IndexIsInt ==
  ASSUME NumbersFit, WalkInv, pc = "ready", NEW I \in Insts, I.f \in visited
  PROVE  indexof(I) \in Int
<1>1. I.f \in Functions
  BY InstIs
<1>2. \A k \in TreeCalls(I.f) : calls[I.f][k] \in visited
  BY <1>1 DEF WalkInv, Tree
<1>3. \A g \in visited : first[g] \in Int /\ last[g] \in Int
  BY NumbersInRange
<1>4. QED BY <1>2, <1>3, IndexIs

(* the threshold is the index of its instruction *)
Threshold ==
  threshold_inst # None =>
    pc = "ready" /\ threshold_inst \in Insts /\ threshold = indexof(threshold_inst)

LEMMA ThresholdAlways == Spec => []Threshold
<1>1. Init => Threshold
  BY DEF Init, Start, Threshold
<1>2. Threshold /\ [Next]_vars => Threshold'
  <2> SUFFICES ASSUME Threshold, [Next]_vars PROVE Threshold'
    OBVIOUS
  <2>1. CASE (\E k : Descend(k)) \/ Ascend \/ Constructed
    <3>1. pc = "walk" /\ threshold_inst' = threshold_inst
      BY <2>1 DEF Descend, Ascend, Constructed
    <3>2. QED BY <3>1 DEF Threshold
  <2>2. ASSUME UNCHANGED <<calls, visited, first, last, Only, pc>>
        PROVE  Insts' = Insts /\ \A I : indexof(I)' = indexof(I)
    <3>1. \A f : TreeCalls(f)' = TreeCalls(f) /\ InstsOf(f)' = InstsOf(f)
      BY <2>2 DEF TreeCalls, InstsOf
    <3>2. QED BY <2>2, <3>1 DEF Insts, indexof, TreeCalls, InstsOf
  <2>3. ASSUME NEW I \in Insts, update(I)
        PROVE  Threshold'
    <3>1. /\ UNCHANGED <<calls, visited, first, last, Only, pc>> /\ pc = "ready"
          /\ threshold_inst' = I /\ threshold' = indexof(I)
      BY <2>3 DEF update, walk
    <3>2. indexof(threshold_inst)' = indexof(I)'
      BY <3>1 DEF indexof, TreeCalls
    <3>3. QED BY <2>2, <3>1, <3>2 DEF Threshold
  <2>4. CASE (\E I \in Insts : query(I)) \/ UNCHANGED vars
    <3>1. /\ UNCHANGED <<calls, visited, first, last, Only, pc>>
          /\ UNCHANGED <<threshold_inst, threshold>>
      BY <2>4 DEF query, vars, walk
    <3>2. PICK I : I = threshold_inst
      OBVIOUS
    <3>3. indexof(threshold_inst)' = indexof(I)'
      BY <3>1, <3>2 DEF indexof, TreeCalls
    <3>4. QED BY <2>2, <3>1, <3>2, <3>3 DEF Threshold
  <2>5. QED BY <2>1, <2>3, <2>4 DEF Next
<1>3. QED BY <1>1, <1>2, PTL DEF Spec

(***************************************************************************)
(* In one function the filter lets every later instruction pass, for every *)
(* call graph walked from a function.  Walked from the external node the   *)
(* running number starts below zero and this is false.                     *)
(***************************************************************************)
THEOREM LaterRight == NumbersFit /\ root \in Functions /\ Spec => []LaterInFunctionPasses
<1> SUFFICES ASSUME NumbersFit
             PROVE  root \in Functions /\ Spec => []LaterInFunctionPasses
  OBVIOUS
<1>1. ASSUME WalkInv, Threshold, threshold_inst # None, NEW I \in Insts,
             threshold_inst.f \in visited, less(threshold_inst, I)
      PROVE  ~Refuses(I)
  <2>1. PICK T \in Insts : /\ T = threshold_inst /\ pc = "ready"
                          /\ threshold = indexof(T) /\ T.f \in visited /\ less(T, I)
    BY <1>1 DEF Threshold
  <2>2. I.f = T.f /\ T.at < I.at /\ T.at \in Nat /\ I.at \in Nat
    BY <2>1, InstIs DEF less
  <2>3. indexof(T) <= indexof(I) /\ indexof(I) # UINT_MAX
    BY <1>1, <2>1, IndexGrows
  <2>4. indexof(T) \in Int /\ indexof(I) \in Int
    BY <1>1, <2>1, <2>2, IndexIsInt
  <2>5. ~less_equal(I, T)
    BY <2>2 DEF less_equal, less
  <2>6. QED BY <2>1, <2>3, <2>4, <2>5 DEF Refuses
<1>2. WalkInv /\ Threshold => LaterInFunctionPasses
  BY <1>1 DEF LaterInFunctionPasses
<1>3. QED BY WalkAlways, ThresholdAlways, <1>2, PTL

----------------------------------------------------------------------------
(***************************************************************************)
(* What the walk says of calls that reach nothing new.  A function other   *)
(* than the root is reached by a call; where a call is passed over its     *)
(* function has been reached before what comes after the call: before the  *)
(* next call that does reach something, or the end of the caller.          *)
(***************************************************************************)
PassedOver ==
  /\ root \in visited
  /\ \A g \in visited : g = root \/ \E f \in visited : \E k \in TreeCalls(f) : calls[f][k] = g
  /\ \A f \in Functions : \A k \in TreeCalls(f) : \A j \in 1 .. k - 1 :
       calls[f][j] \in Functions => first[calls[f][j]] < first[calls[f][k]]
  /\ \A f \in visited : Closed(f) => \A j \in 1 .. Len(calls[f]) :
       calls[f][j] \in Functions => calls[f][j] \in visited /\ first[calls[f][j]] < last[f]

(* the order that the verdict of the filter comes to *)
Before(I, J) ==
  \/ indexof(I) < indexof(J)
  \/ indexof(I) = indexof(J) /\ less(I, J)

RunTypes ==
  /\ stack \in Seq(Insts) /\ ran \in Seq(Insts)
  /\ root \in entered /\ entered \subseteq visited
  /\ \A m \in 1 .. Len(stack) : stack[m].f \in entered
  /\ \A n \in 1 .. Len(ran) : ran[n].f \in visited

(* each active function was called by the one below it on the stack *)
Frames(s) ==
  /\ \A m \in 1 .. Len(s) - 1 : \E k \in TreeCalls(s[m].f) :
       s[m].at = 2 * k + 1 /\ calls[s[m].f][k] = s[m + 1].f
  /\ \A l, m \in 1 .. Len(s) : l < m => last[s[m].f] < last[s[l].f]

(* a function has entered what it was the first to call, up to where it is *)
Called(s, e) ==
  /\ \A m \in 1 .. Len(s) : \A k \in TreeCalls(s[m].f) :
       2 * k < s[m].at => calls[s[m].f][k] \in e
  /\ \A f \in e :
       \/ \E m \in 1 .. Len(s) : s[m].f = f
       \/ \A k \in TreeCalls(f) : calls[f][k] \in e

Sorted ==
  \A n \in 1 .. Len(ran) :
    /\ \A m \in 1 .. n - 1 : Before(ran[m], ran[n])
    /\ stack # <<>> => Before(ran[n], stack[Len(stack)])

RunInv ==
  /\ pc = "walk" => stack = <<Inst(root, 1)>> /\ entered = {root} /\ ran = <<>>
  /\ pc = "ready" => RunTypes /\ Frames(stack) /\ Called(stack, entered) /\ Sorted

LEMMA OpenedBy ==
  ASSUME WalkInv, NEW f \in visited
  PROVE  first[f] \in Int /\ first[f] <= Clock
<1>1. Types /\ Time
  BY DEF WalkInv
<1>2. first[f] \in Int /\ f \in Functions
  BY <1>1 DEF Types
<1>3. CASE OnPath(f)
  <2>1. PICK m \in 1 .. Len(path) : path[m] = f
    BY <1>3 DEF OnPath
  <2>2. first[path[m]] <= Clock
    BY <1>1, <2>1 DEF Time
  <2>3. QED BY <1>2, <2>1, <2>2
<1>4. CASE Closed(f)
  <2>1. first[f] < last[f] /\ last[f] <= Clock
    BY <1>1, <1>4 DEF Time
  <2>2. last[f] \in Int /\ Clock \in Int
    <3>1. last[f] \in Int /\ i \in Int /\ LastPathLen \in Int /\ path \in Seq(visited)
      BY <1>1, <1>2 DEF Types
    <3>2. Len(path) \in Nat
      BY <3>1, LenProperties
    <3>3. QED BY <3>1, <3>2 DEF Clock
  <2>3. QED BY <1>2, <2>1, <2>2
<1>5. QED BY <1>2, <1>3, <1>4 DEF Closed

LEMMA TreeCallIs ==
  ASSUME WalkInv, NEW f \in Functions, NEW k \in TreeCalls(f)
  PROVE  /\ f \in visited /\ k \in 1 .. Len(calls[f]) /\ calls[f][k] \in visited
         /\ calls[f][k] \in Functions /\ first[f] < first[calls[f][k]]
         /\ \A j \in 1 .. k : calls[f][j] \notin Functions \ visited
<1>1. Types /\ Tree
  BY DEF WalkInv
<1>2. f \in visited
  BY <1>1 DEF Tree
<1>3. QED BY <1>1, <1>2 DEF Tree, Types, TreeCalls

LEMMA DescendPasses ==
  ASSUME WalkInv, PassedOver, NEW k \in 1 .. Len(calls[Top]), Descended(k)
  PROVE  PassedOver'
<1>1. PICK t : t = Top
  OBVIOUS
<1>2. PICK c : c = calls[t][k]
  OBVIOUS
<1>3. /\ t \in visited /\ c \in Functions /\ c \notin visited /\ visited' = visited \cup {c}
      /\ \A j \in 1 .. k - 1 : calls[t][j] \notin Functions \ visited
      /\ root' = root /\ calls' = calls /\ last' = last
      /\ Clock \in Int /\ first'[c] = Clock + 1 /\ \A f \in visited : first'[f] = first[f]
      /\ \A f : TreeCalls(f)' = IF f = t THEN TreeCalls(f) \cup {k} ELSE TreeCalls(f)
      /\ \A f : Closed(f)' <=> Closed(f)
  BY <1>1, <1>2 DEF Descended
<1>4. visited \subseteq Functions /\ k \in Nat
  BY DEF WalkInv, Types
<1>5. root \in visited'
  BY <1>3 DEF PassedOver
<1>6. ASSUME NEW g \in visited', g # root
      PROVE  \E f \in visited' : \E m \in TreeCalls(f)' : calls[f][m] = g
  <2>1. CASE g = c
    BY <1>2, <1>3, <2>1
  <2>2. CASE g \in visited
    <3>1. PICK f \in visited : \E m \in TreeCalls(f) : calls[f][m] = g
      BY <1>6, <2>2 DEF PassedOver
    <3>2. QED BY <1>3, <3>1
  <2>3. QED BY <1>3, <2>1, <2>2
<1>7. ASSUME NEW f \in Functions, NEW m \in TreeCalls(f)', NEW j \in 1 .. m - 1,
             calls[f][j] \in Functions
      PROVE  first'[calls[f][j]] < first'[calls[f][m]]
  <2>1. PICK g : g = calls[f][j]
    OBVIOUS
  <2>2. CASE m \in TreeCalls(f)
    <3>1. m \in Nat /\ j \in 1 .. m
      BY <2>2 DEF TreeCalls
    <3>2. g \in visited /\ calls[f][m] \in visited
      BY <1>7, <2>1, <2>2, <3>1, TreeCallIs
    <3>3. first[g] < first[calls[f][m]]
      BY <1>7, <2>1, <2>2 DEF PassedOver
    <3>4. QED BY <1>3, <2>1, <3>2, <3>3
  <2>3. CASE f = t /\ m = k
    <3>1. g \in visited
      BY <1>3, <1>7, <2>1, <2>3
    <3>2. first[g] \in Int /\ first[g] <= Clock
      BY <3>1, OpenedBy
    <3>3. first'[g] = first[g] /\ first'[calls[f][m]] = Clock + 1
      BY <1>2, <1>3, <2>3, <3>1
    <3>4. QED BY <1>3, <2>1, <3>2, <3>3
  <2>4. QED BY <1>3, <2>2, <2>3
<1>8. ASSUME NEW f \in visited', Closed(f)', NEW j \in 1 .. Len(calls[f]), calls[f][j] \in Functions
      PROVE  calls[f][j] \in visited' /\ first'[calls[f][j]] < last'[f]
  <2>1. f \in visited /\ Closed(f)
    BY <1>3, <1>8 DEF Closed
  <2>2. calls[f][j] \in visited /\ first[calls[f][j]] < last[f]
    BY <1>8, <2>1 DEF PassedOver
  <2>3. QED BY <1>3, <2>2
<1>9. QED BY <1>3, <1>5, <1>6, <1>7, <1>8 DEF PassedOver

LEMMA AscendPasses ==
  ASSUME WalkInv, PassedOver, Ascended
  PROVE  PassedOver'
<1>1. PICK t : t = Top
  OBVIOUS
<1>2. /\ t \in visited /\ root' = root /\ calls' = calls /\ visited' = visited /\ first' = first
      /\ \A j \in 1 .. Len(calls[t]) : calls[t][j] \notin Functions \ visited
      /\ Clock \in Int /\ last'[t] = Clock + 1
      /\ \A f \in Functions : f # t => last'[f] = last[f]
      /\ \A f : TreeCalls(f)' = TreeCalls(f)
      /\ \A f : Closed(f)' <=> Closed(f) \/ f = t
  BY <1>1 DEF Ascended
<1>3. visited \subseteq Functions
  BY DEF WalkInv, Types
<1>4. ASSUME NEW f \in visited', Closed(f)', NEW j \in 1 .. Len(calls[f]), calls[f][j] \in Functions
      PROVE  calls[f][j] \in visited' /\ first'[calls[f][j]] < last'[f]
  <2>1. CASE f = t
    <3>1. calls[f][j] \in visited
      BY <1>2, <1>4, <2>1
    <3>2. first[calls[f][j]] \in Int /\ first[calls[f][j]] <= Clock
      BY <3>1, OpenedBy
    <3>3. QED BY <1>2, <2>1, <3>1, <3>2
  <2>2. CASE f # t
    <3>1. f \in visited /\ Closed(f)
      BY <1>2, <1>4, <2>2
    <3>2. calls[f][j] \in visited /\ first[calls[f][j]] < last[f]
      BY <1>4, <3>1 DEF PassedOver
    <3>3. QED BY <1>2, <1>3, <2>2, <3>1, <3>2
  <2>3. QED BY <2>1, <2>2
<1>5. QED BY <1>2, <1>4 DEF PassedOver

LEMMA PassedStep ==
  ASSUME NumbersFit, WalkInv, PassedOver, [Next]_vars
  PROVE  PassedOver'
<1>1. ASSUME NEW k \in 1 .. (IF path = <<>> THEN 0 ELSE Len(calls[Top])), Descend(k)
      PROVE  PassedOver'
  <2>1. path # <<>> /\ k \in 1 .. Len(calls[Top])
    BY <1>1
  <2>2. Descended(k)
    BY <1>1, <2>1, DescendKeeps
  <2>3. QED BY <2>1, <2>2, DescendPasses
<1>2. CASE Ascend
  BY <1>2, AscendKeeps, AscendPasses
<1>3. CASE Constructed \/ (\E I \in Insts : update(I) \/ query(I)) \/ UNCHANGED vars
  <2>1. UNCHANGED <<root, calls, path, visited, first, last, Only>>
    BY <1>3 DEF Constructed, update, query, vars, walk
  <2>2. \A f : TreeCalls(f)' = TreeCalls(f) /\ (Closed(f)' <=> Closed(f))
    BY <2>1 DEF TreeCalls, Closed, OnPath
  <2>3. QED BY <2>1, <2>2 DEF PassedOver
<1>4. QED BY <1>1, <1>2, <1>3 DEF Next

LEMMA PassedStart ==
  ASSUME Init, root \in Functions
  PROVE  PassedOver
<1>1. /\ path = <<root>> /\ visited = {root} /\ Only = {}
  BY CGFilterAssumption DEF Init, Start
<1>2. \A f : TreeCalls(f) = {}
  BY <1>1 DEF TreeCalls
<1>3. Len(path) = 1 /\ path[1] = root
  BY <1>1
<1>4. \A f \in visited : ~Closed(f)
  BY <1>1, <1>3 DEF Closed, OnPath
<1>5. QED BY <1>1, <1>2, <1>4 DEF PassedOver


(* an instruction lies within the numbers of its function *)
LEMMA IndexWithin ==
  ASSUME NumbersFit, WalkInv, pc = "ready", NEW I \in Insts, I.f \in visited
  PROVE  /\ indexof(I) \in Int /\ first[I.f] <= indexof(I) /\ indexof(I) < last[I.f]
         /\ last[I.f] \in Int /\ last[I.f] < Wrap /\ first[I.f] \in Int
<1>1. PICK f \in Functions : f = I.f
  BY InstIs
<1>2. /\ first[f] \in Int /\ last[f] \in Int /\ first[f] < last[f] /\ last[f] < Wrap
      /\ Closed(f)
  BY <1>1, NumbersInRange
<1>3. ASSUME NEW k \in TreeCalls(f), indexof(I) = first[calls[f][k]] - 1
      PROVE  indexof(I) \in Int /\ first[f] <= indexof(I) /\ indexof(I) < last[f]
  <2>1. PICK g \in visited : g = calls[f][k] /\ first[f] < first[g]
    BY TreeCallIs
  <2>2. last[g] < last[f]
    BY <1>1, <1>2, <2>1 DEF WalkInv, InOrder
  <2>3. first[g] \in Int /\ last[g] \in Int /\ first[g] < last[g]
    BY NumbersInRange
  <2>4. QED BY <1>2, <1>3, <2>1, <2>2, <2>3
<1>4. \/ indexof(I) = first[f] \/ indexof(I) = last[f] - 1
      \/ \E k \in TreeCalls(f) : indexof(I) = first[calls[f][k]] - 1
  BY <1>1, IndexIs
<1>5. indexof(I) \in Int /\ first[f] <= indexof(I) /\ indexof(I) < last[f]
  BY <1>2, <1>3, <1>4
<1>6. QED BY <1>1, <1>2, <1>5

(***************************************************************************)
(* What a function is the first to call closes before it calls another.    *)
(* A counterexample that opens first would open right after the closing of *)
(* one that lies in the same range, and has opened before it.              *)
(***************************************************************************)
LEMMA ClosesFirst ==
  ASSUME WalkInv, pc = "ready", NEW f \in Functions,
         NEW j \in TreeCalls(f), NEW k \in TreeCalls(f), j < k
  PROVE  last[calls[f][j]] < first[calls[f][k]]
<1> DEFINE a(m) == first[calls[f][m]]
           z(m) == last[calls[f][m]]
           S == {a(m) : m \in {m \in TreeCalls(f) : j < m /\ a(m) < z(j)}}
<1>1. \A m \in TreeCalls(f) :
        /\ m \in Int /\ a(m) \in Int /\ z(m) \in Int /\ 0 <= a(m) /\ a(m) < z(m)
        /\ first[f] \in Int /\ first[f] < a(m)
  <2>1. ASSUME NEW m \in TreeCalls(f)
        PROVE  /\ m \in Int /\ a(m) \in Int /\ z(m) \in Int /\ 0 <= a(m) /\ a(m) < z(m)
               /\ first[f] \in Int /\ first[f] < a(m)
    <3>1. f \in visited /\ m \in Int /\ calls[f][m] \in visited /\ first[f] < a(m)
      BY TreeCallIs
    <3>2. QED BY <3>1, AllClosed
  <2>2. QED BY <2>1
<1>2. \A l, m \in TreeCalls(f) : l < m => a(l) < a(m)
  BY DEF WalkInv, InOrder
<1>3. \A l, m \in TreeCalls(f) : l # m =>
        \/ z(l) < a(m) \/ z(m) < a(l)
        \/ a(l) < a(m) /\ z(m) < z(l)
        \/ a(m) < a(l) /\ z(l) < z(m)
  <2>1. ASSUME NEW l \in TreeCalls(f), NEW m \in TreeCalls(f), l # m
        PROVE  \/ z(l) < a(m) \/ z(m) < a(l)
               \/ a(l) < a(m) /\ z(m) < z(l)
               \/ a(m) < a(l) /\ z(l) < z(m)
    <3>1. calls[f][l] \in visited /\ calls[f][m] \in visited
      BY TreeCallIs
    <3>2. a(l) # a(m)
      BY <1>1, <1>2, <2>1
    <3>3. QED BY <3>1, <3>2, AllClosed
  <2>2. QED BY <2>1
<1>4. \A m \in TreeCalls(f) :
        a(m) - 1 = first[f] \/ \E l \in TreeCalls(f) : a(m) - 1 = z(l)
  BY DEF WalkInv, Marks, Mark
<1> HIDE DEF a, z
<1>5. SUFFICES ASSUME ~(z(j) < a(k)) PROVE FALSE
  BY DEF a, z
<1>6. j \in TreeCalls(f) /\ k \in TreeCalls(f) /\ j < k
  OBVIOUS
<1>7. a(k) < z(j)
  BY <1>1, <1>2, <1>3, <1>5, <1>6
<1>8. S \subseteq Nat /\ S # {}
  BY <1>1, <1>6, <1>7
<1>9. PICK x \in S : \A y \in S : x <= y
  <2> HIDE DEF S
  <2>1. QED BY <1>8, LeastOf
<1>10. PICK m \in TreeCalls(f) : j < m /\ a(m) < z(j) /\ x = a(m)
  BY <1>9
<1>11. a(j) < a(m) /\ first[f] < a(j)
  BY <1>1, <1>2, <1>6, <1>10
<1>12. PICK l \in TreeCalls(f) : a(m) - 1 = z(l)
  BY <1>1, <1>4, <1>6, <1>10, <1>11
<1>13. l # j /\ l # m
  BY <1>1, <1>6, <1>10, <1>12
<1>14. a(j) < a(l) /\ z(l) < z(j)
  BY <1>1, <1>3, <1>6, <1>10, <1>11, <1>12, <1>13
<1>15. j < l
  BY <1>1, <1>2, <1>6, <1>13, <1>14
<1>16. a(l) < z(j) /\ a(l) < a(m)
  BY <1>1, <1>6, <1>10, <1>12, <1>14
<1>17. a(l) \in S
  BY <1>15, <1>16
<1>18. QED BY <1>1, <1>9, <1>10, <1>16, <1>17

LEMMA InstOf ==
  ASSUME Types, NEW f \in Functions, NEW n \in 1 .. 2 * Len(calls[f]) + 1
  PROVE  /\ Inst(f, n) \in Insts /\ Inst(f, n).f = f /\ Inst(f, n).at = n
BY DEF Insts, InstsOf, Inst

LEMMA CallsOf ==
  ASSUME Types, NEW f \in Functions
  PROVE  Len(calls[f]) \in Nat
<1>1. calls[f] \in Seq(Functions \cup {Declared})
  BY DEF Types
<1>2. QED BY <1>1, LenProperties

(* the place of an instruction that first calls a function: right before it *)
LEMMA BeforeCall ==
  ASSUME NumbersFit, WalkInv, pc = "ready", NEW f \in Functions, NEW k \in TreeCalls(f),
         NEW I \in Insts, I.f = f, I.at <= 2 * k
  PROVE  indexof(I) <= first[calls[f][k]] - 1
<1>1. f \in visited /\ k \in Nat /\ first[calls[f][k]] \in Int
  <2>1. f \in visited /\ k \in 1 .. Len(calls[f]) /\ calls[f][k] \in visited
    BY TreeCallIs
  <2>2. QED BY <2>1, AllClosed
<1>2. less_equal(I, CallInst(f, k))
  BY <1>1, InstIs
<1>3. calls[f] # <<>>
  <2>1. k \in 1 .. Len(calls[f])
    BY TreeCallIs
  <2>2. QED BY <2>1, EmptySeq
<1>4. PICK j \in TreeCalls(f) : j <= k /\ indexof(I) = first[calls[f][j]] - 1
  BY <1>1, <1>2, <1>3, IndexIs
<1>5. CASE j = k
  BY <1>1, <1>4, <1>5
<1>6. CASE j < k
  <2>1. first[calls[f][j]] < first[calls[f][k]]
    BY <1>6 DEF WalkInv, InOrder
  <2>2. first[calls[f][j]] \in Int
    BY TreeCallIs, AllClosed
  <2>3. QED BY <1>1, <1>4, <2>1, <2>2
<1>7. QED BY <1>1, <1>4, <1>5, <1>6 DEF TreeCalls

(* and of one behind it: after all that was reached by the call *)
LEMMA AfterCall ==
  ASSUME NumbersFit, WalkInv, pc = "ready", NEW f \in Functions, NEW k \in TreeCalls(f),
         NEW I \in Insts, I.f = f, 2 * k < I.at
  PROVE  last[calls[f][k]] <= indexof(I)
<1>1. /\ f \in visited /\ k \in Nat /\ last[calls[f][k]] \in Int /\ Closed(f)
      /\ k \in 1 .. Len(calls[f])
  <2>1. f \in visited /\ k \in 1 .. Len(calls[f]) /\ calls[f][k] \in visited
    BY TreeCallIs
  <2>2. QED BY <2>1, AllClosed
<1>2. calls[f] # <<>>
  BY <1>1, EmptySeq
<1>3. CASE indexof(I) = last[f] - 1
  <2>1. last[calls[f][k]] < last[f] /\ last[f] \in Int
    BY <1>1, AllClosed DEF WalkInv, InOrder
  <2>2. QED BY <1>1, <1>3, <2>1
<1>4. ASSUME NEW j \in TreeCalls(f), less_equal(I, CallInst(f, j)),
             indexof(I) = first[calls[f][j]] - 1
      PROVE  last[calls[f][k]] <= indexof(I)
  <2>1. j \in Nat /\ I.at \in Nat /\ I.at <= 2 * j
    <3>1. j \in Nat
      BY DEF TreeCalls
    <3>2. QED BY <1>4, <3>1, InstIs
  <2>2. k < j
    BY <1>1, <2>1
  <2>3. last[calls[f][k]] < first[calls[f][j]] /\ first[calls[f][j]] \in Int
    BY <2>2, ClosesFirst, TreeCallIs, AllClosed
  <2>4. QED BY <1>1, <1>4, <2>3
<1>5. QED BY <1>1, <1>2, <1>3, <1>4, IndexIs

(***************************************************************************)
(* A call that is no first call, of a function that is not entered: its    *)
(* function has been reached before.                                       *)
(***************************************************************************)
LEMMA PassedIsEarlier ==
  ASSUME NumbersFit, WalkInv, PassedOver, pc = "ready", NEW f \in visited,
         NEW k \in 1 .. Len(calls[f]), k \notin TreeCalls(f), calls[f][k] \in Functions
  PROVE  /\ calls[f][k] \in visited
         /\ first[calls[f][k]] <= indexof(CallInst(f, k))
<1>1. PICK g : g = calls[f][k]
  OBVIOUS
<1>2. f \in Functions /\ Closed(f) /\ last[f] \in Int /\ Types
  BY AllClosed DEF WalkInv
<1>3. g \in visited /\ first[g] < last[f] /\ first[g] \in Int
  BY <1>1, <1>2, AllClosed DEF PassedOver
<1>4. PICK I \in Insts : I = CallInst(f, k) /\ I.f = f /\ I.at = 2 * k
  <2>1. Len(calls[f]) \in Nat
    BY <1>2, CallsOf
  <2>2. 2 * k \in 1 .. 2 * Len(calls[f]) + 1
    BY <2>1
  <2>3. QED BY <1>2, <2>2, InstOf DEF CallInst
<1>5. calls[f] # <<>>
  BY EmptySeq
<1>6. CASE indexof(I) = last[f] - 1
  BY <1>1, <1>2, <1>3, <1>4, <1>6
<1>7. ASSUME NEW j \in TreeCalls(f), less_equal(I, CallInst(f, j)),
             indexof(I) = first[calls[f][j]] - 1
      PROVE  first[g] <= indexof(I)
  <2>1. j \in Nat /\ I.at <= 2 * j
    <3>1. j \in Nat
      BY DEF TreeCalls
    <3>2. QED BY <1>4, <1>7, <3>1, InstIs
  <2>2. k \in 1 .. j - 1
    <3>1. k <= j /\ k # j
      BY <1>4, <2>1
    <3>2. QED BY <2>1, <3>1
  <2>3. first[g] < first[calls[f][j]]
    BY <1>1, <1>2, <2>2 DEF PassedOver
  <2>4. first[calls[f][j]] \in Int
    BY <1>2, TreeCallIs, AllClosed
  <2>5. QED BY <1>3, <1>7, <2>3, <2>4
<1>8. QED BY <1>1, <1>3, <1>4, <1>5, <1>6, <1>7, IndexIs


LEMMA FrontIs ==
  ASSUME NEW S, NEW s \in Seq(S), s # <<>>
  PROVE  /\ Len(s) \in Nat \ {0} /\ Last(s) = s[Len(s)] /\ s[Len(s)] \in S
         /\ Front(s) \in Seq(S) /\ Len(Front(s)) = Len(s) - 1
         /\ \A m \in 1 .. Len(s) - 1 : Front(s)[m] = s[m]
<1>1. PICK n : n = Len(s)
  OBVIOUS
<1>2. n \in Nat \ {0} /\ \A m \in 1 .. n : s[m] \in S
  BY <1>1, LenProperties, EmptySeq
<1>3. Front(s) = SubSeq(s, 1, n - 1)
  BY <1>1 DEF Front
<1>4. \A m \in 1 .. n - 1 : s[m] \in S
  BY <1>2
<1>5. /\ SubSeq(s, 1, n - 1) \in Seq(S)
      /\ Len(SubSeq(s, 1, n - 1)) = IF 1 <= n - 1 THEN (n - 1) - 1 + 1 ELSE 0
      /\ \A m \in 1 .. (n - 1) - 1 + 1 : SubSeq(s, 1, n - 1)[m] = s[1 + m - 1]
  <2>1. 1 \in Int /\ n - 1 \in Int
    BY <1>2
  <2>2. QED BY <1>4, <2>1, SubSeqProperties
<1>6. Len(Front(s)) = n - 1
  BY <1>2, <1>3, <1>5
<1>7. ASSUME NEW m \in 1 .. n - 1 PROVE Front(s)[m] = s[m]
  <2>1. m \in 1 .. (n - 1) - 1 + 1 /\ 1 + m - 1 = m
    BY <1>2
  <2>2. Front(s)[m] = s[1 + m - 1]
    BY <1>3, <1>5, <2>1
  <2>3. QED BY <2>1, <2>2
<1>8. QED BY <1>1, <1>2, <1>3, <1>5, <1>6, <1>7 DEF Last

LEMMA NowIs ==
  ASSUME RunTypes, stack # <<>>, visited \subseteq Functions
  PROVE  /\ Len(stack) \in Nat \ {0} /\ Now = stack[Len(stack)] /\ Now \in Insts
         /\ Now.f \in entered /\ Now.f \in visited /\ Now.f \in Functions
<1>1. stack \in Seq(Insts)
  BY DEF RunTypes
<1>2. Len(stack) \in Nat \ {0} /\ Now = stack[Len(stack)] /\ Now \in Insts
  BY <1>1, FrontIs DEF Now
<1>3. Len(stack) \in 1 .. Len(stack)
  BY <1>2
<1>4. Now.f \in entered
  BY <1>2, <1>3 DEF RunTypes
<1>5. QED BY <1>2, <1>4 DEF RunTypes

(***************************************************************************)
(* A run leaves no function out: one that is numbered and not entered yet  *)
(* has its number ahead of where the run is.  The first of them would have *)
(* been called by a function that was entered and has not come to the      *)
(* call.                                                                   *)
(***************************************************************************)
LEMMA NoneLeftOut ==
  ASSUME NumbersFit, WalkInv, PassedOver, pc = "ready",
         RunTypes, Frames(stack), Called(stack, entered),
         NEW h \in visited, h \notin entered
  PROVE  stack # <<>> /\ indexof(Now) < first[h]
<1>1. /\ visited \subseteq Functions
      /\ \A g \in visited : first[g] \in Int /\ last[g] \in Int /\ 0 <= first[g]
  BY AllClosed DEF WalkInv, Types
<1> DEFINE S == {first[g] : g \in visited \ entered}
<1>2. S \subseteq Nat /\ S # {}
  BY <1>1
<1>3. PICK x \in S : \A y \in S : x <= y
  <2> HIDE DEF S
  <2>1. QED BY <1>2, LeastOf
<1>4. PICK g \in visited \ entered : x = first[g]
  BY <1>3
<1>5. first[g] <= first[h]
  BY <1>3, <1>4
<1>6. g # root
  BY <1>4 DEF RunTypes
<1>7. PICK p \in visited : \E j \in TreeCalls(p) : calls[p][j] = g
  BY <1>4, <1>6 DEF PassedOver
<1>8. PICK j \in TreeCalls(p) : calls[p][j] = g
  BY <1>7
<1>9. first[p] < first[g]
  BY <1>1, <1>8, TreeCallIs
<1>10. p \in entered
  <2>1. SUFFICES ASSUME p \notin entered PROVE FALSE
    OBVIOUS
  <2>2. first[p] \in S
    BY <2>1
  <2>3. QED BY <1>1, <1>3, <1>4, <1>9, <2>2
<1>11. PICK m \in 1 .. Len(stack) : stack[m].f = p
  BY <1>4, <1>8, <1>10 DEF Called
<1>12. stack \in Seq(Insts) /\ m \in Nat \ {0} /\ stack # <<>> /\ Len(stack) \in Nat \ {0}
  <2>1. stack \in Seq(Insts)
    BY DEF RunTypes
  <2>2. Len(stack) \in Nat
    BY <2>1, LenProperties
  <2>3. Len(stack) # 0
    BY <1>11, <2>2
  <2>4. QED BY <1>11, <2>1, <2>2, <2>3, EmptySeq
<1>13. /\ Now = stack[Len(stack)] /\ Now \in Insts /\ Now.f \in visited
  BY <1>1, <1>12, NowIs
<1>14. stack[m] \in Insts /\ stack[m].at \in Nat /\ j \in Nat
  <2>1. stack[m] \in Insts
    BY <1>11, <1>12, LenProperties
  <2>2. QED BY <2>1, InstIs DEF TreeCalls
<1>15. stack[m].at <= 2 * j
  BY <1>4, <1>8, <1>11, <1>14 DEF Called
<1>16. p \in Functions /\ indexof(Now) \in Int
  BY <1>1, <1>13, IndexWithin
<1>17. CASE m = Len(stack)
  <2>1. indexof(Now) <= first[calls[p][j]] - 1
    BY <1>11, <1>13, <1>15, <1>16, <1>17, BeforeCall
  <2>2. QED BY <1>1, <1>4, <1>5, <1>8, <1>12, <1>16, <2>1
<1>18. CASE m # Len(stack)
  <2>1. m \in 1 .. Len(stack) - 1 /\ m + 1 \in 1 .. Len(stack)
    BY <1>11, <1>12, <1>18
  <2>2. PICK k \in TreeCalls(p) : stack[m].at = 2 * k + 1 /\ calls[p][k] = stack[m + 1].f
    BY <1>11, <2>1 DEF Frames
  <2>3. k \in Nat
    BY DEF TreeCalls
  <2>4. k < j
    BY <1>14, <1>15, <2>2, <2>3
  <2>5. last[stack[m + 1].f] < first[g]
    BY <1>8, <1>16, <2>2, <2>4, ClosesFirst
  <2>6. m + 1 = Len(stack) \/ last[stack[Len(stack)].f] < last[stack[m + 1].f]
    <3>1. m + 1 # Len(stack) => m + 1 < Len(stack) /\ Len(stack) \in 1 .. Len(stack)
      BY <1>12, <2>1
    <3>2. QED BY <2>1, <3>1 DEF Frames
  <2>7. indexof(Now) < last[Now.f]
    BY <1>13, IndexWithin
  <2>8. stack[m + 1].f \in visited
    BY <2>1 DEF RunTypes
  <2>9. QED BY <1>1, <1>4, <1>5, <1>12, <1>13, <1>16, <2>5, <2>6, <2>7, <2>8
<1>19. QED BY <1>17, <1>18

LEMMA BeforeTrans ==
  ASSUME NumbersFit, WalkInv, pc = "ready", NEW I \in Insts, NEW J \in Insts, NEW K \in Insts,
         I.f \in visited, J.f \in visited, K.f \in visited, Before(I, J), Before(J, K)
  PROVE  Before(I, K)
<1>1. indexof(I) \in Int /\ indexof(J) \in Int /\ indexof(K) \in Int
  BY IndexWithin
<1>2. I.at \in Nat /\ J.at \in Nat /\ K.at \in Nat
  BY InstIs
<1>3. less(I, J) /\ less(J, K) => less(I, K)
  BY <1>2 DEF less
<1>4. QED BY <1>1, <1>3 DEF Before

(* what is numbered stays as it is while the program runs *)
LEMMA NumbersStay ==
  ASSUME UNCHANGED <<calls, visited, first, last, Only>>
  PROVE  /\ Insts' = Insts /\ \A f : TreeCalls(f)' = TreeCalls(f)
         /\ \A I, J : Before(I, J)' <=> Before(I, J)
<1>1. \A f : TreeCalls(f)' = TreeCalls(f) /\ InstsOf(f)' = InstsOf(f)
  BY DEF TreeCalls, InstsOf
<1>2. \A I : indexof(I)' = indexof(I)
  BY <1>1 DEF indexof
<1>3. Insts' = Insts
  BY <1>1 DEF Insts
<1>4. QED BY <1>1, <1>2, <1>3 DEF Before


(***************************************************************************)
(* What executing an instruction comes to: s and e are the stack and the   *)
(* entered functions after it.                                             *)
(***************************************************************************)
GoesOn(s, e) ==
  /\ s \in Seq(Insts) /\ e \subseteq visited /\ entered \subseteq e
  /\ \A m \in 1 .. Len(s) : s[m].f \in e
  /\ Frames(s) /\ Called(s, e)
  /\ s # <<>> => Before(Now, s[Len(s)])

Running ==
  /\ NumbersFit /\ WalkInv /\ PassedOver /\ pc = "ready"
  /\ RunTypes /\ Frames(stack) /\ Called(stack, entered) /\ stack # <<>>

LEMMA RunningIs ==
  ASSUME Running
  PROVE  /\ NumbersFit /\ WalkInv /\ PassedOver /\ pc = "ready" /\ Types
         /\ RunTypes /\ Frames(stack) /\ Called(stack, entered) /\ stack # <<>>
         /\ stack \in Seq(Insts) /\ visited \subseteq Functions
         /\ entered \subseteq visited /\ entered \subseteq Functions
         /\ Len(stack) \in Nat \ {0} /\ Now = stack[Len(stack)] /\ Now \in Insts
         /\ Now.f \in entered /\ Now.f \in visited /\ Now.f \in Functions
         /\ Now.at \in Nat /\ Now = Inst(Now.f, Now.at)
         /\ Len(calls[Now.f]) \in Nat /\ Now.at \in 1 .. 2 * Len(calls[Now.f]) + 1
<1>1. /\ NumbersFit /\ WalkInv /\ PassedOver /\ pc = "ready" /\ Types
      /\ RunTypes /\ Frames(stack) /\ Called(stack, entered) /\ stack # <<>>
  BY DEF Running, WalkInv
<1>2. /\ stack \in Seq(Insts) /\ visited \subseteq Functions
      /\ entered \subseteq visited /\ entered \subseteq Functions
  BY <1>1 DEF RunTypes, Types
<1>3. /\ Len(stack) \in Nat \ {0} /\ Now = stack[Len(stack)] /\ Now \in Insts
      /\ Now.f \in entered /\ Now.f \in visited /\ Now.f \in Functions
  BY <1>1, <1>2, NowIs
<1>4. Now.at \in Nat /\ Now = Inst(Now.f, Now.at)
  BY <1>3, InstIs
<1>5. Len(calls[Now.f]) \in Nat
  BY <1>1, <1>3, CallsOf
<1>6. Now.at \in 1 .. 2 * Len(calls[Now.f]) + 1
  <2>1. PICK f \in Functions : Now \in InstsOf(f)
    BY <1>3 DEF Insts
  <2>2. PICK a \in 1 .. 2 * Len(calls[f]) + 1 : Now = [f |-> f, at |-> a]
    BY <2>1 DEF InstsOf, Inst
  <2>3. Now.f = f /\ Now.at = a
    BY <2>2
  <2>4. QED BY <2>2, <2>3
<1>7. QED BY <1>1, <1>2, <1>3, <1>4, <1>5, <1>6

(* the instructions of a function, one after the other *)
LEMMA NextInFunction ==
  ASSUME Running, Now.at # 2 * Len(calls[Now.f]) + 1
  PROVE  /\ Inst(Now.f, Now.at + 1) \in Insts
         /\ Inst(Now.f, Now.at + 1).f = Now.f /\ Inst(Now.f, Now.at + 1).at = Now.at + 1
         /\ Before(Now, Inst(Now.f, Now.at + 1))
<1>1. PICK f \in Functions : f = Now.f
  BY RunningIs
<1>2. PICK at \in Nat : at = Now.at /\ at + 1 \in 1 .. 2 * Len(calls[f]) + 1
  <2>1. Now.at + 1 \in 1 .. 2 * Len(calls[f]) + 1
    BY <1>1, RunningIs
  <2>2. QED BY <2>1, RunningIs
<1>3. PICK I : I = Inst(f, at + 1)
  OBVIOUS
<1>4. I \in Insts /\ I.f = f /\ I.at = at + 1
  BY <1>2, <1>3, InstOf, RunningIs
<1>5. less(Now, I)
  BY <1>1, <1>2, <1>4 DEF less
<1>6. indexof(Now) <= indexof(I)
  BY <1>4, <1>5, IndexGrows, RunningIs
<1>7. indexof(Now) \in Int /\ indexof(I) \in Int
  BY <1>1, <1>4, IndexWithin, RunningIs
<1>8. Before(Now, I)
  BY <1>5, <1>6, <1>7 DEF Before
<1>9. QED BY <1>1, <1>2, <1>3, <1>4, <1>8

(* the top of the stack, moved on *)
LEMMA MovedOn ==
  ASSUME Running, NEW I \in Insts, I.f = Now.f
  PROVE  /\ Append(Front(stack), I) \in Seq(Insts)
         /\ Len(Append(Front(stack), I)) = Len(stack)
         /\ Append(Front(stack), I)[Len(stack)] = I
         /\ \A m \in 1 .. Len(stack) - 1 : Append(Front(stack), I)[m] = stack[m]
         /\ \A m \in 1 .. Len(stack) : Append(Front(stack), I)[m].f = stack[m].f
<1>1. PICK n : n = Len(stack)
  OBVIOUS
<1>2. n \in Nat \ {0} /\ stack[n] = Now /\ stack \in Seq(Insts) /\ stack # <<>>
  BY <1>1, RunningIs
<1>3. PICK s : s = Front(stack)
  OBVIOUS
<1>4. s \in Seq(Insts) /\ Len(s) = n - 1 /\ \A m \in 1 .. n - 1 : s[m] = stack[m]
  BY <1>1, <1>2, <1>3, FrontIs
<1>5. PICK r : r = Append(s, I)
  OBVIOUS
<1>6. r \in Seq(Insts) /\ Len(r) = (n - 1) + 1 /\ r[(n - 1) + 1] = I
      /\ \A m \in 1 .. n - 1 : r[m] = s[m]
  BY <1>4, <1>5, AppendProperties
<1>7. Len(r) = n /\ r[n] = I
  <2>1. (n - 1) + 1 = n
    BY <1>2
  <2>2. QED BY <1>6, <2>1
<1>8. \A m \in 1 .. n : m = n \/ m \in 1 .. n - 1
  BY <1>2
<1>9. \A m \in 1 .. n : r[m].f = stack[m].f
  BY <1>2, <1>4, <1>6, <1>7, <1>8
<1>10. QED BY <1>1, <1>3, <1>4, <1>5, <1>6, <1>7, <1>9

(***************************************************************************)
(* A call that enters a function is the one the walk has taken to it: had  *)
(* the function been reached before, the run would have entered it.        *)
(***************************************************************************)
LEMMA EnterIsFirst ==
  ASSUME Running, NEW k \in 1 .. Len(calls[Now.f]), Now = CallInst(Now.f, k),
         calls[Now.f][k] \in Functions \ entered
  PROVE  k \in TreeCalls(Now.f)
<1>1. SUFFICES ASSUME k \notin TreeCalls(Now.f) PROVE FALSE
  OBVIOUS
<1>2. PICK f \in visited : f = Now.f
  BY RunningIs
<1>3. PICK g \in Functions \ entered : g = calls[f][k]
  BY <1>2
<1>4. g \in visited /\ first[g] <= indexof(Now)
  BY <1>1, <1>2, <1>3, PassedIsEarlier, RunningIs
<1>5. indexof(Now) < first[g]
  BY <1>3, <1>4, NoneLeftOut, RunningIs
<1>6. indexof(Now) \in Int /\ first[g] \in Int
  BY <1>4, IndexWithin, AllClosed, RunningIs
<1>7. QED BY <1>4, <1>5, <1>6


(* the callees of a function, when its instruction has been executed *)
LEMMA CallsUpTo ==
  ASSUME Running, NEW e, entered \subseteq e, NEW k \in TreeCalls(Now.f), 2 * k < Now.at + 1,
         \A j \in 1 .. Len(calls[Now.f]) :
           Now = CallInst(Now.f, j) => calls[Now.f][j] \notin Functions \ e
  PROVE  calls[Now.f][k] \in e
<1>1. k \in 1 .. Len(calls[Now.f]) /\ calls[Now.f][k] \in Functions
  BY TreeCallIs, RunningIs
<1>2. CASE 2 * k = Now.at
  <2>1. Now = CallInst(Now.f, k)
    BY <1>2, RunningIs DEF CallInst
  <2>2. QED BY <1>1, <2>1
<1>3. CASE 2 * k < Now.at
  <2>1. PICK n : n = Len(stack)
    OBVIOUS
  <2>2. n \in 1 .. Len(stack) /\ stack[n] = Now
    BY <2>1, RunningIs
  <2>3. calls[stack[n].f][k] \in entered
    BY <1>3, <2>2, RunningIs DEF Called
  <2>4. QED BY <2>2, <2>3
<1>4. Now.at \in Nat /\ k \in Nat
  BY <1>1, RunningIs
<1>5. QED BY <1>2, <1>3, <1>4

LEMMA PassGoesOn ==
  ASSUME Running, Pass
  PROVE  GoesOn(stack', entered')
<1>1. PICK n : n = Len(stack)
  OBVIOUS
<1>2. n \in Nat \ {0} /\ stack[n] = Now /\ stack \in Seq(Insts) /\ stack # <<>>
  BY <1>1, RunningIs
<1>3. PICK I : I = Inst(Now.f, Now.at + 1)
  OBVIOUS
<1>4. Now.at # 2 * Len(calls[Now.f]) + 1
  <2>1. Now # Inst(Now.f, 2 * Len(calls[Now.f]) + 1)
    BY DEF Pass, LastInst
  <2>2. Now = Inst(Now.f, Now.at)
    BY RunningIs
  <2>3. QED BY <2>1, <2>2
<1>5. I \in Insts /\ I.f = Now.f /\ I.at = Now.at + 1 /\ Before(Now, I)
  BY <1>3, <1>4, NextInFunction
<1>6. PICK s : s = stack'
  OBVIOUS
<1>7. /\ s \in Seq(Insts) /\ Len(s) = n /\ s[n] = I
      /\ \A m \in 1 .. n - 1 : s[m] = stack[m]
      /\ \A m \in 1 .. n : s[m].f = stack[m].f
  <2>1. s = Append(Front(stack), I)
    BY <1>3, <1>6 DEF Pass
  <2>2. QED BY <1>1, <1>5, <2>1, MovedOn
<1>8. entered' = entered
  BY DEF Pass
<1>9. Frames(s)
  <2>1. Frames(stack)
    BY RunningIs
  <2>2. ASSUME NEW m \in 1 .. n - 1
        PROVE  \E k \in TreeCalls(s[m].f) : s[m].at = 2 * k + 1 /\ calls[s[m].f][k] = s[m + 1].f
    <3>1. m \in 1 .. n /\ m + 1 \in 1 .. n
      BY <1>2
    <3>2. s[m] = stack[m] /\ s[m + 1].f = stack[m + 1].f
      BY <1>7, <3>1
    <3>3. QED BY <1>1, <2>1, <3>2 DEF Frames
  <2>3. \A l, m \in 1 .. n : l < m => last[s[m].f] < last[s[l].f]
    BY <1>1, <1>7, <2>1 DEF Frames
  <2>4. QED BY <1>7, <2>2, <2>3 DEF Frames
<1>10. Called(s, entered)
  <2>1. Called(stack, entered)
    BY RunningIs
  <2>2. ASSUME NEW m \in 1 .. n, NEW k \in TreeCalls(s[m].f), 2 * k < s[m].at
        PROVE  calls[s[m].f][k] \in entered
    <3>1. CASE m = n
      <4>1. s[m].f = Now.f /\ 2 * k < Now.at + 1 /\ k \in TreeCalls(Now.f)
        BY <1>5, <1>7, <2>2, <3>1
      <4>2. calls[Now.f][k] \in entered
        BY <4>1, CallsUpTo DEF Pass
      <4>3. QED BY <4>1, <4>2
    <3>2. CASE m \in 1 .. n - 1
      BY <1>1, <1>7, <2>1, <2>2, <3>2 DEF Called
    <3>3. QED BY <1>2, <3>1, <3>2
  <2>3. ASSUME NEW f \in entered
        PROVE  (\E m \in 1 .. n : s[m].f = f) \/ \A k \in TreeCalls(f) : calls[f][k] \in entered
    BY <1>1, <1>7, <2>1 DEF Called
  <2>4. QED BY <1>7, <2>2, <2>3 DEF Called
<1>11. \A m \in 1 .. n : s[m].f \in entered
  BY <1>1, <1>7, RunningIs DEF RunTypes
<1>12. entered \subseteq visited
  BY RunningIs
<1>13. QED BY <1>5, <1>6, <1>7, <1>8, <1>9, <1>10, <1>11, <1>12 DEF GoesOn

LEMMA ReturnGoesOn ==
  ASSUME Running, Return
  PROVE  GoesOn(stack', entered')
<1>1. PICK n : n = Len(stack)
  OBVIOUS
<1>2. n \in Nat \ {0} /\ stack[n] = Now /\ stack \in Seq(Insts) /\ stack # <<>>
  BY <1>1, RunningIs
<1>3. Now.at = 2 * Len(calls[Now.f]) + 1
  <2>1. Now = [f |-> Now.f, at |-> 2 * Len(calls[Now.f]) + 1]
    BY DEF Return, LastInst, Inst
  <2>2. QED BY <2>1
<1>4. PICK s : s = stack'
  OBVIOUS
<1>5. s \in Seq(Insts) /\ Len(s) = n - 1 /\ \A m \in 1 .. n - 1 : s[m] = stack[m]
  BY <1>1, <1>2, <1>4, FrontIs DEF Return
<1>6. entered' = entered /\ entered \subseteq visited
  BY RunningIs DEF Return
<1>7. Frames(stack) /\ Called(stack, entered)
  BY RunningIs
<1>8. Frames(s)
  <2>1. \A m \in 1 .. (n - 1) - 1 : m \in 1 .. n - 1 /\ m + 1 \in 1 .. n - 1
    BY <1>2
  <2>2. \A m \in 1 .. n - 1 : m \in 1 .. n
    BY <1>2
  <2>3. \A m \in 1 .. (n - 1) - 1 : \E k \in TreeCalls(s[m].f) :
          s[m].at = 2 * k + 1 /\ calls[s[m].f][k] = s[m + 1].f
    BY <1>1, <1>5, <1>7, <2>1 DEF Frames
  <2>4. \A l, m \in 1 .. n - 1 : l < m => last[s[m].f] < last[s[l].f]
    BY <1>1, <1>5, <1>7, <2>2 DEF Frames
  <2>5. QED BY <1>5, <2>3, <2>4 DEF Frames
<1>9. Called(s, entered)
  <2>1. ASSUME NEW m \in 1 .. n - 1, NEW k \in TreeCalls(s[m].f), 2 * k < s[m].at
        PROVE  calls[s[m].f][k] \in entered
    BY <1>1, <1>2, <1>5, <1>7, <2>1 DEF Called
  <2>2. ASSUME NEW f \in entered
        PROVE  (\E m \in 1 .. n - 1 : s[m].f = f) \/ \A k \in TreeCalls(f) : calls[f][k] \in entered
    <3>1. CASE f = Now.f
      <4>1. ASSUME NEW k \in TreeCalls(f) PROVE calls[f][k] \in entered
        <5>1. k \in 1 .. Len(calls[f]) /\ Len(calls[f]) \in Nat
          BY <3>1, TreeCallIs, RunningIs
        <5>2. 2 * k < Now.at
          BY <1>3, <3>1, <5>1
        <5>3. n \in 1 .. Len(stack)
          BY <1>1, <1>2
        <5>4. QED BY <1>2, <1>7, <3>1, <5>2, <5>3 DEF Called
      <4>2. QED BY <4>1
    <3>2. CASE f # Now.f
      <4>1. \A m \in 1 .. n : m = n \/ m \in 1 .. n - 1
        BY <1>2
      <4>2. QED BY <1>1, <1>2, <1>5, <1>7, <3>2, <4>1 DEF Called
    <3>3. QED BY <3>1, <3>2
  <2>3. QED BY <1>5, <2>1, <2>2 DEF Called
<1>10. ASSUME s # <<>> PROVE Before(Now, s[Len(s)])
  <2>1. n - 1 \in Nat \ {0}
    <3>1. Len(s) \in Nat /\ Len(s) # 0
      BY <1>5, <1>10, LenProperties, EmptySeq
    <3>2. QED BY <1>5, <3>1
  <2>2. PICK p : p = stack[n - 1]
    OBVIOUS
  <2>3. n - 1 \in 1 .. n /\ n - 1 \in 1 .. n - 1 /\ (n - 1) + 1 = n
    BY <1>2, <2>1
  <2>4. PICK k \in TreeCalls(p.f) : p.at = 2 * k + 1 /\ calls[p.f][k] = Now.f
    <3>1. \E k \in TreeCalls(stack[n - 1].f) :
            stack[n - 1].at = 2 * k + 1 /\ calls[stack[n - 1].f][k] = stack[(n - 1) + 1].f
      BY <1>1, <1>7, <2>3 DEF Frames
    <3>2. QED BY <1>2, <2>2, <2>3, <3>1
  <2>5. p \in Insts /\ p.f \in visited /\ p.f \in Functions /\ k \in Nat
    <3>1. p \in Insts
      BY <1>1, <1>2, <2>2, <2>3, LenProperties
    <3>2. p.f \in entered
      BY <1>1, <2>2, <2>3, RunningIs DEF RunTypes
    <3>3. QED BY <3>1, <3>2, RunningIs DEF TreeCalls
  <2>6. last[Now.f] <= indexof(p)
    <3>1. 2 * k < p.at
      BY <2>4, <2>5
    <3>2. last[calls[p.f][k]] <= indexof(p)
      BY <2>5, <3>1, AfterCall, RunningIs
    <3>3. QED BY <2>4, <3>2
  <2>7. /\ indexof(Now) < last[Now.f] /\ indexof(Now) \in Int /\ last[Now.f] \in Int
        /\ indexof(p) \in Int
    BY <2>5, IndexWithin, RunningIs
  <2>8. s[Len(s)] = p
    BY <1>5, <2>2, <2>3
  <2>9. QED BY <2>6, <2>7, <2>8 DEF Before
<1>11. \A m \in 1 .. n - 1 : s[m].f \in entered
  <2>1. \A m \in 1 .. n - 1 : m \in 1 .. n
    BY <1>2
  <2>2. QED BY <1>1, <1>5, <2>1, RunningIs DEF RunTypes
<1>12. QED BY <1>4, <1>5, <1>6, <1>8, <1>9, <1>10, <1>11 DEF GoesOn


LEMMA EnterGoesOn ==
  ASSUME Running, NEW k \in 1 .. Len(calls[Now.f]), Enter(k)
  PROVE  GoesOn(stack', entered')
<1>1. PICK n : n = Len(stack)
  OBVIOUS
<1>2. n \in Nat \ {0} /\ stack[n] = Now /\ stack \in Seq(Insts) /\ stack # <<>>
  BY <1>1, RunningIs
<1>3. PICK g : g = calls[Now.f][k]
  OBVIOUS
<1>4. /\ Now = CallInst(Now.f, k) /\ g \in Functions \ entered /\ entered' = entered \cup {g}
      /\ stack' = Front(stack) \o <<Inst(Now.f, Now.at + 1), Inst(g, 1)>>
  BY <1>3 DEF Enter
<1>5. k \in TreeCalls(Now.f)
  BY <1>3, <1>4, EnterIsFirst
<1>6. PICK I : I = Inst(Now.f, Now.at + 1)
  OBVIOUS
<1>7. PICK J : J = Inst(g, 1)
  OBVIOUS
<1>8. k \in Nat /\ Now.at = 2 * k /\ Len(calls[Now.f]) \in Nat /\ k <= Len(calls[Now.f])
  <2>1. Now = [f |-> Now.f, at |-> 2 * k]
    BY <1>4 DEF CallInst, Inst
  <2>2. Now.at = 2 * k
    BY <2>1
  <2>3. QED BY <2>2, RunningIs
<1>9. I \in Insts /\ I.f = Now.f /\ I.at = 2 * k + 1
  BY <1>6, <1>8, NextInFunction
<1>10. /\ g \in visited /\ first[g] \in Int /\ last[g] \in Int /\ last[g] < last[Now.f]
       /\ last[Now.f] \in Int
  <2>1. g \in visited
    BY <1>3, <1>5, TreeCallIs, RunningIs
  <2>2. Closed(Now.f) /\ last[Now.f] \in Int /\ first[g] \in Int /\ last[g] \in Int
    BY <2>1, AllClosed, RunningIs
  <2>3. last[g] < last[Now.f]
    BY <1>3, <1>5, <2>2, RunningIs DEF WalkInv, InOrder
  <2>4. QED BY <2>1, <2>2, <2>3
<1>11. J \in Insts /\ J.f = g /\ J.at = 1
  <2>1. Len(calls[g]) \in Nat
    BY <1>4, CallsOf, RunningIs
  <2>2. 1 \in 1 .. 2 * Len(calls[g]) + 1
    BY <2>1
  <2>3. QED BY <1>4, <1>7, <2>2, InstOf, RunningIs
<1>12. Before(Now, J)
  <2>1. indexof(Now) <= first[g] - 1
    BY <1>3, <1>5, <1>8, BeforeCall, RunningIs
  <2>2. first[g] <= indexof(J) /\ indexof(J) \in Int
    BY <1>10, <1>11, IndexWithin, RunningIs
  <2>3. indexof(Now) \in Int
    BY IndexWithin, RunningIs
  <2>4. QED BY <1>10, <2>1, <2>2, <2>3 DEF Before
<1>13. PICK s : s = stack'
  OBVIOUS
<1>14. /\ s \in Seq(Insts) /\ Len(s) = n + 1 /\ s[n] = I /\ s[n + 1] = J
       /\ \A m \in 1 .. n - 1 : s[m] = stack[m]
  <2>1. PICK r : r = Append(Front(stack), I)
    OBVIOUS
  <2>2. /\ r \in Seq(Insts) /\ Len(r) = n /\ r[n] = I /\ \A m \in 1 .. n - 1 : r[m] = stack[m]
    BY <1>1, <1>9, <2>1, MovedOn
  <2>3. s = Append(r, J)
    <3>1. Front(stack) \in Seq(Insts)
      BY <1>2, FrontIs
    <3>2. Front(stack) \o <<I, J>> = Append(Append(Front(stack), I), J)
      BY <1>9, <1>11, <3>1
    <3>3. QED BY <1>4, <1>6, <1>7, <1>13, <2>1, <3>2
  <2>4. s \in Seq(Insts) /\ Len(s) = Len(r) + 1 /\ s[Len(r) + 1] = J
        /\ \A m \in 1 .. Len(r) : s[m] = r[m]
    BY <1>11, <2>2, <2>3, AppendProperties
  <2>5. n \in 1 .. n /\ \A m \in 1 .. n - 1 : m \in 1 .. n
    BY <1>2
  <2>6. QED BY <2>2, <2>4, <2>5
<1>15. PICK e : e = entered \cup {g}
  OBVIOUS
<1>16. /\ \A m \in 1 .. n + 1 : m = n + 1 \/ m \in 1 .. n
       /\ \A m \in 1 .. n : m = n \/ m \in 1 .. n - 1
       /\ \A m \in 1 .. n : s[m].f = stack[m].f
  <2>1. \A m \in 1 .. n + 1 : m = n + 1 \/ m \in 1 .. n
    BY <1>2
  <2>2. \A m \in 1 .. n : m = n \/ m \in 1 .. n - 1
    BY <1>2
  <2>3. QED BY <1>2, <1>9, <1>14, <2>1, <2>2
<1>17. Frames(stack) /\ Called(stack, entered)
  BY RunningIs
<1>18. Frames(s)
  <2>1. ASSUME NEW m \in 1 .. (n + 1) - 1
        PROVE  \E j \in TreeCalls(s[m].f) : s[m].at = 2 * j + 1 /\ calls[s[m].f][j] = s[m + 1].f
    <3>1. CASE m = n
      <4>1. s[m] = I /\ s[m + 1] = J
        BY <1>14, <3>1
      <4>2. QED BY <1>3, <1>5, <1>9, <1>11, <4>1
    <3>2. CASE m \in 1 .. n - 1
      <4>1. m \in 1 .. n /\ m + 1 \in 1 .. n
        BY <1>2, <3>2
      <4>2. s[m] = stack[m] /\ s[m + 1].f = stack[m + 1].f
        BY <1>14, <1>16, <3>2, <4>1
      <4>3. QED BY <1>1, <1>17, <3>2, <4>2 DEF Frames
    <3>3. (n + 1) - 1 = n
      BY <1>2
    <3>4. QED BY <1>16, <2>1, <3>1, <3>2, <3>3
  <2>2. ASSUME NEW l \in 1 .. n + 1, NEW m \in 1 .. n + 1, l < m
        PROVE  last[s[m].f] < last[s[l].f]
    <3>1. l \in 1 .. n
      BY <1>2, <2>2
    <3>2. CASE m \in 1 .. n
      BY <1>1, <1>16, <1>17, <2>2, <3>1, <3>2 DEF Frames
    <3>3. CASE m = n + 1
      <4>1. s[m].f = g /\ s[l].f = stack[l].f
        BY <1>11, <1>14, <1>16, <3>1, <3>3
      <4>2. l = n \/ last[Now.f] < last[stack[l].f]
        <5>1. l # n => l < n /\ n \in 1 .. n
          BY <1>2, <3>1
        <5>2. QED BY <1>1, <1>2, <1>17, <3>1, <5>1 DEF Frames
      <4>3. stack[l].f \in visited
        BY <1>1, <3>1, RunningIs DEF RunTypes
      <4>4. last[stack[l].f] \in Int
        BY <4>3, AllClosed, RunningIs
      <4>5. QED BY <1>2, <1>10, <4>1, <4>2, <4>4
    <3>4. QED BY <1>16, <3>2, <3>3
  <2>3. QED BY <1>14, <2>1, <2>2 DEF Frames
<1>19. Called(s, e)
  <2>1. ASSUME NEW m \in 1 .. n + 1, NEW j \in TreeCalls(s[m].f), 2 * j < s[m].at
        PROVE  calls[s[m].f][j] \in e
    <3>1. CASE m = n + 1
      <4>1. s[m].at = 1 /\ j \in Nat \ {0}
        BY <1>11, <1>14, <3>1 DEF TreeCalls
      <4>2. QED BY <2>1, <4>1
    <3>2. CASE m = n
      <4>1. s[m].f = Now.f /\ 2 * j < Now.at + 1 /\ j \in TreeCalls(Now.f)
        BY <1>8, <1>9, <1>14, <2>1, <3>2
      <4>2. \A l \in 1 .. Len(calls[Now.f]) :
              Now = CallInst(Now.f, l) => calls[Now.f][l] \notin Functions \ e
        <5>1. ASSUME NEW l \in 1 .. Len(calls[Now.f]), Now = CallInst(Now.f, l)
              PROVE  calls[Now.f][l] \notin Functions \ e
          <6>1. Now = [f |-> Now.f, at |-> 2 * l]
            BY <5>1 DEF CallInst, Inst
          <6>2. l = k
            <7>1. Now.at = 2 * l
              BY <6>1
            <7>2. QED BY <1>8, <7>1
          <6>3. QED BY <1>3, <1>15, <6>2
        <5>2. QED BY <5>1
      <4>3. calls[Now.f][j] \in e
        BY <1>15, <4>1, <4>2, CallsUpTo
      <4>4. QED BY <4>1, <4>3
    <3>3. CASE m \in 1 .. n - 1
      <4>1. s[m] = stack[m] /\ m \in 1 .. n
        BY <1>2, <1>14, <3>3
      <4>2. calls[s[m].f][j] \in entered
        BY <1>1, <1>17, <2>1, <4>1 DEF Called
      <4>3. QED BY <1>15, <4>2
    <3>4. QED BY <1>16, <3>1, <3>2, <3>3
  <2>2. ASSUME NEW f \in e
        PROVE  (\E m \in 1 .. n + 1 : s[m].f = f) \/ \A j \in TreeCalls(f) : calls[f][j] \in e
    <3>1. CASE f = g
      <4>1. n + 1 \in 1 .. n + 1
        BY <1>2
      <4>2. QED BY <1>11, <1>14, <3>1, <4>1
    <3>2. CASE f \in entered
      <4>1. \A m \in 1 .. n : m \in 1 .. n + 1
        BY <1>2
      <4>2. (\E m \in 1 .. n : stack[m].f = f) \/ \A j \in TreeCalls(f) : calls[f][j] \in entered
        BY <1>1, <1>17, <3>2 DEF Called
      <4>3. QED BY <1>15, <1>16, <4>1, <4>2
    <3>3. QED BY <1>15, <3>1, <3>2
  <2>3. QED BY <1>14, <2>1, <2>2 DEF Called
<1>20. \A m \in 1 .. n + 1 : s[m].f \in e
  <2>1. \A m \in 1 .. n : s[m].f \in entered
    BY <1>1, <1>16, RunningIs DEF RunTypes
  <2>2. QED BY <1>11, <1>14, <1>15, <1>16, <2>1
<1>21. s # <<>> => Before(Now, s[Len(s)])
  BY <1>12, <1>14
<1>22. e \subseteq visited /\ entered \subseteq e
  BY <1>10, <1>15, RunningIs
<1>23. QED BY <1>4, <1>13, <1>14, <1>15, <1>18, <1>19, <1>20, <1>21, <1>22 DEF GoesOn


LEMMA ExecuteKeeps ==
  ASSUME NumbersFit, WalkInv, PassedOver, RunInv, Execute
  PROVE  RunInv'
<1>1. /\ pc = "ready" /\ stack # <<>> /\ pc' = pc /\ root' = root
      /\ UNCHANGED <<calls, visited, first, last, Only>>
      /\ ran' = Append(ran, Now)
  BY DEF Execute, vars, walk
<1>2. RunTypes /\ Frames(stack) /\ Called(stack, entered) /\ Sorted
  BY <1>1 DEF RunInv
<1>3. Running
  BY <1>1, <1>2 DEF Running
<1>4. PICK s : s = stack'
  OBVIOUS
<1>5. PICK e : e = entered'
  OBVIOUS
<1>6. GoesOn(s, e)
  BY <1>3, <1>4, <1>5, EnterGoesOn, PassGoesOn, ReturnGoesOn DEF Execute
<1>7. Insts' = Insts /\ (\A f : TreeCalls(f)' = TreeCalls(f))
      /\ \A I, J : Before(I, J)' <=> Before(I, J)
  BY <1>1, NumbersStay
<1>8. PICK N : N = Len(ran)
  OBVIOUS
<1>9. PICK r : r = ran'
  OBVIOUS
<1>10. /\ N \in Nat /\ r \in Seq(Insts) /\ Len(r) = N + 1 /\ r[N + 1] = Now
       /\ \A m \in 1 .. N : r[m] = ran[m] /\ ran[m] \in Insts /\ ran[m].f \in visited
       /\ \A m \in 1 .. N + 1 : m = N + 1 \/ m \in 1 .. N
  <2>1. ran \in Seq(Insts) /\ Now \in Insts
    BY <1>2, <1>3, RunningIs DEF RunTypes
  <2>2. N \in Nat /\ \A m \in 1 .. N : ran[m] \in Insts /\ ran[m].f \in visited
    BY <1>2, <1>8, <2>1, LenProperties DEF RunTypes
  <2>3. r = Append(ran, Now)
    BY <1>1, <1>9
  <2>4. r \in Seq(Insts) /\ Len(r) = N + 1 /\ r[N + 1] = Now /\ \A m \in 1 .. N : r[m] = ran[m]
    BY <1>8, <2>1, <2>3, AppendProperties
  <2>5. \A m \in 1 .. N + 1 : m = N + 1 \/ m \in 1 .. N
    BY <2>2
  <2>6. QED BY <2>2, <2>4, <2>5
<1>11. RunTypes'
  <2>1. s \in Seq(Insts') /\ r \in Seq(Insts') /\ root' \in e /\ e \subseteq visited'
    BY <1>1, <1>2, <1>6, <1>7, <1>10 DEF RunTypes, GoesOn
  <2>2. \A m \in 1 .. Len(s) : s[m].f \in e
    BY <1>6 DEF GoesOn
  <2>3. \A m \in 1 .. Len(r) : r[m].f \in visited'
    BY <1>1, <1>3, <1>10, RunningIs
  <2>4. QED BY <1>4, <1>5, <1>9, <2>1, <2>2, <2>3 DEF RunTypes
<1>12. Frames(stack)'
  <2>1. Frames(s)
    BY <1>6 DEF GoesOn
  <2>2. \A m : TreeCalls(stack[m].f)' = TreeCalls(s[m].f)
    BY <1>1, <1>4 DEF TreeCalls
  <2>3. QED BY <1>1, <1>4, <2>1, <2>2 DEF Frames
<1>13. Called(stack, entered)'
  <2>1. Called(s, e)
    BY <1>6 DEF GoesOn
  <2>2. \A m : TreeCalls(stack[m].f)' = TreeCalls(s[m].f)
    BY <1>1, <1>4 DEF TreeCalls
  <2>3. QED BY <1>1, <1>4, <1>5, <1>7, <2>1, <2>2 DEF Called
<1>14. Sorted'
  <2>1. \A n \in 1 .. N : Before(ran[n], Now) /\ \A m \in 1 .. n - 1 : Before(ran[m], ran[n])
    <3>1. Now = stack[Len(stack)]
      BY <1>3, RunningIs
    <3>2. QED BY <1>1, <1>2, <1>8, <3>1 DEF Sorted
  <2>2. ASSUME NEW n \in 1 .. N + 1, NEW m \in 1 .. n - 1
        PROVE  Before(r[m], r[n])
    <3>1. CASE n = N + 1
      <4>1. m \in 1 .. N
        BY <1>10, <3>1
      <4>2. QED BY <1>10, <2>1, <3>1, <4>1
    <3>2. CASE n \in 1 .. N
      <4>1. m \in 1 .. N
        BY <1>10, <3>2
      <4>2. QED BY <1>10, <2>1, <3>2, <4>1
    <3>3. QED BY <1>10, <3>1, <3>2
  <2>3. ASSUME NEW n \in 1 .. N + 1, s # <<>>
        PROVE  Before(r[n], s[Len(s)])
    <3>1. PICK t : t = s[Len(s)]
      OBVIOUS
    <3>2. Before(Now, t)
      BY <1>6, <2>3, <3>1 DEF GoesOn
    <3>3. t \in Insts /\ t.f \in visited
      <4>1. s \in Seq(Insts) /\ e \subseteq visited /\ \A m \in 1 .. Len(s) : s[m].f \in e
        BY <1>6 DEF GoesOn
      <4>2. Len(s) \in 1 .. Len(s) /\ s[Len(s)] \in Insts
        BY <2>3, <4>1, FrontIs
      <4>3. QED BY <3>1, <4>1, <4>2
    <3>4. CASE n = N + 1
      BY <1>10, <3>1, <3>2, <3>4
    <3>5. CASE n \in 1 .. N
      <4>1. Before(ran[n], Now)
        BY <2>1, <3>5
      <4>2. PICK I \in Insts : I = ran[n] /\ I.f \in visited
        BY <1>10, <3>5
      <4>3. Before(I, t)
        BY <1>1, <1>3, <3>2, <3>3, <4>1, <4>2, BeforeTrans, RunningIs
      <4>4. QED BY <1>10, <3>1, <3>5, <4>2, <4>3
    <3>6. QED BY <1>10, <3>4, <3>5
  <2>4. /\ \A m, n : Before(ran[m], ran[n])' <=> Before(r[m], r[n])
        /\ \A n : Before(ran[n], stack[Len(stack)])' <=> Before(r[n], s[Len(s)])
    <3>1. \A f : TreeCalls(f)' = TreeCalls(f)
      BY <1>7
    <3>2. \A I : calls'[I.f] = calls[I.f] /\ Only' = Only
      BY <1>1
    <3>3. \A m : indexof(ran[m])' = indexof(r[m])
      BY <1>1, <1>9 DEF indexof, TreeCalls
    <3>4. indexof(stack[Len(stack)])' = indexof(s[Len(s)])
      BY <1>1, <1>4 DEF indexof, TreeCalls
    <3>5. QED BY <1>4, <1>9, <3>3, <3>4 DEF Before
  <2>5. \A n \in 1 .. Len(r) : /\ \A m \in 1 .. n - 1 : Before(r[m], r[n])
                               /\ s # <<>> => Before(r[n], s[Len(s)])
    BY <1>10, <2>2, <2>3
  <2>6. QED BY <1>4, <1>9, <2>4, <2>5 DEF Sorted
<1>15. QED BY <1>1, <1>11, <1>12, <1>13, <1>14 DEF RunInv

(* the filter's own steps: it is built before the run, and then only asked *)
LEMMA FilterKeeps ==
  ASSUME NumbersFit, WalkInv, PassedOver, RunInv, [Next]_vars, UNCHANGED runVars
  PROVE  RunInv'
<1>1. stack' = stack /\ entered' = entered /\ ran' = ran
  BY DEF runVars
<1>2. CASE (\E k : Descend(k)) \/ Ascend
  <2>1. pc = "walk" /\ pc' = "walk" /\ root' = root
    BY <1>2 DEF Descend, Ascend
  <2>2. QED BY <1>1, <2>1 DEF RunInv
<1>3. CASE Constructed
  <2>1. /\ pc = "walk" /\ pc' = "ready" /\ root' = root
        /\ UNCHANGED <<calls, visited, first, last, Only>>
    BY <1>3 DEF Constructed, walk
  <2>2. stack = <<Inst(root, 1)>> /\ entered = {root} /\ ran = <<>>
    BY <2>1 DEF RunInv
  <2>3. root \in visited /\ root \in Functions /\ Types
    BY DEF PassedOver, WalkInv, Types
  <2>4. Inst(root, 1) \in Insts /\ Inst(root, 1).f = root /\ Inst(root, 1).at = 1
    <3>1. Len(calls[root]) \in Nat
      BY <2>3, CallsOf
    <3>2. 1 \in 1 .. 2 * Len(calls[root]) + 1
      BY <3>1
    <3>3. QED BY <2>3, <3>2, InstOf
  <2>5. PICK I : I = Inst(root, 1)
    OBVIOUS
  <2>6. /\ I \in Insts' /\ I.f = root /\ I.at = 1 /\ stack = <<I>> /\ stack \in Seq(Insts')
        /\ Len(stack) = 1 /\ stack[1] = I
    BY <2>1, <2>2, <2>4, <2>5, NumbersStay
  <2>7. Len(ran) = 0 /\ ran \in Seq(Insts')
    BY <2>2
  <2>8. \A f : TreeCalls(f)' = TreeCalls(f) /\ \A k \in TreeCalls(f) : k \in Nat \ {0}
    BY <2>1, NumbersStay DEF TreeCalls
  <2>9. RunTypes'
    BY <1>1, <2>1, <2>2, <2>3, <2>6, <2>7 DEF RunTypes
  <2>10. Frames(stack)'
    BY <1>1, <2>6 DEF Frames
  <2>11. Called(stack, entered)'
    <3>1. \A k \in TreeCalls(stack[1].f)' : k \in Nat \ {0}
      BY DEF TreeCalls
    <3>2. \A k \in TreeCalls(stack[1].f)' : ~(2 * k < 1)
      BY <3>1
    <3>3. QED BY <1>1, <2>2, <2>6, <3>2 DEF Called
  <2>12. Sorted'
    BY <1>1, <2>7 DEF Sorted
  <2>13. QED BY <2>1, <2>9, <2>10, <2>11, <2>12 DEF RunInv
<1>4. CASE (\E I \in Insts : update(I) \/ query(I)) \/ UNCHANGED vars
  <2>1. /\ pc' = pc /\ root' = root
        /\ UNCHANGED <<calls, visited, first, last, Only>>
    BY <1>4 DEF update, query, vars, walk
  <2>2. CASE pc = "walk"
    BY <1>1, <2>1, <2>2 DEF RunInv
  <2>3. CASE pc = "ready"
    <3>1. RunTypes /\ Frames(stack) /\ Called(stack, entered) /\ Sorted
      BY <2>3 DEF RunInv
    <3>2. Insts' = Insts
      BY <2>1, NumbersStay
    <3>3. RunTypes'
      BY <1>1, <2>1, <3>1, <3>2 DEF RunTypes
    <3>4. Frames(stack)' /\ Called(stack, entered)'
      BY <1>1, <2>1, <3>1 DEF Frames, Called, TreeCalls
    <3>5. Sorted'
      <4>1. \A m : indexof(ran[m])' = indexof(ran[m])
        BY <1>1, <2>1 DEF indexof, TreeCalls
      <4>2. indexof(stack[Len(stack)])' = indexof(stack[Len(stack)])
        BY <1>1, <2>1 DEF indexof, TreeCalls
      <4>3. QED BY <1>1, <3>1, <4>1, <4>2 DEF Sorted, Before
    <3>6. QED BY <2>1, <2>3, <3>3, <3>4, <3>5 DEF RunInv
  <2>4. QED BY <2>2, <2>3, <2>1 DEF RunInv, WalkInv, Types
<1>5. QED BY <1>2, <1>3, <1>4 DEF Next

(* a run does not change what the filter does *)
LEMMA RunIsWalk == RunSpec => Spec
<1>1. [RunNext]_<<vars, runVars>> => [Next]_vars
  BY DEF RunNext, Execute
<1>2. QED BY <1>1, PTL DEF RunSpec, Spec

LEMMA RunAlways == NumbersFit /\ RunSpec => [](WalkInv /\ PassedOver /\ RunInv)
<1> SUFFICES ASSUME NumbersFit PROVE RunSpec => [](WalkInv /\ PassedOver /\ RunInv)
  OBVIOUS
<1>1. ASSUME Init, RunInit PROVE WalkInv /\ PassedOver /\ RunInv
  <2>1. root \in Functions
    BY <1>1 DEF Init, RunInit
  <2>2. RunInv
    BY <1>1 DEF Init, Start, RunInit, RunInv
  <2>3. QED BY <1>1, <2>1, <2>2, WalkStart, PassedStart
<1>2. ASSUME WalkInv, PassedOver, RunInv, [RunNext]_<<vars, runVars>>
      PROVE  WalkInv' /\ PassedOver' /\ RunInv'
  <2>1. [Next]_vars
    BY <1>2 DEF RunNext, Execute
  <2>2. WalkInv' /\ PassedOver'
    BY <1>2, <2>1, WalkStep, PassedStep
  <2>3. CASE Execute
    BY <1>2, <2>2, <2>3, ExecuteKeeps
  <2>4. CASE UNCHANGED runVars
    BY <1>2, <2>1, <2>2, <2>4, FilterKeeps
  <2>5. QED BY <1>2, <2>3, <2>4 DEF RunNext, runVars
<1>3. QED BY <1>1, <1>2, PTL DEF RunSpec

(***************************************************************************)
(* The numbered functions are those a run of main comes to, for every call *)
(* graph that is walked from main and every length of the run.             *)
(***************************************************************************)
THEOREM ReachedRight == NumbersFit /\ RunSpec => []NumberedAreReached
<1> SUFFICES ASSUME NumbersFit PROVE RunSpec => []NumberedAreReached
  OBVIOUS
<1>1. ASSUME WalkInv, PassedOver, RunInv PROVE NumberedAreReached
  <2>1. SUFFICES ASSUME pc = "ready"
                 PROVE  entered \subseteq visited /\ (stack = <<>> => entered = visited)
    BY DEF NumberedAreReached
  <2>2. RunTypes /\ Frames(stack) /\ Called(stack, entered)
    BY <1>1, <2>1 DEF RunInv
  <2>3. ASSUME NEW h \in visited, h \notin entered PROVE stack # <<>>
    BY <1>1, <2>1, <2>2, <2>3, NoneLeftOut
  <2>4. QED BY <2>2, <2>3 DEF RunTypes
<1>2. QED BY RunAlways, <1>1, PTL

(***************************************************************************)
(* The filter's verdict on the instructions a run of main comes to is the  *)
(* order in which they first run, for every call graph walked from main    *)
(* and every length of the run.                                            *)
(***************************************************************************)
THEOREM OrderRight == NumbersFit /\ RunSpec => []OrderIsFirstRun
<1> SUFFICES ASSUME NumbersFit PROVE RunSpec => []OrderIsFirstRun
  OBVIOUS
<1>1. ASSUME WalkInv, RunInv, Threshold, threshold_inst # None,
             NEW m \in DOMAIN ran, NEW n \in DOMAIN ran, ran[m] = threshold_inst
      PROVE  Refuses(ran[n]) <=> n <= m
  <2>1. pc = "ready" /\ threshold = indexof(threshold_inst)
    BY <1>1 DEF Threshold
  <2>2. RunTypes /\ Sorted
    BY <1>1, <2>1 DEF RunInv
  <2>3. m \in 1 .. Len(ran) /\ n \in 1 .. Len(ran) /\ m \in Nat /\ n \in Nat
    BY <2>2, LenProperties DEF RunTypes
  <2>4. PICK T \in Insts : T = ran[m] /\ T.f \in visited
    BY <2>2, <2>3, LenProperties DEF RunTypes
  <2>5. PICK I \in Insts : I = ran[n] /\ I.f \in visited
    BY <2>2, <2>3, LenProperties DEF RunTypes
  <2>6. /\ indexof(T) \in Int /\ indexof(I) \in Int /\ first[I.f] \in Int /\ last[I.f] \in Int
        /\ first[I.f] <= indexof(I) /\ indexof(I) < last[I.f] /\ last[I.f] < Wrap
    BY <1>1, <2>1, <2>4, <2>5, IndexWithin
  <2>7. indexof(I) # UINT_MAX
    BY <2>6, CGFilterAssumption DEF UINT_MAX
  <2>8. threshold = indexof(T) /\ threshold_inst = T
    BY <1>1, <2>1, <2>4
  <2>9. CASE n = m
    BY <2>4, <2>5, <2>6, <2>8, <2>9, <2>3 DEF Refuses, less_equal
  <2>10. CASE n < m
    <3>1. n \in 1 .. m - 1
      BY <2>3, <2>10
    <3>2. Before(I, T)
      BY <2>2, <2>3, <2>4, <2>5, <3>1 DEF Sorted
    <3>3. QED BY <2>3, <2>5, <2>6, <2>8, <2>10, <3>2 DEF Refuses, Before, less_equal
  <2>11. CASE m < n
    <3>1. m \in 1 .. n - 1
      BY <2>3, <2>11
    <3>2. Before(T, I)
      BY <2>2, <2>3, <2>4, <2>5, <3>1 DEF Sorted
    <3>3. I.at \in Nat /\ T.at \in Nat
      BY InstIs
    <3>4. less(T, I) => ~less_equal(I, T)
      BY <3>3 DEF less, less_equal
    <3>5. QED BY <2>3, <2>5, <2>6, <2>7, <2>8, <2>11, <3>2, <3>4 DEF Refuses, Before
  <2>12. QED BY <2>3, <2>9, <2>10, <2>11
<1>2. WalkInv /\ RunInv /\ Threshold => OrderIsFirstRun
  BY <1>1 DEF OrderIsFirstRun
<1>3. QED BY RunAlways, RunIsWalk, ThresholdAlways, <1>2, PTL
=============================================================================
