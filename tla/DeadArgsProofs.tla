--------------------------- MODULE DeadArgsProofs ---------------------------
(***************************************************************************)
(* Proofs about DeadArgs, for every module whose functions return at most  *)
(* one value: the first change of each function removes only what the      *)
(* program does not need.                                                  *)
(*                                                                         *)
(* The argument has two phases.  While functions are still to be surveyed  *)
(* for the first time, what was surveyed is closed: a value is live, or    *)
(* has only uses that are not live and that are noted, so that whatever    *)
(* makes one of them live makes it live too (SurveyInv).  When none is     *)
(* left, all that is needed is live, and that is never lost again for a    *)
(* function before it is changed (Judged).  The last part is the converse, *)
(* for a whole module: nothing is live that is not needed (NeededInv).     *)
(***************************************************************************)
EXTENDS DeadArgs, TLAPS, SequenceTheorems

SingleReturns == \A f \in Functions : Len(Rets[f]) <= 1

LiveNow(v) == Of[v] \in LiveFunctions \/ RetOrArg(v) \in LiveValues

(* live, or in use only where it is noted *)
Closed(v) ==
  \/ LiveNow(v)
  \/ /\ \A x \in uses[v] : ~LiveUse(x) /\ <<RetOrArg(x), RetOrArg(v)>> \in Uses
     /\ ~(linkage[Of[v]] = "variadic" /\ IsArg(v))

(* the functions that are to be surveyed, or are being surveyed *)
Pending == {f \in Functions : \E k \in DOMAIN tasks : tasks[k] = Task("survey", f)}

(* the values that were surveyed for the first time *)
Marked(v) ==
  \/ Of[v] \notin Pending
  \/ /\ Doing("survey", Of[v])
     /\ \E j \in DOMAIN InOrder(Of[v]) : j < at /\ InOrder(Of[v])[j] = v

(* first all varargs, then all surveys, then the rest *)
InPhases ==
  /\ \A j, k \in DOMAIN tasks : j < k =>
       /\ tasks[k].what = "varargs" => tasks[j].what = "varargs"
       /\ tasks[k].what = "survey" => tasks[j].what \in {"varargs", "survey"}
  /\ \A k \in DOMAIN tasks : tasks[k].what = "varargs" => Functions \subseteq Pending

SurveyInv ==
  /\ InPhases
  /\ \A v \in Values : Marked(v) => Closed(v)
  /\ \A f \in Functions \ Pending : IntrinsicallyLive(f) => f \in LiveFunctions
  /\ \A f \in Functions : Doing("survey", f) /\ at > 0 =>
       /\ ~IntrinsicallyLive(f)
       /\ at = 1 => RetValLiveness = {k \in DOMAIN Rets[f] : SurveyedLive(Rets[f][k])}

Judged ==
  /\ \A v \in Values : Needed(v) /\ Of[v] \notin ran => LiveNow(v)
  /\ \A k \in DOMAIN tasks : tasks[k].what # "varargs"

(* where a survey is *)
Progress ==
  /\ at > 0 => \E f \in Functions : Doing("survey", f)
  /\ \A f \in Functions : Doing("survey", f) /\ at > 0 =>
       \A k \in DOMAIN Rets[f] \ RetValLiveness : Other \notin uses[Rets[f][k]]

TypeInv == TypeOK /\ Progress

FirstInv == TypeInv /\ (SurveyInv \/ Judged)

----------------------------------------------------------------------------
LEMMA Types ==
  /\ Of \in [Values -> Functions]
  /\ Args \in [Functions -> Seq(Values)] /\ Rets \in [Functions -> Seq(Values)]
  /\ Other \notin Values
BY DeadArgsAssumption

(* one sequence after another *)
LEMMA Concatenated ==
  ASSUME NEW s \in Seq(Values), NEW t \in Seq(Values)
  PROVE  /\ s \o t \in Seq(Values)
         /\ Len(s) \in Nat /\ Len(t) \in Nat
         /\ DOMAIN s = 1 .. Len(s)
         /\ Len(s \o t) = Len(s) + Len(t)
         /\ DOMAIN (s \o t) = 1 .. Len(s) + Len(t)
         /\ \A k \in DOMAIN s : k \in DOMAIN (s \o t) /\ (s \o t)[k] = s[k]
         /\ \A k \in DOMAIN t : /\ Len(s) + k \in DOMAIN (s \o t)
                                /\ (s \o t)[Len(s) + k] = t[k]
         /\ \A j \in DOMAIN (s \o t) :
              \/ j \in DOMAIN s /\ (s \o t)[j] = s[j]
              \/ j - Len(s) \in DOMAIN t /\ (s \o t)[j] = t[j - Len(s)]
<1>1. /\ s \o t \in Seq(Values)
      /\ Len(s \o t) = Len(s) + Len(t)
      /\ \A i \in 1 .. Len(s) + Len(t) :
           (s \o t)[i] = IF i <= Len(s) THEN s[i] ELSE t[i - Len(s)]
  BY ConcatProperties
<1>2. /\ Len(s) \in Nat /\ DOMAIN s = 1 .. Len(s)
      /\ Len(t) \in Nat /\ DOMAIN t = 1 .. Len(t)
      /\ DOMAIN (s \o t) = 1 .. Len(s) + Len(t)
  BY <1>1, LenProperties
<1>3. ASSUME NEW k \in DOMAIN s
      PROVE  k \in DOMAIN (s \o t) /\ (s \o t)[k] = s[k]
  BY <1>1, <1>2
<1>4. ASSUME NEW k \in DOMAIN t
      PROVE  Len(s) + k \in DOMAIN (s \o t) /\ (s \o t)[Len(s) + k] = t[k]
  <2>1. k \in 1 .. Len(t)
    BY <1>2
  <2>2. /\ Len(s) + k \in 1 .. Len(s) + Len(t)
        /\ ~(Len(s) + k <= Len(s)) /\ (Len(s) + k) - Len(s) = k
    BY <1>2, <2>1
  <2>3. QED BY <1>1, <1>2, <2>2
<1>5. ASSUME NEW j \in DOMAIN (s \o t)
      PROVE  \/ j \in DOMAIN s /\ (s \o t)[j] = s[j]
             \/ j - Len(s) \in DOMAIN t /\ (s \o t)[j] = t[j - Len(s)]
  BY <1>1, <1>2
<1>6. QED BY <1>1, <1>2, <1>3, <1>4, <1>5

(* a value is among what is surveyed of its function *)
LEMMA InItsOrder ==
  ASSUME NEW v \in Values
  PROVE  \E j \in DOMAIN InOrder(Of[v]) : InOrder(Of[v])[j] = v
<1>1. Rets[Of[v]] \in Seq(Values) /\ Args[Of[v]] \in Seq(Values)
  BY Types
<1>2. \/ \E k \in DOMAIN Args[Of[v]] : Args[Of[v]][k] = v
      \/ \E k \in DOMAIN Rets[Of[v]] : Rets[Of[v]][k] = v
  BY DeadArgsAssumption
<1> DEFINE s == Rets[Of[v]]
           t == Args[Of[v]]
<1>3. s \in Seq(Values) /\ t \in Seq(Values) /\ InOrder(Of[v]) = s \o t
  BY <1>1 DEF InOrder
<1>4. (\E k \in DOMAIN t : t[k] = v) \/ (\E k \in DOMAIN s : s[k] = v)
  BY <1>2
<1> HIDE DEF s, t
<1>5. \E j \in DOMAIN (s \o t) : (s \o t)[j] = v
  <2>1. \A k \in DOMAIN s : k \in DOMAIN (s \o t) /\ (s \o t)[k] = s[k]
    BY <1>3, Concatenated
  <2>2. \A k \in DOMAIN t : /\ Len(s) + k \in DOMAIN (s \o t)
                            /\ (s \o t)[Len(s) + k] = t[k]
    BY <1>3, Concatenated
  <2>3. QED BY <1>4, <2>1, <2>2, Zenon
<1>6. QED BY <1>3, <1>5

(* the value surveyed at a place is of that function *)
LEMMA OrderOf ==
  ASSUME NEW f \in Functions, NEW j \in DOMAIN InOrder(f)
  PROVE  InOrder(f)[j] \in Values /\ Of[InOrder(f)[j]] = f
<1>1. Rets[f] \in Seq(Values) /\ Args[f] \in Seq(Values)
  BY Types
<1> DEFINE s == Rets[f]
           t == Args[f]
<1>2. s \in Seq(Values) /\ t \in Seq(Values) /\ InOrder(f) = s \o t
  BY <1>1 DEF InOrder
<1>3. /\ \A k \in DOMAIN s : s[k] \in Values /\ Of[s[k]] = f
      /\ \A k \in DOMAIN t : t[k] \in Values /\ Of[t[k]] = f
  BY <1>1, DeadArgsAssumption
<1> HIDE DEF s, t
<1>4. j \in DOMAIN (s \o t)
  BY <1>2
<1>5. \/ j \in DOMAIN s /\ (s \o t)[j] = s[j]
      \/ j - Len(s) \in DOMAIN t /\ (s \o t)[j] = t[j - Len(s)]
  BY <1>2, <1>4, Concatenated
<1>6. QED BY <1>2, <1>3, <1>5

(* taking the first task from the list *)
LEMMA TailTasks ==
  ASSUME TypeOK, tasks # <<>>, tasks' = Tail(tasks)
  PROVE  /\ Len(tasks) \in Nat \ {0} /\ DOMAIN tasks = 1 .. Len(tasks)
         /\ DOMAIN tasks' = 1 .. Len(tasks) - 1
         /\ \A k \in DOMAIN tasks' : k + 1 \in DOMAIN tasks /\ tasks'[k] = tasks[k + 1]
         /\ Head(tasks) = tasks[1]
         /\ \A k \in DOMAIN tasks : k # 1 => k - 1 \in DOMAIN tasks' /\ tasks'[k - 1] = tasks[k]
<1> DEFINE T == [what : {"varargs", "survey", "remove", "undef"}, f : Functions]
<1>1. tasks \in Seq(T)
  BY DEF TypeOK
<1> HIDE DEF T
<1>2. QED BY <1>1, HeadTailProperties

----------------------------------------------------------------------------
(***************************************************************************)
(* Propagation.                                                            *)
(***************************************************************************)
LEMMA SpreadHas ==
  ASSUME NEW S, NEW s \in S, Unmarked(s)
  PROVE  s \in Spread(S)
BY DEF Spread, Known

LEMMA SpreadCloses ==
  ASSUME NEW S, NEW e \in Uses, e[1] \in Spread(S), Unmarked(e[2])
  PROVE  e[2] \in Spread(S)
BY DEF Spread, Known

LEMMA SpreadKnown ==
  ASSUME NEW S, S \subseteq RetOrArgs, Uses \subseteq RetOrArgs \X RetOrArgs
  PROVE  Spread(S) \subseteq RetOrArgs
BY DEF Spread, Known

(* what is surveyed stays so when more becomes live *)
LEMMA MarkLiveCloses ==
  ASSUME NEW r, MarkLive(r), UNCHANGED <<program, LiveFunctions>>,
         NEW v \in Values, Closed(v)
  PROVE  Closed(v)'
<1> USE DEF program, LiveNow, RetOrArg, LiveUse
<1>1. CASE LiveNow(v)
  BY <1>1 DEF MarkLive, Closed
<1>2. CASE ~LiveNow(v)
  <2> SUFFICES ASSUME ~LiveNow(v)', NEW x \in uses[v]
               PROVE  ~LiveUse(x)' /\ <<RetOrArg(x), RetOrArg(v)>> \in Uses'
    BY <1>2 DEF Closed
  <2> DEFINE e == <<RetOrArg(x), RetOrArg(v)>>
  <2>1. ~LiveUse(x) /\ e \in Uses
    BY <1>2 DEF Closed
  <2>2. Unmarked(e[2])
    BY <1>2 DEF Unmarked
  <2>3. e[2] \notin Spread({r})
    BY DEF MarkLive
  <2>4. e[1] \notin Spread({r})
    BY <2>1, <2>2, <2>3, SpreadCloses
  <2>5. QED BY <2>1, <2>4 DEF MarkLive
<1>3. QED BY <1>1, <1>2

LEMMA MarkFunctionLiveCloses ==
  ASSUME NEW f \in Functions, MarkFunctionLive(f), UNCHANGED program,
         NEW v \in Values, Closed(v), uses[v] \subseteq Values \cup {Other}
  PROVE  Closed(v)'
<1> DEFINE own == {RetOrArg(x) : x \in ValuesOf(f)}
           next == {e[2] : e \in {d \in Uses : d[1] \in own}}
           new == {r \in Spread(next) : Of[r[1]] # f}
<1> USE DEF program, LiveNow, RetOrArg, LiveUse
<1>1. /\ LiveFunctions' = LiveFunctions \cup {f}
      /\ LiveValues' = LiveValues \cup new
      /\ Uses' = {e \in Uses : e[1] \notin own \cup new}
  BY DEF MarkFunctionLive
<1>2. CASE LiveNow(v)
  BY <1>1, <1>2 DEF Closed
<1>3. CASE ~LiveNow(v)
  <2> SUFFICES ASSUME ~LiveNow(v)', NEW x \in uses[v]
               PROVE  ~LiveUse(x)' /\ <<RetOrArg(x), RetOrArg(v)>> \in Uses'
    BY <1>3 DEF Closed
  <2> DEFINE e == <<RetOrArg(x), RetOrArg(v)>>
  <2>1. ~LiveUse(x) /\ e \in Uses
    BY <1>3 DEF Closed
  <2>2. x \in Values
    BY <2>1
  <2>3. Unmarked(e[2]) /\ Of[v] # f /\ e[2] \notin new
    BY <1>1, <1>3 DEF Unmarked
  <2>4. e[2] \notin Spread(next)
    BY <2>3
  <2>5. e[1] \notin own
    <3>1. e[2] \notin next
      BY <2>3, <2>4, SpreadHas
    <3>2. QED BY <2>1, <3>1
  <2>6. e[1] \notin Spread(next)
    BY <2>1, <2>3, <2>4, SpreadCloses
  <2>7. Of[x] # f
    BY <2>2, <2>5 DEF ValuesOf
  <2>8. QED BY <1>1, <2>1, <2>2, <2>5, <2>6, <2>7
<1>4. QED BY <1>2, <1>3

(* after MarkValue the value is live, or what it goes to is noted *)
LEMMA MarkValueCloses ==
  ASSUME NEW v \in Values, NEW live \in BOOLEAN, MarkValue(v, live),
         UNCHANGED <<program, LiveFunctions>>,
         SurveyedLive(v) => live,
         linkage[Of[v]] = "variadic" /\ IsArg(v) => live
  PROVE  /\ Closed(v)'
         /\ \A w \in Values : Closed(w) => Closed(w)'
<1> USE DEF program
<1>1. CASE live
  <2>1. MarkLive(RetOrArg(v))
    BY <1>1 DEF MarkValue
  <2>2. LiveNow(v)'
    <3>1. Unmarked(RetOrArg(v)) => RetOrArg(v) \in Spread({RetOrArg(v)})
      BY SpreadHas
    <3>2. QED BY <2>1, <3>1 DEF MarkLive, LiveNow, Unmarked, RetOrArg
  <2>3. QED BY <2>1, <2>2, MarkLiveCloses DEF Closed
<1>2. CASE ~live
  <2>1. Uses' = Uses \cup MaybeLiveUses(v) /\ LiveValues' = LiveValues
    BY <1>2 DEF MarkValue
  <2>2. \A x \in uses[v] : ~LiveUse(x) /\ <<RetOrArg(x), RetOrArg(v)>> \in Uses'
    BY <1>2, <2>1 DEF SurveyedLive, MaybeLiveUses
  <2>3. QED BY <1>2, <2>1, <2>2 DEF Closed, LiveNow, LiveUse, RetOrArg, IsArg
<1>3. QED BY <1>1, <1>2

----------------------------------------------------------------------------
(***************************************************************************)
(* Type correctness.                                                       *)
(***************************************************************************)
TaskType == [what : {"varargs", "survey", "remove", "undef"}, f : Functions]

LEMMA TaskWhat ==
  \A w, g : Task(w, g).what = w /\ Task(w, g).f = g
BY DEF Task

(* the lists of the drivers, by place *)
LEMMA WholeLists ==
  LET n == Len(Module) IN
  /\ n \in Nat
  /\ prepare \in Seq(TaskType) /\ Len(prepare) = 2 * n /\ DOMAIN prepare = 1 .. 2 * n
  /\ \A k \in 1 .. 2 * n :
       /\ k <= n => prepare[k] = Task("varargs", Module[k])
       /\ k > n => prepare[k] = Task("survey", Module[k - n])
  /\ runOnModule \in Seq(TaskType) /\ Len(runOnModule) = 4 * n /\ DOMAIN runOnModule = 1 .. 4 * n
  /\ \A k \in 1 .. 4 * n :
       /\ k <= n => runOnModule[k] = Task("varargs", Module[k])
       /\ k > n /\ k <= 2 * n => runOnModule[k] = Task("survey", Module[k - n])
       /\ k > 2 * n /\ k <= 3 * n => runOnModule[k] = Task("remove", Module[k - 2 * n])
       /\ k > 3 * n => runOnModule[k] = Task("undef", Module[k - 3 * n])
<1> DEFINE n == Len(Module)
<1>1. Module \in Seq(Functions) /\ n \in Nat /\ DOMAIN Module = 1 .. n
  BY DeadArgsAssumption, LenProperties
<1>2. ASSUME NEW w \in {"varargs", "survey", "remove", "undef"}
      PROVE  /\ ForAll(w) \in Seq(TaskType) /\ Len(ForAll(w)) = n
             /\ \A k \in 1 .. n : ForAll(w)[k] = Task(w, Module[k])
  <2>1. ForAll(w) = [k \in 1 .. n |-> Task(w, Module[k])]
    BY <1>1 DEF ForAll
  <2>2. \A k \in 1 .. n : Task(w, Module[k]) \in TaskType
    BY <1>1 DEF Task, TaskType
  <2>3. QED BY <1>1, <2>1, <2>2
<1> DEFINE a == ForAll("varargs")
           b == ForAll("survey")
           c == ForAll("remove")
           d == ForAll("undef")
<1>3. /\ a \in Seq(TaskType) /\ b \in Seq(TaskType) /\ c \in Seq(TaskType) /\ d \in Seq(TaskType)
      /\ Len(a) = n /\ Len(b) = n /\ Len(c) = n /\ Len(d) = n
      /\ \A k \in 1 .. n : /\ a[k] = Task("varargs", Module[k])
                           /\ b[k] = Task("survey", Module[k])
                           /\ c[k] = Task("remove", Module[k])
                           /\ d[k] = Task("undef", Module[k])
  BY <1>2
<1>4. prepare = a \o b /\ runOnModule = ((a \o b) \o c) \o d
  BY DEF prepare, runOnModule
<1> HIDE DEF a, b, c, d, n
<1>5. /\ a \o b \in Seq(TaskType) /\ Len(a \o b) = 2 * n
      /\ \A k \in 1 .. 2 * n : (a \o b)[k] = IF k <= n THEN a[k] ELSE b[k - n]
  <2>1. /\ a \o b \in Seq(TaskType) /\ Len(a \o b) = Len(a) + Len(b)
        /\ \A k \in 1 .. Len(a) + Len(b) :
             (a \o b)[k] = IF k <= Len(a) THEN a[k] ELSE b[k - Len(a)]
    BY <1>3, ConcatProperties
  <2>2. Len(a) + Len(b) = 2 * n /\ Len(a) = n
    BY <1>1, <1>3
  <2>3. QED BY <2>1, <2>2
<1>6. /\ (a \o b) \o c \in Seq(TaskType) /\ Len((a \o b) \o c) = 3 * n
      /\ \A k \in 1 .. 3 * n :
           ((a \o b) \o c)[k] = IF k <= 2 * n THEN (a \o b)[k] ELSE c[k - 2 * n]
  <2> DEFINE s1 == a \o b
  <2>1. s1 \in Seq(TaskType) /\ Len(s1) = 2 * n
    BY <1>5
  <2> HIDE DEF s1
  <2>2. /\ s1 \o c \in Seq(TaskType) /\ Len(s1 \o c) = Len(s1) + Len(c)
        /\ \A k \in 1 .. Len(s1) + Len(c) :
             (s1 \o c)[k] = IF k <= Len(s1) THEN s1[k] ELSE c[k - Len(s1)]
    BY <1>3, <2>1, ConcatProperties
  <2>3. Len(s1) + Len(c) = 3 * n
    BY <1>1, <1>3, <2>1
  <2>4. QED BY <2>1, <2>2, <2>3 DEF s1
<1>7. /\ ((a \o b) \o c) \o d \in Seq(TaskType) /\ Len(((a \o b) \o c) \o d) = 4 * n
      /\ \A k \in 1 .. 4 * n :
           (((a \o b) \o c) \o d)[k] = IF k <= 3 * n THEN ((a \o b) \o c)[k] ELSE d[k - 3 * n]
  <2> DEFINE s1 == (a \o b) \o c
  <2>1. s1 \in Seq(TaskType) /\ Len(s1) = 3 * n
    BY <1>6
  <2> HIDE DEF s1
  <2>2. /\ s1 \o d \in Seq(TaskType) /\ Len(s1 \o d) = Len(s1) + Len(d)
        /\ \A k \in 1 .. Len(s1) + Len(d) :
             (s1 \o d)[k] = IF k <= Len(s1) THEN s1[k] ELSE d[k - Len(s1)]
    BY <1>3, <2>1, ConcatProperties
  <2>3. Len(s1) + Len(d) = 4 * n
    BY <1>1, <1>3, <2>1
  <2>4. QED BY <2>1, <2>2, <2>3 DEF s1
<1>8. ASSUME NEW s, s = prepare
      PROVE  /\ s \in Seq(TaskType) /\ Len(s) = 2 * n /\ DOMAIN s = 1 .. 2 * n
             /\ \A k \in 1 .. 2 * n :
                  /\ k <= n => s[k] = Task("varargs", Module[k])
                  /\ k > n => s[k] = Task("survey", Module[k - n])
  <2>1. s \in Seq(TaskType) /\ Len(s) = 2 * n /\ DOMAIN s = 1 .. 2 * n
    BY <1>4, <1>5, <1>8, LenProperties
  <2>2. ASSUME NEW k \in 1 .. 2 * n
        PROVE  /\ k <= n => s[k] = Task("varargs", Module[k])
               /\ k > n => s[k] = Task("survey", Module[k - n])
    <3>1. CASE k <= n
      BY <1>1, <1>3, <1>4, <1>5, <1>8, <3>1
    <3>2. CASE k > n
      <4>1. k - n \in 1 .. n /\ ~(k <= n)
        BY <1>1, <3>2
      <4>2. s[k] = b[k - n]
        BY <1>4, <1>5, <1>8, <4>1
      <4>3. QED BY <1>1, <1>3, <4>1, <4>2
    <3>3. QED BY <1>1, <3>1, <3>2
  <2>3. QED BY <2>1, <2>2
<1>9. ASSUME NEW s, s = runOnModule
      PROVE  /\ s \in Seq(TaskType) /\ Len(s) = 4 * n /\ DOMAIN s = 1 .. 4 * n
             /\ \A k \in 1 .. 4 * n :
                  /\ k <= n => s[k] = Task("varargs", Module[k])
                  /\ k > n /\ k <= 2 * n => s[k] = Task("survey", Module[k - n])
                  /\ k > 2 * n /\ k <= 3 * n => s[k] = Task("remove", Module[k - 2 * n])
                  /\ k > 3 * n => s[k] = Task("undef", Module[k - 3 * n])
  <2>1. s \in Seq(TaskType) /\ Len(s) = 4 * n /\ DOMAIN s = 1 .. 4 * n
    BY <1>4, <1>7, <1>9, LenProperties
  <2>2. ASSUME NEW k \in 1 .. 4 * n, k <= n
        PROVE  s[k] = Task("varargs", Module[k])
    <3>1. k <= 3 * n /\ k <= 2 * n /\ k \in 1 .. 3 * n /\ k \in 1 .. 2 * n /\ k \in 1 .. n
      BY <1>1, <2>2
    <3>2. QED BY <1>3, <1>4, <1>5, <1>6, <1>7, <1>9, <2>2, <3>1
  <2>3. ASSUME NEW k \in 1 .. 4 * n, k > n, k <= 2 * n
        PROVE  s[k] = Task("survey", Module[k - n])
    <3>1. k <= 3 * n /\ k \in 1 .. 3 * n /\ k \in 1 .. 2 * n /\ k - n \in 1 .. n /\ ~(k <= n)
      BY <1>1, <2>3
    <3>2. s[k] = b[k - n]
      BY <1>4, <1>5, <1>6, <1>7, <1>9, <2>3, <3>1
    <3>3. QED BY <1>3, <3>1, <3>2
  <2>4. ASSUME NEW k \in 1 .. 4 * n, k > 2 * n, k <= 3 * n
        PROVE  s[k] = Task("remove", Module[k - 2 * n])
    <3>1. k \in 1 .. 3 * n /\ k - 2 * n \in 1 .. n /\ ~(k <= 2 * n)
      BY <1>1, <2>4
    <3>2. s[k] = c[k - 2 * n]
      BY <1>4, <1>6, <1>7, <1>9, <2>4, <3>1
    <3>3. QED BY <1>3, <3>1, <3>2
  <2>5. ASSUME NEW k \in 1 .. 4 * n, k > 3 * n
        PROVE  s[k] = Task("undef", Module[k - 3 * n])
    <3>1. k - 3 * n \in 1 .. n /\ ~(k <= 3 * n)
      BY <1>1, <2>5
    <3>2. s[k] = d[k - 3 * n]
      BY <1>4, <1>7, <1>9, <3>1
    <3>3. QED BY <1>3, <3>1, <3>2
  <2>6. QED BY <2>1, <2>2, <2>3, <2>4, <2>5
<1>10. QED BY <1>1, <1>8, <1>9 DEF n

(* first varargs, then surveys, then the rest *)
LEMMA Lists ==
  ASSUME NEW s, s \in {prepare, runOnModule}
  PROVE  /\ s \in Seq(TaskType)
         /\ DOMAIN s = 1 .. Len(s) /\ Len(s) >= 2 * Len(Module)
         /\ \A k \in DOMAIN s :
              /\ k <= Len(Module) => s[k].what = "varargs"
              /\ k > Len(Module) /\ k <= 2 * Len(Module) =>
                   s[k] = Task("survey", Module[k - Len(Module)])
              /\ k > 2 * Len(Module) => s[k].what \in {"remove", "undef"}
<1> DEFINE n == Len(Module)
<1>1. n \in Nat
  BY WholeLists
<1>2. CASE s = prepare
  <2>1. s \in Seq(TaskType) /\ Len(s) = 2 * n /\ DOMAIN s = 1 .. 2 * n
    BY <1>2, WholeLists
  <2>2. \A k \in 1 .. 2 * n :
          /\ k <= n => s[k] = Task("varargs", Module[k])
          /\ k > n => s[k] = Task("survey", Module[k - n])
    BY <1>2, WholeLists
  <2> HIDE DEF n
  <2>3. 2 * n >= 2 * n /\ \A k \in 1 .. 2 * n : ~(k > 2 * n)
    BY <1>1
  <2>4. \A k \in 1 .. 2 * n : k <= n => s[k].what = "varargs"
    BY <2>2, TaskWhat
  <2>5. \A k \in DOMAIN s :
          /\ k <= n => s[k].what = "varargs"
          /\ k > n /\ k <= 2 * n => s[k] = Task("survey", Module[k - n])
          /\ k > 2 * n => s[k].what \in {"remove", "undef"}
    BY <2>1, <2>2, <2>3, <2>4
  <2>6. DOMAIN s = 1 .. Len(s) /\ Len(s) >= 2 * n
    BY <2>1, <2>3
  <2>7. QED BY <2>1, <2>5, <2>6 DEF n
<1>3. CASE s = runOnModule
  <2>1. s \in Seq(TaskType) /\ Len(s) = 4 * n /\ DOMAIN s = 1 .. 4 * n
    BY <1>3, WholeLists
  <2>2. \A k \in 1 .. 4 * n :
          /\ k <= n => s[k] = Task("varargs", Module[k])
          /\ k > n /\ k <= 2 * n => s[k] = Task("survey", Module[k - n])
          /\ k > 2 * n /\ k <= 3 * n => s[k] = Task("remove", Module[k - 2 * n])
          /\ k > 3 * n => s[k] = Task("undef", Module[k - 3 * n])
    BY <1>3, WholeLists
  <2> HIDE DEF n
  <2>3. ASSUME NEW k \in 1 .. 4 * n, k > 2 * n
        PROVE  s[k].what \in {"remove", "undef"}
    <3>1. k <= 3 * n \/ k > 3 * n
      BY <1>1
    <3>2. QED BY <2>2, <2>3, <3>1, TaskWhat
  <2>4. 4 * n >= 2 * n
    BY <1>1
  <2>5. QED BY <2>1, <2>2, <2>3, <2>4, TaskWhat DEF n
<1>4. QED BY <1>2, <1>3

LEMMA OneHead ==
  ASSUME NEW w, NEW u, NEW f, NEW g, Doing(w, f), Doing(u, g)
  PROVE  w = u /\ f = g
BY TaskWhat DEF Doing

(* nothing is being surveyed unless a survey is the first task *)
LEMMA NotSurveying ==
  ASSUME TypeInv, tasks = <<>> \/ \E w \in {"varargs", "remove", "undef"}, f \in Functions : Doing(w, f)
  PROVE  at = 0
<1>1. at \in Nat /\ (at > 0 => \E f \in Functions : Doing("survey", f))
  BY DEF TypeInv, TypeOK, Progress
<1>2. CASE tasks = <<>>
  BY <1>1, <1>2 DEF Doing
<1>3. CASE \E w \in {"varargs", "remove", "undef"}, f \in Functions : Doing(w, f)
  <2>1. ~ \E f \in Functions : Doing("survey", f)
    BY <1>3, OneHead
  <2>2. QED BY <1>1, <2>1
<1>4. QED BY <1>2, <1>3

LEMMA TasksType ==
  ASSUME TypeOK
  PROVE  /\ tasks \in Seq(TaskType)
         /\ tasks # <<>> => Tail(tasks) \in Seq(TaskType)
<1>1. tasks \in Seq(TaskType)
  BY DEF TypeOK, TaskType
<1>2. QED BY <1>1, HeadTailProperties

LEMMA TaskAt ==
  ASSUME TypeOK, NEW k \in DOMAIN tasks
  PROVE  /\ tasks[k].f \in Functions
         /\ tasks[k] = Task(tasks[k].what, tasks[k].f)
<1>1. tasks[k] \in TaskType
  BY TasksType
<1>2. QED BY <1>1 DEF TaskType, Task

LEMMA RetOrArgType ==
  ASSUME TypeOK, NEW v \in Values
  PROVE  RetOrArg(v) \in RetOrArgs
BY Types DEF TypeOK, RetOrArg, RetOrArgs

(* marking keeps the types *)
LEMMA MarkValueType ==
  ASSUME TypeOK, NEW v \in Values, NEW live \in BOOLEAN, MarkValue(v, live),
         ~live => Other \notin uses[v]
  PROVE  LiveValues' \subseteq RetOrArgs /\ Uses' \subseteq RetOrArgs \X RetOrArgs
<1>1. /\ LiveValues \subseteq RetOrArgs /\ Uses \subseteq RetOrArgs \X RetOrArgs
      /\ uses[v] \subseteq Values \cup {Other}
  BY DEF TypeOK
<1>2. RetOrArg(v) \in RetOrArgs
  BY RetOrArgType
<1>3. CASE live
  <2>1. Spread({RetOrArg(v)}) \subseteq RetOrArgs
    BY <1>1, <1>2, SpreadKnown
  <2>2. QED BY <1>1, <1>3, <2>1 DEF MarkValue, MarkLive
<1>4. CASE ~live
  <2>1. \A x \in uses[v] : RetOrArg(x) \in RetOrArgs
    BY <1>1, <1>4, RetOrArgType
  <2>2. MaybeLiveUses(v) \subseteq RetOrArgs \X RetOrArgs
    BY <1>2, <2>1 DEF MaybeLiveUses
  <2>3. QED BY <1>1, <1>4, <2>2 DEF MarkValue
<1>5. QED BY <1>3, <1>4

LEMMA MarkFunctionLiveType ==
  ASSUME TypeOK, NEW f \in Functions, MarkFunctionLive(f)
  PROVE  /\ LiveFunctions' \subseteq Functions /\ LiveValues' \subseteq RetOrArgs
         /\ Uses' \subseteq RetOrArgs \X RetOrArgs
<1> DEFINE own == {RetOrArg(x) : x \in ValuesOf(f)}
           next == {e[2] : e \in {d \in Uses : d[1] \in own}}
<1>1. LiveValues \subseteq RetOrArgs /\ Uses \subseteq RetOrArgs \X RetOrArgs /\ LiveFunctions \subseteq Functions
  BY DEF TypeOK
<1>2. next \subseteq RetOrArgs
  BY <1>1
<1>3. Spread(next) \subseteq RetOrArgs
  BY <1>1, <1>2, SpreadKnown
<1> HIDE DEF next, own
<1>4. QED BY <1>1, <1>3 DEF MarkFunctionLive, next, own

LEMMA TypeInit ==
  ASSUME Init
  PROVE  TypeInv
<1>1. adaptive \in BOOLEAN
  BY DEF Init, Start
<1>2. tasks \in {prepare, runOnModule}
  BY DEF Init, Start
<1>3. tasks \in Seq(TaskType)
  BY <1>2, Lists
<1>4. TypeOK
  BY <1>1, <1>3 DEF Init, Programs, Start, TypeOK, TaskType
<1>5. Progress
  BY DEF Init, Start, Progress
<1>6. QED BY <1>4, <1>5 DEF TypeInv

(* the parts of the type that most steps leave as they are *)
LEMMA TypeStep ==
  ASSUME TypeInv, Next
  PROVE  TypeInv'
<1> DEFINE R == /\ linkage \in [Functions -> Linkages]
                /\ returned \subseteq Values
                /\ uses \in [Values -> SUBSET (Values \cup {Other})]
                /\ removed \subseteq Values
                /\ version \in [Functions -> Nat]
                /\ LiveValues \subseteq RetOrArgs
                /\ LiveFunctions \subseteq Functions
                /\ Uses \subseteq RetOrArgs \X RetOrArgs
                /\ RetValLiveness \subseteq Nat /\ at \in Nat
                /\ tasks \in Seq(TaskType)
                /\ ran \subseteq Functions
<1>1. TypeOK /\ Progress /\ R /\ adaptive \in BOOLEAN
  BY DEF TypeInv, TypeOK, TaskType
<1>2. adaptive' = adaptive
  BY DEF Next, Survey, Change, DeleteDeadVarargs, SurveyLiveFunction, SurveyReturns,
         MarkReturn, SurveyArgument, EndSurvey, RemoveNothing, SameType, RemoveDeadStuff,
         PutUndef, runOnFunction, DeleteUse, ForwardUse, program
<1>3. adaptive' \in BOOLEAN
  BY <1>1, <1>2, Zenon
<1>4. ASSUME R' PROVE TypeOK'
  BY <1>3, <1>4 DEF TypeOK, TaskType
<1> USE DEF program, dae, survey
<1>5. ASSUME NEW f \in Functions, DeleteDeadVarargs(f)
      PROVE  R' /\ Progress'
  <2>1. at = 0
    BY <1>5, NotSurveying DEF DeleteDeadVarargs
  <2>2. tasks' \in Seq(TaskType)
    BY <1>1, <1>5, TasksType DEF DeleteDeadVarargs, Doing, Done
  <2>3. linkage' \in [Functions -> Linkages] /\ version' \in [Functions -> Nat]
    <3>1. /\ linkage \in [Functions -> Linkages] /\ version \in [Functions -> Nat]
          /\ "local" \in Linkages /\ version[f] + 1 \in Nat
      BY <1>1 DEF Linkages
    <3>2. CASE linkage[f] = "unread"
      BY <1>5, <3>1, <3>2 DEF DeleteDeadVarargs
    <3>3. CASE linkage[f] # "unread"
      BY <1>5, <3>1, <3>3 DEF DeleteDeadVarargs
    <3>4. QED BY <3>2, <3>3
  <2>4. QED BY <1>1, <1>5, <2>1, <2>2, <2>3 DEF DeleteDeadVarargs, Progress
<1>6. ASSUME NEW f \in Functions, SurveyLiveFunction(f)
      PROVE  R' /\ Progress'
  <2>1. tasks' \in Seq(TaskType)
    BY <1>1, <1>6, TasksType DEF SurveyLiveFunction, Doing, Done
  <2>2. /\ LiveFunctions' \subseteq Functions /\ LiveValues' \subseteq RetOrArgs
        /\ Uses' \subseteq RetOrArgs \X RetOrArgs
    BY <1>1, <1>6, MarkFunctionLiveType DEF SurveyLiveFunction
  <2>3. QED BY <1>1, <1>6, <2>1, <2>2 DEF SurveyLiveFunction, Progress
<1>7. ASSUME NEW f \in Functions, SurveyReturns(f)
      PROVE  R' /\ Progress'
  <2>1. DOMAIN Rets[f] \subseteq Nat
    BY Types
  <2>2. R'
    BY <1>1, <1>7, <2>1 DEF SurveyReturns
  <2>3. \A g \in Functions : Doing("survey", g)' => g = f
    BY <1>7, OneHead DEF SurveyReturns, Doing
  <2>4. \A k \in DOMAIN Rets[f] \ RetValLiveness' : Other \notin uses[Rets[f][k]]
    BY <1>7 DEF SurveyReturns, SurveyedLive, LiveUse
  <2>5. QED BY <1>7, <2>2, <2>3, <2>4 DEF SurveyReturns, Progress, Doing
<1>8. ASSUME NEW f \in Functions, MarkReturn(f)
      PROVE  R' /\ Progress'
  <2> DEFINE v == Rets[f][at]
             live == at \in RetValLiveness
  <2>1. v \in Values
    BY <1>8, Types DEF MarkReturn
  <2>2. at > 0
    BY <1>8, Types DEF MarkReturn
  <2>3. ~live => Other \notin uses[v]
    BY <1>1, <1>8, <2>2 DEF MarkReturn, Progress
  <2>4. MarkValue(v, live) /\ live \in BOOLEAN
    BY <1>8 DEF MarkReturn
  <2> HIDE DEF v, live
  <2>5. LiveValues' \subseteq RetOrArgs /\ Uses' \subseteq RetOrArgs \X RetOrArgs
    BY <1>1, <2>1, <2>3, <2>4, MarkValueType
  <2>6. R'
    BY <1>1, <1>8, <2>5 DEF MarkReturn
  <2>7. QED BY <1>1, <1>8, <2>2, <2>6 DEF MarkReturn, Progress, Doing
<1>9. ASSUME NEW f \in Functions, SurveyArgument(f)
      PROVE  R' /\ Progress'
  <2> DEFINE v == InOrder(f)[at]
             live == linkage[f] = "variadic" \/ SurveyedLive(v)
  <2>1. v \in Values
    BY <1>9, OrderOf DEF SurveyArgument
  <2>2. Rets[f] \in Seq(Values)
    BY Types
  <2>3. at > 0
    BY <1>1, <1>9, <2>2, LenProperties DEF SurveyArgument
  <2>4. ~live => Other \notin uses[v]
    BY DEF SurveyedLive, LiveUse
  <2>5. MarkValue(v, live) /\ live \in BOOLEAN
    BY <1>9 DEF SurveyArgument
  <2> HIDE DEF v, live
  <2>6. LiveValues' \subseteq RetOrArgs /\ Uses' \subseteq RetOrArgs \X RetOrArgs
    BY <1>1, <2>1, <2>4, <2>5, MarkValueType
  <2>7. R'
    BY <1>1, <1>9, <2>6 DEF SurveyArgument
  <2>8. QED BY <1>1, <1>9, <2>3, <2>7 DEF SurveyArgument, Progress, Doing
<1>10. ASSUME NEW f \in Functions, EndSurvey(f)
       PROVE  R' /\ Progress'
  <2>1. tasks' \in Seq(TaskType)
    BY <1>1, <1>10, TasksType DEF EndSurvey, Doing, Done
  <2>2. QED BY <1>1, <1>10, <2>1 DEF EndSurvey, Progress
<1>11. ASSUME NEW f \in Functions, Change(f)
       PROVE  R' /\ Progress'
  <2>1. at = 0
    BY <1>11, NotSurveying
    DEF Change, RemoveNothing, SameType, RemoveDeadStuff, PutUndef
  <2>2. tasks' \in Seq(TaskType)
    <3>1. tasks # <<>>
      BY <1>11 DEF Change, RemoveNothing, SameType, RemoveDeadStuff, PutUndef, Doing
    <3>2. Tail(tasks) \in Seq(TaskType) /\ <<>> \in Seq(TaskType)
      BY <1>1, <3>1, TasksType
    <3>3. tasks' = Tail(tasks) \/ tasks' = <<>>
      BY <1>11 DEF Change, RemoveNothing, SameType, RemoveDeadStuff, PutUndef, Done
    <3>4. QED BY <3>2, <3>3
  <2>3. at' = at /\ RetValLiveness' = RetValLiveness /\ ran' \subseteq Functions
    BY <1>1, <1>11 DEF Change, RemoveNothing, SameType, RemoveDeadStuff, PutUndef
  <2>4. CASE RemoveNothing(f)
    BY <1>1, <2>1, <2>2, <2>3, <2>4 DEF RemoveNothing, Progress
  <2>5. CASE SameType(f)
    BY <1>1, <2>1, <2>2, <2>3, <2>5 DEF SameType, Progress
  <2>6. CASE RemoveDeadStuff(f)
    <3>1. version' \in [Functions -> Nat]
      BY <1>1, <2>6 DEF RemoveDeadStuff
    <3>2. uses' \in [Values -> SUBSET (Values \cup {Other})]
      BY <1>1, <2>6 DEF RemoveDeadStuff
    <3>3. removed' \subseteq Values
      BY <1>1, <2>6 DEF RemoveDeadStuff, Dead, ValuesOf
    <3>4. QED BY <1>1, <2>1, <2>2, <2>3, <2>6, <3>1, <3>2, <3>3 DEF RemoveDeadStuff, Progress
  <2>7. CASE PutUndef(f)
    <3>1. uses' \in [Values -> SUBSET (Values \cup {Other})]
      BY <1>1, <2>7 DEF PutUndef
    <3>2. QED BY <1>1, <2>1, <2>2, <2>3, <2>7, <3>1 DEF PutUndef, Progress
  <2>8. QED BY <1>11, <2>4, <2>5, <2>6, <2>7 DEF Change
<1>12. ASSUME NEW f \in Functions, runOnFunction(f)
       PROVE  R' /\ Progress'
  <2>1. at = 0
    BY <1>12, NotSurveying DEF runOnFunction, Idle
  <2>2. Task("survey", f) \in TaskType /\ Task("remove", f) \in TaskType /\ Task("undef", f) \in TaskType
    BY DEF Task, TaskType
  <2>3. tasks' \in Seq(TaskType)
    BY <1>12, <2>2 DEF runOnFunction
  <2>4. QED BY <1>1, <1>12, <2>1, <2>3 DEF runOnFunction, Progress
<1>13. ASSUME NEW v \in Values, NEW x \in Values \cup {Other}, DeleteUse(v, x) \/ ForwardUse(v, x)
       PROVE  R' /\ Progress'
  <2>1. at = 0
    BY <1>13, NotSurveying DEF DeleteUse, ForwardUse, Idle
  <2>2. uses' \in [Values -> SUBSET (Values \cup {Other})]
    BY <1>1, <1>13 DEF DeleteUse, ForwardUse
  <2>3. UNCHANGED <<linkage, returned, removed, version, dae, survey, tasks, ran>>
    BY <1>13 DEF DeleteUse, ForwardUse
  <2>4. QED BY <1>1, <2>1, <2>2, <2>3 DEF Progress
<1>14. R' /\ Progress'
  BY <1>5, <1>6, <1>7, <1>8, <1>9, <1>10, <1>11, <1>12, <1>13 DEF Next, Survey
<1>15. QED BY <1>4, <1>14 DEF TypeInv

----------------------------------------------------------------------------
(***************************************************************************)
(* After the surveys: all that is needed is live, until it is changed.     *)
(***************************************************************************)
LEMMA SurveyDone ==
  ASSUME TypeInv, SurveyInv, Pending = {}
  PROVE  Judged
<1> DEFINE S == {v \in Values : LiveNow(v)}
<1>1. /\ uses \in [Values -> SUBSET (Values \cup {Other})]
      /\ \A k \in DOMAIN tasks : tasks[k].f \in Functions
  BY TaskAt DEF TypeInv, TypeOK
<1>2. \A v \in Values : Of[v] \in Functions
  BY Types
<1>3. \A v \in Values : Closed(v)
  BY <1>2 DEF SurveyInv, Marked
<1>4. ASSUME NEW v \in Values, NEW x \in uses[v] \ {Other}, IntrinsicallyLive(Of[x]) \/ x \in S
      PROVE  LiveUse(x)
  <2>1. x \in Values
    BY <1>1
  <2>2. CASE IntrinsicallyLive(Of[x])
    BY <1>2, <2>1, <2>2 DEF SurveyInv, LiveUse
  <2>3. CASE x \in S
    BY <2>3 DEF LiveNow, LiveUse
  <2>4. QED BY <1>4, <2>2, <2>3
<1>5. \A v \in Values : Other \in uses[v] => v \in S
  BY <1>3 DEF Closed, LiveUse
<1>6. \A v \in Values :
        (\E x \in uses[v] \ {Other} : IntrinsicallyLive(Of[x]) \/ x \in S) => v \in S
  <2> HIDE DEF S
  <2>1. \A v \in Values : \A x \in uses[v] : LiveUse(x) => v \in S
    BY <1>3 DEF Closed, S
  <2>2. QED BY <1>4, <2>1
<1>7. \A v \in Values : linkage[Of[v]] = "variadic" /\ IsArg(v) => v \in S
  BY <1>3 DEF Closed
<1>8. NeedsAll(S)
  <2> HIDE DEF S
  <2>1. QED BY <1>5, <1>6, <1>7 DEF NeedsAll
<1>9. \A v \in Values : Needed(v) => LiveNow(v)
  BY <1>8 DEF Needed
<1>10. ASSUME NEW k \in DOMAIN tasks, tasks[k].what = "varargs"
       PROVE  FALSE
  <2>1. Functions \subseteq Pending
    BY <1>10 DEF SurveyInv, InPhases
  <2>2. QED BY <1>1, <2>1
<1>11. QED BY <1>9, <1>10 DEF Judged

(* the program needs no more than before, when uses are only deleted, or   *)
(* given to a value that has one elsewhere                                 *)
LEMMA NeededLess ==
  ASSUME linkage' = linkage,
         \A w \in Values : uses'[w] \subseteq uses[w] \/ Other \in uses[w],
         NEW v \in Values, Needed(v)'
  PROVE  Needed(v)
<1> SUFFICES ASSUME NEW S \in SUBSET Values, NeedsAll(S)
             PROVE  v \in S
  BY DEF Needed
<1>1. NeedsAll(S)'
  <2> SUFFICES ASSUME NEW w \in Values,
                 \/ Other \in uses'[w]
                 \/ \E x \in uses'[w] \ {Other} : IntrinsicallyLive(Of[x])' \/ x \in S
                 \/ linkage'[Of[w]] = "variadic" /\ IsArg(w)
               PROVE  w \in S
    BY DEF NeedsAll, IsArg
  <2>1. CASE Other \in uses[w]
    BY <2>1 DEF NeedsAll
  <2>2. CASE Other \notin uses[w]
    <3>1. uses'[w] \subseteq uses[w]
      BY <2>2
    <3>2. \A x : IntrinsicallyLive(Of[x])' <=> IntrinsicallyLive(Of[x])
      BY DEF IntrinsicallyLive
    <3>3. \/ Other \in uses[w]
          \/ \E x \in uses[w] \ {Other} : IntrinsicallyLive(Of[x]) \/ x \in S
          \/ linkage[Of[w]] = "variadic" /\ IsArg(w)
      BY <3>1, <3>2
    <3>4. QED BY <3>3 DEF NeedsAll
  <2>3. QED BY <2>1, <2>2
<1>2. QED BY <1>1 DEF Needed

LEMMA JudgedKept ==
  ASSUME Judged, linkage' = linkage,
         \A v \in Values : uses'[v] \subseteq uses[v] \/ Other \in uses[v],
         ran \subseteq ran',
         \A v \in Values : Of[v] \notin ran' /\ LiveNow(v) => LiveNow(v)',
         \A k \in DOMAIN tasks' : tasks'[k].what # "varargs"
  PROVE  Judged'
BY NeededLess DEF Judged

(* the first task done, or another list begun *)
LEMMA NoVarargsLeft ==
  ASSUME TypeOK, Judged, tasks # <<>>, tasks' \in {tasks, Tail(tasks), <<>>}
  PROVE  \A k \in DOMAIN tasks' : tasks'[k].what # "varargs"
<1>1. CASE tasks' = tasks
  BY <1>1 DEF Judged
<1>2. CASE tasks' = Tail(tasks)
  BY <1>2, TailTasks DEF Judged
<1>3. CASE tasks' = <<>>
  BY <1>3
<1>4. QED BY <1>1, <1>2, <1>3

LEMMA JudgedStep ==
  ASSUME TypeInv, Judged, Next
  PROVE  Judged'
<1> USE DEF program, dae, survey, RetOrArg
<1>1. /\ TypeOK /\ LiveFunctions \subseteq Functions
      /\ \A v \in Values : Of[v] \in Functions
      /\ version \in [Functions -> Nat] /\ uses \in [Values -> SUBSET (Values \cup {Other})]
  BY Types DEF TypeInv, TypeOK
<1>2. \A k \in DOMAIN tasks : tasks[k].what # "varargs"
  BY DEF Judged
<1>3. ASSUME NEW f \in Functions, DeleteDeadVarargs(f)
      PROVE  FALSE
  <2>1. tasks # <<>> /\ Head(tasks) = Task("varargs", f)
    BY <1>3 DEF DeleteDeadVarargs, Doing
  <2>2. tasks \in Seq(TaskType)
    BY <1>1, TasksType
  <2>3. 1 \in DOMAIN tasks /\ Head(tasks) = tasks[1]
    BY <2>1, <2>2
  <2>4. QED BY <1>2, <2>1, <2>3, TaskWhat
<1>4. ASSUME NEW f \in Functions,
             \/ SurveyLiveFunction(f) \/ SurveyReturns(f) \/ MarkReturn(f)
             \/ SurveyArgument(f) \/ EndSurvey(f)
      PROVE  Judged'
  <2>1. UNCHANGED <<linkage, uses, version, ran>>
    BY <1>4 DEF SurveyLiveFunction, SurveyReturns, MarkReturn, SurveyArgument, EndSurvey
  <2>2. LiveValues \subseteq LiveValues' /\ LiveFunctions \subseteq LiveFunctions'
    BY <1>4 DEF SurveyLiveFunction, SurveyReturns, MarkReturn, SurveyArgument, EndSurvey,
                MarkValue, MarkLive, MarkFunctionLive
  <2>3. tasks # <<>> /\ tasks' \in {tasks, Tail(tasks), <<>>}
    BY <1>4 DEF SurveyLiveFunction, SurveyReturns, MarkReturn, SurveyArgument, EndSurvey,
                Doing, Done
  <2>4. \A k \in DOMAIN tasks' : tasks'[k].what # "varargs"
    BY <1>1, <2>3, NoVarargsLeft
  <2>5. \A v \in Values : LiveNow(v) => LiveNow(v)'
    BY <2>1, <2>2 DEF LiveNow
  <2>6. QED BY <2>1, <2>4, <2>5, JudgedKept
<1>5. ASSUME NEW f \in Functions, Change(f)
      PROVE  Judged'
  <2>1. linkage' = linkage /\ LiveFunctions' = LiveFunctions /\ ran \subseteq ran'
    BY <1>5 DEF Change, RemoveNothing, SameType, RemoveDeadStuff, PutUndef
  <2>2. \A v \in Values : uses'[v] \subseteq uses[v]
    BY <1>1, <1>5 DEF Change, RemoveNothing, SameType, RemoveDeadStuff, PutUndef
  <2>3. tasks # <<>> /\ tasks' \in {tasks, Tail(tasks), <<>>}
    BY <1>5 DEF Change, RemoveNothing, SameType, RemoveDeadStuff, PutUndef, Doing, Done
  <2>4. \A k \in DOMAIN tasks' : tasks'[k].what # "varargs"
    BY <1>1, <2>3, NoVarargsLeft
  <2>5. \/ LiveValues' = LiveValues /\ version' = version
        \/ /\ f \in ran' /\ LiveValues' = LiveValues \ Erased(f)
           /\ \A g \in Functions : g # f => version'[g] = version[g]
    BY <1>1, <1>5 DEF Change, RemoveNothing, SameType, RemoveDeadStuff, PutUndef
  <2>6. \A r \in Erased(f) : Of[r[1]] = f
    BY DEF Erased, ValuesOf
  <2>7. ASSUME NEW v \in Values, Of[v] \notin ran', LiveNow(v)
        PROVE  LiveNow(v)'
    <3>1. CASE LiveValues' = LiveValues /\ version' = version
      BY <2>1, <2>7, <3>1 DEF LiveNow
    <3>2. CASE /\ f \in ran' /\ LiveValues' = LiveValues \ Erased(f)
               /\ \A g \in Functions : g # f => version'[g] = version[g]
      <4>1. Of[v] # f /\ Of[v] \in Functions
        BY <1>1, <2>7, <3>2
      <4>2. version'[Of[v]] = version[Of[v]]
        BY <3>2, <4>1
      <4>3. <<v, version[Of[v]]>> \notin Erased(f)
        BY <2>6, <4>1
      <4>4. QED BY <2>1, <2>7, <3>2, <4>2, <4>3 DEF LiveNow
    <3>3. QED BY <2>5, <3>1, <3>2
  <2>8. QED BY <2>1, <2>2, <2>4, <2>7, JudgedKept
<1>6. ASSUME NEW f \in Functions, runOnFunction(f)
      PROVE  Judged'
  <2>1. tasks' = <<Task("survey", f), Task("remove", f), Task("undef", f)>>
    BY <1>6 DEF runOnFunction
  <2>2. \A k \in DOMAIN tasks' : tasks'[k].what # "varargs"
    BY <2>1 DEF Task
  <2>3. UNCHANGED <<linkage, uses, version, ran, LiveValues, LiveFunctions>>
    BY <1>6 DEF runOnFunction
  <2>4. QED BY <2>2, <2>3, JudgedKept DEF LiveNow
<1>7. ASSUME NEW v \in Values, NEW x \in Values \cup {Other}, DeleteUse(v, x) \/ ForwardUse(v, x)
      PROVE  Judged'
  <2>1. UNCHANGED <<linkage, version, ran, LiveValues, LiveFunctions, tasks>>
    BY <1>7 DEF DeleteUse, ForwardUse
  <2>2. \A w \in Values : uses'[w] \subseteq uses[w] \/ Other \in uses[w]
    BY <1>1, <1>7 DEF DeleteUse, ForwardUse
  <2>3. QED BY <1>2, <2>1, <2>2, JudgedKept DEF LiveNow
<1>8. QED BY <1>3, <1>4, <1>5, <1>6, <1>7 DEF Next, Survey

----------------------------------------------------------------------------
(***************************************************************************)
(* During the surveys: what was surveyed is closed.                        *)
(***************************************************************************)
LEMMA SurveyInit ==
  ASSUME Init
  PROVE  SurveyInv
<1> DEFINE n == Len(Module)
<1>1. tasks \in {prepare, runOnModule} /\ at = 0
  BY DEF Init, Start
<1>2. /\ tasks \in Seq(TaskType) /\ DOMAIN tasks = 1 .. Len(tasks) /\ Len(tasks) >= 2 * n
      /\ \A k \in DOMAIN tasks :
           /\ k <= n => tasks[k].what = "varargs"
           /\ k > n /\ k <= 2 * n => tasks[k] = Task("survey", Module[k - n])
           /\ k > 2 * n => tasks[k].what \in {"remove", "undef"}
  BY <1>1, Lists
<1>3. n \in Nat /\ DOMAIN Module = 1 .. n /\ Len(tasks) \in Nat
  BY <1>2, DeadArgsAssumption, LenProperties
<1>4. ASSUME NEW f \in Functions
      PROVE  f \in Pending
  <2>1. PICK m \in DOMAIN Module : Module[m] = f
    BY DeadArgsAssumption
  <2> HIDE DEF n
  <2>2. n + m \in DOMAIN tasks /\ n + m > n /\ n + m <= 2 * n /\ (n + m) - n = m
    BY <1>2, <1>3
  <2>3. tasks[n + m] = Task("survey", f)
    <3>1. tasks[n + m] = Task("survey", Module[(n + m) - n])
      BY <1>2, <2>2
    <3>2. QED BY <2>1, <2>2, <3>1
  <2>4. QED BY <2>2, <2>3 DEF Pending
<1> HIDE DEF n
<1>5. ASSUME NEW k \in DOMAIN tasks
      PROVE  /\ tasks[k].what = "varargs" <=> k <= n
             /\ tasks[k].what = "survey" <=> k > n /\ k <= 2 * n
  <2>1. k \in Nat
    BY <1>2, <1>3
  <2>2. k <= n \/ (k > n /\ k <= 2 * n) \/ k > 2 * n
    BY <1>3, <2>1
  <2>3. CASE k <= n
    BY <1>2, <1>3, <2>1, <2>3
  <2>4. CASE k > n /\ k <= 2 * n
    <3>1. tasks[k].what = "survey"
      BY <1>2, <2>4, TaskWhat
    <3>2. QED BY <1>3, <2>1, <2>4, <3>1
  <2>5. CASE k > 2 * n
    <3>1. tasks[k].what \in {"remove", "undef"}
      BY <1>2, <2>5
    <3>2. QED BY <1>3, <2>1, <2>5, <3>1
  <2>6. QED BY <2>2, <2>3, <2>4, <2>5
<1>6. InPhases
  <2>1. ASSUME NEW j \in DOMAIN tasks, NEW k \in DOMAIN tasks, j < k
        PROVE  /\ k <= n => j <= n
               /\ k > n /\ k <= 2 * n => j <= n \/ (j > n /\ j <= 2 * n)
    BY <1>2, <1>3, <2>1
  <2>2. QED BY <1>4, <1>5, <2>1 DEF InPhases
<1>7. \A v \in Values : ~Marked(v)
  <2>1. ASSUME NEW v \in Values, NEW j \in DOMAIN InOrder(Of[v]), j < at
        PROVE  FALSE
    <3>1. InOrder(Of[v]) \in Seq(Values)
      BY Types, Concatenated DEF InOrder
    <3>2. j \in 1 .. Len(InOrder(Of[v])) /\ Len(InOrder(Of[v])) \in Nat
      BY <3>1, LenProperties
    <3>3. QED BY <1>1, <2>1, <3>2
  <2>2. QED BY <1>4, <2>1, Types DEF Marked
<1>8. QED BY <1>1, <1>4, <1>6, <1>7 DEF SurveyInv

(* the lists of tasks stay in phases; only the first task is ever done *)
LEMMA Pended ==
  ASSUME TypeOK, InPhases, NEW w \in {"varargs", "survey"}, NEW f \in Functions,
         Doing(w, f), tasks' = Tail(tasks)
  PROVE  /\ Pending' \subseteq Pending /\ Pending \subseteq Pending' \cup {f}
         /\ w = "varargs" => Pending' = Pending
         /\ InPhases'
<1>1. /\ Len(tasks) \in Nat \ {0} /\ DOMAIN tasks = 1 .. Len(tasks)
      /\ DOMAIN tasks' = 1 .. Len(tasks) - 1
      /\ \A k \in DOMAIN tasks' : k + 1 \in DOMAIN tasks /\ tasks'[k] = tasks[k + 1]
      /\ \A k \in DOMAIN tasks : k # 1 => k - 1 \in DOMAIN tasks' /\ tasks'[k - 1] = tasks[k]
      /\ tasks[1] = Task(w, f) /\ 1 \in DOMAIN tasks
  BY TailTasks DEF Doing
<1>2. Pending' \subseteq Pending
  BY <1>1 DEF Pending
<1>3. ASSUME NEW g \in Pending, g # f \/ w = "varargs"
      PROVE  g \in Pending'
  <2>1. PICK k \in DOMAIN tasks : tasks[k] = Task("survey", g)
    BY DEF Pending
  <2>2. k # 1
    BY <1>1, <1>3, <2>1, TaskWhat
  <2>3. QED BY <1>1, <2>1, <2>2 DEF Pending
<1>4. ASSUME NEW j \in DOMAIN tasks', NEW k \in DOMAIN tasks', j < k
      PROVE  /\ tasks'[k].what = "varargs" => tasks'[j].what = "varargs"
             /\ tasks'[k].what = "survey" => tasks'[j].what \in {"varargs", "survey"}
  <2>1. j + 1 < k + 1
    BY <1>1, <1>4
  <2>2. QED BY <1>1, <2>1 DEF InPhases
<1>5. ASSUME NEW k \in DOMAIN tasks', tasks'[k].what = "varargs"
      PROVE  Functions \subseteq Pending'
  <2>1. k + 1 \in DOMAIN tasks /\ 1 < k + 1 /\ tasks[k + 1].what = "varargs"
    BY <1>1, <1>5
  <2>2. tasks[1].what = "varargs" /\ Functions \subseteq Pending
    BY <1>1, <2>1 DEF InPhases
  <2>3. w = "varargs"
    BY <1>1, <2>2, TaskWhat
  <2>4. QED BY <1>3, <2>2, <2>3
<1>6. QED BY <1>2, <1>3, <1>4, <1>5 DEF InPhases

(* while a survey is left, the first task is a survey or of varargs *)
LEMMA PendingFirst ==
  ASSUME TypeOK, InPhases, Pending # {}
  PROVE  \E w \in {"varargs", "survey"}, f \in Functions : Doing(w, f)
<1>1. PICK g \in Functions, k \in DOMAIN tasks : tasks[k] = Task("survey", g)
  BY DEF Pending
<1>2. tasks \in Seq(TaskType)
  BY TasksType
<1>3. tasks # <<>> /\ 1 \in DOMAIN tasks /\ Head(tasks) = tasks[1] /\ (k = 1 \/ 1 < k)
  BY <1>1, <1>2
<1>4. tasks[1].what \in {"varargs", "survey"}
  <2>1. CASE k = 1
    BY <1>1, <2>1, TaskWhat
  <2>2. CASE 1 < k
    BY <1>1, <1>3, <2>2, TaskWhat DEF InPhases
  <2>3. QED BY <1>3, <2>1, <2>2
<1>5. QED BY <1>3, <1>4, TaskAt DEF Doing

(* places in what is surveyed of a function start at 1 *)
LEMMA OrderPlaces ==
  ASSUME NEW f \in Functions
  PROVE  /\ InOrder(f) \in Seq(Values) /\ Len(InOrder(f)) \in Nat
         /\ DOMAIN InOrder(f) = 1 .. Len(InOrder(f))
         /\ Rets[f] \in Seq(Values) /\ Args[f] \in Seq(Values)
         /\ Len(Rets[f]) \in Nat /\ DOMAIN Rets[f] = 1 .. Len(Rets[f])
<1>1. Rets[f] \in Seq(Values) /\ Args[f] \in Seq(Values)
  BY Types
<1>2. InOrder(f) \in Seq(Values)
  BY <1>1, Concatenated DEF InOrder
<1>3. QED BY <1>1, <1>2, LenProperties

(* return values come first, and are no arguments; then come arguments *)
LEMMA OrderKinds ==
  ASSUME NEW f \in Functions
  PROVE  /\ \A k \in DOMAIN Rets[f] : InOrder(f)[k] = Rets[f][k] /\ ~IsArg(Rets[f][k])
         /\ \A k \in DOMAIN InOrder(f) : k > Len(Rets[f]) => IsArg(InOrder(f)[k])
<1> DEFINE s == Rets[f]
           t == Args[f]
<1>1. s \in Seq(Values) /\ t \in Seq(Values) /\ InOrder(f) = s \o t
  BY Types DEF InOrder
<1>2. /\ \A k \in DOMAIN s : s[k] \in Values /\ Of[s[k]] = f /\ ~IsArg(s[k])
      /\ \A k \in DOMAIN t : Of[t[k]] = f /\ IsArg(t[k])
  <2>1. /\ \A k \in DOMAIN s : Of[s[k]] = f
        /\ \A k \in DOMAIN t : Of[t[k]] = f
        /\ \A j \in DOMAIN t, k \in DOMAIN s : t[j] # s[k]
    BY DeadArgsAssumption
  <2>2. \A k \in DOMAIN s : s[k] \in Values
    BY <1>1
  <2>3. \A k \in DOMAIN s : ~IsArg(s[k])
    BY <2>1 DEF IsArg
  <2>4. \A k \in DOMAIN t : IsArg(t[k])
    BY <2>1 DEF IsArg
  <2>5. QED BY <2>1, <2>2, <2>3, <2>4
<1> HIDE DEF s, t
<1>3. \A k \in DOMAIN s : (s \o t)[k] = s[k]
  BY <1>1, Concatenated
<1>4. ASSUME NEW k \in DOMAIN (s \o t), k > Len(s)
      PROVE  IsArg((s \o t)[k])
  <2>1. k \notin DOMAIN s
    BY <1>1, <1>4, LenProperties
  <2>2. k - Len(s) \in DOMAIN t /\ (s \o t)[k] = t[k - Len(s)]
    BY <1>1, <2>1, Concatenated
  <2>3. QED BY <1>2, <2>2
<1>5. QED BY <1>1, <1>2, <1>3, <1>4 DEF s

LEMMA SurveyStep ==
  ASSUME SingleReturns, TypeInv, SurveyInv, Pending # {}, Next
  PROVE  SurveyInv'
<1> USE DEF program, dae, survey
<1>1. /\ TypeOK /\ InPhases /\ at \in Nat
      /\ \A v \in Values : Of[v] \in Functions
      /\ uses \in [Values -> SUBSET (Values \cup {Other})]
  BY Types DEF TypeInv, TypeOK, SurveyInv
<1>2. PICK w \in {"varargs", "survey"}, h \in Functions : Doing(w, h)
  BY <1>1, PendingFirst
<1>3. ASSUME at' = 0
      PROVE  \A v \in Values : Marked(v)' => Of[v] \notin Pending'
  BY <1>1, <1>3, OrderPlaces DEF Marked
<1>4. ASSUME NEW f \in Functions, DeleteDeadVarargs(f)
      PROVE  SurveyInv'
  <2>1. at' = 0
    BY <1>4, NotSurveying DEF DeleteDeadVarargs
  <2>2. Doing("varargs", f) /\ tasks' = Tail(tasks)
    BY <1>4 DEF DeleteDeadVarargs, Done
  <2>3. Pending' = Pending /\ InPhases'
    BY <1>1, <2>2, Pended
  <2>4. Functions \subseteq Pending
    <3>1. tasks \in Seq(TaskType) /\ tasks # <<>> /\ Head(tasks) = Task("varargs", f)
      BY <1>1, <2>2, TasksType DEF Doing
    <3>2. 1 \in DOMAIN tasks /\ tasks[1].what = "varargs"
      BY <3>1, TaskWhat
    <3>3. QED BY <1>1, <3>2 DEF InPhases
  <2>5. QED BY <1>1, <1>3, <2>1, <2>3, <2>4 DEF SurveyInv
<1>5. ASSUME NEW f \in Functions, SurveyLiveFunction(f)
      PROVE  SurveyInv'
  <2>1. at' = 0 /\ UNCHANGED program
    BY <1>5 DEF SurveyLiveFunction
  <2>2. Doing("survey", f) /\ tasks' = Tail(tasks) /\ MarkFunctionLive(f)
    BY <1>5 DEF SurveyLiveFunction, Done
  <2>3. Pending \subseteq Pending' \cup {f} /\ InPhases'
    BY <1>1, <2>2, Pended
  <2>4. LiveFunctions' = LiveFunctions \cup {f}
    BY <2>2 DEF MarkFunctionLive
  <2>5. ASSUME NEW v \in Values, Marked(v)'
        PROVE  Closed(v)'
    <3>1. CASE Of[v] = f
      BY <2>4, <3>1 DEF Closed, LiveNow
    <3>2. CASE Of[v] # f
      <4>1. Of[v] \notin Pending
        BY <1>3, <2>1, <2>3, <2>5, <3>2
      <4>2. Closed(v)
        BY <4>1 DEF Marked, SurveyInv
      <4>3. uses[v] \subseteq Values \cup {Other}
        BY <1>1
      <4>4. QED BY <2>1, <2>2, <4>2, <4>3, MarkFunctionLiveCloses
    <3>3. QED BY <3>1, <3>2
  <2>6. \A g \in Functions \ Pending' : IntrinsicallyLive(g)' => g \in LiveFunctions'
    BY <2>1, <2>3, <2>4 DEF SurveyInv, IntrinsicallyLive
  <2>7. QED BY <2>1, <2>3, <2>5, <2>6 DEF SurveyInv
<1>6. ASSUME NEW f \in Functions, SurveyReturns(f)
      PROVE  SurveyInv'
  <2>1. at' = 1 /\ UNCHANGED <<program, dae, tasks>> /\ Doing("survey", f) /\ ~IntrinsicallyLive(f)
        /\ RetValLiveness' = {k \in DOMAIN Rets[f] : SurveyedLive(Rets[f][k])}
    BY <1>6 DEF SurveyReturns
  <2>2. Pending' = Pending /\ InPhases'
    BY <1>1, <2>1 DEF Pending, InPhases
  <2>3. ASSUME NEW v \in Values, Marked(v)'
        PROVE  Closed(v)'
    <3>1. Of[v] \notin Pending
      BY <1>1, <2>1, <2>2, <2>3, OrderPlaces DEF Marked
    <3>2. Closed(v)
      BY <3>1 DEF SurveyInv, Marked
    <3>3. QED BY <2>1, <3>2 DEF Closed, LiveNow, LiveUse, RetOrArg, IsArg
  <2>4. \A g \in Functions \ Pending' : IntrinsicallyLive(g)' => g \in LiveFunctions'
    BY <2>1, <2>2 DEF SurveyInv, IntrinsicallyLive
  <2>5. \A g \in Functions : Doing("survey", g)' => g = f
    BY <2>1, OneHead DEF Doing
  <2>6. \A v : SurveyedLive(v)' <=> SurveyedLive(v)
    BY <2>1 DEF SurveyedLive, LiveUse, RetOrArg
  <2>7. /\ ~IntrinsicallyLive(f)'
        /\ RetValLiveness' = {k \in DOMAIN Rets[f] : SurveyedLive(Rets[f][k])'}
    BY <2>1, <2>6 DEF IntrinsicallyLive
  <2>8. QED BY <2>2, <2>3, <2>4, <2>5, <2>7 DEF SurveyInv
<1>7. ASSUME NEW f \in Functions, NEW v \in Values, NEW live \in BOOLEAN,
             Doing("survey", f), at \in DOMAIN InOrder(f), v = InOrder(f)[at],
             MarkValue(v, live), SurveyedLive(v) => live,
             linkage[Of[v]] = "variadic" /\ IsArg(v) => live,
             at' = at + 1,
             UNCHANGED <<program, LiveFunctions, tasks>>
      PROVE  SurveyInv'
  <2>1. at >= 1 /\ at' > 1
    BY <1>1, <1>7, OrderPlaces
  <2>2. Closed(v)' /\ \A u \in Values : Closed(u) => Closed(u)'
    BY <1>7, MarkValueCloses
  <2>3. Pending' = Pending /\ InPhases' /\ linkage' = linkage
    BY <1>1, <1>7 DEF Pending, InPhases
  <2>4. ASSUME NEW u \in Values, Marked(u)'
        PROVE  Closed(u)'
    <3>1. CASE Of[u] \notin Pending'
      BY <2>2, <2>3, <3>1 DEF SurveyInv, Marked
    <3>2. CASE /\ Doing("survey", Of[u])'
               /\ \E j \in DOMAIN InOrder(Of[u]) : j < at' /\ InOrder(Of[u])[j] = u
      <4>1. PICK j \in DOMAIN InOrder(Of[u]) : j < at' /\ InOrder(Of[u])[j] = u
        BY <3>2
      <4>2. Doing("survey", Of[u])
        BY <1>7, <3>2 DEF Doing
      <4>3. Of[u] = f
        BY <1>7, <4>2, OneHead
      <4>4. j < at \/ j = at
        BY <1>1, <1>7, <4>1, <4>3, OrderPlaces
      <4>5. CASE j < at
        BY <2>2, <4>1, <4>2, <4>5 DEF SurveyInv, Marked
      <4>6. CASE j = at
        BY <1>7, <2>2, <4>1, <4>3, <4>6
      <4>7. QED BY <4>4, <4>5, <4>6
    <3>3. QED BY <2>4, <3>1, <3>2 DEF Marked, InOrder
  <2>5. \A g \in Functions \ Pending' : IntrinsicallyLive(g)' => g \in LiveFunctions'
    BY <1>7, <2>3 DEF SurveyInv, IntrinsicallyLive
  <2>6. \A g \in Functions : Doing("survey", g)' => ~IntrinsicallyLive(g)'
    BY <1>7, <2>1, <2>3 DEF SurveyInv, IntrinsicallyLive, Doing
  <2>7. QED BY <1>1, <1>7, <2>1, <2>3, <2>4, <2>5, <2>6 DEF SurveyInv
<1>8. ASSUME NEW f \in Functions, MarkReturn(f)
      PROVE  SurveyInv'
  <2> DEFINE v == Rets[f][at]
             live == at \in RetValLiveness
  <2>1. /\ Doing("survey", f) /\ at \in DOMAIN Rets[f] /\ MarkValue(v, live)
        /\ at' = at + 1 /\ UNCHANGED <<program, LiveFunctions, tasks>>
    BY <1>8 DEF MarkReturn
  <2>2. at = 1
    BY <1>1, <2>1, OrderPlaces DEF SingleReturns
  <2>3. live <=> SurveyedLive(v)
    BY <2>1, <2>2 DEF SurveyInv
  <2>4. v = InOrder(f)[at] /\ ~IsArg(v)
    BY <2>1, OrderKinds
  <2>5. at \in DOMAIN InOrder(f)
    BY <2>1, Types, Concatenated DEF InOrder
  <2>6. v \in Values /\ live \in BOOLEAN
    BY <2>1, Types
  <2> HIDE DEF v, live
  <2>7. QED BY <1>7, <2>1, <2>3, <2>4, <2>5, <2>6
<1>9. ASSUME NEW f \in Functions, SurveyArgument(f)
      PROVE  SurveyInv'
  <2> DEFINE v == InOrder(f)[at]
             live == linkage[f] = "variadic" \/ SurveyedLive(v)
  <2>1. /\ Doing("survey", f) /\ at \in DOMAIN InOrder(f) /\ MarkValue(v, live)
        /\ at' = at + 1 /\ UNCHANGED <<program, LiveFunctions, tasks>>
    BY <1>9 DEF SurveyArgument
  <2>2. v \in Values /\ Of[v] = f
    BY <2>1, OrderOf
  <2>3. SurveyedLive(v) => live
    OBVIOUS
  <2>4. linkage[Of[v]] = "variadic" /\ IsArg(v) => live
    BY <2>2
  <2>5. live \in BOOLEAN
    OBVIOUS
  <2> HIDE DEF v, live
  <2>6. QED BY <1>7, <2>1, <2>2, <2>3, <2>4, <2>5 DEF v
<1>10. ASSUME NEW f \in Functions, EndSurvey(f)
       PROVE  SurveyInv'
  <2>1. /\ at' = 0 /\ UNCHANGED <<program, dae>> /\ at > Len(InOrder(f))
        /\ Doing("survey", f) /\ tasks' = Tail(tasks)
    BY <1>10 DEF EndSurvey, Done
  <2>2. Pending \subseteq Pending' \cup {f} /\ InPhases'
    BY <1>1, <2>1, Pended
  <2>3. ~IntrinsicallyLive(f)
    <3>1. at > 0
      BY <1>1, <2>1, OrderPlaces
    <3>2. QED BY <2>1, <3>1 DEF SurveyInv
  <2>4. ASSUME NEW v \in Values, Marked(v)'
        PROVE  Closed(v)'
    <3>1. Marked(v)
      <4>1. CASE Of[v] = f
        <5>1. PICK j \in DOMAIN InOrder(f) : InOrder(f)[j] = v
          BY <4>1, InItsOrder
        <5>2. j < at
          BY <1>1, <2>1, OrderPlaces
        <5>3. QED BY <2>1, <4>1, <5>1, <5>2 DEF Marked
      <4>2. CASE Of[v] # f
        BY <1>3, <2>1, <2>2, <2>4, <4>2 DEF Marked
      <4>3. QED BY <4>1, <4>2
    <3>2. Closed(v)
      BY <3>1 DEF SurveyInv
    <3>3. QED BY <2>1, <3>2 DEF Closed, LiveNow, LiveUse, RetOrArg, IsArg
  <2>5. \A g \in Functions \ Pending' : IntrinsicallyLive(g)' => g \in LiveFunctions'
    BY <2>1, <2>2, <2>3 DEF SurveyInv, IntrinsicallyLive
  <2>6. QED BY <2>1, <2>2, <2>4, <2>5 DEF SurveyInv
<1>11. ASSUME NEW f \in Functions, Change(f)
       PROVE  FALSE
  BY <1>2, <1>11, OneHead DEF Change, RemoveNothing, SameType, RemoveDeadStuff, PutUndef
<1>12. ASSUME Idle
       PROVE  FALSE
  BY <1>2, <1>12 DEF Doing, Idle
<1>13. QED
  BY <1>4, <1>5, <1>6, <1>8, <1>9, <1>10, <1>11, <1>12
  DEF Next, Survey, runOnFunction, DeleteUse, ForwardUse

----------------------------------------------------------------------------
(***************************************************************************)
(* The types are right in every state: so is a survey, which never notes   *)
(* a use elsewhere among the pairs of Uses.                                *)
(***************************************************************************)
THEOREM TypeCorrect == Spec => []TypeOK
<1>1. Init => TypeInv
  BY TypeInit
<1>2. TypeInv /\ [Next]_vars => TypeInv'
  <2> SUFFICES ASSUME TypeInv, [Next]_vars PROVE TypeInv'
    OBVIOUS
  <2>1. CASE Next
    BY <2>1, TypeStep
  <2>2. CASE UNCHANGED vars
    BY <2>2 DEF vars, TypeInv, TypeOK, Progress, Doing
  <2>3. QED BY <2>1, <2>2
<1>3. TypeInv => TypeOK
  BY DEF TypeInv
<1>4. QED BY <1>1, <1>2, <1>3, PTL DEF Spec

LEMMA FirstStep ==
  ASSUME SingleReturns, FirstInv, [Next]_vars
  PROVE  FirstInv'
<1>1. CASE Next
  <2>1. TypeInv'
    BY <1>1, TypeStep DEF FirstInv
  <2>2. CASE Judged
    BY <1>1, <2>1, <2>2, JudgedStep DEF FirstInv
  <2>3. CASE SurveyInv /\ Pending = {}
    BY <1>1, <2>1, <2>3, SurveyDone, JudgedStep DEF FirstInv
  <2>4. CASE SurveyInv /\ Pending # {}
    BY <1>1, <2>1, <2>4, SurveyStep DEF FirstInv
  <2>5. QED BY <2>2, <2>3, <2>4 DEF FirstInv
<1>2. CASE UNCHANGED vars
  <2>1. TypeInv'
    BY <1>2 DEF FirstInv, vars, TypeInv, TypeOK, Progress, Doing
  <2>2. CASE Judged
    <3>1. UNCHANGED <<linkage, uses, version, ran, LiveValues, LiveFunctions, tasks>>
      BY <1>2 DEF vars
    <3>2. \A v \in Values : LiveNow(v) => LiveNow(v)'
      BY <3>1 DEF LiveNow, RetOrArg
    <3>3. \A k \in DOMAIN tasks' : tasks'[k].what # "varargs"
      BY <2>2, <3>1 DEF Judged
    <3>4. Judged'
      BY <2>2, <3>1, <3>2, <3>3, JudgedKept
    <3>5. QED BY <2>1, <3>4 DEF FirstInv
  <2>3. CASE SurveyInv
    <3>1. UNCHANGED <<linkage, uses, version, dae, survey, tasks>>
      BY <1>2 DEF vars, dae, survey
    <3>2. Pending' = Pending /\ InPhases'
      BY <2>3, <3>1 DEF Pending, SurveyInv, InPhases
    <3>3. \A v : (Marked(v)' <=> Marked(v)) /\ (Closed(v)' <=> Closed(v))
      BY <3>1, <3>2 DEF dae, survey, Marked, Closed, LiveNow, LiveUse, RetOrArg, Doing,
                        InOrder, IsArg
    <3>4. \A v : SurveyedLive(v)' <=> SurveyedLive(v)
      BY <3>1 DEF dae, SurveyedLive, LiveUse, RetOrArg
    <3>5. SurveyInv'
      <4>1. \A v \in Values : Marked(v)' => Closed(v)'
        BY <2>3, <3>3 DEF SurveyInv
      <4>2. \A f \in Functions \ Pending' : IntrinsicallyLive(f)' => f \in LiveFunctions'
        <5>1. LiveFunctions' = LiveFunctions /\ linkage' = linkage
          BY <3>1 DEF dae
        <5>2. QED BY <2>3, <3>2, <5>1 DEF SurveyInv, IntrinsicallyLive
      <4>3. at' = at /\ RetValLiveness' = RetValLiveness
        BY <3>1 DEF survey
      <4>4. ASSUME NEW f \in Functions, Doing("survey", f)', at' > 0
            PROVE  /\ ~IntrinsicallyLive(f)'
                   /\ at' = 1 => RetValLiveness' = {k \in DOMAIN Rets[f] : SurveyedLive(Rets[f][k])'}
        <5>1. {k \in DOMAIN Rets[f] : SurveyedLive(Rets[f][k])'}
                = {k \in DOMAIN Rets[f] : SurveyedLive(Rets[f][k])}
          BY <3>4
        <5>2. Doing("survey", f)
          BY <3>1, <4>4 DEF Doing
        <5>3. /\ ~IntrinsicallyLive(f)
              /\ at = 1 => RetValLiveness = {k \in DOMAIN Rets[f] : SurveyedLive(Rets[f][k])}
          BY <2>3, <4>3, <4>4, <5>2 DEF SurveyInv
        <5>4. ~IntrinsicallyLive(f)'
          BY <3>1, <5>3 DEF IntrinsicallyLive
        <5>5. QED BY <4>3, <5>1, <5>3, <5>4
      <4>5. QED BY <3>2, <4>1, <4>2, <4>4 DEF SurveyInv
    <3>6. QED BY <2>1, <3>5 DEF FirstInv
  <2>4. QED BY <2>1, <2>2, <2>3 DEF FirstInv
<1>3. QED BY <1>1, <1>2

(* a change only removes what is not needed, when all that is needed is live *)
LEMMA FirstRight ==
  ASSUME FirstInv, [Next]_vars, NEW v \in removed' \ removed, Of[v] \notin ran
  PROVE  ~Needed(v)
<1>1. PICK f \in Functions : RemoveDeadStuff(f)
  <2>1. removed' # removed
    OBVIOUS
  <2>2. QED
    BY <2>1 DEF Next, Survey, Change, DeleteDeadVarargs, SurveyLiveFunction, SurveyReturns,
      MarkReturn, SurveyArgument, EndSurvey, RemoveNothing, SameType, PutUndef, runOnFunction,
      DeleteUse, ForwardUse, program, vars
<1>2. v \in ValuesOf(f) /\ ~Alive(v) /\ f \notin LiveFunctions
  BY <1>1 DEF RemoveDeadStuff, Dead
<1>3. v \in Values /\ Of[v] = f
  BY <1>2 DEF ValuesOf
<1>4. TypeInv /\ TypeOK /\ Doing("remove", f)
  BY <1>1 DEF FirstInv, TypeInv, RemoveDeadStuff
<1>5. Judged
  <2>1. CASE Judged
    BY <2>1
  <2>2. CASE SurveyInv
    <3>1. Pending = {}
      BY <1>4, <2>2, PendingFirst, OneHead DEF SurveyInv
    <3>2. QED BY <1>4, <2>2, <3>1, SurveyDone
  <2>3. QED BY <2>1, <2>2 DEF FirstInv
<1>6. ~LiveNow(v)
  BY <1>2, <1>3 DEF LiveNow, Alive
<1>7. QED BY <1>3, <1>5, <1>6 DEF Judged

(***************************************************************************)
(* However the functions call each other, and however Reduce changes the   *)
(* program between two runs, the first change of each function removes     *)
(* only arguments and return values that the program does not need, when   *)
(* no function returns more than one value.                                *)
(***************************************************************************)
THEOREM FirstRunRight == SingleReturns => (Spec => FirstRunIsRight)
<1> SUFFICES ASSUME SingleReturns PROVE Spec => FirstRunIsRight
  OBVIOUS
<1>1. Init => FirstInv
  BY TypeInit, SurveyInit DEF FirstInv
<1>2. FirstInv /\ [Next]_vars => FirstInv'
  BY FirstStep
<1>3. FirstInv /\ [Next]_vars =>
        [\A v \in removed' \ removed : Of[v] \notin ran => ~Needed(v)]_vars
  BY FirstRight
<1>4. QED BY <1>1, <1>2, <1>3, PTL DEF Spec, FirstRunIsRight

----------------------------------------------------------------------------
(***************************************************************************)
(* Nothing is marked live that the program does not need, on a whole       *)
(* module: each function comes once, so that what is erased from           *)
(* LiveValues while a function is changed is never asked for again.  The   *)
(* pairs noted are uses of the program only until the first change.        *)
(***************************************************************************)
Rank == [varargs |-> 1, survey |-> 2, remove |-> 3, undef |-> 4]

InTurn ==
  /\ \A j, k \in DOMAIN tasks : j < k =>
       /\ Rank[tasks[j].what] <= Rank[tasks[k].what]
       /\ tasks[k].what = "remove" => tasks[j] # tasks[k]
  /\ \A k \in DOMAIN tasks : tasks[k].what = "remove" => tasks[k].f \notin ran

First(W) == tasks # <<>> /\ Head(tasks).what \in W

MarkedRight ==
  /\ \A v \in Values : Alive(v) => Needed(v)
  /\ \A r \in LiveValues : r[2] <= version[Of[r[1]]]
  /\ \A f \in LiveFunctions : IntrinsicallyLive(f)
  /\ \A f \in Functions : IntrinsicallyLive(f) => f \in LiveFunctions \/ f \in Pending

NotedRight ==
  \A e \in Uses : \E v \in Values : \E x \in uses[v] \ {Other} :
    e = <<RetOrArg(x), RetOrArg(v)>>

SurveyedRight ==
  \A f \in Functions : Doing("survey", f) /\ at > 0 =>
    /\ ~IntrinsicallyLive(f)
    /\ \A k \in DOMAIN Rets[f] : k \in RetValLiveness => Needed(Rets[f][k])

NeededInv ==
  /\ InTurn
  /\ First({"varargs", "survey", "remove"}) => MarkedRight
  /\ First({"varargs", "survey"}) => NotedRight
  /\ First({"varargs"}) => Uses = {} /\ LiveValues = {}
  /\ SurveyedRight

(* what goes to a needed value is needed *)
LEMMA NeededClosed ==
  ASSUME NEW v \in Values,
         \/ Other \in uses[v]
         \/ \E x \in uses[v] \ {Other} : IntrinsicallyLive(Of[x]) \/ Needed(x)
         \/ linkage[Of[v]] = "variadic" /\ IsArg(v)
  PROVE  Needed(v)
<1> SUFFICES ASSUME NEW S \in SUBSET Values, NeedsAll(S)
             PROVE  v \in S
  BY DEF Needed
<1>1. \A x : Needed(x) => x \in S
  BY DEF Needed
<1>2. QED BY <1>1 DEF NeedsAll

(* what is needed stays so when only what is not needed loses its uses *)
LEMMA NeededKept ==
  ASSUME TypeOK, linkage' = linkage, NEW D, D \subseteq Values,
         \A d \in D : ~Needed(d) /\ ~IntrinsicallyLive(Of[d]),
         \A w \in Values \ D : uses[w] \ D \subseteq uses'[w],
         NEW v \in Values, Needed(v)
  PROVE  Needed(v)'
<1> SUFFICES ASSUME NEW S \in SUBSET Values, NeedsAll(S)'
             PROVE  v \in S
  BY DEF Needed
<1> DEFINE T == {w \in S : Needed(w)}
<1>1. Other \notin D
  BY Types
<1>2. ASSUME NEW w \in Values,
             \/ Other \in uses[w]
             \/ \E x \in uses[w] \ {Other} : IntrinsicallyLive(Of[x]) \/ x \in T
             \/ linkage[Of[w]] = "variadic" /\ IsArg(w)
      PROVE  w \in T
  <2>1. Needed(w)
    BY <1>2, NeededClosed
  <2>2. w \in Values \ D /\ uses[w] \ D \subseteq uses'[w]
    BY <2>1
  <2>3. CASE Other \in uses[w]
    BY <1>1, <2>1, <2>2, <2>3 DEF NeedsAll
  <2>4. CASE \E x \in uses[w] \ {Other} : IntrinsicallyLive(Of[x]) \/ x \in T
    <3>1. PICK x \in uses[w] \ {Other} : IntrinsicallyLive(Of[x]) \/ x \in T
      BY <2>4
    <3>2. x \notin D
      BY <3>1
    <3>3. x \in uses'[w] \ {Other} /\ (IntrinsicallyLive(Of[x])' \/ x \in S)
      BY <2>2, <3>1, <3>2 DEF IntrinsicallyLive
    <3>4. QED BY <2>1, <3>3 DEF NeedsAll
  <2>5. CASE linkage[Of[w]] = "variadic" /\ IsArg(w)
    <3>1. linkage'[Of[w]] = "variadic" /\ IsArg(w)'
      BY <2>5 DEF IsArg
    <3>2. QED BY <2>1, <3>1 DEF NeedsAll
  <2>6. QED BY <1>2, <2>3, <2>4, <2>5
<1>3. NeedsAll(T)
  <2> HIDE DEF T
  <2>1. QED BY <1>2 DEF NeedsAll
<1>4. v \in T
  BY <1>3 DEF Needed
<1>5. QED BY <1>4

LEMMA NeededSame ==
  ASSUME TypeOK, UNCHANGED program, NEW v \in Values, Needed(v)
  PROVE  Needed(v)'
<1> DEFINE D == {}
<1>1. linkage' = linkage /\ uses' = uses
  BY DEF program
<1>2. /\ D \subseteq Values
      /\ \A d \in D : ~Needed(d) /\ ~IntrinsicallyLive(Of[d])
      /\ \A w \in Values \ D : uses[w] \ D \subseteq uses'[w]
  BY <1>1
<1> HIDE DEF D
<1>3. QED BY <1>1, <1>2, NeededKept

(* what a needed value makes live is needed *)
LEMMA SpreadNeeded ==
  ASSUME TypeOK, NotedRight, NEW S,
         \A s \in S : \E u \in Values : s = RetOrArg(u) /\ Needed(u),
         NEW r \in Spread(S)
  PROVE  \E u \in Values : r = RetOrArg(u) /\ Needed(u)
<1> DEFINE T == {t \in Known(S) : \E u \in Values : t = RetOrArg(u) /\ Needed(u)}
<1>1. S \subseteq T
  BY DEF Known
<1>2. ASSUME NEW e \in Uses, e[1] \in T
      PROVE  e[2] \in T
  <2>1. PICK v \in Values : \E x \in uses[v] \ {Other} : e = <<RetOrArg(x), RetOrArg(v)>>
    BY DEF NotedRight
  <2>2. PICK x \in uses[v] \ {Other} : e = <<RetOrArg(x), RetOrArg(v)>>
    BY <2>1
  <2>3. PICK u \in Values : e[1] = RetOrArg(u) /\ Needed(u)
    BY <1>2
  <2>4. x = u
    BY <2>2, <2>3 DEF RetOrArg
  <2>5. Needed(v)
    BY <2>2, <2>3, <2>4, NeededClosed
  <2>6. e[2] = RetOrArg(v) /\ e[2] \in Known(S)
    BY <2>2 DEF Known
  <2>7. QED BY <2>5, <2>6
<1>3. T \in SUBSET Known(S)
  OBVIOUS
<1>4. r \in T
  <2> HIDE DEF T
  <2>1. QED BY <1>1, <1>2, <1>3 DEF Spread
<1>5. QED BY <1>4

(* marking a value that is needed, or noting the uses of another *)
LEMMA MarkValueNeeded ==
  ASSUME TypeOK, NotedRight, UNCHANGED program, NEW v \in Values, NEW live \in BOOLEAN,
         MarkValue(v, live), live => Needed(v), ~live => Other \notin uses[v]
  PROVE  /\ \A r \in LiveValues' \ LiveValues : \E u \in Values : r = RetOrArg(u) /\ Needed(u)
         /\ NotedRight'
<1>1. uses' = uses /\ version' = version
  BY DEF program
<1>2. \A x : RetOrArg(x)' = RetOrArg(x)
  BY <1>1 DEF RetOrArg
<1>3. CASE live
  <2>1. /\ LiveValues' = LiveValues \cup Spread({RetOrArg(v)})
        /\ Uses' \subseteq Uses
    BY <1>3 DEF MarkValue, MarkLive
  <2>2. ASSUME NEW r \in Spread({RetOrArg(v)})
        PROVE  \E u \in Values : r = RetOrArg(u) /\ Needed(u)
    BY <1>3, <2>2, SpreadNeeded
  <2>3. NotedRight'
    BY <1>1, <1>2, <2>1 DEF NotedRight
  <2>4. QED BY <2>1, <2>2, <2>3
<1>4. CASE ~live
  <2>1. LiveValues' = LiveValues /\ Uses' = Uses \cup MaybeLiveUses(v)
    BY <1>4 DEF MarkValue
  <2>2. NotedRight'
    BY <1>1, <1>2, <1>4, <2>1 DEF NotedRight, MaybeLiveUses
  <2>3. QED BY <2>1, <2>2
<1>5. QED BY <1>3, <1>4

LEMMA MarkFunctionNeeded ==
  ASSUME TypeOK, NotedRight, UNCHANGED program, NEW f \in Functions, IntrinsicallyLive(f),
         MarkFunctionLive(f)
  PROVE  /\ \A r \in LiveValues' \ LiveValues : \E u \in Values : r = RetOrArg(u) /\ Needed(u)
         /\ NotedRight'
<1> DEFINE own == {RetOrArg(x) : x \in ValuesOf(f)}
           next == {e[2] : e \in {d \in Uses : d[1] \in own}}
<1>1. /\ LiveValues' = LiveValues \cup {r \in Spread(next) : Of[r[1]] # f}
      /\ Uses' \subseteq Uses
  BY DEF MarkFunctionLive
<1>2. ASSUME NEW s \in next
      PROVE  \E u \in Values : s = RetOrArg(u) /\ Needed(u)
  <2>1. PICK e \in Uses : e[1] \in own /\ s = e[2]
    OBVIOUS
  <2>2. PICK v \in Values : \E x \in uses[v] \ {Other} : e = <<RetOrArg(x), RetOrArg(v)>>
    BY DEF NotedRight
  <2>3. PICK x \in uses[v] \ {Other} : e = <<RetOrArg(x), RetOrArg(v)>>
    BY <2>2
  <2>4. Of[x] = f
    BY <2>1, <2>3 DEF RetOrArg, ValuesOf
  <2>5. Needed(v)
    BY <2>3, <2>4, NeededClosed
  <2>6. QED BY <2>1, <2>3, <2>5
<1> HIDE DEF next
<1>3. \A r \in Spread(next) : \E u \in Values : r = RetOrArg(u) /\ Needed(u)
  BY <1>2, SpreadNeeded
<1>4. NotedRight'
  <2>1. uses' = uses /\ \A x : RetOrArg(x)' = RetOrArg(x)
    BY DEF program, RetOrArg
  <2>2. QED BY <1>1, <2>1 DEF NotedRight
<1>5. QED BY <1>1, <1>3, <1>4

(* the tasks stay in turn as they are done *)
LEMMA TurnStep ==
  ASSUME TypeOK, InTurn, tasks # <<>>, tasks' = Tail(tasks),
         \/ ran' = ran
         \/ \E f \in Functions : Doing("remove", f) /\ ran' = ran \cup {f}
  PROVE  InTurn'
<1>1. /\ DOMAIN tasks = 1 .. Len(tasks) /\ Len(tasks) \in Nat \ {0}
      /\ DOMAIN tasks' = 1 .. Len(tasks) - 1
      /\ \A k \in DOMAIN tasks' : k + 1 \in DOMAIN tasks /\ tasks'[k] = tasks[k + 1]
      /\ Head(tasks) = tasks[1]
  BY TailTasks
<1>2. ASSUME NEW j \in DOMAIN tasks', NEW k \in DOMAIN tasks', j < k
      PROVE  /\ Rank[tasks'[j].what] <= Rank[tasks'[k].what]
             /\ tasks'[k].what = "remove" => tasks'[j] # tasks'[k]
  <2>1. j + 1 < k + 1
    BY <1>1, <1>2
  <2>2. QED BY <1>1, <2>1 DEF InTurn
<1>3. ASSUME NEW k \in DOMAIN tasks', tasks'[k].what = "remove"
      PROVE  tasks'[k].f \notin ran'
  <2>1. tasks'[k] = tasks[k + 1] /\ k + 1 \in DOMAIN tasks /\ 1 < k + 1 /\ 1 \in DOMAIN tasks
    BY <1>1
  <2>2. tasks[k + 1].f \notin ran /\ tasks[1] # tasks[k + 1]
    BY <1>3, <2>1 DEF InTurn
  <2>3. CASE ran' = ran
    BY <2>1, <2>2, <2>3
  <2>4. ASSUME NEW f \in Functions, Doing("remove", f), ran' = ran \cup {f}
        PROVE  tasks'[k].f \notin ran'
    <3>1. tasks[1] = Task("remove", f)
      BY <1>1, <2>4 DEF Doing
    <3>2. tasks[k + 1] = Task("remove", tasks[k + 1].f)
      BY <1>3, <2>1, TaskAt
    <3>3. tasks[k + 1].f # f
      BY <2>2, <3>1, <3>2
    <3>4. QED BY <2>1, <2>2, <2>4, <3>3
  <2>5. QED BY <2>3, <2>4
<1>4. QED BY <1>2, <1>3 DEF InTurn

(* the kinds of task come in their order *)
LEMMA FirstLater ==
  ASSUME TypeOK, InTurn, tasks # <<>>, tasks' = Tail(tasks)
  PROVE  /\ First({"varargs"})' => First({"varargs"})
         /\ First({"varargs", "survey"})' => First({"varargs", "survey"})
         /\ First({"varargs", "survey", "remove"})' => First({"varargs", "survey", "remove"})
<1> SUFFICES ASSUME tasks' # <<>>
             PROVE  Rank[Head(tasks).what] <= Rank[Head(tasks').what]
                    /\ Head(tasks).what \in {"varargs", "survey", "remove", "undef"}
  BY DEF First, Rank
<1>1. /\ 1 \in DOMAIN tasks /\ Head(tasks) = tasks[1] /\ tasks \in Seq(TaskType)
      /\ DOMAIN tasks' = 1 .. Len(tasks) - 1 /\ Len(tasks) \in Nat
      /\ \A k \in DOMAIN tasks' : k + 1 \in DOMAIN tasks /\ tasks'[k] = tasks[k + 1]
  BY TailTasks, TasksType
<1>2. tasks' \in Seq(TaskType)
  BY TasksType
<1>3. 1 \in DOMAIN tasks' /\ Head(tasks') = tasks'[1]
  BY <1>2
<1>4. Head(tasks') = tasks[2] /\ 2 \in DOMAIN tasks
  BY <1>1, <1>3
<1>5. tasks[1].what \in {"varargs", "survey", "remove", "undef"}
  <2>1. tasks[1] \in TaskType
    BY <1>1
  <2>2. QED BY <2>1 DEF TaskType
<1>6. QED BY <1>1, <1>4, <1>5 DEF InTurn

(* a survey that is still to be done stays so while another task is done *)
LEMMA PendedStill ==
  ASSUME TypeOK, NEW w, NEW f, Doing(w, f), tasks' = Tail(tasks),
         NEW g \in Pending, w # "survey" \/ f # g
  PROVE  g \in Pending'
<1>1. /\ tasks[1] = Task(w, f)
      /\ \A k \in DOMAIN tasks : k # 1 => k - 1 \in DOMAIN tasks' /\ tasks'[k - 1] = tasks[k]
  BY TailTasks DEF Doing
<1>2. PICK k \in DOMAIN tasks : tasks[k] = Task("survey", g)
  BY DEF Pending
<1>3. k # 1
  BY <1>1, <1>2, TaskWhat
<1>4. QED BY <1>1, <1>2, <1>3 DEF Pending

(* only what is needed is marked *)
LEMMA MarkedStep ==
  ASSUME TypeOK, MarkedRight, UNCHANGED program,
         LiveFunctions \subseteq LiveFunctions',
         \A f \in LiveFunctions' \ LiveFunctions : IntrinsicallyLive(f),
         \A r \in LiveValues' \ LiveValues : \E u \in Values : r = RetOrArg(u) /\ Needed(u),
         \A f \in Functions : f \in Pending /\ IntrinsicallyLive(f) =>
                                f \in LiveFunctions' \/ f \in Pending'
  PROVE  MarkedRight'
<1>1. uses' = uses /\ version' = version /\ linkage' = linkage
  BY DEF program
<1>2. /\ \A x : RetOrArg(x)' = RetOrArg(x)
      /\ \A f : IntrinsicallyLive(f)' <=> IntrinsicallyLive(f)
  BY <1>1 DEF RetOrArg, IntrinsicallyLive
<1>3. ASSUME NEW v \in Values, Alive(v)'
      PROVE  Needed(v)'
  <2>1. RetOrArg(v) \in LiveValues'
    BY <1>2, <1>3 DEF Alive
  <2>2. Needed(v)
    <3>1. CASE RetOrArg(v) \in LiveValues
      BY <3>1 DEF MarkedRight, Alive
    <3>2. CASE RetOrArg(v) \notin LiveValues
      <4>1. PICK u \in Values : RetOrArg(v) = RetOrArg(u) /\ Needed(u)
        BY <2>1, <3>2
      <4>2. u = v
        BY <4>1 DEF RetOrArg
      <4>3. QED BY <4>1, <4>2
    <3>3. QED BY <3>1, <3>2
  <2>3. QED BY <2>2, NeededSame
<1>4. ASSUME NEW r \in LiveValues'
      PROVE  r[2] <= version'[Of[r[1]]]
  <2>1. CASE r \in LiveValues
    BY <1>1, <2>1 DEF MarkedRight
  <2>2. CASE r \notin LiveValues
    <3>1. PICK u \in Values : r = RetOrArg(u)
      BY <2>2
    <3>2. version[Of[u]] \in Nat
      BY Types DEF TypeOK
    <3>3. QED BY <1>1, <3>1, <3>2 DEF RetOrArg
  <2>3. QED BY <2>1, <2>2
<1>5. \A f \in LiveFunctions' : IntrinsicallyLive(f)'
  BY <1>2 DEF MarkedRight
<1>6. \A f \in Functions : IntrinsicallyLive(f)' => f \in LiveFunctions' \/ f \in Pending'
  BY <1>2 DEF MarkedRight
<1>7. QED BY <1>3, <1>4, <1>5, <1>6 DEF MarkedRight

(* what is surveyed live is needed *)
LEMMA SurveyedNeeded ==
  ASSUME TypeOK, MarkedRight, NEW v \in Values, SurveyedLive(v)
  PROVE  Needed(v)
<1>1. PICK x \in uses[v] : LiveUse(x)
  BY DEF SurveyedLive
<1>2. CASE x = Other
  BY <1>1, <1>2, NeededClosed
<1>3. CASE x # Other
  <2>1. x \in Values /\ (Of[x] \in LiveFunctions \/ RetOrArg(x) \in LiveValues)
    BY <1>1, <1>3 DEF LiveUse
  <2>2. IntrinsicallyLive(Of[x]) \/ Needed(x)
    BY <2>1 DEF MarkedRight, Alive
  <2>3. QED BY <1>1, <1>3, <2>2, NeededClosed
<1>4. QED BY <1>2, <1>3

LEMMA NeededStays ==
  ASSUME FirstInv, NeededInv, ~adaptive, UNCHANGED vars
  PROVE  NeededInv'
<1>1. UNCHANGED <<linkage, uses, version, LiveValues, LiveFunctions, Uses, RetValLiveness, at, tasks, ran>>
  BY DEF vars
<1>2. TypeOK /\ UNCHANGED program
  BY DEF FirstInv, TypeInv, vars, program
<1>3. /\ \A v \in Values : Needed(v) => Needed(v)'
      /\ Pending' = Pending
      /\ \A v : RetOrArg(v)' = RetOrArg(v)
      /\ \A f : IntrinsicallyLive(f)' <=> IntrinsicallyLive(f)
      /\ \A f : Doing("survey", f)' <=> Doing("survey", f)
      /\ \A W : First(W)' <=> First(W)
  BY <1>1, <1>2, NeededSame DEF Pending, RetOrArg, IntrinsicallyLive, Doing, First
<1>4. InTurn'
  BY <1>1 DEF NeededInv, InTurn
<1>5. MarkedRight => MarkedRight'
  BY <1>1, <1>3 DEF MarkedRight, Alive
<1>6. NotedRight => NotedRight'
  BY <1>1, <1>3 DEF NotedRight
<1>7. SurveyedRight'
  <2>1. \A f \in Functions : \A k \in DOMAIN Rets[f] : Rets[f][k] \in Values
    BY Types
  <2>2. SurveyedRight
    BY DEF NeededInv
  <2>3. QED BY <1>1, <1>3, <2>1, <2>2 DEF SurveyedRight
<1>8. QED BY <1>1, <1>3, <1>4, <1>5, <1>6, <1>7 DEF NeededInv

LEMMA RemoveNeeded ==
  ASSUME FirstInv, NeededInv, NEW f \in Functions, RemoveDeadStuff(f)
  PROVE  First({"varargs", "survey", "remove"})' => MarkedRight'
<1>1. /\ TypeOK /\ Doing("remove", f) /\ f \notin LiveFunctions /\ tasks # <<>>
      /\ LiveValues' = LiveValues \ Erased(f) /\ LiveFunctions' = LiveFunctions
      /\ removed' = removed \cup Dead(f)
      /\ uses' = [v \in Values |-> IF v \in Dead(f) THEN {} ELSE uses[v] \ Dead(f)]
      /\ version' = [version EXCEPT ![f] = @ + 1] /\ linkage' = linkage
      /\ tasks' = Tail(tasks) \/ tasks' = <<>>
  BY DEF FirstInv, TypeInv, RemoveDeadStuff, Doing
<1>2. MarkedRight
  BY <1>1, TaskWhat DEF NeededInv, First, Doing
<1>3. f \notin ran
  <2>1. 1 \in DOMAIN tasks /\ tasks[1] = Task("remove", f)
    BY <1>1, TailTasks, TasksType DEF Doing
  <2>2. QED BY <2>1, TaskWhat DEF NeededInv, InTurn
<1>4. Dead(f) \subseteq Values /\ \A d \in Dead(f) : Of[d] = f /\ d \notin removed
  BY DEF Dead, ValuesOf
<1>5. \A g \in Functions : IntrinsicallyLive(g) => g \in LiveFunctions
  <2>1. ASSUME NEW g \in Pending
        PROVE  FALSE
    <3>1. PICK k \in DOMAIN tasks : tasks[k] = Task("survey", g)
      BY DEF Pending
    <3>2. /\ DOMAIN tasks = 1 .. Len(tasks) /\ Len(tasks) \in Nat /\ 1 \in DOMAIN tasks
          /\ tasks[1] = Task("remove", f)
      BY <1>1, TailTasks DEF Doing
    <3>3. tasks[1].what = "remove" /\ tasks[k].what = "survey"
      BY <3>1, <3>2, TaskWhat
    <3>4. 1 < k
      BY <3>2, <3>3
    <3>5. Rank["remove"] <= Rank["survey"]
      BY <3>2, <3>3, <3>4 DEF NeededInv, InTurn
    <3>6. QED BY <3>5 DEF Rank
  <2>2. QED BY <1>2, <2>1 DEF MarkedRight
<1>6. \A d \in Dead(f) : ~Needed(d) /\ ~IntrinsicallyLive(Of[d])
  <2>1. [Next]_vars
    BY DEF Next, Change
  <2>2. \A d \in Dead(f) : d \in removed' \ removed
    BY <1>1, <1>4
  <2>3. QED BY <1>1, <1>3, <1>4, <1>5, <2>1, <2>2, FirstRight
<1>7. \A w \in Values \ Dead(f) : uses[w] \ Dead(f) \subseteq uses'[w]
  BY <1>1
<1>8. \A v \in Values : Needed(v) => Needed(v)'
  BY <1>1, <1>4, <1>6, <1>7, NeededKept
<1>9. /\ version \in [Functions -> Nat] /\ version[f] \in Nat /\ version'[f] = version[f] + 1
      /\ \A g \in Functions : g # f => version'[g] = version[g]
  BY <1>1 DEF TypeOK
<1>10. ASSUME NEW v \in Values, Alive(v)'
       PROVE  Needed(v)'
  <2>1. <<v, version'[Of[v]]>> \in LiveValues
    BY <1>1, <1>10 DEF Alive, RetOrArg
  <2>2. Of[v] # f
    <3>1. <<v, version'[Of[v]]>>[2] <= version[Of[<<v, version'[Of[v]]>>[1]]]
      BY <1>2, <2>1 DEF MarkedRight
    <3>2. version'[Of[v]] <= version[Of[v]]
      BY <3>1
    <3>3. QED BY <1>9, <3>2
  <2>3. Alive(v)
    BY <1>9, <2>1, <2>2, Types DEF Alive, RetOrArg
  <2>4. QED BY <1>2, <1>8, <2>3 DEF MarkedRight
<1>11. ASSUME NEW r \in LiveValues'
       PROVE  r[2] <= version'[Of[r[1]]]
  <2>1. r \in RetOrArgs /\ r[2] <= version[Of[r[1]]]
    BY <1>1, <1>2 DEF MarkedRight, TypeOK
  <2>2. r[1] \in Values /\ r[2] \in Nat /\ Of[r[1]] \in Functions
    BY <2>1, Types DEF RetOrArgs
  <2>3. version'[Of[r[1]]] \in Nat /\ version[Of[r[1]]] <= version'[Of[r[1]]] /\ version[Of[r[1]]] \in Nat
    BY <1>9, <2>2
  <2>4. QED BY <2>1, <2>2, <2>3
<1>12. \A g : IntrinsicallyLive(g)' <=> IntrinsicallyLive(g)
  BY <1>1 DEF IntrinsicallyLive
<1>13. (\A g \in LiveFunctions' : IntrinsicallyLive(g)')
       /\ \A g \in Functions : IntrinsicallyLive(g)' => g \in LiveFunctions'
  BY <1>1, <1>2, <1>5, <1>12 DEF MarkedRight
<1>14. QED BY <1>10, <1>11, <1>13 DEF MarkedRight

LEMMA NeededStep ==
  ASSUME FirstInv, NeededInv, ~adaptive, Next
  PROVE  NeededInv'
<1>1. TypeInv /\ TypeOK /\ InTurn /\ at \in Nat
  BY DEF FirstInv, TypeInv, TypeOK, NeededInv
<1>2. ASSUME NEW f \in Functions, DeleteDeadVarargs(f)
      PROVE  NeededInv'
  <2>1. /\ Doing("varargs", f) /\ tasks # <<>> /\ tasks' = Tail(tasks)
        /\ UNCHANGED <<LiveValues, LiveFunctions, Uses, at, ran>>
    BY <1>2 DEF DeleteDeadVarargs, Doing, Done, dae, survey
  <2>2. First({"varargs"})
    BY <2>1, TaskWhat DEF First, Doing
  <2>3. MarkedRight /\ Uses' = {} /\ LiveValues' = {}
    BY <2>1, <2>2 DEF NeededInv, First
  <2>4. at' = 0
    BY <1>1, <2>1, NotSurveying
  <2>5. \A g : IntrinsicallyLive(g)' <=> IntrinsicallyLive(g)
    <3>1. linkage \in [Functions -> Linkages]
      BY <1>1 DEF TypeOK
    <3>2. CASE linkage[f] = "unread"
      <4>1. linkage' = [linkage EXCEPT ![f] = "local"]
        BY <1>2, <3>2 DEF DeleteDeadVarargs
      <4>2. linkage'[f] = "local" /\ \A g : g # f => linkage'[g] = linkage[g]
        BY <3>1, <4>1
      <4>3. QED BY <3>2, <4>2 DEF IntrinsicallyLive
    <3>3. CASE linkage[f] # "unread"
      BY <1>2, <3>3 DEF DeleteDeadVarargs, IntrinsicallyLive
    <3>4. QED BY <3>2, <3>3
  <2>6. \A g \in Pending : g \in Pending'
    BY <1>1, <2>1, PendedStill
  <2>7. MarkedRight'
    BY <2>1, <2>3, <2>5, <2>6 DEF MarkedRight, Alive
  <2>8. NotedRight' /\ SurveyedRight'
    BY <2>3, <2>4 DEF NotedRight, SurveyedRight
  <2>9. InTurn'
    BY <1>1, <2>1, TurnStep
  <2>10. QED BY <2>3, <2>7, <2>8, <2>9 DEF NeededInv
<1>3. ASSUME NEW f \in Functions, Doing("survey", f)
      PROVE  /\ MarkedRight /\ NotedRight /\ tasks # <<>>
             /\ ~First({"varargs"})
             /\ at > 0 => /\ ~IntrinsicallyLive(f)
                          /\ \A k \in DOMAIN Rets[f] : k \in RetValLiveness => Needed(Rets[f][k])
  <2>1. Head(tasks).what = "survey" /\ tasks # <<>>
    BY <1>3, TaskWhat DEF Doing
  <2>2. QED BY <1>3, <2>1 DEF NeededInv, First, SurveyedRight
<1>4. ASSUME NEW f \in Functions, SurveyLiveFunction(f)
      PROVE  NeededInv'
  <2>1. /\ Doing("survey", f) /\ IntrinsicallyLive(f) /\ MarkFunctionLive(f)
        /\ tasks' = Tail(tasks) /\ UNCHANGED program /\ ran' = ran /\ at' = 0
    BY <1>4 DEF SurveyLiveFunction, Done, survey
  <2>2. MarkedRight /\ NotedRight /\ tasks # <<>> /\ ~First({"varargs"})
    BY <1>3, <2>1
  <2>3. LiveFunctions' = LiveFunctions \cup {f}
    BY <2>1 DEF MarkFunctionLive
  <2>4. /\ \A r \in LiveValues' \ LiveValues : \E u \in Values : r = RetOrArg(u) /\ Needed(u)
        /\ NotedRight'
    BY <1>1, <2>1, <2>2, MarkFunctionNeeded
  <2>5. \A g \in Pending : g \in LiveFunctions' \/ g \in Pending'
    BY <1>1, <2>1, <2>3, PendedStill
  <2>6. MarkedRight'
    BY <1>1, <2>1, <2>2, <2>3, <2>4, <2>5, MarkedStep
  <2>7. ~First({"varargs"})' /\ InTurn'
    BY <1>1, <2>1, <2>2, FirstLater, TurnStep
  <2>8. QED BY <2>1, <2>4, <2>6, <2>7 DEF NeededInv, SurveyedRight
<1>5. ASSUME NEW f \in Functions, SurveyReturns(f)
      PROVE  NeededInv'
  <2>1. /\ Doing("survey", f) /\ ~IntrinsicallyLive(f)
        /\ UNCHANGED <<program, dae, tasks, ran>>
        /\ RetValLiveness' = {k \in DOMAIN Rets[f] : SurveyedLive(Rets[f][k])}
    BY <1>5 DEF SurveyReturns
  <2>2. MarkedRight /\ NotedRight /\ tasks # <<>> /\ ~First({"varargs"})
    BY <1>3, <2>1
  <2>3. UNCHANGED <<linkage, uses, version, LiveValues, LiveFunctions, Uses>>
    BY <2>1 DEF program, dae
  <2>4. Pending' = Pending
    BY <2>1 DEF Pending
  <2>5. MarkedRight'
    BY <1>1, <2>1, <2>2, <2>3, <2>4, MarkedStep
  <2>6. NotedRight'
    BY <2>2, <2>3 DEF NotedRight, RetOrArg
  <2>7. InTurn' /\ ~First({"varargs"})'
    BY <1>1, <2>1, <2>2 DEF InTurn, First
  <2>8. ASSUME NEW g \in Functions, Doing("survey", g)'
        PROVE  /\ ~IntrinsicallyLive(g)'
               /\ \A k \in DOMAIN Rets[g] : k \in RetValLiveness' => Needed(Rets[g][k])'
    <3>1. g = f
      <4>1. Doing("survey", g)
        BY <2>1, <2>8 DEF Doing
      <4>2. QED BY <2>1, <4>1, OneHead
    <3>2. ASSUME NEW k \in DOMAIN Rets[f], SurveyedLive(Rets[f][k])
          PROVE  Needed(Rets[f][k])'
      <4>1. Rets[f][k] \in Values
        BY <3>2, Types
      <4>2. Needed(Rets[f][k])
        BY <1>1, <2>2, <3>2, <4>1, SurveyedNeeded
      <4>3. QED BY <1>1, <2>1, <4>1, <4>2, NeededSame
    <3>3. ~IntrinsicallyLive(f)'
      BY <2>1, <2>3 DEF IntrinsicallyLive
    <3>4. QED BY <2>1, <3>1, <3>2, <3>3
  <2>9. QED BY <2>5, <2>6, <2>7, <2>8 DEF NeededInv, SurveyedRight
<1>6. ASSUME NEW f \in Functions, NEW v \in Values, NEW live \in BOOLEAN,
             Doing("survey", f), at > 0, MarkValue(v, live),
             live => Needed(v), ~live => Other \notin uses[v],
             UNCHANGED <<program, LiveFunctions, RetValLiveness, tasks, ran>>
      PROVE  NeededInv'
  <2>1. /\ MarkedRight /\ NotedRight /\ tasks # <<>> /\ ~First({"varargs"})
        /\ ~IntrinsicallyLive(f)
        /\ \A k \in DOMAIN Rets[f] : k \in RetValLiveness => Needed(Rets[f][k])
    BY <1>3, <1>6
  <2>2. /\ \A r \in LiveValues' \ LiveValues : \E u \in Values : r = RetOrArg(u) /\ Needed(u)
        /\ NotedRight'
    BY <1>1, <1>6, <2>1, MarkValueNeeded
  <2>3. Pending' = Pending
    BY <1>6 DEF Pending
  <2>4. MarkedRight'
    BY <1>1, <1>6, <2>1, <2>2, <2>3, MarkedStep
  <2>5. InTurn' /\ ~First({"varargs"})'
    BY <1>1, <1>6, <2>1 DEF InTurn, First
  <2>6. ASSUME NEW g \in Functions, Doing("survey", g)'
        PROVE  /\ ~IntrinsicallyLive(g)'
               /\ \A k \in DOMAIN Rets[g] : k \in RetValLiveness' => Needed(Rets[g][k])'
    <3>1. g = f
      <4>1. Doing("survey", g)
        BY <1>6, <2>6 DEF Doing
      <4>2. QED BY <1>6, <4>1, OneHead
    <3>2. \A k \in DOMAIN Rets[f] : Rets[f][k] \in Values
      BY Types
    <3>3. \A k \in DOMAIN Rets[f] : k \in RetValLiveness => Needed(Rets[f][k])'
      BY <1>1, <1>6, <2>1, <3>2, NeededSame
    <3>4. ~IntrinsicallyLive(f)'
      BY <1>6, <2>1 DEF IntrinsicallyLive, program
    <3>5. QED BY <1>6, <3>1, <3>3, <3>4
  <2>7. QED BY <2>2, <2>4, <2>5, <2>6 DEF NeededInv, SurveyedRight
<1>7. ASSUME NEW f \in Functions, MarkReturn(f)
      PROVE  NeededInv'
  <2> DEFINE v == Rets[f][at]
             live == at \in RetValLiveness
  <2>1. /\ Doing("survey", f) /\ at \in DOMAIN Rets[f] /\ MarkValue(v, live)
        /\ UNCHANGED <<program, LiveFunctions, RetValLiveness, tasks, ran>>
    BY <1>7 DEF MarkReturn
  <2>2. at > 0
    BY <1>1, <2>1, OrderPlaces
  <2>3. v \in Values /\ live \in BOOLEAN
    BY <2>1, Types
  <2>4. live => Needed(v)
    BY <1>3, <2>1, <2>2
  <2>5. ~live => Other \notin uses[v]
    BY <1>1, <2>1, <2>2 DEF TypeInv, Progress
  <2> HIDE DEF v, live
  <2>6. QED BY <1>6, <2>1, <2>2, <2>3, <2>4, <2>5
<1>8. ASSUME NEW f \in Functions, SurveyArgument(f)
      PROVE  NeededInv'
  <2> DEFINE v == InOrder(f)[at]
             live == linkage[f] = "variadic" \/ SurveyedLive(v)
  <2>1. /\ Doing("survey", f) /\ at \in DOMAIN InOrder(f) /\ at > Len(Rets[f])
        /\ MarkValue(v, live)
        /\ UNCHANGED <<program, LiveFunctions, RetValLiveness, tasks, ran>>
    BY <1>8 DEF SurveyArgument
  <2>2. at > 0
    BY <1>1, <2>1, OrderPlaces
  <2>3. v \in Values /\ Of[v] = f /\ IsArg(v) /\ live \in BOOLEAN
    BY <2>1, OrderOf, OrderKinds
  <2>4. MarkedRight
    BY <1>3, <2>1
  <2>5. live => Needed(v)
    <3>1. CASE linkage[f] = "variadic"
      BY <2>3, <3>1, NeededClosed
    <3>2. CASE SurveyedLive(v)
      BY <1>1, <2>3, <2>4, <3>2, SurveyedNeeded
    <3>3. QED BY <3>1, <3>2
  <2>6. ~live => Other \notin uses[v]
    BY DEF SurveyedLive, LiveUse
  <2> HIDE DEF v, live
  <2>7. QED BY <1>6, <2>1, <2>2, <2>3, <2>5, <2>6
<1>9. ASSUME NEW f \in Functions, EndSurvey(f)
      PROVE  NeededInv'
  <2>1. /\ Doing("survey", f) /\ at > Len(InOrder(f)) /\ at' = 0
        /\ tasks' = Tail(tasks) /\ UNCHANGED program /\ UNCHANGED dae /\ ran' = ran
    BY <1>9 DEF EndSurvey, Done
  <2>2. at > 0
    BY <1>1, <2>1, OrderPlaces
  <2>3. /\ MarkedRight /\ NotedRight /\ tasks # <<>> /\ ~First({"varargs"})
        /\ ~IntrinsicallyLive(f)
    BY <1>3, <2>1, <2>2
  <2>4. UNCHANGED <<LiveValues, LiveFunctions, Uses, uses, version>>
    BY <2>1 DEF dae, program
  <2>5. \A g \in Pending : g # f => g \in Pending'
    BY <1>1, <2>1, PendedStill
  <2>6. MarkedRight'
    BY <1>1, <2>1, <2>3, <2>4, <2>5, MarkedStep
  <2>7. NotedRight'
    BY <2>3, <2>4 DEF NotedRight, RetOrArg
  <2>8. ~First({"varargs"})' /\ InTurn'
    BY <1>1, <2>1, <2>3, FirstLater, TurnStep
  <2>9. QED BY <2>1, <2>6, <2>7, <2>8 DEF NeededInv, SurveyedRight
<1>10. ASSUME NEW f \in Functions, Change(f)
       PROVE  NeededInv'
  <2>1. PICK w \in {"remove", "undef"} : Doing(w, f)
    BY <1>10 DEF Change, RemoveNothing, SameType, RemoveDeadStuff, PutUndef
  <2>2. /\ tasks # <<>> /\ ~First({"varargs"}) /\ ~First({"varargs", "survey"})
        /\ w = "undef" => ~First({"varargs", "survey", "remove"})
    BY <2>1, TaskWhat DEF Doing, First
  <2>3. tasks' = Tail(tasks)
    BY <1>10 DEF Change, RemoveNothing, SameType, RemoveDeadStuff, PutUndef, Done
  <2>4. ran' = ran \/ (Doing("remove", f) /\ ran' = ran \cup {f})
    BY <1>10 DEF Change, RemoveNothing, SameType, RemoveDeadStuff, PutUndef
  <2>5. InTurn' /\ ~First({"varargs"})' /\ ~First({"varargs", "survey"})'
    BY <1>1, <2>2, <2>3, <2>4, FirstLater, TurnStep
  <2>6. SurveyedRight'
    <3>1. at = 0
      BY <1>1, <2>1, NotSurveying
    <3>2. at' = at
      BY <1>10 DEF Change, RemoveNothing, SameType, RemoveDeadStuff, PutUndef, survey
    <3>3. QED BY <3>1, <3>2 DEF SurveyedRight
  <2>7. ASSUME First({"varargs", "survey", "remove"})'
        PROVE  MarkedRight'
    <3>1. w = "remove" /\ MarkedRight
      BY <1>1, <2>2, <2>3, <2>7, FirstLater DEF NeededInv
    <3>2. ASSUME UNCHANGED program, LiveFunctions' = LiveFunctions, LiveValues' \subseteq LiveValues
          PROVE  MarkedRight'
      <4>1. \A g \in Pending : g \in Pending'
        BY <1>1, <2>1, <2>3, <3>1, PendedStill
      <4>2. QED BY <1>1, <3>1, <3>2, <4>1, MarkedStep
    <3>3. CASE RemoveNothing(f)
      BY <3>2, <3>3 DEF RemoveNothing, dae
    <3>4. CASE SameType(f)
      BY <3>2, <3>4 DEF SameType
    <3>5. CASE RemoveDeadStuff(f)
      BY <2>7, <3>5, RemoveNeeded
    <3>6. CASE PutUndef(f)
      BY <2>1, <3>1, <3>6, OneHead DEF PutUndef
    <3>7. QED BY <1>10, <3>3, <3>4, <3>5, <3>6 DEF Change
  <2>8. QED BY <2>5, <2>6, <2>7 DEF NeededInv
<1>11. ~Idle
  BY DEF Idle
<1>12. QED
  BY <1>2, <1>4, <1>5, <1>7, <1>8, <1>9, <1>10, <1>11
  DEF Next, Survey, runOnFunction, DeleteUse, ForwardUse

LEMMA NeededInit ==
  ASSUME Init, ~adaptive
  PROVE  NeededInv
<1> DEFINE n == Len(Module)
<1>1. /\ tasks = runOnModule /\ at = 0 /\ ran = {}
      /\ LiveValues = {} /\ LiveFunctions = {} /\ Uses = {}
  BY DEF Init, Start
<1>2. /\ n \in Nat /\ DOMAIN Module = 1 .. n
      /\ \A j, k \in 1 .. n : Module[j] = Module[k] => j = k
  BY DeadArgsAssumption, LenProperties
<1>3. /\ DOMAIN tasks = 1 .. 4 * n
      /\ \A k \in 1 .. 4 * n :
           /\ k <= n => tasks[k] = Task("varargs", Module[k])
           /\ k > n /\ k <= 2 * n => tasks[k] = Task("survey", Module[k - n])
           /\ k > 2 * n /\ k <= 3 * n => tasks[k] = Task("remove", Module[k - 2 * n])
           /\ k > 3 * n => tasks[k] = Task("undef", Module[k - 3 * n])
  BY <1>1, WholeLists
<1> HIDE DEF n
<1>4. ASSUME NEW k \in 1 .. 4 * n
      PROVE  /\ k <= n => Rank[tasks[k].what] = 1
             /\ k > n /\ k <= 2 * n => Rank[tasks[k].what] = 2
             /\ k > 2 * n /\ k <= 3 * n => Rank[tasks[k].what] = 3
             /\ k > 3 * n => Rank[tasks[k].what] = 4
             /\ tasks[k].what = "remove" => k > 2 * n /\ k <= 3 * n
  <2>1. /\ k <= n => tasks[k].what = "varargs"
        /\ k > n /\ k <= 2 * n => tasks[k].what = "survey"
        /\ k > 2 * n /\ k <= 3 * n => tasks[k].what = "remove"
        /\ k > 3 * n => tasks[k].what = "undef"
    BY <1>3, TaskWhat
  <2>2. k <= n \/ (k > n /\ k <= 2 * n) \/ (k > 2 * n /\ k <= 3 * n) \/ k > 3 * n
    BY <1>2
  <2>3. QED BY <2>1, <2>2 DEF Rank
<1>5. ASSUME NEW j \in 1 .. 4 * n, NEW k \in 1 .. 4 * n, j < k
      PROVE  /\ Rank[tasks[j].what] <= Rank[tasks[k].what]
             /\ tasks[k].what = "remove" => tasks[j] # tasks[k]
  <2>1. /\ Rank[tasks[j].what] = 1 \/ Rank[tasks[j].what] = 2
           \/ Rank[tasks[j].what] = 3 \/ Rank[tasks[j].what] = 4
        /\ Rank[tasks[j].what] <= Rank[tasks[k].what]
    BY <1>2, <1>4, <1>5
  <2>2. ASSUME tasks[k].what = "remove", tasks[j] = tasks[k]
        PROVE  FALSE
    <3>1. j > 2 * n /\ j <= 3 * n /\ k > 2 * n /\ k <= 3 * n
      BY <1>4, <2>2
    <3>2. Module[j - 2 * n] = Module[k - 2 * n]
      BY <1>3, <2>2, <3>1, TaskWhat
    <3>3. j - 2 * n \in 1 .. n /\ k - 2 * n \in 1 .. n /\ j - 2 * n # k - 2 * n
      BY <1>2, <1>5, <3>1
    <3>4. QED BY <1>2, <3>2, <3>3
  <2>3. QED BY <2>1, <2>2
<1>6. InTurn
  BY <1>1, <1>3, <1>5 DEF InTurn
<1>7. MarkedRight
  <2>1. \A f \in Functions : f \in Pending
    <3> SUFFICES ASSUME NEW f \in Functions PROVE f \in Pending
      OBVIOUS
    <3>1. PICK m \in 1 .. n : Module[m] = f
      BY <1>2, DeadArgsAssumption
    <3>2. n + m \in 1 .. 4 * n /\ n + m > n /\ n + m <= 2 * n /\ (n + m) - n = m
      BY <1>2
    <3>3. tasks[n + m] = Task("survey", Module[(n + m) - n])
      BY <1>3, <3>2
    <3>4. QED BY <1>3, <3>1, <3>2, <3>3 DEF Pending
  <2>2. QED BY <1>1, <2>1 DEF MarkedRight, Alive
<1>8. NotedRight /\ SurveyedRight
  BY <1>1 DEF NotedRight, SurveyedRight
<1>9. QED BY <1>1, <1>6, <1>7, <1>8 DEF NeededInv

(***************************************************************************)
(* However the functions of a module call each other, only what the        *)
(* program needs is live until everything is changed, when no function     *)
(* returns more than one value: a dead argument that functions pass round  *)
(* in a circle is found dead.                                              *)
(***************************************************************************)
THEOREM LiveRight == SingleReturns => (Spec => []LiveAreNeeded)
<1> SUFFICES ASSUME SingleReturns PROVE Spec => []LiveAreNeeded
  OBVIOUS
<1> DEFINE Inv == FirstInv /\ (~adaptive => NeededInv)
<1>1. Init => Inv
  BY TypeInit, SurveyInit, NeededInit DEF FirstInv
<1>2. Inv /\ [Next]_vars => Inv'
  <2> SUFFICES ASSUME Inv, [Next]_vars PROVE Inv'
    OBVIOUS
  <2>1. FirstInv'
    BY FirstStep
  <2>2. CASE Next
    <3>1. adaptive' = adaptive
      BY <2>2 DEF Next, Survey, Change, DeleteDeadVarargs, SurveyLiveFunction, SurveyReturns,
        MarkReturn, SurveyArgument, EndSurvey, RemoveNothing, SameType, RemoveDeadStuff,
        PutUndef, runOnFunction, DeleteUse, ForwardUse, program
    <3>2. CASE ~adaptive
      BY <2>1, <2>2, <3>2, NeededStep
    <3>3. CASE adaptive
      BY <2>1, <3>1, <3>3
    <3>4. QED BY <3>2, <3>3
  <2>3. CASE UNCHANGED vars
    <3>1. CASE ~adaptive
      BY <2>1, <2>3, <3>1, NeededStays
    <3>2. CASE adaptive
      BY <2>1, <2>3, <3>2 DEF vars
    <3>3. QED BY <3>1, <3>2
  <2>4. QED BY <2>2, <2>3
<1>3. Inv => LiveAreNeeded
  <2> SUFFICES ASSUME Inv, ~adaptive, tasks # <<>>, Head(tasks).what # "undef",
                      NEW v \in Values, Alive(v)
               PROVE  Needed(v)
    BY DEF LiveAreNeeded
  <2>1. TypeOK
    BY DEF FirstInv, TypeInv
  <2>2. Head(tasks) \in TaskType
    BY <2>1, TasksType, HeadTailProperties
  <2>3. First({"varargs", "survey", "remove"})
    BY <2>2 DEF First, TaskType
  <2>4. QED BY <2>3 DEF NeededInv, MarkedRight
<1>4. QED BY <1>1, <1>2, <1>3, PTL DEF Spec
=============================================================================
