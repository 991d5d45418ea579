-------------------------- MODULE UnusedStoreProofs --------------------------
(***************************************************************************)
(* Proof that no store is declared unused which a later instruction reads, *)
(* for functions of any length the rules see through.                      *)
(***************************************************************************)
EXTENDS UnusedStore, ResolveEngineProofs, FiniteSetTheorems, WellFoundedInduction

(* what has been taken from the work list *)
Popped == asked \cup {u \in Uses : flags[u] = "IGNORED"}

Listed == Range(unsolved) \cup Popped

(* the pointer whose uses the search starts from *)
Origin == IF query.root = ValueNode THEN 0 ELSE prog[query.root].ptr

(* what the rule lists that solves cur, and what of it is not added yet *)
Giving == query.rules[IF First THEN 2 ELSE 1].adds[cur]
Coming == {Giving[k] : k \in kid + 1 .. Len(Giving)}

(* each use is in the list once *)
Once(s) == \A j, k \in 1 .. Len(s) : s[j] = s[k] => j = k

(***************************************************************************)
(* An instruction has one pointer operand, so it is put on the list once,  *)
(* and the limit on the iterations is not met.                             *)
(***************************************************************************)
ListedOnce ==
  pc # "root" =>
    /\ Once(unsolved)
    /\ Range(unsolved) \cap Popped = {}
    /\ \A u \in Listed : u > Origin /\ (prog[u].ptr = Origin \/ prog[u].ptr \in asked)
    /\ iteration = Cardinality(Popped)
    /\ First => rule \in {0, 2} /\ stage # "global" /\ iteration = 0 /\ Popped = {}
    /\ pc = "rules" /\ rule > 0 => Coming \cap Listed = {}

QueryIs ==
  /\ stage \in {"direct", "behind", "global"}
  /\ stage = "direct" => query = AskDirect
  /\ stage = "behind" => Pointer # 0 /\ query = AskBehind
  /\ stage = "global" => IsGlobal /\ query = AskGlobal

FunctionIs ==
  /\ prog \in [Uses -> Instruction] /\ store \in Uses
  /\ \A i \in Uses : prog[i].ptr < i /\ (prog[i].ptr # 0 => prog[prog[i].ptr].op \in Derived)
  /\ \A i \in Uses : prog[i].op = "store" <=> i = store

(* what the query of the use itself has shown: a set that shows it *)
DirectClear ==
  \E S \in SUBSET Uses :
    /\ {i \in UsesOf(Pointer) : i > store} \ (iUseFilter \cup exclude) \subseteq S
    /\ \A v \in S : UsesOf(v) \ (iUseFilter \cup exclude) \subseteq S
    /\ S \cap Visits = {}

StoreInv ==
  /\ FunctionIs /\ QueryIs
  /\ SearchInv
  /\ ListedOnce
  /\ stage = "behind" => DirectClear
  /\ verdict = "IsDeletable" =>
       pc = "done" /\ ret = None /\ (stage = "direct" => Pointer = 0)

----------------------------------------------------------------------------
(***************************************************************************)
(* The lists of uses.                                                      *)
(***************************************************************************)
LEMMA PlacesGrow ==
  ASSUME NEW S, S \subseteq Uses
  PROVE  /\ IsFiniteSet(S) /\ Cardinality(S) \in Nat
         /\ \A i \in S : Place(S, i) \in 1 .. Cardinality(S)
         /\ \A i, j \in S : i < j => Place(S, i) < Place(S, j)
<1>1. N \in Nat /\ Uses = 1 .. N /\ IsFiniteSet(Uses)
  <2>1. N \in Nat /\ Uses = 1 .. N
    BY NAssumption
  <2>2. IsFiniteSet(1 .. N)
    BY <2>1, FS_Interval
  <2>3. QED BY <2>1, <2>2
<1>2. IsFiniteSet(S) /\ Cardinality(S) \in Nat
  BY <1>1, FS_Subset, FS_CardinalityType
<1> DEFINE Below(i) == {j \in S : j <= i}
<1>3. ASSUME NEW i \in S
      PROVE  /\ IsFiniteSet(Below(i)) /\ Cardinality(Below(i)) \in Nat
             /\ Cardinality(Below(i)) <= Cardinality(S)
             /\ Place(S, i) = Cardinality(Below(i))
             /\ Cardinality(Below(i)) # 0
  <2>1. Below(i) \in SUBSET S
    OBVIOUS
  <2>2. i \in Below(i)
    BY <1>1
  <2>3. Place(S, i) = Cardinality(Below(i))
    BY DEF Place
  <2> HIDE DEF Below
  <2>4. IsFiniteSet(Below(i)) /\ Cardinality(Below(i)) <= Cardinality(S)
    BY <1>2, <2>1, FS_Subset
  <2>5. Cardinality(Below(i)) # 0
    BY <2>2, <2>4, FS_EmptySet
  <2>6. QED BY <2>3, <2>4, <2>5, FS_CardinalityType
<1>4. ASSUME NEW i \in S PROVE Place(S, i) \in 1 .. Cardinality(S)
  <2> HIDE DEF Below
  <2>1. PICK n : n = Cardinality(Below(i))
    OBVIOUS
  <2>2. n \in Nat /\ n # 0 /\ n <= Cardinality(S) /\ Place(S, i) = n
    BY <1>3, <2>1
  <2>3. QED BY <1>2, <2>2
<1>5. ASSUME NEW i \in S, NEW j \in S, i < j
      PROVE  Place(S, i) < Place(S, j)
  <2>0. S \subseteq Int /\ i \in Int /\ j \in Int
    BY <1>1
  <2>a. j \in Below(j) /\ j \notin Below(i)
    BY <1>5, <2>0
  <2>b. ASSUME NEW x \in S, x <= i PROVE x <= j
    BY <1>5, <2>0, <2>b
  <2>1. Below(i) \in SUBSET Below(j) /\ j \in Below(j) /\ j \notin Below(i)
    BY <2>a, <2>b
  <2> HIDE DEF Below
  <2>2. Cardinality(Below(i)) <= Cardinality(Below(j))
    BY <1>3, <2>1, FS_Subset
  <2>3. Cardinality(Below(i)) # Cardinality(Below(j))
    BY <1>3, <2>1, FS_Subset
  <2>4. QED BY <1>3, <2>2, <2>3
<1>6. QED BY <1>2, <1>4, <1>5

LEMMA InOrderIs ==
  ASSUME NEW S, S \subseteq Uses
  PROVE  /\ Cardinality(S) \in Nat
         /\ InOrder(S) \in Seq(S) /\ Len(InOrder(S)) = Cardinality(S)
         /\ \A i \in S : \E k \in 1 .. Cardinality(S) : InOrder(S)[k] = i
         /\ \A j, k \in 1 .. Cardinality(S) : InOrder(S)[j] = InOrder(S)[k] => j = k
<1> DEFINE n == Cardinality(S)
           place == [i \in S |-> Place(S, i)]
<1>1. /\ IsFiniteSet(S) /\ n \in Nat
      /\ \A i \in S : Place(S, i) \in 1 .. n
      /\ \A i, j \in S : i < j => Place(S, i) < Place(S, j)
  BY PlacesGrow
<1>2. S \subseteq Int
  BY NAssumption
<1>3. \A i, j \in S : Place(S, i) = Place(S, j) => i = j
  <2>1. ASSUME NEW i \in S, NEW j \in S, Place(S, i) = Place(S, j) PROVE i = j
    <3>1. i < j \/ j < i \/ i = j
      BY <1>2
    <3>2. Place(S, i) \in Int /\ Place(S, j) \in Int
      BY <1>1
    <3>3. ~(i < j) /\ ~(j < i)
      BY <1>1, <2>1, <3>2
    <3>4. QED BY <3>1, <3>3
  <2>2. QED BY <2>1
<1>4. place \in Injection(S, 1 .. n)
  BY <1>1, <1>3 DEF Injection, IsInjective
<1>5. Cardinality(1 .. n) = n /\ IsFiniteSet(1 .. n)
  <2> HIDE DEF n
  <2>1. IsFiniteSet(1 .. n) /\ Cardinality(1 .. n) = IF 1 > n THEN 0 ELSE n - 1 + 1
    BY <1>1, FS_Interval
  <2>2. QED BY <1>1, <2>1
<1>6. place \in Surjection(S, 1 .. n)
  <2> HIDE DEF place
  <2>1. QED BY <1>4, <1>5, FS_Injection
<1>7. \A k \in 1 .. n : \E i \in S : Place(S, i) = k
  BY <1>6 DEF Surjection
<1>8. \A k \in 1 .. n : InOrder(S)[k] \in S /\ Place(S, InOrder(S)[k]) = k
  BY <1>7 DEF InOrder
<1>9. InOrder(S) \in [1 .. n -> S]
  BY <1>8 DEF InOrder
<1>10. InOrder(S) \in Seq(S) /\ Len(InOrder(S)) = n
  <2> HIDE DEF n
  <2>1. QED BY <1>1, <1>9
<1>11. \A i \in S : InOrder(S)[Place(S, i)] = i
  BY <1>1, <1>3, <1>8
<1>12. QED BY <1>1, <1>8, <1>10, <1>11

LEMMA BackwardsIs ==
  ASSUME NEW S, S \subseteq Uses
  PROVE  /\ Cardinality(S) \in Nat
         /\ Backwards(S) \in Seq(S) /\ Len(Backwards(S)) = Cardinality(S)
         /\ \A i \in S : \E k \in 1 .. Cardinality(S) : Backwards(S)[k] = i
         /\ \A j, k \in 1 .. Cardinality(S) : Backwards(S)[j] = Backwards(S)[k] => j = k
<1>1. PICK n : n = Cardinality(S)
  OBVIOUS
<1>2. /\ n \in Nat /\ InOrder(S) \in Seq(S) /\ Len(InOrder(S)) = n
      /\ \A i \in S : \E k \in 1 .. n : InOrder(S)[k] = i
      /\ \A j, k \in 1 .. n : InOrder(S)[j] = InOrder(S)[k] => j = k
  BY <1>1, InOrderIs
<1>3. Backwards(S) = [k \in 1 .. n |-> InOrder(S)[n + 1 - k]]
  BY <1>1 DEF Backwards
<1>4. \A k \in 1 .. n : n + 1 - k \in 1 .. n /\ n + 1 - (n + 1 - k) = k
  BY <1>2
<1>5. Backwards(S) \in [1 .. n -> S]
  BY <1>2, <1>3, <1>4
<1>6. Backwards(S) \in Seq(S) /\ Len(Backwards(S)) = n
  BY <1>2, <1>5
<1>7. ASSUME NEW i \in S PROVE \E k \in 1 .. n : Backwards(S)[k] = i
  <2>1. PICK k \in 1 .. n : InOrder(S)[k] = i
    BY <1>2
  <2>2. Backwards(S)[n + 1 - k] = i
    BY <1>3, <1>4, <2>1
  <2>3. QED BY <1>4, <2>2
<1>8. ASSUME NEW j \in 1 .. n, NEW k \in 1 .. n, Backwards(S)[j] = Backwards(S)[k]
      PROVE  j = k
  <2>1. InOrder(S)[n + 1 - j] = InOrder(S)[n + 1 - k]
    BY <1>3, <1>8
  <2>2. n + 1 - j = n + 1 - k
    BY <1>2, <1>4, <2>1
  <2>3. QED BY <1>2, <2>2
<1>9. QED BY <1>1, <1>2, <1>6, <1>7, <1>8

LEMMA InOrderLists ==
  ASSUME NEW S, S \subseteq Uses
  PROVE  InOrder(S) \in Seq(Uses) /\ Range(InOrder(S)) = S /\ Once(InOrder(S))
<1>1. PICK n : n = Cardinality(S)
  OBVIOUS
<1>2. /\ n \in Nat /\ InOrder(S) \in Seq(S) /\ Len(InOrder(S)) = n
      /\ \A i \in S : \E k \in 1 .. n : InOrder(S)[k] = i
      /\ \A j, k \in 1 .. n : InOrder(S)[j] = InOrder(S)[k] => j = k
  BY <1>1, InOrderIs
<1>3. DOMAIN InOrder(S) = 1 .. n /\ \A k \in 1 .. n : InOrder(S)[k] \in S
  BY <1>2
<1>4. InOrder(S) \in Seq(Uses)
  BY <1>2
<1>5. QED BY <1>2, <1>3, <1>4 DEF Range, Once

LEMMA BackwardsLists ==
  ASSUME NEW S, S \subseteq Uses
  PROVE  Backwards(S) \in Seq(Uses) /\ Range(Backwards(S)) = S /\ Once(Backwards(S))
<1>1. PICK n : n = Cardinality(S)
  OBVIOUS
<1>2. /\ n \in Nat /\ Backwards(S) \in Seq(S) /\ Len(Backwards(S)) = n
      /\ \A i \in S : \E k \in 1 .. n : Backwards(S)[k] = i
      /\ \A j, k \in 1 .. n : Backwards(S)[j] = Backwards(S)[k] => j = k
  BY <1>1, BackwardsIs
<1>3. DOMAIN Backwards(S) = 1 .. n /\ \A k \in 1 .. n : Backwards(S)[k] \in S
  BY <1>2
<1>4. Backwards(S) \in Seq(Uses)
  BY <1>2
<1>5. QED BY <1>2, <1>3, <1>4 DEF Range, Once

LEMMA JoinedLists ==
  ASSUME NEW s \in Seq(Uses), NEW t \in Seq(Uses), Once(s), Once(t),
         Range(s) \cap Range(t) = {}
  PROVE  s \o t \in Seq(Uses) /\ Range(s \o t) = Range(s) \cup Range(t) /\ Once(s \o t)
<1> DEFINE m == Len(s)
           n == Len(t)
<1>1. /\ m \in Nat /\ n \in Nat /\ s \o t \in Seq(Uses) /\ Len(s \o t) = m + n
      /\ DOMAIN s = 1 .. m /\ DOMAIN t = 1 .. n /\ DOMAIN (s \o t) = 1 .. m + n
      /\ \A k \in 1 .. m : (s \o t)[k] = s[k]
      /\ \A k \in m + 1 .. m + n : (s \o t)[k] = t[k - m]
  OBVIOUS
<1> HIDE DEF m, n
<1>2. \A k \in 1 .. m + n : k \in 1 .. m \/ (k \in m + 1 .. m + n /\ k - m \in 1 .. n)
  BY <1>1
<1>3. \A k \in 1 .. n : k + m \in m + 1 .. m + n /\ (k + m) - m = k
  BY <1>1
<1>4. \A k \in 1 .. m : k \in 1 .. m + n
  BY <1>1
<1>5. Range(s \o t) \subseteq Range(s) \cup Range(t)
  BY <1>1, <1>2 DEF Range
<1>6. Range(s) \subseteq Range(s \o t)
  BY <1>1, <1>4 DEF Range
<1>7. Range(t) \subseteq Range(s \o t)
  <2>1. ASSUME NEW k \in 1 .. n PROVE t[k] = (s \o t)[k + m] /\ k + m \in 1 .. m + n
    BY <1>1, <1>3
  <2>2. ASSUME NEW x \in Range(t) PROVE x \in Range(s \o t)
    <3>1. PICK k \in 1 .. n : t[k] = x
      BY <1>1, <2>2 DEF Range
    <3>2. (s \o t)[k + m] = x /\ k + m \in DOMAIN (s \o t)
      BY <1>1, <2>1, <3>1
    <3>3. QED BY <3>2 DEF Range
  <2>3. QED BY <2>2
<1>8. ASSUME NEW j \in 1 .. m + n, NEW k \in 1 .. m + n, (s \o t)[j] = (s \o t)[k]
      PROVE  j = k
  <2>1. CASE j \in 1 .. m /\ k \in 1 .. m
    BY <1>1, <1>8, <2>1 DEF Once, m
  <2>2. CASE j \in m + 1 .. m + n /\ k \in m + 1 .. m + n
    <3>1. t[j - m] = t[k - m] /\ j - m \in 1 .. n /\ k - m \in 1 .. n
      BY <1>1, <1>8, <2>2
    <3>2. j - m = k - m
      BY <3>1 DEF Once, n
    <3>3. QED BY <1>1, <2>2, <3>2
  <2>3. \A i, l : i \in 1 .. m /\ l \in m + 1 .. m + n =>
           (s \o t)[i] \in Range(s) /\ (s \o t)[l] \in Range(t)
    <3>1. \A i \in 1 .. m : s[i] \in Range(s)
      BY <1>1 DEF Range
    <3>2. \A l \in 1 .. n : t[l] \in Range(t)
      BY <1>1 DEF Range
    <3>3. \A l \in m + 1 .. m + n : l - m \in 1 .. n
      BY <1>1
    <3>4. QED BY <1>1, <3>1, <3>2, <3>3
  <2>4. QED BY <1>2, <1>8, <2>1, <2>2, <2>3
<1>9. QED BY <1>1, <1>5, <1>6, <1>7, <1>8 DEF Once

(***************************************************************************)
(* What the rules list for a use: the uses of the value it defines, and    *)
(* the other uses of its own pointer that come after or index it.          *)
(***************************************************************************)
LEMMA DirectLists ==
  ASSUME FunctionIs, NEW u \in Uses
  PROVE  /\ direct_inverse_rule_[u] \in Seq(Uses)
         /\ Range(direct_inverse_rule_[u]) = UsesOf(u)
         /\ Once(direct_inverse_rule_[u])
<1>1. UsesOf(u) \subseteq Uses /\ direct_inverse_rule_[u] = InOrder(UsesOf(u))
  BY DEF UsesOf, direct_inverse_rule_
<1>2. QED BY <1>1, InOrderLists

LEMMA ImplicitLists ==
  /\ implicity_inverse_rule \in Seq(Uses)
  /\ Range(implicity_inverse_rule) = UsesOf(0)
  /\ Once(implicity_inverse_rule)
<1>1. UsesOf(0) \subseteq Uses /\ implicity_inverse_rule = InOrder(UsesOf(0))
  BY DEF UsesOf, implicity_inverse_rule
<1>2. QED BY <1>1, InOrderLists

LEMMA InverseLists ==
  ASSUME FunctionIs, NEW u \in Uses
  PROVE  /\ use_inverse_rule_[u] \in Seq(Uses)
         /\ Range(use_inverse_rule_[u]) = {i \in UsesOf(prog[u].ptr) : i > u \/ isGEP(i)}
         /\ Once(use_inverse_rule_[u])
<1> DEFINE A == {i \in UsesOf(prog[u].ptr) : i > u}
           B == {i \in UsesOf(prog[u].ptr) : i <= u /\ isGEP(i)}
<1>1. A \subseteq Uses /\ B \subseteq Uses
  BY DEF UsesOf
<1>2. Uses \subseteq Int
  BY NAssumption
<1>3. A \cap B = {}
  <2>1. u \in Int /\ \A i \in Int : ~(i > u /\ i <= u)
    BY <1>2
  <2>2. QED BY <1>1, <1>2, <2>1
<1>4. A \cup B = {i \in UsesOf(prog[u].ptr) : i > u \/ isGEP(i)}
  <2>1. \A i \in UsesOf(prog[u].ptr) : i > u \/ i <= u
    BY <1>2 DEF UsesOf
  <2>2. QED BY <2>1
<1>5. use_inverse_rule_[u] = InOrder(A) \o Backwards(B)
  BY DEF use_inverse_rule_
<1> HIDE DEF A, B
<1>6. InOrder(A) \in Seq(Uses) /\ Range(InOrder(A)) = A /\ Once(InOrder(A))
  BY <1>1, InOrderLists
<1>7. Backwards(B) \in Seq(Uses) /\ Range(Backwards(B)) = B /\ Once(Backwards(B))
  BY <1>1, BackwardsLists
<1>8. QED BY <1>3, <1>4, <1>5, <1>6, <1>7, JoinedLists

----------------------------------------------------------------------------
(***************************************************************************)
(* The queries.                                                            *)
(***************************************************************************)
LEMMA RulesAre ==
  ASSUME FunctionIs
  PROVE  /\ FlatRules \in Seq(Rule) /\ Len(FlatRules) = 2
         /\ FlatRules[1].adds = direct_inverse_rule_ /\ ~FlatRules[1].once
         /\ FlatRules[2].adds = use_inverse_rule_ /\ FlatRules[2].once
         /\ \A u \in Uses : FlatRules[1].stop[u] /\ FlatRules[2].stop[u]
         /\ ~FlatRules[1].batch /\ ~FlatRules[2].batch
<1>1. direct_inverse_rule_ \in [Uses -> Seq(Uses)]
  BY DirectLists DEF direct_inverse_rule_
<1>2. use_inverse_rule_ \in [Uses -> Seq(Uses)]
  <2>1. \A u \in Uses : use_inverse_rule_[u] \in Seq(Uses)
    BY InverseLists
  <2>2. use_inverse_rule_ = [u \in Uses |-> use_inverse_rule_[u]]
    BY DEF use_inverse_rule_
  <2>3. QED BY <2>1, <2>2
<1>3. /\ SolveRule(direct_inverse_rule_, FALSE) \in Rule
      /\ SolveRule(use_inverse_rule_, TRUE) \in Rule
  BY <1>1, <1>2 DEF SolveRule, Rule
<1>4. QED BY <1>3 DEF FlatRules, SolveRule

LEMMA AskIsQuery ==
  ASSUME FunctionIs, NEW root \in Uses, NEW refused, refused \subseteq Uses
  PROVE  /\ Ask(root, <<>>, FlatRules, refused) \in Query
         /\ WellFormed(Ask(root, <<>>, FlatRules, refused))
<1>1. FlatRules \in Seq(Rule) /\ Len(FlatRules) = 2 /\ ~FlatRules[1].once
  BY RulesAre
<1>2. UINT32_MAX \in Nat /\ Visits \subseteq Uses /\ {store} \subseteq Uses /\ root \in Nodes
  BY LimitAssumption DEF Visits, FunctionIs, Nodes
<1>3. Ask(root, <<>>, FlatRules, refused) \in Query
  <2>1. PICK e \in Seq(Uses) : e = <<>>
    <3>1. <<>> \in Seq(Uses)
      BY EmptySeq
    <3>2. QED BY <3>1
  <2>2. PICK m : m = UINT32_MAX
    OBVIOUS
  <2>3. Ask(root, <<>>, FlatRules, refused) =
          [root |-> root, implicit |-> e, rules |-> FlatRules, refused |-> refused,
           visits |-> Visits, stores |-> {store}, callback |-> "visit",
           max_iteration |-> m]
    BY <2>1, <2>2 DEF Ask
  <2>4. m \in Nat /\ Visits \in SUBSET Uses /\ {store} \in SUBSET Uses
        /\ root \in Nodes /\ refused \in SUBSET Uses
    BY <1>2, <2>2
  <2>5. FlatRules \in Seq(Rule)
    BY <1>1
  <2>6. PICK rules \in Seq(Rule) : rules = FlatRules
    BY <2>5
  <2>7. PICK visits \in SUBSET Uses, stores \in SUBSET Uses :
          visits = Visits /\ stores = {store}
    BY <2>4
  <2>8. [root |-> root, implicit |-> e, rules |-> rules, refused |-> refused,
         visits |-> visits, stores |-> stores, callback |-> "visit",
         max_iteration |-> m] \in Query
    BY <2>1, <2>4, <2>6, <2>7 DEF Query
  <2>9. QED BY <2>3, <2>6, <2>7, <2>8
<1>4. WellFormed(Ask(root, <<>>, FlatRules, refused))
  <2>1. PICK q : q = Ask(root, <<>>, FlatRules, refused)
    OBVIOUS
  <2>2. q.rules = FlatRules /\ q.root = root
    BY <2>1 DEF Ask
  <2>3. \A i \in 1 .. 2 : i # 1 => i = 2
    OBVIOUS
  <2>4. WellFormed(q)
    BY <1>1, <2>2, <2>3 DEF WellFormed
  <2>5. QED BY <2>1, <2>4
<1>5. QED BY <1>3, <1>4

LEMMA GlobalIsQuery ==
  ASSUME FunctionIs
  PROVE  AskGlobal \in Query /\ WellFormed(AskGlobal)
<1>1. direct_inverse_rule_ \in [Uses -> Seq(Uses)]
  BY DirectLists DEF direct_inverse_rule_
<1>2. SolveRule(direct_inverse_rule_, FALSE) \in Rule
  BY <1>1 DEF SolveRule, Rule
<1>3. UINT32_MAX \in Nat /\ Visits \subseteq Uses /\ {store} \subseteq Uses /\ ValueNode \in Nodes
  BY LimitAssumption DEF Visits, FunctionIs, Nodes
<1>4. CGFilter \cup GEPFilter(Pointer) \subseteq Uses
  BY DEF CGFilter, GEPFilter
<1>5. AskGlobal \in Query
  <2>1. PICK m : m = UINT32_MAX
    OBVIOUS
  <2>2. AskGlobal =
          [root |-> ValueNode, implicit |-> implicity_inverse_rule,
           rules |-> <<SolveRule(direct_inverse_rule_, FALSE)>>,
           refused |-> CGFilter \cup GEPFilter(Pointer),
           visits |-> Visits, stores |-> {store}, callback |-> "visit",
           max_iteration |-> m]
    BY <2>1 DEF AskGlobal, Ask
  <2>3. m \in Nat
    BY <1>3, <2>1
  <2>4. <<SolveRule(direct_inverse_rule_, FALSE)>> \in Seq(Rule)
    <3>1. PICK r \in Rule : r = SolveRule(direct_inverse_rule_, FALSE)
      BY <1>2
    <3>2. <<r>> \in Seq(Rule)
      <4>1. Append(<<>>, r) \in Seq(Rule)
        BY <3>1, EmptySeq, AppendProperties
      <4>2. <<r>> = Append(<<>>, r)
        OBVIOUS
      <4>3. QED BY <4>1, <4>2
    <3>3. QED BY <3>1, <3>2
  <2>5. implicity_inverse_rule \in Seq(Uses)
    BY ImplicitLists
  <2>6. Visits \in SUBSET Uses /\ {store} \in SUBSET Uses /\ ValueNode \in Nodes
        /\ CGFilter \cup GEPFilter(Pointer) \in SUBSET Uses
    BY <1>3, <1>4
  <2>7. QED BY <2>2, <2>3, <2>4, <2>5, <2>6 DEF Query
<1>6. WellFormed(AskGlobal)
  BY DEF AskGlobal, Ask, WellFormed, SolveRule
<1>7. QED BY <1>5, <1>6

LEMMA QueryIsGood ==
  ASSUME FunctionIs, QueryIs
  PROVE  query \in Query /\ WellFormed(query)
<1>1. iUseFilter \cup exclude \subseteq Uses
  BY DEF iUseFilter, exclude, FunctionIs
<1>2. CASE stage = "direct"
  BY <1>1, <1>2, AskIsQuery DEF QueryIs, AskDirect, FunctionIs
<1>3. CASE stage = "behind"
  <2>1. Pointer \in Uses
    BY <1>3, NAssumption DEF QueryIs, FunctionIs, Pointer, Instruction
  <2>2. GEPFilter(Pointer) \subseteq Uses
    BY DEF GEPFilter
  <2>3. QED BY <1>1, <1>3, <2>1, <2>2, AskIsQuery DEF QueryIs, AskBehind
<1>4. CASE stage = "global"
  BY <1>4, GlobalIsQuery DEF QueryIs
<1>5. QED BY <1>2, <1>3, <1>4 DEF QueryIs

(* the two queries of noused_flat *)
LEMMA FlatQuery ==
  ASSUME FunctionIs, QueryIs, stage # "global"
  PROVE  /\ query.rules = FlatRules
         /\ query.root \in Uses /\ query.root # ValueNode
         /\ query.root = (IF stage = "direct" THEN store ELSE Pointer)
         /\ query.refused =
              iUseFilter \cup exclude
                \cup (IF stage = "behind" /\ isGEP(Pointer) THEN GEPFilter(Pointer) ELSE {})
         /\ query.visits = Visits /\ query.callback = "visit"
         /\ query.max_iteration = UINT32_MAX
         /\ Origin = prog[query.root].ptr
<1>1. CASE stage = "direct"
  <2>1. query = AskDirect /\ store \in Uses /\ store # ValueNode
    BY <1>1, NodesAssumption DEF QueryIs, FunctionIs
  <2>2. query.root = store /\ query.rules = FlatRules
        /\ query.refused = iUseFilter \cup exclude
        /\ query.visits = Visits /\ query.callback = "visit"
        /\ query.max_iteration = UINT32_MAX
    BY <2>1 DEF AskDirect, Ask
  <2>3. QED BY <1>1, <2>1, <2>2 DEF Origin
<1>2. CASE stage = "behind"
  <2>1. query = AskBehind /\ Pointer # 0
    BY <1>2 DEF QueryIs
  <2>2. Pointer \in Uses
    BY <2>1, NAssumption DEF FunctionIs, Pointer, Instruction
  <2>3. query.root = Pointer /\ query.rules = FlatRules
        /\ query.refused = iUseFilter \cup exclude
             \cup (IF isGEP(Pointer) THEN GEPFilter(Pointer) ELSE {})
        /\ query.visits = Visits /\ query.callback = "visit"
        /\ query.max_iteration = UINT32_MAX
    BY <2>1 DEF AskBehind, Ask
  <2>4. Pointer # ValueNode
    BY <2>2, NodesAssumption
  <2>5. QED BY <1>2, <2>2, <2>3, <2>4 DEF Origin
<1>3. QED BY <1>1, <1>2 DEF QueryIs

LEMMA FlatPaths ==
  ASSUME FunctionIs, QueryIs, stage # "global"
  PROVE  /\ \A u \in Uses : Expand(u) = UsesOf(u)
         /\ TriedFirst = {2}
         /\ Seeds = {i \in UsesOf(Origin) : i > query.root \/ isGEP(i)}
<1>1. /\ query.rules = FlatRules /\ query.root \in Uses /\ query.root # ValueNode
      /\ Origin = prog[query.root].ptr
  BY FlatQuery
<1>2. /\ Len(FlatRules) = 2
      /\ FlatRules[1].adds = direct_inverse_rule_ /\ ~FlatRules[1].once
      /\ FlatRules[2].adds = use_inverse_rule_ /\ FlatRules[2].once
      /\ \A u \in Uses : FlatRules[1].stop[u] /\ FlatRules[2].stop[u]
  BY RulesAre
<1>3. \A i \in 1 .. 2 : i = 1 \/ i = 2
  OBVIOUS
<1>4. ASSUME NEW u \in Uses PROVE Tried(u) = {1}
  BY <1>1, <1>2, <1>3 DEF Tried
<1>5. ASSUME NEW u \in Uses PROVE Expand(u) = UsesOf(u)
  <2>1. Expand(u) = Range(direct_inverse_rule_[u])
    BY <1>1, <1>2, <1>4 DEF Expand
  <2>2. QED BY <2>1, DirectLists
<1>6. TriedFirst = {2}
  BY <1>1, <1>2 DEF TriedFirst
<1>7. Seeds = Range(use_inverse_rule_[query.root])
  BY <1>1, <1>2, <1>6 DEF Seeds
<1>8. QED BY <1>1, <1>5, <1>6, <1>7, InverseLists

(* the query of noused_global *)
LEMMA GlobalQuery ==
  ASSUME FunctionIs, QueryIs, stage = "global"
  PROVE  /\ query.rules = <<SolveRule(direct_inverse_rule_, FALSE)>>
         /\ query.root = ValueNode /\ query.root \notin Uses
         /\ query.implicit = implicity_inverse_rule
         /\ query.refused = CGFilter \cup GEPFilter(Pointer)
         /\ query.visits = Visits /\ query.callback = "visit"
         /\ query.max_iteration = UINT32_MAX
         /\ Origin = 0 /\ IsGlobal
<1>1. query = AskGlobal /\ IsGlobal
  BY DEF QueryIs
<1>2. /\ query.rules = <<SolveRule(direct_inverse_rule_, FALSE)>>
      /\ query.root = ValueNode
      /\ query.implicit = implicity_inverse_rule
      /\ query.refused = CGFilter \cup GEPFilter(Pointer)
      /\ query.visits = Visits /\ query.callback = "visit"
      /\ query.max_iteration = UINT32_MAX
  BY <1>1 DEF AskGlobal, Ask
<1>3. QED BY <1>1, <1>2, NodesAssumption DEF Origin

LEMMA GlobalPaths ==
  ASSUME FunctionIs, QueryIs, stage = "global"
  PROVE  /\ Len(query.rules) = 1
         /\ query.rules[1].adds = direct_inverse_rule_
         /\ ~query.rules[1].once /\ ~query.rules[1].batch
         /\ \A u \in Uses : query.rules[1].stop[u]
         /\ \A u \in Uses : Expand(u) = UsesOf(u)
         /\ Seeds = UsesOf(0)
<1>1. /\ query.rules = <<SolveRule(direct_inverse_rule_, FALSE)>>
      /\ query.root = ValueNode
      /\ query.implicit = implicity_inverse_rule
  BY GlobalQuery
<1>2. /\ Len(query.rules) = 1
      /\ query.rules[1] = SolveRule(direct_inverse_rule_, FALSE)
  BY <1>1
<1>3. /\ query.rules[1].adds = direct_inverse_rule_
      /\ ~query.rules[1].once /\ ~query.rules[1].batch
      /\ \A u \in Uses : query.rules[1].stop[u]
  BY <1>2 DEF SolveRule
<1>4. 1 .. 1 = {1} /\ ~(1 > 1)
  OBVIOUS
<1>5. ASSUME NEW u \in Uses PROVE Tried(u) = {1}
  <2>1. Tried(u) =
          {i \in {1} :
             /\ ~query.rules[i].once
             /\ \A j \in {1} : (j > i /\ ~query.rules[j].once) => ~query.rules[j].stop[u]}
    BY <1>2, <1>4 DEF Tried
  <2>2. QED BY <1>3, <1>4, <2>1
<1>6. ASSUME NEW u \in Uses PROVE Expand(u) = UsesOf(u)
  <2>1. Expand(u) = Range(direct_inverse_rule_[u])
    BY <1>3, <1>5 DEF Expand
  <2>2. QED BY <2>1, DirectLists
<1>7. Seeds = UsesOf(0)
  BY <1>1, ImplicitLists DEF Seeds
<1>8. QED BY <1>2, <1>3, <1>6, <1>7

----------------------------------------------------------------------------
(***************************************************************************)
(* Every use is listed once.                                               *)
(***************************************************************************)
LEMMA PopOnce ==
  ASSUME NEW s \in Seq(Uses), s # <<>>, Once(s)
  PROVE  Once(Tail(s)) /\ Head(s) \notin Range(Tail(s))
<1>1. Len(s) \in Nat /\ Len(s) > 0 /\ Head(s) = s[1]
  OBVIOUS
<1>2. PICK n : n = Len(s)
  OBVIOUS
<1>3. /\ Len(Tail(s)) = n - 1 /\ DOMAIN Tail(s) = 1 .. n - 1
      /\ \A i \in 1 .. n - 1 : Tail(s)[i] = s[i + 1]
  BY <1>1, <1>2
<1>4. \A i \in 1 .. n - 1 : i + 1 \in 1 .. n /\ i + 1 # 1
  BY <1>1, <1>2
<1>5. ASSUME NEW j \in 1 .. n - 1, NEW k \in 1 .. n - 1, Tail(s)[j] = Tail(s)[k]
      PROVE  j = k
  <2>1. s[j + 1] = s[k + 1]
    BY <1>3, <1>5
  <2>2. j + 1 = k + 1
    BY <1>2, <1>4, <2>1 DEF Once
  <2>3. QED BY <1>1, <1>2, <2>2
<1>6. ASSUME NEW i \in 1 .. n - 1 PROVE Tail(s)[i] # Head(s)
  <2>1. 1 \in 1 .. n
    BY <1>1, <1>2
  <2>2. s[i + 1] # s[1]
    BY <1>2, <1>4, <2>1 DEF Once
  <2>3. QED BY <1>1, <1>3, <2>2
<1>7. QED BY <1>3, <1>5, <1>6 DEF Once, Range

LEMMA PushOnce ==
  ASSUME NEW s \in Seq(Uses), NEW c \in Uses, Once(s), c \notin Range(s)
  PROVE  Once(Append(s, c))
<1>1. PICK n : n = Len(s)
  OBVIOUS
<1>2. /\ n \in Nat /\ DOMAIN s = 1 .. n /\ Len(Append(s, c)) = n + 1
      /\ \A i \in 1 .. n : Append(s, c)[i] = s[i]
      /\ Append(s, c)[n + 1] = c
  BY <1>1
<1>3. \A i \in 1 .. n + 1 : i \in 1 .. n \/ i = n + 1
  BY <1>2
<1>4. \A i \in 1 .. n : s[i] # c
  BY <1>2 DEF Range
<1>5. \A j, k \in 1 .. n : s[j] = s[k] => j = k
  BY <1>1 DEF Once
<1>6. \A j, k \in 1 .. n + 1 : Append(s, c)[j] = Append(s, c)[k] => j = k
  BY <1>2, <1>3, <1>4, <1>5
<1>7. QED BY <1>2, <1>6 DEF Once

(***************************************************************************)
(* What the rules give: uses of the pointer the search starts from, or of  *)
(* the value of the use that is solved.                                    *)
(***************************************************************************)
LEMMA GivingIs ==
  ASSUME FunctionIs, QueryIs, cur \in Uses,
         First => stage # "global" /\ cur = query.root
  PROVE  /\ Giving \in Seq(Uses) /\ Once(Giving)
         /\ Range(Giving) \subseteq UsesOf(IF First THEN Origin ELSE cur)
<1>1. CASE First
  <2>1. query.rules = FlatRules /\ Origin = prog[cur].ptr
    BY <1>1, FlatQuery
  <2>2. Giving = use_inverse_rule_[cur]
    BY <1>1, <2>1, RulesAre DEF Giving
  <2>3. QED BY <1>1, <2>1, <2>2, InverseLists
<1>2. CASE ~First
  <2>1. query.rules[1].adds = direct_inverse_rule_
    BY FlatQuery, RulesAre, GlobalPaths
  <2>2. Giving = direct_inverse_rule_[cur]
    BY <1>2, <2>1 DEF Giving
  <2>3. QED BY <1>2, <2>2, DirectLists
<1>3. QED BY <1>1, <1>2

LEMMA RuleNow ==
  ASSUME FunctionIs, QueryIs, SearchInv, ListedOnce, pc = "rules", rule > 0
  PROVE  /\ cur \in Uses /\ (First => stage # "global" /\ cur = query.root)
         /\ Runs => /\ Current.adds[cur] = Giving
                    /\ Current.stop[cur] /\ ~Current.batch
         /\ First => Runs
<1>1. /\ TypeOK /\ NoNullUse /\ Control /\ InitRuleRuns /\ cur \in Uses
      /\ rule \in 1 .. Len(query.rules)
  <2>1. TypeOK /\ NoNullUse /\ Control /\ InitRuleRuns
    BY DEF SearchInv
  <2>2. rule \in 0 .. Len(query.rules) /\ query \in Query
    BY <2>1 DEF TypeOK
  <2>3. Len(query.rules) \in Nat
    BY <2>2, RuleTypes
  <2>4. rule \in 1 .. Len(query.rules)
    BY <2>2, <2>3
  <2>5. QED BY <2>1, <2>4 DEF NoNullUse
<1>2. First => stage # "global" /\ cur = query.root /\ rule = 2
  <2>1. First => stage # "global" /\ rule \in {0, 2}
    BY DEF ListedOnce
  <2>2. First => cur = query.root
    BY <1>1 DEF Control, First
  <2>3. rule # 0
    BY <1>1
  <2>4. QED BY <2>1, <2>2, <2>3
<1>3. CASE stage # "global"
  <2>1. /\ Len(query.rules) = 2 /\ query.rules[2].once /\ ~query.rules[1].once
        /\ \A u \in Uses : query.rules[1].stop[u] /\ query.rules[2].stop[u]
        /\ ~query.rules[1].batch /\ ~query.rules[2].batch
    BY <1>3, FlatQuery, RulesAre
  <2>2. rule = 1 \/ rule = 2
    BY <1>1, <2>1
  <2>3. 2 \in 1 .. 2 /\ 2 \in 1 .. Len(query.rules)
    BY <2>1
  <2>4. First => ~ran[2]
    BY <1>1, <1>2, <2>1, <2>3 DEF InitRuleRuns
  <2>5. ~First => ran[2]
    BY <1>1, <2>1, <2>3 DEF InitRuleRuns
  <2>6. Runs => (rule = 2 <=> First)
    BY <1>2, <2>1, <2>2, <2>5 DEF Runs, Current
  <2>7. First => Runs
    BY <1>1, <1>2, <2>4 DEF Runs
  <2>8. Runs => Current.adds[cur] = Giving
    BY <2>2, <2>6 DEF Giving, Current
  <2>9. QED BY <1>1, <1>2, <2>1, <2>2, <2>7, <2>8 DEF Current
<1>4. CASE stage = "global"
  <2>1. /\ Len(query.rules) = 1 /\ ~query.rules[1].batch
        /\ \A u \in Uses : query.rules[1].stop[u]
    BY <1>4, GlobalPaths
  <2>2. rule = 1 /\ ~First
    BY <1>1, <1>2, <1>4, <2>1
  <2>3. QED BY <1>1, <2>1, <2>2 DEF Giving, Current
<1>5. QED BY <1>3, <1>4

LEMMA UsesAreFinite ==
  /\ N \in Nat /\ Uses = 1 .. N /\ IsFiniteSet(Uses) /\ Cardinality(Uses) = N
  /\ \A S \in SUBSET Uses : /\ IsFiniteSet(S) /\ Cardinality(S) \in Nat
                            /\ Cardinality(S) <= N
<1>1. N \in Nat /\ Uses = 1 .. N
  BY NAssumption
<1>2. IsFiniteSet(1 .. N) /\ Cardinality(1 .. N) = IF 1 > N THEN 0 ELSE N - 1 + 1
  BY <1>1, FS_Interval
<1>3. IsFiniteSet(Uses) /\ Cardinality(Uses) = N
  <2>1. PICK c : c = Cardinality(1 .. N)
    OBVIOUS
  <2>2. c = N
    BY <1>1, <1>2, <2>1
  <2>3. QED BY <1>1, <1>2, <2>1, <2>2
<1>4. ASSUME NEW S \in SUBSET Uses
      PROVE  /\ IsFiniteSet(S) /\ Cardinality(S) \in Nat /\ Cardinality(S) <= N
  <2>1. IsFiniteSet(S) /\ Cardinality(S) <= Cardinality(Uses)
    BY <1>3, FS_Subset
  <2>2. QED BY <1>3, <2>1, FS_CardinalityType
<1>5. QED BY <1>1, <1>3, <1>4

(* one more use is taken from the list; there are never too many *)
LEMMA OneMore ==
  ASSUME FunctionIs, QueryIs, SearchInv, ListedOnce, pc = "pop", unsolved # <<>>,
         NEW u \in Uses, u = Head(unsolved)
  PROVE  /\ u \in Listed \ Popped
         /\ Once(Tail(unsolved)) /\ Tail(unsolved) \in Seq(Uses)
         /\ u \notin Range(Tail(unsolved)) /\ Range(Tail(unsolved)) \subseteq Range(unsolved)
         /\ Popped \cup {u} \subseteq Listed
         /\ iteration + 1 = Cardinality(Popped \cup {u})
         /\ ~Exceeded(iteration + 1)
<1>1. /\ unsolved \in Seq(Uses) /\ asked \in SUBSET Uses /\ Once(unsolved)
      /\ Range(unsolved) \cap Popped = {} /\ iteration = Cardinality(Popped)
  BY DEF SearchInv, TypeOK, ListedOnce
<1>2. u \in Range(unsolved)
  <2>1. 1 \in DOMAIN unsolved /\ u = unsolved[1]
    BY <1>1
  <2>2. QED BY <2>1 DEF Range
<1>3. Popped \in SUBSET Uses /\ u \notin Popped
  BY <1>1, <1>2 DEF Popped
<1>4. PICK m : m = Cardinality(Popped)
  OBVIOUS
<1>5. IsFiniteSet(Popped) /\ m \in Nat
  BY <1>3, <1>4, UsesAreFinite
<1>6. Cardinality(Popped \cup {u}) = m + 1
  BY <1>3, <1>4, <1>5, FS_AddElement
<1>7. Popped \cup {u} \in SUBSET Uses
  BY <1>3
<1>8. m + 1 <= N /\ N \in Nat
  BY <1>6, <1>7, UsesAreFinite
<1>9. ~Exceeded(iteration + 1)
  <2>1. query.max_iteration = UINT32_MAX
    BY FlatQuery, GlobalQuery
  <2>2. ~(m + 1 > UINT32_MAX)
    BY <1>5, <1>8, LimitAssumption
  <2>3. QED BY <1>1, <1>4, <2>1, <2>2 DEF Exceeded
<1>10. QED
  BY <1>1, <1>2, <1>3, <1>4, <1>6, <1>9, PopOnce, PopElements DEF Listed

LEMMA TakenKeepsListedOnce ==
  ASSUME FunctionIs, QueryIs, SearchInv, ListedOnce, UNCHANGED <<prog, stage>>,
         NEW u \in Uses, Filtered(u) \/ Stopped(u) \/ Accepted(u)
  PROVE  ListedOnce'
<1>1. /\ Pop(u) /\ pc = "pop" /\ unsolved # <<>> /\ u = Head(unsolved)
      /\ unsolved' = Tail(unsolved) /\ iteration' = iteration + 1 /\ query' = query
  BY DEF Filtered, Stopped, Accepted, Pop
<1>2. /\ u \in Listed \ Popped
      /\ Once(Tail(unsolved)) /\ u \notin Range(Tail(unsolved))
      /\ Range(Tail(unsolved)) \subseteq Range(unsolved)
      /\ iteration + 1 = Cardinality(Popped \cup {u})
  BY <1>1, OneMore
<1>3. /\ Range(unsolved) \cap Popped = {}
      /\ \A v \in Listed : v > Origin /\ (prog[v].ptr = Origin \/ prog[v].ptr \in asked)
  BY <1>1 DEF ListedOnce
<1>4. flags \in [Nodes -> FlagType] /\ Uses \subseteq Nodes
  BY DEF SearchInv, TypeOK, Nodes
<1>5. Origin' = Origin
  BY <1>1 DEF Origin
<1>6. Popped' = Popped \cup {u}
  BY <1>1, <1>4 DEF Popped, Filtered, Stopped, Accepted, Mark
<1>7. asked \subseteq asked'
  BY DEF Filtered, Stopped, Accepted
<1>8. Listed' \subseteq Listed
  BY <1>1, <1>2, <1>6 DEF Listed
<1>9. \A v \in Listed' : v > Origin' /\ (prog'[v].ptr = Origin' \/ prog'[v].ptr \in asked')
  BY <1>3, <1>5, <1>7, <1>8
<1>10. Range(unsolved') \cap Popped' = {} /\ iteration' = Cardinality(Popped')
  BY <1>1, <1>2, <1>3, <1>6
<1>11. ~First'
  BY <1>1 DEF First, Filtered, Stopped, Accepted, StartRules
<1>12. ASSUME pc' = "rules" PROVE Coming' \cap Listed' = {}
  <2>1. Accepted(u) /\ cur' = u
    BY <1>1, <1>12 DEF Filtered, Stopped, Accepted, StartRules
  <2>2. Giving' = query.rules[1].adds[u]
    BY <1>1, <1>11, <2>1 DEF Giving
  <2>3. query.rules[1].adds = direct_inverse_rule_
    BY FlatQuery, RulesAre, GlobalPaths
  <2>4. /\ direct_inverse_rule_[u] \in Seq(Uses)
        /\ Range(direct_inverse_rule_[u]) = UsesOf(u)
    BY DirectLists
  <2>5. kid' = 0
    BY <2>1 DEF Accepted, StartRules
  <2>6. Coming' \subseteq UsesOf(u)
    <3>1. PICK g : g = direct_inverse_rule_[u]
      OBVIOUS
    <3>2. g \in Seq(Uses) /\ Range(g) = UsesOf(u) /\ Giving' = g
      BY <2>2, <2>3, <2>4, <3>1
    <3>3. \A k \in 0 + 1 .. Len(g) : g[k] \in Range(g)
      BY <3>2 DEF Range
    <3>4. QED BY <2>5, <3>2, <3>3 DEF Coming
  <2>7. ASSUME NEW v \in Listed, v \in UsesOf(u) PROVE FALSE
    <3>1. prog[v].ptr = u
      BY <2>7 DEF UsesOf
    <3>2. u > Origin /\ u \in Int
      BY <1>2, <1>3, UsesAreFinite
    <3>3. u # Origin
      BY <3>2
    <3>4. u \in asked
      BY <1>3, <2>7, <3>1, <3>3
    <3>5. QED BY <1>2, <3>4 DEF Popped
  <2>8. QED BY <1>8, <2>6, <2>7
<1>13. QED
  BY <1>1, <1>2, <1>9, <1>10, <1>11, <1>12 DEF ListedOnce

LEMMA AddedKeepsListedOnce ==
  ASSUME FunctionIs, QueryIs, SearchInv, ListedOnce, UNCHANGED <<prog, stage>>,
         AddSolved
  PROVE  ListedOnce'
<1>1. /\ TypeOK /\ unsolved \in Seq(Uses) /\ flags \in [Nodes -> FlagType]
      /\ Uses \subseteq Nodes /\ kid \in Nat /\ asked \in SUBSET Uses
  BY DEF SearchInv, TypeOK, Nodes
<1>2. pc = "rules" /\ rule > 0 /\ Runs /\ rule \in Nat
  <2>1. rule \in 0 .. Len(query.rules)
    BY <1>1 DEF TypeOK
  <2>2. QED BY <2>1 DEF AddSolved, Runs
<1>3. /\ cur \in Uses /\ (First => stage # "global" /\ cur = query.root)
      /\ Current.adds[cur] = Giving /\ ~Current.batch
  BY <1>2, RuleNow
<1>4. /\ Giving \in Seq(Uses) /\ Once(Giving)
      /\ Range(Giving) \subseteq UsesOf(IF First THEN Origin ELSE cur)
  BY <1>3, GivingIs
<1>5. PICK g : g = Giving
  OBVIOUS
<1>6. PICK n : n = kid
  OBVIOUS
<1>7. /\ n \in Nat /\ g \in Seq(Uses) /\ Len(g) \in Nat /\ n + 1 \in 1 .. Len(g)
  BY <1>1, <1>3, <1>4, <1>5, <1>6 DEF AddSolved
<1>8. PICK c : c = g[n + 1]
  OBVIOUS
<1>9. c \in Uses /\ c \in UsesOf(IF First THEN Origin ELSE cur)
  <2>1. c \in Range(g) /\ c \in Uses
    BY <1>7, <1>8 DEF Range
  <2>2. QED BY <1>4, <1>5, <2>1
<1>10. /\ unsolved' = IF flags[c] = "UNSOLVED" THEN Append(unsolved, c) ELSE unsolved
       /\ flags' = [flags EXCEPT ![cur] = "SOLVED"] /\ kid' = n + 1
       /\ UNCHANGED <<query, iteration, pc, cur, rule, asked>>
  BY <1>3, <1>5, <1>6, <1>8 DEF AddSolved, Push, Mark
<1>11. /\ Once(unsolved) /\ Range(unsolved) \cap Popped = {}
       /\ \A v \in Listed : v > Origin /\ (prog[v].ptr = Origin \/ prog[v].ptr \in asked)
       /\ iteration = Cardinality(Popped)
       /\ First => rule \in {0, 2} /\ stage # "global" /\ iteration = 0 /\ Popped = {}
       /\ Coming \cap Listed = {}
  BY <1>2 DEF ListedOnce
<1>12. First' = First /\ Origin' = Origin /\ Giving' = g
  BY <1>5, <1>10 DEF First, Origin, Giving
<1>13. Popped' = Popped
  <2>1. cur \in asked \/ Popped = {}
    BY <1>2, <1>11 DEF First
  <2>2. \A v \in Uses : flags'[v] = IF v = cur THEN "SOLVED" ELSE flags[v]
    BY <1>1, <1>3, <1>10
  <2>3. QED BY <1>10, <2>1, <2>2 DEF Popped
<1>14. c \in Coming
  <2>1. n + 1 \in n + 1 .. Len(g)
    BY <1>7
  <2>2. QED BY <1>5, <1>6, <1>8, <2>1 DEF Coming
<1>15. c \notin Range(unsolved) /\ c \notin Popped
  BY <1>11, <1>14 DEF Listed
<1>16. Once(unsolved') /\ Range(unsolved') \subseteq Range(unsolved) \cup {c}
  BY <1>1, <1>9, <1>10, <1>11, <1>15, PushOnce, PushElements
<1>17. Listed' \subseteq Listed \cup {c}
  BY <1>13, <1>16 DEF Listed
<1>18. c > Origin /\ (prog[c].ptr = Origin \/ prog[c].ptr \in asked)
  <2>1. prog[c].ptr < c /\ c \in Int
    BY <1>9, UsesAreFinite DEF FunctionIs
  <2>2. CASE First
    BY <1>9, <2>1, <2>2 DEF UsesOf
  <2>3. CASE ~First
    <3>1. cur \in asked /\ prog[c].ptr = cur
      BY <1>2, <1>9, <2>3 DEF First, UsesOf
    <3>2. cur > Origin /\ cur \in Int
      BY <1>3, <1>11, <3>1, UsesAreFinite DEF Listed, Popped
    <3>3. Origin \in Int
      <4>1. \A v \in Uses : prog[v].ptr \in Int
        BY UsesAreFinite DEF FunctionIs, Instruction
      <4>2. CASE stage # "global"
        BY <4>1, <4>2, FlatQuery
      <4>3. CASE stage = "global"
        BY <4>3, GlobalQuery
      <4>4. QED BY <4>2, <4>3
    <3>4. QED BY <2>1, <3>1, <3>2, <3>3
  <2>4. QED BY <2>2, <2>3
<1>19. \A v \in Listed' : v > Origin' /\ (prog'[v].ptr = Origin' \/ prog'[v].ptr \in asked')
  BY <1>10, <1>11, <1>12, <1>17, <1>18
<1>20. Range(unsolved') \cap Popped' = {}
  BY <1>11, <1>13, <1>15, <1>16
<1>21. Coming' \cap Listed' = {}
  <2>1. Coming' = {g[k] : k \in n + 2 .. Len(g)}
    <3>1. Coming' = {g[k] : k \in n + 1 + 1 .. Len(g)}
      BY <1>10, <1>12 DEF Coming
    <3>2. n + 1 + 1 = n + 2
      BY <1>7
    <3>3. QED BY <3>1, <3>2
  <2>2. \A k \in n + 2 .. Len(g) : k \in 1 .. Len(g) /\ k # n + 1 /\ k \in n + 1 .. Len(g)
    BY <1>7
  <2>3. \A k \in n + 2 .. Len(g) : g[k] # c
    BY <1>4, <1>5, <1>7, <1>8, <2>2 DEF Once
  <2>4. \A k \in n + 2 .. Len(g) : g[k] \in Coming
    BY <1>5, <1>6, <2>2 DEF Coming
  <2>5. QED BY <1>11, <1>17, <2>1, <2>3, <2>4
<1>22. QED
  BY <1>2, <1>10, <1>11, <1>12, <1>13, <1>16, <1>19, <1>20, <1>21 DEF ListedOnce

LEMMA RootKeepsListedOnce ==
  ASSUME FunctionIs, QueryIs, SearchInv, UNCHANGED <<prog, stage>>,
         SolveRootUse \/ SolveRootValue
  PROVE  ListedOnce'
<1>1. /\ TypeOK /\ NoNullUse /\ Control /\ Uses \subseteq Nodes
      /\ flags \in [Nodes -> FlagType] /\ pc = "root"
  BY DEF SearchInv, TypeOK, Nodes, SolveRootUse, SolveRootValue
<1>2. /\ asked = {} /\ iteration = 0 /\ \A v \in Uses : flags[v] = "UNSOLVED"
      /\ asked' = asked /\ iteration' = iteration /\ query' = query
  BY <1>1 DEF Control, SolveRootUse, SolveRootValue
<1>3. \A v \in Uses : flags'[v] = flags[v]
  BY <1>1, NodesAssumption DEF SolveRootUse, SolveRootValue, Mark, Nodes
<1>4. Popped' = {}
  BY <1>2, <1>3 DEF Popped
<1>5. iteration' = Cardinality(Popped')
  BY <1>2, <1>4, FS_EmptySet
<1>6. Origin' = Origin
  BY <1>2 DEF Origin
<1>7. CASE SolveRootUse
  <2>1. unsolved' = <<>>
    <3>1. PICK r : r = query.root
      OBVIOUS
    <3>2. unsolved = <<r>> /\ unsolved' = Tail(unsolved)
      BY <1>1, <1>7, <3>1 DEF NoNullUse, SolveRootUse
    <3>3. Tail(<<r>>) = <<>>
      OBVIOUS
    <3>4. QED BY <3>2, <3>3
  <2>2. Once(unsolved') /\ Range(unsolved') = {}
    BY <2>1 DEF Once, Range
  <2>3. Listed' = {}
    BY <1>4, <2>2 DEF Listed
  <2>4. stage # "global"
    BY <1>7, GlobalQuery DEF SolveRootUse
  <2>5. rule' = 2
    BY <1>7, <2>4, FlatQuery, RulesAre DEF SolveRootUse, StartRules
  <2>6. QED BY <1>2, <1>4, <1>5, <2>2, <2>3, <2>4, <2>5 DEF ListedOnce
<1>8. CASE SolveRootValue
  <2>1. stage = "global"
    BY <1>8, NodesAssumption, FlatQuery DEF SolveRootValue
  <2>2. unsolved' = implicity_inverse_rule /\ Origin = 0 /\ pc' = "pop"
    BY <1>8, <2>1, GlobalQuery DEF SolveRootValue
  <2>3. Once(unsolved') /\ Range(unsolved') = UsesOf(0)
    BY <2>2, ImplicitLists
  <2>4. Listed' = UsesOf(0)
    BY <1>4, <2>3 DEF Listed
  <2>5. \A v \in UsesOf(0) : v > 0 /\ prog[v].ptr = 0
    BY UsesAreFinite DEF UsesOf
  <2>6. \A v \in Listed' : v > Origin' /\ prog'[v].ptr = Origin'
    BY <1>6, <2>2, <2>4, <2>5
  <2>7. ~First'
    BY <2>2 DEF First
  <2>8. QED BY <1>4, <1>5, <2>2, <2>3, <2>6, <2>7 DEF ListedOnce
<1>9. QED BY <1>7, <1>8

LEMMA OthersKeepListedOnce ==
  ASSUME FunctionIs, QueryIs, SearchInv, ListedOnce, UNCHANGED <<prog, stage>>,
         SkipRule \/ EndRule \/ EndRules \/ Drained \/ UNCHANGED vars
  PROVE  ListedOnce'
<1>1. UNCHANGED <<query, unsolved, iteration, cur, asked>>
  BY DEF SkipRule, EndRule, EndRules, Drained, vars, graph
<1>2. flags' = flags
  <2>1. CASE EndRule
    <3>1. pc = "rules" /\ Runs /\ rule > 0
      BY <2>1 DEF EndRule, Runs
    <3>2. ~Current.batch
      BY <3>1, RuleNow
    <3>3. QED BY <2>1, <3>2 DEF EndRule
  <2>2. QED BY <2>1 DEF SkipRule, EndRules, Drained, vars, graph
<1>3. Popped' = Popped /\ Origin' = Origin /\ Listed' = Listed
  BY <1>1, <1>2 DEF Popped, Origin, Listed
<1>4. CASE UNCHANGED vars
  BY <1>1, <1>3, <1>4 DEF ListedOnce, First, Coming, Giving, vars
<1>5. CASE EndRules \/ Drained
  BY <1>1, <1>3, <1>5 DEF ListedOnce, First, EndRules, Drained
<1>6. CASE EndRule
  <2>1. pc = "rules" /\ Runs /\ rule > 0 /\ pc' = pc
    BY <1>6 DEF EndRule, Runs
  <2>2. Current.stop[cur]
    BY <2>1, RuleNow
  <2>3. rule' = 0
    BY <1>6, <2>2 DEF EndRule
  <2>4. QED BY <1>1, <1>3, <2>1, <2>3 DEF ListedOnce, First
<1>7. CASE SkipRule
  <2>1. pc = "rules" /\ ~Runs /\ rule > 0 /\ pc' = pc /\ kid' = kid
    BY <1>7 DEF SkipRule
  <2>2. ~First /\ First' = First
    BY <1>1, <2>1, RuleNow DEF First
  <2>3. Giving' = Giving /\ Coming' = Coming
    BY <1>1, <2>1, <2>2 DEF Giving, Coming
  <2>4. QED BY <1>1, <1>3, <2>1, <2>2, <2>3 DEF ListedOnce
<1>8. QED BY <1>4, <1>5, <1>6, <1>7

LEMMA ListedOnceKept ==
  ASSUME FunctionIs, QueryIs, SearchInv, ListedOnce, UNCHANGED <<prog, stage>>,
         [Next]_vars
  PROVE  ListedOnce'
<1>1. ASSUME NEW u \in Uses, GiveUp(u) PROVE FALSE
  <2>1. pc = "pop" /\ unsolved # <<>> /\ u = Head(unsolved) /\ Exceeded(iteration + 1)
    BY <1>1 DEF GiveUp, Pop, Exceeded
  <2>2. QED BY <2>1, OneMore
<1>2. CASE SolveRootUse \/ SolveRootValue
  BY <1>2, RootKeepsListedOnce
<1>3. ASSUME NEW u \in Uses, Filtered(u) \/ Stopped(u) \/ Accepted(u) PROVE ListedOnce'
  BY <1>3, TakenKeepsListedOnce
<1>4. CASE AddSolved
  BY <1>4, AddedKeepsListedOnce
<1>5. CASE SkipRule \/ EndRule \/ EndRules \/ Drained \/ UNCHANGED vars
  BY <1>5, OthersKeepListedOnce
<1>6. QED BY <1>1, <1>2, <1>3, <1>4, <1>5 DEF Next

(* the limit on the iterations is never met *)
LEMMA NotExceeded ==
  ASSUME FunctionIs, QueryIs, SearchInv, ListedOnce
  PROVE  ~Exceeded(iteration)
<1>1. query.max_iteration = UINT32_MAX /\ N \in Nat
  BY FlatQuery, GlobalQuery, UsesAreFinite
<1>2. UINT32_MAX \in Nat /\ N <= UINT32_MAX
  BY LimitAssumption
<1>3. CASE pc = "root"
  <2>1. iteration = 0
    BY <1>3 DEF SearchInv, Control
  <2>2. QED BY <1>1, <1>2, <2>1 DEF Exceeded
<1>4. CASE pc # "root"
  <2>1. iteration = Cardinality(Popped) /\ Popped \in SUBSET Uses
    BY <1>4 DEF SearchInv, TypeOK, ListedOnce, Popped
  <2>2. iteration \in Nat /\ iteration <= N
    BY <2>1, UsesAreFinite
  <2>3. QED BY <1>1, <1>2, <2>2 DEF Exceeded
<1>5. QED BY <1>3, <1>4

----------------------------------------------------------------------------
(***************************************************************************)
(* The invariant, step by step.                                            *)
(***************************************************************************)
LEMMA QueriesStay ==
  ASSUME UNCHANGED <<base, prog, store>>
  PROVE  /\ AskDirect' = AskDirect /\ AskBehind' = AskBehind /\ AskGlobal' = AskGlobal
         /\ IsGlobal' = IsGlobal /\ Pointer' = Pointer
         /\ FunctionIs' = FunctionIs
         /\ \A v : UsesOf(v)' = UsesOf(v)
         /\ (iUseFilter \cup exclude)' = iUseFilter \cup exclude
         /\ Visits' = Visits
<1>1. \A v : UsesOf(v)' = UsesOf(v) /\ isGEP(v)' = isGEP(v)
  BY DEF UsesOf, isGEP
<1>2. Pointer' = Pointer /\ Visits' = Visits /\ IsGlobal' = IsGlobal
  BY DEF Pointer, Visits, IsGlobal, isGEP
<1>3. direct_inverse_rule_' = direct_inverse_rule_
  BY <1>1 DEF direct_inverse_rule_
<1>4. use_inverse_rule_' = use_inverse_rule_
  BY <1>1 DEF use_inverse_rule_
<1>5. implicity_inverse_rule' = implicity_inverse_rule
  BY <1>1 DEF implicity_inverse_rule
<1>6. ConstantExpr' = ConstantExpr
  BY DEF ConstantExpr
<1>7. \A v : Inst(v)' = Inst(v)
  BY <1>6 DEF Inst
<1>8. iUseFilter' = iUseFilter /\ exclude' = exclude
  BY <1>1, <1>7 DEF iUseFilter, exclude
<1>9. CGFilter' = CGFilter
  BY <1>7 DEF CGFilter
<1>10. GEPFilter(Pointer)' = GEPFilter(Pointer) /\ isGEP(Pointer)' = isGEP(Pointer)
  BY <1>1, <1>2 DEF GEPFilter, isGEP, Pointer
<1>11. FlatRules' = FlatRules
  BY <1>3, <1>4 DEF FlatRules, SolveRule
<1>12. AskDirect' = AskDirect
  BY <1>2, <1>8, <1>11 DEF AskDirect, Ask
<1>13. AskBehind' = AskBehind
  BY <1>2, <1>8, <1>10, <1>11 DEF AskBehind, Ask
<1>14. AskGlobal' = AskGlobal
  BY <1>2, <1>3, <1>5, <1>9, <1>10 DEF AskGlobal, Ask, SolveRule
<1>15. FunctionIs' = FunctionIs
  BY DEF FunctionIs
<1>16. QED
  BY <1>1, <1>2, <1>8, <1>12, <1>13, <1>14, <1>15

LEMMA InitStoreInv == StoreInit => StoreInv
<1>1. SUFFICES ASSUME StoreInit PROVE StoreInv
  OBVIOUS
<1>2. FunctionIs
  <2>1. PICK i \in Uses : prog[i].op = "store" /\ \A j \in Uses : prog[j].op = "store" => j = i
    BY <1>1 DEF StoreInit, Programs
  <2>2. store = i
    BY <1>1, <2>1 DEF StoreInit
  <2>3. QED BY <1>1, <2>1, <2>2 DEF StoreInit, Programs, FunctionIs
<1>3. QueryIs
  BY <1>1 DEF StoreInit, QueryIs
<1>4. SearchInv
  <2>1. query \in Query /\ WellFormed(query)
    BY <1>2, <1>3, QueryIsGood
  <2>2. Init
    BY <1>1, <2>1 DEF StoreInit, Init
  <2>3. QED BY <2>2, InitSearchInv
<1>5. ListedOnce /\ stage # "behind" /\ verdict = "open"
  BY <1>1 DEF StoreInit, Start, ListedOnce
<1>6. QED BY <1>2, <1>3, <1>4, <1>5 DEF StoreInv

LEMMA SearchKeepsStoreInv == StoreInv /\ Search => StoreInv'
<1>1. SUFFICES ASSUME StoreInv, Search PROVE StoreInv'
  OBVIOUS
<1>2. Next /\ UNCHANGED <<base, prog, store, stage, verdict>>
  BY <1>1 DEF Search, storeVars
<1>3. FunctionIs /\ QueryIs /\ SearchInv /\ ListedOnce
  BY <1>1 DEF StoreInv
<1>4. FunctionIs'
  BY <1>2, <1>3, QueriesStay
<1>5. query' = query
  BY <1>2, QueryStays
<1>6. QueryIs'
  BY <1>2, <1>3, <1>5, QueriesStay DEF QueryIs
<1>7. SearchInv'
  BY <1>2, <1>3, NextSearchInv
<1>8. ListedOnce'
  BY <1>2, <1>3, ListedOnceKept
<1>9. stage' = "behind" => DirectClear'
  <2>1. stage' = "behind" => DirectClear
    BY <1>1, <1>2 DEF StoreInv
  <2>2. DirectClear => DirectClear'
    BY <1>2, QueriesStay DEF DirectClear
  <2>3. QED BY <2>1, <2>2
<1>10. pc # "done"
  BY <1>2 DEF Next, SolveRootUse, SolveRootValue, Filtered, Stopped, Accepted,
     GiveUp, Pop, SkipRule, AddSolved, EndRule, EndRules, Drained
<1>11. verdict' # "IsDeletable"
  BY <1>1, <1>2, <1>10 DEF StoreInv
<1>12. QED BY <1>4, <1>6, <1>7, <1>8, <1>9, <1>11 DEF StoreInv

(***************************************************************************)
(* A search that ended with nothing found has been everywhere.             *)
(***************************************************************************)
LEMMA NothingFound ==
  ASSUME FunctionIs, QueryIs, SearchInv, ListedOnce, pc = "done", ret = None
  PROVE  /\ asked \subseteq Uses
         /\ Seeds \ (query.refused \cup {query.root}) \subseteq asked
         /\ \A v \in asked :
              UsesOf(v) \ (query.refused \cup {query.root}) \subseteq asked
         /\ asked \cap Visits = {}
<1>1. ~Exceeded(iteration)
  BY NotExceeded
<1>2. asked \subseteq Uses /\ unsolved = <<>> /\ asked \cap Wanted = {}
  BY <1>1 DEF SearchInv, TypeOK, Control
<1>3. Covered = asked \cup query.refused \cup {query.root}
  BY <1>2 DEF Covered, Range
<1>4. Seeds \subseteq Covered /\ \A v \in asked : Expand(v) \subseteq Covered
  BY <1>1 DEF SearchInv, NothingForgotten
<1>5. \A v \in asked : Expand(v) = UsesOf(v)
  BY <1>2, FlatPaths, GlobalPaths
<1>6. query.visits = Visits /\ query.callback = "visit"
  BY FlatQuery, GlobalQuery
<1>7. Wanted = Visits
  BY <1>6 DEF Wanted
<1>8. QED BY <1>2, <1>3, <1>4, <1>5, <1>7

LEMMA BehindKeepsStoreInv == StoreInv /\ Behind => StoreInv'
<1>1. SUFFICES ASSUME StoreInv, Behind PROVE StoreInv'
  OBVIOUS
<1>2. /\ pc = "done" /\ verdict = "open" /\ ret = None /\ stage = "direct"
      /\ Pointer # 0 /\ stage' = "behind"
      /\ UNCHANGED <<base, prog, store, verdict>> /\ Resolve(AskBehind)
  BY <1>1 DEF Behind
<1>3. FunctionIs /\ QueryIs /\ SearchInv /\ ListedOnce
  BY <1>1 DEF StoreInv
<1>4. FunctionIs' /\ QueryIs'
  BY <1>2, <1>3, QueriesStay DEF QueryIs, Resolve
<1>5. ListedOnce'
  BY <1>2 DEF ListedOnce, Resolve
<1>6. SearchInv'
  <2>1. query' = AskBehind /\ Pointer \in Uses
    BY <1>2, <1>3, UsesAreFinite DEF Resolve, FunctionIs, Pointer, Instruction
  <2>2. query' \in Query /\ WellFormed(query')
    <3>1. (query \in Query /\ WellFormed(query))'
      BY <1>4, QueryIsGood, PTL
    <3>2. QED BY <3>1 DEF Query, WellFormed
  <2>3. query'.root \in Uses
    BY <2>1 DEF AskBehind, Ask
  <2>4. Start'
    BY <1>2, <2>1, <2>3 DEF Resolve, Start, AskBehind, Ask
  <2>5. Init'
    BY <2>2, <2>4 DEF Init
  <2>6. (Init => SearchInv)'
    BY InitSearchInv, PTL
  <2>7. QED BY <2>5, <2>6
<1>7. DirectClear
  <2>1. /\ query.root = store /\ query.refused = iUseFilter \cup exclude
        /\ Origin = Pointer
    BY <1>2, <1>3, FlatQuery DEF Pointer
  <2>2. query.refused \cup {query.root} = iUseFilter \cup exclude
    BY <2>1 DEF exclude
  <2>3. /\ asked \in SUBSET Uses
        /\ Seeds \ (iUseFilter \cup exclude) \subseteq asked
        /\ \A v \in asked : UsesOf(v) \ (iUseFilter \cup exclude) \subseteq asked
        /\ asked \cap Visits = {}
    BY <1>2, <1>3, <2>2, NothingFound
  <2>4. Seeds = {i \in UsesOf(Pointer) : i > store \/ isGEP(i)}
    BY <1>2, <1>3, <2>1, FlatPaths
  <2>5. QED BY <2>3, <2>4 DEF DirectClear
<1>8. DirectClear'
  BY <1>2, <1>7, QueriesStay DEF DirectClear
<1>9. QED BY <1>2, <1>4, <1>5, <1>6, <1>8 DEF StoreInv

LEMMA NextStoreInv == StoreInv /\ [StoreNext]_<<vars, storeVars>> => StoreInv'
<1>1. SUFFICES ASSUME StoreInv, [StoreNext]_<<vars, storeVars>> PROVE StoreInv'
  OBVIOUS
<1>2. CASE Search
  BY <1>1, <1>2, SearchKeepsStoreInv
<1>3. CASE Behind
  BY <1>1, <1>3, BehindKeepsStoreInv
<1>4. CASE Kept \/ Deletable \/ UNCHANGED <<vars, storeVars>>
  <2>1. UNCHANGED <<vars, base, prog, store, stage>>
    BY <1>4 DEF Kept, Deletable, storeVars
  <2>2. FunctionIs /\ QueryIs /\ SearchInv /\ ListedOnce
    BY <1>1 DEF StoreInv
  <2>3. FunctionIs' /\ query' = query
    BY <2>1, <2>2, QueriesStay DEF vars
  <2>4. QueryIs'
    BY <2>1, <2>2, <2>3, QueriesStay DEF QueryIs
  <2>5. SearchInv'
    BY <2>1, <2>2, NextSearchInv
  <2>6. ListedOnce'
    BY <2>1, <2>2, ListedOnceKept
  <2>7. stage' = "behind" => DirectClear'
    <3>1. stage' = "behind" => DirectClear
      BY <1>1, <2>1 DEF StoreInv
    <3>2. DirectClear => DirectClear'
      BY <2>1, QueriesStay DEF DirectClear
    <3>3. QED BY <3>1, <3>2
  <2>8. verdict' = "IsDeletable" =>
          pc' = "done" /\ ret' = None /\ (stage' = "direct" => Pointer' = 0)
    BY <1>1, <1>4, <2>1, QueriesStay DEF Kept, Deletable, storeVars, vars, StoreInv
  <2>9. QED BY <2>3, <2>4, <2>5, <2>6, <2>7, <2>8 DEF StoreInv
<1>5. QED BY <1>1, <1>2, <1>3, <1>4 DEF StoreNext

----------------------------------------------------------------------------
(***************************************************************************)
(* The fields a pointer may point to, by its definition.                   *)
(***************************************************************************)
Of(p, v, of) ==
  IF p[v].op = "gep" /\ p[v].idx # "any" /\ of = {"0", "1"} THEN {p[v].idx} ELSE of

IsFields(p, n, f) ==
  f = [v \in 0 .. n |-> IF v = 0 THEN {"0", "1"} ELSE Of(p, v, f[p[v].ptr])]

LEMMA FirstOf ==
  ASSUME NEW S, S \subseteq Nat, S # {}
  PROVE  \E k \in S : \A j \in S : ~(j < k)
<1>1. IsWellFoundedOn({p \in Nat \X Nat : p[1] < p[2]}, Nat)
  BY NatLessThanWellFounded DEF OpToRel
<1>2. PICK k \in S : \A j \in S : ~(<<j, k>> \in {p \in Nat \X Nat : p[1] < p[2]})
  BY <1>1, WFMin
<1>3. QED BY <1>2

LEMMA FieldsExist ==
  ASSUME NEW p \in [Uses -> Instruction], \A i \in Uses : p[i].ptr < i
  PROVE  \A n \in 0 .. N : \E f : IsFields(p, n, f)
<1> DEFINE Bad == {n \in 0 .. N : ~ \E f : IsFields(p, n, f)}
<1>1. N \in Nat /\ Uses = 1 .. N
  BY NAssumption
<1>2. SUFFICES ASSUME Bad # {} PROVE FALSE
  OBVIOUS
<1>3. PICK n \in Bad : \A k \in Bad : ~(k < n)
  <2>1. Bad \subseteq Nat
    BY <1>1
  <2> HIDE DEF Bad
  <2>2. QED BY <1>2, <2>1, FirstOf
<1>4. n \in 0 .. N /\ ~ \E f : IsFields(p, n, f)
  OBVIOUS
<1>5. n # 0
  <2>1. ASSUME n = 0 PROVE FALSE
    <3>1. PICK f : f = [v \in 0 .. 0 |-> {"0", "1"}]
      OBVIOUS
    <3>2. \A v \in 0 .. 0 : v = 0
      OBVIOUS
    <3>3. IsFields(p, 0, f)
      BY <3>1, <3>2 DEF IsFields
    <3>4. QED BY <1>4, <2>1, <3>3
  <2>2. QED BY <2>1
<1>6. n \in Uses /\ n - 1 \in 0 .. N /\ n - 1 < n /\ p[n].ptr \in 0 .. n - 1
  <2>1. n \in 1 .. N
    BY <1>1, <1>4, <1>5
  <2>2. p[n].ptr \in Nat /\ p[n].ptr < n
    BY <1>1, <2>1 DEF Instruction
  <2>3. QED BY <1>1, <2>1, <2>2
<1>7. PICK f : IsFields(p, n - 1, f)
  BY <1>3, <1>6
<1> DEFINE g == [v \in 0 .. n |-> IF v = n THEN Of(p, n, f[p[n].ptr]) ELSE f[v]]
<1>8. ASSUME NEW v \in 0 .. n, v # 0
      PROVE  g[v] = Of(p, v, g[p[v].ptr])
  <2>1. v \in Uses /\ p[v].ptr \in 0 .. n - 1 /\ p[v].ptr < v
    <3>1. v \in 1 .. N /\ v <= n
      BY <1>1, <1>6, <1>8
    <3>2. p[v].ptr \in Nat /\ p[v].ptr < v
      BY <1>1, <3>1 DEF Instruction
    <3>3. QED BY <1>1, <1>6, <3>1, <3>2
  <2>2. g[p[v].ptr] = f[p[v].ptr]
    BY <1>1, <1>6, <2>1
  <2>3. CASE v = n
    BY <2>2, <2>3
  <2>4. CASE v # n
    <3>1. v \in 0 .. n - 1
      BY <1>1, <1>6, <1>8, <2>4
    <3>2. f[v] = Of(p, v, f[p[v].ptr])
      BY <1>7, <1>8, <3>1 DEF IsFields
    <3>3. QED BY <2>2, <2>4, <3>2
  <2>5. QED BY <2>3, <2>4
<1>9. g[0] = {"0", "1"}
  <2>1. 0 \in 0 .. n - 1 /\ 0 \in 0 .. n /\ 0 # n
    BY <1>5, <1>6, <1>1
  <2>2. QED BY <1>7, <2>1 DEF IsFields
<1>10. IsFields(p, n, g)
  <2> DEFINE h == [v \in 0 .. n |-> IF v = 0 THEN {"0", "1"} ELSE Of(p, v, g[p[v].ptr])]
  <2>1. \A v \in 0 .. n : g[v] = h[v]
    BY <1>8, <1>9
  <2>2. g = h
    BY <2>1
  <2>3. QED BY <2>2 DEF IsFields
<1>11. QED BY <1>4, <1>10

LEMMA FieldsAre ==
  ASSUME FunctionIs
  PROVE  /\ Fields[0] = {"0", "1"}
         /\ \A v \in Uses : Fields[v] = Of(prog, v, Fields[prog[v].ptr])
<1>1. N \in Nat /\ Uses = 1 .. N
  BY NAssumption
<1>2. PICK f : IsFields(prog, N, f)
  BY <1>1, FieldsExist DEF FunctionIs
<1> DEFINE Eq(h) ==
      h = [v \in 0 .. N |->
             IF v = 0 THEN {"0", "1"}
             ELSE LET of == h[prog[v].ptr] IN
                  IF isGEP(v) /\ prog[v].idx # "any" /\ of = {"0", "1"}
                    THEN {prog[v].idx} ELSE of]
<1>3. Eq(f)
  BY <1>2 DEF IsFields, Of, isGEP
<1>4. Fields = CHOOSE h : Eq(h)
  BY DEF Fields
<1>5. Eq(Fields)
  BY <1>3, <1>4
<1>6. 0 \in 0 .. N /\ \A v \in Uses : v \in 0 .. N /\ v # 0
  BY <1>1
<1>7. QED BY <1>5, <1>6 DEF Of, isGEP

----------------------------------------------------------------------------
(***************************************************************************)
(* Where the search has been everywhere, so has the reader.                *)
(***************************************************************************)
(* a later use was seen, or points to other fields *)
SeenOrElsewhere(S) ==
  \A v \in Uses : v > store => v \in S \/ Fields[v] \cap Fields[Pointer] = {}

LEMMA SeenIsEnough ==
  ASSUME FunctionIs, NEW S, SeenOrElsewhere(S), S \cap Visits = {}
  PROVE  ~UsedAfter
<1>1. SUFFICES ASSUME NEW i \in Visits, i > store,
                      Fields[prog[i].ptr] \cap Fields[Pointer] # {}
               PROVE  FALSE
  BY DEF UsedAfter
<1>2. i \in Uses /\ prog[i].op = "load"
  BY DEF Visits
<1>3. Fields[i] = Fields[prog[i].ptr]
  BY <1>2, FieldsAre DEF Of
<1>4. QED BY <1>1, <1>2, <1>3 DEF SeenOrElsewhere

(* what is known of a function the rules see through *)
LEMMA SimpleIs ==
  ASSUME FunctionIs, Simple, NEW v \in Uses, v > store
  PROVE  LET p == prog[v].ptr IN
         /\ p = 0 \/ p \in Uses
         /\ p # 0 => /\ ~isGEP(v) /\ Fields[v] = Fields[p] /\ p # store
                     /\ p < v
                     /\ p < store => p = Pointer \/ (isGEP(p) /\ prog[p].ptr = 0)
<1>1. PICK p : p = prog[v].ptr
  OBVIOUS
<1>2. p = 0 \/ p \in Uses
  BY <1>1, UsesAreFinite DEF FunctionIs, Instruction
<1>3. ASSUME p # 0
      PROVE  /\ ~isGEP(v) /\ Fields[v] = Fields[p] /\ p # store /\ p < v
             /\ p < store => p = Pointer \/ (isGEP(p) /\ prog[p].ptr = 0)
  <2>1. p \in Uses /\ p < v /\ prog[p].op \in Derived
    BY <1>1, <1>2, <1>3 DEF FunctionIs
  <2>2. ~isGEP(v)
    BY <1>1, <1>3 DEF Simple
  <2>3. prog[v].op # "gep"
    BY <2>2, UsesAreFinite DEF isGEP
  <2>4. Fields[v] = Fields[p]
    BY <1>1, <2>3, FieldsAre DEF Of
  <2>5. p # store
    BY <2>1 DEF FunctionIs, Derived
  <2>6. ASSUME p < store PROVE p = Pointer \/ (isGEP(p) /\ prog[p].ptr = 0)
    <3>1. p \in 1 .. store
      BY <2>1, <2>6, UsesAreFinite DEF FunctionIs
    <3>2. isGEP(p) \/ isCast_(p)
      BY <1>3, <2>1 DEF Derived, isGEP, isCast_
    <3>3. QED BY <2>1, <3>1, <3>2 DEF Simple
  <2>7. QED BY <2>1, <2>2, <2>4, <2>5, <2>6
<1>4. QED BY <1>1, <1>2, <1>3

(* a getelementptr the filter refuses points to another field *)
LEMMA RefusedIsElsewhere ==
  ASSUME FunctionIs, Simple, isGEP(Pointer), Pointer \in Uses,
         NEW g \in GEPFilter(Pointer)
  PROVE  Fields[g] \cap Fields[Pointer] = {}
<1>1. /\ g \in Uses /\ isGEP(g) /\ prog[Pointer].idx # "any"
      /\ prog[g].idx # prog[Pointer].idx
  BY DEF GEPFilter
<1>2. prog[g].idx # "any" /\ prog[g].ptr = 0 /\ prog[Pointer].ptr = 0
  BY <1>1 DEF Simple
<1>3. /\ Fields[g] = {prog[g].idx} /\ Fields[Pointer] = {prog[Pointer].idx}
  BY <1>1, <1>2, FieldsAre DEF Of, isGEP
<1>4. QED BY <1>1, <1>3

(***************************************************************************)
(* If a use that follows one that was seen was seen, and so was a use of   *)
(* the object or of a pointer derived before the store, every one was.     *)
(***************************************************************************)
LEMMA SeenByOrder ==
  ASSUME FunctionIs, Simple, NEW S,
         \A v \in Uses : v > store /\ (prog[v].ptr = 0 \/ prog[v].ptr < store) =>
            v \in S \/ Fields[v] \cap Fields[Pointer] = {},
         \A v \in Uses : v > store /\ prog[v].ptr # 0 /\ prog[v].ptr \in S => v \in S
  PROVE  SeenOrElsewhere(S)
<1> DEFINE Missed ==
      {v \in Uses : v > store /\ v \notin S /\ Fields[v] \cap Fields[Pointer] # {}}
<1>1. SUFFICES ASSUME Missed # {} PROVE FALSE
  BY DEF SeenOrElsewhere
<1>2. PICK v \in Missed : \A j \in Missed : ~(j < v)
  <2>1. Missed \subseteq Nat
    BY UsesAreFinite
  <2> HIDE DEF Missed
  <2>2. QED BY <1>1, <2>1, FirstOf
<1>3. v \in Uses /\ v > store /\ v \notin S /\ Fields[v] \cap Fields[Pointer] # {}
  OBVIOUS
<1>4. PICK p : p = prog[v].ptr
  OBVIOUS
<1>5. p # 0 /\ ~(p < store)
  BY <1>3, <1>4
<1>6. p \in Uses /\ Fields[v] = Fields[p] /\ p # store /\ p < v
  BY <1>3, <1>4, <1>5, SimpleIs
<1>7. p > store
  BY <1>5, <1>6, UsesAreFinite DEF FunctionIs
<1>8. p \notin S
  BY <1>3, <1>4, <1>5
<1>9. p \in Missed
  BY <1>3, <1>6, <1>7, <1>8
<1>10. QED BY <1>2, <1>6, <1>9

(* the filters of noused_flat pass what comes after the store, and indices *)
LEMMA Passes ==
  ASSUME FunctionIs, NEW v \in Uses, v > store \/ (isGEP(v) /\ v < store)
  PROVE  v \notin iUseFilter \cup exclude
<1>1. v \in Int /\ store \in Int
  BY UsesAreFinite DEF FunctionIs
<1>2. v \notin exclude
  BY <1>1 DEF exclude
<1>3. v \notin iUseFilter
  BY <1>1 DEF iUseFilter
<1>4. QED BY <1>2, <1>3

LEMMA SeenDirect ==
  ASSUME StoreInv, Simple, pc = "done", ret = None, stage = "direct", Pointer = 0
  PROVE  SeenOrElsewhere(asked)
<1> DEFINE F == iUseFilter \cup exclude
<1>1. FunctionIs /\ QueryIs /\ SearchInv /\ ListedOnce
  BY DEF StoreInv
<1>2. /\ query.root = store /\ query.refused = F /\ Origin = 0
      /\ query.refused \cup {query.root} = F
  BY <1>1, FlatQuery DEF exclude, Pointer
<1>3. Seeds = {i \in UsesOf(0) : i > store \/ isGEP(i)}
  BY <1>1, <1>2, FlatPaths
<1>4. Seeds \ F \subseteq asked /\ \A v \in asked : UsesOf(v) \ F \subseteq asked
  BY <1>1, <1>2, NothingFound
<1>5. ASSUME NEW v \in Uses, v > store, prog[v].ptr \in asked PROVE v \in asked
  BY <1>1, <1>4, <1>5, Passes DEF UsesOf
<1>6. ASSUME NEW v \in Uses, v > store, prog[v].ptr = 0 \/ prog[v].ptr < store
      PROVE  v \in asked
  <2>1. CASE prog[v].ptr = 0
    BY <1>1, <1>3, <1>4, <1>6, <2>1, Passes DEF UsesOf
  <2>2. CASE prog[v].ptr # 0
    <3>1. PICK p : p = prog[v].ptr
      OBVIOUS
    <3>2. p \in Uses /\ p < store /\ isGEP(p) /\ prog[p].ptr = 0
      BY <1>1, <1>6, <2>2, <3>1, SimpleIs
    <3>3. p \in asked
      BY <1>1, <1>3, <1>4, <3>2, Passes DEF UsesOf
    <3>4. QED BY <1>5, <1>6, <3>1, <3>3
  <2>3. QED BY <2>1, <2>2
<1>7. QED BY <1>1, <1>5, <1>6, SeenByOrder

LEMMA SeenBehind ==
  ASSUME StoreInv, Simple, pc = "done", ret = None, stage = "behind"
  PROVE  \E S : SeenOrElsewhere(S) /\ S \cap Visits = {}
<1> DEFINE F == iUseFilter \cup exclude
           G == IF isGEP(Pointer) THEN GEPFilter(Pointer) ELSE {}
<1>1. FunctionIs /\ QueryIs /\ SearchInv /\ ListedOnce /\ DirectClear
  BY DEF StoreInv
<1>2. Pointer \in Uses /\ Pointer < store
  BY <1>1, UsesAreFinite DEF FunctionIs, QueryIs, Pointer, Instruction
<1>3. /\ query.root = Pointer /\ query.refused = F \cup G
      /\ Origin = prog[Pointer].ptr
  BY <1>1, FlatQuery
<1>4. prog[Pointer].ptr = 0
  BY <1>2 DEF Simple
<1>5. Seeds = {i \in UsesOf(0) : i > Pointer \/ isGEP(i)}
  BY <1>1, <1>3, <1>4, FlatPaths
<1>6. /\ Seeds \ (F \cup G \cup {Pointer}) \subseteq asked
      /\ \A v \in asked : UsesOf(v) \ (F \cup G \cup {Pointer}) \subseteq asked
      /\ asked \cap Visits = {}
  BY <1>1, <1>3, NothingFound
<1>7. PICK S \in SUBSET Uses :
        /\ {i \in UsesOf(Pointer) : i > store} \ F \subseteq S
        /\ \A v \in S : UsesOf(v) \ F \subseteq S
        /\ S \cap Visits = {}
  BY <1>1 DEF DirectClear
<1>8. ASSUME NEW g \in G PROVE isGEP(g) /\ Fields[g] \cap Fields[Pointer] = {}
  <2>1. isGEP(Pointer) /\ g \in GEPFilter(Pointer)
    BY <1>8
  <2>2. isGEP(g)
    BY <2>1 DEF GEPFilter
  <2>3. QED BY <1>1, <1>2, <2>1, <2>2, RefusedIsElsewhere
<1> HIDE DEF G
<1>9. ASSUME NEW v \in Uses, v > store
      PROVE  v \notin F /\ v # Pointer /\ v > Pointer
  <2>1. v \notin F
    BY <1>1, <1>9, Passes
  <2>2. v \in Int /\ store \in Int /\ Pointer \in Int
    BY <1>1, <1>2, UsesAreFinite DEF FunctionIs
  <2>3. QED BY <1>2, <1>9, <2>1, <2>2
<1>10. ASSUME NEW v \in Uses, v > store, prog[v].ptr # 0, prog[v].ptr \in S \cup asked
       PROVE  v \in S \cup asked
  <2>1. v \in UsesOf(prog[v].ptr) /\ ~isGEP(v)
    BY <1>1, <1>10, SimpleIs DEF UsesOf
  <2>2. v \notin F \cup G \cup {Pointer}
    BY <1>8, <1>9, <1>10, <2>1
  <2>3. QED BY <1>6, <1>7, <1>10, <2>1, <2>2
<1>11. ASSUME NEW v \in Uses, v > store, prog[v].ptr = 0 \/ prog[v].ptr < store
       PROVE  v \in S \cup asked \/ Fields[v] \cap Fields[Pointer] = {}
  <2>1. CASE prog[v].ptr = 0
    <3>1. v \in Seeds
      BY <1>5, <1>9, <1>11, <2>1 DEF UsesOf
    <3>2. QED BY <1>6, <1>8, <1>9, <1>11, <3>1
  <2>2. CASE prog[v].ptr # 0
    <3>1. PICK p : p = prog[v].ptr
      OBVIOUS
    <3>2. /\ p \in Uses /\ p < store /\ Fields[v] = Fields[p]
          /\ p = Pointer \/ (isGEP(p) /\ prog[p].ptr = 0)
      BY <1>1, <1>11, <2>2, <3>1, SimpleIs
    <3>3. CASE p = Pointer
      BY <1>7, <1>9, <1>11, <3>1, <3>3 DEF UsesOf
    <3>4. CASE p # Pointer /\ p \in G
      BY <1>8, <3>2, <3>4
    <3>5. CASE p # Pointer /\ p \notin G
      <4>1. p \in Seeds /\ isGEP(p)
        BY <1>5, <3>2, <3>5 DEF UsesOf
      <4>2. p \notin F
        BY <1>1, <3>2, <4>1, Passes
      <4>3. p \in asked
        BY <1>6, <3>5, <4>1, <4>2
      <4>4. QED BY <1>10, <1>11, <2>2, <3>1, <4>3
    <3>6. QED BY <3>3, <3>4, <3>5
  <2>3. QED BY <2>1, <2>2
<1>12. SeenOrElsewhere(S \cup asked)
  <2>1. PICK T : T = S \cup asked
    OBVIOUS
  <2>2. SeenOrElsewhere(T)
    BY <1>1, <1>10, <1>11, <2>1, SeenByOrder
  <2>3. QED BY <2>1, <2>2
<1>13. QED BY <1>6, <1>7, <1>12

LEMMA SeenGlobal ==
  ASSUME StoreInv, Simple, pc = "done", ret = None, stage = "global"
  PROVE  SeenOrElsewhere(asked)
<1> DEFINE G == GEPFilter(Pointer)
<1>1. FunctionIs /\ QueryIs /\ SearchInv /\ ListedOnce
  BY DEF StoreInv
<1>2. /\ query.root = ValueNode /\ query.root \notin Uses /\ IsGlobal
      /\ query.refused = CGFilter \cup G
  BY <1>1, GlobalQuery
<1>3. Pointer \in Uses /\ isGEP(Pointer) /\ prog[Pointer].ptr = 0
  BY <1>1, <1>2, UsesAreFinite DEF IsGlobal, isGEP, FunctionIs, Pointer, Instruction
<1>4. /\ Seeds = UsesOf(0)
      /\ Seeds \ (CGFilter \cup G \cup {ValueNode}) \subseteq asked
      /\ \A v \in asked : UsesOf(v) \ (CGFilter \cup G \cup {ValueNode}) \subseteq asked
  BY <1>1, <1>2, NothingFound, GlobalPaths
<1>5. ASSUME NEW g \in G PROVE isGEP(g) /\ Fields[g] \cap Fields[Pointer] = {}
  <2>1. isGEP(g)
    BY <1>5 DEF GEPFilter
  <2>2. QED BY <1>1, <1>3, <1>5, <2>1, RefusedIsElsewhere
<1> HIDE DEF G
<1>6. ASSUME NEW v \in Uses, v > store PROVE v \notin CGFilter /\ v # ValueNode
  <2>1. v \in Int /\ store \in Int /\ v # ValueNode
    BY <1>1, UsesAreFinite, NodesAssumption DEF FunctionIs
  <2>2. QED BY <1>6, <2>1 DEF CGFilter
<1>7. ASSUME NEW v \in Uses, v > store, prog[v].ptr # 0, prog[v].ptr \in asked
      PROVE  v \in asked
  <2>1. v \in UsesOf(prog[v].ptr) /\ ~isGEP(v)
    BY <1>1, <1>7, SimpleIs DEF UsesOf
  <2>2. v \notin CGFilter \cup G \cup {ValueNode}
    BY <1>5, <1>6, <1>7, <2>1
  <2>3. QED BY <1>4, <1>7, <2>1, <2>2
<1>8. ASSUME NEW v \in Uses, v > store, prog[v].ptr = 0 \/ prog[v].ptr < store
      PROVE  v \in asked \/ Fields[v] \cap Fields[Pointer] = {}
  <2>1. CASE prog[v].ptr = 0
    <3>1. v \in Seeds
      BY <1>4, <1>8, <2>1 DEF UsesOf
    <3>2. QED BY <1>4, <1>5, <1>6, <1>8, <3>1
  <2>2. CASE prog[v].ptr # 0
    <3>1. PICK p : p = prog[v].ptr
      OBVIOUS
    <3>2. /\ p \in Uses /\ p < store /\ Fields[v] = Fields[p]
          /\ isGEP(p) /\ prog[p].ptr = 0
      BY <1>1, <1>3, <1>8, <2>2, <3>1, SimpleIs
    <3>3. p \in 1 .. store
      BY <1>1, <3>2, UsesAreFinite DEF FunctionIs
    <3>4. p \notin CGFilter /\ p # ValueNode
      BY <1>2, <3>2, <3>3, NodesAssumption DEF Simple, CGFilter, Inst
    <3>5. CASE p \in G
      BY <1>5, <3>2, <3>5
    <3>6. CASE p \notin G
      <4>1. p \in asked
        BY <1>4, <3>2, <3>4, <3>6 DEF UsesOf
      <4>2. QED BY <1>7, <1>8, <2>2, <3>1, <4>1
    <3>7. QED BY <3>5, <3>6
  <2>3. QED BY <2>1, <2>2
<1>9. QED BY <1>1, <1>7, <1>8, SeenByOrder

----------------------------------------------------------------------------
(***************************************************************************)
(* The theorems.                                                           *)
(***************************************************************************)
(***************************************************************************)
(* ReduceCode::getAttribute of a StoreInst: of the functions the rules see *)
(* through, whatever their length, no store is declared unused that a      *)
(* later load reads.                                                       *)
(***************************************************************************)
THEOREM UnusedRight == StoreSpec => []NobodyReads
<1>1. ASSUME StoreInv PROVE NobodyReads
  <2>1. SUFFICES ASSUME Simple, verdict = "IsDeletable" PROVE ~UsedAfter
    BY DEF NobodyReads
  <2>2. /\ FunctionIs /\ QueryIs /\ SearchInv /\ ListedOnce
        /\ pc = "done" /\ ret = None /\ (stage = "direct" => Pointer = 0)
    BY <1>1, <2>1 DEF StoreInv
  <2>3. asked \cap Visits = {}
    BY <2>2, NothingFound
  <2>4. CASE stage = "direct"
    BY <1>1, <2>1, <2>2, <2>3, <2>4, SeenDirect, SeenIsEnough
  <2>5. CASE stage = "behind"
    BY <1>1, <2>1, <2>2, <2>5, SeenBehind, SeenIsEnough
  <2>6. CASE stage = "global"
    BY <1>1, <2>1, <2>2, <2>3, <2>6, SeenGlobal, SeenIsEnough
  <2>7. QED BY <2>2, <2>4, <2>5, <2>6 DEF QueryIs
<1>2. QED BY InitStoreInv, NextStoreInv, <1>1, PTL DEF StoreSpec

(***************************************************************************)
(* Whatever the function: a search of noused_flat or noused_global is a    *)
(* search of ResolveEngine that takes each use from its work list at most  *)
(* once, so the limit on the iterations never stops it, and an answer of   *)
(* nothing means that there is nothing.                                    *)
(***************************************************************************)
WholeAnswer == pc = "done" => Finished /\ NothingMissed

THEOREM LimitNeverMet == StoreSpec => []WholeAnswer
<1>1. ASSUME StoreInv PROVE WholeAnswer
  <2>1. FunctionIs /\ QueryIs /\ SearchInv /\ ListedOnce
    BY <1>1 DEF StoreInv
  <2>2. QED BY <2>1, NotExceeded, InvGivesNothingMissed DEF WholeAnswer, Finished
<1>2. QED BY InitStoreInv, NextStoreInv, <1>1, PTL DEF StoreSpec
=============================================================================
