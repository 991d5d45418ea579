--------------------------- MODULE DeletionProofs ---------------------------
(***************************************************************************)
(* What deleting does, for every program.                                  *)
(*                                                                         *)
(* The deletion of a cascade leaves no operand that was freed; takes all   *)
(* that depends on the root, unless it uses a freed instruction, and       *)
(* nothing else but what has no effect and lost all its users; and, if     *)
(* there is a single link to each instruction, uses no freed one.          *)
(*                                                                         *)
(* The removal of dead stores changes nothing the program can see.  The    *)
(* argument is of runs of the program before and after a step of the pass, *)
(* side by side: what the step makes different in memory is not read       *)
(* before it is overwritten, or before its object ends.                    *)
(***************************************************************************)
EXTENDS DeadStores, Cascade, FiniteSetTheorems, SequenceTheorems, WellFoundedInduction, TLAPS

Dead == erased \cup NowDeadInsts

VisitedInsts == {get_user(n) : n \in visited}

(* the operands there are, and the links the search found between them *)
Links ==
  /\ operands = [i \in Insts |-> operands[i]]
  /\ \A i \in Insts : DOMAIN operands[i] \subseteq 1 .. 2
  /\ users \in [Insts -> SUBSET Slots]
  /\ \A i \in Insts : UsesOf(i) \subseteq users[i]
  /\ \A i, j \in Insts : users[i] \cap users[j] # {} => i = j
  /\ pure \subseteq Insts \ {Root}

(* the walk goes from the root along links, and leaves none out behind it *)
Walk ==
  /\ visited \subseteq Slots \cup {RootNode}
  /\ path \in Seq(visited)
  /\ visited # {} => RootNode \in visited
  /\ \A n \in visited \ {RootNode} : \E m \in visited : n \in users[get_user(m)]
  /\ \A n \in visited : (\E k \in 1 .. Len(path) : path[k] = n) \/ Unvisited(n) = {}
  /\ \A n \in visited : DependsOn(Root, get_user(n))

(* what is dead or about to be is used no more *)
Deaths ==
  /\ Dead \subseteq Insts
  /\ VisitedInsts \subseteq Dead
  /\ Dead \subseteq VisitedInsts \cup pure
  /\ \A i \in Dead : UsesOf(i) = {}

(* an instruction that is not come to loses a use with the user only, and  *)
(* dies only after having had one                                          *)
Bereft ==
  /\ \A j \in Insts \ VisitedInsts : \A n \in users[j] : n \in UsesOf(j) \/ get_user(n) \in erased
  /\ \A j \in Dead \ VisitedInsts : users[j] # {}

CascadeInv == Links /\ Walk /\ Deaths /\ Bereft

(* SingleLink, in terms of the links *)
LinkedOnce ==
  \A i, j \in Insts : \A n \in users[i], m \in users[j] :
    DependsOn(Root, i) /\ DependsOn(Root, j) /\ get_user(n) = get_user(m)
      => n = m /\ get_user(n) # Root

(* an instruction of the cascade dies by being come to, and in no other way *)
LinkInv ==
  /\ LinkedOnce
  /\ \A i \in Dead : DependsOn(Root, i) => i \in VisitedInsts
  /\ ~freed_used

----------------------------------------------------------------------------
(* What is computed from what depends on i depends on i. *)
LEMMA DependsStep ==
  ASSUME NEW i, NEW j \in Insts, DependsOn(i, j), NEW n \in users[j]
  PROVE  DependsOn(i, get_user(n))
  BY DEF DependsOn

LEMMA DependsSelf ==
  ASSUME NEW i
  PROVE  DependsOn(i, i)
  BY DEF DependsOn

(* A set that holds i and what is computed from its members holds all that *)
(* depends on i.                                                           *)
LEMMA DependsLeast ==
  ASSUME NEW i, NEW S \in SUBSET Insts, i \in S,
         \A k \in S : {get_user(n) : n \in users[k]} \subseteq S,
         NEW j, DependsOn(i, j)
  PROVE  j \in S
  BY DEF DependsOn

LEMMA SlotParts ==
  /\ \A n \in Slots : get_user(n) \in Insts /\ n = Node(n[1], n[2])
  /\ get_user(RootNode) = Root
  /\ RootNode \notin Slots
  BY DEF Slots, get_user, RootNode, Node

----------------------------------------------------------------------------
LEMMA InitCascadeInv ==
  ASSUME CascadeInit
  PROVE  CascadeInv
  <1>1. Links
    <2>1. operands = [i \in Insts |-> operands[i]] /\ \A i \in Insts : DOMAIN operands[i] \subseteq 1 .. 2
      BY DEF CascadeInit
    <2>2. users = [i \in Insts |-> UsesOf(i)]
      BY DEF CascadeInit, CascadeStart
    <2>3. \A i \in Insts : UsesOf(i) \in SUBSET Slots
      BY DEF UsesOf
    <2>4. \A i, j \in Insts : UsesOf(i) \cap UsesOf(j) # {} => i = j
      BY DEF UsesOf
    <2>5. QED  BY <2>1, <2>2, <2>3, <2>4 DEF Links, CascadeInit
  <1>2. Walk
    BY DEF CascadeInit, CascadeStart, Walk
  <1>3. Deaths
    BY DEF CascadeInit, CascadeStart, Deaths, Dead, VisitedInsts
  <1>4. Bereft
    BY DEF CascadeInit, CascadeStart, Bereft, Dead
  <1>5. QED  BY <1>1, <1>2, <1>3, <1>4 DEF CascadeInv

(* The operands only become fewer. *)
LEMMA OperandsGo ==
  ASSUME Links, UNCHANGED <<users, pure>>,
         operands' = [i \in Insts |-> operands'[i]],
         \A i \in Insts : DOMAIN operands'[i] = DOMAIN operands[i],
         \A i \in Insts : UsesOf(i)' \subseteq UsesOf(i)
  PROVE  Links'
  BY DEF Links, Slots, Node

(* Replacing the uses of an instruction leaves it none, and the others theirs. *)
LEMMA Replaced ==
  ASSUME Links, NEW i \in Insts, DeleteUser(i)
  PROVE  /\ Links'
         /\ UsesOf(i)' = {}
         /\ \A j \in Insts : UsesOf(j)' \subseteq UsesOf(j)
         /\ \A j \in Insts \ {i} : UsesOf(j)' = UsesOf(j)
  <1>1. operands' = [j \in Insts |-> [k \in DOMAIN operands[j] |->
                       IF operands[j][k] = i THEN Undef ELSE operands[j][k]]]
    BY DEF DeleteUser
  <1>2. Undef \notin Insts
    BY CascadeAssumption
  <1>3. \A j \in Insts : DOMAIN operands'[j] = DOMAIN operands[j]
    BY <1>1
  <1>4. \A j \in Insts : UsesOf(j)' \subseteq UsesOf(j)
    BY <1>1, <1>2 DEF UsesOf, Slots, Node
  <1>5. UsesOf(i)' = {}
    BY <1>1, <1>2 DEF UsesOf, Slots, Node
  <1>6. UNCHANGED <<users, pure>>
    BY DEF DeleteUser
  <1>7. operands' = [j \in Insts |-> operands'[j]]
    BY <1>1
  <1>8. Links'
    BY <1>3, <1>4, <1>6, <1>7, OperandsGo
  <1>9. \A j \in Insts \ {i} : UsesOf(j)' = UsesOf(j)
    BY <1>1, <1>2 DEF UsesOf, Slots, Node
  <1>10. QED  BY <1>4, <1>5, <1>8, <1>9

(***************************************************************************)
(* Coming to a node that is reached by a link from a node of the path.     *)
(***************************************************************************)
LEMMA ComeKeepsDeaths ==
  ASSUME CascadeInv, NEW n \in Slots \cup {RootNode}, Come(n), NowDeadInsts = {}
  PROVE  Links' /\ Deaths' /\ Bereft' /\ users' = users
  <1>1. Links /\ Deaths /\ Bereft
    BY DEF CascadeInv
  <1>2. get_user(n) \in Insts
    BY SlotParts, CascadeAssumption
  <1>3. visited' = visited \cup {n}
    BY DEF Come
  <1>4. VisitedInsts' = VisitedInsts \cup {get_user(n)}
    BY <1>3 DEF VisitedInsts
  <1>5. CASE get_user(n) \in erased
    <2>1. UNCHANGED <<operands, pure, users, NowDeadInsts, erased>>
      BY <1>5 DEF Come, UseFreed
    <2>2. Dead' = Dead /\ get_user(n) \in Dead
      BY <1>5, <2>1 DEF Dead
    <2>3. Links'
      BY <1>1, <2>1 DEF Links, UsesOf
    <2>4. \A i \in Dead : UsesOf(i)' = {}
      BY <1>1, <2>1 DEF Deaths, UsesOf
    <2>5. Deaths'
      BY <1>1, <1>4, <2>1, <2>2, <2>4 DEF Deaths
    <2>6. \A j : UsesOf(j)' = UsesOf(j)
      BY <2>1 DEF UsesOf
    <2>7. Bereft'
      BY <1>1, <1>4, <2>1, <2>2, <2>6 DEF Bereft
    <2>8. QED  BY <2>1, <2>3, <2>5, <2>7
  <1>6. CASE get_user(n) \notin erased
    <2>1. DeleteUser(get_user(n))
      BY <1>6 DEF Come
    <2>2. /\ Links'
          /\ UsesOf(get_user(n))' = {}
          /\ \A j \in Insts : UsesOf(j)' \subseteq UsesOf(j)
          /\ \A j \in Insts \ {get_user(n)} : UsesOf(j)' = UsesOf(j)
      BY <1>1, <1>2, <2>1, Replaced
    <2>3. UNCHANGED <<pure, users, erased>> /\ NowDeadInsts' = {get_user(n)}
      BY <2>1 DEF DeleteUser
    <2>4. Dead' = Dead \cup {get_user(n)}
      BY <2>3 DEF Dead
    <2>5. Deaths'
      BY <1>1, <1>2, <1>4, <2>2, <2>3, <2>4 DEF Deaths
    <2>6. \A j \in Insts \ VisitedInsts' : j \in Insts \ VisitedInsts /\ UsesOf(j)' = UsesOf(j)
      BY <1>4, <2>2
    <2>7. \A j \in Dead' \ VisitedInsts' : j \in Dead \ VisitedInsts
      BY <1>4, <2>4
    <2>8. Bereft'
      BY <1>1, <2>3, <2>6, <2>7 DEF Bereft
    <2>9. QED  BY <2>2, <2>3, <2>5, <2>8
  <1>7. QED  BY <1>5, <1>6

LEMMA DeleteRootKeeps ==
  ASSUME CascadeInv, DeleteRoot
  PROVE  CascadeInv'
  <1>1. Links' /\ Deaths' /\ Bereft' /\ users' = users
    BY ComeKeepsDeaths DEF DeleteRoot, Idle
  <1>2. visited = {} /\ visited' = {RootNode} /\ path' = <<RootNode>>
    BY DEF DeleteRoot, Come
  <1>3. path' \in Seq(visited') /\ 1 \in 1 .. Len(path') /\ path'[1] = RootNode
    BY <1>2
  <1>4. DependsOn(Root, Root)'
    BY DEF DependsOn
  <1>5. Walk'
    BY <1>2, <1>3, <1>4, SlotParts DEF Walk
  <1>6. QED  BY <1>1, <1>5 DEF CascadeInv

LEMMA DeleteNextKeeps ==
  ASSUME CascadeInv, NEW m \in 1 .. Len(path), NEW n \in Slots, DeleteNext(m, n)
  PROVE  CascadeInv'
  <1>1. Links' /\ Deaths' /\ Bereft' /\ users' = users
    BY ComeKeepsDeaths DEF DeleteNext, Idle
  <1>2. Walk /\ Links
    BY DEF CascadeInv
  <1>3. /\ visited' = visited \cup {n}
        /\ path' = Append(SubSeq(path, 1, m), n)
        /\ n \in users[get_user(path[m])] \ visited
        /\ \A l \in m + 1 .. Len(path) : Unvisited(path[l]) = {}
    BY DEF DeleteNext, Come, Deepest, Unvisited
  <1>4. path \in Seq(visited) /\ path[m] \in visited
    BY <1>2 DEF Walk
  <1>5. /\ path' \in Seq(visited')
        /\ Len(path') = m + 1
        /\ path'[m + 1] = n
        /\ \A k \in 1 .. m : path'[k] = path[k]
    <2>1. SubSeq(path, 1, m) \in Seq(visited) /\ Len(SubSeq(path, 1, m)) = m
          /\ \A k \in 1 .. m : SubSeq(path, 1, m)[k] = path[k]
      BY <1>4
    <2> DEFINE s == SubSeq(path, 1, m)
    <2> HIDE DEF s
    <2>2. Append(s, n) \in Seq(visited \cup {n}) /\ Len(Append(s, n)) = m + 1
          /\ Append(s, n)[m + 1] = n /\ \A k \in 1 .. m : Append(s, n)[k] = s[k]
      BY <2>1 DEF s
    <2>3. QED  BY <1>3, <2>1, <2>2 DEF s
  <1>6. \A i \in visited' : (\E k \in 1 .. Len(path') : path'[k] = i) \/ Unvisited(i)' = {}
    <2> SUFFICES ASSUME NEW i \in visited'
                 PROVE  (\E k \in 1 .. Len(path') : path'[k] = i) \/ Unvisited(i)' = {}
      OBVIOUS
    <2>1. CASE i = n
      BY <1>5, <2>1
    <2>2. CASE i \in visited /\ Unvisited(i) = {}
      BY <1>1, <1>3, <2>2 DEF Unvisited
    <2>3. CASE i \in visited /\ \E k \in 1 .. m : path[k] = i
      BY <1>5, <2>3
    <2>4. CASE i \in visited /\ \E k \in m + 1 .. Len(path) : path[k] = i
      BY <1>1, <1>3, <2>4 DEF Unvisited
    <2>5. QED  BY <1>2, <1>3, <2>1, <2>2, <2>3, <2>4 DEF Walk
  <1>7. \A i \in visited' : DependsOn(Root, get_user(i))'
    <2>1. get_user(path[m]) \in Insts /\ DependsOn(Root, get_user(path[m]))
      BY <1>2, <1>4, SlotParts, CascadeAssumption DEF Walk
    <2>2. DependsOn(Root, get_user(n))
      BY <1>3, <2>1, DependsStep
    <2>3. \A i \in visited' : DependsOn(Root, get_user(i))
      BY <1>2, <1>3, <2>2 DEF Walk
    <2>4. QED  BY <1>1, <2>3 DEF DependsOn
  <1>8. Walk'
    BY <1>1, <1>2, <1>3, <1>4, <1>5, <1>6, <1>7 DEF Walk
  <1>9. QED  BY <1>1, <1>8 DEF CascadeInv

(* What an instruction that is erased takes with it is used by nothing else. *)
LEMMA ZapKeeps ==
  ASSUME CascadeInv, NEW i \in Insts, Zap(i)
  PROVE  CascadeInv'
  <1>1. Links /\ Walk /\ Deaths /\ Bereft
    BY DEF CascadeInv
  <1>2. /\ operands' = [operands EXCEPT ![i] = [k \in DOMAIN operands[i] |-> Null]]
        /\ erased' = erased \cup {i} /\ i \in NowDeadInsts
        /\ NowDeadInsts' = (NowDeadInsts \ {i}) \cup Dying(i)
        /\ UNCHANGED <<pure, users, visited, path>>
    BY DEF Zap
  <1>3. operands = [j \in Insts |-> operands[j]]
    BY <1>1 DEF Links
  <1>4. \A j \in Insts : operands'[j] = IF j = i THEN [k \in DOMAIN operands[i] |-> Null]
                                                ELSE operands[j]
    BY <1>2, <1>3
  <1>5. \A j \in Insts : DOMAIN operands'[j] = DOMAIN operands[j]
    BY <1>4
  <1>6. \A j \in Insts : UsesOf(j)' = {n \in UsesOf(j) : n[1] # i}
    BY <1>4, CascadeAssumption DEF UsesOf, Slots, Node
  <1>7. operands' = [j \in Insts |-> operands'[j]]
    BY <1>2, <1>3
  <1>8. Links'
    BY <1>1, <1>2, <1>5, <1>6, <1>7, OperandsGo
  <1>9. Walk'
    <2>1. \A n : DependsOn(Root, get_user(n))' <=> DependsOn(Root, get_user(n))
      BY <1>2 DEF DependsOn
    <2>2. \A n : Unvisited(n)' = Unvisited(n)
      BY <1>2 DEF Unvisited
    <2>3. QED  BY <1>1, <1>2, <2>1, <2>2 DEF Walk
  <1>10. Deaths'
    <2>1. Dead' = Dead \cup Dying(i)
      BY <1>2 DEF Dead
    <2>2. VisitedInsts' = VisitedInsts
      BY <1>2 DEF VisitedInsts
    <2>3. Dying(i) \subseteq pure
      BY DEF Dying
    <2>4. \A j \in Dying(i) : UsesOf(j)' = {}
      BY <1>1, <1>6, <2>3 DEF Dying, Links
    <2>5. \A j \in Dead : UsesOf(j)' = {}
      BY <1>1, <1>6 DEF Deaths
    <2>6. pure \subseteq Insts
      BY <1>1 DEF Links
    <2>7. QED  BY <1>1, <1>2, <2>1, <2>2, <2>3, <2>4, <2>5, <2>6 DEF Deaths
  <1>11. Bereft'
    <2>1. Dead' = Dead \cup Dying(i) /\ VisitedInsts' = VisitedInsts
      BY <1>2 DEF Dead, VisitedInsts
    <2>2. \A j \in Insts \ VisitedInsts : \A n \in users[j] : n \in UsesOf(j)' \/ get_user(n) \in erased'
      BY <1>1, <1>2, <1>6 DEF Bereft, get_user
    <2>3. ASSUME NEW j \in Dying(i)
          PROVE  users[j] # {}
      <3>1. PICK k \in DOMAIN operands[i] : operands[i][k] = j
        BY DEF Dying
      <3>2. j \in Insts /\ k \in 1 .. 2
        BY <1>1, <3>1 DEF Links, Dying
      <3>3. Node(i, k) \in UsesOf(j)
        BY <3>1, <3>2 DEF UsesOf, Slots, Node
      <3>4. QED  BY <1>1, <3>2, <3>3 DEF Links
    <2>4. \A j \in Dead' \ VisitedInsts' : users'[j] # {}
      BY <1>1, <1>2, <2>1, <2>3 DEF Bereft
    <2>5. QED  BY <1>2, <2>1, <2>2, <2>4 DEF Bereft
  <1>12. QED  BY <1>8, <1>9, <1>10, <1>11 DEF CascadeInv

LEMMA NextCascadeInv ==
  ASSUME CascadeInv, [CascadeNext]_cascadeVars
  PROVE  CascadeInv'
  <1>1. CASE DeleteRoot
    BY <1>1, DeleteRootKeeps
  <1>2. ASSUME NEW m \in 1 .. Len(path), NEW n \in Slots, DeleteNext(m, n)
        PROVE  CascadeInv'
    BY <1>2, DeleteNextKeeps
  <1>3. ASSUME NEW i \in Insts, Zap(i)
        PROVE  CascadeInv'
    BY <1>3, ZapKeeps
  <1>4. CASE UNCHANGED cascadeVars
    BY <1>4 DEF cascadeVars, CascadeInv, Links, UsesOf, Walk, Unvisited, DependsOn, Deaths, Bereft,
                Dead, VisitedInsts
  <1>5. QED  BY <1>1, <1>2, <1>3, <1>4 DEF CascadeNext

----------------------------------------------------------------------------
(***************************************************************************)
(* No instruction that stays has an operand that was freed: of what dies   *)
(* no use is left, and none comes.                                         *)
(***************************************************************************)
THEOREM OperandsStay == CascadeSpec => []NoDanglingOperand
  <1>1. CascadeInit => CascadeInv
    BY InitCascadeInv
  <1>2. CascadeInv /\ [CascadeNext]_cascadeVars => CascadeInv'
    BY NextCascadeInv
  <1>3. CascadeInv => NoDanglingOperand
    <2> SUFFICES ASSUME CascadeInv, NEW i \in Insts \ erased, NEW k \in DOMAIN operands[i],
                        operands[i][k] \in erased
                 PROVE  FALSE
      BY DEF NoDanglingOperand
    <2>1. operands[i][k] \in Dead /\ operands[i][k] \in Insts
      BY DEF CascadeInv, Deaths, Dead
    <2>2. k \in 1 .. 2
      BY DEF CascadeInv, Links
    <2>3. Node(i, k) \in UsesOf(operands[i][k])
      BY <2>2 DEF UsesOf, Slots, Node
    <2>4. QED  BY <2>1, <2>3 DEF CascadeInv, Deaths
  <1>4. QED  BY <1>1, <1>2, <1>3, PTL DEF CascadeSpec

(***************************************************************************)
(* When the walk ends, having used no freed instruction, all that depends  *)
(* on the root is gone; of the rest goes, at any step, only what has no    *)
(* effect and had users, after all of them.                                *)
(***************************************************************************)
THEOREM CascadeRight == CascadeSpec => []CascadeIsExact
  <1>1. CascadeInit => CascadeInv
    BY InitCascadeInv
  <1>2. CascadeInv /\ [CascadeNext]_cascadeVars => CascadeInv'
    BY NextCascadeInv
  <1>3. ASSUME CascadeInv, Finished, NEW j \in Insts, DependsOn(Root, j)
        PROVE  j \in erased
    <2>1. Links /\ Walk /\ Deaths
      BY <1>3 DEF CascadeInv
    <2>2. \A n \in visited : users[get_user(n)] \subseteq visited
      BY <1>3, <2>1 DEF Walk, Finished, Unvisited
    <2>3. VisitedInsts \subseteq Insts /\ Root \in VisitedInsts
      BY <1>3, <2>1, SlotParts, CascadeAssumption DEF Walk, VisitedInsts, Finished
    <2>4. \A k \in VisitedInsts : {get_user(n) : n \in users[k]} \subseteq VisitedInsts
      BY <2>2 DEF VisitedInsts
    <2>5. VisitedInsts \subseteq erased
      BY <1>3, <2>1 DEF Deaths, Dead, Finished, Idle
    <2>6. QED  BY <1>3, <2>3, <2>4, <2>5, DependsLeast
  <1>4. ASSUME CascadeInv, NEW j \in erased
        PROVE  \/ DependsOn(Root, j)
               \/ j \in pure /\ users[j] # {} /\ \A n \in users[j] : get_user(n) \in erased
    <2>1. Links /\ Walk /\ Deaths /\ Bereft
      BY <1>4 DEF CascadeInv
    <2>2. CASE j \in VisitedInsts
      BY <2>1, <2>2 DEF Walk, VisitedInsts
    <2>3. CASE j \notin VisitedInsts
      <3>1. j \in Dead /\ j \in Insts /\ j \in pure /\ UsesOf(j) = {}
        BY <2>1, <2>3 DEF Deaths, Dead
      <3>2. users[j] # {} /\ \A n \in users[j] : get_user(n) \in erased
        BY <2>1, <2>3, <3>1 DEF Bereft
      <3>3. QED  BY <3>1, <3>2
    <2>4. QED  BY <2>2, <2>3
  <1>5. CascadeInv => CascadeIsExact
    BY <1>3, <1>4 DEF CascadeIsExact
  <1>6. QED  BY <1>1, <1>2, <1>5, PTL DEF CascadeSpec

----------------------------------------------------------------------------
(***************************************************************************)
(* Single links.                                                           *)
(***************************************************************************)
LEMMA InitLinkInv ==
  ASSUME CascadeInit, SingleLink
  PROVE  LinkInv
  <1>1. users = [i \in Insts |-> UsesOf(i)]
    BY DEF CascadeInit, CascadeStart
  <1>2. LinkedOnce
    <2> SUFFICES ASSUME NEW i \in Insts, NEW j \in Insts, NEW n \in UsesOf(i), NEW m \in UsesOf(j),
                        DependsOn(Root, i), DependsOn(Root, j), get_user(n) = get_user(m)
                 PROVE  n = m /\ get_user(n) # Root
      BY <1>1 DEF LinkedOnce
    <2>1. /\ n[1] \in Insts /\ n[2] \in DOMAIN operands[n[1]] /\ operands[n[1]][n[2]] = i
          /\ m[2] \in DOMAIN operands[n[1]] /\ operands[n[1]][m[2]] = j /\ n[1] = m[1]
      BY DEF UsesOf, Slots, Node, get_user
    <2>2. n[2] = m[2] /\ n[1] # Root
      BY <2>1 DEF SingleLink
    <2>3. n = <<n[1], n[2]>> /\ m = <<m[1], m[2]>>
      BY DEF UsesOf, Slots, Node
    <2>4. QED  BY <2>1, <2>2, <2>3 DEF get_user
  <1>3. QED  BY <1>2 DEF LinkInv, CascadeInit, CascadeStart, Dead

(* A node that is come to and is no root is linked to one before it. *)
LEMMA VisitedByLink ==
  ASSUME CascadeInv, LinkedOnce, NEW i \in VisitedInsts, NEW j \in Insts, NEW n \in users[j],
         DependsOn(Root, j), get_user(n) = i
  PROVE  n \in visited /\ j \in VisitedInsts
  <1>1. Walk /\ Links
    BY DEF CascadeInv
  <1>2. PICK m \in visited : get_user(m) = i
    BY DEF VisitedInsts
  <1>3. n \in Slots
    BY <1>1 DEF Links
  <1>4. i # Root
    BY DEF LinkedOnce
  <1>5. m # RootNode
    BY <1>2, <1>4, SlotParts
  <1>6. PICK p \in visited : m \in users[get_user(p)]
    BY <1>1, <1>2, <1>5 DEF Walk
  <1>7. get_user(p) \in Insts /\ DependsOn(Root, get_user(p))
    BY <1>1, <1>6, SlotParts, CascadeAssumption DEF Walk
  <1>8. n = m
    BY <1>2, <1>6, <1>7 DEF LinkedOnce
  <1>9. get_user(p) = j
    BY <1>1, <1>6, <1>7, <1>8 DEF Links
  <1>10. QED  BY <1>2, <1>6, <1>8, <1>9 DEF VisitedInsts

LEMMA NextLinkInv ==
  ASSUME CascadeInv, LinkInv, [CascadeNext]_cascadeVars
  PROVE  LinkInv'
  <1> USE DEF LinkInv
  <1>1. CASE users' = users /\ ~freed_used'
             /\ \A i \in Dead' : DependsOn(Root, i) => i \in VisitedInsts'
    <2>1. \A i : DependsOn(Root, i)' <=> DependsOn(Root, i)
      BY <1>1 DEF DependsOn
    <2>2. LinkedOnce'
      BY <1>1, <2>1 DEF LinkedOnce
    <2>3. QED  BY <1>1, <2>1, <2>2
  <1>2. ASSUME NEW n \in Slots \cup {RootNode}, Come(n), get_user(n) \notin erased, Idle
        PROVE  LinkInv'
    <2>1. visited' = visited \cup {n} /\ DeleteUser(get_user(n))
      BY <1>2 DEF Come
    <2>2. NowDeadInsts' = {get_user(n)} /\ UNCHANGED <<users, erased, freed_used>>
      BY <2>1 DEF DeleteUser
    <2>3. VisitedInsts' = VisitedInsts \cup {get_user(n)} /\ Dead' \subseteq Dead \cup {get_user(n)}
      BY <2>1, <2>2 DEF VisitedInsts, Dead
    <2>4. QED  BY <1>1, <2>2, <2>3
  <1>3. CASE DeleteRoot
    <2>1. visited = {} /\ Come(RootNode) /\ Idle
      BY <1>3 DEF DeleteRoot
    <2>2. Root \notin Dead
      BY <2>1 DEF CascadeInv, Links, Deaths, VisitedInsts
    <2>3. QED  BY <1>2, <2>1, <2>2, SlotParts DEF Dead
  <1>4. ASSUME NEW m \in 1 .. Len(path), NEW n \in Slots, DeleteNext(m, n)
        PROVE  LinkInv'
    <2> DEFINE j == get_user(path[m])
    <2>1. n \in users[j] /\ n \notin visited /\ Come(n) /\ Idle
      BY <1>4 DEF DeleteNext, Unvisited
    <2>2. path[m] \in visited
      BY DEF CascadeInv, Walk
    <2>3. j \in Insts /\ DependsOn(Root, j)
      BY <2>2, SlotParts, CascadeAssumption DEF CascadeInv, Walk
    <2> HIDE DEF j
    <2>4. DependsOn(Root, get_user(n))
      BY <2>1, <2>3, DependsStep
    <2>5. get_user(n) \notin VisitedInsts
      BY <2>1, <2>3, VisitedByLink
    <2>6. QED  BY <1>2, <2>1, <2>4, <2>5 DEF Dead
  <1>5. ASSUME NEW i \in Insts, Zap(i)
        PROVE  LinkInv'
    <2>1. /\ UNCHANGED <<users, visited, freed_used>> /\ i \in NowDeadInsts
          /\ Dead' = Dead \cup Dying(i)
      BY <1>5 DEF Zap, Dead
    <2>2. ASSUME NEW o \in Dying(i), DependsOn(Root, o)
          PROVE  o \in VisitedInsts
      <3>1. PICK k \in DOMAIN operands[i] : operands[i][k] = o
        BY DEF Dying
      <3>2. o \in Insts /\ k \in 1 .. 2
        BY <3>1 DEF CascadeInv, Links, Dying
      <3>3. Node(i, k) \in UsesOf(o)
        BY <3>1, <3>2 DEF UsesOf, Slots, Node
      <3>4. Node(i, k) \in users[o] /\ get_user(Node(i, k)) = i
        BY <3>2, <3>3 DEF CascadeInv, Links, get_user, Node
      <3>5. DependsOn(Root, i)
        BY <2>2, <3>2, <3>4, DependsStep
      <3>6. i \in VisitedInsts
        BY <2>1, <3>5 DEF Dead
      <3>7. QED  BY <2>2, <3>2, <3>4, <3>6, VisitedByLink
    <2>3. VisitedInsts' = VisitedInsts
      BY <2>1 DEF VisitedInsts
    <2>4. QED  BY <1>1, <2>1, <2>2, <2>3
  <1>6. CASE UNCHANGED cascadeVars
    BY <1>1, <1>6 DEF cascadeVars, Dead, VisitedInsts
  <1>7. QED  BY <1>3, <1>4, <1>5, <1>6 DEF CascadeNext

(***************************************************************************)
(* If each instruction depends on the root in one way at most, the walk    *)
(* never uses an instruction it has freed.                                 *)
(***************************************************************************)
THEOREM SingleLinkIsSafe == SingleLink /\ CascadeSpec => []NoUseAfterDelete
  <1>1. CascadeInit => CascadeInv
    BY InitCascadeInv
  <1>2. CascadeInv /\ [CascadeNext]_cascadeVars => CascadeInv'
    BY NextCascadeInv
  <1>3. CascadeInit /\ SingleLink => LinkInv
    BY InitLinkInv
  <1>4. CascadeInv /\ LinkInv /\ [CascadeNext]_cascadeVars => LinkInv'
    BY NextLinkInv
  <1>5. LinkInv => NoUseAfterDelete
    BY DEF LinkInv, NoUseAfterDelete
  <1>6. QED  BY <1>1, <1>2, <1>3, <1>4, <1>5, PTL DEF CascadeSpec

----------------------------------------------------------------------------
(***************************************************************************)
(* Dead stores.                                                            *)
(***************************************************************************)
Writing == {"store", "memset", "memcpy", "lifetime_end"}

(* an instruction of which nothing but the length has become less *)
Trim(c, d) ==
  c = d \/ /\ c.op = d.op /\ c.op \in {"memset", "memcpy"}
           /\ c.loc.ptr = d.loc.ptr /\ c.loc.off = d.loc.off /\ c.loc.size <= d.loc.size
           /\ c.op = "memcpy" => c.src.ptr = d.src.ptr /\ c.src.off = d.src.off

(* the function and its instructions, most as they were *)
FunctionOK ==
  /\ fn \in Function /\ fn.split <= N
  /\ first \in [1 .. N -> Instruction]
  /\ code \in [1 .. N -> Instruction]
  /\ \A i \in 1 .. N : Trim(code[i], first[i])
  /\ alive \subseteq 1 .. N

(* a store that is left is of a load that is left *)
LoadsLeft ==
  \A i \in alive : code[i].op = "store" /\ code[i].val # 0 =>
    LET j == code[i].val
    IN j \in alive /\ j < i /\ code[j].op = "load" /\ code[j].loc.size = code[i].loc.size

(* the places the pass is at *)
OnTheWay ==
  /\ BB \in {1, 2} /\ Inst \in 0 .. N /\ dep \in 0 .. N /\ from \in {0, 1, 2}
  /\ BBI = End(BB) \/ BBI \in Left(BB)

(* what the search has passed on its way up does not read the place *)
Overwriting ==
  pc = "deps" =>
    /\ Inst \in Left(BB) /\ dep \in Left(BB) /\ dep < Inst
    /\ hasMemoryWrite(Inst)
    /\ \A j \in Left(BB) : dep < j /\ j < Inst => ~MayRead(code[j], Loc)

(* on the way up from a free, nothing below dep touches the object *)
Freeing ==
  pc = "free" =>
    /\ Inst \in Left(BB) /\ code[Inst].op = "free" /\ Inst < BBI
    /\ from \in {1, BB} /\ (from # BB => ~fn.cond)
    /\ dep # 0 => dep \in Left(from) /\ dep < Inst
    /\ \A j \in alive : (from = 2 => j > fn.split) /\ dep < j /\ j < Inst =>
         ~Touches(code[j], Whole("heap"))

(* and below a return the dead objects are not read *)
Ending ==
  /\ DeadStackObjects \subseteq {"alloca", "heap"} \ (fn.captured \cap {"heap"})
  /\ pc = "up" => BB = 2 /\ BBI \in 1 .. N + 1 /\ fn.ret /\ DeadAreUnread
  /\ pc = "done" => BBI \in 1 .. N + 1
  /\ pc \in {"walk", "deps", "free", "up", "done"}

(* the inductive invariant of the pass *)
WalkInv == FunctionOK /\ LoadsLeft /\ OnTheWay /\ Overwriting /\ Freeing /\ Ending

----------------------------------------------------------------------------
(***************************************************************************)
(* Instructions and places.                                                *)
(***************************************************************************)
LEMMA LocationParts ==
  ASSUME NEW l \in Location
  PROVE  /\ l.ptr \in Objects \cup {"select"}
         /\ l.off \in Nat /\ l.size \in Nat /\ l.size > 0 /\ l.off + l.size <= Size
         /\ Covers(l) = {b \in Int : l.off <= b /\ b < l.off + l.size}
         /\ Covers(l) \subseteq Bytes /\ Covers(l) # {}
<1>1. l \in [ptr : Objects \cup {"select"}, off : Bytes, size : 1 .. Size]
      /\ l.off + l.size <= Size
  BY DEF Location
<1>2. /\ l.ptr \in Objects \cup {"select"}
      /\ l.off \in Nat /\ l.size \in Nat /\ l.size > 0 /\ Size \in Nat
  BY <1>1, DeadStoresAssumption DEF Bytes
<1>3. Covers(l) = {b \in Int : l.off <= b /\ b < l.off + l.size}
  BY <1>2 DEF Covers
<1>4. Covers(l) \subseteq Bytes /\ l.off \in Covers(l)
  BY <1>1, <1>2, <1>3 DEF Bytes
<1>5. QED BY <1>1, <1>2, <1>3, <1>4

(* What an instruction is made of. *)
LEMMA InstructionParts ==
  ASSUME NEW c \in Instruction
  PROVE  /\ c.op \in Writing \cup {"load", "call", "free"}
         /\ c.op \in Writing \cup {"load"} => c.loc \in Location
         /\ c.op = "memcpy" => c.src \in Location /\ c.src.size = c.loc.size
         /\ c.op = "store" => c.val \in Nat /\ c.volatile \in BOOLEAN
         /\ c.op = "load" => c.used \in BOOLEAN
  BY DEF Instruction, Writing

(* The instructions left in a block, by their places. *)
LEMMA LeftIs ==
  ASSUME FunctionOK
  PROVE  /\ N \in Nat /\ fn.split \in Nat /\ fn.split <= N
         /\ Left(1) = {i \in alive : i <= fn.split}
         /\ Left(2) = {i \in alive : i > fn.split}
         /\ End(1) = fn.split + 1 /\ End(2) = N + 1
         /\ \A i \in alive : i \in Nat /\ i >= 1 /\ i <= N
<1>1. N \in Nat /\ fn.split \in Nat /\ fn.split <= N
  BY DeadStoresAssumption DEF FunctionOK, Function, N
<1>2. \A i \in alive : i \in Nat /\ i >= 1 /\ i <= N
  BY <1>1 DEF FunctionOK
<1>3. \A i \in alive : ~(i <= fn.split) <=> i > fn.split
  BY <1>1, <1>2
<1>4. Left(1) = {i \in alive : i <= fn.split}
  BY DEF Left
<1>5. Left(2) = {i \in alive : i > fn.split}
  BY <1>3 DEF Left
<1>6. End(1) = fn.split + 1 /\ End(2) = N + 1
  BY DEF End
<1>7. QED BY <1>1, <1>2, <1>4, <1>5, <1>6

(***************************************************************************)
(* The greatest and the least of some instructions.                        *)
(***************************************************************************)
LEMMA LeastNumber ==
  ASSUME NEW S, S \subseteq Nat, S # {}
  PROVE  \E k \in S : \A j \in S : k <= j
<1>1. IsWellFoundedOn({p \in Nat \X Nat : p[1] < p[2]}, Nat)
  BY NatLessThanWellFounded DEF OpToRel
<1>2. PICK k \in S : \A j \in S : ~(<<j, k>> \in {p \in Nat \X Nat : p[1] < p[2]})
  BY <1>1, WFMin
<1>3. ASSUME NEW j \in S PROVE k <= j
  <2>1. j \in Nat /\ k \in Nat
    BY <1>2
  <2>2. ~(j < k)
    BY <1>2, <2>1
  <2>3. QED BY <2>1, <2>2
<1>4. QED BY <1>3

(* The least of a set of numbers. *)
LEMMA MinIs ==
  ASSUME NEW S, S \subseteq Nat, S # {}
  PROVE  Min(S) \in S /\ \A j \in S : Min(S) <= j
  BY LeastNumber DEF Min

(* The greatest of them. *)
LEMMA MaxIs ==
  ASSUME NEW S, NEW n \in Nat, S \subseteq 0 .. n, S # {}
  PROVE  Max(S) \in S /\ \A j \in S : j <= Max(S)
<1> DEFINE T == {n - j : j \in S}
<1>1. T \subseteq Nat /\ T # {}
  <2>1. ASSUME NEW j \in S PROVE n - j \in Nat
    <3>1. j \in 0 .. n
      OBVIOUS
    <3>2. QED BY <3>1
  <2>2. T \subseteq Nat
    BY <2>1
  <2>3. PICK j : j \in S
    OBVIOUS
  <2>4. n - j \in T
    BY <2>3
  <2>5. QED BY <2>2, <2>4
<1>2. PICK k \in T : \A t \in T : k <= t
  <2> HIDE DEF T
  <2>1. QED BY <1>1, LeastNumber
<1>3. PICK m \in S : k = n - m
  BY <1>2
<1>4. \A j \in S : m >= j
  <2>1. \A j \in S : n - j \in T
    OBVIOUS
  <2>2. \A j \in S : n - m <= n - j
    BY <1>2, <1>3, <2>1
  <2>3. QED BY <2>2
<1>5. Max(S) \in S /\ \A j \in S : Max(S) >= j
  BY <1>4 DEF Max
<1>6. QED BY <1>5

(* NextOf is the nearest instruction below that is left, or the end. *)
LEMMA NextOfIs ==
  ASSUME FunctionOK, NEW b \in {1, 2}, NEW i \in Int
  PROVE  \/ NextOf(i, b) = End(b) /\ \A j \in Left(b) : j <= i
         \/ /\ NextOf(i, b) \in Left(b) /\ NextOf(i, b) > i
            /\ \A j \in Left(b) : j <= i \/ NextOf(i, b) <= j
<1> DEFINE S == {j \in Left(b) : j > i}
<1>1. S \subseteq Nat /\ \A j \in Left(b) : j \in Nat
  BY LeftIs
<1>2. CASE S = {}
  <2>1. \A j \in Left(b) : j <= i
    BY <1>1, <1>2
  <2>2. QED BY <1>2, <2>1 DEF NextOf
<1>3. CASE S # {}
  <2>1. NextOf(i, b) = Min(S)
    BY <1>3 DEF NextOf
  <2>2. Min(S) \in S /\ \A j \in S : Min(S) <= j
    <3> HIDE DEF S
    <3>1. QED BY <1>1, <1>3, MinIs
  <2>3. \A j \in Left(b) : j <= i \/ Min(S) <= j
    <3>1. \A j \in Left(b) : j <= i \/ j \in S
      BY <1>1
    <3>2. QED BY <2>2, <3>1
  <2>4. QED BY <2>1, <2>2, <2>3
<1>4. QED BY <1>2, <1>3

(* Dependency is the nearest above that touches one of the places. *)
LEMMA DependencyIs ==
  ASSUME FunctionOK, NEW left, left \subseteq 1 .. N, NEW locs, NEW i \in Int
  PROVE  \/ /\ Dependency(left, locs, i) = 0
            /\ \A j \in left : j < i => \A loc \in locs : ~Touches(code[j], loc)
         \/ /\ Dependency(left, locs, i) \in left /\ Dependency(left, locs, i) < i
            /\ \A j \in left : Dependency(left, locs, i) < j /\ j < i =>
                 \A loc \in locs : ~Touches(code[j], loc)
<1> DEFINE S == {j \in left : j < i /\ \E loc \in locs : Touches(code[j], loc)}
<1>1. S \subseteq 0 .. N /\ N \in Nat
  <2>1. N \in Nat
    BY LeftIs
  <2>2. S \subseteq left
    OBVIOUS
  <2>3. 1 .. N \subseteq 0 .. N
    BY <2>1
  <2>4. QED BY <2>1, <2>2, <2>3
<1>2. CASE S = {}
  BY <1>2 DEF Dependency
<1>3. CASE S # {}
  <2>1. Dependency(left, locs, i) = Max(S)
    BY <1>3 DEF Dependency
  <2>2. Max(S) \in S /\ \A j \in S : j <= Max(S)
    <3> HIDE DEF S
    <3>1. QED BY <1>1, <1>3, MaxIs
  <2>3. \A j \in left : Max(S) < j /\ j < i => j \notin S
    BY <1>1, <2>2
  <2>4. QED BY <2>1, <2>2, <2>3
<1>4. QED BY <1>2, <1>3
----------------------------------------------------------------------------
(* what may be read or touched depends on the function only *)
LEMMA SameAccess ==
  ASSUME fn' = fn
  PROVE  /\ \A c, l : MayRead(c, l)' <=> MayRead(c, l)
         /\ \A c, l : Touches(c, l)' <=> Touches(c, l)
  BY DEF MayRead, Touches, Accessed, MayAlias, ObjectsOf, Visible, Covers, Whole

(* What is left of a block when instructions have gone. *)
LEMMA LeftGoes ==
  ASSUME FunctionOK, fn' = fn, alive' \subseteq alive
  PROVE  /\ \A b \in {1, 2} : Left(b)' = Left(b) \cap alive' /\ End(b)' = End(b)
         /\ Left(BB)' = IF BB' = BB THEN Left(BB) \cap alive' ELSE Left(BB)'
  BY DEF Left, End

(* a deletion takes the load with it that only the store of it used *)
LEMMA Deleted ==
  ASSUME FunctionOK, LoadsLeft, NEW i \in alive, hasMemoryWrite(i) \/ TriviallyDead(i, {}),
         DeleteDeadInstruction(i), UNCHANGED <<first, fn, code>>
  PROVE  /\ FunctionOK' /\ LoadsLeft' /\ i \notin alive' /\ alive' \subseteq alive
         /\ \A j \in alive \ alive' :
              j # i => /\ code[i].op = "store" /\ code[i].val = j /\ j < i
                       /\ code[j].op = "load" /\ ~code[j].used
<1>1. alive' = alive \ ({i} \cup {j \in alive : /\ Is(i, {"store"}) /\ code[i].val = j
                                               /\ TriviallyDead(j, {i})})
  BY DEF DeleteDeadInstruction
<1>2. FunctionOK' /\ i \notin alive' /\ alive' \subseteq alive
  BY <1>1 DEF FunctionOK, N
<1>3. ASSUME NEW j \in alive \ alive', j # i
      PROVE  /\ code[i].op = "store" /\ code[i].val = j /\ j < i
             /\ code[j].op = "load" /\ ~code[j].used /\ UsedBy(j) \subseteq {i}
  <2>1. Is(i, {"store"}) /\ code[i].val = j /\ TriviallyDead(j, {i})
    BY <1>1, <1>3
  <2>2. code[i].op = "store" /\ code[j].op = "load" /\ ~code[j].used /\ UsedBy(j) \subseteq {i}
    BY <2>1 DEF TriviallyDead, Is
  <2>3. j # 0
    BY LeftIs
  <2>4. QED BY <2>1, <2>2, <2>3 DEF LoadsLeft
<1>4. ASSUME NEW k \in alive', code[k].op = "store", code[k].val # 0
      PROVE  code[k].val \in alive'
  <2>1. k \in alive /\ code[k].val \in alive /\ k # i
    BY <1>1, <1>4 DEF LoadsLeft
  <2>2. k \in UsedBy(code[k].val)
    BY <1>4, <2>1 DEF UsedBy, Is
  <2>3. CASE code[k].val = i
    <3>1. code[i].op = "load"
      BY <1>4, <2>1, <2>3 DEF LoadsLeft
    <3>2. UsedBy(i) \subseteq {}
      BY <3>1 DEF hasMemoryWrite, TriviallyDead, Is
    <3>3. QED BY <2>2, <2>3, <3>2
  <2>4. CASE code[k].val # i /\ code[k].val \notin alive'
    BY <1>3, <2>1, <2>2, <2>4
  <2>5. QED BY <2>3, <2>4
<1>5. LoadsLeft'
  BY <1>2, <1>4 DEF LoadsLeft
<1>6. QED BY <1>2, <1>3, <1>5
----------------------------------------------------------------------------
(***************************************************************************)
(* Where the walk is.                                                      *)
(***************************************************************************)
LEMMA BBIs ==
  ASSUME WalkInv, pc \in {"walk", "deps", "free"}
  PROVE  /\ BB \in {1, 2} /\ BBI \in 1 .. N + 1
         /\ BBI <= End(BB)
         /\ BBI < End(BB) => BBI \in Left(BB)
         /\ \A i \in Left(BB) : i < End(BB)
<1>1. FunctionOK /\ OnTheWay
  BY DEF WalkInv
<1>2. BB \in {1, 2} /\ (BBI = End(BB) \/ BBI \in Left(BB))
  BY <1>1 DEF OnTheWay
<1>3. \A i \in Left(BB) : i < End(BB) /\ i \in 1 .. N
  BY <1>1, <1>2, LeftIs
<1>4. End(BB) \in 1 .. N + 1
  BY <1>1, <1>2, LeftIs
<1>5. QED BY <1>1, <1>2, <1>3, <1>4, LeftIs

(* So it is in the block, or its end. *)
LEMMA NextStays ==
  ASSUME WalkInv, NEW b \in {1, 2}, NEW i \in Int
  PROVE  NextOf(i, b) = End(b) \/ NextOf(i, b) \in Left(b)
  BY NextOfIs DEF WalkInv

(* The pass starts where WalkInv says. *)
LEMMA InitWalk ==
  ASSUME Init
  PROVE  WalkInv
<1>1. FunctionOK
  BY DeadStoresAssumption DEF Init, FunctionOK, Trim, N
<1>2. /\ code = first /\ alive = 1 .. N /\ BB = 1 /\ BBI = Begin(1) /\ pc = "walk"
      /\ Inst = 0 /\ dep = 0 /\ from = 0 /\ DeadStackObjects = {} /\ ValuesOK
  BY DEF Init, StartBlock
<1>3. LoadsLeft
  <2>1. ASSUME NEW i \in alive, code[i].op = "store", code[i].val # 0
        PROVE  LET j == code[i].val
               IN /\ j \in alive /\ j < i /\ code[j].op = "load"
                  /\ code[j].loc.size = code[i].loc.size
    <3>1. code[i].val \in Nat /\ i \in 1 .. N
      BY <1>1, <1>2, <2>1, InstructionParts DEF FunctionOK
    <3>2. /\ code[i].val < i /\ first[code[i].val].op = "load"
          /\ first[code[i].val].loc.size = first[i].loc.size
      BY <1>2, <2>1, <3>1 DEF ValuesOK
    <3>3. code[i].val \in 1 .. N
      BY <1>1, <2>1, <3>1, <3>2, LeftIs
    <3>4. QED BY <1>2, <3>2, <3>3
  <2>2. QED BY <2>1 DEF LoadsLeft
<1>4. OnTheWay
  <2>1. NextOf(0, 1) = End(1) \/ NextOf(0, 1) \in Left(1)
    BY <1>1, NextOfIs
  <2>2. N \in Nat
    BY <1>1, LeftIs
  <2>3. QED BY <1>2, <2>1, <2>2 DEF OnTheWay, Begin
<1>5. QED BY <1>1, <1>2, <1>3, <1>4 DEF WalkInv, Overwriting, Freeing, Ending

(* steps that leave the program as it is *)
LEMMA SameProgram ==
  ASSUME WalkInv, UNCHANGED <<first, fn, code, alive>>
  PROVE  FunctionOK' /\ LoadsLeft' /\ \A b \in {1, 2} : Left(b)' = Left(b) /\ End(b)' = End(b)
<1>1. FunctionOK'
  BY DEF WalkInv, FunctionOK, N
<1>2. LoadsLeft'
  BY DEF WalkInv, LoadsLeft
<1>3. QED BY <1>1, <1>2 DEF Left, End

(* Each of its steps leaves WalkInv true. *)
LEMMA SkipKeeps ==
  ASSUME WalkInv, Skip
  PROVE  WalkInv'
<1>1. /\ UNCHANGED <<first, fn, code, alive, BB, Inst, dep, from, DeadStackObjects, pc>>
      /\ pc = "walk" /\ BBI' = NextOf(BBI, BB)
  BY DEF Skip, AtInst
<1>2. FunctionOK' /\ LoadsLeft' /\ \A b \in {1, 2} : Left(b)' = Left(b) /\ End(b)' = End(b)
  BY <1>1, SameProgram
<1>3. OnTheWay'
  <2>1. BB \in {1, 2} /\ BBI \in Int
    BY <1>1, BBIs, LeftIs DEF WalkInv
  <2>2. NextOf(BBI, BB) = End(BB) \/ NextOf(BBI, BB) \in Left(BB)
    BY <2>1, NextStays
  <2>3. Left(BB)' = Left(BB) /\ End(BB)' = End(BB)
    BY <1>1, <1>2, <2>1 DEF Left, End
  <2>4. N' = N
    BY DEF N
  <2>5. QED BY <1>1, <2>1, <2>2, <2>3, <2>4 DEF WalkInv, OnTheWay
<1>4. Ending'
  BY <1>1 DEF WalkInv, Ending
<1>5. QED BY <1>1, <1>2, <1>3, <1>4 DEF WalkInv, Overwriting, Freeing

(* the initial dependency of a write *)
LEMMA InstDepIs ==
  ASSUME WalkInv, AtInst, hasMemoryWrite(BBI), InstDep(BBI) # 0
  PROVE  /\ BBI \in Left(BB) /\ InstDep(BBI) \in Left(BB) /\ InstDep(BBI) < BBI
         /\ \A j \in Left(BB) : InstDep(BBI) < j /\ j < BBI =>
              ~Touches(code[j], code[BBI].loc)
         /\ \A j \in Left(BB) : InstDep(BBI) < j /\ j < BBI =>
              \A l \in Accessed(code[BBI]) : ~Touches(code[j], l)
<1>1. FunctionOK /\ pc = "walk" /\ BBI \in Left(BB)
  BY BBIs DEF WalkInv, AtInst
<1>2. Left(BB) \subseteq 1 .. N /\ BBI \in Int
  BY <1>1, LeftIs DEF Left
<1>3. /\ InstDep(BBI) \in Left(BB) /\ InstDep(BBI) < BBI
      /\ \A j \in Left(BB) : InstDep(BBI) < j /\ j < BBI =>
           \A l \in Accessed(code[BBI]) : ~Touches(code[j], l)
  <2>1. 0 \notin Left(BB)
    BY <1>2
  <2>2. QED BY <1>1, <1>2, <2>1, DependencyIs DEF InstDep
<1>4. code[BBI].loc \in Accessed(code[BBI])
  BY DEF hasMemoryWrite, Is, Accessed
<1>5. QED BY <1>1, <1>3, <1>4

(* what does not touch a place does not read it *)
LEMMA ReadsTouch ==
  ASSUME NEW c \in Instruction, NEW l, MayRead(c, l)
  PROVE  Touches(c, l)
  BY DEF MayRead, Touches, Accessed

LEMMA LookAtKeeps ==
  ASSUME WalkInv, LookAt
  PROVE  WalkInv'
<1>1. /\ UNCHANGED <<first, fn, code, alive, BB, from, DeadStackObjects>>
      /\ pc = "walk" /\ BBI' = NextOf(BBI, BB) /\ Inst' = BBI /\ dep' = InstDep(BBI)
      /\ pc' = "deps" /\ AtInst /\ hasMemoryWrite(BBI) /\ InstDep(BBI) # 0
  BY DEF LookAt, AtInst
<1>2. FunctionOK' /\ LoadsLeft' /\ \A b \in {1, 2} : Left(b)' = Left(b) /\ End(b)' = End(b)
  BY <1>1, SameProgram
<1>3. BB \in {1, 2} /\ BBI \in Int /\ Left(BB) \subseteq 1 .. N
  BY <1>1, BBIs, LeftIs DEF WalkInv, Left
<1>4. Left(BB)' = Left(BB) /\ End(BB)' = End(BB) /\ N' = N
  BY <1>1, <1>2, <1>3 DEF Left, End, N
<1>5. OnTheWay'
  <2>1. NextOf(BBI, BB) = End(BB) \/ NextOf(BBI, BB) \in Left(BB)
    BY <1>3, NextStays
  <2>2. BBI \in 0 .. N /\ InstDep(BBI) \in 0 .. N
    BY <1>1, <1>3, InstDepIs, LeftIs DEF WalkInv
  <2>3. QED BY <1>1, <1>3, <1>4, <2>1, <2>2 DEF WalkInv, OnTheWay
<1>6. Overwriting'
  <2>1. ASSUME NEW j \in Left(BB), InstDep(BBI) < j, j < BBI
        PROVE  ~MayRead(code[j], code[BBI].loc)
    <3>1. code[j] \in Instruction
      BY <1>3 DEF WalkInv, FunctionOK
    <3>2. QED BY <1>1, <2>1, <3>1, InstDepIs, ReadsTouch
  <2>2. \A c, l : MayRead(c, l)' <=> MayRead(c, l)
    BY <1>1, SameAccess
  <2>3. PICK B : B = BBI
    OBVIOUS
  <2>4. PICK C : C = code
    OBVIOUS
  <2>5. \A j \in Left(BB) : dep' < j /\ j < Inst' => ~MayRead(C[j], C[B].loc)'
    BY <1>1, <2>1, <2>2, <2>3, <2>4
  <2>6. \A j \in Left(BB)' : dep' < j /\ j < Inst' => ~MayRead(code[j], Loc)'
    BY <1>1, <1>4, <2>3, <2>4, <2>5 DEF Loc
  <2>7. hasMemoryWrite(Inst)'
    BY <1>1 DEF hasMemoryWrite, Is
  <2>8. Inst' \in Left(BB)' /\ dep' \in Left(BB)' /\ dep' < Inst'
    BY <1>1, <1>4, InstDepIs
  <2>9. QED BY <2>6, <2>7, <2>8 DEF Overwriting
<1>7. Ending'
  BY <1>1 DEF WalkInv, Ending
<1>8. QED BY <1>1, <1>2, <1>5, <1>6, <1>7 DEF WalkInv, Freeing

(* the last of the instructions before one, or that one *)
LEMMA GoBack ==
  ASSUME FunctionOK, NEW S, S \subseteq alive, NEW b \in {1, 2}, NEW e \in 1 .. N + 1,
         NEW x, x = IF {j \in S : j \in Left(b) /\ j < e} = {} THEN e
                      ELSE Max({j \in S : j \in Left(b) /\ j < e})
  PROVE  x = e \/ (x \in Left(b) /\ x \in S)
<1> DEFINE T == {j \in S : j \in Left(b) /\ j < e}
<1>1. T \subseteq 0 .. N /\ N \in Nat
  <2>1. alive \subseteq 1 .. N /\ N \in Nat
    BY LeftIs DEF FunctionOK
  <2>2. T \subseteq S /\ 1 .. N \subseteq 0 .. N
    BY <2>1
  <2>3. QED BY <2>1, <2>2
<1>2. CASE T = {}
  BY <1>2
<1>3. CASE T # {}
  <2>1. Max(T) \in T
    <3> HIDE DEF T
    <3>1. QED BY <1>1, <1>3, MaxIs
  <2>2. QED BY <1>3, <2>1
<1>4. QED BY <1>2, <1>3

LEMMA RemoveStoredBackKeeps ==
  ASSUME WalkInv, RemoveStoredBack
  PROVE  WalkInv'
<1> DEFINE NextInst == NextOf(BBI, BB)
<1>1. /\ UNCHANGED <<first, fn, code, BB, Inst, dep, from, DeadStackObjects, pc>>
      /\ pc = "walk" /\ AtInst /\ hasMemoryWrite(BBI) /\ DeleteDeadInstruction(BBI)
      /\ LET before == {j \in alive' : j \in Left(BB) /\ j < NextInst}
         IN BBI' = IF before = {} THEN NextInst ELSE Max(before)
  BY DEF RemoveStoredBack, AtInst
<1>2. BBI \in Left(BB) /\ BB \in {1, 2} /\ BBI \in alive
  BY <1>1, BBIs DEF AtInst, Left
<1>3. /\ FunctionOK' /\ LoadsLeft' /\ BBI \notin alive' /\ alive' \subseteq alive
      /\ \A j \in alive \ alive' : j # BBI => j < BBI
  BY <1>1, <1>2, Deleted DEF WalkInv
<1>4. Left(BB)' = Left(BB) \cap alive' /\ End(BB)' = End(BB) /\ N' = N
  BY <1>1, <1>2, <1>3, LeftGoes DEF WalkInv, N, Left, End
<1>5. BBI' = End(BB) \/ BBI' \in Left(BB) \cap alive'
  <2>1. FunctionOK
    BY DEF WalkInv
  <2>2. BBI \in Int /\ \A i \in alive : i \in Int
    BY <1>2, <2>1, LeftIs
  <2>3. NextInst = End(BB) \/ (NextInst \in Left(BB) /\ NextInst > BBI)
    BY <1>2, <2>1, <2>2, NextOfIs
  <2>4. NextInst \in 1 .. N + 1
    BY <1>2, <2>1, <2>3, LeftIs DEF Left
  <2>5. NextInst = End(BB) \/ NextInst \in Left(BB) \cap alive'
    <3>1. CASE NextInst \in Left(BB) /\ NextInst > BBI
      <4>1. NextInst \in alive
        BY <3>1 DEF Left
      <4>2. NextInst \in alive'
        BY <1>3, <2>2, <3>1, <4>1
      <4>3. QED BY <3>1, <4>2
    <3>2. QED BY <2>3, <3>1
  <2>6. BBI' = NextInst \/ (BBI' \in Left(BB) /\ BBI' \in alive')
    <3> HIDE DEF NextInst
    <3>1. QED BY <1>1, <1>2, <1>3, <2>1, <2>4, GoBack
  <2>7. QED BY <2>5, <2>6
<1>6. OnTheWay'
  BY <1>1, <1>4, <1>5 DEF WalkInv, OnTheWay
<1>7. Ending'
  BY <1>1 DEF WalkInv, Ending
<1>8. QED BY <1>1, <1>3, <1>6, <1>7 DEF WalkInv, Overwriting, Freeing

LEMMA GiveUpKeeps ==
  ASSUME WalkInv, GiveUp \/ StopFree
  PROVE  WalkInv'
<1>1. /\ UNCHANGED <<first, fn, code, alive, BB, BBI, Inst, dep, from, DeadStackObjects>>
      /\ pc \in {"deps", "free"} /\ pc' = "walk"
  BY DEF GiveUp, StopFree
<1>2. FunctionOK' /\ LoadsLeft'
  BY <1>1, SameProgram
<1>3. OnTheWay'
  BY <1>1 DEF WalkInv, OnTheWay, Left, End, N
<1>4. QED BY <1>1, <1>2, <1>3 DEF WalkInv, Overwriting, Freeing, Ending

LEMMA RemoveOverwrittenKeeps ==
  ASSUME WalkInv, RemoveOverwritten
  PROVE  WalkInv'
<1>1. /\ UNCHANGED <<first, fn, code, BB, Inst, dep, from, DeadStackObjects>>
      /\ pc = "deps" /\ pc' = "walk" /\ hasMemoryWrite(dep) /\ DeleteDeadInstruction(dep)
      /\ LET before == {j \in alive' : j \in Left(BB) /\ j < Inst}
         IN BBI' = IF before = {} THEN Inst ELSE Max(before)
  BY DEF RemoveOverwritten
<1>2. /\ FunctionOK /\ BB \in {1, 2} /\ Inst \in Left(BB) /\ dep \in Left(BB) /\ dep < Inst
      /\ dep \in alive /\ Inst \in alive
  BY <1>1, BBIs DEF WalkInv, Overwriting, Left
<1>3. /\ FunctionOK' /\ LoadsLeft' /\ alive' \subseteq alive
      /\ \A j \in alive \ alive' : j # dep => j < dep
  BY <1>1, <1>2, Deleted DEF WalkInv
<1>4. Left(BB)' = Left(BB) \cap alive' /\ End(BB)' = End(BB) /\ N' = N
  BY <1>1, <1>2, <1>3, LeftGoes DEF N, Left, End
<1>5. \A i \in alive : i \in Int /\ i \in 1 .. N + 1
  BY <1>2, LeftIs
<1>6. Inst \in alive'
  BY <1>2, <1>3, <1>5
<1>7. BBI' = Inst \/ (BBI' \in Left(BB) /\ BBI' \in alive')
  BY <1>1, <1>2, <1>3, <1>5, GoBack
<1>8. OnTheWay'
  BY <1>1, <1>2, <1>4, <1>6, <1>7 DEF WalkInv, OnTheWay
<1>9. QED BY <1>1, <1>3, <1>8 DEF WalkInv, Overwriting, Freeing, Ending

(* a shorter write is an instruction, and reads no more *)
LEMMA Shorter ==
  ASSUME WalkInv, pc = "deps", hasMemoryWrite(dep)
  PROVE  LET c == Trimmed(code[dep]) IN
         /\ c \in Instruction /\ Trim(c, first[dep])
         /\ c.op = code[dep].op /\ (c.op = "store" => c = code[dep])
         /\ Trim(c, code[dep])
         /\ c # code[dep] => /\ Obliterates /\ isShortenable(dep)
                             /\ OverwriteEnd(Loc, code[dep].loc)
                             /\ c.loc.size = Loc.off - code[dep].loc.off
<1>1. /\ FunctionOK /\ Inst \in alive /\ dep \in alive /\ hasMemoryWrite(Inst)
      /\ code[Inst] \in Instruction /\ code[dep] \in Instruction
      /\ Trim(code[dep], first[dep])
  BY DEF WalkInv, Overwriting, FunctionOK, Left
<1>2. PICK c : c = code[dep]
  OBVIOUS
<1>3. PICK l : l = Loc
  OBVIOUS
<1>4. l \in Location
  BY <1>1, <1>3, InstructionParts DEF hasMemoryWrite, Is, Loc, Writing
<1>5. CASE Trimmed(c) = c
  BY <1>1, <1>2, <1>5 DEF Trim
<1>6. CASE Trimmed(c) # c
  <2>1. /\ Obliterates /\ isShortenable(dep) /\ OverwriteEnd(l, c.loc)
        /\ Trimmed(c) = LET length == l.off - c.loc.off IN
             IF c.op = "memcpy" THEN [c EXCEPT !.loc.size = length, !.src.size = length]
                                ELSE [c EXCEPT !.loc.size = length]
    BY <1>3, <1>6 DEF Trimmed
  <2>2. c.op \in {"memset", "memcpy"} /\ l.off > c.loc.off /\ l.off < c.loc.off + c.loc.size
    BY <1>2, <2>1 DEF isShortenable, Is, OverwriteEnd
  <2>3. c.loc \in Location /\ (c.op = "memcpy" => c.src \in Location /\ c.src.size = c.loc.size)
    BY <1>1, <1>2, <2>2, InstructionParts DEF Writing
  <2>4. PICK n : n = l.off - c.loc.off
    OBVIOUS
  <2>5. n \in Nat /\ n > 0 /\ n < c.loc.size
    BY <1>4, <2>2, <2>3, <2>4, LocationParts
  <2>6. ASSUME NEW m \in Location, m.size = c.loc.size
        PROVE  [m EXCEPT !.size = n] \in Location
    <3>1. m \in [ptr : Objects \cup {"select"}, off : Bytes, size : 1 .. Size]
          /\ m.off + m.size <= Size
      BY DEF Location
    <3>2. n \in 1 .. Size /\ m.off \in Nat /\ m.size \in Nat /\ Size \in Nat
      BY <2>5, <2>6, <3>1, LocationParts, DeadStoresAssumption
    <3>3. PICK k : k = [m EXCEPT !.size = n]
      OBVIOUS
    <3>4. k \in [ptr : Objects \cup {"select"}, off : Bytes, size : 1 .. Size]
          /\ k.off = m.off /\ k.size = n
      BY <3>1, <3>2, <3>3
    <3>5. k.off + k.size <= Size
      BY <2>5, <2>6, <3>1, <3>2, <3>4
    <3>6. QED BY <3>3, <3>4, <3>5 DEF Location
  <2>10. c.loc.size \in Nat /\ first[dep].loc.size \in Nat /\ c.loc.size <= first[dep].loc.size
    <3>1. dep \in 1 .. N /\ first[dep] \in Instruction /\ first[dep].op = c.op
      BY <1>1, <1>2 DEF FunctionOK, Trim
    <3>2. first[dep].loc \in Location
      BY <2>2, <3>1, InstructionParts DEF Writing
    <3>3. c.loc.size \in Nat /\ first[dep].loc.size \in Nat
      BY <2>3, <3>2, LocationParts
    <3>4. QED BY <1>1, <1>2, <3>3 DEF Trim
  <2>7. CASE c.op = "memset"
    <3>1. Trimmed(c) = [c EXCEPT !.loc.size = n]
      BY <2>1, <2>4, <2>7
    <3>2. c \in [op : {"memset"}, loc : Location, align : Nat]
      BY <1>1, <1>2, <2>7 DEF Instruction
    <3>3. PICK d : d = [c EXCEPT !.loc.size = n]
      OBVIOUS
    <3>4. d = [c EXCEPT !.loc = [c.loc EXCEPT !.size = n]]
      BY <3>3
    <3>5. d \in [op : {"memset"}, loc : Location, align : Nat]
      BY <2>3, <2>6, <3>2, <3>4
    <3>6. d \in Instruction
      BY <3>5 DEF Instruction
    <3>7. d.op = c.op /\ d.loc = [c.loc EXCEPT !.size = n]
      BY <3>2, <3>4
    <3>8. d.loc.ptr = c.loc.ptr /\ d.loc.off = c.loc.off /\ d.loc.size = n
      BY <2>3, <3>7 DEF Location
    <3>9. Trim(d, first[dep])
      BY <1>1, <1>2, <2>5, <2>7, <2>10, <3>7, <3>8 DEF Trim
    <3>10. Trim(d, c)
      BY <2>5, <2>7, <2>10, <3>7, <3>8 DEF Trim
    <3>11. QED BY <1>2, <1>3, <2>1, <2>4, <2>7, <3>1, <3>3, <3>6, <3>7, <3>8, <3>9, <3>10
  <2>8. CASE c.op = "memcpy"
    <3>1. Trimmed(c) = [c EXCEPT !.loc.size = n, !.src.size = n]
      BY <2>1, <2>4, <2>8
    <3>2. /\ c \in [op : {"memcpy"}, loc : Location, src : Location, align : Nat, move : BOOLEAN]
          /\ c.loc.size = c.src.size
      BY <1>1, <1>2, <2>8 DEF Instruction
    <3>3. PICK d : d = [c EXCEPT !.loc.size = n, !.src.size = n]
      OBVIOUS
    <3>4. d = [c EXCEPT !.loc = [c.loc EXCEPT !.size = n], !.src = [c.src EXCEPT !.size = n]]
      BY <3>2, <3>3
    <3>5. d \in [op : {"memcpy"}, loc : Location, src : Location, align : Nat, move : BOOLEAN]
      BY <2>3, <2>6, <2>8, <3>2, <3>4
    <3>6. d.op = c.op /\ d.loc = [c.loc EXCEPT !.size = n] /\ d.src = [c.src EXCEPT !.size = n]
      BY <3>2, <3>4
    <3>7. /\ d.loc.ptr = c.loc.ptr /\ d.loc.off = c.loc.off /\ d.loc.size = n
          /\ d.src.ptr = c.src.ptr /\ d.src.off = c.src.off /\ d.src.size = n
      BY <2>3, <2>8, <3>6 DEF Location
    <3>8. d \in Instruction
      BY <3>5, <3>7 DEF Instruction
    <3>9. Trim(d, first[dep])
      BY <1>1, <1>2, <2>5, <2>8, <2>10, <3>6, <3>7 DEF Trim
    <3>10. Trim(d, c)
      BY <2>5, <2>8, <2>10, <3>6, <3>7 DEF Trim
    <3>11. QED BY <1>2, <1>3, <2>1, <2>4, <2>8, <3>1, <3>3, <3>6, <3>7, <3>8, <3>9, <3>10
  <2>9. QED BY <2>2, <2>7, <2>8
<1>7. QED BY <1>2, <1>5, <1>6

LEMMA LookPastKeeps ==
  ASSUME WalkInv, LookPast
  PROVE  WalkInv'
<1>1. /\ pc = "deps" /\ hasMemoryWrite(dep)
      /\ code' = [code EXCEPT ![dep] = Trimmed(@)]
      /\ dep' = IF LooksPast(code'[dep]) THEN Dependency(Left(BB), {Loc}, dep) ELSE 0
      /\ pc' = IF dep' = 0 THEN "walk" ELSE "deps"
      /\ UNCHANGED <<first, fn, alive, BB, BBI, Inst, from, DeadStackObjects>>
  BY DEF LookPast
<1>2. /\ FunctionOK /\ LoadsLeft /\ BB \in {1, 2} /\ hasMemoryWrite(Inst)
      /\ Inst \in Left(BB) /\ dep \in Left(BB) /\ dep < Inst /\ dep \in alive /\ Inst \in alive
      /\ \A j \in Left(BB) : dep < j /\ j < Inst => ~MayRead(code[j], Loc)
  BY <1>1, BBIs DEF WalkInv, Overwriting, Left
<1>3. \A i \in alive : i \in 1 .. N /\ i \in Int
  BY <1>2, LeftIs DEF FunctionOK
<1>4. /\ \A i \in 1 .. N : i # dep => code'[i] = code[i]
      /\ code'[dep] = Trimmed(code[dep])
      /\ alive \subseteq 1 .. N
  BY <1>1, <1>2, <1>3 DEF FunctionOK
<1>5. /\ code'[dep] \in Instruction /\ Trim(code'[dep], first[dep])
      /\ code'[dep].op = code[dep].op /\ (code[dep].op = "store" => code'[dep] = code[dep])
      /\ code[dep].op # "load"
  <2>1. code[dep].op # "load"
    BY <1>1 DEF hasMemoryWrite, Is
  <2>2. QED BY <1>1, <1>4, <2>1, Shorter
<1>6. FunctionOK'
  <2>1. code' \in [1 .. N -> Instruction]
    BY <1>1, <1>2, <1>4, <1>5 DEF FunctionOK
  <2>2. \A i \in 1 .. N : Trim(code'[i], first[i])
    BY <1>2, <1>4, <1>5 DEF FunctionOK
  <2>3. QED BY <1>1, <1>2, <2>1, <2>2 DEF FunctionOK, N, Trim
<1>7. LoadsLeft'
  <2>1. ASSUME NEW i \in alive, code'[i].op = "store", code'[i].val # 0
        PROVE  LET j == code'[i].val
               IN /\ j \in alive /\ j < i /\ code'[j].op = "load"
                  /\ code'[j].loc.size = code'[i].loc.size
    <3>1. code'[i] = code[i]
      BY <1>4, <1>5, <2>1
    <3>2. PICK j : j = code[i].val
      OBVIOUS
    <3>3. j \in alive /\ j < i /\ code[j].op = "load" /\ code[j].loc.size = code[i].loc.size
      BY <1>2, <2>1, <3>1, <3>2 DEF LoadsLeft
    <3>4. code'[j] = code[j]
      BY <1>4, <1>5, <3>3
    <3>5. QED BY <3>1, <3>2, <3>3, <3>4
  <2>2. QED BY <1>1, <2>1 DEF LoadsLeft
<1>8. Left(BB)' = Left(BB) /\ End(BB)' = End(BB) /\ N' = N
  BY <1>1 DEF Left, End, N
<1>9. dep' = 0 \/ /\ LooksPast(code'[dep]) /\ dep' \in Left(BB) /\ dep' < dep
                  /\ \A j \in Left(BB) : dep' < j /\ j < dep => ~Touches(code[j], Loc)
  <2>1. Left(BB) \subseteq 1 .. N /\ dep \in Int
    BY <1>2, <1>3 DEF Left
  <2>2. PICK L : L = Loc
    OBVIOUS
  <2>3. \/ Dependency(Left(BB), {L}, dep) = 0
        \/ /\ Dependency(Left(BB), {L}, dep) \in Left(BB) /\ Dependency(Left(BB), {L}, dep) < dep
           /\ \A j \in Left(BB) : Dependency(Left(BB), {L}, dep) < j /\ j < dep =>
                \A loc \in {L} : ~Touches(code[j], loc)
    BY <1>2, <2>1, DependencyIs
  <2>4. QED BY <1>1, <2>2, <2>3
<1>10. OnTheWay'
  <2>1. dep' \in 0 .. N
    BY <1>2, <1>3, <1>9, LeftIs DEF Left
  <2>2. BBI = End(BB) \/ BBI \in Left(BB)
    BY <1>1 DEF WalkInv, OnTheWay
  <2>3. QED BY <1>1, <1>8, <2>1, <2>2 DEF WalkInv, OnTheWay
<1>11. Overwriting'
  <2> SUFFICES ASSUME dep' # 0
               PROVE  Overwriting'
    BY <1>1 DEF Overwriting
  <2>1. /\ ~MayRead(code'[dep], Loc) /\ dep' \in Left(BB) /\ dep' < dep
        /\ \A j \in Left(BB) : dep' < j /\ j < dep => ~Touches(code[j], Loc)
    BY <1>9 DEF LooksPast
  <2>2. PICK C : C = code'
    OBVIOUS
  <2>3. PICK L : L = Loc
    OBVIOUS
  <2>4. ASSUME NEW j \in Left(BB), dep' < j, j < Inst
        PROVE  ~MayRead(C[j], L)
    <3>1. j \in alive /\ dep \in Int /\ j \in Int
      BY <1>2, <1>3, <2>4 DEF Left
    <3>2. CASE j = dep
      BY <2>1, <2>2, <2>3, <3>2
    <3>3. CASE j < dep
      <4>1. code[j] \in Instruction /\ ~Touches(code[j], L) /\ C[j] = code[j]
        BY <1>2, <1>3, <1>4, <2>1, <2>2, <2>3, <2>4, <3>1, <3>3 DEF FunctionOK
      <4>2. QED BY <4>1, ReadsTouch
    <3>4. CASE dep < j
      BY <1>2, <1>4, <2>2, <2>3, <2>4, <3>1, <3>4
    <3>5. QED BY <3>1, <3>2, <3>3, <3>4
  <2>5. Inst # dep /\ code'[Inst] = code[Inst] /\ Inst' = Inst
    BY <1>1, <1>2, <1>3, <1>4
  <2>6. Loc' = L
    BY <2>3, <2>5 DEF Loc
  <2>7. \A c, l : MayRead(c, l)' <=> MayRead(c, l)
    BY <1>1, SameAccess
  <2>8. \A j \in Left(BB) : dep' < j /\ j < Inst => ~MayRead(C[j], L)'
    BY <2>4, <2>7
  <2>9. \A j \in Left(BB)' : dep' < j /\ j < Inst' => ~MayRead(code[j], Loc)'
    BY <1>8, <2>2, <2>5, <2>6, <2>8
  <2>10. hasMemoryWrite(Inst)'
    BY <1>2, <2>5 DEF hasMemoryWrite, Is
  <2>11. Inst' \in Left(BB)' /\ dep' \in Left(BB)' /\ dep' < Inst'
    BY <1>2, <1>3, <1>8, <2>1, <2>5 DEF Left
  <2>12. QED BY <2>9, <2>10, <2>11 DEF Overwriting
<1>12. Ending'
  BY <1>1 DEF WalkInv, Ending
<1>13. QED BY <1>1, <1>6, <1>7, <1>10, <1>11, <1>12 DEF WalkInv, Freeing
----------------------------------------------------------------------------
(***************************************************************************)
(* A free, and the writes above it.                                        *)
(***************************************************************************)
LEMMA FreedIs ==
  ASSUME FunctionOK, NEW left, left \subseteq 1 .. N, NEW i \in Int
  PROVE  \/ /\ Freed(left, i) = 0
            /\ \A j \in left : j < i => ~Touches(code[j], Whole("heap"))
         \/ /\ Freed(left, i) \in left /\ Freed(left, i) < i
            /\ \A j \in left : Freed(left, i) < j /\ j < i => ~Touches(code[j], Whole("heap"))
<1>1. PICK l : l = Whole("heap")
  OBVIOUS
<1>2. \/ /\ Dependency(left, {l}, i) = 0
         /\ \A j \in left : j < i => \A loc \in {l} : ~Touches(code[j], loc)
      \/ /\ Dependency(left, {l}, i) \in left /\ Dependency(left, {l}, i) < i
         /\ \A j \in left : Dependency(left, {l}, i) < j /\ j < i =>
              \A loc \in {l} : ~Touches(code[j], loc)
  BY DependencyIs
<1>3. QED BY <1>1, <1>2 DEF Freed

LEMMA HandleFreeKeeps ==
  ASSUME WalkInv, HandleFree
  PROVE  WalkInv'
<1>1. /\ UNCHANGED <<first, fn, code, alive, BB, DeadStackObjects>>
      /\ pc = "walk" /\ AtInst /\ code[BBI].op = "free"
      /\ Inst' = BBI /\ from' = BB /\ dep' = Freed(Left(BB), BBI)
      /\ BBI' = NextOf(BBI, BB) /\ pc' = "free"
  BY DEF HandleFree, AtInst, Is
<1>2. FunctionOK' /\ LoadsLeft' /\ FunctionOK
  BY <1>1, SameProgram DEF WalkInv
<1>3. /\ BB \in {1, 2} /\ BBI \in Left(BB) /\ BBI \in Int /\ Left(BB) \subseteq 1 .. N
      /\ BBI < End(BB)
  BY <1>1, BBIs, LeftIs DEF WalkInv, Left, AtInst
<1>4. Left(BB)' = Left(BB) /\ End(BB)' = End(BB) /\ N' = N
  BY <1>1 DEF Left, End, N
<1>5. BBI' = End(BB) \/ (BBI' \in Left(BB) /\ BBI' > BBI)
  BY <1>1, <1>2, <1>3, NextOfIs
<1>6. \/ /\ dep' = 0
         /\ \A j \in Left(BB) : j < BBI => ~Touches(code[j], Whole("heap"))
      \/ /\ dep' \in Left(BB) /\ dep' < BBI
         /\ \A j \in Left(BB) : dep' < j /\ j < BBI => ~Touches(code[j], Whole("heap"))
  BY <1>1, <1>2, <1>3, FreedIs
<1>7. OnTheWay'
  BY <1>1, <1>2, <1>3, <1>4, <1>5, <1>6, LeftIs DEF OnTheWay
<1>8. Freeing'
  <2>1. Inst' \in Left(BB)' /\ (code[Inst].op)' = "free" /\ Inst' < BBI' /\ from' = BB'
    BY <1>1, <1>3, <1>4, <1>5
  <2>2. dep' # 0 => dep' \in Left(from)' /\ dep' < Inst'
    BY <1>1, <1>4, <1>6, <2>1
  <2>3. PICK C : C = code
    OBVIOUS
  <2>4. PICK h : h = Whole("heap")
    OBVIOUS
  <2>5. \A c, l : Touches(c, l)' <=> Touches(c, l)
    BY <1>1, SameAccess
  <2>6. ASSUME NEW j \in alive, BB = 2 => j > fn.split, dep' < j, j < BBI
        PROVE  ~Touches(C[j], h)
    <3>1. j \in Left(BB)
      BY <1>2, <1>3, <2>6, LeftIs DEF Left
    <3>2. j > 0
      BY <1>2, LeftIs
    <3>3. QED BY <1>6, <2>3, <2>4, <2>6, <3>1, <3>2
  <2>7. \A j \in alive : (BB = 2 => j > fn.split) /\ dep' < j /\ j < BBI => ~Touches(C[j], h)'
    BY <2>5, <2>6
  <2>8. h' = h /\ Whole("heap")' = h /\ C = code'
    BY <1>1, <2>3, <2>4 DEF Whole
  <2>9. \A j \in alive' : (from' = 2 => j > fn'.split) /\ dep' < j /\ j < Inst' =>
          ~Touches(code[j], Whole("heap"))'
    BY <1>1, <2>1, <2>7, <2>8
  <2>10. from' \in {1, BB'} /\ (from' # BB' => ~fn'.cond)
    BY <2>1
  <2>11. QED BY <2>1, <2>2, <2>9, <2>10 DEF Freeing
<1>9. QED BY <1>1, <1>2, <1>7, <1>8 DEF WalkInv, Overwriting, Ending

LEMMA RemoveFreedKeeps ==
  ASSUME WalkInv, RemoveFreed
  PROVE  WalkInv'
<1> DEFINE below == NextOf(dep, from)
<1>1. /\ UNCHANGED <<first, fn, code, BB, BBI, Inst, from, DeadStackObjects, pc>>
      /\ pc = "free" /\ dep # 0 /\ hasMemoryWrite(dep) /\ DeleteDeadInstruction(dep)
      /\ dep' = Freed(Left(from) \cap alive', below)
  BY DEF RemoveFreed
<1>2. /\ FunctionOK /\ LoadsLeft /\ BB \in {1, 2} /\ from \in {1, 2}
      /\ Inst \in Left(BB) /\ code[Inst].op = "free" /\ Inst < BBI
      /\ from \in {1, BB} /\ (from # BB => ~fn.cond)
      /\ dep \in Left(from) /\ dep < Inst /\ dep \in alive /\ Inst \in alive
      /\ \A j \in alive : (from = 2 => j > fn.split) /\ dep < j /\ j < Inst =>
           ~Touches(code[j], Whole("heap"))
  BY <1>1, BBIs DEF WalkInv, Freeing, Left
<1>3. \A i \in alive : i \in 1 .. N /\ i \in Int /\ i > 0
  BY <1>2, LeftIs DEF FunctionOK
<1>4. /\ FunctionOK' /\ LoadsLeft' /\ dep \notin alive' /\ alive' \subseteq alive
      /\ \A j \in alive \ alive' : j # dep => j < dep
  BY <1>1, <1>2, Deleted
<1>5. /\ Left(BB)' = Left(BB) \cap alive' /\ End(BB)' = End(BB) /\ N' = N
      /\ Left(from)' = Left(from) \cap alive'
  BY <1>1, <1>2, <1>4, LeftGoes DEF N, Left, End
<1>6. \A i \in alive : i > dep => i \in alive'
  BY <1>2, <1>3, <1>4
<1>7. BBI = End(BB) \/ BBI \in Left(BB) \cap alive'
  <2>1. BBI = End(BB) \/ BBI \in Left(BB)
    BY <1>1 DEF WalkInv, OnTheWay
  <2>2. CASE BBI \in Left(BB)
    <3>1. BBI \in alive /\ BBI > dep
      BY <1>2, <1>3, <2>2 DEF Left
    <3>2. QED BY <1>6, <2>2, <3>1
  <2>3. QED BY <2>1, <2>2
<1>8. \/ below = End(from) /\ \A j \in Left(from) : j <= dep
      \/ /\ below \in Left(from) /\ below > dep
         /\ \A j \in Left(from) : j <= dep \/ below <= j
  BY <1>2, <1>3, NextOfIs
<1>9. below \in Int
  BY <1>2, <1>3, <1>8, LeftIs DEF Left
<1>10. \/ /\ dep' = 0
          /\ \A j \in Left(from) \cap alive' : j < below => ~Touches(code[j], Whole("heap"))
       \/ /\ dep' \in Left(from) \cap alive' /\ dep' < below
          /\ \A j \in Left(from) \cap alive' : dep' < j /\ j < below =>
               ~Touches(code[j], Whole("heap"))
  <2>1. Left(from) \cap alive' \subseteq 1 .. N
    BY <1>3 DEF Left
  <2> HIDE DEF below
  <2>2. QED BY <1>1, <1>2, <1>9, <2>1, FreedIs
<1> HIDE DEF below
<1>11. OnTheWay'
  <2>1. dep' \in 0 .. N
    BY <1>2, <1>3, <1>10, LeftIs DEF Left
  <2>2. QED BY <1>1, <1>5, <1>7, <2>1 DEF WalkInv, OnTheWay
<1>12. Freeing'
  <2>1. Inst \in alive' /\ Inst' \in Left(BB)'
    BY <1>1, <1>2, <1>3, <1>5, <1>6
  <2>2. ASSUME dep' # 0
        PROVE  dep' \in Left(from)' /\ dep' < Inst
    <3>1. dep' \in Left(from) \cap alive' /\ dep' < below
      BY <1>10, <2>2
    <3>2. dep' \in alive /\ dep' \in Int /\ Inst \in Int /\ dep' # dep
      BY <1>2, <1>3, <1>4, <3>1
    <3>3. dep' <= dep
      BY <1>2, <1>3, <1>8, <1>9, <3>1, <3>2
    <3>4. QED BY <1>2, <1>3, <1>5, <3>1, <3>2, <3>3
  <2>3. PICK C : C = code
    OBVIOUS
  <2>4. PICK h : h = Whole("heap")
    OBVIOUS
  <2>5. \A c, l : Touches(c, l)' <=> Touches(c, l)
    BY <1>1, SameAccess
  <2>6. ASSUME NEW j \in alive', from = 2 => j > fn.split, dep' < j, j < Inst
        PROVE  ~Touches(C[j], h)
    <3>1. j \in alive /\ j \in Int /\ j # dep /\ dep \in Int /\ j > 0
      BY <1>2, <1>3, <1>4
    <3>2. CASE j > dep
      BY <1>2, <2>3, <2>4, <2>6, <3>1, <3>2
    <3>3. CASE j < dep
      <4>1. j \in Left(from)
        BY <1>2, <1>3, <2>6, <3>1, <3>3, LeftIs
      <4>2. j < below
        <5>1. below > dep
          BY <1>2, <1>8, LeftIs
        <5>2. QED BY <1>9, <3>1, <3>3, <5>1
      <4>3. QED BY <1>10, <2>3, <2>4, <2>6, <3>1, <4>1, <4>2
    <3>4. QED BY <3>1, <3>2, <3>3
  <2>7. \A j \in alive' : (from = 2 => j > fn.split) /\ dep' < j /\ j < Inst => ~Touches(C[j], h)'
    BY <2>5, <2>6
  <2>8. Whole("heap")' = h /\ C = code'
    BY <1>1, <2>3, <2>4 DEF Whole
  <2>9. \A j \in alive' : (from' = 2 => j > fn'.split) /\ dep' < j /\ j < Inst' =>
          ~Touches(code[j], Whole("heap"))'
    BY <1>1, <2>7, <2>8
  <2>10. (code[Inst].op)' = "free" /\ Inst' < BBI' /\ from' \in {1, BB'}
         /\ (from' # BB' => ~fn'.cond)
    BY <1>1, <1>2
  <2>11. dep' # 0 => dep' \in Left(from)' /\ dep' < Inst'
    BY <1>1, <2>2
  <2>12. QED BY <2>1, <2>9, <2>10, <2>11 DEF Freeing
<1>13. QED BY <1>1, <1>4, <1>11, <1>12 DEF WalkInv, Overwriting, Ending

LEMMA FreeAboveKeeps ==
  ASSUME WalkInv, FreeAbove
  PROVE  WalkInv'
<1>1. /\ UNCHANGED <<first, fn, code, alive, BB, BBI, Inst, DeadStackObjects>>
      /\ pc = "free" /\ dep = 0
      /\ \/ pc' = "walk" /\ dep' = dep /\ from' = from
         \/ /\ from = 2 /\ ~fn.cond /\ from' = 1
            /\ dep' = Freed(Left(1), End(1)) /\ pc' = pc
  BY DEF FreeAbove, FindUnconditionalPreds
<1>2. FunctionOK' /\ LoadsLeft' /\ FunctionOK
  BY <1>1, SameProgram DEF WalkInv
<1>3. CASE pc' = "walk" /\ dep' = dep /\ from' = from
  <2>1. OnTheWay'
    BY <1>1, <1>3 DEF WalkInv, OnTheWay, Left, End, N
  <2>2. QED BY <1>1, <1>2, <1>3, <2>1 DEF WalkInv, Overwriting, Freeing, Ending
<1>4. CASE from = 2 /\ ~fn.cond /\ from' = 1 /\ dep' = Freed(Left(1), End(1)) /\ pc' = pc
  <2>1. /\ BB = 2 /\ Inst \in Left(2) /\ code[Inst].op = "free" /\ Inst < BBI
        /\ \A j \in alive : j > fn.split /\ 0 < j /\ j < Inst => ~Touches(code[j], Whole("heap"))
    BY <1>1, <1>4 DEF WalkInv, Freeing
  <2>2. Left(1) \subseteq 1 .. N /\ End(1) \in Int /\ Inst \in Int /\ Inst > fn.split
    BY <1>2, <2>1, LeftIs DEF Left
  <2>3. \/ /\ dep' = 0
           /\ \A j \in Left(1) : j < End(1) => ~Touches(code[j], Whole("heap"))
        \/ /\ dep' \in Left(1) /\ dep' < End(1)
           /\ \A j \in Left(1) : dep' < j /\ j < End(1) => ~Touches(code[j], Whole("heap"))
    BY <1>2, <1>4, <2>2, FreedIs
  <2>4. Left(1)' = Left(1) /\ Left(BB)' = Left(BB) /\ End(BB)' = End(BB) /\ N' = N
    BY <1>1 DEF Left, End, N
  <2>5. OnTheWay'
    BY <1>1, <1>2, <1>4, <2>2, <2>3, <2>4, LeftIs DEF WalkInv, OnTheWay
  <2>6. Freeing'
    <3>1. PICK C : C = code
      OBVIOUS
    <3>2. PICK h : h = Whole("heap")
      OBVIOUS
    <3>3. \A c, l : Touches(c, l)' <=> Touches(c, l)
      BY <1>1, SameAccess
    <3>4. ASSUME NEW j \in alive, dep' < j, j < Inst
          PROVE  ~Touches(C[j], h)
      <4>1. j \in Int /\ j > 0 /\ fn.split \in Int
        BY <1>2, LeftIs
      <4>2. CASE j > fn.split
        BY <2>1, <3>1, <3>2, <3>4, <4>1, <4>2
      <4>3. CASE j <= fn.split
        <5>1. j \in Left(1) /\ j < End(1)
          BY <1>2, <4>1, <4>3, LeftIs
        <5>2. QED BY <2>3, <3>1, <3>2, <3>4, <5>1
      <4>4. QED BY <4>1, <4>2, <4>3
    <3>5. \A j \in alive : dep' < j /\ j < Inst => ~Touches(C[j], h)'
      BY <3>3, <3>4
    <3>6. Whole("heap")' = h /\ C = code'
      BY <1>1, <3>1, <3>2 DEF Whole
    <3>7. \A j \in alive' : (from' = 2 => j > fn'.split) /\ dep' < j /\ j < Inst' =>
            ~Touches(code[j], Whole("heap"))'
      BY <1>1, <3>5, <3>6
    <3>8. /\ Inst' \in Left(BB)' /\ (code[Inst].op)' = "free" /\ Inst' < BBI'
          /\ from' \in {1, BB'} /\ (from' # BB' => ~fn'.cond)
      BY <1>1, <1>4, <2>1, <2>4
    <3>9. dep' # 0 => dep' \in Left(from)' /\ dep' < Inst'
      <4>1. ASSUME dep' # 0
            PROVE  dep' \in Left(1) /\ dep' < Inst
        <5>1. dep' \in Left(1)
          BY <2>3, <4>1
        <5>2. dep' \in Int /\ dep' <= fn.split /\ fn.split \in Int
          BY <1>2, <5>1, LeftIs
        <5>3. QED BY <2>2, <5>1, <5>2
      <4>2. QED BY <1>1, <1>4, <2>4, <4>1
    <3>10. QED BY <3>7, <3>8, <3>9 DEF Freeing
  <2>7. QED BY <1>1, <1>2, <1>4, <2>5, <2>6 DEF WalkInv, Overwriting, Ending
<1>5. QED BY <1>1, <1>3, <1>4
----------------------------------------------------------------------------
(***************************************************************************)
(* The walk up.                                                            *)
(***************************************************************************)
LEMMA EndBlockKeeps ==
  ASSUME WalkInv, EndBlock
  PROVE  WalkInv'
<1>1. /\ UNCHANGED <<first, fn, code, alive, Inst, dep, from>>
      /\ pc = "walk" /\ BBI = End(BB)
      /\ \/ /\ BB = 1 /\ BB' = 2 /\ BBI' = Begin(2)
            /\ DeadStackObjects' = DeadStackObjects /\ pc' = pc
         \/ /\ BB # 1 /\ DeadStackObjects' = {"alloca"} \cup ({"heap"} \ fn.captured)
            /\ pc' = IF fn.ret THEN "up" ELSE "done"
            /\ BB' = BB /\ BBI' = BBI
  BY DEF EndBlock
<1>2. FunctionOK' /\ LoadsLeft' /\ FunctionOK /\ \A b \in {1, 2} : Left(b)' = Left(b) /\ End(b)' = End(b)
  BY <1>1, SameProgram DEF WalkInv
<1>3. CASE BB = 1 /\ BB' = 2 /\ BBI' = Begin(2) /\ DeadStackObjects' = DeadStackObjects /\ pc' = pc
  <2>1. BBI' = End(2) \/ BBI' \in Left(2)
    BY <1>2, <1>3, NextOfIs, LeftIs DEF Begin
  <2>2. Left(BB)' = Left(2) /\ End(BB)' = End(2) /\ N' = N
    BY <1>1, <1>3 DEF Left, End, N
  <2>3. OnTheWay'
    BY <1>1, <1>3, <2>1, <2>2 DEF WalkInv, OnTheWay
  <2>4. QED BY <1>1, <1>2, <1>3, <2>3 DEF WalkInv, Overwriting, Freeing, Ending
<1>4. CASE /\ BB # 1 /\ DeadStackObjects' = {"alloca"} \cup ({"heap"} \ fn.captured)
           /\ pc' = IF fn.ret THEN "up" ELSE "done"
           /\ BB' = BB /\ BBI' = BBI
  <2>1. BB = 2 /\ BBI = N + 1 /\ BBI \in 1 .. N + 1
    BY <1>1, <1>2, <1>4, BBIs, LeftIs
  <2>2. Left(2)' = Left(2) /\ N' = N /\ BBI' = N + 1
    BY <1>2, <1>4, <2>1 DEF N
  <2>3. DeadAreUnread'
    <3>1. \A i \in Left(2) : ~(i >= N + 1)
      BY <1>2, LeftIs
    <3>2. \A i \in Left(2)' : ~(i >= BBI')
      BY <2>2, <3>1
    <3>3. QED BY <3>2 DEF DeadAreUnread
  <2>4. Ending'
    <3>1. DeadStackObjects' \subseteq {"alloca", "heap"} \ (fn'.captured \cap {"heap"})
      BY <1>1, <1>4
    <3>2. QED BY <1>1, <1>4, <2>1, <2>2, <2>3, <3>1 DEF Ending
  <2>5. OnTheWay'
    <3>1. BBI' = End(BB)'
      BY <1>1, <1>2, <1>4, <2>1
    <3>2. QED BY <1>1, <1>4, <2>2, <3>1 DEF WalkInv, OnTheWay
  <2>6. QED BY <1>2, <1>4, <2>4, <2>5 DEF WalkInv, Overwriting, Freeing
<1>5. QED BY <1>1, <1>3, <1>4

(* The instruction the walk up comes to next. *)
LEMMA UpIs ==
  ASSUME WalkInv, AtUp
  PROVE  /\ BB = 2 /\ BBI \in 1 .. N + 1 /\ fn.ret /\ Up \in Left(2) /\ Up \in alive /\ Up < BBI
         /\ \A i \in Left(2) : i < BBI => i <= Up
<1>1. FunctionOK /\ pc = "up" /\ BB = 2 /\ BBI \in 1 .. N + 1 /\ fn.ret /\ Above # {}
  BY DEF WalkInv, AtUp, Ending
<1>2. \A i \in Left(2) : i \in 0 .. N /\ i \in Int
  BY <1>1, LeftIs
<1>3. Above = {i \in Left(2) : i < BBI}
  BY <1>1, <1>2, LeftIs DEF Above
<1>4. N \in Nat /\ Above \subseteq 0 .. N
  BY <1>1, <1>2, <1>3, LeftIs
<1>5. Max(Above) \in Above /\ \A i \in Above : i <= Max(Above)
  BY <1>1, <1>4, MaxIs
<1>6. QED BY <1>1, <1>3, <1>5 DEF Up, Left

LEMMA RemoveUpKeeps ==
  ASSUME WalkInv, RemoveUp
  PROVE  WalkInv'
<1>1. /\ UNCHANGED <<first, fn, code, BB, BBI, Inst, dep, from, DeadStackObjects, pc>>
      /\ pc = "up" /\ AtUp /\ DeleteDeadInstruction(Up)
      /\ hasMemoryWrite(Up) \/ TriviallyDead(Up, {})
  BY DEF RemoveUp, AtUp, AllDead
<1>2. FunctionOK /\ LoadsLeft /\ BB = 2 /\ Up \in alive
  BY <1>1, UpIs DEF WalkInv
<1>3. FunctionOK' /\ LoadsLeft' /\ alive' \subseteq alive
  <2>1. PICK u : u = Up
    OBVIOUS
  <2>2. QED BY <1>1, <1>2, <2>1, Deleted
<1>4. Left(2)' \subseteq Left(2)
  BY <1>1, <1>3 DEF Left
<1>5. DeadAreUnread'
  <2>1. PICK C : C = code
    OBVIOUS
  <2>2. \A c, l : MayRead(c, l)' <=> MayRead(c, l)
    BY <1>1, SameAccess
  <2>3. \A i \in Left(2) : i >= BBI => \A o \in DeadStackObjects : ~MayRead(C[i], Whole(o))
    BY <1>1, <2>1 DEF WalkInv, Ending, DeadAreUnread
  <2>4. \A o : Whole(o)' = Whole(o)
    BY DEF Whole
  <2>5. \A i \in Left(2) : i >= BBI => \A o \in DeadStackObjects : ~MayRead(C[i], Whole(o))'
    BY <2>2, <2>3, <2>4
  <2>6. QED BY <1>1, <1>4, <2>1, <2>5 DEF DeadAreUnread
<1>6. Ending'
  BY <1>1, <1>5 DEF WalkInv, Ending, N
<1>7. OnTheWay'
  <2>1. BBI \in Left(2) => BBI \in alive'
    <3>1. PICK u : u = Up
      OBVIOUS
    <3>2. u < BBI /\ BBI \in 1 .. N + 1 /\ u \in Left(2) /\ \A j \in alive \ alive' : j # u => j < u
      BY <1>1, <1>2, <3>1, UpIs, Deleted
    <3>3. \A j \in Left(2) : j \in alive /\ j \in Int
      BY <1>2, LeftIs
    <3>4. ASSUME BBI \in Left(2), BBI \notin alive' PROVE FALSE
      <4>1. BBI \in alive \ alive' /\ BBI # u
        BY <3>2, <3>3, <3>4
      <4>2. QED BY <3>2, <3>3, <4>1
    <3>5. QED BY <3>4
  <2>2. BBI \in Left(2) => BBI \in Left(2)'
    BY <1>1, <2>1 DEF Left
  <2>3. Left(BB)' = Left(2)' /\ End(BB)' = End(2) /\ N' = N
    BY <1>1, <1>2 DEF Left, End, N
  <2>4. BBI = End(2) \/ BBI \in Left(2)
    BY <1>2 DEF WalkInv, OnTheWay
  <2>5. BBI' = End(BB)' \/ BBI' \in Left(BB)'
    BY <1>1, <2>2, <2>3, <2>4
  <2>6. QED BY <1>1, <2>3, <2>5 DEF WalkInv, OnTheWay
<1>8. QED BY <1>1, <1>3, <1>6, <1>7 DEF WalkInv, Overwriting, Freeing

LEMMA PassUpKeeps ==
  ASSUME WalkInv, PassUp
  PROVE  WalkInv'
<1>1. /\ UNCHANGED <<first, fn, code, alive, BB, Inst, dep, from>>
      /\ pc = "up" /\ AtUp /\ BBI' = Up /\ pc' \in {"up", "done"}
      /\ DeadStackObjects' = DeadStackObjects \ Reads(code[Up])
  BY DEF PassUp, AtUp
<1>2. FunctionOK' /\ LoadsLeft' /\ Left(2)' = Left(2) /\ FunctionOK /\ N' = N
  BY <1>1, SameProgram DEF WalkInv, N
<1>3. /\ BB = 2 /\ fn.ret /\ Up \in Left(2) /\ Up < BBI /\ BBI \in 1 .. N + 1
      /\ \A i \in Left(2) : i < BBI => i <= Up
  BY <1>1, UpIs
<1>4. \A i \in Left(2) : i \in Int /\ i \in 1 .. N + 1
  BY <1>2, LeftIs
<1>5. DeadAreUnread'
  <2>1. PICK C : C = code
    OBVIOUS
  <2>2. PICK u : u = Up
    OBVIOUS
  <2>3. ASSUME NEW i \in Left(2), i >= u, NEW o \in DeadStackObjects \ Reads(C[u])
        PROVE  ~MayRead(C[i], Whole(o))
    <3>1. CASE i = u
      BY <2>3, <3>1 DEF Reads
    <3>2. CASE i >= BBI
      BY <1>1, <2>1, <2>3, <3>2 DEF WalkInv, Ending, DeadAreUnread
    <3>3. QED BY <1>3, <1>4, <2>2, <2>3, <3>1, <3>2
  <2>4. \A c, l : MayRead(c, l)' <=> MayRead(c, l)
    BY <1>1, SameAccess
  <2>5. \A o : Whole(o)' = Whole(o)
    BY DEF Whole
  <2>6. \A i \in Left(2) : i >= u => \A o \in DeadStackObjects \ Reads(C[u]) : ~MayRead(C[i], Whole(o))'
    BY <2>3, <2>4, <2>5
  <2>7. QED BY <1>1, <1>2, <2>1, <2>2, <2>6 DEF DeadAreUnread
<1>6. Ending'
  <2>1. DeadStackObjects' \subseteq {"alloca", "heap"} \ (fn'.captured \cap {"heap"})
    BY <1>1 DEF WalkInv, Ending
  <2>2. BBI' \in 1 .. N' + 1
    BY <1>1, <1>2, <1>3, <1>4
  <2>3. BB' = 2 /\ fn'.ret
    BY <1>1, <1>3
  <2>4. pc' \in {"walk", "deps", "free", "up", "done"}
    BY <1>1
  <2>5. QED BY <1>5, <2>1, <2>2, <2>3, <2>4 DEF Ending
<1>7. OnTheWay'
  <2>1. Left(BB)' = Left(2)
    BY <1>1, <1>2, <1>3 DEF Left
  <2>2. BBI' \in Left(BB)'
    BY <1>1, <1>3, <2>1
  <2>3. QED BY <1>1, <1>2, <2>2 DEF WalkInv, OnTheWay
<1>8. QED BY <1>1, <1>2, <1>6, <1>7 DEF WalkInv, Overwriting, Freeing

LEMMA EndUpKeeps ==
  ASSUME WalkInv, EndUp
  PROVE  WalkInv'
<1>1. /\ UNCHANGED <<first, fn, code, alive, BB, BBI, Inst, dep, from, DeadStackObjects>>
      /\ pc = "up" /\ pc' = "done"
  BY DEF EndUp
<1>2. FunctionOK' /\ LoadsLeft'
  BY <1>1, SameProgram
<1>3. Ending'
  BY <1>1 DEF WalkInv, Ending, N
<1>4. OnTheWay'
  <2>1. Left(BB)' = Left(BB) /\ End(BB)' = End(BB) /\ N' = N
    BY <1>1 DEF Left, End, N
  <2>2. QED BY <1>1, <2>1 DEF WalkInv, OnTheWay
<1>5. QED BY <1>1, <1>2, <1>3, <1>4 DEF WalkInv, Overwriting, Freeing

(* So they all do. *)
LEMMA NextWalk ==
  ASSUME WalkInv, [Next]_vars
  PROVE  WalkInv'
<1>1. CASE UNCHANGED vars
  <2>1. UNCHANGED <<first, fn, code, alive, BB, BBI, Inst, dep, from, DeadStackObjects, pc>>
    BY <1>1 DEF vars
  <2>2. FunctionOK' /\ LoadsLeft'
    BY <2>1, SameProgram
  <2>3. /\ \A c, l : MayRead(c, l)' <=> MayRead(c, l)
        /\ \A c, l : Touches(c, l)' <=> Touches(c, l)
    BY <2>1, SameAccess
  <2>4. \A b : Left(b)' = Left(b) /\ End(b)' = End(b)
    BY <2>1 DEF Left, End, N
  <2>5. PICK C, b, f : C = code /\ b = BB /\ f = from
    OBVIOUS
  <2>6. PICK l, h : l = Loc /\ h = Whole("heap")
    OBVIOUS
  <2>7. Left(BB)' = Left(b) /\ End(BB)' = End(b) /\ Left(from)' = Left(f) /\ N' = N
    BY <2>1, <2>4, <2>5 DEF N, Left, End
  <2>8. Loc' = l /\ Whole("heap")' = h /\ \A o : Whole(o)' = Whole(o)
    BY <2>1, <2>6 DEF Loc, Whole
  <2>9. OnTheWay'
    BY <2>1, <2>5, <2>7 DEF WalkInv, OnTheWay
  <2>10. Overwriting'
    <3>1. pc = "deps" =>
            /\ Inst \in Left(b) /\ dep \in Left(b) /\ dep < Inst /\ hasMemoryWrite(Inst)
            /\ \A j \in Left(b) : dep < j /\ j < Inst => ~MayRead(C[j], l)'
      BY <2>3, <2>5, <2>6 DEF WalkInv, Overwriting
    <3>2. hasMemoryWrite(Inst)' <=> hasMemoryWrite(Inst)
      BY <2>1 DEF hasMemoryWrite, Is
    <3>3. QED BY <2>1, <2>5, <2>7, <2>8, <3>1, <3>2 DEF Overwriting
  <2>11. Freeing'
    <3>1. pc = "free" =>
            /\ Inst \in Left(b) /\ C[Inst].op = "free" /\ Inst < BBI
            /\ f \in {1, b} /\ (f # b => ~fn.cond)
            /\ dep # 0 => dep \in Left(f) /\ dep < Inst
            /\ \A j \in alive : (f = 2 => j > fn.split) /\ dep < j /\ j < Inst =>
                 ~Touches(C[j], h)'
      BY <2>3, <2>5, <2>6 DEF WalkInv, Freeing
    <3>2. QED BY <2>1, <2>5, <2>7, <2>8, <3>1 DEF Freeing
  <2>12. Ending'
    <3>1. pc = "up" => \A i \in Left(2) : i >= BBI =>
            \A o \in DeadStackObjects : ~MayRead(C[i], Whole(o))'
      BY <2>3, <2>5, <2>8 DEF WalkInv, Ending, DeadAreUnread
    <3>2. pc' = "up" => DeadAreUnread'
      BY <2>1, <2>4, <2>5, <3>1 DEF DeadAreUnread
    <3>3. QED BY <2>1, <2>7, <3>2 DEF WalkInv, Ending
  <2>13. QED BY <2>2, <2>9, <2>10, <2>11, <2>12 DEF WalkInv
<1>2. CASE Next
  BY <1>2, SkipKeeps, RemoveStoredBackKeeps, LookAtKeeps, GiveUpKeeps, RemoveOverwrittenKeeps,
     LookPastKeeps, HandleFreeKeeps, RemoveFreedKeeps, FreeAboveKeeps, EndBlockKeeps,
     RemoveUpKeeps, PassUpKeeps, EndUpKeeps DEF Next
<1>3. QED BY <1>1, <1>2

(***************************************************************************)
(* The pass, wherever it is: what it looks at is left, nothing it has      *)
(* passed on its way reads what it looks for, and the objects that are     *)
(* dead on the way up are not read below.                                  *)
(***************************************************************************)
THEOREM WalkAlways == Spec => []WalkInv
  BY InitWalk, NextWalk, PTL DEF Spec

(***************************************************************************)
(* The objects that are dead on the way up are not read below.             *)
(***************************************************************************)
THEOREM DeadAreUnreadAlways == Spec => []DeadAreUnread
<1>1. WalkInv => DeadAreUnread
  BY DEF WalkInv, Ending, DeadAreUnread
<1>2. QED BY <1>1, WalkAlways, PTL

(***************************************************************************)
(* The variables have their types; a memset or memcpy made shorter is      *)
(* still an instruction, not an empty one; the pass is always at the end   *)
(* of its block or at an instruction there that is left, and no store that *)
(* is left is of a load that is not.                                       *)
(***************************************************************************)
THEOREM TypeAlways == Spec => []TypeOK
<1>1. ASSUME WalkInv PROVE TypeOK
  <2>1. FunctionOK /\ \A i \in 1 .. N : code[i] \in Instruction
    BY <1>1 DEF WalkInv, FunctionOK
  <2>2. BB \in {1, 2} /\ Inst \in 0 .. N /\ dep \in 0 .. N /\ from \in {0, 1, 2}
    BY <1>1 DEF WalkInv, OnTheWay
  <2>3. DeadStackObjects \subseteq {"alloca", "heap"}
        /\ pc \in {"walk", "deps", "free", "up", "done"}
    BY <1>1 DEF WalkInv, Ending
  <2>4. BBI = End(BB) \/ BBI \in Left(BB)
    BY <1>1 DEF WalkInv, OnTheWay
  <2>5. \A i \in alive : Is(i, {"store"}) /\ code[i].val # 0 => code[i].val \in alive
    BY <1>1 DEF WalkInv, LoadsLeft, Is
  <2>6. QED BY <2>1, <2>2, <2>3, <2>4, <2>5 DEF TypeOK, FunctionOK
<1>2. QED BY <1>1, WalkAlways, PTL

----------------------------------------------------------------------------
(***************************************************************************)
(* Two runs side by side: what they have shown is the same, their memories *)
(* differ at most in D, and what they have loaded at most for loads of G.  *)
(***************************************************************************)
Agree(s, u, D, G) ==
  /\ s.seen = u.seen
  /\ \A c \in Cells \ D : s.mem[c] = u.mem[c]
  /\ \A i \in (1 .. N) \ G : s.val[i] = u.val[i]

Do(s, i, p, S, target, writes) == IF i \in S THEN Step(s, i, p[i], target, writes) ELSE s

(* an instruction reads nothing of D *)
Unread(c, D, target) ==
  /\ c.op = "load" => CellsOf(c.loc, target) \cap D = {}
  /\ c.op = "memcpy" => CellsOf(c.src, target) \cap D = {}
  /\ c.op = "call" => VisibleCells \cap D = {}

(* what an instruction gives a value of its own *)
Kills(c, target) ==
  IF c.op \in Writing THEN CellsOf(c.loc, target)
  ELSE IF c.op = "free" THEN {"heap"} \X Bytes ELSE {}

Out == IF fn.ret THEN VisibleCells \ ({"alloca"} \X Bytes) ELSE Cells

IsRun(p, S, target, writes, n, f) ==
  f = [i \in 0 .. n |-> IF i = 0 THEN Before ELSE After(f[i - 1], i, p, S, target, writes)]

(***************************************************************************)
(* Run is defined.                                                         *)
(***************************************************************************)
LEMMA RunsExist ==
  ASSUME NEW p, NEW S, NEW target, NEW writes
  PROVE  \A n \in 0 .. N : \E f : IsRun(p, S, target, writes, n, f)
<1> DEFINE Bad == {n \in 0 .. N : ~ \E f : IsRun(p, S, target, writes, n, f)}
<1>1. N \in Nat
  BY DeadStoresAssumption DEF N
<1>2. SUFFICES ASSUME Bad # {} PROVE FALSE
  OBVIOUS
<1>3. PICK n \in Bad : \A k \in Bad : n <= k
  <2>1. Bad \subseteq Nat
    BY <1>1
  <2> HIDE DEF Bad
  <2>2. QED BY <1>2, <2>1, LeastNumber
<1>4. n \in 0 .. N /\ ~ \E f : IsRun(p, S, target, writes, n, f)
  OBVIOUS
<1>5. n # 0
  <2>1. ASSUME n = 0 PROVE FALSE
    <3>1. PICK f : f = [i \in 0 .. 0 |-> Before]
      OBVIOUS
    <3>2. \A i \in 0 .. 0 : i = 0
      OBVIOUS
    <3>3. IsRun(p, S, target, writes, 0, f)
      BY <3>1, <3>2 DEF IsRun
    <3>4. QED BY <1>4, <2>1, <3>3
  <2>2. QED BY <2>1
<1>6. n - 1 \in 0 .. N /\ n - 1 < n /\ n \in Nat
  BY <1>1, <1>4, <1>5
<1>7. PICK f : IsRun(p, S, target, writes, n - 1, f)
  <2>1. n - 1 \notin Bad
    BY <1>3, <1>6
  <2>2. QED BY <1>6, <2>1
<1> DEFINE g == [i \in 0 .. n |->
                   IF i = n THEN After(f[n - 1], n, p, S, target, writes) ELSE f[i]]
<1>8. \A i \in 0 .. n - 1 : i \in 0 .. n /\ i # n /\ g[i] = f[i]
  BY <1>6
<1>9. ASSUME NEW i \in 0 .. n, i # 0
      PROVE  g[i] = After(g[i - 1], i, p, S, target, writes)
  <2>1. i - 1 \in 0 .. n - 1
    BY <1>6, <1>9
  <2>2. g[i - 1] = f[i - 1]
    BY <1>8, <2>1
  <2>3. CASE i = n
    BY <2>2, <2>3
  <2>4. CASE i # n
    <3>1. i \in 0 .. n - 1
      BY <1>6, <1>9, <2>4
    <3>2. f[i] = After(f[i - 1], i, p, S, target, writes)
      BY <1>7, <1>9, <3>1 DEF IsRun
    <3>3. QED BY <2>2, <2>4, <3>2
  <2>5. QED BY <2>3, <2>4
<1>10. g[0] = Before
  <2>1. 0 \in 0 .. n - 1
    BY <1>5, <1>6
  <2>2. QED BY <1>7, <1>8, <2>1 DEF IsRun
<1>11. IsRun(p, S, target, writes, n, g)
  <2> DEFINE h == [i \in 0 .. n |-> IF i = 0 THEN Before
                                     ELSE After(g[i - 1], i, p, S, target, writes)]
  <2>1. \A i \in 0 .. n : g[i] = h[i]
    BY <1>9, <1>10
  <2>2. g = h
    BY <2>1
  <2>3. QED BY <2>2 DEF IsRun
<1>12. QED BY <1>4, <1>11

(* A run, step by step. *)
LEMMA RunIs ==
  ASSUME NEW p, NEW S, NEW target, NEW writes
  PROVE  /\ Run(p, S, target, writes)[0] = Before
         /\ \A i \in 1 .. N : Run(p, S, target, writes)[i] =
              After(Run(p, S, target, writes)[i - 1], i, p, S, target, writes)
<1>1. N \in Nat
  BY DeadStoresAssumption DEF N
<1>2. PICK f : IsRun(p, S, target, writes, N, f)
  BY <1>1, RunsExist
<1> DEFINE Eq(h) == h = [i \in 0 .. N |->
                           IF i = 0 THEN Before ELSE After(h[i - 1], i, p, S, target, writes)]
<1>3. Eq(f)
  BY <1>2 DEF IsRun
<1>4. Run(p, S, target, writes) = CHOOSE h : Eq(h)
  BY DEF Run
<1>5. Eq(Run(p, S, target, writes))
  BY <1>3, <1>4
<1>6. 0 \in 0 .. N /\ \A i \in 1 .. N : i \in 0 .. N /\ i # 0
  BY <1>1
<1>7. QED BY <1>5, <1>6

(* a run depends on nothing else that the pass changes *)
LEMMA RunKept ==
  ASSUME fn' = fn, NEW CONSTANT p, NEW CONSTANT S, NEW CONSTANT target, NEW CONSTANT writes
  PROVE  Behaviour(p, S, target, writes)' = Behaviour(p, S, target, writes)
<1> DEFINE R == Run(p, S, target, writes)
           Bad == {n \in 0 .. N : R'[n] # R[n]}
<1>1. N \in Nat /\ N' = N
  BY DeadStoresAssumption DEF N
<1>2. R[0] = Before /\ \A i \in 1 .. N : R[i] = After(R[i - 1], i, p, S, target, writes)
  BY RunIs
<1>3. (R[0] = Before /\ \A i \in 1 .. N : R[i] = After(R[i - 1], i, p, S, target, writes))'
  BY RunIs, PTL
<1>4. Before' = Before
  BY DEF Before
<1>5. \A s, i : After(s, i, p, S, target, writes)' = After(s, i, p, S, target, writes)
  BY DEF After, Step, Seen, See, Put, Get, Written, VisibleCells, Visible
<1>6. Bad = {}
  <2> SUFFICES ASSUME Bad # {} PROVE FALSE
    OBVIOUS
  <2>1. PICK n \in Bad : \A k \in Bad : n <= k
    <3>1. Bad \subseteq Nat
      BY <1>1
    <3> HIDE DEF Bad
    <3>2. QED BY <3>1, LeastNumber
  <2>2. n # 0
    BY <1>2, <1>3, <1>4
  <2>3. n - 1 \in 0 .. N /\ n \in 1 .. N /\ ~(n <= n - 1)
    BY <1>1, <2>2
  <2>4. R'[n - 1] = R[n - 1]
    BY <2>1, <2>3
  <2>5. R'[n] = R[n]
    BY <1>1, <1>2, <1>3, <1>5, <2>3, <2>4
  <2>6. QED BY <2>5
<1>7. R'[N] = R[N]
  BY <1>1, <1>6
<1>8. Behaviour(p, S, target, writes) = Seen(R[N], Out).seen
  BY DEF Behaviour, Out
<1>9. Behaviour(p, S, target, writes)' = (Seen(R[N], Out).seen)'
  BY DEF Behaviour, Out
<1>10. \A s : Seen(s, Out)' = Seen(s, Out)
  BY DEF Seen, See, Out, VisibleCells, Visible, Cells, Bytes
<1>11. QED BY <1>1, <1>7, <1>8, <1>9, <1>10

----------------------------------------------------------------------------
(***************************************************************************)
(* Places in memory.                                                       *)
(***************************************************************************)
LEMMA PlaceIs ==
  ASSUME FunctionOK, NEW target \in fn.selected, NEW l \in Location
  PROVE  \E o \in ObjectsOf(l) \cap Objects :
           /\ o = IF l.ptr = "select" THEN target ELSE l.ptr
           /\ CellsOf(l, target) = {c \in Cells : c[1] = o /\ c[2] \in Covers(l)}
<1> DEFINE o == IF l.ptr = "select" THEN target ELSE l.ptr
<1>1. o \in ObjectsOf(l) /\ o \in Objects
  BY LocationParts DEF FunctionOK, Function, ObjectsOf
<1>2. Covers(l) \subseteq Bytes
  BY LocationParts
<1>3. CellsOf(l, target) = {o} \X Covers(l)
  BY DEF CellsOf
<1> HIDE DEF o
<1>4. {o} \X Covers(l) = {c \in Cells : c[1] = o /\ c[2] \in Covers(l)}
  BY <1>1, <1>2 DEF Cells
<1>5. QED BY <1>1, <1>3, <1>4 DEF o

(* Two places that do not overlap for alias analysis share no byte. *)
LEMMA Apart ==
  ASSUME FunctionOK, NEW target \in fn.selected, NEW l \in Location, NEW m \in Location,
         ~MayAlias(l, m)
  PROVE  CellsOf(l, target) \cap CellsOf(m, target) = {}
<1>1. PICK o \in ObjectsOf(l) \cap Objects :
         CellsOf(l, target) = {c \in Cells : c[1] = o /\ c[2] \in Covers(l)}
  BY PlaceIs
<1>2. PICK k \in ObjectsOf(m) \cap Objects :
         CellsOf(m, target) = {c \in Cells : c[1] = k /\ c[2] \in Covers(m)}
  BY PlaceIs
<1>3. QED BY <1>1, <1>2 DEF MayAlias

(* what may not be read is not read *)
LEMMA NotRead ==
  ASSUME FunctionOK, NEW target \in fn.selected, NEW l \in Location, NEW c \in Instruction,
         ~MayRead(c, l), NEW D, D \subseteq CellsOf(l, target)
  PROVE  Unread(c, D, target)
<1>1. PICK o \in ObjectsOf(l) \cap Objects :
         CellsOf(l, target) = {x \in Cells : x[1] = o /\ x[2] \in Covers(l)}
  BY PlaceIs
<1>2. ASSUME c.op = "load" PROVE CellsOf(c.loc, target) \cap D = {}
  <2>1. c.loc \in Location /\ ~MayAlias(c.loc, l)
    BY <1>2, InstructionParts DEF MayRead
  <2>2. QED BY <2>1, Apart
<1>3. ASSUME c.op = "memcpy" PROVE CellsOf(c.src, target) \cap D = {}
  <2>1. c.src \in Location /\ ~MayAlias(c.src, l)
    BY <1>3, InstructionParts DEF MayRead
  <2>2. QED BY <2>1, Apart
<1>4. ASSUME c.op = "call" PROVE VisibleCells \cap D = {}
  <2>1. ~Visible(o)
    BY <1>1, <1>4 DEF MayRead, Touches
  <2>2. QED BY <1>1, <2>1 DEF VisibleCells
<1>5. QED BY <1>2, <1>3, <1>4 DEF Unread

(* All the bytes of an object. *)
LEMMA WholeIs ==
  ASSUME FunctionOK, NEW o \in Objects, NEW target, Size > 0
  PROVE  Whole(o) \in Location /\ CellsOf(Whole(o), target) = {o} \X Bytes
         /\ Covers(Whole(o)) = Bytes
<1>1. Size \in Nat /\ o # "select"
  BY DeadStoresAssumption DEF Objects
<1>2. Whole(o) \in Location
  BY <1>1 DEF Whole, Location, Bytes
<1>3. Covers(Whole(o)) = Bytes
  BY <1>1 DEF Whole, Covers, Bytes
<1>4. QED BY <1>1, <1>2, <1>3 DEF CellsOf, Whole

(***************************************************************************)
(* What a step does.                                                       *)
(***************************************************************************)
LEMMA WriteStep ==
  ASSUME NEW s, NEW i, NEW c \in Instruction, NEW target, NEW writes, c.op \in Writing
  PROVE  /\ Step(s, i, c, target, writes).mem = Put(s.mem, c.loc, target, Written(s, i, c, target))
         /\ Step(s, i, c, target, writes).val = s.val
         /\ Step(s, i, c, target, writes).seen =
              IF c.op = "store" /\ c.volatile THEN Append(s.seen, i) ELSE s.seen
<1>1. CASE c.op = "store"
  BY <1>1 DEF Step, State, See
<1>2. CASE c.op \in {"memset", "memcpy", "lifetime_end"}
  BY <1>2 DEF Step, State, See
<1>3. QED BY <1>1, <1>2 DEF Writing

(* What a load and a free do. *)
LEMMA LoadStep ==
  ASSUME NEW s, NEW i, NEW c \in Instruction, NEW target, NEW writes, c.op = "load"
  PROVE  /\ Step(s, i, c, target, writes).mem = s.mem
         /\ Step(s, i, c, target, writes).val =
              [j \in 1 .. N |-> IF j = i THEN Get(s.mem, c.loc, target) ELSE s.val[j]]
         /\ Step(s, i, c, target, writes).seen =
              IF c.used THEN Append(s.seen, Step(s, i, c, target, writes).val[i]) ELSE s.seen
  BY DEF Step, State, See

LEMMA FreeStep ==
  ASSUME NEW s, NEW i, NEW c \in Instruction, NEW target, NEW writes, c.op = "free"
  PROVE  /\ Step(s, i, c, target, writes).mem =
              [x \in Cells |-> IF x[1] = "heap" THEN UndefByte ELSE s.mem[x]]
         /\ Step(s, i, c, target, writes).val = s.val
         /\ Step(s, i, c, target, writes).seen = s.seen
  BY DEF Step, State

(* What a memory holds after a write. *)
LEMMA PutIs ==
  ASSUME NEW mem, NEW l, NEW target, NEW v, NEW x \in Cells
  PROVE  Put(mem, l, target, v)[x] = IF x \in CellsOf(l, target) THEN v[x[2] - l.off] ELSE mem[x]
  BY DEF Put

(* the bytes of a location, when those of two memories are the same *)
LEMMA GetSame ==
  ASSUME FunctionOK, NEW target \in fn.selected, NEW l \in Location, NEW mem, NEW mem2,
         \A x \in CellsOf(l, target) : mem[x] = mem2[x]
  PROVE  Get(mem, l, target) = Get(mem2, l, target)
<1> DEFINE o == IF l.ptr = "select" THEN target ELSE l.ptr
<1>1. ASSUME NEW k \in 0 .. l.size - 1
      PROVE  mem[<<o, l.off + k>>] = mem2[<<o, l.off + k>>]
  <2>1. l.off + k \in Covers(l)
    BY LocationParts
  <2>2. <<o, l.off + k>> \in CellsOf(l, target)
    BY <2>1 DEF CellsOf
  <2>3. QED BY <2>2
<1>2. QED BY <1>1 DEF Get

----------------------------------------------------------------------------
(***************************************************************************)
(* One instruction, in both runs, that reads nothing of the difference.    *)
(***************************************************************************)
LEMMA WriteAgrees ==
  ASSUME FunctionOK, NEW target \in fn.selected, NEW writes, NEW i \in 1 .. N,
         NEW c \in Instruction, NEW D, NEW G, NEW s, NEW u, Agree(s, u, D, G),
         Unread(c, D, target), c.op \in Writing,
         c.op = "store" /\ c.val # 0 => c.val \in (1 .. N) \ G
  PROVE  Agree(Step(s, i, c, target, writes), Step(u, i, c, target, writes),
               D \ CellsOf(c.loc, target), G)
<1>1. Written(s, i, c, target) = Written(u, i, c, target)
  <2>1. CASE c.op = "store" /\ c.val # 0
    BY <2>1 DEF Written, Agree
  <2>2. CASE c.op = "memcpy"
    <3>1. c.src \in Location /\ CellsOf(c.src, target) \cap D = {}
      BY <2>2, InstructionParts DEF Unread
    <3>2. CellsOf(c.src, target) \subseteq Cells
      BY <3>1, PlaceIs
    <3>3. \A x \in CellsOf(c.src, target) : s.mem[x] = u.mem[x]
      BY <3>1, <3>2 DEF Agree
    <3>4. PICK m, m2 : m = s.mem /\ m2 = u.mem
      OBVIOUS
    <3>5. Get(m, c.src, target) = Get(m2, c.src, target)
      BY <3>1, <3>3, <3>4, GetSame
    <3>6. QED BY <2>2, <3>4, <3>5 DEF Written
  <2>3. CASE c.op # "memcpy" /\ ~(c.op = "store" /\ c.val # 0)
    BY <2>3 DEF Written
  <2>4. QED BY <2>1, <2>2, <2>3
<1>2. PICK v : v = Written(s, i, c, target)
  OBVIOUS
<1>3. PICK r, q : r = Step(s, i, c, target, writes) /\ q = Step(u, i, c, target, writes)
  OBVIOUS
<1>4. /\ r.mem = Put(s.mem, c.loc, target, v) /\ q.mem = Put(u.mem, c.loc, target, v)
      /\ r.val = s.val /\ q.val = u.val
      /\ r.seen = q.seen
  BY <1>1, <1>2, <1>3, WriteStep DEF Agree
<1>5. \A x \in Cells \ (D \ CellsOf(c.loc, target)) : r.mem[x] = q.mem[x]
  BY <1>4, PutIs DEF Agree
<1>6. QED BY <1>3, <1>4, <1>5 DEF Agree

(* The same of a load, *)
LEMMA LoadAgrees ==
  ASSUME FunctionOK, NEW target \in fn.selected, NEW writes, NEW i \in 1 .. N,
         NEW c \in Instruction, NEW D, NEW G, NEW s, NEW u, Agree(s, u, D, G),
         Unread(c, D, target), c.op = "load"
  PROVE  Agree(Step(s, i, c, target, writes), Step(u, i, c, target, writes), D, G)
<1>1. c.loc \in Location /\ CellsOf(c.loc, target) \cap D = {}
  BY InstructionParts DEF Unread
<1>2. CellsOf(c.loc, target) \subseteq Cells
  BY <1>1, PlaceIs
<1>3. \A x \in CellsOf(c.loc, target) : s.mem[x] = u.mem[x]
  BY <1>1, <1>2 DEF Agree
<1>4. PICK m, m2 : m = s.mem /\ m2 = u.mem
  OBVIOUS
<1>5. Get(m, c.loc, target) = Get(m2, c.loc, target)
  BY <1>1, <1>3, <1>4, GetSame
<1>6. Get(s.mem, c.loc, target) = Get(u.mem, c.loc, target)
  BY <1>4, <1>5
<1>7. PICK r, q : r = Step(s, i, c, target, writes) /\ q = Step(u, i, c, target, writes)
  OBVIOUS
<1>8. /\ r.mem = s.mem
      /\ r.val = [j \in 1 .. N |-> IF j = i THEN Get(s.mem, c.loc, target) ELSE s.val[j]]
      /\ r.seen = IF c.used THEN Append(s.seen, r.val[i]) ELSE s.seen
  BY <1>7, LoadStep
<1>9. /\ q.mem = u.mem
      /\ q.val = [j \in 1 .. N |-> IF j = i THEN Get(u.mem, c.loc, target) ELSE u.val[j]]
      /\ q.seen = IF c.used THEN Append(u.seen, q.val[i]) ELSE u.seen
  BY <1>7, LoadStep
<1>10. r.val[i] = q.val[i]
  BY <1>6, <1>8, <1>9
<1>11. r.seen = q.seen
  BY <1>8, <1>9, <1>10 DEF Agree
<1>12. \A j \in (1 .. N) \ G : r.val[j] = q.val[j]
  BY <1>8, <1>9, <1>10 DEF Agree
<1>13. QED BY <1>7, <1>8, <1>9, <1>11, <1>12 DEF Agree

(* and of any instruction. *)
LEMMA StepAgrees ==
  ASSUME FunctionOK, NEW target \in fn.selected, NEW writes, NEW i \in 1 .. N,
         NEW c \in Instruction, NEW D, NEW G, NEW s, NEW u, Agree(s, u, D, G),
         Unread(c, D, target),
         c.op = "store" /\ c.val # 0 => c.val \in (1 .. N) \ G
  PROVE  Agree(Step(s, i, c, target, writes), Step(u, i, c, target, writes),
               D \ Kills(c, target), G)
<1>1. CASE c.op \in Writing
  BY <1>1, WriteAgrees DEF Kills
<1>2. CASE c.op = "load"
  <2>1. Kills(c, target) = {}
    BY <1>2 DEF Kills, Writing
  <2>2. D \ Kills(c, target) = D
    BY <2>1
  <2>3. QED BY <1>2, <2>2, LoadAgrees
<1>3. CASE c.op = "free"
  <2>1. PICK r, q : r = Step(s, i, c, target, writes) /\ q = Step(u, i, c, target, writes)
    OBVIOUS
  <2>2. Kills(c, target) = {"heap"} \X Bytes
    BY <1>3 DEF Kills, Writing
  <2>3. /\ r.mem = [x \in Cells |-> IF x[1] = "heap" THEN UndefByte ELSE s.mem[x]]
        /\ q.mem = [x \in Cells |-> IF x[1] = "heap" THEN UndefByte ELSE u.mem[x]]
        /\ r.val = s.val /\ q.val = u.val /\ r.seen = s.seen /\ q.seen = u.seen
    BY <1>3, <2>1, FreeStep
  <2>4. \A x \in Cells : x \in {"heap"} \X Bytes => x[1] = "heap"
    BY DEF Cells
  <2>5. \A x \in Cells \ (D \ Kills(c, target)) : r.mem[x] = q.mem[x]
    BY <2>2, <2>3, <2>4 DEF Agree
  <2>6. QED BY <2>1, <2>3, <2>5 DEF Agree
<1>4. CASE c.op = "call"
  <2>1. PICK r, q : r = Step(s, i, c, target, writes) /\ q = Step(u, i, c, target, writes)
    OBVIOUS
  <2>2. VisibleCells \cap D = {} /\ VisibleCells \subseteq Cells
    BY <1>4 DEF Unread, VisibleCells
  <2>3. PICK a, b : a = s.mem /\ b = u.mem
    OBVIOUS
  <2>4. \A x \in VisibleCells : a[x] = b[x]
    BY <2>2, <2>3 DEF Agree
  <2>5. [x \in VisibleCells |-> a[x]] = [x \in VisibleCells |-> b[x]]
    BY <2>4
  <2>6. /\ r.mem = [x \in Cells |->
                      IF writes /\ x \in VisibleCells THEN <<i, x[2], x[1]>> ELSE s.mem[x]]
        /\ r.val = s.val
        /\ r.seen = Append(s.seen, [x \in VisibleCells |-> s.mem[x]])
    BY <1>4, <2>1 DEF Step, State, See, Seen
  <2>7. /\ q.mem = [x \in Cells |->
                      IF writes /\ x \in VisibleCells THEN <<i, x[2], x[1]>> ELSE u.mem[x]]
        /\ q.val = u.val
        /\ q.seen = Append(u.seen, [x \in VisibleCells |-> u.mem[x]])
    BY <1>4, <2>1 DEF Step, State, See, Seen
  <2>8. r.seen = q.seen
    BY <2>3, <2>5, <2>6, <2>7 DEF Agree
  <2>9. \A x \in Cells \ D : r.mem[x] = q.mem[x]
    BY <2>6, <2>7 DEF Agree
  <2>10. Kills(c, target) = {}
    BY <1>4 DEF Kills, Writing
  <2>11. QED BY <2>1, <2>6, <2>7, <2>8, <2>9, <2>10 DEF Agree
<1>5. QED BY <1>1, <1>2, <1>3, <1>4, InstructionParts

(* a load that nobody uses *)
LEMMA UnusedLoad ==
  ASSUME NEW target, NEW writes, NEW i, NEW c \in Instruction, c.op = "load", ~c.used,
         NEW D, NEW G, i \in G, NEW s, NEW u, Agree(s, u, D, G)
  PROVE  Agree(Step(s, i, c, target, writes), u, D, G)
<1>1. PICK r : r = Step(s, i, c, target, writes)
  OBVIOUS
<1>2. /\ r.mem = s.mem /\ r.seen = s.seen
      /\ r.val = [j \in 1 .. N |-> IF j = i THEN Get(s.mem, c.loc, target) ELSE s.val[j]]
  BY <1>1, LoadStep
<1>3. \A j \in (1 .. N) \ G : r.val[j] = s.val[j]
  BY <1>2
<1>4. QED BY <1>1, <1>2, <1>3 DEF Agree

(* what the other successor sees *)
LEMMA LookAgrees ==
  ASSUME NEW s, NEW u, NEW D, NEW G, Agree(s, u, D, G), D = {}
  PROVE  Agree(Seen(s, Cells), Seen(u, Cells), D, G)
<1>1. \A c \in Cells : s.mem[c] = u.mem[c]
  BY DEF Agree
<1>2. [c \in Cells |-> s.mem[c]] = [c \in Cells |-> u.mem[c]]
  BY <1>1
<1>3. QED BY <1>1, <1>2 DEF Seen, See, State, Agree

(***************************************************************************)
(* Where each instruction keeps the difference within D, the runs show the *)
(* same.                                                                   *)
(***************************************************************************)
Simulates(p, S, q, T, target, writes, D, G) ==
  /\ D[0] = {} /\ D[N] \cap Out = {}
  /\ fn.cond /\ fn.split \in 1 .. N => D[fn.split] = {}
  /\ \A k \in 1 .. N :
       Agree(Run(p, S, target, writes)[k - 1], Run(q, T, target, writes)[k - 1], D[k - 1], G) =>
         Agree(Do(Run(p, S, target, writes)[k - 1], k, p, S, target, writes),
               Do(Run(q, T, target, writes)[k - 1], k, q, T, target, writes), D[k], G)

(* Two programs that keep runs together show the same. *)
LEMMA Simulation ==
  ASSUME FunctionOK, NEW p, NEW S, NEW q, NEW T, NEW target, NEW writes, NEW D, NEW G,
         Simulates(p, S, q, T, target, writes, D, G)
  PROVE  Behaviour(p, S, target, writes) = Behaviour(q, T, target, writes)
<1>1. N \in Nat
  BY LeftIs
<1>2. PICK R : R = Run(p, S, target, writes)
  OBVIOUS
<1>3. PICK Q : Q = Run(q, T, target, writes)
  OBVIOUS
<1>4. R[0] = Before /\ \A i \in 1 .. N : R[i] = After(R[i - 1], i, p, S, target, writes)
  BY <1>2, RunIs
<1>5. Q[0] = Before /\ \A i \in 1 .. N : Q[i] = After(Q[i - 1], i, q, T, target, writes)
  BY <1>3, RunIs
<1> DEFINE Bad == {n \in 0 .. N : ~Agree(R[n], Q[n], D[n], G)}
<1>6. ASSUME Bad # {} PROVE FALSE
  <2>1. PICK n \in Bad : \A k \in Bad : n <= k
    <3>1. Bad \subseteq Nat
      BY <1>1
    <3> HIDE DEF Bad
    <3>2. QED BY <1>6, <3>1, LeastNumber
  <2>2. n # 0
    <3>1. Agree(R[0], Q[0], D[0], G)
      BY <1>4, <1>5 DEF Agree, Simulates
    <3>2. QED BY <3>1
  <2>3. n - 1 \in 0 .. N /\ n \in 1 .. N /\ ~(n <= n - 1)
    BY <1>1, <2>2
  <2>4. Agree(R[n - 1], Q[n - 1], D[n - 1], G)
    BY <2>1, <2>3
  <2>5. PICK x, y : /\ x = Do(R[n - 1], n, p, S, target, writes)
                    /\ y = Do(Q[n - 1], n, q, T, target, writes)
    OBVIOUS
  <2>6. Agree(x, y, D[n], G)
    BY <1>2, <1>3, <2>3, <2>4, <2>5 DEF Simulates
  <2>7. /\ R[n] = IF n = fn.split /\ fn.cond THEN Seen(x, Cells) ELSE x
        /\ Q[n] = IF n = fn.split /\ fn.cond THEN Seen(y, Cells) ELSE y
    BY <1>4, <1>5, <2>3, <2>5 DEF After, Do
  <2>8. CASE n = fn.split /\ fn.cond
    <3>1. D[n] = {}
      BY <2>3, <2>8 DEF Simulates
    <3>2. Agree(Seen(x, Cells), Seen(y, Cells), D[n], G)
      BY <2>6, <3>1, LookAgrees
    <3>3. Agree(R[n], Q[n], D[n], G)
      BY <2>7, <2>8, <3>2
    <3>4. QED BY <3>3
  <2>9. CASE ~(n = fn.split /\ fn.cond)
    <3>1. Agree(R[n], Q[n], D[n], G)
      BY <2>6, <2>7, <2>9
    <3>2. QED BY <3>1
  <2>10. QED BY <2>8, <2>9
<1>7. N \in 0 .. N
  BY <1>1
<1>8. Agree(R[N], Q[N], D[N], G)
  BY <1>6, <1>7
<1>9. PICK s, u : s = R[N] /\ u = Q[N]
  OBVIOUS
<1>10. Out \subseteq Cells
  BY DEF Out, VisibleCells
<1>11. \A c \in Out : s.mem[c] = u.mem[c]
  BY <1>8, <1>9, <1>10 DEF Agree, Simulates
<1>12. [c \in Out |-> s.mem[c]] = [c \in Out |-> u.mem[c]]
  BY <1>11
<1>13. Seen(s, Out).seen = Seen(u, Out).seen
  BY <1>8, <1>9, <1>12 DEF Seen, See, State, Agree
<1>14. Behaviour(p, S, target, writes) = Seen(s, Out).seen
  BY <1>2, <1>9 DEF Behaviour, Out
<1>15. Behaviour(q, T, target, writes) = Seen(u, Out).seen
  BY <1>3, <1>9 DEF Behaviour, Out
<1>16. QED BY <1>13, <1>14, <1>15

----------------------------------------------------------------------------

(* Two runs that differ in D differ in no more than E. *)
LEMMA AgreeMore ==
  ASSUME NEW s, NEW u, NEW D, NEW E, NEW G, Agree(s, u, D, G), D \subseteq E
  PROVE  Agree(s, u, E, G)
  BY DEF Agree

(***************************************************************************)
(* The argument every removal rests on.  Of program p with the             *)
(* instructions S left, T stay; besides loads nobody uses, only d changes  *)
(* or goes.  That makes a difference X to memory; nothing from d to e      *)
(* reads it, and e, if it is not the end, gives all of X new values.       *)
(***************************************************************************)
Changes(p, S, q, T, target, writes, X, d, e) ==
  /\ \A k \in T : k # d => p[k] = q[k]
  /\ \A k \in T : k # d /\ p[k].op = "store" /\ p[k].val # 0 => p[k].val \in (1 .. N) \ (S \ T)
  /\ \A k \in S \ T : k # d => p[k].op = "load" /\ ~p[k].used
  /\ \A u : Agree(Run(p, S, target, writes)[d - 1], u, {}, S \ T) =>
              Agree(Do(Run(p, S, target, writes)[d - 1], d, p, S, target, writes),
                    Do(u, d, q, T, target, writes), X, S \ T)
  /\ \A k \in T : d < k /\ k < e => Unread(p[k], X, target)
  /\ e <= N => e \in T /\ Unread(p[e], X, target) /\ X \subseteq Kills(p[e], target)
  /\ fn.cond /\ d <= fn.split /\ fn.split < e => X = {}
  /\ e = N + 1 => X \cap Out = {}

(* A change that makes such a difference changes no behaviour. *)
LEMMA Changing ==
  ASSUME FunctionOK, NEW target \in fn.selected, NEW writes,
         NEW p \in [1 .. N -> Instruction], NEW S, NEW q, NEW T, T \subseteq S,
         NEW X, NEW d \in 1 .. N, NEW e \in 1 .. N + 1, d < e,
         Changes(p, S, q, T, target, writes, X, d, e)
  PROVE  Behaviour(p, S, target, writes) = Behaviour(q, T, target, writes)
<1> USE DEF Changes
<1> DEFINE G == S \ T
           D == [k \in 0 .. N |-> IF d <= k /\ k < e THEN X ELSE {}]
<1>1. N \in Nat /\ fn.split \in Nat
  BY LeftIs
<1>2. PICK R : R = Run(p, S, target, writes)
  OBVIOUS
<1>3. PICK Q : Q = Run(q, T, target, writes)
  OBVIOUS
<1>4. D[0] = {} /\ D[N] \cap Out = {}
  <2>1. 0 \in 0 .. N /\ N \in 0 .. N /\ ~(d <= 0)
    BY <1>1
  <2>2. D[0] = {}
    BY <2>1
  <2>3. CASE e = N + 1
    BY <2>1, <2>3
  <2>4. CASE e # N + 1
    <3>1. ~(N < e)
      BY <1>1, <2>4
    <3>2. QED BY <2>1, <2>2, <3>1
  <2>5. QED BY <2>2, <2>3, <2>4
<1>5. fn.cond /\ fn.split \in 1 .. N => D[fn.split] = {}
  BY <1>1
<1>6. ASSUME NEW k \in 1 .. N, Agree(R[k - 1], Q[k - 1], D[k - 1], G)
      PROVE  Agree(Do(R[k - 1], k, p, S, target, writes),
                   Do(Q[k - 1], k, q, T, target, writes), D[k], G)
  <2>1. k \in Int /\ k - 1 \in 0 .. N /\ k \in 0 .. N /\ p[k] \in Instruction
    BY <1>1
  <2>2. D[k - 1] = IF d < k /\ k <= e THEN X ELSE {}
    BY <2>1
  <2>3. D[k] = IF d <= k /\ k < e THEN X ELSE {}
    BY <2>1
  <2>4. PICK A, B, s, u : A = D[k - 1] /\ B = D[k] /\ s = R[k - 1] /\ u = Q[k - 1]
    OBVIOUS
  <2> HIDE DEF D
  <2>5. Agree(s, u, A, G)
    BY <1>6, <2>4
  <2>6. SUFFICES Agree(Do(s, k, p, S, target, writes), Do(u, k, q, T, target, writes), B, G)
    BY <2>4
  <2>7. CASE k = d
    <3>1. A = {} /\ B = X
      BY <2>1, <2>2, <2>3, <2>4, <2>7
    <3>2. QED BY <1>2, <2>4, <2>5, <2>7, <3>1
  <2>8. k # e \/ k \in T
    BY <1>1
  <2>9. CASE k # d /\ k \in T
    <3>1. /\ Do(s, k, p, S, target, writes) = Step(s, k, p[k], target, writes)
          /\ Do(u, k, q, T, target, writes) = Step(u, k, p[k], target, writes)
      BY <2>9 DEF Do
    <3>2. Unread(p[k], A, target)
      <4>1. CASE d < k /\ k <= e
        BY <2>1, <2>2, <2>4, <2>9, <4>1
      <4>2. CASE ~(d < k /\ k <= e)
        BY <2>2, <2>4, <4>2 DEF Unread
      <4>3. QED BY <4>1, <4>2
    <3>3. PICK c : c = p[k]
      OBVIOUS
    <3>4. Agree(Step(s, k, c, target, writes), Step(u, k, c, target, writes),
                A \ Kills(c, target), G)
      BY <2>1, <2>5, <2>9, <3>2, <3>3, StepAgrees
    <3>5. A \ Kills(c, target) \subseteq B
      BY <2>1, <2>2, <2>3, <2>4, <2>9, <3>3
    <3>6. QED BY <3>1, <3>3, <3>4, <3>5, AgreeMore
  <2>10. CASE k # d /\ k \notin T
    <3>1. A \subseteq B
      BY <2>1, <2>2, <2>3, <2>4, <2>8, <2>10
    <3>2. Agree(s, u, B, G)
      BY <2>5, <3>1, AgreeMore
    <3>3. Do(u, k, q, T, target, writes) = u
      BY <2>10 DEF Do
    <3>4. CASE k \in S
      <4>1. p[k].op = "load" /\ ~p[k].used /\ k \in G
        BY <2>10, <3>4
      <4>2. Do(s, k, p, S, target, writes) = Step(s, k, p[k], target, writes)
        BY <3>4 DEF Do
      <4>3. PICK c, H : c = p[k] /\ H = G
        OBVIOUS
      <4>4. c \in Instruction /\ c.op = "load" /\ ~c.used /\ k \in H /\ Agree(s, u, B, H)
        BY <2>1, <3>2, <4>1, <4>3
      <4>5. Agree(Step(s, k, c, target, writes), u, B, H)
        BY <4>4, UnusedLoad
      <4>6. QED BY <3>3, <4>2, <4>3, <4>5
    <3>5. CASE k \notin S
      BY <3>2, <3>3, <3>5 DEF Do
    <3>6. QED BY <3>4, <3>5
  <2>11. QED BY <2>7, <2>9, <2>10
<1>7. PICK H : H = G
  OBVIOUS
<1>8. PICK E : E = D
  OBVIOUS
<1> HIDE DEF D, G
<1>9. \A k \in 1 .. N :
        Agree(Run(p, S, target, writes)[k - 1], Run(q, T, target, writes)[k - 1], E[k - 1], H) =>
          Agree(Do(Run(p, S, target, writes)[k - 1], k, p, S, target, writes),
                Do(Run(q, T, target, writes)[k - 1], k, q, T, target, writes), E[k], H)
  BY <1>2, <1>3, <1>6, <1>7, <1>8
<1>10. E[0] = {} /\ E[N] \cap Out = {}
  BY <1>4, <1>8
<1>11. fn.cond /\ fn.split \in 1 .. N => E[fn.split] = {}
  BY <1>5, <1>8
<1> HIDE DEF Changes
<1>12. Simulates(p, S, q, T, target, writes, E, H)
  BY <1>9, <1>10, <1>11 DEF Simulates
<1>13. QED BY <1>12, Simulation

----------------------------------------------------------------------------
(***************************************************************************)
(* What a step does to memory.                                             *)
(***************************************************************************)
Harmless(s, i, target, writes, X) ==
  LET r == Step(s, i, code[i], target, writes)
  IN /\ r.seen = s.seen
     /\ \A x \in Cells \ X : r.mem[x] = s.mem[x]
     /\ \A j \in (1 .. N) \ {i} : r.val[j] = s.val[j]

(* A write that is not volatile touches nothing but its place. *)
LEMMA WriteHarmless ==
  ASSUME FunctionOK, NEW target \in fn.selected, NEW writes, NEW s, NEW i \in 1 .. N,
         hasMemoryWrite(i), ~(code[i].op = "store" /\ code[i].volatile)
  PROVE  Harmless(s, i, target, writes, CellsOf(code[i].loc, target))
<1>1. PICK c : c = code[i]
  OBVIOUS
<1>2. c \in Instruction /\ c.op \in Writing /\ ~(c.op = "store" /\ c.volatile)
  BY <1>1 DEF FunctionOK, hasMemoryWrite, Is, Writing
<1>3. PICK r : r = Step(s, i, c, target, writes)
  OBVIOUS
<1>4. /\ r.mem = Put(s.mem, c.loc, target, Written(s, i, c, target))
      /\ r.val = s.val /\ r.seen = s.seen
  BY <1>2, <1>3, WriteStep
<1>5. \A x \in Cells \ CellsOf(c.loc, target) : r.mem[x] = s.mem[x]
  BY <1>4, PutIs
<1>6. QED BY <1>1, <1>3, <1>4, <1>5 DEF Harmless

(* a copy of a place onto itself *)
LEMMA CopyIsNothing ==
  ASSUME FunctionOK, NEW target \in fn.selected, NEW writes, NEW s, NEW i \in 1 .. N,
         NEW c \in Instruction, c.op = "memcpy", CellsOf(c.src, target) = CellsOf(c.loc, target)
  PROVE  /\ \A x \in Cells : Step(s, i, c, target, writes).mem[x] = s.mem[x]
         /\ Step(s, i, c, target, writes).val = s.val
         /\ Step(s, i, c, target, writes).seen = s.seen
<1>1. c.loc \in Location /\ c.src \in Location /\ c.src.size = c.loc.size
  BY InstructionParts DEF Writing
<1>2. PICK l, m : l = c.loc /\ m = c.src
  OBVIOUS
<1>3. PICK o : /\ o = IF l.ptr = "select" THEN target ELSE l.ptr
               /\ CellsOf(l, target) = {x \in Cells : x[1] = o /\ x[2] \in Covers(l)}
  BY <1>1, <1>2, PlaceIs
<1>4. PICK k : /\ k = IF m.ptr = "select" THEN target ELSE m.ptr
               /\ CellsOf(m, target) = {x \in Cells : x[1] = k /\ x[2] \in Covers(m)}
  BY <1>1, <1>2, PlaceIs
<1>5. /\ l.off \in Nat /\ l.size \in Nat /\ l.size > 0
      /\ m.off \in Nat /\ m.size \in Nat /\ m.size = l.size
      /\ Covers(l) = {b \in Int : l.off <= b /\ b < l.off + l.size}
      /\ Covers(m) = {b \in Int : m.off <= b /\ b < m.off + m.size}
  BY <1>1, <1>2, LocationParts
<1>6. /\ <<o, l.off>> \in CellsOf(l, target) /\ <<k, m.off>> \in CellsOf(m, target)
  <2>1. l.off \in Covers(l) /\ m.off \in Covers(m)
    BY <1>5
  <2>2. QED BY <1>3, <1>4, <2>1 DEF CellsOf
<1>7. CellsOf(l, target) = CellsOf(m, target)
  BY <1>2
<1>8. o = k
  <2>1. <<o, l.off>> \in CellsOf(m, target)
    BY <1>6, <1>7
  <2>2. <<o, l.off>>[1] = k
    BY <1>4, <2>1
  <2>3. QED BY <2>2
<1>9. l.off \in Covers(m) /\ m.off \in Covers(l)
  <2>1. <<o, l.off>> \in CellsOf(m, target) /\ <<k, m.off>> \in CellsOf(l, target)
    BY <1>6, <1>7
  <2>2. <<o, l.off>>[2] \in Covers(m) /\ <<k, m.off>>[2] \in Covers(l)
    BY <1>3, <1>4, <2>1
  <2>3. QED BY <2>2
<1>10. l.off = m.off
  BY <1>5, <1>9
<1>11. Written(s, i, c, target) = Get(s.mem, m, target)
  BY <1>2 DEF Written
<1>12. ASSUME NEW x \in Cells
       PROVE  Put(s.mem, l, target, Get(s.mem, m, target))[x] = s.mem[x]
  <2>1. CASE x \notin CellsOf(l, target)
    BY <2>1, PutIs
  <2>2. CASE x \in CellsOf(l, target)
    <3>1. x[1] = o /\ x[2] \in Covers(l) /\ x = <<x[1], x[2]>>
      BY <1>3, <2>2 DEF Cells
    <3>2. x[2] - l.off \in 0 .. m.size - 1 /\ m.off + (x[2] - l.off) = x[2]
      BY <1>5, <1>10, <3>1
    <3>3. Get(s.mem, m, target)[x[2] - l.off] = s.mem[<<k, m.off + (x[2] - l.off)>>]
      BY <1>4, <3>2 DEF Get
    <3>4. Get(s.mem, m, target)[x[2] - l.off] = s.mem[x]
      BY <1>8, <3>1, <3>2, <3>3
    <3>5. QED BY <2>2, <3>4, PutIs
  <2>3. QED BY <2>1, <2>2
<1>13. PICK r : r = Step(s, i, c, target, writes)
  OBVIOUS
<1>14. r.mem = Put(s.mem, l, target, Get(s.mem, m, target)) /\ r.val = s.val /\ r.seen = s.seen
  BY <1>2, <1>11, <1>13, WriteStep DEF Writing
<1>15. QED BY <1>12, <1>13, <1>14

(* what is copied onto itself still is when it is shortened *)
LEMMA TrimmedCopy ==
  ASSUME FunctionOK, NEW target \in fn.selected, NEW i \in 1 .. N,
         NEW c \in Instruction, Trim(c, first[i]), c.op = "memcpy"
  PROVE  /\ i \in Copies
         /\ OntoItself(i, target) => CellsOf(c.src, target) = CellsOf(c.loc, target)
         /\ CellsOf(c.src, target) \subseteq CellsOf(first[i].src, target)
         /\ CellsOf(c.loc, target) \subseteq CellsOf(first[i].loc, target)
         /\ c.src.ptr = first[i].src.ptr /\ c.src.off = first[i].src.off
         /\ c.loc.ptr = first[i].loc.ptr
<1>1. PICK b : b = first[i]
  OBVIOUS
<1>2. b \in Instruction /\ b.op = "memcpy"
  BY <1>1 DEF FunctionOK, Trim
<1>3. PICK l, m : l = c.loc /\ m = c.src
  OBVIOUS
<1>4. PICK k, n : k = b.loc /\ n = b.src
  OBVIOUS
<1>5. /\ l \in Location /\ m \in Location /\ m.size = l.size
      /\ k \in Location /\ n \in Location /\ n.size = k.size
  BY <1>2, <1>3, <1>4, InstructionParts DEF Writing
<1>6. /\ l.ptr = k.ptr /\ l.off = k.off /\ m.ptr = n.ptr /\ m.off = n.off /\ l.size <= k.size
  <2>1. CASE c = b
    <3>1. l = k /\ m = n
      BY <1>3, <1>4, <2>1
    <3>2. l.size \in Nat
      BY <1>5, LocationParts
    <3>3. QED BY <3>1, <3>2
  <2>2. CASE c # b
    BY <1>1, <1>3, <1>4, <2>2 DEF Trim
  <2>3. QED BY <2>1, <2>2
<1>7. /\ l.off \in Nat /\ l.size \in Nat /\ l.size > 0 /\ k.size \in Nat
      /\ m.off \in Nat
      /\ Covers(l) = {x \in Int : l.off <= x /\ x < l.off + l.size}
      /\ Covers(m) = {x \in Int : m.off <= x /\ x < m.off + l.size}
      /\ Covers(k) = {x \in Int : l.off <= x /\ x < l.off + k.size}
      /\ Covers(n) = {x \in Int : m.off <= x /\ x < m.off + k.size}
  BY <1>5, <1>6, LocationParts
<1>8. Covers(l) \subseteq Covers(k) /\ Covers(m) \subseteq Covers(n)
  BY <1>6, <1>7
<1>9. PICK o : o = IF l.ptr = "select" THEN target ELSE l.ptr
  OBVIOUS
<1>10. PICK r : r = IF m.ptr = "select" THEN target ELSE m.ptr
  OBVIOUS
<1>11. /\ CellsOf(l, target) = {o} \X Covers(l) /\ CellsOf(k, target) = {o} \X Covers(k)
       /\ CellsOf(m, target) = {r} \X Covers(m) /\ CellsOf(n, target) = {r} \X Covers(n)
  BY <1>6, <1>9, <1>10 DEF CellsOf
<1>12. CellsOf(l, target) \subseteq CellsOf(k, target) /\ CellsOf(m, target) \subseteq CellsOf(n, target)
  BY <1>8, <1>11
<1>13. ASSUME CellsOf(n, target) = CellsOf(k, target)
       PROVE  CellsOf(m, target) = CellsOf(l, target)
  <2>1. <<o, l.off>> \in CellsOf(k, target) /\ <<r, m.off>> \in CellsOf(n, target)
    <3>1. l.off \in Covers(k) /\ m.off \in Covers(n)
      BY <1>6, <1>7
    <3>2. QED BY <1>11, <3>1
  <2>2. <<o, l.off>> \in {r} \X Covers(n) /\ <<r, m.off>> \in {o} \X Covers(k)
    BY <1>11, <1>13, <2>1
  <2>3. o = r /\ l.off \in Covers(n) /\ m.off \in Covers(k)
    BY <2>2
  <2>4. l.off = m.off
    BY <1>7, <2>3
  <2>5. Covers(l) = Covers(m)
    BY <1>7, <2>4
  <2>6. QED BY <1>11, <2>3, <2>5
<1>14. OntoItself(i, target) => CellsOf(n, target) = CellsOf(k, target)
  BY <1>1, <1>4 DEF OntoItself, SrcCells, DestCells
<1>15. i \in Copies
  BY <1>1, <1>2 DEF Copies
<1>16. QED BY <1>1, <1>3, <1>4, <1>6, <1>12, <1>13, <1>14, <1>15

(***************************************************************************)
(* What isPossibleSelfRead makes sure of: the write that overwrites does   *)
(* not read what it overwrites, or the earlier one is of no effect.        *)
(***************************************************************************)
LEMMA SelfRead ==
  ASSUME FunctionOK, NEW target \in fn.selected, SameSource(target),
         NEW i \in 1 .. N, NEW d \in 1 .. N, d < i,
         hasMemoryWrite(i), ~isPossibleSelfRead(i, d), code[i].loc.ptr = code[d].loc.ptr
  PROVE  \/ Unread(code[i], CellsOf(code[i].loc, target), target)
         \/ code[d].op = "memcpy" /\ OntoItself(d, target)
<1>1. PICK c, b : c = code[i] /\ b = code[d]
  OBVIOUS
<1>2. /\ c \in Instruction /\ b \in Instruction /\ Trim(c, first[i]) /\ Trim(b, first[d])
      /\ c.op \in Writing
  BY <1>1 DEF FunctionOK, hasMemoryWrite, Is, Writing
<1>3. CASE c.op # "memcpy"
  BY <1>1, <1>2, <1>3 DEF Unread, Writing
<1>4. CASE c.op = "memcpy"
  <2>1. c.loc \in Location /\ c.src \in Location
    BY <1>2, <1>4, InstructionParts DEF Writing
  <2>2. CASE ~MayAlias(c.src, c.loc)
    <3>1. CellsOf(c.src, target) \cap CellsOf(c.loc, target) = {}
      BY <2>1, <2>2, Apart
    <3>2. QED BY <1>1, <1>4, <3>1 DEF Unread
  <2>3. CASE b.op = "memcpy" /\ MustAlias(c.src, b.src)
    <3>1. /\ i \in Copies /\ c.src.ptr = first[i].src.ptr /\ c.src.off = first[i].src.off
          /\ c.loc.ptr = first[i].loc.ptr
          /\ CellsOf(c.src, target) \subseteq CellsOf(first[i].src, target)
          /\ CellsOf(c.loc, target) \subseteq CellsOf(first[i].loc, target)
      BY <1>2, <1>4, TrimmedCopy
    <3>2. /\ d \in Copies /\ b.src.ptr = first[d].src.ptr /\ b.src.off = first[d].src.off
          /\ b.loc.ptr = first[d].loc.ptr
      BY <1>2, <2>3, TrimmedCopy
    <3>3. MustAlias(first[i].src, first[d].src) /\ first[i].loc.ptr = first[d].loc.ptr
      BY <1>1, <2>3, <3>1, <3>2 DEF MustAlias
    <3>4. CASE OntoItself(i, target) /\ OntoItself(d, target)
      BY <1>1, <2>3, <3>4
    <3>5. CASE Elsewhere(i, target)
      <4>1. CellsOf(first[i].src, target) \cap CellsOf(first[i].loc, target) = {}
        BY <3>5 DEF Elsewhere, SrcCells, DestCells
      <4>2. CellsOf(c.src, target) \cap CellsOf(c.loc, target) = {}
        BY <3>1, <4>1
      <4>3. QED BY <1>1, <1>4, <4>2 DEF Unread
    <3>6. QED BY <3>1, <3>2, <3>3, <3>4, <3>5 DEF SameSource
  <2>4. QED BY <1>1, <1>4, <2>2, <2>3 DEF isPossibleSelfRead, Is
<1>5. QED BY <1>3, <1>4

----------------------------------------------------------------------------
(***************************************************************************)
(* A deletion.                                                             *)
(***************************************************************************)
(* what is left from d to e does not read X, and e ends it *)
Unseen(target, S, X, d, e) ==
  /\ \A k \in S : d < k /\ k < e => Unread(code[k], X, target)
  /\ e <= N => e \in S /\ Unread(code[e], X, target) /\ X \subseteq Kills(code[e], target)
  /\ fn.cond /\ d <= fn.split /\ fn.split < e => X = {}
  /\ e = N + 1 => X \cap Out = {}

(* An instruction may go if what it alone wrote is not read. *)
LEMMA Deleting ==
  ASSUME FunctionOK, LoadsLeft, NEW d \in alive, hasMemoryWrite(d) \/ TriviallyDead(d, {}),
         DeleteDeadInstruction(d), UNCHANGED <<first, fn, code>>,
         NEW target \in fn.selected, NEW writes, NEW X, NEW e \in 1 .. N + 1, d < e,
         \A s : s = Run(code, alive, target, writes)[d - 1] => Harmless(s, d, target, writes, X),
         Unseen(target, alive', X, d, e)
  PROVE  Behaviour(code', alive', target, writes) = Behaviour(code, alive, target, writes)
<1>1. PICK p, S, T : p = code /\ S = alive /\ T = alive'
  OBVIOUS
<1>2. PICK G : G = S \ T
  OBVIOUS
<1>3. PICK s : s = Run(p, S, target, writes)[d - 1]
  OBVIOUS
<1>4. /\ FunctionOK' /\ LoadsLeft' /\ d \notin T /\ T \subseteq S
      /\ \A j \in G : j # d => p[j].op = "load" /\ ~p[j].used
  BY <1>1, <1>2, Deleted
<1>5. p \in [1 .. N -> Instruction] /\ S \subseteq 1 .. N
  BY <1>1 DEF FunctionOK
<1>6. \A k \in T : p[k].op = "store" /\ p[k].val # 0 => p[k].val \in (1 .. N) \ G
  <2>1. \A k \in T : p[k].op = "store" /\ p[k].val # 0 => p[k].val \in T
    BY <1>1, <1>4 DEF LoadsLeft
  <2>2. QED BY <1>2, <1>4, <1>5, <2>1
<1>7. ASSUME NEW u, Agree(s, u, {}, G)
      PROVE  Agree(Do(s, d, p, S, target, writes), Do(u, d, p, T, target, writes), X, G)
  <2>1. PICK r : r = Step(s, d, p[d], target, writes)
    OBVIOUS
  <2>2. Do(s, d, p, S, target, writes) = r /\ Do(u, d, p, T, target, writes) = u
    BY <1>1, <1>4, <2>1 DEF Do
  <2>3. Harmless(s, d, target, writes, X)
    BY <1>1, <1>3
  <2>4. /\ r.seen = s.seen
        /\ \A x \in Cells \ X : r.mem[x] = s.mem[x]
        /\ \A j \in (1 .. N) \ {d} : r.val[j] = s.val[j]
    BY <1>1, <2>1, <2>3 DEF Harmless
  <2>5. d \in G
    BY <1>1, <1>2, <1>4
  <2>6. Agree(r, u, X, G)
    BY <1>7, <2>4, <2>5 DEF Agree
  <2>7. QED BY <2>2, <2>6
<1>8. Changes(p, S, p, T, target, writes, X, d, e)
  <2>1. /\ \A k \in T : d < k /\ k < e => Unread(p[k], X, target)
        /\ e <= N => e \in T /\ Unread(p[e], X, target) /\ X \subseteq Kills(p[e], target)
        /\ fn.cond /\ d <= fn.split /\ fn.split < e => X = {}
        /\ e = N + 1 => X \cap Out = {}
    BY <1>1 DEF Unseen
  <2>2. QED BY <1>2, <1>3, <1>4, <1>6, <1>7, <2>1 DEF Changes
<1>9. d \in 1 .. N
  BY <1>1, <1>5
<1>10. T \subseteq S /\ p \in [1 .. N -> Instruction]
  BY <1>4, <1>5
<1>12. Behaviour(p, S, target, writes) = Behaviour(p, T, target, writes)
  BY <1>8, <1>9, <1>10, Changing
<1>11. QED BY <1>1, <1>12

(* nothing is lost with a write that is of no effect, or a load nobody uses *)
LEMMA NothingLost ==
  ASSUME FunctionOK, NEW target, NEW S, NEW d \in 1 .. N
  PROVE  Unseen(target, S, {}, d, N + 1)
<1>1. N \in Nat
  BY LeftIs
<1>2. QED BY <1>1 DEF Unseen, Unread

(***************************************************************************)
(* The steps that delete.                                                  *)
(***************************************************************************)
LEMMA OverwrittenSame ==
  ASSUME WalkInv, RemoveOverwritten, NEW target \in fn.selected, NEW writes,
         SameSource(target)
  PROVE  Behaviour(code', alive', target, writes) = Behaviour(code, alive, target, writes)
<1>1. /\ UNCHANGED <<first, fn, code>> /\ pc = "deps" /\ DeleteDeadInstruction(dep)
      /\ hasMemoryWrite(dep) /\ isRemovable(dep) /\ ~isPossibleSelfRead(Inst, dep)
      /\ Complete(Loc, code[dep].loc)
  BY DEF RemoveOverwritten, Obliterates
<1>2. /\ FunctionOK /\ LoadsLeft /\ BB \in {1, 2} /\ hasMemoryWrite(Inst)
      /\ Inst \in Left(BB) /\ dep \in Left(BB) /\ dep < Inst /\ dep \in alive /\ Inst \in alive
      /\ \A j \in Left(BB) : dep < j /\ j < Inst => ~MayRead(code[j], Loc)
  BY <1>1, BBIs DEF WalkInv, Overwriting, Left
<1>3. PICK d, e : d = dep /\ e = Inst
  OBVIOUS
<1>4. d \in 1 .. N /\ e \in 1 .. N /\ N \in Nat /\ fn.split \in Nat /\ d < e
  BY <1>2, <1>3, LeftIs DEF FunctionOK
<1>5. PICK c, b : c = code[e] /\ b = code[d]
  OBVIOUS
<1>6. /\ c \in Instruction /\ b \in Instruction /\ c.op \in Writing /\ b.op \in Writing
      /\ ~(b.op = "store" /\ b.volatile) /\ Trim(b, first[d])
  BY <1>1, <1>2, <1>3, <1>4, <1>5 DEF FunctionOK, hasMemoryWrite, isRemovable, Is, Writing
<1>7. c.loc \in Location /\ b.loc \in Location
  BY <1>6, InstructionParts
<1>8. PICK X : X = CellsOf(b.loc, target)
  OBVIOUS
<1>9. Complete(c.loc, b.loc) /\ c.loc.ptr = b.loc.ptr
  BY <1>1, <1>3, <1>5 DEF Loc, Complete
<1>10. X \subseteq CellsOf(c.loc, target)
  <2>1. Covers(b.loc) \subseteq Covers(c.loc)
    BY <1>7, <1>9, LocationParts DEF Complete
  <2>2. QED BY <1>8, <1>9, <2>1 DEF CellsOf
<1>11. Unread(c, CellsOf(c.loc, target), target) \/ (b.op = "memcpy" /\ OntoItself(d, target))
  BY <1>1, <1>2, <1>3, <1>4, <1>5, <1>9, SelfRead
<1>12. CASE b.op = "memcpy" /\ OntoItself(d, target)
  <2>1. CellsOf(b.src, target) = CellsOf(b.loc, target)
    BY <1>2, <1>4, <1>6, <1>12, TrimmedCopy
  <2>2. \A s : Harmless(s, d, target, writes, {})
    <3>1. ASSUME NEW s PROVE Harmless(s, d, target, writes, {})
      <4>1. /\ \A x \in Cells : Step(s, d, b, target, writes).mem[x] = s.mem[x]
            /\ Step(s, d, b, target, writes).val = s.val
            /\ Step(s, d, b, target, writes).seen = s.seen
        <5>1. FunctionOK /\ d \in 1 .. N /\ b \in Instruction /\ b.op = "memcpy"
          BY <1>2, <1>4, <1>6, <1>12
        <5>2. QED BY ONLY <5>1, <2>1, CopyIsNothing, target \in fn.selected
      <4>2. QED BY <1>5, <4>1 DEF Harmless
    <3>2. QED BY <3>1
  <2>3. PICK T : T = alive'
    OBVIOUS
  <2>4. Unseen(target, T, {}, d, N + 1)
    BY <1>2, <1>4, NothingLost
  <2>5. N + 1 \in 1 .. N + 1 /\ d < N + 1
    BY <1>4
  <2>6. QED BY <1>1, <1>2, <1>3, <2>2, <2>3, <2>4, <2>5, Deleting
<1>13. CASE Unread(c, CellsOf(c.loc, target), target)
  <2>1. \A s : Harmless(s, d, target, writes, X)
    BY <1>2, <1>3, <1>4, <1>1, <1>5, <1>6, <1>8, WriteHarmless
  <2>2. alive' \subseteq alive /\ e \in alive'
    <3>1. alive' \subseteq alive /\ \A j \in alive \ alive' : j # d => j < d
      BY <1>1, <1>2, <1>3, Deleted
    <3>2. QED BY <1>2, <1>3, <1>4, <3>1
  <2>3. ASSUME NEW k \in alive', d < k, k < e
        PROVE  Unread(code[k], X, target)
    <3>1. k \in alive /\ k \in 1 .. N /\ code[k] \in Instruction
      BY <1>2, <2>2 DEF FunctionOK
    <3>2. k \in Left(BB)
      BY <1>2, <1>3, <1>4, <2>3, <3>1, LeftIs
    <3>3. ~MayRead(code[k], c.loc)
      BY <1>2, <1>3, <1>5, <2>3, <3>2 DEF Loc
    <3>4. QED BY <1>2, <1>7, <1>10, <3>1, <3>3, NotRead
  <2>4. Unread(c, X, target) /\ X \subseteq Kills(c, target)
    BY <1>6, <1>10, <1>13 DEF Unread, Kills
  <2>5. ~(d <= fn.split /\ fn.split < e)
    BY <1>2, <1>3, <1>4, LeftIs
  <2>6. PICK T : T = alive'
    OBVIOUS
  <2>7. Unseen(target, T, X, d, e)
    <3>1. \A k \in T : d < k /\ k < e => Unread(code[k], X, target)
      BY <2>3, <2>6
    <3>2. e \in T /\ Unread(code[e], X, target) /\ X \subseteq Kills(code[e], target)
      BY <1>5, <2>2, <2>4, <2>6
    <3>3. e # N + 1
      BY <1>4
    <3>4. QED BY <2>5, <3>1, <3>2, <3>3 DEF Unseen
  <2>8. e \in 1 .. N + 1
    BY <1>4
  <2>9. QED BY <1>1, <1>2, <1>3, <1>4, <2>1, <2>6, <2>7, <2>8, Deleting
<1>14. QED BY <1>11, <1>12, <1>13

----------------------------------------------------------------------------

(* RemoveFreed: the object is gone before anybody reads it. *)
LEMMA FreedSame ==
  ASSUME WalkInv, RemoveFreed, NEW target \in fn.selected, NEW writes
  PROVE  Behaviour(code', alive', target, writes) = Behaviour(code, alive, target, writes)
<1>1. /\ UNCHANGED <<first, fn, code>> /\ pc = "free" /\ dep # 0 /\ DeleteDeadInstruction(dep)
      /\ hasMemoryWrite(dep) /\ isRemovable(dep) /\ code[dep].loc.ptr = "heap"
  BY DEF RemoveFreed
<1>2. /\ FunctionOK /\ LoadsLeft /\ BB \in {1, 2} /\ from \in {1, BB} /\ (from # BB => ~fn.cond)
      /\ Inst \in Left(BB) /\ code[Inst].op = "free"
      /\ dep \in Left(from) /\ dep < Inst /\ dep \in alive /\ Inst \in alive
      /\ \A j \in alive : (from = 2 => j > fn.split) /\ dep < j /\ j < Inst =>
           ~Touches(code[j], Whole("heap"))
  BY <1>1, BBIs DEF WalkInv, Freeing, Left
<1>3. PICK d, e : d = dep /\ e = Inst
  OBVIOUS
<1>4. d \in 1 .. N /\ e \in 1 .. N /\ N \in Nat /\ fn.split \in Nat /\ d < e
  BY <1>2, <1>3, LeftIs DEF FunctionOK
<1>5. PICK b : b = code[d]
  OBVIOUS
<1>6. b \in Instruction /\ b.op \in Writing /\ ~(b.op = "store" /\ b.volatile)
  BY <1>1, <1>2, <1>3, <1>4, <1>5 DEF FunctionOK, hasMemoryWrite, isRemovable, Is, Writing
<1>7. b.loc \in Location /\ Size > 0
  <2>1. b.loc \in Location
    BY <1>6, InstructionParts
  <2>2. QED BY <2>1, LocationParts, DeadStoresAssumption
<1>8. PICK X : X = CellsOf(b.loc, target)
  OBVIOUS
<1>9. PICK h : h = Whole("heap")
  OBVIOUS
<1>10. h \in Location /\ CellsOf(h, target) = {"heap"} \X Bytes
  BY <1>2, <1>7, <1>9, WholeIs DEF Objects
<1>11. X \subseteq {"heap"} \X Bytes
  <2>1. Covers(b.loc) \subseteq Bytes /\ b.loc.ptr = "heap"
    BY <1>1, <1>3, <1>5, <1>7, LocationParts
  <2>2. X = {"heap"} \X Covers(b.loc)
    BY <1>8, <2>1 DEF CellsOf
  <2>3. QED BY <2>1, <2>2
<1>12. \A s : Harmless(s, d, target, writes, X)
  BY <1>1, <1>2, <1>3, <1>4, <1>5, <1>6, <1>8, WriteHarmless
<1>13. alive' \subseteq alive /\ e \in alive'
  <2>1. alive' \subseteq alive /\ \A j \in alive \ alive' : j # d => j < d
    BY <1>1, <1>2, <1>3, Deleted
  <2>2. QED BY <1>2, <1>3, <1>4, <2>1
<1>14. ASSUME NEW k \in alive', d < k, k < e
       PROVE  Unread(code[k], X, target)
  <2>1. k \in alive /\ k \in 1 .. N /\ code[k] \in Instruction
    BY <1>2, <1>13 DEF FunctionOK
  <2>2. from = 2 => k > fn.split
    BY <1>2, <1>3, <1>4, <1>14, <2>1, LeftIs
  <2>3. ~Touches(code[k], h)
    BY <1>2, <1>3, <1>9, <1>14, <2>1, <2>2
  <2>4. ~MayRead(code[k], h)
    BY <2>1, <2>3, ReadsTouch
  <2>5. QED BY <1>2, <1>10, <1>11, <2>1, <2>4, NotRead
<1>15. Unread(code[e], X, target) /\ X \subseteq Kills(code[e], target)
  BY <1>2, <1>3, <1>11 DEF Unread, Kills, Writing
<1>16. ~(fn.cond /\ d <= fn.split /\ fn.split < e)
  BY <1>2, <1>3, <1>4, LeftIs
<1>17. PICK T : T = alive'
  OBVIOUS
<1>18. Unseen(target, T, X, d, e)
  BY <1>4, <1>13, <1>14, <1>15, <1>16, <1>17 DEF Unseen
<1>19. e \in 1 .. N + 1
  BY <1>4
<1>20. QED BY <1>1, <1>2, <1>3, <1>4, <1>12, <1>17, <1>18, <1>19, Deleting

(* a load nobody uses *)
LEMMA LoadHarmless ==
  ASSUME FunctionOK, NEW target \in fn.selected, NEW writes, NEW s, NEW i \in 1 .. N,
         code[i].op = "load", ~code[i].used
  PROVE  Harmless(s, i, target, writes, {})
<1>1. PICK c : c = code[i]
  OBVIOUS
<1>2. c \in Instruction
  BY <1>1 DEF FunctionOK
<1>3. PICK r : r = Step(s, i, c, target, writes)
  OBVIOUS
<1>4. /\ r.mem = s.mem /\ r.seen = s.seen
      /\ r.val = [j \in 1 .. N |-> IF j = i THEN Get(s.mem, c.loc, target) ELSE s.val[j]]
  BY <1>1, <1>2, <1>3, LoadStep
<1>5. QED BY <1>1, <1>3, <1>4 DEF Harmless

(* RemoveUp: nothing below reads the objects, and they end there. *)
LEMMA UpSame ==
  ASSUME WalkInv, RemoveUp, NEW target \in fn.selected, NEW writes
  PROVE  Behaviour(code', alive', target, writes) = Behaviour(code, alive, target, writes)
<1>1. /\ UNCHANGED <<first, fn, code>> /\ pc = "up" /\ AtUp /\ DeleteDeadInstruction(Up)
      /\ AllDead(Up) \/ TriviallyDead(Up, {})
  BY DEF RemoveUp, AtUp
<1>2. /\ FunctionOK /\ LoadsLeft /\ BB = 2 /\ BBI \in 1 .. N + 1 /\ fn.ret
      /\ Up \in Left(2) /\ Up \in alive
      /\ \A i \in Left(2) : i < BBI => i <= Up
      /\ \A i \in Left(2) : i >= BBI => \A o \in DeadStackObjects : ~MayRead(code[i], Whole(o))
      /\ DeadStackObjects \subseteq {"alloca", "heap"} \ (fn.captured \cap {"heap"})
  BY <1>1, UpIs DEF WalkInv, Ending, DeadAreUnread
<1>3. PICK d : d = Up
  OBVIOUS
<1>4. d \in 1 .. N /\ N \in Nat /\ fn.split \in Nat /\ d > fn.split
      /\ N + 1 \in 1 .. N + 1 /\ d < N + 1
  BY <1>2, <1>3, LeftIs DEF FunctionOK
<1>5. PICK b : b = code[d]
  OBVIOUS
<1>6. b \in Instruction
  BY <1>2, <1>4, <1>5 DEF FunctionOK
<1>7. hasMemoryWrite(d) \/ TriviallyDead(d, {})
  BY <1>1, <1>3 DEF AllDead
<1>8. PICK T : T = alive'
  OBVIOUS
<1>9. CASE TriviallyDead(d, {})
  <2>1. b.op = "load" /\ ~b.used
    BY <1>5, <1>9 DEF TriviallyDead, Is
  <2>2. \A s : Harmless(s, d, target, writes, {})
    BY <1>2, <1>4, <1>5, <2>1, LoadHarmless
  <2>3. Unseen(target, T, {}, d, N + 1)
    BY <1>2, <1>4, NothingLost
  <2>4. QED BY <1>1, <1>2, <1>3, <1>4, <1>7, <1>8, <2>2, <2>3, Deleting
<1>10. CASE AllDead(d)
  <2>1. b.op \in Writing /\ ~(b.op = "store" /\ b.volatile) /\ hasMemoryWrite(d)
    BY <1>5, <1>10 DEF AllDead, hasMemoryWrite, isRemovable, Is, Writing
  <2>2. b.loc \in Location /\ Size > 0 /\ ObjectsOf(b.loc) \subseteq DeadStackObjects
    <3>1. b.loc \in Location
      BY <1>6, <2>1, InstructionParts
    <3>2. QED BY <1>5, <1>10, <3>1, LocationParts, DeadStoresAssumption DEF AllDead
  <2>3. PICK X : X = CellsOf(b.loc, target)
    OBVIOUS
  <2>4. PICK o \in DeadStackObjects \cap Objects : X \subseteq {o} \X Bytes
    <3>1. PICK o \in ObjectsOf(b.loc) \cap Objects :
            CellsOf(b.loc, target) = {c \in Cells : c[1] = o /\ c[2] \in Covers(b.loc)}
      BY <1>2, <2>2, PlaceIs
    <3>2. X \subseteq {o} \X Bytes
      BY <2>3, <3>1 DEF Cells
    <3>3. QED BY <2>2, <3>1, <3>2
  <2>5. PICK w : w = Whole(o)
    OBVIOUS
  <2>6. w \in Location /\ CellsOf(w, target) = {o} \X Bytes
    BY <1>2, <2>2, <2>5, WholeIs
  <2>7. \A s : Harmless(s, d, target, writes, X)
    BY <1>2, <1>4, <1>5, <2>1, <2>3, WriteHarmless
  <2>8. T \subseteq alive
    BY <1>1, <1>2, <1>3, <1>7, <1>8, Deleted
  <2>9. ASSUME NEW k \in T, d < k
        PROVE  Unread(code[k], X, target)
    <3>1. k \in alive /\ k \in 1 .. N /\ code[k] \in Instruction
      BY <1>2, <2>8 DEF FunctionOK
    <3>2. k \in Left(2)
      BY <1>2, <1>4, <2>9, <3>1, LeftIs
    <3>3. k >= BBI
      BY <1>2, <1>3, <1>4, <2>9, <3>1, <3>2
    <3>4. ~MayRead(code[k], w)
      BY <1>2, <2>5, <3>2, <3>3
    <3>5. QED BY <1>2, <2>4, <2>6, <3>1, <3>4, NotRead
  <2>10. X \cap Out = {}
    <3>1. Out = VisibleCells \ ({"alloca"} \X Bytes)
      BY <1>2 DEF Out
    <3>2. CASE o = "alloca"
      BY <2>4, <3>1, <3>2
    <3>3. CASE o # "alloca"
      <4>1. o = "heap" /\ ~Visible("heap")
        BY <1>2, <2>4, <3>3 DEF Visible
      <4>2. \A c \in VisibleCells : c \notin {"heap"} \X Bytes
        BY <4>1 DEF VisibleCells
      <4>3. QED BY <2>4, <3>1, <4>1, <4>2
    <3>4. QED BY <3>2, <3>3
  <2>11. Unseen(target, T, X, d, N + 1)
    BY <1>4, <2>9, <2>10 DEF Unseen
  <2>12. QED BY <1>1, <1>2, <1>3, <1>4, <1>7, <1>8, <2>7, <2>11, Deleting
<1>11. QED BY <1>1, <1>3, <1>9, <1>10

----------------------------------------------------------------------------
(***************************************************************************)
(* What does not touch a place leaves it as it is.                         *)
(***************************************************************************)
LEMMA PlaceStays ==
  ASSUME FunctionOK, NEW target \in fn.selected, NEW writes, NEW l \in Location, Size > 0,
         NEW c \in Instruction, ~Touches(c, l), NEW s, NEW i, NEW x \in CellsOf(l, target)
  PROVE  Step(s, i, c, target, writes).mem[x] = s.mem[x]
<1>1. PICK o \in ObjectsOf(l) \cap Objects :
         CellsOf(l, target) = {y \in Cells : y[1] = o /\ y[2] \in Covers(l)}
  BY PlaceIs
<1>2. x \in Cells /\ x[1] = o
  BY <1>1
<1>3. PICK r : r = Step(s, i, c, target, writes)
  OBVIOUS
<1>4. CASE c.op \in Writing
  <2>1. c.loc \in Location
    BY <1>4, InstructionParts
  <2>2. c.loc \in Accessed(c)
    BY <1>4 DEF Accessed, Writing
  <2>3. ~MayAlias(c.loc, l)
    BY <2>2 DEF Touches
  <2>4. x \notin CellsOf(c.loc, target)
    BY <2>1, <2>3, Apart
  <2>5. r.mem = Put(s.mem, c.loc, target, Written(s, i, c, target))
    BY <1>3, <1>4, WriteStep
  <2>6. QED BY <1>2, <1>3, <2>4, <2>5, PutIs
<1>5. CASE c.op = "load"
  <2>1. r.mem = s.mem
    BY <1>3, <1>5 DEF Step, State, See
  <2>2. QED BY <1>3, <2>1
<1>6. CASE c.op = "free"
  <2>1. PICK h : h = Whole("heap")
    OBVIOUS
  <2>2. h \in Accessed(c)
    BY <1>6, <2>1 DEF Accessed
  <2>3. ~MayAlias(h, l)
    BY <2>2 DEF Touches
  <2>4. Covers(h) = Bytes /\ ObjectsOf(h) = {"heap"}
    BY <1>1, <2>1, WholeIs DEF ObjectsOf, Whole, Objects
  <2>5. Covers(h) \cap Covers(l) # {}
    BY <2>4, LocationParts
  <2>6. o # "heap"
    BY <1>1, <2>3, <2>4, <2>5 DEF MayAlias
  <2>7. r.mem = [y \in Cells |-> IF y[1] = "heap" THEN UndefByte ELSE s.mem[y]]
    BY <1>3, <1>6, FreeStep
  <2>8. QED BY <1>2, <1>3, <2>6, <2>7
<1>7. CASE c.op = "call"
  <2>1. ~Visible(o)
    BY <1>1, <1>7 DEF Touches
  <2>2. x \notin VisibleCells
    BY <1>2, <2>1 DEF VisibleCells
  <2>3. r.mem = [y \in Cells |->
                   IF writes /\ y \in VisibleCells THEN <<i, y[2], y[1]>> ELSE s.mem[y]]
    BY <1>3, <1>7 DEF Step, State
  <2>4. QED BY <1>2, <1>3, <2>2, <2>3
<1>8. QED BY <1>4, <1>5, <1>6, <1>7, InstructionParts

(* only a load changes what it loaded *)
LEMMA ValueStays ==
  ASSUME NEW c \in Instruction, NEW s, NEW i, NEW target, NEW writes, NEW k \in 1 .. N, k # i
  PROVE  Step(s, i, c, target, writes).val[k] = s.val[k]
<1>1. PICK r : r = Step(s, i, c, target, writes)
  OBVIOUS
<1>2. CASE c.op \in Writing
  <2>1. r.val = s.val
    BY <1>1, <1>2, WriteStep
  <2>2. QED BY <1>1, <2>1
<1>3. CASE c.op = "load"
  <2>1. r.val = [j \in 1 .. N |-> IF j = i THEN Get(s.mem, c.loc, target) ELSE s.val[j]]
    BY <1>1, <1>3, LoadStep
  <2>2. QED BY <1>1, <2>1
<1>4. CASE c.op = "free"
  <2>1. r.val = s.val
    BY <1>1, <1>4 DEF Step, State
  <2>2. QED BY <1>1, <2>1
<1>5. CASE c.op = "call"
  <2>1. r.val = s.val
    BY <1>1, <1>5 DEF Step, State
  <2>2. QED BY <1>1, <2>1
<1>6. QED BY <1>2, <1>3, <1>4, <1>5, InstructionParts

(* what a load returned is there until something touches the place *)
LEMMA StillThere ==
  ASSUME FunctionOK, NEW target \in fn.selected, NEW writes,
         NEW j \in alive, NEW i \in alive, j < i, code[j].op = "load",
         \A k \in alive : j < k /\ k < i => ~Touches(code[k], code[j].loc)
  PROVE  LET s == Run(code, alive, target, writes)[i - 1]
             l == code[j].loc
         IN \A x \in CellsOf(l, target) : s.val[j][x[2] - l.off] = s.mem[x]
<1>1. PICK p, S, l : p = code /\ S = alive /\ l = code[j].loc
  OBVIOUS
<1>2. /\ N \in Nat /\ j \in 1 .. N /\ i \in 1 .. N /\ S \subseteq 1 .. N
      /\ p \in [1 .. N -> Instruction]
  BY <1>1, LeftIs DEF FunctionOK
<1>3. l \in Location /\ Size > 0
  <2>1. l \in Location
    BY <1>1, <1>2, InstructionParts
  <2>2. QED BY <2>1, LocationParts, DeadStoresAssumption
<1>4. PICK R : R = Run(p, S, target, writes)
  OBVIOUS
<1>5. R[0] = Before /\ \A k \in 1 .. N : R[k] = After(R[k - 1], k, p, S, target, writes)
  BY <1>4, RunIs
<1>6. \A k \in 1 .. N : /\ R[k].mem = Do(R[k - 1], k, p, S, target, writes).mem
                        /\ R[k].val = Do(R[k - 1], k, p, S, target, writes).val
  <2>1. ASSUME NEW k \in 1 .. N
        PROVE  /\ R[k].mem = Do(R[k - 1], k, p, S, target, writes).mem
               /\ R[k].val = Do(R[k - 1], k, p, S, target, writes).val
    <3>1. PICK y : y = Do(R[k - 1], k, p, S, target, writes)
      OBVIOUS
    <3>2. R[k] = IF k = fn.split /\ fn.cond THEN Seen(y, Cells) ELSE y
      BY <1>5, <3>1 DEF After, Do
    <3>3. R[k].mem = y.mem /\ R[k].val = y.val
      BY <3>2 DEF Seen, See, State
    <3>4. QED BY <3>1, <3>3
  <2>2. QED BY <2>1
<1> DEFINE Holds(n) == \A x \in CellsOf(l, target) : R[n].val[j][x[2] - l.off] = R[n].mem[x]
           Bad == {n \in j .. i - 1 : ~Holds(n)}
<1>7. Holds(j)
  <2>1. PICK s, r : s = R[j - 1] /\ r = Step(s, j, p[j], target, writes)
    OBVIOUS
  <2>2. Do(s, j, p, S, target, writes) = r
    BY <1>1, <2>1 DEF Do
  <2>3. r.mem = s.mem
        /\ r.val = [k \in 1 .. N |-> IF k = j THEN Get(s.mem, p[j].loc, target) ELSE s.val[k]]
    BY <1>1, <1>2, <2>1, LoadStep
  <2>4. r.val[j] = Get(s.mem, l, target)
    BY <1>1, <1>2, <2>3
  <2>5. R[j].mem = s.mem /\ R[j].val[j] = Get(s.mem, l, target)
    BY <1>2, <1>6, <2>1, <2>2, <2>3, <2>4
  <2>6. ASSUME NEW x \in CellsOf(l, target)
        PROVE  Get(s.mem, l, target)[x[2] - l.off] = s.mem[x]
    <3>1. PICK o : /\ o = IF l.ptr = "select" THEN target ELSE l.ptr
                   /\ CellsOf(l, target) = {y \in Cells : y[1] = o /\ y[2] \in Covers(l)}
      BY <1>3, PlaceIs
    <3>2. x[1] = o /\ x[2] \in Covers(l) /\ x = <<x[1], x[2]>>
      BY <3>1 DEF Cells
    <3>3. /\ l.off \in Nat /\ l.size \in Nat
          /\ Covers(l) = {b \in Int : l.off <= b /\ b < l.off + l.size}
      BY <1>3, LocationParts
    <3>4. x[2] - l.off \in 0 .. l.size - 1 /\ l.off + (x[2] - l.off) = x[2]
      BY <3>2, <3>3
    <3>5. Get(s.mem, l, target)[x[2] - l.off] = s.mem[<<o, l.off + (x[2] - l.off)>>]
      BY <3>1, <3>4 DEF Get
    <3>6. QED BY <3>2, <3>4, <3>5
  <2>7. QED BY <2>5, <2>6
<1>8. ASSUME Bad # {} PROVE FALSE
  <2>1. PICK n \in Bad : \A k \in Bad : n <= k
    <3>1. Bad \subseteq Nat
      BY <1>2
    <3> HIDE DEF Bad
    <3>2. QED BY <1>8, <3>1, LeastNumber
  <2>2. n # j
    BY <1>7
  <2>3. n - 1 \in j .. i - 1 /\ n \in 1 .. N /\ ~(n <= n - 1) /\ j < n /\ n < i
    BY <1>2, <2>2
  <2>4. Holds(n - 1)
    BY <2>1, <2>3
  <2>5. PICK s, r : s = R[n - 1] /\ r = Do(s, n, p, S, target, writes)
    OBVIOUS
  <2>6. R[n].mem = r.mem /\ R[n].val = r.val
    BY <1>6, <2>3, <2>5
  <2>7. r.val[j] = s.val[j] /\ \A x \in CellsOf(l, target) : r.mem[x] = s.mem[x]
    <3>1. CASE n \in S
      <4>1. PICK c : c = p[n]
        OBVIOUS
      <4>2. c \in Instruction /\ ~Touches(c, l) /\ r = Step(s, n, c, target, writes)
        BY <1>1, <1>2, <2>3, <2>5, <3>1, <4>1 DEF Do
      <4>3. r.val[j] = s.val[j]
        BY <1>2, <2>3, <4>2, ValueStays
      <4>4. \A x \in CellsOf(l, target) : r.mem[x] = s.mem[x]
        BY <1>3, <4>2, PlaceStays
      <4>5. QED BY <4>3, <4>4
    <3>2. CASE n \notin S
      BY <2>5, <3>2 DEF Do
    <3>3. QED BY <3>1, <3>2
  <2>8. Holds(n)
    BY <2>4, <2>5, <2>6, <2>7
  <2>9. QED BY <2>8
<1>9. i - 1 \in j .. i - 1
  BY <1>2
<1>10. Holds(i - 1)
  BY <1>8, <1>9
<1>11. QED BY <1>1, <1>4, <1>10

(* RemoveStoredBack: the place holds that value already. *)
LEMMA StoredBackSame ==
  ASSUME WalkInv, RemoveStoredBack, NEW target \in fn.selected, NEW writes
  PROVE  Behaviour(code', alive', target, writes) = Behaviour(code, alive, target, writes)
<1>1. /\ UNCHANGED <<first, fn, code>> /\ pc = "walk" /\ AtInst /\ DeleteDeadInstruction(BBI)
      /\ hasMemoryWrite(BBI) /\ InstDep(BBI) # 0 /\ StoredBack(BBI, InstDep(BBI))
  BY DEF RemoveStoredBack, AtInst
<1>2. PICK i, j : i = BBI /\ j = InstDep(BBI)
  OBVIOUS
<1>3. /\ FunctionOK /\ LoadsLeft /\ BB \in {1, 2}
      /\ i \in Left(BB) /\ j \in Left(BB) /\ j < i /\ i \in alive /\ j \in alive
      /\ \A k \in Left(BB) : j < k /\ k < i => ~Touches(code[k], code[i].loc)
  BY <1>1, <1>2, BBIs, InstDepIs DEF WalkInv, Left
<1>4. /\ code[i].op = "store" /\ code[j].op = "load" /\ code[i].loc = code[j].loc
      /\ code[i].val = j /\ ~code[i].volatile
  BY <1>1, <1>2 DEF StoredBack, isRemovable, Is
<1>5. /\ N \in Nat /\ i \in 1 .. N /\ j \in 1 .. N /\ j # 0 /\ fn.split \in Nat
      /\ N + 1 \in 1 .. N + 1 /\ i < N + 1
  BY <1>3, LeftIs DEF FunctionOK
<1>6. ASSUME NEW k \in alive, j < k, k < i
      PROVE  ~Touches(code[k], code[j].loc)
  <2>1. k \in Left(BB)
    BY <1>3, <1>5, <1>6, LeftIs
  <2>2. QED BY <1>3, <1>4, <1>6, <2>1
<1>7. PICK c, l : c = code[i] /\ l = code[j].loc
  OBVIOUS
<1>8. /\ c \in Instruction /\ c.op = "store" /\ c.loc = l /\ c.val = j /\ ~c.volatile
      /\ c.op \in Writing
  BY <1>3, <1>4, <1>5, <1>7 DEF FunctionOK, Writing
<1>9. ASSUME NEW s, s = Run(code, alive, target, writes)[i - 1]
      PROVE  Harmless(s, i, target, writes, {})
  <2>1. \A x \in CellsOf(l, target) : s.val[j][x[2] - l.off] = s.mem[x]
    BY <1>3, <1>4, <1>6, <1>7, <1>9, StillThere
  <2>2. PICK r : r = Step(s, i, c, target, writes)
    OBVIOUS
  <2>3. /\ r.mem = Put(s.mem, c.loc, target, Written(s, i, c, target))
        /\ r.val = s.val /\ r.seen = s.seen
    BY <1>8, <2>2, WriteStep
  <2>4. Written(s, i, c, target) = s.val[j]
    BY <1>5, <1>8 DEF Written
  <2>5. \A x \in Cells : r.mem[x] = s.mem[x]
    BY <1>8, <2>1, <2>3, <2>4, PutIs
  <2>6. QED BY <1>7, <2>2, <2>3, <2>5 DEF Harmless
<1>10. PICK T : T = alive'
  OBVIOUS
<1>11. Unseen(target, T, {}, i, N + 1)
  BY <1>3, <1>5, NothingLost
<1>12. QED BY <1>1, <1>2, <1>3, <1>5, <1>9, <1>10, <1>11, Deleting

----------------------------------------------------------------------------
(* a write and a shorter one at the same place *)
LEMMA TrimmedStep ==
  ASSUME FunctionOK, NEW target \in fn.selected, NEW writes, NEW i \in 1 .. N,
         NEW b \in Instruction, NEW t \in Instruction, b.op \in {"memset", "memcpy"}, Trim(t, b),
         NEW s, NEW u, NEW G, Agree(s, u, {}, G)
  PROVE  Agree(Step(s, i, b, target, writes), Step(u, i, t, target, writes),
               CellsOf(b.loc, target) \ CellsOf(t.loc, target), G)
<1>1. PICK k, l : k = b.loc /\ l = t.loc
  OBVIOUS
<1>2. /\ k \in Location /\ l \in Location /\ t.op = b.op
      /\ l.ptr = k.ptr /\ l.off = k.off /\ l.size <= k.size
  <2>1. t.op = b.op
    BY DEF Trim
  <2>2. k \in Location /\ l \in Location
    BY <1>1, <2>1, InstructionParts DEF Writing
  <2>3. k.size \in Nat
    BY <2>2, LocationParts
  <2>4. QED BY <1>1, <2>1, <2>2, <2>3 DEF Trim
<1>3. PICK o : /\ o = IF l.ptr = "select" THEN target ELSE l.ptr
               /\ CellsOf(l, target) = {x \in Cells : x[1] = o /\ x[2] \in Covers(l)}
  BY <1>2, PlaceIs
<1>4. /\ l.off \in Nat /\ l.size \in Nat /\ k.size \in Nat
      /\ Covers(l) = {x \in Int : l.off <= x /\ x < l.off + l.size}
      /\ Covers(k) = {x \in Int : l.off <= x /\ x < l.off + k.size}
  BY <1>2, LocationParts
<1>5. CellsOf(l, target) \subseteq CellsOf(k, target)
  <2>1. Covers(l) \subseteq Covers(k)
    BY <1>2, <1>4
  <2>2. QED BY <1>2, <2>1 DEF CellsOf
<1>6. PICK v, w : v = Written(s, i, b, target) /\ w = Written(u, i, t, target)
  OBVIOUS
<1>7. ASSUME NEW x \in CellsOf(l, target)
      PROVE  v[x[2] - l.off] = w[x[2] - l.off]
  <2>1. x[2] \in Covers(l)
    BY <1>3
  <2>2. PICK n : n = x[2] - l.off
    OBVIOUS
  <2>3. n \in 0 .. l.size - 1 /\ n \in 0 .. k.size - 1
    BY <1>2, <1>4, <2>1, <2>2
  <2>4. CASE b.op = "memset"
    <3>1. v = [y \in 0 .. k.size - 1 |-> Own(i, 0)] /\ w = [y \in 0 .. l.size - 1 |-> Own(i, 0)]
      <4>1. v = [y \in 0 .. b.loc.size - 1 |-> Own(i, 0)]
        BY <1>6, <2>4 DEF Written
      <4>2. w = [y \in 0 .. t.loc.size - 1 |-> Own(i, 0)]
        BY <1>2, <1>6, <2>4 DEF Written
      <4>3. QED BY <1>1, <4>1, <4>2
    <3>2. QED BY <2>2, <2>3, <3>1
  <2>5. CASE b.op = "memcpy"
    <3>1. PICK f, g : f = b.src /\ g = t.src
      OBVIOUS
    <3>2. /\ f \in Location /\ g \in Location /\ f.size = k.size /\ g.size = l.size
          /\ g.ptr = f.ptr /\ g.off = f.off
      BY <1>1, <1>2, <2>5, <3>1, InstructionParts DEF Trim
    <3>3. PICK q : /\ q = IF g.ptr = "select" THEN target ELSE g.ptr
                   /\ CellsOf(g, target) = {y \in Cells : y[1] = q /\ y[2] \in Covers(g)}
      BY <3>2, PlaceIs
    <3>4. v = Get(s.mem, f, target) /\ w = Get(u.mem, g, target)
      BY <1>2, <1>6, <2>5, <3>1 DEF Written
    <3>5. v[n] = s.mem[<<q, g.off + n>>] /\ w[n] = u.mem[<<q, g.off + n>>]
      BY <2>3, <3>2, <3>3, <3>4 DEF Get
    <3>6. g.off + n \in Covers(g)
      BY <1>4, <2>3, <3>2, LocationParts
    <3>7. <<q, g.off + n>> \in CellsOf(g, target)
      BY <3>3, <3>6 DEF CellsOf
    <3>8. <<q, g.off + n>> \in Cells
      BY <3>3, <3>7
    <3>9. s.mem[<<q, g.off + n>>] = u.mem[<<q, g.off + n>>]
      BY <3>8 DEF Agree
    <3>10. QED BY <2>2, <3>5, <3>9
  <2>6. QED BY <2>4, <2>5
<1>8. PICK r, z : r = Step(s, i, b, target, writes) /\ z = Step(u, i, t, target, writes)
  OBVIOUS
<1>9. r.mem = Put(s.mem, k, target, v) /\ r.val = s.val /\ r.seen = s.seen
  BY <1>1, <1>6, <1>8, WriteStep DEF Writing
<1>10. z.mem = Put(u.mem, l, target, w) /\ z.val = u.val /\ z.seen = u.seen
  BY <1>1, <1>2, <1>6, <1>8, WriteStep DEF Writing
<1>11. ASSUME NEW x \in Cells \ (CellsOf(k, target) \ CellsOf(l, target))
       PROVE  r.mem[x] = z.mem[x]
  <2>1. CASE x \in CellsOf(l, target)
    <3>1. r.mem[x] = v[x[2] - k.off] /\ z.mem[x] = w[x[2] - l.off]
      BY <1>5, <1>9, <1>10, <2>1, PutIs
    <3>2. QED BY <1>2, <1>7, <2>1, <3>1
  <2>2. CASE x \notin CellsOf(l, target)
    <3>1. r.mem[x] = s.mem[x] /\ z.mem[x] = u.mem[x]
      BY <1>5, <1>9, <1>10, <1>11, <2>2, PutIs
    <3>2. QED BY <3>1 DEF Agree
  <2>3. QED BY <2>1, <2>2
<1>12. QED BY <1>1, <1>8, <1>9, <1>10, <1>11 DEF Agree

(* LookPast: the bytes the write loses are overwritten unread. *)
LEMMA TrimmedSame ==
  ASSUME WalkInv, LookPast, NEW target \in fn.selected, NEW writes,
         SameSource(target)
  PROVE  Behaviour(code', alive', target, writes) = Behaviour(code, alive, target, writes)
<1>1. /\ pc = "deps" /\ hasMemoryWrite(dep) /\ alive' = alive
      /\ code' = [code EXCEPT ![dep] = Trimmed(@)]
  BY DEF LookPast
<1>2. /\ FunctionOK /\ LoadsLeft /\ BB \in {1, 2} /\ hasMemoryWrite(Inst)
      /\ Inst \in Left(BB) /\ dep \in Left(BB) /\ dep < Inst /\ dep \in alive /\ Inst \in alive
      /\ \A j \in Left(BB) : dep < j /\ j < Inst => ~MayRead(code[j], Loc)
  BY <1>1, BBIs DEF WalkInv, Overwriting, Left
<1>3. PICK d, e : d = dep /\ e = Inst
  OBVIOUS
<1>4. d \in 1 .. N /\ e \in 1 .. N /\ N \in Nat /\ fn.split \in Nat /\ d < e
      /\ N + 1 \in 1 .. N + 1 /\ d < N + 1 /\ e \in 1 .. N + 1
  <2>1. alive \subseteq 1 .. N /\ d < e /\ d \in alive /\ e \in alive
    BY <1>2, <1>3 DEF FunctionOK
  <2>2. N \in Nat /\ fn.split \in Nat
    BY <1>2, LeftIs
  <2>3. QED BY <2>1, <2>2
<1>5. PICK p, q, S : p = code /\ q = code' /\ S = alive
  OBVIOUS
<1>6. PICK b, t, c : b = code[d] /\ t = Trimmed(code[d]) /\ c = code[e]
  OBVIOUS
<1>7. /\ t \in Instruction /\ Trim(t, first[d]) /\ Trim(t, b) /\ t.op = b.op
      /\ t # b => /\ Obliterates /\ isShortenable(d) /\ OverwriteEnd(c.loc, b.loc)
                  /\ t.loc.size = c.loc.off - b.loc.off
  BY <1>1, <1>3, <1>6, Shorter DEF Loc
<1>8. /\ p \in [1 .. N -> Instruction] /\ S \subseteq 1 .. N
      /\ q[d] = t /\ p[d] = b /\ \A k \in 1 .. N : k # d => q[k] = p[k]
  BY <1>1, <1>2, <1>3, <1>4, <1>5, <1>6 DEF FunctionOK
<1>9. CASE t = b
  <2>1. q = p
    BY <1>1, <1>3, <1>4, <1>5, <1>6, <1>8, <1>9
  <2>2. QED BY <1>1, <1>5, <2>1
<1>10. CASE t # b
  <2>1. /\ b \in Instruction /\ c \in Instruction /\ c.op \in Writing /\ b.op \in {"memset", "memcpy"}
        /\ ~isPossibleSelfRead(e, d) /\ c.loc.ptr = b.loc.ptr /\ hasMemoryWrite(e)
    BY <1>2, <1>3, <1>4, <1>6, <1>7, <1>10
       DEF FunctionOK, Obliterates, isShortenable, OverwriteEnd, hasMemoryWrite, Is, Writing
  <2>2. c.loc \in Location /\ b.loc \in Location /\ t.loc \in Location
    BY <1>7, <2>1, InstructionParts DEF Writing
  <2>3. \/ Unread(c, CellsOf(c.loc, target), target)
        \/ b.op = "memcpy" /\ OntoItself(d, target)
    BY <1>2, <1>4, <1>6, <2>1, SelfRead
  <2>4. /\ \A k \in S : k # d => p[k] = q[k]
        /\ \A k \in S : k # d /\ p[k].op = "store" /\ p[k].val # 0 => p[k].val \in (1 .. N) \ (S \ S)
        /\ \A k \in S \ S : k # d => p[k].op = "load" /\ ~p[k].used
    <3>1. \A k \in S : p[k].op = "store" /\ p[k].val # 0 => p[k].val \in S
      BY <1>2, <1>5 DEF LoadsLeft
    <3>2. QED BY <1>8, <3>1
  <2>5. \A s : /\ Do(s, d, p, S, target, writes) = Step(s, d, b, target, writes)
               /\ Do(s, d, q, S, target, writes) = Step(s, d, t, target, writes)
    BY <1>2, <1>3, <1>5, <1>8 DEF Do
  <2>6. CASE b.op = "memcpy" /\ OntoItself(d, target)
    <3>1. Trim(b, first[d]) /\ t.op = "memcpy"
      BY <1>2, <1>4, <1>6, <1>7, <2>6 DEF FunctionOK
    <3>2. CellsOf(b.src, target) = CellsOf(b.loc, target)
      BY <1>2, <1>4, <2>1, <2>6, <3>1, TrimmedCopy
    <3>3. CellsOf(t.src, target) = CellsOf(t.loc, target)
      BY <1>2, <1>4, <1>7, <2>6, <3>1, TrimmedCopy
    <3>4. PICK X, n : X = {} /\ n = N + 1
      OBVIOUS
    <3>5. ASSUME NEW s, NEW u, Agree(s, u, {}, S \ S)
          PROVE  Agree(Do(s, d, p, S, target, writes), Do(u, d, q, S, target, writes), X, S \ S)
      <4>1. PICK r, z : r = Step(s, d, b, target, writes) /\ z = Step(u, d, t, target, writes)
        OBVIOUS
      <4>2. r.val = s.val /\ r.seen = s.seen /\ \A x \in Cells : r.mem[x] = s.mem[x]
        <5>1. FunctionOK /\ d \in 1 .. N /\ b \in Instruction /\ b.op = "memcpy"
              /\ CellsOf(b.src, target) = CellsOf(b.loc, target)
          BY <1>2, <1>4, <2>1, <2>6, <3>2
        <5>2. /\ \A x \in Cells : Step(s, d, b, target, writes).mem[x] = s.mem[x]
              /\ Step(s, d, b, target, writes).val = s.val
              /\ Step(s, d, b, target, writes).seen = s.seen
          BY ONLY <5>1, CopyIsNothing, target \in fn.selected
        <5>3. QED BY <4>1, <5>2
      <4>3. z.val = u.val /\ z.seen = u.seen /\ \A x \in Cells : z.mem[x] = u.mem[x]
        <5>1. FunctionOK /\ d \in 1 .. N /\ t \in Instruction /\ t.op = "memcpy"
              /\ CellsOf(t.src, target) = CellsOf(t.loc, target)
          BY <1>2, <1>4, <1>7, <3>1, <3>3
        <5>2. /\ \A x \in Cells : Step(u, d, t, target, writes).mem[x] = u.mem[x]
              /\ Step(u, d, t, target, writes).val = u.val
              /\ Step(u, d, t, target, writes).seen = u.seen
          BY ONLY <5>1, CopyIsNothing, target \in fn.selected
        <5>3. QED BY <4>1, <5>2
      <4>4. Agree(r, z, X, S \ S)
        BY <3>5, <4>2, <4>3 DEF Agree
      <4>5. QED BY <2>5, <4>1, <4>4
    <3>6. Unseen(target, S, X, d, n)
      BY <1>2, <1>4, <3>4, NothingLost
    <3>7. Changes(p, S, q, S, target, writes, X, d, n)
      <4>1. /\ \A k \in S : d < k /\ k < n => Unread(p[k], X, target)
            /\ n <= N => n \in S /\ Unread(p[n], X, target) /\ X \subseteq Kills(p[n], target)
            /\ fn.cond /\ d <= fn.split /\ fn.split < n => X = {}
            /\ n = N + 1 => X \cap Out = {}
        BY <1>5, <3>6 DEF Unseen
      <4>2. QED BY <2>4, <3>5, <4>1 DEF Changes
    <3>8. Behaviour(p, S, target, writes) = Behaviour(q, S, target, writes)
      BY <1>2, <1>4, <1>8, <3>4, <3>7, Changing
    <3>9. QED BY <1>1, <1>5, <3>8
  <2>7. CASE Unread(c, CellsOf(c.loc, target), target)
    <3>1. PICK X : X = CellsOf(b.loc, target) \ CellsOf(t.loc, target)
      OBVIOUS
    <3>2. X \subseteq CellsOf(c.loc, target)
      <4>1. PICK l, m, n : l = c.loc /\ m = b.loc /\ n = t.loc
        OBVIOUS
      <4>2. /\ OverwriteEnd(l, m) /\ n.size = l.off - m.off /\ n.ptr = m.ptr /\ n.off = m.off
            /\ l.ptr = m.ptr
        BY <1>7, <1>10, <2>1, <4>1 DEF Trim
      <4>3. /\ l.off \in Nat /\ l.size \in Nat /\ m.off \in Nat /\ m.size \in Nat
            /\ Covers(l) = {x \in Int : l.off <= x /\ x < l.off + l.size}
            /\ Covers(m) = {x \in Int : m.off <= x /\ x < m.off + m.size}
            /\ Covers(n) = {x \in Int : m.off <= x /\ x < m.off + n.size}
        BY <2>2, <4>1, <4>2, LocationParts
      <4>4. Covers(m) \ Covers(n) \subseteq Covers(l)
        BY <4>2, <4>3 DEF OverwriteEnd
      <4>5. PICK o : /\ CellsOf(l, target) = {o} \X Covers(l) /\ CellsOf(m, target) = {o} \X Covers(m)
                     /\ CellsOf(n, target) = {o} \X Covers(n)
        BY <4>2 DEF CellsOf
      <4>6. CellsOf(m, target) \ CellsOf(n, target) \subseteq CellsOf(l, target)
        BY <4>4, <4>5
      <4>7. QED BY <3>1, <4>1, <4>6
    <3>3. ASSUME NEW s, NEW u, Agree(s, u, {}, S \ S)
          PROVE  Agree(Do(s, d, p, S, target, writes), Do(u, d, q, S, target, writes), X, S \ S)
      <4>1. PICK G : G = S \ S
        OBVIOUS
      <4>2. Agree(Step(s, d, b, target, writes), Step(u, d, t, target, writes), X, G)
        BY <1>2, <1>4, <1>7, <2>1, <3>1, <3>3, <4>1, TrimmedStep
      <4>3. QED BY <2>5, <4>1, <4>2
    <3>4. ASSUME NEW k \in S, d < k, k < e
          PROVE  Unread(p[k], X, target)
      <4>1. k \in alive /\ k \in 1 .. N /\ code[k] \in Instruction
        BY <1>2, <1>5, <1>8 DEF FunctionOK
      <4>2. k \in Left(BB)
        BY <1>2, <1>3, <1>4, <3>4, <4>1, LeftIs
      <4>3. ~MayRead(code[k], c.loc)
        BY <1>2, <1>3, <1>6, <3>4, <4>2 DEF Loc
      <4>4. Unread(code[k], X, target)
        BY <1>2, <2>2, <3>2, <4>1, <4>3, NotRead
      <4>5. QED BY <1>5, <4>4
    <3>5. e \in S /\ Unread(p[e], X, target) /\ X \subseteq Kills(p[e], target)
      <4>1. e \in S /\ p[e] = c
        BY <1>2, <1>3, <1>5, <1>6
      <4>2. Unread(c, X, target) /\ X \subseteq Kills(c, target)
        BY <2>1, <2>7, <3>2 DEF Unread, Kills
      <4>3. QED BY <4>1, <4>2
    <3>6. ~(d <= fn.split /\ fn.split < e) /\ e # N + 1
      BY <1>2, <1>3, <1>4, LeftIs
    <3>7. Changes(p, S, q, S, target, writes, X, d, e)
      BY <2>4, <3>3, <3>4, <3>5, <3>6 DEF Changes
    <3>8. Behaviour(p, S, target, writes) = Behaviour(q, S, target, writes)
      BY <1>2, <1>4, <1>8, <3>7, Changing
    <3>9. QED BY <1>1, <1>5, <3>8
  <2>8. QED BY <2>3, <2>6, <2>7
<1>11. QED BY <1>9, <1>10
----------------------------------------------------------------------------
(***************************************************************************)
(* No step changes what the function does.                                 *)
(***************************************************************************)
SameAlways ==
  \A target \in fn.selected, writes \in BOOLEAN :
    SameSource(target) => Same(target, writes)

(* So no step changes the behaviour. *)
LEMMA SameKept ==
  ASSUME SameAlways, UNCHANGED <<first, fn>>,
         \A target \in fn.selected, writes \in BOOLEAN : SameSource(target) =>
           Behaviour(code', alive', target, writes) = Behaviour(code, alive, target, writes)
  PROVE  SameAlways'
<1>1. PICK p, S, b, T : p = code' /\ S = alive' /\ b = first /\ T = 1 .. N
  OBVIOUS
<1>2. ASSUME NEW target \in fn.selected, NEW writes \in BOOLEAN,
             SameSource(target)'
      PROVE  Same(target, writes)'
  <2>1. SameSource(target)
    BY <1>2 DEF SameSource, Elsewhere, OntoItself, SrcCells, DestCells, Copies, CellsOf, Covers,
                MustAlias, N
  <2>2. Behaviour(code, alive, target, writes) = Behaviour(b, T, target, writes)
    BY <1>1, <2>1 DEF SameAlways, Same
  <2>3. Behaviour(p, S, target, writes) = Behaviour(b, T, target, writes)
    BY <1>1, <2>1, <2>2
  <2>4. /\ Behaviour(p, S, target, writes)' = Behaviour(p, S, target, writes)
        /\ Behaviour(b, T, target, writes)' = Behaviour(b, T, target, writes)
    BY RunKept
  <2>5. Behaviour(p, S, target, writes)' = Behaviour(b, T, target, writes)'
    BY <2>3, <2>4
  <2>6. first' = b /\ (1 .. N)' = T /\ code' = p /\ alive' = S
    BY <1>1 DEF N
  <2>7. QED BY <2>5, <2>6 DEF Same
<1>3. QED BY <1>2 DEF SameAlways

(***************************************************************************)
(* At every step of the pass, and not at its end only, what is left of the *)
(* program behaves as the program it started with, whether or not calls    *)
(* write, and whatever the selected pointer points to, except where        *)
(* SameSource does not hold: there the pass removes a copy that matters    *)
(* (CopyIsSafe is violated).                                               *)
(***************************************************************************)
THEOREM BehaviourAlways == Spec => []SameAlways
<1>1. Init => SameAlways
  BY DEF Init, SameAlways, Same
<1>2. ASSUME WalkInv, SameAlways, [Next]_vars
      PROVE  SameAlways'
  <2>1. UNCHANGED <<first, fn>>
    BY <1>2 DEF Next, vars, Skip, RemoveStoredBack, LookAt, GiveUp, RemoveOverwritten, LookPast,
         HandleFree, RemoveFreed, StopFree, FreeAbove, EndBlock, RemoveUp, PassUp, EndUp
  <2>2. CASE UNCHANGED <<code, alive>>
    BY <1>2, <2>1, <2>2, SameKept
  <2>3. CASE RemoveStoredBack
    BY <1>2, <2>1, <2>3, StoredBackSame, SameKept
  <2>4. CASE RemoveOverwritten
    BY <1>2, <2>1, <2>4, OverwrittenSame, SameKept
  <2>5. CASE LookPast
    BY <1>2, <2>1, <2>5, TrimmedSame, SameKept
  <2>6. CASE RemoveFreed
    BY <1>2, <2>1, <2>6, FreedSame, SameKept
  <2>7. CASE RemoveUp
    BY <1>2, <2>1, <2>7, UpSame, SameKept
  <2>8. QED
    BY <1>2, <2>2, <2>3, <2>4, <2>5, <2>6, <2>7 DEF Next, vars, Skip, LookAt, GiveUp, HandleFree,
       StopFree, FreeAbove, EndBlock, PassUp, EndUp
<1>3. QED BY <1>1, <1>2, WalkAlways, PTL DEF Spec

(***************************************************************************)
(* The pass changes nothing the program can see: what was removed          *)
(* (runOnBasicBlock, HandleFree, handleEndBlock) was dead, and what was    *)
(* shortened was overwritten.                                              *)
(***************************************************************************)
THEOREM SameBehaviourAlways == Spec => []SameBehaviour
<1>1. SameAlways => SameBehaviour
  BY DEF SameAlways, SameBehaviour
<1>2. QED BY <1>1, BehaviourAlways, PTL
=============================================================================
