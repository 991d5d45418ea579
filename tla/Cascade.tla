------------------------------ MODULE Cascade ------------------------------
(***************************************************************************)
(* DSE_Adaptive::DeleteCascadeInstruction (DSEAdaptive.cpp): delete an     *)
(* instruction (a call of mpi_wtime_) with everything computed from it.    *)
(* It asks ResolveEngine for the uses of the instruction, the uses of      *)
(* their users and so on, and walks that graph depth first, deleting the   *)
(* user of each node.  DeleteDeadInstruction (DeadStoreElimination.cpp)    *)
(* also deletes operands that nothing uses any more.                       *)
(***************************************************************************)
EXTENDS Naturals, Sequences, FiniteSets, SequencesExt

CONSTANTS
  Insts,   \* the instructions
  Root,    \* the one to delete
  Undef,   \* UndefValue
  Null     \* the operand of an instruction being erased

ASSUME CascadeAssumption ==
  Root \in Insts /\ Undef \notin Insts /\ Null \notin Insts

VARIABLES
  operands,     \* the operands of each instruction
  pure,         \* the instructions that have no effect (may be trivially dead)
  users,        \* ddg: the links between a node and its childs
  visited,      \* df_iterator: the nodes it has come to
  path,         \* and those from the root to the current one
  NowDeadInsts, \* the work list of DeleteDeadInstruction
  erased,       \* the instructions whose memory is freed
  freed_used    \* history: a freed instruction was used

cascadeVars == <<operands, pure, users, visited, path, NowDeadInsts, erased, freed_used>>

(* a node of the graph: the root, or operand slot k of instruction i *)
Node(i, k) == <<i, k>>
RootNode == Node(Root, 0)
get_user(n) == n[1]

Slots == {Node(i, k) : i \in Insts, k \in 1 .. 2}

(* direct_inverse_rule_ links a use to all uses of its user *)
UsesOf(i) == {n \in Slots : n[2] \in DOMAIN operands[n[1]] /\ operands[n[1]][n[2]] = i}

CascadeStart ==
  /\ users = [i \in Insts |-> UsesOf(i)]
  /\ visited = {} /\ path = <<>>
  /\ NowDeadInsts = {} /\ erased = {} /\ freed_used = FALSE

CascadeInit ==
  /\ operands \in [Insts -> UNION {[1 .. n -> Insts \cup {Undef}] : n \in 0 .. 2}]
  /\ pure \subseteq Insts \ {Root}
  /\ CascadeStart

(* mutant: the uses of the instruction are not replaced *)
DeleteUnreplaced(i) ==
  /\ NowDeadInsts' = {i}
  /\ UNCHANGED <<operands, pure, users, erased, freed_used>>

(* replaceAllUsesWith(undef), then DeleteDeadInstruction *)
DeleteUser(i) ==
  /\ operands' = [j \in Insts |->
                    [k \in DOMAIN operands[j] |->
                       IF operands[j][k] = i THEN Undef ELSE operands[j][k]]]
  /\ NowDeadInsts' = {i}
  /\ UNCHANGED <<pure, users, erased, freed_used>>

UseFreed ==
  /\ freed_used' = TRUE
  /\ UNCHANGED <<operands, pure, users, NowDeadInsts, erased>>

(* the depth-first walk: the children of the deepest node that has any left *)
(* mutant: the walk keeps no visited set *)
UnvisitedOrNot(n) == users[get_user(n)]

Unvisited(n) == users[get_user(n)] \ visited

Deepest(m) ==
  /\ m \in 1 .. Len(path)
  /\ Unvisited(path[m]) # {}
  /\ \A l \in m + 1 .. Len(path) : Unvisited(path[l]) = {}

Idle == NowDeadInsts = {} /\ ~freed_used

Come(n) ==
  /\ visited' = visited \cup {n}
  /\ IF get_user(n) \in erased THEN UseFreed ELSE DeleteUser(get_user(n))

DeleteRoot ==
  /\ Idle /\ visited = {}
  /\ path' = <<RootNode>>
  /\ Come(RootNode)

(* the order of the childs is that of the use list: any *)
DeleteNext(m, n) ==
  /\ Idle /\ Deepest(m)
  /\ n \in Unvisited(path[m])
  /\ path' = Append(SubSeq(path, 1, m), n)
  /\ Come(n)

(* mutant: an operand with an effect dies too *)
DyingCalls(i) ==
  {o \in Insts \ erased : /\ \E k \in DOMAIN operands[i] : operands[i][k] = o
                          /\ \A n \in UsesOf(o) : n[1] = i}

(* the operands of i that die with it: no use is left, and no effect *)
Dying(i) ==
  {o \in pure \ erased : /\ \E k \in DOMAIN operands[i] : operands[i][k] = o
                         /\ \A n \in UsesOf(o) : n[1] = i}

(* one round of DeleteDeadInstruction; setOperand(op, nullptr) comes first *)
Zap(i) ==
  /\ i \in NowDeadInsts
  /\ operands' = [operands EXCEPT ![i] = [k \in DOMAIN operands[i] |-> Null]]
  /\ erased' = erased \cup {i}
  /\ NowDeadInsts' = (NowDeadInsts \ {i}) \cup Dying(i)
  /\ UNCHANGED <<pure, users, visited, path, freed_used>>

CascadeNext ==
  \/ DeleteRoot
  \/ \E m \in 1 .. Len(path), n \in Slots : DeleteNext(m, n)
  \/ \E i \in Insts : Zap(i)

CascadeSpec == CascadeInit /\ [][CascadeNext]_cascadeVars

----------------------------------------------------------------------------
Finished == Idle /\ visited # {} /\ \A m \in 1 .. Len(path) : Unvisited(path[m]) = {}

(* what is computed from i *)
DependsOn(i, j) ==
  \A S \in SUBSET Insts :
    (i \in S /\ \A k \in S : {get_user(n) : n \in users[k]} \subseteq S) => j \in S

(* each instruction is computed from the root in one way at most *)
SingleLink ==
  \A i \in Insts : \A k, l \in DOMAIN operands[i] :
    DependsOn(Root, operands[i][k]) /\ DependsOn(Root, operands[i][l]) => k = l /\ i # Root

(***************************************************************************)
(* "inversed search for ResolveEngine always return a single link": the    *)
(* walk comes to each instruction once, and never to one that was freed.   *)
(***************************************************************************)
NoUseAfterDelete == ~freed_used

(***************************************************************************)
(* An instruction that stays has no operand that was freed.                *)
(***************************************************************************)
NoDanglingOperand ==
  \A i \in Insts \ erased : \A k \in DOMAIN operands[i] : operands[i][k] \notin erased

(***************************************************************************)
(* In the end all that was computed from the instruction is gone.  What    *)
(* else goes, at any step, is an instruction without effect (that          *)
(* DeleteDeadInstruction finds trivially dead) that had users, and all of  *)
(* them went before it: neither one that something left still uses nor one *)
(* that nothing ever used.  The first half holds only as long as the walk  *)
(* uses no freed instruction, which ends it (see NoUseAfterDelete).        *)
(***************************************************************************)
CascadeIsExact ==
  /\ Finished => \A j \in Insts : DependsOn(Root, j) => j \in erased
  /\ \A j \in erased :
       \/ DependsOn(Root, j)
       \/ j \in pure /\ users[j] # {} /\ \A n \in users[j] : get_user(n) \in erased
============================================================================
