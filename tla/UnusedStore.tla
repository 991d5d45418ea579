----------------------------- MODULE UnusedStore -----------------------------
(***************************************************************************)
(* May a store be deleted?  ReduceCode::getAttribute of a StoreInst, from  *)
(* the instructions of a function to the verdict (Reduce.cpp), with the    *)
(* solve rules and filters it gives to ResolveEngine (Resolver.cpp).       *)
(*                                                                         *)
(* The function is straight-line code around one object, an alloca or a    *)
(* global with two fields: instructions that derive a pointer from one     *)
(* (getelementptr, cast), that read or free through one, and one store.    *)
(* Each has one pointer operand, so a use is named by the instruction it   *)
(* is an operand of.  A rule becomes a table and a filter a set of uses    *)
(* when the query is put to the engine.  The value stored is no constant   *)
(* and the caches, which NousedFlat is about, are off.                     *)
(***************************************************************************)
EXTENDS ResolveEngine, FiniteSets

CONSTANTS
  N,          \* the number of instructions
  UINT32_MAX  \* the limit on the iterations of a search

ASSUME NAssumption == N \in Nat /\ Uses = 1 .. N
ASSUME LimitAssumption == UINT32_MAX \in Nat /\ N <= UINT32_MAX

(***************************************************************************)
(* The pointer operand of an instruction is the object, 0, or the pointer  *)
(* an earlier one derives.  The index of a getelementptr is a field, or    *)
(* any where it is no constant.                                            *)
(***************************************************************************)
Derived == {"gep", "cast"}

Instruction ==
  [op : {"cast", "load", "free", "store"}, ptr : 0 .. N - 1, idx : {"none"}]
    \cup [op : {"gep"}, ptr : 0 .. N - 1, idx : {"0", "1", "any"}]

VARIABLES
  base,    \* what the object is
  prog,    \* the instructions
  store,   \* the store that is asked about
  stage,   \* which query is put to the engine
  verdict  \* the answer

storeVars == <<base, prog, store, stage, verdict>>

isGEP(i) == i # 0 /\ prog[i].op = "gep"
isCast_(i) == i # 0 /\ prog[i].op = "cast"

(* what derives a pointer from a global by constants is no instruction *)
ConstantExpr ==
  LET const[i \in 0 .. N] ==
        IF i = 0 THEN base = "global"
        ELSE prog[i].op \in Derived /\ prog[i].idx # "any" /\ const[prog[i].ptr]
  IN const

Inst(i) == ~ConstantExpr[i]

Place(S, i) == Cardinality({j \in S : j <= i})

InOrder(S) ==
  [k \in 1 .. Cardinality(S) |-> CHOOSE i \in S : Place(S, i) = k]

Backwards(S) ==
  [k \in 1 .. Cardinality(S) |-> InOrder(S)[Cardinality(S) + 1 - k]]

(* the uses of a pointer; LLVM's list of them starts with the last one *)
UsesOf(v) == {i \in Uses : prog[i].ptr = v}

----------------------------------------------------------------------------
(***************************************************************************)
(* The solve rules.                                                        *)
(***************************************************************************)
direct_inverse_rule_ == [u \in Uses |-> InOrder(UsesOf(u))]

(* mutant: a getelementptr before the use is not followed *)
use_later_rule_ ==
  [u \in Uses |-> InOrder({i \in UsesOf(prog[u].ptr) : i > u})]

(* the uses after u, and every getelementptr before it *)
use_inverse_rule_ ==
  [u \in Uses |->
     LET v == prog[u].ptr IN
     InOrder({i \in UsesOf(v) : i > u})
       \o Backwards({i \in UsesOf(v) : i <= u /\ isGEP(i)})]

implicity_inverse_rule == InOrder(UsesOf(0))

SolveRule(adds, once) ==
  [adds |-> adds, stop |-> [u \in Uses |-> TRUE], batch |-> FALSE, once |-> once]

----------------------------------------------------------------------------
(***************************************************************************)
(* The filters, as what they refuse.                                       *)
(***************************************************************************)
iUseFilter == {i \in Uses : Inst(i) /\ ~isGEP(i) /\ i < store}

exclude == {store}

(* a gep without constant indices lets every other pass *)
GEPFilter(g) ==
  IF prog[g].idx = "any" THEN {}
  ELSE {i \in Uses : isGEP(i) /\ prog[i].idx # prog[g].idx}

(* CGFilter in one function: what is not after the threshold *)
CGFilter == {i \in Uses : Inst(i) /\ i <= store}

(* find_visit: a load or a call, but for IgnoreFindCall *)
Visits == {i \in Uses : prog[i].op = "load"}

Ask(root, implicit, rules, refused) ==
  [root |-> root, implicit |-> implicit, rules |-> rules, refused |-> refused,
   visits |-> Visits, stores |-> {store}, callback |-> "visit",
   max_iteration |-> UINT32_MAX]

Pointer == prog[store].ptr

FlatRules ==
  <<SolveRule(direct_inverse_rule_, FALSE), SolveRule(use_inverse_rule_, TRUE)>>

(* noused_flat: the query of the use *)
AskDirect == Ask(store, <<>>, FlatRules, iUseFilter \cup exclude)

(* then of the pointer it was cast or indexed from *)
AskBehind ==
  Ask(Pointer, <<>>, FlatRules,
      iUseFilter \cup exclude \cup (IF isGEP(Pointer) THEN GEPFilter(Pointer) ELSE {}))

(* noused_global *)
AskGlobal ==
  Ask(ValueNode, implicity_inverse_rule, <<SolveRule(direct_inverse_rule_, FALSE)>>,
      CGFilter \cup GEPFilter(Pointer))

(* nousedOperator, for a pointer that is no argument *)
IsGlobal == base = "global" /\ isGEP(Pointer) /\ prog[Pointer].ptr = 0

----------------------------------------------------------------------------
Programs ==
  {p \in [Uses -> Instruction] :
     /\ \A i \in Uses : p[i].ptr < i /\ (p[i].ptr # 0 => p[p[i].ptr].op \in Derived)
     /\ \E i \in Uses : p[i].op = "store" /\ \A j \in Uses : p[j].op = "store" => j = i}

StoreInit ==
  /\ base \in {"alloca", "global"}
  /\ prog \in Programs
  /\ \A i, j \in Uses : ConstantExpr[i] /\ ConstantExpr[j] /\ prog[i] = prog[j] => i = j
  /\ store = CHOOSE i \in Uses : prog[i].op = "store"
  /\ stage = IF IsGlobal THEN "global" ELSE "direct"
  /\ verdict = "open"
  /\ query = IF IsGlobal THEN AskGlobal ELSE AskDirect
  /\ Start

Search == Next /\ UNCHANGED storeVars

(* resolve() starts on q, with a new graph *)
Resolve(q) ==
  /\ query' = q
  /\ unsolved' = <<q.root>>
  /\ flags' = [n \in Nodes |-> "UNSOLVED"]
  /\ childs' = [n \in Nodes |-> <<>>]
  /\ ran' = [i \in 1 .. Len(q.rules) |-> FALSE]
  /\ pc' = "root"
  /\ ret' = None /\ cur' = None
  /\ iteration' = 0 /\ rule' = 0 /\ kid' = 0
  /\ asked' = {}

Kept ==
  /\ pc = "done" /\ verdict = "open" /\ ret # None
  /\ verdict' = "None"
  /\ UNCHANGED <<vars, base, prog, store, stage>>

Behind ==
  /\ pc = "done" /\ verdict = "open" /\ ret = None
  /\ stage = "direct" /\ Pointer # 0
  /\ stage' = "behind"
  /\ Resolve(AskBehind)
  /\ UNCHANGED <<base, prog, store, verdict>>

Deletable ==
  /\ pc = "done" /\ verdict = "open" /\ ret = None
  /\ stage = "direct" => Pointer = 0
  /\ verdict' = "IsDeletable"
  /\ UNCHANGED <<vars, base, prog, store, stage>>

StoreNext == Search \/ Kept \/ Behind \/ Deletable

StoreSpec == StoreInit /\ [][StoreNext]_<<vars, storeVars>>

----------------------------------------------------------------------------
(* the fields a pointer may point to *)
Fields ==
  LET fields[v \in 0 .. N] ==
        IF v = 0 THEN {"0", "1"}
        ELSE LET of == fields[prog[v].ptr] IN
             IF isGEP(v) /\ prog[v].idx # "any" /\ of = {"0", "1"}
               THEN {prog[v].idx} ELSE of
  IN fields

(* a later instruction reads what the store writes *)
UsedAfter ==
  \E i \in Visits : i > store /\ Fields[prog[i].ptr] \cap Fields[Pointer] # {}

(***************************************************************************)
(* What the rules and filters see: every getelementptr is of the object    *)
(* itself, and so is a cast the store is through; before the store there   *)
(* is no other cast; no index is variable where the store's is constant;   *)
(* and for a field of a global, none before the store.                     *)
(***************************************************************************)
Simple ==
  /\ \A i \in Uses : isGEP(i) \/ i = Pointer => prog[i].ptr = 0
  /\ \A i \in 1 .. store : isCast_(i) => i = Pointer
  /\ isGEP(Pointer) /\ prog[Pointer].idx # "any" =>
       \A i \in Uses : isGEP(i) => prog[i].idx # "any"
  /\ IsGlobal => \A i \in 1 .. store : isGEP(i) => ConstantExpr[i]

(***************************************************************************)
(* Of these, no store is declared unused that a later instruction reads.   *)
(***************************************************************************)
NobodyReads == Simple /\ verdict = "IsDeletable" => ~UsedAfter

(***************************************************************************)
(* "A store inst not in loop, and it isn't used after then it can be       *)
(* removed" (Reduce.cpp): what is removed is not used after, for any       *)
(* function around an alloca.  It is not so: a load through a pointer that *)
(* was cast before the store is not found.                                 *)
(***************************************************************************)
RemovedIsUnused == base = "alloca" /\ verdict = "IsDeletable" => ~UsedAfter
=============================================================================
