------------------------------ MODULE CGFilter ------------------------------
(***************************************************************************)
(* CGFilter (Resolver.h, Resolver.cpp): a filter that refuses the uses     *)
(* that run before a given instruction, across functions.  Its constructor *)
(* numbers the functions by one walk of the call graph from main; indexof  *)
(* then puts every instruction of a function between the numbers of the    *)
(* functions it calls.  A function called again, or calling itself, counts *)
(* where it is called first.                                               *)
(*                                                                         *)
(* A function is straight-line code: its k-th call with a plain            *)
(* instruction before it and one after it, so std::less is the order of    *)
(* their positions.                                                        *)
(***************************************************************************)
EXTENDS Integers, Sequences, FiniteSets, SequencesExt

CONSTANTS
  Functions,   \* the defined functions
  Declared,    \* a function without a body
  External,    \* the external calling node of the call graph
  None,        \* a null pointer
  Wrap         \* the number of values of an unsigned

ASSUME CGFilterAssumption ==
  /\ Declared \notin Functions /\ External \notin Functions \cup {Declared}
  /\ None \notin Functions
  /\ Wrap \in Nat \ {0}

VARIABLES
  root,       \* the node the walk starts from
  calls,      \* the edges of the call graph, in the order of the call records
  path,       \* df_iterator: the nodes from the root to the current one
  visited,    \* the functions it has come to: order_map[F].second # NULL
  i,          \* the running number of the constructor
  LastPathLen,
  first, last,      \* Record::first and Record::last
  keys,             \* the keys of order_map
  Only,             \* the calls by which a function was first reached
  threshold_inst, threshold,
  pc

walk == <<path, visited, i, LastPathLen, first, last, Only>>
vars == <<root, calls, walk, keys, threshold_inst, threshold, pc>>

Unsigned(n) == n % Wrap
UINT_MAX == Wrap - 1

(* instruction at of function f: call k is at 2k *)
Inst(f, at) == [f |-> f, at |-> at]
CallInst(f, k) == Inst(f, 2 * k)
InstsOf(f) == {Inst(f, at) : at \in 1 .. 2 * Len(calls[f]) + 1}
Insts == UNION {InstsOf(f) : f \in Functions}

less(I, J) == I.f = J.f /\ I.at < J.at
less_equal(I, J) == I = J \/ less(I, J)

(* mutant: no place left for the instructions between two calls *)
NextWithoutGap(len) == i + 1

(* i += LastPathLen - CurPathLen + 2 *)
NextNumber(len) == i + LastPathLen - len + 2

(* the constructor begins at the root, main or the external node *)
Start ==
  /\ path = <<root>>
  /\ visited = {root} \cap Functions
  /\ i = IF root = External THEN -1 ELSE 0
  /\ LastPathLen = IF root = External THEN 0 ELSE 1
  /\ first = [f \in Functions |-> 0]
  /\ last = [f \in Functions |-> 0]
  /\ keys = visited
  /\ Only = {}
  /\ threshold_inst = None
  /\ threshold = 0
  /\ pc = "walk"

Init ==
  /\ root \in Functions \cup {External}
  /\ calls \in [Functions \cup {External} -> Seq(Functions \cup {Declared})]
  /\ Start

Top == Last(path)

Unvisited == {k \in 1 .. Len(calls[Top]) : calls[Top][k] \in Functions \ visited}

(***************************************************************************)
(* ++N: to the first child not visited yet, by its first call record.  The *)
(* call records of the external node have no instruction.                  *)
(***************************************************************************)
Descend(k) ==
  /\ pc = "walk" /\ path # <<>>
  /\ k \in Unvisited /\ \A j \in Unvisited : k <= j
  /\ LET f == calls[Top][k]
         CurPathLen == Len(path) + 1
     IN /\ path' = Append(path, f)
        /\ visited' = visited \cup {f}
        /\ i' = NextNumber(CurPathLen)
        /\ LastPathLen' = CurPathLen
        /\ first' = [first EXCEPT ![f] = Unsigned(i')]
        /\ keys' = keys \cup {f}
  /\ Only' = IF Top = External THEN Only ELSE Only \cup {CallInst(Top, k)}
  /\ UNCHANGED <<root, calls, last, threshold_inst, threshold, pc>>

(* mutant: repeated calls count *)
AllCalls(f) == {k \in 1 .. Len(calls[f]) : calls[f][k] \in Functions}

(* the calls of f that reach a function for the first time *)
TreeCalls(f) == {k \in 1 .. Len(calls[f]) : CallInst(f, k) \in Only}

Greatest(S) == CHOOSE k \in S : \A j \in S : j <= k

(* mutant: the last child, wherever it was first called *)
last_child(f) ==
  LET K == AllCalls(f) IN IF K = {} THEN None ELSE calls[f][Greatest(K)]

last_valid_child(f) ==
  IF TreeCalls(f) = {} THEN None ELSE calls[f][Greatest(TreeCalls(f))]

(* the post-order walk sees a function after those it is the first to call *)
Ascend ==
  /\ pc = "walk" /\ path # <<>>
  /\ Unvisited = {}
  /\ last' = IF Top = External THEN last ELSE
       [last EXCEPT ![Top] =
          IF last_valid_child(Top) = None
            THEN Unsigned(first[Top] + 1)
            ELSE Unsigned(last[last_valid_child(Top)] + 1)]
  /\ path' = Front(path)
  /\ UNCHANGED <<root, calls, visited, i, LastPathLen, first, keys, Only,
                 threshold_inst, threshold, pc>>

Constructed ==
  /\ pc = "walk" /\ path = <<>>
  /\ pc' = "ready"
  /\ UNCHANGED <<root, calls, walk, keys, threshold_inst, threshold>>

(* the place of an instruction among the calls of its function *)
indexof(I) ==
  LET ahead == {k \in TreeCalls(I.f) : less_equal(I, CallInst(I.f, k))}
      k == CHOOSE k \in ahead : \A j \in ahead : k <= j
  IN CASE I.f \notin visited -> UINT_MAX
       [] I.f \in visited /\ calls[I.f] = <<>> -> first[I.f]
       [] I.f \in visited /\ calls[I.f] # <<>> /\ ahead = {} -> Unsigned(last[I.f] - 1)
       [] I.f \in visited /\ ahead # {} -> Unsigned(first[calls[I.f][k]] - 1)

(* looking F up in order_map inserts it *)
update(I) ==
  /\ pc = "ready"
  /\ threshold_inst' = I
  /\ threshold' = indexof(I)
  /\ keys' = keys \cup {I.f}
  /\ UNCHANGED <<root, calls, walk, pc>>

(* operator(): whether the filter refuses a use by instruction I *)
Refuses(I) ==
  /\ first[I.f] <= threshold
  /\ \/ indexof(I) = UINT_MAX
     \/ indexof(I) = threshold /\ less_equal(I, threshold_inst)
     \/ indexof(I) < threshold

query(I) ==
  /\ pc = "ready" /\ threshold_inst # None
  /\ keys' = keys \cup {I.f}
  /\ UNCHANGED <<root, calls, walk, threshold_inst, threshold, pc>>

Next ==
  \/ \E k \in 1 .. (IF path = <<>> THEN 0 ELSE Len(calls[Top])) : Descend(k)
  \/ Ascend
  \/ Constructed
  \/ \E I \in Insts : update(I) \/ query(I)

Spec == Init /\ [][Next]_vars

----------------------------------------------------------------------------
Extent(f) == first[f] .. last[f] - 1

(***************************************************************************)
(* "range [first, last)" (Resolver.h): the ranges of two functions nest,   *)
(* the one lying in the other and strictly, or they have nothing in        *)
(* common; no range is empty.                                              *)
(***************************************************************************)
RangesNest ==
  pc = "ready" => \A f, g \in visited :
    /\ Extent(f) # {}
    /\ f # g => \/ Extent(f) \cap Extent(g) = {}
                \/ Extent(f) \subseteq Extent(g) /\ first[g] < first[f]
                \/ Extent(g) \subseteq Extent(f) /\ first[f] < first[g]

(***************************************************************************)
(* "should be same function" (the assertion of operator()): two            *)
(* instructions with one index are in one function, so that comparing      *)
(* their positions makes sense.                                            *)
(***************************************************************************)
SameIndexSameFunction ==
  pc = "ready" => \A I, J \in Insts :
    {I.f, J.f} \subseteq visited /\ indexof(I) = indexof(J) => I.f = J.f

(***************************************************************************)
(* In one function the filter lets every later instruction pass, whatever  *)
(* the two functions' places in the call graph are.                        *)
(***************************************************************************)
LaterInFunctionPasses ==
  threshold_inst # None => \A I \in Insts :
    threshold_inst.f \in visited /\ less(threshold_inst, I) => ~Refuses(I)
============================================================================
