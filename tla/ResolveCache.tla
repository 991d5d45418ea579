---------------------------- MODULE ResolveCache ----------------------------
(***************************************************************************)
(* A ResolveCache (Resolver.h, Resolver.cpp) as a value, and the functions *)
(* on it.  It maps a queried use to a visit found for it before.  The key  *)
(* is remembered by storeKey until the next storeValue.                    *)
(*                                                                         *)
(* A visit is the operand slot of a load or call at which the search found *)
(* it: the pair (WeakVH, operand number) of the code.                      *)
(***************************************************************************)
CONSTANTS
  Uses,      \* the uses that may be queried
  Slots,     \* the operand slots of loads and calls
  Other,     \* any value that is no visit, a constant or another instruction
  Null       \* a null pointer

ASSUME CacheAssumption ==
  /\ Other \notin Slots \cup Uses \cup {Null}
  /\ Null \notin Slots \cup Uses

(* a WeakVH points to a value, or to nothing once its value is deleted *)
Handle == Slots \cup {Other, Null}

Cache == [entry : [Uses -> {{}} \cup {{h} : h \in Handle}], key : Uses \cup {Null}]

(* the static caches of noused_flat start zeroed *)
EmptyCache == [entry |-> [u \in Uses |-> {}], key |-> Null]

Has(c, u, h) == c.entry[u] = {h}

storeKey(c, u) == [c EXCEPT !.key = u]

storeValue(c, v) ==
  IF v = Null \/ c.key = Null THEN c
  ELSE [entry |-> [c.entry EXCEPT ![c.key] = {v}], key |-> Null]

erase(c, u) == [c EXCEPT !.entry[u] = {}]

(***************************************************************************)
(* ask(Q, V, op): the value stored for u; an entry whose value was deleted *)
(* is erased and counts as absent.                                         *)
(***************************************************************************)
askValue(c, u) ==
  CASE c.entry[u] = {} -> [hit |-> FALSE, value |-> Null, cache |-> c]
    [] Has(c, u, Null) -> [hit |-> FALSE, value |-> Null, cache |-> erase(c, u)]
    [] OTHER -> [hit |-> TRUE, value |-> CHOOSE h \in c.entry[u] : TRUE, cache |-> c]

(***************************************************************************)
(* ask(Q, R): the slot itself.  A slot whose operand was replaced by undef *)
(* is erased and counts as absent.                                         *)
(***************************************************************************)
askSlot(c, u, undefs) ==
  LET a == askValue(c, u) IN
  IF a.hit /\ a.value \in undefs
    THEN [hit |-> FALSE, value |-> Null, cache |-> erase(c, u)]
    ELSE a

(***************************************************************************)
(* What LLVM does to the WeakVHs of a cache: deleting a value clears them, *)
(* replacing all uses of a value moves them to the new one.                *)
(***************************************************************************)
(* mutant: a plain Value pointer in place of the WeakVH *)
DeletedUnseen(c, dead) == c

Deleted(c, dead) ==
  [c EXCEPT !.entry = [u \in Uses |->
     IF \E v \in dead : Has(c, u, v) THEN {Null} ELSE c.entry[u]]]

Replaced(c, v, w) ==
  [c EXCEPT !.entry = [u \in Uses |-> IF Has(c, u, v) THEN {w} ELSE c.entry[u]]]
============================================================================
