----------------------------- MODULE NousedFlat -----------------------------
(***************************************************************************)
(* noused_flat (Reduce.cpp): is the memory a use points to read again?     *)
(* Its answer lets Reduce delete a call or a store.  It puts up to three   *)
(* queries to one ResolveEngine and keeps three caches across its calls,   *)
(* while the passes between two calls delete and rewrite instructions.     *)
(*                                                                         *)
(* The engine's search is taken at its specification (ResolveEngine): it   *)
(* finds a visit that the filters let pass, if there is one, and any of    *)
(* them.  visits[u] is the set of slots the search from u reaches.         *)
(***************************************************************************)
EXTENDS ResolveCache

CONSTANTS
  Pointer,   \* for the use of a cast's or a getelementptr's value: the use
             \* that is its operand 0
  Rewrites   \* what, besides visits, the uses of a visit may be rewritten to

ASSUME NousedAssumption ==
  /\ Rewrites \subseteq {Other}
  /\ DOMAIN Pointer \subseteq Uses /\ \A u \in DOMAIN Pointer : Pointer[u] \in Uses

VARIABLES
  RC1, RC2, RC3,   \* the caches of noused_flat
  live,            \* the slots whose instruction is in the program
  undefs,          \* the live slots that hold undef
  visits,          \* what a search without filters finds
  form,            \* whether a derived use is of a cast or a getelementptr
  answer           \* history: the last call, its use, verdict and visit

caches  == <<RC1, RC2, RC3>>
program == <<live, undefs, visits, form>>
vars    == <<RC1, RC2, RC3, live, undefs, visits, form, answer>>

Casts == {u \in DOMAIN Pointer : form[u] = "cast"}
GEPs == {u \in DOMAIN Pointer : form[u] = "gep"}

NoAnswer == [use |-> Null, kept |-> TRUE, visit |-> Null]

Init ==
  /\ RC1 = EmptyCache /\ RC2 = EmptyCache /\ RC3 = EmptyCache
  /\ live = Slots
  /\ undefs = {}
  /\ visits \in [Uses -> SUBSET Slots]
  /\ form \in [DOMAIN Pointer -> {"cast", "gep"}]
  /\ answer = NoAnswer

(***************************************************************************)
(* resolve(u, findVisit(v)) with cache c, under filters that refuse the    *)
(* slots in refused.  On a hit the filters are called but not heeded, and  *)
(* find_visit stores the visit it is shown; it finds nothing if the cache  *)
(* shows it a value that is no load or call.  On a miss the search ends     *)
(* with the first visit stored in the cache and the last one it drained in *)
(* v.  The result is the set of outcomes.                                  *)
(***************************************************************************)
Outcome(v, c) == [visit |-> v, cache |-> c]

Resolve(c, u, refused) ==
  LET a == askSlot(c, u, undefs)
      passed == visits[u] \ refused
  IN IF a.hit
     THEN LET v == IF a.value \in Slots THEN a.value ELSE Null IN
          {Outcome(v, storeValue(a.cache, v))}
     ELSE LET keyed == storeKey(a.cache, u) IN
          IF passed = {}
          THEN {Outcome(Null, keyed)}
          ELSE {Outcome(last, storeValue(keyed, first)) :
                  first \in passed, last \in passed}

Answer(u, v) ==
  answer' = [use |-> u, kept |-> v # Null, visit |-> v]

(* the query of the use itself finds a visit *)
VisitedDirectly(u, refused) ==
  /\ \E o \in Resolve(RC1, u, refused) :
       /\ o.visit # Null
       /\ RC1' = o.cache
       /\ Answer(u, o.visit)
  /\ UNCHANGED <<RC2, RC3, program>>

(* mutant: the pointer behind a cast is not asked about *)
PlainAny(u, refused) ==
  /\ \E o \in Resolve(RC1, u, refused) :
       /\ o.visit = Null
       /\ RC1' = o.cache
       /\ Answer(u, Null)
  /\ UNCHANGED <<RC2, RC3, program>>

(* it finds none, and the use is of no cast or getelementptr *)
PlainUse(u, refused) ==
  /\ u \notin Casts \cup GEPs
  /\ \E o \in Resolve(RC1, u, refused) :
       /\ o.visit = Null
       /\ RC1' = o.cache
       /\ Answer(u, Null)
  /\ UNCHANGED <<RC2, RC3, program>>

(* mutant: the cache of the getelementptrs serves the casts as well *)
CastUseShared(u, refused) ==
  /\ u \in Casts
  /\ \E o \in Resolve(RC1, u, refused) :
       /\ o.visit = Null
       /\ RC1' = o.cache
  /\ \E p \in Resolve(RC2, Pointer[u], refused) :
       /\ RC2' = p.cache
       /\ Answer(u, p.visit)
  /\ UNCHANGED <<RC3, program>>

(* then the pointer that was cast is queried *)
CastUse(u, refused) ==
  /\ u \in Casts
  /\ \E o \in Resolve(RC1, u, refused) :
       /\ o.visit = Null
       /\ RC1' = o.cache
  /\ \E p \in Resolve(RC3, Pointer[u], refused) :
       /\ RC3' = p.cache
       /\ Answer(u, p.visit)
  /\ UNCHANGED <<RC2, program>>

(* or the base of the getelementptr, with the cache of the first query *)
GEPUse(u, refused) ==
  /\ u \in GEPs
  /\ \E o \in Resolve(RC1, u, refused) :
       /\ o.visit = Null
       /\ LET a == askValue(RC2, u) IN
          IF a.hit
          THEN /\ RC1' = o.cache
               /\ RC2' = a.cache
               /\ Answer(u, a.value)
          ELSE \E p \in Resolve(o.cache, Pointer[u], refused) :
                 /\ RC1' = p.cache
                 /\ RC2' = storeValue(storeKey(a.cache, u), p.visit)
                 /\ Answer(u, p.visit)
  /\ UNCHANGED <<RC3, program>>

noused_flat(u, refused) ==
  \/ VisitedDirectly(u, refused)
  \/ PlainUse(u, refused)
  \/ CastUse(u, refused)
  \/ GEPUse(u, refused)

(***************************************************************************)
(* Between two calls.  DeleteDeadInstruction erases an instruction;        *)
(* instcombine, or DeleteCascadeInstruction with undef, first replaces its *)
(* uses by another value; dead argument elimination puts undef in a slot.  *)
(***************************************************************************)
Gone(v) ==
  /\ v \in live
  /\ live' = live \ {v}
  /\ undefs' = undefs \ {v}
  /\ visits' = [u \in Uses |-> visits[u] \ {v}]
  /\ UNCHANGED form

Delete(v) ==
  /\ Gone(v)
  /\ RC1' = Deleted(RC1, {v})
  /\ RC2' = Deleted(RC2, {v})
  /\ RC3' = Deleted(RC3, {v})
  /\ UNCHANGED answer

ReplaceAndDelete(v, w) ==
  /\ Gone(v)
  /\ w \in (live \ {v}) \cup Rewrites
  /\ RC1' = Replaced(RC1, v, w)
  /\ RC2' = Replaced(RC2, v, w)
  /\ RC3' = Replaced(RC3, v, w)
  /\ UNCHANGED answer

PutUndef(v) ==
  /\ v \in live \ undefs
  /\ undefs' = undefs \cup {v}
  /\ visits' = [u \in Uses |-> visits[u] \ {v}]
  /\ UNCHANGED <<caches, live, form, answer>>

(* replace_with_memcpy puts a load of the count and a call of memcpy in *)
Insert(v) ==
  /\ v \notin live
  /\ live' = live \cup {v}
  /\ \E S \in SUBSET Uses :
       visits' = [u \in Uses |-> IF u \in S THEN visits[u] \cup {v} ELSE visits[u]]
  /\ UNCHANGED <<caches, undefs, form, answer>>

Next ==
  \/ \E u \in Uses, refused \in SUBSET Slots : noused_flat(u, refused)
  \/ \E v \in Slots : Delete(v) \/ PutUndef(v) \/ Insert(v)
  \/ \E v \in Slots, w \in Slots \cup Rewrites : ReplaceAndDelete(v, w)

Spec == Init /\ [][Next]_vars

----------------------------------------------------------------------------
(* a cache that is asked and filled for uses in D only *)
OnlyFor(c, D) == c.key \in D \cup {Null} /\ \A u \in Uses \ D : c.entry[u] = {}

(***************************************************************************)
(* The three caches are kept apart.  RC2 is keyed by the getelementptr's   *)
(* use, though what it stores was found from the base behind it; RC3 is    *)
(* keyed by the pointer behind the cast, which is another use.  An entry   *)
(* of the one would be a wrong answer in the other.                        *)
(***************************************************************************)
TypeOK ==
  /\ RC1 \in Cache /\ RC2 \in Cache /\ RC3 \in Cache
  /\ OnlyFor(RC2, GEPs) /\ OnlyFor(RC3, {Pointer[u] : u \in Casts})
  /\ live \subseteq Slots /\ undefs \subseteq live
  /\ visits \in [Uses -> SUBSET live]
  /\ form \in [DOMAIN Pointer -> {"cast", "gep"}]
  /\ answer.use \in Uses \cup {Null} /\ answer.visit \in Handle

(* the visits that speak against deleting what u points to *)
Against(u) == visits[u] \cup (IF u \in Casts \cup GEPs THEN visits[Pointer[u]] ELSE {})

(***************************************************************************)
(* A verdict to delete is never wrong: whatever was cached, deleted or     *)
(* rewritten before, noused_flat says "not used" only when no search from  *)
(* the use, nor from the pointer behind a cast or getelementptr, passes    *)
(* the filters to a visit.                                                 *)
(***************************************************************************)
DeletableIsUnused ==
  [][\A u \in Uses, refused \in SUBSET Slots :
       noused_flat(u, refused) /\ ~answer'.kept => Against(u) \subseteq refused]_vars

(***************************************************************************)
(* A verdict to keep never rests on an instruction that was freed: the     *)
(* caches hold no dangling pointer, whatever was deleted between calls.    *)
(***************************************************************************)
NoDanglingEntry ==
  \A u \in Uses : \A c \in {RC1, RC2, RC3} : c.entry[u] \subseteq live \cup {Other, Null}
============================================================================
