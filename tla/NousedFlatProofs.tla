--------------------------- MODULE NousedFlatProofs ---------------------------
(***************************************************************************)
(* The caches of noused_flat never hold a freed instruction; and where the *)
(* uses of a visit are rewritten to other visits only, a verdict to delete *)
(* is never wrong, whatever was asked, deleted and rewritten before.       *)
(***************************************************************************)
EXTENDS NousedFlat, TLAPS

(* a cache that has entries for values in S only, or cleared ones *)
CacheIn(c, S) ==
  c \in Cache /\ \A u \in Uses : c.entry[u] \subseteq S \cup {Null}

(* what an entry may lead to *)
Values == live \cup Rewrites

FlatInv ==
  /\ TypeOK
  /\ CacheIn(RC1, Values) /\ CacheIn(RC2, Values) /\ CacheIn(RC3, Values)

----------------------------------------------------------------------------
(***************************************************************************)
(* The functions on caches.                                                *)
(***************************************************************************)
LEMMA CacheFields ==
  ASSUME NEW e \in [Uses -> {{}} \cup {{h} : h \in Handle}], NEW k \in Uses \cup {Null}
  PROVE  /\ [entry |-> e, key |-> k] \in Cache
         /\ [entry |-> e, key |-> k].entry = e
         /\ [entry |-> e, key |-> k].key = k
  BY DEF Cache

(* A cache is its two fields. *)
LEMMA CacheIsFields ==
  ASSUME NEW c \in Cache
  PROVE  /\ c.entry \in [Uses -> {{}} \cup {{h} : h \in Handle}]
         /\ c.key \in Uses \cup {Null}
         /\ c = [entry |-> c.entry, key |-> c.key]
  BY DEF Cache

LEMMA ExceptEntry ==
  ASSUME NEW c \in Cache, NEW e
  PROVE  [c EXCEPT !.entry = e] = [entry |-> e, key |-> c.key]
  BY DEF Cache

(* To set an entry keeps a cache in S, if the new value is in S. *)
LEMMA SetIn ==
  ASSUME NEW S \in SUBSET Handle, NEW c, CacheIn(c, S), NEW u \in Uses,
         NEW E, E = {} \/ \E h \in S \cup {Null} : E = {h}, NEW k \in Uses \cup {Null}
  PROVE  CacheIn([entry |-> [c.entry EXCEPT ![u] = E], key |-> k], S)
  <1> DEFINE e == [c.entry EXCEPT ![u] = E]
  <1>1. c.entry \in [Uses -> {{}} \cup {{h} : h \in Handle}]
    BY CacheIsFields DEF CacheIn
  <1>2. E \in {{}} \cup {{h} : h \in Handle} /\ E \subseteq S \cup {Null}
    BY DEF Handle
  <1>3. e \in [Uses -> {{}} \cup {{h} : h \in Handle}]
    BY <1>1, <1>2
  <1>4. \A v \in Uses : e[v] \subseteq S \cup {Null}
    BY <1>1, <1>2 DEF CacheIn
  <1> HIDE DEF e
  <1>5. QED  BY <1>3, <1>4, CacheFields DEF CacheIn, e

LEMMA StoreKeyIn ==
  ASSUME NEW S \in SUBSET Handle, NEW c, CacheIn(c, S), NEW u \in Uses
  PROVE  CacheIn(storeKey(c, u), S)
  <1>1. c \in Cache  BY DEF CacheIn
  <1>2. storeKey(c, u) = [entry |-> c.entry, key |-> u]
    BY <1>1, CacheIsFields DEF storeKey
  <1>3. QED  BY <1>1, <1>2, CacheIsFields, CacheFields DEF CacheIn

LEMMA StoreValueIn ==
  ASSUME NEW S \in SUBSET Handle, NEW c, CacheIn(c, S), NEW v \in S \cup {Null}
  PROVE  CacheIn(storeValue(c, v), S)
  <1>1. CASE v = Null \/ c.key = Null
    BY <1>1 DEF storeValue
  <1>2. CASE v # Null /\ c.key # Null
    <2>1. c.key \in Uses  BY <1>2, CacheIsFields DEF CacheIn
    <2>2. storeValue(c, v) = [entry |-> [c.entry EXCEPT ![c.key] = {v}], key |-> Null]
      BY <1>2 DEF storeValue
    <2> DEFINE d == [entry |-> [c.entry EXCEPT ![c.key] = {v}], key |-> Null]
    <2>3. \E h \in S \cup {Null} : {v} = {h}
      OBVIOUS
    <2>4. Null \in Uses \cup {Null}
      OBVIOUS
    <2>5. CacheIn(d, S)
      BY <2>1, <2>3, <2>4, SetIn
    <2>6. QED  BY <2>2, <2>5
  <1>3. QED  BY <1>1, <1>2

LEMMA EraseIn ==
  ASSUME NEW S \in SUBSET Handle, NEW c, CacheIn(c, S), NEW u \in Uses
  PROVE  CacheIn(erase(c, u), S)
  <1>1. c \in Cache  BY DEF CacheIn
  <1>2. erase(c, u) = [entry |-> [c.entry EXCEPT ![u] = {}], key |-> c.key]
    BY <1>1 DEF erase, Cache
  <1>3. c.key \in Uses \cup {Null}  BY <1>1, CacheIsFields
  <1> DEFINE d == [entry |-> [c.entry EXCEPT ![u] = {}], key |-> c.key]
  <1>4. CacheIn(d, S)
    BY <1>3, SetIn
  <1>5. QED  BY <1>2, <1>4

(* A hit is a value in S and no null pointer; a miss keeps the cache in S. *)
LEMMA AskValueIn ==
  ASSUME NEW S \in SUBSET Handle, Null \notin S, NEW c, CacheIn(c, S), NEW u \in Uses
  PROVE  LET a == askValue(c, u) IN
         CacheIn(a.cache, S) /\ (a.hit => a.value \in S /\ a.value # Null)
  <1>1. CASE c.entry[u] = {}
    <2>1. ~Has(c, u, Null)  BY <1>1 DEF Has
    <2>2. askValue(c, u) = [hit |-> FALSE, value |-> Null, cache |-> c]
      BY <1>1, <2>1 DEF askValue
    <2>3. QED  BY <2>2
  <1>2. CASE c.entry[u] = {Null}
    <2>1. c.entry[u] # {}  BY <1>2
    <2>2. askValue(c, u) = [hit |-> FALSE, value |-> Null, cache |-> erase(c, u)]
      BY <1>2, <2>1 DEF askValue, Has
    <2>3. QED  BY <2>2, EraseIn
  <1>3. CASE c.entry[u] # {} /\ c.entry[u] # {Null}
    <2>1. PICK h \in S : c.entry[u] = {h}
      BY <1>3, CacheIsFields DEF CacheIn
    <2>2. askValue(c, u) = [hit |-> TRUE, value |-> CHOOSE x \in c.entry[u] : TRUE, cache |-> c]
      BY <1>3 DEF askValue, Has
    <2>3. (CHOOSE x \in c.entry[u] : TRUE) = h  BY <2>1
    <2>4. QED  BY <2>1, <2>2, <2>3
  <1>4. QED  BY <1>1, <1>2, <1>3

LEMMA AskSlotIn ==
  ASSUME NEW S \in SUBSET Handle, Null \notin S, NEW c, CacheIn(c, S), NEW u \in Uses,
         NEW U
  PROVE  LET a == askSlot(c, u, U) IN
         CacheIn(a.cache, S) /\ (a.hit => a.value \in S /\ a.value # Null)
  <1>1. LET a == askValue(c, u) IN
        CacheIn(a.cache, S) /\ (a.hit => a.value \in S /\ a.value # Null)
    BY AskValueIn
  <1>2. CASE askValue(c, u).hit /\ askValue(c, u).value \in U
    BY <1>2, EraseIn DEF askSlot
  <1>3. CASE ~(askValue(c, u).hit /\ askValue(c, u).value \in U)
    BY <1>1, <1>3 DEF askSlot
  <1>4. QED  BY <1>2, <1>3

(***************************************************************************)
(* A query leaves the cache in S.  It shows a visit in S or none, and none *)
(* only where the filters refuse all visits, if S has nothing but slots.   *)
(***************************************************************************)
LEMMA ResolveIn ==
  ASSUME NEW S \in SUBSET Handle, Null \notin S, NEW c, CacheIn(c, S), NEW u \in Uses,
         NEW refused, visits[u] \subseteq S \cap Slots, NEW o \in Resolve(c, u, refused)
  PROVE  /\ CacheIn(o.cache, S)
         /\ o.visit \in (S \cap Slots) \cup {Null}
         /\ S \subseteq Slots /\ o.visit = Null => visits[u] \subseteq refused
  <1> DEFINE a == askSlot(c, u, undefs)
             passed == visits[u] \ refused
             keyed == storeKey(a.cache, u)
  <1>1. CacheIn(a.cache, S) /\ (a.hit => a.value \in S /\ a.value # Null)
    BY AskSlotIn
  <1>2. CacheIn(keyed, S)
    BY <1>1, StoreKeyIn
  <1>3. Null \notin Slots
    BY CacheAssumption
  <1>4. CASE a.hit
    <2> DEFINE v == IF a.value \in Slots THEN a.value ELSE Null
    <2>1. o = Outcome(v, storeValue(a.cache, v))
      BY <1>4 DEF Resolve
    <2>2. v \in (S \cap Slots) \cup {Null}
      BY <1>1, <1>4
    <2>3. CacheIn(storeValue(a.cache, v), S)
      BY <1>1, <2>2, StoreValueIn
    <2>4. S \subseteq Slots => v # Null
      BY <1>1, <1>4
    <2>5. o.visit = v /\ o.cache = storeValue(a.cache, v)
      BY <2>1 DEF Outcome
    <2> HIDE DEF v
    <2>6. QED  BY <2>2, <2>3, <2>4, <2>5
  <1>5. CASE ~a.hit /\ passed = {}
    <2>1. o = Outcome(Null, keyed)
      BY <1>5 DEF Resolve
    <2>2. o.visit = Null /\ o.cache = keyed
      BY <2>1 DEF Outcome
    <2>3. visits[u] \subseteq refused
      BY <1>5
    <2> HIDE DEF keyed
    <2>4. QED  BY <1>2, <2>2, <2>3
  <1>6. CASE ~a.hit /\ passed # {}
    <2>1. o \in {Outcome(last, storeValue(keyed, first)) : first \in passed, last \in passed}
      BY <1>6 DEF Resolve
    <2>2. PICK first \in passed, last \in passed : o = Outcome(last, storeValue(keyed, first))
      BY <2>1
    <2>3. o.visit = last /\ o.cache = storeValue(keyed, first)
      BY <2>2 DEF Outcome
    <2>4. first \in S /\ last \in S \cap Slots /\ last # Null
      BY <1>3
    <2>5. CacheIn(storeValue(keyed, first), S)
      BY <1>2, <2>4, StoreValueIn
    <2> HIDE DEF keyed
    <2>6. QED  BY <2>3, <2>4, <2>5
  <1>7. QED  BY <1>4, <1>5, <1>6

(* Erasing an instruction clears its entries. *)
LEMMA DeletedIn ==
  ASSUME NEW S \in SUBSET Handle, NEW c, CacheIn(c, S), NEW v \in Slots
  PROVE  CacheIn(Deleted(c, {v}), S \ {v})
  <1> DEFINE e == [u \in Uses |-> IF \E x \in {v} : Has(c, u, x) THEN {Null} ELSE c.entry[u]]
  <1>1. c \in Cache /\ c.entry \in [Uses -> {{}} \cup {{h} : h \in Handle}]
        /\ c.key \in Uses \cup {Null}
    BY CacheIsFields DEF CacheIn
  <1>2. Null # v
    BY CacheAssumption
  <1>3. Deleted(c, {v}) = [entry |-> e, key |-> c.key]
    BY <1>1, ExceptEntry DEF Deleted
  <1>4. ASSUME NEW u \in Uses
        PROVE  e[u] \in {{}} \cup {{h} : h \in Handle} /\ e[u] \subseteq (S \ {v}) \cup {Null}
    <2>1. CASE c.entry[u] = {v}
      BY <2>1, <1>2 DEF Has, Handle
    <2>2. CASE c.entry[u] # {v}
      <3>1. e[u] = c.entry[u]  BY <2>2 DEF Has
      <3>2. c.entry[u] = {} \/ \E h \in Handle : c.entry[u] = {h}  BY <1>1
      <3>3. v \notin c.entry[u]  BY <2>2, <3>2
      <3>4. c.entry[u] \subseteq S \cup {Null}  BY DEF CacheIn
      <3>5. QED  BY <1>1, <3>1, <3>3, <3>4
    <2>3. QED  BY <2>1, <2>2
  <1>5. e \in [Uses -> {{}} \cup {{h} : h \in Handle}]
    BY <1>4
  <1> HIDE DEF e
  <1>6. CacheIn([entry |-> e, key |-> c.key], S \ {v})
    BY <1>1, <1>4, <1>5, CacheFields DEF CacheIn
  <1>7. QED  BY <1>3, <1>6

(* Rewriting its uses moves them to the new value. *)
LEMMA ReplacedIn ==
  ASSUME NEW S \in SUBSET Handle, NEW c, CacheIn(c, S), NEW v \in Slots,
         NEW w \in Handle, w # v, NEW T, T = (S \ {v}) \cup {w}
  PROVE  CacheIn(Replaced(c, v, w), T)
  <1> DEFINE e == [u \in Uses |-> IF Has(c, u, v) THEN {w} ELSE c.entry[u]]
  <1>1. c \in Cache /\ c.entry \in [Uses -> {{}} \cup {{h} : h \in Handle}]
        /\ c.key \in Uses \cup {Null}
    BY CacheIsFields DEF CacheIn
  <1>2. Replaced(c, v, w) = [entry |-> e, key |-> c.key]
    BY <1>1, ExceptEntry DEF Replaced
  <1>3. ASSUME NEW u \in Uses
        PROVE  e[u] \in {{}} \cup {{h} : h \in Handle} /\ e[u] \subseteq T \cup {Null}
    <2>1. CASE c.entry[u] = {v}
      BY <2>1 DEF Has
    <2>2. CASE c.entry[u] # {v}
      <3>1. e[u] = c.entry[u]  BY <2>2 DEF Has
      <3>2. c.entry[u] = {} \/ \E h \in Handle : c.entry[u] = {h}  BY <1>1
      <3>3. v \notin c.entry[u]  BY <2>2, <3>2
      <3>4. c.entry[u] \subseteq S \cup {Null}  BY DEF CacheIn
      <3>5. QED  BY <1>1, <3>1, <3>3, <3>4
    <2>3. QED  BY <2>1, <2>2
  <1>4. e \in [Uses -> {{}} \cup {{h} : h \in Handle}]
    BY <1>3
  <1> HIDE DEF e
  <1>5. CacheIn([entry |-> e, key |-> c.key], T)
    BY <1>1, <1>3, <1>4, CacheFields DEF CacheIn
  <1>6. QED  BY <1>2, <1>5

(* More values may be cached than are. *)
LEMMA CacheGrows ==
  ASSUME NEW S, NEW T, S \subseteq T, NEW c, CacheIn(c, S)
  PROVE  CacheIn(c, T)
  BY DEF CacheIn

----------------------------------------------------------------------------
(***************************************************************************)
(* A cache that is asked for uses in D only is filled for uses in D only.  *)
(***************************************************************************)
LEMMA StoreKeyFor ==
  ASSUME NEW c \in Cache, NEW D, OnlyFor(c, D), NEW u \in D
  PROVE  OnlyFor(storeKey(c, u), D)
  <1>1. storeKey(c, u) = [entry |-> c.entry, key |-> u]
    BY CacheIsFields DEF storeKey
  <1>2. QED  BY <1>1 DEF OnlyFor

LEMMA StoreValueFor ==
  ASSUME NEW c \in Cache, NEW D, OnlyFor(c, D), NEW v
  PROVE  OnlyFor(storeValue(c, v), D)
  <1>1. CASE v = Null \/ c.key = Null
    BY <1>1 DEF storeValue
  <1>2. CASE v # Null /\ c.key # Null
    <2>1. storeValue(c, v) = [entry |-> [c.entry EXCEPT ![c.key] = {v}], key |-> Null]
      BY <1>2 DEF storeValue
    <2>2. c.key \in D
      BY <1>2 DEF OnlyFor
    <2>3. \A u \in Uses \ D : [c.entry EXCEPT ![c.key] = {v}][u] = c.entry[u]
      BY <2>2, CacheIsFields
    <2>4. QED  BY <2>1, <2>3 DEF OnlyFor
  <1>3. QED  BY <1>1, <1>2

LEMMA EraseFor ==
  ASSUME NEW c \in Cache, NEW D, OnlyFor(c, D), NEW u \in Uses
  PROVE  OnlyFor(erase(c, u), D)
  <1>1. erase(c, u) = [entry |-> [c.entry EXCEPT ![u] = {}], key |-> c.key]
    BY DEF erase, Cache
  <1>2. \A x \in Uses \ D : [c.entry EXCEPT ![u] = {}][x] = {}
    BY CacheIsFields DEF OnlyFor
  <1>3. QED  BY <1>1, <1>2 DEF OnlyFor

LEMMA AskValueFor ==
  ASSUME NEW c \in Cache, NEW D, OnlyFor(c, D), NEW u \in Uses
  PROVE  OnlyFor(askValue(c, u).cache, D)
  <1>1. CASE c.entry[u] = {}
    <2>1. ~Has(c, u, Null)  BY <1>1 DEF Has
    <2>2. askValue(c, u) = [hit |-> FALSE, value |-> Null, cache |-> c]
      BY <1>1, <2>1 DEF askValue
    <2>3. QED  BY <2>2
  <1>2. CASE c.entry[u] # {} /\ Has(c, u, Null)
    BY <1>2, EraseFor DEF askValue, Has
  <1>3. CASE c.entry[u] # {} /\ ~Has(c, u, Null)
    BY <1>3 DEF askValue
  <1>4. QED  BY <1>1, <1>2, <1>3

LEMMA AskSlotFor ==
  ASSUME NEW c \in Cache, NEW D, OnlyFor(c, D), NEW u \in Uses, NEW U
  PROVE  OnlyFor(askSlot(c, u, U).cache, D)
  BY AskValueFor, EraseFor DEF askSlot

LEMMA ResolveFor ==
  ASSUME NEW S \in SUBSET Handle, Null \notin S, NEW c, CacheIn(c, S), NEW D,
         OnlyFor(c, D), NEW u \in D \cap Uses, NEW refused, NEW o \in Resolve(c, u, refused)
  PROVE  OnlyFor(o.cache, D)
  <1> DEFINE a == askSlot(c, u, undefs)
             passed == visits[u] \ refused
             keyed == storeKey(a.cache, u)
  <1>1. CacheIn(a.cache, S) /\ OnlyFor(a.cache, D)
    BY AskSlotIn, AskSlotFor DEF CacheIn
  <1>2. CacheIn(keyed, S) /\ OnlyFor(keyed, D)
    <2>1. a.cache \in Cache /\ u \in Uses /\ u \in D
      BY <1>1 DEF CacheIn
    <2>2. CacheIn(keyed, S)
      BY <1>1, <2>1, StoreKeyIn
    <2> HIDE DEF a
    <2>3. OnlyFor(keyed, D)
      BY <1>1, <2>1, StoreKeyFor
    <2>4. QED  BY <2>2, <2>3
  <1>3. \E v : o.cache = storeValue(a.cache, v) \/ o.cache = keyed \/ o.cache = storeValue(keyed, v)
    <2>1. CASE a.hit
      <3> DEFINE v == IF a.value \in Slots THEN a.value ELSE Null
      <3>1. o = Outcome(v, storeValue(a.cache, v))
        BY <2>1 DEF Resolve
      <3> HIDE DEF v
      <3>2. o.cache = storeValue(a.cache, v)
        BY <3>1 DEF Outcome
      <3>3. QED  BY <3>2
    <2>2. CASE ~a.hit /\ passed = {}
      BY <2>2 DEF Resolve, Outcome
    <2>3. CASE ~a.hit /\ passed # {}
      <3>1. o \in {Outcome(last, storeValue(keyed, first)) : first \in passed, last \in passed}
        BY <2>3 DEF Resolve
      <3>2. QED  BY <3>1 DEF Outcome
    <2>4. QED  BY <2>1, <2>2, <2>3
  <1> HIDE DEF a, keyed
  <1>4. QED  BY <1>1, <1>2, <1>3, StoreValueFor DEF CacheIn

LEMMA DeletedFor ==
  ASSUME NEW c \in Cache, NEW D, OnlyFor(c, D), NEW v
  PROVE  OnlyFor(Deleted(c, {v}), D)
  <1> DEFINE e == [u \in Uses |-> IF \E x \in {v} : Has(c, u, x) THEN {Null} ELSE c.entry[u]]
  <1>1. Deleted(c, {v}) = [entry |-> e, key |-> c.key]
    BY ExceptEntry DEF Deleted
  <1>2. \A u \in Uses \ D : e[u] = {}
    BY DEF OnlyFor, Has
  <1> HIDE DEF e
  <1>3. QED  BY <1>1, <1>2 DEF OnlyFor

LEMMA ReplacedFor ==
  ASSUME NEW c \in Cache, NEW D, OnlyFor(c, D), NEW v, NEW w
  PROVE  OnlyFor(Replaced(c, v, w), D)
  <1> DEFINE e == [u \in Uses |-> IF Has(c, u, v) THEN {w} ELSE c.entry[u]]
  <1>1. Replaced(c, v, w) = [entry |-> e, key |-> c.key]
    BY ExceptEntry DEF Replaced
  <1>2. \A u \in Uses \ D : e[u] = {}
    BY DEF OnlyFor, Has
  <1> HIDE DEF e
  <1>3. QED  BY <1>1, <1>2 DEF OnlyFor

(* the pointers behind the casts, the keys of RC3 *)
Behind == {Pointer[u] : u \in Casts}

(* what decides which cache is for what does not change *)
LEMMA FormsStay ==
  ASSUME form' = form
  PROVE  GEPs' = GEPs /\ Casts' = Casts /\ Behind' = Behind
  BY DEF GEPs, Casts, Behind

----------------------------------------------------------------------------
(***************************************************************************)
(* The invariant.                                                          *)
(***************************************************************************)
LEMMA ValuesAreHandles ==
  ASSUME TypeOK
  PROVE  /\ Values \in SUBSET Handle /\ Null \notin Values
         /\ \A u \in Uses : visits[u] \subseteq Values \cap Slots
         /\ \A u \in DOMAIN Pointer : Pointer[u] \in Uses
  BY NousedAssumption, CacheAssumption DEF TypeOK, Values, Handle

LEMMA InitFlatInv ==
  ASSUME Init
  PROVE  FlatInv
  <1>1. ASSUME NEW S
        PROVE  CacheIn(EmptyCache, S)
    <2> DEFINE e == [u \in Uses |-> {}]
    <2>1. e \in [Uses -> {{}} \cup {{h} : h \in Handle}] /\ \A u \in Uses : e[u] \subseteq S \cup {Null}
      OBVIOUS
    <2>2. EmptyCache = [entry |-> e, key |-> Null]
      BY DEF EmptyCache
    <2> HIDE DEF e
    <2>3. QED  BY <2>1, <2>2, CacheFields DEF CacheIn
  <1>2. EmptyCache \in Cache
    BY <1>1 DEF CacheIn
  <1>3. \A D : OnlyFor(EmptyCache, D)
    BY DEF OnlyFor, EmptyCache
  <1>4. TypeOK
    BY <1>2, <1>3 DEF Init, TypeOK, NoAnswer, Handle
  <1>5. QED  BY <1>1, <1>4 DEF Init, FlatInv

(* what a call of noused_flat leaves as it is *)
LEMMA AnswerKeepsTypes ==
  ASSUME TypeOK, UNCHANGED program, NEW u \in Uses, NEW v \in Handle, Answer(u, v),
         CacheIn(RC1', Values), CacheIn(RC2', Values), CacheIn(RC3', Values),
         OnlyFor(RC2', GEPs), OnlyFor(RC3', Behind)
  PROVE  FlatInv'
  <1>1. Values' = Values
    BY DEF program, Values
  <1>2. answer'.use = u /\ answer'.visit = v
    BY DEF Answer
  <1>3. TypeOK'
    <2>1. OnlyFor(RC2, GEPs)' /\ OnlyFor(RC3, {Pointer[w] : w \in Casts})'
      BY FormsStay DEF program, OnlyFor, Behind
    <2>2. QED  BY <1>2, <2>1 DEF TypeOK, program, CacheIn
  <1>4. QED  BY <1>1, <1>3 DEF FlatInv

LEMMA CallKeepsFlatInv ==
  ASSUME FlatInv, NEW u \in Uses, NEW refused \in SUBSET Slots, noused_flat(u, refused)
  PROVE  FlatInv'
  <1>1. TypeOK /\ CacheIn(RC1, Values) /\ CacheIn(RC2, Values) /\ CacheIn(RC3, Values)
    BY DEF FlatInv
  <1>0. OnlyFor(RC2, GEPs) /\ OnlyFor(RC3, Behind)
    BY <1>1 DEF TypeOK, Behind
  <1>2. /\ Values \in SUBSET Handle /\ Null \notin Values
        /\ \A x \in Uses : visits[x] \subseteq Values \cap Slots
        /\ \A x \in DOMAIN Pointer : Pointer[x] \in Uses
    BY <1>1, ValuesAreHandles
  <1>3. ASSUME NEW c, CacheIn(c, Values), NEW x \in Uses, NEW o \in Resolve(c, x, refused)
        PROVE  CacheIn(o.cache, Values) /\ o.visit \in Handle /\ o.visit \in Values \cup {Null}
    BY <1>2, <1>3, ResolveIn DEF Handle
  <1>4. CASE VisitedDirectly(u, refused)
    <2>1. PICK o \in Resolve(RC1, u, refused) : RC1' = o.cache /\ Answer(u, o.visit)
      BY <1>4 DEF VisitedDirectly
    <2>2. UNCHANGED <<RC2, RC3, program>>
      BY <1>4 DEF VisitedDirectly
    <2>3. QED  BY <1>0, <1>1, <1>3, <2>1, <2>2, AnswerKeepsTypes
  <1>5. CASE PlainUse(u, refused)
    <2>1. PICK o \in Resolve(RC1, u, refused) : RC1' = o.cache /\ Answer(u, Null)
      BY <1>5 DEF PlainUse
    <2>2. UNCHANGED <<RC2, RC3, program>>
      BY <1>5 DEF PlainUse
    <2>3. QED  BY <1>0, <1>1, <1>3, <2>1, <2>2, AnswerKeepsTypes DEF Handle
  <1>6. CASE CastUse(u, refused)
    <2>1. PICK o \in Resolve(RC1, u, refused) : RC1' = o.cache
      BY <1>6 DEF CastUse
    <2>2. Pointer[u] \in Uses
      BY <1>2, <1>6 DEF CastUse, Casts
    <2>3. PICK p \in Resolve(RC3, Pointer[u], refused) : RC3' = p.cache /\ Answer(u, p.visit)
      BY <1>6 DEF CastUse
    <2>4. UNCHANGED <<RC2, program>>
      BY <1>6 DEF CastUse
    <2>5. CacheIn(RC1', Values)  BY <1>1, <1>3, <2>1
    <2>6. CacheIn(RC3', Values) /\ p.visit \in Handle  BY <1>1, <1>3, <2>2, <2>3
    <2>7. Pointer[u] \in Behind
      BY <1>6 DEF CastUse, Behind
    <2>8. OnlyFor(RC3', Behind)
      BY <1>0, <1>1, <1>2, <2>2, <2>3, <2>7, ResolveFor
    <2>9. QED  BY <1>0, <1>1, <2>3, <2>4, <2>5, <2>6, <2>8, AnswerKeepsTypes
  <1>7. CASE GEPUse(u, refused)
    <2> DEFINE a == askValue(RC2, u)
    <2>1. PICK o \in Resolve(RC1, u, refused) :
            IF a.hit THEN RC1' = o.cache /\ RC2' = a.cache /\ Answer(u, a.value)
            ELSE \E p \in Resolve(o.cache, Pointer[u], refused) :
                   /\ RC1' = p.cache
                   /\ RC2' = storeValue(storeKey(a.cache, u), p.visit)
                   /\ Answer(u, p.visit)
      BY <1>7 DEF GEPUse
    <2>2. UNCHANGED <<RC3, program>>
      BY <1>7 DEF GEPUse
    <2>3. CacheIn(a.cache, Values) /\ (a.hit => a.value \in Values)
      BY <1>1, <1>2, AskValueIn
    <2>4. CacheIn(o.cache, Values)
      BY <1>1, <1>3
    <2>8. OnlyFor(a.cache, GEPs)
      BY <1>0, <1>1, AskValueFor DEF CacheIn
    <2>5. CASE a.hit
      <3>1. a.value \in Handle  BY <1>2, <2>3, <2>5
      <3>2. RC1' = o.cache /\ RC2' = a.cache /\ Answer(u, a.value)  BY <2>1, <2>5
      <3> HIDE DEF a
      <3>3. QED  BY <1>0, <1>1, <2>2, <2>3, <2>4, <2>8, <3>1, <3>2, AnswerKeepsTypes
    <2>6. CASE ~a.hit
      <3>1. PICK p \in Resolve(o.cache, Pointer[u], refused) :
              /\ RC1' = p.cache
              /\ RC2' = storeValue(storeKey(a.cache, u), p.visit)
              /\ Answer(u, p.visit)
        BY <2>1, <2>6
      <3>2. Pointer[u] \in Uses
        BY <1>2, <1>7 DEF GEPUse, GEPs
      <3>3. CacheIn(p.cache, Values) /\ p.visit \in Handle /\ p.visit \in Values \cup {Null}
        BY <1>3, <2>4, <3>1, <3>2
      <3>4. CacheIn(storeKey(a.cache, u), Values)
        BY <1>2, <2>3, StoreKeyIn
      <3>5. CacheIn(RC2', Values)
        BY <1>2, <3>1, <3>3, <3>4, StoreValueIn
      <3>6. OnlyFor(RC2', GEPs)
        <4>1. u \in GEPs /\ a.cache \in Cache
          BY <1>7, <2>3 DEF GEPUse, CacheIn
        <4>2. OnlyFor(storeKey(a.cache, u), GEPs) /\ storeKey(a.cache, u) \in Cache
          BY <2>8, <3>4, <4>1, StoreKeyFor DEF CacheIn
        <4>3. QED  BY <3>1, <4>2, StoreValueFor
      <3>7. QED  BY <1>0, <1>1, <2>2, <3>1, <3>3, <3>5, <3>6, AnswerKeepsTypes
    <2>7. QED  BY <2>5, <2>6
  <1>8. QED  BY <1>4, <1>5, <1>6, <1>7 DEF noused_flat

(* what happens to the program between two calls *)
LEMMA GoneKeepsTypes ==
  ASSUME TypeOK, NEW v \in Slots, Gone(v)
  PROVE  /\ live' \subseteq Slots /\ undefs' \subseteq live'
         /\ visits' \in [Uses -> SUBSET live']
         /\ form' \in [DOMAIN Pointer -> {"cast", "gep"}]
         /\ Values' = (live \ {v}) \cup Rewrites
         /\ Values \ {v} = (live \ {v}) \cup Rewrites
  BY NousedAssumption, CacheAssumption DEF TypeOK, Gone, Values

LEMMA ChangeKeepsFlatInv ==
  ASSUME FlatInv, NEW v \in Slots,
         \/ Delete(v) \/ PutUndef(v) \/ Insert(v)
         \/ \E w \in Slots \cup Rewrites : ReplaceAndDelete(v, w)
  PROVE  FlatInv'
  <1>1. TypeOK /\ CacheIn(RC1, Values) /\ CacheIn(RC2, Values) /\ CacheIn(RC3, Values)
    BY DEF FlatInv
  <1>0. OnlyFor(RC2, GEPs) /\ OnlyFor(RC3, Behind) /\ RC2 \in Cache /\ RC3 \in Cache
    BY <1>1 DEF TypeOK, Behind
  <1>2. Values \in SUBSET Handle
    BY <1>1, ValuesAreHandles
  <1>3. CASE Delete(v)
    <2>1. Gone(v)  BY <1>3 DEF Delete
    <2>2. Values' = Values \ {v}  BY <1>1, <2>1, GoneKeepsTypes
    <2>3. /\ RC1' = Deleted(RC1, {v}) /\ RC2' = Deleted(RC2, {v})
          /\ RC3' = Deleted(RC3, {v}) /\ answer' = answer
      BY <1>3 DEF Delete
    <2>4. CacheIn(RC1', Values') /\ CacheIn(RC2', Values') /\ CacheIn(RC3', Values')
      BY <1>1, <1>2, <2>2, <2>3, DeletedIn
    <2>5. TypeOK'
      <3>1. OnlyFor(RC2', GEPs) /\ OnlyFor(RC3', Behind) /\ form' = form
        BY <1>0, <2>1, <2>3, DeletedFor DEF Gone
      <3>2. OnlyFor(RC2, GEPs)' /\ OnlyFor(RC3, {Pointer[u] : u \in Casts})'
        BY <3>1, FormsStay DEF OnlyFor, Behind
      <3>3. QED  BY <1>1, <2>1, <2>3, <2>4, <3>2, GoneKeepsTypes DEF TypeOK, CacheIn
    <2>6. QED  BY <2>4, <2>5 DEF FlatInv
  <1>4. ASSUME NEW w \in Slots \cup Rewrites, ReplaceAndDelete(v, w)
        PROVE  FlatInv'
    <2>1. Gone(v)  BY <1>4 DEF ReplaceAndDelete
    <2>2. w \in (live \ {v}) \cup Rewrites  BY <1>4 DEF ReplaceAndDelete
    <2>3. w \in Handle /\ w # v
      BY <1>1, <2>2, NousedAssumption, CacheAssumption DEF TypeOK, Handle
    <2>4. Values' = (Values \ {v}) \cup {w}  BY <1>1, <2>1, <2>2, GoneKeepsTypes
    <2>5. /\ RC1' = Replaced(RC1, v, w) /\ RC2' = Replaced(RC2, v, w)
          /\ RC3' = Replaced(RC3, v, w) /\ answer' = answer
      BY <1>4 DEF ReplaceAndDelete
    <2>6. CacheIn(RC1', Values') /\ CacheIn(RC2', Values') /\ CacheIn(RC3', Values')
      BY <1>1, <1>2, <2>3, <2>4, <2>5, ReplacedIn
    <2>7. TypeOK'
      <3>1. OnlyFor(RC2', GEPs) /\ OnlyFor(RC3', Behind) /\ form' = form
        BY <1>0, <2>1, <2>5, ReplacedFor DEF Gone
      <3>2. OnlyFor(RC2, GEPs)' /\ OnlyFor(RC3, {Pointer[u] : u \in Casts})'
        BY <3>1, FormsStay DEF OnlyFor, Behind
      <3>3. QED  BY <1>1, <2>1, <2>5, <2>6, <3>2, GoneKeepsTypes DEF TypeOK, CacheIn
    <2>8. QED  BY <2>6, <2>7 DEF FlatInv
  <1>5. CASE PutUndef(v)
    <2>1. UNCHANGED <<caches, live, form, answer>> /\ v \in live
          /\ undefs' = undefs \cup {v} /\ visits' = [u \in Uses |-> visits[u] \ {v}]
      BY <1>5 DEF PutUndef
    <2>2. TypeOK' /\ Values' = Values
      BY <1>1, <2>1 DEF TypeOK, caches, Values, OnlyFor, GEPs, Casts
    <2>3. QED  BY <1>1, <2>1, <2>2 DEF FlatInv, caches
  <1>6. CASE Insert(v)
    <2>1. UNCHANGED <<caches, undefs, form, answer>> /\ live' = live \cup {v}
      BY <1>6 DEF Insert
    <2>2. visits' \in [Uses -> SUBSET live']
      BY <1>1, <1>6, <2>1 DEF Insert, TypeOK
    <2>3. TypeOK'
      BY <1>1, <2>1, <2>2 DEF TypeOK, caches, OnlyFor, GEPs, Casts
    <2>4. Values \subseteq Values'
      BY <2>1 DEF Values
    <2>5. QED  BY <1>1, <2>1, <2>3, <2>4, CacheGrows DEF FlatInv, caches
  <1>7. QED  BY <1>3, <1>4, <1>5, <1>6

LEMMA NextFlatInv ==
  ASSUME FlatInv, [Next]_vars
  PROVE  FlatInv'
  <1>1. CASE \E u \in Uses, refused \in SUBSET Slots : noused_flat(u, refused)
    BY <1>1, CallKeepsFlatInv
  <1>2. CASE \E v \in Slots :
               \/ Delete(v) \/ PutUndef(v) \/ Insert(v)
               \/ \E w \in Slots \cup Rewrites : ReplaceAndDelete(v, w)
    BY <1>2, ChangeKeepsFlatInv
  <1>3. CASE UNCHANGED vars
    BY <1>3 DEF vars, FlatInv, TypeOK, Values, CacheIn, OnlyFor, GEPs, Casts
  <1>4. QED  BY <1>1, <1>2, <1>3 DEF Next

(***************************************************************************)
(* The caches and the program noused_flat works on keep their types, and   *)
(* each cache is only ever asked and filled for its own sort of use.       *)
(***************************************************************************)
THEOREM TypeCorrect == Spec => []TypeOK
  <1>1. Init => FlatInv
    BY InitFlatInv
  <1>2. FlatInv /\ [Next]_vars => FlatInv'
    BY NextFlatInv
  <1>3. FlatInv => TypeOK
    BY DEF FlatInv
  <1>4. QED  BY <1>1, <1>2, <1>3, PTL DEF Spec

(***************************************************************************)
(* No cache ever holds an instruction that was freed.                      *)
(***************************************************************************)
THEOREM CachesAreLive == Spec => []NoDanglingEntry
  <1>1. Init => FlatInv
    BY InitFlatInv
  <1>2. FlatInv /\ [Next]_vars => FlatInv'
    BY NextFlatInv
  <1>3. FlatInv => NoDanglingEntry
    <2>1. Values \subseteq live \cup {Other}
      BY NousedAssumption DEF Values
    <2>2. QED  BY <2>1 DEF FlatInv, CacheIn, NoDanglingEntry
  <1>4. QED  BY <1>1, <1>2, <1>3, PTL DEF Spec

----------------------------------------------------------------------------
(***************************************************************************)
(* The answer.                                                             *)
(***************************************************************************)
LEMMA DeletableNow ==
  ASSUME FlatInv, Rewrites = {}, NEW u \in Uses, NEW refused \in SUBSET Slots,
         noused_flat(u, refused), ~answer'.kept
  PROVE  Against(u) \subseteq refused
  <1>1. TypeOK /\ CacheIn(RC1, Values) /\ CacheIn(RC2, Values) /\ CacheIn(RC3, Values)
    BY DEF FlatInv
  <1>2. /\ Values \in SUBSET Handle /\ Null \notin Values /\ Values \subseteq Slots
        /\ \A x \in Uses : visits[x] \subseteq Values \cap Slots
        /\ \A x \in DOMAIN Pointer : Pointer[x] \in Uses
    BY <1>1, ValuesAreHandles DEF Values, TypeOK
  <1>3. ASSUME NEW v, Answer(u, v)
        PROVE  v = Null
    BY <1>3 DEF Answer
  <1>4. ASSUME NEW c, CacheIn(c, Values), NEW x \in Uses, NEW o \in Resolve(c, x, refused)
        PROVE  CacheIn(o.cache, Values) /\ (o.visit = Null => visits[x] \subseteq refused)
    BY <1>2, <1>4, ResolveIn
  <1>5. CASE VisitedDirectly(u, refused)
    BY <1>3, <1>5 DEF VisitedDirectly
  <1>6. CASE PlainUse(u, refused)
    <2>1. visits[u] \subseteq refused /\ u \notin Casts \cup GEPs
      BY <1>1, <1>4, <1>6 DEF PlainUse
    <2>2. QED  BY <2>1 DEF Against
  <1>7. CASE CastUse(u, refused)
    <2>1. visits[u] \subseteq refused
      BY <1>1, <1>4, <1>7 DEF CastUse
    <2>2. Pointer[u] \in Uses
      BY <1>2, <1>7 DEF CastUse, Casts
    <2>3. PICK p \in Resolve(RC3, Pointer[u], refused) : Answer(u, p.visit)
      BY <1>7 DEF CastUse
    <2>4. visits[Pointer[u]] \subseteq refused
      BY <1>1, <1>3, <1>4, <2>2, <2>3
    <2>5. QED  BY <2>1, <2>4 DEF Against
  <1>8. CASE GEPUse(u, refused)
    <2> DEFINE a == askValue(RC2, u)
    <2>1. PICK o \in Resolve(RC1, u, refused) :
            /\ o.visit = Null
            /\ IF a.hit THEN Answer(u, a.value)
               ELSE \E p \in Resolve(o.cache, Pointer[u], refused) : Answer(u, p.visit)
      BY <1>8 DEF GEPUse
    <2>2. a.hit => a.value # Null
      BY <1>1, <1>2, AskValueIn
    <2>3. ~a.hit
      BY <1>3, <2>1, <2>2
    <2>4. Pointer[u] \in Uses
      BY <1>2, <1>8 DEF GEPUse, GEPs
    <2>5. CacheIn(o.cache, Values) /\ visits[u] \subseteq refused
      BY <1>1, <1>4, <2>1
    <2>6. PICK p \in Resolve(o.cache, Pointer[u], refused) : Answer(u, p.visit)
      BY <2>1, <2>3
    <2>7. visits[Pointer[u]] \subseteq refused
      BY <1>3, <1>4, <2>4, <2>5, <2>6
    <2>8. QED  BY <2>5, <2>7 DEF Against
  <1>9. QED  BY <1>5, <1>6, <1>7, <1>8 DEF noused_flat

(***************************************************************************)
(* As long as the uses of a visit are rewritten to visits, "not used" is   *)
(* said of memory only that no search reaches a visit from.                *)
(***************************************************************************)
THEOREM DeletableIsRight == Rewrites = {} /\ Spec => DeletableIsUnused
  <1> SUFFICES ASSUME Rewrites = {}
               PROVE  Spec => DeletableIsUnused
    OBVIOUS
  <1>1. Init => FlatInv
    BY InitFlatInv
  <1>2. FlatInv /\ [Next]_vars => FlatInv'
    BY NextFlatInv
  <1>3. FlatInv /\ [Next]_vars =>
          [\A u \in Uses, refused \in SUBSET Slots :
             noused_flat(u, refused) /\ ~answer'.kept => Against(u) \subseteq refused]_vars
    BY DeletableNow
  <1>4. QED  BY <1>1, <1>2, <1>3, PTL DEF Spec, DeletableIsUnused
=============================================================================
