---------------------------- MODULE MCDeadStores ----------------------------
(***************************************************************************)
(* Objects of four bytes.  Every function of three instructions of those    *)
(* below, in one block or in two.                                           *)
(***************************************************************************)
EXTENDS DeadStores

At(p, off, size) == [ptr |-> p, off |-> off, size |-> size]

Store(l, v) == [op |-> "store", loc |-> l, val |-> v, volatile |-> FALSE]
Volatile(l) == [Store(l, 0) EXCEPT !.volatile = TRUE]
Load(l, u) == [op |-> "load", loc |-> l, used |-> u]
Memset(l, a) == [op |-> "memset", loc |-> l, align |-> a]
Copy(l, m, v) == [op |-> "memcpy", loc |-> l, src |-> m, align |-> 0, move |-> v]
Memcpy(l, m) == Copy(l, m, FALSE)
Memmove(l, m) == Copy(l, m, TRUE)
LifetimeEnd == [op |-> "lifetime_end", loc |-> At("alloca", 0, 4)]
Call == [op |-> "call"]
Free == [op |-> "free"]

(* all of an object *)
All(p) == At(p, 0, 4)

Places ==
  {At("alloca", 2, 2), At("alloca", 3, 1), At("heap", 3, 1), At("select", 0, 2)}
    \cup {All(p) : p \in {"alloca", "global", "heap", "select"}}

(* no power of two is 3: the end of the alloca is cut off for the one memset only *)
MCInstructions ==
  {Store(l, v) : l \in Places, v \in 0 .. Length - 1}
    \cup {Load(All(p), TRUE) : p \in {"heap", "select"}}
    \cup {Load(All(p), FALSE) : p \in {"alloca", "global"}}
    \cup {Volatile(All("alloca")), Call, Free, LifetimeEnd}
    \cup {Memset(All("alloca"), a) : a \in {0, 1}}
    \cup {Memcpy(All(p[1]), All(p[2])) : p \in {<<"alloca", "global">>, <<"alloca", "select">>}}
    \cup {Memmove(All("heap"), All("alloca")), Memmove(At("alloca", 0, 3), At("alloca", 1, 3))}

Shape(k, c, r, e, t) ==
  [split |-> k, cond |-> c, ret |-> r, captured |-> e, selected |-> t]

MCShapes ==
  {Shape(0, FALSE, TRUE, {}, {"alloca", "global"}),
   Shape(0, FALSE, TRUE, {}, {"alloca", "heap"}),
   Shape(0, FALSE, TRUE, {"alloca", "heap"}, {"alloca", "global"}),
   Shape(0, FALSE, FALSE, {}, {"alloca", "heap"}),
   Shape(2, FALSE, TRUE, {}, {"global", "heap"}),
   Shape(2, TRUE, TRUE, {}, {"global", "heap"})}

(* two copies to a selected pointer, the second over the end of the first, *)
(* and what reads the object they are of                                   *)
CopyInstructions ==
  {Memcpy(At("select", 1, 1), At("alloca", 0, 1)), Memcpy(At("select", 0, 2), At("alloca", 0, 2)),
   Store(All("alloca"), 0), Load(All("alloca"), TRUE)}

CopyShapes == {Shape(0, FALSE, TRUE, {}, {"alloca", "global"})}
=============================================================================
