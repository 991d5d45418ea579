----------------------------- MODULE DeadStores -----------------------------
(***************************************************************************)
(* The dead store elimination ReduceCode runs on every block before it     *)
(* asks about the block's instructions (DeadStoreElimination.cpp).         *)
(*                                                                         *)
(* The function has two blocks, one after the other, around four objects   *)
(* of some bytes each: an alloca, a global, a heap object it allocates and *)
(* perhaps frees, and whatever a selected pointer points to.  The pass     *)
(* walks down each block and removes the writes a later one overwrites or  *)
(* a free makes useless; at a return it walks up again and removes the     *)
(* writes to objects that end there.                                       *)
(*                                                                         *)
(* What memory dependence and alias analysis answer is LLVM's affair, and  *)
(* modelled from what they document.                                       *)
(***************************************************************************)
EXTENDS Integers, FiniteSets, SequencesExt

CONSTANTS
  Size,          \* the bytes of each object
  Length,        \* how many instructions a function has
  Instructions,  \* what they may be
  Shapes         \* the rest of a function, see Function

Objects == {"alloca", "global", "heap"}

Bytes == 0 .. Size - 1

(***************************************************************************)
(* Where an access starts and how much it takes; "select" is a pointer to  *)
(* the start of one object of a few.  Of the instructions, store may be of *)
(* a constant, 0, or of what an earlier load returned; a load may have     *)
(* users besides the stores of it; a memset or a copy has the alignment it *)
(* is given, or 0, and a copy is a memmove or else a memcpy.               *)
(***************************************************************************)
Location ==
  {l \in [ptr : Objects \cup {"select"}, off : Bytes, size : 1 .. Size] :
     l.off + l.size <= Size}

Instruction ==
  [op : {"store"}, loc : Location, val : Nat, volatile : BOOLEAN]
    \cup [op : {"load"}, loc : Location, used : BOOLEAN]
    \cup [op : {"memset"}, loc : Location, align : Nat]
    \cup [op : {"lifetime_end"}, loc : Location]
    \cup {c \in [op : {"memcpy"}, loc : Location, src : Location, align : Nat, move : BOOLEAN] :
             c.loc.size = c.src.size}
    \cup [op : {"call", "free"}]

(***************************************************************************)
(* A function, besides its instructions: the first "split" of them are in  *)
(* the first block; whether that block has another successor; whether the  *)
(* second returns; the local objects whose address other functions have;   *)
(* what the selected pointer may point to.                                 *)
(***************************************************************************)
Function ==
  [split : Nat, cond : BOOLEAN, ret : BOOLEAN,
   captured : SUBSET Objects, selected : SUBSET Objects]

ASSUME DeadStoresAssumption ==
  /\ Size \in Nat /\ Length \in Nat
  /\ Instructions \subseteq Instruction
  /\ \A s \in Shapes : s \in Function /\ s.split <= Length

VARIABLES
  first,  \* the instructions there were
  fn,     \* the function
  code,   \* its instructions now
  alive,  \* those that are left
  BB,     \* the block
  BBI,    \* the instruction that comes next, or the end of the block
  Inst,   \* the write or free that is looked at
  dep,    \* what it depends on, 0 for nothing in the block
  from,   \* the block HandleFree is in
  DeadStackObjects,
  pc

vars == <<first, fn, code, alive, BB, BBI, Inst, dep, from, DeadStackObjects, pc>>

N == Length

(* the place of the terminator *)
End(b) == IF b = 1 THEN fn.split + 1 ELSE N + 1

Left(b) == {i \in alive : (i <= fn.split) = (b = 1)}

NextOf(i, b) ==
  LET after == {j \in Left(b) : j > i} IN IF after = {} THEN End(b) ELSE Min(after)

Begin(b) == NextOf(IF b = 1 THEN 0 ELSE fn.split, b)

Is(i, ops) == code[i].op \in ops

----------------------------------------------------------------------------
(***************************************************************************)
(* Alias analysis and memory dependence.                                   *)
(***************************************************************************)
ObjectsOf(loc) == IF loc.ptr = "select" THEN fn.selected ELSE {loc.ptr}

Covers(loc) == loc.off .. loc.off + loc.size - 1

MayAlias(l, m) ==
  ObjectsOf(l) \cap ObjectsOf(m) # {} /\ Covers(l) \cap Covers(m) # {}

MustAlias(l, m) == l.ptr = m.ptr /\ l.off = m.off

(* other functions see it *)
Visible(o) == o = "global" \/ o \in fn.captured

Whole(o) == [ptr |-> o, off |-> 0, size |-> Size]

(* what an instruction names as read or written *)
Accessed(c) ==
  CASE c.op \in {"store", "load", "memset", "lifetime_end"} -> {c.loc}
    [] c.op = "memcpy" -> {c.loc, c.src}
    [] c.op = "free" -> {Whole("heap")}
    [] c.op = "call" -> {}

Touches(c, loc) ==
  \/ \E l \in Accessed(c) : MayAlias(l, loc)
  \/ c.op \in {"call", "free"} /\ \E o \in ObjectsOf(loc) : Visible(o)

(* of the instructions left, the nearest above i that has to do with locs *)
Dependency(left, locs, i) ==
  LET S == {j \in left : j < i /\ \E loc \in locs : Touches(code[j], loc)}
  IN IF S = {} THEN 0 ELSE Max(S)

(* getModRefInfo & Ref *)
MayRead(c, loc) ==
  \/ c.op = "load" /\ MayAlias(c.loc, loc)
  \/ c.op = "memcpy" /\ MayAlias(c.src, loc)
  \/ c.op \in {"call", "free", "lifetime_end"} /\ Touches(c, loc)

----------------------------------------------------------------------------
(***************************************************************************)
(* A store is of what an earlier load of its size returned; what is done   *)
(* to an object after its end is undefined.                                *)
(***************************************************************************)
ValuesOK ==
  \A i \in 1 .. N : first[i].op = "store" /\ first[i].val # 0 =>
    LET j == first[i].val
    IN j < i /\ first[j].op = "load" /\ first[j].loc.size = first[i].loc.size

Ended(c) ==
  CASE c.op = "free" -> {"heap"} [] c.op = "lifetime_end" -> {"alloca"} [] OTHER -> {}

Defined ==
  \A i, j \in 1 .. N : i < j =>
    \A l \in Accessed(first[j]) : Ended(first[i]) \cap ObjectsOf(l) = {}

----------------------------------------------------------------------------
(***************************************************************************)
(* The helpers.                                                            *)
(***************************************************************************)
hasMemoryWrite(i) == Is(i, {"store", "memset", "memcpy", "lifetime_end"})

isRemovable(i) ==
  Is(i, {"store", "memset", "memcpy"}) /\ ~(Is(i, {"store"}) /\ code[i].volatile)

isShortenable(i) == Is(i, {"memset"}) \/ (Is(i, {"memcpy"}) /\ ~code[i].move)

(* OverwriteComplete *)
Complete(later, earlier) ==
  /\ later.ptr = earlier.ptr
  /\ later.off <= earlier.off
  /\ earlier.off + earlier.size <= later.off + later.size

(* OverwriteEnd *)
OverwriteEnd(later, earlier) ==
  /\ later.ptr = earlier.ptr
  /\ later.off > earlier.off
  /\ later.off < earlier.off + earlier.size
  /\ later.off + later.size >= earlier.off + earlier.size

(* mutant: a copy onto itself is not thought of *)
noSelfRead(i, d) == FALSE

isPossibleSelfRead(i, d) ==
  /\ Is(i, {"memcpy"})
  /\ MayAlias(code[i].src, code[i].loc)
  /\ ~(Is(d, {"memcpy"}) /\ MustAlias(code[i].src, code[d].src))

UsedBy(j) == {i \in alive : Is(i, {"store"}) /\ code[i].val = j}

(* isInstructionTriviallyDead *)
TriviallyDead(j, gone) == Is(j, {"load"}) /\ ~code[j].used /\ UsedBy(j) \subseteq gone

DeleteDeadInstruction(i) ==
  alive' = alive \ ({i} \cup {j \in alive : /\ Is(i, {"store"}) /\ code[i].val = j
                                            /\ TriviallyDead(j, {i})})

----------------------------------------------------------------------------
(***************************************************************************)
(* runOnBasicBlock: the walk down.                                         *)
(***************************************************************************)
StartBlock(b) ==
  /\ BB = b
  /\ BBI = Begin(b)
  /\ pc = "walk"

Init ==
  /\ fn \in Shapes
  /\ first \in [1 .. N -> Instructions]
  /\ ValuesOK /\ Defined
  /\ code = first
  /\ alive = 1 .. N
  /\ StartBlock(1)
  /\ Inst = 0 /\ dep = 0 /\ from = 0
  /\ DeadStackObjects = {}

AtInst == pc = "walk" /\ BBI < End(BB)

(* MD->getDependency *)
InstDep(i) == Dependency(Left(BB), Accessed(code[i]), i)

(* no write, or one that depends on nothing in the block *)
Skip ==
  /\ AtInst /\ ~Is(BBI, {"free"})
  /\ ~hasMemoryWrite(BBI) \/ InstDep(BBI) = 0
  /\ BBI' = NextOf(BBI, BB)
  /\ UNCHANGED <<first, fn, code, alive, BB, Inst, dep, from, DeadStackObjects, pc>>

(* "storing the same value back to a pointer that we just loaded from" *)
StoredBack(i, d) ==
  /\ Is(i, {"store"}) /\ Is(d, {"load"})
  /\ code[i].loc = code[d].loc /\ code[i].val = d /\ isRemovable(i)

RemoveStoredBack ==
  /\ AtInst /\ hasMemoryWrite(BBI) /\ InstDep(BBI) # 0
  /\ StoredBack(BBI, InstDep(BBI))
  /\ DeleteDeadInstruction(BBI)
  /\ LET NextInst == NextOf(BBI, BB)
         before == {j \in alive' : j \in Left(BB) /\ j < NextInst}
     IN BBI' = IF before = {} THEN NextInst ELSE Max(before)
  /\ UNCHANGED <<first, fn, code, BB, Inst, dep, from, DeadStackObjects, pc>>

LookAt ==
  /\ AtInst /\ hasMemoryWrite(BBI) /\ InstDep(BBI) # 0
  /\ ~StoredBack(BBI, InstDep(BBI))
  /\ Inst' = BBI /\ dep' = InstDep(BBI)
  /\ BBI' = NextOf(BBI, BB)
  /\ pc' = "deps"
  /\ UNCHANGED <<first, fn, code, alive, BB, from, DeadStackObjects>>

Loc == code[Inst].loc

(* the write dep may go, if Inst overwrites it *)
Obliterates == isRemovable(dep) /\ ~isPossibleSelfRead(Inst, dep)

GiveUp ==
  /\ pc = "deps" /\ ~hasMemoryWrite(dep)
  /\ pc' = "walk"
  /\ UNCHANGED <<first, fn, code, alive, BB, BBI, Inst, dep, from, DeadStackObjects>>

(* mutant: goes on at what is deleted *)
StayAtOverwritten ==
  /\ pc = "deps" /\ hasMemoryWrite(dep)
  /\ Obliterates /\ Complete(Loc, code[dep].loc)
  /\ DeleteDeadInstruction(dep)
  /\ BBI' = dep
  /\ pc' = "walk"
  /\ UNCHANGED <<first, fn, code, BB, Inst, dep, from, DeadStackObjects>>

RemoveOverwritten ==
  /\ pc = "deps" /\ hasMemoryWrite(dep)
  /\ Obliterates /\ Complete(Loc, code[dep].loc)
  /\ DeleteDeadInstruction(dep)
  /\ LET before == {j \in alive' : j \in Left(BB) /\ j < Inst}
     IN BBI' = IF before = {} THEN Inst ELSE Max(before)
  /\ pc' = "walk"
  /\ UNCHANGED <<first, fn, code, BB, Inst, dep, from, DeadStackObjects>>

(* setLength, where the rest is aligned *)
Aligned(c) ==
  \/ \E k \in Bytes : Loc.off = 2^k
  \/ c.align # 0 /\ Loc.off % c.align = 0

Trimmed(c) ==
  IF Obliterates /\ isShortenable(dep) /\ OverwriteEnd(Loc, c.loc) /\ Aligned(c)
  THEN LET length == Loc.off - c.loc.off IN
       IF c.op = "memcpy" THEN [c EXCEPT !.loc.size = length, !.src.size = length]
                          ELSE [c EXCEPT !.loc.size = length]
  ELSE c

(* the search may go on above dep *)
LooksPast(c) == dep # Begin(BB) /\ ~MayRead(c, Loc)

(* mutant: the search starts again at Inst *)
LookPastAgain ==
  /\ pc = "deps" /\ hasMemoryWrite(dep)
  /\ ~(Obliterates /\ Complete(Loc, code[dep].loc))
  /\ code' = [code EXCEPT ![dep] = Trimmed(@)]
  /\ dep' = IF LooksPast(code'[dep]) THEN Dependency(Left(BB), {Loc}, Inst) ELSE 0
  /\ pc' = IF dep' = 0 THEN "walk" ELSE "deps"
  /\ UNCHANGED <<first, fn, alive, BB, BBI, Inst, from, DeadStackObjects>>

LookPast ==
  /\ pc = "deps" /\ hasMemoryWrite(dep)
  /\ ~(Obliterates /\ Complete(Loc, code[dep].loc))
  /\ code' = [code EXCEPT ![dep] = Trimmed(@)]
  /\ dep' = IF LooksPast(code'[dep]) THEN Dependency(Left(BB), {Loc}, dep) ELSE 0
  /\ pc' = IF dep' = 0 THEN "walk" ELSE "deps"
  /\ UNCHANGED <<first, fn, alive, BB, BBI, Inst, from, DeadStackObjects>>

----------------------------------------------------------------------------
(***************************************************************************)
(* HandleFree.  The search for writes to the object goes on in the block   *)
(* above, if that one leads here only.                                     *)
(***************************************************************************)
Freed(left, i) == Dependency(left, {Whole("heap")}, i)

HandleFree ==
  /\ AtInst /\ Is(BBI, {"free"})
  /\ Inst' = BBI /\ from' = BB /\ dep' = Freed(Left(BB), BBI)
  /\ BBI' = NextOf(BBI, BB)
  /\ pc' = "free"
  /\ UNCHANGED <<first, fn, code, alive, BB, DeadStackObjects>>

(* isMustAlias of the freed pointer and the object written to *)
RemoveFreed ==
  /\ pc = "free" /\ dep # 0
  /\ hasMemoryWrite(dep) /\ isRemovable(dep) /\ code[dep].loc.ptr = "heap"
  /\ DeleteDeadInstruction(dep)
  /\ dep' = Freed(Left(from) \cap alive', NextOf(dep, from))
  /\ UNCHANGED <<first, fn, code, BB, BBI, Inst, from, DeadStackObjects, pc>>

StopFree ==
  /\ pc = "free" /\ dep # 0
  /\ ~(hasMemoryWrite(dep) /\ isRemovable(dep) /\ code[dep].loc.ptr = "heap")
  /\ pc' = "walk"
  /\ UNCHANGED <<first, fn, code, alive, BB, BBI, Inst, dep, from, DeadStackObjects>>

FindUnconditionalPreds == IF from = 2 /\ ~fn.cond THEN {1} ELSE {}

FreeAbove ==
  /\ pc = "free" /\ dep = 0
  /\ IF FindUnconditionalPreds = {}
       THEN pc' = "walk" /\ UNCHANGED <<dep, from>>
       ELSE /\ from' = 1
            /\ dep' = Freed(Left(1), End(1))
            /\ UNCHANGED pc
  /\ UNCHANGED <<first, fn, code, alive, BB, BBI, Inst, DeadStackObjects>>

----------------------------------------------------------------------------
(***************************************************************************)
(* handleEndBlock: the walk up.  BBI is the instruction below.             *)
(***************************************************************************)
EndBlock ==
  /\ pc = "walk" /\ BBI = End(BB)
  /\ IF BB = 1
       THEN /\ BB' = 2 /\ BBI' = Begin(2)
            /\ UNCHANGED <<DeadStackObjects, pc>>
       ELSE /\ DeadStackObjects' = {"alloca"} \cup ({"heap"} \ fn.captured)
            /\ pc' = IF fn.ret THEN "up" ELSE "done"
            /\ UNCHANGED <<BB, BBI>>
  /\ UNCHANGED <<first, fn, code, alive, Inst, dep, from>>

Above == Left(2) \cap 0 .. BBI - 1

Up == Max(Above)

AtUp == pc = "up" /\ Above # {}

AllDead(i) == hasMemoryWrite(i) /\ isRemovable(i) /\ ObjectsOf(code[i].loc) \subseteq DeadStackObjects

(* a write to objects that are dead, or a load nobody uses *)
RemoveUp ==
  /\ AtUp
  /\ AllDead(Up) \/ TriviallyDead(Up, {})
  /\ DeleteDeadInstruction(Up)
  /\ UNCHANGED <<first, fn, code, BB, BBI, Inst, dep, from, DeadStackObjects, pc>>

(* mutant: a pointer that may point to an object leaves it dead *)
ReadsItself(c) ==
  {o \in DeadStackObjects :
     \/ c.op \in {"call", "free"} /\ Touches(c, Whole(o))
     \/ c.op \in {"load"} /\ c.loc.ptr = o
     \/ c.op = "memcpy" /\ c.src.ptr = o}

(* RemoveAccessedObjects, and what a call may read *)
Reads(c) == {o \in DeadStackObjects : MayRead(c, Whole(o))}

(* once no object is dead, and at a volatile access, the walk ends *)
PassUp ==
  /\ AtUp
  /\ ~AllDead(Up) /\ ~TriviallyDead(Up, {})
  /\ DeadStackObjects' = DeadStackObjects \ Reads(code[Up])
  /\ BBI' = Up
  /\ pc' = IF IF Is(Up, {"store"}) THEN code[Up].volatile ELSE DeadStackObjects' = {}
            THEN "done" ELSE "up"
  /\ UNCHANGED <<first, fn, code, alive, BB, Inst, dep, from>>

EndUp ==
  /\ pc = "up" /\ Above = {}
  /\ pc' = "done"
  /\ UNCHANGED <<first, fn, code, alive, BB, BBI, Inst, dep, from, DeadStackObjects>>

Next ==
  \/ Skip \/ RemoveStoredBack \/ LookAt
  \/ GiveUp \/ RemoveOverwritten \/ LookPast
  \/ HandleFree \/ RemoveFreed \/ StopFree \/ FreeAbove
  \/ EndBlock \/ RemoveUp \/ PassUp \/ EndUp

Spec == Init /\ [][Next]_vars

(* the pass is a sequential function: it runs until it returns *)
FairSpec == Spec /\ WF_vars(Next)

----------------------------------------------------------------------------
(***************************************************************************)
(* What a function does, with p in place of its instructions and S the     *)
(* ones left.  A byte of memory holds a value: that an instruction put     *)
(* there, or its first one.  target is what the selected pointer points    *)
(* to; writes: calls overwrite what they see.  seen: what the rest of the  *)
(* program can tell from the run.                                          *)
(***************************************************************************)
Cells == Objects \X Bytes

CellsOf(loc, target) ==
  {IF loc.ptr = "select" THEN target ELSE loc.ptr} \X Covers(loc)

VisibleCells == {c \in Cells : Visible(c[1])}

State(mem, val, seen) == [mem |-> mem, val |-> val, seen |-> seen]

(* the bytes of a location, and a memory where they are v *)
Get(mem, loc, target) ==
  [k \in 0 .. loc.size - 1 |->
     mem[<<IF loc.ptr = "select" THEN target ELSE loc.ptr, loc.off + k>>]]

Put(mem, loc, target, v) ==
  [c \in Cells |-> IF c \in CellsOf(loc, target) THEN v[c[2] - loc.off] ELSE mem[c]]

See(s, what) == State(s.mem, s.val, Append(s.seen, what))

Seen(s, cells) == See(s, [c \in cells |-> s.mem[c]])

(* byte k of what i writes on its own, and that of no known value *)
Own(i, k) == <<i, k, "new">>
UndefByte == <<0, 0, "undef">>

(* what a write puts into the place it writes to; a memcpy is taken for a memmove *)
Written(s, i, c, target) ==
  CASE c.op = "store" /\ c.val # 0 -> s.val[c.val]
    [] c.op = "memcpy" -> Get(s.mem, c.src, target)
    [] OTHER ->
         [k \in 0 .. c.loc.size - 1 |->
            CASE c.op = "store" -> Own(i, k)
              [] c.op = "memset" -> Own(i, 0)
              [] c.op = "lifetime_end" -> UndefByte]

(* a later instruction may see what a load returned in its uses only *)
Step(s, i, c, target, writes) ==
  LET put == State(Put(s.mem, c.loc, target, Written(s, i, c, target)), s.val, s.seen)
      got == State(s.mem,
                   [j \in 1 .. N |-> IF j = i THEN Get(s.mem, c.loc, target) ELSE s.val[j]],
                   s.seen)
  IN CASE c.op = "store" -> IF c.volatile THEN See(put, i) ELSE put
       [] c.op \in {"memset", "memcpy", "lifetime_end"} -> put
       [] c.op = "load" -> IF c.used THEN See(got, got.val[i]) ELSE got
       [] c.op = "free" ->
            State([x \in Cells |-> IF x[1] = "heap" THEN UndefByte ELSE s.mem[x]],
                  s.val, s.seen)
       [] c.op = "call" ->
            State([x \in Cells |-> IF writes /\ x \in VisibleCells THEN <<i, x[2], x[1]>>
                                                                  ELSE s.mem[x]],
                  s.val, Seen(s, VisibleCells).seen)

(* the other successor of the first block may read all memory *)
After(s, i, p, S, target, writes) ==
  LET t == IF i \in S THEN Step(s, i, p[i], target, writes) ELSE s
  IN IF i = fn.split /\ fn.cond THEN Seen(t, Cells) ELSE t

Before ==
  State([c \in Cells |-> <<0, c[2], c[1]>>], [i \in 1 .. N |-> UndefByte], <<>>)

(* the states a run goes through *)
Run(p, S, target, writes) ==
  LET run[i \in 0 .. N] ==
        IF i = 0 THEN Before ELSE After(run[i - 1], i, p, S, target, writes)
  IN run

(* what the caller, or the successors of the second block, can read *)
Behaviour(p, S, target, writes) ==
  Seen(Run(p, S, target, writes)[N],
       IF fn.ret THEN VisibleCells \ ({"alloca"} \X Bytes) ELSE Cells).seen

----------------------------------------------------------------------------
(***************************************************************************)
(* Besides types: the pass always goes on at an instruction of its block   *)
(* that is left, or at the end of the block, whatever it has deleted in    *)
(* the meantime, and an instruction it deleted is used by none that is     *)
(* left.                                                                   *)
(***************************************************************************)
TypeOK ==
  /\ \A i \in 1 .. N : code[i] \in Instruction
  /\ alive \subseteq 1 .. N
  /\ \A i \in alive : Is(i, {"store"}) /\ code[i].val # 0 => code[i].val \in alive
  /\ BB \in {1, 2} /\ (BBI = End(BB) \/ BBI \in Left(BB))
  /\ Inst \in 0 .. N /\ dep \in 0 .. N /\ from \in {0, 1, 2}
  /\ DeadStackObjects \subseteq {"alloca", "heap"}
  /\ pc \in {"walk", "deps", "free", "up", "done"}

Copies == {i \in 1 .. N : first[i].op = "memcpy"}

SrcCells(i, target) == CellsOf(first[i].src, target)
DestCells(i, target) == CellsOf(first[i].loc, target)

OntoItself(i, target) == SrcCells(i, target) = DestCells(i, target)

Elsewhere(i, target) == SrcCells(i, target) \cap DestCells(i, target) = {}

(***************************************************************************)
(* What the pass takes for granted of a copy, an earlier one, and a target *)
(* of the selected pointer, where both copies are from one place and by    *)
(* one pointer: that the later is to another place than the one it is      *)
(* from, or that both are onto themselves.                                 *)
(***************************************************************************)
SameSource(target) ==
  \A i, j \in Copies :
    j < i /\ MustAlias(first[i].src, first[j].src) /\ first[i].loc.ptr = first[j].loc.ptr
    => Elsewhere(i, target) \/ (OntoItself(i, target) /\ OntoItself(j, target))

(* a memcpy (no memmove) copies to another place, or at most to the same one *)
NoOverlap(target) ==
  \A i \in Copies : first[i].move \/ OntoItself(i, target) \/ Elsewhere(i, target)

Same(target, writes) ==
  Behaviour(code, alive, target, writes) = Behaviour(first, 1 .. N, target, writes)

(***************************************************************************)
(* The pass changes nothing the program can see: what is printed, what     *)
(* other functions find in memory, and what is left there afterwards;      *)
(* where SameSource holds, that is: without it, it may (see CopyIsSafe).   *)
(***************************************************************************)
SameBehaviour ==
  pc = "done" => \A target \in fn.selected, writes \in BOOLEAN :
    SameSource(target) => Same(target, writes)

(***************************************************************************)
(* "removing the first memcpy is safe (assuming it writes <= # bytes as    *)
(* the second one)" (isPossibleSelfRead).  It is not so: the first may     *)
(* copy to another offset than the second.                                 *)
(***************************************************************************)
CopyIsSafe ==
  pc = "done" => \A target \in fn.selected, writes \in BOOLEAN :
    NoOverlap(target) => Same(target, writes)

(***************************************************************************)
(* DeadStackObjects holds, all the way up, only objects that nothing below *)
(* may read: "these are dead at the end of the function".                  *)
(***************************************************************************)
DeadAreUnread ==
  pc = "up" =>
    \A i \in Left(2) : i >= BBI => \A o \in DeadStackObjects : ~MayRead(code[i], Whole(o))

(***************************************************************************)
(* "Revisit this instruction if possible": going back comes to an end.     *)
(***************************************************************************)
Terminates == <>(pc = "done")
=============================================================================
