------------------------------ MODULE MainRun ------------------------------
(***************************************************************************)
(* A run of the program beside the CGFilter that has numbered it: what the *)
(* filter's order is about.  The program is no part of the repository; it  *)
(* is modelled as CGFilter looks at it, as straight-line functions, and    *)
(* from main.                                                              *)
(*                                                                         *)
(* The order is the one in which instructions are executed for the first   *)
(* time, so a call of a function the run has been in before, or is in, is  *)
(* stepped over: it executes nothing that is new.                          *)
(***************************************************************************)
EXTENDS CGFilter

VARIABLES
  stack,    \* the instruction that each active function executes next
  entered,  \* the functions the run has come to
  ran       \* its instructions, in the order in which they were first run

runVars == <<stack, entered, ran>>

Now == Last(stack)

LastInst(f) == Inst(f, 2 * Len(calls[f]) + 1)

RunInit ==
  /\ root # External
  /\ stack = <<Inst(root, 1)>>
  /\ entered = {root}
  /\ ran = <<>>

(* the first call of a function *)
Enter(k) ==
  LET callee == calls[Now.f][k] IN
  /\ Now = CallInst(Now.f, k)
  /\ callee \in Functions \ entered
  /\ entered' = entered \cup {callee}
  /\ stack' = Front(stack) \o <<Inst(Now.f, Now.at + 1), Inst(callee, 1)>>

(* any other instruction before the end of its function *)
Pass ==
  /\ Now # LastInst(Now.f)
  /\ \A k \in 1 .. Len(calls[Now.f]) :
       Now = CallInst(Now.f, k) => calls[Now.f][k] \notin Functions \ entered
  /\ stack' = Append(Front(stack), Inst(Now.f, Now.at + 1))
  /\ UNCHANGED entered

Return ==
  /\ Now = LastInst(Now.f)
  /\ stack' = Front(stack)
  /\ UNCHANGED entered

(* the program is compiled before it runs *)
Execute ==
  /\ pc = "ready" /\ stack # <<>>
  /\ ran' = Append(ran, Now)
  /\ (\E k \in 1 .. Len(calls[Now.f]) : Enter(k)) \/ Pass \/ Return
  /\ UNCHANGED vars

RunNext == Execute \/ (Next /\ UNCHANGED runVars)

RunSpec == Init /\ RunInit /\ [][RunNext]_<<vars, runVars>>

----------------------------------------------------------------------------
(***************************************************************************)
(* The order the comment on CGFilter promises: asked about an instruction  *)
(* a run of main comes to, the filter refuses it if and only if it first   *)
(* runs no later than the threshold.                                       *)
(***************************************************************************)
OrderIsFirstRun ==
  threshold_inst # None =>
    \A m, n \in DOMAIN ran : ran[m] = threshold_inst => (Refuses(ran[n]) <=> n <= m)

(***************************************************************************)
(* The functions that have numbers are those a run of main comes to: none  *)
(* else during the run, and all of them by its end.                        *)
(***************************************************************************)
NumberedAreReached ==
  pc = "ready" => entered \subseteq visited /\ (stack = <<>> => entered = visited)
=============================================================================
