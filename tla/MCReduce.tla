------------------------------ MODULE MCReduce ------------------------------
(***************************************************************************)
(* main with two blocks, which calls f and the ignored h; f; h; and g,     *)
(* which calls f and is not called (its address may be taken).             *)
(***************************************************************************)
EXTENDS Reduce

CONSTANTS main, f, g, h, m1, m2, m3, callf, callh, f1, g1, h1

MCFunctions == {main, f, g, h}
MCNames == <<f, g, h, main>>
MCCalls == {m1, m2, m3, callf, callh, f1, g1, h1}
MCBlocks == [k \in MCFunctions |->
  CASE k = main -> <<<<callh, m3>>, <<m1, callf, m2>>>>
    [] k = f -> <<<<f1>>>>
    [] k = g -> <<<<g1>>>>
    [] k = h -> <<<<h1>>>>]
MCCallee == [c \in MCCalls |->
  CASE c = callf -> f [] c = callh -> h [] OTHER -> None]
JustF == {f}
JustH == {h}

MCInit ==
  /\ \E k1 \in {"direct", "buffer"}, k2 \in {"comm", "setup"}, k3 \in {"setup", "barrier", "other"},
       kf \in {"direct", "buffer", "kept", "other"}, kg \in {"comm", "kept"},
       kh \in {"direct", "other"} :
       kind = [c \in MCCalls |->
                 CASE c = m1 -> k1 [] c = m2 -> k2 [] c = m3 -> k3 [] c = f1 -> kf
                   [] c = g1 -> kg [] c = h1 -> kh [] OTHER -> "call"]
  /\ Start

MCSpec == MCInit /\ [][Next]_vars /\ WF_vars(Next)

(* f has the call of g too: a print, and a comm call.  The print goes and  *)
(* f is rewritten before the last counted call is deleted.                 *)
CommInFBlocks ==
  [k \in MCFunctions |-> IF k = f THEN <<<<f1, g1>>>> ELSE
                         IF k = g THEN <<>> ELSE MCBlocks[k]]

CommInF ==
  /\ \E k1 \in {"direct", "buffer"}, k2 \in {"comm", "setup"} :
       kind = [c \in MCCalls |->
                 CASE c = m1 -> k1 [] c = m2 -> k2 [] c = f1 -> "comm"
                   [] c \in {m3, g1, h1} -> "other" [] OTHER -> "call"]
  /\ Start

CommInFSpec == CommInF /\ [][Next]_vars /\ WF_vars(Next)
============================================================================
