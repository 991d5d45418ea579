---------------------------- MODULE MCPerformPred ----------------------------
(***************************************************************************)
(* Functions for PerformPred, each with many counts: three loops in each   *)
(* other below a branch; two loops one after the other, where the first    *)
(* may lack a preheader; two in a third; two in each other, where the      *)
(* outer one lacks its preheader; and one to which two ways lead.          *)
(***************************************************************************)
EXTENDS PerformPred

CONSTANTS a1, a2, a3

MCSymmetry == Permutations({a1, a2, a3})

MCPowers == {2^k : k \in 0 .. 17}

MCBlocks == {"e", "q", "p1", "h1", "p2", "h2", "p3", "h3", "l2", "l1", "m", "x"}

(* the blocks of a chain are dominated by those before them *)
Chain(s) == [k \in 1 .. Len(s) |-> {s[j] : j \in 1 .. k}]

DomOf(s) == [b \in Range(s) |-> Chain(s)[CHOOSE k \in DOMAIN s : s[k] = b]]

(***************************************************************************)
(* e branches to p1 or x; each loop is entered from half of the runs of    *)
(* the header around it.  f scales LLVM's frequencies, w is the guess for  *)
(* the innermost loop.                                                     *)
(***************************************************************************)
Nested(needs, countable, folded, t, f, w) ==
  [entry |-> "e", order |-> <<1, 2, 3>>,
   name |-> <<"h1", "h2", "h3">>, header |-> <<"h1", "h2", "h3">>,
   pre |-> <<"p1", "p2", "p3">>, lacks |-> {}, switches |-> {},
   countable |-> countable, folded |-> folded, needs |-> needs, trips |-> t,
   nest |-> [b \in {"e", "p1", "x"} |-> <<>>] @@ [b \in {"h1", "p2", "l1"} |-> <<1>>]
              @@ [b \in {"h2", "p3", "l2"} |-> <<2, 1>>] @@ ("h3" :> <<3, 2, 1>>),
   dom |-> DomOf(<<"e", "p1", "h1", "p2", "h2", "p3", "h3">>)
             @@ ("l2" :> {"e", "p1", "h1", "p2", "h2", "l2"})
             @@ ("l1" :> {"e", "p1", "h1", "l1"}) @@ ("x" :> {"e", "x"}),
   succ |-> ("e" :> <<"x", "p1">>) @@ ("p1" :> <<"h1">>) @@ ("h1" :> <<"p2", "l1">>)
              @@ ("p2" :> <<"h2">>) @@ ("h2" :> <<"p3", "l2">>) @@ ("p3" :> <<"h3">>)
              @@ ("h3" :> <<"h3", "l2">>) @@ ("l2" :> <<"h2", "l1">>)
              @@ ("l1" :> <<"h1", "x">>) @@ [b \in {"x", "q", "m"} |-> <<>>],
   freq |-> [b \in {"e", "x", "p2"} |-> 8 * f] @@ ("p1" :> 4 * f)
              @@ [b \in {"h1", "l1", "p3"} |-> 16 * f]
              @@ [b \in {"h2", "l2"} |-> 32 * f] @@ ("h3" :> 16 * w * f),
   runs |-> [b \in {"e", "x"} |-> 8] @@ ("p1" :> 4)
              @@ [b \in {"h1", "l1"} |-> 4 * t[1]] @@ ("p2" :> 2 * t[1])
              @@ [b \in {"h2", "l2"} |-> 2 * t[1] * t[2]] @@ ("p3" :> t[1] * t[2])
              @@ ("h3" :> t[1] * t[2] * t[3]),
   taken |-> LET n == t[1] * t[2] IN
             ("e" :> <<4, 4>>) @@ ("p1" :> <<4>>) @@ ("h1" :> <<2 * t[1], 2 * t[1]>>)
              @@ ("p2" :> <<2 * t[1]>>) @@ ("h2" :> <<n, n>>) @@ ("p3" :> <<n>>)
              @@ ("h3" :> <<n * t[3] - n, n>>) @@ ("l2" :> <<2 * n - 2 * t[1], 2 * t[1]>>)
              @@ ("l1" :> <<4 * t[1] - 4, 4>>) @@ ("x" :> <<>>)]

(* LLVM's guess, where it is the only count *)
Guessed(t, countable, w) ==
  [l \in 1 .. 3 |-> IF l \in countable THEN t[l] ELSE IF l = 3 THEN w ELSE 4]

Nests ==
  {Nested(<<n1, n2, n3>>, c, fold, Guessed(t, c, 4), 1, 4) :
     n1 \in {{}, {"p1"}}, n2 \in {{}, {"h1"}, {"p1", "p2"}},
     n3 \in {{}, {"h1"}, {"h2"}, {"p1", "p3"}}, fold \in {{}, {2}},
     c \in {{1, 2, 3}, {1, 3}, {3}}, t \in {<<3, 2, 4>>}}
  \cup
  {Nested(<<{}, n2, n3>>, c, {}, Guessed(t, c, w), f, w) :
     n2 \in {{}, {"h1"}}, n3 \in {{"p3"}, {"h1"}}, c \in {{1, 2}, {1, 2, 3}},
     t \in {<<1, 1, 1>>, <<7, 6, 5>>}, f \in {1, 4, 5}, w \in {2, 12}}

(* e, then a loop, then m and another loop *)
Siblings(name, order, lacks, countable, folded, needs, t) ==
  [entry |-> "e", order |-> order,
   name |-> name, header |-> <<"h1", "h2">>, switches |-> {},
   pre |-> IF 1 \in lacks THEN <<"q", "m">> ELSE <<"e", "m">>, lacks |-> lacks,
   countable |-> countable, folded |-> folded, needs |-> needs, trips |-> t,
   nest |-> [b \in {"e", "m", "x"} \cup (IF 1 \in lacks THEN {"q"} ELSE {}) |-> <<>>]
              @@ ("h1" :> <<1>>) @@ ("h2" :> <<2>>),
   dom |-> DomOf(<<"e">> \o (IF 1 \in lacks THEN <<"q">> ELSE <<>>)
                    \o <<"h1", "m", "h2", "x">>),
   succ |-> ("e" :> IF 1 \in lacks THEN <<"q">> ELSE <<"h1">>) @@ ("q" :> <<"h1">>)
              @@ ("h1" :> <<"h1", "m">>) @@ ("m" :> <<"h2">>)
              @@ ("h2" :> <<"h2", "x">>)
              @@ [b \in {"x", "p1", "p2", "p3", "h3", "l1", "l2"} |-> <<>>],
   freq |-> [b \in {"e", "q", "m", "x"} |-> 8] @@ [b \in {"h1", "h2"} |-> 32],
   runs |-> [b \in {"e", "q", "m", "x"} |-> 2] @@ ("h1" :> 2 * t[1])
              @@ ("h2" :> 2 * t[2]),
   taken |-> [b \in {"e", "q", "m"} |-> <<2>>] @@ ("h1" :> <<2 * t[1] - 2, 2>>)
              @@ ("h2" :> <<2 * t[2] - 2, 2>>) @@ ("x" :> <<>>)]

Pairs ==
  {Siblings(name, order, lacks, {1, 2}, fold, <<{}, n2>>, <<3, 5>>) :
     name \in {<<"h1", "h2">>, <<"", "">>}, order \in {<<1, 2>>, <<2, 1>>},
     lacks \in {{}, {1}}, fold \in {{}, {1}}, n2 \in {{}, {"h1"}, {"m"}}}
  \cup {Siblings(<<"h1", "h2">>, order, {}, {1}, {}, <<{}, {}>>, <<3, 4>>) :
          order \in {<<1, 2>>, <<2, 1>>}}

(***************************************************************************)
(* Two loops one after the other in a third; the count of the second, of 4 *)
(* trips, may need a value of the first one's header.                      *)
(***************************************************************************)
After(n3, t) ==
  [entry |-> "e", order |-> <<1, 2, 3>>,
   name |-> <<"h1", "h2", "h3">>, header |-> <<"h1", "h2", "h3">>,
   pre |-> <<"p1", "p2", "p3">>, lacks |-> {}, switches |-> {},
   countable |-> {1, 2, 3}, folded |-> {}, needs |-> <<{}, {}, n3>>, trips |-> <<t[1], t[2], 4>>,
   nest |-> [b \in {"e", "p1", "x"} |-> <<>>] @@ [b \in {"h1", "p2", "p3", "l1"} |-> <<1>>]
              @@ ("h2" :> <<2, 1>>) @@ ("h3" :> <<3, 1>>),
   dom |-> DomOf(<<"e", "p1", "h1", "p2", "h2", "p3", "h3", "l1", "x">>),
   succ |-> ("e" :> <<"p1">>) @@ ("p1" :> <<"h1">>) @@ ("h1" :> <<"p2">>)
              @@ ("p2" :> <<"h2">>) @@ ("h2" :> <<"h2", "p3">>) @@ ("p3" :> <<"h3">>)
              @@ ("h3" :> <<"h3", "l1">>) @@ ("l1" :> <<"h1", "x">>)
              @@ [b \in {"x", "q", "m", "l2"} |-> <<>>],
   freq |-> [b \in {"e", "p1", "x"} |-> 8] @@ [b \in {"h1", "p2", "p3", "l1"} |-> 32]
              @@ [b \in {"h2", "h3"} |-> 128],
   runs |-> [b \in {"e", "p1", "x"} |-> 1] @@ [b \in {"h1", "p2", "p3", "l1"} |-> t[1]]
              @@ ("h2" :> t[1] * t[2]) @@ ("h3" :> 4 * t[1]),
   taken |-> [b \in {"e", "p1"} |-> <<1>>] @@ [b \in {"h1", "p2", "p3"} |-> <<t[1]>>]
              @@ ("h2" :> <<t[1] * t[2] - t[1], t[1]>>) @@ ("h3" :> <<3 * t[1], t[1]>>)
              @@ ("l1" :> <<t[1] - 1, 1>>) @@ ("x" :> <<>>)]

(* a loop in another, which lacks its preheader and is entered from m *)
Lacking(n2) ==
  [entry |-> "e", order |-> <<1, 2>>,
   name |-> <<"h1", "h2">>, header |-> <<"h1", "h2">>,
   pre |-> <<"q", "p2">>, lacks |-> {1}, switches |-> {},
   countable |-> {1, 2}, folded |-> {}, needs |-> <<{}, n2>>, trips |-> <<3, 4>>,
   nest |-> [b \in {"e", "m", "q", "x"} |-> <<>>] @@ [b \in {"h1", "p2", "l1"} |-> <<1>>]
              @@ ("h2" :> <<2, 1>>),
   dom |-> DomOf(<<"e", "m", "q", "h1", "p2", "h2", "l1", "x">>),
   succ |-> ("e" :> <<"m">>) @@ ("m" :> <<"q">>) @@ ("q" :> <<"h1">>) @@ ("h1" :> <<"p2">>)
              @@ ("p2" :> <<"h2">>) @@ ("h2" :> <<"h2", "l1">>) @@ ("l1" :> <<"h1", "x">>)
              @@ [b \in {"x", "p1", "l2", "h3", "p3"} |-> <<>>],
   freq |-> [b \in {"e", "m", "q", "x"} |-> 8] @@ [b \in {"h1", "p2", "l1"} |-> 32]
              @@ ("h2" :> 128),
   runs |-> [b \in {"e", "m", "q", "x"} |-> 1] @@ [b \in {"h1", "p2", "l1"} |-> 3]
              @@ ("h2" :> 12),
   taken |-> [b \in {"e", "m", "q"} |-> <<1>>] @@ [b \in {"h1", "p2"} |-> <<3>>]
              @@ ("h2" :> <<9, 3>>) @@ ("l1" :> <<2, 1>>) @@ ("x" :> <<>>)]

(***************************************************************************)
(* A loop that is entered from e and from m: the branch of e alone decides *)
(* nothing.                                                                *)
(***************************************************************************)
Around(first, second, n1) ==
  [entry |-> "e", order |-> <<1>>, name |-> <<"h1">>, header |-> <<"h1">>,
   pre |-> <<"p1">>, lacks |-> {}, switches |-> {},
   countable |-> {1}, folded |-> {}, needs |-> <<n1>>, trips |-> <<3>>,
   nest |-> [b \in {"e", "m", "p1", "x"} |-> <<>>] @@ ("h1" :> <<1>>),
   dom |-> DomOf(<<"e", "p1", "h1", "x">>) @@ ("m" :> {"e", "m"}),
   succ |-> ("e" :> <<first, second>>) @@ ("m" :> <<"p1">>) @@ ("p1" :> <<"h1">>)
              @@ ("h1" :> <<"h1", "x">>)
              @@ [b \in {"x", "q", "p2", "p3", "h2", "h3", "l1", "l2"} |-> <<>>],
   freq |-> [b \in {"e", "p1", "x"} |-> 8] @@ ("m" :> 4) @@ ("h1" :> 32),
   runs |-> [b \in {"e", "p1", "x"} |-> 2] @@ ("m" :> 1) @@ ("h1" :> 6),
   taken |-> ("e" :> <<1, 1>>) @@ ("m" :> <<1>>) @@ ("p1" :> <<2>>)
               @@ ("h1" :> <<4, 2>>) @@ ("x" :> <<>>)]

MCPrograms ==
  Nests \cup Pairs
  \cup {After(n3, t) : n3 \in {{}, {"h1"}, {"h2"}}, t \in {<<3, 2>>, <<3, 4>>}}
  \cup {Lacking(n2) : n2 \in {{}, {"m"}, {"h1"}}}
  \cup {Around("p1", "m", {}), Around("m", "p1", {}), Around("p1", "m", {"p1"})}

(* what runs a block leaves it, but for the last one, and has come to it *)
Flows(p) ==
  LET B == DOMAIN p.nest
      edges == {<<b, i>> \in B \X (1 .. 2) : i \in DOMAIN p.succ[b]}
      taken == [e \in edges |-> p.taken[e[1]][e[2]]]
      Flow(E) == FoldFunctionOnSet(LAMBDA x, y : x + y, 0, taken, E)
  IN \A b \in B :
       /\ p.succ[b] # <<>> => p.runs[b] = Flow({e \in edges : e[1] = b})
       /\ b # p.entry => p.runs[b] = Flow({e \in edges : p.succ[e[1]][e[2]] = b})

ASSUME FlowsAssumption == \A p \in MCPrograms : Flows(p)

(* what the types are proved from holds of each of these functions *)
ASSUME SizedAssumption == \A p \in MCPrograms : Sized(p)

MCLoops == 1 .. 3

=============================================================================
