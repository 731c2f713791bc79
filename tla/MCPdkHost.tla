----------------------------- MODULE MCPdkHost -----------------------------
(* Small instances of PdkHost for TLC.                                     *)
EXTENDS PdkHostService, TLC

CONSTANTS a1, a2, w1, w2

BothApps    == {a1, a2}
OneApp      == {a1}
BothWindows == {w1, w2}

OneWindowEach == (w1 :> a1) @@ (w2 :> a2)
TwoWindows    == (w1 :> a1) @@ (w2 :> a1)

OneEach    == [a \in Apps |-> 1]
TwoThenOne == [a \in Apps |-> IF a = a1 THEN 2 ELSE 1]
=============================================================================
