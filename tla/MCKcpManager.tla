---------------------------- MODULE MCKcpManager ----------------------------
(* Small instances of KcpManager: room for one of two sessions, room for   *)
(* both, and one session that is added twice.                              *)
EXTENDS KcpManager

CONSTANTS k1, k2

Calls(n1, n2) == k1 :> n1 @@ k2 :> n2

AllSetups == {[size |-> 1, calls |-> Calls(1, 1)], [size |-> 2, calls |-> Calls(1, 1)],
              [size |-> 2, calls |-> Calls(2, 0)]}

OneKcp == {[size |-> 1, calls |-> Calls(1, 0)]}
=============================================================================
