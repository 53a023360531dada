---------------------------- MODULE MCKcpSession ----------------------------
(* Small instances of KcpSession: who sends how many messages.             *)
EXTENDS KcpSession

ThreeMessages == [p \in {A, B} |-> IF p = A THEN 3 ELSE 0]
=============================================================================
