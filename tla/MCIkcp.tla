------------------------------ MODULE MCIkcp ------------------------------
(* Small instances of Ikcp: who writes how many messages, how many         *)
(* datagrams the network holds, and what the writer sets the mtu to.       *)
EXTENDS Ikcp

TwoMessages == [p \in {A, B} |-> IF p = A THEN 2 ELSE 0]
ThreeMessages == [p \in {A, B} |-> IF p = A THEN 3 ELSE 0]

TwoToReader == [p \in {A, B} |-> IF p = A THEN 1 ELSE 2]

SameMtu == [p \in {A, B} |-> {}]
LargerMtu == [p \in {A, B} |-> IF p = A THEN {4} ELSE {}]
===========================================================================
