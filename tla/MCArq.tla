------------------------------ MODULE MCArq ------------------------------
(* A small instance of Arq: A writes four segments of two payloads, two    *)
(* more than fit the window of B, which sends acknowledgements and probes. *)
EXTENDS Arq

CONSTANTS d1, d2

MCData  == {d1, d2}
MCBatch == {<<d1>>, <<d2, d1>>}

MCStream == [p \in {A, B} |-> IF p = A THEN 4 ELSE 0]
==========================================================================
