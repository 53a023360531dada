----------------------------- MODULE KcpChannel -----------------------------
(***************************************************************************)
(* What a pair of KCP control blocks promises to the two applications that *)
(* own them: each direction is a reliable, ordered, exactly-once channel   *)
(* of segments.  Nothing here knows of windows, acknowledgements or of the *)
(* network; Arq is shown to implement this module, and Ikcp to implement   *)
(* Arq.                                                                    *)
(***************************************************************************)
EXTENDS Integers, Sequences

CONSTANTS
    A, B,   \* the two endpoints of one conversation (same conv, ikcp.h:326)
    Data,   \* the payloads a segment may carry
    Batch   \* the sequences of segments one call of ikcp_send may queue

Peer == {A, B}
Other(p) == IF p = A THEN B ELSE A

VARIABLES
    stream,     \* [Peer -> Seq(Data)]: the segments ikcp_send accepted
    delivered   \* [Peer -> Seq(Data)]: the segments ikcp_recv returned

chanVars == <<stream, delivered>>

ChanInit ==
    /\ stream    = [p \in Peer |-> <<>>]
    /\ delivered = [p \in Peer |-> <<>>]

(* ikcp_send returns 0: every segment of the call is part of the channel.  *)
Write(p) ==
    /\ \E b \in Batch : stream' = [stream EXCEPT ![p] = @ \o b]
    /\ UNCHANGED delivered

(* ikcp_recv returns the next k > 0 segments of what the peer wrote.       *)
Read(q) ==
    LET s == stream[Other(q)]
        d == Len(delivered[q])
    IN  /\ \E k \in 1 .. (Len(s) - d) :
              delivered' = [delivered EXCEPT ![q] = SubSeq(s, 1, d + k)]
        /\ UNCHANGED stream

ChanNext == \E p \in Peer : Write(p) \/ Read(p)

ChanSpec == ChanInit /\ [][ChanNext]_chanVars
=============================================================================
