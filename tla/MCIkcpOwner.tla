---------------------------- MODULE MCIkcpOwner ----------------------------
(* A small instance of IkcpOwner: A writes six messages of one segment to  *)
(* B, whose rcv_queue holds two.  The run begins when three were           *)
(* acknowledged, in one of two states: all three were received and A has   *)
(* nothing to send yet; or the third still waits in rcv_queue, A has the   *)
(* other three in snd_queue, and the last acknowledgement to arrive was an *)
(* old one, sent when rcv_queue was empty: rmt_wnd is too large by one,    *)
(* and the window of B can close.                                          *)
EXTENDS IkcpOwner

SixMessages == [p \in {A, B} |-> IF p = A THEN 6 ELSE 0]
OneEachWay == [p \in {A, B} |-> 1]
SameMtu == [p \in {A, B} |-> {}]

Message(n) == <<<<n, 1>>>>
Segment(n) == [frg |-> 0, data |-> Message(n)]

(* The first count messages were written and the first read were received. *)
Conversation(count, read) ==
    LET writer == [ikcp_create(FALSE) EXCEPT
                     !.snd_una = 3, !.snd_nxt = 3, !.dead = TRUE,
                     !.cwnd = 2, !.incr = 2 * (Mtu - IKCP_OVERHEAD),
                     !.snd_queue = [n \in 1 .. count - 3 |-> Segment(n + 3)]]
        reader == [ikcp_create(FALSE) EXCEPT
                     !.rcv_nxt = 3, !.cwnd = 1, !.incr = Mtu - IKCP_OVERHEAD,
                     !.rcv_queue = [n \in 1 .. 3 - read |-> Segment(n + read)]]
    IN  /\ kcb = (A :> writer @@ B :> reader)
        /\ msgs = (A :> [n \in 1 .. count |-> Message(n)] @@ B :> <<>>)
        /\ got = (A :> <<>> @@ B :> [n \in 1 .. read |-> Message(n)])
        /\ net = [p \in Peer |-> {}] /\ reading = {}

MidConversation == Conversation(3, 3) \/ Conversation(6, 2)

MidSpec == MidConversation /\ [][OwnerNext]_ownerVars /\ Fairness
============================================================================
