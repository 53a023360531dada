-------------------------------- MODULE Arq --------------------------------
(***************************************************************************)
(* The selective-repeat protocol inside ikcp.c, one segment at a time.     *)
(*                                                                         *)
(* Two control blocks exchange segments over a network that loses,         *)
(* duplicates, delays and reorders them.  Lists that ikcp.c keeps sorted   *)
(* by sn are sets (snd_buf) or functions of sn (rcv_buf) here; that the    *)
(* lists are sorted is checked on the lists themselves, in module Ikcp,    *)
(* which refines this one.  What only decides WHEN a segment is sent       *)
(* (resendts, fastack, cwnd, the probe timer) is a nondeterministic        *)
(* choice: the invariants below hold whatever those choices are.           *)
(*                                                                         *)
(* Sequence numbers are naturals.  ikcp.c compares 32-bit ones through     *)
(* _itimediff, which is the difference of the naturals as long as the two  *)
(* numbers compared are less than 2^31 apart.                              *)
(***************************************************************************)
EXTENDS Integers, Sequences, FiniteSets

CONSTANTS
    A, B,       \* the endpoints
    Data,       \* payloads
    Batch,      \* what one ikcp_send may queue
    NoData,     \* the payload of ACK, WASK and WINS segments
    SndWnd,     \* kcp->snd_wnd
    RcvWnd,     \* kcp->rcv_wnd
    IKCP_WND_RCV, \* what a peer is assumed to advertise before it is heard
    MaxStream,  \* bound: segments written per endpoint
    MaxNet      \* bound: distinct segments in flight when a flush ends

ASSUME PeersDiffer == A # B
ASSUME BatchesOfData == Batch \subseteq Seq(Data)
ASSUME WindowsPositive ==
    /\ SndWnd \in Nat \ {0}
    /\ RcvWnd \in Nat \ {0}
    /\ IKCP_WND_RCV \in Nat \ {0}
ASSUME StreamBound == MaxStream \in [{A, B} -> Nat]

Peer == {A, B}
Other(p) == IF p = A THEN B ELSE A
Smaller(m, n) == IF m <= n THEN m ELSE n

VARIABLES
    stream,     \* every segment ikcp_send queued; the first snd_nxt have left
                \* snd_queue for snd_buf, the rest is snd_queue
    snd_una,    \* kcp->snd_una: the oldest sn not acknowledged
    snd_nxt,    \* kcp->snd_nxt: the next sn to be given out
    snd_buf,    \* the sns in kcp->snd_buf
    rmt_wnd,    \* kcp->rmt_wnd: the window the peer last advertised
    rcv_nxt,    \* kcp->rcv_nxt: the next sn to be moved to rcv_queue
    rcv_buf,    \* kcp->rcv_buf: the payload of each sn held out of order
    rcv_queue,  \* kcp->rcv_queue
    acklist,    \* the sns in kcp->acklist
    delivered,  \* what ikcp_recv has returned so far
    net         \* the segments in flight

sendVars == <<stream, snd_una, snd_nxt, snd_buf, rmt_wnd>>
recvVars == <<rcv_nxt, rcv_buf, rcv_queue, acklist, delivered>>
vars == <<stream, snd_una, snd_nxt, snd_buf, rmt_wnd,
          rcv_nxt, rcv_buf, rcv_queue, acklist, delivered, net>>

Cmd == {"PUSH", "ACK", "WASK", "WINS"}
Message == [cmd : Cmd, src : Peer, sn : Nat, una : Nat, wnd : Nat,
            data : Data \cup {NoData}]

-----------------------------------------------------------------------------
(* ikcp_create followed by ikcp_wndsize, on both sides.                    *)
Init ==
    /\ stream    = [p \in Peer |-> <<>>]
    /\ snd_una   = [p \in Peer |-> 0]
    /\ snd_nxt   = [p \in Peer |-> 0]
    /\ snd_buf   = [p \in Peer |-> {}]
    /\ rmt_wnd   = [p \in Peer |-> IKCP_WND_RCV]
    /\ rcv_nxt   = [p \in Peer |-> 0]
    /\ rcv_buf   = [p \in Peer |-> <<>>]
    /\ rcv_queue = [p \in Peer |-> <<>>]
    /\ acklist   = [p \in Peer |-> {}]
    /\ delivered = [p \in Peer |-> <<>>]
    /\ net       = {}

-----------------------------------------------------------------------------
(* ikcp_wnd_unused, as the 16-bit wnd field carries it (ikcp_encode_seg).  *)
Unused(q) == (RcvWnd - Len(rcv_queue[q])) % 65536

(* The receiver already has segment sn.                                    *)
Held(q, sn) == sn < rcv_nxt[q] \/ sn \in DOMAIN rcv_buf[q]

Segment(p, cmd, sn, data) ==
    [cmd |-> cmd, src |-> p, sn |-> sn, una |-> rcv_nxt[p],
     wnd |-> Unused(p), data |-> data]

(* The sns of the n segments a flush takes from snd_queue.                 *)
Fresh(p, n) == snd_nxt[p] .. (snd_nxt[p] + n - 1)

(* ikcp_flush may move n segments to snd_buf: n is bounded by the windows  *)
(* and by the queue; the congestion window can only make it smaller.       *)
MayTake(p, n) ==
    /\ snd_nxt[p] + n <= Len(stream[p])
    /\ n > 0 => snd_nxt[p] + n <= snd_una[p] + Smaller(SndWnd, rmt_wnd[p])

(* The loop that ends ikcp_recv and ikcp_parse_data: with buf in rcv_buf   *)
(* and len segments in rcv_queue, the n next segments move; n is as large  *)
(* as the segments at hand and the room in rcv_queue allow.                *)
Movable(nxt, buf, len, n) ==
    /\ len + n <= RcvWnd
    /\ \A sn \in nxt .. (nxt + n - 1) : sn \in DOMAIN buf
    /\ len + n = RcvWnd \/ nxt + n \notin DOMAIN buf

(* Mutant: the loop takes the head of rcv_buf without looking at its sn.   *)
MoveToQueueAnyHead(q, buf, queue, n) ==
    /\ n = (IF buf = <<>> \/ Len(queue) = RcvWnd THEN 0 ELSE 1)
    /\ rcv_nxt' = [rcv_nxt EXCEPT ![q] = @ + n]
    /\ \E head \in DOMAIN buf \cup {0} :
         /\ n = 1 => head \in DOMAIN buf /\ \A sn \in DOMAIN buf : head <= sn
         /\ rcv_buf' = [rcv_buf EXCEPT ![q] =
                          [sn \in DOMAIN buf \ {head} |-> buf[sn]]]
         /\ rcv_queue' = [rcv_queue EXCEPT ![q] =
                            IF n = 0 THEN queue ELSE Append(queue, buf[head])]

MoveToQueue(q, buf, queue, n) ==
    /\ Movable(rcv_nxt[q], buf, Len(queue), n)
    /\ rcv_nxt' = [rcv_nxt EXCEPT ![q] = @ + n]
    /\ rcv_buf' = [rcv_buf EXCEPT ![q] =
                     [sn \in DOMAIN buf \ (rcv_nxt[q] .. (rcv_nxt[q] + n - 1))
                        |-> buf[sn]]]
    /\ rcv_queue' = [rcv_queue EXCEPT ![q] =
                       queue \o [i \in 1 .. n |-> buf[rcv_nxt[q] + i - 1]]]

-----------------------------------------------------------------------------
(* ikcp_send: the segments of one call go to the end of snd_queue.         *)
Send(p) ==
    /\ \E b \in Batch :
         /\ Len(stream[p]) + Len(b) <= MaxStream[p]
         /\ stream' = [stream EXCEPT ![p] = @ \o b]
    /\ UNCHANGED <<snd_una, snd_nxt, snd_buf, rmt_wnd, recvVars, net>>

(* ikcp_flush: every pending acknowledgement, the probes that are due,     *)
(* n fresh segments and any set `again' of segments to retransmit leave,   *)
(* all with the rcv_nxt and the free window of this instant.               *)
Flush(p) ==
    \E n \in 0 .. (Len(stream[p]) - snd_nxt[p]),
       again \in SUBSET snd_buf[p], probes \in SUBSET {"WASK", "WINS"} :
      /\ MayTake(p, n)
      /\ snd_nxt' = [snd_nxt EXCEPT ![p] = @ + n]
      /\ snd_buf' = [snd_buf EXCEPT ![p] = @ \cup Fresh(p, n)]
      /\ acklist' = [acklist EXCEPT ![p] = {}]
      /\ net' = net
           \cup {Segment(p, "ACK", sn, NoData) : sn \in acklist[p]}
           \cup {Segment(p, cmd, 0, NoData) : cmd \in probes}
           \cup {Segment(p, "PUSH", sn, stream[p][sn + 1]) :
                   sn \in again \cup Fresh(p, n)}
      /\ Cardinality(net') <= MaxNet
      /\ UNCHANGED <<stream, snd_una, rmt_wnd,
                     rcv_nxt, rcv_buf, rcv_queue, delivered>>

(* Mutant: ikcp_parse_una also drops the segment una itself names.         *)
UnackedOffByOne(q, m) ==
    {sn \in snd_buf[q] : sn > m.una /\ ~(m.cmd = "ACK" /\ sn = m.sn)}

(* ikcp_parse_una, ikcp_parse_ack and ikcp_shrink_buf on segment m.  The   *)
(* range test that opens ikcp_parse_ack needs no counterpart: a sn outside *)
(* snd_una .. snd_nxt - 1 is in no snd_buf.                                *)
Unacked(q, m) ==
    {sn \in snd_buf[q] : sn >= m.una /\ ~(m.cmd = "ACK" /\ sn = m.sn)}

(* Mutant: snd_una is taken from the segment instead of from snd_buf.      *)
InputAckTakesUna(q, m) ==
    /\ rmt_wnd' = [rmt_wnd EXCEPT ![q] = m.wnd]
    /\ snd_buf' = [snd_buf EXCEPT ![q] = Unacked(q, m)]
    /\ snd_una' = [snd_una EXCEPT ![q] = m.una]

InputAck(q, m) ==
    /\ rmt_wnd' = [rmt_wnd EXCEPT ![q] = m.wnd]
    /\ snd_buf' = [snd_buf EXCEPT ![q] = Unacked(q, m)]
    /\ \E u \in Unacked(q, m) \cup {snd_nxt[q]} :
         /\ \A sn \in Unacked(q, m) : u <= sn
         /\ snd_una' = [snd_una EXCEPT ![q] = u]

(* The PUSH branch of ikcp_input: the acknowledgement is queued first, for *)
(* old segments too, then ikcp_parse_data keeps the segment if it is new.  *)
InWindow(q, m) == m.cmd = "PUSH" /\ m.sn < rcv_nxt[q] + RcvWnd

Insert(buf, sn, data) ==
    IF sn \in DOMAIN buf
    THEN buf
    ELSE [s \in DOMAIN buf \cup {sn} |-> IF s = sn THEN data ELSE buf[s]]

(* Mutant: a segment for which rcv_queue has no room is acknowledged and   *)
(* dropped.                                                                *)
InputPushWhenRoom(q, m) ==
    /\ acklist' = [acklist EXCEPT ![q] =
                     IF InWindow(q, m) THEN @ \cup {m.sn} ELSE @]
    /\ IF InWindow(q, m) /\ m.sn >= rcv_nxt[q] /\ Len(rcv_queue[q]) < RcvWnd
       THEN \E n \in 0 .. RcvWnd :
              MoveToQueue(q, Insert(rcv_buf[q], m.sn, m.data), rcv_queue[q], n)
       ELSE UNCHANGED <<rcv_nxt, rcv_buf, rcv_queue>>

InputPush(q, m) ==
    \/ /\ InWindow(q, m)
       /\ acklist' = [acklist EXCEPT ![q] = @ \cup {m.sn}]
       /\ \/ /\ m.sn >= rcv_nxt[q]
             /\ \E n \in 0 .. RcvWnd :
                  MoveToQueue(q, Insert(rcv_buf[q], m.sn, m.data),
                              rcv_queue[q], n)
          \/ /\ m.sn < rcv_nxt[q]
             /\ UNCHANGED <<rcv_nxt, rcv_buf, rcv_queue>>
    \/ /\ ~InWindow(q, m)
       /\ UNCHANGED <<rcv_nxt, rcv_buf, rcv_queue, acklist>>

(* One turn of the loop of ikcp_input.  The segment may stay in the        *)
(* network, which then delivers it again later.                            *)
Input(q, m) ==
    /\ m.src = Other(q)
    /\ InputAck(q, m)
    /\ InputPush(q, m)
    /\ net' \in {net, net \ {m}}
    /\ UNCHANGED <<stream, snd_nxt, delivered>>

(* Mutants: ikcp_recv without the move loop; and one that leaves what it   *)
(* returns in rcv_queue, as for a negative len.                            *)
RecvMovesNothing(q) ==
    \E k \in 1 .. Len(rcv_queue[q]) :
      /\ delivered' = [delivered EXCEPT ![q] = @ \o SubSeq(rcv_queue[q], 1, k)]
      /\ rcv_queue' = [rcv_queue EXCEPT ![q] =
                         SubSeq(rcv_queue[q], k + 1, Len(rcv_queue[q]))]
      /\ UNCHANGED <<sendVars, rcv_nxt, rcv_buf, acklist, net>>

RecvPeeks(q) ==
    \E k \in 1 .. Len(rcv_queue[q]) :
      /\ Len(delivered[q]) < 4
      /\ delivered' = [delivered EXCEPT ![q] = @ \o SubSeq(rcv_queue[q], 1, k)]
      /\ UNCHANGED <<sendVars, rcv_nxt, rcv_buf, rcv_queue, acklist, net>>

(* ikcp_recv: k segments (the fragments of one message) leave rcv_queue,   *)
(* and the room they leave is filled from rcv_buf.                         *)
Recv(q) ==
    \E k \in 1 .. Len(rcv_queue[q]), n \in 0 .. RcvWnd :
      /\ delivered' = [delivered EXCEPT ![q] = @ \o SubSeq(rcv_queue[q], 1, k)]
      /\ MoveToQueue(q, rcv_buf[q],
                     SubSeq(rcv_queue[q], k + 1, Len(rcv_queue[q])), n)
      /\ UNCHANGED <<sendVars, acklist, net>>

(* The network loses segments.                                             *)
Lose ==
    /\ net' \in SUBSET net
    /\ UNCHANGED <<sendVars, recvVars>>

Next ==
    \/ \E p \in Peer : Send(p) \/ Flush(p) \/ Recv(p)
    \/ \E q \in Peer : \E m \in net : Input(q, m)
    \/ Lose

Spec == Init /\ [][Next]_vars

-----------------------------------------------------------------------------
(* Properties.                                                             *)

(* Every variable has its type, and the sn, una and wnd of a segment on    *)
(* the wire are never negative (they are unsigned in ikcp.h:272-281).      *)
TypeOK ==
    /\ stream    \in [Peer -> Seq(Data)]
    /\ snd_una   \in [Peer -> Nat]
    /\ snd_nxt   \in [Peer -> Nat]
    /\ snd_buf   \in [Peer -> SUBSET Nat]
    /\ rmt_wnd   \in [Peer -> Nat]
    /\ rcv_nxt   \in [Peer -> Nat]
    /\ \A q \in Peer : /\ DOMAIN rcv_buf[q] \subseteq Nat
                       /\ \A sn \in DOMAIN rcv_buf[q] : rcv_buf[q][sn] \in Data
    /\ DOMAIN rcv_buf = Peer
    /\ rcv_queue \in [Peer -> Seq(Data)]
    /\ acklist   \in [Peer -> SUBSET Nat]
    /\ delivered \in [Peer -> Seq(Data)]
    /\ net       \subseteq Message

(* No segment that was given a sn disappears: until the peer holds it, it  *)
(* stays in snd_buf, whatever stale or reordered una and ACK arrive.  This *)
(* is what ikcp_parse_una and ikcp_parse_ack could break together with the *)
(* order of ikcp_ack_push and ikcp_parse_data in ikcp_input.               *)
NothingLost ==
    \A p \in Peer : \A sn \in 0 .. (snd_nxt[p] - 1) :
        sn \in snd_buf[p] \/ Held(Other(p), sn)

(* An acknowledgement, waiting in acklist or in flight, is only ever of a  *)
(* segment that the one who acknowledges holds; and no una in flight is    *)
(* ahead of its sender's rcv_nxt (ikcp_input pushes the ack before it      *)
(* stores the segment, so the two must not be separated).                  *)
AcksAreTrue ==
    /\ \A q \in Peer : \A sn \in acklist[q] : Held(q, sn)
    /\ \A m \in net : /\ m.una <= rcv_nxt[m.src]
                      /\ m.cmd = "ACK" => Held(m.src, m.sn)

(* What ikcp_recv returned, followed by rcv_queue, is exactly the first    *)
(* rcv_nxt segments the peer sent: nothing missing, repeated or reordered. *)
InOrder ==
    \A q \in Peer :
        /\ rcv_nxt[q] <= snd_nxt[Other(q)]
        /\ delivered[q] \o rcv_queue[q] = SubSeq(stream[Other(q)], 1, rcv_nxt[q])

(* ikcp_parse_data keeps the receiver within rcv_wnd: rcv_queue never has  *)
(* more than rcv_wnd segments and rcv_buf only sns inside the window that  *)
(* starts at rcv_nxt, each of them really sent.                            *)
ReceiverBound ==
    \A q \in Peer :
        /\ Len(rcv_queue[q]) <= RcvWnd
        /\ \A sn \in DOMAIN rcv_buf[q] :
             /\ rcv_nxt[q] <= sn /\ sn < rcv_nxt[q] + RcvWnd
             /\ sn < snd_nxt[Other(q)]

(* The sender never has more than snd_wnd sns outstanding, although the    *)
(* window rmt_wnd it obeys comes from segments that may be stale.          *)
SenderWindow ==
    \A p \in Peer :
        /\ snd_una[p] <= snd_nxt[p] /\ snd_nxt[p] <= snd_una[p] + SndWnd
        /\ snd_nxt[p] <= Len(stream[p])
        /\ \A sn \in snd_buf[p] : snd_una[p] <= sn /\ sn < snd_nxt[p]

(* A segment that is next in line waits in rcv_buf only while rcv_queue is *)
(* full: both places that make room or fill the gap run the move loop.     *)
NotStranded ==
    \A q \in Peer : rcv_nxt[q] \in DOMAIN rcv_buf[q] =>
                        Len(rcv_queue[q]) = RcvWnd

(* Selective acks can take snd_una past the peer's rcv_nxt, but only while *)
(* the peer's rcv_queue is full; otherwise everything before snd_una has   *)
(* reached rcv_queue.                                                      *)
UnaAheadOnlyWhenFull ==
    \A p \in Peer : \/ snd_una[p] <= rcv_nxt[Other(p)]
                    \/ Len(rcv_queue[Other(p)]) = RcvWnd

(* snd_una never goes back: ikcp_shrink_buf assigns it the first sn of     *)
(* snd_buf even when the segment that was parsed is an old one.            *)
UnaNeverGoesBack == [][\A p \in Peer : snd_una'[p] >= snd_una[p]]_vars

(* The payloads agree with what was written: in flight, in rcv_buf, in     *)
(* rcv_queue and in what ikcp_recv returned (stated element by element,    *)
(* which is the form a proof by steps can use).                            *)
ContentsTrue ==
    /\ \A m \in net : m.cmd = "PUSH" =>
         /\ m.sn < snd_nxt[m.src]
         /\ m.data = stream[m.src][m.sn + 1]
    /\ \A q \in Peer :
         /\ \A sn \in DOMAIN rcv_buf[q] :
              rcv_buf[q][sn] = stream[Other(q)][sn + 1]
         /\ rcv_nxt[q] = Len(delivered[q]) + Len(rcv_queue[q])
         /\ rcv_nxt[q] <= snd_nxt[Other(q)]
         /\ \A i \in 1 .. Len(delivered[q]) :
              delivered[q][i] = stream[Other(q)][i]
         /\ \A i \in 1 .. Len(rcv_queue[q]) :
              rcv_queue[q][i] = stream[Other(q)][Len(delivered[q]) + i]

(* The inductive invariant: what each step of the protocol relies on.      *)
IInv ==
    /\ TypeOK
    /\ SenderWindow
    /\ ReceiverBound
    /\ NotStranded
    /\ NothingLost
    /\ AcksAreTrue
    /\ ContentsTrue

(* Two control blocks and a network that loses, repeats and reorders are a *)
(* reliable ordered channel in each direction.                             *)
Chan == INSTANCE KcpChannel
ChanSpec == Chan!ChanSpec
=============================================================================
