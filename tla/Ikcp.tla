-------------------------------- MODULE Ikcp --------------------------------
(***************************************************************************)
(* The control block of ikcp.c with its lists, messages and datagrams.     *)
(*                                                                         *)
(* Each function of ikcp.c is an operator of the same name from control    *)
(* block to control block; an action is one call the owner makes           *)
(* (ikcp_send, ikcp_input, ikcp_recv, ikcp_update when a flush is due).    *)
(* Timers are nondeterministic here: a flush is told which resendts have   *)
(* passed and whether ts_probe has (module IkcpClock has the clock).       *)
(* Module Arq is the protocol this one implements (ArqSpec).               *)
(*                                                                         *)
(* A byte is <<m, i>>, the i-th byte of the m-th message written, so that  *)
(* a lost, repeated or displaced byte shows.  Counters are exact up to the *)
(* comparison they are used in: fastack stops at FastResend and xmit at    *)
(* the larger of FastLimit + 1 and DeadLink.                               *)
(***************************************************************************)
EXTENDS Integers, Sequences, FiniteSets, SequencesExt, FiniteSetsExt

CONSTANTS
    A, B,           \* the endpoints
    NoData,         \* the payload of ACK, WASK and WINS segments
    MsgLens,        \* the lengths ikcp_send is called with
    MaxMsgs,        \* bound: messages written per endpoint
    Mtu,            \* kcp->mtu when the conversation starts
    NewMtus,        \* what each endpoint may call ikcp_setmtu with later
    SndWnd, RcvWnd, \* kcp->snd_wnd, kcp->rcv_wnd
    IKCP_WND_RCV, IKCP_OVERHEAD, IKCP_THRESH_INIT, IKCP_THRESH_MIN,
    FastResend, FastLimit, DeadLink, \* kcp->fastresend, fastlimit, dead_link
    NoCwnd,         \* kcp->nocwnd
    Streams,        \* the values of kcp->stream: subset of BOOLEAN
    Repeats,        \* the endpoints a datagram may be delivered to twice
    NetCap,         \* bound: datagrams on their way to each endpoint
    AckCap          \* bound: entries of acklist

Peer == {A, B}
Other(p) == IF p = A THEN B ELSE A

(* The values kcp->mtu may have.                                           *)
Mtus == {Mtu} \cup UNION {NewMtus[p] : p \in Peer}

ASSUME DistinctPeers == A # B
ASSUME WindowSizes ==                  \* ikcp_wndsize, ikcp.c:1277-1279
    /\ SndWnd \in Nat /\ RcvWnd \in Nat
    /\ IKCP_WND_RCV \in Nat \ {0} /\ RcvWnd >= IKCP_WND_RCV
ASSUME DatagramHoldsData ==
    /\ IKCP_OVERHEAD \in Nat
    /\ \A m \in Mtus : m \in Nat /\ m > IKCP_OVERHEAD
ASSUME ParameterTypes ==
    /\ MsgLens \subseteq Nat /\ Streams \subseteq BOOLEAN
    /\ {IKCP_THRESH_INIT, IKCP_THRESH_MIN, FastResend, FastLimit, DeadLink} \subseteq Nat

VARIABLES
    kcb,    \* the control block of each endpoint
    msgs,   \* for each endpoint, the bytes each ikcp_send put in snd_queue
    got,    \* for each endpoint, the messages ikcp_recv returned
    net     \* for each endpoint, the datagrams on their way to it

vars == <<kcb, msgs, got, net>>

-----------------------------------------------------------------------------
(* Helpers on the lists.                                                   *)

Mss(k) == k.mtu - IKCP_OVERHEAD
XmitCap == Max({FastLimit + 1, DeadLink})

(* s without its leading elements of which Drop holds.                     *)
DropWhile(s, Drop(_)) ==
    LET i == SelectInSeq(s, LAMBDA x : ~Drop(x))
    IN  IF i = 0 THEN <<>> ELSE SubSeq(s, i, Len(s))

(* The length of the message at the head of a list of segments.            *)
MessageEnd(queue) == SelectInSeq(queue, LAMBDA s : s.frg = 0)

Bytes(segments) == FlattenSeq([i \in DOMAIN segments |-> segments[i].data])

(* ikcp_create, with the windows ikcp_wndsize gave it and the mode the     *)
(* owner sets.                                                             *)
ikcp_create(stream) ==
    [stream |-> stream, mtu |-> Mtu, snd_una |-> 0, snd_nxt |-> 0, rcv_nxt |-> 0,
     snd_queue |-> <<>>, snd_buf |-> <<>>, rcv_buf |-> <<>>, rcv_queue |-> <<>>,
     acklist |-> <<>>, rmt_wnd |-> IKCP_WND_RCV, probe |-> {},
     probe_wait |-> FALSE, cwnd |-> 0, incr |-> 0,
     ssthresh |-> IKCP_THRESH_INIT, dead |-> FALSE]

-----------------------------------------------------------------------------
(* ikcp_send: in stream mode the last segment is filled up first, then the *)
(* rest is cut into segments of mss; a message of IKCP_WND_RCV segments or *)
(* more is refused, with what was filled up left in the queue.             *)
Fragments(data, mss, stream) ==
    LET count == Max({1, (Len(data) + mss - 1) \div mss})
    IN  [i \in 1 .. count |->
           [frg  |-> IF stream THEN 0 ELSE count - i,
            data |-> SubSeq(data, (i - 1) * mss + 1, Min({i * mss, Len(data)}))]]

(* The room left in the last segment of snd_queue (stream mode).           *)
RoomInLast(k) ==
    IF k.stream /\ k.snd_queue # <<>>
    THEN Max({0, Mss(k) - Len(Last(k.snd_queue).data)})
    ELSE 0

FillLast(queue, more) ==
    IF more = <<>>
    THEN queue
    ELSE Front(queue) \o <<[frg |-> 0, data |-> Last(queue).data \o more]>>

(* Mutant: buffer and len are not advanced past what went into the last    *)
(* segment.                                                                *)
RestKeepsAll(data, n) == data

Rest(data, n) == SubSeq(data, n + 1, Len(data))

(* Mutant: a message of any number of fragments is accepted.               *)
RefusedNever(segs) == FALSE

Refused(segs) == Len(segs) >= IKCP_WND_RCV

ikcp_send(k, data) ==
    LET n    == Min({RoomInLast(k), Len(data)})
        kept == FillLast(k.snd_queue, SubSeq(data, 1, n))
        rest == Rest(data, n)
        segs == IF k.stream /\ rest = <<>>
                THEN <<>>
                ELSE Fragments(rest, Mss(k), k.stream)
    IN  IF Refused(segs)
        THEN [kcb |-> [k EXCEPT !.snd_queue = kept],
              queued |-> IF n = 0 THEN <<>> ELSE <<SubSeq(data, 1, n)>>]
        ELSE [kcb |-> [k EXCEPT !.snd_queue = kept \o segs],
              queued |-> <<data>>]

-----------------------------------------------------------------------------
(* ikcp_recv.                                                              *)

(* The loop at the end of ikcp_recv and of ikcp_parse_data: the head of    *)
(* rcv_buf moves to rcv_queue while it is the next sn and there is room.   *)
MoveToQueue(k) ==
    LET n == Max({j \in 0 .. Min({Len(k.rcv_buf), RcvWnd - Len(k.rcv_queue)}) :
                    \A i \in 1 .. j : k.rcv_buf[i].sn = k.rcv_nxt + i - 1})
    IN  [k EXCEPT !.rcv_buf = SubSeq(@, n + 1, Len(@)),
                  !.rcv_nxt = @ + n,
                  !.rcv_queue = @ \o [i \in 1 .. n |->
                     [frg |-> k.rcv_buf[i].frg, data |-> k.rcv_buf[i].data]]]

(* Mutant: the first fragment is enough for ikcp_peeksize.                 *)
MessageReadyAnyFragment(k) == k.rcv_queue # <<>>

(* ikcp_peeksize(k) >= 0.                                                  *)
MessageReady(k) ==
    /\ k.rcv_queue # <<>>
    /\ Len(k.rcv_queue) >= Head(k.rcv_queue).frg + 1

(* The number of segments ikcp_recv merges: all of them if none ends the   *)
(* message.                                                                *)
Merged(k) ==
    IF MessageEnd(k.rcv_queue) = 0 THEN Len(k.rcv_queue) ELSE MessageEnd(k.rcv_queue)

(* The peer is told when a window that was closed has opened.              *)
FastRecover(before, k) ==
    IF Len(before.rcv_queue) >= RcvWnd /\ Len(k.rcv_queue) < RcvWnd
    THEN [k EXCEPT !.probe = @ \cup {"TELL"}]
    ELSE k

(* A call with a buffer that is large enough, when MessageReady holds;     *)
(* otherwise the call returns an error and changes nothing.                *)
ikcp_recv(k) ==
    LET n == Merged(k)
    IN  [data |-> Bytes(SubSeq(k.rcv_queue, 1, n)),
         kcb  |-> FastRecover(k, MoveToQueue(
                    [k EXCEPT !.rcv_queue = SubSeq(@, n + 1, Len(@))]))]

-----------------------------------------------------------------------------
(* ikcp_input.                                                             *)

(* Mutant: the segment una names is dropped too.                           *)
ikcp_parse_unaItself(k, una) ==
    [k EXCEPT !.snd_buf = DropWhile(@, LAMBDA s : s.sn <= una)]

ikcp_parse_una(k, una) ==
    [k EXCEPT !.snd_buf = DropWhile(@, LAMBDA s : s.sn < una)]

(* sn is one of the sns not yet acknowledged by una: the test that opens   *)
(* ikcp_parse_ack and ikcp_parse_fastack.                                  *)
Outstanding(k, sn) == k.snd_una <= sn /\ sn < k.snd_nxt

ikcp_parse_ack(k, sn) ==
    LET i == SelectInSeq(k.snd_buf, LAMBDA s : s.sn >= sn)
    IN  IF Outstanding(k, sn) /\ i # 0 /\ k.snd_buf[i].sn = sn
        THEN [k EXCEPT !.snd_buf = RemoveAt(@, i)]
        ELSE k

ikcp_shrink_buf(k) ==
    [k EXCEPT !.snd_una = IF k.snd_buf = <<>> THEN k.snd_nxt
                                              ELSE Head(k.snd_buf).sn]

ikcp_parse_fastack(k, sn) ==
    LET passed(s) == IF s.sn < sn THEN [s EXCEPT !.fastack = Min({@ + 1, FastResend})]
                                  ELSE s
    IN  IF Outstanding(k, sn)
        THEN [k EXCEPT !.snd_buf = [i \in DOMAIN k.snd_buf |-> passed(k.snd_buf[i])]]
        ELSE k

ikcp_ack_push(k, sn) == [k EXCEPT !.acklist = Append(@, sn)]

(* Mutant: a new segment goes to the end of rcv_buf.                       *)
InsertByTail(buf, seg) == Append(buf, seg)

(* The scan from the tail of rcv_buf for the place of a new segment.       *)
InsertBySn(buf, seg) ==
    LET i == SelectLastInSeq(buf, LAMBDA s : s.sn <= seg.sn)
    IN  IF i # 0 /\ buf[i].sn = seg.sn THEN buf ELSE InsertAt(buf, i + 1, seg)

ikcp_parse_data(k, seg) ==
    IF seg.sn >= k.rcv_nxt + RcvWnd \/ seg.sn < k.rcv_nxt
    THEN k
    ELSE MoveToQueue([k EXCEPT !.rcv_buf = InsertBySn(@, seg)])

(* One turn of the loop of ikcp_input.  maxack is -1 until the datagram    *)
(* has shown an ACK (flag).                                                *)
InputSegment(acc, seg) ==
    LET k == ikcp_shrink_buf(ikcp_parse_una([acc.kcb EXCEPT !.rmt_wnd = seg.wnd],
                                            seg.una))
        kept == [sn |-> seg.sn, frg |-> seg.frg, data |-> seg.data]
    IN  CASE seg.cmd = "ACK" ->
               [kcb |-> ikcp_shrink_buf(ikcp_parse_ack(k, seg.sn)),
                maxack |-> Max({acc.maxack, seg.sn})]
          [] seg.cmd = "PUSH" /\ seg.sn < k.rcv_nxt + RcvWnd ->
               [acc EXCEPT !.kcb = ikcp_parse_data(ikcp_ack_push(k, seg.sn), kept)]
          [] seg.cmd = "WASK" ->
               [acc EXCEPT !.kcb = [k EXCEPT !.probe = @ \cup {"TELL"}]]
          [] OTHER -> [acc EXCEPT !.kcb = k]

(* What each turn of the loop leaves.                                      *)
InputLoop(k, datagram) ==
    LET end[i \in 0 .. Len(datagram)] ==
          IF i = 0 THEN [kcb |-> k, maxack |-> -1]
                   ELSE InputSegment(end[i - 1], datagram[i])
    IN  end

(* Mutant: the congestion window is brought under the window of the peer   *)
(* after every datagram that moved snd_una.                                *)
GrowCwndAnyWindow(k) ==
    IF k.cwnd > k.rmt_wnd
    THEN [k EXCEPT !.cwnd = k.rmt_wnd, !.incr = k.rmt_wnd * Mss(k)]
    ELSE k

(* The congestion window after a datagram that moved snd_una.              *)
GrowCwnd(k) ==
    LET mss  == Mss(k)
        slow == k.cwnd < k.ssthresh
        base == Max({k.incr, mss})
        incr == IF slow THEN k.incr + mss
                        ELSE base + (mss * mss) \div base + mss \div 16
        cwnd == IF slow THEN k.cwnd + 1
                ELSE IF (k.cwnd + 1) * mss <= incr THEN (incr + mss - 1) \div mss
                ELSE k.cwnd
    IN  IF k.cwnd >= k.rmt_wnd THEN k
        ELSE IF cwnd > k.rmt_wnd
        THEN [k EXCEPT !.cwnd = k.rmt_wnd, !.incr = k.rmt_wnd * mss]
        ELSE [k EXCEPT !.cwnd = cwnd, !.incr = incr]

ikcp_input(k, datagram) ==
    LET end == InputLoop(k, datagram)[Len(datagram)]
        k1  == IF end.maxack = -1 THEN end.kcb
                                  ELSE ikcp_parse_fastack(end.kcb, end.maxack)
    IN  IF k1.snd_una > k.snd_una THEN GrowCwnd(k1) ELSE k1

-----------------------------------------------------------------------------
(* ikcp_flush.                                                             *)

(* A segment as ikcp_encode_seg writes it; una and wnd are those of the    *)
(* flush.  (WASK and WINS carry the sn of the last ACK before them, which  *)
(* no one reads; it is 0 here.)                                            *)
Encoded(k, cmd, sn, frg, data) ==
    [cmd |-> cmd, sn |-> sn, frg |-> frg, una |-> k.rcv_nxt,
     wnd |-> (RcvWnd - Len(k.rcv_queue)) % 65536, data |-> data]

Need(seg) == IKCP_OVERHEAD + (IF seg.cmd = "PUSH" THEN Len(seg.data) ELSE 0)
Size(datagram) ==
    LET size[i \in 0 .. Len(datagram)] ==
          IF i = 0 THEN 0 ELSE size[i - 1] + Need(datagram[i])
    IN  size[Len(datagram)]

(* Mutant: the room for the header is checked, not that for the data.      *)
FitsHeaderOnly(datagram, seg, mtu) == Size(datagram) + IKCP_OVERHEAD <= mtu

Fits(datagram, seg, mtu) == Size(datagram) + Need(seg) <= mtu

(* The output buffer goes out whenever the next segment does not fit; an   *)
(* empty buffer is not sent (ikcp_output).                                 *)
Packed(out, seg, mtu) ==
    IF out # <<>> /\ Fits(Last(out), seg, mtu)
    THEN Front(out) \o <<Append(Last(out), seg)>>
    ELSE Append(out, <<seg>>)

Pack(segs, mtu) ==
    LET out[i \in 0 .. Len(segs)] ==
          IF i = 0 THEN <<>> ELSE Packed(out[i - 1], segs[i], mtu)
    IN  out[Len(segs)]

(* Mutant: the probe is not sent when the window of the peer stays zero.   *)
ProbesTellOnly(k, probeDue) == k.probe

(* The probes this flush sends: one is asked for when ts_probe has passed  *)
(* and the window of the peer is still zero.                               *)
Probes(k, probeDue) ==
    IF k.rmt_wnd = 0 /\ k.probe_wait /\ probeDue THEN k.probe \cup {"SEND"}
                                                 ELSE k.probe

FlushWindow(k) ==
    Min({SndWnd, k.rmt_wnd} \cup (IF NoCwnd THEN {} ELSE {k.cwnd}))

(* snd_queue to snd_buf while snd_nxt is inside the window.                *)
TakeFromQueue(k) ==
    LET n == Max({0, Min({Len(k.snd_queue), k.snd_una + FlushWindow(k) - k.snd_nxt})})
    IN  [k EXCEPT
           !.snd_queue = SubSeq(@, n + 1, Len(@)),
           !.snd_nxt = @ + n,
           !.snd_buf = @ \o [i \in 1 .. n |->
              [sn |-> k.snd_nxt + i - 1, frg |-> k.snd_queue[i].frg,
               data |-> k.snd_queue[i].data, xmit |-> 0, fastack |-> 0]]]

(* Why the flush sends segment s: due holds the sns whose resendts passed. *)
First(s) == s.xmit = 0
TimedOut(s, due) == s.xmit > 0 /\ s.sn \in due
FastAcked(s, due) ==
    /\ s.xmit > 0 /\ s.sn \notin due
    /\ FastResend > 0 /\ s.fastack >= FastResend
    /\ s.xmit <= FastLimit \/ FastLimit <= 0
NeedSend(s, due) == First(s) \/ TimedOut(s, due) \/ FastAcked(s, due)

Transmitted(s, due) ==
    IF NeedSend(s, due)
    THEN [s EXCEPT !.xmit = Min({@ + 1, XmitCap}),
                   !.fastack = IF FastAcked(s, due) THEN 0 ELSE @]
    ELSE s

(* ssthresh and cwnd after a flush; window is what the flush itself used.  *)
ShrinkCwnd(k, window, change, lost) ==
    LET half(n) == Max({n \div 2, IKCP_THRESH_MIN})
        fast == half(k.snd_nxt - k.snd_una)
        k1 == IF ~change THEN k
              ELSE [k EXCEPT !.ssthresh = fast, !.cwnd = fast + FastResend,
                             !.incr = (fast + FastResend) * Mss(k)]
        k2 == IF ~lost THEN k1 ELSE [k1 EXCEPT !.ssthresh = half(window)]
    IN  IF lost \/ k2.cwnd < 1 THEN [k2 EXCEPT !.cwnd = 1, !.incr = Mss(k)]
                               ELSE k2

ikcp_flush(k, due, probeDue) ==
    LET ask  == Probes(k, probeDue)
        k1   == TakeFromQueue([k EXCEPT !.acklist = <<>>, !.probe = {},
                                        !.probe_wait = (k.rmt_wnd = 0)])
        push(s) == Encoded(k1, "PUSH", s.sn, s.frg, s.data)
        sent == FlattenSeq([i \in DOMAIN k1.snd_buf |->
                   IF NeedSend(k1.snd_buf[i], due) THEN <<push(k1.snd_buf[i])>> ELSE <<>>])
        buf  == [i \in DOMAIN k1.snd_buf |-> Transmitted(k1.snd_buf[i], due)]
        probe(cmd, flag) ==
            IF flag \in ask THEN <<Encoded(k1, cmd, 0, 0, NoData)>> ELSE <<>>
        segs == [i \in DOMAIN k.acklist |->
                   Encoded(k1, "ACK", k.acklist[i], 0, NoData)]
                \o probe("WASK", "SEND") \o probe("WINS", "TELL")
                \o sent
        fast == \E s \in ToSet(k1.snd_buf) : FastAcked(s, due)
        late == \E s \in ToSet(k1.snd_buf) : TimedOut(s, due)
        dead == \E i \in DOMAIN buf : /\ NeedSend(k1.snd_buf[i], due)
                                      /\ buf[i].xmit >= DeadLink
    IN  [out |-> Pack(segs, k.mtu),
         kcb |-> [ShrinkCwnd(k1, FlushWindow(k), fast, late)
                    EXCEPT !.snd_buf = buf, !.dead = @ \/ dead]]

-----------------------------------------------------------------------------
(* The calls the owner of a control block makes, and the network.          *)

Init ==
    /\ \E stream \in Streams : kcb = [p \in Peer |-> ikcp_create(stream)]
    /\ msgs = [p \in Peer |-> <<>>]
    /\ got  = [p \in Peer |-> <<>>]
    /\ net  = [p \in Peer |-> {}]

Written(p, len) == [i \in 1 .. len |-> <<Len(msgs[p]) + 1, i>>]

Send(p) ==
    /\ Len(msgs[p]) < MaxMsgs[p]
    /\ \E len \in MsgLens :
         LET r == ikcp_send(kcb[p], Written(p, len))
         IN  /\ kcb' = [kcb EXCEPT ![p] = r.kcb]
             /\ msgs' = [msgs EXCEPT ![p] = @ \o r.queued]
    /\ UNCHANGED <<got, net>>

(* ikcp_update at a time when a flush is due.                              *)
Flush(p, due, probeDue) ==
    /\ \E r \in {ikcp_flush(kcb[p], due, probeDue)} :
         /\ Cardinality(net[Other(p)] \cup ToSet(r.out)) <= NetCap[Other(p)]
         /\ kcb' = [kcb EXCEPT ![p] = r.kcb]
         /\ net' = [net EXCEPT ![Other(p)] = @ \cup ToSet(r.out)]
    /\ UNCHANGED <<msgs, got>>

(* acklist has room for what the datagram adds to it (a bound).            *)
AckRoom(q, datagram) ==
    Len(kcb[q].acklist) + Len(SelectSeq(datagram, LAMBDA s : s.cmd = "PUSH")) <= AckCap

Input(q, datagram) ==
    /\ AckRoom(q, datagram)
    /\ kcb' = [kcb EXCEPT ![q] = ikcp_input(kcb[q], datagram)]
    /\ \/ net' = [net EXCEPT ![q] = @ \ {datagram}]
       \/ q \in Repeats /\ UNCHANGED net
    /\ UNCHANGED <<msgs, got>>

Recv(q) ==
    /\ MessageReady(kcb[q])
    /\ kcb' = [kcb EXCEPT ![q] = ikcp_recv(kcb[q]).kcb]
    /\ got' = [got EXCEPT ![q] = Append(@, ikcp_recv(kcb[q]).data)]
    /\ UNCHANGED <<msgs, net>>

SetMtu(p) ==
    /\ \E mtu \in NewMtus[p] : kcb' = [kcb EXCEPT ![p].mtu = mtu]
    /\ UNCHANGED <<msgs, got, net>>

Lose(q, datagram) ==
    /\ net' = [net EXCEPT ![q] = @ \ {datagram}]
    /\ UNCHANGED <<kcb, msgs, got>>

Sns(p) == {kcb[p].snd_buf[i].sn : i \in DOMAIN kcb[p].snd_buf}

Next ==
    \/ \E p \in Peer : Send(p) \/ Recv(p) \/ SetMtu(p)
    \/ \E p \in Peer : \E due \in SUBSET Sns(p), probeDue \in BOOLEAN :
         Flush(p, due, probeDue)
    \/ \E q \in Peer : \E datagram \in net[q] :
         Input(q, datagram) \/ Lose(q, datagram)

Spec == Init /\ [][Next]_vars

-----------------------------------------------------------------------------
(* Properties.                                                             *)

(* snd_buf and rcv_buf are sorted by sn without repetition, whatever the   *)
(* order of arrival: ikcp_parse_una, ikcp_parse_ack and ikcp_shrink_buf    *)
(* stop at the first segment beyond theirs, and the move loop looks at the *)
(* head of rcv_buf only.                                                   *)
ListsSorted ==
    \A p \in Peer :
      /\ \A i, j \in DOMAIN kcb[p].snd_buf :
           i < j => kcb[p].snd_buf[i].sn < kcb[p].snd_buf[j].sn
      /\ \A i, j \in DOMAIN kcb[p].rcv_buf :
           i < j => kcb[p].rcv_buf[i].sn < kcb[p].rcv_buf[j].sn

(* The messages ikcp_recv returns are those given to ikcp_send, whole, in  *)
(* order and once each, unless the writer is in stream mode.               *)
MessagesInOrder ==
    \A q \in Peer : ~kcb[Other(q)].stream => IsPrefix(got[q], msgs[Other(q)])

(* In stream mode the limits of messages go, the bytes do not: what was    *)
(* received is the beginning of what was queued, the part of a refused     *)
(* call that filled up the last segment included.                          *)
BytesInOrder ==
    \A q \in Peer : IsPrefix(FlattenSeq(got[q]), FlattenSeq(msgs[Other(q)]))

(* A full rcv_queue always has a whole message at its head, so that the    *)
(* owner can make room: ikcp_send refuses messages of IKCP_WND_RCV         *)
(* fragments and ikcp_wndsize keeps rcv_wnd at least that large.           *)
ReassemblyNeverStuck ==
    \A q \in Peer : Len(kcb[q].rcv_queue) >= RcvWnd => MessageReady(kcb[q])

(* No datagram handed to the output callback is larger than the mtu.       *)
DatagramFits ==
    [][\A p \in Peer : \A datagram \in net'[p] \ net[p] :
          Size(datagram) <= kcb[Other(p)].mtu]_vars

(* The congestion window never closes for good: once a flush has opened    *)
(* it, it stays at one segment or more, so that the window of a flush is   *)
(* zero only while the peer advertises zero.                               *)
CwndStaysOpen ==
    [][\A p \in Peer : kcb[p].cwnd >= 1 => kcb'[p].cwnd >= 1]_vars

-----------------------------------------------------------------------------
(* The control blocks implement Arq when a datagram carries one segment    *)
(* (ikcp_input handles a datagram in one step, Arq a segment), no one is   *)
(* in stream mode and the mtu stays what it is.                            *)

(* The segments that the messages s are cut into.                          *)
Cut(data) == Fragments(data, Mtu - IKCP_OVERHEAD, FALSE)
Segments(s) == FlattenSeq([i \in DOMAIN s |-> Cut(s[i])])
Unnumbered(s) == [frg |-> s.frg, data |-> s.data]
Accepted ==
    {batch \in {Cut([i \in 1 .. len |-> <<m, i>>]) :
                  len \in MsgLens, m \in 1 .. Max({MaxMsgs[p] : p \in Peer})} :
       ~Refused(batch)}

ArqMessage(q, s) ==
    [cmd |-> s.cmd, src |-> Other(q), sn |-> s.sn, una |-> s.una, wnd |-> s.wnd,
     data |-> IF s.cmd = "PUSH" THEN Unnumbered(s) ELSE NoData]

Protocol == INSTANCE Arq WITH
    Data      <- UNION {ToSet(batch) : batch \in Accepted},
    Batch     <- Accepted,
    MaxStream <- [p \in Peer |-> MaxMsgs[p] * IKCP_WND_RCV],
    MaxNet    <- NetCap[A] + NetCap[B],
    stream    <- [p \in Peer |-> Segments(msgs[p])],
    snd_una   <- [p \in Peer |-> kcb[p].snd_una],
    snd_nxt   <- [p \in Peer |-> kcb[p].snd_nxt],
    snd_buf   <- [p \in Peer |-> Sns(p)],
    rmt_wnd   <- [p \in Peer |-> kcb[p].rmt_wnd],
    rcv_nxt   <- [p \in Peer |-> kcb[p].rcv_nxt],
    rcv_buf   <- [p \in Peer |->
                    [sn \in {kcb[p].rcv_buf[i].sn : i \in DOMAIN kcb[p].rcv_buf} |->
                       Unnumbered(kcb[p].rcv_buf[SelectInSeq(kcb[p].rcv_buf,
                                                  LAMBDA s : s.sn = sn)])]],
    rcv_queue <- [p \in Peer |-> kcb[p].rcv_queue],
    acklist   <- [p \in Peer |-> ToSet(kcb[p].acklist)],
    delivered <- [p \in Peer |-> Segments(got[p])],
    net       <- UNION {{ArqMessage(q, s) : s \in UNION {ToSet(d) : d \in net[q]}} :
                          q \in Peer}

ArqSpec == Protocol!Spec
=============================================================================
