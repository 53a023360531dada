------------------------------ MODULE IkcpClock ------------------------------
(***************************************************************************)
(* The clock of one control block: when ikcp_update flushes, when          *)
(* ikcp_check asks to be called back, when a segment or a window probe is  *)
(* due (the `due' and `probeDue' of module Ikcp), and how the timeout      *)
(* follows the round trips.                                                *)
(*                                                                         *)
(* Timestamps are numbers of W values that wrap around (2^32 milliseconds  *)
(* in ikcp.c, 50 days); the real time, which never wraps, is kept in       *)
(* histories the control block cannot see.  One segment stands for the     *)
(* snd_buf: each segment has timers of its own.                            *)
(***************************************************************************)
EXTENDS Integers, FiniteSets

CONSTANTS
    W,          \* the number of timestamps, 2^32 in ikcp.c
    SlapMax,    \* 10000 in ikcp_update and ikcp_check
    Interval,   \* kcp->interval
    Nodelays,   \* the values of kcp->nodelay
    MinRto,     \* kcp->rx_minrto
    IKCP_RTO_DEF, IKCP_RTO_MAX, IKCP_PROBE_INIT, IKCP_PROBE_LIMIT,
    Start,      \* the time of the first call
    Gaps,       \* the times that may pass between two calls of ikcp_update
    MaxNow,     \* bound: the last time modelled
    MaxXmit     \* bound: how often a segment is sent; it keeps rto below W / 2

ASSUME ClockSizes ==
    /\ W \in Nat /\ W % 2 = 0 /\ SlapMax < W \div 2
    /\ Interval \in Nat /\ SlapMax \in Nat /\ 0 < Interval /\ Interval <= SlapMax
    /\ {MinRto, IKCP_RTO_DEF, IKCP_RTO_MAX} \subseteq Nat
    /\ 0 < MinRto /\ MinRto <= IKCP_RTO_MAX /\ IKCP_RTO_DEF <= IKCP_RTO_MAX
    /\ {IKCP_PROBE_INIT, IKCP_PROBE_LIMIT, Start} \subseteq Nat
    /\ Gaps \subseteq Nat \ {0}
    /\ MaxXmit \in Nat \ {0}

VARIABLES
    now,        \* real time of the last call of ikcp_update
    kcp,        \* the fields of the control block that have to do with time
    seg,        \* the timers of the segment in snd_buf, or NoSegment
    flushedAt,  \* history: when ikcp_update last flushed
    sentAt,     \* history: when the segment was last sent
    probedAt,   \* history: when ts_probe was last set
    suspended   \* history: half a turn of the clock, less an interval, or more
                \* passed between two calls

vars == <<now, kcp, seg, flushedAt, sentAt, probedAt, suspended>>

Bigger(a, b) == IF a >= b THEN a ELSE b
Lesser(a, b) == IF a <= b THEN a ELSE b

Bound(lower, middle, upper) == Lesser(Bigger(lower, middle), upper)

U(x) == x % W

(* Mutant: the numbers are compared, and not their difference.             *)
itimediffPlain(later, earlier) == later - earlier

(* _itimediff: the 32-bit difference read as a signed number.              *)
itimediff(later, earlier) ==
    IF U(later - earlier) < W \div 2 THEN U(later - earlier)
                                     ELSE U(later - earlier) - W

NoSegment == [xmit |-> 0, rto |-> 0, resendts |-> 0, ts |-> 0]
Queued    == [NoSegment EXCEPT !.rto = 1]   \* in snd_queue, never sent

-----------------------------------------------------------------------------
(* ikcp_create; ikcp_update has not been called.                           *)
Init ==
    /\ now = Start
    /\ \E nodelay \in Nodelays :
       kcp = [nodelay |-> nodelay, updated |-> FALSE, current |-> 0,
              ts_flush |-> U(Interval),
              rx_srtt |-> 0, rx_rttval |-> 0, rx_rto |-> IKCP_RTO_DEF,
              closed |-> FALSE, probe_wait |-> 0, ts_probe |-> 0]
    /\ seg = NoSegment
    /\ flushedAt = Start /\ sentAt = Start /\ probedAt = Start
    /\ suspended = FALSE

(* ikcp_send: the segment waits in snd_queue.                              *)
Send ==
    /\ seg = NoSegment
    /\ seg' = Queued
    /\ UNCHANGED <<now, kcp, flushedAt, sentAt, probedAt, suspended>>

(* ikcp_update_ack.                                                        *)
UpdateAck(k, rtt) ==
    LET delta  == IF rtt < k.rx_srtt THEN k.rx_srtt - rtt ELSE rtt - k.rx_srtt
        rttval == IF k.rx_srtt = 0 THEN rtt \div 2
                                   ELSE (3 * k.rx_rttval + delta) \div 4
        srtt   == IF k.rx_srtt = 0 THEN rtt
                                   ELSE Bigger(1, (7 * k.rx_srtt + rtt) \div 8)
    IN  [k EXCEPT !.rx_srtt = srtt, !.rx_rttval = rttval,
                  !.rx_rto = Bound(MinRto, srtt + Bigger(Interval, 4 * rttval),
                                   IKCP_RTO_MAX)]

(* ikcp_input of an ACK: the round trip is measured against the time of    *)
(* the last ikcp_update, and only if it is not negative.                   *)
Ack ==
    /\ seg.xmit > 0
    /\ LET rtt == itimediff(kcp.current, seg.ts)
       IN  kcp' = IF rtt >= 0 THEN UpdateAck(kcp, rtt) ELSE kcp
    /\ seg' = NoSegment
    /\ sentAt' = Start
    /\ UNCHANGED <<now, flushedAt, probedAt, suspended>>

(* ikcp_input of a segment that closes or opens the peer's window.         *)
Window ==
    /\ kcp' = [kcp EXCEPT !.closed = ~@]
    /\ UNCHANGED <<now, seg, flushedAt, sentAt, probedAt, suspended>>

-----------------------------------------------------------------------------
(* ikcp_flush.                                                             *)

ProbeAsked(k) ==
    k.closed /\ k.probe_wait > 0 /\ itimediff(k.current, k.ts_probe) >= 0

(* Mutant: every flush that finds the window closed starts the timer anew. *)
ProbeTimerRestarts(k) ==
    IF ~k.closed THEN [k EXCEPT !.probe_wait = 0, !.ts_probe = 0]
    ELSE [k EXCEPT !.probe_wait = IKCP_PROBE_INIT,
                   !.ts_probe = U(k.current + IKCP_PROBE_INIT)]

(* The timer of the window probe: set when the window is first seen        *)
(* closed, set again half as long again after each probe.                  *)
ProbeTimer(k) ==
    LET wait == IF k.probe_wait = 0
                THEN IKCP_PROBE_INIT
                ELSE Lesser(Bigger(k.probe_wait, IKCP_PROBE_INIT)
                              + Bigger(k.probe_wait, IKCP_PROBE_INIT) \div 2,
                            IKCP_PROBE_LIMIT)
    IN  IF ~k.closed THEN [k EXCEPT !.probe_wait = 0, !.ts_probe = 0]
        ELSE IF k.probe_wait = 0 \/ ProbeAsked(k)
        THEN [k EXCEPT !.probe_wait = wait, !.ts_probe = U(k.current + wait)]
        ELSE k

TimedOut(k, s) == s.xmit > 0 /\ itimediff(k.current, s.resendts) >= 0

(* rto after a timeout: doubled, or half as long again with nodelay.       *)
BackedOff(k, s) ==
    U(s.rto + (CASE k.nodelay = 0 -> Bigger(s.rto, k.rx_rto)
                 [] k.nodelay = 1 -> s.rto \div 2
                 [] OTHER       -> k.rx_rto \div 2))

(* The segment after the flush; fast: enough later acks have arrived.      *)
SegmentTimer(k, s, fast) ==
    LET sent(rto, more) ==
          [xmit |-> Lesser(s.xmit + 1, MaxXmit), rto |-> rto, ts |-> k.current,
           resendts |-> U(k.current + rto + more)]
    IN  CASE s = NoSegment  -> s
          [] s = Queued /\ ~k.closed -> sent(k.rx_rto,
                                 IF k.nodelay = 0 THEN k.rx_rto \div 8 ELSE 0)
          [] s.xmit > 0 /\ TimedOut(k, s) -> sent(BackedOff(k, s), 0)
          [] s.xmit > 0 /\ ~TimedOut(k, s) /\ fast -> sent(s.rto, 0)
          [] OTHER -> s

Flush(k, fast) ==
    /\ TimedOut(k, seg) => seg.xmit < MaxXmit
    /\ kcp' = ProbeTimer(k)
    /\ seg' = SegmentTimer(k, seg, fast)
    /\ flushedAt' = now'
    /\ sentAt' = IF seg' = seg THEN sentAt ELSE now'
    /\ probedAt' = CASE ~k.closed -> Start
                     [] k.closed /\ (ProbeAsked(k) \/ k.probe_wait = 0) -> now'
                     [] OTHER -> probedAt

(* Mutant: a time that is far from ts_flush is not noticed.                *)
ReanchorForwardOnly(k) ==
    IF itimediff(k.current, k.ts_flush) >= SlapMax
    THEN [k EXCEPT !.ts_flush = k.current] ELSE k

(* A stall longer than SlapMax, either way, makes the flush due at once.   *)
Reanchor(k) ==
    IF itimediff(k.current, k.ts_flush) >= SlapMax
         \/ itimediff(k.current, k.ts_flush) < -SlapMax
    THEN [k EXCEPT !.ts_flush = k.current] ELSE k

(* ts_flush after a flush: one interval later, from now on when that has   *)
(* passed as well.                                                         *)
NextFlush(k) ==
    [k EXCEPT !.ts_flush =
       IF itimediff(k.current, U(@ + Interval)) >= 0 THEN U(k.current + Interval)
                                                     ELSE U(@ + Interval)]

(* ikcp_update, gap milliseconds after the call before.                    *)
Update(gap, fast) ==
    LET current == U(now + gap)
        k == Reanchor([kcp EXCEPT
               !.current = current, !.updated = TRUE,
               !.ts_flush = IF kcp.updated THEN @ ELSE current])
    IN  /\ now + gap <= MaxNow
        /\ now' = now + gap
        /\ suspended' = (suspended \/ gap + Interval >= W \div 2)
        /\ \/ /\ itimediff(k.current, k.ts_flush) >= 0
              /\ Flush(NextFlush(k), fast)
           \/ /\ itimediff(k.current, k.ts_flush) < 0
              /\ kcp' = k
              /\ UNCHANGED <<seg, flushedAt, sentAt, probedAt>>

Next ==
    \/ \E gap \in Gaps, fast \in BOOLEAN : Update(gap, fast)
    \/ Send \/ Ack \/ Window

Spec == Init /\ [][Next]_vars

-----------------------------------------------------------------------------
(* Mutant: the time of the next segment is looked at and not ts_flush.     *)
CheckPacketOnly(current) ==
    IF ~kcp.updated THEN current
    ELSE IF seg.xmit = 0 THEN U(current + Interval)
    ELSE IF itimediff(seg.resendts, current) <= 0 THEN current
    ELSE U(current + Lesser(itimediff(seg.resendts, current), Interval))

(* ikcp_check: when to call ikcp_update, asked at the time current.        *)
Check(current) ==
    LET late == itimediff(current, kcp.ts_flush)
    IN  IF \/ ~kcp.updated
           \/ late >= 0 \/ late < -SlapMax
           \/ seg.xmit > 0 /\ itimediff(seg.resendts, current) <= 0
        THEN current
        ELSE U(current + Lesser(Interval,
               IF seg.xmit > 0 THEN Lesser(itimediff(seg.resendts, current), -late)
                               ELSE -late))

-----------------------------------------------------------------------------
(* Properties.                                                             *)

(* A call of ikcp_update an interval or more after the last flush is a     *)
(* flush itself, whatever stalls came before and across the wrap of the    *)
(* timestamps.  (A stall that ends less than SlapMax short of a whole turn *)
(* of the clock is the exception; Gaps has none.)                          *)
FlushRegular == kcp.updated => now - flushedAt < Interval

(* A segment is not sent again for a timeout before its rto has really     *)
(* passed since it was last sent, for a timeout or a fast resend.          *)
ResendNotEarly ==
    [][seg.xmit > 0 /\ seg'.xmit > 0 /\ seg'.rto # seg.rto
         => now' - sentAt >= seg.rto]_vars

(* Nor later than one interval after it was due.  A suspension of half a   *)
(* turn of the clock is apart: past and future cannot be told from each    *)
(* other after it.  So is one an interval shorter, since a segment may     *)
(* have been due for up to an interval when it begins.                     *)
ResendNotLate ==
    seg.xmit > 0 /\ ~suspended => now - sentAt < seg.rto + seg.rto \div 8 + Interval

(* While the window of the peer is closed a probe is sent within probe_wait*)
(* and one interval of the last one, or of the time the window was seen    *)
(* closed (a suspension of half a turn, less an interval, apart).          *)
ProbeInTime ==
    kcp.closed /\ kcp.probe_wait > 0 /\ ~suspended
        => now - probedAt < kcp.probe_wait + Interval

(* Whenever ikcp_check is asked, calling ikcp_update at the time it        *)
(* returns, and not before, delays no flush and no segment.                *)
CheckNeverLate ==
    kcp.updated =>
      \A e \in 0 .. Interval :
        LET t == itimediff(Check(U(now + e)), U(now + e))
        IN  /\ t \in 0 .. Interval
            /\ t > 0 => /\ t <= itimediff(kcp.ts_flush, U(now + e))
                        /\ seg.xmit > 0 =>
                             t <= itimediff(seg.resendts, U(now + e))
=============================================================================
