--------------------------- MODULE IkcpClockProofs ---------------------------
(***************************************************************************)
(* Proofs about IkcpClock: flushes, resends and window probes keep their   *)
(* times, and ikcp_check does not make them late, whatever the number of   *)
(* timestamps, the interval, the timeouts and the stalls.                  *)
(*                                                                         *)
(* The argument gives every timestamp the control block keeps a real time  *)
(* it stands for, and shows that the real times the code compares are less *)
(* than half a turn apart, where _itimediff is their true difference.      *)
(***************************************************************************)
EXTENDS IkcpClock, TLAPS

Half == W \div 2

(* Half a turn is an integer, and longer than SlapMax.                     *)
LEMMA Halves ==
    W = 2 * Half /\ W \in Nat /\ Half \in Nat /\ SlapMax \in Nat /\ Interval \in Nat
    /\ 0 < Interval /\ Interval <= SlapMax /\ SlapMax < Half
BY ClockSizes DEF Half

-----------------------------------------------------------------------------
(* Timestamps that wrap around.                                            *)

LEMMA Wrapped ==
    ASSUME NEW x \in Int
    PROVE  U(x) \in 0 .. W - 1 /\ \E turns \in Int : x = W * turns + U(x)
<1>1. W \in Nat /\ W > 0
  BY Halves
<1>2. U(x) \in 0 .. W - 1
  BY <1>1 DEF U
<1>3. x = W * (x \div W) + U(x) /\ x \div W \in Int
  BY <1>1 DEF U
<1> QED BY <1>2, <1>3

(* The remainder is unique.                                                *)
LEMMA Remainder ==
    ASSUME NEW turns \in Int, NEW r \in 0 .. W - 1
    PROVE  U(W * turns + r) = r
<1>1. W \in Nat /\ W > 0
  BY Halves
<1> DEFINE x == W * turns + r
           s == U(x)
<1>2. x \in Int
  BY <1>1
<1>3. PICK q \in Int : x = W * q + s
  BY <1>2, Wrapped
<1>4. s \in 0 .. W - 1
  BY <1>2, Wrapped
<1>5. W * turns - W * q = s - r
  BY <1>1, <1>3, <1>4
<1>6. W * (turns - q) = s - r
  BY <1>1, <1>5
<1> DEFINE d == turns - q
<1>7. d \in Int /\ W * d = s - r
  BY <1>6
<1> HIDE DEF d, s, x
<1>8. ~ (d >= 1)
  BY <1>1, <1>4, <1>7
<1>9. ~ (d <= -1)
  BY <1>1, <1>4, <1>7
<1>10. d = 0
  BY <1>7, <1>8, <1>9
<1>11. s = r
  BY <1>1, <1>4, <1>7, <1>10
<1> QED BY <1>11 DEF s, x

LEMMA WrapSmall ==
    ASSUME NEW x \in 0 .. W - 1
    PROVE  U(x) = x
<1>1. U(W * 0 + x) = x
  BY Remainder
<1> QED BY <1>1, Halves

(* Counting on a timestamp counts on the time it stands for.               *)
LEMMA WrapAdd ==
    ASSUME NEW x \in Int, NEW n \in Int
    PROVE  U(U(x) + n) = U(x + n)
<1>1. W \in Nat /\ W > 0
  BY Halves
<1>2. U(x) \in 0 .. W - 1
  BY Wrapped
<1>3. PICK p \in Int : x = W * p + U(x)
  BY Wrapped
<1> DEFINE y == U(x) + n
<1>4. y \in Int
  BY <1>1, <1>2
<1>5. U(y) \in 0 .. W - 1
  BY <1>4, Wrapped
<1>6. PICK q \in Int : y = W * q + U(y)
  BY <1>4, Wrapped
<1>7. x + n = W * (p + q) + U(y)
  <2>1. x + n = W * p + y
    BY <1>1, <1>2, <1>3
  <2>2. W * (p + q) = W * p + W * q
    BY <1>1
  <2>3. W * p \in Int /\ W * q \in Int /\ U(y) \in Int
    BY <1>1, <1>5
  <2>4. y = W * q + U(y)
    BY <1>6
  <2> HIDE DEF y
  <2> QED BY <2>1, <2>2, <2>3, <2>4, <1>4
<1>8. p + q \in Int
  OBVIOUS
<1>9. U(x + n) = U(y)
  BY <1>5, <1>7, <1>8, Remainder
<1> QED BY <1>9

LEMMA WrapDifference ==
    ASSUME NEW x \in Int, NEW y \in Int
    PROVE  U(U(x) - U(y)) = U(x - y)
<1>1. W \in Nat /\ W > 0
  BY Halves
<1>2. U(x) \in 0 .. W - 1 /\ U(y) \in 0 .. W - 1
  BY Wrapped
<1>3. U(U(x) - U(y)) = U(x - U(y))
  <2>1. U(U(x) + (-U(y))) = U(x + (-U(y)))
    <3>1. -U(y) \in Int
      BY <1>1, <1>2
    <3> QED BY <3>1, WrapAdd
  <2>2. U(x) + (-U(y)) = U(x) - U(y) /\ x + (-U(y)) = x - U(y)
    BY <1>1, <1>2
  <2> QED BY <2>1, <2>2
<1>4. PICK q \in Int : y = W * q + U(y)
  BY Wrapped
<1> DEFINE z == x - U(y)
<1>5. z \in Int
  BY <1>1, <1>2
<1>6. U(z) \in 0 .. W - 1
  BY <1>5, Wrapped
<1>7. PICK p \in Int : z = W * p + U(z)
  BY <1>5, Wrapped
<1>8. x - y = W * (p - q) + U(z)
  <2>1. x - y = z - W * q
    BY <1>1, <1>2, <1>4
  <2>2. W * (p - q) = W * p - W * q
    BY <1>1
  <2> HIDE DEF z
  <2> QED BY <2>1, <2>2, <1>1, <1>5, <1>6, <1>7
<1>9. p - q \in Int
  OBVIOUS
<1>10. U(x - y) = U(z)
  BY <1>6, <1>8, <1>9, Remainder
<1> QED BY <1>3, <1>10


-----------------------------------------------------------------------------
(* _itimediff.                                                             *)

LEMMA DifferenceRange ==
    ASSUME NEW a \in Int, NEW b \in Int
    PROVE  itimediff(a, b) \in -Half .. Half - 1
<1>1. U(a - b) \in 0 .. W - 1
  BY Wrapped
<1> QED BY <1>1, Halves DEF itimediff, Half

(* Less than half a turn apart, the difference is the true one.            *)
LEMMA TrueDifference ==
    ASSUME NEW a \in Int, NEW b \in Int, -Half <= a - b, a - b < Half
    PROVE  itimediff(U(a), U(b)) = a - b
<1>1. U(U(a) - U(b)) = U(a - b)
  BY WrapDifference
<1>2. CASE a - b >= 0
  <2>1. a - b \in 0 .. W - 1
    BY <1>2, Halves
  <2>2. U(a - b) = a - b
    BY <2>1, WrapSmall
  <2> QED BY <1>1, <2>2, Halves DEF itimediff, Half
<1>3. CASE a - b < 0
  <2> DEFINE r == a - b + W
  <2>1. r \in 0 .. W - 1 /\ r >= Half
    BY <1>3, Halves
  <2>2. U(W * (-1) + r) = r
    BY <2>1, Remainder
  <2>3. W * (-1) + r = a - b
    BY Halves
  <2>4. U(U(a) - U(b)) = a - b + W
    BY <1>1, <2>2, <2>3
  <2> QED BY <2>1, <2>4, Halves DEF itimediff, Half
<1> QED BY <1>2, <1>3

(* The difference the other way round, half a turn apart excepted.         *)
LEMMA Antisymmetric ==
    ASSUME NEW a \in Int, NEW b \in Int, itimediff(a, b) # -Half
    PROVE  itimediff(b, a) = -itimediff(a, b)
<1> DEFINE r == U(a - b)
<1>1. r \in 0 .. W - 1
  BY Wrapped
<1>2. PICK q \in Int : a - b = W * q + r
  <2>1. a - b \in Int
    OBVIOUS
  <2> QED BY <2>1, Wrapped
<1>3. CASE r = 0
  <2>1. b - a = W * (-q) + 0
    <3>1. W * (-q) = -(W * q) /\ W * q \in Int
      BY Halves
    <3> QED BY <1>2, <1>3, <3>1
  <2>2. U(b - a) = 0
    <3>1. -q \in Int /\ 0 \in 0 .. W - 1
      BY Halves
    <3>2. U(W * (-q) + 0) = 0
      BY <3>1, Remainder
    <3> QED BY <2>1, <3>2
  <2>3. U(a - b) = 0
    BY <1>3
  <2> QED BY <2>2, <2>3, Halves DEF itimediff, Half
<1>4. CASE r # 0
  <2> DEFINE p == -q - 1
             s == W - r
  <2>1. s \in 0 .. W - 1 /\ p \in Int
    BY <1>1, <1>4, Halves
  <2>2. b - a = W * p + s
    <3>1. W * p = -(W * q) - W /\ W * q \in Int
      BY Halves
    <3>2. b - a = -(W * q) - r
      BY <1>1, <1>2, <3>1
    <3> HIDE DEF p
    <3> QED BY <1>1, <3>1, <3>2, <2>1, Halves
  <2>3. U(W * p + s) = s
    <3> HIDE DEF p, s
    <3> QED BY <2>1, Remainder
  <2>4. U(b - a) = W - U(a - b) /\ U(a - b) \in 1 .. W - 1
    BY <1>1, <1>4, <2>2, <2>3
  <2> QED BY <2>4, Halves DEF itimediff, Half
<1> QED BY <1>3, <1>4


-----------------------------------------------------------------------------
(* The parts of the inductive invariant.                                   *)

Kcps == [nodelay : Nodelays, updated : BOOLEAN, current : 0 .. W - 1,
         ts_flush : 0 .. W - 1, rx_srtt : Nat, rx_rttval : Nat,
         rx_rto : 0 .. IKCP_RTO_MAX, closed : BOOLEAN, probe_wait : Nat,
         ts_probe : 0 .. W - 1]

Segs == [xmit : 0 .. MaxXmit, rto : Nat, resendts : 0 .. W - 1, ts : 0 .. W - 1]

Types ==
    /\ now \in Nat /\ Start <= now
    /\ kcp \in Kcps /\ seg \in Segs
    /\ flushedAt \in 0 .. now /\ sentAt \in 0 .. now /\ probedAt \in 0 .. now
    /\ suspended \in BOOLEAN

(* No stall ends less than SlapMax short of a whole turn of the clock.     *)
GapsShort == \A gap \in Gaps : gap <= W - SlapMax

(* ts_flush stands for a time to come, one interval from the last flush at *)
(* the latest.                                                             *)
FlushAhead ==
    kcp.updated /\ (GapsShort \/ ~suspended) =>
      \E due \in now + 1 .. flushedAt + Interval : kcp.ts_flush = U(due)

(* resendts stands for a time one rto, or an eighth more, after the        *)
(* segment was sent; no flush has passed it over.                          *)
ResendDue ==
    seg.xmit > 0 =>
      /\ kcp.updated
      /\ \E due \in sentAt + seg.rto .. sentAt + seg.rto + seg.rto \div 8 :
           /\ seg.resendts = U(due)
           /\ ~suspended => flushedAt <= due

(* ts_probe stands for the time probe_wait after it was set; no flush has  *)
(* passed it over.                                                         *)
ProbeDue ==
    kcp.probe_wait > 0 /\ ~suspended =>
      /\ kcp.updated
      /\ kcp.ts_probe = U(probedAt + kcp.probe_wait)
      /\ flushedAt <= probedAt + kcp.probe_wait

CInv == Types /\ FlushAhead /\ ResendDue /\ ProbeDue

-----------------------------------------------------------------------------
(* ts_flush: ikcp_update either finds a flush to come, or flushes and sets *)
(* ts_flush to a time within the next interval.                            *)
LEMMA FlushOrWait ==
    ASSUME NEW k \in Kcps, NEW t \in Nat, k.current = U(t),
           NEW due \in Nat, k.ts_flush = U(due),
           due <= t + Interval, t - due < W - SlapMax
    PROVE  \/ /\ itimediff(Reanchor(k).current, Reanchor(k).ts_flush) >= 0
              /\ \E next \in t + 1 .. t + Interval :
                   NextFlush(Reanchor(k)).ts_flush = U(next)
           \/ /\ itimediff(Reanchor(k).current, Reanchor(k).ts_flush) < 0
              /\ Reanchor(k) = k /\ t < due
<1> DEFINE again == [k EXCEPT !.ts_flush = k.current]
<1>0. again \in Kcps /\ again.current = U(t) /\ again.ts_flush = U(t)
  BY DEF Kcps
<1>1. ASSUME NEW r \in Kcps, r.current = U(t),
             NEW d \in Nat, r.ts_flush = U(d), d <= t, t - d < Half
      PROVE  /\ itimediff(r.current, r.ts_flush) >= 0
             /\ \E next \in t + 1 .. t + Interval : NextFlush(r).ts_flush = U(next)
  <2>1. itimediff(U(t), U(d)) = t - d
    BY <1>1, Halves, TrueDifference
  <2>2. U(U(d) + Interval) = U(d + Interval) /\ U(U(t) + Interval) = U(t + Interval)
    <3>1. d \in Int /\ t \in Int /\ Interval \in Int
      BY <1>1, Halves
    <3> QED BY <3>1, WrapAdd
  <2>3. itimediff(U(t), U(d + Interval)) = t - (d + Interval)
    <3>1. d + Interval \in Int /\ -Half <= t - (d + Interval)
          /\ t - (d + Interval) < Half
      BY <1>1, Halves
    <3> QED BY <3>1, TrueDifference
  <2>4. NextFlush(r).ts_flush = IF t - (d + Interval) >= 0 THEN U(t + Interval)
                                                          ELSE U(d + Interval)
    BY <1>1, <2>2, <2>3 DEF NextFlush, Kcps
  <2>5. CASE t - (d + Interval) >= 0
    <3>1. t + Interval \in t + 1 .. t + Interval
      BY Halves
    <3> QED BY <1>1, <2>1, <2>4, <2>5, <3>1
  <2>6. CASE ~ (t - (d + Interval) >= 0)
    <3>1. d + Interval \in t + 1 .. t + Interval
      BY <1>1, <2>6, Halves
    <3> QED BY <1>1, <2>1, <2>4, <2>6, <3>1
  <2> QED BY <2>5, <2>6
<1>2. CASE Reanchor(k) = again
  <2>1. t <= t /\ t - t < Half
    BY Halves
  <2> HIDE DEF again
  <2>2. /\ itimediff(again.current, again.ts_flush) >= 0
        /\ \E next \in t + 1 .. t + Interval : NextFlush(again).ts_flush = U(next)
    BY <1>0, <1>1, <2>1
  <2> QED BY <1>2, <2>2
<1>3. CASE t - due < Half
  <2>1. itimediff(U(t), U(due)) = t - due
    BY <1>3, Halves, TrueDifference
  <2>2. Reanchor(k) = again \/ Reanchor(k) = k
    BY DEF Reanchor
  <2>3. CASE Reanchor(k) = k /\ due <= t
    BY <1>1, <1>3, <2>3
  <2>4. CASE Reanchor(k) = k /\ t < due
    BY <2>1, <2>4
  <2> QED BY <1>2, <2>2, <2>3, <2>4
<1>4. CASE ~ (t - due < Half)
  <2>1. U(due + W) = U(due)
    <3>1. PICK q \in Int : due = W * q + U(due)
      BY Wrapped
    <3>2. W * (q + 1) = W * q + W /\ q + 1 \in Int /\ W * q \in Int
      BY Halves
    <3>3. U(due) \in 0 .. W - 1
      BY Wrapped
    <3>4. due + W = W * (q + 1) + U(due)
      BY <3>1, <3>2, <3>3, Halves
    <3> QED BY <3>2, <3>3, <3>4, Remainder
  <2>2. itimediff(U(t), U(due + W)) = t - (due + W)
    <3>1. due + W \in Int /\ -Half <= t - (due + W) /\ t - (due + W) < Half
      BY <1>4, Halves
    <3> QED BY <3>1, TrueDifference
  <2>3. itimediff(k.current, k.ts_flush) < -SlapMax
    BY <2>1, <2>2, Halves
  <2>4. Reanchor(k) = again
    BY <2>3 DEF Reanchor
  <2> QED BY <1>2, <2>4
<1> QED BY <1>3, <1>4


-----------------------------------------------------------------------------
(* The step of ikcp_update.                                                *)

(* The control block as ikcp_update leaves it before it looks at ts_flush. *)
Called(gap) ==
    [kcp EXCEPT !.current = U(now + gap), !.updated = TRUE,
                !.ts_flush = IF kcp.updated THEN @ ELSE U(now + gap)]

(* k is the control block at the time t, but for ts_flush.                 *)
SameBut(k, t) ==
    /\ k \in Kcps /\ k.current = U(t) /\ k.updated
    /\ k.nodelay = kcp.nodelay /\ k.rx_rto = kcp.rx_rto /\ k.closed = kcp.closed
    /\ k.probe_wait = kcp.probe_wait /\ k.ts_probe = kcp.ts_probe

LEMMA CallForms ==
    ASSUME Types, NEW gap \in Gaps
    PROVE  /\ now + gap \in Nat /\ gap \in Nat
           /\ SameBut(Called(gap), now + gap)
           /\ SameBut(Reanchor(Called(gap)), now + gap)
           /\ SameBut(NextFlush(Reanchor(Called(gap))), now + gap)
           /\ Called(gap).ts_flush = IF kcp.updated THEN kcp.ts_flush ELSE U(now + gap)
<1>1. now \in Nat /\ gap \in Nat /\ Interval \in Nat /\ now + gap \in Nat
  BY ClockSizes DEF Types
<1>2. U(now + gap) \in 0 .. W - 1
  BY <1>1, Wrapped
<1>3. SameBut(Called(gap), now + gap)
      /\ Called(gap).ts_flush = IF kcp.updated THEN kcp.ts_flush ELSE U(now + gap)
  BY <1>2 DEF SameBut, Called, Types, Kcps
<1>4. ASSUME NEW k, SameBut(k, now + gap)
      PROVE  SameBut(Reanchor(k), now + gap)
  BY <1>2, <1>4 DEF SameBut, Reanchor, Kcps
<1>5. ASSUME NEW k, SameBut(k, now + gap)
      PROVE  SameBut(NextFlush(k), now + gap)
  <2>1. k.current \in 0 .. W - 1 /\ k.ts_flush \in 0 .. W - 1
    BY <1>5 DEF SameBut, Kcps
  <2>2. k.current + Interval \in Int /\ k.ts_flush + Interval \in Int
    BY <2>1, <1>1, Halves
  <2>3. U(k.current + Interval) \in 0 .. W - 1 /\ U(k.ts_flush + Interval) \in 0 .. W - 1
    BY <2>2, Wrapped
  <2> QED BY <2>3, <1>5 DEF SameBut, NextFlush, Kcps
<1> QED BY <1>1, <1>3, <1>4, <1>5

(* An update is a flush, or leaves everything but the clock alone.         *)
LEMMA UpdateForms ==
    ASSUME Types, NEW gap \in Gaps, NEW fast \in BOOLEAN, Update(gap, fast)
    PROVE  /\ now' = now + gap
           /\ suspended' = (suspended \/ gap + Interval >= Half)
           /\ LET j == Reanchor(Called(gap))
              IN  \/ itimediff(j.current, j.ts_flush) >= 0 /\ Flush(NextFlush(j), fast)
                  \/ /\ itimediff(j.current, j.ts_flush) < 0
                     /\ kcp' = j
                     /\ UNCHANGED <<seg, flushedAt, sentAt, probedAt>>
BY DEF Update, Called, Half

(* The timer of the window probe leaves ts_flush alone.                    *)
LEMMA ProbeTimerForms ==
    ASSUME NEW k \in Kcps
    PROVE  /\ ProbeTimer(k) \in Kcps
           /\ ProbeTimer(k).ts_flush = k.ts_flush
           /\ ProbeTimer(k).updated = k.updated
           /\ ProbeTimer(k).rx_rto = k.rx_rto
           /\ \/ /\ ~k.closed /\ ProbeTimer(k).probe_wait = 0
              \/ /\ k.closed /\ (ProbeAsked(k) \/ k.probe_wait = 0)
                 /\ ProbeTimer(k).probe_wait \in Nat
                 /\ ProbeTimer(k).ts_probe
                      = U(k.current + ProbeTimer(k).probe_wait)
              \/ /\ k.closed /\ ~ProbeAsked(k) /\ k.probe_wait > 0
                 /\ ProbeTimer(k) = k
<1> DEFINE w == IF k.probe_wait = 0
                THEN IKCP_PROBE_INIT
                ELSE Lesser(Bigger(k.probe_wait, IKCP_PROBE_INIT)
                              + Bigger(k.probe_wait, IKCP_PROBE_INIT) \div 2,
                            IKCP_PROBE_LIMIT)
<1>1. k.probe_wait \in Nat /\ k.current \in 0 .. W - 1
      /\ IKCP_PROBE_INIT \in Nat /\ IKCP_PROBE_LIMIT \in Nat
  BY ClockSizes DEF Kcps
<1>2. w \in Nat
  BY <1>1 DEF Lesser, Bigger
<1>3. U(k.current + w) \in 0 .. W - 1
  <2>1. k.current + w \in Int
    BY <1>1, <1>2, Halves
  <2> QED BY <2>1, Wrapped
<1>4. 0 \in 0 .. W - 1
  BY Halves
<1>5. ProbeTimer(k) = IF ~k.closed THEN [k EXCEPT !.probe_wait = 0, !.ts_probe = 0]
                      ELSE IF k.probe_wait = 0 \/ ProbeAsked(k)
                      THEN [k EXCEPT !.probe_wait = w, !.ts_probe = U(k.current + w)]
                      ELSE k
  BY DEF ProbeTimer
<1> HIDE DEF w
<1>6. CASE ~k.closed
  <2>1. ProbeTimer(k) = [k EXCEPT !.probe_wait = 0, !.ts_probe = 0]
    BY <1>5, <1>6
  <2> DEFINE off == [k EXCEPT !.probe_wait = 0, !.ts_probe = 0]
  <2>2. /\ off \in Kcps /\ off.ts_flush = k.ts_flush /\ off.updated = k.updated
        /\ off.rx_rto = k.rx_rto /\ off.probe_wait = 0
    BY <1>4 DEF Kcps
  <2>3. ProbeTimer(k) = off
    BY <2>1
  <2> HIDE DEF off
  <2> QED BY <2>2, <2>3, <1>6
<1>7. CASE k.closed /\ (k.probe_wait = 0 \/ ProbeAsked(k))
  <2>1. ProbeTimer(k) = [k EXCEPT !.probe_wait = w, !.ts_probe = U(k.current + w)]
    BY <1>5, <1>7
  <2> QED BY <2>1, <1>2, <1>3, <1>7 DEF Kcps
<1>8. CASE k.closed /\ ~ (k.probe_wait = 0 \/ ProbeAsked(k))
  BY <1>1, <1>5, <1>8
<1> QED BY <1>6, <1>7, <1>8

(* ts_flush stays ahead of the time.                                       *)
LEMMA UpdateFlushAhead ==
    ASSUME Types, FlushAhead, NEW gap \in Gaps, NEW fast \in BOOLEAN,
           Update(gap, fast)
    PROVE  FlushAhead'
<1> SUFFICES ASSUME (GapsShort \/ ~suspended)'
             PROVE  \E due \in now' + 1 .. flushedAt' + Interval : kcp'.ts_flush = U(due)
  BY DEF FlushAhead
<1> DEFINE t == now + gap
           b == Called(gap)
           j == Reanchor(b)
<1>1. t \in Nat /\ gap \in Nat /\ SameBut(b, t) /\ SameBut(j, t)
      /\ SameBut(NextFlush(j), t)
      /\ b.ts_flush = IF kcp.updated THEN kcp.ts_flush ELSE U(t)
  BY CallForms
<1>2. now' = t /\ suspended' = (suspended \/ gap + Interval >= Half)
      /\ (\/ itimediff(j.current, j.ts_flush) >= 0 /\ Flush(NextFlush(j), fast)
          \/ /\ itimediff(j.current, j.ts_flush) < 0
             /\ kcp' = j
             /\ UNCHANGED <<seg, flushedAt, sentAt, probedAt>>)
  BY UpdateForms
<1>3. now \in Nat /\ flushedAt \in 0 .. now /\ Interval \in Nat
  BY Halves DEF Types
<1>4. gap < W - SlapMax + 1 /\ (GapsShort \/ ~suspended)
  <2>1. CASE GapsShort'
    BY <2>1, <1>1, Halves DEF GapsShort
  <2>2. CASE ~suspended'
    <3>1. ~suspended /\ ~(gap + Interval >= Half)
      BY <2>2, <1>2
    <3> QED BY <3>1, <1>1, Halves
  <2> QED BY <2>1, <2>2
<1> HIDE DEF t, b, j
<1>5. \E due \in Nat : /\ b.ts_flush = U(due)
                       /\ due <= t + Interval /\ t - due < W - SlapMax
                       /\ t < due => due <= flushedAt + Interval
  <2>1. CASE kcp.updated
    <3>1. PICK due \in now + 1 .. flushedAt + Interval : kcp.ts_flush = U(due)
      BY <1>4, <2>1 DEF FlushAhead
    <3>2. t = now + gap
      BY DEF t
    <3>3. due \in Nat /\ due <= t + Interval /\ t - due < W - SlapMax
          /\ due <= flushedAt + Interval
      BY <3>2, <1>1, <1>3, <1>4, Halves
    <3> QED BY <1>1, <2>1, <3>1, <3>3
  <2>2. CASE ~kcp.updated
    <3>1. t <= t + Interval /\ t - t < W - SlapMax
      BY <1>1, <1>3, Halves
    <3> QED BY <1>1, <2>2, <3>1
  <2> QED BY <2>1, <2>2
<1>6. PICK due \in Nat : /\ b.ts_flush = U(due)
                         /\ due <= t + Interval /\ t - due < W - SlapMax
                         /\ t < due => due <= flushedAt + Interval
  BY <1>5
<1>7. b \in Kcps /\ b.current = U(t)
  BY <1>1 DEF SameBut
<1>8. \/ /\ itimediff(j.current, j.ts_flush) >= 0
         /\ \E next \in t + 1 .. t + Interval : NextFlush(j).ts_flush = U(next)
      \/ /\ itimediff(j.current, j.ts_flush) < 0
         /\ j = b /\ t < due
  BY <1>1, <1>6, <1>7, FlushOrWait DEF j
<1>9. itimediff(j.current, j.ts_flush) \in Int
  <2>1. j.current \in Int /\ j.ts_flush \in Int
    BY <1>1, Halves DEF SameBut, Kcps
  <2>2. itimediff(j.current, j.ts_flush) \in -Half .. Half - 1
    BY <2>1, DifferenceRange
  <2> QED BY <2>2, Halves
<1>10. CASE itimediff(j.current, j.ts_flush) >= 0 /\ Flush(NextFlush(j), fast)
  <2>1. PICK next \in t + 1 .. t + Interval : NextFlush(j).ts_flush = U(next)
    BY <1>8, <1>9, <1>10
  <2>2. flushedAt' = now' /\ kcp' = ProbeTimer(NextFlush(j))
    BY <1>10 DEF Flush
  <2>3. kcp'.ts_flush = NextFlush(j).ts_flush
    BY <2>2, <1>1, ProbeTimerForms DEF SameBut
  <2> QED BY <1>2, <2>1, <2>2, <2>3
<1>11. CASE /\ itimediff(j.current, j.ts_flush) < 0
            /\ kcp' = j
            /\ UNCHANGED <<seg, flushedAt, sentAt, probedAt>>
  <2>1. j = b /\ t < due
    BY <1>8, <1>9, <1>11
  <2>2. kcp'.ts_flush = U(due)
    BY <2>1, <1>6, <1>11
  <2>3. due \in t + 1 .. flushedAt + Interval
    BY <2>1, <1>1, <1>3, <1>6
  <2> QED BY <1>2, <1>11, <2>2, <2>3
<1> QED BY <1>2, <1>10, <1>11


-----------------------------------------------------------------------------
(* The timers of the segment in a flush.                                   *)

(* The rto after a timeout: at most the larger of rto and rx_rto more.     *)
LEMMA BackOffBound ==
    ASSUME NEW k \in Kcps, NEW s \in Segs
    PROVE  BackedOff(k, s) \in 0 .. W - 1
           /\ BackedOff(k, s) <= s.rto + Bigger(s.rto, k.rx_rto)
<1> DEFINE more == CASE k.nodelay = 0 -> Bigger(s.rto, k.rx_rto)
                     [] k.nodelay = 1 -> s.rto \div 2
                     [] OTHER       -> k.rx_rto \div 2
           x == s.rto + more
<1>1. s.rto \in Nat /\ k.rx_rto \in Nat
  BY ClockSizes DEF Segs, Kcps
<1>2. more \in Nat /\ more <= Bigger(s.rto, k.rx_rto)
  <2>1. Bigger(s.rto, k.rx_rto) \in Nat /\ s.rto <= Bigger(s.rto, k.rx_rto)
        /\ k.rx_rto <= Bigger(s.rto, k.rx_rto)
    BY <1>1 DEF Bigger
  <2>2. s.rto \div 2 \in Nat /\ s.rto \div 2 <= s.rto
        /\ k.rx_rto \div 2 \in Nat /\ k.rx_rto \div 2 <= k.rx_rto
    BY <1>1
  <2>3. CASE k.nodelay = 0
    BY <2>1, <2>3
  <2>4. CASE k.nodelay = 1
    <3>1. more = s.rto \div 2
      BY <2>4
    <3> QED BY <1>1, <2>1, <2>2, <3>1
  <2>5. CASE k.nodelay # 0 /\ k.nodelay # 1
    <3>1. more = k.rx_rto \div 2
      BY <2>5
    <3> QED BY <1>1, <2>1, <2>2, <3>1
  <2> QED BY <2>3, <2>4, <2>5
<1>3. BackedOff(k, s) = U(x)
  BY DEF BackedOff
<1> HIDE DEF more
<1>4. x \in Nat /\ x <= s.rto + Bigger(s.rto, k.rx_rto)
  BY <1>1, <1>2 DEF Bigger
<1> HIDE DEF x
<1>5. U(x) \in 0 .. W - 1
  BY <1>4, Wrapped
<1>6. U(x) <= x
  <2>1. CASE x <= W - 1
    <3>1. x \in 0 .. W - 1
      BY <1>4, <2>1, Halves
    <3> QED BY <3>1, <1>4, WrapSmall
  <2>2. CASE ~ (x <= W - 1)
    BY <1>4, <1>5, <2>2, Halves
  <2> QED BY <2>1, <2>2
<1> QED
  <2>1. s.rto + Bigger(s.rto, k.rx_rto) \in Int
    BY <1>1 DEF Bigger
  <2> QED BY <2>1, <1>3, <1>4, <1>5, <1>6, Halves

(* A segment that is sent gets a resendts one rto, or an eighth more, from *)
(* now; its rto changes only with its first sending and after a timeout,   *)
(* and one that has timed out is always sent.                              *)
LEMMA SegmentForms ==
    ASSUME NEW k \in Kcps, NEW s \in Segs, NEW t \in Nat, k.current = U(t),
           NEW fast \in BOOLEAN, TimedOut(k, s) => s.xmit < MaxXmit
    PROVE  /\ SegmentTimer(k, s, fast) \in Segs
           /\ \/ /\ SegmentTimer(k, s, fast) = s
                 /\ ~TimedOut(k, s)
              \/ \E rto \in Nat, due \in Nat :
                   /\ SegmentTimer(k, s, fast) =
                        [xmit |-> Lesser(s.xmit + 1, MaxXmit), rto |-> rto,
                         ts |-> U(t), resendts |-> U(due)]
                   /\ due \in t + rto .. t + rto + rto \div 8
                   /\ \/ s.xmit = 0 /\ rto = k.rx_rto
                      \/ TimedOut(k, s) /\ s.xmit > 0 /\ rto = BackedOff(k, s)
                      \/ s.xmit > 0 /\ ~TimedOut(k, s) /\ rto = s.rto
<1>1. s.xmit \in 0 .. MaxXmit /\ s.rto \in Nat /\ k.rx_rto \in Nat
      /\ U(t) \in 0 .. W - 1 /\ MaxXmit \in Nat /\ MaxXmit > 0
  <2>1. U(t) \in 0 .. W - 1
    BY Wrapped
  <2> QED BY <2>1, ClockSizes DEF Segs, Kcps
<1> DEFINE sent(rto, more) ==
             [xmit |-> Lesser(s.xmit + 1, MaxXmit), rto |-> rto, ts |-> k.current,
              resendts |-> U(k.current + rto + more)]
<1>2. ASSUME NEW rto \in Nat, NEW more \in Nat, more <= rto \div 8
      PROVE  /\ sent(rto, more) \in Segs
             /\ \E due \in Nat :
                  /\ sent(rto, more) = [xmit |-> Lesser(s.xmit + 1, MaxXmit),
                                        rto |-> rto, ts |-> U(t), resendts |-> U(due)]
                  /\ due \in t + rto .. t + rto + rto \div 8
  <2> DEFINE due == t + (rto + more)
  <2>1. U(k.current + (rto + more)) = U(due)
    BY WrapAdd
  <2>2. k.current + rto + more = k.current + (rto + more)
    BY <1>1, Halves
  <2>3. due \in Nat /\ due \in t + rto .. t + rto + rto \div 8
    BY <1>2
  <2>4. U(due) \in 0 .. W - 1
    BY <2>3, Wrapped
  <2>5. Lesser(s.xmit + 1, MaxXmit) \in 0 .. MaxXmit
    BY <1>1 DEF Lesser
  <2> HIDE DEF due
  <2>6. sent(rto, more) = [xmit |-> Lesser(s.xmit + 1, MaxXmit),
                           rto |-> rto, ts |-> U(t), resendts |-> U(due)]
    BY <2>1, <2>2
  <2>7. sent(rto, more) \in Segs
    BY <1>1, <2>4, <2>5, <2>6 DEF Segs
  <2> HIDE DEF sent
  <2> QED BY <2>3, <2>6, <2>7
<1> DEFINE eighth == IF k.nodelay = 0 THEN k.rx_rto \div 8 ELSE 0
<1>3. eighth \in Nat /\ eighth <= k.rx_rto \div 8 /\ 0 <= s.rto \div 8
  BY <1>1
<1>4. BackedOff(k, s) \in Nat /\ 0 <= BackedOff(k, s) \div 8
  BY BackOffBound, Halves
<1>5. NoSegment.xmit = 0 /\ Queued.xmit = 0 /\ NoSegment # Queued
  <2>1. NoSegment.rto # Queued.rto
    BY DEF NoSegment, Queued
  <2> QED BY <2>1 DEF NoSegment, Queued
<1>6. SegmentTimer(k, s, fast) =
        CASE s = NoSegment  -> s
          [] s = Queued /\ ~k.closed -> sent(k.rx_rto, eighth)
          [] s.xmit > 0 /\ TimedOut(k, s) -> sent(BackedOff(k, s), 0)
          [] s.xmit > 0 /\ ~TimedOut(k, s) /\ fast -> sent(s.rto, 0)
          [] OTHER -> s
  BY DEF SegmentTimer
<1> HIDE DEF sent, eighth
<1>7. s.xmit > 0 => s # NoSegment /\ s # Queued
  BY <1>5
<1>8. CASE s = NoSegment
  <2>1. SegmentTimer(k, s, fast) = s
    BY <1>5, <1>6, <1>8
  <2> QED BY <2>1, <1>5, <1>8 DEF TimedOut
<1>9. CASE s = Queued /\ ~k.closed
  <2>1. SegmentTimer(k, s, fast) = sent(k.rx_rto, eighth)
    BY <1>5, <1>6, <1>9
  <2>2. /\ sent(k.rx_rto, eighth) \in Segs
        /\ \E due \in Nat :
             /\ sent(k.rx_rto, eighth) = [xmit |-> Lesser(s.xmit + 1, MaxXmit),
                    rto |-> k.rx_rto, ts |-> U(t), resendts |-> U(due)]
             /\ due \in t + k.rx_rto .. t + k.rx_rto + k.rx_rto \div 8
    BY <1>1, <1>2, <1>3
  <2>3. s.xmit = 0
    BY <1>5, <1>9
  <2> QED BY <2>1, <2>2, <2>3, <1>1
<1>10. CASE s.xmit > 0 /\ TimedOut(k, s)
  <2>1. SegmentTimer(k, s, fast) = sent(BackedOff(k, s), 0)
    BY <1>6, <1>7, <1>10
  <2> QED BY <2>1, <1>2, <1>4, <1>10
<1>11. CASE s.xmit > 0 /\ ~TimedOut(k, s) /\ fast
  <2>1. SegmentTimer(k, s, fast) = sent(s.rto, 0)
    BY <1>6, <1>7, <1>11
  <2>2. /\ sent(s.rto, 0) \in Segs
        /\ \E due \in Nat :
             /\ sent(s.rto, 0) = [xmit |-> Lesser(s.xmit + 1, MaxXmit),
                    rto |-> s.rto, ts |-> U(t), resendts |-> U(due)]
             /\ due \in t + s.rto .. t + s.rto + s.rto \div 8
    BY <1>1, <1>2, <1>3
  <2> QED BY <2>1, <2>2, <1>1, <1>11
<1>12. CASE /\ s # NoSegment /\ ~(s = Queued /\ ~k.closed)
            /\ ~(s.xmit > 0 /\ TimedOut(k, s))
            /\ ~(s.xmit > 0 /\ ~TimedOut(k, s) /\ fast)
  <2>1. SegmentTimer(k, s, fast) = s
    BY <1>6, <1>12
  <2>2. ~TimedOut(k, s)
    BY <1>12 DEF TimedOut
  <2> QED BY <2>1, <2>2
<1> QED BY <1>8, <1>9, <1>10, <1>11, <1>12


LEMMA FlushSegment ==
    ASSUME Types, NEW t \in Nat, NEW n, SameBut(n, t), NEW fast \in BOOLEAN,
           Flush(n, fast)
    PROVE  /\ seg' \in Segs
           /\ \/ seg' = seg /\ sentAt' = sentAt /\ ~TimedOut(n, seg)
              \/ /\ seg' # seg /\ sentAt' = now'
                 /\ \E rto \in Nat, due \in Nat :
                      /\ seg' = [xmit |-> Lesser(seg.xmit + 1, MaxXmit), rto |-> rto,
                                 ts |-> U(t), resendts |-> U(due)]
                      /\ due \in t + rto .. t + rto + rto \div 8
                      /\ \/ seg.xmit = 0 /\ rto = n.rx_rto
                         \/ TimedOut(n, seg) /\ seg.xmit > 0 /\ rto = BackedOff(n, seg)
                         \/ seg.xmit > 0 /\ ~TimedOut(n, seg) /\ rto = seg.rto
<1>1. /\ TimedOut(n, seg) => seg.xmit < MaxXmit
      /\ seg' = SegmentTimer(n, seg, fast)
      /\ sentAt' = IF seg' = seg THEN sentAt ELSE now'
  BY DEF Flush
<1>2. n \in Kcps /\ n.current = U(t) /\ seg \in Segs /\ MaxXmit \in Nat /\ MaxXmit > 0
      /\ seg.xmit \in 0 .. MaxXmit
  BY ClockSizes DEF SameBut, Types, Segs
<1> DEFINE new(rto, due) == [xmit |-> Lesser(seg.xmit + 1, MaxXmit), rto |-> rto,
                             ts |-> U(t), resendts |-> U(due)]
<1>3. /\ SegmentTimer(n, seg, fast) \in Segs
      /\ \/ SegmentTimer(n, seg, fast) = seg /\ ~TimedOut(n, seg)
         \/ \E rto \in Nat, due \in Nat :
              /\ SegmentTimer(n, seg, fast) = new(rto, due)
              /\ due \in t + rto .. t + rto + rto \div 8
              /\ \/ seg.xmit = 0 /\ rto = n.rx_rto
                 \/ TimedOut(n, seg) /\ seg.xmit > 0 /\ rto = BackedOff(n, seg)
                 \/ seg.xmit > 0 /\ ~TimedOut(n, seg) /\ rto = seg.rto
  BY <1>1, <1>2, SegmentForms
<1>4. ASSUME NEW rto, NEW due, seg = new(rto, due)
      PROVE  ~TimedOut(n, seg)
  <2>1. seg.xmit = Lesser(seg.xmit + 1, MaxXmit)
    BY <1>4
  <2>2. ~(seg.xmit < MaxXmit)
    BY <2>1, <1>2 DEF Lesser
  <2> QED BY <2>2, <1>1
<1> HIDE DEF new
<1>5. CASE seg' = seg
  <2>1. ~TimedOut(n, seg)
    BY <1>1, <1>3, <1>4, <1>5
  <2> QED BY <2>1, <1>1, <1>2, <1>5
<1>6. CASE seg' # seg
  <2>1. sentAt' = now' /\ seg' \in Segs
    BY <1>1, <1>3, <1>6
  <2>2. \E rto \in Nat, due \in Nat :
              /\ seg' = new(rto, due)
              /\ due \in t + rto .. t + rto + rto \div 8
              /\ \/ seg.xmit = 0 /\ rto = n.rx_rto
                 \/ TimedOut(n, seg) /\ seg.xmit > 0 /\ rto = BackedOff(n, seg)
                 \/ seg.xmit > 0 /\ ~TimedOut(n, seg) /\ rto = seg.rto
    BY <1>1, <1>3, <1>6
  <2> QED BY <2>1, <2>2, <1>6 DEF new
<1> QED BY <1>5, <1>6

(* Without a suspension, at the next call of ikcp_update a time that no    *)
(* flush has passed over is less than half a turn ago.                     *)
LEMMA LessThanHalf ==
    ASSUME Types, FlushAhead, NEW gap \in Gaps, kcp.updated, ~suspended,
           gap + Interval < Half
    PROVE  \A due \in Nat : flushedAt <= due => (now + gap) - due < Half
<1>1. PICK next \in now + 1 .. flushedAt + Interval : kcp.ts_flush = U(next)
  BY DEF FlushAhead
<1>2. gap \in Nat /\ now \in Nat /\ flushedAt \in 0 .. now
  BY ClockSizes DEF Types
<1> QED BY <1>1, <1>2, Halves

LEMMA UpdateResendDue ==
    ASSUME Types, FlushAhead, ResendDue, NEW gap \in Gaps, NEW fast \in BOOLEAN,
           Update(gap, fast)
    PROVE  ResendDue'
<1> SUFFICES ASSUME seg'.xmit > 0
             PROVE  /\ kcp'.updated
                    /\ \E due \in sentAt' + seg'.rto
                                    .. sentAt' + seg'.rto + seg'.rto \div 8 :
                         /\ seg'.resendts = U(due)
                         /\ ~suspended' => flushedAt' <= due
  BY DEF ResendDue
<1> DEFINE t == now + gap
           j == Reanchor(Called(gap))
           n == NextFlush(j)
<1>1. t \in Nat /\ gap \in Nat /\ SameBut(j, t) /\ SameBut(n, t)
  BY CallForms
<1>2. now' = t /\ suspended' = (suspended \/ gap + Interval >= Half)
      /\ (\/ itimediff(j.current, j.ts_flush) >= 0 /\ Flush(n, fast)
          \/ /\ itimediff(j.current, j.ts_flush) < 0
             /\ kcp' = j
             /\ UNCHANGED <<seg, flushedAt, sentAt, probedAt>>)
  BY UpdateForms
<1>3. now \in Nat /\ flushedAt \in 0 .. now /\ sentAt \in 0 .. now /\ seg.rto \in Nat
      /\ sentAt + seg.rto \in Nat
  BY DEF Types, Segs
<1>4. ASSUME kcp.updated, ~suspended'
      PROVE  \A due \in Nat : flushedAt <= due => t - due < Half
  <2>1. ~suspended /\ ~(gap + Interval >= Half)
    BY <1>2, <1>4
  <2>2. gap + Interval < Half
    BY <1>1, <2>1, Halves
  <2>3. \A due \in Nat : flushedAt <= due => (now + gap) - due < Half
    BY <1>4, <2>1, <2>2, LessThanHalf
  <2> QED BY <2>3
<1> HIDE DEF t, n, j
<1>5. CASE Flush(n, fast)
  <2>1. kcp' = ProbeTimer(n) /\ flushedAt' = now'
    BY <1>5 DEF Flush
  <2>2. kcp'.updated
    BY <1>1, <2>1, ProbeTimerForms DEF SameBut
  <2>3. /\ seg' \in Segs
        /\ \/ seg' = seg /\ sentAt' = sentAt /\ ~TimedOut(n, seg)
           \/ /\ seg' # seg /\ sentAt' = now'
              /\ \E rto \in Nat, due \in Nat :
                   /\ seg' = [xmit |-> Lesser(seg.xmit + 1, MaxXmit), rto |-> rto,
                              ts |-> U(t), resendts |-> U(due)]
                   /\ due \in t + rto .. t + rto + rto \div 8
    BY <1>1, <1>5, FlushSegment
  <2>4. CASE seg' = seg /\ sentAt' = sentAt /\ ~TimedOut(n, seg)
    <3>1. kcp.updated /\ seg.xmit > 0
      BY <2>4 DEF ResendDue
    <3>2. PICK due \in sentAt + seg.rto .. sentAt + seg.rto + seg.rto \div 8 :
             seg.resendts = U(due) /\ (~suspended => flushedAt <= due)
      BY <2>4 DEF ResendDue
    <3>3. due \in Nat
      BY <1>3, <3>2
    <3>4. ASSUME ~suspended' PROVE t <= due
      <4>1. ~suspended
        BY <1>2, <3>4
      <4>2. flushedAt <= due
        BY <3>2, <4>1
      <4>3. t - due < Half
        BY <1>4, <3>1, <3>3, <3>4, <4>2
      <4>4. SUFFICES ASSUME t > due PROVE FALSE
        BY <1>1, <3>3
      <4>5. -Half <= t - due
        BY <1>1, <3>3, <4>4, Halves
      <4>6. itimediff(U(t), U(due)) = t - due
        BY <1>1, <3>3, <4>3, <4>5, TrueDifference
      <4>7. itimediff(n.current, seg.resendts) >= 0
        BY <1>1, <3>2, <3>3, <4>4, <4>6 DEF SameBut
      <4> QED BY <2>4, <3>1, <4>7 DEF TimedOut
    <3> QED BY <1>2, <2>1, <2>2, <2>4, <3>2, <3>4
  <2>5. CASE seg' # seg /\ sentAt' = now'
    <3>1. PICK rto \in Nat, due \in Nat :
                   /\ seg' = [xmit |-> Lesser(seg.xmit + 1, MaxXmit), rto |-> rto,
                              ts |-> U(t), resendts |-> U(due)]
                   /\ due \in t + rto .. t + rto + rto \div 8
      BY <2>3, <2>5
    <3>2. seg'.rto = rto /\ seg'.resendts = U(due)
      BY <3>1
    <3>3. t <= due
      BY <1>1, <3>1
    <3> QED BY <1>2, <2>1, <2>2, <2>5, <3>1, <3>2, <3>3
  <2> QED BY <2>3, <2>4, <2>5
<1>6. CASE kcp' = j /\ UNCHANGED <<seg, flushedAt, sentAt, probedAt>>
  <2>1. kcp'.updated
    BY <1>1, <1>6 DEF SameBut
  <2>2. ~suspended' => ~suspended
    BY <1>2
  <2>3. seg' = seg /\ sentAt' = sentAt /\ flushedAt' = flushedAt
    BY <1>6
  <2>4. PICK due \in sentAt + seg.rto .. sentAt + seg.rto + seg.rto \div 8 :
             seg.resendts = U(due) /\ (~suspended => flushedAt <= due)
    BY <2>3 DEF ResendDue
  <2> QED BY <2>1, <2>2, <2>3, <2>4
<1> QED BY <1>2, <1>5, <1>6

LEMMA UpdateProbeDue ==
    ASSUME Types, FlushAhead, ProbeDue, NEW gap \in Gaps, NEW fast \in BOOLEAN,
           Update(gap, fast)
    PROVE  ProbeDue'
<1> SUFFICES ASSUME kcp'.probe_wait > 0, ~suspended'
             PROVE  /\ kcp'.updated
                    /\ kcp'.ts_probe = U(probedAt' + kcp'.probe_wait)
                    /\ flushedAt' <= probedAt' + kcp'.probe_wait
  BY DEF ProbeDue
<1> DEFINE t == now + gap
           j == Reanchor(Called(gap))
           n == NextFlush(j)
<1>1. t \in Nat /\ gap \in Nat /\ SameBut(j, t) /\ SameBut(n, t)
  BY CallForms
<1>2. now' = t /\ suspended' = (suspended \/ gap + Interval >= Half)
      /\ (\/ itimediff(j.current, j.ts_flush) >= 0 /\ Flush(n, fast)
          \/ /\ itimediff(j.current, j.ts_flush) < 0
             /\ kcp' = j
             /\ UNCHANGED <<seg, flushedAt, sentAt, probedAt>>)
  BY UpdateForms
<1>3. now \in Nat /\ flushedAt \in 0 .. now /\ probedAt \in 0 .. now
      /\ kcp.probe_wait \in Nat
  BY DEF Types, Kcps
<1>4. ASSUME kcp.updated, ~suspended'
      PROVE  \A due \in Nat : flushedAt <= due => t - due < Half
  <2>1. ~suspended /\ ~(gap + Interval >= Half)
    BY <1>2, <1>4
  <2>2. gap + Interval < Half
    BY <1>1, <2>1, Halves
  <2>3. \A due \in Nat : flushedAt <= due => (now + gap) - due < Half
    BY <1>4, <2>1, <2>2, LessThanHalf
  <2> QED BY <2>3
<1>5. ~suspended
  BY <1>2
<1> HIDE DEF t, n, j
<1>6. CASE Flush(n, fast)
  <2>1. kcp' = ProbeTimer(n) /\ flushedAt' = now'
        /\ probedAt' = CASE ~n.closed -> Start
                         [] n.closed /\ (ProbeAsked(n) \/ n.probe_wait = 0) -> now'
                         [] OTHER -> probedAt
    BY <1>6 DEF Flush
  <2>2. /\ n \in Kcps /\ n.updated /\ n.current = U(t)
        /\ n.probe_wait = kcp.probe_wait /\ n.ts_probe = kcp.ts_probe
    BY <1>1 DEF SameBut
  <2>3. /\ kcp'.updated
        /\ \/ ~n.closed /\ kcp'.probe_wait = 0
           \/ /\ n.closed /\ (ProbeAsked(n) \/ n.probe_wait = 0)
              /\ kcp'.probe_wait \in Nat
              /\ kcp'.ts_probe = U(n.current + kcp'.probe_wait)
           \/ n.closed /\ ~ProbeAsked(n) /\ n.probe_wait > 0 /\ kcp' = n
    BY <2>1, <2>2, ProbeTimerForms
  <2>4. CASE ~n.closed /\ kcp'.probe_wait = 0
    BY <2>4
  <2>5. CASE /\ n.closed /\ (ProbeAsked(n) \/ n.probe_wait = 0)
             /\ kcp'.probe_wait \in Nat
             /\ kcp'.ts_probe = U(n.current + kcp'.probe_wait)
    <3>1. probedAt' = t
      BY <1>2, <2>1, <2>5
    <3>2. U(U(t) + kcp'.probe_wait) = U(t + kcp'.probe_wait)
      <4>1. t \in Int /\ kcp'.probe_wait \in Int
        BY <1>1, <2>5
      <4> QED BY <4>1, WrapAdd
    <3> QED BY <1>1, <1>2, <2>1, <2>2, <2>3, <2>5, <3>1, <3>2
  <2>6. CASE n.closed /\ ~ProbeAsked(n) /\ n.probe_wait > 0 /\ kcp' = n
    <3>1. probedAt' = probedAt
      BY <1>3, <2>1, <2>2, <2>6
    <3> DEFINE due == probedAt + kcp.probe_wait
    <3>2. kcp.updated /\ kcp.ts_probe = U(due) /\ flushedAt <= due /\ due \in Nat
      BY <1>3, <1>5, <2>2, <2>6 DEF ProbeDue
    <3> HIDE DEF due
    <3>3. t - due < Half
      BY <1>4, <3>2
    <3>4. ASSUME t > due PROVE FALSE
      <4>1. -Half <= t - due
        BY <1>1, <3>2, <3>4, Halves
      <4>2. itimediff(U(t), U(due)) = t - due
        BY <1>1, <3>2, <3>3, <4>1, TrueDifference
      <4> QED BY <1>1, <2>2, <2>6, <3>2, <3>4, <4>2 DEF ProbeAsked
    <3>5. t <= due
      BY <1>1, <3>2, <3>4
    <3> QED BY <1>2, <2>1, <2>2, <2>6, <3>1, <3>2, <3>5 DEF due
  <2> QED BY <2>3, <2>4, <2>5, <2>6
<1>7. CASE kcp' = j /\ UNCHANGED <<seg, flushedAt, sentAt, probedAt>>
  <2>1. kcp'.updated /\ kcp'.probe_wait = kcp.probe_wait /\ kcp'.ts_probe = kcp.ts_probe
    BY <1>1, <1>7 DEF SameBut
  <2>2. probedAt' = probedAt /\ flushedAt' = flushedAt
    BY <1>7
  <2> QED BY <2>1, <2>2, <1>5 DEF ProbeDue
<1> QED BY <1>2, <1>6, <1>7


LEMMA UpdateTypes ==
    ASSUME Types, NEW gap \in Gaps, NEW fast \in BOOLEAN, Update(gap, fast)
    PROVE  Types'
<1> DEFINE t == now + gap
           j == Reanchor(Called(gap))
           n == NextFlush(j)
<1>1. t \in Nat /\ gap \in Nat /\ SameBut(j, t) /\ SameBut(n, t)
  BY CallForms
<1>2. now' = t /\ suspended' = (suspended \/ gap + Interval >= Half)
      /\ (\/ itimediff(j.current, j.ts_flush) >= 0 /\ Flush(n, fast)
          \/ /\ itimediff(j.current, j.ts_flush) < 0
             /\ kcp' = j
             /\ UNCHANGED <<seg, flushedAt, sentAt, probedAt>>)
  BY UpdateForms
<1>3. now \in Nat /\ Start \in Nat /\ Start <= now /\ seg \in Segs
      /\ flushedAt \in 0 .. now /\ sentAt \in 0 .. now /\ probedAt \in 0 .. now
  BY ClockSizes DEF Types
<1>4. now <= now' /\ now' \in Nat
  BY <1>1, <1>2, <1>3
<1>5. suspended' \in BOOLEAN
  BY <1>2
<1>6. j \in Kcps /\ n \in Kcps
  BY <1>1 DEF SameBut
<1> HIDE DEF t, n, j
<1>7. CASE Flush(n, fast)
  <2>1. kcp' = ProbeTimer(n) /\ flushedAt' = now'
        /\ probedAt' = CASE ~n.closed -> Start
                         [] n.closed /\ (ProbeAsked(n) \/ n.probe_wait = 0) -> now'
                         [] OTHER -> probedAt
    BY <1>7 DEF Flush
  <2>2. probedAt' \in {Start, now', probedAt}
    <3>1. CASE ~n.closed
      BY <2>1, <3>1
    <3>2. CASE n.closed /\ (ProbeAsked(n) \/ n.probe_wait = 0)
      BY <2>1, <3>2
    <3>3. CASE n.closed /\ ~(ProbeAsked(n) \/ n.probe_wait = 0)
      BY <2>1, <3>3
    <3> QED BY <3>1, <3>2, <3>3
  <2>3. kcp' \in Kcps
    BY <2>1, <1>6, ProbeTimerForms
  <2>4. seg' \in Segs /\ sentAt' \in {sentAt, now'}
    BY <1>1, <1>7, FlushSegment
  <2>5. /\ Start <= now' /\ flushedAt' \in 0 .. now'
        /\ sentAt' \in 0 .. now' /\ probedAt' \in 0 .. now'
    BY <1>3, <1>4, <2>1, <2>2, <2>4
  <2> QED BY <1>4, <1>5, <2>3, <2>4, <2>5 DEF Types
<1>8. CASE kcp' = j /\ UNCHANGED <<seg, flushedAt, sentAt, probedAt>>
  <2>1. /\ Start <= now' /\ flushedAt' \in 0 .. now'
        /\ sentAt' \in 0 .. now' /\ probedAt' \in 0 .. now'
    BY <1>3, <1>4, <1>8
  <2> QED BY <1>3, <1>4, <1>5, <1>6, <1>8, <2>1 DEF Types
<1> QED BY <1>2, <1>7, <1>8

-----------------------------------------------------------------------------
(* The other steps.                                                        *)

(* The estimate of the timeout stays within its limit.                     *)
LEMMA AckForms ==
    ASSUME NEW k \in Kcps, NEW rtt \in Nat
    PROVE  /\ UpdateAck(k, rtt) \in Kcps
           /\ UpdateAck(k, rtt).updated = k.updated
           /\ UpdateAck(k, rtt).ts_flush = k.ts_flush
           /\ UpdateAck(k, rtt).probe_wait = k.probe_wait
           /\ UpdateAck(k, rtt).ts_probe = k.ts_probe
<1> DEFINE delta  == IF rtt < k.rx_srtt THEN k.rx_srtt - rtt ELSE rtt - k.rx_srtt
           rttval == IF k.rx_srtt = 0 THEN rtt \div 2
                                      ELSE (3 * k.rx_rttval + delta) \div 4
           srtt   == IF k.rx_srtt = 0 THEN rtt
                                      ELSE Bigger(1, (7 * k.rx_srtt + rtt) \div 8)
           rto    == Bound(MinRto, srtt + Bigger(Interval, 4 * rttval), IKCP_RTO_MAX)
<1>1. k.rx_srtt \in Nat /\ k.rx_rttval \in Nat /\ Interval \in Nat
      /\ MinRto \in Nat /\ IKCP_RTO_MAX \in Nat
  BY ClockSizes DEF Kcps
<1>2. delta \in Nat
  BY <1>1
<1> HIDE DEF delta
<1>3. rttval \in Nat
  BY <1>1, <1>2
<1>4. srtt \in Nat
  <2>1. (7 * k.rx_srtt + rtt) \div 8 \in Nat
    BY <1>1
  <2> QED BY <1>1, <2>1 DEF Bigger
<1> HIDE DEF rttval, srtt
<1>5. rto \in 0 .. IKCP_RTO_MAX
  <2>1. srtt + Bigger(Interval, 4 * rttval) \in Nat
    BY <1>1, <1>3, <1>4 DEF Bigger
  <2> QED BY <1>1, <2>1 DEF Bound, Bigger, Lesser
<1>6. UpdateAck(k, rtt) = [k EXCEPT !.rx_srtt = srtt, !.rx_rttval = rttval,
                                    !.rx_rto = rto]
  BY DEF UpdateAck, rttval, srtt, delta
<1> HIDE DEF rto
<1> QED BY <1>3, <1>4, <1>5, <1>6 DEF Kcps

LEMMA AckKeeps ==
    ASSUME CInv, Ack
    PROVE  CInv'
<1>1. kcp \in Kcps /\ seg \in Segs /\ Start <= now /\ now \in Nat /\ Start \in Nat
      /\ NoSegment \in Segs /\ NoSegment.xmit = 0
  BY ClockSizes, Halves DEF CInv, Types, NoSegment, Segs
<1>2. /\ kcp' \in Kcps /\ kcp'.updated = kcp.updated /\ kcp'.ts_flush = kcp.ts_flush
      /\ kcp'.probe_wait = kcp.probe_wait /\ kcp'.ts_probe = kcp.ts_probe
  <2> DEFINE rtt == itimediff(kcp.current, seg.ts)
  <2>1. kcp' = IF rtt >= 0 THEN UpdateAck(kcp, rtt) ELSE kcp
    BY DEF Ack
  <2>2. rtt \in -Half .. Half - 1
    <3>1. kcp.current \in Int /\ seg.ts \in Int
      BY <1>1, Halves DEF Kcps, Segs
    <3> QED BY <3>1, DifferenceRange
  <2> HIDE DEF rtt
  <2>3. rtt >= 0 => rtt \in Nat
    BY <2>2, Halves
  <2> QED BY <1>1, <2>1, <2>3, AckForms
<1>3. /\ seg' = NoSegment /\ sentAt' = Start
      /\ UNCHANGED <<now, flushedAt, probedAt, suspended>>
  BY DEF Ack
<1>4. Types'
  BY <1>1, <1>2, <1>3 DEF CInv, Types
<1>5. FlushAhead'
  BY <1>2, <1>3 DEF CInv, FlushAhead, GapsShort
<1>6. ResendDue'
  BY <1>1, <1>3 DEF ResendDue
<1>7. ProbeDue'
  BY <1>2, <1>3 DEF CInv, ProbeDue
<1> QED BY <1>4, <1>5, <1>6, <1>7 DEF CInv

LEMMA WindowKeeps ==
    ASSUME CInv, Window
    PROVE  CInv'
<1>1. /\ kcp' = [kcp EXCEPT !.closed = ~@]
      /\ UNCHANGED <<now, seg, flushedAt, sentAt, probedAt, suspended>>
  BY DEF Window
<1>2. /\ kcp' \in Kcps /\ kcp'.updated = kcp.updated /\ kcp'.ts_flush = kcp.ts_flush
      /\ kcp'.probe_wait = kcp.probe_wait /\ kcp'.ts_probe = kcp.ts_probe
  BY <1>1 DEF CInv, Types, Kcps
<1>3. Types'
  BY <1>1, <1>2 DEF CInv, Types
<1>4. FlushAhead'
  BY <1>1, <1>2 DEF CInv, FlushAhead, GapsShort
<1>5. ResendDue'
  BY <1>1, <1>2 DEF CInv, ResendDue
<1>6. ProbeDue'
  BY <1>1, <1>2 DEF CInv, ProbeDue
<1> QED BY <1>3, <1>4, <1>5, <1>6 DEF CInv

LEMMA SendKeeps ==
    ASSUME CInv, Send
    PROVE  CInv'
<1>1. /\ seg' = Queued
      /\ UNCHANGED <<now, kcp, flushedAt, sentAt, probedAt, suspended>>
  BY DEF Send
<1>2. seg'.xmit = 0 /\ seg' \in Segs
  BY <1>1, ClockSizes, Halves DEF Queued, NoSegment, Segs
<1>3. Types'
  BY <1>1, <1>2 DEF CInv, Types
<1>4. FlushAhead'
  BY <1>1 DEF CInv, FlushAhead, GapsShort
<1>5. ResendDue'
  BY <1>2 DEF ResendDue
<1>6. ProbeDue'
  BY <1>1 DEF CInv, ProbeDue
<1> QED BY <1>3, <1>4, <1>5, <1>6 DEF CInv

LEMMA InitHolds == Init => CInv
<1> SUFFICES ASSUME Init PROVE CInv
  OBVIOUS
<1>1. PICK nodelay \in Nodelays :
        kcp = [nodelay |-> nodelay, updated |-> FALSE, current |-> 0,
               ts_flush |-> U(Interval),
               rx_srtt |-> 0, rx_rttval |-> 0, rx_rto |-> IKCP_RTO_DEF,
               closed |-> FALSE, probe_wait |-> 0, ts_probe |-> 0]
  BY DEF Init
<1>2. U(Interval) \in 0 .. W - 1 /\ 0 \in 0 .. W - 1
  <2>1. Interval \in Int
    BY Halves
  <2> QED BY <2>1, Halves, Wrapped
<1>3. IKCP_RTO_DEF \in 0 .. IKCP_RTO_MAX /\ Start \in Nat /\ MaxXmit \in Nat
  BY ClockSizes
<1>4. kcp \in Kcps /\ ~kcp.updated /\ kcp.probe_wait = 0
  BY <1>1, <1>2, <1>3 DEF Kcps
<1>5. seg \in Segs /\ seg.xmit = 0
  BY <1>2, <1>3 DEF Init, NoSegment, Segs
<1>6. Types
  <2>1. now = Start /\ flushedAt = Start /\ sentAt = Start /\ probedAt = Start
        /\ suspended = FALSE
    BY DEF Init
  <2>2. Start \in 0 .. now /\ now \in Nat /\ Start <= now
    BY <1>3, <2>1
  <2> QED BY <1>4, <1>5, <2>1, <2>2 DEF Types
<1> QED BY <1>4, <1>5, <1>6 DEF CInv, FlushAhead, ResendDue, ProbeDue

LEMMA StepKeeps ==
    ASSUME CInv, [Next]_vars
    PROVE  CInv'
<1>1. ASSUME NEW gap \in Gaps, NEW fast \in BOOLEAN, Update(gap, fast)
      PROVE  CInv'
  <2>1. Types /\ FlushAhead /\ ResendDue /\ ProbeDue
    BY DEF CInv
  <2>2. Types'
    BY <1>1, <2>1, UpdateTypes
  <2>3. FlushAhead'
    BY <1>1, <2>1, UpdateFlushAhead
  <2>4. ResendDue'
    BY <1>1, <2>1, UpdateResendDue
  <2>5. ProbeDue'
    BY <1>1, <2>1, UpdateProbeDue
  <2> QED BY <2>2, <2>3, <2>4, <2>5 DEF CInv
<1>2. CASE Send
  BY <1>2, SendKeeps
<1>3. CASE Ack
  BY <1>3, AckKeeps
<1>4. CASE Window
  BY <1>4, WindowKeeps
<1>5. CASE UNCHANGED vars
  BY <1>5 DEF vars, CInv, Types, FlushAhead, GapsShort, ResendDue, ProbeDue
<1> QED BY <1>1, <1>2, <1>3, <1>4, <1>5 DEF Next


(* The inductive invariant of the clock: every timestamp the control block *)
(* keeps stands for a real time, which no flush has passed over.           *)
THEOREM Invariance == Spec => []CInv
<1>1. Init => CInv
  BY InitHolds
<1>2. CInv /\ [Next]_vars => CInv'
  BY StepKeeps
<1> QED BY <1>1, <1>2, PTL DEF Spec

-----------------------------------------------------------------------------
(* Flushes.                                                                *)

(* ikcp_update flushes in every interval (ikcp.c:1157-1168), after stalls  *)
(* of any length up to SlapMax less than a whole turn of the clock.        *)
THEOREM FlushesInTime ==
    ASSUME GapsShort
    PROVE  Spec => []FlushRegular
<1>1. CInv => FlushRegular
  <2> SUFFICES ASSUME CInv, kcp.updated
               PROVE  now - flushedAt < Interval
    BY DEF FlushRegular
  <2>1. PICK due \in now + 1 .. flushedAt + Interval : kcp.ts_flush = U(due)
    BY DEF CInv, FlushAhead
  <2>2. now \in Nat /\ flushedAt \in 0 .. now
    BY DEF CInv, Types
  <2> QED BY <2>1, <2>2, Halves
<1> QED BY <1>1, Invariance, PTL

(* Without a suspension, too, whatever the other stalls may be.            *)
LEMMA FlushedLately ==
    ASSUME CInv, kcp.updated, ~suspended
    PROVE  now < flushedAt + Interval
<1>1. PICK due \in now + 1 .. flushedAt + Interval : kcp.ts_flush = U(due)
  BY DEF CInv, FlushAhead
<1>2. now \in Nat /\ flushedAt \in 0 .. now
  BY DEF CInv, Types
<1> QED BY <1>1, <1>2, Halves

-----------------------------------------------------------------------------
(* Resends and probes.                                                     *)

(* A segment that is due is sent again within an interval (ikcp.c:1058).   *)
THEOREM ResendsInTime == Spec => []ResendNotLate
<1>1. CInv => ResendNotLate
  <2> SUFFICES ASSUME CInv, seg.xmit > 0, ~suspended
               PROVE  now - sentAt < seg.rto + seg.rto \div 8 + Interval
    BY DEF ResendNotLate
  <2>1. PICK due \in sentAt + seg.rto .. sentAt + seg.rto + seg.rto \div 8 :
          flushedAt <= due
    BY DEF CInv, ResendDue
  <2>2. now < flushedAt + Interval
    BY FlushedLately DEF CInv, ResendDue
  <2>3. now \in Nat /\ flushedAt \in 0 .. now /\ sentAt \in 0 .. now /\ seg.rto \in Nat
    BY DEF CInv, Types, Segs
  <2> QED BY <2>1, <2>2, <2>3, Halves
<1> QED BY <1>1, Invariance, PTL

(* A closed window is probed within probe_wait and one interval            *)
(* (ikcp.c:971-991).                                                       *)
THEOREM ProbesInTime == Spec => []ProbeInTime
<1>1. CInv => ProbeInTime
  <2> SUFFICES ASSUME CInv, kcp.probe_wait > 0, ~suspended
               PROVE  now - probedAt < kcp.probe_wait + Interval
    BY DEF ProbeInTime
  <2>1. flushedAt <= probedAt + kcp.probe_wait
    BY DEF CInv, ProbeDue
  <2>2. now < flushedAt + Interval
    BY FlushedLately DEF CInv, ProbeDue
  <2>3. now \in Nat /\ flushedAt \in 0 .. now /\ probedAt \in 0 .. now
        /\ kcp.probe_wait \in Nat
    BY DEF CInv, Types, Kcps
  <2> QED BY <2>1, <2>2, <2>3, Halves
<1> QED BY <1>1, Invariance, PTL

-----------------------------------------------------------------------------
(* ikcp_check.                                                             *)

(* Calling ikcp_update at the time ikcp_check returns delays neither the   *)
(* next flush nor the resend of a segment (ikcp.c:1183-1219).              *)
THEOREM ChecksInTime == Spec => []CheckNeverLate
<1>1. CInv => CheckNeverLate
  <2> SUFFICES ASSUME CInv, NEW e \in 0 .. Interval
               PROVE  LET t == itimediff(Check(U(now + e)), U(now + e))
                      IN  /\ t \in 0 .. Interval
                          /\ t > 0 => /\ t <= itimediff(kcp.ts_flush, U(now + e))
                                      /\ seg.xmit > 0 =>
                                           t <= itimediff(seg.resendts, U(now + e))
    BY DEF CheckNeverLate
  <2> DEFINE x    == now + e
             c    == U(x)
             late == itimediff(c, kcp.ts_flush)
             due  == itimediff(seg.resendts, c)
             n    == Lesser(Interval, IF seg.xmit > 0 THEN Lesser(due, -late) ELSE -late)
  <2>1. x \in Nat /\ Interval \in Nat /\ kcp.ts_flush \in Int /\ seg.resendts \in Int
        /\ seg.xmit \in Nat
    BY Halves, ClockSizes DEF CInv, Types, Kcps, Segs
  <2>2. c \in 0 .. W - 1
    BY <2>1, Wrapped
  <2>3. late \in -Half .. Half - 1 /\ due \in -Half .. Half - 1
    <3>1. c \in Int
      BY <2>2, Halves
    <3> HIDE DEF c
    <3> QED BY <2>1, <3>1, DifferenceRange
  <2>4. Check(c) = IF \/ ~kcp.updated
                      \/ late >= 0 \/ late < -SlapMax
                      \/ seg.xmit > 0 /\ due <= 0
                   THEN c ELSE U(c + n)
    BY DEF Check
  <2>5. itimediff(kcp.ts_flush, c) = -late \/ late < -SlapMax
    <3>1. c \in Int
      BY <2>2, Halves
    <3> HIDE DEF c
    <3>2. CASE late = -Half
      BY <3>2, Halves
    <3>3. CASE late # -Half
      BY <2>1, <3>1, <3>3, Antisymmetric
    <3> QED BY <3>2, <3>3
  <2>6. CASE Check(c) = c
    <3>1. itimediff(c, c) = 0
      <4>1. x \in Int /\ -Half <= x - x /\ x - x < Half
        BY <2>1, Halves
      <4>2. itimediff(U(x), U(x)) = x - x
        BY <4>1, TrueDifference
      <4> QED BY <2>1, <4>2
    <3> QED BY <2>1, <2>6, <3>1
  <2>7. CASE ~(\/ ~kcp.updated
               \/ late >= 0 \/ late < -SlapMax
               \/ seg.xmit > 0 /\ due <= 0)
    <3>1. late < 0 /\ ~(late < -SlapMax) /\ (seg.xmit > 0 => due > 0)
      <4> HIDE DEF late, due
      <4> QED BY <2>3, <2>7, <2>1, Halves
    <3>2. n \in 1 .. Interval /\ n <= -late /\ (seg.xmit > 0 => n <= due)
      <4> HIDE DEF late, due
      <4> QED BY <2>1, <2>3, <3>1, Halves DEF Lesser
    <3>3. Check(c) = U(c + n)
      BY <2>4, <2>7
    <3> HIDE DEF n
    <3>4. U(c + n) = U(x + n)
      BY <2>1, <3>2, WrapAdd
    <3>5. itimediff(U(x + n), U(x)) = n
      <4>1. x + n \in Int /\ x \in Int /\ -Half <= (x + n) - x /\ (x + n) - x < Half
            /\ (x + n) - x = n
        <5> HIDE DEF x
        <5> QED BY <2>1, <3>2, Halves
      <4> HIDE DEF x
      <4> QED BY <4>1, TrueDifference
    <3>6. itimediff(Check(c), c) = n
      BY <3>3, <3>4, <3>5
    <3>7. n <= itimediff(kcp.ts_flush, c)
      <4> HIDE DEF late, c
      <4> QED BY <2>5, <3>1, <3>2
    <3>8. n \in 0 .. Interval
      BY <2>1, <3>2
    <3> HIDE DEF c, late
    <3> QED BY <3>2, <3>6, <3>7, <3>8 DEF c
  <2> QED BY <2>4, <2>6, <2>7
<1> QED BY <1>1, Invariance, PTL

-----------------------------------------------------------------------------
(* A timeout never comes early, as long as the timeouts fit in half a turn *)
(* of the clock.                                                           *)

(* limit[x] bounds the rto of a segment sent x times: rx_rto is at most    *)
(* IKCP_RTO_MAX, and a timeout doubles rto at most.  IKCP_RTO_MAX * 2^(x-1)*)
(* is such a limit for up to 15 sendings with the constants of ikcp.c.     *)
TimeoutsFit(limit) ==
    /\ limit \in [1 .. MaxXmit -> Nat]
    /\ \A x \in 1 .. MaxXmit : /\ IKCP_RTO_MAX <= limit[x]
                               /\ limit[x] + limit[x] \div 8 <= Half
                               /\ x < MaxXmit => 2 * limit[x] <= limit[x + 1]

WithinLimit(limit) == seg.xmit > 0 => seg.rto <= limit[seg.xmit]

LEMMA LimitHolds ==
    ASSUME NEW limit, TimeoutsFit(limit)
    PROVE  Spec => [](CInv /\ WithinLimit(limit))
<1>1. Init => WithinLimit(limit)
  BY DEF Init, NoSegment, WithinLimit
<1>2. CInv /\ WithinLimit(limit) /\ [Next]_vars => WithinLimit(limit)'
  <2> SUFFICES ASSUME CInv, WithinLimit(limit), [Next]_vars
               PROVE  WithinLimit(limit)'
    OBVIOUS
  <2>1. ASSUME NEW gap \in Gaps, NEW fast \in BOOLEAN, Update(gap, fast)
        PROVE  WithinLimit(limit)'
    <3> DEFINE t == now + gap
               j == Reanchor(Called(gap))
               n == NextFlush(j)
    <3>0. Types
      BY DEF CInv
    <3>1. t \in Nat /\ SameBut(n, t)
      BY <3>0, CallForms
    <3>2. Flush(n, fast) \/ seg' = seg
      BY <2>1, <3>0, UpdateForms
    <3> HIDE DEF t, j, n
    <3>3. CASE seg' = seg
      BY <3>3 DEF WithinLimit
    <3>4. CASE Flush(n, fast) /\ seg' # seg
      <4>1. TimedOut(n, seg) => seg.xmit < MaxXmit
        BY <3>4 DEF Flush
      <4>2. PICK rto \in Nat, due \in Nat :
               /\ seg' = [xmit |-> Lesser(seg.xmit + 1, MaxXmit), rto |-> rto,
                          ts |-> U(t), resendts |-> U(due)]
               /\ \/ seg.xmit = 0 /\ rto = n.rx_rto
                  \/ TimedOut(n, seg) /\ seg.xmit > 0 /\ rto = BackedOff(n, seg)
                  \/ seg.xmit > 0 /\ ~TimedOut(n, seg) /\ rto = seg.rto
        BY <3>0, <3>1, <3>4, FlushSegment
      <4>3. seg'.xmit = Lesser(seg.xmit + 1, MaxXmit) /\ seg'.rto = rto
        BY <4>2
      <4>4. seg.xmit \in 0 .. MaxXmit /\ seg.rto \in Nat /\ MaxXmit \in Nat
            /\ MaxXmit > 0 /\ n.rx_rto \in 0 .. IKCP_RTO_MAX /\ IKCP_RTO_MAX \in Nat
            /\ n \in Kcps /\ seg \in Segs
        BY <3>0, <3>1, ClockSizes DEF Types, Segs, SameBut, Kcps
      <4>5. \A x \in 1 .. MaxXmit : limit[x] \in Nat /\ IKCP_RTO_MAX <= limit[x]
                                    /\ (x < MaxXmit => 2 * limit[x] <= limit[x + 1])
        BY DEF TimeoutsFit
      <4>6. CASE seg.xmit = 0 /\ rto = n.rx_rto
        <5>1. Lesser(seg.xmit + 1, MaxXmit) = 1
          BY <4>4, <4>6 DEF Lesser
        <5>2. rto <= limit[1]
          BY <4>4, <4>5, <4>6
        <5> QED BY <4>3, <5>1, <5>2 DEF WithinLimit
      <4>7. CASE TimedOut(n, seg) /\ seg.xmit > 0 /\ rto = BackedOff(n, seg)
        <5>1. seg.xmit < MaxXmit /\ Lesser(seg.xmit + 1, MaxXmit) = seg.xmit + 1
          BY <4>1, <4>4, <4>7 DEF Lesser
        <5>2. rto <= seg.rto + Bigger(seg.rto, n.rx_rto)
          BY <4>4, <4>7, BackOffBound
        <5>3. seg.xmit \in 1 .. MaxXmit /\ seg.rto <= limit[seg.xmit]
          BY <4>4, <4>7 DEF WithinLimit
        <5>4. limit[seg.xmit] \in Nat /\ IKCP_RTO_MAX <= limit[seg.xmit]
              /\ 2 * limit[seg.xmit] <= limit[seg.xmit + 1]
              /\ limit[seg.xmit + 1] \in Nat
          <6>1. seg.xmit + 1 \in 1 .. MaxXmit
            BY <4>4, <5>1, <5>3
          <6> QED BY <4>5, <5>1, <5>3, <6>1
        <5>5. rto <= limit[seg.xmit + 1]
          BY <4>4, <5>2, <5>3, <5>4 DEF Bigger
        <5> QED BY <4>3, <5>1, <5>5 DEF WithinLimit
      <4>8. CASE seg.xmit > 0 /\ rto = seg.rto
        <5>1. seg.xmit \in 1 .. MaxXmit /\ seg.rto <= limit[seg.xmit]
          BY <4>4, <4>8 DEF WithinLimit
        <5>2. CASE seg.xmit < MaxXmit
          <6>1. seg.xmit + 1 \in 1 .. MaxXmit
                /\ Lesser(seg.xmit + 1, MaxXmit) = seg.xmit + 1
            BY <4>4, <5>1, <5>2 DEF Lesser
          <6>2. seg.rto <= limit[seg.xmit + 1]
            BY <4>4, <4>5, <5>1, <5>2, <6>1
          <6> QED BY <4>3, <4>8, <6>1, <6>2 DEF WithinLimit
        <5>3. CASE seg.xmit = MaxXmit
          <6>1. Lesser(seg.xmit + 1, MaxXmit) = seg.xmit
            BY <4>4, <5>3 DEF Lesser
          <6> QED BY <4>3, <4>8, <5>1, <6>1 DEF WithinLimit
        <5> QED BY <5>2, <5>3, <4>4
      <4> QED BY <4>2, <4>6, <4>7, <4>8
    <3> QED BY <3>2, <3>3, <3>4
  <2>2. CASE Send
    BY <2>2 DEF Send, Queued, NoSegment, WithinLimit
  <2>3. CASE Ack
    BY <2>3 DEF Ack, NoSegment, WithinLimit
  <2>4. CASE Window \/ UNCHANGED vars
    BY <2>4 DEF Window, vars, WithinLimit
  <2> QED BY <2>1, <2>2, <2>3, <2>4 DEF Next
<1> QED BY <1>1, <1>2, Invariance, PTL DEF Spec

(* A segment is not sent again for a timeout before its rto has passed     *)
(* since it was last sent (ikcp.c:1058-1081).                              *)
THEOREM ResendsWait ==
    ASSUME NEW limit, TimeoutsFit(limit)
    PROVE  Spec => ResendNotEarly
<1>1. CInv /\ WithinLimit(limit) /\ [Next]_vars
        => [seg.xmit > 0 /\ seg'.xmit > 0 /\ seg'.rto # seg.rto
              => now' - sentAt >= seg.rto]_vars
  <2> SUFFICES ASSUME CInv, WithinLimit(limit), Next,
                      seg.xmit > 0, seg'.xmit > 0, seg'.rto # seg.rto
               PROVE  now' - sentAt >= seg.rto
    OBVIOUS
  <2>1. PICK gap \in Gaps, fast \in BOOLEAN : Update(gap, fast)
    BY DEF Next, Send, Ack, Window, NoSegment
  <2> DEFINE t == now + gap
             j == Reanchor(Called(gap))
             n == NextFlush(j)
  <2>2. Types
    BY DEF CInv
  <2>3. t \in Nat /\ gap \in Nat /\ SameBut(n, t)
    BY <2>2, CallForms
  <2>4. now' = t /\ (Flush(n, fast) \/ seg' = seg)
    BY <2>1, <2>2, UpdateForms
  <2>5. t >= sentAt /\ sentAt \in Nat /\ seg.rto \in Nat /\ seg.xmit \in 1 .. MaxXmit
    BY <2>2, <2>3 DEF Types, Segs
  <2> HIDE DEF t, j, n
  <2>6. Flush(n, fast) /\ seg' # seg
    BY <2>4
  <2>7. PICK rto \in Nat, due \in Nat :
               /\ seg' = [xmit |-> Lesser(seg.xmit + 1, MaxXmit), rto |-> rto,
                          ts |-> U(t), resendts |-> U(due)]
               /\ \/ seg.xmit = 0 /\ rto = n.rx_rto
                  \/ TimedOut(n, seg) /\ seg.xmit > 0 /\ rto = BackedOff(n, seg)
                  \/ seg.xmit > 0 /\ ~TimedOut(n, seg) /\ rto = seg.rto
    BY <2>2, <2>3, <2>6, FlushSegment
  <2>8. TimedOut(n, seg)
    <3>1. seg'.rto = rto
      BY <2>7
    <3> QED BY <2>5, <2>7, <3>1
  <2>9. PICK late \in sentAt + seg.rto .. sentAt + seg.rto + seg.rto \div 8 :
          seg.resendts = U(late)
    BY DEF CInv, ResendDue
  <2>10. seg.rto + seg.rto \div 8 <= Half
    <3>1. seg.rto <= limit[seg.xmit]
      BY DEF WithinLimit
    <3>2. limit[seg.xmit] \in Nat /\ limit[seg.xmit] + limit[seg.xmit] \div 8 <= Half
      BY <2>5 DEF TimeoutsFit
    <3> QED BY <2>5, <3>1, <3>2, Halves
  <2>11. late \in Nat
    BY <2>5, <2>9
  <2>12. ASSUME t < late PROVE FALSE
    <3>1. -Half <= t - late /\ t - late < Half
      BY <2>3, <2>5, <2>9, <2>10, <2>11, <2>12, Halves
    <3>2. itimediff(U(t), U(late)) = t - late
      BY <2>3, <2>11, <3>1, TrueDifference
    <3>3. itimediff(n.current, seg.resendts) < 0
      BY <2>3, <2>9, <2>11, <2>12, <3>2 DEF SameBut
    <3>4. itimediff(n.current, seg.resendts) >= 0
      BY <2>8 DEF TimedOut
    <3> QED BY <2>3, <2>9, <2>11, <2>12, <3>2, <3>3, <3>4 DEF SameBut
  <2>13. t >= late
    BY <2>3, <2>11, <2>12
  <2> QED BY <2>3, <2>4, <2>5, <2>9, <2>11, <2>13
<1> QED BY <1>1, LimitHolds, PTL DEF Spec, ResendNotEarly
=============================================================================
