-------------------------- MODULE KcpSessionProofs --------------------------
(***************************************************************************)
(* Proofs about KcpSession for messages of any sizes, any number of them   *)
(* and any interleaving of the owners of the two Kcp objects with their    *)
(* outputRoutine and inputRoutine: the queue keeps every message, messages *)
(* are delivered whole and in order, and only an error of recvfrom leaves  *)
(* a datagram with nothing under way to read it.                           *)
(***************************************************************************)
EXTENDS KcpSession, SequenceFacts

-----------------------------------------------------------------------------
(* The inductive invariant.                                                *)

Message == [n : Nat, frags : Nat]
Segment == [m : Message, frg : Nat]

Types ==
    /\ sent \in [Peer -> Seq(Message)] /\ mSendBufQueue \in [Peer -> Seq(Message)]
    /\ queue \in [Peer -> Seq(Message)] /\ taken \in [Peer -> Seq(Message)]
    /\ stream \in [Peer -> Seq(Segment)] /\ called \in [Peer -> Seq(Message)]
    /\ ready \in [Peer -> Nat] /\ received \in [Peer -> Nat]
    /\ at \in [Peer -> {"none", "output", "drain", "recv"}]
    /\ socket \in [Peer -> Nat] /\ event \in [Peer -> BOOLEAN] /\ tasks \in [Peer -> Nat]
    /\ cutOff \in [Peer -> BOOLEAN]

(* outputRoutine empties its local list before it returns, and messages    *)
(* are numbered as they are sent.                                          *)
Queues ==
    \A p \in Peer :
      /\ at[p] # "output" => queue[p] = <<>>
      /\ \A i \in 1 .. Len(sent[p]) : sent[p][i].n = i

(* The number of the message that ends with the k-th segment.              *)
Upto(p, k) == IF k = 0 THEN 0 ELSE stream[p][k].m.n

(* A message may begin after the k-th segment.                             *)
Boundary(p, k) == k = 0 \/ stream[p][k].frg = 0

(* The segments of the messages ikcp_send accepted, and of no other, one   *)
(* message after the other; frg counts down to 0 in each.                  *)
Segmented(p) ==
    LET N == Len(stream[p])
    IN  /\ \A k \in 1 .. N :
             LET m == stream[p][k].m
             IN  m.n \in 1 .. Len(taken[p]) /\ taken[p][m.n] = m /\ Accepted(m)
        /\ \A k \in 1 .. N : \A j \in 0 .. stream[p][k].frg :
             /\ k + j <= N /\ stream[p][k + j].m = stream[p][k].m
             /\ stream[p][k + j].frg = stream[p][k].frg - j
        /\ \A k \in 0 .. N : Boundary(p, k) =>
             /\ k < N => Upto(p, k) < stream[p][k + 1].m.n
             /\ \A i \in 1 .. Len(taken[p]) :
                  Upto(p, k) < i /\ (k < N => i < stream[p][k + 1].m.n)
                    => ~Accepted(taken[p][i])

(* What was received are whole messages, the ones mRecvEvent was called    *)
(* with, and all there are among the segments received.                    *)
Called(q) ==
    LET calls == called[q]
        p == Other(q)
    IN  /\ received[q] <= ready[q] /\ ready[q] <= Len(stream[p])
        /\ Boundary(p, received[q])
        /\ \A k \in 1 .. Len(calls) :
             /\ calls[k].n \in 1 .. Upto(p, received[q])
             /\ calls[k] = taken[p][calls[k].n]
             /\ Accepted(calls[k])
        /\ \A j, k \in 1 .. Len(calls) : j < k => calls[j].n < calls[k].n
        /\ \A n \in 1 .. Upto(p, received[q]) : Accepted(taken[p][n]) =>
             \E j \in 1 .. Len(calls) : calls[j] = taken[p][n]

SInv ==
    /\ Types
    /\ Queues
    /\ QueueKeepsAll
    /\ \A p \in Peer : Segmented(p)
    /\ \A q \in Peer : Called(q)
    /\ NoDatagramForgotten

-----------------------------------------------------------------------------
(* Facts that the steps need.                                              *)

LEMMA PeerFacts == \A p \in Peer : Other(p) \in Peer
  BY DEF Peer, Other

LEMMA Typed ==
    ASSUME Types, NEW p \in Peer
    PROVE  /\ sent[p] \in Seq(Message) /\ mSendBufQueue[p] \in Seq(Message)
           /\ queue[p] \in Seq(Message) /\ taken[p] \in Seq(Message)
           /\ stream[p] \in Seq(Segment) /\ called[p] \in Seq(Message)
           /\ Len(sent[p]) \in Nat /\ Len(taken[p]) \in Nat
           /\ Len(stream[p]) \in Nat /\ Len(called[p]) \in Nat
           /\ \A k \in 1 .. Len(taken[p]) : taken[p][k] \in Message
           /\ \A k \in 1 .. Len(stream[p]) :
                /\ stream[p][k].m \in Message /\ stream[p][k].frg \in Nat
                /\ stream[p][k].m.n \in Nat /\ stream[p][k].m.frags \in Nat
           /\ \A k \in 1 .. Len(called[p]) : called[p][k] \in Message
           /\ ready[p] \in Nat /\ received[p] \in Nat
<1>1. /\ sent[p] \in Seq(Message) /\ mSendBufQueue[p] \in Seq(Message)
      /\ queue[p] \in Seq(Message) /\ taken[p] \in Seq(Message)
      /\ stream[p] \in Seq(Segment) /\ called[p] \in Seq(Message)
      /\ ready[p] \in Nat /\ received[p] \in Nat
  BY DEF Types
<1>2. /\ Len(sent[p]) \in Nat /\ Len(taken[p]) \in Nat
      /\ Len(stream[p]) \in Nat /\ Len(called[p]) \in Nat
  BY <1>1, LenProperties
<1>3. /\ \A k \in 1 .. Len(taken[p]) : taken[p][k] \in Message
      /\ \A k \in 1 .. Len(called[p]) : called[p][k] \in Message
      /\ \A k \in 1 .. Len(stream[p]) : stream[p][k] \in Segment
  BY <1>1, ElementOfSeq
<1>4. \A k \in 1 .. Len(stream[p]) :
        /\ stream[p][k].m \in Message /\ stream[p][k].frg \in Nat
        /\ stream[p][k].m.n \in Nat /\ stream[p][k].m.frags \in Nat
  BY <1>3 DEF Segment, Message
<1> QED
  BY <1>1, <1>2, <1>3, <1>4

(* What a step has to leave alone for the segments and what was received.  *)
LEMMA QuietStep ==
    ASSUME SInv, UNCHANGED <<taken, stream, inputVars>>
    PROVE  (\A p \in Peer : Segmented(p)') /\ (\A q \in Peer : Called(q)')
  BY DEF SInv, Segmented, Boundary, Upto, Called, inputVars

-----------------------------------------------------------------------------
(* One lemma for each action.                                              *)

(* Kcp::send, from any thread.                                             *)
LEMMA SendInv ==
    ASSUME SInv, NEW p \in Peer, Send(p)
    PROVE  SInv'
<1> USE DEF SInv
<1>1. PICK frags \in Sizes :
        LET m == [n |-> Len(sent[p]) + 1, frags |-> frags]
        IN  /\ sent' = [sent EXCEPT ![p] = Append(@, m)]
            /\ mSendBufQueue' = [mSendBufQueue EXCEPT ![p] = Append(@, m)]
  BY DEF Send
<1> DEFINE m == [n |-> Len(sent[p]) + 1, frags |-> frags]
<1>2. m \in Message /\ m.n = Len(sent[p]) + 1
  BY Typed, SessionSizes DEF Message
<1>3. /\ sent' = [sent EXCEPT ![p] = Append(@, m)]
      /\ mSendBufQueue' = [mSendBufQueue EXCEPT ![p] = Append(@, m)]
  BY <1>1
<1> HIDE DEF m
<1>4. UNCHANGED <<queue, taken, stream, inputVars, at, wakeVars>>
  BY DEF Send, outputVars
<1>5. /\ sent'[p] = Append(sent[p], m) /\ mSendBufQueue'[p] = Append(mSendBufQueue[p], m)
      /\ \A r \in Peer : r # p => sent'[r] = sent[r] /\ mSendBufQueue'[r] = mSendBufQueue[r]
      /\ sent' \in [Peer -> Seq(Message)] /\ mSendBufQueue' \in [Peer -> Seq(Message)]
  BY <1>2, <1>3, AppendProperties DEF Types
<1>6. Types'
  BY <1>4, <1>5 DEF Types, inputVars, wakeVars
<1>7. Queues'
  <2>1. \A r \in Peer : at'[r] # "output" => queue'[r] = <<>>
    BY <1>4 DEF Queues
  <2>2. \A i \in 1 .. Len(sent'[p]) : sent'[p][i].n = i
    <3>1. /\ Len(sent'[p]) = Len(sent[p]) + 1
          /\ \A i \in 1 .. Len(sent[p]) : sent'[p][i] = sent[p][i]
          /\ sent'[p][Len(sent[p]) + 1] = m
      BY <1>2, <1>5, Typed, AppendProperties
    <3>2. \A i \in 1 .. Len(sent[p]) + 1 : i \in 1 .. Len(sent[p]) \/ i = Len(sent[p]) + 1
      BY Typed
    <3> QED
      BY <3>1, <3>2, <1>2 DEF Queues
  <2>3. \A r \in Peer : r # p => \A i \in 1 .. Len(sent'[r]) : sent'[r][i].n = i
    BY <1>5 DEF Queues
  <2> QED
    BY <2>1, <2>2, <2>3 DEF Queues
<1>8. QueueKeepsAll'
  <2>1. sent'[p] = taken[p] \o queue[p] \o Append(mSendBufQueue[p], m)
    <3>1. taken[p] \o queue[p] \in Seq(Message) /\ mSendBufQueue[p] \in Seq(Message)
      BY Typed, ConcatProperties
    <3>2. sent[p] = taken[p] \o queue[p] \o mSendBufQueue[p]
      BY DEF QueueKeepsAll
    <3> DEFINE s == taken[p] \o queue[p]
    <3>3. s \o Append(mSendBufQueue[p], m) = Append(s \o mSendBufQueue[p], m)
      <4>1. s \in Seq(Message) /\ mSendBufQueue[p] \in Seq(Message) /\ m \in Message
        BY <1>2, <3>1
      <4> HIDE DEF s
      <4> QED
        BY <4>1, AppendToLast
    <3> QED
      BY <1>5, <3>2, <3>3
  <2> QED
    BY <1>4, <1>5, <2>1 DEF QueueKeepsAll
<1>9. NoDatagramForgotten'
  BY <1>4 DEF NoDatagramForgotten, wakeVars
<1> QED
  BY <1>4, <1>6, <1>7, <1>8, <1>9, QuietStep

(* outputRoutine takes the whole queue: its local list is empty then.      *)
LEMMA OutputTakeInv ==
    ASSUME SInv, NEW p \in Peer, OutputTake(p)
    PROVE  SInv'
<1> USE DEF SInv
<1>1. /\ at[p] = "none" /\ queue[p] = <<>>
      /\ UNCHANGED <<sent, taken, stream, inputVars, wakeVars>>
  BY DEF OutputTake, Queues
<1>2. /\ at'[p] = "output" /\ queue'[p] = mSendBufQueue[p] /\ mSendBufQueue'[p] = <<>>
      /\ \A r \in Peer : r # p => /\ at'[r] = at[r] /\ queue'[r] = queue[r]
                                  /\ mSendBufQueue'[r] = mSendBufQueue[r]
  BY DEF OutputTake, LeftInQueue, Types
<1>3. Types'
  BY <1>1, EmptySeq DEF OutputTake, LeftInQueue, Types, inputVars, wakeVars
<1>4. Queues'
  BY <1>1, <1>2 DEF Queues
<1>5. QueueKeepsAll'
  <2>1. sent[p] = taken[p] \o mSendBufQueue[p] \o <<>>
    <3>1. taken[p] \o mSendBufQueue[p] \in Seq(Message) /\ taken[p] \in Seq(Message)
      BY Typed, ConcatProperties
    <3>2. sent[p] = taken[p] \o <<>> \o mSendBufQueue[p]
      BY <1>1 DEF QueueKeepsAll
    <3> QED
      BY <3>1, <3>2, ConcatEmptySeq
  <2> QED
    BY <1>1, <1>2, <2>1 DEF QueueKeepsAll
<1>6. NoDatagramForgotten'
  BY <1>1, <1>2 DEF NoDatagramForgotten, wakeVars
<1> QED
  BY <1>1, <1>3, <1>4, <1>5, <1>6, QuietStep

(* The segments of a message count down to 0.                              *)
LEMMA SegmentsOfMessage ==
    ASSUME NEW m \in Message
    PROVE  \E count \in Nat \ {0} :
             /\ Segments(m) \in Seq(Segment) /\ Len(Segments(m)) = count
             /\ \A i \in 1 .. count : /\ Segments(m)[i].m = m
                                      /\ Segments(m)[i].frg = count - i
<1> DEFINE count == Max({1, m.frags})
<1>1. count \in Nat \ {0}
  <2>1. m.frags \in Nat /\ 1 \in Int
    BY DEF Message
  <2> QED
    BY <2>1, MaxOfTwo
<1>2. Segments(m) = [i \in 1 .. count |-> [m |-> m, frg |-> count - i]]
  BY DEF Segments
<1> HIDE DEF count
<1>3. \A i \in 1 .. count : [m |-> m, frg |-> count - i] \in Segment
  BY <1>1 DEF Segment
<1>4. Segments(m) \in [1 .. count -> Segment]
  BY <1>2, <1>3
<1>5. Segments(m) \in Seq(Segment) /\ DOMAIN Segments(m) = 1 .. count
  BY <1>1, <1>4, SeqDef
<1>6. Len(Segments(m)) = count
  BY <1>1, <1>5, LenProperties
<1>7. \A i \in 1 .. count : Segments(m)[i].m = m /\ Segments(m)[i].frg = count - i
  BY <1>2
<1> QED
  BY <1>1, <1>5, <1>6, <1>7

(* More was sent: what was received is what it was.                        *)
LEMMA CalledStays ==
    ASSUME SInv, NEW q \in Peer, NEW p, p = Other(q), UNCHANGED inputVars,
           Len(stream'[p]) \in Nat, Len(stream[p]) <= Len(stream'[p]),
           \A k \in 1 .. Len(stream[p]) : stream'[p][k] = stream[p][k],
           \A i \in 1 .. Len(taken[p]) : taken'[p][i] = taken[p][i]
    PROVE  Called(q)'
<1> USE DEF SInv
<1> DEFINE r == received[q]
           N == Len(stream[p])
           u == Upto(p, r)
<1>1. p \in Peer /\ r \in Nat /\ ready[q] \in Nat /\ N \in Nat /\ Len(taken[p]) \in Nat
      /\ received' = received /\ ready' = ready /\ called' = called
  BY PeerFacts, Typed DEF inputVars
<1>2. r <= ready[q] /\ ready[q] <= N
  BY DEF Called
<1>3. r = 0 \/ r \in 1 .. N
  BY <1>1, <1>2
<1>4. Upto(p, r)' = u /\ Boundary(p, r)' = Boundary(p, r)
  BY <1>1, <1>3 DEF Upto, Boundary
<1>5. u \in 0 .. Len(taken[p])
  BY <1>1, <1>3 DEF Upto, Segmented
<1>6. \A i \in 1 .. u : taken'[p][i] = taken[p][i]
  BY <1>1, <1>5
<1>7. ready[q] <= Len(stream'[p])
  BY <1>1, <1>2
<1>8. /\ Boundary(p, r)
      /\ \A k \in 1 .. Len(called[q]) : called[q][k].n \in 1 .. u
                                       /\ called[q][k] = taken[p][called[q][k].n]
                                       /\ Accepted(called[q][k])
      /\ \A j, k \in 1 .. Len(called[q]) : j < k => called[q][j].n < called[q][k].n
      /\ \A n \in 1 .. u : Accepted(taken[p][n]) =>
           \E j \in 1 .. Len(called[q]) : called[q][j] = taken[p][n]
  BY DEF Called
<1> HIDE DEF u, r
<1>9. /\ Boundary(p, received[q])'
      /\ Upto(p, received[q])' = u
  BY <1>1, <1>4, <1>8 DEF r
<1>10. received'[q] <= ready'[q] /\ ready'[q] <= Len(stream'[p])
  BY <1>1, <1>2, <1>7 DEF r
<1>11. \A k \in 1 .. Len(called'[q]) : /\ called'[q][k].n \in 1 .. u
                                        /\ called'[q][k] = taken'[p][called'[q][k].n]
                                        /\ Accepted(called'[q][k])
  <2> TAKE k \in 1 .. Len(called'[q])
  <2>1. called'[q] = called[q]
    BY <1>1
  <2>2. /\ called[q][k].n \in 1 .. u /\ called[q][k] = taken[p][called[q][k].n]
        /\ Accepted(called[q][k])
    BY <1>8, <2>1
  <2> QED
    BY <1>6, <2>1, <2>2
<1>12. \A n \in 1 .. u : Accepted(taken'[p][n]) =>
         \E j \in 1 .. Len(called'[q]) : called'[q][j] = taken'[p][n]
  <2>1. called' = called /\ \A n \in 1 .. u : taken'[p][n] = taken[p][n]
    BY <1>1, <1>6
  <2> HIDE DEF SInv
  <2> QED
    BY <1>8, <2>1
<1>13. \A j, k \in 1 .. Len(called'[q]) : j < k => called'[q][j].n < called'[q][k].n
  BY <1>1, <1>8
<1> QED
  BY <1>9, <1>10, <1>11, <1>12, <1>13 DEF Called

(* What ikcp_send refuses leaves no segment.                               *)
LEMMA RefusedSegments ==
    ASSUME SInv, NEW p \in Peer, NEW h \in Message, ~Accepted(h),
           taken'[p] = Append(taken[p], h), stream'[p] = stream[p]
    PROVE  Segmented(p)'
<1> USE DEF SInv
<1> DEFINE L == Len(taken[p])
<1>1. /\ L \in Nat /\ Len(taken'[p]) = L + 1 /\ taken'[p][L + 1] = h
      /\ \A i \in 1 .. L : taken'[p][i] = taken[p][i]
  BY Typed, AppendProperties
<1>2. \A i \in 1 .. L + 1 : i \in 1 .. L \/ i = L + 1
  BY <1>1
<1>3. \A i \in 1 .. L : i \in 1 .. L + 1
  BY <1>1
<1> HIDE DEF L
<1>4. \A k : Boundary(p, k)' = Boundary(p, k) /\ Upto(p, k)' = Upto(p, k)
  BY DEF Boundary, Upto
<1> DEFINE N == Len(stream[p])
<1>5. \A k \in 1 .. N :
        LET m == stream'[p][k].m
        IN  m.n \in 1 .. L + 1 /\ taken'[p][m.n] = m /\ Accepted(m)
  BY <1>1, <1>3, SMTT(30) DEF Segmented, L
<1>6. \A k \in 0 .. N : Boundary(p, k)' =>
        /\ k < N => Upto(p, k)' < stream'[p][k + 1].m.n
        /\ \A i \in 1 .. L + 1 :
             Upto(p, k)' < i /\ (k < N => i < stream'[p][k + 1].m.n) => ~Accepted(taken'[p][i])
  <2> TAKE k \in 0 .. N
  <2>1. Boundary(p, k) =>
          /\ k < N => Upto(p, k) < stream[p][k + 1].m.n
          /\ \A i \in 1 .. L : Upto(p, k) < i /\ (k < N => i < stream[p][k + 1].m.n)
                              => ~Accepted(taken[p][i])
    BY DEF Segmented, L
  <2> HIDE DEF SInv
  <2>2. /\ Boundary(p, k)' = Boundary(p, k) /\ Upto(p, k)' = Upto(p, k)
        /\ stream'[p] = stream[p]
    BY <1>4
  <2>3. ~Accepted(taken'[p][L + 1])
    BY <1>1
  <2> QED
    BY <1>1, <1>2, <2>1, <2>2, <2>3
<1>7. \A k \in 1 .. N : \A j \in 0 .. stream'[p][k].frg :
        /\ k + j <= N /\ stream'[p][k + j].m = stream'[p][k].m
        /\ stream'[p][k + j].frg = stream'[p][k].frg - j
  BY DEF Segmented
<1> QED
  BY <1>1, <1>5, <1>6, <1>7 DEF Segmented

(* The segments of a message that ikcp_send accepts follow the others.     *)
LEMMA AcceptedSegments ==
    ASSUME SInv, NEW p \in Peer, NEW h \in Message, Accepted(h), h.n = Len(taken[p]) + 1,
           taken'[p] = Append(taken[p], h), stream'[p] = stream[p] \o Segments(h)
    PROVE  /\ Segmented(p)'
           /\ stream'[p] \in Seq(Segment) /\ Len(stream[p]) <= Len(stream'[p])
           /\ \A k \in 1 .. Len(stream[p]) : stream'[p][k] = stream[p][k]
<1> USE DEF SInv
<1> DEFINE L == Len(taken[p])
           N == Len(stream[p])
           s == stream'[p]
<1>1. /\ L \in Nat /\ Len(taken'[p]) = L + 1 /\ taken'[p][L + 1] = h
      /\ \A i \in 1 .. L : taken'[p][i] = taken[p][i]
  BY Typed, AppendProperties
<1>2. PICK count \in Nat \ {0} :
        /\ Segments(h) \in Seq(Segment) /\ Len(Segments(h)) = count
        /\ \A i \in 1 .. count : Segments(h)[i].m = h /\ Segments(h)[i].frg = count - i
  BY SegmentsOfMessage
<1>3. N \in Nat /\ stream[p] \in Seq(Segment)
  BY Typed
<1>4. /\ s \in Seq(Segment) /\ Len(s) = N + count
      /\ \A k \in 1 .. N + count :
           s[k] = IF k <= N THEN stream[p][k] ELSE Segments(h)[k - N]
  <2> DEFINE g == Segments(h)
  <2>1. LET both == stream[p] \o g
        IN  /\ both \in Seq(Segment) /\ Len(both) = Len(stream[p]) + Len(g)
            /\ \A k \in 1 .. Len(stream[p]) + Len(g) :
                 both[k] = IF k <= Len(stream[p]) THEN stream[p][k] ELSE g[k - Len(stream[p])]
    <3> HIDE DEF g
    <3>1. g \in Seq(Segment)
      BY <1>2 DEF g
    <3> QED
      BY <1>3, <3>1, ConcatProperties
  <2> QED
    BY <2>1, <1>2
<1>5. /\ \A k \in 1 .. N : k \in 1 .. N + count /\ s[k] = stream[p][k]
      /\ \A i \in 1 .. count : N + i \in 1 .. N + count /\ s[N + i].m = h /\ s[N + i].frg = count - i
  <2>1. \A k \in 1 .. N : k \in 1 .. N + count /\ k <= N
    BY <1>2, <1>3
  <2>2. \A i \in 1 .. count : N + i \in 1 .. N + count /\ ~(N + i <= N) /\ N + i - N = i
    BY <1>2, <1>3
  <2> QED
    BY <1>2, <1>4, <2>1, <2>2
<1>6. \A k \in 1 .. N + count : k \in 1 .. N \/ (k - N \in 1 .. count /\ k = N + (k - N))
  BY <1>2, <1>3
<1>7. \A k \in 1 .. N : /\ stream[p][k].m.n \in 1 .. L /\ stream[p][k].frg \in Nat
                        /\ \A j \in 0 .. stream[p][k].frg : k + j \in 1 .. N
  BY <1>1, <1>3, Typed DEF Segmented
<1>8. h.n = L + 1
  OBVIOUS
<1> HIDE DEF L, N, s
<1>9. ASSUME NEW k \in 1 .. N + count
      PROVE  LET m == s[k].m
             IN  m.n \in 1 .. L + 1 /\ taken'[p][m.n] = m /\ Accepted(m)
  <2>1. CASE k \in 1 .. N
    <3>1. LET m == stream[p][k].m
          IN  m.n \in 1 .. L /\ taken[p][m.n] = m /\ Accepted(m)
      BY <2>1 DEF Segmented, L, N
    <3>2. stream[p][k].m.n \in 1 .. L + 1
      BY <1>1, <1>7, <2>1
    <3> QED
      BY <1>1, <1>5, <2>1, <3>1, <3>2
  <2>2. CASE k - N \in 1 .. count /\ k = N + (k - N)
    BY <1>1, <1>5, <1>8, <2>2, SMTT(30)
  <2> QED
    BY <2>1, <2>2, <1>6
<1>10. ASSUME NEW k \in 1 .. N + count, NEW j \in 0 .. s[k].frg
       PROVE  k + j <= N + count /\ s[k + j].m = s[k].m /\ s[k + j].frg = s[k].frg - j
  <2>1. CASE k \in 1 .. N
    <3>1. j \in 0 .. stream[p][k].frg /\ k + j \in 1 .. N
      BY <1>5, <1>7, <2>1
    <3>2. stream[p][k + j].m = stream[p][k].m /\ stream[p][k + j].frg = stream[p][k].frg - j
      BY <2>1, <3>1 DEF Segmented, N
    <3>3. s[k] = stream[p][k] /\ s[k + j] = stream[p][k + j] /\ k + j \in 1 .. N + count
      BY <1>5, <2>1, <3>1
    <3> QED
      BY <1>2, <1>3, <3>2, <3>3
  <2>2. CASE k - N \in 1 .. count /\ k = N + (k - N)
    <3> DEFINE i == k - N
    <3>1. s[k].m = h /\ s[k].frg = count - i /\ i \in 1 .. count /\ i \in Int /\ k = N + i
      BY <1>5, <2>2
    <3> HIDE DEF i
    <3>2. i + j \in 1 .. count /\ k + j = N + (i + j)
      BY <1>2, <1>3, <3>1
    <3>3. s[k + j].m = h /\ s[k + j].frg = count - (i + j) /\ k + j \in 1 .. N + count
      BY <1>5, <3>2
    <3> QED
      BY <1>2, <1>3, <3>1, <3>3
  <2> QED
    BY <2>1, <2>2, <1>6

<1>11. ASSUME NEW k \in 0 .. N + count, Boundary(p, k)'
       PROVE  /\ k < N + count => Upto(p, k)' < s[k + 1].m.n
              /\ \A i \in 1 .. L + 1 : Upto(p, k)' < i /\ (k < N + count => i < s[k + 1].m.n)
                   => ~Accepted(taken'[p][i])
  <2>1. ASSUME k \in 0 .. N
        PROVE  Boundary(p, k) /\ Upto(p, k)' = Upto(p, k) /\ Upto(p, k) \in 0 .. L
    <3>1. CASE k = 0
      BY <3>1, <1>1 DEF Boundary, Upto
    <3>2. CASE k # 0
      <4>1. k \in 1 .. N /\ s[k] = stream[p][k]
        BY <2>1, <3>2, <1>3, <1>5
      <4> QED
        <5>1. Boundary(p, k) /\ Upto(p, k)' = Upto(p, k)
          BY <1>11, <3>2, <4>1 DEF Boundary, Upto, s
        <5>2. Upto(p, k) \in 0 .. L
          BY <1>1, <1>7, <3>2, <4>1 DEF Upto
        <5> QED
          BY <5>1, <5>2
    <3> QED
      BY <3>1, <3>2
  <2>2. CASE k \in 0 .. N /\ k < N
    <3>1. k + 1 \in 1 .. N /\ s[k + 1] = stream[p][k + 1] /\ stream[p][k + 1].m.n \in 1 .. L
      <4>1. k + 1 \in 1 .. N
        BY <2>2, <1>3
      <4> QED
        BY <4>1, <1>5, <1>7
    <3>2. /\ Upto(p, k) < stream[p][k + 1].m.n
          /\ \A i \in 1 .. L : Upto(p, k) < i /\ i < stream[p][k + 1].m.n => ~Accepted(taken[p][i])
      BY <2>1, <2>2 DEF Segmented, L, N
    <3>3. k < N + count
      BY <2>2, <1>2, <1>3
    <3>4. \A i \in 1 .. L + 1 : i < stream[p][k + 1].m.n => i \in 1 .. L
      BY <1>1, <3>1
    <3> QED
      BY <1>1, <2>1, <2>2, <3>1, <3>2, <3>3, <3>4
  <2>3. CASE k = N
    <3>1. /\ k + 1 = N + 1 /\ 1 \in 1 .. count /\ k < N + count /\ k \in 0 .. N /\ ~(k < N)
      BY <2>3, <1>2, <1>3
    <3>2. s[k + 1].m.n = L + 1
      BY <1>5, <1>8, <3>1
    <3>3. \A i \in 1 .. L : Upto(p, k) < i => ~Accepted(taken[p][i])
      BY <2>1, <3>1 DEF Segmented, L, N
    <3>4. \A i \in 1 .. L + 1 : i < L + 1 => i \in 1 .. L
      BY <1>1
    <3> QED
      BY <1>1, <2>1, <3>1, <3>2, <3>3, <3>4
  <2>4. CASE k > N
    <3> DEFINE i == k - N
    <3>1. i \in 1 .. count /\ k = N + i /\ k # 0 /\ i \in Int
      BY <2>4, <1>2, <1>3
    <3> HIDE DEF i
    <3>2. s[k].m = h /\ s[k].frg = count - i
      BY <1>5, <3>1
    <3>3. count - i = 0
      BY <1>11, <3>1, <3>2 DEF Boundary, s
    <3>4. ~(k < N + count)
      BY <3>1, <3>3, <1>2, <1>3
    <3>5. Upto(p, k)' = L + 1
      BY <1>8, <3>1, <3>2 DEF Upto, s
    <3> QED
      BY <3>4, <3>5, <1>1
  <2>5. (k \in 0 .. N /\ k < N) \/ k = N \/ k > N
    BY <1>2, <1>3
  <2> QED
    BY <2>2, <2>3, <2>4, <2>5
<1>12. Segmented(p)'
  <2>1. /\ Len(taken'[p]) = L + 1 /\ Len(stream'[p]) = N + count
    BY <1>1, <1>4 DEF s
  <2>2. \A k \in 1 .. N + count :
          LET m == stream'[p][k].m
          IN  m.n \in 1 .. L + 1 /\ taken'[p][m.n] = m /\ Accepted(m)
    BY <1>9 DEF s
  <2>3. \A k \in 1 .. N + count : \A j \in 0 .. stream'[p][k].frg :
          /\ k + j <= N + count /\ stream'[p][k + j].m = stream'[p][k].m
          /\ stream'[p][k + j].frg = stream'[p][k].frg - j
    BY <1>10 DEF s
  <2>4. \A k \in 0 .. N + count : Boundary(p, k)' =>
          /\ k < N + count => Upto(p, k)' < stream'[p][k + 1].m.n
          /\ \A i \in 1 .. L + 1 :
               Upto(p, k)' < i /\ (k < N + count => i < stream'[p][k + 1].m.n)
                 => ~Accepted(taken'[p][i])
    BY <1>11 DEF s
  <2> HIDE DEF SInv
  <2> QED
    BY <2>1, <2>2, <2>3, <2>4, ZenonT(30) DEF Segmented
<1> QED
  BY <1>2, <1>3, <1>4, <1>5, <1>12 DEF N, s

(* The numbers of the messages: what ikcp_send was called with is the      *)
(* beginning of what was sent, and the next one comes after it.            *)
LEMMA TakenOfSent ==
    ASSUME SInv, NEW p \in Peer
    PROVE  /\ Len(taken[p]) <= Len(sent[p])
           /\ \A i \in 1 .. Len(taken[p]) : taken[p][i] = sent[p][i]
           /\ queue[p] # <<>> => /\ Head(queue[p]) \in Message
                                 /\ Head(queue[p]).n = Len(taken[p]) + 1
<1> DEFINE L == Len(taken[p])
           Q == Len(queue[p])
           T == Len(mSendBufQueue[p])
           both == taken[p] \o queue[p]
<1>1. /\ taken[p] \in Seq(Message) /\ queue[p] \in Seq(Message)
      /\ mSendBufQueue[p] \in Seq(Message)
  BY Typed DEF SInv
<1>2. L \in Nat /\ Q \in Nat /\ T \in Nat
  BY <1>1, LenProperties
<1>3. /\ both \in Seq(Message) /\ Len(both) = L + Q
      /\ \A i \in 1 .. L + Q : both[i] = IF i <= L THEN taken[p][i] ELSE queue[p][i - L]
  BY <1>1, ConcatProperties
<1> HIDE DEF both
<1>4. /\ Len(both \o mSendBufQueue[p]) = Len(both) + T
      /\ \A i \in 1 .. Len(both) + T :
           (both \o mSendBufQueue[p])[i] =
              IF i <= Len(both) THEN both[i] ELSE mSendBufQueue[p][i - Len(both)]
  <2>1. both \in Seq(Message) /\ mSendBufQueue[p] \in Seq(Message)
    BY <1>1, <1>3
  <2> QED
    BY <2>1, ConcatProperties
<1>5. sent[p] = both \o mSendBufQueue[p]
  BY DEF SInv, QueueKeepsAll, both
<1>6. queue[p] # <<>> => /\ Head(queue[p]) \in Message /\ Head(queue[p]) = queue[p][1]
                         /\ Q \in Nat \ {0}
  BY <1>1, HeadTailProperties, EmptySeq
<1> HIDE DEF L, Q, T
<1>7. \A i \in 1 .. L + Q : i \in 1 .. L + Q + T /\ i <= L + Q
  BY <1>2
<1>8. /\ Len(sent[p]) = L + Q + T
      /\ \A i \in 1 .. L + Q : sent[p][i] = both[i]
  BY <1>3, <1>4, <1>5, <1>7
<1>9. \A i \in 1 .. L : taken[p][i] = sent[p][i]
  <2>1. \A i \in 1 .. L : i \in 1 .. L + Q /\ i <= L
    BY <1>2
  <2> QED
    BY <1>3, <1>8, <2>1
<1>10. ASSUME queue[p] # <<>>
       PROVE  Head(queue[p]) \in Message /\ Head(queue[p]).n = L + 1
  <2>1. L + 1 \in 1 .. L + Q /\ ~(L + 1 <= L) /\ L + 1 - L = 1 /\ L + 1 \in 1 .. L + Q + T
    BY <1>2, <1>6, <1>10
  <2>2. sent[p][L + 1] = queue[p][1]
    <3>1. \A i \in 1 .. L + Q : i = L + 1 => both[i] = queue[p][1]
      BY <1>2, <1>3
    <3> QED
      BY <1>8, <2>1, <3>1
  <2>3. sent[p][L + 1].n = L + 1
    BY <1>8, <2>1 DEF SInv, Queues
  <2> QED
    BY <1>6, <1>10, <2>2, <2>3
<1>11. L <= Len(sent[p])
  BY <1>2, <1>8
<1> QED
  BY <1>9, <1>10, <1>11 DEF L

(* A turn of outputRoutine's loop.                                         *)
LEMMA OutputSendInv ==
    ASSUME SInv, NEW p \in Peer, OutputSend(p)
    PROVE  SInv'
<1> USE DEF SInv
<1>1. /\ at[p] = "output" /\ queue[p] # <<>>
      /\ UNCHANGED <<sent, mSendBufQueue, inputVars, at, wakeVars>>
  BY DEF OutputSend, queueVars
<1>2. PICK h : h = Head(queue[p])
  OBVIOUS
<1>3. /\ taken' = [taken EXCEPT ![p] = Append(@, h)]
      /\ queue' = [queue EXCEPT ![p] = Tail(@)]
      /\ stream' = IF Accepted(h) THEN [stream EXCEPT ![p] = @ \o Segments(h)] ELSE stream
  BY <1>2 DEF OutputSend
<1>4. h \in Message /\ h.n = Len(taken[p]) + 1
  BY <1>1, <1>2, TakenOfSent
<1>5. /\ queue[p] \in Seq(Message) /\ Tail(queue[p]) \in Seq(Message)
      /\ taken[p] \in Seq(Message) /\ Append(taken[p], h) \in Seq(Message)
      /\ stream[p] \in Seq(Segment)
      /\ \A i \in 1 .. Len(taken[p]) : Append(taken[p], h)[i] = taken[p][i]
  BY <1>1, <1>4, Typed, HeadTailProperties, AppendProperties
<1>6. /\ taken'[p] = Append(taken[p], h) /\ queue'[p] = Tail(queue[p])
      /\ taken' \in [Peer -> Seq(Message)] /\ queue' \in [Peer -> Seq(Message)]
      /\ \A r \in Peer : r # p => taken'[r] = taken[r] /\ queue'[r] = queue[r]
  BY <1>3, <1>5 DEF Types
<1>7. /\ Segmented(p)'
      /\ stream'[p] \in Seq(Segment) /\ Len(stream[p]) <= Len(stream'[p])
      /\ \A k \in 1 .. Len(stream[p]) : stream'[p][k] = stream[p][k]
      /\ stream' \in [Peer -> Seq(Segment)]
      /\ \A r \in Peer : r # p => stream'[r] = stream[r]
  <2>1. CASE Accepted(h)
    <3>1. stream'[p] = stream[p] \o Segments(h)
      BY <1>3, <2>1 DEF Types
    <3>2. /\ Segmented(p)'
          /\ stream'[p] \in Seq(Segment) /\ Len(stream[p]) <= Len(stream'[p])
          /\ \A k \in 1 .. Len(stream[p]) : stream'[p][k] = stream[p][k]
      BY <1>4, <1>6, <2>1, <3>1, AcceptedSegments
    <3> QED
      BY <1>3, <2>1, <3>1, <3>2 DEF Types
  <2>2. CASE ~Accepted(h)
    <3>1. stream' = stream /\ Segmented(p)'
      BY <1>3, <1>4, <1>6, <2>2, RefusedSegments
    <3> QED
      BY <1>5, <3>1, LenProperties DEF Types
  <2> QED
    BY <2>1, <2>2
<1>8. Types'
  BY <1>1, <1>6, <1>7 DEF Types, inputVars, wakeVars
<1>9. Queues'
  BY <1>1, <1>6 DEF Queues
<1>10. QueueKeepsAll'
  <2>1. taken'[p] \o queue'[p] = taken[p] \o queue[p]
    BY <1>1, <1>2, <1>5, <1>6, HeadMovesOver, ZenonT(30)
  <2> QED
    BY <1>1, <1>6, <2>1 DEF QueueKeepsAll
<1>11. ASSUME NEW r \in Peer PROVE Segmented(r)'
  <2>1. CASE r # p
    <3>1. taken'[r] = taken[r] /\ stream'[r] = stream[r] /\ Segmented(r)
      BY <1>6, <1>7, <2>1
    <3> HIDE DEF SInv
    <3> QED
      BY <3>1 DEF Segmented, Boundary, Upto
  <2> QED
    BY <1>7, <2>1
<1>12. ASSUME NEW q \in Peer PROVE Called(q)'
  <2>1. CASE Other(q) # p
    <3>1. /\ taken'[Other(q)] = taken[Other(q)] /\ stream'[Other(q)] = stream[Other(q)]
          /\ UNCHANGED inputVars /\ Called(q)
      BY <1>1, <1>6, <1>7, <2>1, PeerFacts
    <3>2. called' = called /\ received' = received /\ ready' = ready
      BY <3>1 DEF inputVars
    <3> HIDE DEF SInv
    <3> QED
      BY <3>1, <3>2 DEF Called, Boundary, Upto
  <2>2. CASE Other(q) = p
    <3>1. Len(stream'[p]) \in Nat
      BY <1>7, LenProperties
    <3>2. UNCHANGED inputVars
      BY <1>1
    <3>3. \A i \in 1 .. Len(taken[p]) : taken'[p][i] = taken[p][i]
      BY <1>5, <1>6
    <3> QED
      BY <1>7, <2>2, <3>1, <3>2, <3>3, CalledStays
  <2> QED
    BY <2>1, <2>2
<1>13. NoDatagramForgotten'
  BY <1>1 DEF NoDatagramForgotten, wakeVars
<1> QED
  BY <1>8, <1>9, <1>10, <1>11, <1>12, <1>13

(* What changes neither the queues nor the segments.                       *)
LEMMA WakeStep ==
    ASSUME SInv, UNCHANGED <<queueVars, outputVars, inputVars>>,
           at' \in [Peer -> {"none", "output", "drain", "recv"}],
           socket' \in [Peer -> Nat], event' \in [Peer -> BOOLEAN], tasks' \in [Peer -> Nat],
           \A p \in Peer : at'[p] # "output" => queue[p] = <<>>,
           cutOff' \in [Peer -> BOOLEAN], NoDatagramForgotten'
    PROVE  SInv'
<1>1. Types'
  BY DEF SInv, Types, queueVars, outputVars, inputVars
<1>2. Queues' /\ QueueKeepsAll'
  BY DEF SInv, Queues, QueueKeepsAll, queueVars, outputVars
<1>3. UNCHANGED <<taken, stream, inputVars>>
  BY DEF outputVars
<1> QED
  BY <1>1, <1>2, <1>3, QuietStep DEF SInv

LEMMA OutputDoneInv ==
    ASSUME SInv, NEW p \in Peer, OutputDone(p)
    PROVE  SInv'
<1>1. /\ UNCHANGED <<queueVars, outputVars, inputVars, wakeVars>>
      /\ at[p] = "output" /\ queue[p] = <<>> /\ at' = [at EXCEPT ![p] = "none"]
  BY DEF OutputDone
<1>2. at' \in [Peer -> {"none", "output", "drain", "recv"}]
  BY <1>1 DEF SInv, Types
<1>3. \A r \in Peer : at'[r] # "output" => queue[r] = <<>>
  BY <1>1 DEF SInv, Types, Queues
<1>4. NoDatagramForgotten'
  BY <1>1 DEF SInv, Types, NoDatagramForgotten, wakeVars
<1> QED
  BY <1>1, <1>2, <1>3, <1>4, WakeStep DEF SInv, Types, wakeVars

LEMMA DatagramInv ==
    ASSUME SInv, NEW q \in Peer, Datagram(q)
    PROVE  SInv'
<1>1. /\ UNCHANGED <<queueVars, outputVars, inputVars, at, tasks>>
      /\ socket' = [socket EXCEPT ![q] = @ + 1] /\ event' = [event EXCEPT ![q] = TRUE]
      /\ cutOff' = [cutOff EXCEPT ![q] = FALSE]
  BY DEF Datagram
<1>2. /\ socket' \in [Peer -> Nat] /\ event' \in [Peer -> BOOLEAN]
      /\ cutOff' \in [Peer -> BOOLEAN]
  BY <1>1 DEF SInv, Types
<1>3. NoDatagramForgotten'
  BY <1>1 DEF SInv, Types, NoDatagramForgotten
<1> QED
  BY <1>1, <1>2, <1>3, WakeStep DEF SInv, Types, Queues

LEMMA TriggerEventInv ==
    ASSUME SInv, NEW q \in Peer, TriggerEvent(q)
    PROVE  SInv'
<1>1. /\ UNCHANGED <<queueVars, outputVars, inputVars, at, socket, cutOff>>
      /\ event' = [event EXCEPT ![q] = FALSE] /\ tasks' = [tasks EXCEPT ![q] = @ + 1]
  BY DEF TriggerEvent
<1>2. event' \in [Peer -> BOOLEAN] /\ tasks' \in [Peer -> Nat] /\ tasks'[q] > 0
  BY <1>1 DEF SInv, Types
<1>3. NoDatagramForgotten'
  BY <1>1, <1>2 DEF SInv, Types, NoDatagramForgotten
<1> QED
  BY <1>1, <1>2, <1>3, WakeStep DEF SInv, Types, Queues

(* From here on the datagrams are read until there is none.                *)
LEMMA InputStartInv ==
    ASSUME SInv, NEW q \in Peer, InputStart(q)
    PROVE  SInv'
<1>1. /\ UNCHANGED <<queueVars, outputVars, inputVars, socket, event>>
      /\ at[q] = "none" /\ tasks[q] > 0
      /\ tasks' = [tasks EXCEPT ![q] = @ - 1] /\ at' = [at EXCEPT ![q] = "drain"]
      /\ cutOff' = [cutOff EXCEPT ![q] = FALSE]
  BY DEF InputStart
<1>2. /\ tasks' \in [Peer -> Nat] /\ cutOff' \in [Peer -> BOOLEAN]
      /\ at' \in [Peer -> {"none", "output", "drain", "recv"}]
  BY <1>1 DEF SInv, Types
<1>3. \A r \in Peer : at'[r] # "output" => queue[r] = <<>>
  BY <1>1 DEF SInv, Types, Queues
<1>4. NoDatagramForgotten'
  BY <1>1 DEF SInv, Types, NoDatagramForgotten
<1> QED
  BY <1>1, <1>2, <1>3, <1>4, WakeStep DEF SInv, Types

LEMMA InputDrainedInv ==
    ASSUME SInv, NEW q \in Peer, InputDrained(q)
    PROVE  SInv'
<1>1. /\ UNCHANGED <<queueVars, outputVars, inputVars, wakeVars>>
      /\ at[q] = "drain" /\ socket[q] = 0 /\ at' = [at EXCEPT ![q] = "recv"]
  BY DEF InputDrained, StopReading
<1>2. at' \in [Peer -> {"none", "output", "drain", "recv"}]
  BY <1>1 DEF SInv, Types
<1>3. \A r \in Peer : at'[r] # "output" => queue[r] = <<>>
  BY <1>1 DEF SInv, Types, Queues
<1>4. NoDatagramForgotten'
  BY <1>1 DEF SInv, Types, NoDatagramForgotten, wakeVars
<1> QED
  BY <1>1, <1>2, <1>3, <1>4, WakeStep DEF SInv, Types, wakeVars

(* Whatever is left in the socket is noted.                                *)
LEMMA RecvfromFailsInv ==
    ASSUME SInv, NEW q \in Peer, RecvfromFails(q)
    PROVE  SInv'
<1>1. /\ UNCHANGED <<queueVars, outputVars, inputVars, socket, event, tasks>>
      /\ at[q] = "drain" /\ at' = [at EXCEPT ![q] = "recv"]
      /\ cutOff' = [cutOff EXCEPT ![q] = socket[q] > 0]
  BY DEF RecvfromFails
<1>2. /\ at' \in [Peer -> {"none", "output", "drain", "recv"}]
      /\ cutOff' \in [Peer -> BOOLEAN]
  BY <1>1 DEF SInv, Types
<1>3. \A r \in Peer : at'[r] # "output" => queue[r] = <<>>
  BY <1>1 DEF SInv, Types, Queues
<1>4. NoDatagramForgotten'
  <2>1. cutOff'[q] = (socket[q] > 0) /\ \A r \in Peer : r # q => cutOff'[r] = cutOff[r] /\ at'[r] = at[r]
    BY <1>1 DEF SInv, Types
  <2>2. UNCHANGED <<socket, event, tasks>>
    BY <1>1
  <2> QED
    BY <2>1, <2>2 DEF SInv, NoDatagramForgotten
<1> QED
  BY <1>1, <1>2, <1>3, <1>4, WakeStep DEF SInv, Types

(* rcv_queue only grows, and holds nothing that was not sent.              *)
LEMMA ReadyInStream ==
    ASSUME SInv, NEW q \in Peer, NEW done \in Nat, NEW n \in MayBeReady(q, done)
    PROVE  n \in Nat /\ ready[q] <= n /\ n <= Len(stream[Other(q)])
<1> DEFINE N == Len(stream[Other(q)])
           least == Min({N, done + RcvWnd})
           most == Max({ready[q], least})
<1>1. N \in Nat /\ ready[q] \in Nat /\ ready[q] <= N
  BY Typed, PeerFacts DEF SInv, Called
<1>2. n \in ready[q] .. most
  BY DEF MayBeReady
<1> HIDE DEF N
<1>3. least \in Nat /\ least <= N
  <2>1. {N, done + RcvWnd} \subseteq Nat /\ {N, done + RcvWnd} # {}
    BY <1>1, SessionSizes
  <2>2. least \in {N, done + RcvWnd} /\ \A y \in {N, done + RcvWnd} : least <= y
    <3> HIDE DEF least
    <3> QED
      BY <2>1, MinOfNats DEF least
  <2> QED
    BY <2>1, <2>2
<1> HIDE DEF least
<1>4. most = IF ready[q] >= least THEN ready[q] ELSE least
  BY <1>1, <1>3, MaxOfTwo
<1> QED
  BY <1>1, <1>2, <1>3, <1>4 DEF N

(* A datagram may complete segments.                                       *)
LEMMA RecvfromInv ==
    ASSUME SInv, NEW q \in Peer, Recvfrom(q)
    PROVE  SInv'
<1> USE DEF SInv
<1>1. PICK n \in MayBeReady(q, received[q]) : ready' = [ready EXCEPT ![q] = n]
  BY DEF Recvfrom
<1>2. /\ UNCHANGED <<queueVars, outputVars, received, called, at, event, tasks, cutOff>>
      /\ at[q] = "drain" /\ socket[q] > 0 /\ socket' = [socket EXCEPT ![q] = @ - 1]
  BY DEF Recvfrom
<1>3. n \in Nat /\ ready[q] <= n /\ n <= Len(stream[Other(q)])
  BY <1>1, Typed, ReadyInStream
<1>4. /\ ready' \in [Peer -> Nat] /\ socket' \in [Peer -> Nat] /\ ready'[q] = n
      /\ \A r \in Peer : r # q => ready'[r] = ready[r]
  <2>1. ready \in [Peer -> Nat] /\ socket \in [Peer -> Nat]
    BY DEF Types
  <2> HIDE DEF SInv
  <2> QED
    BY <1>1, <1>2, <1>3, <2>1
<1>5. Types'
  BY <1>2, <1>4 DEF Types, queueVars, outputVars
<1>6. Queues' /\ QueueKeepsAll'
  BY <1>2 DEF Queues, QueueKeepsAll, queueVars, outputVars
<1>7. ASSUME NEW p \in Peer PROVE Segmented(p)'
  <2>1. Segmented(p)
    OBVIOUS
  <2> HIDE DEF SInv
  <2> QED
    BY <1>2, <2>1 DEF Segmented, Boundary, Upto, outputVars
<1>8. ASSUME NEW r \in Peer PROVE Called(r)'
  <2>1. Called(r) /\ received[r] \in Nat /\ ready[r] \in Nat
    BY Typed
  <2>2. received[r] <= ready'[r] /\ ready'[r] <= Len(stream[Other(r)])
    <3>1. received[r] <= ready[r] /\ ready[r] <= Len(stream[Other(r)])
      BY <2>1 DEF Called
    <3>2. CASE r = q
      BY <1>3, <1>4, <2>1, <3>1, <3>2
    <3>3. CASE r # q
      BY <1>4, <3>1, <3>3
    <3> HIDE DEF SInv
    <3> QED
      BY <3>2, <3>3
  <2> HIDE DEF SInv
  <2> QED
    BY <1>2, <2>1, <2>2 DEF Called, Boundary, Upto, outputVars
<1>9. NoDatagramForgotten'
  BY <1>2 DEF Types, NoDatagramForgotten
<1> QED
  BY <1>5, <1>6, <1>7, <1>8, <1>9

(* The end of inputRoutine: the next message of the peer that ikcp_send    *)
(* accepted, or nothing.                                                   *)
LEMMA InputRecvInv ==
    ASSUME SInv, NEW q \in Peer, InputRecv(q)
    PROVE  SInv'
<1> DEFINE p == Other(q)
           r == received[q]
           s == stream[p]
           N == Len(s)
           calls == called[q]
           C == Len(calls)
<1>1. /\ UNCHANGED <<queueVars, outputVars, wakeVars>>
      /\ at[q] = "recv" /\ at' = [at EXCEPT ![q] = "none"]
  BY DEF InputRecv
<1>2. /\ at' \in [Peer -> {"none", "output", "drain", "recv"}]
      /\ \A x \in Peer : at'[x] # "output" => queue[x] = <<>>
      /\ NoDatagramForgotten'
  BY <1>1 DEF SInv, Types, Queues, NoDatagramForgotten, wakeVars
<1>3. CASE UNCHANGED inputVars
  BY <1>1, <1>2, <1>3, WakeStep DEF SInv, Types, wakeVars
<1>4. CASE Whole(q) /\ FirstReady(q).m.frags > 0
  <2> DEFINE m == s[r + 1].m
             f == s[r + 1].frg
             e == r + f + 1
  <2>1. /\ ready[q] > r /\ ready[q] >= e
        /\ received' = [received EXCEPT ![q] = e]
        /\ called' = [called EXCEPT ![q] = Append(@, m)]
        /\ \E n \in MayBeReady(q, e) : ready' = [ready EXCEPT ![q] = n]
    BY <1>4 DEF InputRecv, Whole, FirstReady
  <2>2. /\ p \in Peer /\ r \in Nat /\ ready[q] \in Nat /\ N \in Nat /\ ready[q] <= N
        /\ calls \in Seq(Message) /\ C \in Nat
        /\ \A k \in 1 .. N : s[k].m \in Message /\ s[k].frg \in Nat /\ s[k].m.n \in Nat
    BY PeerFacts, Typed DEF SInv, Called
  <2>3. r + 1 \in 1 .. N /\ r \in 0 .. N /\ r < N
    BY <2>1, <2>2
  <2>4. m \in Message /\ f \in Nat /\ m.n \in Nat /\ e \in 1 .. N /\ e = r + 1 + f /\ e \in Nat
    <3>1. m \in Message /\ f \in Nat /\ m.n \in Nat
      BY <2>2, <2>3
    <3>2. e = r + f + 1
      OBVIOUS
    <3> HIDE DEF f, N, m, e, r
    <3> QED
      BY <2>1, <2>2, <3>1, <3>2
  <2>5. Segmented(p) /\ Called(q)
    BY <2>2 DEF SInv
  <2>6. m.n \in 1 .. Len(taken[p]) /\ taken[p][m.n] = m /\ Accepted(m)
    BY <2>3, <2>5 DEF Segmented
  <2>7. s[e].m = m /\ s[e].frg = 0
    <3>1. \A j \in 0 .. s[r + 1].frg : /\ s[r + 1 + j].m = s[r + 1].m
                                       /\ s[r + 1 + j].frg = s[r + 1].frg - j
      BY <2>3, <2>5 DEF Segmented
    <3>2. f \in 0 .. f /\ f - f = 0
      BY <2>4
    <3> HIDE DEF s, e
    <3> QED
      BY <2>4, <3>1, <3>2
  <2>8. /\ Boundary(p, r)
        /\ \A k \in 1 .. C : /\ calls[k].n \in 1 .. Upto(p, r)
                             /\ calls[k] = taken[p][calls[k].n]
                             /\ Accepted(calls[k])
        /\ \A j, k \in 1 .. C : j < k => calls[j].n < calls[k].n
        /\ \A n \in 1 .. Upto(p, r) : Accepted(taken[p][n]) =>
             \E j \in 1 .. C : calls[j] = taken[p][n]
    BY <2>5 DEF Called
  <2>9. /\ Upto(p, r) < m.n
        /\ \A i \in 1 .. Len(taken[p]) : Upto(p, r) < i /\ i < m.n => ~Accepted(taken[p][i])
    BY <2>3, <2>5, <2>8 DEF Segmented
  <2>10. Upto(p, r) \in Nat
    BY <2>2, <2>3 DEF Upto
  <2>11. Boundary(p, e) /\ Upto(p, e) = m.n
    BY <2>4, <2>7 DEF Boundary, Upto
  <2>12. PICK n \in Nat : /\ ready' = [ready EXCEPT ![q] = n]
                          /\ ready[q] <= n /\ n <= N
    BY <2>1, <2>4, ReadyInStream
  <2>13. /\ ready' \in [Peer -> Nat] /\ received' \in [Peer -> Nat]
         /\ called' \in [Peer -> Seq(Message)]
         /\ ready'[q] = n /\ received'[q] = e /\ called'[q] = Append(calls, m)
         /\ \A x \in Peer : x # q => /\ ready'[x] = ready[x] /\ received'[x] = received[x]
                                     /\ called'[x] = called[x]
    <3>1. Append(calls, m) \in Seq(Message)
      BY <2>2, <2>4, AppendProperties
    <3> HIDE DEF m, e
    <3> QED
      BY <2>1, <2>4, <2>12, <3>1 DEF SInv, Types
  <2>14. Types'
    BY <1>1, <1>2, <2>13 DEF SInv, Types, queueVars, outputVars, wakeVars
  <2>15. Queues' /\ QueueKeepsAll'
    BY <1>1, <1>2 DEF SInv, Queues, QueueKeepsAll, queueVars, outputVars
  <2>16. ASSUME NEW x \in Peer PROVE Segmented(x)'
    <3>1. Segmented(x)
      BY DEF SInv
    <3> QED
      BY <1>1, <3>1 DEF Segmented, Boundary, Upto, outputVars
  <2>17. ASSUME NEW x \in Peer, x # q PROVE Called(x)'
    <3>1. Called(x)
      BY DEF SInv
    <3>2. /\ called'[x] = called[x] /\ received'[x] = received[x] /\ ready'[x] = ready[x]
          /\ taken' = taken /\ stream' = stream
      BY <1>1, <2>13, <2>17 DEF outputVars
    <3> QED
      BY <3>1, <3>2 DEF Called, Boundary, Upto

  <2>18. Called(q)'
    <3> DEFINE u == Upto(p, r)
               now == Append(calls, m)
               T == taken[p]
    <3>1. /\ Len(now) = C + 1 /\ now[C + 1] = m
          /\ \A k \in 1 .. C : now[k] = calls[k]
      BY <2>2, <2>4, AppendProperties
    <3>2. \A k \in 1 .. C + 1 : k \in 1 .. C \/ k = C + 1
      BY <2>2
    <3>3. C + 1 \in 1 .. C + 1 /\ \A k \in 1 .. C : k \in 1 .. C + 1 /\ k < C + 1 /\ ~(C + 1 < k)
      BY <2>2
    <3> HIDE DEF u, now, T, C, m
    <3>4. \A k \in 1 .. C + 1 : /\ now[k].n \in 1 .. m.n
                                /\ now[k] = T[now[k].n] /\ Accepted(now[k])
      <4>1. \A i \in 1 .. u : i \in 1 .. m.n
        BY <2>4, <2>9, <2>10 DEF u
      <4>2. m.n \in 1 .. m.n
        BY <2>6
      <4> QED
        BY <2>6, <2>8, <3>1, <3>2, <4>1, <4>2 DEF u, T, C
    <3>5. \A j, k \in 1 .. C + 1 : j < k => now[j].n < now[k].n
      <4>1. ASSUME NEW j \in 1 .. C PROVE calls[j].n < m.n
        <5>1. calls[j].n \in 1 .. u
          BY <2>8 DEF C, u
        <5> QED
          BY <2>4, <2>9, <2>10, <5>1 DEF u
      <4> QED
        BY <2>8, <3>1, <3>2, <3>3, <4>1 DEF C
    <3>6. ASSUME NEW i \in 1 .. m.n, Accepted(T[i])
          PROVE  \E j \in 1 .. C + 1 : now[j] = T[i]
      <4>1. CASE i \in 1 .. u
        BY <2>8, <3>1, <3>3, <3>6, <4>1 DEF u, T, C
      <4>2. CASE i = m.n
        BY <2>6, <3>1, <3>3, <4>2 DEF T
      <4>3. CASE u < i /\ i < m.n
        <5>1. i \in 1 .. Len(taken[p])
          BY <2>6
        <5> QED
          BY <2>9, <3>6, <4>3, <5>1 DEF u, T
      <4> QED
        BY <2>4, <2>10, <4>1, <4>2, <4>3 DEF u
    <3>7. /\ called'[q] = now /\ received'[q] = e /\ ready'[q] = n
          /\ taken' = taken /\ stream' = stream
      BY <1>1, <2>13 DEF now, outputVars
    <3>8. e <= n /\ n <= N
      BY <2>1, <2>2, <2>4, <2>12
    <3>9. /\ Boundary(p, received[q])' = Boundary(p, e)
          /\ Upto(p, received[q])' = Upto(p, e)
      BY <3>7 DEF Boundary, Upto
    <3>10. Boundary(p, received[q])' /\ Upto(p, received[q])' = m.n
      BY <2>11, <3>9
    <3> HIDE DEF e
    <3> QED
      BY <3>1, <3>4, <3>5, <3>6, <3>7, <3>8, <3>10 DEF Called, T
  <2> QED
    BY <1>2, <2>14, <2>15, <2>16, <2>17, <2>18 DEF SInv
<1>5. \/ UNCHANGED inputVars
      \/ Whole(q) /\ FirstReady(q).m.frags > 0
  BY DEF InputRecv
<1> QED
  BY <1>3, <1>4, <1>5

LEMMA InitInv == Init => SInv
<1> SUFFICES ASSUME Init PROVE SInv
  OBVIOUS
<1> DEFINE none == [p \in Peer |-> <<>>]
<1>1. /\ sent = none /\ mSendBufQueue = none /\ queue = none
      /\ taken = none /\ stream = none /\ called = none
      /\ ready = [p \in Peer |-> 0] /\ received = [p \in Peer |-> 0]
      /\ socket = [p \in Peer |-> 0] /\ tasks = [p \in Peer |-> 0]
      /\ at = [p \in Peer |-> "none"] /\ event = [p \in Peer |-> FALSE]
      /\ cutOff = [p \in Peer |-> FALSE]
  BY DEF Init
<1>2. \A S : none \in [Peer -> Seq(S)]
  BY EmptySeq
<1>3. \A p \in Peer : none[p] = <<>> /\ Len(none[p]) = 0
  OBVIOUS
<1> HIDE DEF none
<1>4. Types
  BY <1>1, <1>2 DEF Types
<1>5. Queues
  BY <1>1, <1>3 DEF Queues
<1>6. QueueKeepsAll
  <2>1. <<>> = <<>> \o <<>> \o <<>>
    OBVIOUS
  <2> QED
    BY <1>1, <1>3, <2>1 DEF QueueKeepsAll
<1>7. ASSUME NEW p \in Peer PROVE Segmented(p)
  BY <1>1, <1>3 DEF Segmented
<1>8. ASSUME NEW q \in Peer PROVE Called(q)
  <2>1. Upto(Other(q), 0) = 0 /\ Boundary(Other(q), 0)
    BY DEF Upto, Boundary
  <2> QED
    BY <1>1, <1>3, <2>1, PeerFacts DEF Called
<1>9. NoDatagramForgotten
  BY <1>1 DEF NoDatagramForgotten
<1> QED
  BY <1>4, <1>5, <1>6, <1>7, <1>8, <1>9 DEF SInv

LEMMA StepInv == SInv /\ [Next]_vars => SInv'
<1> SUFFICES ASSUME SInv, [Next]_vars PROVE SInv'
  OBVIOUS
<1>1. ASSUME NEW p \in Peer, Send(p) PROVE SInv'
  BY <1>1, SendInv
<1>2. ASSUME NEW p \in Peer, OutputTake(p) PROVE SInv'
  BY <1>2, OutputTakeInv
<1>3. ASSUME NEW p \in Peer, OutputSend(p) PROVE SInv'
  BY <1>3, OutputSendInv
<1>4. ASSUME NEW p \in Peer, OutputDone(p) PROVE SInv'
  BY <1>4, OutputDoneInv
<1>5. ASSUME NEW p \in Peer, Datagram(p) PROVE SInv'
  BY <1>5, DatagramInv
<1>6. ASSUME NEW p \in Peer, TriggerEvent(p) PROVE SInv'
  BY <1>6, TriggerEventInv
<1>7. ASSUME NEW p \in Peer, InputStart(p) PROVE SInv'
  BY <1>7, InputStartInv
<1>8. ASSUME NEW p \in Peer, Recvfrom(p) PROVE SInv'
  BY <1>8, RecvfromInv
<1>9. ASSUME NEW p \in Peer, InputDrained(p) PROVE SInv'
  BY <1>9, InputDrainedInv
<1>10. ASSUME NEW p \in Peer, InputRecv(p) PROVE SInv'
  BY <1>10, InputRecvInv
<1>11. ASSUME NEW p \in Peer, RecvfromFails(p) PROVE SInv'
  BY <1>11, RecvfromFailsInv
<1>12. CASE UNCHANGED vars
  <2>1. UNCHANGED <<queueVars, outputVars, inputVars, at, wakeVars>>
    BY <1>12 DEF vars
  <2>2. NoDatagramForgotten'
    BY <2>1 DEF SInv, NoDatagramForgotten, wakeVars
  <2> QED
    BY <2>1, <2>2, WakeStep DEF SInv, Types, Queues, wakeVars
<1> QED
  BY <1>1, <1>2, <1>3, <1>4, <1>5, <1>6, <1>7, <1>8, <1>9, <1>10, <1>11, <1>12 DEF Next

-----------------------------------------------------------------------------
(* The theorems.                                                           *)

(* Owners, timers, read events and datagrams keep the invariant.           *)
THEOREM Invariance == Spec => []SInv
  BY InitInv, StepInv, PTL DEF Spec

(* A message queued while outputRoutine runs is neither lost nor passed    *)
(* to ikcp_send twice, and none overtakes another.                         *)
THEOREM KeepsAll == Spec => []QueueKeepsAll
  BY Invariance, PTL DEF SInv

(* mRecvEvent is called with the messages of the peer in order, once each, *)
(* whatever number of segments a datagram completes.                       *)
THEOREM DeliversInOrder == Spec => []CallbacksInOrder
<1>1. ASSUME SInv PROVE CallbacksInOrder
  <2> SUFFICES ASSUME NEW q \in Peer
               PROVE  LET calls == called[q]
                          messages == sent[Other(q)]
                      IN  /\ \A k \in DOMAIN calls :
                               /\ calls[k].n \in DOMAIN messages
                               /\ calls[k] = messages[calls[k].n]
                               /\ Accepted(calls[k])
                          /\ \A j, k \in DOMAIN calls : j < k => calls[j].n < calls[k].n
                          /\ \A n \in DOMAIN messages, k \in DOMAIN calls :
                               Accepted(messages[n]) /\ n <= calls[k].n
                                 => \E j \in 1 .. k : calls[j] = messages[n]
    BY DEF CallbacksInOrder
  <2> DEFINE p == Other(q)
             calls == called[q]
             u == Upto(p, received[q])
             L == Len(taken[p])
  <2>1. /\ p \in Peer /\ calls \in Seq(Message) /\ sent[p] \in Seq(Message)
        /\ L \in Nat /\ Len(sent[p]) \in Nat /\ Len(stream[p]) \in Nat
        /\ received[q] \in Nat /\ ready[q] \in Nat
    BY <1>1, PeerFacts, Typed DEF SInv
  <2>2. DOMAIN calls = 1 .. Len(calls) /\ DOMAIN sent[p] = 1 .. Len(sent[p]) /\ Len(calls) \in Nat
    BY <2>1, LenProperties
  <2>3. /\ L <= Len(sent[p]) /\ \A i \in 1 .. L : taken[p][i] = sent[p][i]
    BY <1>1, <2>1, TakenOfSent
  <2>4. Segmented(p) /\ Called(q)
    BY <1>1, <2>1 DEF SInv
  <2>5. u \in 0 .. L
    <3>1. received[q] = 0 \/ received[q] \in 1 .. Len(stream[p])
      BY <2>1, <2>4 DEF Called
    <3> QED
      BY <2>1, <2>4, <3>1 DEF Upto, Segmented
  <2>6. /\ \A k \in 1 .. Len(calls) : /\ calls[k].n \in 1 .. u
                                      /\ calls[k] = taken[p][calls[k].n]
                                      /\ Accepted(calls[k])
        /\ \A j, k \in 1 .. Len(calls) : j < k => calls[j].n < calls[k].n
        /\ \A n \in 1 .. u : Accepted(taken[p][n]) =>
             \E j \in 1 .. Len(calls) : calls[j] = taken[p][n]
    BY <2>4 DEF Called
  <2>7. \A i \in 1 .. Len(sent[p]) : sent[p][i].n = i
    BY <1>1, <2>1 DEF SInv, Queues
  <2> HIDE DEF u, L, p, calls
  <2>8. \A i \in 1 .. u : i \in 1 .. L /\ i \in 1 .. Len(sent[p]) /\ taken[p][i] = sent[p][i]
    BY <2>1, <2>3, <2>5
  <2>9. \A k \in 1 .. Len(calls) : /\ calls[k].n \in 1 .. Len(sent[p])
                                   /\ calls[k] = sent[p][calls[k].n]
                                   /\ Accepted(calls[k])
    BY <2>6, <2>8
  <2>10. ASSUME NEW n \in 1 .. Len(sent[p]), NEW k \in 1 .. Len(calls),
                Accepted(sent[p][n]), n <= calls[k].n
         PROVE  \E j \in 1 .. k : calls[j] = sent[p][n]
    <3>1. n \in 1 .. u
      BY <2>5, <2>6, <2>10
    <3>2. PICK j \in 1 .. Len(calls) : calls[j] = sent[p][n]
      BY <2>6, <2>8, <2>10, <3>1
    <3>3. calls[j].n = n
      BY <2>7, <3>2
    <3>4. calls[k].n \in Int /\ calls[j].n \in Int
      BY <2>6
    <3>5. ~(k < j)
      BY <2>6, <2>10, <3>3, <3>4
    <3> QED
      BY <2>2, <3>2, <3>5
  <2> QED
    BY <2>2, <2>6, <2>9, <2>10 DEF p, calls
<1> QED
  BY <1>1, Invariance, PTL

(* The edge-triggered event is consumed before inputRoutine runs; what     *)
(* arrives while it does sets the event again, and only an error of        *)
(* recvfrom leaves datagrams behind.                                       *)
THEOREM ReadsAll == Spec => []NoDatagramForgotten
  BY Invariance, PTL DEF SInv
=============================================================================
