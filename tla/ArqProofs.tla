------------------------------ MODULE ArqProofs ------------------------------
(***************************************************************************)
(* Proofs about Arq for every window, every stream and every number of     *)
(* segments in flight: the inductive invariant IInv, the safety properties *)
(* that follow from it, and that Arq implements KcpChannel.                *)
(***************************************************************************)
EXTENDS Arq, SerialNumbers, SequenceTheorems, TLAPS

-----------------------------------------------------------------------------
(* Facts about sequences.                                                  *)

(* The elements of a concatenation, in the form the steps below use.       *)
LEMMA ConcatElements ==
    ASSUME NEW S, NEW s \in Seq(S), NEW t \in Seq(S)
    PROVE  /\ s \o t \in Seq(S)
           /\ Len(s \o t) = Len(s) + Len(t)
           /\ \A i \in 1 .. Len(s) : (s \o t)[i] = s[i]
           /\ \A i \in 1 .. Len(t) : (s \o t)[Len(s) + i] = t[i]
BY ConcatProperties

(* A queue is split after its first k elements.                            *)
LEMMA SplitElements ==
    ASSUME NEW S, NEW queue \in Seq(S), NEW k \in 1 .. Len(queue)
    PROVE  /\ SubSeq(queue, 1, k) \in Seq(S)
           /\ Len(SubSeq(queue, 1, k)) = k
           /\ \A i \in 1 .. k : SubSeq(queue, 1, k)[i] = queue[i]
           /\ SubSeq(queue, k + 1, Len(queue)) \in Seq(S)
           /\ Len(SubSeq(queue, k + 1, Len(queue))) = Len(queue) - k
           /\ \A i \in 1 .. (Len(queue) - k) :
                SubSeq(queue, k + 1, Len(queue))[i] = queue[k + i]
BY SubSeqProperties

(* Two sequences that hold the first elements of a third, element by       *)
(* element, are together a prefix of it.                                   *)
LEMMA PrefixFromElements ==
    ASSUME NEW S, NEW s \in Seq(S), NEW d \in Seq(S), NEW queue \in Seq(S),
           Len(d) + Len(queue) <= Len(s),
           \A i \in 1 .. Len(d) : d[i] = s[i],
           \A i \in 1 .. Len(queue) : queue[i] = s[Len(d) + i]
    PROVE  d \o queue = SubSeq(s, 1, Len(d) + Len(queue))
<1> DEFINE len == Len(d) + Len(queue)
<1>0. Len(d) \in Nat /\ Len(queue) \in Nat /\ Len(s) \in Nat
  BY LenProperties
<1>1. SubSeq(s, 1, len) \in Seq(S) /\ Len(SubSeq(s, 1, len)) = len
         /\ \A i \in 1 .. len : SubSeq(s, 1, len)[i] = s[i]
  BY <1>0, SubSeqProperties
<1>2. d \o queue \in Seq(S) /\ Len(d \o queue) = len
  BY ConcatProperties
<1>3. \A i \in 1 .. len : (d \o queue)[i] = s[i]
  <2> TAKE i \in 1 .. len
  <2>1. CASE i <= Len(d)
    BY <2>1, <1>0, ConcatElements
  <2>2. CASE i > Len(d)
    <3>1. i - Len(d) \in 1 .. Len(queue) /\ i = Len(d) + (i - Len(d))
      BY <2>2, <1>0
    <3> QED
      BY <3>1, ConcatElements
  <2> QED
    BY <2>1, <2>2, <1>0
<1> QED
  BY <1>0, <1>1, <1>2, <1>3, SeqEqual

-----------------------------------------------------------------------------
(* Facts about the operators of Arq.                                       *)

(* Each endpoint is the other one's other one.                             *)
LEMMA OtherPeer ==
    \A p \in Peer : Other(p) \in Peer /\ Other(p) # p /\ Other(Other(p)) = p
BY PeersDiffer DEF Peer, Other

(* The window on the wire is a natural number.                             *)
LEMMA UnusedType ==
    ASSUME TypeOK, NEW q \in Peer
    PROVE  Unused(q) \in Nat
<1>1. Len(rcv_queue[q]) \in Nat
  BY LenProperties DEF TypeOK
<1>2. RcvWnd \in Nat
  BY WindowsPositive
<1>3. RcvWnd - Len(rcv_queue[q]) \in Int
  BY <1>1, <1>2
<1> QED
  BY <1>3 DEF Unused

(* A segment that flush or a probe makes has the type of a message.        *)
LEMMA SegmentType ==
    ASSUME TypeOK, NEW p \in Peer, NEW cmd \in Cmd, NEW sn \in Nat,
           NEW data \in Data \cup {NoData}
    PROVE  Segment(p, cmd, sn, data) \in Message
<1>1. rcv_nxt[p] \in Nat
  BY DEF TypeOK
<1> QED
  BY <1>1, UnusedType DEF Segment, Message

(* The move loop of ikcp_recv and ikcp_parse_data: n segments leave buf    *)
(* for the end of queue, nothing that was held is dropped, rcv_queue stays *)
(* within rcv_wnd, and the loop stops only for lack of room or at a gap.   *)
LEMMA MoveLoop ==
    ASSUME TypeOK, NEW q \in Peer,
           NEW buf, DOMAIN buf \subseteq Nat, \A sn \in DOMAIN buf : buf[sn] \in Data,
           NEW queue \in Seq(Data), NEW n \in 0 .. RcvWnd,
           MoveToQueue(q, buf, queue, n)
    PROVE  /\ rcv_nxt' \in [Peer -> Nat]
           /\ rcv_nxt'[q] = rcv_nxt[q] + n
           /\ DOMAIN rcv_buf' = Peer
           /\ DOMAIN rcv_buf'[q] =
                DOMAIN buf \ (rcv_nxt[q] .. (rcv_nxt[q] + n - 1))
           /\ \A sn \in DOMAIN rcv_buf'[q] : rcv_buf'[q][sn] = buf[sn]
           /\ rcv_queue' \in [Peer -> Seq(Data)]
           /\ Len(rcv_queue'[q]) = Len(queue) + n
           /\ \A i \in 1 .. Len(queue) : rcv_queue'[q][i] = queue[i]
           /\ \A i \in 1 .. n :
                rcv_queue'[q][Len(queue) + i] = buf[rcv_nxt[q] + i - 1]
           /\ \A i \in 1 .. n : rcv_nxt[q] + i - 1 \in DOMAIN buf
           /\ \A p \in Peer \ {q} : /\ rcv_nxt'[p] = rcv_nxt[p]
                                    /\ rcv_buf'[p] = rcv_buf[p]
                                    /\ rcv_queue'[p] = rcv_queue[p]
           /\ Len(rcv_queue'[q]) <= RcvWnd
           /\ rcv_nxt'[q] \in DOMAIN rcv_buf'[q] =>
                Len(rcv_queue'[q]) = RcvWnd
<1> DEFINE more == [i \in 1 .. n |-> buf[rcv_nxt[q] + i - 1]]
           left == [sn \in DOMAIN buf \ (rcv_nxt[q] .. (rcv_nxt[q] + n - 1))
                        |-> buf[sn]]
<1>0. RcvWnd \in Nat /\ n \in Nat /\ rcv_nxt[q] \in Nat /\ Len(queue) \in Nat
  BY WindowsPositive, LenProperties DEF TypeOK
<1>1. /\ Len(queue) + n <= RcvWnd
      /\ \A sn \in rcv_nxt[q] .. (rcv_nxt[q] + n - 1) : sn \in DOMAIN buf
      /\ Len(queue) + n = RcvWnd \/ rcv_nxt[q] + n \notin DOMAIN buf
  BY DEF MoveToQueue, Movable
<1>2. \A i \in 1 .. n : rcv_nxt[q] + i - 1 \in DOMAIN buf
  <2> TAKE i \in 1 .. n
  <2>1. rcv_nxt[q] + i - 1 \in rcv_nxt[q] .. (rcv_nxt[q] + n - 1)
    BY <1>0
  <2> QED
    BY <1>1, <2>1
<1>3. more \in Seq(Data) /\ Len(more) = n
         /\ \A i \in 1 .. n : more[i] = buf[rcv_nxt[q] + i - 1]
  BY <1>0, <1>2
<1>4. /\ rcv_nxt' = [rcv_nxt EXCEPT ![q] = @ + n]
      /\ rcv_buf' = [rcv_buf EXCEPT ![q] = left]
      /\ rcv_queue' = [rcv_queue EXCEPT ![q] = queue \o more]
  BY DEF MoveToQueue
<1>5. /\ rcv_nxt' \in [Peer -> Nat]
      /\ rcv_nxt'[q] = rcv_nxt[q] + n
      /\ \A p \in Peer \ {q} : rcv_nxt'[p] = rcv_nxt[p]
  BY <1>0, <1>4 DEF TypeOK
<1>6. /\ DOMAIN rcv_buf' = Peer
      /\ rcv_buf'[q] = left
      /\ \A p \in Peer \ {q} : rcv_buf'[p] = rcv_buf[p]
  BY <1>4 DEF TypeOK
<1>7. /\ queue \o more \in Seq(Data)
      /\ Len(queue \o more) = Len(queue) + n
      /\ \A i \in 1 .. Len(queue) : (queue \o more)[i] = queue[i]
      /\ \A i \in 1 .. n :
           (queue \o more)[Len(queue) + i] = buf[rcv_nxt[q] + i - 1]
  <2> HIDE DEF more
  <2>1. more \in Seq(Data)
    BY <1>3
  <2>2. /\ queue \o more \in Seq(Data)
        /\ Len(queue \o more) = Len(queue) + Len(more)
        /\ \A i \in 1 .. Len(queue) : (queue \o more)[i] = queue[i]
        /\ \A i \in 1 .. Len(more) : (queue \o more)[Len(queue) + i] = more[i]
    BY <2>1, ConcatElements
  <2> QED
    BY <1>3, <2>2
<1>8. /\ rcv_queue' \in [Peer -> Seq(Data)]
      /\ rcv_queue'[q] = queue \o more
      /\ \A p \in Peer \ {q} : rcv_queue'[p] = rcv_queue[p]
  <2> HIDE DEF more
  <2> QED
    BY <1>4, <1>7 DEF TypeOK
<1>9. Len(rcv_queue'[q]) <= RcvWnd
         /\ (rcv_nxt'[q] \in DOMAIN rcv_buf'[q] =>
               Len(rcv_queue'[q]) = RcvWnd)
  <2> HIDE DEF more
  <2>1. DOMAIN rcv_buf'[q] \subseteq DOMAIN buf
    BY <1>6
  <2> QED
    BY <2>1, <1>1, <1>5, <1>7, <1>8
<1> QED
  <2>1. DOMAIN left = DOMAIN buf \ (rcv_nxt[q] .. (rcv_nxt[q] + n - 1))
          /\ \A sn \in DOMAIN left : left[sn] = buf[sn]
    OBVIOUS
  <2> HIDE DEF more, left
  <2> QED
    BY <2>1, <1>2, <1>5, <1>6, <1>7, <1>8, <1>9

-----------------------------------------------------------------------------
(* IInv is inductive: the initial state, then one lemma for each action.   *)

(* ikcp_create establishes the invariant.                                  *)
LEMMA InitInv == Init => IInv
<1> SUFFICES ASSUME Init PROVE IInv
  OBVIOUS
<1> USE DEF Init
<1>1. TypeOK
  BY WindowsPositive, EmptySeq DEF TypeOK
<1>2. SenderWindow
  BY WindowsPositive, EmptySeq DEF SenderWindow
<1>3. ReceiverBound /\ NotStranded
  BY WindowsPositive, EmptySeq DEF ReceiverBound, NotStranded
<1>4. NothingLost /\ AcksAreTrue
  BY DEF NothingLost, AcksAreTrue
<1>5. ContentsTrue
  BY OtherPeer, EmptySeq DEF ContentsTrue
<1> QED
  BY <1>1, <1>2, <1>3, <1>4, <1>5 DEF IInv

(* ikcp_send only extends snd_queue.                                       *)
LEMMA SendInv ==
    ASSUME IInv, NEW p \in Peer, Send(p)
    PROVE  IInv'
<1> USE DEF IInv
<1>1. PICK b \in Batch : stream' = [stream EXCEPT ![p] = @ \o b]
  BY DEF Send
<1>2. UNCHANGED <<snd_una, snd_nxt, snd_buf, rmt_wnd, rcv_nxt, rcv_buf,
                  rcv_queue, acklist, delivered, net>>
  BY DEF Send, recvVars
<1>3. b \in Seq(Data)
  BY BatchesOfData
<1>4. /\ stream' \in [Peer -> Seq(Data)]
      /\ \A r \in Peer :
           /\ Len(stream[r]) \in Nat /\ Len(stream'[r]) \in Nat
           /\ Len(stream[r]) <= Len(stream'[r])
           /\ \A i \in 1 .. Len(stream[r]) : stream'[r][i] = stream[r][i]
  <2>1. /\ stream[p] \o b \in Seq(Data)
        /\ Len(stream[p] \o b) = Len(stream[p]) + Len(b)
        /\ \A i \in 1 .. Len(stream[p]) : (stream[p] \o b)[i] = stream[p][i]
    BY <1>3, ConcatElements DEF TypeOK
  <2>2. stream' \in [Peer -> Seq(Data)] /\ stream'[p] = stream[p] \o b
    BY <1>1, <2>1 DEF TypeOK
  <2>3. \A r \in Peer \ {p} : stream'[r] = stream[r]
    BY <1>1 DEF TypeOK
  <2>4. \A r \in Peer : Len(stream[r]) \in Nat /\ Len(stream'[r]) \in Nat
    BY <2>2, LenProperties DEF TypeOK
  <2>5. Len(b) \in Nat
    BY <1>3, LenProperties
  <2> QED
    BY <2>1, <2>2, <2>3, <2>4, <2>5
<1>5. TypeOK'
  BY <1>2, <1>4 DEF TypeOK
<1>6. SenderWindow'
  BY <1>2, <1>4, SMTT(30) DEF SenderWindow, TypeOK
<1>7. ReceiverBound' /\ NotStranded' /\ NothingLost' /\ AcksAreTrue'
  BY <1>2 DEF ReceiverBound, NotStranded, NothingLost, AcksAreTrue, Held
<1>8. ContentsTrue'
  <2>1. \A m \in net : m.cmd = "PUSH" =>
          m.sn < snd_nxt[m.src] /\ m.data = stream'[m.src][m.sn + 1]
    <3> SUFFICES ASSUME NEW m \in net, m.cmd = "PUSH"
                 PROVE  m.sn < snd_nxt[m.src]
                        /\ m.data = stream'[m.src][m.sn + 1]
      OBVIOUS
    <3>1. m.src \in Peer /\ m.sn \in Nat /\ snd_nxt[m.src] \in Nat
      BY DEF TypeOK, Message
    <3>2. m.sn < snd_nxt[m.src] /\ m.data = stream[m.src][m.sn + 1]
      BY DEF ContentsTrue
    <3>3. m.sn + 1 \in 1 .. Len(stream[m.src])
      BY <1>4, <3>1, <3>2 DEF SenderWindow
    <3> QED
      BY <1>4, <3>1, <3>2, <3>3
  <2>2. ASSUME NEW q \in Peer
        PROVE  /\ \A sn \in DOMAIN rcv_buf[q] :
                    rcv_buf[q][sn] = stream'[Other(q)][sn + 1]
               /\ \A i \in 1 .. Len(delivered[q]) :
                    delivered[q][i] = stream'[Other(q)][i]
               /\ \A i \in 1 .. Len(rcv_queue[q]) :
                    rcv_queue[q][i] = stream'[Other(q)][Len(delivered[q]) + i]
    <3> DEFINE o  == Other(q)
               ls == Len(stream[o])
               ld == Len(delivered[q])
               lq == Len(rcv_queue[q])
    <3>0. o \in Peer /\ ls \in Nat /\ ld \in Nat /\ lq \in Nat
      BY OtherPeer, <1>4, LenProperties DEF TypeOK
    <3>1. snd_nxt[o] \in Nat /\ snd_nxt[o] <= ls /\ ld + lq <= snd_nxt[o]
      BY <3>0 DEF TypeOK, SenderWindow, ContentsTrue
    <3>2. \A sn \in DOMAIN rcv_buf[q] : sn \in Nat /\ sn < snd_nxt[o]
      BY DEF TypeOK, ReceiverBound
    <3> HIDE DEF o, ls, ld, lq
    <3>3. \A sn \in DOMAIN rcv_buf[q] : sn + 1 \in 1 .. ls
      BY <3>0, <3>1, <3>2
    <3>4. \A i \in 1 .. ld : i \in 1 .. ls
      BY <3>0, <3>1
    <3>5. \A i \in 1 .. lq : ld + i \in 1 .. ls
      BY <3>0, <3>1
    <3>6. /\ \A sn \in DOMAIN rcv_buf[q] : rcv_buf[q][sn] = stream'[o][sn + 1]
          /\ \A i \in 1 .. ld : delivered[q][i] = stream'[o][i]
          /\ \A i \in 1 .. lq : rcv_queue[q][i] = stream'[o][ld + i]
      <4>1. \A i \in 1 .. ls : stream'[o][i] = stream[o][i]
        BY <1>4, <3>0 DEF ls
      <4>2. /\ \A sn \in DOMAIN rcv_buf[q] : rcv_buf[q][sn] = stream[o][sn + 1]
            /\ \A i \in 1 .. ld : delivered[q][i] = stream[o][i]
            /\ \A i \in 1 .. lq : rcv_queue[q][i] = stream[o][ld + i]
        BY DEF ContentsTrue, o, ld, lq
      <4> QED
        BY <3>3, <3>4, <3>5, <4>1, <4>2
    <3> QED
      BY <3>6 DEF o, ld, lq
  <2> QED
    BY <1>2, <2>1, <2>2 DEF ContentsTrue
<1> QED
  BY <1>5, <1>6, <1>7, <1>8

(* Losing segments cannot break anything.                                  *)
LEMMA LoseInv ==
    ASSUME IInv, Lose
    PROVE  IInv'
<1> USE DEF IInv
<1>1. /\ net' \subseteq net
      /\ UNCHANGED <<stream, snd_una, snd_nxt, snd_buf, rmt_wnd,
                     rcv_nxt, rcv_buf, rcv_queue, acklist, delivered>>
  BY DEF Lose, sendVars, recvVars
<1>2. TypeOK'
  BY <1>1 DEF TypeOK
<1>3. SenderWindow' /\ ReceiverBound' /\ NotStranded' /\ NothingLost'
  BY <1>1 DEF SenderWindow, ReceiverBound, NotStranded, NothingLost, Held
<1>4. AcksAreTrue'
  BY <1>1 DEF AcksAreTrue, Held
<1>5. ContentsTrue'
  BY <1>1 DEF ContentsTrue
<1> QED
  BY <1>2, <1>3, <1>4, <1>5

(* A flush moves the fresh segments from snd_queue to snd_buf and sends    *)
(* only what agrees with the state: acknowledgements of held segments,     *)
(* the current rcv_nxt, and the payload that was written under each sn.    *)
LEMMA FlushInv ==
    ASSUME IInv, NEW p \in Peer, Flush(p)
    PROVE  IInv'
<1> USE DEF IInv
<1> DEFINE len == Len(stream[p])
<1>0. len \in Nat /\ snd_nxt[p] \in Nat /\ snd_una[p] \in Nat
        /\ snd_nxt[p] <= len
  BY LenProperties DEF TypeOK, SenderWindow
<1>1. PICK n \in 0 .. (len - snd_nxt[p]),
           again \in SUBSET snd_buf[p], probes \in SUBSET {"WASK", "WINS"} :
        /\ MayTake(p, n)
        /\ snd_nxt' = [snd_nxt EXCEPT ![p] = @ + n]
        /\ snd_buf' = [snd_buf EXCEPT ![p] = @ \cup Fresh(p, n)]
        /\ acklist' = [acklist EXCEPT ![p] = {}]
        /\ net' = net
             \cup {Segment(p, "ACK", sn, NoData) : sn \in acklist[p]}
             \cup {Segment(p, cmd, 0, NoData) : cmd \in probes}
             \cup {Segment(p, "PUSH", sn, stream[p][sn + 1]) :
                     sn \in again \cup Fresh(p, n)}
  BY DEF Flush
<1>2. UNCHANGED <<stream, snd_una, rmt_wnd, rcv_nxt, rcv_buf, rcv_queue,
                  delivered>>
  BY DEF Flush
<1>3. n \in Nat /\ snd_nxt[p] + n \in Nat /\ snd_nxt[p] + n <= len
  BY <1>0, <1>1
<1>4. \A sn \in Fresh(p, n) :
        sn \in Nat /\ snd_nxt[p] <= sn /\ sn < snd_nxt[p] + n
  BY <1>0, <1>3 DEF Fresh
<1>5. \A sn \in again \cup Fresh(p, n) :
        sn \in Nat /\ sn < snd_nxt[p] + n /\ stream[p][sn + 1] \in Data
  <2>1. \A sn \in again : sn \in Nat /\ sn < snd_nxt[p] + n
    BY <1>0, <1>1, <1>3 DEF TypeOK, SenderWindow
  <2>2. \A sn \in again \cup Fresh(p, n) : sn \in Nat /\ sn < snd_nxt[p] + n
    BY <1>4, <2>1
  <2> HIDE DEF len
  <2>3. \A sn \in again \cup Fresh(p, n) : sn + 1 \in 1 .. len
    BY <1>0, <1>3, <2>2
  <2>4. \A i \in 1 .. len : stream[p][i] \in Data
    BY ElementOfSeq DEF TypeOK, len
  <2> QED
    BY <2>2, <2>3, <2>4
<1>6. /\ snd_nxt' \in [Peer -> Nat]
      /\ snd_nxt'[p] = snd_nxt[p] + n
      /\ \A r \in Peer \ {p} : snd_nxt'[r] = snd_nxt[r]
      /\ \A r \in Peer : snd_nxt[r] <= snd_nxt'[r]
  <2>1. /\ snd_nxt' \in [Peer -> Nat]
        /\ snd_nxt'[p] = snd_nxt[p] + n
        /\ \A r \in Peer \ {p} : snd_nxt'[r] = snd_nxt[r]
    BY <1>1, <1>3 DEF TypeOK
  <2>2. ASSUME NEW r \in Peer PROVE snd_nxt[r] <= snd_nxt'[r]
    <3>1. snd_nxt[r] \in Nat
      BY DEF TypeOK
    <3> QED
      BY <2>1, <3>1, <1>0, <1>3
  <2> QED
    BY <2>1, <2>2
<1>7. /\ snd_buf'[p] = snd_buf[p] \cup Fresh(p, n)
      /\ \A r \in Peer \ {p} : snd_buf'[r] = snd_buf[r]
      /\ snd_buf' \in [Peer -> SUBSET Nat]
  BY <1>1, <1>4 DEF TypeOK
<1>8. /\ acklist' \in [Peer -> SUBSET Nat]
      /\ \A r \in Peer : acklist'[r] \subseteq acklist[r]
  BY <1>1 DEF TypeOK
<1>9. ASSUME NEW m \in net' \ net
      PROVE  /\ m \in Message /\ m.src = p /\ m.una = rcv_nxt[p]
             /\ m.cmd = "ACK" => m.sn \in acklist[p]
             /\ m.cmd = "PUSH" => /\ m.sn < snd_nxt[p] + n
                                  /\ m.data = stream[p][m.sn + 1]
  <2>1. CASE m \in {Segment(p, "ACK", sn, NoData) : sn \in acklist[p]}
    <3>1. PICK sn \in acklist[p] : m = Segment(p, "ACK", sn, NoData)
      BY <2>1
    <3>2. sn \in Nat
      BY DEF TypeOK
    <3> QED
      BY <3>1, <3>2, SegmentType DEF Segment, Cmd
  <2>2. CASE m \in {Segment(p, cmd, 0, NoData) : cmd \in probes}
    <3>1. PICK cmd \in {"WASK", "WINS"} : m = Segment(p, cmd, 0, NoData)
      BY <1>1, <2>2
    <3> QED
      BY <3>1, SegmentType DEF Segment, Cmd
  <2>3. CASE m \in {Segment(p, "PUSH", sn, stream[p][sn + 1]) :
                      sn \in again \cup Fresh(p, n)}
    <3>1. PICK sn \in again \cup Fresh(p, n) :
            m = Segment(p, "PUSH", sn, stream[p][sn + 1])
      BY <2>3
    <3>2. sn \in Nat /\ sn < snd_nxt[p] + n /\ stream[p][sn + 1] \in Data
      BY <1>5
    <3>3. m \in Message
      BY <3>1, <3>2, SegmentType DEF Cmd
    <3> QED
      BY <3>1, <3>2, <3>3 DEF Segment
  <2> QED
    BY <1>1, <2>1, <2>2, <2>3
<1>10. TypeOK'
  BY <1>2, <1>6, <1>7, <1>8, <1>9 DEF TypeOK
<1>11. SenderWindow'
  <2>1. snd_nxt[p] + n <= snd_una[p] + SndWnd
    <3>1. CASE n = 0
      BY <3>1, <1>0 DEF SenderWindow
    <3>2. CASE n > 0
      <4>1. rmt_wnd[p] \in Nat /\ SndWnd \in Nat
        BY WindowsPositive DEF TypeOK
      <4> QED
        BY <3>2, <4>1, <1>0, <1>1, <1>3 DEF MayTake, Smaller
    <3> QED
      BY <3>1, <3>2, <1>3
  <2>2. snd_una[p] <= snd_nxt[p] + n
    BY <1>0, <1>3 DEF SenderWindow
  <2>3. \A sn \in snd_buf'[p] : snd_una[p] <= sn /\ sn < snd_nxt[p] + n
    <3>1. \A sn \in snd_buf[p] : sn \in Nat /\ snd_una[p] <= sn /\ sn < snd_nxt[p]
      BY DEF SenderWindow, TypeOK
    <3>2. snd_una[p] <= snd_nxt[p]
      BY DEF SenderWindow
    <3> QED
      BY <1>0, <1>3, <1>4, <1>7, <3>1, <3>2
  <2>4. SUFFICES ASSUME NEW r \in Peer
                 PROVE  /\ snd_una[r] <= snd_nxt'[r]
                        /\ snd_nxt'[r] <= snd_una[r] + SndWnd
                        /\ snd_nxt'[r] <= Len(stream[r])
                        /\ \A sn \in snd_buf'[r] :
                             snd_una[r] <= sn /\ sn < snd_nxt'[r]
    BY <1>2 DEF SenderWindow
  <2>5. CASE r = p
    <3>1. snd_nxt'[r] = snd_nxt[p] + n
      BY <1>6, <2>5
    <3>2. snd_nxt'[r] <= Len(stream[r])
      <4>1. snd_nxt[p] + n <= Len(stream[p])
        BY <1>3
      <4> QED
        BY <3>1, <4>1, <2>5
    <3>3. /\ snd_una[r] <= snd_nxt'[r]
          /\ snd_nxt'[r] <= snd_una[r] + SndWnd
      BY <3>1, <2>1, <2>2, <2>5
    <3>4. \A sn \in snd_buf'[r] : snd_una[r] <= sn /\ sn < snd_nxt'[r]
      BY <3>1, <2>3, <2>5
    <3> QED
      BY <3>2, <3>3, <3>4
  <2>6. CASE r # p
    BY <1>6, <1>7, <2>6 DEF SenderWindow
  <2> QED
    BY <2>5, <2>6
<1>12. ReceiverBound'
  <2> SUFFICES ASSUME NEW q \in Peer
               PROVE  /\ Len(rcv_queue[q]) <= RcvWnd
                      /\ \A sn \in DOMAIN rcv_buf[q] :
                           /\ rcv_nxt[q] <= sn /\ sn < rcv_nxt[q] + RcvWnd
                           /\ sn < snd_nxt'[Other(q)]
    BY <1>2 DEF ReceiverBound
  <2>1. /\ Other(q) \in Peer
        /\ snd_nxt[Other(q)] \in Nat /\ snd_nxt'[Other(q)] \in Nat
        /\ snd_nxt[Other(q)] <= snd_nxt'[Other(q)]
    BY <1>6, OtherPeer DEF TypeOK
  <2>2. \A sn \in DOMAIN rcv_buf[q] :
          /\ sn \in Nat /\ rcv_nxt[q] <= sn /\ sn < rcv_nxt[q] + RcvWnd
          /\ sn < snd_nxt[Other(q)]
    BY DEF TypeOK, ReceiverBound
  <2> QED
    BY <2>1, <2>2 DEF ReceiverBound
<1>13. NotStranded'
  BY <1>2 DEF NotStranded
<1>14. NothingLost'
  <2> SUFFICES ASSUME NEW r \in Peer, NEW sn \in 0 .. (snd_nxt'[r] - 1)
               PROVE  sn \in snd_buf'[r] \/ Held(Other(r), sn)
    BY <1>2 DEF NothingLost, Held
  <2>1. CASE r = p /\ sn >= snd_nxt[p]
    <3>1. sn \in Fresh(p, n)
      BY <2>1, <1>0, <1>3, <1>6 DEF Fresh
    <3> QED
      BY <2>1, <3>1, <1>7
  <2>2. CASE ~(r = p /\ sn >= snd_nxt[p])
    <3>0. snd_nxt[r] \in Nat /\ snd_nxt'[r] \in Nat
      BY <1>6 DEF TypeOK
    <3>1. sn \in 0 .. (snd_nxt[r] - 1)
      <4>1. CASE r = p
        BY <2>2, <3>0, <4>1
      <4>2. CASE r # p
        BY <1>6, <4>2
      <4> QED
        BY <4>1, <4>2
    <3> QED
      BY <3>1, <1>7 DEF NothingLost
  <2> QED
    BY <2>1, <2>2
<1>15. AcksAreTrue'
  <2>1. \A q \in Peer : \A sn \in acklist'[q] : Held(q, sn)
    BY <1>8 DEF AcksAreTrue
  <2>2. \A m \in net' : /\ m.una <= rcv_nxt[m.src]
                        /\ m.cmd = "ACK" => Held(m.src, m.sn)
    <3> TAKE m \in net'
    <3>1. CASE m \in net
      BY <3>1 DEF AcksAreTrue
    <3>2. CASE m \notin net
      <4>1. rcv_nxt[p] \in Nat
        BY DEF TypeOK
      <4> QED
        BY <3>2, <4>1, <1>9 DEF AcksAreTrue
    <3> QED
      BY <3>1, <3>2
  <2> QED
    BY <1>2, <2>1, <2>2 DEF AcksAreTrue, Held
<1>16. ContentsTrue'
  <2>1. \A m \in net' : m.cmd = "PUSH" =>
          m.sn < snd_nxt'[m.src] /\ m.data = stream[m.src][m.sn + 1]
    <3> TAKE m \in net'
    <3>1. CASE m \in net
      <4>1. m.src \in Peer /\ m.sn \in Nat
        BY <3>1 DEF TypeOK, Message
      <4>2. snd_nxt[m.src] \in Nat /\ snd_nxt'[m.src] \in Nat
              /\ snd_nxt[m.src] <= snd_nxt'[m.src]
        BY <4>1, <1>6 DEF TypeOK
      <4> QED
        BY <3>1, <4>1, <4>2 DEF ContentsTrue
    <3>2. CASE m \notin net
      BY <3>2, <1>6, <1>9
    <3> QED
      BY <3>1, <3>2
  <2>2. \A q \in Peer : rcv_nxt[q] <= snd_nxt'[Other(q)]
    <3> TAKE q \in Peer
    <3>1. /\ Other(q) \in Peer /\ rcv_nxt[q] \in Nat
          /\ snd_nxt[Other(q)] \in Nat /\ snd_nxt'[Other(q)] \in Nat
          /\ snd_nxt[Other(q)] <= snd_nxt'[Other(q)]
      BY <1>6, OtherPeer DEF TypeOK
    <3>2. rcv_nxt[q] <= snd_nxt[Other(q)]
      BY DEF ContentsTrue
    <3> QED
      BY <3>1, <3>2
  <2> QED
    BY <1>2, <2>1, <2>2 DEF ContentsTrue
<1> QED
  BY <1>10, <1>11, <1>12, <1>13, <1>14, <1>15, <1>16

-----------------------------------------------------------------------------
(* The receiving half of one endpoint: d was returned by ikcp_recv, queue  *)
(* is rcv_queue and buf is rcv_buf when nxt is the next sn in line.        *)
ReceiverOK(q, nxt, buf, queue, d) ==
    /\ nxt = Len(d) + Len(queue)
    /\ nxt <= snd_nxt[Other(q)]
    /\ Len(queue) <= RcvWnd
    /\ \A sn \in DOMAIN buf :
         /\ sn \in Nat /\ buf[sn] \in Data
         /\ nxt <= sn /\ sn < nxt + RcvWnd /\ sn < snd_nxt[Other(q)]
         /\ buf[sn] = stream[Other(q)][sn + 1]
    /\ \A i \in 1 .. Len(d) : d[i] = stream[Other(q)][i]
    /\ \A i \in 1 .. Len(queue) : queue[i] = stream[Other(q)][Len(d) + i]

(* The invariant says this of both endpoints.                              *)
LEMMA ReceiverOfIInv ==
    ASSUME IInv, NEW q \in Peer
    PROVE  ReceiverOK(q, rcv_nxt[q], rcv_buf[q], rcv_queue[q], delivered[q])
BY DEF IInv, TypeOK, ReceiverBound, ContentsTrue, ReceiverOK

(* The move loop keeps the receiver in order.                              *)
LEMMA MoveKeepsReceiver ==
    ASSUME TypeOK, NEW q \in Peer,
           NEW buf, NEW queue \in Seq(Data), NEW d \in Seq(Data),
           NEW n \in 0 .. RcvWnd,
           ReceiverOK(q, rcv_nxt[q], buf, queue, d),
           MoveToQueue(q, buf, queue, n)
    PROVE  ReceiverOK(q, rcv_nxt'[q], rcv_buf'[q], rcv_queue'[q], d)
<1> DEFINE o   == Other(q)
           nxt == rcv_nxt[q]
           lq  == Len(queue)
           ld  == Len(d)
           lq2 == Len(rcv_queue'[q])
<1>0. /\ o \in Peer /\ snd_nxt[o] \in Nat /\ nxt \in Nat
      /\ lq \in Nat /\ ld \in Nat /\ RcvWnd \in Nat /\ n \in Nat
  BY OtherPeer, LenProperties, WindowsPositive DEF TypeOK
<1>1. /\ nxt = ld + lq /\ nxt <= snd_nxt[o]
      /\ \A sn \in DOMAIN buf :
           /\ sn \in Nat /\ buf[sn] \in Data
           /\ nxt <= sn /\ sn < nxt + RcvWnd /\ sn < snd_nxt[o]
           /\ buf[sn] = stream[o][sn + 1]
      /\ \A i \in 1 .. ld : d[i] = stream[o][i]
      /\ \A i \in 1 .. lq : queue[i] = stream[o][ld + i]
  BY DEF ReceiverOK
<1>2. /\ rcv_nxt'[q] = nxt + n
      /\ DOMAIN rcv_buf'[q] = DOMAIN buf \ (nxt .. (nxt + n - 1))
      /\ \A sn \in DOMAIN rcv_buf'[q] : rcv_buf'[q][sn] = buf[sn]
      /\ lq2 = lq + n
      /\ \A i \in 1 .. lq : rcv_queue'[q][i] = queue[i]
      /\ \A i \in 1 .. n : rcv_queue'[q][lq + i] = buf[nxt + i - 1]
      /\ \A i \in 1 .. n : nxt + i - 1 \in DOMAIN buf
      /\ lq2 <= RcvWnd
  <2>1. DOMAIN buf \subseteq Nat /\ \A sn \in DOMAIN buf : buf[sn] \in Data
    BY <1>1
  <2> QED
    BY <2>1, MoveLoop
<1> HIDE DEF o, nxt, lq, ld, lq2
<1>3. nxt + n = ld + lq2
  BY <1>0, <1>1, <1>2
<1>4. nxt + n <= snd_nxt[o]
  <2>1. CASE n = 0
    BY <2>1, <1>0, <1>1
  <2>2. CASE n > 0
    <3>1. n \in 1 .. n
      BY <2>2, <1>0
    <3>2. nxt + n - 1 \in DOMAIN buf
      BY <3>1, <1>2
    <3>3. nxt + n - 1 < snd_nxt[o]
      BY <3>2, <1>1
    <3> QED
      BY <3>3, <1>0
  <2> QED
    BY <2>1, <2>2, <1>0
<1>5. ASSUME NEW sn \in DOMAIN rcv_buf'[q]
      PROVE  /\ sn \in Nat /\ rcv_buf'[q][sn] \in Data
             /\ nxt + n <= sn /\ sn < nxt + n + RcvWnd /\ sn < snd_nxt[o]
             /\ rcv_buf'[q][sn] = stream[o][sn + 1]
  <2>1. /\ sn \in DOMAIN buf /\ sn \notin nxt .. (nxt + n - 1)
        /\ rcv_buf'[q][sn] = buf[sn]
    BY <1>2
  <2>2. /\ sn \in Nat /\ nxt <= sn /\ sn < nxt + RcvWnd /\ sn < snd_nxt[o]
        /\ buf[sn] \in Data /\ buf[sn] = stream[o][sn + 1]
    BY <2>1, <1>1
  <2>3. nxt + n <= sn
    BY <2>1, <2>2, <1>0
  <2>4. sn < nxt + n + RcvWnd
    BY <2>2, <1>0
  <2> QED
    BY <2>1, <2>2, <2>3, <2>4
<1>6. ASSUME NEW i \in 1 .. lq2
      PROVE  rcv_queue'[q][i] = stream[o][ld + i]
  <2>1. CASE i <= lq
    <3>1. i \in 1 .. lq
      BY <2>1, <1>0
    <3> QED
      BY <3>1, <1>1, <1>2
  <2>2. CASE i > lq
    <3> DEFINE j == i - lq
    <3>1. j \in 1 .. n /\ i = lq + j
      BY <2>2, <1>0, <1>2
    <3> HIDE DEF j
    <3>2. rcv_queue'[q][i] = buf[nxt + j - 1] /\ nxt + j - 1 \in DOMAIN buf
      BY <3>1, <1>2
    <3>3. buf[nxt + j - 1] = stream[o][(nxt + j - 1) + 1]
      BY <3>2, <1>1
    <3>4. (nxt + j - 1) + 1 = ld + i
      BY <3>1, <1>0, <1>1
    <3> QED
      BY <3>2, <3>3, <3>4
  <2> QED
    BY <2>1, <2>2, <1>0, <1>2
<1> QED
  BY <1>1, <1>2, <1>3, <1>4, <1>5, <1>6 DEF ReceiverOK, o, ld, lq2

(* A step that changes only the receiving half of q and leaves it in order *)
(* keeps the receiver's part of the invariant, and loses nothing q held.   *)
LEMMA ReceiverStep ==
    ASSUME IInv, NEW q \in Peer,
           UNCHANGED <<stream, snd_nxt>>,
           ReceiverOK(q, rcv_nxt'[q], rcv_buf'[q], rcv_queue'[q], delivered'[q]),
           rcv_nxt'[q] \in DOMAIN rcv_buf'[q] => Len(rcv_queue'[q]) = RcvWnd,
           rcv_nxt' \in [Peer -> Nat],
           \A p \in Peer \ {q} : /\ rcv_nxt'[p] = rcv_nxt[p]
                                 /\ rcv_buf'[p] = rcv_buf[p]
                                 /\ rcv_queue'[p] = rcv_queue[p]
                                 /\ delivered'[p] = delivered[p]
    PROVE  /\ ReceiverBound' /\ NotStranded'
           /\ \A p \in Peer :
                ReceiverOK(p, rcv_nxt'[p], rcv_buf'[p], rcv_queue'[p], delivered'[p])
<1>1. \A p \in Peer :
        ReceiverOK(p, rcv_nxt'[p], rcv_buf'[p], rcv_queue'[p], delivered'[p])
  <2> TAKE p \in Peer
  <2>1. CASE p = q
    BY <2>1
  <2>2. CASE p # q
    BY <2>2, ReceiverOfIInv
  <2> QED
    BY <2>1, <2>2
<1>2. ReceiverBound'
  BY <1>1 DEF ReceiverBound, ReceiverOK
<1>3. NotStranded'
  <2> SUFFICES ASSUME NEW p \in Peer, rcv_nxt'[p] \in DOMAIN rcv_buf'[p]
               PROVE  Len(rcv_queue'[p]) = RcvWnd
    BY DEF NotStranded
  <2>1. CASE p = q
    BY <2>1
  <2>2. CASE p # q
    BY <2>2 DEF IInv, NotStranded
  <2> QED
    BY <2>1, <2>2
<1> QED
  BY <1>1, <1>2, <1>3

(* What the move loop takes out of rcv_buf is before the new rcv_nxt.      *)
LEMMA MoveHolds ==
    ASSUME TypeOK, NEW q \in Peer,
           NEW buf, DOMAIN buf \subseteq Nat, \A sn \in DOMAIN buf : buf[sn] \in Data,
           NEW queue \in Seq(Data), NEW n \in 0 .. RcvWnd,
           MoveToQueue(q, buf, queue, n),
           NEW sn \in Nat, sn < rcv_nxt[q] \/ sn \in DOMAIN buf
    PROVE  Held(q, sn)'
<1>1. /\ rcv_nxt'[q] = rcv_nxt[q] + n
      /\ DOMAIN rcv_buf'[q] = DOMAIN buf \ (rcv_nxt[q] .. (rcv_nxt[q] + n - 1))
  BY MoveLoop
<1>2. rcv_nxt[q] \in Nat /\ n \in Nat
  BY WindowsPositive DEF TypeOK
<1>3. CASE sn < rcv_nxt[q]
  BY <1>1, <1>2, <1>3 DEF Held
<1>4. CASE sn \in DOMAIN buf /\ sn \in rcv_nxt[q] .. (rcv_nxt[q] + n - 1)
  BY <1>1, <1>2, <1>4 DEF Held
<1>5. CASE sn \in DOMAIN buf /\ sn \notin rcv_nxt[q] .. (rcv_nxt[q] + n - 1)
  BY <1>1, <1>5 DEF Held
<1> QED
  BY <1>3, <1>4, <1>5

(* The receiving half of ikcp_input: the segment is stored before anything *)
(* can be sent, so an acknowledgement that is pushed is a true one.        *)
LEMMA PushStep ==
    ASSUME IInv, NEW q \in Peer, NEW m \in net, m.src = Other(q),
           InputPush(q, m), UNCHANGED <<stream, snd_nxt, delivered>>
    PROVE  /\ rcv_nxt' \in [Peer -> Nat]
           /\ DOMAIN rcv_buf' = Peer
           /\ rcv_queue' \in [Peer -> Seq(Data)]
           /\ acklist' \in [Peer -> SUBSET Nat]
           /\ ReceiverBound' /\ NotStranded'
           /\ \A p \in Peer :
                ReceiverOK(p, rcv_nxt'[p], rcv_buf'[p], rcv_queue'[p], delivered'[p])
           /\ \A p \in Peer : \A sn \in Nat : Held(p, sn) => Held(p, sn)'
           /\ \A p \in Peer : rcv_nxt[p] <= rcv_nxt'[p]
           /\ \A p \in Peer : \A sn \in acklist'[p] : Held(p, sn)'
<1> USE DEF IInv
<1>0. m \in Message /\ m.sn \in Nat /\ rcv_nxt[q] \in Nat
  BY DEF TypeOK, Message
<1>1. CASE UNCHANGED <<rcv_nxt, rcv_buf, rcv_queue>> /\ InWindow(q, m) /\ m.sn < rcv_nxt[q]
             /\ acklist' = [acklist EXCEPT ![q] = @ \cup {m.sn}]
  <2>1. \A p \in Peer : rcv_nxt[p] <= rcv_nxt'[p]
    BY <1>1 DEF TypeOK
  <2>2. ReceiverBound' /\ NotStranded'
    BY <1>1 DEF ReceiverBound, NotStranded
  <2>3. \A p \in Peer :
          ReceiverOK(p, rcv_nxt'[p], rcv_buf'[p], rcv_queue'[p], delivered'[p])
    BY <1>1, ReceiverOfIInv
  <2>4. acklist' \in [Peer -> SUBSET Nat]
          /\ \A p \in Peer : \A sn \in acklist'[p] :
               sn \in acklist[p] \/ (p = q /\ sn = m.sn)
    BY <1>0, <1>1 DEF TypeOK
  <2>5. Held(q, m.sn)
    BY <1>1 DEF Held
  <2>6. \A p \in Peer : \A sn \in acklist'[p] : Held(p, sn)
    BY <2>4, <2>5 DEF AcksAreTrue
  <2> QED
    BY <1>1, <2>1, <2>2, <2>3, <2>4, <2>6 DEF TypeOK, Held
<1>2. CASE UNCHANGED <<rcv_nxt, rcv_buf, rcv_queue, acklist>>
  <2>1. \A p \in Peer : rcv_nxt[p] <= rcv_nxt'[p]
    BY <1>2 DEF TypeOK
  <2>2. ReceiverBound' /\ NotStranded'
    BY <1>2 DEF ReceiverBound, NotStranded
  <2>3. \A p \in Peer :
          ReceiverOK(p, rcv_nxt'[p], rcv_buf'[p], rcv_queue'[p], delivered'[p])
    BY <1>2, ReceiverOfIInv
  <2> QED
    BY <1>2, <2>1, <2>2, <2>3 DEF TypeOK, Held, AcksAreTrue
<1>3. CASE /\ InWindow(q, m) /\ m.sn >= rcv_nxt[q]
           /\ acklist' = [acklist EXCEPT ![q] = @ \cup {m.sn}]
           /\ \E n \in 0 .. RcvWnd :
                MoveToQueue(q, Insert(rcv_buf[q], m.sn, m.data), rcv_queue[q], n)
  <2> DEFINE buf == Insert(rcv_buf[q], m.sn, m.data)
             o == Other(q)
  <2>1. PICK n \in 0 .. RcvWnd : MoveToQueue(q, buf, rcv_queue[q], n)
    BY <1>3
  <2>2. /\ DOMAIN buf = DOMAIN rcv_buf[q] \cup {m.sn}
        /\ \A sn \in DOMAIN rcv_buf[q] : buf[sn] = rcv_buf[q][sn]
        /\ m.sn \notin DOMAIN rcv_buf[q] => buf[m.sn] = m.data
    BY DEF Insert
  <2>3. /\ m.sn < snd_nxt[o] /\ m.data = stream[o][m.sn + 1]
        /\ m.sn < rcv_nxt[q] + RcvWnd
    BY <1>3 DEF ContentsTrue, InWindow
  <2>4. m.data \in Data
    <3>1. o \in Peer /\ snd_nxt[o] \in Nat /\ Len(stream[o]) \in Nat
             /\ snd_nxt[o] <= Len(stream[o])
      BY OtherPeer, LenProperties DEF TypeOK, SenderWindow
    <3>2. m.sn + 1 \in 1 .. Len(stream[o])
      BY <3>1, <2>3, <1>0
    <3> QED
      BY <3>1, <3>2, <2>3, ElementOfSeq DEF TypeOK
  <2>5. ReceiverOK(q, rcv_nxt[q], rcv_buf[q], rcv_queue[q], delivered[q])
    BY ReceiverOfIInv
  <2> HIDE DEF buf, o
  <2>6. ASSUME NEW sn \in DOMAIN buf
        PROVE  /\ sn \in Nat /\ buf[sn] \in Data
               /\ rcv_nxt[q] <= sn /\ sn < rcv_nxt[q] + RcvWnd
               /\ sn < snd_nxt[o] /\ buf[sn] = stream[o][sn + 1]
    <3>1. CASE sn \in DOMAIN rcv_buf[q]
      BY <3>1, <2>2, <2>5 DEF ReceiverOK, o
    <3>2. CASE sn \notin DOMAIN rcv_buf[q]
      BY <3>2, <2>2, <2>3, <2>4, <1>0, <1>3
    <3> QED
      BY <3>1, <3>2
  <2>7. ReceiverOK(q, rcv_nxt[q], buf, rcv_queue[q], delivered[q])
    BY <2>5, <2>6 DEF ReceiverOK, o
  <2>8. DOMAIN buf \subseteq Nat /\ \A sn \in DOMAIN buf : buf[sn] \in Data
    BY <2>6
  <2>9. rcv_queue[q] \in Seq(Data) /\ delivered[q] \in Seq(Data)
    BY DEF TypeOK
  <2>10. ReceiverOK(q, rcv_nxt'[q], rcv_buf'[q], rcv_queue'[q], delivered[q])
    BY <2>1, <2>7, <2>9, MoveKeepsReceiver
  <2>11. /\ rcv_nxt' \in [Peer -> Nat]
         /\ rcv_nxt'[q] = rcv_nxt[q] + n
         /\ DOMAIN rcv_buf' = Peer
         /\ rcv_queue' \in [Peer -> Seq(Data)]
         /\ \A p \in Peer \ {q} : /\ rcv_nxt'[p] = rcv_nxt[p]
                                  /\ rcv_buf'[p] = rcv_buf[p]
                                  /\ rcv_queue'[p] = rcv_queue[p]
         /\ rcv_nxt'[q] \in DOMAIN rcv_buf'[q] => Len(rcv_queue'[q]) = RcvWnd
    BY <2>1, <2>8, <2>9, MoveLoop
  <2>12. /\ ReceiverBound' /\ NotStranded'
         /\ \A p \in Peer :
              ReceiverOK(p, rcv_nxt'[p], rcv_buf'[p], rcv_queue'[p], delivered'[p])
    BY <2>10, <2>11, ReceiverStep
  <2>13. \A p \in Peer : rcv_nxt[p] <= rcv_nxt'[p]
    <3> TAKE p \in Peer
    <3>1. CASE p = q
      BY <3>1, <2>11, <1>0, WindowsPositive
    <3>2. CASE p # q
      BY <3>2, <2>11 DEF TypeOK
    <3> QED
      BY <3>1, <3>2
  <2>14. \A sn \in Nat : sn < rcv_nxt[q] \/ sn \in DOMAIN buf => Held(q, sn)'
    BY <2>1, <2>8, <2>9, MoveHolds
  <2>15. \A p \in Peer : \A sn \in Nat : Held(p, sn) => Held(p, sn)'
    <3> TAKE p \in Peer
    <3>1. CASE p = q
      BY <3>1, <2>2, <2>14 DEF Held
    <3>2. CASE p # q
      BY <3>2, <2>11 DEF Held
    <3> QED
      BY <3>1, <3>2
  <2>16. Held(q, m.sn)'
    BY <1>0, <2>2, <2>14
  <2>17. /\ acklist' \in [Peer -> SUBSET Nat]
         /\ \A p \in Peer : \A sn \in acklist'[p] :
               sn \in acklist[p] \/ (p = q /\ sn = m.sn)
    BY <1>0, <1>3 DEF TypeOK
  <2>18. \A p \in Peer : \A sn \in acklist'[p] : Held(p, sn)'
    <3> TAKE p \in Peer
    <3> TAKE sn \in acklist'[p]
    <3>1. CASE sn \in acklist[p]
      <4>1. sn \in Nat /\ Held(p, sn)
        BY <3>1 DEF TypeOK, AcksAreTrue
      <4> QED
        BY <4>1, <2>15
    <3>2. CASE p = q /\ sn = m.sn
      BY <3>2, <2>16
    <3> QED
      BY <3>1, <3>2, <2>17
  <2> QED
    BY <2>11, <2>12, <2>13, <2>15, <2>17, <2>18
<1> QED
  BY <1>1, <1>2, <1>3 DEF InputPush

(* One segment of ikcp_input.  A una or an ACK only removes from snd_buf   *)
(* what the peer holds, however late it arrives; the rest is PushStep.     *)
LEMMA InputInv ==
    ASSUME IInv, NEW q \in Peer, NEW m \in net, Input(q, m)
    PROVE  IInv'
<1> USE DEF IInv
<1> DEFINE o == Other(q)
<1>1. /\ m.src = o /\ net' \subseteq net
      /\ UNCHANGED <<stream, snd_nxt, delivered>>
      /\ InputAck(q, m) /\ InputPush(q, m)
  BY DEF Input
<1>2. /\ m \in Message /\ m.sn \in Nat /\ m.una \in Nat /\ m.wnd \in Nat
      /\ o \in Peer /\ o # q /\ Other(o) = q
      /\ snd_nxt[q] \in Nat /\ snd_una[q] \in Nat /\ rcv_nxt[o] \in Nat
      /\ snd_buf[q] \subseteq Nat
  BY OtherPeer DEF TypeOK, Message
<1>3. /\ rcv_nxt' \in [Peer -> Nat]
      /\ DOMAIN rcv_buf' = Peer
      /\ rcv_queue' \in [Peer -> Seq(Data)]
      /\ acklist' \in [Peer -> SUBSET Nat]
      /\ ReceiverBound' /\ NotStranded'
      /\ \A p \in Peer :
           ReceiverOK(p, rcv_nxt'[p], rcv_buf'[p], rcv_queue'[p], delivered'[p])
      /\ \A p \in Peer : \A sn \in Nat : Held(p, sn) => Held(p, sn)'
      /\ \A p \in Peer : rcv_nxt[p] <= rcv_nxt'[p]
      /\ \A p \in Peer : \A sn \in acklist'[p] : Held(p, sn)'
  BY <1>1, PushStep
<1>4. PICK u \in Unacked(q, m) \cup {snd_nxt[q]} :
        /\ \A sn \in Unacked(q, m) : u <= sn
        /\ snd_una' = [snd_una EXCEPT ![q] = u]
  BY <1>1 DEF InputAck
<1>5. /\ rmt_wnd' = [rmt_wnd EXCEPT ![q] = m.wnd]
      /\ snd_buf' = [snd_buf EXCEPT ![q] = Unacked(q, m)]
  BY <1>1 DEF InputAck
<1>6. Unacked(q, m) \subseteq snd_buf[q]
  BY DEF Unacked
<1>7. u \in Nat /\ snd_una[q] <= u /\ u <= snd_nxt[q]
  BY <1>2, <1>4, <1>6 DEF SenderWindow
<1>8. TypeOK'
  <2>1. /\ snd_una' \in [Peer -> Nat] /\ snd_buf' \in [Peer -> SUBSET Nat]
        /\ rmt_wnd' \in [Peer -> Nat]
    BY <1>2, <1>4, <1>5, <1>6, <1>7 DEF TypeOK
  <2>2. \A p \in Peer : /\ DOMAIN rcv_buf'[p] \subseteq Nat
                        /\ \A sn \in DOMAIN rcv_buf'[p] : rcv_buf'[p][sn] \in Data
    BY <1>3 DEF ReceiverOK
  <2> QED
    BY <1>1, <1>3, <2>1, <2>2 DEF TypeOK
<1>9. SenderWindow'
  <2> SUFFICES ASSUME NEW r \in Peer
               PROVE  /\ snd_una'[r] <= snd_nxt[r]
                      /\ snd_nxt[r] <= snd_una'[r] + SndWnd
                      /\ snd_nxt[r] <= Len(stream[r])
                      /\ \A sn \in snd_buf'[r] :
                           snd_una'[r] <= sn /\ sn < snd_nxt[r]
    BY <1>1 DEF SenderWindow
  <2>1. CASE r = q
    <3>1. snd_una'[r] = u /\ snd_buf'[r] = Unacked(q, m)
      BY <2>1, <1>4, <1>5 DEF TypeOK
    <3>2. SndWnd \in Nat /\ snd_nxt[q] <= snd_una[q] + SndWnd
      BY WindowsPositive DEF SenderWindow
    <3>3. snd_nxt[q] <= u + SndWnd
      BY <3>2, <1>2, <1>7
    <3>4. \A sn \in Unacked(q, m) : u <= sn /\ sn < snd_nxt[q]
      BY <1>4, <1>6 DEF SenderWindow
    <3>5. snd_nxt[r] <= Len(stream[r])
      BY DEF SenderWindow
    <3> QED
      BY <2>1, <3>1, <3>3, <3>4, <3>5, <1>7
  <2>2. CASE r # q
    <3>1. snd_una'[r] = snd_una[r] /\ snd_buf'[r] = snd_buf[r]
      BY <2>2, <1>4, <1>5 DEF TypeOK
    <3> QED
      BY <3>1 DEF SenderWindow
  <2> QED
    BY <2>1, <2>2
<1>10. NothingLost'
  <2> SUFFICES ASSUME NEW r \in Peer, NEW sn \in 0 .. (snd_nxt[r] - 1)
               PROVE  sn \in snd_buf'[r] \/ Held(Other(r), sn)'
    BY <1>1 DEF NothingLost
  <2>0. sn \in Nat /\ Other(r) \in Peer
    BY OtherPeer DEF TypeOK
  <2>1. CASE Held(Other(r), sn)
    BY <2>0, <2>1, <1>3
  <2>2. CASE ~Held(Other(r), sn)
    <3>1. sn \in snd_buf[r]
      BY <2>2 DEF NothingLost
    <3>2. CASE r # q
      BY <3>1, <3>2, <1>5 DEF TypeOK
    <3>3. CASE r = q
      <4>1. ~Held(o, sn)
        BY <2>2, <3>3
      <4>2. ~(m.cmd = "ACK" /\ sn = m.sn)
        BY <4>1, <1>1 DEF AcksAreTrue
      <4>3. m.una <= rcv_nxt[o]
        BY <1>1 DEF AcksAreTrue
      <4>4. sn >= rcv_nxt[o]
        BY <4>1, <2>0, <1>2 DEF Held
      <4>5. sn >= m.una
        BY <4>3, <4>4, <2>0, <1>2
      <4>6. sn \in Unacked(q, m)
        BY <3>1, <3>3, <4>2, <4>5 DEF Unacked
      <4> QED
        BY <3>3, <4>6, <1>5 DEF TypeOK
    <3> QED
      BY <3>2, <3>3
  <2> QED
    BY <2>1, <2>2
<1>11. AcksAreTrue'
  <2>1. ASSUME NEW x \in net'
        PROVE  /\ x.una <= rcv_nxt'[x.src]
               /\ x.cmd = "ACK" => Held(x.src, x.sn)'
    <3>1. /\ x \in net /\ x.src \in Peer /\ x.sn \in Nat /\ x.una \in Nat
          /\ rcv_nxt[x.src] \in Nat /\ rcv_nxt'[x.src] \in Nat
      BY <1>1, <1>3 DEF TypeOK, Message
    <3>2. x.una <= rcv_nxt[x.src]
      BY <3>1 DEF AcksAreTrue
    <3>3. rcv_nxt[x.src] <= rcv_nxt'[x.src]
      BY <3>1, <1>3
    <3>4. x.cmd = "ACK" => Held(x.src, x.sn)'
      BY <3>1, <1>3 DEF AcksAreTrue
    <3> QED
      BY <3>1, <3>2, <3>3, <3>4
  <2> QED
    BY <1>3, <2>1 DEF AcksAreTrue
<1>12. ContentsTrue'
  <2>1. \A x \in net' : x.cmd = "PUSH" =>
          x.sn < snd_nxt[x.src] /\ x.data = stream[x.src][x.sn + 1]
    BY <1>1 DEF ContentsTrue
  <2> QED
    BY <1>1, <1>3, <2>1 DEF ContentsTrue, ReceiverOK
<1> QED
  BY <1>3, <1>8, <1>9, <1>10, <1>11, <1>12

(* ikcp_recv takes k segments from the front of rcv_queue and refills it.  *)
LEMMA RecvInv ==
    ASSUME IInv, NEW q \in Peer, Recv(q)
    PROVE  IInv'
<1> USE DEF IInv
<1> DEFINE queue == rcv_queue[q]
           o == Other(q)
<1>0. queue \in Seq(Data) /\ delivered[q] \in Seq(Data) /\ o \in Peer
  BY OtherPeer DEF TypeOK
<1>1. PICK k \in 1 .. Len(queue), n \in 0 .. RcvWnd :
        /\ delivered' = [delivered EXCEPT ![q] = @ \o SubSeq(queue, 1, k)]
        /\ MoveToQueue(q, rcv_buf[q], SubSeq(queue, k + 1, Len(queue)), n)
  BY DEF Recv
<1>2. UNCHANGED <<stream, snd_una, snd_nxt, snd_buf, rmt_wnd, acklist, net>>
  BY DEF Recv, sendVars
<1> DEFINE front == SubSeq(queue, 1, k)
           back  == SubSeq(queue, k + 1, Len(queue))
           d     == delivered[q] \o front
           lq    == Len(queue)
           ld    == Len(delivered[q])
<1>3. /\ front \in Seq(Data) /\ Len(front) = k
      /\ \A i \in 1 .. k : front[i] = queue[i]
      /\ back \in Seq(Data) /\ Len(back) = lq - k
      /\ \A i \in 1 .. (lq - k) : back[i] = queue[k + i]
  <2>1. queue \in Seq(Data) /\ k \in 1 .. Len(queue)
    BY <1>0
  <2> HIDE DEF queue
  <2> QED
    BY <2>1, SplitElements, SMTT(30)
<1>4. lq \in Nat /\ ld \in Nat /\ k \in Nat /\ 1 <= k /\ k <= lq
  BY <1>0, LenProperties
<1> HIDE DEF queue, front, back
<1>5. /\ d \in Seq(Data) /\ Len(d) = ld + Len(front)
      /\ \A i \in 1 .. ld : d[i] = delivered[q][i]
      /\ \A i \in 1 .. Len(front) : d[ld + i] = front[i]
  BY <1>0, <1>3, ConcatElements
<1> HIDE DEF d, lq, ld
<1>6. /\ rcv_nxt[q] = ld + lq /\ rcv_nxt[q] <= snd_nxt[o] /\ lq <= RcvWnd
      /\ \A sn \in DOMAIN rcv_buf[q] :
           /\ sn \in Nat /\ rcv_buf[q][sn] \in Data
           /\ rcv_nxt[q] <= sn /\ sn < rcv_nxt[q] + RcvWnd
           /\ sn < snd_nxt[o] /\ rcv_buf[q][sn] = stream[o][sn + 1]
      /\ \A i \in 1 .. ld : delivered[q][i] = stream[o][i]
      /\ \A i \in 1 .. lq : queue[i] = stream[o][ld + i]
  BY ReceiverOfIInv DEF ReceiverOK, queue, ld, lq
<1>7. ReceiverOK(q, rcv_nxt[q], rcv_buf[q], back, d)
  <2>1. Len(d) = ld + k /\ Len(back) = lq - k /\ RcvWnd \in Nat
    BY <1>3, <1>5, WindowsPositive
  <2>2. rcv_nxt[q] = Len(d) + Len(back) /\ Len(back) <= RcvWnd
    <3>1. (ld + k) + (lq - k) = ld + lq /\ (lq <= RcvWnd => lq - k <= RcvWnd)
      BY <1>4, <2>1
    <3> QED
      BY <2>1, <3>1, <1>6, Zenon
  <2>3. ASSUME NEW i \in 1 .. Len(d)
        PROVE  d[i] = stream[o][i]
    <3>1. CASE i <= ld
      BY <3>1, <1>4, <1>5, <1>6, <2>1
    <3>2. CASE i > ld
      <4> DEFINE j == i - ld
      <4>1. j \in 1 .. k /\ i = ld + j /\ j \in 1 .. lq
        BY <3>2, <2>1, <1>4
      <4> HIDE DEF j
      <4>2. d[i] = queue[j]
        BY <4>1, <1>3, <1>5
      <4> QED
        BY <4>1, <4>2, <1>6
    <3> QED
      BY <3>1, <3>2, <1>4, <2>1
  <2>4. ASSUME NEW i \in 1 .. Len(back)
        PROVE  back[i] = stream[o][Len(d) + i]
    <3>1. i \in 1 .. (lq - k) /\ k + i \in 1 .. lq
      BY <2>1, <1>4
    <3>2. back[i] = queue[k + i] /\ queue[k + i] = stream[o][ld + (k + i)]
      BY <3>1, <1>3, <1>6
    <3>3. ld + (k + i) = Len(d) + i
      BY <2>1, <3>1, <1>4
    <3> QED
      BY <3>2, <3>3
  <2> QED
    BY <2>2, <2>3, <2>4, <1>6 DEF ReceiverOK
<1>8. delivered' \in [Peer -> Seq(Data)] /\ delivered'[q] = d
        /\ \A p \in Peer \ {q} : delivered'[p] = delivered[p]
  <2>1. delivered' = [delivered EXCEPT ![q] = d]
    BY <1>1 DEF d, front
  <2> QED
    BY <2>1, <1>5 DEF TypeOK
<1>9. MoveToQueue(q, rcv_buf[q], back, n)
  BY <1>1 DEF back
<1>10. DOMAIN rcv_buf[q] \subseteq Nat
         /\ \A sn \in DOMAIN rcv_buf[q] : rcv_buf[q][sn] \in Data
  BY <1>6
<1>11. ReceiverOK(q, rcv_nxt'[q], rcv_buf'[q], rcv_queue'[q], delivered'[q])
  BY <1>3, <1>5, <1>7, <1>8, <1>9, MoveKeepsReceiver
<1>12. /\ rcv_nxt' \in [Peer -> Nat]
       /\ rcv_nxt'[q] = rcv_nxt[q] + n
       /\ DOMAIN rcv_buf' = Peer
       /\ rcv_queue' \in [Peer -> Seq(Data)]
       /\ \A p \in Peer \ {q} : /\ rcv_nxt'[p] = rcv_nxt[p]
                                /\ rcv_buf'[p] = rcv_buf[p]
                                /\ rcv_queue'[p] = rcv_queue[p]
       /\ rcv_nxt'[q] \in DOMAIN rcv_buf'[q] => Len(rcv_queue'[q]) = RcvWnd
  BY <1>3, <1>9, <1>10, MoveLoop, SMTT(40)
<1>13. /\ ReceiverBound' /\ NotStranded'
       /\ \A p \in Peer :
            ReceiverOK(p, rcv_nxt'[p], rcv_buf'[p], rcv_queue'[p], delivered'[p])
  <2>1. UNCHANGED <<stream, snd_nxt>>
    BY <1>2
  <2>2. \A p \in Peer \ {q} : /\ rcv_nxt'[p] = rcv_nxt[p]
                              /\ rcv_buf'[p] = rcv_buf[p]
                              /\ rcv_queue'[p] = rcv_queue[p]
                              /\ delivered'[p] = delivered[p]
    BY <1>8, <1>12
  <2>3. rcv_nxt' \in [Peer -> Nat]
          /\ (rcv_nxt'[q] \in DOMAIN rcv_buf'[q] => Len(rcv_queue'[q]) = RcvWnd)
    BY <1>12
  <2> QED
    BY <1>11, <2>1, <2>2, <2>3, ReceiverStep
<1>14. \A p \in Peer : rcv_nxt[p] <= rcv_nxt'[p]
  <2> TAKE p \in Peer
  <2>1. CASE p = q
    BY <2>1, <1>12, WindowsPositive DEF TypeOK
  <2>2. CASE p # q
    BY <2>2, <1>12 DEF TypeOK
  <2> QED
    BY <2>1, <2>2
<1>15. \A p \in Peer : \A sn \in Nat : Held(p, sn) => Held(p, sn)'
  <2> TAKE p \in Peer
  <2>1. CASE p = q
    <3>1. \A sn \in Nat : sn < rcv_nxt[q] \/ sn \in DOMAIN rcv_buf[q] => Held(q, sn)'
      BY <1>3, <1>9, <1>10, MoveHolds
    <3> QED
      BY <2>1, <3>1 DEF Held
  <2>2. CASE p # q
    BY <2>2, <1>12 DEF Held
  <2> QED
    BY <2>1, <2>2
<1>16. TypeOK'
  <2>1. \A p \in Peer : /\ DOMAIN rcv_buf'[p] \subseteq Nat
                        /\ \A sn \in DOMAIN rcv_buf'[p] : rcv_buf'[p][sn] \in Data
    BY <1>13 DEF ReceiverOK
  <2> QED
    BY <1>2, <1>8, <1>12, <2>1 DEF TypeOK
<1>17. SenderWindow'
  BY <1>2 DEF SenderWindow
<1>18. NothingLost'
  <2> SUFFICES ASSUME NEW r \in Peer, NEW sn \in 0 .. (snd_nxt[r] - 1)
               PROVE  sn \in snd_buf[r] \/ Held(Other(r), sn)'
    BY <1>2 DEF NothingLost
  <2>1. sn \in Nat /\ Other(r) \in Peer
    BY OtherPeer DEF TypeOK
  <2> QED
    BY <2>1, <1>15 DEF NothingLost
<1>19. AcksAreTrue'
  <2>1. \A p \in Peer : \A sn \in acklist[p] : Held(p, sn)'
    BY <1>15 DEF AcksAreTrue, TypeOK
  <2>2. ASSUME NEW x \in net
        PROVE  /\ x.una <= rcv_nxt'[x.src]
               /\ x.cmd = "ACK" => Held(x.src, x.sn)'
    <3>1. /\ x.src \in Peer /\ x.sn \in Nat /\ x.una \in Nat
          /\ rcv_nxt[x.src] \in Nat /\ rcv_nxt'[x.src] \in Nat
      BY <1>12 DEF TypeOK, Message
    <3>2. x.una <= rcv_nxt[x.src] /\ rcv_nxt[x.src] <= rcv_nxt'[x.src]
      BY <3>1, <1>14 DEF AcksAreTrue
    <3>3. x.cmd = "ACK" => Held(x.src, x.sn)'
      BY <3>1, <1>15 DEF AcksAreTrue
    <3> QED
      BY <3>1, <3>2, <3>3
  <2> QED
    BY <1>2, <2>1, <2>2 DEF AcksAreTrue
<1>20. ContentsTrue'
  <2>1. \A x \in net : x.cmd = "PUSH" =>
          x.sn < snd_nxt[x.src] /\ x.data = stream[x.src][x.sn + 1]
    BY DEF ContentsTrue
  <2>2. ASSUME NEW p \in Peer
        PROVE  /\ \A sn \in DOMAIN rcv_buf'[p] :
                    rcv_buf'[p][sn] = stream'[Other(p)][sn + 1]
               /\ rcv_nxt'[p] = Len(delivered'[p]) + Len(rcv_queue'[p])
               /\ rcv_nxt'[p] <= snd_nxt'[Other(p)]
               /\ \A i \in 1 .. Len(delivered'[p]) :
                    delivered'[p][i] = stream'[Other(p)][i]
               /\ \A i \in 1 .. Len(rcv_queue'[p]) :
                    rcv_queue'[p][i] = stream'[Other(p)][Len(delivered'[p]) + i]
    <3>1. ReceiverOK(p, rcv_nxt'[p], rcv_buf'[p], rcv_queue'[p], delivered'[p])
      BY <1>13
    <3>2. stream' = stream /\ snd_nxt' = snd_nxt
      BY <1>2
    <3> HIDE DEF IInv
    <3> QED
      BY <3>1, <3>2 DEF ReceiverOK
  <2>3. \A x \in net' : x.cmd = "PUSH" =>
          x.sn < snd_nxt'[x.src] /\ x.data = stream'[x.src][x.sn + 1]
    BY <1>2, <2>1
  <2> HIDE DEF IInv
  <2> QED
    BY <2>2, <2>3 DEF ContentsTrue
<1> QED
  BY <1>13, <1>16, <1>17, <1>18, <1>19, <1>20

-----------------------------------------------------------------------------
(* Theorems about the specification.                                       *)

(* Every step of the protocol preserves the inductive invariant.           *)
LEMMA StepInv ==
    ASSUME IInv, [Next]_vars
    PROVE  IInv'
<1>1. CASE \E p \in Peer : Send(p)
  BY <1>1, SendInv
<1>2. CASE \E p \in Peer : Flush(p)
  BY <1>2, FlushInv
<1>3. CASE \E p \in Peer : Recv(p)
  BY <1>3, RecvInv
<1>4. CASE \E q \in Peer : \E m \in net : Input(q, m)
  BY <1>4, InputInv
<1>5. CASE Lose
  BY <1>5, LoseInv
<1>6. CASE UNCHANGED vars
  <2>1. TypeOK' /\ SenderWindow' /\ ReceiverBound' /\ NotStranded'
    BY <1>6 DEF IInv, vars, TypeOK, SenderWindow, ReceiverBound, NotStranded
  <2>2. NothingLost' /\ AcksAreTrue' /\ ContentsTrue'
    BY <1>6 DEF IInv, vars, NothingLost, AcksAreTrue, ContentsTrue, Held
  <2> QED
    BY <2>1, <2>2 DEF IInv
<1> QED
  BY <1>1, <1>2, <1>3, <1>4, <1>5, <1>6 DEF Next

(* The inductive invariant holds in every reachable state, whatever the    *)
(* windows, the stream, the losses and the retransmissions are.            *)
THEOREM Invariance == Spec => []IInv
<1>1. Init => IInv
  BY InitInv
<1>2. IInv /\ [Next]_vars => IInv'
  BY StepInv
<1> QED
  BY <1>1, <1>2, PTL DEF Spec

(* Type correctness of the two control blocks and of the wire.             *)
THEOREM TypeCorrect == Spec => []TypeOK
<1>1. IInv => TypeOK
  BY DEF IInv
<1> QED
  BY <1>1, Invariance, PTL

(* A segment with a sn is in snd_buf until the peer holds it, and nothing  *)
(* is acknowledged that is not held: ikcp_parse_una and ikcp_parse_ack     *)
(* never drop data the peer has not got.                                   *)
THEOREM NoLoss == Spec => [](NothingLost /\ AcksAreTrue)
<1>1. IInv => NothingLost /\ AcksAreTrue
  BY DEF IInv
<1> QED
  BY <1>1, Invariance, PTL

(* Both halves stay inside their windows, and the move loops leave nothing *)
(* in rcv_buf that rcv_queue has room for.                                 *)
THEOREM Bounded == Spec => [](SenderWindow /\ ReceiverBound /\ NotStranded)
<1>1. IInv => SenderWindow /\ ReceiverBound /\ NotStranded
  BY DEF IInv
<1> QED
  BY <1>1, Invariance, PTL

(* What the application was given and what waits for it in rcv_queue are   *)
(* together the first rcv_nxt segments of the peer's stream.               *)
LEMMA QueueIsPrefix == IInv => InOrder
<1> SUFFICES ASSUME IInv, NEW q \in Peer
             PROVE  /\ rcv_nxt[q] <= snd_nxt[Other(q)]
                    /\ delivered[q] \o rcv_queue[q]
                         = SubSeq(stream[Other(q)], 1, rcv_nxt[q])
  BY DEF InOrder
<1> DEFINE s  == stream[Other(q)]
           d  == delivered[q]
           rq == rcv_queue[q]
<1>1. s \in Seq(Data) /\ d \in Seq(Data) /\ rq \in Seq(Data)
  BY OtherPeer DEF IInv, TypeOK
<1>2. /\ rcv_nxt[q] = Len(d) + Len(rq)
      /\ rcv_nxt[q] <= snd_nxt[Other(q)]
      /\ \A i \in 1 .. Len(d) : d[i] = s[i]
      /\ \A i \in 1 .. Len(rq) : rq[i] = s[Len(d) + i]
  BY DEF IInv, ContentsTrue
<1>3. Len(d) + Len(rq) <= Len(s)
  BY <1>2, OtherPeer DEF IInv, TypeOK, SenderWindow
<1> HIDE DEF s, d, rq
<1>4. d \o rq = SubSeq(s, 1, Len(d) + Len(rq))
  BY <1>1, <1>2, <1>3, PrefixFromElements
<1> QED
  BY <1>2, <1>4 DEF s, d, rq

(* In-order, exactly-once delivery to ikcp_recv.                           *)
THEOREM Ordered == Spec => []InOrder
<1>1. IInv => InOrder
  BY QueueIsPrefix
<1> QED
  BY <1>1, Invariance, PTL

(* snd_una passes the peer's rcv_nxt only while the peer's rcv_queue is    *)
(* full: the segment rcv_nxt was acknowledged, so it is held, so it is in  *)
(* rcv_buf, and NotStranded says why it is still there.                    *)
THEOREM UnaAhead == Spec => []UnaAheadOnlyWhenFull
<1>1. IInv => UnaAheadOnlyWhenFull
  <2> SUFFICES ASSUME IInv, NEW p \in Peer, ~(snd_una[p] <= rcv_nxt[Other(p)])
               PROVE  Len(rcv_queue[Other(p)]) = RcvWnd
    BY DEF UnaAheadOnlyWhenFull
  <2> DEFINE q == Other(p)
  <2>1. /\ q \in Peer /\ rcv_nxt[q] \in Nat
        /\ snd_una[p] \in Nat /\ snd_nxt[p] \in Nat
    BY OtherPeer DEF IInv, TypeOK
  <2>2. rcv_nxt[q] < snd_una[p] /\ snd_una[p] <= snd_nxt[p]
    BY <2>1 DEF IInv, SenderWindow
  <2>3. rcv_nxt[q] \notin snd_buf[p]
    BY <2>1, <2>2 DEF IInv, SenderWindow
  <2>4. rcv_nxt[q] \in 0 .. (snd_nxt[p] - 1)
    BY <2>1, <2>2
  <2>5. Held(q, rcv_nxt[q])
    BY <2>3, <2>4 DEF IInv, NothingLost
  <2>6. rcv_nxt[q] \in DOMAIN rcv_buf[q]
    BY <2>1, <2>5 DEF Held
  <2> QED
    BY <2>1, <2>6 DEF IInv, NotStranded
<1> QED
  BY <1>1, Invariance, PTL

(* snd_una never goes back, although ikcp_input takes whatever una and     *)
(* sn a late segment carries.                                              *)
THEOREM UnaMonotone == Spec => UnaNeverGoesBack
<1>1. IInv /\ [Next]_vars => [\A p \in Peer : snd_una'[p] >= snd_una[p]]_vars
  <2> SUFFICES ASSUME IInv, [Next]_vars
               PROVE  UNCHANGED vars \/ \A p \in Peer : snd_una'[p] >= snd_una[p]
    OBVIOUS
  <2>0. \A p \in Peer : snd_una[p] \in Nat
    BY DEF IInv, TypeOK
  <2>1. CASE UNCHANGED snd_una
    BY <2>0, <2>1
  <2>2. CASE \E q \in Peer : \E m \in net : Input(q, m)
    <3>1. PICK q \in Peer, m \in net : Input(q, m)
      BY <2>2
    <3>2. PICK u \in Unacked(q, m) \cup {snd_nxt[q]} :
            snd_una' = [snd_una EXCEPT ![q] = u]
      BY <3>1 DEF Input, InputAck
    <3>3. snd_una[q] <= u
      BY <3>2 DEF Unacked, IInv, SenderWindow
    <3>4. u \in Nat
      BY <3>2 DEF Unacked, IInv, TypeOK
    <3>5. ASSUME NEW p \in Peer PROVE snd_una'[p] >= snd_una[p]
      <4>1. snd_una \in [Peer -> Nat]
        BY DEF IInv, TypeOK
      <4> QED
        BY <3>2, <3>3, <3>4, <4>1
    <3> QED
      BY <3>5
  <2>3. UNCHANGED snd_una \/ \E q \in Peer : \E m \in net : Input(q, m)
    BY DEF Next, Send, Flush, Recv, Lose, vars, sendVars
  <2> QED
    BY <2>1, <2>2, <2>3
<1> QED
  BY <1>1, Invariance, PTL DEF Spec, UnaNeverGoesBack

-----------------------------------------------------------------------------
(* Arq implements KcpChannel.                                              *)

(* What ikcp_recv returns next is the next part of the peer's stream.      *)
LEMMA RecvReads ==
    ASSUME IInv, NEW q \in Peer, Recv(q)
    PROVE  Chan!Read(q)
<1> DEFINE s  == stream[Other(q)]
           d  == delivered[q]
           rq == rcv_queue[q]
           ls == Len(s)
           ld == Len(d)
           lq == Len(rq)
<1>1. /\ s \in Seq(Data) /\ d \in Seq(Data) /\ rq \in Seq(Data)
      /\ ls \in Nat /\ ld \in Nat /\ lq \in Nat
  BY OtherPeer, LenProperties DEF IInv, TypeOK
<1>2. PICK k \in 1 .. lq :
        delivered' = [delivered EXCEPT ![q] = d \o SubSeq(rq, 1, k)]
  BY DEF Recv
<1>3. UNCHANGED stream
  BY DEF Recv, sendVars
<1>4. /\ ld + lq <= ls
      /\ \A i \in 1 .. ld : d[i] = s[i]
      /\ \A i \in 1 .. lq : rq[i] = s[ld + i]
  <2>1. /\ rcv_nxt[q] = ld + lq
        /\ \A i \in 1 .. ld : d[i] = s[i]
        /\ \A i \in 1 .. lq : rq[i] = s[ld + i]
        /\ rcv_nxt[q] <= snd_nxt[Other(q)]
    BY DEF IInv, ContentsTrue
  <2>2. snd_nxt[Other(q)] \in Nat /\ snd_nxt[Other(q)] <= ls
    BY OtherPeer DEF IInv, TypeOK, SenderWindow
  <2> HIDE DEF s, d, rq, ls, ld, lq
  <2>3. ld + lq <= ls
    BY <2>1, <2>2, <1>1
  <2> QED
    BY <2>1, <2>3
<1> DEFINE front == SubSeq(rq, 1, k)
<1>5. /\ front \in Seq(Data) /\ Len(front) = k
      /\ \A i \in 1 .. k : front[i] = rq[i]
  BY <1>1, SplitElements
<1> HIDE DEF s, d, rq, front
<1>6. d \o front = SubSeq(s, 1, ld + k)
  <2>1. Len(d) + Len(front) <= Len(s)
    BY <1>1, <1>4, <1>5
  <2>2. \A i \in 1 .. Len(front) : front[i] = s[Len(d) + i]
    <3>1. \A i \in 1 .. k : i \in 1 .. lq
      BY <1>1
    <3> QED
      BY <3>1, <1>4, <1>5
  <2>3. \A i \in 1 .. Len(d) : d[i] = s[i]
    BY <1>4
  <2>4. d \o front = SubSeq(s, 1, Len(d) + Len(front))
    <3>1. s \in Seq(Data) /\ d \in Seq(Data) /\ front \in Seq(Data)
      BY <1>1, <1>5
    <3> HIDE DEF ls, ld, lq
    <3> QED
      BY <3>1, <2>1, <2>2, <2>3, PrefixFromElements
  <2> QED
    BY <2>4, <1>5
<1>7. k \in 1 .. (ls - ld)
  <2> HIDE DEF ls, ld, lq
  <2> QED
    BY <1>1, <1>4
<1>8. delivered' = [delivered EXCEPT ![q] = SubSeq(s, 1, ld + k)]
  BY <1>2, <1>6 DEF front
<1> QED
  BY <1>3, <1>7, <1>8 DEF Chan!Read, Chan!Other, Other, s, d, ls, ld

(* Each step of Arq writes, reads or leaves the channel alone.             *)
LEMMA StepOfChannel ==
    ASSUME IInv, [Next]_vars
    PROVE  [Chan!ChanNext]_(Chan!chanVars)
<1>1. CASE \E p \in Peer : Send(p)
  <2>1. PICK p \in Peer : Send(p)
    BY <1>1
  <2>2. Chan!Write(p)
    BY <2>1 DEF Send, Chan!Write, recvVars
  <2> QED
    BY <2>2 DEF Chan!ChanNext, Chan!Peer, Peer
<1>2. CASE \E q \in Peer : Recv(q)
  <2>1. PICK q \in Peer : Recv(q)
    BY <1>2
  <2>2. Chan!Read(q)
    BY <2>1, RecvReads
  <2> QED
    BY <2>2 DEF Chan!ChanNext, Chan!Peer, Peer
<1>3. CASE UNCHANGED <<stream, delivered>>
  BY <1>3 DEF Chan!chanVars
<1>4. \/ \E p \in Peer : Send(p)
      \/ \E q \in Peer : Recv(q)
      \/ UNCHANGED <<stream, delivered>>
  BY DEF Next, Flush, Input, Lose, vars, sendVars, recvVars
<1> QED
  BY <1>1, <1>2, <1>3, <1>4

(* Two control blocks joined by a network that loses, duplicates, delays   *)
(* and reorders segments are a reliable ordered channel in each direction. *)
THEOREM Implements == Spec => ChanSpec
<1>1. Init => Chan!ChanInit
  BY DEF Init, Chan!ChanInit, Chan!Peer, Peer
<1>2. IInv /\ [Next]_vars => [Chan!ChanNext]_(Chan!chanVars)
  BY StepOfChannel
<1> QED
  BY <1>1, <1>2, Invariance, PTL DEF Spec, ChanSpec, Chan!ChanSpec

-----------------------------------------------------------------------------
(* Why natural numbers may stand for the 32-bit ones.                      *)

(* Counting on a wrapped number is wrapping the counted one: snd_nxt++,    *)
(* rcv_nxt++, rcv_nxt + rcv_wnd, snd_una + cwnd.                           *)
LEMMA Advance ==
    ASSUME NEW a \in Int, NEW n \in Int
    PROVE  U32(U32(a) + n) = U32(a + n)
BY SMTT(30) DEF U32, TwoTo32

(* _itimediff of two wrapped numbers is their true difference whenever     *)
(* that fits in 31 bits, across the wrap included.                         *)
THEOREM TrueDifference ==
    ASSUME NEW a \in Int, NEW b \in Int, Near(a, b)
    PROVE  itimediff(U32(a), U32(b)) = a - b
BY SMTT(60) DEF itimediff, U32, Near, TwoTo32, TwoTo31

(* Within half the range the receiver's window test on wrapped numbers is  *)
(* the test on natural numbers of Arq!InWindow (ikcp_parse_data).          *)
THEOREM ReceiveWindowTest ==
    ASSUME NEW sn \in Nat, NEW nxt \in Nat, NEW wnd \in Nat,
           Near(sn, nxt + wnd)
    PROVE  BelowWindowEnd(U32(sn), U32(nxt), wnd)
             <=> sn < nxt + wnd
<1>1. U32(U32(nxt) + wnd) = U32(nxt + wnd)
  BY Advance
<1>2. itimediff(U32(sn), U32(nxt + wnd)) = sn - (nxt + wnd)
  <2>1. sn \in Int /\ nxt + wnd \in Int
    OBVIOUS
  <2> QED BY <2>1, TrueDifference
<1> QED BY <1>1, <1>2 DEF BelowWindowEnd

(* And so is the sender's window test, ikcp_flush's loop condition.        *)
THEOREM SendWindowTest ==
    ASSUME NEW nxt \in Nat, NEW una \in Nat, NEW wnd \in Nat,
           Near(nxt, una + wnd)
    PROVE  InsideSendWindow(U32(nxt), U32(una), wnd)
             <=> nxt < una + wnd
<1>1. U32(U32(una) + wnd) = U32(una + wnd)
  BY Advance
<1>2. itimediff(U32(nxt), U32(una + wnd)) = nxt - (una + wnd)
  <2>1. nxt \in Int /\ una + wnd \in Int
    OBVIOUS
  <2> QED BY <2>1, TrueDifference
<1> QED BY <1>1, <1>2 DEF InsideSendWindow
=============================================================================
