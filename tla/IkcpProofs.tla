------------------------------ MODULE IkcpProofs ------------------------------
(***************************************************************************)
(* Proofs about Ikcp for every window, mtu, message length, mode and       *)
(* number of datagrams: the inductive invariant IInv and what follows from *)
(* it for the lists, the messages, the datagrams and the windows; then the *)
(* acknowledgements, whose invariant AcksAreTrue rests on IInv.            *)
(***************************************************************************)
EXTENDS Ikcp, SequenceFacts

-----------------------------------------------------------------------------
(* Types.                                                                  *)

Byte == Nat \X Nat
Data == Seq(Byte)

(* An element of snd_queue and rcv_queue, of snd_buf, and of rcv_buf.      *)
Part    == [frg : Nat, data : Data]
Sent    == [sn : Nat, frg : Nat, data : Data, xmit : Nat, fastack : Nat]
Arrived == [sn : Nat, frg : Nat, data : Data]

(* What ikcp_encode_seg writes.                                            *)
Wire ==
    [cmd : {"ACK", "PUSH", "WASK", "WINS"}, sn : Nat, frg : Nat, una : Nat,
     wnd : Nat, data : Data \cup {NoData}]

Kcb ==
    [stream : BOOLEAN, mtu : Mtus, snd_una : Nat, snd_nxt : Nat, rcv_nxt : Nat,
     snd_queue : Seq(Part), snd_buf : Seq(Sent), rcv_buf : Seq(Arrived),
     rcv_queue : Seq(Part), acklist : Seq(Nat), rmt_wnd : Nat,
     probe : SUBSET {"TELL", "SEND"}, probe_wait : BOOLEAN, cwnd : Nat,
     incr : Nat, ssthresh : Nat, dead : BOOLEAN]

-----------------------------------------------------------------------------
(* The inductive invariant.  A line is the sequence of all segments that   *)
(* one endpoint has given a number, in the order of the numbers.           *)

(* Segment s is the one of its number.                                     *)
Carries(s, line) ==
    s.sn < Len(line) /\ line[s.sn + 1] = [frg |-> s.frg, data |-> s.data]

(* Every segment of a list is, and the list is sorted.                     *)
Listed(buf, line) ==
    /\ \A i \in 1 .. Len(buf) : Carries(buf[i], line)
    /\ \A i, j \in 1 .. Len(buf) : i < j => buf[i].sn < buf[j].sn

Snd(k, line) == Len(line) = k.snd_nxt /\ Listed(k.snd_buf, line)

(* How many segments ikcp_recv has taken.                                  *)
Taken(k) == k.rcv_nxt - Len(k.rcv_queue)

(* The parts of a list are those of the line after the first t.            *)
Slice(parts, line, t) == \A i \in 1 .. Len(parts) : parts[i] = line[t + i]

Rcv(k, line) ==
    /\ Taken(k) >= 0 /\ k.rcv_nxt <= Len(line) /\ Len(k.rcv_queue) <= RcvWnd
    /\ Slice(k.rcv_queue, line, Taken(k))
    /\ Listed(k.rcv_buf, line)

(* The control block of an endpoint whose line is mine, and whose peer's   *)
(* is theirs.                                                              *)
Good(k, mine, theirs) == k \in Kcb /\ Snd(k, mine) /\ Rcv(k, theirs)

(* A line is cut at b into the messages ms, of which gs have been received *)
(* and t segments taken.                                                   *)
Cuts(b, line, ms, gs, t) ==
    /\ b \in [0 .. Len(ms) -> Nat] /\ b[0] = 0 /\ b[Len(ms)] = Len(line)
    /\ \A j \in 1 .. Len(ms) :
         /\ b[j - 1] < b[j] /\ b[j] <= Len(line)
         /\ \A i \in b[j - 1] + 1 .. b[j] : line[i].frg = b[j] - i
         /\ Bytes(SubSeq(line, b[j - 1] + 1, b[j])) = ms[j]
    /\ Len(gs) <= Len(ms) /\ t = b[Len(gs)]
    /\ \A j \in 1 .. Len(gs) : gs[j] = ms[j]

(* No fragment number reaches IKCP_WND_RCV and, when fit is asked for, no  *)
(* segment is larger than the mss of k.                                    *)
Within(parts, k, fit) ==
    \A i \in 1 .. Len(parts) :
      /\ parts[i].frg < IKCP_WND_RCV
      /\ fit => Len(parts[i].data) <= Mss(k)

(* all is everything the owner of k has queued, with a number or without;  *)
(* its bytes are those of the messages ms written, and its first t         *)
(* segments, which the peer has taken, have the bytes of the messages gs   *)
(* received.                                                               *)
Queued(k, all, t, ms, gs, fit) ==
    /\ Within(all, k, fit)
    /\ Bytes(all) = FlattenSeq(ms) /\ Bytes(SubSeq(all, 1, t)) = FlattenSeq(gs)
    /\ ~k.stream => \E b : Cuts(b, all, ms, gs, t)

(* A datagram carries segments of a line, answers and questions.           *)
Segment(line) ==
    {s \in Wire : s.cmd = "PUSH" => s.data \in Data /\ Carries(s, line)}
Datagram(d, line) == d \in Seq(Segment(line))

(* One endpoint: its control block k and that of its peer, the messages it *)
(* has written and those its peer has received, and the datagrams on their *)
(* way to it.  fit is what holds as long as no one makes the mtu smaller   *)
(* (ikcp_setmtu would let them, and does not cut again what is queued).    *)
End(k, peer, mine, theirs, ms, gs, datagrams, fit) ==
    /\ Good(k, mine, theirs)
    /\ Queued(k, mine \o k.snd_queue, Taken(peer), ms, gs, fit)
    /\ \A d \in datagrams : Datagram(d, theirs)

Lines(line, fit) ==
    /\ line \in [Peer -> Seq(Part)]
    /\ \A p \in Peer :
         End(kcb[p], kcb[Other(p)], line[p], line[Other(p)],
             msgs[p], got[Other(p)], net[p], fit)

Types ==
    /\ kcb \in [Peer -> Kcb]
    /\ msgs \in [Peer -> Seq(Data)] /\ got \in [Peer -> Seq(Data)]
    /\ DOMAIN net = Peer

IInv(fit) == Types /\ \E line : Lines(line, fit)

-----------------------------------------------------------------------------
(* Facts about peers and parameters.                                       *)

LEMMA PeerFacts ==
    \A p \in Peer : /\ Other(p) \in Peer /\ Other(p) # p /\ Other(Other(p)) = p
                    /\ \A q \in Peer : q # p => q = Other(p)
BY DistinctPeers DEF Peer, Other

LEMMA Parameters ==
    /\ RcvWnd \in Nat /\ SndWnd \in Nat /\ IKCP_WND_RCV \in Nat
    /\ IKCP_WND_RCV >= 1 /\ RcvWnd >= IKCP_WND_RCV
    /\ IKCP_OVERHEAD \in Nat /\ \A m \in Mtus : m \in Nat /\ m > IKCP_OVERHEAD
    /\ IKCP_THRESH_INIT \in Nat /\ IKCP_THRESH_MIN \in Nat
    /\ FastResend \in Nat /\ FastLimit \in Nat /\ DeadLink \in Nat
BY WindowSizes, DatagramHoldsData, ParameterTypes

LEMMA MssFacts ==
    ASSUME NEW k \in Kcb
    PROVE  k.mtu \in Nat /\ Mss(k) \in Nat /\ Mss(k) >= 1 /\ Mss(k) + IKCP_OVERHEAD = k.mtu
<1>1. k.mtu \in Mtus
  BY DEF Kcb
<1> QED
  BY <1>1, Parameters DEF Mss

-----------------------------------------------------------------------------
(* The lists snd_buf and rcv_buf.                                          *)

Numbered == Sent \cup Arrived

LEMMA NumberedSn ==
    ASSUME NEW S, S \subseteq Numbered, NEW buf \in Seq(S)
    PROVE  /\ Len(buf) \in Nat
           /\ \A i \in 1 .. Len(buf) : buf[i] \in S /\ buf[i].sn \in Nat
<1>1. \A i \in 1 .. Len(buf) : buf[i] \in S
  BY ElementOfSeq
<1>2. \A s \in S : s.sn \in Nat
  BY DEF Numbered, Sent, Arrived
<1> QED
  BY <1>1, <1>2, LenProperties

(* What makes a list of the elements f[1], f[2], ... of another.  (They may *)
(* differ in xmit and fastack.)                                            *)
Same(s, t) == s.sn = t.sn /\ s.frg = t.frg /\ s.data = t.data

LEMMA ListedSome ==
    ASSUME NEW buf, NEW line, Listed(buf, line), NEW out, NEW n \in Nat, Len(out) = n, NEW f,
           \A i \in 1 .. n : f[i] \in 1 .. Len(buf) /\ Same(out[i], buf[f[i]]),
           \A i, j \in 1 .. n : i < j => f[i] < f[j]
    PROVE  Listed(out, line)
<1>1. ASSUME NEW i \in 1 .. n PROVE Carries(out[i], line)
  BY DEF Listed, Carries, Same
<1>2. ASSUME NEW i \in 1 .. n, NEW j \in 1 .. n, i < j
      PROVE  out[i].sn < out[j].sn
  BY <1>2 DEF Listed, Same
<1> QED
  BY <1>1, <1>2 DEF Listed

(* The list without its first n elements.                                  *)
LEMMA ListedDrop ==
    ASSUME NEW S, NEW buf \in Seq(S), NEW line, Listed(buf, line), NEW n \in 0 .. Len(buf)
    PROVE  /\ SubSeq(buf, n + 1, Len(buf)) \in Seq(S)
           /\ Listed(SubSeq(buf, n + 1, Len(buf)), line)
<1> DEFINE out == SubSeq(buf, n + 1, Len(buf))
           m   == Len(buf) - n
           f   == [i \in 1 .. m |-> n + i]
<1>1. Len(buf) \in Nat /\ n \in Nat /\ m \in Nat
  BY LenProperties
<1>2. out \in Seq(S) /\ Len(out) = m /\ \A k \in 1 .. m : out[k] = buf[n + k]
  BY DropElements
<1>3. \A i \in 1 .. m : f[i] = n + i /\ f[i] \in 1 .. Len(buf)
  BY <1>1
<1> HIDE DEF out
<1>4. \A i \in 1 .. m : f[i] \in 1 .. Len(buf) /\ Same(out[i], buf[f[i]])
  BY <1>2, <1>3 DEF Same
<1>5. \A i, j \in 1 .. m : i < j => f[i] < f[j]
  BY <1>1, <1>3
<1> HIDE DEF f, m
<1>6. Listed(out, line)
  BY <1>1, <1>2, <1>4, <1>5, ListedSome
<1> QED
  BY <1>2, <1>6 DEF out

(* The list without its i-th element.                                      *)
LEMMA ListedRemove ==
    ASSUME NEW S, NEW buf \in Seq(S), NEW line, Listed(buf, line), NEW i \in 1 .. Len(buf)
    PROVE  RemoveAt(buf, i) \in Seq(S) /\ Listed(RemoveAt(buf, i), line)
<1> DEFINE out == RemoveAt(buf, i)
           m   == Len(buf) - 1
           f   == [k \in 1 .. m |-> IF k < i THEN k ELSE k + 1]
<1>1. Len(buf) \in Nat /\ i \in Nat /\ m \in Nat
  BY LenProperties
<1>2. /\ out \in Seq(S) /\ Len(out) = m
      /\ \A k \in 1 .. m : out[k] = IF k < i THEN buf[k] ELSE buf[k + 1]
  BY RemoveAtElements
<1>3. \A k \in 1 .. m : f[k] = (IF k < i THEN k ELSE k + 1) /\ f[k] \in 1 .. Len(buf)
  BY <1>1
<1> HIDE DEF out
<1>4. \A k \in 1 .. m : f[k] \in 1 .. Len(buf) /\ Same(out[k], buf[f[k]])
  BY <1>2, <1>3 DEF Same
<1>5. \A j, k \in 1 .. m : j < k => f[j] < f[k]
  BY <1>1, <1>3
<1> HIDE DEF f, m
<1>6. Listed(out, line)
  BY <1>1, <1>2, <1>4, <1>5, ListedSome
<1> QED
  BY <1>2, <1>6 DEF out

(* The list with other values of xmit and fastack.                         *)
LEMMA ListedMap ==
    ASSUME NEW buf \in Seq(Sent), NEW line, Listed(buf, line),
           NEW out \in [1 .. Len(buf) -> Sent],
           \A i \in 1 .. Len(buf) : Same(out[i], buf[i])
    PROVE  out \in Seq(Sent) /\ Len(out) = Len(buf) /\ Listed(out, line)
<1> DEFINE n == Len(buf)
           f == [i \in 1 .. n |-> i]
<1>1. n \in Nat
  BY LenProperties
<1>2. out \in Seq(Sent) /\ Len(out) = n
  BY <1>1, FunctionIsSeq
<1>3. \A i \in 1 .. n : f[i] \in 1 .. Len(buf) /\ Same(out[i], buf[f[i]])
  OBVIOUS
<1>4. \A i, j \in 1 .. n : i < j => f[i] < f[j]
  OBVIOUS
<1> HIDE DEF f, n
<1>5. Listed(out, line)
  BY <1>1, <1>2, <1>3, <1>4, ListedSome
<1> QED
  BY <1>2, <1>5 DEF n

(* DropWhile takes elements from the front.                                *)
LEMMA ListedAfterUna ==
    ASSUME NEW buf \in Seq(Sent), NEW line, Listed(buf, line), NEW una \in Nat
    PROVE  LET out == DropWhile(buf, LAMBDA s : s.sn < una)
           IN  out \in Seq(Sent) /\ Listed(out, line)
<1> DEFINE I == {i \in 1 .. Len(buf) : ~(buf[i].sn < una)}
           m == IF I # {} THEN Min(I) ELSE 0
           d == IF m = 0 THEN <<>> ELSE SubSeq(buf, m, Len(buf))
<1>1. DropWhile(buf, LAMBDA s : s.sn < una) = d
  BY DEF DropWhile, SelectInSeq
<1>2. Len(buf) \in Nat
  BY LenProperties
<1>3. m = 0 \/ m \in 1 .. Len(buf)
  <2>1. I \subseteq Nat /\ I \subseteq 1 .. Len(buf)
    BY <1>2
  <2> HIDE DEF I
  <2> QED
    BY <2>1, MinOfNats
<1> HIDE DEF m
<1>4. CASE m = 0
  <2>1. d = <<>>
    BY <1>4
  <2>2. <<>> \in Seq(Sent) /\ Len(<<>>) = 0
    BY EmptySeq
  <2>3. Listed(<<>>, line)
    BY <2>2 DEF Listed
  <2> QED
    BY <1>1, <2>1, <2>2, <2>3
<1>5. CASE m \in 1 .. Len(buf)
  <2>1. m - 1 \in 0 .. Len(buf) /\ (m - 1) + 1 = m /\ m # 0
    BY <1>2, <1>5
  <2>2. d = SubSeq(buf, (m - 1) + 1, Len(buf))
    BY <2>1
  <2> QED
    BY <1>1, <2>1, <2>2, ListedDrop
<1> QED
  BY <1>3, <1>4, <1>5

(* More segments are given a number: a segment of the line stays one.      *)
LEMMA CarriesMore ==
    ASSUME NEW line \in Seq(Part), NEW more \in Seq(Part), NEW s, s.sn \in Nat,
           Carries(s, line)
    PROVE  Carries(s, line \o more)
<1>1. Len(line) \in Nat /\ Len(more) \in Nat
  BY LenProperties
<1>2. s.sn + 1 \in 1 .. Len(line)
  BY <1>1 DEF Carries
<1>3. Len(line \o more) = Len(line) + Len(more) /\ (line \o more)[s.sn + 1] = line[s.sn + 1]
  BY <1>1, <1>2, ConcatProperties
<1> QED
  BY <1>1, <1>2, <1>3 DEF Carries

LEMMA ListedMore ==
    ASSUME NEW line \in Seq(Part), NEW more \in Seq(Part),
           NEW S, S \subseteq Numbered, NEW buf \in Seq(S), Listed(buf, line)
    PROVE  Listed(buf, line \o more)
<1>1. \A i \in 1 .. Len(buf) : buf[i].sn \in Nat /\ Carries(buf[i], line)
  BY NumberedSn DEF Listed
<1>2. \A i \in 1 .. Len(buf) : Carries(buf[i], line \o more)
  BY <1>1, CarriesMore
<1> QED
  BY <1>2 DEF Listed

(* The segments with the next numbers go to the end.                       *)
LEMMA SortedAppend ==
    ASSUME NEW out, NEW m \in Nat, NEW n \in Nat, NEW l \in Nat,
           \A i \in 1 .. m : out[i].sn \in Nat /\ out[i].sn < l,
           \A i, j \in 1 .. m : i < j => out[i].sn < out[j].sn,
           \A i \in m + 1 .. m + n : out[i].sn = l + (i - m) - 1
    PROVE  \A i, j \in 1 .. m + n : i < j => out[i].sn < out[j].sn
<1> SUFFICES ASSUME NEW i \in 1 .. m + n, NEW j \in 1 .. m + n, i < j
             PROVE  out[i].sn < out[j].sn
  OBVIOUS
<1>1. CASE j <= m
  BY <1>1
<1>2. CASE i <= m /\ j > m
  <2>1. out[i].sn \in Nat /\ out[i].sn < l
    BY <1>2
  <2>2. out[j].sn = l + (j - m) - 1 /\ j - m >= 1
    BY <1>2
  <2> QED
    BY <2>1, <2>2
<1>3. CASE i > m
  <2>1. out[i].sn = l + (i - m) - 1 /\ out[j].sn = l + (j - m) - 1
    BY <1>3
  <2> QED
    BY <2>1
<1> QED
  BY <1>1, <1>2, <1>3

LEMMA ListedAppend ==
    ASSUME NEW line \in Seq(Part), NEW more \in Seq(Part),
           NEW buf \in Seq(Sent), Listed(buf, line),
           NEW new \in Seq(Sent), NEW n \in Nat, Len(new) = n, Len(more) = n,
           \A i \in 1 .. n :
             /\ new[i].sn = Len(line) + i - 1
             /\ more[i] = [frg |-> new[i].frg, data |-> new[i].data]
    PROVE  buf \o new \in Seq(Sent) /\ Listed(buf \o new, line \o more)
<1> DEFINE out == buf \o new
           all == line \o more
<1>1. Len(buf) \in Nat /\ Len(line) \in Nat
  BY LenProperties
<1>2. PICK m \in Nat, l \in Nat : m = Len(buf) /\ l = Len(line)
  BY <1>1
<1>3. /\ out \in Seq(Sent) /\ Len(out) = m + n
      /\ \A i \in 1 .. m + n : out[i] = IF i <= m THEN buf[i] ELSE new[i - m]
  <2>1. /\ buf \o new \in Seq(Sent) /\ Len(buf \o new) = Len(buf) + Len(new)
        /\ \A i \in 1 .. Len(buf) + Len(new) :
             (buf \o new)[i] = IF i <= Len(buf) THEN buf[i] ELSE new[i - Len(buf)]
    BY ConcatProperties
  <2> HIDE DEF out
  <2> QED
    BY <1>2, <2>1 DEF out
<1>4. Len(all) = l + n /\ \A i \in 1 .. l + n : all[i] = IF i <= l THEN line[i] ELSE more[i - l]
  <2>1. /\ Len(line \o more) = Len(line) + Len(more)
        /\ \A i \in 1 .. Len(line) + Len(more) :
             (line \o more)[i] = IF i <= Len(line) THEN line[i] ELSE more[i - Len(line)]
    BY ConcatProperties
  <2> HIDE DEF all
  <2> QED
    BY <1>2, <2>1 DEF all
<1>5. /\ \A i \in 1 .. m : buf[i].sn \in Nat /\ buf[i].sn < l /\ Carries(buf[i], all)
      /\ \A i, j \in 1 .. m : i < j => buf[i].sn < buf[j].sn
  <2>1. Sent \subseteq Numbered
    BY DEF Numbered
  <2>2. \A i \in 1 .. m : buf[i].sn \in Nat
    BY <1>2, <2>1, NumberedSn
  <2>3. Listed(buf, all)
    BY <2>1, ListedMore
  <2> HIDE DEF all
  <2> QED
    BY <1>2, <2>2, <2>3 DEF Listed, Carries
<1> HIDE DEF out, all
<1>6. ASSUME NEW i \in 1 .. m PROVE out[i] = buf[i]
  BY <1>3
<1>7. ASSUME NEW i \in m + 1 .. m + n
      PROVE  out[i].sn = l + (i - m) - 1 /\ Carries(out[i], all)
  <2>1. i - m \in 1 .. n /\ out[i] = new[i - m]
    BY <1>3
  <2>2. PICK j \in 1 .. n : j = i - m
    BY <2>1
  <2>3. /\ new[j].sn = l + j - 1
        /\ more[j] = [frg |-> new[j].frg, data |-> new[j].data]
    BY <1>2
  <2>4. all[l + j] = more[j] /\ l + j - 1 < l + n
    <3>1. l + j \in 1 .. l + n /\ ~(l + j <= l) /\ (l + j) - l = j
      OBVIOUS
    <3> QED
      BY <1>4, <3>1
  <2>5. (l + j - 1) + 1 = l + j
    OBVIOUS
  <2>6. Carries(new[j], all)
    BY <1>4, <2>3, <2>4, <2>5 DEF Carries
  <2> QED
    BY <2>1, <2>2, <2>3, <2>6
<1>8. ASSUME NEW i \in 1 .. m + n PROVE Carries(out[i], all)
  <2>1. i \in 1 .. m \/ i \in m + 1 .. m + n
    OBVIOUS
  <2> QED
    BY <1>5, <1>6, <1>7, <2>1
<1>9. \A i, j \in 1 .. m + n : i < j => out[i].sn < out[j].sn
  <2>1. \A i \in 1 .. m : out[i].sn \in Nat /\ out[i].sn < l
    BY <1>5, <1>6
  <2>2. \A i, j \in 1 .. m : i < j => out[i].sn < out[j].sn
    BY <1>5, <1>6
  <2>3. \A i \in m + 1 .. m + n : out[i].sn = l + (i - m) - 1
    BY <1>7
  <2> QED
    BY <2>1, <2>2, <2>3, SortedAppend
<1>10. Listed(out, all)
  BY <1>3, <1>8, <1>9 DEF Listed
<1> QED
  BY <1>3, <1>10 DEF out, all

(* A segment goes where the scan of ikcp_parse_data stops.                 *)
LEMMA SortedInsert ==
    ASSUME NEW buf, NEW out, NEW m \in Nat, NEW p \in 0 .. m, NEW x \in Nat,
           \A k \in 1 .. m : buf[k].sn \in Nat,
           \A i, j \in 1 .. m : i < j => buf[i].sn < buf[j].sn,
           \A k \in 1 .. p : buf[k].sn < x, \A k \in p + 1 .. m : x < buf[k].sn,
           \A k \in 1 .. p : out[k].sn = buf[k].sn, out[p + 1].sn = x,
           \A k \in p + 2 .. m + 1 : out[k].sn = buf[k - 1].sn
    PROVE  \A i, j \in 1 .. m + 1 : i < j => out[i].sn < out[j].sn
<1> SUFFICES ASSUME NEW i \in 1 .. m + 1, NEW j \in 1 .. m + 1, i < j
             PROVE  out[i].sn < out[j].sn
  OBVIOUS
<1>1. CASE j <= p
  BY <1>1
<1>2. CASE j = p + 1
  <2>1. i \in 1 .. p
    BY <1>2
  <2> QED
    BY <1>2, <2>1
<1>3. CASE j > p + 1
  <2>1. j \in p + 2 .. m + 1 /\ j - 1 \in p + 1 .. m /\ j - 1 \in 1 .. m
    BY <1>3
  <2>2. out[j].sn = buf[j - 1].sn /\ x < buf[j - 1].sn /\ buf[j - 1].sn \in Nat
    BY <2>1
  <2>3. CASE i <= p
    <3>1. i \in 1 .. p /\ i \in 1 .. m
      BY <2>3
    <3>2. out[i].sn = buf[i].sn /\ buf[i].sn < x /\ buf[i].sn \in Nat
      BY <3>1
    <3> QED
      BY <2>2, <3>2
  <2>4. CASE i = p + 1
    BY <2>2, <2>4
  <2>5. CASE i > p + 1
    <3>1. i \in p + 2 .. m + 1 /\ i - 1 \in 1 .. m /\ i - 1 < j - 1
      BY <2>5
    <3>2. out[i].sn = buf[i - 1].sn
      BY <3>1
    <3>3. buf[i - 1].sn < buf[j - 1].sn
      BY <2>1, <3>1
    <3> QED
      BY <2>2, <3>2, <3>3
  <2> QED
    BY <2>3, <2>4, <2>5
<1> QED
  BY <1>1, <1>2, <1>3

LEMMA ListedInsert ==
    ASSUME NEW buf \in Seq(Arrived), NEW line, Listed(buf, line),
           NEW seg \in Arrived, Carries(seg, line)
    PROVE  InsertBySn(buf, seg) \in Seq(Arrived) /\ Listed(InsertBySn(buf, seg), line)
<1> DEFINE I == {i \in 1 .. Len(buf) : buf[i].sn <= seg.sn}
           p == IF I # {} THEN Max(I) ELSE 0
<1>1. InsertBySn(buf, seg)
        = IF p # 0 /\ buf[p].sn = seg.sn THEN buf ELSE InsertAt(buf, p + 1, seg)
  BY DEF InsertBySn, SelectLastInSeq
<1>2. /\ \A k \in 1 .. Len(buf) : buf[k].sn \in Nat /\ Carries(buf[k], line)
      /\ \A i, j \in 1 .. Len(buf) : i < j => buf[i].sn < buf[j].sn
      /\ seg.sn \in Nat
  <2>1. Arrived \subseteq Numbered
    BY DEF Numbered
  <2>2. \A k \in 1 .. Len(buf) : buf[k].sn \in Nat
    BY <2>1, NumberedSn
  <2> QED
    BY <2>2 DEF Listed, Arrived
<1>3. Len(buf) \in Nat
  BY LenProperties
<1>4. PICK m \in Nat : m = Len(buf)
  BY <1>3
<1>5. /\ p \in 0 .. m
      /\ p # 0 => buf[p].sn <= seg.sn
      /\ \A k \in p + 1 .. m : ~(buf[k].sn <= seg.sn)
  <2>1. I \subseteq Int /\ m \in Int /\ \A k \in I : k <= m
    BY <1>4
  <2>2. CASE I = {}
    <3>1. \A k \in 1 .. m : ~(buf[k].sn <= seg.sn)
      BY <1>4, <2>2
    <3> QED
      BY <2>2, <3>1
  <2>3. CASE I # {}
    <3>1. Max(I) \in I /\ \A k \in I : k <= Max(I)
      <4> HIDE DEF I
      <4> QED
        BY <2>1, <2>3, MaxOfInts
    <3>2. PICK q \in 1 .. m : /\ q = Max(I) /\ buf[q].sn <= seg.sn
                              /\ \A k \in 1 .. m : buf[k].sn <= seg.sn => k <= q
      BY <1>4, <3>1
    <3>3. p = q
      BY <2>3, <3>2
    <3>4. ASSUME NEW k \in q + 1 .. m PROVE ~(buf[k].sn <= seg.sn)
      <4>1. k \in 1 .. m /\ ~(k <= q)
        OBVIOUS
      <4> QED
        BY <3>2, <4>1
    <3>5. q \in 0 .. m
      OBVIOUS
    <3> HIDE DEF p
    <3> QED
      BY <3>2, <3>3, <3>4, <3>5
  <2> QED
    BY <2>2, <2>3
<1> HIDE DEF p
<1>6. CASE p # 0 /\ buf[p].sn = seg.sn
  BY <1>1, <1>6
<1>7. CASE ~(p # 0 /\ buf[p].sn = seg.sn)
  <2> DEFINE out == InsertAt(buf, p + 1, seg)
  <2>1. /\ out \in Seq(Arrived) /\ Len(out) = m + 1
        /\ \A k \in 1 .. m + 1 :
             out[k] = IF k < p + 1 THEN buf[k] ELSE IF k = p + 1 THEN seg ELSE buf[k - 1]
    <3>1. PICK q \in 1 .. Len(buf) + 1 : q = p + 1
      BY <1>4, <1>5
    <3>2. /\ InsertAt(buf, q, seg) \in Seq(Arrived) /\ Len(InsertAt(buf, q, seg)) = Len(buf) + 1
          /\ \A k \in 1 .. Len(buf) + 1 :
               InsertAt(buf, q, seg)[k]
                 = IF k < q THEN buf[k] ELSE IF k = q THEN seg ELSE buf[k - 1]
      BY InsertAtElements
    <3>3. out = InsertAt(buf, q, seg)
      BY <3>1
    <3> HIDE DEF out
    <3> QED
      BY <1>4, <3>1, <3>2, <3>3
  <2>2. \A k \in p + 1 .. m : seg.sn < buf[k].sn
    BY <1>2, <1>4, <1>5
  <2>3. \A k \in 1 .. p : buf[k].sn < seg.sn
    <3> TAKE k \in 1 .. p
    <3>1. p \in 1 .. m /\ k \in 1 .. m /\ buf[p].sn < seg.sn
      BY <1>2, <1>4, <1>5, <1>7
    <3>2. k = p \/ buf[k].sn < buf[p].sn
      BY <1>2, <1>4, <3>1
    <3> QED
      BY <1>2, <1>4, <3>1, <3>2
  <2> HIDE DEF out
  <2>4. /\ \A k \in 1 .. p : out[k] = buf[k]
        /\ out[p + 1] = seg
        /\ \A k \in p + 2 .. m + 1 : out[k] = buf[k - 1] /\ k - 1 \in 1 .. m
    BY <1>5, <2>1
  <2>5. \A i, j \in 1 .. m + 1 : i < j => out[i].sn < out[j].sn
    <3>1. /\ \A k \in 1 .. p : out[k].sn = buf[k].sn
          /\ out[p + 1].sn = seg.sn
          /\ \A k \in p + 2 .. m + 1 : out[k].sn = buf[k - 1].sn
      BY <2>4
    <3>2. /\ \A k \in 1 .. m : buf[k].sn \in Nat
          /\ \A i, j \in 1 .. m : i < j => buf[i].sn < buf[j].sn
      BY <1>2, <1>4
    <3>3. seg.sn \in Nat /\ p \in 0 .. m
      BY <1>2, <1>5
    <3> QED
      BY <2>2, <2>3, <3>1, <3>2, <3>3, SortedInsert
  <2>6. ASSUME NEW k \in 1 .. m + 1 PROVE Carries(out[k], line)
    <3>1. k \in 1 .. p \/ k = p + 1 \/ k \in p + 2 .. m + 1
      BY <1>5
    <3> QED
      BY <1>2, <1>4, <1>5, <2>4, <3>1
  <2>7. Listed(out, line)
    BY <2>1, <2>5, <2>6 DEF Listed
  <2> QED
    BY <1>1, <1>7, <2>1, <2>7 DEF out
<1> QED
  BY <1>6, <1>7

-----------------------------------------------------------------------------
(* The control block in the calls of the receiver.                         *)

(* A call that numbers no segment and takes none leaves what the rest of   *)
(* the invariant names, and does not close the congestion window.          *)
Keeps(k, next) ==
    /\ next.stream = k.stream /\ next.mtu = k.mtu /\ next.snd_nxt = k.snd_nxt
    /\ next.snd_queue = k.snd_queue /\ Taken(next) = Taken(k)
    /\ k.cwnd >= 1 => next.cwnd >= 1

LEMMA KeepsOn ==
    ASSUME NEW k, NEW k1, NEW k2, Keeps(k, k1), Keeps(k1, k2)
    PROVE  Keeps(k, k2)
BY DEF Keeps

LEMMA KeepsAll ==
    \A k : Keeps(k, k)
BY DEF Keeps

(* The end of rcv_queue.                                                   *)
LEMMA SliceMore ==
    ASSUME NEW queue \in Seq(Part), NEW new \in Seq(Part), NEW line, NEW t \in Nat,
           Slice(queue, line, t), Slice(new, line, t + Len(queue))
    PROVE  Slice(queue \o new, line, t)
<1> DEFINE out == queue \o new
<1>1. PICK m \in Nat, n \in Nat : m = Len(queue) /\ n = Len(new)
  BY LenProperties
<1>2. Len(out) = m + n /\ \A i \in 1 .. m + n : out[i] = IF i <= m THEN queue[i] ELSE new[i - m]
  <2>1. /\ Len(queue \o new) = Len(queue) + Len(new)
        /\ \A i \in 1 .. Len(queue) + Len(new) :
             (queue \o new)[i] = IF i <= Len(queue) THEN queue[i] ELSE new[i - Len(queue)]
    BY ConcatProperties
  <2> HIDE DEF out
  <2> QED
    BY <1>1, <2>1 DEF out
<1> HIDE DEF out
<1>3. ASSUME NEW i \in 1 .. m + n PROVE out[i] = line[t + i]
  <2>1. CASE i <= m
    BY <1>1, <1>2, <2>1 DEF Slice
  <2>2. CASE i > m
    <3>1. PICK j \in 1 .. n : j = i - m
      BY <2>2
    <3>2. t + m + j = t + i
      BY <3>1
    <3>3. out[i] = new[j]
      BY <1>1, <1>2, <2>2, <3>1
    <3>4. new[j] = line[t + m + j]
      BY <1>1 DEF Slice
    <3> QED
      BY <3>2, <3>3, <3>4
  <2> QED
    BY <2>1, <2>2
<1> QED
  BY <1>2, <1>3 DEF out, Slice

(* The number of segments that move.                                       *)
LEMMA MoveCount ==
    ASSUME NEW k \in Kcb, Len(k.rcv_queue) <= RcvWnd,
           NEW n, n = Max({j \in 0 .. Min({Len(k.rcv_buf), RcvWnd - Len(k.rcv_queue)}) :
                             \A i \in 1 .. j : k.rcv_buf[i].sn = k.rcv_nxt + i - 1})
    PROVE  /\ n \in Nat /\ n <= Len(k.rcv_buf) /\ Len(k.rcv_queue) + n <= RcvWnd
           /\ \A i \in 1 .. n : k.rcv_buf[i].sn = k.rcv_nxt + i - 1
<1>1. Len(k.rcv_buf) \in Nat /\ Len(k.rcv_queue) \in Nat /\ RcvWnd \in Nat
  <2>1. k.rcv_buf \in Seq(Arrived) /\ k.rcv_queue \in Seq(Part)
    BY DEF Kcb
  <2> QED
    BY <2>1, LenProperties, Parameters
<1> DEFINE c == Min({Len(k.rcv_buf), RcvWnd - Len(k.rcv_queue)})
           S == {j \in 0 .. c : \A i \in 1 .. j : k.rcv_buf[i].sn = k.rcv_nxt + i - 1}
<1>2. c \in Nat /\ c <= Len(k.rcv_buf) /\ c <= RcvWnd - Len(k.rcv_queue)
  <2>1. PICK a, b : a = Len(k.rcv_buf) /\ b = RcvWnd - Len(k.rcv_queue)
    OBVIOUS
  <2>2. a \in Nat /\ b \in Nat
    BY <1>1, <2>1
  <2>3. c = IF a <= b THEN a ELSE b
    BY <2>1, <2>2, MinOfTwo
  <2> HIDE DEF c
  <2>4. c \in Nat /\ c <= a /\ c <= b
    BY <2>2, <2>3
  <2> QED
    BY <2>1, <2>4
<1> HIDE DEF c
<1>3. S \subseteq Int /\ 0 \in S /\ c \in Int /\ \A j \in S : j <= c
  BY <1>2
<1>4. n \in S
  <2>1. n = Max(S)
    BY DEF c
  <2> HIDE DEF S
  <2> QED
    BY <1>3, <2>1, MaxOfInts
<1>5. n \in 0 .. c /\ \A i \in 1 .. n : k.rcv_buf[i].sn = k.rcv_nxt + i - 1
  BY <1>4
<1>6. n \in Nat /\ n <= Len(k.rcv_buf) /\ Len(k.rcv_queue) + n <= RcvWnd
  BY <1>1, <1>2, <1>5
<1> QED
  BY <1>5, <1>6

LEMMA MoveToQueueGood ==
    ASSUME NEW mine, NEW theirs \in Seq(Part), NEW k, Good(k, mine, theirs)
    PROVE  Good(MoveToQueue(k), mine, theirs) /\ Keeps(k, MoveToQueue(k))
<1>1. PICK n : n = Max({j \in 0 .. Min({Len(k.rcv_buf), RcvWnd - Len(k.rcv_queue)}) :
                             \A i \in 1 .. j : k.rcv_buf[i].sn = k.rcv_nxt + i - 1})
  OBVIOUS
<1> DEFINE buf   == SubSeq(k.rcv_buf, n + 1, Len(k.rcv_buf))
           new   == [i \in 1 .. n |-> [frg |-> k.rcv_buf[i].frg, data |-> k.rcv_buf[i].data]]
           queue == k.rcv_queue \o new
           next  == [k EXCEPT !.rcv_buf = buf, !.rcv_nxt = @ + n, !.rcv_queue = queue]
<1>2. MoveToQueue(k) = next
  BY <1>1 DEF MoveToQueue
<1>3. k \in Kcb /\ Snd(k, mine) /\ Rcv(k, theirs)
  BY DEF Good
<1>4. /\ k.rcv_buf \in Seq(Arrived) /\ k.rcv_queue \in Seq(Part) /\ k.rcv_nxt \in Nat
      /\ Len(k.rcv_buf) \in Nat /\ Len(k.rcv_queue) \in Nat /\ Len(theirs) \in Nat
      /\ Len(k.rcv_queue) <= RcvWnd
  <2>1. k.rcv_buf \in Seq(Arrived) /\ k.rcv_queue \in Seq(Part) /\ k.rcv_nxt \in Nat
    BY <1>3 DEF Kcb
  <2> QED
    BY <1>3, <2>1, LenProperties DEF Rcv
<1>5. /\ n \in Nat /\ n <= Len(k.rcv_buf) /\ Len(k.rcv_queue) + n <= RcvWnd
      /\ \A i \in 1 .. n : k.rcv_buf[i].sn = k.rcv_nxt + i - 1
  BY <1>1, <1>3, <1>4, MoveCount
<1>6. buf \in Seq(Arrived) /\ Listed(buf, theirs)
  <2>1. n \in 0 .. Len(k.rcv_buf) /\ Listed(k.rcv_buf, theirs)
    BY <1>3, <1>4, <1>5 DEF Rcv
  <2> QED
    BY <1>4, <2>1, ListedDrop
<1>7. \A i \in 1 .. n :
        /\ k.rcv_buf[i] \in Arrived /\ k.rcv_buf[i].sn = k.rcv_nxt + i - 1
        /\ k.rcv_nxt + i <= Len(theirs)
        /\ new[i] = theirs[k.rcv_nxt + i]
  <2> TAKE i \in 1 .. n
  <2>1. i \in 1 .. Len(k.rcv_buf) /\ k.rcv_buf[i].sn = k.rcv_nxt + i - 1
    BY <1>4, <1>5
  <2>2. Carries(k.rcv_buf[i], theirs) /\ k.rcv_buf[i] \in Arrived
    BY <1>3, <1>4, <2>1, ElementOfSeq DEF Rcv, Listed
  <2>3. k.rcv_buf[i].sn + 1 = k.rcv_nxt + i
    BY <1>4, <1>5, <2>1, SMTT(30)
  <2>4. new[i] = [frg |-> k.rcv_buf[i].frg, data |-> k.rcv_buf[i].data]
    OBVIOUS
  <2> HIDE DEF new
  <2> QED
    BY <1>4, <1>5, <2>1, <2>2, <2>3, <2>4 DEF Carries
<1>8. new \in Seq(Part) /\ Len(new) = n
  <2>1. new \in [1 .. n -> Part]
    BY <1>7 DEF Part, Arrived
  <2> HIDE DEF new
  <2> QED
    BY <1>5, <2>1, FunctionIsSeq
<1> HIDE DEF buf, new
<1>9. PICK t \in Nat, m \in Nat : /\ t = Taken(k) /\ m = Len(k.rcv_queue) /\ k.rcv_nxt = t + m
                                  /\ Slice(k.rcv_queue, theirs, t)
  <2>1. Taken(k) \in Nat /\ k.rcv_nxt = Taken(k) + Len(k.rcv_queue)
    BY <1>3, <1>4 DEF Rcv, Taken
  <2> QED
    BY <1>3, <1>4, <2>1 DEF Rcv
<1>10. queue \in Seq(Part) /\ Len(queue) = m + n /\ Slice(queue, theirs, t)
  <2>1. Slice(new, theirs, t + Len(k.rcv_queue))
    BY <1>7, <1>8, <1>9 DEF Slice
  <2>2. Slice(k.rcv_queue \o new, theirs, t)
    BY <1>4, <1>8, <1>9, <2>1, SliceMore
  <2>3. k.rcv_queue \o new \in Seq(Part) /\ Len(k.rcv_queue \o new) = Len(k.rcv_queue) + Len(new)
    BY <1>4, <1>8, ConcatProperties
  <2> QED
    BY <1>8, <1>9, <2>2, <2>3
<1> HIDE DEF queue
<1>11. k.rcv_nxt + n <= Len(theirs)
  <2>1. CASE n = 0
    BY <1>3, <1>4, <2>1 DEF Rcv
  <2>2. CASE n # 0
    <3>1. n \in 1 .. n
      BY <1>5, <2>2
    <3> QED
      BY <1>7, <3>1
  <2> QED
    BY <2>1, <2>2
<1>12. next \in Kcb
  <2>1. k.rcv_nxt + n \in Nat
    BY <1>4, <1>5
  <2> QED
    BY <1>3, <1>6, <1>10, <2>1 DEF Kcb
<1>13. /\ next.rcv_nxt = k.rcv_nxt + n /\ next.rcv_queue = queue /\ next.rcv_buf = buf
       /\ next.snd_nxt = k.snd_nxt /\ next.snd_buf = k.snd_buf
       /\ next.stream = k.stream /\ next.mtu = k.mtu
       /\ next.snd_queue = k.snd_queue /\ next.cwnd = k.cwnd
  BY <1>3 DEF Kcb
<1> HIDE DEF next
<1>14. Taken(next) = t /\ Len(queue) <= RcvWnd
  <2>1. n \in Nat /\ Len(queue) = m + n /\ next.rcv_nxt = (t + m) + n /\ m + n <= RcvWnd
    BY <1>5, <1>9, <1>10, <1>13
  <2>2. Taken(next) = ((t + m) + n) - (m + n)
    BY <1>13, <2>1 DEF Taken
  <2> QED
    BY <2>1, <2>2
<1>15. Rcv(next, theirs)
  <2>1. Slice(next.rcv_queue, theirs, Taken(next))
    BY <1>10, <1>13, <1>14
  <2>2. Taken(next) >= 0
    BY <1>14
  <2> QED
    BY <1>6, <1>11, <1>13, <1>14, <2>1, <2>2 DEF Rcv
<1>16. Snd(next, mine)
  BY <1>3, <1>13 DEF Snd
<1> QED
  BY <1>2, <1>9, <1>12, <1>13, <1>14, <1>15, <1>16 DEF Good, Keeps

-----------------------------------------------------------------------------
(* ikcp_input: its steps one by one.                                       *)

LEMMA NewSndBuf ==
    ASSUME NEW mine, NEW theirs, NEW k, Good(k, mine, theirs),
           NEW buf \in Seq(Sent), Listed(buf, mine)
    PROVE  LET next == [k EXCEPT !.snd_buf = buf]
           IN  Good(next, mine, theirs) /\ Keeps(k, next)
<1> DEFINE next == [k EXCEPT !.snd_buf = buf]
<1>1. k \in Kcb /\ Snd(k, mine) /\ Rcv(k, theirs)
  BY DEF Good
<1>2. next \in Kcb
  BY <1>1 DEF Kcb
<1>3. /\ next.snd_buf = buf /\ next.snd_nxt = k.snd_nxt /\ next.rcv_nxt = k.rcv_nxt
      /\ next.rcv_queue = k.rcv_queue /\ next.rcv_buf = k.rcv_buf /\ next.stream = k.stream
      /\ next.mtu = k.mtu /\ next.snd_queue = k.snd_queue /\ next.cwnd = k.cwnd
  BY <1>1 DEF Kcb
<1> HIDE DEF next
<1>4. Taken(next) = Taken(k)
  BY <1>3 DEF Taken
<1>5. Snd(next, mine) /\ Rcv(next, theirs)
  BY <1>1, <1>3, <1>4 DEF Snd, Rcv
<1> QED
  BY <1>2, <1>3, <1>4, <1>5 DEF Good, Keeps, next

(* Fields that no conjunct of the invariant but the type is about.         *)
LEMMA OtherFields ==
    ASSUME NEW mine, NEW theirs, NEW k, Good(k, mine, theirs), NEW next \in Kcb,
           next.snd_buf = k.snd_buf, next.snd_nxt = k.snd_nxt, next.rcv_nxt = k.rcv_nxt,
           next.rcv_queue = k.rcv_queue, next.rcv_buf = k.rcv_buf, next.stream = k.stream,
           next.mtu = k.mtu, next.snd_queue = k.snd_queue,
           k.cwnd >= 1 => next.cwnd >= 1
    PROVE  Good(next, mine, theirs) /\ Keeps(k, next)
<1>1. Taken(next) = Taken(k)
  BY DEF Taken
<1>2. Snd(next, mine) /\ Rcv(next, theirs)
  BY <1>1 DEF Good, Snd, Rcv
<1> QED
  BY <1>1, <1>2 DEF Good, Keeps

LEMMA ParseUnaGood ==
    ASSUME NEW mine, NEW theirs, NEW k, Good(k, mine, theirs), NEW una \in Nat
    PROVE  /\ Good(ikcp_parse_una(k, una), mine, theirs)
           /\ Keeps(k, ikcp_parse_una(k, una))
<1> DEFINE buf == DropWhile(k.snd_buf, LAMBDA s : s.sn < una)
<1>1. k.snd_buf \in Seq(Sent) /\ Listed(k.snd_buf, mine)
  BY DEF Good, Snd, Kcb
<1>2. buf \in Seq(Sent) /\ Listed(buf, mine)
  BY <1>1, ListedAfterUna
<1>3. ikcp_parse_una(k, una) = [k EXCEPT !.snd_buf = buf]
  BY DEF ikcp_parse_una
<1> HIDE DEF buf
<1> QED
  BY <1>2, <1>3, NewSndBuf

LEMMA ShrinkBufGood ==
    ASSUME NEW mine, NEW theirs, NEW k, Good(k, mine, theirs)
    PROVE  Good(ikcp_shrink_buf(k), mine, theirs) /\ Keeps(k, ikcp_shrink_buf(k))
<1> DEFINE una  == IF k.snd_buf = <<>> THEN k.snd_nxt ELSE Head(k.snd_buf).sn
           next == [k EXCEPT !.snd_una = una]
<1>1. k \in Kcb /\ k.snd_buf \in Seq(Sent) /\ k.snd_nxt \in Nat
  BY DEF Good, Kcb
<1>2. una \in Nat
  <2>1. CASE k.snd_buf = <<>>
    BY <1>1, <2>1
  <2>2. CASE k.snd_buf # <<>>
    <3>1. Head(k.snd_buf) \in Sent
      BY <1>1, <2>2, HeadTailProperties
    <3> QED
      BY <2>2, <3>1 DEF Sent
  <2> QED
    BY <2>1, <2>2
<1>3. ikcp_shrink_buf(k) = next
  BY DEF ikcp_shrink_buf
<1> HIDE DEF una
<1>4. next \in Kcb
  BY <1>1, <1>2 DEF Kcb
<1>5. /\ next.snd_buf = k.snd_buf /\ next.snd_nxt = k.snd_nxt /\ next.rcv_nxt = k.rcv_nxt
      /\ next.rcv_queue = k.rcv_queue /\ next.rcv_buf = k.rcv_buf /\ next.stream = k.stream
      /\ next.mtu = k.mtu /\ next.snd_queue = k.snd_queue /\ next.cwnd = k.cwnd
  BY <1>1 DEF Kcb
<1> HIDE DEF next
<1> QED
  BY <1>3, <1>4, <1>5, OtherFields

LEMMA ParseAckGood ==
    ASSUME NEW mine, NEW theirs, NEW k, Good(k, mine, theirs), NEW sn \in Nat
    PROVE  Good(ikcp_parse_ack(k, sn), mine, theirs) /\ Keeps(k, ikcp_parse_ack(k, sn))
<1> DEFINE I == {i \in 1 .. Len(k.snd_buf) : k.snd_buf[i].sn >= sn}
           m == IF I # {} THEN Min(I) ELSE 0
<1>1. ikcp_parse_ack(k, sn)
        = IF Outstanding(k, sn) /\ m # 0 /\ k.snd_buf[m].sn = sn
          THEN [k EXCEPT !.snd_buf = RemoveAt(k.snd_buf, m)]
          ELSE k
  BY DEF ikcp_parse_ack, SelectInSeq
<1>2. k.snd_buf \in Seq(Sent) /\ Listed(k.snd_buf, mine)
  BY DEF Good, Snd, Kcb
<1>3. m = 0 \/ m \in 1 .. Len(k.snd_buf)
  <2>1. I \subseteq Nat /\ I \subseteq 1 .. Len(k.snd_buf)
    BY <1>2, LenProperties
  <2> HIDE DEF I
  <2> QED
    BY <2>1, MinOfNats
<1> HIDE DEF m
<1>4. CASE Outstanding(k, sn) /\ m # 0 /\ k.snd_buf[m].sn = sn
  <2>1. m \in 1 .. Len(k.snd_buf)
    BY <1>3, <1>4
  <2>2. RemoveAt(k.snd_buf, m) \in Seq(Sent) /\ Listed(RemoveAt(k.snd_buf, m), mine)
    BY <1>2, <2>1, ListedRemove
  <2>3. ikcp_parse_ack(k, sn) = [k EXCEPT !.snd_buf = RemoveAt(k.snd_buf, m)]
    BY <1>1, <1>4
  <2> QED
    BY <2>2, <2>3, NewSndBuf
<1>5. CASE ~(Outstanding(k, sn) /\ m # 0 /\ k.snd_buf[m].sn = sn)
  BY <1>1, <1>5, KeepsAll
<1> QED
  BY <1>4, <1>5

LEMMA ParseFastackGood ==
    ASSUME NEW mine, NEW theirs, NEW k, Good(k, mine, theirs), NEW sn \in Nat
    PROVE  /\ Good(ikcp_parse_fastack(k, sn), mine, theirs)
           /\ Keeps(k, ikcp_parse_fastack(k, sn))
<1>1. CASE ~Outstanding(k, sn)
  BY <1>1, KeepsAll DEF ikcp_parse_fastack
<1>2. CASE Outstanding(k, sn)
  <2> DEFINE list == k.snd_buf
             buf  == [i \in DOMAIN list |->
                        IF list[i].sn < sn
                        THEN [list[i] EXCEPT !.fastack = Min({@ + 1, FastResend})]
                        ELSE list[i]]
  <2>1. ikcp_parse_fastack(k, sn) = [k EXCEPT !.snd_buf = buf]
    BY <1>2 DEF ikcp_parse_fastack
  <2>2. list \in Seq(Sent) /\ Listed(list, mine) /\ DOMAIN list = 1 .. Len(list)
    BY LenProperties DEF Good, Snd, Kcb
  <2> HIDE DEF list
  <2>3. ASSUME NEW i \in 1 .. Len(list)
        PROVE  buf[i] \in Sent /\ Same(buf[i], list[i])
    <3>1. list[i] \in Sent
      BY <2>2, ElementOfSeq
    <3>2. Min({list[i].fastack + 1, FastResend}) \in Nat
      <4>1. list[i].fastack + 1 \in Nat /\ FastResend \in Nat
        BY <3>1, Parameters DEF Sent
      <4>2. Min({list[i].fastack + 1, FastResend})
              = IF list[i].fastack + 1 <= FastResend THEN list[i].fastack + 1 ELSE FastResend
        BY <4>1, MinOfTwo
      <4> QED
        BY <4>1, <4>2
    <3> QED
      BY <2>2, <3>1, <3>2 DEF Sent, Same
  <2>4. buf \in [1 .. Len(list) -> Sent]
    BY <2>2, <2>3
  <2> HIDE DEF buf
  <2>5. buf \in Seq(Sent) /\ Listed(buf, mine)
    BY <2>2, <2>3, <2>4, ListedMap
  <2> QED
    BY <2>1, <2>5, NewSndBuf
<1> QED
  BY <1>1, <1>2

LEMMA AckPushGood ==
    ASSUME NEW mine, NEW theirs, NEW k, Good(k, mine, theirs), NEW sn \in Nat
    PROVE  Good(ikcp_ack_push(k, sn), mine, theirs) /\ Keeps(k, ikcp_ack_push(k, sn))
<1> DEFINE next == [k EXCEPT !.acklist = Append(k.acklist, sn)]
<1>1. k \in Kcb /\ k.acklist \in Seq(Nat)
  BY DEF Good, Kcb
<1>2. Append(k.acklist, sn) \in Seq(Nat)
  BY <1>1, AppendProperties
<1>3. ikcp_ack_push(k, sn) = next
  BY DEF ikcp_ack_push
<1>4. next \in Kcb
  BY <1>1, <1>2 DEF Kcb
<1>5. /\ next.snd_buf = k.snd_buf /\ next.snd_nxt = k.snd_nxt /\ next.rcv_nxt = k.rcv_nxt
      /\ next.rcv_queue = k.rcv_queue /\ next.rcv_buf = k.rcv_buf /\ next.stream = k.stream
      /\ next.mtu = k.mtu /\ next.snd_queue = k.snd_queue /\ next.cwnd = k.cwnd
  BY <1>1 DEF Kcb
<1> HIDE DEF next
<1> QED
  BY <1>3, <1>4, <1>5, OtherFields

LEMMA RmtWndGood ==
    ASSUME NEW mine, NEW theirs, NEW k, Good(k, mine, theirs), NEW wnd \in Nat
    PROVE  LET next == [k EXCEPT !.rmt_wnd = wnd]
           IN  Good(next, mine, theirs) /\ Keeps(k, next)
<1> DEFINE next == [k EXCEPT !.rmt_wnd = wnd]
<1>1. k \in Kcb
  BY DEF Good
<1>2. next \in Kcb
  BY <1>1 DEF Kcb
<1>3. /\ next.snd_buf = k.snd_buf /\ next.snd_nxt = k.snd_nxt /\ next.rcv_nxt = k.rcv_nxt
      /\ next.rcv_queue = k.rcv_queue /\ next.rcv_buf = k.rcv_buf /\ next.stream = k.stream
      /\ next.mtu = k.mtu /\ next.snd_queue = k.snd_queue /\ next.cwnd = k.cwnd
  BY <1>1 DEF Kcb
<1> HIDE DEF next
<1> QED
  BY <1>2, <1>3, OtherFields DEF next

LEMMA TellGood ==
    ASSUME NEW mine, NEW theirs, NEW k, Good(k, mine, theirs)
    PROVE  LET next == [k EXCEPT !.probe = k.probe \cup {"TELL"}]
           IN  Good(next, mine, theirs) /\ Keeps(k, next)
<1> DEFINE next == [k EXCEPT !.probe = k.probe \cup {"TELL"}]
<1>1. k \in Kcb
  BY DEF Good
<1>2. next \in Kcb
  <2>1. k.probe \cup {"TELL"} \in SUBSET {"TELL", "SEND"}
    BY <1>1 DEF Kcb
  <2> QED
    BY <1>1, <2>1 DEF Kcb
<1>3. /\ next.snd_buf = k.snd_buf /\ next.snd_nxt = k.snd_nxt /\ next.rcv_nxt = k.rcv_nxt
      /\ next.rcv_queue = k.rcv_queue /\ next.rcv_buf = k.rcv_buf /\ next.stream = k.stream
      /\ next.mtu = k.mtu /\ next.snd_queue = k.snd_queue /\ next.cwnd = k.cwnd
  BY <1>1 DEF Kcb
<1> HIDE DEF next
<1> QED
  BY <1>2, <1>3, OtherFields DEF next

LEMMA ParseDataGood ==
    ASSUME NEW mine, NEW theirs \in Seq(Part), NEW k, Good(k, mine, theirs),
           NEW seg \in Arrived, Carries(seg, theirs)
    PROVE  Good(ikcp_parse_data(k, seg), mine, theirs) /\ Keeps(k, ikcp_parse_data(k, seg))
<1>1. CASE seg.sn >= k.rcv_nxt + RcvWnd \/ seg.sn < k.rcv_nxt
  BY <1>1, KeepsAll DEF ikcp_parse_data
<1>2. CASE ~(seg.sn >= k.rcv_nxt + RcvWnd \/ seg.sn < k.rcv_nxt)
  <2> DEFINE buf  == InsertBySn(k.rcv_buf, seg)
             next == [k EXCEPT !.rcv_buf = buf]
  <2>1. ikcp_parse_data(k, seg) = MoveToQueue(next)
    BY <1>2 DEF ikcp_parse_data
  <2>2. k \in Kcb /\ k.rcv_buf \in Seq(Arrived) /\ Snd(k, mine) /\ Rcv(k, theirs)
    BY DEF Good, Kcb
  <2>3. buf \in Seq(Arrived) /\ Listed(buf, theirs)
    BY <2>2, ListedInsert DEF Rcv
  <2> HIDE DEF buf
  <2>4. next \in Kcb
    BY <2>2, <2>3 DEF Kcb
  <2>5. /\ next.rcv_buf = buf /\ next.snd_nxt = k.snd_nxt /\ next.rcv_nxt = k.rcv_nxt
        /\ next.rcv_queue = k.rcv_queue /\ next.snd_buf = k.snd_buf /\ next.stream = k.stream
        /\ next.mtu = k.mtu /\ next.snd_queue = k.snd_queue /\ next.cwnd = k.cwnd
    BY <2>2 DEF Kcb
  <2> HIDE DEF next
  <2>6. Taken(next) = Taken(k)
    BY <2>5 DEF Taken
  <2>7. Good(next, mine, theirs) /\ Keeps(k, next)
    BY <2>2, <2>3, <2>4, <2>5, <2>6 DEF Good, Snd, Rcv, Keeps
  <2> QED
    BY <2>1, <2>7, MoveToQueueGood, KeepsOn
<1> QED
  BY <1>1, <1>2

(* The loop of ikcp_input.                                                 *)
Loop(acc, k, mine, theirs) ==
    /\ acc = [kcb |-> acc.kcb, maxack |-> acc.maxack] /\ acc.maxack \in Nat \cup {-1}
    /\ Good(acc.kcb, mine, theirs) /\ Keeps(k, acc.kcb)

LEMMA InputSegmentGood ==
    ASSUME NEW mine, NEW theirs \in Seq(Part), NEW k, NEW acc, Loop(acc, k, mine, theirs),
           NEW seg \in Wire, seg.cmd = "PUSH" => seg.data \in Data /\ Carries(seg, theirs)
    PROVE  Loop(InputSegment(acc, seg), k, mine, theirs)
<1> DEFINE k1   == [acc.kcb EXCEPT !.rmt_wnd = seg.wnd]
           k2   == ikcp_parse_una(k1, seg.una)
           next == ikcp_shrink_buf(k2)
           kept == [sn |-> seg.sn, frg |-> seg.frg, data |-> seg.data]
           full(x) == Good(x, mine, theirs) /\ Keeps(k, x)
<1>1. seg.sn \in Nat /\ seg.frg \in Nat /\ seg.una \in Nat /\ seg.wnd \in Nat
  BY DEF Wire
<1>2. Good(acc.kcb, mine, theirs) /\ Keeps(k, acc.kcb) /\ acc.maxack \in Nat \cup {-1}
      /\ acc = [kcb |-> acc.kcb, maxack |-> acc.maxack]
  BY DEF Loop
<1>3. full(next)
  <2>1. Good(k1, mine, theirs) /\ Keeps(acc.kcb, k1)
    BY <1>1, <1>2, RmtWndGood
  <2> HIDE DEF k1
  <2>2. Good(k2, mine, theirs) /\ Keeps(k1, k2)
    BY <1>1, <2>1, ParseUnaGood
  <2> HIDE DEF k2
  <2>3. Good(next, mine, theirs) /\ Keeps(k2, next)
    BY <2>2, ShrinkBufGood
  <2> HIDE DEF next
  <2> QED
    BY <1>2, <2>1, <2>2, <2>3, KeepsOn
<1>4. InputSegment(acc, seg)
        = CASE seg.cmd = "ACK" ->
                 [kcb |-> ikcp_shrink_buf(ikcp_parse_ack(next, seg.sn)),
                  maxack |-> Max({acc.maxack, seg.sn})]
            [] seg.cmd = "PUSH" /\ seg.sn < next.rcv_nxt + RcvWnd ->
                 [acc EXCEPT !.kcb = ikcp_parse_data(ikcp_ack_push(next, seg.sn), kept)]
            [] seg.cmd = "WASK" ->
                 [acc EXCEPT !.kcb = [next EXCEPT !.probe = next.probe \cup {"TELL"}]]
            [] OTHER -> [acc EXCEPT !.kcb = next]
  BY DEF InputSegment
<1>5. ASSUME NEW x, full(x), NEW r, r = [acc EXCEPT !.kcb = x]
      PROVE  Loop(r, k, mine, theirs)
  <2>1. r.kcb = x /\ r.maxack = acc.maxack /\ r = [kcb |-> r.kcb, maxack |-> r.maxack]
    BY <1>2, <1>5
  <2> QED
    BY <1>2, <1>5, <2>1 DEF Loop
<1> HIDE DEF next
<1>6. CASE seg.cmd = "ACK"
  <2> DEFINE x == ikcp_parse_ack(next, seg.sn)
             y == ikcp_shrink_buf(x)
             a == Max({acc.maxack, seg.sn})
  <2>1. Good(x, mine, theirs) /\ Keeps(next, x)
    BY <1>1, <1>3, ParseAckGood
  <2> HIDE DEF x
  <2>2. Good(y, mine, theirs) /\ Keeps(x, y)
    BY <2>1, ShrinkBufGood
  <2> HIDE DEF y
  <2>3. Keeps(k, y)
    BY <1>3, <2>1, <2>2, KeepsOn
  <2>4. a \in Nat
    <3>1. acc.maxack \in Int /\ seg.sn \in Int
      BY <1>1, <1>2
    <3>2. a = IF acc.maxack >= seg.sn THEN acc.maxack ELSE seg.sn
      BY <3>1, MaxOfTwo
    <3> HIDE DEF a
    <3> QED
      BY <1>1, <1>2, <3>2
  <2>5. InputSegment(acc, seg) = [kcb |-> y, maxack |-> a]
    BY <1>4, <1>6 DEF x, y
  <2> HIDE DEF a
  <2> QED
    BY <2>2, <2>3, <2>4, <2>5 DEF Loop
<1>7. CASE seg.cmd = "PUSH" /\ seg.sn < next.rcv_nxt + RcvWnd
  <2> DEFINE x == ikcp_ack_push(next, seg.sn)
             y == ikcp_parse_data(x, kept)
  <2>1. Good(x, mine, theirs) /\ Keeps(next, x)
    BY <1>1, <1>3, AckPushGood
  <2>2. kept \in Arrived /\ Carries(kept, theirs)
    BY <1>1, <1>7 DEF Arrived, Carries
  <2> HIDE DEF x, kept
  <2>3. Good(y, mine, theirs) /\ Keeps(x, y)
    BY <2>1, <2>2, ParseDataGood
  <2> HIDE DEF y
  <2>4. full(y)
    BY <1>3, <2>1, <2>3, KeepsOn
  <2>5. InputSegment(acc, seg) = [acc EXCEPT !.kcb = y]
    BY <1>4, <1>7 DEF x, y
  <2> QED
    BY <1>5, <2>4, <2>5
<1>8. CASE seg.cmd = "WASK"
  <2> DEFINE x == [next EXCEPT !.probe = next.probe \cup {"TELL"}]
  <2>1. Good(x, mine, theirs) /\ Keeps(next, x)
    BY <1>3, TellGood
  <2> HIDE DEF x
  <2>2. full(x)
    BY <1>3, <2>1, KeepsOn
  <2>3. InputSegment(acc, seg) = [acc EXCEPT !.kcb = x]
    BY <1>4, <1>8 DEF x
  <2> QED
    BY <1>5, <2>2, <2>3
<1>9. CASE ~(\/ seg.cmd = "ACK" \/ seg.cmd = "WASK"
             \/ seg.cmd = "PUSH" /\ seg.sn < next.rcv_nxt + RcvWnd)
  <2>1. InputSegment(acc, seg) = [acc EXCEPT !.kcb = next]
    BY <1>4, <1>9
  <2> QED
    BY <1>3, <1>5, <2>1
<1> QED
  BY <1>6, <1>7, <1>8, <1>9

(* The function InputLoop defines exists: it does for the first m          *)
(* segments, whatever m.                                                   *)
LEMMA InputLoopEquation ==
    ASSUME NEW k, NEW datagram, Len(datagram) \in Nat
    PROVE  LET end == InputLoop(k, datagram)
           IN  end = [i \in 0 .. Len(datagram) |->
                        IF i = 0 THEN [kcb |-> k, maxack |-> -1]
                                 ELSE InputSegment(end[i - 1], datagram[i])]
<1> DEFINE n == Len(datagram)
           first == [kcb |-> k, maxack |-> -1]
           G(m) == \E f : f = [i \in 0 .. m |-> IF i = 0 THEN first
                                                ELSE InputSegment(f[i - 1], datagram[i])]
           T == {m \in Nat : G(m)}
<1>1. 0 \in T
  <2> DEFINE f == [i \in 0 .. 0 |-> first]
  <2>1. f = [i \in 0 .. 0 |-> IF i = 0 THEN first ELSE InputSegment(f[i - 1], datagram[i])]
    OBVIOUS
  <2> HIDE DEF f
  <2> QED
    BY <2>1
<1> HIDE DEF first
<1>2. ASSUME NEW m \in Nat, m \in T PROVE m + 1 \in T
  <2>1. PICK f : f = [i \in 0 .. m |-> IF i = 0 THEN first
                                       ELSE InputSegment(f[i - 1], datagram[i])]
    BY <1>2
  <2> DEFINE last == InputSegment(f[m], datagram[m + 1])
             g    == [i \in 0 .. m + 1 |-> IF i = m + 1 THEN last ELSE f[i]]
  <2>2. ASSUME NEW i \in 0 .. m + 1
        PROVE  g[i] = IF i = 0 THEN first ELSE InputSegment(g[i - 1], datagram[i])
    <3>1. CASE i = m + 1
      <4>1. i - 1 = m /\ i # 0 /\ m \in 0 .. m + 1 /\ m # m + 1
        BY <3>1
      <4>2. g[m] = f[m] /\ g[i] = last
        BY <3>1, <4>1
      <4> HIDE DEF g
      <4> QED
        BY <3>1, <4>1, <4>2
    <3>2. CASE i # m + 1
      <4>1. i \in 0 .. m /\ g[i] = f[i] /\ (i # 0 => i - 1 \in 0 .. m /\ g[i - 1] = f[i - 1])
        BY <3>2
      <4>2. f[i] = IF i = 0 THEN first ELSE InputSegment(f[i - 1], datagram[i])
        BY <2>1, <4>1
      <4> HIDE DEF g
      <4> QED
        BY <4>1, <4>2
    <3> QED
      BY <3>1, <3>2
  <2>3. g = [i \in 0 .. m + 1 |-> IF i = 0 THEN first
                                  ELSE InputSegment(g[i - 1], datagram[i])]
    BY <2>2
  <2>4. G(m + 1)
    <3> HIDE DEF g
    <3> QED
      BY <2>3
  <2> HIDE DEF G, g
  <2> QED
    BY <2>4
<1>3. G(n)
  <2>1. \A m \in T : G(m)
    OBVIOUS
  <2>2. \A m \in Nat : m \in T => m + 1 \in T
    BY <1>2
  <2> HIDE DEF G, T
  <2> QED
    BY <1>1, <2>1, <2>2, NatsByInduction
<1> QED
  BY <1>3 DEF InputLoop, first

LEMMA InputLoopGood ==
    ASSUME NEW mine, NEW theirs \in Seq(Part), NEW k, Good(k, mine, theirs),
           NEW datagram, Datagram(datagram, theirs)
    PROVE  Loop(InputLoop(k, datagram)[Len(datagram)], k, mine, theirs)
<1> DEFINE n   == Len(datagram)
           end == InputLoop(k, datagram)
           T   == {m \in Nat : m \in 0 .. n => Loop(end[m], k, mine, theirs)}
<1>1. /\ n \in Nat
      /\ \A i \in 1 .. n : /\ datagram[i] \in Wire
                           /\ datagram[i].cmd = "PUSH" =>
                                datagram[i].data \in Data /\ Carries(datagram[i], theirs)
  <2>1. datagram \in Seq(Segment(theirs))
    BY DEF Datagram
  <2>2. n \in Nat /\ \A i \in 1 .. n : datagram[i] \in Segment(theirs)
    BY <2>1, LenProperties, ElementOfSeq
  <2> QED
    BY <2>2 DEF Segment
<1>2. \A i \in 0 .. n : end[i] = IF i = 0 THEN [kcb |-> k, maxack |-> -1]
                                 ELSE InputSegment(end[i - 1], datagram[i])
  <2>1. end = [i \in 0 .. n |-> IF i = 0 THEN [kcb |-> k, maxack |-> -1]
                                ELSE InputSegment(end[i - 1], datagram[i])]
    BY <1>1, InputLoopEquation
  <2> HIDE DEF end
  <2> QED
    BY <2>1
<1> HIDE DEF end, n
<1>3. 0 \in T
  <2>1. end[0] = [kcb |-> k, maxack |-> -1]
    BY <1>1, <1>2, SMTT(30)
  <2>2. Loop(end[0], k, mine, theirs)
    BY <2>1, KeepsAll DEF Loop
  <2> QED
    BY <2>2
<1>4. ASSUME NEW m \in Nat, m \in T PROVE m + 1 \in T
  <2> SUFFICES ASSUME m + 1 \in 0 .. n PROVE Loop(end[m + 1], k, mine, theirs)
    OBVIOUS
  <2>1. m \in 0 .. n /\ m + 1 \in 1 .. n /\ m + 1 # 0 /\ (m + 1) - 1 = m
    BY <1>1
  <2>2. end[m + 1] = InputSegment(end[m], datagram[m + 1])
    BY <1>2, <2>1
  <2>3. Loop(end[m], k, mine, theirs)
    BY <1>4, <2>1
  <2> QED
    BY <1>1, <2>1, <2>2, <2>3, InputSegmentGood
<1>5. \A m \in T : m \in 0 .. n => Loop(end[m], k, mine, theirs)
  OBVIOUS
<1>6. n \in T
  <2>1. \A m \in Nat : m \in T => m + 1 \in T
    BY <1>4
  <2> HIDE DEF T
  <2> QED
    BY <1>1, <1>3, <2>1, NatsByInduction
<1>7. Loop(end[n], k, mine, theirs)
  BY <1>1, <1>5, <1>6
<1> QED
  BY <1>7 DEF end, n

(* A quotient of natural numbers.                                          *)
LEMMA Quotient ==
    ASSUME NEW a \in Nat, NEW b \in Nat, b >= 1
    PROVE  a \div b \in Nat /\ (a >= b => a \div b >= 1)
OBVIOUS

LEMMA Product ==
    ASSUME NEW a \in Nat, NEW b \in Nat
    PROVE  a * b \in Nat /\ (a >= 1 => a * b >= b)
OBVIOUS

(* A new congestion window.                                                *)
LEMMA CwndGood ==
    ASSUME NEW mine, NEW theirs, NEW k, Good(k, mine, theirs),
           NEW cwnd \in Nat, NEW incr \in Nat, k.cwnd >= 1 => cwnd >= 1,
           NEW next, next = [k EXCEPT !.cwnd = cwnd, !.incr = incr]
    PROVE  Good(next, mine, theirs) /\ Keeps(k, next)
<1>1. k \in Kcb
  BY DEF Good
<1>2. next \in Kcb
  BY <1>1 DEF Kcb
<1>3. /\ next.snd_buf = k.snd_buf /\ next.snd_nxt = k.snd_nxt /\ next.rcv_nxt = k.rcv_nxt
      /\ next.rcv_queue = k.rcv_queue /\ next.rcv_buf = k.rcv_buf /\ next.stream = k.stream
      /\ next.mtu = k.mtu /\ next.snd_queue = k.snd_queue /\ next.cwnd = cwnd
  BY <1>1 DEF Kcb
<1> QED
  BY <1>2, <1>3, OtherFields

LEMMA GrowCwndGood ==
    ASSUME NEW mine, NEW theirs, NEW k, Good(k, mine, theirs)
    PROVE  Good(GrowCwnd(k), mine, theirs) /\ Keeps(k, GrowCwnd(k))
<1> DEFINE mss  == Mss(k)
           slow == k.cwnd < k.ssthresh
           base == Max({k.incr, mss})
           incr == IF slow THEN k.incr + mss
                           ELSE base + (mss * mss) \div base + mss \div 16
           cwnd == IF slow THEN k.cwnd + 1
                   ELSE IF (k.cwnd + 1) * mss <= incr THEN (incr + mss - 1) \div mss
                   ELSE k.cwnd
<1>1. GrowCwnd(k)
        = IF k.cwnd >= k.rmt_wnd THEN k
          ELSE IF cwnd > k.rmt_wnd
          THEN [k EXCEPT !.cwnd = k.rmt_wnd, !.incr = k.rmt_wnd * mss]
          ELSE [k EXCEPT !.cwnd = cwnd, !.incr = incr]
  BY DEF GrowCwnd
<1>2. k \in Kcb /\ k.cwnd \in Nat /\ k.incr \in Nat /\ k.rmt_wnd \in Nat /\ k.ssthresh \in Nat
  BY DEF Good, Kcb
<1>3. mss \in Nat /\ mss >= 1
  BY <1>2, MssFacts
<1> HIDE DEF mss
<1>4. base \in Nat /\ base >= 1
  <2>1. base = IF k.incr >= mss THEN k.incr ELSE mss
    BY <1>2, <1>3, MaxOfTwo
  <2> HIDE DEF base
  <2> QED
    BY <1>2, <1>3, <2>1
<1> HIDE DEF base
<1>5. incr \in Nat
  <2>1. mss * mss \in Nat
    BY <1>3, Product
  <2>2. (mss * mss) \div base \in Nat
    BY <1>4, <2>1, Quotient
  <2>3. mss \div 16 \in Nat
    BY <1>3, Quotient
  <2> QED
    BY <1>2, <1>3, <1>4, <2>2, <2>3
<1> HIDE DEF incr
<1>6. cwnd \in Nat /\ (k.cwnd >= 1 => cwnd >= 1)
  <2>1. CASE slow
    BY <1>2, <2>1
  <2>2. CASE ~slow /\ (k.cwnd + 1) * mss <= incr
    <3>1. (k.cwnd + 1) * mss \in Nat /\ (k.cwnd + 1) * mss >= mss
      BY <1>2, <1>3, Product
    <3>2. incr + mss - 1 \in Nat /\ incr + mss - 1 >= mss
      BY <1>3, <1>5, <2>2, <3>1
    <3>3. cwnd = (incr + mss - 1) \div mss
      BY <2>2
    <3> QED
      BY <1>3, <3>2, <3>3, Quotient
  <2>3. CASE ~slow /\ ~((k.cwnd + 1) * mss <= incr)
    BY <1>2, <2>3
  <2> QED
    BY <2>1, <2>2, <2>3
<1> HIDE DEF cwnd
<1>7. CASE k.cwnd >= k.rmt_wnd
  BY <1>1, <1>7, KeepsAll
<1>8. CASE ~(k.cwnd >= k.rmt_wnd) /\ cwnd > k.rmt_wnd
  <2>1. k.rmt_wnd >= 1 /\ k.rmt_wnd * mss \in Nat
    BY <1>2, <1>3, <1>8, Product
  <2>2. GrowCwnd(k) = [k EXCEPT !.cwnd = k.rmt_wnd, !.incr = k.rmt_wnd * mss]
    BY <1>1, <1>8
  <2>3. Good(k, mine, theirs) /\ (k.cwnd >= 1 => k.rmt_wnd >= 1) /\ k.rmt_wnd \in Nat
    BY <1>2, <2>1
  <2> QED
    BY <2>1, <2>2, <2>3, CwndGood
<1>9. CASE ~(k.cwnd >= k.rmt_wnd) /\ ~(cwnd > k.rmt_wnd)
  <2>1. GrowCwnd(k) = [k EXCEPT !.cwnd = cwnd, !.incr = incr]
    BY <1>1, <1>9
  <2> QED
    BY <1>5, <1>6, <2>1, CwndGood
<1> QED
  BY <1>7, <1>8, <1>9

LEMMA InputGood ==
    ASSUME NEW mine, NEW theirs \in Seq(Part), NEW k, Good(k, mine, theirs),
           NEW datagram, Datagram(datagram, theirs)
    PROVE  Good(ikcp_input(k, datagram), mine, theirs) /\ Keeps(k, ikcp_input(k, datagram))
<1> DEFINE end == InputLoop(k, datagram)[Len(datagram)]
           k1  == IF end.maxack = -1 THEN end.kcb
                                     ELSE ikcp_parse_fastack(end.kcb, end.maxack)
<1>1. ikcp_input(k, datagram) = IF k1.snd_una > k.snd_una THEN GrowCwnd(k1) ELSE k1
  BY DEF ikcp_input
<1>2. /\ Good(end.kcb, mine, theirs) /\ Keeps(k, end.kcb)
      /\ end.maxack \in Nat \cup {-1}
  BY InputLoopGood DEF Loop
<1> HIDE DEF end
<1>3. Good(k1, mine, theirs) /\ Keeps(k, k1)
  <2>1. CASE end.maxack = -1
    BY <1>2, <2>1
  <2>2. CASE end.maxack # -1
    <3>1. end.maxack \in Nat /\ k1 = ikcp_parse_fastack(end.kcb, end.maxack)
      BY <1>2, <2>2
    <3> HIDE DEF k1
    <3> QED
      BY <1>2, <3>1, ParseFastackGood, KeepsOn
  <2> QED
    BY <2>1, <2>2
<1> HIDE DEF k1
<1> QED
  BY <1>1, <1>3, GrowCwndGood, KeepsOn

-----------------------------------------------------------------------------
(* ikcp_recv.                                                              *)

LEMMA SliceDrop ==
    ASSUME NEW parts \in Seq(Part), NEW line, NEW t \in Nat, Slice(parts, line, t),
           NEW n \in 0 .. Len(parts)
    PROVE  Slice(SubSeq(parts, n + 1, Len(parts)), line, t + n)
<1> DEFINE out == SubSeq(parts, n + 1, Len(parts))
<1>1. PICK m \in Nat : m = Len(parts)
  BY LenProperties
<1>2. Len(out) = m - n /\ \A i \in 1 .. m - n : out[i] = parts[n + i]
  BY <1>1, DropElements
<1> HIDE DEF out
<1>3. ASSUME NEW i \in 1 .. m - n PROVE out[i] = line[(t + n) + i]
  <2>1. n + i \in 1 .. m /\ t + (n + i) = (t + n) + i
    BY <1>1
  <2>2. parts[n + i] = line[t + (n + i)]
    BY <1>1, <2>1 DEF Slice
  <2> QED
    BY <1>2, <2>1, <2>2
<1> QED
  BY <1>2, <1>3 DEF Slice, out

(* The first segment that ends a message is the last that ikcp_recv takes. *)
LEMMA MergedFacts ==
    ASSUME NEW k \in Kcb
    PROVE  /\ Merged(k) \in 0 .. Len(k.rcv_queue)
           /\ k.rcv_queue # <<>> => Merged(k) \in 1 .. Len(k.rcv_queue)
           /\ \A i \in 1 .. Len(k.rcv_queue) :
                k.rcv_queue[i].frg = 0 => Merged(k) <= i /\ k.rcv_queue[Merged(k)].frg = 0
<1> DEFINE queue == k.rcv_queue
           I == {i \in 1 .. Len(queue) : queue[i].frg = 0}
           m == IF I # {} THEN Min(I) ELSE 0
<1>1. queue \in Seq(Part) /\ Len(queue) \in Nat
  <2>1. queue \in Seq(Part)
    BY DEF Kcb
  <2> QED
    BY <2>1, LenProperties
<1>2. Merged(k) = IF m = 0 THEN Len(queue) ELSE m
  BY DEF Merged, MessageEnd, SelectInSeq
<1>3. queue # <<>> => Len(queue) \in Nat \ {0}
  BY <1>1, EmptySeq
<1> HIDE DEF queue
<1>4. CASE I = {}
  <2>1. m = 0 /\ \A i \in 1 .. Len(queue) : queue[i].frg # 0
    BY <1>4
  <2> HIDE DEF m
  <2>2. Merged(k) = Len(queue)
    BY <1>2, <2>1
  <2> QED
    BY <1>1, <1>3, <2>1, <2>2 DEF queue
<1>5. CASE I # {}
  <2>1. I \subseteq Nat
    BY <1>1
  <2>2. Min(I) \in I /\ \A i \in I : Min(I) <= i
    <3> HIDE DEF I
    <3> QED
      BY <1>5, <2>1, MinOfNats
  <2>3. PICK q \in 1 .. Len(queue) : /\ q = Min(I) /\ queue[q].frg = 0
                                     /\ \A i \in 1 .. Len(queue) : queue[i].frg = 0 => q <= i
    BY <2>2
  <2>4. m = q /\ m # 0
    BY <1>1, <1>5, <2>3
  <2> HIDE DEF m
  <2>5. Merged(k) = q
    BY <1>2, <2>4
  <2>6. /\ Merged(k) \in 1 .. Len(queue) /\ queue[Merged(k)].frg = 0
        /\ \A i \in 1 .. Len(queue) : queue[i].frg = 0 => Merged(k) <= i
    BY <2>3, <2>5
  <2>7. Merged(k) \in 0 .. Len(queue)
    BY <2>6
  <2> QED
    BY <2>6, <2>7 DEF queue
<1> QED
  BY <1>4, <1>5

LEMMA RecvGood ==
    ASSUME NEW mine, NEW theirs \in Seq(Part), NEW k, Good(k, mine, theirs)
    PROVE  LET next == ikcp_recv(k).kcb
           IN  /\ Good(next, mine, theirs)
               /\ next.stream = k.stream /\ next.mtu = k.mtu /\ next.snd_nxt = k.snd_nxt
               /\ next.snd_queue = k.snd_queue /\ (k.cwnd >= 1 => next.cwnd >= 1)
               /\ Taken(next) = Taken(k) + Merged(k)
<1> DEFINE n     == Merged(k)
           queue == SubSeq(k.rcv_queue, n + 1, Len(k.rcv_queue))
           k1    == [k EXCEPT !.rcv_queue = queue]
           k2    == MoveToQueue(k1)
           k3    == FastRecover(k, k2)
<1>1. ikcp_recv(k).kcb = k3
  BY DEF ikcp_recv
<1>2. /\ k \in Kcb /\ Snd(k, mine) /\ Rcv(k, theirs)
      /\ k.rcv_queue \in Seq(Part) /\ k.rcv_nxt \in Nat /\ Len(k.rcv_queue) \in Nat
  <2>1. k \in Kcb /\ k.rcv_queue \in Seq(Part) /\ k.rcv_nxt \in Nat
    BY DEF Good, Kcb
  <2> QED
    BY <2>1, LenProperties DEF Good
<1>3. n \in 0 .. Len(k.rcv_queue)
  BY <1>2, MergedFacts
<1> HIDE DEF n
<1>4. queue \in Seq(Part) /\ Len(queue) = Len(k.rcv_queue) - n
  BY <1>2, <1>3, DropElements
<1>5. Taken(k) \in Nat /\ Len(k.rcv_queue) <= RcvWnd /\ RcvWnd \in Nat
  BY <1>2, Parameters DEF Rcv, Taken
<1>6. Slice(queue, theirs, Taken(k) + n)
  BY <1>2, <1>3, <1>5, SliceDrop DEF Rcv
<1> HIDE DEF queue
<1>7. k1 \in Kcb
  BY <1>2, <1>4 DEF Kcb
<1>8. /\ k1.rcv_queue = queue /\ k1.rcv_nxt = k.rcv_nxt /\ k1.rcv_buf = k.rcv_buf
      /\ k1.snd_buf = k.snd_buf /\ k1.snd_nxt = k.snd_nxt /\ k1.stream = k.stream
      /\ k1.mtu = k.mtu /\ k1.snd_queue = k.snd_queue /\ k1.cwnd = k.cwnd
  BY <1>2 DEF Kcb
<1> HIDE DEF k1
<1>9. Taken(k1) = Taken(k) + n /\ Taken(k1) >= 0 /\ Len(queue) <= RcvWnd
  <2>1. Taken(k1) = k.rcv_nxt - (Len(k.rcv_queue) - n) /\ Taken(k) = k.rcv_nxt - Len(k.rcv_queue)
    BY <1>4, <1>8 DEF Taken
  <2> QED
    BY <1>2, <1>3, <1>4, <1>5, <2>1, SMTT(30)
<1>10. Good(k1, mine, theirs)
  <2>1. Snd(k1, mine)
    BY <1>2, <1>8 DEF Snd
  <2>2. Rcv(k1, theirs)
    BY <1>2, <1>6, <1>8, <1>9 DEF Rcv
  <2> QED
    BY <1>7, <2>1, <2>2 DEF Good
<1>11. Good(k2, mine, theirs) /\ Keeps(k1, k2)
  BY <1>10, MoveToQueueGood
<1> HIDE DEF k2
<1>12. Good(k3, mine, theirs) /\ Keeps(k2, k3)
  <2>1. k3 = k2 \/ k3 = [k2 EXCEPT !.probe = k2.probe \cup {"TELL"}]
    BY DEF FastRecover
  <2> HIDE DEF k3
  <2> QED
    BY <1>11, <2>1, TellGood, KeepsAll
<1> HIDE DEF k3
<1> QED
  BY <1>1, <1>8, <1>9, <1>11, <1>12 DEF Keeps, n

-----------------------------------------------------------------------------
(* ikcp_flush: the lists and the windows.                                  *)

LEMMA FlushWindowType ==
    ASSUME NEW k \in Kcb
    PROVE  FlushWindow(k) \in Nat
<1> DEFINE S == {SndWnd, k.rmt_wnd} \cup (IF NoCwnd THEN {} ELSE {k.cwnd})
<1>1. S \subseteq Nat /\ S # {}
  BY Parameters DEF Kcb
<1>2. FlushWindow(k) = Min(S)
  BY DEF FlushWindow
<1> HIDE DEF S
<1> QED
  BY <1>1, <1>2, MinOfNats

(* The number of segments that leave snd_queue.                            *)
LEMMA TakeCount ==
    ASSUME NEW k \in Kcb,
           NEW n, n = Max({0, Min({Len(k.snd_queue), k.snd_una + FlushWindow(k) - k.snd_nxt})})
    PROVE  n \in Nat /\ n <= Len(k.snd_queue)
<1> DEFINE a == k.snd_una + FlushWindow(k) - k.snd_nxt
           b == Min({Len(k.snd_queue), a})
<1>1. a \in Int /\ Len(k.snd_queue) \in Nat
  <2>1. k.snd_queue \in Seq(Part) /\ k.snd_una \in Nat /\ k.snd_nxt \in Nat
    BY DEF Kcb
  <2> QED
    BY <2>1, FlushWindowType, LenProperties
<1> HIDE DEF a
<1>2. b = IF Len(k.snd_queue) <= a THEN Len(k.snd_queue) ELSE a
  BY <1>1, MinOfTwo
<1> HIDE DEF b
<1>3. b \in Int /\ 0 \in Int /\ b <= Len(k.snd_queue)
  BY <1>1, <1>2
<1>4. n = IF 0 >= b THEN 0 ELSE b
  <2>1. Max({0, b}) = IF 0 >= b THEN 0 ELSE b
    BY <1>3, MaxOfTwo
  <2> QED
    BY <2>1 DEF a, b
<1> QED
  BY <1>1, <1>3, <1>4

(* The segments that leave snd_queue get the next numbers of the line.     *)
LEMMA TakeFromQueueGood ==
    ASSUME NEW mine \in Seq(Part), NEW theirs, NEW k, Good(k, mine, theirs)
    PROVE  \E n \in 0 .. Len(k.snd_queue) :
             LET next == TakeFromQueue(k)
             IN  /\ Good(next, mine \o SubSeq(k.snd_queue, 1, n), theirs)
                 /\ next.stream = k.stream /\ next.mtu = k.mtu /\ next.cwnd = k.cwnd
                 /\ next.snd_queue = SubSeq(k.snd_queue, n + 1, Len(k.snd_queue))
                 /\ Taken(next) = Taken(k)
<1> DEFINE n == Max({0, Min({Len(k.snd_queue), k.snd_una + FlushWindow(k) - k.snd_nxt})})
           queue == SubSeq(k.snd_queue, n + 1, Len(k.snd_queue))
           taken == SubSeq(k.snd_queue, 1, n)
           new   == [i \in 1 .. n |->
                       [sn |-> k.snd_nxt + i - 1, frg |-> k.snd_queue[i].frg,
                        data |-> k.snd_queue[i].data, xmit |-> 0, fastack |-> 0]]
           buf   == k.snd_buf \o new
           next  == [k EXCEPT !.snd_queue = queue, !.snd_nxt = @ + n, !.snd_buf = buf]
           line  == mine \o taken
<1>1. TakeFromQueue(k) = next
  BY DEF TakeFromQueue
<1>2. /\ k \in Kcb /\ k.snd_queue \in Seq(Part) /\ k.snd_buf \in Seq(Sent)
      /\ k.snd_una \in Nat /\ k.snd_nxt \in Nat /\ Len(k.snd_queue) \in Nat
      /\ Len(mine) = k.snd_nxt /\ Listed(k.snd_buf, mine) /\ Rcv(k, theirs)
  <2>1. /\ k \in Kcb /\ k.snd_queue \in Seq(Part) /\ k.snd_buf \in Seq(Sent)
        /\ k.snd_una \in Nat /\ k.snd_nxt \in Nat
    BY DEF Good, Kcb
  <2> QED
    BY <2>1, LenProperties DEF Good, Snd
<1>3. n \in Nat /\ n <= Len(k.snd_queue)
  BY <1>2, TakeCount
<1> HIDE DEF n
<1>4. /\ queue \in Seq(Part) /\ taken \in Seq(Part) /\ Len(taken) = n
      /\ \A i \in 1 .. n : taken[i] = k.snd_queue[i]
  <2>1. n \in 0 .. Len(k.snd_queue)
    BY <1>2, <1>3
  <2> QED
    BY <1>2, <2>1, TakeElements, DropElements
<1> HIDE DEF queue, taken
<1>5. ASSUME NEW i \in 1 .. n
      PROVE  /\ new[i] \in Sent /\ new[i].sn = Len(mine) + i - 1
             /\ taken[i] = [frg |-> new[i].frg, data |-> new[i].data]
  <2>1. k.snd_queue[i] \in Part
    <3>1. i \in 1 .. Len(k.snd_queue)
      BY <1>2, <1>3
    <3> QED
      BY <1>2, <3>1, ElementOfSeq
  <2>2. new[i] = [sn |-> k.snd_nxt + i - 1, frg |-> k.snd_queue[i].frg,
                  data |-> k.snd_queue[i].data, xmit |-> 0, fastack |-> 0]
    OBVIOUS
  <2>3. k.snd_nxt + i - 1 \in Nat
    BY <1>2, <1>3
  <2> HIDE DEF new
  <2> QED
    BY <1>2, <1>4, <2>1, <2>2, <2>3 DEF Part, Sent
<1>6. new \in [1 .. n -> Sent]
  BY <1>5
<1> HIDE DEF new
<1>7. new \in Seq(Sent) /\ Len(new) = n
  BY <1>3, <1>6, FunctionIsSeq
<1>8. buf \in Seq(Sent) /\ Listed(buf, line)
  <2>1. \A i \in 1 .. n : /\ new[i].sn = Len(mine) + i - 1
                          /\ taken[i] = [frg |-> new[i].frg, data |-> new[i].data]
    BY <1>5
  <2> QED
    BY <1>2, <1>3, <1>4, <1>7, <2>1, ListedAppend
<1>9. Len(line) = k.snd_nxt + n
  <2>1. Len(mine \o taken) = Len(mine) + Len(taken)
    BY <1>4, ConcatProperties
  <2> QED
    BY <1>2, <1>4, <2>1
<1> HIDE DEF buf, line
<1>10. next \in Kcb
  <2>1. k.snd_nxt + n \in Nat
    BY <1>2, <1>3
  <2> QED
    BY <1>2, <1>4, <1>8, <2>1 DEF Kcb
<1>11. /\ next.snd_buf = buf /\ next.snd_nxt = k.snd_nxt + n /\ next.rcv_nxt = k.rcv_nxt
       /\ next.rcv_queue = k.rcv_queue /\ next.rcv_buf = k.rcv_buf /\ next.stream = k.stream
       /\ next.mtu = k.mtu /\ next.snd_queue = queue /\ next.cwnd = k.cwnd
  BY <1>2 DEF Kcb
<1> HIDE DEF next
<1>12. Taken(next) = Taken(k)
  BY <1>11 DEF Taken
<1>13. Good(next, line, theirs)
  <2>1. Rcv(next, theirs)
    BY <1>2, <1>11, <1>12 DEF Rcv
  <2> QED
    BY <1>8, <1>9, <1>10, <1>11, <2>1 DEF Good, Snd
<1>14. n \in 0 .. Len(k.snd_queue)
  BY <1>2, <1>3
<1> QED
  BY <1>1, <1>11, <1>12, <1>13, <1>14 DEF line, taken, queue

LEMMA TransmittedFacts ==
    ASSUME NEW s \in Sent, NEW due
    PROVE  Transmitted(s, due) \in Sent /\ Same(Transmitted(s, due), s)
<1>1. XmitCap \in Nat
  <2>1. FastLimit + 1 \in Nat /\ DeadLink \in Nat
    BY Parameters
  <2>2. XmitCap = IF FastLimit + 1 >= DeadLink THEN FastLimit + 1 ELSE DeadLink
    BY <2>1, MaxOfTwo DEF XmitCap
  <2> QED
    BY <2>1, <2>2
<1>2. s.xmit \in Nat /\ s.fastack \in Nat
  BY DEF Sent
<1> DEFINE x == Min({s.xmit + 1, XmitCap})
           f == IF FastAcked(s, due) THEN 0 ELSE s.fastack
<1>3. x \in Nat
  <2>1. x = IF s.xmit + 1 <= XmitCap THEN s.xmit + 1 ELSE XmitCap
    BY <1>1, <1>2, MinOfTwo
  <2> HIDE DEF x
  <2> QED
    BY <1>1, <1>2, <2>1
<1>4. f \in Nat
  BY <1>2
<1>5. Transmitted(s, due) = s \/ Transmitted(s, due) = [s EXCEPT !.xmit = x, !.fastack = f]
  BY DEF Transmitted
<1> HIDE DEF x, f
<1> QED
  BY <1>3, <1>4, <1>5 DEF Sent, Same

(* After a flush the congestion window is one segment or more.             *)
LEMMA ShrinkCwndGood ==
    ASSUME NEW mine, NEW theirs, NEW k, Good(k, mine, theirs),
           NEW window \in Nat, NEW change, NEW lost,
           NEW next, next = ShrinkCwnd(k, window, change, lost)
    PROVE  /\ Good(next, mine, theirs) /\ Keeps(k, next) /\ next.cwnd >= 1
           /\ next.snd_buf = k.snd_buf
<1> DEFINE half(n) == Max({n \div 2, IKCP_THRESH_MIN})
           fast == half(k.snd_nxt - k.snd_una)
           slow == half(window)
           mss  == Mss(k)
           k1 == IF ~change THEN k
                 ELSE [k EXCEPT !.ssthresh = fast, !.cwnd = fast + FastResend,
                                !.incr = (fast + FastResend) * mss]
           k2 == IF ~lost THEN k1 ELSE [k1 EXCEPT !.ssthresh = slow]
           k3 == IF lost \/ k2.cwnd < 1 THEN [k2 EXCEPT !.cwnd = 1, !.incr = mss] ELSE k2
           like(x) == /\ x \in Kcb
                      /\ x.snd_buf = k.snd_buf /\ x.snd_nxt = k.snd_nxt /\ x.rcv_nxt = k.rcv_nxt
                      /\ x.rcv_queue = k.rcv_queue /\ x.rcv_buf = k.rcv_buf
                      /\ x.stream = k.stream /\ x.mtu = k.mtu /\ x.snd_queue = k.snd_queue
<1>1. ShrinkCwnd(k, window, change, lost) = k3
  BY DEF ShrinkCwnd
<1>2. k \in Kcb /\ k.snd_nxt \in Nat /\ k.snd_una \in Nat
  BY DEF Good, Kcb
<1>3. mss \in Nat
  BY <1>2, MssFacts
<1> HIDE DEF mss
<1>4. ASSUME NEW n \in Int PROVE half(n) \in Nat
  <2>1. n \div 2 \in Int /\ IKCP_THRESH_MIN \in Nat
    BY Parameters
  <2>2. half(n) = IF n \div 2 >= IKCP_THRESH_MIN THEN n \div 2 ELSE IKCP_THRESH_MIN
    BY <2>1, MaxOfTwo
  <2> HIDE DEF half
  <2> QED
    BY <2>1, <2>2
<1>5. fast \in Nat /\ slow \in Nat
  <2>1. k.snd_nxt - k.snd_una \in Int /\ window \in Int
    BY <1>2
  <2> HIDE DEF half
  <2> QED
    BY <1>4, <2>1
<1>6. fast + FastResend \in Nat /\ (fast + FastResend) * mss \in Nat
  <2> HIDE DEF half
  <2>1. fast + FastResend \in Nat
    BY <1>5, Parameters
  <2> HIDE DEF fast
  <2> QED
    BY <1>3, <2>1, Product
<1> HIDE DEF half, fast, slow
<1>7. like(k1)
  BY <1>2, <1>5, <1>6 DEF Kcb
<1> HIDE DEF k1
<1>8. like(k2)
  BY <1>5, <1>7 DEF Kcb
<1> HIDE DEF k2
<1>9. like(k3) /\ k3.cwnd >= 1
  <2>1. k2.cwnd \in Nat
    BY <1>8 DEF Kcb
  <2>2. CASE lost \/ k2.cwnd < 1
    <3>1. k3 = [k2 EXCEPT !.cwnd = 1, !.incr = mss]
      BY <2>2
    <3> HIDE DEF k3
    <3>2. k3 \in Kcb /\ k3.cwnd = 1
      BY <1>3, <1>8, <3>1 DEF Kcb
    <3> QED
      BY <1>8, <3>1, <3>2
  <2>3. CASE ~(lost \/ k2.cwnd < 1)
    <3>1. k3 = k2 /\ k2.cwnd >= 1
      BY <2>1, <2>3
    <3> HIDE DEF k3
    <3> QED
      BY <1>8, <3>1
  <2> QED
    BY <2>2, <2>3
<1> HIDE DEF k3
<1> QED
  BY <1>1, <1>9, OtherFields

-----------------------------------------------------------------------------
(* ikcp_flush: the datagrams.                                              *)

(* Size and Pack, like InputLoop, are functions that exist.                *)
LEMMA SizeEquation ==
    ASSUME NEW datagram, NEW n \in Nat, Len(datagram) = n
    PROVE  \E f : /\ f = [i \in 0 .. n |-> IF i = 0 THEN 0 ELSE f[i - 1] + Need(datagram[i])]
                  /\ Size(datagram) = f[n]
<1> DEFINE G(m) == \E f : f = [i \in 0 .. m |-> IF i = 0 THEN 0
                                                ELSE f[i - 1] + Need(datagram[i])]
           T == {m \in Nat : G(m)}
<1>1. 0 \in T
  <2> DEFINE f == [i \in 0 .. 0 |-> 0]
  <2>1. f = [i \in 0 .. 0 |-> IF i = 0 THEN 0 ELSE f[i - 1] + Need(datagram[i])]
    OBVIOUS
  <2> HIDE DEF f
  <2> QED
    BY <2>1
<1>2. ASSUME NEW m \in Nat, m \in T PROVE m + 1 \in T
  <2>1. PICK f : f = [i \in 0 .. m |-> IF i = 0 THEN 0 ELSE f[i - 1] + Need(datagram[i])]
    BY <1>2
  <2> DEFINE last == f[m] + Need(datagram[m + 1])
             g    == [i \in 0 .. m + 1 |-> IF i = m + 1 THEN last ELSE f[i]]
  <2>2. ASSUME NEW i \in 0 .. m + 1
        PROVE  g[i] = IF i = 0 THEN 0 ELSE g[i - 1] + Need(datagram[i])
    <3>1. CASE i = m + 1
      <4>1. i - 1 = m /\ i # 0 /\ m \in 0 .. m + 1 /\ m # m + 1
        BY <3>1
      <4>2. g[m] = f[m] /\ g[i] = last
        BY <3>1, <4>1
      <4> HIDE DEF g
      <4> QED
        BY <3>1, <4>1, <4>2
    <3>2. CASE i # m + 1
      <4>1. i \in 0 .. m /\ g[i] = f[i] /\ (i # 0 => i - 1 \in 0 .. m /\ g[i - 1] = f[i - 1])
        BY <3>2
      <4>2. f[i] = IF i = 0 THEN 0 ELSE f[i - 1] + Need(datagram[i])
        BY <2>1, <4>1
      <4> HIDE DEF g
      <4> QED
        BY <4>1, <4>2
    <3> QED
      BY <3>1, <3>2
  <2>3. g = [i \in 0 .. m + 1 |-> IF i = 0 THEN 0 ELSE g[i - 1] + Need(datagram[i])]
    BY <2>2
  <2>4. G(m + 1)
    <3> HIDE DEF g
    <3> QED
      BY <2>3
  <2> HIDE DEF G, g
  <2> QED
    BY <2>4
<1>3. G(n)
  <2>1. \A m \in T : G(m)
    OBVIOUS
  <2>2. \A m \in Nat : m \in T => m + 1 \in T
    BY <1>2
  <2> HIDE DEF G, T
  <2> QED
    BY <1>1, <2>1, <2>2, NatsByInduction
<1> DEFINE size == CHOOSE f : f = [i \in 0 .. n |-> IF i = 0 THEN 0
                                                    ELSE f[i - 1] + Need(datagram[i])]
<1>4. size = [i \in 0 .. n |-> IF i = 0 THEN 0 ELSE size[i - 1] + Need(datagram[i])]
  BY <1>3
<1>5. Size(datagram) = size[n]
  BY DEF Size
<1> HIDE DEF size
<1> QED
  BY <1>4, <1>5

LEMMA PackEquation ==
    ASSUME NEW segs, NEW mtu, NEW n \in Nat, Len(segs) = n
    PROVE  \E f : /\ f = [i \in 0 .. n |-> IF i = 0 THEN <<>>
                                           ELSE Packed(f[i - 1], segs[i], mtu)]
                  /\ Pack(segs, mtu) = f[n]
<1> DEFINE G(m) == \E f : f = [i \in 0 .. m |-> IF i = 0 THEN <<>>
                                                ELSE Packed(f[i - 1], segs[i], mtu)]
           T == {m \in Nat : G(m)}
<1>1. 0 \in T
  <2> DEFINE f == [i \in 0 .. 0 |-> <<>>]
  <2>1. f = [i \in 0 .. 0 |-> IF i = 0 THEN <<>> ELSE Packed(f[i - 1], segs[i], mtu)]
    OBVIOUS
  <2> HIDE DEF f
  <2> QED
    BY <2>1
<1>2. ASSUME NEW m \in Nat, m \in T PROVE m + 1 \in T
  <2>1. PICK f : f = [i \in 0 .. m |-> IF i = 0 THEN <<>> ELSE Packed(f[i - 1], segs[i], mtu)]
    BY <1>2
  <2> DEFINE last == Packed(f[m], segs[m + 1], mtu)
             g    == [i \in 0 .. m + 1 |-> IF i = m + 1 THEN last ELSE f[i]]
  <2>2. ASSUME NEW i \in 0 .. m + 1
        PROVE  g[i] = IF i = 0 THEN <<>> ELSE Packed(g[i - 1], segs[i], mtu)
    <3>1. CASE i = m + 1
      <4>1. i - 1 = m /\ i # 0 /\ m \in 0 .. m + 1 /\ m # m + 1
        BY <3>1
      <4>2. g[m] = f[m] /\ g[i] = last
        BY <3>1, <4>1
      <4> HIDE DEF g
      <4> QED
        BY <3>1, <4>1, <4>2
    <3>2. CASE i # m + 1
      <4>1. i \in 0 .. m /\ g[i] = f[i] /\ (i # 0 => i - 1 \in 0 .. m /\ g[i - 1] = f[i - 1])
        BY <3>2
      <4>2. f[i] = IF i = 0 THEN <<>> ELSE Packed(f[i - 1], segs[i], mtu)
        BY <2>1, <4>1
      <4> HIDE DEF g
      <4> QED
        BY <4>1, <4>2
    <3> QED
      BY <3>1, <3>2
  <2>3. g = [i \in 0 .. m + 1 |-> IF i = 0 THEN <<>> ELSE Packed(g[i - 1], segs[i], mtu)]
    BY <2>2
  <2>4. G(m + 1)
    <3> HIDE DEF g
    <3> QED
      BY <2>3
  <2> HIDE DEF G, g
  <2> QED
    BY <2>4
<1>3. G(n)
  <2>1. \A m \in T : G(m)
    OBVIOUS
  <2>2. \A m \in Nat : m \in T => m + 1 \in T
    BY <1>2
  <2> HIDE DEF G, T
  <2> QED
    BY <1>1, <2>1, <2>2, NatsByInduction
<1> DEFINE out == CHOOSE f : f = [i \in 0 .. n |-> IF i = 0 THEN <<>>
                                                   ELSE Packed(f[i - 1], segs[i], mtu)]
<1>4. out = [i \in 0 .. n |-> IF i = 0 THEN <<>> ELSE Packed(out[i - 1], segs[i], mtu)]
  BY <1>3
<1>5. Pack(segs, mtu) = out[n]
  BY DEF Pack
<1> HIDE DEF out
<1> QED
  BY <1>4, <1>5

LEMMA SizeEmpty ==
    ASSUME NEW datagram, Len(datagram) = 0
    PROVE  Size(datagram) = 0
<1>1. PICK f : /\ f = [i \in 0 .. 0 |-> IF i = 0 THEN 0 ELSE f[i - 1] + Need(datagram[i])]
               /\ Size(datagram) = f[0]
  <2>1. 0 \in Nat
    OBVIOUS
  <2> QED
    BY <2>1, SizeEquation
<1> QED
  BY <1>1

LEMMA SizeAppend ==
    ASSUME NEW S, NEW datagram \in Seq(S), NEW s \in S
    PROVE  Size(Append(datagram, s)) = Size(datagram) + Need(s)
<1> DEFINE more == Append(datagram, s)
<1>1. PICK n \in Nat : n = Len(datagram)
  BY LenProperties
<1>2. Len(more) = n + 1 /\ more[n + 1] = s /\ \A i \in 1 .. n : more[i] = datagram[i]
  BY <1>1, AppendProperties
<1> HIDE DEF more
<1>3. PICK f : /\ f = [i \in 0 .. n |-> IF i = 0 THEN 0 ELSE f[i - 1] + Need(datagram[i])]
               /\ Size(datagram) = f[n]
  BY <1>1, SizeEquation
<1>4. PICK g : /\ g = [i \in 0 .. n + 1 |-> IF i = 0 THEN 0 ELSE g[i - 1] + Need(more[i])]
               /\ Size(more) = g[n + 1]
  <2>1. n + 1 \in Nat
    OBVIOUS
  <2> QED
    BY <1>2, <2>1, SizeEquation
<1>5. \A i \in 0 .. n : f[i] = IF i = 0 THEN 0 ELSE f[i - 1] + Need(datagram[i])
  BY <1>3
<1>6. \A i \in 0 .. n + 1 : g[i] = IF i = 0 THEN 0 ELSE g[i - 1] + Need(more[i])
  BY <1>4
<1> DEFINE T == {m \in Nat : m \in 0 .. n => f[m] = g[m]}
<1>7. 0 \in T
  BY <1>5, <1>6
<1>8. ASSUME NEW m \in Nat, m \in T PROVE m + 1 \in T
  <2> SUFFICES ASSUME m + 1 \in 0 .. n PROVE f[m + 1] = g[m + 1]
    OBVIOUS
  <2>1. /\ m \in 0 .. n /\ m + 1 \in 0 .. n + 1 /\ m + 1 \in 1 .. n
        /\ m + 1 # 0 /\ (m + 1) - 1 = m
    OBVIOUS
  <2>2. f[m + 1] = f[m] + Need(datagram[m + 1]) /\ g[m + 1] = g[m] + Need(more[m + 1])
    BY <1>5, <1>6, <2>1
  <2>3. f[m] = g[m] /\ more[m + 1] = datagram[m + 1]
    BY <1>2, <1>8, <2>1
  <2> QED
    BY <2>2, <2>3
<1>9. f[n] = g[n]
  <2>1. \A m \in T : m \in 0 .. n => f[m] = g[m]
    OBVIOUS
  <2>2. n \in T /\ n \in 0 .. n
    <3>1. \A m \in Nat : m \in T => m + 1 \in T
      BY <1>8
    <3> HIDE DEF T
    <3> QED
      BY <1>7, <3>1, NatsByInduction
  <2> QED
    BY <2>1, <2>2
<1>10. g[n + 1] = g[n] + Need(s)
  <2>1. n + 1 \in 0 .. n + 1 /\ n + 1 # 0 /\ (n + 1) - 1 = n
    OBVIOUS
  <2> QED
    BY <1>2, <1>6, <2>1
<1> QED
  BY <1>3, <1>4, <1>9, <1>10 DEF more

(* All datagrams are over S and, when fit is asked for, no larger than mtu. *)
Packs(out, S, mtu, fit) ==
    /\ out \in Seq(Seq(S))
    /\ fit => \A i \in 1 .. Len(out) : Size(out[i]) <= mtu

LEMMA PackedGood ==
    ASSUME NEW S, NEW mtu, NEW fit \in BOOLEAN, NEW out, Packs(out, S, mtu, fit),
           NEW seg \in S, fit => Need(seg) \in Nat /\ Need(seg) <= mtu
    PROVE  Packs(Packed(out, seg, mtu), S, mtu, fit)
<1>1. PICK n \in Nat : n = Len(out)
  BY LenProperties DEF Packs
<1>2. out \in Seq(Seq(S)) /\ \A i \in 1 .. n : fit => Size(out[i]) <= mtu
  BY <1>1 DEF Packs
<1>3. CASE out # <<>> /\ Fits(Last(out), seg, mtu)
  <2> DEFINE last  == Append(out[n], seg)
             front == SubSeq(out, 1, n - 1)
             next  == front \o <<last>>
  <2>1. n >= 1
    BY <1>1, <1>2, <1>3, EmptySeq
  <2>2. Packed(out, seg, mtu) = next
    BY <1>1, <1>3 DEF Packed, Front, Last
  <2>3. out[n] \in Seq(S)
    BY <1>1, <1>2, <2>1, ElementOfSeq
  <2>4. last \in Seq(S) /\ (fit => Size(last) <= mtu)
    <3>1. last \in Seq(S) /\ Size(last) = Size(out[n]) + Need(seg)
      BY <2>3, AppendProperties, SizeAppend
    <3>2. Size(out[n]) + Need(seg) <= mtu
      BY <1>1, <1>3 DEF Fits, Last
    <3> QED
      BY <3>1, <3>2
  <2>5. /\ front \in Seq(Seq(S)) /\ Len(front) = n - 1
        /\ \A i \in 1 .. n - 1 : front[i] = out[i]
    <3>1. n - 1 \in 0 .. Len(out)
      BY <1>1, <2>1
    <3> QED
      BY <1>2, <3>1, TakeElements
  <2> HIDE DEF last, front
  <2>6. next = Append(front, last)
    BY <2>4, <2>5, AppendIsConcat
  <2>7. /\ next \in Seq(Seq(S)) /\ Len(next) = n /\ next[n] = last
        /\ \A i \in 1 .. n - 1 : next[i] = out[i]
    <3> DEFINE app == Append(front, last)
    <3>1. /\ app \in Seq(Seq(S)) /\ Len(app) = Len(front) + 1 /\ app[Len(front) + 1] = last
          /\ \A i \in 1 .. Len(front) : app[i] = front[i]
      BY <2>4, <2>5, AppendProperties
    <3>2. Len(front) + 1 = n
      BY <2>1, <2>5
    <3> HIDE DEF app, next
    <3> QED
      BY <2>5, <2>6, <3>1, <3>2 DEF app
  <2> HIDE DEF next
  <2>8. ASSUME fit, NEW i \in 1 .. n PROVE Size(next[i]) <= mtu
    <3>1. i \in 1 .. n - 1 \/ i = n
      BY <2>1
    <3> QED
      BY <1>2, <2>4, <2>7, <2>8, <3>1
  <2> QED
    BY <2>2, <2>7, <2>8 DEF Packs
<1>4. CASE ~(out # <<>> /\ Fits(Last(out), seg, mtu))
  <2> DEFINE next == Append(out, <<seg>>)
  <2>1. Packed(out, seg, mtu) = next
    BY <1>4 DEF Packed
  <2>2. <<seg>> \in Seq(S) /\ (fit => Size(<<seg>>) <= mtu)
    <3>1. <<>> \in Seq(S) /\ Append(<<>>, seg) = <<seg>> /\ Len(<<>>) = 0
      BY EmptySeq
    <3>2. Append(<<>>, seg) \in Seq(S)
      BY <3>1, AppendProperties
    <3>3. Size(<<seg>>) = 0 + Need(seg)
      BY <3>1, SizeAppend, SizeEmpty
    <3> QED
      BY <3>1, <3>2, <3>3
  <2>3. /\ next \in Seq(Seq(S)) /\ Len(next) = n + 1 /\ next[n + 1] = <<seg>>
        /\ \A i \in 1 .. n : next[i] = out[i]
    BY <1>1, <1>2, <2>2, AppendProperties
  <2> HIDE DEF next
  <2>4. ASSUME fit, NEW i \in 1 .. n + 1 PROVE Size(next[i]) <= mtu
    <3>1. i \in 1 .. n \/ i = n + 1
      OBVIOUS
    <3> QED
      BY <1>2, <2>2, <2>3, <2>4, <3>1
  <2> QED
    BY <2>1, <2>3, <2>4 DEF Packs
<1> QED
  BY <1>3, <1>4

LEMMA PackGood ==
    ASSUME NEW S, NEW mtu, NEW fit \in BOOLEAN, NEW segs \in Seq(S),
           fit => \A i \in 1 .. Len(segs) : Need(segs[i]) \in Nat /\ Need(segs[i]) <= mtu
    PROVE  Packs(Pack(segs, mtu), S, mtu, fit)
<1>1. PICK n \in Nat : n = Len(segs)
  BY LenProperties
<1>2. PICK f : /\ f = [i \in 0 .. n |-> IF i = 0 THEN <<>> ELSE Packed(f[i - 1], segs[i], mtu)]
               /\ Pack(segs, mtu) = f[n]
  BY <1>1, PackEquation, ZenonT(60)
<1>3. \A i \in 0 .. n : f[i] = IF i = 0 THEN <<>> ELSE Packed(f[i - 1], segs[i], mtu)
  BY <1>2
<1> DEFINE T == {m \in Nat : m \in 0 .. n => Packs(f[m], S, mtu, fit)}
<1>4. 0 \in T
  <2>1. f[0] = <<>> /\ <<>> \in Seq(Seq(S)) /\ Len(<<>>) = 0
    BY <1>3, EmptySeq
  <2>2. Packs(f[0], S, mtu, fit)
    BY <2>1 DEF Packs
  <2> QED
    BY <2>2
<1>5. ASSUME NEW m \in Nat, m \in T PROVE m + 1 \in T
  <2> SUFFICES ASSUME m + 1 \in 0 .. n PROVE Packs(f[m + 1], S, mtu, fit)
    OBVIOUS
  <2>1. m \in 0 .. n /\ m + 1 \in 1 .. n /\ m + 1 # 0 /\ (m + 1) - 1 = m
    OBVIOUS
  <2>2. f[m + 1] = Packed(f[m], segs[m + 1], mtu) /\ Packs(f[m], S, mtu, fit)
    BY <1>3, <1>5, <2>1
  <2>3. segs[m + 1] \in S
    BY <1>1, <2>1, ElementOfSeq
  <2> QED
    BY <1>1, <2>1, <2>2, <2>3, PackedGood
<1>6. n \in T /\ n \in 0 .. n
  <2>1. \A m \in Nat : m \in T => m + 1 \in T
    BY <1>5
  <2> HIDE DEF T
  <2> QED
    BY <1>4, <2>1, NatsByInduction
<1>7. Packs(f[n], S, mtu, fit)
  <2>1. \A m \in T : m \in 0 .. n => Packs(f[m], S, mtu, fit)
    OBVIOUS
  <2> QED
    BY <1>6, <2>1
<1> QED
  BY <1>2, <1>7

(* What a flush of k encodes: the segments of S are of the line and, when  *)
(* fit is asked for, no larger than the mtu.                               *)
Pushable(k, line, fit) ==
    /\ k \in Kcb /\ Listed(k.snd_buf, line)
    /\ fit => \A i \in 1 .. Len(k.snd_buf) : Len(k.snd_buf[i].data) <= Mss(k)

Encodable(S, line, mtu, fit) ==
    S = {s \in Segment(line) : fit => Need(s) \in Nat /\ Need(s) <= mtu}

LEMMA EncodedFields ==
    ASSUME NEW k \in Kcb, NEW cmd \in {"ACK", "PUSH", "WASK", "WINS"}, NEW sn \in Nat,
           NEW frg \in Nat, NEW data \in Data \cup {NoData}
    PROVE  LET s == Encoded(k, cmd, sn, frg, data)
           IN  /\ s \in Wire /\ s.cmd = cmd /\ s.sn = sn /\ s.frg = frg /\ s.data = data
               /\ s.una = k.rcv_nxt
<1>1. k.rcv_nxt \in Nat
  BY DEF Kcb
<1> DEFINE wnd == (RcvWnd - Len(k.rcv_queue)) % 65536
           s == Encoded(k, cmd, sn, frg, data)
<1>2. wnd \in Nat
  <2>1. k.rcv_queue \in Seq(Part)
    BY DEF Kcb
  <2>2. RcvWnd - Len(k.rcv_queue) \in Int
    BY <2>1, LenProperties, Parameters
  <2> QED
    BY <2>2
<1>3. s = [cmd |-> cmd, sn |-> sn, frg |-> frg, una |-> k.rcv_nxt, wnd |-> wnd, data |-> data]
  BY DEF Encoded
<1> HIDE DEF wnd, s
<1> QED
  BY <1>1, <1>2, <1>3 DEF Wire, s

(* ACK, WASK and WINS.                                                     *)
LEMMA EncodedNoData ==
    ASSUME NEW k \in Kcb, NEW line, NEW fit \in BOOLEAN, NEW S, Encodable(S, line, k.mtu, fit),
           NEW cmd \in {"ACK", "WASK", "WINS"}, NEW sn \in Nat
    PROVE  Encoded(k, cmd, sn, 0, NoData) \in S
<1> DEFINE s == Encoded(k, cmd, sn, 0, NoData)
<1>1. s \in Wire /\ s.cmd = cmd
  BY EncodedFields
<1> HIDE DEF s
<1>2. s \in Segment(line)
  BY <1>1 DEF Segment
<1>3. Need(s) \in Nat /\ Need(s) <= k.mtu
  <2>1. Need(s) = IKCP_OVERHEAD + 0
    BY <1>1 DEF Need
  <2> QED
    BY <2>1, MssFacts, Parameters
<1> QED
  BY <1>2, <1>3 DEF Encodable, s

(* PUSH.                                                                   *)
LEMMA EncodedPush ==
    ASSUME NEW k, NEW line, NEW fit \in BOOLEAN, Pushable(k, line, fit),
           NEW S, Encodable(S, line, k.mtu, fit), NEW i \in 1 .. Len(k.snd_buf)
    PROVE  Encoded(k, "PUSH", k.snd_buf[i].sn, k.snd_buf[i].frg, k.snd_buf[i].data) \in S
<1> DEFINE x == k.snd_buf[i]
           s == Encoded(k, "PUSH", x.sn, x.frg, x.data)
<1>1. k \in Kcb /\ x \in Sent /\ Carries(x, line)
  <2>1. k \in Kcb /\ k.snd_buf \in Seq(Sent)
    BY DEF Pushable, Kcb
  <2> QED
    BY <2>1, ElementOfSeq DEF Pushable, Listed
<1>2. fit => Len(x.data) <= Mss(k)
  BY DEF Pushable
<1> HIDE DEF x
<1>3. x.sn \in Nat /\ x.frg \in Nat /\ x.data \in Data
  BY <1>1 DEF Sent
<1>4. s \in Wire /\ s.cmd = "PUSH" /\ s.sn = x.sn /\ s.frg = x.frg /\ s.data = x.data
  BY <1>1, <1>3, EncodedFields
<1> HIDE DEF s
<1>5. s \in Segment(line)
  BY <1>1, <1>3, <1>4 DEF Segment, Carries
<1>6. fit => Need(s) \in Nat /\ Need(s) <= k.mtu
  <2>1. Need(s) = IKCP_OVERHEAD + Len(x.data)
    BY <1>4 DEF Need
  <2>2. Len(x.data) \in Nat
    BY <1>3, LenProperties DEF Data
  <2>3. Mss(k) \in Nat /\ Mss(k) + IKCP_OVERHEAD = k.mtu /\ IKCP_OVERHEAD \in Nat
    BY <1>1, MssFacts, Parameters
  <2> QED
    BY <1>2, <2>1, <2>2, <2>3
<1> QED
  BY <1>5, <1>6 DEF Encodable, s, x

(* The segments a flush encodes, in its order.                             *)
Encodes(k, acks, ask, due) ==
    LET push(s) == Encoded(k, "PUSH", s.sn, s.frg, s.data)
        probe(cmd, flag) ==
          IF flag \in ask THEN <<Encoded(k, cmd, 0, 0, NoData)>> ELSE <<>>
    IN  [i \in DOMAIN acks |-> Encoded(k, "ACK", acks[i], 0, NoData)]
        \o probe("WASK", "SEND") \o probe("WINS", "TELL")
        \o FlattenSeq([i \in DOMAIN k.snd_buf |->
             IF NeedSend(k.snd_buf[i], due) THEN <<push(k.snd_buf[i])>> ELSE <<>>])

(* The segments a flush encodes are in S if those of each kind are.        *)
LEMMA EncodesIn ==
    ASSUME NEW k, k.snd_buf \in Seq(Sent), NEW S, NEW acks \in Seq(Nat), NEW ask, NEW due,
           \A i \in 1 .. Len(acks) : Encoded(k, "ACK", acks[i], 0, NoData) \in S,
           \A cmd \in {"WASK", "WINS"} : Encoded(k, cmd, 0, 0, NoData) \in S,
           \A i \in 1 .. Len(k.snd_buf) :
             Encoded(k, "PUSH", k.snd_buf[i].sn, k.snd_buf[i].frg, k.snd_buf[i].data) \in S
    PROVE  Encodes(k, acks, ask, due) \in Seq(S)
<1> DEFINE push(s) == Encoded(k, "PUSH", s.sn, s.frg, s.data)
           probe(cmd, flag) ==
             IF flag \in ask THEN <<Encoded(k, cmd, 0, 0, NoData)>> ELSE <<>>
           a == [i \in DOMAIN acks |-> Encoded(k, "ACK", acks[i], 0, NoData)]
           w == probe("WASK", "SEND")
           t == probe("WINS", "TELL")
           p == [i \in DOMAIN k.snd_buf |->
                   IF NeedSend(k.snd_buf[i], due) THEN <<push(k.snd_buf[i])>> ELSE <<>>]
<1>1. /\ DOMAIN k.snd_buf = 1 .. Len(k.snd_buf) /\ Len(k.snd_buf) \in Nat
      /\ DOMAIN acks = 1 .. Len(acks) /\ Len(acks) \in Nat
  BY LenProperties
<1>2. a \in Seq(S)
  <2>1. a \in [1 .. Len(acks) -> S]
    BY <1>1
  <2> HIDE DEF a
  <2> QED
    BY <1>1, <2>1, FunctionIsSeq
<1>3. w \in Seq(S) /\ t \in Seq(S)
  <2>1. Encoded(k, "WASK", 0, 0, NoData) \in S /\ Encoded(k, "WINS", 0, 0, NoData) \in S
    OBVIOUS
  <2> QED
    BY <2>1
<1>4. p \in Seq(Seq(S))
  <2>1. ASSUME NEW i \in 1 .. Len(k.snd_buf) PROVE p[i] \in Seq(S)
    <3>1. PICK x \in S : x = push(k.snd_buf[i])
      OBVIOUS
    <3>2. p[i] = <<x>> \/ p[i] = <<>>
      BY <1>1, <3>1
    <3>3. <<x>> \in Seq(S) /\ <<>> \in Seq(S)
      OBVIOUS
    <3> HIDE DEF p
    <3> QED
      BY <3>2, <3>3
  <2>2. p \in [1 .. Len(k.snd_buf) -> Seq(S)]
    BY <1>1, <2>1
  <2> HIDE DEF p
  <2> QED
    BY <1>1, <2>2, FunctionIsSeq
<1>5. FlattenSeq(p) \in Seq(S)
  <2> HIDE DEF p
  <2> QED
    BY <1>4, FlattenType
<1>6. a \o w \o t \o FlattenSeq(p) \in Seq(S)
  <2> HIDE DEF a, w, t, p
  <2> QED
    BY <1>2, <1>3, <1>5
<1> QED
  BY <1>6 DEF Encodes

LEMMA EncodesGood ==
    ASSUME NEW k, NEW line, NEW fit \in BOOLEAN, Pushable(k, line, fit),
           NEW S, Encodable(S, line, k.mtu, fit), NEW acks \in Seq(Nat), NEW ask, NEW due
    PROVE  Encodes(k, acks, ask, due) \in Seq(S)
<1>1. /\ k \in Kcb /\ k.snd_buf \in Seq(Sent) /\ Len(k.snd_buf) \in Nat
      /\ DOMAIN k.snd_buf = 1 .. Len(k.snd_buf)
  <2>1. k \in Kcb /\ k.snd_buf \in Seq(Sent)
    BY DEF Pushable, Kcb
  <2> QED
    BY <2>1, LenProperties
<1>2. \A i \in 1 .. Len(acks) : Encoded(k, "ACK", acks[i], 0, NoData) \in S
  <2>1. ASSUME NEW i \in 1 .. Len(acks) PROVE Encoded(k, "ACK", acks[i], 0, NoData) \in S
    <3>1. acks[i] \in Nat
      BY ElementOfSeq
    <3> QED
      BY <1>1, <3>1, EncodedNoData
  <2> QED
    BY <2>1
<1>3. \A cmd \in {"WASK", "WINS"} : Encoded(k, cmd, 0, 0, NoData) \in S
  <2>1. 0 \in Nat
    OBVIOUS
  <2> QED
    BY <1>1, <2>1, EncodedNoData
<1>4. ASSUME NEW i \in 1 .. Len(k.snd_buf)
      PROVE  Encoded(k, "PUSH", k.snd_buf[i].sn, k.snd_buf[i].frg, k.snd_buf[i].data) \in S
  BY EncodedPush
<1> QED
  BY <1>1, <1>2, <1>3, <1>4, EncodesIn

(* What a flush leaves of the lists, and what it sends: the first segments *)
(* of snd_queue, taken, get the next numbers of the line, rest stays.      *)
Flushed(r, k, mine, theirs, taken, rest, fit) ==
    /\ taken \in Seq(Part) /\ rest \in Seq(Part) /\ taken \o rest = k.snd_queue
    /\ Good(r.kcb, mine \o taken, theirs) /\ r.kcb.snd_queue = rest
    /\ r.kcb.stream = k.stream /\ r.kcb.mtu = k.mtu /\ Taken(r.kcb) = Taken(k)
    /\ r.kcb.cwnd >= 1
    /\ Packs(r.out, Segment(mine \o taken), k.mtu, fit)

(* The segments of a line, and of what will be added to it, fit.           *)
LineFits(line, k) == \A i \in 1 .. Len(line) : Len(line[i].data) <= Mss(k)

LEMMA FlushGood ==
    ASSUME NEW mine \in Seq(Part), NEW theirs, NEW k, Good(k, mine, theirs),
           NEW due, NEW probeDue, NEW fit \in BOOLEAN, fit => LineFits(mine \o k.snd_queue, k)
    PROVE  \E taken, rest :
             Flushed(ikcp_flush(k, due, probeDue), k, mine, theirs, taken, rest, fit)
<1> DEFINE k0   == [k EXCEPT !.acklist = <<>>, !.probe = {}, !.probe_wait = (k.rmt_wnd = 0)]
           k1   == TakeFromQueue(k0)
           ask  == Probes(k, probeDue)
           segs == Encodes(k1, k.acklist, ask, due)
           buf  == [i \in DOMAIN k1.snd_buf |-> Transmitted(k1.snd_buf[i], due)]
           fast == \E s \in ToSet(k1.snd_buf) : FastAcked(s, due)
           late == \E s \in ToSet(k1.snd_buf) : TimedOut(s, due)
           dead == \E i \in DOMAIN buf : /\ NeedSend(k1.snd_buf[i], due)
                                         /\ buf[i].xmit >= DeadLink
           k2   == ShrinkCwnd(k1, FlushWindow(k), fast, late)
           k3   == [k2 EXCEPT !.snd_buf = buf, !.dead = k2.dead \/ dead]
           out  == Pack(segs, k.mtu)
<1>1. ikcp_flush(k, due, probeDue) = [out |-> out, kcb |-> k3]
  BY DEF ikcp_flush, Encodes
<1>2. k \in Kcb /\ k.acklist \in Seq(Nat) /\ k.snd_queue \in Seq(Part)
  BY DEF Good, Kcb
<1>3. FlushWindow(k) \in Nat
  BY <1>2, FlushWindowType
<1>4. Good(k0, mine, theirs) /\ Keeps(k, k0)
  <2>1. k0 \in Kcb
    <3>1. (k.rmt_wnd = 0) \in BOOLEAN /\ <<>> \in Seq(Nat) /\ {} \in SUBSET {"TELL", "SEND"}
      OBVIOUS
    <3>2. PICK b \in BOOLEAN : b = (k.rmt_wnd = 0)
      BY <3>1
    <3>3. k0 = [k EXCEPT !.acklist = <<>>, !.probe = {}, !.probe_wait = b]
      BY <3>2
    <3> HIDE DEF k0
    <3> QED
      BY <1>2, <3>1, <3>3 DEF Kcb
  <2>2. /\ k0.snd_buf = k.snd_buf /\ k0.snd_nxt = k.snd_nxt /\ k0.rcv_nxt = k.rcv_nxt
        /\ k0.rcv_queue = k.rcv_queue /\ k0.rcv_buf = k.rcv_buf /\ k0.stream = k.stream
        /\ k0.mtu = k.mtu /\ k0.snd_queue = k.snd_queue /\ k0.cwnd = k.cwnd
    BY <1>2 DEF Kcb
  <2> HIDE DEF k0
  <2> QED
    BY <2>1, <2>2, OtherFields
<1> HIDE DEF k0
<1>5. k0.snd_queue = k.snd_queue /\ k0.stream = k.stream /\ k0.mtu = k.mtu /\ Taken(k0) = Taken(k)
  BY <1>4 DEF Keeps
<1>6. PICK n \in 0 .. Len(k.snd_queue) :
        /\ Good(k1, mine \o SubSeq(k.snd_queue, 1, n), theirs)
        /\ k1.stream = k.stream /\ k1.mtu = k.mtu
        /\ k1.snd_queue = SubSeq(k.snd_queue, n + 1, Len(k.snd_queue))
        /\ Taken(k1) = Taken(k)
  BY <1>4, <1>5, TakeFromQueueGood, ZenonT(60)
<1> HIDE DEF k1
<1> DEFINE taken == SubSeq(k.snd_queue, 1, n)
           rest  == SubSeq(k.snd_queue, n + 1, Len(k.snd_queue))
           line  == mine \o taken
           S     == {s \in Segment(line) : fit => Need(s) \in Nat /\ Need(s) <= k.mtu}
<1>7. taken \in Seq(Part) /\ rest \in Seq(Part) /\ taken \o rest = k.snd_queue
  BY <1>2, TakeElements, DropElements, TakeAndDrop
<1> HIDE DEF taken, rest
<1>8. Good(k1, line, theirs) /\ k1.snd_queue = rest
  BY <1>6 DEF taken, rest
<1>9. k1 \in Kcb /\ k1.snd_buf \in Seq(Sent) /\ Listed(k1.snd_buf, line)
      /\ DOMAIN k1.snd_buf = 1 .. Len(k1.snd_buf)
  <2>1. k1 \in Kcb /\ k1.snd_buf \in Seq(Sent) /\ Listed(k1.snd_buf, line)
    BY <1>8 DEF Good, Snd, Kcb
  <2> QED
    BY <2>1, LenProperties
<1>10. Pushable(k1, line, fit)
  <2> SUFFICES ASSUME fit, NEW i \in 1 .. Len(k1.snd_buf)
               PROVE  Len(k1.snd_buf[i].data) <= Mss(k1)
    BY <1>9 DEF Pushable
  <2>1. k1.snd_buf[i] \in Sent /\ Carries(k1.snd_buf[i], line)
    BY <1>9, ElementOfSeq DEF Listed
  <2>2. PICK m \in 1 .. Len(line) : line[m].data = k1.snd_buf[i].data
    <3>1. k1.snd_buf[i].sn \in Nat
      BY <2>1 DEF Sent
    <3>2. Len(line) \in Nat
      BY <1>7, ConcatProperties, LenProperties
    <3>3. k1.snd_buf[i].sn + 1 \in 1 .. Len(line)
      BY <2>1, <3>1, <3>2 DEF Carries
    <3> QED
      BY <2>1, <3>3 DEF Carries
  <2>3. (mine \o k.snd_queue)[m] = line[m] /\ m \in 1 .. Len(mine \o k.snd_queue)
    <3>0. taken \in Seq(Part) /\ rest \in Seq(Part)
      BY <1>7
    <3>1. line \in Seq(Part)
      BY <3>0, ConcatProperties
    <3>3. line \o rest = mine \o (taken \o rest)
      BY <3>0, ConcatAssociative, SMTT(30)
    <3> HIDE DEF line
    <3>2. /\ (line \o rest)[m] = line[m]
          /\ Len(line \o rest) = Len(line) + Len(rest)
          /\ Len(line) \in Nat /\ Len(rest) \in Nat
      BY <1>7, <3>1, ConcatProperties, LenProperties
    <3> QED
      BY <1>7, <3>2, <3>3
  <2>4. Mss(k1) = Mss(k)
    BY <1>6 DEF Mss
  <2> QED
    BY <2>2, <2>3, <2>4 DEF LineFits
<1>11. Encodable(S, line, k1.mtu, fit)
  BY <1>6 DEF Encodable
<1>12. segs \in Seq(S)
  <2> HIDE DEF ask, line, S
  <2> QED
    BY <1>2, <1>10, <1>11, EncodesGood
<1>13. Packs(out, Segment(line), k.mtu, fit)
  <2> HIDE DEF segs
  <2>1. /\ S \subseteq Segment(line)
        /\ \A s \in S : fit => Need(s) \in Nat /\ Need(s) <= k.mtu
    OBVIOUS
  <2> HIDE DEF S, line
  <2>2. segs \in Seq(Segment(line))
    BY <1>12, <2>1, SeqOfMore
  <2>3. fit => \A i \in 1 .. Len(segs) : Need(segs[i]) \in Nat /\ Need(segs[i]) <= k.mtu
    BY <1>12, <2>1, ElementOfSeq
  <2> QED
    BY <2>2, <2>3, PackGood
<1> HIDE DEF out, segs, ask
<1>14. buf \in Seq(Sent) /\ Listed(buf, line)
  <2>1. ASSUME NEW i \in 1 .. Len(k1.snd_buf)
        PROVE  buf[i] \in Sent /\ Same(buf[i], k1.snd_buf[i])
    <3>1. k1.snd_buf[i] \in Sent
      BY <1>9, ElementOfSeq
    <3>2. buf[i] = Transmitted(k1.snd_buf[i], due)
      BY <1>9
    <3> HIDE DEF buf
    <3> QED
      BY <3>1, <3>2, TransmittedFacts
  <2>2. buf \in [1 .. Len(k1.snd_buf) -> Sent]
    BY <1>9, <2>1
  <2> HIDE DEF buf, line
  <2> QED
    BY <1>9, <2>1, <2>2, ListedMap
<1>15. /\ Good(k2, line, theirs) /\ Keeps(k1, k2) /\ k2.cwnd >= 1
       /\ k2.snd_buf = k1.snd_buf
  <2>1. k2 = ShrinkCwnd(k1, FlushWindow(k), fast, late)
    OBVIOUS
  <2> HIDE DEF fast, late, line, k2
  <2> QED
    BY <1>3, <1>8, <2>1, ShrinkCwndGood
<1>16. dead \in BOOLEAN
  OBVIOUS
<1> HIDE DEF buf, dead, k2, line
<1>17. Good(k3, line, theirs) /\ Keeps(k2, k3) /\ k3.cwnd = k2.cwnd
  <2> DEFINE k4 == [k2 EXCEPT !.dead = k2.dead \/ dead]
  <2>1. k2 \in Kcb
    BY <1>15 DEF Good
  <2>2. k4 \in Kcb
    BY <1>16, <2>1 DEF Kcb
  <2>3. /\ k4.snd_buf = k2.snd_buf /\ k4.snd_nxt = k2.snd_nxt /\ k4.rcv_nxt = k2.rcv_nxt
        /\ k4.rcv_queue = k2.rcv_queue /\ k4.rcv_buf = k2.rcv_buf /\ k4.stream = k2.stream
        /\ k4.mtu = k2.mtu /\ k4.snd_queue = k2.snd_queue /\ k4.cwnd = k2.cwnd
    BY <2>1 DEF Kcb
  <2>4. k3 = [k4 EXCEPT !.snd_buf = buf] /\ k3.cwnd = k2.cwnd
    BY <2>1 DEF Kcb
  <2> HIDE DEF k3, k4
  <2>5. Good(k4, line, theirs) /\ Keeps(k2, k4)
    BY <1>15, <2>2, <2>3, OtherFields
  <2>6. Good(k3, line, theirs) /\ Keeps(k4, k3)
    BY <1>14, <2>4, <2>5, NewSndBuf
  <2> QED
    BY <2>4, <2>5, <2>6, KeepsOn
<1> HIDE DEF k3
<1> DEFINE r == ikcp_flush(k, due, probeDue)
<1>18. r.kcb = k3 /\ r.out = out
  BY <1>1
<1> HIDE DEF r
<1>19. /\ k3.snd_queue = rest /\ k3.stream = k.stream /\ k3.mtu = k.mtu
       /\ Taken(k3) = Taken(k) /\ k3.cwnd >= 1
  BY <1>6, <1>8, <1>15, <1>17 DEF Keeps
<1>20. Flushed(r, k, mine, theirs, taken, rest, fit)
  BY <1>7, <1>13, <1>17, <1>18, <1>19 DEF Flushed, line
<1> QED
  BY <1>20 DEF r

-----------------------------------------------------------------------------
(* The bytes of a list.                                                    *)

Datas(parts) == [i \in DOMAIN parts |-> parts[i].data]

LEMMA DatasFacts ==
    ASSUME NEW parts \in Seq(Part)
    PROVE  /\ Datas(parts) \in Seq(Data) /\ Len(Datas(parts)) = Len(parts)
           /\ \A i \in 1 .. Len(parts) : Datas(parts)[i] = parts[i].data
           /\ Bytes(parts) = FlattenSeq(Datas(parts))
<1>1. Len(parts) \in Nat /\ DOMAIN parts = 1 .. Len(parts)
  BY LenProperties
<1>2. \A i \in 1 .. Len(parts) : Datas(parts)[i] = parts[i].data /\ parts[i].data \in Data
  <2>1. \A i \in 1 .. Len(parts) : parts[i] \in Part
    BY ElementOfSeq
  <2> QED
    BY <1>1, <2>1 DEF Datas, Part
<1>3. Datas(parts) \in [1 .. Len(parts) -> Data]
  BY <1>1, <1>2 DEF Datas
<1>4. Bytes(parts) = FlattenSeq(Datas(parts))
  BY DEF Bytes, Datas
<1> QED
  BY <1>1, <1>2, <1>3, <1>4, FunctionIsSeq

LEMMA BytesType ==
    ASSUME NEW parts \in Seq(Part)
    PROVE  Bytes(parts) \in Data
<1>1. Datas(parts) \in Seq(Seq(Byte)) /\ Bytes(parts) = FlattenSeq(Datas(parts))
  BY DatasFacts DEF Data
<1>2. FlattenSeq(Datas(parts)) \in Seq(Byte)
  BY <1>1, FlattenType
<1> QED
  BY <1>1, <1>2 DEF Data

LEMMA DatasConcat ==
    ASSUME NEW s \in Seq(Part), NEW t \in Seq(Part)
    PROVE  Datas(s \o t) = Datas(s) \o Datas(t)
<1>1. PICK m \in Nat, n \in Nat : m = Len(s) /\ n = Len(t)
  BY LenProperties
<1>2. /\ s \o t \in Seq(Part) /\ Len(s \o t) = m + n
      /\ \A i \in 1 .. m + n : (s \o t)[i] = IF i <= m THEN s[i] ELSE t[i - m]
  BY <1>1, ConcatProperties
<1> DEFINE a == Datas(s \o t)
           b == Datas(s) \o Datas(t)
<1>3. a \in Seq(Data) /\ Len(a) = m + n /\ \A i \in 1 .. m + n : a[i] = (s \o t)[i].data
  BY <1>2, DatasFacts
<1>4. /\ Datas(s) \in Seq(Data) /\ Len(Datas(s)) = m /\ \A i \in 1 .. m : Datas(s)[i] = s[i].data
      /\ Datas(t) \in Seq(Data) /\ Len(Datas(t)) = n /\ \A i \in 1 .. n : Datas(t)[i] = t[i].data
  BY <1>1, DatasFacts
<1>5. /\ b \in Seq(Data) /\ Len(b) = m + n
      /\ \A i \in 1 .. m + n : b[i] = IF i <= m THEN Datas(s)[i] ELSE Datas(t)[i - m]
  <2>1. Datas(s) \in Seq(Data) /\ Datas(t) \in Seq(Data)
    BY <1>4
  <2>2. /\ b \in Seq(Data) /\ Len(b) = Len(Datas(s)) + Len(Datas(t))
        /\ \A i \in 1 .. Len(Datas(s)) + Len(Datas(t)) :
             b[i] = IF i <= Len(Datas(s)) THEN Datas(s)[i] ELSE Datas(t)[i - Len(Datas(s))]
    BY <2>1, ConcatProperties
  <2> HIDE DEF b
  <2> QED
    BY <1>4, <2>2
<1> HIDE DEF a, b
<1>6. ASSUME NEW i \in 1 .. m + n PROVE a[i] = b[i]
  <2>1. CASE i <= m
    <3>1. i \in 1 .. m
      BY <2>1
    <3> QED
      BY <1>2, <1>3, <1>4, <1>5, <2>1, <3>1, ZenonT(60)
  <2>2. CASE ~(i <= m)
    <3>1. i - m \in 1 .. n
      BY <2>2
    <3> QED
      BY <1>2, <1>3, <1>4, <1>5, <2>2, <3>1, ZenonT(60)
  <2> QED
    BY <2>1, <2>2
<1>7. a = b
  BY <1>3, <1>5, <1>6, SeqEqual
<1> QED
  BY <1>7 DEF a, b

LEMMA BytesConcat ==
    ASSUME NEW s \in Seq(Part), NEW t \in Seq(Part)
    PROVE  Bytes(s \o t) = Bytes(s) \o Bytes(t)
<1>1. Datas(s) \in Seq(Seq(Byte)) /\ Datas(t) \in Seq(Seq(Byte))
  BY DatasFacts DEF Data
<1>2. FlattenSeq(Datas(s) \o Datas(t)) = FlattenSeq(Datas(s)) \o FlattenSeq(Datas(t))
  BY <1>1, FlattenConcat
<1>3. s \o t \in Seq(Part)
  BY ConcatProperties
<1>4. /\ Bytes(s \o t) = FlattenSeq(Datas(s \o t))
      /\ Bytes(s) = FlattenSeq(Datas(s)) /\ Bytes(t) = FlattenSeq(Datas(t))
  BY <1>3, DatasFacts
<1>5. Datas(s \o t) = Datas(s) \o Datas(t)
  BY DatasConcat
<1> QED
  BY <1>2, <1>4, <1>5

LEMMA BytesEmpty ==
    Bytes(<<>>) = <<>>
<1>1. <<>> \in Seq(Part) /\ Len(<<>>) = 0
  BY EmptySeq
<1>2. Datas(<<>>) \in Seq(Data) /\ Len(Datas(<<>>)) = 0 /\ Bytes(<<>>) = FlattenSeq(Datas(<<>>))
  BY <1>1, DatasFacts
<1>3. Datas(<<>>) = <<>>
  BY <1>2, EmptySeq
<1> QED
  BY <1>2, <1>3, FlattenEmpty

LEMMA BytesOne ==
    ASSUME NEW x \in Part
    PROVE  <<x>> \in Seq(Part) /\ Bytes(<<x>>) = x.data
<1>1. <<x>> \in Seq(Part) /\ Len(<<x>>) = 1 /\ <<x>>[1] = x
  OBVIOUS
<1>2. x.data \in Data
  BY DEF Part
<1>3. /\ Datas(<<x>>) \in Seq(Data) /\ Len(Datas(<<x>>)) = 1 /\ Datas(<<x>>)[1] = x.data
      /\ Bytes(<<x>>) = FlattenSeq(Datas(<<x>>))
  <2>1. 1 \in 1 .. 1
    OBVIOUS
  <2> QED
    BY <1>1, <2>1, DatasFacts
<1>4. Datas(<<x>>) = <<x.data>>
  <2>1. <<x.data>> \in Seq(Data) /\ Len(<<x.data>>) = 1 /\ <<x.data>>[1] = x.data
    BY <1>2
  <2>2. \A i \in 1 .. 1 : Datas(<<x>>)[i] = <<x.data>>[i]
    BY <1>3, <2>1
  <2> QED
    BY <1>3, <2>1, <2>2, SeqEqual
<1>5. FlattenSeq(<<x.data>>) = x.data
  <2>1. x.data \in Seq(Byte)
    BY <1>2 DEF Data
  <2> QED
    BY <2>1, FlattenOne
<1> QED
  BY <1>1, <1>3, <1>4, <1>5

-----------------------------------------------------------------------------
(* ikcp_send.                                                              *)

(* The number of segments: enough for len bytes, and the last is not empty *)
(* unless it is the only one.                                              *)
Spans(c, len, mss) ==
    c \in Nat /\ c >= 1 /\ len <= c * mss /\ (c - 1) * mss <= len

LEMMA Enough ==
    ASSUME NEW len \in Nat, NEW mss \in Nat, mss >= 1,
           NEW c, c = Max({1, (len + mss - 1) \div mss})
    PROVE  Spans(c, len, mss)
<1> DEFINE q == (len + mss - 1) \div mss
<1>1. len + mss - 1 \in Nat
  OBVIOUS
<1>2. q \in Nat /\ q * mss <= len + mss - 1 /\ len + mss - 1 < (q + 1) * mss
  BY <1>1
<1>3. (q + 1) * mss = q * mss + mss /\ q * mss = (q - 1) * mss + mss
  BY <1>2
<1>4. q * mss \in Int /\ (q - 1) * mss \in Int
  BY <1>2
<1>5. len <= q * mss /\ (q - 1) * mss <= len
  BY <1>2, <1>3, <1>4
<1>6. c = IF 1 >= q THEN 1 ELSE q
  BY <1>2, MaxOfTwo
<1> HIDE DEF q
<1>7. CASE 1 >= q
  <2>1. c = 1 /\ (q = 0 \/ q = 1)
    BY <1>2, <1>6, <1>7
  <2>2. 1 * mss = mss /\ 0 * mss = 0 /\ 1 - 1 = 0
    OBVIOUS
  <2> QED
    BY <1>5, <2>1, <2>2 DEF Spans
<1>8. CASE ~(1 >= q)
  BY <1>2, <1>5, <1>6, <1>8 DEF Spans
<1> QED
  BY <1>7, <1>8

(* Where the i-th segment begins.                                          *)
LEMMA Places ==
    ASSUME NEW i \in Nat, i >= 1, NEW c \in Nat, i <= c, NEW mss \in Nat
    PROVE  /\ i * mss = (i - 1) * mss + mss /\ (i - 1) * mss \in Nat
           /\ (i - 1) * mss <= (c - 1) * mss
OBVIOUS

(* The bytes of the i-th segment.                                          *)
From(i, mss) == (i - 1) * mss
Upto(i, mss, len) == Min({i * mss, len})

LEMMA Extent ==
    ASSUME NEW len \in Nat, NEW mss \in Nat, mss >= 1,
           NEW c \in Nat, Spans(c, len, mss), NEW i \in 1 .. c,
           NEW b, b = From(i, mss), NEW e, e = Upto(i, mss, len)
    PROVE  /\ b \in Nat /\ e \in Nat /\ b <= e /\ e <= len /\ e - b <= mss
           /\ i < c => e = i * mss
           /\ i = c => e = len
<1>1. i * mss = b + mss /\ b \in Nat /\ b <= (c - 1) * mss
  BY Places DEF From
<1>2. b <= len
  <2>1. (c - 1) * mss \in Int
    OBVIOUS
  <2> QED
    BY <1>1, <2>1 DEF Spans
<1>3. e = IF i * mss <= len THEN i * mss ELSE len
  <2>1. i * mss \in Int
    BY <1>1
  <2> QED
    BY <2>1, MinOfTwo DEF Upto
<1>4. i < c => i * mss <= len
  <2> SUFFICES ASSUME i < c PROVE i * mss <= len
    OBVIOUS
  <2>1. i + 1 \in Nat /\ i + 1 >= 1 /\ i + 1 <= c /\ (i + 1) - 1 = i
    OBVIOUS
  <2>2. i * mss <= (c - 1) * mss
    BY <2>1, Places
  <2> QED
    BY <1>1, <2>2 DEF Spans
<1>5. i = c => len <= i * mss
  BY DEF Spans
<1>6. i < c => e = i * mss
  BY <1>3, <1>4
<1>7. i = c => e = len
  BY <1>1, <1>3, <1>5
<1>8. e \in Nat /\ b <= e /\ e <= len /\ e - b <= mss
  BY <1>1, <1>2, <1>3
<1> QED
  BY <1>1, <1>6, <1>7, <1>8

(* data is cut into the c segments segs of mss bytes.                      *)
CutInto(c, segs, data, mss, stream) ==
    /\ c \in Nat /\ c >= 1 /\ Spans(c, Len(data), mss)
    /\ segs \in Seq(Part) /\ Len(segs) = c
    /\ \A i \in 1 .. c :
         /\ segs[i].frg = IF stream THEN 0 ELSE c - i
         /\ segs[i].data = SubSeq(data, From(i, mss) + 1, Upto(i, mss, Len(data)))
         /\ Len(segs[i].data) <= mss

LEMMA FragmentsParts ==
    ASSUME NEW data \in Data, NEW mss \in Nat, mss >= 1, NEW stream,
           NEW segs, segs = Fragments(data, mss, stream)
    PROVE  \E c : CutInto(c, segs, data, mss, stream)
<1> DEFINE c == Max({1, (Len(data) + mss - 1) \div mss})
           part(i) == [frg  |-> IF stream THEN 0 ELSE c - i,
                       data |-> SubSeq(data, From(i, mss) + 1, Upto(i, mss, Len(data)))]
<1>1. Len(data) \in Nat /\ \A i \in 1 .. Len(data) : data[i] \in Byte
  BY LenProperties, ElementOfSeq DEF Data
<1>2. c \in Nat /\ c >= 1 /\ Spans(c, Len(data), mss)
  BY <1>1, Enough DEF Spans
<1>3. segs = [i \in 1 .. c |-> part(i)]
  BY DEF Fragments, From, Upto
<1> HIDE DEF c
<1>4. ASSUME NEW i \in 1 .. c
      PROVE  part(i) \in Part /\ Len(part(i).data) <= mss
  <2> DEFINE b == From(i, mss)
             e == Upto(i, mss, Len(data))
             d == SubSeq(data, b + 1, e)
  <2>1. b \in Nat /\ e \in Nat /\ b <= e /\ e <= Len(data) /\ e - b <= mss
    BY <1>1, <1>2, Extent
  <2> HIDE DEF b, e
  <2>2. \A j \in b + 1 .. e : data[j] \in Byte
    BY <1>1, <2>1
  <2>3. b + 1 \in Int /\ e \in Int
    BY <2>1
  <2>4. d \in Seq(Byte) /\ Len(d) = IF b + 1 <= e THEN e - (b + 1) + 1 ELSE 0
    BY <2>2, <2>3, SubSeqProperties
  <2>5. Len(d) <= mss
    BY <2>1, <2>4
  <2>6. part(i) = [frg |-> IF stream THEN 0 ELSE c - i, data |-> d]
    BY DEF b, e
  <2> HIDE DEF d, part
  <2>7. (IF stream THEN 0 ELSE c - i) \in Nat
    BY <1>2
  <2> QED
    BY <2>4, <2>5, <2>6, <2>7 DEF Part, Data
<1> HIDE DEF part
<1>5. segs \in [1 .. c -> Part]
  BY <1>3, <1>4
<1>6. segs \in Seq(Part) /\ Len(segs) = c
  BY <1>2, <1>5, FunctionIsSeq
<1>7. ASSUME NEW i \in 1 .. c
      PROVE  /\ segs[i].frg = IF stream THEN 0 ELSE c - i
             /\ segs[i].data = SubSeq(data, From(i, mss) + 1, Upto(i, mss, Len(data)))
             /\ Len(segs[i].data) <= mss
  <2>1. segs[i] = part(i)
    BY <1>3
  <2>2. /\ part(i).frg = IF stream THEN 0 ELSE c - i
        /\ part(i).data = SubSeq(data, From(i, mss) + 1, Upto(i, mss, Len(data)))
    BY DEF part
  <2> QED
    BY <1>4, <2>1, <2>2
<1> QED
  BY <1>2, <1>6, <1>7 DEF CutInto

(* The data is cut, nothing is lost or moved.                              *)
LEMMA FragmentsBytes ==
    ASSUME NEW data \in Data, NEW mss \in Nat, mss >= 1, NEW stream,
           NEW segs, segs = Fragments(data, mss, stream)
    PROVE  Bytes(segs) = data
<1>1. PICK len \in Nat : len = Len(data)
  BY LenProperties DEF Data
<1>2. PICK c \in Nat :
         /\ c >= 1 /\ Spans(c, Len(data), mss)
         /\ segs \in Seq(Part) /\ Len(segs) = c
         /\ \A i \in 1 .. c :
              segs[i].data = SubSeq(data, From(i, mss) + 1, Upto(i, mss, Len(data)))
  <2>1. PICK c : CutInto(c, segs, data, mss, stream)
    BY FragmentsParts
  <2> QED
    BY <2>1 DEF CutInto
<1> DEFINE e(i) == Upto(i, mss, len)
           T == {n \in Nat : n + 1 <= c =>
                   Bytes(SubSeq(segs, 1, n + 1)) = SubSeq(data, 1, e(n + 1))}
<1>3. \A i \in 1 .. c :
        /\ From(i, mss) \in Nat /\ e(i) \in Nat /\ From(i, mss) <= e(i) /\ e(i) <= len
        /\ i < c => e(i) = i * mss
        /\ i = c => e(i) = len
  BY <1>1, <1>2, Extent
<1>4. \A i \in 1 .. c : segs[i] \in Part /\ segs[i].data = SubSeq(data, From(i, mss) + 1, e(i))
  BY <1>1, <1>2, ElementOfSeq
<1>5. data \in Seq(Byte)
  BY DEF Data
<1> HIDE DEF e
<1>6. 0 \in T
  <2>1. 1 \in 1 .. c /\ 0 + 1 = 1
    BY <1>2
  <2>2. From(1, mss) = 0
    BY DEF From
  <2>3. SubSeq(segs, 1, 1) = SubSeq(segs, 1, 1 - 1) \o <<segs[1]>>
    BY <1>2, <2>1, SubSeqRecursiveSecond
  <2>4. SubSeq(segs, 1, 1 - 1) = <<>>
    BY SubSeqEmpty
  <2>5. <<segs[1]>> \in Seq(Part) /\ Bytes(<<segs[1]>>) = segs[1].data
    BY <1>4, <2>1, BytesOne
  <2>6. <<>> \o <<segs[1]>> = <<segs[1]>>
    BY <2>5, ConcatEmptySeq
  <2>7. segs[1].data = SubSeq(data, 1, e(1))
    <3>1. From(1, mss) + 1 = 1
      BY <2>2
    <3> QED
      BY <1>4, <2>1, <3>1
  <2>8. Bytes(SubSeq(segs, 1, 1)) = SubSeq(data, 1, e(1))
    BY <2>3, <2>4, <2>5, <2>6, <2>7
  <2> QED
    BY <2>1, <2>8
<1>7. ASSUME NEW n \in Nat, n \in T PROVE n + 1 \in T
  <2> SUFFICES ASSUME (n + 1) + 1 <= c
               PROVE  Bytes(SubSeq(segs, 1, (n + 1) + 1)) = SubSeq(data, 1, e((n + 1) + 1))
    OBVIOUS
  <2>1. PICK m \in 1 .. c, i \in 1 .. c : m = n + 1 /\ i = m + 1
    OBVIOUS
  <2>2. Bytes(SubSeq(segs, 1, m)) = SubSeq(data, 1, e(m))
    BY <1>7, <2>1
  <2>3. SubSeq(segs, 1, i) = SubSeq(segs, 1, i - 1) \o <<segs[i]>> /\ i - 1 = m
    <3>1. 1 \in 1 .. Len(segs) /\ i \in 1 .. Len(segs) /\ i - 1 = m
      BY <1>2, <2>1
    <3> QED
      BY <1>2, <3>1, SubSeqRecursiveSecond
  <2>4. SubSeq(segs, 1, m) \in Seq(Part)
    <3>1. m \in 0 .. Len(segs)
      BY <1>2, <2>1
    <3> QED
      BY <1>2, <3>1, TakeElements
  <2>5. <<segs[i]>> \in Seq(Part) /\ Bytes(<<segs[i]>>) = segs[i].data
    BY <1>4, <2>1, BytesOne
  <2>6. Bytes(SubSeq(segs, 1, i)) = Bytes(SubSeq(segs, 1, m)) \o Bytes(<<segs[i]>>)
    BY <2>3, <2>4, <2>5, BytesConcat
  <2>7. From(i, mss) = e(m) /\ e(m) \in Nat /\ e(i) \in Nat /\ e(m) <= e(i) /\ e(i) <= len
    <3>1. m < c
      BY <2>1
    <3>2. From(i, mss) = m * mss
      <4>1. i - 1 = m
        BY <2>1
      <4> QED
        BY <4>1 DEF From
    <3> QED
      BY <1>3, <2>1, <3>1, <3>2
  <2>8. segs[i].data = SubSeq(data, e(m) + 1, e(i))
    BY <1>4, <2>1, <2>7
  <2>9. SubSeq(data, 1, e(m)) \o SubSeq(data, e(m) + 1, e(i)) = SubSeq(data, 1, e(i))
    <3>1. 1 \in 1 .. Len(data) + 1 /\ e(m) \in 1 - 1 .. Len(data) /\ e(i) \in e(m) .. Len(data)
      BY <1>1, <2>7
    <3> QED
      BY <1>5, <3>1, ConcatAdjacentSubSeq
  <2>10. Bytes(SubSeq(segs, 1, i)) = SubSeq(data, 1, e(i))
    BY <2>2, <2>5, <2>6, <2>8, <2>9
  <2> QED
    BY <2>1, <2>10
<1>8. c - 1 \in T
  <2>1. c - 1 \in Nat
    BY <1>2
  <2> HIDE DEF T
  <2> QED
    BY <1>6, <1>7, <2>1, NatsByInduction
<1>9. Bytes(SubSeq(segs, 1, c)) = SubSeq(data, 1, e(c))
  <2>1. (c - 1) + 1 = c
    BY <1>2
  <2> QED
    BY <1>8, <2>1
<1>10. e(c) = len
  <2>1. c \in 1 .. c
    BY <1>2
  <2> QED
    BY <1>3, <2>1
<1>11. SubSeq(segs, 1, c) = segs /\ SubSeq(data, 1, len) = data
  BY <1>1, <1>2, <1>5, SubSeqFull
<1> QED
  BY <1>9, <1>10, <1>11

LEMMA WithinConcat ==
    ASSUME NEW s \in Seq(Part), NEW t \in Seq(Part), NEW k, NEW fit \in BOOLEAN,
           Within(s, k, fit), Within(t, k, fit)
    PROVE  Within(s \o t, k, fit)
<1>1. PICK m \in Nat, n \in Nat : m = Len(s) /\ n = Len(t)
  BY LenProperties
<1> DEFINE out == s \o t
<1>2. Len(out) = m + n /\ \A i \in 1 .. m + n : out[i] = IF i <= m THEN s[i] ELSE t[i - m]
  BY <1>1, ConcatProperties
<1> HIDE DEF out
<1>3. ASSUME NEW i \in 1 .. m + n
      PROVE  out[i].frg < IKCP_WND_RCV /\ (fit => Len(out[i].data) <= Mss(k))
  <2>1. CASE i <= m
    <3>1. i \in 1 .. Len(s) /\ out[i] = s[i]
      BY <1>1, <1>2, <2>1
    <3> QED
      BY <3>1 DEF Within
  <2>2. CASE ~(i <= m)
    <3>1. i - m \in 1 .. Len(t) /\ out[i] = t[i - m]
      BY <1>1, <1>2, <2>2
    <3> QED
      BY <3>1 DEF Within
  <2> QED
    BY <2>1, <2>2
<1>4. Within(out, k, fit)
  BY <1>2, <1>3 DEF Within
<1> QED
  BY <1>4 DEF out

LEMMA WithinHead ==
    ASSUME NEW s \in Seq(Part), NEW t \in Seq(Part), NEW k, NEW fit \in BOOLEAN,
           Within(s \o t, k, fit)
    PROVE  Within(s, k, fit)
<1>1. PICK m \in Nat, n \in Nat : m = Len(s) /\ n = Len(t)
  BY LenProperties
<1> DEFINE out == s \o t
<1>2. Len(out) = m + n /\ \A i \in 1 .. m + n : out[i] = IF i <= m THEN s[i] ELSE t[i - m]
  BY <1>1, ConcatProperties
<1>3. Within(out, k, fit)
  OBVIOUS
<1> HIDE DEF out
<1>4. \A i \in 1 .. m : i \in 1 .. m + n /\ out[i] = s[i]
  BY <1>2
<1> QED
  BY <1>1, <1>2, <1>3, <1>4 DEF Within

LEMMA WithinTail ==
    ASSUME NEW s \in Seq(Part), NEW t \in Seq(Part), NEW k, NEW fit \in BOOLEAN,
           Within(s \o t, k, fit)
    PROVE  Within(t, k, fit)
<1>1. PICK m \in Nat, n \in Nat : m = Len(s) /\ n = Len(t)
  BY LenProperties
<1> DEFINE out == s \o t
<1>2. Len(out) = m + n /\ \A i \in 1 .. m + n : out[i] = IF i <= m THEN s[i] ELSE t[i - m]
  BY <1>1, ConcatProperties
<1>3. Within(out, k, fit)
  OBVIOUS
<1> HIDE DEF out
<1>4. ASSUME NEW i \in 1 .. n
      PROVE  t[i].frg < IKCP_WND_RCV /\ (fit => Len(t[i].data) <= Mss(k))
  <2>1. m + i \in 1 .. m + n /\ ~(m + i <= m) /\ (m + i) - m = i
    OBVIOUS
  <2>2. out[m + i] = t[i]
    BY <1>2, <2>1
  <2> QED
    BY <1>2, <1>3, <2>1, <2>2 DEF Within
<1> QED
  BY <1>1, <1>4 DEF Within

(* In stream mode the beginning of the data goes into the last segment.    *)
LEMMA FillLastFacts ==
    ASSUME NEW k \in Kcb, NEW fit \in BOOLEAN, Within(k.snd_queue, k, fit),
           NEW more \in Data, Len(more) <= RoomInLast(k),
           NEW kept, kept = FillLast(k.snd_queue, more)
    PROVE  /\ kept \in Seq(Part) /\ Within(kept, k, fit)
           /\ Bytes(kept) = Bytes(k.snd_queue) \o more
           /\ more = <<>> => kept = k.snd_queue
<1> DEFINE queue == k.snd_queue
<1>1. queue \in Seq(Part) /\ more \in Seq(Byte) /\ Bytes(queue) \in Seq(Byte)
  <2>1. queue \in Seq(Part)
    BY DEF Kcb
  <2> QED
    BY <2>1, BytesType DEF Data
<1>2. CASE more = <<>>
  <2>1. kept = queue
    BY <1>2 DEF FillLast
  <2>2. Bytes(queue) \o more = Bytes(queue)
    BY <1>1, <1>2, ConcatEmptySeq
  <2> QED
    BY <1>1, <2>1, <2>2
<1>3. CASE more # <<>>
  <2>1. Len(more) \in Nat /\ Len(more) >= 1
    BY <1>1, <1>3, EmptySeq
  <2>2. queue # <<>> /\ RoomInLast(k) = Max({0, Mss(k) - Len(Last(queue).data)})
    <3>1. 0 \in Nat /\ Len(more) <= RoomInLast(k)
      OBVIOUS
    <3> QED
      BY <2>1, <3>1 DEF RoomInLast
  <2>3. PICK n \in Nat : n = Len(queue) /\ n >= 1
    BY <1>1, <2>2, EmptySeq
  <2>4. n \in 1 .. n /\ n - 1 \in 0 .. n /\ (n - 1) + 1 = n
    BY <2>3
  <2> DEFINE last == queue[n]
             new  == [frg |-> 0, data |-> last.data \o more]
             init == SubSeq(queue, 1, n - 1)
  <2>5. last \in Part /\ Last(queue) = last
    BY <1>1, <2>3, <2>4, ElementOfSeq DEF Last
  <2>6. last.data \in Data /\ last.data \in Seq(Byte)
    BY <2>5 DEF Part, Data
  <2>7. last.data \o more \in Seq(Byte) /\ Len(last.data \o more) = Len(last.data) + Len(more)
    BY <1>1, <2>6, ConcatProperties
  <2>8. Len(last.data \o more) <= Mss(k)
    <3>1. Mss(k) \in Nat /\ Len(last.data) \in Nat
      BY <2>6, MssFacts, LenProperties
    <3>2. RoomInLast(k) = IF 0 >= Mss(k) - Len(last.data) THEN 0 ELSE Mss(k) - Len(last.data)
      <4> HIDE DEF last
      <4>1. 0 \in Int /\ Mss(k) - Len(last.data) \in Int
        BY <3>1
      <4> QED
        BY <2>2, <2>5, <4>1, MaxOfTwo
    <3> QED
      BY <2>1, <2>7, <3>1, <3>2
  <2>9. new \in Part /\ new.frg = 0 /\ new.data = last.data \o more
    BY <2>7 DEF Part, Data
  <2>10. kept = init \o <<new>>
    <3>1. kept = Front(queue) \o <<[frg |-> 0, data |-> Last(queue).data \o more]>>
      BY <1>3 DEF FillLast
    <3>2. Front(queue) = init
      BY <2>3 DEF Front
    <3> QED
      BY <2>5, <3>1, <3>2
  <2>11. init \in Seq(Part) /\ Len(init) = n - 1 /\ \A i \in 1 .. n - 1 : init[i] = queue[i]
    BY <1>1, <2>3, <2>4, TakeElements
  <2>12. queue = init \o <<last>>
    <3>1. SubSeq(queue, 1, n) = SubSeq(queue, 1, n - 1) \o <<queue[n]>>
      <4>1. 1 \in 1 .. Len(queue) /\ n \in 1 .. Len(queue)
        BY <2>3
      <4> QED
        BY <1>1, <4>1, SubSeqRecursiveSecond
    <3>2. SubSeq(queue, 1, n) = queue
      BY <1>1, <2>3, SubSeqFull
    <3> QED
      BY <3>1, <3>2
  <2> HIDE DEF new, init, last, queue
  <2>13. /\ <<new>> \in Seq(Part) /\ Bytes(<<new>>) = last.data \o more
         /\ <<last>> \in Seq(Part) /\ Bytes(<<last>>) = last.data
    BY <2>5, <2>9, BytesOne
  <2>14. kept \in Seq(Part)
    BY <2>10, <2>11, <2>13, ConcatProperties
  <2>15. Bytes(kept) = Bytes(queue) \o more
    <3>1. Bytes(kept) = Bytes(init) \o (last.data \o more)
      BY <2>10, <2>11, <2>13, BytesConcat
    <3>2. Bytes(queue) = Bytes(init) \o last.data
      BY <2>11, <2>12, <2>13, BytesConcat
    <3>3. Bytes(init) \in Seq(Byte)
      BY <2>11, BytesType DEF Data
    <3>4. (Bytes(init) \o last.data) \o more = Bytes(init) \o (last.data \o more)
      <4>1. last.data \in Seq(Byte) /\ more \in Seq(Byte)
        BY <1>1, <2>6
      <4>2. \A u, v, w \in Seq(Byte) : (u \o v) \o w = u \o (v \o w)
        BY ConcatAssociative, SMTT(30)
      <4> QED
        BY <3>3, <4>1, <4>2
    <3> QED
      BY <3>1, <3>2, <3>4
  <2>16. Within(init, k, fit)
    <3>1. Within(queue, k, fit)
      BY DEF queue
    <3>2. \A i \in 1 .. n - 1 : i \in 1 .. Len(queue)
      BY <2>3
    <3> QED
      BY <2>11, <3>1, <3>2 DEF Within
  <2>17. Within(<<new>>, k, fit)
    <3>1. 0 < IKCP_WND_RCV
      BY Parameters
    <3>2. Len(<<new>>) = 1 /\ <<new>>[1] = new
      OBVIOUS
    <3>3. \A i \in 1 .. 1 : <<new>>[i] = new
      BY <3>2
    <3> QED
      BY <2>8, <2>9, <3>1, <3>2, <3>3 DEF Within
  <2>18. Within(kept, k, fit)
    BY <2>10, <2>11, <2>13, <2>16, <2>17, WithinConcat
  <2> QED
    BY <1>3, <2>14, <2>15, <2>18 DEF queue
<1> QED
  BY <1>2, <1>3

(* The segments of one message outside stream mode.                        *)
Message(segs, data) ==
    /\ segs \in Seq(Part) /\ Len(segs) >= 1 /\ Bytes(segs) = data
    /\ \A i \in 1 .. Len(segs) : segs[i].frg = Len(segs) - i

(* What a call of ikcp_send with data leaves.                              *)
SendsTo(r, k, data, queue, queued, fit) ==
    /\ r = [kcb |-> [k EXCEPT !.snd_queue = queue], queued |-> queued]
    /\ queue \in Seq(Part) /\ Within(queue, k, fit)
    /\ queued \in Seq(Data) /\ Bytes(queue) = Bytes(k.snd_queue) \o FlattenSeq(queued)
    /\ ~k.stream => \/ queue = k.snd_queue /\ queued = <<>>
                    \/ /\ queued = <<data>>
                       /\ \E segs : queue = k.snd_queue \o segs /\ Message(segs, data)

LEMMA FragmentsWithin ==
    ASSUME NEW k \in Kcb, NEW data \in Data, NEW fit \in BOOLEAN,
           NEW segs, segs = Fragments(data, Mss(k), k.stream), Len(segs) < IKCP_WND_RCV
    PROVE  segs \in Seq(Part) /\ Within(segs, k, fit) /\ (~k.stream => Message(segs, data))
<1>1. Mss(k) \in Nat /\ Mss(k) >= 1
  BY MssFacts
<1>2. PICK c : CutInto(c, segs, data, Mss(k), k.stream)
  BY <1>1, FragmentsParts
<1>3. Bytes(segs) = data
  BY <1>1, FragmentsBytes
<1>4. c \in Nat /\ c >= 1 /\ segs \in Seq(Part) /\ Len(segs) = c
  BY <1>2 DEF CutInto
<1>5. \A i \in 1 .. c : segs[i].frg = (IF k.stream THEN 0 ELSE c - i) /\ Len(segs[i].data) <= Mss(k)
  BY <1>2 DEF CutInto
<1>6. IKCP_WND_RCV \in Nat
  BY Parameters
<1>7. \A i \in 1 .. c : segs[i].frg < IKCP_WND_RCV
  BY <1>4, <1>5, <1>6
<1>8. Within(segs, k, fit)
  BY <1>4, <1>5, <1>7 DEF Within
<1>9. ~k.stream => Message(segs, data)
  BY <1>3, <1>4, <1>5 DEF Message
<1> QED
  BY <1>4, <1>8, <1>9

LEMMA SendGood ==
    ASSUME NEW k \in Kcb, NEW fit \in BOOLEAN, Within(k.snd_queue, k, fit), NEW data \in Data
    PROVE  \E queue, queued : SendsTo(ikcp_send(k, data), k, data, queue, queued, fit)
<1> DEFINE n    == Min({RoomInLast(k), Len(data)})
           more == SubSeq(data, 1, n)
           kept == FillLast(k.snd_queue, more)
           rest == SubSeq(data, n + 1, Len(data))
           segs == IF k.stream /\ rest = <<>> THEN <<>>
                   ELSE Fragments(rest, Mss(k), k.stream)
<1>1. /\ data \in Seq(Byte) /\ Len(data) \in Nat
      /\ k.snd_queue \in Seq(Part) /\ Bytes(k.snd_queue) \in Seq(Byte)
  <2>1. data \in Seq(Byte) /\ k.snd_queue \in Seq(Part)
    BY DEF Kcb, Data
  <2> QED
    BY <2>1, LenProperties, BytesType DEF Data
<1>2. RoomInLast(k) \in Nat /\ (~k.stream => RoomInLast(k) = 0)
  <2>1. CASE k.stream /\ k.snd_queue # <<>>
    <3>1. Last(k.snd_queue) \in Part
      <4>1. Len(k.snd_queue) \in Nat /\ Len(k.snd_queue) # 0
        BY <1>1, <2>1, EmptySeq
      <4>2. Len(k.snd_queue) \in 1 .. Len(k.snd_queue)
        BY <4>1
      <4> QED
        BY <1>1, <4>2, ElementOfSeq DEF Last
    <3>2. Last(k.snd_queue).data \in Seq(Byte)
      BY <3>1 DEF Part, Data
    <3>3. PICK a \in Nat, b \in Nat : a = Mss(k) /\ b = Len(Last(k.snd_queue).data)
      BY <3>2, MssFacts, LenProperties
    <3>4. RoomInLast(k) = Max({0, a - b})
      BY <2>1, <3>3 DEF RoomInLast
    <3>5. Max({0, a - b}) = IF 0 >= a - b THEN 0 ELSE a - b
      <4>1. 0 \in Int /\ a - b \in Int
        OBVIOUS
      <4> QED
        BY <4>1, MaxOfTwo
    <3> QED
      BY <2>1, <3>4, <3>5
  <2>2. CASE ~(k.stream /\ k.snd_queue # <<>>)
    BY <2>2 DEF RoomInLast
  <2> QED
    BY <2>1, <2>2
<1>3. n = IF RoomInLast(k) <= Len(data) THEN RoomInLast(k) ELSE Len(data)
  <2>1. RoomInLast(k) \in Int /\ Len(data) \in Int
    BY <1>1, <1>2
  <2> QED
    BY <2>1, MinOfTwo
<1> HIDE DEF n
<1>4. n \in Nat /\ n \in 0 .. Len(data) /\ n <= RoomInLast(k) /\ (~k.stream => n = 0)
  BY <1>1, <1>2, <1>3
<1>5. more \in Seq(Byte) /\ Len(more) = n
  BY <1>1, <1>4, TakeElements
<1>6. rest \in Seq(Byte) /\ Len(rest) = Len(data) - n
  BY <1>1, <1>4, DropElements
<1>7. more \o rest = data
  BY <1>1, <1>4, TakeAndDrop
<1>8. n = 0 => more = <<>> /\ rest = data
  <2> SUFFICES ASSUME n = 0 PROVE more = <<>> /\ rest = data
    OBVIOUS
  <2>1. more = <<>>
    BY <1>5, EmptySeq
  <2>2. rest = data
    BY <1>1, SubSeqFull
  <2> QED
    BY <2>1, <2>2
<1>9. ikcp_send(k, data) =
        IF Refused(segs)
        THEN [kcb |-> [k EXCEPT !.snd_queue = kept],
              queued |-> IF n = 0 THEN <<>> ELSE <<more>>]
        ELSE [kcb |-> [k EXCEPT !.snd_queue = kept \o segs], queued |-> <<data>>]
  BY DEF ikcp_send, Rest, n
<1> HIDE DEF more, rest
<1>10. more \in Data /\ rest \in Data /\ Len(more) <= RoomInLast(k)
  BY <1>4, <1>5, <1>6 DEF Data
<1>11. /\ kept \in Seq(Part) /\ Within(kept, k, fit) /\ Bytes(kept) = Bytes(k.snd_queue) \o more
       /\ more = <<>> => kept = k.snd_queue
  BY <1>10, FillLastFacts
<1> HIDE DEF kept, segs
<1>12. CASE Refused(segs)
  <2>1. CASE n = 0
    <3>1. ikcp_send(k, data) = [kcb |-> [k EXCEPT !.snd_queue = kept], queued |-> <<>>]
      BY <1>9, <1>12, <2>1
    <3>2. kept = k.snd_queue
      BY <1>8, <1>11, <2>1
    <3>3. <<>> \in Seq(Data) /\ Bytes(kept) = Bytes(k.snd_queue) \o FlattenSeq(<<>>)
      BY <1>1, <3>2, FlattenEmpty, EmptySeq, ConcatEmptySeq
    <3>4. SendsTo(ikcp_send(k, data), k, data, kept, <<>>, fit)
      BY <1>11, <3>1, <3>2, <3>3 DEF SendsTo
    <3> QED
      BY <3>4
  <2>2. CASE n # 0
    <3>1. ikcp_send(k, data) = [kcb |-> [k EXCEPT !.snd_queue = kept], queued |-> <<more>>]
      BY <1>9, <1>12, <2>2
    <3>2. <<more>> \in Seq(Data) /\ FlattenSeq(<<more>>) = more
      BY <1>5, <1>10, FlattenOne
    <3>3. k.stream
      BY <1>4, <2>2
    <3>4. SendsTo(ikcp_send(k, data), k, data, kept, <<more>>, fit)
      BY <1>11, <3>1, <3>2, <3>3 DEF SendsTo
    <3> QED
      BY <3>4
  <2> QED
    BY <2>1, <2>2
<1>13. CASE ~Refused(segs)
  <2>1. ikcp_send(k, data) = [kcb |-> [k EXCEPT !.snd_queue = kept \o segs], queued |-> <<data>>]
    BY <1>9, <1>13
  <2>2. <<data>> \in Seq(Data) /\ FlattenSeq(<<data>>) = data
    BY <1>1, FlattenOne
  <2>3. /\ segs \in Seq(Part) /\ Within(segs, k, fit) /\ Bytes(segs) = rest
        /\ ~k.stream => Message(segs, rest)
    <3>1. CASE k.stream /\ rest = <<>>
      <4>1. segs = <<>>
        BY <3>1 DEF segs
      <4>2. <<>> \in Seq(Part) /\ Len(<<>>) = 0
        BY EmptySeq
      <4>3. Within(<<>>, k, fit)
        BY <4>2 DEF Within
      <4> QED
        BY <3>1, <4>1, <4>2, <4>3, BytesEmpty
    <3>2. CASE ~(k.stream /\ rest = <<>>)
      <4>1. segs = Fragments(rest, Mss(k), k.stream)
        BY <3>2 DEF segs
      <4>2. segs \in Seq(Part)
        <5>1. Mss(k) \in Nat /\ Mss(k) >= 1
          BY MssFacts
        <5>2. PICK c : CutInto(c, segs, rest, Mss(k), k.stream)
          BY <1>10, <4>1, <5>1, FragmentsParts
        <5> QED
          BY <5>2 DEF CutInto
      <4>3. Len(segs) < IKCP_WND_RCV
        <5>1. Len(segs) \in Nat /\ IKCP_WND_RCV \in Nat
          BY <4>2, LenProperties, Parameters
        <5> QED
          BY <1>13, <5>1 DEF Refused
      <4>4. segs \in Seq(Part) /\ Within(segs, k, fit) /\ (~k.stream => Message(segs, rest))
        BY <1>10, <4>1, <4>3, FragmentsWithin
      <4>5. Bytes(segs) = rest
        <5>1. Mss(k) \in Nat /\ Mss(k) >= 1
          BY MssFacts
        <5> QED
          BY <1>10, <4>1, <5>1, FragmentsBytes
      <4> QED
        BY <4>4, <4>5
    <3> QED
      BY <3>1, <3>2
  <2>4. kept \o segs \in Seq(Part)
    BY <1>11, <2>3, ConcatProperties
  <2>5. Within(kept \o segs, k, fit)
    BY <1>11, <2>3, WithinConcat
  <2>6. Bytes(kept \o segs) = Bytes(k.snd_queue) \o data
    <3>1. Bytes(kept \o segs) = (Bytes(k.snd_queue) \o more) \o rest
      BY <1>11, <2>3, BytesConcat
    <3>2. \A u, v, w \in Seq(Byte) : (u \o v) \o w = u \o (v \o w)
      BY ConcatAssociative, SMTT(30)
    <3> QED
      BY <1>1, <1>5, <1>6, <1>7, <3>1, <3>2, ZenonT(60)
  <2>7. ASSUME ~k.stream
        PROVE  \E s : kept \o segs = k.snd_queue \o s /\ Message(s, data)
    <3>1. kept = k.snd_queue /\ rest = data
      BY <1>4, <1>8, <1>11, <2>7
    <3> QED
      BY <2>3, <2>7, <3>1
  <2>8. SendsTo(ikcp_send(k, data), k, data, kept \o segs, <<data>>, fit)
    BY <2>1, <2>2, <2>4, <2>5, <2>6, <2>7 DEF SendsTo
  <2> QED
    BY <2>8
<1> QED
  BY <1>12, <1>13

-----------------------------------------------------------------------------
(* The endpoint whose peer gives numbers to more segments.                 *)

LEMMA DatagramMore ==
    ASSUME NEW line \in Seq(Part), NEW more \in Seq(Part), NEW d, Datagram(d, line)
    PROVE  Datagram(d, line \o more)
<1>1. ASSUME NEW s \in Segment(line) PROVE s \in Segment(line \o more)
  <2>1. s \in Wire /\ (s.cmd = "PUSH" => s.data \in Data /\ Carries(s, line))
    BY DEF Segment
  <2>2. s.sn \in Nat
    BY <2>1 DEF Wire
  <2>3. Carries(s, line) => Carries(s, line \o more)
    BY <2>2, CarriesMore
  <2> QED
    BY <2>1, <2>3 DEF Segment
<1>2. Segment(line) \subseteq Segment(line \o more)
  BY <1>1
<1> QED
  BY <1>2, SeqOfMore DEF Datagram

LEMMA GoodMore ==
    ASSUME NEW mine, NEW theirs \in Seq(Part), NEW more \in Seq(Part), NEW k,
           Good(k, mine, theirs)
    PROVE  Good(k, mine, theirs \o more)
<1>1. /\ k \in Kcb /\ Snd(k, mine) /\ Taken(k) >= 0 /\ k.rcv_nxt <= Len(theirs)
      /\ Len(k.rcv_queue) <= RcvWnd /\ Slice(k.rcv_queue, theirs, Taken(k))
      /\ Listed(k.rcv_buf, theirs)
  BY DEF Good, Rcv
<1>2. k.rcv_nxt \in Nat /\ k.rcv_queue \in Seq(Part) /\ k.rcv_buf \in Seq(Arrived)
  BY <1>1 DEF Kcb
<1>3. PICK n \in Nat, r \in Nat, m \in Nat, l \in Nat :
         n = Len(theirs) /\ r = k.rcv_nxt /\ m = Len(k.rcv_queue) /\ l = Len(more)
  BY <1>2, LenProperties
<1>4. Taken(k) = r - m /\ r - m >= 0 /\ r <= n
  BY <1>1, <1>3 DEF Taken
<1> DEFINE line == theirs \o more
<1>5. Len(line) = n + l /\ \A i \in 1 .. n : line[i] = theirs[i]
  <2>1. /\ Len(theirs \o more) = Len(theirs) + Len(more)
        /\ \A i \in 1 .. Len(theirs) + Len(more) :
             (theirs \o more)[i] = IF i <= Len(theirs) THEN theirs[i] ELSE more[i - Len(theirs)]
    BY ConcatProperties
  <2>2. \A i \in 1 .. n : i \in 1 .. n + l /\ i <= n
    OBVIOUS
  <2> QED
    BY <1>3, <2>1, <2>2
<1>6. Listed(k.rcv_buf, line)
  <2>1. Arrived \subseteq Numbered
    BY DEF Numbered
  <2> QED
    BY <1>1, <1>2, <2>1, ListedMore
<1> HIDE DEF line
<1>7. Slice(k.rcv_queue, line, Taken(k))
  <2>1. ASSUME NEW i \in 1 .. m PROVE k.rcv_queue[i] = line[(r - m) + i]
    <3>1. (r - m) + i \in 1 .. n
      BY <1>4
    <3>2. k.rcv_queue[i] = theirs[(r - m) + i]
      BY <1>1, <1>3, <1>4 DEF Slice
    <3> QED
      BY <1>5, <3>1, <3>2
  <2> QED
    BY <1>3, <1>4, <2>1 DEF Slice
<1>8. k.rcv_nxt <= Len(line)
  BY <1>3, <1>4, <1>5
<1>9. Good(k, mine, line)
  BY <1>1, <1>6, <1>7, <1>8 DEF Good, Rcv
<1> QED
  BY <1>9 DEF line

-----------------------------------------------------------------------------
(* What the messages written and received have to do with the segments.    *)

LEMMA TakenFacts ==
    ASSUME NEW mine, NEW theirs \in Seq(Part), NEW k, Good(k, mine, theirs)
    PROVE  /\ Taken(k) \in 0 .. Len(theirs) /\ Len(k.rcv_queue) \in Nat
           /\ Taken(k) + Len(k.rcv_queue) <= Len(theirs)
<1>1. k.rcv_nxt \in Nat /\ k.rcv_queue \in Seq(Part)
  BY DEF Good, Kcb
<1>2. Taken(k) >= 0 /\ k.rcv_nxt <= Len(theirs)
  BY DEF Good, Rcv
<1>3. PICK r \in Nat, m \in Nat, n \in Nat :
         r = k.rcv_nxt /\ m = Len(k.rcv_queue) /\ n = Len(theirs)
  BY <1>1, LenProperties
<1>4. Taken(k) = r - m
  BY <1>3 DEF Taken
<1> QED
  BY <1>2, <1>3, <1>4

(* Another control block in the same mode, with a mss that is not smaller. *)
LEMMA QueuedOther ==
    ASSUME NEW k, NEW all, NEW t, NEW ms, NEW gs, NEW fit \in BOOLEAN,
           Queued(k, all, t, ms, gs, fit),
           NEW next, next.stream = k.stream, all \in Seq(Part),
           fit => Mss(k) \in Nat /\ Mss(next) \in Nat /\ Mss(next) >= Mss(k)
    PROVE  Queued(next, all, t, ms, gs, fit)
<1>1. Within(all, k, fit)
  BY DEF Queued
<1>2. ASSUME NEW i \in 1 .. Len(all)
      PROVE  all[i].frg < IKCP_WND_RCV /\ (fit => Len(all[i].data) <= Mss(next))
  <2>1. all[i].frg < IKCP_WND_RCV /\ (fit => Len(all[i].data) <= Mss(k))
    BY <1>1 DEF Within
  <2>2. Len(all[i].data) \in Nat
    <3>1. all[i] \in Part
      BY ElementOfSeq
    <3>2. all[i].data \in Seq(Byte)
      BY <3>1 DEF Part, Data
    <3> QED
      BY <3>2, LenProperties
  <2>3. ASSUME fit PROVE Len(all[i].data) <= Mss(next)
    BY <2>1, <2>2, <2>3
  <2> QED
    BY <2>1, <2>3
<1>3. Within(all, next, fit)
  BY <1>2 DEF Within
<1> QED
  BY <1>3 DEF Queued

(* What ikcp_peeksize and ikcp_recv take for the end of a message is one.  *)
LEMMA CutsRecv ==
    ASSUME NEW all \in Seq(Part), NEW ms \in Seq(Data), NEW gs \in Seq(Data),
           NEW t \in Nat, NEW b, Cuts(b, all, ms, gs, t),
           NEW parts \in Seq(Part), t + Len(parts) <= Len(all), Slice(parts, all, t),
           Len(parts) >= 1, Len(parts) >= parts[1].frg + 1,
           NEW n \in 1 .. Len(parts),
           \A i \in 1 .. Len(parts) : parts[i].frg = 0 => n <= i /\ parts[n].frg = 0,
           NEW data \in Data, data = Bytes(SubSeq(all, t + 1, t + n))
    PROVE  Cuts(b, all, ms, Append(gs, data), t + n)
<1>1. PICK m \in Nat, l \in Nat, g \in Nat, a \in Nat :
         m = Len(parts) /\ l = Len(ms) /\ g = Len(gs) /\ a = Len(all)
  BY LenProperties
<1>2. /\ b \in [0 .. l -> Nat] /\ b[0] = 0 /\ b[l] = a
      /\ \A j \in 1 .. l :
           /\ b[j - 1] < b[j] /\ b[j] <= a
           /\ \A i \in b[j - 1] + 1 .. b[j] : all[i].frg = b[j] - i
           /\ Bytes(SubSeq(all, b[j - 1] + 1, b[j])) = ms[j]
      /\ g <= l /\ t = b[g]
      /\ \A j \in 1 .. g : gs[j] = ms[j]
  BY <1>1 DEF Cuts
<1>3. g # l
  BY <1>1, <1>2
<1>4. PICK j \in 1 .. l : j = g + 1 /\ j - 1 = g
  BY <1>2, <1>3
<1>5. PICK e \in Nat : e = b[j]
  <2>1. j \in 0 .. l
    BY <1>4
  <2> QED
    BY <1>2, <2>1
<1>6. /\ t < e /\ e <= a /\ \A i \in t + 1 .. e : all[i].frg = e - i
      /\ Bytes(SubSeq(all, t + 1, e)) = ms[j]
  BY <1>2, <1>4, <1>5
<1>7. \A i \in 1 .. m : parts[i] = all[t + i]
  BY <1>1 DEF Slice
<1>8. \A i \in 1 .. m : t + i <= e => parts[i].frg = e - (t + i)
  <2> SUFFICES ASSUME NEW i \in 1 .. m, t + i <= e PROVE parts[i].frg = e - (t + i)
    OBVIOUS
  <2>1. t + i \in t + 1 .. e
    OBVIOUS
  <2> QED
    BY <1>6, <1>7, <2>1
<1>9. m >= e - t
  <2>1. 1 \in 1 .. m /\ t + 1 <= e
    BY <1>1, <1>6
  <2>2. parts[1].frg = e - (t + 1)
    BY <1>8, <2>1
  <2>3. m >= (e - (t + 1)) + 1
    BY <1>1, <2>2
  <2> QED
    BY <2>3
<1>10. n = e - t
  <2>1. PICK i \in 1 .. m : i = e - t /\ t + i = e
    BY <1>6, <1>9
  <2>2. parts[i].frg = 0
    <3>1. parts[i].frg = e - (t + i)
      BY <1>8, <2>1
    <3>2. e - (t + i) = 0
      BY <2>1
    <3> QED
      BY <3>1, <3>2
  <2>3. n <= i /\ parts[n].frg = 0
    BY <1>1, <2>2
  <2>4. n \in 1 .. m
    BY <1>1
  <2>5. parts[n].frg = e - (t + n)
    BY <1>8, <2>1, <2>3, <2>4
  <2> QED
    BY <2>1, <2>3, <2>4, <2>5
<1>11. t + n = e /\ data = ms[j]
  BY <1>6, <1>10
<1> DEFINE more == Append(gs, data)
<1>12. Len(more) = j /\ j <= l /\ \A i \in 1 .. j : more[i] = ms[i]
  <2>1. Len(more) = g + 1 /\ more[g + 1] = data /\ \A i \in 1 .. g : more[i] = gs[i]
    BY <1>1, AppendProperties
  <2> HIDE DEF more
  <2>2. ASSUME NEW i \in 1 .. j PROVE more[i] = ms[i]
    <3>1. CASE i = j
      BY <1>4, <1>11, <2>1, <3>1
    <3>2. CASE i # j
      <4>1. i \in 1 .. g
        BY <1>4, <3>2
      <4> QED
        BY <1>2, <2>1, <4>1
    <3> QED
      BY <3>1, <3>2
  <2> QED
    BY <1>4, <2>1, <2>2
<1> HIDE DEF more
<1>13. Cuts(b, all, ms, more, t + n)
  BY <1>1, <1>2, <1>5, <1>11, <1>12 DEF Cuts
<1> QED
  BY <1>13 DEF more

(* The segments ikcp_recv merges, as part of all.                          *)
LEMMA RecvFacts ==
    ASSUME NEW mine, NEW all \in Seq(Part), NEW k, Good(k, mine, all)
    PROVE  /\ Taken(k) \in Nat /\ k.rcv_queue \in Seq(Part)
           /\ Taken(k) + Len(k.rcv_queue) <= Len(all) /\ Slice(k.rcv_queue, all, Taken(k))
<1>1. Taken(k) \in 0 .. Len(all) /\ Taken(k) + Len(k.rcv_queue) <= Len(all)
  BY TakenFacts
<1>2. k.rcv_queue \in Seq(Part) /\ Slice(k.rcv_queue, all, Taken(k))
  BY DEF Good, Kcb, Rcv
<1> QED
  BY <1>1, <1>2

LEMMA RecvParts ==
    ASSUME NEW all \in Seq(Part), NEW queue \in Seq(Part), NEW t \in Nat,
           t + Len(queue) <= Len(all), Slice(queue, all, t), NEW n \in 0 .. Len(queue)
    PROVE  SubSeq(queue, 1, n) = SubSeq(all, t + 1, t + n)
<1>1. PICK m \in Nat, a \in Nat : m = Len(queue) /\ a = Len(all) /\ t + m <= a
  BY LenProperties
<1> DEFINE left  == SubSeq(queue, 1, n)
           right == SubSeq(all, t + 1, t + n)
<1>2. left \in Seq(Part) /\ Len(left) = n /\ \A i \in 1 .. n : left[i] = queue[i]
  BY TakeElements
<1>3. right \in Seq(Part) /\ Len(right) = n /\ \A i \in 1 .. n : right[i] = all[t + i]
  <2>1. n \in Nat /\ t + n <= Len(all)
    BY <1>1
  <2> QED
    BY <2>1, MiddleElements
<1> HIDE DEF left, right
<1>4. \A i \in 1 .. n : left[i] = right[i]
  <2>1. \A i \in 1 .. n : i \in 1 .. m
    BY <1>1
  <2>2. \A i \in 1 .. m : queue[i] = all[t + i]
    BY <1>1 DEF Slice
  <2> QED
    BY <1>2, <1>3, <2>1, <2>2
<1>5. left = right
  BY <1>2, <1>3, <1>4, SeqEqual
<1> QED
  BY <1>5 DEF left, right

LEMMA QueuedRecv ==
    ASSUME NEW mine, NEW all \in Seq(Part), NEW k, Good(k, mine, all), MessageReady(k),
           NEW w, NEW ms \in Seq(Data), NEW gs \in Seq(Data),
           NEW fit \in BOOLEAN, Queued(w, all, Taken(k), ms, gs, fit),
           NEW data, data = ikcp_recv(k).data
    PROVE  data \in Data /\ Queued(w, all, Taken(k) + Merged(k), ms, Append(gs, data), fit)
<1> DEFINE n == Merged(k)
           t == Taken(k)
           parts == k.rcv_queue
<1>1. k \in Kcb
  BY DEF Good
<1>2. parts # <<>> /\ Len(parts) >= Head(parts).frg + 1
  BY DEF MessageReady
<1>3. /\ n \in 0 .. Len(parts) /\ n \in 1 .. Len(parts)
      /\ \A i \in 1 .. Len(parts) : parts[i].frg = 0 => n <= i /\ parts[n].frg = 0
  BY <1>1, <1>2, MergedFacts
<1> HIDE DEF n
<1>4. /\ t \in Nat /\ parts \in Seq(Part)
      /\ t + Len(parts) <= Len(all) /\ Slice(parts, all, t)
      /\ SubSeq(parts, 1, n) = SubSeq(all, t + 1, t + n)
  <2>1. /\ t \in Nat /\ parts \in Seq(Part)
        /\ t + Len(parts) <= Len(all) /\ Slice(parts, all, t)
    BY RecvFacts
  <2> HIDE DEF t, parts
  <2>2. SubSeq(parts, 1, n) = SubSeq(all, t + 1, t + n)
    BY <1>3, <2>1, RecvParts
  <2> QED
    BY <2>1, <2>2
<1>5. data = Bytes(SubSeq(parts, 1, n))
  BY DEF ikcp_recv, n
<1>6. SubSeq(parts, 1, n) \in Seq(Part)
  BY <1>3, <1>4, TakeElements
<1>7. data \in Data /\ data \in Seq(Byte) /\ data = Bytes(SubSeq(all, t + 1, t + n))
  BY <1>4, <1>5, <1>6, BytesType DEF Data
<1> HIDE DEF t
<1>8. PICK a \in Nat, m \in Nat : a = Len(all) /\ m = Len(parts) /\ m >= 1 /\ t + n <= a /\ n \in Nat
  <2>1. Len(all) \in Nat /\ Len(parts) \in Nat
    BY <1>4, LenProperties
  <2> QED
    BY <1>3, <1>4, <2>1
<1>9. Bytes(SubSeq(all, 1, t + n)) = FlattenSeq(Append(gs, data))
  <2>1. SubSeq(all, 1, t) \o SubSeq(all, t + 1, t + n) = SubSeq(all, 1, t + n)
    <3>1. 1 \in 1 .. Len(all) + 1 /\ t \in 1 - 1 .. Len(all) /\ t + n \in t .. Len(all)
      BY <1>4, <1>8
    <3> QED
      BY <1>4, <3>1, ConcatAdjacentSubSeq
  <2>2. SubSeq(all, 1, t) \in Seq(Part) /\ SubSeq(all, t + 1, t + n) \in Seq(Part)
    <3>1. t \in 0 .. Len(all)
      BY <1>4, <1>8
    <3>2. SubSeq(all, 1, t) \in Seq(Part)
      BY <1>4, <3>1, TakeElements
    <3> QED
      BY <1>4, <1>6, <3>2
  <2>3. Bytes(SubSeq(all, 1, t + n)) = Bytes(SubSeq(all, 1, t)) \o data
    BY <1>7, <2>1, <2>2, BytesConcat
  <2>4. Bytes(SubSeq(all, 1, t)) = FlattenSeq(gs)
    BY DEF Queued, t
  <2>5. gs \in Seq(Seq(Byte))
    BY DEF Data
  <2>6. FlattenSeq(Append(gs, data)) = FlattenSeq(gs) \o data
    BY <1>7, <2>5, FlattenAppend
  <2> QED
    BY <2>3, <2>4, <2>6
<1>10. ASSUME ~w.stream PROVE \E b : Cuts(b, all, ms, Append(gs, data), t + n)
  <2>1. PICK b : Cuts(b, all, ms, gs, t)
    BY <1>10 DEF Queued, t
  <2>2. Len(parts) >= 1 /\ Len(parts) >= parts[1].frg + 1
    BY <1>2, <1>4, <1>8
  <2> HIDE DEF parts
  <2>3. Cuts(b, all, ms, Append(gs, data), t + n)
    BY <1>3, <1>4, <1>7, <2>1, <2>2, CutsRecv
  <2> QED
    BY <2>3
<1>11. Within(all, w, fit) /\ Bytes(all) = FlattenSeq(ms)
  BY DEF Queued
<1>12. Queued(w, all, t + n, ms, Append(gs, data), fit)
  BY <1>9, <1>10, <1>11 DEF Queued
<1> QED
  BY <1>7, <1>12 DEF t, n

(* A message is cut off at the end.                                        *)
LEMMA CutsSend ==
    ASSUME NEW all \in Seq(Part), NEW ms \in Seq(Data), NEW gs \in Seq(Data), NEW t,
           NEW b, Cuts(b, all, ms, gs, t), NEW segs, NEW data \in Data, Message(segs, data)
    PROVE  \E c : Cuts(c, all \o segs, Append(ms, data), gs, t)
<1>1. segs \in Seq(Part)
  BY DEF Message
<1>2. PICK l \in Nat, g \in Nat, a \in Nat, s \in Nat :
         l = Len(ms) /\ g = Len(gs) /\ a = Len(all) /\ s = Len(segs)
  BY <1>1, LenProperties
<1>3. s >= 1 /\ Bytes(segs) = data /\ \A i \in 1 .. s : segs[i].frg = s - i
  BY <1>2 DEF Message
<1>4. /\ b \in [0 .. l -> Nat] /\ b[0] = 0 /\ b[l] = a
      /\ \A j \in 1 .. l :
           /\ b[j - 1] < b[j] /\ b[j] <= a
           /\ \A i \in b[j - 1] + 1 .. b[j] : all[i].frg = b[j] - i
           /\ Bytes(SubSeq(all, b[j - 1] + 1, b[j])) = ms[j]
      /\ g <= l /\ t = b[g]
      /\ \A j \in 1 .. g : gs[j] = ms[j]
  BY <1>2 DEF Cuts
<1> DEFINE line == all \o segs
           more == Append(ms, data)
           c    == [j \in 0 .. l + 1 |-> IF j = l + 1 THEN a + s ELSE b[j]]
<1>5. /\ line \in Seq(Part) /\ Len(line) = a + s
      /\ \A i \in 1 .. a : line[i] = all[i]
      /\ \A i \in a + 1 .. a + s : line[i] = segs[i - a]
  <2>1. /\ all \o segs \in Seq(Part) /\ Len(all \o segs) = Len(all) + Len(segs)
        /\ \A i \in 1 .. Len(all) + Len(segs) :
             (all \o segs)[i] = IF i <= Len(all) THEN all[i] ELSE segs[i - Len(all)]
    BY <1>1, ConcatProperties
  <2> HIDE DEF line
  <2>2. Len(line) = a + s /\ \A i \in 1 .. a + s : line[i] = IF i <= a THEN all[i] ELSE segs[i - a]
    BY <1>2, <2>1 DEF line
  <2> QED
    BY <2>1, <2>2, SMTT(30) DEF line
<1>6. Len(more) = l + 1 /\ more[l + 1] = data /\ \A j \in 1 .. l : more[j] = ms[j]
  BY <1>2, AppendProperties
<1>7. /\ c \in [0 .. l + 1 -> Nat] /\ c[l + 1] = a + s
      /\ \A j \in 0 .. l : c[j] = b[j] /\ b[j] \in Nat
  <2>1. ASSUME NEW j \in 0 .. l PROVE j \in 0 .. l + 1 /\ j # l + 1 /\ b[j] \in Nat
    <3>1. b \in [0 .. l -> Nat]
      BY <1>4
    <3> QED
      BY <3>1
  <2>2. l + 1 \in 0 .. l + 1
    OBVIOUS
  <2>3. \A j \in 0 .. l + 1 : j # l + 1 => j \in 0 .. l
    OBVIOUS
  <2> QED
    BY <2>1, <2>2, <2>3
<1> HIDE DEF c, more, line
<1>8. ASSUME NEW j \in 1 .. l + 1
      PROVE  /\ c[j - 1] < c[j] /\ c[j] <= a + s
             /\ \A i \in c[j - 1] + 1 .. c[j] : line[i].frg = c[j] - i
             /\ Bytes(SubSeq(line, c[j - 1] + 1, c[j])) = more[j]
  <2>1. CASE j = l + 1
    <3>1. c[j - 1] = a /\ c[j] = a + s /\ more[j] = data
      <4>1. l \in 0 .. l /\ j - 1 = l
        BY <2>1
      <4> QED
        BY <1>4, <1>6, <1>7, <2>1, <4>1
    <3>2. \A i \in a + 1 .. a + s : line[i].frg = (a + s) - i
      <4>1. \A i \in a + 1 .. a + s : i - a \in 1 .. s /\ s - (i - a) = (a + s) - i
        OBVIOUS
      <4> QED
        BY <1>3, <1>5, <4>1
    <3>3. SubSeq(line, a + 1, a + s) = segs
      <4>1. a + 1 \in Len(all) + 1 .. Len(all) + Len(segs)
            /\ a + s \in Len(all) + 1 .. Len(all) + Len(segs)
        BY <1>2, <1>3
      <4>2. SubSeq(all \o segs, a + 1, a + s) = SubSeq(segs, (a + 1) - Len(all), (a + s) - Len(all))
        BY <1>1, <4>1, SubSeqOfConcat2
      <4>3. (a + 1) - Len(all) = 1 /\ (a + s) - Len(all) = Len(segs)
        BY <1>2
      <4>4. SubSeq(segs, 1, Len(segs)) = segs
        BY <1>1, SubSeqFull
      <4> QED
        BY <4>2, <4>3, <4>4 DEF line
    <3>4. a < a + s /\ a + s <= a + s
      BY <1>3
    <3> QED
      BY <1>3, <3>1, <3>2, <3>3, <3>4
  <2>2. CASE j # l + 1
    <3>1. j \in 1 .. l /\ j \in 0 .. l /\ j - 1 \in 0 .. l
      BY <2>2
    <3>2. PICK lo \in Nat, hi \in Nat :
             lo = b[j - 1] /\ hi = b[j] /\ lo = c[j - 1] /\ hi = c[j]
      BY <1>7, <3>1
    <3>3. /\ lo < hi /\ hi <= a /\ \A i \in lo + 1 .. hi : all[i].frg = hi - i
          /\ Bytes(SubSeq(all, lo + 1, hi)) = ms[j]
      BY <1>4, <3>1, <3>2, ZenonT(60)
    <3>4. \A i \in lo + 1 .. hi : line[i].frg = hi - i
      <4>1. \A i \in lo + 1 .. hi : i \in 1 .. a
        BY <3>3
      <4> QED
        BY <1>5, <3>3, <4>1
    <3>5. SubSeq(line, lo + 1, hi) = SubSeq(all, lo + 1, hi)
      <4>1. lo + 1 \in 1 .. Len(all) /\ hi \in 1 .. Len(all)
        BY <1>2, <3>3
      <4> QED
        BY <1>1, <4>1, SubSeqOfConcat1 DEF line
    <3>6. hi <= a + s
      BY <3>3
    <3>7. more[j] = ms[j]
      BY <1>6, <3>1
    <3> QED
      BY <3>2, <3>3, <3>4, <3>5, <3>6, <3>7
  <2> QED
    BY <2>1, <2>2
<1>9. c[0] = 0 /\ t = c[g] /\ g <= l + 1
  <2>1. 0 \in 0 .. l /\ g \in 0 .. l
    BY <1>4
  <2> QED
    BY <1>4, <1>7, <2>1
<1>10. \A j \in 1 .. g : gs[j] = more[j]
  <2>1. \A j \in 1 .. g : j \in 1 .. l
    BY <1>4
  <2> QED
    BY <1>4, <1>6, <2>1
<1>11. Cuts(c, line, more, gs, t)
  BY <1>2, <1>5, <1>6, <1>7, <1>8, <1>9, <1>10 DEF Cuts
<1> QED
  BY <1>11 DEF line, more

LEMMA QueuedSend ==
    ASSUME NEW k \in Kcb, NEW line \in Seq(Part),
           NEW t \in 0 .. Len(line), NEW ms \in Seq(Data), NEW gs \in Seq(Data),
           NEW fit \in BOOLEAN, Queued(k, line \o k.snd_queue, t, ms, gs, fit),
           NEW data \in Data
    PROVE  \E queue, queued : /\ SendsTo(ikcp_send(k, data), k, data, queue, queued, fit)
                              /\ Queued(k, line \o queue, t, ms \o queued, gs, fit)
<1> DEFINE all == line \o k.snd_queue
<1>1. k.snd_queue \in Seq(Part)
  BY DEF Kcb
<1>2. Within(line, k, fit) /\ Within(k.snd_queue, k, fit)
  <2>1. Within(line \o k.snd_queue, k, fit)
    BY DEF Queued
  <2> QED
    BY <1>1, <2>1, WithinTail, WithinHead
<1>3. PICK queue, queued : SendsTo(ikcp_send(k, data), k, data, queue, queued, fit)
  BY <1>2, SendGood
<1>4. /\ queue \in Seq(Part) /\ Within(queue, k, fit) /\ queued \in Seq(Data)
      /\ Bytes(queue) = Bytes(k.snd_queue) \o FlattenSeq(queued)
      /\ ~k.stream => \/ queue = k.snd_queue /\ queued = <<>>
                      \/ /\ queued = <<data>>
                         /\ \E segs : queue = k.snd_queue \o segs /\ Message(segs, data)
  BY <1>3 DEF SendsTo
<1> DEFINE new == line \o queue
<1>5. Within(new, k, fit)
  BY <1>2, <1>4, WithinConcat
<1>6. Bytes(new) = FlattenSeq(ms \o queued)
  <2>1. /\ Bytes(new) = Bytes(line) \o Bytes(queue)
        /\ Bytes(all) = Bytes(line) \o Bytes(k.snd_queue)
    BY <1>1, <1>4, BytesConcat
  <2>2. ms \in Seq(Seq(Byte)) /\ queued \in Seq(Seq(Byte))
    BY <1>4 DEF Data
  <2>3. FlattenSeq(ms \o queued) = FlattenSeq(ms) \o FlattenSeq(queued)
    BY <2>2, FlattenConcat
  <2>4. Bytes(line) \in Seq(Byte) /\ Bytes(k.snd_queue) \in Seq(Byte)
    BY <1>1, BytesType DEF Data
  <2>5. FlattenSeq(queued) \in Seq(Byte)
    BY <2>2, FlattenType
  <2>6. \A u, v, w \in Seq(Byte) : (u \o v) \o w = u \o (v \o w)
    BY ConcatAssociative, SMTT(30)
  <2>7. Bytes(all) = FlattenSeq(ms)
    BY DEF Queued
  <2> HIDE DEF new
  <2>8. (Bytes(line) \o Bytes(k.snd_queue)) \o FlattenSeq(queued)
        = Bytes(line) \o (Bytes(k.snd_queue) \o FlattenSeq(queued))
    BY <2>4, <2>5, <2>6
  <2> QED
    BY <1>4, <2>1, <2>3, <2>7, <2>8
<1>7. Bytes(SubSeq(new, 1, t)) = FlattenSeq(gs)
  <2>1. SubSeq(line \o queue, 1, t) = SubSeq(line, 1, t)
    BY <1>4, TakeOfConcat
  <2>2. SubSeq(line \o k.snd_queue, 1, t) = SubSeq(line, 1, t)
    BY <1>1, TakeOfConcat
  <2> QED
    BY <2>1, <2>2 DEF Queued
<1>8. ASSUME ~k.stream PROVE \E c : Cuts(c, new, ms \o queued, gs, t)
  <2>1. PICK b : Cuts(b, all, ms, gs, t)
    BY <1>8 DEF Queued
  <2>2. CASE queue = k.snd_queue /\ queued = <<>>
    <3>1. ms \o queued = ms
      BY <2>2, ConcatEmptySeq
    <3> QED
      BY <2>1, <2>2, <3>1
  <2>3. CASE /\ queued = <<data>>
             /\ \E segs : queue = k.snd_queue \o segs /\ Message(segs, data)
    <3>1. PICK segs : queue = k.snd_queue \o segs /\ Message(segs, data)
      BY <2>3
    <3>2. segs \in Seq(Part)
      BY <3>1 DEF Message
    <3>3. new = all \o segs /\ all \in Seq(Part)
      <4>1. (line \o k.snd_queue) \o segs = line \o (k.snd_queue \o segs)
        <5>1. \A u, v, w \in Seq(Part) : (u \o v) \o w = u \o (v \o w)
          BY ConcatAssociative, SMTT(30)
        <5> QED
          BY <1>1, <3>2, <5>1
      <4> QED
        BY <1>1, <3>1, <4>1, ConcatProperties
    <3>4. ms \o queued = Append(ms, data)
      BY <2>3, AppendIsConcat
    <3>5. \E c : Cuts(c, all \o segs, Append(ms, data), gs, t)
      BY <2>1, <3>1, <3>3, CutsSend
    <3> QED
      BY <3>3, <3>4, <3>5
  <2> QED
    BY <1>4, <1>8, <2>2, <2>3
<1>9. Queued(k, new, t, ms \o queued, gs, fit)
  BY <1>5, <1>6, <1>7, <1>8 DEF Queued
<1> QED
  BY <1>3, <1>9

-----------------------------------------------------------------------------
(* The steps, seen from the endpoint that takes them and from its peer.    *)

(* A call that leaves snd_queue and the mode, and makes no mtu smaller.    *)
LEMMA EndOwn ==
    ASSUME NEW k, NEW peer, NEW mine \in Seq(Part), NEW theirs, NEW ms, NEW gs,
           NEW datagrams, NEW fit \in BOOLEAN,
           End(k, peer, mine, theirs, ms, gs, datagrams, fit),
           NEW next, Good(next, mine, theirs), next.snd_queue = k.snd_queue,
           next.stream = k.stream, fit => next.mtu >= k.mtu,
           NEW left, left \subseteq datagrams
    PROVE  End(next, peer, mine, theirs, ms, gs, left, fit)
<1>1. k \in Kcb /\ next \in Kcb /\ k.snd_queue \in Seq(Part)
  BY DEF End, Good, Kcb
<1>2. /\ k.mtu \in Nat /\ Mss(k) \in Nat /\ next.mtu \in Nat /\ Mss(next) \in Nat
      /\ Mss(k) = k.mtu - IKCP_OVERHEAD /\ Mss(next) = next.mtu - IKCP_OVERHEAD
      /\ IKCP_OVERHEAD \in Nat
  BY <1>1, MssFacts, Parameters DEF Mss
<1>3. fit => Mss(next) >= Mss(k)
  BY <1>2
<1>4. mine \o k.snd_queue \in Seq(Part)
  BY <1>1, ConcatProperties
<1>5. Queued(k, mine \o k.snd_queue, Taken(peer), ms, gs, fit)
  BY DEF End
<1>6. Queued(next, mine \o k.snd_queue, Taken(peer), ms, gs, fit)
  BY <1>2, <1>3, <1>4, <1>5, QueuedOther
<1> QED
  BY <1>6 DEF End

(* A call of the peer that takes no segment.                               *)
LEMMA EndPeer ==
    ASSUME NEW k, NEW peer, NEW mine, NEW theirs, NEW ms, NEW gs, NEW datagrams, NEW fit,
           End(k, peer, mine, theirs, ms, gs, datagrams, fit),
           NEW next, Taken(next) = Taken(peer), NEW left, left \subseteq datagrams
    PROVE  End(k, next, mine, theirs, ms, gs, left, fit)
BY DEF End

LEMMA EndSend ==
    ASSUME NEW k, NEW peer, NEW mine \in Seq(Part), NEW theirs, NEW ms \in Seq(Data),
           NEW gs \in Seq(Data), NEW datagrams, NEW fit \in BOOLEAN,
           End(k, peer, mine, theirs, ms, gs, datagrams, fit),
           Taken(peer) \in 0 .. Len(mine), NEW data \in Data,
           NEW r, r = ikcp_send(k, data)
    PROVE  /\ End(r.kcb, peer, mine, theirs, ms \o r.queued, gs, datagrams, fit)
           /\ r.queued \in Seq(Data) /\ r.kcb.mtu = k.mtu /\ r.kcb.cwnd = k.cwnd
           /\ Taken(r.kcb) = Taken(k)
<1>1. /\ Good(k, mine, theirs) /\ k \in Kcb
      /\ Queued(k, mine \o k.snd_queue, Taken(peer), ms, gs, fit)
  BY DEF End, Good
<1>2. PICK queue, queued : /\ SendsTo(r, k, data, queue, queued, fit)
                           /\ Queued(k, mine \o queue, Taken(peer), ms \o queued, gs, fit)
  BY <1>1, QueuedSend
<1>3. /\ r = [kcb |-> [k EXCEPT !.snd_queue = queue], queued |-> queued]
      /\ queue \in Seq(Part) /\ queued \in Seq(Data)
  BY <1>2 DEF SendsTo
<1>4. r.kcb = [k EXCEPT !.snd_queue = queue] /\ r.queued = queued
  BY <1>3
<1>5. PICK next : next = r.kcb
  OBVIOUS
<1>6. /\ next \in Kcb /\ next.snd_queue = queue /\ next.stream = k.stream
      /\ next.mtu = k.mtu /\ next.cwnd = k.cwnd /\ next.snd_nxt = k.snd_nxt
      /\ next.snd_buf = k.snd_buf /\ next.rcv_nxt = k.rcv_nxt
      /\ next.rcv_queue = k.rcv_queue /\ next.rcv_buf = k.rcv_buf
  BY <1>1, <1>3, <1>4, <1>5 DEF Kcb
<1>7. Taken(next) = Taken(k)
  BY <1>6 DEF Taken
<1>8. Good(next, mine, theirs)
  BY <1>1, <1>6, <1>7 DEF Good, Snd, Rcv
<1>9. Queued(next, mine \o queue, Taken(peer), ms \o queued, gs, fit)
  <2>1. mine \o queue \in Seq(Part)
    BY <1>3, ConcatProperties
  <2>2. Mss(next) = Mss(k) /\ Mss(k) \in Nat
    BY <1>1, <1>6, MssFacts DEF Mss
  <2>3. fit => Mss(k) \in Nat /\ Mss(next) \in Nat /\ Mss(next) >= Mss(k)
    BY <2>2
  <2> QED
    BY <1>2, <1>6, <2>1, <2>3, QueuedOther
<1>10. End(next, peer, mine, theirs, ms \o queued, gs, datagrams, fit)
  BY <1>6, <1>8, <1>9 DEF End
<1> QED
  BY <1>3, <1>4, <1>5, <1>6, <1>7, <1>10

(* The message that is written goes to the peer as it was.                 *)
LEMMA EndRecv ==
    ASSUME NEW k, NEW peer, NEW mine \in Seq(Part), NEW theirs, NEW ms \in Seq(Data),
           NEW gs \in Seq(Data), NEW datagrams, NEW fit \in BOOLEAN,
           End(k, peer, mine, theirs, ms, gs, datagrams, fit),
           Good(peer, theirs, mine), MessageReady(peer),
           NEW next, Taken(next) = Taken(peer) + Merged(peer),
           NEW data, data = ikcp_recv(peer).data
    PROVE  data \in Data /\ End(k, next, mine, theirs, ms, Append(gs, data), datagrams, fit)
<1>1. k.snd_queue \in Seq(Part)
  BY DEF End, Good, Kcb
<1> DEFINE all == mine \o k.snd_queue
<1>2. all \in Seq(Part) /\ Good(peer, theirs, all)
  BY <1>1, GoodMore, ConcatProperties
<1>3. Queued(k, all, Taken(peer), ms, gs, fit)
  BY DEF End
<1> HIDE DEF all
<1>4. /\ data \in Data
      /\ Queued(k, all, Taken(peer) + Merged(peer), ms, Append(gs, data), fit)
  BY <1>2, <1>3, QueuedRecv
<1> QED
  BY <1>4 DEF End, all

LEMMA EndFlush ==
    ASSUME NEW k, NEW peer, NEW mine \in Seq(Part), NEW theirs, NEW ms, NEW gs,
           NEW datagrams, NEW fit \in BOOLEAN,
           End(k, peer, mine, theirs, ms, gs, datagrams, fit),
           NEW r, NEW taken, NEW rest, Flushed(r, k, mine, theirs, taken, rest, fit)
    PROVE  End(r.kcb, peer, mine \o taken, theirs, ms, gs, datagrams, fit)
<1>1. /\ taken \in Seq(Part) /\ rest \in Seq(Part) /\ taken \o rest = k.snd_queue
      /\ Good(r.kcb, mine \o taken, theirs) /\ r.kcb.snd_queue = rest
      /\ r.kcb.stream = k.stream /\ r.kcb.mtu = k.mtu
  BY DEF Flushed
<1>2. k \in Kcb /\ k.snd_queue \in Seq(Part)
  BY DEF End, Good, Kcb
<1>3. (mine \o taken) \o rest = mine \o k.snd_queue /\ mine \o k.snd_queue \in Seq(Part)
  <2>1. (mine \o taken) \o rest = mine \o (taken \o rest)
    <3>1. \A u, v, w \in Seq(Part) : (u \o v) \o w = u \o (v \o w)
      BY ConcatAssociative, SMTT(30)
    <3> QED
      BY <1>1, <3>1
  <2>2. mine \o k.snd_queue \in Seq(Part)
    BY <1>2, ConcatProperties
  <2> QED
    BY <1>1, <2>1, <2>2
<1>4. Queued(k, mine \o k.snd_queue, Taken(peer), ms, gs, fit)
  BY DEF End
<1>5. Queued(r.kcb, mine \o k.snd_queue, Taken(peer), ms, gs, fit)
  <2>1. Mss(r.kcb) = Mss(k) /\ Mss(k) \in Nat
    BY <1>1, <1>2, MssFacts DEF Mss
  <2>2. fit => Mss(k) \in Nat /\ Mss(r.kcb) \in Nat /\ Mss(r.kcb) >= Mss(k)
    BY <2>1
  <2>3. mine \o k.snd_queue \in Seq(Part)
    BY <1>3
  <2> QED
    BY <1>1, <1>4, <2>2, <2>3, QueuedOther
<1> QED
  BY <1>1, <1>3, <1>5 DEF End

LEMMA EndFlushed ==
    ASSUME NEW k, NEW peer, NEW mine, NEW theirs \in Seq(Part), NEW ms, NEW gs,
           NEW datagrams, NEW fit,
           End(k, peer, mine, theirs, ms, gs, datagrams, fit),
           NEW more \in Seq(Part), NEW next, Taken(next) = Taken(peer), NEW new,
           \A d \in new : d \in datagrams \/ Datagram(d, theirs \o more)
    PROVE  End(k, next, mine, theirs \o more, ms, gs, new, fit)
<1>1. Good(k, mine, theirs \o more)
  BY GoodMore DEF End
<1>2. ASSUME NEW d \in new PROVE Datagram(d, theirs \o more)
  <2>1. CASE d \in datagrams
    BY <2>1, DatagramMore DEF End
  <2>2. CASE Datagram(d, theirs \o more)
    BY <2>2
  <2> QED
    BY <2>1, <2>2
<1> QED
  BY <1>1, <1>2 DEF End

-----------------------------------------------------------------------------
(* The invariant holds at the start.                                       *)

LEMMA CreateGood ==
    ASSUME NEW stream \in BOOLEAN, NEW k, k = ikcp_create(stream)
    PROVE  /\ k \in Kcb /\ Good(k, <<>>, <<>>) /\ k.snd_queue = <<>> /\ Taken(k) = 0
           /\ k.stream = stream
<1>1. k = [stream |-> stream, mtu |-> Mtu, snd_una |-> 0, snd_nxt |-> 0, rcv_nxt |-> 0,
           snd_queue |-> <<>>, snd_buf |-> <<>>, rcv_buf |-> <<>>, rcv_queue |-> <<>>,
           acklist |-> <<>>, rmt_wnd |-> IKCP_WND_RCV, probe |-> {},
           probe_wait |-> FALSE, cwnd |-> 0, incr |-> 0,
           ssthresh |-> IKCP_THRESH_INIT, dead |-> FALSE]
  BY DEF ikcp_create
<1>2. Mtu \in Mtus /\ IKCP_WND_RCV \in Nat /\ IKCP_THRESH_INIT \in Nat /\ RcvWnd \in Nat
  BY Parameters DEF Mtus
<1>3. /\ <<>> \in Seq(Part) /\ <<>> \in Seq(Sent) /\ <<>> \in Seq(Arrived) /\ <<>> \in Seq(Nat)
      /\ Len(<<>>) = 0
  BY EmptySeq
<1>4. k \in Kcb
  BY <1>1, <1>2, <1>3 DEF Kcb
<1>5. /\ k.snd_nxt = 0 /\ k.rcv_nxt = 0 /\ k.snd_buf = <<>> /\ k.rcv_buf = <<>>
      /\ k.rcv_queue = <<>> /\ k.snd_queue = <<>> /\ k.stream = stream
  BY <1>1
<1>6. Listed(<<>>, <<>>)
  BY <1>3 DEF Listed
<1>7. Slice(<<>>, <<>>, 0)
  BY <1>3 DEF Slice
<1>8. Taken(k) = 0
  <2>1. Len(k.rcv_queue) = 0 /\ k.rcv_nxt = 0
    BY <1>3, <1>5
  <2>2. Taken(k) = 0 - 0
    BY <2>1 DEF Taken
  <2> QED
    BY <2>2
<1>9. Snd(k, <<>>)
  BY <1>3, <1>5, <1>6 DEF Snd
<1>10. Rcv(k, <<>>)
  BY <1>2, <1>3, <1>5, <1>6, <1>7, <1>8 DEF Rcv
<1> QED
  BY <1>4, <1>5, <1>8, <1>9, <1>10 DEF Good

LEMMA NothingQueued ==
    ASSUME NEW k, NEW fit
    PROVE  Queued(k, <<>>, 0, <<>>, <<>>, fit)
<1>1. Len(<<>>) = 0 /\ <<>> \in Seq(Part)
  BY EmptySeq
<1>2. Within(<<>>, k, fit)
  BY <1>1 DEF Within
<1>3. Bytes(<<>>) = FlattenSeq(<<>>)
  BY BytesEmpty, FlattenEmpty
<1>4. SubSeq(<<>>, 1, 0) = <<>>
  BY SubSeqEmpty
<1> DEFINE b == [j \in 0 .. 0 |-> 0]
<1>5. b \in [0 .. 0 -> Nat] /\ b[0] = 0
  OBVIOUS
<1> HIDE DEF b
<1>6. Cuts(b, <<>>, <<>>, <<>>, 0)
  BY <1>1, <1>5 DEF Cuts
<1> QED
  BY <1>2, <1>3, <1>4, <1>6 DEF Queued

LEMMA InitInv ==
    ASSUME NEW fit, Init
    PROVE  IInv(fit)
<1>1. PICK stream \in Streams : kcb = [p \in Peer |-> ikcp_create(stream)]
  BY DEF Init
<1>2. stream \in BOOLEAN
  BY <1>1, ParameterTypes
<1>3. PICK k : k = ikcp_create(stream)
  OBVIOUS
<1>4. /\ k \in Kcb /\ Good(k, <<>>, <<>>) /\ k.snd_queue = <<>> /\ Taken(k) = 0
  BY <1>2, <1>3, CreateGood
<1>5. kcb = [p \in Peer |-> k]
  BY <1>1, <1>3
<1>6. msgs = [p \in Peer |-> <<>>] /\ got = [p \in Peer |-> <<>>] /\ net = [p \in Peer |-> {}]
  BY DEF Init
<1>7. <<>> \in Seq(Data) /\ <<>> \in Seq(Part) /\ <<>> \o <<>> = <<>>
  <2>1. <<>> \in Seq(Data) /\ <<>> \in Seq(Part)
    BY EmptySeq
  <2> QED
    BY <2>1, ConcatEmptySeq
<1>8. Types
  BY <1>4, <1>5, <1>6, <1>7 DEF Types
<1> DEFINE line == [p \in Peer |-> <<>>]
<1>9. End(k, k, <<>>, <<>>, <<>>, <<>>, {}, fit)
  BY <1>4, <1>7, NothingQueued DEF End
<1>10. ASSUME NEW p \in Peer
       PROVE  End(kcb[p], kcb[Other(p)], line[p], line[Other(p)],
                  msgs[p], got[Other(p)], net[p], fit)
  <2>1. Other(p) \in Peer
    BY PeerFacts
  <2>2. /\ kcb[p] = k /\ kcb[Other(p)] = k /\ line[p] = <<>> /\ line[Other(p)] = <<>>
        /\ msgs[p] = <<>> /\ got[Other(p)] = <<>> /\ net[p] = {}
    BY <1>5, <1>6, <2>1
  <2> QED
    BY <1>9, <2>2
<1>11. line \in [Peer -> Seq(Part)]
  BY <1>7
<1> HIDE DEF line
<1>12. Lines(line, fit)
  BY <1>10, <1>11 DEF Lines
<1> QED
  BY <1>8, <1>12 DEF IInv

-----------------------------------------------------------------------------
(* The invariant holds after each step.                                    *)

(* No one makes the mtu smaller.                                           *)
MtuKept == \A p \in Peer : kcb'[p].mtu >= kcb[p].mtu

(* The endpoints, one by one.                                              *)
LEMMA EndFacts ==
    ASSUME NEW fit, Types, NEW line, Lines(line, fit), NEW p \in Peer, NEW q, q = Other(p)
    PROVE  /\ q \in Peer /\ q # p /\ p = Other(q)
           /\ line[p] \in Seq(Part) /\ line[q] \in Seq(Part)
           /\ End(kcb[p], kcb[q], line[p], line[q], msgs[p], got[q], net[p], fit)
           /\ End(kcb[q], kcb[p], line[q], line[p], msgs[q], got[p], net[q], fit)
           /\ Good(kcb[p], line[p], line[q]) /\ Good(kcb[q], line[q], line[p])
           /\ kcb[p] \in Kcb /\ msgs[p] \in Seq(Data) /\ msgs[q] \in Seq(Data)
           /\ got[p] \in Seq(Data) /\ got[q] \in Seq(Data)
<1>1. q \in Peer /\ q # p /\ p = Other(q)
  BY PeerFacts
<1>2. /\ line[p] \in Seq(Part) /\ line[q] \in Seq(Part)
      /\ End(kcb[p], kcb[q], line[p], line[q], msgs[p], got[q], net[p], fit)
      /\ End(kcb[q], kcb[p], line[q], line[p], msgs[q], got[p], net[q], fit)
  BY <1>1 DEF Lines
<1>3. Good(kcb[p], line[p], line[q]) /\ Good(kcb[q], line[q], line[p])
  BY <1>2 DEF End
<1>4. /\ kcb[p] \in Kcb /\ msgs[p] \in Seq(Data) /\ msgs[q] \in Seq(Data)
      /\ got[p] \in Seq(Data) /\ got[q] \in Seq(Data)
  BY <1>1 DEF Types
<1> QED
  BY <1>1, <1>2, <1>3, <1>4

LEMMA BothEnds ==
    ASSUME NEW fit, NEW p \in Peer, NEW q, q = Other(p), Types', NEW line,
           line \in [Peer -> Seq(Part)],
           End(kcb'[p], kcb'[q], line[p], line[q], msgs'[p], got'[q], net'[p], fit),
           End(kcb'[q], kcb'[p], line[q], line[p], msgs'[q], got'[p], net'[q], fit)
    PROVE  IInv(fit)'
<1>1. q \in Peer /\ p = Other(q) /\ \A r \in Peer : r = p \/ r = q
  BY PeerFacts
<1>2. \A r \in Peer :
        End(kcb'[r], kcb'[Other(r)], line[r], line[Other(r)],
            msgs'[r], got'[Other(r)], net'[r], fit)
  BY <1>1
<1>3. Lines(line, fit)'
  BY <1>2 DEF Lines
<1> QED
  BY <1>3 DEF IInv

LEMMA WrittenType ==
    ASSUME NEW p \in Peer, NEW len \in Nat, Len(msgs[p]) \in Nat
    PROVE  Written(p, len) \in Data
<1>1. Written(p, len) = [i \in 1 .. len |-> <<Len(msgs[p]) + 1, i>>]
  BY DEF Written
<1>2. \A i \in 1 .. len : <<Len(msgs[p]) + 1, i>> \in Byte
  BY DEF Byte
<1>3. Written(p, len) \in [1 .. len -> Byte]
  BY <1>1, <1>2
<1> QED
  BY <1>3, FunctionIsSeq DEF Data

LEMMA StepSend ==
    ASSUME NEW fit \in BOOLEAN, IInv(fit), NEW p \in Peer, Send(p)
    PROVE  IInv(fit)'
<1>1. PICK line : Lines(line, fit)
  BY DEF IInv
<1>2. Types /\ line \in [Peer -> Seq(Part)]
  BY <1>1 DEF IInv, Lines
<1>3. PICK q : q = Other(p)
  OBVIOUS
<1>4. /\ q \in Peer /\ q # p /\ p = Other(q)
      /\ line[p] \in Seq(Part) /\ line[q] \in Seq(Part)
      /\ End(kcb[p], kcb[q], line[p], line[q], msgs[p], got[q], net[p], fit)
      /\ End(kcb[q], kcb[p], line[q], line[p], msgs[q], got[p], net[q], fit)
      /\ Good(kcb[q], line[q], line[p])
      /\ msgs[p] \in Seq(Data) /\ got[q] \in Seq(Data)
  BY <1>1, <1>2, <1>3, EndFacts
<1>5. PICK len \in MsgLens :
         LET r == ikcp_send(kcb[p], Written(p, len))
         IN  /\ kcb' = [kcb EXCEPT ![p] = r.kcb]
             /\ msgs' = [msgs EXCEPT ![p] = msgs[p] \o r.queued]
  BY DEF Send
<1>6. PICK r : r = ikcp_send(kcb[p], Written(p, len))
  OBVIOUS
<1>7. /\ kcb' = [kcb EXCEPT ![p] = r.kcb] /\ msgs' = [msgs EXCEPT ![p] = msgs[p] \o r.queued]
      /\ got' = got /\ net' = net
  BY <1>5, <1>6 DEF Send
<1>8. Written(p, len) \in Data
  <2>1. len \in Nat
    BY ParameterTypes
  <2>2. Len(msgs[p]) \in Nat
    BY <1>4, LenProperties
  <2> QED
    BY <2>1, <2>2, WrittenType
<1>9. Taken(kcb[q]) \in 0 .. Len(line[p])
  BY <1>4, TakenFacts
<1>10. /\ End(r.kcb, kcb[q], line[p], line[q], msgs[p] \o r.queued, got[q], net[p], fit)
       /\ r.queued \in Seq(Data) /\ Taken(r.kcb) = Taken(kcb[p])
  <2>1. /\ line[p] \in Seq(Part) /\ msgs[p] \in Seq(Data) /\ got[q] \in Seq(Data)
        /\ End(kcb[p], kcb[q], line[p], line[q], msgs[p], got[q], net[p], fit)
    BY <1>4
  <2>2. PICK k, peer, mine, theirs, ms, gs, ds, data :
           /\ k = kcb[p] /\ peer = kcb[q] /\ mine = line[p] /\ theirs = line[q]
           /\ ms = msgs[p] /\ gs = got[q] /\ ds = net[p] /\ data = Written(p, len)
    OBVIOUS
  <2>3. /\ mine \in Seq(Part) /\ ms \in Seq(Data) /\ gs \in Seq(Data)
        /\ End(k, peer, mine, theirs, ms, gs, ds, fit)
        /\ Taken(peer) \in 0 .. Len(mine) /\ data \in Data /\ r = ikcp_send(k, data)
    BY <1>6, <1>8, <1>9, <2>1, <2>2
  <2>4. /\ End(r.kcb, peer, mine, theirs, ms \o r.queued, gs, ds, fit)
        /\ r.queued \in Seq(Data) /\ Taken(r.kcb) = Taken(k)
    BY <2>3, EndSend
  <2> QED
    BY <2>2, <2>4
<1>11. End(kcb[q], r.kcb, line[q], line[p], msgs[q], got[p], net[q], fit)
  BY <1>4, <1>10, EndPeer
<1>12. /\ kcb'[p] = r.kcb /\ kcb'[q] = kcb[q]
       /\ msgs'[p] = msgs[p] \o r.queued /\ msgs'[q] = msgs[q]
  BY <1>2, <1>4, <1>7 DEF Types
<1>13. Types'
  <2>1. r.kcb \in Kcb
    BY <1>10 DEF End, Good
  <2>2. msgs[p] \o r.queued \in Seq(Data)
    BY <1>4, <1>10, ConcatProperties
  <2> QED
    BY <1>2, <1>7, <2>1, <2>2 DEF Types
<1> QED
  BY <1>2, <1>3, <1>7, <1>10, <1>11, <1>12, <1>13, BothEnds

LEMMA StepInput ==
    ASSUME NEW fit \in BOOLEAN, IInv(fit), NEW p \in Peer, NEW datagram \in net[p],
           Input(p, datagram)
    PROVE  IInv(fit)'
<1>1. PICK line : Lines(line, fit)
  BY DEF IInv
<1>2. Types /\ line \in [Peer -> Seq(Part)]
  BY <1>1 DEF IInv, Lines
<1>3. PICK q : q = Other(p)
  OBVIOUS
<1>4. /\ q \in Peer /\ q # p /\ p = Other(q)
      /\ line[p] \in Seq(Part) /\ line[q] \in Seq(Part)
      /\ End(kcb[p], kcb[q], line[p], line[q], msgs[p], got[q], net[p], fit)
      /\ End(kcb[q], kcb[p], line[q], line[p], msgs[q], got[p], net[q], fit)
      /\ Good(kcb[p], line[p], line[q]) /\ kcb[p] \in Kcb
  BY <1>1, <1>2, <1>3, EndFacts
<1>5. PICK next : next = ikcp_input(kcb[p], datagram)
  OBVIOUS
<1>6. /\ kcb' = [kcb EXCEPT ![p] = next] /\ msgs' = msgs /\ got' = got
      /\ net' = [net EXCEPT ![p] = net[p] \ {datagram}] \/ net' = net
  BY <1>5 DEF Input
<1>7. Datagram(datagram, line[q])
  BY <1>4 DEF End
<1>8. Good(next, line[p], line[q]) /\ Keeps(kcb[p], next)
  BY <1>4, <1>5, <1>7, InputGood
<1>9. /\ next.snd_queue = kcb[p].snd_queue /\ next.stream = kcb[p].stream
      /\ Taken(next) = Taken(kcb[p]) /\ (fit => next.mtu >= kcb[p].mtu)
  <2>1. kcb[p].mtu \in Nat
    BY <1>4, MssFacts
  <2> QED
    BY <1>8, <2>1 DEF Keeps
<1>10. /\ kcb'[p] = next /\ kcb'[q] = kcb[q] /\ DOMAIN net' = Peer
       /\ net'[p] \subseteq net[p] /\ net'[q] \subseteq net[q]
  BY <1>2, <1>4, <1>6 DEF Types
<1>11. PICK left : left = net'[p] /\ left \subseteq net[p]
  BY <1>10
<1>12. End(next, kcb[q], line[p], line[q], msgs[p], got[q], left, fit)
  BY <1>4, <1>8, <1>9, <1>11, EndOwn
<1>13. End(kcb[q], next, line[q], line[p], msgs[q], got[p], net'[q], fit)
  BY <1>4, <1>9, <1>10, EndPeer
<1>14. Types'
  <2>1. next \in Kcb
    BY <1>8 DEF Good
  <2> QED
    BY <1>2, <1>6, <1>10, <2>1 DEF Types
<1> QED
  BY <1>2, <1>3, <1>6, <1>10, <1>11, <1>12, <1>13, <1>14, BothEnds

LEMMA StepRecv ==
    ASSUME NEW fit \in BOOLEAN, IInv(fit), NEW p \in Peer, Recv(p)
    PROVE  IInv(fit)'
<1>1. PICK line : Lines(line, fit)
  BY DEF IInv
<1>2. Types /\ line \in [Peer -> Seq(Part)]
  BY <1>1 DEF IInv, Lines
<1>3. PICK q : q = Other(p)
  OBVIOUS
<1>4. /\ q \in Peer /\ q # p /\ p = Other(q)
      /\ line[p] \in Seq(Part) /\ line[q] \in Seq(Part)
      /\ End(kcb[p], kcb[q], line[p], line[q], msgs[p], got[q], net[p], fit)
      /\ End(kcb[q], kcb[p], line[q], line[p], msgs[q], got[p], net[q], fit)
      /\ Good(kcb[p], line[p], line[q]) /\ kcb[p] \in Kcb
      /\ msgs[q] \in Seq(Data) /\ got[p] \in Seq(Data)
  BY <1>1, <1>2, <1>3, EndFacts
<1>5. PICK next, data : next = ikcp_recv(kcb[p]).kcb /\ data = ikcp_recv(kcb[p]).data
  OBVIOUS
<1>6. /\ kcb' = [kcb EXCEPT ![p] = next] /\ msgs' = msgs /\ net' = net
      /\ got' = [got EXCEPT ![p] = Append(got[p], data)] /\ MessageReady(kcb[p])
  BY <1>5 DEF Recv
<1>7. /\ Good(next, line[p], line[q]) /\ next.stream = kcb[p].stream
      /\ next.mtu = kcb[p].mtu /\ next.snd_queue = kcb[p].snd_queue
      /\ Taken(next) = Taken(kcb[p]) + Merged(kcb[p])
  BY <1>4, <1>5, RecvGood
<1>8. fit => next.mtu >= kcb[p].mtu
  <2>1. kcb[p].mtu \in Nat
    BY <1>4, MssFacts
  <2> QED
    BY <1>7, <2>1
<1>9. End(next, kcb[q], line[p], line[q], msgs[p], got[q], net[p], fit)
  BY <1>4, <1>7, <1>8, EndOwn
<1>10. data \in Data /\ End(kcb[q], next, line[q], line[p], msgs[q], Append(got[p], data), net[q], fit)
  BY <1>4, <1>5, <1>6, <1>7, EndRecv
<1>11. kcb'[p] = next /\ kcb'[q] = kcb[q] /\ got'[p] = Append(got[p], data) /\ got'[q] = got[q]
  BY <1>2, <1>4, <1>6 DEF Types
<1>12. Types'
  <2>1. next \in Kcb
    BY <1>7 DEF Good
  <2>2. Append(got[p], data) \in Seq(Data)
    BY <1>4, <1>10, AppendProperties
  <2> QED
    BY <1>2, <1>6, <2>1, <2>2 DEF Types
<1> QED
  BY <1>2, <1>3, <1>6, <1>9, <1>10, <1>11, <1>12, BothEnds

(* What a flush does, in terms of a line.                                  *)
Flushes(p, line, r, taken, rest, fit) ==
    /\ Lines(line, fit)
    /\ Flushed(r, kcb[p], line[p], line[Other(p)], taken, rest, fit)
    /\ kcb' = [kcb EXCEPT ![p] = r.kcb]
    /\ net' = [net EXCEPT ![Other(p)] = net[Other(p)] \cup ToSet(r.out)]
    /\ msgs' = msgs /\ got' = got

LEMMA FlushFacts ==
    ASSUME NEW fit \in BOOLEAN, IInv(fit), NEW p \in Peer, NEW due, NEW probeDue,
           Flush(p, due, probeDue)
    PROVE  \E line, r, taken, rest : Flushes(p, line, r, taken, rest, fit)
<1>1. PICK line : Lines(line, fit)
  BY DEF IInv
<1>2. Types
  BY DEF IInv
<1>3. PICK q : q = Other(p)
  OBVIOUS
<1>4. /\ line[p] \in Seq(Part) /\ Good(kcb[p], line[p], line[q]) /\ kcb[p] \in Kcb
      /\ End(kcb[p], kcb[q], line[p], line[q], msgs[p], got[q], net[p], fit)
  BY <1>1, <1>2, <1>3, EndFacts
<1>5. PICK r : r = ikcp_flush(kcb[p], due, probeDue)
  OBVIOUS
<1>6. /\ kcb' = [kcb EXCEPT ![p] = r.kcb]
      /\ net' = [net EXCEPT ![Other(p)] = net[Other(p)] \cup ToSet(r.out)]
      /\ msgs' = msgs /\ got' = got
  BY <1>5 DEF Flush
<1>7. fit => LineFits(line[p] \o kcb[p].snd_queue, kcb[p])
  <2>1. Within(line[p] \o kcb[p].snd_queue, kcb[p], fit)
    BY <1>4 DEF End, Queued
  <2> QED
    BY <2>1 DEF Within, LineFits
<1>8. \E taken, rest :
        Flushed(ikcp_flush(kcb[p], due, probeDue), kcb[p], line[p], line[q], taken, rest, fit)
  BY <1>4, <1>7, FlushGood
<1>9. PICK taken, rest : Flushed(r, kcb[p], line[p], line[q], taken, rest, fit)
  BY <1>5, <1>8
<1>10. Flushes(p, line, r, taken, rest, fit)
  BY <1>1, <1>3, <1>6, <1>9 DEF Flushes
<1> QED
  BY <1>10

LEMMA StepFlush ==
    ASSUME NEW fit \in BOOLEAN, IInv(fit), NEW p \in Peer, NEW due, NEW probeDue,
           Flush(p, due, probeDue)
    PROVE  IInv(fit)'
<1>1. PICK line, r, taken, rest : Flushes(p, line, r, taken, rest, fit)
  BY FlushFacts
<1>2. PICK q : q = Other(p)
  OBVIOUS
<1>3. /\ Lines(line, fit) /\ Flushed(r, kcb[p], line[p], line[q], taken, rest, fit)
      /\ kcb' = [kcb EXCEPT ![p] = r.kcb]
      /\ net' = [net EXCEPT ![q] = net[q] \cup ToSet(r.out)] /\ msgs' = msgs /\ got' = got
  BY <1>1, <1>2 DEF Flushes
<1>4. Types /\ line \in [Peer -> Seq(Part)]
  BY <1>3 DEF IInv, Lines
<1>5. /\ q \in Peer /\ q # p /\ p = Other(q)
      /\ line[p] \in Seq(Part) /\ line[q] \in Seq(Part)
      /\ End(kcb[p], kcb[q], line[p], line[q], msgs[p], got[q], net[p], fit)
      /\ End(kcb[q], kcb[p], line[q], line[p], msgs[q], got[p], net[q], fit)
  BY <1>2, <1>3, <1>4, EndFacts
<1>6. /\ taken \in Seq(Part) /\ Taken(r.kcb) = Taken(kcb[p])
      /\ Good(r.kcb, line[p] \o taken, line[q])
      /\ r.out \in Seq(Seq(Segment(line[p] \o taken)))
  BY <1>3 DEF Flushed, Packs
<1>7. End(r.kcb, kcb[q], line[p] \o taken, line[q], msgs[p], got[q], net[p], fit)
  BY <1>3, <1>5, EndFlush
<1>8. ASSUME NEW d \in net[q] \cup ToSet(r.out)
      PROVE  d \in net[q] \/ Datagram(d, line[p] \o taken)
  <2> SUFFICES ASSUME d \in ToSet(r.out) PROVE Datagram(d, line[p] \o taken)
    OBVIOUS
  <2>1. PICK i \in DOMAIN r.out : d = r.out[i]
    BY DEF ToSet
  <2>2. DOMAIN r.out = 1 .. Len(r.out)
    BY <1>6, LenProperties
  <2>3. d \in Seq(Segment(line[p] \o taken))
    BY <1>6, <2>1, <2>2, ElementOfSeq
  <2> QED
    BY <2>3 DEF Datagram
<1>9. End(kcb[q], r.kcb, line[q], line[p] \o taken, msgs[q], got[p],
          net[q] \cup ToSet(r.out), fit)
  BY <1>5, <1>6, <1>8, EndFlushed
<1>10. PICK next : next = [line EXCEPT ![p] = line[p] \o taken]
  OBVIOUS
<1>11. /\ next \in [Peer -> Seq(Part)] /\ next[p] = line[p] \o taken /\ next[q] = line[q]
  <2>1. line[p] \o taken \in Seq(Part)
    BY <1>5, <1>6, ConcatProperties
  <2> QED
    BY <1>4, <1>5, <1>10, <2>1
<1>12. /\ kcb'[p] = r.kcb /\ kcb'[q] = kcb[q]
       /\ net'[p] = net[p] /\ net'[q] = net[q] \cup ToSet(r.out) /\ DOMAIN net' = Peer
  BY <1>3, <1>4, <1>5 DEF Types
<1>13. Types'
  <2>1. r.kcb \in Kcb
    BY <1>6 DEF Good
  <2> QED
    BY <1>3, <1>4, <1>12, <2>1 DEF Types
<1>14. /\ End(kcb'[p], kcb'[q], next[p], next[q], msgs'[p], got'[q], net'[p], fit)
       /\ End(kcb'[q], kcb'[p], next[q], next[p], msgs'[q], got'[p], net'[q], fit)
  BY <1>3, <1>7, <1>9, <1>11, <1>12
<1> QED
  BY <1>2, <1>11, <1>13, <1>14, BothEnds

LEMMA StepSetMtu ==
    ASSUME NEW fit \in BOOLEAN, IInv(fit), fit => MtuKept, NEW p \in Peer, SetMtu(p)
    PROVE  IInv(fit)'
<1>1. PICK line : Lines(line, fit)
  BY DEF IInv
<1>2. Types /\ line \in [Peer -> Seq(Part)]
  BY <1>1 DEF IInv, Lines
<1>3. PICK q : q = Other(p)
  OBVIOUS
<1>4. /\ q \in Peer /\ q # p /\ p = Other(q)
      /\ line[p] \in Seq(Part) /\ line[q] \in Seq(Part)
      /\ End(kcb[p], kcb[q], line[p], line[q], msgs[p], got[q], net[p], fit)
      /\ End(kcb[q], kcb[p], line[q], line[p], msgs[q], got[p], net[q], fit)
      /\ Good(kcb[p], line[p], line[q]) /\ kcb[p] \in Kcb
  BY <1>1, <1>2, <1>3, EndFacts
<1>5. PICK mtu \in NewMtus[p] : kcb' = [kcb EXCEPT ![p].mtu = mtu]
  BY DEF SetMtu
<1>6. PICK next : next = [kcb[p] EXCEPT !.mtu = mtu]
  OBVIOUS
<1>7. /\ kcb' = [kcb EXCEPT ![p] = next] /\ msgs' = msgs /\ got' = got /\ net' = net
  BY <1>5, <1>6 DEF SetMtu
<1>8. mtu \in Mtus
  BY <1>5 DEF Mtus
<1>9. /\ next \in Kcb /\ next.mtu = mtu /\ next.snd_queue = kcb[p].snd_queue
      /\ next.stream = kcb[p].stream /\ next.snd_buf = kcb[p].snd_buf
      /\ next.snd_nxt = kcb[p].snd_nxt /\ next.rcv_nxt = kcb[p].rcv_nxt
      /\ next.rcv_queue = kcb[p].rcv_queue /\ next.rcv_buf = kcb[p].rcv_buf
  BY <1>4, <1>6, <1>8 DEF Kcb
<1>10. Taken(next) = Taken(kcb[p])
  BY <1>9 DEF Taken
<1>11. Good(next, line[p], line[q])
  BY <1>4, <1>9, <1>10 DEF Good, Snd, Rcv
<1>12. kcb'[p] = next /\ kcb'[q] = kcb[q]
  BY <1>2, <1>4, <1>7 DEF Types
<1>13. fit => next.mtu >= kcb[p].mtu
  BY <1>12 DEF MtuKept
<1>14. End(next, kcb[q], line[p], line[q], msgs[p], got[q], net[p], fit)
  BY <1>4, <1>9, <1>11, <1>13, EndOwn
<1>15. End(kcb[q], next, line[q], line[p], msgs[q], got[p], net[q], fit)
  BY <1>4, <1>10, EndPeer
<1>16. Types'
  BY <1>2, <1>7, <1>9 DEF Types
<1> QED
  BY <1>2, <1>3, <1>7, <1>12, <1>14, <1>15, <1>16, BothEnds

LEMMA StepLose ==
    ASSUME NEW fit \in BOOLEAN, IInv(fit), NEW p \in Peer, NEW datagram \in net[p],
           Lose(p, datagram)
    PROVE  IInv(fit)'
<1>1. PICK line : Lines(line, fit)
  BY DEF IInv
<1>2. Types
  BY DEF IInv
<1>3. /\ kcb' = kcb /\ msgs' = msgs /\ got' = got
      /\ DOMAIN net' = Peer /\ \A r \in Peer : net'[r] \subseteq net[r]
  BY <1>2 DEF Lose, Types
<1>4. Types'
  BY <1>2, <1>3 DEF Types
<1>5. ASSUME NEW r \in Peer
      PROVE  End(kcb[r], kcb[Other(r)], line[r], line[Other(r)], msgs[r], got[Other(r)],
                 net'[r], fit)
  BY <1>1, <1>3 DEF Lines, End
<1>6. Lines(line, fit)'
  BY <1>1, <1>3, <1>5 DEF Lines
<1> QED
  BY <1>4, <1>6 DEF IInv

LEMMA NextInv ==
    ASSUME NEW fit \in BOOLEAN, IInv(fit), [Next]_vars, fit => [MtuKept]_vars
    PROVE  IInv(fit)'
<1>1. CASE UNCHANGED vars
  <2>1. kcb' = kcb /\ msgs' = msgs /\ got' = got /\ net' = net
    BY <1>1 DEF vars
  <2>2. PICK line : Lines(line, fit)
    BY DEF IInv
  <2>3. Lines(line, fit)'
    BY <2>1, <2>2 DEF Lines
  <2>4. Types'
    BY <2>1 DEF IInv, Types
  <2> QED
    BY <2>3, <2>4 DEF IInv
<1>2. ASSUME NEW p \in Peer, Send(p) PROVE IInv(fit)'
  BY <1>2, StepSend
<1>3. ASSUME NEW p \in Peer, Recv(p) PROVE IInv(fit)'
  BY <1>3, StepRecv
<1>4. ASSUME NEW p \in Peer, SetMtu(p) PROVE IInv(fit)'
  <2>1. UNCHANGED vars => MtuKept
    <3> SUFFICES ASSUME UNCHANGED vars, NEW r \in Peer PROVE kcb'[r].mtu >= kcb[r].mtu
      BY DEF MtuKept
    <3>1. kcb[r] \in Kcb
      BY DEF IInv, Types
    <3>2. kcb[r].mtu \in Nat /\ kcb' = kcb
      BY <3>1, MssFacts DEF vars
    <3> QED
      BY <3>2
  <2>2. fit => MtuKept
    BY <2>1
  <2> QED
    BY <1>4, <2>2, StepSetMtu
<1>5. ASSUME NEW p \in Peer, NEW due, NEW probeDue, Flush(p, due, probeDue) PROVE IInv(fit)'
  BY <1>5, StepFlush
<1>6. ASSUME NEW p \in Peer, NEW datagram \in net[p], Input(p, datagram) PROVE IInv(fit)'
  BY <1>6, StepInput
<1>7. ASSUME NEW p \in Peer, NEW datagram \in net[p], Lose(p, datagram) PROVE IInv(fit)'
  BY <1>7, StepLose
<1>8. CASE Next
  BY <1>2, <1>3, <1>4, <1>5, <1>6, <1>7, <1>8 DEF Next
<1> QED
  BY <1>1, <1>8

(* In every reachable state there is, for each endpoint, one sequence of   *)
(* numbered segments that both control blocks and all datagrams agree on,  *)
(* whose bytes are those written and, up to what ikcp_recv has taken,      *)
(* those received.                                                         *)
THEOREM Invariance == Spec => []IInv(FALSE)
<1>1. FALSE \in BOOLEAN
  OBVIOUS
<1>2. Init => IInv(FALSE)
  BY InitInv
<1>3. IInv(FALSE) /\ [Next]_vars => IInv(FALSE)'
  BY <1>1, NextInv
<1> QED
  BY <1>2, <1>3, PTL DEF Spec

(* The same, with no segment larger than the mss, when no call of          *)
(* ikcp_setmtu makes the mtu smaller.                                      *)
THEOREM InvarianceOfSizes == Spec /\ [][MtuKept]_vars => []IInv(TRUE)
<1>1. TRUE \in BOOLEAN
  OBVIOUS
<1>2. Init => IInv(TRUE)
  BY InitInv
<1>3. IInv(TRUE) /\ [Next]_vars /\ [MtuKept]_vars => IInv(TRUE)'
  BY <1>1, NextInv
<1> QED
  BY <1>2, <1>3, PTL DEF Spec

-----------------------------------------------------------------------------
(* What follows from the invariant.                                        *)

LEMMA SortedLists ==
    ASSUME NEW fit, IInv(fit)
    PROVE  ListsSorted
<1>1. PICK line : Lines(line, fit)
  BY DEF IInv
<1>2. ASSUME NEW p \in Peer
      PROVE  /\ \A i, j \in DOMAIN kcb[p].snd_buf :
                  i < j => kcb[p].snd_buf[i].sn < kcb[p].snd_buf[j].sn
             /\ \A i, j \in DOMAIN kcb[p].rcv_buf :
                  i < j => kcb[p].rcv_buf[i].sn < kcb[p].rcv_buf[j].sn
  <2>1. Good(kcb[p], line[p], line[Other(p)])
    BY <1>1 DEF Lines, End
  <2>2. Listed(kcb[p].snd_buf, line[p]) /\ Listed(kcb[p].rcv_buf, line[Other(p)])
    BY <2>1 DEF Good, Snd, Rcv
  <2>3. kcb[p].snd_buf \in Seq(Sent) /\ kcb[p].rcv_buf \in Seq(Arrived)
    BY <2>1 DEF Good, Kcb
  <2>4. /\ DOMAIN kcb[p].snd_buf = 1 .. Len(kcb[p].snd_buf)
        /\ DOMAIN kcb[p].rcv_buf = 1 .. Len(kcb[p].rcv_buf)
    BY <2>3, LenProperties
  <2> QED
    BY <2>2, <2>4 DEF Listed
<1> QED
  BY <1>2 DEF ListsSorted

LEMMA FullQueueHasMessage ==
    ASSUME NEW fit, IInv(fit)
    PROVE  ReassemblyNeverStuck
<1>1. PICK line : Lines(line, fit)
  BY DEF IInv
<1>2. ASSUME NEW q \in Peer, Len(kcb[q].rcv_queue) >= RcvWnd PROVE MessageReady(kcb[q])
  <2>1. PICK w : w = Other(q)
    OBVIOUS
  <2>2. Types
    BY DEF IInv
  <2>3. /\ line[q] \in Seq(Part) /\ line[w] \in Seq(Part)
        /\ Good(kcb[q], line[q], line[w])
        /\ End(kcb[w], kcb[q], line[w], line[q], msgs[w], got[q], net[w], fit)
    BY <1>1, <2>1, <2>2, EndFacts
  <2>4. kcb[w].snd_queue \in Seq(Part)
    BY <2>3 DEF End, Good, Kcb
  <2> DEFINE all   == line[w] \o kcb[w].snd_queue
             queue == kcb[q].rcv_queue
             t     == Taken(kcb[q])
  <2>5. all \in Seq(Part) /\ Good(kcb[q], line[q], all)
    BY <2>3, <2>4, GoodMore, ConcatProperties
  <2>6. Within(all, kcb[w], fit)
    BY <2>3 DEF End, Queued
  <2> HIDE DEF all
  <2>7. t \in Nat /\ queue \in Seq(Part) /\ t + Len(queue) <= Len(all) /\ Slice(queue, all, t)
    BY <2>5, RecvFacts
  <2>8. PICK n \in Nat, a \in Nat : n = Len(queue) /\ a = Len(all) /\ n >= 1 /\ t + 1 <= a
    <3>1. Len(queue) \in Nat /\ Len(all) \in Nat
      BY <2>5, <2>7, LenProperties
    <3>2. Len(queue) >= 1
      BY <1>2, <3>1, Parameters
    <3> QED
      BY <2>7, <3>1, <3>2
  <2>9. queue[1] = all[t + 1]
    <3>1. 1 \in 1 .. n
      BY <2>8
    <3> QED
      BY <2>7, <2>8, <3>1 DEF Slice
  <2>10. all[t + 1].frg < IKCP_WND_RCV
    <3>1. t + 1 \in 1 .. Len(all)
      BY <2>7, <2>8
    <3> QED
      BY <2>6, <3>1 DEF Within
  <2>11. queue[1].frg \in Nat
    <3>1. 1 \in 1 .. Len(queue)
      BY <2>8
    <3>2. queue[1] \in Part
      BY <2>7, <3>1, ElementOfSeq
    <3> QED
      BY <3>2 DEF Part
  <2>12. Len(queue) >= queue[1].frg + 1
    <3>1. queue[1].frg < IKCP_WND_RCV
      BY <2>9, <2>10
    <3>2. n >= RcvWnd
      BY <1>2, <2>8
    <3>3. n >= queue[1].frg + 1
      BY <2>11, <3>1, <3>2, Parameters
    <3> QED
      BY <2>8, <3>3
  <2>13. queue # <<>> /\ Head(queue) = queue[1]
    BY <2>7, <2>8, EmptySeq
  <2> QED
    BY <2>12, <2>13 DEF MessageReady
<1> QED
  BY <1>2 DEF ReassemblyNeverStuck

(* What the invariant says of the messages p has written and the ones its  *)
(* peer has received.                                                      *)
LEMMA ReceivedFacts ==
    ASSUME NEW fit, IInv(fit), NEW p \in Peer, NEW q, q = Other(p)
    PROVE  /\ msgs[p] \in Seq(Data) /\ got[q] \in Seq(Data)
           /\ \E all \in Seq(Part) : \E t \in 0 .. Len(all) :
                Queued(kcb[p], all, t, msgs[p], got[q], fit)
<1>1. PICK line : Lines(line, fit)
  BY DEF IInv
<1>2. Types
  BY DEF IInv
<1>3. /\ msgs[p] \in Seq(Data) /\ got[q] \in Seq(Data)
      /\ line[p] \in Seq(Part) /\ Good(kcb[q], line[q], line[p])
      /\ End(kcb[p], kcb[q], line[p], line[q], msgs[p], got[q], net[p], fit)
  BY <1>1, <1>2, EndFacts
<1>4. kcb[p].snd_queue \in Seq(Part)
  BY <1>3 DEF End, Good, Kcb
<1> DEFINE all == line[p] \o kcb[p].snd_queue
<1>5. all \in Seq(Part) /\ Good(kcb[q], line[q], all)
  BY <1>3, <1>4, GoodMore, ConcatProperties
<1>6. Queued(kcb[p], all, Taken(kcb[q]), msgs[p], got[q], fit)
  BY <1>3 DEF End
<1> HIDE DEF all
<1>7. Taken(kcb[q]) \in 0 .. Len(all)
  BY <1>5, TakenFacts
<1> QED
  BY <1>3, <1>5, <1>6, <1>7

LEMMA ReceivedBytes ==
    ASSUME NEW fit, IInv(fit)
    PROVE  BytesInOrder
<1>1. ASSUME NEW q \in Peer PROVE IsPrefix(FlattenSeq(got[q]), FlattenSeq(msgs[Other(q)]))
  <2>1. PICK p \in Peer : p = Other(q) /\ q = Other(p)
    BY PeerFacts
  <2>2. /\ msgs[p] \in Seq(Data) /\ got[q] \in Seq(Data)
        /\ \E all \in Seq(Part) : \E t \in 0 .. Len(all) :
             Queued(kcb[p], all, t, msgs[p], got[q], fit)
    BY <2>1, ReceivedFacts
  <2>3. PICK all \in Seq(Part) : \E t \in 0 .. Len(all) :
           Queued(kcb[p], all, t, msgs[p], got[q], fit)
    BY <2>2
  <2>4. PICK t \in 0 .. Len(all) : Queued(kcb[p], all, t, msgs[p], got[q], fit)
    BY <2>3
  <2>5. Bytes(all) = FlattenSeq(msgs[p]) /\ Bytes(SubSeq(all, 1, t)) = FlattenSeq(got[q])
    BY <2>4 DEF Queued
  <2> DEFINE head == SubSeq(all, 1, t)
             tail == SubSeq(all, t + 1, Len(all))
  <2>6. head \in Seq(Part) /\ tail \in Seq(Part) /\ head \o tail = all
    BY TakeElements, DropElements, TakeAndDrop
  <2> HIDE DEF head, tail
  <2>7. Bytes(all) = Bytes(head) \o Bytes(tail)
    BY <2>6, BytesConcat
  <2>8. Bytes(head) \in Seq(Byte) /\ Bytes(tail) \in Seq(Byte)
    BY <2>6, BytesType DEF Data
  <2>9. IsPrefix(Bytes(head), Bytes(head) \o Bytes(tail))
    BY <2>8, PrefixOfConcat
  <2> QED
    BY <2>1, <2>5, <2>7, <2>9 DEF head
<1> QED
  BY <1>1 DEF BytesInOrder

LEMMA ReceivedMessages ==
    ASSUME NEW fit, IInv(fit)
    PROVE  MessagesInOrder
<1>1. ASSUME NEW q \in Peer, ~kcb[Other(q)].stream PROVE IsPrefix(got[q], msgs[Other(q)])
  <2>1. PICK p \in Peer : p = Other(q) /\ q = Other(p)
    BY PeerFacts
  <2>2. /\ msgs[p] \in Seq(Data) /\ got[q] \in Seq(Data)
        /\ \E all \in Seq(Part) : \E t \in 0 .. Len(all) :
             Queued(kcb[p], all, t, msgs[p], got[q], fit)
    BY <2>1, ReceivedFacts
  <2>3. PICK all \in Seq(Part) : \E t \in 0 .. Len(all) :
           Queued(kcb[p], all, t, msgs[p], got[q], fit)
    BY <2>2
  <2>4. PICK t \in 0 .. Len(all) : Queued(kcb[p], all, t, msgs[p], got[q], fit)
    BY <2>3
  <2>5. PICK b : Cuts(b, all, msgs[p], got[q], t)
    BY <1>1, <2>1, <2>4 DEF Queued
  <2>6. /\ Len(got[q]) <= Len(msgs[p])
        /\ \A i \in 1 .. Len(got[q]) : got[q][i] = msgs[p][i]
    BY <2>5 DEF Cuts
  <2> QED
    BY <2>1, <2>2, <2>6, PrefixByElements
<1> QED
  BY <1>1 DEF MessagesInOrder

(* The scans of ikcp_parse_una, ikcp_parse_ack and ikcp_shrink_buf, which  *)
(* stop at the first segment beyond theirs, always see sorted lists.       *)
THEOREM ListsStaySorted == Spec => []ListsSorted
<1>1. IInv(FALSE) => ListsSorted
  BY SortedLists
<1> QED
  BY <1>1, Invariance, PTL

(* Whatever the network loses, repeats or reorders, and whatever is cut    *)
(* again or refused, ikcp_recv returns the messages given to ikcp_send,    *)
(* whole, in order and once each, unless the writer is in stream mode.     *)
THEOREM MessagesStayInOrder == Spec => []MessagesInOrder
<1>1. IInv(FALSE) => MessagesInOrder
  BY ReceivedMessages
<1> QED
  BY <1>1, Invariance, PTL

(* In both modes the bytes received are a beginning of the bytes that      *)
(* ikcp_send put in snd_queue.                                             *)
THEOREM BytesStayInOrder == Spec => []BytesInOrder
<1>1. IInv(FALSE) => BytesInOrder
  BY ReceivedBytes
<1> QED
  BY <1>1, Invariance, PTL

(* A full rcv_queue always has a whole message for ikcp_recv, so that the  *)
(* receive window cannot close for ever.                                   *)
THEOREM FullWindowOpens == Spec => []ReassemblyNeverStuck
<1>1. IInv(FALSE) => ReassemblyNeverStuck
  BY FullQueueHasMessage
<1> QED
  BY <1>1, Invariance, PTL

LEMMA SendCwnd ==
    ASSUME NEW k \in Kcb, NEW data
    PROVE  ikcp_send(k, data).kcb.cwnd = k.cwnd
<1>1. ASSUME NEW queue PROVE [k EXCEPT !.snd_queue = queue].cwnd = k.cwnd
  BY DEF Kcb
<1>2. PICK queue : ikcp_send(k, data).kcb = [k EXCEPT !.snd_queue = queue]
  <2>1. \E queue : ikcp_send(k, data).kcb = [k EXCEPT !.snd_queue = queue]
    BY DEF ikcp_send
  <2> QED
    BY <2>1
<1> QED
  BY <1>1, <1>2

LEMMA StepCwnd ==
    ASSUME IInv(FALSE), Next, NEW r \in Peer, kcb[r].cwnd >= 1
    PROVE  kcb'[r].cwnd >= 1
<1>1. FALSE \in BOOLEAN /\ Types
  BY DEF IInv
<1>2. ASSUME NEW p \in Peer, NEW next, kcb' = [kcb EXCEPT ![p] = next],
             kcb[p].cwnd >= 1 => next.cwnd >= 1
      PROVE  kcb'[r].cwnd >= 1
  BY <1>1, <1>2 DEF Types
<1>3. PICK line : Lines(line, FALSE)
  BY DEF IInv
<1>4. ASSUME NEW p \in Peer, NEW q, q = Other(p)
      PROVE  /\ Good(kcb[p], line[p], line[q]) /\ line[q] \in Seq(Part) /\ line[p] \in Seq(Part)
             /\ \A d \in net[p] : Datagram(d, line[q])
  <2>1. /\ Good(kcb[p], line[p], line[q]) /\ line[q] \in Seq(Part) /\ line[p] \in Seq(Part)
        /\ End(kcb[p], kcb[q], line[p], line[q], msgs[p], got[q], net[p], FALSE)
    BY <1>1, <1>3, <1>4, EndFacts
  <2> QED
    BY <2>1 DEF End
<1>5. ASSUME NEW p \in Peer, Send(p) PROVE kcb'[r].cwnd >= 1
  <2>1. PICK len \in MsgLens : kcb' = [kcb EXCEPT ![p] = ikcp_send(kcb[p], Written(p, len)).kcb]
    BY <1>5 DEF Send
  <2>2. PICK next : next = ikcp_send(kcb[p], Written(p, len)).kcb
    OBVIOUS
  <2>3. next.cwnd = kcb[p].cwnd
    <3>1. kcb[p] \in Kcb
      BY <1>1 DEF Types
    <3> QED
      BY <2>2, <3>1, SendCwnd
  <2> QED
    BY <1>2, <2>1, <2>2, <2>3
<1>6. ASSUME NEW p \in Peer, Recv(p) PROVE kcb'[r].cwnd >= 1
  <2>1. PICK q, next : q = Other(p) /\ next = ikcp_recv(kcb[p]).kcb
    OBVIOUS
  <2>2. kcb[p].cwnd >= 1 => next.cwnd >= 1
    BY <1>4, <2>1, RecvGood
  <2>3. kcb' = [kcb EXCEPT ![p] = next]
    BY <1>6, <2>1 DEF Recv
  <2> QED
    BY <1>2, <2>2, <2>3
<1>7. ASSUME NEW p \in Peer, SetMtu(p) PROVE kcb'[r].cwnd >= 1
  <2>1. PICK mtu \in NewMtus[p] : kcb' = [kcb EXCEPT ![p].mtu = mtu]
    BY <1>7 DEF SetMtu
  <2>2. PICK next : next = [kcb[p] EXCEPT !.mtu = mtu]
    OBVIOUS
  <2>3. next.cwnd = kcb[p].cwnd
    BY <1>1, <2>2 DEF Types, Kcb
  <2>4. kcb' = [kcb EXCEPT ![p] = next]
    BY <2>1, <2>2
  <2> QED
    BY <1>2, <2>3, <2>4
<1>8. ASSUME NEW p \in Peer, NEW due, NEW probeDue, Flush(p, due, probeDue)
      PROVE  kcb'[r].cwnd >= 1
  <2>1. PICK l, f, taken, rest : Flushes(p, l, f, taken, rest, FALSE)
    BY <1>1, <1>8, FlushFacts
  <2>2. f.kcb.cwnd >= 1 /\ kcb' = [kcb EXCEPT ![p] = f.kcb]
    BY <2>1 DEF Flushes, Flushed
  <2> QED
    BY <1>2, <2>2
<1>9. ASSUME NEW p \in Peer, NEW datagram \in net[p], Input(p, datagram)
      PROVE  kcb'[r].cwnd >= 1
  <2>1. PICK q, next : q = Other(p) /\ next = ikcp_input(kcb[p], datagram)
    OBVIOUS
  <2>2. /\ Good(kcb[p], line[p], line[q]) /\ line[q] \in Seq(Part)
        /\ Datagram(datagram, line[q])
    BY <1>4, <2>1
  <2>3. Keeps(kcb[p], next)
    BY <2>1, <2>2, InputGood
  <2>4. kcb' = [kcb EXCEPT ![p] = next]
    BY <1>9, <2>1 DEF Input
  <2> QED
    BY <1>2, <2>3, <2>4 DEF Keeps
<1>10. ASSUME NEW p \in Peer, NEW datagram \in net[p], Lose(p, datagram)
       PROVE  kcb'[r].cwnd >= 1
  BY <1>10 DEF Lose
<1> QED
  BY <1>5, <1>6, <1>7, <1>8, <1>9, <1>10 DEF Next

(* Once a flush has opened the congestion window no call of the library    *)
(* closes it again.                                                        *)
THEOREM CongestionWindowStaysOpen == Spec => CwndStaysOpen
<1>1. IInv(FALSE) /\ [Next]_vars =>
        [\A p \in Peer : kcb[p].cwnd >= 1 => kcb'[p].cwnd >= 1]_vars
  BY StepCwnd
<1> QED
  BY <1>1, Invariance, PTL DEF Spec, CwndStaysOpen

LEMMA StepSizes ==
    ASSUME IInv(TRUE), Next, NEW r \in Peer, NEW datagram \in net'[r] \ net[r]
    PROVE  Size(datagram) <= kcb[Other(r)].mtu
<1>1. TRUE \in BOOLEAN /\ Types
  BY DEF IInv
<1>2. ASSUME \A s \in Peer : net'[s] \subseteq net[s] PROVE FALSE
  BY <1>2
<1>3. ASSUME NEW p \in Peer, Send(p) PROVE FALSE
  BY <1>2, <1>3 DEF Send
<1>4. ASSUME NEW p \in Peer, Recv(p) PROVE FALSE
  BY <1>2, <1>4 DEF Recv
<1>5. ASSUME NEW p \in Peer, SetMtu(p) PROVE FALSE
  BY <1>2, <1>5 DEF SetMtu
<1>6. ASSUME NEW p \in Peer, NEW d \in net[p], Input(p, d) PROVE FALSE
  BY <1>1, <1>2, <1>6 DEF Input, Types
<1>7. ASSUME NEW p \in Peer, NEW d \in net[p], Lose(p, d) PROVE FALSE
  BY <1>1, <1>2, <1>7 DEF Lose, Types
<1>8. ASSUME NEW p \in Peer, NEW due, NEW probeDue, Flush(p, due, probeDue)
      PROVE  Size(datagram) <= kcb[Other(r)].mtu
  <2>1. PICK line, f, taken, rest : Flushes(p, line, f, taken, rest, TRUE)
    BY <1>1, <1>8, FlushFacts
  <2>2. PICK q \in Peer : q = Other(p) /\ p = Other(q)
    BY PeerFacts
  <2>3. /\ net' = [net EXCEPT ![q] = net[q] \cup ToSet(f.out)]
        /\ Packs(f.out, Segment(line[p] \o taken), kcb[p].mtu, TRUE)
    BY <2>1, <2>2 DEF Flushes, Flushed
  <2>4. r = q /\ datagram \in ToSet(f.out)
    BY <1>1, <2>3 DEF Types
  <2>5. PICK i \in DOMAIN f.out : datagram = f.out[i]
    BY <2>4 DEF ToSet
  <2>6. i \in 1 .. Len(f.out)
    BY <2>3, <2>5, LenProperties DEF Packs
  <2> QED
    BY <2>2, <2>3, <2>4, <2>5, <2>6 DEF Packs
<1> QED
  BY <1>3, <1>4, <1>5, <1>6, <1>7, <1>8 DEF Next

(* A datagram given to the output callback is no larger than the mtu, when *)
(* no call of ikcp_setmtu makes the mtu smaller while segments cut for the *)
(* larger one are queued.                                                  *)
THEOREM DatagramsFit == Spec /\ [][MtuKept]_vars => DatagramFits
<1>1. IInv(TRUE) /\ [Next]_vars =>
        [\A p \in Peer : \A datagram \in net'[p] \ net[p] :
           Size(datagram) <= kcb[Other(p)].mtu]_vars
  BY StepSizes
<1> QED
  BY <1>1, InvarianceOfSizes, PTL DEF Spec, DatagramFits

-----------------------------------------------------------------------------
(* Acknowledgements.  The numbers in a list; those ikcp_flush gave to      *)
(* segments that have left snd_buf; those of the segments the receiver     *)
(* has or has passed on; those it is going to acknowledge.                 *)
Numbers(list) == {list[i].sn : i \in 1 .. Len(list)}

Gone(k) == {sn \in Nat : sn < k.snd_nxt} \ Numbers(k.snd_buf)
Held(k) == {sn \in Nat : sn < k.rcv_nxt} \cup Numbers(k.rcv_buf)
Acks(k) == {k.acklist[i] : i \in 1 .. Len(k.acklist)}

(* A segment is acknowledged, and leaves snd_buf, only when the peer has   *)
(* it, however many datagrams are lost, repeated or overtaken.             *)
NothingLost == \A p \in Peer : Gone(kcb[p]) \subseteq Held(kcb[Other(p)])

(* The segments that say of the one who sent them what is true of k.       *)
Heard(k) == {s \in Wire : s.una <= k.rcv_nxt /\ (s.cmd = "ACK" => s.sn \in Held(k))}

(* The inductive invariant: acknowledgements are true, in acklist and on   *)
(* their way.                                                              *)
AcksAreTrue ==
    \A p \in Peer :
      /\ Gone(kcb[p]) \subseteq Held(kcb[Other(p)])
      /\ Acks(kcb[p]) \subseteq Held(kcb[p])
      /\ \A d \in net[p] : d \in Seq(Heard(kcb[Other(p)]))

(* What a call may do to these lists, when H is what the peer has.         *)
Advances(k, next, H) ==
    /\ Gone(next) \subseteq Gone(k) \cup H
    /\ Held(k) \subseteq Held(next) /\ k.rcv_nxt <= next.rcv_nxt
    /\ Acks(next) \subseteq Acks(k) \cup Held(next)

LEMMA AdvancesOn ==
    ASSUME NEW H, NEW k \in Kcb, NEW k1 \in Kcb, NEW k2 \in Kcb,
           Advances(k, k1, H), Advances(k1, k2, H)
    PROVE  Advances(k, k2, H)
<1>1. k.rcv_nxt <= k2.rcv_nxt
  <2>1. k.rcv_nxt \in Nat /\ k1.rcv_nxt \in Nat /\ k2.rcv_nxt \in Nat
    BY DEF Kcb
  <2>2. k.rcv_nxt <= k1.rcv_nxt /\ k1.rcv_nxt <= k2.rcv_nxt
    BY DEF Advances
  <2> QED
    BY <2>1, <2>2
<1>2. Held(k) \subseteq Held(k2) /\ Gone(k2) \subseteq Gone(k) \cup H
  BY DEF Advances
<1>3. Acks(k2) \subseteq Acks(k) \cup Held(k2)
  BY DEF Advances
<1> QED
  BY <1>1, <1>2, <1>3 DEF Advances

(* A call that leaves the lists alone.                                     *)
SameLists(k, next) ==
    /\ next.snd_buf = k.snd_buf /\ next.snd_nxt = k.snd_nxt /\ next.rcv_nxt = k.rcv_nxt
    /\ next.rcv_buf = k.rcv_buf /\ next.acklist = k.acklist

LEMMA AdvancesSame ==
    ASSUME NEW H, NEW k \in Kcb, NEW next, SameLists(k, next)
    PROVE  Advances(k, next, H)
<1>1. k.rcv_nxt <= next.rcv_nxt
  BY DEF Kcb, SameLists
<1>2. Gone(next) = Gone(k) /\ Held(next) = Held(k) /\ Acks(next) = Acks(k)
  BY DEF SameLists, Gone, Held, Acks
<1> QED
  BY <1>1, <1>2 DEF Advances

(* A new snd_buf without segments the peer has.                            *)
LEMMA AdvancesSndBuf ==
    ASSUME NEW H, NEW k \in Kcb, NEW buf, Numbers(k.snd_buf) \subseteq Numbers(buf) \cup H
    PROVE  Advances(k, [k EXCEPT !.snd_buf = buf], H)
<1>1. PICK next : next = [k EXCEPT !.snd_buf = buf]
  OBVIOUS
<1>2. /\ next.snd_buf = buf /\ next.snd_nxt = k.snd_nxt /\ next.rcv_nxt = k.rcv_nxt
      /\ next.rcv_buf = k.rcv_buf /\ next.acklist = k.acklist /\ k.rcv_nxt \in Nat
  BY <1>1 DEF Kcb
<1>3. Held(next) = Held(k) /\ Acks(next) = Acks(k) /\ k.rcv_nxt <= next.rcv_nxt
  BY <1>2 DEF Held, Acks
<1>4. Gone(next) \subseteq Gone(k) \cup H
  BY <1>2 DEF Gone
<1>5. Advances(k, next, H)
  BY <1>3, <1>4 DEF Advances
<1> QED
  BY <1>1, <1>5

LEMMA UnaAdvances ==
    ASSUME NEW H, NEW k \in Kcb, NEW una \in Nat, {sn \in Nat : sn < una} \subseteq H
    PROVE  Advances(k, ikcp_parse_una(k, una), H)
<1> DEFINE buf == k.snd_buf
           I == {i \in 1 .. Len(buf) : ~(buf[i].sn < una)}
           m == IF I # {} THEN Min(I) ELSE 0
           d == IF m = 0 THEN <<>> ELSE SubSeq(buf, m, Len(buf))
<1>1. ikcp_parse_una(k, una) = [k EXCEPT !.snd_buf = d]
  BY DEF ikcp_parse_una, DropWhile, SelectInSeq
<1>2. buf \in Seq(Sent) /\ Len(buf) \in Nat /\ \A i \in 1 .. Len(buf) : buf[i].sn \in Nat
  <2>1. buf \in Seq(Sent) /\ Sent \subseteq Numbered
    BY DEF Kcb, Numbered
  <2> QED
    BY <2>1, NumberedSn
<1> HIDE DEF buf
<1>3. ASSUME NEW i \in 1 .. Len(buf), ~(buf[i].sn < una)
      PROVE  \E j \in 1 .. Len(d) : d[j] = buf[i]
  <2>1. I \subseteq Nat /\ i \in I
    BY <1>2, <1>3
  <2>2. Min(I) \in I /\ Min(I) <= i
    <3> HIDE DEF I
    <3> QED
      BY <2>1, MinOfNats
  <2>3. PICK q \in 1 .. Len(buf) : q = Min(I) /\ q <= i
    BY <2>2
  <2>4. m = q /\ m # 0
    BY <1>2, <2>1, <2>3
  <2> HIDE DEF m
  <2>5. PICK n \in 0 .. Len(buf) : n + 1 = q
    <3>1. q - 1 \in 0 .. Len(buf) /\ (q - 1) + 1 = q
      BY <1>2
    <3> QED
      BY <3>1
  <2>6. d = SubSeq(buf, n + 1, Len(buf))
    BY <2>4, <2>5
  <2> HIDE DEF d
  <2>7. Len(d) = Len(buf) - n /\ \A j \in 1 .. Len(buf) - n : d[j] = buf[n + j]
    BY <1>2, <2>6, DropElements
  <2>8. i - n \in 1 .. Len(buf) - n /\ n + (i - n) = i
    BY <1>2, <2>3, <2>5
  <2> QED
    BY <2>7, <2>8
<1> HIDE DEF d
<1>4. Numbers(buf) \subseteq Numbers(d) \cup H
  <2> SUFFICES ASSUME NEW i \in 1 .. Len(buf) PROVE buf[i].sn \in Numbers(d) \cup H
    BY DEF Numbers
  <2>1. CASE buf[i].sn < una
    BY <1>2, <2>1
  <2>2. CASE ~(buf[i].sn < una)
    BY <1>3, <2>2 DEF Numbers
  <2> QED
    BY <2>1, <2>2
<1> QED
  BY <1>1, <1>4, AdvancesSndBuf DEF buf

LEMMA AckAdvances ==
    ASSUME NEW H, NEW k \in Kcb, NEW sn \in H
    PROVE  Advances(k, ikcp_parse_ack(k, sn), H)
<1> DEFINE I == {i \in 1 .. Len(k.snd_buf) : k.snd_buf[i].sn >= sn}
           m == IF I # {} THEN Min(I) ELSE 0
<1>1. ikcp_parse_ack(k, sn)
        = IF Outstanding(k, sn) /\ m # 0 /\ k.snd_buf[m].sn = sn
          THEN [k EXCEPT !.snd_buf = RemoveAt(k.snd_buf, m)]
          ELSE k
  BY DEF ikcp_parse_ack, SelectInSeq
<1>2. k.snd_buf \in Seq(Sent) /\ Len(k.snd_buf) \in Nat
  <2>1. k.snd_buf \in Seq(Sent)
    BY DEF Kcb
  <2> QED
    BY <2>1, LenProperties
<1>3. m = 0 \/ m \in 1 .. Len(k.snd_buf)
  <2>1. I \subseteq Nat /\ I \subseteq 1 .. Len(k.snd_buf)
    BY <1>2
  <2> HIDE DEF I
  <2> QED
    BY <2>1, MinOfNats
<1> HIDE DEF m
<1>4. CASE Outstanding(k, sn) /\ m # 0 /\ k.snd_buf[m].sn = sn
  <2>1. PICK buf, out : buf = k.snd_buf /\ out = RemoveAt(buf, m)
    OBVIOUS
  <2>2. m \in 1 .. Len(buf) /\ buf \in Seq(Sent) /\ Len(buf) \in Nat
    BY <1>2, <1>3, <1>4, <2>1
  <2>3. /\ Len(out) = Len(buf) - 1
        /\ \A j \in 1 .. Len(buf) - 1 : out[j] = IF j < m THEN buf[j] ELSE buf[j + 1]
    BY <2>1, <2>2, RemoveAtElements
  <2>4. ASSUME NEW i \in 1 .. Len(buf) PROVE buf[i].sn \in Numbers(out) \cup H
    <3>1. CASE i < m
      <4>1. i \in 1 .. Len(out) /\ out[i] = buf[i]
        BY <2>2, <2>3, <3>1
      <4> QED
        BY <4>1 DEF Numbers
    <3>2. CASE i = m
      BY <1>4, <2>1, <3>2
    <3>3. CASE i > m
      <4>1. i - 1 \in 1 .. Len(out) /\ ~(i - 1 < m) /\ (i - 1) + 1 = i
        BY <2>2, <2>3, <3>3
      <4>2. out[i - 1] = buf[i]
        BY <2>3, <4>1
      <4> QED
        BY <4>1, <4>2 DEF Numbers
    <3> QED
      BY <2>2, <3>1, <3>2, <3>3
  <2>5. Numbers(k.snd_buf) \subseteq Numbers(out) \cup H
    BY <2>1, <2>4 DEF Numbers
  <2>6. ikcp_parse_ack(k, sn) = [k EXCEPT !.snd_buf = out]
    BY <1>1, <1>4, <2>1
  <2> QED
    BY <2>5, <2>6, AdvancesSndBuf
<1>5. CASE ~(Outstanding(k, sn) /\ m # 0 /\ k.snd_buf[m].sn = sn)
  <2>1. ikcp_parse_ack(k, sn) = k
    BY <1>1, <1>5
  <2> QED
    BY <2>1, AdvancesSame DEF SameLists
<1> QED
  BY <1>4, <1>5

LEMMA FastackAdvances ==
    ASSUME NEW H, NEW k \in Kcb, NEW sn \in Nat
    PROVE  Advances(k, ikcp_parse_fastack(k, sn), H)
<1>1. CASE ~Outstanding(k, sn)
  <2>1. ikcp_parse_fastack(k, sn) = k
    BY <1>1 DEF ikcp_parse_fastack
  <2> QED
    BY <2>1, AdvancesSame DEF SameLists
<1>2. CASE Outstanding(k, sn)
  <2> DEFINE list == k.snd_buf
             buf  == [i \in DOMAIN list |->
                        IF list[i].sn < sn
                        THEN [list[i] EXCEPT !.fastack = Min({@ + 1, FastResend})]
                        ELSE list[i]]
  <2>1. ikcp_parse_fastack(k, sn) = [k EXCEPT !.snd_buf = buf]
    BY <1>2 DEF ikcp_parse_fastack
  <2>2. list \in Seq(Sent) /\ DOMAIN list = 1 .. Len(list) /\ Len(list) \in Nat
    BY LenProperties DEF Kcb
  <2> HIDE DEF list
  <2>3. ASSUME NEW i \in 1 .. Len(list) PROVE buf[i].sn = list[i].sn
    <3>1. list[i] \in Sent
      BY <2>2, ElementOfSeq
    <3> QED
      BY <2>2, <3>1 DEF Sent
  <2>4. Len(buf) = Len(list)
    BY <2>2, LenProperties
  <2> HIDE DEF buf
  <2>5. Numbers(list) \subseteq Numbers(buf)
    BY <2>3, <2>4 DEF Numbers
  <2> QED
    BY <2>1, <2>5, AdvancesSndBuf DEF list
<1> QED
  BY <1>1, <1>2

LEMMA ShrinkBufSame ==
    ASSUME NEW k \in Kcb
    PROVE  SameLists(k, ikcp_shrink_buf(k))
<1> DEFINE una == IF k.snd_buf = <<>> THEN k.snd_nxt ELSE Head(k.snd_buf).sn
<1>1. ikcp_shrink_buf(k) = [k EXCEPT !.snd_una = una]
  BY DEF ikcp_shrink_buf
<1> HIDE DEF una
<1> QED
  BY <1>1 DEF Kcb, SameLists

(* GrowCwnd changes cwnd and incr only.                                    *)
LEMMA GrowCwndSame ==
    ASSUME NEW k \in Kcb
    PROVE  SameLists(k, GrowCwnd(k))
<1>1. \E cwnd, incr : GrowCwnd(k) = k \/ GrowCwnd(k) = [k EXCEPT !.cwnd = cwnd, !.incr = incr]
  BY DEF GrowCwnd
<1>2. PICK cwnd, incr : GrowCwnd(k) = k \/ GrowCwnd(k) = [k EXCEPT !.cwnd = cwnd, !.incr = incr]
  BY <1>1
<1> QED
  BY <1>2 DEF Kcb, SameLists

LEMMA MoveAdvances ==
    ASSUME NEW H, NEW k \in Kcb, Len(k.rcv_queue) <= RcvWnd
    PROVE  Advances(k, MoveToQueue(k), H) /\ Acks(MoveToQueue(k)) = Acks(k)
<1>1. PICK n : n = Max({j \in 0 .. Min({Len(k.rcv_buf), RcvWnd - Len(k.rcv_queue)}) :
                             \A i \in 1 .. j : k.rcv_buf[i].sn = k.rcv_nxt + i - 1})
  OBVIOUS
<1> DEFINE new   == [i \in 1 .. n |-> [frg |-> k.rcv_buf[i].frg, data |-> k.rcv_buf[i].data]]
           queue == k.rcv_queue \o new
<1>2. PICK next, buf : /\ next = MoveToQueue(k) /\ buf = SubSeq(k.rcv_buf, n + 1, Len(k.rcv_buf))
  OBVIOUS
<1>3. next = [k EXCEPT !.rcv_buf = buf, !.rcv_nxt = @ + n, !.rcv_queue = queue]
  BY <1>1, <1>2 DEF MoveToQueue
<1> HIDE DEF queue
<1>4. /\ n \in Nat /\ n <= Len(k.rcv_buf)
      /\ \A i \in 1 .. n : k.rcv_buf[i].sn = k.rcv_nxt + i - 1
  BY <1>1, MoveCount
<1>5. /\ next.rcv_buf = buf /\ next.rcv_nxt = k.rcv_nxt + n /\ next.snd_nxt = k.snd_nxt
      /\ next.snd_buf = k.snd_buf /\ next.acklist = k.acklist
  BY <1>3 DEF Kcb
<1>6. k.rcv_nxt \in Nat /\ k.rcv_buf \in Seq(Arrived) /\ Len(k.rcv_buf) \in Nat
  <2>1. k.rcv_nxt \in Nat /\ k.rcv_buf \in Seq(Arrived)
    BY DEF Kcb
  <2> QED
    BY <2>1, LenProperties
<1>7. /\ Len(buf) = Len(k.rcv_buf) - n
      /\ \A j \in 1 .. Len(k.rcv_buf) - n : buf[j] = k.rcv_buf[n + j]
  <2>1. n \in 0 .. Len(k.rcv_buf)
    BY <1>4, <1>6
  <2> QED
    BY <1>2, <1>6, <2>1, DropElements
<1>8. ASSUME NEW i \in 1 .. Len(k.rcv_buf) PROVE k.rcv_buf[i].sn \in Held(next)
  <2>1. CASE i <= n
    <3>1. k.rcv_buf[i].sn = k.rcv_nxt + i - 1
      BY <1>4, <2>1
    <3>2. k.rcv_nxt + i - 1 \in Nat /\ k.rcv_nxt + i - 1 < k.rcv_nxt + n
      BY <1>4, <1>6, <2>1
    <3> QED
      BY <1>5, <3>1, <3>2 DEF Held
  <2>2. CASE i > n
    <3>1. i - n \in 1 .. Len(k.rcv_buf) - n /\ n + (i - n) = i
      BY <1>4, <1>6, <2>2
    <3>2. i - n \in 1 .. Len(buf) /\ buf[i - n] = k.rcv_buf[i]
      BY <1>7, <3>1
    <3> QED
      BY <1>5, <3>2 DEF Held, Numbers
  <2> QED
    BY <1>4, <2>1, <2>2
<1>9. k.rcv_nxt <= next.rcv_nxt
  BY <1>4, <1>5, <1>6
<1>10. Held(k) \subseteq Held(next)
  <2>1. {sn \in Nat : sn < k.rcv_nxt} \subseteq Held(next)
    BY <1>4, <1>5, <1>6 DEF Held
  <2> QED
    BY <1>8, <2>1 DEF Held, Numbers
<1>11. Gone(next) = Gone(k) /\ Acks(next) = Acks(k)
  BY <1>5 DEF Gone, Acks
<1> QED
  BY <1>2, <1>9, <1>10, <1>11 DEF Advances

(* The scan of ikcp_parse_data loses nothing, and finds or stores seg.     *)
LEMMA InsertNumbers ==
    ASSUME NEW buf \in Seq(Arrived), NEW seg \in Arrived
    PROVE  /\ Numbers(buf) \subseteq Numbers(InsertBySn(buf, seg))
           /\ seg.sn \in Numbers(InsertBySn(buf, seg))
<1> DEFINE I == {i \in 1 .. Len(buf) : buf[i].sn <= seg.sn}
           p == IF I # {} THEN Max(I) ELSE 0
<1>1. InsertBySn(buf, seg)
        = IF p # 0 /\ buf[p].sn = seg.sn THEN buf ELSE InsertAt(buf, p + 1, seg)
  BY DEF InsertBySn, SelectLastInSeq
<1>2. Len(buf) \in Nat
  BY LenProperties
<1>3. p \in 0 .. Len(buf)
  <2>1. I \subseteq Int /\ Len(buf) \in Int /\ \A i \in I : i <= Len(buf)
    BY <1>2
  <2>2. I # {} => Max(I) \in I
    <3> HIDE DEF I
    <3> QED
      BY <2>1, MaxOfInts
  <2> QED
    BY <1>2, <2>2
<1> HIDE DEF p
<1>4. CASE p # 0 /\ buf[p].sn = seg.sn
  <2>1. p \in 1 .. Len(buf)
    BY <1>2, <1>3, <1>4
  <2>2. seg.sn \in Numbers(buf)
    BY <1>4, <2>1 DEF Numbers
  <2> QED
    BY <1>1, <1>4, <2>2
<1>5. CASE ~(p # 0 /\ buf[p].sn = seg.sn)
  <2>0. PICK q \in 1 .. Len(buf) + 1 : q = p + 1
    BY <1>2, <1>3
  <2>1. PICK out : out = InsertBySn(buf, seg)
    OBVIOUS
  <2>2. out = InsertAt(buf, q, seg)
    BY <1>1, <1>5, <2>0, <2>1
  <2>3. /\ Len(out) = Len(buf) + 1
        /\ \A i \in 1 .. Len(buf) + 1 :
             out[i] = IF i < q THEN buf[i] ELSE IF i = q THEN seg ELSE buf[i - 1]
    BY <2>2, InsertAtElements
  <2>4. q \in 1 .. Len(out) /\ out[q] = seg
    BY <1>2, <2>1, <2>3
  <2>5. ASSUME NEW i \in 1 .. Len(buf) PROVE \E j \in 1 .. Len(out) : out[j] = buf[i]
    <3>1. CASE i < q
      <4>1. i \in 1 .. Len(buf) + 1
        BY <1>2
      <4> QED
        BY <2>3, <3>1, <4>1
    <3>2. CASE ~(i < q)
      <4>1. /\ i + 1 \in 1 .. Len(buf) + 1 /\ ~(i + 1 < q) /\ i + 1 # q
            /\ (i + 1) - 1 = i
        BY <1>2, <3>2
      <4>2. out[i + 1] = buf[i]
        BY <2>3, <4>1
      <4> QED
        BY <2>3, <4>1, <4>2
    <3> QED
      BY <3>1, <3>2
  <2> QED
    BY <2>1, <2>4, <2>5 DEF Numbers
<1> QED
  BY <1>4, <1>5

(* What is acknowledged is there: ikcp_ack_push comes before               *)
(* ikcp_parse_data, which refuses only what it has already passed on.      *)
LEMMA PushAdvances ==
    ASSUME NEW H, NEW mine, NEW theirs \in Seq(Part), NEW k, Good(k, mine, theirs),
           NEW seg \in Arrived, Carries(seg, theirs), seg.sn < k.rcv_nxt + RcvWnd
    PROVE  Advances(k, ikcp_parse_data(ikcp_ack_push(k, seg.sn), seg), H)
<1>1. PICK x, y, sn : /\ x = ikcp_ack_push(k, sn) /\ y = ikcp_parse_data(x, seg)
                      /\ sn = seg.sn
  OBVIOUS
<1>2. k \in Kcb /\ k.rcv_nxt \in Nat /\ k.acklist \in Seq(Nat) /\ sn \in Nat /\ RcvWnd \in Nat
  <2>1. k \in Kcb
    BY DEF Good
  <2> QED
    BY <1>1, <2>1, Parameters DEF Kcb, Arrived
<1>3. Good(x, mine, theirs)
  BY <1>1, <1>2, AckPushGood
<1>4. x \in Kcb /\ Len(x.rcv_queue) <= RcvWnd
  BY <1>3 DEF Good, Rcv
<1>5. /\ x.snd_buf = k.snd_buf /\ x.snd_nxt = k.snd_nxt /\ x.rcv_nxt = k.rcv_nxt
      /\ x.rcv_buf = k.rcv_buf /\ x.acklist = Append(k.acklist, sn)
  BY <1>1, <1>2 DEF ikcp_ack_push, Kcb
<1>6. Acks(x) \subseteq Acks(k) \cup {sn}
  <2>1. PICK old, new : old = k.acklist /\ new = x.acklist
    OBVIOUS
  <2>2. /\ old \in Seq(Nat) /\ new = Append(old, sn) /\ Len(old) \in Nat
    BY <1>2, <1>5, <2>1, LenProperties
  <2>3. /\ Len(new) = Len(old) + 1 /\ new[Len(old) + 1] = sn
        /\ \A i \in 1 .. Len(old) : new[i] = old[i]
    BY <1>2, <2>2, AppendProperties
  <2>4. ASSUME NEW i \in 1 .. Len(new) PROVE new[i] \in {old[j] : j \in 1 .. Len(old)} \cup {sn}
    <3>1. i \in 1 .. Len(old) \/ i = Len(old) + 1
      BY <2>2, <2>3
    <3> QED
      BY <2>3, <3>1
  <2> QED
    BY <2>1, <2>4 DEF Acks
<1>7. Gone(x) = Gone(k) /\ Held(x) = Held(k)
  BY <1>5 DEF Gone, Held
<1>8. /\ Gone(y) \subseteq Gone(x) \cup H /\ Held(x) \subseteq Held(y)
      /\ x.rcv_nxt <= y.rcv_nxt /\ Acks(y) = Acks(x) /\ sn \in Held(y)
  <2>1. CASE sn < k.rcv_nxt
    <3>1. y = x
      BY <1>1, <1>5, <2>1 DEF ikcp_parse_data
    <3>2. sn \in Held(x)
      BY <1>2, <1>5, <2>1 DEF Held
    <3> QED
      BY <1>2, <1>5, <3>1, <3>2
  <2>2. CASE ~(sn < k.rcv_nxt)
    <3>1. PICK buf, z : buf = InsertBySn(x.rcv_buf, seg) /\ z = [x EXCEPT !.rcv_buf = buf]
      OBVIOUS
    <3>2. y = MoveToQueue(z)
      <4>1. ~(seg.sn >= x.rcv_nxt + RcvWnd \/ seg.sn < x.rcv_nxt)
        BY <1>1, <1>2, <1>5, <2>2
      <4> QED
        BY <1>1, <3>1, <4>1 DEF ikcp_parse_data
    <3>3. x.rcv_buf \in Seq(Arrived) /\ Listed(x.rcv_buf, theirs)
      BY <1>3 DEF Good, Rcv, Kcb
    <3>4. buf \in Seq(Arrived)
      BY <3>1, <3>3, ListedInsert
    <3>5. /\ z \in Kcb /\ z.snd_buf = x.snd_buf /\ z.snd_nxt = x.snd_nxt
          /\ z.rcv_nxt = x.rcv_nxt /\ z.rcv_buf = buf /\ z.acklist = x.acklist
          /\ z.rcv_queue = x.rcv_queue
      BY <1>4, <3>1, <3>4 DEF Kcb
    <3>6. Numbers(x.rcv_buf) \subseteq Numbers(buf) /\ sn \in Numbers(buf)
      BY <1>1, <3>1, <3>3, InsertNumbers
    <3>7. Held(x) \subseteq Held(z) /\ sn \in Held(z)
      BY <3>5, <3>6 DEF Held
    <3>8. Gone(z) = Gone(x) /\ Acks(z) = Acks(x)
      BY <3>5 DEF Gone, Acks
    <3>9. Len(z.rcv_queue) <= RcvWnd
      BY <1>4, <3>5
    <3>10. Advances(z, y, H) /\ Acks(y) = Acks(z)
      BY <3>2, <3>5, <3>9, MoveAdvances
    <3>11. /\ Gone(y) \subseteq Gone(z) \cup H /\ Held(z) \subseteq Held(y)
           /\ z.rcv_nxt <= y.rcv_nxt
      BY <3>10 DEF Advances
    <3> QED
      BY <3>5, <3>7, <3>8, <3>10, <3>11
  <2> QED
    BY <2>1, <2>2
<1>9. Advances(k, y, H)
  <2>1. Acks(y) \subseteq Acks(k) \cup Held(y)
    BY <1>6, <1>8
  <2> QED
    BY <1>5, <1>7, <1>8, <2>1 DEF Advances
<1> QED
  BY <1>1, <1>9

(* One turn of the loop of ikcp_input, its loop, and the call.             *)
Hears(acc, k, mine, theirs, H) ==
    Loop(acc, k, mine, theirs) /\ Advances(k, acc.kcb, H)

LEMMA InputSegmentAdvances ==
    ASSUME NEW peer, NEW H, H = Held(peer), NEW mine, NEW theirs \in Seq(Part),
           NEW k \in Kcb, NEW acc, Hears(acc, k, mine, theirs, H),
           peer.rcv_nxt \in Nat, NEW seg \in Heard(peer),
           seg.cmd = "PUSH" => seg.data \in Data /\ Carries(seg, theirs)
    PROVE  Hears(InputSegment(acc, seg), k, mine, theirs, H)
<1> DEFINE k1   == [acc.kcb EXCEPT !.rmt_wnd = seg.wnd]
           k2   == ikcp_parse_una(k1, seg.una)
           next == ikcp_shrink_buf(k2)
           kept == [sn |-> seg.sn, frg |-> seg.frg, data |-> seg.data]
           full(x) == x \in Kcb /\ Advances(k, x, H)
<1>1. /\ seg.sn \in Nat /\ seg.frg \in Nat /\ seg.una \in Nat /\ seg.wnd \in Nat
      /\ seg \in Wire /\ seg.una <= peer.rcv_nxt /\ (seg.cmd = "ACK" => seg.sn \in H)
  BY DEF Wire, Heard
<1>2. /\ Good(acc.kcb, mine, theirs) /\ acc.kcb \in Kcb /\ Advances(k, acc.kcb, H)
      /\ acc = [kcb |-> acc.kcb, maxack |-> acc.maxack]
      /\ Loop(acc, k, mine, theirs)
  BY DEF Hears, Loop, Good
<1>3. Good(next, mine, theirs) /\ full(next)
  <2>1. Good(k1, mine, theirs) /\ k1 \in Kcb
    <3>1. Good(k1, mine, theirs)
      BY <1>1, <1>2, RmtWndGood
    <3> HIDE DEF k1
    <3> QED
      BY <3>1 DEF Good
  <2>2. Advances(acc.kcb, k1, H)
    <3>1. SameLists(acc.kcb, k1)
      BY <1>2 DEF Kcb, SameLists
    <3> HIDE DEF k1
    <3> QED
      BY <1>2, <3>1, AdvancesSame
  <2> HIDE DEF k1
  <2>3. Good(k2, mine, theirs) /\ k2 \in Kcb
    <3>1. Good(k2, mine, theirs)
      BY <1>1, <2>1, ParseUnaGood
    <3> HIDE DEF k2
    <3> QED
      BY <3>1 DEF Good
  <2>4. Advances(k1, k2, H)
    <3>1. {sn \in Nat : sn < seg.una} \subseteq H
      BY <1>1 DEF Held
    <3> QED
      BY <1>1, <2>1, <3>1, UnaAdvances
  <2> HIDE DEF k2
  <2>5. Good(next, mine, theirs) /\ next \in Kcb
    <3>1. Good(next, mine, theirs)
      BY <2>3, ShrinkBufGood
    <3> HIDE DEF next
    <3> QED
      BY <3>1 DEF Good
  <2>6. Advances(k2, next, H)
    BY <2>3, ShrinkBufSame, AdvancesSame
  <2> HIDE DEF next
  <2>7. Advances(k, k1, H)
    BY <1>2, <2>1, <2>2, AdvancesOn
  <2>8. Advances(k, k2, H)
    BY <2>1, <2>3, <2>4, <2>7, AdvancesOn
  <2>9. Advances(k, next, H)
    BY <2>3, <2>5, <2>6, <2>8, AdvancesOn
  <2> QED
    BY <2>5, <2>9
<1>4. InputSegment(acc, seg)
        = CASE seg.cmd = "ACK" ->
                 [kcb |-> ikcp_shrink_buf(ikcp_parse_ack(next, seg.sn)),
                  maxack |-> Max({acc.maxack, seg.sn})]
            [] seg.cmd = "PUSH" /\ seg.sn < next.rcv_nxt + RcvWnd ->
                 [acc EXCEPT !.kcb = ikcp_parse_data(ikcp_ack_push(next, seg.sn), kept)]
            [] seg.cmd = "WASK" ->
                 [acc EXCEPT !.kcb = [next EXCEPT !.probe = next.probe \cup {"TELL"}]]
            [] OTHER -> [acc EXCEPT !.kcb = next]
  BY DEF InputSegment
<1>5. Loop(InputSegment(acc, seg), k, mine, theirs)
  BY <1>1, <1>2, InputSegmentGood
<1> HIDE DEF next
<1>6. InputSegment(acc, seg).kcb \in Kcb
  BY <1>5 DEF Loop, Good
<1>7. ASSUME NEW x, InputSegment(acc, seg).kcb = x, x \in Kcb => Advances(next, x, H)
      PROVE  Hears(InputSegment(acc, seg), k, mine, theirs, H)
  <2>1. x \in Kcb /\ next \in Kcb /\ Advances(k, next, H) /\ Advances(next, x, H)
    BY <1>3, <1>6, <1>7
  <2>2. Advances(k, x, H)
    BY <2>1, AdvancesOn
  <2> QED
    BY <1>5, <1>7, <2>2 DEF Hears
<1>8. CASE seg.cmd = "ACK"
  <2>1. PICK x, y : x = ikcp_parse_ack(next, seg.sn) /\ y = ikcp_shrink_buf(x)
    OBVIOUS
  <2>2. InputSegment(acc, seg).kcb = y
    BY <1>4, <1>8, <2>1
  <2>3. x \in Kcb
    <3>1. Good(x, mine, theirs)
      BY <1>1, <1>3, <2>1, ParseAckGood
    <3> QED
      BY <3>1 DEF Good
  <2>4. Advances(next, x, H)
    BY <1>1, <1>3, <1>8, <2>1, AckAdvances
  <2>5. Advances(x, y, H)
    BY <2>1, <2>3, ShrinkBufSame, AdvancesSame
  <2>6. y \in Kcb => Advances(next, y, H)
    BY <1>3, <2>3, <2>4, <2>5, AdvancesOn
  <2> QED
    BY <1>7, <2>2, <2>6
<1>9. CASE seg.cmd = "PUSH" /\ seg.sn < next.rcv_nxt + RcvWnd
  <2>1. PICK s, y : s = kept /\ y = ikcp_parse_data(ikcp_ack_push(next, s.sn), s)
    OBVIOUS
  <2>2. s \in Arrived /\ Carries(s, theirs) /\ s.sn = seg.sn
    BY <1>1, <1>9, <2>1 DEF Arrived, Carries
  <2>3. InputSegment(acc, seg).kcb = y
    <3>1. InputSegment(acc, seg) = [acc EXCEPT !.kcb = y]
      BY <1>4, <1>9, <2>1, <2>2
    <3> QED
      BY <1>2, <3>1
  <2>4. Advances(next, y, H)
    BY <1>3, <1>9, <2>1, <2>2, PushAdvances
  <2> QED
    BY <1>7, <2>3, <2>4
<1>10. CASE seg.cmd = "WASK"
  <2>1. PICK x : x = [next EXCEPT !.probe = next.probe \cup {"TELL"}]
    OBVIOUS
  <2>2. InputSegment(acc, seg).kcb = x
    <3>1. InputSegment(acc, seg) = [acc EXCEPT !.kcb = x]
      BY <1>4, <1>10, <2>1
    <3> QED
      BY <1>2, <3>1
  <2>3. Advances(next, x, H)
    <3>1. SameLists(next, x)
      BY <1>3, <2>1 DEF Kcb, SameLists
    <3> QED
      BY <1>3, <3>1, AdvancesSame
  <2> QED
    BY <1>7, <2>2, <2>3
<1>11. CASE ~(\/ seg.cmd = "ACK" \/ seg.cmd = "WASK"
              \/ seg.cmd = "PUSH" /\ seg.sn < next.rcv_nxt + RcvWnd)
  <2>1. InputSegment(acc, seg).kcb = next
    <3>1. InputSegment(acc, seg) = [acc EXCEPT !.kcb = next]
      BY <1>4, <1>11
    <3> QED
      BY <1>2, <3>1
  <2>2. Advances(next, next, H)
    BY <1>3, AdvancesSame DEF SameLists
  <2> QED
    BY <1>7, <2>1, <2>2
<1> QED
  BY <1>8, <1>9, <1>10, <1>11

LEMMA InputLoopAdvances ==
    ASSUME NEW peer, NEW H, H = Held(peer), peer.rcv_nxt \in Nat,
           NEW mine, NEW theirs \in Seq(Part), NEW k, Good(k, mine, theirs),
           NEW datagram, Datagram(datagram, theirs), datagram \in Seq(Heard(peer))
    PROVE  Hears(InputLoop(k, datagram)[Len(datagram)], k, mine, theirs, H)
<1> DEFINE n   == Len(datagram)
           end == InputLoop(k, datagram)
           T   == {m \in Nat : m \in 0 .. n => Hears(end[m], k, mine, theirs, H)}
<1>1. /\ n \in Nat
      /\ \A i \in 1 .. n : /\ datagram[i] \in Heard(peer)
                           /\ datagram[i].cmd = "PUSH" =>
                                datagram[i].data \in Data /\ Carries(datagram[i], theirs)
  <2>1. datagram \in Seq(Segment(theirs))
    BY DEF Datagram
  <2>2. n \in Nat /\ \A i \in 1 .. n : datagram[i] \in Segment(theirs)
    BY <2>1, LenProperties, ElementOfSeq
  <2>3. \A i \in 1 .. n : datagram[i] \in Heard(peer)
    BY ElementOfSeq
  <2> QED
    BY <2>2, <2>3 DEF Segment
<1>2. \A i \in 0 .. n : end[i] = IF i = 0 THEN [kcb |-> k, maxack |-> -1]
                                 ELSE InputSegment(end[i - 1], datagram[i])
  <2>1. end = [i \in 0 .. n |-> IF i = 0 THEN [kcb |-> k, maxack |-> -1]
                                ELSE InputSegment(end[i - 1], datagram[i])]
    BY <1>1, InputLoopEquation
  <2> HIDE DEF end
  <2> QED
    BY <2>1
<1> HIDE DEF end, n
<1>3. k \in Kcb
  BY DEF Good
<1>4. 0 \in T
  <2>1. end[0] = [kcb |-> k, maxack |-> -1]
    BY <1>1, <1>2
  <2>2. Loop(end[0], k, mine, theirs)
    BY <2>1, KeepsAll DEF Loop
  <2>3. Advances(k, k, H)
    BY <1>3, AdvancesSame DEF SameLists
  <2>4. Hears(end[0], k, mine, theirs, H)
    BY <2>1, <2>2, <2>3 DEF Hears
  <2> QED
    BY <2>4
<1>5. ASSUME NEW m \in Nat, m \in T PROVE m + 1 \in T
  <2> SUFFICES ASSUME m + 1 \in 0 .. n PROVE Hears(end[m + 1], k, mine, theirs, H)
    OBVIOUS
  <2>1. m \in 0 .. n /\ m + 1 \in 1 .. n /\ m + 1 # 0 /\ (m + 1) - 1 = m
    BY <1>1
  <2>2. end[m + 1] = InputSegment(end[m], datagram[m + 1])
    BY <1>2, <2>1
  <2>3. Hears(end[m], k, mine, theirs, H)
    BY <1>5, <2>1
  <2> QED
    BY <1>1, <1>3, <2>1, <2>2, <2>3, InputSegmentAdvances
<1>6. \A m \in T : m \in 0 .. n => Hears(end[m], k, mine, theirs, H)
  OBVIOUS
<1>7. n \in T
  <2>1. \A m \in Nat : m \in T => m + 1 \in T
    BY <1>5
  <2> HIDE DEF T
  <2> QED
    BY <1>1, <1>4, <2>1, NatsByInduction
<1>8. Hears(end[n], k, mine, theirs, H)
  BY <1>1, <1>6, <1>7
<1> QED
  BY <1>8 DEF end, n

LEMMA InputAdvances ==
    ASSUME NEW peer, peer.rcv_nxt \in Nat,
           NEW mine, NEW theirs \in Seq(Part), NEW k, Good(k, mine, theirs),
           NEW datagram, Datagram(datagram, theirs), datagram \in Seq(Heard(peer))
    PROVE  Advances(k, ikcp_input(k, datagram), Held(peer))
<1> DEFINE end == InputLoop(k, datagram)[Len(datagram)]
           k1  == IF end.maxack = -1 THEN end.kcb
                                     ELSE ikcp_parse_fastack(end.kcb, end.maxack)
<1>1. ikcp_input(k, datagram) = IF k1.snd_una > k.snd_una THEN GrowCwnd(k1) ELSE k1
  BY DEF ikcp_input
<1>2. PICK H : H = Held(peer)
  OBVIOUS
<1>3. Hears(end, k, mine, theirs, H)
  <2> HIDE DEF end
  <2> QED
    BY <1>2, InputLoopAdvances DEF end
<1> HIDE DEF end
<1>4. /\ Good(end.kcb, mine, theirs) /\ end.kcb \in Kcb /\ k \in Kcb
      /\ end.maxack \in Nat \cup {-1} /\ Advances(k, end.kcb, H)
  BY <1>3 DEF Hears, Loop, Good
<1>5. k1 \in Kcb /\ Advances(k, k1, H)
  <2>1. CASE end.maxack = -1
    BY <1>4, <2>1
  <2>2. CASE end.maxack # -1
    <3>1. end.maxack \in Nat /\ k1 = ikcp_parse_fastack(end.kcb, end.maxack)
      BY <1>4, <2>2
    <3> HIDE DEF k1
    <3>2. k1 \in Kcb
      <4>1. Good(k1, mine, theirs)
        BY <1>4, <3>1, ParseFastackGood
      <4> QED
        BY <4>1 DEF Good
    <3>3. Advances(end.kcb, k1, H)
      BY <1>4, <3>1, FastackAdvances
    <3> QED
      BY <1>4, <3>2, <3>3, AdvancesOn
  <2> QED
    BY <2>1, <2>2
<1>6. Good(ikcp_input(k, datagram), mine, theirs)
  BY InputGood
<1> HIDE DEF k1
<1>7. CASE k1.snd_una > k.snd_una
  <2>1. PICK next : next = ikcp_input(k, datagram)
    OBVIOUS
  <2>2. next = GrowCwnd(k1) /\ next \in Kcb
    BY <1>1, <1>6, <1>7, <2>1 DEF Good
  <2>3. Advances(k1, next, H)
    BY <1>5, <2>2, GrowCwndSame, AdvancesSame
  <2> QED
    BY <1>2, <1>4, <1>5, <2>1, <2>2, <2>3, AdvancesOn
<1>8. CASE ~(k1.snd_una > k.snd_una)
  BY <1>1, <1>2, <1>5, <1>8
<1> QED
  BY <1>7, <1>8

(* What gets a number goes to snd_buf.                                     *)
LEMMA TakeFromQueueKeeps ==
    ASSUME NEW k \in Kcb, NEW next, next = TakeFromQueue(k)
    PROVE  /\ Gone(next) \subseteq Gone(k)
           /\ next.rcv_nxt = k.rcv_nxt /\ next.rcv_buf = k.rcv_buf /\ next.acklist = k.acklist
<1>1. PICK n : n = Max({0, Min({Len(k.snd_queue), k.snd_una + FlushWindow(k) - k.snd_nxt})})
  OBVIOUS
<1> DEFINE queue == SubSeq(k.snd_queue, n + 1, Len(k.snd_queue))
           new   == [i \in 1 .. n |->
                       [sn |-> k.snd_nxt + i - 1, frg |-> k.snd_queue[i].frg,
                        data |-> k.snd_queue[i].data, xmit |-> 0, fastack |-> 0]]
<1>2. PICK buf : buf = k.snd_buf \o new
  OBVIOUS
<1>3. next = [k EXCEPT !.snd_queue = queue, !.snd_nxt = @ + n, !.snd_buf = buf]
  BY <1>1, <1>2 DEF TakeFromQueue
<1>4. /\ k.snd_queue \in Seq(Part) /\ k.snd_buf \in Seq(Sent) /\ k.snd_nxt \in Nat
      /\ Len(k.snd_queue) \in Nat /\ Len(k.snd_buf) \in Nat
  <2>1. k.snd_queue \in Seq(Part) /\ k.snd_buf \in Seq(Sent) /\ k.snd_nxt \in Nat
    BY DEF Kcb
  <2> QED
    BY <2>1, LenProperties
<1>5. n \in Nat /\ n <= Len(k.snd_queue)
  BY <1>1, TakeCount
<1> HIDE DEF queue
<1>6. /\ next.snd_buf = buf /\ next.snd_nxt = k.snd_nxt + n
      /\ next.rcv_nxt = k.rcv_nxt /\ next.rcv_buf = k.rcv_buf /\ next.acklist = k.acklist
  BY <1>3 DEF Kcb
<1>7. ASSUME NEW i \in 1 .. n PROVE new[i] \in Sent /\ new[i].sn = k.snd_nxt + i - 1
  <2>1. k.snd_queue[i] \in Part
    <3>1. i \in 1 .. Len(k.snd_queue)
      BY <1>4, <1>5
    <3> QED
      BY <1>4, <3>1, ElementOfSeq
  <2>2. new[i] = [sn |-> k.snd_nxt + i - 1, frg |-> k.snd_queue[i].frg,
                  data |-> k.snd_queue[i].data, xmit |-> 0, fastack |-> 0]
    OBVIOUS
  <2>3. k.snd_nxt + i - 1 \in Nat
    BY <1>4, <1>5
  <2> HIDE DEF new
  <2> QED
    BY <2>1, <2>2, <2>3 DEF Part, Sent
<1>8. new \in Seq(Sent) /\ Len(new) = n
  <2>1. new \in [1 .. n -> Sent]
    BY <1>7
  <2> HIDE DEF new
  <2> QED
    BY <1>5, <2>1, FunctionIsSeq
<1> HIDE DEF new
<1>9. /\ Len(buf) = Len(k.snd_buf) + n
      /\ \A i \in 1 .. Len(k.snd_buf) + n :
           buf[i] = IF i <= Len(k.snd_buf) THEN k.snd_buf[i] ELSE new[i - Len(k.snd_buf)]
  BY <1>2, <1>4, <1>8, ConcatProperties
<1>10. Numbers(k.snd_buf) \subseteq Numbers(buf)
  <2>1. ASSUME NEW i \in 1 .. Len(k.snd_buf)
        PROVE  i \in 1 .. Len(buf) /\ buf[i] = k.snd_buf[i]
    <3>1. i \in 1 .. Len(k.snd_buf) + n /\ i <= Len(k.snd_buf)
      BY <1>4, <1>5
    <3> QED
      BY <1>9, <3>1
  <2> QED
    BY <2>1 DEF Numbers
<1>11. ASSUME NEW sn \in Nat, sn < k.snd_nxt + n, ~(sn < k.snd_nxt)
       PROVE  sn \in Numbers(buf)
  <2>1. PICK l \in Nat : l = Len(k.snd_buf)
    BY <1>4
  <2>2. PICK i \in 1 .. n : i = sn - k.snd_nxt + 1
    BY <1>4, <1>5, <1>11
  <2>3. l + i \in 1 .. l + n /\ ~(l + i <= l) /\ (l + i) - l = i
    BY <1>5
  <2>4. buf[l + i] = new[i] /\ l + i \in 1 .. Len(buf)
    BY <1>9, <2>1, <2>3
  <2>5. new[i].sn = sn
    BY <1>4, <1>7, <2>2
  <2> QED
    BY <2>4, <2>5 DEF Numbers
<1>12. Gone(next) \subseteq Gone(k)
  BY <1>4, <1>5, <1>6, <1>10, <1>11 DEF Gone
<1> QED
  BY <1>6, <1>12

(* The congestion window after a flush changes nothing else.               *)
LEMMA ShrinkCwndSame ==
    ASSUME NEW k \in Kcb, NEW window, NEW change, NEW lost
    PROVE  SameLists(k, ShrinkCwnd(k, window, change, lost))
<1> DEFINE half(n) == Max({n \div 2, IKCP_THRESH_MIN})
           fast == half(k.snd_nxt - k.snd_una)
           slow == half(window)
           mss  == Mss(k)
           k1 == IF ~change THEN k
                 ELSE [k EXCEPT !.ssthresh = fast, !.cwnd = fast + FastResend,
                                !.incr = (fast + FastResend) * mss]
           k2 == IF ~lost THEN k1 ELSE [k1 EXCEPT !.ssthresh = slow]
           k3 == IF lost \/ k2.cwnd < 1 THEN [k2 EXCEPT !.cwnd = 1, !.incr = mss] ELSE k2
           like(x) == SameLists(k, x) /\ DOMAIN x = DOMAIN k
<1>1. ShrinkCwnd(k, window, change, lost) = k3
  BY DEF ShrinkCwnd
<1>2. like(k)
  BY DEF SameLists
<1> HIDE DEF half, fast, slow, mss
<1>3. like(k1)
  BY <1>2 DEF Kcb, SameLists
<1> HIDE DEF k1
<1>4. like(k2)
  BY <1>3 DEF Kcb, SameLists
<1> HIDE DEF k2
<1>5. like(k3)
  BY <1>4 DEF Kcb, SameLists
<1> QED
  BY <1>1, <1>5

LEMMA FlushAdvances ==
    ASSUME NEW H, NEW mine \in Seq(Part), NEW theirs, NEW k, Good(k, mine, theirs),
           Acks(k) \subseteq Held(k), NEW due, NEW probeDue,
           NEW r, r = ikcp_flush(k, due, probeDue), r.kcb \in Kcb
    PROVE  /\ Advances(k, r.kcb, H)
           /\ \A d \in ToSet(r.out) : d \in Seq(Heard(r.kcb))
<1> DEFINE k0   == [k EXCEPT !.acklist = <<>>, !.probe = {}, !.probe_wait = (k.rmt_wnd = 0)]
           k1   == TakeFromQueue(k0)
           ask  == Probes(k, probeDue)
           segs == Encodes(k1, k.acklist, ask, due)
           buf  == [i \in DOMAIN k1.snd_buf |-> Transmitted(k1.snd_buf[i], due)]
           fast == \E s \in ToSet(k1.snd_buf) : FastAcked(s, due)
           late == \E s \in ToSet(k1.snd_buf) : TimedOut(s, due)
           dead == \E i \in DOMAIN buf : /\ NeedSend(k1.snd_buf[i], due)
                                         /\ buf[i].xmit >= DeadLink
           k2   == ShrinkCwnd(k1, FlushWindow(k), fast, late)
           k3   == [k2 EXCEPT !.snd_buf = buf, !.dead = k2.dead \/ dead]
           out  == Pack(segs, k.mtu)
<1>1. r = [out |-> out, kcb |-> k3]
  BY DEF ikcp_flush, Encodes
<1>2. k \in Kcb /\ k.acklist \in Seq(Nat) /\ Len(k.acklist) \in Nat /\ k.rcv_nxt \in Nat
  <2>1. k \in Kcb /\ k.acklist \in Seq(Nat) /\ k.rcv_nxt \in Nat
    BY DEF Good, Kcb
  <2> QED
    BY <2>1, LenProperties
<1>3. /\ Good(k0, mine, theirs) /\ k0 \in Kcb
      /\ k0.snd_buf = k.snd_buf /\ k0.snd_nxt = k.snd_nxt /\ k0.rcv_nxt = k.rcv_nxt
      /\ k0.rcv_buf = k.rcv_buf /\ k0.acklist = <<>>
  <2>1. k0 \in Kcb
    <3>1. (k.rmt_wnd = 0) \in BOOLEAN /\ <<>> \in Seq(Nat) /\ {} \in SUBSET {"TELL", "SEND"}
      OBVIOUS
    <3>2. PICK b \in BOOLEAN : b = (k.rmt_wnd = 0)
      BY <3>1
    <3>3. k0 = [k EXCEPT !.acklist = <<>>, !.probe = {}, !.probe_wait = b]
      BY <3>2
    <3> HIDE DEF k0
    <3> QED
      BY <1>2, <3>1, <3>3 DEF Kcb
  <2>2. /\ k0.snd_buf = k.snd_buf /\ k0.snd_nxt = k.snd_nxt /\ k0.rcv_nxt = k.rcv_nxt
        /\ k0.rcv_queue = k.rcv_queue /\ k0.rcv_buf = k.rcv_buf /\ k0.stream = k.stream
        /\ k0.mtu = k.mtu /\ k0.snd_queue = k.snd_queue /\ k0.cwnd = k.cwnd
        /\ k0.acklist = <<>>
    BY <1>2 DEF Kcb
  <2> HIDE DEF k0
  <2> QED
    BY <2>1, <2>2, OtherFields
<1> HIDE DEF k0
<1>4. k1 \in Kcb
  <2>1. PICK n : Good(k1, mine \o SubSeq(k0.snd_queue, 1, n), theirs)
    BY <1>3, TakeFromQueueGood
  <2> QED
    BY <2>1 DEF Good
<1>5. /\ Gone(k1) \subseteq Gone(k) /\ Acks(k1) = {}
      /\ k1.rcv_nxt = k.rcv_nxt /\ k1.rcv_buf = k.rcv_buf
  <2>1. /\ Gone(k1) \subseteq Gone(k0) /\ k1.rcv_nxt = k0.rcv_nxt
        /\ k1.rcv_buf = k0.rcv_buf /\ k1.acklist = k0.acklist
    BY <1>3, TakeFromQueueKeeps
  <2>2. Gone(k0) = Gone(k)
    BY <1>3 DEF Gone
  <2>3. Acks(k1) = {}
    BY <1>3, <2>1 DEF Acks
  <2> QED
    BY <1>3, <2>1, <2>2, <2>3
<1> HIDE DEF k1
<1>6. SameLists(k1, k2)
  BY <1>4, ShrinkCwndSame
<1>7. /\ k1.snd_buf \in Seq(Sent) /\ Len(k1.snd_buf) \in Nat
      /\ DOMAIN k1.snd_buf = 1 .. Len(k1.snd_buf)
  <2>1. k1.snd_buf \in Seq(Sent)
    BY <1>4 DEF Kcb
  <2> QED
    BY <2>1, LenProperties
<1>8. k3.snd_buf = buf /\ k3.snd_nxt = k1.snd_nxt /\ Numbers(buf) = Numbers(k1.snd_buf)
  <2>1. ASSUME NEW i \in 1 .. Len(k1.snd_buf) PROVE buf[i].sn = k1.snd_buf[i].sn
    <3>1. k1.snd_buf[i] \in Sent
      BY <1>7, ElementOfSeq
    <3>2. buf[i] = Transmitted(k1.snd_buf[i], due)
      BY <1>7
    <3> HIDE DEF buf
    <3> QED
      BY <3>1, <3>2, TransmittedFacts DEF Same
  <2>2. Len(buf) = Len(k1.snd_buf)
    BY <1>7, LenProperties
  <2> HIDE DEF buf
  <2>3. Numbers(buf) = Numbers(k1.snd_buf)
    BY <2>1, <2>2 DEF Numbers
  <2>4. r.kcb = k3 /\ r.kcb \in Kcb
    BY <1>1
  <2> HIDE DEF dead
  <2>5. k3.snd_buf = buf /\ k3.snd_nxt = k2.snd_nxt
    BY <2>4 DEF Kcb
  <2> QED
    BY <1>6, <2>3, <2>5 DEF SameLists
<1>9. /\ k3.rcv_nxt = k.rcv_nxt /\ k3.rcv_buf = k.rcv_buf /\ Acks(k3) = {}
  <2>1. r.kcb = k3 /\ r.kcb \in Kcb
    BY <1>1
  <2> HIDE DEF dead, buf
  <2>2. /\ k3.rcv_nxt = k2.rcv_nxt /\ k3.rcv_buf = k2.rcv_buf /\ k3.acklist = k2.acklist
    BY <2>1 DEF Kcb
  <2> HIDE DEF k3, k2
  <2>3. Acks(k3) = Acks(k1)
    BY <1>6, <2>2 DEF Acks, SameLists
  <2> QED
    BY <1>5, <1>6, <2>2, <2>3 DEF SameLists
<1>10. PICK next : next = k3
  OBVIOUS
<1>11. r.kcb = next /\ r.out = out
  BY <1>1, <1>10
<1> HIDE DEF k3, k2, buf, dead
<1>12. Held(next) = Held(k) /\ Gone(next) = Gone(k1) /\ next.rcv_nxt = k.rcv_nxt /\ Acks(next) = {}
  BY <1>8, <1>9, <1>10 DEF Held, Gone
<1>13. Advances(k, next, H)
  BY <1>2, <1>5, <1>12 DEF Advances
<1>14. PICK S : S = Heard(next)
  OBVIOUS
<1>15. ASSUME NEW cmd \in {"ACK", "PUSH", "WASK", "WINS"}, NEW sn \in Nat, NEW frg \in Nat,
              NEW data \in Data \cup {NoData}, cmd = "ACK" => sn \in Held(k)
       PROVE  Encoded(k1, cmd, sn, frg, data) \in S
  <2>1. PICK s : s = Encoded(k1, cmd, sn, frg, data)
    OBVIOUS
  <2>2. s \in Wire /\ s.cmd = cmd /\ s.sn = sn /\ s.una = k1.rcv_nxt
    BY <1>4, <2>1, EncodedFields
  <2>3. s.una <= next.rcv_nxt
    BY <1>2, <1>5, <1>12, <2>2
  <2> QED
    BY <1>12, <1>14, <1>15, <2>1, <2>2, <2>3 DEF Heard
<1>16. ASSUME NEW i \in 1 .. Len(k.acklist)
       PROVE  Encoded(k1, "ACK", k.acklist[i], 0, NoData) \in S
  <2>1. k.acklist[i] \in Nat
    BY <1>2, ElementOfSeq
  <2>2. k.acklist[i] \in Held(k)
    BY DEF Acks
  <2>3. 0 \in Nat /\ NoData \in Data \cup {NoData} /\ "ACK" \in {"ACK", "PUSH", "WASK", "WINS"}
    OBVIOUS
  <2> QED
    BY <1>15, <2>1, <2>2, <2>3
<1>17. ASSUME NEW cmd \in {"WASK", "WINS"} PROVE Encoded(k1, cmd, 0, 0, NoData) \in S
  <2>1. 0 \in Nat /\ NoData \in Data \cup {NoData}
    OBVIOUS
  <2>2. cmd \in {"ACK", "PUSH", "WASK", "WINS"} /\ cmd # "ACK"
    OBVIOUS
  <2> QED
    BY <1>15, <2>1, <2>2
<1>18. ASSUME NEW i \in 1 .. Len(k1.snd_buf)
       PROVE  Encoded(k1, "PUSH", k1.snd_buf[i].sn, k1.snd_buf[i].frg, k1.snd_buf[i].data) \in S
  <2>1. k1.snd_buf[i] \in Sent
    BY <1>7, ElementOfSeq
  <2>2. PICK x : x = k1.snd_buf[i]
    OBVIOUS
  <2>3. x.sn \in Nat /\ x.frg \in Nat /\ x.data \in Data \cup {NoData}
    BY <2>1, <2>2 DEF Sent
  <2>4. "PUSH" \in {"ACK", "PUSH", "WASK", "WINS"} /\ "PUSH" # "ACK"
    OBVIOUS
  <2>5. Encoded(k1, "PUSH", x.sn, x.frg, x.data) \in S
    BY <1>15, <2>3, <2>4
  <2> QED
    BY <2>2, <2>5
<1>19. segs \in Seq(S)
  <2> HIDE DEF ask
  <2> QED
    BY <1>2, <1>7, <1>16, <1>17, <1>18, EncodesIn
<1> HIDE DEF segs
<1>20. Packs(out, S, k.mtu, FALSE)
  <2>1. FALSE \in BOOLEAN
    OBVIOUS
  <2> QED
    BY <1>19, <2>1, PackGood
<1> HIDE DEF out
<1>21. out \in Seq(Seq(S))
  BY <1>20 DEF Packs
<1>22. ASSUME NEW d \in ToSet(r.out) PROVE d \in Seq(S)
  <2>1. PICK i \in DOMAIN out : d = out[i]
    BY <1>11 DEF ToSet
  <2>2. i \in 1 .. Len(out)
    BY <1>21, <2>1, LenProperties
  <2> QED
    BY <1>21, <2>1, <2>2, ElementOfSeq
<1> QED
  BY <1>11, <1>13, <1>14, <1>22

LEMMA RecvAdvances ==
    ASSUME NEW H, NEW mine, NEW theirs, NEW k, Good(k, mine, theirs),
           NEW next, next = ikcp_recv(k).kcb, next \in Kcb
    PROVE  Advances(k, next, H)
<1>1. PICK n, queue, k1, k2 :
        /\ n = Merged(k) /\ queue = SubSeq(k.rcv_queue, n + 1, Len(k.rcv_queue))
        /\ k1 = [k EXCEPT !.rcv_queue = queue] /\ k2 = MoveToQueue(k1)
  OBVIOUS
<1>2. next = FastRecover(k, k2)
  BY <1>1 DEF ikcp_recv
<1>3. k \in Kcb /\ k.rcv_queue \in Seq(Part) /\ Len(k.rcv_queue) <= RcvWnd /\ RcvWnd \in Nat
  BY Parameters DEF Good, Rcv, Kcb
<1>4. n \in 0 .. Len(k.rcv_queue)
  BY <1>1, <1>3, MergedFacts
<1>5. queue \in Seq(Part) /\ Len(queue) <= RcvWnd
  <2>1. queue \in Seq(Part) /\ Len(queue) = Len(k.rcv_queue) - n
    BY <1>1, <1>3, <1>4, DropElements
  <2>2. Len(k.rcv_queue) \in Nat
    BY <1>3, LenProperties
  <2> QED
    BY <1>3, <1>4, <2>1, <2>2
<1>6. k1 \in Kcb /\ SameLists(k, k1) /\ k1.rcv_queue = queue
  BY <1>1, <1>3, <1>5 DEF Kcb, SameLists
<1>7. Advances(k, k1, H)
  BY <1>3, <1>6, AdvancesSame
<1>8. Advances(k1, k2, H)
  BY <1>1, <1>5, <1>6, MoveAdvances
<1>9. k2 \in Kcb /\ SameLists(k2, next)
  <2>1. next = k2 \/ next = [k2 EXCEPT !.probe = k2.probe \cup {"TELL"}]
    BY <1>2 DEF FastRecover
  <2>2. k2 \in Kcb
    <3>1. k2 = [k1 EXCEPT !.rcv_buf = k2.rcv_buf, !.rcv_nxt = k2.rcv_nxt,
                          !.rcv_queue = k2.rcv_queue]
      BY <1>1, <1>6 DEF MoveToQueue, Kcb
    <3>2. next.rcv_buf = k2.rcv_buf /\ next.rcv_nxt = k2.rcv_nxt /\ next.rcv_queue = k2.rcv_queue
      <4>1. CASE next = k2
        BY <4>1
      <4>2. CASE next = [k2 EXCEPT !.probe = k2.probe \cup {"TELL"}]
        <5> DEFINE buf == k2.rcv_buf
                   nxt == k2.rcv_nxt
                   more == k2.rcv_queue
        <5>1. k2 = [k1 EXCEPT !.rcv_buf = buf, !.rcv_nxt = nxt, !.rcv_queue = more]
          BY <3>1
        <5> HIDE DEF buf, nxt, more
        <5>2. DOMAIN k2 = DOMAIN k1
          BY <5>1
        <5>3. /\ "rcv_buf" \in DOMAIN k2 /\ "rcv_nxt" \in DOMAIN k2
              /\ "rcv_queue" \in DOMAIN k2
          BY <1>6, <5>2 DEF Kcb
        <5> QED
          BY <4>2, <5>3
      <4> QED
        BY <2>1, <4>1, <4>2
    <3>3. /\ k2.rcv_buf \in Seq(Arrived) /\ k2.rcv_nxt \in Nat /\ k2.rcv_queue \in Seq(Part)
      BY <3>2 DEF Kcb
    <3> QED
      BY <1>6, <3>1, <3>3 DEF Kcb
  <2> QED
    BY <2>1, <2>2 DEF Kcb, SameLists
<1>10. Advances(k2, next, H)
  BY <1>9, AdvancesSame
<1>11. Advances(k, k2, H)
  BY <1>3, <1>6, <1>7, <1>8, <1>9, AdvancesOn
<1> QED
  BY <1>3, <1>9, <1>10, <1>11, AdvancesOn

LEMMA SendSame ==
    ASSUME NEW k \in Kcb, NEW data
    PROVE  SameLists(k, ikcp_send(k, data).kcb)
<1>1. \E queue : ikcp_send(k, data).kcb = [k EXCEPT !.snd_queue = queue]
  BY DEF ikcp_send
<1>2. PICK queue : ikcp_send(k, data).kcb = [k EXCEPT !.snd_queue = queue]
  BY <1>1
<1> QED
  BY <1>2 DEF Kcb, SameLists

(* A step of one endpoint keeps the acknowledgements of both true.         *)
LEMMA StepAdvances ==
    ASSUME Types, AcksAreTrue, NEW p \in Peer, NEW q, q = Other(p), NEW next \in Kcb,
           kcb' = [kcb EXCEPT ![p] = next], Advances(kcb[p], next, Held(kcb[q])),
           net'[p] \subseteq net[p],
           \A d \in net'[q] : d \in net[q] \/ d \in Seq(Heard(next))
    PROVE  AcksAreTrue'
<1>1. q \in Peer /\ q # p /\ p = Other(q) /\ \A r \in Peer : r = p \/ r = q
  BY PeerFacts
<1>2. kcb'[p] = next /\ kcb'[q] = kcb[q]
  BY <1>1 DEF Types
<1>3. kcb[p] \in Kcb /\ kcb[p].rcv_nxt \in Nat /\ next.rcv_nxt \in Nat
  <2>1. kcb[p] \in Kcb
    BY DEF Types
  <2> QED
    BY <2>1 DEF Kcb
<1>4. /\ Gone(next) \subseteq Gone(kcb[p]) \cup Held(kcb[q])
      /\ Held(kcb[p]) \subseteq Held(next) /\ kcb[p].rcv_nxt <= next.rcv_nxt
      /\ Acks(next) \subseteq Acks(kcb[p]) \cup Held(next)
  BY DEF Advances
<1>5. Heard(kcb[p]) \subseteq Heard(next)
  <2> SUFFICES ASSUME NEW s \in Heard(kcb[p]) PROVE s \in Heard(next)
    OBVIOUS
  <2>1. s \in Wire /\ s.una \in Nat /\ s.una <= kcb[p].rcv_nxt
    BY DEF Heard, Wire
  <2>2. s.una <= next.rcv_nxt
    BY <1>3, <1>4, <2>1
  <2> QED
    BY <1>4, <2>1, <2>2 DEF Heard
<1>6. /\ Gone(next) \subseteq Held(kcb[q]) /\ Acks(next) \subseteq Held(next)
      /\ \A d \in net'[p] : d \in Seq(Heard(kcb[q]))
  BY <1>1, <1>4 DEF AcksAreTrue
<1>7. /\ Gone(kcb[q]) \subseteq Held(next) /\ Acks(kcb[q]) \subseteq Held(kcb[q])
      /\ \A d \in net'[q] : d \in Seq(Heard(next))
  <2>1. /\ Gone(kcb[q]) \subseteq Held(kcb[p]) /\ Acks(kcb[q]) \subseteq Held(kcb[q])
        /\ \A d \in net[q] : d \in Seq(Heard(kcb[p]))
    BY <1>1 DEF AcksAreTrue
  <2>2. \A d \in net[q] : d \in Seq(Heard(next))
    BY <1>5, <2>1, SeqOfMore
  <2> QED
    BY <1>4, <2>1, <2>2
<1>8. ASSUME NEW r \in Peer
      PROVE  /\ Gone(kcb'[r]) \subseteq Held(kcb'[Other(r)])
             /\ Acks(kcb'[r]) \subseteq Held(kcb'[r])
             /\ \A d \in net'[r] : d \in Seq(Heard(kcb'[Other(r)]))
  <2>1. CASE r = p
    BY <1>2, <1>6, <2>1
  <2>2. CASE r = q
    BY <1>1, <1>2, <1>7, <2>2
  <2> QED
    BY <1>1, <2>1, <2>2
<1> QED
  BY <1>8 DEF AcksAreTrue

LEMMA InitAcks ==
    ASSUME Init
    PROVE  AcksAreTrue
<1>1. PICK stream : kcb = [p \in Peer |-> ikcp_create(stream)]
  BY DEF Init
<1>2. net = [p \in Peer |-> {}]
  BY DEF Init
<1>3. ASSUME NEW p \in Peer
      PROVE  Gone(kcb[p]) = {} /\ Acks(kcb[p]) = {} /\ net[p] = {}
  <2>1. kcb[p].snd_nxt = 0 /\ kcb[p].acklist = <<>>
    BY <1>1 DEF ikcp_create
  <2> QED
    BY <1>2, <2>1 DEF Gone, Acks
<1> QED
  BY <1>3 DEF AcksAreTrue

LEMMA NextAcks ==
    ASSUME IInv(FALSE), IInv(FALSE)', AcksAreTrue, [Next]_vars
    PROVE  AcksAreTrue'
<1>1. PICK line : Lines(line, FALSE)
  BY DEF IInv
<1>2. Types /\ Types'
  BY DEF IInv
<1>3. ASSUME NEW p \in Peer, NEW next, kcb' = [kcb EXCEPT ![p] = next]
      PROVE  next \in Kcb
  <2>1. kcb'[p] = next
    BY <1>2, <1>3 DEF Types
  <2> QED
    BY <1>2, <2>1 DEF Types
<1>4. ASSUME NEW p \in Peer
      PROVE  kcb[p] \in Kcb /\ Good(kcb[p], line[p], line[Other(p)]) /\ Other(p) \in Peer
             /\ Other(p) # p /\ line[p] \in Seq(Part) /\ line[Other(p)] \in Seq(Part)
  <2>1. PICK q : q = Other(p)
    OBVIOUS
  <2> QED
    BY <1>1, <1>2, <2>1, EndFacts
<1>5. ASSUME NEW p \in Peer, NEW next, kcb' = [kcb EXCEPT ![p] = next],
             SameLists(kcb[p], next), net' = net
      PROVE  AcksAreTrue'
  <2>1. next \in Kcb
    BY <1>3, <1>5
  <2>2. PICK q : q = Other(p)
    OBVIOUS
  <2>3. Advances(kcb[p], next, Held(kcb[q]))
    BY <1>4, <1>5, AdvancesSame
  <2> QED
    BY <1>2, <1>5, <2>1, <2>2, <2>3, StepAdvances
<1>6. ASSUME NEW p \in Peer, Send(p) PROVE AcksAreTrue'
  <2>1. PICK len \in MsgLens :
          kcb' = [kcb EXCEPT ![p] = ikcp_send(kcb[p], Written(p, len)).kcb]
    BY <1>6 DEF Send
  <2>2. SameLists(kcb[p], ikcp_send(kcb[p], Written(p, len)).kcb) /\ net' = net
    BY <1>4, <1>6, SendSame DEF Send
  <2> QED
    BY <1>5, <2>1, <2>2
<1>7. ASSUME NEW p \in Peer, SetMtu(p) PROVE AcksAreTrue'
  <2>1. PICK mtu : kcb' = [kcb EXCEPT ![p].mtu = mtu]
    BY <1>7 DEF SetMtu
  <2>2. PICK next : next = [kcb[p] EXCEPT !.mtu = mtu]
    OBVIOUS
  <2>3. kcb' = [kcb EXCEPT ![p] = next] /\ net' = net
    BY <1>7, <2>1, <2>2 DEF SetMtu
  <2>4. SameLists(kcb[p], next)
    BY <1>4, <2>2 DEF Kcb, SameLists
  <2> QED
    BY <1>5, <2>3, <2>4
<1>8. ASSUME NEW p \in Peer, Recv(p) PROVE AcksAreTrue'
  <2>1. PICK q, next : q = Other(p) /\ next = ikcp_recv(kcb[p]).kcb
    OBVIOUS
  <2>2. kcb' = [kcb EXCEPT ![p] = next] /\ net' = net
    BY <1>8, <2>1 DEF Recv
  <2>3. next \in Kcb
    BY <1>3, <2>2
  <2>4. Advances(kcb[p], next, Held(kcb[q]))
    BY <1>4, <2>1, <2>3, RecvAdvances
  <2> QED
    BY <1>2, <2>1, <2>2, <2>3, <2>4, StepAdvances
<1>9. ASSUME NEW p \in Peer, NEW due, NEW probeDue, Flush(p, due, probeDue) PROVE AcksAreTrue'
  <2>1. PICK q, r : q = Other(p) /\ r = ikcp_flush(kcb[p], due, probeDue)
    OBVIOUS
  <2>2. /\ kcb' = [kcb EXCEPT ![p] = r.kcb]
        /\ net' = [net EXCEPT ![q] = net[q] \cup ToSet(r.out)]
    BY <1>9, <2>1 DEF Flush
  <2>3. r.kcb \in Kcb
    BY <1>3, <2>2
  <2>4. Acks(kcb[p]) \subseteq Held(kcb[p])
    BY DEF AcksAreTrue
  <2>5. /\ Advances(kcb[p], r.kcb, Held(kcb[q]))
        /\ \A d \in ToSet(r.out) : d \in Seq(Heard(r.kcb))
    BY <1>4, <2>1, <2>3, <2>4, FlushAdvances
  <2>6. net'[p] = net[p] /\ net'[q] = net[q] \cup ToSet(r.out)
    BY <1>2, <1>4, <2>1, <2>2 DEF Types
  <2> QED
    BY <1>2, <2>1, <2>2, <2>3, <2>5, <2>6, StepAdvances
<1>10. ASSUME NEW p \in Peer, NEW datagram \in net[p], Input(p, datagram) PROVE AcksAreTrue'
  <2>1. PICK q, next : q = Other(p) /\ next = ikcp_input(kcb[p], datagram)
    OBVIOUS
  <2>2. /\ kcb' = [kcb EXCEPT ![p] = next]
        /\ net' = [net EXCEPT ![p] = net[p] \ {datagram}] \/ net' = net
    BY <1>10, <2>1 DEF Input
  <2>3. next \in Kcb
    BY <1>3, <2>2
  <2>4. Datagram(datagram, line[q])
    BY <1>1, <2>1 DEF Lines, End
  <2>5. datagram \in Seq(Heard(kcb[q]))
    BY <2>1 DEF AcksAreTrue
  <2>6. kcb[q].rcv_nxt \in Nat
    <3>1. kcb[q] \in Kcb
      BY <1>4, <2>1
    <3> QED
      BY <3>1 DEF Kcb
  <2>7. Advances(kcb[p], next, Held(kcb[q]))
    BY <1>4, <2>1, <2>4, <2>5, <2>6, InputAdvances
  <2>8. net'[p] \subseteq net[p] /\ net'[q] = net[q]
    BY <1>2, <1>4, <2>1, <2>2 DEF Types
  <2> QED
    BY <1>2, <2>1, <2>2, <2>3, <2>7, <2>8, StepAdvances
<1>11. ASSUME NEW p \in Peer, NEW datagram \in net[p], Lose(p, datagram) PROVE AcksAreTrue'
  <2>1. kcb' = kcb /\ \A r \in Peer : net'[r] \subseteq net[r]
    BY <1>2, <1>11 DEF Lose, Types
  <2> QED
    BY <2>1 DEF AcksAreTrue
<1>12. CASE UNCHANGED vars
  BY <1>12 DEF vars, AcksAreTrue
<1>13. CASE Next
  BY <1>6, <1>7, <1>8, <1>9, <1>10, <1>11, <1>13 DEF Next
<1> QED
  BY <1>12, <1>13

(* Whatever the network loses, repeats or delays, each segment that        *)
(* ikcp_flush gave a number is in snd_buf until the peer has it: a una, an *)
(* ACK that arrives late or twice, and several of them in one datagram     *)
(* never take from snd_buf what ikcp_input at the other end has refused.   *)
THEOREM AcknowledgedIsHeld == Spec => []NothingLost
<1>1. Init => AcksAreTrue
  BY InitAcks
<1>2. IInv(FALSE) /\ IInv(FALSE)' /\ AcksAreTrue /\ [Next]_vars => AcksAreTrue'
  BY NextAcks
<1>3. AcksAreTrue => NothingLost
  BY DEF AcksAreTrue, NothingLost
<1> QED
  BY <1>1, <1>2, <1>3, Invariance, PTL DEF Spec
=============================================================================
