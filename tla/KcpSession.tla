----------------------------- MODULE KcpSession -----------------------------
(***************************************************************************)
(* A pair of Kcp objects (kcp.cpp): the queue that Kcp::send fills from    *)
(* any thread, the outputRoutine a timer runs and the inputRoutine a read  *)
(* event runs, both on the thread the object is bound to, so that at most  *)
(* one of them is running.                                                 *)
(*                                                                         *)
(* The pair of control blocks is the channel of segments of KcpChannel     *)
(* (which Arq implements) plus what ikcp_peeksize can see of it: a         *)
(* datagram may complete any number of the segments the peer has queued    *)
(* and the window has room for.  epoll is edge triggered: a datagram that  *)
(* arrives sets an event, and the manager's loop turns an event into a     *)
(* scheduled inputRoutine.                                                 *)
(*                                                                         *)
(* A message is [n, frags]: the n-th one sent, cut into frags segments; 0  *)
(* is the empty message, which takes a segment as well.                    *)
(***************************************************************************)
EXTENDS Integers, Sequences, FiniteSets, SequencesExt, FiniteSetsExt

CONSTANTS
    A, B,           \* the endpoints
    Sizes,          \* numbers of segments of the messages sent
    IKCP_WND_RCV,   \* ikcp_send refuses this many segments and more
    RcvWnd,         \* mAttr.recvWndSize
    MaxSent,        \* bound: messages sent per endpoint
    SocketCap,      \* bound: datagrams in the socket, those beyond are lost
    TaskCap         \* bound: inputRoutines waiting in the scheduler's queue

ASSUME SessionSizes ==
    /\ Sizes \subseteq Nat /\ IKCP_WND_RCV \in Nat /\ RcvWnd \in Nat
    /\ RcvWnd >= IKCP_WND_RCV      \* ikcp_wndsize
    /\ MaxSent \in [{A, B} -> Nat] /\ SocketCap \in Nat /\ TaskCap \in Nat

Peer == {A, B}
Other(p) == IF p = A THEN B ELSE A

VARIABLES
    sent,           \* history: the messages passed to Kcp::send
    mSendBufQueue,
    queue,          \* the local list of the running outputRoutine
    taken,          \* history: the messages passed to ikcp_send
    stream,         \* the segments ikcp_send accepted
    ready,          \* how many segments of the peer entered rcv_queue
    received,       \* how many segments ikcp_recv returned
    called,         \* history: the messages mRecvEvent was called with
    at,             \* the routine that is running, and where it is
    socket,         \* datagrams in the socket
    event,          \* epoll has an event for the socket
    tasks,          \* inputRoutines scheduled
    cutOff          \* history: an error of recvfrom ended the last reading
                    \* with datagrams left, and none has come since

queueVars == <<sent, mSendBufQueue>>
outputVars == <<queue, taken, stream>>
inputVars == <<ready, received, called>>
wakeVars == <<socket, event, tasks, cutOff>>
vars == <<queueVars, outputVars, inputVars, at, wakeVars>>

Init ==
    /\ sent = [p \in Peer |-> <<>>] /\ mSendBufQueue = sent
    /\ queue = sent /\ taken = sent /\ stream = sent /\ called = sent
    /\ ready = [p \in Peer |-> 0] /\ received = ready
    /\ socket = ready /\ tasks = ready
    /\ at = [p \in Peer |-> "none"]
    /\ event = [p \in Peer |-> FALSE] /\ cutOff = event

-----------------------------------------------------------------------------
(* Sending.                                                                *)

(* Kcp::send, from any thread, the callback of inputRoutine included.      *)
Send(p) ==
    /\ Len(sent[p]) < MaxSent[p]
    /\ \E frags \in Sizes :
         LET m == [n |-> Len(sent[p]) + 1, frags |-> frags]
         IN  /\ sent' = [sent EXCEPT ![p] = Append(@, m)]
             /\ mSendBufQueue' = [mSendBufQueue EXCEPT ![p] = Append(@, m)]
    /\ UNCHANGED <<outputVars, inputVars, at, wakeVars>>

(* Mutant: the queue is copied and not moved from.                         *)
LeftInQueueAll(p) == mSendBufQueue[p]

LeftInQueue(p) == <<>>

(* outputRoutine starts: queue = std::move(mSendBufQueue) under the lock.  *)
OutputTake(p) ==
    /\ at[p] = "none"
    /\ at' = [at EXCEPT ![p] = "output"]
    /\ queue' = [queue EXCEPT ![p] = mSendBufQueue[p]]
    /\ mSendBufQueue' = [mSendBufQueue EXCEPT ![p] = LeftInQueue(p)]
    /\ UNCHANGED <<sent, taken, stream, inputVars, wakeVars>>

Accepted(m) == m.frags < IKCP_WND_RCV

(* ikcp_send's segments of a message (not in stream mode).                 *)
Segments(m) ==
    LET count == Max({1, m.frags})
    IN  [i \in 1 .. count |-> [m |-> m, frg |-> count - i]]

(* One turn of outputRoutine's loop: what ikcp_send refuses is logged and  *)
(* dropped.                                                                *)
OutputSend(p) ==
    /\ at[p] = "output" /\ queue[p] # <<>>
    /\ \E m \in {Head(queue[p])} :
         /\ taken' = [taken EXCEPT ![p] = Append(@, m)]
         /\ stream' = IF Accepted(m)
                      THEN [stream EXCEPT ![p] = @ \o Segments(m)] ELSE stream
    /\ queue' = [queue EXCEPT ![p] = Tail(@)]
    /\ UNCHANGED <<queueVars, inputVars, at, wakeVars>>

(* ikcp_update; from here on datagrams carry what was sent.                *)
OutputDone(p) ==
    /\ at[p] = "output" /\ queue[p] = <<>>
    /\ at' = [at EXCEPT ![p] = "none"]
    /\ UNCHANGED <<queueVars, outputVars, inputVars, wakeVars>>

-----------------------------------------------------------------------------
(* Receiving.                                                              *)

(* A datagram reaches the socket of q: data, or an acknowledgement.  The   *)
(* event it sets is for all that the socket holds.                         *)
Datagram(q) ==
    /\ stream[A] # <<>> \/ stream[B] # <<>>
    /\ socket[q] < SocketCap
    /\ socket' = [socket EXCEPT ![q] = @ + 1]
    /\ event' = [event EXCEPT ![q] = TRUE]
    /\ cutOff' = [cutOff EXCEPT ![q] = FALSE]
    /\ UNCHANGED <<queueVars, outputVars, inputVars, at, tasks>>

(* KcpManager::idle: epoll_wait returns the event, triggerEvent schedules  *)
(* inputRoutine.                                                           *)
TriggerEvent(q) ==
    /\ event[q] /\ tasks[q] < TaskCap
    /\ event' = [event EXCEPT ![q] = FALSE]
    /\ tasks' = [tasks EXCEPT ![q] = @ + 1]
    /\ UNCHANGED <<queueVars, outputVars, inputVars, at, socket, cutOff>>

InputStart(q) ==
    /\ at[q] = "none" /\ tasks[q] > 0
    /\ tasks' = [tasks EXCEPT ![q] = @ - 1]
    /\ at' = [at EXCEPT ![q] = "drain"]
    /\ cutOff' = [cutOff EXCEPT ![q] = FALSE]
    /\ UNCHANGED <<queueVars, outputVars, inputVars, socket, event>>

(* What rcv_queue may hold once the first done segments were received.     *)
MayBeReady(q, done) ==
    ready[q] .. Max({ready[q], Min({Len(stream[Other(q)]), done + RcvWnd})})

(* A turn of inputRoutine's loop: recvfrom, the test of conv, ikcp_input.  *)
(* A datagram of another conversation, or one with nothing new, leaves     *)
(* ready as it is.                                                         *)
Recvfrom(q) ==
    /\ at[q] = "drain" /\ socket[q] > 0
    /\ socket' = [socket EXCEPT ![q] = @ - 1]
    /\ \E n \in MayBeReady(q, received[q]) : ready' = [ready EXCEPT ![q] = n]
    /\ UNCHANGED <<queueVars, outputVars, received, called, at, event, tasks,
                   cutOff>>

(* Mutant: one datagram is read for each read event.                       *)
StopReadingAnyTime(q) == TRUE

(* recvfrom returns EAGAIN.                                                *)
StopReading(q) == socket[q] = 0

InputDrained(q) ==
    /\ at[q] = "drain" /\ StopReading(q)
    /\ at' = [at EXCEPT ![q] = "recv"]
    /\ UNCHANGED <<queueVars, outputVars, inputVars, wakeVars>>

(* recvfrom returns another error, whatever the socket holds: it is logged *)
(* and ends the loop as EAGAIN does.                                       *)
RecvfromFails(q) ==
    /\ at[q] = "drain"
    /\ at' = [at EXCEPT ![q] = "recv"]
    /\ cutOff' = [cutOff EXCEPT ![q] = socket[q] > 0]
    /\ UNCHANGED <<queueVars, outputVars, inputVars, socket, event, tasks>>

(* The segment at the head of rcv_queue.                                   *)
FirstReady(q) == stream[Other(q)][received[q] + 1]

(* ikcp_peeksize is not below zero.                                        *)
Whole(q) ==
    /\ ready[q] > received[q]
    /\ ready[q] >= received[q] + FirstReady(q).frg + 1

(* The end of inputRoutine: one message, if its size is above zero.        *)
InputRecv(q) ==
    /\ at[q] = "recv"
    /\ at' = [at EXCEPT ![q] = "none"]
    /\ IF Whole(q) /\ FirstReady(q).m.frags > 0
       THEN \E end \in {received[q] + FirstReady(q).frg + 1} :
              /\ received' = [received EXCEPT ![q] = end]
              /\ called' = [called EXCEPT ![q] = Append(@, FirstReady(q).m)]
              /\ \E n \in MayBeReady(q, end) : ready' = [ready EXCEPT ![q] = n]
       ELSE UNCHANGED inputVars
    /\ UNCHANGED <<queueVars, outputVars, wakeVars>>

Next ==
    \E p \in Peer :
      \/ Send(p) \/ OutputTake(p) \/ OutputSend(p) \/ OutputDone(p)
      \/ Datagram(p) \/ TriggerEvent(p) \/ InputStart(p) \/ Recvfrom(p)
      \/ InputDrained(p) \/ RecvfromFails(p) \/ InputRecv(p)

Spec == Init /\ [][Next]_vars

-----------------------------------------------------------------------------
(* Properties.                                                             *)

(* Every message passed to Kcp::send, from whatever thread and at whatever *)
(* moment of outputRoutine, is passed to ikcp_send once and in the order   *)
(* of the calls.                                                           *)
QueueKeepsAll ==
    \A p \in Peer : sent[p] = taken[p] \o queue[p] \o mSendBufQueue[p]

(* mRecvEvent is called with the messages of the peer, whole, once and in  *)
(* the order sent; only those that ikcp_send refused are missing.          *)
CallbacksInOrder ==
    \A q \in Peer :
      LET calls == called[q]
          messages == sent[Other(q)]
      IN  /\ \A k \in DOMAIN calls :
               /\ calls[k].n \in DOMAIN messages /\ calls[k] = messages[calls[k].n]
               /\ Accepted(calls[k])
          /\ \A j, k \in DOMAIN calls : j < k => calls[j].n < calls[k].n
          /\ \A n \in DOMAIN messages, k \in DOMAIN calls :
               Accepted(messages[n]) /\ n <= calls[k].n
                 => \E j \in 1 .. k : calls[j] = messages[n]

(* A datagram waits in the socket with nothing under way to read it only   *)
(* after an error of recvfrom, and then only until the next datagram comes *)
(* (the loop ends on every error, the edge-triggered event is consumed     *)
(* before inputRoutine runs, and datagrams arrive while it does).          *)
NoDatagramForgotten ==
    \A q \in Peer :
      socket[q] > 0 =>
        event[q] \/ tasks[q] > 0 \/ at[q] = "drain" \/ cutOff[q]
=============================================================================
