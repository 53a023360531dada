------------------------------ MODULE IkcpOwner ------------------------------
(***************************************************************************)
(* Ikcp with the owner kcp.cpp is: its calls come from two routines that   *)
(* one thread runs one at a time.  inputRoutine passes on the datagrams    *)
(* there are and then receives at most one message, and none at all while  *)
(* no read event comes; outputRoutine sends and flushes.  What Ikcp allows *)
(* a reader to do at any time this one does once for each event, so that   *)
(* several messages may wait in rcv_queue for an event that never comes.   *)
(* kcp.cpp leaves the mtu alone.                                           *)
(***************************************************************************)
EXTENDS Ikcp

VARIABLES
    reading     \* the endpoints whose inputRoutine is running

ownerVars == <<vars, reading>>

OwnerInit == Init /\ reading = {}

-----------------------------------------------------------------------------
(* inputRoutine.                                                           *)

(* A read event, or a turn of the loop of the routine it started, with a   *)
(* datagram of the conversation.                                           *)
ReadInput(q, datagram) ==
    /\ Input(q, datagram)
    /\ reading' = reading \cup {q}

(* A read event with no datagram of the conversation: another routine read *)
(* it before, conv is not ours, or recvfrom fails.                         *)
ReadNothing(q) ==
    /\ reading' = reading \cup {q}
    /\ UNCHANGED vars

(* ikcp_peeksize returns more than 0.                                      *)
Receives(q) ==
    /\ MessageReady(kcb[q])
    /\ ikcp_recv(kcb[q]).data # <<>>

(* The end of inputRoutine: one message at most.                           *)
ReadOnce(q) ==
    /\ q \in reading
    /\ reading' = reading \ {q}
    /\ \/ Receives(q) /\ Recv(q)
       \/ ~Receives(q) /\ UNCHANGED vars

-----------------------------------------------------------------------------
(* outputRoutine, on the same thread.                                      *)

Writes(p) == p \notin reading /\ Send(p) /\ UNCHANGED reading

FlushDue(p, due, probeDue) ==
    p \notin reading /\ Flush(p, due, probeDue) /\ UNCHANGED reading

Lost(q, datagram) == Lose(q, datagram) /\ UNCHANGED reading

OwnerNext ==
    \/ \E p \in Peer : ReadNothing(p) \/ ReadOnce(p) \/ Writes(p)
    \/ \E p \in Peer : \E due \in SUBSET Sns(p), probeDue \in BOOLEAN :
         FlushDue(p, due, probeDue)
    \/ \E q \in Peer : \E datagram \in net[q] :
         ReadInput(q, datagram) \/ Lost(q, datagram)

OwnerSpec == OwnerInit /\ [][OwnerNext]_ownerVars

-----------------------------------------------------------------------------
(* Fairness.  inputRoutine returns.  The timer that kcpmanager.cpp:143     *)
(* installs calls ikcp_update for ever (kcp.cpp:169), and the resendts of  *)
(* the oldest segment and ts_probe pass in the end; the thread runs what   *)
(* is scheduled in order, so that read events do not keep outputRoutine    *)
(* out for ever (strong fairness of its flushes).  The network keeps       *)
(* nothing for ever; it may lose any datagram, but not every one that      *)
(* carries the oldest segment, an acknowledgement, a probe or its answer,  *)
(* if those are sent for ever.  A read event need never come without such  *)
(* a datagram, and nothing is received only because it is there.           *)
(*                                                                         *)
(* Can... is when the action can be taken and changes something: what      *)
(* ENABLED says, which takes TLC too long for flushes and datagrams.       *)

CanFlush(p, due, probeDue) ==
    /\ p \notin reading
    /\ \E r \in {ikcp_flush(kcb[p], due, probeDue)} :
         /\ Cardinality(net[Other(p)] \cup ToSet(r.out)) <= NetCap[Other(p)]
         /\ r.kcb # kcb[p] \/ ~(ToSet(r.out) \subseteq net[Other(p)])

FlushOldest(p) ==
    \E due \in SUBSET Sns(p), probeDue \in BOOLEAN :
        kcb[p].snd_una \in due /\ FlushDue(p, due, probeDue)
CanFlushOldest(p) ==
    \E due \in SUBSET Sns(p), probeDue \in BOOLEAN :
        kcb[p].snd_una \in due /\ CanFlush(p, due, probeDue)

FlushProbe(p) == \E due \in SUBSET Sns(p) : FlushDue(p, due, TRUE)
CanFlushProbe(p) == \E due \in SUBSET Sns(p) : CanFlush(p, due, TRUE)

Carries(q, datagram, cmd) ==
    \E i \in DOMAIN datagram :
      /\ datagram[i].cmd = cmd
      /\ cmd = "PUSH" => datagram[i].sn = kcb[Other(q)].snd_una

Arrives(q, cmd) ==
    \E datagram \in net[q] : Carries(q, datagram, cmd) /\ ReadInput(q, datagram)
CanArrive(q, cmd) ==
    \E datagram \in net[q] : Carries(q, datagram, cmd) /\ AckRoom(q, datagram)

Leaves(q) ==
    \E datagram \in net[q] : ReadInput(q, datagram) \/ Lost(q, datagram)

Writers == {p \in Peer : MaxMsgs[p] > 0}

Fairness ==
    /\ \A p \in Peer :
         /\ WF_ownerVars(ReadOnce(p))
         /\ <>[](net[p] # {}) => []<><<Leaves(p)>>_ownerVars
         /\ []<>CanFlushProbe(p) => []<><<FlushProbe(p)>>_ownerVars
    /\ \A p \in Writers :
         /\ []<>CanFlushOldest(p) => []<><<FlushOldest(p)>>_ownerVars
         /\ []<>CanArrive(Other(p), "PUSH") => []<><<Arrives(Other(p), "PUSH")>>_ownerVars
         /\ []<>CanArrive(p, "ACK") => []<><<Arrives(p, "ACK")>>_ownerVars
         /\ []<>CanArrive(Other(p), "WASK") => []<><<Arrives(Other(p), "WASK")>>_ownerVars
         /\ []<>CanArrive(p, "WINS") => []<><<Arrives(p, "WINS")>>_ownerVars

FairSpec == OwnerSpec /\ Fairness

-----------------------------------------------------------------------------
(* Properties.                                                             *)

(* The messages that wait whole in rcv_queue.                              *)
Unread(q) == {i \in DOMAIN kcb[q].rcv_queue : kcb[q].rcv_queue[i].frg = 0}

(* Every message written reaches the peer whole and every segment is       *)
(* acknowledged, so that ikcp_waitsnd comes back to zero, although the     *)
(* network loses datagrams, the window of the peer closes, what would tell *)
(* of its opening may be lost, and the peer takes one message for each     *)
(* read event: it makes room in the end, because the probes of a sender    *)
(* that waits are read events too.  Whether the last messages are received *)
(* or stay in rcv_queue depends on how many events they came in.           *)
EveryMessageArrives ==
    \A p \in Writers :
        []<>(/\ Len(got[Other(p)]) + Cardinality(Unread(Other(p))) = Len(msgs[p])
             /\ kcb[p].snd_queue = <<>> /\ kcb[p].snd_buf = <<>>)
=============================================================================
