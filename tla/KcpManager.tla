----------------------------- MODULE KcpManager -----------------------------
(***************************************************************************)
(* The manager of kcpmanager.cpp: sessions are added by any thread, wait   *)
(* in mWaitingQueue, and are bound by the first thread that comes through  *)
(* idle(): a context, a recurring timer for outputRoutine and an epoll     *)
(* registration for inputRoutine, all with that thread's id.               *)
(*                                                                         *)
(* The threads' loop is that of KScheduler, the timers are those of        *)
(* KTimer; what is left of them here is that a thread takes a task that is *)
(* meant for it before it calls idle(), and that every timer is due now    *)
(* and then.  One turn of idle() is Enter (the section under mQueueMutex   *)
(* begins), Bind and EpollAdd for each session that waits, BindDone, Near  *)
(* (getNearTimeout) and Wake (epoll_wait returns; timers and events become *)
(* tasks).                                                                 *)
(*                                                                         *)
(* Only NOTINIT occurs in mWaitingQueue: a session that is there cannot be *)
(* looked up without the assertion of KcpCompare, so that delKcp never     *)
(* comes to write REMOVE.                                                  *)
(***************************************************************************)
EXTENDS Integers, FiniteSets, Sequences, SequencesExt

CONSTANTS
    Threads,
    NoThread,           \* the tid of a context that was never bound
    Kcps,               \* sessions, each with a socket of its own
    NoKcp,
    Setups              \* [size, calls]: values of epoll_event_size, with a
                        \* bound on the calls of addKcp for each session

ASSUME ManagerBounds == /\ IsFiniteSet(Threads) /\ Threads # {}
                        /\ NoThread \notin Threads /\ NoKcp \notin Kcps
                        /\ Setups \subseteq [size : Nat, calls : [Kcps -> Nat]]

VARIABLES
    setup,              \* the one in use, a member of Setups
    adding,             \* sessions for which addKcp has passed its first test
    mWaitingQueue,
    mContextVec,        \* for each session's socket: tid, and whether read.cb is set
    timers,             \* the timers in the set: session, number of the addKcp,
                        \* tid, and whether there is a callback
    epoll,              \* the sessions registered with mEpollFd
    ready,              \* those with a read event no epoll_wait has returned
    eventfd,            \* the same for mEventFd
    mEventCount, localEventCount,
    at,                 \* where each thread is; the name of a routine it runs
    kcp,                \* the session it binds, or whose routine it runs
    timed,              \* its epoll_wait has a timeout
    tasks,              \* the scheduler's queue: routines, each with its tid
    asserted,           \* an assertion has ended the program
    adds                \* history: calls of addKcp that returned true

epoll_event_size == setup.size
maxEvents == epoll_event_size \div Cardinality(Threads) + 1

bindVars == <<mContextVec, epoll, mEventCount, localEventCount>>
addVars == <<adding, adds, asserted>>
threadVars == <<at, kcp, timed>>
vars == <<setup, addVars, mWaitingQueue, bindVars, timers, ready, eventfd, threadVars, tasks>>

Init ==
    /\ setup \in Setups
    /\ adding = {} /\ mWaitingQueue = {}
    /\ mContextVec = [s \in Kcps |-> [tid |-> NoThread, cb |-> FALSE]]
    /\ timers = {} /\ epoll = {} /\ ready = {} /\ eventfd = FALSE
    /\ mEventCount = 0
    /\ localEventCount = [t \in Threads |-> 0]
    /\ at = [t \in Threads |-> "loop"]
    /\ kcp = [t \in Threads |-> NoKcp]
    /\ timed = [t \in Threads |-> FALSE]
    /\ tasks = <<>> /\ asserted = FALSE
    /\ adds = [s \in Kcps |-> 0]

Go(t, from, to) == at[t] = from /\ at' = [at EXCEPT ![t] = to]

QueueLocked == \E t \in Threads : at[t] \in {"bind", "register"}

InRoutine(t) == at[t] \in {"input", "output"}
InIdle(t) == ~InRoutine(t) /\ at[t] # "loop"

(* tickle(): the event is written if some thread is in idle().             *)
Tickled == eventfd \/ \E t \in Threads : InIdle(t)

-----------------------------------------------------------------------------
(* The application.                                                        *)

(* addKcp tests mEventCount before it has the lock.                        *)
AddKcp(s) ==
    /\ s \notin adding /\ adds[s] < setup.calls[s]
    /\ mEventCount < epoll_event_size
    /\ adding' = adding \cup {s}
    /\ UNCHANGED <<setup, adds, asserted, mWaitingQueue, bindVars, timers, ready, eventfd,
                   threadVars, tasks>>

(* mWaitingQueue.insert: KcpCompare asserts that the session is not there. *)
AddKcpInsert(s) ==
    /\ s \in adding /\ ~QueueLocked
    /\ adding' = adding \ {s}
    /\ IF s \in mWaitingQueue
       THEN asserted' = TRUE /\ UNCHANGED <<adds, mWaitingQueue>>
       ELSE /\ mWaitingQueue' = mWaitingQueue \cup {s}
            /\ adds' = [adds EXCEPT ![s] = @ + 1]
            /\ UNCHANGED asserted
    /\ UNCHANGED <<setup, bindVars, timers, ready, eventfd, threadVars, tasks>>

(* delKcp: mWaitingQueue.find asserts it as well; a session that is not    *)
(* waiting is not found and nothing happens.                               *)
DelKcp(s) ==
    /\ ~QueueLocked
    /\ asserted' = (s \in mWaitingQueue)
    /\ UNCHANGED <<setup, adding, adds, mWaitingQueue, bindVars, timers, ready, eventfd,
                   threadVars, tasks>>

(* A datagram reaches the socket of a session.                             *)
Datagram(s) ==
    /\ s \in epoll
    /\ ready' = ready \cup {s}
    /\ UNCHANGED <<setup, addVars, mWaitingQueue, bindVars, timers, eventfd, threadVars, tasks>>

-----------------------------------------------------------------------------
(* The threads.                                                            *)

(* Mutant: a task may be taken by any thread.                              *)
MineAny(t) == Len(tasks)

(* The place of the first task threadloop may take, 0 if there is none.    *)
Mine(t) == SelectInSeq(tasks, LAMBDA k : k.tid = t)

(* threadloop resumes a routine of a session, and wakes a thread if it     *)
(* leaves tasks behind.                                                    *)
RunRoutine(t) ==
    /\ Mine(t) # 0
    /\ LET k == tasks[Mine(t)]
       IN  Go(t, "loop", k.routine) /\ kcp' = [kcp EXCEPT ![t] = k.kcp]
    /\ tasks' = RemoveAt(tasks, Mine(t))
    /\ eventfd' = IF Len(tasks) = 1 THEN eventfd ELSE Tickled
    /\ UNCHANGED <<setup, addVars, mWaitingQueue, bindVars, timers, ready, timed>>

RoutineReturns(t) ==
    /\ InRoutine(t) /\ Go(t, at[t], "loop")
    /\ kcp' = [kcp EXCEPT ![t] = NoKcp]
    /\ UNCHANGED <<setup, addVars, mWaitingQueue, bindVars, timers, ready, eventfd, timed, tasks>>

(* Mutant: a thread with a session binds no other.                         *)
BelowShareNone(t) == localEventCount[t] = 0

BelowShare(t) == localEventCount[t] < maxEvents

(* idle() has the lock; a thread with its share of sessions binds no more. *)
Enter(t) ==
    /\ ~QueueLocked /\ Mine(t) = 0
    /\ Go(t, "loop", IF BelowShare(t) THEN "bind" ELSE "near")
    /\ eventfd' = IF tasks = <<>> THEN eventfd ELSE Tickled
    /\ UNCHANGED <<setup, addVars, mWaitingQueue, bindVars, timers, ready, kcp, timed, tasks>>

(* Mutant: only addKcp looks at the limit.                                 *)
RoomAlways == TRUE

Room == mEventCount < epoll_event_size

(* NOTINIT, up to addTimer: the context is filled in, and the timer is in  *)
(* the set, where another thread may find it due.  The first timer wakes a *)
(* thread (onTimerInsertedAtFront), a later one if it is before the others.*)
Bind(t) ==
    /\ Room
    /\ \E s \in mWaitingQueue :
         /\ kcp' = [kcp EXCEPT ![t] = s]
         /\ mContextVec' = [mContextVec EXCEPT ![s] = [tid |-> t, cb |-> TRUE]]
         /\ timers' = timers \cup
              {[kcp |-> s, n |-> adds[s], tid |-> t, cb |-> TRUE]}
    /\ eventfd' \in IF timers = {} THEN {TRUE} ELSE {eventfd, TRUE}
    /\ Go(t, "bind", "register")
    /\ UNCHANGED <<setup, addVars, mWaitingQueue, epoll, mEventCount, localEventCount,
                   ready, timed, tasks>>

Leaves(t) ==
    /\ Go(t, "register", "bind")
    /\ kcp' = [kcp EXCEPT ![t] = NoKcp]
    /\ mWaitingQueue' = mWaitingQueue \ {kcp[t]}
    /\ UNCHANGED <<setup, addVars, ready, eventfd, timed, tasks>>

EpollAdd(t) ==
    /\ at[t] = "register" /\ kcp[t] \notin epoll
    /\ epoll' = epoll \cup {kcp[t]}
    /\ mEventCount' = mEventCount + 1
    /\ localEventCount' = [localEventCount EXCEPT ![t] = @ + 1]
    /\ Leaves(t)
    /\ UNCHANGED <<mContextVec, timers>>

(* Mutant: the timer is left as it is.                                     *)
CancelNot(s) == timers

(* timer->cancel(): it stays in the set, without a callback.               *)
Cancel(s) ==
    {IF tm.kcp = s /\ tm.n = adds[s] THEN [tm EXCEPT !.cb = FALSE] ELSE tm : tm \in timers}

(* epoll_ctl fails: with EEXIST for a session that is registered, or for   *)
(* want of memory.                                                         *)
EpollAddFails(t) ==
    /\ at[t] = "register"
    /\ mContextVec' = [mContextVec EXCEPT ![kcp[t]].cb = FALSE]
    /\ timers' = Cancel(kcp[t])
    /\ Leaves(t)
    /\ UNCHANGED <<epoll, mEventCount, localEventCount>>

BindDone(t) ==
    /\ Go(t, "bind", "near")
    /\ mWaitingQueue = {} \/ ~Room
    /\ UNCHANGED <<setup, addVars, mWaitingQueue, bindVars, timers, ready, eventfd, kcp,
                   timed, tasks>>

(* stopping(timeoutms), then epoll_wait.                                   *)
Near(t) ==
    /\ Go(t, "near", "wait")
    /\ timed' = [timed EXCEPT ![t] = timers # {}]
    /\ UNCHANGED <<setup, addVars, mWaitingQueue, bindVars, timers, ready, eventfd, kcp, tasks>>

(* listExpiredTimer and schedule.                                          *)
OutputTask(tm) == [kcp |-> tm.kcp, routine |-> "output", tid |-> tm.tid]

(* triggerEvent.                                                           *)
InputTask(s) == [kcp |-> s, routine |-> "input", tid |-> mContextVec[s].tid]

(* Mutant: a timer does not recur.                                         *)
TimersAfterOnce(due) == timers \ due

(* A timer without a callback is dropped, the others are set again.        *)
TimersAfter(due) == timers \ {tm \in due : ~tm.cb}

(* epoll_wait returns, for an event or after its timeout.  The callbacks   *)
(* of the timers due, in some order, and then those of the sockets that    *)
(* are ready are scheduled; a routine that waits already is not repeated   *)
(* here.  The first one in the queue writes the event, before or after     *)
(* this thread reads it.                                                   *)
Wake(t, due) ==
    /\ Go(t, "wait", "loop")
    /\ eventfd \/ ready # {} \/ timed[t]
    /\ \E outputs \in SetToSeqs({OutputTask(tm) : tm \in {u \in due : u.cb}} \ ToSet(tasks)),
          inputs \in SetToSeqs({InputTask(s) : s \in {r \in ready : mContextVec[r].cb}}
                                \ ToSet(tasks)) :
         tasks' = tasks \o outputs \o inputs
    /\ eventfd' \in IF tasks = <<>> /\ tasks' # <<>> THEN {~eventfd, TRUE} ELSE {FALSE}
    /\ timers' = TimersAfter(due)
    /\ ready' = {}
    /\ timed' = [timed EXCEPT ![t] = FALSE]
    /\ UNCHANGED <<setup, addVars, mWaitingQueue, bindVars, kcp>>

Step(t) ==
    \/ RunRoutine(t) \/ RoutineReturns(t)
    \/ Enter(t) \/ Bind(t) \/ EpollAdd(t) \/ EpollAddFails(t) \/ BindDone(t) \/ Near(t)
    \/ \E due \in SUBSET timers : Wake(t, due)

Next ==
    /\ ~asserted
    /\ \/ \E s \in Kcps : AddKcp(s) \/ AddKcpInsert(s) \/ DelKcp(s) \/ Datagram(s)
       \/ \E t \in Threads : Step(t)

Spec == Init /\ [][Next]_vars

(* The threads run, a call of addKcp that has begun goes on, routines      *)
(* return, and each timer becomes due (KTimer).                            *)
FairSpec ==
    /\ Spec
    /\ \A t \in Threads : WF_vars(~asserted /\ Step(t))
    /\ \A s \in Kcps :
         SF_vars(/\ ~asserted
                 /\ \E t \in Threads, due \in SUBSET timers :
                      /\ \E tm \in due : tm.kcp = s /\ tm.cb
                      /\ Wake(t, due))

-----------------------------------------------------------------------------
(* Properties.                                                             *)

(* A session for which addKcp returned true once: a second time binds it   *)
(* to another thread, fails with EEXIST and takes away its read event.     *)
AddedOnce(s) == adds[s] <= 1

(* mEventCount and the shares of the threads count the registered          *)
(* sessions, each with the thread it is bound to, and the limit of         *)
(* epoll_event_size is kept, however many sessions addKcp let in while few *)
(* were bound.                                                             *)
CountsRegistered ==
    /\ mEventCount = Cardinality(epoll) /\ mEventCount <= epoll_event_size
    /\ (\A s \in Kcps : AddedOnce(s)) =>
         \A t \in Threads :
           localEventCount[t] = Cardinality({s \in epoll : mContextVec[s].tid = t})

(* One thread at a time is busy with a session, binding it or running its  *)
(* routines, which take no lock for the control block (KcpSession relies   *)
(* on it), although timers and events are found by any thread.             *)
AloneWithSession ==
    \A t, u \in Threads :
      t # u /\ kcp[t] = kcp[u] /\ kcp[t] # NoKcp => ~AddedOnce(kcp[t])

(* A session that has been bound has all three of registration, read event *)
(* and a live timer, with one tid, or none of them.                        *)
BoundOrNot ==
    \A s \in Kcps : adds[s] = 1 /\ s \notin mWaitingQueue =>
      LET live == {tm \in timers : tm.kcp = s /\ tm.cb}
      IN  IF s \in epoll
          THEN mContextVec[s].cb /\ {tm.tid : tm \in live} = {mContextVec[s].tid}
          ELSE ~mContextVec[s].cb /\ live = {}

(* kcpmanager.cpp:110: what waits is put into epoll.  When every thread    *)
(* sleeps without a timeout and nothing will wake it, no session waits.    *)
NoneUnseen ==
    (eventfd = FALSE /\ \A t \in Threads : at[t] = "wait" /\ ~timed[t])
      => mWaitingQueue = {}

(* A session that waits is bound in the end if a thread that has sessions  *)
(* of its own, and room for another, keeps coming through idle().          *)
WaitingIsBound ==
    \A s \in Kcps :
      (s \in mWaitingQueue /\ \E t \in Threads : localEventCount[t] \in 1 .. maxEvents - 1)
        ~> (s \notin mWaitingQueue \/ ~Room \/ asserted)

(* outputRoutine, and with it ikcp_update, of a session that is registered *)
(* runs again and again.                                                   *)
OutputGoesOn ==
    \A s \in Kcps :
      s \in epoll ~> (asserted \/ \E t \in Threads : at[t] = "output" /\ kcp[t] = s)
=============================================================================
