------------------------------- MODULE KTimer -------------------------------
(***************************************************************************)
(* The timers of ktimer.cpp and the threads of the manager that sleep      *)
(* until the nearest of them (KcpManager::idle in kcpmanager.cpp).         *)
(*                                                                         *)
(* mTimers is a std::set ordered by (mTime, mUniqueId); it is kept here as *)
(* the sequence an iteration over it yields.  KTimer::cancel changes mTime *)
(* of a timer that stays in the set, without the lock of the set, so the   *)
(* sequence need not be sorted: a later insert then lands at a place whose *)
(* two neighbours the comparison accepts (both are on the path of any      *)
(* search that ends there) and, when the tree has three nodes, on the side *)
(* of its root, the middle one.  The shape of larger trees is left open.   *)
(*                                                                         *)
(* A section under mTimerRWMutex is one step, except that of               *)
(* listExpiredTimer, which takes the timers one at a time because cancel   *)
(* may come between two of them.                                           *)
(***************************************************************************)
EXTENDS Integers, Sequences, FiniteSets, SequencesExt, FiniteSetsExt

CONSTANTS
    Threads,    \* the threads that run KcpManager::idle
    Delays,     \* what addTimer is called with: ms
    Recycles,   \* and recycle, 0 for a timer that fires once
    Cancels,    \* TRUE: the owner of a timer may call KTimer::cancel
    Never,      \* UINT64_MAX, the timeout when there is no timer
    NoThread,
    MaxTimers,  \* bound: timers created
    MaxNow      \* bound: the last time modelled; below Never

ASSUME TimerBounds ==
    /\ Delays \subseteq Nat /\ Recycles \subseteq Nat
    /\ MaxTimers \in Nat /\ MaxNow \in Nat /\ Never \in Nat /\ Never > MaxNow
    /\ Threads # {} /\ NoThread \notin Threads

Id == 1 .. MaxTimers    \* mUniqueId

VARIABLES
    now,        \* KTimer::CurrentTime
    timer,      \* by mUniqueId, the KTimer objects; <<>> at first
    mTimers,    \* the set of timers, as the order of an iteration
    mTickle,    \* onTimerInsertedAtFront was called since getNearTimeout
    at,         \* where each thread is in KcpManager::idle
    timeout,    \* the time until which each thread lets epoll_wait sleep
    nowMS,      \* the time each thread's listExpiredTimer read
    expired,    \* the timers listExpiredTimer took from the set and has not
                \* looked at
    writer,     \* the thread that holds mTimerRWMutex for writing
    tickles,    \* calls of onTimerInsertedAtFront not finished
    eventfd,    \* mEventFd has an event no epoll_wait has returned
    listed,     \* history: how often each callback was listed
    made,       \* history: each timer as it was created
    gone        \* history: timers delTimer was called for

threadVars == <<at, timeout, nowMS>>
history == <<listed, made, gone>>
vars == <<now, timer, mTimers, mTickle, threadVars, expired, writer, tickles,
          eventfd, history>>

Created == DOMAIN timer

Init ==
    /\ now = 1 /\ timer = <<>> /\ mTimers = <<>> /\ mTickle = FALSE
    /\ at = [t \in Threads |-> "busy"]
    /\ timeout = [t \in Threads |-> 0]
    /\ nowMS = [t \in Threads |-> 0]
    /\ expired = <<>> /\ writer = NoThread
    /\ tickles = 0 /\ eventfd = FALSE
    /\ listed = [i \in Id |-> 0] /\ made = <<>> /\ gone = {}

(* KTimer::Comparator, on the times and unique ids of two timers.          *)
Before(time1, i, time2, j) == time1 < time2 \/ (time1 = time2 /\ i < j)

(* Where mTimers.insert may put timer i when its time is time.             *)
Places(i, time) ==
    {p \in 1 .. Len(mTimers) + 1 :
       /\ p > 1 => Before(timer[mTimers[p - 1]].mTime, mTimers[p - 1], time, i)
       /\ p <= Len(mTimers) => Before(time, i, timer[mTimers[p]].mTime, mTimers[p])
       /\ Len(mTimers) = 3 =>
            (p <= 2) = Before(time, i, timer[mTimers[2]].mTime, mTimers[2])}

-----------------------------------------------------------------------------
(* The owners of timers.                                                   *)

(* Mutant: the first timer of an empty set wakes nobody.                   *)
AtFrontOfSome(place) == place = 1 /\ ~mTickle /\ mTimers # <<>>

(* addTimer: the new timer is the first, and no wake-up is on its way.     *)
AtFront(place) == place = 1 /\ ~mTickle

(* KTimerManager::addTimer, up to the unlock.                              *)
AddTimer(ms, recycle) ==
    LET i  == Len(timer) + 1
        tm == [mTime |-> now + ms, mRecycleTime |-> recycle, mCb |-> TRUE]
    IN  /\ i \in Id /\ writer = NoThread
        /\ timer' = Append(timer, tm)
        /\ made' = Append(made, tm)
        /\ \E place \in Places(i, tm.mTime) :
             /\ mTimers' = InsertAt(mTimers, place, i)
             /\ mTickle' = (mTickle \/ AtFront(place))
             /\ tickles' = IF AtFront(place) THEN tickles + 1 ELSE tickles
        /\ UNCHANGED <<now, threadVars, expired, writer, eventfd, listed, gone>>

(* KcpManager::tickle writes the eventfd only if some thread is idle.      *)
Tickle ==
    /\ tickles > 0
    /\ tickles' = tickles - 1
    /\ eventfd' = (eventfd \/ \E t \in Threads : at[t] # "busy")
    /\ UNCHANGED <<now, timer, mTimers, mTickle, threadVars, expired, writer,
                   history>>

(* KTimer::cancel: it takes the timer's own mutex, not that of the set.    *)
Cancel(i) ==
    /\ Cancels
    /\ timer[i].mCb
    /\ timer' = [timer EXCEPT ![i] =
                   [mTime |-> 0, mRecycleTime |-> 0, mCb |-> FALSE]]
    /\ UNCHANGED <<now, mTimers, mTickle, threadVars, expired, writer, tickles,
                   eventfd, history>>

(* Mutant: delTimer does not wait for the lock.                            *)
MayDeleteAnyTime == TRUE

MayDelete == writer = NoThread

(* KTimerManager::delTimer: a search through the set, from its start.      *)
DelTimer(i) ==
    /\ MayDelete /\ i \notin gone
    /\ gone' = gone \cup {i}
    /\ LET place == SelectInSeq(mTimers, LAMBDA j : j = i)
       IN  mTimers' = IF place = 0 THEN mTimers ELSE RemoveAt(mTimers, place)
    /\ UNCHANGED <<now, timer, mTickle, threadVars, expired, writer, tickles,
                   eventfd, listed, made>>

-----------------------------------------------------------------------------
(* One turn of KcpManager::idle.                                           *)

(* threadloop has no task and resumes the idle fiber.                      *)
Idle(t) ==
    /\ at[t] = "busy"
    /\ at' = [at EXCEPT ![t] = "near"]
    /\ UNCHANGED <<now, timer, mTimers, mTickle, timeout, nowMS, expired, writer,
                   tickles, eventfd, history>>

(* Mutant: mTickle is left as it is.                                       *)
MTickleAfterNearKept == mTickle

MTickleAfterNear == FALSE

(* KTimerManager::getNearTimeout, then epoll_wait with what it returned.   *)
GetNearTimeout(t) ==
    /\ at[t] = "near" /\ writer = NoThread
    /\ at' = [at EXCEPT ![t] = "wait"]
    /\ mTickle' = MTickleAfterNear
    /\ timeout' = [timeout EXCEPT ![t] =
                     IF mTimers = <<>> THEN Never
                     ELSE Max({now, timer[Head(mTimers)].mTime})]
    /\ UNCHANGED <<now, timer, mTimers, nowMS, expired, writer, tickles, eventfd,
                   history>>

(* epoll_wait returns, for the eventfd or after its timeout, and           *)
(* listExpiredTimer reads the time.                                        *)
Wake(t) ==
    /\ at[t] = "wait"
    /\ \/ eventfd /\ eventfd' = FALSE
       \/ now >= timeout[t] /\ UNCHANGED eventfd
    /\ at' = [at EXCEPT ![t] = "list"]
    /\ nowMS' = [nowMS EXCEPT ![t] = now]
    /\ timeout' = [timeout EXCEPT ![t] = 0]
    /\ UNCHANGED <<now, timer, mTimers, mTickle, expired, writer, tickles,
                   history>>

(* Mutant: a timer due at this very time is not due.                       *)
DueCountStrictly(time) ==
    LET i == SelectInSeq(mTimers, LAMBDA j : timer[j].mTime >= time)
    IN  IF i = 0 THEN Len(mTimers) ELSE i - 1

(* The number of timers at the head of the set that are due.               *)
DueCount(time) ==
    LET i == SelectInSeq(mTimers, LAMBDA j : timer[j].mTime > time)
    IN  IF i = 0 THEN Len(mTimers) ELSE i - 1

(* mTimers.erase(mTimers.begin(), it).                                     *)
Remaining(time) == SubSeq(mTimers, DueCount(time) + 1, Len(mTimers))

(* Mutant: a second thread may list at the same time (the read lock only). *)
MayListAnyTime == TRUE

MayList == writer = NoThread

(* listExpiredTimer under the write lock: they are taken from the set.     *)
TakeExpired(t) ==
    /\ at[t] = "list" /\ MayList /\ writer # t
    /\ expired' = SubSeq(mTimers, 1, DueCount(nowMS[t]))
    /\ mTimers' = Remaining(nowMS[t])
    /\ writer' = t
    /\ UNCHANGED <<now, timer, mTickle, threadVars, tickles, eventfd, history>>

(* Mutant: the timer goes back into the set with the time it had.          *)
UpdatedNot(tm) == tm

(* KTimer::update.                                                         *)
Updated(tm) == [tm EXCEPT !.mTime = @ + tm.mRecycleTime]

(* Mutant: a timer is put back into the set as it comes, the one that      *)
(* fires once too.                                                         *)
GoesBackAlways(tm) == TRUE

GoesBack(tm) == tm.mRecycleTime > 0

(* The loop over the timers taken: the callback of one that was not        *)
(* cancelled is listed, and one that recurs goes back into the set.        *)
ListOne(t) ==
    /\ writer = t /\ expired # <<>>
    /\ expired' = Tail(expired)
    /\ \E i \in {Head(expired)} :
         IF ~timer[i].mCb
         THEN UNCHANGED <<timer, mTimers, listed>>
         ELSE /\ listed' = [listed EXCEPT ![i] = @ + 1]
              /\ timer' = [timer EXCEPT ![i] = Updated(@)]
              /\ IF ~GoesBack(timer[i])
                 THEN UNCHANGED mTimers
                 ELSE \E place \in Places(i, Updated(timer[i]).mTime) :
                        mTimers' = InsertAt(mTimers, place, i)
    /\ UNCHANGED <<now, mTickle, threadVars, writer, tickles, eventfd, made, gone>>

(* The lock is released, the callbacks are scheduled, the fiber yields.    *)
ListDone(t) ==
    /\ writer = t /\ expired = <<>>
    /\ writer' = NoThread
    /\ at' = [at EXCEPT ![t] = "busy"]
    /\ nowMS' = [nowMS EXCEPT ![t] = 0]
    /\ UNCHANGED <<now, timer, mTimers, mTickle, timeout, expired, tickles,
                   eventfd, history>>

Tick ==
    /\ now < MaxNow
    /\ now' = now + 1
    /\ UNCHANGED <<timer, mTimers, mTickle, threadVars, expired, writer, tickles,
                   eventfd, history>>

Next ==
    \/ \E ms \in Delays, recycle \in Recycles : AddTimer(ms, recycle)
    \/ \E i \in Created : Cancel(i) \/ DelTimer(i)
    \/ Tickle \/ Tick
    \/ \E t \in Threads : \/ Idle(t) \/ GetNearTimeout(t) \/ Wake(t)
                          \/ TakeExpired(t) \/ ListOne(t) \/ ListDone(t)

Spec == Init /\ [][Next]_vars

(* The manager's threads run and time passes; a callback returns.          *)
FairSpec ==
    /\ Spec /\ WF_vars(Tick) /\ WF_vars(Tickle)
    /\ \A t \in Threads :
         WF_vars(Idle(t) \/ GetNearTimeout(t) \/ Wake(t)
                   \/ TakeExpired(t) \/ ListOne(t) \/ ListDone(t))

-----------------------------------------------------------------------------
(* Properties.                                                             *)

Live(i) == timer[i].mCb /\ i \notin gone
NoneCancelled == \A i \in Created : timer[i].mCb

(* A timer that is not cancelled or deleted stays in the manager's hands   *)
(* until it has fired, and for good if it recurs, whatever several threads *)
(* list and add at the same time.                                          *)
NothingForgotten ==
    \A i \in Created :
      Live(i) /\ (timer[i].mRecycleTime > 0 \/ listed[i] = 0)
        => i \in ToSet(mTimers \o expired)

(* After delTimer a timer is not put back by a listExpiredTimer that had   *)
(* taken it: kcpmanager.cpp:177 frees the way for the Kcp object to go.    *)
DeletedStaysOut == gone \cap ToSet(mTimers \o expired) = {}

(* A callback is listed no more often than its schedule says: once, or     *)
(* once a period, and not before its time, although two threads list with  *)
(* times they read before they had the lock.                               *)
OnSchedule ==
    \A i \in Created :
      listed[i] <= LET past == now - made[i].mTime
                       period == made[i].mRecycleTime
                   IN  IF past < 0 THEN 0
                       ELSE IF period = 0 THEN 1 ELSE past \div period + 1

(* When every thread sleeps in epoll_wait and no wake-up is on its way,    *)
(* one of them wakes by the time of the earliest timer: mTickle loses no   *)
(* wake-up although getNearTimeout clears it under a read lock.  (A        *)
(* cancelled timer at the front of the set may hide an earlier one.)       *)
NoOversleep ==
    (NoneCancelled /\ (\A t \in Threads : at[t] = "wait") /\ ~eventfd /\ tickles = 0)
    => \A i \in ToSet(mTimers) : \E t \in Threads :
         timeout[t] <= Max({timer[i].mTime, now})

(* The same for as long as no timer is cancelled: the set is then sorted,  *)
(* although several threads take timers and put them back with new times.  *)
DueTakenInOrder ==
    [][\A t \in Threads : writer = NoThread /\ writer' = t /\ NoneCancelled =>
         \A i \in ToSet(mTimers') : timer[i].mTime > nowMS[t]]_vars

(* Every timer fires in the end, when it is not cancelled or deleted.      *)
EveryTimerFires ==
    \A i \in Id :
      (i \in Created /\ made[i].mTime <= MaxNow)
        ~> (i \in Created /\ (listed[i] > 0 \/ ~Live(i)))
=============================================================================
