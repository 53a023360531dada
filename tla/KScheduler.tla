----------------------------- MODULE KScheduler -----------------------------
(***************************************************************************)
(* The scheduler of kschedule.h and kschedule.cpp: the queue of jobs, the  *)
(* loop each thread runs, the states of the fibers (kfiber.cpp), sleeping  *)
(* and waking, start and stop.                                             *)
(*                                                                         *)
(* A job is a fiber or a callback; the fiber threadloop makes for a        *)
(* callback is the callback's own here, and goes with it once it yields.   *)
(* A section under mQueueMutex is a step, and so is each access to a       *)
(* counter or to a fiber's state outside.  What a fiber does while it runs *)
(* is a choice: it returns, throws, yields, switches to another thread or  *)
(* schedules another job.                                                  *)
(*                                                                         *)
(* idle() is virtual.  setup.waits says which one runs: "spin" is          *)
(* KScheduler::idle, which does not wait; "timer" is KcpManager::idle in   *)
(* epoll_wait while some timer recurs, so that the wait ends sometime and  *)
(* stopping() stays false.  stop() is called once, after start() returned. *)
(*                                                                         *)
(* Stacks and contexts are not modelled.  Where an assertion fails, or the *)
(* code enters a context that is gone, fault says so and nothing happens   *)
(* any more: what the program does then cannot be told from its source.    *)
(***************************************************************************)
EXTENDS Integers, Sequences, FiniteSets, SequencesExt

CONSTANTS
    Threads,        \* kernel ids of the threads, the caller's included
    AnyThread,      \* tid 0
    Jobs,
    Callbacks,      \* the jobs that are callbacks, not fibers
    NoJob,
    NoThread,
    Application,    \* a thread that is not the scheduler's
    Setups          \* the ways it is set up and used: [root, workers, waits,
                    \* stops, entries, yields]; stops: whether stop() is
                    \* called, entries: what is scheduled, yields: the bound
                    \* on the calls of Yeild2Ready and switchTo

ASSUME Names == /\ AnyThread \notin Threads /\ NoThread \notin Threads
                /\ Application \notin Threads /\ NoJob \notin Jobs
                /\ Callbacks \subseteq Jobs
ASSUME FiniteThreads == IsFiniteSet(Threads)
ASSUME SetupsAreRight ==
    \A s \in Setups : /\ s.root \in Threads \cup {NoThread}
                      /\ s.workers \subseteq Threads \ {s.root}
                      /\ s.workers # {} \/ s.root # NoThread
                      /\ s.waits \in {"spin", "timer"}
                      /\ s.stops \in BOOLEAN
                      /\ \A e \in s.entries :
                           /\ e \in [job : Jobs, tid : Threads \cup {AnyThread}]
                           /\ e.tid \in s.workers \cup {s.root, AnyThread}
                      /\ s.yields \in Nat

VARIABLES
    setup,          \* root: mRootThread; workers: the mThreadCount threads
    mFiberQueue,
    mState,         \* of each job's fiber; NONE: a callback without one
    cbFiber,        \* each thread's: none, running, or kept for the next
    mActiveThreadCount, mIdleThreadCount,
    mStopping,
    at,             \* where each thread is in threadloop
    ft,             \* the job each thread has taken
    idleFiber,      \* TRUE for a thread whose idle fiber is in TERM
    eventfd,        \* mEventFd has an event no epoll_wait has returned
    tickles,        \* calls of tickle() each thread must make before it goes on
    given,          \* history: the jobs scheduled so far
    yields,
    missed,         \* history: a tickle() found no idle thread, but one that
                    \* had looked for a job and was about to be idle
    uncounted,      \* history: the jobs stopping() may not have waited for:
                    \* scheduled after stop(), or yielded by Yeild2Ready, or
                    \* scheduled by such a job
    overtaken,      \* history: a thread took a fiber that had called
                    \* switchTo and that its thread was not done with
    fault           \* what made the program fail, if anything did

fiberVars == <<mState, cbFiber>>
jobVars == <<given, uncounted, yields>>
countVars == <<mActiveThreadCount, mIdleThreadCount>>
threadVars == <<at, ft, idleFiber>>
eventVars == <<eventfd, missed>>
faultVars == <<overtaken, fault>>
vars == <<setup, mFiberQueue, fiberVars, jobVars, countVars, mStopping,
          threadVars, eventVars, tickles, faultVars>>

mRootThread == setup.root
InPool == setup.workers \cup ({mRootThread} \ {NoThread})

Init ==
    /\ setup \in Setups
    /\ mFiberQueue = <<>>
    /\ mState = [j \in Jobs |-> IF j \in Callbacks THEN "NONE" ELSE "READY"]
    /\ cbFiber = [t \in Threads |-> "none"]
    /\ mActiveThreadCount = 0 /\ mIdleThreadCount = 0
    /\ mStopping = FALSE
    /\ at = [t \in Threads |-> IF t \in setup.workers THEN "new" ELSE "caller"]
    /\ ft = [t \in Threads |-> NoJob]
    /\ idleFiber = [t \in Threads |-> FALSE]
    /\ eventfd = FALSE
    /\ tickles = [t \in Threads \cup {Application} |-> 0]
    /\ given = {} /\ uncounted = {} /\ yields = 0
    /\ missed = FALSE /\ overtaken = FALSE /\ fault = "none"

Started == \A t \in setup.workers : at[t] # "new"

Running == fault = "none"

Go(t, from, to) ==
    Running /\ at[t] = from /\ tickles[t] = 0 /\ at' = [at EXCEPT ![t] = to]

(* An assertion fails, or a context that is gone is entered.               *)
Fails(what) ==
    /\ fault' = what
    /\ UNCHANGED <<setup, mFiberQueue, fiberVars, jobVars, countVars, mStopping,
                   threadVars, eventVars, tickles, overtaken>>

Entry == [job : Jobs, tid : InPool \cup {AnyThread}]

(* Thread t goes on with n calls of tickle(); KScheduler::tickle is empty. *)
(* (The application may be several threads: what they owe adds up.)        *)
Owes(t, n) ==
    tickles' = [tickles EXCEPT ![t] = IF setup.waits = "spin" THEN 0 ELSE @ + n]

(* schedule, up to its tickle(): thread t adds an entry and must wake a    *)
(* thread if the queue was empty and there are threads.                    *)
Push(t, e) ==
    /\ mFiberQueue' = Append(mFiberQueue, e)
    /\ Owes(t, IF mFiberQueue = <<>> /\ setup.workers # {} THEN 1 ELSE 0)

(* KcpManager::tickle.                                                     *)
Tickle(t) ==
    /\ Running /\ tickles[t] > 0
    /\ tickles' = [tickles EXCEPT ![t] = @ - 1]
    /\ eventfd' = (eventfd \/ mIdleThreadCount > 0)
    /\ missed' = (missed \/ (/\ mIdleThreadCount = 0
                             /\ \E u \in InPool : at[u] = "check" /\ ft[u] = NoJob))
    /\ UNCHANGED <<setup, mFiberQueue, fiberVars, jobVars, countVars, mStopping,
                   threadVars, faultVars>>

-----------------------------------------------------------------------------
(* The application.                                                        *)

(* A turn of the loop of start(): the constructor of Thread waits on its   *)
(* semaphore until the new thread has its kernel id.                       *)
StartThread(t) ==
    /\ Go(t, "new", "scan")
    /\ UNCHANGED <<setup, mFiberQueue, fiberVars, jobVars, countVars, mStopping,
                   ft, idleFiber, eventVars, tickles, faultVars>>

(* schedule, called by a thread that is not in the loop, at any time:      *)
(* before the threads run, and after stop().                               *)
Schedule(e) ==
    /\ Running /\ e.job \notin given
    /\ given' = given \cup {e.job}
    /\ uncounted' = IF mStopping THEN uncounted \cup {e.job} ELSE uncounted
    /\ Push(Application, e)
    /\ UNCHANGED <<setup, fiberVars, yields, countVars, mStopping,
                   threadVars, eventVars, faultVars>>

(* Who calls stop(), kschedule.cpp:92-96.                                  *)
Stopper == IF mRootThread = NoThread THEN Application ELSE mRootThread

(* stop(): every thread is to be woken.                                    *)
Stop ==
    /\ Running /\ setup.stops /\ Started /\ ~mStopping
    /\ mRootThread # NoThread => at[mRootThread] = "caller"
    /\ mStopping' = TRUE
    /\ Owes(Stopper, Cardinality(InPool))
    /\ UNCHANGED <<setup, mFiberQueue, fiberVars, jobVars, countVars, threadVars,
                   eventVars, faultVars>>

(* Mutant: the tasks that run are not counted.                             *)
stoppingQueueOnly == setup.waits # "timer" /\ mStopping /\ mFiberQueue = <<>>

(* stopping(), of KcpManager or KScheduler: with a timer left it is false. *)
stopping ==
    /\ setup.waits # "timer"
    /\ mStopping /\ mFiberQueue = <<>> /\ mActiveThreadCount = 0

(* The root thread enters its loop: mRootFiber->resume() before stop(), or *)
(* at the end of stop() if there is work left.                             *)
EnterRoot(t) ==
    /\ t = mRootThread /\ Started
    /\ Go(t, "caller", IF stopping THEN "ended" ELSE "scan")
    /\ UNCHANGED <<setup, mFiberQueue, fiberVars, jobVars, countVars, mStopping,
                   ft, idleFiber, eventVars, tickles, faultVars>>

-----------------------------------------------------------------------------
(* threadloop.                                                             *)

(* it->tid is another thread's.                                            *)
ForOther(t, e) == e.tid \notin {AnyThread, t}

(* Mutant: the state of the fiber is not looked at.                        *)
BusyNever(e) == FALSE

(* Its fiber is being executed.                                            *)
Busy(e) == mState[e.job] = "EXEC"

(* The place of the job a thread takes, 0 if there is none.                *)
Taken(t) == SelectInSeq(mFiberQueue, LAMBDA e : ~ForOther(t, e) /\ ~Busy(e))

(* Mutant: only what is left behind the job taken counts.                  *)
LeavesWorkBehind(t) == Taken(t) # 0 /\ Taken(t) < Len(mFiberQueue)

(* needTickle: an entry before it is for another thread, or one is left    *)
(* after it.                                                               *)
LeavesWork(t) ==
    IF Taken(t) = 0 THEN \E i \in DOMAIN mFiberQueue : ForOther(t, mFiberQueue[i])
    ELSE \/ \E i \in 1 .. Taken(t) : ForOther(t, mFiberQueue[i])
         \/ Taken(t) < Len(mFiberQueue)

(* A thread that runs job j has written HOLD in switchTo, or is past that. *)
Leaving(u, j) == ft[u] = j /\ at[u] \in {"after", "settle", "hold"}

(* The search under mQueueMutex.                                           *)
Scan(t) ==
    /\ Go(t, "scan", "check")
    /\ Owes(t, IF LeavesWork(t) THEN 1 ELSE 0)
    /\ IF Taken(t) = 0
       THEN UNCHANGED <<mFiberQueue, ft, mActiveThreadCount, overtaken>>
       ELSE /\ ft' = [ft EXCEPT ![t] = mFiberQueue[Taken(t)].job]
            /\ mFiberQueue' = RemoveAt(mFiberQueue, Taken(t))
            /\ mActiveThreadCount' = mActiveThreadCount + 1
            /\ overtaken' = (overtaken \/ \E u \in Threads :
                                Leaving(u, mFiberQueue[Taken(t)].job))
    /\ UNCHANGED <<setup, fiberVars, jobVars, mIdleThreadCount, mStopping,
                   idleFiber, eventVars, fault>>

(* The test before resume(): the job is dropped when its fiber is being    *)
(* executed by now or has thrown.                                          *)
Resume(t) ==
    /\ ft[t] # NoJob
    /\ \/ /\ mState[ft[t]] \notin {"EXEC", "EXCEPT"}
          /\ Go(t, "check", "resume")
          /\ UNCHANGED <<mActiveThreadCount, ft>>
       \/ /\ mState[ft[t]] \in {"EXEC", "EXCEPT"}
          /\ Go(t, "check", "scan")
          /\ mActiveThreadCount' = mActiveThreadCount - 1
          /\ ft' = [ft EXCEPT ![t] = NoJob]
    /\ UNCHANGED <<setup, mFiberQueue, fiberVars, jobVars, mIdleThreadCount,
                   mStopping, idleFiber, eventVars, tickles, faultVars>>

(* KFiber::swapIn; a callback gets the fiber that was kept or a new one.   *)
SwapIn(t) ==
    /\ Go(t, "resume", "body")
    /\ mState[ft[t]] \in {"NONE", "READY", "HOLD"}
    /\ mState' = [mState EXCEPT ![ft[t]] = "EXEC"]
    /\ cbFiber' = IF mState[ft[t]] = "NONE"
                  THEN [cbFiber EXCEPT ![t] = "running"] ELSE cbFiber
    /\ UNCHANGED <<setup, mFiberQueue, jobVars, countVars, mStopping, ft,
                   idleFiber, eventVars, tickles, faultVars>>

(* It is being executed (the assertion of swapIn), or it has ended (the    *)
(* last one of FiberEntry).                                                *)
SwapInFails(t) ==
    /\ Running /\ at[t] = "resume" /\ tickles[t] = 0
    /\ mState[ft[t]] \in {"EXEC", "TERM", "EXCEPT"}
    /\ Fails("state")

(* No job: the idle fiber is resumed.                                      *)
NoTask(t) ==
    /\ ft[t] = NoJob /\ ~idleFiber[t]
    /\ Go(t, "check", "idle")
    /\ mIdleThreadCount' = mIdleThreadCount + 1
    /\ UNCHANGED <<setup, mFiberQueue, fiberVars, jobVars, mActiveThreadCount,
                   mStopping, ft, idleFiber, eventVars, tickles, faultVars>>

(* The idle fiber has ended, and threadloop returns: the destructor of the *)
(* fiber kept for callbacks asserts that it has ended, and reset left it   *)
(* READY; the root fiber goes back to a context that resume() overwrote.   *)
LoopEnds(t) ==
    /\ ft[t] = NoJob /\ idleFiber[t]
    /\ \/ /\ cbFiber[t] # "kept" /\ t # mRootThread
          /\ Go(t, "check", "ended")
          /\ UNCHANGED <<setup, mFiberQueue, fiberVars, jobVars, countVars, mStopping,
                         ft, idleFiber, eventVars, tickles, faultVars>>
       \/ /\ cbFiber[t] = "kept" \/ t = mRootThread
          /\ Running /\ at[t] = "check" /\ tickles[t] = 0
          /\ Fails(IF cbFiber[t] = "kept" THEN "callback" ELSE "root")

(* The job returned or threw: FiberEntry.                                  *)
FiberEnds(t) ==
    /\ Go(t, "body", "after")
    /\ \E s \in {"TERM", "EXCEPT"} : mState' = [mState EXCEPT ![ft[t]] = s]
    /\ UNCHANGED <<setup, mFiberQueue, cbFiber, jobVars, countVars, mStopping, ft,
                   idleFiber, eventVars, tickles, faultVars>>

Yeild2Ready(t) ==
    /\ Go(t, "body", "after") /\ yields < setup.yields
    /\ mState[ft[t]] = "EXEC"
    /\ mState' = [mState EXCEPT ![ft[t]] = "READY"]
    /\ yields' = yields + 1
    /\ uncounted' = uncounted \cup {ft[t]}
    /\ UNCHANGED <<setup, mFiberQueue, cbFiber, given, countVars,
                   mStopping, ft, idleFiber, eventVars, tickles, faultVars>>

(* A job schedules another job.                                            *)
ScheduleFrom(t, e) ==
    /\ Go(t, "body", "body") /\ e.job \notin given
    /\ given' = given \cup {e.job}
    /\ uncounted' = IF ft[t] \in uncounted THEN uncounted \cup {e.job} ELSE uncounted
    /\ Push(t, e)
    /\ UNCHANGED <<setup, fiberVars, yields, countVars, mStopping, ft,
                   idleFiber, eventVars, faultVars>>

(* switchTo: the running fiber is scheduled for another thread ...         *)
SwitchTo(t, tid) ==
    /\ Go(t, "body", "switch") /\ yields < setup.yields /\ tid # t
    /\ yields' = yields + 1
    /\ [job |-> ft[t], tid |-> tid] \in setup.entries
    /\ Push(t, [job |-> ft[t], tid |-> tid])
    /\ UNCHANGED <<setup, fiberVars, given, uncounted, countVars, mStopping,
                   ft, idleFiber, eventVars, faultVars>>

(* ... and yields: Yeild2Hold.                                             *)
Yeild2Hold(t) ==
    /\ Go(t, "switch", "after")
    /\ mState[ft[t]] = "EXEC"
    /\ mState' = [mState EXCEPT ![ft[t]] = "HOLD"]
    /\ UNCHANGED <<setup, mFiberQueue, cbFiber, jobVars, countVars, mStopping, ft,
                   idleFiber, eventVars, tickles, faultVars>>

(* Its assertion, and that of Yeild2Ready.                                 *)
YieldFails(t) ==
    /\ Running /\ at[t] \in {"body", "switch"} /\ tickles[t] = 0
    /\ mState[ft[t]] # "EXEC"
    /\ Fails("state")

(* Mutant: the count goes down only for a fiber that has ended.            *)
InactiveWhenEnded(t) ==
    /\ Go(t, "after", "settle")
    /\ mActiveThreadCount' = mActiveThreadCount -
         (IF mState[ft[t]] \in {"TERM", "EXCEPT"} THEN 1 ELSE 0)
    /\ UNCHANGED <<setup, mFiberQueue, fiberVars, jobVars, mIdleThreadCount,
                   mStopping, ft, idleFiber, eventVars, tickles, faultVars>>

(* resume() returned in threadloop.                                        *)
Inactive(t) ==
    /\ Go(t, "after", "settle")
    /\ mActiveThreadCount' = mActiveThreadCount - 1
    /\ UNCHANGED <<setup, mFiberQueue, fiberVars, jobVars, mIdleThreadCount,
                   mStopping, ft, idleFiber, eventVars, tickles, faultVars>>

(* Mutant: a fiber that is READY is set aside like one that waits.         *)
NextReadsNoReady(s) == IF s \in {"TERM", "EXCEPT"} THEN "scan" ELSE "hold"

(* What follows the reads of the state after resume(): a fiber that is     *)
(* READY is scheduled again, one that has not ended is set to HOLD.  (The  *)
(* reads after the first decide nothing that one at another moment would   *)
(* not.)                                                                   *)
NextReads(s) ==
    IF s = "READY" THEN "requeue" ELSE IF s \in {"TERM", "EXCEPT"} THEN "scan" ELSE "hold"

(* Another thread has the fiber too, or will: t was overtaken in switchTo. *)
Shared(t) == \/ \E u \in Threads \ {t} : ft[u] = ft[t]
             \/ \E i \in DOMAIN mFiberQueue : mFiberQueue[i].job = ft[t]

(* The fiber of a callback that ended is kept, set to READY by reset.      *)
Settle(t) ==
    /\ Go(t, "settle", NextReads(mState[ft[t]]))
    /\ at'[t] = "scan" /\ cbFiber[t] = "running" => ~Shared(t)
    /\ IF at'[t] = "scan"
       THEN /\ ft' = [ft EXCEPT ![t] = NoJob]
            /\ cbFiber' = IF cbFiber[t] = "running"
                          THEN [cbFiber EXCEPT ![t] = "kept"] ELSE cbFiber
       ELSE UNCHANGED <<ft, cbFiber>>
    /\ UNCHANGED <<setup, mFiberQueue, mState, jobVars, countVars, mStopping,
                   idleFiber, eventVars, tickles, faultVars>>

(* Reset takes it from under the other thread.                             *)
ResetFails(t) ==
    /\ Running /\ at[t] = "settle" /\ tickles[t] = 0
    /\ NextReads(mState[ft[t]]) = "scan" /\ cbFiber[t] = "running" /\ Shared(t)
    /\ Fails("state")

(* The thread is done with a job that has not ended: the fiber of a        *)
(* callback is the callback's now.                                         *)
PutAside(t, from) ==
    /\ Go(t, from, "scan")
    /\ ft' = [ft EXCEPT ![t] = NoJob]
    /\ cbFiber' = IF cbFiber[t] = "running"
                  THEN [cbFiber EXCEPT ![t] = "none"] ELSE cbFiber
    /\ UNCHANGED <<setup, jobVars, countVars, mStopping, idleFiber, eventVars,
                   faultVars>>

(* It is scheduled again, for any thread.                                  *)
Requeue(t) ==
    /\ PutAside(t, "requeue")
    /\ Push(t, [job |-> ft[t], tid |-> AnyThread])
    /\ UNCHANGED mState

(* Its state is set to HOLD, whatever it is by now.                        *)
SetHold(t) ==
    /\ PutAside(t, "hold")
    /\ mState' = [mState EXCEPT ![ft[t]] = "HOLD"]
    /\ UNCHANGED <<mFiberQueue, tickles>>

(* The idle fiber: it ends when stopping(), else it waits or yields.       *)
IdleCheck(t) ==
    /\ Go(t, "idle", IF stopping \/ setup.waits = "spin" THEN "leave" ELSE "wait")
    /\ idleFiber' = [idleFiber EXCEPT ![t] = stopping]
    /\ UNCHANGED <<setup, mFiberQueue, fiberVars, jobVars, countVars, mStopping, ft,
                   eventVars, tickles, faultVars>>

(* epoll_wait returns: with the event if there is one, or in the end after *)
(* its timeout.                                                            *)
WaitEnds(t) ==
    /\ Go(t, "wait", "leave")
    /\ eventfd' = FALSE
    /\ UNCHANGED <<setup, mFiberQueue, fiberVars, jobVars, countVars, mStopping, ft,
                   idleFiber, missed, tickles, faultVars>>

(* KcpManager::idle schedules the callbacks of timers and read events.     *)
ScheduleIdle(t, e) ==
    /\ Go(t, "leave", "leave") /\ setup.waits = "timer"
    /\ e.job \in Callbacks \ given
    /\ given' = given \cup {e.job}
    /\ Push(t, e)
    /\ UNCHANGED <<setup, fiberVars, uncounted, yields, countVars,
                   mStopping, ft, idleFiber, eventVars, faultVars>>

IdleYields(t) ==
    /\ Go(t, "leave", "scan")
    /\ mIdleThreadCount' = mIdleThreadCount - 1
    /\ UNCHANGED <<setup, mFiberQueue, fiberVars, jobVars, mActiveThreadCount,
                   mStopping, ft, idleFiber, eventVars, tickles, faultVars>>

Step(t) ==
    \/ Scan(t) \/ Resume(t) \/ SwapIn(t) \/ SwapInFails(t) \/ NoTask(t) \/ LoopEnds(t)
    \/ FiberEnds(t) \/ Yeild2Ready(t) \/ Yeild2Hold(t) \/ YieldFails(t)
    \/ Inactive(t) \/ Settle(t) \/ ResetFails(t) \/ Requeue(t) \/ SetHold(t)
    \/ \E e \in setup.entries : ScheduleFrom(t, e)
    \/ \E tid \in InPool \cup {AnyThread} : SwitchTo(t, tid)
    \/ IdleCheck(t) \/ WaitEnds(t) \/ IdleYields(t)

Next ==
    \/ Stop
    \/ \E e \in setup.entries : Schedule(e) \/ \E t \in InPool : ScheduleIdle(t, e)
    \/ Tickle(Application)
    \/ \E t \in InPool : StartThread(t) \/ EnterRoot(t) \/ Tickle(t) \/ Step(t)

Spec == Init /\ [][Next]_vars

(* The threads run, and so does a call of start, stop or schedule once it  *)
(* is made; a fiber returns in the end (the bounds end its yields).        *)
FairSpec ==
    /\ Spec /\ WF_vars(Tickle(Application))
    /\ \A t \in Threads :
         WF_vars(/\ t \in InPool
                 /\ \/ StartThread(t) \/ Tickle(t) \/ Step(t)
                    \/ mStopping /\ EnterRoot(t))
-----------------------------------------------------------------------------
(* Properties.                                                             *)

InLoop(t) == at[t] \notin {"new", "caller", "ended"}
Ended(j) == mState[j] \in {"TERM", "EXCEPT"} /\ \A t \in Threads : ft[t] # j

(* The two counters, which are changed one step after or before what they  *)
(* count, are the numbers of threads with a job that stopping() must wait  *)
(* for, and of threads that tickle() may find asleep.                      *)
TypeOK ==
    /\ \A i \in DOMAIN mFiberQueue : mFiberQueue[i] \in Entry
    /\ mActiveThreadCount =
         Cardinality({t \in Threads : /\ ft[t] # NoJob
                                      /\ at[t] \notin {"settle", "requeue", "hold"}})
    /\ mIdleThreadCount =
         Cardinality({t \in Threads : at[t] \in {"idle", "wait", "leave"}})

(* The scheduler implements KExecutor: no job is lost, run twice or run by *)
(* two threads, a bound job runs on its thread, and each thread takes the  *)
(* jobs it may run in the order in which they were scheduled; until a      *)
(* thread takes a fiber that has just called switchTo.                     *)
Exec == INSTANCE KExecutor WITH waiting <- mFiberQueue, running <- ft,
                                done <- {j \in Jobs : Ended(j)}
execVars == <<mFiberQueue, ft, {j \in Jobs : Ended(j)}>>
ExecSpec == Exec!ExecInit /\ [][overtaken' \/ Exec!ExecNext]_execVars

(* A job bound to a thread that has ended.                                 *)
Stuck(i) == mFiberQueue[i].tid # AnyThread /\ at[mFiberQueue[i].tid] = "ended"

(* A thread does not end while a job that is bound to it waits or may      *)
(* still be scheduled by one that runs, other than the jobs stopping()     *)
(* cannot count: those the application schedules after stop(), and those   *)
(* that call Yeild2Ready, which are counted nowhere for a moment           *)
(* (kschedule.cpp:174-176), with what they schedule.                       *)
LeftOwesNothing ==
    \A i \in DOMAIN mFiberQueue : Stuck(i) => mFiberQueue[i].job \in uncounted

(* kfiber.cpp:174 and 183 assert that the fiber a thread runs is in EXEC   *)
(* when it yields.                                                         *)
RunningIsExec ==
    \A t \in Threads : at[t] \in {"body", "switch"} => mState[ft[t]] = "EXEC"

(* The threads that may take a job that waits.                             *)
Takers(j) ==
    {t \in InPool : InLoop(t) /\ \E i \in DOMAIN mFiberQueue :
       mFiberQueue[i].job = j /\ mFiberQueue[i].tid \in {AnyThread, t}}

(* A job that waits is run in the end if a thread that may run it is in    *)
(* its loop, whoever slept, was woken, or took a tickle() meant for        *)
(* another.  What waits for no thread in its loop is bound to one outside, *)
(* or was not counted when the threads ended.  A fiber that is overtaken   *)
(* in switchTo may be lost, and a fault ends everything.                   *)
EveryJobRuns ==
    \A j \in Jobs :
      Takers(j) # {} ~> \/ Ended(j) \/ overtaken \/ fault # "none"
                       \/ /\ Takers(j) = {}
                          /\ \E e \in ToSet(mFiberQueue) :
                               e.job = j /\ (e.tid # AnyThread \/ j \in uncounted)

(* kschedule.h:71: tickle() wakes the threads blocked in idle.  Never do   *)
(* all threads sleep, with no wake-up on its way, while a job waits.  The  *)
(* one case it misses is a thread between its search and                   *)
(* ++mIdleThreadCount (kschedule.cpp:166-213), which only the timeout of   *)
(* epoll_wait makes good.  A caller without threads of the scheduler is    *)
(* not woken at all: schedule() has no tickle() for it (kschedule.h:50).   *)
NoSleepOnWork ==
    (setup.workers # {} /\ ~missed /\ ~eventfd
      /\ (\A t \in InPool : at[t] = "wait" /\ tickles[t] = 0)
      /\ tickles[Application] = 0) => mFiberQueue = <<>>

(* After stop() every thread comes to the end of its loop, unless a job is *)
(* left bound to one that has.  That end is clean for a thread of the      *)
(* scheduler that keeps no fiber for callbacks; the other two ends fail    *)
(* (LoopEnds), and so may a fiber that was overtaken in switchTo.          *)
StopEnds ==
    (mStopping /\ setup.waits = "spin")
      ~> \/ \A t \in InPool : at[t] = "ended"
         \/ \E i \in DOMAIN mFiberQueue : Stuck(i)
         \/ fault \in {"callback", "root"} \/ overtaken
=============================================================================
