-------------------------- MODULE KSchedulerProofs --------------------------
(***************************************************************************)
(* Proofs about KScheduler for every number of threads and jobs, every way *)
(* it is set up, and every bound on the yields: its counters are exact, a  *)
(* thread that ends owes only what stopping() could not count, the threads *)
(* do not all sleep on work, and until a thread overtakes a fiber in       *)
(* switchTo the scheduler implements KExecutor and no assertion about the  *)
(* state of a fiber fails.                                                 *)
(***************************************************************************)
EXTENDS KScheduler, SequenceFacts

-----------------------------------------------------------------------------
(* The inductive invariant of the threads, whatever they overtake.         *)

States == {"NONE", "READY", "EXEC", "HOLD", "TERM", "EXCEPT"}
Idle == {"idle", "wait", "leave"}
WithJob == {"resume", "body", "switch", "after", "settle", "requeue", "hold"}
Places == {"new", "caller", "scan", "check", "ended"} \cup Idle \cup WithJob

Types ==
    /\ setup \in Setups
    /\ mFiberQueue \in Seq(Entry)
    /\ mState \in [Jobs -> States]
    /\ cbFiber \in [Threads -> {"none", "running", "kept"}]
    /\ mStopping \in BOOLEAN
    /\ at \in [Threads -> Places]
    /\ ft \in [Threads -> Jobs \cup {NoJob}]
    /\ idleFiber \in [Threads -> BOOLEAN]
    /\ eventfd \in BOOLEAN /\ missed \in BOOLEAN
    /\ tickles \in [Threads \cup {Application} -> Nat]
    /\ given \subseteq Jobs /\ uncounted \subseteq Jobs
    /\ yields \in Nat
    /\ overtaken \in BOOLEAN /\ fault \in {"none", "state", "callback", "root"}

(* A thread has a job in the part of the loop that is about it, and only   *)
(* the idle fiber of KcpManager waits.                                     *)
Holding ==
    \A t \in Threads :
      /\ at[t] \in WithJob => ft[t] # NoJob
      /\ at[t] \notin WithJob \cup {"check"} => ft[t] = NoJob
      /\ t \notin InPool => at[t] = "caller"
      /\ at[t] = "wait" => setup.waits = "timer"

(* A fiber that is being executed is in the hands of a thread.             *)
ExecIsHeld ==
    \A j \in Jobs : mState[j] = "EXEC" =>
      \E t \in Threads : ft[t] = j /\ at[t] \in {"body", "switch"}

(* A fiber that was resumed is READY only by Yeild2Ready.                  *)
ReadyYielded ==
    \A t \in Threads :
      /\ at[t] \in {"body", "switch", "after", "settle"} /\ mState[ft[t]] = "READY"
           => ft[t] \in uncounted
      /\ at[t] = "requeue" => ft[t] \in uncounted

(* stopping() was true when the threads were counted: whatever waits or    *)
(* runs since is a job it could not count.                                 *)
WasStopping ==
    /\ setup.waits # "timer" /\ mStopping
    /\ \A i \in 1 .. Len(mFiberQueue) : mFiberQueue[i].job \in uncounted
    /\ \A t \in Threads : ft[t] # NoJob =>
         ft[t] \in uncounted \/ at[t] \in {"settle", "hold"}

EndsLast == \A t \in Threads : idleFiber[t] \/ at[t] = "ended" => WasStopping

(* A thread that will search the queue before it sleeps.                   *)
Awake(t) == at[t] \notin Idle \cup {"ended", "check"} \/ at[t] = "leave" \/ ft[t] # NoJob

(* While a job waits, some thread is awake, or one is going to call        *)
(* tickle(), or an event waits for the next epoll_wait.                    *)
WorkIsSeen ==
    (setup.waits = "timer" /\ setup.workers # {} /\ ~missed /\ mFiberQueue # <<>>) =>
      \/ eventfd
      \/ \E x \in InPool \cup {Application} : tickles[x] > 0
      \/ \E t \in InPool : Awake(t)

SInv ==
    /\ Types
    /\ Holding
    /\ TypeOK
    /\ ExecIsHeld
    /\ ReadyYielded
    /\ EndsLast
    /\ WorkIsSeen

-----------------------------------------------------------------------------
(* The inductive invariant of the jobs, until a thread overtakes another.  *)

IsWaiting(j) == \E i \in 1 .. Len(mFiberQueue) : mFiberQueue[i].job = j
IsRunning(j) == \E t \in Threads : ft[t] = j

(* One thread has a job, and the job is in the state its place calls for;  *)
(* a fiber waits while a thread has it only if it has called switchTo.     *)
StateOf(t) ==
    LET j == ft[t]
    IN  /\ j \in given
        /\ at[t] \in {"check", "resume"} =>
             mState[j] \in {"NONE", "READY", "HOLD"} /\ ~IsWaiting(j)
        /\ at[t] = "body" => mState[j] = "EXEC" /\ ~IsWaiting(j)
        /\ at[t] = "switch" => mState[j] = "EXEC" /\ IsWaiting(j)
        /\ at[t] \in {"after", "settle"} =>
             \/ mState[j] \in {"TERM", "EXCEPT", "READY"} /\ ~IsWaiting(j)
             \/ mState[j] = "HOLD" /\ IsWaiting(j)
        /\ at[t] = "requeue" => mState[j] = "READY" /\ ~IsWaiting(j)
        /\ at[t] = "hold" => mState[j] = "HOLD" /\ IsWaiting(j)

OneHolder == \A t, u \in Threads : ft[t] = ft[u] /\ ft[t] # NoJob => t = u

WaitsOnce ==
    \A i, k \in 1 .. Len(mFiberQueue) : mFiberQueue[i].job = mFiberQueue[k].job => i = k

JobStates ==
    \A j \in Jobs :
      /\ IsWaiting(j) => j \in given /\ mState[j] \notin {"TERM", "EXCEPT"}
      /\ ~IsRunning(j) => mState[j] # "EXEC"
      /\ j \notin given => mState[j] \in {"NONE", "READY"}

JInv ==
    /\ OneHolder
    /\ WaitsOnce
    /\ \A t \in Threads : ft[t] # NoJob => StateOf(t)
    /\ JobStates
    /\ fault # "state"
-----------------------------------------------------------------------------
(* Facts that every step needs.                                            *)

LEMMA PoolFacts ==
    ASSUME Types
    PROVE  /\ InPool \subseteq Threads
           /\ mRootThread \notin setup.workers
           /\ setup.waits \in {"spin", "timer"}
           /\ \A t \in Threads : t # Application /\ t # AnyThread
BY Names, SetupsAreRight DEF Types, InPool, mRootThread

(* What the two counters count.                                            *)
Works(t) == ft[t] # NoJob /\ at[t] \notin {"settle", "requeue", "hold"}
Idles(t) == at[t] \in Idle

(* One element more or less.                                               *)
LEMMA OneMore ==
    ASSUME NEW S, IsFiniteSet(S), NEW x, NEW S2,
           S2 = S \cup {x} \/ S2 = S \ {x}
    PROVE  /\ Cardinality(S) \in Nat
           /\ Cardinality(S2) = Cardinality(S) + (IF x \in S2 THEN 1 ELSE 0)
                                               - (IF x \in S THEN 1 ELSE 0)
<1>1. Cardinality(S) \in Nat
  BY FS_CardinalityType
<1>2. CASE S2 = S
  BY <1>1, <1>2
<1>3. CASE S2 = S \cup {x} /\ x \notin S
  <2>1. Cardinality(S2) = Cardinality(S) + 1
    BY <1>3, FS_AddElement
  <2> QED
    BY <2>1, <1>1, <1>3
<1>4. CASE S2 = S \ {x} /\ x \in S
  <2>1. Cardinality(S2) = Cardinality(S) - 1
    BY <1>4, FS_RemoveElement
  <2> QED
    BY <2>1, <1>1, <1>4
<1>5. S2 = S \/ (S2 = S \cup {x} /\ x \notin S) \/ (S2 = S \ {x} /\ x \in S)
  OBVIOUS
<1> QED
  BY <1>2, <1>3, <1>4, <1>5

(* A step of one thread keeps the counters right if it changes each by     *)
(* what it changes for that thread.                                        *)
LEMMA CountStep ==
    ASSUME TypeOK, Types', NEW t \in Threads,
           \A u \in Threads \ {t} : ft'[u] = ft[u] /\ at'[u] = at[u],
           mActiveThreadCount' = mActiveThreadCount + (IF Works(t)' THEN 1 ELSE 0)
                                                    - (IF Works(t) THEN 1 ELSE 0),
           mIdleThreadCount' = mIdleThreadCount + (IF Idles(t)' THEN 1 ELSE 0)
                                                - (IF Idles(t) THEN 1 ELSE 0)
    PROVE  TypeOK'
<1> DEFINE W == {u \in Threads : ft[u] # NoJob /\ at[u] \notin {"settle", "requeue", "hold"}}
           I == {u \in Threads : at[u] \in {"idle", "wait", "leave"}}
<1>1. mActiveThreadCount = Cardinality(W) /\ mIdleThreadCount = Cardinality(I)
  BY DEF TypeOK
<1>2. IsFiniteSet(W) /\ IsFiniteSet(I)
  BY FiniteThreads, FS_Subset
<1> DEFINE W2 == {u \in Threads : /\ ft'[u] # NoJob
                                /\ at'[u] \notin {"settle", "requeue", "hold"}}
           I2 == {u \in Threads : at'[u] \in {"idle", "wait", "leave"}}
<1>3. /\ t \in W <=> Works(t)
      /\ t \in I <=> Idles(t)
      /\ t \in W2 <=> Works(t)'
      /\ t \in I2 <=> Idles(t)'
  BY DEF Works, Idles, Idle
<1>4. (W2 = W \cup {t} \/ W2 = W \ {t}) /\ (I2 = I \cup {t} \/ I2 = I \ {t})
  OBVIOUS
<1> HIDE DEF W, I, W2, I2
<1>5. mActiveThreadCount' = Cardinality(W2)
  BY <1>1, <1>2, <1>3, <1>4, OneMore
<1>6. mIdleThreadCount' = Cardinality(I2)
  BY <1>1, <1>2, <1>3, <1>4, OneMore
<1>7. \A i \in DOMAIN mFiberQueue' : mFiberQueue'[i] \in Entry'
  BY DEF Types
<1> QED
  BY <1>5, <1>6, <1>7 DEF W2, I2, TypeOK

(* A counter that is zero counts nothing.                                  *)
LEMMA CountZero ==
    ASSUME TypeOK
    PROVE  /\ mActiveThreadCount = 0 => \A t \in Threads : ~Works(t)
           /\ mIdleThreadCount = 0 => \A t \in Threads : ~Idles(t)
           /\ mActiveThreadCount \in Nat /\ mIdleThreadCount \in Nat
<1> DEFINE W == {u \in Threads : ft[u] # NoJob /\ at[u] \notin {"settle", "requeue", "hold"}}
           I == {u \in Threads : at[u] \in {"idle", "wait", "leave"}}
<1>1. mActiveThreadCount = Cardinality(W) /\ mIdleThreadCount = Cardinality(I)
  BY DEF TypeOK
<1>2. IsFiniteSet(W) /\ IsFiniteSet(I)
  BY FiniteThreads, FS_Subset
<1>3. /\ Cardinality(W) \in Nat /\ (Cardinality(W) = 0 => W = {})
      /\ Cardinality(I) \in Nat /\ (Cardinality(I) = 0 => I = {})
  BY <1>2, FS_CardinalityType, FS_EmptySet
<1>4. \A t \in Threads : (Works(t) => t \in W) /\ (Idles(t) => t \in I)
  BY DEF Works, Idles, Idle
<1> HIDE DEF W, I
<1> QED
  BY <1>1, <1>3, <1>4

(* An entry goes to the end of the queue.                                  *)
LEMMA Pushed ==
    ASSUME Types, NEW t \in Threads \cup {Application}, NEW e \in Entry, Push(t, e)
    PROVE  /\ mFiberQueue' \in Seq(Entry)
           /\ Len(mFiberQueue') = Len(mFiberQueue) + 1
           /\ \A i \in 1 .. Len(mFiberQueue) : mFiberQueue'[i] = mFiberQueue[i]
           /\ mFiberQueue'[Len(mFiberQueue) + 1] = e
           /\ tickles' \in [Threads \cup {Application} -> Nat]
           /\ \A x \in Threads \cup {Application} : x # t => tickles'[x] = tickles[x]
           /\ mFiberQueue = <<>> /\ setup.workers # {} /\ setup.waits = "timer"
                => tickles'[t] > 0
<1>1. mFiberQueue \in Seq(Entry)
  BY DEF Types
<1>2. mFiberQueue' = Append(mFiberQueue, e)
  BY DEF Push
<1>3. tickles' \in [Threads \cup {Application} -> Nat]
  BY DEF Push, Owes, Types
<1>4. \A x \in Threads \cup {Application} : x # t => tickles'[x] = tickles[x]
  BY DEF Push, Owes, Types
<1>5. mFiberQueue = <<>> /\ setup.workers # {} /\ setup.waits = "timer" => tickles'[t] > 0
  BY DEF Push, Owes, Types
<1> QED
  BY <1>1, <1>2, <1>3, <1>4, <1>5, AppendProperties

(* The place that the search of threadloop stops at.                       *)
LEMMA TakenFacts ==
    ASSUME Types, NEW t \in Threads
    PROVE  /\ Taken(t) # 0 =>
                /\ Taken(t) \in 1 .. Len(mFiberQueue)
                /\ ~ForOther(t, mFiberQueue[Taken(t)])
                /\ ~Busy(mFiberQueue[Taken(t)])
           /\ Taken(t) = 0 =>
                \A i \in 1 .. Len(mFiberQueue) :
                  ForOther(t, mFiberQueue[i]) \/ Busy(mFiberQueue[i])
<1> DEFINE I == {i \in 1 .. Len(mFiberQueue) :
                   ~ForOther(t, mFiberQueue[i]) /\ ~Busy(mFiberQueue[i])}
<1>1. Taken(t) = IF I # {} THEN Min(I) ELSE 0
  BY DEF Taken, SelectInSeq
<1>2. I \subseteq Nat
  BY DEF Types
<1>3. I # {} => Min(I) \in I
  BY <1>2, MinOfNats
<1>4. 0 \notin I
  BY DEF Types
<1> QED
  BY <1>1, <1>3, <1>4
(* Where a thread goes.                                                    *)
LEMMA Goes ==
    ASSUME SInv, NEW t \in InPool, NEW from, NEW to \in Places, Go(t, from, to)
    PROVE  /\ t \in Threads /\ t # Application /\ tickles[t] = 0
           /\ at[t] = from /\ at'[t] = to /\ at' \in [Threads -> Places]
           /\ \A u \in Threads : u # t => at'[u] = at[u]
BY PoolFacts DEF SInv, Types, Go

(* The pool stays as it is.                                                *)
LEMMA PoolStays ==
    ASSUME setup' = setup
    PROVE  InPool' = InPool /\ Entry' = Entry
BY DEF InPool, mRootThread, Entry

(* A step of one thread that schedules nothing: where an idle fiber had    *)
(* ended, the jobs that wait or run are still those stopping() did not     *)
(* count.                                                                  *)
LEMMA EndsStay ==
    ASSUME SInv, NEW t \in Threads, mFiberQueue' = mFiberQueue,
           UNCHANGED <<setup, mStopping, idleFiber>>, uncounted \subseteq uncounted',
           \A u \in Threads : u # t => at'[u] = at[u] /\ ft'[u] = ft[u],
           at'[t] # "ended",
           \/ ft'[t] = NoJob
           \/ /\ ft'[t] = ft[t]
              /\ at[t] \in {"settle", "hold"} =>
                   at'[t] \in {"settle", "hold"} \/ ft[t] \in uncounted'
    PROVE  EndsLast'
<1>1. WasStopping => WasStopping'
  BY DEF WasStopping
<1> QED
  BY <1>1 DEF SInv, EndsLast

(* So it is when thread x schedules a job while stopping() was not true,   *)
(* or a job it does not count.                                             *)
LEMMA PushEnds ==
    ASSUME SInv, NEW x \in Threads \cup {Application}, NEW e \in Entry, Push(x, e),
           UNCHANGED <<setup, mStopping, idleFiber>>, uncounted \subseteq uncounted',
           \A u \in Threads : at'[u] = "ended" => at[u] = "ended",
           \A u \in Threads : ft'[u] # NoJob =>
             ft'[u] = ft[u] /\ (at[u] \in {"settle", "hold"} => at'[u] = at[u]),
           WasStopping => e.job \in uncounted'
    PROVE  EndsLast'
<1> DEFINE n == Len(mFiberQueue)
<1>1. n \in Nat
  BY LenProperties DEF SInv, Types
<1>2. /\ Len(mFiberQueue') = n + 1
      /\ \A i \in 1 .. n : mFiberQueue'[i] = mFiberQueue[i]
      /\ mFiberQueue'[n + 1] = e
  BY Pushed DEF SInv
<1>3. 1 .. n + 1 = (1 .. n) \cup {n + 1}
  BY <1>1
<1> HIDE DEF n
<1>4. WasStopping => \A i \in 1 .. Len(mFiberQueue') : mFiberQueue'[i].job \in uncounted'
  BY <1>2, <1>3 DEF WasStopping, n
<1>5. WasStopping => \A u \in Threads : ft'[u] # NoJob =>
        ft'[u] \in uncounted' \/ at'[u] \in {"settle", "hold"}
  BY DEF WasStopping
<1>6. WasStopping => WasStopping'
  BY <1>4, <1>5 DEF WasStopping
<1> QED
  BY <1>6 DEF SInv, EndsLast

(* No fiber becomes READY but by Yeild2Ready.                              *)
LEMMA YieldedStays ==
    ASSUME SInv, NEW t \in Threads, uncounted \subseteq uncounted',
           ft' \in [Threads -> Jobs \cup {NoJob}],
           \A u \in Threads : u # t => at'[u] = at[u] /\ ft'[u] = ft[u],
           \A j \in Jobs : mState'[j] = "READY" => mState[j] = "READY" \/ j \in uncounted',
           at'[t] \in {"body", "switch", "after", "settle"} /\ mState'[ft'[t]] = "READY"
             => ft'[t] \in uncounted',
           at'[t] = "requeue" => ft'[t] \in uncounted'
    PROVE  ReadyYielded'
<1>1. ASSUME NEW u \in Threads, u # t
      PROVE  /\ at'[u] \in {"body", "switch", "after", "settle"} /\ mState'[ft'[u]] = "READY"
                  => ft'[u] \in uncounted'
             /\ at'[u] = "requeue" => ft'[u] \in uncounted'
  <2>1. at'[u] = at[u] /\ ft'[u] = ft[u]
    BY <1>1
  <2>2. at[u] \in {"body", "switch", "after", "settle"} => ft[u] \in Jobs
    BY DEF SInv, Types, Holding, WithJob
  <2> QED
    BY <2>1, <2>2 DEF SInv, ReadyYielded
<1> QED
  BY <1>1 DEF ReadyYielded

-----------------------------------------------------------------------------
(* Each step preserves the invariant of the threads.                       *)

(* A new thread enters its loop.                                           *)
LEMMA StartThreadInv ==
    ASSUME SInv, NEW t \in InPool, StartThread(t)
    PROVE  SInv'
<1> USE DEF SInv
<1>0. /\ t \in Threads /\ t # Application /\ tickles[t] = 0
      /\ at[t] = "new" /\ at'[t] = "scan" /\ at' \in [Threads -> Places]
      /\ \A u \in Threads : u # t => at'[u] = at[u]
  BY Goes DEF StartThread, Places, WithJob, Idle
<1>0a. setup' = setup /\ InPool' = InPool /\ Entry' = Entry
  BY PoolStays DEF StartThread
<1>1. Types'
  BY <1>0, <1>0a DEF StartThread, Types, fiberVars, jobVars, eventVars, faultVars
<1>2. Holding'
  BY <1>0, <1>0a DEF StartThread, Holding, WithJob
<1>3. TypeOK'
  <2>1. \A u \in Threads \ {t} : ft'[u] = ft[u] /\ at'[u] = at[u]
    BY <1>0 DEF StartThread, Types
  <2>2. mActiveThreadCount' = mActiveThreadCount + (IF Works(t)' THEN 1 ELSE 0)
                                                 - (IF Works(t) THEN 1 ELSE 0)
    BY <1>0, CountZero DEF StartThread, Types, Holding, Works, WithJob, countVars
  <2>3. mIdleThreadCount' = mIdleThreadCount + (IF Idles(t)' THEN 1 ELSE 0)
                                             - (IF Idles(t) THEN 1 ELSE 0)
    BY <1>0, CountZero DEF StartThread, Types, Idles, Idle, countVars
  <2> QED
    BY <1>0, <1>1, <2>1, <2>2, <2>3, CountStep
<1>4. ExecIsHeld'
  BY <1>0 DEF StartThread, ExecIsHeld, fiberVars
<1>5. ReadyYielded'
  BY <1>0 DEF StartThread, ReadyYielded, fiberVars, jobVars
<1>6. EndsLast'
  BY <1>0, EndsStay DEF StartThread, jobVars
<1>7. WorkIsSeen'
  BY <1>0, <1>0a DEF StartThread, WorkIsSeen, Awake, Idle, eventVars
<1> QED
  BY <1>1, <1>2, <1>3, <1>4, <1>5, <1>6, <1>7

(* So does the caller, or it finds nothing to do.                          *)
LEMMA EnterRootInv ==
    ASSUME SInv, NEW t \in InPool, EnterRoot(t)
    PROVE  SInv'
<1> USE DEF SInv
<1>0. /\ t \in Threads /\ t # Application /\ tickles[t] = 0
      /\ at[t] = "caller" /\ at'[t] = (IF stopping THEN "ended" ELSE "scan")
      /\ at' \in [Threads -> Places]
      /\ \A u \in Threads : u # t => at'[u] = at[u]
  BY Goes DEF EnterRoot, Places, WithJob, Idle
<1>0a. setup' = setup /\ InPool' = InPool /\ Entry' = Entry
  BY PoolStays DEF EnterRoot
<1>1. Types'
  BY <1>0, <1>0a DEF EnterRoot, Types, fiberVars, jobVars, eventVars, faultVars
<1>2. Holding'
  BY <1>0, <1>0a DEF EnterRoot, Holding, WithJob
<1>3. TypeOK'
  <2>1. \A u \in Threads \ {t} : ft'[u] = ft[u] /\ at'[u] = at[u]
    BY <1>0 DEF EnterRoot, Types
  <2>2. mActiveThreadCount' = mActiveThreadCount + (IF Works(t)' THEN 1 ELSE 0)
                                                 - (IF Works(t) THEN 1 ELSE 0)
    BY <1>0, CountZero DEF EnterRoot, Types, Holding, Works, WithJob, countVars
  <2>3. mIdleThreadCount' = mIdleThreadCount + (IF Idles(t)' THEN 1 ELSE 0)
                                             - (IF Idles(t) THEN 1 ELSE 0)
    BY <1>0, CountZero DEF EnterRoot, Types, Idles, Idle, countVars
  <2> QED
    BY <1>0, <1>1, <2>1, <2>2, <2>3, CountStep
<1>4. ExecIsHeld'
  BY <1>0 DEF EnterRoot, ExecIsHeld, fiberVars
<1>5. ReadyYielded'
  BY <1>0 DEF EnterRoot, ReadyYielded, fiberVars, jobVars
<1>6. EndsLast'
  <2>1. stopping => WasStopping
    <3>1. stopping => mFiberQueue = <<>> /\ setup.waits # "timer" /\ mStopping
      BY DEF stopping
    <3>2. stopping => \A u \in Threads : ~Works(u)
      BY CountZero DEF stopping
    <3>3. \A u \in Threads : ft[u] # NoJob /\ ~Works(u) =>
            ft[u] \in uncounted \/ at[u] \in {"settle", "hold"}
      BY DEF Works, ReadyYielded
    <3> QED
      BY <3>1, <3>2, <3>3 DEF WasStopping
  <2>2. WasStopping => WasStopping'
    BY <1>0, <1>0a DEF EnterRoot, WasStopping, Holding, WithJob, jobVars
  <2> QED
    BY <1>0, <2>1, <2>2 DEF EnterRoot, EndsLast
<1>7. WorkIsSeen'
  <2>1. CASE stopping
    BY <2>1 DEF EnterRoot, stopping, WorkIsSeen
  <2>2. CASE ~stopping
    <3>1. \A u \in InPool : Awake(u) => Awake(u)'
      BY <1>0, <2>2, PoolFacts DEF EnterRoot, Awake, Idle
    <3> QED
      BY <1>0a, <3>1 DEF EnterRoot, WorkIsSeen, eventVars
  <2> QED
    BY <2>1, <2>2
<1> QED
  BY <1>1, <1>2, <1>3, <1>4, <1>5, <1>6, <1>7

(* stop() only makes stopping() possible.                                  *)
LEMMA StopInv ==
    ASSUME SInv, Stop
    PROVE  SInv'
<1> USE DEF SInv
<1>0. InPool \subseteq Threads /\ Application \notin Threads
  BY PoolFacts
<1>0a. setup' = setup /\ InPool' = InPool /\ Entry' = Entry
  BY PoolStays DEF Stop
<1>0b. Stopper \in InPool \cup {Application}
  BY DEF Stopper, InPool
<1>1. Types'
  <2>1. Cardinality(InPool) \in Nat
    BY <1>0, FiniteThreads, FS_Subset, FS_CardinalityType
  <2>2. tickles' \in [Threads \cup {Application} -> Nat]
    BY <1>0, <1>0b, <2>1 DEF Stop, Owes, Types
  <2> QED
    BY <1>0a, <2>2 DEF Stop, Types, fiberVars, jobVars, threadVars, eventVars, faultVars
<1>2. Holding'
  BY <1>0a DEF Stop, Holding, threadVars
<1>3. TypeOK'
  BY <1>0a DEF Stop, TypeOK, countVars, threadVars
<1>4. ExecIsHeld'
  BY DEF Stop, ExecIsHeld, fiberVars, threadVars
<1>5. ReadyYielded'
  BY DEF Stop, ReadyYielded, fiberVars, threadVars, jobVars
<1>6. EndsLast'
  BY DEF Stop, EndsLast, WasStopping, threadVars, jobVars
<1>7. WorkIsSeen'
  <2>1. \A x \in InPool \cup {Application} :
          setup.waits = "timer" /\ tickles[x] > 0 => tickles'[x] > 0
    <3>1. Cardinality(InPool) \in Nat
      BY <1>0, FiniteThreads, FS_Subset, FS_CardinalityType
    <3> QED
      BY <1>0, <1>0b, <3>1 DEF Stop, Owes, Types
  <2> QED
    BY <1>0a, <2>1 DEF Stop, WorkIsSeen, Awake, eventVars, threadVars
<1> QED
  BY <1>1, <1>2, <1>3, <1>4, <1>5, <1>6, <1>7

(* A tickle() leaves an event if some thread is counted as idle.           *)
LEMMA TickleInv ==
    ASSUME SInv, NEW t \in InPool \cup {Application}, Tickle(t)
    PROVE  SInv'
<1> USE DEF SInv
<1>0. InPool \subseteq Threads /\ Application \notin Threads
  BY PoolFacts
<1>0a. setup' = setup /\ InPool' = InPool /\ Entry' = Entry
  BY PoolStays DEF Tickle
<1>1. Types'
  BY <1>0, <1>0a DEF Tickle, Types, fiberVars, jobVars, threadVars, faultVars
<1>2. Holding'
  BY <1>0a DEF Tickle, Holding, threadVars
<1>3. TypeOK'
  BY <1>0a DEF Tickle, TypeOK, countVars, threadVars
<1>4. ExecIsHeld'
  BY DEF Tickle, ExecIsHeld, fiberVars, threadVars
<1>5. ReadyYielded'
  BY DEF Tickle, ReadyYielded, fiberVars, threadVars, jobVars
<1>6. EndsLast'
  BY DEF Tickle, EndsLast, WasStopping, threadVars, jobVars
<1>7. WorkIsSeen'
  <2>1. CASE mIdleThreadCount > 0
    BY <2>1, <1>0a DEF Tickle, WorkIsSeen
  <2>2. CASE ~(mIdleThreadCount > 0)
    <3> SUFFICES ASSUME setup.waits = "timer", setup.workers # {}, ~missed'
                 PROVE  \E u \in InPool : Awake(u)'
      BY <1>0a DEF Tickle, WorkIsSeen
    <3>1. PICK u \in InPool : u \in setup.workers
      BY DEF InPool
    <3>2. ~Idles(u)
      BY <1>0, <2>2, CountZero
    <3>3. at[u] # "ended"
      BY <1>0 DEF EndsLast, WasStopping
    <3>4. ~(at[u] = "check" /\ ft[u] = NoJob)
      <4>1. mIdleThreadCount = 0
        BY <2>2, CountZero
      <4> QED
        BY <4>1 DEF Tickle
    <3>5. Awake(u)
      BY <3>2, <3>3, <3>4, <1>0 DEF Awake, Idles, Types
    <3> QED
      BY <3>5 DEF Tickle, Awake, threadVars
  <2> QED
    BY <2>1, <2>2
<1> QED
  BY <1>1, <1>2, <1>3, <1>4, <1>5, <1>6, <1>7

(* A failure changes nothing but fault.                                    *)
LEMMA FailsInv ==
    ASSUME SInv, NEW what \in {"state", "callback", "root"}, Fails(what)
    PROVE  SInv'
<1> USE DEF SInv
<1> USE DEF Fails, fiberVars, jobVars, countVars, threadVars, eventVars
<1>0. setup' = setup /\ InPool' = InPool /\ Entry' = Entry
  BY PoolStays
<1>1. Types' /\ Holding' /\ TypeOK' /\ ExecIsHeld' /\ ReadyYielded'
  BY <1>0 DEF Types, Holding, TypeOK, ExecIsHeld, ReadyYielded
<1>2. EndsLast' /\ WorkIsSeen'
  BY <1>0 DEF EndsLast, WasStopping, WorkIsSeen, Awake
<1> QED
  BY <1>1, <1>2

(* A thread without a job resumes its idle fiber.                          *)
LEMMA NoTaskInv ==
    ASSUME SInv, NEW t \in InPool, NoTask(t)
    PROVE  SInv'
<1> USE DEF SInv
<1>0. /\ t \in Threads /\ t # Application /\ tickles[t] = 0
      /\ at[t] = "check" /\ at'[t] = "idle" /\ at' \in [Threads -> Places]
      /\ \A u \in Threads : u # t => at'[u] = at[u]
  BY Goes DEF NoTask, Places, WithJob, Idle
<1>0a. setup' = setup /\ InPool' = InPool /\ Entry' = Entry
  BY PoolStays DEF NoTask
<1>1. Types'
  BY <1>0, <1>0a DEF NoTask, Types, fiberVars, jobVars, eventVars, faultVars
<1>2. Holding'
  BY <1>0, <1>0a DEF NoTask, Holding, WithJob
<1>3. TypeOK'
  <2>1. \A u \in Threads \ {t} : ft'[u] = ft[u] /\ at'[u] = at[u]
    BY <1>0 DEF NoTask, Types
  <2>2. mActiveThreadCount' = mActiveThreadCount + (IF Works(t)' THEN 1 ELSE 0)
                                                 - (IF Works(t) THEN 1 ELSE 0)
    BY <1>0, CountZero DEF NoTask, Types, Holding, Works, WithJob, countVars
  <2>3. mIdleThreadCount' = mIdleThreadCount + (IF Idles(t)' THEN 1 ELSE 0)
                                             - (IF Idles(t) THEN 1 ELSE 0)
    BY <1>0, CountZero DEF NoTask, Types, Idles, Idle, countVars
  <2> QED
    BY <1>0, <1>1, <2>1, <2>2, <2>3, CountStep
<1>4. ExecIsHeld'
  BY <1>0 DEF NoTask, ExecIsHeld, fiberVars
<1>5. ReadyYielded'
  BY <1>0 DEF NoTask, ReadyYielded, fiberVars, jobVars
<1>6. EndsLast'
  BY <1>0, EndsStay DEF NoTask, jobVars
<1>7. WorkIsSeen'
  <2>1. \A u \in InPool : Awake(u) => Awake(u)'
    BY <1>0, PoolFacts DEF NoTask, Awake, Idle
  <2> QED
    BY <1>0a, <2>1 DEF NoTask, WorkIsSeen, eventVars
<1> QED
  BY <1>1, <1>2, <1>3, <1>4, <1>5, <1>6, <1>7

(* The loop ends.                                                          *)
LEMMA LoopEndsInv ==
    ASSUME SInv, NEW t \in InPool, LoopEnds(t)
    PROVE  SInv'
<1> USE DEF SInv
<1>a. CASE \E what \in {"state", "callback", "root"} : Fails(what)
  BY <1>a, FailsInv
<1>b. ASSUME Go(t, "check", "ended"),
             UNCHANGED <<setup, mFiberQueue, fiberVars, jobVars, countVars, mStopping,
                         ft, idleFiber, eventVars, tickles, faultVars>>
      PROVE  SInv'
  <2>0. /\ t \in Threads /\ ft[t] = NoJob /\ idleFiber[t]
        /\ at[t] = "check" /\ at'[t] = "ended" /\ at' \in [Threads -> Places]
        /\ \A u \in Threads : u # t => at'[u] = at[u]
    BY <1>b, Goes DEF LoopEnds, Places
  <2>0a. setup' = setup /\ InPool' = InPool /\ Entry' = Entry
    BY <1>b, PoolStays
  <2>1. Types'
    BY <1>b, <2>0, <2>0a DEF Types, fiberVars, jobVars, eventVars, faultVars
  <2>2. Holding'
    BY <1>b, <2>0, <2>0a DEF Holding, WithJob
  <2>3. TypeOK'
    <3>1. \A u \in Threads \ {t} : ft'[u] = ft[u] /\ at'[u] = at[u]
      BY <1>b, <2>0
    <3>2. ~Works(t) /\ ~Works(t)' /\ ~Idles(t) /\ ~Idles(t)'
      BY <1>b, <2>0 DEF Works, Idles, Idle
    <3> QED
      BY <1>b, <2>0, <2>1, <3>1, <3>2, CountZero, CountStep DEF countVars
  <2>4. ExecIsHeld'
    BY <1>b, <2>0 DEF ExecIsHeld, fiberVars
  <2>5. ReadyYielded'
    BY <1>b, <2>0 DEF ReadyYielded, fiberVars, jobVars
  <2>6. EndsLast'
    <3>1. WasStopping
      BY <2>0 DEF EndsLast
    <3>2. WasStopping'
      BY <1>b, <2>0, <3>1 DEF WasStopping, jobVars
    <3> QED
      BY <3>2 DEF EndsLast
  <2>7. WorkIsSeen'
    <3>1. \A u \in InPool : Awake(u) => Awake(u)'
      BY <1>b, <2>0, PoolFacts DEF Awake, Idle
    <3> QED
      BY <1>b, <2>0a, <3>1 DEF WorkIsSeen, eventVars
  <2> QED
    BY <2>1, <2>2, <2>3, <2>4, <2>5, <2>6, <2>7
<1> QED
  BY <1>a, <1>b DEF LoopEnds

(* The idle fiber looks whether to end.                                    *)
LEMMA IdleCheckInv ==
    ASSUME SInv, NEW t \in InPool, IdleCheck(t)
    PROVE  SInv'
<1> USE DEF SInv
<1>0. /\ t \in Threads /\ t # Application /\ tickles[t] = 0
      /\ at[t] = "idle" /\ at'[t] \in {"wait", "leave"} /\ at' \in [Threads -> Places]
      /\ at'[t] = "wait" => setup.waits = "timer"
      /\ \A u \in Threads : u # t => at'[u] = at[u]
  <2>1. (IF stopping \/ setup.waits = "spin" THEN "leave" ELSE "wait") \in Places
    BY DEF Places, Idle
  <2>2. setup.waits \in {"spin", "timer"}
    BY PoolFacts
  <2> QED
    BY <2>1, <2>2, Goes DEF IdleCheck
<1>0a. setup' = setup /\ InPool' = InPool /\ Entry' = Entry
  BY PoolStays DEF IdleCheck
<1>0b. idleFiber' = [idleFiber EXCEPT ![t] = stopping] /\ stopping \in BOOLEAN
  BY DEF IdleCheck, stopping, Types
<1>1. Types'
  BY <1>0, <1>0a, <1>0b DEF IdleCheck, Types, fiberVars, jobVars, eventVars, faultVars
<1>2. Holding'
  BY <1>0, <1>0a DEF IdleCheck, Holding, WithJob
<1>3. TypeOK'
  <2>1. \A u \in Threads \ {t} : ft'[u] = ft[u] /\ at'[u] = at[u]
    BY <1>0 DEF IdleCheck, Types
  <2>2. mActiveThreadCount' = mActiveThreadCount + (IF Works(t)' THEN 1 ELSE 0)
                                                 - (IF Works(t) THEN 1 ELSE 0)
    BY <1>0, CountZero DEF IdleCheck, Types, Holding, Works, WithJob, countVars
  <2>3. mIdleThreadCount' = mIdleThreadCount + (IF Idles(t)' THEN 1 ELSE 0)
                                             - (IF Idles(t) THEN 1 ELSE 0)
    BY <1>0, CountZero DEF IdleCheck, Types, Idles, Idle, countVars
  <2> QED
    BY <1>0, <1>1, <2>1, <2>2, <2>3, CountStep
<1>4. ExecIsHeld'
  BY <1>0 DEF IdleCheck, ExecIsHeld, fiberVars
<1>5. ReadyYielded'
  BY <1>0 DEF IdleCheck, ReadyYielded, fiberVars, jobVars
<1>6. EndsLast'
  <2>1. stopping => WasStopping
    <3>1. stopping => mFiberQueue = <<>> /\ setup.waits # "timer" /\ mStopping
      BY DEF stopping
    <3>2. stopping => \A u \in Threads : ~Works(u)
      BY CountZero DEF stopping
    <3>3. \A u \in Threads : ft[u] # NoJob /\ ~Works(u) =>
            ft[u] \in uncounted \/ at[u] \in {"settle", "hold"}
      BY DEF Works, ReadyYielded
    <3> QED
      BY <3>1, <3>2, <3>3 DEF WasStopping
  <2>2. WasStopping => WasStopping'
    BY <1>0, <1>0a DEF IdleCheck, WasStopping, Holding, WithJob, jobVars
  <2> QED
    BY <1>0, <1>0b, <2>1, <2>2 DEF EndsLast, Types
<1>7. WorkIsSeen'
  <2>1. \A u \in InPool : Awake(u) => Awake(u)'
    BY <1>0, PoolFacts DEF IdleCheck, Awake, Idle
  <2> QED
    BY <1>0a, <2>1 DEF IdleCheck, WorkIsSeen, eventVars
<1> QED
  BY <1>1, <1>2, <1>3, <1>4, <1>5, <1>6, <1>7

(* The thread that takes the event is awake.                               *)
LEMMA WaitEndsInv ==
    ASSUME SInv, NEW t \in InPool, WaitEnds(t)
    PROVE  SInv'
<1> USE DEF SInv
<1>0. /\ t \in Threads /\ t # Application /\ tickles[t] = 0
      /\ at[t] = "wait" /\ at'[t] = "leave" /\ at' \in [Threads -> Places]
      /\ \A u \in Threads : u # t => at'[u] = at[u]
  BY Goes DEF WaitEnds, Places, WithJob, Idle
<1>0a. setup' = setup /\ InPool' = InPool /\ Entry' = Entry
  BY PoolStays DEF WaitEnds
<1>1. Types'
  BY <1>0, <1>0a DEF WaitEnds, Types, fiberVars, jobVars, eventVars, faultVars
<1>2. Holding'
  BY <1>0, <1>0a DEF WaitEnds, Holding, WithJob
<1>3. TypeOK'
  <2>1. \A u \in Threads \ {t} : ft'[u] = ft[u] /\ at'[u] = at[u]
    BY <1>0 DEF WaitEnds, Types
  <2>2. mActiveThreadCount' = mActiveThreadCount + (IF Works(t)' THEN 1 ELSE 0)
                                                 - (IF Works(t) THEN 1 ELSE 0)
    BY <1>0, CountZero DEF WaitEnds, Types, Holding, Works, WithJob, countVars
  <2>3. mIdleThreadCount' = mIdleThreadCount + (IF Idles(t)' THEN 1 ELSE 0)
                                             - (IF Idles(t) THEN 1 ELSE 0)
    BY <1>0, CountZero DEF WaitEnds, Types, Idles, Idle, countVars
  <2> QED
    BY <1>0, <1>1, <2>1, <2>2, <2>3, CountStep
<1>4. ExecIsHeld'
  BY <1>0 DEF WaitEnds, ExecIsHeld, fiberVars
<1>5. ReadyYielded'
  BY <1>0 DEF WaitEnds, ReadyYielded, fiberVars, jobVars
<1>6. EndsLast'
  BY <1>0, EndsStay DEF WaitEnds, jobVars
<1>7. WorkIsSeen'
  BY <1>0, <1>0a DEF WorkIsSeen, Awake
<1> QED
  BY <1>1, <1>2, <1>3, <1>4, <1>5, <1>6, <1>7

(* The idle fiber yields.                                                  *)
LEMMA IdleYieldsInv ==
    ASSUME SInv, NEW t \in InPool, IdleYields(t)
    PROVE  SInv'
<1> USE DEF SInv
<1>0. /\ t \in Threads /\ t # Application /\ tickles[t] = 0
      /\ at[t] = "leave" /\ at'[t] = "scan" /\ at' \in [Threads -> Places]
      /\ \A u \in Threads : u # t => at'[u] = at[u]
  BY Goes DEF IdleYields, Places, WithJob, Idle
<1>0a. setup' = setup /\ InPool' = InPool /\ Entry' = Entry
  BY PoolStays DEF IdleYields
<1>1. Types'
  BY <1>0, <1>0a DEF IdleYields, Types, fiberVars, jobVars, eventVars, faultVars
<1>2. Holding'
  BY <1>0, <1>0a DEF IdleYields, Holding, WithJob
<1>3. TypeOK'
  <2>1. \A u \in Threads \ {t} : ft'[u] = ft[u] /\ at'[u] = at[u]
    BY <1>0 DEF IdleYields, Types
  <2>2. mActiveThreadCount' = mActiveThreadCount + (IF Works(t)' THEN 1 ELSE 0)
                                                 - (IF Works(t) THEN 1 ELSE 0)
    BY <1>0, CountZero DEF IdleYields, Types, Holding, Works, WithJob, countVars
  <2>3. mIdleThreadCount' = mIdleThreadCount + (IF Idles(t)' THEN 1 ELSE 0)
                                             - (IF Idles(t) THEN 1 ELSE 0)
    BY <1>0, CountZero DEF IdleYields, Types, Idles, Idle, countVars
  <2> QED
    BY <1>0, <1>1, <2>1, <2>2, <2>3, CountStep
<1>4. ExecIsHeld'
  BY <1>0 DEF IdleYields, ExecIsHeld, fiberVars
<1>5. ReadyYielded'
  BY <1>0 DEF IdleYields, ReadyYielded, fiberVars, jobVars
<1>6. EndsLast'
  BY <1>0, EndsStay DEF IdleYields, jobVars
<1>7. WorkIsSeen'
  BY <1>0, <1>0a DEF IdleYields, WorkIsSeen, Awake, Idle, eventVars
<1> QED
  BY <1>1, <1>2, <1>3, <1>4, <1>5, <1>6, <1>7

(* The job is counted no more.                                             *)
LEMMA InactiveInv ==
    ASSUME SInv, NEW t \in InPool, Inactive(t)
    PROVE  SInv'
<1> USE DEF SInv
<1>0. /\ t \in Threads /\ t # Application /\ tickles[t] = 0
      /\ at[t] = "after" /\ at'[t] = "settle" /\ at' \in [Threads -> Places]
      /\ \A u \in Threads : u # t => at'[u] = at[u]
  BY Goes DEF Inactive, Places, WithJob, Idle
<1>0a. setup' = setup /\ InPool' = InPool /\ Entry' = Entry
  BY PoolStays DEF Inactive
<1>1. Types'
  BY <1>0, <1>0a DEF Inactive, Types, fiberVars, jobVars, eventVars, faultVars
<1>2. Holding'
  BY <1>0, <1>0a DEF Inactive, Holding, WithJob
<1>3. TypeOK'
  <2>1. \A u \in Threads \ {t} : ft'[u] = ft[u] /\ at'[u] = at[u]
    BY <1>0 DEF Inactive, Types
  <2>2. mActiveThreadCount' = mActiveThreadCount + (IF Works(t)' THEN 1 ELSE 0)
                                                 - (IF Works(t) THEN 1 ELSE 0)
    BY <1>0, CountZero DEF Inactive, Types, Holding, Works, WithJob, countVars
  <2>3. mIdleThreadCount' = mIdleThreadCount + (IF Idles(t)' THEN 1 ELSE 0)
                                             - (IF Idles(t) THEN 1 ELSE 0)
    BY <1>0, CountZero DEF Inactive, Types, Idles, Idle, countVars
  <2> QED
    BY <1>0, <1>1, <2>1, <2>2, <2>3, CountStep
<1>4. ExecIsHeld'
  BY <1>0 DEF Inactive, ExecIsHeld, fiberVars
<1>5. ReadyYielded'
  BY <1>0 DEF Inactive, ReadyYielded, fiberVars, jobVars
<1>6. EndsLast'
  BY <1>0, EndsStay DEF Inactive, jobVars
<1>7. WorkIsSeen'
  BY <1>0, <1>0a DEF Inactive, WorkIsSeen, Awake, Idle, eventVars
<1> QED
  BY <1>1, <1>2, <1>3, <1>4, <1>5, <1>6, <1>7

(* The fiber is executed.                                                  *)
LEMMA SwapInInv ==
    ASSUME SInv, NEW t \in InPool, SwapIn(t)
    PROVE  SInv'
<1> USE DEF SInv
<1>0. /\ t \in Threads /\ t # Application /\ tickles[t] = 0
      /\ at[t] = "resume" /\ at'[t] = "body" /\ at' \in [Threads -> Places]
      /\ \A u \in Threads : u # t => at'[u] = at[u]
  BY Goes DEF SwapIn, Places, WithJob, Idle
<1>0a. setup' = setup /\ InPool' = InPool /\ Entry' = Entry
  BY PoolStays DEF SwapIn
<1>0b. /\ ft' = ft /\ ft[t] \in Jobs
       /\ mState' \in [Jobs -> States] /\ mState'[ft[t]] = "EXEC"
       /\ \A j \in Jobs : j # ft[t] => mState'[j] = mState[j]
  BY <1>0 DEF SwapIn, Types, Holding, WithJob, States
<1>1. Types'
  <2>1. cbFiber' \in [Threads -> {"none", "running", "kept"}]
    BY DEF SwapIn, Types
  <2> QED
    BY <1>0, <1>0a, <1>0b, <2>1 DEF SwapIn, Types, jobVars, eventVars, faultVars
<1>2. Holding'
  BY <1>0, <1>0a DEF SwapIn, Holding, WithJob
<1>3. TypeOK'
  <2>1. \A u \in Threads \ {t} : ft'[u] = ft[u] /\ at'[u] = at[u]
    BY <1>0 DEF SwapIn, Types
  <2>2. mActiveThreadCount' = mActiveThreadCount + (IF Works(t)' THEN 1 ELSE 0)
                                                 - (IF Works(t) THEN 1 ELSE 0)
    BY <1>0, CountZero DEF SwapIn, Types, Holding, Works, WithJob, countVars
  <2>3. mIdleThreadCount' = mIdleThreadCount + (IF Idles(t)' THEN 1 ELSE 0)
                                             - (IF Idles(t) THEN 1 ELSE 0)
    BY <1>0, CountZero DEF SwapIn, Types, Idles, Idle, countVars
  <2> QED
    BY <1>0, <1>1, <2>1, <2>2, <2>3, CountStep
<1>4. ExecIsHeld'
  BY <1>0, <1>0b DEF ExecIsHeld
<1>5. ReadyYielded'
  <2>1. \A j \in Jobs : mState'[j] = "READY" => mState[j] = "READY"
    BY <1>0b
  <2> QED
    BY <1>0, <1>0b, <2>1, YieldedStays DEF SwapIn, Types, jobVars
<1>6. EndsLast'
  BY <1>0, EndsStay DEF SwapIn, jobVars
<1>7. WorkIsSeen'
  BY <1>0, <1>0a DEF SwapIn, WorkIsSeen, Awake, Idle, eventVars
<1> QED
  BY <1>1, <1>2, <1>3, <1>4, <1>5, <1>6, <1>7

(* A fiber ends.                                                           *)
LEMMA FiberEndsInv ==
    ASSUME SInv, NEW t \in InPool, FiberEnds(t)
    PROVE  SInv'
<1> USE DEF SInv
<1>0. /\ t \in Threads /\ t # Application /\ tickles[t] = 0
      /\ at[t] = "body" /\ at'[t] = "after" /\ at' \in [Threads -> Places]
      /\ \A u \in Threads : u # t => at'[u] = at[u]
  BY Goes DEF FiberEnds, Places, WithJob, Idle
<1>0a. setup' = setup /\ InPool' = InPool /\ Entry' = Entry
  BY PoolStays DEF FiberEnds
<1>0b. /\ ft' = ft /\ ft[t] \in Jobs
       /\ mState' \in [Jobs -> States] /\ mState'[ft[t]] \in {"TERM", "EXCEPT"}
       /\ \A j \in Jobs : j # ft[t] => mState'[j] = mState[j]
  BY <1>0 DEF FiberEnds, Types, Holding, WithJob, States
<1>1. Types'
  BY <1>0, <1>0a, <1>0b DEF FiberEnds, Types, jobVars, eventVars, faultVars
<1>2. Holding'
  BY <1>0, <1>0a DEF FiberEnds, Holding, WithJob
<1>3. TypeOK'
  <2>1. \A u \in Threads \ {t} : ft'[u] = ft[u] /\ at'[u] = at[u]
    BY <1>0 DEF FiberEnds, Types
  <2>2. mActiveThreadCount' = mActiveThreadCount + (IF Works(t)' THEN 1 ELSE 0)
                                                 - (IF Works(t) THEN 1 ELSE 0)
    BY <1>0, CountZero DEF FiberEnds, Types, Holding, Works, WithJob, countVars
  <2>3. mIdleThreadCount' = mIdleThreadCount + (IF Idles(t)' THEN 1 ELSE 0)
                                             - (IF Idles(t) THEN 1 ELSE 0)
    BY <1>0, CountZero DEF FiberEnds, Types, Idles, Idle, countVars
  <2> QED
    BY <1>0, <1>1, <2>1, <2>2, <2>3, CountStep
<1>4. ExecIsHeld'
  BY <1>0, <1>0b DEF ExecIsHeld
<1>5. ReadyYielded'
  <2>1. \A j \in Jobs : mState'[j] = "READY" => mState[j] = "READY"
    BY <1>0b
  <2> QED
    BY <1>0, <1>0b, <2>1, YieldedStays DEF FiberEnds, Types, jobVars
<1>6. EndsLast'
  BY <1>0, EndsStay DEF FiberEnds, jobVars
<1>7. WorkIsSeen'
  BY <1>0, <1>0a DEF FiberEnds, WorkIsSeen, Awake, Idle, eventVars
<1> QED
  BY <1>1, <1>2, <1>3, <1>4, <1>5, <1>6, <1>7

(* A fiber yields.                                                         *)
LEMMA Yeild2ReadyInv ==
    ASSUME SInv, NEW t \in InPool, Yeild2Ready(t)
    PROVE  SInv'
<1> USE DEF SInv
<1>0. /\ t \in Threads /\ t # Application /\ tickles[t] = 0
      /\ at[t] = "body" /\ at'[t] = "after" /\ at' \in [Threads -> Places]
      /\ \A u \in Threads : u # t => at'[u] = at[u]
  BY Goes DEF Yeild2Ready, Places, WithJob, Idle
<1>0a. setup' = setup /\ InPool' = InPool /\ Entry' = Entry
  BY PoolStays DEF Yeild2Ready
<1>0b. /\ ft' = ft /\ ft[t] \in Jobs
       /\ mState' \in [Jobs -> States] /\ mState'[ft[t]] = "READY"
       /\ \A j \in Jobs : j # ft[t] => mState'[j] = mState[j]
  BY <1>0 DEF Yeild2Ready, Types, Holding, WithJob, States
<1>0c. uncounted' = uncounted \cup {ft[t]}
  BY DEF Yeild2Ready
<1>1. Types'
  <2>1. yields' \in Nat
    BY DEF Yeild2Ready, Types
  <2> QED
    BY <1>0, <1>0a, <1>0b, <1>0c, <2>1 DEF Yeild2Ready, Types, eventVars, faultVars
<1>2. Holding'
  BY <1>0, <1>0a DEF Yeild2Ready, Holding, WithJob
<1>3. TypeOK'
  <2>1. \A u \in Threads \ {t} : ft'[u] = ft[u] /\ at'[u] = at[u]
    BY <1>0 DEF Yeild2Ready, Types
  <2>2. mActiveThreadCount' = mActiveThreadCount + (IF Works(t)' THEN 1 ELSE 0)
                                                 - (IF Works(t) THEN 1 ELSE 0)
    BY <1>0, CountZero DEF Yeild2Ready, Types, Holding, Works, WithJob, countVars
  <2>3. mIdleThreadCount' = mIdleThreadCount + (IF Idles(t)' THEN 1 ELSE 0)
                                             - (IF Idles(t) THEN 1 ELSE 0)
    BY <1>0, CountZero DEF Yeild2Ready, Types, Idles, Idle, countVars
  <2> QED
    BY <1>0, <1>1, <2>1, <2>2, <2>3, CountStep
<1>4. ExecIsHeld'
  BY <1>0, <1>0b DEF ExecIsHeld
<1>5. ReadyYielded'
  <2>1. \A j \in Jobs : mState'[j] = "READY" => mState[j] = "READY" \/ j \in uncounted'
    BY <1>0b, <1>0c
  <2> QED
    BY <1>0, <1>0b, <1>0c, <2>1, YieldedStays DEF Types
<1>6. EndsLast'
  BY <1>0, <1>0c, EndsStay DEF Yeild2Ready
<1>7. WorkIsSeen'
  BY <1>0, <1>0a DEF Yeild2Ready, WorkIsSeen, Awake, Idle, eventVars
<1> QED
  BY <1>1, <1>2, <1>3, <1>4, <1>5, <1>6, <1>7

(* A fiber that has called switchTo yields.                                *)
LEMMA Yeild2HoldInv ==
    ASSUME SInv, NEW t \in InPool, Yeild2Hold(t)
    PROVE  SInv'
<1> USE DEF SInv
<1>0. /\ t \in Threads /\ t # Application /\ tickles[t] = 0
      /\ at[t] = "switch" /\ at'[t] = "after" /\ at' \in [Threads -> Places]
      /\ \A u \in Threads : u # t => at'[u] = at[u]
  BY Goes DEF Yeild2Hold, Places, WithJob, Idle
<1>0a. setup' = setup /\ InPool' = InPool /\ Entry' = Entry
  BY PoolStays DEF Yeild2Hold
<1>0b. /\ ft' = ft /\ ft[t] \in Jobs
       /\ mState' \in [Jobs -> States] /\ mState'[ft[t]] = "HOLD"
       /\ \A j \in Jobs : j # ft[t] => mState'[j] = mState[j]
  BY <1>0 DEF Yeild2Hold, Types, Holding, WithJob, States
<1>1. Types'
  BY <1>0, <1>0a, <1>0b DEF Yeild2Hold, Types, jobVars, eventVars, faultVars
<1>2. Holding'
  BY <1>0, <1>0a DEF Yeild2Hold, Holding, WithJob
<1>3. TypeOK'
  <2>1. \A u \in Threads \ {t} : ft'[u] = ft[u] /\ at'[u] = at[u]
    BY <1>0 DEF Yeild2Hold, Types
  <2>2. mActiveThreadCount' = mActiveThreadCount + (IF Works(t)' THEN 1 ELSE 0)
                                                 - (IF Works(t) THEN 1 ELSE 0)
    BY <1>0, CountZero DEF Yeild2Hold, Types, Holding, Works, WithJob, countVars
  <2>3. mIdleThreadCount' = mIdleThreadCount + (IF Idles(t)' THEN 1 ELSE 0)
                                             - (IF Idles(t) THEN 1 ELSE 0)
    BY <1>0, CountZero DEF Yeild2Hold, Types, Idles, Idle, countVars
  <2> QED
    BY <1>0, <1>1, <2>1, <2>2, <2>3, CountStep
<1>4. ExecIsHeld'
  BY <1>0, <1>0b DEF ExecIsHeld
<1>5. ReadyYielded'
  <2>1. \A j \in Jobs : mState'[j] = "READY" => mState[j] = "READY"
    BY <1>0b
  <2> QED
    BY <1>0, <1>0b, <2>1, YieldedStays DEF Yeild2Hold, Types, jobVars
<1>6. EndsLast'
  BY <1>0, EndsStay DEF Yeild2Hold, jobVars
<1>7. WorkIsSeen'
  BY <1>0, <1>0a DEF Yeild2Hold, WorkIsSeen, Awake, Idle, eventVars
<1> QED
  BY <1>1, <1>2, <1>3, <1>4, <1>5, <1>6, <1>7

(* A job is resumed or dropped.                                            *)
LEMMA ResumeInv ==
    ASSUME SInv, NEW t \in InPool, Resume(t)
    PROVE  SInv'
<1> USE DEF SInv
<1>0. /\ t \in Threads /\ t # Application /\ tickles[t] = 0
      /\ at[t] = "check" /\ at'[t] \in {"resume", "scan"} /\ at' \in [Threads -> Places]
      /\ \A u \in Threads : u # t => at'[u] = at[u]
  BY Goes DEF Resume, Places, WithJob
<1>0a. setup' = setup /\ InPool' = InPool /\ Entry' = Entry
  BY PoolStays DEF Resume
<1>0b. /\ ft[t] # NoJob /\ ft' \in [Threads -> Jobs \cup {NoJob}]
       /\ \A u \in Threads : u # t => ft'[u] = ft[u]
       /\ at'[t] = "resume" => ft'[t] = ft[t]
       /\ at'[t] = "scan" => ft'[t] = NoJob
  BY <1>0 DEF Resume, Go, Types
<1>0c. mActiveThreadCount' = mActiveThreadCount - (IF at'[t] = "scan" THEN 1 ELSE 0)
  <2>1. mActiveThreadCount \in Nat
    BY CountZero
  <2> QED
    BY <1>0, <2>1 DEF Resume, Go, Types, countVars
<1>1. Types'
  BY <1>0, <1>0a, <1>0b DEF Resume, Types, fiberVars, jobVars, eventVars, faultVars
<1>2. Holding'
  BY <1>0, <1>0a, <1>0b DEF Holding, WithJob
<1>3. TypeOK'
  <2>1. \A u \in Threads \ {t} : ft'[u] = ft[u] /\ at'[u] = at[u]
    BY <1>0 DEF Resume, Types
  <2>2. mActiveThreadCount' = mActiveThreadCount + (IF Works(t)' THEN 1 ELSE 0)
                                                 - (IF Works(t) THEN 1 ELSE 0)
    BY <1>0, <1>0b, <1>0c, CountZero DEF Works
  <2>3. mIdleThreadCount' = mIdleThreadCount + (IF Idles(t)' THEN 1 ELSE 0)
                                             - (IF Idles(t) THEN 1 ELSE 0)
    BY <1>0, CountZero DEF Resume, Types, Idles, Idle, countVars
  <2> QED
    BY <1>0, <1>1, <2>1, <2>2, <2>3, CountStep
<1>4. ExecIsHeld'
  BY <1>0, <1>0b DEF Resume, ExecIsHeld, fiberVars
<1>5. ReadyYielded'
  BY <1>0, <1>0b DEF Resume, ReadyYielded, fiberVars, jobVars
<1>6. EndsLast'
  BY <1>0, <1>0b, EndsStay DEF Resume, jobVars
<1>7. WorkIsSeen'
  <2>1. Awake(t)'
    BY <1>0 DEF Awake, Idle
  <2> QED
    BY <1>0a, <2>1 DEF WorkIsSeen
<1> QED
  BY <1>1, <1>2, <1>3, <1>4, <1>5, <1>6, <1>7

(* A step that schedules e leaves the queue seen: the first entry of an    *)
(* empty queue is announced, and the others were.                          *)
LEMMA PushSeen ==
    ASSUME SInv, NEW x \in InPool \cup {Application}, NEW e \in Entry, Push(x, e),
           setup' = setup, UNCHANGED eventVars,
           \A u \in InPool : Awake(u) => Awake(u)'
    PROVE  WorkIsSeen'
<1> USE DEF SInv
<1>1. InPool \subseteq Threads /\ InPool' = InPool
  BY PoolFacts, PoolStays
<1>2. mFiberQueue = <<>> /\ setup.workers # {} /\ setup.waits = "timer" => tickles'[x] > 0
  BY <1>1, Pushed
<1>3. \A y \in InPool \cup {Application} :
        setup.waits = "timer" /\ tickles[y] > 0 => tickles'[y] > 0
  <2> SUFFICES ASSUME NEW y \in InPool \cup {Application}, setup.waits = "timer", tickles[y] > 0
               PROVE  tickles'[y] > 0
    OBVIOUS
  <2>1. y \in Threads \cup {Application} /\ tickles[y] \in Nat
    BY <1>1 DEF Types
  <2>2. CASE y # x
    BY <1>1, <2>1, <2>2, Pushed
  <2>3. CASE y = x
    BY <2>1, <2>3 DEF Push, Owes, Types
  <2> QED
    BY <2>2, <2>3
<1>4. CASE mFiberQueue = <<>>
  BY <1>1, <1>2, <1>4 DEF WorkIsSeen
<1>5. CASE mFiberQueue # <<>>
  BY <1>1, <1>3, <1>5 DEF WorkIsSeen, eventVars
<1> QED
  BY <1>4, <1>5

(* schedule(), called by a thread outside the loop.                        *)
LEMMA ScheduleInv ==
    ASSUME SInv, NEW e \in Entry, Schedule(e)
    PROVE  SInv'
<1> USE DEF SInv
<1>0. setup' = setup /\ InPool' = InPool /\ Entry' = Entry
  BY PoolStays DEF Schedule
<1>0a. uncounted' \subseteq Jobs /\ uncounted \subseteq uncounted' /\ e.job \in Jobs
  BY DEF Schedule, Types, Entry
<1>1. Types'
  <2>1. mFiberQueue' \in Seq(Entry) /\ tickles' \in [Threads \cup {Application} -> Nat]
    BY Pushed DEF Schedule
  <2> QED
    BY <1>0, <1>0a, <2>1 DEF Schedule, Types, fiberVars, countVars, threadVars, eventVars,
       faultVars
<1>2. Holding'
  BY <1>0 DEF Schedule, Holding, threadVars
<1>3. TypeOK'
  BY <1>1 DEF Schedule, TypeOK, Types, countVars, threadVars
<1>4. ExecIsHeld'
  BY DEF Schedule, ExecIsHeld, fiberVars, threadVars
<1>5. ReadyYielded'
  BY <1>0a DEF Schedule, ReadyYielded, fiberVars, threadVars
<1>6. EndsLast'
  <2>1. WasStopping => e.job \in uncounted'
    BY DEF Schedule, WasStopping
  <2> QED
    BY <1>0a, <2>1, PushEnds DEF Schedule, threadVars
<1>7. WorkIsSeen'
  BY PushSeen DEF Schedule, Awake, threadVars
<1> QED
  BY <1>1, <1>2, <1>3, <1>4, <1>5, <1>6, <1>7

(* A job schedules another job.                                            *)
LEMMA ScheduleFromInv ==
    ASSUME SInv, NEW t \in InPool, NEW e \in Entry, ScheduleFrom(t, e)
    PROVE  SInv'
<1> USE DEF SInv
<1>0. t \in Threads /\ setup' = setup /\ InPool' = InPool /\ Entry' = Entry
  BY PoolFacts, PoolStays DEF ScheduleFrom
<1>0a. at' = at /\ at[t] = "body" /\ ft' = ft /\ ft[t] \in Jobs
  BY <1>0 DEF ScheduleFrom, Go, Types, Holding, WithJob
<1>0b. uncounted' \subseteq Jobs /\ uncounted \subseteq uncounted' /\ e.job \in Jobs
  BY DEF ScheduleFrom, Types, Entry
<1>1. Types'
  <2>1. mFiberQueue' \in Seq(Entry) /\ tickles' \in [Threads \cup {Application} -> Nat]
    BY <1>0, Pushed DEF ScheduleFrom
  <2> QED
    BY <1>0, <1>0a, <1>0b, <2>1 DEF ScheduleFrom, Types, fiberVars, countVars, eventVars,
       faultVars
<1>2. Holding'
  BY <1>0, <1>0a DEF ScheduleFrom, Holding
<1>3. TypeOK'
  BY <1>0a, <1>1 DEF ScheduleFrom, TypeOK, Types, countVars
<1>4. ExecIsHeld'
  BY <1>0a DEF ScheduleFrom, ExecIsHeld, fiberVars
<1>5. ReadyYielded'
  BY <1>0a, <1>0b DEF ScheduleFrom, ReadyYielded, fiberVars
<1>6. EndsLast'
  <2>1. WasStopping => e.job \in uncounted'
    BY <1>0, <1>0a DEF ScheduleFrom, WasStopping, Holding, WithJob
  <2> QED
    BY <1>0, <1>0a, <1>0b, <2>1, PushEnds DEF ScheduleFrom
<1>7. WorkIsSeen'
  BY <1>0a, PushSeen DEF ScheduleFrom, Awake
<1> QED
  BY <1>1, <1>2, <1>3, <1>4, <1>5, <1>6, <1>7

(* KcpManager::idle schedules a callback.                                  *)
LEMMA ScheduleIdleInv ==
    ASSUME SInv, NEW t \in InPool, NEW e \in Entry, ScheduleIdle(t, e)
    PROVE  SInv'
<1> USE DEF SInv
<1>0. t \in Threads /\ setup' = setup /\ InPool' = InPool /\ Entry' = Entry
  BY PoolFacts, PoolStays DEF ScheduleIdle
<1>0a. at' = at /\ at[t] = "leave" /\ ft' = ft
  BY <1>0 DEF ScheduleIdle, Go, Types
<1>1. Types'
  <2>1. mFiberQueue' \in Seq(Entry) /\ tickles' \in [Threads \cup {Application} -> Nat]
    BY <1>0, Pushed DEF ScheduleIdle
  <2>2. given' \subseteq Jobs
    BY DEF ScheduleIdle, Types, Entry
  <2> QED
    BY <1>0, <1>0a, <2>1, <2>2 DEF ScheduleIdle, Types, fiberVars, countVars, eventVars,
       faultVars
<1>2. Holding'
  BY <1>0, <1>0a DEF ScheduleIdle, Holding
<1>3. TypeOK'
  BY <1>0a, <1>1 DEF ScheduleIdle, TypeOK, Types, countVars
<1>4. ExecIsHeld'
  BY <1>0a DEF ScheduleIdle, ExecIsHeld, fiberVars
<1>5. ReadyYielded'
  BY <1>0a DEF ScheduleIdle, ReadyYielded, fiberVars
<1>6. EndsLast'
  <2>1. ~WasStopping
    BY DEF ScheduleIdle, WasStopping
  <2> QED
    BY <1>0a, <2>1 DEF ScheduleIdle, EndsLast
<1>7. WorkIsSeen'
  BY <1>0a, PushSeen DEF ScheduleIdle, Awake
<1> QED
  BY <1>1, <1>2, <1>3, <1>4, <1>5, <1>6, <1>7

(* A fiber schedules itself to another thread.                             *)
LEMMA SwitchToInv ==
    ASSUME SInv, NEW t \in InPool, NEW tid \in InPool \cup {AnyThread}, SwitchTo(t, tid)
    PROVE  SInv'
<1> USE DEF SInv
<1> DEFINE e == [job |-> ft[t], tid |-> tid]
<1>0. /\ t \in Threads /\ t # Application /\ tickles[t] = 0
      /\ at[t] = "body" /\ at'[t] = "switch" /\ at' \in [Threads -> Places]
      /\ \A u \in Threads : u # t => at'[u] = at[u]
  BY Goes DEF SwitchTo, Places, WithJob
<1>0a. setup' = setup /\ InPool' = InPool /\ Entry' = Entry
  BY PoolStays DEF SwitchTo
<1>0b. ft' = ft /\ ft[t] \in Jobs /\ ft[t] # NoJob
  BY <1>0 DEF SwitchTo, Types, Holding, WithJob
<1>0c. e \in Entry
  BY <1>0b DEF Entry
<1>1. Types'
  <2>1. mFiberQueue' \in Seq(Entry) /\ tickles' \in [Threads \cup {Application} -> Nat]
    BY <1>0, <1>0c, Pushed DEF SwitchTo
  <2>2. yields' \in Nat
    BY DEF SwitchTo, Types
  <2> QED
    BY <1>0, <1>0a, <1>0b, <2>1, <2>2 DEF SwitchTo, Types, fiberVars, eventVars, faultVars
<1>2. Holding'
  BY <1>0, <1>0a, <1>0b DEF Holding, WithJob
<1>3. TypeOK'
  <2>1. Works(t)' /\ Works(t) /\ ~Idles(t) /\ ~Idles(t)'
    BY <1>0, <1>0b DEF Works, Idles, Idle
  <2>2. mActiveThreadCount' = mActiveThreadCount /\ mIdleThreadCount' = mIdleThreadCount
    BY DEF SwitchTo, countVars
  <2> QED
    BY <1>0, <1>0b, <1>1, <2>1, <2>2, CountZero, CountStep
<1>4. ExecIsHeld'
  BY <1>0, <1>0b DEF SwitchTo, ExecIsHeld, fiberVars
<1>5. ReadyYielded'
  BY <1>0, <1>0b DEF SwitchTo, ReadyYielded, fiberVars
<1>6. EndsLast'
  <2>1. WasStopping => e.job \in uncounted'
    BY <1>0, <1>0b DEF SwitchTo, WasStopping
  <2>2. \A u \in Threads : ft'[u] # NoJob =>
          ft'[u] = ft[u] /\ (at[u] \in {"settle", "hold"} => at'[u] = at[u])
    BY <1>0, <1>0b
  <2> HIDE DEF e
  <2> QED
    BY <1>0, <1>0c, <2>1, <2>2, PushEnds DEF SwitchTo, e
<1>7. WorkIsSeen'
  <2>1. \A u \in InPool : Awake(u) => Awake(u)'
    BY <1>0, <1>0b, PoolFacts DEF Awake, Idle
  <2> QED
    BY <1>0a, <1>0c, <2>1, PushSeen DEF SwitchTo
<1> QED
  BY <1>1, <1>2, <1>3, <1>4, <1>5, <1>6, <1>7

(* The thread reads the state of the fiber it is done with.                *)
LEMMA SettleInv ==
    ASSUME SInv, NEW t \in InPool, Settle(t)
    PROVE  SInv'
<1> USE DEF SInv
<1>0. /\ t \in Threads /\ t # Application /\ tickles[t] = 0
      /\ at[t] = "settle" /\ at'[t] = NextReads(mState[ft[t]]) /\ at' \in [Threads -> Places]
      /\ \A u \in Threads : u # t => at'[u] = at[u]
  BY Goes DEF Settle, NextReads, Places, WithJob
<1>0a. setup' = setup /\ InPool' = InPool /\ Entry' = Entry
  BY PoolStays DEF Settle
<1>0b. /\ ft[t] \in Jobs /\ ft[t] # NoJob /\ ft' \in [Threads -> Jobs \cup {NoJob}]
       /\ \A u \in Threads : u # t => ft'[u] = ft[u]
       /\ \/ at'[t] = "scan" /\ ft'[t] = NoJob
          \/ at'[t] = "hold" /\ ft'[t] = ft[t]
          \/ at'[t] = "requeue" /\ ft'[t] = ft[t] /\ mState[ft[t]] = "READY"
  BY <1>0 DEF Settle, NextReads, Types, Holding, WithJob
<1>0c. cbFiber' \in [Threads -> {"none", "running", "kept"}]
  BY DEF Settle, Types
<1>1. Types'
  BY <1>0, <1>0a, <1>0b, <1>0c DEF Settle, Types, jobVars, eventVars, faultVars
<1>2. Holding'
  BY <1>0, <1>0a, <1>0b DEF Holding, WithJob
<1>3. TypeOK'
  <2>1. ~Works(t)' /\ ~Works(t) /\ ~Idles(t) /\ ~Idles(t)'
    BY <1>0, <1>0b DEF Works, Idles, Idle
  <2>2. mActiveThreadCount' = mActiveThreadCount /\ mIdleThreadCount' = mIdleThreadCount
    BY DEF Settle, countVars
  <2> QED
    BY <1>0, <1>0b, <1>1, <2>1, <2>2, CountZero, CountStep
<1>4. ExecIsHeld'
  BY <1>0, <1>0b DEF Settle, ExecIsHeld
<1>5. ReadyYielded'
  BY <1>0, <1>0b DEF Settle, ReadyYielded, jobVars
<1>6. EndsLast'
  <2>1. at'[t] = "requeue" => ft[t] \in uncounted'
    BY <1>0, <1>0b DEF Settle, ReadyYielded, jobVars
  <2> QED
    BY <1>0, <1>0b, <2>1, EndsStay DEF Settle, jobVars
<1>7. WorkIsSeen'
  <2>1. \A u \in InPool : Awake(u) => Awake(u)'
    BY <1>0, <1>0b, PoolFacts DEF Awake, Idle
  <2> QED
    BY <1>0a, <2>1 DEF Settle, WorkIsSeen, eventVars
<1> QED
  BY <1>1, <1>2, <1>3, <1>4, <1>5, <1>6, <1>7

(* The thread is done with its job.                                        *)
LEMMA PutAsideFacts ==
    ASSUME SInv, NEW t \in InPool, NEW from \in {"requeue", "hold"}, PutAside(t, from)
    PROVE  /\ t \in Threads /\ t # Application /\ tickles[t] = 0
           /\ at[t] = from /\ at'[t] = "scan" /\ at' \in [Threads -> Places]
           /\ \A u \in Threads : u # t => at'[u] = at[u] /\ ft'[u] = ft[u]
           /\ ft[t] \in Jobs /\ ft[t] # NoJob
           /\ ft' = [ft EXCEPT ![t] = NoJob] /\ ft'[t] = NoJob
           /\ ft' \in [Threads -> Jobs \cup {NoJob}]
           /\ cbFiber' \in [Threads -> {"none", "running", "kept"}]
           /\ setup' = setup /\ InPool' = InPool /\ Entry' = Entry
           /\ UNCHANGED <<jobVars, countVars, mStopping, idleFiber, eventVars, faultVars>>
           /\ Types /\ Holding' /\ (Types' => TypeOK')
           /\ \A u \in InPool : Awake(u) => Awake(u)'
<1> USE DEF SInv
<1>1. /\ t \in Threads /\ t # Application /\ tickles[t] = 0
      /\ at[t] = from /\ at'[t] = "scan" /\ at' \in [Threads -> Places]
      /\ \A u \in Threads : u # t => at'[u] = at[u]
  BY Goes DEF PutAside, Places
<1>2. /\ ft[t] \in Jobs /\ ft[t] # NoJob /\ ft' \in [Threads -> Jobs \cup {NoJob}]
      /\ ft' = [ft EXCEPT ![t] = NoJob] /\ ft'[t] = NoJob
      /\ \A u \in Threads : u # t => ft'[u] = ft[u]
  BY <1>1 DEF PutAside, Types, Holding, WithJob
<1>3. cbFiber' \in [Threads -> {"none", "running", "kept"}]
  BY DEF PutAside, Types
<1>4. setup' = setup /\ InPool' = InPool /\ Entry' = Entry
  BY PoolStays DEF PutAside
<1>5. UNCHANGED <<jobVars, countVars, mStopping, idleFiber, eventVars, faultVars>>
  BY DEF PutAside
<1>6. Holding'
  BY <1>1, <1>2, <1>4 DEF Holding, WithJob
<1>7. ASSUME Types' PROVE TypeOK'
  <2>1. ~Works(t)' /\ ~Works(t) /\ ~Idles(t) /\ ~Idles(t)'
    BY <1>1, <1>2 DEF Works, Idles, Idle
  <2>2. mActiveThreadCount' = mActiveThreadCount /\ mIdleThreadCount' = mIdleThreadCount
    BY <1>5 DEF countVars
  <2> QED
    BY <1>1, <1>2, <1>7, <2>1, <2>2, CountZero, CountStep
<1>8. \A u \in InPool : Awake(u) => Awake(u)'
  BY <1>1, <1>2, PoolFacts DEF Awake, Idle
<1> QED
  BY <1>1, <1>2, <1>3, <1>4, <1>5, <1>6, <1>7, <1>8

(* It goes back to the queue.                                              *)
LEMMA RequeueInv ==
    ASSUME SInv, NEW t \in InPool, Requeue(t)
    PROVE  SInv'
<1> USE DEF SInv
<1> DEFINE e == [job |-> ft[t], tid |-> AnyThread]
<1>0. PutAside(t, "requeue") /\ Push(t, e) /\ mState' = mState
  BY DEF Requeue
<1>0a. /\ t \in Threads /\ at[t] = "requeue" /\ at'[t] = "scan" /\ at' \in [Threads -> Places]
       /\ \A u \in Threads : u # t => at'[u] = at[u] /\ ft'[u] = ft[u]
       /\ ft[t] \in Jobs /\ ft'[t] = NoJob
       /\ ft' \in [Threads -> Jobs \cup {NoJob}]
       /\ cbFiber' \in [Threads -> {"none", "running", "kept"}]
       /\ setup' = setup /\ InPool' = InPool /\ Entry' = Entry
       /\ UNCHANGED <<jobVars, countVars, mStopping, idleFiber, eventVars, faultVars>>
  BY <1>0, PutAsideFacts
<1>0b. Holding' /\ (Types' => TypeOK') /\ \A u \in InPool : Awake(u) => Awake(u)'
  BY <1>0, PutAsideFacts
<1>0c. e \in Entry /\ e.job \in uncounted
  BY <1>0a DEF Entry, ReadyYielded
<1> HIDE DEF e
<1>1. Types'
  <2>1. mFiberQueue' \in Seq(Entry) /\ tickles' \in [Threads \cup {Application} -> Nat]
    BY <1>0, <1>0a, <1>0c, Pushed
  <2> QED
    BY <1>0, <1>0a, <2>1 DEF Types, jobVars, eventVars, faultVars
<1>4. ExecIsHeld'
  BY <1>0, <1>0a DEF ExecIsHeld
<1>5. ReadyYielded'
  BY <1>0, <1>0a DEF ReadyYielded, jobVars
<1>6. EndsLast'
  <2>1. \A u \in Threads : ft'[u] # NoJob =>
          ft'[u] = ft[u] /\ (at[u] \in {"settle", "hold"} => at'[u] = at[u])
    BY <1>0a
  <2>2. \A u \in Threads : at'[u] = "ended" => at[u] = "ended"
    BY <1>0a
  <2> QED
    BY <1>0, <1>0a, <1>0c, <2>1, <2>2, PushEnds DEF jobVars
<1>7. WorkIsSeen'
  BY <1>0, <1>0a, <1>0b, <1>0c, PushSeen
<1> QED
  BY <1>0b, <1>1, <1>4, <1>5, <1>6, <1>7

(* Or it is set to HOLD.                                                   *)
LEMMA SetHoldInv ==
    ASSUME SInv, NEW t \in InPool, SetHold(t)
    PROVE  SInv'
<1> USE DEF SInv
<1>0. /\ PutAside(t, "hold") /\ mState' = [mState EXCEPT ![ft[t]] = "HOLD"]
      /\ mFiberQueue' = mFiberQueue /\ tickles' = tickles
  BY DEF SetHold
<1>0a. /\ t \in Threads /\ at[t] = "hold" /\ at'[t] = "scan" /\ at' \in [Threads -> Places]
       /\ \A u \in Threads : u # t => at'[u] = at[u] /\ ft'[u] = ft[u]
       /\ ft[t] \in Jobs /\ ft'[t] = NoJob
       /\ ft' \in [Threads -> Jobs \cup {NoJob}]
       /\ cbFiber' \in [Threads -> {"none", "running", "kept"}]
       /\ setup' = setup /\ InPool' = InPool /\ Entry' = Entry
       /\ UNCHANGED <<jobVars, countVars, mStopping, idleFiber, eventVars, faultVars>>
  BY <1>0, PutAsideFacts
<1>0b. Holding' /\ (Types' => TypeOK') /\ \A u \in InPool : Awake(u) => Awake(u)'
  BY <1>0, PutAsideFacts
<1>0c. /\ mState' \in [Jobs -> States] /\ mState'[ft[t]] = "HOLD"
       /\ \A j \in Jobs : j # ft[t] => mState'[j] = mState[j]
  BY <1>0, <1>0a DEF Types, States
<1>1. Types'
  BY <1>0, <1>0a, <1>0c DEF Types, jobVars, eventVars, faultVars
<1>4. ExecIsHeld'
  BY <1>0a, <1>0c DEF ExecIsHeld
<1>5. ReadyYielded'
  <2>1. \A j \in Jobs : mState'[j] = "READY" => mState[j] = "READY"
    BY <1>0a, <1>0c
  <2> QED
    BY <1>0a, <2>1, YieldedStays DEF jobVars
<1>6. EndsLast'
  BY <1>0, <1>0a, EndsStay DEF jobVars
<1>7. WorkIsSeen'
  BY <1>0, <1>0a, <1>0b DEF WorkIsSeen, eventVars
<1> QED
  BY <1>0b, <1>1, <1>4, <1>5, <1>6, <1>7

(* The search: the thread takes a job, or every job it leaves behind is    *)
(* another thread's, which it wakes, or in the hands of a thread.          *)
LEMMA ScanInv ==
    ASSUME SInv, NEW t \in InPool, Scan(t)
    PROVE  SInv'
<1> USE DEF SInv
<1>0. /\ t \in Threads /\ t # Application /\ tickles[t] = 0
      /\ at[t] = "scan" /\ at'[t] = "check" /\ at' \in [Threads -> Places]
      /\ \A u \in Threads : u # t => at'[u] = at[u]
      /\ ft[t] = NoJob
  BY Goes DEF Scan, Places, Holding, WithJob
<1>0a. setup' = setup /\ InPool' = InPool /\ Entry' = Entry
  BY PoolStays DEF Scan
<1>0b. UNCHANGED <<fiberVars, jobVars, mIdleThreadCount, mStopping, idleFiber, eventVars>>
  BY DEF Scan
<1>0c. /\ tickles' \in [Threads \cup {Application} -> Nat]
       /\ \A x \in Threads \cup {Application} : x # t => tickles'[x] = tickles[x]
       /\ LeavesWork(t) /\ setup.waits = "timer" => tickles'[t] > 0
  BY <1>0 DEF Scan, Owes, Types
<1>0d. overtaken' \in BOOLEAN /\ fault' = fault
  BY DEF Scan, Types
<1>1. CASE Taken(t) # 0
  <2>1. Taken(t) \in 1 .. Len(mFiberQueue)
    BY <1>0, <1>1, TakenFacts
  <2>2. mFiberQueue \in Seq(Entry) /\ mFiberQueue[Taken(t)] \in Entry
    BY <2>1, ElementOfSeq DEF Types
  <2> DEFINE j == mFiberQueue[Taken(t)].job
             n == Len(mFiberQueue)
  <2>3. j \in Jobs /\ j # NoJob
    BY <2>2, Names DEF Entry
  <2>4. /\ ft'[t] = j /\ ft' \in [Threads -> Jobs \cup {NoJob}]
        /\ \A u \in Threads : u # t => ft'[u] = ft[u]
    BY <1>0, <1>1, <2>3 DEF Scan, Types
  <2>5. /\ mFiberQueue' \in Seq(Entry) /\ Len(mFiberQueue') = n - 1
        /\ \A k \in 1 .. n - 1 : mFiberQueue'[k] = mFiberQueue[IF k < Taken(t) THEN k ELSE k + 1]
    BY <1>1, <2>1, <2>2, RemoveAtElements DEF Scan
  <2>6. mActiveThreadCount' = mActiveThreadCount + 1
    BY <1>1 DEF Scan
  <2>7. WasStopping => /\ j \in uncounted
                       /\ \A k \in 1 .. n - 1 : mFiberQueue'[k].job \in uncounted
    <3>1. n \in Nat
      BY <2>2, LenProperties
    <3>2. \A k \in 1 .. n - 1 : (IF k < Taken(t) THEN k ELSE k + 1) \in 1 .. n
      BY <3>1
    <3> QED
      BY <2>1, <2>5, <3>2 DEF WasStopping
  <2> HIDE DEF j, n
  <2>10. Types'
    BY <1>0, <1>0a, <1>0b, <1>0c, <1>0d, <2>4, <2>5
    DEF Types, fiberVars, jobVars, eventVars
  <2>11. Holding'
    BY <1>0, <1>0a, <2>3, <2>4 DEF Holding, WithJob
  <2>12. TypeOK'
    <3>1. Works(t)' /\ ~Works(t) /\ ~Idles(t) /\ ~Idles(t)'
      BY <1>0, <2>3, <2>4 DEF Works, Idles, Idle
    <3> QED
      BY <1>0, <1>0b, <2>4, <2>6, <2>10, <3>1, CountZero, CountStep
  <2>13. ExecIsHeld'
    BY <1>0, <1>0b, <2>4 DEF ExecIsHeld, fiberVars
  <2>14. ReadyYielded'
    BY <1>0, <1>0b, <2>4 DEF ReadyYielded, fiberVars, jobVars
  <2>15. EndsLast'
    <3>1. WasStopping => WasStopping'
      BY <1>0, <1>0a, <1>0b, <2>4, <2>5, <2>7 DEF WasStopping, jobVars
    <3> QED
      BY <1>0, <1>0b, <3>1 DEF EndsLast
  <2>16. WorkIsSeen'
    <3>1. Awake(t)'
      BY <2>3, <2>4 DEF Awake
    <3> QED
      BY <1>0a, <3>1 DEF WorkIsSeen
  <2> QED
    BY <2>10, <2>11, <2>12, <2>13, <2>14, <2>15, <2>16
<1>2. CASE Taken(t) = 0
  <2>1. mFiberQueue' = mFiberQueue /\ ft' = ft /\ mActiveThreadCount' = mActiveThreadCount
    BY <1>2 DEF Scan
  <2>10. Types'
    BY <1>0, <1>0a, <1>0b, <1>0c, <1>0d, <2>1 DEF Types, fiberVars, jobVars, eventVars
  <2>11. Holding'
    BY <1>0, <1>0a, <2>1 DEF Holding, WithJob
  <2>12. TypeOK'
    <3>1. ~Works(t)' /\ ~Works(t) /\ ~Idles(t) /\ ~Idles(t)'
      BY <1>0, <2>1 DEF Works, Idles, Idle
    <3> QED
      BY <1>0, <1>0b, <2>1, <2>10, <3>1, CountZero, CountStep
  <2>13. ExecIsHeld'
    BY <1>0, <1>0b, <2>1 DEF ExecIsHeld, fiberVars
  <2>14. ReadyYielded'
    BY <1>0, <1>0b, <2>1 DEF ReadyYielded, fiberVars, jobVars
  <2>15. EndsLast'
    BY <1>0, <1>0a, <1>0b, <2>1, EndsStay DEF jobVars
  <2>16. WorkIsSeen'
    <3> SUFFICES ASSUME setup.waits = "timer", mFiberQueue # <<>>
                 PROVE  tickles'[t] > 0 \/ \E u \in InPool : Awake(u)'
      BY <1>0a, <2>1 DEF WorkIsSeen
    <3>1. mFiberQueue \in Seq(Entry)
      BY DEF Types
    <3>2. 1 \in 1 .. Len(mFiberQueue)
      BY <3>1, EmptySeq, LenProperties
    <3>3. mFiberQueue[1] \in Entry
      BY <3>1, <3>2, ElementOfSeq
    <3>4. CASE ForOther(t, mFiberQueue[1])
      <4>1. LeavesWork(t)
        BY <1>2, <3>1, <3>2, <3>4 DEF LeavesWork
      <4> QED
        BY <1>0c, <4>1
    <3>5. CASE Busy(mFiberQueue[1])
      <4>1. PICK u \in Threads : ft[u] = mFiberQueue[1].job
        BY <3>3, <3>5 DEF Busy, ExecIsHeld, Entry
      <4>2. ft[u] # NoJob
        BY <3>3, <4>1, Names DEF Entry
      <4>3. u \in InPool
        BY <4>2 DEF Holding, WithJob
      <4> QED
        BY <2>1, <4>2, <4>3 DEF Awake
    <3> QED
      BY <1>0, <1>2, <3>2, <3>4, <3>5, TakenFacts
  <2> QED
    BY <2>10, <2>11, <2>12, <2>13, <2>14, <2>15, <2>16
<1> QED
  BY <1>1, <1>2

-----------------------------------------------------------------------------
(* The theorems.                                                           *)

LEMMA InitInv ==
    ASSUME Init
    PROVE  SInv
<1>1. Types
  <2>1. setup \in Setups /\ mStopping = FALSE /\ mFiberQueue = <<>>
    BY DEF Init
  <2>2. mFiberQueue \in Seq(Entry)
    BY <2>1, EmptySeq
  <2>3. at \in [Threads -> Places] /\ mState \in [Jobs -> States]
    BY DEF Init, Places, States
  <2>4. /\ ft \in [Threads -> Jobs \cup {NoJob}] /\ idleFiber \in [Threads -> BOOLEAN]
        /\ cbFiber \in [Threads -> {"none", "running", "kept"}]
    BY DEF Init
  <2>5. tickles \in [Threads \cup {Application} -> Nat]
    BY DEF Init
  <2> QED
    BY <2>1, <2>2, <2>3, <2>4, <2>5 DEF Init, Types
<1>2. Holding /\ ExecIsHeld /\ WorkIsSeen
  BY DEF Init, Holding, ExecIsHeld, WorkIsSeen, WithJob, InPool
<1>3. ReadyYielded /\ EndsLast
  BY DEF Init, ReadyYielded, EndsLast
<1>4. TypeOK
  <2>1. {t \in Threads : ft[t] # NoJob /\ at[t] \notin {"settle", "requeue", "hold"}} = {}
    BY DEF Init
  <2>2. {t \in Threads : at[t] \in {"idle", "wait", "leave"}} = {}
    BY DEF Init
  <2>3. mFiberQueue = <<>> /\ mActiveThreadCount = 0 /\ mIdleThreadCount = 0
    BY DEF Init
  <2> QED
    <3>1. Cardinality({}) = 0
      BY FS_EmptySet
    <3>2. DOMAIN mFiberQueue = {}
      BY <2>3
    <3> QED
      BY <2>1, <2>2, <2>3, <3>1, <3>2 DEF TypeOK
<1> QED
  BY <1>1, <1>2, <1>3, <1>4 DEF SInv

(* What may be scheduled are entries of the queue.                         *)
LEMMA EntriesOfSetup ==
    ASSUME Types
    PROVE  setup.entries \subseteq Entry
<1> SUFFICES ASSUME NEW e \in setup.entries
             PROVE  e \in Entry
  OBVIOUS
<1>1. /\ e \in [job : Jobs, tid : Threads \cup {AnyThread}]
      /\ e.tid \in setup.workers \cup {setup.root, AnyThread}
  BY SetupsAreRight DEF Types
<1>2. e.tid # NoThread \/ e.tid = AnyThread
  BY <1>1, Names
<1>3. e.tid \in InPool \cup {AnyThread}
  BY <1>1, <1>2 DEF InPool, mRootThread
<1> QED
  BY <1>1, <1>3 DEF Entry

LEMMA StepInv ==
    ASSUME SInv, [Next]_vars
    PROVE  SInv'
<1>0. setup.entries \subseteq Entry
  BY EntriesOfSetup DEF SInv
<1>1. CASE UNCHANGED vars
  <2> USE <1>1 DEF vars, fiberVars, jobVars, countVars, threadVars, eventVars, faultVars
  <2>1. Entry' = Entry /\ InPool' = InPool
    BY PoolStays
  <2>2. Types' /\ Holding' /\ TypeOK' /\ ExecIsHeld'
    BY <2>1 DEF SInv, Types, Holding, TypeOK, ExecIsHeld
  <2>3. ReadyYielded' /\ EndsLast' /\ WorkIsSeen'
    BY <2>1 DEF SInv, ReadyYielded, EndsLast, WasStopping, WorkIsSeen, Awake
  <2> QED
    BY <2>2, <2>3 DEF SInv
<1>2. CASE Stop
  BY <1>2, StopInv
<1>3. CASE \E e \in setup.entries : Schedule(e) \/ \E t \in InPool : ScheduleIdle(t, e)
  BY <1>0, <1>3, ScheduleInv, ScheduleIdleInv
<1>4. CASE Tickle(Application)
  BY <1>4, TickleInv
<1>5. ASSUME NEW t \in InPool, StartThread(t) \/ EnterRoot(t) \/ Tickle(t)
      PROVE  SInv'
  BY <1>5, StartThreadInv, EnterRootInv, TickleInv
<1>6. ASSUME NEW t \in InPool, Step(t)
      PROVE  SInv'
  <2>1. CASE Scan(t) \/ Resume(t) \/ SwapIn(t) \/ NoTask(t) \/ LoopEnds(t)
    BY <2>1, ScanInv, ResumeInv, SwapInInv, NoTaskInv, LoopEndsInv
  <2>2. CASE FiberEnds(t) \/ Yeild2Ready(t) \/ Yeild2Hold(t) \/ Inactive(t)
    BY <2>2, FiberEndsInv, Yeild2ReadyInv, Yeild2HoldInv, InactiveInv
  <2>3. CASE Settle(t) \/ Requeue(t) \/ SetHold(t)
    BY <2>3, SettleInv, RequeueInv, SetHoldInv
  <2>4. CASE SwapInFails(t) \/ YieldFails(t) \/ ResetFails(t)
    BY <2>4, FailsInv DEF SwapInFails, YieldFails, ResetFails
  <2>5. CASE \/ \E e \in setup.entries : ScheduleFrom(t, e)
             \/ \E tid \in InPool \cup {AnyThread} : SwitchTo(t, tid)
    BY <1>0, <2>5, ScheduleFromInv, SwitchToInv
  <2>6. CASE IdleCheck(t) \/ WaitEnds(t) \/ IdleYields(t)
    BY <2>6, IdleCheckInv, WaitEndsInv, IdleYieldsInv
  <2> QED
    BY <1>6, <2>1, <2>2, <2>3, <2>4, <2>5, <2>6 DEF Step
<1> QED
  BY <1>1, <1>2, <1>3, <1>4, <1>5, <1>6 DEF Next

(* The invariant of the threads (kschedule.cpp:142-239) holds in every     *)
(* state.                                                                  *)
THEOREM Invariance == Spec => []SInv
BY InitInv, StepInv, PTL DEF Spec

(* mActiveThreadCount and mIdleThreadCount count what stopping() and       *)
(* tickle() take them to count.                                            *)
THEOREM Counted == Spec => []TypeOK
<1>1. SInv => TypeOK
  BY DEF SInv
<1> QED
  BY <1>1, Invariance, PTL

(* A thread that has left threadloop has left no job that is bound to it,  *)
(* but for those stopping() could not count: jobs scheduled after stop(),  *)
(* jobs that have called Yeild2Ready, and what such jobs schedule.         *)
THEOREM LeavesNothing == Spec => []LeftOwesNothing
<1>1. SInv => LeftOwesNothing
  <2> SUFFICES ASSUME SInv, NEW i \in DOMAIN mFiberQueue, Stuck(i)
               PROVE  mFiberQueue[i].job \in uncounted
    BY DEF LeftOwesNothing
  <2>1. mFiberQueue[i].tid \in Threads
    BY PoolFacts DEF SInv, TypeOK, Entry, Stuck
  <2>2. WasStopping
    BY <2>1 DEF SInv, EndsLast, Stuck
  <2> QED
    BY <2>2 DEF WasStopping, SInv, Types
<1> QED
  BY <1>1, Invariance, PTL

(* The threads of a pool never all sleep in epoll_wait, with no wake-up on *)
(* its way, while a job waits, but for the case that tickle() misses.      *)
THEOREM NeverAllAsleep == Spec => []NoSleepOnWork
<1>1. SInv => NoSleepOnWork
  <2> SUFFICES ASSUME SInv, setup.workers # {}, ~missed, ~eventfd,
                      \A t \in InPool : at[t] = "wait" /\ tickles[t] = 0,
                      tickles[Application] = 0
               PROVE  mFiberQueue = <<>>
    BY DEF NoSleepOnWork
  <2>1. PICK t \in Threads : t \in InPool
    BY PoolFacts DEF SInv, InPool
  <2>2. setup.waits = "timer"
    BY <2>1 DEF SInv, Holding
  <2>3. \A u \in InPool : ~Awake(u)
    BY PoolFacts DEF SInv, Holding, Awake, Idle, WithJob
  <2> QED
    BY <2>2, <2>3 DEF SInv, WorkIsSeen
<1> QED
  BY <1>1, Invariance, PTL

-----------------------------------------------------------------------------
(* No job is lost, run twice, or run by two threads, until a thread        *)
(* overtakes another: KScheduler implements KExecutor.                     *)

(* What waits after an entry has been added.                               *)
LEMMA PushJobs ==
    ASSUME Types, WaitsOnce, NEW x \in Threads \cup {Application}, NEW e \in Entry,
           Push(x, e), ~IsWaiting(e.job)
    PROVE  WaitsOnce' /\ \A j : IsWaiting(j)' <=> IsWaiting(j) \/ j = e.job
<1> DEFINE n == Len(mFiberQueue)
<1>1. n \in Nat
  BY LenProperties DEF Types
<1>2. /\ Len(mFiberQueue') = n + 1
      /\ \A i \in 1 .. n : mFiberQueue'[i] = mFiberQueue[i]
      /\ mFiberQueue'[n + 1] = e
  BY Pushed
<1>3. \A i \in 1 .. n : mFiberQueue[i].job # e.job
  BY DEF IsWaiting
<1>4. 1 .. n + 1 = (1 .. n) \cup {n + 1}
  BY <1>1
<1>5. WaitsOnce'
  BY <1>2, <1>3, <1>4 DEF WaitsOnce
<1>6. \A j : IsWaiting(j)' <=> IsWaiting(j) \/ j = e.job
  BY <1>2, <1>4 DEF IsWaiting
<1> QED
  BY <1>5, <1>6

(* What waits after an entry has been taken out.                           *)
LEMMA TakeJobs ==
    ASSUME Types, WaitsOnce, NEW i \in 1 .. Len(mFiberQueue),
           mFiberQueue' = RemoveAt(mFiberQueue, i)
    PROVE  /\ WaitsOnce'
           /\ \A j : IsWaiting(j)' <=> IsWaiting(j) /\ j # mFiberQueue[i].job
<1> DEFINE n == Len(mFiberQueue)
           From(k) == IF k < i THEN k ELSE k + 1
<1>1. n \in Nat /\ i \in Nat /\ i >= 1 /\ i <= n
  BY LenProperties DEF Types
<1>2. Len(mFiberQueue') = n - 1
  BY RemoveAtElements DEF Types
<1>3. \A k \in 1 .. n - 1 : mFiberQueue'[k] = mFiberQueue[From(k)]
  BY RemoveAtElements DEF Types
<1>4. \A k \in 1 .. n - 1 : From(k) \in 1 .. n /\ From(k) # i
  BY <1>1
<1>5. \A k, m \in 1 .. n - 1 : From(k) = From(m) => k = m
  BY <1>1
<1>6. \A m \in 1 .. n : m # i => \E k \in 1 .. n - 1 : From(k) = m
  <2> TAKE m \in 1 .. n
  <2>1. CASE m < i
    BY <2>1, <1>1
  <2>2. CASE m > i
    <3>1. m - 1 \in 1 .. n - 1 /\ From(m - 1) = m
      BY <2>2, <1>1
    <3> QED
      BY <3>1
  <2> QED
    BY <2>1, <2>2, <1>1
<1> HIDE DEF From
<1>7. WaitsOnce'
  <2> SUFFICES ASSUME NEW a \in 1 .. n - 1, NEW b \in 1 .. n - 1,
                      mFiberQueue'[a].job = mFiberQueue'[b].job
               PROVE  a = b
    BY <1>2 DEF WaitsOnce
  <2>1. From(a) \in 1 .. n /\ From(b) \in 1 .. n
    BY <1>4
  <2>2. mFiberQueue[From(a)].job = mFiberQueue[From(b)].job
    BY <1>3
  <2>3. From(a) = From(b)
    BY <2>1, <2>2 DEF WaitsOnce
  <2> QED
    BY <2>3, <1>5
<1>8. ASSUME NEW j PROVE IsWaiting(j)' <=> IsWaiting(j) /\ j # mFiberQueue[i].job
  <2>1. ASSUME IsWaiting(j)' PROVE IsWaiting(j) /\ j # mFiberQueue[i].job
    <3>1. PICK a \in 1 .. n - 1 : mFiberQueue'[a].job = j
      BY <2>1, <1>2 DEF IsWaiting
    <3>2. From(a) \in 1 .. n /\ From(a) # i /\ mFiberQueue[From(a)].job = j
      BY <1>3, <1>4, <3>1
    <3>3. i \in 1 .. n
      OBVIOUS
    <3> QED
      BY <3>2, <3>3 DEF IsWaiting, WaitsOnce
  <2>2. ASSUME IsWaiting(j), j # mFiberQueue[i].job PROVE IsWaiting(j)'
    <3>1. PICK m \in 1 .. n : mFiberQueue[m].job = j
      BY <2>2 DEF IsWaiting
    <3>2. m # i
      BY <2>2, <3>1
    <3> QED
      BY <3>1, <3>2, <1>2, <1>3, <1>6 DEF IsWaiting
  <2> QED
    BY <2>1, <2>2
<1> QED
  BY <1>7, <1>8

(* What the abstract executor sees.                                        *)
Done == {j \in Jobs : Ended(j)}
Sees == Exec!ExecNext \/ UNCHANGED execVars

(* A step that changes only where threads are.                             *)
LEMMA QuietJobs ==
    ASSUME SInv, JInv, UNCHANGED <<mFiberQueue, mState, ft, given, fault>>,
           \A u \in Threads : ft[u] # NoJob =>
             \/ at'[u] = at[u]
             \/ at[u] = "check" /\ at'[u] = "resume"
             \/ at[u] = "after" /\ at'[u] = "settle"
             \/ at[u] = "settle" /\ at'[u] = "requeue" /\ mState[ft[u]] = "READY"
             \/ at[u] = "settle" /\ at'[u] = "hold" /\ mState[ft[u]] = "HOLD"
    PROVE  JInv' /\ Sees
<1>1. \A j \in Jobs : (IsWaiting(j)' <=> IsWaiting(j)) /\ (IsRunning(j)' <=> IsRunning(j))
  BY DEF IsWaiting, IsRunning
<1>2. ASSUME NEW u \in Threads, ft[u] # NoJob PROVE StateOf(u)'
  <2>1. StateOf(u) /\ ft[u] \in Jobs
    BY <1>2 DEF JInv, SInv, Types
  <2> QED
    BY <1>1, <1>2, <2>1 DEF StateOf
<1>3. OneHolder' /\ WaitsOnce' /\ JobStates'
  BY <1>1 DEF JInv, OneHolder, WaitsOnce, JobStates
<1>4. UNCHANGED execVars
  BY DEF execVars, Ended
<1> QED
  BY <1>2, <1>3, <1>4 DEF JInv, Sees

(* A job that was not scheduled before is scheduled.                       *)
LEMMA NewJob ==
    ASSUME SInv, JInv, NEW x \in Threads \cup {Application}, NEW e \in Entry,
           Push(x, e), e.job \notin given, given' = given \cup {e.job},
           UNCHANGED <<mState, ft, at, fault>>
    PROVE  JInv' /\ Sees
<1>1. e.job \in Jobs
  BY DEF Entry
<1>2. ~IsWaiting(e.job) /\ mState[e.job] \in {"NONE", "READY"}
  BY <1>1 DEF JInv, JobStates
<1>3. WaitsOnce' /\ \A j : IsWaiting(j)' <=> IsWaiting(j) \/ j = e.job
  BY <1>2, PushJobs DEF SInv, JInv
<1>4. \A u \in Threads : ft[u] # NoJob => StateOf(u)'
  BY <1>3 DEF JInv, StateOf
<1>5. JobStates'
  BY <1>2, <1>3 DEF JInv, JobStates, IsRunning
<1>6. OneHolder'
  BY DEF JInv, OneHolder
<1>7. Exec!Submit(e)
  BY <1>2 DEF Exec!Submit, Exec!IsWaiting, IsWaiting, Push, Ended
<1>8. e \in Exec!Entry
  BY PoolFacts DEF SInv, Entry, Exec!Entry
<1> QED
  BY <1>3, <1>4, <1>5, <1>6, <1>7, <1>8 DEF JInv, Sees, Exec!ExecNext

(* A fiber calls switchTo.                                                 *)
LEMMA SwitchToJobs ==
    ASSUME SInv, JInv, NEW t \in InPool, NEW tid \in InPool \cup {AnyThread}, SwitchTo(t, tid)
    PROVE  JInv' /\ Sees
<1> DEFINE e == [job |-> ft[t], tid |-> tid]
<1>1. /\ t \in Threads /\ InPool \subseteq Threads
      /\ at[t] = "body" /\ at'[t] = "switch"
      /\ \A u \in Threads : u # t => at'[u] = at[u]
      /\ UNCHANGED <<ft, mState, given, fault>>
      /\ Push(t, e)
  BY PoolFacts DEF SwitchTo, Go, SInv, Types, fiberVars, faultVars
<1>2. ft[t] # NoJob /\ ft[t] \in Jobs /\ e \in Entry
  BY <1>1 DEF SInv, Types, Holding, WithJob, Entry
<1>3. ft[t] \in given /\ mState[ft[t]] = "EXEC" /\ ~IsWaiting(ft[t])
  BY <1>1, <1>2 DEF JInv, StateOf
<1>4. WaitsOnce' /\ \A j : IsWaiting(j)' <=> IsWaiting(j) \/ j = ft[t]
  BY <1>1, <1>2, <1>3, PushJobs DEF SInv, JInv
<1>5. ASSUME NEW u \in Threads, ft[u] # NoJob PROVE StateOf(u)'
  <2>1. CASE u = t
    BY <1>1, <1>3, <1>4, <2>1 DEF StateOf
  <2>2. CASE u # t
    BY <1>1, <1>2, <1>4, <1>5, <2>2 DEF JInv, StateOf, OneHolder
  <2> QED
    BY <2>1, <2>2
<1>6. JobStates'
  BY <1>1, <1>3, <1>4 DEF JInv, JobStates, IsRunning
<1>7. OneHolder'
  BY <1>1 DEF JInv, OneHolder
<1>8. Exec!Submit(e)
  BY <1>1, <1>3 DEF Exec!Submit, Exec!IsWaiting, IsWaiting, Push, Ended
<1>9. e \in Exec!Entry
  BY <1>1, <1>2 DEF Exec!Entry
<1> QED
  BY <1>1, <1>4, <1>5, <1>6, <1>7, <1>8, <1>9 DEF JInv, Sees, Exec!ExecNext

(* The state of the fiber that thread t runs changes, and t goes on.       *)
LEMMA RunningJob ==
    ASSUME SInv, JInv, NEW t \in Threads, NEW s \in States,
           ft[t] # NoJob, UNCHANGED <<mFiberQueue, ft, given, fault>>,
           mState' = [mState EXCEPT ![ft[t]] = s],
           \A u \in Threads : u # t => at'[u] = at[u],
           at'[t] \in WithJob, StateOf(t)'
    PROVE  JInv' /\ Sees
<1>1. /\ ft[t] \in Jobs /\ mState'[ft[t]] = s
      /\ \A j \in Jobs : j # ft[t] => mState'[j] = mState[j]
  BY DEF SInv, Types
<1>2. \A j \in Jobs : (IsWaiting(j)' <=> IsWaiting(j)) /\ (IsRunning(j)' <=> IsRunning(j))
  BY DEF IsWaiting, IsRunning
<1>3. ASSUME NEW u \in Threads, ft[u] # NoJob PROVE StateOf(u)'
  <2>1. CASE u # t
    <3>1. ft[u] # ft[t] /\ ft[u] \in Jobs /\ StateOf(u)
      BY <1>3, <2>1 DEF JInv, OneHolder, SInv, Types
    <3>2. ft'[u] = ft[u] /\ mState'[ft[u]] = mState[ft[u]] /\ at'[u] = at[u]
      BY <1>1, <2>1, <3>1
    <3>3. IsWaiting(ft[u])' <=> IsWaiting(ft[u])
      BY <1>2, <3>1 DEF IsWaiting
    <3> QED
      BY <3>1, <3>2, <3>3 DEF StateOf
  <2> QED
    BY <2>1
<1>4. WaitsOnce' /\ OneHolder'
  BY DEF JInv, WaitsOnce, OneHolder
<1>5. JobStates'
  <2> SUFFICES ASSUME NEW j \in Jobs
               PROVE  /\ IsWaiting(j)' => j \in given' /\ mState'[j] \notin {"TERM", "EXCEPT"}
                      /\ ~IsRunning(j)' => mState'[j] # "EXEC"
                      /\ j \notin given' => mState'[j] \in {"NONE", "READY"}
    BY DEF JobStates
  <2>1. CASE j # ft[t]
    BY <1>1, <1>2, <2>1 DEF JInv, JobStates
  <2>2. CASE j = ft[t]
    <3>1. IsRunning(j)' /\ j \in given'
      BY <2>2 DEF IsRunning, StateOf
    <3>2. IsWaiting(j)' => mState'[j] \notin {"TERM", "EXCEPT"}
      BY <2>2 DEF StateOf, WithJob
    <3> QED
      BY <3>1, <3>2
  <2> QED
    BY <2>1, <2>2
<1>6. Done' = Done
  BY <1>1 DEF Done, Ended
<1>7. UNCHANGED execVars
  BY <1>6 DEF execVars, Done
<1> QED
  BY <1>3, <1>4, <1>5, <1>7 DEF JInv, Sees

(* The search of thread t: it takes the job KExecutor starts.              *)
LEMMA ScanJobs ==
    ASSUME SInv, JInv, NEW t \in InPool, Scan(t), ~overtaken'
    PROVE  JInv' /\ Sees
<1>1. /\ t \in Threads /\ at[t] = "scan" /\ at'[t] = "check" /\ ft[t] = NoJob
      /\ \A u \in Threads : u # t => at'[u] = at[u]
      /\ UNCHANGED <<mState, given, fault>>
  BY PoolFacts DEF Scan, Go, SInv, Types, Holding, WithJob, fiberVars, jobVars
<1>2. CASE Taken(t) = 0
  <2>1. UNCHANGED <<mFiberQueue, ft>>
    BY <1>2 DEF Scan
  <2> QED
    BY <1>1, <2>1, QuietJobs
<1>3. CASE Taken(t) # 0
  <2> DEFINE j == mFiberQueue[Taken(t)].job
  <2>1. Taken(t) \in 1 .. Len(mFiberQueue) /\ ~Busy(mFiberQueue[Taken(t)])
    BY <1>1, <1>3, TakenFacts DEF SInv
  <2>2. mFiberQueue[Taken(t)] \in Entry
    BY <2>1, ElementOfSeq DEF SInv, Types
  <2>3. j \in Jobs /\ j # NoJob
    BY <2>2, Names DEF Entry
  <2>4. mState[j] # "EXEC"
    BY <2>1 DEF Busy
  <2>5. IsWaiting(j)
    BY <2>1 DEF IsWaiting
  <2>5a. ~IsRunning(j)
    <3> SUFFICES ASSUME NEW u \in Threads, ft[u] = j
                 PROVE  FALSE
      BY DEF IsRunning
    <3>1. StateOf(u) /\ at[u] \in WithJob \cup {"check"}
      BY <2>3 DEF JInv, SInv, Holding
    <3>2. ~Leaving(u, j)
      BY <1>3 DEF Scan
    <3> QED
      BY <2>4, <2>5, <3>1, <3>2 DEF StateOf, Leaving, WithJob
  <2>6. j \in given /\ mState[j] \in {"NONE", "READY", "HOLD"}
    BY <2>3, <2>4, <2>5 DEF JInv, JobStates, SInv, Types, States
  <2>7. /\ ft'[t] = j /\ \A u \in Threads : u # t => ft'[u] = ft[u]
        /\ ft' = [ft EXCEPT ![t] = j]
    BY <1>1, <1>3 DEF Scan, SInv, Types
  <2>8. mFiberQueue' = RemoveAt(mFiberQueue, Taken(t))
    BY <1>3 DEF Scan
  <2>9. WaitsOnce' /\ \A k : IsWaiting(k)' <=> IsWaiting(k) /\ k # j
    BY <2>1, <2>8, TakeJobs DEF SInv, JInv
  <2>10. Exec!Start(t)
    <3> DEFINE May == {i \in 1 .. Len(mFiberQueue) :
                         ~ForOther(t, mFiberQueue[i]) /\ ~Busy(mFiberQueue[i])}
               Free == {i \in 1 .. Len(mFiberQueue) :
                          /\ mFiberQueue[i].tid \in {AnyThread, t}
                          /\ ~Exec!IsRunning(mFiberQueue[i].job)}
    <3>1. Free \subseteq May
      <4> SUFFICES ASSUME NEW i \in 1 .. Len(mFiberQueue),
                          mFiberQueue[i].tid \in {AnyThread, t},
                          ~Exec!IsRunning(mFiberQueue[i].job)
                   PROVE  ~ForOther(t, mFiberQueue[i]) /\ ~Busy(mFiberQueue[i])
        OBVIOUS
      <4>1. mFiberQueue[i] \in Entry
        BY ElementOfSeq DEF SInv, Types
      <4>2. mState[mFiberQueue[i].job] = "EXEC" => IsRunning(mFiberQueue[i].job)
        BY <4>1 DEF JInv, JobStates, Entry
      <4> QED
        BY <4>2 DEF ForOther, Busy, IsRunning, Exec!IsRunning
    <3>2. Taken(t) = IF May # {} THEN Min(May) ELSE 0
      BY DEF Taken, SelectInSeq
    <3>2a. Exec!SelectInSeq(mFiberQueue, LAMBDA e : /\ e.tid \in {AnyThread, t}
                                                   /\ ~Exec!IsRunning(e.job))
             = IF Free # {} THEN Exec!Min(Free) ELSE 0
      BY DEF Exec!SelectInSeq
    <3>2b. Min(Free) = Exec!Min(Free)
      BY DEF Min, Exec!Min
    <3>2c. Taken(t) \in Free
      BY <1>1, <1>3, <2>1, <2>5a, TakenFacts DEF SInv, ForOther, IsRunning, Exec!IsRunning
    <3>2d. May \subseteq Nat /\ Free \subseteq Nat
      BY DEF SInv, Types
    <3> HIDE DEF May, Free
    <3>2e. Taken(t) = Min(Free)
      <4>1. Min(Free) \in Free /\ Min(Free) <= Taken(t)
        BY <3>2c, <3>2d, MinOfNats
      <4>2. Taken(t) <= Min(Free)
        BY <3>1, <3>2, <3>2d, <4>1, MinOfNats
      <4>3. Taken(t) \in Nat /\ Min(Free) \in Nat
        BY <3>2c, <3>2d, <4>1
      <4> QED
        BY <4>1, <4>2, <4>3
    <3>3. Taken(t) = Exec!SelectInSeq(mFiberQueue, LAMBDA e : /\ e.tid \in {AnyThread, t}
                                                              /\ ~Exec!IsRunning(e.job))
      BY <3>2a, <3>2b, <3>2c, <3>2e
    <3>4. Done' = Done
      <4>1. \A k \in Jobs : k # j => (IsRunning(k)' <=> IsRunning(k))
        BY <1>1, <2>3, <2>7, Names DEF IsRunning
      <4>2. \A k \in Jobs : Ended(k) <=> mState[k] \in {"TERM", "EXCEPT"} /\ ~IsRunning(k)
        BY DEF Ended, IsRunning
      <4>3. \A k \in Jobs : Ended(k)' <=> mState'[k] \in {"TERM", "EXCEPT"} /\ ~IsRunning(k)'
        BY DEF Ended, IsRunning
      <4> QED
        BY <1>1, <2>6, <4>1, <4>2, <4>3 DEF Done
    <3>5. mFiberQueue' = Exec!RemoveAt(mFiberQueue, Taken(t))
      BY <2>8 DEF RemoveAt, Exec!RemoveAt
    <3>6. Taken(t) > 0
      BY <2>1
    <3> QED
      BY <1>1, <2>7, <3>3, <3>4, <3>5, <3>6 DEF Exec!Start, Done
  <2> HIDE DEF j
  <2>11. OneHolder'
    BY <1>1, <2>5a, <2>7 DEF JInv, OneHolder, IsRunning
  <2>12. ASSUME NEW u \in Threads, ft'[u] # NoJob PROVE StateOf(u)'
    <3>1. CASE u = t
      BY <1>1, <2>6, <2>7, <2>9, <3>1 DEF StateOf
    <3>2. CASE u # t
      <4>1. ft'[u] = ft[u] /\ at'[u] = at[u] /\ StateOf(u)
        BY <1>1, <2>7, <2>12, <3>2 DEF JInv
      <4>2. ft[u] # j
        BY <2>5a DEF IsRunning
      <4>3. IsWaiting(ft[u])' <=> IsWaiting(ft[u])
        BY <2>9, <4>1, <4>2 DEF IsWaiting
      <4> QED
        BY <1>1, <4>1, <4>3 DEF StateOf
    <3> QED
      BY <3>1, <3>2
  <2>13. JobStates'
    <3>1. \A k \in Jobs : IsRunning(k)' <=> IsRunning(k) \/ k = j
      BY <1>1, <2>3, <2>7, Names DEF IsRunning
    <3> QED
      BY <1>1, <2>9, <3>1 DEF JInv, JobStates
  <2> QED
    BY <1>1, <2>9, <2>10, <2>11, <2>12, <2>13 DEF JInv, Sees, Exec!ExecNext
<1> QED
  BY <1>2, <1>3

(* Thread t is done with its job, which has ended, goes back to the queue, *)
(* or waits there for the thread it switched to.                           *)
LEMMA DoneWithJob ==
    ASSUME SInv, JInv, NEW t \in Threads, NEW j \in Jobs, j = ft[t], j # NoJob,
           ft' = [ft EXCEPT ![t] = NoJob], UNCHANGED <<mState, given, fault>>,
           \A u \in Threads : u # t => at'[u] = at[u],
           \/ /\ at[t] = "settle" /\ mState[j] \in {"TERM", "EXCEPT"}
              /\ mFiberQueue' = mFiberQueue
           \/ at[t] = "requeue" /\ Push(t, [job |-> j, tid |-> AnyThread])
           \/ at[t] = "hold" /\ mFiberQueue' = mFiberQueue
    PROVE  JInv' /\ Sees
<1> DEFINE e == [job |-> j, tid |-> AnyThread]
<1>3. /\ j \in given
      /\ at[t] = "settle" => ~IsWaiting(j)
      /\ at[t] = "requeue" => mState[j] = "READY" /\ ~IsWaiting(j)
      /\ at[t] = "hold" => mState[j] = "HOLD" /\ IsWaiting(j)
  BY DEF JInv, StateOf
<1>5. ft'[t] = NoJob /\ \A u \in Threads : u # t => ft'[u] = ft[u] /\ ft[u] # j
  BY DEF SInv, Types, JInv, OneHolder
<1>6. /\ at[t] = "requeue" => Push(t, e)
      /\ at[t] # "requeue" => mFiberQueue' = mFiberQueue
  OBVIOUS
<1>7. e \in Entry
  BY DEF Entry
<1>8. /\ WaitsOnce'
      /\ \A k : IsWaiting(k)' <=> IsWaiting(k) \/ (k = j /\ at[t] = "requeue")
  <2>1. CASE at[t] = "requeue"
    BY <1>3, <1>6, <1>7, <2>1, PushJobs DEF SInv, JInv
  <2>2. CASE at[t] # "requeue"
    BY <1>6, <2>2 DEF JInv, WaitsOnce, IsWaiting
  <2> QED
    BY <2>1, <2>2
<1>9. Done' = IF at[t] = "settle" THEN Done \cup {j} ELSE Done
  BY <1>3, <1>5, Names DEF Done, Ended
<1>10. Sees
  <2>1. CASE at[t] = "settle"
    <3>1. ~IsWaiting(j) /\ mFiberQueue' = mFiberQueue
      BY <1>3, <1>6, <2>1
    <3>2. Exec!Finish(t)
      BY <1>9, <2>1, <3>1 DEF Exec!Finish, Exec!IsWaiting, IsWaiting, Done
    <3> QED
      BY <3>2 DEF Sees, Exec!ExecNext
  <2>2. CASE at[t] = "requeue"
    <3>1. Exec!Yield(t)
      BY <1>3, <1>6, <1>9, <2>2 DEF Exec!Yield, Exec!IsWaiting, IsWaiting, Done, Push
    <3> QED
      BY <3>1 DEF Sees, Exec!ExecNext
  <2>3. CASE at[t] = "hold"
    <3>1. IsWaiting(j) /\ mFiberQueue' = mFiberQueue
      BY <1>3, <1>6, <2>3
    <3>2. Exec!Leave(t)
      BY <1>9, <2>3, <3>1 DEF Exec!Leave, Exec!IsWaiting, IsWaiting, Done
    <3> QED
      BY <3>2 DEF Sees, Exec!ExecNext
  <2> QED
    BY <2>1, <2>2, <2>3
<1>11. OneHolder'
  BY <1>5 DEF JInv, OneHolder
<1>12. ASSUME NEW u \in Threads, ft'[u] # NoJob PROVE StateOf(u)'
  <2>1. u # t /\ ft'[u] = ft[u] /\ at'[u] = at[u] /\ ft[u] # j /\ StateOf(u)
    BY <1>5, <1>12 DEF JInv
  <2>2. IsWaiting(ft[u])' <=> IsWaiting(ft[u])
    BY <1>8, <2>1 DEF IsWaiting
  <2> QED
    BY <2>1, <2>2 DEF StateOf
<1>13. JobStates'
  <2>1. \A k \in Jobs : k # j => (IsRunning(k)' <=> IsRunning(k))
    BY <1>5, Names DEF IsRunning
  <2> QED
    BY <1>3, <1>8, <2>1 DEF JInv, JobStates
<1> QED
  BY <1>8, <1>10, <1>11, <1>12, <1>13 DEF JInv

(* resume() has returned: the states are read, and t goes on accordingly.  *)
LEMMA SettleJobs ==
    ASSUME SInv, JInv, NEW t \in InPool, Settle(t)
    PROVE  JInv' /\ Sees
<1>1. /\ t \in Threads /\ at[t] = "settle" /\ at'[t] = NextReads(mState[ft[t]])
      /\ \A u \in Threads : u # t => at'[u] = at[u]
      /\ UNCHANGED <<mFiberQueue, mState, given, fault>>
  BY PoolFacts DEF Settle, Go, SInv, Types, jobVars, faultVars
<1>2. ft[t] # NoJob /\ ft[t] \in Jobs
  BY <1>1 DEF SInv, Types, Holding, WithJob
<1>3. mState[ft[t]] \in {"TERM", "EXCEPT", "READY", "HOLD"}
  BY <1>1, <1>2 DEF JInv, StateOf
<1>4. CASE at'[t] = "scan"
  <2>1. mState[ft[t]] \in {"TERM", "EXCEPT"}
    BY <1>1, <1>3, <1>4 DEF NextReads
  <2>2. ft' = [ft EXCEPT ![t] = NoJob]
    BY <1>4 DEF Settle
  <2> QED
    BY <1>1, <1>2, <2>1, <2>2, DoneWithJob
<1>5. CASE at'[t] # "scan"
  <2>1. ft' = ft
    BY <1>5 DEF Settle
  <2>2. \/ at'[t] = "requeue" /\ mState[ft[t]] = "READY"
        \/ at'[t] = "hold" /\ mState[ft[t]] = "HOLD"
    BY <1>1, <1>3, <1>5 DEF NextReads
  <2> QED
    BY <1>1, <2>1, <2>2, QuietJobs
<1> QED
  BY <1>4, <1>5

(* A job that has not ended is put aside.                                  *)
LEMMA PutAsideJobs ==
    ASSUME SInv, JInv, NEW t \in InPool, Requeue(t) \/ SetHold(t)
    PROVE  JInv' /\ Sees
<1>1. CASE Requeue(t)
  <2>1. PutAside(t, "requeue")
    BY <1>1 DEF Requeue
  <2>2. /\ t \in Threads /\ at[t] = "requeue" /\ ft[t] \in Jobs /\ ft[t] # NoJob
        /\ ft' = [ft EXCEPT ![t] = NoJob]
        /\ \A u \in Threads : u # t => at'[u] = at[u]
        /\ UNCHANGED <<given, fault>>
    BY <2>1, PutAsideFacts DEF jobVars, faultVars
  <2> QED
    BY <1>1, <2>2, DoneWithJob DEF Requeue
<1>2. CASE SetHold(t)
  <2>1. PutAside(t, "hold")
    BY <1>2 DEF SetHold
  <2>2. /\ t \in Threads /\ at[t] = "hold" /\ ft[t] \in Jobs /\ ft[t] # NoJob
        /\ ft' = [ft EXCEPT ![t] = NoJob]
        /\ \A u \in Threads : u # t => at'[u] = at[u]
        /\ UNCHANGED <<given, fault>>
    BY <2>1, PutAsideFacts DEF jobVars, faultVars
  <2>3. mState[ft[t]] = "HOLD"
    BY <2>2 DEF JInv, StateOf
  <2>4. mState' = mState /\ mFiberQueue' = mFiberQueue
    BY <1>2, <2>2, <2>3 DEF SetHold, SInv, Types
  <2> QED
    BY <2>2, <2>4, DoneWithJob
<1> QED
  BY <1>1, <1>2

(* The steps of threadloop and the fibers that change a fiber's state.     *)
LEMMA FiberSteps ==
    ASSUME SInv, JInv, NEW t \in InPool,
           SwapIn(t) \/ FiberEnds(t) \/ Yeild2Ready(t) \/ Yeild2Hold(t)
    PROVE  JInv' /\ Sees
<1>1. t \in Threads /\ (ft[t] # NoJob => ft[t] \in Jobs /\ StateOf(t))
  BY PoolFacts DEF SInv, Types, JInv
<1>2. CASE SwapIn(t)
  <2>1. ft[t] # NoJob /\ at[t] = "resume"
    BY <1>1, <1>2 DEF SwapIn, Go, SInv, Holding, WithJob
  <2>2. /\ at'[t] = "body" /\ \A u \in Threads : u # t => at'[u] = at[u]
        /\ mState' = [mState EXCEPT ![ft[t]] = "EXEC"]
        /\ UNCHANGED <<mFiberQueue, ft, given, fault>>
    BY <1>1, <1>2 DEF SwapIn, Go, SInv, Types, jobVars, faultVars
  <2>3. StateOf(t)'
    BY <1>1, <2>1, <2>2 DEF StateOf, IsWaiting, SInv, Types
  <2> QED
    BY <1>1, <2>1, <2>2, <2>3, RunningJob DEF WithJob, States
<1>3. CASE FiberEnds(t)
  <2>1. ft[t] # NoJob /\ at[t] = "body"
    BY <1>1, <1>3 DEF FiberEnds, Go, SInv, Holding, WithJob
  <2>2. PICK s \in {"TERM", "EXCEPT"} : mState' = [mState EXCEPT ![ft[t]] = s]
    BY <1>3 DEF FiberEnds
  <2>3. /\ at'[t] = "after" /\ \A u \in Threads : u # t => at'[u] = at[u]
        /\ UNCHANGED <<mFiberQueue, ft, given, fault>>
    BY <1>1, <1>3 DEF FiberEnds, Go, SInv, Types, jobVars, faultVars
  <2>4. StateOf(t)'
    BY <1>1, <2>1, <2>2, <2>3 DEF StateOf, IsWaiting, SInv, Types
  <2> QED
    BY <1>1, <2>1, <2>2, <2>3, <2>4, RunningJob DEF WithJob, States
<1>4. CASE Yeild2Ready(t)
  <2>1. ft[t] # NoJob /\ at[t] = "body"
    BY <1>1, <1>4 DEF Yeild2Ready, Go, SInv, Holding, WithJob
  <2>2. /\ at'[t] = "after" /\ \A u \in Threads : u # t => at'[u] = at[u]
        /\ mState' = [mState EXCEPT ![ft[t]] = "READY"]
        /\ UNCHANGED <<mFiberQueue, ft, given, fault>>
    BY <1>1, <1>4 DEF Yeild2Ready, Go, SInv, Types, jobVars, faultVars
  <2>3. StateOf(t)'
    BY <1>1, <2>1, <2>2 DEF StateOf, IsWaiting, SInv, Types
  <2> QED
    BY <1>1, <2>1, <2>2, <2>3, RunningJob DEF WithJob, States
<1>5. CASE Yeild2Hold(t)
  <2>1. ft[t] # NoJob /\ at[t] = "switch"
    BY <1>1, <1>5 DEF Yeild2Hold, Go, SInv, Holding, WithJob
  <2>2. /\ at'[t] = "after" /\ \A u \in Threads : u # t => at'[u] = at[u]
        /\ mState' = [mState EXCEPT ![ft[t]] = "HOLD"]
        /\ UNCHANGED <<mFiberQueue, ft, given, fault>>
    BY <1>1, <1>5 DEF Yeild2Hold, Go, SInv, Types, jobVars, faultVars
  <2>3. StateOf(t)'
    BY <1>1, <2>1, <2>2 DEF StateOf, IsWaiting, SInv, Types
  <2> QED
    BY <1>1, <2>1, <2>2, <2>3, RunningJob DEF WithJob, States
<1> QED
  BY <1>2, <1>3, <1>4, <1>5

(* What fails while no thread was overtaken is not the state of a fiber.   *)
LEMMA FaultJobs ==
    ASSUME SInv, JInv, NEW what \in {"callback", "root"}, Fails(what)
    PROVE  JInv' /\ Sees
<1>1. UNCHANGED <<mFiberQueue, mState, ft, given, at>> /\ fault' = what
  BY DEF Fails, fiberVars, jobVars, threadVars
<1>2. OneHolder' /\ WaitsOnce' /\ JobStates' /\ \A t \in Threads : ft[t] # NoJob => StateOf(t)'
  BY <1>1 DEF JInv, OneHolder, WaitsOnce, JobStates, StateOf, IsWaiting, IsRunning
<1>3. UNCHANGED execVars
  BY <1>1 DEF execVars, Ended
<1> QED
  BY <1>1, <1>2, <1>3 DEF JInv, Sees

LEMMA NoFault ==
    ASSUME SInv, JInv, NEW t \in InPool
    PROVE  ~SwapInFails(t) /\ ~YieldFails(t) /\ ~ResetFails(t)
<1>1. t \in Threads
  BY PoolFacts DEF SInv
<1>2. at[t] \in WithJob => ft[t] # NoJob /\ StateOf(t) /\ ft[t] \in Jobs
  BY <1>1 DEF SInv, Types, Holding, JInv
<1>3. ~SwapInFails(t)
  BY <1>2 DEF SwapInFails, StateOf, WithJob
<1>4. ~YieldFails(t)
  BY <1>2 DEF YieldFails, StateOf, WithJob
<1>5. ~ResetFails(t)
  <2> SUFFICES ASSUME ResetFails(t) PROVE FALSE
    OBVIOUS
  <2>1. at[t] = "settle" /\ NextReads(mState[ft[t]]) = "scan" /\ Shared(t)
    BY DEF ResetFails
  <2>2. ft[t] # NoJob /\ mState[ft[t]] \in {"TERM", "EXCEPT", "READY", "HOLD"}
    BY <1>2, <2>1 DEF StateOf, WithJob
  <2>3. mState[ft[t]] \in {"TERM", "EXCEPT"}
    BY <2>1, <2>2 DEF NextReads
  <2>4. ~IsWaiting(ft[t])
    BY <1>2, <2>1, <2>3 DEF StateOf, WithJob
  <2>5. \A u \in Threads \ {t} : ft[u] # ft[t]
    BY <1>1, <2>2 DEF JInv, OneHolder
  <2>6. DOMAIN mFiberQueue = 1 .. Len(mFiberQueue)
    BY DEF SInv, Types
  <2> QED
    BY <2>1, <2>4, <2>5, <2>6 DEF Shared, IsWaiting
<1> QED
  BY <1>3, <1>4, <1>5

LEMMA InitJobs ==
    ASSUME Init
    PROVE  JInv /\ Exec!ExecInit
<1>1. /\ mFiberQueue = <<>> /\ Len(mFiberQueue) = 0 /\ \A t \in Threads : ft[t] = NoJob
      /\ fault = "none"
  BY DEF Init
<1>2. \A j \in Jobs : mState[j] \in {"NONE", "READY"} /\ ~IsWaiting(j)
  BY <1>1 DEF Init, IsWaiting
<1>3. JInv
  BY <1>1, <1>2 DEF JInv, OneHolder, WaitsOnce, JobStates
<1>4. Exec!ExecInit
  BY <1>2 DEF Init, Exec!ExecInit, Ended
<1> QED
  BY <1>3, <1>4

LEMMA StepJobs ==
    ASSUME SInv, JInv, [Next]_vars, ~overtaken'
    PROVE  JInv' /\ Sees
<1> USE DEF fiberVars, jobVars, countVars, threadVars, eventVars, faultVars
<1>0. InPool \subseteq Threads /\ setup.entries \subseteq Entry
  BY PoolFacts, EntriesOfSetup DEF SInv
<1>1. CASE UNCHANGED vars
  BY <1>1, QuietJobs DEF vars
<1>2. CASE Stop
  BY <1>2, QuietJobs DEF Stop
<1>3. ASSUME NEW e \in Entry, Schedule(e)
      PROVE  JInv' /\ Sees
  BY <1>3, NewJob DEF Schedule
<1>4. ASSUME NEW e \in Entry, NEW t \in InPool, ScheduleIdle(t, e) \/ ScheduleFrom(t, e)
      PROVE  JInv' /\ Sees
  <2>1. at' = at
    BY <1>4 DEF ScheduleIdle, ScheduleFrom, Go, SInv, Types
  <2> QED
    BY <1>0, <1>4, <2>1, NewJob DEF ScheduleIdle, ScheduleFrom
<1>5. ASSUME NEW t \in InPool \cup {Application}, Tickle(t)
      PROVE  JInv' /\ Sees
  BY <1>5, QuietJobs DEF Tickle
<1>6. ASSUME NEW t \in InPool,
             \/ StartThread(t) \/ EnterRoot(t) \/ NoTask(t) \/ Inactive(t)
             \/ IdleCheck(t) \/ WaitEnds(t) \/ IdleYields(t)
      PROVE  JInv' /\ Sees
  <2>1. UNCHANGED <<mFiberQueue, mState, ft, given, fault>>
    BY <1>6 DEF StartThread, EnterRoot, NoTask, Inactive, IdleCheck, WaitEnds, IdleYields
  <2>2. \A u \in Threads : u # t => at'[u] = at[u]
    BY <1>6 DEF StartThread, EnterRoot, NoTask, Inactive, IdleCheck, WaitEnds, IdleYields,
                Go, SInv, Types
  <2>3. \/ ft[t] = NoJob
        \/ at[t] = "after" /\ at'[t] = "settle"
    BY <1>0, <1>6 DEF StartThread, EnterRoot, NoTask, Inactive, IdleCheck, WaitEnds,
                      IdleYields, Go, SInv, Types, Holding, WithJob
  <2> QED
    BY <1>0, <2>1, <2>2, <2>3, QuietJobs
<1>7. ASSUME NEW t \in InPool, Resume(t)
      PROVE  JInv' /\ Sees
  <2>1. t \in Threads /\ ft[t] # NoJob /\ ft[t] \in Jobs /\ at[t] = "check"
    BY <1>0, <1>7 DEF Resume, Go, SInv, Types
  <2>2. mState[ft[t]] \notin {"EXEC", "EXCEPT"}
    BY <2>1 DEF JInv, StateOf
  <2>3. /\ UNCHANGED <<mFiberQueue, mState, ft, given, fault>> /\ at'[t] = "resume"
        /\ \A u \in Threads : u # t => at'[u] = at[u]
    BY <1>0, <1>7, <2>2 DEF Resume, Go, SInv, Types
  <2> QED
    BY <2>1, <2>3, QuietJobs
<1>8. ASSUME NEW t \in InPool, LoopEnds(t)
      PROVE  JInv' /\ Sees
  <2>1. ft[t] = NoJob /\ t \in Threads
    BY <1>0, <1>8 DEF LoopEnds
  <2>2. CASE Go(t, "check", "ended")
    <3>1. at[t] = "check" /\ at'[t] = "ended" /\ \A u \in Threads : u # t => at'[u] = at[u]
      BY <2>1, <2>2 DEF Go, SInv, Types
    <3>2. ~Fails("callback") /\ ~Fails("root")
      BY <3>1 DEF Fails
    <3>3. UNCHANGED <<mFiberQueue, mState, ft, given, fault>>
      BY <1>8, <3>2 DEF LoopEnds
    <3> QED
      BY <2>1, <3>1, <3>3, QuietJobs
  <2>3. CASE ~Go(t, "check", "ended")
    <3>1. \E what \in {"callback", "root"} : Fails(what)
      BY <1>8, <2>3 DEF LoopEnds
    <3> QED
      BY <3>1, FaultJobs
  <2> QED
    BY <2>2, <2>3
<1>9. ASSUME NEW t \in InPool, Step(t)
      PROVE  JInv' /\ Sees
  <2>1. CASE Scan(t) \/ Settle(t) \/ Requeue(t) \/ SetHold(t)
    BY <2>1, ScanJobs, SettleJobs, PutAsideJobs
  <2>2. CASE SwapIn(t) \/ FiberEnds(t) \/ Yeild2Ready(t) \/ Yeild2Hold(t)
    BY <2>2, FiberSteps
  <2>3. CASE \E e \in setup.entries : ScheduleFrom(t, e)
    BY <2>3, <1>0, <1>4
  <2>4. CASE \E tid \in InPool \cup {AnyThread} : SwitchTo(t, tid)
    BY <2>4, SwitchToJobs
  <2>5. CASE NoTask(t) \/ Inactive(t) \/ IdleCheck(t) \/ WaitEnds(t) \/ IdleYields(t)
    BY <2>5, <1>6
  <2>6. CASE Resume(t) \/ LoopEnds(t)
    BY <2>6, <1>7, <1>8
  <2> QED
    BY <1>9, <2>1, <2>2, <2>3, <2>4, <2>5, <2>6, NoFault DEF Step
<1> QED
  BY <1>0, <1>1, <1>2, <1>3, <1>4, <1>5, <1>6, <1>9 DEF Next

(* Overtaking is remembered.                                               *)
LEMMA OvertakenStays ==
    ASSUME overtaken, [Next]_vars
    PROVE  overtaken'
<1> USE DEF vars, faultVars, Fails
<1>1. CASE UNCHANGED vars \/ Stop \/ Tickle(Application)
  BY <1>1 DEF Stop, Tickle
<1>2. CASE \E e \in setup.entries : Schedule(e) \/ \E t \in InPool : ScheduleIdle(t, e)
  BY <1>2 DEF Schedule, ScheduleIdle
<1>3. ASSUME NEW t \in InPool, StartThread(t) \/ EnterRoot(t) \/ Tickle(t)
      PROVE  overtaken'
  BY <1>3 DEF StartThread, EnterRoot, Tickle
<1>4. ASSUME NEW t \in InPool, Step(t)
      PROVE  overtaken'
  <2>1. CASE Scan(t)
    BY <2>1 DEF Scan
  <2>2. CASE Resume(t) \/ SwapIn(t) \/ SwapInFails(t) \/ NoTask(t) \/ LoopEnds(t)
    BY <2>2 DEF Resume, SwapIn, SwapInFails, NoTask, LoopEnds
  <2>3. CASE FiberEnds(t) \/ Yeild2Ready(t) \/ Yeild2Hold(t) \/ YieldFails(t)
    BY <2>3 DEF FiberEnds, Yeild2Ready, Yeild2Hold, YieldFails
  <2>4. CASE Inactive(t) \/ Settle(t) \/ ResetFails(t) \/ Requeue(t) \/ SetHold(t)
    BY <2>4 DEF Inactive, Settle, ResetFails, Requeue, SetHold, PutAside
  <2>5. CASE \/ \E e \in setup.entries : ScheduleFrom(t, e)
             \/ \E tid \in InPool \cup {AnyThread} : SwitchTo(t, tid)
    BY <2>5 DEF ScheduleFrom, SwitchTo
  <2>6. CASE IdleCheck(t) \/ WaitEnds(t) \/ IdleYields(t)
    BY <2>6 DEF IdleCheck, WaitEnds, IdleYields
  <2> QED
    BY <1>4, <2>1, <2>2, <2>3, <2>4, <2>5, <2>6 DEF Step
<1> QED
  BY <1>1, <1>2, <1>3, <1>4 DEF Next

(* The invariant of the jobs holds until then.                             *)
OInv == SInv /\ (overtaken \/ JInv)

THEOREM UntilOvertaken == Spec => []OInv
<1>1. Init => OInv
  BY InitInv, InitJobs DEF OInv
<1>2. OInv /\ [Next]_vars => OInv'
  BY StepInv, StepJobs, OvertakenStays DEF OInv
<1> QED
  BY <1>1, <1>2, PTL DEF Spec

(* The scheduler implements KExecutor step by step, with the test of       *)
(* kschedule.cpp:153 as it is, until a thread takes a fiber whose thread   *)
(* is not done with it (the race of switchTo, kschedule.cpp:117-132).      *)
THEOREM ImplementsExecutor == Spec => ExecSpec
<1>1. Init => Exec!ExecInit
  BY InitJobs
<1>2. OInv /\ [Next]_vars => [overtaken' \/ Exec!ExecNext]_execVars
  BY StepJobs, OvertakenStays DEF OInv, Sees
<1> QED
  BY <1>1, <1>2, UntilOvertaken, PTL DEF Spec, ExecSpec

(* Until then no assertion about the state of a fiber fails: those of      *)
(* swapIn, of the two yields (kfiber.cpp:174, 183), of reset and at the    *)
(* end of FiberEntry.                                                      *)
NoStateFault == fault = "state" => overtaken

THEOREM OnlySwitchToFails == Spec => []NoStateFault
<1>1. OInv => NoStateFault
  BY DEF OInv, JInv, NoStateFault
<1> QED
  BY <1>1, UntilOvertaken, PTL

(* And the fiber a thread runs is in EXEC when it yields.                  *)
THEOREM YieldsInExec == Spec => [](overtaken \/ RunningIsExec)
<1>1. OInv => overtaken \/ RunningIsExec
  BY DEF OInv, SInv, Holding, WithJob, JInv, StateOf, RunningIsExec
<1> QED
  BY <1>1, UntilOvertaken, PTL
=============================================================================
