-------------------------- MODULE KcpManagerProofs --------------------------
(***************************************************************************)
(* Proofs about KcpManager for every number of threads and sessions, every *)
(* epoll_event_size and every number of calls of addKcp: the counters are  *)
(* exact, a session is bound whole or not at all, and one thread at a time *)
(* is busy with it.                                                        *)
(***************************************************************************)
EXTENDS KcpManager, SequenceFacts

-----------------------------------------------------------------------------
(* The inductive invariant.                                                *)

Routine == {"input", "output"}
Task == [kcp : Kcps, routine : Routine, tid : Threads]
Timer == [kcp : Kcps, n : Nat, tid : Threads, cb : BOOLEAN]

Types ==
    /\ setup \in Setups
    /\ adding \subseteq Kcps /\ mWaitingQueue \subseteq Kcps
    /\ mContextVec \in [Kcps -> [tid : Threads \cup {NoThread}, cb : BOOLEAN]]
    /\ timers \subseteq Timer /\ IsFiniteSet(timers)
    /\ epoll \subseteq Kcps /\ IsFiniteSet(epoll) /\ ready \subseteq epoll
    /\ localEventCount \in [Threads -> Nat]
    /\ at \in [Threads -> {"loop", "bind", "register", "near", "wait"} \cup Routine]
    /\ kcp \in [Threads -> Kcps \cup {NoKcp}]
    /\ tasks \in Seq(Task)
    /\ adds \in [Kcps -> Nat]

Registers(t, s) == at[t] = "register" /\ kcp[t] = s

(* One thread at a time has mQueueMutex in idle(); while it registers a    *)
(* session, that session waits, is filled in for this thread, and there is *)
(* room for it.  No other thread than one that registers or runs a routine *)
(* has a session.                                                          *)
Locking ==
    /\ \A t, u \in Threads :
         at[t] \in {"bind", "register"} /\ at[u] \in {"bind", "register"} => t = u
    /\ \A t \in Threads : at[t] = "register" =>
         /\ kcp[t] \in mWaitingQueue /\ Room
         /\ mContextVec[kcp[t]] = [tid |-> t, cb |-> TRUE]
    /\ \A t \in Threads : kcp[t] = NoKcp <=> at[t] \notin {"register"} \cup Routine

(* A session that no thread has begun to bind has left no trace: no        *)
(* registration, timer, task or routine.                                   *)
Untouched(s) ==
    /\ s \notin epoll
    /\ \A tm \in timers : tm.kcp # s
    /\ \A i \in 1 .. Len(tasks) : tasks[i].kcp # s
    /\ \A t \in Threads : kcp[t] # s

Unbound ==
    \A s \in Kcps :
      /\ adds[s] = 0 => s \notin mWaitingQueue /\ Untouched(s)
      /\ adds[s] = 1 /\ s \in mWaitingQueue =>
           /\ s \notin epoll
           /\ Untouched(s) \/ \E t \in Threads : Registers(t, s)

(* What is done for a session carries the tid of its context; a registered *)
(* session has one.                                                        *)
OneTid ==
    /\ \A s \in epoll : mContextVec[s].tid \in Threads
    /\ \A s \in Kcps : AddedOnce(s) =>
         /\ \A tm \in timers : tm.kcp = s => tm.tid = mContextVec[s].tid
         /\ \A i \in 1 .. Len(tasks) : tasks[i].kcp = s => tasks[i].tid = mContextVec[s].tid
         /\ \A t \in Threads : kcp[t] = s => t = mContextVec[s].tid

(* Each timer is that of a call of addKcp that returned true.              *)
TimersNumbered == \A tm \in timers : 1 <= tm.n /\ tm.n <= adds[tm.kcp]

LiveTimer(s) == \E tm \in timers : tm.kcp = s /\ tm.cb

(* BoundOrNot, and what is to become of it while a thread registers.       *)
Bound ==
    \A s \in Kcps : adds[s] = 1 =>
      /\ (\E t \in Threads : Registers(t, s)) => LiveTimer(s)
      /\ s \notin mWaitingQueue => /\ mContextVec[s].cb <=> s \in epoll
                                   /\ LiveTimer(s) <=> s \in epoll

MInv ==
    /\ Types
    /\ Locking
    /\ Unbound
    /\ OneTid
    /\ TimersNumbered
    /\ Bound
    /\ CountsRegistered

-----------------------------------------------------------------------------
(* Each step preserves it.                                                 *)

(* A step that binds nothing, adds nothing and schedules nothing: what is  *)
(* left to show is that mQueueMutex is held by one thread.                 *)
LEMMA QuietStep ==
    ASSUME MInv,
           UNCHANGED <<setup, mWaitingQueue, bindVars, timers, tasks, adds>>,
           adding' \subseteq Kcps, ready' \subseteq epoll,
           at' \in [Threads -> {"loop", "bind", "register", "near", "wait"} \cup Routine],
           kcp' \in [Threads -> Kcps \cup {NoKcp}],
           \A t \in Threads : kcp'[t] = kcp[t] \/ kcp'[t] = NoKcp,
           \A t \in Threads : at'[t] = "register" <=> at[t] = "register",
           \A t \in Threads : at[t] = "register" => kcp'[t] = kcp[t],
           \A t \in Threads : kcp'[t] = NoKcp <=> at'[t] \notin {"register"} \cup Routine,
           \A t, u \in Threads :
             at'[t] \in {"bind", "register"} /\ at'[u] \in {"bind", "register"} => t = u
    PROVE  MInv'
<1> USE DEF MInv, bindVars
<1>1. Types'
  BY DEF Types
<1>2. Locking'
  BY DEF Locking, Room, epoll_event_size
<1>3. \A t \in Threads : \A s \in Kcps : Registers(t, s)' <=> Registers(t, s)
  BY DEF Registers
<1>4. \A s \in Kcps : Untouched(s) => Untouched(s)'
  BY ManagerBounds DEF Untouched
<1>5. Unbound'
  BY <1>3, <1>4 DEF Unbound
<1>6. OneTid'
  BY ManagerBounds DEF OneTid, AddedOnce
<1>7. TimersNumbered'
  BY DEF TimersNumbered
<1>8. Bound'
  BY <1>3 DEF Bound, LiveTimer
<1>9. CountsRegistered'
  BY DEF CountsRegistered, AddedOnce, epoll_event_size
<1> QED
  BY <1>1, <1>2, <1>5, <1>6, <1>7, <1>8, <1>9

(* The first test of addKcp.                                               *)
LEMMA AddKcpInv ==
    ASSUME MInv, NEW s \in Kcps, AddKcp(s)
    PROVE  MInv'
BY QuietStep DEF MInv, AddKcp, Types, Locking, threadVars

(* delKcp changes nothing but the fate of the program.                     *)
LEMMA DelKcpInv ==
    ASSUME MInv, NEW s \in Kcps, DelKcp(s)
    PROVE  MInv'
BY QuietStep DEF MInv, DelKcp, Types, Locking, threadVars

(* A datagram for a registered session.                                    *)
LEMMA DatagramInv ==
    ASSUME MInv, NEW s \in Kcps, Datagram(s)
    PROVE  MInv'
BY QuietStep DEF MInv, Datagram, Types, Locking, threadVars, addVars

(* A routine returns, and the thread is done with the session.             *)
LEMMA RoutineReturnsInv ==
    ASSUME MInv, NEW t \in Threads, RoutineReturns(t)
    PROVE  MInv'
BY QuietStep DEF MInv, RoutineReturns, InRoutine, Routine, Go, Types, Locking, addVars

(* idle() takes the lock, which nobody has.                                *)
LEMMA EnterInv ==
    ASSUME MInv, NEW t \in Threads, Enter(t)
    PROVE  MInv'
BY QuietStep DEF MInv, Enter, QueueLocked, Routine, Go, Types, Locking, addVars

(* idle() releases the lock.                                               *)
LEMMA BindDoneInv ==
    ASSUME MInv, NEW t \in Threads, BindDone(t)
    PROVE  MInv'
BY QuietStep DEF MInv, BindDone, Routine, Go, Types, Locking, addVars

(* The timeout is read.                                                    *)
LEMMA NearInv ==
    ASSUME MInv, NEW t \in Threads, Near(t)
    PROVE  MInv'
BY QuietStep DEF MInv, Near, Routine, Go, Types, Locking, addVars

(* addKcp puts the session into the queue: if it was never added before,   *)
(* it is as good as new.                                                   *)
LEMMA AddKcpInsertInv ==
    ASSUME MInv, NEW x \in Kcps, AddKcpInsert(x)
    PROVE  MInv'
<1> USE DEF MInv, bindVars, threadVars
<1>1. /\ adds' \in [Kcps -> Nat] /\ adding' \subseteq adding
      /\ UNCHANGED <<setup, mContextVec, timers, epoll, ready, mEventCount,
                     localEventCount, at, kcp, tasks>>
  BY DEF Types, AddKcpInsert
<1>2. /\ mWaitingQueue \subseteq mWaitingQueue' /\ mWaitingQueue' \subseteq Kcps
      /\ \A s \in Kcps : adds[s] <= adds'[s]
      /\ \A s \in Kcps : \/ adds'[s] = adds[s]
                         \/ s = x /\ s \notin mWaitingQueue /\ s \in mWaitingQueue'
                            /\ adds'[s] = adds[s] + 1
      /\ \A s \in mWaitingQueue' : s \in mWaitingQueue \/ adds'[s] = adds[s] + 1
  <2>1. \A s \in Kcps : adds[s] \in Nat
    BY DEF Types
  <2>2. CASE x \in mWaitingQueue
    <3>1. adds' = adds /\ mWaitingQueue' = mWaitingQueue
      BY <2>2 DEF AddKcpInsert
    <3> QED
      BY <3>1, <2>1 DEF Types
  <2>3. CASE x \notin mWaitingQueue
    <3>1. /\ mWaitingQueue' = mWaitingQueue \cup {x}
          /\ adds' = [adds EXCEPT ![x] = @ + 1]
      BY <2>3 DEF AddKcpInsert
    <3> QED
      BY <3>1, <2>1, <2>3 DEF Types
  <2> QED
    BY <2>2, <2>3
<1>3. \A s \in Kcps : Untouched(s)' <=> Untouched(s)
  BY <1>1 DEF Untouched
<1>4. Types'
  BY <1>1, <1>2 DEF Types
<1>5. Locking'
  BY <1>1, <1>2 DEF Locking, Room, epoll_event_size
<1>6. Unbound'
  <2> SUFFICES ASSUME NEW s \in Kcps
               PROVE  /\ adds'[s] = 0 => s \notin mWaitingQueue' /\ Untouched(s)
                      /\ adds'[s] = 1 /\ s \in mWaitingQueue' =>
                           /\ s \notin epoll
                           /\ Untouched(s) \/ \E t \in Threads : Registers(t, s)
    BY <1>1, <1>3 DEF Unbound, Registers
  <2>1. adds[s] \in Nat
    BY DEF Types
  <2>2. CASE adds'[s] = adds[s]
    BY <2>1, <2>2, <1>2 DEF Unbound
  <2>3. CASE adds'[s] = adds[s] + 1
    BY <2>1, <2>3 DEF Unbound, Untouched
  <2> QED
    BY <1>2, <2>2, <2>3
<1>7. OneTid'
  BY <1>1, <1>2, <1>4 DEF OneTid, AddedOnce, Types
<1>8. TimersNumbered'
  BY <1>1, <1>2, <1>4 DEF TimersNumbered, Types, Timer
<1>9. Bound'
  <2> SUFFICES ASSUME NEW s \in Kcps, adds'[s] = 1
               PROVE  /\ (\E t \in Threads : Registers(t, s)) => LiveTimer(s)
                      /\ s \notin mWaitingQueue' => /\ mContextVec[s].cb <=> s \in epoll
                                                    /\ LiveTimer(s) <=> s \in epoll
    BY <1>1 DEF Bound, Registers, LiveTimer
  <2>1. adds[s] \in Nat
    BY DEF Types
  <2>2. CASE adds'[s] = adds[s]
    BY <2>2, <1>2 DEF Bound
  <2>3. CASE s \in mWaitingQueue' /\ adds'[s] = adds[s] + 1
    BY <2>1, <2>3 DEF Unbound, Untouched, Registers
  <2> QED
    BY <1>2, <2>2, <2>3
<1>10. CountsRegistered'
  BY <1>1, <1>2, <1>4 DEF CountsRegistered, AddedOnce, Types, epoll_event_size
<1> QED
  BY <1>4, <1>5, <1>6, <1>7, <1>8, <1>9, <1>10

(* The task that threadloop takes is meant for the thread.                 *)
LEMMA MineIsMine ==
    ASSUME Types, NEW t \in Threads, Mine(t) # 0
    PROVE  Mine(t) \in 1 .. Len(tasks) /\ tasks[Mine(t)].tid = t
<1> DEFINE I == {i \in 1 .. Len(tasks) : tasks[i].tid = t}
<1>1. Mine(t) = IF I # {} THEN Min(I) ELSE 0
  BY DEF Mine, SelectInSeq
<1>2. I \subseteq Nat
  OBVIOUS
<1>3. I # {}
  BY <1>1
<1>4. Min(I) \in I
  BY <1>2, <1>3, MinOfNats
<1> QED
  BY <1>1, <1>3, <1>4

(* The tid of a task is that of the session's context, which nothing       *)
(* changes any more, so that the thread that takes it is the one.          *)
LEMMA RunRoutineInv ==
    ASSUME MInv, NEW t \in Threads, RunRoutine(t)
    PROVE  MInv'
<1> USE DEF MInv
<1> DEFINE m == Mine(t)
           x == tasks[m].kcp
<1>1. m \in 1 .. Len(tasks) /\ tasks[m].tid = t
  BY MineIsMine DEF RunRoutine
<1>2. tasks[m] \in Task /\ tasks \in Seq(Task)
  BY <1>1, ElementOfSeq DEF Types
<1>3. x \in Kcps /\ tasks[m].routine \in Routine
  BY <1>2 DEF Task
<1>4. /\ at[t] = "loop" /\ at' = [at EXCEPT ![t] = tasks[m].routine]
      /\ kcp' = [kcp EXCEPT ![t] = x]
      /\ tasks' = RemoveAt(tasks, m)
      /\ UNCHANGED <<setup, adding, adds, mWaitingQueue, mContextVec, epoll,
                     mEventCount, localEventCount, timers, ready>>
  BY DEF RunRoutine, Go, addVars, bindVars
<1>5. /\ tasks' \in Seq(Task)
      /\ \A i \in 1 .. Len(tasks') : \E k \in 1 .. Len(tasks) : tasks'[i] = tasks[k]
  <2>1. /\ tasks' \in Seq(Task) /\ Len(tasks') = Len(tasks) - 1
        /\ \A k \in 1 .. Len(tasks) - 1 :
             tasks'[k] = IF k < m THEN tasks[k] ELSE tasks[k + 1]
    BY <1>1, <1>2, <1>4, RemoveAtElements
  <2>2. Len(tasks) \in Nat
    BY <1>2, LenProperties
  <2> HIDE DEF m
  <2> QED
    BY <2>1, <2>2
<1> HIDE DEF m, x
<1>6. /\ \A u \in Threads : u # t => at'[u] = at[u] /\ kcp'[u] = kcp[u]
      /\ at'[t] \in Routine /\ kcp'[t] = x
  BY <1>3, <1>4 DEF Types
<1>7. Types'
  BY <1>3, <1>4, <1>5 DEF Types
<1>8. Locking'
  BY <1>3, <1>4, <1>6, ManagerBounds DEF Locking, Room, epoll_event_size, Routine
<1>9. \A u \in Threads : \A s \in Kcps : Registers(u, s)' <=> Registers(u, s)
  BY <1>4, <1>6 DEF Registers, Routine
<1>10. ~Untouched(x)
  BY <1>1 DEF Untouched, x
<1>11. \A s \in Kcps : Untouched(s) => Untouched(s)'
  <2> SUFFICES ASSUME NEW s \in Kcps, Untouched(s) PROVE Untouched(s)'
    OBVIOUS
  <2>1. s # x
    BY <1>10
  <2>2. s \notin epoll' /\ \A tm \in timers' : tm.kcp # s
    BY <1>4 DEF Untouched
  <2>3. \A i \in 1 .. Len(tasks') : tasks'[i].kcp # s
    BY <1>5 DEF Untouched
  <2>4. \A u \in Threads : kcp'[u] # s
    BY <1>6, <2>1 DEF Untouched
  <2> QED
    BY <2>2, <2>3, <2>4 DEF Untouched
<1>12. Unbound'
  BY <1>4, <1>9, <1>11 DEF Unbound
<1>13. OneTid'
  <2>1. AddedOnce(x) => t = mContextVec[x].tid
    BY <1>1, <1>3 DEF OneTid, x
  <2> QED
    BY <2>1, <1>4, <1>5, <1>6 DEF OneTid, AddedOnce
<1>14. TimersNumbered'
  BY <1>4 DEF TimersNumbered
<1>15. Bound'
  BY <1>4, <1>9 DEF Bound, LiveTimer
<1>16. CountsRegistered'
  BY <1>4 DEF CountsRegistered, AddedOnce, epoll_event_size
<1> QED
  BY <1>7, <1>8, <1>12, <1>13, <1>14, <1>15, <1>16

(* A session added once that waits while nobody registers is as good as    *)
(* new, so that its context can be filled in.                              *)
LEMMA BindInv ==
    ASSUME MInv, NEW t \in Threads, Bind(t)
    PROVE  MInv'
<1> USE DEF MInv
<1>1. PICK x \in mWaitingQueue :
        /\ kcp' = [kcp EXCEPT ![t] = x]
        /\ mContextVec' = [mContextVec EXCEPT ![x] = [tid |-> t, cb |-> TRUE]]
        /\ timers' = timers \cup {[kcp |-> x, n |-> adds[x], tid |-> t, cb |-> TRUE]}
  BY DEF Bind
<1>2. /\ Room /\ at[t] = "bind" /\ at' = [at EXCEPT ![t] = "register"]
      /\ UNCHANGED <<setup, adding, adds, mWaitingQueue, epoll, mEventCount,
                     localEventCount, tasks, ready>>
  BY DEF Bind, Go, addVars
<1> DEFINE tm == [kcp |-> x, n |-> adds[x], tid |-> t, cb |-> TRUE]
<1>3. /\ x \in Kcps /\ adds[x] \in Nat /\ adds[x] # 0 /\ tm \in Timer
      /\ tm.kcp = x /\ tm.n = adds[x] /\ tm.tid = t /\ tm.cb = TRUE
  BY DEF Types, Unbound, Timer
<1>4. \A u \in Threads : at[u] # "register"
  BY <1>2 DEF Locking
<1>5. /\ \A u \in Threads : u # t => at'[u] = at[u] /\ kcp'[u] = kcp[u]
      /\ at'[t] = "register" /\ kcp'[t] = x
      /\ mContextVec'[x] = [tid |-> t, cb |-> TRUE]
      /\ \A s \in Kcps : s # x => mContextVec'[s] = mContextVec[s]
  BY <1>1, <1>2, <1>3 DEF Types
<1> HIDE DEF tm
<1>6. timers' = timers \cup {tm}
  BY <1>1 DEF tm
<1>7. Types'
  <2>1. IsFiniteSet(timers')
    BY <1>6, FS_AddElement DEF Types
  <2>2. mContextVec' \in [Kcps -> [tid : Threads \cup {NoThread}, cb : BOOLEAN]]
    BY <1>1, <1>3 DEF Types
  <2> QED
    BY <1>1, <1>2, <1>3, <1>6, <2>1, <2>2 DEF Types
<1>8. Locking'
  <2>1. \A u, v \in Threads :
          at'[u] \in {"bind", "register"} /\ at'[v] \in {"bind", "register"} => u = v
    BY <1>2, <1>5 DEF Locking
  <2>2. \A u \in Threads : at'[u] = "register" =>
          /\ kcp'[u] \in mWaitingQueue' /\ Room'
          /\ mContextVec'[kcp'[u]] = [tid |-> u, cb |-> TRUE]
    BY <1>2, <1>4, <1>5 DEF Room, epoll_event_size
  <2>3. \A u \in Threads : kcp'[u] = NoKcp <=> at'[u] \notin {"register"} \cup Routine
    BY <1>3, <1>5, ManagerBounds DEF Locking
  <2> QED
    BY <2>1, <2>2, <2>3 DEF Locking
<1>9. Registers(t, x)' /\ \A u \in Threads : \A s \in Kcps : s # x => ~Registers(u, s)'
  BY <1>4, <1>5 DEF Registers
<1>10. \A s \in Kcps : s # x /\ Untouched(s) => Untouched(s)'
  BY <1>2, <1>3, <1>5, <1>6 DEF Untouched
<1>11. Unbound'
  BY <1>2, <1>3, <1>4, <1>9, <1>10 DEF Unbound, Registers
<1>12. AddedOnce(x) => Untouched(x)
  BY <1>3, <1>4 DEF Unbound, Registers, AddedOnce
<1>13. OneTid'
  <2>1. \A s \in epoll' : mContextVec'[s].tid \in Threads
    <3> TAKE s \in epoll'
    <3>1. s \in epoll /\ s \in Kcps
      BY <1>2 DEF Types
    <3>2. CASE s = x
      BY <3>2, <1>5
    <3>3. CASE s # x
      BY <3>1, <3>3, <1>5 DEF OneTid
    <3> QED
      BY <3>2, <3>3
  <2>2. ASSUME NEW s \in Kcps, AddedOnce(s)'
        PROVE  /\ \A w \in timers' : w.kcp = s => w.tid = mContextVec'[s].tid
               /\ \A i \in 1 .. Len(tasks') : tasks'[i].kcp = s
                    => tasks'[i].tid = mContextVec'[s].tid
               /\ \A u \in Threads : kcp'[u] = s => u = mContextVec'[s].tid
    <3>1. AddedOnce(s)
      BY <2>2, <1>2 DEF AddedOnce
    <3>2. CASE s = x
      BY <3>1, <3>2, <1>2, <1>3, <1>5, <1>6, <1>12 DEF Untouched
    <3>3. CASE s # x
      BY <3>1, <3>3, <1>2, <1>3, <1>5, <1>6 DEF OneTid
    <3> QED
      BY <3>2, <3>3
  <2> QED
    BY <2>1, <2>2 DEF OneTid
<1>14. TimersNumbered'
  BY <1>2, <1>3, <1>6 DEF TimersNumbered
<1>15. Bound'
  <2>1. \A s \in Kcps : s # x => (LiveTimer(s)' <=> LiveTimer(s))
    BY <1>3, <1>6 DEF LiveTimer
  <2>2. LiveTimer(x)'
    BY <1>3, <1>6 DEF LiveTimer
  <2> QED
    BY <2>1, <2>2, <1>2, <1>5, <1>9 DEF Bound
<1>16. CountsRegistered'
  <2>1. (\A s \in Kcps : AddedOnce(s)) =>
          \A u \in Threads :
            {s \in epoll' : mContextVec'[s].tid = u} = {s \in epoll : mContextVec[s].tid = u}
    <3> SUFFICES ASSUME \A s \in Kcps : AddedOnce(s)
                 PROVE  \A s \in epoll : s \in Kcps /\ s # x
      BY <1>2, <1>5
    <3> QED
      BY <1>3, <1>12 DEF Untouched, Types
  <2> QED
    BY <2>1, <1>2 DEF CountsRegistered, AddedOnce, epoll_event_size
<1> QED
  BY <1>7, <1>8, <1>11, <1>13, <1>14, <1>15, <1>16

(* What EpollAdd and EpollAddFails share: the session x leaves the queue,  *)
(* and nobody registers any more.                                          *)
LEMMA LeavesQueue ==
    ASSUME MInv, NEW t \in Threads, Leaves(t)
    PROVE  /\ Registers(t, kcp[t]) /\ kcp[t] \in Kcps /\ kcp[t] \in mWaitingQueue
           /\ Room /\ mContextVec[kcp[t]] = [tid |-> t, cb |-> TRUE]
           /\ mWaitingQueue' = mWaitingQueue \ {kcp[t]}
           /\ at' = [at EXCEPT ![t] = "bind"] /\ kcp' = [kcp EXCEPT ![t] = NoKcp]
           /\ UNCHANGED <<setup, adding, adds, ready, tasks>>
           /\ Locking'
           /\ \A u \in Threads : at[u] = "register" => u = t
           /\ \A u \in Threads : \A s \in Kcps : ~Registers(u, s)'
           /\ adds[kcp[t]] # 0
<1> USE DEF MInv
<1>1. /\ at[t] = "register" /\ at' = [at EXCEPT ![t] = "bind"]
      /\ kcp' = [kcp EXCEPT ![t] = NoKcp]
      /\ mWaitingQueue' = mWaitingQueue \ {kcp[t]}
      /\ UNCHANGED <<setup, adding, adds, ready, tasks>>
  BY DEF Leaves, Go, addVars
<1>2. /\ \A u \in Threads : u # t => at'[u] = at[u] /\ kcp'[u] = kcp[u]
      /\ at'[t] = "bind" /\ kcp'[t] = NoKcp
  BY <1>1 DEF Types
<1>3. \A u \in Threads : at[u] = "register" => u = t
  BY <1>1 DEF Locking
<1>4. /\ kcp[t] \in mWaitingQueue /\ kcp[t] \in Kcps /\ Room
      /\ mContextVec[kcp[t]] = [tid |-> t, cb |-> TRUE] /\ adds[kcp[t]] # 0
  BY <1>1 DEF Locking, Types, Unbound
<1>5. Locking'
  <2>1. \A u, v \in Threads :
          at'[u] \in {"bind", "register"} /\ at'[v] \in {"bind", "register"} => u = v
    BY <1>1, <1>2 DEF Locking
  <2>2. \A u \in Threads : at'[u] # "register"
    BY <1>2, <1>3
  <2>3. \A u \in Threads : kcp'[u] = NoKcp <=> at'[u] \notin {"register"} \cup Routine
    BY <1>2 DEF Locking, Routine
  <2> QED
    BY <2>1, <2>2, <2>3 DEF Locking
<1> QED
  BY <1>1, <1>2, <1>3, <1>4, <1>5 DEF Registers

(* epoll_ctl succeeds: the session is counted, with its thread.            *)
LEMMA EpollAddInv ==
    ASSUME MInv, NEW t \in Threads, EpollAdd(t)
    PROVE  MInv'
<1> USE DEF MInv
<1> DEFINE x == kcp[t]
<1>1. /\ x \notin epoll /\ epoll' = epoll \cup {x}
      /\ mEventCount' = mEventCount + 1
      /\ localEventCount' = [localEventCount EXCEPT ![t] = @ + 1]
      /\ UNCHANGED <<mContextVec, timers>>
  BY DEF EpollAdd
<1>2. /\ Registers(t, x) /\ x \in Kcps /\ x \in mWaitingQueue
      /\ Room /\ mContextVec[x] = [tid |-> t, cb |-> TRUE]
      /\ mWaitingQueue' = mWaitingQueue \ {x}
      /\ at' = [at EXCEPT ![t] = "bind"] /\ kcp' = [kcp EXCEPT ![t] = NoKcp]
      /\ UNCHANGED <<setup, adding, adds, ready, tasks>>
      /\ Locking'
      /\ \A u \in Threads : at[u] = "register" => u = t
      /\ \A u \in Threads : \A s \in Kcps : ~Registers(u, s)'
      /\ adds[x] # 0
  BY LeavesQueue DEF EpollAdd
<1>3. \A u \in Threads : \A s \in Kcps : s # x => ~Registers(u, s)
  BY <1>2 DEF Registers
<1>4. IsFiniteSet(epoll') /\ Cardinality(epoll') = Cardinality(epoll) + 1
        /\ Cardinality(epoll) \in Nat
  BY <1>1, FS_AddElement, FS_CardinalityType DEF Types
<1>5. \A u \in Threads : kcp'[u] = kcp[u] \/ kcp'[u] = NoKcp
  BY <1>2 DEF Types
<1> HIDE DEF x
<1>6. Types'
  <2>1. localEventCount' \in [Threads -> Nat]
    BY <1>1 DEF Types
  <2>2. at' \in [Threads -> {"loop", "bind", "register", "near", "wait"} \cup Routine]
    BY <1>2 DEF Types
  <2>3. kcp' \in [Threads -> Kcps \cup {NoKcp}]
    BY <1>2 DEF Types
  <2> QED
    BY <1>1, <1>2, <1>4, <2>1, <2>2, <2>3 DEF Types
<1>7. \A s \in Kcps : s # x /\ Untouched(s) => Untouched(s)'
  BY <1>1, <1>2, <1>5, ManagerBounds DEF Untouched
<1>8. Unbound'
  BY <1>1, <1>2, <1>3, <1>7 DEF Unbound
<1>9. OneTid'
  <2>1. \A s \in epoll' : mContextVec'[s].tid \in Threads
    BY <1>1, <1>2 DEF OneTid
  <2> QED
    BY <2>1, <1>1, <1>2, <1>5, ManagerBounds DEF OneTid, AddedOnce
<1>10. TimersNumbered'
  BY <1>1, <1>2 DEF TimersNumbered
<1>11. Bound'
  BY <1>1, <1>2, <1>3 DEF Bound, LiveTimer
<1>12. CountsRegistered'
  <2>1. mEventCount' = Cardinality(epoll') /\ mEventCount' <= setup.size
    <3>1. setup.size \in Nat
      BY ManagerBounds DEF Types
    <3> QED
      BY <3>1, <1>1, <1>2, <1>4 DEF CountsRegistered, Room, epoll_event_size
  <2>2. ASSUME \A s \in Kcps : AddedOnce(s)', NEW u \in Threads
        PROVE  localEventCount'[u] = Cardinality({s \in epoll' : mContextVec'[s].tid = u})
    <3> DEFINE mine == {s \in epoll : mContextVec[s].tid = u}
               mineNext == {s \in epoll' : mContextVec'[s].tid = u}
    <3>1. localEventCount[u] = Cardinality(mine) /\ localEventCount[u] \in Nat
      BY <1>2, <2>2 DEF CountsRegistered, AddedOnce, Types
    <3>2. IsFiniteSet(mine)
      BY FS_Subset DEF Types
    <3>3. CASE u = t
      <4>1. mineNext = mine \cup {x} /\ x \notin mine
        BY <3>3, <1>1, <1>2
      <4> HIDE DEF mine, mineNext
      <4>2. Cardinality(mineNext) = Cardinality(mine) + 1
        BY <4>1, <3>2, FS_AddElement
      <4> QED
        BY <3>1, <3>3, <4>2, <1>1 DEF Types, mineNext
    <3>4. CASE u # t
      <4>1. mineNext = mine
        BY <3>4, <1>1, <1>2
      <4> HIDE DEF mine, mineNext
      <4> QED
        BY <3>1, <3>4, <4>1, <1>1 DEF Types, mineNext
    <3> QED
      BY <3>3, <3>4
  <2> QED
    BY <2>1, <2>2, <1>2 DEF CountsRegistered, epoll_event_size
<1> QED
  BY <1>2, <1>6, <1>8, <1>9, <1>10, <1>11, <1>12

(* timer->cancel() takes the callback of the timer of the last addKcp and  *)
(* leaves the set as it is.                                                *)
LEMMA CancelTimers ==
    ASSUME Types, NEW x \in Kcps
    PROVE  /\ Cancel(x) \subseteq Timer /\ IsFiniteSet(Cancel(x))
           /\ \A tm \in Cancel(x) : \E w \in timers :
                /\ tm.kcp = w.kcp /\ tm.n = w.n /\ tm.tid = w.tid
                /\ tm.cb => w.cb
           /\ \A tm \in Cancel(x) : tm.kcp # x => tm \in timers
           /\ \A tm \in timers : tm.kcp # x => tm \in Cancel(x)
           /\ \A tm \in Cancel(x) : tm.kcp = x /\ tm.n = adds[x] => ~tm.cb
<1> DEFINE new(tm) == IF tm.kcp = x /\ tm.n = adds[x] THEN [tm EXCEPT !.cb = FALSE] ELSE tm
           f == [tm \in timers |-> new(tm)]
<1>1. Cancel(x) = {new(tm) : tm \in timers}
  BY DEF Cancel
<1>2. ASSUME NEW tm \in timers
      PROVE  /\ new(tm) \in Timer
             /\ new(tm).kcp = tm.kcp /\ new(tm).n = tm.n /\ new(tm).tid = tm.tid
             /\ new(tm).cb => tm.cb
             /\ tm.kcp # x => new(tm) = tm
             /\ tm.kcp = x /\ tm.n = adds[x] => ~new(tm).cb
  <2>1. tm \in Timer
    BY DEF Types
  <2> QED
    BY <2>1 DEF Timer
<1> HIDE DEF new
<1>3. f \in Surjection(timers, Cancel(x))
  BY <1>1 DEF Surjection
<1>4. IsFiniteSet(Cancel(x))
  BY <1>3, FS_Surjection DEF Types
<1> HIDE DEF f
<1> QED
  BY <1>1, <1>2, <1>4

(* epoll_ctl fails: what was begun is taken back.                          *)
LEMMA EpollAddFailsInv ==
    ASSUME MInv, NEW t \in Threads, EpollAddFails(t)
    PROVE  MInv'
<1> USE DEF MInv
<1> DEFINE x == kcp[t]
<1>1. /\ mContextVec' = [mContextVec EXCEPT ![x].cb = FALSE]
      /\ timers' = Cancel(x)
      /\ UNCHANGED <<epoll, mEventCount, localEventCount>>
  BY DEF EpollAddFails
<1>2. /\ Registers(t, x) /\ x \in Kcps /\ x \in mWaitingQueue
      /\ Room /\ mContextVec[x] = [tid |-> t, cb |-> TRUE]
      /\ mWaitingQueue' = mWaitingQueue \ {x}
      /\ at' = [at EXCEPT ![t] = "bind"] /\ kcp' = [kcp EXCEPT ![t] = NoKcp]
      /\ UNCHANGED <<setup, adding, adds, ready, tasks>>
      /\ Locking'
      /\ \A u \in Threads : at[u] = "register" => u = t
      /\ \A u \in Threads : \A s \in Kcps : ~Registers(u, s)'
      /\ adds[x] # 0
  BY LeavesQueue DEF EpollAddFails
<1>3. \A u \in Threads : \A s \in Kcps : s # x => ~Registers(u, s)
  BY <1>2 DEF Registers
<1>4. \A u \in Threads : kcp'[u] = kcp[u] \/ kcp'[u] = NoKcp
  BY <1>2 DEF Types
<1> HIDE DEF x
<1>5. /\ mContextVec' \in [Kcps -> [tid : Threads \cup {NoThread}, cb : BOOLEAN]]
      /\ \A s \in Kcps : mContextVec'[s].tid = mContextVec[s].tid
      /\ \A s \in Kcps : s # x => mContextVec'[s] = mContextVec[s]
      /\ mContextVec'[x].cb = FALSE
  BY <1>1, <1>2 DEF Types
<1>6. /\ timers' \subseteq Timer /\ IsFiniteSet(timers')
      /\ \A tm \in timers' : \E w \in timers :
           /\ tm.kcp = w.kcp /\ tm.n = w.n /\ tm.tid = w.tid
           /\ tm.cb => w.cb
      /\ \A tm \in timers' : tm.kcp # x => tm \in timers
      /\ \A tm \in timers : tm.kcp # x => tm \in timers'
      /\ \A tm \in timers' : tm.kcp = x /\ tm.n = adds[x] => ~tm.cb
  BY <1>1, <1>2, CancelTimers
<1>7. Types'
  <2>1. at' \in [Threads -> {"loop", "bind", "register", "near", "wait"} \cup Routine]
    BY <1>2 DEF Types
  <2>2. kcp' \in [Threads -> Kcps \cup {NoKcp}]
    BY <1>2 DEF Types
  <2> QED
    BY <1>1, <1>2, <1>5, <1>6, <2>1, <2>2 DEF Types
<1>8. \A s \in Kcps : Untouched(s) => Untouched(s)'
  BY <1>1, <1>2, <1>4, <1>6, ManagerBounds DEF Untouched
<1>9. Unbound'
  BY <1>1, <1>2, <1>3, <1>8 DEF Unbound
<1>10. OneTid'
  <2>1. \A s \in epoll' : mContextVec'[s].tid \in Threads
    BY <1>1, <1>5 DEF OneTid, Types
  <2>2. ASSUME NEW s \in Kcps, AddedOnce(s)'
        PROVE  /\ \A w \in timers' : w.kcp = s => w.tid = mContextVec'[s].tid
               /\ \A i \in 1 .. Len(tasks') : tasks'[i].kcp = s
                    => tasks'[i].tid = mContextVec'[s].tid
               /\ \A u \in Threads : kcp'[u] = s => u = mContextVec'[s].tid
    <3>1. AddedOnce(s)
      BY <2>2, <1>2 DEF AddedOnce
    <3> QED
      BY <3>1, <1>2, <1>4, <1>5, <1>6, ManagerBounds DEF OneTid
  <2> QED
    BY <2>1, <2>2 DEF OneTid
<1>11. TimersNumbered'
  BY <1>2, <1>6 DEF TimersNumbered
<1>12. Bound'
  <2> SUFFICES ASSUME NEW s \in Kcps, adds[s] = 1, s \notin mWaitingQueue'
               PROVE  /\ mContextVec'[s].cb <=> s \in epoll
                      /\ LiveTimer(s)' <=> s \in epoll
    BY <1>1, <1>2 DEF Bound
  <2>1. CASE s = x
    <3>1. s \notin epoll
      BY <2>1, <1>2 DEF Unbound
    <3>2. ASSUME NEW tm \in timers', tm.kcp = x, tm.cb
          PROVE  FALSE
      <4>1. 1 <= tm.n /\ tm.n <= 1 /\ tm.n \in Nat
        BY <2>1, <3>2, <1>2, <1>11, <1>6 DEF TimersNumbered, Timer
      <4> QED
        BY <4>1, <3>2, <2>1, <1>6
    <3> QED
      BY <2>1, <3>1, <3>2, <1>5 DEF LiveTimer
  <2>2. CASE s # x
    BY <2>2, <1>2, <1>5, <1>6 DEF Bound, LiveTimer
  <2> QED
    BY <2>1, <2>2
<1>13. CountsRegistered'
  <2>1. \A u \in Threads :
          {s \in epoll' : mContextVec'[s].tid = u} = {s \in epoll : mContextVec[s].tid = u}
    BY <1>1, <1>5 DEF Types
  <2> QED
    BY <2>1, <1>1, <1>2 DEF CountsRegistered, AddedOnce, epoll_event_size
<1> QED
  BY <1>2, <1>7, <1>9, <1>10, <1>11, <1>12, <1>13

(* What epoll_wait and the timers make tasks of has the tid of a timer or  *)
(* of a registered session's context.                                      *)
LEMMA WakeTasks ==
    ASSUME Types, OneTid, NEW t \in Threads, NEW due \in SUBSET timers, Wake(t, due)
    PROVE  /\ tasks' \in Seq(Task)
           /\ \A i \in 1 .. Len(tasks') :
                \/ \E k \in 1 .. Len(tasks) : tasks'[i] = tasks[k]
                \/ \E tm \in timers : /\ tasks'[i].kcp = tm.kcp
                                      /\ tasks'[i].tid = tm.tid
                \/ /\ tasks'[i].kcp \in epoll
                   /\ tasks'[i].tid = mContextVec[tasks'[i].kcp].tid
<1> DEFINE D == {u \in due : u.cb}
           R == {r \in ready : mContextVec[r].cb}
           outs == {OutputTask(tm) : tm \in D}
           ins  == {InputTask(s) : s \in R}
           f == [tm \in D |-> OutputTask(tm)]
           g == [s \in R |-> InputTask(s)]
<1>1. \A tm \in D : /\ OutputTask(tm) \in Task /\ tm \in timers
                    /\ OutputTask(tm).kcp = tm.kcp /\ OutputTask(tm).tid = tm.tid
  BY DEF Types, Timer, OutputTask, Task, Routine
<1>2. \A s \in R : /\ InputTask(s) \in Task /\ s \in epoll
                   /\ InputTask(s).kcp = s /\ InputTask(s).tid = mContextVec[s].tid
  BY DEF Types, OneTid, InputTask, Task, Routine
<1>3. IsFiniteSet(outs)
  <2>1. IsFiniteSet(D)
    BY FS_Subset DEF Types
  <2>2. f \in Surjection(D, outs)
    BY DEF Surjection
  <2> HIDE DEF D, outs, f
  <2> QED
    BY <2>1, <2>2, FS_Surjection
<1>4. IsFiniteSet(ins)
  <2>1. IsFiniteSet(R)
    BY FS_Subset DEF Types
  <2>2. g \in Surjection(R, ins)
    BY DEF Surjection
  <2> HIDE DEF R, ins, g
  <2> QED
    BY <2>1, <2>2, FS_Surjection
<1>5. PICK outputs \in SetToSeqs(outs \ ToSet(tasks)),
           inputs \in SetToSeqs(ins \ ToSet(tasks)) :
        tasks' = tasks \o outputs \o inputs
  BY DEF Wake
<1>6. /\ outputs \in Seq(outs) /\ inputs \in Seq(ins)
      /\ \A i \in 1 .. Len(outputs) : outputs[i] \in outs
      /\ \A i \in 1 .. Len(inputs) : inputs[i] \in ins
  <2>1. /\ IsFiniteSet(outs \ ToSet(tasks)) /\ IsFiniteSet(ins \ ToSet(tasks))
    BY <1>3, <1>4, FS_Difference
  <2>2. /\ outputs \in Seq(outs \ ToSet(tasks)) /\ inputs \in Seq(ins \ ToSet(tasks))
    BY <1>5, <2>1, SetToSeqsElements
  <2> HIDE DEF outs, ins
  <2> QED
    BY <2>2, SeqMonotonic, ElementOfSeq
<1>7. outs \subseteq Task /\ ins \subseteq Task
  BY <1>1, <1>2
<1>8. /\ \A x \in outs : \E tm \in timers : x.kcp = tm.kcp /\ x.tid = tm.tid
      /\ \A x \in ins : x.kcp \in epoll /\ x.tid = mContextVec[x.kcp].tid
  BY <1>1, <1>2
<1> HIDE DEF D, R, outs, ins, f, g
<1>9. outputs \in Seq(Task) /\ inputs \in Seq(Task) /\ tasks \in Seq(Task)
  BY <1>6, <1>7, SeqMonotonic DEF Types
<1>10. /\ tasks \o outputs \in Seq(Task)
       /\ Len(tasks \o outputs) = Len(tasks) + Len(outputs)
       /\ \A i \in 1 .. Len(tasks) + Len(outputs) : (tasks \o outputs)[i] =
            IF i <= Len(tasks) THEN tasks[i] ELSE outputs[i - Len(tasks)]
  BY <1>9, ConcatProperties
<1> DEFINE q == tasks \o outputs
<1>11. /\ q \o inputs \in Seq(Task)
       /\ Len(q \o inputs) = Len(q) + Len(inputs)
       /\ \A i \in 1 .. Len(q) + Len(inputs) : (q \o inputs)[i] =
            IF i <= Len(q) THEN q[i] ELSE inputs[i - Len(q)]
  BY <1>9, <1>10, ConcatProperties
<1>12. tasks' = q \o inputs
  BY <1>5
<1> HIDE DEF q
<1>13. Len(tasks) \in Nat /\ Len(outputs) \in Nat /\ Len(inputs) \in Nat /\ Len(q) \in Nat
  BY <1>9, <1>10, LenProperties DEF q
<1>14. ASSUME NEW i \in 1 .. Len(tasks')
       PROVE  \/ \E k \in 1 .. Len(tasks) : tasks'[i] = tasks[k]
              \/ tasks'[i] \in outs
              \/ tasks'[i] \in ins
  <2>1. CASE i <= Len(tasks)
    <3>1. i \in 1 .. Len(tasks) /\ tasks'[i] = tasks[i]
      BY <2>1, <1>10, <1>11, <1>12, <1>13 DEF q
    <3> QED
      BY <3>1
  <2>2. CASE i > Len(tasks) /\ i <= Len(q)
    <3>1. i - Len(tasks) \in 1 .. Len(outputs) /\ tasks'[i] = outputs[i - Len(tasks)]
      BY <2>2, <1>10, <1>11, <1>12, <1>13 DEF q
    <3> QED
      BY <3>1, <1>6
  <2>3. CASE i > Len(q)
    <3>1. i - Len(q) \in 1 .. Len(inputs) /\ tasks'[i] = inputs[i - Len(q)]
      BY <2>3, <1>11, <1>12, <1>13
    <3> QED
      BY <3>1, <1>6
  <2> QED
    BY <2>1, <2>2, <2>3, <1>11, <1>12, <1>13
<1> QED
  BY <1>8, <1>11, <1>12, <1>14

(* epoll_wait returns.                                                     *)
LEMMA WakeInv ==
    ASSUME MInv, NEW t \in Threads, NEW due \in SUBSET timers, Wake(t, due)
    PROVE  MInv'
<1> USE DEF MInv
<1>1. /\ at[t] = "wait" /\ at' = [at EXCEPT ![t] = "loop"]
      /\ timers' = timers \ {tm \in due : ~tm.cb} /\ ready' = {}
      /\ UNCHANGED <<setup, adding, adds, mWaitingQueue, mContextVec, epoll,
                     mEventCount, localEventCount, kcp>>
  BY DEF Wake, Go, TimersAfter, addVars, bindVars
<1>2. /\ tasks' \in Seq(Task)
      /\ \A i \in 1 .. Len(tasks') :
           \/ \E k \in 1 .. Len(tasks) : tasks'[i] = tasks[k]
           \/ \E tm \in timers : tasks'[i].kcp = tm.kcp /\ tasks'[i].tid = tm.tid
           \/ /\ tasks'[i].kcp \in epoll
              /\ tasks'[i].tid = mContextVec[tasks'[i].kcp].tid
  BY WakeTasks
<1>3. /\ \A u \in Threads : u # t => at'[u] = at[u]
      /\ at'[t] = "loop"
  BY <1>1 DEF Types
<1>4. IsFiniteSet(timers')
  BY <1>1, FS_Difference DEF Types
<1>5. Types'
  BY <1>1, <1>2, <1>4 DEF Types
<1>6. Locking'
  BY <1>1, <1>3 DEF Locking, Room, epoll_event_size, Routine
<1>7. \A u \in Threads : \A s \in Kcps : Registers(u, s)' <=> Registers(u, s)
  BY <1>1, <1>3 DEF Registers
<1>8. \A s \in Kcps : Untouched(s) => Untouched(s)'
  BY <1>1, <1>2 DEF Untouched
<1>9. Unbound'
  BY <1>1, <1>7, <1>8 DEF Unbound
<1>10. OneTid'
  <2>1. ASSUME NEW s \in Kcps, AddedOnce(s), NEW i \in 1 .. Len(tasks'), tasks'[i].kcp = s
        PROVE  tasks'[i].tid = mContextVec[s].tid
    BY <2>1, <1>2 DEF OneTid
  <2> QED
    BY <2>1, <1>1 DEF OneTid, AddedOnce
<1>11. TimersNumbered'
  BY <1>1 DEF TimersNumbered
<1>12. Bound'
  <2>1. \A s \in Kcps : LiveTimer(s)' <=> LiveTimer(s)
    BY <1>1 DEF LiveTimer
  <2> QED
    BY <2>1, <1>1, <1>7 DEF Bound
<1>13. CountsRegistered'
  BY <1>1 DEF CountsRegistered, AddedOnce, epoll_event_size
<1> QED
  BY <1>5, <1>6, <1>9, <1>10, <1>11, <1>12, <1>13

(* The manager starts with nothing registered.                             *)
LEMMA InitInv == Init => MInv
<1> SUFFICES ASSUME Init
             PROVE  MInv
  OBVIOUS
<1> USE DEF Init
<1>1. IsFiniteSet(timers) /\ IsFiniteSet(epoll) /\ Cardinality(epoll) = 0
  BY FS_EmptySet
<1>2. Types
  BY <1>1 DEF Types, Routine
<1>3. Locking
  BY DEF Locking, Routine
<1>4. Len(tasks) = 0
  OBVIOUS
<1>5. Unbound
  BY <1>4, ManagerBounds DEF Unbound, Untouched
<1>6. OneTid
  BY <1>4, ManagerBounds DEF OneTid
<1>7. TimersNumbered
  BY DEF TimersNumbered
<1>8. Bound
  BY DEF Bound
<1>9. CountsRegistered
  <2>1. \A u \in Threads : {s \in epoll : mContextVec[s].tid = u} = {}
    OBVIOUS
  <2>2. setup.size \in Nat
    BY ManagerBounds DEF Types
  <2> QED
    BY <1>1, <2>1, <2>2, FS_EmptySet DEF CountsRegistered, epoll_event_size
<1> QED
  BY <1>2, <1>3, <1>5, <1>6, <1>7, <1>8, <1>9 DEF MInv

(* Every step of the manager and of its callers.                           *)
LEMMA StepInv ==
    ASSUME MInv, [Next]_vars
    PROVE  MInv'
<1>1. CASE \E s \in Kcps : AddKcp(s) \/ AddKcpInsert(s) \/ DelKcp(s) \/ Datagram(s)
  BY <1>1, AddKcpInv, AddKcpInsertInv, DelKcpInv, DatagramInv
<1>2. CASE \E t \in Threads : Step(t)
  <2>1. PICK t \in Threads : Step(t)
    BY <1>2
  <2>2. CASE \E due \in SUBSET timers : Wake(t, due)
    BY <2>2, WakeInv
  <2> QED
    BY <2>1, <2>2, RunRoutineInv, RoutineReturnsInv, EnterInv, BindInv, EpollAddInv,
       EpollAddFailsInv, BindDoneInv, NearInv DEF Step
<1>3. CASE UNCHANGED vars
  <2>1. Locking'
    BY <1>3 DEF MInv, Locking, Room, epoll_event_size, vars, bindVars, threadVars
  <2> QED
    BY <1>3, <2>1, QuietStep DEF MInv, Types, Locking, vars, addVars, threadVars
<1> QED
  BY <1>1, <1>2, <1>3 DEF Next

-----------------------------------------------------------------------------
(* Theorems about the specification.                                       *)

(* The inductive invariant holds, however calls of addKcp, bindings,       *)
(* routines and failures of epoll_ctl interleave.                          *)
THEOREM Invariance == Spec => []MInv
<1>1. Init => MInv
  BY InitInv
<1>2. MInv /\ [Next]_vars => MInv'
  BY StepInv
<1> QED
  BY <1>1, <1>2, PTL DEF Spec

(* mEventCount is the number of registered sessions and never above        *)
(* epoll_event_size, although addKcp tests it without the lock and lets in *)
(* any number of sessions; each thread's share counts its own.             *)
THEOREM Counted == Spec => []CountsRegistered
<1>1. MInv => CountsRegistered
  BY DEF MInv
<1> QED
  BY <1>1, Invariance, PTL

(* Two threads are never busy with the same session, whichever of them     *)
(* finds its timer or its event: both would be the tid of its context.     *)
THEOREM Alone == Spec => []AloneWithSession
<1>1. MInv => AloneWithSession
  <2> SUFFICES ASSUME MInv, NEW t \in Threads, NEW u \in Threads,
                      t # u, kcp[t] = kcp[u], kcp[t] # NoKcp, AddedOnce(kcp[t])
               PROVE  FALSE
    BY DEF AloneWithSession
  <2>1. kcp[t] \in Kcps
    BY DEF MInv, Types
  <2> QED
    BY <2>1 DEF MInv, OneTid
<1> QED
  BY <1>1, Invariance, PTL

(* A session is bound with all that belongs to it, or, when epoll_ctl      *)
(* fails half-way, with nothing.                                           *)
THEOREM Whole == Spec => []BoundOrNot
<1>1. MInv => BoundOrNot
  <2> SUFFICES ASSUME MInv, NEW s \in Kcps, adds[s] = 1, s \notin mWaitingQueue
               PROVE  LET live == {tm \in timers : tm.kcp = s /\ tm.cb}
                      IN  IF s \in epoll
                          THEN /\ mContextVec[s].cb
                               /\ {tm.tid : tm \in live} = {mContextVec[s].tid}
                          ELSE ~mContextVec[s].cb /\ live = {}
    BY DEF BoundOrNot
  <2>1. (mContextVec[s].cb <=> s \in epoll) /\ (LiveTimer(s) <=> s \in epoll)
    BY DEF MInv, Bound
  <2>2. \A tm \in timers : tm.kcp = s => tm.tid = mContextVec[s].tid
    BY DEF MInv, OneTid, AddedOnce
  <2> QED
    BY <2>1, <2>2 DEF LiveTimer
<1> QED
  BY <1>1, Invariance, PTL
=============================================================================
