------------------------------ MODULE KExecutor ------------------------------
(***************************************************************************)
(* What the scheduler of kschedule.cpp promises: a job that was scheduled  *)
(* waits in one queue, is run by one thread at a time, and every thread    *)
(* takes the first job that may run on it.  How the threads find each      *)
(* other, sleep and end is not told here.                                  *)
(***************************************************************************)
EXTENDS Integers, Sequences, SequencesExt

CONSTANTS
    Threads,    \* the threads that run jobs (their kernel ids)
    AnyThread,  \* tid 0: the job may run on every thread
    Jobs,       \* fibers and callbacks
    NoJob

VARIABLES
    waiting,    \* entries [job, tid] that wait, in the order of scheduling
    running,    \* the job each thread runs
    done        \* the jobs that have ended

execVars == <<waiting, running, done>>

Entry == [job : Jobs, tid : Threads \cup {AnyThread}]

ExecInit ==
    /\ waiting = <<>>
    /\ running = [t \in Threads |-> NoJob]
    /\ done = {}

IsWaiting(j) == \E i \in 1 .. Len(waiting) : waiting[i].job = j

IsRunning(j) == \E t \in Threads : running[t] = j

(* schedule: a running job may schedule itself to another thread.          *)
Submit(e) ==
    /\ e.job \notin done /\ ~IsWaiting(e.job)
    /\ waiting' = Append(waiting, e)
    /\ UNCHANGED <<running, done>>

(* A thread takes the first entry that is meant for it, or for all, and    *)
(* that no thread is running.                                              *)
Start(t) ==
    /\ running[t] = NoJob
    /\ LET i == SelectInSeq(waiting, LAMBDA e : /\ e.tid \in {AnyThread, t}
                                                /\ ~IsRunning(e.job))
       IN  /\ i > 0
           /\ running' = [running EXCEPT ![t] = waiting[i].job]
           /\ waiting' = RemoveAt(waiting, i)
    /\ UNCHANGED done

(* The job returned or threw.                                              *)
Finish(t) ==
    /\ running[t] # NoJob /\ ~IsWaiting(running[t])
    /\ done' = done \cup {running[t]}
    /\ running' = [running EXCEPT ![t] = NoJob]
    /\ UNCHANGED waiting

(* The job yielded: it goes to the end of the queue, for every thread.     *)
Yield(t) ==
    /\ running[t] # NoJob /\ ~IsWaiting(running[t])
    /\ waiting' = Append(waiting, [job |-> running[t], tid |-> AnyThread])
    /\ running' = [running EXCEPT ![t] = NoJob]
    /\ UNCHANGED done

(* The job left its thread for the one it had scheduled itself to.         *)
Leave(t) ==
    /\ running[t] # NoJob /\ IsWaiting(running[t])
    /\ running' = [running EXCEPT ![t] = NoJob]
    /\ UNCHANGED <<waiting, done>>

ExecNext ==
    \/ \E e \in Entry : Submit(e)
    \/ \E t \in Threads : Start(t) \/ Finish(t) \/ Yield(t) \/ Leave(t)

ExecSpec == ExecInit /\ [][ExecNext]_execVars
=============================================================================
