---------------------------- MODULE MCKScheduler ----------------------------
(* Small instances of KScheduler: two threads of its own, or one and the   *)
(* caller's; one job is a callback and one a fiber.                        *)
EXTENDS KScheduler

CONSTANTS t1, t2, j1, j2

Pool(root, workers, waits, stops, entries, n) ==
    [root |-> root, workers |-> workers, waits |-> waits, stops |-> stops,
     entries |-> entries, yields |-> n]

Of(jobs, tids) == [job : jobs, tid : tids]

(* Threads that wait, one of them for the events of a session.             *)
TimerSetup ==
    {Pool(NoThread, {t1, t2}, "timer", FALSE,
          Of({j1}, {t1}) \cup Of({j2}, {AnyThread, t2}), 1)}

(* Two threads; one job that yields twice, and so may be in the queue      *)
(* twice once it was overtaken; the caller and a thread; the caller alone. *)
AllSetups ==
    {Pool(NoThread, {t1, t2}, "spin", TRUE,
          Of({j1}, {AnyThread, t1}) \cup Of({j2}, {t2}), 1),
     Pool(NoThread, {t1, t2}, "spin", TRUE, Of({j2}, {AnyThread, t1, t2}), 2),
     Pool(t1, {t2}, "spin", TRUE,
          Of({j1}, {AnyThread, t1}) \cup Of({j2}, {t1, t2}), 1),
     Pool(t1, {}, "spin", TRUE, Of({j1, j2}, {AnyThread, t1}), 1)}
      \cup TimerSetup
=============================================================================
