# fiber_kcp in TLA+

fiber_kcp is KCP (a reliable, ordered ARQ protocol over UDP, `ikcp.c`) driven
by a small scheduler of fibers with an epoll loop and timers (`kcpmanager`,
`kschedule`, `kfiber`, `ktimer`, `kthread`) and wrapped into sessions (`kcp`).
This directory holds its specifications, the configurations that check them
with TLC, and proofs for TLAPS.

    tlc -config MCArq.cfg MCArq      checks one configuration
    tlapm ArqProofs.tla              checks the proofs

`PROJECT.json` lists every run, the lines each definition stands for, the
hazards of the code and the mutants that show that each property can fail.

## 1. The system

| part | state | operations | interacts with |
|---|---|---|---|
| ARQ protocol and control block, `ikcp.c` | `IKCPCB`: the lists `snd_queue`, `snd_buf`, `rcv_buf`, `rcv_queue`, `acklist`; `snd_una`, `snd_nxt`, `rcv_nxt`, `rmt_wnd`, `cwnd`, `incr`, `ssthresh`, `probe`, timers | `ikcp_send`, `ikcp_recv`, `ikcp_peeksize`, `ikcp_input`, `ikcp_update`/`ikcp_flush`, `ikcp_check`, `ikcp_setmtu` | the output callback (`sendto`), the peer's control block through UDP |
| session, `kcp.cpp` | `mSendBufQueue` under `mQueueMutex`, the handle, `mRecvEvent` | `send` (any thread), `outputRoutine` (timer), `inputRoutine` (read event) | control block, socket, manager |
| timers, `ktimer.cpp` | `mTimers` under `mTimerRWMutex`, `mTickle`; each timer's `mTime`, `mRecycleTime`, `mCb` | `addTimer`, `delTimer`, `cancel`, `getNearTimeout`, `listExpiredTimer` | manager: `onTimerInsertedAtFront`, callbacks |
| manager, `kcpmanager.cpp` | `mWaitingQueue`, `mContextVec`, `mEventCount`, epoll and event descriptors | `addKcp`, `delKcp`, `idle`, `tickle`, `triggerEvent` | timers, sessions, scheduler |
| scheduler and fibers, `kschedule`, `kfiber` | `mFiberQueue`, active and idle counts, `mStopping`, fiber states | `schedule`, `threadloop`, `switchTo`, `start`, `stop`, `resume`, `Yeild2Hold`, `Yeild2Ready` | manager's `idle` and `tickle`, every callback |
| threads, `kthread.cpp` | semaphore, `mTid`, `mShouldJoin` | constructor, `entrance`, `detach`, `join` | scheduler |

A message goes `Kcp::send` -> `mSendBufQueue` -> (timer) `outputRoutine` ->
`ikcp_send` -> `snd_queue` -> (flush) `snd_buf` and the wire -> `recvfrom` in
`inputRoutine` -> `ikcp_input` -> `rcv_buf` -> `rcv_queue` -> `ikcp_recv` ->
`mRecvEvent`.  The timer thread, the thread a session is bound to and the
application's threads run at the same time.

What is hard here: acknowledgements and windows that arrive late, twice or not
at all; windows that close and the update that is lost; fragments against the
receive window; wrap-around of 32-bit times and numbers; a queue filled by one
thread and emptied by another; an edge-triggered socket; timers changed by one
thread while another lists them; threads that find each other's work, and
wake-ups that come a moment too early; a fiber that changes threads; a
registration that fails half-way; an end that must wait for what still runs.  `PROJECT.json` lists each hazard
with its line and the properties about it.

## 2. The modules

| module | models | state and actions |
|---|---|---|
| `KcpChannel` | the promise: in each direction a reliable ordered channel of segments | `stream`, `delivered`; `Write`, `Read` |
| `Arq` | the protocol of `ikcp.c`, one segment at a time | the lists as sets and functions of `sn`; `Send` (ikcp_send), `Flush` (ikcp_flush), `Input` (one turn of ikcp_input), `Recv` (ikcp_recv), `Lose` |
| `Ikcp` | the control block with its lists, fragments, datagrams, stream mode, congestion window, probes | each function of `ikcp.c` is an operator of the same name on control blocks; `Send`, `Flush`, `Input`, `Recv`, `SetMtu`, `Lose` |
| `IkcpOwner` | `Ikcp` with the only owner it has, the two routines of `kcp.cpp`: at most one message is received for each read event | `reading`; `ReadInput`, `ReadNothing`, `ReadOnce`, `Writes`, `FlushDue`, `Lost` |
| `IkcpClock` | `ikcp_update`, `ikcp_check`, timeouts and the probe timer with times that wrap | fields of the control block and of one segment; `Update`, `Send`, `Ack`, `Window` |
| `SerialNumbers` | `_itimediff` and the window tests on 32-bit numbers (operators only) | - |
| `KcpSession` | two `Kcp` objects: queue, routines, socket, read event, tasks | `Send`, `OutputTake/Send/Done`, `Datagram`, `TriggerEvent`, `InputStart`, `Recvfrom`, `InputDrained`, `RecvfromFails`, `InputRecv` |
| `KTimer` | the timer set and the threads that sleep until the nearest timer | `AddTimer`, `Tickle`, `Cancel`, `DelTimer`, and for each thread `Idle`, `GetNearTimeout`, `Wake`, `TakeExpired`, `ListOne`, `ListDone`; `Tick` |
| `KExecutor` | the promise of the scheduler: a job runs once, on one thread, on the thread it is bound to, in the order of the queue | `waiting`, `running`, `done`; `Submit`, `Start`, `Finish`, `Yield`, `Leave` |
| `KScheduler` | `threadloop` and the calls of `schedule`, `start`, `stop`, `switchTo`; the states of fibers; idling and waking | `mFiberQueue`, `mState`, `cbFiber`, the two counters, where each thread is, `fault`; `Schedule`, `Stop`, `EnterRoot`, `StartThread`, `Tickle`, and for each thread `Scan`, `Resume`, `SwapIn`, `NoTask`, `LoopEnds`, `FiberEnds`, `Yeild2Ready`, `SwitchTo`, `Yeild2Hold`, `Inactive`, `Settle`, `Requeue`, `SetHold`, `ScheduleFrom`, `ScheduleIdle`, `IdleCheck`, `WaitEnds`, `IdleYields`; the assertions that can fail: `SwapInFails`, `YieldFails`, `ResetFails` |
| `KcpManager` | sessions that are added, bound to a thread, and served by timers and read events | `mWaitingQueue`, `mContextVec`, timers, epoll, counters; `AddKcp`, `AddKcpInsert`, `DelKcp`, `Datagram`, and for each thread `Enter`, `Bind`, `EpollAdd`, `EpollAddFails`, `BindDone`, `Near`, `Wake`, `RunRoutine`, `RoutineReturns` |
| `MC...` | constants of the small instances | - |
| `ArqProofs`, `IkcpProofs`, `IkcpClockProofs`, `KTimerProofs`, `KcpSessionProofs`, `KSchedulerProofs`, `KcpManagerProofs` | proofs about `Arq` (and `SerialNumbers`), `Ikcp`, `IkcpClock`, ... | the inductive invariant, one lemma per action and part, the theorems at the end |
| `SequenceFacts` | lemmas about sequences, their parts, removals, insertions and concatenations, and induction over naturals, which the proofs share | - |

`Ikcp` implements `Arq` (`ArqSpec`, checked) and `Arq` implements `KcpChannel`
(`ChanSpec`, checked and proved), so the layers are: control block -> protocol
-> channel.  `IkcpOwner` restricts `Ikcp` to the calls `kcp.cpp` makes, which
matters for liveness only: what is proved of `Ikcp` holds for every owner.
`KcpSession` stands on the channel: what `ikcp_recv` can return is
described by what the peer has queued and the window has room for, and on
`KcpManager`, which shows that one thread at a time runs the routines of a
session (`AloneWithSession`).  `KScheduler` implements `KExecutor` (`ExecSpec`,
checked and proved) until a fiber is overtaken in `switchTo`; `KcpManager` uses the executor's queue, and `KTimer` is the part of
`idle()` that `KcpManager` reduces to "a timer is due now and then".

### What the models abstract

* Sequence numbers of `Arq` and `Ikcp` are naturals.  `ikcp.c` compares 32-bit
  numbers through `_itimediff` only (`SerialNumbers`); `ArqProofs` proves that
  this is the comparison of the naturals while two compared numbers are less than 2^31
  apart, which the windows ensure for `sn` (a segment may be delayed by less
  than 2^31 numbers).
* `Arq` leaves open when a segment is sent again; its theorems hold for every
  choice.  `Ikcp` decides it from `xmit` and `fastack` and leaves open only
  which timers have run out; `IkcpClock` has the timers.
* `Ikcp`'s byte is `<<message, index>>`.  `fastack` and `xmit` stop at the
  values beyond which nothing tells them apart.
* `KcpSession` keeps one routine of a session running at a time, because the
  timer and the read event are both bound to the thread `ctx->tid`
  (`kcpmanager.cpp:139-145`; that this is enough is `AloneWithSession` of
  `KcpManager`), and lets a datagram complete any number of the
  segments the peer queued.  `recvfrom` may fail at any turn of the loop with an
  error other than EAGAIN, which ends the loop as EAGAIN does (`RecvfromFails`).
* `KTimer` keeps the set as the order an iteration yields.  `cancel` changes a
  key inside a `std::set`, which the C++ library leaves undefined; the model
  takes the insertions a search tree can make (`Places`): between two
  neighbours the comparison accepts, and for three nodes on the right side of
  the root.  Sockets that wake the loop earlier are left out, which can only
  make threads sleep longer.
* `KScheduler` takes each section under `mQueueMutex` as a step, and every
  access to an atomic counter or to a fiber's state outside as another; the
  reads of the state after `resume()` are one, the write of HOLD or the call of
  `schedule` that follows is the next.  What fibers do is a choice.  The fiber
  that `threadloop` makes for a callback is the callback's own once it yields;
  `cbFiber` says whether a thread keeps one for the next callback.  `idle()` is
  virtual: a setup says whether it is the one of `KScheduler`, which does not
  wait, or that of `KcpManager` with a timer that recurs, so that `epoll_wait`
  ends and `stopping()` is false.  `schedule()` may be called at any time by
  threads outside, before, during and after `stop()`, as `kschedule.h:36-47`
  does not look at `mStopping`; a thread passes over a job only when its state
  is EXEC, as `kschedule.cpp:153` does.
* Where an assertion of the code fails `KScheduler` says so in `fault` and stops:
  what the program does then depends on the logging library.  `"state"` is a
  fiber in the wrong state, `"callback"` the destructor of the fiber a thread
  keeps for callbacks, `"root"` the end of the root fiber, which enters a
  context that is gone.
* Three variables of `KScheduler` are history and guard nothing.  `overtaken`:
  a thread took a fiber whose own thread had written HOLD in `switchTo` and was
  not done with it.  `uncounted`: the jobs `stopping()` may not have waited for.
  `missed`: see `NoSleepOnWork`.
* `KcpManager` keeps of `KScheduler` that a thread runs its tasks before it
  idles, in the order of the queue, and of `KTimer` which timers are in the
  set.  A routine is in the queue once at most, and `epoll_wait` returns all
  sockets that are ready.  The contexts are those of `fd`, one per session.
  `epoll_ctl` fails with EEXIST or for want of memory.
* Allocation failures, malformed datagrams, logging and byte encoding are not
  modelled.

## 3. What the runs check

| run | question | instance |
|---|---|---|
| `MCArq` | is anything lost, repeated, displaced or stranded; are acknowledgements true; does `snd_una` ever go back; do two endpoints implement `KcpChannel` | A writes up to 4 segments of 2 payloads, windows of 2, at most 2 segments in flight, each lost, repeated or overtaken at will |
| `MCIkcpOrder` | do the lists stay sorted, do the control blocks implement `Arq`, does the congestion window stay open | 3 one-segment messages, send window 3, receive window 2, 2 datagrams to the reader and 1 back, which may be repeated; fast resend after 1, thresholds 2 |
| `MCIkcpMessages` | do messages (or, in stream mode, bytes) arrive whole and in order; do datagrams fit the mtu; can a full queue be read | both modes; 2 messages of 3 bytes (2 fragments) or 8 bytes (4, refused), mss 2 or, after `ikcp_setmtu`, 3, receive window 3 |
| `MCKScheduler` | does the scheduler implement the executor, are the counters exact, does no thread sleep or end while there is work for it, does every job run, does `stop()` end all threads | 2 threads and 2 jobs, a fiber and a callback, in five setups: two workers; two workers and one fiber that yields twice; the caller and a worker; the caller alone; two workers of a `KcpManager`.  Bound and free jobs, one or two calls of `Yeild2Ready` or `switchTo`, `schedule` at any time |
| `MCKcpManager` | are the counters exact, are sessions bound whole, by one thread at a time, and in the end; does their output go on | 2 threads, 2 sessions: room for one, room for both, and one session added twice |
| `MCIkcpOwner` | does every message arrive when the owner receives one message for each read event | messages 4 to 6 of a conversation, send and receive window 2, no congestion window; from two states, one of them with an unread message and a window the writer thinks larger than it is |
| `IkcpClock` | do resends, probes, `ikcp_check` and flushes keep their times | 64 timestamps, the wrap 8 after the start, calls 1, 4, 28 (a stall just short of a suspension) or 35 (a suspension) apart, with and without nodelay |
| `MCKTimer` | do timers fire on schedule, is none forgotten, does no thread oversleep | 2 threads, 2 timers of 1 or 3 ms that fire once or every 2 ms, cancelled and deleted at will, 4 ms |
| `MCKTimerLive` | does every timer fire | 2 threads, 2 timers of 1 or 2 ms, 3 ms, no cancelling |
| `MCKcpSession` | is anything lost or displaced between `Kcp::send` and the callback, or left in the socket | a `recvfrom` that fails at any time; 3 messages of 0, 2 or 3 segments |

The bounds are the smallest at which each hazard occurs.  Two segments in
flight are needed to overtake; a window of two and four segments are needed for
the window to close while a segment sent under an older, larger advertisement
is still on its way (`rcv_queue` full, `rcv_buf` not empty); a datagram that is
repeated needs no second repetition, because the state in which it arrives
again is reached anyway.  The `Ikcp` runs repeat only what goes to the writer:
a PUSH arrives twice when it is sent again for a timeout.  `IKCP_WND_RCV` is
never above `rcv_wnd`, as `ikcp_wndsize` ensures.  A message of `IKCP_WND_RCV` fragments or more is
refused, so 2 and 4 fragments around a limit of 3 are enough.  The clock run
keeps the order of the constants of the code (interval, rto, the 10 s of
`ikcp_update`, half a turn of the clock); `MaxXmit` keeps rto below half a turn.
Two threads are the smallest number that can list concurrently, and two timers
are enough for one to be in front of the other.  `CHECK_DEADLOCK FALSE` is
given everywhere because a bounded instance ends when its messages, timers or
time are used up.

`ResendNotLate` and `ProbeInTime` are stated up to the first suspension of half
a turn of the clock (25 days), less an interval: a segment may have been due for
up to an interval when the suspension begins, so that one of half a turn less a
millisecond already makes `resendts` look like a time to come.
`NoOversleep` and `DueTakenInOrder` while no
timer is cancelled: the code does not keep them otherwise.  `EveryMessageArrives` counts the messages that wait whole
in `rcv_queue` with those received: `inputRoutine` takes one for each read event,
and when the peer falls silent the last ones do stay there.  `NoDatagramForgotten`
leaves out the datagrams behind an error of `recvfrom`, until the next one comes
(`cutOff`): the code leaves them there.  `LeftOwesNothing` leaves out the jobs
`stopping()` cannot count (`uncounted`): those scheduled after `stop()`, which
`schedule()` takes although no thread may be left for them; those that called
`Yeild2Ready` (between `kschedule.cpp:174` and 176 they are neither queued nor
counted); and what such jobs schedule.  `ExecSpec` and `EveryJobRuns` are about
the time until a fiber is overtaken in `switchTo`; `StopEnds` takes the failures
at the end of a thread (`fault`) for ends.  `NoSleepOnWork` is stated until a wake-up has fallen into
the one gap it can fall into (between the search of `threadloop` and
`++mIdleThreadCount`), and `EveryJobRuns` shows that the timeout of `epoll_wait`
makes good for it.  `AloneWithSession` and `BoundOrNot` are about sessions for
which `addKcp` returned true once: a second call binds the session to another
thread for a moment, fails with EEXIST and takes away the read event of the
first (the third setup of `MCKcpManager`, where `CountsRegistered` still holds).
`WaitingIsBound` needs a thread that is below its share and has a session of
its own: a thread that has its share does not wake one that sleeps without a
timeout.

Two threads and two jobs are the least with which a job can be bound to the
other thread, be left behind in the queue, or change threads while another is
taken; one yield or switch is enough for most because a job that goes on is
where it was before, and the second setup has two, so that an overtaken fiber
can be in the queue twice.  A run of `IkcpOwner` from the start with windows that
close is out of TLC's reach with liveness.  `MCIkcpOwner` therefore begins in two
states in which three messages were acknowledged; both are reachable from
`OwnerInit` (TLC finds a behaviour to each), and from the second the window of
the receiver closes, with two unread messages in `rcv_queue`.  Two sessions are needed for the limit of `epoll_event_size` and
for a thread to find the events of another.

Every property is shown to be able to fail by a mutant of the code: the
operators named "Mutant" in the modules, which no specification uses.

### Where the code departs from what it says

* `MCKSchedulerSwitch`: `switchTo` queues the running fiber before it has left
  its thread.  The other thread may take it as soon as HOLD is set, before its
  context is saved, and its first thread then writes HOLD over the EXEC of the
  second, against the assertion in `Yeild2Hold`.  It is the only source of such
  failures (`OnlySwitchToFails`).
* `MCKcpManagerUnseen`: `addKcp` does not `tickle`; with all threads asleep and
  no timer set, as in `test_kcp_client.cc` after the manager has started, the
  session is never bound.

Observations that have no run:

* After `ikcp_setmtu` with a smaller mtu (`ikcp.c:1223`) the segments already
  cut for the old one leave in datagrams larger than the new mtu
  (README.md:29 of the repository promises the opposite).
* `ikcp_check` (`ikcp.c:1206`) returns the time of a resend, but `ikcp_update`
  resends only at `ts_flush`: a caller that obeys is told to come back at once
  until then.
* `KTimer::cancel` (`ktimer.cpp:62`) sets the time of a timer inside the ordered
  set to 0; a timer inserted afterwards can end up behind a later one and is
  then listed late.
* One read event passes at most one message on (`kcp.cpp:141`): when two are
  completed by one event and the peer then has nothing to send, the second is
  never passed on.  An empty message, for which `ikcp_peeksize` returns 0, is
  never taken from the queue.
* `inputRoutine` ends at any error of `recvfrom` (`kcp.cpp:118-124`): with an
  edge-triggered socket the datagrams behind it wait for the next one.
* `delKcp` does nothing to a session that is bound, and ends in the assertion of
  `KcpCompare` for one that waits, as does a second `addKcp` for it.
* `addKcp` lets in more sessions than `epoll_event_size` has room for; they wait
  in the queue although it returned true.
* After `stop()` a thread that ever ran a callback fails in `~KFiber`
  (`kfiber.cpp:84`), because `cbFiber->reset(nullptr)` (`kschedule.cpp:197`)
  leaves the fiber READY; and a root fiber that ends does not come back into
  `stop()`, because every `resume()` inside it saves to the same
  `gThreadMainFiber->mCtx` (`kfiber.cpp:118`, 126, 220).  Both are in the model
  (`LoopEnds`), and `StopEnds` names them as ends; they have no run of their own.
* `Yeild2Ready` in a bound job loses the binding (`kschedule.cpp:176`, 193).
* `schedule()` after `stop()` accepts a job that no thread may be left to run
  (`kschedule.h:36-47`).

## 4. Fairness

`IkcpOwner!Fairness`: `inputRoutine` returns (weak), but nothing makes a read
event come.  `ikcp_update` is called for ever by the recurring timer of
`kcpmanager.cpp:143`, and read events, which the same thread runs in order with
it, do not keep it out for ever, so flushes with the oldest segment due and with
the probe due are strongly fair; a datagram leaves the network, by arrival or
loss (weak); and of the datagrams that carry the oldest segment, an
acknowledgement, a probe or its answer not all are lost (strong fairness of
their arrival), which is the least under which any retransmission protocol can
succeed.  There is no fairness of `ikcp_recv`: a message is received at the end
of an `inputRoutine` or not at all.  Strong fairness is written out with
`CanFlush` and `CanArrive` in the place of ENABLED, which takes TLC too long here.

`KScheduler!FairSpec`: each thread runs, a call of `start`, `stop` or
`schedule` that has begun goes on, a fiber ends or yields, and `epoll_wait`
returns after its timeout (all weak).  With `KScheduler::idle` a thread spins,
so nothing else is needed; with `KcpManager::idle` the timeout is there because
the setup has a timer that recurs.

`KcpManager!FairSpec`: each thread runs and its routines return (weak); if
threads wake for ever, each timer of a session is among those due again and
again (strong), which is what `KTimer` shows of it.  A call of `addKcp` need
not go on.

`KTimer!FairSpec`: time passes, a thread that called `tickle` finishes, and
each thread of the manager runs (weak); callbacks return.

## 5. What is proved

Each proof follows one plan.  An inductive invariant, a conjunction of named
parts, is implied by `Init` and kept by every action (one lemma per action, and
in it one step per part the action can disturb); the theorems about the
properties of the runs follow from it.  The inductive invariants were checked by
TLC on instances like those of section 3 before they were proved (without the part
`Types` where it speaks of unbounded sequences).  The assumptions are the named `ASSUME`s of the modules,
which TLC evaluates on every run; what a theorem assumes beyond them is said
below.

**`ArqProofs`**, for every pair of endpoints, payloads, window sizes above zero,
lengths of the streams and numbers of segments in flight.  `InOrder` and
`NothingLost` are not inductive by themselves: a late acknowledgement is
harmless only because its segment is held by the one who sent it
(`AcksAreTrue`), a stored segment only because its payload was the right one on
the wire (`ContentsTrue`), and the cleared `snd_buf` only because `snd_una` is
its least element (`SenderWindow`); `IInv` is the conjunction of those parts.
`MoveLoop` is about the loop that `ikcp_recv` and `ikcp_parse_data` share,
`PushStep` about the receiving half of `ikcp_input`.  Proved: `TypeCorrect`,
`NoLoss`, `Bounded`, `Ordered`, `UnaAhead`; `UnaMonotone`, an action property;
`Implements`, the refinement of `KcpChannel`.  Its last part is about the 32-bit
numbers of `SerialNumbers`: `TrueDifference`, `ReceiveWindowTest`,
`SendWindowTest`.

**`IkcpProofs`**, for all windows with `IKCP_WND_RCV` of at least 1 and
`rcv_wnd` not below it (`WindowSizes`), every mtu larger than a header
(`DatagramHoldsData`), every set of message lengths, both modes and every
threshold and limit (`ParameterTypes`), and any number of messages and datagrams.
The lists of two control blocks, the datagrams between them and the messages of
their owners change in loops; none of the properties is inductive alone.  `IInv`
says that for each endpoint there is one *line*, the sequence of all segments
that got a number (`Lines`).  No variable of the program holds it; a flush makes
it longer and nothing changes it.  It explains everything else (`End`):

* `Snd`, `Rcv`, `Good`: each segment of `snd_buf` and `rcv_buf` is the one the
  line has under its `sn`, the lists are sorted (`Listed`), and `rcv_queue` is
  the piece of the peer's line before `rcv_nxt`;
* `Datagram`: so is each PUSH in flight, however late or often it arrives;
* `Queued`: the line followed by `snd_queue` has the bytes of the messages
  written, and its beginning that the peer has taken those of the messages
  received; without stream mode there are cut points (`Cuts`) between which
  `frg` counts down and the bytes are those of one message;
* `Within`: no `frg` reaches `IKCP_WND_RCV`, so that a full `rcv_queue` holds the
  end of a message, and, in `IInv(TRUE)`, no segment exceeds the mss.

The proof has three levels: what each loop and function of `ikcp.c` does to a
good control block (`FragmentsParts`, `FragmentsBytes`, `SendGood`, `InputGood`,
`RecvGood`, `FlushGood` and the lemmas about their parts); what a step does to
its endpoint and to the peer's (`StepSend`, `StepInput`, ...); and the theorems.
The loops are folds and recursive functions on an interval, so what they do is
proved by induction on their turns (`NatsByInduction`).  Proved:
`ListsStaySorted`, `MessagesStayInOrder`, `BytesStayInOrder` (every byte in its
place, in stream mode too), `FullWindowOpens`, and the action properties
`CongestionWindowStaysOpen` and `DatagramsFit`.  The last assumes
`[][MtuKept]_vars`, that no call of `ikcp_setmtu` makes the mtu smaller: the
code does not cut again what is queued, and then sends datagrams larger than
the new mtu (see section 3).  The other theorems let the mtu change at will.

The last part of the module is about acknowledgements: `AcknowledgedIsHeld`, a
segment that got a number is in `snd_buf` until the peer holds it or has passed
it on (`NothingLost` of the control blocks, with lists, several segments in a
datagram and the early `una`).  Its inductive form `AcksAreTrue` says in
addition that what is in `acklist` is held and that every datagram in flight
tells, in its `una` and its ACKs, only what its sender holds (`Heard`);
`Advances` is what any call may do to the lists of a control block, and the
calls of `ikcp_input`, `ikcp_flush` and `ikcp_recv` are sequences of such steps
(`InputAdvances`, `FlushAdvances`, `RecvAdvances`).  A segment is acknowledged
before it is stored (`ikcp_ack_push` precedes `ikcp_parse_data`), so that inside
a call the acklist is ahead for a moment; `PushAdvances` takes both together.
No run of section 3 lists it, as `Arq` has the same property; TLC found all
three parts of `AcksAreTrue` to hold on the instances of `MCIkcpOrder` and
`MCIkcpMessages`.

**`IkcpClockProofs`**, for every even number of timestamps, interval, limit of
timeouts and set of gaps between calls, as long as an interval is at most
`SlapMax` and that less than half a turn.  `CInv` gives each timestamp the
control block keeps a real time it stands for: `ts_flush` one that is to come
within an interval of the last flush (`FlushAhead`), `resendts` and `ts_probe`
one that no flush has passed over (`ResendDue`, `ProbeDue`).  From `FlushAhead`
two times that the code compares are less than half a turn apart, where
`_itimediff` is their true difference (`TrueDifference`, from the uniqueness of
the remainder).  `FlushesInTime` assumes `GapsShort`: no stall ends less than
`SlapMax` short of a whole turn of the clock.  `ResendsWait` assumes
`TimeoutsFit`: the timeouts, doubled at each sending, stay below half a turn,
which holds for 15 sendings with the constants of `ikcp.c`; the code itself has
no such limit.  `ResendsInTime`, `ProbesInTime` and `ChecksInTime` need neither.

**`KTimerProofs`**, for every set of threads, number of timers, delays and
periods (`TimerBounds`).  The set is a sequence; `KInv` says that a timer is in
one place at a time (`Distinct`) and stays there until it has fired or is
deleted (`Kept`), that the timers taken from the set are due and in the hands of
the one thread with the lock (`Listing`), that a timer's time is the one its
schedule gives it (`InTime`), and that the sequence is sorted until a timer is
cancelled (`Sorted`).  `NoOversleep` needs in addition that `mTickle` is set only
while a wake-up is on its way or some thread has yet to look at the set
(`TickleOnItsWay`).  `TakesAllDue` is an action property.

**`KcpSessionProofs`**, for every pair of windows, capacity of the socket and
number of messages, with a receive window of at least `IKCP_WND_RCV`
(`SessionSizes`), as `ikcp_wndsize` ensures.  `SInv` says that the stream of
segments is that of the messages `ikcp_send` accepted, one after the other with
`frg` counting down (`Segmented`), and that what was received ends with a whole
message and has been called in order (`Called`).  `recvfrom` may fail at any
time: `ReadsAll` says that nothing else leaves a datagram without an event.
`CallbacksInOrder` says it of each callback and its message: it is the message
sent under that number, numbers increase, and no accepted one is skipped.

**`KSchedulerProofs`**, for every finite set of threads, jobs, setups and bound
on the yields, with `schedule` called at any time.  `SInv` holds whatever is
overtaken: the place of a thread in `threadloop` determines whether it has a job
(`Holding`); once an idle fiber has ended `stopping()` was true (`WasStopping`),
so that whatever waits or runs since is a job it could not count (`EndsLast`,
`ReadyYielded`); and while a job waits some thread is awake, about to call
`tickle()`, or will find the event (`WorkIsSeen`).  `Counted`, `LeavesNothing` and
`NeverAllAsleep` follow.  `NoSleepOnWork` is stated with at least one worker,
because `schedule()` does not `tickle` for a pool without threads of its own
(`kschedule.h:50`).

`JInv` ties the state of a job to the place of the one thread that has it, and
holds until `overtaken`: a job that waits while a thread has it is in EXEC,
which the search passes over, or its thread is in the gap after HOLD
(`Leaving`), and taking it is what `overtaken` records (`ScanJobs`).  From
`UntilOvertaken` follow, without a further assumption, `ImplementsExecutor`
(every step is one of `KExecutor` or none, until then), `OnlySwitchToFails` (no
assertion on the state of a fiber fails before) and `YieldsInExec` (the
assertions of the yields in particular).  `MCKSchedulerSwitch` shows that what
they leave out does happen.

**`KcpManagerProofs`**, for every set of threads, sessions and setups.  `MInv`
says for each step of `addKcp`, of the binding with its two failures and of the
routines which of registration, context, timer and counter are there; a session
that one thread has in hand is in no other thread's queue or hands.  Sessions
added twice stay in the model: `CountsRegistered` is proved with them too.

**`SequenceFacts`** has what these proofs share: `Min` and `Max` of sets of
numbers, removals and insertions, the beginnings, ends and prefixes of
sequences, and `FlattenSeq`.  Induction over naturals is done there with the
least counterexample (`MinOfNats`, `NatsByInduction`).

Only checked by TLC:

* liveness (`EveryMessageArrives`, `EveryTimerFires`, `EveryJobRuns`,
  `StopEnds`, `WaitingIsBound`, `OutputGoesOn`), which needs fairness and
  ENABLED;
* `ArqSpec`, the refinement of `Arq` by `Ikcp`.  It holds step by step only
  where a step of `Ikcp` is one step of `Arq`: a datagram there carries one
  segment, while `ikcp_input` handles all of a datagram at once, so that in
  general one step of `Ikcp` is several of `Arq`.  The run `MCIkcpOrder` is such
  an instance (datagrams with room for one segment, no stream mode).  What the
  refinement would give, order and no loss, is proved of `Ikcp` directly.

## 6. Not modelled

* Stacks and contexts of fibers (`makecontext`, `swapcontext`): what they keep
  is the program counter, which `at` stands for.  What a program does after an
  assertion has failed or a context that is gone was entered (`fault`), or with a
  stack that two threads run after an overtaking, is undefined.
* `KFiber::back`, a `Yeild2Hold` without a `schedule` (the fiber is gone unless
  its owner keeps it), `start()` after `stop()`, a second `stop()`, and a
  `stop()` before `start()` has returned.
* In `KcpManager::idle` an error of `epoll_wait` other than EINTR, which ends the
  idle fiber, and with it the thread, while work may be left
  (`kcpmanager.cpp:210-213`), and the yield for EINTR (204), after which the
  thread looks for a job and then waits again with the old timeout.
* `Thread::join` and names; `contextResize`; the WRITE event and the fiber of a
  context, which nothing installs; the states INITED and REMOVE, which no entry
  that `idle()` reaches ever has; the lifetime of a `Kcp` object.
* `KTimer::reset`, `setCallback`, `addConditionTimer`, copies of a `KTimer`:
  nothing in the repository calls them.
* `rto` beyond 2^31 and the 16 bits of the window on the wire; `ikcp_nodelay`,
  `ikcp_interval`, `ikcp_wndsize` after the start; malformed datagrams.
* Byte encoding, allocation, logging, the tests and the benchmark.

## 7. The plan

Done in the order of importance: protocol, its proof, control block, clock,
timers, session, scheduler, manager, and all safety properties of all of them
proved, `ArqSpec` apart.  Left:

* a version of `Arq!Input` that takes a whole datagram, which `Ikcp` would
  implement for every mtu and in stream mode;
* `ikcp_setmtu` with a smaller mtu: how long datagrams stay too large (until
  what was cut before has been acknowledged);
* rto beyond half a turn of the clock (`ikcp.c:1063`);
* the error of `epoll_wait` that ends a thread (`kcpmanager.cpp:210`), and the
  failures at the end of a thread as findings of their own.
