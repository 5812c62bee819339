# everscale-client-php-ext: specifications and proofs

The extension gives PHP scripts asynchronous access to the TON SDK, a binary
library with threads of its own. A script starts a request, the SDK delivers
the events of the request by calling back on one of its threads, and the
script fetches them from a blocking queue. The hard part is what the two sides
share: the queue, and a small struct per request that has no lock.

Paths below are relative to the repository: `rpa_queue.c`, `rpa_queue.h` and
`ton_client.c` are in its `src/`.

## Inventory

| Component | State | Operations | Interacts through |
|---|---|---|---|
| `rpa_queue` (`rpa_queue.c`) | ring `data`, `in`, `out`, `nelts`, `bounds`; `full_waiters`, `empty_waiters`; `terminated`; a mutex and two condition variables | create, push, timedpush, trypush, pop, timedpop, trypop, size, interrupt_all, term, destroy | called by the SDK's threads (push) and the PHP thread (pop, size, term) |
| Request data (`ton_client.c:30-45`) | `id`, `queue`, `finished`, `unused`, `last_status`, `joined_to` | created by `ton_request_start`, freed by `ton_request_data_free` | pointer given to the SDK, to the PHP resource, to queue elements, to other requests by join |
| Handler (`:110-140`) | none; runs on an SDK thread | look at `unused`, resolve `joined_to`, write `finished`, push | calls `rpa_queue_push`, which may block |
| Script functions (`:240-455`) | `TON_REQUEST_NEXT_ID` | start, id, next, join, disconnect, is_finished, last_status | read and write the request data without a lock |
| Release (`:75-108`, `:153-167`, `:471-477`) | list `unused_requests`, whose nodes live as long as one script (`:495`) | resource destructor, RSHUTDOWN | frees the data the handler may still use |
| Synchronous API (`:170-238`) | none | create_context, destroy_context, request_sync | SDK |
| Deadlines (`rpa_queue.c:78-109`) | none | get_current_timespec, get_future_timespec | timed push and pop |
| Installer (`installer.php`) | files: extension, ini files, backups | install, test, restart | file system, php binary |
| Build scripts, CI, debug macros, vendored pthread headers, test stubs | none at run time | | |
| TON SDK | external | calls the handler | `tonclient.h` |

What is hard, and for each part what makes it correct:

- **Queue.** Threads meet between the unlocked look at `terminated` and the
  lock, between a signal and the moment the signalled thread has the mutex
  again, and between the two critical sections of `rpa_queue_term`. A signal is
  sent only when a counter says someone waits. Correct means: a bounded FIFO in
  which every call takes effect once, no wakeup is lost, term releases everybody.
- **Requests.** `finished`, `unused` and `joined_to` are plain fields written
  by one thread and read by another. Correct means: nothing is used after it
  was released, nothing is released twice, every event reaches the script once
  and in order, `finished` tells the truth.
- **ZTS builds.** The id counter and the list of unused requests are statics,
  shared by all PHP threads. Correct would mean unique ids and that each thread
  cleans its own requests.
- **Deadlines.** Correct means a normalised `timespec`, not before now, for
  every wait the caller can pass.
- **Installer.** Correct means that a failed step leaves the previous
  installation usable.

`PROJECT.json` lists every hazard at its line, with the properties that would
catch it.

## Modules

| Module | Models |
|---|---|
| `QueueCalls` | the calls a thread may make on a queue: operation, wait mode, argument, result |
| `BoundedQueue` | abstract: a bounded FIFO sequence, each call with one linearisation point |
| `RpaQueue` | `rpa_queue.c`, one action per step between two accesses to shared state |
| `MCRpaQueue` | adds symmetry for TLC |
| `RpaQueueProofs` | theorems about `RpaQueue` |
| `RpaQueueRefinement` | theorem: `RpaQueue` implements `BoundedQueue` |
| `EventStream` | abstract: per request, a stream of numbered events received once and in order |
| `TonRequest` | the asynchronous part of `ton_client.c`, non-thread-safe build |
| `MCTonRequest` | adds symmetry for TLC |
| `TonRequestProofs` | theorems about `TonRequest`: types, ownership, the flag, safety without joins |
| `TonStreamProofs` | theorems about `TonRequest` and careful scripts: the refinement of `EventStream` |
| `TonJoinProofs` | theorems about `TonRequest` with joins |
| `Deadline` | `get_current_timespec`, `get_future_timespec` and the narrowing of the timeout in `ton_request_next`, as operators |
| `QueuedRequest` | one request over the full queue: `ton_client.c` and `rpa_queue.c` together, step by step, with deadlines, to the release |
| `MCQueuedRequest` | the timeouts and clocks TLC tries |
| `QueuedRequestProofs` | theorems about `Deadline`, the queue inside `QueuedRequest` and its release |
| `QueuedRefinement` | theorem: `QueuedRequest` implements `TonRequest` |
| `RangeLemmas` | lemmas on the elements of a sequence |
| `ZtsRequests` | the two statics that the PHP threads of a ZTS build share |

### RpaQueue

`data`, `nelts`, `in`, `out` and `terminated` are the fields of the struct.
`full_waiters` and `empty_waiters` are `waiters["push"]` and `waiters["pop"]`.
`owner` is the holder of `one_big_mutex`, and the threads with `pc = "wait"`
are those inside `pthread_cond_wait` on `not_full` or `not_empty`, by their
operation. push and pop have the same shape in the code and share the actions
`Enter` (with the look at `terminated` before the lock), `Lock`, `Accept`,
`Sleep`, `GiveUp`, `Timeout`, `SpuriousWake` and `Reacquire`; `Store` and
`Fetch` are the two sections that move an element and signal. `trypush` and
`trypop` are calls with wait `"none"`: they never sleep, everything else they
do is the same. `rpa_queue_term` is `SetTerminated`, `Drop` and then the steps
of `rpa_queue_interrupt_all`, in the two critical sections of the code.

A signal wakes one sleeper chosen by the scheduler, a signal without sleepers
is lost, and a woken thread has to compete for the mutex with newcomers. That
is why the second test of the code (`rpa_queue.c:221`, `:349`) is modelled as
the `if` it is.

`Timeout` ends a bounded wait. With `LateTimeouts` it may do so also after the
waiter was signalled (`MayExpire`), as POSIX lets `pthread_cond_timedwait` report a
timeout and consume a signal sent at the same moment. Such a call fails without
another look at the queue (`rpa_queue.c:343`).

Left out: pthread calls that fail on valid objects; `rpa_queue_size` (an
unlocked read of `nelts`, which appears in `TonRequest`); `rpa_queue_create`
with a failing allocation; `rpa_queue_destroy`, which is a step of
`QueuedRequest`. A thread in two sets
(`Producers`, `Consumers`, `Controllers`) may make the calls of both, one at a
time.

### TonRequest

`mem` is the state of the `ton_request_data_t` of a request: not yet created,
live or freed. `finished`, `unused`, `joined_to` and `queue` are its fields.
Each queue operation is one step here, which is what `RpaQueue` implementing
`BoundedQueue` and `QueuedRequest` implementing this module justify, with one
exception kept in full: a push into a full queue sleeps (`blocked`), is woken by
a pop or by term, and looks at the queue once more before it fails.

The handler is split at every access to shared memory: `Callback` (reads
`unused`), `Resolve` and `Follow` (the two reads of `joined_to`; a compiler may
merge them, so `Follow` may use either value), `Flag` (writes `finished`),
`Push`, and `Report` for the debug output that reads the queue once more. The
PHP thread is split where it reads shared fields one after another
(`IsFinished_Size`/`IsFinished_Flag`, `Close`/`MarkUnused`/`Release`) and where
it blocks (`Next_Wait`). `RShutdown_Clean` runs `ton_request_data_free` for one
element of `unused_requests`. A script may end with resources still open, and PHP
closes these after RSHUTDOWN (`phase = "closing"`, `CloseRest`).

`unused_requests` is a static and `nodes` is what becomes of its nodes: they are on
the heap that PHP gives back when a script is over (`ton_client.c:495` makes the
list with `persistent = 0`), so `NextScript` empties `nodes` and leaves
`unused_requests` as it is, head and tail of the list. `MarkUnused` links to the
last node and `RShutdown_Clean` walks from the first, so both need the list to be
whole (`ListIntact`).

A bounded `ton_request_next` that has gone to sleep ends with an element
(`Next_InTime`) or without one, even if there is one by then (`Next_TimedOut`); a
signal does not decide between the two. One without a bound is woken by a push
(`Next_Woken`).

A step that would follow a pointer to released memory, or NULL, has no successor.
`HandlerSafe`, `ElementsSafe` and `CleanupSafe` say that no such step is ever next. The run
`request_any`, whose scripts give no such guarantee and may also wait for ever,
switches the deadlock check off.

What scripts do is the parameter `Policy`. Without any member, a script closes
a request only when it has received the event with `finished = true` from it
(and from everything joined to it), and has closed all of them when it ends.

| Member | Lets scripts |
|---|---|
| `"join"`, `"disconnect"` | call `ton_request_join`, `ton_request_disconnect` |
| `"ask"` | call `is_ton_request_finished` |
| `"poll"` | call it, and close a request once it returned true |
| `"abandon"` | close a request at any time |
| `"leave"` | end with requests open that it was allowed to close |
| `"block"` | call `ton_request_next` without a timeout |

Assumed of the SDK, whose source is not in the repository: it calls the handler
of one request sequentially, on threads of its own, and not again after a call
with `finished = true`. Left out: `last_status`, the JSON and its status, the
id, `tc_request_ptr` calling the handler before it returns on the same thread.

### Deadline

A timeout arrives as a 64-bit integer and is narrowed to an `int`
(`ton_client.c:315`): `Narrow`, by its low bits. 0 and -1 of the narrowed value
choose `RPA_WAIT_NONE` and `RPA_WAIT_FOREVER` (`WaitFor`); every other value is
a bounded wait, for which `get_future_timespec` adds whole seconds and the
remaining milliseconds to the clock and carries once. Division is C's, towards
zero, so that a negative wait has a negative remainder. The clock is any member
of `Clocks`, a set of valid timespecs. The width of an `int` is the constant
`IntLimit`, 2^31 in the code; a call without a timeout counts as -1.

### QueuedRequest

`RpaQueue` lets any thread make any call. Here its two callers are the ones the
extension has: the handler on the SDK's thread, which pushes, and the PHP
thread, which pops in `ton_request_next` and terminates, drains and destroys
the queue in `ton_request_data_shutdown_queue`. Each action is a step of
`RpaQueue` (`Q!...`) joined with what the caller does at that step, or a step of
the caller alone:

- `Running`, `Sleep` and `SpuriousWake` are inside a queue function. `Sleep` of a
  bounded pop computes its deadline, since that is where the code reads the clock.
- `Push_Enter`, `Push_Store`, `Push_Leave` are `rpa_queue_push` as the handler
  sees it, `Next_Enter`, `Next_Fetch`, `Next_Leave` the pop of
  `ton_request_next`.
- `Term_*`, `Drain_*` and `Destroy` are the release. The loop at
  `ton_client.c:84` is `Drain_Enter`/`Drain_Leave` until a pop fails.
- `IsFinished_Size` reads `nelts` without the mutex, as `rpa_queue_size` does.

`slept` is a history variable: the threads whose present queue call has been
asleep. The mapping to `TonRequest` (`T`) needs it, to tell a push that goes
straight through from one that was woken; no action reads it. The mapping puts
a push or a pop at the step that stores or fetches, the start of a wait at
`Sleep`, and a failure at the step that gives up; a bounded wait of the script is
one state of `TonRequest`, asleep or signalled. The script is a careful one,
and does not join: `TonRequest` is where the others are.

### ZtsRequests

A ZTS build of PHP runs scripts on several threads of one process. The id counter
and the list of unused requests are plain statics (`ton_client.c:27-28`).
`TON_REQUEST_NEXT_ID++` is a read (`Start_Read`) and a write (`Start_Write`).
`zend_llist` is PHP's, outside the repository; it is modelled as what its use
here relies on, a linked list with head and tail, appended to in
`ton_resource_destructor` and walked, freed and reset by RSHUTDOWN
(`Add_*`, `Clean_*`). A worker cleans when its script holds no resource any
more, and `Clean_Element` has no successor when the element or its data was
freed by another worker: `CleansOnce` says that such a step is never next. The
nodes of the list are on the heaps of the threads that added them, which the
model does not follow: its runs end at the first use of a freed element.

## Runs

| Run | Instance | Shows |
|---|---|---|
| `queue_safety` | 3 threads, of which 2 push and 2 pop, one also terminates; capacity 2; 2 values; spurious wakeups, late timeouts | `TypeOK`, `RingConsistent`, `CopyIsServed`, `WaitersCounted`, `NoSleepPastTerm`; the ring implements `BoundedQueue` (`ImplementsBoundedQueue`) |
| `queue_liveness` | 3 threads, capacity 1, no late timeouts, fair | `NoLostWakeup`, `TermReleasesEverybody`, `BoundedCallsReturn`, `NoStandstill` |
| `request_careful` | 2 requests, 3 events each, capacity 2, careful scripts that also ask and leave requests open, fair | `TypeOK`, `HandlerSafe`, `NothingLeftBehind`, `EventsArrive`; implements `EventStream` (`ImplementsEventStream`) |
| `request_join` | 2 requests joined in every way (to each other and to themselves included), capacity 2, spurious wakeups | `HandlerSafe`, `ElementsSafe` |
| `request_abandon` | requests closed at any time, debug build, fair | `FinishedIsFinal`, `HandlerReturns` |
| `request_any` | closed, joined and disconnected at any time before the script ends, blocking reads, spurious wakeups, capacity 1, 2 events | `ReleasedOnce`, `EventsOnce` |
| `request_released` | 1 request, closed at any time, debug build | **violated**: `ReleasedAfterHandler` |
| `request_left` | 1 request, left open when the script ends | **violated**: `CleanupSafe` |
| `request_join_finished` | 2 joined requests | **violated**: `ToldOnlyIfFinal` |
| `request_queue` | 1 request, 3 events, capacity 1, spurious wakeups, late timeouts, 7 timeouts, 3 clocks, fair | `TypeOK`, `QueueReleasedQuiet`, `DeadlineExact`; implements `TonRequest` (`ImplementsTonRequest`); `EventsReachScript` |
| `zts_ids` | 2 PHP threads, 2 requests | **violated**: `IdsUnique` |
| `zts_cleanup` | 2 PHP threads, 2 requests | **violated**: `CleansOnce` |

`queue_safety`, `queue_liveness`, `request_careful`, `request_join` and
`request_abandon` check for deadlock. `request_any` and `request_queue` do not:
there a script may be through with its request, or wait for ever for an event
after the last.

### Bounds

- *Threads of the queue.* With three threads two can sleep on one side while
  the third signals, two can race for the mutex after one signal, and a
  terminator can interrupt any of it. The theorems cover any number.
- *Capacity.* 2 lets the ring go round while partly filled, 1 makes full and
  empty adjacent. The code's 1024 (`CALLBACK_QUEUE_CAPACITY`) is a parameter.
- *Requests.* Two are needed for joining; three would only lengthen the chains,
  since the handler follows `joined_to` once.
- *Events.* `MaxEvents` exceeds `Capacity` in every run in which the queue must
  fill up, so handlers block.
- *The composition.* One request is all a careful script's queue ever serves.
  With capacity 1 and three events the handler sleeps in front of a full queue,
  the script in front of an empty one, and the ring goes round more than once.
- *Timeouts and clocks.* No wait, for ever, half a second, one and a half,
  minus one and a half, and two that do not fit an `int` (one becomes -1); the
  clock at the start, in the middle and at the last nanosecond of a second, so
  that the nanoseconds add up to just below, exactly and above a second.
  `IntLimit` is 4096 in the run and arbitrary in the proofs.
- *ZTS.* Two threads and two requests are the least that can collide.

### Disagreements found

- `ton_client.c:95` skips the release of a request that is not finished, to
  avoid a crash. But `finished` is written at `:136`, before the event is
  pushed, so between the two a request closed by the script is released under
  the handler. Scripts that close a request only after they have *received* the
  last event never meet this; that is `HandlerAlwaysSafe` below. In a debug build
  they do: there the handler prints the size of the queue after its push
  (`:138-139`), when the script may already have received the event and closed
  the request (the action `Report`).
- `ton_client.c:474` cleans up unused requests, on a list made at `:495` with nodes
  that do not outlive a script. A request that a script leaves open and
  unfinished is put on it after RSHUTDOWN has cleaned it; the next RSHUTDOWN, or
  the next request put on the list, follows a node that is gone (`request_left`).
  A script that closes its requests before it ends is safe: `OwnershipCorrect`.
- `README.md:186` says that `is_ton_request_finished` is true if the request
  has been finished. The handler of a joined request writes its `finished` into
  the request it is joined to.
- `README.md:101` calls `ton_request_id` a unique identifier and `README.md:195`
  names thread-safe builds as supported. There the counter is a plain static:
  two scripts that start requests at once may get the same id.
- The same line of the README, and the list of unused requests: two RSHUTDOWNs
  walk one list, and the second meets elements the first has freed.

More is visible in the models and has no run of its own. Where a property is named,
TLC refutes it with those values:

- A woken handler that finds its queue full again fails, and nobody looks at
  the result of `rpa_queue_push` (`ton_client.c:137`): its event is lost. It takes
  a joined request whose handler arrives first and takes the room (`Policy`
  `{"join"}`, capacity 1), against `README.md:140`, or a spurious wakeup.
- The loop at `ton_client.c:84` is to free the elements of a queue, but runs after
  `rpa_queue_term` and so pops nothing. A script that closes a request because
  `is_ton_request_finished` returned true runs into it: the size is read before
  `finished` (`:426-427`), and the last event may be queued in between
  (`NothingLeftBehind` with `Policy` `{"poll"}`).
- A timeout that does not fit an `int` waits another time than asked, or for ever
  (`Narrow`).
- A bounded pop that times out although it was signalled leaves without a look
  at the queue, and another popper sleeps on in front of the element
  (`NoLostWakeup` with `LateTimeouts`). A request has one popper, so this takes
  another user of the queue.
- `rpa_queue.c:306` promises that a pop blocks until an element is available, but a
  popper that is woken and finds none returns false. With one popper only a
  spurious wakeup does this.
- `README.md:160` says that no more events are received after a disconnect, while
  a handler that had already read `joined_to` still delivers one, or finds NULL at
  its second read (`HandlerSafe` with `Policy` `{"join", "disconnect"}`).
- A request whose last event went to the one it was joined to has `finished` set
  there and not in its own data. It is put on the list of unused requests
  when it is closed, passed over by RSHUTDOWN, and never freed.

### Fairness

`RpaQueue` assumes weak fairness of the steps of a running thread and of its
deadline, and strong fairness of taking the mutex: a POSIX mutex that is free
again and again is eventually granted to a thread that keeps asking under any
fair scheduling policy. No thread has to call. `TonRequest` assumes weak
fairness of the SDK's threads and of the PHP thread once it is inside the
extension, and, for the two liveness properties, that the script goes on asking
each request it holds for events (strong fairness of `Next_Pop`, since the
script alternates between requests and a timed call may find the queue empty).
That a script keeps reading is what those properties are conditional on, not
something the code guarantees. The SDK is never obliged to call.
`QueuedRequest` combines the two: weak fairness of the callers' steps, strong
fairness of the steps that may need the mutex (`Running`), and strong fairness
of `Next_Enter`, the script that goes on asking besides asking whether the
request is finished. Spurious wakeups are possible but never fair.

## Proofs

All for every number of threads, requests and events and every capacity, from
`QueueAssumption` (positive capacity, finitely many threads, `Nobody` and
`NoValue` are distinct from the rest), `SpuriousAssumption`,
`RequestAssumption`, and for the composition `QueuedAssumption`,
`ValueAssumption` and `IntAssumption`.

**RpaQueueProofs.** `TypeOK` is not inductive: that `nelts` does not pass
`Capacity` needs that a thread at `copy` still finds room, which needs that
nobody else is in the critical section. `Inv` therefore joins

- `MutexHeld`: exactly the owner of the mutex is at `test`, `copy`, `drop` or
  `unlock`, so there is one such thread at most;
- `CallsInStep`: what a thread is calling fits where it is;
- `CopyIsServed`, `RingConsistent`, `WaitersCounted` and `TypeOK`.

`InvHolds` proves `Spec => []Inv`, one step per action; `TypeCorrect`,
`RingCorrect`, `CopyCorrect` and `WaitersCorrect` are its parts. Going round the
ring is three lemmas on `Wrap`.

`NobodySleepsPastTerm` and `NoWakeupIsLost` are inductive relative to `Inv`.
The second is the interesting one. A signal goes out for each element while
`waiters > 0`; because `waiters` counts also those already woken, and a popper
that is not asleep may take the element, the statement is about *claims*: while
someone sleeps, the elements are no more than the threads on their way to take
one (`NextCovered`, by cases on who is woken). It has the hypothesis
`~LateTimeouts`: a thread that times out after it was signalled gives its claim up.
The other theorems allow it.

**RpaQueueRefinement.** `QueueImplements` proves `Spec =>
ImplementsBoundedQueue`, the refinement that lets the rest of the project treat
a push or a pop as one step. Its two lemmas on data are that storing appends to
`Items` (`StoreAppends`) and that fetching takes the head (`FetchTakes`), which
follow from the arithmetic of `Wrap` and `CopyIsServed`; `StepRefines` then says
for each action which abstract step it is.

**TonRequestProofs.** `TypeCorrect` holds for any script. `HandlerAlwaysSafe`
assumes `Careful` (no join, no poll, no abandon, no debug build) and proves
`Spec => []HandlerSafe`. The argument: the event a handler has in hand is
younger than every event in the queue or with the script (`Younger`), so once
the script has the last event no handler is at work (`LetGoIsDone`), and only
then is the request let go (`Kept`).

`OwnershipCorrect` proves `ReleasedOnce` for scripts that are `Tidy`: they close,
join, disconnect and abandon as they like but hold nothing open when they end,
or they are careful and read to the end what they leave open. A request passes
from the resource to the function that releases or marks it, and from there to
nobody or to `unused_requests`: `ReleasedOnce` alone forgets the request in hand,
and that what is freed is held nowhere. That the list never leads to a node that
is gone needs `CleanedInTime`: nothing is put on it once RSHUTDOWN has begun. For a
careful script that leaves requests open, this rests on `LifeInv` and `FlagInv`:
what PHP closes after RSHUTDOWN is finished, so it is freed and not listed
(`CarefulCloseFrees`). Without `Tidy` the statement is false, as `request_left` shows.

`FlagCorrect` proves `FinishedIsFinal` for scripts that do not join, and may
abandon a request at any time. It needs that a handler works on the request it
was called for (`Unjoined`), the one thing a join changes: with joins the
property is false, which is what the run `request_join_finished` shows.

**TonStreamProofs.** Careful scripts again. Handler and script meet in a queue
that is in order (`Sorted`) and empty once the youngest event has been received
(`Drained`); with `Kept` this gives `NothingIsLeftBehind`.

`RequestsAreStreams` proves `Spec => ImplementsEventStream` from `Careful` and
`~SpuriousWakeups`. `StreamInv` adds that what was received, followed by what is
queued, is 1, 2, 3, ... without a gap up to the last event the handlers are
done with (`InOrder`), that a handler is woken only when its queue has room
(`Smooth`), and that the script reads only from a request it holds (`Reading`).
`StepStreams` is the refinement, by cases on the step. The second hypothesis is
needed: a push that wakes without a signal in front of a queue that is still
full fails, and its event is gone, so with `SpuriousWakeups = TRUE` and capacity
1 TLC refutes the refinement. POSIX allows such wakeups, so this theorem, and
`request_careful`, say what the extension does on a system that has none. Under joins
the handler of another request can take the room in the same way. `HandlerAlwaysSafe` and `NothingIsLeftBehind` do not depend on it.

**TonJoinProofs.** `EventsAreNotRepeated` proves `EventsOnce` for any script,
joins and disconnections included. Each event is in one place: with its handler,
in one slot of one queue, or with the script. `OnceInv` says that what is queued
or received is older than what the handler has in hand (`Fresh`), that two slots
hold different events, also slots of two queues (`Apart`), and that queued
events have not been received (`Unread`), nor received ones twice (`GotOnce`).
Order is lost under joins; this is what remains of it.

`HandlerSafeWhenJoined` and `ElementsSafeWhenJoined` are for scripts that join in
any way but are `Patient`: they do not disconnect, close a request only after
the last event of it and of everything joined to it, and the build is not a
debug build. `JoinInv` is:

- `OwnOrJoined`: a handler works on its own request or on the one that is joined
  to, and both exist;
- `KeptWhileJoined`: a request that is let go has been received to the end, and
  so has everything joined to it; what RSHUTDOWN or the destructor has in hand
  is let go;
- `Increasing`: within one queue the events of one request are in order;
- `Elsewhere`: an event in the queue of another request is there because of
  the join, is younger than those of its request that went to its own queue
  before the join, and while it is there the last event has not been received;
- `NoneElsewhere`: a handler on its way to its own request's queue has left no
  event in another.

So a request whose handler is at work, or of which an event is queued elsewhere,
has not been received to the end (`BusyIsNotReceived`, from `Fresh`), and hence
neither it nor the request it delivers to is let go. Requests joined to
themselves and chains of joins are covered, since the handler follows
`joined_to` once. The hypothesis is needed: with `"disconnect"` the second read
of `joined_to` may find NULL, and with `"poll"` the flag of a joined request
lets the script close the other too early; TLC finds `HandlerSafe` violated with
either.

**QueuedRequestProofs.** `QueueInvariant`: every step of the composition is a
step of `RpaQueue` with `Producers`, `Consumers` and `Controllers` set to its two
threads (`StepOfQueue`), so everything proved about the queue holds inside a
request. `FutureIsExact`: for every clock and every `int`, the deadline is
exactly that many milliseconds later, and normalised if the wait is not
negative. `DeadlinesExact` carries this to the sleeping pop, whatever the
handler does meanwhile.

`ReleasedQuiet` proves `Spec => []QueueReleasedQuiet`:
at `rpa_queue_destroy` nobody is inside the queue. Neither a lock nor a flag of
the code says so, and `QueueReleasedQuiet` is far from inductive. `ReleaseInv`
adds that the event in hand is younger than every other until it is stored, and
than every one received until the handler is through (`Younger`), that the queue
is in order (`Sorted`), that nothing is behind the youngest event (`Drained`), and
that the request is let go only after the last event (`Kept`). The step that
matters is the fetch: the PHP thread holds the mutex, so by `MutexHeld` the SDK's
thread is not between its store and its unlock, and whatever is fetched then is
either older than the event in hand or belongs to a push that has returned.
`QueuedTypeCorrect` completes the invariants of the run `request_queue`.

**QueuedRefinement.** `QueuedImplements` proves `Spec => ImplementsTonRequest`
for any capacity and any number of events, with spurious wakeups, timeouts and
any clock. It needs `ReleaseInv` and two facts more: `Within` (the handler waits
without a deadline, the PHP thread makes the calls of the function it is in, and
nobody terminates a queue while the handler uses it) and `Slept` (the history
variable is right about the present call). Entering and leaving a queue function
maps to nothing (`DoorsStutter`), a store or a fetch to the push or the pop, with
the wakeup it causes (`StorePushes`, `FetchPops`; that a sleeper is there implies
that `waiters` counts it, `SleeperCounted`), going to sleep and giving up to the
corresponding steps (`SdkInside`, `PhpInside`). Together with `QueueImplements`
this closes the gap between the code's critical sections and the steps of
`TonRequest`.

**Checked by TLC only.** Liveness under fairness (`EventsArrive`,
`HandlerReturns`, `EventsReachScript`, `TermReleasesEverybody`,
`BoundedCallsReturn`, `NoStandstill`), which is out of the prover's reach. Every
invariant and every refinement of the passing runs has a theorem. Where a
theorem has a hypothesis on `Policy`, `TonDebug`, `SpuriousWakeups` or `LateTimeouts`, the run
that checks the property has the same.

## Not modelled

- *Creation that fails.* `rpa_queue_create` may fail half way; its result is
  ignored (`ton_client.c:43`), so what follows is undefined behaviour in every
  interleaving, and no text of the repository says anything of it.
- *Leaks.* `rpa_queue_destroy` frees neither the array nor the mutex and the
  condition variables. The models keep no ledger of allocations.
- *The synchronous API* keeps no state and hands strings on.
- *The installer* is a sequential script over the file system, outside the
  extension. Its hazards are listed in `PROJECT.json`.
- *Joins and reads under ZTS*, and the macros of PHP's thread-local cache.
- *Build scripts, CI and vendored headers* have no behaviour at run time of their
  own. The three `.phpt` tests call functions the extension does not define.

## Plan

Done: `QueueCalls`, `BoundedQueue`, `RpaQueue`, its runs, invariants and
refinement; `EventStream`, `TonRequest`, its runs, the proofs of its invariants,
with joins and without, and of its refinement; `Deadline`, `QueuedRequest`, its
run, the proofs of its invariants and of its refinement; `ZtsRequests`.

Left:

1. What remains of the order of events under spurious wakeups: an abstract
   stream that may lose an event, refined by `TonRequest` without the hypothesis
   `~SpuriousWakeups`.
2. `HandlerSafe` with disconnections: the weakest rule for scripts under which
   it holds.
3. In `ZtsRequests`, what holds if only one thread at a time is in the
   functions that use the statics.
