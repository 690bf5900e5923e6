# TLA+ models of the thesis_green_lib synchronization server

`src/main.c` is an seL4 root task. It starts a number of client processes
(the `sel4test-tests` program, which is not in this repository) and then acts
as a synchronization server for them. The clients talk to it over one seL4
endpoint, `env.endpoint`. The other files under `src/` are generated seL4
headers.

The build is chosen by preprocessor flags:

| flag | choices |
|---|---|
| threading | `GREEN_THREAD`: N cooperative green threads on one seL4 thread. `SEL4_THREAD`: N preemptive seL4 threads. |
| workload | `CONSUMER_PRODUCER`: a bounded buffer. Otherwise the `WAIT`/`SEND_WAIT` lock handoff. |
| handoff primitive | `THREAD_LOCK`, `THREAD_SEMAPHORE`, `THREAD_CV` |
| seL4 reply path | `SEL4_GREEN`: saveCaller into a slot, then `seL4_Send`. `SEL4_SLOW`: `seL4_Reply`. `SEL4_FAST`: `seL4_ReplyRecv`. |

## 1. Inventory

### Parts and how they interact

* **Clients.** Each client process does `seL4_Call(INIT)`, then a series of
  `seL4_Call(PRODUCER)` or `seL4_Call(CONSUMER)`, then `seL4_Send(TMNT)`
  (spec.md 4.5). Their code is not here, so they are modelled from the spec.
* **Dispatch loop.** This is `server_loop`. In the green build (938-970) it
  receives a message, calls `process_message` and acts on its result:
  * 1: `seL4_Send` on the thread's saved slot;
  * 0: `seL4_ReplyRecv`;
  * -1: no reply.

  The seL4-thread `server_loop` (1387-1442) answers along one of the three
  seL4 reply paths.
* **Handlers.** `process_message` has one case per label (INIT, PRODUCER,
  CONSUMER, TMNT, IMMD, WAIT, SEND_WAIT). It comes in four versions:
  * green CP: 558-725;
  * green handoff: 727-933;
  * seL4 CP: 979-1185;
  * seL4 handoff: 1189-1381.
* **Continuation store.** A handler that answers later moves the kernel's
  caller cap into a cspace slot with `vka_cnode_saveCaller`. `reply_eps[id]`
  records the INIT slot of each client. `seL4_Send` on the slot answers the
  client and uses up the cap. Saving into an occupied slot fails with
  `seL4_DeleteFirst`.
* **Client registry and barrier.** These are `initial_client`,
  `client_barrier` and `client_num`, all in `lib_test.h`, which is not here.
  When the last INIT arrives, the handler answers `reply_eps[0]` itself and
  `process_message_multicast` (459-474) answers ids 1..N-1.
* **Bounded buffer.** `buffer` is capped at `buffer_limit`.
  * Green build: `lock_global` plus the green sleep lists `producer_list` and
    `consumer_list` (`thread_sleep`/`thread_wakeup`).
  * seL4 build: the mutex `lock_global` plus two seL4 notifications
    (`seL4_Wait`/`seL4_Signal`). A notification is one bit plus a queue of
    waiters, so signals sent while nobody waits merge.
* **Termination.** Each TMNT increments `terminate_num`. The handler tests
  `terminate_num == client_num` to end the benchmark. In the green build the
  handling green thread also exits.

### What makes it hard

* **Preemptive threads (seL4 build).** The buffer is protected by the mutex,
  but `terminate_num++` and `wait_count++` are not. There is a window between
  `sync_mutex_unlock` and `seL4_Wait` in which a signal can arrive and merge
  with another.
* **Green build.** Scheduling is cooperative, but a green thread blocked in
  `seL4_Recv` blocks all of them. A woken sleeper only runs when the running
  thread sleeps or exits.
* **Deferred replies.** Every deferred reply must go through the right saved
  cap. A stale cap in a slot makes the next save fail and misroutes the
  reply.

The hazards are listed in `PROJECT.json`, each at its source line.

## 2. Modules

| module | models | source |
|---|---|---|
| `CPClients` | the clients, the endpoint queue, the barrier test `BarrierReached`, the ready payload, and the properties the clients see | spec.md 4.5 (clients), 459-474 (payload) |
| `GreenCPServer` (EXTENDS `CPClients`) | the GREEN_THREAD + CONSUMER_PRODUCER server | 558-725, 938-970, 1547-1649 |
| `MCGreenCPServer` | model values and small configurations for TLC | |
| `Sel4CPServer` (EXTENDS `CPClients`) | the SEL4_THREAD + CONSUMER_PRODUCER server | 979-1185, 1387-1508 |
| `MCSel4CPServer` | model values and configurations | |
| `BoundedBuffer` | the abstract consumer/producer service both CP servers are shown to implement | spec.md 4.3, 4.5 |
| `HandoffClients` | the WAIT/SEND_WAIT clients and the endpoint queue, shared by both handoff servers | spec.md 4.5, 7 |
| `GreenHandoffServer` (EXTENDS `HandoffClients`) | the GREEN_THREAD build without CONSUMER_PRODUCER: WAIT/SEND_WAIT handoff over `sync_prim` | 727-933, 938-970, 1547-1649 |
| `MCGreenHandoffServer` | model values for three clients and three green threads | |
| `Sel4HandoffServer` (EXTENDS `HandoffClients`) | the SEL4_THREAD build without CONSUMER_PRODUCER, read with `server_loop`'s call fixed (see below) | 1189-1381, 1387-1442, 1446-1470 |
| `MCSel4HandoffServer` | three clients and three seL4 threads | |
| `Handoff` | the abstract WAIT/SEND_WAIT service `GreenHandoffServer` is shown to implement | spec.md 4.1, 4.5 |
| `Word32` | a `seL4_Uint32` as the set of its 1 bits: shifts, masks, the generated `get`/`set` field accessors | `shared_types_gen.h`, `types_gen.h` |
| `MessageInfo` (EXTENDS `Word32`) | `seL4_MessageInfo_t`: `seL4_MessageInfo_new` and the get/set accessors of its four fields, as 32-bit operations, with an arithmetic reference | `shared_types_gen.h` 124-300 |
| `MCMessageInfo` | arguments at every field's edges (no run uses it; `MCGeneratedTypes` checks the same values) | |
| `CapData` (EXTENDS `Word32`) | `seL4_CapData_t`: the Badge and Guard variants, their constructors and accessors, the tag in bit 31 | `types_gen.h` |
| `MCCapData` | words at the edges of every field and of the tag (no run uses it) | |
| `Fault` (EXTENDS `Word32`) | `seL4_Fault_t`: twelve words, the five variants, `_new`, `_ptr_new` and every field accessor | `sel4_arch/types_gen.h` |
| `MCFault` | the all-zero and the all-ones word (no run uses it) | |
| `PrioProps` (EXTENDS `Word32`) | `seL4_PrioProps_t`: `new` and the accessors of `mcp` (bits 8-15) and `prio` (bits 0-7) | `shared_types_gen.h` 12-116 |
| `CapRights` (EXTENDS `Word32`) | `seL4_CapRights_t`: `new` and the accessors of the three one-bit rights; main.c copies caps with `seL4_AllRights` | `shared_types_gen.h` 324-473 |
| `MCGeneratedTypes` | the five generated types in one model: a behaviour picks one type and runs it, the others stay at their all-zero `new`, so the state space is the sum of the five | |

### `GreenCPServer`

* **State.**
  * `caller`: the seL4 thread's caller cap.
  * `cnode`: slot -> client whose reply cap it holds.
  * `tslot`: `pool->t_running->t->slot`.
  * `reply_eps`.
  * the counters `client_num`, `arrived`, `terminate_num`.
  * `buffer`.
  * `ts`: the state of each green thread.
  * `running`.
* **Steps.** A handler segment between two yield points is one action, since
  nothing else runs on the seL4 thread meanwhile.
  * `HandleInit`: the whole INIT case, with the barrier broadcast.
  * `HandleProducer`/`HandleConsumer`: the request, then the save and either
    the first sleep or the produce/consume with its wakeup and
    `server_loop`'s `seL4_Send`.
  * `ResumeProducer`/`ResumeConsumer`: a woken thread re-tests the buffer.
  * `HandleTmnt`: the count, then `thread_exit`.
  * `StartThread`.
  * `Schedule`: the library switching threads after a sleep or an exit.
* **Not modelled.** `lock_global` is never contended between yield points,
  so it is not modelled. `wait_count` and the timing code are left out.

### `Sel4CPServer`

* **State.**
  * `pc`, `msg` and `rcap` per thread.
  * `held`: the holder of `lock_global`.
  * `note`: bit and waiter queue of each notification.
  * `buffer`.
  * `slots`/`reply_eps`.
  * the counters.
  * `tmp`: the value a thread loaded for `terminate_num++`.
  * `finalized`: how often the end test succeeded.
  * `wait_count`, `wtmp`: the counter a thread bumps after each `seL4_Wait`
    returns (line 1065, outside `lock_global`), and the value it loaded;
    `waits`: how many `seL4_Wait`s have returned. They change only when the
    constant `CountWaits` is TRUE, so the large safety run is not widened by
    them.
* **Steps.** One action per statement that touches shared state:
  * `RecvInit`, `Barrier`, `RecvRequest`;
  * `Lock`: lock plus the while test, since the test is under the lock;
  * `Unlock`, `Wait`;
  * `Put`: `buffer++` plus `seL4_Signal`;
  * `Reply`: unlock plus the reply;
  * `RecvTmnt`, then `LoadTerminate`/`StoreTerminate`: `terminate_num++` split
    into its load and store;
  * `TestTerminate`: the compiler may test the value it stored or reload it,
    so both are allowed.
  * `LoadWaitCount`/`StoreWaitCount`: `wait_count++` after a `seL4_Wait`,
    split the same way.
* **Reply paths.** The three reply paths answer the same client, through the
  thread's own cap. `RecvRequest` models the `SEL4_GREEN` save with its
  DeleteFirst case. Every path ends in a send that consumes the cap
  (`Reply` clears `rcap`), so that case is never reached, and the
  DeleteFirst hazard applies to the green build only.

### `GreenHandoffServer`

* **State.** It reuses the green continuation store (`caller`, `cnode`,
  `tslot`, `reply_eps`) and the counters. It adds:
  * `held`: `sync_prim->held` for `THREAD_LOCK` (created held, line 1635),
    or the count for `THREAD_SEMAPHORE`;
  * `sleepers`: the green threads asleep on `sync_prim`.

  Its own client state is `sent`, the number of SEND_WAITs sent.
* **Clients.** They come from `HandoffClients`. The client program is not
  in the repository. Per spec.md 4.5 and 7, each client sends INIT, then
  WAIT, then `Rounds` SEND_WAITs, then TMNT. With `EveryClientWaits` FALSE only the client with id 0 sends WAIT;
  the others start with SEND_WAIT.
* **Steps.**
  * `HandleInit`: the barrier answers only `reply_eps[0]`.
  * `HandleWait`: `process_message_multicast` to ids 1..N-1, then the save
    into the thread's slot, then `Finish` (acquire `sync_prim`, or sleep).
  * `HandleSendWait`: the save, then the release (`Release`, which wakes a
    sleeper if there is one), then `Finish`.
  * `Resume`: a woken thread holds `sync_prim`; `server_loop` sends on its
    slot.
  * `HandleTmnt`, `StartThread`, `Schedule`.
* **The primitive.** Its library is not in the repository. It is modelled
  from spec.md 4.3: a release hands on to a sleeper if there is one; with
  none, a lock is freed, a semaphore counts up, and a cv signal is lost.
  Under the client protocol above, every release finds exactly one sleeper,
  so lock, semaphore and cv give the same 113,001 states (checked by swapping
  `Primitive` in the cfg). For the same reason the immediate-acquire branch
  of `Finish` is never taken.
* **Slot aliasing.** INIT saves each caller into
  `pool->t_running->t->slot`. The thread that handled the last INIT keeps
  that slot, and it is also `reply_eps[N-1]`. Every WAIT repeats the
  multicast.

### `Sel4HandoffServer`

As written, this build does not compile. `server_loop` (line 1404) calls
`process_message(info, &slot, &reply, sync_prim, lock)`, the
consumer/producer signature, but this `process_message` has no slot
parameter. The model reads the call without `&slot`; that is the one change
that makes the build compile. Every other line is modelled as written.

* **State.**
  * `pc` and `rcap`: each thread's position and its own caller cap.
  * `slots` and `reply_eps`: the INIT slots by id.
  * `stranded`: the clients whose cap was saved into a slot that no code
    sends on.
  * `prim`: `sync_prim`, as a bit or count plus a waiter queue.
  * The registry counters.
* **The primitive.** `THREAD_LOCK` is a libsel4sync mutex: a notification,
  where unlock is `seL4_Signal` and lock is `seL4_Wait`. `THREAD_SEMAPHORE`
  is a counting semaphore. libsel4sync is not in the repository. The main
  thread takes `sync_prim` in `sel4_threads_initial` and never gives it
  back.
* **Steps.** Each step is one statement that touches shared state:
  * `RecvInit`, then `Barrier`;
  * `RecvWait`, then `Lock`;
  * `RecvSendWait`, then `Unlock`, then `Lock`;
  * `Reply`;
  * `RecvTmnt`.
* **Reply paths.**
  * `ReplyPath = "slow"` (`SEL4_SLOW` or `SEL4_FAST`): the reply goes
    through the thread's caller cap.
  * `ReplyPath = "green"` (`SEL4_GREEN`): WAIT multicasts to ids 1..N-1.
    The handlers save the caller into a local slot. `server_loop` then sends
    on its own slot, which is empty, so no WAIT or SEND_WAIT is ever
    answered.
* **Left out.** `THREAD_CV` is not modelled. It waits with a `bin_sem` the
  handler never took, and its library is not here.

### Refinement: `BoundedBuffer`

`BoundedBuffer` is the service the clients see:
* the INIT barrier releases everybody at once (`Ready`);
* a waiting PRODUCER or CONSUMER request is served in one step (`Serve`),
  and only when the buffer is not full (or not empty).

Each CP server defines `AbstractBuffer == INSTANCE BoundedBuffer WITH ...`
and checks `ImplementsBoundedBuffer == AbstractBuffer!Spec` as a PROPERTY.
* **Green.** The mapping is the identity, because a handler segment moves
  the buffer and sends its reply in one step.
* **seL4 threads.** A thread between `Put` and `Reply` has moved the buffer
  but not yet answered. The mapping (`absCst`, `absGot`) counts its client
  as served, so `Put` is the abstract `Serve` and `Reply` is a stutter.

### Refinement: `Handoff`

`Handoff` is what the handoff server promises its clients, with no green
threads, reply caps or primitive:
* `Register` gives ids in arrival order, and the last INIT releases id 0;
* `AcceptWait` blocks the sender and releases every client still waiting on
  an INIT with an id other than 0;
* `AcceptSendWait` is possible only while some client is blocked, and it
  releases exactly one of them as the sender blocks.

`GreenHandoffServer` checks `ImplementsHandoff == AbstractHandoff!Spec`. In
the mapping, `absBlocked` is the set of clients whose green thread sleeps on
`sync_prim`. A thread that has been woken but has not yet sent on its slot
counts as having released its client (`absCst`, `absGot`), so `Release`
is the abstract step, and the later `Resume` is a stutter.

### `CapData` and `Fault`

These are the other generated tagged unions the server builds: the badge
minted into each test process's endpoint cap (line 403), and the fault
message whose label `run_test` compares with `seL4_Fault_NullFault`
(line 335). Both use `Word32`. As in `MessageInfo`, `Init` builds a word
with a constructor, `Set` applies a setter of the word's own variant, and
the ghost `fields` holds what each getter should read back.
* **CapData.** It holds one word with the tag in bit 31. Badge is bits 0-27;
  GuardBits is bits 8-25 and GuardSize bits 3-7. The two variants overlap.
* **Fault.** It holds twelve words, with the tag in bits 0-2 of word 0. Every
  field is a whole word. The model also has `Renew`: `_ptr_new` builds a new
  fault, of any variant, in storage that already holds one.

### `PrioProps` and `CapRights`

Both are one-word types built like `MessageInfo`: `Init` calls `new`
with arguments from `Values`, `Set` applies one field's setter, and the
ghost `fields` holds the argument cut to the field's width.

### `MessageInfo`

Every message the server receives is dispatched on
`seL4_MessageInfo_get_label(info)`, and every reply is built by
`seL4_MessageInfo_new`.

* **Representation.** A `seL4_Uint32` is modelled as the set of its 1 bits
  (TLC's integers stop at 2^31 - 1). So `&`, `|` and `~` are intersection,
  union and complement in 0..31, and `<<` drops the bits that pass bit 31.
* **State.** The state is one word. `Init` builds it with `new`, and `Set`
  applies a field setter.
* **Reference.** The ghost variable `fields` holds what each field should
  read back, computed by arithmetic: the argument mod 2^width.

## 3. Runs

| run | cfg | expect | what it shows |
|---|---|---|---|
| `green_cp` | `MCGreenCPServer.cfg` | pass | Two producers (1 request each), one consumer (2), 3 green threads, `buffer_limit` 1. It checks `TypeOK`, `BufferAccounting`, `NoLostWakeup`, `ReadyReleasesEveryClient`, `ReplyMatchesRequest` and `EveryRequestAnswered`. 19,239 states. |
| `green_ready_payload` | `MCGreenCPServer_payload.cfg` | violation | The multicast sends (i, 0), not the (index, 1) of spec.md 8. |
| `sel4_cp_safety` | `MCSel4CPServer_trio.cfg` | pass | Two producers (2 each), one consumer (4), 3 preemptive threads, `buffer_limit` 2. It checks `TypeOK`, `BufferAccounting`, `ReplyMatchesRequest`, `ReadyReleasesEveryClient` and `NoHang`. 1.59M states, about 1m40s. |
| `sel4_cp_liveness` | `MCSel4CPServer.cfg` | pass | One producer and one consumer (2 each), 2 threads, `buffer_limit` 1, `wait_count` counted. It checks `EveryRequestAnswered`. 6,753 states. |
| `green_handoff` | `MCGreenHandoffServer.cfg` | pass | `THREAD_LOCK`, three clients, three green threads, three SEND_WAITs each, only id 0 sends WAIT. It checks `TypeOK`, `ReplyMatchesRequest`, `ContinuationIntact`, `WaitersReleased` and `ImplementsHandoff`. 113,001 states, about a minute. |
| `green_handoff_every_client_waits` | `MCGreenHandoffServer_all.cfg` | violation | `ReplyMatchesRequest`, with every client starting with WAIT, as spec.md 4.5 (SEND_WAIT requires a previous WAIT) and 7 (SEND_WAIT before WAIT is a protocol violation) describe. The second WAIT's multicast sends on `reply_eps[2]`, the slot of the thread that handled the last INIT, which now holds the first WAIT's reply cap. That client is released without the lock. |
| `green_handoff_termination` | `MCGreenHandoffServer_term.cfg` | violation | `EveryClientTerminates`. The client whose SEND_WAIT is the last one sleeps on `sync_prim` with nobody left to release it. It never sends TMNT, against spec.md 4.1. |
| `sel4_terminate_race` | `MCSel4CPServer_term.cfg` | violation | `TerminationDetectedOnce`. Two threads handle the two TMNTs, both load 0 and store 1, and `terminate_num == client_num` never holds. |
| `sel4_cp_liveness_trio` | `MCSel4CPServer_trio_live.cfg` | pass | Producer p1 with 2 requests, p2 with 1, one consumer with 3, 3 preemptive threads, `buffer_limit` 1. p1's second request and p2's can both queue on `producer_list`, so two threads wait on one notification. It checks `BenchmarkEnds`. 768,574 states, about 3.5 minutes. |
| `generated_types` | `MCGeneratedTypes.cfg` | pass | `FieldsRoundTrip`, `CapDataRoundTrip`, `FaultRoundTrip`, `PrioPropsRoundTrip` and `CapRightsRoundTrip`, each on its type's edge values: for message info 0, 1, 3, 4, 7, 8, 127, 128, 2^20-1, 2^20 and 2^32-1; for cap data single bits at every field edge and at bits 27, 28 and 31, low runs, all ones and the even and odd bits; for faults every variant with all-zero or all-ones words, rebuilt in place; for priorities 0, 1, 255, 256, 0x5555, 0xaaaa and 2^32-1; for rights 0-3 and 2^32-1. 3,336 states, about 15s. |
| `sel4_handoff_ready` | `MCSel4HandoffServer.cfg` | violation | `ReadyReachesEveryClient` under `SEL4_SLOW`/`SEL4_FAST` with `THREAD_LOCK`. The barrier answers only `reply_eps[0]`, and no code answers ids 1 and 2, so those clients stay in `seL4_Call`. Client 0's WAIT blocks on `sync_prim`, which the main thread holds. 250 states. |
| `sel4_wait_count_race` | `MCSel4CPServer_waits.cfg` | violation | `WaitCountExact`. Two threads return from `seL4_Wait` together, both load the same `wait_count` and store the same increment, so one wait is lost. spec.md 5 says shared state is protected by `lock_global`. |

### Properties

* `BufferAccounting`: the buffer equals the answered (and, for seL4, the
  in-flight) PRODUCER requests minus the CONSUMER ones. It ties the buffer to
  the replies clients got, so a reply without a buffer move, or a move
  without a reply, breaks it.
* `NoLostWakeup` (green): while a thread sleeps on a list, every item or free
  place has a woken thread on its way to use it.
* `ReplyMatchesRequest`: a client is only ever woken by the answer to the
  request it waits on.
* `ReadyReleasesEveryClient`: spec.md 8's at-most-one broadcast. Once any
  client has had a reply, no client is still to send INIT or blocked in its
  INIT call. The barrier must open at the Nth arrival, and the one broadcast
  (the send on `reply_eps[0]` and the multicast to ids 1..N-1) must reach
  every saved reply cap. Its mutants drop the send on `reply_eps[0]`.
* `NoHang` (seL4): before the benchmark is over, some step is always
  possible. This is the safety form of "no thread is stranded on a
  notification".
* `BenchmarkEnds` (seL4, three threads): every behaviour reaches the state
  where every client is done and every thread is back in `seL4_Recv`. With
  finite work this implies `EveryRequestAnswered`, since a client is done
  only after each call returned. It is one temporal formula, where the
  per-client leads-to is one tableau check per client; that costs more than
  five minutes on three threads, this one about 3.5 minutes. `wait_count` is not
  counted there (`CountWaits` FALSE); the two-thread run counts it.
* `PrioPropsRoundTrip`: `mcp` and `prio` read back their argument cut to
  8 bits, and no bit above 15 is set.
* `CapRightsRoundTrip`: each right reads back its argument's low bit, and no
  bit outside bits 0-2 is set.
* `EveryRequestAnswered`: every `seL4_Call` is eventually answered.
* `ImplementsBoundedBuffer` (CP): the server refines `BoundedBuffer`.
* `ContinuationIntact` (handoff): while a thread sleeps on `sync_prim`, or
  has been woken and has yet to reply, its slot still holds the reply cap of
  the waiting WAIT or SEND_WAIT client.
* `FieldsRoundTrip` (message info): every getter reads back what `new` or
  the last setter put in its field, cut to its width, whatever the other
  fields hold.
* `WaitersReleased` (handoff): a blocked client is eventually released. The
  one exception is the last SEND_WAIT, once every other client is done.
* `ImplementsHandoff` (handoff): the server refines `Handoff`. Every wakeup
  hands the lock to a blocked client, and nothing releases a client
  otherwise.
* `CapDataRoundTrip`: the tag still names the variant, and every getter of
  that variant reads back its field cut to its width. No argument reaches the
  tag, and no field reaches another.
* `FaultRoundTrip`: the tag, every field, and zero in every word the variant
  does not use. Nothing of an earlier fault survives `_ptr_new`.
* `ReadyReachesEveryClient` (seL4 handoff, violated): every client's INIT
  is eventually answered, as spec.md 4.5 and 8 require. With
  `ReplyPath = "green"` it holds (1,750 states, checked by changing the cfg).
* `WaitCountExact` (seL4, violated): `wait_count` equals the returned waits,
  apart from the increments in flight.

Each property of a passing run has a mutant in `PROJECT.json`: a variant of
one handler, the way a plausible bug would change it, under which TLC finds
the property violated.

### Bounds

The bounds are small but every interesting case happens:

* the buffer is full and empty;
* threads sleep on both lists, and in `sel4_cp_liveness_trio` two threads
  queue on `producer_list` together;
* there are more threads than one, and more clients than threads are busy;
* the barrier fires with the last of three arrivals;
* two TMNTs race.

Three clients are the fewest that give a multicast recipient with id ≥ 1
besides client 0, and two requests of one kind that can contend.

### Fairness

* **Green.**
  * `WF(ServerStep)`: the seL4 thread runs while one of its green threads
    can.
  * `SF(Schedule(r))`: the library's ready list is served in turn, so a
    thread that is runnable at every switch gets one.
* **seL4.**
  * `WF` per thread: the kernel schedules every runnable thread.
  * `SF(Lock(t))`: `sync_mutex` is a notification, and its waiters are woken
    in turn.
* **Clients.** `WF` per client: each keeps running its program.

### Deadlock

Both CP systems really stop, once every client has sent TMNT. The handoff
system stops with the last SEND_WAIT client blocked (the
`green_handoff_termination` finding). The green builds also exit a thread
per TMNT. So the cfgs say `CHECK_DEADLOCK FALSE`. In its place:
* `NoHang` states that the seL4 CP build does not stop before that point;
* `EveryRequestAnswered` covers both CP builds;
* `WaitersReleased` covers the handoff build.

## 4. Not modelled, and the plan

* **seL4 handoff build, `THREAD_CV`:** not modelled (see `Sel4HandoffServer`).
  The build itself does not compile as written; the model reads
  `server_loop`'s call without its extra argument.
* **`sync_prim` as a stack local** (1459, 1468): the seL4 threads keep the
  address of a local of `sel4_threads_initial` after it returns. The model
  takes it to stay valid.
* **The client registry and barrier** (`initial_client`, `client_barrier`,
  `client_num`, `CLIENT_MAX`): defined in `lib_test.h`, not in the
  repository. Each is one atomic step, as spec.md 4.4 and 5 describe. In the
  seL4 build the INIT handler calls them with no lock held (988, 1003); a
  racy body would go unseen.
* **Client processes:** modelled from spec.md 4.5, since their code is not
  here.
* **Not modelled at all:**
  * bootstrap, process spawning, ELF loading, serial and timer set-up, and
    the benchmark timing code: platform I/O;
  * `IMMD`: the clients do not send it;
  * `wait_count` in the green builds: there, no two green threads run at
    once;
  * the dangling `*reply = &temp` pointer (642-643 and its copies): it is read
    before the stack frame is reused, so the build's outcome is the intended
    reply.
