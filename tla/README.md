# A verification development for isp-imx

`isp-imx` drives the image signal processor of the NXP i.MX 8M Plus: a kernel
register interface (`vvcam`), a stack of C units over an OS abstraction
(`units`), the C++ interface `cam_device` on top of them, the dewarp engine
(`dewarp`) and a media server that a V4L2 driver talks to (`mediacontrol`).
This directory holds TLA+ models of the parts of it whose difficulty is order
and concurrency, the TLC configurations that check them on small instances, and
proofs, checked by TLAPS, of what holds for every instance.

Contents: 1 inventory, 2 modules and their code, 3 runs and bounds, 4 fairness
and assumptions, 5 proofs, 6 disagreements with the code's own comments,
7 hazards no property covers, 8 not modelled, 9 what could come next.

## 1. Inventory of the system

Paths are relative to the repository's `src/`; `O` stands for
`units/oslayer/source`.

| component | state | operations | what makes it correct |
|---|---|---|---|
| OS layer: semaphore, `O/oslayer_linux.c` | counter, mutex, condition variable | init, wait, timed wait, try wait, post | hands out as many permits as were posted; no sleeper next to a permit |
| OS layer: event | flag, mutex, condition variable | signal, reset, pulse, wait, timed wait | a signal before, during or at the timeout of a wait is not lost; an automatic event releases all waiters |
| OS layer: thread | exit event, handle, wait count | create, wait, close | joined once; nothing destroyed in use |
| OS layer: queue, `O/oslayer_generic.c` | ring, two pointers, two semaphores, mutex | (timed, try) write and read | a bounded first-in first-out channel |
| MIM control, `units/mim_ctrl` | state, command queue, picture pointer, DMA result | init, start, stop, load picture, shut down; handler thread; DMA completion callback | every accepted command completed once; a transfer only when asked for; no freed context under a transfer; shutdown returns |
| CIM control, `units/cim_ctrl` | state, command queue, sensor handle | init, start, stop, register sensor, shut down; handler thread | the same, for several clients |
| BufSync control, `units/bufsync_ctrl` | state, command queue, one buffer per side, exit flags, callback | init, start, stop, (de)register callback, shut down; two queue threads, handler thread | a buffer is locked while anybody uses it, and given back once; shutdown returns |
| MOM control, `units/mom_ctrl` | state, command queue, empty and full buffer queues of five paths, attached queues, callbacks | start, stop, attach and detach queues, (de)register callbacks, shut down; handler; interrupt callbacks | a buffer has one owner; none is lost or announced twice; a STOP empties the paths, a START fills them |
| DOM, VOM, XOM controls | state, command queue, full-buffer queue | start, stop, attach, detach, shut down; handler | as above; the rest is drawing and display I/O |
| `cam_device` buffer I/O, `units/cam_device/source/commitf` | per output chain: state, queue of events, queue of pictures, buffer locks | init, start, attach, detach, stop; callback of the engine; wait for an event, take a picture, give a buffer back | an event for each picture; no buffer filled while it is used; stop returns |
| `cam_device` camera engine interface | six automatic events, a queue of one | blocking calls over asynchronous completions | a blocking call ends when its completion comes; the engine is a binary |
| `ebase` lists and queue; `common` picture buffers, fixed point; `cam_calibdb` | linked lists, records | sequential | results of pure operations |
| `ibd`, `i2c_drv`, `mipi_drv`, `fpga`, `isi`, `cameric_reg_drv` | registers, pixels | register sequences | hardware I/O |
| `dewarp` driver, `dewarp/hal` | FIFOs of buffers, run mode, frame-done semaphore | start, stop; request thread, stream thread | a picture is complete when it is handed over; a stop is final |
| media server, `mediacontrol` | pads with lists of buffers, module threads, FIFOs, reference counts | start, stop, queue a buffer; loop thread, buffer callback, threads for events and for queued buffers | a buffer has one holder and comes back; pictures in order; events are handled |
| `units/aaa`, `bufferpool`, `cam_engine`, `cameric_drv`, `hal`, `som_ctrl`, `scmi` | binaries | | modelled only by what their callers and headers show |

**Interaction.** Every control is a *command service*: a call of its API tests
the state of the context, without a lock, and puts a command into an `osQueue`;
a handler thread reads the queue, tests the state again, acts, and answers with
the client's completion callback, from its own thread. Interrupt callbacks of
the closed drivers send commands to the same queue. ShutDown is the exception:
it sends a command, waits for the handler thread with `osThreadWait`, cancels
what is left in the queue and frees the context. `cam_device` turns the
completions into blocking calls with automatic `osEvent`s. Buffers pass from
pool to control to callback by pointer, with a lock count in the pool.

In the media server a START creates the chain *ISP output chain -> NativeSensor
-> NativeDewarp -> DewarpDriver -> V4l2Control*. A picture moves along it through
a queue of the chain, the sensor's loop thread, the list of the dewarp's pad, a
FIFO of the driver and the driver's request thread; in the callback that hands
the finished picture on, that thread also gives the source buffer back, through
the pad and the sensor, to the ISP. START, STOP and queued buffers come from the
kernel in two threads and are handled under one mutex; nothing else in the
chain is under it.

**Hard behaviours.** The guard and the command of a call are two steps, so the
state may change between; completions and interrupt callbacks overtake calls;
timeouts race wakeups; ShutDown waits for a thread that must first be able to
leave its loop; a buffer has up to three users at once. `hazards` in
`PROJECT.json` lists them one by one, with their lines and properties.

## 2. Modules and the code they model

`map` in `PROJECT.json` gives the lines of each definition.

* **`OsSemaphoreOps`, `OsEventOps`** — a semaphore or an event as a record
  and each critical section of its mutex as an operator. A wait is two steps
  because `pthread_cond_wait` gives the mutex up: falling asleep (`Sleep`,
  `Asleep`), and coming back (`Resume`, `Returned`). Threads are `blocked` or,
  once the condition has been signalled to them, `signalled` (`woken`). The
  wait tests its condition with an `if`, once; this is modelled as written.
  A timed wait that expires first leaves the condition's queue (`Lapse`), then,
  with the mutex, looks at the counter or the flag again (`Expire`), so a post
  may fall between.
* **`OsSemaphore`, `OsEvent`** — these operators with threads that call:
  one action per function up to its return or sleep, one for each return.
  `ret` and `unseen` are history variables.
* **`OsThread`** — a thread, its automatic exit event, and joiners inside
  `osThreadWait`: the first section of `access_mut` (`CountIn`), the wait for
  the event, the second section (`CountOut`), in which the last waiter joins
  while it still holds the mutex (`access_mut` names the holder). `osThreadClose`
  is the same call followed by the destruction. Counter, handle and event are
  the fields of the C structure.
* **`OsQueue`** — the ring over the semaphore operators. A call passes its gate
  (the wait on `ItemsFreeSema` or `ItemsUsedSema`), reserves a slot under
  `AccessMutex`, copies *after releasing it*, and posts the other semaphore.
  All six calls are actions, by mode: blocking, timed, try.
* **`OsFifo`** — what the queue promises: `Put`, `Get`, delivery. `OsQueue`
  implements it under the mapping `Contents`: the posted items and those whose
  reader has passed its gate but not copied yet, from the oldest slot on. An
  item enters the channel when the writer posts and leaves it when the reader
  copies.
* **`CommandService`** — what a control promises: an accepted command is
  answered once, and the context goes away only when all are. `MimCtrl`,
  `CimCtrl`, `BufSyncCtrl` and `MomCtrl` each implement it.
* **`MimCtrl`** — client, handler, DMA engine and callback. A call is its guard
  (`MimCtrlStart`, ...) and then `MimCtrlSendCommand`. The handler has a step
  for reading, one for the `switch`, one for the state it sets after a pending
  transfer (`HandlerWait`) and one for the completion, because the callback can
  fall between any two of them. `StoreResult` is the store to `dmaResult` after
  the command has been sent. `owed` and `told` are history: pictures accepted
  and not begun, and the state the completions have told.
* **`CimCtrl`** — the same with several clients, whose guards and sends
  interleave; its `Start` and `Stop` answer a refused command too.
  `RegisterSensorDrv` runs in the caller's thread, in three steps that may fail.
* **`BufSyncCtrl`** — producers, two queue threads, handler, client. `locks`
  counts the locks on each buffer; `held` is `QueueCtx[i].pBuffer`. The handler
  takes a pair under both buffer locks (`Pair`), calls the callback under the
  callback's lock (`CallBack`), and gives the buffers back (`ReturnPair`).
  Destruction is a loop of steps per side, as in the code.
* **`MomCtrl`** — client, handler, the callbacks of the MI driver and the users
  of full buffers, with the pool, the empty and full queues, the attached queues
  and the callbacks of each path. A callback tests the state (`DriverEvent`),
  then writes to `FullBufQueue` (`FullWrite`), then sends its command
  (`FullSend`), and the others may move in between; START and STOP go path by
  path and buffer by buffer (`fill`, `flushFull`, `flushEmpty`). START makes
  exactly `NumBuffers` tries per path (`FillOne`), and one that finds the pool
  empty is used up, though users free buffers all the while. Freeing a buffer is
  three steps: the pool has it (`Freed`), the pool's notification tests the state
  (`Notified`), and one free buffer is queued (`Refill`). Driver and pool
  are binaries, modelled by the calls `mom_ctrl` makes and receives. `lost`,
  `left`, `late` and `missed` are history: where a buffer goes that nobody holds,
  what a freed context still had, what a STOP cannot see, and how many buffers
  were freed while START was at their path or past it.
* **`DewarpDriver`** — request thread (`RequestLoop` to `CallbackReturns`),
  stream thread, the thread in start or stop, and the hardware as the driver sees
  it. The wait for a frame ends by a permit (`FrameDone`) or after 1000 ms
  (`FrameTimeOut`); `slow` remembers the latter.
* **`IspChain`** — what an output chain promises to the module that takes its
  pictures. **`OutputChain`** — `Xom` and the `Citf` functions, with the engine's
  callback thread, the sensor's loop thread, the thread that gives buffers back,
  and the caller of start and stop; it implements `IspChain`. Where the code
  would use what was never initialised (`FullBufWrite`), an old pointer
  (`CitfDQBUF`) or freed memory (`XomQBUF`), the outcome is a choice.
* **`MediaStream`** — extends `DewarpDriver` with the sensor, the pad, the
  control and the kernel's events, and uses the chain as `IspChain`. It is a
  composition in both directions: `UsesDriver` says that a stream, seen through
  the driver's variables, is a behaviour of `DewarpDriver`, so what is shown of
  the driver holds in the stream; `UsesChain` says that it keeps to `IspChain`,
  which `OutputChain` implements. The sensor's loop tests `bRunning`
  (`LoopTests`) before it waits for an event, and takes a picture that comes in
  time (`LoopTakes`) also when the sensor has been stopped since. A search of
  the pad's list that another thread tears (`torn`) may find its buffer or miss it. `FrameFlow` is the abstract
  specification of the order of pictures.
* **`MC*`** — the modules TLC is given, one per specification; the
  configurations give the constants. Definitions whose comment says *faulty
  variant* are plausible mistakes in the definition below them; nothing uses
  them but `PROJECT.json`, where each property is paired with one that breaks it.
* **`*_proofs`** — the theorems and their proofs (section 5).

The controls use the queue as the channel of `OsFifo`: a send is one step that
needs room. This composition is justified for one writer and one reader
(`Channel` and the theorems on `OsQueue`). Where a control's queue has more than
one writer (the client and an interrupt callback, or several clients), the models
of the controls assume a queue that works and so say nothing about the two
disagreements on `osQueue` of section 6; they check the control's own logic.

## 3. Runs, bounds and what they show

| run | instance | states | shows |
|---|---|---|---|
| `semaphore_one_taker` | 1 taking thread, any number of posters, limit 30 | 278 | no overdraw, no lost wakeup |
| `queue_one_writer_one_reader` | 3 slots, 2 items | 8 222 | exclusive copies, conserved permits, writes return, refinement of `OsFifo` |
| `event_automatic` | 3 waiters | 7 560 | nobody asleep at a set flag, a signal releases all waiters |
| `thread_join_together` | 3 joiners | 758 | one join, destruction only of what is unused |
| `mim_client` | queue of 2, 2 pictures, a client that may stop without waiting | 1 454 | state as told, transfers as asked, no freed context under a transfer, shutdown returns, refinement of `CommandService` |
| `mim_outcome` | queue of 2, 2 pictures | violation | a failed transfer completed with success |
| `cim_two_clients` | 2 clients, queue of 1 | 2 144 | state as told, shutdown returns, refinement of `CommandService` |
| `bufsync_buffers` | 2 sides with 2 buffers each, queue of 1 | 156 103 | locked while owned, no orphan, shutdown returns, refinement of `CommandService` |
| `mom_paths` | 1 path, 2 buffers, queue of 2, attached queue of 2; stops, starts and detaches while the driver streams | 1 035 498 | one owner per buffer, what a STOP and a START leave, refinement of `CommandService` |
| `mom_orderly` | 2 paths with 2 buffers, the first with an attached queue of 1 and a callback, the second with neither; the driver is stopped first | 1 200 041 | no buffer lost, every full buffer announced once |
| `media_stream` | 2 pad buffers, 1 user buffer | 44 422 | whole pictures, one holder, circulation, no stale entry, order (`FrameFlow`), the assumptions of driver and chain, buffers done, events handled |
| `output_chain` | 4 buffers, command queue of 6 | 8 810 | events match pictures, refinement of `IspChain`, a stop returns |

Why the bounds are enough:

* *Semaphore*: the limit stands for `0x7fffffff`; nothing depends on its value,
  and 30 only makes the posters go well past the interesting counts 0 and 1.
* *Queue*: three slots distinguish a wrap of one pointer from a wrap of both, a
  partly filled queue from an empty and a full one, and two items tell order.
  For exclusion and permits the number of slots does not matter: it is proved.
  Two writers and two slots are the least that can show the two violations.
* *Event, thread*: a third thread is what makes "whoever resets first" and "the
  last of those inside" differ from the two-thread case.
* *MIM*: at most one request of the client and one notice of the callback are in
  the queue next to a `STOP`; with a queue of 2 a send can find it full. Two
  pictures tell a transfer of the right picture from one of a later picture.
* *CIM*: two clients are the least that can pass a guard at once. A queue of 1
  makes sends block.
* *BufSync*: two buffers a side let one be held while another arrives; up to
  four notices are outstanding (one per queue thread, a command, the one
  handled), so a queue of 1 makes every sender wait in turn.

* *MOM*: two buffers of a path let one be filled while another is freed or
  flushed; the queue of 2, and in `mom_orderly` the attached queue of 1, make
  handler and callback wait. In `mom_paths` the attached queue has room for both
  buffers, so that both can be with their users while START tries: the first try
  finds the pool empty, both are freed, and the second try leaves one idle, which
  is what `missed` counts. `Refilled` has the path that START fills again; `mom_orderly` has a
  second one that it does not. Its two buffers are interchangeable (symmetry;
  the run has no liveness property).
* *Media stream*: two pad buffers are what a torn search needs (one is moved while
  the other is looked for), and what lets a picture be overtaken. Two user
  buffers (354 069 states) and three pad buffers (884 371) give the same
  answers; the smaller instance is kept as it takes seconds.
* *Output chain*: four buffers, as `NativeDewarp` makes; a command queue of six
  is the shortest that has room for their events, the START and the STOP, so
  that a queue that were too short would show.

Deadlock is checked in every passing run but `thread_join_together`: there a
second waiter can stay asleep for good (section 7), and all others be done.

`CommandsServed` uses a specification with fairness on the abstract side: the
refinement also says that each accepted command *is* answered.

## 4. Fairness and assumptions

* *Threads run*: weak fairness on what a thread can do next inside a call, on
  handler and queue threads, and on the DMA engine ending a transfer it has
  begun. Nothing obliges a client to call. The reader of `OsQueue` calls again,
  as handler threads do in their loops; BufSync producers keep sending.
* *Timeouts* may expire at any time for a thread that is asleep. A timed wait is
  obliged to return only once its time is up.
* *No spurious wakeups.* POSIX allows `pthread_cond_wait` to return for no
  reason, and the code tests its condition with `if`; then a semaphore goes
  below zero with one taker too. The models leave this out.
* *MIM client*: waits for completions before it calls again, except for the
  calls in `Eager`, which it does not repeat while one is pending. The run has
  `Eager = {"Stop"}`: a stop may come during a transfer. With `"ShutDown"`
  added, the callback may come late, and with `"Start"` added, a second
  transfer appears (section 7).
* *CIM clients*: the last one shuts down, alone, when nothing is pending.
* *BufSync*: producers send between the first START and ShutDown, unless `Early`
  or `Endless` says otherwise. Nothing in the repository sets `last` of a buffer,
  so the branch for it is left out. Unlocking a buffer that is not locked leaves
  it so (the pool is a binary; its header says no more). Thread creation does
  not fail.
* *Thread*: the structure is cleared before `osThreadCreate`, as every caller
  does; `osThreadCreate` does not set `wait_count`. Nobody waits for a thread
  after, or during, its close except the closer.
* *MOM*: every thread finishes what it is in, and users free the buffers they
  got; nobody is obliged to call, and the driver need not fill a buffer. Queues
  have room for the buffers of their pool. An `Orderly` client stops the driver
  before the control and detaches at rest, as the engine is documented to do;
  `mom_paths` is the one that does not.
* *Media stream*: the threads run, a search ends, the wait of the request thread
  ends after 1000 ms at the latest, and the ISP fills the buffers it has. The
  hardware need never finish a frame: `EventsHandled` and `BuffersDone` hold all
  the same, by the timeout. The kernel sends START and STOP of the stream in
  turn, and queues a user buffer only when it has it.
* *Output chain*: the engine calls back from one thread, between PREVIEW_START
  and PREVIEW_STOP, which waits for a callback under way. A write waits for
  room. Nobody need start or stop the sensor or give a buffer back.

## 5. Proofs

TLAPS checks eight theorem modules (a component whose operators another one uses shares
its module); each theorem holds for every value of the
constants that satisfies the named assumptions and the hypotheses it states.
The type invariants are parts of these inductive invariants; the runs spend
their properties on what could be wrong.

* **`OsQueue_proofs`**, semaphore: one lemma per operator of `OsSemaphoreOps`, of
  which the main one is `PostedType`: a post is refused at the limit, or wakes
  exactly one sleeper when, and only when, it found zero. `SemaphoreTyping` (any
  takers), and `SingleTaker`: if at most one thread takes, the counter never goes
  below zero and no wakeup is lost. The invariant must know where the thread is
  (`WaitersMatch`) and that sleep and counter go together (`InStep`): asleep only
  at zero, signalled only above it.
* **`OsQueue_proofs`**, queue: with one writer and one reader and any number of slots,
  `CopiesExclusive` (no slot is copied by two at once), `PermitsKept` (both
  counts and the calls in flight add up to `ItemNum`) and `ChannelInOrder` (the
  safety part of `Channel`: every step is one of the FIFO `OsFifo` or leaves it
  alone). The invariant `IInv` is `InStep` again for each gate (`GateOK`); the sum
  of the permits (`Conserved`); and where the pointers are (`Pointers`): the write
  pointer is the read pointer plus the slots between them, modulo the ring, and
  whoever copies does so one slot behind its pointer. A race would make the
  pointers equal with some but not all slots filled, which the sum excludes. For
  the order, `Carried` adds that a slot whose post is due has its writer's item,
  and the ring between the two pointers is read as a sequence that grows at one
  end and shrinks at the other.
* **`OsThread_proofs`**, event: one lemma per operator of `OsEventOps`;
  `NoSignalLost` for any waiters and both reset modes, and `SignalWakesAll` for
  automatic events. The invariant adds `WaitersMatch`: a thread whose time is up is
  neither asleep nor woken, so it takes no wakeup with it.
* **`OsThread_proofs`**, thread: `JoinedOnce`, for any finite set of joiners:
  `wait_count` is the cardinality of the threads between the two sections, the
  thread is joined once, and event and mutex are destroyed when unused. The
  strengthening is in `HandleOK` (the handle is there while anybody is inside,
  and whoever holds `access_mut` is joining and alone), `ClosingOK` (a thread that
  closes is alone from its call on, and reaches the destruction only with the
  handle gone) and `EventOK`. The count steps use cardinality lemmas.

* **`MimCtrl_proofs`**: for any queue, any pictures and a client that does not
  shut down while a completion is owed to it (`PatientAtEnd`): the types, `StateIsTold`,
  `NoTransferLeft` (no freed context under a transfer) and `Serves` (the safety
  part of the refinement of `CommandService`). The invariant says where a command
  is that was accepted and not answered (`PlacesMatch`: in the queue, with the
  handler or with the DMA engine, and nowhere twice), so that "nothing pending"
  means an empty queue and idle hardware. `OnlyRequested`, for a client that
  waits before every call but Stop (`Patient`), adds `RequestsMatch`: a pending
  DMA_TRANSFER is a request at the head of everything, or its transfer has begun
  and the state forbids taking its completion for another request.
* **`CimCtrl_proofs`**: for any number of client threads and any queue
  `StateIsTold`, `Serves` (the safety part of the refinement of `CommandService`)
  and the types. Two clients that pass a guard together put the same command in
  the queue twice, so the invariant counts: the commands pending are those in the
  queue and the one in hand (`PlacesMatch`). `PhasesMatch` says that a client that
  shuts down is alone from its call until the context is gone, so that its command
  is the last and is never refused; `StateKnown`, that state and the clients'
  knowledge differ only between a command and its completion.
* **`BufSyncCtrl_proofs`**: for any buffers and any queue `OwnedAreLocked`,
  `NoneOrphaned`, `Serves` and the types. Of the places a buffer can be in while
  somebody means to give it back (a queue, a side of the handler, the pair in the
  callback) it is in one at most, once, and is locked there (`OnePlace`). The
  client ends the threads one after the other (`PhasesMatch`), so that each way of
  giving a buffer back has its thread until the context goes; `CommandsMatch`
  counts the commands. `NoBufferTooEarly` says for which producers `Spec` is the
  whole program: for those that begin after the first START and end before
  ShutDown the handler never meets a buffer in state Initialize (`Quiet`).
* **`MomCtrl_proofs`**: for any paths, pools and queues and every client `OwnedOnce`,
  `StopEmpties`, `OnlyMissedIdle`, `Serves` and the types; for a client that stops the
  driver before the control (`Orderly`) `NoneLost` and `EachAnnounced`. Over the types
  and the places of the threads (`Control`, with `CommandsMatch` for the commands)
  there are four independent invariants. `PlacedOnce` counts how often a buffer
  is in any place, queues with their repetitions, and finds it once; the
  cardinalities of `OneOwner` follow from it. `Flushed` says what is empty behind
  the flush that is under way. `PoolsTaken` bounds how full a pool can be: at and
  behind the path where a START is, by the buffers freed since it came there and
  the tries it has left (`StartBound`), as a try either takes a buffer or finds
  none; and in state Running by the former and the threads about to queue one
  (`PoolBound`). `Ordered` says
  that the driver is quiet from the call of Stop until the control runs again,
  that no command for a full buffer is behind a STOP in the queue, and that
  buffers and commands are as many.
* **`MediaStream_proofs`**, driver (`DriverSpec`): for any ports and buffers `PicturesWhole`,
  `NothingWrittenLate` and `Stops`. The invariant `DriverInv` says where a
  frame-done can be (`hw.busy`, its interrupt, the stream thread, a permit): in one
  place only while no wait has timed out, also over any number of stops, each of
  which posts a permit of its own.
* **`MediaStream_proofs`**, stream (`MediaSpec`): for any number of pad and user
  buffers the composition is proved in both directions. `DriverUsedRight`: the
  stream is a behaviour of the driver, which gives `StreamShowsWholePictures` from
  `PicturesWhole`; `ChainUsedRight`: it keeps to the contract of the output chain
  which `OutputChain_proofs` shows the chain to implement. `BuffersHeldOnce`,
  `NoBufferLost` and `EntriesOfThisStream` follow from the invariant `StreamInv`:
  each buffer has one holder, of pad, ISP, `fullQueue`, loop, driver and the thread
  that gives it back (`HeldOnce`, `NoneLost`); what each of the threads holds in the middle
  of a search (`HandsMatch`); which entries are of the present stream
  (`EntriesCurrent`); and what chain, driver and pad hold in each phase of START
  and STOP (`PhasesMatch`, `PadMatches`). `PicturesKeepOrder` maps every step to one of `FrameFlow`: the pictures
  between the ISP and the user are one sequence, of which a picture leaves at the
  front, or is given up anywhere, and enters at the back.
* **`OutputChain_proofs`**: for any number of buffers that `FullBufQueue` has
  room for (`RoomForPictures`) `PicturesAnnounced`, `ContractKept` (the refinement
  of `IspChain`), `DeletedLast` and `RestUnlocked`; and, if no picture is left
  out and the command queue is longer than the number of buffers by two,
  `StopHasRoom`. The invariant ties the phases of start and stop to what exists
  (`PhasesMatch`), places each buffer (`PlacesMatch`: locked buffers are those in
  the queue and those held) and counts the events (`EventsBounded`). Without
  `RoomForPictures` the code sends an event that was never initialised; with it
  that branch is not reached.

Each invariant was first checked by TLC on the instance of the run.

Model-checked only: everything that uses fairness (`WritersReturn`,
`SignalReleases`, `ShutDownReturns`, `StopReturns`, `BuffersDone`, `EventsHandled`
and the liveness in `Channel` and `CommandsServed`), which this prover does not
handle. Every other property of a passing run has a theorem.

## 6. Where the code and its comments disagree

The third has a run; the others are behaviours of the models, most of them under
other constants, given here.

1. *Slot race* (`oslayer_generic.c:333`): the item is copied after `AccessMutex`
   is released, and a permit does not say which slot is ready. With two writers
   the later may post first, and the reader copies the slot the earlier is still
   writing. `MimCtrl` (client and callback), `BufSyncCtrl` (client and two queue
   threads) and `MomCtrl` (client and driver) have queues with several writers.
   To see it: `MCOsQueue_spsc.cfg` with `Writers = {w1, w2}`, `ItemNum = 2`,
   `Items = {a}` violates `NoSlotRace`.
2. *Stranded writer* (`oslayer_linux.c:857`): a post signals only when it found
   the counter at zero. Two posts before the first woken thread runs wake one
   thread; a second writer sleeps on, whatever the reader does afterwards.
   With the same constants the invariant `NoStrandedWriter` is violated.
3. *Hidden result* (`mim_ctrl_cb.c:69`): an inner variable `result` hides the
   parameter; a failed transfer is reported as a success.
4. *Early buffer* (`bufsync_ctrl.c:276`): in state Initialize the handler unlocks
   a buffer, without the lock, and leaves the pointer to it. To see it:
   `MCBufSyncCtrl_stream.cfg` with `Buffers = {b1}`, `Early = TRUE` and
   `SPECIFICATION EarlySpec` violates `LockedWhileOwned`.
5. *Endless producer* (`bufsync_ctrl.c:74`): the exit flag of a queue thread is
   read only after a second without buffers. To see it: `Endless = TRUE` and
   `SPECIFICATION EarlyFairSpec` violate `ShutDownReturns`.
6. *Blocked buffers*: `V4l2Event.cpp` says of its thread for queued buffers that
   it must not block; but it takes the mutex under which STOP joins the threads
   of the stream, so no buffer is queued until the request thread's wait of up to
   1000 ms is over. `EventsHandled` shows that it does end.

## 7. Hazards that no property covers

Some hazards are in the models as reachable behaviour, and no statement of the
repository says what should happen; others are excluded by the bounds of a run or
by what a property assumes, and the property then says nothing about them. They
are recorded, not checked:

* `oslayer_linux.c:747`: a second thread that takes from a semaphore can make a
  woken sleeper decrement a counter that is zero again; and
  `oslayer_linux.c:857`, `oslayer_generic.c:359`: two sleepers, or two blocked
  writers of a queue, of whom the second is stranded (section 6). The runs and
  theorems on the semaphore and the queue have one taker and one writer. To see
  the former: `MCOsSemaphore_one.cfg` with `Takers = {t1, t2}` violates
  `NoOverdraw`.
* `oslayer_linux.c:1421`: two threads in `osThreadWait` of one thread: the first
  to return resets the automatic exit event. Those already asleep were woken by
  the same broadcast, but one that counted itself in and had not begun to wait
  sleeps for good, and the thread is then never joined. All owners in the
  repository wait from one thread.
* `mim_ctrl_cb.c:67-69`: the callback stores to the context after it has sent
  the command that lets the client free it; and for a client that stops a
  transfer and shuts down without waiting, the callback finds the context
  shutting down and its command refused, which it asserts cannot happen.
  A MIM or CIM client that shuts down while its START is still in the queue
  waits for a handler that refused the SHUTDOWN; and a MIM client that does
  Stop and Start without waiting for the transfer between them to end has the
  notice of that end taken for a request.
* `cim_ctrl_api.c:193`: the clients of `cim_two_clients` race each other, but the
  ShutDown of the last finds nothing pending.
* `bufsync_ctrl.c:276` and `:74`: an early buffer and an endless producer
  (section 6); `LockedWhileOwned` and `ShutDownReturns` assume that there are none.
* `mom_ctrl.c:70`: a full attached queue holds up every path under two mutexes.
  The models' users of such a queue need neither mutex in order to read it, so
  the write ends; a reader that first attached, detached or registered would wait
  for the handler that waits for it. Such a reader is not in the repository.
* `mom_ctrl_cb.c:567`: a full buffer handed over when the control is not running
  is in no queue any more, and no later START finds it. `mom_paths` has the step
  (`EventIgnored`); `NothingLost` is about clients that stop the driver first.
* `DewarpDriver.cpp:372`: after a wait has timed out, the late frame-done ends the
  wait for the next frame at once, with the picture unfinished. `DewarpDriver`
  has the step; `WholePictures` speaks of runs without a timeout.
* `IMediaModule.cpp:125`: a search that another thread tears may miss its buffer,
  which is then lost for the stream. `MediaStream` has the step;
  `BuffersCirculate` and `BuffersDone` speak of streams without a miss.
* `bufsync_ctrl.c:313`: the callback pointer is tested without its lock, and a
  client may clear it before the call.
* `bufsync_ctrl.c:192`: a buffer a side still holds at shutdown is not given
  back; `NoBufferOrphaned` speaks of the time the control exists.
* `bufsync_ctrl.c:312`: a buffer kept from before STOP may be paired with one
  from after the next START.
* `cim_ctrl_api.c:275`: a failed step of the sensor registration leaves what the
  steps before it made.
* `bufsync_ctrl.c:477`: when a queue thread cannot be created, destruction waits
  for it; and destruction reads a pointer as four bytes. Neither is modelled.
* `oslayer_linux.c:377`: `1000 * msec + tv_usec` wraps in 32 bits for a timeout
  above about 71 minutes. No caller waits so long.
* `mom_ctrl_api.c`: a callback is registered without the lock under which the
  handler reads it. The model registers and deregisters in single steps.
* `commitf_citfapi.cpp:328`: a chain is put into the engine's list of callbacks
  while the engine may be walking it; the engine is a binary, and the model has
  one chain.
* `commitf_citfapi.cpp:454`: QBUF may test the state of a chain that a stop has
  deleted. `XomQBUF` has the outcomes; `KeepsContract` holds in spite of it.
* `MediaBufferQueue.cpp:80`: the loop variable refers to the list node that is
  removed. The model takes the address as still readable.
* `NativeSensor.cpp:235`: with several streams the reference counts of start and
  stop need not match. The model has one stream.
* `DewarpDriver.cpp:345`: with two ports, port 1 is served only when no
  picture waits for port 0, and may starve. The run has one port.
* `buf_io.cpp`, `Xim`: its start waits for a completion that the code as built
  never asks for. Nothing in the repository uses it.

## 8. Not modelled

The closed libraries, register I/O (`i2c_drv`, `mipi_drv`, `fpga`, `isi`,
`cameric_reg_drv`), pixel and display code (`ibd`, DOM, VOM drawing), the
floating-point dewarp map, configuration parsing and JSON controls, `appshell`
and vendored code: a good part of the repository is tables of registers,
generated headers and third-party sources. DOM, VOM and XOM are the command
service of `CommandService` once more, with one queue and no path logic; the
media server does not use them. Mutexes, atomics and time of the OS layer are
wrappers and appear as atomic steps. Of the OS layer's ports only the Linux one
is built. The length of a timeout is abstracted: it expires or it does not.

In the parts modelled: failures of the dewarp's start (`NativeDewarp.cpp:165-187`:
parameters or distortion map refused, FIFOs or threads not made; the result is
ignored by `MediaPipeline::start`, `MediaPipeline.cpp:44-52`, which starts the
dewarp first and then the sensor all the same); formats, crop, scale and saving of buffers, several
streams at once, subscription and removal of a device (media server); `Xim` and
the pool lists (`cam_device` buffer I/O); the flag `last` (BufSync); scheduling
attributes (threads).

## 9. What could come next

1. Several streams over one sensor: reference counts of `NativeSensor` and
   `MediaPipeline`, with the second stream's START and STOP between the first's.
2. The camera engine interface as a composition of `OsEvent` with
   `CommandService`: a blocking call, its completion and its timeout.
3. Pure operators: the timeout conversion in 32 bits, list operations of
   `ebase`, fixed-point conversion.
