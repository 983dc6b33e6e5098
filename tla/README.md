# TAO queued-message transport: TLA+ models

These modules model the message-transport core described in `spec.md` and
implemented in `src/TAO/tao/Synch_Queued_Message.cpp`, together with the
parts of the repository around it. The modules are checked with TLC. Every
definition is translated from the source. The collaborators that are not in
the repository are modelled from `spec.md` and are marked `spec_modelled` in
`PROJECT.json`. These collaborators are the transport queue, `ACE_Message_Block`,
`ACE_OutputCDR` and the leader/follower event.

## 1. Inventory

### Components, their state and their operations

| Component | Source | State | Operations |
|---|---|---|---|
| Queued message `TAO_Synch_Queued_Message` | `Synch_Queued_Message.cpp` | `contents_` (head of the chain), `current_block_` (first unsent block), `own_contents_`, and from the base class `allocator_`, `is_heap_created_` and the LF event state | constructor, destructor, `current_block`, `message_length`, `all_data_sent`, `fill_iov`, `bytes_transferred`, `clone`, `destroy`, `copy_if_necessary` |
| Byte-buffer chain `ACE_Message_Block` (not in repo) | spec.md 3, 4.1 | per block: data, `rd_ptr`, `wr_ptr`, `cont`, reference count | `length`, `total_length`, `rd_ptr(n)`, `clone`, `release`, `ACE_CDR::consolidate` |
| Output CDR stream (not in repo) | spec.md 4.2, comment at line 210 | `start_` block and its continuation | `reset` |
| Completion signal `TAO_LF_Event` (not in repo) | spec.md 5 | IDLE, ACTIVE, SUCCESS, CLOSED (SUCCESS and CLOSED are final) | `state_changed`, follower wait |
| Transport queue and leader (not in repo) | spec.md 2, 5 | queue of messages | drain (fill_iov, write, bytes_transferred, remove and destroy a finished message), close |
| Allocator adapter | `clone` lines 122-167 | pool or global heap | allocation that may fail |
| Resource factory `TAO_Default_Resource_Factory` | `default_resource.cpp` | option flags, `parser_names_`, `parser_names_count_`, `index_`, allocator type, strategy types, `dynamically_allocated_reactor_` | `init`, `get_parser_names`, `add_to_ior_parser_names`, `use_local_memory_pool`, allocator, strategy and reactor factories, `disable_factory` |
| Nested upcall servant `server_i` | `NestedUpcall/Simple/server_i.cpp` | `client_`, `quiet_` | `start`, `ping` (calls back into the client with `time_to_live - 1`), `shutdown` |
| Guards `ACE_Guard`, `ACE_Write_Guard`, `ACE_Read_Guard`, `ACE_TSS_Guard` family | `Guard_T.h` | `lock_`, `owner_`; the TSS guards keep the guard in thread-specific storage | constructors (blocking, non-blocking, `become_owner`), `acquire`, `tryacquire`, `release`, `disown`, `locked`, destructor, TSS `cleanup` at `thr_exit`. Only the header is in the repo, and its comments state each member's contract |
| IIOP endpoint, IDL AMH visitor, test glue | `IIOP_Endpoint.h`, `amh_sh.cpp`, tests | - | declarations, text generation, and constant results |

### How they interact

1. A sender marshals a request or reply into its CDR stream. It builds a
   stack `TAO_Synch_Queued_Message` around the stream's chain. The message
   borrows the chain, so `own_contents_` is false. The sender then queues
   the message.
2. The leader thread drains the queue. `fill_iov` exports at most
   `iovcnt_max` non-empty blocks, and the leader writes some prefix of them.
   `bytes_transferred` advances `rd_ptr` of the blocks (blocks that belong
   to the stream) and `current_block_`. It signals SUCCESS when
   `current_block_` becomes null. The queue then removes the message and
   calls `destroy()`.
3. If the first flush does not finish the message, the sender takes one of
   two paths:
   * Synchronous request: it calls `copy_if_necessary(stream)`, so the
     message owns a deep copy of the unsent rest. It then waits, with the
     transport lock released, for the completion signal.
   * Reply: it calls `clone()`, which consolidates the unsent rest into one
     new block owned by a new heap message. It queues the clone in place of
     the stack message and returns.
4. Other invocations on the same transport may `reset()` the stream at any
   time after the sender released the lock. The reset rewinds and refills
   the head block and releases its continuation.
5. Closing the connection signals CLOSED to every queued message and
   destroys it.
6. When the sender leaves its scope, the destructor of the stack message
   runs.

### What makes it hard

* Shared blocks. `bytes_transferred` moves the read pointers of blocks that
  belong to someone else, and the owner may reuse those blocks.
* Interleaving. The leader's writes, the sender's detach or clone, resets by
  later invocations, and a close can come in many orders.
* Boundaries. A write may end in the middle of a block, exactly at its end,
  or across several blocks. Empty blocks can sit in the middle or at the
  end of the chain. The iovec array can fill before the chain ends.
* Partial failure. Any of the allocations in `clone` and `copy_if_necessary`
  can fail.
* Lifetimes. `destroy()` and the destructor both release owned contents.
  The follower must be woken exactly when its bytes are out.

### Properties that make each component correct

* Queued message:
  * The wire carries a prefix of the application bytes, in order
    (spec.md 6).
  * SUCCESS, or "sent" reported to the sender, means every byte was written.
  * `message_length` of a queued message never grows (spec.md 3).
  * The sender is never blocked forever.
* Buffer chain:
  * No queued message reaches a released block.
  * No block is released twice.
  * No block leaks, and every private copy is eventually released.
* Resource factory:
  * Every `add_to_ior_parser_names` writes inside an array that `init`
    allocated.
  * `get_parser_names` returns exactly the parsers named on the command
    line.
* Nested upcall: the upcalls nested on the thread never outnumber the
  start value, and the chain ends.
* Guards:
  * no guard, destructor or thread releases a lock it does not hold;
  * critical sections entered after `locked()` exclude each other;
  * a thread that holds the lock eventually gives it up.

## 2. Plan and status

The order follows the importance of each behaviour.

1. **`SynchQueuedMessage`** (done). It models the queued message, the
   blocks, the leader's writes over a queue of two messages, the sender's
   two paths, the stream reset and close.
2. **`QueuedMessage`** (done). It is the abstract specification, and
   `SynchQueuedMessage` refines it.
3. **`ResourceFactory`** (done). It covers `init` (both loops and every
   option), the parser-name array, `get_parser_names`, the destructor,
   `disable_factory`, `use_local_memory_pool`, the allocator and lock
   getters, `create_purging_strategy`, and what the ORB core takes from the
   factory after `init`: the protocol factories, the codeset manager and
   the flushing, leader/follower and fragmentation strategies. It also
   covers the reactor: `get_reactor`, `allocate_reactor_impl`, the timer
   queue of the time policy, and `reclaim_reactor`.
4. **`NestedUpcall`** (done). It covers `server_i::start`, `ping` and
   `shutdown` with a 16-bit `time_to_live`.
5. **`ACEGuard`** (done). It covers the guards of `Guard_T.h` over a
   readers/writer lock shared by two threads, including thread exit under
   a TSS guard.
6. Left open (see section 5): a sender whose wait times out, which
   neither the spec nor the repository describes, and a run of its own for
   the allocation failures of `get_reactor`.

## 3. Modules

### `SynchQueuedMessage.tla`

**State.**

* Block heap (spec.md 3, 4.1):
  * `data[b]` holds the block's bytes, with `wr_ptr` at the end.
  * `rd[b]` is the `rd_ptr` offset.
  * `cont[b]` is the continuation.
  * `alive` is the set of allocated blocks.
  * `used` holds every id ever handed out. Ids are never reused, so a
    dangling pointer stays visible.
  * `relCount[b]` counts the releases of `b`.
* Per message (`AheadMsg`, `StackMsg`, `CloneMsg`). `AheadMsg` is a heap
  message of its own blocks (`AheadSpans`), queued before the sender's:
  * `contents`, `current` and `own` mirror `contents_`, `current_block_`
    and `own_contents_`.
  * `lf` is the LF event state.
  * `live` is the set of objects that exist, and `queued` is the transport
    queue.
* Progress:
  * `wire` is the bytes written to the connection.
  * `pending` is the `byte_count` that a running `cleanup_queue` loop still
    has to hand out, or `Idle`.
  * `closed` says the connection is closing.
  * `pc` is where the sender is, and `outcome` is what the sender was told.

The application message's bytes are numbered 1..N across the stream's
blocks, the message queued ahead carries N+1 onward, and a byte of a later
invocation is 0. The numbers make a repeated,
skipped or foreign byte on the wire visible.

**Operations and code.**

* `Construct` is the constructor (lines 11-21). `own_contents_` is set to
  `is_heap_allocated`.
* `Destructor` is lines 23-29.
* `MessageLength` and `AllDataSent` are lines 37-52.
* `IovBlocks` and `FillIov` are `fill_iov` (54-78): the non-empty blocks
  from `current_block_`, at most `iovcnt_max` of them.
* `Consume` and `SkipEmpty` are the two loops of `bytes_transferred`
  (85-105). `Consume` returns the new `current_block_`, the `byte_count`
  left (passed by reference in the code) and the read offsets.
* `BytesTransferred` is the whole function: it sets ACTIVE, runs the loops,
  and sets SUCCESS if `current_block_` is null.
* `Clone` is `clone` (112-170). Each of its three allocations can fail, and
  a failure after the block was allocated releases the block.
* `DestroyRest` and `Destroy` are `destroy` (172-196).
* `CopyIfNecessary` and `CopyChain` are `copy_if_necessary` (198-221). The
  copy keeps the read offsets. The unchecked failure of the clone is kept.
* The environment comes from spec.md 2 and 5 (`spec_modelled`):
  * `QueueIov` is `drain_queue`'s walk of the queue. Each message, head
    first, calls `fill_iov` with the `iovcnt` the messages before it left.
  * `Write` is the leader writing `k` of those bytes. It writes at least one
    byte when there are any, because a write that sends nothing changes
    nothing. It then starts `cleanup_queue` with `byte_count = k`.
  * `Cleanup` is one turn of `cleanup_queue`'s loop. The head message's
    `bytes_transferred` takes its share of `byte_count`. A finished message
    is removed and destroyed, and what is left goes to the next message. An
    unfinished message ends the loop.
  * `CloseConnection` cancels the head of the queue with CLOSED, then
    removes and destroys it.
  * The sender's steps that look at the queue run under the transport lock,
    so they wait for a `cleanup_queue` loop to end.
  * The sender: `CallerDone`, `CallerCopy`, `CallerClone`, `CallerWake`
    and `CallerExit`.
  * `Reset` (`ACE_OutputCDR::reset`).

**Fairness.** `Write` is weakly fair, because the peer keeps reading, so a
write eventually makes progress. `Cleanup` is weakly fair, because a
`cleanup_queue` loop that has started runs to its end. `CloseConnection` is
weakly fair only once the close has begun: a close is never assumed, but
once begun it cancels the whole queue. The sender's steps are weakly fair,
because its thread is scheduled. `Reset` is not fair.

A write of zero bytes happens only when no queued message has bytes left.
It sends the head message's `bytes_transferred(0)`, which completes a
message that reads as fully sent.

**Refinement.** `QM == INSTANCE QueuedMessage` maps as follows:

* `sent` is `OurSent`: the bytes on the wire past those of the message
  queued ahead.
* `status` is "dropped" when the sender dropped the reply, and "complete"
  once all N bytes are on the wire. It is "closed" once the signal of the
  stack message or its clone is CLOSED, and "queued" otherwise. The message
  queued ahead is not part of the abstraction.
* `told` is the sender's `outcome`.

### `QueuedMessage.tla`

This is the abstract promise of spec.md 4.2, 5 and 7:

* A message is queued until it is complete, closed or dropped.
* The count of bytes sent only grows, never past `Size`, and the write of
  the last byte completes the message.
* The sender is told once and truthfully.
* Writes and the telling are weakly fair.

### `ResourceFactory.tla`

**State.** The members of `TAO_Default_Resource_Factory` are the fields of
one record `rf`, named without the trailing underscore. `rf.ub` records
undefined behaviour: a store into, or a free through, a missing or
too-small `parser_names_`. The environment variables are:

* `given`: the argv pieces `init` received;
* `initRet`: what `init` returned;
* `namesOut`: the last result of `get_parser_names`;
* `phase`: constructed, configured or destroyed.

**Operations.**

* `Constructor` is lines 104-147. `index_` is left uninitialised, and the
  model gives it -1.
* `CountParsers` is the first loop of `init`. Like the code, it visits only
  every second argument, and it allocates the array when the incremented
  `curarg` equals `argc - 1`.
* `ParseOptions` is the second loop. It uses `ApplyOption` for the options
  that take a value, which has one branch per option, and `ApplyFlag` for
  the others.
* `SelectWord` and the word tables are the if/else-if chains over an
  option's values.
* `AddToIorParserNames`, `GetParserNames` and `DestroyFactory` (the
  destructor) are the named functions.
* `UseLocalMemoryPool` and `DisableFactory` are the named functions.
* `PoolOrHeap`, `OutputCdrBufferAllocator`, `CreateCachedConnectionLock`,
  `LockedTransportCache` and `CreatePurgingStrategy` are the getters.
* `ACE_OS::atoi` is `Atoi`: a numeral gives its value and any other word
  gives 0.
* Failure of the two parser-array allocations is a `FailingAllocs` choice.
* `CreateResources` is the ORB core's one use of the configured factory.
  It calls:
  * `InitProtocolFactories` (`init_protocol_factories`, lines 642-677). It
    falls back to `LoadDefaultProtocols` (IIOP) when no
    `-ORBProtocolFactory` was given. Otherwise it stops with -1 at the
    first named service that is not in `LoadableProtocols`.
  * `CodesetManager` (lines 1186-1224). The result is null when the
    codeset service is absent, or when its factory creates nothing.
    Otherwise `ApplyTo` gives the char and wchar descriptors their own
    parameters.
  * `CreateFlushingStrategy`, `CreateLfStrategy`, and
    `CreateFragmentationStrategy` for every pair of "has a transport" and
    `max_message_size` in `MaxMessageSizes`.

  The result is recorded in `orb`.
* The reactor (lines 716-826) is in `rx`. It records the state (none,
  live or freed) of each object that `get_reactor` may create:
  * the time policy's timer queue;
  * a queue that a reactor implementation creates when it is given none;
  * the implementation;
  * the `ACE_Reactor`.

  `rx` also records the queue the reactor runs on, and whether the
  `Time_Policy_Manager` service is loaded (`TAO_HAS_TIME_POLICY` 0 acts as
  "not loaded"). `rx.ub` records a delete of an object that is not live.
  The definitions:
  * `CreateTimerQueue` and `DestroyTimerQueue` go through the time policy
    manager when it is loaded.
  * `AllocateReactorImpl` takes a queue and builds the custom or the
    `ACE_TP_Reactor` implementation. It releases the
    `TAO_RSF_Timer_Queue_Ptr` after either, and its failed
    `ACE_NEW_RETURN` destroys the queue.
  * `GetReactorOf` allocates the `ACE_Reactor` first, as C++17 orders it,
    then calls `allocate_reactor_impl`. With a null implementation,
    `ACE_Reactor` builds a default one. A reactor that does not initialise
    has its queue read, is deleted, and the queue goes to
    `destroy_timer_queue`.
  * `ReclaimReactorOf` does the same under `dynamically_allocated_reactor_`.
  * `DeleteReactor` is `delete reactor`. The reactor owns its
    implementation, and the implementation owns a queue it created.

  `ACE_Reactor`, the implementations and the time policy manager are
  outside the repository. They are modelled only by what they create and
  delete.

**Life cycle.**

1. The service configurator calls `init` once (`Configure`).
2. Another factory may call `disable_factory` at any time (`Disable`).
3. After a successful `init`, the ORB calls `get_parser_names` and
   `use_local_memory_pool` any number of times (`AskParserNames`,
   `SetLocalMemoryPool`). It creates its resources once
   (`CreateResources`). Then it gets its reactor once (`GetReactor`),
   and at shutdown it gives the reactor back (`ReclaimReactor`). Each
   `GetReactor` step chooses whether the time policy service is loaded,
   whether a custom factory function is installed, whether the reactor
   initialises, and which of the reactor allocations in `FailingAllocs`
   fail.
4. The destructor ends the factory's life (`Destroy`), after the reactor
   was given back. The runs therefore
   set `CHECK_DEADLOCK FALSE`.

### `NestedUpcall.tla`

* `Start` is `server_i::start`.
* `Ping` is `server_i::ping`. It decrements a 16-bit value with
  wrap-around and calls the client only if the result is positive.
* `Shutdown` is `server_i::shutdown`.
* `calls` is the stack of nested upcalls on the one thread.
* `ClientPing` stands in for the client servant, which is not in the
  repository. The client either returns or pings back with a smaller
  positive value.

### `ACEGuard.tla`

Only `Guard_T.h` is in the repository. The bodies (`Guard_T.inl`,
`Guard_T.cpp`) are not, so each definition follows the contract that the
header states for the member.

**State.**

* The lock is a readers/writer lock:
  * `writer` is the thread holding it for writing, or `NoThread`;
  * `readers` is the set of threads holding it for reading.
  * `ACE_Guard` takes it for writing, as `ACE_RW_Thread_Mutex::acquire`
    does.
* `g[t]` is thread `t`'s guard: its class (plain, write or read), `owner_`
  (0 when it holds the lock, -1 when not), and whether it is a TSS guard.
* `raw[t]`: the thread holds the lock itself and must release it. This
  happens after it took the lock to hand to a guard, after `disown()`, or
  when a `become_owner = 0` guard did not take ownership.
* `pc[t]` is the thread's place in its scope. `ops[t]` counts the explicit
  calls made in the scope, bounded by `MaxOps`.
* `ub` records a release of a lock the caller does not hold.

**Operations.**

* `Acquire`, `TryAcquire`, `Release`, `Locked`, `Adopt` (the `become_owner`
  constructor), `Destruct` and `ExitCleanup` are the members.
* `Release` releases only when `owner_ != -1`.
* `ExitCleanup` releases at `thr_exit` only for a TSS guard, and only when
  `HasTSS`. Without thread-specific storage, line 217 makes
  `ACE_TSS_Guard` plain `ACE_Guard`.

**The threads.** Each thread runs scopes the way the header's warning
(lines 39-61) asks:

1. It opens a scope by building a guard (`Construct`), or by taking the
   lock and handing it to a guard (`TakeLock`, `AdoptLock`).
2. It enters the critical section only if `locked()` says so.
3. It makes up to `MaxOps` explicit calls (`Call`): `release`, `acquire`
   and `tryacquire` when not holding, or `disown` (plain guards only: `ACE_TSS_Guard` has none). A TSS guard, like the others, may be built non-blocking.
4. It releases what it holds itself (`ReleaseLock`).
5. It leaves the scope, which runs the destructor (`LeaveScope`). A thread
   under a TSS guard may instead leave through `thr_exit` (`ThreadExit`).

A thread never acquires a lock it already holds, because the lock is not
recursive.

**Fairness.** Each thread has weak fairness on leaving the critical
section, leaving the scope, releasing its own hold and finishing an
adoption. The justification is that a runnable thread is scheduled and a
scope's code is finite. Blocking acquisitions and `thr_exit` are not
assumed fair, so the liveness property is only about holders giving the
lock up.

## 4. Runs

| Run | Cfg | Expect | What it shows |
|---|---|---|---|
| `synch_message` | `MCSynchQueuedMessage.cfg` | pass | The sender's message is queued behind another, and writes span both. The wire carries a prefix of the queued bytes in queue order. SUCCESS means the message and everything before it were delivered. A reply's clone holds exactly the unsent rest. No queued message reaches a released block, and no block is released twice or leaked. The message length never grows, the sender returns, and copies are released. The behaviours refine `QueuedMessage`. All of this holds over every interleaving of writes, cleanup turns, detach or clone, reset and close, and under the failures `clone` handles. |
| `copy_alloc_failure` | `MCSynchQueuedMessage_copyfail.cfg` | violation | If `clone()` in `copy_if_necessary` returns null, a zero-byte `bytes_transferred` signals SUCCESS with nothing written. |
| `resource_factory` | `MCResourceFactory.cfg` | pass | When each `-ORBIORParser` comes in an option/value pair, the array is sized and filled exactly, and `get_parser_names` returns the named parsers (or the defaults). The option loop matches a per-option reference: the last recognised value wins, lists accumulate in order, and no piece disturbs another option. Both hold whether `disable_factory` comes before or after `init`. The ORB core's `init_protocol_factories` succeeds only with every named protocol loaded, in argv order, or IIOP alone when none was named. The codeset manager carries the char and wchar settings each to its own descriptor. The reactor is covered with and without a time policy, with and without a custom implementation factory, and when it fails to initialise. While the reactor is in use, its timer queue and implementation stay alive. After `get_reactor` gives up or `reclaim_reactor` runs, no reactor object is left, and none is deleted twice. |
| `parser_after_flag` | `MCResourceFactory_shifted.cfg` | violation | `-ORBZeroCopyWrite -ORBIORParser p1` leaves `parser_names_` null, and `add_to_ior_parser_names` stores through it. |
| `default_parser_alloc_failure` | `MCResourceFactory_allocfail.cfg` | violation | After a failed allocation in `get_parser_names`, the next call returns a null array with a count of 4. |
| `cache_lock_twice` | `MCResourceFactory_lock.cfg` | violation | `-ORBConnectionCacheLock null` followed by `thread` leaves a locked cache with unlocked data blocks. |
| `pool_flag_false` | `MCResourceFactory_pool.cfg` | violation | `use_local_memory_pool(false)` makes the output CDR buffer allocator the pool allocator. |
| `purging_not_lru` | `MCResourceFactory_purging.cfg` | violation | `init` accepts `-ORBConnectionPurgingStrategy lfu`, `fifo` or `null` without an error, but `create_purging_strategy` then returns null. |
| `nested_upcall` | `MCNestedUpcall.cfg` | pass | For start values 1..8, the nesting on the thread never exceeds the start value (`NestingBounded`), and `start` returns (`StartReturns`). |
| `ping_zero_wraps` | `MCNestedUpcall_zero.cfg` | violation | `start (c, 0)` makes the server ping the client with 65535 (`ServerCountsDown`: a passed-on value is smaller than the received one, which only the zero case can break). |
| `ace_guard` | `MCACEGuard.cfg` | pass | Two threads use every guard class and constructor form, explicit release, acquire, tryacquire and disown, and `thr_exit` under a TSS guard. No lock is released by a thread that does not hold it, critical sections exclude each other, and every holder gives the lock up. |
| `tss_guard_without_tss` | `MCACEGuard_notss.cfg` | violation | Without thread-specific storage, a thread that calls `thr_exit` inside an `ACE_TSS_Guard` scope keeps the lock forever, against the class comment's promise. |

Every property of a passing run has a mutant in `PROJECT.json`. A mutant is
a fault variant of one mapped definition, defined just before it, for
example `ConsumeStayAtEnd`, `CallerCloneAlwaysQueued`, `CountParsersAllocAtArgc`,
`SelectWordResetUnknown`, `PingWhile` or `ReleaseUnchecked`. Each one makes TLC report the property
violated.

### Bounds

**`MCSynchQueuedMessage`.**

* The stream chain is `<<2, 0, 2, 1, 0>>`: "AB", "", "CD", "E" and a
  trailing empty block.
* `IovMax` is 2, and there are 13 block ids.
* The message queued ahead is two one-byte blocks (`AheadSpans`).

These bounds cover:

* a write that ends inside a block, at a block's end, or across a
  boundary;
* an empty block in the middle and one at the end;
* an iovec array that fills before the chain ends;
* a write that ends inside the message ahead, at its end, or in the
  sender's message, so that `cleanup_queue` passes a count of zero or
  more on to it;
* an iovec array that the message ahead fills alone, or shares;
* the cursor on the head block or on a continuation when the sender
  detaches;
* a reset before and after the copy, and a close at any point;
* each allocation failure.

**`MCResourceFactory`.**

* The pass run's argvs are those of up to 3 parser pieces together with
  those of up to 2 option pieces (`MCFactoryArgvs`). Parser pieces and
  value-less flags are kept in separate argvs: mixing them is the
  `parser_after_flag` bug.
* The option pieces are 23: every option, with an accepted word, a
  rejected word, a numeral, a non-numeral, and an option name used as a
  value. That last piece is why a wrong stride in the loop shows up.
* The pass run has no allocation failures, as for the parser array. With
  `FailingAllocs = {"reactor_impl"}`, TLC reports `NoReactorDoubleFree`
  violated. With `{"custom_impl"}`, it reports `ReactorResourcesReleased`
  violated. The hazards in `PROJECT.json` describe both paths, and no run
  checks them yet.
* `LoadableProtocols` is `{"IIOP_Factory"}`, and one option piece names
  `SHMIOP_Factory`. Both a loadable and a missing protocol therefore
  occur.
* `MaxMessageSizes` is `{0, 23, 24}`, the values around the 24-byte
  minimum for fragmentation.
* Two pieces are enough for "the last one wins" and for interference
  between options. Three parser pieces give arrays of one to three parsers,
  with a parser option used as another option's value.

**`MCNestedUpcall`.** With start values 1..8 and a branching client, the
run covers chains up to eight calls deep.

**`MCACEGuard`.** The bounds are two threads and `MaxOps = 2` explicit
calls per scope. Two threads are the fewest for contention, a lost
`tryacquire` and a read/write conflict. Two calls allow a release followed
by the destructor's release, a disown followed by the thread's own release,
and a release followed by a re-acquire. Symmetry is not used, because the
run checks liveness.

## 5. Not modelled, and why

* The transport's own code is not in the repository. Its calls of the
  queued message are taken from spec.md 2 and 5: `drain_queue`,
  `cleanup_queue`, `send_synchronous_message_i` and
  `send_reply_message_i`. Timeouts and message expiry in `drain_queue`
  are not modelled. spec.md names only cancellation on connection close,
  and the transport's timeout handling is not in the repository, so a
  model of it could not be checked against anything.
* Allocator identity (pool or heap) in the queued message is left out. It
  only selects the free path in `destroy`.
* Some resource-factory operations are not modelled:
  * The reactor classes and the time policy manager themselves. They are
    outside the repository, and only the objects they create and delete
    are modelled.
  * The plain getters that return a constant or one member.
  * The failure of the protocol item allocation inside `init`.
  * A failing allocation of the codeset manager's descriptors.
* `init` is called once per factory, as the service configurator does for
  a static service.
* The IDL visitor, the endpoint header and the test glue are not modelled.
  They generate text, declare interfaces or return constants.
* `ACE_Guard::remove()` and `dump()` are not modelled. `remove` destroys
  the lock object and `dump` only prints.
