# External system firmware: a TLA+ model of the framework and its products

The repository is a small bare-metal framework for a Cortex-M microcontroller
(the "external system" of the Corstone-1000 and Corstone-700 platforms) and the
product built on it: a firmware that answers messages of a host processor and of
a secure enclave. This directory holds a model of it in TLA+, checked with TLC on
small instances, and proofs, checked with TLAPS, of what matters most for
instances of any size.

To check a run: `tlc -config FwkThread.cfg MCFwkThread.tla`; the proofs of a
component: `tlapm FwkThread_proofs.tla`, and likewise the seven other modules
whose names end in `_proofs` (the largest takes several minutes).

## 1. Inventory

A reset runs the start-up code and `arm_main`, which calls `fwk_arch_init`: the
heap is set up, then the interrupt controller, then `__fwk_module_init`
initialises, binds and starts every module of the product and enters the run
loop, which never returns. The products build the single-thread runtime with
notifications; modules are `pl011`, `log`, `mhuv2` and `eventhandler`, in this
order. All interrupts have one priority: handlers of lines do not nest; the
non-maskable interrupt and faults may come on top of anything.

| component | source | state | operations | what is hard |
|---|---|---|---|---|
| event runtime | `framework/src/fwk_thread.c` | free, event and interrupt queues of a fixed pool of events; the event being processed | `fwk_thread_put_event` (thread or interrupt), the run loop | interrupts between any two accesses; pool exhaustion; responses, delayed or not |
| multi-thread runtime | `fwk_multi_thread.c` | the pool, the interrupt queue, the queue of ready threads, one event queue per RTX thread, lists of delayed responses | as above, plus `fwk_thread_create` and `fwk_thread_put_event_and_wait` | events put before their thread exists, waits between threads, lost wake-ups, context restored after a wait |
| lists | `fwk_slist.c`, `fwk_dlist.c`, `fwk_list.h` | pointers | push, pop, remove, insert, walk | empty and one-element cases, tails, debug build |
| notifications | `fwk_notification.c` | subscription lists, pool of subscriptions | subscribe, unsubscribe, notify | partial delivery, interrupts in the middle of a notify |
| module framework | `fwk_module.c` | state of modules and elements, `bind_id`, stage | init, two bind rounds, start; `fwk_module_bind`, `fwk_module_check_call` | order of callbacks, optional callbacks, calls outside of their stage |
| memory manager | `fwk_mm.c`, `arm_mm.c` | free pointer and end of the heap | init, aligned allocation, lock | alignment and wrapping of words |
| interrupts | `fwk_interrupt.c`, `armv7-m/arm_nvic.c`, `armv6-m/arm_nvic.c` | enabled and pending lines, vector table and table of handlers with a parameter | initialise, enable, disable, pend, clear, set handlers of lines, of the non-maskable interrupt and of faults | a handler set in several writes; nested exceptions; spurious interrupts |
| start-up and stop | `fwk_arch.c`, `arm_main.c`, `fwk_assert.c` | how far the start-up is | `fwk_arch_init`, `arm_panic`, `fwk_trap` | a check that fails in a handler, or before there is an interrupt driver |
| message handling unit | `mod_mhuv2.c`, `rpmsg_client.c`, `mod_eventhandler.c` | contexts of channels, status registers | init, bind, start; interrupt handler, endpoint callback, commands | interrupts during the boot; overlap of messages in one register |
| rpmsg endpoints | `openamp/rpmsg.c` | list of endpoints, bitmap of addresses | create, destroy, look up | addresses that run out; handlers that walk the list between two writes |
| log and UART | `mod_log.c`, `mod_pl011.c` | driver, transmit FIFO, divisors | formatted output, flush, baud rate | handlers that log while the thread does; formats that end early; integer quotients |
| identifiers | `fwk_id.c`, `fwk_id.h` | none | build, compare, take apart | fields too narrow for an index |
| RTX configuration, build | | none of their own | | |

Components interact by calls (every module calls the API another one gave it at
bind time), through events (the runtime calls `process_event` of the target) and
through registers that interrupt handlers and devices share. The second product,
corstone-700, has the same code but for a clock frequency and a name: `LogFormat`
and `Pl011` are mapped to its copy, the other modules to that of corstone-1000.

What makes each component correct is stated in section 4; the places where it
could go wrong are the hazards of `PROJECT.json`.

## 2. Modules

Order in which they were written, the most important first.

| module | models | extends or composes |
|---|---|---|
| `EventService` | abstract: what the event runtime promises | |
| `FwkThread` | `fwk_thread.c`, at the grain of list operations | implements `EventService` |
| `FwkThread_proofs` | theorems about `FwkThread` and `FwkNotification` | extends both |
| `FwkNotification` | `fwk_notification.c` on top of the runtime | extends `FwkThread`, whose actions it uses |
| `FwkList` | pointer operations of both lists, as functions on a memory | |
| `FwkListOps` | sequences of list operations | uses `FwkList` |
| `FwkList_proofs` | lemmas: what each operation does to the sequence that memory spells | extends `FwkList` |
| `FwkId` | identifiers as packed records | |
| `LogFormat` | `do_print`: the walk of a format and what it puts | |
| `Pl011` | initialisation of UARTs and their divisors | |
| `Rpmsg` | endpoints: list, bitmap, lock, lookups | |
| `EventPool` | the three queues of `fwk_thread.c` pointer by pointer, with interrupts between any two accesses | uses `FwkList` |
| `EventPool_proofs` | the theorem about `EventPool` | uses `FwkList_proofs` |
| `FwkModule`, `FwkModule_proofs` | the life cycle of `fwk_module.c` and `fwk_module_bind` | |
| `FwkMm` | heap set-up and allocation in words of W values | |
| `MCLibrary` | the parts that share no state, one at a time | extends `FwkMm`, `FwkListOps`, `FwkId`, `LogFormat`, `Pl011`, `Rpmsg`, `EventPool`, `FwkModule` |
| `Library_proofs` | theorems about `FwkMm`, `FwkListOps`, `FwkId`, `LogFormat`, `Pl011` and `Rpmsg` | extends all six, uses `FwkList_proofs` |
| `MhuRpmsg`, `MhuRpmsg_proofs` | the firmware at run time: interrupt handler, callback, replies, and the peers | |
| `FwkMultiThread`, `FwkMultiThread_proofs` | `fwk_multi_thread.c` on cooperative threads | |
| `FwkInterrupt` | interrupt drivers of both architectures, and the controller | |
| `FwkArch` | start-up, panic and trap | extends `FwkInterrupt` |
| `LogUart` | the path of a character from a message to the UART | |
| `MhuBoot` | the boot of the message handling unit | extends `FwkInterrupt` and `LogUart` |
| `Interrupt_proofs` | theorems about `FwkArch` and `MhuBoot` | extends both |

`MC*` modules define the constants of the `.cfg` files; `MCLibrary` also composes
its parts, each of which has a specification of its own (`HeapSpec`, `PoolSpec`,
`ModuleSpec`, ...) that the proofs are about.
Operators named `...Leaks`, `...AtHead` and the like, commented "Mutant", are
wrong variants of the operator after them; no specification uses them. They
record what each property can detect (`PROJECT.json`, `mutants`).

### How state and actions correspond to the code

- `FwkThread`: `free`, `queue`, `isrQueue` are the three lists of `ctx`, `slot`
  the contents of event structures, `current` is `ctx.current_event`, `phase`
  where the run loop is, `moving` a structure between two lists. `PutRequest`,
  `PutDelayedResponse` and
  `PutNotification` are the ways a module, in its handler, in a start callback
  or in an interrupt handler, calls `fwk_thread_put_event`; `TakeEvent`,
  `HandlerReturns`, `Release` are the parts of `process_next_event` around
  the handler. `PutEvent` pops the free queue and copies the event, `PushEvent`
  appends it: an interrupt may come between the two, and an interrupt handler does
  both at once. `PopIsrEvent` and `PushIsrEvent` are `process_isr`, split
  because only the pop is masked. The pop of `put_event` is one step although it
  is not masked: when a handler's put comes in the middle (`PopRaces`) the free
  queue may be torn, `torn` is set, and the behaviour ends, as nothing can be said
  of what follows; `EventPool` is the model of that pop. Parameters and
  identifiers are reduced to the module they name.
- `FwkNotification`: `subs` is the table of subscription lists, `notifying` a
  call of `fwk_notification_notify` in progress, per context, since a handler
  may notify while the thread does.
- `EventPool`: `links` are the pointers; the thread's pop has
  three accesses. `Builds` says whether the pop is masked (multi-thread:
  yes, single-thread: no) and whether interrupt handlers put events.
- `FwkModule`: `now` is the callback the framework is in; a callback may fail and
  may bind. `bound` remembers the last request as its target has seen it.
  `IsValid...` and `CheckCall` are what `fwk_module_is_valid_*` and
  `fwk_module_check_call` answer in the present state.
- `FwkMm`: `MmInit` and `Alloc` compute as the code does, modulo W, with any
  alignment. `Overran` says that a block was granted beyond the end of the heap.
- `FwkMultiThread`: `pc` says where each thread is; a thread that waits is
  resumed only when its flag is raised and no other thread runs (one priority,
  no round robin: `firmware/RTX_Config.h`, `init_thread_attr`). `awaits`
  combines `waiting_event_processing_completion` and `response_event`.
  `CreateThread` is `fwk_thread_create` during the boot; `owners` are the
  entities that have a thread, and `ThreadOf` looks the thread of an event up, as
  `thread_get_ctx` does, each time one is put.
- `MhuRpmsg`: `rx` and `tx` are the status registers of each channel as sets of
  bits; `isr` the message the handler has read. The peers are external; `usage`
  says what they wait for before they set bits: the end of an exchange, a clear
  register, or nothing. `unread` are the bits set since the handler last read.
- `FwkInterrupt`: `vector` and `callback` are the two tables, `setting` the call
  of `set_isr_*_param` between its three writes, `running` the exceptions taken,
  innermost first. `arch` chooses the driver: the ARMv6-M has one fault, and a
  `set_pending` that does nothing (`SetPendingV6`). Thread and handlers mask and
  unmask interrupts; which of them may, is a rule of `FwkArch` (`MayUnmask`).
- `FwkArch`: `step` is how far `fwk_arch_init` is; `trapped` says in whose
  context, by the depth of exceptions, `fwk_trap` loops.
- `FwkId`: an identifier is a record of a type and the fields that type has, each
  taken modulo the width of its bit field; `BuildId` makes one out of another.
- `LogFormat`: `at` is the position in a format, `out` what was put, `number` the
  number put last. `Quotients` is the variable `value` of `print_uint64` round by
  round. A format is a sequence of characters, because the walk over
  it is the program; integers have 64 values and words 4096, and the
  undefined negation of the smallest integer may give two results.
- `Pl011`: `BaudRateStatus` and `Divisor` compute in integers, as the code does,
  with the frequencies of the products and the limits of the hardware.
- `Rpmsg`: two callers run `rpmsg_create_ept` and `rpmsg_destroy_ept`, every
  write of the linked list an action; `Walked` is what a handler sees that walks
  the list between two of these writes. An address from `IntLimit` on is negative
  as an int and passes for one of the bitmap: the bit of other memory that is
  read then is set (`AddressNotFree`) or clear (`StrayAddress`), in which case it is
  set there and the behaviour ends.
- `LogUart`: a call puts its characters one by one, each by a look at the flag
  and a write of the data register. Which characters is left out.
- `MhuBoot`: one action per callback and channel, in the order `FwkModule`
  establishes; `device` is `rdev`.

## 3. Bounds

| bound | value | why it is enough |
|---|---|---|
| `Slots` (events) | 2 and 3 | two make pool exhaustion, and an event in each queue, reachable in a few steps; three are one more than `Outstanding`, which `NoAnswerLost` and the liveness properties need |
| `Outstanding` | 2 | what the modules of a product keep to, and what its pool is made for: they put while fewer structures are in use. It is no bound on a run: events come and go for as long as `MaxPosts` admits |
| `MaxPosts` | 2 to 4 (`early`: 2 of them before the threads are created) | an event, its response, and one more that overtakes, or an interrupt in between; with 3 puts and responses every structure is used again; the unbounded case is covered by the proofs |
| entities | 2, one per module | requester and responder; in the multi-thread runs one of the common thread and two with their own, so that chains of two waits exist |
| `Usages` | 4 systems | delayed responses sent from threads and interrupts with a small pool; a chain of waits with a pool that suffices; events put before the threads are created; a module and its element in one thread |
| `MaxSubscriptions` | 3 | two subscribers of one source and one spare |
| list nodes | 4 on 2 lists | insertion before, after and between, on lists of up to four |
| modules | 3, with 2, 0 and 1 elements | present and absent optional callbacks and elements |
| `W`, `Alignments` | 64; 0, 4, 6, 8, 32 | heaps of several blocks, unaligned, tiny, and at the top of the address space, where addition wraps; an alignment that is none, one that is no power of two, those of the heap and below, and one that passes the end of the heap |
| indices of identifiers | 0, the largest that fits, and some between | a field one bit narrower, or one that reaches into the next, shows |
| formats | all of up to four of `% l 0 3 d x`, and the other specifiers; 4 arguments | every state of the walk, and every way for a format to end in it |
| UARTs | 2 products and 72 configurations at the limits; clocks up to 536870911 Hz | quotients at both limits of the divisors; TLC has 32-bit integers, and the code multiplies the clock by four |
| endpoints | 3, 2 addresses, 2 callers, sources 1, 2, 5 and any, `IntLimit` 4 | addresses run out, one is out of range, one is negative as an int; a creation while a destruction is half done |
| lines, `MaxSettings` | lines 0 and 16, handlers set twice | line 16 is the one `irq_invalid` takes line 0 for; a handler set over another |
| `CmdWidth`, `ValueWidth` | 2 bits each | all commands and an unknown one; a value that wraps |
| `MaxRequests` | 3, and 2 for hosts that do not wait | a message while another one is handled, on two units, and between the read and the clear of the same register |
| channels and lines | 2 channels with the numbers of the product (lines 2 and 6), line 0 of another module | numbers matter: `irq_invalid` mistakes an exception number for a line |
| `Size`, `FifoSize` | 2 characters, 1 place | the FIFO is full between any two characters |

Event structures are interchangeable, so that symmetry is used in the two runs
without liveness properties in which they are model values compared only for
equality.

## 4. Runs

| run | shows |
|---|---|
| `event_loop` | no event structure is lost or in two places until a put races with a pop (`SlotsConserved`); events of a context are handled in the order they were put (`FifoPerContext`); responses can be routed and reach who asked (`AnswersGoHome`) and a request is in one stage of its life at a time (`OneStagePerRequest`); the queues implement `EventService` |
| `event_loop_live` | with one structure more than modules have outstanding no response is lost, structures return to the pool, and requests are answered or owed an answer by who delayed it |
| `notification` | subscription structures are conserved; the events queued by a notify and its count follow the subscription list even if a handler interrupts it |
| `pool_race` | violation: the unmasked pop of the single-thread runtime, with a handler that puts events, puts one structure in two queues |
| `library` | Heap: blocks are inside the heap section and disjoint until the padding of one passes the end. Lists: pointers spell the sequence the operations define, both ways, and the checks of the debug build never trap. Identifiers: built in one step or several, they are told apart and taken apart by what they stand for, as long as the indices fit, and their strings fit the buffer. Log: numbers read back as they were printed, documented formats are accepted, and no format is read past its end. UART: an enabled device has divisors its registers hold and the closest ones to its baud rate from above; a device whose rate is refused stays disabled. Endpoints: addresses of the bitmap are owned by one endpoint each, and handlers find what is registered between any two writes. Queues of the runtime: they stay well formed and share the structures without loss when the pop is masked, or when no handler puts events (the products). Modules: order of callbacks, meaning of the recorded states, targets that can serve a bind request, and who it is said to come from |
| `heap_alignment` | violation: a large alignment makes a block lie outside of the heap |
| `rpmsg_address` | violation: endpoints share RPMSG_ADDR_ANY when the bitmap is full |
| `interrupts` | a handler runs as it was set although setting takes three writes and exceptions nest, and `fwk_interrupt_get_current` names what it was set for; after a failed check of a debug build no handler of a line starts |
| `mhu` | no bit is read twice, and none is lost but one that is set again before it is cleared, whenever it comes; a message to a clear register is handled once and whole; what is sent in an exchange is the right command, every INC_RETURN is answered unless the incremented value is zero; channels drain |
| `multi_thread` | structures conserved; one thread runs (`OneRuns`); each ready thread is in the ready queue once and no other is (`ReadyOnce`); a handler that waited finds its thread and event again and runs on the thread of its entity or module, also when the thread is created while events wait; a waiting thread gets the answer to its own request, at once; ready threads and interrupt events are served; waits end |
| `multi_thread_chain` | violation: with a chain of waits that ends in a delayed response the system may sleep without listening to interrupts |
| `mhu_boot` | a handler finds endpoint, log and event handler from the first interrupt on; what a handler logs, and the banner, come out whole; every message is served |

The state of each module is typed by its `TypeOK` (`NTypeOK`, ...). Most are a
conjunct of an invariant of a run; that of `FwkThread` is proved instead,
that of `FwkMm` is proved with its invariant. `library` checks in one run what
has no state in common, so that its states are the sum of those of the parts and
not their product.

Event structures are interchangeable. `event_loop` uses this as a symmetry, which
is not sound for liveness: `event_loop_live` starts from one order of the table
instead (`MCInit`).

Deadlock is checked in the run of the pool race. The other systems
may really stop: once the modules have put their `MaxPosts` events the loop has
nothing to do, an allocation series or a boot ends. What they must
still do before they stop is said by the liveness properties.

### Fairness

- `FwkThread`, `FwkMultiThread`: weak fairness of the steps of the run loop: the
  processor never stops and handlers return. In particular nothing is assumed
  about what modules put. Only requests and notifications are bounded; a
  module that posts to itself for ever starves the interrupt queue by design of
  the loop, and the properties do not claim otherwise.
- `MhuRpmsg`: the handler is taken and returns, and peers read their answers.
  Nobody has to send, and hosts that wait for nothing may send at any time.
- `MhuBoot`: strong fairness of the thread's steps: it gets the processor between
  interrupts, long enough for the UART to send a character, as devices do not
  signal as fast as they are served. Interrupts are taken when they are
  unmasked, which the controller guarantees, and handlers return.

## 5. Proofs

A theorem holds for every value of the constants that the assumptions of its
module admit; those are what the code and its documentation say of a product:
finite pools, entities that belong to modules, identifiers that differ. Some
theorems have hypotheses of their own: `SoundBuilds` and `~IsrPuts` are there
because the code breaks the property without them (section 6), and so is
`FieldsFit`, as nothing in the code checks that indices fit their bit fields;
`OwnEnclave` says how the products are wired. Two assumptions on constants carry
an argument of the code rather than a type: `BufferAssumption`, that twenty decimal digits are enough for the wider
word (`mod_log.c:70`, "Just need enough space to store 64 bit decimal integer"),
and in `MhuBootAssumption`, that channels, their lines and the registers they send
on are different (`config_mhuv2.c`).

| theorem | property | inductive invariant |
|---|---|---|
| `FwkThread_proofs!TypeCorrect` | `TypeOK` | `TypeInv` |
| `Conservation`, `ConservationUnraced` | `SlotsConserved`, `WholePool` | `WholePool`, with `TypeInv` |
| `FifoOrder` | `FifoPerContext` | `FifoInv` |
| `ResponsesGoHome` | `AnswersGoHome` | `HomeInv` |
| `RequestsTracked` | `OneStagePerRequest` | `StageInv` |
| `ResponsesNeverLost` | `NoAnswerLost` | `Dimensioned`, with `WholePool` |
| `ImplementsService` | `ImplementsEventService` | `MovesIntoEmpty` |
| `RuntimeUnderneath` | `NSpec => Spec` | `Calling` |
| `SubscriptionsKept` | `SubscriptionsConserved` | `Linked` |
| `BatchInOrder` | `BatchFollowsSubscriptions` | `BatchInv` |
| `FwkModule_proofs!StagesInOrder` | `CallbackOrder` | `ModuleInv` |
| `StatesMean` | `StateMeans` | `ModuleInv` |
| `TargetsReady` | `TargetReady` | itself, with `ModuleInv` |
| `Interrupt_proofs!HandlersCalledAsSet` | `CalledAsRegistered` | `CallInv` |
| `TrapStops` | `TrapFreezes` | `TrapInv`, with `CallInv` |
| `HandlersFindEverything` | `IsrFindsEverything` | `BootInv` |
| `MessagesEnterWhole` | `LogsWhole` | `BootInv` |
| `FwkMultiThread_proofs!OneThreadRuns` | `OneRuns` | `Inv`, for all of these |
| `ThreadsReadyOnce` | `ReadyOnce` | |
| `ContextKnown` | `ContextRestored` | |
| `CallsAnswered` | `AnswersTheCall` | |
| `StructuresConserved` | `PoolConserved` | |
| `WaitersFirstServed` | `ResumedImmediately` | |
| `EventPool_proofs!PoolStaysPartitioned` | `PoolPartition` | `PoolInvariant` |
| `Library_proofs!ListsAreSequences` | `ListsRepresent` | `ListsInvariant` |
| `BlocksStayInHeap`, `BlocksStayApart` | `BlocksFit`, `BlocksApart` | `HeapInv` |
| `DocumentedAccepted` | `FormatsAsDocumented` | `WalkInv`, with `WalkTypeOK` |
| `NumbersComeBack` | `NumbersReadBack` | `NumberInv`, with `WalkInv` |
| `RatesKept` | `BaudRatesKept` | `UartInv` |
| `IdentifiersFaithful` | `IdsFaithful` | `IdInv` |
| `AddressesStayOwned` | `AddressesOwned` | `AddressInv` |
| `LookupsAlwaysFind` | `LookupsFind` | `ListInv`, with `AddressInv` |
| `MhuRpmsg_proofs!MessagesHandledOnce` | `HandledOnceAndWhole` | `ReceiveInv` |
| `AnswersComeWhole` | `AnswersWhole` | `ExchangeInv` |

### Event runtime

`TypeOK` is not inductive: that `TakeEvent` leaves an event in hand needs to know
that nothing was in hand, and that a response names existing entities needs the
same of the event it answers. `TypeInv` adds `HandsMatchPhase` (what the run
loop holds, by phase) and `EndpointsExist`. `WholePool`, which `SlotsConserved` says
of states before a race, is inductive with it; `ConservationUnraced` adds that
there is no race where handlers put no events.

- Order: an event of an interrupt handler changes queue on its way, so `FifoInv`
  speaks of three places: both queues are ordered, and events of the event
  queue precede the one that moves, which precedes those left behind.
- Responses: `HomeInv` says of every structure in use, and of every response that
  a module still owes, that answering it goes to who asked. `StageInv` lists the
  stages of a request; that the structure which carries it is unique needs that
  numbers of requests are those of events already put (`NumbersUsed`).
- Losses: modules put while fewer than `Outstanding` structures are in use, so at
  most that many are when a response is sent (`Dimensioned`); the structures in use
  are counted (`OccupiedCount`), and if none were free their number would be that of
  the pool (`PoolEmpty`), which is larger. No bound on the number of puts enters.
- Refinement: the abstract queue is the event queue, the event that moves and the
  interrupt queue, in this order. Only when `process_isr` moves an event could the
  order differ, and then the event queue is empty: `MovesIntoEmpty`. An event that
  the thread itself puts is accepted when it is appended.

### Notifications

`RuntimeUnderneath` shows that a step of `NSpec` is a step of `FwkThread` or leaves
its variables alone, so all theorems above hold with notifications. `Linked` counts
the structures in subscription lists and free ones. `BatchInv` describes a call
in the middle: what is left to do is the end of the list, and what the call has
queued, apart from what handlers put in between, is the beginning.

### Module framework

The loops of `fwk_module.c` visit the callbacks in the order of a rank (`Earlier`):
part of the start-up, round, module, place among the callbacks of the module.
`ModuleInv` says that what `CallbackOrder` requires of a callback is done,
what states mean in terms of callbacks that have returned (`StateInv`), which
entities are started (`StartedInv`), and that `bindId` names the caller while a
callback of a stage before the start runs (`BindIdInv`).

### Interrupts and traps

`IrqInv` speaks of the state of `FwkInterrupt` alone and is shared by the two
specifications that extend it; each operation and each exception keeps it. Between
the three writes that set a handler its exception cannot come (`SettingInv`), all
other exceptions would run what was last set for them (`TablesAgree`), and those
that run do (`RunningInv`). `CallInv` adds that there is no driver before
`interrupt_init` (`StepsInOrder`). `TrapInv`: the exceptions above a failed check
return to it and are of no line, which alone may unmask, and lines are masked if
any can be enabled.

### Boot of the message handling unit

`BootInv` has three parts besides `IrqInv`:

- `StagesLeave` says what each stage of the boot leaves behind: the channels whose
  element is initialised have their endpoint, with the address of the receiver, and
  those that are bound have the log. `ChannelsServed` says that a line enabled for a
  channel has its handler set with the channel as parameter, and that nobody else
  sets it. With `TablesAgree` the handler that runs is the one of that channel,
  which is `IsrFindsEverything`; without it, a handler set in three writes might
  be entered with the parameter of another.
- `LogInv` is the argument for `LogsWhole`. A context that is in the middle of a
  message puts its next character (`IsrLine`, `ThreadLine`); the last character in
  the FIFO, if its message is not complete, is followed by the next one of the same
  message, because its writer is still there and nobody can come between
  (`LastGoesOn`): a handler runs to its end, and the banner is put before any
  handler is enabled. `BannerFirst` says which stages come after it.
- `BootTypeOK`.

### Multi-thread runtime

The safety properties are proved together, from one invariant `Inv`, since
they need each other. `TurnInv`: at most one thread runs or has been told to, and
`PlaceInv`: a flag that is raised finds its thread where it waits for it.
`EventInv` types what is queued, handled and stored. `CarrierInv` and
`AwaitInv`: a cookie that a thread waits for is carried by one event in one place,
and cookies are never used again, so that the response that matches is the
right one. `ReadyInv`: the queue of ready threads follows from where threads are
and from what is queued for them. `PoolInv` counts the structures in use,
`HomeInv` ties an event to the thread of its target. `WaitersFirstServed` is an action
property: the thread whose answer is dispatched is the next one that runs.

### Lists and the queues of the runtime

`FwkList_proofs` holds lemmas only. `Spells(m, L, s)` says that the pointers of
memory m spell s from L on without repetition, `SpellsBack` that they do so backwards.
For each operation a lemma says what sequence the list spells afterwards, which
cells it has written (`Touches`), and, in a debug build, that pointers are cleared.
Walks are recursive functions on numbers (`Walk`, `Chain`); what they compute is
proved without an induction rule for operators: the set of numbers for
which a statement fails has no least element (`LeastNumber`).

- `ListsAreSequences`: `ListsInvariant` says of every list that it spells its
  sequence, that sequences share no node, and that the loose nodes are those in no
  sequence. An operation that touches only its own list and a loose node leaves the
  other lists as they are (`OthersStay`). `WalkBound` is large enough as a
  sequence without repetition is not longer than the number of nodes. To reason
  about the history variable, removal and insertion are stated by position in it
  (`PlaceOf`).
- `PoolStaysPartitioned`, under `SoundBuilds`: in every build the pop of the thread is
  masked or no handler puts events. `PoolInvariant` says that there is a memory m in
  which three queues spell disjoint sequences, that the present memory is m, or m
  with the first write of a pop done (`TailFixed`), and that the structure a pop has
  read is still the head of the free queue. A handler that takes a structure during
  the pop would take the same one; `SoundBuilds` excludes it.

### Heap

`HeapInv`: pointers are in order, the end is aligned, and all blocks lie before
the free pointer, until a block starts past the end. A start that is not past it
is what it is without wrapping, and so is the room behind it (`NoWrap`); a start
that is past it makes `Overran` true for good. No alignment is excluded.

### UART and identifiers

Both are arithmetic on bit fields. `UartInv` says of every device that is enabled
that its registers hold the quotient of `set_baud_rate` and that the remainder is
smaller than the rate (`RatesProgrammed`); the quotient fits the registers because
of the two checks of the code. `IdInv` says what every identifier stands for; that
the fields of the types do not reach into each other (`SubElementApart`) makes two
identifiers equal only if they stand for the same (`StandsForOne`). The length of
the string form follows from the number of digits of each index (`IndexDigits`).

### Formats of the log

Both theorems are about every format, argument and size of words.

- `DocumentedAccepted`: a format is documented if there is a set of places, where
  its characters and specifiers start (`StartsOf`). `WalkInv` says that the walk is at
  one of them, or within a specifier whose rest ends in front of one (`Ahead`),
  for every such set. A specifier that goes on does so in one of three
  ways, whatever its length (`SpecifierAhead`): `do_print` accepts each of them.
- `NumbersComeBack`: the digits are remainders of successive quotients, and
  reading them from the left gives the quotients in the opposite order, up to the
  value (`DigitsReadBack`). The loop ends within the buffer, as quotients of a smaller
  value by a base that is not smaller are not larger (`BufferSuffices`).
  `NumberInv` says that the number put last is still where it was put, whatever
  came behind it. As with lists, what the recursive functions compute is proved
  with least elements instead of induction.

### Endpoints

`AddressInv`: an address of the bitmap is marked exactly while an endpoint is registered with it
or about to be (`Addressed`), callers work on different endpoints, and one that
writes holds the lock (`CallFits`).

The list is another matter, as handlers walk it without the lock. `ListInv` says
that there is a way r along the next pointers, from the head past n endpoints and
back to it, at every moment: an insertion changes it with its last write only
(`Lengthened`), a removal with its second (`Shortened`). The prev pointers lead
back along r except where a caller has not got to yet (`Behind`), and `Written`
says what the caller at work has written already, which is what its next write
reads. A walk then follows r to the head (`WalkIsTheWay`): the recursion has one
solution (`OneWayOnward`), and n is bounded by the number of endpoints. It meets
what is registered, and an endpoint that is being taken off; that one has given
its address back, so a lookup by address does not return it (`AllFound`).

### Messages

Three kinds of peers, one theorem: `BitsInv` says of every register, whenever its
bits are set, that it holds what was set since the last read and what the handler
has in hand; the handler clears by value, so it leaves what came since, except for
a bit that was set a second time. If peers write only clear registers, `ReceiveInv`
adds that a register is clear or holds the last message of its sender, and one that
has been handled is about to be cleared.

Nothing in `send_message` keeps two answers out of one register; that takes the
peers. In an exchange, and under `OwnEnclave`, `OneToken` says that a
host and its enclave have one message at a time: unhandled in a receive register,
unread in a send register, or owed by the enclave. Each step consumes one and
produces at most one, and a host starts an exchange only when there is none; so a
register the firmware sets bits in is clear. `OwnEnclave` is what
`mod_eventhandler.c:73-76` gives with one endpoint of the enclave for each unit.

### Only model-checked

- Liveness, which is out of the prover's reach: `EventsReturn`, `RequestsSettle`,
  `ReadyServed`, `WaitsEnd`, `IncReturnAnswered`, `ChannelsDrain`, `MessagesServed`.

Every invariant and every action property of a run that is not a liveness property
is proved. The violation runs are counterexamples and stay with TLC.

## 6. Disagreements found

Four have a run of their own:

- `framework/src/fwk_thread.c:40`: the pop of the free queue is not masked
  (`pool_race`). The two products are not affected: no handler of theirs puts
  an event. What the other properties of the single-thread runtime say of a system
  whose handlers do, they say until such a put comes inside a pop (`torn`).
- `framework/src/fwk_multi_thread.c:893`: `fwk_thread_put_event_and_wait`
  does not tell the common thread that nobody is ready
  (`multi_thread_chain`), as the comment at lines 533-537 describes for the
  other caller of the same function.
- `framework/src/fwk_mm.c:88`: `heap_end - start` wraps if the alignment moves
  the start past the end, and the request is granted (`heap_alignment`); the
  comment above says that it ensures that the request fits. It takes an alignment
  larger than that of the heap, such as that of the vector table
  (`armv7-m/arm_nvic.c:306`), and a heap that is nearly full.
- `framework/src/openamp/rpmsg.c:26-34`: when the bitmap is full, endpoints are
  registered with RPMSG_ADDR_ANY, which they share (`rpmsg_address`); lines 17 and 22
  promise a unique address.

Others were met while modelling and have no run:

- `framework/src/fwk_module.c:645`: bind requests of the running system succeed,
  `fwk_module.h:445` documents FWK_E_STATE. `rpmsg_client.c` relies on it.
- `framework/src/fwk_module.c:652`: in `post_init`, `start` and the running
  system the source of a bind request is whoever was bound last, not the
  requester `fwk_module.h:229` documents.
- `framework/src/fwk_notification.c:136`: a subscriber is skipped if no event
  structure is free, and FWK_SUCCESS is returned, documented at
  `fwk_notification.h:69` as: all subscribers were notified.
- `mod_mhuv2.c:104`: the reply is written whatever the receiver has not read
  yet; a peer that does not wait gets the union of two values. `AnswersWhole`
  is about peers that exchange one message at a time.
- `mod_mhuv2.c:70`: a bit of a message that is set again after STAT was read is
  cleared with it, and the second message is lost or loses that bit. A peer has to
  wait for the register to be clear. `HandledOnceAndWhole` says what is kept for
  peers that do not.
- `mod_pl011.c:99`: a character of the thread is lost if a handler that logs
  fills the FIFO after the thread has found room in it. `LogsWhole` says
  whose messages are safe: those of handlers, and the banner.
- `fwk_multi_thread.c:342`: the response to an event goes to the thread of the
  entity that asked (`thread_get_ctx`). An entity that calls
  `fwk_thread_put_event_and_wait` while it handles an event that was put before
  its thread was created runs on another thread, which is never woken. `WaitsEnd`
  is stated for callers on their own thread.
- `fwk_multi_thread.c:831`: a delayed response that an interrupt handler sends is
  copied into a structure of its own (`put_isr_event`), and the one kept in the list
  of delayed responses of the sender is never taken out: each such response
  costs the pool a structure for good. `PoolConserved` counts it as held.
- `openamp/rpmsg.c:65`, `212`: the source address, a `uint32_t`, is compared as
  an `int`: one from 2^31 on is smaller than the size of the bitmap, and a bit far
  outside of it is read and set. The model ends there (`StrayAddress`). The
  products ask for any address only.
- `openamp/rpmsg.c:219`: creating an endpoint with an address in use returns
  RPMSG_SUCCESS although the endpoint is neither initialised nor registered.
- `mod_log.c:106`: the smallest integer is negated before it is widened, which is
  undefined. `NumbersReadBack` leaves it out.
- `mod_pl011.c:32-82`: with a baud rate above a sixteenth of the clock the integer
  part of the divisor is 0, which the hardware does not support, and the
  configuration is accepted. `BaudRatesKept` says which rates are kept.
- `armv6-m/arm_nvic.c:128`: `set_pending` does nothing and returns FWK_SUCCESS.
- `armv7-m/arm_nvic.c:266`: `irq_invalid` disables the line with the number of the
  exception, so that the spurious line stays enabled and the one 16 above it,
  if there is one, is disabled.
- `armv7-m/arm_nvic.c:202`: a handler with a parameter of the non-maskable interrupt
  is set by three writes nothing can protect. The models assume that this
  interrupt is not raised meanwhile, that no handler enables a line whose
  handler the thread is setting or unmasks interrupts then, and that the handlers of
  the non-maskable interrupt and of faults do not unmask: one that did would let
  handlers run after a failed check.
- `arm_main.c:22`: `arm_panic` waits for interrupts with interrupts enabled: the
  handlers modules have set before another one failed keep running. `FwkArch`
  includes them.

## 7. What is not modelled, and why

- getters of names, data and element tables (`fwk_module_get_name`, ...): they return
  constants of the configuration;
- the errors of RTX calls in `fwk_multi_thread.c`: its threads and flags exist, and
  the calls are made in the context the kernel asks for;
- `fwk_unreachable` of the release build: undefined behaviour on purpose;
- what becomes of the announcements of the name service of `rpmsg.c`: an announcement
  may succeed or fail. The transport is `send_rpmsg`, which `init_rpmsg` installs; it
  would look for a channel with the register 0x35 (`RPMSG_NS_EPT_ADDR`), find none, and
  go on with the identifier of an element -1 where assertions are off
  (`mod_mhuv2.c:83`). Only endpoints of any destination are announced, and the
  products create none;
- the run-time library before `arm_main`, linker scripts, build, and the
  configuration of the kernel (data the multi-thread model relies on: no
  round robin).

## 8. Plan

The modules and the theorems that were planned are written. What is left is out
of reach of the prover: liveness, which TLC checks on the instances of section 3.
