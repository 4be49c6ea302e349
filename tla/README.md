# Formal model of Técnicas Digitales 3 (R5054, 2024)

TLA+ modules, TLC configurations and TLAPS proofs kept beside the two halves of
the repository:

* `src/01_cuat`: bare-metal exercises on a Cortex-A8. Exercise 5 (`tp_01_05`) is
  their sum: startup, MMU tables, a periodic timer and a preemptive scheduler of
  three tasks.
* `src/02_cuat`: a sensor service on Linux. A kernel driver reads an MPU6050 over
  I2C (`04_driver`); a server forks a reader of that driver, or a script that
  makes random numbers, keeps the latest sample in shared memory and forks a
  child per client (`01_server`); a client shakes hands and prints (`02_client`).

Everything that follows describes the source, not the exercise texts. Where a text
or a comment says something else, this is either one of the five violation runs or
listed under "Disagreements without a run".

## Inventory

| Part | State | Operations | Talks to |
|---|---|---|---|
| Scheduler: `handler.s`, `kernel_handlers.c`, `scheduler.c` | `ticks`, `dirty`, `current_task`, `next_task`, three `Task` structures, a stack per mode and task | IRQ entry, `kernel_handler_irq`, `scheduler`, `cargar_contexto` | the timer (interrupt), the tasks (their registers), the MMU (TTBR0) |
| Startup, timer, GIC: `startup.s`, `board_init.c`, `timer.c`, `gic.c` | stacks and first frames | run once | build what the scheduler starts from |
| Tasks: `tareas.c` | a program point, a region of memory each | endless loops | interrupted by the scheduler |
| MMU tables: `mmu_tools.c`, `board_init.c` | four translation tables | `MMU_MapNewPage`, TTBR0 changes, TLB invalidation | used by every access of the tasks and the kernel |
| Shared memory: `shared_memory.c` | `client_count`, `data`, a System V semaphore, one `sembuf` per process | write, read, increment, decrement, get, lock, unlock, cleanup | called by all processes of the server and by their signal handlers |
| Process tree: `server.c` | the processes, the listening socket, `client_count`, pids, signal dispositions | accept, fork, `handle_client`, `my_exit` | signals, shared memory, clients |
| Signals: `my_signals.c` | dispositions | handlers of SIGCHLD, SIGINT, SIGUSR1, SIGUSR2 | run on top of any of the above |
| Sensor reader: `driver_handler.c` | sample buffers, filter history | `prodSensorData`, `firFilter` | driver (`read`), shared memory (write) |
| Configuration: `config_handler.c` | limits, mode, window, coefficients | load, reload | server, sensor reader |
| Client: `client.c` | a socket, a lifetime | handshake, receive loop | `handle_client` over TCP |
| Script: `random_generator.sh` | a file | write a number, SIGUSR1 | server |
| I2C transfers: `td3_i2c_fcc.c` | `I2CData`, `I2CWakeUpCondition`, the controller's registers | `FCCi2cWrite`, `FCCi2cRead`, `FCCi2cHandlerIRQ` | the controller (registers, interrupts), sleeping processes |
| Device operations: `td3_i2c_fcc.c` | FIFO containers, sensor registers | open, read, close, `MPUInit`, `MPUReadFifo` | I2C transfers |
| Driver life cycle: `td3_i2c_fcc.c` | what is registered | init, exit, probe, remove | the kernel |

What is hard in them, and what makes each correct:

* **Scheduler.** An interrupt comes between any two instructions of any task; the
  handler saves half of the context by hand and the other half by hardware.
  Correct means: a task resumes at the point and on the stacks it had, in its own
  address space; time is cut into fixed frames; nobody is starved.
* **Shared memory.** Several processes and, inside one process, a handler on top
  of the main flow, all with one `sembuf`; `semop` fails with EINTR or EIDRM at
  any time. Correct means: mutual exclusion, no torn string, no lost update, and
  an end for everybody once the semaphore is removed.
* **Process tree.** Several acceptors (the children go round the same loop), a
  test of the count that is not atomic with the fork, deaths counted by a signal
  handler, one `my_exit` that must end them all. Correct means: the limit on
  clients holds and the tree ends.
* **I2C.** Interrupts, a wake-up flag, a sleep that cannot and one that can be
  interrupted, no mutex. Correct means: a transfer returns when its bytes have
  moved, not earlier and not never, and frees the bus and its buffer.
* **MMU tables.** Four tables scattered over memory by the linker script, pages
  mapped in loops that go past the end of their areas, a change of table without
  invalidating the TLB. Correct means: each task has the address space the linker
  script draws, no task can reach a table, and no entry left in the TLB contradicts
  the table in force.
* **Conversation.** A stream cuts and joins messages, either end may go at any time,
  each has a receive timeout, and one never reads what the other sends. Correct
  means: both ends agree that the greeting is over, the client ends up with the
  present value, and neither waits for ever.
* **Reader and configuration.** `config.ini` is loaded again every turn and on every
  SIGUSR2, by a handler on top of the loops that use what it sets. Correct means:
  the filter stays in its buffers and its coefficients come from one file.
* **Device operations.** No transfer's result is looked at, lengths go through an
  8-bit and a 16-bit counter, the sensor fills its FIFO meanwhile. Correct means: a
  read returns, inside the caller's buffer, whole samples of this very read.
* **Driver life cycle.** Each call of the set-up may fail, some with an error pointer
  where NULL is tested, and the device may be opened before it is probed. Correct
  means: a module that is out leaves nothing behind, and registers are mapped while
  they are used.

`PROJECT.json` lists every hazard at its line, with the properties that cover it.

## Modules

| Module | Contents |
|---|---|
| `FrameSchedule` | Abstract specification: time is a sequence of frames, each tick has a fixed owner. |
| `Scheduler` | The scheduler of exercise 5. |
| `SchedulerProofs` | Its invariants, context restoration and refinement, proved. |
| `SharedMemory` | The semaphore, the segment and the flows that use them. |
| `SharedMemoryProofs` | Exclusion, whole strings and the exact count, proved. |
| `Server` | The process tree, with each operation on the shared memory as one step. |
| `ServerProofs` | The cover of the count and the limit on clients, proved. |
| `I2CTransfer` | Transfers, interrupt handler and controller. |
| `I2CTransferProofs` | That transfers return with their bytes moved and never outside a buffer, proved. |
| `AddressSpaces` | Abstract specification: translations built page by page, then fixed. |
| `MmuTables` | The tables `board_init` writes, and the accesses that go through them and the TLB. |
| `MmuTablesProofs` | Tables out of reach, no stale entry, two possible aborts, and the refinement, proved. |
| `Connection` | `handle_client` and the client over a TCP connection. |
| `ConnectionProofs` | The greeting and the client being up to date, proved. |
| `DriverLifecycle` | Loading, probing, opening and removing the driver. |
| `FifoRead` | Setting up the sensor and reading its FIFO. |
| `SensorReader` | `prodSensorData`, the filter and the configuration. |
| `Device` | The last three composed. |
| `DeviceProofs` | Life cycle, registers, bounds, coefficients and published sample, proved. |
| `MC...` | The instances TLC checks. |

### Scheduler

One interrupt is three actions, because the timer may expire in between:
`IrqEntry` (handler.s:57-138), `KernelHandlerTimer` or `KernelHandlerOther`
(kernel_handlers.c:13-42), `CargarContexto` (scheduler.c:168-244).
`KernelHandlerTimer` contains the whole of `scheduler()`. `TaskStep` is one step
of whatever owns the registers. Banked registers are explicit: `sp` for the five
modes that are saved, `irqSp` for the one that is not, and `frame` for what lies
on each IRQ stack. A stack pointer is the stack it points into and a depth, r0-r12
with the pc are one abstract point, and the condition flags are a value apart,
because the code treats them apart.

`dirty` starts at 0: the initialiser `dirty = 1` lies in `.data`, which the image
holds at its load address and nobody copies to 0x70031000, where RAM is zero. The
first interrupt then takes the path written for it. `saved` is a history variable,
the context a task had when it was last interrupted. `KernelHandlerOther` ends in
`pc = "lost"`: handler.s:140-142 pops words that were never pushed.

Taken for granted: the kernel's code can be fetched under each task's tables.
`MmuTables` says how far this is so.

### SharedMemory

An activity is a flow of a process, `<<p, "main">>` or `<<p, "handler">>`. The
handler runs on top of the main flow, which stands still (`Runs`). `sem_op` is the
field of the process's only `sembuf`. `semop` is one atomic step of the kernel,
`SemopLock` and `SemopUnlock`, and the assignment to `sb.sem_op` before it is part
of the step before, so a signal falls between the two. A blocked `semop` that a
handler interrupts returns EINTR and is retried with whatever `sem_op` then holds.
`First` and `Second` are the two halves of each critical section. `my_exit` is three
steps, and a handler may run between any two of them: `MyExit` calls it, after failed
retries, by itself (`Quit`) or from `sigint_handler` (`Interrupt`); `Detach` is its
`shmdt`; `Leave` removes the semaphore for everybody, sends the signals that end the
driver's child (`Kills`) and ends the process. A handler that runs after `Detach` dies
at its first access of the segment (`Segfault`), with the unit it has taken. The history
variable `misfired` says whether a `lock_semaphore` has added to the semaphore,
`orphaned` whether a process has died between lock and unlock; `net` counts completed
updates.

### Server

`pc` maps each process to a place in `main`, `handle_client` or the producer's
code. `Child` is the finite set of pids available to forks for clients, so it
bounds them. `Casualties` is what `kill(random_pid, SIGUSR1)` and
`kill(driver_pid, SIGUSR2)` of `my_exit` do: in the processes where a pid is 0 the
signal goes to the whole group. `PcAfterDeath` makes zombies where the parent
handles SIGCHLD. `mode` is `producer_mode`. `owing` (history) names those that have
forked and not yet counted, `driverReaped` (history) says that the producer's
death has been taken for a client's. A child in `handle_client`'s loop may find no room
for its `send` and is then `blocked` until the client reads or goes (`Unblock`); no
timeout ends that.

Left out: a signal handler that interrupts an operation on the shared memory
(SharedMemory has it; here neither a self-blocked handler nor a `my_exit` that a handler
cuts short exists), the mode-0 data
handler (it does not change the tree) and the words of the conversation.

### I2CTransfer

`pc`, `op`, `len`, `tries` are the locals of one call per process; `Poll`, `Start`,
`Wake`, `Finish` are the parts of FCCi2cWrite and FCCi2cRead between the points
where another process or an interrupt can come in. `Byte` is FCCi2cHandlerIRQ for
one byte. `Interrupt` is a signal that ends the sleep of a read, which then finishes
as if its bytes had come: `estado` is unsigned (line 455), so the test for a negative
result is never true and lines 532-536 are dead. `NoMemory` is the read whose buffer
cannot be allocated. The interrupt handler's read-modify-write of IRQENABLE_CLR masks
all interrupts (`Masked`). The
controller (`busy`, `cnt`, `dir`, `stp`, `enabled`) is external, and as simple as
the driver's use of it allows: it moves CNT bytes after START and stops when asked.
It never loses an interrupt and the sensor always acknowledges. `moved` (history)
collects the places of the buffer used since the last START. The sleepers of a
queue are not told apart, so `wake_up_interruptible` is taken to wake a writer
too; this concerns processes that share the device only. Once the handler has
used a place past the end of a buffer, `outside`, the bus stands still.

### MmuTables and AddressSpaces

A page is its number, memory a function on the words the tables have been given so
far. `MapPage` is one turn of a loop of `board_init` and writes the two words that
`MMU_MapNewPage` leaves; `loop` and `page` are the place in the loops, taken in the
order of the code. `Walk` is the hardware's walk of the tables. Once the MMU is on,
`RunStep` is an access of the interrupted code, `HandlerStep` and `ReturnStep` those of
the interrupt code before and after the switch, page by page. In between are
`SwitchStep`, the accesses of `MMU_Set_TTBR0_task` up to its MCR, and `SetTtbr0`, the MCR
alone: the function's epilogue, which takes `fp` back from the stack it was called on (the
build does not optimise), is already under the new table, at the beginning of `ReturnStep`.
`left` is the table that was in force before.
A miss loads an entry and may evict any other. `SpacesRefinement` maps what `Walk`
finds in memory to the translations of `AddressSpaces`: a write into one table that
touched another, or lost a page mapped before, would be no step of that specification.
What the model brought out:

* The loop over a task's text goes one page too far. For T2 that page is the virtual
  page of its stack; it is the stack's loop, which comes later, that puts it right.
* The tasks reach `.data` (and `dirty` in it) only because the loop over the kernel's
  RAM goes 0x1000 past its end.
* `MMU_Set_TTBR0_task` lies in ROM, which no task's table maps, so every switch but
  the first relies on the entry of that page loaded before, and its epilogue pops from the
  stack of the task it came from under the table of the task it goes to, which maps another
  stack: `OnlySwitchAborts` says that these are the only accesses that can abort. They work
  on a TLB that happens to keep the entries.
* The entries are global and no switch invalidates them. `NoStaleEntry` holds because
  the tasks' virtual pages are apart, not because of the code.

### Connection

The stream is cut into units, two for a message and one for a KA, and a `recv` takes
any number of those under way. `toClient` and `toServer` hold what is under way, at
most `Cap` and `CapReply`. An end is `open`, `fin` (closed) or `rst` (reset): closing
with data unread resets, sending to a closed end is answered with a reset, sending
into a reset one fails or raises SIGPIPE. `srv` and `cli` are the places in
`handle_client` and in the client's `main`. `last_sent` is static and outlives the
connection: the next client meets a fork of the process that served the last, the
worst case. `buffer` holds the first two bytes of the client's buffer, because after
an empty `recv` the code compares what was there before. `agreed`, `ended`, `split`,
`lastTaken`, `lastShown` are history. Timeouts may come whenever nothing is under way.

### DriverLifecycle, FifoRead, SensorReader, Device

`Device` takes the other three as named instances and joins them where they meet:
`open`, `read`, `close`, and every transfer needs the registers that the probe maps.

* `DriverLifecycle` has one action per call of `driverInit`, `FCCi2cProbe` and their
  inverses, each of which succeeds or fails as the kernel reports it. `class_create`
  and `device_create` return error pointers, so the tests for NULL never fire: the
  first failure kills `insmod` with the module half loaded (`at = "dead"`), the second
  is not noticed. `platform_driver_register` succeeds without any device; the file
  may then be opened without registers, the NULL pointer that a comment in
  td3_i2c_fcc.c:728 mentions. An access without registers is `Fault`. One file is open
  at a time. Left out: what `cdev_alloc` and the `kmalloc`s leak.
* `FifoRead` has one action per transfer of `MPUInit`, `FCCread` and `MPUReadFifo`
  (their inside is `I2CTransfer`); each may fail unseen, and what such a call gets is
  not told apart afterwards. `containers` and `samples[]` wrap at their widths. The
  sensor is external: it appends whole samples, drops the oldest bytes of a full FIFO,
  latches its count. Whether FIFO_RESET empties a FIFO that is enabled is not decided by
  the code, and its own comment says no; `Reset` does either, and `kept` (history) says
  when it has left something. A length of 0, or one whose containers are a multiple of 256,
  makes the code write before its array (`Wild`). A container longer than
  two FIFOs waits for a count that cannot be.
* `SensorReader` has one action per part of a turn of `prodSensorData`. `Load` counts
  the lines of coefficients, not the coefficients, and does not look at their indices:
  a line may repeat an index or write outside the array and still count (`irregular`). The reload at the end of a turn is
  the SIGUSR2 the process sends itself, handled before `kill` returns; `Sigusr2` is one
  from elsewhere. A turn clears the buffers it then filters, so the filter multiplies
  the present sample by the first coefficient and zeros by the others, whatever the
  comment at driver_handler.c:132-139 says of a history; the sum runs over `window` cells and
  coefficients, though there are ten coefficients and the window may be 250. What it reads
  past the coefficients (driver_handler.c:151-154) is a float like another to the model:
  `InBounds` is about the buffer only.

## Runs

| Run | Expect | Shows |
|---|---|---|
| `scheduler` | pass | `TypeOK`, `SliceNotOverrun`, `RunsInOwnContext`, `ContextRestored`, `FrameRefinement` (the specification `FrameSchedule`), `EveryTaskRuns` |
| `scheduler_flags` | violation | `FlagsRestored`: a task resumes with another task's condition flags |
| `shared_memory` | pass | `TypeOK`, `Exclusion`, `ReadsWhole`, `CountExact`, `RemovedMeansExit`, `LockProgress` |
| `shared_memory_mode0` | violation | `MutualExclusion`: a handler turns a lock into an unlock |
| `shared_memory_handler` | violation | `HandlerReturns`: SIGCHLD inside the server's critical section |
| `server` | pass | `TypeOK`, `NeverUndercounts`, `ServingLimit`, `ExitCascade`, `FailedDriverEndsServer` |
| `server_full` | violation | `FullMeansServing`: the count stays full with nobody served |
| `i2c_transfer` | pass | `TypeOK`, `WokenMeansMoved`, `HandlerHasBuffer`, `TransferReturns`, `BusFreed` |
| `i2c_signal` | violation | `InsideBuffer`: an interrupted read, then a shorter one |
| `mmu` | pass | `TypeOK`, `TablesOutOfReach`, `NoStaleEntry`, `OnlySwitchAborts`, `SpacesRefinement` (the specification `AddressSpaces`) |
| `conversation` | pass | `TypeOK`, `AgreedHandshake`, `NoGreetingShown`, `UpToDate`, `LifetimeEnds`, `SendCompletes` |
| `device` | pass | `TypeOK`, `NothingLeftBehind`, `RegistersMapped`, `InBounds`, `CoefficientsOfOneLoad`, `PublishedIsMeasured`, `ReadReturns` |

### Bounds

* `scheduler`: the slices of `tasks_init` (1, 1, 8), two program points and two
  values of the flags, so that any two contexts can differ in every part; one word
  of SVC depth. About 225 000 states. The theorems lift slices and points.
* `shared_memory`: the server and one client's child in mode 0, two strings, one
  signal (`MaxSignals`), a count between -1 and 1 (`MaxCount`): a handler on top of
  one flow against another process is what the code's errors need. The retry bound
  is the code's 3, which one signal, and the removal, use up. In mode 0 the handler writes
  the string; the count is updated by two processes, and that a handler which decrements on
  top of one loses nothing either is `CountNeverLoses`' part. About 121 000 states. The
  theorems lift the processes, operations, strings and both bounds.
* `server`: two clients at once, three forks: two acceptors that look at the count
  together, and a grandchild of the server. Both modes. About 390 000 states. The
  theorems lift the limit and the number of forks.
* `i2c_transfer`: two processes, transfers of one or two bytes (the least that can
  be left half done), one retry, one signal. About 794 000 states. The violation run
  has one process and two retries. The theorems lift the processes, lengths, retries
  and signals.
* `mmu`: all four tables at the addresses of the linker script. The ROM and the two
  blocks of registers are cut to two pages, a first and a last one: the pages
  between are neighbours of the same kind in the same second-level table. The TLB has
  three entries, less than the handler touches, so any entry may be evicted before any
  access. About 4 100 states: the tables are built in one order, and what varies is
  the accesses. The theorems lift the lengths, up to those of the linker script (49 and 8
  pages of registers) and up to three pages of ROM, and the size of the TLB.
* `conversation`: three clients, one after the other, four values. The way to the client
  holds one and a half messages, so a `send` can stop inside one and a `recv` can join
  two; the way back holds two answers or one ACK, so it fills. About 82 000 states. The
  theorems lift the clients, the values and the room.
* `device`: samples of two bytes, containers of two samples, a FIFO that cuts a sample
  (as 1024 cuts one of 14 bytes), two channels, two coefficients, a window of at most three,
  more than there are coefficients. The counters wrap at 5 and 14, and `Lengths` has one
  of every kind: 0, part of a sample, one and several containers with and without a rest,
  one that wraps `samples[0]`, one whose containers wrap to 0 and one to 1, and one that
  waits for more than the FIFO holds. One SIGUSR2 from elsewhere per turn. `config.ini`
  is one of a complete and a short file, one that repeats a coefficient and one that names a
  coefficient outside the array, or missing, anew at every load. About 724 000 states. The theorems lift every one of these sizes, the lengths, the
  counters and the files.

### Deadlock

`CHECK_DEADLOCK FALSE` where the system really stops: the processor astray after an
unknown interrupt, all processes of the server gone, a handler blocked for ever, a
process asleep in `wait_event` for ever when the device has been shared, the processor
in an abort handler, all clients served, the module half loaded or its file lost with
the process that faulted.

### Fairness

* `Scheduler`: the periodic timer expires again and again, and the processor takes
  and finishes a pending interrupt. The tasks are owed nothing and owe nothing:
  `EveryTaskRuns` holds even if a task never takes a step.
* `SharedMemory`: a flow that has begun an operation, or `my_exit`, goes on with it (the
  operating system schedules it), and a blocked `semop` that could succeed again and again
  succeeds once: Linux serves the queue of a semaphore in order, hence the strong
  fairness of `WakeUp`. Calls and signals need not come.
* `Server`: processes go on; clients need not connect and signals need not be sent.
  A child in the handshake is bounded by SO_RCVTIMEO; the loops that serve and
  produce turn every second, so they meet a removed semaphore. Nothing is assumed of
  `Unblock`: a `send` without room waits for a client that may never read.
* `I2CTransfer`: the controller moves its bytes and makes the STOP it was asked for;
  a process in a transfer goes on.
* `Connection`: both programs go on when they can. Their calls of `recv` do, at the
  latest after the SO_RCVTIMEO both set (5 and 10 seconds); a `send` waits as long as
  there is no room. Nobody has to connect or to produce.
* `Device`: a call in the kernel goes on, or dies of its fault, and the sensor measures.
  Nothing else has to happen: no user has to call, nobody has to load or remove.
* `MmuTables`: none; it has no liveness property.

### Properties under a condition

Some properties speak of a part of the behaviours and say so in their statement.
`Exclusion`, `ReadsWhole` and `CountExact` speak of behaviours without a misfired
lock; `NeverUndercounts` and `ServingLimit` of those in which the producer's death
has not been counted as a client's; the I2C properties of `Orderly` use (one process
at a time, no signal during a read). `LockProgress` excepts a handler above the lock of
its own process (`SelfBlocked`, the violation run `shared_memory_handler`) and a unit that
died with its process (`orphaned`); `ExitCascade` lets children survive that are blocked in
`send`. `EveryTaskRuns` excepts the processor astray after an unknown interrupt.

In `Connection`, `AgreedHandshake` excepts an end of the stream that passes for the
second OK because the first is still in the buffer (`ended`) and a greeting cut in two
(`split`, as for `NoGreetingShown`); `UpToDate` excepts what came together with the
second OK and a client that nothing was sent to because the last client had it;
`LifetimeEnds` and `SendCompletes` except a client that waits for room for answers
nobody reads (`Stuck`), in which both ends can stand still for good.

In `Device`, `RegistersMapped` promises its registers to a file that was opened while the
device was bound, until an unbind, and nothing to one opened otherwise;
`InBounds` excepts a SIGUSR2 from elsewhere in the middle of a turn, `CoefficientsOfOneLoad`
a file that repeats a coefficient or names one outside the array, `PublishedIsMeasured`
failed transfers, an overflow before the read and a FIFO_RESET without effect, `ReadReturns` the same failures, a sensor whose set-up has
failed and a length that waits for more than the FIFO holds.

In each case the complement is a defect shown by a violation run or listed as a
hazard, and the property says that there is no other way to go wrong. A hazard that is
excepted everywhere has no property in `PROJECT.json`, and a note that says where the
exception is. The mutants show that the exceptions leave something to be violated.

### Disagreements without a run

* `tp_01_05/README.md:28-39` and the comments of `tareas.c:7,30` put the reading areas of
  the tasks at 70A00000h and 70A10000h (64 KiB each in the comments), and T2's text and stack at 70F40000h.
  The linker script, which the code takes its addresses from, has one page for each reading
  area and T2 at 71F50000h and above. `SpacesRefinement` is about the script's map, and
  would not hold of the other one.
* `td3_i2c_fcc.c:648-652` says that FIFO_RESET acts while FIFO_EN is 0; `FCCread` (874-877)
  writes both bits with the FIFO enabled. The model has both outcomes (`Reset`).
* `02_cuat/README.md:63-68` asks the server to load `config.ini` again on SIGUSR2. In the
  server itself the handler is never installed (server.c:268), and `Sigusr2` of `Server`
  ends it in mode 1 and is ignored in mode 0.
* `driver_handler.c:132-139` describes a filter over a history of samples, which each turn
  clears before it filters.

## Proofs

The TLAPS proofs hold for every value of the constants that the `ASSUME`s of the
modules admit. Each has the form `Init => IInv`, `IInv /\ [Next]_vars => IInv'`,
`IInv => Property`.

* **`SchedulerProofs`.** `TypeCorrect`, `SliceNeverOverrun`, `OwnContext`,
  `ContextAlwaysRestored`, `ImplementsFrame`. Assumed: slices between 1 and 255, at
  least one program point. `RunsInOwnContext` alone is not inductive, as nothing in it
  says what the other tasks' frames hold: `Stored` says that frame and task structure
  hold the context of the last interrupt for every task without the processor,
  `OwnContexts` that it is a context of that task, `BootInv` how the kernel is left. The type invariant rests on the count being short of the slice,
  which is why no tick wraps the byte. `ImplementsFrame` needs the lemma `TickFrame`:
  the position `Offset(current_task) + ticks` moves on by one modulo the sum of the
  slices.
* **`SharedMemoryProofs`.** `TypeCorrect`, `LockExcludes`, `StringsWhole`,
  `CountNeverLoses`. `LockInv` (one unit in the semaphore or one holder)
  follows from itself once the unlocks are known to add 1, which is `OpInv`: whatever a
  handler does, it leaves +1 in `sb.sem_op`. `AccessInv` ties the loaded count and the
  half-copied string to the memory as long as their flow holds the lock.
* **`ServerProofs`.** `TypeCorrect`, `CountCovers`, `LimitKept`. `CountInv`
  bounds the children by the count plus the increments owed (`OwingInv` says by whom),
  `LimitInv` the children that serve, and the processes already past the look at the
  count, by the limit. `ServingLimit` alone is not inductive, as it does not count the
  latter. Each acceptor besides the server is a child that the count covers and that
  does not serve, so however many pass the test together there is room: the lemma
  `Room` is that counting argument.

* **`I2CTransferProofs`.** `TypeCorrect`, `WakesWithItsBytes`, `HandlerNeverAlone`,
  `OrderlyStaysInside`. Nothing is assumed but that buffers and retries are at least one.
  None of the three is inductive, as none says what the controller and the interrupt
  handler's data have to do with each other: `TransferInv` does, for orderly use. With
  nobody in a transfer everything is `AtRest`; with somebody, the interrupt is enabled
  for him alone and `dataIndex + cnt` is his length (`Moving`), or all his bytes have
  moved and the flag is up (`Moved`). `OneUser` is why there is at most one such process.
  `OrderlyStaysInside` is the other half of the violation run `i2c_signal`: sharing and a
  signal during a read are the only ways out of a buffer.
* **`DeviceProofs`.** `TypeCorrect`, `LeavesNothing`, `KeepsItsRegisters`,
  `StaysInBounds`, `LoadsWholeFiles`, `PublishesWhatItMeasured`. Assumed: a sample has two
  bytes or more, containers are whole samples and fit in the FIFO, the default window fits
  in the buffer; of the indices in a file's lines nothing. The invariant has a part for each of the
  three modules, and two where they meet, without which none is preserved by the composition:
  `UserInv` says which parts of reader and driver can be in progress together,
  `SampleInv` what is in the FIFO during a read of the reader. `RegisteredInv` and
  `ProbeInv` tell for each step of `driverInit` and of the probe what is held;
  `ContainerInv` is the position inside the length; `TurnInv` follows the window from its
  check to the filter.
* **`ConnectionProofs`.** `TypeCorrect`, `HandshakeAgreed`, `GreetingNeverShown`,
  `ClientUpToDate`. Assumed: room for something one way and for two units the other, which
  is an ACK. `StreamInv` gives the shapes that what is under way can have at every
  place of the client: before the server agrees, at most a beginning of the first OK; after,
  the second OK (and values behind it); in the loop, values only. `LastInv` says what the
  last unit put was, so that an empty stream means the client has it.
* **`MmuTablesProofs`.** `TypeCorrect`, `TablesAreSafe`, `SwitchesAreHarmless`,
  `OnlyTheSwitchAborts`, `BuildsTheSpaces`. Assumed: lengths no longer than what the linker
  script leaves room for, a TLB with an entry. `MemInv` says exactly which words memory has: for each
  page mapped so far the two words `MMU_MapNewPage` wrote and what they hold. It rests on the
  lemma `Distinct`: given the rows of the first-level table that are used (`Rows`) and the
  four bases, two pages never share a second-level word, and no word is of both levels.
  T1's and the idle task's tables, 16 pages apart, do interleave, and it is the rows that
  keep them so. `WalkFinds` turns it into what the hardware finds, from which
  the TLB's invariant, `OnlySwitchAborts` (`Strange` names the two pages) and, by `SpaceFound`, the refinement follow: a
  turn of a loop is `MapPage` of its page, `MmuOn` is `Seal` because the pages of the loops are
  those of the linker script's map (`KernelIntended`, `TaskIntended`), and all other steps
  leave every space as it is. `TablesAreSafe` is arithmetic on the pages of the words
  (`WordPages`) and on where tables map pages (`TargetIsPage`).

The theorems cover every type invariant, every safety property and both refinements
that the passing runs check. Only model-checked:

* All liveness (`EveryTaskRuns`, `RemovedMeansExit`, `LockProgress`, `ExitCascade`,
  `FailedDriverEndsServer`, `TransferReturns`, `BusFreed`, `LifetimeEnds`,
  `SendCompletes`, `ReadReturns`), which is out of the prover's reach.
* That the properties of the violation runs fail, which takes a counterexample, not a
  proof.

## Not modelled

* `salvar_contexto` (never called), the undefined vector (an endless loop).
* ROM-to-RAM copying, GIC and clock registers, pin multiplexing: straight-line set-up.
* What the tasks compute on their areas, `driver-test`'s printing, scaling to units and
  the inclination of the sensor: arithmetic whose result nothing else depends on.
* `FCCwrite` and `FCCioctl`, which change nothing; `write_in_config_filter_coeff`,
  which nobody calls.
* The number of clients and the backlog as read from `config.ini`: the limit is a
  constant of `Server`, so a reload in the server itself, on a SIGUSR2 from a user, is
  not composed with it.
* Device trees, data sheets, exercises 0 to 4 and 6 (stages of exercise 5, or text).
* Printing and number formatting.
* Loss of the I2C interrupt or a sensor that does not answer: the driver has no code
  for either.

## Plan

1. `Scheduler`, `FrameSchedule`, proofs. Done.
2. `SharedMemory`, proofs. Done.
3. `Server`, proofs. Done.
4. `I2CTransfer`. Done.
5. `MmuTables`, `AddressSpaces`. Done.
6. `Connection`. Done.
7. `DriverLifecycle`, `FifoRead`, `SensorReader`, `Device`. Done.
8. `I2CTransferProofs`, `DeviceProofs`, `ConnectionProofs`, `MmuTablesProofs`. Done.
9. Theorems beyond the properties of the runs: what holds without the conditions of
   "Properties under a condition", as `OrderlyStaysInside` does for the I2C transfers.
