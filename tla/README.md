# A verification model of MPX

TLA+ modules, TLC configurations and TLAPS proofs for the small multiprogramming
kernel in `src/`: a C kernel for 32-bit x86 with one processor, one serial port
(COM1), a command handler and a handful of processes.

## 1. The system

| Component | State it keeps | Operations | What makes it correct |
|---|---|---|---|
| PCB queues (`kernel/pcb.c`) | `readyPtr`, `blockedPtr`, the `next`, `state` and `priority` of each PCB | `pcb_find`, `pcb_insert`, `pcb_remove` | no NULL is followed, no walk is endless, a waiting process can be reached from `blockedPtr.front` |
| System call handler and dispatcher (`kernel/isr.c`, `kernel/irq.s`) | `cur_process`, `initial_context`, the saved contexts | `sys_call` for IDLE, EXIT, READ, WRITE and anything else | `cur_process` is what runs; every context resumed was saved; a process runs only from READY; who waits is woken; who exits is gone |
| I/O scheduler (`kernel/serial.c`, `kernel/io_helpers.c`) | the DCB `device1`: event flag, status, request queue | `io_scheduler`, `next_iocb` | one transfer, one waiting process, one event |
| Serial driver (`kernel/serial.c`) | the DCB's counts and `buff_index`, the ring buffer, the transmitter's interrupt | `serial_write`, `serial_read`, `read_from_ring`, `add_byte_to_ring`, the input and the output interrupt | a text leaves in order and once; nothing is sent for a writer that runs on; the ring's indices stay in the ring |
| Processes (`kernel/kmain.c`, `user/system.c`, `kernel/command_handler.c`) | the point each program is at, its frames | kmain, idle, five R3 test processes, comhand | waiting ends; nobody starves; a test process makes its rounds; shutdown reaches kmain |
| Process commands (`kernel/user_commands.c`) | (the queues) | delete, block, unblock, suspend, resume, set priority | suspended means suspended, deleted means gone |
| Heap (`kernel/heap_manager.c`) | one doubly linked list of headers | `allocate_memory`, `split`, `free_memory`, `merge`, `mcb_remove` | blocks are disjoint, the list accounts for every byte |
| Alarms, memory menu (`kernel/user_commands.c`, `kernel/memory_commands.c`) | `alarms_glob` | `setAlarm`, `checkAlarm`, allocate, free | an alarm neither dangles nor leaks |
| Clock and date (`kernel/user_commands.c`, `kernel/command_handler.c`) | the registers of the clock | `time_menu`, `get_time`, `set_time`, `get_date`, `set_date` | what is written is what is read; a carry while the registers are accessed one by one does not take the time back |
| Virtual memory (`kernel/core.c`) | page tables, the frame bitmap, `phys_alloc_addr`, `heap_addr` | `vm_init`, `get_page`, `new_frame`, `kmalloc` | what is in use when paging is turned on is mapped to itself; the kernel heap lies on frames of its own |
| Strings, descriptors, interrupt vectors | tables | see section 8 | |

Processes call the kernel through `int 0x60`; the kernel calls the driver; the
driver's interrupts set the event flag, which the kernel looks at in the next
system call of *whoever* makes one. Comhand runs the process commands, the alarm
and memory menus as ordinary code, and these change the kernel's queues and the
heap directly.

What is hard here: interrupts between any two instructions of a process, whose
routine saves no registers; calls of several processes in any order (a call that meets a pending event is not
performed, it only saves its context); one slot, `initial_context`, for all such
contexts; a READ that returns to its caller although the caller has been queued;
PCBs that stay linked where they no longer belong; a heap whose back pointers go
stale; a line that is overwritten before it is used; and a clock that ticks between
two accesses to its registers. `PROJECT.json` lists these hazards at their lines.

## 2. The modules

| Module | Models | State and actions in the code's terms |
|---|---|---|
| `PcbQueues` | `pcb.c` | Operators on one record `[front, next, state, prio, fault]`. Links are explicit, so that one PCB can be on both lists or on a cycle. `fault` records how the C code would have stopped: `"null"` (page 0 is unmapped, so this panics), `"hang"`, or `"registers"`, after which the code that runs is no longer the one that was written. |
| `Kernel` | `sys_call`, `io_scheduler`, `createProc`, the completion interrupts | EXTENDS `PcbQueues`. `q`, `cur_process`, `initial_context`, `device1` are the code's globals; `cpu` is whose context runs. `SaveContext` is the call that is not performed; `IdleCall`, `ExitCall`, `WriteCall`, `ReadCall`, `InvalidCall` are the branches of `sys_call`. `RegistersLost` is an interrupt that takes a register somebody is using. What a process asks for is left open. |
| `ProcessStates` | what the kernel promises of its processes | One variable, the `stage` of each process: free, ready, running, waiting or adrift. `Create` is `createProc`; `Leave` a request that is performed; `EndWait` a call that meets an event; `Resume` a call nobody is charged with. `Kernel` maps itself to it (`StageOf`, `Process`). |
| `Mpx` | the programs | EXTENDS `Kernel`. `pc` is the point the running program is at, `top[p]` and `initial_pc` the points in the saved frames. `lost` counts the operation codes and loop counters that interrupts took (`SysReq`, `R3LeavesLoop`). |
| `Commands` | the process menu | EXTENDS `Kernel`. One action per command, run by comhand between its system calls; `message` splits the commands that write between the look-up and the change. |
| `SerialDriver` | `serial.c`, character by character | What `Kernel` sees as a transfer and its interrupts. `wire` is what was sent, each character with the transfer it belongs to, its index and the count of that transfer's text; `asleep` whether the transfer's process still waits. |
| `HeapManager` | `heap_manager.c` | `mcb` maps the address of every header ever written to its fields; a header that was merged away stays as it was. `held` is what callers believe is theirs. |
| `MpxHeap` | the users of the heap | EXTENDS `HeapManager`: `pcb_setup`, `pcb_insert`, the memory menu, `setAlarm` with its three ways to reject an alarm. |
| `Paging` | the virtual memory of `core.c` | `VmInit(end)`, a function of where the linker put `__end`: three loops over pages, as recursive functions on a record of the page tables and the allocators. |
| `Boot` | `kmain`'s way from `vm_init` to the heap | EXTENDS `MpxHeap` and `Paging`: address 0 of the heap manager is what `kmalloc` returned. |
| `Clock` | the time menu and the clock | `rtc` are the registers, `Tick` is a second passing. `ReadRegister` and `WriteRegister` are one access each, so that time passes between them; `Lines` are the numbers a prompt can yield, `TypeAhead` a character that goes into the ring. `began` remembers the registers at the start of the command. |
| `MC_*` | instances for TLC | definitions for the constants of the `.cfg` files |
| `PcbQueues_proofs`, `Kernel_proofs`, `Mpx_proofs`, `Commands_proofs`, `SerialDriver_proofs`, `Clock_proofs`, `Heap_proofs`, `Boot_proofs` | | lemmas and theorems |

Definitions keep the code's names (`PcbInsert`, `IoScheduler`, `McbRemove`).
Definitions whose comment says *mutant* are variants with a plausible bug; each
checked property is violated when one of them takes the place of the original.

### Modelling decisions

* *Interrupts.* `serial_isr` (`irq.s:45-49`) saves no registers: the code it interrupts goes
  on with EAX, ECX and EDX as `serial_interrupt` leaves them, EAX and EDX being 0x20
  (`outb(0x20, 0x20)`). `Mpx` follows this in two places. `sys_req` has the operation code in
  EAX while it loads the other registers: with 0x20 there, the call is an invalid one, and `sys_req`,
  given -1, polls the device itself. And the loop of `r3_proc` has its counter in
  EAX when it is tested and when it is incremented: 0x20 exceeds any number of rounds here, so that the
  process goes to its EXIT. `Losses` bounds how often this happens. At any other place it is
  `RegistersLost` (`Kernel`), which stops the model, as what a program does with
  an arbitrary pointer has no end; an interrupt inside `createProc` is one of these, or leaves its
  registers alone and then commutes with it. So a theorem about the kernel or the system is one about
  runs up to that moment. `Commands` inherits `RegistersLost`; the driver, the heap and
  the clock have no such action, and hold until an interrupt takes a register of theirs.
* `sys_call_isr` runs with interrupts disabled: a system call is one step. So
  is `serial_poll`, which waits for a line inside it; in between nothing
  else can happen.
* `count` and `rear` of the queues are written and never read, and are left out.
  Fresh heap memory is taken to be zero, so that a new PCB's `next` is NULL.
  The block of four bytes that `pcb_insert` allocates for each waiting process
  and drops is in `MpxHeap`. PCB allocation is taken to succeed in `Kernel`.
* After a fault the machine is stopped (`Running` guards every action).
* *Frames.* A context lies on its process's stack. Idle and the R3 processes
  call from one function, so that a new frame replaces the old one. Comhand
  calls from functions of different depth: an older frame of it may be intact,
  replaced by the new one or overwritten (`OldFrame`). A process resumed from an
  overwritten frame is at `Garbage`, and the model goes no further.
* *Comhand.* Its menus are reduced to writing, asking for a line and acting on
  it. Acting on any line at all is right even though `read_from_ring` copies the
  ring over the line just polled, because a user can fill the ring ahead (or put
  a return at its input index, which stops the copying). "Load R3" is given at
  most once. In `Commands` and in `Mpx` a request can be swallowed (a READ that
  meets an event leaves the old line in the buffer).
* *Commands.* Names are PCBs' names; an unknown name is NULL, which the commands
  use after they have reported it. A process that a command blocked is woken by
  the next transfer, as the wake-up takes the first one that is blocked.
* *Driver.* The texts are lengths and indices. A text ends at its count or at a 0,
  so it may end early, and a text of one character (`puts("\n")`) runs past its
  count until a 0 is met (which `SentPrefix` excepts: `size # 1`). The echo of `serial_poll`, `serial_out` and the
  registers of the port are left out. `sys_call` is split into the end of an event
  and the start of a transfer, which gives the interrupts more room than they have.
* *Heap.* `checkAlarm` deletes no alarm: `get_hours`, `get_minutes` and
  `get_seconds` select a register and never read it, `itoa` makes an empty
  string of their 0 (`str[i++] = '\0'` overwrites the digit), `atoi` makes a 0 of
  that, and no alarm's time is below 0:00:00. So an alarm, once set, is never
  due and stays. The user frees only what the memory menu has shown (any other
  address changes nothing, or is the address of a block of somebody else, which
  no manager can survive). At least one of the seven requests `setAlarm` makes
  between its two allocations is performed, and so leaks a block. The clients
  stop at the first overlap of two blocks.
* *Paging.* `vm_init` runs once, before any other code, and nothing calls `kmalloc`
  after `initialize_heap`: it is an operator, and its result a part of the initial
  state. Its first loop goes from byte to byte; the model goes from page to page, as
  a page's table is made once. Memory nobody has written to is 0, so that a page
  table, which `get_page` does not clear, is empty.
* *Clock.* The clock is hardware: BCD, 24 hours, a leap year every fourth. What a
  register does that is out of its range when its turn comes (it counts on, is
  reset or stays) is left open. `cli` around an access stops the processor's
  interrupts, not the clock, and one access is a step in any case. The commands
  read into string literals `"\0"`, which the compiler makes one object, so that
  a request that meets an event leaves the number of the one before (`line`). A request that is
  performed seldom yields what is typed: `serial_read` polls for a line and then lets `read_from_ring`
  copy the ring over it (`serial.c:376`), from the slots that are filled next. Those hold zeros until somebody
  types while nobody reads, and `atoi` makes 0 of them; afterwards (`ahead`) they may hold anything, and an
  Enter at the input index leaves the typed line as it is. A line has up to four characters, so that
  `atoi` yields -999 to 9999, and what the compiler puts behind a line of four is a 0.
  `ToBcd` is C's `(n / 10) << 4 | n % 10` cut to a byte, with C's division of negative numbers. `itoa` writes
  a third digit of a register out of range behind its array; neighbours of the
  arrays are not modelled, and the character an empty string leaves unset is
  `Stack`. The text of a time is taken to be sent up to where the driver itself cuts
  it (`SerialDriver` has the interrupts, `Kernel` the calls that end a transfer early).

## 3. Runs

| Run | What it shows |
|---|---|
| `kernel` | Comhand, idle and two more PCBs, one under the other's name, three priorities; every process may ask for anything, in every order, with interrupts anywhere. `TypeOK`, `CurIsOnCpu`, `ContextSaved`, `BusyIsFlagged`, `IocbQueueUnused`, `OneSleeper`, `SleeperOnBlockedList`, `NoNullDereference` and `RunsOnlyWhenReady` hold, and the kernel implements `ProcessStates` (`ImplementsProcessStates`): whatever the lists look like, one process runs and one waits at most, the one that waits is readied by the next call, and who is adrift stays so. The lists do get tangled, and walks may be endless: that is not excluded by any of these. 771,401 states up to exchanging those two (`Twins`). |
| `mpx` | The system as it is built: seven processes, five of them making 1 to 5 rounds, and one operation code or loop counter lost to an interrupt. `KernelSurvives`: no fault at all, endless walks included, until a register is lost. `WaitingIsOffCpu`, `MpxTypeOK`. `DroppedOnlyByReturn`: a process that can be dispatched leaves the ready list only to run, because a READ or an invalid call returns to its caller after it has unlinked the process (and never any other one), or by the shutdown. `IdleRunsAtBoot`: idle is dispatched before the first event and never again. And two liveness properties: `SleeperWakes`, and `ReadyRuns`: nobody starves on the ready list. 98,258 states. |
| `mpx_rounds` | violated: `user/system.c:18` says of `RC_1` to `RC_5` "How many times each process prints its message"; a process whose loop counter an interrupt takes exits before. |
| `mpx_after_exit` | violated: a process whose EXIT meets an event runs on and prints the text that `user/system.c:27` keeps for a kernel that fails to terminate it. |
| `mpx_shutdown` | violated: kmain's clean-up (`kmain.c:115`) is never reached, since its context was overwritten in `initial_context` at the first event. |
| `commands` | All six commands, interleaved with the kernel, three PCBs. `CmdTypeOK`, `CurIsOnCpu` survive code that changes the queues behind the kernel's back, and `SuspendedUntilResumed`: nothing but `resume_pcb` ends a suspension. 1,479,635 states. |
| `commands_delete` | violated: a deleted process is dispatched. `delete_pcb` unlinks it but leaves it in its state, and nobody else forgets it. |
| `heap` | PCBs, leaks, one alarm slot and at most one block of the memory menu, until the heap is full. `AllocatedDisjoint`, `Removable`, `Ascends`, `Tiled` (every byte is accounted for), `AlarmsAllocated`, `NoAlarmLeaked`, `HeapTypeOK`. The heap lies on the memory `vm_init` has mapped, for three ends of the kernel's image: `IdentityMapped`, and `HeapBacked` (every header and block on present pages, whose frames no other page has). 103,440 states. |
| `heap_two_blocks` | violated: with two blocks of the menu, `split`'s stale `prev` makes `merge` join blocks that are not neighbours, the block between them drops off the list, and memory in use is handed out again. |
| `serial` | Three transfers, interrupts anywhere. `SentPrefix`: what is sent of each text is its characters from the first one on, once each and no more than its count (of a text of one character, only that it starts with it). `SentForSleeper`, `RingIndicesInRange` (without a backspace), `SerialTypeOK`. 148,465 states. |
| `clock` | Two commands of the time menu and two seconds, which may pass between any two accesses, from the last second of an hour, a month and a century. `ReadNotBehind`: a time or date that is read may be torn, but is never before the start of the command, and less than an hour (a year) ahead of its end, if it takes less than a day. `SetNotBehind`: a time that is set takes effect, less than an hour ahead of the time that has passed. `SetIsExact`: without a tick, a number of two digits that is taken from the buffer is what is read afterwards. `TypedIsLost`: until somebody types ahead, every number taken is 0, whatever is typed, and `set_time` writes nothing. `ShownWhole`: which texts lose their last number. `ClockTypeOK`. 1,320,551 states. |
| `serial_ring` | violated: a backspace that arrives while nobody reads takes the ring's input index from 0 to -1. |

### Bounds, and why they are enough

* `kernel`: four PCBs are the smallest number with a running, a waiting and two
  ready processes, so that insertion happens at the front, in the middle and at
  the end, a PCB is on two lists, and cycles of length one and more arise. Three
  priorities tell smaller, equal and larger apart. The two PCBs that createProc adds
  have one name and one priority, so that exchanging them changes nothing
  (`SYMMETRY`). No other bound: the state space is finite as it is.
* `mpx`: the real configuration, "Load R3" at most once, and `Losses = 1`: one lost
  register already makes the two steps that need one, an invalid call and an early EXIT, of
  each process and at each of its points; the properties but `WaitingIsOffCpu` and the types
  speak of the time up to it, its step included.
* `commands`: one process besides comhand and idle, which no command can delete
  or suspend; priorities 0 and 9, of which the user types 0.
* `heap`: the code's sizes, except the heap (200 or 250 bytes instead of 50000)
  and the stack (60 instead of 1024). 200 bytes hold one PCB, or two complete
  calls of `setAlarm`: the second finds no slot with `Slots = {1}` (the code has
  three), or no memory. No hole can hold a stack, in the code either.
* Paging, in the `heap` runs: pages of 64 bytes, 8 to a table, 28 frames, a heap of 5 pages. In
  the code one table holds all that is mapped to itself; here the mapping needs
  several, and so makes tables while it goes. `__end` is in the middle of a page, at the
  beginning of one (which kmalloc then skips) and in a later table.
* `clock`: two ticks let a carry fall between any two accesses, with another second
  on either side; two commands let a register that is out of range be read, or
  counted on. The numbers are 9 and 59, in range of
  all registers and of some, and two whose byte is no BCD at all: -12 and 1245, which takes the four characters of a line.
* `serial`: a ring of 4 slots (20 in the code, with which the two limits of the
  input interrupt scale), texts of 1, 3 and 6 characters, reads of 1 and 5: below
  and above the ring's size. `MaxTransfers = 3` bounds the transfers; a text of
  one character finds its 0 within `Slack = 2` characters behind its count.

`CHECK_DEADLOCK FALSE` appears where the system really stops: a machine in a
fault, comhand at `Garbage`, a full heap, the last transfer of a run.

### Fairness

`SleeperWakes`, `ReadyRuns` and `ShutdownReachesKmain` need it, and their runs use
`FairMpxSpec`: weak fairness of the interrupts (the transmitter always becomes
empty, the hardware delivers), and a processor that goes on to its next system
call. The latter is weak fairness of `Processor` with its ENABLED written out as
`CanStep`; it includes that a read is answered: somebody types a line. No
fairness is asked of the scheduling among processes, and nothing of a system that has lost a
register (`lost = 0` in `CanStep`). The model stops at `Garbage`, so that the properties
accept that end and the other ones of `Over`: a lost register, and a kmain that came back to shut down. `ReadyRuns` asks for no
fairness between processes because the front of the list is never displaced. In
`pcb_insert`'s order the smallest priority number goes first, and idle's is 0:
were it inserted before a front of a larger number as well, idle would be in
front each time it yields and nobody else would run. That is this property's mutant.

## 4. Proofs

### The kernel

`Kernel_proofs` proves for any finite set of PCBs, any names, priorities and requests:

* `Invariance`: `Spec => []IInv`, with
  `IInv == TypeOK /\ CurIsOnCpu /\ ContextSaved /\ BusyIsFlagged /\ IocbQueueUnused /\ OneSleeper`;
* from it `TypeCorrect`, `CurProcessRuns`, `ResumeIsDefined`, `TransferIsFlagged`,
  `NoQueuedRequest` (the driver's request queue is dead code) and
  `WakeUpMatchesSleeper` (exactly one process waits while the flag is set, none
  otherwise);
* `RunsFromReady`: the action property `RunsOnlyWhenReady`;
* `ListInvariance`: `Spec => []ListInv`, which adds the links, and from it
  `SleeperIsReachable` (`SleeperOnBlockedList`) and `NoNullFollowed` (`NoNullDereference`).

The conjuncts of `IInv` need each other. A call is performed only when no event is pending;
by `OneSleeper` nobody then waits, and by `BusyIsFlagged` the device is idle, so
that `io_scheduler` starts the request at once (never queues it:
`IocbQueueUnused`) and sets the flag in the same step in which the caller becomes
the one that waits. `CurIsOnCpu` says that this caller is the process on the
processor, and `ContextSaved` that a dispatch with nothing ready has somewhere to
go. `IInv` says nothing of the shape of the lists: `pcb_remove` and `pcb_insert`
keep the types and every `state` whatever the links are, and what the wake-up finds is, by its own
test, a process that is blocked. That is why this part goes through although the
lists can be tangled. `NextKeeps` has one lemma per action.

Of the lists hardly anything can be said: a process can be on both, or on a cycle.
What `ListInv` adds is `FreeUnlinked` (a PCB that is not allocated is on no list and
nothing points to it), that no NULL has been followed, and that who waits can be
reached from the blocked list's front. The last needs two facts of
`PcbQueues_proofs`: what is inserted is reachable afterwards and nobody
in front of it is lost, and a walk that does not end meets a PCB twice, so that a
list of n PCBs is seen whole in n steps (the pigeonhole principle, which is where
the set of PCBs has to be finite). A walk is a recursive function of the number of
steps; facts about it are proved by `SetInduction`, that is by the least step
at which they would fail, since that needs no induction theorem with an operator for parameter.

### The refinement

The last part of `Kernel_proofs` proves `Implementation`, `Spec => ImplementsProcessStates`: every
step of the kernel, mapped by `StageOf`, is a step of `ProcessStates` or none. It
needs `IInv` to tell which: a request is performed only when nobody waits, so it
is a `Leave`; a call that meets an event finds, by `OneSleeper`, the one process that
waits, and is its `EndWait`; a call with `cur_process` NULL, when nobody waits, is a `Resume` or
a stutter; a fault changes no stage. That one process runs and one waits at most
(`OneRunsOneWaits`) and that who is adrift never comes back (`AdriftInKernel`) then
follows from `ProcessStates` alone, for any number of processes.

### The programs and the commands

`Mpx_proofs` proves `ImplementsKernel`, `MpxSpec => Spec`: the programs as they are
written ask the kernel for nothing it does not allow, so that `ListInv` holds of
the system (`KernelInvariance`), and so does `ImplementsProcessStates` (`SystemImplements`). On top of it `MpxTypeCorrect`, for any number of
R3 processes and rounds: comhand resumes from one of its own points, because the
frames that hold its context do (`FramesOK`). `WaitsOffProcessor` (`WaitingIsOffCpu`)
rests on `RunsOffList`: whoever but comhand is on the processor or in
`initial_context` is in state RUNNING, and who is in `initial_context` is not `cur_process`, so that
no request can be charged to it while its context lies there.

`RunInvariance`, `MpxSpec => []RunInv`, says which shapes the two lists take in the
running system, for any number of test processes, any names and priorities, and any number of rounds,
as long as no interrupt has taken an operation code or a loop counter (`RunInv` is conditional on
`lost = 0`). An invalid call returns to its caller without the process it has unlinked, and after
that none of the shapes below need hold.
They are not the shapes that were meant. At the first wake-up comhand is the whole
blocked list, and its `next` still leads to idle, which was created behind it. So idle
becomes the front of the blocked list as well: idle heads both lists from then on, in state
RUNNING, and is never dispatched again (`IdleLost`). From there:

* `OneList`: both fronts are idle and there is one list, on which READY and BLOCKED processes are mixed.
  The one that waits is the last on it (`WaitersLast`), except while comhand, which goes on
  after its READ, loads new processes behind itself;
* `TwoLists`: after `sht_dwn` has emptied the ready list the two have nothing in common. Then
  `Apart`: the current process is on neither, and its own `next` leads to the
  front of the ready list or over a process that is skipped;
* `RunnerListed` and `WaiterListed`: a process put on an empty ready list keeps the `next` it
  had (`pcb.c:260` assigns none), and drags the current process, or the one that
  waits, onto the list. Neither outlives the next call.

None of these is a cycle, which is `SystemSurvives` (`KernelSurvives`): neither a NULL nor a cycle is
followed until a register is lost. Idle is dispatched once, while kmain's
context is still in `initial_context`, which is `IdleRunsOnce` (`IdleRunsAtBoot`): the comment on idle,
"will be dispatched if NO other processes are available to execute" (`include/processes.h:48`), is true at boot only. And what each call does to the ready
list of each shape gives `DispatchableStays` (`DroppedOnlyByReturn`), up to and including the call
whose operation code is lost, which is the one that drops a process. The proof has one lemma for each of wake-up,
dispatch, insertion and the calls made of them, on the sets `Ready` and `Blocked` of what a walk meets.
`PcbQueues_proofs` says what `pcb_remove` and `pcb_insert` do to those sets when the lists are
`Linear`, that is, when nothing is linked twice (`UnlinkedLeaves`, `LinkedJoins`). TLC
checked `RunInv` on instances with other numbers, names and priorities of test
processes than the code's, before it was proved; `WaiterListed` came up in none of them but is
needed, since `RunnerListed` leads to it unless one knows more about which process was left linked.

`Commands_proofs` proves of the six commands `CommandsTypeCorrect`,
`CommandsKeepRunning` (`CurIsOnCpu`) and `SuspendedStays` (`SuspendedUntilResumed`).
`IInv` does not survive them (`block_pcb` makes a second process wait:
`OneSleeper` fails), so that they rest on the part of it that does, `CoreInv`, and on
what each step may do to the state of a process that is suspended: nothing, unless it is
`resume_pcb` with its name.

### The driver and the clock

`SerialDriver_proofs` proves `DriverTypeCorrect`, `SentWhileAsleep` (`SentForSleeper`) and
`WirePrefixes` (`SentPrefix`) for any ring, texts and reads of any length and any number of transfers, and
`RingInRange` (`RingIndicesInRange`) when nothing is erased; with an erasure it is
false, which `serial_ring` shows. The invariant `DriverInv` adds to `SerialTypeOK` that
a transfer that is not over has its process waiting, so that the output interrupt
can only send for one that sleeps, and lets the indices of the ring be any
integers, since an erasure can make them negative. `read_from_ring`'s loop is a
CHOOSE of the least index where it ends: `CopiedStops` shows, from the
well-foundedness of the order on Nat, that there is one, at the count at most.
`WireInv` says that `buff_index` is, during a write, the number of characters sent
of it, that it lies inside the text while the transmitter's interrupt is enabled (unless the
text has one character), and that nothing has been sent of a transfer yet to come.

`Clock_proofs` proves, for any readings to begin with, any numbers a line of four characters
can hold and any number of ticks and commands:

* `ClockTypeCorrect` and `SetIsExactAlways`. The invariant adds to `SetIsExact` that
  a command has begun before now, so that a tick always makes its premise false;
  what a write leaves alone is by `Writes` another register, and `BcdRoundTrip`
  says that the two conversions agree on two digits;
* `TypedIsAlwaysLost` (`TypedIsLost`). `LostInv` adds that the buffer itself still holds a zero
  (`line`), which is what a request that meets an event would yield;
* `ReadIsRecent` (`ReadNotBehind`). `ReadInv` follows a command that reads: the clock is
  as far from the start as ticks have passed, and what has been seen so far are the low
  digits of a time between the start and now (`TimeSeen`, `DateSeen`);
* `SetTakesEffect` (`SetNotBehind`). By `SetInv` the clock is at most 3599 seconds,
  and the ticks, ahead of the time made of the registers written and those not yet written;
* `ShownUpToNul` (`ShownWhole`), from the place of the first Nul in the text.

### The heap

`Heap_proofs` proves that the heap is right, for a heap, a header and blocks of any
sizes, any number of alarm slots and any order of the clients, **as long as the memory menu
has one block at a time** (`MaxUserBlocks <= 1`): `NoBlockOverlaps`
(`AllocatedDisjoint`), `NoByteLost` (`Tiled`), `ListAscends`, `AlwaysRemovable`,
`AlarmsKeepMemory`, `HeapTypeCorrect`, and, if nobody else asks for blocks of an alarm's
sizes, `SetAlarmLosesNothing` (`NoAlarmLeaked`). With two blocks it is false:
`heap_two_blocks`. The bound is therefore exact, and no size has anything to do with it.

The `prev` of a header may be stale, so that the list cannot be said to be doubly
linked. `Sound(m, L)`, with L the set of the headers on the list, says what is true instead:

* the blocks follow each other without a gap to the end of the heap (`Chain`);
* a free block knows the block in front of it, and that one is in use. That
  is why a stale `prev` only ever belongs to a block in use (`TakenKeeps`: the block that is split was
  free, so the one behind it is not), and why the result of `merge` is right if the `prev` of the
  block that is freed is (`MergeKeeps`).

A `prev` goes stale when the block in front is split, and for that it has to become free
first. So a block is `Steady` when its `prev` is right and the block in front of it is in
use by somebody who will not free it. A block is steady when it is allocated, since a free block has a
block in use in front of it. The menu's one block stays so, because nobody else
frees anything but setAlarm's message, which was allocated later; the message stays
so, because the menu does not run while setAlarm asks; and the alarm, which may be right behind the
message, is deleted after it, when its `prev` is still right (`Mergeable`). A second block of the menu
could be the one in front.

What the walk along the list finds is a recursive function of the number of steps;
`WalkWalks` shows that there is one, and `OnHeapListIs` that it meets exactly L,
because it ascends (`WalkAscends`) and so ends before the headers do.

### Virtual memory

`Boot_proofs` proves `IdentityAlwaysMapped` (`IdentityMapped`) and, with the invariant of the heap,
`HeapStaysBacked` (`HeapBacked`), wherever the kernel ends and for any sizes of pages and
tables. The three loops of `vm_init` are recursive functions of the number of
rounds; `LoopExists` shows that there are such functions, by adding a round at a time, and
what each loop has done after k rounds is proved by `SetInduction`:

* `HeapTablesMade`: the heap has all its tables before the mapping begins, so that
  `HeapFrames` makes none and the end of what is mapped stays where it is;
* `IdentityIsMapped`: after k rounds the first m pages are mapped to the first m frames, and m is k or
  covers all that was given away. A round may make a table and so move the end it runs
  to. That it stops is counted: each table costs its size and one page of alignment at most
  (`Sized`), and there are no more of them than `TableIndices`;
* `HeapIsFramed`: the heap's pages get the frames behind those.

This needs `MemoryAssumption`: physical memory (64 MB in the code) has room for the kernel, all the
tables and the heap, and the heap's addresses lie above it; and `HeapRoomAssumption`, that what
`initialize_heap` asks for fits into the kernel heap (50000 bytes and a header, of 65536). Without
the first, `kpanic` is reached.

### Assumptions, and what is not proved

Assumptions: NULL is no PCB and the PCBs are finitely many; comhand and idle are two PCBs; kmain has none;
priorities are in `Prios`; the R3 processes are PCBs of their own; the clock starts with two-digit registers and
a line yields a number between -999 and 9999; `Losses` is a number; the ring has a slot at least, and what
is typed ahead is a letter, Enter or an erasure; sizes are numbers, a header has a byte at least, and
NULL is neither an address nor an alarm; memory has room for what is mapped (above). All of them are ASSUMEs that every run evaluates.

Some theorems have hypotheses of their own: those about the heap ask for `MaxUserBlocks <= 1`,
`SetAlarmLosesNothing` also that an alarm's sizes are nobody else's, and `RingInRange` that nothing
is erased.

Every invariant and every action property of a passing run is proved. Only model-checked are the
two liveness properties, `SleeperWakes` and `ReadyRuns`, since liveness under fairness and
ENABLED are out of the prover's reach; and the violations, which are counterexamples.

## 5. Disagreements found

The violated runs above are disagreements with the code's own texts. Further ones, which
follow from what is modelled but have no run of their own:

* `include/serial.h:96` says of the event flag "1 WHEN OP IS COMPLETE"; `io_scheduler` (`serial.c:120`)
  sets it when the first character has been handed over, so that the next call, of whoever
  makes it, ends a write that is still going on;
* `include/processes.h:48` says that idle "will be dispatched if NO other processes are available to
  execute"; with nothing ready `sys_call` resumes `initial_context` (`isr.c:178`), and idle is off the
  ready list from the first wake-up on (`IdleRunsAtBoot`);
* a text of one character runs past its count: `serial_output_interrupt` compares with the count
  only after it has incremented the index (`serial.c:563-568`);
* the number typed at a prompt is overwritten by the ring before it is used (`serial.c:376`,
  `TypedIsLost`), so that `set_time` refuses any hour until somebody types ahead.

Other observations: the READY process that a READ or an invalid
call unlinks is on no list afterwards (`isr.c:112, 146, 164`); comhand can end
with two contexts; set_pcb_prio inserts a PCB that is linked already and can make
a cycle; an alarm is never due; the rest of a text is dropped when another
process's call ends the event (`serial.c:557`); a time is shown without its seconds
when the minutes are below 10, a date without its year from January to September
(`itoa` ends the number after one character); minutes, seconds and dates out of range
are reported and written (`user_commands.c:211, 349, 384`), 24 is accepted as an
hour and 0 is not, day 31 is reported and August, missing from the list of
months, is not looked at; a time that is set while the clock carries may be an hour
late, and a date set around midnight may come out on another day; serial_poll's cursor does
not follow an erased character, and its letters go to the end of the line wherever
the arrow keys have moved the cursor.

## 6. Hazards no property covers

Their notes in `PROJECT.json` say why. The steps are in the models unless it says otherwise here, and
a property against them would be violated at once or would state what no text of the
repository promises: the event flag set early; a second PCB of a name that waits (`pcb_find` does not
look for it); a text of one character past its count; `set_pcb_prio` of a PCB that is linked, or whose
state changes while the message is written; a process that `block_pcb` blocked and any transfer
wakes; a command that uses the NULL it has just reported; minutes, seconds and dates out of range, written after
the error message; a midnight between the registers of `set_date`; the main menu's buffer, which keeps the last command when a READ is not
performed; memory leaked by waiting processes, which fills the heap after some two thousand requests; alarms
that are never due. Not followed by any model: comhand after an answer to the shutdown question that is neither
1 nor 2; the ALARMS process, which returns past the end of its stack; and the time `serial_poll` keeps
the whole machine waiting for a key.

## 7. Plan

1. Done: all modules of section 2 and the proofs of section 4.
2. To come: `serial_poll`'s line editing and what the terminal shows of it; the heap's other
   clients (`iocb_free`, `dcb_free`), should they get callers.

## 8. Not modelled

* `kernel/processes.c`: not among the objects of the Makefile.
* `gdt_init`, `idt_init`, `irq_init`, `pic_init`, `boot.s`: tables filled once
  before the first process exists.
* `lib/`: sequential functions on characters; `Clock` takes the numbers that `atoi`
  makes of a line as its inputs.
* What the processor does with the page tables (page faults stop the machine), and
  `kmalloc` after `initialize_heap`, which nobody calls.
* The texts of menus and help, `show_*` (they only read), `serial_close`, and the
  port's set-up in `serial_open`.

## 9. Running it

    tlc -workers 2 -config kernel.cfg MC_Kernel
    tlc -workers 2 -config mpx.cfg MC_Mpx            # mpx_rounds, mpx_after_exit, mpx_shutdown
    tlc -workers 2 -config commands.cfg MC_Commands  # commands_delete
    tlc -workers 2 -config heap.cfg MC_Heap          # heap_two_blocks
    tlc -workers 2 -config serial.cfg MC_Serial      # serial_ring
    tlc -workers 2 -config clock.cfg MC_Clock
    tlapm Kernel_proofs.tla      # and PcbQueues_, Mpx_, Commands_, SerialDriver_, Clock_, Heap_, Boot_proofs
