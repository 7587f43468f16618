# TLA+ models of the Embedded-System repository

The repository holds the exercises and challenges of an embedded-Linux course
(Raspberry Pi kernel modules and small programs, `lab1` to `lab14`) and a team project (`team/`):
a room with an entry and an exit gate, whose second Raspberry Pi runs an MQTT
server and a kernel driver for the inside LED. This directory models the parts
that keep state shared between concurrent activities: processes inside a
driver, interrupt handlers, timers, module load and unload, a broker link.

Every module is read off the C source; `PROJECT.json` maps each definition to
its lines. The kernel, libmosquitto and the gates are outside the repository and
appear only as the modelled code uses them.

## Inventory

| component | state | operations | what is hard about it | what makes it correct |
|---|---|---|---|---|
| Pi2 LED driver `team/pi2_led_driver.c` | pin, `led_state`, `led_lock`, resources of the load ladder | open, release, read, write, init, exit | concurrent callers, early returns with the mutex held, seven-step init with undo | pin and copy agree under the mutex, calls are linearizable, every call returns, failed loads leave nothing |
| Pi2 server `team/server_pi_app.c` | `current_count`, `running`, `led_fd`, client | start-up, `mosquitto_loop`, `on_connect`, `on_message`, reconnect, signals, shutdown | lost replies, broken link, signals at any point, other writers of the LED | the count is exact up to unused ALLOWs, capacity, lamp and status follow the count, resubscription, orderly stop |
| ch4 queue `lab5/ch4` | message list, heap nodes, wait queue, spinlock | read and write ioctl, exit | lost wakeups, several readers woken for one message, freeing on error paths | FIFO, no leak or double free, no lost wakeup |
| ch7 PIR lamp `lab8/ch7` | pin, `led_on`, timer, `led_lock` | interrupt handler, timer callback, init, exit | interrupt against timer against rmmod, an expired timer that runs late | pin and copy agree, a lit lamp has a timer, unload leaves nothing |
| simple_block_1/2 `lab5/ex1`, `lab5/ex2` | `my_data`, wait queue | four kinds of wait, two kinds of wake-up | test and take are not atomic, exclusive waiters, timeouts taken for success, arguments of any sign | bounded overdraft, no lost wakeup |
| simple_rcu `lab9/ex2` | published pointer, heap | read, write, init, exit | grace periods against readers; nothing keeps writers apart | readers never follow a freed word |
| ch6 and simple_timer `lab6/ch6`, `lab6/ex3` | pins, self-rearming timer | callback, init, exit | `del_timer` against a running callback | nothing outlives exit (refuted for simple_timer; for ch6 unless `del_timer` met the callback at work), LED follows switch |
| ch3 queue `lab4/ch3` | message list, heap nodes, spinlock | read and write ioctl, init, exit | two allocations and a copy nobody looks at; readers and writers at both ends | FIFO, no leak or double free, whoever dies |
| simple_rwlock `lab9/ex1` | published pointer, heap, reader-writer lock | read, write, init, exit | `rmmod` among running calls | readers never follow a freed word, nothing leaks but a word published behind exit's back |
| spin_interrupt `lab8/ex3` | list, spinlock, line, its disable counter | open, release, handler, init, exit | the handler on the CPU that holds the lock; `enable_irq` counts, `open` does not | no self-deadlock, list exact, deaf only after overlapping opens |
| tasklet, workqueue, kthread `lab11` | pending and running work, heap items, thread | handler, deferred function, init, exit | unload against interrupts and pending work; unchecked failures | nothing survives exit, `rmmod` returns |
| pins and interrupts of the board | owner of each pin and line | init and exit of eleven modules, change of `led_gpio` | modules on the same pins, init functions overlapping and giving up half way, careless releases | who asked for a pin and has not released it owns it, except on pins somebody careless did not get |
| ch9 step motor `lab10/ch9` | coils, rotor | `moveDegree` from init | integer division, change of direction | the angles add up to half a step |
| ch11 proc file `lab12/ch11` | one string | write, show, init, exit | no lock, copy and scan byte by byte, faults, lengths at the limit | nothing leaves the array; an undisturbed show prints what was written |
| ch2 calculator `lab3/ch2` | accumulator | four ioctls | unlocked `+=` and `*=` | what lost updates can cost at most |
| scheduler programs `lab14/ex2` to `ex5` | policy, priorities, sleeps | fork, `sched_setattr`, delay | sleeps, priorities and CPU time decide the order | the finishing times the programs are written to show |
| simple_led, simple_switch, switch_irq, simple_sensor | pins, a counter | init, exit, handler | shared pins | as the board |
| simple_spin, simple_linked_list, simple_proc, simple_sysfs, char, ioctl, param, hello, debug, symbol, eBPF | none shared, or a simpler copy of the above | printing, measuring | | not modelled |

Interactions. `server_pi_app.c` opens `/dev/pi2_led_dev` and writes `'0'` or
`'1'`; the descriptor pins the driver, which is why the server may assume that
its writes succeed. `mknod.sh` makes the node world-writable, so other processes
may write the lamp too (`OtherWritesLed`). The labs' reader, writer and controller
programs use the lab drivers through ioctl; a driver is the shared state of all
of them.

## Modules

| module | models |
|---|---|
| `LedRegister` | abstract: the one bit the LED device promises |
| `Pi2LedDriver` | `team/pi2_led_driver.c` |
| `Pi2LedDriver_proofs` | theorems about it, the refinement of `LedRegister` included |
| `ServerPi` | `team/server_pi_app.c` and its surroundings |
| `ServerPi_proofs` | theorems about it |
| `MessageFifo` | abstract: messages leave in order, each to one reader |
| `Ch4Queue`, `MCCh4Queue` | `lab5/ch4` |
| `Ch4Queue_proofs` | theorems about it, the refinement of `MessageFifo` included |
| `Ch7Pir`, `Ch7Pir_proofs` | `lab8/ch7`, and theorems about it |
| `SimpleBlock`, `MCSimpleBlock` | `lab5/ex1` and `lab5/ex2`, told apart by constants |
| `SimpleBlock_proofs` | theorems about it |
| `SimpleRcu`, `SimpleRcu_proofs` | `lab9/ex2`, and theorems about it |
| `SimpleRwlock` | `lab9/ex1` |
| `SimpleTimer` | `lab6/ex3` |
| `PollTimer` | `lab6/ch6`, the same skeleton with two pins |
| `Ch3Queue` | `lab4/ch3`; implements `MessageFifo` too |
| `SpinInterrupt` | `lab8/ex3` |
| `DeferredWork` | `lab11/ex1` to `ex3`, one of the three loaded at a time |
| `Board` | who holds which pin and interrupt, for all modules that use one |
| `StepMotor` | `lab10/ch9` and a rotor |
| `Ch11Proc` | `lab12/ch11` |
| `Ch2Calc` | `lab3/ch2` |
| `SchedDemo` | `lab14/ex2` to `ex5` and the schedulers as they use them |
| `LabBench` | `Ch7Pir` and the ten small models `SimpleRwlock`, `PollTimer` to `SchedDemo`, tried one at a time |
| `LabBench_proofs` | theorems about these ten, on the bench |
| `ListLemmas` | lemmas about the drivers' linked lists and wait queues as sequences without repetition |

Conventions. A process (or handler, or callback) has a program counter `pc`;
one action is the code between two points at which somebody else can look. Code
under a lock is still cut into steps, so that mutual exclusion is a result and
not an assumption. Module loading is a table (`Ladder`): for each call of the
init function what it acquires and what its failure branch releases; any call
may fail. `Mut_X` operators just before `X` are seeded faults: a plausible bug of
that code, used to see that the properties notice it. They are not used by the
specifications.

### How state and actions correspond to the code

* **Pi2LedDriver.** `WriteCall` to `WriteUnlock` are `pi2_led_write` from
  `copy_from_user` to `return count`, `WriteInvalid` its `-EINVAL` branch with its own
  unlock; `ReadAtEnd` to `ReadCopy` are `pi2_led_read`, whose short-buffer check
  really comes after the lamp was read. `pos` is `*ppos` of the process's file;
  each process has its own descriptor. `led_gpio` is a module parameter and stays
  fixed here; `Board` has the step that changes it under the loaded driver.
* **ServerPi.** `pc` walks through `main`; `LoopMessage`, `OnMessage`, `OnMessageLed`,
  `OnMessageStatus` are one callback run in three steps, between which signals and
  link failures may come. `air`, `wasted` and `inside` are the world: an ALLOW that was
  published, one that nobody used, and the net number of people who walked in.
  Publishing while the link is down loses the message (QoS 0, clean session).
* **Ch4Queue, SimpleBlock.** `wait_event_interruptible` is unfolded into test,
  `prepare_to_wait_event`, test again, sleep, since the lost-wakeup question lies
  between those steps; a signal may come at each. In `Ch4Queue` `node[p]` is the heap
  node the process must still link or free. In `SimpleBlock` exclusive waiters form
  a sequence and `wake_up` releases the first of them and all the others. The argument of a
  wake-up is added whatever its sign, as `scanf("%ld")` of the writer programs delivers it: a
  negative one takes units out, and `drawn` keeps count of those, so that `Balance` is what
  readers and their overdraft alone have made of `my_data`.
* **Ch7Pir.** `irq` and `cb` are the interrupt handler and the timer callback, which
  may be on different CPUs; `left` is the time to expiry and an expired timer may
  fire late. `exit` is the position in `ch7_mod_exit`.
* **SimpleRcu.** `grace[w]` is the set of read-side sections that `synchronize_rcu`
  of writer `w` still waits for.
* **SimpleTimer.** The callback is one step away from its `mod_timer` (`cb = "count"`), and
  `SimpleTimerExit` may come in between.
* **PollTimer.** As `SimpleTimer`, with pins that init may fail to get and the exit function cut
  into its calls. `caught` remembers whether the last `del_timer` met a running callback.
* **Ch3Queue.** As `Ch4Queue` without waiting. A NULL from `kmalloc` kills the writer at the
  store (`"dead"`), a failed copy links `Garbled`.
* **SimpleRwlock.** `life` is the position in `simple_rwlock_exit`, which runs among the calls;
  `late` remembers that a waiting writer published a word after exit had freed the last one.
* **SpinInterrupt.** A process runs on the CPU of its name and the handler on any CPU whose
  interrupts are on, on top of what runs there. `depth` is the disable counter of the line;
  `overlap` remembers that two files were open at once.
* **DeferredWork.** `pending` and `running` are the tasklet or the work items, `life` the call of
  the exit function that is next; a failure nobody looks at leads to `"oops"`. `late` remembers
  a schedule after `tasklet_kill`.
* **Board.** One row per module: the calls of its init in order, what each gets (`Gpio`, `Irq`, or
  nothing), what its failure branch releases, and whether init looks at results at all. Init functions of
  different modules overlap call by call (`CallSucceeds`), and every call may fail, whether or not
  what it asks for is free: a careful init then releases what the branch says (`CallFails`), a careless one
  goes on (`FailsRegardless`). `gpio_free` and `free_irq(irq, NULL)` take things away from
  whoever has them, so the books are void on the pins that a careless init did not get, and on those
  that `led_gpio` was moved to or from under the driver; `spoiled` remembers these pins, and every
  other pin stays under the property.
* **StepMotor.** The four `gpio_set_value` calls of `setstep` are one step: the rotor has no time
  to follow the patterns in between. The rotor is external.
* **Ch11Proc.** `copy_from_user` stores one byte per step and `proc_info_show` reads one per step,
  in two passes. `alone` and `expect` are history: a call no other writer disturbed, and what
  it must show.
* **Ch2Calc.** `+=` and `*=` are a load and a store; values wrap at `WIDTH` bits. `counting`
  remembers that every call so far was `GET` or `ADD 1`, and `stored` how many stores there were:
  the bound is stated for additions of 1 and as long as their number cannot wrap the result.
* **SchedDemo.** A tick is a second, a slice or 2 ms, depending on the program; `Chosen` is the
  scheduler. `delay()` counts `clock()`, which is CPU time.
* **LabBench.** A first step chooses a component (`which`) and only that one moves. The components
  share no state, so each has all its behaviours and the run is their sum, not their product. `Ch7Pir`
  is extended, under its own names; the others are instantiated with prefixed variables.

## Runs

Passing runs:

| run | question | bounds |
|---|---|---|
| `driver` | `LampMatchesState`, `NothingLeftBehind`; linearizability (`ImplementsRegister`, a refinement of `LedRegister`); `CallsReturn` | 3 processes, loads that fail at every call, unloads |
| `server` | `Ledger`, `OccupancyBound`, `LampTellsOccupancy`, `StatusIsCurrent`, `ExitReleasesAll`; a signal stops the server (`SignalStops`), a broken link is followed by a new subscription (`Resubscribes`) | `MAX_COUNT` 2, 3 requests, 2 broken links, 1 foreign write of the lamp |
| `ch4` | `HeapExact`, `NoLostWakeup`, and FIFO order (`ImplementsFifo`, a refinement of `MessageFifo`) | 3 processes, 2 nodes, 2 contents, symmetric |
| `block` | `OverdraftBound`, `NoLostWakeup`, `NobodyStranded` | 3 processes, the commands of both drivers together, wake-ups with 1 and with -1, at most 2 units, 1 unit taken out by a writer, 1 timed-out wait |
| `rcu_one_writer` | `ReaderSafe`, `HeapExact`, `WriterReturns` | 2 readers, 1 writer, 3 addresses, 2 values |
| `bench` | `Ch7Pir` and the ten small models, see below | `HOLD` 2, 2 processes, 3 addresses, 2 contents, `PERIOD` 2, 2 presses, 4 modules on the board, `BUF_SIZE` 2, `WIDTH` 3, 3 calls of each ch2 process |

What `bench` checks of each component:

| component | properties |
|---|---|
| `Ch7Pir` | `LampMatchesState`, `TimerCoversLamp`, `UnloadLeavesNothing`, `EventuallyDark` (liveness) |
| `PollTimer` | `OutlivesOnlyIfCaught`: timer and callback outlive exit only when `del_timer` met the callback at work; `LedFollowsSwitch` (liveness) |
| `Ch3Queue` | `HeapExact`, `ImplementsFifo` (refinement of `MessageFifo`), with writers dying and copies failing |
| `SimpleRwlock` | `WordSafe`, with `rmmod` among the calls |
| `SpinInterrupt` | `NoSelfDeadlock`, `ListExact`, `ListensExactlyWhileOpen` |
| `DeferredWork` | `NothingSurvivesExit`, `RmmodReturns` (liveness) |
| `Board` | `OwnsWhatItUses`, with init functions interleaved, calls failing anywhere, unloads and changes of `led_gpio` |
| `StepMotor` | `ReachesAngle`, from insmod to the last leg with the real table and `ONEROUND` |
| `Ch11Proc` | `ScanStaysInside`, `ShowsWhatWasWritten` |
| `SchedDemo` | `FinishTimes`, for all four programs and every failing call and fork |
| `Ch2Calc` | `UpdatesSurvive`: two calls survive of any number of overlapping additions, and no more than that is certain |

They are enough in this sense: the races need at most three parties (two that compete
and one that feeds them), the load ladders are walked completely, counters reach
their limit and come back, and every action of every next-state relation is taken.
Two ticks tell "not yet", "just" and "late" apart for the timers. The `block` run
takes the union of what the two drivers offer, so the behaviours of each are among
those checked. At most one unit per wake-up is a precondition of `NobodyStranded` only: a
writer that added several units and woke one exclusive waiter would leave the others
asleep; negative arguments are no exception to it. `MaxData` and `MaxDrawn` also stand for the
range of a `long`, in which the sums stay. `block` goes without the deadlock check, since all processes may
sleep in the uninterruptible `WQ` with nobody left to write.

The bounds of `bench`: two processes make every race of these drivers, whose critical
sections or shared words have no third role (in `SpinInterrupt` the handler and the idle
CPU are the third and fourth party; in `Ch3Queue` a writer dies before it takes the lock, so
that a third process would find what the second one finds).
Three addresses give every process one and leave one to be reused. Of the four modules on the
board the careless `simple_tasklet` and the careful `ch7` contend for pin 17 and its interrupt, the careful
`ch7`, `ch6` and `pi2_led` for pin 5, and `pi2_led` moves to pin 6 with its parameter; the rows of the
other seven are combinations of the same calls, and the theorem covers all eleven. `BUF_SIZE` 2 has strings shorter than,
equal to and longer than the buffer, with the newline inside, at and beyond the cut. Three bits
hold the at most six stores of two processes, so that `UpdatesSurvive` is checked at every store,
and let products wrap; three calls each are one more than the loss bound needs. Two presses put one interrupt into each window
of the exit functions, also after an earlier one is queued. `bench` has no deadlock check:
a panic, an oops, and a module unloaded under its own timer are the end of that system.

Runs that refute a statement of the repository:

| run | statement | what the code does |
|---|---|---|
| `ch4_blocks` | a read blocks until a message comes (`ch4_mod` line 36) | a reader that lost the race for the message returns `-EFAULT` |
| `pir_hold` | the callback runs 10 s after the last detection (`ch7_mod` line 65) | a callback that expired and waits for the lock switches the new detection's lamp off |
| `pir_unload` | exit removes the timer (`ch7_mod` line 176) | a detection between `del_timer_sync` and `free_irq` arms it again |
| `timer_unload` | exit removes the timer (`simple_timer.c` line 52) | `del_timer` meets the running callback, which arms it again |
| `block_consume` | "success to consume" (`simple_block_1_reader.c` line 29) | a timed-out or overtaken wait consumes a unit that is not there |
| `rcu_two_writers` | the old word is freed after its readers (`simple_rcu.c` lines 61-64) | two writers take the same old pointer |

Further behaviours the models show and no comment of the code denies, so that a passing property
carries them as an exception: a ch6 callback met by `del_timer` outlives the module (`caught`; of
simple_timer, whose comment claims the contrary, `timer_unload` refutes it); a
`simple_rwlock` writer that waits for exit's lock leaks a word (`late`); a switch press between
`tasklet_kill` and `free_irq` leaves the tasklet scheduled (`late`); after overlapping opens
`spin_interrupt` can be open and deaf (`overlap`); a careless init takes away another module's
pin or interrupt (`spoiled`). With the exception removed each of these properties fails.

## Fairness

* A process inside a system call, an interrupt handler, a callback and a started
  `rmmod` are scheduled (weak fairness of their steps). What users do next is never
  forced.
* The mutex hands the lock to a waiter that has waited long enough, and the queued
  spinlock serves its waiters in turn: strong fairness of the lock steps.
* Time passes (`Tick`), and expired timers are served.
* `ServerPi`: `mosquitto_loop` has a timeout, so `main` always gets on; and a broker that
  keeps being asked eventually accepts (strong fairness of `Reconnect` and `OnConnect`).
  `Resubscribes` depends on that assumption, `SignalStops` does not.
* `LabBench`: time and expired timers of ch6 and ch7, the spinlock of ch7 as above; handlers, softirqs, workers and the thread of lab11
  get a CPU, and an exit function goes on when what it waits for is over. `MaxPress` makes the
  presses finite: nobody presses a switch without end while `free_irq` waits.

`ch4`, `block`, `block_consume`, `pir_unload`, `timer_unload` and `rcu_two_writers` check safety under the
specification without fairness. "Somebody is left asleep" is stated there as an
invariant (`NoLostWakeup`, `NobodyStranded`), which says more than a liveness property that
a later writer could rescue.

## Theorems

Where a theorem states a property no run lists (type correctness, `LockHeldExactly`,
`OpenFilePinsDriver`, `EveryDetectionBlinks`, `LoadsAgree`, `EarlyOnlyIfRearmed`, `BoundBy`), the proof
is the check.

All proofs are by an inductive invariant `IInv`, which is a conjunction of named
parts, with one lemma or step per action.

* **`Pi2LedDriver_proofs`**, for any set `Proc` that does not contain the marker for
  "no owner". `IInv` adds two things to the properties: what exactly is held
  before each call of the ladder (`HeldBefore`), without which a failing call cannot
  be shown to release everything; and that pin and `led_state` differ only while some
  writer stands between the two assignments, together with the position and the
  captured byte of a reader. From it follow `TypeOK`, `LockHeldExactly`,
  `LampMatchesState`, `NothingLeftBehind`, `OpenFilePinsDriver`, and the refinement
  `ImplementsRegister`: each step is the register's step named by the refinement mapping
  or invisible. The instant of a read needs `led_state = gpio` at `ReadGet`, which comes
  from mutual exclusion.
* **`ServerPi_proofs`**, for every `MAX_COUNT \in Nat`; the bounds on requests and
  failures play no part. `Ledger` and the range of the count are inductive together;
  lamp and status lag behind only at named points of `on_message`, and start-up keeps
  the count at zero and no status published.
* **`Ch7Pir_proofs`**, for every `HOLD > 0`: the pin and its copy, `TimerCoversLamp`, the
  unload property and the blinking action property. `LockInv` places the owner of
  `led_lock`, `LoadInv` says what each call of init finds held, and `LampInv` where handler,
  callback and exit may leave pin and copy apart. `EarlyCallbackWasOvertaken` says how far the
  code is from what `pir_hold` refutes: an early callback always finds a newer timer armed, since
  the time since the last `mod_timer` and the time left of an armed timer add up to `HOLD`.
* **`SimpleRcu_proofs`**: with at most one writer (`OneWriter`), and any readers,
  addresses and values, `ReaderSafe`, `HeapExact` and `LoadsAgree`. The heart is that a reader
  holds the published word or the one that the writer has replaced and whose
  `synchronize_rcu` waits for just this reader; it fails with two writers, as the run
  `rcu_two_writers` shows.
* **`SimpleBlock_proofs`**, for any finite, nonempty `Proc` and any commands:
  `OverdraftBound` and `NoLostWakeup` for any amounts of either sign. A process passes its test only when
  `my_data` is at least 1, and then at most all processes are on their way to `my_data--`; a
  timed-out wait passes without a unit and is paid for by `late`; a negative argument moves units from
  `my_data` to `drawn`, and `Balance`, their sum, is never below `my_data`, which is all a test
  can see; every other step keeps the sum. The cardinality lemmas count the set of those processes as one enters or leaves.
  The bound is proved for the set `R` of the processes that ever wait (`OverdraftByWaiters`), and
  so it also says what the run `block_consume` leaves of the reader program's message: a single reader
  whose waits do not time out consumes only what exists (`SoleReaderConsumesWhatExists`).
  `NobodyStranded`, when no wake-up brings more than one unit (the precondition under which it
  is claimed; with two units it is false). It is not inductive: `wake_up` takes the first
  exclusive waiter off the queue even if that one is awake already, and then nobody new becomes
  active for the unit. `ExclInv` therefore counts, for each exclusive sleeper, only the active
  processes that do not stand in front of it on the queue, so that whoever a `wake_up` releases
  starts to count for all behind it; `SharedInv` counts, for an ordinary sleeper, the
  writers before their `wake_up`. `StrandCount` is the arithmetic, once for all steps.
* **`Ch4Queue_proofs`**, for any processes, addresses and contents that do not contain the marker
  `None`: `HeapExact`, `NoLostWakeup` and `ImplementsFifo`. `LockInv` puts the owner of `my_lock`
  at every step of the two critical sections; `NodeInv` says where a process has a node to
  free or to link, and that between `list_first_entry` and `list_del` it is the first of the
  list; `HeapInv` is `HeapExact` element by element with a list free of repetition. For the
  refinement `TextInv` adds that what is linked, or has just been taken out, is a message: the
  abstract queue is the texts along the list, `r_del` is the abstract take, `w_add` the put.
* **`LabBench_proofs`**, one section per component. A step of the bench is a step of one component
  or leaves that component's variables alone (`OneMoves`), so its invariant need only survive
  its own steps. The sections are independent of each other:
  - *simple_rwlock*: `WordSafe`. `RwLockInv` says who holds `my_lock` and where, so that a writer,
    or exit, is alone when it moves the pointer; `RwWordInv`, that a reader past its first
    load follows the word still published; `RwLifeInv`, that a word after exit is a late one.
  - *spin_interrupt*: `NoSelfDeadlock`, `ListExact`, `ListensExactlyWhileOpen`. `SpinLockInv`
    keeps the handler off a CPU whose process has interrupts off or holds the lock;
    `SpinDepthInv` pairs the disable counter with the one open file as long as opens have not overlapped.
  - *lab11*: `NothingSurvivesExit`, for any number of presses. `DeferIrqInv` and `DeferLifeInv`
    say which exit calls may still meet a handler, `DeferWorkInv` who owns a work item.
  - *board*: `OwnsWhatItUses`, inductive with its types, for any choice of the eleven modules and
    any overlap of their init functions. `RowOK` is what the proof asks of a row of the table: a failure
    branch releases exactly the pins of the calls before it, and a careful init gets its interrupt
    last, so that no branch needs a `free_irq`. `BoardRows`
    checks it of all eleven; `BoardReleases` says that giving up or unloading then leaves every
    other module's pins alone.
  - *ch6*: `OutlivesOnlyIfCaught`, for every period.
  - *ch3*: `HeapExact` and `ImplementsFifo`, along the lines of ch4 but with a killed writer's
    node left behind and `Garbled` messages in the list.
  - *ch11*: `ScanStaysInside`, because the last byte of the array is a terminator nobody
    overwrites and no copy is longer than the rest; and `ShowsWhatWasWritten`. `Ch11AloneInv`:
    next to a call that is alone nobody writes; `Ch11WriterInv`: what a lone writer has
    copied is still there; `Ch11StringInv`: between writes the array holds the expected
    string; `Ch11ReaderInv`: an undisturbed reader has counted, then printed, a prefix of it.
    For any processes and any `BUF_SIZE > 0`; the strings written are the four of `LabBench`, of
    which the proof uses only that they are sequences of characters.
  - *ch9*: `ReachesAngle`. `MotorInv` says that the rotor follows the patterns of a leg one by one
    and is always the one half step behind that the next pattern makes up: from any rest
    position the first pattern catches it, and a change of direction repeats the pattern it
    already holds. `MotorHeld` reads the tables: row `n` holds the rotor at `n` and nowhere else.
  - *ch2*: `UpdatesSurvive`, for any processes, `WIDTH` and number of calls. `CalcUpperInv`: what is in `result`
    or in a register never exceeds the stores so far. `CalcLowerInv`: after a process's first addition
    `result` stays above 0, and so does whatever that process loads later; only somebody's
    first addition can leave `result` at 1, so that once all have added twice it is at least 2.
    The lower bound needs the upper one, since it holds only while nothing wraps.
  - *lab14*: `FinishTimes`. `SchedShape` describes each program moment by moment by the list of
    the processes that want the CPU: `FifoInv` the preempted parent, `RrInv` the rounds of one, two
    or three processes (who has had a slice in this round stands behind and has one less to go),
    `DeadlineInv` the period as a function of the work left, `ExtInv` that work done is time
    passed whoever is chosen. Failing calls and forks are cases of it.
* **`ListLemmas`**: what `list_add_tail`, `list_del` and mapping a function along the list do to
  a sequence without repetition, and that taking one element out keeps the others' order.

The proofs assume of the constants that the marker names (`None` and its like) are no
processes, addresses or contents (`NoneAssumption`, `NamesAssumption`), that periods, sizes and widths are
numbers in the range the C types allow (`SizesAssumption`), that there is a process, and in `SimpleBlock`
finitely many (`ProcAssumption`), and that `Loadable` names modules of the table (`LoadableAssumption`).

Only model-checked: liveness (`CallsReturn`, `SignalStops`, `Resubscribes`, `EventuallyDark`,
`WriterReturns`, `LedFollowsSwitch`, `RmmodReturns`), because the prover has no fairness and no `ENABLED`.
Every safety invariant and every refinement that a passing run checks is a theorem. `StepMotor` and
`SchedDemo` have no parameters, so that their theorems say what their runs say, with the
reason why.

## Assumptions

* A device is opened after `insmod` has returned (the node is made by hand, or by udev
  as the last step of init), so init does not race with file operations.
* `.owner = THIS_MODULE` keeps `rmmod` from starting while a file is open. `SimpleRcu`,
  `SimpleBlock`, `Ch3Queue`, `SpinInterrupt` and `Ch2Calc`, whose sources have no `.owner`, are
  modelled without unloading under running calls: a call that outlives the module runs in
  freed code. `SimpleRwlock` has exit among the calls, up to the moment the code goes away.
* `kmalloc(GFP_KERNEL)` of one word in `simple_rcu` and `simple_rwlock` succeeds (the code does not
  look). In ch3, spin_interrupt and lab11 the unchecked failures are modelled.
* `Board`: an exit function is one step; what only writes levels of pins is not there.
* `SimpleBlock`: the sum of the arguments fits a `long`.
* `SchedDemo`: no other load on CPU 0, and no throttling of real-time tasks.
* `Ch2Calc`: the kernel is built so that signed arithmetic wraps.
* The server's count is relative to its start: people inside when it starts are not
  known to it.

## Not modelled

* Printing, `dev_t` numbers, and the tracing and eBPF programs, the hello, debug and symbol
  modules, the char, ioctl and param examples: no state of their own that two activities share.
* `simple_spin` and `simple_linked_list`: teaching versions of what `ch3` and `spin_interrupt` do
  for real; their lists and locks behave as in `Ch3Queue` and `SpinInterrupt`.
* `simple_proc`, `simple_sysfs`: one value behind the kernel's file interface; `Ch11Proc` has the
  harder case.
* `simple_led`, `simple_switch`, `switch_irq`, `simple_sensor`: only what they do to pins and lines
  (`Board`); their handlers print.
* The failure branches of `ch4_init`, and opening a device while its init still runs; `simple_timer`'s
  counter; the value `simple_block` returns after its unlock; a call that outlives its module.

## Plan

Done: the team project first (driver, its register, server), then the lab drivers with
the hardest concurrency, then the smaller modules of the labs, gathered on `LabBench`; then the
safety invariants and the refinements as theorems, without exception. Left:

1. Models: `ch4_init` with its failures, and open during init; calls that outlive the modules
   without `.owner`.
2. Proofs: type correctness of the components on the bench where no other theorem needs it, and
   the consequences of the refinements (a queue's readers never see a message twice) stated on
   `MessageFifo` itself.
