----------------------------- MODULE Pi2LedDriver -----------------------------
(***************************************************************************)
(* team/pi2_led_driver.c: the character device behind the inside LED.      *)
(* Processes run the file operations concurrently; each step below is the  *)
(* code between two points where another process can observe the driver.   *)
(* Module loading follows the ladder of pi2_led_init with every failure    *)
(* branch, and can be repeated after a failure or an unload.               *)
(***************************************************************************)
EXTENDS Integers, Sequences, FiniteSets

CONSTANT Proc

None == "none"
ASSUME ProcAssumption == None \notin Proc

Bit == {0, 1}
Void == -1                \* no value; as a command, any byte but '0' and '1'

Resources == {"gpio", "region", "cdev", "class", "device"}

\* pi2_led_init, call by call: what the call acquires when it succeeds and
\* what its failure branch releases before returning the error.
Ladder ==
    << [call |-> "gpio_is_valid",         gets |-> {},         undo |-> {}],
       [call |-> "gpio_request",          gets |-> {"gpio"},   undo |-> {}],
       [call |-> "gpio_direction_output", gets |-> {},         undo |-> {"gpio"}],
       [call |-> "alloc_chrdev_region",   gets |-> {"region"}, undo |-> {"gpio"}],
       [call |-> "cdev_add",              gets |-> {"cdev"},
                                          undo |-> {"region", "gpio"}],
       [call |-> "class_create",          gets |-> {"class"},
                                          undo |-> {"cdev", "region", "gpio"}],
       [call |-> "device_create",         gets |-> {"device"},
                                          undo |-> {"class", "cdev", "region", "gpio"}] >>

VARIABLES
    step,       \* the next call of the ladder; 0 when the module is not loaded
    held,       \* the kernel resources the module holds
    gpio,       \* the level of the LED pin
    led_state,  \* the driver's copy of it
    led_lock,   \* owner of the mutex, or None
    pc,         \* pc[p]: where process p is
    cmd,        \* cmd[p]: the command byte of p's write
    pos,        \* pos[p]: *ppos of p's open file
    kbuf,       \* kbuf[p]: the byte p's read has captured
    ret         \* ret[p]: what p's last call returned

modVars == <<step, held>>
fileVars == <<cmd, pos, kbuf, ret>>
vars == <<modVars, gpio, led_state, led_lock, pc, fileVars>>

Loaded == Len(Ladder) + 1
WritePC == {"w_lock", "w_gpio", "w_state", "w_unlock"}
ReadPC == {"r_lock", "r_get", "r_unlock", "r_copy"}
\* Points at which the process owns led_lock.
CriticalPC == {"w_gpio", "w_state", "w_unlock", "r_get", "r_unlock"}

Init ==
    /\ step = 0
    /\ held = {}
    /\ gpio \in Bit
    /\ led_state = 0
    /\ led_lock = None
    /\ pc = [p \in Proc |-> "closed"]
    /\ cmd = [p \in Proc |-> Void]
    /\ pos = [p \in Proc |-> 0]
    /\ kbuf = [p \in Proc |-> Void]
    /\ ret = [p \in Proc |-> None]

-----------------------------------------------------------------------------
(* Loading and unloading. *)

Insmod ==
    /\ step = 0
    /\ step' = 1
    /\ UNCHANGED <<held, gpio, led_state, led_lock, pc, fileVars>>

\* A seeded fault: the class_create branch forgets cdev_del.
Mut_Released(i) ==
    IF Ladder[i].call = "class_create" THEN Ladder[i].undo \ {"cdev"}
                                       ELSE Ladder[i].undo
Released(i) == Ladder[i].undo

InitCallFails ==
    /\ step \in 1 .. Len(Ladder)
    /\ held' = held \ Released(step)
    /\ step' = 0
    /\ UNCHANGED <<gpio, led_state, led_lock, pc, fileVars>>

\* gpio_direction_output drives the pin low; led_state = 0 follows it.
InitCallSucceeds ==
    /\ step \in 1 .. Len(Ladder)
    /\ held' = held \cup Ladder[step].gets
    /\ step' = step + 1
    /\ IF Ladder[step].call = "gpio_direction_output"
       THEN gpio' = 0 /\ led_state' = 0
       ELSE UNCHANGED <<gpio, led_state>>
    /\ UNCHANGED <<led_lock, pc, fileVars>>

\* fops.owner = THIS_MODULE: an open file pins the module.
Unpinned == \A p \in Proc : pc[p] = "closed"

\* pi2_led_exit: lamp off, then everything released.
Exit ==
    /\ step = Loaded
    /\ Unpinned
    /\ gpio' = 0
    /\ led_state' = 0
    /\ held' = held \ Resources
    /\ step' = 0
    /\ UNCHANGED <<led_lock, pc, fileVars>>

-----------------------------------------------------------------------------
(* The file operations. *)

Goto(p, there) == pc' = [pc EXCEPT ![p] = there]
Returns(p, value) ==
    /\ Goto(p, "open")
    /\ ret' = [ret EXCEPT ![p] = value]

Open(p) ==
    /\ pc[p] = "closed"
    /\ step = Loaded
    /\ Goto(p, "open")
    /\ pos' = [pos EXCEPT ![p] = 0]
    /\ UNCHANGED <<modVars, gpio, led_state, led_lock, cmd, kbuf, ret>>

Release(p) ==
    /\ pc[p] = "open"
    /\ Goto(p, "closed")
    /\ ret' = [ret EXCEPT ![p] = None]
    /\ UNCHANGED <<modVars, gpio, led_state, led_lock, cmd, pos, kbuf>>

\* count < 1, or copy_from_user failed: refused before the lock is touched.
WriteRefused(p) ==
    /\ pc[p] = "open"
    /\ \E e \in {"EINVAL", "EFAULT"} : Returns(p, e)
    /\ UNCHANGED <<modVars, gpio, led_state, led_lock, cmd, pos, kbuf>>

WriteCall(p) ==
    /\ pc[p] = "open"
    /\ \E c \in Bit \cup {Void} : cmd' = [cmd EXCEPT ![p] = c]
    /\ ret' = [ret EXCEPT ![p] = None]
    /\ Goto(p, "w_lock")
    /\ UNCHANGED <<modVars, gpio, led_state, led_lock, pos, kbuf>>

\* A seeded fault: mutex_lock that does not wait for the owner.
Mut_LockFree == TRUE
LockFree == led_lock = None

MutexLock(p, from, there) ==
    /\ pc[p] = from
    /\ LockFree
    /\ led_lock' = p
    /\ Goto(p, there)
    /\ UNCHANGED <<modVars, gpio, led_state, fileVars>>

WriteLock(p) == MutexLock(p, "w_lock", "w_gpio")

WriteGpio(p) ==
    /\ pc[p] = "w_gpio"
    /\ cmd[p] \in Bit
    /\ gpio' = cmd[p]
    /\ Goto(p, "w_state")
    /\ UNCHANGED <<modVars, led_state, led_lock, fileVars>>

\* A seeded fault: the invalid-command branch returns with the mutex held.
Mut_UnlockInvalid == led_lock' = led_lock
UnlockInvalid == led_lock' = None

\* Neither '1' nor '0': the branch has its own unlock before -EINVAL.
WriteInvalid(p) ==
    /\ pc[p] = "w_gpio"
    /\ cmd[p] \notin Bit
    /\ UnlockInvalid
    /\ Returns(p, "EINVAL")
    /\ UNCHANGED <<modVars, gpio, led_state, cmd, pos, kbuf>>

WriteState(p) ==
    /\ pc[p] = "w_state"
    /\ led_state' = cmd[p]
    /\ Goto(p, "w_unlock")
    /\ UNCHANGED <<modVars, gpio, led_lock, fileVars>>

WriteUnlock(p) ==
    /\ pc[p] = "w_unlock"
    /\ led_lock' = None
    /\ Returns(p, "count")
    /\ cmd' = [cmd EXCEPT ![p] = Void]
    /\ UNCHANGED <<modVars, gpio, led_state, pos, kbuf>>

AtEnd(p) == pos[p] > 0

\* End of file, without looking at the lamp.
ReadAtEnd(p) ==
    /\ pc[p] = "open"
    /\ AtEnd(p)
    /\ Returns(p, "EOF")
    /\ UNCHANGED <<modVars, gpio, led_state, led_lock, cmd, pos, kbuf>>

ReadCall(p) ==
    /\ pc[p] = "open"
    /\ ~AtEnd(p)
    /\ ret' = [ret EXCEPT ![p] = None]
    /\ Goto(p, "r_lock")
    /\ UNCHANGED <<modVars, gpio, led_state, led_lock, cmd, pos, kbuf>>

ReadLock(p) == MutexLock(p, "r_lock", "r_get")

ReadGet(p) ==
    /\ pc[p] = "r_get"
    /\ kbuf' = [kbuf EXCEPT ![p] = led_state]
    /\ Goto(p, "r_unlock")
    /\ UNCHANGED <<modVars, gpio, led_state, led_lock, cmd, pos, ret>>

ReadUnlock(p) ==
    /\ pc[p] = "r_unlock"
    /\ led_lock' = None
    /\ Goto(p, "r_copy")
    /\ UNCHANGED <<modVars, gpio, led_state, fileVars>>

\* count < 2 and a failing copy_to_user are only noticed here.
ReadCopy(p) ==
    /\ pc[p] = "r_copy"
    /\ \/ \E e \in {"EINVAL", "EFAULT"} : Returns(p, e) /\ UNCHANGED pos
       \/ Returns(p, "two bytes") /\ pos' = [pos EXCEPT ![p] = @ + 2]
    /\ kbuf' = [kbuf EXCEPT ![p] = Void]
    /\ UNCHANGED <<modVars, gpio, led_state, led_lock, cmd>>

-----------------------------------------------------------------------------
Lock(p) == WriteLock(p) \/ ReadLock(p)

\* Steps of a call in progress other than acquiring the mutex.
Run(p) ==
    \/ WriteGpio(p) \/ WriteInvalid(p) \/ WriteState(p) \/ WriteUnlock(p)
    \/ ReadGet(p) \/ ReadUnlock(p) \/ ReadCopy(p)

\* What a process may choose to do with its file descriptor.
Choose(p) ==
    \/ Open(p) \/ Release(p)
    \/ WriteRefused(p) \/ WriteCall(p)
    \/ ReadAtEnd(p) \/ ReadCall(p)

Load == Insmod \/ InitCallFails \/ InitCallSucceeds \/ Exit

Next == Load \/ \E p \in Proc : Choose(p) \/ Lock(p) \/ Run(p)

Spec == Init /\ [][Next]_vars

\* The kernel keeps running a process that is inside a call, and its mutex
\* hands the lock over to waiters; what users do next is up to them.
FairSpec == Spec /\ \A p \in Proc : WF_vars(Run(p)) /\ SF_vars(Lock(p))

-----------------------------------------------------------------------------
(* Properties. *)

TypeOK ==
    /\ step \in 0 .. Loaded
    /\ held \subseteq Resources
    /\ gpio \in Bit
    /\ led_state \in Bit
    /\ led_lock \in Proc \cup {None}
    /\ pc \in [Proc -> {"closed", "open"} \cup WritePC \cup ReadPC]
    /\ cmd \in [Proc -> Bit \cup {Void}]
    /\ pos \in [Proc -> {0, 2}]
    /\ kbuf \in [Proc -> Bit \cup {Void}]
    /\ ret \in [Proc -> {None, "EINVAL", "EFAULT", "count", "EOF", "two bytes"}]

\* Once pi2_led_init has driven the pin, whoever finds led_lock free finds the
\* driver's led_state equal to the level of the pin: gpio_set_value and the
\* assignment after it are one step to everyone who takes the mutex.
LampMatchesState ==
    step > 3 /\ led_lock = None => gpio = led_state

\* A load that failed at any call of pi2_led_init, and an unload, leave nothing
\* behind: no pin, device number, cdev, class or device node.
NothingLeftBehind == step = 0 => held = {}

\* A process with the device open never runs in a driver that is half loaded
\* or already torn down by pi2_led_exit.
OpenFilePinsDriver ==
    \A p \in Proc : pc[p] # "closed" => step = Loaded /\ held = Resources

\* The owner recorded in the mutex is the one process between mutex_lock and
\* mutex_unlock, on every path out of the read and write handlers.
LockHeldExactly ==
    \A p \in Proc : pc[p] \in CriticalPC <=> led_lock = p

\* Every read or write of the device returns, whatever its command byte:
\* no path through the handlers leaves led_lock taken.
CallsReturn ==
    \A p \in Proc : pc[p] \in WritePC \cup ReadPC ~> pc[p] = "open"

-----------------------------------------------------------------------------
(* The driver implements the one-bit register of LedRegister: a write takes *)
(* effect when the pin changes, a read when it copies led_state.            *)

opBar == [p \in Proc |->
    IF pc[p] \in {"closed", "open"} THEN "idle"
    ELSE IF pc[p] \in {"w_lock", "w_gpio"} THEN "write"
    ELSE IF pc[p] \in {"r_lock", "r_get"} THEN "read"
    ELSE "done"]

argBar == [p \in Proc |->
    IF pc[p] \in WritePC THEN cmd[p]
    ELSE IF pc[p] \in ReadPC THEN kbuf[p] ELSE Void]

Register == INSTANCE LedRegister WITH lamp <- gpio, op <- opBar, arg <- argBar

\* Concurrent reads and writes of the device behave like indivisible accesses
\* to the lamp: every read reports what the LED showed at one instant of the
\* call, and refused calls have no effect.
ImplementsRegister == Register!RegSpec
=============================================================================
