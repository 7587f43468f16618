-------------------------- MODULE Pi2LedDriver_proofs --------------------------
(***************************************************************************)
(* The safety properties of Pi2LedDriver for any set of processes.         *)
(***************************************************************************)
EXTENDS Pi2LedDriver, TLAPS

\* What the module holds before each call of pi2_led_init; 0 is "not loaded".
Rung(i, at, r) == IF i > at THEN {r} ELSE {}
HeldBefore(i) ==
    Rung(i, 2, "gpio") \cup Rung(i, 4, "region") \cup Rung(i, 5, "cdev")
        \cup Rung(i, 6, "class") \cup Rung(i, 7, "device")

\* Resources are held exactly as far as the ladder has been climbed, and files
\* are open only at its top.
LoadInv ==
    /\ held = HeldBefore(step)
    /\ \A p \in Proc : pc[p] # "closed" => step = 8

\* Pin and led_state differ only while a writer stands between setting the
\* one and the other; a reader still has its file position at zero, and a
\* captured byte exists only between its capture and the return.
LampInv ==
    /\ step > 3 /\ (\A p \in Proc : pc[p] # "w_state") => gpio = led_state
    /\ \A p \in Proc : pc[p] \in {"w_state", "w_unlock"} => cmd[p] \in Bit
    /\ \A p \in Proc : pc[p] = "w_state" => gpio = cmd[p]
    /\ \A p \in Proc : pc[p] \in ReadPC => pos[p] = 0
    /\ \A p \in Proc : pc[p] \notin {"r_unlock", "r_copy"} => kbuf[p] = Void

IInv == TypeOK /\ LockHeldExactly /\ LoadInv /\ LampInv

\* The ladder of pi2_led_init has seven calls; its rows, read off.
LEMMA LadderFacts ==
    /\ Len(Ladder) = 7 /\ Loaded = 8
    /\ \A i \in 1 .. 7 :
          /\ HeldBefore(i) \cup Ladder[i].gets = HeldBefore(i + 1)
          /\ HeldBefore(i) \ Ladder[i].undo = {}
          /\ Ladder[i].call = "gpio_direction_output" <=> i = 3
<1>1. Len(Ladder) = 7 /\ Loaded = 8
  BY DEF Ladder, Loaded
<1>2. ASSUME NEW i \in 1 .. 7
      PROVE  /\ HeldBefore(i) \cup Ladder[i].gets = HeldBefore(i + 1)
             /\ HeldBefore(i) \ Ladder[i].undo = {}
             /\ Ladder[i].call = "gpio_direction_output" <=> i = 3
  <2>1. CASE i = 1
    BY <2>1 DEF Ladder, HeldBefore, Rung, Resources
  <2>2. CASE i = 2
    BY <2>2 DEF Ladder, HeldBefore, Rung, Resources
  <2>3. CASE i = 3
    BY <2>3 DEF Ladder, HeldBefore, Rung, Resources
  <2>4. CASE i = 4
    BY <2>4 DEF Ladder, HeldBefore, Rung, Resources
  <2>5. CASE i = 5
    BY <2>5 DEF Ladder, HeldBefore, Rung, Resources
  <2>6. CASE i = 6
    BY <2>6 DEF Ladder, HeldBefore, Rung, Resources
  <2>7. CASE i = 7
    BY <2>7 DEF Ladder, HeldBefore, Rung, Resources
  <2> QED BY <2>1, <2>2, <2>3, <2>4, <2>5, <2>6, <2>7
<1> QED BY <1>1, <1>2

\* Init establishes the inductive invariant.
LEMMA InitInv == Init => IInv
BY ProcAssumption, LadderFacts
   DEF Init, IInv, TypeOK, LockHeldExactly, LoadInv, LampInv, HeldBefore, Rung,
       Bit, Void, WritePC, ReadPC, CriticalPC, Resources

\* Loading and unloading preserve it: the module is never half loaded under an
\* open file, so nobody is inside a call.
LEMMA LoadStepInv == IInv /\ Load => IInv'
<1> SUFFICES ASSUME IInv, Load PROVE IInv'
  OBVIOUS
<1> USE DEF IInv
<1>1. Loaded = 8 /\ Len(Ladder) = 7
  BY LadderFacts
<1>2. HeldBefore(0) = {} /\ HeldBefore(1) = {}
  BY DEF HeldBefore, Rung
<1>3. ASSUME \A p \in Proc : pc[p] = "closed",
             UNCHANGED <<led_lock, pc, fileVars>>,
             step' \in 0 .. 8, held' = HeldBefore(step'),
             gpio' \in Bit, led_state' \in Bit,
             step' > 3 => gpio' = led_state'
      PROVE  IInv'
  <2>1. held' \subseteq Resources
    BY <1>3 DEF HeldBefore, Rung, Resources
  <2>2. TypeOK'
    BY <1>1, <1>3, <2>1 DEF TypeOK, fileVars
  <2>3. LockHeldExactly'
    BY <1>3 DEF LockHeldExactly
  <2>4. LoadInv' /\ LampInv'
    BY <1>3 DEF LoadInv, LampInv, ReadPC, fileVars
  <2> QED BY <2>2, <2>3, <2>4
<1>4. CASE Insmod
  <2>1. \A p \in Proc : pc[p] = "closed"
    BY <1>4 DEF Insmod, LoadInv
  <2>2. /\ step' = 1 /\ held' = {} /\ UNCHANGED <<led_lock, pc, fileVars>>
        /\ gpio' \in Bit /\ led_state' \in Bit
    BY <1>2, <1>4 DEF Insmod, LoadInv, TypeOK
  <2> HIDE DEF IInv
  <2> QED BY <1>2, <1>3, <2>1, <2>2
<1>5. CASE InitCallFails
  <2>1. \A p \in Proc : pc[p] = "closed"
    BY <1>1, <1>5 DEF InitCallFails, LoadInv
  <2>2. held' = {} /\ step' = 0
    BY <1>1, <1>5, LadderFacts DEF InitCallFails, Released, LoadInv
  <2>3. /\ UNCHANGED <<led_lock, pc, fileVars>>
        /\ gpio' \in Bit /\ led_state' \in Bit
    BY <1>5 DEF InitCallFails, TypeOK
  <2> HIDE DEF IInv
  <2> QED BY <1>2, <1>3, <2>1, <2>2, <2>3
<1>6. CASE InitCallSucceeds
  <2>1. step \in 1 .. 7 /\ step' = step + 1 /\ held' = HeldBefore(step')
    BY <1>1, <1>6, LadderFacts DEF InitCallSucceeds, LoadInv
  <2>2. \A p \in Proc : pc[p] = "closed"
    BY <2>1 DEF LoadInv
  <2>3. gpio' \in Bit /\ led_state' \in Bit /\ (step' > 3 => gpio' = led_state')
    <3>1. CASE step = 3
      BY <1>6, <2>1, <3>1, LadderFacts DEF InitCallSucceeds, Bit
    <3>2. CASE step # 3
      <4>1. UNCHANGED <<gpio, led_state>>
        BY <1>6, <2>1, <3>2, LadderFacts DEF InitCallSucceeds
      <4>2. gpio \in Bit /\ led_state \in Bit
        BY DEF TypeOK
      <4>3. step > 3 => gpio = led_state
        BY <2>2 DEF LampInv
      <4> QED BY <2>1, <3>2, <4>1, <4>2, <4>3
    <3> QED BY <3>1, <3>2
  <2> QED BY <1>3, <1>6, <2>1, <2>2, <2>3 DEF InitCallSucceeds
<1>7. CASE Exit
  <2>1. held' = {} /\ step' = 0
    BY <1>7 DEF Exit, TypeOK
  <2> QED BY <1>2, <1>3, <1>7, <2>1 DEF Exit, Unpinned, Bit
<1> QED BY <1>4, <1>5, <1>6, <1>7 DEF Load

\* Every step of a process preserves it.
LEMMA ProcStepInv ==
    ASSUME NEW p \in Proc, IInv, Choose(p) \/ Lock(p) \/ Run(p)
    PROVE  IInv'
<1>0. Loaded = 8
  BY LadderFacts
<1> USE <1>0, ProcAssumption DEF IInv, modVars, fileVars, Bit, Goto, WritePC, ReadPC
<1>1. CASE Open(p)
  BY <1>1 DEF Open, TypeOK, LockHeldExactly, CriticalPC, LoadInv, LampInv, Void
<1>2. CASE Release(p)
  BY <1>2 DEF Release, TypeOK, LockHeldExactly, CriticalPC, LoadInv, LampInv, Void
<1>3. CASE WriteRefused(p)
  <2>1. TypeOK'
    BY <1>3 DEF WriteRefused, Returns, TypeOK, Void
  <2>2. LockHeldExactly'
    BY <1>3 DEF WriteRefused, Returns, TypeOK, LockHeldExactly, CriticalPC
  <2>3. LoadInv'
    BY <1>3 DEF WriteRefused, Returns, TypeOK, LoadInv
  <2>4. LampInv'
    BY <1>3 DEF WriteRefused, Returns, TypeOK, LockHeldExactly, CriticalPC, LoadInv, LampInv
  <2> QED BY <2>1, <2>2, <2>3, <2>4
<1>4. CASE WriteCall(p)
  <2>1. TypeOK'
    BY <1>4 DEF WriteCall, TypeOK, Void
  <2>2. LockHeldExactly'
    BY <1>4 DEF WriteCall, TypeOK, LockHeldExactly, CriticalPC
  <2>3. LoadInv'
    BY <1>4 DEF WriteCall, TypeOK, LoadInv
  <2>4. LampInv'
    BY <1>4 DEF WriteCall, TypeOK, LockHeldExactly, CriticalPC, LoadInv, LampInv
  <2> QED BY <2>1, <2>2, <2>3, <2>4
<1>5. CASE ReadAtEnd(p)
  BY <1>5 DEF ReadAtEnd, AtEnd, Returns, TypeOK, LockHeldExactly, CriticalPC, LoadInv, LampInv, Void
<1>6. CASE ReadCall(p)
  <2>0. pos[p] = 0
    <3>1. pos[p] \in {0, 2} /\ ~(pos[p] > 0)
      BY <1>6 DEF ReadCall, AtEnd, TypeOK
    <3> HIDE DEF IInv
    <3> QED BY <3>1
  <2>1. TypeOK'
    BY <1>6 DEF ReadCall, TypeOK
  <2>2. LockHeldExactly'
    BY <1>6 DEF ReadCall, AtEnd, TypeOK, LockHeldExactly, CriticalPC
  <2>3. LoadInv'
    BY <1>6 DEF ReadCall, AtEnd, TypeOK, LoadInv
  <2>4. LampInv'
    BY <1>6, <2>0 DEF ReadCall, TypeOK, LampInv
  <2> QED BY <2>1, <2>2, <2>3, <2>4
<1>7. CASE WriteLock(p)
  BY <1>7 DEF WriteLock, MutexLock, LockFree, TypeOK, LockHeldExactly, CriticalPC, LoadInv, LampInv, Void
<1>8. CASE ReadLock(p)
  BY <1>8 DEF ReadLock, MutexLock, LockFree, TypeOK, LockHeldExactly, CriticalPC, LoadInv, LampInv, Void
<1>9. CASE WriteGpio(p)
  <2>1. TypeOK'
    BY <1>9 DEF WriteGpio, TypeOK, Void
  <2>2. LockHeldExactly'
    BY <1>9 DEF WriteGpio, TypeOK, LockHeldExactly, CriticalPC
  <2>3. LoadInv'
    BY <1>9 DEF WriteGpio, TypeOK, LoadInv
  <2>4. LampInv'
    BY <1>9 DEF WriteGpio, TypeOK, LockHeldExactly, CriticalPC, LoadInv, LampInv
  <2> QED BY <2>1, <2>2, <2>3, <2>4
<1>10. CASE WriteInvalid(p)
  <2>1. TypeOK'
    BY <1>10 DEF WriteInvalid, UnlockInvalid, Returns, TypeOK, Void
  <2>2. LockHeldExactly'
    BY <1>10 DEF WriteInvalid, UnlockInvalid, Returns, TypeOK, LockHeldExactly, CriticalPC
  <2>3. LoadInv'
    BY <1>10 DEF WriteInvalid, UnlockInvalid, Returns, TypeOK, LoadInv
  <2>4. LampInv'
    BY <1>10 DEF WriteInvalid, UnlockInvalid, Returns, TypeOK, LockHeldExactly, CriticalPC, LoadInv, LampInv
  <2> QED BY <2>1, <2>2, <2>3, <2>4
<1>11. CASE WriteState(p)
  BY <1>11 DEF WriteState, TypeOK, LockHeldExactly, CriticalPC, LoadInv, LampInv, Void
<1>12. CASE WriteUnlock(p)
  <2>1. TypeOK'
    BY <1>12 DEF WriteUnlock, Returns, TypeOK, Void
  <2>2. LockHeldExactly'
    BY <1>12 DEF WriteUnlock, Returns, TypeOK, LockHeldExactly, CriticalPC
  <2>3. LoadInv'
    BY <1>12 DEF WriteUnlock, Returns, TypeOK, LoadInv
  <2>4. LampInv'
    BY <1>12 DEF WriteUnlock, Returns, TypeOK, LockHeldExactly, CriticalPC, LoadInv, LampInv
  <2> QED BY <2>1, <2>2, <2>3, <2>4
<1>13. CASE ReadGet(p)
  BY <1>13 DEF ReadGet, TypeOK, LockHeldExactly, CriticalPC, LoadInv, LampInv, Void
<1>14. CASE ReadUnlock(p)
  BY <1>14 DEF ReadUnlock, TypeOK, LockHeldExactly, CriticalPC, LoadInv, LampInv, Void
<1>15. CASE ReadCopy(p)
  <2>0. pos[p] = 0
    BY <1>15 DEF ReadCopy, LampInv
  <2>1. TypeOK'
    <3>1. pos' \in [Proc -> {0, 2}]
      <4>1. UNCHANGED pos \/ pos' = [pos EXCEPT ![p] = pos[p] + 2]
        BY <1>15 DEF ReadCopy
      <4>2. pos \in [Proc -> {0, 2}]
        BY DEF TypeOK
      <4> HIDE DEF IInv
      <4> QED BY <2>0, <4>1, <4>2
    <3>2. /\ kbuf' \in [Proc -> Bit \cup {Void}]
          /\ UNCHANGED <<step, held, gpio, led_state, led_lock, cmd>>
      BY <1>15 DEF ReadCopy, TypeOK
    <3>3. /\ pc' \in [Proc -> {"closed", "open"} \cup WritePC \cup ReadPC]
          /\ ret' \in [Proc -> {None, "EINVAL", "EFAULT", "count", "EOF", "two bytes"}]
      BY <1>15 DEF ReadCopy, Returns, TypeOK
    <3> QED BY <3>1, <3>2, <3>3 DEF TypeOK
  <2>2. LockHeldExactly'
    BY <1>15 DEF ReadCopy, Returns, TypeOK, LockHeldExactly, CriticalPC
  <2>3. LoadInv'
    BY <1>15 DEF ReadCopy, Returns, TypeOK, LoadInv
  <2>4. LampInv'
    BY <1>15, <2>0 DEF ReadCopy, Returns, TypeOK, LampInv
  <2> QED BY <2>1, <2>2, <2>3, <2>4
<1> QED BY <1>1, <1>2, <1>3, <1>4, <1>5, <1>6, <1>7, <1>8, <1>9, <1>10, <1>11, <1>12, <1>13, <1>14, <1>15
       DEF Choose, Lock, Run

\* The invariant holds throughout every behaviour of the driver.
THEOREM DriverInvariant == Spec => []IInv
<1>1. IInv /\ [Next]_vars => IInv'
  <2>1. IInv /\ Next => IInv'
    BY LoadStepInv, ProcStepInv DEF Next
  <2>2. IInv /\ UNCHANGED vars => IInv'
    BY DEF IInv, TypeOK, LockHeldExactly, LoadInv, LampInv, vars, modVars, fileVars,
           HeldBefore, Rung
  <2> QED BY <2>1, <2>2
<1> QED BY InitInv, <1>1, PTL DEF Spec

\* Every variable of the driver keeps its type, for any number of processes.
THEOREM DriverTypeOK == Spec => []TypeOK
<1>1. IInv => TypeOK
  BY DEF IInv
<1> QED BY DriverInvariant, <1>1, PTL

\* led_lock records the process inside the critical section: mutual exclusion,
\* and an unlock on every path out of pi2_led_write and pi2_led_read.
THEOREM MutexDiscipline == Spec => []LockHeldExactly
<1>1. IInv => LockHeldExactly
  BY DEF IInv
<1> QED BY DriverInvariant, <1>1, PTL

\* Whoever finds led_lock free after the pin was driven finds led_state equal to
\* the level of the pin.
THEOREM LampConsistent == Spec => []LampMatchesState
<1>1. IInv => LampMatchesState
  BY ProcAssumption DEF IInv, LampInv, LampMatchesState, LockHeldExactly, CriticalPC
<1> QED BY DriverInvariant, <1>1, PTL

\* A failed pi2_led_init, at whichever call it failed, and an unload leave no
\* kernel resource held.
THEOREM CleanUnload == Spec => []NothingLeftBehind
<1>1. IInv => NothingLeftBehind
  BY DEF IInv, LoadInv, NothingLeftBehind, HeldBefore, Rung
<1> QED BY DriverInvariant, <1>1, PTL

\* An open file always sees the fully initialised driver.
THEOREM OpenFileSafe == Spec => []OpenFilePinsDriver
<1>1. HeldBefore(8) = Resources
  BY DEF HeldBefore, Rung, Resources
<1>2. IInv => OpenFilePinsDriver
  BY <1>1, LadderFacts DEF IInv, LoadInv, OpenFilePinsDriver
<1> QED BY DriverInvariant, <1>2, PTL

\* Loading and unloading are stutters of the register, or its reset.
LEMMA LoadRefines == IInv /\ Load => Register!Reset \/ UNCHANGED Register!regVars
<1> SUFFICES ASSUME IInv, Load PROVE Register!Reset \/ UNCHANGED Register!regVars
  OBVIOUS
<1>1. UNCHANGED <<pc, cmd, kbuf>>
  BY DEF Load, Insmod, InitCallFails, InitCallSucceeds, Exit, fileVars
<1>2. UNCHANGED <<opBar, argBar>>
  BY <1>1 DEF opBar, argBar
<1>3. UNCHANGED gpio \/ gpio' = 0
  BY DEF Load, Insmod, InitCallFails, InitCallSucceeds, Exit
<1>4. \A p \in Proc : pc[p] = "closed"
  BY LadderFacts DEF Load, Insmod, InitCallFails, InitCallSucceeds, Exit, Unpinned,
                     IInv, LoadInv
<1>5. \A p \in Proc : opBar[p] = "idle"
  BY <1>4 DEF opBar
<1> QED BY <1>2, <1>3, <1>5 DEF Register!Reset, Register!regVars

\* A step of a process is the step of the register that LedRegister names for
\* it, or invisible.
LEMMA ProcRefines ==
    ASSUME NEW p \in Proc, IInv, Choose(p) \/ Lock(p) \/ Run(p)
    PROVE  Register!RegNext \/ UNCHANGED Register!regVars
<1>0. /\ pc \in [Proc -> {"closed", "open"} \cup WritePC \cup ReadPC]
      /\ cmd \in [Proc -> Bit \cup {Void}]
      /\ kbuf \in [Proc -> Bit \cup {Void}]
      /\ \A q \in Proc : pc[q] \notin {"r_unlock", "r_copy"} => kbuf[q] = Void
  BY DEF IInv, TypeOK, LampInv
<1> USE <1>0 DEF opBar, argBar, Goto, Returns, WritePC, ReadPC, fileVars
<1>1. CASE Open(p)
  <2>1. UNCHANGED <<gpio, opBar, argBar>>
    BY <1>1 DEF Open
  <2> QED BY <2>1 DEF Register!regVars
<1>2. CASE Release(p)
  <2>1. UNCHANGED <<gpio, opBar, argBar>>
    BY <1>2 DEF Release
  <2> QED BY <2>1 DEF Register!regVars
<1>3. CASE WriteRefused(p)
  <2>1. UNCHANGED <<gpio, opBar, argBar>>
    BY <1>3 DEF WriteRefused
  <2> QED BY <2>1 DEF Register!regVars
<1>4. CASE ReadAtEnd(p)
  <2>1. UNCHANGED <<gpio, opBar, argBar>>
    BY <1>4 DEF ReadAtEnd
  <2> QED BY <2>1 DEF Register!regVars
<1>5. CASE WriteLock(p)
  <2>1. UNCHANGED <<gpio, opBar, argBar>>
    BY <1>5 DEF WriteLock, MutexLock
  <2> QED BY <2>1 DEF Register!regVars
<1>6. CASE ReadLock(p)
  <2>1. UNCHANGED <<gpio, opBar, argBar>>
    BY <1>6 DEF ReadLock, MutexLock
  <2> QED BY <2>1 DEF Register!regVars
<1>7. CASE WriteState(p)
  <2>1. UNCHANGED <<gpio, opBar, argBar>>
    BY <1>7 DEF WriteState
  <2> QED BY <2>1 DEF Register!regVars
<1>8. CASE ReadUnlock(p)
  <2>1. UNCHANGED <<gpio, opBar, argBar>>
    BY <1>8 DEF ReadUnlock
  <2> QED BY <2>1 DEF Register!regVars
<1>9. CASE WriteCall(p)
  <2>1. PICK c \in Bit \cup {Void} : cmd' = [cmd EXCEPT ![p] = c]
    BY <1>9 DEF WriteCall
  <2>2. /\ opBar[p] = "idle" /\ opBar' = [opBar EXCEPT ![p] = "write"]
        /\ UNCHANGED gpio
    BY <1>9 DEF WriteCall
  <2>3. argBar' = [argBar EXCEPT ![p] = c]
    BY <1>9, <2>1 DEF WriteCall
  <2> QED BY <2>2, <2>3 DEF Register!RegNext, Register!InvokeWrite, Register!Bit,
                            Register!Void, Bit, Void
<1>10. CASE ReadCall(p)
  <2>1. /\ opBar[p] = "idle" /\ opBar' = [opBar EXCEPT ![p] = "read"]
        /\ UNCHANGED <<gpio, argBar>>
    BY <1>10 DEF ReadCall
  <2> QED BY <2>1 DEF Register!RegNext, Register!InvokeRead
<1>11. CASE WriteGpio(p)
  <2>1. /\ opBar[p] = "write" /\ opBar' = [opBar EXCEPT ![p] = "done"]
        /\ argBar[p] \in Bit /\ gpio' = argBar[p] /\ UNCHANGED argBar
    BY <1>11 DEF WriteGpio
  <2> QED BY <2>1 DEF Register!RegNext, Register!TakeWrite, Register!Bit, Bit
<1>12. CASE ReadGet(p)
  <2>1. led_state = gpio
    BY <1>12 DEF ReadGet, IInv, LockHeldExactly, LoadInv, LampInv, CriticalPC
  <2>2. /\ opBar[p] = "read" /\ opBar' = [opBar EXCEPT ![p] = "done"]
        /\ UNCHANGED gpio
    BY <1>12 DEF ReadGet
  <2>3. argBar' = [argBar EXCEPT ![p] = gpio]
    BY <1>12, <2>1 DEF ReadGet
  <2> QED BY <2>2, <2>3 DEF Register!RegNext, Register!TakeRead
<1>13. CASE WriteInvalid(p)
  <2>1. /\ opBar[p] = "write" /\ argBar[p] = Void
        /\ UNCHANGED gpio
    BY <1>13 DEF WriteInvalid
  <2>2. opBar' = [opBar EXCEPT ![p] = "idle"] /\ argBar' = [argBar EXCEPT ![p] = Void]
    BY <1>13 DEF WriteInvalid
  <2> QED BY <2>1, <2>2 DEF Register!RegNext, Register!Return, Register!Void, Void
<1>14. CASE WriteUnlock(p)
  <2>1. /\ opBar[p] = "done"
        /\ UNCHANGED gpio
    BY <1>14 DEF WriteUnlock
  <2>2. opBar' = [opBar EXCEPT ![p] = "idle"] /\ argBar' = [argBar EXCEPT ![p] = Void]
    BY <1>14 DEF WriteUnlock
  <2> QED BY <2>1, <2>2 DEF Register!RegNext, Register!Return, Register!Void, Void
<1>15. CASE ReadCopy(p)
  <2>1. /\ opBar[p] = "done"
        /\ UNCHANGED gpio
    BY <1>15 DEF ReadCopy
  <2>2. opBar' = [opBar EXCEPT ![p] = "idle"] /\ argBar' = [argBar EXCEPT ![p] = Void]
    BY <1>15 DEF ReadCopy
  <2> QED BY <2>1, <2>2 DEF Register!RegNext, Register!Return, Register!Void, Void
<1> QED BY <1>1, <1>2, <1>3, <1>4, <1>5, <1>6, <1>7, <1>8, <1>9, <1>10, <1>11, <1>12, <1>13, <1>14, <1>15
       DEF Choose, Lock, Run

\* pi2_led_driver.c implements the one-bit register: concurrent reads and
\* writes of the device are linearizable, for any number of processes.
THEOREM DriverImplementsRegister == Spec => ImplementsRegister
<1>1. Init => Register!RegInit
  BY DEF Init, Register!RegInit, opBar, argBar, Register!Bit, Register!Void, Bit, Void,
         WritePC, ReadPC
<1>2. IInv /\ [Next]_vars => [Register!RegNext]_(Register!regVars)
  <2>1. IInv /\ Next => Register!RegNext \/ UNCHANGED Register!regVars
    BY LoadRefines, ProcRefines DEF Next, Register!RegNext
  <2>2. UNCHANGED vars => UNCHANGED Register!regVars
    BY DEF vars, modVars, fileVars, Register!regVars, opBar, argBar
  <2> QED BY <2>1, <2>2
<1> QED BY DriverInvariant, <1>1, <1>2, PTL DEF Spec, ImplementsRegister, Register!RegSpec
=============================================================================
