----------------------------- MODULE Ch7Pir_proofs -----------------------------
(***************************************************************************)
(* The safety properties of Ch7Pir for every length HOLD of the timer.     *)
(***************************************************************************)
EXTENDS Ch7Pir, TLAPS

\* What the module holds before each call of ch7_mod_init; 0 is "not loaded".
Rung(i, at, r) == IF i > at THEN {r} ELSE {}
HeldBefore(i) == Rung(i, 1, "pir") \cup Rung(i, 3, "led") \cup Rung(i, 6, "irq")

\* The spinlock is owned by whoever is between its lock and its unlock.
LockInv ==
    /\ led_lock = "irq" <=> irq \in {"off", "on", "state", "arm", "unlock"}
    /\ led_lock = "timer" <=> cb \in {"off", "state", "unlock"}

\* What is held at each point of loading and unloading, and that neither
\* handler nor timer is active while the module is being loaded.
LoadInv ==
    /\ exit \in {"free_irq", "led_off", "free"} => step = 7
    /\ exit = "done" => step = 0
    /\ exit \in {"no", "done"} => held = HeldBefore(step)
    /\ exit = "free_irq" => held = {"pir", "led", "irq"}
    /\ exit \in {"led_off", "free"} => held = {"pir", "led"}
    /\ irq # "idle" => step = 7 /\ exit \in {"no", "free_irq"}
    /\ step \in 1 .. 6 => cb = "idle" /\ ~pending

\* Pin and led_on differ only between the two assignments of the handler or of
\* the callback; a module that is not serving has led_on = 0.
LampInv ==
    /\ /\ step > 4 /\ exit \in {"no", "free_irq"}
       /\ irq \notin {"on", "state"} /\ cb # "state"
       => gpio = led_on
    /\ irq = "off" => led_on = 1
    /\ irq = "on" => gpio = 0
    /\ irq = "state" => gpio = 1
    /\ irq = "arm" => led_on = 1
    /\ cb = "state" => gpio = 0
    /\ step # 7 \/ exit = "free" => led_on = 0
    /\ exit \in {"free", "done"} => gpio = 0

IInv == TypeOK /\ LockInv /\ LoadInv /\ LampInv /\ TimerCoversLamp

\* The ladder of ch7_mod_init has six calls; its rows, read off.
LEMMA LadderFacts ==
    /\ Len(Ladder) = 6 /\ Loaded = 7
    /\ \A i \in 1 .. 6 :
          /\ HeldBefore(i) \cup Ladder[i].gets = HeldBefore(i + 1)
          /\ HeldBefore(i) \ Ladder[i].undo = {}
          /\ Ladder[i].call = "gpio_direction_output" <=> i = 4
<1>1. Len(Ladder) = 6 /\ Loaded = 7
  BY DEF Ladder, Loaded
<1>2. ASSUME NEW i \in 1 .. 6
      PROVE  /\ HeldBefore(i) \cup Ladder[i].gets = HeldBefore(i + 1)
             /\ HeldBefore(i) \ Ladder[i].undo = {}
             /\ Ladder[i].call = "gpio_direction_output" <=> i = 4
  <2>1. CASE i = 1
    BY <2>1 DEF Ladder, HeldBefore, Rung
  <2>2. CASE i = 2
    BY <2>2 DEF Ladder, HeldBefore, Rung
  <2>3. CASE i = 3
    BY <2>3 DEF Ladder, HeldBefore, Rung
  <2>4. CASE i = 4
    BY <2>4 DEF Ladder, HeldBefore, Rung
  <2>5. CASE i = 5
    BY <2>5 DEF Ladder, HeldBefore, Rung
  <2>6. CASE i = 6
    BY <2>6 DEF Ladder, HeldBefore, Rung
  <2> QED BY <2>1, <2>2, <2>3, <2>4, <2>5, <2>6
<1> QED BY <1>1, <1>2

\* The two ends of the ladder.
LEMMA HeldFacts ==
    /\ HeldBefore(0) = {} /\ HeldBefore(1) = {} /\ HeldBefore(7) = {"pir", "led", "irq"}
    /\ \A i \in 0 .. 7 : HeldBefore(i) \subseteq {"pir", "led", "irq"}
    /\ \A i \in 0 .. 7 : "irq" \in HeldBefore(i) => i = 7
BY DEF HeldBefore, Rung

\* Init establishes the inductive invariant.
LEMMA InitInv == PirInit => IInv
<1> SUFFICES ASSUME PirInit PROVE IInv
  OBVIOUS
<1>1. TypeOK
  <2>1. pending \in BOOLEAN /\ held \subseteq {"pir", "led", "irq"}
    BY DEF PirInit
  <2>2. left \in 0 .. HOLD /\ since \in 0 .. HOLD /\ step \in 0 .. Loaded
    BY HoldAssumption, LadderFacts DEF PirInit
  <2> QED BY <2>1, <2>2 DEF PirInit, TypeOK, Nobody
<1>2. LockInv
  BY DEF PirInit, LockInv, Nobody
<1>3. LoadInv
  BY HeldFacts DEF PirInit, LoadInv
<1>4. LampInv /\ TimerCoversLamp
  BY DEF PirInit, LampInv, TimerCoversLamp
<1> QED BY <1>1, <1>2, <1>3, <1>4 DEF IInv

\* Every step preserves it.
LEMMA StepInv == IInv /\ PirNext => IInv'
<1> SUFFICES ASSUME IInv, PirNext PROVE IInv'
  OBVIOUS
<1>0. /\ TypeOK /\ LockInv /\ LoadInv /\ LampInv /\ TimerCoversLamp
      /\ Loaded = 7 /\ Len(Ladder) = 6
  BY LadderFacts DEF IInv
<1> USE DEF modVars, lampVars, timerVars
<1>1. CASE Insmod
  <2>1. exit \in {"no", "done"} /\ held = {} /\ irq = "idle"
    BY <1>0, <1>1, HeldFacts DEF Insmod, LoadInv, TypeOK
  <2>2. TypeOK'
    BY <1>0, <1>1 DEF Insmod, TypeOK
  <2>3. LockInv'
    BY <1>0, <1>1 DEF Insmod, LockInv
  <2>4. LoadInv'
    <3>1. held' = HeldBefore(1) /\ step' = 1 /\ exit' = "no" /\ irq' = "idle"
      BY <1>1, <2>1, HeldFacts DEF Insmod
    <3>2. cb' = "idle" /\ ~pending'
      BY <1>1 DEF Insmod
    <3> QED BY <3>1, <3>2 DEF LoadInv
  <2>5. LampInv' /\ TimerCoversLamp'
    BY <1>0, <1>1 DEF Insmod, LampInv, LockInv, LoadInv, TypeOK, TimerCoversLamp
  <2> QED BY <2>2, <2>3, <2>4, <2>5 DEF IInv
<1>2. CASE InitCallFails
  <2>1. /\ step \in 1 .. 6 /\ exit = "no" /\ held' = {} /\ step' = 0
        /\ UNCHANGED <<exit, lampVars, led_lock, irq, cb, timerVars>>
    BY <1>0, <1>2, LadderFacts DEF InitCallFails, Released, LoadInv, TypeOK
  <2>2. TypeOK'
    BY <1>0, <2>1 DEF TypeOK
  <2>3. LockInv'
    BY <1>0, <2>1 DEF LockInv
  <2>4. LoadInv'
    BY <1>0, <2>1, HeldFacts DEF LoadInv
  <2>5. LampInv' /\ TimerCoversLamp'
    BY <1>0, <2>1 DEF LampInv, LoadInv, TimerCoversLamp
  <2> QED BY <2>2, <2>3, <2>4, <2>5 DEF IInv
<1>3. CASE InitCallSucceeds
  <2>1. /\ step \in 1 .. 6 /\ step' = step + 1 /\ exit = "no" /\ held' = HeldBefore(step')
        /\ gpio' = (IF step = 4 THEN 0 ELSE gpio) /\ led_on' = 0
        /\ UNCHANGED <<exit, led_lock, irq, cb, pending, left, since>>
    BY <1>0, <1>3, LadderFacts DEF InitCallSucceeds, LoadInv, TypeOK
  <2>2. TypeOK'
    BY <1>0, <2>1, HeldFacts DEF TypeOK
  <2>3. LockInv'
    BY <1>0, <2>1 DEF LockInv
  <2>4. LoadInv'
    BY <1>0, <2>1 DEF LoadInv
  <2>5. LampInv' /\ TimerCoversLamp'
    BY <1>0, <2>1 DEF LampInv, LoadInv, TimerCoversLamp
  <2> QED BY <2>2, <2>3, <2>4, <2>5 DEF IInv
<1>4. CASE Detect
  <2>1. TypeOK'
    BY <1>0, <1>4 DEF Detect, TypeOK
  <2>2. LockInv'
    BY <1>0, <1>4 DEF Detect, LockInv
  <2>3. LoadInv'
    BY <1>0, <1>4, HeldFacts DEF Detect, LoadInv, TypeOK
  <2>4. LampInv' /\ TimerCoversLamp'
    BY <1>0, <1>4 DEF Detect, LampInv, LockInv, LoadInv, TypeOK, TimerCoversLamp
  <2> QED BY <2>1, <2>2, <2>3, <2>4 DEF IInv
<1>5. CASE IrqLock
  <2>1. TypeOK'
    BY <1>0, <1>5 DEF IrqLock, LockFree, TypeOK
  <2>2. LockInv'
    BY <1>0, <1>5 DEF IrqLock, LockFree, LockInv, Nobody
  <2>3. LoadInv'
    BY <1>0, <1>5 DEF IrqLock, LockFree, LoadInv
  <2>4. LampInv' /\ TimerCoversLamp'
    BY <1>0, <1>5 DEF IrqLock, LockFree, LampInv, LockInv, LoadInv, TypeOK, TimerCoversLamp, Nobody
  <2> QED BY <2>1, <2>2, <2>3, <2>4 DEF IInv
<1>6. CASE IrqOff
  <2>1. TypeOK'
    BY <1>0, <1>6 DEF IrqOff, TypeOK
  <2>2. LockInv'
    BY <1>0, <1>6 DEF IrqOff, LockInv
  <2>3. LoadInv'
    BY <1>0, <1>6 DEF IrqOff, LoadInv
  <2>4. LampInv' /\ TimerCoversLamp'
    BY <1>0, <1>6 DEF IrqOff, LampInv, LockInv, LoadInv, TypeOK, TimerCoversLamp
  <2> QED BY <2>1, <2>2, <2>3, <2>4 DEF IInv
<1>7. CASE IrqOn
  <2>1. TypeOK'
    BY <1>0, <1>7 DEF IrqOn, TypeOK
  <2>2. LockInv'
    BY <1>0, <1>7 DEF IrqOn, LockInv
  <2>3. LoadInv'
    BY <1>0, <1>7 DEF IrqOn, LoadInv
  <2>4. LampInv' /\ TimerCoversLamp'
    BY <1>0, <1>7 DEF IrqOn, LampInv, LockInv, LoadInv, TypeOK, TimerCoversLamp
  <2> QED BY <2>1, <2>2, <2>3, <2>4 DEF IInv
<1>8. CASE IrqState
  <2>1. TypeOK'
    BY <1>0, <1>8 DEF IrqState, TypeOK
  <2>2. LockInv'
    BY <1>0, <1>8 DEF IrqState, LockInv
  <2>3. LoadInv'
    BY <1>0, <1>8 DEF IrqState, LoadInv
  <2>4. LampInv' /\ TimerCoversLamp'
    BY <1>0, <1>8 DEF IrqState, LampInv, LockInv, LoadInv, TypeOK, TimerCoversLamp
  <2> QED BY <2>1, <2>2, <2>3, <2>4 DEF IInv
<1>9. CASE IrqArm
  <2>1. TypeOK'
    BY <1>0, <1>9, HoldAssumption DEF IrqArm, Armed, Expiry, TypeOK
  <2>2. LockInv'
    BY <1>0, <1>9 DEF IrqArm, Armed, Expiry, LockInv
  <2>3. LoadInv'
    BY <1>0, <1>9 DEF IrqArm, Armed, Expiry, LoadInv
  <2>4. LampInv' /\ TimerCoversLamp'
    BY <1>0, <1>9 DEF IrqArm, Armed, Expiry, LampInv, LockInv, LoadInv, TypeOK, TimerCoversLamp
  <2> QED BY <2>1, <2>2, <2>3, <2>4 DEF IInv
<1>10. CASE IrqUnlock
  <2>1. TypeOK'
    BY <1>0, <1>10 DEF IrqUnlock, TypeOK, Nobody
  <2>2. LockInv'
    BY <1>0, <1>10 DEF IrqUnlock, LockInv, Nobody
  <2>3. LoadInv'
    BY <1>0, <1>10 DEF IrqUnlock, LoadInv
  <2>4. LampInv' /\ TimerCoversLamp'
    BY <1>0, <1>10 DEF IrqUnlock, LampInv, LockInv, LoadInv, TypeOK, TimerCoversLamp
  <2> QED BY <2>1, <2>2, <2>3, <2>4 DEF IInv
<1>11. CASE Tick
  <2>1. TypeOK'
    BY <1>0, <1>11, HoldAssumption DEF Tick, TypeOK
  <2>2. LockInv'
    BY <1>0, <1>11 DEF Tick, LockInv
  <2>3. LoadInv'
    BY <1>0, <1>11 DEF Tick, LoadInv
  <2>4. LampInv' /\ TimerCoversLamp'
    BY <1>0, <1>11 DEF Tick, LampInv, LockInv, LoadInv, TypeOK, TimerCoversLamp
  <2> QED BY <2>1, <2>2, <2>3, <2>4 DEF IInv
<1>12. CASE TimerFires
  <2>1. TypeOK'
    BY <1>0, <1>12 DEF TimerFires, TypeOK
  <2>2. LockInv'
    BY <1>0, <1>12 DEF TimerFires, LockInv
  <2>3. LoadInv'
    BY <1>0, <1>12 DEF TimerFires, LoadInv
  <2>4. LampInv' /\ TimerCoversLamp'
    BY <1>0, <1>12 DEF TimerFires, LampInv, LockInv, LoadInv, TypeOK, TimerCoversLamp
  <2> QED BY <2>1, <2>2, <2>3, <2>4 DEF IInv
<1>13. CASE TimerLock
  <2>1. TypeOK'
    BY <1>0, <1>13 DEF TimerLock, LockFree, TypeOK
  <2>2. LockInv'
    BY <1>0, <1>13 DEF TimerLock, LockFree, LockInv, Nobody
  <2>3. LoadInv'
    BY <1>0, <1>13 DEF TimerLock, LockFree, LoadInv
  <2>4. LampInv' /\ TimerCoversLamp'
    BY <1>0, <1>13 DEF TimerLock, LockFree, LampInv, LockInv, LoadInv, TypeOK, TimerCoversLamp, Nobody
  <2> QED BY <2>1, <2>2, <2>3, <2>4 DEF IInv
<1>14. CASE TimerOff
  <2>1. TypeOK'
    BY <1>0, <1>14 DEF TimerOff, TypeOK
  <2>2. LockInv'
    BY <1>0, <1>14 DEF TimerOff, LockInv
  <2>3. LoadInv'
    BY <1>0, <1>14 DEF TimerOff, LoadInv
  <2>4. LampInv' /\ TimerCoversLamp'
    BY <1>0, <1>14 DEF TimerOff, LampInv, LockInv, LoadInv, TypeOK, TimerCoversLamp
  <2> QED BY <2>1, <2>2, <2>3, <2>4 DEF IInv
<1>15. CASE TimerState
  <2>1. TypeOK'
    BY <1>0, <1>15 DEF TimerState, TypeOK
  <2>2. LockInv'
    BY <1>0, <1>15 DEF TimerState, LockInv
  <2>3. LoadInv'
    BY <1>0, <1>15 DEF TimerState, LoadInv
  <2>4. LampInv' /\ TimerCoversLamp'
    BY <1>0, <1>15 DEF TimerState, LampInv, LockInv, LoadInv, TypeOK, TimerCoversLamp
  <2> QED BY <2>1, <2>2, <2>3, <2>4 DEF IInv
<1>16. CASE TimerUnlock
  <2>1. TypeOK'
    BY <1>0, <1>16 DEF TimerUnlock, TypeOK, Nobody
  <2>2. LockInv'
    BY <1>0, <1>16 DEF TimerUnlock, LockInv, Nobody
  <2>3. LoadInv'
    BY <1>0, <1>16 DEF TimerUnlock, LoadInv
  <2>4. LampInv' /\ TimerCoversLamp'
    BY <1>0, <1>16 DEF TimerUnlock, LampInv, LockInv, LoadInv, TypeOK, TimerCoversLamp
  <2> QED BY <2>1, <2>2, <2>3, <2>4 DEF IInv
<1>17. CASE ExitDelTimer
  <2>1. TypeOK'
    BY <1>0, <1>17 DEF ExitDelTimer, TypeOK
  <2>2. LockInv'
    BY <1>0, <1>17 DEF ExitDelTimer, LockInv
  <2>3. LoadInv'
    BY <1>0, <1>17, HeldFacts DEF ExitDelTimer, LoadInv
  <2>4. LampInv' /\ TimerCoversLamp'
    BY <1>0, <1>17 DEF ExitDelTimer, LampInv, LockInv, LoadInv, TypeOK, TimerCoversLamp
  <2> QED BY <2>1, <2>2, <2>3, <2>4 DEF IInv
<1>18. CASE ExitFreeIrq
  <2>1. TypeOK'
    BY <1>0, <1>18 DEF ExitFreeIrq, HandlerQuiet, TypeOK
  <2>2. LockInv'
    BY <1>0, <1>18 DEF ExitFreeIrq, HandlerQuiet, LockInv
  <2>3. LoadInv'
    BY <1>0, <1>18 DEF ExitFreeIrq, HandlerQuiet, LoadInv
  <2>4. LampInv' /\ TimerCoversLamp'
    BY <1>0, <1>18 DEF ExitFreeIrq, HandlerQuiet, LampInv, LockInv, LoadInv, TypeOK, TimerCoversLamp
  <2> QED BY <2>1, <2>2, <2>3, <2>4 DEF IInv
<1>19. CASE ExitLedOff
  <2>1. TypeOK'
    BY <1>0, <1>19 DEF ExitLedOff, TypeOK
  <2>2. LockInv'
    BY <1>0, <1>19 DEF ExitLedOff, LockInv
  <2>3. LoadInv'
    BY <1>0, <1>19 DEF ExitLedOff, LoadInv
  <2>4. LampInv' /\ TimerCoversLamp'
    BY <1>0, <1>19 DEF ExitLedOff, LampInv, LockInv, LoadInv, TypeOK, TimerCoversLamp
  <2> QED BY <2>1, <2>2, <2>3, <2>4 DEF IInv
<1>20. CASE ExitFree
  <2>1. TypeOK'
    BY <1>0, <1>20 DEF ExitFree, TypeOK
  <2>2. LockInv'
    BY <1>0, <1>20 DEF ExitFree, LockInv
  <2>3. LoadInv'
    BY <1>0, <1>20, HeldFacts DEF ExitFree, LoadInv
  <2>4. LampInv' /\ TimerCoversLamp'
    BY <1>0, <1>20 DEF ExitFree, LampInv, LockInv, LoadInv, TypeOK, TimerCoversLamp
  <2> QED BY <2>1, <2>2, <2>3, <2>4 DEF IInv
<1> QED BY <1>1, <1>2, <1>3, <1>4, <1>5, <1>6, <1>7, <1>8, <1>9, <1>10, <1>11, <1>12, <1>13, <1>14, <1>15, <1>16, <1>17, <1>18, <1>19, <1>20
       DEF PirNext, LoadStep, IrqRun, TimerRun, ExitRun

\* The invariant holds throughout every behaviour of the module.
THEOREM PirInvariant == PirSpec => []IInv
<1>1. IInv /\ UNCHANGED pirVars => IInv'
  BY DEF IInv, TypeOK, LockInv, LoadInv, LampInv, TimerCoversLamp, pirVars, modVars, lampVars,
         timerVars
<1>2. IInv /\ [PirNext]_pirVars => IInv'
  BY <1>1, StepInv
<1> QED BY InitInv, <1>2, PTL DEF PirSpec

\* Every variable keeps its type; the timer is never further away than HOLD.
THEOREM PirTypeOK == PirSpec => []TypeOK
<1>1. IInv => TypeOK
  BY DEF IInv
<1> QED BY PirInvariant, <1>1, PTL

\* pir_irq_handler and led_timer_func each change pin and led_on as one.
THEOREM PirLampConsistent == PirSpec => []LampMatchesState
<1>1. IInv => LampMatchesState
  BY LadderFacts DEF IInv, LampInv, LockInv, LampMatchesState, Nobody
<1> QED BY PirInvariant, <1>1, PTL

\* While the module serves, a lit LED has a timer, a callback or a handler that
\* will see to it that it goes dark.
THEOREM LampIsCovered == PirSpec => []TimerCoversLamp
<1>1. IInv => TimerCoversLamp
  BY DEF IInv
<1> QED BY PirInvariant, <1>1, PTL

\* A failed ch7_mod_init and ch7_mod_exit leave no line and no interrupt; after
\* ch7_mod_exit the LED is dark, whatever the handler and the timer were doing.
THEOREM PirCleanUnload == PirSpec => []UnloadLeavesNothing
<1>1. IInv => UnloadLeavesNothing
  BY HeldFacts DEF IInv, LoadInv, LampInv, UnloadLeavesNothing, TypeOK
<1> QED BY PirInvariant, <1>1, PTL

\* Every gpio_set_value(LED_GPIO, 1) of the handler is a rising edge.
THEOREM DetectionBlinks == PirSpec => EveryDetectionBlinks
<1>1. IInv /\ [PirNext]_pirVars => [irq = "on" /\ irq' = "state" => gpio = 0]_pirVars
  BY DEF IInv, LampInv
<1> QED BY PirInvariant, <1>1, PTL DEF PirSpec, EveryDetectionBlinks

-----------------------------------------------------------------------------
(* What is left of the ten seconds.                                        *)

\* An armed timer and the time since the last mod_timer add up to HOLD.
HoldInv == (pending => left + since = HOLD) /\ EarlyOnlyIfRearmed

\* led_timer_func runs before HOLD ticks have passed since the last detection
\* only when that detection came between the expiry and the callback's lock,
\* and then the timer is armed anew.
THEOREM EarlyCallbackWasOvertaken == PirSpec => []EarlyOnlyIfRearmed
<1>1. PirInit => HoldInv
  BY DEF PirInit, HoldInv, EarlyOnlyIfRearmed
<1>2. TypeOK /\ HoldInv /\ [PirNext]_pirVars => HoldInv'
  <2> SUFFICES ASSUME TypeOK, HoldInv, [PirNext]_pirVars PROVE HoldInv'
    OBVIOUS
  <2> USE DEF HoldInv, EarlyOnlyIfRearmed, modVars, lampVars, timerVars
  <2>1. CASE UNCHANGED pirVars
    BY <2>1 DEF pirVars
  <2>2. CASE LoadStep \/ Detect \/ ExitDelTimer \/ ExitRun
    BY <2>2 DEF LoadStep, Insmod, InitCallFails, InitCallSucceeds, Detect, ExitDelTimer,
                ExitRun, ExitFreeIrq, ExitLedOff, ExitFree
  <2>3. CASE Tick
    BY <2>3, HoldAssumption DEF Tick, TypeOK
  <2>4. CASE IrqLock \/ IrqRun
    BY <2>4, HoldAssumption DEF IrqLock, IrqRun, IrqOff, IrqOn, IrqState, IrqArm, Armed, Expiry,
                                IrqUnlock
  <2>5. CASE TimerLock \/ TimerRun
    BY <2>5, HoldAssumption DEF TimerLock, TimerRun, TimerFires, TimerOff, TimerState, TimerUnlock,
                                TypeOK
  <2> QED BY <2>1, <2>2, <2>3, <2>4, <2>5 DEF PirNext
<1>3. HoldInv => EarlyOnlyIfRearmed
  BY DEF HoldInv
<1> QED BY PirTypeOK, <1>1, <1>2, <1>3, PTL DEF PirSpec
================================================================================
