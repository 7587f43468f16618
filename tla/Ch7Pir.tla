-------------------------------- MODULE Ch7Pir --------------------------------
(***************************************************************************)
(* lab8/ch7: a PIR sensor lights the LED for HOLD ticks (10 * HZ jiffies). *)
(* Three activities touch the lamp: the interrupt handler, the timer       *)
(* callback on another CPU, and the thread that loads or unloads the       *)
(* module.  A timer that expired may be delayed before its callback runs,  *)
(* and its callback may wait for led_lock.                                 *)
(***************************************************************************)
EXTENDS Integers, Sequences

CONSTANT HOLD
ASSUME HoldAssumption == HOLD \in Nat \ {0}

Nobody == "none"

\* ch7_mod_init, call by call (see Pi2LedDriver for the same reading).
\* timer_setup cannot fail and holds nothing.
Ladder ==
    << [call |-> "gpio_request_pir",     gets |-> {"pir"}, undo |-> {}],
       [call |-> "gpio_direction_input",  gets |-> {},      undo |-> {"pir"}],
       [call |-> "gpio_request_led",     gets |-> {"led"}, undo |-> {"pir"}],
       [call |-> "gpio_direction_output", gets |-> {},      undo |-> {"led", "pir"}],
       [call |-> "gpio_to_irq",           gets |-> {},      undo |-> {"led", "pir"}],
       [call |-> "request_irq",           gets |-> {"irq"}, undo |-> {"led", "pir"}] >>

VARIABLES
    step,     \* next call of the ladder; 0 when the module is not loaded
    held,     \* GPIO lines and interrupt the module holds
    exit,     \* next call of ch7_mod_exit, "no" before it, "done" after it
    gpio,     \* level of the LED pin
    led_on,   \* the module's copy of it
    led_lock, \* "irq", "timer" or Nobody
    irq,      \* where the interrupt handler is
    cb,       \* where the timer callback is
    pending,  \* led_timer is armed
    left,     \* ticks until it expires
    since     \* ticks since the last mod_timer, up to HOLD

modVars == <<step, held, exit>>
lampVars == <<gpio, led_on>>
timerVars == <<pending, left, since>>
pirVars == <<modVars, lampVars, led_lock, irq, cb, timerVars>>

Loaded == Len(Ladder) + 1

PirInit ==
    /\ step = 0 /\ held = {} /\ exit = "no"
    /\ gpio \in {0, 1} /\ led_on = 0
    /\ led_lock = Nobody
    /\ irq = "idle" /\ cb = "idle"
    /\ pending = FALSE /\ left = 0 /\ since = HOLD

-----------------------------------------------------------------------------
(* Loading. *)

\* With a timer still armed after an unload, nothing is defined any more.
Insmod ==
    /\ step = 0
    /\ ~pending /\ cb = "idle"
    /\ step' = 1 /\ exit' = "no"
    /\ UNCHANGED <<held, lampVars, led_lock, irq, cb, timerVars>>

Released(i) == Ladder[i].undo

InitCallFails ==
    /\ step \in 1 .. Len(Ladder)
    /\ held' = held \ Released(step)
    /\ step' = 0
    /\ UNCHANGED <<exit, lampVars, led_lock, irq, cb, timerVars>>

InitCallSucceeds ==
    /\ step \in 1 .. Len(Ladder)
    /\ held' = held \cup Ladder[step].gets
    /\ step' = step + 1
    /\ gpio' = IF Ladder[step].call = "gpio_direction_output" THEN 0 ELSE gpio
    /\ led_on' = 0                    \* static int led_on = 0, as loaded
    /\ UNCHANGED <<exit, led_lock, irq, cb, timerVars>>

-----------------------------------------------------------------------------
(* pir_irq_handler. *)

Detect ==
    /\ "irq" \in held
    /\ irq = "idle"
    /\ irq' = "lock"
    /\ UNCHANGED <<modVars, lampVars, led_lock, cb, timerVars>>

\* A seeded fault: the two contexts do not exclude each other.
Mut_LockFree == TRUE
LockFree == led_lock = Nobody

IrqLock ==
    /\ irq = "lock"
    /\ LockFree
    /\ led_lock' = "irq"
    /\ irq' = IF led_on = 1 THEN "off" ELSE "on"
    /\ UNCHANGED <<modVars, lampVars, cb, timerVars>>

\* The lamp is on already: it is switched off once.
IrqOff ==
    /\ irq = "off"
    /\ gpio' = 0
    /\ irq' = "on"
    /\ UNCHANGED <<modVars, led_on, led_lock, cb, timerVars>>

IrqOn ==
    /\ irq = "on"
    /\ gpio' = 1
    /\ irq' = "state"
    /\ UNCHANGED <<modVars, led_on, led_lock, cb, timerVars>>

IrqState ==
    /\ irq = "state"
    /\ led_on' = 1
    /\ irq' = "arm"
    /\ UNCHANGED <<modVars, gpio, led_lock, cb, timerVars>>

\* mod_timer(&led_timer, jiffies + 10 * HZ).
\* A seeded fault: the timer is only armed when it is already running.
Mut_Armed == pending
Armed == TRUE

Expiry == HOLD

IrqArm ==
    /\ irq = "arm"
    /\ pending' = Armed
    /\ left' = Expiry
    /\ since' = 0
    /\ irq' = "unlock"
    /\ UNCHANGED <<modVars, lampVars, led_lock, cb>>

IrqUnlock ==
    /\ irq = "unlock"
    /\ led_lock' = Nobody
    /\ irq' = "idle"
    /\ UNCHANGED <<modVars, lampVars, cb, timerVars>>

-----------------------------------------------------------------------------
(* Time and led_timer_func. *)

Tick ==
    /\ left' = IF left > 0 THEN left - 1 ELSE 0
    /\ since' = IF since < HOLD THEN since + 1 ELSE HOLD
    /\ UNCHANGED <<modVars, lampVars, led_lock, irq, cb, pending>>

\* The timer is no longer pending once its callback has been started.
TimerFires ==
    /\ step # 0
    /\ pending /\ left = 0
    /\ cb = "idle"
    /\ pending' = FALSE
    /\ cb' = "lock"
    /\ UNCHANGED <<modVars, lampVars, led_lock, irq, left, since>>

TimerLock ==
    /\ cb = "lock"
    /\ LockFree
    /\ led_lock' = "timer"
    /\ cb' = "off"
    /\ UNCHANGED <<modVars, lampVars, irq, timerVars>>

TimerOff ==
    /\ cb = "off"
    /\ gpio' = 0
    /\ cb' = "state"
    /\ UNCHANGED <<modVars, led_on, led_lock, irq, timerVars>>

TimerState ==
    /\ cb = "state"
    /\ led_on' = 0
    /\ cb' = "unlock"
    /\ UNCHANGED <<modVars, gpio, led_lock, irq, timerVars>>

TimerUnlock ==
    /\ cb = "unlock"
    /\ led_lock' = Nobody
    /\ cb' = "idle"
    /\ UNCHANGED <<modVars, lampVars, irq, timerVars>>

-----------------------------------------------------------------------------
(* ch7_mod_exit. *)

\* del_timer_sync: waits for a running callback, then disarms.
ExitDelTimer ==
    /\ step = Loaded /\ exit = "no"
    /\ cb = "idle"
    /\ pending' = FALSE
    /\ exit' = "free_irq"
    /\ UNCHANGED <<step, held, lampVars, led_lock, irq, cb, left, since>>

\* free_irq waits for a running handler.
\* A seeded fault: it does not.
Mut_HandlerQuiet == TRUE
HandlerQuiet == irq = "idle"

ExitFreeIrq ==
    /\ exit = "free_irq"
    /\ HandlerQuiet
    /\ held' = held \ {"irq"}
    /\ exit' = "led_off"
    /\ UNCHANGED <<step, lampVars, led_lock, irq, cb, timerVars>>

\* gpio_set_value(LED_GPIO, 0); led_on = 0; without the lock.
ExitLedOff ==
    /\ exit = "led_off"
    /\ gpio' = 0
    /\ led_on' = 0
    /\ exit' = "free"
    /\ UNCHANGED <<step, held, led_lock, irq, cb, timerVars>>

ExitFree ==
    /\ exit = "free"
    /\ held' = held \ {"led", "pir"}
    /\ step' = 0
    /\ exit' = "done"
    /\ UNCHANGED <<lampVars, led_lock, irq, cb, timerVars>>

-----------------------------------------------------------------------------
LoadStep == Insmod \/ InitCallFails \/ InitCallSucceeds
IrqRun == IrqOff \/ IrqOn \/ IrqState \/ IrqArm \/ IrqUnlock
TimerRun == TimerFires \/ TimerOff \/ TimerState \/ TimerUnlock
ExitRun == ExitFreeIrq \/ ExitLedOff \/ ExitFree

PirNext ==
    \/ LoadStep \/ Detect \/ Tick
    \/ IrqLock \/ IrqRun
    \/ TimerLock \/ TimerRun
    \/ ExitDelTimer \/ ExitRun

PirSpec == PirInit /\ [][PirNext]_pirVars

\* Time passes, interrupts and timers are served, a started rmmod goes on, and
\* the spinlock reaches both of its two users.
PirFairSpec ==
    /\ PirSpec
    /\ WF_pirVars(Tick) /\ WF_pirVars(ExitRun)
    /\ WF_pirVars(IrqRun) /\ SF_pirVars(IrqLock)
    /\ WF_pirVars(TimerRun) /\ SF_pirVars(TimerLock)

-----------------------------------------------------------------------------
(* Properties. *)

TypeOK ==
    /\ step \in 0 .. Loaded
    /\ held \subseteq {"pir", "led", "irq"}
    /\ exit \in {"no", "free_irq", "led_off", "free", "done"}
    /\ gpio \in {0, 1} /\ led_on \in {0, 1}
    /\ led_lock \in {Nobody, "irq", "timer"}
    /\ irq \in {"idle", "lock", "off", "on", "state", "arm", "unlock"}
    /\ cb \in {"idle", "lock", "off", "state", "unlock"}
    /\ pending \in BOOLEAN
    /\ left \in 0 .. HOLD /\ since \in 0 .. HOLD

\* Whoever finds led_lock free while the module serves finds led_on equal to
\* the level of the pin: handler and callback each update the pair as one.
LampMatchesState ==
    step = Loaded /\ led_lock = Nobody /\ exit \in {"no", "free_irq"} => gpio = led_on

\* A lit LED is never forgotten: while the module serves, a timer is armed for
\* it, or the callback that will switch it off has started, or the handler
\* that lit it is about to arm the timer.
TimerCoversLamp ==
    exit = "no" /\ led_on = 1 =>
        pending \/ cb \in {"lock", "off", "state"} \/ irq = "arm"

\* The handler's comment demands it: a detection while the LED is lit switches
\* it off before it switches it on again, so that every gpio_set_value(.., 1)
\* is a rising edge on the pin.
EveryDetectionBlinks == [][irq = "on" /\ irq' = "state" => gpio = 0]_pirVars

\* After ch7_mod_exit and after a load that failed, the module holds no GPIO
\* line and no interrupt; after ch7_mod_exit the lamp is dark, even when a
\* detection came while the module was being removed.
UnloadLeavesNothing ==
    /\ step = 0 => held = {}
    /\ exit = "done" => gpio = 0 /\ irq = "idle"

\* When detections stop, the lamp goes dark and stays dark.
EventuallyDark == <>[](irq = "idle") => <>[](led_on = 0)

\* The handler says "LED ON for 10 seconds" and arms the timer 10 seconds from
\* the current detection: the callback switches a lit LED off only when HOLD
\* ticks have passed since the last detection.
HoldsFullTime == [][cb = "off" /\ gpio = 1 /\ gpio' = 0 => since = HOLD]_pirVars

\* How far the code is from that: a callback that runs early has been overtaken
\* by a newer mod_timer, so that the lamp it makes dark has a timer armed.
EarlyOnlyIfRearmed == cb \in {"lock", "off"} => since = HOLD \/ pending

\* ch7_mod_exit says it removes the timer: none is armed, and no callback
\* runs, once the module is gone.
NoTimerAfterUnload == exit = "done" => ~pending /\ cb = "idle"
=============================================================================
