------------------------------- MODULE PollTimer -------------------------------
(***************************************************************************)
(* lab6/ch6 (ch6_mod_202111360.c): a timer that polls a switch, copies it  *)
(* to the LED and arms itself again, the skeleton of SimpleTimer with two  *)
(* pins.  The callback runs on one CPU while rmmod runs on another;        *)
(* del_timer, unlike del_timer_sync, does not wait for it.                 *)
(***************************************************************************)
EXTENDS Integers, Sequences

CONSTANT PERIOD      \* delay_jiffies, at least 1

\* ch6_init: both pins, each with its failure branch; then the timer.
Ladder ==
    << [call |-> "gpio_request LED",    gets |-> {"led"},    undo |-> {}],
       [call |-> "gpio_request SWITCH", gets |-> {"switch"}, undo |-> {"led"}] >>

VARIABLES
    step,     \* next call of the ladder; 0 when the module is not loaded
    held,     \* pins held
    exit,     \* next call of ch6_exit, "no" before it, "done" after it
    gpio,     \* level of the LED pin
    switch,   \* level of the switch pin
    cb,       \* where the callback is
    seen,     \* sw, the level the callback has read
    pending,  \* the timer is armed
    left,     \* ticks until it expires
    caught    \* history: the last del_timer met a running callback

modVars == <<step, held, exit, caught>>
vars == <<modVars, gpio, switch, cb, seen, pending, left>>

Loaded == Len(Ladder) + 1

Init ==
    /\ step = 0 /\ held = {} /\ exit = "no"
    /\ gpio \in {0, 1} /\ switch \in {0, 1}
    /\ cb = "idle" /\ seen = 0
    /\ pending = FALSE /\ left = 0 /\ caught = FALSE

\* With a timer armed or a callback running in an unloaded module nothing is
\* defined any more.
Insmod ==
    /\ step = 0
    /\ ~pending /\ cb = "idle"
    /\ step' = 1 /\ exit' = "no" /\ caught' = FALSE
    /\ UNCHANGED <<held, gpio, switch, cb, seen, pending, left>>

InitCallFails ==
    /\ step \in 1 .. Len(Ladder)
    /\ held' = held \ Ladder[step].undo
    /\ step' = 0
    /\ UNCHANGED <<exit, caught, gpio, switch, cb, seen, pending, left>>

\* The LED is requested as output low; after the last pin the timer starts.
InitCallSucceeds ==
    /\ step \in 1 .. Len(Ladder)
    /\ held' = held \cup Ladder[step].gets
    /\ step' = step + 1
    /\ gpio' = IF step = 1 THEN 0 ELSE gpio
    /\ IF step = Len(Ladder) THEN pending' = TRUE /\ left' = PERIOD
                             ELSE UNCHANGED <<pending, left>>
    /\ UNCHANGED <<exit, caught, switch, cb, seen>>

-----------------------------------------------------------------------------
(* Time, the switch, and ch6_timer_func. *)

Tick ==
    /\ left' = IF left > 0 THEN left - 1 ELSE 0
    /\ UNCHANGED <<modVars, gpio, switch, cb, seen, pending>>

Flip ==
    /\ switch' = 1 - switch
    /\ UNCHANGED <<modVars, gpio, cb, seen, pending, left>>

TimerFires ==
    /\ step # 0
    /\ pending /\ left = 0 /\ cb = "idle"
    /\ pending' = FALSE
    /\ cb' = "get"
    /\ UNCHANGED <<modVars, gpio, switch, seen, left>>

GetSwitch ==
    /\ cb = "get"
    /\ seen' = switch
    /\ cb' = "set"
    /\ UNCHANGED <<modVars, gpio, switch, pending, left>>

\* A seeded fault: the LED shows the opposite of the switch.
Mut_Shown == 1 - seen
Shown == seen

SetLed ==
    /\ cb = "set"
    /\ gpio' = Shown
    /\ cb' = "rearm"
    /\ UNCHANGED <<modVars, switch, seen, pending, left>>

\* mod_timer at the end of the callback.
Rearm ==
    /\ cb = "rearm"
    /\ pending' = TRUE
    /\ left' = PERIOD
    /\ cb' = "idle"
    /\ UNCHANGED <<modVars, gpio, switch, seen>>

-----------------------------------------------------------------------------
(* ch6_exit. *)

\* A seeded fault: del_timer is left out.
Mut_Armed == pending
Armed == FALSE

\* del_timer: disarms, and does not wait for a running callback.
ExitDelTimer ==
    /\ step = Loaded /\ exit = "no"
    /\ pending' = Armed
    /\ caught' = (cb # "idle")
    /\ exit' = "led_off"
    /\ UNCHANGED <<step, held, gpio, switch, cb, seen, left>>

ExitLedOff ==
    /\ exit = "led_off"
    /\ gpio' = 0
    /\ exit' = "free"
    /\ UNCHANGED <<step, held, caught, switch, cb, seen, pending, left>>

ExitFree ==
    /\ exit = "free"
    /\ held' = held \ {"switch", "led"}
    /\ step' = 0
    /\ exit' = "done"
    /\ UNCHANGED <<caught, gpio, switch, cb, seen, pending, left>>

-----------------------------------------------------------------------------
Callback == TimerFires \/ GetSwitch \/ SetLed \/ Rearm

Next ==
    \/ Insmod \/ InitCallFails \/ InitCallSucceeds
    \/ Tick \/ Flip \/ Callback
    \/ ExitDelTimer \/ ExitLedOff \/ ExitFree

Spec == Init /\ [][Next]_vars

-----------------------------------------------------------------------------
(* Properties. *)

\* ch6_exit calls del_timer as simple_timer_exit does, of which SimpleTimer
\* refutes that it removes the timer.  What it does ensure: after ch6_exit no
\* pin is held, and a callback still runs, or the timer is armed again, only
\* when del_timer met the callback in the middle of its work.  A load that
\* failed half way leaves nothing at all.
OutlivesOnlyIfCaught ==
    step = 0 => held = {} /\ (pending \/ cb # "idle" => caught)

\* The LED follows the switch: once the switch stays put and the module stays
\* loaded, the LED comes to show it and keeps showing it.
LedFollowsSwitch ==
    \A s \in {0, 1} :
        <>[](switch = s /\ step = Loaded /\ exit = "no") => <>[](gpio = s)
=============================================================================
