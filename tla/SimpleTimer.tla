------------------------------ MODULE SimpleTimer ------------------------------
(***************************************************************************)
(* lab6/ex3 (simple_timer.c): a timer that counts and arms itself again.   *)
(* Its callback may run on one CPU while rmmod runs on another; del_timer, *)
(* unlike del_timer_sync, does not wait for it.  The count itself is left  *)
(* out; PollTimer is ch6, which has grown out of this module.              *)
(***************************************************************************)
EXTENDS Integers

CONSTANT PERIOD   \* delay_jiffies

VARIABLES
    life,     \* the module is "out", "in", or "gone" after an unload
    pending,  \* my_timer is armed
    left,     \* ticks until it expires
    cb        \* where my_timer_func is: "idle", or "count" before its mod_timer

vars == <<life, pending, left, cb>>

Init == life = "out" /\ pending = FALSE /\ left = 0 /\ cb = "idle"

\* add_timer, mod_timer: expires = jiffies + delay_jiffies.
Arm == pending' = TRUE /\ left' = PERIOD

\* With a timer armed or a callback running in an unloaded module nothing is
\* defined any more.
SimpleTimerInit ==
    /\ life # "in" /\ ~pending /\ cb = "idle"
    /\ life' = "in"
    /\ Arm
    /\ UNCHANGED cb

Tick ==
    /\ pending /\ left > 0
    /\ left' = left - 1
    /\ UNCHANGED <<life, pending, cb>>

\* The timer is no longer pending once its callback has been started.
TimerFires ==
    /\ life = "in" /\ pending /\ left = 0 /\ cb = "idle"
    /\ pending' = FALSE
    /\ cb' = "count"
    /\ UNCHANGED <<life, left>>

Rearm ==
    /\ cb = "count"
    /\ Arm
    /\ cb' = "idle"
    /\ UNCHANGED life

\* del_timer disarms the timer and leaves a running callback alone.
SimpleTimerExit ==
    /\ life = "in"
    /\ pending' = FALSE
    /\ life' = "gone"
    /\ UNCHANGED <<left, cb>>

Next == SimpleTimerInit \/ Tick \/ TimerFires \/ Rearm \/ SimpleTimerExit

Spec == Init /\ [][Next]_vars

-----------------------------------------------------------------------------
(* Properties. *)

\* simple_timer_exit says it removes the timer when the module ends: none is
\* armed once the module is gone.
TimerRemoved == life = "gone" => ~pending
=============================================================================
