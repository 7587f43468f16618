-------------------------------- MODULE Board --------------------------------
(***************************************************************************)
(* Who holds which pin and which interrupt of the Raspberry Pi while the   *)
(* modules of the labs are loaded and unloaded on it, in any order and     *)
(* combination; init functions of different modules run request by request *)
(* between each other.  gpio_request, request_irq, gpio_free and free_irq  *)
(* are external: a request for something taken is refused, any other call  *)
(* may fail as well, and a release asks nobody whether what it releases    *)
(* was his (every handler was registered with the same dev_id, NULL).      *)
(*                                                                         *)
(* A careful init undoes what it has and gives up when a call fails; a     *)
(* careless one goes on, and its exit function releases everything anyway. *)
(***************************************************************************)
EXTENDS Integers, Sequences

CONSTANT Loadable   \* names of the modules considered

None == "none"

Names ==
    {"simple_led", "simple_switch", "switch_irq", "simple_sensor", "spin_interrupt",
     "simple_tasklet", "simple_workqueue", "ch9", "ch6", "ch7", "pi2_led"}
Pin == {5, 6, 12, 13, 17, 19, 26}

VARIABLES
    at,       \* at[m]: next call of m's init, 0 when not loaded
    owner,    \* owner[pin]: who requested it, or None
    handler,  \* handler[pin]: whose handler its interrupt has, or None
    param,    \* pi2_led_driver's led_gpio
    spoiled   \* history: pins that a careless init did not get, or that led_gpio
              \* was moved from or to under the driver

vars == <<at, owner, handler, param, spoiled>>

-----------------------------------------------------------------------------
(* The calls of each init: what it gets, and what a careful one releases   *)
(* when it, or a call in front of it that gets nothing, fails.             *)

Gpio(n, undo) == [pins |-> {n}, irqs |-> {}, undo |-> undo]
Irq(n, undo) == [pins |-> {}, irqs |-> {n}, undo |-> undo]
Others(undo) == [pins |-> {}, irqs |-> {}, undo |-> undo]
Careful(calls) == [calls |-> calls, careful |-> TRUE]
Careless(calls) == [calls |-> calls, careful |-> FALSE]

SimpleLed       == Careless(<<Gpio(5, {})>>)
SimpleSwitch    == Careless(<<Gpio(12, {})>>)
SwitchIrq       == Careless(<<Gpio(12, {}), Irq(12, {})>>)
SimpleSensor    == Careless(<<Gpio(17, {}), Irq(17, {})>>)
SpinIrq         == Careless(<<Gpio(17, {}), Irq(17, {})>>)
SimpleTasklet   == Careless(<<Gpio(17, {}), Irq(17, {})>>)
SimpleWorkqueue == Careless(<<Gpio(17, {}), Irq(17, {})>>)
Ch9             == Careless(<<Gpio(6, {}), Gpio(13, {}), Gpio(19, {}), Gpio(26, {})>>)
Ch6             == Careful(<<Gpio(5, {}), Gpio(12, {5})>>)
Ch7             == Careful(<<Gpio(17, {}), Gpio(5, {17}), Irq(17, {5, 17})>>)
Pi2Led          == Careful(<<Gpio(param, {}), Others({param})>>)

Module ==
    [simple_led |-> SimpleLed, simple_switch |-> SimpleSwitch, switch_irq |-> SwitchIrq,
     simple_sensor |-> SimpleSensor, spin_interrupt |-> SpinIrq, simple_tasklet |-> SimpleTasklet,
     simple_workqueue |-> SimpleWorkqueue, ch9 |-> Ch9, ch6 |-> Ch6, ch7 |-> Ch7, pi2_led |-> Pi2Led]

Calls(m) == Module[m].calls
InInit(m) == at[m] \in 1 .. Len(Calls(m))
Call(m) == Calls(m)[at[m]]

\* What m has asked for so far, and its exit function releases in the end.
Pins(m) == UNION {Calls(m)[i].pins : i \in 1 .. at[m] - 1}
Irqs(m) == UNION {Calls(m)[i].irqs : i \in 1 .. at[m] - 1}

Goto(m, i) == at' = [at EXCEPT ![m] = i]
\* The pins or interrupts in names go to whom.
Give(table, names, whom) == [n \in Pin |-> IF n \in names THEN whom ELSE table[n]]

-----------------------------------------------------------------------------
DEFAULT_LED_GPIO == 5

Init ==
    /\ at = [m \in Loadable |-> 0]
    /\ owner = [n \in Pin |-> None] /\ handler = [n \in Pin |-> None]
    /\ param = DEFAULT_LED_GPIO
    /\ spoiled = {}

Insmod(m) ==
    /\ at[m] = 0
    /\ Goto(m, 1)
    /\ UNCHANGED <<owner, handler, param, spoiled>>

CallSucceeds(m) ==
    /\ InInit(m)
    /\ \A n \in Call(m).pins : owner[n] = None
    /\ \A n \in Call(m).irqs : handler[n] = None
    /\ owner' = Give(owner, Call(m).pins, m)
    /\ handler' = Give(handler, Call(m).irqs, m)
    /\ Goto(m, at[m] + 1)
    /\ UNCHANGED <<param, spoiled>>

\* What the failure branch of a careful init releases.  A seeded fault: the
\* gpio_free of the LED is forgotten.
Mut_Undone(m) == Call(m).undo \ {5}
Undone(m) == Call(m).undo

\* A careful init returns the error, whatever has failed.
CallFails(m) ==
    /\ InInit(m) /\ Module[m].careful
    /\ owner' = Give(owner, Undone(m), None)
    /\ Goto(m, 0)
    /\ UNCHANGED <<handler, param, spoiled>>

\* A careless one goes on without; after a failed request_irq its free_irq
\* removes the handler that was there.
FailsRegardless(m) ==
    /\ InInit(m) /\ ~Module[m].careful
    /\ handler' = Give(handler, Call(m).irqs, None)
    /\ spoiled' = spoiled \cup Call(m).pins \cup Call(m).irqs
    /\ Goto(m, at[m] + 1)
    /\ UNCHANGED <<owner, param>>

\* Every exit function: free_irq, then gpio_free of each pin.
Unload(m) ==
    /\ at[m] = Len(Calls(m)) + 1
    /\ owner' = Give(owner, Pins(m), None)
    /\ handler' = Give(handler, Irqs(m), None)
    /\ Goto(m, 0)
    /\ UNCHANGED <<param, spoiled>>

\* module_param(led_gpio, int, 0644): root writes the file in /sys, at any time.
SetLedGpio(n) ==
    /\ n # param
    /\ param' = n
    /\ spoiled' = IF at["pi2_led"] > 1 THEN spoiled \cup {param, n} ELSE spoiled
    /\ UNCHANGED <<at, owner, handler>>

Next ==
    \/ \E m \in Loadable :
          Insmod(m) \/ CallSucceeds(m) \/ CallFails(m) \/ FailsRegardless(m) \/ Unload(m)
    \/ \E n \in {5, 6} : "pi2_led" \in Loadable /\ SetLedGpio(n)

Spec == Init /\ [][Next]_vars

-----------------------------------------------------------------------------
(* Properties. *)

\* The board's books: of every pin that no careless init failed to get and that
\* led_gpio was not moved to or from under the driver, the owner is the module
\* that has requested it and not yet released it, in its exit function or in
\* the branch in which its init gave up; likewise of its interrupt.  So no two
\* modules share such a pin, however their init functions overlap, a load that
\* fails half way keeps nothing, and what a careless module does wrong stays on
\* the pins it did not get.
OwnsWhatItUses ==
    \A n \in Pin \ spoiled, m \in Loadable :
        /\ owner[n] = m <=> n \in Pins(m)
        /\ handler[n] = m <=> n \in Irqs(m)
=============================================================================
