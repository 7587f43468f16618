----------------------------- MODULE LedRegister -----------------------------
(***************************************************************************)
(* What /dev/pi2_led_dev promises its callers: one bit, the lamp, that     *)
(* every call reads or writes in one indivisible step somewhere between    *)
(* its invocation and its return.  Loading and unloading the driver resets *)
(* the lamp, which can only happen while nobody is inside a call.          *)
(***************************************************************************)
EXTENDS Integers

CONSTANT Proc

VARIABLES
    lamp,   \* what the LED shows
    op,     \* op[p]: the call p is in, or "idle"
    arg     \* arg[p]: the bit p asked to write, or the bit its read took

regVars == <<lamp, op, arg>>

Bit == {0, 1}
Void == -1

RegTypeOK ==
    /\ lamp \in Bit
    /\ op \in [Proc -> {"idle", "write", "read", "done"}]
    /\ arg \in [Proc -> Bit \cup {Void}]

RegInit ==
    /\ lamp \in Bit
    /\ op = [p \in Proc |-> "idle"]
    /\ arg = [p \in Proc |-> Void]

\* A write is invoked; its command may be one the device does not know.
InvokeWrite(p, v) ==
    /\ op[p] = "idle"
    /\ op' = [op EXCEPT ![p] = "write"]
    /\ arg' = [arg EXCEPT ![p] = v]
    /\ UNCHANGED lamp

InvokeRead(p) ==
    /\ op[p] = "idle"
    /\ op' = [op EXCEPT ![p] = "read"]
    /\ UNCHANGED <<lamp, arg>>

\* The instant at which a write with a known command happens.
TakeWrite(p) ==
    /\ op[p] = "write"
    /\ arg[p] \in Bit
    /\ lamp' = arg[p]
    /\ op' = [op EXCEPT ![p] = "done"]
    /\ UNCHANGED arg

\* The instant at which a read happens.
TakeRead(p) ==
    /\ op[p] = "read"
    /\ arg' = [arg EXCEPT ![p] = lamp]
    /\ op' = [op EXCEPT ![p] = "done"]
    /\ UNCHANGED lamp

\* A call returns: after it happened, or refused without any effect.
Return(p) ==
    /\ op[p] = "done" \/ (op[p] = "write" /\ arg[p] = Void)
    /\ op' = [op EXCEPT ![p] = "idle"]
    /\ arg' = [arg EXCEPT ![p] = Void]
    /\ UNCHANGED lamp

\* insmod and rmmod drive the lamp while no call is running.
Reset ==
    /\ \A p \in Proc : op[p] = "idle"
    /\ lamp' = 0
    /\ UNCHANGED <<op, arg>>

RegNext ==
    \/ \E p \in Proc :
          \/ \E v \in Bit \cup {Void} : InvokeWrite(p, v)
          \/ InvokeRead(p)
          \/ TakeWrite(p)
          \/ TakeRead(p)
          \/ Return(p)
    \/ Reset

RegSpec == RegInit /\ [][RegNext]_regVars
=============================================================================
