------------------------------- MODULE Ch2Calc -------------------------------
(***************************************************************************)
(* lab3/ch2, ch2_mod_202111360.c: a shared accumulator behind an ioctl     *)
(* without a lock.  += and *= are a load and a store that other processes  *)
(* come between, and the value returned is loaded once more.  The kernel   *)
(* is built so that a long wraps: values are taken modulo 2 ^ WIDTH.       *)
(***************************************************************************)
EXTENDS Integers

CONSTANTS
    Proc,     \* processes calling the ioctl
    WIDTH,    \* bits of a long
    Arg,      \* arguments
    MaxCalls  \* bound: calls of a process per load

VARIABLES
    loaded,
    result,
    pc,       \* "user", "load", "store", "return"
    op, arg,  \* per process: the call
    reg,      \* per process: the value loaded, later the value returned
    calls,    \* per process: calls begun since insmod
    stored,   \* history: the stores to result since insmod
    counting  \* history: every call since insmod was GET or ADD 1

procVars == <<pc, op, arg, reg, calls>>
vars == <<loaded, result, procVars, stored, counting>>

Init ==
    /\ loaded = FALSE /\ result = 0 /\ stored = 0 /\ counting = TRUE
    /\ pc = [p \in Proc |-> "user"]
    /\ op = [p \in Proc |-> "GET"] /\ arg = [p \in Proc |-> 0]
    /\ reg = [p \in Proc |-> 0] /\ calls = [p \in Proc |-> 0]

Idle == \A p \in Proc : pc[p] = "user"

\* ch2_init: a freshly loaded module starts from 0.
Insmod ==
    /\ ~loaded
    /\ loaded' = TRUE /\ result' = 0 /\ stored' = 0 /\ counting' = TRUE
    /\ calls' = [p \in Proc |-> 0]
    /\ UNCHANGED <<pc, op, arg, reg>>

\* ch2_exit, taken to come when no call is in progress.
Rmmod ==
    /\ loaded /\ Idle
    /\ loaded' = FALSE
    /\ UNCHANGED <<result, procVars, stored, counting>>

\* ch2_ioctl: dispatch.
Ioctl(p) ==
    /\ loaded /\ pc[p] = "user" /\ calls[p] < MaxCalls
    /\ \E o \in {"GET", "SET", "ADD", "MUL"}, a \in Arg :
          /\ op' = [op EXCEPT ![p] = o]
          /\ arg' = [arg EXCEPT ![p] = a]
          /\ pc' = [pc EXCEPT ![p] = CASE o = "GET" -> "return" [] o = "SET" -> "store"
                                       [] OTHER -> "load"]
          /\ calls' = [calls EXCEPT ![p] = IF o = "GET" THEN @ ELSE @ + 1]
          /\ counting' = (counting /\ (o = "GET" \/ (o = "ADD" /\ a = 1)))
    /\ UNCHANGED <<loaded, result, reg, stored>>

Load(p) ==
    /\ pc[p] = "load"
    /\ reg' = [reg EXCEPT ![p] = result]
    /\ pc' = [pc EXCEPT ![p] = "store"]
    /\ UNCHANGED <<loaded, result, op, arg, calls, stored, counting>>

\* A seeded fault: = where += belongs.
Mut_Computed(o, r, a) == (IF o = "MUL" THEN r * a ELSE a) % 2 ^ WIDTH
Computed(o, r, a) ==
    (CASE o = "SET" -> a [] o = "ADD" -> r + a [] o = "MUL" -> r * a) % 2 ^ WIDTH

Store(p) ==
    /\ pc[p] = "store"
    /\ result' = Computed(op[p], reg[p], arg[p])
    /\ stored' = stored + 1
    /\ pc' = [pc EXCEPT ![p] = "return"]
    /\ UNCHANGED <<loaded, op, arg, reg, calls, counting>>

Return(p) ==
    /\ pc[p] = "return"
    /\ reg' = [reg EXCEPT ![p] = 0]
    /\ op' = [op EXCEPT ![p] = "GET"] /\ arg' = [arg EXCEPT ![p] = 0]
    /\ pc' = [pc EXCEPT ![p] = "user"]
    /\ UNCHANGED <<loaded, result, calls, stored, counting>>

Next == Insmod \/ Rmmod \/ \E p \in Proc : Ioctl(p) \/ Load(p) \/ Store(p) \/ Return(p)

Spec == Init /\ [][Next]_vars

-----------------------------------------------------------------------------
(* Properties. *)

\* How much an unlocked += can lose.  While nothing but 1 is added, and not so
\* often that result wraps, ch2_ioctl never counts more than was stored; and when
\* all calls have returned, each process having added once, it has counted at
\* least once; each twice, at least twice.  More is not promised: with any
\* number of calls result may still be 2.
UpdatesSurvive ==
    loaded /\ counting /\ stored < 2 ^ WIDTH =>
      /\ result <= stored
      /\ Idle => \A k \in 1 .. 2 : (\A p \in Proc : calls[p] >= k) => result >= k
=============================================================================
