------------------------------ MODULE SimpleBlock ------------------------------
(***************************************************************************)
(* lab5/ex1 (simple_block_1.c) and lab5/ex2 (simple_block_2.c): a counter  *)
(* my_data that readers wait for and take one unit from, and writers add   *)
(* to.  The two drivers differ in the commands they offer, which are the   *)
(* constants.  The wait macros are unfolded as in Ch4Queue; an exclusive   *)
(* waiter queues at the tail and wake_up wakes one of them only.           *)
(* The spinlock covers single assignments, which are single steps here.    *)
(***************************************************************************)
EXTENDS Integers, FiniteSets, Sequences

CONSTANTS
    Proc,       \* processes using the device
    Waits,      \* wait commands offered
    Wakes,      \* wake-up commands offered
    Amounts,    \* arguments writers pass, of either sign: nobody checks them
    MaxData,    \* bound: my_data stays below it
    MaxDrawn,   \* bound: what writers take out in a behaviour
    MaxLate     \* bound: waits that time out in a behaviour

\* Named as in simple_block_1.h; WQ of simple_block_2.h is interruptible, and
\* so is its WQ_EX.
AllWaits == {"WQ", "WQ_INTERRUPTIBLE", "WQ_INTERRUPTIBLE_TIMEOUT", "WQ_EX"}

ASSUME ProcAssumption == IsFiniteSet(Proc) /\ Proc # {}
ASSUME WaitsAssumption == Waits \subseteq AllWaits
ASSUME WakesAssumption == Wakes \subseteq {"WQ_WAKE_UP", "WQ_WAKE_UP_ALL"}
ASSUME AmountsAssumption ==
    Amounts \subseteq Int /\ {MaxData, MaxDrawn, MaxLate} \subseteq Nat

VARIABLES
    my_data,  \* units available
    shared,   \* non-exclusive waiters on my_wq
    excl,     \* exclusive waiters on my_wq, first to be woken first
    sig,      \* processes with a signal pending
    pc, cmd,  \* per process: where it is, and the command it is in
    late,     \* waits that have timed out, for OverdraftBound and its bound
    drawn     \* units taken out by writers that passed a negative argument

vars == <<my_data, shared, excl, sig, pc, cmd, late, drawn>>

WaitPC == {"test", "prepare", "retest", "last", "sleep"}

Init ==
    /\ my_data = 0
    /\ shared = {} /\ excl = <<>>
    /\ sig = {}
    /\ pc = [p \in Proc |-> "user"]
    /\ cmd = [p \in Proc |-> "none"]
    /\ late = 0 /\ drawn = 0

Goto(p, there) == pc' = [pc EXCEPT ![p] = there]
Returns(p) == Goto(p, "user") /\ cmd' = [cmd EXCEPT ![p] = "none"] /\ sig' = sig \ {p}
Queued(p) == p \in shared \/ (\E i \in 1 .. Len(excl) : excl[i] = p)
\* excl without p, which stands there once at most.
Without(p) ==
    IF \E i \in 1 .. Len(excl) : excl[i] = p
    THEN LET k == CHOOSE i \in 1 .. Len(excl) : excl[i] = p
         IN  [i \in 1 .. Len(excl) - 1 |-> IF i < k THEN excl[i] ELSE excl[i + 1]]
    ELSE excl
Dequeue(p) == shared' = shared \ {p} /\ excl' = Without(p)
Interruptible(p) == cmd[p] # "WQ"

-----------------------------------------------------------------------------
(* The waiting commands. *)

IoctlWait(p, c) ==
    /\ pc[p] = "user"
    /\ cmd' = [cmd EXCEPT ![p] = c]
    /\ Goto(p, "test")
    /\ UNCHANGED <<my_data, shared, excl, sig, late, drawn>>

\* The condition of every wait.
Available == my_data > 0

Test(p) ==
    /\ pc[p] = "test"
    /\ Goto(p, IF Available THEN "take" ELSE "prepare")
    /\ UNCHANGED <<my_data, shared, excl, sig, cmd, late, drawn>>

\* prepare_to_wait_event; exclusive waiters queue at the tail.  A process that
\* is still queued (woken by a signal) keeps its place.
Prepare(p) ==
    /\ pc[p] = "prepare"
    /\ IF p \in sig /\ Interruptible(p)
       THEN Dequeue(p) /\ Goto(p, "last")
       ELSE /\ Goto(p, "retest")
            /\ IF Queued(p) THEN UNCHANGED <<shared, excl>>
               ELSE IF cmd[p] = "WQ_EX"
                    THEN excl' = Append(excl, p) /\ UNCHANGED shared
                    ELSE shared' = shared \cup {p} /\ UNCHANGED excl
    /\ UNCHANGED <<my_data, sig, cmd, late, drawn>>

\* A seeded fault: the condition is not tested again before sleeping.
Mut_StillEmpty == TRUE
StillEmpty == ~Available

Retest(p) ==
    /\ pc[p] = "retest"
    /\ \/ Available /\ Dequeue(p) /\ Goto(p, "take")
       \/ StillEmpty /\ Goto(p, "sleep") /\ UNCHANGED <<shared, excl>>
    /\ UNCHANGED <<my_data, sig, cmd, late, drawn>>

\* -ERESTARTSYS unless the condition came true meanwhile.
LastTest(p) ==
    /\ pc[p] = "last"
    /\ \/ Available /\ Goto(p, "take") /\ UNCHANGED <<sig, cmd>>
       \/ ~Available /\ Returns(p)
    /\ UNCHANGED <<my_data, shared, excl, late, drawn>>

Woken(p) ==
    /\ pc[p] = "sleep"
    /\ ~Queued(p) \/ (p \in sig /\ Interruptible(p))
    /\ Goto(p, "prepare")
    /\ UNCHANGED <<my_data, shared, excl, sig, cmd, late, drawn>>

\* The timeout makes the wait return 0, which the code takes for success.
TimesOut(p) ==
    /\ pc[p] = "sleep"
    /\ cmd[p] = "WQ_INTERRUPTIBLE_TIMEOUT"
    /\ late < MaxLate
    /\ late' = late + 1
    /\ Dequeue(p)
    /\ Goto(p, "take")
    /\ UNCHANGED <<my_data, sig, cmd, drawn>>

\* A seeded fault: the unit is taken twice.
Mut_Less == my_data - 2
Less == my_data - 1

\* my_data-- under the lock; the condition is not looked at again.
Take(p) ==
    /\ pc[p] = "take"
    /\ my_data' = Less
    /\ Returns(p)
    /\ UNCHANGED <<shared, excl, late, drawn>>

Signal(p) ==
    /\ pc[p] \in WaitPC
    /\ p \notin sig
    /\ sig' = sig \cup {p}
    /\ UNCHANGED <<my_data, shared, excl, pc, cmd, late, drawn>>

-----------------------------------------------------------------------------
(* The wake-up commands. *)

\* my_data + (long)arg, for whatever number the writer program has read; the
\* bounds keep the sum within a long.
IoctlWake(p, c, a) ==
    /\ pc[p] = "user"
    /\ my_data + a <= MaxData
    /\ my_data' = my_data + a
    /\ drawn' = IF a < 0 THEN drawn - a ELSE drawn
    /\ drawn' <= MaxDrawn
    /\ cmd' = [cmd EXCEPT ![p] = c]
    /\ Goto(p, "wake")
    /\ UNCHANGED <<shared, excl, sig, late>>

\* A seeded fault: wake_up skips the exclusive waiters.
Mut_StillExcl(c) == IF c = "WQ_WAKE_UP_ALL" THEN <<>> ELSE excl
\* Exclusive waiters left on the queue by wake_up and wake_up_all.
StillExcl(c) == IF c = "WQ_WAKE_UP_ALL" \/ excl = <<>> THEN <<>> ELSE Tail(excl)

Wake(p) ==
    /\ pc[p] = "wake"
    /\ shared' = {}
    /\ excl' = StillExcl(cmd[p])
    /\ Returns(p)
    /\ UNCHANGED <<my_data, late, drawn>>

-----------------------------------------------------------------------------
Run(p) ==
    \/ Test(p) \/ Prepare(p) \/ Retest(p) \/ LastTest(p) \/ Woken(p)
    \/ Take(p) \/ Wake(p)

Choose(p) ==
    \/ \E c \in Waits : IoctlWait(p, c)
    \/ \E c \in Wakes, a \in Amounts : IoctlWake(p, c, a)
    \/ Signal(p) \/ TimesOut(p)

Next == \E p \in Proc : Choose(p) \/ Run(p)

Spec == Init /\ [][Next]_vars

-----------------------------------------------------------------------------
(* Properties. *)

Passed == {p \in Proc : pc[p] = "take"}

\* What my_data would be had no writer passed a negative argument: the units
\* brought less the units consumed.
Balance == my_data + drawn

\* Nobody looks at my_data again between the wait and my_data--, so readers
\* can overdraw it; but with N processes never by more than N - 1 units and
\* one more for every wait that timed out, those that are on their way to take
\* a unit already counted in.  What writers took out themselves, with negative
\* arguments, is no reader's doing and is counted apart.
OverdraftBound == Balance - Cardinality(Passed) + late >= 1 - Cardinality(Proc)

\* No lost wakeup among ordinary waiters: while one sleeps with a unit
\* available, a writer stands before its wake_up.
NoLostWakeup ==
    \A p \in Proc :
        pc[p] = "sleep" /\ p \in shared /\ Available => \E w \in Proc : pc[w] = "wake"

\* Processes that will look at my_data again, take a unit or wake somebody.
Active == {p \in Proc : pc[p] # "user" /\ ~(pc[p] = "sleep" /\ Queued(p))}

\* With one unit per wake-up at most no waiter is stranded, not even an exclusive one,
\* of which wake_up releases only the first: while somebody sleeps on my_wq,
\* every unit available has a process under way that takes it or wakes a taker.
NobodyStranded ==
    (\E p \in Proc : pc[p] = "sleep" /\ Queued(p)) => my_data <= Cardinality(Active)

\* The reader program reports "success to consume" whenever its ioctl
\* returns: then readers never consume more units than writers have brought.
ConsumesWhatExists == Balance >= 0
=============================================================================
