---------------------------- MODULE SpinInterrupt ----------------------------
(***************************************************************************)
(* lab8/ex3, spin_interrupt.c: an interrupt handler and release() share a  *)
(* list under a spinlock.  A process runs on the CPU of its name, and the  *)
(* handler runs on any CPU whose interrupts are on, on top of what that    *)
(* CPU was doing.  Opening the device enables the line and closing it      *)
(* disables it, through the nesting counter of the interrupt controller.   *)
(*                                                                         *)
(* kmalloc(GFP_ATOMIC) is not looked at: using NULL inside an interrupt is *)
(* a panic.  The device number is dynamic, so the node a process opens is  *)
(* taken to exist only once init has returned, and rmmod to come when no   *)
(* file is open (the operations have no .owner that would say so).         *)
(***************************************************************************)
EXTENDS Integers, Sequences, FiniteSets

CONSTANTS
    Proc,   \* processes opening the device, one per CPU
    Node    \* heap addresses: also the bound on recorded detections

None == "none"
Idle == "idle"     \* the CPU on which no such process runs
Interrupt == "isr"

VARIABLES
    life,      \* "out", "request", "hush", "hushing", "in", "drain", "panic"
    handler,   \* request_irq succeeded
    depth,     \* how often the line is disabled
    spinlock,  \* its owner: a process, Interrupt or None
    list,      \* time_list_head: addresses, oldest first
    heap,      \* allocated struct time_list
    pc,        \* where a process is
    isr,       \* where the handler is, on which CPU, with which node
    overlap    \* two files have been open at once since insmod

irqVars == <<handler, depth>>
vars == <<life, irqVars, spinlock, list, heap, pc, isr, overlap>>

Asleep == [at |-> "asleep", cpu |-> None, node |-> None]

Init ==
    /\ life = "out" /\ handler = FALSE /\ depth = 1
    /\ spinlock = None /\ list = <<>> /\ heap = {}
    /\ pc = [p \in Proc |-> "closed"]
    /\ isr = Asleep
    /\ overlap = FALSE

Linked == {list[i] : i \in 1 .. Len(list)}
Opened == {p \in Proc : pc[p] # "closed"}
Goto(p, there) == pc' = [pc EXCEPT ![p] = there]

-----------------------------------------------------------------------------
(* spin_interrupt_init and spin_interrupt_exit. *)

Insmod ==
    /\ life = "out"
    /\ life' = "request"
    /\ list' = <<>> /\ spinlock' = None /\ overlap' = FALSE
    /\ UNCHANGED <<irqVars, heap, pc, isr>>

\* request_irq starts the line; when it fails the module stays loaded, deaf.
Request ==
    /\ life = "request"
    /\ \/ life' = "hush" /\ handler' = TRUE /\ depth' = 0
       \/ life' = "in" /\ UNCHANGED irqVars
    /\ UNCHANGED <<spinlock, list, heap, pc, isr, overlap>>

\* disable_irq: count, then wait for a handler in flight.
Hush ==
    /\ \/ life = "hush" /\ depth' = depth + 1 /\ life' = "hushing"
       \/ life = "hushing" /\ isr = Asleep /\ life' = "in" /\ UNCHANGED depth
    /\ UNCHANGED <<handler, spinlock, list, heap, pc, isr, overlap>>

\* free_irq: shut the line down, then wait for a handler in flight.
FreeIrq ==
    /\ life = "in" /\ Opened = {}
    /\ life' = "drain"
    /\ handler' = FALSE /\ depth' = (IF handler THEN 1 ELSE depth)
    /\ UNCHANGED <<spinlock, list, heap, pc, isr, overlap>>

\* The list is freed without the lock: nobody is left to take it.
FreeList ==
    /\ life = "drain" /\ isr = Asleep
    /\ life' = "out"
    /\ heap' = heap \ Linked /\ list' = <<>>
    /\ UNCHANGED <<irqVars, spinlock, pc, isr, overlap>>

-----------------------------------------------------------------------------
(* spin_interrupt_open and spin_interrupt_release. *)

\* A process under an interrupt does not move.
Runs(p) == life = "in" /\ isr.cpu # p

\* enable_irq: an enable too many is a warning and changes nothing.
Open(p) ==
    /\ Runs(p) /\ pc[p] = "closed"
    /\ depth' = (IF depth > 0 THEN depth - 1 ELSE 0)
    /\ overlap' = (overlap \/ Opened # {})
    /\ Goto(p, "open")
    /\ UNCHANGED <<life, handler, spinlock, list, heap, isr>>

\* list_empty, without the lock.
Release(p) ==
    /\ Runs(p) /\ pc[p] = "open"
    /\ Goto(p, IF list = <<>> THEN "disable" ELSE "lock")
    /\ UNCHANGED <<life, irqVars, spinlock, list, heap, isr, overlap>>

ReleaseLock(p) ==
    /\ Runs(p) /\ pc[p] = "lock" /\ spinlock = None
    /\ spinlock' = p
    /\ Goto(p, "walk")
    /\ UNCHANGED <<life, irqVars, list, heap, isr, overlap>>

ReleaseUnlock(p) ==
    /\ Runs(p) /\ pc[p] = "walk"
    /\ spinlock' = None
    /\ Goto(p, "disable")
    /\ UNCHANGED <<life, irqVars, list, heap, isr, overlap>>

\* disable_irq.  A seeded fault: disable_irq is left out when nothing was
\* detected.
Mut_Disabled == IF list = <<>> THEN depth ELSE depth + 1
Disabled == depth + 1

ReleaseDisable(p) ==
    /\ Runs(p)
    /\ \/ pc[p] = "disable" /\ depth' = Disabled /\ Goto(p, "sync")
       \/ pc[p] = "sync" /\ isr = Asleep /\ Goto(p, "closed") /\ UNCHANGED depth
    /\ UNCHANGED <<life, handler, spinlock, list, heap, isr, overlap>>

-----------------------------------------------------------------------------
(* spin_interrupt_isr. *)

\* spin_lock_irqsave turns the interrupts of its CPU off before it spins.
\* A seeded fault: spin_lock.
Mut_IrqsOff == {}
IrqsOff == {p \in Proc : pc[p] \in {"lock", "walk"}}

\* kmalloc, or the panic that comes of its failure.
Detect ==
    /\ handler /\ depth = 0 /\ isr = Asleep /\ life # "panic"
    /\ \E cpu \in (Proc \cup {Idle}) \ IrqsOff, n \in Node \ heap :
          \/ /\ isr' = [at |-> "lock", cpu |-> cpu, node |-> n]
             /\ heap' = heap \cup {n}
             /\ UNCHANGED life
          \/ life' = "panic" /\ UNCHANGED <<isr, heap>>
    /\ UNCHANGED <<irqVars, spinlock, list, pc, overlap>>

\* A seeded fault: the handler does not take the lock.
Mut_IsrMayLink == TRUE
IsrMayLink == spinlock = None

\* spin_lock_irqsave; list_add_tail begins to change the links.
IsrLock ==
    /\ isr.at = "lock" /\ IsrMayLink
    /\ spinlock' = Interrupt
    /\ isr' = [isr EXCEPT !.at = "link"]
    /\ UNCHANGED <<life, irqVars, list, heap, pc, overlap>>

IsrLink ==
    /\ isr.at = "link"
    /\ list' = Append(list, isr.node)
    /\ spinlock' = None
    /\ isr' = Asleep
    /\ UNCHANGED <<life, irqVars, heap, pc, overlap>>

-----------------------------------------------------------------------------
Next ==
    \/ Insmod \/ Request \/ Hush \/ FreeIrq \/ FreeList
    \/ Detect \/ IsrLock \/ IsrLink
    \/ \E p \in Proc :
          Open(p) \/ Release(p) \/ ReleaseLock(p) \/ ReleaseUnlock(p) \/ ReleaseDisable(p)

Spec == Init /\ [][Next]_vars

-----------------------------------------------------------------------------
(* Properties. *)

\* spin_interrupt_isr never spins for a lock whose owner it has interrupted
\* on the same CPU, where nothing could ever release it.
NoSelfDeadlock == isr.at = "lock" => spinlock # isr.cpu

\* The line listens only for an open file.  Files that were never open at the
\* same time are all heard; after two were, enable_irq has been wasted and a
\* later file may be open and deaf, but never the other way round.
ListensExactlyWhileOpen ==
    life = "in" /\ handler =>
      /\ depth = 0 => Opened # {}
      /\ ~overlap => depth = 1 - Cardinality({p \in Opened : pc[p] # "sync"})

\* The list of spin_interrupt.c: nobody walks it while the handler links, a
\* node is allocated exactly while it is listed or in the handler's hands, and
\* spin_interrupt_exit leaves none behind.
ListExact ==
    /\ isr.at = "link" => \A p \in Proc : pc[p] # "walk"
    /\ heap = Linked \cup ({isr.node} \ {None})
    /\ isr.node \notin Linked
    /\ life = "out" => heap = {} /\ isr = Asleep
=============================================================================
