----------------------------- MODULE DeferredWork -----------------------------
(***************************************************************************)
(* lab11: simple_tasklet.c and simple_workqueue.c, where a switch          *)
(* interrupt hands work to a softirq or to a worker, and simple_kthread.c, *)
(* where a kernel thread loops until it is told to stop.  One of the three *)
(* modules is loaded at a time.  Interrupts, deferred work, the thread and *)
(* rmmod interleave.                                                       *)
(*                                                                         *)
(* A failure the code does not look at ends in life = "oops": the insmod   *)
(* or rmmod process is killed and the module stays where it is.            *)
(***************************************************************************)
EXTENDS Integers, FiniteSets

CONSTANTS
    Item,      \* heap addresses for work items
    MaxPress   \* bound: presses of the switch per load

Tasklet == "my_tasklet"

VARIABLES
    mod,      \* the module loaded last: "tasklet", "workqueue", "kthread"
    life,     \* "out", "in", "oops", or the exit call it is at
    irq,      \* the handler is registered
    isr,      \* a handler is running
    wq,       \* my_wq is not NULL
    pending,  \* scheduled or queued, not begun
    running,  \* being executed
    heap,     \* allocated work items
    thread,   \* "none", "new", "check", "sleep"
    stop,     \* kthread_stop was called
    presses,  \* presses since insmod
    late      \* the tasklet was scheduled after tasklet_kill

irqVars == <<irq, isr, presses>>
workVars == <<wq, pending, running, heap, late>>
threadVars == <<thread, stop>>
vars == <<mod, life, irqVars, workVars, threadVars>>

Init ==
    /\ mod = "none" /\ life = "out"
    /\ irq = FALSE /\ isr = FALSE /\ presses = 0
    /\ wq = FALSE /\ pending = {} /\ running = {} /\ heap = {} /\ late = FALSE
    /\ thread = "none" /\ stop = FALSE

Free(m) == life = "out" /\ ~late /\ mod' = m

-----------------------------------------------------------------------------
(* Loading.  A failed request_irq leaves the module loaded and deaf. *)

InsmodTasklet ==
    /\ Free("tasklet")
    /\ irq' \in BOOLEAN
    /\ life' = "in" /\ presses' = 0
    /\ UNCHANGED <<isr, workVars, threadVars>>

\* Nor is create_workqueue looked at.
InsmodWorkqueue ==
    /\ Free("workqueue")
    /\ irq' \in BOOLEAN /\ wq' \in BOOLEAN
    /\ life' = "in" /\ presses' = 0
    /\ UNCHANGED <<isr, pending, running, heap, late, threadVars>>

\* kthread_create, or wake_up_process(NULL) after its failure.
InsmodKthread ==
    /\ Free("kthread")
    /\ \/ life' = "in" /\ thread' = "new"
       \/ life' = "oops" /\ UNCHANGED thread
    /\ stop' = FALSE
    /\ UNCHANGED <<irqVars, workVars>>

-----------------------------------------------------------------------------
(* The interrupt and what it defers. *)

Press ==
    /\ irq /\ ~isr /\ presses < MaxPress
    /\ isr' = TRUE /\ presses' = presses + 1
    /\ UNCHANGED <<mod, life, irq, workVars, threadVars>>

\* simple_tasklet_isr.
TaskletIsr ==
    /\ isr /\ mod = "tasklet"
    /\ isr' = FALSE
    /\ pending' = pending \cup {Tasklet}
    /\ late' = (late \/ life \in {"free_irq", "synchronize"})
    /\ UNCHANGED <<mod, life, irq, presses, wq, running, heap, threadVars>>

\* simple_workqueue_isr: nothing without a workqueue or without memory.
WorkqueueIsr ==
    /\ isr /\ mod = "workqueue"
    /\ isr' = FALSE
    /\ \/ \E i \in Item \ heap :
             wq /\ heap' = heap \cup {i} /\ pending' = pending \cup {i}
       \/ UNCHANGED <<heap, pending>>
    /\ UNCHANGED <<mod, life, irq, presses, wq, running, late, threadVars>>

\* The softirq or a worker begins; a tasklet does not run twice at once.
Begin(i) ==
    /\ i \in pending \ running /\ life # "out"
    /\ pending' = pending \ {i}
    /\ running' = running \cup {i}
    /\ UNCHANGED <<mod, life, irqVars, wq, heap, late, threadVars>>

\* simple_tasklet_func returns.
TaskletFunc ==
    /\ Tasklet \in running
    /\ running' = running \ {Tasklet}
    /\ UNCHANGED <<mod, life, irqVars, wq, pending, heap, late, threadVars>>

\* my_work_func: after its sleep the item is freed.
MyWorkFunc(i) ==
    /\ i \in running
    /\ running' = running \ {i}
    /\ heap' = heap \ {i}
    /\ UNCHANGED <<mod, life, irqVars, wq, pending, late, threadVars>>

\* kthread_should_stop.  A seeded fault: while (1).
Mut_ShouldStop == FALSE
ShouldStop == stop

\* simple_kthread_func; a thread stopped before its first turn never enters it.
KthreadFunc ==
    /\ \/ thread \in {"new", "check"} /\ thread' = (IF ShouldStop THEN "none" ELSE "sleep")
       \/ thread = "sleep" /\ thread' = "check"
    /\ UNCHANGED <<mod, life, irqVars, workVars, stop>>

-----------------------------------------------------------------------------
(* Unloading. *)

FirstCall ==
    [tasklet |-> "tasklet_kill", workqueue |-> "free_irq", kthread |-> "kthread_stop"]

Rmmod ==
    /\ life = "in"
    /\ life' = FirstCall[mod]
    /\ UNCHANGED <<mod, irqVars, workVars, threadVars>>

\* tasklet_kill waits for a tasklet that is scheduled or running.
TaskletKill ==
    /\ life = "tasklet_kill" /\ Tasklet \notin pending \cup running
    /\ life' = "free_irq"
    /\ UNCHANGED <<mod, irqVars, workVars, threadVars>>

\* free_irq: no new handler, then wait for one in flight.
FreeIrq ==
    /\ \/ life = "free_irq" /\ irq' = FALSE /\ life' = "synchronize"
       \/ /\ life = "synchronize" /\ ~isr
          /\ life' = (IF mod = "workqueue" THEN "flush" ELSE "out")
          /\ UNCHANGED irq
    /\ UNCHANGED <<mod, isr, presses, workVars, threadVars>>

\* flush_workqueue and destroy_workqueue wait for every item.
\* A seeded fault: neither is called.
Mut_Flushed == TRUE
Flushed == pending \cup running = {}

Flush ==
    /\ life = "flush"
    /\ \/ ~wq /\ life' = "oops" /\ UNCHANGED wq
       \/ wq /\ Flushed /\ life' = "out" /\ wq' = FALSE
    /\ UNCHANGED <<mod, irqVars, pending, running, heap, late, threadVars>>

\* kthread_stop: tell the thread, wait until it is gone.
KthreadStop ==
    /\ life = "kthread_stop"
    /\ \/ ~stop /\ stop' = TRUE /\ UNCHANGED life
       \/ stop /\ thread = "none" /\ life' = "out" /\ UNCHANGED stop
    /\ UNCHANGED <<mod, irqVars, workVars, thread>>

-----------------------------------------------------------------------------
Insmod == InsmodTasklet \/ InsmodWorkqueue \/ InsmodKthread
Isr == TaskletIsr \/ WorkqueueIsr
Deferred ==
    \/ \E i \in Item \cup {Tasklet} : Begin(i)
    \/ TaskletFunc
    \/ \E i \in Item : MyWorkFunc(i)
ExitCall == TaskletKill \/ FreeIrq \/ Flush \/ KthreadStop

Next == Insmod \/ Press \/ Isr \/ Deferred \/ KthreadFunc \/ Rmmod \/ ExitCall

Spec == Init /\ [][Next]_vars

-----------------------------------------------------------------------------
(* Properties. *)

\* After the exit functions of lab11 no handler, deferred work, work item or
\* thread of the module is left, unless an interrupt came between tasklet_kill
\* and free_irq and scheduled the tasklet once more.
NothingSurvivesExit ==
    life = "out" =>
      /\ ~irq /\ ~isr /\ heap = {} /\ thread = "none"
      /\ pending \cup running # {} => late

\* rmmod comes back: every wait of the exit functions (for a handler, for the
\* tasklet, for the queue, for the thread) ends, in an oops at worst.
RmmodReturns == life \notin {"out", "in", "oops"} ~> life \in {"out", "oops"}
=============================================================================
