------------------------------- MODULE Ch4Queue -------------------------------
(***************************************************************************)
(* lab5/ch4: the blocking message queue.  Any process with the device open *)
(* may call the read or the write ioctl; wait_event_interruptible is       *)
(* unfolded into the steps of the kernel macro (test, queue oneself, test  *)
(* again, sleep), since the lost-wakeup question lies between them.        *)
(* Heap nodes are tracked by address, so that a leak, a double kfree or a  *)
(* use after kfree is visible.                                             *)
(*                                                                         *)
(* The device is opened after insmod has returned: the node is made by     *)
(* hand with mknod once the major number is known.                         *)
(***************************************************************************)
EXTENDS Integers, Sequences, FiniteSets

CONSTANTS
    Proc,   \* processes using the device
    Node,   \* heap addresses kmalloc can return; finite, so it can run out
    Msg     \* message contents

None == "none"
ASSUME NoneAssumption == None \notin Proc \cup Node \cup Msg

VARIABLES
    loaded,  \* the module is in the kernel
    queue,   \* msg_list_head: addresses, first to leave first
    heap,    \* live struct msg_list
    bodies,  \* nodes whose ->msg buffer is live
    text,    \* text[n]: content of n's buffer
    my_lock, \* owner of the spinlock, or None
    my_wq,   \* processes on the wait queue
    sig,     \* processes with a signal pending
    pc,      \* pc[p]: where process p is
    node,    \* node[p]: first_node or new_node while p must free or link it
    temp,    \* temp[p]: temp_msg, the stack copy
    ret      \* ret[p]: result of p's last ioctl

heapVars == <<heap, bodies, text>>
procVars == <<node, temp, ret>>
vars == <<loaded, queue, heapVars, my_lock, my_wq, sig, pc, procVars>>

WaitPC == {"r_test", "r_prepare", "r_retest", "r_last", "r_sleep"}
ReadPC == WaitPC \cup {"r_lock", "r_recheck", "r_first", "r_del", "r_unlock", "r_copy"}
WritePC == {"w_alloc", "w_fill", "w_lock", "w_add", "w_unlock", "w_wake"}
CriticalPC == {"r_recheck", "r_first", "r_del", "r_unlock", "w_add", "w_unlock"}

Init ==
    /\ loaded = FALSE
    /\ queue = <<>>
    /\ heap = {} /\ bodies = {} /\ text = [n \in Node |-> None]
    /\ my_lock = None
    /\ my_wq = {}
    /\ sig = {}
    /\ pc = [p \in Proc |-> "closed"]
    /\ node = [p \in Proc |-> None]
    /\ temp = [p \in Proc |-> None]
    /\ ret = [p \in Proc |-> None]

Goto(p, there) == pc' = [pc EXCEPT ![p] = there]

\* The ioctl returns to user space; a signal is delivered there.
Returns(p, value) ==
    /\ Goto(p, "open")
    /\ ret' = [ret EXCEPT ![p] = value]
    /\ sig' = sig \ {p}

kfree(n) == heap' = heap \ {n} /\ bodies' = bodies \ {n}

-----------------------------------------------------------------------------
(* Module and file life cycle. *)

Insmod ==
    /\ ~loaded
    /\ loaded' = TRUE
    /\ queue' = <<>>
    /\ my_lock' = None
    /\ UNCHANGED <<heapVars, my_wq, sig, pc, procVars>>

Open(p) ==
    /\ loaded
    /\ pc[p] = "closed"
    /\ Goto(p, "open")
    /\ UNCHANGED <<loaded, queue, heapVars, my_lock, my_wq, sig, procVars>>

Close(p) ==
    /\ pc[p] = "open"
    /\ Goto(p, "closed")
    /\ ret' = [ret EXCEPT ![p] = None]
    /\ UNCHANGED <<loaded, queue, heapVars, my_lock, my_wq, sig, node, temp>>

\* What ch4_exit frees.
ExitFrees == {queue[i] : i \in 1 .. Len(queue)}

\* ch4_exit; .owner keeps rmmod waiting until every file is closed.
Exit ==
    /\ loaded
    /\ \A p \in Proc : pc[p] = "closed"
    /\ my_wq' = {}
    /\ heap' = heap \ ExitFrees
    /\ bodies' = bodies \ ExitFrees
    /\ queue' = <<>>
    /\ loaded' = FALSE
    /\ UNCHANGED <<text, my_lock, sig, pc, procVars>>

-----------------------------------------------------------------------------
(* ch4_ioctl: dispatch. *)

IoctlRead(p) ==
    /\ pc[p] = "open"
    /\ Goto(p, "r_test")
    /\ ret' = [ret EXCEPT ![p] = None]
    /\ UNCHANGED <<loaded, queue, heapVars, my_lock, my_wq, sig, node, temp>>

IoctlWrite(p) ==
    /\ pc[p] = "open"
    /\ Goto(p, "w_alloc")
    /\ ret' = [ret EXCEPT ![p] = None]
    /\ UNCHANGED <<loaded, queue, heapVars, my_lock, my_wq, sig, node, temp>>

IoctlOther(p) ==
    /\ pc[p] = "open"
    /\ Returns(p, "EINVAL")
    /\ UNCHANGED <<loaded, queue, heapVars, my_lock, my_wq, node, temp>>

-----------------------------------------------------------------------------
(* The spinlock. *)

LockFree == my_lock = None

SpinLock(p, from, there) ==
    /\ pc[p] = from
    /\ LockFree
    /\ my_lock' = p
    /\ Goto(p, there)
    /\ UNCHANGED <<loaded, queue, heapVars, my_wq, sig, procVars>>

ReadLock(p) == SpinLock(p, "r_lock", "r_recheck")
WriteLock(p) == SpinLock(p, "w_lock", "w_add")

-----------------------------------------------------------------------------
(* ch4_read: wait_event_interruptible(my_wq, !list_empty(...)). *)

WaitTest(p) ==
    /\ pc[p] = "r_test"
    /\ Goto(p, IF queue # <<>> THEN "r_lock" ELSE "r_prepare")
    /\ UNCHANGED <<loaded, queue, heapVars, my_lock, my_wq, sig, procVars>>

\* prepare_to_wait_event: on the queue before the condition is tested again;
\* with a signal pending, off the queue and for one last test.
WaitPrepare(p) ==
    /\ pc[p] = "r_prepare"
    /\ IF p \in sig THEN my_wq' = my_wq \ {p} /\ Goto(p, "r_last")
                   ELSE my_wq' = my_wq \cup {p} /\ Goto(p, "r_retest")
    /\ UNCHANGED <<loaded, queue, heapVars, my_lock, sig, procVars>>

WaitRetest(p) ==
    /\ pc[p] = "r_retest"
    /\ \/ queue # <<>> /\ my_wq' = my_wq \ {p} /\ Goto(p, "r_lock")
       \/ queue = <<>> /\ UNCHANGED my_wq /\ Goto(p, "r_sleep")
    /\ UNCHANGED <<loaded, queue, heapVars, my_lock, sig, procVars>>

WaitLast(p) ==
    /\ pc[p] = "r_last"
    /\ \/ queue # <<>> /\ Goto(p, "r_lock") /\ UNCHANGED <<ret, sig>>
       \/ queue = <<>> /\ Returns(p, "ERESTARTSYS")
    /\ UNCHANGED <<loaded, queue, heapVars, my_lock, my_wq, node, temp>>

\* schedule() comes back when a waker took p off the queue or a signal is due.
WaitWoken(p) ==
    /\ pc[p] = "r_sleep"
    /\ p \notin my_wq \/ p \in sig
    /\ Goto(p, "r_prepare")
    /\ UNCHANGED <<loaded, queue, heapVars, my_lock, my_wq, sig, procVars>>

Signal(p) ==
    /\ pc[p] \in WaitPC
    /\ p \notin sig
    /\ sig' = sig \cup {p}
    /\ UNCHANGED <<loaded, queue, heapVars, my_lock, my_wq, pc, procVars>>

-----------------------------------------------------------------------------
(* ch4_read: the message. *)

\* Looked at again under the lock: another reader may have been faster.
ReadRecheck(p) ==
    /\ pc[p] = "r_recheck"
    /\ \/ /\ queue # <<>>
          /\ Goto(p, "r_first")
          /\ UNCHANGED <<my_lock, ret, sig>>
       \/ /\ queue = <<>>
          /\ my_lock' = None
          /\ Returns(p, "EFAULT")
    /\ UNCHANGED <<loaded, queue, heapVars, my_wq, node, temp>>

ReadFirst(p) ==
    /\ pc[p] = "r_first"
    /\ queue # <<>>
    /\ node' = [node EXCEPT ![p] = Head(queue)]
    /\ temp' = [temp EXCEPT ![p] = text[Head(queue)]]
    /\ Goto(p, "r_del")
    /\ UNCHANGED <<loaded, queue, heapVars, my_lock, my_wq, sig, ret>>

\* list_del: the list without n, wherever n stands in it.
Unlink(n) ==
    LET k == CHOOSE i \in 1 .. Len(queue) : queue[i] = n
    IN  [i \in 1 .. Len(queue) - 1 |-> IF i < k THEN queue[i] ELSE queue[i + 1]]

ReadDel(p) ==
    /\ pc[p] = "r_del"
    /\ queue' = Unlink(node[p])
    /\ Goto(p, "r_unlock")
    /\ UNCHANGED <<loaded, heapVars, my_lock, my_wq, sig, procVars>>

ReadUnlock(p) ==
    /\ pc[p] = "r_unlock"
    /\ my_lock' = None
    /\ Goto(p, "r_copy")
    /\ UNCHANGED <<loaded, queue, heapVars, my_wq, sig, procVars>>

\* copy_to_user may fault; either way the node is freed and the message gone.
ReadCopy(p) ==
    /\ pc[p] = "r_copy"
    /\ \E r \in {"0", "EFAULT"} : Returns(p, r)
    /\ kfree(node[p])
    /\ node' = [node EXCEPT ![p] = None]
    /\ temp' = [temp EXCEPT ![p] = None]
    /\ UNCHANGED <<loaded, queue, text, my_lock, my_wq>>

-----------------------------------------------------------------------------
(* ch4_write. *)

\* Both kmallocs; when the second fails the first is given back.
WriteAlloc(p) ==
    /\ pc[p] = "w_alloc"
    /\ \/ /\ Returns(p, "ENOMEM")
          /\ UNCHANGED <<heap, bodies, node>>
       \/ \E n \in Node \ heap :
             /\ heap' = heap \cup {n}
             /\ bodies' = bodies \cup {n}
             /\ node' = [node EXCEPT ![p] = n]
             /\ Goto(p, "w_fill")
             /\ UNCHANGED <<ret, sig>>
    /\ UNCHANGED <<loaded, queue, text, my_lock, my_wq, temp>>

\* A seeded fault: the copy_from_user branch frees the node but not ->msg.
Mut_FillFailureFrees(n) == heap' = heap \ {n} /\ UNCHANGED bodies
FillFailureFrees(n) == kfree(n)

FillFailureReturns(p) == Returns(p, "EFAULT")

WriteFill(p) ==
    /\ pc[p] = "w_fill"
    /\ \/ /\ FillFailureFrees(node[p])
          /\ node' = [node EXCEPT ![p] = None]
          /\ FillFailureReturns(p)
          /\ UNCHANGED text
       \/ /\ \E m \in Msg : text' = [text EXCEPT ![node[p]] = m]
          /\ Goto(p, "w_lock")
          /\ UNCHANGED <<heap, bodies, node, ret, sig>>
    /\ UNCHANGED <<loaded, queue, my_lock, my_wq, temp>>

\* list_add_tail: from here on the node belongs to the list.
\* A seeded fault: list_add, at the front.
Mut_Link(n) == <<n>> \o queue
Link(n) == Append(queue, n)

WriteAdd(p) ==
    /\ pc[p] = "w_add"
    /\ queue' = Link(node[p])
    /\ node' = [node EXCEPT ![p] = None]
    /\ Goto(p, "w_unlock")
    /\ UNCHANGED <<loaded, heapVars, my_lock, my_wq, sig, temp, ret>>

WriteUnlock(p) ==
    /\ pc[p] = "w_unlock"
    /\ my_lock' = None
    /\ Goto(p, "w_wake")
    /\ UNCHANGED <<loaded, queue, heapVars, my_wq, sig, procVars>>

\* wake_up_interruptible: the waiters are not exclusive, so all of them.
\* A seeded fault: the queue is woken only for the first message.
Mut_Woken == IF Len(queue) = 1 THEN my_wq ELSE {}
Woken == my_wq

WriteWake(p) ==
    /\ pc[p] = "w_wake"
    /\ my_wq' = my_wq \ Woken
    /\ Returns(p, "0")
    /\ UNCHANGED <<loaded, queue, heapVars, my_lock, node, temp>>

-----------------------------------------------------------------------------
Lock(p) == ReadLock(p) \/ WriteLock(p)

Run(p) ==
    \/ WaitTest(p) \/ WaitPrepare(p) \/ WaitRetest(p) \/ WaitLast(p) \/ WaitWoken(p)
    \/ ReadRecheck(p) \/ ReadFirst(p) \/ ReadDel(p) \/ ReadUnlock(p) \/ ReadCopy(p)
    \/ WriteAlloc(p) \/ WriteFill(p) \/ WriteAdd(p) \/ WriteUnlock(p) \/ WriteWake(p)

Choose(p) ==
    \/ Open(p) \/ Close(p) \/ Signal(p)
    \/ IoctlRead(p) \/ IoctlWrite(p) \/ IoctlOther(p)

Next == Insmod \/ Exit \/ \E p \in Proc : Choose(p) \/ Lock(p) \/ Run(p)

Spec == Init /\ [][Next]_vars

\* Processes inside the driver are scheduled; the queued spinlock serves its
\* waiters in turn.
FairSpec == Spec /\ \A p \in Proc : WF_vars(Run(p)) /\ SF_vars(Lock(p))

-----------------------------------------------------------------------------
(* Properties. *)

Linked == {queue[i] : i \in 1 .. Len(queue)}
Owned == {node[p] : p \in Proc} \ {None}

\* No leak, no double kfree and no use after kfree on any path of ch4_read,
\* ch4_write and ch4_exit: a live node is on the list or in the hands of one
\* process, never of two, its buffer lives exactly as long as it does, and
\* nothing that was freed is still reachable.
HeapExact ==
    /\ heap = Linked \cup Owned
    /\ bodies = heap
    /\ \A p, q \in Proc : p # q /\ node[p] # None => node[p] # node[q]
    /\ \A p \in Proc : node[p] \in Linked => pc[p] = "r_del"
    /\ \A i, j \in 1 .. Len(queue) : i # j => queue[i] # queue[j]
    /\ ~loaded => heap = {}

\* No lost wakeup: while a reader sleeps on my_wq and the list is not empty,
\* some writer stands between its list_add_tail and its wake_up.
NoLostWakeup ==
    \A p \in Proc :
        pc[p] = "r_sleep" /\ p \in my_wq /\ queue # <<>> =>
            \E w \in Proc : pc[w] \in {"w_unlock", "w_wake"}

\* The comment on ch4_read's wait says that a read blocks until a message
\* comes: it leaves ch4_read without one only when a signal broke the wait.
BlocksUntilMessage ==
    [][\A p \in Proc :
          pc[p] \in ReadPC \ {"r_copy"} /\ pc'[p] = "open" => p \in sig]_vars

-----------------------------------------------------------------------------
(* The driver implements the FIFO of MessageFifo. *)

fifoBar == [i \in 1 .. Len(queue) |-> text[queue[i]]]
handBar == [p \in Proc |->
              IF pc[p] \in {"r_unlock", "r_copy"} THEN temp[p] ELSE None]

Fifo == INSTANCE MessageFifo WITH
          Nothing <- None, fifo <- fifoBar, hand <- handBar

\* Whatever readers and writers do concurrently, messages leave in the order
\* they were added, with the content they were written with, each to one
\* reader.
ImplementsFifo == Fifo!FifoSpec
=============================================================================
