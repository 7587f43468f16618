------------------------------- MODULE Ch3Queue -------------------------------
(***************************************************************************)
(* lab4/ch3, ch3_mod_202111360.c: the message queue without blocking.      *)
(* Neither kmalloc is looked at; using a NULL result is a kernel oops that *)
(* kills the writer where it stands, which is before it takes the lock.    *)
(* A copy_from_user that fails is not looked at either: the message is     *)
(* linked with whatever was copied (Garbled).                              *)
(*                                                                         *)
(* The operations have no .owner: rmmod is taken to come when no process   *)
(* is inside an ioctl, and no ioctl to come after it.                      *)
(***************************************************************************)
EXTENDS Integers, Sequences, FiniteSets

CONSTANTS
    Proc,   \* processes using the device
    Node,   \* heap addresses
    Msg     \* what writers write

None == "none"
Garbled == "garbled"

VARIABLES
    loaded,   \* ch3_init has run
    queue,    \* msg_list_head: addresses, oldest first
    heap,     \* allocated struct msg_list, each with its ->msg
    text,     \* text[n]: content of n's message
    my_lock,  \* owner of the spinlock, or None
    pc,       \* where a process is; "dead" after an oops
    node,     \* first_node or new_node
    temp      \* temp_msg

vars == <<loaded, queue, heap, text, my_lock, pc, node, temp>>

Init ==
    /\ loaded = FALSE
    /\ queue = <<>> /\ heap = {} /\ text = [n \in Node |-> None]
    /\ my_lock = None
    /\ pc = [p \in Proc |-> "user"]
    /\ node = [p \in Proc |-> None]
    /\ temp = [p \in Proc |-> None]

Goto(p, there) == pc' = [pc EXCEPT ![p] = there]
Outside == \A p \in Proc : pc[p] \in {"user", "dead"}
Linked == {queue[i] : i \in 1 .. Len(queue)}

\* ch3_init.
Insmod ==
    /\ ~loaded
    /\ loaded' = TRUE
    /\ queue' = <<>> /\ my_lock' = None
    /\ UNCHANGED <<heap, text, pc, node, temp>>

\* ch3_exit frees what is on the list.
Exit ==
    /\ loaded /\ Outside
    /\ loaded' = FALSE
    /\ heap' = heap \ Linked
    /\ queue' = <<>>
    /\ UNCHANGED <<text, my_lock, pc, node, temp>>

\* ch3_ioctl: dispatch.
Ioctl(p) ==
    /\ loaded /\ pc[p] = "user"
    /\ \E there \in {"r_lock", "w_alloc"} : Goto(p, there)
    /\ UNCHANGED <<loaded, queue, heap, text, my_lock, node, temp>>

\* spin_lock of ch3_read and of ch3_write.
\* A seeded fault: the reader looks at the list without it.
Mut_SpinLock(p) ==
    /\ \/ pc[p] = "r_lock" /\ Goto(p, "r_first") /\ UNCHANGED my_lock
       \/ pc[p] = "w_lock" /\ my_lock = None /\ my_lock' = p /\ Goto(p, "w_add")
    /\ UNCHANGED <<loaded, queue, heap, text, node, temp>>
SpinLock(p) ==
    /\ my_lock = None
    /\ my_lock' = p
    /\ \/ pc[p] = "r_lock" /\ Goto(p, "r_first")
       \/ pc[p] = "w_lock" /\ Goto(p, "w_add")
    /\ UNCHANGED <<loaded, queue, heap, text, node, temp>>

-----------------------------------------------------------------------------
(* ch3_read. *)

\* An empty list: unlock and hand out "0".
ReadEmpty(p) ==
    /\ pc[p] = "r_first" /\ queue = <<>>
    /\ my_lock' = None
    /\ Goto(p, "user")
    /\ UNCHANGED <<loaded, queue, heap, text, node, temp>>

ReadFirst(p) ==
    /\ pc[p] = "r_first" /\ queue # <<>>
    /\ node' = [node EXCEPT ![p] = Head(queue)]
    /\ temp' = [temp EXCEPT ![p] = text[Head(queue)]]
    /\ Goto(p, "r_del")
    /\ UNCHANGED <<loaded, queue, heap, text, my_lock>>

\* list_del: the list without n, wherever n stands in it.
Unlink(n) ==
    LET k == CHOOSE i \in 1 .. Len(queue) : queue[i] = n
    IN  [i \in 1 .. Len(queue) - 1 |-> IF i < k THEN queue[i] ELSE queue[i + 1]]

\* list_del, unlock.
ReadDel(p) ==
    /\ pc[p] = "r_del"
    /\ queue' = Unlink(node[p])
    /\ my_lock' = None
    /\ Goto(p, "r_copy")
    /\ UNCHANGED <<loaded, heap, text, node, temp>>

\* copy_to_user (its result does not leave ch3_ioctl), then both kfrees.
ReadCopy(p) ==
    /\ pc[p] = "r_copy"
    /\ heap' = heap \ {node[p]}
    /\ node' = [node EXCEPT ![p] = None]
    /\ temp' = [temp EXCEPT ![p] = None]
    /\ Goto(p, "user")
    /\ UNCHANGED <<loaded, queue, text, my_lock>>

-----------------------------------------------------------------------------
(* ch3_write. *)

\* Both kmallocs.  The first or the second result is NULL and the writer dies
\* using it, in the second case with the node in its hands.
WriteAlloc(p) ==
    /\ pc[p] = "w_alloc"
    /\ \/ Goto(p, "dead") /\ UNCHANGED <<heap, node>>
       \/ \E n \in Node \ heap, there \in {"w_fill", "dead"} :
             /\ heap' = heap \cup {n}
             /\ node' = [node EXCEPT ![p] = n]
             /\ Goto(p, there)
    /\ UNCHANGED <<loaded, queue, text, my_lock, temp>>

WriteFill(p) ==
    /\ pc[p] = "w_fill"
    /\ \E m \in Msg \cup {Garbled} : text' = [text EXCEPT ![node[p]] = m]
    /\ Goto(p, "w_lock")
    /\ UNCHANGED <<loaded, queue, heap, my_lock, node, temp>>

\* list_add_tail.  A seeded fault: list_add.
Mut_Link(n) == <<n>> \o queue
Link(n) == Append(queue, n)

WriteAdd(p) ==
    /\ pc[p] = "w_add"
    /\ queue' = Link(node[p])
    /\ node' = [node EXCEPT ![p] = None]
    /\ my_lock' = None
    /\ Goto(p, "user")
    /\ UNCHANGED <<loaded, heap, text, temp>>

-----------------------------------------------------------------------------
Run(p) ==
    \/ SpinLock(p)
    \/ ReadEmpty(p) \/ ReadFirst(p) \/ ReadDel(p) \/ ReadCopy(p)
    \/ WriteAlloc(p) \/ WriteFill(p) \/ WriteAdd(p)

Next == Insmod \/ Exit \/ \E p \in Proc : Ioctl(p) \/ Run(p)

Spec == Init /\ [][Next]_vars

-----------------------------------------------------------------------------
(* Properties. *)

Owned == {node[p] : p \in Proc} \ {None}

\* The memory of ch3_read, ch3_write and ch3_exit: a live node is on the list
\* or in the hands of exactly one process, so it is freed once and used only
\* before; after ch3_exit the only nodes left are those of writers that died
\* on an allocation nobody looked at.
HeapExact ==
    /\ heap = Linked \cup Owned
    /\ \A p, q \in Proc : p # q /\ node[p] # None => node[p] # node[q]
    /\ \A p \in Proc : node[p] \in Linked => pc[p] = "r_del"
    /\ \A i, j \in 1 .. Len(queue) : i # j => queue[i] # queue[j]
    /\ ~loaded => \A n \in heap : \E p \in Proc : pc[p] = "dead" /\ node[p] = n

fifoBar == [i \in 1 .. Len(queue) |-> text[queue[i]]]
handBar == [p \in Proc |-> IF pc[p] = "r_copy" THEN temp[p] ELSE None]

Fifo == INSTANCE MessageFifo WITH
          Msg <- Msg \cup {Garbled}, Nothing <- None, fifo <- fifoBar, hand <- handBar

\* Concurrent ch3_read and ch3_write calls hand messages out in the order they
\* were linked, each to one reader, whoever dies in between; what a failed
\* copy_from_user left behind counts as a message.
ImplementsFifo == Fifo!FifoSpec
=============================================================================
