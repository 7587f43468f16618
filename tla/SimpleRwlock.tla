----------------------------- MODULE SimpleRwlock -----------------------------
(***************************************************************************)
(* lab9/ex1, simple_rwlock.c: the same published word as simple_rcu.c,     *)
(* under a reader-writer lock.  Any process may read or write.  rmmod does *)
(* not wait for calls in progress (the operations have no .owner), so      *)
(* simple_rwlock_exit takes its steps among theirs; the module's code goes *)
(* away once the last of them has returned (Gone), since nothing is        *)
(* defined for a call that outlives it.                                    *)
(*                                                                         *)
(* kmalloc of one word is taken to succeed (the code does not look).       *)
(***************************************************************************)
EXTENDS Integers, FiniteSets

CONSTANTS
    Proc,   \* processes calling the ioctl
    Addr,   \* heap addresses
    Value   \* what is written

NULL == "null"

VARIABLES
    life,     \* "out", "in"; "lock", "free", "unlock", "leave": in exit
    my_data,  \* the published pointer
    live,     \* allocated addresses
    val,      \* val[a]: the word at a
    readers,  \* who holds my_lock for reading
    writer,   \* who holds it for writing, or NULL
    pc, ptr,  \* per process: position; old
    saw,      \* per process: the value printed first
    late      \* a write published a word after exit had freed the last one

lockVars == <<readers, writer>>
heapVars == <<my_data, live, val>>
procVars == <<pc, ptr, saw>>
vars == <<life, heapVars, lockVars, procVars, late>>

rmmod == "rmmod"

Init ==
    /\ life = "out"
    /\ my_data = NULL /\ live = {} /\ val = [a \in Addr |-> NULL]
    /\ readers = {} /\ writer = NULL
    /\ pc = [p \in Proc |-> "user"]
    /\ ptr = [p \in Proc |-> NULL]
    /\ saw = [p \in Proc |-> NULL]
    /\ late = FALSE

Goto(p, there) == pc' = [pc EXCEPT ![p] = there]

\* simple_rwlock_init: a first word, any value here.
Insmod ==
    /\ life = "out" /\ live = {}
    /\ life' = "in"
    /\ \E a \in Addr, v \in Value :
          my_data' = a /\ live' = {a} /\ val' = [val EXCEPT ![a] = v]
    /\ UNCHANGED <<lockVars, procVars, late>>

\* simple_ioctl: a call with either command.
Ioctl(p) ==
    /\ life = "in" /\ pc[p] = "user"
    /\ \E there \in {"r_lock", "w_lock"} : Goto(p, there)
    /\ UNCHANGED <<life, heapVars, lockVars, ptr, saw, late>>

-----------------------------------------------------------------------------
(* IOCTL_READ. *)

ReadLock(p) ==
    /\ pc[p] = "r_lock" /\ writer = NULL
    /\ readers' = readers \cup {p}
    /\ Goto(p, "r_first")
    /\ UNCHANGED <<life, heapVars, writer, ptr, saw, late>>

\* old = my_data and the first load, or the NULL branch.
ReadFirst(p) ==
    /\ pc[p] = "r_first"
    /\ \/ /\ my_data # NULL
          /\ ptr' = [ptr EXCEPT ![p] = my_data]
          /\ saw' = [saw EXCEPT ![p] = val[my_data]]
          /\ Goto(p, "r_again")
       \/ my_data = NULL /\ Goto(p, "r_unlock") /\ UNCHANGED <<ptr, saw>>
    /\ UNCHANGED <<life, heapVars, lockVars, late>>

\* After mdelay(500): the same word is loaded again.
ReadAgain(p) ==
    /\ pc[p] = "r_again"
    /\ saw' = [saw EXCEPT ![p] = val[ptr[p]]]
    /\ Goto(p, "r_unlock")
    /\ UNCHANGED <<life, heapVars, lockVars, ptr, late>>

ReadUnlock(p) ==
    /\ pc[p] = "r_unlock"
    /\ readers' = readers \ {p}
    /\ ptr' = [ptr EXCEPT ![p] = NULL]
    /\ saw' = [saw EXCEPT ![p] = NULL]
    /\ Goto(p, "user")
    /\ UNCHANGED <<life, heapVars, writer, late>>

-----------------------------------------------------------------------------
(* IOCTL_WRITE. *)

\* write_lock excludes everybody.  A seeded fault: it ignores readers, as
\* read_lock in its place would.
Mut_Exclusive == writer = NULL
Exclusive == readers = {} /\ writer = NULL

WriteLock(p) ==
    /\ pc[p] = "w_lock" /\ Exclusive
    /\ writer' = p
    /\ Goto(p, "w_swap")
    /\ UNCHANGED <<life, heapVars, readers, ptr, saw, late>>

\* kmalloc, *new = arg, old = my_data, my_data = new.
WriteSwap(p) ==
    /\ pc[p] = "w_swap"
    /\ \E a \in Addr \ live, v \in Value :
          my_data' = a /\ live' = live \cup {a} /\ val' = [val EXCEPT ![a] = v]
    /\ ptr' = [ptr EXCEPT ![p] = my_data]
    /\ late' = (late \/ life \in {"unlock", "leave"})
    /\ Goto(p, "w_free")
    /\ UNCHANGED <<life, lockVars, saw>>

\* kfree(old), unlock.
WriteFree(p) ==
    /\ pc[p] = "w_free"
    /\ live' = live \ {ptr[p]}
    /\ ptr' = [ptr EXCEPT ![p] = NULL]
    /\ writer' = NULL
    /\ Goto(p, "user")
    /\ UNCHANGED <<life, my_data, val, readers, saw, late>>

-----------------------------------------------------------------------------
(* simple_rwlock_exit. *)

Rmmod ==
    /\ life = "in"
    /\ life' = "lock"
    /\ UNCHANGED <<heapVars, lockVars, procVars, late>>

ExitLock ==
    /\ life = "lock" /\ Exclusive
    /\ writer' = rmmod
    /\ life' = "free"
    /\ UNCHANGED <<heapVars, readers, procVars, late>>

ExitFree ==
    /\ life = "free"
    /\ live' = live \ {my_data}
    /\ my_data' = NULL
    /\ life' = "unlock"
    /\ UNCHANGED <<val, lockVars, procVars, late>>

ExitUnlock ==
    /\ life = "unlock"
    /\ writer' = NULL
    /\ life' = "leave"
    /\ UNCHANGED <<heapVars, readers, procVars, late>>

Gone ==
    /\ life = "leave"
    /\ \A p \in Proc : pc[p] = "user"
    /\ life' = "out"
    /\ UNCHANGED <<heapVars, lockVars, procVars, late>>

-----------------------------------------------------------------------------
Run(p) ==
    \/ ReadLock(p) \/ ReadFirst(p) \/ ReadAgain(p) \/ ReadUnlock(p)
    \/ WriteLock(p) \/ WriteSwap(p) \/ WriteFree(p)

ExitRun == ExitLock \/ ExitFree \/ ExitUnlock \/ Gone

Next == Insmod \/ Rmmod \/ ExitRun \/ \E p \in Proc : Ioctl(p) \/ Run(p)

Spec == Init /\ [][Next]_vars

-----------------------------------------------------------------------------
(* Properties. *)

\* The word a reader follows is allocated and still holds the value it
\* printed first.
ReaderSafe ==
    \A p \in Proc : pc[p] = "r_again" => ptr[p] \in live /\ saw[p] = val[ptr[p]]

\* Allocated is the published word and the old word of the one writer.
HeapExact ==
    live = ({my_data} \cup {ptr[p] : p \in {q \in Proc : pc[q] = "w_free"}}) \ {NULL}

\* What simple_rwlock.c promises under any number of concurrent readers and
\* writers and an rmmod among them: no reader follows a freed or changed word
\* across its delay, no word is freed twice or leaked, and after exit nothing
\* is allocated unless a writer that was waiting for my_lock published a word
\* behind exit's back.
WordSafe ==
    /\ ReaderSafe /\ HeapExact
    /\ life = "out" /\ ~late => live = {}
=============================================================================
