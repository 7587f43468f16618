------------------------------- MODULE SimpleRcu -------------------------------
(***************************************************************************)
(* lab9/ex2, simple_rcu.c: readers follow my_data inside an RCU read-side  *)
(* section, with a long delay between two loads; a writer publishes a new  *)
(* word, waits for a grace period and frees the old one.  Nothing in the   *)
(* driver keeps two writers apart.  synchronize_rcu waits exactly for the  *)
(* read-side sections that were open when it was called.                   *)
(*                                                                         *)
(* kmalloc of one word with GFP_KERNEL is taken to succeed (the code does  *)
(* not look), and rmmod to come when nobody uses the device.               *)
(***************************************************************************)
EXTENDS Integers, FiniteSets

CONSTANTS
    Reader, Writer,  \* processes calling IOCTL_READ and IOCTL_WRITE
    Addr,            \* heap addresses
    Value            \* what writers write

NULL == "null"
ASSUME NullAssumption == NULL \notin Addr \cup Value

VARIABLES
    my_data,  \* the published pointer
    live,     \* allocated addresses
    val,      \* val[a]: the word at a
    rpc, ptr, saw,   \* readers: position, old, the value printed first
    wpc, new, old,   \* writers: position and their two pointers
    grace     \* grace[w]: read-side sections w's synchronize_rcu waits for

readVars == <<rpc, ptr, saw>>
writeVars == <<wpc, new, old>>
vars == <<my_data, live, val, readVars, writeVars, grace>>

\* Positions inside the read-side critical section.
Section == {"deref", "load", "again", "unlock"}

Init ==
    /\ my_data = NULL
    /\ live = {}
    /\ val = [a \in Addr |-> NULL]
    /\ rpc = [r \in Reader |-> "idle"]
    /\ ptr = [r \in Reader |-> NULL]
    /\ saw = [r \in Reader |-> NULL]
    /\ wpc = [w \in Writer |-> "idle"]
    /\ new = [w \in Writer |-> NULL]
    /\ old = [w \in Writer |-> NULL]
    /\ grace = [w \in Writer |-> {}]

Quiet == (\A r \in Reader : rpc[r] = "idle") /\ (\A w \in Writer : wpc[w] = "idle")

\* simple_rcu_init: a first word (any value here) before the device appears.
Load ==
    /\ my_data = NULL
    /\ \E a \in Addr \ live, v \in Value :
          /\ my_data' = a
          /\ live' = live \cup {a}
          /\ val' = [val EXCEPT ![a] = v]
    /\ UNCHANGED <<readVars, writeVars, grace>>

\* simple_rcu_exit.
Unload ==
    /\ my_data # NULL
    /\ Quiet
    /\ live' = live \ {my_data}
    /\ my_data' = NULL
    /\ UNCHANGED <<val, readVars, writeVars, grace>>

-----------------------------------------------------------------------------
(* IOCTL_READ. *)

RGoto(r, there) == rpc' = [rpc EXCEPT ![r] = there]

ReadLock(r) ==
    /\ my_data # NULL
    /\ rpc[r] = "idle"
    /\ RGoto(r, "deref")
    /\ UNCHANGED <<my_data, live, val, ptr, saw, writeVars, grace>>

Deref(r) ==
    /\ rpc[r] = "deref"
    /\ ptr' = [ptr EXCEPT ![r] = my_data]
    /\ RGoto(r, "load")
    /\ UNCHANGED <<my_data, live, val, saw, writeVars, grace>>

FirstLoad(r) ==
    /\ rpc[r] = "load"
    /\ saw' = [saw EXCEPT ![r] = val[ptr[r]]]
    /\ RGoto(r, "again")
    /\ UNCHANGED <<my_data, live, val, ptr, writeVars, grace>>

\* After mdelay(500): the same word is loaded again.
SecondLoad(r) ==
    /\ rpc[r] = "again"
    /\ saw' = [saw EXCEPT ![r] = val[ptr[r]]]
    /\ RGoto(r, "unlock")
    /\ UNCHANGED <<my_data, live, val, ptr, writeVars, grace>>

\* A seeded fault: the section is left without rcu_read_unlock.
Mut_Quiesce(r) == UNCHANGED grace
Quiesce(r) == grace' = [w \in Writer |-> grace[w] \ {r}]

ReadUnlock(r) ==
    /\ rpc[r] = "unlock"
    /\ Quiesce(r)
    /\ ptr' = [ptr EXCEPT ![r] = NULL]
    /\ saw' = [saw EXCEPT ![r] = NULL]
    /\ RGoto(r, "idle")
    /\ UNCHANGED <<my_data, live, val, writeVars>>

-----------------------------------------------------------------------------
(* IOCTL_WRITE. *)

WGoto(w, there) == wpc' = [wpc EXCEPT ![w] = there]

\* 1. Copy and update.
Alloc(w) ==
    /\ my_data # NULL
    /\ wpc[w] = "idle"
    /\ \E a \in Addr \ live, v \in Value :
          /\ live' = live \cup {a}
          /\ val' = [val EXCEPT ![a] = v]
          /\ new' = [new EXCEPT ![w] = a]
    /\ WGoto(w, "old")
    /\ UNCHANGED <<my_data, readVars, old, grace>>

GetOld(w) ==
    /\ wpc[w] = "old"
    /\ old' = [old EXCEPT ![w] = my_data]
    /\ WGoto(w, "assign")
    /\ UNCHANGED <<my_data, live, val, readVars, new, grace>>

\* 2. rcu_assign_pointer.
Assign(w) ==
    /\ wpc[w] = "assign"
    /\ my_data' = new[w]
    /\ new' = [new EXCEPT ![w] = NULL]
    /\ WGoto(w, "sync")
    /\ UNCHANGED <<live, val, readVars, old, grace>>

\* A seeded fault: the old word is freed without a grace period.
Mut_OpenSections == {}
OpenSections == {r \in Reader : rpc[r] \in Section}

\* 3. synchronize_rcu is called ...
SyncCall(w) ==
    /\ wpc[w] = "sync"
    /\ grace' = [grace EXCEPT ![w] = OpenSections]
    /\ WGoto(w, "wait")
    /\ UNCHANGED <<my_data, live, val, readVars, new, old>>

\* ... and returns.
SyncReturn(w) ==
    /\ wpc[w] = "wait"
    /\ grace[w] = {}
    /\ WGoto(w, "free")
    /\ UNCHANGED <<my_data, live, val, readVars, new, old, grace>>

\* 4. kfree(old).  A seeded fault: it is forgotten.
Mut_Freed(w) == {}
Freed(w) == {old[w]}

Free(w) ==
    /\ wpc[w] = "free"
    /\ live' = live \ Freed(w)
    /\ old' = [old EXCEPT ![w] = NULL]
    /\ WGoto(w, "idle")
    /\ UNCHANGED <<my_data, val, readVars, new, grace>>

-----------------------------------------------------------------------------
ReadStep(r) == Deref(r) \/ FirstLoad(r) \/ SecondLoad(r) \/ ReadUnlock(r)
WriteStep(w) == GetOld(w) \/ Assign(w) \/ SyncCall(w) \/ SyncReturn(w) \/ Free(w)

Next ==
    \/ Load \/ Unload
    \/ \E r \in Reader : ReadLock(r) \/ ReadStep(r)
    \/ \E w \in Writer : Alloc(w) \/ WriteStep(w)

Spec == Init /\ [][Next]_vars

\* Started calls are scheduled.
FairSpec ==
    /\ Spec
    /\ \A r \in Reader : WF_vars(ReadStep(r))
    /\ \A w \in Writer : WF_vars(WriteStep(w))

-----------------------------------------------------------------------------
(* Properties. *)

TypeOK ==
    /\ my_data \in Addr \cup {NULL}
    /\ live \subseteq Addr
    /\ val \in [Addr -> Value \cup {NULL}]
    /\ rpc \in [Reader -> Section \cup {"idle"}]
    /\ ptr \in [Reader -> Addr \cup {NULL}]
    /\ saw \in [Reader -> Value \cup {NULL}]
    /\ wpc \in [Writer -> {"idle", "old", "assign", "sync", "wait", "free"}]
    /\ new \in [Writer -> Addr \cup {NULL}]
    /\ old \in [Writer -> Addr \cup {NULL}]
    /\ grace \in [Writer -> SUBSET Reader]

\* What the comments of IOCTL_WRITE promise the readers: the word a reader
\* follows is not freed before the reader has left its section, so both loads
\* around the delay are of live memory.
ReaderSafe ==
    \A r \in Reader : rpc[r] \in {"load", "again", "unlock"} => ptr[r] \in live

\* Both loads of one read see the same word: nobody writes to a word that has
\* been published, and its memory is not reused under the reader.
LoadsAgree ==
    [][\A r \in Reader : rpc[r] = "again" /\ rpc'[r] = "unlock" => saw'[r] = saw[r]]_vars

\* One word is allocated per published pointer and per writer in progress:
\* nothing leaks and nothing is freed twice.
HeapExact ==
    live = ({my_data} \cup {new[w] : w \in Writer} \cup {old[w] : w \in Writer}) \ {NULL}

\* A writer is not held up for ever by readers: synchronize_rcu returns
\* although new read-side sections keep starting.
WriterReturns == \A w \in Writer : wpc[w] # "idle" ~> wpc[w] = "idle"
=============================================================================
