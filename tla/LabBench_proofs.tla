---------------------------- MODULE LabBench_proofs ----------------------------
(***************************************************************************)
(* The components of the bench one after the other, each for any set of    *)
(* processes, addresses and contents: an invariant of the component that   *)
(* its own steps preserve and the steps of the others do not concern.      *)
(***************************************************************************)
EXTENDS LabBench, ListLemmas, FiniteSetTheorems

\* Every step of the bench is a step of a component or leaves it alone.
LEMMA OneMoves ==
    ASSUME [Next]_vars
    PROVE  /\ Poll!Next \/ UNCHANGED pollVars
           /\ Queue!Next \/ UNCHANGED queueVars
           /\ Rwlock!Next \/ UNCHANGED rwlockVars
           /\ Spin!Next \/ UNCHANGED spinVars
           /\ Deferred!Next \/ UNCHANGED deferredVars
           /\ Pins!Next \/ UNCHANGED pinsVars
           /\ Proc11!Next \/ UNCHANGED proc11Vars
           /\ Motor!Next \/ UNCHANGED motorVars
           /\ Calc!Next \/ UNCHANGED calcVars
           /\ Sched!Next \/ UNCHANGED schedVars
<1> QED BY DEF Next, Choose, Step, Rest, vars

-----------------------------------------------------------------------------
(* simple_rwlock.c: the lock keeps the published word in place while anybody *)
(* reads it, and the only word left behind is a late one.                    *)

\* Nobody is called NULL or rmmod.
LEMMA RwNames == Rwlock!NULL \notin Node /\ Rwlock!NULL \notin Proc /\ Rwlock!rmmod \notin Proc
<1> QED BY NamesAssumption DEF Rwlock!NULL, Rwlock!rmmod

RwReads(p) == w_pc[p] \in {"r_first", "r_again", "r_unlock"}
RwWrites(p) == w_pc[p] \in {"w_swap", "w_free"}

RwTypeOK ==
    /\ w_life \in {"out", "in", "lock", "free", "unlock", "leave"}
    /\ w_my_data \in Node \cup {Rwlock!NULL} /\ w_live \subseteq Node
    /\ w_val \in [Node -> Msg \cup {Rwlock!NULL}]
    /\ w_readers \subseteq Proc /\ w_writer \in Proc \cup {Rwlock!NULL, Rwlock!rmmod}
    /\ w_pc \in [Proc -> {"user", "r_lock", "r_first", "r_again", "r_unlock",
                        "w_lock", "w_swap", "w_free"}]
    /\ w_ptr \in [Proc -> Node \cup {Rwlock!NULL}]
    /\ w_saw \in [Proc -> Msg \cup {Rwlock!NULL}]

\* my_lock is held by exactly those between their lock and unlock, and a
\* writer excludes everybody else.
RwLockInv ==
    /\ \A p \in Proc : p \in w_readers <=> RwReads(p)
    /\ \A p \in Proc : w_writer = p <=> RwWrites(p)
    /\ w_writer = Rwlock!rmmod <=> w_life \in {"free", "unlock"}
    /\ w_writer # Rwlock!NULL => w_readers = {}

\* A reader past its first load follows the published word, which holds what
\* it printed; a writer's old word is no longer the published one.
RwWordInv ==
    \A p \in Proc :
        /\ w_pc[p] = "r_again" => w_ptr[p] = w_my_data /\ w_my_data # Rwlock!NULL /\ w_saw[p] = w_val[w_my_data]
        /\ w_pc[p] = "w_free" => w_ptr[p] # w_my_data

\* There is a word from insmod to kfree in exit, and again only when late.
RwLifeInv ==
    /\ w_life \in {"unlock", "leave", "out"} /\ ~w_late => w_my_data = Rwlock!NULL
    /\ w_life = "out" => \A p \in Proc : w_pc[p] = "user"

RwInv == RwTypeOK /\ RwLockInv /\ RwWordInv /\ RwLifeInv /\ Rwlock!HeapExact

\* The invariant gives what simple_rwlock.c promises.
LEMMA RwInvSafe == RwInv => Rwlock!WordSafe
<1> SUFFICES ASSUME RwInv PROVE Rwlock!WordSafe
  OBVIOUS
<1>1. Rwlock!ReaderSafe
  BY DEF RwInv, RwWordInv, Rwlock!HeapExact, Rwlock!ReaderSafe
<1>2. ASSUME w_life = "out", ~w_late PROVE w_live = {}
  BY <1>2 DEF RwInv, RwLifeInv, Rwlock!HeapExact
<1> QED BY <1>1, <1>2 DEF RwInv, Rwlock!WordSafe

\* Init establishes it.
LEMMA RwInitInv == ASSUME Rwlock!Init PROVE RwInv
<1>1. RwTypeOK /\ RwLifeInv /\ RwWordInv
  BY DEF Rwlock!Init, RwTypeOK, RwLifeInv, RwWordInv
<1>2. RwLockInv
  BY RwNames DEF Rwlock!Init, RwLockInv, RwReads, RwWrites, Rwlock!NULL, Rwlock!rmmod
<1>3. Rwlock!HeapExact
  BY DEF Rwlock!Init, Rwlock!HeapExact
<1> QED BY <1>1, <1>2, <1>3 DEF RwInv

\* Nobody else is in the middle of a write while p is, and nobody at all while
\* exit holds the lock.
LEMMA RwOneWriter ==
    ASSUME RwInv
    PROVE  /\ \A p, q \in Proc : RwWrites(p) /\ RwWrites(q) => p = q
           /\ w_writer \in {Rwlock!NULL, Rwlock!rmmod} => \A p \in Proc : ~RwWrites(p)
           /\ w_writer # Rwlock!NULL => \A p \in Proc : ~RwReads(p)
<1> QED BY RwNames DEF RwInv, RwLockInv

\* insmod and rmmod preserve it: exit holds the lock while it frees the word.
LEMMA RwLifeStep ==
    ASSUME RwInv, Rwlock!Insmod \/ Rwlock!Rmmod \/ Rwlock!ExitRun
    PROVE  RwInv'
<1>0. RwTypeOK /\ RwLockInv /\ RwWordInv /\ RwLifeInv /\ Rwlock!HeapExact
  BY DEF RwInv
<1>1. UNCHANGED <<w_readers, Rwlock!procVars, w_late>>
  BY DEF Rwlock!Insmod, Rwlock!Rmmod, Rwlock!ExitRun, Rwlock!ExitLock, Rwlock!ExitFree,
    Rwlock!ExitUnlock, Rwlock!Gone, Rwlock!lockVars
<1>2. RwTypeOK'
  BY <1>0 DEF RwTypeOK, Rwlock!Insmod, Rwlock!Rmmod, Rwlock!ExitRun, Rwlock!ExitLock,
    Rwlock!ExitFree, Rwlock!ExitUnlock, Rwlock!Gone,
    Rwlock!lockVars, Rwlock!procVars, Rwlock!heapVars
<1>3. RwLockInv'
  <2>1. CASE Rwlock!ExitLock
    BY <1>0, <1>1, <2>1, RwNames DEF RwLockInv, RwReads, RwWrites, Rwlock!ExitLock,
      Rwlock!Exclusive, Rwlock!procVars, Rwlock!NULL, Rwlock!rmmod
  <2>2. CASE Rwlock!ExitUnlock
    BY <1>0, <1>1, <2>2, RwNames DEF RwLockInv, RwReads, RwWrites, Rwlock!ExitUnlock,
      Rwlock!procVars, Rwlock!NULL, Rwlock!rmmod
  <2>3. CASE Rwlock!Insmod \/ Rwlock!Rmmod \/ Rwlock!ExitFree \/ Rwlock!Gone
    BY <1>0, <1>1, <2>3 DEF RwLockInv, RwReads, RwWrites, Rwlock!Insmod, Rwlock!Rmmod,
      Rwlock!ExitFree, Rwlock!Gone,
      Rwlock!procVars, Rwlock!lockVars
  <2> QED BY <2>1, <2>2, <2>3 DEF Rwlock!ExitRun
<1>4. CASE Rwlock!Insmod
  <2>1. \A p \in Proc : w_pc[p] = "user"
    BY <1>0, <1>4 DEF Rwlock!Insmod, RwLifeInv
  <2>2. Rwlock!HeapExact' /\ RwWordInv' /\ RwLifeInv'
    BY <1>1, <1>4, <2>1, RwNames DEF Rwlock!Insmod, Rwlock!HeapExact, RwWordInv, RwLifeInv,
      Rwlock!procVars
  <2> QED BY <1>2, <1>3, <2>2 DEF RwInv
<1>5. CASE Rwlock!ExitFree
  <2>1. \A p \in Proc : ~RwReads(p) /\ ~RwWrites(p)
    BY <1>0, <1>5, RwOneWriter DEF Rwlock!ExitFree, RwLockInv, Rwlock!NULL, Rwlock!rmmod
  <2>2. Rwlock!HeapExact' /\ RwWordInv' /\ RwLifeInv'
    BY <1>0, <1>1, <1>5, <2>1 DEF Rwlock!ExitFree, Rwlock!HeapExact, RwWordInv, RwLifeInv,
      Rwlock!procVars, RwReads, RwWrites
  <2> QED BY <1>2, <1>3, <2>2 DEF RwInv
<1>6. CASE Rwlock!Rmmod \/ Rwlock!ExitLock \/ Rwlock!ExitUnlock \/ Rwlock!Gone
  <2>1. UNCHANGED <<Rwlock!heapVars, Rwlock!procVars, w_late>>
    BY <1>6 DEF Rwlock!Rmmod, Rwlock!ExitLock, Rwlock!ExitUnlock, Rwlock!Gone
  <2>2. Rwlock!HeapExact' /\ RwWordInv'
    BY <1>0, <2>1 DEF Rwlock!HeapExact, RwWordInv, Rwlock!heapVars, Rwlock!procVars
  <2>3. RwLifeInv'
    BY <1>0, <1>6, <2>1 DEF RwLifeInv, Rwlock!Rmmod, Rwlock!ExitLock, Rwlock!ExitUnlock,
      Rwlock!Gone, Rwlock!heapVars, Rwlock!procVars
  <2> QED BY <1>2, <1>3, <2>2, <2>3 DEF RwInv
<1> QED BY <1>4, <1>5, <1>6 DEF Rwlock!ExitRun

\* Calls and reads preserve it: they leave the word alone.
LEMMA RwReadStep ==
    ASSUME RwInv, NEW p \in Proc,
           Rwlock!Ioctl(p) \/ Rwlock!ReadLock(p) \/ Rwlock!ReadFirst(p) \/ Rwlock!ReadAgain(p) \/ Rwlock!ReadUnlock(p)
    PROVE  RwInv'
<1>0. RwTypeOK /\ RwLockInv /\ RwWordInv /\ RwLifeInv /\ Rwlock!HeapExact
  BY DEF RwInv
<1>1. UNCHANGED <<w_life, Rwlock!heapVars, w_writer, w_late>>
  BY DEF Rwlock!Ioctl, Rwlock!ReadLock, Rwlock!ReadFirst, Rwlock!ReadAgain, Rwlock!ReadUnlock,
    Rwlock!lockVars
<1>2. /\ w_pc[p] # "w_free" /\ w_pc'[p] # "w_free"
      /\ \A q \in Proc : q # p => w_pc'[q] = w_pc[q] /\ w_ptr'[q] = w_ptr[q] /\ w_saw'[q] = w_saw[q]
  BY <1>0 DEF RwTypeOK, Rwlock!Ioctl, Rwlock!ReadLock, Rwlock!ReadFirst, Rwlock!ReadAgain,
    Rwlock!ReadUnlock, Rwlock!Goto
<1>3. RwTypeOK'
  <2>1. CASE Rwlock!ReadAgain(p)
    <3>1. w_ptr[p] \in Node
      BY <1>0, <2>1 DEF RwTypeOK, RwWordInv, Rwlock!ReadAgain
    <3> QED BY <1>0, <2>1, <3>1 DEF RwTypeOK, Rwlock!ReadAgain, Rwlock!Goto, Rwlock!heapVars,
      Rwlock!lockVars
  <2>2. CASE Rwlock!Ioctl(p) \/ Rwlock!ReadLock(p) \/ Rwlock!ReadFirst(p) \/ Rwlock!ReadUnlock(p)
    BY <1>0, <2>2 DEF RwTypeOK, Rwlock!Ioctl, Rwlock!ReadLock, Rwlock!ReadFirst,
      Rwlock!ReadUnlock, Rwlock!Goto, Rwlock!heapVars, Rwlock!lockVars
  <2> QED BY <2>1, <2>2
<1>4. RwLockInv'
  BY <1>0 DEF RwTypeOK, RwLockInv, RwReads, RwWrites, Rwlock!Ioctl, Rwlock!ReadLock,
    Rwlock!ReadFirst, Rwlock!ReadAgain,
    Rwlock!ReadUnlock, Rwlock!Goto, Rwlock!lockVars
<1>5. RwWordInv'
  <2>1. w_pc'[p] = "r_again" => w_ptr'[p] = w_my_data /\ w_my_data # Rwlock!NULL /\ w_saw'[p] = w_val[w_my_data]
    BY <1>0 DEF RwTypeOK, Rwlock!Ioctl, Rwlock!ReadLock, Rwlock!ReadFirst, Rwlock!ReadAgain,
      Rwlock!ReadUnlock, Rwlock!Goto
  <2> QED BY <1>0, <1>1, <1>2, <2>1 DEF RwWordInv, Rwlock!heapVars
<1>6. RwLifeInv'
  <2>1. w_life # "out"
    BY <1>0 DEF RwLifeInv, Rwlock!Ioctl, Rwlock!ReadLock, Rwlock!ReadFirst, Rwlock!ReadAgain,
      Rwlock!ReadUnlock
  <2> QED BY <1>0, <1>1, <2>1 DEF RwLifeInv, Rwlock!heapVars
<1>7. Rwlock!HeapExact'
  <2>1. {q \in Proc : w_pc'[q] = "w_free"} = {q \in Proc : w_pc[q] = "w_free"}
    BY <1>2
  <2>2. {w_ptr'[q] : q \in {r \in Proc : w_pc'[r] = "w_free"}}
          = {w_ptr[q] : q \in {r \in Proc : w_pc[r] = "w_free"}}
    BY <1>2, <2>1
  <2> QED BY <1>0, <1>1, <2>2 DEF Rwlock!HeapExact, Rwlock!heapVars
<1> QED BY <1>3, <1>4, <1>5, <1>6, <1>7 DEF RwInv

\* Writes preserve it: the writer is alone when it moves the pointer.
LEMMA RwWriteStep ==
    ASSUME RwInv, NEW p \in Proc,
      Rwlock!WriteLock(p) \/ Rwlock!WriteSwap(p) \/ Rwlock!WriteFree(p)
    PROVE  RwInv'
<1>0. RwTypeOK /\ RwLockInv /\ RwWordInv /\ RwLifeInv /\ Rwlock!HeapExact
  BY DEF RwInv
<1>1. w_life # "out" /\ w_life' = w_life
  BY <1>0 DEF RwLifeInv, Rwlock!WriteLock, Rwlock!WriteSwap, Rwlock!WriteFree
<1>2. RwTypeOK'
  <2>1. CASE Rwlock!WriteLock(p)
    BY <1>0, <2>1 DEF RwTypeOK, Rwlock!WriteLock, Rwlock!Goto, Rwlock!heapVars
  <2>2. CASE Rwlock!WriteSwap(p)
    <3>1. PICK a \in Node \ w_live, v \in Msg :
             w_my_data' = a /\ w_live' = w_live \cup {a} /\ w_val' = [w_val EXCEPT ![a] = v]
      BY <2>2 DEF Rwlock!WriteSwap
    <3> QED BY <1>0, <2>2, <3>1 DEF RwTypeOK, Rwlock!WriteSwap, Rwlock!Goto, Rwlock!lockVars
  <2>3. CASE Rwlock!WriteFree(p)
    BY <1>0, <2>3 DEF RwTypeOK, Rwlock!WriteFree, Rwlock!Goto
  <2> QED BY <2>1, <2>2, <2>3
<1>3. RwLockInv'
  <2>1. CASE Rwlock!WriteLock(p)
    BY <1>0, <2>1, RwNames DEF RwTypeOK, RwLockInv, RwReads, RwWrites, Rwlock!WriteLock,
      Rwlock!Exclusive, Rwlock!Goto, Rwlock!NULL, Rwlock!rmmod
  <2>2. CASE Rwlock!WriteSwap(p)
    BY <1>0, <2>2 DEF RwTypeOK, RwLockInv, RwReads, RwWrites, Rwlock!WriteSwap, Rwlock!Goto,
      Rwlock!lockVars
  <2>3. CASE Rwlock!WriteFree(p)
    BY <1>0, <2>3, RwNames DEF RwTypeOK, RwLockInv, RwReads, RwWrites, Rwlock!WriteFree,
      Rwlock!Goto, Rwlock!NULL, Rwlock!rmmod
  <2> QED BY <2>1, <2>2, <2>3
<1>4. CASE Rwlock!WriteLock(p)
  <2>1. {q \in Proc : w_pc'[q] = "w_free"} = {q \in Proc : w_pc[q] = "w_free"}
    BY <1>0, <1>4 DEF RwTypeOK, Rwlock!WriteLock, Rwlock!Goto
  <2>2. Rwlock!HeapExact'
    BY <1>0, <1>4, <2>1 DEF Rwlock!HeapExact, Rwlock!WriteLock, Rwlock!heapVars
  <2>3. RwWordInv' /\ RwLifeInv'
    BY <1>0, <1>1, <1>4 DEF RwTypeOK, RwWordInv, RwLifeInv, Rwlock!WriteLock, Rwlock!Goto,
      Rwlock!heapVars
  <2> QED BY <1>2, <1>3, <2>2, <2>3 DEF RwInv
<1>5. ASSUME RwWrites(p) PROVE \A q \in Proc : ~RwReads(q) /\ (q # p => ~RwWrites(q))
  BY <1>0, <1>5, RwOneWriter, RwNames DEF RwLockInv
<1>6. CASE Rwlock!WriteSwap(p)
  <2>0. \A q \in Proc : ~RwReads(q) /\ w_pc[q] # "w_free"
    BY <1>5, <1>6 DEF Rwlock!WriteSwap, RwWrites
  <2>1. w_live = {w_my_data} \ {Rwlock!NULL}
    BY <1>0, <2>0 DEF Rwlock!HeapExact
  <2>2. PICK a \in Node \ w_live : w_my_data' = a /\ w_live' = w_live \cup {a}
    BY <1>6 DEF Rwlock!WriteSwap
  <2>3. w_ptr'[p] = w_my_data /\ w_my_data # a /\ a # Rwlock!NULL
    BY <1>0, <1>6, <2>1, <2>2, RwNames DEF Rwlock!WriteSwap, RwTypeOK
  <2>4. {q \in Proc : w_pc'[q] = "w_free"} = {p}
    BY <1>0, <1>6, <2>0 DEF Rwlock!WriteSwap, RwTypeOK, Rwlock!Goto
  <2>5. Rwlock!HeapExact'
    BY <2>1, <2>2, <2>3, <2>4 DEF Rwlock!HeapExact
  <2>6. RwWordInv'
    BY <1>0, <1>6, <2>0, <2>2, <2>3 DEF Rwlock!WriteSwap, RwTypeOK, RwWordInv, Rwlock!Goto,
      RwReads
  <2>7. RwLifeInv'
    BY <1>0, <1>1, <1>6 DEF Rwlock!WriteSwap, RwLifeInv
  <2> QED BY <1>2, <1>3, <2>5, <2>6, <2>7 DEF RwInv
<1>7. CASE Rwlock!WriteFree(p)
  <2>0. \A q \in Proc : ~RwReads(q) /\ (q # p => w_pc[q] # "w_free")
    BY <1>5, <1>7 DEF Rwlock!WriteFree, RwWrites
  <2>1. {q \in Proc : w_pc[q] = "w_free"} = {p}
    BY <1>7, <2>0 DEF Rwlock!WriteFree
  <2>2. w_live = {w_my_data, w_ptr[p]} \ {Rwlock!NULL} /\ w_ptr[p] # w_my_data
    BY <1>0, <1>7, <2>1 DEF Rwlock!HeapExact, RwWordInv, Rwlock!WriteFree
  <2>3. {q \in Proc : w_pc'[q] = "w_free"} = {}
    BY <1>0, <1>7, <2>0 DEF Rwlock!WriteFree, RwTypeOK, Rwlock!Goto
  <2>4. Rwlock!HeapExact'
    BY <1>7, <2>2, <2>3 DEF Rwlock!HeapExact, Rwlock!WriteFree
  <2>5. RwWordInv'
    BY <1>0, <1>7, <2>0 DEF Rwlock!WriteFree, RwTypeOK, RwWordInv, Rwlock!Goto, RwReads
  <2>6. RwLifeInv'
    BY <1>0, <1>1, <1>7 DEF Rwlock!WriteFree, RwLifeInv
  <2> QED BY <1>2, <1>3, <2>4, <2>5, <2>6 DEF RwInv
<1> QED BY <1>4, <1>6, <1>7

\* Other components do not concern it.
LEMMA RwStutter == ASSUME RwInv, UNCHANGED rwlockVars PROVE RwInv'
<1> QED BY DEF rwlockVars, RwInv, RwTypeOK, RwLockInv, RwReads, RwWrites, RwWordInv, RwLifeInv,
             Rwlock!HeapExact

\* simple_rwlock.c under any number of concurrent readers and writers and an
\* rmmod among them: no reader follows a freed or changed word, no word is
\* freed twice, and none is leaked except one published behind exit's back.
THEOREM RwlockWordSafe == Spec => []WordSafe
<1>1. Init => RwInv
  BY RwInitInv DEF Init
<1>2. RwInv /\ [Next]_vars => RwInv'
  BY OneMoves, RwStutter, RwLifeStep, RwReadStep, RwWriteStep DEF Rwlock!Next, Rwlock!Run
<1>3. RwInv => WordSafe
  BY RwInvSafe DEF WordSafe
<1> QED BY <1>1, <1>2, <1>3, PTL DEF Spec

-----------------------------------------------------------------------------
(* spin_interrupt.c: the lock is taken with interrupts off wherever a process *)
(* takes it, and enable_irq and disable_irq are paired by open and release.   *)

\* Nobody is called None, Idle or Interrupt, and these are three.
LEMMA SpinNames ==
    /\ Spin!None \notin Proc \cup Node /\ Spin!Interrupt \notin Proc /\ Spin!Idle \notin Proc
    /\ Spin!None # Spin!Interrupt /\ Spin!None # Spin!Idle /\ Spin!Interrupt # Spin!Idle
<1> QED BY NamesAssumption DEF Spin!None, Spin!Interrupt, Spin!Idle

SpinTypeOK ==
    /\ s_life \in {"out", "request", "hush", "hushing", "in", "drain", "panic"}
    /\ s_depth \in Nat
    /\ s_list \in Seq(Node) /\ s_heap \subseteq Node
    /\ s_pc \in [Proc -> {"closed", "open", "lock", "walk", "disable", "sync"}]
    /\ s_isr \in [at : {"asleep", "lock", "link"}, cpu : Proc \cup {Spin!Idle, Spin!None},
                  node : Node \cup {Spin!None}]

\* The spinlock is with the one process that walks or with the handler that
\* links, and the handler is not on top of a process with interrupts off.
SpinLockInv ==
    /\ \A p \in Proc : s_spinlock = p <=> s_pc[p] = "walk"
    /\ s_spinlock = Spin!Interrupt <=> s_isr.at = "link"
    /\ s_spinlock \in Proc \cup {Spin!None, Spin!Interrupt}
    /\ \A p \in Proc : s_isr.cpu = p => s_pc[p] \notin {"lock", "walk"}

\* A handler at work has a node; one asleep has none.
SpinIsrInv ==
    IF s_isr.at = "asleep" THEN s_isr = Spin!Asleep ELSE s_isr.node \in Node /\ s_isr.cpu # Spin!None

\* Without a handler registered none starts, and outside "in" no file is open.
SpinLifeInv ==
    /\ s_life \notin {"in", "panic"} => \A p \in Proc : s_pc[p] = "closed"
    /\ s_life \in {"out", "request", "drain"} => ~s_handler
    /\ s_life \in {"out", "request"} => s_isr = Spin!Asleep /\ s_list = <<>>

\* ListExact's account of the heap, element by element.
SpinHeapInv ==
    /\ \A n \in Node : n \in s_heap <=> n \in Elems(s_list) \/ s_isr.node = n
    /\ s_isr.node \notin Elems(s_list)

\* Files that hold the line enabled.
Listening == {p \in Proc : s_pc[p] \notin {"closed", "sync"}}

\* The count of disable_irq: as long as no two files were open together it is
\* exactly paired with open and release; after that only never too low.
SpinDepthInv ==
    /\ s_life = "hush" => s_depth = 0
    /\ s_life = "hushing" => s_depth = 1
    /\ s_life = "in" /\ s_handler =>
         /\ s_depth = 0 => Listening # {}
         /\ ~s_overlap => \/ Listening = {} /\ s_depth = 1
                          \/ \E p \in Proc : Listening = {p} /\ s_depth = 0
    /\ s_life = "in" /\ ~s_overlap => \A p, q \in Spin!Opened : p = q

SpinInv == SpinTypeOK /\ SpinLockInv /\ SpinIsrInv /\ SpinLifeInv /\ SpinHeapInv /\ SpinDepthInv

\* The elements of the list are addresses.
LEMMA SpinElems == ASSUME SpinTypeOK PROVE Elems(s_list) \subseteq Node
<1> QED BY ElementOfSeq DEF SpinTypeOK, Elems

\* The three properties follow.
LEMMA SpinInvSafe ==
    ASSUME SpinInv
    PROVE  NoSelfDeadlock /\ ListExact /\ ListensExactlyWhileOpen
<1>0. SpinTypeOK /\ SpinLockInv /\ SpinIsrInv /\ SpinLifeInv /\ SpinHeapInv /\ SpinDepthInv
  BY DEF SpinInv
<1>1. NoSelfDeadlock
  BY <1>0, SpinNames DEF NoSelfDeadlock, Spin!NoSelfDeadlock, SpinTypeOK, SpinLockInv, SpinIsrInv
<1>2. ListExact
  <2>1. Spin!Linked = Elems(s_list)
    BY DEF Spin!Linked, Elems
  <2>2. s_isr.at = "link" => \A p \in Proc : s_pc[p] # "walk"
    BY <1>0, SpinNames DEF SpinLockInv
  <2>3. s_heap = Spin!Linked \cup ({s_isr.node} \ {Spin!None})
    <3>1. Spin!Linked \cup ({s_isr.node} \ {Spin!None}) \subseteq Node
      BY <1>0, <2>1, SpinElems DEF SpinTypeOK
    <3> QED BY <1>0, <2>1, <3>1, SpinNames DEF SpinTypeOK, SpinHeapInv
  <2>4. s_life = "out" => s_heap = {} /\ s_isr = Spin!Asleep
    <3> SUFFICES ASSUME s_life = "out" PROVE s_heap = {} /\ s_isr = Spin!Asleep
      OBVIOUS
    <3>1. s_isr = Spin!Asleep /\ s_list = <<>>
      BY <1>0 DEF SpinLifeInv
    <3>2. Spin!Linked = {}
      BY <3>1, EmptySeq DEF Spin!Linked
    <3> QED BY <2>3, <3>1, <3>2 DEF Spin!Asleep
  <2> QED BY <1>0, <2>1, <2>2, <2>3, <2>4 DEF ListExact, Spin!ListExact, SpinHeapInv
<1>3. ListensExactlyWhileOpen
  <2> DEFINE heard == {p \in Spin!Opened : s_pc[p] # "sync"}
  <2>1. heard = Listening
    BY DEF Spin!Opened, Listening
  <2>2. Cardinality({}) = 0 /\ \A p \in Proc : Cardinality({p}) = 1
    BY FS_EmptySet, FS_Singleton
  <2>3. s_life = "in" /\ s_handler => (s_depth = 0 => Spin!Opened # {})
    BY <1>0, <2>1 DEF SpinDepthInv
  <2>4. s_life = "in" /\ s_handler => (~s_overlap => s_depth = 1 - Cardinality(Listening))
    BY <1>0, <2>2 DEF SpinDepthInv
  <2>5. s_life = "in" /\ s_handler => (~s_overlap => s_depth = 1 - Cardinality(heard))
    BY <2>1, <2>4
  <2>6. Spin!Cardinality(heard) = Cardinality(heard)
    BY DEF Spin!Cardinality, Cardinality
  <2> QED BY <2>3, <2>5, <2>6 DEF ListensExactlyWhileOpen, Spin!ListensExactlyWhileOpen
<1> QED BY <1>1, <1>2, <1>3

\* Init establishes it.
LEMMA SpinInitInv == ASSUME Spin!Init PROVE SpinInv
<1>1. s_list = <<>> /\ Elems(s_list) = {} /\ s_list \in Seq(Node)
  BY EmptySeq DEF Spin!Init, Elems
<1>2. SpinTypeOK
  BY <1>1 DEF Spin!Init, Spin!Asleep, SpinTypeOK
<1>3. SpinLockInv /\ SpinIsrInv /\ SpinLifeInv
  BY <1>1, SpinNames DEF Spin!Init, Spin!Asleep, SpinLockInv, SpinIsrInv, SpinLifeInv
<1>4. SpinHeapInv /\ SpinDepthInv
  BY <1>1, SpinNames DEF Spin!Init, Spin!Asleep, SpinHeapInv, SpinDepthInv
<1> QED BY <1>2, <1>3, <1>4 DEF SpinInv

\* spin_interrupt_init and _exit up to the wait for the handler.
LEMMA SpinLoadStep ==
    ASSUME SpinInv, Spin!Insmod \/ Spin!Request \/ Spin!Hush \/ Spin!FreeIrq
    PROVE  SpinInv'
<1>0. SpinTypeOK /\ SpinLockInv /\ SpinIsrInv /\ SpinLifeInv /\ SpinHeapInv /\ SpinDepthInv
  BY DEF SpinInv
<1> USE DEF Spin!Insmod, Spin!Request, Spin!Hush, Spin!FreeIrq, Spin!irqVars
<1>1. UNCHANGED <<s_heap, s_pc, s_isr, s_list>>
  BY <1>0 DEF SpinLifeInv
<1>2. \A p \in Proc : s_pc[p] = "closed"
  BY <1>0 DEF SpinLifeInv, Spin!Opened
<1>3. SpinTypeOK'
  BY <1>0, <1>1 DEF SpinTypeOK
<1>4. SpinLockInv'
  <2>1. s_spinlock' = s_spinlock \/ (s_spinlock' = Spin!None /\ s_isr.at # "link")
    BY <1>0 DEF SpinLifeInv, Spin!Asleep
  <2> QED BY <1>0, <1>1, <1>2, <2>1, SpinNames DEF SpinLockInv
<1>5. SpinIsrInv' /\ SpinHeapInv'
  BY <1>0, <1>1 DEF SpinIsrInv, SpinHeapInv
<1>6. SpinLifeInv'
  BY <1>0, <1>1, <1>2 DEF SpinLifeInv
<1>7. SpinDepthInv'
  <2>1. Listening' = {} /\ Spin!Opened' = {}
    BY <1>1, <1>2 DEF Listening, Spin!Opened
  <2>2. CASE Spin!Insmod \/ Spin!Request \/ Spin!FreeIrq
    BY <1>0, <2>1, <2>2 DEF SpinDepthInv, SpinLifeInv
  <2>3. CASE Spin!Hush
    BY <1>0, <2>1, <2>3 DEF SpinDepthInv
  <2> QED BY <2>2, <2>3
<1> QED BY <1>3, <1>4, <1>5, <1>6, <1>7 DEF SpinInv

\* spin_interrupt_exit frees the list when nobody is left.
LEMMA SpinFreeStep == ASSUME SpinInv, Spin!FreeList PROVE SpinInv'
<1>0. SpinTypeOK /\ SpinLockInv /\ SpinIsrInv /\ SpinLifeInv /\ SpinHeapInv /\ SpinDepthInv
  BY DEF SpinInv
<1>1. s_list' = <<>> /\ Elems(s_list') = {} /\ s_list' \in Seq(Node)
  BY EmptySeq DEF Spin!FreeList, Elems
<1>2. Spin!Linked = Elems(s_list) /\ s_isr = Spin!Asleep
  BY DEF Spin!Linked, Elems, Spin!FreeList
<1>3. SpinTypeOK'
  BY <1>0, <1>1 DEF SpinTypeOK, Spin!FreeList, Spin!irqVars
<1>4. SpinLockInv' /\ SpinIsrInv'
  BY <1>0 DEF SpinLockInv, SpinIsrInv, Spin!FreeList
<1>5. SpinLifeInv' /\ SpinDepthInv'
  BY <1>0 DEF SpinLifeInv, SpinDepthInv, Spin!FreeList, Spin!irqVars
<1>6. SpinHeapInv'
  BY <1>0, <1>1, <1>2, SpinNames DEF SpinHeapInv, Spin!FreeList, Spin!Asleep
<1> QED BY <1>3, <1>4, <1>5, <1>6 DEF SpinInv

\* The handler: it takes a CPU whose interrupts are on, and the lock when free.
LEMMA SpinIsrStep ==
    ASSUME SpinInv, Spin!Detect \/ Spin!IsrLock \/ Spin!IsrLink
    PROVE  SpinInv'
<1>0. SpinTypeOK /\ SpinLockInv /\ SpinIsrInv /\ SpinLifeInv /\ SpinHeapInv /\ SpinDepthInv
  BY DEF SpinInv
<1>1. UNCHANGED <<s_handler, s_depth, s_pc, s_overlap>>
  BY DEF Spin!Detect, Spin!IsrLock, Spin!IsrLink, Spin!irqVars
<1>2. s_life \notin {"out", "request"} /\ (s_life' = s_life \/ s_life' = "panic")
  BY <1>0 DEF Spin!Detect, Spin!IsrLock, Spin!IsrLink, SpinLifeInv, Spin!Asleep
<1>3. SpinLifeInv' /\ SpinDepthInv'
  BY <1>0, <1>1, <1>2 DEF SpinLifeInv, SpinDepthInv, Listening, Spin!Opened
<1>4. CASE Spin!Detect /\ s_life' = "panic" /\ UNCHANGED <<s_isr, s_heap>>
  BY <1>0, <1>1, <1>3, <1>4 DEF SpinInv, SpinTypeOK, SpinLockInv, SpinIsrInv, SpinHeapInv, Spin!Detect
<1>5. ASSUME NEW cpu \in (Proc \cup {Spin!Idle}) \ Spin!IrqsOff, NEW n \in Node \ s_heap,
             s_isr' = [at |-> "lock", cpu |-> cpu, node |-> n], s_heap' = s_heap \cup {n},
             UNCHANGED <<s_spinlock, s_list, s_life>>, s_isr = Spin!Asleep
      PROVE  SpinInv'
  <2>1. SpinTypeOK'
    BY <1>0, <1>1, <1>5 DEF SpinTypeOK
  <2>2. SpinLockInv'
    BY <1>0, <1>1, <1>5, SpinNames DEF SpinLockInv, Spin!Asleep, Spin!IrqsOff
  <2>3. SpinIsrInv'
    BY <1>5, SpinNames DEF SpinIsrInv
  <2>4. SpinHeapInv'
    BY <1>0, <1>5, SpinNames DEF SpinHeapInv, Spin!Asleep
  <2> QED BY <1>3, <2>1, <2>2, <2>3, <2>4 DEF SpinInv
<1>6. CASE Spin!IsrLock
  <2>1. /\ s_isr.at = "lock" /\ s_spinlock = Spin!None /\ s_spinlock' = Spin!Interrupt
        /\ s_isr' = [s_isr EXCEPT !.at = "link"] /\ UNCHANGED <<s_list, s_heap, s_life>>
    BY <1>6 DEF Spin!IsrLock, Spin!IsrMayLink
  <2>2. s_isr'.at = "link" /\ s_isr'.cpu = s_isr.cpu /\ s_isr'.node = s_isr.node
    BY <1>0, <2>1 DEF SpinTypeOK
  <2>3. SpinTypeOK'
    BY <1>0, <1>1, <2>1 DEF SpinTypeOK
  <2>4. SpinLockInv'
    BY <1>0, <1>1, <2>1, <2>2, SpinNames DEF SpinLockInv
  <2>5. SpinIsrInv' /\ SpinHeapInv'
    BY <1>0, <2>1, <2>2 DEF SpinIsrInv, SpinHeapInv
  <2> QED BY <1>3, <2>3, <2>4, <2>5 DEF SpinInv
<1>7. CASE Spin!IsrLink
  <2>1. /\ s_isr.at = "link" /\ s_spinlock' = Spin!None /\ s_isr' = Spin!Asleep
        /\ s_list' = Append(s_list, s_isr.node) /\ UNCHANGED <<s_heap, s_life>>
    BY <1>7 DEF Spin!IsrLink
  <2>2. s_isr.node \in Node
    BY <1>0, <2>1 DEF SpinIsrInv
  <2>3. s_list' \in Seq(Node) /\ Elems(s_list') = Elems(s_list) \cup {s_isr.node}
    BY <1>0, <2>1, <2>2, AppendElems DEF SpinTypeOK
  <2>4. SpinTypeOK'
    BY <1>0, <1>1, <2>1, <2>3 DEF SpinTypeOK, Spin!Asleep
  <2>5. SpinLockInv'
    BY <1>0, <1>1, <2>1, SpinNames DEF SpinLockInv, Spin!Asleep
  <2>6. SpinIsrInv'
    BY <2>1 DEF SpinIsrInv, Spin!Asleep
  <2>7. SpinHeapInv'
    <3>1. Spin!None \notin Elems(s_list)
      BY <1>0, SpinElems, SpinNames
    <3> QED BY <1>0, <2>1, <2>2, <2>3, <3>1, SpinNames DEF SpinHeapInv, Spin!Asleep
  <2> QED BY <1>3, <2>4, <2>5, <2>6, <2>7 DEF SpinInv
<1> QED BY <1>4, <1>5, <1>6, <1>7 DEF Spin!Detect

\* What open and release have in common.
LEMMA SpinFileStep ==
    ASSUME SpinInv, NEW p \in Proc,
           \/ Spin!Open(p) \/ Spin!Release(p) \/ Spin!ReleaseLock(p)
           \/ Spin!ReleaseUnlock(p) \/ Spin!ReleaseDisable(p)
    PROVE  SpinInv'
<1>0. SpinTypeOK /\ SpinLockInv /\ SpinIsrInv /\ SpinLifeInv /\ SpinHeapInv /\ SpinDepthInv
  BY DEF SpinInv
<1> USE DEF Spin!Open, Spin!Release, Spin!ReleaseLock, Spin!ReleaseUnlock, Spin!ReleaseDisable,
            Spin!Runs, Spin!Goto, Spin!irqVars
<1>1. UNCHANGED <<s_life, s_handler, s_list, s_heap, s_isr>> /\ s_life = "in" /\ s_isr.cpu # p
  OBVIOUS
<1>2. \A q \in Proc : q # p => s_pc'[q] = s_pc[q]
  BY <1>0 DEF SpinTypeOK
<1>3. SpinTypeOK'
  BY <1>0, <1>1 DEF SpinTypeOK, Spin!Disabled
<1>4. SpinIsrInv' /\ SpinHeapInv' /\ SpinLifeInv'
  BY <1>0, <1>1 DEF SpinIsrInv, SpinHeapInv, SpinLifeInv
<1>5. SpinLockInv'
  <2>1. CASE Spin!ReleaseLock(p)
    BY <1>0, <1>1, <1>2, <2>1, SpinNames DEF SpinLockInv, SpinTypeOK
  <2>2. CASE Spin!ReleaseUnlock(p)
    BY <1>0, <1>1, <1>2, <2>2, SpinNames DEF SpinLockInv, SpinTypeOK
  <2>3. CASE Spin!Open(p) \/ Spin!Release(p) \/ Spin!ReleaseDisable(p)
    BY <1>0, <1>1, <1>2, <2>3 DEF SpinLockInv, SpinTypeOK
  <2> QED BY <2>1, <2>2, <2>3
<1>6. SpinDepthInv'
  <2>1. CASE Spin!Open(p)
    <3>1. Listening' = Listening \cup {p} /\ Spin!Opened' = Spin!Opened \cup {p}
      BY <1>0, <1>2, <2>1 DEF Listening, Spin!Opened, SpinTypeOK
    <3>2. Listening \subseteq Spin!Opened
      BY DEF Listening, Spin!Opened
    <3>3. s_overlap' = (s_overlap \/ Spin!Opened # {})
      BY <2>1
    <3>4. s_depth' = IF s_depth > 0 THEN s_depth - 1 ELSE 0
      BY <2>1
    <3>5. Listening' # {}
      BY <3>1
    <3>6. ASSUME s_handler, ~s_overlap' PROVE Listening' = {p} /\ s_depth' = 0
      <4>1. ~s_overlap /\ Spin!Opened = {} /\ Listening = {}
        BY <3>2, <3>3, <3>6
      <4>2. s_depth = 1
        BY <1>0, <1>1, <3>6, <4>1 DEF SpinDepthInv
      <4> QED BY <3>1, <3>4, <4>1, <4>2
    <3>7. ASSUME ~s_overlap' PROVE \A q, r \in Spin!Opened' : q = r
      BY <3>1, <3>3, <3>7
    <3> QED BY <1>1, <3>5, <3>6, <3>7 DEF SpinDepthInv
  <2>2. CASE Spin!ReleaseDisable(p) /\ s_pc[p] = "disable"
    <3>1. Listening' = Listening \ {p} /\ Spin!Opened' = Spin!Opened /\ p \in Listening
      BY <1>0, <1>2, <2>2 DEF Listening, Spin!Opened, SpinTypeOK
    <3>2. s_depth' = s_depth + 1 /\ s_overlap' = s_overlap
      BY <2>2 DEF Spin!Disabled
    <3> QED BY <1>0, <1>1, <3>1, <3>2 DEF SpinDepthInv, SpinTypeOK
  <2>3. CASE \/ Spin!ReleaseDisable(p) /\ s_pc[p] = "sync"
             \/ Spin!Release(p) \/ Spin!ReleaseLock(p) \/ Spin!ReleaseUnlock(p)
    <3>1. Listening' = Listening /\ Spin!Opened' \subseteq Spin!Opened
      BY <1>0, <1>2, <2>3 DEF Listening, Spin!Opened, SpinTypeOK
    <3>2. UNCHANGED <<s_depth, s_overlap>>
      BY <2>3
    <3> QED BY <1>0, <1>1, <3>1, <3>2 DEF SpinDepthInv
  <2> QED BY <2>1, <2>2, <2>3
<1> QED BY <1>3, <1>4, <1>5, <1>6 DEF SpinInv

\* Other components do not concern it.
LEMMA SpinStutter == ASSUME SpinInv, UNCHANGED spinVars PROVE SpinInv'
<1> QED BY DEF spinVars, SpinInv, SpinTypeOK, SpinLockInv, SpinIsrInv, SpinLifeInv, SpinHeapInv,
             SpinDepthInv, Listening, Spin!Opened

\* The invariant of spin_interrupt holds on the bench.
LEMMA SpinInvHolds == Spec => []SpinInv
<1>1. Init => SpinInv
  BY SpinInitInv DEF Init
<1>2. SpinInv /\ [Next]_vars => SpinInv'
  BY OneMoves, SpinStutter, SpinLoadStep, SpinFreeStep, SpinIsrStep, SpinFileStep DEF Spin!Next
<1> QED BY <1>1, <1>2, PTL DEF Spec

\* spin_interrupt_isr never spins for a lock whose owner it interrupted,
\* whatever CPUs and whenever the switch is pressed.
THEOREM SpinNoSelfDeadlock == Spec => []NoSelfDeadlock
<1> QED BY SpinInvHolds, SpinInvSafe, PTL

\* The list is never walked while the handler links, no node of it is leaked
\* or freed twice, and spin_interrupt_exit leaves none.
THEOREM SpinListExact == Spec => []ListExact
<1> QED BY SpinInvHolds, SpinInvSafe, PTL

\* The line never listens without an open file; files that were never open at
\* the same time are all heard.
THEOREM SpinListens == Spec => []ListensExactlyWhileOpen
<1> QED BY SpinInvHolds, SpinInvSafe, PTL

-----------------------------------------------------------------------------
(* lab11: what interrupts defer, and what the exit functions wait for. *)

\* Handlers come before free_irq has waited for them, and only from the two
\* modules that register one.
DeferIrqInv ==
    /\ d_irq => d_life \in {"in", "tasklet_kill", "free_irq"} /\ d_mod \in {"tasklet", "workqueue"}
    /\ d_isr => /\ d_life \in {"in", "tasklet_kill", "free_irq", "synchronize"}
                /\ d_mod \in {"tasklet", "workqueue"}

\* Each module goes through its own exit calls.
DeferLifeInv ==
    /\ d_mod \in {"none", "tasklet", "workqueue", "kthread"}
    /\ d_life \in {"out", "in", "oops", "tasklet_kill", "free_irq", "synchronize", "flush",
                   "kthread_stop"}
    /\ d_life = "in" => d_mod # "none"
    /\ d_life = "tasklet_kill" => d_mod = "tasklet"
    /\ d_life \in {"free_irq", "synchronize"} => d_mod \in {"tasklet", "workqueue"}
    /\ d_life = "flush" => d_mod = "workqueue"
    /\ d_life = "kthread_stop" => d_mod = "kthread"
    /\ d_thread # "none" => d_mod = "kthread" /\ d_life \in {"in", "kthread_stop"}

\* An allocated item is queued or being worked on, not both, for the module
\* with the workqueue; the tasklet is scheduled after tasklet_kill only when
\* an interrupt was late.
DeferWorkInv ==
    /\ d_pending \subseteq Node \cup {Deferred!Tasklet}
    /\ d_running \subseteq Node \cup {Deferred!Tasklet}
    /\ \A i \in Node : i \in d_heap <=> i \in d_pending \cup d_running
    /\ d_heap \subseteq Node
    /\ \A i \in Node : ~(i \in d_pending /\ i \in d_running)
    /\ d_mod # "workqueue" \/ d_life = "out" => d_heap = {}
    /\ Deferred!Tasklet \in d_pending \cup d_running =>
         d_late \/ (d_mod = "tasklet" /\ d_life \in {"in", "tasklet_kill"})

DeferInv == DeferIrqInv /\ DeferLifeInv /\ DeferWorkInv

\* The tasklet is not a work item.
LEMMA DeferNames == Deferred!Tasklet \notin Node
<1> QED BY NamesAssumption DEF Deferred!Tasklet

\* Loading preserves it: nothing is left of the module before, or it was late.
LEMMA DeferInsmod == ASSUME DeferInv, Deferred!Insmod PROVE DeferInv'
<1> USE DEF DeferInv, DeferIrqInv, DeferLifeInv, Deferred!Insmod, Deferred!InsmodTasklet,
            Deferred!InsmodWorkqueue, Deferred!InsmodKthread, Deferred!Free, Deferred!irqVars,
            Deferred!workVars, Deferred!threadVars
<1>1. DeferIrqInv' /\ DeferLifeInv'
  OBVIOUS
<1>2. UNCHANGED <<d_pending, d_running, d_heap, d_late>> /\ d_life = "out" /\ ~d_late
  OBVIOUS
<1>3. DeferWorkInv'
  BY <1>2 DEF DeferWorkInv
<1> QED BY <1>1, <1>3

\* So do the interrupt and the kernel thread.
LEMMA DeferIsr ==
    ASSUME DeferInv, Deferred!Press \/ Deferred!Isr \/ Deferred!KthreadFunc
    PROVE  DeferInv'
<1> USE DEF DeferInv, Deferred!irqVars, Deferred!workVars, Deferred!threadVars
<1>1. CASE Deferred!Press
  BY <1>1 DEF Deferred!Press, DeferIrqInv, DeferLifeInv, DeferWorkInv
<1>2. CASE Deferred!TaskletIsr
  <2>1. DeferIrqInv' /\ DeferLifeInv'
    BY <1>2 DEF Deferred!TaskletIsr, DeferIrqInv, DeferLifeInv
  <2>2. /\ UNCHANGED <<d_mod, d_life, d_running, d_heap>> /\ d_mod = "tasklet"
        /\ d_pending' = d_pending \cup {Deferred!Tasklet}
        /\ d_late' = (d_late \/ d_life \in {"free_irq", "synchronize"})
        /\ d_life \in {"in", "tasklet_kill", "free_irq", "synchronize"}
    BY <1>2 DEF Deferred!TaskletIsr, DeferIrqInv
  <2>3. DeferWorkInv'
    BY <2>2, DeferNames DEF DeferWorkInv
  <2> QED BY <2>1, <2>3
<1>3. CASE Deferred!WorkqueueIsr
  <2>1. DeferIrqInv' /\ DeferLifeInv'
    BY <1>3 DEF Deferred!WorkqueueIsr, DeferIrqInv, DeferLifeInv
  <2>2. /\ UNCHANGED <<d_mod, d_life, d_running, d_late>>
        /\ d_mod = "workqueue" /\ d_life # "out"
        /\ \/ UNCHANGED <<d_heap, d_pending>>
           \/ \E i \in Node \ d_heap :
                 d_heap' = d_heap \cup {i} /\ d_pending' = d_pending \cup {i}
    BY <1>3 DEF Deferred!WorkqueueIsr, DeferIrqInv
  <2>3. DeferWorkInv'
    BY <2>2, DeferNames DEF DeferWorkInv
  <2> QED BY <2>1, <2>3
<1>4. CASE Deferred!KthreadFunc
  <2>1. d_thread # "none" /\ UNCHANGED <<d_mod, d_life, d_irq, d_isr, d_pending, d_running, d_heap, d_late>>
    BY <1>4 DEF Deferred!KthreadFunc
  <2> QED BY <2>1 DEF DeferIrqInv, DeferLifeInv, DeferWorkInv
<1> QED BY <1>1, <1>2, <1>3, <1>4 DEF Deferred!Isr

\* Softirq and worker: an item is freed by the one that ran it.
LEMMA DeferDeferred == ASSUME DeferInv, Deferred!Deferred PROVE DeferInv'
<1> USE DEF DeferInv, Deferred!irqVars, Deferred!threadVars
<1>1. UNCHANGED <<d_mod, d_life, d_irq, d_isr, d_thread, d_late>>
  BY DEF Deferred!Deferred, Deferred!Begin, Deferred!TaskletFunc, Deferred!MyWorkFunc
<1>2. DeferIrqInv' /\ DeferLifeInv'
  BY <1>1 DEF DeferIrqInv, DeferLifeInv
<1>3. DeferWorkInv'
  <2>1. ASSUME NEW i \in Node \cup {Deferred!Tasklet}, Deferred!Begin(i) PROVE DeferWorkInv'
    BY <1>1, <2>1, DeferNames DEF DeferWorkInv, Deferred!Begin
  <2>2. CASE Deferred!TaskletFunc
    BY <1>1, <2>2, DeferNames DEF DeferWorkInv, Deferred!TaskletFunc
  <2>3. ASSUME NEW i \in Node, Deferred!MyWorkFunc(i) PROVE DeferWorkInv'
    BY <1>1, <2>3, DeferNames DEF DeferWorkInv, Deferred!MyWorkFunc
  <2> QED BY <2>1, <2>2, <2>3 DEF Deferred!Deferred
<1> QED BY <1>2, <1>3

\* The exit functions, call by call.
LEMMA DeferExit == ASSUME DeferInv, Deferred!Rmmod \/ Deferred!ExitCall PROVE DeferInv'
<1> USE DEF DeferInv, Deferred!irqVars, Deferred!workVars, Deferred!threadVars
<1>1. UNCHANGED <<d_mod, d_isr, d_thread, d_pending, d_running, d_heap, d_late>>
  BY DEF Deferred!Rmmod, Deferred!ExitCall, Deferred!TaskletKill, Deferred!FreeIrq, Deferred!Flush,
    Deferred!KthreadStop
<1>2. CASE Deferred!Rmmod
  <2>1. d_life = "in" /\ d_irq' = d_irq
        /\ d_life' = IF d_mod = "tasklet" THEN "tasklet_kill"
                     ELSE IF d_mod = "workqueue" THEN "free_irq" ELSE "kthread_stop"
    BY <1>2 DEF Deferred!Rmmod, Deferred!FirstCall, DeferLifeInv
  <2> QED BY <1>1, <2>1 DEF DeferIrqInv, DeferLifeInv, DeferWorkInv
<1>3. CASE Deferred!TaskletKill
  BY <1>1, <1>3 DEF Deferred!TaskletKill, DeferIrqInv, DeferLifeInv, DeferWorkInv
<1>4. CASE Deferred!FreeIrq
  <2>1. DeferIrqInv' /\ DeferLifeInv'
    BY <1>1, <1>4 DEF Deferred!FreeIrq, DeferIrqInv, DeferLifeInv
  <2>2. DeferWorkInv'
    BY <1>1, <1>4 DEF Deferred!FreeIrq, DeferLifeInv, DeferWorkInv
  <2> QED BY <2>1, <2>2
<1>5. CASE Deferred!Flush
  <2>1. DeferIrqInv' /\ DeferLifeInv'
    BY <1>1, <1>5 DEF Deferred!Flush, DeferIrqInv, DeferLifeInv
  <2>2. DeferWorkInv'
    BY <1>1, <1>5 DEF Deferred!Flush, Deferred!Flushed, DeferLifeInv, DeferWorkInv
  <2> QED BY <2>1, <2>2
<1>6. CASE Deferred!KthreadStop
  BY <1>1, <1>6 DEF Deferred!KthreadStop, DeferIrqInv, DeferLifeInv, DeferWorkInv
<1> QED BY <1>2, <1>3, <1>4, <1>5, <1>6 DEF Deferred!ExitCall

\* After the exit functions of lab11 no handler, no deferred work, no work
\* item and no thread of the module is left, whenever the switch is pressed,
\* unless an interrupt came between tasklet_kill and free_irq.
THEOREM DeferredNothingSurvives == Spec => []NothingSurvivesExit
<1>1. Init => DeferInv
  BY DEF Init, Deferred!Init, DeferInv, DeferIrqInv, DeferLifeInv, DeferWorkInv
<1>2. DeferInv /\ [Next]_vars => DeferInv'
  <2> SUFFICES ASSUME DeferInv, [Next]_vars PROVE DeferInv'
    OBVIOUS
  <2>1. CASE UNCHANGED deferredVars
    BY <2>1 DEF deferredVars, DeferInv, DeferIrqInv, DeferLifeInv, DeferWorkInv
  <2>2. CASE Deferred!Next
    BY <2>2, DeferInsmod, DeferIsr, DeferDeferred, DeferExit DEF Deferred!Next
  <2> QED BY <2>1, <2>2, OneMoves
<1>3. DeferInv => NothingSurvivesExit
  <2> SUFFICES ASSUME DeferInv, d_life = "out" PROVE Deferred!NothingSurvivesExit
    BY DEF NothingSurvivesExit, Deferred!NothingSurvivesExit
  <2>1. ~d_irq /\ ~d_isr /\ d_thread = "none" /\ d_heap = {}
    BY DEF DeferInv, DeferIrqInv, DeferLifeInv, DeferWorkInv
  <2>2. d_pending \cup d_running # {} => d_late
    BY <2>1 DEF DeferInv, DeferWorkInv
  <2> QED BY <2>1, <2>2 DEF Deferred!NothingSurvivesExit
<1> QED BY <1>1, <1>2, <1>3, PTL DEF Spec

-----------------------------------------------------------------------------
(* Pins and interrupts of the board. *)

BoardTypeOK ==
    /\ b_at \in [Loadable -> Nat]
    /\ \A m \in Loadable : b_at[m] <= Len(Pins!Calls(m)) + 1
    /\ b_owner \in [Pins!Pin -> Loadable \cup {Pins!None}]
    /\ b_handler \in [Pins!Pin -> Loadable \cup {Pins!None}]
    /\ b_param \in {5, 6}

BoardInv == BoardTypeOK /\ Pins!OwnsWhatItUses

\* What every row of Board's table must have for the argument: its names are
\* pins of the board, and in a careful one each failure branch releases exactly
\* the pins of the calls before, none of which is a request_irq.
RowOK(r) ==
    /\ Len(r.calls) \in Nat
    /\ \A i \in 1 .. Len(r.calls) : r.calls[i].pins \subseteq Pins!Pin /\ r.calls[i].irqs \subseteq Pins!Pin
    /\ r.careful =>
         \A i \in 1 .. Len(r.calls) :
            /\ \A n : n \in r.calls[i].undo <=> \E j \in 1 .. i - 1 : n \in r.calls[j].pins
            /\ \A j \in 1 .. i - 1 : r.calls[j].irqs = {}

\* The failure branches of ch6_init, ch7_mod_init and pi2_led_init are right,
\* and no module is called None.
LEMMA BoardRows ==
    ASSUME b_param \in {5, 6}
    PROVE  /\ Pins!None \notin Loadable
           /\ \A m \in Loadable : RowOK(Pins!Module[m])
           /\ \A i \in 1 .. Len(Pins!Pi2Led.calls) :
                Pins!Pi2Led.calls[i].pins \subseteq {b_param} /\ Pins!Pi2Led.calls[i].irqs = {}
           /\ Pins!Module["pi2_led"] = Pins!Pi2Led /\ Len(Pins!Pi2Led.calls) = 2
<1> USE DEF Pins!Pin, Pins!Gpio, Pins!Irq, Pins!Others, Pins!Careful, Pins!Careless
<1>1. RowOK(Pins!SimpleLed) /\ RowOK(Pins!SimpleSwitch)
  BY DEF RowOK, Pins!SimpleLed, Pins!SimpleSwitch
<1>2. RowOK(Pins!SwitchIrq) /\ RowOK(Pins!SimpleSensor) /\ RowOK(Pins!SpinIrq)
  BY DEF RowOK, Pins!SwitchIrq, Pins!SimpleSensor, Pins!SpinIrq
<1>3. RowOK(Pins!SimpleTasklet) /\ RowOK(Pins!SimpleWorkqueue) /\ RowOK(Pins!Ch9)
  BY DEF RowOK, Pins!SimpleTasklet, Pins!SimpleWorkqueue, Pins!Ch9
<1>4. RowOK(Pins!Ch6)
  BY DEF RowOK, Pins!Ch6
<1>5. RowOK(Pins!Ch7)
  BY DEF RowOK, Pins!Ch7
<1>6. RowOK(Pins!Pi2Led)
  BY DEF RowOK, Pins!Pi2Led
<1>7. /\ Len(Pins!Pi2Led.calls) = 2
      /\ \A i \in 1 .. Len(Pins!Pi2Led.calls) :
            Pins!Pi2Led.calls[i].pins \subseteq {b_param} /\ Pins!Pi2Led.calls[i].irqs = {}
  BY DEF Pins!Pi2Led
<1>8. \A m \in Loadable : RowOK(Pins!Module[m])
  BY <1>1, <1>2, <1>3, <1>4, <1>5, <1>6, LoadableAssumption DEF Pins!Names, Pins!Module
<1>9. Pins!None \notin Loadable /\ Pins!Module["pi2_led"] = Pins!Pi2Led
  BY LoadableAssumption DEF Pins!Names, Pins!None, Pins!Module
<1> QED BY <1>7, <1>8, <1>9

\* What m has asked for, call by call.
LEMMA BoardAsked ==
    ASSUME NEW m
    PROVE  /\ \A n : n \in Pins!Pins(m) <=> \E i \in 1 .. b_at[m] - 1 : n \in Pins!Calls(m)[i].pins
           /\ \A n : n \in Pins!Irqs(m) <=> \E i \in 1 .. b_at[m] - 1 : n \in Pins!Calls(m)[i].irqs
<1> QED BY DEF Pins!Pins, Pins!Irqs

\* The same after a step.
LEMMA BoardAskedPrime ==
    ASSUME NEW m
    PROVE  /\ \A n : n \in Pins!Pins(m)' <=> \E i \in 1 .. b_at'[m] - 1 : n \in Pins!Calls(m)'[i].pins
           /\ \A n : n \in Pins!Irqs(m)' <=> \E i \in 1 .. b_at'[m] - 1 : n \in Pins!Calls(m)'[i].irqs
<1> QED BY DEF Pins!Pins, Pins!Irqs

\* A step of one module's init or exit moves that module alone.
LEMMA BoardOthersStay ==
    ASSUME BoardTypeOK, NEW m \in Loadable, NEW i \in Nat, Pins!Goto(m, i), UNCHANGED b_param
    PROVE  /\ b_at' \in [Loadable -> Nat] /\ b_at'[m] = i
           /\ \A k \in Loadable : k # m => b_at'[k] = b_at[k]
           /\ \A k \in Loadable : Pins!Calls(k)' = Pins!Calls(k)
           /\ \A k \in Loadable : k # m => Pins!Pins(k)' = Pins!Pins(k) /\ Pins!Irqs(k)' = Pins!Irqs(k)
<1>1. /\ b_at' \in [Loadable -> Nat] /\ b_at'[m] = i
      /\ \A k \in Loadable : k # m => b_at'[k] = b_at[k]
  BY DEF BoardTypeOK, Pins!Goto
<1>2. \A k \in Loadable : Pins!Calls(k)' = Pins!Calls(k)
  BY DEF Pins!Calls, Pins!Module, Pins!Pi2Led
<1>3. \A k \in Loadable : k # m => Pins!Pins(k)' = Pins!Pins(k) /\ Pins!Irqs(k)' = Pins!Irqs(k)
  BY <1>1, <1>2 DEF Pins!Pins, Pins!Irqs
<1> QED BY <1>1, <1>2, <1>3

\* Moving the owners of some pins or interrupts keeps them owned.
LEMMA BoardGive ==
    ASSUME NEW table \in [Pins!Pin -> Loadable \cup {Pins!None}], NEW names,
           NEW whom \in Loadable \cup {Pins!None}
    PROVE  /\ Pins!Give(table, names, whom) \in [Pins!Pin -> Loadable \cup {Pins!None}]
           /\ \A n \in Pins!Pin :
                Pins!Give(table, names, whom)[n] = IF n \in names THEN whom ELSE table[n]
<1> QED BY DEF Pins!Give

\* One more call of m's init has been made.
LEMMA BoardNextCall ==
    ASSUME BoardTypeOK, NEW m \in Loadable, Pins!InInit(m), Pins!Goto(m, b_at[m] + 1), UNCHANGED b_param
    PROVE  /\ b_at' \in [Loadable -> Nat]
           /\ \A k \in Loadable : b_at'[k] <= Len(Pins!Calls(k)') + 1
           /\ \A n : n \in Pins!Pins(m)' <=> n \in Pins!Pins(m) \/ n \in Pins!Call(m).pins
           /\ \A n : n \in Pins!Irqs(m)' <=> n \in Pins!Irqs(m) \/ n \in Pins!Call(m).irqs
<1>1. b_at[m] \in Nat /\ b_at[m] \in 1 .. Len(Pins!Calls(m)) /\ Len(Pins!Calls(m)) \in Nat
  BY BoardRows DEF BoardTypeOK, Pins!InInit, RowOK, Pins!Calls
<1>2. /\ b_at' \in [Loadable -> Nat] /\ b_at'[m] = b_at[m] + 1
      /\ \A k \in Loadable : k # m => b_at'[k] = b_at[k]
      /\ \A k \in Loadable : Pins!Calls(k)' = Pins!Calls(k)
  BY <1>1, BoardOthersStay
<1>3. ASSUME NEW k \in Loadable PROVE b_at'[k] <= Len(Pins!Calls(k)') + 1
  <2>1. b_at[k] <= Len(Pins!Calls(k)) + 1 /\ Pins!Calls(k)' = Pins!Calls(k)
    BY <1>2 DEF BoardTypeOK
  <2> QED BY <1>1, <1>2, <2>1
<1>4. \A i : i \in 1 .. b_at'[m] - 1 <=> i \in 1 .. b_at[m] - 1 \/ i = b_at[m]
  BY <1>1, <1>2
<1>5. Pins!Call(m) = Pins!Calls(m)[b_at[m]]
  BY DEF Pins!Call
<1>6. Pins!Calls(m)' = Pins!Calls(m)
  BY <1>2
<1>7. \A n : n \in Pins!Pins(m)' <=> n \in Pins!Pins(m) \/ n \in Pins!Call(m).pins
  BY <1>4, <1>5, <1>6, BoardAsked, BoardAskedPrime
<1>8. \A n : n \in Pins!Irqs(m)' <=> n \in Pins!Irqs(m) \/ n \in Pins!Call(m).irqs
  BY <1>4, <1>5, <1>6, BoardAsked, BoardAskedPrime
<1> QED BY <1>2, <1>3, <1>7, <1>8

\* m is out again.
LEMMA BoardOut ==
    ASSUME BoardTypeOK, NEW m \in Loadable, Pins!Goto(m, 0), UNCHANGED b_param
    PROVE  /\ b_at' \in [Loadable -> Nat]
           /\ \A k \in Loadable : b_at'[k] <= Len(Pins!Calls(k)') + 1
           /\ Pins!Pins(m)' = {} /\ Pins!Irqs(m)' = {}
<1>1. /\ b_at' \in [Loadable -> Nat] /\ b_at'[m] = 0
      /\ \A k \in Loadable : k # m => b_at'[k] = b_at[k]
      /\ \A k \in Loadable : Pins!Calls(k)' = Pins!Calls(k)
  BY BoardOthersStay
<1>2. \A k \in Loadable : b_at'[k] <= Len(Pins!Calls(k)') + 1
  <2>1. \A k \in Loadable : Len(Pins!Calls(k)) \in Nat
    BY BoardRows DEF BoardTypeOK, RowOK, Pins!Calls
  <2> QED BY <1>1, <2>1 DEF BoardTypeOK
<1>3. 1 .. b_at'[m] - 1 = {}
  BY <1>1
<1> QED BY <1>1, <1>2, <1>3, BoardAskedPrime

\* insmod: nothing has been asked for yet.
LEMMA BoardInsmod ==
    ASSUME BoardInv, NEW m \in Loadable, Pins!Insmod(m)
    PROVE  BoardInv'
<1>1. BoardTypeOK /\ b_at[m] = 0 /\ Pins!Goto(m, 1) /\ UNCHANGED <<b_owner, b_handler, b_param, b_spoiled>>
  BY DEF BoardInv, Pins!Insmod
<1>2. /\ b_at' \in [Loadable -> Nat] /\ b_at'[m] = 1
      /\ \A k \in Loadable : k # m => b_at'[k] = b_at[k]
      /\ \A k \in Loadable : Pins!Calls(k)' = Pins!Calls(k)
      /\ \A k \in Loadable : k # m => Pins!Pins(k)' = Pins!Pins(k) /\ Pins!Irqs(k)' = Pins!Irqs(k)
  BY <1>1, BoardOthersStay
<1>3. BoardTypeOK'
  <2>1. \A k \in Loadable : Len(Pins!Calls(k)) \in Nat
    BY <1>1, BoardRows DEF BoardTypeOK, RowOK, Pins!Calls
  <2> QED BY <1>1, <1>2, <2>1 DEF BoardTypeOK
<1>4. 1 .. b_at[m] - 1 = {} /\ 1 .. b_at'[m] - 1 = {}
  BY <1>1, <1>2
<1>5. Pins!Pins(m) = {} /\ Pins!Pins(m)' = {} /\ Pins!Irqs(m) = {} /\ Pins!Irqs(m)' = {}
  BY <1>4, BoardAsked, BoardAskedPrime
<1>6. \A k \in Loadable : Pins!Pins(k)' = Pins!Pins(k) /\ Pins!Irqs(k)' = Pins!Irqs(k)
  BY <1>2, <1>5
<1> QED BY <1>1, <1>3, <1>6 DEF BoardInv, Pins!OwnsWhatItUses

\* A request that is granted: the pin was nobody's.
LEMMA BoardCallSucceeds ==
    ASSUME BoardInv, NEW m \in Loadable, Pins!CallSucceeds(m)
    PROVE  BoardInv'
<1>1. /\ BoardTypeOK /\ Pins!InInit(m) /\ Pins!Goto(m, b_at[m] + 1) /\ b_at[m] \in Nat
      /\ UNCHANGED <<b_param, b_spoiled>> /\ Pins!None \notin Loadable
      /\ b_owner' = Pins!Give(b_owner, Pins!Call(m).pins, m)
      /\ b_handler' = Pins!Give(b_handler, Pins!Call(m).irqs, m)
      /\ \A n \in Pins!Call(m).pins : b_owner[n] = Pins!None
      /\ \A n \in Pins!Call(m).irqs : b_handler[n] = Pins!None
  BY BoardRows DEF BoardInv, BoardTypeOK, Pins!CallSucceeds
<1>2. /\ \A k \in Loadable : k # m => Pins!Pins(k)' = Pins!Pins(k) /\ Pins!Irqs(k)' = Pins!Irqs(k)
      /\ \A n : n \in Pins!Pins(m)' <=> n \in Pins!Pins(m) \/ n \in Pins!Call(m).pins
      /\ \A n : n \in Pins!Irqs(m)' <=> n \in Pins!Irqs(m) \/ n \in Pins!Call(m).irqs
  BY <1>1, BoardNextCall, BoardOthersStay
<1>3. /\ b_owner' \in [Pins!Pin -> Loadable \cup {Pins!None}]
      /\ b_handler' \in [Pins!Pin -> Loadable \cup {Pins!None}]
      /\ \A n \in Pins!Pin : b_owner'[n] = IF n \in Pins!Call(m).pins THEN m ELSE b_owner[n]
      /\ \A n \in Pins!Pin : b_handler'[n] = IF n \in Pins!Call(m).irqs THEN m ELSE b_handler[n]
  BY <1>1, BoardGive DEF BoardTypeOK
<1>4. BoardTypeOK'
  BY <1>1, <1>3, BoardNextCall DEF BoardTypeOK
<1>5. \A n \in Pins!Pin \ b_spoiled', k \in Loadable :
         /\ b_owner'[n] = k <=> n \in Pins!Pins(k)'
         /\ b_handler'[n] = k <=> n \in Pins!Irqs(k)'
  BY <1>1, <1>2, <1>3 DEF BoardInv, Pins!OwnsWhatItUses
<1> QED BY <1>4, <1>5 DEF BoardInv, Pins!OwnsWhatItUses

\* m gives back all it has asked for, and is out: in the failure branch of a
\* careful init, and in every exit function.
LEMMA BoardReleases ==
    ASSUME BoardInv, NEW m \in Loadable, Pins!Goto(m, 0), UNCHANGED <<b_param, b_spoiled>>,
           b_owner' = Pins!Give(b_owner, Pins!Pins(m), Pins!None),
           b_handler' = Pins!Give(b_handler, Pins!Irqs(m), Pins!None)
    PROVE  BoardInv'
<1>1. BoardTypeOK /\ Pins!None \notin Loadable
  BY BoardRows DEF BoardInv, BoardTypeOK
<1>2. /\ \A k \in Loadable : k # m => Pins!Pins(k)' = Pins!Pins(k) /\ Pins!Irqs(k)' = Pins!Irqs(k)
      /\ Pins!Pins(m)' = {} /\ Pins!Irqs(m)' = {}
  BY <1>1, BoardOut, BoardOthersStay
<1>3. /\ b_owner' \in [Pins!Pin -> Loadable \cup {Pins!None}]
      /\ b_handler' \in [Pins!Pin -> Loadable \cup {Pins!None}]
      /\ \A n \in Pins!Pin : b_owner'[n] = IF n \in Pins!Pins(m) THEN Pins!None ELSE b_owner[n]
      /\ \A n \in Pins!Pin : b_handler'[n] = IF n \in Pins!Irqs(m) THEN Pins!None ELSE b_handler[n]
  BY <1>1, BoardGive DEF BoardTypeOK
<1>4. BoardTypeOK'
  BY <1>1, <1>3, BoardOut DEF BoardTypeOK
<1>5. \A n \in Pins!Pin \ b_spoiled', k \in Loadable :
         /\ b_owner'[n] = k <=> n \in Pins!Pins(k)'
         /\ b_handler'[n] = k <=> n \in Pins!Irqs(k)'
  BY <1>1, <1>2, <1>3 DEF BoardInv, Pins!OwnsWhatItUses
<1> QED BY <1>4, <1>5 DEF BoardInv, Pins!OwnsWhatItUses

\* A careful init that gives up has had exactly the pins it releases.
LEMMA BoardCallFails ==
    ASSUME BoardInv, NEW m \in Loadable, Pins!CallFails(m)
    PROVE  BoardInv'
<1>1. /\ BoardTypeOK /\ Pins!InInit(m) /\ Pins!Module[m].careful
      /\ Pins!Goto(m, 0) /\ UNCHANGED <<b_param, b_spoiled, b_handler>>
      /\ b_owner' = Pins!Give(b_owner, Pins!Call(m).undo, Pins!None)
      /\ Pins!Calls(m) = Pins!Module[m].calls /\ RowOK(Pins!Module[m])
  BY BoardRows DEF BoardInv, BoardTypeOK, Pins!CallFails, Pins!Undone, Pins!Calls
<1>2. /\ b_at[m] \in 1 .. Len(Pins!Calls(m))
      /\ \A n : n \in Pins!Call(m).undo <=> \E j \in 1 .. b_at[m] - 1 : n \in Pins!Calls(m)[j].pins
      /\ \A j \in 1 .. b_at[m] - 1 : Pins!Calls(m)[j].irqs = {}
  BY <1>1 DEF RowOK, Pins!InInit, Pins!Call
<1>3. Pins!Call(m).undo = Pins!Pins(m) /\ Pins!Irqs(m) = {}
  BY <1>2, BoardAsked
<1>4. b_handler' = Pins!Give(b_handler, Pins!Irqs(m), Pins!None)
  BY <1>1, <1>3 DEF BoardTypeOK, Pins!Give
<1> QED BY <1>1, <1>3, <1>4, BoardReleases

\* A careless init that goes on spoils the pin that it did not get.
LEMMA BoardFailsRegardless ==
    ASSUME BoardInv, NEW m \in Loadable, Pins!FailsRegardless(m)
    PROVE  BoardInv'
<1>1. /\ BoardTypeOK /\ Pins!InInit(m) /\ Pins!Goto(m, b_at[m] + 1) /\ b_at[m] \in Nat
      /\ UNCHANGED <<b_param, b_owner>> /\ Pins!None \notin Loadable
      /\ b_handler' = Pins!Give(b_handler, Pins!Call(m).irqs, Pins!None)
      /\ b_spoiled' = b_spoiled \cup Pins!Call(m).pins \cup Pins!Call(m).irqs
  BY BoardRows DEF BoardInv, BoardTypeOK, Pins!FailsRegardless
<1>2. /\ \A k \in Loadable : k # m => Pins!Pins(k)' = Pins!Pins(k) /\ Pins!Irqs(k)' = Pins!Irqs(k)
      /\ \A n : n \in Pins!Pins(m)' <=> n \in Pins!Pins(m) \/ n \in Pins!Call(m).pins
      /\ \A n : n \in Pins!Irqs(m)' <=> n \in Pins!Irqs(m) \/ n \in Pins!Call(m).irqs
  BY <1>1, BoardNextCall, BoardOthersStay
<1>3. /\ b_handler' \in [Pins!Pin -> Loadable \cup {Pins!None}]
      /\ \A n \in Pins!Pin : b_handler'[n] = IF n \in Pins!Call(m).irqs THEN Pins!None ELSE b_handler[n]
  BY <1>1, BoardGive DEF BoardTypeOK
<1>4. BoardTypeOK'
  BY <1>1, <1>3, BoardNextCall DEF BoardTypeOK
<1>5. \A n \in Pins!Pin \ b_spoiled', k \in Loadable :
         /\ b_owner'[n] = k <=> n \in Pins!Pins(k)'
         /\ b_handler'[n] = k <=> n \in Pins!Irqs(k)'
  BY <1>1, <1>2, <1>3 DEF BoardInv, Pins!OwnsWhatItUses
<1> QED BY <1>4, <1>5 DEF BoardInv, Pins!OwnsWhatItUses

\* Every exit function releases what init has asked for.
LEMMA BoardUnload ==
    ASSUME BoardInv, NEW m \in Loadable, Pins!Unload(m)
    PROVE  BoardInv'
<1> QED BY BoardReleases DEF Pins!Unload

\* A write to led_gpio finds the driver with no pin, or spoils both pins.
LEMMA BoardParamStep ==
    ASSUME BoardInv, NEW n \in {5, 6}, "pi2_led" \in Loadable, Pins!SetLedGpio(n)
    PROVE  BoardInv'
<1>1. /\ BoardTypeOK /\ b_param \in {5, 6} /\ b_param' = n /\ UNCHANGED <<b_at, b_owner, b_handler>>
      /\ b_spoiled' = IF b_at["pi2_led"] > 1 THEN b_spoiled \cup {b_param, n} ELSE b_spoiled
      /\ b_at["pi2_led"] \in Nat
  BY DEF BoardInv, BoardTypeOK, Pins!SetLedGpio
<1>2. \A k \in Loadable : k # "pi2_led" => Pins!Calls(k)' = Pins!Calls(k)
  <2>1. /\ UNCHANGED <<Pins!SimpleLed, Pins!SimpleSwitch, Pins!SwitchIrq, Pins!SimpleSensor>>
        /\ UNCHANGED <<Pins!SpinIrq, Pins!SimpleTasklet, Pins!SimpleWorkqueue>>
        /\ UNCHANGED <<Pins!Ch9, Pins!Ch6, Pins!Ch7>>
    BY DEF Pins!SimpleLed, Pins!SimpleSwitch, Pins!SwitchIrq, Pins!SimpleSensor, Pins!SpinIrq,
       Pins!SimpleTasklet, Pins!SimpleWorkqueue, Pins!Ch9, Pins!Ch6, Pins!Ch7, Pins!Gpio,
       Pins!Irq, Pins!Careful, Pins!Careless
  <2>2. \A k \in Pins!Names : k # "pi2_led" => Pins!Module[k]' = Pins!Module[k]
    BY <2>1 DEF Pins!Names, Pins!Module
  <2> QED BY <2>2, LoadableAssumption DEF Pins!Calls
<1>3. \A k \in Loadable : k # "pi2_led" => Pins!Pins(k)' = Pins!Pins(k) /\ Pins!Irqs(k)' = Pins!Irqs(k)
  BY <1>1, <1>2 DEF Pins!Pins, Pins!Irqs
<1>4. /\ Len(Pins!Calls("pi2_led")) = 2
      /\ \A i \in 1 .. 2 : /\ Pins!Calls("pi2_led")[i].pins \subseteq {b_param}
                           /\ Pins!Calls("pi2_led")[i].irqs = {}
  BY <1>1, BoardRows DEF Pins!Calls
<1>5. /\ Len(Pins!Calls("pi2_led")') = 2
      /\ \A i \in 1 .. 2 : /\ Pins!Calls("pi2_led")'[i].pins \subseteq {n}
                           /\ Pins!Calls("pi2_led")'[i].irqs = {}
  BY <1>1 DEF Pins!Calls, Pins!Module, Pins!Pi2Led, Pins!Gpio, Pins!Others, Pins!Careful
<1>6. BoardTypeOK'
  BY <1>1, <1>2, <1>4, <1>5 DEF BoardTypeOK
<1>7. b_at["pi2_led"] - 1 <= 2
  <2>1. b_at["pi2_led"] <= Len(Pins!Calls("pi2_led")) + 1
    BY <1>1 DEF BoardTypeOK
  <2>2. Len(Pins!Calls("pi2_led")) = 2 /\ b_at["pi2_led"] \in Nat
    BY <1>1, <1>4
  <2> DEFINE k == b_at["pi2_led"]  l == Len(Pins!Calls("pi2_led"))
  <2>3. k \in Nat /\ l = 2 /\ k <= l + 1
    BY <2>1, <2>2
  <2> HIDE DEF k, l
  <2>4. k - 1 <= 2
    BY <2>3
  <2> QED BY <2>4 DEF k
<1>8. /\ Pins!Pins("pi2_led") \subseteq {b_param} /\ Pins!Pins("pi2_led")' \subseteq {n}
      /\ Pins!Irqs("pi2_led") = {} /\ Pins!Irqs("pi2_led")' = {}
  <2>1. \A i \in 1 .. b_at["pi2_led"] - 1 : i \in 1 .. 2
    BY <1>1, <1>7
  <2>2. b_at' = b_at
    BY <1>1
  <2> QED BY <1>4, <1>5, <2>1, <2>2, BoardAsked, BoardAskedPrime
<1>9. CASE b_at["pi2_led"] > 1
  BY <1>1, <1>3, <1>6, <1>8, <1>9 DEF BoardInv, Pins!OwnsWhatItUses
<1>10. CASE ~(b_at["pi2_led"] > 1)
  <2>1. 1 .. b_at["pi2_led"] - 1 = {}
    BY <1>1, <1>10
  <2>2. Pins!Pins("pi2_led") = {} /\ Pins!Pins("pi2_led")' = {}
    BY <1>1, <2>1, BoardAsked, BoardAskedPrime
  <2> QED BY <1>1, <1>3, <1>6, <1>8, <1>10, <2>2 DEF BoardInv, Pins!OwnsWhatItUses
<1> QED BY <1>9, <1>10

\* Whatever modules of the labs are loaded and unloaded on one board, with
\* their init functions overlapping and failing anywhere: of every pin that no
\* careless init failed to get and that led_gpio was not moved to or from under
\* the driver, the owner is the module that has asked for it.
THEOREM BoardOwnsWhatItUses == Spec => []OwnsWhatItUses
<1>1. Init => BoardInv
  <2> SUFFICES ASSUME Init PROVE BoardInv
    OBVIOUS
  <2>1. /\ b_param \in {5, 6} /\ b_at = [m \in Loadable |-> 0]
        /\ b_owner = [n \in Pins!Pin |-> Pins!None] /\ b_handler = [n \in Pins!Pin |-> Pins!None]
    BY DEF Init, Pins!Init, Pins!DEFAULT_LED_GPIO
  <2>2. Pins!None \notin Loadable /\ \A m \in Loadable : Len(Pins!Calls(m)) \in Nat
    BY <2>1, BoardRows DEF RowOK, Pins!Calls
  <2>3. BoardTypeOK
    BY <2>1, <2>2 DEF BoardTypeOK
  <2>4. \A m \in Loadable : 1 .. b_at[m] - 1 = {}
    BY <2>1
  <2>5. \A m \in Loadable : Pins!Pins(m) = {} /\ Pins!Irqs(m) = {}
    BY <2>4, BoardAsked
  <2> QED BY <2>1, <2>2, <2>3, <2>5 DEF BoardInv, Pins!OwnsWhatItUses
<1>2. BoardInv /\ [Next]_vars => BoardInv'
  <2> SUFFICES ASSUME BoardInv, [Next]_vars PROVE BoardInv'
    OBVIOUS
  <2>1. CASE UNCHANGED pinsVars
    <3>1. \A m \in Loadable : Pins!Calls(m)' = Pins!Calls(m)
      BY <2>1 DEF pinsVars, Pins!Calls, Pins!Module, Pins!Pi2Led
    <3>2. \A m \in Loadable : Pins!Pins(m)' = Pins!Pins(m) /\ Pins!Irqs(m)' = Pins!Irqs(m)
      BY <2>1, <3>1 DEF pinsVars, Pins!Pins, Pins!Irqs
    <3> QED BY <2>1, <3>1, <3>2 DEF pinsVars, BoardInv, BoardTypeOK, Pins!OwnsWhatItUses
  <2>2. CASE Pins!Next
    BY <2>2, BoardInsmod, BoardCallSucceeds, BoardCallFails, BoardFailsRegardless, BoardUnload,
       BoardParamStep DEF Pins!Next
  <2> QED BY <2>1, <2>2, OneMoves
<1>3. BoardInv => OwnsWhatItUses
  BY DEF BoardInv, OwnsWhatItUses
<1> QED BY <1>1, <1>2, <1>3, PTL DEF Spec

-----------------------------------------------------------------------------
(* The polling timer of ch6. *)

\* The pins of ch6_init and who undoes them.
LEMMA PollLadder ==
    /\ Len(Poll!Ladder) = 2 /\ Poll!Loaded = 3
    /\ Poll!Ladder[1].gets = {"led"} /\ Poll!Ladder[1].undo = {}
    /\ Poll!Ladder[2].gets = {"switch"} /\ Poll!Ladder[2].undo = {"led"}
<1>1. Len(Poll!Ladder) = 2
  BY DEF Poll!Ladder
<1>2. Poll!Ladder[1].gets = {"led"} /\ Poll!Ladder[1].undo = {}
  BY DEF Poll!Ladder
<1>3. Poll!Ladder[2].gets = {"switch"} /\ Poll!Ladder[2].undo = {"led"}
  BY DEF Poll!Ladder
<1> QED BY <1>1, <1>2, <1>3 DEF Poll!Loaded

\* Pins are held as far as init has come; there is no timer before init has
\* armed it, and none after del_timer unless the callback was caught at work.
PollInv ==
    /\ t_step \in 0 .. 3
    /\ t_step \in {0, 1} => t_held = {}
    /\ t_step = 2 => t_held = {"led"}
    /\ t_step = 3 => t_held = {"led", "switch"}
    /\ t_step \in {1, 2} => ~t_pending /\ t_cb = "idle" /\ t_exit = "no"
    /\ t_exit \in {"led_off", "free"} => t_step = 3
    /\ t_exit = "done" => t_step = 0
    /\ t_step = 0 \/ t_exit \in {"led_off", "free"} => (t_pending \/ t_cb # "idle" => t_caught)

\* After ch6_exit no pin is held, and timer or callback outlive it only when
\* del_timer met the callback in the middle of its work, however ticks, the
\* callback and rmmod interleave.
THEOREM PollOutlives == Spec => []OutlivesOnlyIfCaught
<1>1. Init => PollInv
  BY DEF Init, Poll!Init, PollInv
<1>2. PollInv /\ [Next]_vars => PollInv'
  <2> SUFFICES ASSUME PollInv, [Next]_vars PROVE PollInv'
    OBVIOUS
  <2> USE DEF PollInv, Poll!modVars
  <2>1. CASE UNCHANGED pollVars
    BY <2>1 DEF pollVars
  <2>2. CASE Poll!Insmod
    BY <2>2 DEF Poll!Insmod
  <2>3. CASE Poll!InitCallFails
    <3>1. CASE t_step = 1
      BY <2>3, <3>1, PollLadder DEF Poll!InitCallFails
    <3>2. CASE t_step = 2
      BY <2>3, <3>2, PollLadder DEF Poll!InitCallFails
    <3> QED BY <2>3, <3>1, <3>2, PollLadder DEF Poll!InitCallFails
  <2>4. CASE Poll!InitCallSucceeds
    <3>1. CASE t_step = 1
      BY <2>4, <3>1, PollLadder DEF Poll!InitCallSucceeds
    <3>2. CASE t_step = 2
      BY <2>4, <3>2, PollLadder DEF Poll!InitCallSucceeds
    <3> QED BY <2>4, <3>1, <3>2, PollLadder DEF Poll!InitCallSucceeds
  <2>5. CASE Poll!Tick \/ Poll!Flip
    BY <2>5 DEF Poll!Tick, Poll!Flip
  <2>6. CASE Poll!Callback
    BY <2>6 DEF Poll!Callback, Poll!TimerFires, Poll!GetSwitch, Poll!SetLed, Poll!Rearm
  <2>7. CASE Poll!ExitDelTimer
    BY <2>7, PollLadder DEF Poll!ExitDelTimer, Poll!Armed
  <2>8. CASE Poll!ExitLedOff \/ Poll!ExitFree
    BY <2>8 DEF Poll!ExitLedOff, Poll!ExitFree
  <2> QED BY <2>1, <2>2, <2>3, <2>4, <2>5, <2>6, <2>7, <2>8, OneMoves DEF Poll!Next
<1>3. PollInv => OutlivesOnlyIfCaught
  BY DEF PollInv, OutlivesOnlyIfCaught, Poll!OutlivesOnlyIfCaught
<1> QED BY <1>1, <1>2, <1>3, PTL DEF Spec

-----------------------------------------------------------------------------
(* ch3: the message queue without blocking, and writers that die. *)

\* Where a process must still link or free a node.
Ch3Holds == {"r_del", "r_copy", "w_fill", "w_lock", "w_add"}
Ch3Text == Msg \cup {Queue!Garbled}

Ch3TypeOK ==
    /\ q_queue \in Seq(Node)
    /\ q_heap \subseteq Node
    /\ q_text \in [Node -> Ch3Text \cup {Queue!None}]
    /\ q_pc \in [Proc -> {"user", "dead", "r_lock", "r_first", "r_del", "r_copy",
                          "w_alloc", "w_fill", "w_lock", "w_add"}]
    /\ q_node \in [Proc -> Node \cup {Queue!None}]
    /\ q_temp \in [Proc -> Ch3Text \cup {Queue!None}]

\* Whoever is in a critical section holds my_lock; nobody is inside the
\* driver while it is not loaded.
Ch3LockInv ==
    /\ \A p \in Proc : q_pc[p] \in {"r_first", "r_del", "w_add"} => q_my_lock = p
    /\ ~q_loaded => q_queue = <<>> /\ \A p \in Proc : q_pc[p] \in {"user", "dead"}

\* A process inside has a node exactly where it must see to one; until
\* list_del that is the first of the list, and temp_msg its message.
Ch3NodeInv ==
    \A p \in Proc :
        /\ q_pc[p] \in Ch3Holds => q_node[p] # Queue!None
        /\ q_node[p] # Queue!None => q_pc[p] \in Ch3Holds \cup {"dead"}
        /\ q_pc[p] = "r_del" =>
             q_queue # <<>> /\ q_node[p] = Head(q_queue) /\ q_temp[p] = q_text[q_node[p]]

Ch3HeapInv ==
    /\ \A n \in Node : n \in q_heap <=> n \in Elems(q_queue) \/ \E p \in Proc : q_node[p] = n
    /\ \A p, q \in Proc : p # q /\ q_node[p] # Queue!None => q_node[p] # q_node[q]
    /\ \A p \in Proc : q_node[p] \in Elems(q_queue) => q_pc[p] = "r_del"
    /\ NoDup(q_queue)

Ch3TextInv ==
    /\ \A n \in Elems(q_queue) : q_text[n] \in Ch3Text
    /\ \A p \in Proc :
          /\ q_pc[p] \in {"w_lock", "w_add"} => q_text[q_node[p]] \in Ch3Text
          /\ q_pc[p] \in {"r_del", "r_copy"} => q_temp[p] \in Ch3Text

Ch3Inv == Ch3TypeOK /\ Ch3LockInv /\ Ch3NodeInv /\ Ch3HeapInv /\ Ch3TextInv

\* Nobody, no address and no content is called None.
LEMMA Ch3Names == Queue!None \notin Proc /\ Queue!None \notin Node /\ Queue!None \notin Ch3Text
<1> QED BY NamesAssumption DEF Queue!None, Ch3Text, Queue!Garbled

\* The elements of the list are addresses.
LEMMA Ch3Elems == ASSUME Ch3TypeOK PROVE Elems(q_queue) \subseteq Node
<1> QED BY ElementOfSeq DEF Ch3TypeOK, Elems

\* The invariant of ch3 says what HeapExact asks for.
LEMMA Ch3InvSafe == ASSUME Ch3Inv PROVE HeapExact
<1>0. Ch3TypeOK /\ Ch3LockInv /\ Ch3NodeInv /\ Ch3HeapInv
  BY DEF Ch3Inv
<1>1. Queue!Linked = Elems(q_queue)
  BY DEF Queue!Linked, Elems
<1>2. q_heap = Queue!Linked \cup Queue!Owned
  <2>1. Queue!Linked \cup Queue!Owned \subseteq Node
    BY <1>0, <1>1, Ch3Elems DEF Queue!Owned, Ch3TypeOK
  <2>2. \A n \in Node : n \in Queue!Owned <=> \E p \in Proc : q_node[p] = n
    BY Ch3Names DEF Queue!Owned
  <2>3. \A n \in Node : n \in q_heap <=> n \in Queue!Linked \cup Queue!Owned
    BY <1>0, <1>1, <2>2 DEF Ch3HeapInv
  <2> QED BY <1>0, <2>1, <2>3 DEF Ch3TypeOK
<1>3. ~q_loaded => \A n \in q_heap : \E p \in Proc : q_pc[p] = "dead" /\ q_node[p] = n
  <2> SUFFICES ASSUME ~q_loaded, NEW n \in q_heap
               PROVE  \E p \in Proc : q_pc[p] = "dead" /\ q_node[p] = n
    OBVIOUS
  <2>1. Elems(q_queue) = {}
    BY <1>0, EmptySeq DEF Ch3LockInv, Elems
  <2>2. PICK p \in Proc : q_node[p] = n
    BY <1>0, <2>1 DEF Ch3HeapInv, Ch3TypeOK
  <2> QED BY <1>0, <2>2, Ch3Names DEF Ch3LockInv, Ch3NodeInv, Ch3Holds, Ch3TypeOK
<1> QED BY <1>0, <1>1, <1>2, <1>3 DEF HeapExact, Queue!HeapExact, Ch3HeapInv, NoDup

\* A module that was never loaded has no list and no node.
LEMMA Ch3InitInv == ASSUME Queue!Init PROVE Ch3Inv
<1>1. q_queue = <<>> /\ Elems(q_queue) = {} /\ NoDup(q_queue) /\ q_queue \in Seq(Node)
  BY EmptySeq DEF Queue!Init, Elems, NoDup
<1>2. Ch3TypeOK
  BY <1>1 DEF Queue!Init, Ch3TypeOK
<1>3. Ch3LockInv /\ Ch3NodeInv
  BY <1>1 DEF Queue!Init, Ch3LockInv, Ch3NodeInv, Ch3Holds
<1>4. Ch3HeapInv /\ Ch3TextInv
  BY <1>1, Ch3Names DEF Queue!Init, Ch3HeapInv, Ch3TextInv
<1> QED BY <1>2, <1>3, <1>4 DEF Ch3Inv

\* Calls, the lock and the empty list leave list, heap and nodes alone.
LEMMA Ch3PassingStep ==
    ASSUME Ch3Inv, NEW p \in Proc, Queue!Ioctl(p) \/ Queue!SpinLock(p) \/ Queue!ReadEmpty(p)
    PROVE  Ch3Inv'
<1>0. Ch3TypeOK /\ Ch3LockInv /\ Ch3NodeInv /\ Ch3HeapInv /\ Ch3TextInv
  BY DEF Ch3Inv
<1> USE DEF Queue!Ioctl, Queue!SpinLock, Queue!ReadEmpty, Queue!Goto
<1>1. /\ UNCHANGED <<q_loaded, q_queue, q_heap, q_text, q_node, q_temp>>
      /\ \A q \in Proc : q # p => q_pc'[q] = q_pc[q]
      /\ q_pc'[p] \in Ch3Holds <=> q_pc[p] \in Ch3Holds
      /\ q_pc'[p] # "r_del" /\ q_pc[p] # "r_del"
      /\ q_pc[p] # "dead" /\ q_pc'[p] # "dead" /\ q_pc'[p] # "r_copy"
      /\ q_pc'[p] \in {"w_lock", "w_add"} => q_pc[p] \in {"w_lock", "w_add"}
      /\ q_loaded
  BY <1>0 DEF Ch3TypeOK, Ch3Holds, Ch3LockInv
<1>2. Ch3TypeOK'
  BY <1>0 DEF Ch3TypeOK
<1>3. Ch3LockInv'
  BY <1>0, <1>1, Ch3Names DEF Ch3LockInv, Ch3TypeOK
<1>4. Ch3NodeInv'
  BY <1>0, <1>1 DEF Ch3NodeInv
<1>5. Ch3HeapInv'
  BY <1>0, <1>1 DEF Ch3HeapInv
<1>6. Ch3TextInv'
  BY <1>0, <1>1 DEF Ch3TextInv
<1> QED BY <1>2, <1>3, <1>4, <1>5, <1>6 DEF Ch3Inv

\* ch3_init and ch3_exit: nobody is inside, so the list and the nodes of the
\* dead are all there is.
LEMMA Ch3LoadStep == ASSUME Ch3Inv, Queue!Insmod \/ Queue!Exit PROVE Ch3Inv'
<1>0. Ch3TypeOK /\ Ch3LockInv /\ Ch3NodeInv /\ Ch3HeapInv /\ Ch3TextInv
  BY DEF Ch3Inv
<1>1. \A p \in Proc : q_pc[p] \in {"user", "dead"}
  BY <1>0 DEF Queue!Insmod, Queue!Exit, Queue!Outside, Ch3LockInv
<1>2. UNCHANGED <<q_text, q_pc, q_node, q_temp>> /\ q_queue' = <<>> /\ q_heap' = q_heap \ Elems(q_queue)
  <2>1. CASE Queue!Insmod
    <3>1. Elems(q_queue) = {}
      BY <1>0, <2>1, EmptySeq DEF Queue!Insmod, Ch3LockInv, Elems
    <3> QED BY <2>1, <3>1 DEF Queue!Insmod
  <2>2. CASE Queue!Exit
    BY <2>2 DEF Queue!Exit, Queue!Linked, Elems
  <2> QED BY <2>1, <2>2
<1>3. Elems(q_queue') = {} /\ NoDup(q_queue') /\ q_queue' \in Seq(Node)
  BY <1>2, EmptySeq DEF Elems, NoDup
<1>4. Ch3TypeOK' /\ Ch3LockInv'
  BY <1>0, <1>1, <1>2, <1>3 DEF Ch3TypeOK, Ch3LockInv
<1>5. Ch3NodeInv' /\ Ch3TextInv'
  BY <1>0, <1>1, <1>2, <1>3 DEF Ch3NodeInv, Ch3TextInv
<1>6. Ch3HeapInv'
  <2>1. \A p \in Proc : q_node[p] \notin Elems(q_queue)
    BY <1>0, <1>1 DEF Ch3HeapInv
  <2> QED BY <1>0, <1>2, <1>3, <2>1 DEF Ch3HeapInv
<1> QED BY <1>4, <1>5, <1>6 DEF Ch3Inv

\* The reader notes the first node and copies its message.
LEMMA Ch3ReadFirstStep == ASSUME Ch3Inv, NEW p \in Proc, Queue!ReadFirst(p) PROVE Ch3Inv'
<1>0. Ch3TypeOK /\ Ch3LockInv /\ Ch3NodeInv /\ Ch3HeapInv /\ Ch3TextInv
  BY DEF Ch3Inv
<1>1. q_queue # <<>> /\ Head(q_queue) \in Elems(q_queue) /\ Head(q_queue) \in Node
  BY <1>0, TailElems DEF Queue!ReadFirst, Ch3TypeOK, Ch3HeapInv
<1>2. UNCHANGED <<q_queue, q_heap, q_text, q_loaded, q_my_lock>>
  BY DEF Queue!ReadFirst
<1>3. Ch3TypeOK'
  BY <1>0, <1>1 DEF Queue!ReadFirst, Queue!Goto, Ch3TypeOK
<1>4. \A q \in Proc : q_node[q] \notin Elems(q_queue)
  BY <1>0 DEF Queue!ReadFirst, Ch3LockInv, Ch3HeapInv
<1>5. /\ q_node'[p] = Head(q_queue) /\ q_pc'[p] = "r_del" /\ q_temp'[p] = q_text[Head(q_queue)]
      /\ q_node[p] = Queue!None /\ q_pc[p] = "r_first"
      /\ \A q \in Proc : q # p => /\ q_node'[q] = q_node[q] /\ q_pc'[q] = q_pc[q]
                                  /\ q_temp'[q] = q_temp[q]
  BY <1>0 DEF Queue!ReadFirst, Queue!Goto, Ch3TypeOK, Ch3NodeInv, Ch3Holds
<1>6. Ch3LockInv'
  BY <1>0, <1>2, <1>5 DEF Ch3LockInv
<1>7. Ch3NodeInv'
  BY <1>0, <1>1, <1>2, <1>5, Ch3Names DEF Ch3NodeInv, Ch3Holds
<1>8. Ch3HeapInv'
  <2>1. \A n \in Node : n \in q_heap' <=> n \in Elems(q_queue') \/ \E q \in Proc : q_node'[q] = n
    BY <1>0, <1>1, <1>2, <1>5, Ch3Names DEF Ch3HeapInv
  <2>2. \A q, r \in Proc : q # r /\ q_node'[q] # Queue!None => q_node'[q] # q_node'[r]
    BY <1>0, <1>1, <1>4, <1>5, Ch3Names DEF Ch3HeapInv
  <2>3. \A q \in Proc : q_node'[q] \in Elems(q_queue') => q_pc'[q] = "r_del"
    BY <1>2, <1>4, <1>5
  <2> QED BY <1>0, <1>2, <2>1, <2>2, <2>3 DEF Ch3HeapInv
<1>9. Ch3TextInv'
  BY <1>0, <1>1, <1>2, <1>5 DEF Ch3TextInv
<1> QED BY <1>3, <1>6, <1>7, <1>8, <1>9 DEF Ch3Inv

\* list_del takes off the node in the reader's hands, which is the first.
LEMMA Ch3DelTakesHead ==
    ASSUME Ch3Inv, NEW p \in Proc, Queue!ReadDel(p)
    PROVE  /\ q_queue # <<>> /\ q_node[p] = Head(q_queue) /\ q_queue' = Tail(q_queue)
           /\ Elems(q_queue') = Elems(q_queue) \ {q_node[p]} /\ q_node[p] \in Elems(q_queue)
           /\ NoDup(q_queue') /\ q_queue' \in Seq(Node)
<1>0. Ch3TypeOK /\ Ch3NodeInv /\ Ch3HeapInv
  BY DEF Ch3Inv
<1>1. q_queue # <<>> /\ q_node[p] = Head(q_queue) /\ q_queue \in Seq(Node) /\ NoDup(q_queue)
  BY <1>0 DEF Queue!ReadDel, Ch3NodeInv, Ch3TypeOK, Ch3HeapInv
<1>2. /\ Tail(q_queue) \in Seq(Node) /\ Head(q_queue) \in Elems(q_queue)
      /\ Elems(Tail(q_queue)) = Elems(q_queue) \ {Head(q_queue)} /\ NoDup(Tail(q_queue))
  BY <1>1, TailElems
<1>3. Queue!Unlink(q_node[p]) = Tail(q_queue)
  <2> DEFINE k == CHOOSE i \in 1 .. Len(q_queue) : q_queue[i] = q_node[p]
  <2>1. \E i \in 1 .. Len(q_queue) : q_queue[i] = q_node[p]
    BY <1>1, <1>2 DEF Elems
  <2>2. k \in 1 .. Len(q_queue) /\ q_queue[k] = Head(q_queue)
    BY <1>1, <2>1
  <2>3. Queue!Unlink(q_node[p])
          = [i \in 1 .. Len(q_queue) - 1 |-> IF i < k THEN q_queue[i] ELSE q_queue[i + 1]]
    BY DEF Queue!Unlink
  <2> HIDE DEF k
  <2> QED BY <1>1, <2>2, <2>3, RemoveHead
<1> QED BY <1>1, <1>2, <1>3 DEF Queue!ReadDel

\* list_del takes the first node: nobody else can, under my_lock.
LEMMA Ch3ReadDelStep == ASSUME Ch3Inv, NEW p \in Proc, Queue!ReadDel(p) PROVE Ch3Inv'
<1>0. Ch3TypeOK /\ Ch3LockInv /\ Ch3NodeInv /\ Ch3HeapInv /\ Ch3TextInv
  BY DEF Ch3Inv
<1>1. UNCHANGED <<q_loaded, q_heap, q_text, q_node, q_temp>> /\ q_my_lock' = Queue!None
  BY DEF Queue!ReadDel
<1>2. /\ q_pc[p] = "r_del" /\ q_pc'[p] = "r_copy" /\ \A q \in Proc : q # p => q_pc'[q] = q_pc[q]
      /\ \A q \in Proc : q # p => q_pc[q] \notin {"r_first", "r_del", "w_add"}
  BY <1>0 DEF Queue!ReadDel, Queue!Goto, Ch3TypeOK, Ch3LockInv
<1>3. Ch3TypeOK'
  BY <1>0, <1>1, Ch3DelTakesHead DEF Queue!ReadDel, Queue!Goto, Ch3TypeOK
<1>4. Ch3LockInv'
  BY <1>0, <1>1, <1>2 DEF Ch3LockInv
<1>5. Ch3NodeInv'
  BY <1>0, <1>1, <1>2 DEF Ch3NodeInv, Ch3Holds
<1>6. Ch3HeapInv'
  <2>1. \A n \in Node : n \in q_heap' <=> n \in Elems(q_queue') \/ \E q \in Proc : q_node'[q] = n
    BY <1>0, <1>1, Ch3DelTakesHead DEF Ch3HeapInv
  <2>2. \A q \in Proc : q_node'[q] \in Elems(q_queue') => q_pc'[q] = "r_del"
    BY <1>0, <1>1, <1>2, Ch3DelTakesHead DEF Ch3HeapInv
  <2> QED BY <1>0, <1>1, <2>1, <2>2, Ch3DelTakesHead DEF Ch3HeapInv
<1>7. Ch3TextInv'
  BY <1>0, <1>1, <1>2, Ch3DelTakesHead DEF Ch3TextInv
<1> QED BY <1>3, <1>4, <1>5, <1>6, <1>7 DEF Ch3Inv

\* kfree of the node in the reader's hands.
LEMMA Ch3ReadCopyStep == ASSUME Ch3Inv, NEW p \in Proc, Queue!ReadCopy(p) PROVE Ch3Inv'
<1>0. Ch3TypeOK /\ Ch3LockInv /\ Ch3NodeInv /\ Ch3HeapInv /\ Ch3TextInv
  BY DEF Ch3Inv
<1>1. /\ q_pc[p] = "r_copy" /\ q_pc'[p] = "user" /\ q_node'[p] = Queue!None
      /\ \A q \in Proc : q # p => /\ q_pc'[q] = q_pc[q] /\ q_node'[q] = q_node[q]
                                  /\ q_temp'[q] = q_temp[q]
      /\ UNCHANGED <<q_loaded, q_queue, q_text, q_my_lock>> /\ q_heap' = q_heap \ {q_node[p]}
  BY <1>0 DEF Ch3TypeOK, Queue!ReadCopy, Queue!Goto
<1>2. q_node[p] # Queue!None /\ q_node[p] \in Node /\ q_node[p] \notin Elems(q_queue)
  BY <1>0, <1>1 DEF Ch3NodeInv, Ch3HeapInv, Ch3Holds, Ch3TypeOK
<1>3. Ch3TypeOK'
  BY <1>0 DEF Ch3TypeOK, Queue!ReadCopy, Queue!Goto
<1>4. Ch3LockInv' /\ Ch3NodeInv'
  BY <1>0, <1>1 DEF Ch3LockInv, Ch3NodeInv, Ch3Holds
<1>5. Ch3HeapInv'
  <2>1. \A n \in Node : n \in q_heap' <=> n \in Elems(q_queue') \/ \E q \in Proc : q_node'[q] = n
    BY <1>0, <1>1, <1>2, Ch3Names DEF Ch3HeapInv
  <2>2. \A q \in Proc : q_node'[q] \in Elems(q_queue') => q_pc'[q] = "r_del"
    <3>1. Queue!None \notin Elems(q_queue)
      BY <1>0, Ch3Elems, Ch3Names
    <3> QED BY <1>0, <1>1, <3>1 DEF Ch3HeapInv
  <2>3. \A q, r \in Proc : q # r /\ q_node'[q] # Queue!None => q_node'[q] # q_node'[r]
    BY <1>0, <1>1 DEF Ch3HeapInv
  <2> QED BY <1>0, <1>1, <2>1, <2>2, <2>3 DEF Ch3HeapInv
<1>6. Ch3TextInv'
  BY <1>0, <1>1 DEF Ch3TextInv
<1> QED BY <1>3, <1>4, <1>5, <1>6 DEF Ch3Inv

\* kmalloc returns an address nobody has; the writer that dies keeps it.
LEMMA Ch3WriteAllocStep == ASSUME Ch3Inv, NEW p \in Proc, Queue!WriteAlloc(p) PROVE Ch3Inv'
<1>0. Ch3TypeOK /\ Ch3LockInv /\ Ch3NodeInv /\ Ch3HeapInv /\ Ch3TextInv
  BY DEF Ch3Inv
<1>1. /\ UNCHANGED <<q_loaded, q_queue, q_text, q_my_lock, q_temp>> /\ q_pc[p] = "w_alloc"
      /\ \A q \in Proc : q # p => q_pc'[q] = q_pc[q]
      /\ q_pc'[p] \in {"dead", "w_fill"} /\ q_node[p] = Queue!None
      /\ q_pc' \in [Proc -> {"user", "dead", "r_lock", "r_first", "r_del", "r_copy",
                             "w_alloc", "w_fill", "w_lock", "w_add"}]
  BY <1>0 DEF Queue!WriteAlloc, Queue!Goto, Ch3TypeOK, Ch3NodeInv, Ch3Holds
<1>2. Ch3LockInv'
  BY <1>0, <1>1 DEF Ch3LockInv
<1>3. CASE Queue!Goto(p, "dead") /\ UNCHANGED <<q_heap, q_node>>
  <2>0. q_pc'[p] = "dead"
    BY <1>0, <1>3 DEF Queue!Goto, Ch3TypeOK
  <2>1. Ch3TypeOK'
    BY <1>0, <1>1, <1>3 DEF Ch3TypeOK
  <2>2. Ch3NodeInv'
    BY <1>0, <1>1, <1>3, <2>0 DEF Ch3NodeInv, Ch3Holds
  <2>3. Ch3HeapInv' /\ Ch3TextInv'
    BY <1>0, <1>1, <1>3, <2>0 DEF Ch3HeapInv, Ch3TextInv
  <2> QED BY <1>2, <2>1, <2>2, <2>3 DEF Ch3Inv
<1>4. ASSUME NEW n \in Node \ q_heap, q_heap' = q_heap \cup {n},
             q_node' = [q_node EXCEPT ![p] = n]
      PROVE  Ch3Inv'
  <2>1. q_node'[p] = n /\ n # Queue!None /\ \A q \in Proc : q # p => q_node'[q] = q_node[q]
    BY <1>0, <1>4, Ch3Names DEF Ch3TypeOK
  <2>2. n \notin Elems(q_queue) /\ \A q \in Proc : q_node[q] # n
    BY <1>0 DEF Ch3HeapInv
  <2>3. Ch3TypeOK'
    BY <1>0, <1>1, <1>4 DEF Ch3TypeOK
  <2>4. Ch3NodeInv'
    BY <1>0, <1>1, <2>1 DEF Ch3NodeInv, Ch3Holds
  <2>5. Ch3HeapInv'
    <3>1. \A k \in Node : k \in q_heap' <=> k \in Elems(q_queue') \/ \E q \in Proc : q_node'[q] = k
      BY <1>0, <1>1, <1>4, <2>1, Ch3Names DEF Ch3HeapInv
    <3>2. \A q, r \in Proc : q # r /\ q_node'[q] # Queue!None => q_node'[q] # q_node'[r]
      BY <1>0, <2>1, <2>2 DEF Ch3HeapInv
    <3>3. \A q \in Proc : q_node'[q] \in Elems(q_queue') => q_pc'[q] = "r_del"
      BY <1>0, <1>1, <2>1, <2>2 DEF Ch3HeapInv
    <3> QED BY <1>0, <1>1, <3>1, <3>2, <3>3 DEF Ch3HeapInv
  <2>6. Ch3TextInv'
    BY <1>0, <1>1, <2>1 DEF Ch3TextInv
  <2> QED BY <1>2, <2>3, <2>4, <2>5, <2>6 DEF Ch3Inv
<1> QED BY <1>3, <1>4 DEF Queue!WriteAlloc

\* The text goes into a node that is not on the list yet.
LEMMA Ch3FillLeavesOthers ==
    ASSUME Ch3Inv, NEW p \in Proc, q_pc[p] = "w_fill", NEW m \in Ch3Text,
           q_text' = [q_text EXCEPT ![q_node[p]] = m]
    PROVE  /\ q_node[p] \in Node /\ q_text'[q_node[p]] = m
           /\ q_text' \in [Node -> Ch3Text \cup {Queue!None}]
           /\ \A n \in Elems(q_queue) : q_text'[n] = q_text[n]
           /\ \A q \in Proc : q # p => q_text'[q_node[q]] = q_text[q_node[q]] \/ q_node[q] = Queue!None
<1>0. Ch3TypeOK /\ Ch3NodeInv /\ Ch3HeapInv
  BY DEF Ch3Inv
<1>1. q_node[p] # Queue!None /\ q_node[p] \in Node /\ q_node[p] \notin Elems(q_queue)
  BY <1>0 DEF Ch3NodeInv, Ch3HeapInv, Ch3Holds, Ch3TypeOK
<1>2. Elems(q_queue) \subseteq Node
  BY <1>0, Ch3Elems
<1> QED BY <1>0, <1>1, <1>2 DEF Ch3TypeOK, Ch3HeapInv

\* The body is filled, whether the copy fails or not.
LEMMA Ch3WriteFillStep == ASSUME Ch3Inv, NEW p \in Proc, Queue!WriteFill(p) PROVE Ch3Inv'
<1>0. Ch3TypeOK /\ Ch3LockInv /\ Ch3NodeInv /\ Ch3HeapInv /\ Ch3TextInv
  BY DEF Ch3Inv
<1>1. /\ UNCHANGED <<q_loaded, q_queue, q_heap, q_my_lock, q_node, q_temp>>
      /\ q_pc[p] = "w_fill" /\ q_pc'[p] = "w_lock" /\ \A q \in Proc : q # p => q_pc'[q] = q_pc[q]
  BY <1>0 DEF Queue!WriteFill, Queue!Goto, Ch3TypeOK
<1>2. PICK m \in Ch3Text : q_text' = [q_text EXCEPT ![q_node[p]] = m]
  BY DEF Queue!WriteFill, Ch3Text
<1>3. /\ q_node[p] \in Node /\ q_text'[q_node[p]] = m
      /\ q_text' \in [Node -> Ch3Text \cup {Queue!None}]
      /\ \A n \in Elems(q_queue) : q_text'[n] = q_text[n]
      /\ \A q \in Proc : q # p => q_text'[q_node[q]] = q_text[q_node[q]] \/ q_node[q] = Queue!None
  BY <1>1, <1>2, Ch3FillLeavesOthers
<1>4. Ch3TypeOK'
  BY <1>0, <1>1, <1>3 DEF Ch3TypeOK, Queue!WriteFill, Queue!Goto
<1>5. Ch3LockInv'
  BY <1>0, <1>1 DEF Ch3LockInv
<1>6. Ch3NodeInv'
  BY <1>0, <1>1, <1>3 DEF Ch3NodeInv, Ch3Holds
<1>7. Ch3HeapInv'
  BY <1>0, <1>1 DEF Ch3HeapInv
<1>8. Ch3TextInv'
  BY <1>0, <1>1, <1>3 DEF Ch3TextInv, Ch3NodeInv, Ch3Holds
<1> QED BY <1>4, <1>5, <1>6, <1>7, <1>8 DEF Ch3Inv

\* list_add_tail: the node passes from the writer's hands to the list.
LEMMA Ch3WriteAddStep == ASSUME Ch3Inv, NEW p \in Proc, Queue!WriteAdd(p) PROVE Ch3Inv'
<1>0. Ch3TypeOK /\ Ch3LockInv /\ Ch3NodeInv /\ Ch3HeapInv /\ Ch3TextInv
  BY DEF Ch3Inv
<1>1. /\ UNCHANGED <<q_loaded, q_heap, q_text, q_temp>> /\ q_my_lock' = Queue!None
      /\ q_queue' = Append(q_queue, q_node[p])
  BY DEF Queue!WriteAdd, Queue!Link
<1>2. /\ q_pc[p] = "w_add" /\ q_pc'[p] = "user" /\ q_node'[p] = Queue!None
      /\ \A q \in Proc : q # p => /\ q_pc'[q] = q_pc[q] /\ q_node'[q] = q_node[q]
                                  /\ q_pc[q] \notin {"r_first", "r_del", "w_add"}
  BY <1>0 DEF Queue!WriteAdd, Queue!Goto, Ch3TypeOK, Ch3LockInv
<1>3. q_node[p] # Queue!None /\ q_node[p] \in Node /\ q_node[p] \notin Elems(q_queue)
  BY <1>0, <1>2 DEF Ch3NodeInv, Ch3HeapInv, Ch3Holds, Ch3TypeOK
<1>4. /\ q_queue' \in Seq(Node) /\ Elems(q_queue') = Elems(q_queue) \cup {q_node[p]}
      /\ NoDup(q_queue')
  BY <1>0, <1>1, <1>3, AppendElems DEF Ch3TypeOK, Ch3HeapInv
<1>5. Ch3TypeOK'
  BY <1>0, <1>1, <1>4 DEF Ch3TypeOK, Queue!WriteAdd, Queue!Goto
<1>6. Ch3LockInv'
  BY <1>0, <1>1, <1>2 DEF Ch3LockInv
<1>7. Ch3NodeInv'
  BY <1>0, <1>1, <1>2 DEF Ch3NodeInv, Ch3Holds
<1>8. Ch3HeapInv'
  <2>1. \A n \in Node : n \in q_heap' <=> n \in Elems(q_queue') \/ \E q \in Proc : q_node'[q] = n
    BY <1>0, <1>1, <1>2, <1>3, <1>4, Ch3Names DEF Ch3HeapInv
  <2>2. \A q, r \in Proc : q # r /\ q_node'[q] # Queue!None => q_node'[q] # q_node'[r]
    BY <1>0, <1>2 DEF Ch3HeapInv
  <2>3. \A q \in Proc : q_node'[q] \in Elems(q_queue') => q_pc'[q] = "r_del"
    <3>1. Queue!None \notin Elems(q_queue')
      BY <1>0, <1>3, <1>4, Ch3Elems, Ch3Names
    <3> QED BY <1>0, <1>2, <1>3, <1>4, <3>1 DEF Ch3HeapInv
  <2> QED BY <1>4, <2>1, <2>2, <2>3 DEF Ch3HeapInv
<1>9. Ch3TextInv'
  BY <1>0, <1>1, <1>2, <1>4 DEF Ch3TextInv
<1> QED BY <1>5, <1>6, <1>7, <1>8, <1>9 DEF Ch3Inv

\* The invariant of ch3 holds on the bench.
LEMMA Ch3InvHolds == Spec => []Ch3Inv
<1>1. Init => Ch3Inv
  BY Ch3InitInv DEF Init
<1>2. Ch3Inv /\ [Next]_vars => Ch3Inv'
  <2> SUFFICES ASSUME Ch3Inv, [Next]_vars PROVE Ch3Inv'
    OBVIOUS
  <2>1. CASE UNCHANGED queueVars
    BY <2>1 DEF queueVars, Ch3Inv, Ch3TypeOK, Ch3LockInv, Ch3NodeInv, Ch3HeapInv, Ch3TextInv
  <2>2. CASE Queue!Next
    BY <2>2, Ch3PassingStep, Ch3LoadStep, Ch3ReadFirstStep, Ch3ReadDelStep, Ch3ReadCopyStep,
      Ch3WriteAllocStep, Ch3WriteFillStep, Ch3WriteAddStep DEF Queue!Next, Queue!Run
  <2> QED BY <2>1, <2>2, OneMoves
<1> QED BY <1>1, <1>2, PTL DEF Spec

\* The memory of ch3: a live node is listed or in one pair of hands, so it is
\* freed once and used only before; after ch3_exit the only nodes left are
\* those of writers that died on an allocation nobody looked at.
THEOREM Ch3HeapExact == Spec => []HeapExact
<1> QED BY Ch3InvHolds, Ch3InvSafe, PTL

\* The messages on the list, and what list_add_tail and list_del do to them.
LEMMA Ch3FifoOfList ==
    ASSUME Ch3Inv
    PROVE  /\ (Queue!fifoBar = <<>>) <=> (q_queue = <<>>)
           /\ \A n \in Node : q_text[n] \in Ch3Text =>
                [i \in 1 .. Len(Append(q_queue, n)) |-> q_text[Append(q_queue, n)[i]]]
                   = Append(Queue!fifoBar, q_text[n])
           /\ q_queue # <<>> =>
                /\ Head(Queue!fifoBar) = q_text[Head(q_queue)]
                /\ [i \in 1 .. Len(Tail(q_queue)) |-> q_text[Tail(q_queue)[i]]] = Tail(Queue!fifoBar)
<1>1. q_queue \in Seq(Node) /\ \A i \in 1 .. Len(q_queue) : q_text[q_queue[i]] \in Ch3Text
  BY DEF Ch3Inv, Ch3TypeOK, Ch3TextInv, Elems
<1> QED BY <1>1, MapAppendTail DEF Queue!fifoBar

\* list_del is Take.
LEMMA Ch3DelTakes == ASSUME Ch3Inv, NEW p \in Proc, Queue!ReadDel(p) PROVE Queue!Fifo!Take(p)
<1>0. Ch3TypeOK /\ Ch3NodeInv
  BY DEF Ch3Inv
<1>1. q_queue # <<>> /\ q_node[p] = Head(q_queue) /\ q_queue' = Tail(q_queue)
  BY Ch3DelTakesHead
<1>2. UNCHANGED <<q_text, q_temp>> /\ q_temp[p] = q_text[Head(q_queue)]
  BY <1>0, <1>1 DEF Queue!ReadDel, Ch3NodeInv
<1>3. q_pc[p] = "r_del" /\ q_pc' = [q_pc EXCEPT ![p] = "r_copy"]
  BY DEF Queue!ReadDel, Queue!Goto
<1>4. /\ Queue!fifoBar # <<>> /\ Head(Queue!fifoBar) = q_text[Head(q_queue)]
      /\ Queue!fifoBar' = Tail(Queue!fifoBar)
  <2>1. Queue!fifoBar' = [i \in 1 .. Len(Tail(q_queue)) |-> q_text[Tail(q_queue)[i]]]
    BY <1>1, <1>2 DEF Queue!fifoBar
  <2> QED BY <1>1, <2>1, Ch3FifoOfList
<1>5. Queue!handBar[p] = Queue!None
  BY <1>3 DEF Queue!handBar
<1>6. Queue!handBar' = [Queue!handBar EXCEPT ![p] = Head(Queue!fifoBar)]
  BY <1>0, <1>2, <1>3, <1>4 DEF Queue!handBar, Ch3TypeOK
<1> QED BY <1>4, <1>5, <1>6 DEF Queue!Fifo!Take

\* Returning from ch3_read is Finish.
LEMMA Ch3CopyFinishes == ASSUME Ch3Inv, NEW p \in Proc, Queue!ReadCopy(p) PROVE Queue!Fifo!Finish(p)
<1>0. Ch3TypeOK /\ Ch3TextInv
  BY DEF Ch3Inv
<1>1. /\ q_pc[p] = "r_copy" /\ q_pc' = [q_pc EXCEPT ![p] = "user"]
      /\ q_temp' = [q_temp EXCEPT ![p] = Queue!None] /\ UNCHANGED <<q_queue, q_text>>
  BY DEF Queue!ReadCopy, Queue!Goto
<1>2. Queue!handBar[p] # Queue!None
  BY <1>0, <1>1, Ch3Names DEF Queue!handBar, Ch3TextInv
<1>3. Queue!handBar' = [Queue!handBar EXCEPT ![p] = Queue!None]
  BY <1>0, <1>1 DEF Queue!handBar, Ch3TypeOK
<1>4. UNCHANGED Queue!fifoBar
  BY <1>1 DEF Queue!fifoBar
<1> QED BY <1>2, <1>3, <1>4 DEF Queue!Fifo!Finish

\* list_add_tail is Put.
LEMMA Ch3AddPuts ==
    ASSUME Ch3Inv, NEW p \in Proc, Queue!WriteAdd(p)
    PROVE  \E m \in Ch3Text : Queue!Fifo!Put(m)
<1>0. Ch3TypeOK /\ Ch3TextInv /\ Ch3NodeInv
  BY DEF Ch3Inv
<1>1. /\ q_pc[p] = "w_add" /\ q_pc' = [q_pc EXCEPT ![p] = "user"]
      /\ q_queue' = Append(q_queue, q_node[p]) /\ UNCHANGED <<q_text, q_temp>>
  BY DEF Queue!WriteAdd, Queue!Goto, Queue!Link
<1>2. q_node[p] \in Node /\ q_text[q_node[p]] \in Ch3Text
  BY <1>0, <1>1 DEF Ch3TypeOK, Ch3NodeInv, Ch3TextInv, Ch3Holds
<1>3. Queue!fifoBar' = Append(Queue!fifoBar, q_text[q_node[p]])
  <2>1. Queue!fifoBar'
          = [i \in 1 .. Len(Append(q_queue, q_node[p])) |-> q_text[Append(q_queue, q_node[p])[i]]]
    BY <1>1 DEF Queue!fifoBar
  <2> QED BY <1>2, <2>1, Ch3FifoOfList
<1>4. UNCHANGED Queue!handBar
  BY <1>0, <1>1 DEF Queue!handBar, Ch3TypeOK
<1> QED BY <1>2, <1>3, <1>4 DEF Queue!Fifo!Put

\* Everything else a process does leaves the queue as its users see it alone.
LEMMA Ch3OthersStutter ==
    ASSUME Ch3Inv, NEW p \in Proc,
           \/ Queue!Ioctl(p) \/ Queue!SpinLock(p) \/ Queue!ReadEmpty(p) \/ Queue!ReadFirst(p)
           \/ Queue!WriteAlloc(p) \/ Queue!WriteFill(p)
    PROVE  UNCHANGED <<Queue!fifoBar, Queue!handBar>>
<1>0. Ch3TypeOK
  BY DEF Ch3Inv
<1>1. /\ UNCHANGED q_queue /\ q_pc[p] # "r_copy" /\ q_pc'[p] # "r_copy"
      /\ \A q \in Proc : q # p => q_pc'[q] = q_pc[q] /\ q_temp'[q] = q_temp[q]
  BY <1>0 DEF Ch3TypeOK, Queue!Ioctl, Queue!SpinLock, Queue!ReadEmpty, Queue!ReadFirst,
    Queue!WriteAlloc, Queue!WriteFill, Queue!Goto
<1>2. \A n \in Elems(q_queue) : q_text'[n] = q_text[n]
  <2>1. CASE Queue!WriteFill(p)
    <3>1. PICK m \in Ch3Text : q_text' = [q_text EXCEPT ![q_node[p]] = m]
      BY <2>1 DEF Queue!WriteFill, Ch3Text
    <3> QED BY <2>1, <3>1, Ch3FillLeavesOthers DEF Queue!WriteFill
  <2>2. CASE ~Queue!WriteFill(p)
    BY <2>2 DEF Queue!Ioctl, Queue!SpinLock, Queue!ReadEmpty, Queue!ReadFirst, Queue!WriteAlloc
  <2> QED BY <2>1, <2>2
<1>3. UNCHANGED Queue!fifoBar
  BY <1>1, <1>2 DEF Queue!fifoBar, Elems
<1>4. UNCHANGED Queue!handBar
  BY <1>1 DEF Queue!handBar
<1> QED BY <1>3, <1>4

\* Loading and unloading leave an empty queue.
LEMMA Ch3LoadClears == ASSUME Queue!Insmod \/ Queue!Exit PROVE Queue!Fifo!Clear
<1>1. q_queue' = <<>> /\ UNCHANGED Queue!handBar
  BY DEF Queue!Insmod, Queue!Exit, Queue!handBar
<1>2. Queue!fifoBar' = <<>>
  BY <1>1, EmptySeq DEF Queue!fifoBar
<1> QED BY <1>1, <1>2 DEF Queue!Fifo!Clear

\* Concurrent ch3_read and ch3_write calls hand messages out in the order they
\* were linked, each to one reader, whoever dies in between: ch3 implements
\* MessageFifo.
THEOREM Ch3ImplementsFifo == Spec => ImplementsFifo
<1>1. Init => Queue!Fifo!FifoInit
  <2> SUFFICES ASSUME Queue!Init PROVE Queue!Fifo!FifoInit
    BY DEF Init
  <2>1. Queue!fifoBar = <<>>
    BY EmptySeq DEF Queue!Init, Queue!fifoBar
  <2>2. Queue!handBar = [p \in Proc |-> Queue!None]
    BY DEF Queue!Init, Queue!handBar
  <2> QED BY <2>1, <2>2 DEF Queue!Fifo!FifoInit
<1>2. Ch3Inv /\ [Next]_vars => [Queue!Fifo!FifoNext]_(Queue!Fifo!fifoVars)
  <2> SUFFICES ASSUME Ch3Inv, [Next]_vars
               PROVE  [Queue!Fifo!FifoNext]_(Queue!Fifo!fifoVars)
    OBVIOUS
  <2>1. CASE UNCHANGED queueVars
    BY <2>1 DEF queueVars, Queue!fifoBar, Queue!handBar, Queue!Fifo!fifoVars
  <2>2. CASE Queue!Insmod \/ Queue!Exit
    BY <2>2, Ch3LoadClears DEF Queue!Fifo!FifoNext
  <2>3. ASSUME NEW p \in Proc, Queue!ReadDel(p) \/ Queue!ReadCopy(p) \/ Queue!WriteAdd(p)
        PROVE  Queue!Fifo!FifoNext
    BY <2>3, Ch3DelTakes, Ch3CopyFinishes, Ch3AddPuts DEF Queue!Fifo!FifoNext, Ch3Text
  <2>4. ASSUME NEW p \in Proc,
               \/ Queue!Ioctl(p) \/ Queue!SpinLock(p) \/ Queue!ReadEmpty(p)
               \/ Queue!ReadFirst(p) \/ Queue!WriteAlloc(p) \/ Queue!WriteFill(p)
        PROVE  UNCHANGED Queue!Fifo!fifoVars
    BY <2>4, Ch3OthersStutter DEF Queue!Fifo!fifoVars
  <2> QED BY <2>1, <2>2, <2>3, <2>4, OneMoves DEF Queue!Next, Queue!Run
<1> QED BY <1>1, <1>2, Ch3InvHolds, PTL DEF Spec, ImplementsFifo, Queue!ImplementsFifo,
          Queue!Fifo!FifoSpec

-----------------------------------------------------------------------------
(* ch11: the proc file. *)

\* What is written never contains the terminator.
Chars == {"a", Proc11!SPACE, Proc11!NEWLINE}

\* What is written to proc_info is made of characters.
LEMMA InputChars == \A s \in Input : s \in Seq(Chars)
<1>1. <<"a", "newline">> \in Seq(Chars) /\ <<"newline">> \in Seq(Chars)
  BY DEF Chars, Proc11!SPACE, Proc11!NEWLINE
<1>2. <<"space", "a", "newline">> \in Seq(Chars) /\ <<"a", "newline", "a">> \in Seq(Chars)
  BY DEF Chars, Proc11!SPACE, Proc11!NEWLINE
<1> QED BY <1>1, <1>2 DEF Input

\* None of them is the terminator.
LEMMA NulIsNoChar == Proc11!NUL \notin Chars
<1> QED BY DEF Chars, Proc11!NUL, Proc11!SPACE, Proc11!NEWLINE

Ch11PC == {"user", "copy", "trim", "scan", "print", "shown"}

Ch11TypeOK ==
    /\ p_read_str \in [0 .. BUF_SIZE -> Chars \cup {Proc11!NUL}]
    /\ p_pc \in [Proc -> Ch11PC]
    /\ p_ubuf \in [Proc -> Seq(Chars)]
    /\ p_i \in [Proc -> Nat] /\ p_count \in [Proc -> Nat]
    /\ p_out \in [Proc -> Seq(Chars)]
    /\ DOMAIN p_alone = Proc
    /\ p_expect \in Seq(Chars) \cup {Proc11!Unknown}

\* The last byte of the array is always the terminator, so a scan ends there
\* at the latest, and no copy is longer than the array without it.
Ch11ScanInv ==
    /\ p_read_str[BUF_SIZE] = Proc11!NUL
    /\ ~p_loaded => \A p \in Proc : p_pc[p] = "user"
    /\ \A p \in Proc :
          /\ Len(p_ubuf[p]) <= BUF_SIZE
          /\ p_pc[p] = "copy" => p_i[p] <= Len(p_ubuf[p])
          /\ p_pc[p] = "trim" => p_i[p] = Len(p_ubuf[p])
          /\ p_pc[p] \in {"scan", "print"} => p_i[p] <= BUF_SIZE
          /\ p_pc[p] \in {"user", "scan", "copy", "trim"} => p_out[p] = <<>>

Ch11Inv == Ch11TypeOK /\ Ch11ScanInv

\* What proc_info_write hands to copy_from_user fits.
LEMMA Ch11Capped ==
    ASSUME NEW s \in Seq(Chars)
    PROVE  /\ SubSeq(s, 1, Proc11!Capped(Len(s))) \in Seq(Chars)
           /\ Len(SubSeq(s, 1, Proc11!Capped(Len(s)))) <= BUF_SIZE
<1>1. Len(s) \in Nat /\ \A k \in 1 .. Len(s) : s[k] \in Chars
  BY LenProperties, ElementOfSeq
<1>2. Proc11!Capped(Len(s)) \in Nat /\ Proc11!Capped(Len(s)) <= Len(s) /\ Proc11!Capped(Len(s)) <= BUF_SIZE
  BY <1>1, SizesAssumption DEF Proc11!Capped
<1>3. \A k \in 1 .. Proc11!Capped(Len(s)) : s[k] \in Chars
  BY <1>1, <1>2
<1> HIDE DEF Proc11!Capped
<1> QED BY <1>2, <1>3, SubSeqProperties, SizesAssumption

\* The array starts as zeros.
LEMMA Ch11InitInv == ASSUME Proc11!Init PROVE Ch11Inv
<1>1. <<>> \in Seq(Chars) /\ Len(<<>>) = 0
  BY EmptySeq
<1>2. Ch11TypeOK
  BY <1>1 DEF Proc11!Init, Proc11!Blank, Ch11TypeOK, Ch11PC
<1>3. Ch11ScanInv
  BY <1>1, SizesAssumption DEF Proc11!Init, Proc11!Blank, Ch11ScanInv
<1> QED BY <1>2, <1>3 DEF Ch11Inv

\* WriteReturns, whatever the caller found in its buffer.
LEMMA Ch11ReturnTypes ==
    ASSUME Ch11TypeOK, NEW p \in Proc, NEW s \in Seq(Chars), Proc11!WriteReturns(p, s)
    PROVE  /\ p_pc' \in [Proc -> Ch11PC] /\ p_ubuf' \in [Proc -> Seq(Chars)]
           /\ p_i' \in [Proc -> Nat] /\ DOMAIN p_alone' = Proc
           /\ p_expect' \in Seq(Chars) \cup {Proc11!Unknown}
           /\ p_pc'[p] = "user" /\ p_ubuf'[p] = <<>> /\ Len(p_ubuf'[p]) = 0
           /\ \A q \in Proc : q # p =>
                 /\ p_pc'[q] = p_pc[q] /\ p_ubuf'[q] = p_ubuf[q] /\ p_i'[q] = p_i[q]
                 /\ p_alone'[q] = p_alone[q]
<1>1. <<>> \in Seq(Chars) /\ Len(<<>>) = 0
  BY EmptySeq
<1> QED BY <1>1 DEF Ch11TypeOK, Ch11PC, Proc11!WriteReturns, Proc11!Goto

\* No step of proc_info_write leaves the array.
LEMMA Ch11WriteStep ==
    ASSUME Ch11Inv, NEW p \in Proc,
           Proc11!Write(p) \/ Proc11!CopyByte(p) \/ Proc11!CopyFaults(p)
             \/ Proc11!Terminate(p) \/ Proc11!TrimNewline(p)
    PROVE  Ch11Inv'
<1>0. Ch11TypeOK /\ Ch11ScanInv /\ BUF_SIZE \in Nat /\ Len(p_ubuf[p]) \in Nat
      /\ p_ubuf[p] \in Seq(Chars)
  BY SizesAssumption, LenProperties DEF Ch11Inv, Ch11TypeOK
<1>1. CASE Proc11!Write(p)
  <2>1. PICK s \in Input : p_ubuf' = [p_ubuf EXCEPT ![p] = SubSeq(s, 1, Proc11!Capped(Len(s)))]
    BY <1>1 DEF Proc11!Write
  <2> DEFINE cut == SubSeq(s, 1, Proc11!Capped(Len(s)))
  <2>2. cut \in Seq(Chars) /\ Len(cut) <= BUF_SIZE /\ Len(cut) \in Nat
    BY InputChars, Ch11Capped, LenProperties
  <2> HIDE DEF cut
  <2>3. p_ubuf' = [p_ubuf EXCEPT ![p] = cut]
    BY <2>1 DEF cut
  <2>4. Ch11TypeOK'
    BY <1>0, <1>1, <2>2, <2>3 DEF Ch11TypeOK, Ch11PC, Proc11!Write, Proc11!Goto
  <2>5. /\ p_loaded /\ UNCHANGED <<p_loaded, p_read_str, p_out>> /\ p_pc[p] = "user"
        /\ p_pc'[p] = "copy" /\ p_i'[p] = 0 /\ p_ubuf'[p] = cut
        /\ \A q \in Proc : q # p => p_pc'[q] = p_pc[q] /\ p_i'[q] = p_i[q] /\ p_ubuf'[q] = p_ubuf[q]
    BY <1>0, <1>1, <2>3 DEF Ch11TypeOK, Proc11!Write, Proc11!Goto
  <2>6. Ch11ScanInv'
    BY <1>0, <2>2, <2>5 DEF Ch11ScanInv
  <2> QED BY <2>4, <2>6 DEF Ch11Inv
<1>2. CASE Proc11!CopyByte(p)
  <2>1. /\ p_pc[p] = "copy" /\ p_i[p] \in Nat /\ p_i[p] < Len(p_ubuf[p]) /\ p_i[p] < BUF_SIZE
        /\ p_read_str' = [p_read_str EXCEPT ![p_i[p]] = p_ubuf[p][p_i[p] + 1]]
        /\ p_i' = [p_i EXCEPT ![p] = @ + 1]
        /\ UNCHANGED <<p_loaded, p_pc, p_ubuf, p_count, p_out, p_alone, p_expect>>
    BY <1>0, <1>2 DEF Proc11!CopyByte, Ch11TypeOK, Ch11ScanInv
  <2>2. p_ubuf[p][p_i[p] + 1] \in Chars
    BY <1>0, <2>1, ElementOfSeq
  <2>3. Ch11TypeOK'
    BY <1>0, <2>1, <2>2 DEF Ch11TypeOK
  <2>4. p_read_str'[BUF_SIZE] = Proc11!NUL
    BY <1>0, <2>1 DEF Ch11TypeOK, Ch11ScanInv
  <2>5. p_i'[p] = p_i[p] + 1 /\ \A q \in Proc : q # p => p_i'[q] = p_i[q]
    BY <1>0, <2>1 DEF Ch11TypeOK
  <2>6. Ch11ScanInv'
    BY <1>0, <2>1, <2>4, <2>5 DEF Ch11ScanInv
  <2> QED BY <2>3, <2>6 DEF Ch11Inv
<1>3. CASE Proc11!Terminate(p)
  <2>1. /\ p_pc[p] = "copy" /\ p_i[p] = Len(p_ubuf[p]) /\ p_pc' = [p_pc EXCEPT ![p] = "trim"]
        /\ p_read_str' = [p_read_str EXCEPT ![p_i[p]] = Proc11!NUL]
        /\ UNCHANGED <<p_loaded, p_ubuf, p_i, p_count, p_out, p_alone, p_expect>>
    BY <1>3 DEF Proc11!Terminate, Proc11!Goto
  <2>2. Ch11TypeOK'
    BY <1>0, <2>1 DEF Ch11TypeOK, Ch11PC
  <2>3. p_read_str'[BUF_SIZE] = Proc11!NUL
    BY <1>0, <2>1 DEF Ch11TypeOK, Ch11ScanInv
  <2>4. p_pc'[p] = "trim" /\ \A q \in Proc : q # p => p_pc'[q] = p_pc[q]
    BY <1>0, <2>1 DEF Ch11TypeOK
  <2>5. Ch11ScanInv'
    BY <1>0, <2>1, <2>3, <2>4 DEF Ch11ScanInv
  <2> QED BY <2>2, <2>5 DEF Ch11Inv
<1>4. ASSUME NEW s \in Seq(Chars), Proc11!WriteReturns(p, s), p_pc[p] \in {"copy", "trim"},
             UNCHANGED <<p_loaded, p_count, p_out>>,
             p_read_str' \in [0 .. BUF_SIZE -> Chars \cup {Proc11!NUL}],
             p_read_str'[BUF_SIZE] = Proc11!NUL
      PROVE  Ch11Inv'
  <2>1. Ch11TypeOK'
    BY <1>0, <1>4, Ch11ReturnTypes DEF Ch11TypeOK
  <2>2. /\ p_pc'[p] = "user" /\ Len(p_ubuf'[p]) = 0 /\ p_out'[p] = <<>> /\ p_loaded /\ p_loaded'
        /\ \A q \in Proc : q # p => p_pc'[q] = p_pc[q] /\ p_ubuf'[q] = p_ubuf[q] /\ p_i'[q] = p_i[q]
    BY <1>0, <1>4, Ch11ReturnTypes DEF Ch11ScanInv
  <2>3. Ch11ScanInv'
    BY <1>0, <1>4, <2>2 DEF Ch11ScanInv
  <2> QED BY <2>1, <2>3 DEF Ch11Inv
<1>5. CASE Proc11!CopyFaults(p)
  <2>1. p_i[p] \in Nat /\ p_i[p] < Len(p_ubuf[p]) /\ \A k \in 1 .. p_i[p] : p_ubuf[p][k] \in Chars
    BY <1>0, <1>5, ElementOfSeq DEF Proc11!CopyFaults, Ch11TypeOK
  <2>2. SubSeq(p_ubuf[p], 1, p_i[p]) \in Seq(Chars)
    BY <2>1, SubSeqProperties
  <2>3. /\ p_read_str' \in [0 .. BUF_SIZE -> Chars \cup {Proc11!NUL}]
        /\ p_read_str'[BUF_SIZE] = Proc11!NUL
    BY <1>0, <1>5 DEF Proc11!CopyFaults, Ch11TypeOK, Ch11ScanInv
  <2> QED BY <1>4, <1>5, <2>2, <2>3 DEF Proc11!CopyFaults
<1>6. CASE Proc11!TrimNewline(p)
  <2>1. Proc11!Trimmed(p_ubuf[p]) \in Seq(Chars)
    <3>1. \A k \in 1 .. Len(p_ubuf[p]) - 1 : p_ubuf[p][k] \in Chars
      BY <1>0, ElementOfSeq
    <3>2. SubSeq(p_ubuf[p], 1, Len(p_ubuf[p]) - 1) \in Seq(Chars)
      BY <1>0, <3>1, SubSeqProperties
    <3> QED BY <1>0, <3>2 DEF Proc11!Trimmed
  <2>2. /\ p_read_str' \in [0 .. BUF_SIZE -> Chars \cup {Proc11!NUL}]
        /\ p_read_str'[BUF_SIZE] = Proc11!NUL
    <3>1. \/ p_read_str' = p_read_str
          \/ p_read_str' = [p_read_str EXCEPT ![Proc11!LastByte(p_i[p])] = Proc11!NUL]
      BY <1>6 DEF Proc11!TrimNewline
    <3>2. /\ p_read_str \in [0 .. BUF_SIZE -> Chars \cup {Proc11!NUL}]
          /\ p_read_str[BUF_SIZE] = Proc11!NUL
      BY <1>0, <1>6 DEF Ch11TypeOK, Ch11ScanInv
    <3>3. ASSUME NEW n, p_read_str' = [p_read_str EXCEPT ![n] = Proc11!NUL]
          PROVE  /\ p_read_str' \in [0 .. BUF_SIZE -> Chars \cup {Proc11!NUL}]
                 /\ p_read_str'[BUF_SIZE] = Proc11!NUL
      <4> DEFINE T == Chars \cup {Proc11!NUL}
      <4>1. Proc11!NUL \in T /\ p_read_str \in [0 .. BUF_SIZE -> T]
        BY <3>2
      <4> HIDE DEF T
      <4>2. p_read_str' \in [0 .. BUF_SIZE -> T]
        BY <3>3, <4>1
      <4>3. p_read_str'[BUF_SIZE] = Proc11!NUL
        BY <1>0, <3>2, <3>3
      <4> QED BY <4>2, <4>3 DEF T
    <3> QED BY <3>1, <3>2, <3>3
  <2> QED BY <1>4, <1>6, <2>1, <2>2 DEF Proc11!TrimNewline
<1> QED BY <1>1, <1>2, <1>3, <1>5, <1>6

\* No step of proc_info_show leaves the array: the last byte ends the scan.
LEMMA Ch11ShowStep ==
    ASSUME Ch11Inv, NEW p \in Proc,
           Proc11!Show(p) \/ Proc11!Scan(p) \/ Proc11!PrintStr(p) \/ Proc11!ShowReturns(p)
    PROVE  Ch11Inv'
<1>0. Ch11TypeOK /\ Ch11ScanInv /\ BUF_SIZE \in Nat
  BY SizesAssumption DEF Ch11Inv
<1>1. <<>> \in Seq(Chars)
  BY EmptySeq
<1>2. UNCHANGED <<p_read_str, p_ubuf, p_expect, p_loaded>>
  BY DEF Proc11!Show, Proc11!Scan, Proc11!PrintStr, Proc11!ShowReturns
<1>3. CASE Proc11!Show(p) \/ Proc11!ShowReturns(p)
  <2>1. DOMAIN p_alone' = Proc
    BY <1>0, <1>3 DEF Ch11TypeOK, Proc11!Show, Proc11!ShowReturns
  <2>2. p_pc' \in [Proc -> Ch11PC] /\ p_i' \in [Proc -> Nat] /\ p_count' \in [Proc -> Nat]
    <3>1. /\ \/ p_pc' = [p_pc EXCEPT ![p] = "scan"]
             \/ p_pc' = [p_pc EXCEPT ![p] = "user"]
          /\ p_i' = [p_i EXCEPT ![p] = 0] /\ p_count' = [p_count EXCEPT ![p] = 0]
      BY <1>3 DEF Proc11!Show, Proc11!ShowReturns, Proc11!Goto
    <3>2. p_pc' \in [Proc -> Ch11PC]
      BY <1>0, <3>1 DEF Ch11TypeOK, Ch11PC
    <3>3. p_i' \in [Proc -> Nat] /\ p_count' \in [Proc -> Nat]
      BY <1>0, <3>1 DEF Ch11TypeOK
    <3> QED BY <3>2, <3>3
  <2>4. p_out' \in [Proc -> Seq(Chars)]
    BY <1>0, <1>1, <1>3 DEF Ch11TypeOK, Proc11!Show, Proc11!ShowReturns
  <2>5. Ch11TypeOK'
    BY <1>0, <1>2, <2>1, <2>2, <2>4 DEF Ch11TypeOK
  <2>3. Ch11ScanInv'
    BY <1>0, <1>2, <1>3 DEF Ch11TypeOK, Ch11ScanInv, Proc11!Show, Proc11!ShowReturns, Proc11!Goto
  <2> QED BY <2>3, <2>5 DEF Ch11Inv
<1>4. CASE Proc11!Scan(p)
  <2>1. /\ p_i[p] \in 0 .. BUF_SIZE /\ (p_read_str[p_i[p]] # Proc11!NUL => p_i[p] < BUF_SIZE)
        /\ p_pc[p] = "scan" /\ UNCHANGED <<p_out, p_alone>>
    BY <1>0, <1>4 DEF Ch11TypeOK, Ch11ScanInv, Proc11!Scan
  <2>2. CASE p_read_str[p_i[p]] = Proc11!NUL
    <3>1. /\ p_pc' = [p_pc EXCEPT ![p] = "print"] /\ p_i' = [p_i EXCEPT ![p] = 0]
          /\ UNCHANGED p_count
      BY <1>4, <2>2 DEF Proc11!Scan, Proc11!Goto
    <3> QED BY <1>0, <1>2, <2>1, <3>1 DEF Ch11Inv, Ch11TypeOK, Ch11PC, Ch11ScanInv
  <2>3. CASE p_read_str[p_i[p]] # Proc11!NUL
    <3>1. p_i' = [p_i EXCEPT ![p] = @ + 1] /\ UNCHANGED p_pc
      BY <1>4, <2>3 DEF Proc11!Scan
    <3>2. p_count' \in [Proc -> Nat]
      <4>1. PICK n : p_count' = [p_count EXCEPT ![p] = n] /\ n \in {p_count[p], p_count[p] + 1}
        BY <1>4, <2>3 DEF Proc11!Scan
      <4> QED BY <1>0, <4>1 DEF Ch11TypeOK
    <3>6. p_i' \in [Proc -> Nat]
      BY <1>0, <3>1 DEF Ch11TypeOK
    <3>3. Ch11TypeOK'
      BY <1>0, <1>2, <2>1, <3>1, <3>2, <3>6 DEF Ch11TypeOK
    <3>4. p_i'[p] = p_i[p] + 1 /\ \A q \in Proc : q # p => p_i'[q] = p_i[q]
      BY <1>0, <3>1 DEF Ch11TypeOK
    <3>5. Ch11ScanInv'
      BY <1>0, <1>2, <2>1, <2>3, <3>1, <3>4 DEF Ch11ScanInv
    <3> QED BY <3>3, <3>5 DEF Ch11Inv
  <2> QED BY <2>2, <2>3
<1>5. CASE Proc11!PrintStr(p)
  <2>1. /\ p_i[p] \in 0 .. BUF_SIZE /\ (p_read_str[p_i[p]] # Proc11!NUL => p_i[p] < BUF_SIZE)
        /\ p_pc[p] = "print" /\ UNCHANGED <<p_count, p_alone>>
    BY <1>0, <1>5 DEF Ch11TypeOK, Ch11ScanInv, Proc11!PrintStr
  <2>2. CASE p_read_str[p_i[p]] = Proc11!NUL
    <3>1. p_pc' = [p_pc EXCEPT ![p] = "shown"] /\ UNCHANGED <<p_i, p_out>>
      BY <1>5, <2>2 DEF Proc11!PrintStr, Proc11!Goto
    <3> QED BY <1>0, <1>2, <2>1, <3>1 DEF Ch11Inv, Ch11TypeOK, Ch11PC, Ch11ScanInv
  <2>3. CASE p_read_str[p_i[p]] # Proc11!NUL
    <3>1. /\ p_i' = [p_i EXCEPT ![p] = @ + 1] /\ UNCHANGED p_pc
          /\ p_out' = [p_out EXCEPT ![p] = Append(@, p_read_str[p_i[p]])]
      BY <1>5, <2>3 DEF Proc11!PrintStr
    <3>2. Append(p_out[p], p_read_str[p_i[p]]) \in Seq(Chars)
      BY <1>0, <2>1, <2>3, AppendProperties DEF Ch11TypeOK
    <3> QED BY <1>0, <1>2, <2>1, <2>3, <3>1, <3>2 DEF Ch11Inv, Ch11TypeOK, Ch11ScanInv
  <2> QED BY <2>2, <2>3
<1> QED BY <1>3, <1>4, <1>5

\* Nobody uses the file while the module comes or goes.
LEMMA Ch11LoadStep == ASSUME Ch11Inv, Proc11!Insmod \/ Proc11!Rmmod PROVE Ch11Inv'
<1>1. <<>> \in Seq(Chars)
  BY EmptySeq
<1> QED BY <1>1, SizesAssumption DEF Ch11Inv, Ch11TypeOK, Ch11ScanInv, Proc11!Insmod, Proc11!Rmmod,
          Proc11!Blank, Proc11!procVars

\* The invariant of the array holds on the bench.
LEMMA Ch11InvHolds == Spec => []Ch11Inv
<1>1. Init => Ch11Inv
  BY Ch11InitInv DEF Init
<1>2. Ch11Inv /\ [Next]_vars => Ch11Inv'
  <2> SUFFICES ASSUME Ch11Inv, [Next]_vars PROVE Ch11Inv'
    OBVIOUS
  <2>1. CASE UNCHANGED proc11Vars
    BY <2>1 DEF proc11Vars, Ch11Inv, Ch11TypeOK, Ch11ScanInv
  <2>2. CASE Proc11!Next
    BY <2>2, Ch11LoadStep, Ch11WriteStep, Ch11ShowStep DEF Proc11!Next
  <2> QED BY <2>1, <2>2, OneMoves
<1> QED BY <1>1, <1>2, PTL DEF Spec

\* However writers and readers of proc_info interleave, and wherever a copy
\* faults, no scan of read_str and no store into it leaves the array.
THEOREM Ch11ScanStaysInside == Spec => []ScanStaysInside
<1>1. Ch11Inv => ScanStaysInside
  BY DEF Ch11Inv, Ch11ScanInv, ScanStaysInside, Proc11!ScanStaysInside
<1> QED BY <1>1, Ch11InvHolds, PTL

-----------------------------------------------------------------------------
(* ch11: an undisturbed show prints what was written. *)

\* The array buf holds the C string s.
Ch11Holds(buf, s) ==
    /\ Len(s) <= BUF_SIZE
    /\ \A k \in 1 .. Len(s) : buf[k - 1] = s[k]
    /\ buf[Len(s)] = Proc11!NUL

Spaces(s, n) == Cardinality({k \in 1 .. n : s[k] = Proc11!SPACE})

\* Nobody else writes during a call that was alone so far.
Ch11AloneInv ==
    \A p, q \in Proc : p_alone[p] /\ p_pc[p] # "user" /\ q # p =>
        p_pc[q] \notin {"copy", "trim"}

\* What a writer that was alone has copied is still there.
Ch11WriterInv ==
    \A p \in Proc : p_alone[p] /\ p_pc[p] \in {"copy", "trim"} =>
        /\ \A k \in 1 .. p_i[p] : p_read_str[k - 1] = p_ubuf[p][k]
        /\ p_pc[p] = "trim" => p_read_str[p_i[p]] = Proc11!NUL

\* Between writes the array holds the expected string.
Ch11StringInv ==
    (\A q \in Proc : p_pc[q] \notin {"copy", "trim"}) /\ p_expect # Proc11!Unknown =>
        Ch11Holds(p_read_str, p_expect)

\* A reader that was alone has counted, then printed, a prefix of that string.
Ch11Shows(p) ==
    /\ p_pc[p] = "scan" => p_i[p] <= Len(p_expect) /\ p_count[p] = Spaces(p_expect, p_i[p])
    /\ p_pc[p] = "print" =>
          /\ p_i[p] <= Len(p_expect) /\ p_count[p] = Spaces(p_expect, Len(p_expect))
          /\ Len(p_out[p]) = p_i[p] /\ \A k \in 1 .. p_i[p] : p_out[p][k] = p_expect[k]
    /\ p_pc[p] = "shown" =>
          p_out[p] = p_expect /\ p_count[p] = Spaces(p_expect, Len(p_expect))

Ch11ReaderInv ==
    \A p \in Proc : p_alone[p] /\ p_expect # Proc11!Unknown => Ch11Shows(p)

Ch11StrInv ==
    Ch11Inv /\ Ch11AloneInv /\ Ch11WriterInv /\ Ch11StringInv /\ Ch11ReaderInv

\* The counting loop computes the number of spaces, one character at a time.
LEMMA SpacesStep ==
    ASSUME NEW s, NEW n \in Nat
    PROVE  /\ Spaces(s, n) \in Nat /\ Spaces(s, 0) = 0
           /\ s[n + 1] = Proc11!SPACE => Spaces(s, n + 1) = Spaces(s, n) + 1
           /\ s[n + 1] # Proc11!SPACE => Spaces(s, n + 1) = Spaces(s, n)
<1> DEFINE S(m) == {k \in 1 .. m : s[k] = Proc11!SPACE}
<1>1. IsFiniteSet(S(n)) /\ Cardinality(S(n)) \in Nat
  <2>1. IsFiniteSet(1 .. n)
    BY FS_Interval
  <2>2. S(n) \subseteq 1 .. n
    OBVIOUS
  <2> QED BY <2>1, <2>2, FS_Subset, FS_CardinalityType
<1>2. S(0) = {} /\ Cardinality({}) = 0
  BY FS_EmptySet
<1>3. n + 1 \notin S(n)
  OBVIOUS
<1>4. ASSUME s[n + 1] = Proc11!SPACE PROVE S(n + 1) = S(n) \cup {n + 1}
  BY <1>4
<1>5. ASSUME s[n + 1] # Proc11!SPACE PROVE S(n + 1) = S(n)
  BY <1>5
<1>6. Cardinality(S(n) \cup {n + 1}) = Cardinality(S(n)) + 1
  BY <1>1, <1>3, FS_AddElement
<1>7. \A m : Spaces(s, m) = Cardinality(S(m))
  BY DEF Spaces
<1> HIDE DEF S
<1> QED BY <1>1, <1>2, <1>4, <1>5, <1>6, <1>7

\* Only a writer's steps change the string, and nobody is alone beside them.
LEMMA Ch11OthersBusy ==
    ASSUME Ch11AloneInv, NEW p \in Proc, p_pc[p] \in {"copy", "trim"},
           NEW q \in Proc, q # p, p_pc[q] # "user"
    PROVE  ~p_alone[q]
<1> QED BY DEF Ch11AloneInv

\* A write that starts takes their being alone from all calls in progress.
LEMMA Ch11WriteStarts ==
    ASSUME Ch11StrInv, Ch11Inv', NEW p \in Proc, Proc11!Write(p)
    PROVE  Ch11StrInv'
<1>0. Ch11TypeOK
  BY DEF Ch11StrInv, Ch11Inv
<1>1. /\ p_pc'[p] = "copy" /\ p_i'[p] = 0
      /\ \A q \in Proc : q # p => p_pc'[q] = p_pc[q]
  BY <1>0 DEF Proc11!Write, Proc11!Goto, Ch11TypeOK
<1>2. p_alone' = [q \in Proc |-> IF q = p THEN Proc11!Writing = {} ELSE p_pc[q] = "user" /\ p_alone[q]]
  BY DEF Proc11!Write
<1>3. p_alone'[p] => \A q \in Proc : p_pc[q] \notin {"copy", "trim"}
  BY <1>2 DEF Proc11!Writing
<1>4. \A q \in Proc : q # p /\ p_alone'[q] => p_pc[q] = "user"
  BY <1>2
<1>5. Ch11AloneInv'
  BY <1>1, <1>3, <1>4 DEF Ch11AloneInv
<1>6. Ch11WriterInv'
  BY <1>1, <1>4 DEF Ch11WriterInv
<1>7. Ch11StringInv'
  BY <1>1 DEF Ch11StringInv
<1>8. Ch11ReaderInv'
  BY <1>1, <1>4 DEF Ch11ReaderInv, Ch11Shows
<1> QED BY <1>5, <1>6, <1>7, <1>8 DEF Ch11StrInv

\* A copy in progress stores the next character of its own string.
LEMMA Ch11Copies ==
    ASSUME Ch11StrInv, Ch11Inv', NEW p \in Proc, Proc11!CopyByte(p) \/ Proc11!Terminate(p)
    PROVE  Ch11StrInv'
<1>0. Ch11TypeOK /\ Ch11ScanInv /\ BUF_SIZE \in Nat /\ p_i[p] \in Nat /\ Len(p_ubuf[p]) \in Nat
  BY SizesAssumption, LenProperties DEF Ch11StrInv, Ch11Inv, Ch11TypeOK
<1>1. /\ p_pc[p] = "copy" /\ p_pc'[p] \in {"copy", "trim"} /\ p_i[p] <= BUF_SIZE
      /\ UNCHANGED <<p_alone, p_ubuf, p_expect>>
      /\ \A q \in Proc : q # p => p_pc'[q] = p_pc[q] /\ p_i'[q] = p_i[q]
  BY <1>0 DEF Proc11!CopyByte, Proc11!Terminate, Proc11!Goto, Ch11TypeOK, Ch11ScanInv
<1>2. \A q \in Proc : q # p /\ p_pc[q] # "user" => ~p_alone[q]
  BY <1>1, Ch11OthersBusy DEF Ch11StrInv
<1>3. Ch11AloneInv'
  BY <1>1 DEF Ch11StrInv, Ch11AloneInv
<1>4. Ch11StringInv'
  BY <1>1 DEF Ch11StringInv
<1>5. Ch11ReaderInv'
  BY <1>1, <1>2 DEF Ch11ReaderInv, Ch11Shows
<1>6. ASSUME p_alone[p]
      PROVE  /\ \A k \in 1 .. p_i'[p] : p_read_str'[k - 1] = p_ubuf[p][k]
             /\ p_pc'[p] = "trim" => p_read_str'[p_i'[p]] = Proc11!NUL
  <2>1. \A k \in 1 .. p_i[p] : p_read_str[k - 1] = p_ubuf[p][k]
    BY <1>1, <1>6 DEF Ch11StrInv, Ch11WriterInv
  <2>2. CASE Proc11!CopyByte(p)
    <3>1. p_read_str' = [p_read_str EXCEPT ![p_i[p]] = p_ubuf[p][p_i[p] + 1]]
          /\ p_i'[p] = p_i[p] + 1 /\ p_pc'[p] = "copy" /\ p_i[p] < BUF_SIZE
      BY <1>0, <1>1, <2>2 DEF Proc11!CopyByte, Ch11TypeOK, Ch11ScanInv
    <3>2. /\ p_read_str'[p_i[p]] = p_ubuf[p][p_i[p] + 1]
          /\ \A k \in 1 .. p_i[p] : p_read_str'[k - 1] = p_read_str[k - 1]
      BY <1>0, <3>1 DEF Ch11TypeOK
    <3>3. \A k \in 1 .. p_i[p] + 1 : k \in 1 .. p_i[p] \/ (k = p_i[p] + 1 /\ k - 1 = p_i[p])
      BY <1>0
    <3> QED BY <2>1, <3>1, <3>2, <3>3
  <2>3. CASE Proc11!Terminate(p)
    <3>1. /\ p_read_str' = [p_read_str EXCEPT ![p_i[p]] = Proc11!NUL]
          /\ p_i' = p_i
      BY <2>3 DEF Proc11!Terminate
    <3>2. /\ p_read_str'[p_i[p]] = Proc11!NUL
          /\ \A k \in 1 .. p_i[p] : p_read_str'[k - 1] = p_read_str[k - 1]
      BY <1>0, <1>1, <3>1 DEF Ch11TypeOK
    <3> QED BY <2>1, <3>1, <3>2
  <2> QED BY <2>2, <2>3
<1>7. Ch11WriterInv'
  BY <1>1, <1>2, <1>6 DEF Ch11WriterInv
<1> QED BY <1>3, <1>4, <1>5, <1>7 DEF Ch11StrInv

\* A write returns: s is there if it was alone all along.
LEMMA Ch11WriteEnds ==
    ASSUME Ch11StrInv, Ch11Inv', NEW p \in Proc, p_pc[p] \in {"copy", "trim"},
           NEW s \in Seq(Chars), Proc11!WriteReturns(p, s),
           p_alone[p] => Ch11Holds(p_read_str', s)
    PROVE  Ch11StrInv'
<1>0. Ch11TypeOK
  BY DEF Ch11StrInv, Ch11Inv
<1>1. /\ p_pc'[p] = "user"
      /\ \A q \in Proc : q # p => p_pc'[q] = p_pc[q] /\ p_alone'[q] = p_alone[q]
  BY <1>0, Ch11ReturnTypes
<1>2. \A q \in Proc : q # p /\ p_pc[q] # "user" => ~p_alone[q]
  BY Ch11OthersBusy DEF Ch11StrInv
<1>3. \A q \in Proc : p_pc'[q] # "user" => ~p_alone'[q]
  BY <1>1, <1>2
<1>4. Ch11AloneInv' /\ Ch11WriterInv' /\ Ch11ReaderInv'
  BY <1>3 DEF Ch11AloneInv, Ch11WriterInv, Ch11ReaderInv, Ch11Shows
<1>5. Ch11StringInv'
  <2>1. p_expect' = IF p_alone[p] THEN s ELSE Proc11!Unknown
    BY DEF Proc11!WriteReturns
  <2>2. CASE p_alone[p]
    <3>1. p_expect' = s
      BY <2>1, <2>2
    <3> QED BY <2>2, <3>1 DEF Ch11StringInv, Ch11Holds
  <2>3. CASE ~p_alone[p]
    BY <2>1, <2>3 DEF Ch11StringInv
  <2> QED BY <2>2, <2>3
<1> QED BY <1>4, <1>5 DEF Ch11StrInv

\* -EFAULT leaves the part copied before the fault.
LEMMA Ch11FaultLeaves ==
    ASSUME Ch11StrInv, NEW p \in Proc, Proc11!CopyFaults(p)
    PROVE  /\ SubSeq(p_ubuf[p], 1, p_i[p]) \in Seq(Chars)
           /\ p_alone[p] => Ch11Holds(p_read_str', SubSeq(p_ubuf[p], 1, p_i[p]))
<1>0. /\ Ch11TypeOK /\ Ch11ScanInv /\ BUF_SIZE \in Nat /\ p_i[p] \in Nat
      /\ Len(p_ubuf[p]) \in Nat /\ p_ubuf[p] \in Seq(Chars)
  BY SizesAssumption, LenProperties DEF Ch11StrInv, Ch11Inv, Ch11TypeOK
<1>1. /\ p_pc[p] = "copy" /\ p_i[p] < Len(p_ubuf[p]) /\ Len(p_ubuf[p]) <= BUF_SIZE
      /\ p_read_str' = [k \in DOMAIN p_read_str |->
            IF k \in p_i[p] .. Len(p_ubuf[p]) - 1 THEN Proc11!NUL ELSE p_read_str[k]]
  BY <1>0 DEF Proc11!CopyFaults, Ch11ScanInv
<1> DEFINE s == SubSeq(p_ubuf[p], 1, p_i[p])
<1>2. \A k \in 1 .. p_i[p] : p_ubuf[p][k] \in Chars
  BY <1>0, <1>1, ElementOfSeq
<1>3. s \in Seq(Chars) /\ Len(s) = p_i[p] /\ \A k \in 1 .. p_i[p] : s[k] = p_ubuf[p][k]
  BY <1>0, <1>2, SubSeqProperties
<1>4. /\ p_read_str'[p_i[p]] = Proc11!NUL
      /\ \A k \in 1 .. p_i[p] : p_read_str'[k - 1] = p_read_str[k - 1]
  BY <1>0, <1>1 DEF Ch11TypeOK
<1>5. p_alone[p] => \A k \in 1 .. p_i[p] : p_read_str[k - 1] = p_ubuf[p][k]
  BY <1>1 DEF Ch11StrInv, Ch11WriterInv
<1> HIDE DEF s
<1>6. p_alone[p] => Ch11Holds(p_read_str', s)
  BY <1>0, <1>1, <1>3, <1>4, <1>5 DEF Ch11Holds
<1> QED BY <1>3, <1>6 DEF s

\* The newline that proc_info_write cuts off is the last character written.
LEMMA Ch11TrimLeaves ==
    ASSUME Ch11StrInv, NEW p \in Proc, Proc11!TrimNewline(p)
    PROVE  /\ Proc11!Trimmed(p_ubuf[p]) \in Seq(Chars)
           /\ p_alone[p] => Ch11Holds(p_read_str', Proc11!Trimmed(p_ubuf[p]))
<1>0. /\ Ch11TypeOK /\ Ch11ScanInv /\ BUF_SIZE \in Nat /\ p_i[p] \in Nat
      /\ Len(p_ubuf[p]) \in Nat /\ p_ubuf[p] \in Seq(Chars)
  BY SizesAssumption, LenProperties DEF Ch11StrInv, Ch11Inv, Ch11TypeOK
<1> DEFINE u == p_ubuf[p]
           n == Len(u)
           s == SubSeq(u, 1, n - 1)
<1>1. p_pc[p] = "trim" /\ p_i[p] = n /\ n <= BUF_SIZE /\ n \in Nat
  BY <1>0 DEF Proc11!TrimNewline, Ch11ScanInv
<1>2. p_read_str' = IF n > 0 /\ p_read_str[n - 1] = Proc11!NEWLINE
                    THEN [p_read_str EXCEPT ![n - 1] = Proc11!NUL] ELSE p_read_str
  BY <1>1 DEF Proc11!TrimNewline, Proc11!LastByte
<1>3. \A k \in 1 .. n : u[k] \in Chars
  BY <1>0, ElementOfSeq
<1>4. n > 0 => s \in Seq(Chars) /\ Len(s) = n - 1 /\ \A k \in 1 .. n - 1 : s[k] = u[k]
  <2> SUFFICES ASSUME n > 0
               PROVE  s \in Seq(Chars) /\ Len(s) = n - 1 /\ \A k \in 1 .. n - 1 : s[k] = u[k]
    OBVIOUS
  <2>1. n - 1 \in Nat /\ \A k \in 1 .. n - 1 : u[k] \in Chars
    BY <1>1, <1>3
  <2> QED BY <2>1, SubSeqProperties
<1>5. (u # <<>>) <=> n > 0
  BY <1>0, EmptySeq
<1>6. p_alone[p] => /\ \A k \in 1 .. n : p_read_str[k - 1] = u[k]
                    /\ p_read_str[n] = Proc11!NUL
  BY <1>1 DEF Ch11StrInv, Ch11WriterInv
<1>7. Proc11!Trimmed(u) = IF n > 0 /\ u[n] = Proc11!NEWLINE THEN s ELSE u
  BY <1>5 DEF Proc11!Trimmed
<1>8. p_read_str \in [0 .. BUF_SIZE -> Chars \cup {Proc11!NUL}]
  BY <1>0 DEF Ch11TypeOK
<1>9. u \in Seq(Chars)
  BY <1>0
<1> HIDE DEF u, n, s
<1>10. Proc11!Trimmed(u) \in Seq(Chars)
  BY <1>4, <1>7, <1>9
<1>11. ASSUME p_alone[p] PROVE Ch11Holds(p_read_str', Proc11!Trimmed(u))
  <2>1. n > 0 => p_read_str[n - 1] = u[n]
    BY <1>1, <1>6, <1>11
  <2>2. CASE n > 0 /\ u[n] = Proc11!NEWLINE
    <3>1. p_read_str' = [p_read_str EXCEPT ![n - 1] = Proc11!NUL] /\ Proc11!Trimmed(u) = s
      BY <1>2, <1>7, <2>1, <2>2
    <3>2. p_read_str'[n - 1] = Proc11!NUL
          /\ \A k \in 1 .. n - 1 : p_read_str'[k - 1] = p_read_str[k - 1]
      <4>1. n - 1 \in 0 .. BUF_SIZE
        BY <1>0, <1>1, <2>2
      <4>2. \A k \in 1 .. n - 1 : k - 1 \in 0 .. BUF_SIZE /\ k - 1 # n - 1
        BY <1>0, <1>1, <2>2
      <4> QED BY <1>8, <3>1, <4>1, <4>2
    <3>3. \A k \in 1 .. n - 1 : p_read_str'[k - 1] = s[k]
      BY <1>1, <1>4, <1>6, <1>11, <2>2, <3>2
    <3> QED BY <1>0, <1>1, <1>4, <2>2, <3>1, <3>2, <3>3 DEF Ch11Holds
  <2>3. CASE ~(n > 0 /\ u[n] = Proc11!NEWLINE)
    <3>1. p_read_str' = p_read_str /\ Proc11!Trimmed(u) = u
      BY <1>2, <1>7, <2>1, <2>3
    <3> QED BY <1>1, <1>6, <1>11, <3>1 DEF Ch11Holds, n
  <2> QED BY <2>2, <2>3
<1> QED BY <1>10, <1>11 DEF u

\* A reader that is alone finds the expected string in the array.
LEMMA Ch11ReaderSees ==
    ASSUME Ch11StrInv, NEW p \in Proc, p_alone[p], p_expect # Proc11!Unknown,
           p_pc[p] \in {"scan", "print"}
    PROVE  /\ p_expect \in Seq(Chars) /\ Len(p_expect) \in Nat
           /\ p_i[p] \in Nat /\ p_i[p] <= Len(p_expect)
           /\ p_read_str[p_i[p]] = Proc11!NUL <=> p_i[p] = Len(p_expect)
           /\ p_i[p] < Len(p_expect) => p_read_str[p_i[p]] = p_expect[p_i[p] + 1]
<1>1. p_expect \in Seq(Chars) /\ Len(p_expect) \in Nat /\ p_i[p] \in Nat
  BY LenProperties DEF Ch11StrInv, Ch11Inv, Ch11TypeOK
<1>2. \A q \in Proc : p_pc[q] \notin {"copy", "trim"}
  BY DEF Ch11StrInv, Ch11AloneInv
<1>3. Ch11Holds(p_read_str, p_expect)
  BY <1>2 DEF Ch11StrInv, Ch11StringInv
<1>4. p_i[p] <= Len(p_expect)
  BY DEF Ch11StrInv, Ch11ReaderInv, Ch11Shows
<1>5. p_i[p] < Len(p_expect) =>
         p_read_str[p_i[p]] = p_expect[p_i[p] + 1] /\ p_expect[p_i[p] + 1] \in Chars
  BY <1>1, <1>3, ElementOfSeq DEF Ch11Holds
<1> QED BY <1>1, <1>3, <1>4, <1>5, NulIsNoChar DEF Ch11Holds

\* A step of a reader disturbs nobody: what is left to show is its own part.
LEMMA Ch11ReaderOnly ==
    ASSUME Ch11StrInv, Ch11Inv', NEW p \in Proc,
           p_pc[p] \in {"user", "scan", "print", "shown"},
           p_pc'[p] \in {"user", "scan", "print", "shown"},
           UNCHANGED <<p_read_str, p_ubuf, p_expect>>,
           p_alone'[p] /\ p_pc'[p] # "user" =>
              \A q \in Proc : q # p => p_pc[q] \notin {"copy", "trim"},
           \A q \in Proc : q # p =>
              /\ p_pc'[q] = p_pc[q] /\ p_i'[q] = p_i[q] /\ p_count'[q] = p_count[q]
              /\ p_out'[q] = p_out[q] /\ p_alone'[q] = p_alone[q],
           p_alone'[p] /\ p_expect # Proc11!Unknown => Ch11Shows(p)'
    PROVE  Ch11StrInv'
<1>1. Ch11AloneInv'
  BY DEF Ch11StrInv, Ch11AloneInv
<1>2. Ch11WriterInv'
  BY DEF Ch11StrInv, Ch11WriterInv
<1>3. Ch11StringInv'
  BY DEF Ch11StrInv, Ch11StringInv, Ch11Holds
<1>4. Ch11ReaderInv'
  <2> SUFFICES ASSUME NEW r \in Proc, p_alone'[r], p_expect' # Proc11!Unknown'
               PROVE  Ch11Shows(r)'
    BY DEF Ch11ReaderInv
  <2>1. CASE r = p
    BY <2>1 DEF Proc11!Unknown, Proc11!NUL
  <2>2. CASE r # p
    <3>1. Ch11Shows(r)
      BY <2>2 DEF Ch11StrInv, Ch11ReaderInv, Proc11!Unknown, Proc11!NUL
    <3>2. /\ p_pc'[r] = p_pc[r] /\ p_i'[r] = p_i[r] /\ p_count'[r] = p_count[r]
          /\ p_out'[r] = p_out[r] /\ p_expect' = p_expect
      BY <2>2
    <3> QED BY <3>1, <3>2 DEF Ch11Shows
  <2> QED BY <2>1, <2>2
<1> QED BY <1>1, <1>2, <1>3, <1>4 DEF Ch11StrInv

\* A step of proc_info_show counts or prints the next character expected.
LEMMA Ch11ReaderSteps ==
    ASSUME Ch11StrInv, Ch11Inv', NEW p \in Proc,
           Proc11!Show(p) \/ Proc11!Scan(p) \/ Proc11!PrintStr(p) \/ Proc11!ShowReturns(p)
    PROVE  Ch11StrInv'
<1>0. Ch11TypeOK /\ Ch11ScanInv /\ p_i[p] \in Nat /\ p_count[p] \in Nat
  BY DEF Ch11StrInv, Ch11Inv, Ch11TypeOK
<1>1. /\ UNCHANGED <<p_read_str, p_ubuf, p_expect>>
      /\ p_pc[p] \in {"user", "scan", "print", "shown"}
      /\ p_pc'[p] \in {"user", "scan", "print", "shown"}
  BY <1>0 DEF Ch11TypeOK, Proc11!Show, Proc11!Scan, Proc11!PrintStr, Proc11!ShowReturns, Proc11!Goto
<1>2. \A q \in Proc : q # p =>
        /\ p_pc'[q] = p_pc[q] /\ p_i'[q] = p_i[q] /\ p_count'[q] = p_count[q]
        /\ p_out'[q] = p_out[q]
  BY <1>0 DEF Ch11TypeOK, Proc11!Show, Proc11!Scan, Proc11!PrintStr, Proc11!ShowReturns, Proc11!Goto
<1>3. \A q \in Proc : q # p => p_alone'[q] = p_alone[q]
  BY <1>0 DEF Ch11TypeOK, Proc11!Show, Proc11!Scan, Proc11!PrintStr, Proc11!ShowReturns
<1>4. p_alone'[p] /\ p_pc'[p] # "user" =>
        \A q \in Proc : q # p => p_pc[q] \notin {"copy", "trim"}
  <2>1. CASE Proc11!Show(p)
    <3>1. p_alone' = [p_alone EXCEPT ![p] = (Proc11!Writing = {})]
      BY <2>1 DEF Proc11!Show
    <3>2. p_alone'[p] => Proc11!Writing = {}
      BY <1>0, <3>1 DEF Ch11TypeOK
    <3> QED BY <3>2 DEF Proc11!Writing
  <2>2. CASE Proc11!Scan(p) \/ Proc11!PrintStr(p)
    <3>1. p_alone' = p_alone /\ p_pc[p] # "user"
      BY <2>2 DEF Proc11!Scan, Proc11!PrintStr
    <3> QED BY <3>1 DEF Ch11StrInv, Ch11AloneInv
  <2>3. CASE Proc11!ShowReturns(p)
    BY <1>0, <2>3 DEF Ch11TypeOK, Proc11!ShowReturns, Proc11!Goto
  <2> QED BY <2>1, <2>2, <2>3
<1>5. ASSUME p_alone'[p], p_expect # Proc11!Unknown PROVE Ch11Shows(p)'
  <2>0. p_expect \in Seq(Chars) /\ Len(p_expect) \in Nat
    BY <1>0, <1>5, LenProperties DEF Ch11TypeOK
  <2>1. CASE Proc11!Show(p)
    <3>1. p_pc'[p] = "scan" /\ p_i'[p] = 0 /\ p_count'[p] = 0 /\ p_expect' = p_expect
      BY <1>0, <2>1 DEF Ch11TypeOK, Proc11!Show, Proc11!Goto
    <3>2. Spaces(p_expect, 0) = 0
      BY SpacesStep
    <3> QED BY <2>0, <3>1, <3>2 DEF Ch11Shows
  <2>2. CASE Proc11!Scan(p)
    <3>1. p_alone[p] /\ p_pc[p] = "scan" /\ p_expect' = p_expect
      BY <1>5, <2>2 DEF Proc11!Scan
    <3>2. /\ p_i[p] <= Len(p_expect)
          /\ p_read_str[p_i[p]] = Proc11!NUL <=> p_i[p] = Len(p_expect)
          /\ p_i[p] < Len(p_expect) => p_read_str[p_i[p]] = p_expect[p_i[p] + 1]
      BY <1>5, <3>1, Ch11ReaderSees
    <3>3. p_count[p] = Spaces(p_expect, p_i[p])
      BY <1>5, <3>1 DEF Ch11StrInv, Ch11ReaderInv, Ch11Shows
    <3>4. CASE p_i[p] = Len(p_expect)
      <4>1. /\ p_pc'[p] = "print" /\ p_i'[p] = 0 /\ p_count'[p] = p_count[p]
            /\ p_out'[p] = p_out[p]
        BY <1>0, <2>2, <3>2, <3>4 DEF Ch11TypeOK, Proc11!Scan, Proc11!Goto
      <4>2. p_out[p] = <<>> /\ Len(<<>>) = 0
        BY <1>0, <3>1, EmptySeq DEF Ch11ScanInv
      <4> QED BY <2>0, <3>1, <3>3, <3>4, <4>1, <4>2 DEF Ch11Shows
    <3>5. CASE p_i[p] < Len(p_expect)
      <4>1. /\ p_pc'[p] = "scan" /\ p_i'[p] = p_i[p] + 1
            /\ p_count' = [p_count EXCEPT ![p] = IF p_read_str[p_i[p]] = Proc11!SPACE THEN @ + 1 ELSE @]
        BY <1>0, <2>0, <2>2, <3>1, <3>2, <3>5 DEF Ch11TypeOK, Proc11!Scan
      <4>2. p_count'[p] = IF p_expect[p_i[p] + 1] = Proc11!SPACE THEN p_count[p] + 1 ELSE p_count[p]
        BY <1>0, <3>2, <3>5, <4>1 DEF Ch11TypeOK
      <4>3. p_count'[p] = Spaces(p_expect, p_i[p] + 1)
        BY <1>0, <3>3, <4>2, SpacesStep
      <4> QED BY <1>0, <2>0, <3>1, <3>5, <4>1, <4>3 DEF Ch11Shows
    <3> QED BY <1>0, <2>0, <3>2, <3>4, <3>5
  <2>3. CASE Proc11!PrintStr(p)
    <3>1. p_alone[p] /\ p_pc[p] = "print" /\ p_expect' = p_expect /\ p_count' = p_count
      BY <1>5, <2>3 DEF Proc11!PrintStr
    <3>2. /\ p_i[p] <= Len(p_expect)
          /\ p_read_str[p_i[p]] = Proc11!NUL <=> p_i[p] = Len(p_expect)
          /\ p_i[p] < Len(p_expect) => p_read_str[p_i[p]] = p_expect[p_i[p] + 1]
      BY <1>5, <3>1, Ch11ReaderSees
    <3>3. /\ p_count[p] = Spaces(p_expect, Len(p_expect))
          /\ Len(p_out[p]) = p_i[p] /\ \A k \in 1 .. p_i[p] : p_out[p][k] = p_expect[k]
      BY <1>5, <3>1 DEF Ch11StrInv, Ch11ReaderInv, Ch11Shows
    <3>4. p_out[p] \in Seq(Chars)
      BY <1>0 DEF Ch11TypeOK
    <3>5. CASE p_i[p] = Len(p_expect)
      <4>1. p_pc'[p] = "shown" /\ p_out'[p] = p_out[p]
        BY <1>0, <2>3, <3>2, <3>5 DEF Ch11TypeOK, Proc11!PrintStr, Proc11!Goto
      <4>2. p_out[p] = p_expect
        BY <2>0, <3>3, <3>4, <3>5, SeqEqual
      <4> QED BY <3>1, <3>3, <4>1, <4>2 DEF Ch11Shows
    <3>6. CASE p_i[p] < Len(p_expect)
      <4>1. /\ p_pc'[p] = "print" /\ p_i'[p] = p_i[p] + 1
            /\ p_out'[p] = Append(p_out[p], p_expect[p_i[p] + 1])
        BY <1>0, <2>0, <2>3, <3>1, <3>2, <3>6 DEF Ch11TypeOK, Proc11!PrintStr
      <4>2. p_expect[p_i[p] + 1] \in Chars
        BY <1>0, <2>0, <3>6, ElementOfSeq
      <4>3. /\ Len(p_out'[p]) = p_i[p] + 1 /\ p_out'[p][p_i[p] + 1] = p_expect[p_i[p] + 1]
            /\ \A k \in 1 .. p_i[p] : p_out'[p][k] = p_out[p][k]
        BY <3>3, <3>4, <4>1, <4>2, AppendProperties
      <4>4. \A k \in 1 .. p_i[p] + 1 : p_out'[p][k] = p_expect[k]
        <5>1. \A k \in 1 .. p_i[p] + 1 : k \in 1 .. p_i[p] \/ k = p_i[p] + 1
          BY <1>0
        <5> QED BY <3>3, <4>3, <5>1
      <4> QED BY <1>0, <2>0, <3>1, <3>3, <3>6, <4>1, <4>3, <4>4 DEF Ch11Shows
    <3> QED BY <1>0, <2>0, <3>2, <3>5, <3>6
  <2>4. CASE Proc11!ShowReturns(p)
    <3>1. p_pc'[p] = "user"
      BY <1>0, <2>4 DEF Ch11TypeOK, Proc11!ShowReturns, Proc11!Goto
    <3> QED BY <3>1 DEF Ch11Shows
  <2> QED BY <2>1, <2>2, <2>3, <2>4
<1> QED BY <1>1, <1>2, <1>3, <1>4, <1>5, Ch11ReaderOnly

\* A fresh module holds the empty string.
LEMMA Ch11Loads ==
    ASSUME Ch11StrInv, Ch11Inv', Proc11!Insmod \/ Proc11!Rmmod
    PROVE  Ch11StrInv'
<1>1. /\ p_pc' = p_pc /\ \A p \in Proc : p_pc[p] = "user"
  BY DEF Ch11StrInv, Ch11Inv, Ch11ScanInv, Proc11!Insmod, Proc11!Rmmod, Proc11!procVars
<1>2. Ch11AloneInv' /\ Ch11WriterInv' /\ Ch11ReaderInv'
  BY <1>1 DEF Ch11AloneInv, Ch11WriterInv, Ch11ReaderInv, Ch11Shows
<1>3. Ch11StringInv'
  <2>1. CASE Proc11!Insmod
    <3>1. p_expect' = <<>> /\ p_read_str' = Proc11!Blank /\ Len(<<>>) = 0
      BY <2>1, EmptySeq DEF Proc11!Insmod
    <3>2. Ch11Holds(p_read_str', <<>>)
      BY <3>1, SizesAssumption DEF Ch11Holds, Proc11!Blank
    <3> QED BY <3>1, <3>2 DEF Ch11StringInv
  <2>2. CASE Proc11!Rmmod
    BY <1>1, <2>2 DEF Proc11!Rmmod, Ch11StrInv, Ch11StringInv
  <2> QED BY <2>1, <2>2
<1> QED BY <1>2, <1>3 DEF Ch11StrInv

\* A show that no write disturbed prints the string of the last write that was
\* alone, capped, trimmed or cut off at a fault, and counts exactly its spaces.
THEOREM Ch11ShowsWhatWasWritten == Spec => []ShowsWhatWasWritten
<1>1. Init => Ch11StrInv
  <2> SUFFICES ASSUME Init PROVE Ch11StrInv
    OBVIOUS
  <2>1. Ch11Inv /\ Proc11!Init
    BY Ch11InitInv DEF Init
  <2>2. \A p \in Proc : p_pc[p] = "user"
    BY <2>1 DEF Proc11!Init
  <2>3. Ch11AloneInv /\ Ch11WriterInv /\ Ch11ReaderInv
    BY <2>2 DEF Ch11AloneInv, Ch11WriterInv, Ch11ReaderInv, Ch11Shows
  <2>4. p_expect = <<>> /\ p_read_str = Proc11!Blank /\ Len(<<>>) = 0
    BY <2>1, EmptySeq DEF Proc11!Init
  <2>5. Ch11StringInv
    BY <2>4, SizesAssumption DEF Ch11StringInv, Ch11Holds, Proc11!Blank
  <2> QED BY <2>1, <2>3, <2>5 DEF Ch11StrInv
<1>2. Ch11Inv /\ Ch11Inv' /\ Ch11StrInv /\ [Next]_vars => Ch11StrInv'
  <2> SUFFICES ASSUME Ch11Inv', Ch11StrInv, [Next]_vars PROVE Ch11StrInv'
    OBVIOUS
  <2>1. CASE UNCHANGED proc11Vars
    <3>1. Ch11AloneInv' /\ Ch11WriterInv' /\ Ch11StringInv'
      BY <2>1 DEF proc11Vars, Ch11StrInv, Ch11AloneInv, Ch11WriterInv, Ch11StringInv
    <3>2. Ch11ReaderInv'
      BY <2>1 DEF proc11Vars, Ch11StrInv, Ch11ReaderInv, Ch11Shows
    <3> QED BY <3>1, <3>2 DEF Ch11StrInv
  <2>2. CASE Proc11!Next
    <3>1. CASE Proc11!Insmod \/ Proc11!Rmmod
      BY <3>1, Ch11Loads
    <3>2. ASSUME NEW p \in Proc,
                 \/ Proc11!Write(p) \/ Proc11!CopyByte(p) \/ Proc11!CopyFaults(p)
                 \/ Proc11!Terminate(p) \/ Proc11!TrimNewline(p)
                 \/ Proc11!Show(p) \/ Proc11!Scan(p) \/ Proc11!PrintStr(p)
                 \/ Proc11!ShowReturns(p)
          PROVE  Ch11StrInv'
      <4>1. CASE Proc11!CopyFaults(p)
        BY <4>1, Ch11FaultLeaves, Ch11WriteEnds DEF Proc11!CopyFaults
      <4>2. CASE Proc11!TrimNewline(p)
        BY <4>2, Ch11TrimLeaves, Ch11WriteEnds DEF Proc11!TrimNewline
      <4> QED BY <3>2, <4>1, <4>2, Ch11WriteStarts, Ch11Copies, Ch11ReaderSteps
    <3> QED BY <2>2, <3>1, <3>2 DEF Proc11!Next
  <2> QED BY <2>1, <2>2, OneMoves
<1>3. Ch11StrInv => ShowsWhatWasWritten
  <2> SUFFICES ASSUME Ch11StrInv, NEW p \in Proc, p_pc[p] = "shown", p_alone[p],
                      p_expect # Proc11!Unknown
               PROVE  /\ p_out[p] = p_expect
                      /\ p_count[p] = Proc11!Cardinality({k \in DOMAIN p_expect : p_expect[k] = Proc11!SPACE})
    BY DEF ShowsWhatWasWritten, Proc11!ShowsWhatWasWritten
  <2>1. p_expect \in Seq(Chars)
    BY DEF Ch11StrInv, Ch11Inv, Ch11TypeOK
  <2>2. DOMAIN p_expect = 1 .. Len(p_expect)
    BY <2>1, LenProperties
  <2>3. p_out[p] = p_expect /\ p_count[p] = Spaces(p_expect, Len(p_expect))
    BY DEF Ch11StrInv, Ch11ReaderInv, Ch11Shows
  <2>4. \A S : Proc11!Cardinality(S) = Cardinality(S)
    BY DEF Proc11!Cardinality, Cardinality
  <2> QED BY <2>2, <2>3, <2>4 DEF Spaces
<1> QED BY <1>1, <1>2, <1>3, Ch11InvHolds, PTL DEF Spec

-----------------------------------------------------------------------------
(* ch9: the stepping motor. *)

\* The calls of simple_motor_init, and how many rounds each takes.
LEMMA MotorPlan ==
    /\ Len(Motor!Plan) = 4
    /\ Motor!Plan[1] = [degree |-> 90, direction |-> 0] /\ Motor!Plan[2] = [degree |-> 45, direction |-> 1]
    /\ Motor!Plan[3] = [degree |-> 45, direction |-> 1] /\ Motor!Plan[4] = [degree |-> 180, direction |-> 0]
    /\ Motor!TargetRounds(90) = 128 /\ Motor!TargetRounds(45) = 64 /\ Motor!TargetRounds(180) = 256
<1>1. Len(Motor!Plan) = 4
  BY DEF Motor!Plan
<1>2. /\ Motor!Plan[1] = [degree |-> 90, direction |-> 0] /\ Motor!Plan[2] = [degree |-> 45, direction |-> 1]
      /\ Motor!Plan[3] = [degree |-> 45, direction |-> 1] /\ Motor!Plan[4] = [degree |-> 180, direction |-> 0]
  BY DEF Motor!Plan
<1>3. Motor!TargetRounds(90) = 128 /\ Motor!TargetRounds(45) = 64 /\ Motor!TargetRounds(180) = 256
  BY DEF Motor!TargetRounds, Motor!ONEROUND
<1> QED BY <1>1, <1>2, <1>3

\* Row n of the tables holds the rotor at n half steps, and nowhere else.
LEMMA MotorHeld == \A n \in 0 .. 7 : Motor!Held(Motor!Pattern(n)) = {n}
<1> DEFINE on(c, k) == c[(k % 4) + 1] = 1
<1>1. \A n \in 0 .. 7 :
        /\ on(Motor!Pattern(n), 0) <=> n \in {0, 1, 7}
        /\ on(Motor!Pattern(n), 1) <=> n \in {1, 2, 3}
        /\ on(Motor!Pattern(n), 2) <=> n \in {3, 4, 5}
        /\ on(Motor!Pattern(n), 3) <=> n \in {5, 6, 7}
  BY DEF Motor!Pattern, Motor!blue, Motor!pink, Motor!yellow, Motor!orange
<1> QED BY <1>1 DEF Motor!Held, Motor!STEPS

\* What moveDegree has turned after n calls.
LEMMA MotorTurned ==
    Motor!Turned(1) = 90 /\ Motor!Turned(2) = 45 /\ Motor!Turned(3) = 0 /\ Motor!Turned(4) = 180
<1> DEFINE leg(k) == IF Motor!Plan[k].direction = 0 THEN Motor!Plan[k].degree ELSE -Motor!Plan[k].degree
           Sum(n, f) == f = [k \in 0 .. n |-> IF k = 0 THEN 0 ELSE f[k - 1] + leg(k)]
           angle(k) == IF k = 1 THEN 90 ELSE IF k = 2 THEN 45 ELSE IF k = 4 THEN 180 ELSE 0
<1>1. leg(1) = 90 /\ leg(2) = -45 /\ leg(3) = -45 /\ leg(4) = 180
  BY MotorPlan
<1> HIDE DEF leg
<1>2. ASSUME NEW n \in 1 .. 4 PROVE Motor!Turned(n) = angle(n)
  <2>1. Motor!Turned(n) = (CHOOSE f : Sum(n, f))[n]
    BY DEF Motor!Turned, leg
  <2>2. Sum(n, [k \in 0 .. n |-> angle(k)])
    <3>1. \A k \in 1 .. n : angle(k) = angle(k - 1) + leg(k)
      BY <1>1
    <3> QED BY <3>1
  <2>3. PICK f : f = (CHOOSE x : Sum(n, x)) /\ Sum(n, f)
    BY <2>2
  <2>4. f[0] = 0 /\ \A k \in 1 .. n : f[k] = f[k - 1] + leg(k)
    BY <2>3
  <2>5. f[1] = 90 /\ (n >= 2 => f[2] = 45) /\ (n >= 3 => f[3] = 0) /\ (n = 4 => f[4] = 180)
    BY <1>1, <2>4
  <2> QED BY <2>1, <2>3, <2>5
<1> QED BY <1>2

\* Half steps asked for so far by the call of moveDegree in progress.
MotorSteps == 8 * m_i + (IF m_leg \in {2, 3} THEN 7 - m_j ELSE m_j)

\* The rotor follows the patterns of a leg one by one, from its first one on.
MotorInv ==
    /\ m_leg \in 0 .. 5 /\ m_i \in Nat /\ m_j \in 0 .. 7 /\ m_rotor \in Int
    /\ m_leg = 1 => /\ MotorSteps <= 1024
                    /\ IF MotorSteps = 0 THEN m_rotor \in -3 .. 3 ELSE m_rotor = MotorSteps - 1
    /\ m_leg = 2 => /\ MotorSteps <= 512
                    /\ IF MotorSteps = 0 THEN m_rotor = 1023 ELSE m_rotor = 1024 - MotorSteps
    /\ m_leg = 3 => MotorSteps <= 512 /\ m_rotor = 512 - MotorSteps
    /\ m_leg = 4 => /\ MotorSteps <= 2048
                    /\ IF MotorSteps = 0 THEN m_rotor = 0 ELSE m_rotor = MotorSteps - 1
    /\ m_leg = 5 => m_rotor = 2047

\* A rotor within three half steps of the pattern turns there.
LEMMA MotorNearest ==
    ASSUME NEW r \in Int, NEW n \in 0 .. 7, NEW k \in Int, NEW d \in -3 .. 3, r = 8 * k + n - d
    PROVE  Motor!Nearest(r, n) = {r + d}
<1>1. (n - r) % 8 = IF d < 0 THEN d + 8 ELSE d
  OBVIOUS
<1> QED BY <1>1 DEF Motor!Nearest, Motor!STEPS

\* A round of the inner loop: the rotor follows the pattern by one half step.
LEMMA MotorSetStep == ASSUME MotorInv, Motor!SetStep PROVE MotorInv'
<1>1. /\ m_leg \in 1 .. 4 /\ m_i < Motor!TargetRounds(Motor!Plan[m_leg].degree)
      /\ m_leg' = m_leg
      /\ m_rotor' \in Motor!Nearest(m_rotor, m_j)
  <2>1. Motor!Held(Motor!Pattern(m_j)) = {m_j}
    BY MotorHeld DEF MotorInv
  <2> QED BY <2>1, MotorPlan DEF Motor!SetStep
<1>2. CASE m_leg \in {1, 4}
  <2>1. IF m_j = 7 THEN m_j' = 0 /\ m_i' = m_i + 1 ELSE m_j' = m_j + 1 /\ m_i' = m_i
    BY <1>2, MotorPlan DEF Motor!SetStep, Motor!FirstStep, Motor!STEPS, MotorInv
  <2>2. MotorSteps' = MotorSteps + 1 /\ MotorSteps = 8 * m_i + m_j
    BY <1>1, <1>2, <2>1 DEF MotorSteps, MotorInv
  <2>3. m_rotor' = MotorSteps
    <3>1. CASE MotorSteps = 0
      <4>1. m_rotor = 8 * 0 + m_j - (-m_rotor) /\ m_rotor \in -3 .. 3 /\ -m_rotor \in -3 .. 3 /\ m_j = 0
        BY <1>2, <2>2, <3>1 DEF MotorInv
      <4>2. Motor!Nearest(m_rotor, m_j) = {m_rotor + (-m_rotor)}
        BY <4>1, MotorNearest
      <4> QED BY <1>1, <3>1, <4>1, <4>2
    <3>2. CASE MotorSteps # 0
      <4>1. m_rotor = 8 * m_i + m_j - 1 /\ m_i \in Int /\ m_j \in 0 .. 7
        BY <1>2, <2>2, <3>2 DEF MotorInv
      <4>2. Motor!Nearest(m_rotor, m_j) = {m_rotor + 1}
        BY <4>1, MotorNearest
      <4> QED BY <1>1, <2>2, <4>1, <4>2
    <3> QED BY <3>1, <3>2
  <2> QED BY <1>1, <1>2, <2>1, <2>2, <2>3, MotorPlan DEF MotorInv
<1>3. CASE m_leg \in {2, 3}
  <2>1. IF m_j = 0 THEN m_j' = 7 /\ m_i' = m_i + 1 ELSE m_j' = m_j - 1 /\ m_i' = m_i
    BY <1>3, MotorPlan DEF Motor!SetStep, Motor!FirstStep, Motor!STEPS, MotorInv
  <2>2. MotorSteps' = MotorSteps + 1 /\ MotorSteps = 8 * m_i + 7 - m_j
    BY <1>1, <1>3, <2>1 DEF MotorSteps, MotorInv
  <2>3. m_rotor' = (IF m_leg = 2 THEN 1023 ELSE 511) - MotorSteps
    <3>1. CASE MotorSteps = 0 /\ m_leg = 2
      <4>1. m_rotor = 8 * 127 + m_j - 0 /\ m_rotor = 1023
        BY <2>2, <3>1 DEF MotorInv
      <4>2. Motor!Nearest(m_rotor, m_j) = {m_rotor + 0}
        BY <4>1, MotorNearest DEF MotorInv
      <4> QED BY <1>1, <3>1, <4>1, <4>2
    <3>2. CASE MotorSteps # 0 \/ m_leg = 3
      <4>1. PICK k \in Int : m_rotor = 8 * k + m_j - (-1)
        <5>1. (127 - m_i) \in Int /\ (63 - m_i) \in Int
          BY DEF MotorInv
        <5>2. m_leg = 2 => m_rotor = 8 * (127 - m_i) + m_j - (-1)
          BY <2>2, <3>2 DEF MotorInv
        <5>3. m_leg = 3 => m_rotor = 8 * (63 - m_i) + m_j - (-1)
          BY <2>2, <3>2 DEF MotorInv
        <5> QED BY <1>3, <5>1, <5>2, <5>3
      <4>2. Motor!Nearest(m_rotor, m_j) = {m_rotor + (-1)}
        <5>1. m_rotor \in Int /\ m_j \in 0 .. 7
          BY DEF MotorInv
        <5> QED BY <4>1, <5>1, MotorNearest
      <4> QED BY <1>1, <1>3, <2>2, <4>1, <4>2 DEF MotorInv
    <3> QED BY <1>3, <3>1, <3>2
  <2> QED BY <1>1, <1>3, <2>1, <2>2, <2>3, MotorPlan DEF MotorInv
<1> QED BY <1>1, <1>2, <1>3

\* Between the calls of moveDegree the rotor is where the angles asked for so
\* far add up to, whatever position of rest it started from.
THEOREM MotorReachesAngle == Spec => []ReachesAngle
<1>1. Init => MotorInv
  BY DEF Init, Motor!Init, MotorInv
<1>2. MotorInv /\ [Next]_vars => MotorInv'
  <2> SUFFICES ASSUME MotorInv, [Next]_vars PROVE MotorInv'
    OBVIOUS
  <2>1. CASE UNCHANGED motorVars
    BY <2>1 DEF motorVars, MotorInv, MotorSteps
  <2>2. CASE Motor!Insmod
    BY <2>2, MotorPlan DEF Motor!Insmod, Motor!FirstStep, MotorInv, MotorSteps
  <2>3. CASE Motor!EndLeg
    <3>1. /\ m_leg \in 1 .. 4 /\ m_i >= Motor!TargetRounds(Motor!Plan[m_leg].degree)
          /\ m_leg' = m_leg + 1 /\ m_i' = 0 /\ m_rotor' = m_rotor
          /\ m_j' = Motor!FirstStep(m_leg + 1)
      BY <2>3, MotorPlan DEF Motor!EndLeg
    <3>2. MotorSteps' = 0 /\ m_j' \in 0 .. 7
      BY <3>1, MotorPlan DEF Motor!FirstStep, Motor!STEPS, MotorSteps
    <3>3. /\ m_leg = 1 => MotorSteps = 1024
          /\ m_leg \in {2, 3} => MotorSteps = 512
          /\ m_leg = 4 => MotorSteps = 2048
      BY <3>1, MotorPlan DEF MotorInv, MotorSteps
    <3> QED BY <3>1, <3>2, <3>3 DEF MotorInv
  <2>4. CASE Motor!Rmmod
    BY <2>4, MotorPlan DEF Motor!Rmmod, MotorInv
  <2> QED BY <2>1, <2>2, <2>3, <2>4, MotorSetStep, OneMoves DEF Motor!Next
<1>3. MotorInv => ReachesAngle
  <2> SUFFICES ASSUME MotorInv, m_leg > 1, m_i = 0, m_j = Motor!FirstStep(m_leg)
               PROVE  LET turned == Motor!Turned(m_leg - 1)
                      IN  360 * (m_rotor - 1) <= turned * 4096 /\ turned * 4096 <= 360 * (m_rotor + 1)
    BY MotorTurned DEF ReachesAngle, Motor!ReachesAngle, Motor!STEPS, Motor!ONEROUND, MotorInv
  <2>1. m_leg \in 2 .. 5 /\ (m_leg < 5 => MotorSteps = 0)
    BY MotorPlan DEF MotorInv, MotorSteps, Motor!FirstStep, Motor!STEPS
  <2> QED BY <2>1, MotorTurned DEF MotorInv
<1> QED BY <1>1, <1>2, <1>3, PTL DEF Spec

-----------------------------------------------------------------------------
(* ch2: the calculator without a lock. *)

\* The additions of p that have been stored.
CalcDone(p) == IF a_pc[p] \in {"load", "store"} THEN a_calls[p] - 1 ELSE a_calls[p]

CalcTypeOK ==
    /\ a_loaded \in BOOLEAN /\ a_counting \in BOOLEAN /\ a_stored \in Nat
    /\ a_pc \in [Proc -> {"user", "load", "store", "return"}]
    /\ a_calls \in [Proc -> Nat]
    /\ DOMAIN a_op = Proc /\ DOMAIN a_arg = Proc /\ DOMAIN a_reg = Proc
    /\ ~a_loaded => Calc!Idle

\* While only 1 is added and nothing wraps.
CalcCounts == a_loaded /\ a_counting /\ a_stored < 2 ^ WIDTH

\* What is loaded, and what is stored later, never exceeds the stores.
CalcUpperInv ==
    /\ a_result \in 0 .. a_stored
    /\ \A p \in Proc :
          /\ a_pc[p] \in {"load", "store"} => a_op[p] = "ADD" /\ a_arg[p] = 1 /\ a_calls[p] >= 1
          /\ a_pc[p] = "store" => a_reg[p] \in 0 .. a_stored

\* After anybody's first addition result stays above 0, and so does what is
\* loaded after one's own; only a first addition can leave result at 1.
CalcLowerInv ==
    /\ \A p \in Proc : CalcDone(p) >= 1 =>
          a_result >= 1 /\ (a_pc[p] = "store" => a_reg[p] >= 1)
    /\ \/ a_result >= 2
       \/ \E q \in Proc : CalcDone(q) = 1
       \/ \A p \in Proc : CalcDone(p) = 0

CalcInv == CalcTypeOK /\ (CalcCounts => CalcUpperInv /\ CalcLowerInv)

\* A load sees result as it is, a call begun or returned stores nothing.
LEMMA CalcQuietStep ==
    ASSUME CalcInv, NEW p \in Proc, Calc!Ioctl(p) \/ Calc!Load(p) \/ Calc!Return(p)
    PROVE  CalcInv'
<1> USE DEF CalcInv, CalcTypeOK, CalcCounts
<1>1. CASE Calc!Ioctl(p)
  <2>1. PICK o \in {"GET", "SET", "ADD", "MUL"}, a \in Arg :
          /\ a_op' = [a_op EXCEPT ![p] = o]
          /\ a_arg' = [a_arg EXCEPT ![p] = a]
          /\ a_pc' = [a_pc EXCEPT ![p] = CASE o = "GET" -> "return" [] o = "SET" -> "store"
                                           [] OTHER -> "load"]
          /\ a_calls' = [a_calls EXCEPT ![p] = IF o = "GET" THEN @ ELSE @ + 1]
          /\ a_counting' = (a_counting /\ (o = "GET" \/ (o = "ADD" /\ a = 1)))
    BY <1>1 DEF Calc!Ioctl
  <2>2. /\ a_loaded /\ a_pc[p] = "user"
        /\ UNCHANGED <<a_loaded, a_result, a_reg, a_stored>>
    BY <1>1 DEF Calc!Ioctl
  <2>3. CalcTypeOK'
    BY <2>1, <2>2
  <2>4. ASSUME CalcCounts'
        PROVE  CalcUpperInv' /\ CalcLowerInv'
    <3>1. CalcUpperInv /\ CalcLowerInv /\ (o = "GET" \/ (o = "ADD" /\ a = 1))
      BY <2>1, <2>2, <2>4
    <3>2. CalcUpperInv'
      BY <2>1, <2>2, <3>1 DEF CalcUpperInv
    <3>3. \A q \in Proc : CalcDone(q)' = CalcDone(q)
      BY <2>1, <2>2, <3>1 DEF CalcDone
    <3>4. CalcLowerInv'
      BY <2>1, <2>2, <3>1, <3>3 DEF CalcLowerInv
    <3> QED BY <3>2, <3>4
  <2> QED BY <2>3, <2>4
<1>2. CASE Calc!Load(p)
  <2>1. /\ a_pc[p] = "load"
        /\ a_reg' = [a_reg EXCEPT ![p] = a_result] /\ a_pc' = [a_pc EXCEPT ![p] = "store"]
        /\ UNCHANGED <<a_loaded, a_result, a_op, a_arg, a_calls, a_stored, a_counting>>
    BY <1>2 DEF Calc!Load
  <2>2. CalcTypeOK'
    BY <2>1 DEF Calc!Idle
  <2>3. CalcCounts => CalcUpperInv'
    BY <2>1 DEF CalcUpperInv
  <2>4. CalcCounts => CalcLowerInv'
    <3>1. \A q \in Proc : CalcDone(q)' = CalcDone(q)
      BY <2>1 DEF CalcDone
    <3> QED BY <2>1, <3>1 DEF CalcLowerInv
  <2> QED BY <2>1, <2>2, <2>3, <2>4
<1>3. CASE Calc!Return(p)
  <2>1. /\ a_pc[p] = "return" /\ a_pc' = [a_pc EXCEPT ![p] = "user"]
        /\ a_reg' = [a_reg EXCEPT ![p] = 0]
        /\ a_op' = [a_op EXCEPT ![p] = "GET"] /\ a_arg' = [a_arg EXCEPT ![p] = 0]
        /\ UNCHANGED <<a_loaded, a_result, a_calls, a_stored, a_counting>>
    BY <1>3 DEF Calc!Return
  <2>2. CalcTypeOK'
    BY <2>1 DEF Calc!Idle
  <2>3. CalcCounts => CalcUpperInv'
    BY <2>1 DEF CalcUpperInv
  <2>4. CalcCounts => CalcLowerInv'
    <3>1. \A q \in Proc : CalcDone(q)' = CalcDone(q)
      BY <2>1 DEF CalcDone
    <3> QED BY <2>1, <3>1 DEF CalcLowerInv
  <2> QED BY <2>1, <2>2, <2>3, <2>4
<1> QED BY <1>1, <1>2, <1>3

\* A store puts one more than was loaded there, which may be less than there is.
LEMMA CalcStoreStep == ASSUME CalcInv, NEW p \in Proc, Calc!Store(p) PROVE CalcInv'
<1> USE DEF CalcInv, CalcTypeOK, CalcCounts
<1>1. /\ a_pc[p] = "store" /\ a_pc' = [a_pc EXCEPT ![p] = "return"]
      /\ a_result' = Calc!Computed(a_op[p], a_reg[p], a_arg[p])
      /\ a_stored' = a_stored + 1
      /\ UNCHANGED <<a_loaded, a_op, a_arg, a_reg, a_calls, a_counting>>
  BY DEF Calc!Store
<1>2. CalcTypeOK'
  BY <1>1 DEF Calc!Idle
<1>3. ASSUME CalcCounts'
      PROVE  CalcUpperInv' /\ CalcLowerInv'
  <2>1. 2 ^ WIDTH \in Int
    BY SizesAssumption
  <2>2. CalcUpperInv /\ CalcLowerInv
    BY <1>1, <1>3, <2>1
  <2>3. a_reg[p] \in Nat /\ a_reg[p] + 1 <= a_stored' /\ a_reg[p] + 1 < 2 ^ WIDTH
    BY <1>1, <1>3, <2>1, <2>2 DEF CalcUpperInv
  <2>4. a_result' = (a_reg[p] + 1) % 2 ^ WIDTH
    BY <1>1, <2>2 DEF CalcUpperInv, Calc!Computed
  <2>5. a_result' = a_reg[p] + 1
    BY <2>1, <2>3, <2>4
  <2>6. CalcUpperInv'
    BY <1>1, <2>2, <2>3, <2>5 DEF CalcUpperInv
  <2>7. /\ \A q \in Proc \ {p} : CalcDone(q)' = CalcDone(q)
        /\ CalcDone(p)' = CalcDone(p) + 1 /\ CalcDone(p) \in Nat
    BY <1>1, <2>2 DEF CalcDone, CalcUpperInv
  <2>8. CalcDone(p) >= 1 => a_result' >= 2
    BY <1>1, <2>2, <2>3, <2>5, <2>7 DEF CalcLowerInv
  <2>9. CalcLowerInv'
    <3>1. \A q \in Proc : CalcDone(q)' >= 1 =>
             a_result' >= 1 /\ (a_pc'[q] = "store" => a_reg'[q] >= 1)
      BY <1>1, <2>2, <2>3, <2>5, <2>7 DEF CalcLowerInv
    <3>2. a_result' >= 2 \/ CalcDone(p)' = 1
      BY <2>7, <2>8
    <3> QED BY <3>1, <3>2 DEF CalcLowerInv
  <2> QED BY <2>6, <2>9
<1> QED BY <1>2, <1>3

\* However the loads and stores of the processes interleave, an unlocked += loses
\* no more than UpdatesSurvive allows.
THEOREM CalcUpdatesSurvive == Spec => []UpdatesSurvive
<1>1. Init => CalcInv
  <2>1. Calc!Init => CalcTypeOK /\ ~a_loaded
    <3> SUFFICES ASSUME Calc!Init PROVE CalcTypeOK /\ ~a_loaded
      OBVIOUS
    <3>1. a_loaded = FALSE /\ a_counting = TRUE /\ a_stored = 0
      BY DEF Calc!Init
    <3>2. a_pc = [p \in Proc |-> "user"] /\ a_calls = [p \in Proc |-> 0]
      BY DEF Calc!Init
    <3>3. DOMAIN a_op = Proc /\ DOMAIN a_arg = Proc /\ DOMAIN a_reg = Proc
      BY DEF Calc!Init
    <3> QED BY <3>1, <3>2, <3>3 DEF CalcTypeOK, Calc!Idle
  <2> QED BY <2>1 DEF Init, CalcInv, CalcCounts
<1>2. CalcInv /\ [Next]_vars => CalcInv'
  <2> SUFFICES ASSUME CalcInv, [Next]_vars PROVE CalcInv'
    OBVIOUS
  <2>1. CASE UNCHANGED calcVars
    BY <2>1 DEF calcVars, CalcInv, CalcTypeOK, CalcCounts, CalcUpperInv, CalcLowerInv,
                CalcDone, Calc!Idle
  <2>2. CASE Calc!Insmod
    <3>1. /\ a_pc' = a_pc /\ a_result' = 0 /\ a_stored' = 0
          /\ \A p \in Proc : a_pc[p] = "user" /\ a_calls'[p] = 0
      BY <2>2 DEF Calc!Insmod, CalcInv, CalcTypeOK, Calc!Idle
    <3>2. CalcTypeOK'
      BY <2>2 DEF Calc!Insmod, CalcInv, CalcTypeOK
    <3>3. CalcUpperInv' /\ CalcLowerInv'
      BY <3>1 DEF CalcUpperInv, CalcLowerInv, CalcDone
    <3> QED BY <3>2, <3>3 DEF CalcInv
  <2>3. CASE Calc!Rmmod
    BY <2>3 DEF Calc!Rmmod, Calc!procVars, CalcInv, CalcTypeOK, CalcCounts, Calc!Idle
  <2> QED BY <2>1, <2>2, <2>3, CalcQuietStep, CalcStoreStep, OneMoves DEF Calc!Next
<1>3. CalcInv => UpdatesSurvive
  <2> SUFFICES ASSUME CalcInv, CalcCounts PROVE Calc!UpdatesSurvive
    BY DEF UpdatesSurvive, Calc!UpdatesSurvive, CalcCounts
  <2>1. CalcUpperInv /\ CalcLowerInv /\ CalcTypeOK
    BY DEF CalcInv
  <2>2. a_result <= a_stored
    BY <2>1 DEF CalcUpperInv, CalcTypeOK
  <2>3. ASSUME Calc!Idle, NEW k \in 1 .. 2, \A p \in Proc : a_calls[p] >= k
        PROVE  a_result >= k
    <3>1. \A p \in Proc : CalcDone(p) >= k /\ CalcDone(p) \in Nat
      BY <2>1, <2>3 DEF CalcDone, Calc!Idle, CalcTypeOK
    <3>2. PICK p \in Proc : TRUE
      BY ProcAssumption
    <3>3. a_result \in Nat /\ a_result >= 1
      BY <2>1, <3>1, <3>2 DEF CalcUpperInv, CalcLowerInv, CalcTypeOK
    <3>4. CASE k = 2
      BY <2>1, <3>1, <3>2, <3>4 DEF CalcLowerInv
    <3> QED BY <3>3, <3>4
  <2> QED BY <2>2, <2>3 DEF Calc!UpdatesSurvive
<1> QED BY <1>1, <1>2, <1>3, PTL DEF Spec

-----------------------------------------------------------------------------
(* lab14: the four scheduler programs, each along the list of processes that  *)
(* want the CPU.                                                              *)

P == "parent"
C == "child"
G == "grandchild"

\* A process that has not run yet has all its delay before it.
SchedLeft(q) == IF c_st[q] = "new" THEN 30 ELSE c_left[q]

SchedIs(q, s, n) == c_st[q] = s /\ c_left[q] = n
SchedDone(q, n) == c_st[q] = "done" /\ c_fin[q] = n
\* There is no second process, or its sched_setattr has failed.
SchedAlone == c_st[C] \in {"none", "failed"} /\ c_st[G] = "none"

\* sched_fifo.c, moment by moment: the parent sleeps 1, the child 2; each has 3
\* to burn.
FifoInv ==
    \/ c_now = 0 /\ SchedIs(P, "sleep", 1) /\ c_st[C] = "new" /\ c_queue = <<C>>
    \/ /\ SchedAlone
       /\ \/ c_now = 0 /\ SchedIs(P, "sleep", 1) /\ c_queue = <<>>
          \/ c_now \in 1 .. 3 /\ SchedIs(P, "ready", 4 - c_now) /\ c_queue = <<P>>
          \/ c_now = 4 /\ SchedDone(P, 4) /\ c_queue = <<>>
    \/ /\ c_prio[C] = Sched!High
       /\ \/ c_now = 0 /\ SchedIs(P, "sleep", 1) /\ SchedIs(C, "sleep", 2) /\ c_queue = <<>>
          \/ c_now = 1 /\ SchedIs(P, "ready", 3) /\ SchedIs(C, "sleep", 1) /\ c_queue = <<P>>
          \/ c_now \in 2 .. 4 /\ SchedIs(P, "ready", 2) /\ SchedIs(C, "ready", 5 - c_now) /\ c_queue = <<P, C>>
          \/ c_now \in 5 .. 6 /\ SchedIs(P, "ready", 7 - c_now) /\ SchedDone(C, 5) /\ c_queue = <<P>>
          \/ c_now = 7 /\ SchedDone(P, 7) /\ SchedDone(C, 5) /\ c_queue = <<>>

\* sched_rr.c with one, two and three processes: who has run in this round
\* stands behind and has one slice less to go.
RrAlone ==
    /\ c_st[C] = "none" /\ c_st[G] = "none"
    /\ \/ c_now \in 0 .. 29 /\ SchedIs(P, "ready", 30 - c_now) /\ c_queue = <<P>>
       \/ c_now = 30 /\ SchedDone(P, 30) /\ c_queue = <<>>

RrTwo ==
    /\ c_st[G] = "none"
    /\ \/ \E n \in 1 .. 30 :
             /\ c_queue = <<P, C>> /\ c_now = 60 - 2 * n
             /\ SchedIs(P, "ready", n)
             /\ c_st[C] \in {"new", "ready"} /\ SchedLeft(C) = n
       \/ \E n \in 1 .. 29 :
             /\ c_queue = <<C, P>> /\ c_now = 59 - 2 * n
             /\ SchedIs(P, "ready", n)
             /\ c_st[C] \in {"new", "ready"} /\ SchedLeft(C) = n + 1
       \/ c_queue = <<C>> /\ c_now = 59 /\ SchedDone(P, 59) /\ SchedIs(C, "ready", 1)
       \/ c_queue = <<>> /\ c_now = 60 /\ SchedDone(P, 59) /\ SchedDone(C, 60)

RrThree ==
    \/ \E n \in 1 .. 29 :
          /\ c_queue = <<P, G, C>> /\ c_now = 89 - 3 * n
          /\ SchedIs(P, "ready", n) /\ SchedIs(C, "ready", n)
          /\ c_st[G] \in {"new", "ready"} /\ SchedLeft(G) = n + 1
    \/ \E n \in 2 .. 29 :
          /\ c_queue = <<G, C, P>> /\ c_now = 90 - 3 * n
          /\ SchedIs(P, "ready", n - 1) /\ SchedIs(C, "ready", n)
          /\ c_st[G] \in {"new", "ready"} /\ SchedLeft(G) = n + 1
    \/ \E n \in 2 .. 30 :
          /\ c_queue = <<C, P, G>> /\ c_now = 91 - 3 * n
          /\ SchedIs(P, "ready", n - 1) /\ SchedIs(C, "ready", n)
          /\ c_st[G] \in {"new", "ready"} /\ SchedLeft(G) = n
    \/ c_queue = <<G, C>> /\ c_now = 87 /\ SchedDone(P, 87) /\ SchedIs(C, "ready", 1) /\ SchedIs(G, "ready", 2)
    \/ c_queue = <<C, G>> /\ c_now = 88 /\ SchedDone(P, 87) /\ SchedIs(C, "ready", 1) /\ SchedIs(G, "ready", 1)
    \/ c_queue = <<G>> /\ c_now = 89 /\ SchedDone(P, 87) /\ SchedDone(C, 89) /\ SchedIs(G, "ready", 1)
    \/ c_queue = <<>> /\ c_now = 90 /\ SchedDone(P, 87) /\ SchedDone(C, 89) /\ SchedDone(G, 90)

RrInv == RrAlone \/ RrTwo \/ RrThree

\* sched_deadline.c: one tick of work in each period of five.
DeadlineInv ==
    /\ c_st[C] = "none" /\ c_st[G] = "none"
    /\ \/ /\ c_queue = <<P>> /\ c_st[P] = "ready" /\ c_left[P] \in 1 .. 50
          /\ c_now \in 5 * (50 - c_left[P]) - 4 .. 5 * (50 - c_left[P])
       \/ c_queue = <<>> /\ SchedDone(P, 246)

\* sched_ext.c: in whatever order, a tick of work for each tick of time.
ExtInv ==
    /\ c_st[G] = "none"
    /\ \/ SchedIs(P, "ready", 2) \/ SchedIs(P, "ready", 1)
       \/ c_st[P] = "done" /\ c_left[P] = 0 /\ c_fin[P] >= 2
    /\ \/ c_st[C] \in {"none", "new", "failed"} /\ c_now = 2 - c_left[P]
       \/ /\ SchedIs(C, "ready", 2) \/ SchedIs(C, "ready", 1)
             \/ (c_st[C] = "done" /\ c_left[C] = 0 /\ c_fin[C] >= 2)
          /\ c_now = 4 - c_left[P] - c_left[C]
    /\ c_queue = IF c_st[P] = "ready"
                 THEN IF c_st[C] \in {"new", "ready"} THEN <<P, C>> ELSE <<P>>
                 ELSE IF c_st[C] \in {"new", "ready"} THEN <<C>> ELSE <<>>

\* No process before the fork.
SchedFresh ==
    /\ c_queue = <<>> /\ c_now = 0
    /\ \A q \in Sched!Task : c_st[q] = "none" /\ c_left[q] = 0 /\ c_prio[q] = Sched!Low

SchedTypeOK ==
    /\ c_prog \in {"fifo", "rr", "deadline", "ext"}
    /\ c_at \in 0 .. Sched!Running
    /\ c_st \in [Sched!Task -> {"none", "new", "sleep", "ready", "done", "failed"}]
    /\ c_left \in [Sched!Task -> Int] /\ c_fin \in [Sched!Task -> Int]
    /\ c_prio \in [Sched!Task -> {Sched!Low, Sched!High}]
    /\ c_queue \in Seq(Sched!Task) /\ c_now \in Nat

\* The shape of the program that runs.
SchedShape ==
    CASE c_prog = "fifo" -> FifoInv /\ c_prio[P] = Sched!Low /\ c_st[G] = "none"
      [] c_prog = "rr" -> RrInv /\ \A q \in Sched!Task : c_prio[q] = Sched!Low
      [] c_prog = "deadline" -> DeadlineInv
      [] c_prog = "ext" -> ExtInv

SchedInv ==
    /\ SchedTypeOK
    /\ c_at \in 1 .. Sched!Forking => SchedFresh
    /\ c_at = Sched!Running => SchedShape

\* The four programs.
LEMMA SchedPrograms ==
    /\ \A prog \in {"fifo", "rr", "ext"} : Len(Sched!Program[prog].calls) = 4 /\ Sched!Program[prog].forks
    /\ Len(Sched!Program["deadline"].calls) = 3 /\ ~Sched!Program["deadline"].forks
    /\ DOMAIN Sched!Program = {"fifo", "rr", "deadline", "ext"}
    /\ Sched!Program["fifo"].first = "sched_setattr" /\ Sched!Program["rr"].first = "fork"
    /\ Sched!Program["ext"].first = "sched_setattr"
    /\ Sched!Program["fifo"].parent = [sleep |-> 1, work |-> 3]
    /\ Sched!Program["fifo"].child = [sleep |-> 2, work |-> 3]
    /\ Sched!Program["rr"].parent = [sleep |-> 0, work |-> 30]
    /\ Sched!Program["rr"].child = [sleep |-> 0, work |-> 30]
    /\ Sched!Program["deadline"].parent = [sleep |-> 0, work |-> 50]
    /\ Sched!Program["deadline"].child = [sleep |-> 0, work |-> 50]
    /\ Sched!Program["ext"].parent = [sleep |-> 0, work |-> 2]
    /\ Sched!Program["ext"].child = [sleep |-> 0, work |-> 2]
<1>1. Len(Sched!Checked) = 4 /\ Len(Tail(Sched!Checked)) = 3
  BY DEF Sched!Checked
<1>2. DOMAIN Sched!Program = {"fifo", "rr", "deadline", "ext"}
  BY DEF Sched!Program
<1>3. /\ Sched!Program["fifo"] = Sched!SchedFifo /\ Sched!Program["rr"] = Sched!SchedRr
      /\ Sched!Program["deadline"] = Sched!SchedDeadline /\ Sched!Program["ext"] = Sched!SchedExt
  BY DEF Sched!Program
<1>4. /\ Sched!SchedFifo.calls = Sched!Checked /\ Sched!SchedFifo.forks /\ Sched!SchedFifo.first = "sched_setattr"
      /\ Sched!SchedFifo.parent = [sleep |-> 1, work |-> 3] /\ Sched!SchedFifo.child = [sleep |-> 2, work |-> 3]
  BY DEF Sched!SchedFifo
<1>5. /\ Sched!SchedRr.calls = Sched!Checked /\ Sched!SchedRr.forks /\ Sched!SchedRr.first = "fork"
      /\ Sched!SchedRr.parent = [sleep |-> 0, work |-> 30] /\ Sched!SchedRr.child = [sleep |-> 0, work |-> 30]
  BY DEF Sched!SchedRr
<1>6. /\ Sched!SchedDeadline.calls = Tail(Sched!Checked) /\ ~Sched!SchedDeadline.forks
      /\ Sched!SchedDeadline.parent = [sleep |-> 0, work |-> 50]
      /\ Sched!SchedDeadline.child = [sleep |-> 0, work |-> 50]
  BY DEF Sched!SchedDeadline
<1>7. /\ Sched!SchedExt.calls = Sched!Checked /\ Sched!SchedExt.forks /\ Sched!SchedExt.first = "sched_setattr"
      /\ Sched!SchedExt.parent = [sleep |-> 0, work |-> 2] /\ Sched!SchedExt.child = [sleep |-> 0, work |-> 2]
  BY DEF Sched!SchedExt
<1> QED BY <1>1, <1>2, <1>3, <1>4, <1>5, <1>6, <1>7

\* Who may run when few want to.
LEMMA SchedChosen ==
    ASSUME SchedTypeOK
    PROVE  /\ c_queue = <<>> => Sched!Chosen = {}
           /\ \A x \in Sched!Task : c_queue = <<x>> => Sched!Chosen = IF Sched!Throttled THEN {} ELSE {x}
<1>1. c_queue = <<>> => Sched!Chosen = {}
  BY DEF Sched!Chosen
<1>2. ASSUME NEW x \in Sched!Task, c_queue = <<x>>
      PROVE  Sched!Chosen = IF Sched!Throttled THEN {} ELSE {x}
  <2>1. Len(c_queue) = 1 /\ c_queue[1] = x /\ c_prio[x] \in Int
    BY <1>2 DEF SchedTypeOK, Sched!Low, Sched!High
  <2> HIDE DEF Sched!Throttled
  <2>2. \A k \in 1 .. 1 : k = 1
    OBVIOUS
  <2>3. Sched!Chosen = {c_queue[k] : k \in {k \in 1 .. 1 : ~Sched!Throttled}}
    BY <2>1, <2>2 DEF Sched!Chosen
  <2> QED BY <2>1, <2>3
<1> QED BY <1>1, <1>2

\* Among equals the first one, and only that one, may run.
LEMMA SchedFirstChosen ==
    ASSUME SchedTypeOK, c_prog = "rr", \A q \in Sched!Task : c_prio[q] = Sched!Low, c_queue # <<>>
    PROVE  Sched!Chosen = {c_queue[1]}
<1>1. Len(c_queue) \in Nat \ {0} /\ \A k \in 1 .. Len(c_queue) : c_queue[k] \in Sched!Task
  BY EmptySeq, LenProperties, ElementOfSeq DEF SchedTypeOK
<1>2. \A k \in 1 .. Len(c_queue) : c_prio[c_queue[k]] = 1
  BY <1>1 DEF Sched!Low
<1> QED BY <1>1, <1>2 DEF Sched!Chosen, Sched!Throttled

\* The lists left when somebody ends.
LEMMA SchedWithout ==
    /\ \A x : c_queue = <<x>> => Sched!Without(x) = <<>>
    /\ \A x, y : c_queue = <<x, y>> /\ x # y => Sched!Without(x) = <<y>> /\ Sched!Without(y) = <<x>>
    /\ \A x, y, z : c_queue = <<x, y, z>> /\ x # y /\ x # z => Sched!Without(x) = <<y, z>>
<1>1. ASSUME NEW x, c_queue = <<x>>
      PROVE  Sched!Without(x) = <<>>
  BY <1>1 DEF Sched!Without
<1>2. ASSUME NEW x, NEW y, c_queue = <<x, y>>, x # y
      PROVE  Sched!Without(x) = <<y>> /\ Sched!Without(y) = <<x>>
  <2>1. Len(c_queue) = 2 /\ c_queue[1] = x /\ c_queue[2] = y
    BY <1>2
  <2>2. (CHOOSE k \in 1 .. 2 : c_queue[k] = x) = 1 /\ (CHOOSE k \in 1 .. 2 : c_queue[k] = y) = 2
    BY <1>2, <2>1
  <2> QED BY <2>1, <2>2 DEF Sched!Without
<1>3. ASSUME NEW x, NEW y, NEW z, c_queue = <<x, y, z>>, x # y, x # z
      PROVE  Sched!Without(x) = <<y, z>>
  <2> DEFINE n == CHOOSE k \in 1 .. 3 : c_queue[k] = x
  <2>1. Len(c_queue) = 3 /\ c_queue[1] = x /\ c_queue[2] = y /\ c_queue[3] = z
    BY <1>3
  <2>2. n = 1
    BY <1>3, <2>1
  <2>3. Sched!Without(x) = [m \in 1 .. 2 |-> IF m < n THEN c_queue[m] ELSE c_queue[m + 1]]
    BY <2>1 DEF Sched!Without
  <2> HIDE DEF n
  <2>4. Sched!Without(x) = [m \in 1 .. 2 |-> c_queue[m + 1]]
    <3>1. \A m \in 1 .. 2 : ~(m < n)
      BY <2>2
    <3> QED BY <2>3, <3>1
  <2> QED BY <2>1, <2>4
<1> QED BY <1>1, <1>2, <1>3

\* Lists of up to three.
LEMMA SchedLists ==
    /\ \A x : Append(<<>>, x) = <<x>> /\ <<>> \o <<x>> = <<x>> /\ Tail(<<x>>) = <<>>
    /\ \A x, y : Append(<<x>>, y) = <<x, y>> /\ <<x>> \o <<y>> = <<x, y>> /\ Tail(<<x, y>>) = <<y>>
    /\ \A x, y, z : Append(<<x, y>>, z) = <<x, y, z>> /\ Tail(<<x, y, z>>) = <<y, z>>
    /\ <<>> \o <<>> = <<>>
    /\ \A x : <<x>> \o <<>> = <<x>>
<1>1. \A x : Append(<<>>, x) = <<x>> /\ <<>> \o <<x>> = <<x>> /\ Tail(<<x>>) = <<>>
  OBVIOUS
<1>2. ASSUME NEW x, NEW y
      PROVE  Append(<<x>>, y) = <<x, y>> /\ <<x>> \o <<y>> = <<x, y>> /\ Tail(<<x, y>>) = <<y>>
  <2>1. <<x>> \in Seq({x, y}) /\ <<y>> \in Seq({x, y}) /\ <<x, y>> \in Seq({x, y})
    OBVIOUS
  <2>2. Append(<<x>>, y) = <<x, y>>
    <3>1. Append(<<x>>, y) \in Seq({x, y}) /\ Len(Append(<<x>>, y)) = 2
      BY <2>1
    <3>2. \A i \in 1 .. 2 : Append(<<x>>, y)[i] = <<x, y>>[i]
      BY <2>1
    <3> QED BY <2>1, <3>1, <3>2, SeqEqual
  <2>3. <<x>> \o <<y>> = Append(<<x>>, y)
    BY <2>1, AppendIsConcat
  <2>4. Tail(<<x, y>>) = <<y>>
    OBVIOUS
  <2> QED BY <2>2, <2>3, <2>4
<1>3. ASSUME NEW x, NEW y, NEW z
      PROVE  Append(<<x, y>>, z) = <<x, y, z>>
  <2>1. <<x, y>> \in Seq({x, y, z}) /\ <<x, y, z>> \in Seq({x, y, z})
    OBVIOUS
  <2>2. Append(<<x, y>>, z) \in Seq({x, y, z}) /\ Len(Append(<<x, y>>, z)) = 3
    BY <2>1
  <2>3. \A i \in 1 .. 3 : Append(<<x, y>>, z)[i] = <<x, y, z>>[i]
    BY <2>1
  <2> QED BY <2>1, <2>2, <2>3, SeqEqual
<1>4. ASSUME NEW x, NEW y, NEW z
      PROVE  Tail(<<x, y, z>>) = <<y, z>>
  OBVIOUS
<1>5. <<>> \o <<>> = <<>>
  OBVIOUS
<1>6. \A x : <<x>> \o <<>> = <<x>>
  OBVIOUS
<1> QED BY <1>1, <1>2, <1>3, <1>4, <1>5, <1>6

\* The list after p has run for a tick, before anybody wakes.
SchedTurned(p) ==
    LET over == p # Sched!None /\ c_left[p] = 1
        stay == IF over THEN Sched!Without(p) ELSE c_queue
    IN  IF c_prog = "rr" /\ ~over /\ stay # <<>> THEN Append(Tail(stay), p) ELSE stay

SchedWakes(q) == c_st[q] = "sleep" /\ c_left[q] = 1
SchedWork(q) == Sched!Program[c_prog][IF q = P THEN P ELSE C].work

\* What a tick that p, or nobody, runs does to everybody.
SchedTicks(p) ==
    /\ c_now' = c_now + 1 /\ UNCHANGED <<c_prog, c_at, c_prio>>
    /\ DOMAIN c_st' = Sched!Task /\ DOMAIN c_left' = Sched!Task /\ DOMAIN c_fin' = Sched!Task
    /\ \A q \in Sched!Task :
          /\ c_st'[q] = IF q = p /\ c_left[q] = 1 THEN "done"
                        ELSE IF SchedWakes(q) THEN "ready" ELSE c_st[q]
          /\ c_left'[q] = IF SchedWakes(q) THEN SchedWork(q)
                          ELSE IF q = p \/ c_st[q] = "sleep" THEN c_left[q] - 1 ELSE c_left[q]
          /\ c_fin'[q] = IF q = p /\ c_left[q] = 1 THEN c_now + 1 ELSE c_fin[q]
    /\ (\A q \in Sched!Task : ~SchedWakes(q)) => c_queue' = SchedTurned(p) \o <<>>
    /\ \A x \in Sched!Task :
          SchedWakes(x) /\ (\A q \in Sched!Task \ {x} : ~SchedWakes(q)) => c_queue' = SchedTurned(p) \o <<x>>

LEMMA SchedTick ==
    ASSUME SchedTypeOK, NEW p \in Sched!Task \cup {Sched!None}, Sched!Tick(p),
           p # Sched!None => c_st[p] = "ready"
    PROVE  SchedTicks(p)
<1> DEFINE over == {q \in Sched!Task : q = p /\ c_left[q] = 1}
           woken == {q \in Sched!Task : SchedWakes(q)}
<1>1. Sched!None \notin Sched!Task
  BY DEF Sched!None, Sched!Task
<1>2. {q \in Sched!Task : q \in Sched!Burns(p) /\ c_st[q] = "ready"} = {q \in Sched!Task : q = p}
  BY <1>1 DEF Sched!Burns
<1>3. {q \in {q \in Sched!Task : q \in Sched!Burns(p) /\ c_st[q] = "ready"} : c_left[q] = 1} = over
  BY <1>2
<1>4. {q \in Sched!Task : c_st[q] = "sleep" /\ c_left[q] = 1} = woken
  BY DEF SchedWakes
<1>5. /\ c_st' = [q \in Sched!Task |-> IF q \in over THEN "done" ELSE IF q \in woken THEN "ready" ELSE c_st[q]]
      /\ c_left' = [q \in Sched!Task |->
                      IF q \in woken THEN SchedWork(q)
                      ELSE IF q \in {q1 \in Sched!Task : q1 = p} \/ c_st[q] = "sleep" THEN c_left[q] - 1
                      ELSE c_left[q]]
      /\ c_fin' = [q \in Sched!Task |-> IF q \in over THEN c_now + 1 ELSE c_fin[q]]
      /\ c_now' = c_now + 1 /\ UNCHANGED <<c_prog, c_at, c_prio>>
  BY <1>2, <1>3, <1>4, SMTT(30) DEF Sched!Tick, SchedWork, P, C
<1>6. LET stay == IF p \in over THEN Sched!Without(p) ELSE c_queue
          turned == IF c_prog = "rr" /\ p \notin over /\ stay # <<>> THEN Append(Tail(stay), p) ELSE stay
      IN  \E w \in {s \in [1 .. Sched!Cardinality(woken) -> woken] : {s[k] : k \in DOMAIN s} = woken} :
             c_queue' = turned \o w
  BY <1>2, <1>3, <1>4 DEF Sched!Tick
<1>7. p \in over <=> p # Sched!None /\ c_left[p] = 1
  BY <1>1
<1>8. \E w \in {s \in [1 .. Sched!Cardinality(woken) -> woken] : {s[k] : k \in DOMAIN s} = woken} :
         c_queue' = SchedTurned(p) \o w
  BY <1>6, <1>7 DEF SchedTurned
<1>9. PICK w \in [1 .. Cardinality(woken) -> woken] : c_queue' = SchedTurned(p) \o w
  <2>1. Sched!Cardinality(woken) = Cardinality(woken)
    BY DEF Sched!Cardinality, Cardinality
  <2> QED BY <1>8, <2>1
<1>10. ASSUME \A q \in Sched!Task : ~SchedWakes(q)
       PROVE  c_queue' = SchedTurned(p) \o <<>>
  <2>1. woken = {} /\ Cardinality(woken) = 0
    BY <1>10, FS_EmptySet
  <2>2. w = <<>>
    BY <2>1
  <2> QED BY <1>9, <2>2
<1>11. ASSUME NEW x \in Sched!Task, SchedWakes(x), \A q \in Sched!Task \ {x} : ~SchedWakes(q)
       PROVE  c_queue' = SchedTurned(p) \o <<x>>
  <2>1. woken = {x} /\ Cardinality(woken) = 1
    <3>1. woken = {x}
      BY <1>11
    <3> QED BY <3>1, FS_Singleton
  <2>2. w = <<x>>
    BY <2>1
  <2> QED BY <1>9, <2>2
<1>12. \A q \in Sched!Task : (q \in over <=> q = p /\ c_left[q] = 1) /\ (q \in woken <=> SchedWakes(q))
  OBVIOUS
<1> HIDE DEF over, woken
<1>13. DOMAIN c_st' = Sched!Task /\ DOMAIN c_left' = Sched!Task /\ DOMAIN c_fin' = Sched!Task
  BY <1>5
<1>14. \A q \in Sched!Task :
         /\ c_st'[q] = IF q = p /\ c_left[q] = 1 THEN "done"
                       ELSE IF SchedWakes(q) THEN "ready" ELSE c_st[q]
         /\ c_left'[q] = IF SchedWakes(q) THEN SchedWork(q)
                         ELSE IF q = p \/ c_st[q] = "sleep" THEN c_left[q] - 1 ELSE c_left[q]
         /\ c_fin'[q] = IF q = p /\ c_left[q] = 1 THEN c_now + 1 ELSE c_fin[q]
  BY <1>5, <1>12
<1> QED BY <1>5, <1>10, <1>11, <1>13, <1>14 DEF SchedTicks

\* The same for one process, whose position is known.
LEMMA SchedTickOf ==
    ASSUME SchedTypeOK, NEW p \in Sched!Task \cup {Sched!None}, SchedTicks(p), NEW q \in Sched!Task
    PROVE  /\ p = q /\ c_st[q] = "ready" /\ c_left[q] = 1 =>
                c_st'[q] = "done" /\ c_left'[q] = 0 /\ c_fin'[q] = c_now + 1
           /\ p = q /\ c_st[q] = "ready" /\ c_left[q] # 1 =>
                c_st'[q] = "ready" /\ c_left'[q] = c_left[q] - 1 /\ c_fin'[q] = c_fin[q]
           /\ p # q /\ c_st[q] # "sleep" =>
                c_st'[q] = c_st[q] /\ c_left'[q] = c_left[q] /\ c_fin'[q] = c_fin[q]
           /\ p # q /\ c_st[q] = "sleep" /\ c_left[q] = 1 => c_st'[q] = "ready" /\ c_left'[q] = SchedWork(q)
           /\ p # q /\ c_st[q] = "sleep" /\ c_left[q] # 1 => c_st'[q] = "sleep" /\ c_left'[q] = c_left[q] - 1
           /\ c_now' = c_now + 1 /\ c_prio' = c_prio
<1>1. /\ c_st'[q] = IF q = p /\ c_left[q] = 1 THEN "done"
                    ELSE IF SchedWakes(q) THEN "ready" ELSE c_st[q]
      /\ c_left'[q] = IF SchedWakes(q) THEN SchedWork(q)
                      ELSE IF q = p \/ c_st[q] = "sleep" THEN c_left[q] - 1 ELSE c_left[q]
      /\ c_fin'[q] = IF q = p /\ c_left[q] = 1 THEN c_now + 1 ELSE c_fin[q]
      /\ c_now' = c_now + 1 /\ c_prio' = c_prio
  BY DEF SchedTicks
<1>2. c_left[q] \in Int
  BY DEF SchedTypeOK
<1> HIDE DEF SchedWork
<1> QED BY <1>1, <1>2 DEF SchedWakes

\* The list after a tick.
LEMMA SchedTickList ==
    ASSUME SchedTypeOK, NEW p \in Sched!Task \cup {Sched!None}, SchedTicks(p)
    PROVE  /\ (\A q \in Sched!Task : ~SchedWakes(q)) /\ SchedTurned(p) \in Seq(Sched!Task) =>
                c_queue' = SchedTurned(p)
           /\ \A x \in Sched!Task :
                SchedWakes(x) /\ (\A q \in Sched!Task \ {x} : ~SchedWakes(q)) =>
                  c_queue' = SchedTurned(p) \o <<x>>
<1>1. SchedTurned(p) \in Seq(Sched!Task) => SchedTurned(p) \o <<>> = SchedTurned(p)
  BY ConcatEmptySeq
<1> QED BY <1>1 DEF SchedTicks

\* The three processes and nobody, and the two priorities.
LEMMA SchedNames ==
    /\ Sched!Task = {P, C, G} /\ P # C /\ P # G /\ C # G
    /\ Sched!None \notin Sched!Task /\ Sched!Low = 1 /\ Sched!High = 99
<1> QED BY DEF P, C, G, Sched!Task, Sched!None, Sched!Low, Sched!High

\* Lists of up to three processes.
LEMMA SchedSeqs ==
    /\ <<>> \in Seq(Sched!Task)
    /\ \A x \in Sched!Task : <<x>> \in Seq(Sched!Task)
    /\ \A x, y \in Sched!Task : <<x, y>> \in Seq(Sched!Task)
    /\ \A x, y, z \in Sched!Task : <<x, y, z>> \in Seq(Sched!Task)
<1> QED OBVIOUS

\* Without rotation the list changes only when somebody ends or wakes.
LEMMA SchedTickPlain ==
    ASSUME SchedTypeOK, c_prog # "rr", NEW p \in Sched!Task \cup {Sched!None}, SchedTicks(p),
           \A q \in Sched!Task : ~SchedWakes(q)
    PROVE  /\ p = Sched!None \/ c_left[p] # 1 => c_queue' = c_queue
           /\ p # Sched!None /\ c_left[p] = 1 /\ Sched!Without(p) \in Seq(Sched!Task) =>
                c_queue' = Sched!Without(p)
<1> QED BY SchedTickList DEF SchedTurned, SchedTypeOK

\* Whom the scheduler lets run, or that it finds nobody.
SchedRuns(p) ==
    IF p = Sched!None THEN Sched!Alive # {} /\ Sched!Chosen = {} ELSE p \in Sched!Chosen /\ c_st[p] = "ready"

\* The higher priority wins.
LEMMA FifoChosen ==
    ASSUME SchedTypeOK, c_prog = "fifo", c_queue = <<P, C>>, c_prio[P] < c_prio[C]
    PROVE  Sched!Chosen = {C}
<1>1. Len(c_queue) = 2 /\ c_queue[1] = P /\ c_queue[2] = C
  OBVIOUS
<1>2. c_prio[P] \in Int /\ c_prio[C] \in Int
  BY SchedNames DEF SchedTypeOK
<1>3. ~Sched!Throttled
  BY DEF Sched!Throttled
<1>4. \A k \in 1 .. 2 : k = 1 \/ k = 2
  OBVIOUS
<1>5. {k \in 1 .. Len(c_queue) :
         /\ ~Sched!Throttled
         /\ c_prog # "ext" =>
              /\ \A m \in 1 .. Len(c_queue) : c_prio[c_queue[m]] <= c_prio[c_queue[k]]
              /\ \A m \in 1 .. k - 1 : c_prio[c_queue[m]] < c_prio[c_queue[k]]} = {2}
  BY <1>1, <1>2, <1>3, <1>4
<1> QED BY <1>1, <1>5 DEF Sched!Chosen

\* A tick under SCHED_FIFO: the child runs whenever it is awake.
LEMMA FifoTick ==
    ASSUME SchedTypeOK, c_prog = "fifo", c_prio[P] = Sched!Low, FifoInv,
           NEW p \in Sched!Task \cup {Sched!None}, SchedTicks(p), SchedRuns(p), c_st[G] = "none"
    PROVE  FifoInv' /\ c_st'[G] = "none"
<1>1. ~Sched!Throttled
  BY DEF Sched!Throttled
<1>2. SchedWork(P) = 3 /\ SchedWork(C) = 3
  BY SchedPrograms DEF SchedWork, P, C
<1>3. SchedTurned(p) = IF p # Sched!None /\ c_left[p] = 1 THEN Sched!Without(p) ELSE c_queue
  BY DEF SchedTurned
<1>4. /\ c_queue = <<>> => p = Sched!None
      /\ \A x \in Sched!Task : c_queue = <<x>> => p = x /\ c_st[x] = "ready"
      /\ c_queue = <<P, C>> /\ c_prio[C] = 99 => p = C
  <2>1. c_queue = <<>> => p = Sched!None
    BY SchedChosen DEF SchedRuns
  <2>2. ASSUME NEW x \in Sched!Task, c_queue = <<x>> PROVE p = x /\ c_st[x] = "ready"
    <3>1. Sched!Chosen = {x}
      BY <1>1, <2>2, SchedChosen
    <3> QED BY <3>1 DEF SchedRuns
  <2>3. c_queue = <<P, C>> /\ c_prio[C] = 99 => p = C
    <3>1. c_queue = <<P, C>> /\ c_prio[C] = 99 => Sched!Chosen = {C}
      BY FifoChosen, SchedNames
    <3> QED BY <3>1 DEF SchedRuns
  <2> QED BY <2>1, <2>2, <2>3
<1>5. c_st'[G] = "none"
  BY <1>4, SchedNames, SchedTickOf DEF SchedRuns
<1> SUFFICES FifoInv'
  BY <1>5
<1>6. ~(c_st[C] = "new" /\ c_queue = <<C>>)
  BY <1>4, SchedNames
<1>7. CASE SchedAlone
  <2>1. SchedAlone'
    BY <1>4, <1>5, <1>7, SchedNames, SchedTickOf DEF SchedAlone, SchedRuns, SchedWakes
  <2>2. CASE c_now = 0 /\ SchedIs(P, "sleep", 1) /\ c_queue = <<>>
    <3>1. c_queue' = <<P>>
      <4>1. SchedWakes(P) /\ \A q \in Sched!Task \ {P} : ~SchedWakes(q)
        BY <1>7, <2>2, SchedNames DEF SchedWakes, SchedAlone, SchedIs
      <4>2. SchedTurned(p) = <<>>
        BY <1>3, <1>4, <2>2
      <4> QED BY <4>1, <4>2, SchedNames, SchedLists, SchedTickList
    <3>2. c_now' = 1 /\ SchedIs(P, "ready", 3)'
      BY <1>2, <1>4, <2>2, SchedNames, SchedTickOf DEF SchedIs
    <3> QED BY <2>1, <3>1, <3>2 DEF FifoInv
  <2>3. CASE c_now \in 1 .. 3 /\ SchedIs(P, "ready", 4 - c_now) /\ c_queue = <<P>>
    <3>1. p = P /\ \A q \in Sched!Task : ~SchedWakes(q)
      BY <1>4, <1>7, <2>3, SchedNames DEF SchedWakes, SchedAlone, SchedIs
    <3>2. CASE c_now = 3
      <4>1. c_queue' = <<>>
        <5>1. Sched!Without(p) = <<>> /\ Sched!Without(p) \in Seq(Sched!Task)
          BY <2>3, <3>1, SchedWithout, SchedSeqs
        <5>2. p # Sched!None /\ c_left[p] = 1
          BY <2>3, <3>1, <3>2, SchedNames DEF SchedIs
        <5> QED BY <3>1, <5>1, <5>2, SchedTickPlain
      <4>2. c_now' = 4 /\ SchedDone(P, 4)'
        BY <2>3, <3>1, <3>2, SchedNames, SchedTickOf DEF SchedIs, SchedDone
      <4> QED BY <2>1, <4>1, <4>2 DEF FifoInv
    <3>3. CASE c_now \in 1 .. 2
      <4>1. c_queue' = <<P>>
        BY <2>3, <3>1, <3>3, SchedNames, SchedTickPlain, SchedSeqs DEF SchedIs
      <4>2. c_now' \in 1 .. 3 /\ SchedIs(P, "ready", 4 - c_now)'
        BY <2>3, <3>1, <3>3, SchedNames, SchedTickOf DEF SchedIs
      <4> QED BY <2>1, <4>1, <4>2 DEF FifoInv
    <3> QED BY <2>3, <3>2, <3>3
  <2>4. CASE c_now = 4 /\ SchedDone(P, 4) /\ c_queue = <<>>
    <3>1. p = Sched!None /\ Sched!Alive = {}
      BY <1>4, <1>7, <2>4, SchedNames DEF Sched!Alive, SchedAlone, SchedDone
    <3> QED BY <3>1 DEF SchedRuns
  <2> QED BY <1>6, <1>7, <2>2, <2>3, <2>4, SchedNames DEF FifoInv, SchedAlone, SchedIs, SchedDone
<1>8. CASE ~SchedAlone
  <2>1. c_prio[C] = 99 /\ c_prio'[C] = 99
    BY <1>6, <1>8, SchedNames, SchedTickOf DEF FifoInv, SchedTicks
  <2>2. CASE c_now = 0 /\ SchedIs(P, "sleep", 1) /\ SchedIs(C, "sleep", 2) /\ c_queue = <<>>
    <3>1. p = Sched!None
      BY <1>4, <2>2
    <3>2. c_queue' = <<P>>
      <4>1. SchedWakes(P) /\ \A q \in Sched!Task \ {P} : ~SchedWakes(q)
        BY <2>2, SchedNames DEF SchedWakes, SchedIs
      <4>2. SchedTurned(p) = <<>>
        BY <1>3, <2>2, <3>1
      <4> QED BY <4>1, <4>2, SchedNames, SchedLists, SchedTickList
    <3>3. c_now' = 1 /\ SchedIs(P, "ready", 3)' /\ SchedIs(C, "sleep", 1)'
      BY <1>2, <2>2, <3>1, SchedNames, SchedTickOf DEF SchedIs
    <3> QED BY <2>1, <3>2, <3>3, SchedNames DEF FifoInv
  <2>3. CASE c_now = 1 /\ SchedIs(P, "ready", 3) /\ SchedIs(C, "sleep", 1) /\ c_queue = <<P>>
    <3>1. p = P
      BY <1>4, <2>3, SchedNames
    <3>2. c_queue' = <<P, C>>
      <4>1. SchedWakes(C) /\ \A q \in Sched!Task \ {C} : ~SchedWakes(q)
        BY <2>3, SchedNames DEF SchedWakes, SchedIs
      <4>2. SchedTurned(p) = <<P>>
        BY <1>3, <2>3, <3>1 DEF SchedIs
      <4>3. <<P>> \o <<C>> = <<P, C>>
        BY SchedLists
      <4> QED BY <4>1, <4>2, <4>3, SchedNames, SchedTickList
    <3>3. c_now' = 2 /\ SchedIs(P, "ready", 2)' /\ SchedIs(C, "ready", 3)'
      BY <1>2, <2>3, <3>1, SchedNames, SchedTickOf DEF SchedIs
    <3> QED BY <2>1, <3>2, <3>3, SchedNames DEF FifoInv
  <2>4. CASE c_now \in 2 .. 4 /\ SchedIs(P, "ready", 2) /\ SchedIs(C, "ready", 5 - c_now) /\ c_queue = <<P, C>>
    <3>1. p = C /\ \A q \in Sched!Task : ~SchedWakes(q)
      BY <1>4, <2>1, <2>4, SchedNames DEF SchedWakes, SchedIs
    <3>2. c_now' = c_now + 1 /\ SchedIs(P, "ready", 2)'
      BY <2>4, <3>1, SchedNames, SchedTickOf DEF SchedIs
    <3>3. CASE c_now = 4
      <4>1. c_queue' = <<P>>
        BY <2>4, <3>1, <3>3, SchedNames, SchedWithout, SchedTickPlain, SchedSeqs DEF SchedIs
      <4>2. SchedDone(C, 5)'
        BY <2>4, <3>1, <3>3, SchedNames, SchedTickOf DEF SchedIs, SchedDone
      <4> QED BY <2>1, <3>2, <3>3, <4>1, <4>2, SchedNames DEF FifoInv, SchedIs
    <3>4. CASE c_now \in 2 .. 3
      <4>1. c_queue' = <<P, C>>
        BY <2>4, <3>1, <3>4, SchedNames, SchedTickPlain, SchedSeqs DEF SchedIs
      <4>2. SchedIs(C, "ready", 5 - c_now)'
        BY <2>4, <3>1, <3>4, SchedNames, SchedTickOf DEF SchedIs
      <4> QED BY <2>1, <3>2, <3>4, <4>1, <4>2, SchedNames DEF FifoInv
    <3> QED BY <2>4, <3>3, <3>4
  <2>5. CASE c_now \in 5 .. 6 /\ SchedIs(P, "ready", 7 - c_now) /\ SchedDone(C, 5) /\ c_queue = <<P>>
    <3>1. p = P /\ \A q \in Sched!Task : ~SchedWakes(q)
      BY <1>4, <2>5, SchedNames DEF SchedWakes, SchedIs, SchedDone
    <3>2. c_now' = c_now + 1 /\ SchedDone(C, 5)'
      BY <2>5, <3>1, SchedNames, SchedTickOf DEF SchedDone
    <3>3. CASE c_now = 6
      <4>1. c_queue' = <<>>
        <5>1. Sched!Without(p) = <<>> /\ Sched!Without(p) \in Seq(Sched!Task)
          BY <2>5, <3>1, SchedWithout, SchedSeqs
        <5>2. p # Sched!None /\ c_left[p] = 1
          BY <2>5, <3>1, <3>3, SchedNames DEF SchedIs
        <5> QED BY <3>1, <5>1, <5>2, SchedTickPlain
      <4>2. SchedDone(P, 7)'
        BY <2>5, <3>1, <3>3, SchedNames, SchedTickOf DEF SchedIs, SchedDone
      <4> QED BY <2>1, <3>2, <3>3, <4>1, <4>2, SchedNames DEF FifoInv
    <3>4. CASE c_now = 5
      <4>1. c_queue' = <<P>>
        BY <2>5, <3>1, <3>4, SchedNames, SchedTickPlain, SchedSeqs DEF SchedIs
      <4>2. SchedIs(P, "ready", 7 - c_now)'
        BY <2>5, <3>1, <3>4, SchedNames, SchedTickOf DEF SchedIs
      <4> QED BY <2>1, <3>2, <3>4, <4>1, <4>2, SchedNames DEF FifoInv
    <3> QED BY <2>5, <3>3, <3>4
  <2>6. CASE c_now = 7 /\ SchedDone(P, 7) /\ SchedDone(C, 5) /\ c_queue = <<>>
    <3>1. p = Sched!None /\ Sched!Alive = {}
      BY <1>4, <2>6, SchedNames DEF Sched!Alive, SchedDone
    <3> QED BY <3>1 DEF SchedRuns
  <2> QED BY <1>6, <1>8, <2>2, <2>3, <2>4, <2>5, <2>6 DEF FifoInv
<1> QED BY <1>5, <1>7, <1>8

\* The reservation lasts one tick in five.
LEMMA DeadlineTick ==
    ASSUME SchedTypeOK, c_prog = "deadline", DeadlineInv,
           NEW p \in Sched!Task \cup {Sched!None}, SchedTicks(p), SchedRuns(p)
    PROVE  DeadlineInv'
<1>1. c_queue = <<P>>
  <2>1. CASE c_queue = <<>>
    <3>1. Sched!Chosen = {} /\ Sched!Alive = {}
      BY <2>1, SchedChosen, SchedNames DEF DeadlineInv, Sched!Alive, SchedDone
    <3> QED BY <3>1 DEF SchedRuns
  <2> QED BY <2>1 DEF DeadlineInv
<1>2. /\ c_st[P] = "ready" /\ c_left[P] \in 1 .. 50
      /\ c_now \in 5 * (50 - c_left[P]) - 4 .. 5 * (50 - c_left[P])
      /\ c_st[C] = "none" /\ c_st[G] = "none"
  BY <1>1 DEF DeadlineInv
<1>3. \A q \in Sched!Task : ~SchedWakes(q)
  BY <1>2, SchedNames DEF SchedWakes
<1>4. Sched!Throttled <=> c_now % 5 >= 1
  BY DEF Sched!Throttled, Sched!Period, Sched!Runtime
<1>5. CASE Sched!Throttled
  <2>1. p = Sched!None
    BY <1>1, <1>5, SchedChosen, SchedNames DEF SchedRuns
  <2>2. c_queue' = c_queue
    BY <1>3, <2>1, SchedTickPlain
  <2>3. /\ c_st'[P] = "ready" /\ c_left'[P] = c_left[P] /\ c_now' = c_now + 1
        /\ c_st'[C] = "none" /\ c_st'[G] = "none"
    BY <1>2, <2>1, SchedNames, SchedTickOf
  <2>4. c_now # 5 * (50 - c_left[P])
    BY <1>2, <1>4, <1>5
  <2> QED BY <1>1, <1>2, <2>2, <2>3, <2>4 DEF DeadlineInv
<1>6. CASE ~Sched!Throttled
  <2>1. p = P
    BY <1>1, <1>6, SchedChosen, SchedNames DEF SchedRuns
  <2>2. c_now = 5 * (50 - c_left[P])
    <3>1. \A m, n \in Int : n \in 5 * m - 4 .. 5 * m /\ ~(n % 5 >= 1) => n = 5 * m
      OBVIOUS
    <3>2. (50 - c_left[P]) \in Int /\ c_now \in Int
      BY <1>2
    <3> QED BY <1>2, <1>4, <1>6, <3>1, <3>2
  <2>3. c_st'[C] = "none" /\ c_st'[G] = "none" /\ c_now' = c_now + 1
    BY <1>2, <2>1, SchedNames, SchedTickOf
  <2>4. CASE c_left[P] = 1
    <3>1. Sched!Without(p) = <<>> /\ Sched!Without(p) \in Seq(Sched!Task)
      BY <1>1, <2>1, SchedWithout, SchedSeqs
    <3>2. c_queue' = <<>>
      BY <1>3, <2>1, <2>4, <3>1, SchedNames, SchedTickPlain
    <3>3. c_st'[P] = "done" /\ c_fin'[P] = 246
      BY <1>2, <2>1, <2>2, <2>4, SchedNames, SchedTickOf
    <3> QED BY <2>3, <3>2, <3>3 DEF DeadlineInv, SchedDone
  <2>5. CASE c_left[P] # 1
    <3>1. c_queue' = <<P>>
      BY <1>1, <1>3, <2>1, <2>5, SchedTickPlain
    <3>2. c_st'[P] = "ready" /\ c_left'[P] = c_left[P] - 1
      BY <1>2, <2>1, <2>5, SchedNames, SchedTickOf
    <3>3. \A n \in 2 .. 50 : n - 1 \in 1 .. 50 /\ 5 * (50 - n) + 1 \in 5 * (50 - (n - 1)) - 4 .. 5 * (50 - (n - 1))
      OBVIOUS
    <3>4. c_left[P] \in 2 .. 50
      BY <1>2, <2>5
    <3>5. c_left'[P] \in 1 .. 50 /\ c_now' \in 5 * (50 - c_left'[P]) - 4 .. 5 * (50 - c_left'[P])
      BY <2>2, <2>3, <3>2, <3>3, <3>4
    <3> QED BY <2>3, <3>1, <3>2, <3>5 DEF DeadlineInv
  <2> QED BY <2>4, <2>5
<1> QED BY <1>5, <1>6

\* Any of the list may run.
LEMMA ExtChosen == ASSUME c_prog = "ext" PROVE Sched!Chosen = {c_queue[k] : k \in 1 .. Len(c_queue)}
<1> QED BY DEF Sched!Chosen, Sched!Throttled

\* A tick under SCHED_EXT, of either process.
LEMMA ExtTick ==
    ASSUME SchedTypeOK, c_prog = "ext", ExtInv,
           NEW p \in Sched!Task \cup {Sched!None}, SchedTicks(p), SchedRuns(p)
    PROVE  ExtInv'
<1> DEFINE active == c_st[C] \in {"new", "ready"}
<1>1. /\ c_st[G] = "none"
      /\ \/ SchedIs(P, "ready", 2) \/ SchedIs(P, "ready", 1)
         \/ c_st[P] = "done" /\ c_left[P] = 0 /\ c_fin[P] >= 2
      /\ \/ c_st[C] \in {"none", "new", "failed"} /\ c_now = 2 - c_left[P]
         \/ /\ SchedIs(C, "ready", 2) \/ SchedIs(C, "ready", 1)
               \/ (c_st[C] = "done" /\ c_left[C] = 0 /\ c_fin[C] >= 2)
            /\ c_now = 4 - c_left[P] - c_left[C]
  BY DEF ExtInv
<1>2. c_queue = IF c_st[P] = "ready" THEN IF active THEN <<P, C>> ELSE <<P>>
                                     ELSE IF active THEN <<C>> ELSE <<>>
  BY DEF ExtInv
<1>3. \A q \in Sched!Task : ~SchedWakes(q)
  BY <1>1, SchedNames DEF SchedWakes, SchedIs
<1>4. p \in {P, C} /\ c_st[p] = "ready"
  <2>1. Sched!Chosen = (IF c_st[P] = "ready" THEN {P} ELSE {}) \cup (IF active THEN {C} ELSE {})
    <3>1. CASE c_st[P] = "ready" /\ active
      <4>1. Len(c_queue) = 2 /\ c_queue[1] = P /\ c_queue[2] = C
        BY <1>2, <3>1
      <4> QED BY <3>1, <4>1, ExtChosen
    <3>2. CASE c_st[P] = "ready" /\ ~active
      <4>1. Len(c_queue) = 1 /\ c_queue[1] = P
        BY <1>2, <3>2
      <4> QED BY <3>2, <4>1, ExtChosen
    <3>3. CASE c_st[P] # "ready" /\ active
      <4>1. Len(c_queue) = 1 /\ c_queue[1] = C
        BY <1>2, <3>3
      <4> QED BY <3>3, <4>1, ExtChosen
    <3>4. CASE c_st[P] # "ready" /\ ~active
      BY <1>2, <3>4, SchedChosen
    <3> QED BY <3>1, <3>2, <3>3, <3>4
  <2>2. Sched!Alive \subseteq Sched!Chosen
    BY <1>1, <2>1, SchedNames DEF Sched!Alive, SchedIs
  <2> QED BY <2>1, <2>2, SchedNames DEF SchedRuns
<1>5. c_left[P] \in Int /\ c_left[C] \in Int /\ c_now \in Nat
  BY SchedNames DEF SchedTypeOK
<1>6. c_st'[G] = "none" /\ c_now' = c_now + 1
  BY <1>1, <1>4, SchedNames, SchedTickOf
<1>7. p # Sched!None
  BY <1>4, SchedNames
<1>8. CASE p = P
  <2>1. c_st'[C] = c_st[C] /\ c_left'[C] = c_left[C] /\ c_fin'[C] = c_fin[C]
    BY <1>1, <1>8, SchedNames, SchedTickOf DEF SchedIs
  <2>2. CASE c_left[P] = 1
    <3>1. Sched!Without(p) = IF active THEN <<C>> ELSE <<>>
      BY <1>2, <1>4, <1>8, SchedWithout, SchedNames
    <3>2. Sched!Without(p) \in Seq(Sched!Task)
      BY <3>1, SchedSeqs, SchedNames
    <3>3. c_queue' = IF active THEN <<C>> ELSE <<>>
      BY <1>3, <1>7, <1>8, <2>2, <3>1, <3>2, SchedTickPlain
    <3>4. c_st'[P] = "done" /\ c_left'[P] = 0 /\ c_fin'[P] = c_now + 1
      BY <1>4, <1>8, <2>2, SchedNames, SchedTickOf
    <3>5. c_now >= 1
      BY <1>1, <2>2, <1>5 DEF SchedIs
    <3> QED BY <1>1, <1>5, <1>6, <2>1, <2>2, <3>3, <3>4, <3>5 DEF ExtInv, SchedIs
  <2>3. CASE c_left[P] # 1
    <3>1. c_queue' = c_queue
      BY <1>3, <1>8, <2>3, SchedTickPlain
    <3>2. SchedIs(P, "ready", 1)' /\ c_left[P] = 2
      BY <1>1, <1>4, <1>8, <2>3, SchedNames, SchedTickOf DEF SchedIs
    <3> QED BY <1>1, <1>2, <1>4, <1>5, <1>6, <1>8, <2>1, <3>1, <3>2 DEF ExtInv, SchedIs
  <2> QED BY <2>2, <2>3
<1>9. CASE p = C
  <2>1. c_st'[P] = c_st[P] /\ c_left'[P] = c_left[P] /\ c_fin'[P] = c_fin[P]
    BY <1>1, <1>9, SchedNames, SchedTickOf DEF SchedIs
  <2>2. CASE c_left[C] = 1
    <3>1. Sched!Without(p) = IF c_st[P] = "ready" THEN <<P>> ELSE <<>>
      BY <1>2, <1>4, <1>9, SchedWithout, SchedNames
    <3>2. Sched!Without(p) \in Seq(Sched!Task)
      BY <3>1, SchedSeqs, SchedNames
    <3>3. c_queue' = IF c_st[P] = "ready" THEN <<P>> ELSE <<>>
      BY <1>3, <1>7, <1>9, <2>2, <3>1, <3>2, SchedTickPlain
    <3>4. c_st'[C] = "done" /\ c_left'[C] = 0 /\ c_fin'[C] = c_now + 1
      BY <1>4, <1>9, <2>2, SchedNames, SchedTickOf
    <3>5. c_now >= 1
      BY <1>1, <1>4, <1>9, <2>2, <1>5 DEF SchedIs
    <3> QED BY <1>1, <1>4, <1>5, <1>6, <1>9, <2>1, <2>2, <3>3, <3>4, <3>5 DEF ExtInv, SchedIs
  <2>3. CASE c_left[C] # 1
    <3>1. c_queue' = c_queue
      BY <1>3, <1>9, <2>3, SchedTickPlain
    <3>2. SchedIs(C, "ready", 1)' /\ c_left[C] = 2
      BY <1>1, <1>4, <1>9, <2>3, SchedNames, SchedTickOf DEF SchedIs
    <3> QED BY <1>1, <1>2, <1>4, <1>5, <1>6, <1>9, <2>1, <3>1, <3>2 DEF ExtInv, SchedIs
  <2> QED BY <2>2, <2>3
<1> QED BY <1>4, <1>8, <1>9

\* Under SCHED_RR the first of the list runs; at the end of its slice it goes
\* behind the others, or is gone.
LEMMA RrTurn ==
    ASSUME SchedTypeOK, c_prog = "rr", \A q \in Sched!Task : c_prio[q] = Sched!Low,
           \A q \in Sched!Task : c_st[q] # "sleep", c_queue # <<>>,
           NEW p \in Sched!Task \cup {Sched!None}, SchedTicks(p), SchedRuns(p)
    PROVE  /\ p = c_queue[1] /\ p \in Sched!Task /\ c_st[p] = "ready"
           /\ \A x \in Sched!Task : c_queue = <<x>> =>
                c_queue' = IF c_left[x] = 1 THEN <<>> ELSE <<x>>
           /\ \A x, y \in Sched!Task : c_queue = <<x, y>> /\ x # y =>
                c_queue' = IF c_left[x] = 1 THEN <<y>> ELSE <<y, x>>
           /\ \A x, y, z \in Sched!Task : c_queue = <<x, y, z>> /\ x # y /\ x # z =>
                c_queue' = IF c_left[x] = 1 THEN <<y, z>> ELSE <<y, z, x>>
<1>1. Sched!Chosen = {c_queue[1]}
  BY SchedFirstChosen
<1>2. p = c_queue[1] /\ p \in Sched!Task /\ c_st[p] = "ready"
  BY <1>1 DEF SchedRuns
<1>3. \A q \in Sched!Task : ~SchedWakes(q)
  BY DEF SchedWakes
<1>4. p # Sched!None
  BY <1>2, SchedNames
<1>5. SchedTurned(p) \in Seq(Sched!Task) => c_queue' = SchedTurned(p)
  BY <1>3, SchedTickList
<1>6. ASSUME c_left[p] = 1
      PROVE  SchedTurned(p) = Sched!Without(p)
  BY <1>4, <1>6 DEF SchedTurned
<1>7. ASSUME c_left[p] # 1
      PROVE  SchedTurned(p) = Append(Tail(c_queue), p)
  BY <1>7 DEF SchedTurned
<1>8. ASSUME NEW x \in Sched!Task, c_queue = <<x>>
      PROVE  c_queue' = IF c_left[x] = 1 THEN <<>> ELSE <<x>>
  <2>1. p = x
    BY <1>2, <1>8
  <2>2. CASE c_left[x] = 1
    <3>1. SchedTurned(p) = <<>>
      BY <1>6, <1>8, <2>1, <2>2, SchedWithout
    <3> QED BY <1>5, <2>2, <3>1, SchedSeqs
  <2>3. CASE c_left[x] # 1
    <3>1. Tail(<<x>>) = <<>> /\ Append(<<>>, x) = <<x>>
      BY SchedLists
    <3>2. SchedTurned(p) = <<x>>
      BY <1>7, <1>8, <2>1, <2>3, <3>1
    <3> QED BY <1>5, <2>3, <3>2, SchedSeqs
  <2> QED BY <2>2, <2>3
<1>9. ASSUME NEW x \in Sched!Task, NEW y \in Sched!Task, c_queue = <<x, y>>, x # y
      PROVE  c_queue' = IF c_left[x] = 1 THEN <<y>> ELSE <<y, x>>
  <2>1. p = x
    BY <1>2, <1>9
  <2>2. CASE c_left[x] = 1
    <3>1. SchedTurned(p) = <<y>>
      BY <1>6, <1>9, <2>1, <2>2, SchedWithout
    <3> QED BY <1>5, <2>2, <3>1, SchedSeqs
  <2>3. CASE c_left[x] # 1
    <3>1. Tail(<<x, y>>) = <<y>> /\ Append(<<y>>, x) = <<y, x>>
      BY SchedLists
    <3>2. SchedTurned(p) = <<y, x>>
      BY <1>7, <1>9, <2>1, <2>3, <3>1
    <3> QED BY <1>5, <2>3, <3>2, SchedSeqs
  <2> QED BY <2>2, <2>3
<1>10. ASSUME NEW x \in Sched!Task, NEW y \in Sched!Task, NEW z \in Sched!Task,
              c_queue = <<x, y, z>>, x # y, x # z
       PROVE  c_queue' = IF c_left[x] = 1 THEN <<y, z>> ELSE <<y, z, x>>
  <2>1. p = x
    BY <1>2, <1>10
  <2>2. CASE c_left[x] = 1
    <3>1. SchedTurned(p) = <<y, z>>
      BY <1>6, <1>10, <2>1, <2>2, SchedWithout
    <3> QED BY <1>5, <2>2, <3>1, SchedSeqs
  <2>3. CASE c_left[x] # 1
    <3>1. Tail(<<x, y, z>>) = <<y, z>> /\ Append(<<y, z>>, x) = <<y, z, x>>
      BY SchedLists
    <3>2. SchedTurned(p) = <<y, z, x>>
      BY <1>7, <1>10, <2>1, <2>3, <3>1
    <3> QED BY <1>5, <2>3, <3>2, SchedSeqs
  <2> QED BY <2>2, <2>3
<1> QED BY <1>2, <1>8, <1>9, <1>10

\* Nobody sleeps in sched_rr.c.
LEMMA RrAwake == ASSUME RrInv PROVE \A q \in Sched!Task : c_st[q] # "sleep"
<1>1. RrAlone => \A q \in Sched!Task : c_st[q] # "sleep"
  BY SchedNames DEF RrAlone, SchedIs, SchedDone
<1>2. RrTwo => \A q \in Sched!Task : c_st[q] # "sleep"
  BY SchedNames DEF RrTwo, SchedIs, SchedDone
<1>3. RrThree => \A q \in Sched!Task : c_st[q] # "sleep"
  BY SchedNames DEF RrThree, SchedIs, SchedDone
<1> QED BY <1>1, <1>2, <1>3 DEF RrInv

\* Somebody is left to run.
LEMMA RrRuns ==
    ASSUME SchedTypeOK, c_prog = "rr", RrInv,
           NEW p \in Sched!Task \cup {Sched!None}, SchedTicks(p), SchedRuns(p)
    PROVE  c_queue # <<>>
<1> SUFFICES ASSUME c_queue = <<>> PROVE FALSE
  OBVIOUS
<1>1. Sched!Chosen = {}
  BY SchedChosen
<1>2. \A q \in Sched!Task : c_st[q] \in {"none", "done"}
  BY SchedNames DEF RrInv, RrAlone, RrTwo, RrThree, SchedDone
<1>3. Sched!Alive = {}
  BY <1>2 DEF Sched!Alive
<1> QED BY <1>1, <1>3 DEF SchedRuns

\* A slice with parent and child.
LEMMA RrTwoTick ==
    ASSUME SchedTypeOK, c_prog = "rr", \A q \in Sched!Task : c_prio[q] = Sched!Low, RrTwo,
           NEW p \in Sched!Task \cup {Sched!None}, SchedTicks(p), SchedRuns(p)
    PROVE  RrTwo'
<1>1. /\ \A q \in Sched!Task : c_st[q] # "sleep"
      /\ c_queue # <<>> /\ c_st[G] = "none" /\ c_left[P] \in Int /\ c_left[C] \in Int
  BY RrAwake, RrRuns, SchedNames DEF RrTwo, RrInv, SchedTypeOK
<1>2. c_now' = c_now + 1 /\ c_st'[G] = "none"
  BY <1>1, RrTurn, SchedNames, SchedTickOf
<1>3. ASSUME NEW n \in 1 .. 30, c_queue = <<P, C>>, c_now = 60 - 2 * n, SchedIs(P, "ready", n),
             c_st[C] \in {"new", "ready"}, SchedLeft(C) = n
      PROVE  RrTwo'
  <2>1. p = P
    BY <1>1, <1>3, RrTurn
  <2>2. c_st'[C] = c_st[C] /\ c_left'[C] = c_left[C]
    BY <1>3, <2>1, SchedNames, SchedTickOf
  <2>3. CASE n = 1
    <3>1. c_queue' = <<C>>
      BY <1>1, <1>3, <2>3, RrTurn, SchedNames DEF SchedIs
    <3>2. c_st'[P] = "done" /\ c_fin'[P] = 59
      BY <1>3, <2>1, <2>3, SchedNames, SchedTickOf DEF SchedIs
    <3> QED BY <1>2, <1>3, <2>2, <2>3, <3>1, <3>2 DEF RrTwo, SchedDone, SchedIs, SchedLeft
  <2>4. CASE n # 1
    <3>1. c_queue' = <<C, P>>
      BY <1>1, <1>3, <2>4, RrTurn, SchedNames DEF SchedIs
    <3>2. c_st'[P] = "ready" /\ c_left'[P] = n - 1
      BY <1>3, <2>1, <2>4, SchedNames, SchedTickOf DEF SchedIs
    <3>3. n - 1 \in 1 .. 29 /\ c_now' = 59 - 2 * (n - 1) /\ SchedLeft(C)' = (n - 1) + 1
      BY <1>2, <1>3, <2>2, <2>4 DEF SchedLeft
    <3> QED BY <1>2, <1>3, <2>2, <3>1, <3>2, <3>3 DEF RrTwo, SchedIs
  <2> QED BY <2>3, <2>4
<1>4. ASSUME NEW n \in 1 .. 29, c_queue = <<C, P>>, c_now = 59 - 2 * n, SchedIs(P, "ready", n),
             c_st[C] \in {"new", "ready"}, SchedLeft(C) = n + 1
      PROVE  RrTwo'
  <2>1. p = C /\ SchedIs(C, "ready", n + 1) /\ c_left[C] # 1
    BY <1>1, <1>4, RrTurn DEF SchedLeft, SchedIs
  <2>2. c_st'[P] = "ready" /\ c_left'[P] = n
    BY <1>4, <2>1, SchedNames, SchedTickOf DEF SchedIs
  <2>3. c_queue' = <<P, C>>
    BY <1>1, <1>4, <2>1, RrTurn, SchedNames
  <2>4. c_st'[C] = "ready" /\ c_left'[C] = n
    BY <1>4, <2>1, SchedNames, SchedTickOf DEF SchedIs
  <2>5. n \in 1 .. 30 /\ c_now' = 60 - 2 * n
    BY <1>2, <1>4
  <2> QED BY <1>2, <2>2, <2>3, <2>4, <2>5 DEF RrTwo, SchedIs, SchedLeft
<1>5. ASSUME c_queue = <<C>>, c_now = 59, SchedDone(P, 59), SchedIs(C, "ready", 1)
      PROVE  RrTwo'
  <2>1. p = C
    BY <1>1, <1>5, RrTurn
  <2>2. c_queue' = <<>>
    BY <1>1, <1>5, RrTurn, SchedNames DEF SchedIs
  <2>3. c_st'[P] = "done" /\ c_fin'[P] = 59
    BY <1>5, <2>1, SchedNames, SchedTickOf DEF SchedDone
  <2>4. c_st'[C] = "done" /\ c_fin'[C] = 60
    BY <1>5, <2>1, SchedNames, SchedTickOf DEF SchedIs
  <2> QED BY <1>2, <1>5, <2>2, <2>3, <2>4 DEF RrTwo, SchedDone
<1> QED BY <1>1, <1>3, <1>4, <1>5 DEF RrTwo

\* A slice when the fork failed.
LEMMA RrAloneTick ==
    ASSUME SchedTypeOK, c_prog = "rr", \A q \in Sched!Task : c_prio[q] = Sched!Low, RrAlone,
           NEW p \in Sched!Task \cup {Sched!None}, SchedTicks(p), SchedRuns(p)
    PROVE  RrAlone'
<1>1. /\ \A q \in Sched!Task : c_st[q] # "sleep"
      /\ c_queue # <<>> /\ c_st[C] = "none" /\ c_st[G] = "none" /\ c_left[P] \in Int
  BY RrAwake, RrRuns, SchedNames DEF RrAlone, RrInv, SchedTypeOK
<1>2. c_now \in 0 .. 29 /\ SchedIs(P, "ready", 30 - c_now) /\ c_queue = <<P>>
  BY <1>1 DEF RrAlone
<1>3. p = P /\ c_queue' = IF c_left[P] = 1 THEN <<>> ELSE <<P>>
  BY <1>1, <1>2, RrTurn, SchedNames
<1>4. c_now' = c_now + 1 /\ c_st'[C] = "none" /\ c_st'[G] = "none"
  BY <1>1, <1>3, SchedNames, SchedTickOf
<1>5. CASE c_now = 29
  <2>1. c_st'[P] = "done" /\ c_fin'[P] = 30
    BY <1>2, <1>3, <1>5, SchedNames, SchedTickOf DEF SchedIs
  <2> QED BY <1>2, <1>3, <1>4, <1>5, <2>1 DEF RrAlone, SchedDone, SchedIs
<1>6. CASE c_now # 29
  <2>1. c_st[P] = "ready" /\ c_left[P] = 30 - c_now /\ c_left[P] # 1 /\ c_now \in Int
    BY <1>2, <1>6 DEF SchedIs
  <2>2. P \in Sched!Task /\ p = P
    BY <1>3, SchedNames
  <2>3. c_st'[P] = "ready" /\ c_left'[P] = c_left[P] - 1
    BY <2>1, <2>2, SchedTickOf
  <2>4. c_st'[P] = "ready" /\ c_left'[P] = 29 - c_now
    BY <2>1, <2>3
  <2> QED BY <1>2, <1>3, <1>4, <1>6, <2>4 DEF RrAlone, SchedIs
<1> QED BY <1>5, <1>6

\* A slice with all three.
LEMMA RrThreeTick ==
    ASSUME SchedTypeOK, c_prog = "rr", \A q \in Sched!Task : c_prio[q] = Sched!Low, RrThree,
           NEW p \in Sched!Task \cup {Sched!None}, SchedTicks(p), SchedRuns(p)
    PROVE  RrThree'
<1>1. /\ \A q \in Sched!Task : c_st[q] # "sleep"
      /\ c_queue # <<>> /\ c_left[P] \in Int /\ c_left[C] \in Int /\ c_left[G] \in Int
  BY RrAwake, RrRuns, SchedNames DEF RrInv, SchedTypeOK
<1>2. c_now' = c_now + 1
  BY DEF SchedTicks
<1>3. ASSUME NEW n \in 1 .. 29, c_queue = <<P, G, C>>, c_now = 89 - 3 * n, SchedIs(P, "ready", n),
             SchedIs(C, "ready", n), c_st[G] \in {"new", "ready"}, SchedLeft(G) = n + 1
      PROVE  RrThree'
  <2>1. p = P
    BY <1>1, <1>3, RrTurn
  <2>2. c_st'[C] = "ready" /\ c_left'[C] = n
    BY <1>3, <2>1, SchedNames, SchedTickOf DEF SchedIs
  <2>3. c_st'[G] = c_st[G] /\ c_left'[G] = c_left[G]
    BY <1>3, <2>1, SchedNames, SchedTickOf
  <2>4. CASE n = 1
    <3>1. c_queue' = <<G, C>>
      BY <1>1, <1>3, <2>4, RrTurn, SchedNames DEF SchedIs
    <3>2. c_st'[P] = "done" /\ c_fin'[P] = 87
      BY <1>3, <2>1, <2>4, SchedNames, SchedTickOf DEF SchedIs
    <3>3. c_st[G] = "ready" /\ c_left[G] = 2
      BY <1>3, <2>4 DEF SchedLeft
    <3> QED BY <1>2, <1>3, <2>2, <2>3, <2>4, <3>1, <3>2, <3>3 DEF RrThree, SchedDone, SchedIs
  <2>5. CASE n # 1
    <3>1. c_queue' = <<G, C, P>>
      BY <1>1, <1>3, <2>5, RrTurn, SchedNames DEF SchedIs
    <3>2. c_st'[P] = "ready" /\ c_left'[P] = n - 1
      BY <1>3, <2>1, <2>5, SchedNames, SchedTickOf DEF SchedIs
    <3>3. n \in 2 .. 29 /\ c_now' = 90 - 3 * n /\ SchedLeft(G)' = n + 1
      BY <1>2, <1>3, <2>3, <2>5 DEF SchedLeft
    <3> QED BY <1>3, <2>2, <2>3, <3>1, <3>2, <3>3 DEF RrThree, SchedIs
  <2> QED BY <2>4, <2>5
<1>4. ASSUME NEW n \in 2 .. 29, c_queue = <<G, C, P>>, c_now = 90 - 3 * n, SchedIs(P, "ready", n - 1),
             SchedIs(C, "ready", n), c_st[G] \in {"new", "ready"}, SchedLeft(G) = n + 1
      PROVE  RrThree'
  <2>1. p = G /\ SchedIs(G, "ready", n + 1) /\ c_left[G] # 1
    BY <1>1, <1>4, RrTurn DEF SchedLeft, SchedIs
  <2>2. c_st'[P] = "ready" /\ c_left'[P] = n - 1 /\ c_st'[C] = "ready" /\ c_left'[C] = n
    BY <1>4, <2>1, SchedNames, SchedTickOf DEF SchedIs
  <2>3. c_queue' = <<C, P, G>>
    BY <1>1, <1>4, <2>1, RrTurn, SchedNames
  <2>4. c_st'[G] = "ready" /\ c_left'[G] = n
    BY <1>4, <2>1, SchedNames, SchedTickOf DEF SchedIs
  <2>5. n \in 2 .. 30 /\ c_now' = 91 - 3 * n
    BY <1>2, <1>4
  <2> QED BY <2>2, <2>3, <2>4, <2>5 DEF RrThree, SchedIs, SchedLeft
<1>5. ASSUME NEW n \in 2 .. 30, c_queue = <<C, P, G>>, c_now = 91 - 3 * n, SchedIs(P, "ready", n - 1),
             SchedIs(C, "ready", n), c_st[G] \in {"new", "ready"}, SchedLeft(G) = n
      PROVE  RrThree'
  <2>1. p = C /\ c_left[C] # 1
    BY <1>1, <1>5, RrTurn DEF SchedIs
  <2>2. c_st'[P] = "ready" /\ c_left'[P] = n - 1
    BY <1>5, <2>1, SchedNames, SchedTickOf DEF SchedIs
  <2>3. c_st'[G] = c_st[G] /\ c_left'[G] = c_left[G]
    BY <1>5, <2>1, SchedNames, SchedTickOf
  <2>4. c_queue' = <<P, G, C>>
    BY <1>1, <1>5, <2>1, RrTurn, SchedNames
  <2>5. c_st'[C] = "ready" /\ c_left'[C] = n - 1
    BY <1>5, <2>1, SchedNames, SchedTickOf DEF SchedIs
  <2>6. n - 1 \in 1 .. 29 /\ c_now' = 89 - 3 * (n - 1) /\ SchedLeft(G)' = (n - 1) + 1
    BY <1>2, <1>5, <2>3 DEF SchedLeft
  <2> QED BY <1>5, <2>2, <2>3, <2>4, <2>5, <2>6 DEF RrThree, SchedIs
<1>6. ASSUME c_queue = <<G, C>>, c_now = 87, SchedDone(P, 87), SchedIs(C, "ready", 1), SchedIs(G, "ready", 2)
      PROVE  RrThree'
  <2>1. p = G /\ c_left[G] # 1
    BY <1>1, <1>6, RrTurn DEF SchedIs
  <2>2. c_queue' = <<C, G>>
    BY <1>1, <1>6, <2>1, RrTurn, SchedNames
  <2>3. c_st'[P] = "done" /\ c_fin'[P] = 87 /\ c_st'[C] = "ready" /\ c_left'[C] = 1
    BY <1>6, <2>1, SchedNames, SchedTickOf DEF SchedIs, SchedDone
  <2>4. c_st'[G] = "ready" /\ c_left'[G] = 1
    BY <1>6, <2>1, SchedNames, SchedTickOf DEF SchedIs
  <2> QED BY <1>2, <1>6, <2>2, <2>3, <2>4 DEF RrThree, SchedIs, SchedDone
<1>7. ASSUME c_queue = <<C, G>>, c_now = 88, SchedDone(P, 87), SchedIs(C, "ready", 1), SchedIs(G, "ready", 1)
      PROVE  RrThree'
  <2>1. p = C
    BY <1>1, <1>7, RrTurn
  <2>2. c_queue' = <<G>>
    BY <1>1, <1>7, RrTurn, SchedNames DEF SchedIs
  <2>3. c_st'[P] = "done" /\ c_fin'[P] = 87 /\ c_st'[G] = "ready" /\ c_left'[G] = 1
    BY <1>7, <2>1, SchedNames, SchedTickOf DEF SchedIs, SchedDone
  <2>4. c_st'[C] = "done" /\ c_fin'[C] = 89
    BY <1>7, <2>1, SchedNames, SchedTickOf DEF SchedIs
  <2> QED BY <1>2, <1>7, <2>2, <2>3, <2>4 DEF RrThree, SchedIs, SchedDone
<1>8. ASSUME c_queue = <<G>>, c_now = 89, SchedDone(P, 87), SchedDone(C, 89), SchedIs(G, "ready", 1)
      PROVE  RrThree'
  <2>1. p = G
    BY <1>1, <1>8, RrTurn
  <2>2. c_queue' = <<>>
    BY <1>1, <1>8, RrTurn, SchedNames DEF SchedIs
  <2>3. c_st'[P] = "done" /\ c_fin'[P] = 87 /\ c_st'[C] = "done" /\ c_fin'[C] = 89
    BY <1>8, <2>1, SchedNames, SchedTickOf DEF SchedIs, SchedDone
  <2>4. c_st'[G] = "done" /\ c_fin'[G] = 90
    BY <1>8, <2>1, SchedNames, SchedTickOf DEF SchedIs
  <2> QED BY <1>2, <1>8, <2>2, <2>3, <2>4 DEF RrThree, SchedDone
<1> QED BY <1>1, <1>3, <1>4, <1>5, <1>6, <1>7, <1>8 DEF RrThree

\* The calls of a main(): the fork and the delays come after them.
LEMMA SchedRunning ==
    ASSUME c_prog \in {"fifo", "rr", "deadline", "ext"}
    PROVE  /\ Sched!Calls \in Nat \ {0} /\ Sched!Forking = Sched!Calls + 1 /\ Sched!Running = Sched!Calls + 2
           /\ c_prog' = c_prog =>
                Sched!Running' = Sched!Running /\ Sched!Forking' = Sched!Forking /\ Sched!Calls' = Sched!Calls
<1>1. Sched!Calls \in {3, 4}
  BY SchedPrograms DEF Sched!Calls
<1>2. Sched!Forking = Sched!Calls + 1 /\ Sched!Running = Sched!Calls + 2
  BY DEF Sched!Forking, Sched!Running
<1>3. c_prog' = c_prog => Sched!Calls' = Sched!Calls
  BY DEF Sched!Calls
<1>4. Sched!Forking' = Sched!Calls' + 1 /\ Sched!Running' = Sched!Calls' + 2
  BY DEF Sched!Forking, Sched!Running
<1> QED BY <1>1, <1>2, <1>3, <1>4

\* A loaded program is one of the four, and its processes have nothing behind
\* them yet.
LEMMA SchedBegins ==
    ASSUME SchedTypeOK, Sched!Begin
    PROVE  SchedInv'
<1>1. /\ c_prog' \in {"fifo", "rr", "deadline", "ext"} /\ c_at' = 1
      /\ c_st' = [q \in Sched!Task |-> "none"] /\ c_left' = [q \in Sched!Task |-> 0]
      /\ c_fin' = [q \in Sched!Task |-> 0] /\ c_prio' = [q \in Sched!Task |-> Sched!Low]
      /\ c_queue' = <<>> /\ c_now' = 0
  BY SchedPrograms DEF Sched!Begin
<1>2. Sched!Running' \in {5, 6}
  <2>1. Len(Sched!Program[c_prog'].calls) \in {3, 4}
    BY <1>1, SchedPrograms
  <2>2. Sched!Calls' = Len(Sched!Program[c_prog'].calls)
    BY DEF Sched!Calls
  <2>3. Sched!Running' = Sched!Calls' + 2
    BY DEF Sched!Running
  <2>4. Sched!Calls' \in {3, 4}
    BY <2>1, <2>2
  <2>5. Sched!Calls' = 3 \/ Sched!Calls' = 4
    BY <2>4
  <2>6. Sched!Running' = 5 \/ Sched!Running' = 6
    BY <2>3, <2>5
  <2> QED BY <2>6
<1>3. SchedTypeOK'
  <2>1. 1 \in 0 .. 5 /\ 1 \in 0 .. 6
    OBVIOUS
  <2>2. c_at' \in 0 .. Sched!Running'
    BY <1>1, <1>2, <2>1
  <2>3. /\ c_st' \in [Sched!Task -> {"none", "new", "sleep", "ready", "done", "failed"}]
        /\ c_left' \in [Sched!Task -> Int] /\ c_fin' \in [Sched!Task -> Int]
        /\ c_prio' \in [Sched!Task -> {Sched!Low, Sched!High}]
    BY <1>1
  <2>4. c_queue' \in Seq(Sched!Task) /\ c_now' \in Nat
    BY <1>1, SchedSeqs
  <2> QED BY <1>1, <2>2, <2>3, <2>4 DEF SchedTypeOK
<1>4. SchedFresh'
  BY <1>1 DEF SchedFresh
<1>5. c_at' # Sched!Running'
  BY <1>1, <1>2
<1> QED BY <1>3, <1>4, <1>5 DEF SchedInv

\* The checked calls leave the processes alone.
LEMMA SchedCalls ==
    ASSUME SchedInv, Sched!Call
    PROVE  SchedInv'
<1>1. /\ c_at \in 1 .. Sched!Calls /\ c_at' \in {0, c_at + 1} /\ c_prog' = c_prog
      /\ UNCHANGED <<c_st, c_left, c_prio, c_queue, c_now, c_fin>>
  BY DEF Sched!Call, Sched!procVars
<1>2. SchedTypeOK
  BY DEF SchedInv
<1>3. /\ Sched!Calls \in Nat \ {0} /\ Sched!Forking = Sched!Calls + 1 /\ Sched!Running = Sched!Calls + 2
      /\ Sched!Running' = Sched!Running /\ Sched!Forking' = Sched!Forking
  BY <1>1, <1>2, SchedRunning DEF SchedTypeOK
<1>4. SchedTypeOK'
  BY <1>1, <1>2, <1>3 DEF SchedTypeOK
<1>5. SchedFresh'
  <2>1. SchedFresh
    BY <1>1, <1>3 DEF SchedInv
  <2> QED BY <1>1, <2>1 DEF SchedFresh
<1>6. c_at' # Sched!Running'
  BY <1>1, <1>3
<1> QED BY <1>4, <1>5, <1>6 DEF SchedInv

\* What the fork leaves: the parent asleep or wanting the CPU, the child new or
\* not there.
LEMMA SchedForked ==
    ASSUME SchedTypeOK, SchedFresh, Sched!Fork
    PROVE  LET t == Sched!Program[c_prog].parent
               s == IF t.sleep > 0 THEN "sleep" ELSE "ready"
           IN  /\ c_at = Sched!Forking /\ c_at' = Sched!Running
               /\ c_st'[P] = s /\ c_left'[P] = IF t.sleep > 0 THEN t.sleep ELSE t.work
               /\ c_st'[G] = "none" /\ UNCHANGED <<c_prog, c_prio, c_now, c_fin>>
               /\ \/ c_st'[C] = "none" /\ c_queue' = (IF t.sleep > 0 THEN <<>> ELSE <<P>>) \o <<>>
                  \/ /\ Sched!Program[c_prog].forks
                     /\ c_st'[C] = "new" /\ c_queue' = (IF t.sleep > 0 THEN <<>> ELSE <<P>>) \o <<C>>
               /\ c_st' \in [Sched!Task -> {"none", "new", "sleep", "ready", "done", "failed"}]
               /\ t.sleep \in Int /\ t.work \in Int => c_left' \in [Sched!Task -> Int]
<1> DEFINE t == Sched!Program[c_prog].parent
           asleep == t.sleep > 0
<1>1. PICK forked \in {FALSE, Sched!Program[c_prog].forks} :
        /\ c_st' = [c_st EXCEPT !["parent"] = IF asleep THEN "sleep" ELSE "ready",
                                !["child"] = IF forked THEN "new" ELSE "none"]
        /\ c_left' = [c_left EXCEPT !["parent"] = IF asleep THEN t.sleep ELSE t.work]
        /\ c_queue' = (IF asleep THEN <<>> ELSE <<"parent">>) \o (IF forked THEN <<"child">> ELSE <<>>)
  BY DEF Sched!Fork
<1>2. c_at = Sched!Forking /\ c_at' = Sched!Running /\ UNCHANGED <<c_prog, c_prio, c_now, c_fin>>
  BY DEF Sched!Fork
<1>3. forked => Sched!Program[c_prog].forks
  BY <1>1
<1>4. /\ DOMAIN c_st = Sched!Task /\ DOMAIN c_left = Sched!Task /\ c_st[G] = "none"
      /\ c_st \in [Sched!Task -> {"none", "new", "sleep", "ready", "done", "failed"}]
      /\ c_left \in [Sched!Task -> Int]
  BY SchedNames DEF SchedTypeOK, SchedFresh
<1> HIDE DEF t
<1>5. /\ c_st'[P] = (IF asleep THEN "sleep" ELSE "ready") /\ c_st'[C] = (IF forked THEN "new" ELSE "none")
      /\ c_st'[G] = "none"
      /\ c_st' \in [Sched!Task -> {"none", "new", "sleep", "ready", "done", "failed"}]
  BY <1>1, <1>4, SchedNames DEF P, C, G
<1>6. /\ c_left'[P] = IF asleep THEN t.sleep ELSE t.work
      /\ t.sleep \in Int /\ t.work \in Int => c_left' \in [Sched!Task -> Int]
  BY <1>1, <1>4, SchedNames DEF P
<1>7. c_queue' = (IF asleep THEN <<>> ELSE <<P>>) \o (IF forked THEN <<C>> ELSE <<>>)
  BY <1>1 DEF P, C
<1> QED BY <1>2, <1>3, <1>5, <1>6, <1>7 DEF t

\* The fork, succeeding or not, begins the shape of each program.
LEMMA SchedForks ==
    ASSUME SchedInv, Sched!Fork
    PROVE  SchedInv'
<1>1. SchedTypeOK /\ c_at = Sched!Forking /\ c_prog \in {"fifo", "rr", "deadline", "ext"}
  BY DEF SchedInv, SchedTypeOK, Sched!Fork
<1>2. /\ Sched!Forking # Sched!Running /\ Sched!Forking \in Nat \ {0} /\ Sched!Running \in Nat
      /\ c_prog' = c_prog => Sched!Running' = Sched!Running /\ Sched!Forking' = Sched!Forking
  BY <1>1, SchedRunning
<1>3. SchedFresh
  BY <1>1, <1>2 DEF SchedInv
<1>4. /\ c_at' = Sched!Running /\ c_st'[G] = "none" /\ UNCHANGED <<c_prog, c_prio, c_now, c_fin>>
      /\ c_st' \in [Sched!Task -> {"none", "new", "sleep", "ready", "done", "failed"}]
  BY <1>1, <1>3, SchedForked
<1>5. c_now' = 0 /\ \A q \in Sched!Task : c_prio'[q] = Sched!Low
  BY <1>3, <1>4 DEF SchedFresh
<1>6. SUFFICES /\ c_left' \in [Sched!Task -> Int] /\ c_queue' \in Seq(Sched!Task)
               /\ CASE c_prog = "fifo" -> FifoInv'
                    [] c_prog = "rr" -> RrInv'
                    [] c_prog = "deadline" -> DeadlineInv'
                    [] c_prog = "ext" -> ExtInv'
  <2>1. c_left' \in [Sched!Task -> Int] /\ c_queue' \in Seq(Sched!Task) => SchedTypeOK'
    BY <1>1, <1>2, <1>4 DEF SchedTypeOK
  <2>2. c_at' = Sched!Running' /\ c_at' \notin 1 .. Sched!Forking'
    BY <1>1, <1>2, <1>4, SchedRunning
  <2> QED BY <1>1, <1>4, <1>5, <2>1, <2>2, SchedNames DEF SchedInv, SchedShape
<1> DEFINE t == Sched!Program[c_prog].parent
<1>7. CASE c_prog = "fifo"
  <2>1. t.sleep = 1 /\ t.work = 3
    BY <1>7, SchedPrograms
  <2>2. /\ c_st'[P] = "sleep" /\ c_left'[P] = 1 /\ c_left' \in [Sched!Task -> Int]
        /\ \/ c_st'[C] = "none" /\ c_queue' = <<>> \o <<>>
           \/ c_st'[C] = "new" /\ c_queue' = <<>> \o <<C>>
    BY <1>1, <1>3, <2>1, SchedForked
  <2>3. \/ c_st'[C] = "none" /\ c_queue' = <<>>
        \/ c_st'[C] = "new" /\ c_queue' = <<C>>
    BY <2>2, SchedLists
  <2>4. c_queue' \in Seq(Sched!Task)
    BY <2>3, SchedSeqs, SchedNames
  <2>5. FifoInv'
    BY <1>4, <1>5, <2>2, <2>3 DEF FifoInv, SchedIs, SchedAlone
  <2> QED BY <1>7, <2>2, <2>4, <2>5
<1>8. CASE c_prog = "rr"
  <2>1. t.sleep = 0 /\ t.work = 30
    BY <1>8, SchedPrograms
  <2>2. /\ c_st'[P] = "ready" /\ c_left'[P] = 30 /\ c_left' \in [Sched!Task -> Int]
        /\ \/ c_st'[C] = "none" /\ c_queue' = <<P>> \o <<>>
           \/ c_st'[C] = "new" /\ c_queue' = <<P>> \o <<C>>
    BY <1>1, <1>3, <2>1, SchedForked
  <2>3. \/ c_st'[C] = "none" /\ c_queue' = <<P>>
        \/ c_st'[C] = "new" /\ c_queue' = <<P, C>>
    BY <2>2, SchedLists
  <2>4. c_queue' \in Seq(Sched!Task)
    BY <2>3, SchedSeqs, SchedNames
  <2>5. CASE c_st'[C] = "none" /\ c_queue' = <<P>>
    <3>1. RrAlone'
      BY <1>4, <1>5, <2>2, <2>5 DEF RrAlone, SchedIs
    <3> QED BY <1>8, <2>2, <2>4, <3>1 DEF RrInv
  <2>6. CASE c_st'[C] = "new" /\ c_queue' = <<P, C>>
    <3>1. 30 \in 1 .. 30 /\ c_now' = 60 - 2 * 30 /\ SchedLeft(C)' = 30
      BY <1>5, <2>6 DEF SchedLeft
    <3>2. RrTwo'
      BY <1>4, <2>2, <2>6, <3>1 DEF RrTwo, SchedIs
    <3> QED BY <1>8, <2>2, <2>4, <3>2 DEF RrInv
  <2> QED BY <2>3, <2>5, <2>6
<1>9. CASE c_prog = "deadline"
  <2>1. t.sleep = 0 /\ t.work = 50 /\ ~Sched!Program[c_prog].forks
    BY <1>9, SchedPrograms
  <2>2. /\ c_st'[P] = "ready" /\ c_left'[P] = 50 /\ c_left' \in [Sched!Task -> Int]
        /\ c_st'[C] = "none" /\ c_queue' = <<P>> \o <<>>
    BY <1>1, <1>3, <2>1, SchedForked
  <2>3. c_queue' = <<P>> /\ c_queue' \in Seq(Sched!Task)
    BY <2>2, SchedLists, SchedSeqs, SchedNames
  <2>4. DeadlineInv'
    BY <1>4, <1>5, <2>2, <2>3 DEF DeadlineInv
  <2> QED BY <1>9, <2>2, <2>3, <2>4
<1>10. CASE c_prog = "ext"
  <2>1. t.sleep = 0 /\ t.work = 2
    BY <1>10, SchedPrograms
  <2>2. /\ c_st'[P] = "ready" /\ c_left'[P] = 2 /\ c_left' \in [Sched!Task -> Int]
        /\ \/ c_st'[C] = "none" /\ c_queue' = <<P>> \o <<>>
           \/ c_st'[C] = "new" /\ c_queue' = <<P>> \o <<C>>
    BY <1>1, <1>3, <2>1, SchedForked
  <2>3. \/ c_st'[C] = "none" /\ c_queue' = <<P>>
        \/ c_st'[C] = "new" /\ c_queue' = <<P, C>>
    BY <2>2, SchedLists
  <2>4. c_queue' \in Seq(Sched!Task)
    BY <2>3, SchedSeqs, SchedNames
  <2>5. ExtInv'
    BY <1>4, <1>5, <2>2, <2>3 DEF ExtInv, SchedIs
  <2> QED BY <1>10, <2>2, <2>4, <2>5
<1> QED BY <1>1, <1>7, <1>8, <1>9, <1>10

\* A first turn: the process has all its delay before it, or has failed, or is
\* asleep; or has forked.
LEMMA SchedFirst ==
    ASSUME SchedTypeOK, NEW p \in Sched!Task, Sched!FirstTurn(p)
    PROVE  LET t == Sched!Program[c_prog].child
               first == IF p = C THEN Sched!Program[c_prog].first ELSE "none"
           IN  /\ c_at = Sched!Running /\ c_st[p] = "new" /\ p \in Sched!Chosen
               /\ UNCHANGED <<c_prog, c_at, c_now, c_fin>>
               /\ \A q \in Sched!Task \ {p} : c_left'[q] = c_left[q] /\ c_prio'[q] = c_prio[q]
               /\ \A q \in Sched!Task \ {p, G} : c_st'[q] = c_st[q]
               /\ \/ /\ first = "sched_setattr" /\ c_st'[p] = "failed" /\ c_queue' = Sched!Without(p)
                     /\ p # G => c_st'[G] = c_st[G]
                     /\ c_left' = c_left /\ c_prio' = c_prio
                  \/ /\ c_st'[p] = (IF t.sleep > 0 THEN "sleep" ELSE "ready")
                     /\ c_left'[p] = (IF t.sleep > 0 THEN t.sleep ELSE t.work)
                     /\ c_prio'[p] = (IF first = "sched_setattr" THEN Sched!ChildPriority ELSE c_prio[p])
                     /\ \/ /\ p # G => c_st'[G] = c_st[G]
                           /\ c_queue' = (IF t.sleep > 0 THEN Sched!Without(p) ELSE c_queue)
                        \/ /\ first = "fork" /\ p # G /\ c_st'[G] = "new" /\ c_queue' = Append(c_queue, G)
               /\ c_st' \in [Sched!Task -> {"none", "new", "sleep", "ready", "done", "failed"}]
               /\ t.sleep \in Int /\ t.work \in Int => c_left' \in [Sched!Task -> Int]
               /\ c_prio' \in [Sched!Task -> {Sched!Low, Sched!High}]
<1> DEFINE t == Sched!Program[c_prog].child
           first == IF p = C THEN Sched!Program[c_prog].first ELSE "none"
           asleep == t.sleep > 0
           enter == [c_st EXCEPT ![p] = IF asleep THEN "sleep" ELSE "ready"]
           own == /\ c_left' = [c_left EXCEPT ![p] = IF asleep THEN t.sleep ELSE t.work]
                  /\ c_prio' = [c_prio EXCEPT ![p] = IF first = "sched_setattr" THEN Sched!ChildPriority ELSE @]
<1>1. /\ c_at = Sched!Running /\ c_st[p] = "new" /\ p \in Sched!Chosen
      /\ UNCHANGED <<c_prog, c_at, c_now, c_fin>>
  BY DEF Sched!FirstTurn
<1>2. \/ /\ first = "sched_setattr" /\ c_st' = [c_st EXCEPT ![p] = "failed"] /\ c_queue' = Sched!Without(p)
         /\ c_left' = c_left /\ c_prio' = c_prio
      \/ own /\ c_st' = enter /\ c_queue' = (IF asleep THEN Sched!Without(p) ELSE c_queue)
      \/ own /\ first = "fork" /\ c_st' = [enter EXCEPT ![G] = "new"] /\ c_queue' = Append(c_queue, G)
  <2>1. (IF asleep THEN [c_st EXCEPT ![p] = "sleep"] ELSE [c_st EXCEPT ![p] = "ready"]) = enter
    OBVIOUS
  <2> QED BY <2>1 DEF Sched!FirstTurn, C, G
<1>3. /\ c_st \in [Sched!Task -> {"none", "new", "sleep", "ready", "done", "failed"}]
      /\ c_left \in [Sched!Task -> Int] /\ c_prio \in [Sched!Task -> {Sched!Low, Sched!High}]
      /\ Sched!ChildPriority \in {Sched!Low, Sched!High} /\ G \in Sched!Task
  BY SchedNames DEF SchedTypeOK, Sched!ChildPriority
<1>4. first = "fork" => p # G
  BY SchedNames
<1> HIDE DEF t, first
<1>5. own =>
        /\ c_left'[p] = IF asleep THEN t.sleep ELSE t.work
        /\ c_prio'[p] = IF first = "sched_setattr" THEN Sched!ChildPriority ELSE c_prio[p]
        /\ \A q \in Sched!Task \ {p} : c_left'[q] = c_left[q] /\ c_prio'[q] = c_prio[q]
        /\ t.sleep \in Int /\ t.work \in Int => c_left' \in [Sched!Task -> Int]
        /\ c_prio' \in [Sched!Task -> {Sched!Low, Sched!High}]
  BY <1>3
<1>6. CASE /\ first = "sched_setattr" /\ c_st' = [c_st EXCEPT ![p] = "failed"] /\ c_queue' = Sched!Without(p)
           /\ c_left' = c_left /\ c_prio' = c_prio
  <2>1. /\ c_st'[p] = "failed" /\ \A q \in Sched!Task \ {p} : c_st'[q] = c_st[q]
        /\ c_st' \in [Sched!Task -> {"none", "new", "sleep", "ready", "done", "failed"}]
    BY <1>3, <1>6
  <2> QED BY <1>1, <1>3, <1>6, <2>1 DEF t, first
<1>7. CASE own /\ c_st' = enter /\ c_queue' = (IF asleep THEN Sched!Without(p) ELSE c_queue)
  <2>1. /\ c_st'[p] = (IF asleep THEN "sleep" ELSE "ready")
        /\ \A q \in Sched!Task \ {p} : c_st'[q] = c_st[q]
        /\ c_st' \in [Sched!Task -> {"none", "new", "sleep", "ready", "done", "failed"}]
    BY <1>3, <1>7
  <2>2. p # G => c_st'[G] = c_st[G]
    BY <1>3, <2>1
  <2> HIDE DEF own, enter
  <2> QED BY <1>1, <1>5, <1>7, <2>1, <2>2 DEF t, first
<1>8. CASE own /\ first = "fork" /\ c_st' = [enter EXCEPT ![G] = "new"] /\ c_queue' = Append(c_queue, G)
  <2>1. /\ c_st'[p] = (IF asleep THEN "sleep" ELSE "ready") /\ c_st'[G] = "new"
        /\ \A q \in Sched!Task \ {p, G} : c_st'[q] = c_st[q]
        /\ c_st' \in [Sched!Task -> {"none", "new", "sleep", "ready", "done", "failed"}]
    BY <1>3, <1>4, <1>8
  <2> HIDE DEF own, enter
  <2> QED BY <1>1, <1>4, <1>5, <1>8, <2>1 DEF t, first
<1> QED BY <1>2, <1>6, <1>7, <1>8

\* The child of sched_fifo.c raises itself and sleeps, or ends.
LEMMA FifoFirst ==
    ASSUME SchedTypeOK, c_prog = "fifo", FifoInv, c_prio[P] = Sched!Low, c_st[G] = "none",
           NEW p \in Sched!Task, Sched!FirstTurn(p)
    PROVE  FifoInv' /\ c_prio'[P] = Sched!Low /\ c_st'[G] = "none"
<1>1. c_st[p] = "new"
  BY SchedFirst
<1>2. p = C /\ c_now = 0 /\ SchedIs(P, "sleep", 1) /\ c_queue = <<C>>
  BY <1>1, SchedNames DEF FifoInv, SchedIs, SchedDone, SchedAlone
<1>3. /\ Sched!Program[c_prog].child = [sleep |-> 2, work |-> 3]
      /\ Sched!Program[c_prog].first = "sched_setattr" /\ Sched!ChildPriority = Sched!High
  BY SchedPrograms DEF Sched!ChildPriority
<1>4. Sched!Without(p) = <<>>
  BY <1>2, SchedWithout
<1>5. /\ c_now' = 0 /\ c_st'[P] = "sleep" /\ c_left'[P] = 1 /\ c_prio'[P] = Sched!Low /\ c_st'[G] = "none"
      /\ \/ c_st'[C] = "failed" /\ c_queue' = <<>>
         \/ c_st'[C] = "sleep" /\ c_left'[C] = 2 /\ c_prio'[C] = Sched!High /\ c_queue' = <<>>
  <2>1. c_now' = c_now /\ c_left'[P] = c_left[P] /\ c_prio'[P] = c_prio[P] /\ c_st'[P] = c_st[P]
    BY <1>2, SchedFirst, SchedNames
  <2>2. /\ c_st'[G] = c_st[G]
        /\ \/ c_st'[C] = "failed" /\ c_queue' = <<>>
           \/ c_st'[C] = "sleep" /\ c_left'[C] = 2 /\ c_prio'[C] = Sched!High /\ c_queue' = <<>>
    <3>1. Sched!Program[c_prog].child.sleep = 2 /\ Sched!Program[c_prog].first # "fork"
      BY <1>3
    <3> QED BY <1>2, <1>3, <1>4, <3>1, SchedFirst, SchedNames
  <2> QED BY <1>2, <2>1, <2>2 DEF SchedIs
<1> QED BY <1>5 DEF FifoInv, SchedIs, SchedAlone

\* The child of sched_ext.c begins its delay, or ends.
LEMMA ExtFirst ==
    ASSUME SchedTypeOK, c_prog = "ext", ExtInv, NEW p \in Sched!Task, Sched!FirstTurn(p)
    PROVE  ExtInv'
<1>1. c_st[p] = "new"
  BY SchedFirst
<1>2. /\ p = C /\ c_now = 2 - c_left[P] /\ c_st[G] = "none"
      /\ \/ SchedIs(P, "ready", 2) \/ SchedIs(P, "ready", 1)
         \/ c_st[P] = "done" /\ c_left[P] = 0 /\ c_fin[P] >= 2
      /\ c_queue = IF c_st[P] = "ready" THEN <<P, C>> ELSE <<C>>
  BY <1>1, SchedNames DEF ExtInv, SchedIs
<1>3. /\ Sched!Program[c_prog].child.sleep = 0 /\ Sched!Program[c_prog].child.work = 2
      /\ Sched!Program[c_prog].first = "sched_setattr"
  BY SchedPrograms
<1>4. Sched!Without(p) = IF c_st[P] = "ready" THEN <<P>> ELSE <<>>
  BY <1>2, SchedWithout, SchedNames
<1>5. c_now' = c_now /\ c_left'[P] = c_left[P] /\ c_fin'[P] = c_fin[P] /\ c_st'[P] = c_st[P]
  BY <1>2, SchedFirst, SchedNames
<1>6. /\ c_st'[G] = c_st[G]
      /\ \/ c_st'[C] = "failed" /\ c_queue' = IF c_st[P] = "ready" THEN <<P>> ELSE <<>>
         \/ c_st'[C] = "ready" /\ c_left'[C] = 2 /\ c_queue' = c_queue
  BY <1>2, <1>3, <1>4, SchedFirst, SchedNames
<1>7. c_left[P] \in Int
  BY SchedNames DEF SchedTypeOK
<1> QED BY <1>2, <1>5, <1>6, <1>7 DEF ExtInv, SchedIs

\* Nobody is new in sched_deadline.c, which does not fork.
LEMMA DeadlineFirst ==
    ASSUME SchedTypeOK, c_prog = "deadline", DeadlineInv, NEW p \in Sched!Task, Sched!FirstTurn(p)
    PROVE  FALSE
<1>1. c_st[p] = "new"
  BY SchedFirst
<1> QED BY <1>1, SchedNames DEF DeadlineInv, SchedDone

\* The second fork of sched_rr.c comes with the child's first slice.
LEMMA RrFirst ==
    ASSUME SchedTypeOK, c_prog = "rr", RrInv, \A q \in Sched!Task : c_prio[q] = Sched!Low,
           NEW p \in Sched!Task, Sched!FirstTurn(p)
    PROVE  RrInv' /\ \A q \in Sched!Task : c_prio'[q] = Sched!Low
<1>1. /\ c_st[p] = "new" /\ p \in Sched!Chosen /\ c_now' = c_now /\ c_fin' = c_fin
      /\ \A q \in Sched!Task \ {p} : c_left'[q] = c_left[q] /\ c_prio'[q] = c_prio[q]
      /\ \A q \in Sched!Task \ {p, G} : c_st'[q] = c_st[q]
  BY SchedFirst
<1>2. /\ Sched!Program[c_prog].child.sleep = 0 /\ Sched!Program[c_prog].child.work = 30
      /\ Sched!Program[c_prog].first = "fork"
  BY SchedPrograms
<1>3. /\ c_st'[p] = "ready" /\ c_left'[p] = 30 /\ c_prio'[p] = c_prio[p]
      /\ \/ (p # G => c_st'[G] = c_st[G]) /\ c_queue' = c_queue
         \/ p = C /\ c_st'[G] = "new" /\ c_queue' = Append(c_queue, G)
  BY <1>2, SchedFirst
<1>4. \A q \in Sched!Task : c_prio'[q] = Sched!Low
  BY <1>1, <1>3
<1>5. c_queue # <<>> /\ p = c_queue[1]
  <2>1. c_queue # <<>>
    BY <1>1, SchedChosen
  <2> QED BY <1>1, <2>1, SchedFirstChosen
<1>6. CASE (p # G => c_st'[G] = c_st[G]) /\ c_queue' = c_queue
  <2>1. /\ \A q \in Sched!Task : SchedLeft(q)' = SchedLeft(q)
        /\ \A q \in Sched!Task : c_st[q] \in {"new", "ready"} => c_st'[q] \in {"new", "ready"}
        /\ \A q \in Sched!Task : c_st[q] # "new" => c_st'[q] = c_st[q] /\ c_left'[q] = c_left[q]
    BY <1>1, <1>3, <1>6, SchedNames DEF SchedLeft
  <2>2. RrAlone => RrAlone'
    BY <1>1, <1>6, <2>1, SchedNames DEF RrAlone, SchedIs, SchedDone
  <2>3. RrTwo => RrTwo'
    BY <1>1, <1>6, <2>1, SchedNames DEF RrTwo, SchedIs, SchedDone
  <2>4. RrThree => RrThree'
    <3> SUFFICES ASSUME RrThree PROVE RrThree'
      OBVIOUS
    <3>1. c_st[P] # "new" /\ c_st[C] # "new"
      BY DEF RrThree, SchedIs, SchedDone
    <3>2. p = G
      BY <1>1, <3>1, SchedNames
    <3>3. PICK n \in 2 .. 29 :
             /\ c_queue = <<G, C, P>> /\ c_now = 90 - 3 * n
             /\ SchedIs(P, "ready", n - 1) /\ SchedIs(C, "ready", n)
             /\ c_st[G] \in {"new", "ready"} /\ SchedLeft(G) = n + 1
      <4>1. c_queue[1] = G /\ c_st[G] = "new"
        BY <1>1, <1>5, <3>2
      <4>2. c_queue # <<G, C>> /\ c_queue # <<G>>
        BY <4>1 DEF RrThree, SchedIs
      <4>3. c_queue # <<>> /\ (\A x, y : c_queue # <<P, x, y>> /\ c_queue # <<C, x, y>>) /\ c_queue # <<C, G>>
        BY <1>5, <4>1, SchedNames
      <4> QED BY <4>2, <4>3 DEF RrThree
    <3>4. SchedIs(P, "ready", n - 1)' /\ SchedIs(C, "ready", n)'
      BY <2>1, <3>3, SchedNames DEF SchedIs
    <3>5. c_st'[G] \in {"new", "ready"} /\ SchedLeft(G)' = n + 1
      BY <2>1, <3>3, SchedNames
    <3> QED BY <1>1, <1>6, <3>3, <3>4, <3>5 DEF RrThree
  <2> QED BY <1>4, <2>2, <2>3, <2>4 DEF RrInv
<1>7. CASE p = C /\ c_st'[G] = "new" /\ c_queue' = Append(c_queue, G)
  <2>1. c_queue = <<C, P>> /\ c_now = 1 /\ SchedIs(P, "ready", 29)
    <3>1. ~RrAlone
      BY <1>1, <1>7, SchedNames DEF RrAlone
    <3>2. ~RrThree
      BY <1>1, <1>7, SchedNames DEF RrThree, SchedIs, SchedDone
    <3>3. RrTwo /\ c_queue[1] = C /\ c_st[C] = "new" /\ SchedLeft(C) = 30
      BY <1>1, <1>5, <1>7, <3>1, <3>2 DEF RrInv, SchedLeft
    <3>4. PICK n \in 1 .. 29 : c_queue = <<C, P>> /\ c_now = 59 - 2 * n /\ SchedIs(P, "ready", n)
                               /\ SchedLeft(C) = n + 1
      BY <3>3, SchedNames DEF RrTwo, SchedIs, SchedDone
    <3>5. n = 29
      BY <3>3, <3>4
    <3> QED BY <3>4, <3>5
  <2>2. c_queue' = <<C, P, G>>
    BY <1>7, <2>1, SchedLists
  <2>3. c_st'[P] = "ready" /\ c_left'[P] = 29 /\ c_st'[C] = "ready" /\ c_left'[C] = 30 /\ SchedLeft(G)' = 30
    BY <1>1, <1>3, <1>7, <2>1, SchedNames DEF SchedIs, SchedLeft
  <2>4. 30 \in 2 .. 30 /\ c_now' = 91 - 3 * 30 /\ 30 - 1 = 29
    BY <1>1, <2>1
  <2>5. RrThree'
    BY <1>7, <2>2, <2>3, <2>4 DEF RrThree, SchedIs
  <2> QED BY <1>4, <2>5 DEF RrInv
<1> QED BY <1>3, <1>6, <1>7

\* The lists of the shapes are lists of processes.
LEMMA SchedQueues ==
    /\ FifoInv' => c_queue' \in Seq(Sched!Task)
    /\ RrInv' => c_queue' \in Seq(Sched!Task)
    /\ DeadlineInv' => c_queue' \in Seq(Sched!Task)
    /\ ExtInv' => c_queue' \in Seq(Sched!Task)
<1>1. /\ c_queue' = <<>> => c_queue' \in Seq(Sched!Task)
      /\ \A x \in Sched!Task : c_queue' = <<x>> => c_queue' \in Seq(Sched!Task)
      /\ \A x, y \in Sched!Task : c_queue' = <<x, y>> => c_queue' \in Seq(Sched!Task)
      /\ \A x, y, z \in Sched!Task : c_queue' = <<x, y, z>> => c_queue' \in Seq(Sched!Task)
  BY SchedSeqs
<1>2. P \in Sched!Task /\ C \in Sched!Task /\ G \in Sched!Task
  BY SchedNames
<1>3. FifoInv' => c_queue' \in Seq(Sched!Task)
  BY <1>1, <1>2 DEF FifoInv
<1>4. RrInv' => c_queue' \in Seq(Sched!Task)
  <2>1. RrAlone' => c_queue' \in Seq(Sched!Task)
    BY <1>1, <1>2 DEF RrAlone
  <2>2. RrTwo' => c_queue' \in Seq(Sched!Task)
    BY <1>1, <1>2 DEF RrTwo
  <2>3. RrThree' => c_queue' \in Seq(Sched!Task)
    BY <1>1, <1>2 DEF RrThree
  <2> QED BY <2>1, <2>2, <2>3 DEF RrInv
<1>5. DeadlineInv' => c_queue' \in Seq(Sched!Task)
  BY <1>1, <1>2 DEF DeadlineInv
<1>6. ExtInv' => c_queue' \in Seq(Sched!Task)
  BY <1>1, <1>2 DEF ExtInv
<1> QED BY <1>3, <1>4, <1>5, <1>6

\* A step of the running program that keeps its shape keeps the invariant.
LEMMA SchedKept ==
    ASSUME SchedTypeOK, c_at = Sched!Running, UNCHANGED <<c_prog, c_at>>, SchedShape',
           c_st' \in [Sched!Task -> {"none", "new", "sleep", "ready", "done", "failed"}],
           c_left' \in [Sched!Task -> Int], c_fin' \in [Sched!Task -> Int],
           c_prio' \in [Sched!Task -> {Sched!Low, Sched!High}], c_now' \in Nat
    PROVE  SchedInv'
<1>1. c_prog \in {"fifo", "rr", "deadline", "ext"}
  BY DEF SchedTypeOK
<1>2. /\ Sched!Calls \in Nat \ {0} /\ Sched!Forking = Sched!Calls + 1 /\ Sched!Running = Sched!Calls + 2
      /\ Sched!Running' = Sched!Running /\ Sched!Forking' = Sched!Forking
  BY <1>1, SchedRunning
<1>3. c_at' \in 0 .. Sched!Running' /\ c_at' \notin 1 .. Sched!Forking'
  BY <1>2
<1>4. c_queue' \in Seq(Sched!Task)
  BY <1>1, SchedQueues DEF SchedShape
<1>5. SchedTypeOK'
  BY <1>1, <1>3, <1>4 DEF SchedTypeOK
<1> QED BY <1>3, <1>5 DEF SchedInv

\* First turns, whichever program runs.
LEMMA SchedFirsts ==
    ASSUME SchedInv, NEW p \in Sched!Task, Sched!FirstTurn(p)
    PROVE  SchedInv'
<1>1. SchedTypeOK /\ c_prog \in {"fifo", "rr", "deadline", "ext"}
  BY DEF SchedInv, SchedTypeOK
<1>2. /\ c_at = Sched!Running /\ UNCHANGED <<c_prog, c_at, c_now, c_fin>>
      /\ c_st' \in [Sched!Task -> {"none", "new", "sleep", "ready", "done", "failed"}]
      /\ c_prio' \in [Sched!Task -> {Sched!Low, Sched!High}]
  BY <1>1, SchedFirst
<1>3. c_left' \in [Sched!Task -> Int]
  <2>1. Sched!Program[c_prog].child.sleep \in Int /\ Sched!Program[c_prog].child.work \in Int
    BY <1>1, SchedPrograms
  <2> QED BY <1>1, <2>1, SchedFirst
<1>4. SchedShape
  BY <1>2 DEF SchedInv
<1>5. SchedShape'
  BY <1>1, <1>2, <1>4, FifoFirst, RrFirst, DeadlineFirst, ExtFirst DEF SchedShape
<1>6. c_fin' \in [Sched!Task -> Int] /\ c_now' \in Nat
  BY <1>1, <1>2 DEF SchedTypeOK
<1> QED BY <1>1, <1>2, <1>3, <1>5, <1>6, SchedKept

\* Ticks, whichever program runs.
LEMMA SchedTicked ==
    ASSUME SchedInv, NEW p \in Sched!Task \cup {Sched!None}, Sched!Tick(p), SchedRuns(p)
    PROVE  SchedInv'
<1>1. SchedTypeOK /\ c_prog \in {"fifo", "rr", "deadline", "ext"}
  BY DEF SchedInv, SchedTypeOK
<1>2. c_at = Sched!Running
  BY DEF Sched!Tick
<1>3. SchedShape
  BY <1>2 DEF SchedInv
<1>4. SchedTicks(p)
  BY <1>1, SchedTick DEF SchedRuns
<1>5. UNCHANGED <<c_prog, c_at, c_prio>> /\ c_now' = c_now + 1
  BY <1>4 DEF SchedTicks
<1>6. SchedShape'
  <2>1. c_prog = "fifo" => FifoInv' /\ c_prio'[P] = Sched!Low /\ c_st'[G] = "none"
    BY <1>1, <1>3, <1>4, <1>5, FifoTick DEF SchedShape
  <2>2. c_prog = "rr" => RrInv' /\ \A q \in Sched!Task : c_prio'[q] = Sched!Low
    BY <1>1, <1>3, <1>4, <1>5, RrAloneTick, RrTwoTick, RrThreeTick DEF SchedShape, RrInv
  <2>3. c_prog = "deadline" => DeadlineInv'
    BY <1>1, <1>3, <1>4, DeadlineTick DEF SchedShape
  <2>4. c_prog = "ext" => ExtInv'
    BY <1>1, <1>3, <1>4, ExtTick DEF SchedShape
  <2> QED BY <1>1, <1>5, <2>1, <2>2, <2>3, <2>4 DEF SchedShape
<1>7. /\ c_st \in [Sched!Task -> {"none", "new", "sleep", "ready", "done", "failed"}]
      /\ c_left \in [Sched!Task -> Int] /\ c_fin \in [Sched!Task -> Int] /\ c_now \in Nat
      /\ c_prio \in [Sched!Task -> {Sched!Low, Sched!High}]
  BY <1>1 DEF SchedTypeOK
<1>8. SchedWork(P) \in Int /\ SchedWork(C) \in Int /\ \A q \in Sched!Task : SchedWork(q) \in Int
  <2>1. /\ Sched!Program[c_prog].parent.work \in Int /\ Sched!Program[c_prog].child.work \in Int
    BY <1>1, SchedPrograms
  <2> QED BY <2>1 DEF SchedWork, P, C
<1>9. /\ \A q \in Sched!Task :
           c_st'[q] \in {"none", "new", "sleep", "ready", "done", "failed"}
      /\ \A q \in Sched!Task : c_left'[q] \in Int
      /\ \A q \in Sched!Task : c_fin'[q] \in Int
  <2> HIDE DEF SchedWork
  <2> QED BY <1>4, <1>7, <1>8 DEF SchedTicks
<1>10. /\ c_st' = [q \in Sched!Task |-> c_st'[q]] /\ c_left' = [q \in Sched!Task |-> c_left'[q]]
       /\ c_fin' = [q \in Sched!Task |-> c_fin'[q]]
  BY DEF Sched!Tick
<1>11. /\ c_st' \in [Sched!Task -> {"none", "new", "sleep", "ready", "done", "failed"}]
       /\ c_left' \in [Sched!Task -> Int] /\ c_fin' \in [Sched!Task -> Int]
  BY <1>9, <1>10
<1>12. c_now' \in Nat
  BY <1>5, <1>7
<1>13. c_prio' \in [Sched!Task -> {Sched!Low, Sched!High}]
  BY <1>5, <1>7
<1> QED BY <1>1, <1>2, <1>5, <1>6, <1>11, <1>12, <1>13, SchedKept

\* Every step of the programs and of the scheduler.
LEMMA SchedStep ==
    ASSUME SchedInv, Sched!Next \/ UNCHANGED schedVars
    PROVE  SchedInv'
<1>1. SchedTypeOK
  BY DEF SchedInv
<1>2. CASE Sched!Begin
  BY <1>1, <1>2, SchedBegins
<1>3. CASE Sched!Call
  BY <1>3, SchedCalls
<1>4. CASE Sched!Fork
  BY <1>4, SchedForks
<1>5. CASE \E p \in Sched!Task : Sched!FirstTurn(p)
  BY <1>5, SchedFirsts
<1>6. CASE Sched!RunTick
  <2>1. PICK p \in Sched!Chosen : c_st[p] = "ready" /\ Sched!Tick(p)
    BY <1>6 DEF Sched!RunTick
  <2>2. p \in Sched!Task
    <3>1. \A k \in 1 .. Len(c_queue) : c_queue[k] \in Sched!Task
      BY <1>1, ElementOfSeq DEF SchedTypeOK
    <3> QED BY <3>1 DEF Sched!Chosen
  <2>3. SchedRuns(p)
    BY <2>1, <2>2, SchedNames DEF SchedRuns
  <2> QED BY <2>1, <2>2, <2>3, SchedTicked
<1>7. CASE Sched!IdleTick
  <2>1. Sched!Tick(Sched!None) /\ SchedRuns(Sched!None)
    BY <1>7 DEF Sched!IdleTick, SchedRuns
  <2> QED BY <2>1, SchedTicked
<1>8. CASE UNCHANGED schedVars
  <2>1. UNCHANGED <<c_prog, c_at, c_st, c_left, c_prio, c_queue, c_now, c_fin>>
    BY <1>8 DEF schedVars
  <2>2. Sched!Running' = Sched!Running /\ Sched!Forking' = Sched!Forking
    BY <1>1, <2>1, SchedRunning DEF SchedTypeOK
  <2>3. SchedTypeOK'
    BY <1>1, <2>1, <2>2 DEF SchedTypeOK
  <2>4. SchedFresh <=> SchedFresh'
    BY <2>1 DEF SchedFresh
  <2>5. SchedShape => SchedShape'
    <3>1. (FifoInv => FifoInv') /\ (DeadlineInv => DeadlineInv') /\ (ExtInv => ExtInv')
      BY <2>1 DEF FifoInv, DeadlineInv, ExtInv, SchedIs, SchedDone, SchedAlone
    <3>2. RrInv => RrInv'
      <4>1. /\ \A q \in Sched!Task : \A s, n : SchedIs(q, s, n) => SchedIs(q, s, n)'
            /\ \A q \in Sched!Task : \A n : SchedDone(q, n) => SchedDone(q, n)'
            /\ \A q \in Sched!Task : SchedLeft(q)' = SchedLeft(q)
        BY <2>1 DEF SchedIs, SchedDone, SchedLeft
      <4>2. RrAlone => RrAlone'
        BY <2>1 DEF RrAlone, SchedIs, SchedDone
      <4>3. RrTwo => RrTwo'
        BY <2>1, <4>1, SchedNames DEF RrTwo
      <4>4. RrThree => RrThree'
        BY <2>1, <4>1, SchedNames DEF RrThree
      <4> QED BY <4>2, <4>3, <4>4 DEF RrInv
    <3>3. c_prog \in {"fifo", "rr", "deadline", "ext"}
      BY <1>1 DEF SchedTypeOK
    <3> QED BY <2>1, <3>1, <3>2, <3>3 DEF SchedShape
  <2> QED BY <2>1, <2>2, <2>3, <2>4, <2>5 DEF SchedInv
<1> QED BY <1>2, <1>3, <1>4, <1>5, <1>6, <1>7, <1>8 DEF Sched!Next

\* How many have ended.
LEMMA SchedEnded ==
    ASSUME SchedTypeOK
    PROVE  LET done == {q \in Sched!Task : c_st[q] = "done"}
           IN  /\ c_st[P] = "done" /\ c_st[C] # "done" /\ c_st[G] # "done" => Cardinality(done) = 1
               /\ c_st[P] = "done" /\ c_st[C] = "done" /\ c_st[G] # "done" => Cardinality(done) = 2
               /\ c_st[P] = "done" /\ c_st[C] = "done" /\ c_st[G] = "done" => Cardinality(done) = 3
<1> DEFINE done == {q \in Sched!Task : c_st[q] = "done"}
<1>1. /\ IsFiniteSet({}) /\ Cardinality({}) = 0
  BY FS_EmptySet
<1>2. IsFiniteSet({P}) /\ Cardinality({P}) = 1
  BY FS_Singleton
<1>3. IsFiniteSet({P} \cup {C}) /\ Cardinality({P} \cup {C}) = 2
  BY <1>2, FS_AddElement, SchedNames
<1>4. Cardinality(({P} \cup {C}) \cup {G}) = 3
  <2>1. G \notin {P} \cup {C}
    BY SchedNames
  <2> QED BY <1>3, <2>1, FS_AddElement
<1>5. c_st[P] = "done" /\ c_st[C] # "done" /\ c_st[G] # "done" => done = {P}
  BY SchedNames
<1>6. c_st[P] = "done" /\ c_st[C] = "done" /\ c_st[G] # "done" => done = {P} \cup {C}
  BY SchedNames
<1>7. c_st[P] = "done" /\ c_st[C] = "done" /\ c_st[G] = "done" => done = ({P} \cup {C}) \cup {G}
  BY SchedNames
<1> QED BY <1>2, <1>3, <1>4, <1>5, <1>6, <1>7

\* The times are those of the last shapes.
LEMMA SchedTimes ==
    ASSUME SchedInv
    PROVE  FinishTimes
<1> DEFINE done == {q \in Sched!Task : c_st[q] = "done"}
           n == Cardinality(done)
<1>1. SUFFICES ASSUME c_at = Sched!Running, Sched!Alive = {}
               PROVE  CASE c_prog = "fifo" -> IF n = 2 THEN c_fin[C] = 5 /\ c_fin[P] = 7 ELSE c_fin[P] = 4
                        [] c_prog = "rr" -> \A q \in done : c_fin[q] \in 30 * n - n .. 30 * n
                        [] c_prog = "deadline" -> n = 1 /\ c_fin[P] = 49 * 5 + 1
                        [] c_prog = "ext" -> c_now = 2 * n /\ \A q \in done : c_fin[q] >= 2
  <2>1. Sched!Cardinality(done) = n
    BY DEF Sched!Cardinality, Cardinality
  <2> HIDE DEF n
  <2> QED BY <2>1 DEF FinishTimes, Sched!FinishTimes, Sched!Period, Sched!Runtime, P, C
<1>2. SchedTypeOK /\ SchedShape /\ c_prog \in {"fifo", "rr", "deadline", "ext"}
  BY <1>1 DEF SchedInv, SchedTypeOK
<1>3. \A q \in Sched!Task : c_st[q] \notin {"new", "sleep", "ready"}
  BY <1>1 DEF Sched!Alive
<1>4. /\ c_st[P] = "done" /\ c_st[C] # "done" /\ c_st[G] # "done" => n = 1 /\ done = {P}
      /\ c_st[P] = "done" /\ c_st[C] = "done" /\ c_st[G] # "done" => n = 2 /\ done = {P, C}
      /\ c_st[P] = "done" /\ c_st[C] = "done" /\ c_st[G] = "done" => n = 3 /\ done = {P, C, G}
  BY <1>2, SchedEnded, SchedNames
<1> HIDE DEF n, done
<1>5. CASE c_prog = "fifo"
  <2>1. c_st[G] = "none" /\ FifoInv
    BY <1>2, <1>5 DEF SchedShape
  <2>2. \/ c_st[C] \in {"none", "failed"} /\ SchedDone(P, 4)
        \/ SchedDone(P, 7) /\ SchedDone(C, 5)
    BY <1>3, <2>1, SchedNames DEF FifoInv, SchedIs, SchedAlone
  <2> QED BY <1>4, <1>5, <2>1, <2>2 DEF SchedDone
<1>6. CASE c_prog = "rr"
  <2>1. RrInv
    BY <1>2, <1>6 DEF SchedShape
  <2>2. \/ c_st[C] = "none" /\ c_st[G] = "none" /\ SchedDone(P, 30)
        \/ c_st[G] = "none" /\ SchedDone(P, 59) /\ SchedDone(C, 60)
        \/ SchedDone(P, 87) /\ SchedDone(C, 89) /\ SchedDone(G, 90)
    <3>1. RrAlone => c_st[C] = "none" /\ c_st[G] = "none" /\ SchedDone(P, 30)
      BY <1>3, SchedNames DEF RrAlone, SchedIs
    <3>2. RrTwo => c_st[G] = "none" /\ SchedDone(P, 59) /\ SchedDone(C, 60)
      BY <1>3, SchedNames DEF RrTwo, SchedIs
    <3>3. RrThree => SchedDone(P, 87) /\ SchedDone(C, 89) /\ SchedDone(G, 90)
      BY <1>3, SchedNames DEF RrThree, SchedIs
    <3> QED BY <2>1, <3>1, <3>2, <3>3 DEF RrInv
  <2>3. CASE c_st[C] = "none" /\ c_st[G] = "none" /\ SchedDone(P, 30)
    BY <1>4, <1>6, <2>3 DEF SchedDone
  <2>4. CASE c_st[G] = "none" /\ SchedDone(P, 59) /\ SchedDone(C, 60)
    BY <1>4, <1>6, <2>4 DEF SchedDone
  <2>5. CASE SchedDone(P, 87) /\ SchedDone(C, 89) /\ SchedDone(G, 90)
    BY <1>4, <1>6, <2>5 DEF SchedDone
  <2> QED BY <2>2, <2>3, <2>4, <2>5
<1>7. CASE c_prog = "deadline"
  <2>1. c_st[C] = "none" /\ c_st[G] = "none" /\ SchedDone(P, 246)
    BY <1>2, <1>3, <1>7, SchedNames DEF SchedShape, DeadlineInv
  <2> QED BY <1>4, <1>7, <2>1 DEF SchedDone
<1>8. CASE c_prog = "ext"
  <2>1. ExtInv
    BY <1>2, <1>8 DEF SchedShape
  <2>2. /\ c_st[G] = "none" /\ c_st[P] = "done" /\ c_fin[P] >= 2
        /\ \/ c_st[C] \in {"none", "failed"} /\ c_now = 2
           \/ c_st[C] = "done" /\ c_fin[C] >= 2 /\ c_now = 4
    BY <1>3, <2>1, SchedNames DEF ExtInv, SchedIs
  <2> QED BY <1>4, <1>8, <2>2
<1> QED BY <1>2, <1>5, <1>6, <1>7, <1>8

\* sched_fifo.c stands for a CPU on which none of the four has run yet.
LEMMA SchedStart == Sched!Init => SchedInv
<1> SUFFICES ASSUME Sched!Init PROVE SchedInv
  OBVIOUS
<1>1. /\ c_prog = "fifo" /\ c_at = 0
      /\ c_st = [q \in Sched!Task |-> "none"] /\ c_left = [q \in Sched!Task |-> 0]
      /\ c_fin = [q \in Sched!Task |-> 0] /\ c_prio = [q \in Sched!Task |-> Sched!Low]
      /\ c_queue = <<>> /\ c_now = 0
  BY DEF Sched!Init
<1>2. Sched!Running \in Nat /\ Sched!Running # 0
  BY <1>1, SchedRunning
<1>3. SchedTypeOK
  <2>1. /\ c_st \in [Sched!Task -> {"none", "new", "sleep", "ready", "done", "failed"}]
        /\ c_left \in [Sched!Task -> Int] /\ c_fin \in [Sched!Task -> Int]
        /\ c_prio \in [Sched!Task -> {Sched!Low, Sched!High}]
    BY <1>1
  <2>2. c_queue \in Seq(Sched!Task) /\ c_now \in Nat /\ c_at \in 0 .. Sched!Running
    BY <1>1, <1>2, SchedSeqs
  <2> QED BY <1>1, <2>1, <2>2 DEF SchedTypeOK
<1>4. c_at \notin 1 .. Sched!Forking /\ c_at # Sched!Running
  BY <1>1, <1>2
<1> QED BY <1>3, <1>4 DEF SchedInv

\* FinishTimes: whichever calls and forks of the four main()s fail, and in
\* whatever order the scheduler may run them, the processes end when the
\* policies say: the child's whole delay() before the rest of the parent's
\* (fifo), within a round of each other (rr), after 49 periods and a reservation
\* (deadline), when all the work is done (ext).
THEOREM SchedFinishTimes == Spec => []FinishTimes
<1>1. Init => SchedInv
  BY SchedStart DEF Init
<1>2. ASSUME SchedInv, [Next]_vars
      PROVE  SchedInv'
  <2>1. Sched!Next \/ UNCHANGED schedVars
    BY <1>2, OneMoves
  <2> QED BY <1>2, <2>1, SchedStep
<1>3. SchedInv => FinishTimes
  BY SchedTimes
<1> QED BY <1>1, <1>2, <1>3, PTL DEF Spec
=============================================================================
