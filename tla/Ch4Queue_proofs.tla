---------------------------- MODULE Ch4Queue_proofs ----------------------------
(***************************************************************************)
(* The blocking message queue of lab5/ch4 for any set of processes,        *)
(* addresses and messages: no leak, no double kfree and no use after kfree *)
(* on any path, no lost wakeup, and first in, first out.                   *)
(***************************************************************************)
EXTENDS Ch4Queue, ListLemmas

\* Where a process must still link or free a node.
Holds == {"r_del", "r_unlock", "r_copy", "w_fill", "w_lock", "w_add"}

TypeOK ==
    /\ queue \in Seq(Node)
    /\ heap \subseteq Node
    /\ text \in [Node -> Msg \cup {None}]
    /\ my_lock \in Proc \cup {None}
    /\ my_wq \subseteq Proc
    /\ pc \in [Proc -> {"closed", "open"} \cup ReadPC \cup WritePC]
    /\ node \in [Proc -> Node \cup {None}]
    /\ temp \in [Proc -> Msg \cup {None}]

\* Whoever is in a critical section holds my_lock.
LockInv == \A p \in Proc : pc[p] \in CriticalPC => my_lock = p

\* A process has a node exactly where it must see to one; until list_del that
\* is the first of the list, and temp_msg its message.
NodeInv ==
    \A p \in Proc :
        /\ node[p] # None <=> pc[p] \in Holds
        /\ pc[p] = "r_del" => queue # <<>> /\ node[p] = Head(queue) /\ temp[p] = text[node[p]]

\* Before ch4_init, and after ch4_exit, there is nothing.
LoadInv == ~loaded => queue = <<>> /\ \A p \in Proc : pc[p] = "closed"

\* HeapExact, element by element.
HeapInv ==
    /\ \A n \in Node : n \in heap <=> n \in Elems(queue) \/ \E p \in Proc : node[p] = n
    /\ bodies = heap
    /\ \A p, q \in Proc : p # q /\ node[p] # None => node[p] # node[q]
    /\ \A p \in Proc : node[p] \in Elems(queue) => pc[p] = "r_del"
    /\ NoDup(queue)

\* What is linked, about to be linked or taken out is a message.
TextInv ==
    /\ \A n \in Elems(queue) : text[n] \in Msg
    /\ \A p \in Proc :
          /\ pc[p] \in {"w_lock", "w_add"} => text[node[p]] \in Msg
          /\ pc[p] \in {"r_del", "r_unlock", "r_copy"} => temp[p] \in Msg

IInv == TypeOK /\ LockInv /\ NodeInv /\ LoadInv /\ HeapInv /\ TextInv /\ NoLostWakeup

\* The elements of the list are addresses.
LEMMA ElemsAreNodes == ASSUME TypeOK PROVE Elems(queue) \subseteq Node
<1> QED BY ElementOfSeq DEF TypeOK, Elems

\* The invariant gives the memory property.
LEMMA InvImpliesHeapExact == IInv => HeapExact
<1> SUFFICES ASSUME IInv PROVE HeapExact
  OBVIOUS
<1>0. TypeOK /\ NodeInv /\ LoadInv /\ HeapInv
  BY DEF IInv
<1>1. Linked = Elems(queue)
  BY DEF Linked, Elems
<1>2. heap = Linked \cup Owned
  <2>1. Linked \cup Owned \subseteq Node
    BY <1>0, <1>1, ElemsAreNodes DEF Owned, TypeOK
  <2>2. \A n \in Node : n \in Owned <=> \E p \in Proc : node[p] = n
    BY NoneAssumption DEF Owned
  <2>3. \A n \in Node : n \in heap <=> n \in Linked \cup Owned
    BY <1>0, <1>1, <2>2 DEF HeapInv
  <2> QED BY <1>0, <2>1, <2>3 DEF TypeOK
<1>3. ~loaded => heap = {}
  <2> SUFFICES ASSUME ~loaded PROVE heap = {}
    OBVIOUS
  <2>1. \A p \in Proc : node[p] = None
    BY <1>0 DEF LoadInv, NodeInv, Holds
  <2>2. Owned = {}
    BY <2>1 DEF Owned
  <2>3. Linked = {}
    BY <1>0, EmptySeq DEF LoadInv, Linked
  <2> QED BY <1>2, <2>2, <2>3
<1> QED BY <1>0, <1>1, <1>2, <1>3 DEF HeapExact, HeapInv, NoDup

\* Init establishes it.
LEMMA InitInv == Init => IInv
<1> SUFFICES ASSUME Init PROVE IInv
  OBVIOUS
<1>1. queue = <<>> /\ Elems(queue) = {} /\ NoDup(queue) /\ queue \in Seq(Node)
  BY EmptySeq DEF Init, Elems, NoDup
<1>2. TypeOK
  BY <1>1 DEF Init, TypeOK
<1>3. LockInv /\ NodeInv /\ LoadInv /\ NoLostWakeup
  BY <1>1 DEF Init, LockInv, CriticalPC, NodeInv, Holds, LoadInv, NoLostWakeup
<1>4. HeapInv /\ TextInv
  BY <1>1, NoneAssumption DEF Init, HeapInv, TextInv
<1> QED BY <1>2, <1>3, <1>4 DEF IInv

-----------------------------------------------------------------------------
(* Steps that leave list, heap and nodes alone. *)

Wait(p) == WaitTest(p) \/ WaitPrepare(p) \/ WaitRetest(p) \/ WaitLast(p) \/ WaitWoken(p)

Passing(p) ==
    \/ Choose(p) \/ Lock(p) \/ Wait(p)
    \/ ReadRecheck(p) \/ ReadUnlock(p) \/ WriteUnlock(p) \/ WriteWake(p)

\* What all of them have in common.
LEMMA PassingLeaves ==
    ASSUME TypeOK, NEW p \in Proc, Passing(p)
    PROVE  /\ UNCHANGED <<queue, heap, bodies, text, node, temp, loaded>>
           /\ \A q \in Proc : q # p => pc'[q] = pc[q]
           /\ pc'[p] \in Holds <=> pc[p] \in Holds
           /\ pc'[p] # "r_del" /\ (pc[p] = "r_del" => pc'[p] = "r_del")
           /\ pc'[p] \in {"w_lock", "w_add"} => pc[p] \in {"w_lock", "w_add"}
           /\ pc'[p] \in {"r_unlock", "r_copy"} => pc[p] \in {"r_unlock", "r_copy"}
           /\ ~loaded => pc[p] # "closed"
           /\ pc' \in [Proc -> {"closed", "open"} \cup ReadPC \cup WritePC]
           /\ my_wq' \subseteq Proc
<1> USE DEF TypeOK, Goto, Returns, heapVars, procVars, Holds, ReadPC, WritePC, WaitPC
<1>1. CASE Choose(p)
  BY <1>1 DEF Choose, Open, Close, Signal, IoctlRead, IoctlWrite, IoctlOther
<1>2. CASE Lock(p)
  BY <1>2 DEF Lock, ReadLock, WriteLock, SpinLock
<1>3. CASE WaitTest(p) \/ WaitPrepare(p) \/ WaitRetest(p)
  BY <1>3 DEF WaitTest, WaitPrepare, WaitRetest
<1>4. CASE WaitLast(p) \/ WaitWoken(p)
  BY <1>4 DEF WaitLast, WaitWoken
<1>5. CASE ReadRecheck(p) \/ ReadUnlock(p)
  BY <1>5 DEF ReadRecheck, ReadUnlock
<1>6. CASE WriteUnlock(p) \/ WriteWake(p)
  BY <1>6 DEF WriteUnlock, WriteWake
<1> QED BY <1>1, <1>2, <1>3, <1>4, <1>5, <1>6 DEF Passing, Wait

\* The lock: taken when free, given back on every way out.
LEMMA PassingLock ==
    ASSUME TypeOK, LockInv, NEW p \in Proc, Passing(p)
    PROVE  LockInv' /\ my_lock' \in Proc \cup {None}
<1> USE DEF TypeOK, LockInv, Goto, Returns, CriticalPC
<1>1. CASE Choose(p)
  BY <1>1 DEF Choose, Open, Close, Signal, IoctlRead, IoctlWrite, IoctlOther
<1>2. CASE Lock(p)
  BY <1>2, NoneAssumption DEF Lock, ReadLock, WriteLock, SpinLock, LockFree
<1>3. CASE WaitTest(p) \/ WaitPrepare(p) \/ WaitRetest(p)
  BY <1>3 DEF WaitTest, WaitPrepare, WaitRetest
<1>4. CASE WaitLast(p) \/ WaitWoken(p)
  BY <1>4 DEF WaitLast, WaitWoken
<1>5. CASE ReadRecheck(p) \/ ReadUnlock(p)
  BY <1>5, NoneAssumption DEF ReadRecheck, ReadUnlock
<1>6. CASE WriteUnlock(p) \/ WriteWake(p)
  BY <1>6, NoneAssumption DEF WriteUnlock, WriteWake
<1> QED BY <1>1, <1>2, <1>3, <1>4, <1>5, <1>6 DEF Passing, Wait

\* Nobody falls asleep with a message on the list, and a writer that stops
\* standing before its wake_up has emptied my_wq.
LEMMA PassingWakeup ==
    ASSUME TypeOK, NoLostWakeup, NEW p \in Proc, Passing(p)
    PROVE  NoLostWakeup'
<1> USE DEF TypeOK, NoLostWakeup, Goto, Returns
<1>1. CASE Choose(p)
  BY <1>1 DEF Choose, Open, Close, Signal, IoctlRead, IoctlWrite, IoctlOther, WaitPC
<1>2. CASE Lock(p)
  BY <1>2 DEF Lock, ReadLock, WriteLock, SpinLock
<1>3. CASE WaitTest(p) \/ WaitWoken(p)
  BY <1>3 DEF WaitTest, WaitWoken
<1>4. CASE WaitPrepare(p)
  BY <1>4 DEF WaitPrepare
<1>5. CASE WaitRetest(p)
  BY <1>5 DEF WaitRetest
<1>6. CASE WaitLast(p)
  BY <1>6 DEF WaitLast
<1>7. CASE ReadRecheck(p) \/ ReadUnlock(p)
  BY <1>7 DEF ReadRecheck, ReadUnlock
<1>8. CASE WriteUnlock(p)
  BY <1>8 DEF WriteUnlock
<1>9. CASE WriteWake(p)
  BY <1>9 DEF WriteWake, Woken
<1> QED BY <1>1, <1>2, <1>3, <1>4, <1>5, <1>6, <1>7, <1>8, <1>9 DEF Passing, Wait

\* Together.
LEMMA PassingInv == ASSUME IInv, NEW p \in Proc, Passing(p) PROVE IInv'
<1>0. TypeOK /\ LockInv /\ NodeInv /\ LoadInv /\ HeapInv /\ TextInv /\ NoLostWakeup
  BY DEF IInv
<1>1. TypeOK' /\ LockInv' /\ NoLostWakeup'
  <2>1. LockInv' /\ my_lock' \in Proc \cup {None}
    BY <1>0, PassingLock
  <2>2. NoLostWakeup'
    BY <1>0, PassingWakeup
  <2> QED BY <1>0, <2>1, <2>2, PassingLeaves DEF TypeOK
<1>2. NodeInv'
  BY <1>0, PassingLeaves DEF NodeInv
<1>3. HeapInv' /\ LoadInv'
  BY <1>0, PassingLeaves DEF HeapInv, LoadInv
<1>4. TextInv'
  BY <1>0, PassingLeaves DEF TextInv
<1> QED BY <1>1, <1>2, <1>3, <1>4 DEF IInv

-----------------------------------------------------------------------------
(* Steps that touch list, heap or nodes. *)

\* ch4_init and ch4_exit: nobody is inside, so the list is all there is.
LEMMA LoadStepInv == ASSUME IInv, Insmod \/ Exit PROVE IInv'
<1>0. TypeOK /\ LockInv /\ NodeInv /\ LoadInv /\ HeapInv /\ TextInv /\ NoLostWakeup
  BY DEF IInv
<1>1. \A p \in Proc : pc[p] = "closed" /\ node[p] = None
  BY <1>0 DEF Insmod, Exit, LoadInv, NodeInv, Holds
<1>2. UNCHANGED <<text, pc, node, temp>> /\ my_wq' \subseteq Proc /\ queue' = <<>>
  BY <1>0 DEF Insmod, Exit, heapVars, procVars, TypeOK
<1>3. Elems(queue') = {} /\ NoDup(queue') /\ queue' \in Seq(Node)
  BY <1>2, EmptySeq DEF Elems, NoDup
<1>4. heap' = {} /\ bodies' = {}
  <2>1. \A n \in heap : n \in Elems(queue)
    BY <1>0, <1>1, NoneAssumption DEF HeapInv, TypeOK
  <2>2. CASE Insmod
    <3>1. Elems(queue) = {}
      BY <1>0, <2>2, EmptySeq DEF Insmod, LoadInv, Elems
    <3> QED BY <1>0, <2>1, <2>2, <3>1 DEF Insmod, HeapInv, heapVars
  <2>3. CASE Exit
    <3>1. ExitFrees = Elems(queue)
      BY DEF ExitFrees, Elems
    <3> QED BY <1>0, <2>1, <2>3, <3>1 DEF Exit, HeapInv
  <2> QED BY <2>2, <2>3
<1>5. TypeOK' /\ LockInv'
  BY <1>0, <1>1, <1>2, <1>3, <1>4 DEF Insmod, Exit, TypeOK, LockInv, CriticalPC
<1>6. NodeInv' /\ LoadInv' /\ NoLostWakeup'
  BY <1>1, <1>2 DEF NodeInv, Holds, LoadInv, NoLostWakeup
<1>7. HeapInv' /\ TextInv'
  BY <1>1, <1>2, <1>3, <1>4, NoneAssumption DEF HeapInv, TextInv
<1> QED BY <1>5, <1>6, <1>7 DEF IInv

\* The reader notes the first node and copies its message.
LEMMA ReadFirstInv == ASSUME IInv, NEW p \in Proc, ReadFirst(p) PROVE IInv'
<1>0. TypeOK /\ LockInv /\ NodeInv /\ LoadInv /\ HeapInv /\ TextInv /\ NoLostWakeup
  BY DEF IInv
<1>1. queue # <<>> /\ Head(queue) \in Elems(queue) /\ Head(queue) \in Node
  BY <1>0, TailElems DEF ReadFirst, TypeOK, HeapInv
<1>2. UNCHANGED <<queue, heap, bodies, text, loaded, my_lock, my_wq>>
  BY DEF ReadFirst, heapVars
<1>3. TypeOK'
  BY <1>0, <1>1 DEF ReadFirst, Goto, TypeOK, ReadPC, heapVars
<1>4. \A q \in Proc : node[q] \notin Elems(queue)
  <2>1. \A q \in Proc : pc[q] # "r_del"
    BY <1>0 DEF ReadFirst, LockInv, CriticalPC
  <2> QED BY <1>0, <2>1 DEF HeapInv
<1>5. /\ node'[p] = Head(queue) /\ pc'[p] = "r_del" /\ temp'[p] = text[Head(queue)]
      /\ node[p] = None /\ pc[p] = "r_first"
      /\ \A q \in Proc : q # p => node'[q] = node[q] /\ pc'[q] = pc[q] /\ temp'[q] = temp[q]
  BY <1>0 DEF ReadFirst, Goto, TypeOK, NodeInv, Holds
<1>6. LockInv' /\ NodeInv' /\ LoadInv' /\ NoLostWakeup'
  <2>1. LockInv' /\ LoadInv'
    BY <1>0, <1>2, <1>5 DEF LockInv, CriticalPC, LoadInv
  <2>2. NodeInv'
    BY <1>0, <1>1, <1>2, <1>5, NoneAssumption DEF NodeInv, Holds
  <2>3. NoLostWakeup'
    BY <1>0, <1>2, <1>5 DEF NoLostWakeup
  <2> QED BY <2>1, <2>2, <2>3
<1>7. HeapInv'
  <2>1. \A n \in Node : n \in heap' <=> n \in Elems(queue') \/ \E q \in Proc : node'[q] = n
    BY <1>0, <1>1, <1>2, <1>5, NoneAssumption DEF HeapInv
  <2>2. \A q, r \in Proc : q # r /\ node'[q] # None => node'[q] # node'[r]
    BY <1>0, <1>1, <1>4, <1>5, NoneAssumption DEF HeapInv
  <2>3. \A q \in Proc : node'[q] \in Elems(queue') => pc'[q] = "r_del"
    BY <1>2, <1>4, <1>5
  <2> QED BY <1>0, <1>2, <2>1, <2>2, <2>3 DEF HeapInv
<1>8. TextInv'
  BY <1>0, <1>1, <1>2, <1>5 DEF TextInv
<1> QED BY <1>3, <1>6, <1>7, <1>8 DEF IInv

\* list_del takes off the node in the reader's hands, which is the first.
LEMMA ReadDelTakesHead ==
    ASSUME IInv, NEW p \in Proc, ReadDel(p)
    PROVE  /\ queue # <<>> /\ node[p] = Head(queue) /\ queue' = Tail(queue)
           /\ Elems(queue') = Elems(queue) \ {node[p]} /\ node[p] \in Elems(queue)
           /\ NoDup(queue') /\ queue' \in Seq(Node)
<1>0. TypeOK /\ NodeInv /\ HeapInv
  BY DEF IInv
<1>1. queue # <<>> /\ node[p] = Head(queue) /\ queue \in Seq(Node) /\ NoDup(queue)
  BY <1>0 DEF ReadDel, NodeInv, TypeOK, HeapInv
<1>2. /\ Tail(queue) \in Seq(Node) /\ Head(queue) = queue[1] /\ Head(queue) \in Elems(queue)
      /\ Elems(Tail(queue)) = Elems(queue) \ {Head(queue)} /\ NoDup(Tail(queue))
  BY <1>1, TailElems
<1>3. Unlink(node[p]) = Tail(queue)
  <2> DEFINE k == CHOOSE i \in 1 .. Len(queue) : queue[i] = node[p]
  <2>1. \E i \in 1 .. Len(queue) : queue[i] = node[p]
    BY <1>1, <1>2 DEF Elems
  <2>2. k \in 1 .. Len(queue) /\ queue[k] = Head(queue)
    BY <1>1, <2>1
  <2>3. Unlink(node[p]) = [i \in 1 .. Len(queue) - 1 |-> IF i < k THEN queue[i] ELSE queue[i + 1]]
    BY DEF Unlink
  <2> HIDE DEF k
  <2> QED BY <1>1, <2>2, <2>3, RemoveHead
<1> QED BY <1>1, <1>2, <1>3 DEF ReadDel

\* list_del takes the first node: nobody else can, under my_lock.
LEMMA ReadDelInv == ASSUME IInv, NEW p \in Proc, ReadDel(p) PROVE IInv'
<1>0. TypeOK /\ LockInv /\ NodeInv /\ LoadInv /\ HeapInv /\ TextInv /\ NoLostWakeup
  BY DEF IInv
<1>1. UNCHANGED <<heap, bodies, text, loaded, my_lock, my_wq, node, temp>>
  BY DEF ReadDel, heapVars, procVars
<1>2. /\ pc[p] = "r_del" /\ pc'[p] = "r_unlock" /\ \A q \in Proc : q # p => pc'[q] = pc[q]
      /\ my_lock = p /\ \A q \in Proc : q # p => pc[q] \notin CriticalPC
  BY <1>0 DEF ReadDel, Goto, TypeOK, LockInv, CriticalPC
<1>3. TypeOK'
  BY <1>0, <1>1, ReadDelTakesHead DEF ReadDel, Goto, TypeOK, ReadPC
<1>4. LockInv' /\ NodeInv' /\ LoadInv' /\ NoLostWakeup'
  <2>1. LockInv' /\ LoadInv'
    BY <1>0, <1>1, <1>2 DEF LockInv, CriticalPC, LoadInv
  <2>2. NodeInv'
    BY <1>0, <1>1, <1>2 DEF NodeInv, Holds, CriticalPC
  <2>3. NoLostWakeup'
    BY <1>0, <1>1, <1>2, ReadDelTakesHead DEF NoLostWakeup
  <2> QED BY <2>1, <2>2, <2>3
<1>5. HeapInv'
  <2>1. \A n \in Node : n \in heap' <=> n \in Elems(queue') \/ \E q \in Proc : node'[q] = n
    BY <1>0, <1>1, ReadDelTakesHead DEF HeapInv
  <2>2. \A q \in Proc : node'[q] \in Elems(queue') => pc'[q] = "r_del"
    BY <1>0, <1>1, <1>2, ReadDelTakesHead DEF HeapInv
  <2> QED BY <1>0, <1>1, <2>1, <2>2, ReadDelTakesHead DEF HeapInv
<1>6. TextInv'
  BY <1>0, <1>1, <1>2, ReadDelTakesHead DEF TextInv
<1> QED BY <1>3, <1>4, <1>5, <1>6 DEF IInv

\* Giving back the node in p's hands: ReadCopy, and the failure of WriteFill.
LEMMA FreeInv ==
    ASSUME IInv, NEW p \in Proc, pc[p] \in {"r_copy", "w_fill"}, Goto(p, "open"),
           kfree(node[p]), node' = [node EXCEPT ![p] = None],
           temp' = [temp EXCEPT ![p] = None] \/ temp' = temp,
           UNCHANGED <<loaded, queue, text, my_lock, my_wq>>
    PROVE  IInv'
<1>0. TypeOK /\ LockInv /\ NodeInv /\ LoadInv /\ HeapInv /\ TextInv /\ NoLostWakeup
  BY DEF IInv
<1>1. /\ pc'[p] = "open" /\ node'[p] = None
      /\ \A q \in Proc : q # p => pc'[q] = pc[q] /\ node'[q] = node[q] /\ temp'[q] = temp[q]
  BY <1>0 DEF TypeOK, Goto
<1>2. node[p] # None /\ node[p] \in Node /\ node[p] \notin Elems(queue)
  BY <1>0 DEF NodeInv, HeapInv, Holds, TypeOK
<1>3. TypeOK'
  BY <1>0 DEF TypeOK, Goto, kfree
<1>4. LockInv' /\ NodeInv' /\ LoadInv' /\ NoLostWakeup'
  <2>1. LockInv' /\ LoadInv'
    BY <1>0, <1>1 DEF LockInv, CriticalPC, LoadInv
  <2>2. NodeInv'
    BY <1>0, <1>1 DEF NodeInv, Holds
  <2>3. NoLostWakeup'
    BY <1>0, <1>1 DEF NoLostWakeup
  <2> QED BY <2>1, <2>2, <2>3
<1>5. HeapInv'
  <2>1. \A n \in Node : n \in heap' <=> n \in Elems(queue') \/ \E q \in Proc : node'[q] = n
    BY <1>0, <1>1, <1>2, NoneAssumption DEF HeapInv, kfree
  <2>2. \A q \in Proc : node'[q] \in Elems(queue') => pc'[q] = "r_del"
    <3>1. None \notin Elems(queue)
      BY <1>0, ElemsAreNodes, NoneAssumption
    <3> QED BY <1>0, <1>1, <3>1 DEF HeapInv
  <2>3. \A q, r \in Proc : q # r /\ node'[q] # None => node'[q] # node'[r]
    BY <1>0, <1>1 DEF HeapInv
  <2> QED BY <1>0, <2>1, <2>2, <2>3 DEF HeapInv, kfree
<1>6. TextInv'
  BY <1>0, <1>1 DEF TextInv
<1> QED BY <1>3, <1>4, <1>5, <1>6 DEF IInv

\* The message has been handed over, or could not be; the node is freed.
LEMMA ReadCopyInv == ASSUME IInv, NEW p \in Proc, ReadCopy(p) PROVE IInv'
<1>1. /\ pc[p] \in {"r_copy", "w_fill"} /\ Goto(p, "open") /\ kfree(node[p])
      /\ node' = [node EXCEPT ![p] = None] /\ temp' = [temp EXCEPT ![p] = None]
      /\ UNCHANGED <<loaded, queue, text, my_lock, my_wq>>
  BY DEF ReadCopy, Returns
<1> QED BY <1>1, FreeInv

\* kmalloc returns an address nobody has, or nothing.
LEMMA WriteAllocInv == ASSUME IInv, NEW p \in Proc, WriteAlloc(p) PROVE IInv'
<1>0. TypeOK /\ LockInv /\ NodeInv /\ LoadInv /\ HeapInv /\ TextInv /\ NoLostWakeup
  BY DEF IInv
<1>1. /\ UNCHANGED <<loaded, queue, text, my_lock, my_wq, temp>> /\ pc[p] = "w_alloc"
      /\ \A q \in Proc : q # p => pc'[q] = pc[q]
      /\ pc'[p] \in {"open", "w_fill"} /\ node[p] = None
      /\ pc' \in [Proc -> {"closed", "open"} \cup ReadPC \cup WritePC]
  BY <1>0 DEF WriteAlloc, Returns, Goto, TypeOK, WritePC, NodeInv, Holds
<1>2. LockInv' /\ LoadInv'
  BY <1>0, <1>1 DEF LockInv, CriticalPC, LoadInv
<1>3. NoLostWakeup'
  BY <1>0, <1>1 DEF NoLostWakeup
<1>4. CASE pc'[p] = "open" /\ UNCHANGED <<heap, bodies, node>>
  <2>1. TypeOK'
    BY <1>0, <1>1, <1>4 DEF TypeOK
  <2>2. NodeInv'
    BY <1>0, <1>1, <1>4 DEF NodeInv, Holds
  <2>3. HeapInv'
    BY <1>0, <1>1, <1>4 DEF HeapInv
  <2>4. TextInv'
    BY <1>0, <1>1, <1>4 DEF TextInv
  <2> QED BY <1>2, <1>3, <2>1, <2>2, <2>3, <2>4 DEF IInv
<1>5. ASSUME NEW n \in Node \ heap, heap' = heap \cup {n}, bodies' = bodies \cup {n},
             node' = [node EXCEPT ![p] = n], Goto(p, "w_fill")
      PROVE  IInv'
  <2>1. /\ node'[p] = n /\ pc'[p] = "w_fill" /\ n # None
        /\ \A q \in Proc : q # p => node'[q] = node[q]
    BY <1>0, <1>5, NoneAssumption DEF TypeOK, Goto
  <2>2. n \notin Elems(queue) /\ \A q \in Proc : node[q] # n
    BY <1>0 DEF HeapInv
  <2>3. TypeOK'
    BY <1>0, <1>1, <1>5 DEF TypeOK
  <2>4. NodeInv'
    BY <1>0, <1>1, <2>1 DEF NodeInv, Holds
  <2>5. HeapInv'
    <3>1. \A k \in Node : k \in heap' <=> k \in Elems(queue') \/ \E q \in Proc : node'[q] = k
      BY <1>0, <1>1, <1>5, <2>1, NoneAssumption DEF HeapInv
    <3>2. \A q, r \in Proc : q # r /\ node'[q] # None => node'[q] # node'[r]
      BY <1>0, <2>1, <2>2 DEF HeapInv
    <3>3. \A q \in Proc : node'[q] \in Elems(queue') => pc'[q] = "r_del"
      BY <1>0, <1>1, <2>1, <2>2 DEF HeapInv
    <3> QED BY <1>0, <1>1, <1>5, <3>1, <3>2, <3>3 DEF HeapInv
  <2>6. TextInv'
    BY <1>0, <1>1, <2>1 DEF TextInv
  <2> QED BY <1>2, <1>3, <2>3, <2>4, <2>5, <2>6 DEF IInv
<1> QED
  <2>1. CASE Returns(p, "ENOMEM") /\ UNCHANGED <<heap, bodies, node>>
    BY <1>0, <1>4, <2>1 DEF Returns, Goto, TypeOK
  <2> QED BY <1>5, <2>1 DEF WriteAlloc

\* The text goes into a node that is not on the list yet, so that no message
\* on it changes.
LEMMA FillLeavesOthers ==
    ASSUME IInv, NEW p \in Proc, pc[p] = "w_fill", NEW m \in Msg,
           text' = [text EXCEPT ![node[p]] = m]
    PROVE  /\ node[p] \in Node /\ text'[node[p]] = m /\ text' \in [Node -> Msg \cup {None}]
           /\ \A n \in Elems(queue) : text'[n] = text[n]
           /\ \A q \in Proc : q # p => text'[node[q]] = text[node[q]] \/ node[q] = None
<1>0. TypeOK /\ NodeInv /\ HeapInv
  BY DEF IInv
<1>1. node[p] # None /\ node[p] \in Node /\ node[p] \notin Elems(queue)
  BY <1>0 DEF NodeInv, HeapInv, Holds, TypeOK
<1>2. Elems(queue) \subseteq Node
  BY <1>0, ElemsAreNodes
<1> QED BY <1>0, <1>1, <1>2 DEF TypeOK, HeapInv

\* A copied message is ready to be linked; a failed copy frees its node.
LEMMA WriteFillInv == ASSUME IInv, NEW p \in Proc, WriteFill(p) PROVE IInv'
<1>0. TypeOK /\ LockInv /\ NodeInv /\ LoadInv /\ HeapInv /\ TextInv /\ NoLostWakeup
  BY DEF IInv
<1>1. UNCHANGED <<loaded, queue, my_lock, my_wq, temp>> /\ pc[p] = "w_fill"
  BY DEF WriteFill
<1>2. CASE /\ FillFailureFrees(node[p]) /\ node' = [node EXCEPT ![p] = None]
           /\ FillFailureReturns(p) /\ UNCHANGED text
  <2>1. Goto(p, "open") /\ kfree(node[p])
    BY <1>2 DEF FillFailureReturns, FillFailureFrees, Returns
  <2> QED BY <1>1, <1>2, <2>1, FreeInv
<1>3. ASSUME NEW m \in Msg, text' = [text EXCEPT ![node[p]] = m], Goto(p, "w_lock"),
             UNCHANGED <<heap, bodies, node>>
      PROVE  IInv'
  <2>1. /\ node[p] \in Node /\ text'[node[p]] = m /\ text' \in [Node -> Msg \cup {None}]
        /\ \A n \in Elems(queue) : text'[n] = text[n]
        /\ \A q \in Proc : q # p => text'[node[q]] = text[node[q]] \/ node[q] = None
    BY <1>1, <1>3, FillLeavesOthers
  <2>2. pc'[p] = "w_lock" /\ \A q \in Proc : q # p => pc'[q] = pc[q]
    BY <1>0, <1>3 DEF Goto, TypeOK
  <2>3. TypeOK'
    BY <1>0, <1>1, <1>3, <2>1 DEF TypeOK, Goto, WritePC
  <2>4. LockInv' /\ LoadInv'
    BY <1>0, <1>1, <2>2 DEF LockInv, CriticalPC, LoadInv
  <2>5. NoLostWakeup'
    BY <1>0, <1>1, <2>2 DEF NoLostWakeup
  <2>6. NodeInv'
    BY <1>0, <1>1, <1>3, <2>1, <2>2 DEF NodeInv, Holds
  <2>7. HeapInv'
    BY <1>0, <1>1, <1>3, <2>2 DEF HeapInv
  <2>8. TextInv'
    BY <1>0, <1>1, <1>3, <2>1, <2>2 DEF TextInv, NodeInv, Holds
  <2> QED BY <2>3, <2>4, <2>5, <2>6, <2>7, <2>8 DEF IInv
<1> QED BY <1>2, <1>3 DEF WriteFill

\* list_add_tail: the node passes from the writer's hands to the list.
LEMMA WriteAddInv == ASSUME IInv, NEW p \in Proc, WriteAdd(p) PROVE IInv'
<1>0. TypeOK /\ LockInv /\ NodeInv /\ LoadInv /\ HeapInv /\ TextInv /\ NoLostWakeup
  BY DEF IInv
<1>1. UNCHANGED <<loaded, heap, bodies, text, my_lock, my_wq, temp>> /\ queue' = Append(queue, node[p])
  BY DEF WriteAdd, Link, heapVars
<1>2. /\ pc[p] = "w_add" /\ pc'[p] = "w_unlock" /\ node'[p] = None /\ my_lock = p
      /\ \A q \in Proc : q # p => pc'[q] = pc[q] /\ node'[q] = node[q] /\ pc[q] \notin CriticalPC
  BY <1>0 DEF WriteAdd, Goto, TypeOK, LockInv, CriticalPC
<1>3. node[p] # None /\ node[p] \in Node /\ node[p] \notin Elems(queue)
  BY <1>0, <1>2 DEF NodeInv, HeapInv, Holds, TypeOK
<1>4. /\ queue' \in Seq(Node) /\ queue' # <<>> /\ Elems(queue') = Elems(queue) \cup {node[p]}
      /\ NoDup(queue')
  BY <1>0, <1>1, <1>3, AppendElems DEF TypeOK, HeapInv
<1>5. TypeOK'
  BY <1>0, <1>1, <1>4 DEF TypeOK, WriteAdd, Goto, WritePC
<1>6. LockInv' /\ LoadInv'
  BY <1>0, <1>1, <1>2 DEF LockInv, CriticalPC, LoadInv
<1>7. NodeInv'
  BY <1>0, <1>1, <1>2 DEF NodeInv, Holds, CriticalPC
<1>8. NoLostWakeup'
  BY <1>2 DEF NoLostWakeup
<1>9. HeapInv'
  <2>1. \A n \in Node : n \in heap' <=> n \in Elems(queue') \/ \E q \in Proc : node'[q] = n
    BY <1>0, <1>1, <1>2, <1>3, <1>4, NoneAssumption DEF HeapInv
  <2>2. \A q, r \in Proc : q # r /\ node'[q] # None => node'[q] # node'[r]
    BY <1>0, <1>2 DEF HeapInv
  <2>3. \A q \in Proc : node'[q] \in Elems(queue') => pc'[q] = "r_del"
    <3>1. None \notin Elems(queue')
      BY <1>0, <1>3, <1>4, ElemsAreNodes, NoneAssumption
    <3> QED BY <1>0, <1>2, <1>3, <1>4, <3>1 DEF HeapInv
  <2> QED BY <1>0, <1>1, <1>4, <2>1, <2>2, <2>3 DEF HeapInv
<1>10. TextInv'
  BY <1>0, <1>1, <1>2, <1>4 DEF TextInv
<1> QED BY <1>5, <1>6, <1>7, <1>8, <1>9, <1>10 DEF IInv

-----------------------------------------------------------------------------
(* The theorems. *)

\* A step is one of those, or passes.
LEMMA NextCases ==
    ASSUME Next
    PROVE  \/ Insmod \/ Exit
           \/ \E p \in Proc : \/ Passing(p) \/ ReadFirst(p) \/ ReadDel(p) \/ ReadCopy(p)
                              \/ WriteAlloc(p) \/ WriteFill(p) \/ WriteAdd(p)
<1> QED BY DEF Next, Run, Passing, Wait

\* Steps that change nothing keep the invariant.
LEMMA StutterInv == ASSUME IInv, UNCHANGED vars PROVE IInv'
<1> QED BY DEF IInv, vars, heapVars, procVars, TypeOK, LockInv, NodeInv, LoadInv, HeapInv,
             TextInv, NoLostWakeup

\* The invariant is inductive.
LEMMA InvHolds == Spec => []IInv
<1>1. Init => IInv
  BY InitInv
<1>2. IInv /\ [Next]_vars => IInv'
  <2> SUFFICES ASSUME IInv, [Next]_vars PROVE IInv'
    OBVIOUS
  <2>1. CASE UNCHANGED vars
    BY <2>1, StutterInv
  <2>2. CASE Next
    BY <2>2, NextCases, LoadStepInv, PassingInv, ReadFirstInv, ReadDelInv, ReadCopyInv,
       WriteAllocInv, WriteFillInv, WriteAddInv
  <2> QED BY <2>1, <2>2
<1> QED BY <1>1, <1>2, PTL DEF Spec

\* On no path of ch4_read, ch4_write and ch4_exit is a node leaked, freed
\* twice or used after kfree, whatever the number of processes and whenever
\* kmalloc and the copies fail.
THEOREM MemoryExact == Spec => []HeapExact
<1> QED BY InvHolds, InvImpliesHeapExact, PTL

\* No reader sleeps on my_wq with a message on the list unless a writer is on
\* its way to wake_up.
THEOREM WakeupNotLost == Spec => []NoLostWakeup
<1>1. IInv => NoLostWakeup
  BY DEF IInv
<1> QED BY <1>1, InvHolds, PTL

-----------------------------------------------------------------------------
(* The refinement: fifoBar is the list of messages, handBar what readers hold. *)

\* The messages on the list, and what list_add_tail and list_del do to them.
LEMMA FifoOfList ==
    ASSUME IInv
    PROVE  /\ (fifoBar = <<>>) <=> (queue = <<>>)
           /\ \A n \in Node : text[n] \in Msg =>
                [i \in 1 .. Len(Append(queue, n)) |-> text[Append(queue, n)[i]]]
                   = Append(fifoBar, text[n])
           /\ queue # <<>> =>
                /\ Head(fifoBar) = text[Head(queue)]
                /\ [i \in 1 .. Len(Tail(queue)) |-> text[Tail(queue)[i]]] = Tail(fifoBar)
<1>1. queue \in Seq(Node) /\ \A i \in 1 .. Len(queue) : text[queue[i]] \in Msg
  BY DEF IInv, TypeOK, TextInv, Elems
<1> QED BY <1>1, MapAppendTail DEF fifoBar

\* fifoBar depends on the list and the texts on it alone.
LEMMA FifoUnchanged ==
    ASSUME UNCHANGED queue, \A n \in Elems(queue) : text'[n] = text[n]
    PROVE  UNCHANGED fifoBar
<1> QED BY DEF fifoBar, Elems

\* A reader holds a message from its list_del until it has copied it out.
LEMMA HandUnchanged ==
    ASSUME NEW p \in Proc,
           \A q \in Proc : q # p => pc'[q] = pc[q] /\ temp'[q] = temp[q],
           pc[p] \notin {"r_unlock", "r_copy"} /\ pc'[p] \notin {"r_unlock", "r_copy"}
    PROVE  UNCHANGED handBar
<1> QED BY DEF handBar

\* list_del is Take.
LEMMA ReadDelTakes == ASSUME IInv, NEW p \in Proc, ReadDel(p) PROVE Fifo!Take(p)
<1>0. TypeOK /\ NodeInv
  BY DEF IInv
<1>1. queue # <<>> /\ node[p] = Head(queue) /\ queue' = Tail(queue)
  BY ReadDelTakesHead
<1>2. UNCHANGED <<text, temp>> /\ temp[p] = text[Head(queue)]
  BY <1>0, <1>1 DEF ReadDel, NodeInv, heapVars, procVars
<1>3. pc[p] = "r_del" /\ pc' = [pc EXCEPT ![p] = "r_unlock"]
  BY DEF ReadDel, Goto
<1>4. fifoBar # <<>> /\ Head(fifoBar) = text[Head(queue)] /\ fifoBar' = Tail(fifoBar)
  <2>1. fifoBar' = [i \in 1 .. Len(Tail(queue)) |-> text[Tail(queue)[i]]]
    BY <1>1, <1>2 DEF fifoBar
  <2> QED BY <1>1, <2>1, FifoOfList
<1>5. handBar[p] = None
  BY <1>3 DEF handBar
<1>6. handBar' = [handBar EXCEPT ![p] = Head(fifoBar)]
  BY <1>0, <1>2, <1>3, <1>4 DEF handBar, TypeOK
<1> QED BY <1>4, <1>5, <1>6 DEF Fifo!Take

\* Returning from ch4_read is Finish.
LEMMA ReadCopyFinishes == ASSUME IInv, NEW p \in Proc, ReadCopy(p) PROVE Fifo!Finish(p)
<1>0. TypeOK /\ TextInv
  BY DEF IInv
<1>1. pc[p] = "r_copy" /\ pc' = [pc EXCEPT ![p] = "open"] /\ temp' = [temp EXCEPT ![p] = None]
  BY DEF ReadCopy, Returns, Goto
<1>2. handBar[p] # None
  BY <1>0, <1>1, NoneAssumption DEF handBar, TextInv
<1>3. handBar' = [handBar EXCEPT ![p] = None]
  BY <1>0, <1>1 DEF handBar, TypeOK
<1>4. UNCHANGED fifoBar
  BY FifoUnchanged DEF ReadCopy
<1> QED BY <1>2, <1>3, <1>4 DEF Fifo!Finish

\* list_add_tail is Put.
LEMMA WriteAddPuts == ASSUME IInv, NEW p \in Proc, WriteAdd(p) PROVE \E m \in Msg : Fifo!Put(m)
<1>0. TypeOK /\ TextInv /\ NodeInv
  BY DEF IInv
<1>1. /\ pc[p] = "w_add" /\ pc' = [pc EXCEPT ![p] = "w_unlock"]
      /\ queue' = Append(queue, node[p]) /\ UNCHANGED <<text, temp>>
  BY DEF WriteAdd, Goto, Link, heapVars
<1>2. node[p] \in Node /\ text[node[p]] \in Msg
  BY <1>0, <1>1 DEF TypeOK, NodeInv, TextInv, Holds
<1>3. fifoBar' = Append(fifoBar, text[node[p]])
  <2>1. fifoBar' = [i \in 1 .. Len(Append(queue, node[p])) |-> text[Append(queue, node[p])[i]]]
    BY <1>1 DEF fifoBar
  <2> QED BY <1>2, <2>1, FifoOfList
<1>4. UNCHANGED handBar
  BY <1>0, <1>1, HandUnchanged DEF TypeOK
<1> QED BY <1>2, <1>3, <1>4 DEF Fifo!Put

\* Everything else a process does leaves the queue as its users see it alone.
LEMMA OthersStutter ==
    ASSUME IInv, NEW p \in Proc, Passing(p) \/ ReadFirst(p) \/ WriteAlloc(p) \/ WriteFill(p)
    PROVE  UNCHANGED <<fifoBar, handBar>>
<1>0. TypeOK
  BY DEF IInv
<1>1. CASE Passing(p)
  <2>1. /\ UNCHANGED <<queue, text, temp>> /\ \A q \in Proc : q # p => pc'[q] = pc[q]
        /\ pc'[p] \in {"r_unlock", "r_copy"} => pc[p] \in {"r_unlock", "r_copy"}
    BY <1>0, <1>1, PassingLeaves
  <2>2. pc[p] \in {"r_unlock", "r_copy"} => pc'[p] \in {"r_unlock", "r_copy"}
    BY <1>0, <1>1 DEF TypeOK, Passing, Choose, Open, Close, Signal, IoctlRead, IoctlWrite,
       IoctlOther, Lock, ReadLock, WriteLock, SpinLock, Wait, WaitTest, WaitPrepare,
       WaitRetest, WaitLast, WaitWoken, WaitPC, ReadRecheck, ReadUnlock, WriteUnlock,
       WriteWake, Goto
  <2>3. UNCHANGED fifoBar
    BY <2>1, FifoUnchanged
  <2> QED BY <2>1, <2>2, <2>3 DEF handBar
<1>2. CASE ReadFirst(p)
  <2>1. UNCHANGED <<queue, text>>
    BY <1>2 DEF ReadFirst, heapVars
  <2>2. UNCHANGED handBar
    BY <1>0, <1>2, HandUnchanged DEF ReadFirst, Goto, TypeOK
  <2> QED BY <2>1, <2>2, FifoUnchanged
<1>3. CASE WriteAlloc(p)
  <2>1. UNCHANGED <<queue, text>>
    BY <1>3 DEF WriteAlloc
  <2>2. UNCHANGED handBar
    BY <1>0, <1>3, HandUnchanged DEF WriteAlloc, Returns, Goto, TypeOK
  <2> QED BY <2>1, <2>2, FifoUnchanged
<1>4. CASE WriteFill(p)
  <2>1. UNCHANGED queue /\ \A n \in Elems(queue) : text'[n] = text[n]
    BY <1>4, FillLeavesOthers DEF WriteFill
  <2>2. UNCHANGED handBar
    BY <1>0, <1>4, HandUnchanged DEF WriteFill, FillFailureReturns, Returns, Goto, TypeOK
  <2> QED BY <2>1, <2>2, FifoUnchanged
<1> QED BY <1>1, <1>2, <1>3, <1>4

\* Loading finds the queue empty, unloading is Clear.
LEMMA LoadStepClears == ASSUME IInv, Insmod \/ Exit PROVE Fifo!Clear
<1>1. queue' = <<>> /\ UNCHANGED handBar
  BY DEF Insmod, Exit, handBar, procVars
<1>2. fifoBar' = <<>>
  BY <1>1, EmptySeq DEF fifoBar
<1> QED BY <1>1, <1>2 DEF Fifo!Clear

\* Whatever readers and writers do concurrently, messages leave ch4 in the
\* order they were added, with the content they were written with, each to
\* one reader: the driver implements MessageFifo.
THEOREM Ch4ImplementsFifo == Spec => ImplementsFifo
<1>1. Init => Fifo!FifoInit
  <2> SUFFICES ASSUME Init PROVE Fifo!FifoInit
    OBVIOUS
  <2>1. fifoBar = <<>>
    BY EmptySeq DEF Init, fifoBar
  <2>2. handBar = [p \in Proc |-> None]
    BY DEF Init, handBar
  <2> QED BY <2>1, <2>2 DEF Fifo!FifoInit
<1>2. IInv /\ [Next]_vars => [Fifo!FifoNext]_(Fifo!fifoVars)
  <2> SUFFICES ASSUME IInv, [Next]_vars PROVE [Fifo!FifoNext]_(Fifo!fifoVars)
    OBVIOUS
  <2>1. CASE UNCHANGED vars
    BY <2>1 DEF vars, heapVars, procVars, fifoBar, handBar, Fifo!fifoVars
  <2>2. CASE Next
    <3>1. CASE Insmod \/ Exit
      BY <3>1, LoadStepClears DEF Fifo!FifoNext
    <3>2. ASSUME NEW p \in Proc, ReadDel(p) \/ ReadCopy(p) \/ WriteAdd(p) PROVE Fifo!FifoNext
      BY <3>2, ReadDelTakes, ReadCopyFinishes, WriteAddPuts DEF Fifo!FifoNext
    <3>3. ASSUME NEW p \in Proc, Passing(p) \/ ReadFirst(p) \/ WriteAlloc(p) \/ WriteFill(p)
          PROVE  UNCHANGED Fifo!fifoVars
      BY <3>3, OthersStutter DEF Fifo!fifoVars
    <3> QED BY <2>2, <3>1, <3>2, <3>3, NextCases
  <2> QED BY <2>1, <2>2
<1> QED BY <1>1, <1>2, InvHolds, PTL DEF Spec, ImplementsFifo, Fifo!FifoSpec
=============================================================================
