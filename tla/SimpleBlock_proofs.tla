--------------------------- MODULE SimpleBlock_proofs ---------------------------
(***************************************************************************)
(* SimpleBlock for any finite set of processes, any choice of commands and *)
(* any amounts, negative ones included, as long as the sums fit a long;    *)
(* that nobody is stranded, for amounts of at most one.                    *)
(***************************************************************************)
EXTENDS SimpleBlock, ListLemmas, FiniteSetTheorems

\* The types the arguments need: the wait queue plays no part.
Types ==
    /\ my_data \in Int /\ late \in Nat /\ drawn \in Nat
    /\ pc \in [Proc -> {"user", "take", "wake"} \cup WaitPC]

IInv == Types /\ OverdraftBound /\ NoLostWakeup

\* The processes on their way to my_data-- are some of all processes.
LEMMA PassedFinite ==
    /\ IsFiniteSet(Passed) /\ Cardinality(Passed) \in Nat
    /\ Cardinality(Proc) \in Nat /\ Cardinality(Passed) <= Cardinality(Proc)
<1>1. Passed \subseteq Proc /\ IsFiniteSet(Proc)
  BY ProcAssumption DEF Passed
<1> QED BY <1>1, FS_Subset, FS_CardinalityType

\* The same after a step.
LEMMA PassedFinitePrime ==
    /\ IsFiniteSet(Passed') /\ Cardinality(Passed') \in Nat
    /\ Cardinality(Passed') <= Cardinality(Proc)
<1>1. Passed' \subseteq Proc /\ IsFiniteSet(Proc)
  BY ProcAssumption DEF Passed
<1> QED BY <1>1, FS_Subset, FS_CardinalityType

\* Init establishes the inductive invariant: there is at least one process.
LEMMA InitInv == Init => IInv
<1> SUFFICES ASSUME Init PROVE IInv
  OBVIOUS
<1>1. Types
  BY DEF Init, Types
<1>2. OverdraftBound
  <2>1. Passed = {}
    BY DEF Init, Passed
  <2>2. Cardinality(Passed) = 0
    BY <2>1, FS_EmptySet
  <2>3. Cardinality(Proc) \in Nat /\ Cardinality(Proc) # 0
    BY ProcAssumption, FS_CardinalityType, FS_EmptySet
  <2> QED BY <2>2, <2>3 DEF Init, OverdraftBound, Balance
<1>3. NoLostWakeup
  BY DEF Init, NoLostWakeup
<1> QED BY <1>1, <1>2, <1>3 DEF IInv

\* How each step moves a process into and out of Passed, with what it does to
\* the balance and late: a negative amount leaves the balance as it is.
LEMMA Effects ==
    ASSUME Types, NEW p \in Proc, Choose(p) \/ Run(p)
    PROVE  \/ Passed' \subseteq Passed /\ Balance' \in Int /\ Balance' >= Balance /\ late' = late
           \/ Balance > 0 /\ UNCHANGED <<Balance, late>>
           \/ Passed' = Passed \cup {p} /\ late' = late + 1 /\ Balance' = Balance
           \/ p \in Passed /\ Passed' = Passed \ {p} /\ Balance' = Balance - 1 /\ late' = late
<1> USE DEF Types, Goto, Passed, Balance
<1>1. ASSUME NEW c \in Waits, IoctlWait(p, c)
      PROVE  Passed' \subseteq Passed /\ UNCHANGED <<Balance, late>>
  BY <1>1 DEF IoctlWait
<1>2. ASSUME NEW c \in Wakes, NEW a \in Amounts, IoctlWake(p, c, a)
      PROVE  Passed' \subseteq Passed /\ Balance' \in Int /\ Balance' >= Balance /\ late' = late
  <2>1. a \in Int
    BY AmountsAssumption
  <2> QED BY <1>2, <2>1 DEF IoctlWake
<1>3. CASE Signal(p)
  BY <1>3 DEF Signal
<1>4. CASE TimesOut(p)
  BY <1>4 DEF TimesOut
<1>5. CASE Test(p)
  BY <1>5 DEF Test, Available
<1>6. CASE Prepare(p)
  BY <1>6 DEF Prepare
<1>7. CASE Retest(p)
  BY <1>7 DEF Retest, Available
<1>8. CASE LastTest(p)
  BY <1>8 DEF LastTest, Available, Returns
<1>9. CASE Woken(p)
  BY <1>9 DEF Woken
<1>10. CASE Take(p)
  BY <1>10 DEF Take, Less, Returns
<1>11. CASE Wake(p)
  BY <1>11 DEF Wake, Returns
<1> QED BY <1>1, <1>2, <1>3, <1>4, <1>5, <1>6, <1>7, <1>8, <1>9, <1>10, <1>11 DEF Choose, Run

\* The processes of R are those that wait, and the bound is by their number:
\* OverdraftBound is the case in which any process may wait.
WaitersAmong(R) == \A p \in Proc : pc[p] \in WaitPC \cup {"take"} => p \in R
BoundBy(R) == Balance - Cardinality(Passed) + late >= 1 - Cardinality(R)

\* The bound is preserved: when somebody finds a unit the balance is positive,
\* so at worst all of R are on their way for one unit.
LEMMA BoundStep ==
    ASSUME NEW R, R \subseteq Proc, WaitersAmong(R)', Types, BoundBy(R),
           NEW p \in Proc, Choose(p) \/ Run(p)
    PROVE  BoundBy(R)'
<1>1. /\ Balance \in Int /\ late \in Nat
      /\ Balance - Cardinality(Passed) + late >= 1 - Cardinality(R)
  BY DEF Types, BoundBy, Balance
<1>2. Cardinality(R) \in Nat /\ Cardinality(Passed') <= Cardinality(R)
  <2>1. IsFiniteSet(R) /\ Passed' \subseteq R
    BY ProcAssumption, FS_Subset DEF WaitersAmong, Passed
  <2> QED BY <2>1, FS_Subset, FS_CardinalityType
<1>3. CASE Passed' \subseteq Passed /\ Balance' \in Int /\ Balance' >= Balance /\ late' = late
  <2>1. Cardinality(Passed') <= Cardinality(Passed)
    BY <1>3, PassedFinite, FS_Subset
  <2> QED BY <1>1, <1>2, <1>3, <2>1, PassedFinite, PassedFinitePrime DEF BoundBy
<1>4. CASE Balance > 0 /\ UNCHANGED <<Balance, late>>
  BY <1>1, <1>2, <1>4, PassedFinite, PassedFinitePrime DEF BoundBy
<1>5. CASE Passed' = Passed \cup {p} /\ late' = late + 1 /\ Balance' = Balance
  <2>1. Cardinality(Passed') <= Cardinality(Passed) + 1
    BY <1>5, PassedFinite, FS_AddElement
  <2> QED BY <1>1, <1>2, <1>5, <2>1, PassedFinite, PassedFinitePrime DEF BoundBy
<1>6. CASE p \in Passed /\ Passed' = Passed \ {p} /\ Balance' = Balance - 1 /\ late' = late
  <2>1. Cardinality(Passed') = Cardinality(Passed) - 1
    BY <1>6, PassedFinite, FS_RemoveElement
  <2> QED BY <1>1, <1>2, <1>6, <2>1, PassedFinite, PassedFinitePrime DEF BoundBy
<1> QED BY <1>3, <1>4, <1>5, <1>6, Effects

\* No step loses a wakeup: my_data only grows in a process that goes on to
\* wake, and nobody goes to sleep with a unit in sight.
LEMMA WakeupStep ==
    ASSUME Types, NoLostWakeup, NEW p \in Proc, Choose(p) \/ Run(p)
    PROVE  Types' /\ NoLostWakeup'
<1> USE DEF Types, Goto, NoLostWakeup, Available, WaitPC
<1>1. ASSUME NEW c \in Waits, IoctlWait(p, c) PROVE Types' /\ NoLostWakeup'
  BY <1>1 DEF IoctlWait
<1>2. ASSUME NEW c \in Wakes, NEW a \in Amounts, IoctlWake(p, c, a)
      PROVE  Types' /\ NoLostWakeup'
  <2>1. a \in Int
    BY AmountsAssumption
  <2> QED BY <1>2, <2>1 DEF IoctlWake
<1>3. CASE Signal(p)
  BY <1>3 DEF Signal
<1>4. CASE TimesOut(p)
  BY <1>4 DEF TimesOut, Dequeue
<1>5. CASE Test(p)
  BY <1>5 DEF Test
<1>6. CASE Prepare(p)
  <2>1. /\ shared' \subseteq shared \cup {p} /\ UNCHANGED <<my_data, late, drawn>>
        /\ pc[p] = "prepare" /\ (Goto(p, "last") \/ Goto(p, "retest"))
    BY <1>6 DEF Prepare, Dequeue
  <2> QED BY <2>1
<1>7. CASE Retest(p)
  BY <1>7 DEF Retest, StillEmpty, Dequeue
<1>8. CASE LastTest(p)
  BY <1>8 DEF LastTest, Returns
<1>9. CASE Woken(p)
  BY <1>9 DEF Woken
<1>10. CASE Take(p)
  BY <1>10 DEF Take, Less, Returns
<1>11. CASE Wake(p)
  BY <1>11 DEF Wake, Returns
<1> QED BY <1>1, <1>2, <1>3, <1>4, <1>5, <1>6, <1>7, <1>8, <1>9, <1>10, <1>11 DEF Choose, Run

\* The invariant holds throughout every behaviour of either driver.
THEOREM BlockInvariant == Spec => []IInv
<1>1. IInv /\ [Next]_vars => IInv'
  <2> SUFFICES ASSUME IInv, [Next]_vars PROVE IInv'
    OBVIOUS
  <2>1. CASE Next
    <3>1. PICK p \in Proc : Choose(p) \/ Run(p)
      BY <2>1 DEF Next
    <3>2. Types' /\ NoLostWakeup'
      BY <3>1, WakeupStep DEF IInv
    <3>3. BoundBy(Proc)'
      BY <3>1, BoundStep DEF IInv, WaitersAmong, OverdraftBound, BoundBy
    <3> QED BY <3>2, <3>3 DEF IInv, OverdraftBound, BoundBy
  <2>2. CASE UNCHANGED vars
    BY <2>2 DEF vars, IInv, Types, OverdraftBound, Balance, Passed, NoLostWakeup, Available
  <2> QED BY <2>1, <2>2
<1> QED BY InitInv, <1>1, PTL DEF Spec

\* N processes consume at most N - 1 units more than were brought, and one more
\* for each wait that timed out: for any finite set of processes, commands and
\* amounts, where negative amounts do not count as consumed.
THEOREM OverdraftIsBounded == Spec => []OverdraftBound
<1>1. IInv => OverdraftBound
  BY DEF IInv
<1> QED BY BlockInvariant, <1>1, PTL

\* An ordinary waiter never sleeps on with a unit available and no wake-up under
\* way.
THEOREM NoWakeupIsLost == Spec => []NoLostWakeup
<1>1. IInv => NoLostWakeup
  BY DEF IInv
<1> QED BY BlockInvariant, <1>1, PTL

-----------------------------------------------------------------------------
(* How far ConsumesWhatExists is from the truth: what it takes to consume  *)
(* a unit that is not there.                                               *)

\* Only the processes of R ever issue a waiting command.
Begins(R) == \A p \in Proc : pc[p] = "user" /\ pc'[p] = "test" => p \in R
OnlyWaits(R) == [][Begins(R)]_vars

\* A process begins to wait in its ioctl and in no other step.
LEMMA WaitersStep ==
    ASSUME NEW R, Types, WaitersAmong(R), NEW p \in Proc, Choose(p) \/ Run(p),
           pc[p] = "user" /\ pc'[p] = "test" => p \in R
    PROVE  WaitersAmong(R)'
<1> USE DEF Types, Goto, WaitersAmong, WaitPC
<1>1. ASSUME NEW c \in Waits, IoctlWait(p, c) PROVE WaitersAmong(R)'
  BY <1>1 DEF IoctlWait
<1>2. ASSUME NEW c \in Wakes, NEW a \in Amounts, IoctlWake(p, c, a) PROVE WaitersAmong(R)'
  BY <1>2 DEF IoctlWake
<1>3. CASE Signal(p) \/ TimesOut(p)
  BY <1>3 DEF Signal, TimesOut
<1>4. CASE Test(p) \/ Prepare(p) \/ Retest(p) \/ LastTest(p) \/ Woken(p)
  BY <1>4 DEF Test, Prepare, Retest, LastTest, Woken, Returns
<1>5. CASE Take(p) \/ Wake(p)
  BY <1>5 DEF Take, Wake, Returns
<1> QED BY <1>1, <1>2, <1>3, <1>4, <1>5 DEF Choose, Run

WaitInv(R) == Types /\ NoLostWakeup /\ WaitersAmong(R) /\ BoundBy(R)

\* Nobody waits yet, and R has a member.
LEMMA WaitInvInit ==
    ASSUME NEW R, R \subseteq Proc, R # {}, Init
    PROVE  WaitInv(R)
<1>1. Types /\ NoLostWakeup
  BY InitInv DEF IInv
<1>2. WaitersAmong(R)
  BY DEF Init, WaitersAmong, WaitPC
<1>3. BoundBy(R)
  <2>1. Passed = {}
    BY DEF Init, Passed
  <2>2. Cardinality(R) \in Nat /\ Cardinality(R) # 0 /\ Cardinality(Passed) = 0
    BY <2>1, ProcAssumption, FS_Subset, FS_CardinalityType, FS_EmptySet
  <2> QED BY <2>2 DEF Init, BoundBy, Balance
<1> QED BY <1>1, <1>2, <1>3 DEF WaitInv

\* The bound by the number of waiters is kept as long as nobody else waits.
LEMMA WaitInvStep ==
    ASSUME NEW R, R \subseteq Proc, WaitInv(R), [Next]_vars, [Begins(R)]_vars
    PROVE  WaitInv(R)'
<1> USE DEF WaitInv
<1>1. CASE UNCHANGED vars
  BY <1>1 DEF vars, Types, NoLostWakeup, Available, WaitersAmong, BoundBy, Balance, Passed
<1>2. CASE Next /\ Begins(R)
  <2>1. PICK p \in Proc : Choose(p) \/ Run(p)
    BY <1>2 DEF Next
  <2>2. WaitersAmong(R)'
    BY <1>2, <2>1, WaitersStep DEF Begins
  <2>3. Types' /\ NoLostWakeup'
    BY <2>1, WakeupStep
  <2>4. BoundBy(R)'
    BY <2>1, <2>2, BoundStep
  <2> QED BY <2>2, <2>3, <2>4
<1> QED BY <1>1, <1>2

\* When only the processes of R consume, they consume at most |R| - 1 units more
\* than were brought, and one more for each wait that timed out, however many
\* others write, whatever they pass, and whatever is waited for.
THEOREM OverdraftByWaiters ==
    ASSUME NEW R, R \subseteq Proc, R # {}
    PROVE  Spec /\ OnlyWaits(R) => []BoundBy(R)
<1>1. Init => WaitInv(R)
  BY WaitInvInit
<1>2. WaitInv(R) /\ [Next]_vars /\ [Begins(R)]_vars => WaitInv(R)'
  BY WaitInvStep
<1>3. WaitInv(R) => BoundBy(R)
  BY DEF WaitInv
<1> QED BY <1>1, <1>2, <1>3, PTL DEF Spec, OnlyWaits

\* What simple_block_1_reader reports is true for the only reader, as long as
\* none of its waits timed out: it consumes units that were brought.
THEOREM SoleReaderConsumesWhatExists ==
    ASSUME NEW r \in Proc
    PROVE  Spec /\ OnlyWaits({r}) => [](late = 0 => ConsumesWhatExists)
<1>1. {r} \subseteq Proc /\ {r} # {}
  OBVIOUS
<1>2. Init => WaitInv({r})
  BY <1>1, WaitInvInit
<1>3. WaitInv({r}) /\ [Next]_vars /\ [Begins({r})]_vars => WaitInv({r})'
  BY <1>1, WaitInvStep
<1>4. WaitInv({r}) => (late = 0 => ConsumesWhatExists)
  <2>1. Cardinality({r}) = 1 /\ Cardinality(Passed) \in Nat
    BY FS_Singleton, PassedFinite
  <2> QED BY <2>1 DEF WaitInv, BoundBy, Balance, Types, ConsumesWhatExists
<1> QED BY <1>2, <1>3, <1>4, PTL DEF Spec, OnlyWaits

-----------------------------------------------------------------------------
(* Nobody is stranded when a wake-up brings one unit at most.              *)
(* NobodyStranded itself is not inductive: wake_up may release a process   *)
(* that is awake already.  It is enough to count, for an exclusive waiter, *)
(* the active processes that do not stand in front of it on the queue, and *)
(* for an ordinary one the writers before their wake_up.                   *)

QueueInv ==
    /\ Types /\ shared \subseteq Proc
    /\ excl \in Seq(Proc) /\ NoDup(excl)
    /\ \A p \in Proc : p \in shared \cup Elems(excl) => pc[p] \in {"prepare", "retest", "sleep"}

Wakers == {w \in Proc : pc[w] = "wake"}
Under(j) == Active \ Ahead(excl, j)

SharedInv == \A q \in shared : pc[q] = "sleep" => my_data <= Cardinality(Wakers)
ExclInv ==
    \A j \in 1 .. Len(excl) : pc[excl[j]] = "sleep" => my_data <= Cardinality(Under(j))

StrandInv == QueueInv /\ SharedInv /\ ExclInv

\* What a step of p may do to the exclusive waiters other than p: they stay in
\* their order, and none gets anyone new in front of it.
KeepsOrder(p) ==
    \A j \in 1 .. Len(excl') : excl'[j] # p =>
        \E i \in 1 .. Len(excl) : excl'[j] = excl[i] /\ Ahead(excl', j) \subseteq Ahead(excl, i)

\* A queued process is one of the two lists.
LEMMA QueuedIs == \A p : Queued(p) <=> p \in shared \cup Elems(excl)
<1> QED BY DEF Queued, Elems

\* finish_wait takes p from either list and leaves the rest in order.
LEMMA DequeueEffect ==
    ASSUME QueueInv, NEW p \in Proc, Dequeue(p)
    PROVE  /\ shared' = shared \ {p}
           /\ excl' \in Seq(Proc) /\ NoDup(excl') /\ Elems(excl') = Elems(excl) \ {p}
           /\ KeepsOrder(p)
<1>1. shared' = shared \ {p} /\ excl' = Without(p) /\ excl \in Seq(Proc) /\ NoDup(excl)
  BY DEF Dequeue, QueueInv
<1>2. CASE \E i \in 1 .. Len(excl) : excl[i] = p
  <2> DEFINE k == CHOOSE i \in 1 .. Len(excl) : excl[i] = p
  <2>1. k \in 1 .. Len(excl) /\ excl[k] = p
    BY <1>2
  <2>2. excl' = [i \in 1 .. Len(excl) - 1 |-> IF i < k THEN excl[i] ELSE excl[i + 1]]
    BY <1>1, <1>2 DEF Without
  <2> HIDE DEF k
  <2>3. excl' \in Seq(Proc) /\ TakenOut(excl, excl', k)
    <3>1. Len(excl) - 1 \in Nat /\ \A i \in 1 .. Len(excl) : excl[i] \in Proc
      BY <1>1, <2>1, ElementOfSeq, LenProperties
    <3>2. excl' \in [1 .. Len(excl) - 1 -> Proc]
      BY <2>1, <2>2, <3>1
    <3> DEFINE n == Len(excl) - 1
    <3>3. n \in Nat /\ excl' \in [1 .. n -> Proc]
      BY <3>1, <3>2
    <3>4. \A i \in 1 .. n : excl'[i] = IF i < k THEN excl[i] ELSE excl[i + 1]
      BY <2>2
    <3> HIDE DEF n
    <3>5. excl' \in Seq(Proc) /\ Len(excl') = n
      BY <3>3, FunctionIsSeq
    <3> QED BY <2>1, <3>4, <3>5 DEF TakenOut, n
  <2>4. LosesOnly(excl, excl', excl[k])
    BY <1>1, <2>1, <2>3, RemoveKeepsOrder
  <2> QED BY <1>1, <2>1, <2>3, <2>4 DEF KeepsOrder, LosesOnly
<1>3. CASE ~\E i \in 1 .. Len(excl) : excl[i] = p
  <2>1. excl' = excl
    BY <1>1, <1>3 DEF Without
  <2>2. p \notin Elems(excl)
    BY <1>3 DEF Elems
  <2> QED BY <1>1, <2>1, <2>2 DEF KeepsOrder
<1> QED BY <1>2, <1>3

\* Sets of processes are finite, and their sizes compare.
LEMMA ProcCount ==
    ASSUME NEW S, NEW T, S \subseteq Proc, T \subseteq Proc
    PROVE  /\ Cardinality(S) \in Nat
           /\ S \subseteq T => Cardinality(S) <= Cardinality(T)
           /\ \A p : p \in Proc =>
                /\ S \ {p} \subseteq T => Cardinality(S) <= Cardinality(T) + 1
                /\ p \notin S /\ p \in T /\ S \subseteq T => Cardinality(S) + 1 <= Cardinality(T)
<1>1. IsFiniteSet(S) /\ IsFiniteSet(T)
  BY ProcAssumption, FS_Subset
<1>2. Cardinality(S) \in Nat /\ Cardinality(T) \in Nat
  BY <1>1, FS_CardinalityType
<1>3. ASSUME NEW p \in Proc, S \ {p} \subseteq T PROVE Cardinality(S) <= Cardinality(T) + 1
  <2>1. S \subseteq T \cup {p} /\ IsFiniteSet(T \cup {p}) /\ Cardinality(T \cup {p}) \in Nat
        /\ Cardinality(T \cup {p}) <= Cardinality(T) + 1
    <3>1. S \subseteq T \cup {p}
      BY <1>3
    <3>2. CASE p \in T
      <4>1. T \cup {p} = T
        BY <3>2
      <4> QED BY <1>1, <1>2, <3>1, <4>1
    <3>3. CASE p \notin T
      <4>1. IsFiniteSet(T \cup {p}) /\ Cardinality(T \cup {p}) = Cardinality(T) + 1
        BY <1>1, <3>3, FS_AddElement
      <4> QED BY <1>2, <3>1, <4>1
    <3> QED BY <3>2, <3>3
  <2>2. Cardinality(S) <= Cardinality(T \cup {p})
    BY <2>1, FS_Subset
  <2> QED BY <1>2, <2>1, <2>2
<1>4. ASSUME NEW p \in Proc, p \notin S, p \in T, S \subseteq T
      PROVE  Cardinality(S) + 1 <= Cardinality(T)
  <2>1. Cardinality(S \cup {p}) = Cardinality(S) + 1 /\ S \cup {p} \subseteq T
    BY <1>1, <1>4, FS_AddElement
  <2> QED BY <1>1, <2>1, FS_Subset
<1> QED BY <1>1, <1>2, <1>3, <1>4, FS_Subset

\* The counting argument for every step of a process p but its wake_up.
LEMMA StrandCount ==
    ASSUME StrandInv, NEW p \in Proc, QueueInv', KeepsOrder(p),
           shared' \subseteq shared \cup {p}, Elems(excl') \subseteq Elems(excl) \cup {p},
           \A q \in Proc : q # p => pc'[q] = pc[q],
           pc[p] # "wake",
           pc'[p] = "sleep" => my_data' <= 0,
           \/ my_data' <= 0
           \/ my_data' <= my_data /\ (p \in Active => p \in Active')
           \/ my_data' <= my_data - 1
           \/ my_data' <= my_data + 1 /\ p \notin Active /\ p \in Active' /\ pc'[p] = "wake"
    PROVE  StrandInv'
<1>0. my_data \in Int /\ my_data' \in Int /\ shared \subseteq Proc /\ shared' \subseteq Proc
      /\ excl \in Seq(Proc) /\ excl' \in Seq(Proc)
  BY DEF StrandInv, QueueInv, Types
<1>1. \A q \in Proc : q # p /\ q \in Active => q \in Active'
  <2>1. \A q : Queued(q)' <=> q \in shared' \cup Elems(excl')
    BY QueuedIs DEF Queued, Elems
  <2> QED BY <2>1, QueuedIs DEF Active
<1>2. Wakers \subseteq Wakers' /\ Wakers' \subseteq Proc /\ (pc'[p] = "wake" => p \in Wakers')
      /\ p \notin Wakers
  BY DEF Wakers
<1>3. ASSUME NEW q \in shared', pc'[q] = "sleep" PROVE my_data' <= Cardinality(Wakers')
  <2>1. Cardinality(Wakers) \in Nat /\ Cardinality(Wakers') \in Nat
        /\ Cardinality(Wakers) <= Cardinality(Wakers')
    BY <1>2, ProcCount
  <2>2. CASE my_data' <= 0
    BY <1>0, <2>1, <2>2
  <2>3. CASE ~(my_data' <= 0)
    <3>1. q # p /\ q \in shared /\ pc[q] = "sleep"
      BY <1>0, <1>3, <2>3
    <3>2. my_data <= Cardinality(Wakers)
      BY <3>1 DEF StrandInv, SharedInv
    <3>3. CASE my_data' <= my_data \/ my_data' <= my_data - 1
      BY <1>0, <2>1, <3>2, <3>3
    <3>4. CASE my_data' <= my_data + 1 /\ pc'[p] = "wake"
      <4>1. Cardinality(Wakers) + 1 <= Cardinality(Wakers')
        BY <1>2, <3>4, ProcCount
      <4> QED BY <1>0, <2>1, <3>2, <3>4, <4>1
    <3> QED BY <2>3, <3>3, <3>4
  <2> QED BY <2>2, <2>3
<1>4. ASSUME NEW j \in 1 .. Len(excl'), pc'[excl'[j]] = "sleep"
      PROVE  my_data' <= Cardinality(Under(j)')
  <2>0. Under(j)' \subseteq Proc
    BY DEF Under, Active
  <2>1. Cardinality(Under(j)') \in Nat
    BY <2>0, ProcCount
  <2>2. CASE my_data' <= 0
    BY <1>0, <2>1, <2>2
  <2>3. CASE ~(my_data' <= 0)
    <3>1. excl'[j] # p
      BY <1>4, <2>3
    <3>2. PICK i \in 1 .. Len(excl) : excl'[j] = excl[i] /\ Ahead(excl', j) \subseteq Ahead(excl, i)
      BY <3>1 DEF KeepsOrder
    <3>3. excl[i] \in Proc
      BY <1>0, ElementOfSeq
    <3>4. my_data <= Cardinality(Under(i))
      BY <1>4, <3>1, <3>2, <3>3 DEF StrandInv, ExclInv
    <3>5. Under(i) \subseteq Proc /\ Under(i) \ {p} \subseteq Under(j)'
      BY <1>1, <3>2 DEF Under, Active
    <3>6. Cardinality(Under(i)) \in Nat
      BY <3>5, ProcCount
    <3>7. CASE my_data' <= my_data /\ (p \in Active => p \in Active')
      <4>1. Under(i) \subseteq Under(j)'
        BY <3>2, <3>5, <3>7 DEF Under
      <4>2. Cardinality(Under(i)) <= Cardinality(Under(j)')
        BY <2>0, <3>5, <4>1, ProcCount
      <4> QED BY <1>0, <2>1, <3>4, <3>6, <3>7, <4>2
    <3>8. CASE my_data' <= my_data - 1
      <4>1. Cardinality(Under(i)) <= Cardinality(Under(j)') + 1
        BY <2>0, <3>5, ProcCount
      <4> QED BY <1>0, <2>1, <3>4, <3>6, <3>8, <4>1
    <3>9. CASE my_data' <= my_data + 1 /\ p \notin Active /\ p \in Active' /\ pc'[p] = "wake"
      <4>1. p \notin Elems(excl')
        BY <3>9 DEF QueueInv
      <4>2. p \notin Ahead(excl', j)
        <5>1. Len(excl') \in Nat
          BY <1>0, LenProperties
        <5> QED BY <4>1, <5>1 DEF Ahead, Elems
      <4>3. p \notin Under(i) /\ p \in Under(j)' /\ Under(i) \subseteq Under(j)'
        BY <3>5, <3>9, <4>2 DEF Under
      <4>4. Cardinality(Under(i)) + 1 <= Cardinality(Under(j)')
        BY <2>0, <3>5, <4>3, ProcCount
      <4> QED BY <1>0, <2>1, <3>4, <3>6, <3>9, <4>4
    <3> QED BY <2>3, <3>7, <3>8, <3>9
  <2> QED BY <2>2, <2>3
<1>5. SharedInv' /\ ExclInv'
  BY <1>3, <1>4 DEF SharedInv, ExclInv
<1> QED BY <1>5 DEF StrandInv

\* wake_up: whoever it releases, asleep or not, now counts for those behind it.
LEMMA StrandWake ==
    ASSUME StrandInv, NEW p \in Proc, Wake(p)
    PROVE  StrandInv'
<1>0. /\ pc[p] = "wake" /\ shared' = {} /\ excl' = StillExcl(cmd[p]) /\ my_data' = my_data
      /\ pc' = [pc EXCEPT ![p] = "user"] /\ late' = late /\ drawn' = drawn
  BY DEF Wake, Returns, Goto
<1>1. /\ Types /\ my_data \in Int /\ excl \in Seq(Proc) /\ NoDup(excl)
      /\ \A q \in Proc : q \in shared \cup Elems(excl) => pc[q] \in {"prepare", "retest", "sleep"}
  BY DEF StrandInv, QueueInv, Types
<1>2. Types'
  BY <1>0, <1>1 DEF Types
<1>3. \A q \in Proc : q # p => pc'[q] = pc[q]
  BY <1>0, <1>1 DEF Types
<1>4. CASE excl' = <<>>
  <2>1. excl' \in Seq(Proc) /\ Len(excl') = 0 /\ NoDup(excl') /\ Elems(excl') = {}
    BY <1>4, EmptySeq DEF NoDup, Elems
  <2>2. QueueInv'
    BY <1>0, <1>2, <2>1 DEF QueueInv
  <2> QED BY <1>0, <2>1, <2>2 DEF StrandInv, SharedInv, ExclInv
<1>5. CASE excl' # <<>>
  <2>1. excl' = Tail(excl) /\ excl # <<>>
    BY <1>0, <1>5 DEF StillExcl
  <2>2. /\ Head(excl) = excl[1] /\ 1 \in 1 .. Len(excl) /\ excl[1] \in Proc
        /\ Tail(excl) \in Seq(Proc) /\ Len(Tail(excl)) = Len(excl) - 1
        /\ \A i \in 1 .. Len(Tail(excl)) : Tail(excl)[i] = excl[i + 1]
    BY <1>1, <2>1, HeadTailProperties, EmptySeq, LenProperties, ElementOfSeq
  <2>3. PICK h \in Proc : h = excl[1] /\ h \in Elems(excl)
    BY <2>2 DEF Elems
  <2>4. /\ excl' \in Seq(Proc) /\ NoDup(excl') /\ Elems(excl') = Elems(excl) \ {h}
        /\ \A j \in 1 .. Len(excl') : \E i \in 1 .. Len(excl) :
              i >= j /\ excl'[j] = excl[i] /\ Ahead(excl', j) \subseteq Ahead(excl, i) \ {h}
    <3>1. excl \in Seq(Proc) /\ NoDup(excl) /\ TakenOut(excl, Tail(excl), 1)
      BY <1>1, <2>2 DEF TakenOut
    <3>2. LosesOnly(excl, Tail(excl), excl[1])
      BY <2>2, <3>1, RemoveKeepsOrder
    <3> QED BY <2>1, <2>2, <2>3, <3>2 DEF LosesOnly
  <2>5. \A q \in Elems(excl) : q # p
    <3>1. Elems(excl) \subseteq Proc
      BY <1>1, ElementOfSeq DEF Elems
    <3> QED BY <1>0, <1>1, <3>1
  <2>6. QueueInv'
    BY <1>0, <1>1, <1>2, <1>3, <2>4, <2>5 DEF QueueInv
  <2>7. ASSUME NEW j \in 1 .. Len(excl'), pc'[excl'[j]] = "sleep"
        PROVE  my_data' <= Cardinality(Under(j)')
    <3>1. PICK i \in 1 .. Len(excl) :
             i >= j /\ excl'[j] = excl[i] /\ Ahead(excl', j) \subseteq Ahead(excl, i) \ {h}
      BY <2>4
    <3>2. excl[i] \in Elems(excl) /\ excl[i] \in Proc /\ excl'[j] \in Elems(excl')
      BY <1>1, <3>1, ElementOfSeq DEF Elems
    <3>3. pc[excl[i]] = "sleep"
      BY <1>3, <2>5, <2>7, <3>1, <3>2
    <3>4. my_data <= Cardinality(Under(i))
      BY <3>3 DEF StrandInv, ExclInv
    <3>5. h \in Ahead(excl, i)
      <4>1. i # 1
        BY <2>3, <2>4, <3>1, <3>2
      <4>2. 1 \in 1 .. i - 1
        BY <4>1
      <4> QED BY <2>3, <4>2 DEF Ahead
    <3>6. h \in Under(j)' /\ h # p /\ h \notin Under(i)
      <4>1. h \notin shared' \cup Elems(excl') /\ pc'[h] # "user"
        <5>1. h \notin Elems(excl')
          BY <2>4
        <5>2. pc'[h] = pc[h] /\ pc[h] \in {"prepare", "retest", "sleep"}
          BY <1>1, <1>3, <2>3, <2>5
        <5> QED BY <1>0, <5>1, <5>2
      <4>2. \A q : Queued(q)' <=> q \in shared' \cup Elems(excl')
        BY QueuedIs DEF Queued, Elems
      <4> QED BY <2>3, <2>5, <3>1, <3>5, <4>1, <4>2 DEF Under, Active
    <3>7. \A q \in Proc : q # p /\ q \in Active => q \in Active'
      <4>1. \A q : Queued(q)' <=> q \in shared' \cup Elems(excl')
        BY QueuedIs DEF Queued, Elems
      <4> QED BY <1>0, <1>3, <2>4, <4>1, QueuedIs DEF Active
    <3>8. Under(i) \subseteq Proc /\ Under(j)' \subseteq Proc /\ Under(i) \ {p} \subseteq Under(j)'
      BY <3>1, <3>7 DEF Under, Active
    <3>9. Under(i) \ {p} \subseteq Proc /\ h \notin Under(i) \ {p}
      BY <3>6, <3>8
    <3>10. Cardinality(Under(i) \ {p}) + 1 <= Cardinality(Under(j)')
      BY <2>2, <3>6, <3>8, <3>9, ProcCount
    <3>11. Cardinality(Under(i)) <= Cardinality(Under(i) \ {p}) + 1
      BY <3>8, <3>9, ProcCount
    <3>12. /\ Cardinality(Under(i)) \in Nat /\ Cardinality(Under(j)') \in Nat
           /\ Cardinality(Under(i) \ {p}) \in Nat
      BY <3>8, <3>9, ProcCount
    <3> QED BY <1>0, <1>1, <3>4, <3>10, <3>11, <3>12
  <2> QED BY <1>0, <2>6, <2>7 DEF StrandInv, SharedInv, ExclInv
<1> QED BY <1>4, <1>5

\* A step that leaves both lists alone.
LEMMA ListsSame ==
    ASSUME QueueInv, NEW p \in Proc, Types', UNCHANGED <<shared, excl>>,
           \A q \in Proc : q # p => pc'[q] = pc[q],
           Queued(p) => pc'[p] \in {"prepare", "retest", "sleep"}
    PROVE  /\ QueueInv' /\ KeepsOrder(p)
           /\ shared' \subseteq shared \cup {p} /\ Elems(excl') \subseteq Elems(excl) \cup {p}
<1> QED BY QueuedIs DEF QueueInv, KeepsOrder

\* A step that takes p off the lists.
LEMMA ListsDequeue ==
    ASSUME QueueInv, NEW p \in Proc, Types', Dequeue(p),
           \A q \in Proc : q # p => pc'[q] = pc[q]
    PROVE  /\ QueueInv' /\ KeepsOrder(p)
           /\ shared' \subseteq shared \cup {p} /\ Elems(excl') \subseteq Elems(excl) \cup {p}
<1> QED BY DequeueEffect DEF QueueInv

\* Whoever queues stands behind all exclusive waiters, or keeps its place.
LEMMA StrandPrepare ==
    ASSUME StrandInv, NEW p \in Proc, Prepare(p), Types'
    PROVE  StrandInv'
<1>0. /\ QueueInv /\ pc[p] = "prepare" /\ my_data' = my_data /\ my_data \in Int
      /\ \A q \in Proc : q # p => pc'[q] = pc[q]
      /\ pc'[p] \in {"last", "retest"}
  BY DEF StrandInv, QueueInv, Types, Prepare, Goto
<1>1. /\ QueueInv' /\ KeepsOrder(p)
      /\ shared' \subseteq shared \cup {p} /\ Elems(excl') \subseteq Elems(excl) \cup {p}
  <2>1. CASE Dequeue(p)
    BY <1>0, <2>1, ListsDequeue
  <2>2. CASE UNCHANGED <<shared, excl>> /\ pc'[p] = "retest"
    BY <1>0, <2>2, ListsSame
  <2>3. CASE ~Queued(p) /\ excl' = Append(excl, p) /\ shared' = shared /\ pc'[p] = "retest"
    <3>1. /\ excl' \in Seq(Proc) /\ Elems(excl') = Elems(excl) \cup {p} /\ NoDup(excl')
      BY <1>0, <2>3, QueuedIs, AppendElems DEF QueueInv
    <3>2. QueueInv'
      BY <1>0, <2>3, <3>1 DEF QueueInv
    <3>3. /\ Len(excl') = Len(excl) + 1 /\ excl'[Len(excl) + 1] = p /\ Len(excl) \in Nat
          /\ \A i \in 1 .. Len(excl) : excl'[i] = excl[i]
      BY <1>0, <2>3, AppendProperties, LenProperties DEF QueueInv
    <3>4. KeepsOrder(p)
      <4>1. ASSUME NEW j \in 1 .. Len(excl'), excl'[j] # p
            PROVE  j \in 1 .. Len(excl) /\ excl'[j] = excl[j] /\ Ahead(excl', j) \subseteq Ahead(excl, j)
        <5>1. j \in 1 .. Len(excl) /\ \A i \in 1 .. j - 1 : i \in 1 .. Len(excl)
          BY <3>3, <4>1
        <5> QED BY <3>3, <5>1 DEF Ahead
      <4> QED BY <4>1 DEF KeepsOrder
    <3> QED BY <2>3, <3>1, <3>2, <3>4
  <2>4. CASE ~Queued(p) /\ shared' = shared \cup {p} /\ excl' = excl /\ pc'[p] = "retest"
    BY <1>0, <2>4 DEF QueueInv, KeepsOrder
  <2> QED BY <1>0, <2>1, <2>2, <2>3, <2>4 DEF Prepare, Goto, QueueInv, Types
<1>2. p \in Active'
  BY <1>0 DEF Active
<1> QED BY <1>0, <1>1, <1>2, StrandCount

\* Every step of a process is one of the cases of StrandCount, or its wake_up.
LEMMA StrandStep ==
    ASSUME StrandInv, Types', \A a \in Amounts : a <= 1, NEW p \in Proc, Choose(p) \/ Run(p)
    PROVE  StrandInv'
<1>0. QueueInv /\ Types /\ my_data \in Int
  BY DEF StrandInv, QueueInv, Types
<1>1. ASSUME NEW c \in Waits, IoctlWait(p, c) PROVE StrandInv'
  <2>1. /\ UNCHANGED <<my_data, shared, excl>> /\ pc[p] = "user" /\ pc'[p] = "test"
        /\ \A q \in Proc : q # p => pc'[q] = pc[q]
    BY <1>0, <1>1 DEF Types, IoctlWait, Goto
  <2>2. ~Queued(p) /\ p \in Active'
    BY <1>0, <2>1, QueuedIs DEF QueueInv, Active
  <2> QED BY <1>0, <2>1, <2>2, ListsSame, StrandCount
<1>2. ASSUME NEW c \in Wakes, NEW a \in Amounts, IoctlWake(p, c, a) PROVE StrandInv'
  <2>1. /\ UNCHANGED <<shared, excl>> /\ my_data' <= my_data + 1 /\ pc[p] = "user" /\ pc'[p] = "wake"
        /\ \A q \in Proc : q # p => pc'[q] = pc[q]
    BY <1>0, <1>2, AmountsAssumption DEF Types, IoctlWake, Goto
  <2>2. ~Queued(p) /\ p \in Active' /\ p \notin Active
    BY <1>0, <2>1, QueuedIs DEF QueueInv, Active
  <2> QED BY <1>0, <2>1, <2>2, ListsSame, StrandCount
<1>3. CASE Signal(p)
  <2>1. UNCHANGED <<my_data, shared, excl, pc, late, drawn>>
    BY <1>3 DEF Signal
  <2> QED BY <1>0, <2>1 DEF StrandInv, QueueInv, SharedInv, ExclInv, Types, Wakers, Under, Active, Queued
<1>4. CASE TimesOut(p)
  <2>1. /\ Dequeue(p) /\ my_data' = my_data /\ pc[p] = "sleep" /\ pc'[p] = "take"
        /\ \A q \in Proc : q # p => pc'[q] = pc[q]
    BY <1>0, <1>4 DEF Types, TimesOut, Goto
  <2>2. p \in Active'
    BY <2>1 DEF Active
  <2> QED BY <1>0, <2>1, <2>2, ListsDequeue, StrandCount
<1>5. CASE Test(p)
  <2>1. /\ UNCHANGED <<my_data, shared, excl>> /\ pc[p] = "test" /\ pc'[p] \in {"take", "prepare"}
        /\ \A q \in Proc : q # p => pc'[q] = pc[q]
    BY <1>0, <1>5 DEF Types, Test, Goto
  <2>2. ~Queued(p) /\ p \in Active'
    BY <1>0, <2>1, QueuedIs DEF QueueInv, Active
  <2> QED BY <1>0, <2>1, <2>2, ListsSame, StrandCount
<1>6. CASE Prepare(p)
  BY <1>6, StrandPrepare
<1>7. CASE Retest(p)
  <2>1. /\ my_data' = my_data /\ pc[p] = "retest" /\ \A q \in Proc : q # p => pc'[q] = pc[q]
    BY <1>0, <1>7 DEF Types, Retest, Goto
  <2>2. CASE Dequeue(p) /\ Goto(p, "take")
    <3>1. pc'[p] = "take"
      BY <1>0, <2>2 DEF Types, Goto
    <3>2. p \in Active'
      BY <3>1 DEF Active
    <3> QED BY <1>0, <2>1, <2>2, <3>1, <3>2, ListsDequeue, StrandCount
  <2>3. CASE StillEmpty /\ Goto(p, "sleep") /\ UNCHANGED <<shared, excl>>
    <3>1. pc'[p] = "sleep" /\ my_data' <= 0
      BY <1>0, <2>1, <2>3 DEF Types, Goto, StillEmpty, Available
    <3> QED BY <1>0, <2>1, <2>3, <3>1, ListsSame, StrandCount
  <2> QED BY <1>7, <2>2, <2>3 DEF Retest
<1>8. CASE LastTest(p)
  <2>1. /\ UNCHANGED <<my_data, shared, excl>> /\ pc[p] = "last"
        /\ \A q \in Proc : q # p => pc'[q] = pc[q]
        /\ pc'[p] = "take" \/ (pc'[p] = "user" /\ my_data' <= 0)
    BY <1>0, <1>8 DEF Types, LastTest, Goto, Returns, Available
  <2>2. ~Queued(p) /\ (pc'[p] = "take" => p \in Active')
    BY <1>0, <2>1, QueuedIs DEF QueueInv, Active
  <2> QED BY <1>0, <2>1, <2>2, ListsSame, StrandCount
<1>9. CASE Woken(p)
  <2>1. /\ UNCHANGED <<my_data, shared, excl>> /\ pc[p] = "sleep" /\ pc'[p] = "prepare"
        /\ \A q \in Proc : q # p => pc'[q] = pc[q]
    BY <1>0, <1>9 DEF Types, Woken, Goto
  <2>2. p \in Active'
    BY <2>1 DEF Active
  <2> QED BY <1>0, <2>1, <2>2, ListsSame, StrandCount
<1>10. CASE Take(p)
  <2>1. /\ UNCHANGED <<shared, excl>> /\ my_data' = my_data - 1 /\ pc[p] = "take" /\ pc'[p] = "user"
        /\ \A q \in Proc : q # p => pc'[q] = pc[q]
    BY <1>0, <1>10 DEF Types, Take, Less, Goto, Returns
  <2>2. ~Queued(p)
    BY <1>0, <2>1, QueuedIs DEF QueueInv
  <2> QED BY <1>0, <2>1, <2>2, ListsSame, StrandCount
<1>11. CASE Wake(p)
  BY <1>11, StrandWake
<1> QED BY <1>1, <1>2, <1>3, <1>4, <1>5, <1>6, <1>7, <1>8, <1>9, <1>10, <1>11 DEF Choose, Run

\* When a wake-up brings one unit at most, no waiter is stranded, not even an
\* exclusive one, of which wake_up releases only the first.
THEOREM NobodyIsStranded ==
    ASSUME \A a \in Amounts : a <= 1
    PROVE  Spec => []NobodyStranded
<1>1. Init => StrandInv
  <2> SUFFICES ASSUME Init PROVE StrandInv
    OBVIOUS
  <2>1. Types /\ shared = {} /\ excl = <<>> /\ Len(<<>>) = 0 /\ <<>> \in Seq(Proc)
    BY EmptySeq DEF Init, Types
  <2>2. QueueInv
    BY <2>1 DEF QueueInv, NoDup, Elems
  <2> QED BY <2>1, <2>2 DEF StrandInv, SharedInv, ExclInv
<1>2. StrandInv /\ IInv /\ IInv' /\ [Next]_vars => StrandInv'
  <2> SUFFICES ASSUME StrandInv, IInv', [Next]_vars PROVE StrandInv'
    OBVIOUS
  <2>1. CASE Next
    BY <2>1, StrandStep DEF Next, IInv
  <2>2. CASE UNCHANGED vars
    BY <2>2 DEF vars, StrandInv, QueueInv, SharedInv, ExclInv, Types, Wakers, Under, Active, Queued
  <2> QED BY <2>1, <2>2
<1>3. StrandInv => NobodyStranded
  <2> SUFFICES ASSUME StrandInv, NEW p \in Proc, pc[p] = "sleep", Queued(p)
               PROVE  my_data <= Cardinality(Active)
    BY DEF NobodyStranded
  <2>1. my_data \in Int /\ excl \in Seq(Proc) /\ Active \subseteq Proc
    BY DEF StrandInv, QueueInv, Types, Active
  <2>2. CASE p \in shared
    <3>1. my_data <= Cardinality(Wakers)
      BY <2>2 DEF StrandInv, SharedInv
    <3>2. Wakers \subseteq Active /\ Wakers \subseteq Proc
      BY DEF Wakers, Active
    <3> QED BY <2>1, <3>1, <3>2, ProcCount
  <2>3. CASE p \in Elems(excl)
    <3>1. PICK j \in 1 .. Len(excl) : excl[j] = p
      BY <2>3 DEF Elems
    <3>2. my_data <= Cardinality(Under(j))
      BY <3>1 DEF StrandInv, ExclInv
    <3>3. Under(j) \subseteq Active /\ Under(j) \subseteq Proc
      BY <2>1 DEF Under
    <3> QED BY <2>1, <3>2, <3>3, ProcCount
  <2> QED BY <2>2, <2>3, QueuedIs
<1> QED BY <1>1, <1>2, <1>3, BlockInvariant, PTL DEF Spec
=============================================================================
