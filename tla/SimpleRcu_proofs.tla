---------------------------- MODULE SimpleRcu_proofs ----------------------------
(***************************************************************************)
(* SimpleRcu with at most one writer, which is how the exercise uses the   *)
(* driver: the RCU protocol of simple_rcu.c is safe for any number of      *)
(* readers, addresses and values.  With two writers it is not.             *)
(***************************************************************************)
EXTENDS SimpleRcu, TLAPS

OneWriter == \A v, w \in Writer : v = w

\* Reader r has dereferenced the published pointer.
Follows(r) == rpc[r] \in {"load", "again", "unlock"}

\* The writer's two words: the new one is allocated and unpublished, the old
\* one is the published word until rcu_assign_pointer and allocated until kfree.
WriterInv ==
    \A w \in Writer :
        /\ wpc[w] \in {"old", "assign"} => new[w] \in live /\ new[w] # my_data
        /\ wpc[w] \notin {"old", "assign"} => new[w] = NULL
        /\ wpc[w] = "assign" => old[w] = my_data
        /\ wpc[w] \in {"sync", "wait", "free"} => old[w] \in live /\ old[w] # my_data
        /\ wpc[w] \in {"idle", "old"} => old[w] = NULL

\* The published word is allocated, and there is one while anybody is in a call.
LoadInv == IF my_data = NULL THEN Quiet /\ live = {} ELSE my_data \in live

\* A reader follows the published word, or the old word of a writer whose
\* grace period has not begun or still waits for that reader.
ReaderInv ==
    \A r \in Reader : Follows(r) =>
        \/ ptr[r] = my_data
        \/ \E w \in Writer :
              /\ ptr[r] = old[w]
              /\ wpc[w] = "sync" \/ (wpc[w] = "wait" /\ r \in grace[w])

\* The value printed first is still the content of the word.
SawInv == \A r \in Reader : rpc[r] = "again" => saw[r] = val[ptr[r]]

IInv == TypeOK /\ WriterInv /\ LoadInv /\ ReaderInv /\ SawInv /\ HeapExact

\* The invariant keeps readers on allocated memory.
LEMMA InvImpliesSafe == IInv => ReaderSafe
<1> SUFFICES ASSUME IInv, NEW r \in Reader, Follows(r) PROVE ptr[r] \in live
  BY DEF ReaderSafe, Follows
<1>1. my_data \in live
  BY DEF IInv, LoadInv, Quiet, Follows
<1> QED BY <1>1 DEF IInv, ReaderInv, WriterInv

\* Init establishes the inductive invariant.
LEMMA InitInv == Init => IInv
<1> SUFFICES ASSUME Init PROVE IInv
  OBVIOUS
<1>1. TypeOK
  BY DEF Init, TypeOK
<1>2. HeapExact
  BY DEF Init, HeapExact
<1>3. WriterInv /\ LoadInv /\ ReaderInv /\ SawInv
  BY DEF Init, WriterInv, LoadInv, Quiet, ReaderInv, Follows, SawInv
<1> QED BY <1>1, <1>2, <1>3 DEF IInv

\* Loading and unloading preserve it: nobody is in a call.
LEMMA LoadStepInv == ASSUME IInv, Load \/ Unload PROVE IInv'
<1>0. TypeOK /\ WriterInv /\ LoadInv /\ ReaderInv /\ SawInv /\ HeapExact
  BY DEF IInv
<1>1. UNCHANGED <<readVars, writeVars, grace>> /\ Quiet
  BY <1>0 DEF Load, Unload, LoadInv
<1>2. /\ my_data' \in Addr \cup {NULL} /\ live' \subseteq Addr
      /\ val' \in [Addr -> Value \cup {NULL}]
  BY <1>0 DEF Load, Unload, TypeOK
<1>3. TypeOK'
  BY <1>0, <1>1, <1>2 DEF TypeOK, readVars, writeVars
<1>4. \A w \in Writer : new[w] = NULL /\ old[w] = NULL /\ wpc[w] = "idle"
  BY <1>0, <1>1 DEF Quiet, WriterInv
<1>5. live' = {my_data'} \ {NULL}
  <2>1. {new[w] : w \in Writer} \subseteq {NULL} /\ {old[w] : w \in Writer} \subseteq {NULL}
    BY <1>4
  <2>2. live = {my_data} \ {NULL}
    BY <1>0, <2>1 DEF HeapExact
  <2> QED BY <2>2, NullAssumption DEF Load, Unload
<1>6. HeapExact'
  <2>1. {new'[w] : w \in Writer} \subseteq {NULL} /\ {old'[w] : w \in Writer} \subseteq {NULL}
    BY <1>1, <1>4 DEF writeVars
  <2> QED BY <1>5, <2>1 DEF HeapExact
<1>7. WriterInv' /\ ReaderInv' /\ SawInv'
  BY <1>0, <1>1, <1>4 DEF WriterInv, ReaderInv, SawInv, Follows, Quiet, readVars, writeVars
<1>8. LoadInv'
  BY <1>1, <1>5 DEF LoadInv, Quiet, readVars, writeVars
<1> QED BY <1>3, <1>6, <1>7, <1>8 DEF IInv

\* Readers preserve it.
LEMMA ReadStepInv ==
    ASSUME IInv, NEW r \in Reader, ReadLock(r) \/ ReadStep(r)
    PROVE  IInv'
<1>0. TypeOK /\ WriterInv /\ LoadInv /\ ReaderInv /\ SawInv /\ HeapExact
  BY DEF IInv
<1>1. UNCHANGED <<my_data, live, val, wpc, new, old>>
  BY DEF ReadLock, ReadStep, Deref, FirstLoad, SecondLoad, ReadUnlock, writeVars
<1>2. my_data # NULL
  BY <1>0 DEF LoadInv, Quiet, ReadLock, ReadStep, Deref, FirstLoad, SecondLoad, ReadUnlock
<1>3. WriterInv' /\ HeapExact' /\ LoadInv'
  BY <1>0, <1>1, <1>2 DEF WriterInv, HeapExact, LoadInv
<1>4. CASE ReadLock(r)
  <2>1. TypeOK'
    BY <1>0, <1>4 DEF ReadLock, RGoto, TypeOK, Section, writeVars
  <2>2. ReaderInv' /\ SawInv'
    BY <1>0, <1>1, <1>4 DEF ReadLock, RGoto, TypeOK, ReaderInv, SawInv, Follows
  <2> QED BY <1>3, <2>1, <2>2 DEF IInv
<1>5. CASE Deref(r)
  <2>1. TypeOK'
    BY <1>0, <1>5 DEF Deref, RGoto, TypeOK, Section, writeVars
  <2>2. ReaderInv' /\ SawInv'
    BY <1>0, <1>1, <1>5 DEF Deref, RGoto, TypeOK, ReaderInv, SawInv, Follows
  <2> QED BY <1>3, <2>1, <2>2 DEF IInv
<1>6. ASSUME Follows(r) PROVE ptr[r] \in Addr
  BY <1>0, <1>6, InvImpliesSafe DEF IInv, ReaderSafe, Follows, TypeOK
<1>7. CASE FirstLoad(r)
  <2>0. ptr[r] \in Addr
    BY <1>6, <1>7 DEF FirstLoad, Follows
  <2>1. TypeOK'
    BY <1>0, <1>7, <2>0 DEF FirstLoad, RGoto, TypeOK, Section, writeVars
  <2>2. ReaderInv' /\ SawInv'
    BY <1>0, <1>1, <1>7 DEF FirstLoad, RGoto, TypeOK, ReaderInv, SawInv, Follows
  <2> QED BY <1>3, <2>1, <2>2 DEF IInv
<1>8. CASE SecondLoad(r)
  <2>0. ptr[r] \in Addr
    BY <1>6, <1>8 DEF SecondLoad, Follows
  <2>1. TypeOK'
    BY <1>0, <1>8, <2>0 DEF SecondLoad, RGoto, TypeOK, Section, writeVars
  <2>2. ReaderInv' /\ SawInv'
    BY <1>0, <1>1, <1>8 DEF SecondLoad, RGoto, TypeOK, ReaderInv, SawInv, Follows
  <2> QED BY <1>3, <2>1, <2>2 DEF IInv
<1>9. CASE ReadUnlock(r)
  <2>1. TypeOK'
    BY <1>0, <1>9 DEF ReadUnlock, RGoto, Quiesce, TypeOK, Section, writeVars
  <2>2. \A w \in Writer : grace'[w] = grace[w] \ {r}
    BY <1>9 DEF ReadUnlock, Quiesce
  <2>3. ReaderInv' /\ SawInv'
    BY <1>0, <1>1, <1>9, <2>2 DEF ReadUnlock, RGoto, TypeOK, ReaderInv, SawInv, Follows
  <2> QED BY <1>3, <2>1, <2>3 DEF IInv
<1> QED BY <1>4, <1>5, <1>7, <1>8, <1>9 DEF ReadStep

\* The writer preserves it, as long as there is only one: nobody else can
\* publish between its old = my_data and its rcu_assign_pointer.
LEMMA WriteStepInv ==
    ASSUME OneWriter, IInv, NEW w \in Writer, Alloc(w) \/ WriteStep(w)
    PROVE  IInv'
<1>0. TypeOK /\ WriterInv /\ LoadInv /\ ReaderInv /\ SawInv /\ HeapExact
  BY DEF IInv
<1>1. Writer = {w}
  BY DEF OneWriter
<1>2. UNCHANGED <<rpc, ptr, saw>>
  BY DEF Alloc, WriteStep, GetOld, Assign, SyncCall, SyncReturn, Free, readVars
<1>3. my_data \in live /\ my_data # NULL /\ my_data \in Addr
  BY <1>0, NullAssumption
     DEF LoadInv, Quiet, TypeOK, Alloc, WriteStep, GetOld, Assign, SyncCall, SyncReturn, Free
<1>4. live = {my_data, new[w], old[w]} \ {NULL}
  <2>1. {new[v] : v \in Writer} = {new[w]} /\ {old[v] : v \in Writer} = {old[w]}
    BY <1>1
  <2> QED BY <1>0, <2>1 DEF HeapExact
<1>5. ASSUME live' = {my_data', new'[w], old'[w]} \ {NULL} PROVE HeapExact'
  <2>1. {new'[v] : v \in Writer} = {new'[w]} /\ {old'[v] : v \in Writer} = {old'[w]}
    BY <1>1
  <2> QED BY <1>5, <2>1 DEF HeapExact
<1>6. new \in [Writer -> Addr \cup {NULL}] /\ old \in [Writer -> Addr \cup {NULL}]
  BY <1>0 DEF TypeOK
<1>7. CASE Alloc(w)
  <2>1. PICK a \in Addr \ live, v \in Value :
            /\ live' = live \cup {a}
            /\ val' = [val EXCEPT ![a] = v]
            /\ new' = [new EXCEPT ![w] = a]
    BY <1>7 DEF Alloc
  <2>2. /\ wpc[w] = "idle" /\ wpc' = [wpc EXCEPT ![w] = "old"]
        /\ UNCHANGED <<my_data, rpc, ptr, saw, old, grace>>
    BY <1>7 DEF Alloc, WGoto, readVars
  <2>3. TypeOK'
    BY <1>0, <2>1, <2>2 DEF TypeOK
  <2>4. WriterInv'
    BY <1>0, <1>1, <1>3, <2>1, <2>2 DEF WriterInv, TypeOK
  <2>5. LoadInv'
    BY <1>3, <2>1, <2>2 DEF LoadInv
  <2>6. ReaderInv'
    BY <1>0, <1>1, <2>2 DEF ReaderInv, Follows, WriterInv, TypeOK
  <2>7. SawInv'
    BY <1>0, <2>1, <2>2, InvImpliesSafe DEF SawInv, ReaderSafe, TypeOK
  <2>8. live' = {my_data', new'[w], old'[w]} \ {NULL}
    BY <1>0, <1>4, <1>6, <2>1, <2>2, NullAssumption DEF WriterInv
  <2> QED BY <1>5, <2>3, <2>4, <2>5, <2>6, <2>7, <2>8 DEF IInv
<1>8. CASE GetOld(w)
  <2>1. /\ wpc[w] = "old" /\ wpc' = [wpc EXCEPT ![w] = "assign"]
        /\ old' = [old EXCEPT ![w] = my_data]
        /\ UNCHANGED <<my_data, live, val, rpc, ptr, saw, new, grace>>
    BY <1>8 DEF GetOld, WGoto, readVars
  <2>2. TypeOK'
    BY <1>0, <1>6, <2>1 DEF TypeOK
  <2>3. WriterInv'
    BY <1>0, <1>1, <1>3, <2>1 DEF WriterInv, TypeOK
  <2>4. LoadInv'
    BY <1>0, <1>3, <2>1 DEF LoadInv, WriterInv, TypeOK
  <2>5. ReaderInv'
    BY <1>0, <1>1, <2>1 DEF ReaderInv, Follows, WriterInv, TypeOK
  <2>6. SawInv'
    BY <1>0, <2>1 DEF SawInv
  <2>7. live' = {my_data', new'[w], old'[w]} \ {NULL}
    BY <1>0, <1>3, <1>4, <1>6, <2>1, NullAssumption DEF WriterInv
  <2> QED BY <1>5, <2>2, <2>3, <2>4, <2>5, <2>6, <2>7 DEF IInv
<1>9. CASE Assign(w)
  <2>1. /\ wpc[w] = "assign" /\ wpc' = [wpc EXCEPT ![w] = "sync"]
        /\ my_data' = new[w] /\ new' = [new EXCEPT ![w] = NULL]
        /\ UNCHANGED <<live, val, rpc, ptr, saw, old, grace>>
    BY <1>9 DEF Assign, WGoto, readVars
  <2>2. TypeOK'
    BY <1>0, <1>6, <2>1 DEF TypeOK
  <2>3. WriterInv'
    BY <1>0, <1>1, <1>3, <2>1 DEF WriterInv, TypeOK
  <2>4. LoadInv'
    BY <1>0, <1>3, <2>1, NullAssumption DEF LoadInv, WriterInv, TypeOK
  <2>5. ReaderInv'
    BY <1>0, <1>1, <2>1 DEF ReaderInv, Follows, WriterInv, TypeOK
  <2>6. SawInv'
    BY <1>0, <2>1 DEF SawInv
  <2>7. live' = {my_data', new'[w], old'[w]} \ {NULL}
    BY <1>0, <1>3, <1>4, <1>6, <2>1, NullAssumption DEF WriterInv
  <2> QED BY <1>5, <2>2, <2>3, <2>4, <2>5, <2>6, <2>7 DEF IInv
<1>10. CASE SyncCall(w)
  <2>1. /\ wpc[w] = "sync" /\ wpc' = [wpc EXCEPT ![w] = "wait"]
        /\ grace' = [grace EXCEPT ![w] = OpenSections]
        /\ UNCHANGED <<my_data, live, val, rpc, ptr, saw, new, old>>
    BY <1>10 DEF SyncCall, WGoto, readVars
  <2>2. TypeOK'
    BY <1>0, <1>6, <2>1 DEF TypeOK, OpenSections
  <2>3. WriterInv'
    BY <1>0, <1>1, <1>3, <2>1 DEF WriterInv, TypeOK
  <2>4. LoadInv'
    BY <1>0, <1>3, <2>1 DEF LoadInv, WriterInv, TypeOK
  <2>5. ReaderInv'
    BY <1>0, <1>1, <2>1 DEF ReaderInv, Follows, WriterInv, TypeOK, OpenSections, Section
  <2>6. SawInv'
    BY <1>0, <2>1 DEF SawInv
  <2>7. live' = {my_data', new'[w], old'[w]} \ {NULL}
    BY <1>0, <1>3, <1>4, <1>6, <2>1, NullAssumption DEF WriterInv
  <2> QED BY <1>5, <2>2, <2>3, <2>4, <2>5, <2>6, <2>7 DEF IInv
<1>11. CASE SyncReturn(w)
  <2>1. /\ wpc[w] = "wait" /\ grace[w] = {} /\ wpc' = [wpc EXCEPT ![w] = "free"]
        /\ UNCHANGED <<my_data, live, val, rpc, ptr, saw, new, old, grace>>
    BY <1>11 DEF SyncReturn, WGoto, readVars
  <2>2. TypeOK'
    BY <1>0, <1>6, <2>1 DEF TypeOK
  <2>3. WriterInv'
    BY <1>0, <1>1, <1>3, <2>1 DEF WriterInv, TypeOK
  <2>4. LoadInv'
    BY <1>0, <1>3, <2>1 DEF LoadInv, WriterInv, TypeOK
  <2>5. ReaderInv'
    BY <1>0, <1>1, <2>1 DEF ReaderInv, Follows, WriterInv, TypeOK
  <2>6. SawInv'
    BY <1>0, <2>1 DEF SawInv
  <2>7. live' = {my_data', new'[w], old'[w]} \ {NULL}
    BY <1>0, <1>3, <1>4, <1>6, <2>1, NullAssumption DEF WriterInv
  <2> QED BY <1>5, <2>2, <2>3, <2>4, <2>5, <2>6, <2>7 DEF IInv
<1>12. CASE Free(w)
  <2>1. /\ wpc[w] = "free" /\ wpc' = [wpc EXCEPT ![w] = "idle"]
        /\ live' = live \ {old[w]} /\ old' = [old EXCEPT ![w] = NULL]
        /\ UNCHANGED <<my_data, val, rpc, ptr, saw, new, grace>>
    BY <1>12 DEF Free, Freed, WGoto, readVars
  <2>2. TypeOK'
    BY <1>0, <1>6, <2>1 DEF TypeOK
  <2>3. WriterInv'
    BY <1>0, <1>1, <1>3, <2>1 DEF WriterInv, TypeOK
  <2>4. LoadInv'
    BY <1>0, <1>3, <2>1 DEF LoadInv, WriterInv, TypeOK
  <2>5. ReaderInv'
    BY <1>0, <1>1, <2>1 DEF ReaderInv, Follows, WriterInv, TypeOK
  <2>6. SawInv'
    BY <1>0, <2>1 DEF SawInv
  <2>7. live' = {my_data', new'[w], old'[w]} \ {NULL}
    BY <1>0, <1>3, <1>4, <1>6, <2>1, NullAssumption DEF WriterInv
  <2> QED BY <1>5, <2>2, <2>3, <2>4, <2>5, <2>6, <2>7 DEF IInv
<1> QED BY <1>7, <1>8, <1>9, <1>10, <1>11, <1>12 DEF WriteStep

\* With at most one writer the invariant is preserved by every step.
LEMMA StepInv == OneWriter /\ IInv /\ [Next]_vars => IInv'
<1> SUFFICES ASSUME OneWriter, IInv, [Next]_vars PROVE IInv'
  OBVIOUS
<1>1. CASE Next
  BY <1>1, LoadStepInv, ReadStepInv, WriteStepInv DEF Next
<1>2. CASE UNCHANGED vars
  BY <1>2 DEF IInv, TypeOK, WriterInv, LoadInv, Quiet, ReaderInv, Follows, SawInv, HeapExact,
              vars, readVars, writeVars
<1> QED BY <1>1, <1>2

\* With at most one writer a reader never follows a word that was freed, however
\* long it stays in its section.
THEOREM OneWriterReaderSafe == ASSUME OneWriter PROVE Spec => []ReaderSafe
<1>1. Init => IInv
  BY InitInv
<1>2. IInv /\ [Next]_vars => IInv'
  BY StepInv, OneWriter
<1> QED BY <1>1, <1>2, InvImpliesSafe, PTL DEF Spec

\* With at most one writer every allocated word is published or in the hands of
\* the writer: kfree(old) frees each word once and none is forgotten.
THEOREM OneWriterHeapExact == ASSUME OneWriter PROVE Spec => []HeapExact
<1>1. Init => IInv
  BY InitInv
<1>2. IInv /\ [Next]_vars => IInv'
  BY StepInv, OneWriter
<1>3. IInv => HeapExact
  BY DEF IInv
<1> QED BY <1>1, <1>2, <1>3, PTL DEF Spec

\* With at most one writer both loads of one read, half a second apart, see the
\* same value.
THEOREM OneWriterLoadsAgree == ASSUME OneWriter PROVE Spec => LoadsAgree
<1>1. Init => IInv
  BY InitInv
<1>2. IInv /\ [Next]_vars => IInv'
  BY StepInv, OneWriter
<1>3. IInv /\ [Next]_vars =>
        [\A r \in Reader : rpc[r] = "again" /\ rpc'[r] = "unlock" => saw'[r] = saw[r]]_vars
  <2> SUFFICES ASSUME IInv, Next, NEW r \in Reader, rpc[r] = "again", rpc'[r] = "unlock"
               PROVE  saw'[r] = saw[r]
    OBVIOUS
  <2>1. PICK q \in Reader : ReadLock(q) \/ ReadStep(q)
    BY DEF Next, Load, Unload, Alloc, WriteStep, GetOld, Assign, SyncCall, SyncReturn, Free,
           readVars
  <2>2. SecondLoad(r)
    BY <2>1 DEF ReadLock, ReadStep, Deref, FirstLoad, SecondLoad, ReadUnlock, RGoto, IInv, TypeOK
  <2> QED BY <2>2 DEF SecondLoad, IInv, TypeOK, SawInv
<1> QED BY <1>1, <1>2, <1>3, PTL DEF Spec, LoadsAgree
=================================================================================
