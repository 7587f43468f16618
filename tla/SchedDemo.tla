------------------------------ MODULE SchedDemo ------------------------------
(***************************************************************************)
(* lab14: sched_fifo.c, sched_rr.c, sched_deadline.c and sched_ext.c, four *)
(* programs that choose a scheduling policy, fork and burn CPU time.  The  *)
(* scheduler of CPU 0 is external: strict priorities with first-in         *)
(* first-out among equals, rotation after each slice for SCHED_RR, one     *)
(* reservation per period for SCHED_DEADLINE (whose tasks may not fork),   *)
(* any choice at all for SCHED_EXT.  Other load and the throttling of      *)
(* real-time tasks are left out.                                           *)
(*                                                                         *)
(* A tick is a second for fifo and ext, a slice of 100 ms for rr and 2 ms  *)
(* for deadline.  System calls take no time; delay() counts CPU time, and  *)
(* so takes ticks only while its process runs.                             *)
(***************************************************************************)
EXTENDS Integers, Sequences, FiniteSets

Task == {"parent", "child", "grandchild"}
None == "none"
Low == 1
High == 99

Checked == <<"sched_setaffinity", "sched_getattr", "sched_setattr", "sched_getscheduler">>

\* A main() each: the calls whose failure ends it, what each process sleeps
\* and burns, and what a child does first.
SchedFifo ==
    [calls |-> Checked, forks |-> TRUE, first |-> "sched_setattr",
     parent |-> [sleep |-> 1, work |-> 3], child |-> [sleep |-> 2, work |-> 3]]
SchedRr ==
    [calls |-> Checked, forks |-> TRUE, first |-> "fork",
     parent |-> [sleep |-> 0, work |-> 30], child |-> [sleep |-> 0, work |-> 30]]
SchedDeadline ==
    [calls |-> Tail(Checked), forks |-> FALSE, first |-> "none",
     parent |-> [sleep |-> 0, work |-> 50], child |-> [sleep |-> 0, work |-> 50]]
SchedExt ==
    [calls |-> Checked, forks |-> TRUE, first |-> "sched_setattr",
     parent |-> [sleep |-> 0, work |-> 2], child |-> [sleep |-> 0, work |-> 2]]

Program == [fifo |-> SchedFifo, rr |-> SchedRr, deadline |-> SchedDeadline, ext |-> SchedExt]

\* sched_runtime and sched_period in ticks.
Runtime == 1
Period == 5

VARIABLES
    prog,   \* the program running
    at,     \* next of its calls; 0: none runs; beyond the calls: fork, then delay
    st,     \* per process: "none", "new", "sleep", "ready", "done", "failed"
    left,   \* per process: ticks of sleep or of delay() left
    prio,   \* per process: sched_priority
    queue,  \* processes that want the CPU, in the order they came to want it
    now,    \* ticks since the fork
    fin     \* per process: when it ended

procVars == <<st, left, prio, queue, now, fin>>
vars == <<prog, at, procVars>>

Init ==
    /\ prog = "fifo" /\ at = 0
    /\ st = [p \in Task |-> "none"]
    /\ left = [p \in Task |-> 0] /\ fin = [p \in Task |-> 0]
    /\ prio = [p \in Task |-> Low]
    /\ queue = <<>> /\ now = 0

Calls == Len(Program[prog].calls)
Forking == Calls + 1
Running == Calls + 2
Alive == {p \in Task : st[p] \in {"new", "sleep", "ready"}}

Begin ==
    /\ at = 0 \/ (at = Running /\ Alive = {})
    /\ prog' \in DOMAIN Program
    /\ at' = 1
    /\ st' = [p \in Task |-> "none"]
    /\ left' = [p \in Task |-> 0] /\ fin' = [p \in Task |-> 0]
    /\ prio' = [p \in Task |-> Low]
    /\ queue' = <<>> /\ now' = 0

\* The checked calls; a failure is exit(1).
Call ==
    /\ at \in 1 .. Calls
    /\ at' \in {0, at + 1}
    /\ UNCHANGED <<prog, procVars>>

\* fork(), which gives -1 to the parent's branch when it fails.
Fork ==
    /\ at = Forking
    /\ at' = Running
    /\ \E forked \in {FALSE, Program[prog].forks} :
         LET t == Program[prog].parent
             asleep == t.sleep > 0
         IN  /\ st' = [st EXCEPT !["parent"] = IF asleep THEN "sleep" ELSE "ready",
                                 !["child"] = IF forked THEN "new" ELSE "none"]
             /\ left' = [left EXCEPT !["parent"] = IF asleep THEN t.sleep ELSE t.work]
             /\ queue' = (IF asleep THEN <<>> ELSE <<"parent">>)
                         \o (IF forked THEN <<"child">> ELSE <<>>)
    /\ UNCHANGED <<prog, prio, now, fin>>

\* Whom the scheduler may run; a reservation used up lasts until its period ends.
Throttled == prog = "deadline" /\ now % Period >= Runtime
Chosen ==
    {queue[k] : k \in {k \in 1 .. Len(queue) :
        /\ ~Throttled
        /\ prog # "ext" =>
             /\ \A m \in 1 .. Len(queue) : prio[queue[m]] <= prio[queue[k]]
             /\ \A m \in 1 .. k - 1 : prio[queue[m]] < prio[queue[k]]}}

\* queue without p, which stands there once.
Without(p) ==
    LET k == CHOOSE k \in 1 .. Len(queue) : queue[k] = p
    IN  [m \in 1 .. Len(queue) - 1 |-> IF m < k THEN queue[m] ELSE queue[m + 1]]

\* The child's sched_priority.
ChildPriority == IF prog = "fifo" THEN High ELSE Low

\* A new process in its first moment on the CPU: the child's sched_setattr, or
\* the second fork of sched_rr.c.
FirstTurn(p) ==
    LET t == Program[prog].child
        first == IF p = "child" THEN Program[prog].first ELSE "none"
        enter(s) == IF t.sleep > 0 THEN [s EXCEPT ![p] = "sleep"] ELSE [s EXCEPT ![p] = "ready"]
    IN  /\ at = Running /\ st[p] = "new" /\ p \in Chosen
        /\ \/ /\ first = "sched_setattr"
              /\ st' = [st EXCEPT ![p] = "failed"] /\ queue' = Without(p)
              /\ UNCHANGED <<left, prio>>
           \/ /\ left' = [left EXCEPT ![p] = IF t.sleep > 0 THEN t.sleep ELSE t.work]
              /\ prio' = [prio EXCEPT ![p] = IF first = "sched_setattr" THEN ChildPriority ELSE @]
              /\ \/ /\ st' = enter(st)
                    /\ queue' = (IF t.sleep > 0 THEN Without(p) ELSE queue)
                 \/ /\ first = "fork"
                    /\ st' = [enter(st) EXCEPT !["grandchild"] = "new"]
                    /\ queue' = Append(queue, "grandchild")
        /\ UNCHANGED <<prog, at, now, fin>>

\* clock() in delay(): who gets nearer to its end in a tick that p runs.
\* A seeded fault: it counts the wall's time.
Mut_Burns(p) == {q \in Task : st[q] = "ready"}
Burns(p) == {p}

\* One tick, which p, or nobody, runs.
Tick(p) ==
    LET burnt == {q \in Task : q \in Burns(p) /\ st[q] = "ready"}
        over == {q \in burnt : left[q] = 1}
        woken == {q \in Task : st[q] = "sleep" /\ left[q] = 1}
        stay == IF p \in over THEN Without(p) ELSE queue
        turned == IF prog = "rr" /\ p \notin over /\ stay # <<>> THEN Append(Tail(stay), p) ELSE stay
        work(q) == Program[prog][IF q = "parent" THEN "parent" ELSE "child"].work
    IN  /\ at = Running
        /\ st' = [q \in Task |-> IF q \in over THEN "done"
                                 ELSE IF q \in woken THEN "ready" ELSE st[q]]
        /\ left' = [q \in Task |-> IF q \in woken THEN work(q)
                                   ELSE IF q \in burnt \/ st[q] = "sleep" THEN left[q] - 1 ELSE left[q]]
        /\ fin' = [q \in Task |-> IF q \in over THEN now + 1 ELSE fin[q]]
        /\ \E w \in {s \in [1 .. Cardinality(woken) -> woken] : {s[k] : k \in DOMAIN s} = woken} :
              queue' = turned \o w
        /\ now' = now + 1
        /\ UNCHANGED <<prog, at, prio>>

RunTick == \E p \in Chosen : st[p] = "ready" /\ Tick(p)
IdleTick == Alive # {} /\ Chosen = {} /\ Tick(None)

Next == Begin \/ Call \/ Fork \/ (\E p \in Task : FirstTurn(p)) \/ RunTick \/ IdleTick

Spec == Init /\ [][Next]_vars

-----------------------------------------------------------------------------
(* Properties. *)

\* When every process has ended, the times are those the four programs are
\* written to show: under SCHED_FIFO the parent, though awake first, pays for
\* the child's whole delay; under SCHED_RR nobody ends more than one round before the last;
\* under SCHED_DEADLINE 100 ms of work take 49 periods and a reservation;
\* under SCHED_EXT the work adds up, in whatever order.
FinishTimes ==
    at = Running /\ Alive = {} =>
      LET done == {p \in Task : st[p] = "done"}
          n == Cardinality(done)
      IN  CASE prog = "fifo" -> IF n = 2 THEN fin["child"] = 5 /\ fin["parent"] = 7
                                         ELSE fin["parent"] = 4
            [] prog = "rr" -> \A p \in done : fin[p] \in 30 * n - n .. 30 * n
            [] prog = "deadline" -> n = 1 /\ fin["parent"] = 49 * Period + Runtime
            [] prog = "ext" -> now = 2 * n /\ \A p \in done : fin[p] >= 2
=============================================================================
