------------------------------- MODULE LabBench -------------------------------
(***************************************************************************)
(* The bench on which the smaller modules of the labs are tried one at a   *)
(* time: they share no state, so looking at each of them alone loses no    *)
(* behaviour of theirs.  A first step chooses the component and from then  *)
(* on only that one moves.  A constant that several of them have stands    *)
(* for the same small set in each.  The PIR lamp (Ch7Pir) is here under    *)
(* its own names, every other component under a prefix.                    *)
(***************************************************************************)
EXTENDS Ch7Pir, FiniteSets

CONSTANTS
    Proc,      \* processes
    Node,      \* heap addresses
    Msg,       \* contents
    PERIOD,    \* period of the polling timer
    MaxPress,  \* bound: presses of the switch per load of a lab11 module
    Loadable,  \* modules loaded on the board together
    BUF_SIZE,  \* of ch11
    WIDTH,     \* bits of a long in ch2
    MaxCalls   \* bound: calls of a ch2 process per load

\* Strings written to ch11: with a newline, too long, empty once trimmed, and
\* with a newline that is not the last character but becomes it when cut.
Input == {<<"a", "newline">>, <<"space", "a", "newline">>, <<"newline">>, <<"a", "newline", "a">>}

\* Operands of the ch2 calculator.
Arg == {1, 3}

\* The names the models have for nobody and nothing, for a CPU without a
\* process, for the handler, for rmmod and for the tasklet are none of the
\* processes, addresses and contents.
ASSUME NamesAssumption ==
    {"none", "null", "idle", "isr", "rmmod", "my_tasklet"} \cap (Proc \cup Node \cup Msg) = {}
ASSUME SizesAssumption ==
    PERIOD \in Nat \ {0} /\ MaxPress \in Nat /\ BUF_SIZE \in Nat \ {0} /\ WIDTH \in Nat
\* Somebody uses the bench.
ASSUME ProcAssumption == Proc # {}

VARIABLES
    which,  \* the component on the bench, "none" at first
    t_step, t_held, t_exit, t_gpio, t_switch, t_cb, t_seen, t_pending, t_left,
    t_caught,
    q_loaded, q_queue, q_heap, q_text, q_my_lock, q_pc, q_node, q_temp,
    w_life, w_my_data, w_live, w_val, w_readers, w_writer, w_pc, w_ptr, w_saw,
    w_late,
    s_life, s_handler, s_depth, s_spinlock, s_list, s_heap, s_pc, s_isr,
    s_overlap,
    d_mod, d_life, d_irq, d_isr, d_wq, d_pending, d_running, d_heap, d_thread,
    d_stop, d_presses, d_late,
    b_at, b_owner, b_handler, b_param, b_spoiled,
    m_leg, m_i, m_j, m_coils, m_rotor,
    p_loaded, p_read_str, p_pc, p_ubuf, p_i, p_count, p_out, p_alone, p_expect,
    c_prog, c_at, c_st, c_left, c_prio, c_queue, c_now, c_fin,
    a_loaded, a_result, a_pc, a_op, a_arg, a_reg, a_calls, a_stored, a_counting

pollVars == <<t_step, t_held, t_exit, t_gpio, t_switch, t_cb, t_seen,
    t_pending, t_left, t_caught>>
queueVars == <<q_loaded, q_queue, q_heap, q_text, q_my_lock, q_pc, q_node,
    q_temp>>
rwlockVars == <<w_life, w_my_data, w_live, w_val, w_readers, w_writer, w_pc,
    w_ptr, w_saw, w_late>>
spinVars == <<s_life, s_handler, s_depth, s_spinlock, s_list, s_heap, s_pc,
    s_isr, s_overlap>>
deferredVars == <<d_mod, d_life, d_irq, d_isr, d_wq, d_pending, d_running,
    d_heap, d_thread, d_stop, d_presses, d_late>>
pinsVars == <<b_at, b_owner, b_handler, b_param, b_spoiled>>
motorVars == <<m_leg, m_i, m_j, m_coils, m_rotor>>
proc11Vars == <<p_loaded, p_read_str, p_pc, p_ubuf, p_i, p_count, p_out,
    p_alone, p_expect>>
schedVars == <<c_prog, c_at, c_st, c_left, c_prio, c_queue, c_now, c_fin>>
calcVars == <<a_loaded, a_result, a_pc, a_op, a_arg, a_reg, a_calls,
    a_stored, a_counting>>

Poll == INSTANCE PollTimer WITH
          step <- t_step, held <- t_held, exit <- t_exit, gpio <- t_gpio,
          switch <- t_switch, cb <- t_cb, seen <- t_seen,
          pending <- t_pending, left <- t_left, caught <- t_caught
Queue == INSTANCE Ch3Queue WITH
          loaded <- q_loaded, queue <- q_queue, heap <- q_heap,
          text <- q_text, my_lock <- q_my_lock, pc <- q_pc, node <- q_node,
          temp <- q_temp
Rwlock == INSTANCE SimpleRwlock WITH
          Addr <- Node, Value <- Msg, life <- w_life, my_data <- w_my_data,
          live <- w_live, val <- w_val, readers <- w_readers,
          writer <- w_writer, pc <- w_pc, ptr <- w_ptr, saw <- w_saw,
          late <- w_late
Spin == INSTANCE SpinInterrupt WITH
          life <- s_life, handler <- s_handler, depth <- s_depth,
          spinlock <- s_spinlock, list <- s_list, heap <- s_heap, pc <- s_pc,
          isr <- s_isr, overlap <- s_overlap
Deferred == INSTANCE DeferredWork WITH
          Item <- Node, mod <- d_mod, life <- d_life, irq <- d_irq,
          isr <- d_isr, wq <- d_wq, pending <- d_pending,
          running <- d_running, heap <- d_heap, thread <- d_thread,
          stop <- d_stop, presses <- d_presses, late <- d_late
Pins == INSTANCE Board WITH
          at <- b_at, owner <- b_owner, handler <- b_handler,
          param <- b_param, spoiled <- b_spoiled
Motor == INSTANCE StepMotor WITH
          leg <- m_leg, i <- m_i, j <- m_j, coils <- m_coils, rotor <- m_rotor
Proc11 == INSTANCE Ch11Proc WITH
          loaded <- p_loaded, read_str <- p_read_str, pc <- p_pc,
          ubuf <- p_ubuf, i <- p_i, count <- p_count, out <- p_out,
          alone <- p_alone, expect <- p_expect
Sched == INSTANCE SchedDemo WITH
          prog <- c_prog, at <- c_at, st <- c_st, left <- c_left,
          prio <- c_prio, queue <- c_queue, now <- c_now, fin <- c_fin
Calc == INSTANCE Ch2Calc WITH
          loaded <- a_loaded, result <- a_result, pc <- a_pc, op <- a_op,
          arg <- a_arg, reg <- a_reg, calls <- a_calls, stored <- a_stored,
          counting <- a_counting

ASSUME LoadableAssumption == Loadable \subseteq Pins!Names

Rest(x) ==
    /\ IF x = "pir" THEN TRUE ELSE UNCHANGED pirVars
    /\ IF x = "poll" THEN TRUE ELSE UNCHANGED pollVars
    /\ IF x = "ch3" THEN TRUE ELSE UNCHANGED queueVars
    /\ IF x = "rwlock" THEN TRUE ELSE UNCHANGED rwlockVars
    /\ IF x = "spin" THEN TRUE ELSE UNCHANGED spinVars
    /\ IF x = "defer" THEN TRUE ELSE UNCHANGED deferredVars
    /\ IF x = "board" THEN TRUE ELSE UNCHANGED pinsVars
    /\ IF x = "motor" THEN TRUE ELSE UNCHANGED motorVars
    /\ IF x = "proc" THEN TRUE ELSE UNCHANGED proc11Vars
    /\ IF x = "sched" THEN TRUE ELSE UNCHANGED schedVars
    /\ IF x = "calc" THEN TRUE ELSE UNCHANGED calcVars

vars ==
    <<which, pirVars, pollVars, queueVars, rwlockVars, spinVars, deferredVars, pinsVars,
      motorVars, proc11Vars, schedVars, calcVars>>

Init ==
    /\ which = "none"
    /\ t_gpio = 0 /\ t_switch = 0   \* one of PollTimer's four beginnings
    /\ PirInit
    /\ Poll!Init /\ Queue!Init /\ Rwlock!Init /\ Spin!Init /\ Deferred!Init
    /\ Pins!Init /\ Motor!Init /\ Proc11!Init /\ Sched!Init /\ Calc!Init

Component == {"pir", "poll", "ch3", "rwlock", "spin", "defer", "board", "motor", "proc", "sched", "calc"}

\* That the LED of ch7 is lit before its module comes concerns nobody else.
Choose ==
    /\ which = "none"
    /\ which' \in IF gpio = 1 THEN {"pir"} ELSE Component
    /\ Rest("none")

\* A step of the component x.
Step(x, A) == which = x /\ A /\ Rest(x) /\ UNCHANGED which

Next ==
    \/ Choose
    \/ Step("pir", PirNext)
    \/ Step("poll", Poll!Next)
    \/ Step("ch3", Queue!Next)
    \/ Step("rwlock", Rwlock!Next)
    \/ Step("spin", Spin!Next)
    \/ Step("defer", Deferred!Next)
    \/ Step("board", Pins!Next)
    \/ Step("motor", Motor!Next)
    \/ Step("proc", Proc11!Next)
    \/ Step("sched", Sched!Next)
    \/ Step("calc", Calc!Next)

\* Time passes and expired timers are served (ch6, ch7); handlers, softirqs,
\* workers and threads get a CPU, an exit function whose wait is over goes on
\* (ch7, lab11), and the spinlock of ch7 reaches both of its users.
Fairness ==
    /\ WF_vars(Step("pir", Tick)) /\ WF_vars(Step("pir", ExitRun))
    /\ WF_vars(Step("pir", IrqRun)) /\ SF_vars(Step("pir", IrqLock))
    /\ WF_vars(Step("pir", TimerRun)) /\ SF_vars(Step("pir", TimerLock))
    /\ WF_vars(Step("poll", Poll!Tick)) /\ WF_vars(Step("poll", Poll!Callback))
    /\ WF_vars(Step("defer", Deferred!Isr)) /\ WF_vars(Step("defer", Deferred!Deferred))
    /\ WF_vars(Step("defer", Deferred!KthreadFunc)) /\ WF_vars(Step("defer", Deferred!ExitCall))

Spec == Init /\ [][Next]_vars /\ Fairness

-----------------------------------------------------------------------------
(* Properties: those of the components, which state and explain them; those *)
(* of the PIR lamp are at hand already.                                     *)

\* ch6_exit: timer and callback outlive the module only if del_timer met the
\* callback at work.
OutlivesOnlyIfCaught == Poll!OutlivesOnlyIfCaught
\* ch6_timer_func: the LED comes to follow a switch at rest.
LedFollowsSwitch == Poll!LedFollowsSwitch
\* ch3: every node is listed or in one pair of hands, and freed once.
HeapExact == Queue!HeapExact
\* ch3: concurrent reads and writes behave like a queue.
ImplementsFifo == Queue!ImplementsFifo
\* simple_rwlock.c: no reader follows a freed word, none is lost or freed twice.
WordSafe == Rwlock!WordSafe
\* spin_interrupt_isr never spins on a lock held underneath it.
NoSelfDeadlock == Spin!NoSelfDeadlock
\* spin_interrupt_open and _release: the line listens only for an open file.
ListensExactlyWhileOpen == Spin!ListensExactlyWhileOpen
\* spin_interrupt.c: the list is never walked while it is linked, nor leaked.
ListExact == Spin!ListExact
\* lab11: what the exit functions leave behind.
NothingSurvivesExit == Deferred!NothingSurvivesExit
\* lab11: every wait of the exit functions ends.
RmmodReturns == Deferred!RmmodReturns
\* init and exit of all pin users: careful modules do not disturb each other.
OwnsWhatItUses == Pins!OwnsWhatItUses
\* moveDegree: the angles add up.
ReachesAngle == Motor!ReachesAngle
\* proc_info_show and proc_info_write stay inside read_str.
ScanStaysInside == Proc11!ScanStaysInside
\* proc_info_show prints what proc_info_write was given.
ShowsWhatWasWritten == Proc11!ShowsWhatWasWritten
\* lab14: when the processes of the four programs end.
FinishTimes == Sched!FinishTimes
\* ch2_ioctl: what an unlocked += can lose at most.
UpdatesSurvive == Calc!UpdatesSurvive
=============================================================================
