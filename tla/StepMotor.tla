------------------------------ MODULE StepMotor ------------------------------
(***************************************************************************)
(* lab10/ch9, ch9_mod_202111360.c: insmod itself turns a stepping motor    *)
(* through four legs by energising its coils along a table.  The four      *)
(* gpio_set_value calls of setstep are one step here: the rotor only has   *)
(* time to follow the pattern that udelay holds.  The motor is external:   *)
(* coils sit every two of eight half steps, and a rotor turns to the       *)
(* nearest position that one energised coil, or two neighbours, hold.      *)
(***************************************************************************)
EXTENDS Integers, Sequences

STEPS == 8
ONEROUND == 512

\* Index 0 .. STEPS - 1 of the four tables is index 1 .. STEPS here.
blue   == <<1, 1, 0, 0, 0, 0, 0, 1>>
pink   == <<0, 1, 1, 1, 0, 0, 0, 0>>
yellow == <<0, 0, 0, 1, 1, 1, 0, 0>>
orange == <<0, 0, 0, 0, 0, 1, 1, 1>>

Off == <<0, 0, 0, 0>>
Pattern(j) == <<blue[j + 1], pink[j + 1], yellow[j + 1], orange[j + 1]>>

\* The calls of simple_motor_init.
Plan == << [degree |-> 90,  direction |-> 0], [degree |-> 45,  direction |-> 1],
           [degree |-> 45,  direction |-> 1], [degree |-> 180, direction |-> 0] >>

\* target_rounds.  A seeded fault: the division comes first.
Mut_TargetRounds(degree) == (degree \div 360) * ONEROUND
TargetRounds(degree) == (degree * ONEROUND) \div 360

VARIABLES
    leg,    \* 0: not loaded; the call of Plan being made; Len(Plan) + 1: loaded
    i, j,   \* the loop variables of moveDegree
    coils,  \* the four pins
    rotor   \* half steps from the pole the rotor was near when the motor started

vars == <<leg, i, j, coils, rotor>>

Init == leg = 0 /\ i = 0 /\ j = 0 /\ coils = Off /\ rotor = 0

FirstStep(n) == IF n \in 1 .. Len(Plan) /\ Plan[n].direction = 1 THEN STEPS - 1 ELSE 0

\* The rotor rests anywhere between two poles.
Insmod ==
    /\ leg = 0
    /\ leg' = 1 /\ i' = 0 /\ j' = FirstStep(1)
    /\ coils' = Off
    /\ rotor' \in -3 .. 3

\* Where the coils pull: the phases they hold, none or one.
Held(c) ==
    LET on(k) == c[(k % 4) + 1] = 1
    IN  {p \in 0 .. STEPS - 1 :
           \A k \in 0 .. 3 : on(k) <=> 2 * k \in {p, p - 1, p + 1, p - 7} /\ (p % 2 = 0 => 2 * k = p)}

\* The nearest position of a phase; either one when both are equally far.
Nearest(r, phase) ==
    LET ahead == (phase - r) % STEPS
    IN  IF ahead < 4 THEN {r + ahead} ELSE IF ahead = 4 THEN {r - 4, r + 4} ELSE {r + ahead - STEPS}

\* setstep and udelay in the loops of moveDegree.
SetStep ==
    /\ leg \in 1 .. Len(Plan) /\ i < TargetRounds(Plan[leg].degree)
    /\ coils' = Pattern(j)
    /\ IF Held(coils') = {} THEN rotor' = rotor
                            ELSE \E phase \in Held(coils') : rotor' \in Nearest(rotor, phase)
    /\ LET d == IF Plan[leg].direction = 0 THEN 1 ELSE -1
           last == j + d \notin 0 .. STEPS - 1
       IN  /\ j' = (IF last THEN FirstStep(leg) ELSE j + d)
           /\ i' = (IF last THEN i + 1 ELSE i)
    /\ UNCHANGED leg

\* setstep(0, 0, 0, 0) at the end of moveDegree.
EndLeg ==
    /\ leg \in 1 .. Len(Plan) /\ i >= TargetRounds(Plan[leg].degree)
    /\ coils' = Off
    /\ leg' = leg + 1 /\ i' = 0 /\ j' = FirstStep(leg + 1)
    /\ UNCHANGED rotor

Rmmod ==
    /\ leg = Len(Plan) + 1
    /\ leg' = 0
    /\ UNCHANGED <<i, j, coils, rotor>>

Next == Insmod \/ SetStep \/ EndLeg \/ Rmmod

Spec == Init /\ [][Next]_vars

-----------------------------------------------------------------------------
(* Properties. *)

\* Degrees turned after n calls of moveDegree.
Turned(n) ==
    LET f[k \in 0 .. n] ==
          IF k = 0 THEN 0
          ELSE f[k - 1] + (IF Plan[k].direction = 0 THEN Plan[k].degree ELSE -Plan[k].degree)
    IN  f[n]

\* Between the calls of moveDegree the motor stands, without current, at the
\* sum of the angles asked for, to half a step's accuracy: neither the change
\* of direction, whose first pattern is one the rotor already holds, nor the
\* rest position it started from adds up over the legs.
ReachesAngle ==
    leg > 1 /\ i = 0 /\ j = FirstStep(leg) /\ coils = Off =>
      360 * (rotor - 1) <= Turned(leg - 1) * STEPS * ONEROUND
      /\ Turned(leg - 1) * STEPS * ONEROUND <= 360 * (rotor + 1)
=============================================================================
