----------------------------- MODULE ServerPi_proofs -----------------------------
(***************************************************************************)
(* The safety properties of ServerPi for every capacity MAX_COUNT and      *)
(* every value of the bounds: none of the proofs uses the bounds.          *)
(***************************************************************************)
EXTENDS ServerPi, TLAPS

\* The lamp lags behind the count only between OnMessage and OnMessageLed;
\* nothing has been counted or reported before the main loop.
LampInv ==
    /\ pc \in StartPC => current_count = 0 /\ status = NoStatus
    /\ ledBy = "server" /\ pc \notin {"led", "close", "exited"} => (led = 1 <=> current_count > 0)
    /\ ledBy = "server" /\ pc \in {"close", "exited"} => led = 0

\* The published status lags behind the count only within on_message.
StatusInv ==
    status # NoStatus /\ ~missed /\ pc \notin {"led", "status"} =>
        /\ status.count = current_count
        /\ status.full = 1 <=> current_count = MAX_COUNT

\* What main has acquired by the points from which it may return early.
OwnedInv ==
    /\ pc \in {"open_led", "exited"} => owned = {}
    /\ pc = "led_off" => owned = {"led_fd"}
    /\ pc = "new" => owned = {"led_fd", "lib"}

IInv == TypeOK /\ Ledger /\ LampInv /\ StatusInv /\ OwnedInv

\* Init establishes the inductive invariant.
LEMMA InitInv == Init => IInv
<1> SUFFICES ASSUME Init PROVE IInv
  OBVIOUS
<1>1. TypeOK
  <2>1. NoStatus \in [count : Int, full : {-1, 0, 1}]
    BY DEF NoStatus
  <2>2. NoMessage \in Messages /\ <<>> \in Seq(Messages)
    BY DEF NoMessage, Messages, Payloads, Topics
  <2>3. running \in BOOLEAN /\ missed \in BOOLEAN /\ led \in {0, 1}
    BY DEF Init
  <2>4. /\ air \in [Topics -> Nat] /\ wasted \in [Topics -> Nat] /\ inside \in Int
        /\ {sent, drops, pokes} \subseteq Nat
    BY DEF Init
  <2>5. current_count \in 0 .. MAX_COUNT
    BY MaxCountAssumption DEF Init
  <2>6. /\ pc \in StartPC /\ owned \subseteq {"led_fd", "lib", "mosq"}
        /\ link \in {"none", "down", "connecting", "up"} /\ subs \subseteq Topics
        /\ ledBy \in {"nobody", "server", "other"}
    BY DEF Init, StartPC
  <2>7. status \in [count : Int, full : {-1, 0, 1}] /\ msg \in Messages /\ inbox \in Seq(Messages)
    BY <2>1, <2>2 DEF Init
  <2> QED BY <2>3, <2>4, <2>5, <2>6, <2>7 DEF TypeOK
<1>2. Ledger
  BY DEF Init, Ledger, Topics
<1>3. LampInv /\ StatusInv /\ OwnedInv
  BY DEF Init, LampInv, StatusInv, OwnedInv
<1> QED BY <1>1, <1>2, <1>3 DEF IInv

\* Steps that count nobody and move nobody preserve it: main outside OnMessage
\* and the broker, the signal and the LED around it.
LEMMA QuietStepInv ==
    ASSUME IInv,
           \/ Startup \/ Loop \/ OnMessageLed \/ OnMessageStatus \/ Stop \/ Close
           \/ HandleSignal \/ LinkBreaks \/ OtherWritesLed
           \/ \E m \in Messages : Deliver(m)
    PROVE  IInv'
<1> USE DEF countVars, mainVars, linkVars, ledVars, worldVars, statusVars, roomVars,
        boundVars
<1>0. TypeOK /\ Ledger /\ LampInv /\ StatusInv /\ OwnedInv
  BY DEF IInv
<1>1. CASE OpenLed
  <2>0. pc = "open_led" /\ pc' \in {"exited", "led_off"} /\ led \in {0, 1}
    BY <1>0, <1>1 DEF OpenLed, Step, TypeOK
  <2>1. TypeOK'
    BY <1>0, <1>1 DEF OpenLed, Step, TypeOK, StartPC, EndPC
  <2>2. Ledger'
    BY <1>0, <1>1 DEF OpenLed, Ledger
  <2>3. LampInv' /\ StatusInv'
    BY <1>0, <1>1, <2>0 DEF OpenLed, LampInv, StatusInv, StartPC
  <2>4. OwnedInv'
    BY <1>0, <1>1 DEF OpenLed, Step, OwnedInv
  <2> QED BY <2>1, <2>2, <2>3, <2>4 DEF IInv
<1>2. CASE LedOff
  <2>1. TypeOK'
    BY <1>0, <1>2 DEF LedOff, Step, set_inside_led, TypeOK, StartPC, LoopPC, HandlerPC, EndPC
  <2>2. Ledger'
    BY <1>0, <1>2 DEF LedOff, Ledger
  <2>3. LampInv' /\ StatusInv' /\ OwnedInv'
    BY <1>0, <1>2 DEF LedOff, Step, set_inside_led, LampInv, StatusInv, OwnedInv, TypeOK, StartPC
  <2> QED BY <2>1, <2>2, <2>3 DEF IInv
<1>3. CASE MosquittoNew
  <2>1. TypeOK'
    BY <1>0, <1>3 DEF MosquittoNew, Step, TypeOK, StartPC, LoopPC, HandlerPC, EndPC
  <2>2. Ledger'
    BY <1>0, <1>3 DEF MosquittoNew, Ledger
  <2>3. LampInv' /\ StatusInv' /\ OwnedInv'
    BY <1>0, <1>3 DEF MosquittoNew, Step, LampInv, StatusInv, OwnedInv, TypeOK, StartPC
  <2> QED BY <2>1, <2>2, <2>3 DEF IInv
<1>4. CASE MosquittoConnect
  <2>0. pc = "connect" /\ pc' \in {"exited", "while"} /\ led \in {0, 1}
    BY <1>0, <1>4 DEF MosquittoConnect, Step, TypeOK
  <2>1. TypeOK'
    BY <1>0, <1>4 DEF MosquittoConnect, Step, TypeOK, LoopPC, EndPC
  <2>2. Ledger'
    BY <1>0, <1>4 DEF MosquittoConnect, Ledger
  <2>3. LampInv' /\ StatusInv'
    BY <1>0, <1>4, <2>0 DEF MosquittoConnect, LampInv, StatusInv, StartPC
  <2>4. OwnedInv'
    <3>1. owned \subseteq {"led_fd", "lib", "mosq"}
      BY <1>0 DEF TypeOK
    <3> QED BY <1>4, <3>1 DEF MosquittoConnect, Step, ConnectFailureFrees, OwnedInv
  <2> QED BY <2>1, <2>2, <2>3, <2>4 DEF IInv
<1>5. CASE While
  <2>1. TypeOK'
    BY <1>0, <1>5 DEF While, TypeOK, StartPC, LoopPC, HandlerPC, EndPC
  <2>2. Ledger'
    BY <1>0, <1>5 DEF While, Ledger
  <2>3. LampInv' /\ StatusInv' /\ OwnedInv'
    BY <1>0, <1>5 DEF While, LampInv, StatusInv, OwnedInv, TypeOK, StartPC
  <2> QED BY <2>1, <2>2, <2>3 DEF IInv
<1>6. CASE LoopIdle
  <2>1. TypeOK'
    BY <1>0, <1>6 DEF LoopIdle, Step, TypeOK, StartPC, LoopPC, HandlerPC, EndPC
  <2>2. Ledger'
    BY <1>0, <1>6 DEF LoopIdle, Ledger
  <2>3. LampInv' /\ StatusInv' /\ OwnedInv'
    BY <1>0, <1>6 DEF LoopIdle, Step, LampInv, StatusInv, OwnedInv, TypeOK, StartPC
  <2> QED BY <2>1, <2>2, <2>3 DEF IInv
<1>7. CASE OnConnect
  <2>1. TypeOK'
    BY <1>0, <1>7 DEF OnConnect, Step, Subscribed, TypeOK, StartPC, LoopPC, HandlerPC, EndPC, Topics
  <2>2. Ledger'
    BY <1>0, <1>7 DEF OnConnect, Ledger
  <2>3. LampInv' /\ StatusInv' /\ OwnedInv'
    BY <1>0, <1>7 DEF OnConnect, Step, Subscribed, LampInv, StatusInv, OwnedInv, TypeOK, StartPC
  <2> QED BY <2>1, <2>2, <2>3 DEF IInv
<1>8. CASE OnConnectRefused
  <2>1. TypeOK'
    BY <1>0, <1>8 DEF OnConnectRefused, Step, TypeOK, StartPC, LoopPC, HandlerPC, EndPC
  <2>2. Ledger'
    BY <1>0, <1>8 DEF OnConnectRefused, Ledger
  <2>3. LampInv' /\ StatusInv' /\ OwnedInv'
    BY <1>0, <1>8 DEF OnConnectRefused, Step, LampInv, StatusInv, OwnedInv, TypeOK, StartPC
  <2> QED BY <2>1, <2>2, <2>3 DEF IInv
<1>9. CASE LoopMessage
  <2>1. TypeOK'
    BY <1>0, <1>9 DEF LoopMessage, Step, TypeOK, StartPC, LoopPC, HandlerPC, EndPC
  <2>2. Ledger'
    BY <1>0, <1>9 DEF LoopMessage, Ledger
  <2>3. LampInv' /\ StatusInv' /\ OwnedInv'
    BY <1>0, <1>9 DEF LoopMessage, Step, LampInv, StatusInv, OwnedInv, TypeOK, StartPC
  <2> QED BY <2>1, <2>2, <2>3 DEF IInv
<1>10. CASE LoopError
  <2>1. TypeOK'
    BY <1>0, <1>10 DEF LoopError, Step, TypeOK, StartPC, LoopPC, HandlerPC, EndPC
  <2>2. Ledger'
    BY <1>0, <1>10 DEF LoopError, Ledger
  <2>3. LampInv' /\ StatusInv' /\ OwnedInv'
    BY <1>0, <1>10 DEF LoopError, Step, LampInv, StatusInv, OwnedInv, TypeOK, StartPC
  <2> QED BY <2>1, <2>2, <2>3 DEF IInv
<1>11. CASE ReconnectFails
  <2>1. TypeOK'
    BY <1>0, <1>11 DEF ReconnectFails, Step, TypeOK, StartPC, LoopPC, HandlerPC, EndPC
  <2>2. Ledger'
    BY <1>0, <1>11 DEF ReconnectFails, Ledger
  <2>3. LampInv' /\ StatusInv' /\ OwnedInv'
    BY <1>0, <1>11 DEF ReconnectFails, Step, LampInv, StatusInv, OwnedInv, TypeOK, StartPC
  <2> QED BY <2>1, <2>2, <2>3 DEF IInv
<1>12. CASE Reconnect
  <2>1. TypeOK'
    BY <1>0, <1>12 DEF Reconnect, Step, TypeOK, StartPC, LoopPC, HandlerPC, EndPC
  <2>2. Ledger'
    BY <1>0, <1>12 DEF Reconnect, Ledger
  <2>3. LampInv' /\ StatusInv' /\ OwnedInv'
    BY <1>0, <1>12 DEF Reconnect, Step, LampInv, StatusInv, OwnedInv, TypeOK, StartPC
  <2> QED BY <2>1, <2>2, <2>3 DEF IInv
<1>13. CASE OnMessageLed
  <2>1. TypeOK'
    BY <1>0, <1>13 DEF OnMessageLed, Step, update_inside_led, set_inside_led, TypeOK, StartPC, LoopPC, HandlerPC, EndPC
  <2>2. Ledger'
    BY <1>0, <1>13 DEF OnMessageLed, Ledger
  <2>3. LampInv' /\ StatusInv' /\ OwnedInv'
    BY <1>0, <1>13 DEF OnMessageLed, Step, update_inside_led, set_inside_led, LampInv, StatusInv, OwnedInv, TypeOK, StartPC
  <2> QED BY <2>1, <2>2, <2>3 DEF IInv
<1>14. CASE OnMessageStatus
  <2>0. /\ current_count \in Int /\ current_count <= MAX_COUNT /\ Full \in {0, 1}
        /\ Full = 1 <=> current_count = MAX_COUNT
    BY <1>0, MaxCountAssumption DEF TypeOK, Full
  <2>1. /\ pc = "status" /\ pc' = "while"
        /\ UNCHANGED <<countVars, owned, linkVars, ledVars, roomVars, boundVars>>
    BY <1>14 DEF OnMessageStatus, Step
  <2>2. \/ status' = [count |-> current_count, full |-> Full] /\ ~missed'
        \/ status' = status /\ missed'
    BY <1>14 DEF OnMessageStatus, publish_status
  <2>3. TypeOK'
    <3>1. NoMessage \in Messages
      BY DEF NoMessage, Messages, Payloads, Topics
    <3>2. msg' \in Messages /\ missed' \in BOOLEAN
      BY <1>0, <1>14, <3>1 DEF OnMessageStatus, publish_status
    <3>3. status' \in [count : Int, full : {-1, 0, 1}]
      BY <1>0, <2>0, <2>2 DEF TypeOK
    <3> QED BY <1>0, <2>1, <3>2, <3>3 DEF TypeOK, LoopPC
  <2>4. Ledger'
    BY <1>0, <2>1 DEF Ledger
  <2>5. LampInv' /\ OwnedInv'
    BY <1>0, <2>1 DEF LampInv, OwnedInv, StartPC
  <2>6. StatusInv'
    BY <2>0, <2>1, <2>2 DEF StatusInv
  <2> QED BY <2>3, <2>4, <2>5, <2>6 DEF IInv
<1>15. CASE Stop
  <2>1. TypeOK'
    BY <1>0, <1>15 DEF Stop, Step, set_inside_led, TypeOK, StartPC, LoopPC, HandlerPC, EndPC
  <2>2. Ledger'
    BY <1>0, <1>15 DEF Stop, Ledger
  <2>3. LampInv' /\ StatusInv' /\ OwnedInv'
    BY <1>0, <1>15 DEF Stop, Step, set_inside_led, LampInv, StatusInv, OwnedInv, TypeOK, StartPC
  <2> QED BY <2>1, <2>2, <2>3 DEF IInv
<1>16. CASE Close
  <2>1. TypeOK'
    BY <1>0, <1>16 DEF Close, Step, TypeOK, StartPC, LoopPC, HandlerPC, EndPC
  <2>2. Ledger'
    BY <1>0, <1>16 DEF Close, Ledger
  <2>3. LampInv' /\ StatusInv' /\ OwnedInv'
    BY <1>0, <1>16 DEF Close, Step, LampInv, StatusInv, OwnedInv, TypeOK, StartPC
  <2> QED BY <2>1, <2>2, <2>3 DEF IInv
<1>17. CASE HandleSignal
  <2>1. TypeOK'
    BY <1>0, <1>17 DEF HandleSignal, TypeOK, StartPC, LoopPC, HandlerPC, EndPC
  <2>2. Ledger'
    BY <1>0, <1>17 DEF HandleSignal, Ledger
  <2>3. LampInv' /\ StatusInv' /\ OwnedInv'
    BY <1>0, <1>17 DEF HandleSignal, LampInv, StatusInv, OwnedInv, TypeOK, StartPC
  <2> QED BY <2>1, <2>2, <2>3 DEF IInv
<1>18. CASE LinkBreaks
  <2>1. TypeOK'
    BY <1>0, <1>18 DEF LinkBreaks, TypeOK, StartPC, LoopPC, HandlerPC, EndPC, Messages
  <2>2. Ledger'
    BY <1>0, <1>18 DEF LinkBreaks, Ledger
  <2>3. LampInv' /\ StatusInv' /\ OwnedInv'
    BY <1>0, <1>18 DEF LinkBreaks, LampInv, StatusInv, OwnedInv, TypeOK, StartPC
  <2> QED BY <2>1, <2>2, <2>3 DEF IInv
<1>19. CASE OtherWritesLed
  <2>1. TypeOK'
    BY <1>0, <1>19 DEF OtherWritesLed, TypeOK, StartPC, LoopPC, HandlerPC, EndPC
  <2>2. Ledger'
    BY <1>0, <1>19 DEF OtherWritesLed, Ledger
  <2>3. LampInv' /\ StatusInv' /\ OwnedInv'
    BY <1>0, <1>19 DEF OtherWritesLed, LampInv, StatusInv, OwnedInv, TypeOK, StartPC
  <2> QED BY <2>1, <2>2, <2>3 DEF IInv
<1>20. ASSUME NEW m \in Messages, Deliver(m) PROVE IInv'
  <2>1. TypeOK'
    BY <1>0, <1>20 DEF Deliver, TypeOK
  <2>2. Ledger' /\ LampInv' /\ StatusInv' /\ OwnedInv'
    BY <1>0, <1>20 DEF Deliver, Ledger, LampInv, StatusInv, OwnedInv
  <2> QED BY <2>1, <2>2 DEF IInv
<1> QED BY <1>1, <1>2, <1>3, <1>4, <1>5, <1>6, <1>7, <1>8, <1>9, <1>10, <1>11, <1>12, <1>13, <1>14, <1>15, <1>16, <1>17, <1>18, <1>19, <1>20 DEF Startup, Loop

\* Both handlers grant an ALLOW exactly when they count it, so the ledger
\* stays balanced and the count stays within the capacity.
LEMMA OnMessageInv == IInv /\ OnMessage => IInv'
<1> SUFFICES ASSUME IInv, OnMessage PROVE IInv'
  OBVIOUS
<1>0. TypeOK /\ Ledger /\ LampInv /\ StatusInv /\ OwnedInv
  BY DEF IInv
<1>1. /\ pc = "handle" /\ pc' = "led"
      /\ UNCHANGED <<running, msg, owned, link, subs, inbox, led, ledBy, status, missed,
                     inside, sent, drops, pokes>>
  BY DEF OnMessage, Step, linkVars, ledVars, statusVars, boundVars
<1>2. LampInv' /\ StatusInv' /\ OwnedInv'
  BY <1>0, <1>1 DEF LampInv, StatusInv, OwnedInv, StartPC
<1>3. /\ current_count \in Nat /\ current_count <= MAX_COUNT
      /\ air \in [Topics -> Nat] /\ wasted \in [Topics -> Nat] /\ inside \in Int
  BY <1>0, MaxCountAssumption DEF TypeOK
<1>4. ENTRY \in Topics /\ EXIT \in Topics /\ ENTRY # EXIT
  BY DEF Topics, ENTRY, EXIT
<1>5. /\ current_count' \in 0 .. MAX_COUNT
      /\ air' \in [Topics -> Nat] /\ wasted' \in [Topics -> Nat] /\ Ledger'
  <2>1. CASE /\ current_count < MAX_COUNT /\ current_count' = current_count + 1
             /\ publish_allow(ENTRY)
    BY <1>0, <1>1, <1>3, <1>4, <2>1, MaxCountAssumption DEF publish_allow, Ledger
  <2>2. CASE /\ current_count > 0 /\ current_count' = current_count - 1
             /\ publish_allow(EXIT)
    BY <1>0, <1>1, <1>3, <1>4, <2>2, MaxCountAssumption DEF publish_allow, Ledger
  <2>3. CASE UNCHANGED <<current_count, air, wasted>>
    BY <1>0, <1>1, <1>3, <2>3, MaxCountAssumption DEF Ledger
  <2> QED BY <2>1, <2>2, <2>3
          DEF OnMessage, handle_entry_request, handle_exit_request, HasRoom, CountDown
<1>6. TypeOK'
  BY <1>0, <1>1, <1>5 DEF TypeOK, HandlerPC
<1> QED BY <1>2, <1>5, <1>6 DEF IInv

\* A person walking through, or an ALLOW going to waste, moves one unit from
\* one side of the ledger to the other.
LEMMA GateInv ==
    ASSUME IInv, NEW t \in Topics, WalkThrough(t) \/ ReplyWasted(t)
    PROVE  IInv'
<1>0. TypeOK /\ Ledger /\ LampInv /\ StatusInv /\ OwnedInv
  BY DEF IInv
<1>1. UNCHANGED <<pc, running, current_count, msg, owned, link, subs, inbox, led, ledBy,
                  status, missed, sent, drops, pokes>>
  BY DEF WalkThrough, ReplyWasted, mainVars, countVars, linkVars, ledVars, statusVars,
         boundVars
<1>2. LampInv' /\ StatusInv' /\ OwnedInv'
  BY <1>0, <1>1 DEF LampInv, StatusInv, OwnedInv
<1>3. air \in [Topics -> Nat] /\ wasted \in [Topics -> Nat] /\ inside \in Int
  BY <1>0 DEF TypeOK
<1>4. ENTRY \in Topics /\ EXIT \in Topics /\ ENTRY # EXIT /\ (t = ENTRY \/ t = EXIT)
  BY DEF Topics, ENTRY, EXIT
<1>5. /\ air' \in [Topics -> Nat] /\ wasted' \in [Topics -> Nat] /\ inside' \in Int
      /\ Ledger'
  <2>1. CASE WalkThrough(t)
    BY <1>0, <1>1, <1>3, <1>4, <2>1 DEF WalkThrough, Ledger
  <2>2. CASE ReplyWasted(t)
    BY <1>0, <1>1, <1>3, <1>4, <2>2 DEF ReplyWasted, Ledger
  <2> QED BY <2>1, <2>2
<1>6. TypeOK'
  BY <1>0, <1>1, <1>5 DEF TypeOK
<1> QED BY <1>2, <1>5, <1>6 DEF IInv

\* The invariant holds throughout every behaviour of the server.
THEOREM ServerInvariant == Spec => []IInv
<1>1. IInv /\ [Next]_vars => IInv'
  <2> SUFFICES ASSUME IInv, [Next]_vars PROVE IInv'
    OBVIOUS
  <2>1. CASE Main
    BY <2>1, QuietStepInv, OnMessageInv DEF Main, Handler
  <2>2. CASE Environment
    BY <2>2, QuietStepInv, GateInv DEF Environment
  <2>3. CASE UNCHANGED vars
    BY <2>3 DEF IInv, TypeOK, Ledger, LampInv, StatusInv, OwnedInv, vars, mainVars,
                countVars, linkVars, ledVars, worldVars, statusVars, roomVars, boundVars
  <2> QED BY <2>1, <2>2, <2>3 DEF Next, Done
<1> QED BY InitInv, <1>1, PTL DEF Spec

\* Every variable keeps its type; above all, current_count stays between 0 and
\* MAX_COUNT whatever requests arrive.
THEOREM ServerTypeOK == Spec => []TypeOK
<1>1. IInv => TypeOK
  BY DEF IInv
<1> QED BY ServerInvariant, <1>1, PTL

\* The count and the room agree up to the ALLOWs that are under way or unused.
THEOREM LedgerBalances == Spec => []Ledger
<1>1. IInv => Ledger
  BY DEF IInv
<1> QED BY ServerInvariant, <1>1, PTL

\* The room holds at most MAX_COUNT people beyond the unused exits.
THEOREM CapacityHolds == Spec => []OccupancyBound
<1>1. IInv => OccupancyBound
  <2> SUFFICES ASSUME IInv PROVE OccupancyBound
    OBVIOUS
  <2>1. /\ current_count \in Int /\ 0 <= current_count /\ current_count <= MAX_COUNT
        /\ air \in [Topics -> Nat] /\ wasted \in [Topics -> Nat] /\ inside \in Int
    BY MaxCountAssumption DEF IInv, TypeOK
  <2>2. ENTRY \in Topics /\ EXIT \in Topics
    BY DEF Topics
  <2> QED BY <2>1, <2>2, MaxCountAssumption DEF IInv, Ledger, OccupancyBound
<1> QED BY ServerInvariant, <1>1, PTL

\* The lamp tells whether the server believes anybody is inside.
THEOREM LampFollowsCount == Spec => []LampTellsOccupancy
<1>1. IInv => LampTellsOccupancy
  BY DEF IInv, LampInv, LampTellsOccupancy, LoopPC
<1> QED BY ServerInvariant, <1>1, PTL

\* The last status that reached the broker is the present one.
THEOREM StatusFollowsCount == Spec => []StatusIsCurrent
<1>1. IInv => StatusIsCurrent
  BY DEF IInv, StatusInv, StatusIsCurrent, HandlerPC
<1> QED BY ServerInvariant, <1>1, PTL

\* Each of main's four returns gives back everything main acquired.
THEOREM ReturnsReleaseAll == Spec => []ExitReleasesAll
<1>1. IInv => ExitReleasesAll
  BY DEF IInv, OwnedInv, ExitReleasesAll
<1> QED BY ServerInvariant, <1>1, PTL
=================================================================================
