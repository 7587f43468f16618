------------------------------- MODULE ServerPi -------------------------------
(***************************************************************************)
(* team/server_pi_app.c: the Pi2 server that counts the people inside,     *)
(* answers the entry and exit gates over MQTT and drives the inside LED.   *)
(* One thread: main runs mosquitto_loop, which runs the callbacks.  What   *)
(* happens around it between two of its steps is modelled as well: the     *)
(* broker link breaking, requests arriving, replies being used or lost,    *)
(* signals, and other processes writing the world-writable LED device.     *)
(*                                                                         *)
(* The gates and libmosquitto are outside the repository; they appear here *)
(* only as far as the server's calls and the QoS 0, clean-session          *)
(* parameters it passes determine them.                                    *)
(***************************************************************************)
EXTENDS Integers, Sequences

CONSTANTS
    MAX_COUNT,    \* capacity of the room
    MaxRequests,  \* bound: requests the broker delivers in a behaviour
    MaxInbox,     \* bound: requests queued on the connection
    MaxDrops,     \* bound: times the link breaks or a connection is refused
    MaxPokes      \* bound: LED writes by other processes

ASSUME MaxCountAssumption == MAX_COUNT \in Nat
ASSUME BoundsAssumption ==
    {MaxRequests, MaxInbox, MaxDrops, MaxPokes} \subseteq Nat

ENTRY == "entry/request"
EXIT == "exit/request"
Topics == {ENTRY, EXIT}
Payloads == {"ENTER", "EXIT", "other"}
Messages == Topics \X Payloads

VARIABLES
    pc,             \* where main, or the callback it is in, stands
    running,        \* cleared by the signal handler
    current_count,  \* people the server believes are inside
    msg,            \* the message on_message is working on
    owned,          \* what main has acquired: led_fd, library, client
    link,           \* the client's connection: "none", "down", "connecting", "up"
    subs,           \* topics subscribed on the current connection
    inbox,          \* requests delivered and not yet read by mosquitto_loop
    led,            \* the lamp behind led_fd
    ledBy,          \* who wrote it last
    status,         \* last system/status that reached the broker
    missed,         \* a later status did not reach it
    air,            \* ALLOW replies on their way to each gate
    wasted,         \* ALLOW replies nobody walked through on, by gate
    inside,         \* net number of people who walked in since the start
    sent, drops, pokes  \* counters for the bounds

countVars == <<running, current_count>>
mainVars == <<pc, countVars, msg, owned>>
linkVars == <<link, subs, inbox>>
ledVars == <<led, ledBy>>
statusVars == <<status, missed>>
roomVars == <<air, wasted, inside>>
boundVars == <<sent, drops, pokes>>
worldVars == <<statusVars, roomVars, boundVars>>
vars == <<mainVars, linkVars, ledVars, worldVars>>

StartPC == {"open_led", "led_off", "new", "connect"}
LoopPC == {"while", "loop", "retry"}
HandlerPC == {"handle", "led", "status"}
EndPC == {"stop", "close", "exited"}
NoStatus == [count |-> -1, full |-> -1]
NoMessage == <<ENTRY, "other">>

Init ==
    /\ pc = "open_led"
    /\ running = TRUE
    /\ current_count = 0
    /\ msg = NoMessage
    /\ owned = {}
    /\ link = "none" /\ subs = {} /\ inbox = <<>>
    /\ led \in {0, 1} /\ ledBy = "nobody"
    /\ status = NoStatus /\ missed = FALSE
    /\ air = [t \in Topics |-> 0]
    /\ wasted = [t \in Topics |-> 0]
    /\ inside = 0
    /\ sent = 0 /\ drops = 0 /\ pokes = 0

-----------------------------------------------------------------------------
(* Helpers of the source. *)

payload_equals(m, s) == m[2] = s

\* write(led_fd, ...): the open descriptor pins the driver, and the driver
\* accepts both command bytes.
set_inside_led(on) ==
    /\ led' = IF on THEN 1 ELSE 0
    /\ ledBy' = "server"

\* A seeded fault: the lamp follows the wrong threshold.
Mut_update_inside_led == set_inside_led(current_count > 1)
update_inside_led == set_inside_led(current_count > 0)

\* A seeded fault: full is reported one person late.
Mut_Full == IF current_count > MAX_COUNT THEN 1 ELSE 0
Full == IF current_count >= MAX_COUNT THEN 1 ELSE 0

\* mosquitto_publish at QoS 0: on its way when the link is up, gone otherwise.
publish_status ==
    IF link = "up"
    THEN status' = [count |-> current_count, full |-> Full] /\ missed' = FALSE
    ELSE missed' = TRUE /\ UNCHANGED status

publish_allow(topic) ==
    IF link = "up"
    THEN air' = [air EXCEPT ![topic] = @ + 1] /\ UNCHANGED wasted
    ELSE wasted' = [wasted EXCEPT ![topic] = @ + 1] /\ UNCHANGED air

\* A seeded fault: one person too many is let in.
Mut_HasRoom == current_count <= MAX_COUNT
HasRoom == current_count < MAX_COUNT

handle_entry_request ==
    \/ /\ HasRoom
       /\ current_count' = current_count + 1
       /\ publish_allow(ENTRY)
    \/ /\ ~HasRoom                             \* DENY
       /\ UNCHANGED <<current_count, air, wasted>>

\* A seeded fault: an exit is allowed without counting it down.
Mut_CountDown == current_count
CountDown == current_count - 1

handle_exit_request ==
    \/ /\ current_count > 0
       /\ current_count' = CountDown
       /\ publish_allow(EXIT)
    \/ /\ ~(current_count > 0)                 \* DENY
       /\ UNCHANGED <<current_count, air, wasted>>

-----------------------------------------------------------------------------
(* main: start-up with its early returns. *)

\* main goes from one point to the next.
Step(from, to) == pc = from /\ pc' = to

OpenLed ==
    /\ \/ Step("open_led", "exited") /\ UNCHANGED owned
       \/ Step("open_led", "led_off") /\ owned' = owned \cup {"led_fd"}
    /\ UNCHANGED <<countVars, msg, linkVars, ledVars, worldVars>>

\* set_inside_led(0); mosquitto_lib_init().
LedOff ==
    /\ Step("led_off", "new")
    /\ set_inside_led(FALSE)
    /\ owned' = owned \cup {"lib"}
    /\ UNCHANGED <<countVars, msg, linkVars, worldVars>>

MosquittoNew ==
    /\ \/ Step("new", "connect") /\ owned' = owned \cup {"mosq"}
       \/ Step("new", "exited") /\ owned' = owned \ {"led_fd", "lib"}
    /\ UNCHANGED <<countVars, msg, linkVars, ledVars, worldVars>>

\* What the mosquitto_connect failure branch gives back.
\* A seeded fault: it forgets close(led_fd).
Mut_ConnectFailureFrees == {"mosq", "lib"}
ConnectFailureFrees == {"mosq", "led_fd", "lib"}

MosquittoConnect ==
    /\ \/ Step("connect", "while") /\ link' = "connecting" /\ UNCHANGED owned
       \/ /\ Step("connect", "exited")
          /\ owned' = owned \ ConnectFailureFrees
          /\ UNCHANGED link
    /\ UNCHANGED <<countVars, msg, subs, inbox, ledVars, worldVars>>

-----------------------------------------------------------------------------
(* main: while (running) { mosquitto_loop ... }. *)

\* A seeded fault: while (1).
Mut_KeepGoing == TRUE
KeepGoing == running

While ==
    /\ pc = "while"
    /\ pc' = IF KeepGoing THEN "loop" ELSE "stop"
    /\ UNCHANGED <<countVars, msg, owned, linkVars, ledVars, worldVars>>

\* mosquitto_loop returns after its timeout with nothing to read.
LoopIdle ==
    /\ Step("loop", "while")
    /\ link # "down"
    /\ inbox = <<>>
    /\ UNCHANGED <<countVars, msg, owned, linkVars, ledVars, worldVars>>

\* A seeded fault: only the entry topic is subscribed.
Mut_Subscribed == {ENTRY}
Subscribed == {ENTRY, EXIT}

\* on_connect with rc == 0: the session is clean, so both topics are
\* subscribed again on every connection.
OnConnect ==
    /\ Step("loop", "while")
    /\ link = "connecting"
    /\ link' = "up"
    /\ subs' = Subscribed
    /\ UNCHANGED <<countVars, msg, owned, inbox, ledVars, worldVars>>

\* on_connect with rc # 0: nothing is subscribed and the broker hangs up.
OnConnectRefused ==
    /\ Step("loop", "while")
    /\ link = "connecting"
    /\ drops < MaxDrops
    /\ drops' = drops + 1
    /\ link' = "down"
    /\ UNCHANGED <<countVars, msg, owned, subs, inbox, ledVars, statusVars, roomVars, sent, pokes>>

LoopMessage ==
    /\ Step("loop", "handle")
    /\ link = "up"
    /\ inbox # <<>>
    /\ msg' = Head(inbox)
    /\ inbox' = Tail(inbox)
    /\ UNCHANGED <<countVars, owned, link, subs, ledVars, worldVars>>

LoopError ==
    /\ Step("loop", "retry")
    /\ link = "down"
    /\ UNCHANGED <<countVars, msg, owned, linkVars, ledVars, worldVars>>

\* sleep(1), then mosquitto_reconnect, whose result is ignored.
ReconnectFails ==
    /\ Step("retry", "while")
    /\ UNCHANGED <<countVars, msg, owned, linkVars, ledVars, worldVars>>

Reconnect ==
    /\ Step("retry", "while")
    /\ link' = "connecting"
    /\ UNCHANGED <<countVars, msg, owned, subs, inbox, ledVars, worldVars>>

-----------------------------------------------------------------------------
(* on_message, under count_lock: dispatch, lamp, status. *)

OnMessage ==
    /\ Step("handle", "led")
    /\ \/ /\ msg[1] = EXIT /\ payload_equals(msg, "EXIT")
          /\ handle_exit_request
       \/ /\ msg[1] = ENTRY /\ payload_equals(msg, "ENTER")
          /\ handle_entry_request
       \/ /\ ~(msg[1] = EXIT /\ payload_equals(msg, "EXIT"))
          /\ ~(msg[1] = ENTRY /\ payload_equals(msg, "ENTER"))
          /\ UNCHANGED <<current_count, air, wasted>>
    /\ UNCHANGED <<running, msg, owned, linkVars, ledVars, statusVars, inside, boundVars>>

OnMessageLed ==
    /\ Step("led", "status")
    /\ update_inside_led
    /\ UNCHANGED <<countVars, msg, owned, linkVars, worldVars>>

OnMessageStatus ==
    /\ Step("status", "while")
    /\ publish_status
    /\ msg' = NoMessage
    /\ UNCHANGED <<countVars, owned, linkVars, ledVars, roomVars, boundVars>>

-----------------------------------------------------------------------------
(* main: the way out. *)

Stop ==
    /\ Step("stop", "close")
    /\ set_inside_led(FALSE)
    /\ UNCHANGED <<countVars, msg, owned, linkVars, worldVars>>

\* mosquitto_disconnect, _destroy, _lib_cleanup, close(led_fd).
Close ==
    /\ Step("close", "exited")
    /\ owned' = owned \ {"mosq", "lib", "led_fd"}
    /\ link' = "none" /\ subs' = {} /\ inbox' = <<>>
    /\ UNCHANGED <<countVars, msg, ledVars, worldVars>>

-----------------------------------------------------------------------------
(* The surroundings. *)

\* SIGINT or SIGTERM at any point of main.
HandleSignal ==
    /\ pc # "exited"
    /\ running
    /\ running' = FALSE
    /\ UNCHANGED <<pc, current_count, msg, owned, linkVars, ledVars, worldVars>>

\* The broker delivers a request published by a gate, or anything else
\* published on a subscribed topic.
Deliver(m) ==
    /\ link = "up"
    /\ m[1] \in subs
    /\ sent < MaxRequests /\ Len(inbox) < MaxInbox
    /\ inbox' = Append(inbox, m)
    /\ sent' = sent + 1
    /\ UNCHANGED <<mainVars, link, subs, ledVars, statusVars, roomVars, drops, pokes>>

\* The connection breaks; a clean session keeps neither subscriptions nor
\* undelivered messages.
LinkBreaks ==
    /\ link \in {"connecting", "up"}
    /\ drops < MaxDrops
    /\ link' = "down" /\ subs' = {} /\ inbox' = <<>>
    /\ drops' = drops + 1
    /\ UNCHANGED <<mainVars, ledVars, statusVars, roomVars, sent, pokes>>

\* A gate gets its ALLOW and one person walks through.
WalkThrough(t) ==
    /\ air[t] > 0
    /\ air' = [air EXCEPT ![t] = @ - 1]
    /\ inside' = IF t = ENTRY THEN inside + 1 ELSE inside - 1
    /\ UNCHANGED <<mainVars, linkVars, ledVars, statusVars, wasted, boundVars>>

\* The ALLOW is lost on the way (QoS 0), or arrives and nobody walks.
ReplyWasted(t) ==
    /\ air[t] > 0
    /\ air' = [air EXCEPT ![t] = @ - 1]
    /\ wasted' = [wasted EXCEPT ![t] = @ + 1]
    /\ UNCHANGED <<mainVars, linkVars, ledVars, statusVars, inside, boundVars>>

\* Another process writes the device node (mknod.sh makes it mode 666).
OtherWritesLed ==
    /\ pokes < MaxPokes
    /\ pokes' = pokes + 1
    /\ led' \in {0, 1}
    /\ ledBy' = "other"
    /\ UNCHANGED <<mainVars, linkVars, statusVars, roomVars, sent, drops>>

-----------------------------------------------------------------------------
Startup == OpenLed \/ LedOff \/ MosquittoNew \/ MosquittoConnect

Loop ==
    \/ While \/ LoopIdle \/ LoopMessage \/ LoopError
    \/ OnConnect \/ OnConnectRefused \/ Reconnect \/ ReconnectFails

Handler == OnMessage \/ OnMessageLed \/ OnMessageStatus

Main == Startup \/ Loop \/ Handler \/ Stop \/ Close

Environment ==
    \/ HandleSignal \/ LinkBreaks \/ OtherWritesLed
    \/ \E m \in Messages : Deliver(m)
    \/ \E t \in Topics : WalkThrough(t) \/ ReplyWasted(t)

\* The program has ended and nothing is left to happen around it.
Done == pc = "exited" /\ UNCHANGED vars

Next == Main \/ Environment \/ Done

Spec == Init /\ [][Next]_vars

\* main is scheduled and its library calls return (mosquitto_loop has a
\* timeout).  The broker on localhost that keeps being asked eventually
\* accepts: without that no retry loop helps.
FairSpec ==
    /\ Spec
    /\ WF_vars(Main)
    /\ SF_vars(Reconnect)
    /\ SF_vars(OnConnect)

-----------------------------------------------------------------------------
(* Properties. *)

TypeOK ==
    /\ pc \in StartPC \cup LoopPC \cup HandlerPC \cup EndPC
    /\ running \in BOOLEAN
    /\ current_count \in 0 .. MAX_COUNT
    /\ msg \in Messages
    /\ owned \subseteq {"led_fd", "lib", "mosq"}
    /\ link \in {"none", "down", "connecting", "up"}
    /\ subs \subseteq Topics
    /\ inbox \in Seq(Messages)
    /\ led \in {0, 1}
    /\ ledBy \in {"nobody", "server", "other"}
    /\ status \in [count : Int, full : {-1, 0, 1}]
    /\ missed \in BOOLEAN
    /\ air \in [Topics -> Nat]
    /\ wasted \in [Topics -> Nat]
    /\ inside \in Int
    /\ {sent, drops, pokes} \subseteq Nat

\* Every ALLOW is accounted for: the server's count differs from the people
\* really inside by exactly the ALLOWs still on their way and those that were
\* lost with the link or that nobody used, entries up and exits down.
Ledger ==
    current_count = inside + (air[ENTRY] + wasted[ENTRY]) - (air[EXIT] + wasted[EXIT])

\* The promise to the people: the room never holds more than MAX_COUNT, beyond
\* the exits that were granted and not walked; and nobody is let out who was
\* not let in, beyond the entries that were granted and not walked.
OccupancyBound ==
    /\ inside <= MAX_COUNT + air[EXIT] + wasted[EXIT]
    /\ inside >= -(air[ENTRY] + wasted[ENTRY])

\* Whenever main is not inside on_message and no other process wrote the
\* device since, the lamp is lit exactly when the count is positive while the
\* server serves, and dark when it has stopped.
LampTellsOccupancy ==
    /\ ledBy = "server" /\ pc \in LoopPC \cup {"stop"} => (led = 1 <=> current_count > 0)
    /\ ledBy = "server" /\ pc \in {"close", "exited"} => led = 0

\* Outside on_message, the last system/status that reached the broker shows
\* the present count, and full=1 exactly when the next ENTER would be denied,
\* unless a newer one was lost with the link.
StatusIsCurrent ==
    status # NoStatus /\ ~missed /\ pc \notin HandlerPC =>
        /\ status.count = current_count
        /\ status.full = 1 <=> current_count = MAX_COUNT

\* main never ends with the LED device open, the client alive or the library
\* initialised, whichever of its four returns it takes.
ExitReleasesAll == pc = "exited" => owned = {}

\* SIGINT and SIGTERM stop the server from every point: from start-up, from
\* within on_message and from the reconnect loop.
SignalStops == ~running ~> pc = "exited"

\* After the link broke, the server is again subscribed to both request
\* topics, unless it is told to stop: a lost connection does not leave it
\* connected and deaf.
Resubscribes == (pc = "retry" /\ running) ~> (subs = Topics \/ ~running)
=============================================================================
