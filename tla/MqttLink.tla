------------------------------- MODULE MqttLink -------------------------------
(***************************************************************************)
(* The MQTT session of fw/src/mqtt.c.  Two threads share the one static    *)
(* struct mqtt_client: main, which reports and calls mqtt_init again when  *)
(* it finds the flag connected cleared, and mqtt_sub, which does the same  *)
(* and otherwise reads from the broker.  mqtt_init takes no lock and       *)
(* begins by zeroing the client, the client's own mutex included.          *)
(*                                                                         *)
(* The MQTT library, the sockets and the broker are external: they are     *)
(* modelled as far as mqtt.c uses them.  A step is the code between two    *)
(* places where the other thread may run and see the difference.           *)
(***************************************************************************)
EXTENDS NetIface, Integers, FiniteSets

CONSTANTS
  Sockets,    \* the descriptors zsock_socket can give, numbers
  MaxLate,    \* bound on the waits for a CONNACK that end before it comes
  MeetingsCounted,  \* how far calls of mqtt_init while the other thread uses the client
              \* are counted; any number of them may happen
  MaxFaults   \* bound on refused and broken connections, losses of the address, failures
              \* of poll and payloads left unread

ASSUME LinkAssumption ==
  /\ Sockets \subseteq Nat /\ IsFiniteSet(Sockets)
  /\ MaxLate \in Nat /\ MeetingsCounted \in Nat /\ MaxFaults \in Nat

Threads == {"main", "mqtt_sub"}
NoThread == "none"
NoSocket == -1

VARIABLES
  connected,  \* the flag of mqtt.c
  sock,       \* client.transport.tcp.sock, NoSocket when zeroed or closed
  state,      \* client.internal.state
  lock,       \* owner of client.internal.mutex
  net,        \* what became of each socket, on both ends
  at,         \* where each thread is
  back,       \* where it goes after publish_msg or mqtt_init
  after,      \* where it goes after the library's call of handler
  nested,     \* the threads that execute a command read by the loop of mqtt_init
  mine,       \* the socket it opened in mqtt_connect
  told,       \* history: main's last report reached the broker
  late, met, faults   \* what the bounds count

session == << connected, sock, state >>
control == << back, after, nested, mine >>
counts  == << late, met, faults >>
linkVars == << addr, session, lock, net, at, control, told, counts >>

(***************************************************************************)
(* A socket is free, dialing (the TCP connection is being made), open      *)
(* (made, but no CONNECT was written), asked (CONNECT written), answered   *)
(* or refused (the CONNACK is there to be read), live (a session),         *)
(* subscribed (and heatpump/cmd subscribed to), unread (and a command's    *)
(* payload left unread), or broken (closed by the broker or by the         *)
(* network, and still allocated here).                                     *)
(***************************************************************************)
NetState == {"free", "dialing", "open", "asked", "answered", "refused",
             "live", "subscribed", "unread", "broken"}
InSession == {"live", "subscribed", "unread"}

MainAt == {"boot", "report"}
SubAt  == {"loop", "poll", "input", "live", "drop", "abort"}
Shared == {"init", "dial", "dialing", "await", "acked", "subscribe", "gone",
           "report", "publish"}

LinkInit ==
  /\ addr \in BOOLEAN
  /\ connected = FALSE /\ sock = NoSocket /\ state = "idle"
  /\ lock = NoThread
  /\ net = [s \in Sockets |-> "free"]
  /\ at = [t \in Threads |-> IF t = "main" THEN "boot" ELSE "loop"]
  /\ back = [t \in Threads |-> IF t = "main" THEN "report" ELSE "loop"]
  /\ after = [t \in Threads |-> "await"] /\ nested = {}
  /\ mine = [t \in Threads |-> NoSocket]
  /\ told = FALSE
  /\ late = 0 /\ met = 0 /\ faults = 0

-----------------------------------------------------------------------------
(* Helpers                                                                 *)

Goto(t, from, to) == at[t] = from /\ at' = [at EXCEPT ![t] = to]
Other(t) == CHOOSE u \in Threads : u # t

\* The library's calls take the client's mutex and give it back.
Unlocked == lock = NoThread

Set(s, what) == net' = [net EXCEPT ![s] = what]
Fault == faults < MaxFaults /\ faults' = faults + 1

\* What the library says of the client's socket.
On(states) == state # "idle" /\ sock # NoSocket /\ net[sock] \in states
Session == state = "connected" /\ On(InSession \union {"broken"})

\* Where publish_msg or mqtt_init returns to: a command that the loop of mqtt_init has
\* read was executed inside that loop.
Return(t) == IF t \in nested THEN "await" ELSE back[t]
Returns(t) == nested' = nested \ {t}

\* client_disconnect: the socket is closed, the client reset, and handler called.
Disconnect(t, then) ==
  /\ net' = IF sock = NoSocket THEN net ELSE [net EXCEPT ![sock] = "free"]
  /\ sock' = NoSocket /\ state' = "idle"
  /\ at' = [at EXCEPT ![t] = "gone"]
  /\ after' = [after EXCEPT ![t] = then]
  /\ UNCHANGED << addr, connected >>

-----------------------------------------------------------------------------
(* mqtt_init                                                               *)

\* main has an address and calls mqtt_init (main.c:45).
Online ==
  /\ Goto("main", "boot", "init")
  /\ UNCHANGED << addr, session, lock, net, control, told, counts >>

\* The other thread is inside the library or about to call it, or it has connected the
\* client since this one found the flag cleared.
Using(u) ==
  connected \/ at[u] \notin (IF u = "main" THEN {"boot", "init", "report"} ELSE {"loop", "init"})

\* mqtt_client_init forgets socket, state and mutex without closing or unlocking.
Wipe(t) ==
  /\ Goto(t, "init", "dial")
  /\ met' = IF Using(Other(t)) /\ met < MeetingsCounted THEN met + 1 ELSE met
  /\ sock' = NoSocket /\ state' = "idle" /\ lock' = NoThread
  /\ UNCHANGED << addr, connected, net, control, told, late, faults >>

Free == {s \in Sockets : net[s] = "free"}

\* mqtt_connect locks the client and stays in zsock_connect ...
Dial(t) ==
  /\ Unlocked
  /\ \E s \in Free :
       /\ \A r \in Free : s <= r
       /\ Set(s, "dialing")
       /\ sock' = s
       /\ mine' = [mine EXCEPT ![t] = s]
  /\ lock' = t
  /\ Goto(t, "dial", "dialing")
  /\ UNCHANGED << addr, connected, state, back, after, nested, told, counts >>

\* ... or fails at once, when no socket is left.
NoneLeft(t) ==
  /\ Unlocked /\ Free = {}
  /\ Goto(t, "dial", Return(t)) /\ Returns(t)
  /\ sock' = NoSocket /\ state' = "idle"
  /\ UNCHANGED << addr, connected, lock, net, back, after, mine, told, counts >>

\* Mutant: the mutex is not given back.
UnlockNever(t) == lock' = lock

\* The mutex is given back by its owner only: it may have been zeroed meanwhile.
Unlock(t) == lock' = IF lock = t THEN NoThread ELSE lock

\* The connection could not be made, or was closed under the caller.  What is closed
\* is the socket the client has now.
DialFails(t) ==
  /\ Goto(t, "dialing", Return(t)) /\ Returns(t)
  /\ IF addr /\ net[mine[t]] = "dialing" THEN Fault ELSE UNCHANGED faults
  /\ net' = [s \in Sockets |-> IF s = sock THEN "free"
                               ELSE IF s = mine[t] /\ net[s] = "dialing" THEN "broken"
                               ELSE net[s]]
  /\ sock' = NoSocket /\ state' = "idle"
  /\ mine' = [mine EXCEPT ![t] = NoSocket]
  /\ Unlock(t)
  /\ UNCHANGED << addr, connected, back, after, told, late, met >>

\* The connection is made and the CONNECT goes out on it.
Ask(t) ==
  /\ Goto(t, "dialing", "await")
  /\ addr /\ net[mine[t]] = "dialing" /\ sock = mine[t]
  /\ Set(sock, "asked")
  /\ state' = "tcp"
  /\ mine' = [mine EXCEPT ![t] = NoSocket]
  /\ Unlock(t)
  /\ UNCHANGED << addr, connected, sock, back, after, nested, told, counts >>

\* The other thread has zeroed the client and opened another socket: the CONNECT goes
\* out on that one, a second one in its session, which the broker must close.
AskTwice(t) ==
  /\ Goto(t, "dialing", "await")
  /\ addr /\ net[mine[t]] = "dialing" /\ sock \notin {mine[t], NoSocket}
  /\ net[sock] # "dialing"
  /\ net' = [net EXCEPT ![mine[t]] = "open",
                        ![sock] = IF @ = "refused" THEN @ ELSE "broken"]
  /\ state' = "tcp"
  /\ mine' = [mine EXCEPT ![t] = NoSocket]
  /\ Unlock(t)
  /\ UNCHANGED << addr, connected, sock, back, after, nested, told, counts >>

\* Or there is no socket to write on, or one that is not connected yet.
AskNobody(t) ==
  /\ at[t] = "dialing"
  /\ addr /\ net[mine[t]] = "dialing" /\ sock # mine[t]
  /\ sock # NoSocket => net[sock] = "dialing"
  /\ net' = [s \in Sockets |-> IF s = mine[t] THEN "open" ELSE IF s = sock THEN "free" ELSE net[s]]
  /\ sock' = NoSocket /\ state' = "idle"
  /\ at' = [at EXCEPT ![t] = "gone"]
  /\ after' = [after EXCEPT ![t] = Return(t)] /\ Returns(t)
  /\ mine' = [mine EXCEPT ![t] = NoSocket]
  /\ Unlock(t)
  /\ UNCHANGED << addr, connected, back, told, counts >>

\* The loop of mqtt_init ends as soon as the flag is set, by whichever thread.
Done(t) ==
  /\ connected
  /\ Goto(t, "await", Return(t)) /\ Returns(t)
  /\ UNCHANGED << addr, session, lock, net, back, after, mine, told, counts >>

\* After 50 polls of 100 ms; the socket stays open and the CONNACK may still come.
GiveUp(t) ==
  /\ ~connected
  /\ Goto(t, "await", Return(t)) /\ Returns(t)
  /\ IF On({"asked", "answered", "refused", "broken"}) THEN late < MaxLate /\ late' = late + 1 ELSE late' = late
  /\ UNCHANGED << addr, session, lock, net, back, after, mine, told, met, faults >>

-----------------------------------------------------------------------------
(* mqtt_input and handler                                                  *)

\* mqtt_input is called by the loop of mqtt_init, which ignores its result, ...
Polling(t) == Unlocked /\ at[t] \in {"await", "input"} /\ (at[t] = "await" => ~connected)
Proceed(t, then) == IF at[t] = "await" THEN "await" ELSE then

\* ... and by mqtt_sub, which drops the connection on an error.  It is one to have no
\* connection, and to have a payload unread.  A message that handler ignores, like a
\* command it does not know, is as if there were nothing.
NothingThere(t) ==
  /\ Polling(t)
  /\ ~On({"answered", "refused", "broken"})
  /\ at' = [at EXCEPT ![t] = Proceed(t, IF state = "idle" \/ On({"unread"}) THEN "drop" ELSE "live")]
  /\ UNCHANGED << addr, session, lock, net, control, told, counts >>

Accepted(t) ==
  /\ Polling(t) /\ On({"answered"})
  /\ Set(sock, "live")
  /\ state' = "connected"
  /\ at' = [at EXCEPT ![t] = "acked"]
  /\ after' = [after EXCEPT ![t] = Proceed(t, "live")]
  /\ UNCHANGED << addr, connected, sock, lock, back, nested, mine, told, counts >>

\* A refusal, or the end of the stream: the library closes the socket.
Closed(t) ==
  /\ Polling(t) /\ On({"refused", "broken"})
  /\ Disconnect(t, Proceed(t, "drop"))
  /\ UNCHANGED << addr, lock, back, nested, mine, told, counts >>

\* MQTT_EVT_PUBLISH: dispatch_cmd executes the command and reports the status, which may
\* call mqtt_init inside the one whose loop called mqtt_input: here only once.
Command(t) ==
  /\ Polling(t) /\ state = "connected" /\ On({"subscribed"})
  /\ at' = [at EXCEPT ![t] = "report"]
  /\ IF at[t] = "await"
     THEN t \notin nested /\ nested' = nested \union {t} /\ UNCHANGED back
     ELSE back' = [back EXCEPT ![t] = "live"] /\ UNCHANGED nested
  /\ UNCHANGED << addr, session, lock, net, after, mine, told, counts >>

\* The payload is too large, or cannot be read: handler leaves it.
Leave(t) ==
  /\ Polling(t) /\ state = "connected" /\ On({"subscribed"})
  /\ Set(sock, "unread")
  /\ Fault
  /\ at' = [at EXCEPT ![t] = Proceed(t, "live")]
  /\ UNCHANGED << addr, session, lock, control, told, late, met >>

\* MQTT_EVT_CONNACK, called with the mutex released
Acked(t) ==
  /\ Goto(t, "acked", "subscribe")
  /\ connected' = TRUE
  /\ UNCHANGED << addr, sock, state, lock, net, control, told, counts >>

\* handler returns, to where the library's call returns.
Handled(t, from) ==
  /\ Goto(t, from, after[t])
  /\ after' = [after EXCEPT ![t] = "await"]
  /\ UNCHANGED << back, nested, mine >>

\* Mutant: the topic is not subscribed to.
SubscribeNot(t) ==
  /\ Handled(t, "subscribe")
  /\ UNCHANGED << addr, session, lock, net, told, counts >>

\* mqtt_subscribe, whose failure is only logged
Subscribe(t) ==
  /\ Unlocked
  /\ Handled(t, "subscribe")
  /\ net' = IF state = "connected" /\ On({"live"})
            THEN [net EXCEPT ![sock] = "subscribed"] ELSE net
  /\ UNCHANGED << addr, session, lock, told, counts >>

\* MQTT_EVT_DISCONNECT
Gone(t) ==
  /\ Handled(t, "gone")
  /\ connected' = FALSE
  /\ UNCHANGED << addr, sock, state, lock, net, told, counts >>

-----------------------------------------------------------------------------
(* publish_msg                                                             *)

Report(t) ==
  /\ Goto(t, "report", IF connected THEN "publish" ELSE "init")
  /\ told' = IF t = "main" /\ ~connected THEN FALSE ELSE told
  /\ UNCHANGED << addr, session, lock, net, control, counts >>

\* mqtt_publish, whose failure is only logged; on a connection that is broken but not
\* known to be the message is lost.
Publish(t) ==
  /\ Unlocked
  /\ Goto(t, "publish", Return(t)) /\ Returns(t)
  /\ told' = IF t = "main" THEN state = "connected" /\ On(InSession) ELSE told
  /\ UNCHANGED << addr, session, lock, net, back, after, mine, counts >>

\* Or the write fails, and the library closes the socket.
PublishBroken(t) ==
  /\ Unlocked /\ at[t] = "publish"
  /\ state = "connected" /\ On({"broken"})
  /\ Disconnect(t, Return(t)) /\ Returns(t)
  /\ told' = IF t = "main" THEN FALSE ELSE told
  /\ UNCHANGED << addr, lock, back, mine, counts >>

-----------------------------------------------------------------------------
(* mqtt_thread                                                             *)

Loop ==
  /\ Goto("mqtt_sub", "loop", IF connected THEN "poll" ELSE "init")
  /\ back' = [back EXCEPT !["mqtt_sub"] = "loop"]
  /\ UNCHANGED << addr, session, lock, net, after, nested, mine, told, counts >>

\* Mutant: a second without a message is taken for the end of the connection.
PollImpatient ==
  /\ Goto("mqtt_sub", "poll", "loop")
  /\ connected' = FALSE
  /\ UNCHANGED << addr, sock, state, lock, net, control, told, counts >>

\* zsock_poll for one second: there is something to read, ...
PollInput ==
  /\ Goto("mqtt_sub", "poll", "input") /\ sock # NoSocket
  /\ UNCHANGED << addr, session, lock, net, control, told, counts >>

\* ... or not, or not on the socket that the client had when poll was called, or there is
\* only an error to be seen: what poll says else is not looked at.
PollNothing ==
  /\ Goto("mqtt_sub", "poll", "live")
  /\ UNCHANGED << addr, session, lock, net, control, told, counts >>

\* Or it fails.
PollFails ==
  /\ Goto("mqtt_sub", "poll", "abort")
  /\ Fault
  /\ connected' = FALSE
  /\ UNCHANGED << addr, sock, state, lock, net, control, told, late, met >>

Poll == PollInput \/ PollNothing \/ PollFails

\* Mutant: mqtt_live is not called, or its result not looked at.
LiveIgnored ==
  /\ Goto("mqtt_sub", "live", "loop")
  /\ UNCHANGED << addr, session, lock, net, control, told, counts >>

\* mqtt_live pings when the keep-alive time is over; without a session it fails.
Live ==
  /\ Unlocked
  /\ Goto("mqtt_sub", "live", IF Session THEN "loop" ELSE "drop")
  /\ UNCHANGED << addr, session, lock, net, control, told, counts >>

\* The ping cannot be written, and the library closes the socket.
PingFails ==
  /\ Unlocked /\ at["mqtt_sub"] = "live"
  /\ state = "connected" /\ On({"broken"})
  /\ Disconnect("mqtt_sub", "drop")
  /\ UNCHANGED << addr, lock, back, nested, mine, told, counts >>

\* Mutant: the flag is left to the callback of mqtt_abort.
DropKeepsFlag ==
  /\ Goto("mqtt_sub", "drop", "abort")
  /\ UNCHANGED << addr, session, lock, net, control, told, counts >>

Drop ==
  /\ Goto("mqtt_sub", "drop", "abort")
  /\ connected' = FALSE
  /\ UNCHANGED << addr, sock, state, lock, net, control, told, counts >>

\* mqtt_abort closes what the client has now, if it has anything.
Abort ==
  /\ Unlocked
  /\ at["mqtt_sub"] = "abort"
  /\ IF state = "idle"
     THEN Goto("mqtt_sub", "abort", "loop") /\ UNCHANGED << addr, session, net, after >>
     ELSE Disconnect("mqtt_sub", "loop")
  /\ UNCHANGED << addr, lock, back, nested, mine, told, counts >>

-----------------------------------------------------------------------------
(* The broker and the network                                              *)

\* A CONNECT ends the other sessions of the same client identifier.
Answer(s) ==
  /\ addr /\ net[s] = "asked"
  /\ net' = [r \in Sockets |-> IF r = s THEN "answered"
                               ELSE IF net[r] \in InSession \union {"answered"} THEN "broken"
                               ELSE net[r]]
  /\ UNCHANGED << addr, session, lock, at, control, told, counts >>

Refuse(s) ==
  /\ addr /\ net[s] = "asked"
  /\ Set(s, "refused")
  /\ Fault
  /\ UNCHANGED << addr, session, lock, at, control, told, late, met >>

Break(s) ==
  /\ net[s] \in InSession \union {"asked", "answered"}
  /\ Set(s, "broken")
  /\ Fault
  /\ UNCHANGED << addr, session, lock, at, control, told, late, met >>

\* The address is gone, and with it what the sockets were connected to.
LoseAddress ==
  /\ addr /\ addr' = FALSE
  /\ net' = [s \in Sockets |-> IF net[s] \in {"free", "dialing", "open"} THEN net[s] ELSE "broken"]
  /\ UNCHANGED << session, lock, at, control, told, late, met >>

GainAddress ==
  /\ ~addr /\ addr' = TRUE
  /\ UNCHANGED << session, lock, net, at, control, told, counts >>

-----------------------------------------------------------------------------
(* The specification                                                       *)

Attempt(t) ==
  \/ Wipe(t) \/ Dial(t) \/ NoneLeft(t) \/ DialFails(t) \/ Ask(t)
  \/ AskTwice(t) \/ AskNobody(t) \/ Done(t) \/ GiveUp(t)

Hear(t) ==
  \/ NothingThere(t) \/ Accepted(t) \/ Closed(t) \/ Command(t) \/ Leave(t)
  \/ Acked(t) \/ Subscribe(t) \/ Gone(t)

Run(t) == Attempt(t) \/ Hear(t) \/ Report(t) \/ Publish(t) \/ PublishBroken(t)
Serve == Loop \/ Poll \/ Live \/ PingFails \/ Drop \/ Abort
Outside == \E s \in Sockets : Answer(s) \/ Refuse(s) \/ Break(s)

LinkNext ==
  \/ Online \/ (\E t \in Threads : Run(t)) \/ Serve
  \/ Outside \/ GainAddress \/ (LoseAddress /\ Fault)

\* The end of a connection shows: as something to read, or in a ping that fails.
Notice == (PollInput /\ On({"answered", "refused", "unread", "broken"})) \/ PingFails

\* A thread that can run does; an attempt to connect comes to an end; the broker
\* answers what it was asked; and what is to be noticed is not overlooked for ever.
LinkFairness ==
  /\ WF_linkVars(Online) /\ WF_linkVars(GainAddress)
  /\ WF_linkVars(Run("main")) /\ WF_linkVars(Run("mqtt_sub") \/ Serve)
  /\ SF_linkVars(Notice)
  /\ \A s \in Sockets : WF_linkVars(Answer(s))

LinkSpec == LinkInit /\ [][LinkNext]_linkVars /\ LinkFairness

-----------------------------------------------------------------------------
(* Properties                                                              *)

LinkTypeOK ==
  /\ addr \in BOOLEAN
  /\ connected \in BOOLEAN
  /\ sock \in Sockets \union {NoSocket}
  /\ state \in {"idle", "tcp", "connected"}
  /\ lock \in Threads \union {NoThread}
  /\ net \in [Sockets -> NetState]
  /\ at["main"] \in Shared \union MainAt /\ at["mqtt_sub"] \in Shared \union SubAt
  /\ back["main"] = "report" /\ back["mqtt_sub"] \in {"loop", "live"}
  /\ \A t \in Threads : after[t] \in Shared \union SubAt
  /\ nested \subseteq Threads
  /\ mine \in [Threads -> Sockets \union {NoSocket}]
  /\ \A t \in Threads : lock = t => at[t] = "dialing"
  /\ told \in BOOLEAN
  /\ late \in 0 .. MaxLate /\ met \in 0 .. MeetingsCounted /\ faults \in 0 .. MaxFaults

\* Descriptors that are allocated and that nobody will ever close.
Orphans == {s \in Sockets : net[s] # "free" /\ s # sock /\ \A t \in Threads : mine[t] # s}

\* A descriptor is lost only to a CONNACK that came after mqtt_init had given up
\* (mqtt.c:183), or to mqtt_init zeroing a client that the other thread was using
\* (mqtt.c:159), as long as these are counted: every other way to a new connection
\* closes the old one.
OrphansExplained == met < MeetingsCounted => Cardinality(Orphans) <= late + 2 * met

\* A flag left set over a client without a session, by a callback of an older
\* connection or by the other thread's mqtt_init, is noticed and cleared.
FlagRepaired == (connected /\ state # "connected") ~> (~connected \/ state = "connected")

\* main's reports reach the broker again and again.
TelemetryResumes == []<>(at["main"] = "report" /\ told)

\* The session has its subscription again and again.
CommandsResume == []<>(state = "connected" /\ On({"subscribed"}))

\* One thread zeroes the client while the other uses it.
Meeting == \E t \in Threads : Wipe(t) /\ Using(Other(t))

\* Nothing can be promised when every descriptor has been lost, nor when the threads end
\* each other's connections for ever, each time with a new call of mqtt_init.
Hopeless == <>[](Orphans = Sockets) \/ []<><<Meeting>>_linkVars

\* As long as the threads do not meet in mqtt_init, main's reports come through again.
ResumesUnmet == <>(met > 0) \/ TelemetryResumes

\* However often they have met, whatever broke before and whichever thread notices it
\* first, the reports come through again: one descriptor that is left is enough.
TelemetryRecovers == TelemetryResumes \/ Hopeless

\* And so do the commands, which need a session that has subscribed.
CommandsRecover == CommandsResume \/ Hopeless

=============================================================================
