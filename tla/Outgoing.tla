------------------------------ MODULE Outgoing ------------------------------
(***************************************************************************)
(* The channel to the dashboard (src/outgoing.rs) and the threads that     *)
(* share it: the main thread, which accepts one client after another,      *)
(* points the channel at it and greets it with the configuration           *)
(* (server.rs); the sensor threads, which look whether there is a target   *)
(* and then send; and the driver status thread, which just sends           *)
(* (data.rs).                                                              *)
(*                                                                         *)
(* A message reaches the socket in several writes, because serde_json      *)
(* serialises straight into an unbuffered TcpStream.  Each write is a step *)
(* here; it blocks while the dashboard does not read, since the socket has *)
(* no timeout.  message_log is only ever locked by the thread that already *)
(* holds the write half of dash_channel, so it needs no variable.          *)
(***************************************************************************)
EXTENDS Naturals, Sequences, FiniteSets

CONSTANTS
  Sensor,         \* the sensor threads
  DriverStatus,   \* the driver status thread
  Main,           \* the main thread
  Conn,           \* connections the dashboard may open
  NoConn,
  Nobody,
  Parts,          \* socket writes in one message
  MaxMessages,    \* bound: messages the sensor and status threads start
  LogFaults       \* threads that may fail to write a log, or to clone a socket

Reporter == Sensor \cup {DriverStatus}
Sender   == Reporter \cup {Main}

ASSUME ThreadsAssumption == /\ DriverStatus \notin Sensor
                            /\ Main \notin Reporter
                            /\ Nobody \notin Sender
ASSUME ConnAssumption    == NoConn \notin Conn
ASSUME BoundsAssumption  == Parts \in Nat \ {0} /\ MaxMessages \in Nat
ASSUME FaultsAssumption  == LogFaults \subseteq Sender

VARIABLES
  channel,      \* DashChannel.dash_channel: the connection it holds, or NoConn
  lock,         \* which thread holds the write half of its RwLock
  pc,           \* where each thread is
  part,         \* how many writes of its message or log row a sender has done
  message_log,  \* sent.csv: the fields written to it, in order
  serving,      \* the client that the main thread is handling
  accepted,     \* the connections the listener has handed out
  peer,         \* what the dashboard does with each connection
  wire,         \* the writes each connection has taken, in order
  started       \* messages started by reporters (for the bound)

\* History variables: no action reads them.
VARIABLES
  delivered,    \* the senders of the messages written whole, in order
  attached,     \* the connections the channel has held
  failed        \* which logs have failed, of sent.csv and the user log

threads == <<channel, lock, pc, part, serving, accepted, started>>
history == <<delivered, attached, failed>>
vars == <<threads, message_log, peer, wire, history>>

LogField == {"time", "message", "newline"}
LogRow   == <<"time", "message", "newline">>
Pc   == {"idle", "send", "writing", "logging", "ended",
         "accept", "accepted", "attach", "attached", "reading"}
Peer == {"absent", "reading", "stalled", "closed"}

TypeOK ==
  /\ channel \in Conn \cup {NoConn}
  /\ lock \in Sender \cup {Nobody}
  /\ pc \in [Sender -> Pc]
  /\ part \in [Sender -> 0 .. Parts + Len(LogRow)]
  /\ message_log \in Seq([from : Sender, field : LogField])
  /\ serving \in Conn \cup {NoConn}
  /\ accepted \subseteq Conn
  /\ peer \in [Conn -> Peer]
  /\ wire \in [Conn -> Seq([from : Sender, part : 1 .. Parts])]
  /\ started \in 0 .. MaxMessages
  /\ delivered \in Seq(Sender)
  /\ attached \subseteq accepted
  /\ failed \subseteq {"sent", "user"}

Init ==
  /\ channel = NoConn
  /\ lock = Nobody
  /\ pc = [s \in Sender |-> IF s = Main THEN "accept" ELSE "idle"]
  /\ part = [s \in Sender |-> 0]
  /\ message_log = <<>>
  /\ serving = NoConn
  /\ accepted = {}
  /\ peer = [c \in Conn |-> "absent"]
  /\ wire = [c \in Conn |-> <<>>]
  /\ started = 0
  /\ delivered = <<>>
  /\ attached = {}
  /\ failed = {}

-----------------------------------------------------------------------------
\* DashChannel::send, called with pc[s] = "send".

\* Mutant: the count of writes is not reset.
GoToKeepsCount(s, label) ==
  /\ pc' = [pc EXCEPT ![s] = label]
  /\ part' = [part EXCEPT ![s] = @ + 1]

GoTo(s, label) ==
  /\ pc' = [pc EXCEPT ![s] = label]
  /\ part' = [part EXCEPT ![s] = 0]

\* What the caller makes of the result: a reporter's loop goes on, or returns
\* the error and is over; handle_client goes on to read commands, or returns to
\* the accept loop, which discards the error.
SendReturns(s, ok) ==
  /\ GoTo(s, CASE s = Main /\ ok   -> "reading"
               [] s = Main /\ ~ ok -> "accept"
               [] s # Main /\ ok   -> "idle"
               [] s # Main /\ ~ ok -> "ended")
  /\ serving' = IF s = Main /\ ~ ok THEN NoConn ELSE serving
  /\ UNCHANGED <<accepted, started>>

\* No target: nothing is written, and that is no error.
SendNowhere(s) ==
  /\ pc[s] = "send"
  /\ lock = Nobody
  /\ channel = NoConn
  /\ SendReturns(s, TRUE)
  /\ UNCHANGED <<channel, lock, message_log, peer, wire, history>>

BeginSend(s) ==
  /\ pc[s] = "send"
  /\ lock = Nobody
  /\ channel # NoConn
  /\ lock' = s
  /\ GoTo(s, "writing")
  /\ UNCHANGED <<channel, serving, accepted, started, message_log, peer, wire,
                 history>>

\* The kernel takes one more write; to a connection that the dashboard has
\* closed too, until the reset arrives.
WritePart(s) ==
  /\ pc[s] = "writing"
  /\ peer[channel] # "stalled"
  /\ wire' = [wire EXCEPT ![channel] = Append(@, [from |-> s, part |-> part[s] + 1])]
  /\ IF part[s] + 1 < Parts
     THEN /\ part' = [part EXCEPT ![s] = @ + 1]
          /\ UNCHANGED <<pc, delivered>>
     ELSE /\ GoTo(s, "logging")
          /\ delivered' = Append(delivered, s)
  /\ UNCHANGED <<channel, lock, serving, accepted, started, message_log, peer, attached, failed>>

\* Mutant: the broken connection stays the target.
WriteFailsKeepsTarget(s) ==
  /\ pc[s] = "writing"
  /\ peer[channel] = "closed"
  /\ lock' = Nobody
  /\ SendReturns(s, TRUE)
  /\ UNCHANGED <<channel, message_log, peer, wire, history>>

\* Mutant: a failed write is logged like a successful one.
WriteFailsLogged(s) ==
  /\ pc[s] = "writing"
  /\ peer[channel] = "closed"
  /\ channel' = NoConn
  /\ GoTo(s, "logging")
  /\ UNCHANGED <<lock, serving, accepted, started, message_log, peer, wire, history>>

\* Mutant: the early return forgets to release the channel.
WriteFailsKeepsLock(s) ==
  /\ pc[s] = "writing"
  /\ peer[channel] = "closed"
  /\ channel' = NoConn
  /\ SendReturns(s, TRUE)
  /\ UNCHANGED <<lock, message_log, peer, wire, history>>

\* The connection is gone: the target is forgotten, and that is no error.
WriteFails(s) ==
  /\ pc[s] = "writing"
  /\ peer[channel] = "closed"
  /\ channel' = NoConn
  /\ lock' = Nobody
  /\ SendReturns(s, TRUE)
  /\ UNCHANGED <<message_log, peer, wire, history>>

\* The message was written: a row of sent.csv, in three writes.
LogPart(s) ==
  /\ pc[s] = "logging"
  /\ message_log' = Append(message_log, [from |-> s, field |-> LogRow[part[s] + 1]])
  /\ IF part[s] + 1 < Len(LogRow)
     THEN /\ part' = [part EXCEPT ![s] = @ + 1]
          /\ UNCHANGED <<lock, pc, serving, accepted, started>>
     ELSE /\ lock' = Nobody
          /\ SendReturns(s, TRUE)
  /\ UNCHANGED <<channel, peer, wire, history>>

\* sent.csv cannot be written: Error::LogFile.  The target is kept.
LogFails(s) ==
  /\ pc[s] = "logging"
  /\ s \in LogFaults
  /\ failed' = failed \cup {"sent"}
  /\ lock' = Nobody
  /\ SendReturns(s, FALSE)
  /\ UNCHANGED <<channel, message_log, peer, wire, delivered, attached>>

-----------------------------------------------------------------------------
\* sensor_listen and driver_status_listen.

\* sensor_listen calls send only if has_target; the lock is released between.
\* Without a target its readings are thrown away and nothing changes here.
StartReport(s) ==
  /\ pc[s] = "idle"
  /\ started < MaxMessages
  /\ s \in Sensor => lock = Nobody /\ channel # NoConn
  /\ started' = started + 1
  /\ GoTo(s, "send")
  /\ UNCHANGED <<channel, lock, serving, accepted, message_log, peer, wire,
                 history>>

-----------------------------------------------------------------------------
\* The accept loop of run, and handle_client.

\* The next client, which may have left again in the meantime.
Accept(c) ==
  /\ pc[Main] = "accept"
  /\ peer[c] # "absent"
  /\ c \notin accepted
  /\ accepted' = accepted \cup {c}
  /\ serving' = c
  /\ GoTo(Main, "accepted")
  /\ UNCHANGED <<channel, lock, started, message_log, peer, wire, history>>

\* One of the `?`s of the loop: peer_addr on a connection that was reset, a
\* stream that cannot be cloned, or a line of the user log - that no client could
\* be collected, that one was accepted, or that the channel was overwritten, which
\* keeps the client as its target.  The closure returns, and the scope waits for
\* threads that go on.  set_channel itself only waits.
AcceptLoopEnds ==
  /\ \/ /\ pc[Main] = "accepted"
        /\ peer[serving] = "closed" \/ Main \in LogFaults
        /\ UNCHANGED failed
     \/ /\ pc[Main] \in {"accept", "accepted", "attached"}
        /\ Main \in LogFaults
        /\ failed' = failed \cup {"user"}
  /\ GoTo(Main, "ended")
  /\ serving' = NoConn
  /\ UNCHANGED <<channel, lock, accepted, started, message_log, peer, wire, delivered, attached>>

\* The main thread goes on, with everything it did logged: from the accepted
\* client to set_channel, and from there to its greeting.
MainGoesOn(from, to) ==
  /\ pc[Main] = from
  /\ GoTo(Main, to)
  /\ UNCHANGED <<channel, lock, serving, accepted, started, message_log, peer, wire, history>>

Duplicate == MainGoesOn("accepted", "attach")

SetChannel ==
  /\ pc[Main] = "attach"
  /\ lock = Nobody
  /\ channel' = serving
  /\ attached' = attached \cup {serving}
  /\ GoTo(Main, "attached")
  /\ UNCHANGED <<lock, serving, accepted, started, message_log, peer, wire, delivered, failed>>

Greet == MainGoesOn("attached", "send")

\* Mutant: a malformed command ends the conversation like a disconnection.
ClientDoneOnMalformed ==
  /\ pc[Main] = "reading"
  /\ UNCHANGED failed
  /\ GoTo(Main, "accept")
  /\ serving' = NoConn
  /\ UNCHANGED <<channel, lock, accepted, started, message_log, peer, wire, delivered, attached>>

\* handle_client returns: Ok when the dashboard has closed the connection, an
\* error when the user log cannot be written.  The channel keeps its clone.
ClientDone ==
  /\ pc[Main] = "reading"
  /\ \/ peer[serving] = "closed" /\ UNCHANGED failed
     \/ Main \in LogFaults /\ failed' = failed \cup {"user"}
  /\ GoTo(Main, "accept")
  /\ serving' = NoConn
  /\ UNCHANGED <<channel, lock, accepted, started, message_log, peer, wire, delivered, attached>>

-----------------------------------------------------------------------------
\* The dashboard: it connects, may stop reading for a while, and leaves.

PeerMoves(c, from, to) ==
  /\ peer[c] \in from
  /\ peer' = [peer EXCEPT ![c] = to]
  /\ UNCHANGED <<threads, message_log, wire, history>>

Connect(c) == PeerMoves(c, {"absent"}, "reading")
Stall(c)   == PeerMoves(c, {"reading"}, "stalled")
Resume(c)  == PeerMoves(c, {"stalled"}, "reading")
Close(c)   == PeerMoves(c, {"reading", "stalled"}, "closed")

-----------------------------------------------------------------------------
\* The steps of send that need no fault of the controller's own.
SendOn(s) == \/ SendNowhere(s) \/ BeginSend(s) \/ WritePart(s)
             \/ WriteFails(s) \/ LogPart(s)

Send(s) == SendOn(s) \/ LogFails(s)

\* The steps of the accept loop that need none, and no client.
AcceptOn == Duplicate \/ SetChannel \/ Greet

AcceptLoop == AcceptOn \/ (\E c \in Conn : Accept(c)) \/ AcceptLoopEnds \/ ClientDone

Dashboard(c) == Connect(c) \/ Stall(c) \/ Resume(c) \/ Close(c)

Next ==
  \/ \E s \in Sender : Send(s)
  \/ \E s \in Reporter : StartReport(s)
  \/ AcceptLoop
  \/ \E c \in Conn : Dashboard(c)

\* A thread that can go on, again and again, does in the end; that one of its logs
\* could fail is not going on.  For the lock: those that take it sleep in between.
\* A blocked write goes on when the dashboard reads, and fails when it has left.
GoesOn(s) == SendOn(s) \/ (s = Main /\ AcceptOn)

Fairness == \A s \in Sender : SF_vars(GoesOn(s))

Spec == Init /\ [][Next]_vars /\ Fairness

-----------------------------------------------------------------------------
\* Safety.

\* A connection's writes cut into messages; one that is not the writes of a
\* single message in their order is garbled.
Messages(c) ==
  [m \in 1 .. Len(wire[c]) \div Parts |->
     LET write(i) == wire[c][(m - 1) * Parts + i]
     IN  IF \A i \in 1 .. Parts : write(i) = [from |-> write(1).from, part |-> i]
         THEN write(1).from
         ELSE "garbled"]

\* Senders that overlap, clients that replace one another and connections that
\* break in the middle of a message never mix or repeat messages: the channel
\* implements Delivery (send under the write half of the RwLock, the target
\* overwritten with None when a write fails).
D == INSTANCE Delivery WITH current <- channel, got <- [c \in Conn |-> Messages(c)]
DeliversWholeMessages == D!Spec

\* sent.csv has one well-formed row for every message that was written whole,
\* in the order of the messages, and no other, as long as it can be written;
\* at most the message of the thread that holds the lock is missing.
LogMatchesWire ==
  LET rows == Len(message_log) \div Len(LogRow)
  IN  "sent" \notin failed =>
        /\ Len(message_log) <= Len(delivered) * Len(LogRow)
        /\ Len(delivered) \in {rows, rows + 1}
        /\ lock = Nobody => Len(delivered) = rows
        /\ \A i \in DOMAIN message_log :
             message_log[i] = [from  |-> delivered[((i - 1) \div Len(LogRow)) + 1],
                               field |-> LogRow[((i - 1) % Len(LogRow)) + 1]]

\* A dashboard that is being sent messages and is still there is also being
\* listened to, unless a log could not be written: the channel's target and the
\* client that handle_client reads from are the same connection.
TargetIsServed ==
  failed = {} /\ channel # NoConn /\ peer[channel] # "closed" => serving = channel

-----------------------------------------------------------------------------
\* Liveness.

NobodyStallsForever == <>[](\A c \in Conn : peer[c] # "stalled")

\* A client that was accepted is greeted and then listened to, or given up, even
\* while the reporters write to the client before it, or write to it first,
\* provided no dashboard stops reading for good: set_channel and send wait for the
\* channel, which every return of send gives back.
ClientsAreGreeted ==
  NobodyStallsForever =>
    (pc[Main] \in {"accepted", "attach", "attached", "send"}
       ~> pc[Main] \in {"reading", "accept", "ended"})

-----------------------------------------------------------------------------
\* What the repository says of the program and the code does not do.

\* api.md, "Configuration setup": a Config message is given at the start of the
\* conversation.  The first write on every connection is the main thread's.
ConfigFirst == \A c \in Conn : wire[c] # <<>> => wire[c][1].from = Main
=============================================================================
