--------------------------- MODULE OutgoingProofs ---------------------------
(***************************************************************************)
(* Proofs about Outgoing, for any number of senders and connections and    *)
(* any length of a message: the types, that sent.csv agrees with what was  *)
(* written (LogMatchesWire), that the channel's target is the client being *)
(* served (TargetIsServed), and that the channel implements Delivery       *)
(* (DeliversWholeMessages).                                                *)
(***************************************************************************)
EXTENDS Outgoing, TLAPS

\* send holds the write half of dash_channel from its first write to the end of
\* its log row.
HoldsLock == \A s \in Sender : pc[s] \in {"writing", "logging"} => lock = s

\* The writes of a message and of a row are counted from nought.
PartsLeft ==
  \A s \in Sender : /\ pc[s] = "writing" => part[s] < Parts /\ channel \in Conn
                    /\ pc[s] = "logging" => part[s] < Len(LogRow)

\* The main thread has a client exactly while it handles one, which is not the
\* target before set_channel.
MainServes ==
  /\ channel \in accepted \cup {NoConn}
  /\ pc[Main] = "accept" => serving = NoConn
  /\ pc[Main] \in {"accepted", "attach"} => serving \in accepted /\ serving # channel

IInv == TypeOK /\ HoldsLock /\ PartsLeft /\ MainServes

LEMMA RowLength == Len(LogRow) = 3
  BY DEF LogRow

LEMMA MainSends == Main \in Sender /\ Nobody \notin Sender
  BY ThreadsAssumption DEF Sender

LEMMA InitIInv == Init => IInv
<1> SUFFICES ASSUME Init PROVE IInv
  OBVIOUS
<1>1. TypeOK
  BY RowLength, BoundsAssumption DEF Init, TypeOK, Pc, Peer
<1>2. HoldsLock /\ PartsLeft /\ MainServes
  BY MainSends DEF Init, HoldsLock, PartsLeft, MainServes
<1> QED  BY <1>1, <1>2 DEF IInv

\* A thread that goes on with its count reset.
LEMMA GoToTypes ==
  ASSUME TypeOK, NEW s \in Sender, NEW label \in Pc, GoTo(s, label)
  PROVE  /\ pc' \in [Sender -> Pc] /\ part' \in [Sender -> 0 .. Parts + Len(LogRow)]
         /\ pc'[s] = label /\ part'[s] = 0
         /\ \A r \in Sender : r # s => pc'[r] = pc[r] /\ part'[r] = part[r]
  BY RowLength, BoundsAssumption DEF GoTo, TypeOK

LEMMA SendReturnsTypes ==
  ASSUME TypeOK, NEW s \in Sender, NEW ok \in BOOLEAN, SendReturns(s, ok)
  PROVE  /\ pc' \in [Sender -> Pc] /\ part' \in [Sender -> 0 .. Parts + Len(LogRow)]
         /\ pc'[s] \in {"reading", "accept", "idle", "ended"}
         /\ s = Main => pc'[Main] = IF ok THEN "reading" ELSE "accept"
         /\ \A r \in Sender : r # s => pc'[r] = pc[r] /\ part'[r] = part[r]
         /\ serving' = IF s = Main /\ ~ ok THEN NoConn ELSE serving
         /\ UNCHANGED <<accepted, started>>
<1>1. ASSUME NEW label \in Pc, GoTo(s, label)
      PROVE  /\ pc' \in [Sender -> Pc] /\ part' \in [Sender -> 0 .. Parts + Len(LogRow)]
             /\ pc'[s] = label
             /\ \A r \in Sender : r # s => pc'[r] = pc[r] /\ part'[r] = part[r]
  BY <1>1, GoToTypes
<1>2. CASE s = Main /\ ok
  BY <1>1, <1>2 DEF SendReturns, Pc
<1>3. CASE s = Main /\ ~ ok
  BY <1>1, <1>3 DEF SendReturns, Pc
<1>4. CASE s # Main /\ ok
  BY <1>1, <1>4 DEF SendReturns, Pc
<1>5. CASE s # Main /\ ~ ok
  BY <1>1, <1>5 DEF SendReturns, Pc
<1> QED  BY <1>2, <1>3, <1>4, <1>5

\* A thread that is not writing afterwards, and that had the lock if it did
\* anything to it or to the channel, takes nothing from the others.
LEMMA LeavesAlone ==
  ASSUME IInv, NEW s \in Sender,
         pc'[s] \notin {"writing", "logging"},
         \A r \in Sender : r # s => pc'[r] = pc[r] /\ part'[r] = part[r],
         UNCHANGED <<lock, channel>> \/ lock \in {s, Nobody}
  PROVE  HoldsLock' /\ PartsLeft'
<1>1. ASSUME NEW r \in Sender, pc'[r] \in {"writing", "logging"}
      PROVE  lock' = r /\ channel' = channel /\ pc'[r] = pc[r] /\ part'[r] = part[r]
  BY <1>1, MainSends DEF IInv, HoldsLock
<1>2. HoldsLock'
  BY <1>1 DEF HoldsLock
<1>3. PartsLeft'
  BY <1>1 DEF IInv, PartsLeft
<1> QED  BY <1>2, <1>3

LEMMA ReturnLeavesAlone ==
  ASSUME IInv, NEW s \in Sender, NEW ok \in BOOLEAN, SendReturns(s, ok), lock \in {s, Nobody},
         channel' \in {channel, NoConn}
  PROVE  HoldsLock' /\ PartsLeft' /\ MainServes'
<1>1. /\ pc'[s] \notin {"writing", "logging"}
      /\ \A r \in Sender : r # s => pc'[r] = pc[r] /\ part'[r] = part[r]
  BY SendReturnsTypes DEF IInv
<1>2. HoldsLock' /\ PartsLeft'
  BY <1>1, LeavesAlone
<1>3. CASE s = Main
  <2>1. pc'[Main] = IF ok THEN "reading" ELSE "accept"
    BY <1>3, SendReturnsTypes DEF IInv
  <2>2. serving' = IF ok THEN serving ELSE NoConn
    BY <1>3, SendReturnsTypes DEF IInv
  <2>3. accepted' = accepted
    BY SendReturnsTypes DEF IInv
  <2> QED  BY <1>2, <2>1, <2>2, <2>3 DEF IInv, MainServes
<1>4. CASE s # Main
  <2>1. pc'[Main] = pc[Main]
    BY <1>1, <1>4, MainSends
  <2>2. serving' = serving /\ accepted' = accepted
    BY <1>4, SendReturnsTypes DEF IInv
  <2> QED  BY <1>2, <2>1, <2>2, ConnAssumption DEF IInv, TypeOK, MainServes
<1> QED  BY <1>3, <1>4

\* One more write of a message or a row.
LEMMA CountTypes ==
  ASSUME TypeOK, NEW s \in Sender, part[s] < Parts + Len(LogRow),
         part' = [part EXCEPT ![s] = @ + 1]
  PROVE  /\ part' \in [Sender -> 0 .. Parts + Len(LogRow)]
         /\ part'[s] = part[s] + 1
         /\ \A r \in Sender : r # s => part'[r] = part[r]
<1>1. part \in [Sender -> 0 .. Parts + Len(LogRow)]
  BY DEF TypeOK
<1>2. part[s] + 1 \in 0 .. Parts + Len(LogRow)
  BY <1>1, RowLength, BoundsAssumption
<1> QED  BY <1>1, <1>2

-----------------------------------------------------------------------------
\* One lemma for each kind of step.

LEMMA IInvSendNowhere ==
  ASSUME IInv, NEW s \in Sender, SendNowhere(s) PROVE IInv'
<1>1. TypeOK'
  BY SendReturnsTypes DEF IInv, SendNowhere, history, TypeOK
<1>2. HoldsLock' /\ PartsLeft' /\ MainServes'
  BY ReturnLeavesAlone DEF SendNowhere
<1> QED  BY <1>1, <1>2 DEF IInv

LEMMA IInvBeginSend ==
  ASSUME IInv, NEW s \in Sender, BeginSend(s) PROVE IInv'
<1>1. "writing" \in Pc
  BY DEF Pc
<1>2. TypeOK'
  BY <1>1, GoToTypes DEF IInv, BeginSend, history, TypeOK
<1>3. /\ pc'[s] = "writing" /\ part'[s] = 0
      /\ \A r \in Sender : r # s => pc'[r] = pc[r]
  BY <1>1, GoToTypes DEF IInv, BeginSend
<1>4. ASSUME NEW r \in Sender, pc'[r] \in {"writing", "logging"} PROVE r = s
  BY <1>3, <1>4, MainSends DEF IInv, BeginSend, HoldsLock
<1>5. HoldsLock'
  BY <1>4 DEF BeginSend, HoldsLock
<1>6. PartsLeft'
  BY <1>3, <1>4, BoundsAssumption DEF IInv, BeginSend, PartsLeft, TypeOK
<1>7. MainServes'
  BY <1>3, MainSends DEF IInv, BeginSend, MainServes
<1> QED  BY <1>2, <1>5, <1>6, <1>7 DEF IInv

LEMMA IInvWritePart ==
  ASSUME IInv, NEW s \in Sender, WritePart(s) PROVE IInv'
<1>1. "logging" \in Pc /\ channel \in Conn /\ part[s] \in Nat /\ part[s] < Parts
  BY BoundsAssumption, RowLength DEF Pc, IInv, WritePart, PartsLeft, TypeOK
<1>2. wire' \in [Conn -> Seq([from : Sender, part : 1 .. Parts])]
  <2> DEFINE write == [from |-> s, part |-> part[s] + 1]
  <2>1. write \in [from : Sender, part : 1 .. Parts]
    BY <1>1, BoundsAssumption
  <2>2. wire[channel] \in Seq([from : Sender, part : 1 .. Parts])
    BY <1>1 DEF IInv, TypeOK
  <2>3. Append(wire[channel], write) \in Seq([from : Sender, part : 1 .. Parts])
    BY <2>1, <2>2
  <2>4. wire' = [wire EXCEPT ![channel] = Append(wire[channel], write)]
    BY DEF WritePart
  <2> QED  BY <1>1, <2>3, <2>4 DEF IInv, TypeOK
<1>3. CASE part[s] + 1 < Parts
  <2>1. /\ part' \in [Sender -> 0 .. Parts + Len(LogRow)] /\ part'[s] = part[s] + 1
        /\ \A r \in Sender : r # s => part'[r] = part[r]
        /\ UNCHANGED <<pc, delivered>>
    BY <1>1, <1>3, BoundsAssumption, RowLength, CountTypes DEF IInv, WritePart
  <2>2. TypeOK'
    BY <1>2, <2>1 DEF IInv, WritePart, TypeOK
  <2>3. HoldsLock' /\ PartsLeft' /\ MainServes'
    BY <1>3, <2>1 DEF IInv, WritePart, HoldsLock, PartsLeft, MainServes
  <2> QED  BY <2>2, <2>3 DEF IInv
<1>4. CASE ~ (part[s] + 1 < Parts)
  <2>1. GoTo(s, "logging") /\ delivered' = Append(delivered, s)
    BY <1>4 DEF WritePart
  <2>2. TypeOK'
    <3>1. delivered' \in Seq(Sender)
      BY <2>1 DEF IInv, TypeOK
    <3>2. pc' \in [Sender -> Pc] /\ part' \in [Sender -> 0 .. Parts + Len(LogRow)]
      BY <1>1, <2>1, GoToTypes DEF IInv
    <3> QED  BY <1>2, <3>1, <3>2 DEF IInv, WritePart, TypeOK
  <2>3. /\ pc'[s] = "logging" /\ part'[s] = 0
        /\ \A r \in Sender : r # s => pc'[r] = pc[r] /\ part'[r] = part[r]
    BY <1>1, <2>1, GoToTypes DEF IInv
  <2>4. HoldsLock' /\ PartsLeft'
    BY <2>3, RowLength DEF IInv, WritePart, HoldsLock, PartsLeft
  <2>5. MainServes'
    BY <2>3, MainSends DEF IInv, WritePart, MainServes
  <2> QED  BY <2>2, <2>4, <2>5 DEF IInv
<1> QED  BY <1>3, <1>4

LEMMA IInvWriteFails ==
  ASSUME IInv, NEW s \in Sender, WriteFails(s) PROVE IInv'
<1>1. lock = s
  BY DEF IInv, WriteFails, HoldsLock
<1>2. TypeOK'
  BY SendReturnsTypes DEF IInv, WriteFails, history, TypeOK
<1>3. HoldsLock' /\ PartsLeft' /\ MainServes'
  BY <1>1, ReturnLeavesAlone DEF WriteFails
<1> QED  BY <1>2, <1>3 DEF IInv

LEMMA IInvLogPart ==
  ASSUME IInv, NEW s \in Sender, LogPart(s) PROVE IInv'
<1>1. lock = s /\ part[s] \in Nat /\ part[s] < 3
  BY BoundsAssumption, RowLength DEF IInv, LogPart, HoldsLock, PartsLeft, TypeOK
<1>2. message_log' \in Seq([from : Sender, field : LogField])
  <2>1. LogRow[part[s] + 1] \in LogField
    BY <1>1 DEF LogRow, LogField
  <2> QED  BY <2>1 DEF IInv, TypeOK, LogPart
<1>3. CASE part[s] + 1 < Len(LogRow)
  <2>1. /\ part' \in [Sender -> 0 .. Parts + Len(LogRow)] /\ part'[s] = part[s] + 1
        /\ \A r \in Sender : r # s => part'[r] = part[r]
        /\ UNCHANGED <<lock, pc, serving, accepted, started>>
    BY <1>1, <1>3, BoundsAssumption, RowLength, CountTypes DEF IInv, LogPart
  <2>2. TypeOK'
    BY <1>2, <2>1 DEF IInv, LogPart, history, TypeOK
  <2>3. HoldsLock' /\ PartsLeft' /\ MainServes'
    BY <1>3, <2>1 DEF IInv, LogPart, HoldsLock, PartsLeft, MainServes
  <2> QED  BY <2>2, <2>3 DEF IInv
<1>4. CASE ~ (part[s] + 1 < Len(LogRow))
  <2>1. SendReturns(s, TRUE) /\ lock' = Nobody
    BY <1>4 DEF LogPart
  <2>2. TypeOK'
    BY <1>2, <2>1, SendReturnsTypes DEF IInv, LogPart, history, TypeOK
  <2>3. UNCHANGED channel
    BY DEF LogPart
  <2>4. HoldsLock' /\ PartsLeft' /\ MainServes'
    BY <1>1, <2>1, <2>3, ReturnLeavesAlone
  <2> QED  BY <2>2, <2>4 DEF IInv
<1> QED  BY <1>3, <1>4

LEMMA IInvLogFails ==
  ASSUME IInv, NEW s \in Sender, LogFails(s) PROVE IInv'
<1>1. lock = s
  BY DEF IInv, LogFails, HoldsLock
<1>2. TypeOK'
  BY SendReturnsTypes DEF IInv, LogFails, TypeOK
<1>3. HoldsLock' /\ PartsLeft' /\ MainServes'
  BY <1>1, ReturnLeavesAlone DEF LogFails
<1> QED  BY <1>2, <1>3 DEF IInv

LEMMA IInvStartReport ==
  ASSUME IInv, NEW s \in Reporter, StartReport(s) PROVE IInv'
<1>1. "send" \in Pc /\ s \in Sender /\ s # Main
  BY ThreadsAssumption DEF Pc, Sender
<1>2. started' \in 0 .. MaxMessages
  BY BoundsAssumption DEF IInv, TypeOK, StartReport
<1>3. TypeOK'
  BY <1>1, <1>2, GoToTypes DEF IInv, StartReport, history, TypeOK
<1>4. HoldsLock' /\ PartsLeft'
  BY <1>1, GoToTypes, LeavesAlone DEF IInv, StartReport
<1>5. MainServes'
  BY <1>1, GoToTypes, MainSends DEF IInv, StartReport, MainServes
<1> QED  BY <1>3, <1>4, <1>5 DEF IInv

LEMMA IInvAcceptLoop == ASSUME IInv, AcceptLoop PROVE IInv'
<1>1. Main \in Sender /\ {"accept", "accepted", "attach", "attached", "send", "ended"} \subseteq Pc
  BY MainSends DEF Pc
<1>2. ASSUME NEW c \in Conn, Accept(c) PROVE IInv'
  <2>1. TypeOK'
    BY <1>1, <1>2, GoToTypes DEF IInv, Accept, history, TypeOK
  <2>2. HoldsLock' /\ PartsLeft' /\ MainServes'
    BY <1>1, <1>2, GoToTypes, LeavesAlone, ConnAssumption DEF IInv, Accept, MainServes
  <2> QED  BY <2>1, <2>2 DEF IInv
<1>3. CASE AcceptLoopEnds
  <2>1. failed' \subseteq {"sent", "user"}
    BY <1>3 DEF AcceptLoopEnds, IInv, TypeOK
  <2>2. TypeOK'
    BY <1>1, <1>3, <2>1, GoToTypes DEF IInv, AcceptLoopEnds, TypeOK
  <2>3. HoldsLock' /\ PartsLeft' /\ MainServes'
    BY <1>1, <1>3, GoToTypes, LeavesAlone DEF IInv, AcceptLoopEnds, MainServes
  <2> QED  BY <2>2, <2>3 DEF IInv
<1>4. CASE SetChannel
  <2>1. serving \in accepted
    BY <1>4 DEF SetChannel, IInv, MainServes
  <2>2. TypeOK'
    BY <1>1, <1>4, <2>1, GoToTypes DEF IInv, SetChannel, TypeOK
  <2>3. HoldsLock' /\ PartsLeft' /\ MainServes'
    BY <1>1, <1>4, GoToTypes, LeavesAlone DEF IInv, SetChannel, MainServes
  <2> QED  BY <2>2, <2>3 DEF IInv
<1>5. CASE ClientDone
  <2>1. failed' \subseteq {"sent", "user"}
    BY <1>5 DEF ClientDone, IInv, TypeOK
  <2>2. TypeOK'
    BY <1>1, <1>5, <2>1, GoToTypes DEF IInv, ClientDone, TypeOK
  <2>3. HoldsLock' /\ PartsLeft' /\ MainServes'
    BY <1>1, <1>5, GoToTypes, LeavesAlone DEF IInv, ClientDone, MainServes
  <2> QED  BY <2>2, <2>3 DEF IInv
<1>6. ASSUME NEW from \in {"accepted", "attached"}, NEW to \in {"attach", "send"},
             MainGoesOn(from, to), to = "attach" => from = "accepted"
      PROVE  IInv'
  <2>1. TypeOK'
    BY <1>1, <1>6, GoToTypes DEF IInv, MainGoesOn, history, TypeOK
  <2>2. HoldsLock' /\ PartsLeft' /\ MainServes'
    BY <1>1, <1>6, GoToTypes, LeavesAlone DEF IInv, MainGoesOn, MainServes
  <2> QED  BY <2>1, <2>2 DEF IInv
<1> QED  BY <1>2, <1>3, <1>4, <1>5, <1>6 DEF AcceptLoop, AcceptOn, Duplicate, Greet

LEMMA IInvPeer ==
  ASSUME IInv, NEW c \in Conn, NEW from, NEW to \in Peer, PeerMoves(c, from, to) PROVE IInv'
<1>1. TypeOK'
  BY DEF IInv, PeerMoves, threads, history, TypeOK
<1>2. HoldsLock' /\ PartsLeft' /\ MainServes'
  BY DEF IInv, PeerMoves, threads, HoldsLock, PartsLeft, MainServes
<1> QED  BY <1>1, <1>2 DEF IInv

LEMMA NextIInv == IInv /\ [Next]_vars => IInv'
<1> SUFFICES ASSUME IInv, [Next]_vars PROVE IInv'
  OBVIOUS
<1>1. CASE UNCHANGED vars
  BY <1>1 DEF vars, threads, history, IInv, TypeOK, HoldsLock, PartsLeft, MainServes
<1>2. ASSUME NEW s \in Sender, Send(s) PROVE IInv'
  BY <1>2, IInvSendNowhere, IInvBeginSend, IInvWritePart, IInvWriteFails, IInvLogPart,
     IInvLogFails DEF Send, SendOn
<1>3. ASSUME NEW s \in Reporter, StartReport(s) PROVE IInv'
  BY <1>3, IInvStartReport
<1>4. CASE AcceptLoop
  BY <1>4, IInvAcceptLoop
<1>5. ASSUME NEW c \in Conn, Dashboard(c) PROVE IInv'
  BY <1>5, IInvPeer DEF Dashboard, Connect, Stall, Resume, Close, Peer
<1> QED  BY <1>1, <1>2, <1>3, <1>4, <1>5 DEF Next

\* The variables keep their types (DashChannel, and the accept loop of run).
THEOREM TypesHold == Spec => []TypeOK
<1>1. IInv => TypeOK
  BY DEF IInv
<1> QED  BY InitIInv, NextIInv, <1>1, PTL DEF Spec

-----------------------------------------------------------------------------
\* The target and the client being served.

LEMMA TargetKept ==
  ASSUME TargetIsServed, serving' = serving, peer' = peer, failed \subseteq failed',
         channel' \in {channel, NoConn}
  PROVE  TargetIsServed'
  BY DEF TargetIsServed

\* As long as no log has failed, only the end of a conversation takes the main
\* thread from its client, and that is when the target is closed.
LEMMA NextTarget == IInv /\ TargetIsServed /\ [Next]_vars => TargetIsServed'
<1> SUFFICES ASSUME IInv, TargetIsServed, [Next]_vars PROVE TargetIsServed'
  OBVIOUS
<1>1. CASE UNCHANGED vars
  BY <1>1, TargetKept DEF vars, threads, history
<1>2. ASSUME NEW s \in Sender, Send(s) PROVE TargetIsServed'
  <2>1. ASSUME SendReturns(s, TRUE) PROVE serving' = serving
    BY <2>1, SendReturnsTypes DEF IInv
  <2>2. CASE SendNowhere(s)
    BY <2>1, <2>2, TargetKept DEF SendNowhere, history
  <2>3. CASE BeginSend(s)
    BY <2>3, TargetKept DEF BeginSend, history
  <2>4. CASE WritePart(s)
    <3>1. UNCHANGED <<channel, serving, peer, failed>>
      BY <2>4 DEF WritePart
    <3> QED  BY <3>1, TargetKept
  <2>5. CASE WriteFails(s)
    BY <2>1, <2>5, TargetKept DEF WriteFails, history
  <2>6. CASE LogPart(s)
    <3>1. UNCHANGED <<channel, peer, failed>>
      BY <2>6 DEF LogPart, history
    <3>2. serving' = serving
      BY <2>1, <2>6 DEF LogPart
    <3> QED  BY <3>1, <3>2, TargetKept
  <2>7. CASE LogFails(s)
    BY <2>7 DEF LogFails, TargetIsServed
  <2> QED  BY <1>2, <2>2, <2>3, <2>4, <2>5, <2>6, <2>7 DEF Send, SendOn
<1>3. ASSUME NEW s \in Reporter, StartReport(s) PROVE TargetIsServed'
  BY <1>3, TargetKept DEF StartReport, history
<1>4. ASSUME NEW c \in Conn, Accept(c) PROVE TargetIsServed'
  BY <1>4 DEF Accept, history, IInv, MainServes, TargetIsServed
<1>5. CASE AcceptLoopEnds
  BY <1>5 DEF AcceptLoopEnds, IInv, MainServes, TargetIsServed
<1>6. CASE SetChannel
  BY <1>6 DEF SetChannel, TargetIsServed
<1>7. CASE ClientDone
  BY <1>7 DEF ClientDone, TargetIsServed
<1>8. ASSUME NEW c \in Conn, Dashboard(c) PROVE TargetIsServed'
  <2>1. PICK from, to : /\ PeerMoves(c, from, to)
                        /\ "closed" \notin from
    BY <1>8 DEF Dashboard, Connect, Stall, Resume, Close
  <2>2. UNCHANGED <<channel, serving, failed>> /\ peer' = [peer EXCEPT ![c] = to]
    BY <2>1 DEF PeerMoves, threads, history
  <2>3. peer[c] # "closed"
    BY <2>1 DEF PeerMoves
  <2>4. ASSUME channel # NoConn, peer'[channel] # "closed" PROVE peer[channel] # "closed"
    BY <2>2, <2>3, <2>4 DEF IInv, TypeOK
  <2> QED  BY <2>2, <2>4 DEF TargetIsServed
<1>9. CASE Duplicate \/ Greet
  BY <1>9, TargetKept DEF Duplicate, Greet, MainGoesOn, history
<1> QED  BY <1>1, <1>2, <1>3, <1>4, <1>5, <1>6, <1>7, <1>8, <1>9 DEF Next, AcceptLoop, AcceptOn

\* A dashboard that is being sent messages and is still there is also being
\* listened to, unless a log could not be written (set_channel is called by the
\* thread that then reads from the same connection).
THEOREM TargetStaysServed == Spec => []TargetIsServed
<1>1. Init => TargetIsServed
  BY DEF Init, TargetIsServed
<1> QED  BY InitIInv, NextIInv, NextTarget, <1>1, PTL DEF Spec

-----------------------------------------------------------------------------
\* The lock is held only in the middle of a message or its row.
LockInUse == lock # Nobody => pc[lock] \in {"writing", "logging"}

LEMMA NextLock == IInv /\ LockInUse /\ [Next]_vars => LockInUse'
<1> SUFFICES ASSUME IInv, LockInUse, [Next]_vars PROVE LockInUse'
  OBVIOUS
<1>1. lock = Nobody => \A s \in Sender : pc[s] \notin {"writing", "logging"}
  BY MainSends DEF IInv, HoldsLock
<1>2. CASE UNCHANGED <<lock, pc>>
  BY <1>2 DEF LockInUse
<1>3. ASSUME NEW s \in Sender, Send(s) PROVE LockInUse'
  <2>1. ASSUME NEW label \in {"writing", "logging"}, GoTo(s, label), lock' = s
        PROVE  LockInUse'
    BY <2>1, GoToTypes DEF IInv, Pc, LockInUse
  <2>2. CASE SendNowhere(s)
    BY <2>2 DEF SendNowhere, LockInUse
  <2>3. CASE BeginSend(s)
    BY <2>1, <2>3 DEF BeginSend
  <2>4. CASE WritePart(s)
    <3>1. lock = s /\ lock' = lock
      BY <2>4 DEF WritePart, IInv, HoldsLock
    <3> QED  BY <1>2, <2>1, <2>4, <3>1 DEF WritePart
  <2>5. CASE WriteFails(s) \/ LogFails(s)
    BY <2>5 DEF WriteFails, LogFails, LockInUse
  <2>6. CASE LogPart(s)
    BY <1>2, <2>6 DEF LogPart, LockInUse
  <2> QED  BY <1>3, <2>2, <2>3, <2>4, <2>5, <2>6 DEF Send, SendOn
\* A step outside of send is one of a thread that has not got the lock.
<1>4. ASSUME NEW s \in Sender, NEW label \in Pc, GoTo(s, label), lock' = lock,
             pc[s] \notin {"writing", "logging"}
      PROVE  LockInUse'
  BY <1>4, GoToTypes DEF IInv, TypeOK, LockInUse
<1>5. ASSUME NEW s \in Reporter, StartReport(s) PROVE LockInUse'
  BY <1>4, <1>5 DEF StartReport, Sender, Pc
<1>6. CASE AcceptLoop
  BY <1>4, <1>6, MainSends DEF AcceptLoop, AcceptOn, Duplicate, Greet, MainGoesOn, Accept,
     AcceptLoopEnds, SetChannel, ClientDone, Pc
<1>7. ASSUME NEW c \in Conn, Dashboard(c) PROVE LockInUse'
  BY <1>2, <1>7 DEF Dashboard, Connect, Stall, Resume, Close, PeerMoves, threads
<1> QED  BY <1>2, <1>3, <1>5, <1>6, <1>7 DEF Next, vars, threads

-----------------------------------------------------------------------------
\* The log of sent messages.

\* What row and what field the i-th write to sent.csv belongs to.
Row(i)   == ((i - 1) \div 3) + 1
Field(i) == LogRow[((i - 1) % 3) + 1]

Rows(log, messages) ==
  \A i \in 1 .. Len(log) : log[i] = [from |-> messages[Row(i)], field |-> Field(i)]

\* While a row is being written it is that of the newest message.
RowsMatch ==
  "sent" \notin failed =>
    /\ \/ /\ \A s \in Sender : pc[s] # "logging"
          /\ Len(message_log) = 3 * Len(delivered)
       \/ \E s \in Sender : /\ pc[s] = "logging"
                            /\ Len(delivered) # 0
                            /\ delivered[Len(delivered)] = s
                            /\ Len(message_log) = 3 * (Len(delivered) - 1) + part[s]
    /\ Rows(message_log, delivered)

LEMMA DivideByThree ==
  ASSUME NEW n \in Nat, NEW k \in 0 .. 2
  PROVE  (3 * n + k) \div 3 = n /\ (3 * n + k) % 3 = k
  OBVIOUS

\* The rows of a log that has no more than three writes a message.
LEMMA RowInRange ==
  ASSUME NEW n \in Nat, NEW i \in 1 .. 3 * n PROVE Row(i) \in 1 .. n
  BY DEF Row

\* Only one thread is in its row.
LEMMA OneLogs ==
  ASSUME IInv, NEW s \in Sender, NEW r \in Sender,
         pc[s] \in {"writing", "logging"}, pc[r] \in {"writing", "logging"}
  PROVE  s = r
  BY DEF IInv, HoldsLock

\* A step that touches neither log nor messages, nor a thread in its row.
LEMMA RowsKept ==
  ASSUME IInv, RowsMatch, UNCHANGED <<message_log, delivered>>, failed \subseteq failed',
         \A s \in Sender : \/ pc'[s] = pc[s] /\ part'[s] = part[s]
                           \/ pc[s] # "logging" /\ pc'[s] # "logging"
  PROVE  RowsMatch'
<1>1. CASE \A s \in Sender : pc[s] # "logging"
  BY <1>1 DEF RowsMatch
<1>2. ASSUME NEW s \in Sender, pc[s] = "logging" PROVE RowsMatch'
  BY <1>2, OneLogs DEF RowsMatch
<1> QED  BY <1>1, <1>2

LEMMA RowsWritePart ==
  ASSUME IInv, RowsMatch, NEW s \in Sender, WritePart(s) PROVE RowsMatch'
<1>1. \A r \in Sender : pc[r] # "logging"
  BY OneLogs DEF WritePart
<1>2. CASE part[s] + 1 < Parts
  <2>1. UNCHANGED <<message_log, delivered, failed, pc>>
    BY <1>2 DEF WritePart
  <2> QED  BY <1>1, <2>1, RowsKept
<1>3. CASE ~ (part[s] + 1 < Parts) /\ "sent" \notin failed
  <2>1. /\ GoTo(s, "logging") /\ delivered' = Append(delivered, s)
        /\ UNCHANGED <<message_log, failed>>
    BY <1>3 DEF WritePart
  <2>2. pc'[s] = "logging" /\ part'[s] = 0
    BY <2>1, GoToTypes DEF IInv, Pc
  <2>3. Len(message_log) = 3 * Len(delivered) /\ Rows(message_log, delivered)
    BY <1>1, <1>3 DEF RowsMatch
  <2>4. /\ Len(delivered) \in Nat /\ Len(delivered') = Len(delivered) + 1
        /\ delivered'[Len(delivered')] = s
        /\ \A i \in 1 .. Len(delivered) : delivered'[i] = delivered[i]
    BY <2>1 DEF IInv, TypeOK
  <2>5. Rows(message_log, delivered')
    BY <2>3, <2>4, RowInRange DEF Rows
  <2> QED  BY <2>1, <2>2, <2>3, <2>4, <2>5 DEF RowsMatch
<1>4. CASE "sent" \in failed
  BY <1>4 DEF WritePart, RowsMatch
<1> QED  BY <1>2, <1>3, <1>4

LEMMA RowsLogPart ==
  ASSUME IInv, RowsMatch, NEW s \in Sender, LogPart(s) PROVE RowsMatch'
<1>1. CASE "sent" \in failed
  BY <1>1 DEF LogPart, history, RowsMatch
<1>2. CASE "sent" \notin failed
  <2> DEFINE n     == Len(delivered) - 1
             write == [from |-> s, field |-> LogRow[part[s] + 1]]
  <2>1. pc[s] = "logging" /\ message_log' = Append(message_log, write)
        /\ UNCHANGED <<delivered, failed>>
    BY DEF LogPart, history
  <2>2. part[s] \in 0 .. 2 /\ n + 1 \in Nat
    BY <2>1, RowLength, BoundsAssumption DEF IInv, PartsLeft, TypeOK
  <2>3. /\ n \in Nat /\ delivered[n + 1] = s
        /\ Len(message_log) = 3 * n + part[s]
        /\ Rows(message_log, delivered)
    BY <1>2, <2>1, <2>2, OneLogs DEF RowsMatch
  <2>4. /\ Len(message_log') = 3 * n + part[s] + 1
        /\ message_log'[Len(message_log')] = write
        /\ \A i \in 1 .. Len(message_log) : message_log'[i] = message_log[i]
    BY <2>1, <2>3, SMTT(30) DEF IInv, TypeOK
  <2>5. Row(Len(message_log')) = n + 1 /\ Field(Len(message_log')) = LogRow[part[s] + 1]
    <3>1. Len(message_log') - 1 = 3 * n + part[s]
      BY <2>2, <2>3, <2>4
    <3>2. (3 * n + part[s]) \div 3 = n /\ (3 * n + part[s]) % 3 = part[s]
      BY <2>2, <2>3, DivideByThree
    <3> QED  BY <3>1, <3>2 DEF Row, Field
  <2>6. Rows(message_log', delivered)
    BY <2>2, <2>3, <2>4, <2>5 DEF Rows
  <2>7. CASE part[s] + 1 < 3
    <3>1. part'[s] = part[s] + 1 /\ UNCHANGED pc
      BY <2>2, <2>7, CountTypes, RowLength, BoundsAssumption DEF IInv, LogPart
    <3> QED  BY <1>2, <2>1, <2>2, <2>3, <2>4, <2>6, <3>1 DEF RowsMatch
  <2>8. CASE ~ (part[s] + 1 < 3)
    <3>1. SendReturns(s, TRUE)
      BY <2>8, RowLength DEF LogPart
    <3>2. pc'[s] # "logging" /\ \A r \in Sender : r # s => pc'[r] = pc[r]
      BY <3>1, SendReturnsTypes DEF IInv
    <3>3. \A r \in Sender : pc'[r] # "logging"
      BY <2>1, <3>2, OneLogs
    <3>4. Len(message_log') = 3 * Len(delivered)
      BY <2>2, <2>3, <2>4, <2>8
    <3> QED  BY <2>1, <2>6, <3>3, <3>4 DEF RowsMatch
  <2> QED  BY <2>7, <2>8
<1> QED  BY <1>1, <1>2

LEMMA NextRows == IInv /\ RowsMatch /\ [Next]_vars => RowsMatch'
<1> SUFFICES ASSUME IInv, RowsMatch, [Next]_vars PROVE RowsMatch'
  OBVIOUS
<1>1. CASE UNCHANGED vars
  BY <1>1, RowsKept DEF vars, threads, history
<1>2. ASSUME NEW s \in Sender, NEW label \in Pc, label # "logging",
             GoTo(s, label), pc[s] # "logging",
             UNCHANGED <<message_log, delivered>>, failed \subseteq failed'
      PROVE  RowsMatch'
  BY <1>2, GoToTypes, RowsKept DEF IInv
<1>3. ASSUME NEW s \in Sender, SendReturns(s, TRUE), pc[s] # "logging",
             UNCHANGED <<message_log, delivered, failed>>
      PROVE  RowsMatch'
  <2>1. /\ pc'[s] # "logging"
        /\ \A r \in Sender : r # s => pc'[r] = pc[r] /\ part'[r] = part[r]
    BY <1>3, SendReturnsTypes DEF IInv
  <2> QED  BY <1>3, <2>1, RowsKept
<1>4. ASSUME NEW s \in Sender, Send(s) PROVE RowsMatch'
  <2>1. CASE SendNowhere(s)
    BY <1>3, <2>1 DEF SendNowhere, history
  <2>2. CASE BeginSend(s)
    BY <1>2, <2>2 DEF BeginSend, history, Pc
  <2>3. CASE WritePart(s)
    BY <2>3, RowsWritePart
  <2>4. CASE WriteFails(s)
    BY <1>3, <2>4 DEF WriteFails, history
  <2>5. CASE LogPart(s)
    BY <2>5, RowsLogPart
  <2>6. CASE LogFails(s)
    BY <2>6 DEF LogFails, RowsMatch
  <2> QED  BY <1>4, <2>1, <2>2, <2>3, <2>4, <2>5, <2>6 DEF Send, SendOn
<1>5. ASSUME NEW s \in Reporter, StartReport(s) PROVE RowsMatch'
  <2>1. s \in Sender /\ "send" \in Pc
    BY DEF Sender, Pc
  <2> QED  BY <1>2, <1>5, <2>1 DEF StartReport, history
<1>6. CASE AcceptLoop
  <2>1. Main \in Sender /\ {"accept", "accepted", "attach", "attached", "send", "ended"} \subseteq Pc
    BY MainSends DEF Pc
  <2>2. CASE \E c \in Conn : Accept(c)
    BY <1>2, <2>1, <2>2 DEF Accept, history
  <2>3. CASE AcceptLoopEnds
    BY <1>2, <2>1, <2>3 DEF AcceptLoopEnds
  <2>4. CASE SetChannel
    BY <1>2, <2>1, <2>4 DEF SetChannel
  <2>5. CASE ClientDone
    BY <1>2, <2>1, <2>5 DEF ClientDone
  <2>6. CASE Duplicate \/ Greet
    BY <1>2, <2>1, <2>6 DEF Duplicate, Greet, MainGoesOn, history
  <2> QED  BY <1>6, <2>2, <2>3, <2>4, <2>5, <2>6 DEF AcceptLoop, AcceptOn
<1>7. ASSUME NEW c \in Conn, Dashboard(c) PROVE RowsMatch'
  BY <1>7, RowsKept
     DEF Dashboard, Connect, Stall, Resume, Close, PeerMoves, threads, history
<1> QED  BY <1>1, <1>4, <1>5, <1>6, <1>7 DEF Next

LEMMA RowsImplyLog == IInv /\ RowsMatch => LogMatchesWire
<1> SUFFICES ASSUME IInv, RowsMatch, "sent" \notin failed PROVE LogMatchesWire
  BY DEF LogMatchesWire
<1>1. Len(message_log) \in Nat /\ Len(delivered) \in Nat
  BY SMTT(30) DEF IInv, TypeOK
<1>2. \A i \in DOMAIN message_log :
        message_log[i] = [from  |-> delivered[((i - 1) \div Len(LogRow)) + 1],
                          field |-> LogRow[((i - 1) % Len(LogRow)) + 1]]
  <2>1. DOMAIN message_log = 1 .. Len(message_log)
    BY DEF IInv, TypeOK
  <2> QED  BY <2>1, RowLength DEF RowsMatch, Rows, Row, Field
<1>3. CASE \A s \in Sender : pc[s] # "logging"
  <2>1. Len(message_log) = 3 * Len(delivered)
    BY <1>3 DEF RowsMatch
  <2>2. Len(message_log) \div 3 = Len(delivered)
    BY <1>1, <2>1
  <2> QED  BY <1>1, <1>2, <2>1, <2>2, RowLength DEF LogMatchesWire
<1>4. ASSUME NEW s \in Sender, pc[s] = "logging" PROVE LogMatchesWire
  <2>1. lock # Nobody
    BY <1>4, MainSends DEF IInv, HoldsLock
  <2>2. part[s] \in 0 .. 2
    <3>1. part[s] \in 0 .. Parts + 3 /\ Parts \in Nat
      BY RowLength, BoundsAssumption DEF IInv, TypeOK
    <3>2. part[s] < 3
      BY <1>4, RowLength DEF IInv, PartsLeft
    <3> QED  BY <3>1, <3>2
  <2>3. Len(delivered) # 0 /\ Len(message_log) = 3 * (Len(delivered) - 1) + part[s]
    BY <1>4, OneLogs DEF RowsMatch
  <2>4. Len(message_log) \div 3 = Len(delivered) - 1
    BY <1>1, <2>2, <2>3, DivideByThree
  <2> QED  BY <1>1, <1>2, <2>1, <2>2, <2>3, <2>4, RowLength DEF LogMatchesWire
<1> QED  BY <1>3, <1>4

LEMMA InitRows == Init => RowsMatch
  BY DEF Init, RowsMatch, Rows

\* sent.csv has one well-formed row for every message that was written whole,
\* in the order of the messages (send logs under the lock under which it wrote).
THEOREM LogFollowsWire == Spec => []LogMatchesWire
  BY InitIInv, NextIInv, InitRows, NextRows, RowsImplyLog, PTL DEF Spec

-----------------------------------------------------------------------------
\* The channel implements Delivery.

\* The first `done` writes of a message of s, after n whole messages.
Begun(w, n, s, done) ==
  /\ Len(w) = n * Parts + done
  /\ \A i \in 1 .. done : w[n * Parts + i] = [from |-> s, part |-> i]

\* The target's connection ends with a whole message, or with what the holder of
\* the lock has written of its own.
EndsWhole ==
  channel # NoConn =>
    \/ /\ \A s \in Sender : pc[s] # "writing"
       /\ \E n \in Nat : Len(wire[channel]) = n * Parts
    \/ \E s \in Sender, n \in Nat :
         pc[s] = "writing" /\ Begun(wire[channel], n, s, part[s])

\* A connection is the target once, and is not written to before.
TargetOnce ==
  /\ channel # NoConn => channel \in attached
  /\ pc[Main] \in {"accepted", "attach"} => serving \notin attached
  /\ \A c \in Conn : c \notin attached => wire[c] = <<>>

WireInv == EndsWhole /\ TargetOnce

LEMMA DivideByParts ==
  ASSUME NEW n \in Nat, NEW k \in 0 .. Parts - 1 PROVE (n * Parts + k) \div Parts = n
  BY BoundsAssumption

\* The writes of the first n messages.
LEMMA WritesInRange ==
  ASSUME NEW n \in Nat, NEW m \in 1 .. n, NEW i \in 1 .. Parts
  PROVE  (m - 1) * Parts + i \in 1 .. n * Parts
  BY BoundsAssumption

LEMMA MessagesKept ==
  ASSUME NEW c \in Conn, wire'[c] = wire[c] PROVE Messages(c)' = Messages(c)
  BY DEF Messages

\* A write that does not complete a message is not a message yet.
LEMMA MessageNotYet ==
  ASSUME IInv, NEW c \in Conn, NEW x, NEW n \in Nat, NEW k \in 0 .. Parts - 2,
         Len(wire[c]) = n * Parts + k, wire'[c] = Append(wire[c], x)
  PROVE  Messages(c)' = Messages(c)
<1>1. wire[c] \in Seq([from : Sender, part : 1 .. Parts])
  BY DEF IInv, TypeOK
<1>2. /\ Len(wire'[c]) = n * Parts + (k + 1)
      /\ \A i \in 1 .. Len(wire[c]) : wire'[c][i] = wire[c][i]
  BY <1>1, BoundsAssumption
<1>3. Len(wire[c]) \div Parts = n /\ Len(wire'[c]) \div Parts = n
  BY <1>2, DivideByParts, BoundsAssumption, SMTT(30)
<1>4. ASSUME NEW m \in 1 .. n, NEW i \in 1 .. Parts
      PROVE  wire'[c][(m - 1) * Parts + i] = wire[c][(m - 1) * Parts + i]
  <2>1. (m - 1) * Parts + i \in 1 .. n * Parts
    BY WritesInRange
  <2>2. n * Parts \in Nat /\ Len(wire[c]) >= n * Parts /\ Len(wire[c]) \in Nat
    BY BoundsAssumption
  <2>3. (m - 1) * Parts + i \in 1 .. Len(wire[c])
    BY <2>1, <2>2
  <2> QED  BY <1>2, <2>3
<1>5. 1 \in 1 .. Parts
  BY BoundsAssumption
<1> QED  BY <1>3, <1>4, <1>5 DEF Messages

\* The sender of the message whose writes follow the first `base`.
MessageAt(w, base) ==
  IF \A i \in 1 .. Parts : w[base + i] = [from |-> w[base + 1].from, part |-> i]
  THEN w[base + 1].from
  ELSE "garbled"

Written(w, base, s) == \A i \in 1 .. Parts : w[base + i] = [from |-> s, part |-> i]

LEMMA MessageOf ==
  ASSUME NEW w, NEW base \in Nat, NEW s, Written(w, base, s)
  PROVE  MessageAt(w, base) = s
<1>1. 1 \in 1 .. Parts
  BY BoundsAssumption
<1>2. w[base + 1] = [from |-> s, part |-> 1]
  BY <1>1 DEF Written
<1>3. w[base + 1].from = s
  BY <1>2
<1> QED  BY <1>3 DEF MessageAt, Written

\* The write that completes a message makes it one more message, of its writer.
LEMMA MessageComplete ==
  ASSUME IInv, NEW c \in Conn, NEW s \in Sender, NEW n \in Nat,
         Begun(wire[c], n, s, Parts - 1),
         wire'[c] = Append(wire[c], [from |-> s, part |-> Parts])
  PROVE  Messages(c)' = Append(Messages(c), s)
<1>1. wire[c] \in Seq([from : Sender, part : 1 .. Parts])
  BY DEF IInv, TypeOK
<1>2. Len(wire[c]) = n * Parts + (Parts - 1)
  BY DEF Begun
<1>3. /\ Len(wire'[c]) = (n + 1) * Parts
      /\ \A i \in 1 .. Len(wire[c]) : wire'[c][i] = wire[c][i]
      /\ wire'[c][n * Parts + Parts] = [from |-> s, part |-> Parts]
  <2>1. /\ n * Parts + (Parts - 1) + 1 = n * Parts + Parts
        /\ (n + 1) * Parts = n * Parts + Parts
    BY BoundsAssumption
  <2>2. /\ Len(wire'[c]) = Len(wire[c]) + 1
        /\ \A i \in 1 .. Len(wire[c]) : wire'[c][i] = wire[c][i]
        /\ wire'[c][Len(wire[c]) + 1] = [from |-> s, part |-> Parts]
    BY <1>1
  <2> QED  BY <1>2, <2>1, <2>2
<1>4. Len(wire[c]) \div Parts = n /\ Len(wire'[c]) \div Parts = n + 1
  <2>1. Parts - 1 \in 0 .. Parts - 1 /\ 0 \in 0 .. Parts - 1 /\ n + 1 \in Nat
    BY BoundsAssumption
  <2>2. ((n + 1) * Parts + 0) \div Parts = n + 1
    BY <2>1, DivideByParts
  <2>3. (n + 1) * Parts + 0 = (n + 1) * Parts
    BY BoundsAssumption
  <2> QED  BY <1>2, <1>3, <2>1, <2>2, <2>3, DivideByParts
<1>5. ASSUME NEW m \in 1 .. n, NEW i \in 1 .. Parts
      PROVE  wire'[c][(m - 1) * Parts + i] = wire[c][(m - 1) * Parts + i]
  <2>1. (m - 1) * Parts + i \in 1 .. n * Parts
    BY WritesInRange
  <2>2. n * Parts \in Nat /\ Len(wire[c]) >= n * Parts /\ Len(wire[c]) \in Nat
    BY <1>2, BoundsAssumption
  <2>3. (m - 1) * Parts + i \in 1 .. Len(wire[c])
    BY <2>1, <2>2
  <2> QED  BY <1>3, <2>3
<1>6. ASSUME NEW i \in 1 .. Parts
      PROVE  wire'[c][n * Parts + i] = [from |-> s, part |-> i]
  <2>1. CASE i = Parts
    BY <1>3, <2>1
  <2>2. CASE i # Parts
    <3>1. i \in 1 .. Parts - 1 /\ n * Parts + i \in 1 .. Len(wire[c])
      BY <1>2, <2>2, BoundsAssumption
    <3> QED  BY <1>3, <3>1 DEF Begun
  <2> QED  BY <2>1, <2>2
<1>7. 1 \in 1 .. Parts
  BY BoundsAssumption
<1>8. /\ Messages(c) = [m \in 1 .. n |-> MessageAt(wire[c], (m - 1) * Parts)]
      /\ Messages(c)' = [m \in 1 .. n + 1 |-> MessageAt(wire'[c], (m - 1) * Parts)]
  BY <1>4 DEF Messages, MessageAt
<1>9. \A m \in 1 .. n : MessageAt(wire'[c], (m - 1) * Parts) = MessageAt(wire[c], (m - 1) * Parts)
  BY <1>5, <1>7 DEF MessageAt
<1>10. MessageAt(wire'[c], ((n + 1) - 1) * Parts) = s
  <2>1. (n + 1) - 1 = n
    OBVIOUS
  <2>2. n * Parts \in Nat
    BY BoundsAssumption
  <2>3. Written(wire'[c], n * Parts, s)
    BY <1>6 DEF Written
  <2> QED  BY <2>1, <2>2, <2>3, MessageOf
<1> QED  BY <1>8, <1>9, <1>10

-----------------------------------------------------------------------------
\* Each step preserves WireInv, and is a step of Delivery or leaves it alone.

AllMessages   == [c \in Conn |-> Messages(c)]
DeliverySteps == D!Next \/ UNCHANGED <<channel, attached, AllMessages>>

\* A step that writes nothing.
LEMMA WireKept ==
  ASSUME WireInv, UNCHANGED <<channel, attached, wire>>,
         \A s \in Sender : \/ pc'[s] = pc[s] /\ part'[s] = part[s]
                           \/ pc[s] # "writing" /\ pc'[s] # "writing",
         pc'[Main] \in {"accepted", "attach"} => serving' \notin attached
  PROVE  WireInv' /\ DeliverySteps
<1>1. EndsWhole'
  BY DEF WireInv, EndsWhole, Begun
<1>2. TargetOnce'
  BY DEF WireInv, TargetOnce
<1>3. DeliverySteps
  <2>1. \A c \in Conn : Messages(c)' = Messages(c)
    BY MessagesKept
  <2>2. UNCHANGED AllMessages
    BY <2>1 DEF AllMessages
  <2>3. UNCHANGED <<channel, attached, AllMessages>>
    BY <2>2
  <2> QED  BY <2>3 DEF DeliverySteps
<1> QED  BY <1>1, <1>2, <1>3 DEF WireInv

LEMMA NobodyWrites ==
  ASSUME IInv, lock = Nobody, NEW s \in Sender PROVE pc[s] # "writing"
  BY MainSends DEF IInv, HoldsLock

LEMMA WireGoTo ==
  ASSUME IInv, WireInv, NEW s \in Sender, NEW label \in Pc \ {"writing", "accepted", "attach"},
         GoTo(s, label), pc[s] # "writing", UNCHANGED <<channel, attached, wire>>,
         s # Main => serving' = serving
  PROVE  WireInv' /\ DeliverySteps
<1>1. /\ pc'[s] = label
      /\ \A r \in Sender : r # s => pc'[r] = pc[r] /\ part'[r] = part[r]
  BY GoToTypes DEF IInv
<1>2. pc'[Main] \in {"accepted", "attach"} => serving' \notin attached
  BY <1>1, MainSends DEF WireInv, TargetOnce
<1> QED  BY <1>1, <1>2, WireKept

LEMMA WireReturn ==
  ASSUME IInv, WireInv, NEW s \in Sender, NEW ok \in BOOLEAN, SendReturns(s, ok),
         pc[s] # "writing", UNCHANGED <<channel, attached, wire>>
  PROVE  WireInv' /\ DeliverySteps
<1>1. /\ pc'[s] \in {"reading", "accept", "idle", "ended"}
      /\ \A r \in Sender : r # s => pc'[r] = pc[r] /\ part'[r] = part[r]
      /\ s # Main => serving' = serving
  BY SendReturnsTypes DEF IInv
<1>2. pc'[Main] \in {"accepted", "attach"} => serving' \notin attached
  BY <1>1, MainSends DEF WireInv, TargetOnce
<1> QED  BY <1>1, <1>2, WireKept

LEMMA WireBeginSend ==
  ASSUME IInv, WireInv, NEW s \in Sender, BeginSend(s) PROVE WireInv' /\ DeliverySteps
<1>1. /\ pc'[s] = "writing" /\ part'[s] = 0
      /\ \A r \in Sender : r # s => pc'[r] = pc[r]
  BY GoToTypes DEF IInv, BeginSend, Pc
<1>2. UNCHANGED <<channel, attached, wire, serving>> /\ lock = Nobody /\ channel # NoConn
  BY DEF BeginSend, history
<1>3. PICK n \in Nat : Len(wire[channel]) = n * Parts
  BY <1>2, NobodyWrites DEF WireInv, EndsWhole
<1>4. EndsWhole'
  <2>1. n * Parts + 0 = n * Parts
    BY BoundsAssumption
  <2>2. Begun(wire[channel], n, s, 0)
    BY <1>3, <2>1 DEF Begun
  <2> QED  BY <1>1, <1>2, <2>2 DEF EndsWhole
<1>5. TargetOnce'
  BY <1>1, <1>2, MainSends DEF WireInv, TargetOnce
<1>6. DeliverySteps
  <2>1. \A c \in Conn : Messages(c)' = Messages(c)
    BY <1>2, MessagesKept
  <2>2. UNCHANGED AllMessages
    BY <2>1 DEF AllMessages
  <2>3. UNCHANGED <<channel, attached, AllMessages>>
    BY <1>2, <2>2
  <2> QED  BY <2>3 DEF DeliverySteps
<1> QED  BY <1>4, <1>5, <1>6 DEF WireInv

LEMMA WireWriteFails ==
  ASSUME IInv, WireInv, NEW s \in Sender, WriteFails(s) PROVE WireInv' /\ DeliverySteps
<1>1. channel' = NoConn /\ UNCHANGED <<attached, wire>> /\ SendReturns(s, TRUE)
  BY DEF WriteFails, history
<1>2. channel # NoConn
  BY ConnAssumption DEF WriteFails, IInv, PartsLeft
<1>3. EndsWhole'
  BY <1>1 DEF EndsWhole
<1>4. TargetOnce'
  <2>1. pc'[Main] \in {"accepted", "attach"} => pc'[Main] = pc[Main] /\ serving' = serving
    BY <1>1, SendReturnsTypes, MainSends DEF IInv
  <2> QED  BY <1>1, <2>1 DEF WireInv, TargetOnce
<1>5. D!GiveUp
  <2>1. \A c \in Conn : Messages(c)' = Messages(c)
    BY <1>1, MessagesKept
  <2>2. [c \in Conn |-> Messages(c)]' = [c \in Conn |-> Messages(c)]
    BY <2>1
  <2> QED  BY <1>1, <1>2, <2>2 DEF D!GiveUp
<1>6. DeliverySteps
  BY <1>5 DEF DeliverySteps, D!Next
<1> QED  BY <1>3, <1>4, <1>6 DEF WireInv

LEMMA WireSetChannel ==
  ASSUME IInv, WireInv, SetChannel PROVE WireInv' /\ DeliverySteps
<1>1. /\ channel' = serving /\ attached' = attached \cup {serving} /\ UNCHANGED wire
      /\ pc[Main] = "attach" /\ lock = Nobody /\ GoTo(Main, "attached")
  BY DEF SetChannel
<1>2. serving \in Conn /\ serving \notin attached /\ wire[serving] = <<>>
  BY <1>1 DEF IInv, TypeOK, MainServes, WireInv, TargetOnce
<1>3. pc'[Main] = "attached" /\ \A r \in Sender : r # Main => pc'[r] = pc[r]
  BY <1>1, GoToTypes, MainSends DEF IInv, Pc
<1>4. EndsWhole'
  <2>1. \A r \in Sender : pc'[r] # "writing"
    BY <1>1, <1>3, NobodyWrites
  <2>2. 0 \in Nat /\ Len(wire'[channel']) = 0 * Parts
    BY <1>1, <1>2, BoundsAssumption
  <2> QED  BY <2>1, <2>2 DEF EndsWhole
<1>5. TargetOnce'
  BY <1>1, <1>3 DEF WireInv, TargetOnce
<1>6. D!Attach(serving)
  <2>1. \A c \in Conn : Messages(c)' = Messages(c)
    BY <1>1, MessagesKept
  <2>2. [c \in Conn |-> Messages(c)]' = [c \in Conn |-> Messages(c)]
    BY <2>1
  <2> QED  BY <1>1, <1>2, <2>2 DEF D!Attach
<1>7. DeliverySteps
  BY <1>2, <1>6 DEF DeliverySteps, D!Next
<1> QED  BY <1>4, <1>5, <1>7 DEF WireInv

LEMMA WireWritePart ==
  ASSUME IInv, WireInv, NEW s \in Sender, WritePart(s) PROVE WireInv' /\ DeliverySteps
<1> DEFINE write == [from |-> s, part |-> part[s] + 1]
<1>1. /\ channel \in Conn /\ pc[s] = "writing" /\ part[s] \in 0 .. Parts - 1
      /\ wire \in [Conn -> Seq([from : Sender, part : 1 .. Parts])]
  <2>1. part[s] \in Nat /\ part[s] < Parts
    BY BoundsAssumption, RowLength DEF WritePart, IInv, PartsLeft, TypeOK
  <2>2. part[s] \in 0 .. Parts - 1
    BY <2>1, BoundsAssumption
  <2> QED  BY <2>2 DEF WritePart, IInv, PartsLeft, TypeOK
<1>2. PICK n \in Nat : Begun(wire[channel], n, s, part[s])
  BY <1>1, ConnAssumption, OneLogs DEF WireInv, EndsWhole
<1>3. /\ wire'[channel] = Append(wire[channel], write)
      /\ \A c \in Conn : c # channel => wire'[c] = wire[c]
      /\ UNCHANGED <<channel, attached, serving>>
  BY <1>1 DEF WritePart
<1>4. /\ Len(wire[channel]) = n * Parts + part[s]
      /\ Len(wire'[channel]) = n * Parts + part[s] + 1
      /\ \A i \in 1 .. Len(wire[channel]) : wire'[channel][i] = wire[channel][i]
      /\ wire'[channel][n * Parts + part[s] + 1] = write
  <2>1. Len(wire[channel]) = n * Parts + part[s]
    BY <1>2 DEF Begun
  <2>2. /\ Len(wire'[channel]) = Len(wire[channel]) + 1
        /\ \A i \in 1 .. Len(wire[channel]) : wire'[channel][i] = wire[channel][i]
        /\ wire'[channel][Len(wire[channel]) + 1] = write
    BY <1>1, <1>3
  <2> QED  BY <2>1, <2>2
<1>5. pc'[Main] \in {"accepted", "attach"} => pc'[Main] = pc[Main]
  BY GoToTypes, MainSends DEF WritePart, IInv, Pc
<1>6. TargetOnce'
  BY <1>1, <1>3, <1>5, ConnAssumption DEF WireInv, TargetOnce
<1>7. CASE part[s] + 1 < Parts
  <2>1. pc' = pc /\ part'[s] = part[s] + 1
    <3>1. part[s] < Parts + Len(LogRow)
      BY <1>1, RowLength, BoundsAssumption
    <3>2. UNCHANGED pc /\ part' = [part EXCEPT ![s] = @ + 1]
      BY <1>7 DEF WritePart
    <3> QED  BY <3>1, <3>2, CountTypes DEF IInv
  <2>2. Begun(wire'[channel], n, s, part[s] + 1)
    <3>1. ASSUME NEW i \in 1 .. part[s]
          PROVE  n * Parts + i \in 1 .. n * Parts + part[s]
      <4>1. n * Parts \in Nat
        BY BoundsAssumption
      <4> QED  BY <1>1, <4>1
    <3>2. Len(wire'[channel]) = n * Parts + (part[s] + 1)
      BY <1>1, <1>4, BoundsAssumption
    <3>3. ASSUME NEW i \in 1 .. part[s]
          PROVE  wire'[channel][n * Parts + i] = [from |-> s, part |-> i]
      BY <1>2, <1>4, <3>1 DEF Begun
    <3>4. wire'[channel][n * Parts + (part[s] + 1)] = [from |-> s, part |-> part[s] + 1]
      BY <1>1, <1>4, BoundsAssumption, SMTT(30)
    <3>5. \A i \in 1 .. part[s] + 1 : i \in 1 .. part[s] \/ i = part[s] + 1
      BY <1>1
    <3> QED  BY <3>2, <3>3, <3>4, <3>5 DEF Begun
  <2>3. EndsWhole'
    BY <1>1, <1>3, <2>1, <2>2 DEF EndsWhole
  <2>4. DeliverySteps
    <3>1. part[s] \in 0 .. Parts - 2
      BY <1>1, <1>7, BoundsAssumption
    <3>2. Messages(channel)' = Messages(channel)
      BY <1>1, <1>3, <1>4, <3>1, MessageNotYet
    <3>3. \A c \in Conn : Messages(c)' = Messages(c)
      BY <1>3, <3>2, MessagesKept
    <3>4. UNCHANGED AllMessages
      BY <3>3 DEF AllMessages
    <3> QED  BY <1>3, <3>4 DEF DeliverySteps
  <2> QED  BY <1>6, <2>3, <2>4 DEF WireInv
<1>8. CASE ~ (part[s] + 1 < Parts)
  <2>1. part[s] = Parts - 1 /\ write = [from |-> s, part |-> Parts]
    BY <1>1, <1>8, BoundsAssumption
  <2>2. /\ pc'[s] = "logging"
        /\ \A r \in Sender : r # s => pc'[r] = pc[r]
    BY <1>8, GoToTypes DEF WritePart, IInv, Pc
  <2>3. \A r \in Sender : pc'[r] # "writing"
    BY <1>1, <2>2, OneLogs
  <2>4. n + 1 \in Nat /\ Len(wire'[channel]) = (n + 1) * Parts
    BY <1>4, <2>1, BoundsAssumption
  <2>5. EndsWhole'
    BY <1>3, <2>3, <2>4 DEF EndsWhole
  <2>6. [c \in Conn |-> Messages(c)]'
          = [[c \in Conn |-> Messages(c)] EXCEPT ![channel] = Append(@, s)]
    <3>1. \A c \in Conn : c # channel => Messages(c)' = Messages(c)
      BY <1>3, MessagesKept
    <3>2. ASSUME NEW c \in Conn, c = channel
          PROVE  Messages(c)' = Append(Messages(channel), s)
      BY <1>1, <1>2, <1>3, <2>1, <3>2, MessageComplete
    <3> QED  BY <1>1, <3>1, <3>2
  <2>7. D!Deliver(s)
    BY <1>1, <1>3, <2>6, ConnAssumption DEF D!Deliver
  <2>8. DeliverySteps
    BY <2>7 DEF DeliverySteps, D!Next
  <2> QED  BY <1>6, <2>5, <2>8 DEF WireInv
<1> QED  BY <1>7, <1>8

LEMMA NextWire == IInv /\ WireInv /\ [Next]_vars => WireInv' /\ DeliverySteps
<1> SUFFICES ASSUME IInv, WireInv, [Next]_vars PROVE WireInv' /\ DeliverySteps
  OBVIOUS
<1>1. CASE UNCHANGED vars
  <2>1. UNCHANGED <<channel, attached, wire, pc, part, serving>>
    BY <1>1 DEF vars, threads, history
  <2>2. pc'[Main] \in {"accepted", "attach"} => serving' \notin attached
    BY <2>1 DEF WireInv, TargetOnce
  <2> QED  BY <2>1, <2>2, WireKept
<1>2. ASSUME NEW s \in Sender, Send(s) PROVE WireInv' /\ DeliverySteps
  <2>1. CASE SendNowhere(s)
    BY <2>1, WireReturn DEF SendNowhere, history
  <2>2. CASE LogPart(s)
    <3>1. pc[s] = "logging" /\ UNCHANGED <<channel, attached, wire>>
      BY <2>2 DEF LogPart, history
    <3>2. CASE part[s] + 1 < Len(LogRow)
      <4>1. UNCHANGED <<pc, serving>> /\ \A r \in Sender : r # s => part'[r] = part[r]
        BY <2>2, <3>2 DEF LogPart, IInv, TypeOK
      <4>2. pc'[Main] \in {"accepted", "attach"} => serving' \notin attached
        BY <4>1 DEF WireInv, TargetOnce
      <4> QED  BY <3>1, <4>1, <4>2, WireKept
    <3>3. CASE ~ (part[s] + 1 < Len(LogRow))
      BY <2>2, <3>1, <3>3, WireReturn DEF LogPart
    <3> QED  BY <3>2, <3>3
  <2>3. CASE LogFails(s)
    BY <2>3, WireReturn DEF LogFails
  <2> QED  BY <1>2, <2>1, <2>2, <2>3, WireBeginSend, WireWritePart, WireWriteFails DEF Send, SendOn
<1>3. ASSUME NEW s \in Reporter, StartReport(s) PROVE WireInv' /\ DeliverySteps
  <2>1. s \in Sender /\ "send" \in Pc \ {"writing", "accepted", "attach"}
    BY DEF Sender, Pc
  <2> QED  BY <1>3, <2>1, WireGoTo DEF StartReport, history
<1>4. CASE AcceptLoop
  <2>1. Main \in Sender /\ {"accept", "ended", "send"} \subseteq Pc \ {"writing", "accepted", "attach"}
    BY MainSends DEF Pc
  <2>2. ASSUME NEW c \in Conn, Accept(c) PROVE WireInv' /\ DeliverySteps
    <3>1. /\ pc'[Main] = "accepted" /\ pc[Main] = "accept"
          /\ \A r \in Sender : r # Main => pc'[r] = pc[r] /\ part'[r] = part[r]
      BY <2>2, GoToTypes, MainSends DEF Accept, IInv, Pc
    <3>2. serving' = c /\ c \notin attached
      BY <2>2 DEF Accept, IInv, TypeOK
    <3> QED  BY <2>2, <3>1, <3>2, WireKept DEF Accept, history
  <2>3. CASE AcceptLoopEnds
    BY <2>1, <2>3, WireGoTo DEF AcceptLoopEnds
  <2>4. CASE SetChannel
    BY <2>4, WireSetChannel
  <2>5. CASE ClientDone
    BY <2>1, <2>5, WireGoTo DEF ClientDone
  <2>6. CASE Duplicate
    <3>1. /\ pc'[Main] = "attach" /\ pc[Main] = "accepted" /\ serving' = serving
          /\ \A r \in Sender : r # Main => pc'[r] = pc[r] /\ part'[r] = part[r]
      BY <2>6, GoToTypes, MainSends DEF Duplicate, MainGoesOn, IInv, Pc
    <3>2. serving' \notin attached
      BY <3>1 DEF WireInv, TargetOnce
    <3> QED  BY <2>6, <3>1, <3>2, WireKept DEF Duplicate, MainGoesOn, history
  <2>7. CASE Greet
    BY <2>1, <2>7, WireGoTo DEF Greet, MainGoesOn, history
  <2> QED  BY <1>4, <2>2, <2>3, <2>4, <2>5, <2>6, <2>7 DEF AcceptLoop, AcceptOn
<1>5. ASSUME NEW c \in Conn, Dashboard(c) PROVE WireInv' /\ DeliverySteps
  <2>1. UNCHANGED <<channel, attached, wire, pc, part, serving>>
    BY <1>5 DEF Dashboard, Connect, Stall, Resume, Close, PeerMoves, threads, history
  <2>2. pc'[Main] \in {"accepted", "attach"} => serving' \notin attached
    BY <2>1 DEF WireInv, TargetOnce
  <2> QED  BY <2>1, <2>2, WireKept
<1> QED  BY <1>1, <1>2, <1>3, <1>4, <1>5 DEF Next

LEMMA InitDelivery == Init => WireInv /\ D!Init
<1> SUFFICES ASSUME Init PROVE WireInv /\ D!Init
  OBVIOUS
<1>1. WireInv
  BY MainSends DEF Init, WireInv, EndsWhole, TargetOnce
<1>2. ASSUME NEW c \in Conn PROVE Messages(c) = <<>>
  <2>1. Len(wire[c]) \div Parts = 0
    BY BoundsAssumption DEF Init
  <2> QED  BY <2>1 DEF Messages
<1>3. [c \in Conn |-> Messages(c)] = [c \in Conn |-> <<>>]
  BY <1>2
<1> QED  BY <1>1, <1>3 DEF Init, D!Init

\* Senders that overlap, clients that replace one another and connections that
\* break in the middle of a message never mix or repeat messages (send under the
\* write half of the RwLock, the target overwritten with None when a write
\* fails): every step of the channel is a step of Delivery or leaves it alone.
THEOREM ChannelDelivers == Spec => DeliversWholeMessages
<1>1. DeliverySteps => [D!Next]_<<channel, attached, [c \in Conn |-> Messages(c)]>>
  BY DEF DeliverySteps, AllMessages
<1>2. IInv /\ WireInv /\ [Next]_vars
        => [D!Next]_<<channel, attached, [c \in Conn |-> Messages(c)]>>
  BY <1>1, NextWire
<1> QED  BY InitIInv, NextIInv, InitDelivery, NextWire, <1>2, PTL
         DEF Spec, DeliversWholeMessages, D!Spec

=============================================================================
