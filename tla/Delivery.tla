------------------------------ MODULE Delivery ------------------------------
(***************************************************************************)
(* What the channel to the dashboard promises its users: messages reach    *)
(* the connection that is current when they are sent, whole and one at a   *)
(* time, and a connection that was given up is never written to again.     *)
(* Outgoing.tla implements it.                                             *)
(***************************************************************************)
EXTENDS Naturals, Sequences

CONSTANTS Conn, Sender, NoConn

VARIABLES
  current,    \* the connection messages go to, or NoConn
  attached,   \* the connections that are or were current
  got         \* for each connection, the senders of the messages it was given

Init ==
  /\ current = NoConn
  /\ attached = {}
  /\ got = [c \in Conn |-> <<>>]

Attach(c) ==
  /\ c \notin attached
  /\ current' = c
  /\ attached' = attached \cup {c}
  /\ UNCHANGED got

Deliver(s) ==
  /\ current # NoConn
  /\ got' = [got EXCEPT ![current] = Append(@, s)]
  /\ UNCHANGED <<current, attached>>

GiveUp ==
  /\ current # NoConn
  /\ current' = NoConn
  /\ UNCHANGED <<attached, got>>

Next ==
  \/ \E c \in Conn : Attach(c)
  \/ \E s \in Sender : Deliver(s)
  \/ GiveUp

Spec == Init /\ [][Next]_<<current, attached, got>>
=============================================================================
