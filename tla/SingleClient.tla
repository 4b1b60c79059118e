----------------------------- MODULE SingleClient -----------------------------
(***************************************************************************)
(* What the telnet service of the board promises about the TCP connections *)
(* it keeps, with no header, sequence number or timer in sight: it serves  *)
(* one remote socket at a time.  While it serves one, every other socket   *)
(* hears nothing but refusals, and hearing one changes nothing for the     *)
(* socket being served.  Once the service has said goodbye it is less      *)
(* strict: whatever is said next, by whomever, ends the connection.        *)
(*                                                                         *)
(* Tcp4 implements this specification (see Implements in Tcp4).            *)
(***************************************************************************)
CONSTANTS
  Sockets,    \* the remote sockets, a host and a port each
  NoSocket,   \* the owner of an idle service
  Silence     \* nothing is being said

VARIABLES
  owner,      \* the socket being served, or NoSocket
  phase,      \* "free", "open" or "closing"
  said        \* the answer on its way out: Silence or [to, flags]

vars == <<owner, phase, said>>

accept == {"syn", "ack"}
serve  == {"ack"}
bye    == {"fin", "ack"}
refuse == {"rst", "ack"}

Say(s, flags) == said' = [to |-> s, flags |-> flags]

Init ==
  /\ owner = NoSocket
  /\ phase = "free"
  /\ said = Silence

(* An idle service takes the first socket that asks for it. *)
Accept(s) ==
  /\ phase = "free" /\ said = Silence
  /\ owner' = s /\ phase' = "open"
  /\ Say(s, accept)

(* The owner, and nobody else, is accepted again or gets an answer. *)
Serve ==
  /\ phase = "open" /\ said = Silence
  /\ \E flags \in {accept, serve} : Say(owner, flags)
  /\ UNCHANGED <<owner, phase>>

(* Either side starts to close: the service says goodbye to the owner. *)
Bye ==
  /\ phase = "open" /\ said = Silence
  /\ phase' = "closing"
  /\ Say(owner, bye)
  /\ UNCHANGED owner

(* A socket that is not being served is refused, and nothing else changes. *)
Refuse(s) ==
  /\ \/ phase = "free"
     \/ phase = "open" /\ s # owner
  /\ said = Silence
  /\ Say(s, refuse)
  /\ UNCHANGED <<owner, phase>>

Free ==
  /\ owner' = NoSocket
  /\ phase' = "free"

(* The service breaks with its owner, and tells the owner so. *)
Break ==
  /\ phase = "open" /\ said = Silence
  /\ Free
  /\ Say(owner, refuse)

(* A reset ends the connection in silence. *)
Reset ==
  /\ said = Silence
  /\ Free
  /\ UNCHANGED said

(* After the goodbye, anything that arrives ends the connection. *)
Finish(s) ==
  /\ phase = "closing" /\ said = Silence
  /\ Free
  /\ \E flags \in {serve, refuse} : Say(s, flags)

(* The answer has left. *)
Sent ==
  /\ said # Silence
  /\ said' = Silence
  /\ UNCHANGED <<owner, phase>>

Next ==
  \/ \E s \in Sockets : Accept(s) \/ Refuse(s) \/ Finish(s)
  \/ Serve \/ Bye \/ Break \/ Reset \/ Sent

Spec == Init /\ [][Next]_vars
===============================================================================
