----------------------------- MODULE MCTcpSession -----------------------------
(***************************************************************************)
(* TcpSession for TLC.  One line is answered with two octets; the other    *)
(* one ends the session, or is a command that answers nothing.             *)
(***************************************************************************)
EXTENDS TcpSession

CONSTANTS
  h1, h2,        \* the hosts
  stats, quit    \* the lines

(* Two clients at once, or one alone on a wire that may lose two segments. *)
MCCallers == {Clients, {<<h1, 1>>}}
MCMaxLoss == [n \in 1 .. 2 |-> IF n = 1 THEN 2 ELSE 0]

MCOne == {{<<h1, 1>>}}
MCBoth == {Clients}

MCSize == [d \in Payloads |-> IF d = stats THEN 1 ELSE 2]

MCAnswer == [d \in Payloads |-> IF d = stats THEN {2} ELSE {0, -1}]
===============================================================================
