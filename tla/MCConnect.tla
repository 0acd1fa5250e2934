------------------------------ MODULE MCConnect ------------------------------
(* Small instances of Connect for TLC.                                     *)
EXTENDS Connect

CONSTANTS alias, web, db, gate, p, q

Names == {alias, web, db, gate}
Passwords == {p, q}

\* ~/.ssh/config: Host alias / HostName gate.
OneAlias == [n \in Name |-> IF n = alias THEN gate ELSE n]

\* web takes a password, the gateway another one, db a key or either of them.
Servers == [n \in Name |-> CASE n = gate -> {q} [] n = db -> {None, p, q} [] OTHER -> {p}]
\* A prompt that names web may mean the gateway: the user types either password.
Guesses == [n \in Name |-> IF n \in {gate, alias} THEN {q} ELSE {p, q}]
=============================================================================
