---------------------------- MODULE MCRemoteTunnel ----------------------------
(* Small instances of RemoteTunnel for TLC.                                *)
EXTENDS RemoteTunnel, TLC

CONSTANTS c1, c2

Conns1 == {c1}
Conns2 == {c1, c2}

\* On the second connection, which may be the first to be opened, the client does no
\* more than open and finish it.
Second == {<<c2, "local">>}
TwoBytes == [c \in Conn |-> IF c = c1 THEN 2 ELSE 0]
=============================================================================
