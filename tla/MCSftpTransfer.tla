--------------------------- MODULE MCSftpTransfer ---------------------------
(* A small instance of SftpTransfer for TLC.                               *)
EXTENDS SftpTransfer

CONSTANTS a, b, c

Files3 == {a, b, c}

AllCalls == {call_ \in [op : {"put", "get"}, use_sudo : BOOLEAN, mode : BOOLEAN] :
               call_.mode => call_.op = "put"}

\* A directory of two files and a single file, in both orders.
Lists ==
  LET directory == [dir |-> TRUE, files |-> <<a, b>>]
      single == [dir |-> FALSE, files |-> <<c>>]
  IN  {<<directory, single>>, <<single, directory>>}
=============================================================================
