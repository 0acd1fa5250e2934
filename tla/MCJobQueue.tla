----------------------------- MODULE MCJobQueue -----------------------------
(* Small instances of JobQueue for TLC.                                    *)
EXTENDS JobQueue

CONSTANTS j1, j2, j3, h1, h2

Jobs3  == {j1, j2, j3}
Hosts2 == {h1, h2}

\* env.dedupe_hosts = False: j1 and j2 run on the same host.
Shared  == [j \in Job |-> CASE j = j1 -> h1 [] j = j2 -> h1 [] j = j3 -> h2]
=============================================================================
