------------------------------- MODULE Worker -------------------------------
(***************************************************************************)
(* How one run of a task on one host ends, as the closure `inner` of       *)
(* fabric.tasks._execute sees it in a child process; what of it the parent *)
(* process can observe, a datum on the queue and an exit code; and what    *)
(* JobQueue.run may report of a set of such runs.                          *)
(***************************************************************************)
EXTENDS Integers

\* task.run() returns a value, raises NetworkError or another exception, raises
\* SystemExit(1) through abort(), or ends quietly, without a datum and with
\* exit code 0: by SystemExit(0), which connect() raises at end of file, or
\* with a value the feeder thread of the queue cannot pickle.
Outcomes == {"return", "networkError", "exception", "abort", "quiet"}

\* inner() puts a datum on the queue for everything but a SystemExit.
Submits(o) == o \in {"return", "networkError", "exception"}

\* The exception is swallowed only when it is a NetworkError and those are
\* ignored: tasks._is_network_error_ignored().
ExitCode(o, ignored) ==
  IF \/ o \in {"return", "quiet"}
     \/ o = "networkError" /\ ignored
  THEN 0 ELSE 1

\* exitcode of a process killed by a signal (SIGKILL).
KilledCode == -9

\* What run() may report when all of `jobs` are over: an entry for every host,
\* with the exit code of one of the jobs of that host, and the datum of one of
\* them if any of them sent one.
Reports(jobs, hostOf, exit, sent, none) ==
  {r \in [{hostOf[j] : j \in jobs} ->
            [exit_code : {exit[j] : j \in jobs}, results : sent \cup {none}]] :
     \A h \in DOMAIN r :
       LET mine == {j \in jobs : hostOf[j] = h} IN
       /\ \E j \in mine : r[h].exit_code = exit[j]
       /\ IF mine \cap sent = {} THEN r[h].results = none
                                 ELSE r[h].results \in mine \cap sent}
=============================================================================
