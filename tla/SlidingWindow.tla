---------------------------- MODULE SlidingWindow ----------------------------
(***************************************************************************)
(* What JobQueue promises to execute(), without lists, polling or pipe:    *)
(* jobs are handed in until the queue is closed, at most MaxRunning of     *)
(* them are active at any time, every one of them is run to its end        *)
(* exactly once, and only then one report is made, which tells for every   *)
(* host how a job of that host ended and what one of them sent.            *)
(***************************************************************************)
EXTENDS Integers, FiniteSets, Worker

CONSTANTS Job, Host, HostOf, MaxRunning, None

VARIABLES
  state,     \* "absent", "waiting", "active" or "ended", for every job
  exitcode,  \* how each ended job ended
  sent,      \* the jobs that sent a datum
  phase,     \* "open", "running", "reported" or "failed"
  report     \* None until the report is made

vars == <<state, exitcode, sent, phase, report>>

\* Killed by a signal, success, failure.
Codes == {KilledCode, 0, 1}

In(s) == {j \in Job : state[j] = s}

Init ==
  /\ state = [j \in Job |-> "absent"]
  /\ exitcode = [j \in Job |-> None]
  /\ sent = {}
  /\ phase = "open"
  /\ report = None

Submit(j) ==
  /\ phase = "open"
  /\ state[j] = "absent"
  /\ state' = [state EXCEPT ![j] = "waiting"]
  /\ UNCHANGED <<exitcode, sent, phase, report>>

\* The caller starts the run, or is refused because it did not close.
Begin ==
  /\ phase = "open"
  /\ phase' \in {"running", "failed"}
  /\ UNCHANGED <<state, exitcode, sent, report>>

Launch(j) ==
  /\ phase = "running"
  /\ state[j] = "waiting"
  /\ Cardinality(In("active")) < MaxRunning
  /\ state' = [state EXCEPT ![j] = "active"]
  /\ UNCHANGED <<exitcode, sent, phase, report>>

Send(j) ==
  /\ state[j] = "active"
  /\ sent' = sent \cup {j}
  /\ UNCHANGED <<state, exitcode, phase, report>>

End(j) ==
  /\ state[j] = "active"
  /\ state' = [state EXCEPT ![j] = "ended"]
  /\ \E code \in Codes : exitcode' = [exitcode EXCEPT ![j] = code]
  /\ UNCHANGED <<sent, phase, report>>

Report ==
  /\ phase = "running"
  /\ In("waiting") = {} /\ In("active") = {}
  /\ phase' = "reported"
  /\ report' \in Reports(In("ended"), HostOf, exitcode, sent, None)
  /\ UNCHANGED <<state, exitcode, sent>>

\* Fewer jobs than the window has places: the run is given up.
Fail ==
  /\ phase = "running"
  /\ In("waiting") = {}
  /\ Cardinality(In("active") \cup In("ended")) < MaxRunning
  /\ phase' = "failed"
  /\ UNCHANGED <<state, exitcode, sent, report>>

\* Something that was sent cannot be read: the run is given up.
Refuse ==
  /\ phase = "running"
  /\ sent # {}
  /\ phase' = "failed"
  /\ UNCHANGED <<state, exitcode, sent, report>>

Next ==
  \/ \E j \in Job : Submit(j) \/ Launch(j) \/ Send(j) \/ End(j)
  \/ Begin \/ Report \/ Fail \/ Refuse

Spec == Init /\ [][Next]_vars

\* Something that was started is not left standing: launching, ending and
\* reporting go on.
Fairness ==
  /\ WF_vars(\E j \in Job : Launch(j))
  /\ \A j \in Job : WF_vars(End(j))
  /\ WF_vars(Report \/ Fail)

FairSpec == Spec /\ Fairness
=============================================================================
