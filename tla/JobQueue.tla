------------------------------ MODULE JobQueue ------------------------------
(***************************************************************************)
(* fabric.job_queue.JobQueue: the sliding window of worker processes that  *)
(* runs a @parallel task on many hosts, together with the worker processes *)
(* themselves (the closure `inner` of fabric.tasks._execute) and the       *)
(* multiprocessing.Queue on which they send their results back.            *)
(*                                                                         *)
(* Three kinds of actors interleave: the caller and then the parent loop   *)
(* of JobQueue.run (one actor, its position is `pc`), one child process    *)
(* per job (`child[j]`), and the operating system, which may kill a child. *)
(* The parent does not wait for a child: it polls is_alive() and           *)
(* get_nowait(), and the children change state between any two of its      *)
(* reads. Only half a message in the pipe, which a child that is killed in *)
(* the middle of its write leaves there, makes get_nowait() wait.          *)
(***************************************************************************)
EXTENDS Integers, Sequences, FiniteSets, SequencesExt, Worker

CONSTANTS
  Job,                  \* the Process objects execute() may append
  Host,                 \* host strings, the keys of the results dictionary
  HostOf,               \* HostOf[j] is job.name: the host string of job j
  MaxRunning,           \* JobQueue._max, the pool size
  PipeCapacity,         \* how many data fit in the pipe under the comms queue
  Endings,              \* bound: the endings of a child that are considered
  NetworkErrorsIgnored, \* tasks._is_network_error_ignored() in the children
  None                  \* Python's None

ASSUME HostAssumption == HostOf \in [Job -> Host]
ASSUME MaxAssumption == MaxRunning \in Int
ASSUME CapacityAssumption == PipeCapacity \in Nat \ {0}
ASSUME EndingsAssumption == Endings \subseteq Outcomes \cup {"killed"}
ASSUME IgnoredAssumption == NetworkErrorsIgnored \in BOOLEAN
ASSUME NoneAssumption == None \notin Job \cup Host \cup Int

VARIABLES
  pc,         \* where the caller, then run(), stands
  idx,        \* position of the loop over _running or over _completed
  queued,     \* self._queued
  running,    \* self._running
  completed,  \* self._completed
  numOfJobs,  \* self._num_of_jobs
  closed,     \* self._closed
  finished,   \* self._finished
  results,    \* the dictionary run() returns
  child,      \* the state of every child process
  outcome,    \* how the task of a child ended
  exitcode,   \* Process.exitcode
  torn,       \* what a child killed in the middle of a write left behind:
              \* "no", the queue's "lock" held, or that and "half" a message
  pipe,       \* data written to the comms queue and not yet read
  delivered   \* history: the jobs whose datum ever reached the pipe

parentVars == <<idx, queued, running, completed, numOfJobs, closed, finished, results>>
childVars  == <<child, outcome, exitcode, torn>>
vars == <<pc, parentVars, childVars, pipe, delivered>>

-----------------------------------------------------------------------------
(* What a child can do, and what its parent can see of it.                 *)

ChildStates == {"new", "running", "flushing", "exiting", "dead"}

IsAlive(j) == child[j] \in {"running", "flushing", "exiting"}

\* self._all_alive(): the list of is_alive() values is read one by one, but
\* since a process never comes back to life the answer is the one an atomic
\* read gives at the first of those reads (True) or at the last (False).
AllAlive == running # <<>> /\ \A i \in DOMAIN running : IsAlive(running[i])

\* The test of the reaping pass; a slip: a negative exit code is not taken for
\* the end of one.
OverUnlessKilled(j) == child[j] = "dead" /\ exitcode[j] >= 0
Over(j) == ~IsAlive(j)

\* The test of the filling loops; a slip: off by one.
RoomForOneLess == Len(running) + 1 < MaxRunning
Room == Len(running) < MaxRunning

\* What _queued.pop() leaves; a slip: the job is looked at and left there.
RestAfterPeek == queued
Rest == Front(queued)

\* The test of the main loop for being over; a slip: all are started.
AllStarted == queued = <<>>
AllDone == queued = <<>> /\ running = <<>>

\* dict.fromkeys(('exit_code', 'results')).
Blank == [exit_code |-> None, results |-> None]

\* The results with a datum put in; a slip: its name is kept in place of what
\* it holds.
WithName(j) == [results EXCEPT ![HostOf[j]].results = HostOf[j]]
WithDatum(j) == [results EXCEPT ![HostOf[j]].results = j]

\* The results with the exit code of a job; a slip: the entry is made anew.
WithCodeOnly(j) == [results EXCEPT ![HostOf[j]] = [Blank EXCEPT !.exit_code = exitcode[j]]]
WithCode(j) == [results EXCEPT ![HostOf[j]].exit_code = exitcode[j]]

-----------------------------------------------------------------------------

Init ==
  /\ pc = "open"
  /\ idx = 1
  /\ queued = <<>>
  /\ running = <<>>
  /\ completed = <<>>
  /\ numOfJobs = 0
  /\ closed = FALSE
  /\ finished = FALSE
  /\ results = <<>>
  /\ child = [j \in Job |-> "new"]
  /\ outcome = [j \in Job |-> None]
  /\ exitcode = [j \in Job |-> None]
  /\ torn = "no"
  /\ pipe = <<>>
  /\ delivered = {}

(* The caller: execute() appends one job per host, closes, runs.           *)

AppendJob(j) ==
  /\ pc = "open"
  /\ ~closed
  /\ j \notin ToSet(queued)
  /\ queued' = Append(queued, j)
  /\ numOfJobs' = numOfJobs + 1
  /\ UNCHANGED <<pc, idx, running, completed, closed, finished, results, childVars, pipe, delivered>>

Close ==
  /\ pc = "open"
  /\ ~closed
  /\ closed' = TRUE
  /\ UNCHANGED <<pc, idx, queued, running, completed, numOfJobs, finished, results, childVars, pipe, delivered>>

\* run() prepares the results, then refuses to go on with an open queue.
Run ==
  /\ pc = "open"
  /\ results' = [h \in {HostOf[j] : j \in ToSet(queued)} |-> Blank]
  /\ pc' = IF closed THEN "prefill" ELSE "raised"
  /\ UNCHANGED <<idx, queued, running, completed, numOfJobs, closed, finished, childVars, pipe, delivered>>

(* The parent loop.                                                        *)

\* _advance_the_queue(): the job comes off the END of the list.
AdvanceTheQueue ==
  LET job == Last(queued) IN
  /\ queued' = Rest
  /\ child' = [child EXCEPT ![job] = "running"]
  /\ running' = Append(running, job)
  /\ UNCHANGED <<idx, completed, numOfJobs, closed, finished, results, outcome, exitcode, torn, pipe, delivered>>

\* `while len(self._running) < self._max` does not look at _queued.
Prefill ==
  /\ pc = "prefill"
  /\ Room
  /\ queued # <<>>
  /\ AdvanceTheQueue
  /\ UNCHANGED pc

PrefillRaises ==   \* IndexError: pop from empty list
  /\ pc = "prefill"
  /\ Room
  /\ queued = <<>>
  /\ pc' = "raised"
  /\ UNCHANGED <<parentVars, childVars, pipe, delivered>>

PrefillDone ==
  /\ pc = "prefill"
  /\ ~Room
  /\ pc' = "fill"
  /\ UNCHANGED <<parentVars, childVars, pipe, delivered>>

Fill ==
  /\ pc = "fill"
  /\ Room
  /\ queued # <<>>
  /\ AdvanceTheQueue
  /\ UNCHANGED pc

FillDone ==
  /\ pc = "fill"
  /\ ~Room \/ queued = <<>>
  /\ pc' = "check"
  /\ UNCHANGED <<parentVars, childVars, pipe, delivered>>

Check ==
  /\ pc = "check"
  /\ pc' = IF AllAlive THEN "settle" ELSE "scan"
  /\ idx' = 1
  /\ UNCHANGED <<queued, running, completed, numOfJobs, closed, finished, results, childVars, pipe, delivered>>

\* One iteration of the for loop. Popping the element under the iterator
\* moves its successor to `idx`, which the iterator then steps over.
Scan ==
  /\ pc = "scan"
  /\ idx <= Len(running)
  /\ idx' = idx + 1
  /\ IF Over(running[idx])
     THEN /\ running' = RemoveAt(running, idx)
          /\ completed' = Append(completed, running[idx])
     ELSE UNCHANGED <<running, completed>>
  /\ UNCHANGED <<pc, queued, numOfJobs, closed, finished, results, childVars, pipe, delivered>>

ScanDone ==
  /\ pc = "scan"
  /\ idx > Len(running)
  /\ pc' = "settle"
  /\ UNCHANGED <<parentVars, childVars, pipe, delivered>>

\* job.join() blocks until the process is dead.
Settle ==
  /\ pc = "settle"
  /\ IF AllDone
     THEN /\ \A i \in DOMAIN completed : child[completed[i]] = "dead"
          /\ finished' = TRUE
     ELSE UNCHANGED finished
  /\ pc' = "drain"
  /\ UNCHANGED <<idx, queued, running, completed, numOfJobs, closed, results, childVars, pipe, delivered>>

\* _fill_results(), one get_nowait() at a time: in the loop ("drain") and
\* once more after it ("final").
FillResults ==
  /\ pc \in {"drain", "final"}
  /\ pipe # <<>>
  /\ results' = WithDatum(Head(pipe))
  /\ pipe' = Tail(pipe)
  /\ UNCHANGED <<pc, idx, queued, running, completed, numOfJobs, closed, finished, childVars, delivered>>

\* get_nowait() unpickles the datum, and raises for one that cannot be made
\* anew, such as an exception whose class wants other arguments than it was
\* given. Nothing catches that in _fill_results() or in run().
FillRaises ==
  /\ pc \in {"drain", "final"}
  /\ pipe # <<>>
  /\ pipe' = Tail(pipe)
  /\ pc' = "unreadable"
  /\ UNCHANGED <<parentVars, childVars, delivered>>

\* Queue.Empty. With half a message in the pipe get_nowait() finds something
\* to read and waits for the rest of it.
DrainEmpty ==
  /\ pc = "drain"
  /\ pipe = <<>> /\ torn # "half"
  /\ pc' = IF finished THEN "final" ELSE "fill"
  /\ UNCHANGED <<parentVars, childVars, pipe, delivered>>

FinalEmpty ==
  /\ pc = "final"
  /\ pipe = <<>> /\ torn # "half"
  /\ pc' = "codes"
  /\ idx' = 1
  /\ UNCHANGED <<queued, running, completed, numOfJobs, closed, finished, results, childVars, pipe, delivered>>

\* Exit codes in the order of _completed: the last job of a host decides.
AttachExitCode ==
  /\ pc = "codes"
  /\ idx <= Len(completed)
  /\ results' = WithCode(completed[idx])
  /\ idx' = idx + 1
  /\ UNCHANGED <<pc, queued, running, completed, numOfJobs, closed, finished, childVars, pipe, delivered>>

Return ==
  /\ pc = "codes"
  /\ idx > Len(completed)
  /\ pc' = "returned"
  /\ UNCHANGED <<parentVars, childVars, pipe, delivered>>

Parent ==
  \/ Prefill \/ PrefillRaises \/ PrefillDone
  \/ Fill \/ FillDone
  \/ Check \/ Scan \/ ScanDone
  \/ Settle
  \/ FillResults \/ FillRaises \/ DrainEmpty \/ FinalEmpty
  \/ AttachExitCode \/ Return

(* A child process.                                                        *)

\* inner(): the task ends with outcome o; queue.put() hands a datum to the
\* feeder thread and the process goes on to exit.
TaskEnds(j, o) ==
  /\ child[j] = "running"
  /\ outcome' = [outcome EXCEPT ![j] = o]
  /\ child' = [child EXCEPT ![j] = IF Submits(o) THEN "flushing" ELSE "exiting"]
  /\ UNCHANGED <<pc, parentVars, exitcode, torn, pipe, delivered>>

\* The feeder thread takes the queue's lock and writes the datum, which blocks
\* while the lock is held or the pipe is full.
Flush(j) ==
  /\ child[j] = "flushing"
  /\ torn = "no"
  /\ Len(pipe) < PipeCapacity
  /\ pipe' = Append(pipe, j)
  /\ delivered' = delivered \cup {j}
  /\ child' = [child EXCEPT ![j] = "exiting"]
  /\ UNCHANGED <<pc, parentVars, outcome, exitcode, torn>>

\* The process ends only after its feeder thread is joined.
Die(j) ==
  /\ child[j] = "exiting"
  /\ child' = [child EXCEPT ![j] = "dead"]
  /\ exitcode' = [exitcode EXCEPT ![j] = ExitCode(outcome[j], NetworkErrorsIgnored)]
  /\ UNCHANGED <<pc, parentVars, outcome, torn, pipe, delivered>>

\* What a kill of j may leave of the queue: as it was or, while j writes, its
\* lock held with nothing or half a message written, and after the write of j
\* its lock held still.
LeftBy(j) ==
  {torn} \cup (IF torn # "no" THEN {}
               ELSE IF child[j] = "flushing" THEN {"lock", "half"}
               ELSE IF child[j] = "exiting" /\ pipe # <<>> /\ Last(pipe) = j THEN {"lock"}
               ELSE {})

\* The operating system kills a child.
Kill(j) ==
  /\ "killed" \in Endings
  /\ IsAlive(j)
  /\ child' = [child EXCEPT ![j] = "dead"]
  /\ exitcode' = [exitcode EXCEPT ![j] = KilledCode]
  /\ torn' \in LeftBy(j)
  /\ UNCHANGED <<pc, parentVars, outcome, pipe, delivered>>

Child(j) == (\E o \in Endings \ {"killed"} : TaskEnds(j, o)) \/ Flush(j) \/ Die(j)

\* run() has returned or raised, or waits for the second half of a message,
\* and every process is gone.
Stopped ==
  /\ \/ pc \in {"returned", "raised", "unreadable"}
     \/ pc \in {"drain", "final"} /\ pipe = <<>> /\ torn = "half"
  /\ \A j \in Job : ~IsAlive(j)
  /\ UNCHANGED vars

Next ==
  \/ \E j \in Job : AppendJob(j)
  \/ Close
  \/ Run
  \/ Parent
  \/ \E j \in Job : Child(j) \/ Kill(j)
  \/ Stopped

Spec == Init /\ [][Next]_vars

\* The parent polls in a loop and goes on whenever it can; the scheduler runs
\* every child, and a task is assumed to end (fabric sets no limit of its own).
Fairness == WF_vars(Parent) /\ \A j \in Job : WF_vars(Child(j))

FairSpec == Spec /\ Fairness

-----------------------------------------------------------------------------
(* Properties.                                                             *)

Entries == [exit_code : {None} \cup Int, results : {None} \cup Job]

PCs == {"open", "prefill", "fill", "check", "scan", "settle", "drain", "final",
        "codes", "returned", "raised", "unreadable"}

\* The type invariant.
TypeOK ==
  /\ pc \in PCs
  /\ idx \in Nat \ {0}
  /\ queued \in Seq(Job)
  /\ running \in Seq(Job)
  /\ completed \in Seq(Job)
  /\ numOfJobs \in Nat
  /\ closed \in BOOLEAN
  /\ finished \in BOOLEAN
  /\ DOMAIN results \in SUBSET Host
  /\ results \in [DOMAIN results -> Entries]
  /\ child \in [Job -> ChildStates]
  /\ outcome \in [Job -> Outcomes \cup {None}]
  /\ exitcode \in [Job -> Int \cup {None}]
  /\ torn \in {"no", "lock", "half"}
  /\ pipe \in Seq(Job)
  /\ delivered \in SUBSET Job

\* A job is in at most one of the three lists and at most once in it, whatever
\* the pop-while-enumerating of the reaping pass does, and __len__() counts
\* exactly the jobs in them.
OneListPerJob ==
  /\ IsInjective(queued) /\ IsInjective(running) /\ IsInjective(completed)
  /\ ToSet(queued) \cap ToSet(running) = {}
  /\ ToSet(queued) \cap ToSet(completed) = {}
  /\ ToSet(running) \cap ToSet(completed) = {}
  /\ numOfJobs = Len(queued) + Len(running) + Len(completed)

\* The lists tell the truth about the processes: what is queued was never
\* started, what was started stays in the window until it is dead, and is in
\* the completed list after that.
ListsMatchProcesses ==
  /\ \A j \in ToSet(queued) : child[j] = "new"
  /\ \A j \in ToSet(running) : child[j] # "new"
  /\ \A j \in ToSet(completed) : child[j] = "dead"
  /\ \A j \in Job : child[j] # "new" => j \in ToSet(running) \cup ToSet(completed)

\* What the queue knows of its jobs is true: none is lost or doubled between
\* its lists, and the lists agree with the processes.
JobsAreAccounted == OneListPerJob /\ ListsMatchProcesses

\* Never more live processes than the pool size.
WindowBound == MaxRunning >= 0 => Cardinality({j \in Job : IsAlive(j)}) <= MaxRunning

\* When the loop goes to look for dead processes, the window is full or there
\* is nothing left to start: a slot freed in one pass is used in the next.
WindowIsFilled ==
  pc = "check" => Len(running) >= MaxRunning \/ queued = <<>>

\* Neither too many processes run nor, as long as there are jobs, too few.
WindowIsKept == WindowBound /\ WindowIsFilled

\* With at least as many jobs as the pool size, which Task.get_pool_size
\* guarantees to execute(), filling the window first never raises.
PoolFits == closed /\ numOfJobs >= MaxRunning => pc # "raised"

\* A datum that reached the queue is still there or is in the results of its
\* host, where only a datum of the same host may have replaced it, unless one
\* could not be read.
NoDatumLost ==
  pc # "unreadable" => \A j \in delivered :
    \/ j \in ToSet(pipe)
    \/ /\ HostOf[j] \in DOMAIN results
       /\ \E k \in delivered : HostOf[k] = HostOf[j] /\ results[HostOf[j]].results = k

\* What run() promises once it has returned: no process is left, each host
\* that had jobs carries the exit code of one of them, and the datum of one of
\* them if any datum was ever sent: all of its jobs when it had but one.
ReportIsComplete ==
  pc = "returned" =>
    /\ \A j \in Job : child[j] \in {"new", "dead"}
    /\ \A j \in Job : child[j] = "dead" =>
         /\ \E k \in Job : /\ HostOf[k] = HostOf[j]
                           /\ child[k] = "dead"
                           /\ results[HostOf[j]].exit_code = exitcode[k]
         /\ j \in delivered => results[HostOf[j]].results \in delivered
         /\ results[HostOf[j]].results \in Job =>
              HostOf[results[HostOf[j]].results] = HostOf[j]

\* A process is never started twice and never comes back from the dead, and
\* the completed list only grows.
Rank(s) == CASE s = "new" -> 0 [] s = "running" -> 1 [] s = "flushing" -> 2
             [] s = "exiting" -> 3 [] s = "dead" -> 4
NeverRestarted ==
  [][ /\ \A j \in Job : Rank(child'[j]) >= Rank(child[j])
      /\ IsPrefix(completed, completed') ]_vars

\* For a host with one job, a result once read from the queue is final.
ResultIsFinal ==
  [][\A j \in Job : (/\ HostOf[j] \in DOMAIN results
                     /\ results[HostOf[j]].results \in Job
                     /\ \A k \in Job : HostOf[k] = HostOf[j] => k = j)
       => results'[HostOf[j]].results = results[HostOf[j]].results]_vars

\* Nothing that has happened to a job is undone or done again.
NothingIsUndone == NeverRestarted /\ ResultIsFinal

-----------------------------------------------------------------------------
(* JobQueue implements SlidingWindow. A job is active as long as its       *)
(* process lives, which is shorter than it stays in self._running.         *)

WindowState ==
  [j \in Job |-> CASE j \in ToSet(queued) -> "waiting"
                   [] IsAlive(j) -> "active"
                   [] child[j] = "dead" -> "ended"
                   [] OTHER -> "absent"]

WindowPhase == CASE pc = "open" -> "open"
                 [] pc = "returned" -> "reported"
                 [] pc \in {"raised", "unreadable"} -> "failed"
                 [] OTHER -> "running"

Window == INSTANCE SlidingWindow WITH
  state <- WindowState,
  exitcode <- exitcode,
  sent <- delivered,
  phase <- WindowPhase,
  report <- IF pc = "returned" THEN results ELSE None

\* Every step of the queue, its children and its pipe is a step of the
\* sliding window or changes nothing of it.
ImplementsWindow == Window!Spec

\* The same with the progress the window promises, as long as no child was
\* killed with the lock of the queue in hand and every datum could be read: a
\* lock that is held keeps the other children, and so run(), from ending.
ImplementsFairWindow ==
  Window!Spec /\ ([](torn = "no" /\ pc # "unreadable") => Window!Fairness)
=============================================================================
