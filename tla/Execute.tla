------------------------------- MODULE Execute -------------------------------
(***************************************************************************)
(* The main loop of `fab` (fabric.main.main) and fabric.tasks.execute: the *)
(* tasks named on the command line run one after the other, each of them   *)
(* once per host of its host list, serially or in worker processes, under  *)
(* the error policy of the settings. A serial run is one step here; the    *)
(* worker processes of a parallel task are one step too, which leaves them *)
(* to JobQueue and takes from it what it is shown there to report.         *)
(***************************************************************************)
EXTENDS Integers, Sequences, FiniteSets, Worker

CONSTANTS
  Task,            \* task names
  Host,            \* host strings
  CommandLines,    \* the sequences of task names `fab` may be started with
  HostLists,       \* the host lists a task may get
  PoolSizes,       \* the sizes env.pool_size may be, as Sizes has them
  OwnSizes,        \* the sizes the tasks may have of their own, by task
  MarkedParallel,  \* tasks decorated with @parallel
  MarkedSerial,    \* tasks decorated with @serial, and not with @parallel
  RunsOnce,        \* tasks decorated with @runs_once, and not with @parallel
  Known,           \* the tasks of the fabfile
  None             \* Python's None, and a result that is not there

ASSUME CommandAssumption == CommandLines \subseteq Seq(Task)
ASSUME HostListAssumption == HostLists \subseteq Seq(Host)

\* A pool size: whether Python takes the value for true, and what int() makes of
\* it, None when it raises. A size that was not given is 0 and false; the string
\* '0', from a settings file or --set, is 0 and true.
Sizes == [set : BOOLEAN, number : Int \cup {None}]

ASSUME PoolAssumption == PoolSizes \subseteq Sizes /\ OwnSizes \subseteq [Known -> Sizes]
ASSUME MarkAssumption == MarkedParallel \cap MarkedSerial = {}
ASSUME OnceAssumption == RunsOnce \subseteq MarkedSerial
ASSUME NoneAssumption == None \notin Host \cup Outcomes \cup Int

VARIABLES
  env,          \* the settings execute() decides by
  ownSize,      \* the pool_size of each task: @parallel(pool_size=...)
  commands,     \* commands_to_run
  hostList,     \* what Task.get_hosts_and_effective_roles returns for each known task
  pc,           \* where main() and execute() stand
  cmd,          \* position in commands
  pos,          \* position in the host list
  results,      \* execute()'s results, by host
  report,       \* what JobQueue.run returned
  returnValue,  \* tasks whose runs_once wrapper holds a return value
  connections,  \* hosts with an entry in state.connections
  status,       \* exit status of fab, None while it runs
  ran,          \* history: every run of a task body, in order
  warned        \* history: the [cmd, host] a warning was printed for

config == <<env, ownSize, commands, hostList>>
vars == <<config, pc, cmd, pos, results, report, returnValue, connections, status, ran, warned>>

Settings ==
  [warn_only : BOOLEAN, skip_bad_hosts : BOOLEAN, use_exceptions : BOOLEAN,
   skip_unknown_tasks : BOOLEAN, eagerly_disconnect : BOOLEAN, parallel : BOOLEAN,
   pool_size : PoolSizes]

-----------------------------------------------------------------------------
(* What execute() decides from the settings and the task.                  *)

Current == commands[cmd]
Hosts   == hostList[Current]
Here    == Hosts[pos]

\* requires_parallel()
RequiresParallel(t) == (env.parallel /\ t \notin MarkedSerial) \/ t \in MarkedParallel

\* _is_network_error_ignored()
NetworkErrorIgnored == ~env.use_exceptions /\ env.skip_bad_hosts

\* Slip: the number of hosts is not the default.
AskedAsSet == IF ownSize[Current].set THEN ownSize[Current].number ELSE env.pool_size.number

\* What Task.get_pool_size() gives to int(): the task's size, or that of the
\* settings, or the number of hosts.
Asked == IF ownSize[Current].set THEN ownSize[Current].number
         ELSE IF env.pool_size.set THEN env.pool_size.number ELSE Len(Hosts)

PoolSize == IF Asked < Len(Hosts) THEN Asked ELSE Len(Hosts)

\* How a worker process can end: a signal kills it after its datum is sent,
\* or before, which leaves no more of it than a quiet end does.
Endings == [how : Outcomes, killed : {FALSE}] \cup [how : Outcomes \ {"abort"}, killed : {TRUE}]

WorkerExit(e) == IF e.killed THEN KilledCode ELSE ExitCode(e.how, NetworkErrorIgnored)

\* Slip: the value is looked for only while one host list is walked.
RememberedWithinOneTask == Current \in RunsOnce /\ Current \in returnValue /\ pos > 1

\* The runs_once wrapper returns its stored value instead of running the body.
Remembered == Current \in RunsOnce /\ Current \in returnValue

\* Slip: warn_only lets a serial run go on after an exception.
ContinuesUnderWarnOnly(o) ==
  o = "return" \/ (o = "networkError" /\ NetworkErrorIgnored) \/ (o = "exception" /\ env.warn_only)

\* What the host loop does after a run in this process: go on, keep something
\* for the host, warn.
Continues(o) == o = "return" \/ (o = "networkError" /\ NetworkErrorIgnored)

\* Slip: the error is not kept as the host's result.
KeepsValues(o) == o = "return"

Keeps(o) == o \in {"return", "networkError"}

Warns(o) == o = "networkError" /\ NetworkErrorIgnored

\* A worker has failed if its exit code says so; a slip: if it sent an error.
FailedByResult(d) == d.results \in {"networkError", "exception"}
Failed(d) == d.exit_code # 0

\* What is kept of a worker.
Sent(d) == d.results

\* What disconnect_all() leaves.
Disconnected == {}

Record(p, e, inWorker) ==
  [cmd |-> cmd, task |-> Current, pos |-> p, how |-> e.how, killed |-> e.killed,
   parallel |-> inWorker]

InProcess(o) == [how |-> o, killed |-> FALSE]

\* SystemExit; a slip: the error status is -1.
LeaveNegative(code) == status' = -code /\ pc' = "disconnect"
Leave(code) == status' = code /\ pc' = "disconnect"

-----------------------------------------------------------------------------

Init ==
  /\ env \in Settings
  /\ ownSize \in OwnSizes
  /\ commands \in CommandLines
  /\ hostList \in [Known -> HostLists]
  /\ pc = "check"
  /\ cmd = 1
  /\ pos = 1
  /\ results = [h \in Host |-> None]
  /\ report = [h \in Host |-> None]
  /\ returnValue = {}
  /\ connections = {}
  /\ status = None
  /\ ran = <<>>
  /\ warned = {}

\* main(): an unknown name ends the program before anything has run.
CheckCommands ==
  /\ pc = "check"
  /\ IF env.skip_unknown_tasks \/ \A i \in DOMAIN commands : commands[i] \in Known
     THEN pc' = "execute" /\ UNCHANGED status
     ELSE Leave(1)
  /\ UNCHANGED <<config, cmd, pos, results, report, returnValue, connections, ran, warned>>

\* execute() of a name that is not a task: skip_unknown_tasks is set here.
SkipUnknown ==
  /\ pc = "execute"
  /\ cmd <= Len(commands)
  /\ Current \notin Known
  /\ cmd' = cmd + 1
  /\ UNCHANGED <<config, pc, pos, results, report, returnValue, connections, status, ran, warned>>

\* Serial tasks and those without hosts have a pool size too: a value that
\* int() does not take ends the program.
BadPoolSize ==
  /\ pc = "execute"
  /\ cmd <= Len(commands)
  /\ Current \in Known
  /\ Asked = None
  /\ Leave(1)
  /\ UNCHANGED <<config, cmd, pos, results, report, returnValue, connections, ran, warned>>

StartTask ==
  /\ pc = "execute"
  /\ cmd <= Len(commands)
  /\ Current \in Known
  /\ Asked # None
  /\ pc' = CASE Hosts = <<>> -> "local"
             [] Hosts # <<>> /\ RequiresParallel(Current) -> "jobs"
             [] OTHER -> "serial"
  /\ pos' = 1
  /\ results' = [h \in Host |-> None]
  /\ UNCHANGED <<config, cmd, report, returnValue, connections, status, ran, warned>>

\* One iteration of the host loop; a run that raises skips what follows.
RunSerial(o) ==
  /\ pc = "serial"
  /\ pos <= Len(Hosts)
  /\ ~Remembered
  /\ ran' = Append(ran, Record(pos, InProcess(o), FALSE))
  /\ returnValue' = IF o = "return" THEN returnValue \cup ({Current} \cap RunsOnce) ELSE returnValue
  /\ \E new \in {{}, {Here}} :
       connections' = IF Continues(o) /\ env.eagerly_disconnect THEN Disconnected ELSE connections \cup new
  /\ IF Continues(o) THEN pos' = pos + 1 /\ UNCHANGED <<pc, status>>
                     ELSE Leave(IF o = "quiet" THEN 0 ELSE 1) /\ UNCHANGED pos
  /\ results' = IF Keeps(o) THEN [results EXCEPT ![Here] = o] ELSE results
  /\ warned' = IF Warns(o) THEN warned \cup {[cmd |-> cmd, host |-> Here]} ELSE warned
  /\ UNCHANGED <<config, cmd, report>>

RememberSerial ==
  /\ pc = "serial"
  /\ pos <= Len(Hosts)
  /\ Remembered
  /\ pos' = pos + 1
  /\ results' = [results EXCEPT ![Here] = "return"]
  /\ connections' = IF env.eagerly_disconnect THEN Disconnected ELSE connections
  /\ UNCHANGED <<config, pc, cmd, report, returnValue, status, ran, warned>>

\* No hosts: one run in this process. The body may connect on its own.
RunLocal(o) ==
  /\ pc = "local"
  /\ ~Remembered
  /\ ran' = Append(ran, Record(0, InProcess(o), FALSE))
  /\ returnValue' = IF o = "return" THEN returnValue \cup ({Current} \cap RunsOnce) ELSE returnValue
  /\ \E new \in {{}} \cup {{h} : h \in Host} : connections' = connections \cup new
  /\ IF o = "return" THEN pc' = "execute" /\ cmd' = cmd + 1 /\ UNCHANGED status
                     ELSE Leave(IF o = "quiet" THEN 0 ELSE 1) /\ UNCHANGED cmd
  /\ UNCHANGED <<config, pos, results, report, warned>>

RememberLocal ==
  /\ pc = "local"
  /\ Remembered
  /\ pc' = "execute"
  /\ cmd' = cmd + 1
  /\ UNCHANGED <<config, pos, results, report, returnValue, connections, status, ran, warned>>

\* The host loop appends a job per host (and disconnects eagerly each time),
\* then JobQueue.run runs them all. The workers have caches of their own.
RunJobs ==
  /\ pc = "jobs"
  /\ PoolSize >= 1
  /\ \E ends \in [DOMAIN Hosts -> Endings] :
       /\ \E r \in Reports(DOMAIN Hosts, Hosts, [i \in DOMAIN Hosts |-> WorkerExit(ends[i])],
                           {i \in DOMAIN Hosts : Submits(ends[i].how)}, None) :
            report' = [h \in Host |->
              IF h \notin DOMAIN r THEN None
              ELSE [exit_code |-> r[h].exit_code,
                    results |-> IF r[h].results = None THEN None ELSE ends[r[h].results].how]]
       /\ ran' = ran \o [i \in DOMAIN Hosts |-> Record(i, ends[i], TRUE)]
  /\ connections' = IF env.eagerly_disconnect THEN Disconnected ELSE connections
  /\ pos' = 1
  /\ pc' = "report"
  /\ UNCHANGED <<config, cmd, results, returnValue, status, warned>>

\* With a pool size below one the main loop of JobQueue.run starts nothing and
\* spins for ever.
SpinForever ==
  /\ pc = "jobs"
  /\ PoolSize < 1
  /\ connections' = IF env.eagerly_disconnect THEN Disconnected ELSE connections
  /\ pc' = "spinning"
  /\ UNCHANGED <<config, cmd, pos, results, report, returnValue, status, ran, warned>>

\* The loop over the report, in the order its names were first queued (a host
\* that is listed twice has one entry, which is looked at again to no effect).
CollectReport ==
  /\ pc = "report"
  /\ pos <= Len(Hosts)
  /\ LET d == report[Here]
         ignored == d.results = "networkError" /\ NetworkErrorIgnored
     IN IF Failed(d) /\ ~ignored /\ ~env.warn_only
        THEN Leave(1) /\ UNCHANGED <<pos, results, warned>>
        ELSE /\ warned' = IF Failed(d) THEN warned \cup {[cmd |-> cmd, host |-> Here]} ELSE warned
             /\ results' = [results EXCEPT ![Here] = Sent(d)]
             /\ pos' = pos + 1
             /\ UNCHANGED <<pc, status>>
  /\ UNCHANGED <<config, cmd, report, returnValue, connections, ran>>

FinishTask ==
  /\ pc \in {"serial", "report"}
  /\ pos > Len(Hosts)
  /\ pc' = "execute"
  /\ cmd' = cmd + 1
  /\ UNCHANGED <<config, pos, results, report, returnValue, connections, status, ran, warned>>

Done ==
  /\ pc = "execute"
  /\ cmd > Len(commands)
  /\ Leave(0)
  /\ UNCHANGED <<config, cmd, pos, results, report, returnValue, connections, ran, warned>>

\* The finally clause of main().
DisconnectAll ==
  /\ pc = "disconnect"
  /\ connections' = Disconnected
  /\ pc' = "exited"
  /\ UNCHANGED <<config, cmd, pos, results, report, returnValue, status, ran, warned>>

Step ==
  \/ CheckCommands \/ SkipUnknown \/ BadPoolSize \/ StartTask
  \/ \E o \in Outcomes : RunSerial(o) \/ RunLocal(o)
  \/ RememberSerial \/ RememberLocal
  \/ RunJobs \/ SpinForever \/ CollectReport
  \/ FinishTask \/ Done \/ DisconnectAll

Stopped == pc \in {"exited", "spinning"} /\ UNCHANGED vars

Next == Step \/ Stopped

Spec == Init /\ [][Next]_vars

\* fab is one thread of control; a task body is assumed to end.
FairSpec == Spec /\ WF_vars(Step)

-----------------------------------------------------------------------------
(* Properties.                                                             *)

Values == Outcomes \cup {None}

\* The type invariant.
TypeOK ==
  /\ env \in Settings
  /\ ownSize \in OwnSizes
  /\ commands \in CommandLines
  /\ hostList \in [Known -> HostLists]
  /\ pc \in {"check", "execute", "serial", "local", "jobs", "report", "disconnect",
             "exited", "spinning"}
  /\ cmd \in 1..(Len(commands) + 1)
  /\ pos \in Nat \ {0}
  /\ results \in [Host -> Values]
  /\ \A h \in Host : report[h] = None \/ report[h] \in [exit_code : Int, results : Values]
  /\ returnValue \subseteq RunsOnce
  /\ connections \subseteq Host
  /\ status \in {None, 0, 1}
  /\ \A i \in DOMAIN ran : ran[i].task \in Task /\ ran[i].how \in Outcomes
  /\ warned \subseteq [cmd : 1..Len(commands), host : Host]

\* The error policy lets a run that ended this way pass: the host loop skips a
\* host it could not reach (a task without hosts that fails to connect on its own
\* gets no such treatment), a worker's failure is a mere warning under warn_only,
\* and its SystemExit(0) is no failure at all.
Tolerated(r) ==
  \/ r.how = "return" /\ ~r.killed
  \/ r.how = "networkError" /\ NetworkErrorIgnored /\ r.pos # 0
  \/ r.parallel /\ (env.warn_only \/ (r.how = "quiet" /\ ~r.killed))

\* Fail-fast: once a run has failed, no task body is run after it, but for the
\* workers of the same task, which run side by side.
FailFast ==
  \A i, k \in DOMAIN ran :
    i < k /\ ~Tolerated(ran[i]) => ran[k].cmd = ran[i].cmd /\ ran[k].parallel

\* An exit status of 0 means that nothing failed, and that every task named on
\* the command line was run on every host of its list, exactly once, unless a
\* runs_once value stood in for it or a serial run ended the program quietly.
\* A status of 1 has a cause: a failure, an unknown task, or a pool size of the
\* task at hand that is no number.
StatusIsTrue ==
  /\ pc = "exited" /\ status = 0 =>
       /\ \A i \in DOMAIN ran : Tolerated(ran[i]) \/ ran[i].how = "quiet"
       /\ (\A i \in DOMAIN ran : ran[i].parallel \/ ran[i].how # "quiet") =>
            \A c \in DOMAIN commands : commands[c] \in Known \ RunsOnce =>
              \A p \in DOMAIN hostList[commands[c]] :
                Cardinality({i \in DOMAIN ran : ran[i].cmd = c /\ ran[i].pos = p}) = 1
  /\ pc = "exited" /\ status = 1 =>
       \/ \E i \in DOMAIN ran : ~Tolerated(ran[i])
       \/ ran = <<>> /\ \E c \in DOMAIN commands : commands[c] \notin Known
       \/ cmd <= Len(commands) /\ Current \in Known /\ Asked = None

\* What execute() is about to return holds for every host how the run on it
\* ended: its value or its error, and None where a worker sent nothing.
ResultsAreTrue ==
  pc \in {"serial", "report"} /\ pos > Len(Hosts) =>
    \A i \in DOMAIN ran : ran[i].cmd = cmd =>
      results[Hosts[ran[i].pos]] = IF Submits(ran[i].how) THEN ran[i].how ELSE None

\* The body of a runs_once task that has returned is not run again, neither on
\* another host nor when the task is named again.
OnlyOnce ==
  \A i, k \in DOMAIN ran :
    i < k /\ ran[i].task = ran[k].task /\ ran[i].task \in RunsOnce => ran[i].how # "return"

\* With skip_bad_hosts, a host a serial task could not reach is warned about
\* and the hosts after it are still tried.
SkippedIsWarned ==
  \A i \in DOMAIN ran :
    LET r == ran[i]
        list == hostList[r.task]
    IN  r.how = "networkError" /\ NetworkErrorIgnored /\ ~r.parallel /\ r.pos # 0 =>
          /\ [cmd |-> r.cmd, host |-> list[r.pos]] \in warned
          /\ pc = "exited" /\ r.pos < Len(list) =>
               \E k \in DOMAIN ran : ran[k].cmd = r.cmd /\ ran[k].pos = r.pos + 1

\* No host is passed over in silence: it has its result, or a warning in place
\* of one, and those after it have their turn.
EveryHostIsAnswered == ResultsAreTrue /\ SkippedIsWarned

\* No size that was given is a number below one: neither a negative one, nor a
\* zero that Python takes for true, which the string '0' is.
SizesAreUsable ==
  \A s \in {env.pool_size} \cup {ownSize[t] : t \in Known} :
    s.set /\ s.number # None => s.number >= 1

\* fab ends, whatever the tasks do, if the sizes that are given are usable:
\* a size that is not given, or that int() refuses, does not make it spin.
FabEnds == SizesAreUsable => <>(pc = "exited")
=============================================================================
