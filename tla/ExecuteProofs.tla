---------------------------- MODULE ExecuteProofs ----------------------------
(***************************************************************************)
(* Theorems about Execute for any command line, any host lists, any set of *)
(* decorated tasks and every way the runs of the tasks may end.            *)
(***************************************************************************)
EXTENDS Execute, SequenceTheorems, FiniteSetTheorems, TLAPS

-----------------------------------------------------------------------------
(* The inductive invariant.                                                *)

\* What env.dedupe_hosts sees to: no host is listed twice.
NoDuplicates == \A l \in HostLists : \A i, k \in DOMAIN l : i # k => l[i] # l[k]

Runs == [cmd : Nat \ {0}, task : Task, pos : Nat, how : Outcomes, killed : BOOLEAN, parallel : BOOLEAN]

Types == TypeOK /\ ran \in Seq(Runs)

\* What the program counter says about the task at hand.
PcPart ==
  /\ status = None <=> pc \notin {"disconnect", "exited"}
  /\ pc = "check" => cmd = 1
  /\ pc \in {"serial", "local", "jobs", "report"} => cmd <= Len(commands) /\ Current \in Known
  /\ pc = "local" => Hosts = <<>>
  /\ pc \in {"jobs", "report"} => Hosts # <<>> /\ RequiresParallel(Current)
  /\ pc = "serial" => Hosts # <<>> /\ ~RequiresParallel(Current)
  /\ pc \in {"serial", "report"} => pos <= Len(Hosts) + 1
  /\ pc = "report" => \A p \in DOMAIN Hosts : report[Hosts[p]] \in [exit_code : Int, results : Values]

\* Every run belongs to a task of the command line, and to a host that the loop
\* has reached; none belongs to the same host of the same list as another.
RunPart ==
  \A i \in DOMAIN ran :
    /\ pc # "check"
    /\ ran[i].cmd <= Len(commands) /\ ran[i].cmd <= cmd
    /\ ran[i].task = commands[ran[i].cmd] /\ ran[i].task \in Known
    /\ ran[i].parallel <=> ran[i].pos # 0 /\ RequiresParallel(ran[i].task)
    /\ ran[i].killed => ran[i].parallel
    /\ ran[i].pos \in IF hostList[ran[i].task] = <<>> THEN {0} ELSE DOMAIN hostList[ran[i].task]
    /\ pc \in {"execute", "local", "jobs"} => ran[i].cmd < cmd
    /\ pc = "serial" /\ ran[i].cmd = cmd => ran[i].pos < pos

NoTwice == \A i, k \in DOMAIN ran : ran[i].cmd = ran[k].cmd /\ ran[i].pos = ran[k].pos => i = k

Walk == PcPart /\ RunPart /\ NoTwice

What(r) == IF Submits(r.how) THEN r.how ELSE None

\* While the report is gone through, it holds for every host what became of
\* the worker there.
ReportPart ==
  pc = "report" =>
    /\ \A p \in DOMAIN Hosts : \E i \in DOMAIN ran : ran[i].cmd = cmd /\ ran[i].pos = p
    /\ \A i \in DOMAIN ran : ran[i].cmd = cmd =>
         report[Hosts[ran[i].pos]] = [exit_code |-> WorkerExit(ran[i]), results |-> What(ran[i])]

\* A failure is still to be found in the report, or has ended the program.
FailPart ==
  \A i \in DOMAIN ran : ~Tolerated(ran[i]) =>
    \/ pc \in {"disconnect", "exited"}
    \/ pc = "report" /\ ran[i].cmd = cmd /\ ran[i].parallel /\ ran[i].pos >= pos

\* The exit status before it is handed to the shell.
StatusPart ==
  /\ status = 0 =>
       /\ \A i \in DOMAIN ran : Tolerated(ran[i]) \/ ran[i].how = "quiet"
       /\ \/ \E i \in DOMAIN ran : ran[i].how = "quiet" /\ ~ran[i].parallel
          \/ cmd > Len(commands)
  /\ status = 1 => \/ \E i \in DOMAIN ran : ~Tolerated(ran[i])
                   \/ ran = <<>> /\ \E c \in DOMAIN commands : commands[c] \notin Known
                   \/ cmd <= Len(commands) /\ Current \in Known /\ Asked = None

\* The tasks before the one at hand, and the hosts before the one at hand,
\* have had their run.
CountPart ==
  \A c \in DOMAIN commands : commands[c] \in Known \ RunsOnce =>
    \A p \in DOMAIN hostList[commands[c]] :
      \/ c < cmd
      \/ c = cmd /\ (pc = "report" \/ (pc = "serial" /\ p < pos))
      => \E i \in DOMAIN ran : ran[i].cmd = c /\ ran[i].pos = p

\* What the runs_once wrapper knows.
OncePart == \A i \in DOMAIN ran : ran[i].task \in RunsOnce /\ ran[i].how = "return" => ran[i].task \in returnValue

\* execute()'s results so far.
ResultPart ==
  \A i \in DOMAIN ran :
    ran[i].cmd = cmd /\ (pc = "serial" \/ (pc = "report" /\ ran[i].pos < pos)) =>
      results[Hosts[ran[i].pos]] = What(ran[i])

\* A host that was skipped has its warning, and the one after it its turn.
SkipPart ==
  \A i \in DOMAIN ran :
    ran[i].how = "networkError" /\ NetworkErrorIgnored /\ ~ran[i].parallel /\ ran[i].pos # 0 =>
      /\ [cmd |-> ran[i].cmd, host |-> hostList[ran[i].task][ran[i].pos]] \in warned
      /\ ran[i].pos < Len(hostList[ran[i].task]) =>
           \/ \E k \in DOMAIN ran : ran[k].cmd = ran[i].cmd /\ ran[k].pos = ran[i].pos + 1
           \/ pc = "serial" /\ cmd = ran[i].cmd /\ pos = ran[i].pos + 1 /\ ~Remembered

IInv ==
  /\ Types /\ Walk /\ ReportPart /\ FailPart /\ StatusPart
  /\ CountPart /\ OncePart /\ FailFast /\ OnlyOnce /\ ResultPart /\ SkipPart
-----------------------------------------------------------------------------
(* Lists, and what no step changes.                                        *)

\* list.append(e): the elements keep their places, e has the last one.
LEMMA AppendRun ==
  ASSUME NEW S, NEW s \in Seq(S), NEW e \in S
  PROVE  /\ Append(s, e) \in Seq(S)
         /\ Len(s) \in Nat /\ DOMAIN s = 1..Len(s)
         /\ DOMAIN Append(s, e) = DOMAIN s \cup {Len(s) + 1}
         /\ Len(s) + 1 \notin DOMAIN s
         /\ \A i \in DOMAIN s : Append(s, e)[i] = s[i]
         /\ Append(s, e)[Len(s) + 1] = e
         /\ \A i \in DOMAIN Append(s, e) : i \in Nat /\ i <= Len(s) + 1
<1>1. /\ Append(s, e) \in Seq(S)
      /\ Len(Append(s, e)) = Len(s) + 1
      /\ \A i \in 1..Len(s) : Append(s, e)[i] = s[i]
      /\ Append(s, e)[Len(s) + 1] = e
  BY AppendProperties
<1>2. /\ Len(s) \in Nat
      /\ DOMAIN s = 1..Len(s)
      /\ DOMAIN Append(s, e) = 1..(Len(s) + 1)
  BY <1>1, LenProperties
<1>3. 1..(Len(s) + 1) = 1..Len(s) \cup {Len(s) + 1}
  BY <1>2
<1> QED  BY <1>1, <1>2, <1>3

\* The sorts of the lists main() and execute() walk along.
LEMMA ListSorts ==
  ASSUME TypeOK
  PROVE  /\ commands \in Seq(Task) /\ Len(commands) \in Nat /\ DOMAIN commands = 1..Len(commands)
         /\ \A c \in DOMAIN commands : commands[c] \in Task
         /\ \A t \in Known : /\ hostList[t] \in HostLists /\ hostList[t] \in Seq(Host)
                             /\ Len(hostList[t]) \in Nat /\ DOMAIN hostList[t] = 1..Len(hostList[t])
                             /\ \A p \in DOMAIN hostList[t] : hostList[t][p] \in Host
         /\ cmd \in Nat /\ pos \in Nat /\ cmd >= 1 /\ pos >= 1
<1>1. commands \in Seq(Task) /\ \A t \in Known : hostList[t] \in HostLists /\ hostList[t] \in Seq(Host)
  BY CommandAssumption, HostListAssumption DEF TypeOK
<1>2. Len(commands) \in Nat /\ DOMAIN commands = 1..Len(commands) /\ \A c \in DOMAIN commands : commands[c] \in Task
  BY <1>1, LenProperties, ElementOfSeq
<1>3. \A t \in Known : /\ Len(hostList[t]) \in Nat /\ DOMAIN hostList[t] = 1..Len(hostList[t])
                       /\ \A p \in DOMAIN hostList[t] : hostList[t][p] \in Host
  BY <1>1, LenProperties, ElementOfSeq
<1> QED  BY <1>1, <1>2, <1>3 DEF TypeOK

\* Nothing the program was started with changes.
LEMMA ConfigStays == [Next]_vars => UNCHANGED <<env, ownSize, commands, hostList>>
BY DEF Next, Step, Stopped, vars, config, CheckCommands, SkipUnknown, StartTask, RunSerial, RunLocal,
       RememberSerial, RememberLocal, RunJobs, BadPoolSize, SpinForever, CollectReport, FinishTask, Done, DisconnectAll

\* A list without elements has no places.
LEMMA EmptyList == \A S : \A s \in Seq(S) : s = <<>> <=> DOMAIN s = {}
BY EmptySeq, LenProperties

-----------------------------------------------------------------------------
(* Type correctness.                                                       *)

LEMMA InitTypes == Init => Types /\ Walk
<1> SUFFICES ASSUME Init PROVE Types /\ Walk
  OBVIOUS
<1>1. commands \in Seq(Task) /\ Len(commands) \in Nat
  BY CommandAssumption, LenProperties DEF Init
<1>2. \A S : <<>> \in Seq(S) /\ DOMAIN <<>> = {}
  BY EmptySeq
<1>3. TypeOK
  BY <1>1, <1>2 DEF Init, TypeOK, Values
<1>4. PcPart
  BY DEF Init, PcPart
<1>5. RunPart /\ NoTwice
  BY <1>2 DEF Init, RunPart, NoTwice
<1> QED  BY <1>2, <1>3, <1>4, <1>5 DEF Init, Types, Walk

\* The run that an iteration in this process records.
LEMMA SerialRecord ==
  ASSUME Types, cmd <= Len(commands), NEW o \in Outcomes, NEW p \in Nat
  PROVE  /\ Record(p, InProcess(o), FALSE) \in Runs
         /\ Record(p, InProcess(o), FALSE) =
              [cmd |-> cmd, task |-> Current, pos |-> p, how |-> o, killed |-> FALSE, parallel |-> FALSE]
BY ListSorts DEF Types, Record, InProcess, Runs, Current

\* A run of the history is a run.
LEMMA RunsOf == \A s \in Seq(Runs) : \A i \in DOMAIN s : s[i] \in Runs
BY LenProperties, ElementOfSeq

\* An ending is an outcome and an exit code.
LEMMA EndingSorts == \A e \in Endings : e.how \in Outcomes /\ e.killed \in BOOLEAN /\ WorkerExit(e) \in Int
<1>1. \A e \in Endings : e.how \in Outcomes /\ e.killed \in BOOLEAN
  BY DEF Endings
<1>2. \A o, b : ExitCode(o, b) \in Int
  BY DEF ExitCode
<1>3. KilledCode \in Int
  BY DEF KilledCode
<1> QED  BY <1>1, <1>2, <1>3 DEF WorkerExit

\* RunJobs with its parts named: the ways the workers end, and the report.
LEMMA JobSteps ==
  ASSUME Types, PcPart, RunJobs
  PROVE  \E ends \in [DOMAIN Hosts -> Endings] :
           \E r \in Reports(DOMAIN Hosts, Hosts, [i \in DOMAIN Hosts |-> WorkerExit(ends[i])],
                            {i \in DOMAIN Hosts : Submits(ends[i].how)}, None) :
             /\ report' = [h \in Host |->
                  IF h \notin DOMAIN r THEN None
                  ELSE [exit_code |-> r[h].exit_code,
                        results |-> IF r[h].results = None THEN None ELSE ends[r[h].results].how]]
             /\ ran' \in Seq(Runs)
             /\ Len(ran) \in Nat /\ DOMAIN ran = 1..Len(ran) /\ Len(Hosts) \in Nat /\ DOMAIN Hosts = 1..Len(Hosts)
             /\ DOMAIN ran' = 1..(Len(ran) + Len(Hosts))
             /\ \A i \in DOMAIN ran : ran'[i] = ran[i]
             /\ \A p \in DOMAIN Hosts : ran'[Len(ran) + p] = Record(p, ends[p], TRUE)
<1>1. PICK ends \in [DOMAIN Hosts -> Endings] :
        /\ \E r \in Reports(DOMAIN Hosts, Hosts, [i \in DOMAIN Hosts |-> WorkerExit(ends[i])],
                            {i \in DOMAIN Hosts : Submits(ends[i].how)}, None) :
             report' = [h \in Host |->
               IF h \notin DOMAIN r THEN None
               ELSE [exit_code |-> r[h].exit_code,
                     results |-> IF r[h].results = None THEN None ELSE ends[r[h].results].how]]
        /\ ran' = ran \o [i \in DOMAIN Hosts |-> Record(i, ends[i], TRUE)]
  BY DEF RunJobs
<1> DEFINE new == [i \in DOMAIN Hosts |-> Record(i, ends[i], TRUE)]
<1>2. Len(Hosts) \in Nat /\ DOMAIN Hosts = 1..Len(Hosts) /\ Current \in Task /\ cmd \in Nat \ {0}
  BY ListSorts DEF Types, PcPart, Current, Hosts, RunJobs
<1>3. \A p \in DOMAIN Hosts : Record(p, ends[p], TRUE) \in Runs
  <2>1. \A e \in Endings : e.how \in Outcomes /\ e.killed \in BOOLEAN
    BY DEF Endings
  <2> QED  BY <1>2, <2>1 DEF Record, Runs
<1>4. new \in [1..Len(Hosts) -> Runs]
  BY <1>2, <1>3
<1>5. \A p \in DOMAIN Hosts : new[p] = Record(p, ends[p], TRUE)
  OBVIOUS
<1>6. ran' = ran \o new
  BY <1>1
<1> HIDE DEF new
<1>7. new \in Seq(Runs)
  BY <1>2, <1>4, SeqDef
<1>8. Len(new) = Len(Hosts)
  <2>1. Len(new) \in Nat /\ 1..Len(Hosts) = 1..Len(new)
    BY <1>4, <1>7, LenProperties
  <2> QED  BY <1>2, <2>1
<1>9. ran \in Seq(Runs) /\ Len(ran) \in Nat /\ DOMAIN ran = 1..Len(ran)
  BY LenProperties DEF Types
<1>10. /\ ran' \in Seq(Runs) /\ Len(ran') = Len(ran) + Len(Hosts)
       /\ \A i \in 1..(Len(ran) + Len(Hosts)) : ran'[i] = IF i <= Len(ran) THEN ran[i] ELSE new[i - Len(ran)]
  <2>1. /\ ran \o new \in Seq(Runs) /\ Len(ran \o new) = Len(ran) + Len(new)
        /\ \A i \in 1..(Len(ran) + Len(new)) : (ran \o new)[i] = IF i <= Len(ran) THEN ran[i] ELSE new[i - Len(ran)]
    BY <1>7, <1>9, ConcatProperties
  <2> QED  BY <1>6, <1>8, <2>1
<1>11. DOMAIN ran' = 1..(Len(ran) + Len(Hosts))
  BY <1>10, LenProperties
<1>12. \A i \in DOMAIN ran : ran'[i] = ran[i]
  BY <1>2, <1>9, <1>10
<1>13. ASSUME NEW p \in DOMAIN Hosts PROVE ran'[Len(ran) + p] = Record(p, ends[p], TRUE)
  <2>1. p \in 1..Len(Hosts) /\ Len(ran) + p \in 1..(Len(ran) + Len(Hosts)) /\ ~(Len(ran) + p <= Len(ran))
    BY <1>2, <1>9
  <2>2. ran'[Len(ran) + p] = new[Len(ran) + p - Len(ran)]
    BY <1>10, <2>1
  <2>3. Len(ran) + p - Len(ran) = p
    BY <1>9, <2>1
  <2> QED  BY <1>5, <2>2, <2>3
<1> QED  BY <1>1, <1>2, <1>9, <1>10, <1>11, <1>12, <1>13

LEMMA NextTypes ==
  ASSUME Types, PcPart, [Next]_vars
  PROVE  Types'
<1>0. /\ UNCHANGED <<env, ownSize, commands, hostList>> /\ ran \in Seq(Runs)
      /\ Len(commands) \in Nat /\ cmd \in Nat /\ pos \in Nat /\ cmd >= 1 /\ pos >= 1
  BY ConfigStays, ListSorts DEF Types
<1>1. CASE CheckCommands \/ SkipUnknown \/ StartTask \/ BadPoolSize \/ SpinForever \/ FinishTask \/ Done \/ DisconnectAll
  <2>1. UNCHANGED <<report, returnValue, ran, warned>>
    BY <1>1 DEF CheckCommands, SkipUnknown, StartTask, BadPoolSize, SpinForever, FinishTask, Done, DisconnectAll
  <2>2. /\ pc' \in {"execute", "serial", "local", "jobs", "disconnect", "exited", "spinning"}
        /\ status' \in {status, 0, 1} /\ connections' \in {connections, {}}
        /\ pos' \in {pos, 1} /\ results' \in {results, [h \in Host |-> None]}
    BY <1>1 DEF CheckCommands, SkipUnknown, StartTask, BadPoolSize, SpinForever, FinishTask, Done, DisconnectAll, Leave, Disconnected
  <2>3. cmd' \in {cmd, cmd + 1} /\ (cmd' = cmd + 1 => cmd <= Len(commands))
    BY <1>0, <1>1 DEF CheckCommands, SkipUnknown, StartTask, BadPoolSize, SpinForever, FinishTask, Done, DisconnectAll, PcPart
  <2> QED  BY <1>0, <2>1, <2>2, <2>3 DEF Types, TypeOK, Values
<1>2. ASSUME NEW o \in Outcomes, RunSerial(o) PROVE Types'
  <2>1. /\ cmd <= Len(commands) /\ Current \in Known /\ pos \in 1..Len(Hosts) /\ Here \in Host
    BY <1>0, <1>2, ListSorts DEF RunSerial, PcPart, Hosts, Here, Types
  <2>2. /\ ran' = Append(ran, Record(pos, InProcess(o), FALSE)) /\ Record(pos, InProcess(o), FALSE) \in Runs
    BY <1>0, <1>2, <2>1, SerialRecord DEF RunSerial
  <2>3. ran' \in Seq(Runs) /\ \A i \in DOMAIN ran' : ran'[i] \in Runs
    BY <1>0, <2>2, AppendRun, RunsOf
  <2>4. /\ returnValue' \subseteq RunsOnce /\ connections' \subseteq Host
    BY <1>2, <2>1 DEF RunSerial, Disconnected, Types, TypeOK
  <2>5. /\ pc' \in {"serial", "disconnect"} /\ status' \in {status, 0, 1} /\ pos' \in {pos, pos + 1}
        /\ results' \in [Host -> Values] /\ UNCHANGED <<cmd, report>>
        /\ warned' \subseteq [cmd : 1..Len(commands), host : Host]
    BY <1>0, <1>2, <2>1 DEF RunSerial, Leave, Types, TypeOK, Values
  <2> QED  BY <1>0, <2>3, <2>4, <2>5 DEF Types, TypeOK, Runs
<1>3. ASSUME NEW o \in Outcomes, RunLocal(o) PROVE Types'
  <2>1. cmd <= Len(commands) /\ Current \in Known
    BY <1>3 DEF RunLocal, PcPart
  <2>2. /\ ran' = Append(ran, Record(0, InProcess(o), FALSE)) /\ Record(0, InProcess(o), FALSE) \in Runs
    BY <1>0, <1>3, <2>1, SerialRecord DEF RunLocal
  <2>3. ran' \in Seq(Runs) /\ \A i \in DOMAIN ran' : ran'[i] \in Runs
    BY <1>0, <2>2, AppendRun, RunsOf
  <2>4. /\ returnValue' \subseteq RunsOnce /\ connections' \subseteq Host
    BY <1>3 DEF RunLocal, Types, TypeOK
  <2>5. /\ pc' \in {"execute", "disconnect"} /\ status' \in {status, 0, 1} /\ cmd' \in {cmd, cmd + 1}
        /\ UNCHANGED <<pos, results, report, warned>>
    BY <1>3 DEF RunLocal, Leave
  <2> QED  BY <1>0, <2>1, <2>3, <2>4, <2>5 DEF Types, TypeOK, Runs
<1>4. CASE RememberSerial \/ RememberLocal
  <2>1. /\ UNCHANGED <<report, returnValue, ran, warned, status>> /\ connections' \in {connections, {}}
        /\ pc' \in {pc, "execute"} /\ pos' \in {pos, pos + 1} /\ results' \in [Host -> Values]
    BY <1>4 DEF RememberSerial, RememberLocal, Disconnected, Types, TypeOK, Values, Outcomes
  <2>2. cmd' \in {cmd, cmd + 1} /\ cmd <= Len(commands)
    BY <1>4 DEF RememberSerial, RememberLocal, PcPart
  <2> QED  BY <1>0, <2>1, <2>2 DEF Types, TypeOK
<1>5. CASE RunJobs
  <2>0. PICK ends \in [DOMAIN Hosts -> Endings] :
          \E r \in Reports(DOMAIN Hosts, Hosts, [i \in DOMAIN Hosts |-> WorkerExit(ends[i])],
                           {i \in DOMAIN Hosts : Submits(ends[i].how)}, None) :
            /\ report' = [h \in Host |->
                 IF h \notin DOMAIN r THEN None
                 ELSE [exit_code |-> r[h].exit_code,
                       results |-> IF r[h].results = None THEN None ELSE ends[r[h].results].how]]
            /\ ran' \in Seq(Runs)
    BY <1>5, JobSteps
  <2>1. PICK r \in Reports(DOMAIN Hosts, Hosts, [i \in DOMAIN Hosts |-> WorkerExit(ends[i])],
                           {i \in DOMAIN Hosts : Submits(ends[i].how)}, None) :
          /\ report' = [h \in Host |->
               IF h \notin DOMAIN r THEN None
               ELSE [exit_code |-> r[h].exit_code,
                     results |-> IF r[h].results = None THEN None ELSE ends[r[h].results].how]]
          /\ ran' \in Seq(Runs)
    BY <2>0
  <2>2. ASSUME NEW h \in Host PROVE report'[h] = None \/ report'[h] \in [exit_code : Int, results : Values]
    <3>1. CASE h \notin DOMAIN r
      BY <2>1, <3>1
    <3>2. CASE h \in DOMAIN r
      <4>1. r[h].exit_code \in {WorkerExit(ends[i]) : i \in DOMAIN Hosts} /\ r[h].results \in DOMAIN Hosts \cup {None}
        BY <3>2 DEF Reports
      <4>2. r[h].exit_code \in Int /\ (r[h].results # None => ends[r[h].results].how \in Outcomes)
        BY <4>1, EndingSorts
      <4> QED  BY <2>1, <3>2, <4>2 DEF Values
    <3> QED  BY <3>1, <3>2
  <2>3. \A i \in DOMAIN ran' : ran'[i] \in Runs
    BY <2>1, RunsOf
  <2>4. /\ pc' = "report" /\ pos' = 1 /\ connections' \in {connections, {}}
        /\ UNCHANGED <<cmd, results, returnValue, status, warned>>
    BY <1>5 DEF RunJobs, Disconnected
  <2> QED  BY <1>0, <2>1, <2>2, <2>3, <2>4 DEF Types, TypeOK, Runs
<1>6. CASE CollectReport
  <2>1. cmd \in 1..Len(commands) /\ Current \in Known /\ pos \in 1..Len(Hosts) /\ Here \in Host
    BY <1>0, <1>6, ListSorts DEF CollectReport, PcPart, Hosts, Here, Types
  <2>2. /\ UNCHANGED <<cmd, report, returnValue, connections, ran>> /\ pc' \in {pc, "disconnect"}
        /\ status' \in {status, 1} /\ pos' \in {pos, pos + 1}
        /\ \/ warned' \in {warned, warned \cup {[cmd |-> cmd, host |-> Here]}}
    BY <1>6 DEF CollectReport, Leave
  <2>3. results' \in [Host -> Values]
    <3>1. results' \in {results, [results EXCEPT ![Here] = report[Here].results]}
      BY <1>6 DEF CollectReport, Sent
    <3>2. report[Here].results \in Values
      BY <1>0, <1>6, <2>1, ListSorts DEF CollectReport, PcPart, Types, Hosts, Here
    <3> QED  BY <2>1, <3>1, <3>2 DEF Types, TypeOK
  <2> QED  BY <1>0, <2>1, <2>2, <2>3 DEF Types, TypeOK
<1>7. CASE UNCHANGED vars
  BY <1>7 DEF vars, config, Types, TypeOK
<1> QED
  BY <1>1, <1>2, <1>3, <1>4, <1>5, <1>6, <1>7 DEF Next, Step, Stopped

-----------------------------------------------------------------------------
(* The program counter and the runs.                                       *)

\* A step that runs no task body leaves the history as it is.
LEMMA SameRuns ==
  ASSUME RunPart, NoTwice, UNCHANGED <<env, commands, hostList, ran>>, pc' # "check", cmd <= cmd',
         cmd \in Nat, cmd' \in Nat, ran \in Seq(Runs),
         \A i \in DOMAIN ran : /\ pc' \in {"execute", "local", "jobs"} => ran[i].cmd < cmd'
                               /\ pc' = "serial" /\ ran[i].cmd = cmd' => ran[i].pos < pos'
  PROVE  RunPart' /\ NoTwice'
<1>1. \A i \in DOMAIN ran : ran[i].cmd \in Nat
  BY RunsOf DEF Runs
<1> QED  BY <1>1 DEF RunPart, NoTwice, RequiresParallel

\* A step that runs one appends a run of a place that had none.
LEMMA OneMoreRun ==
  ASSUME RunPart, NoTwice, UNCHANGED <<env, ownSize, commands, hostList>>, pc' # "check", cmd <= cmd',
         cmd \in Nat, cmd' \in Nat, ran \in Seq(Runs), NEW r \in Runs, ran' = Append(ran, r),
         \A i \in DOMAIN ran : /\ pc' \in {"execute", "local", "jobs"} => ran[i].cmd < cmd'
                               /\ pc' = "serial" /\ ran[i].cmd = cmd' => ran[i].pos < pos'
                               /\ ~(ran[i].cmd = r.cmd /\ ran[i].pos = r.pos),
         /\ r.cmd <= Len(commands) /\ r.cmd <= cmd'
         /\ r.task = commands[r.cmd] /\ r.task \in Known
         /\ r.parallel <=> r.pos # 0 /\ RequiresParallel(r.task)
         /\ r.killed => r.parallel
         /\ r.pos \in IF hostList[r.task] = <<>> THEN {0} ELSE DOMAIN hostList[r.task]
         /\ pc' \in {"execute", "local", "jobs"} => r.cmd < cmd'
         /\ pc' = "serial" /\ r.cmd = cmd' => r.pos < pos'
  PROVE  RunPart' /\ NoTwice'
<1>1. \A i \in DOMAIN ran : ran[i].cmd \in Nat
  BY RunsOf DEF Runs
<1>2. /\ DOMAIN ran' = DOMAIN ran \cup {Len(ran) + 1} /\ \A i \in DOMAIN ran : ran'[i] = ran[i]
      /\ ran'[Len(ran) + 1] = r
  BY AppendRun
<1>3. RunPart'
  <2>1. ASSUME NEW i \in DOMAIN ran
        PROVE  /\ ran[i].cmd <= Len(commands) /\ ran[i].cmd <= cmd'
               /\ ran[i].task = commands[ran[i].cmd] /\ ran[i].task \in Known
               /\ ran[i].parallel <=> ran[i].pos # 0 /\ RequiresParallel(ran[i].task)
               /\ ran[i].killed => ran[i].parallel
               /\ ran[i].pos \in IF hostList[ran[i].task] = <<>> THEN {0} ELSE DOMAIN hostList[ran[i].task]
    BY <1>1 DEF RunPart
  <2>2. \A t : RequiresParallel(t) = RequiresParallel(t)'
    BY DEF RequiresParallel
  <2>3. SUFFICES ASSUME NEW i \in DOMAIN ran'
                 PROVE  /\ pc' # "check"
                        /\ ran'[i].cmd <= Len(commands) /\ ran'[i].cmd <= cmd'
                        /\ ran'[i].task = commands[ran'[i].cmd] /\ ran'[i].task \in Known
                        /\ ran'[i].parallel <=> ran'[i].pos # 0 /\ RequiresParallel(ran'[i].task)
                        /\ ran'[i].killed => ran'[i].parallel
                        /\ ran'[i].pos \in IF hostList[ran'[i].task] = <<>> THEN {0} ELSE DOMAIN hostList[ran'[i].task]
                        /\ pc' \in {"execute", "local", "jobs"} => ran'[i].cmd < cmd'
                        /\ pc' = "serial" /\ ran'[i].cmd = cmd' => ran'[i].pos < pos'
    BY DEF RunPart, RequiresParallel
  <2> QED  BY <1>2, <2>1
<1>4. NoTwice'
  BY <1>2 DEF NoTwice
<1> QED  BY <1>3, <1>4

LEMMA NextWalk ==
  ASSUME Types, Walk, [Next]_vars
  PROVE  Walk'
<1> USE DEF Walk
<1>0. /\ UNCHANGED <<env, ownSize, commands, hostList>> /\ ran \in Seq(Runs)
      /\ Len(commands) \in Nat /\ cmd \in Nat /\ pos \in Nat /\ cmd >= 1 /\ pos >= 1
      /\ None \notin {0, 1}
      /\ \A i \in DOMAIN ran : ran[i].cmd \in Nat /\ ran[i].pos \in Nat
      /\ \A t \in Known : Len(hostList[t]) \in Nat /\ DOMAIN hostList[t] = 1..Len(hostList[t])
  <2>1. \A i \in DOMAIN ran : ran[i].cmd \in Nat /\ ran[i].pos \in Nat
    BY RunsOf DEF Types, Runs
  <2>2. None \notin {0, 1}
    BY NoneAssumption
  <2> QED  BY <2>1, <2>2, ConfigStays, ListSorts DEF Types
<1>1. CASE CheckCommands
  <2>1. pc = "check" /\ pc' \in {"execute", "disconnect"} /\ UNCHANGED <<cmd, ran>>
        /\ (IF pc' = "execute" THEN status' = status ELSE status' = 1)
    BY <1>1 DEF CheckCommands, Leave
  <2>2. PcPart'
    BY <1>0, <2>1 DEF PcPart
  <2>3. DOMAIN ran = {}
    BY <2>1 DEF RunPart
  <2>4. RunPart' /\ NoTwice'
    BY <1>0, <2>1, <2>3, SameRuns
  <2> QED  BY <2>2, <2>4
<1>2. CASE SkipUnknown
  <2>1. pc = "execute" /\ UNCHANGED <<pc, status, ran>> /\ cmd' = cmd + 1
    BY <1>2 DEF SkipUnknown
  <2>2. PcPart'
    BY <2>1 DEF PcPart
  <2>3. \A i \in DOMAIN ran : ran[i].cmd < cmd'
    BY <1>0, <2>1 DEF RunPart
  <2>4. RunPart' /\ NoTwice'
    BY <1>0, <2>1, <2>3, SameRuns
  <2> QED  BY <2>2, <2>4
<1>3. CASE StartTask
  <2>1. /\ pc = "execute" /\ UNCHANGED <<cmd, status, ran>> /\ pos' = 1 /\ cmd <= Len(commands) /\ Current \in Known
        /\ pc' = CASE Hosts = <<>> -> "local"
                   [] Hosts # <<>> /\ RequiresParallel(Current) -> "jobs"
                   [] OTHER -> "serial"
    BY <1>3 DEF StartTask
  <2>2. \/ pc' = "local" /\ Hosts = <<>>
        \/ pc' = "jobs" /\ Hosts # <<>> /\ RequiresParallel(Current)
        \/ pc' = "serial" /\ Hosts # <<>> /\ ~RequiresParallel(Current)
    BY <2>1
  <2>3. Current' = Current /\ Hosts' = Hosts /\ RequiresParallel(Current)' = RequiresParallel(Current)
    BY <1>0, <2>1 DEF Current, Hosts, RequiresParallel
  <2>4. Len(Hosts) \in Nat
    BY <1>0, <2>1 DEF Hosts
  <2>5. PcPart'
    BY <1>0, <2>1, <2>2, <2>3, <2>4 DEF PcPart
  <2>6. \A i \in DOMAIN ran : ran[i].cmd < cmd
    BY <2>1 DEF RunPart
  <2>7. RunPart' /\ NoTwice'
    BY <1>0, <2>1, <2>2, <2>6, SameRuns
  <2> QED  BY <2>5, <2>7
<1>4. ASSUME NEW o \in Outcomes, RunSerial(o) PROVE Walk'
  <2>1. /\ pc = "serial" /\ cmd <= Len(commands) /\ Current \in Known /\ pos \in DOMAIN Hosts /\ Hosts # <<>>
        /\ ~RequiresParallel(Current) /\ UNCHANGED cmd /\ Len(Hosts) \in Nat /\ pos <= Len(Hosts)
    BY <1>0, <1>4 DEF RunSerial, PcPart, Hosts
  <2>2. \/ pc' = "serial" /\ pos' = pos + 1 /\ status' = status
        \/ pc' = "disconnect" /\ status' \in {0, 1}
    BY <1>4, <2>1 DEF RunSerial, Leave
  <2>3. Current' = Current /\ Hosts' = Hosts /\ RequiresParallel(Current)' = RequiresParallel(Current)
    BY <1>0, <2>1 DEF Current, Hosts, RequiresParallel
  <2>4. PcPart'
    BY <1>0, <2>1, <2>2, <2>3 DEF PcPart
  <2>5. PICK r \in Runs :
          /\ ran' = Append(ran, r)
          /\ r = [cmd |-> cmd, task |-> Current, pos |-> pos, how |-> o, killed |-> FALSE, parallel |-> FALSE]
    BY <1>0, <1>4, <2>1, SerialRecord DEF RunSerial
  <2>6. \A i \in DOMAIN ran : ran[i].cmd = cmd => ran[i].pos < pos
    BY <2>1 DEF RunPart
  <2>7. /\ r.cmd <= Len(commands) /\ r.cmd <= cmd'
        /\ r.task = commands[r.cmd] /\ r.task \in Known
        /\ r.parallel <=> r.pos # 0 /\ RequiresParallel(r.task)
        /\ r.killed => r.parallel
        /\ r.pos \in IF hostList[r.task] = <<>> THEN {0} ELSE DOMAIN hostList[r.task]
        /\ pc' \in {"execute", "local", "jobs"} => r.cmd < cmd'
        /\ pc' = "serial" /\ r.cmd = cmd' => r.pos < pos'
    BY <1>0, <2>1, <2>2, <2>5 DEF Current, Hosts
  <2>8. \A i \in DOMAIN ran : /\ pc' \in {"execute", "local", "jobs"} => ran[i].cmd < cmd'
                              /\ pc' = "serial" /\ ran[i].cmd = cmd' => ran[i].pos < pos'
                              /\ ~(ran[i].cmd = r.cmd /\ ran[i].pos = r.pos)
    BY <1>0, <2>1, <2>2, <2>5, <2>6
  <2>9. RunPart' /\ NoTwice'
    BY <1>0, <2>1, <2>2, <2>5, <2>7, <2>8, OneMoreRun
  <2> QED  BY <2>4, <2>9
<1>5. ASSUME NEW o \in Outcomes, RunLocal(o) PROVE Walk'
  <2>1. pc = "local" /\ cmd <= Len(commands) /\ Current \in Known /\ Hosts = <<>>
    BY <1>5 DEF RunLocal, PcPart
  <2>2. \/ pc' = "execute" /\ cmd' = cmd + 1 /\ status' = status
        \/ pc' = "disconnect" /\ cmd' = cmd /\ status' \in {0, 1}
    BY <1>5 DEF RunLocal, Leave
  <2>3. PcPart'
    BY <1>0, <2>1, <2>2 DEF PcPart
  <2>4. PICK r \in Runs :
          /\ ran' = Append(ran, r)
          /\ r = [cmd |-> cmd, task |-> Current, pos |-> 0, how |-> o, killed |-> FALSE, parallel |-> FALSE]
    BY <1>0, <1>5, <2>1, SerialRecord DEF RunLocal
  <2>5. \A i \in DOMAIN ran : ran[i].cmd < cmd
    BY <2>1 DEF RunPart
  <2>6. /\ r.cmd <= Len(commands) /\ r.cmd <= cmd'
        /\ r.task = commands[r.cmd] /\ r.task \in Known
        /\ r.parallel <=> r.pos # 0 /\ RequiresParallel(r.task)
        /\ r.killed => r.parallel
        /\ r.pos \in IF hostList[r.task] = <<>> THEN {0} ELSE DOMAIN hostList[r.task]
        /\ pc' \in {"execute", "local", "jobs"} => r.cmd < cmd'
        /\ pc' = "serial" /\ r.cmd = cmd' => r.pos < pos'
    BY <1>0, <2>1, <2>2, <2>4 DEF Current, Hosts
  <2>7. \A i \in DOMAIN ran : /\ pc' \in {"execute", "local", "jobs"} => ran[i].cmd < cmd'
                              /\ pc' = "serial" /\ ran[i].cmd = cmd' => ran[i].pos < pos'
                              /\ ~(ran[i].cmd = r.cmd /\ ran[i].pos = r.pos)
    BY <1>0, <2>2, <2>4, <2>5
  <2>8. RunPart' /\ NoTwice'
    <3>1. cmd <= cmd' /\ cmd' \in Nat /\ pc' # "check"
      BY <1>0, <2>2
    <3> QED  BY <1>0, <2>4, <2>6, <2>7, <3>1, OneMoreRun
  <2> QED  BY <2>3, <2>8
<1>6. CASE RememberSerial
  <2>1. /\ pc = "serial" /\ pos <= Len(Hosts) /\ UNCHANGED <<pc, cmd, status, ran>> /\ pos' = pos + 1
        /\ cmd <= Len(commands) /\ Current \in Known /\ Len(Hosts) \in Nat
    BY <1>0, <1>6 DEF RememberSerial, PcPart, Hosts
  <2>2. Current' = Current /\ Hosts' = Hosts /\ RequiresParallel(Current)' = RequiresParallel(Current)
    BY <1>0, <2>1 DEF Current, Hosts, RequiresParallel
  <2>3. PcPart'
    BY <1>0, <2>1, <2>2 DEF PcPart
  <2>4. \A i \in DOMAIN ran : ran[i].cmd = cmd => ran[i].pos < pos + 1
    BY <1>0, <2>1 DEF RunPart
  <2>5. RunPart' /\ NoTwice'
    BY <1>0, <2>1, <2>4, SameRuns
  <2> QED  BY <2>3, <2>5
<1>7. CASE RememberLocal \/ FinishTask
  <2>1. /\ pc \in {"local", "serial", "report"} /\ pc' = "execute" /\ cmd' = cmd + 1 /\ UNCHANGED <<status, ran>>
    BY <1>7 DEF RememberLocal, FinishTask
  <2>2. PcPart'
    BY <1>0, <2>1 DEF PcPart
  <2>3. \A i \in DOMAIN ran : ran[i].cmd < cmd'
    BY <1>0, <2>1 DEF RunPart
  <2>4. RunPart' /\ NoTwice'
    BY <1>0, <2>1, <2>3, SameRuns
  <2> QED  BY <2>2, <2>4
<1>8. CASE RunJobs
  <2>0. /\ pc = "jobs" /\ pc' = "report" /\ pos' = 1 /\ UNCHANGED <<cmd, status>> /\ cmd <= Len(commands)
        /\ Current \in Known /\ Hosts # <<>> /\ RequiresParallel(Current)
    BY <1>8 DEF RunJobs, PcPart
  <2>1. PICK ends \in [DOMAIN Hosts -> Endings] :
          \E r \in Reports(DOMAIN Hosts, Hosts, [i \in DOMAIN Hosts |-> WorkerExit(ends[i])],
                           {i \in DOMAIN Hosts : Submits(ends[i].how)}, None) :
            /\ report' = [h \in Host |->
                 IF h \notin DOMAIN r THEN None
                 ELSE [exit_code |-> r[h].exit_code,
                       results |-> IF r[h].results = None THEN None ELSE ends[r[h].results].how]]
            /\ ran' \in Seq(Runs)
            /\ Len(ran) \in Nat /\ DOMAIN ran = 1..Len(ran) /\ Len(Hosts) \in Nat /\ DOMAIN Hosts = 1..Len(Hosts)
            /\ DOMAIN ran' = 1..(Len(ran) + Len(Hosts))
            /\ \A i \in DOMAIN ran : ran'[i] = ran[i]
            /\ \A p \in DOMAIN Hosts : ran'[Len(ran) + p] = Record(p, ends[p], TRUE)
    BY <1>8, JobSteps
  <2>2. Current' = Current /\ Hosts' = Hosts /\ RequiresParallel(Current)' = RequiresParallel(Current)
    BY <1>0, <2>0 DEF Current, Hosts, RequiresParallel
  <2>3. \A p \in DOMAIN Hosts : report'[Hosts[p]] \in [exit_code : Int, results : Values]
    <3>1. PICK r \in Reports(DOMAIN Hosts, Hosts, [i \in DOMAIN Hosts |-> WorkerExit(ends[i])],
                           {i \in DOMAIN Hosts : Submits(ends[i].how)}, None) :
            report' = [h \in Host |->
                 IF h \notin DOMAIN r THEN None
                 ELSE [exit_code |-> r[h].exit_code,
                       results |-> IF r[h].results = None THEN None ELSE ends[r[h].results].how]]
      BY <2>1
    <3>2. ASSUME NEW p \in DOMAIN Hosts PROVE report'[Hosts[p]] \in [exit_code : Int, results : Values]
      <4>0. Hosts[p] \in Host
        BY <2>0, ListSorts DEF Hosts, Types
      <4>1. /\ Hosts[p] \in DOMAIN r
            /\ r[Hosts[p]].exit_code \in {WorkerExit(ends[i]) : i \in DOMAIN Hosts}
            /\ r[Hosts[p]].results \in DOMAIN Hosts \cup {None}
        BY DEF Reports
      <4>2. r[Hosts[p]].exit_code \in Int /\ (r[Hosts[p]].results # None => ends[r[Hosts[p]].results].how \in Outcomes)
        BY <4>1, EndingSorts
      <4> QED  BY <3>1, <4>0, <4>1, <4>2 DEF Values
    <3> QED  BY <3>2
  <2>4. PcPart'
    <3>1. pos' <= Len(Hosts) + 1
      BY <2>0, <2>1
    <3> QED  BY <1>0, <2>0, <2>2, <2>3, <3>1 DEF PcPart
  <2>5. ASSUME NEW i \in DOMAIN ran'
        PROVE  \/ i \in DOMAIN ran /\ ran'[i] = ran[i]
               \/ \E p \in DOMAIN Hosts :
                    /\ i = Len(ran) + p
                    /\ ran'[i] = [cmd |-> cmd, task |-> Current, pos |-> p, how |-> ends[p].how,
                                  killed |-> ends[p].killed, parallel |-> TRUE]
    <3>1. i \in DOMAIN ran \/ (i - Len(ran) \in DOMAIN Hosts /\ i = Len(ran) + (i - Len(ran)))
      BY <2>1
    <3> QED  BY <2>1, <3>1 DEF Record
  <2>7. \A i \in DOMAIN ran : ran[i].cmd < cmd
    BY <2>0 DEF RunPart
  <2>8. RunPart'
    <3>1. \A i \in DOMAIN ran :
            /\ ran[i].cmd <= Len(commands) /\ ran[i].cmd <= cmd
            /\ ran[i].task = commands[ran[i].cmd] /\ ran[i].task \in Known
            /\ ran[i].parallel <=> ran[i].pos # 0 /\ RequiresParallel(ran[i].task)
            /\ ran[i].killed => ran[i].parallel
            /\ ran[i].pos \in IF hostList[ran[i].task] = <<>> THEN {0} ELSE DOMAIN hostList[ran[i].task]
      BY DEF RunPart
    <3>2. SUFFICES ASSUME NEW i \in DOMAIN ran'
                   PROVE  /\ ran'[i].cmd <= Len(commands) /\ ran'[i].cmd <= cmd
                          /\ ran'[i].task = commands[ran'[i].cmd] /\ ran'[i].task \in Known
                          /\ ran'[i].parallel <=> ran'[i].pos # 0 /\ RequiresParallel(ran'[i].task)
                          /\ ran'[i].killed => ran'[i].parallel
                          /\ ran'[i].pos \in IF hostList[ran'[i].task] = <<>> THEN {0} ELSE DOMAIN hostList[ran'[i].task]
      BY <1>0, <2>0 DEF RunPart, RequiresParallel
    <3>3. CASE i \in DOMAIN ran /\ ran'[i] = ran[i]
      BY <3>1, <3>3
    <3>4. CASE ~(i \in DOMAIN ran /\ ran'[i] = ran[i])
      <4>1. PICK p \in DOMAIN Hosts :
              ran'[i] = [cmd |-> cmd, task |-> Current, pos |-> p, how |-> ends[p].how,
                         killed |-> ends[p].killed, parallel |-> TRUE]
        BY <2>5, <3>4
      <4>2. p # 0
        BY <2>1
      <4> QED  BY <1>0, <2>0, <4>1, <4>2 DEF Current, Hosts
    <3> QED  BY <3>3, <3>4
  <2>9. NoTwice'
    <3>1. ASSUME NEW i \in DOMAIN ran', NEW k \in DOMAIN ran', ran'[i].cmd = ran'[k].cmd, ran'[i].pos = ran'[k].pos
          PROVE  i = k
      <4>1. \/ i \in DOMAIN ran /\ ran'[i] = ran[i] /\ ran'[i].cmd < cmd
            \/ ran'[i].cmd = cmd /\ \E p \in DOMAIN Hosts : i = Len(ran) + p /\ ran'[i].pos = p
        BY <2>5, <2>7
      <4>2. \/ k \in DOMAIN ran /\ ran'[k] = ran[k] /\ ran'[k].cmd < cmd
            \/ ran'[k].cmd = cmd /\ \E p \in DOMAIN Hosts : k = Len(ran) + p /\ ran'[k].pos = p
        BY <2>5, <2>7
      <4> QED  BY <1>0, <3>1, <4>1, <4>2 DEF NoTwice
    <3> QED  BY <3>1 DEF NoTwice
  <2> QED  BY <2>4, <2>8, <2>9
<1>9. CASE CollectReport
  <2>1. /\ pc = "report" /\ pos <= Len(Hosts) /\ UNCHANGED <<cmd, report, ran>>
        /\ \/ pc' = "disconnect" /\ status' = 1
           \/ pc' = "report" /\ status' = status /\ pos' = pos + 1
        /\ cmd <= Len(commands) /\ Current \in Known /\ Len(Hosts) \in Nat
    BY <1>0, <1>9 DEF CollectReport, Leave, PcPart, Hosts
  <2>2. Current' = Current /\ Hosts' = Hosts /\ RequiresParallel(Current)' = RequiresParallel(Current)
    BY <1>0, <2>1 DEF Current, Hosts, RequiresParallel
  <2>3. PcPart'
    BY <1>0, <2>1, <2>2 DEF PcPart
  <2>4. RunPart' /\ NoTwice'
    BY <1>0, <2>1, SameRuns
  <2> QED  BY <2>3, <2>4
<1>10. CASE BadPoolSize \/ SpinForever \/ Done \/ DisconnectAll
  <2>1. /\ UNCHANGED <<cmd, ran>>
        /\ \/ pc = "jobs" /\ pc' = "spinning" /\ status' = status
           \/ pc = "execute" /\ pc' = "disconnect" /\ status' \in {0, 1}
           \/ pc = "disconnect" /\ pc' = "exited" /\ status' = status
    BY <1>10 DEF BadPoolSize, SpinForever, Done, DisconnectAll, Leave
  <2>2. PcPart'
    BY <1>0, <2>1 DEF PcPart
  <2>3. RunPart' /\ NoTwice'
    BY <1>0, <2>1, SameRuns
  <2> QED  BY <2>2, <2>3
<1>11. CASE UNCHANGED vars
  BY <1>11 DEF vars, config, PcPart, RunPart, NoTwice, Current, Hosts, RequiresParallel
<1> QED
  BY <1>1, <1>2, <1>3, <1>4, <1>5, <1>6, <1>7, <1>8, <1>9, <1>10, <1>11 DEF Next, Step, Stopped

\* Every reachable state is well typed.
THEOREM TypeCorrect == Spec => []TypeOK
<1>1. Types /\ Walk /\ [Next]_vars => (Types /\ Walk)'
  BY NextTypes, NextWalk DEF Walk
<1>2. Types /\ Walk => TypeOK
  BY DEF Types
<1> QED  BY <1>1, <1>2, InitTypes, PTL DEF Spec

-----------------------------------------------------------------------------
(* What a step adds to the history.                                        *)

SerialRun(o, p) ==
  [cmd |-> cmd, task |-> Current, pos |-> p, how |-> o, killed |-> FALSE, parallel |-> FALSE]

JobRun(e, p) ==
  [cmd |-> cmd, task |-> Current, pos |-> p, how |-> e.how, killed |-> e.killed, parallel |-> TRUE]

\* A run in this process is the last of the history.
LEMMA AddsSerial ==
  ASSUME Types, Walk, NEW o \in Outcomes, RunSerial(o) \/ RunLocal(o)
  PROVE  /\ cmd \in 1..Len(commands) /\ Current \in Known
         /\ Len(ran) \in Nat /\ DOMAIN ran = 1..Len(ran) /\ DOMAIN ran' = DOMAIN ran \cup {Len(ran) + 1}
         /\ \A i \in DOMAIN ran : ran'[i] = ran[i]
         /\ ran'[Len(ran) + 1] = SerialRun(o, IF pc = "serial" THEN pos ELSE 0)
<1>1. cmd <= Len(commands) /\ Current \in Known /\ cmd \in Nat /\ cmd >= 1 /\ Len(commands) \in Nat /\ pos \in Nat
  BY ListSorts DEF RunSerial, RunLocal, Walk, PcPart, Types
<1>2. PICK p \in Nat : p = IF pc = "serial" THEN pos ELSE 0
  BY <1>1
<1>3. ran' = Append(ran, Record(p, InProcess(o), FALSE))
  BY <1>2 DEF RunSerial, RunLocal
<1>4. Record(p, InProcess(o), FALSE) \in Runs /\ Record(p, InProcess(o), FALSE) = SerialRun(o, p)
  BY <1>1, SerialRecord DEF SerialRun
<1>5. ran \in Seq(Runs)
  BY DEF Types
<1>6. PICK r \in Runs : ran' = Append(ran, r) /\ r = SerialRun(o, p)
  BY <1>3, <1>4
<1>7. /\ Len(ran) \in Nat /\ DOMAIN ran = 1..Len(ran) /\ DOMAIN ran' = DOMAIN ran \cup {Len(ran) + 1}
      /\ \A i \in DOMAIN ran : ran'[i] = ran[i]
      /\ ran'[Len(ran) + 1] = r
  BY <1>5, <1>6, AppendRun
<1> QED  BY <1>1, <1>2, <1>6, <1>7

\* RunJobs adds one run for each host; where no host is listed twice, the report
\* holds what became of it.
LEMMA AddsJobs ==
  ASSUME Types, Walk, RunJobs
  PROVE  /\ Len(Hosts) \in Nat /\ DOMAIN Hosts = 1..Len(Hosts)
         /\ Len(ran) \in Nat /\ DOMAIN ran = 1..Len(ran) /\ DOMAIN ran' = 1..(Len(ran) + Len(Hosts))
         /\ \A i \in DOMAIN ran : i \in DOMAIN ran' /\ ran'[i] = ran[i] /\ ran[i].cmd < cmd
         /\ \E ends \in [DOMAIN Hosts -> Endings] :
              /\ \A i \in DOMAIN ran' :
                   i \in DOMAIN ran \/ \E p \in DOMAIN Hosts : i = Len(ran) + p /\ ran'[i] = JobRun(ends[p], p)
              /\ \A p \in DOMAIN Hosts :
                   /\ Len(ran) + p \in DOMAIN ran'
                   /\ ran'[Len(ran) + p] = JobRun(ends[p], p)
                   /\ NoDuplicates => report'[Hosts[p]] = [exit_code |-> WorkerExit(ends[p]), results |-> What(ends[p])]
<1>1. PICK ends \in [DOMAIN Hosts -> Endings] :
        \E r \in Reports(DOMAIN Hosts, Hosts, [i \in DOMAIN Hosts |-> WorkerExit(ends[i])],
                         {i \in DOMAIN Hosts : Submits(ends[i].how)}, None) :
          /\ report' = [h \in Host |->
               IF h \notin DOMAIN r THEN None
               ELSE [exit_code |-> r[h].exit_code,
                     results |-> IF r[h].results = None THEN None ELSE ends[r[h].results].how]]
          /\ Len(ran) \in Nat /\ DOMAIN ran = 1..Len(ran) /\ Len(Hosts) \in Nat /\ DOMAIN Hosts = 1..Len(Hosts)
          /\ DOMAIN ran' = 1..(Len(ran) + Len(Hosts))
          /\ \A i \in DOMAIN ran : ran'[i] = ran[i]
          /\ \A p \in DOMAIN Hosts : ran'[Len(ran) + p] = Record(p, ends[p], TRUE)
  BY JobSteps DEF Walk
<1> DEFINE exit == [i \in DOMAIN Hosts |-> WorkerExit(ends[i])]
           sent == {i \in DOMAIN Hosts : Submits(ends[i].how)}
<1>2. PICK r \in Reports(DOMAIN Hosts, Hosts, exit, sent, None) :
        report' = [h \in Host |->
          IF h \notin DOMAIN r THEN None
          ELSE [exit_code |-> r[h].exit_code,
                results |-> IF r[h].results = None THEN None ELSE ends[r[h].results].how]]
  BY <1>1
<1>3. \A i \in DOMAIN ran : ran[i].cmd < cmd
  BY DEF Walk, RunPart, RunJobs
<1>4. ASSUME NEW i \in DOMAIN ran'
      PROVE  i \in DOMAIN ran \/ \E p \in DOMAIN Hosts : i = Len(ran) + p /\ ran'[i] = JobRun(ends[p], p)
  <2>1. i \in DOMAIN ran \/ (i - Len(ran) \in DOMAIN Hosts /\ i = Len(ran) + (i - Len(ran)))
    BY <1>1
  <2> QED  BY <1>1, <2>1 DEF Record, JobRun
<1>5. ASSUME NoDuplicates, NEW p \in DOMAIN Hosts
      PROVE  report'[Hosts[p]] = [exit_code |-> WorkerExit(ends[p]), results |-> What(ends[p])]
  <2>1. /\ Hosts[p] \in Host /\ Hosts \in HostLists /\ None \notin DOMAIN Hosts
    BY <1>1, ListSorts, NoneAssumption DEF Hosts, Types, Walk, PcPart, RunJobs
  <2>2. {j \in DOMAIN Hosts : Hosts[j] = Hosts[p]} = {p}
    BY <1>5, <2>1 DEF NoDuplicates
  <2>3. /\ Hosts[p] \in DOMAIN r
        /\ \E j \in {p} : r[Hosts[p]].exit_code = exit[j]
        /\ IF {p} \cap sent = {} THEN r[Hosts[p]].results = None ELSE r[Hosts[p]].results \in {p} \cap sent
    <3>1. DOMAIN r = {Hosts[j] : j \in DOMAIN Hosts}
      BY DEF Reports
    <3>2. LET mine == {j \in DOMAIN Hosts : Hosts[j] = Hosts[p]} IN
            /\ \E j \in mine : r[Hosts[p]].exit_code = exit[j]
            /\ IF mine \cap sent = {} THEN r[Hosts[p]].results = None ELSE r[Hosts[p]].results \in mine \cap sent
      <4> HIDE DEF sent, exit
      <4> QED  BY <3>1 DEF Reports
    <3> QED  BY <2>2, <3>1, <3>2
  <2>4. r[Hosts[p]].exit_code = WorkerExit(ends[p])
    BY <2>3
  <2>5. (IF r[Hosts[p]].results = None THEN None ELSE ends[r[Hosts[p]].results].how) = What(ends[p])
    BY <2>1, <2>3 DEF What
  <2>6. report'[Hosts[p]] = [exit_code |-> r[Hosts[p]].exit_code,
                             results |-> IF r[Hosts[p]].results = None THEN None ELSE ends[r[Hosts[p]].results].how]
    BY <1>2, <2>1, <2>3
  <2> QED  BY <2>4, <2>5, <2>6
<1>6. \A p \in DOMAIN Hosts : Len(ran) + p \in DOMAIN ran' /\ ran'[Len(ran) + p] = JobRun(ends[p], p)
  BY <1>1 DEF Record, JobRun
<1>7. \A i \in DOMAIN ran : i \in DOMAIN ran'
  BY <1>1
<1> QED  BY <1>1, <1>3, <1>4, <1>5, <1>6, <1>7

\* The other steps add nothing.
LEMMA AddsNothing ==
  ASSUME [Next]_vars, ~RunJobs, \A o \in Outcomes : ~RunSerial(o) /\ ~RunLocal(o)
  PROVE  UNCHANGED <<ran, returnValue>>
BY DEF Next, Step, Stopped, vars, CheckCommands, SkipUnknown, StartTask, RememberSerial, RememberLocal,
       BadPoolSize, SpinForever, CollectReport, FinishTask, Done, DisconnectAll

\* The steps that run something, and the others.
LEMMA StepKinds ==
  ASSUME [Next]_vars
  PROVE  \/ \E o \in Outcomes : RunSerial(o)
         \/ \E o \in Outcomes : RunLocal(o)
         \/ RunJobs
         \/ /\ ~RunJobs /\ \A o \in Outcomes : ~RunSerial(o) /\ ~RunLocal(o)
            /\ UNCHANGED <<ran, returnValue>>
BY AddsNothing

-----------------------------------------------------------------------------
(* A runs_once task that has returned is not run again.                    *)

LEMMA NextOnce ==
  ASSUME Types, Walk, OncePart, OnlyOnce, [Next]_vars
  PROVE  OncePart' /\ OnlyOnce'
<1>1. ASSUME NEW o \in Outcomes, RunSerial(o) \/ RunLocal(o) PROVE OncePart' /\ OnlyOnce'
  <2> DEFINE n == Len(ran) + 1
  <2>1. /\ Len(ran) \in Nat /\ DOMAIN ran = 1..Len(ran) /\ DOMAIN ran' = DOMAIN ran \cup {n}
        /\ \A i \in DOMAIN ran : ran'[i] = ran[i]
        /\ ran'[n].task = Current /\ ran'[n].how = o
    <3>1. /\ Len(ran) \in Nat /\ DOMAIN ran = 1..Len(ran) /\ DOMAIN ran' = DOMAIN ran \cup {n}
          /\ \A i \in DOMAIN ran : ran'[i] = ran[i]
          /\ ran'[n] = SerialRun(o, IF pc = "serial" THEN pos ELSE 0)
      BY <1>1, AddsSerial
    <3> QED  BY <3>1 DEF SerialRun
  <2>2. /\ returnValue' = IF o = "return" THEN returnValue \cup ({Current} \cap RunsOnce) ELSE returnValue
        /\ ~Remembered
    BY <1>1 DEF RunSerial, RunLocal
  <2>3. OncePart'
    BY <2>1, <2>2 DEF OncePart
  <2>4. ASSUME NEW i \in DOMAIN ran', NEW k \in DOMAIN ran',
               i < k, ran'[i].task = ran'[k].task, ran'[i].task \in RunsOnce
        PROVE  ran'[i].how # "return"
    <3>1. i \in DOMAIN ran
      BY <2>1, <2>4
    <3>2. CASE k \in DOMAIN ran
      BY <2>1, <2>4, <3>1, <3>2 DEF OnlyOnce
    <3>3. CASE k = n
      BY <2>1, <2>2, <2>4, <3>1, <3>3 DEF OncePart, Remembered
    <3> QED  BY <2>1, <3>2, <3>3
  <2> QED  BY <2>3, <2>4 DEF OnlyOnce
<1>2. CASE RunJobs
  <2>1. PICK ends \in [DOMAIN Hosts -> Endings] :
          \A i \in DOMAIN ran' : i \in DOMAIN ran \/ \E p \in DOMAIN Hosts : i = Len(ran) + p /\ ran'[i] = JobRun(ends[p], p)
    BY <1>2, AddsJobs
  <2>2. Current \notin RunsOnce /\ UNCHANGED returnValue
    BY <1>2, MarkAssumption, OnceAssumption DEF RunJobs, Walk, PcPart, RequiresParallel
  <2>3. \A i \in DOMAIN ran' : ran'[i].task \in RunsOnce => i \in DOMAIN ran
    BY <2>1, <2>2 DEF JobRun
  <2>4. \A i \in DOMAIN ran : ran'[i] = ran[i]
    BY <1>2, AddsJobs
  <2> QED  BY <2>2, <2>3, <2>4 DEF OncePart, OnlyOnce
<1>3. CASE UNCHANGED <<ran, returnValue>>
  BY <1>3 DEF OncePart, OnlyOnce
<1> QED  BY <1>1, <1>2, <1>3, StepKinds

\* Once its body has returned, a runs_once task is not run again, whatever the
\* hosts and however often it is named.
THEOREM RunsOnceIsOnce == Spec => []OnlyOnce
<1>1. Init => OncePart /\ OnlyOnce
  BY EmptySeq DEF Init, OncePart, OnlyOnce
<1>2. Types /\ Walk /\ OncePart /\ OnlyOnce /\ [Next]_vars => (Types /\ Walk /\ OncePart /\ OnlyOnce)'
  BY NextTypes, NextWalk, NextOnce DEF Walk
<1> QED  BY <1>1, <1>2, InitTypes, PTL DEF Spec

-----------------------------------------------------------------------------
(* Fail-fast.                                                              *)

LEMMA NextReport ==
  ASSUME NoDuplicates, Types, Walk, ReportPart, [Next]_vars
  PROVE  ReportPart'
<1>0. UNCHANGED <<env, ownSize, commands, hostList>>
  BY ConfigStays
<1> SUFFICES ASSUME pc' = "report" PROVE ReportPart'
  BY DEF ReportPart
<1>1. CASE RunJobs
  <2>1. PICK ends \in [DOMAIN Hosts -> Endings] :
          /\ \A i \in DOMAIN ran' :
               i \in DOMAIN ran \/ \E p \in DOMAIN Hosts : i = Len(ran) + p /\ ran'[i] = JobRun(ends[p], p)
          /\ \A p \in DOMAIN Hosts :
               /\ Len(ran) + p \in DOMAIN ran'
               /\ ran'[Len(ran) + p] = JobRun(ends[p], p)
               /\ report'[Hosts[p]] = [exit_code |-> WorkerExit(ends[p]), results |-> What(ends[p])]
    BY <1>1, AddsJobs
  <2>2. \A i \in DOMAIN ran : ran'[i] = ran[i] /\ ran[i].cmd < cmd
    BY <1>1, AddsJobs
  <2>3. UNCHANGED cmd /\ Hosts' = Hosts /\ cmd \in Nat
    BY <1>0, <1>1, ListSorts DEF RunJobs, Hosts, Current, Types
  <2>4. \A p \in DOMAIN Hosts : ran'[Len(ran) + p].cmd = cmd /\ ran'[Len(ran) + p].pos = p
    <3>1. ASSUME NEW p \in DOMAIN Hosts PROVE ran'[Len(ran) + p].cmd = cmd /\ ran'[Len(ran) + p].pos = p
      <4>1. PICK r : r = JobRun(ends[p], p)
        OBVIOUS
      <4>2. r.cmd = cmd /\ r.pos = p
        BY <4>1 DEF JobRun
      <4>3. ran'[Len(ran) + p] = r
        BY <2>1, <4>1
      <4> QED  BY <4>2, <4>3
    <3> QED  BY <3>1
  <2>5. ASSUME NEW i \in DOMAIN ran', ran'[i].cmd = cmd
        PROVE  report'[Hosts[ran'[i].pos]] = [exit_code |-> WorkerExit(ran'[i]), results |-> What(ran'[i])]
    <3>1. i \notin DOMAIN ran
      BY <2>2, <2>3, <2>5
    <3>2. PICK p \in DOMAIN Hosts : ran'[i] = JobRun(ends[p], p)
      BY <2>1, <3>1
    <3>3. ran'[i].pos = p /\ ran'[i].how = ends[p].how /\ ran'[i].killed = ends[p].killed
      BY <3>2 DEF JobRun
    <3>4. WorkerExit(ran'[i]) = WorkerExit(ends[p]) /\ What(ran'[i]) = What(ends[p])
      BY <3>3 DEF WorkerExit, What
    <3> QED  BY <2>1, <3>3, <3>4
  <2>6. \A r : (WorkerExit(r))' = WorkerExit(r) /\ (What(r))' = What(r)
    BY <1>0 DEF WorkerExit, What, NetworkErrorIgnored
  <2> QED  BY <1>0, <2>1, <2>3, <2>4, <2>5 DEF ReportPart, WorkerExit, NetworkErrorIgnored, What
<1>2. CASE ~RunJobs
  <2>1. pc = "report" /\ UNCHANGED <<ran, report, cmd>>
    BY <1>2 DEF Next, Step, Stopped, vars, CheckCommands, SkipUnknown, StartTask, RunSerial, RunLocal,
                RememberSerial, RememberLocal, BadPoolSize, SpinForever, CollectReport, FinishTask, Done, DisconnectAll, Leave
  <2> QED  BY <1>0, <2>1 DEF ReportPart, Hosts, Current, WorkerExit, NetworkErrorIgnored, What
<1> QED  BY <1>1, <1>2

\* What the report shows of a worker whose failure is not tolerated.
LEMMA FailureShows ==
  ASSUME Types, Walk, ReportPart, pc = "report", NEW i \in DOMAIN ran, ran[i].cmd = cmd
  PROVE  /\ ran[i].pos \in DOMAIN Hosts /\ ran[i].parallel
         /\ ~Tolerated(ran[i]) <=>
              LET d == report[Hosts[ran[i].pos]]
              IN  Failed(d) /\ ~(d.results = "networkError" /\ NetworkErrorIgnored) /\ ~env.warn_only
<1>1. /\ ran[i].task = Current /\ Current \in Known /\ Hosts # <<>> /\ RequiresParallel(Current)
      /\ Hosts \in Seq(Host) /\ DOMAIN Hosts = 1..Len(Hosts)
  BY ListSorts DEF Walk, PcPart, RunPart, Current, Hosts, Types
<1>2. ran[i].pos \in DOMAIN Hosts /\ ran[i].parallel
  BY <1>1 DEF Walk, RunPart, Hosts
<1>3. ran[i].how \in Outcomes /\ ran[i].killed \in BOOLEAN /\ ran[i].pos # 0
  <2>1. ran[i] \in Runs
    BY RunsOf DEF Types
  <2> QED  BY <1>1, <1>2, <2>1 DEF Runs
<1> DEFINE d == report[Hosts[ran[i].pos]]
<1>4. d.exit_code = WorkerExit(ran[i]) /\ d.results = What(ran[i])
  <2>1. d = [exit_code |-> WorkerExit(ran[i]), results |-> What(ran[i])]
    BY DEF ReportPart
  <2> QED  BY <2>1
<1>5. Failed(d) <=> ran[i].killed \/ ~(ran[i].how \in {"return", "quiet"} \/ (ran[i].how = "networkError" /\ NetworkErrorIgnored))
  BY <1>3, <1>4 DEF Failed, WorkerExit, KilledCode, ExitCode
<1>6. d.results = "networkError" <=> ran[i].how = "networkError"
  BY <1>3, <1>4, NoneAssumption DEF What, Submits, Outcomes
<1> HIDE DEF d
<1>7. ~Tolerated(ran[i]) <=> Failed(d) /\ ~(d.results = "networkError" /\ NetworkErrorIgnored) /\ ~env.warn_only
  BY <1>2, <1>3, <1>5, <1>6 DEF Tolerated, Outcomes
<1> QED  BY <1>2, <1>7 DEF d

LEMMA NextFail ==
  ASSUME Types, Walk, ReportPart, FailPart, [Next]_vars
  PROVE  FailPart'
<1>0. UNCHANGED <<env, ownSize, commands, hostList>>
  BY ConfigStays
<1>1. SUFFICES ASSUME pc' \notin {"disconnect", "exited"},
                      NEW i \in DOMAIN ran', ~Tolerated(ran'[i])
               PROVE  pc' = "report" /\ ran'[i].cmd = cmd' /\ ran'[i].parallel /\ ran'[i].pos >= pos'
  BY <1>0 DEF FailPart, Tolerated, NetworkErrorIgnored
<1>2. ASSUME NEW o \in Outcomes, RunSerial(o) \/ RunLocal(o) PROVE FALSE
  <2>1. /\ DOMAIN ran' = DOMAIN ran \cup {Len(ran) + 1}
        /\ \A k \in DOMAIN ran : ran'[k] = ran[k]
        /\ ran'[Len(ran) + 1] = SerialRun(o, IF pc = "serial" THEN pos ELSE 0)
    BY <1>2, AddsSerial
  <2>2. pc \in {"serial", "local"}
    BY <1>2 DEF RunSerial, RunLocal
  <2>3. i \notin DOMAIN ran
    BY <1>1, <2>1, <2>2 DEF FailPart
  <2>4. ran'[i] = SerialRun(o, IF pc = "serial" THEN pos ELSE 0)
    BY <2>1, <2>3
  <2>5. IF pc = "serial" THEN Continues(o) ELSE o = "return"
    BY <1>1, <1>2, <2>2 DEF RunSerial, RunLocal, Leave
  <2>6. pos # 0
    BY ListSorts DEF Types
  <2> QED  BY <1>1, <2>2, <2>4, <2>5, <2>6 DEF SerialRun, Tolerated, Continues
<1>3. CASE RunJobs
  <2>1. /\ \A k \in DOMAIN ran : ran'[k] = ran[k]
        /\ \E ends \in [DOMAIN Hosts -> Endings] :
             \A k \in DOMAIN ran' :
               k \in DOMAIN ran \/ \E p \in DOMAIN Hosts : k = Len(ran) + p /\ ran'[k] = JobRun(ends[p], p)
        /\ DOMAIN Hosts = 1..Len(Hosts)
    BY <1>3, AddsJobs
  <2>2. pc = "jobs" /\ pc' = "report" /\ pos' = 1 /\ UNCHANGED cmd
    BY <1>3 DEF RunJobs
  <2>3. i \notin DOMAIN ran
    BY <1>1, <2>1, <2>2 DEF FailPart
  <2>4. PICK ends \in [DOMAIN Hosts -> Endings], p \in DOMAIN Hosts : ran'[i] = JobRun(ends[p], p)
    BY <2>1, <2>3
  <2> QED  BY <2>1, <2>2, <2>4 DEF JobRun
<1>4. CASE ran' = ran /\ ~RunJobs
  <2>1. (pc = "report" /\ ran[i].cmd = cmd /\ ran[i].parallel /\ ran[i].pos >= pos) \/ pc \in {"disconnect", "exited"}
    BY <1>1, <1>4 DEF FailPart
  <2>2. CASE pc = "report" /\ ran[i].cmd = cmd /\ ran[i].parallel /\ ran[i].pos >= pos
    <3>1. ran[i].pos \in DOMAIN Hosts /\ DOMAIN Hosts = 1..Len(Hosts) /\ Len(Hosts) \in Nat /\ pos \in Nat
      BY <1>4, <2>2, FailureShows, ListSorts DEF Walk, PcPart, Hosts, Types
    <3>2. CASE UNCHANGED vars
      BY <1>4, <2>2, <3>2 DEF vars
    <3>3. CASE FinishTask
      BY <2>2, <3>1, <3>3 DEF FinishTask
    <3>4. CASE CollectReport
      <4>1. /\ pc' = "report" /\ pos' = pos + 1 /\ UNCHANGED cmd
            /\ LET d == report[Here]
               IN  ~(Failed(d) /\ ~(d.results = "networkError" /\ NetworkErrorIgnored) /\ ~env.warn_only)
        BY <1>1, <2>2, <3>4 DEF CollectReport, Leave
      <4>2. ran[i].pos # pos
        BY <1>1, <1>4, <2>2, <4>1, FailureShows DEF Here
      <4> QED  BY <1>4, <2>2, <3>1, <4>1, <4>2
    <3> QED  BY <1>4, <2>2, <3>2, <3>3, <3>4 DEF Next, Step, Stopped, CheckCommands, SkipUnknown, StartTask,
               RunSerial, RunLocal, RememberSerial, RememberLocal, BadPoolSize, SpinForever, Done, DisconnectAll
  <2>3. CASE pc \in {"disconnect", "exited"}
    <3>1. pc' \in {"disconnect", "exited"}
      BY <1>4, <2>3 DEF Next, Step, Stopped, vars, CheckCommands, SkipUnknown, StartTask, RunSerial, RunLocal,
           RememberSerial, RememberLocal, BadPoolSize, SpinForever, CollectReport, FinishTask, Done, DisconnectAll, Leave
    <3> QED  BY <1>1, <3>1
  <2> QED  BY <2>1, <2>2, <2>3
<1> QED  BY <1>2, <1>3, <1>4, StepKinds

LEMMA NextFailFast ==
  ASSUME Types, Walk, FailPart, FailFast, [Next]_vars
  PROVE  FailFast'
<1>0. UNCHANGED <<env, ownSize, commands, hostList>>
  BY ConfigStays
<1>1. SUFFICES ASSUME NEW i \in DOMAIN ran', NEW k \in DOMAIN ran', i < k, ~Tolerated(ran'[i])
               PROVE  ran'[k].cmd = ran'[i].cmd /\ ran'[k].parallel
  BY <1>0 DEF FailFast, Tolerated, NetworkErrorIgnored
<1>2. ASSUME NEW o \in Outcomes, RunSerial(o) \/ RunLocal(o) PROVE FALSE
  <2>1. /\ Len(ran) \in Nat /\ DOMAIN ran = 1..Len(ran) /\ DOMAIN ran' = DOMAIN ran \cup {Len(ran) + 1}
        /\ \A j \in DOMAIN ran : ran'[j] = ran[j]
    BY <1>2, AddsSerial
  <2>2. pc \in {"serial", "local"}
    BY <1>2 DEF RunSerial, RunLocal
  <2>3. i \in DOMAIN ran
    BY <1>1, <2>1
  <2> QED  BY <1>1, <2>1, <2>2, <2>3 DEF FailPart
<1>3. CASE RunJobs
  <2>1. /\ Len(ran) \in Nat /\ DOMAIN ran = 1..Len(ran)
        /\ \A j \in DOMAIN ran : ran'[j] = ran[j]
        /\ \E ends \in [DOMAIN Hosts -> Endings] :
             \A j \in DOMAIN ran' :
               j \in DOMAIN ran \/ \E p \in DOMAIN Hosts : j = Len(ran) + p /\ ran'[j] = JobRun(ends[p], p)
        /\ DOMAIN ran' = 1..(Len(ran) + Len(Hosts)) /\ Len(Hosts) \in Nat
    BY <1>3, AddsJobs
  <2>2. i \notin DOMAIN ran
    BY <1>1, <1>3, <2>1 DEF FailPart, RunJobs
  <2>3. k \notin DOMAIN ran
    BY <1>1, <2>1, <2>2
  <2>4. \A j \in DOMAIN ran' : j \notin DOMAIN ran => ran'[j].cmd = cmd /\ ran'[j].parallel
    BY <2>1 DEF JobRun
  <2> QED  BY <2>2, <2>3, <2>4
<1>4. CASE ran' = ran
  BY <1>1, <1>4 DEF FailFast
<1> QED  BY <1>2, <1>3, <1>4, StepKinds

\* Where no host is listed twice: once a run has failed, no task body is run
\* after it but for the workers that run side by side with it.
THEOREM FailuresStopFab ==
  ASSUME NoDuplicates
  PROVE  Spec => []FailFast
<1> DEFINE I == Types /\ Walk /\ ReportPart /\ FailPart /\ FailFast
<1>1. Init => I
  BY InitTypes, EmptySeq DEF Init, ReportPart, FailPart, FailFast
<1>2. I /\ [Next]_vars => I'
  BY NextTypes, NextWalk, NextReport, NextFail, NextFailFast DEF Walk
<1>3. I => FailFast
  OBVIOUS
<1> HIDE DEF I
<1> QED  BY <1>1, <1>2, <1>3, PTL DEF Spec

-----------------------------------------------------------------------------
(* The exit status.                                                        *)

\* Nothing is ever taken out of the history.
LEMMA HistoryStays ==
  ASSUME Types, Walk, [Next]_vars
  PROVE  \A i \in DOMAIN ran : i \in DOMAIN ran' /\ ran'[i] = ran[i]
<1>1. ASSUME NEW o \in Outcomes, RunSerial(o) \/ RunLocal(o)
      PROVE  \A i \in DOMAIN ran : i \in DOMAIN ran' /\ ran'[i] = ran[i]
  BY <1>1, AddsSerial
<1>2. CASE RunJobs
  BY <1>2, AddsJobs
<1>3. CASE ran' = ran
  BY <1>3
<1> QED  BY <1>1, <1>2, <1>3, StepKinds

LEMMA NextStatus ==
  ASSUME Types, Walk, ReportPart, FailPart, StatusPart, [Next]_vars
  PROVE  StatusPart'
<1>0. /\ UNCHANGED <<env, ownSize, commands, hostList>> /\ None \notin {0, 1}
      /\ \A r : Tolerated(r) <=> \/ r.how = "return" /\ ~r.killed
                                 \/ r.how = "networkError" /\ NetworkErrorIgnored /\ r.pos # 0
                                 \/ r.parallel /\ (env.warn_only \/ (r.how = "quiet" /\ ~r.killed))
  BY ConfigStays, NoneAssumption DEF Tolerated
<1>1. CASE CheckCommands
  <2>1. DOMAIN ran = {} /\ ran' = ran /\ status = None /\ ran \in Seq(Runs)
    BY <1>1 DEF CheckCommands, Walk, PcPart, RunPart, Types
  <2>2. ran' = <<>>
    BY <2>1, EmptyList
  <2>3. \/ status' = status
        \/ status' = 1 /\ \E c \in DOMAIN commands : commands[c] \notin Known
    BY <1>1 DEF CheckCommands, Leave
  <2> QED  BY <1>0, <2>1, <2>2, <2>3 DEF StatusPart
<1>2. ASSUME NEW o \in Outcomes, RunSerial(o) \/ RunLocal(o) PROVE StatusPart'
  <2>1. /\ DOMAIN ran' = DOMAIN ran \cup {Len(ran) + 1}
        /\ \A i \in DOMAIN ran : ran'[i] = ran[i]
        /\ ran'[Len(ran) + 1] = SerialRun(o, IF pc = "serial" THEN pos ELSE 0)
    BY <1>2, AddsSerial
  <2>2. pc \in {"serial", "local"} /\ status = None
    BY <1>2 DEF RunSerial, RunLocal, Walk, PcPart
  <2>3. \A i \in DOMAIN ran : Tolerated(ran[i])
    BY <2>2 DEF FailPart
  <2>4. PICK r : r = ran'[Len(ran) + 1] /\ r.how = o /\ ~r.parallel /\ ~r.killed
                 /\ (pc = "local" => r.pos = 0)
    BY <2>1, <2>2 DEF SerialRun
  <2>5. \/ status' = status
        \/ status' = 0 /\ o = "quiet"
        \/ status' = 1 /\ o # "quiet" /\ IF pc = "serial" THEN ~Continues(o) ELSE o # "return"
    BY <1>2, <2>2 DEF RunSerial, RunLocal, Leave
  <2>6. status' = 1 => ~Tolerated(r)
    BY <1>0, <2>2, <2>4, <2>5 DEF Continues
  <2>7. status' = 0 => r.how = "quiet" /\ ~r.parallel
    BY <1>0, <2>2, <2>4, <2>5
  <2>8. SUFFICES /\ status' = 0 =>
                      /\ \A i \in DOMAIN ran' : Tolerated(ran'[i]) \/ ran'[i].how = "quiet"
                      /\ \E i \in DOMAIN ran' : ran'[i].how = "quiet" /\ ~ran'[i].parallel
                 /\ status' = 1 => \E i \in DOMAIN ran' : ~Tolerated(ran'[i])
    BY <1>0 DEF StatusPart, Tolerated, NetworkErrorIgnored
  <2> QED  BY <2>1, <2>3, <2>4, <2>6, <2>7
<1>3. CASE CollectReport
  <2>1. (status' = status /\ status = None) \/ (pc' = "disconnect" /\ status' = 1)
    BY <1>3 DEF CollectReport, Leave, Walk, PcPart
  <2>2. CASE status' = status /\ status = None
    BY <1>0, <2>2 DEF StatusPart
  <2>3. CASE pc' = "disconnect" /\ status' = 1
    <3>1. LET d == report[Here]
          IN  Failed(d) /\ ~(d.results = "networkError" /\ NetworkErrorIgnored) /\ ~env.warn_only
      BY <1>3, <2>3 DEF CollectReport
    <3>2. pos \in DOMAIN Hosts /\ pc = "report"
      BY <1>3, ListSorts DEF CollectReport, Walk, PcPart, Hosts, Types
    <3>3. PICK i \in DOMAIN ran : ran[i].cmd = cmd /\ ran[i].pos = pos
      BY <3>2 DEF ReportPart
    <3>4. ~Tolerated(ran[i])
      BY <3>1, <3>2, <3>3, FailureShows DEF Here
    <3>5. ran' = ran
      BY <1>3 DEF CollectReport
    <3> QED  BY <1>0, <2>3, <3>4, <3>5 DEF StatusPart, Tolerated, NetworkErrorIgnored
  <2> QED  BY <2>1, <2>2, <2>3
<1>4. CASE Done
  <2>1. pc = "execute" /\ cmd > Len(commands) /\ status' = 0 /\ UNCHANGED <<cmd, ran>>
    BY <1>4 DEF Done, Leave
  <2>2. \A i \in DOMAIN ran : Tolerated(ran[i])
    BY <2>1 DEF FailPart
  <2> QED  BY <1>0, <2>1, <2>2 DEF StatusPart, Tolerated, NetworkErrorIgnored
<1>5. CASE UNCHANGED <<cmd, ran, status>>
  <2>1. Current' = Current /\ Asked' = Asked
    BY <1>0, <1>5 DEF Asked, Current, Hosts
  <2> QED  BY <1>0, <1>5, <2>1 DEF StatusPart, Tolerated, NetworkErrorIgnored
<1>6. CASE status' = status /\ status = None
  BY <1>0, <1>6 DEF StatusPart
<1>7. SkipUnknown \/ StartTask \/ RememberSerial \/ RememberLocal \/ RunJobs \/ SpinForever \/ FinishTask
        => status' = status /\ status = None
  BY DEF SkipUnknown, StartTask, RememberSerial, RememberLocal, RunJobs, SpinForever, FinishTask, Walk, PcPart
<1>8. DisconnectAll \/ Stopped \/ UNCHANGED vars => UNCHANGED <<cmd, ran, status>>
  BY DEF DisconnectAll, Stopped, vars
<1>9. CASE BadPoolSize
  <2>1. UNCHANGED <<cmd, ran>> /\ cmd <= Len(commands) /\ Current \in Known /\ Asked = None /\ status' = 1
    BY <1>9 DEF BadPoolSize, Leave
  <2>2. Current' = Current /\ Asked' = Asked
    BY <1>0, <2>1 DEF Asked, Current, Hosts
  <2> QED  BY <1>0, <2>1, <2>2 DEF StatusPart
<1> QED  BY <1>1, <1>2, <1>3, <1>4, <1>5, <1>6, <1>7, <1>8, <1>9 DEF Next, Step

LEMMA NextCount ==
  ASSUME Types, Walk, CountPart, [Next]_vars
  PROVE  CountPart'
<1>0. /\ UNCHANGED <<env, ownSize, commands, hostList>> /\ cmd \in Nat /\ pos \in Nat
      /\ Len(commands) \in Nat /\ DOMAIN commands = 1..Len(commands)
      /\ \A t \in Known : Len(hostList[t]) \in Nat /\ DOMAIN hostList[t] = 1..Len(hostList[t])
  BY ConfigStays, ListSorts DEF Types
<1>1. SUFFICES ASSUME NEW c \in DOMAIN commands, commands[c] \in Known \ RunsOnce,
                      NEW p \in DOMAIN hostList[commands[c]],
                      \/ c < cmd'
                      \/ c = cmd' /\ (pc' = "report" \/ (pc' = "serial" /\ p < pos'))
               PROVE  \E i \in DOMAIN ran' : ran'[i].cmd = c /\ ran'[i].pos = p
  BY <1>0 DEF CountPart
<1>2. CASE \/ c < cmd
           \/ c = cmd /\ (pc = "report" \/ (pc = "serial" /\ p < pos))
  <2>1. PICK i \in DOMAIN ran : ran[i].cmd = c /\ ran[i].pos = p
    BY <1>1, <1>2 DEF CountPart
  <2> QED  BY <2>1, HistoryStays
<1>3. CASE ~(\/ c < cmd
             \/ c = cmd /\ (pc = "report" \/ (pc = "serial" /\ p < pos)))
  <2>0. c \in Nat /\ p \in Nat /\ p >= 1 /\ c >= cmd /\ (c = cmd => Current = commands[c] /\ p \in DOMAIN Hosts)
    BY <1>0, <1>1, <1>3 DEF Current, Hosts
  <2>1. ASSUME NEW o \in Outcomes, RunSerial(o) PROVE \E i \in DOMAIN ran' : ran'[i].cmd = c /\ ran'[i].pos = p
    <3>1. pc = "serial" /\ UNCHANGED cmd /\ (pc' = "disconnect" \/ (pc' = "serial" /\ pos' = pos + 1))
      BY <2>1 DEF RunSerial, Leave
    <3>2. c = cmd /\ p = pos
      BY <1>0, <1>1, <1>3, <2>0, <3>1
    <3>3. PICK r : r = SerialRun(o, pos)
      OBVIOUS
    <3>4. r.cmd = cmd /\ r.pos = pos
      BY <3>3 DEF SerialRun
    <3>5. Len(ran) + 1 \in DOMAIN ran' /\ ran'[Len(ran) + 1] = r
      BY <2>1, <3>1, <3>3, AddsSerial
    <3> QED  BY <3>2, <3>4, <3>5
  <2>2. CASE RunJobs
    <3>1. UNCHANGED cmd
      BY <2>2 DEF RunJobs
    <3>2. c = cmd
      BY <1>0, <1>1, <2>0, <3>1
    <3>3. PICK ends \in [DOMAIN Hosts -> Endings] :
            Len(ran) + p \in DOMAIN ran' /\ ran'[Len(ran) + p] = JobRun(ends[p], p)
      BY <2>0, <2>2, <3>2, AddsJobs
    <3>4. PICK r : r = JobRun(ends[p], p)
      OBVIOUS
    <3>5. r.cmd = cmd /\ r.pos = p
      BY <3>4 DEF JobRun
    <3> QED  BY <3>2, <3>3, <3>4, <3>5
  <2>3. CASE RememberSerial \/ RememberLocal
    BY <1>0, <1>1, <1>3, <2>0, <2>3 DEF RememberSerial, RememberLocal, Remembered
  <2>4. ASSUME NEW o \in Outcomes, RunLocal(o) PROVE FALSE
    <3>1. Hosts = <<>> /\ (pc' \in {"execute", "disconnect"}) /\ cmd' \in {cmd, cmd + 1} /\ (c = cmd => FALSE)
      BY <2>0, <2>4, EmptySeq DEF RunLocal, Leave, Walk, PcPart
    <3> QED  BY <1>0, <1>1, <1>3, <2>0, <3>1
  <2>5. CASE FinishTask
    <3>1. pc \in {"serial", "report"} /\ pos > Len(Hosts) /\ cmd' = cmd + 1 /\ pc' = "execute"
      BY <2>5 DEF FinishTask
    <3>2. c = cmd
      BY <1>0, <1>1, <2>0, <3>1
    <3>3. p < pos
      BY <1>0, <1>1, <2>0, <3>1, <3>2 DEF Hosts
    <3> QED  BY <1>3, <3>1, <3>2, <3>3
  <2>6. CASE SkipUnknown
    BY <1>0, <1>1, <2>0, <2>6 DEF SkipUnknown
  <2>7. CASE StartTask
    BY <1>0, <1>1, <1>3, <2>0, <2>7 DEF StartTask
  <2>8. CASE CheckCommands \/ BadPoolSize \/ SpinForever \/ CollectReport \/ Done \/ DisconnectAll \/ UNCHANGED vars
    BY <1>0, <1>1, <1>3, <2>0, <2>8 DEF CheckCommands, BadPoolSize, SpinForever, CollectReport, Done, DisconnectAll, vars, Leave
  <2> QED  BY <2>1, <2>2, <2>3, <2>4, <2>5, <2>6, <2>7, <2>8 DEF Next, Step, Stopped
<1> QED  BY <1>2, <1>3

\* Where no host is listed twice: an exit status of 0 means that nothing failed
\* and that each task named ran once on each of its hosts; 1 has a cause.
THEOREM StatusTells ==
  ASSUME NoDuplicates
  PROVE  Spec => []StatusIsTrue
<1> DEFINE I == Types /\ Walk /\ ReportPart /\ FailPart /\ StatusPart /\ CountPart
<1>1. Init => I
  <2> SUFFICES ASSUME Init PROVE I
    OBVIOUS
  <2>1. ReportPart /\ FailPart
    BY EmptySeq DEF Init, ReportPart, FailPart
  <2>2. StatusPart
    BY NoneAssumption DEF Init, StatusPart
  <2>3. CountPart
    BY InitTypes, ListSorts DEF Init, CountPart, Types
  <2> QED  BY <2>1, <2>2, <2>3, InitTypes
<1>2. I /\ [Next]_vars => I'
  BY NextTypes, NextWalk, NextReport, NextFail, NextStatus, NextCount DEF Walk
<1>3. I => StatusIsTrue
  <2> SUFFICES ASSUME I PROVE StatusIsTrue
    OBVIOUS
  <2>1. ASSUME status = 0, \A i \in DOMAIN ran : ran[i].parallel \/ ran[i].how # "quiet",
               NEW c \in DOMAIN commands, commands[c] \in Known \ RunsOnce, NEW p \in DOMAIN hostList[commands[c]]
        PROVE  Cardinality({i \in DOMAIN ran : ran[i].cmd = c /\ ran[i].pos = p}) = 1
    <3>1. cmd > Len(commands)
      BY <2>1 DEF StatusPart
    <3>2. c < cmd
      BY <3>1, ListSorts DEF Types
    <3>3. PICK i \in DOMAIN ran : ran[i].cmd = c /\ ran[i].pos = p
      BY <2>1, <3>2 DEF CountPart
    <3>4. {k \in DOMAIN ran : ran[k].cmd = c /\ ran[k].pos = p} = {i}
      BY <3>3 DEF Walk, NoTwice
    <3> QED  BY <3>4, FS_Singleton
  <2> QED  BY <2>1 DEF StatusIsTrue, StatusPart
<1> HIDE DEF I
<1> QED  BY <1>1, <1>2, <1>3, PTL DEF Spec

-----------------------------------------------------------------------------
(* The results and the warnings.                                           *)

LEMMA NextResults ==
  ASSUME NoDuplicates, Types, Walk, ReportPart, ResultPart, [Next]_vars
  PROVE  ResultPart'
<1>0. /\ UNCHANGED <<env, ownSize, commands, hostList>> /\ pos \in Nat /\ pos >= 1 /\ cmd \in Nat
      /\ \A i \in DOMAIN ran : ran[i].pos \in Nat
      /\ results \in [Host -> Values]
  <2>1. \A i \in DOMAIN ran : ran[i].pos \in Nat
    BY RunsOf DEF Types, Runs
  <2> QED  BY <2>1, ConfigStays, ListSorts DEF Types, TypeOK
<1>1. SUFFICES ASSUME NEW i \in DOMAIN ran', ran'[i].cmd = cmd',
                      pc' = "serial" \/ (pc' = "report" /\ ran'[i].pos < pos')
               PROVE  results'[hostList[commands[cmd']][ran'[i].pos]] = What(ran'[i])
  BY <1>0 DEF ResultPart, Hosts, Current, What
<1>2. ASSUME NEW k \in DOMAIN ran, ran[k].cmd = cmd, pc \in {"serial", "report"}
      PROVE  ran[k].pos \in DOMAIN Hosts /\ Hosts[ran[k].pos] \in Host
  <2>1. ran[k].task = Current /\ Current \in Known /\ Hosts # <<>>
    BY <1>2 DEF Walk, PcPart, RunPart, Current
  <2>2. ran[k].pos \in DOMAIN Hosts
    BY <2>1 DEF Walk, RunPart, Hosts
  <2> QED  BY <2>1, <2>2, ListSorts DEF Hosts, Types
<1>3. ASSUME pc \in {"serial", "report"}, pos <= Len(Hosts)
      PROVE  /\ pos \in DOMAIN Hosts /\ Here \in Host
             /\ \A p \in DOMAIN Hosts : p # pos => Hosts[p] # Here
  <2>1. Current \in Known
    BY <1>3 DEF Walk, PcPart
  <2>2. pos \in DOMAIN Hosts /\ Hosts[pos] \in Host /\ Hosts \in HostLists
    BY <1>0, <1>3, <2>1, ListSorts DEF Hosts, Types
  <2> QED  BY <2>2 DEF Here, NoDuplicates
<1>4. ASSUME NEW o \in Outcomes, RunSerial(o) PROVE results'[hostList[commands[cmd']][ran'[i].pos]] = What(ran'[i])
  <2>1. /\ pc = "serial" /\ pos <= Len(Hosts) /\ UNCHANGED cmd /\ Continues(o) /\ pc' = "serial"
        /\ results' = IF Keeps(o) THEN [results EXCEPT ![Here] = o] ELSE results
    BY <1>1, <1>4 DEF RunSerial, Leave
  <2>2. Hosts = hostList[commands[cmd']]
    BY <2>1 DEF Hosts, Current
  <2>3. /\ DOMAIN ran' = DOMAIN ran \cup {Len(ran) + 1} /\ \A k \in DOMAIN ran : ran'[k] = ran[k]
        /\ ran'[Len(ran) + 1] = SerialRun(o, pos)
    BY <1>4, <2>1, AddsSerial
  <2>4. results' = [results EXCEPT ![Here] = o] /\ Submits(o)
    BY <2>1 DEF Continues, Keeps, Submits
  <2>5. CASE i \in DOMAIN ran
    <3>1. ran'[i] = ran[i] /\ ran[i].cmd = cmd /\ ran[i].pos < pos
      BY <1>1, <2>1, <2>3, <2>5 DEF Walk, RunPart
    <3>2. /\ ran[i].pos \in DOMAIN Hosts /\ Hosts[ran[i].pos] \in Host /\ Hosts[ran[i].pos] # Here
      BY <1>0, <1>2, <1>3, <2>1, <2>5, <3>1
    <3> QED  BY <1>0, <2>1, <2>2, <2>4, <2>5, <3>1, <3>2 DEF ResultPart
  <2>6. CASE i \notin DOMAIN ran
    <3>1. PICK r : r = SerialRun(o, pos)
      OBVIOUS
    <3>2. r.pos = pos /\ What(r) = o
      BY <2>4, <3>1 DEF SerialRun, What
    <3>3. ran'[i] = r
      BY <2>3, <2>6, <3>1
    <3> QED  BY <1>0, <1>3, <2>1, <2>2, <2>4, <3>2, <3>3 DEF Here
  <2> QED  BY <2>5, <2>6
<1>5. CASE RememberSerial
  <2>1. /\ pc = "serial" /\ pos <= Len(Hosts) /\ UNCHANGED <<cmd, ran>>
        /\ results' = [results EXCEPT ![Here] = "return"]
    BY <1>5 DEF RememberSerial
  <2>2. Hosts = hostList[commands[cmd']]
    BY <2>1 DEF Hosts, Current
  <2>3. ran[i].cmd = cmd /\ ran[i].pos < pos
    BY <1>1, <2>1 DEF Walk, RunPart
  <2>4. ran[i].pos \in DOMAIN Hosts /\ Hosts[ran[i].pos] \in Host /\ Hosts[ran[i].pos] # Here
    BY <1>0, <1>1, <1>2, <1>3, <2>1, <2>3
  <2> QED  BY <1>0, <1>1, <2>1, <2>2, <2>3, <2>4 DEF ResultPart
<1>6. CASE CollectReport
  <2>1. /\ pc = "report" /\ pc' = "report" /\ pos <= Len(Hosts) /\ UNCHANGED <<cmd, ran>> /\ pos' = pos + 1
        /\ results' = [results EXCEPT ![Here] = report[Here].results]
    BY <1>1, <1>6 DEF CollectReport, Leave, Sent
  <2>2. Hosts = hostList[commands[cmd']]
    BY <2>1 DEF Hosts, Current
  <2>3. ran[i].cmd = cmd /\ ran[i].pos <= pos /\ i \in DOMAIN ran
    BY <1>0, <1>1, <2>1
  <2>4. ran[i].pos \in DOMAIN Hosts /\ Hosts[ran[i].pos] \in Host
    BY <1>2, <2>1, <2>3
  <2>5. CASE ran[i].pos = pos
    <3>1. report[Here] = [exit_code |-> WorkerExit(ran[i]), results |-> What(ran[i])]
      BY <2>1, <2>3, <2>5 DEF ReportPart, Here
    <3>2. report[Here].results = What(ran[i])
      BY <3>1
    <3> QED  BY <1>0, <1>3, <2>1, <2>2, <2>5, <3>2 DEF Here
  <2>6. CASE ran[i].pos # pos
    <3>1. Hosts[ran[i].pos] # Here /\ ran[i].pos < pos
      BY <1>0, <1>3, <2>1, <2>3, <2>4, <2>6
    <3> QED  BY <1>0, <2>1, <2>2, <2>3, <2>4, <3>1 DEF ResultPart
  <2> QED  BY <2>5, <2>6
<1>7. CASE StartTask
  <2>1. pc = "execute" /\ UNCHANGED <<cmd, ran>>
    BY <1>7 DEF StartTask
  <2>2. ran[i].cmd < cmd
    BY <1>1, <2>1 DEF Walk, RunPart
  <2> QED  BY <1>0, <1>1, <2>1, <2>2
<1>8. CASE RunJobs
  <2>1. PICK ends \in [DOMAIN Hosts -> Endings] :
          \A k \in DOMAIN ran' :
            k \in DOMAIN ran \/ \E p \in DOMAIN Hosts : k = Len(ran) + p /\ ran'[k] = JobRun(ends[p], p)
    BY <1>8, AddsJobs
  <2>2. /\ \A k \in DOMAIN ran : ran'[k] = ran[k] /\ ran[k].cmd < cmd
        /\ UNCHANGED cmd /\ pos' = 1 /\ pc' = "report" /\ DOMAIN Hosts = 1..Len(Hosts) /\ Len(Hosts) \in Nat
    BY <1>8, AddsJobs DEF RunJobs
  <2>3. i \notin DOMAIN ran
    BY <1>0, <1>1, <2>2
  <2>4. PICK p \in DOMAIN Hosts : ran'[i] = JobRun(ends[p], p)
    BY <2>1, <2>3
  <2>5. ran'[i].pos = p
    BY <2>4 DEF JobRun
  <2> QED  BY <1>1, <2>2, <2>5
<1>9. CASE UNCHANGED vars
  <2>1. UNCHANGED <<pc, cmd, pos, ran, results>>
    BY <1>9 DEF vars
  <2> QED  BY <1>0, <1>1, <2>1 DEF ResultPart, Hosts, Current
<1>10. ASSUME NEW o \in Outcomes, RunLocal(o) PROVE FALSE
  BY <1>1, <1>10 DEF RunLocal, Leave
<1>11. ~(CheckCommands \/ SkipUnknown \/ RememberLocal \/ BadPoolSize \/ SpinForever \/ FinishTask \/ Done \/ DisconnectAll)
  BY <1>1 DEF CheckCommands, SkipUnknown, RememberLocal, BadPoolSize, SpinForever, FinishTask, Done, DisconnectAll, Leave
<1> QED
  BY <1>4, <1>5, <1>6, <1>7, <1>8, <1>9, <1>10, <1>11 DEF Next, Step, Stopped

LEMMA NextSkip ==
  ASSUME Types, Walk, SkipPart, [Next]_vars
  PROVE  SkipPart'
<1>0. /\ UNCHANGED <<env, ownSize, commands, hostList>> /\ pos \in Nat /\ cmd \in Nat /\ warned \subseteq warned'
      /\ \A t \in Known : Len(hostList[t]) \in Nat
  <2>1. warned \subseteq warned'
    BY DEF Next, Step, Stopped, vars, CheckCommands, SkipUnknown, StartTask, RunSerial, RunLocal,
           RememberSerial, RememberLocal, RunJobs, BadPoolSize, SpinForever, CollectReport, FinishTask, Done, DisconnectAll
  <2> QED  BY <2>1, ConfigStays, ListSorts DEF Types
<1> DEFINE Skipped(r) == r.how = "networkError" /\ NetworkErrorIgnored /\ ~r.parallel /\ r.pos # 0
           Warned(r) == [cmd |-> r.cmd, host |-> hostList[r.task][r.pos]] \in warned'
           Followed(r) == \E k \in DOMAIN ran' : ran'[k].cmd = r.cmd /\ ran'[k].pos = r.pos + 1
           HasTurn(r) == pc' = "serial" /\ cmd' = r.cmd /\ pos' = r.pos + 1 /\ ~Remembered'
<1>1. SUFFICES ASSUME NEW i \in DOMAIN ran', Skipped(ran'[i])
               PROVE  /\ Warned(ran'[i])
                      /\ ran'[i].pos < Len(hostList[ran'[i].task]) => Followed(ran'[i]) \/ HasTurn(ran'[i])
  BY <1>0 DEF SkipPart, NetworkErrorIgnored
<1>2. ASSUME i \in DOMAIN ran
      PROVE  /\ ran'[i] = ran[i] /\ Warned(ran[i])
             /\ ran[i].pos < Len(hostList[ran[i].task]) =>
                  \/ Followed(ran[i])
                  \/ pc = "serial" /\ cmd = ran[i].cmd /\ pos = ran[i].pos + 1 /\ ~Remembered
  <2>1. ran'[i] = ran[i] /\ \A k \in DOMAIN ran : k \in DOMAIN ran' /\ ran'[k] = ran[k]
    BY <1>2, HistoryStays
  <2> QED  BY <1>0, <1>1, <1>2, <2>1 DEF SkipPart
<1>3. ASSUME NEW o \in Outcomes, RunSerial(o)
      PROVE  /\ Warned(ran'[i])
             /\ ran'[i].pos < Len(hostList[ran'[i].task]) => Followed(ran'[i]) \/ HasTurn(ran'[i])
  <2>1. /\ pc = "serial" /\ UNCHANGED cmd /\ Len(ran) + 1 \in DOMAIN ran' /\ DOMAIN ran' = DOMAIN ran \cup {Len(ran) + 1}
        /\ ran'[Len(ran) + 1] = SerialRun(o, pos)
    BY <1>3, AddsSerial DEF RunSerial
  <2>2. PICK r : r = SerialRun(o, pos)
    OBVIOUS
  <2>3. r.cmd = cmd /\ r.pos = pos /\ r.how = o /\ r.task = Current
    BY <2>2 DEF SerialRun
  <2>4. CASE i \in DOMAIN ran
    <3>1. ASSUME cmd = ran[i].cmd, pos = ran[i].pos + 1 PROVE Followed(ran[i])
      BY <2>1, <2>2, <2>3, <3>1
    <3> QED  BY <1>2, <2>4, <3>1
  <2>5. CASE i \notin DOMAIN ran
    <3>1. ran'[i] = r
      BY <2>1, <2>2, <2>5
    <3>2. o = "networkError" /\ NetworkErrorIgnored
      BY <1>1, <2>3, <3>1
    <3>3. /\ pc' = "serial" /\ pos' = pos + 1 /\ returnValue' = returnValue /\ ~Remembered
          /\ warned' = warned \cup {[cmd |-> cmd, host |-> Here]}
      BY <1>3, <2>1, <3>2 DEF RunSerial, Continues, Warns
    <3>4. ~Remembered'
      BY <1>0, <2>1, <3>3 DEF Remembered, Current
    <3>5. Here = hostList[Current][pos]
      BY DEF Here, Hosts
    <3> QED  BY <2>1, <2>3, <3>1, <3>3, <3>4, <3>5
  <2> QED  BY <2>4, <2>5
<1>4. ASSUME i \in DOMAIN ran,
             ran[i].pos < Len(hostList[ran[i].task]) =>
               \/ ~(pc = "serial" /\ cmd = ran[i].cmd /\ pos = ran[i].pos + 1 /\ ~Remembered)
               \/ HasTurn(ran[i])
      PROVE  /\ Warned(ran'[i])
             /\ ran'[i].pos < Len(hostList[ran'[i].task]) => Followed(ran'[i]) \/ HasTurn(ran'[i])
  BY <1>2, <1>4
<1>5. ASSUME NEW o \in Outcomes, RunLocal(o) PROVE i \in DOMAIN ran /\ pc # "serial"
  <2>1. /\ pc = "local" /\ DOMAIN ran' = DOMAIN ran \cup {Len(ran) + 1} /\ ran'[Len(ran) + 1] = SerialRun(o, 0)
    BY <1>5, AddsSerial DEF RunLocal
  <2>2. PICK r : r = SerialRun(o, 0)
    OBVIOUS
  <2>3. r.pos = 0
    BY <2>2 DEF SerialRun
  <2> QED  BY <1>1, <2>1, <2>2, <2>3
<1>6. CASE RunJobs
  <2>1. \E ends \in [DOMAIN Hosts -> Endings] :
          \A k \in DOMAIN ran' :
            k \in DOMAIN ran \/ \E p \in DOMAIN Hosts : k = Len(ran) + p /\ ran'[k] = JobRun(ends[p], p)
    BY <1>6, AddsJobs
  <2>2. i \in DOMAIN ran
    BY <1>1, <2>1 DEF JobRun
  <2> QED  BY <1>4, <1>6, <2>2 DEF RunJobs
<1>7. CASE FinishTask
  <2>1. /\ ran' = ran /\ pos > Len(Hosts)
    BY <1>7 DEF FinishTask
  <2>2. ASSUME pc = "serial", cmd = ran[i].cmd, pos = ran[i].pos + 1 PROVE ~(ran[i].pos < Len(hostList[ran[i].task]))
    <3>1. ran[i].task = Current /\ Current \in Known /\ ran[i] \in Runs
      BY <2>1, <2>2, RunsOf DEF Walk, RunPart, Current, Types
    <3>2. ran[i].pos \in Nat /\ Len(Hosts) \in Nat
      BY <1>0, <3>1 DEF Runs, Hosts
    <3> QED  BY <2>1, <2>2, <3>1, <3>2 DEF Hosts
  <2> QED  BY <1>4, <2>1, <2>2
<1>8. CASE UNCHANGED vars
  <2>1. ran' = ran /\ pc' = pc /\ pos' = pos /\ cmd' = cmd /\ Remembered' = Remembered
    BY <1>8 DEF vars, config, Remembered, Current
  <2> QED  BY <1>4, <2>1
<1>9. CASE RememberSerial
  <2>1. ran' = ran /\ Remembered
    BY <1>9 DEF RememberSerial
  <2> QED  BY <1>4, <2>1
<1>10. CASE CheckCommands \/ SkipUnknown \/ StartTask \/ RememberLocal \/ BadPoolSize \/ SpinForever \/ CollectReport
            \/ Done \/ DisconnectAll
  <2>1. ran' = ran /\ pc # "serial"
    BY <1>10 DEF CheckCommands, SkipUnknown, StartTask, RememberLocal, BadPoolSize, SpinForever, CollectReport, Done, DisconnectAll
  <2> QED  BY <1>4, <2>1
<1> HIDE DEF Skipped, Warned, Followed, HasTurn
<1> QED
  BY <1>3, <1>4, <1>5, <1>6, <1>7, <1>8, <1>9, <1>10 DEF Next, Step, Stopped

\* Where no host is listed twice: when the hosts of a task are through, execute()
\* holds for each what its run came to; a host that was skipped has its warning,
\* and those after it have their turn.
THEOREM HostsAreAnswered ==
  ASSUME NoDuplicates
  PROVE  Spec => []EveryHostIsAnswered
<1> DEFINE I == Types /\ Walk /\ ReportPart /\ ResultPart /\ SkipPart
<1>1. Init => I
  BY InitTypes, EmptySeq DEF Init, ReportPart, ResultPart, SkipPart
<1>2. I /\ [Next]_vars => I'
  BY NextTypes, NextWalk, NextReport, NextResults, NextSkip DEF Walk
<1>3. I => EveryHostIsAnswered
  <2> SUFFICES ASSUME I PROVE ResultsAreTrue /\ SkippedIsWarned
    BY DEF EveryHostIsAnswered
  <2>1. ResultsAreTrue
    <3>1. SUFFICES ASSUME pc \in {"serial", "report"}, pos > Len(Hosts), NEW i \in DOMAIN ran, ran[i].cmd = cmd
                   PROVE  results[Hosts[ran[i].pos]] = What(ran[i])
      BY DEF ResultsAreTrue, What
    <3>2. pc = "report" => ran[i].pos < pos
      <4>1. pc = "report" => ran[i].pos \in DOMAIN Hosts /\ DOMAIN Hosts = 1..Len(Hosts) /\ Len(Hosts) \in Nat
        BY <3>1, FailureShows, ListSorts DEF Walk, PcPart, Hosts, Types
      <4>2. pos \in Nat
        BY ListSorts DEF Types
      <4> QED  BY <3>1, <4>1, <4>2
    <3> QED  BY <3>1, <3>2 DEF ResultPart
  <2>2. SkippedIsWarned
    BY DEF SkippedIsWarned, SkipPart
  <2> QED  BY <2>1, <2>2
<1> HIDE DEF I
<1> QED  BY <1>1, <1>2, <1>3, PTL DEF Spec
=============================================================================
