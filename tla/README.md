# A verification project for fabricity

fabricity (a fork of Fabric 1.x) runs Python functions, *tasks*, on many hosts over SSH, one host
after the other or in worker processes. This directory models the parts of it in which state, order
and failure decide what happens, checks the models with TLC and proves what matters most of them
with TLAPS. Every definition is translated from the source under `src/fabric`; `PROJECT.json` maps
each of them to the lines it stands for.

## The system

| component | state | operations | talks to |
|---|---|---|---|
| job queue (`job_queue.py`) | the lists `_queued`, `_running`, `_completed`, the flags `_closed`, `_finished`, the results; the worker processes; the queue of results | `append`, `close`, `run` with `_advance_the_queue`, `_fill_results` | worker processes through `is_alive()`, `join()`, `exitcode` and a `multiprocessing.Queue` |
| task execution (`tasks.py`, `decorators.py`) | the results by host, the error policy in `env`, the value kept by `runs_once` | `execute`, `_execute`, `requires_parallel`, `get_pool_size` | the job queue; the connections (eager disconnect); the error policy |
| host lists (`task_utils.py`, `tasks.py`, `main.py`) | none: the lists of the arguments, the decorators and `env` go in, one list comes out | `parse_arguments`, `parse_kwargs`, `merge`, `get_hosts_and_effective_roles` | task execution |
| main loop (`main.py`) | the commands to run, the exit status | parse, load the fabfile, run the commands, disconnect | task execution |
| connections (`network.py`, `auth.py`, `state.py`) | the cache of clients, the passwords, the channels through a gateway | `connections[...]`, `connect()`, `default_channel()`, `disconnect_all()` | SSH servers, the user at the prompt, the SSH configuration |
| settings and environment (`context_managers.py`, `state.py`, `utils.py`) | the dictionaries `env` and `output`; what each open block has saved | `settings`, `cd`, `prefix`, `hide`, `show`, ... | everything reads `env` |
| command input and output (`operations.py`, `io.py`, `thread_handling.py`) | the channel, two capture buffers, the sudo password cache, three threads | `_execute`, `OutputLooper.loop`, `prompt`, `try_again`, `input_loop` | the server, the user |
| tunnels (`context_managers.py`) | lists of sockets, channels and threads | `remote_tunnel`, its `accept` callback, `_forwarder` | the transport's threads |
| file transfer (`sftp.py`, `operations.py`) | remote and temporary files | `get`, `put` with `use_sudo` | connections, `sudo` |
| task tree and fabfiles (`main.py`, `task_utils.py`) | the tree of commands, `sys.path` | `load_fabfile`, `load_tasks_from_module`, `crawl` | main loop |
| error handling (`utils.py`, `exceptions.py`) | `warn_only`, `use_exceptions_for` | `abort`, `warn`, `error` | everything |
| contrib (`contrib/files.py`, `contrib/project.py`) | a remote file, its backup, the archives of an upload | `append`, `upload_template`, `sed`, `comment`, `uncomment`, `upload_project` | operations: one remote command each, or several |
| colors, docs, version, api | none | formatting, re-exports | |

What is hard about it, and what correct means:

* **job queue.** The parent polls; the children change between any two of its reads. The reaping
  pass pops from the list it enumerates and so steps over elements. The pipe under the results
  queue may be full, and a child does not exit before its result is written. Correct: no job is
  lost, duplicated or started twice; never more live processes than the pool size, and no fewer
  than there is work for; every result that was sent is reported under its host; `run()` returns.
* **task execution.** Four settings soften a failure in different places of three paths (serial,
  parallel, without hosts). Correct: after a failure that nothing tolerates no task starts; the
  exit status tells the truth; every host has its own result or is warned about.
* **host lists.** Three levels, of which one counts, with one exception for exclusions. Correct: the
  hosts of that level in their order, without those excluded.
* **connections.** `connect()` counts different failures with one counter, calls itself for the
  gateway and prompts for passwords on the way; the cache normalizes its keys in every method.
  Correct: an entry leads to its own host through the right gateway; channels of failed tries are
  closed; tries are bounded; passwords are asked for once; a dead connection is replaced once.
* **settings.** Blocks nest, with two ways to restore keys, while their bodies assign and delete
  keys. Correct: what a block changed is undone when it is left, however that happens.
* **command input and output.** Two threads read output that the network cuts anywhere, find prompts
  in it, ask the user and write to the channel; a third forwards the keyboard; the main thread waits
  for the exit status and for their exceptions. Correct: what is returned is what the command wrote;
  a prompt is answered once, a refused password is not sent again; an exception in any thread, the
  end of the command or a timeout ends the call.
* **file transfer.** With `use_sudo` a file takes four or five remote commands, each of which may
  fail, raise, or be cut off, and under `warn_only` failures are warnings. Correct: no part of a file
  appears at its destination; temporary files are removed; the report says what is in place.
* **tunnels.** The callback that paramiko's transport thread calls fills three lists while the main
  thread walks them and closes what the forwarder threads are reading, writing or waiting for.
  Correct: bytes arrive in order and none is missing; when the block is left no connection is; leaving
  it ends.
* **task tree and fabfiles.** Modules import each other in circles, are searched where they are met
  first, and tasks, aliases and modules may go by the same name; `sys.path` is rearranged by position
  around code that may change it. Correct: every task has a name that leads to it, every listed name
  leads to what goes by it, `sys.path` is as before, and nothing runs when a name is wrong.
* **contrib.** Editing a file is looking and then writing, with separate commands. Correct: a task that
  was cut off anywhere and is run again has the effect of one that was not; no content is written over
  that is not in the backup; archives do not stay behind.

## The modules

| module | what it is |
|---|---|
| `Worker` | how one run of a task ends in a child process and what of it the parent can see; what a report of such runs may say |
| `JobQueue` | `JobQueue`, its caller, the child processes and the results queue |
| `SlidingWindow` | the abstract specification of `JobQueue`: jobs handed in, at most `MaxRunning` active, one report at the end |
| `JobQueueProofs` | theorems about `JobQueue` |
| `Execute` | `main()` from the list of commands on, and `execute()` |
| `ExecuteProofs` | theorems about `Execute` |
| `HostLists` | the host list of one task |
| `Connect` | the connection cache, `connect()` and `default_channel()` |
| `ConnectProofs` | theorems about `Connect` |
| `Settings` | the stack of blocks that override `env` and `output` |
| `SettingsProofs` | theorems about `Settings` |
| `CommandIO` | one remote command: `_execute`, its three threads, and what they capture and answer |
| `CommandIOProofs` | theorems about `CommandIO` |
| `SftpTransfer` | `put()` and `get()` with their temporary files |
| `SftpTransferProofs` | theorems about `SftpTransfer` |
| `RemoteTunnel` | `remote_tunnel()`: its block, the accept callback, the forwarder threads and the two ends of each connection |
| `RemoteTunnelProofs` | theorems about `RemoteTunnel` |
| `StartUp` | `main()` up to the tasks: the import of the fabfile, the tree of commands, and what is made of the command line |
| `RemoteFiles` | the functions of `fabric.contrib` on one remote file, and `upload_project()`, cut off and repeated |
| `RemoteFilesProofs` | theorems about `RemoteFiles` |
| `MC...` | the instances TLC checks |

**JobQueue.** One action per step of the parent between two reads of shared state: `Prefill` and
`Fill` are iterations of the two filling loops (the first does not look at `_queued`, so
`PrefillRaises` is its `IndexError`), `Check` is `_all_alive()`, `Scan` one iteration of the reaping
loop with its pop under the iterator, `Settle` the test for the end with its joins, `FillResults`
one `get_nowait()`, `AttachExitCode` one iteration of the last loop. `_all_alive()` reads the
processes one by one; as a process never comes back to life, the outcome is one an atomic read
gives at the first or last of these reads. A child goes through *running*, *flushing* (its feeder thread has a datum and
the pipe may be full), *exiting* and *dead*; `Kill` ends it at any time. In the middle of its write it
may leave the lock of the queue held, which keeps the other children from writing and so from ending, or
half a message, for the rest of which `get_nowait()` waits (`torn`, `LeftBy`). `FillRaises` is a datum that
cannot be unpickled: the exception ends `run()`. `delivered` is a history variable. `inner` calls
`sys.exit` with the outcomes of `Worker`.

**SlidingWindow** knows no lists, polls or pipe. `JobQueue` implements it under the mapping at
the end of its module: a job is active as long as its process lives.

**Execute.** A run of a task body in the parent is one step that ends in one of `Outcomes`; the
workers of a parallel task are one step, `RunJobs`, whose report is any that `Worker!Reports` allows.
That is what `JobQueue` is shown to return (`ImplementsFairWindow`, through `SlidingWindow!Report`),
so the two models meet in that operator. A run of the queue that raises or waits for ever is left to
`JobQueue`. `PoolSize` takes the size of the task or of `env` through Python's `or` and `int()`, so that
the string `'0'` is a size that was given; `SpinForever` is `JobQueue.run` with a pool size below one.

**Connect.** `stack` holds the running calls of `connect()`: one for the host and, inside its try
block, one for the gateway. `Try` is the head of the loop, `Tunnel` is `direct_tcpip()`, and what an
attempt meets is one action per group of handlers: `Transient`, `Fatal`, `Quit`, `Refused`,
`SshError`. `Prompt` names the host the task asked for, also while the gateway is dialled, so the user
answers for the one or the other (`Answers`), and what is typed is remembered for the host that is dialled.
`Drop` is the environment.

**Settings.** `With` makes all managers of a with statement, `EnterSetenv` and `EnterOutput` enter
them one by one, the `Leave` actions run their finally clauses in reverse order, with or without an
exception under way.

**CommandIO.** The main thread polls (`Poll`, `CheckWorkers`), joins the workers in their order
(`Join`) and closes the channel (`Return`). A thread of `OutputLooper` takes some of the bytes that
are there (`Read`), and handles them one fragment at a time: `Answer`, `SendPassword`, `AskUser` with
`UserAnswers` or `UserGivesUp`, `TryAgain` and `CaptureOnly` are the branches of the loop body.
`thread[w] = "failed"` is an exception kept by `ThreadHandler`. The input thread checks the keyboard
(`InputCheck`), reads a key (`InputKey`, `InputAnswer`) and writes to the channel (`InputSend`) in three
steps, between which the keyboard may be taken away. `flow` says whether a stream goes on, never pauses, or
has ended; the end of a stream ends its thread, whether or not an exit status has come. Output is a
sequence of marks; a character has two, so that a read may end inside it, while a prompt or a notice
is one mark, as the loop looks for it in the capture, where it does not matter in which reads it
came. `buf` is what `_execute` joins, `own` the list to which `try_again()` rebinds `self.capture`.
With `tty` there is one stream, as with `combine_stderr`; without it sudo asks on stderr.

**SftpTransfer.** One action per remote command or SFTP operation; each takes its outcome from
`FtpOutcome` or `SudoOutcome` and, if that is not `"ok"`, may have done its work all the same, or have
cut off a copy. `MakeDirectory` and `ListDirectory` begin a directory, `Upload`, `SetMode`, `Move` and
`CleanUp` are `SFTP.put`, `Copy`, `Own`, `Download` and `RemoveTemp` are `SFTP.get`; `HandleError` is
the except clause of `operations.put` and `operations.get`.

**RemoteTunnel.** Four kinds of threads. The transport thread runs `accept()` up to `connect()`
(`Accept`), to the start of the forwarder (`Connects`, `ConnectFails`) and to its entry in the list
(`ListThread`), and until then reads no other message, so what the remote end does is not seen. A
forwarder waits (`Wake`), reads the socket before the channel (`Turn`, `Receive`, `ReceiveEnd`), and
writes (`Send`), or waits for a service that does not read (`Blocks`); `ReceiveRaises` and `SendFails` are what it meets when the main thread or an end has
closed a side meanwhile. The main thread takes one triple of `zip()` after the other (`CloseSocket`,
`CloseChannel`, `Join`) and cancels the port forward in two steps (`Cancel`, `Leave`), as the call waits
for an answer which only the transport thread reads. `WakeClosed` is a `select()` whose socket was
closed by another thread: POSIX leaves open what becomes of it, while `Channel.close()` closes the pipe
that stands for the channel, so that it returns at the latest when both were closed. The bytes of a stream are numbered, so that a gap or
an exchange shows. `TypeOK` also states that the lists grow together.

**StartUp.** `PreparePath`, `Import` and `RestorePath` are `load_fabfile()`. `frames` holds the calls of
`extract_tasks()` under way, one per module that is being searched: `ReadTask`, `ReadFunction`,
`PassOver` and `EnterModule` are the branches of its loop, `LeaveModule` the graft of a module's tasks
under its name, `Loaded` the end of the outermost call. `Decide` is the rest of `main()` up to the first
`execute()`, one disjunct per way out; `ExecuteNext` is one call of `execute()`, which looks its name up
again in the tree, and `AllExecuted` the end. `Means`, `Reached` and `DefaultOf` say what the variables of the
modules mean without a search, and the properties compare the tree with them. Lines 717-720 of `main()`
cannot be reached, as the test at line 688 has caught the case, and are not modelled.

**RemoteFiles.** One action per remote command. `Stops` is a command that is not carried out, `Changes`
one that is, with or without the answer arriving; both end the task, which `Again` repeats from its
first call. `Look` and `Save` ask under `warn_only`, so that a command of theirs which fails or is cut off
is a plain no (`Answers`), and `misled` keeps that it was wrong. The handler of an exception in `upload_project()` is the next finally clause (`Handler`).
A line is a sequence of tokens, of which the comment mark is one.

**HostLists** is an algorithm without interleaving: an initial state is an input, `Execute` and
`FromCommandLine` compute its host list, and the properties compare it with a definition that does
not compute.

Definitions whose comment speaks of a *slip* are no part of the models. Each is a variant of the
definition below it, wrong in a way such code easily is; `PROJECT.json` lists under `mutants` which
property it breaks when it takes the place of that definition.

## What is checked

| run | what it shows | states |
|---|---|---|
| `jobs` | no job is lost, the window is kept, the report is complete, nothing is undone; `JobQueue` implements `SlidingWindow` and makes its progress while no child is killed with the queue's lock and all data can be read, so `run()` then comes back | 0.24 million |
| `execute` | fail-fast, exit status, results, `runs_once`; `fab` ends if the pool sizes that are given are above zero | 0.4 million |
| `connect` | cache, channels, prompts; every operation on the cache ends | 59 thousand |
| `settings` | blocks leave no trace; `cd` and `prefix` nest | 3.0 million |
| `command_io` | output is captured, prompts are answered, the call of a command ends | 0.55 million |
| `sftp` | reports of transfers are true, destinations whole, temporary files removed | 3.6 million |
| `host_lists` | the host list is the one of the level that counts | 14 thousand |
| `tunnel` | streams are forwarded whole, nothing is left when the block is, leaving it ends | 0.84 million |
| `start_up` | `sys.path` is restored, tasks are found, what was asked for is run | 0.97 million |
| `contrib` | tasks that were cut off and repeated end as others do, with their backups and without archives | 4.4 million |

**Bounds.** `jobs`: three jobs, a window of two, a pipe of one datum. With three jobs one has to
wait for a slot, with two in the window the reaping pass steps over one, and a pipe of one blocks
the second writer. Two jobs have one host and share an entry of the results; the third has one of its
own, which is what the part of `NothingIsUndone` about results speaks of. It takes three of the six endings,
one that sends a datum and exits with 0, one that fails without a datum, and one that is killed, before its
datum is written, in the middle of that or after it: the parent sees of an ending only whether there is a
datum, and the exit code, which it copies. `execute`: all 128
combinations of the settings, command lines of two and three tasks with a repeated and an unknown
one, two hosts, an `env.pool_size` that is not set, the string `'0'` or no number, and a task with
`@parallel(pool_size=-1)`; a serial loop needs a host before and one after
the failing one. `connect`: a host with a password, one with a key, the gateway and an alias of it,
two passwords, two tries, and prompts naming the host at which the user types either password; counters stay at
`Attempts + 1`, beyond which no guard tells values
apart, and `prompts` keeps only whether a right or wrong password was typed, and a right one again.
`settings`: four frames, so that a block can stand between two others over the same keys, and that a statement of
two managers, of which the inner one raises on its way out, can stand inside of another one; bodies assign
and delete keys inside and outside of the blocks that override them. `command_io`: the command writes or asks twice, which gives a read boundary
inside a character, between two writes and after a prompt, and after that it ends, closes its streams
without ending, or writes without a pause; sudo takes two passwords, so that one
refusal is followed by another prompt; one key is pressed; the four calls are `run()` on two streams
with a timeout and on a terminal with `env.prompts`, `sudo()` on a terminal with a wrong
cached password, and on stderr with none. Reads take any part of what is there. `sftp`: a directory
of two files and a single file in both orders, so that a failure has files of the same argument and an
argument before and after it. `host_lists`: lists of up to three, with duplicates,
blanks and an undefined role. `tunnel`: two connections, so that the lists can shift against each
other, with two bytes per direction on the first, which may be read together or one after the other, so that
an exchange or a gap shows; on the second nothing is written, and only its client acts, which opens and
finishes it. `start_up`: a fabfile of
three variables and modules of two and one; an importing circle needs two modules, a clash two
variables, and a task found in two places a third. `contrib`: two stops, so that a repetition is
interrupted, too; files with the text at their end, in the middle, twice, not at all, or on an
unended last line; tasks of up to three calls that undo each other's work.

`host_lists` is not checked for deadlock: a list is computed once. All other runs are. A queue
that has returned or raised, a `fab` that has exited or spins, a block that was left and a task that is through stutter in an action of their
own, so a deadlock elsewhere would be found.

**Fairness.** `JobQueue`: weak fairness of the parent, which polls and blocks only in `join()` of a
process that is dead or exiting and on half a message, and of every child, which the scheduler runs; that a task body ends
is an assumption, as fabricity sets no limit to it. `Kill` is never forced. `ImplementsFairWindow` promises
progress as long as no child is killed with the lock of the queue in hand and every datum can be read:
nothing in the code ends the waits that follow. `Execute`: weak fairness
of the one thread there is; `FabEnds` has the premise `SizesAreUsable`, as a size below one spins for ever. `Connect`: weak fairness of the one thread; paramiko ends every attempt
within `env.timeout`, and the user answers a prompt. `OpEnds` excepts users who mistake a password
again and again, as wrong ones are asked for without end; `PromptedOnce` assumes nothing of what they
type. Nothing is assumed about `Drop`. `CommandIO`: weak fairness of the main thread
and of each worker, which the interpreter schedules, and of the user who is asked. Nothing is assumed of the command, the server
and the keyboard, so `CommandEnds` has a premise (`Served`): the output ends and then an exit status comes or the
connection breaks, or a timeout is set and the stream that is read pauses. It leaves out output that never decodes:
then the thread reads the end of the stream for ever (`Hanging`), as the comment at `io.py:100` says; and an
input thread that waits for a key which `getpass()` has discarded (`Starved`). `RemoteTunnel`: weak fairness of the
main thread's clean-up, of the transport thread within `accept()`, and of each forwarder, with a `select()`
returning when both that it waits for were closed. Nothing is assumed of the body of the block, and of clients and
services neither that they write, nor that they take what a blocked `sock.send()` has for them, nor that they end. So
`BlockEnds` excepts a main thread that waits for a thread whose service does not read (`Stalled`) or for one
whose connection it has not closed (`Shifted`). `Settings`, `SftpTransfer`,
`HostLists`, `StartUp` and `RemoteFiles` are sequential programs whose steps are bounded by their inputs;
no liveness is stated.

### Disagreements with the documentation

Two runs check what a document, docstring or comment says and are expected to be violated; the
quotations are in `PROJECT.json` under `findings`.

| run | what the program does |
|---|---|
| `capture_lost` | after sudo refused a password nothing the command writes is captured |
| `tunnel_loses_data` | `_forwarder()` ignores how much `chan.send()` has taken, so that what the window has no room for is dropped |

Others that the models show and no run is about:

* With `dedupe_hosts` off and a host listed twice, both workers have one entry in the results: the exit
  code of the one reaped last hides the failure of the other (`job_queue.py:188`), and the next task
  starts, although the comment at `tasks.py:435` says "Abort if any children did not exit cleanly".
  `FailFast` fails when `MCExecute.cfg` takes `WithDuplicates` for its host lists.
* Two `cd()` in one `settings()` do not nest: `_change_cwd()` reads `env.cwd` when it is called
  (`context_managers.py:334`), against the docstring of `_setenv()`. `BlocksNest` fails when
  `MCSettings.cfg` takes `CdTwice` for its blocks.
* Under `warn_only` a failed `mv` raises nothing, so the `except` clause that removes the temporary file
  is not entered (`sftp.py:289`), and `put()` reports success; the last disjunct of `TempIsRemoved` is
  this case.
* A worker process that cannot reach its host under `skip_bad_hosts` exits with 0 (`tasks.py:282`), so
  the parent, which looks at the result only if the exit code is not 0 (`tasks.py:440`), does not warn
  as it does for serial tasks and as `sites/docs/usage/execution.rst:764` says. `SkippedIsWarned`, a
  part of `EveryHostIsAnswered`, is about serial tasks.
* The cached gateway client is replaced on the first try of every connection, since `tries` is
  incremented before it is compared (`network.py:474`); the comment above says "if not on initial try".
* A group given twice to `hide()` or `show()`, by name or through aliases, keeps the value of the block
  when that ends (`context_managers.py:56`), against the docstring of `hide()`.
* `get(use_sudo=True)` takes a directory that the login user may not list for empty, and succeeds
  (`sftp.py:86`). A failing `chown` or `chmod` leaves its temporary copy on the host, as they come
  before the `try` (`sftp.py:168`).
* The answered prompt of `env.prompts` is deleted from a copy of the capture (`io.py:171`): it stays in
  the result, and if the next read starts with a newline, the empty fragment before it finds the
  prompt again and answers it a second time.
* After an exception in one of the threads, `_execute` leaves the channel open and the other threads
  running (`operations.py:820`, `834`).
* `eagerly_disconnect` does not close what a task without hosts opened (`tasks.py:451`), although
  `sites/docs/usage/env.rst:316` says it does after each task.
* `connections[...]` normalizes its key and `connect()` the result again (`network.py:141`), so a
  `HostName` that is itself the pattern of a `Host` entry is looked up once more, unlike in ssh.
* `connect()` reads the password of its host before it connects to the gateway (`network.py:461`),
  so one typed for the gateway meanwhile is not tried first on the host, as
  `sites/docs/usage/execution.rst:785` says it would.
* With `clean_revert` a brand new key of a block is deleted when the block ends
  (`context_managers.py:151`); the docstring at `context_managers.py:231` says it is preserved, the test at
  `tests/test_context_managers.py:231` that it is not. `BlocksLeaveNoTrace` sides with the code and the test.
* If the body deleted one of the new keys of its block, leaving the block raises `KeyError`
  (`context_managers.py:155`) and the others stay.
* Exclusions are looked at only while duplicates are removed (`task_utils.py:74`), so they are
  ignored with `dedupe_hosts` off, although `sites/docs/usage/env.rst:346` and
  `sites/docs/usage/execution.rst:411` say that excluded hosts are skipped. `RightHosts` leaves open what
  becomes of them then.
* `sites/docs/usage/execution.rst:807` says that a typed password updates the cache for the current
  `env.host_string`, which the prompt names, too (`network.py:588`, `669`). The code remembers it for the
  host that is dialled, which may be the gateway; so a user may answer for the wrong one. `PromptedOnce`
  sides with the code.
* After the streams of a command have ended its threads end as well, and with them the time limit: a command
  that closes its output and runs on is waited for without end (`io.py:108`, `operations.py:817`). One that
  writes without a pause never meets the limit either, since it is looked at when a read finds nothing
  (`io.py:84`).
* A child that is killed while it writes to the results queue keeps the queue's lock or leaves half a message,
  and `run()` waits for ever; a datum that cannot be unpickled, such as an exception whose class takes several
  arguments, raises in `get_nowait()` and ends `run()` with the other workers running (`job_queue.py:199`).
* Leaving a tunnel waits for a service that does not read what a client has sent it: `sock.close()` does not
  end the `sock.send()` of another thread, for which `join()` waits (`context_managers.py:479`, `564`).
* `exists()` and `contains()` run under `warn_only` (`contrib/files.py:37`, `381`), where a lost connection is
  a status of -1 (`operations.py:829`, `948`) and the next command connects anew (`state.py:453`): a look that
  is cut off answers no. `append()` then writes a line that is there, and `upload_template()` writes over the
  file without a backup.

* `remote_tunnel()`: a connection that the local side refuses gets no thread, so that `zip()` pairs the
  threads after it with the connections before them (`context_managers.py:546`, `561`): the block then
  waits for a thread whose connection it has not closed, until its ends close it; the socket of the
  refused one is never closed.
* A connection whose thread is listed after `zip()` has ended stays open (`context_managers.py:553`). An
  exception kept by a forwarder, which the main thread's own `sock.close()` may cause, is raised out of
  the `finally` clause, and the other connections and the port forward stay (`context_managers.py:565`).
* A service that shuts down its half of a connection after a request loses the reply, as the forwarder
  closes both sides on the first end of a stream (`context_managers.py:473`).
* `load_fabfile()` restores `sys.path` by positions: a fabfile that inserts an entry in front loses this
  one, and the fabfile's directory stays (`main.py:180`, under the comment "Remove directory from path if
  we added it ourselves"); a fabfile whose import raises leaves the path rearranged, just before `fab` exits.
* `sites/docs/usage/tasks.rst:303` says of namespaces that imported modules "will be recursed into"; one
  that was reached through another module already is not (`main.py:257`), and its tasks are found there
  only. A task and a module that go by one name: with the module first the task replaces it silently,
  with the task first the `TypeError` of the item assignment ends the program (`main.py:245`).
* A task without a name gets that of the first variable it is met in, also when this is in an imported
  module (`main.py:229`). The default task is started by its name (`main.py:748`), so one that shares
  it with another task of the fabfile may start the other.
* `fab --list -- command` without a fabfile raises `UnboundLocalError` for `docstring` (`main.py:711`).
* `append()` of an empty line appends it every time, since an empty text is never looked for
  (`contrib/files.py:432`); a text of two lines is taken for present when a line of the file begins as its first or
  ends as its last, as `egrep` takes each line of a pattern for a pattern; and on an
  unended last line the text is glued to it, and appended again the next time. The docstring at
  `contrib/files.py:396` says "If `text` is already found in `filename`, the append is not run".
* An unanchored `comment()` marks a marked line again; `upload_template()` asks `exists(destination)`
  without `use_sudo` (`contrib/files.py:162`) and so makes no backup of a file that only root sees. Under
  `warn_only` a failed `cp` is followed by the overwrite, and after a broken upload the repetition backs
  up the part. `sed()` on NetBSD, OpenBSD and QNX hands `str` to `hasher.update()`
  (`contrib/files.py:239`), a `TypeError` on Python 3.
* `upload_project()` leaves its archive on the host when `put()` fails (`contrib/project.py:225`),
  although the docstring says that it cleans up "even in the event of a failure".
* Pool sizes and the wait of `reboot()` are not checked: a size may be negative, or the string `'0'`, which is
  true and becomes 0 (`tasks.py:123`), and then `run()` spins for ever; and a wait below 2.5 seconds is rounded to no attempt at all (`operations.py:1286`). A host list that exclusions leave empty is
  taken for none, and the task runs once without a host (`tasks.py:450`).

The passing runs keep away from the first two cases by their inputs: host lists without duplicates in
`execute`, no nested `cd()` within one `settings()` in `settings`, where no group is repeated either; and
`connect` has an idempotent normalization. For the others the properties name the exception:
`ReturnIsComplete` a stream on which sudo refused a password, `ReportIsTrue` a file of which a command
failed under `warn_only`, a directory that could not be listed and what comes after an argument at which `get()`
gave up, `RemoteIsClean` the temporary file of a failed upload, `chmod`, `cp`, `chown` or removal, and of a move
that failed under `warn_only`, `BlocksLeaveNoTrace` keys that bodies changed in blocks with `clean_revert` only, and
new keys that an exit which raised `KeyError` did not reach, `LeftClean` the threads of
`late` and the sockets of `Refused`, `PathIsRestored` the entry in front, `TasksAreFound` names that
`Clash`, `RunsWhatWasAsked` a default task that shares its name (then another of that name may run),
`EndsAsUndisturbed` the tasks that are not `Repeatable` and a look of `append()` that was cut off (then
no line is lost and no text missing, but one may be there twice), `BackupIsPrevious` hidden files and a look
of `upload_template()` that was cut off, `TarsAreRemoved` a failed upload. `DataIsForwarded` is checked with a channel that takes all it is given.

## What is proved

Every theorem holds for all values of the constants that satisfy the named assumptions of its module,
which TLC evaluates on the instances. Each invariant that a proof uses was checked by TLC on the
instance of its run first. A proof has one lemma per action and, below it, a step for every part of the
invariant which that action can disturb.

Some theorems have a hypothesis. Each excludes a case in which the code breaks the property, listed above
under the disagreements, and the runs keep away from the same case by their inputs:

| hypothesis | it excludes |
|---|---|
| `NoDuplicates` (`Execute`) | a host listed twice with `dedupe_hosts` off |
| `Idempotent` (`Connect`) | a `HostName` that is itself the pattern of a `Host` entry |
| `NoGroupTwice` (`Settings`) | a group given twice to one `hide()` or `show()` |
| `OneCd` (`Settings`) | two `cd()` in one with statement |
| `~ShortSends` (`RemoteTunnel`) | a `chan.send()` that takes less than it is given |

### JobQueue

For all sets of jobs and hosts, every assignment of hosts to jobs, every integer pool size, every pipe
capacity above zero and every choice of endings:

| theorem | property |
|---|---|
| `TypeCorrect` | `TypeOK` |
| `JobsAreConserved` | `JobsAreAccounted` |
| `WindowIsRight` | `WindowIsKept` |
| `ReportIsRight` | `ReportIsComplete` |
| `NothingComesBack` | `NothingIsUndone` |
| `PrefillNeverRaises` | `PoolFits`, which the run does not check: a closed queue with as many jobs as the pool size never pops from an empty list |
| `DataAreKept` | `NoDatumLost`, which the run does not check: a datum that was sent is in the pipe, in the results of its host, or replaced there by one of the same host, unless one that cannot be unpickled ended `run()` |
| `QueueIsAWindow` | `ImplementsWindow`: `JobQueue` implements `SlidingWindow`. The run checks it with fairness, as `ImplementsFairWindow` |

The argument goes in layers, each assuming those before it.

1. Four lemmas say what `Append`, `Front`/`Last`, and `RemoveAt` do to the length, the elements
   and the injectivity of a sequence, and that a sequence has at most as many elements as places.
2. `TypeOK` is inductive.
3. `ListInv` adds to `OneListPerJob` and `ListsMatchProcesses` that nothing has been started while
   the queue is open: without it, `append()` of a job that is not in `_queued` could duplicate one
   that is in another list.
4. `WindowInv` bounds the length of `_running` by the pool size. Live processes are among its
   elements by `ListInv`, which gives `WindowBound`.
5. `PrefillInv` says that in the first filling loop nothing is completed yet and the queue is
   closed, so that `_running` and `_queued` hold all jobs, and that the caller closed the queue
   before anything could raise.
6. `DataInv`: what is in the pipe was delivered, and the results hold delivered data of the right
   host; its parts say that every job that was started has an entry (`Registered`) and that a
   process which wrote or holds a datum was started (`Genuine`).
7. `ReportInv` and `FinishedMeansDead`: when the loop is over all started jobs are completed, all
   completed ones are dead, the pipe is empty for good, and the entries below `idx` have their
   codes. `ReportIsComplete` is the case `pc = "returned"` of it.

The two parts of `NothingIsUndone` follow from these layers: `NeverRestarted` from `ListInv`, as a process is
started only from `_queued`, and `ResultIsFinal` from `DataInv`, as the pipe holds no datum that the
results already have. `QueueIsAWindow` maps each step: starting a process is `Launch`, which needs
`WindowInv` for a free slot; a datum written is `Send`, the end of a process `End`; a datum that cannot be read is `Refuse`; the last iteration of the last loop is `Report`, which
needs `ReportInv` and that every entry is of a host which has jobs (`NoStrangers`); the polling, the lists and the
pipe stutter.

### Execute

For any command line, host lists, `runs_once` and `@parallel` decorations, settings, and every way a
body may end:

| theorem | property |
|---|---|
| `TypeCorrect` | `TypeOK` |
| `RunsOnceIsOnce` | `OnlyOnce` |
| `FailuresStopFab` | `FailFast`, under `NoDuplicates` |
| `StatusTells` | `StatusIsTrue`, under `NoDuplicates` |
| `HostsAreAnswered` | `EveryHostIsAnswered`, under `NoDuplicates` |

`FailFast` is not inductive: it looks at a run that has begun, while what keeps the next one from
beginning is the report that is still to be read. `RunPart` ties each run to its task and to a host the
loop has reached, `ReportPart` says that while the report of the workers is gone through it holds for each host what
became of the worker there (this needs `NoDuplicates`, as two workers of a host share an entry), and `FailPart` that a
failure nothing tolerates is still ahead in that report, or has ended the program. `CountPart` and
`StatusPart` do the same for the exit status: hosts behind the loop have had their run. `OncePart` ties
the results remembered by the `runs_once` wrapper to the runs that returned.

### Connect

For any host strings, any gateway, any number of attempts, and whatever servers and the user do:

| theorem | property |
|---|---|
| `TypeCorrect` | `TypeOK` |
| `ChannelsAreClosed` | `NoLooseChannel` |
| `CacheTellsTheTruth` | `CacheIsTruthful`, under `Idempotent` |
| `AskedOnce` | `PromptedOnce`, under `Idempotent` |

`Basics` (who may be on the stack in which step, and which of them holds a channel) is inductive without the
hypothesis. `Calls` then says that a call stores what it dials under the normalized name of its host and goes through the
gateway unless it is the gateway's own; `Asked`, that a right password, once typed, is the one remembered,
and that a running call has what is remembered (`Held`) but for one behind a gateway that began with the default
(`Stale`). The many handlers of `connect()` are
first reduced to what they do to the stack and the passwords (`GivesUp`, `TriesAgain`, `Asks`, `Opens`).

### Settings

For any keys, values, groups, aliases and with statements, nested to any depth, and any assignments and
deletions in their bodies:

| theorem | property |
|---|---|
| `TypeCorrect` | `TypeOK` |
| `EnvironmentComesBack` | `EnvIsRestored`, the part of `BlocksLeaveNoTrace` about `env` |
| `BlocksGiveBack` | `BlocksLeaveNoTrace`, under `NoGroupTwice` |
| `OpenBlocksNest` | `BlocksNest`, under `OneCd` |

That the last block gives back the first value is a fact about the whole chain of open blocks. `EnvPart`
states it link by link (`Linked`): what a block gives back for a key (`Saves`) is what the next block below it that sets the
key has set, or the value from outside (`Below`). Only the links matter that have no block below them which gives
the key back for certain (`Exposed`), as that one mends whatever bodies did above it. A block that is entered or
left changes one link. `OutputPart` is simpler, as only the outermost block that has a group matters. For `BlocksNest`,
`NestedPart` says that the block which stands at place *i* gives back `Nested(k, frames)[i - 1]`, what the
blocks below it say; `CallPart`, that a `cd()` still has the directory that `env.cwd` had when it was
called. `Nested` is a recursive function; `NestedValues` proves from the least natural number (`LeastNatural`)
that it is defined and has values of the right sort, `NestedSame` that it does not depend on the blocks above.
That expanding aliases ends in groups is an assumption on the aliases (`BlockAssumption`).

### CommandIO

For any passwords, any calls of `run()` and `sudo()`, any number of writes and of refused passwords, and
every interleaving of the three threads, the user, the command and the server:

| theorem | property |
|---|---|
| `TypeCorrect` | `TypeOK` |
| `CaptureIsComplete` | `ReturnIsComplete` |
| `PasswordsAreAskedFor` | `OneAnswerPerPrompt` |

Both properties compare the end with all that was written, so the invariant follows every mark of a stream
from the command to the capture (`StreamPart`). `Follows` places what is under way in the stream: the fragments
that are still to be handled, the bytes that do not decode yet and those on the wire come one after the other and end
where the stream ends. What comes before is handled, and `Caught` and `Answered` say what became of it: up to a
first notice the capture is `Visible`, no prompt is in it, and one password was sent for each prompt at most, one
less while the user is typing. A read moves the places (`ReadOn`), which needs that `Fragments` neither loses nor
exchanges a mark (`FragmentsFollow`, by induction over the text); a fragment moves the first of them (`FragmentHandled`).
That the loop finds a prompt or a notice at the end of the capture only when it has just come rests on the order in which
sudo writes them: `Grammar` says that sudo ends the line of a prompt, and gives notice of a wrong password before the
next one. So a second prompt is never met without `reprompt`, and the cached password is sent once.
`Splits` and `Visible` are recursive functions; `StepByStep` shows that there is such a function, and
`SetInduction`, which rests on the least natural number (`LeastNatural`), what its values are.

### SftpTransfer

For any files, directories, options, and whatever becomes of each step:

| theorem | property |
|---|---|
| `TypeCorrect` | `TypeOK` |
| `TheReportIsTrue` | `ReportIsTrue` |
| `TheRemoteIsClean` | `RemoteIsClean` |

`GoodPart` follows a file through its steps, from the temporary copy to the destination, `ListedPart` and
`BehindPart` say that each argument behind the loop is listed or failed and that no file is listed before its turn, and
`TempPart` which steps excuse a temporary file that stays. `ErrorPart` is what lets the finally
clauses be told from the ways to them without an exception.

### RemoteTunnel

For any set of connections and any number of bytes, and every interleaving of the four kinds of threads:

| theorem | property |
|---|---|
| `TypeCorrect` | `TypeOK` |
| `DataForwarded` | `DataIsForwarded`, under `~ShortSends` |
| `NothingLeftBehind` | `LeftClean` |

`ListPart` and `AcceptPart` bound how far the three lists are out of step while the callback is
between two of its appends; `Closings` says who may have closed what, which is what makes the main thread's two
closes safe beside the forwarder's. `Streams` accounts for the bytes: what an end got is what was read
from the other but for what the thread holds (`Kept`), unless that end is cut off; when the thread has left its
loop the end that made it do so writes no more (`Through`). `CleanedUp` follows the main thread along the list.

### RemoteFiles

For any tasks, files and options, and any number of stops:

| theorem | property |
|---|---|
| `TypeCorrect` | `TypeOK` |
| `NothingIsLeft` | `TarsAreRemoved` |
| `NothingIsOverwritten` | `BackupIsPrevious` |
| `RepeatingIsSafe` | `EndsAsUndisturbed` |

The invariant says which command a folder or an archive is waiting for (`FolderPart`, `ArchivePart`), and that
`upload_template()` has saved what it is about to write over (`BackupPart`).

`RepeatingIsSafe` is about the tasks that are `Repeatable`, outside `env.warn_only`, each kind with a part of
`FInv` of its own. A task that writes the file anew is, from then on and till it is stopped, where the
undisturbed task is (`AnewPart`). One that only appends may be behind what it did before it was stopped: there
is a place, so many calls and so many texts of the next, at which the undisturbed task had just this file, and
the task is not beyond it (`AppendPart`); all texts before that place are in the file (`PlaceHas`), so `exists()`
and `contains()` pass over them, and the first that is missing is the one of the place. That ends where a look
was wrong (`Undeceived`); what is left then is `ExtendPart`: the file still begins with the original, has grown only by
texts of the task, and has all those the task has passed. A second `sed` finds nothing
to do (`SedPart`, `EditedTwice`). The proof found that a comment with an anchor cannot be repeated when its
pattern is the comment mark itself: every repetition adds one more; `OneComment` leaves it out. That `Undisturbed` and
`WithTexts`, which recursion defines, are what their definitions say is shown by `OneMore` and `SetInduction`
(`CallByCall`, `TextByText`).

### Only model-checked

* Liveness (`ImplementsFairWindow` beyond its steps, `FabEnds`, `OpEnds`, `CommandEnds`, `BlockEnds`): TLAPS does not
  reason about fairness and `ENABLED`.
* `StartUp`: it computes on trees with `RECURSIVE` operators, which the prover does not take.
* `HostLists`: `OneLevelCounts` is about what one computation returns that goes over lists with `FoldLeft`, of
  which nothing can be proved without induction over data.

## What is left out

* `Execute`: nested calls of `execute()` (a task body is one step), the printing of results.
* `Connect`: `ProxyCommand`, keys and agents (a server that takes `None` stands for both), the
  splitting of host strings. Times are not modelled: a timeout is one of the transient failures.
* `Settings`: assignments of a body to `env.cwd`, `env.command_prefixes` and `output`;
  `char_buffered()`; a manager whose entering fails, since on Python 3 the managers entered before
  it in the same `settings()` are then left by the garbage collector.
* `CommandIO`: what is printed, `capture_buffer_size`, `open_shell()`, `remote_interrupt`, agent
  forwarding, `local()`, and the wrapping of the command line. `chan.sendall()` is one step and the
  channel takes it. What `try_again()` keeps of the capture is one mark.
* `SftpTransfer`: the computation of paths, globs, file objects, directories within directories, and
  the checks before the first file. That two temporary files never have one name is the promise of
  `uuid4`.
* `HostLists`: roles given as functions or dictionaries, and lists given as one string.
* `RemoteTunnel`: what the program does after the block, and two tunnels on one transport, of which
  paramiko keeps the last handler only.
* `StartUp`: searching for a fabfile, option parsing, the settings file, the layout of listings and the
  order of their names, `__all__`, and values that are no tasks, functions or modules. A fabfile may
  change `sys.path` by one entry at either end.
* `RemoteFiles`: modes, the rendering of templates, `first()`, `is_link()`, `rsync_project()`, `confirm()`
  and the django helpers. The local folder of `upload_project()` is a count.
* `colors`, `docs`, `version`, `api`: formatting and re-exports, without state.

## Plan

Done: the job queue and what it promises, the error policy around it, connections, settings, host
lists, remote commands, file transfers, tunnels, the way from the fabfile to the commands, and the
editing of remote files, in the order of how much of a run depends on them. What is not modelled is
listed above and is formatting, input and output without state, or one call of a library.

To prove next: `OneLevelCounts` of `HostLists`, with its folds written as recursive functions. The lemmas
`LeastNatural` and `SetInduction` are what it needs: induction over a set of natural numbers, for functions
that are defined by recursion.
