------------------------------ MODULE CommandIO ------------------------------
(***************************************************************************)
(* One remote command: operations._execute under run() or sudo(), the two  *)
(* output threads of io.OutputLooper, which capture what the command       *)
(* writes and answer its prompts, the input thread that forwards the       *)
(* keyboard, and ThreadHandler, which carries their exceptions to the main *)
(* thread. Environment of the module: the command, sudo in front of it,    *)
(* the network and the user. Output is a sequence of marks: a character of *)
(* two bytes, "lead" and "trail", a newline "nl", sudo's "prompt", its     *)
(* "again" notice, and a "question" that env.prompts may know.             *)
(***************************************************************************)
EXTENDS Integers, SequencesExt

CONSTANTS
  Password,   \* passwords
  Right,      \* those sudo takes
  Typed,      \* those the user may type
  Options,    \* the ways to call it
  MaxWrites,  \* bound: how often the command writes or asks
  MaxTries,   \* bound: the passwords sudo takes before it gives up
  None

ASSUME PasswordAssumption == Right \subseteq Password /\ Typed \subseteq Password
ASSUME OptionsAssumption ==
  Options \subseteq [sudo : BOOLEAN, tty : BOOLEAN, timeout : BOOLEAN, prompts : BOOLEAN,
                    cached : Password \cup {None}, keys : Nat]

Stream == {"out", "err"}
Mark == {"lead", "trail", "nl", "prompt", "again", "question"}

ASSUME NoneAssumption == None \notin {-1, 0, 1} \cup Seq(Mark)

\* `workers`, in the order they are joined.
Workers == <<"out", "err", "in">>

VARIABLES
  options,   \* how it is called: with sudo, on a terminal (or else with stdout and
             \* stderr apart), whether timeout and env.prompts are set, the cached
             \* password, the keys the user will press
  (* The main thread and the workers. *)
  pc,        \* where the main thread is
  joined,    \* how many workers it has joined
  thread,    \* where each worker is
  buf,       \* stdout_buf and stderr_buf of _execute
  own,       \* the list self.capture was rebound to, or None while it is buf
  raw,       \* py3_buffer: bytes that cannot be decoded yet
  todo,      \* the fragments of read_lines still to be handled
  reprompt,  \* self.reprompt
  enabled,   \* channel.input_enabled
  password,  \* what get_password() gives
  (* The other end and the channel. *)
  phase,     \* sudo asks for a password, or the command runs
  waiting,   \* it reads a line
  tries,     \* wrong passwords so far
  writes,    \* how often the command wrote
  wire,      \* output on its way, by stream
  inbox,     \* lines on their way to the command
  status,    \* the exit status, once it is known here
  flow,      \* for each stream: "some" output may come, it is "endless", or it has "ended"
  closed,    \* the channel is closed
  keys,      \* the keys the user has still to press
  (* History. *)
  written,   \* all output, by stream
  sent,      \* passwords sent
  asked      \* passwords typed

local == <<pc, joined, thread, buf, own, raw, todo, reprompt, enabled, password>>
remote == <<phase, waiting, tries, writes, wire, inbox, status, flow, closed>>
history == <<written, sent, asked>>
vars == <<options, local, remote, keys, history>>

-----------------------------------------------------------------------------
(* The environment.                                                        *)

\* sudo asks on the terminal, or with -S on stderr.
SudoStream == IF options.tty THEN "out" ELSE "err"

Puts(s, marks) ==
  /\ flow[s] = "some"
  /\ wire' = [wire EXCEPT ![s] = @ \o marks]
  /\ written' = [written EXCEPT ![s] = @ \o marks]

Running == status = None

SudoAsks ==
  /\ Running /\ phase = "sudo" /\ ~waiting
  /\ Puts(SudoStream, <<"prompt">>)
  /\ waiting' = TRUE
  /\ UNCHANGED <<options, local, keys, phase, tries, writes, inbox, status, flow, closed, sent, asked>>

\* It ends the line of the prompt itself, as what was typed is not echoed.
SudoReads ==
  /\ Running /\ phase = "sudo" /\ waiting /\ inbox # <<>>
  /\ inbox' = Tail(inbox)
  /\ waiting' = FALSE
  /\ \/ /\ Head(inbox) \in Right
        /\ phase' = "command"
        /\ Puts(SudoStream, <<"nl">>)
        /\ UNCHANGED <<tries, status>>
     \/ /\ Head(inbox) \notin Right
        /\ tries' = tries + 1
        /\ Puts(SudoStream, IF tries' < MaxTries THEN <<"nl", "again", "nl">> ELSE <<"nl">>)
        /\ status' = IF tries' < MaxTries THEN status ELSE 1
        /\ UNCHANGED phase
  /\ UNCHANGED <<options, local, keys, writes, flow, closed, sent, asked>>

\* The command, or a child it left behind, writes; "lead" alone is garbage.
Writes(s, marks) ==
  /\ ~closed /\ phase = "command" /\ ~waiting
  /\ writes < MaxWrites
  /\ options.tty => s = "out"
  /\ writes' = writes + 1
  /\ Puts(s, marks)
  /\ UNCHANGED <<options, local, keys, phase, waiting, tries, inbox, status, flow, closed, sent, asked>>

\* From now on it writes to this stream without a pause, which matters where there
\* is a timeout. What it writes is not followed.
NeverPauses(s) ==
  /\ options.timeout
  /\ phase = "command" /\ ~waiting
  /\ flow[s] = "some"
  /\ options.tty => s = "out"
  /\ flow' = [flow EXCEPT ![s] = "endless"]
  /\ UNCHANGED <<options, local, keys, phase, waiting, tries, writes, wire, inbox, status, closed, history>>

Asks ==
  /\ Running /\ phase = "command" /\ ~waiting
  /\ writes < MaxWrites
  /\ writes' = writes + 1
  /\ Puts("out", <<"question">>)
  /\ waiting' = TRUE
  /\ UNCHANGED <<options, local, keys, phase, tries, inbox, status, flow, closed, sent, asked>>

Reads ==
  /\ Running /\ phase = "command" /\ waiting /\ inbox # <<>>
  /\ inbox' = Tail(inbox)
  /\ waiting' = FALSE
  /\ UNCHANGED <<options, local, keys, phase, tries, writes, wire, status, flow, closed, history>>

Exits(code) ==
  /\ Running /\ phase = "command"
  /\ status' = code
  /\ waiting' = FALSE
  /\ UNCHANGED <<options, local, keys, phase, tries, writes, wire, inbox, flow, closed, history>>

\* The server says that no more output comes, of either stream: when nobody has
\* them open any more, which may be before the command exits or long after.
EndsOutput ==
  /\ phase = "command" \/ ~Running
  /\ \E s \in Stream : flow[s] # "ended"
  /\ flow' = [s \in Stream |-> "ended"]
  /\ UNCHANGED <<options, local, keys, phase, waiting, tries, writes, wire, inbox, status, closed, history>>

\* The server closes the channel after the exit status, or the connection dies.
Closes ==
  /\ ~closed
  /\ closed' = TRUE
  /\ flow' = [s \in Stream |-> "ended"]
  /\ status' = IF Running THEN -1 ELSE status
  /\ UNCHANGED <<options, local, keys, phase, waiting, tries, writes, wire, inbox, history>>

Remote ==
  \/ SudoAsks \/ SudoReads \/ Asks \/ Reads \/ EndsOutput \/ Closes
  \/ \E s \in Stream : NeverPauses(s)
  \/ \E code \in {0, 1} : Exits(code)
  \/ \E s \in Stream, marks \in {<<"lead", "trail">>, <<"nl">>, <<"lead">>} : Writes(s, marks)

-----------------------------------------------------------------------------
(* OutputLooper.                                                           *)

Goes(w, place) == thread' = [thread EXCEPT ![w] = place]

\* chan.sendall(), which raises on a closed channel; place is where w goes on.
Sends(w, line, place) ==
  IF closed THEN Goes(w, "failed") /\ UNCHANGED inbox
  ELSE Goes(w, place) /\ inbox' = Append(inbox, line)

Captured(s) == IF own[s] = None THEN buf[s] ELSE own[s]

\* self.capture is changed in place.
Capture(s, marks) ==
  IF own[s] = None
  THEN buf' = [buf EXCEPT ![s] = marks] /\ UNCHANGED own
  ELSE own' = [own EXCEPT ![s] = marks] /\ UNCHANGED buf

Decodable(bytes) ==
  \A i \in DOMAIN bytes :
    /\ bytes[i] = "lead" => i < Len(bytes) /\ bytes[i + 1] = "trail"
    /\ bytes[i] = "trail" => i > 1 /\ bytes[i - 1] = "lead"

\* py3_buffer after a failed decode; a slip: it starts anew.
StartOver(bytes) == <<>>
Undecoded(bytes) == bytes

\* re.split with a group: a newline is a fragment of its own, and there is one
\* before and after it, even if it is empty.
Split(parts, mark) ==
  IF mark = "nl" THEN parts \o <<<<mark>>, <<>>>>
  ELSE [parts EXCEPT ![Len(parts)] = Append(@, mark)]
Splits(text) ==
  LET upTo[n \in 0..Len(text)] == IF n = 0 THEN <<<<>>>> ELSE Split(upTo[n - 1], text[n])
  IN  upTo
Fragments(text) == Splits(text)[Len(text)]

\* recv() gives some of the bytes that are there.
Read(s) ==
  /\ thread[s] = "read"
  /\ \E n \in 1..Len(wire[s]) :
       LET bytes == raw[s] \o SubSeq(wire[s], 1, n) IN
       /\ wire' = [wire EXCEPT ![s] = SubSeq(@, n + 1, Len(@))]
       /\ \/ /\ Decodable(bytes)
             /\ raw' = [raw EXCEPT ![s] = <<>>]
             /\ todo' = [todo EXCEPT ![s] = Fragments(bytes)]
             /\ Goes(s, "fragments")
          \/ /\ ~Decodable(bytes)
             /\ raw' = [raw EXCEPT ![s] = Undecoded(bytes)]
             /\ UNCHANGED <<todo, thread>>
  /\ UNCHANGED <<options, pc, joined, buf, own, reprompt, enabled, password, phase, waiting, tries,
                 writes, inbox, status, flow, closed, keys, history>>

\* Nothing came for a while, and more than timeout has passed since the start:
\* CommandTimeout. A stream that is never silent does not get there.
TimeOut(s) ==
  /\ thread[s] = "read" /\ wire[s] = <<>> /\ flow[s] = "some"
  /\ options.timeout
  /\ Goes(s, "failed")
  /\ UNCHANGED <<options, pc, joined, buf, own, raw, todo, reprompt, enabled, password, remote, keys,
                 history>>

\* The end of the stream; with bytes left in py3_buffer it is never seen, and
\* the thread reads on and on. The command may be running still.
EndOfStream(s) ==
  /\ thread[s] = "read" /\ wire[s] = <<>> /\ flow[s] = "ended"
  /\ raw[s] = <<>>
  /\ Goes(s, "done")
  /\ UNCHANGED <<options, pc, joined, buf, own, raw, todo, reprompt, enabled, password, remote, keys,
                 history>>

\* The next fragment is captured, with this in the capture after it.
Handling(s) == thread[s] = "fragments"
Text(s) == Captured(s) \o Head(todo[s])
Onwards(s) == IF Len(todo[s]) = 1 THEN "read" ELSE "fragments"
NextFragment(s) == todo' = [todo EXCEPT ![s] = Tail(@)]

Answerable(s) == options.prompts /\ IsSuffix(<<"question">>, Text(s))
Prompted(s) == ~Answerable(s) /\ IsSuffix(<<"prompt">>, Text(s))
Refused(s) == ~Answerable(s) /\ IsSuffix(<<"again", "nl">>, Text(s))

\* A prompt of env.prompts is answered. It stays in the capture: the del
\* removes it from a copy.
Answer(s) ==
  /\ Handling(s) /\ Answerable(s)
  /\ Capture(s, Text(s))
  /\ Sends(s, "answer", Onwards(s))
  /\ NextFragment(s)
  /\ UNCHANGED <<options, pc, joined, raw, reprompt, enabled, password, phase, waiting, tries, writes,
                 wire, status, flow, closed, keys, history>>

\* prompt() pops the prompt from the capture; a slip: it stays there.
PromptKept(text) == text
WithoutPrompt(text) == Front(text)

\* prompt() with a password from the cache that was not refused.
SendPassword(s) ==
  /\ Handling(s) /\ Prompted(s)
  /\ password # None /\ ~reprompt[s]
  /\ Capture(s, WithoutPrompt(Text(s)))
  /\ Sends(s, password, Onwards(s))
  /\ sent' = IF closed THEN sent ELSE sent + 1
  /\ NextFragment(s)
  /\ UNCHANGED <<options, pc, joined, raw, reprompt, enabled, password, phase, waiting, tries, writes,
                 wire, status, flow, closed, keys, written, asked>>

\* prompt() without one: the keyboard is taken from the command, and unless
\* handle_prompt_abort() aborts, the user is asked. getpass() discards what was
\* typed before, if it reads the same terminal.
AskUser(s) ==
  /\ Handling(s) /\ Prompted(s)
  /\ password = None \/ reprompt[s]
  /\ Capture(s, WithoutPrompt(Text(s)))
  /\ enabled' = FALSE
  /\ \/ Goes(s, "asking") /\ keys' \in {0, keys}
     \/ Goes(s, "failed") /\ keys' = keys
  /\ NextFragment(s)
  /\ UNCHANGED <<options, pc, joined, raw, reprompt, password, remote, history>>

\* After the input of a password; a slip: the keyboard stays with fabric.
KeepKeyboard == enabled' = FALSE
Reenable == enabled' = TRUE

\* The user answers; set_password(). get_password() gives the new one from then
\* on, as env.sudo_password is not set.
UserAnswers(s) ==
  /\ thread[s] = "asking"
  /\ \E p \in Typed : password' = p /\ Sends(s, p, IF todo[s] = <<>> THEN "read" ELSE "fragments")
  /\ Reenable
  /\ reprompt' = [reprompt EXCEPT ![s] = FALSE]
  /\ asked' = asked + 1
  /\ sent' = IF closed THEN sent ELSE sent + 1
  /\ UNCHANGED <<options, pc, joined, buf, own, raw, todo, phase, waiting, tries, writes, wire, status,
                 flow, closed, keys, written>>

\* The user types end of file or an interrupt instead.
UserGivesUp(s) ==
  /\ thread[s] = "asking"
  /\ Goes(s, "failed")
  /\ UNCHANGED <<options, pc, joined, buf, own, raw, todo, reprompt, enabled, password, remote, keys,
                 history>>

\* try_again(): self.capture becomes a new list, of as many characters from the
\* front as the notice has (here one mark). _execute does not know of it.
TryAgain(s) ==
  /\ Handling(s) /\ Refused(s)
  /\ own' = [own EXCEPT ![s] = <<Head(Text(s))>>]
  /\ buf' = IF own[s] = None THEN [buf EXCEPT ![s] = Text(s)] ELSE buf
  /\ reprompt' = [reprompt EXCEPT ![s] = TRUE]
  /\ Goes(s, Onwards(s))
  /\ NextFragment(s)
  /\ UNCHANGED <<options, pc, joined, raw, enabled, password, remote, keys, history>>

CaptureOnly(s) ==
  /\ Handling(s) /\ ~Answerable(s) /\ ~Prompted(s) /\ ~Refused(s)
  /\ Capture(s, Text(s))
  /\ Goes(s, Onwards(s))
  /\ NextFragment(s)
  /\ UNCHANGED <<options, pc, joined, raw, reprompt, enabled, password, remote, keys, history>>

Fragment(s) == Answer(s) \/ SendPassword(s) \/ AskUser(s) \/ TryAgain(s) \/ CaptureOnly(s)

Looper(s) == Read(s) \/ TimeOut(s) \/ EndOfStream(s) \/ Fragment(s)

-----------------------------------------------------------------------------
(* input_loop.                                                             *)

\* A key was pressed, and the keyboard is the command's.
InputCheck ==
  /\ thread["in"] = "check" /\ status = None
  /\ enabled /\ keys > 0
  /\ Goes("in", "key")
  /\ UNCHANGED <<options, pc, joined, buf, own, raw, todo, reprompt, enabled, password, remote, keys,
                 history>>

\* It is read, whatever happened meanwhile.
InputKey ==
  /\ thread["in"] = "key" /\ keys > 0
  /\ keys' = keys - 1
  /\ Goes("in", "send")
  /\ UNCHANGED <<options, pc, joined, buf, own, raw, todo, reprompt, enabled, password, remote, history>>

\* It is gone, and what is read instead is a part of the answer to a prompt.
InputAnswer ==
  /\ thread["in"] = "key" /\ keys = 0
  /\ \E s \in Stream : thread[s] = "asking"
  /\ Goes("in", "send")
  /\ UNCHANGED <<options, pc, joined, buf, own, raw, todo, reprompt, enabled, password, remote, keys,
                 history>>

InputSend ==
  /\ thread["in"] = "send"
  /\ Sends("in", "key", "check")
  /\ UNCHANGED <<options, pc, joined, buf, own, raw, todo, reprompt, enabled, password, phase, waiting,
                 tries, writes, wire, status, flow, closed, keys, history>>

InputEnds ==
  /\ thread["in"] = "check" /\ status # None
  /\ Goes("in", "done")
  /\ UNCHANGED <<options, pc, joined, buf, own, raw, todo, reprompt, enabled, password, remote, keys,
                 history>>

-----------------------------------------------------------------------------
(* The main thread, in _execute and _run_command.                          *)

\* The exception of a worker is kept for raise_if_needed(); a slip: only the
\* input thread's is.
FailedInput(w) == w = "in" /\ thread[w] = "failed"
Failed(w) == thread[w] = "failed"

Poll ==
  /\ pc = "poll"
  /\ pc' = IF status # None THEN "join" ELSE "check"
  /\ UNCHANGED <<options, joined, thread, buf, own, raw, todo, reprompt, enabled, password, remote, keys,
                 history>>

\* raise_if_needed() for each worker.
CheckWorkers ==
  /\ pc = "check"
  /\ pc' = IF \E w \in DOMAIN thread : Failed(w) THEN "raised" ELSE "poll"
  /\ UNCHANGED <<options, joined, thread, buf, own, raw, todo, reprompt, enabled, password, remote, keys,
                 history>>

\* KeyboardInterrupt in sleep(); env.remote_interrupt is None.
Interrupt ==
  /\ pc = "poll"
  /\ pc' = "raised"
  /\ UNCHANGED <<options, joined, thread, buf, own, raw, todo, reprompt, enabled, password, remote, keys,
                 history>>

\* A worker is joined when it has ended.
Ended(w) == thread[w] \in {"done", "failed"}

Join ==
  /\ pc = "join" /\ joined < Len(Workers)
  /\ LET w == Workers[joined + 1] IN
       /\ Ended(w)
       /\ joined' = joined + 1
       /\ pc' = IF Failed(w) THEN "raised" ELSE pc
  /\ UNCHANGED <<options, thread, buf, own, raw, todo, reprompt, enabled, password, remote, keys, history>>

\* The channel is closed; a bad exit status aborts unless env.warn_only is set.
Return ==
  /\ pc = "join" /\ joined = Len(Workers)
  /\ closed' = TRUE
  /\ flow' = [s \in Stream |-> "ended"]
  /\ \/ pc' = "returned"
     \/ status # 0 /\ pc' = "aborted"
  /\ UNCHANGED <<options, joined, thread, buf, own, raw, todo, reprompt, enabled, password, phase, waiting,
                 tries, writes, wire, inbox, status, keys, history>>

Main == Poll \/ CheckWorkers \/ Join \/ Return

\* The program is over for the main thread, whatever the others do.
Stopped == pc \in {"returned", "aborted", "raised"} /\ UNCHANGED vars

\* The input thread waits for a key that was discarded.
Starved == thread["in"] = "key" /\ keys = 0

\* A thread that reads the end of the stream, or the keyboard, for ever, or waits
\* for one that does.
Hanging ==
  /\ Starved \/ \E s \in Stream : thread[s] = "read" /\ raw[s] # <<>> /\ flow[s] = "ended"
  /\ UNCHANGED vars

-----------------------------------------------------------------------------

Init ==
  /\ options \in Options
  /\ password = options.cached
  /\ pc = "poll" /\ joined = 0
  /\ thread = [w \in {"out", "err", "in"} |-> IF w = "in" THEN "check" ELSE "read"]
  /\ buf = [s \in Stream |-> <<>>] /\ own = [s \in Stream |-> None]
  /\ raw = [s \in Stream |-> <<>>] /\ todo = [s \in Stream |-> <<>>]
  /\ reprompt = [s \in Stream |-> FALSE]
  /\ enabled = TRUE
  /\ phase = IF options.sudo THEN "sudo" ELSE "command"
  /\ waiting = FALSE /\ tries = 0 /\ writes = 0
  /\ wire = [s \in Stream |-> <<>>] /\ inbox = <<>>
  /\ status = None /\ flow = [s \in Stream |-> "some"] /\ closed = FALSE /\ keys = options.keys
  /\ written = [s \in Stream |-> <<>>] /\ sent = 0 /\ asked = 0

Next ==
  \/ Remote
  \/ \E s \in Stream : Looper(s) \/ UserAnswers(s) \/ UserGivesUp(s)
  \/ InputCheck \/ InputKey \/ InputAnswer \/ InputSend \/ InputEnds
  \/ Main \/ Interrupt
  \/ Stopped \/ Hanging

Spec == Init /\ [][Next]_vars

\* Every thread is scheduled, and the user answers when asked. Nothing is
\* assumed about the command and the server, and nobody has to press a key.
FairSpec ==
  /\ Spec
  /\ WF_vars(Main)
  /\ \A s \in Stream : WF_vars(Looper(s) \/ UserAnswers(s))
  /\ WF_vars(InputKey \/ InputSend \/ InputEnds)

-----------------------------------------------------------------------------
(* Properties.                                                             *)

Lines == Password \cup {"answer", "key"}

\* The type invariant; the keyboard is taken from the command only by a thread
\* that asks the user or has failed in it.
TypeOK ==
  /\ options \in Options
  /\ pc \in {"poll", "check", "join", "returned", "aborted", "raised"}
  /\ joined \in 0..Len(Workers)
  /\ thread \in [{"out", "err", "in"} ->
                 {"read", "fragments", "asking", "check", "key", "send", "done", "failed"}]
  /\ buf \in [Stream -> Seq(Mark)] /\ own \in [Stream -> Seq(Mark) \cup {None}]
  /\ raw \in [Stream -> Seq(Mark)] /\ wire \in [Stream -> Seq(Mark)]
  /\ todo \in [Stream -> Seq(Seq(Mark))]
  /\ reprompt \in [Stream -> BOOLEAN]
  /\ password \in Password \cup {None}
  /\ inbox \in Seq(Lines)
  /\ status \in {None, 0, 1, -1} /\ flow \in [Stream -> {"some", "endless", "ended"}]
  /\ closed => status # None /\ \A s \in Stream : flow[s] = "ended"
  /\ ~enabled => \E s \in Stream : thread[s] \in {"asking", "failed"}

\* When the command is reported, every thread has ended without an error, and
\* what was captured is what the command wrote, less sudo's prompts, however
\* the output was cut into pieces and characters; but for a stream on which a
\* password was refused, see OutputIsCaptured.
Visible(marks) ==
  LET upTo[n \in 0..Len(marks)] ==
        IF n = 0 THEN <<>>
        ELSE IF marks[n] = "prompt" THEN upTo[n - 1] ELSE Append(upTo[n - 1], marks[n])
  IN  upTo
ReturnIsComplete ==
  pc \in {"returned", "aborted"} =>
    /\ \A w \in DOMAIN thread : thread[w] = "done"
    /\ \A s \in Stream : "again" \notin ToSet(written[s]) => buf[s] = Visible(written[s])[Len(written[s])]

\* sudo gets one password for a prompt, and after a refusal one the user typed.
OneAnswerPerPrompt ==
  /\ sent <= Cardinality({i \in DOMAIN written[SudoStream] : written[SudoStream][i] = "prompt"})
  /\ sent - asked <= 1

\* What the call depends on. The output of the command ends, and then it exits or its
\* connection breaks; or a timeout is set and stdout is silent at times, or stderr is
\* and no exit status has come, after which stdout is joined first. What it writes can
\* be decoded, and the input thread does not read a key that was discarded.
Served ==
  /\ \/ flow["out"] = "ended" /\ status # None
     \/ /\ options.timeout /\ flow["out"] # "ended"
        /\ flow["out"] = "some" \/ (flow["err"] = "some" /\ status = None)
  /\ \A s \in Stream : Decodable(written[s])
  /\ ~Starved

\* The call of a command ends if, from some time on, the command, the server and the
\* keyboard give it what it depends on. Nothing else that they do keeps it from that:
\* neither prompts, nor failures of a thread while the main thread waits for another.
CommandEnds == <>[]Served => <>(pc \in {"returned", "aborted", "raised"})

(* What a test says, and the program does not do.                          *)

\* tests/test_network.py: "Sudo prompts shouldn't screw up output capturing".
Characters(marks) == SelectSeq(marks, LAMBDA mark : mark \in {"lead", "trail"})
OutputIsCaptured ==
  pc = "returned" => \A s \in Stream : Characters(buf[s]) = Characters(written[s])
=============================================================================
