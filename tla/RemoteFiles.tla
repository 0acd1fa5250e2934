------------------------------ MODULE RemoteFiles ------------------------------
(***************************************************************************)
(* fabric.contrib: the functions that edit a file of the remote host or    *)
(* upload a project, called one after the other by a task. Each is made of *)
(* several remote commands, the task may stop at any of them, because the  *)
(* command fails or the connection is lost before or after it did its      *)
(* work, and the user then calls the same task again.                      *)
(*                                                                         *)
(* A line is a sequence of tokens, of which "#" is one; a text is a        *)
(* sequence of lines; a file is a text and whether its last line is ended. *)
(***************************************************************************)
EXTENDS Integers, Sequences, SequencesExt

CONSTANTS
  Scripts,   \* what tasks call: sequences of operations
  Originals, \* what the file may be before, None when there is none
  MaxStops,  \* bound: how often the task stops
  None

Line == Seq(STRING)
File == [lines : Seq(Line), ended : BOOLEAN]
Blank == <<<<>>>> \* the text of one empty line

\* The calls of fabric.contrib, each with the arguments that matter.
Operations ==
  [name : {"append"}, texts : Seq(Seq(Line))]
    \cup [name : {"template"}, text : File]
    \cup [name : {"comment"}, token : STRING, anchored : BOOLEAN]
    \cup [name : {"uncomment"}, token : STRING]
    \cup [name : {"project"}]

ASSUME RemoteFilesAssumption == MaxStops \in Nat
ASSUME ScriptAssumption == \A s \in Scripts : s \in Seq(Operations) /\ s # <<>>
ASSUME OriginalAssumption == Originals \subseteq File \cup {None} /\ None \notin File

VARIABLES
  script,   \* the calls of the task
  how,      \* use_sudo of its calls, env.warn_only, and whether only root may look
            \*   into the directory of the file (then use_sudo is needed)
  original, \* history: the file before the first of them
  file,     \* the file
  bak,      \* the file of the same name with .bak
  call,     \* the number of the call under way
  at,       \* the next of its texts, for append()
  pc,       \* the next command
  stops,    \* how often the task has stopped
  tmp,      \* the local folders of upload_project() that are there
  tar,      \* whether its remote archive is there, or a part of it
  failing,  \* whether an exception is on its way through its finally clauses
  excuses,  \* history: which steps of its cleaning up were not carried out
  misled    \* history: whether append() has taken a text to be missing that was there, and
            \*   the last upload_template() its file

task == <<script, how, original>>
place == <<task, call>>
project == <<tmp, tar, failing, excuses>>
vars == <<place, file, bak, at, pc, stops, project, misled>>

Op == script[call]

-----------------------------------------------------------------------------
(* What the commands do to a file.                                         *)

Text(lines) == [lines |-> lines, ended |-> TRUE]

\* egrep takes every line of a pattern for a pattern of its own: the first has
\* the ^ then and the last the $.
Matches(text, line) ==
  IF Len(text) = 1 THEN line = text[1]
  ELSE IsPrefix(text[1], line) \/ IsSuffix(Last(text), line)

\* A slip: only the end of the file is looked at.
AtTheEnd(f, text) == f # None /\ text # Blank /\ f.lines # <<>> /\ Matches(text, Last(f.lines))

\* What append() looks for with exists() and contains(); an empty line never is there.
Present(f, text) ==
  f # None /\ text # Blank /\ \E i \in DOMAIN f.lines : Matches(text, f.lines[i])

\* echo >>: the first line goes on where an unended last line stops.
Appended(f, text) ==
  IF f = None THEN Text(text)
  ELSE IF f.ended \/ f.lines = <<>> THEN Text(f.lines \o text)
  ELSE Text(Front(f.lines) \o <<Last(f.lines) \o text[1]>> \o Tail(text))

\* comment(): s/(token)/#\1/g, which an anchor keeps to lines that begin with it.
Commented(line, token, anchored) ==
  IF anchored THEN IF IsPrefix(<<token>>, line) THEN <<"#">> \o line ELSE line
  ELSE FlattenSeq([i \in DOMAIN line |-> IF line[i] = token THEN <<"#", token>> ELSE <<line[i]>>])

\* uncomment(): one mark in front of the lines that have the token.
Uncommented(line, token) ==
  IF IsPrefix(<<"#">>, line) /\ Contains(line, token) THEN Tail(line) ELSE line

Edited(f, op) ==
  [f EXCEPT !.lines = [i \in DOMAIN @ |->
     IF op.name = "comment" THEN Commented(@[i], op.token, op.anchored)
     ELSE Uncommented(@[i], op.token)]]

-----------------------------------------------------------------------------

Init ==
  /\ script \in Scripts
  /\ original \in Originals
  /\ how \in {h \in [sudo : BOOLEAN, warnOnly : BOOLEAN, hidden : BOOLEAN] : h.hidden => h.sudo}
  /\ file = original /\ bak = None
  /\ call = 1 /\ at = 1 /\ pc = "call" /\ stops = 0
  /\ tmp = 0 /\ tar = FALSE /\ failing = FALSE /\ excuses = {} /\ misled = {}

Call ==
  /\ pc = "call" /\ call <= Len(script)
  /\ pc' = CASE Op.name = "append" -> "look"
             [] Op.name = "template" -> "save"
             [] Op.name \in {"comment", "uncomment"} -> "sed"
             [] OTHER -> "pack"
  /\ at' = 1
  /\ tmp' = IF Op.name = "project" THEN tmp + 1 ELSE tmp
  /\ UNCHANGED <<task, call, file, bak, stops, tar, failing, excuses>>

\* The call returns, and the task goes on to the next one.
Returned == pc' = "call" /\ call' = call + 1 /\ UNCHANGED task

Goes(next) == pc' = next /\ UNCHANGED place

\* A slip: the archive is removed only when it could be unpacked.
HandlerOutside ==
  IF pc \in {"pack", "send", "untar", "remove"} THEN "clean" ELSE "stopped"

\* Where an exception goes to: the finally clauses of upload_project(), if any.
Handler ==
  CASE pc \in {"pack", "send", "remove"} -> "clean"
    [] pc = "untar" -> "remove"
    [] OTHER -> "stopped"

Raises ==
  /\ stops < MaxStops
  /\ stops' = stops + 1
  /\ pc' = Handler
  /\ failing' = (Handler # "stopped")
  /\ excuses' = CASE pc = "send" -> excuses \cup {"put"}
                  [] pc \in {"remove", "clean"} -> excuses \cup {pc}
                  [] OTHER -> excuses
  /\ UNCHANGED <<place, tmp>>

\* A command is not carried out, and the call raises.
Stops ==
  /\ pc \notin {"call", "stopped"}
  /\ Raises
  /\ UNCHANGED <<file, bak, at, tar>>

\* A command changes the file; what the main thread learns of it is then, or an
\* exception, when the connection is lost before the answer is here.
Changes(newFile, newBak, then) ==
  /\ file' = newFile /\ bak' = newBak
  /\ \/ then /\ UNCHANGED <<stops, project>>
     \/ Raises /\ UNCHANGED <<at, tar>>

\* Under env.warn_only a failing command is as good as one that did its work.
Ignored(then) == how.warnOnly /\ then /\ UNCHANGED <<file, bak, stops, project>>

\* exists() and contains() ask under warn_only: a command of theirs that fails or is
\* cut off by a lost connection answers no, and the task goes on.
Answers(there) == IF there THEN BOOLEAN ELSE {FALSE}

Look ==
  /\ pc = "look" /\ at <= Len(Op.texts)
  /\ LET there == Present(file, Op.texts[at]) IN
     \E answer \in Answers(there) :
       /\ IF answer THEN Goes("look") /\ at' = at + 1 ELSE Goes("echo") /\ at' = at
       /\ misled' = IF there /\ ~ answer THEN misled \cup {"append"} ELSE misled
  /\ UNCHANGED <<file, bak, stops, project>>

AllAppended ==
  /\ pc = "look" /\ at > Len(Op.texts)
  /\ Returned
  /\ UNCHANGED <<file, bak, at, stops, project>>

\* A slip: the text after the one that was appended is passed over.
NextTextButOne == Goes("look") /\ at' = at + 2

NextText == Goes("look") /\ at' = at + 1

Echo ==
  /\ pc = "echo"
  /\ Changes(Appended(file, Op.texts[at]), bak, NextText) \/ Ignored(NextText)

\* A slip: a file that was saved before is not saved again.
SeenOnce == file # None /\ ~ how.hidden /\ bak = None

\* exists(destination), which is not told of use_sudo.
Seen == file # None /\ ~ how.hidden

Save ==
  /\ pc = "save"
  /\ \E answer \in Answers(Seen) :
       /\ Goes(IF answer THEN "copy" ELSE "put")
       /\ misled' = IF Seen /\ ~ answer THEN misled \cup {"template"} ELSE misled \ {"template"}
  /\ UNCHANGED <<file, bak, at, stops, project>>

Copy ==
  /\ pc = "copy"
  /\ LET then == Goes("put") /\ at' = at
     IN  Changes(file, file, then) \/ Ignored(then)

\* What a broken upload leaves: put() writes to the file itself; with use_sudo it
\* moves a temporary file over it, which may be a copy.
Parts(text) ==
  {Text(SubSeq(text.lines, 1, n)) : n \in 0..(Len(text.lines) - 1)}
    \cup (IF how.sudo THEN {file} ELSE {})

Put ==
  /\ pc = "put"
  /\ \/ Changes(Op.text, bak, Returned /\ at' = at)
     \/ \E f \in Parts(Op.text) :
          /\ file' = f
          /\ \/ Raises
             \/ how.warnOnly /\ Returned /\ UNCHANGED <<stops, project>>
          /\ UNCHANGED <<bak, at, tar>>

\* sed -i.bak fails when there is no file, and the user may repeat the task in vain.
SedFails ==
  /\ pc = "sed" /\ file = None /\ ~ how.warnOnly
  /\ Goes("stopped")
  /\ UNCHANGED <<file, bak, at, stops, project>>

Sed ==
  /\ pc = "sed"
  /\ \/ file # None /\ Changes(Edited(file, Op), file, Returned /\ at' = at)
     \/ Ignored(Returned /\ at' = at)

-----------------------------------------------------------------------------
(* upload_project(), after mkdtemp().                                      *)

Pack ==
  /\ pc = "pack"
  /\ Goes("send")
  /\ UNCHANGED <<file, bak, at, stops, project>>

\* put(): the archive may be there in part when it raises.
Send ==
  /\ pc = "send"
  /\ tar' = TRUE
  /\ \/ Goes("untar") /\ UNCHANGED <<stops, tmp, failing, excuses>>
     \/ Raises
  /\ UNCHANGED <<file, bak, at>>

Untar ==
  /\ pc = "untar"
  /\ Goes("remove")
  /\ UNCHANGED <<file, bak, at, stops, project>>

RemoveArchive ==
  /\ pc = "remove"
  /\ tar' = FALSE
  /\ \/ Goes("clean") /\ UNCHANGED <<stops, tmp, failing, excuses>>
     \/ Raises
  /\ UNCHANGED <<file, bak, at>>

\* The last finally clause; then the exception goes on its way.
Clean ==
  /\ pc = "clean"
  /\ tmp' = tmp - 1
  /\ IF failing THEN Goes("stopped") ELSE Returned
  /\ failing' = FALSE
  /\ UNCHANGED <<file, bak, at, stops, tar, excuses>>

\* The user calls the task again.
Again ==
  /\ pc = "stopped"
  /\ pc' = "call" /\ call' = 1
  /\ UNCHANGED <<task, file, bak, at, stops, project>>

Finished == pc = "call" /\ call > Len(script)

Next ==
  \/ Look \/ Save
  \/ /\ \/ Call \/ Stops \/ Again
        \/ AllAppended \/ Echo \/ Copy \/ Put \/ Sed \/ SedFails
        \/ Pack \/ Send \/ Untar \/ RemoveArchive \/ Clean
     /\ UNCHANGED misled
  \/ Finished /\ UNCHANGED vars

Spec == Init /\ [][Next]_vars

-----------------------------------------------------------------------------

\* What a call makes of a file when nothing gets in its way, and all calls of a task
\* one after the other; append() takes its texts in turn.
WithText(f, text) == IF Present(f, text) THEN f ELSE Appended(f, text)
WithTexts(f, texts) ==
  LET upTo[n \in 0..Len(texts)] == IF n = 0 THEN f ELSE WithText(upTo[n - 1], texts[n])
  IN  upTo

Result(f, op) ==
  CASE op.name = "append" -> WithTexts(f, op.texts)[Len(op.texts)]
    [] op.name = "template" -> op.text
    [] op.name \in {"comment", "uncomment"} -> Edited(f, op)
    [] OTHER -> f

Undisturbed ==
  LET upTo[n \in 0..Len(script)] == IF n = 0 THEN original ELSE Result(upTo[n - 1], script[n])
  IN  upTo

\* Tasks that may be repeated: they begin by writing the file anew; or only append
\* lines that are not empty, each a text of its own, to a file that ends with its
\* last line; or only comment with an anchored pattern, other than that of a comment;
\* or only take off a comment from lines that have no other.
WritesAnew == script[1].name = "template"
OnlyAppends ==
  /\ original = None \/ original.ended
  /\ \A i \in DOMAIN script :
       script[i].name = "append" /\ \A j \in DOMAIN script[i].texts :
         Len(script[i].texts[j]) = 1 /\ script[i].texts[j] # Blank
OneComment ==
  Len(script) = 1 /\ script[1].name = "comment" /\ script[1].anchored /\ script[1].token # "#"
OneUncomment ==
  /\ Len(script) = 1 /\ script[1].name = "uncomment"
  /\ original # None => \A n \in DOMAIN original.lines : LET line == original.lines[n] IN
       \A i, j \in DOMAIN line : line[i] = "#" /\ line[j] = "#" => i = j
Repeatable == WritesAnew \/ OnlyAppends \/ OneComment \/ OneUncomment

\* The lines that append() is called with, each a text of its own, and a file that has
\* them all behind what was in it before, and no others.
Wanted == UNION {{text[1] : text \in ToSet(op.texts)} : op \in ToSet(script)}
LinesOf(f) == IF f = None THEN <<>> ELSE f.lines
Extended ==
  /\ IsPrefix(LinesOf(original), LinesOf(file))
  /\ Wanted \subseteq ToSet(LinesOf(file))
  /\ ToSet(LinesOf(file)) \subseteq ToSet(LinesOf(original)) \cup Wanted

\* The call under way is one of the task's and its text one of the call's; at most
\* one folder and one archive belong to it.
TypeOK ==
  /\ call \in 1..(Len(script) + 1)
  /\ pc \in {"look", "echo"} => at \in 1..(Len(Op.texts) + 1)
  /\ stops \in 0..MaxStops
  /\ tmp \in 0..(stops + 1)
  /\ tar \in BOOLEAN /\ failing \in BOOLEAN
  /\ excuses \subseteq {"put", "remove", "clean"}
  /\ misled \subseteq {"append", "template"}

\* A task that was stopped, at whatever command and however often, and called again
\* until it got through leaves the file that it would have left undisturbed, unless a
\* command with which append() looked for a text failed or was cut off: then the text
\* is there twice. Even so a task that only appends has lost no line of the file and
\* missed none of its texts, and has written nothing else.
EndsAsUndisturbed ==
  Finished /\ Repeatable /\ ~ how.warnOnly =>
    /\ "append" \notin misled => file = Undisturbed[Len(script)]
    /\ OnlyAppends => Extended

\* upload_template() and sed() never write over a file without its content being in
\* the backup, unless the command with which upload_template() looked for the file
\* failed or was cut off. (They do, too, when env.warn_only lets them go on without it,
\* or when the file is only seen by root.)
BackupIsPrevious ==
  [][(/\ pc \in {"put", "sed"} /\ file # None /\ file' # file
      /\ ~ how.warnOnly /\ ~ how.hidden /\ (pc = "put" => "template" \notin misled))
        => bak' = file]_vars

\* upload_project() leaves neither its folder nor its archive, wherever it was
\* stopped, unless the upload itself failed or the removal did.
TarsAreRemoved ==
  pc = "stopped" \/ Finished =>
    /\ tmp > 0 => "clean" \in excuses
    /\ tar => excuses \cap {"put", "remove"} # {}

=============================================================================
