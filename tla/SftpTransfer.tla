---------------------------- MODULE SftpTransfer ----------------------------
(***************************************************************************)
(* operations.put and operations.get with the methods of sftp.SFTP: files  *)
(* and directories are transferred one after the other. With use_sudo each *)
(* file is bounced through a temporary one on the host, and any of the     *)
(* commands on the way may fail, break off halfway, raise, or be           *)
(* interrupted. What a file holds is one of Contents.                      *)
(***************************************************************************)
EXTENDS Integers, SequencesExt

CONSTANTS
  File,     \* files
  Calls,    \* the calls of put() and get()
  ArgLists, \* what they are called for: files, and directories of files
  None

Argument == [dir : BOOLEAN, files : Seq(File)]

ASSUME CallAssumption ==
  Calls \subseteq [op : {"put", "get"}, use_sudo : BOOLEAN, mode : BOOLEAN]
\* No file is named twice.
Distinct(list) ==
  \A i, k \in DOMAIN list : \A p \in DOMAIN list[i].files, q \in DOMAIN list[k].files :
    list[i].files[p] = list[k].files[q] => i = k /\ p = q

ASSUME ArgumentAssumption == \A list \in ArgLists : list \in Seq(Argument) /\ Distinct(list)

\* No file, an earlier one, a part of the new one, all of it, and all of it with
\* the mode asked for (if none is, that is all of it).
Contents == {"none", "old", "part", "raw", "new"}

VARIABLES
  call,       \* put() or get(), use_sudo, and whether put() has a mode to set
  warn_only,  \* env.warn_only
  args,       \* `names`
  pc,         \* where the call is
  at,         \* position in args
  pos,        \* position in the files of the argument
  target,     \* the files at their destination, here or on the host
  temp,       \* the temporary files they go through
  dirs,       \* the arguments that are there as directories on the host
  done,       \* `result` of put_dir and get_dir
  results,    \* remote_paths of put(), local_files of get()
  failed,     \* failed_local_paths, failed_remote_files: arguments
  error,      \* the exception under way: the step it comes from and its kind
  bad,        \* history: the steps that failed, by file
  unlisted    \* history: the arguments that could not be listed

input == <<call, warn_only, args>>
position == <<at, pos, done, results, failed>>
vars == <<input, pc, position, target, temp, dirs, error, bad, unlisted>>

-----------------------------------------------------------------------------
(* How a step ends. A command run by sudo() ends well, or with another exit *)
(* status (which is also what a broken connection gives), or raises; either *)
(* may be after it did its work. KeyboardInterrupt may come at any time.    *)

FtpOutcome == {"ok", "raises", "interrupted"}
SudoOutcome == FtpOutcome \cup {"bad"}
ToolOutcome == IF call.use_sudo THEN SudoOutcome ELSE FtpOutcome

\* The steps, and an exception: the step it comes from and its kind.
SudoSteps == {"cp", "chown", "chmod", "mode", "mv", "rm"}
Steps == SudoSteps \cup {"mkdir", "upload", "download"}
Errors == [step : Steps, how : SudoOutcome \ {"ok"}]

ASSUME NoneAssumption == None \notin Errors

\* error() aborts, with SystemExit or env.abort_exception, or warns.
Raises(o) == o \in {"raises", "interrupted"} \/ (o = "bad" /\ ~warn_only)

Here == args[at]
Current == Here.files[pos]

Note(step, o) ==
  bad' = IF o = "ok" THEN bad ELSE [bad EXCEPT ![Current] = @ \cup {step}]

\* After a step: on to the next one, or the exception goes to the handler.
Ends(step, o, next, handler) ==
  IF Raises(o) THEN pc' = handler /\ error' = [step |-> step, how |-> o]
               ELSE pc' = next /\ UNCHANGED error

\* What a step makes of the current file: if it did not end well it may have
\* done its work or not, and a copy may be cut off.
Makes(o, before, after) == {after} \cup (IF o = "ok" THEN {} ELSE {before})
Copies(o, before, after) == Makes(o, before, after) \cup (IF o = "ok" THEN {} ELSE {"part"})
Becomes(files, contents) == {[files EXCEPT ![Current] = c] : c \in contents}

\* Files of an argument can be put in place only if its directory is there.
InPlace == ~Here.dir \/ at \in dirs

-----------------------------------------------------------------------------
(* The loops over the arguments and over the files of one.                 *)

StartFileArgument ==
  /\ pc = "next" /\ at <= Len(args) /\ ~Here.dir
  /\ pc' = "file"
  /\ UNCHANGED <<input, position, target, temp, dirs, error, bad, unlisted>>

\* put_dir() makes a directory that is not there, with mkdir by sudo() or SFTP.
MakeDirectory ==
  /\ pc = "next" /\ at <= Len(args) /\ Here.dir /\ call.op = "put"
  /\ \/ at \in dirs /\ pc' = "file" /\ UNCHANGED <<dirs, error>>
     \/ /\ at \notin dirs
        /\ \E o \in ToolOutcome :
             /\ dirs' \in IF o = "ok" THEN {dirs \cup {at}} ELSE {dirs, dirs \cup {at}}
             /\ Ends("mkdir", o, "file", "handler")
  /\ UNCHANGED <<input, position, target, temp, bad, unlisted>>

\* walk() lists the directory over SFTP, also with use_sudo; if that fails there
\* is nothing in it.
ListDirectory ==
  /\ pc = "next" /\ at <= Len(args) /\ Here.dir /\ call.op = "get"
  /\ pc' = "file"
  /\ \/ UNCHANGED <<pos, unlisted>>
     \/ pos' = Len(Here.files) + 1 /\ unlisted' = unlisted \cup {at}
  /\ UNCHANGED <<input, at, done, results, failed, target, temp, dirs, error, bad>>

StartFile ==
  /\ pc = "file" /\ pos <= Len(Here.files)
  /\ pc' = IF call.op = "put" THEN "upload" ELSE IF call.use_sudo THEN "cp" ELSE "download"
  /\ UNCHANGED <<input, position, target, temp, dirs, error, bad, unlisted>>

FinishFile ==
  /\ pc = "transferred"
  /\ done' = Append(done, Current)
  /\ pos' = pos + 1
  /\ pc' = "file"
  /\ UNCHANGED <<input, at, results, failed, target, temp, dirs, error, bad, unlisted>>

FinishArgument ==
  /\ pc = "file" /\ pos > Len(Here.files)
  /\ results' = results \o done
  /\ done' = <<>> /\ pos' = 1 /\ at' = at + 1
  /\ pc' = "next"
  /\ UNCHANGED <<input, failed, target, temp, dirs, error, bad, unlisted>>

\* The except clause of put() is in its loop, that of get() around it. error()
\* warns or aborts; SystemExit and KeyboardInterrupt pass.
AfterFailure == IF call.op = "put" THEN "next" ELSE "returned"
HandleError ==
  /\ pc = "handler"
  /\ IF warn_only /\ error.how # "interrupted"
     THEN /\ failed' = Append(failed, at)
          /\ pc' = AfterFailure
          /\ done' = <<>> /\ pos' = 1 /\ at' = at + 1
          /\ error' = None
          /\ UNCHANGED results
     ELSE pc' = "raised" /\ UNCHANGED <<position, error>>
  /\ UNCHANGED <<input, target, temp, dirs, bad, unlisted>>

Return ==
  /\ pc = "next" /\ at > Len(args)
  /\ pc' = "returned"
  /\ UNCHANGED <<input, position, target, temp, dirs, error, bad, unlisted>>

-----------------------------------------------------------------------------
(* SFTP.put.                                                               *)

\* The mode is set before the file is moved.
AfterMode == IF call.use_sudo THEN "mv" ELSE "transferred"
AfterUpload == IF call.mode THEN "mode" ELSE AfterMode

Uploaded == IF call.mode THEN "raw" ELSE "new"

\* putter(): into the temporary file with use_sudo, or else in place.
Upload ==
  /\ pc = "upload"
  /\ \E o \in FtpOutcome :
       /\ \/ /\ call.use_sudo
             /\ temp' \in Becomes(temp, Copies(o, temp[Current], Uploaded))
             /\ UNCHANGED target
          \/ /\ ~call.use_sudo /\ InPlace
             /\ target' \in Becomes(target, Copies(o, target[Current], Uploaded))
             /\ UNCHANGED temp
          \/ /\ ~call.use_sudo /\ ~InPlace
             /\ o # "ok"
             /\ UNCHANGED <<target, temp>>
       /\ Note("upload", o)
       /\ Ends("upload", o, AfterUpload, "handler")
  /\ UNCHANGED <<input, position, dirs, unlisted>>

\* chmod, on the temporary file or in place.
SetMode ==
  /\ pc = "mode"
  /\ \E o \in ToolOutcome :
       /\ IF call.use_sudo
          THEN temp' \in Becomes(temp, Makes(o, temp[Current], "new")) /\ UNCHANGED target
          ELSE target' \in Becomes(target, Makes(o, target[Current], "new")) /\ UNCHANGED temp
       /\ Note("mode", o)
       /\ Ends("mode", o, AfterMode, "handler")
  /\ UNCHANGED <<input, position, dirs, unlisted>>

\* mv, which copies if it has to; a slip: only Exception is caught after it, so
\* that neither SystemExit nor an interrupt leads to the cleanup.
CaughtException(o) == IF o = "raises" THEN "cleanup" ELSE "handler"
Caught(o) == "cleanup"

Move ==
  /\ pc = "mv"
  /\ \E o \in SudoOutcome :
       /\ \/ /\ InPlace
             /\ target' \in Becomes(target, {temp[Current]})
             /\ temp' \in Becomes(temp, {"none"})
          \/ /\ o # "ok" /\ InPlace
             /\ target' \in Becomes(target, {target[Current], "part"})
             /\ UNCHANGED temp
          \/ /\ o # "ok" /\ ~InPlace
             /\ UNCHANGED <<target, temp>>
       /\ Note("mv", o)
       /\ Ends("mv", o, "transferred", Caught(o))
  /\ UNCHANGED <<input, position, dirs, unlisted>>

\* What is raised after the cleanup; slips: nothing; its own error.
NoError(o) == None
LastError(o) == IF o = "ok" THEN error ELSE [step |-> "rm", how |-> o]
FirstError(o) == error

\* rm -f of the temporary file, when the move raised; whatever becomes of it the
\* error of the move is raised again.
CleanUp ==
  /\ pc = "cleanup"
  /\ \E o \in SudoOutcome :
       /\ temp' \in Becomes(temp, Makes(o, temp[Current], "none"))
       /\ Note("rm", o)
       /\ error' = FirstError(o)
  /\ pc' = "handler"
  /\ UNCHANGED <<input, position, target, dirs, unlisted>>

Put == Upload \/ SetMode \/ Move \/ CleanUp

-----------------------------------------------------------------------------
(* SFTP.get.                                                               *)

\* cp -p to the temporary file.
Copy ==
  /\ pc = "cp"
  /\ \E o \in SudoOutcome :
       /\ temp' \in Becomes(temp, Copies(o, temp[Current], "new"))
       /\ Note("cp", o)
       /\ Ends("cp", o, "chown", "handler")
  /\ UNCHANGED <<input, position, target, dirs, unlisted>>

\* chown, then chmod 400 for the temporary file, which must be there.
Own(step, next) ==
  /\ pc = step
  /\ \E o \in SudoOutcome :
       /\ o = "ok" => temp[Current] # "none"
       /\ Note(step, o)
       /\ Ends(step, o, next, "handler")
  /\ UNCHANGED <<input, position, target, temp, dirs, unlisted>>

\* getter(), in a try: with use_sudo the temporary file is removed after it.
AfterDownload(o) ==
  IF call.use_sudo THEN "remove" ELSE IF o = "ok" THEN "transferred" ELSE "handler"

Download ==
  /\ pc = "download"
  /\ \E o \in FtpOutcome :
       /\ \/ /\ call.use_sudo => temp[Current] # "none"
             /\ target' \in Becomes(target, Copies(o, target[Current],
                                                   IF call.use_sudo THEN temp[Current] ELSE "new"))
          \/ /\ o # "ok" /\ call.use_sudo /\ temp[Current] = "none"
             /\ target' \in Becomes(target, {target[Current], "part"})
       /\ Note("download", o)
       /\ Ends("download", o, AfterDownload(o), AfterDownload(o))
  /\ UNCHANGED <<input, position, temp, dirs, unlisted>>

\* The finally clause; an exception of its own replaces the one under way.
RemoveTemp ==
  /\ pc = "remove"
  /\ \E o \in SudoOutcome :
       /\ temp' \in Becomes(temp, Makes(o, temp[Current], "none"))
       /\ Note("rm", o)
       /\ Ends("rm", o, IF error = None THEN "transferred" ELSE "handler", "handler")
  /\ UNCHANGED <<input, position, target, dirs, unlisted>>

Get == Copy \/ Own("chown", "chmod") \/ Own("chmod", "download") \/ Download \/ RemoveTemp

-----------------------------------------------------------------------------

Init ==
  /\ call \in Calls /\ warn_only \in BOOLEAN /\ args \in ArgLists
  /\ pc = "next" /\ at = 1 /\ pos = 1
  /\ \E c \in {"none", "old"} : target = [f \in File |-> c]
  /\ temp = [f \in File |-> "none"]
  /\ dirs \in IF call.op = "put" THEN SUBSET {i \in DOMAIN args : args[i].dir} ELSE {DOMAIN args}
  /\ done = <<>> /\ results = <<>> /\ failed = <<>>
  /\ error = None
  /\ bad = [f \in File |-> {}] /\ unlisted = {}

Step ==
  \/ StartFileArgument \/ MakeDirectory \/ ListDirectory \/ StartFile
  \/ FinishFile \/ FinishArgument \/ HandleError \/ Return
  \/ Put \/ Get

Stopped == pc \in {"returned", "raised"} /\ UNCHANGED vars

Next == Step \/ Stopped

Spec == Init /\ [][Next]_vars

-----------------------------------------------------------------------------
(* Properties.                                                             *)

Ended == pc \in {"returned", "raised"}

\* The type invariant.
TypeOK ==
  /\ call \in Calls /\ args \in ArgLists
  /\ at \in 1..(Len(args) + 1) /\ pos \in Nat \ {0}
  /\ target \in [File -> Contents] /\ temp \in [File -> Contents]
  /\ dirs \subseteq DOMAIN args /\ unlisted \subseteq DOMAIN args
  /\ done \in Seq(File) /\ results \in Seq(File) /\ failed \in Seq(DOMAIN args)
  /\ error \in Errors \cup {None}
  /\ bad \in [File -> SUBSET (Steps \ {"mkdir"})]
  /\ pc \in {"handler", "cleanup", "raised"} => error # None
  /\ pc \in {"next", "returned"} => error = None

\* When the call returns, a file it lists is at its destination as it was asked
\* for, or env.warn_only let a command on it fail. Every argument is listed
\* with all its files, or as failed, or it comes after one at which get() gave
\* up, or was a directory that could not be listed. If put() raises, then not
\* for the cleanup after a failed move but for that move.
ReportIsTrue ==
  /\ pc = "returned" =>
       /\ \A f \in ToSet(results) : target[f] = "new" \/ (warn_only /\ bad[f] \cap SudoSteps # {})
       /\ \A i \in DOMAIN args :
            \/ ToSet(args[i].files) \subseteq ToSet(results)
            \/ i \in ToSet(failed) \cup unlisted
            \/ call.op = "get" /\ \E k \in ToSet(failed) : k < i
  /\ pc = "raised" /\ call.op = "put" => error.step # "rm"

\* put() with use_sudo never shows a part of a file at its destination, nor a
\* whole one before it has its mode, unless a command failed: the mode's under
\* env.warn_only, or the move, which may have to copy.
TargetIsWhole ==
  call.op = "put" /\ call.use_sudo =>
    \A f \in File :
      /\ target[f] = "part" => "mv" \in bad[f]
      /\ target[f] = "raw" => warn_only /\ "mode" \in bad[f]

\* At the end a temporary file is left only if a step before the one that takes
\* it away failed, or both the move and the cleanup did, or the removal after a
\* download, or the move under env.warn_only, which then raises nothing: a comment
\* in put() says that "if the move fails" the file is cleaned up.
TempIsRemoved ==
  Ended => \A f \in File : temp[f] # "none" =>
    \/ bad[f] \cap {"upload", "mode", "cp", "chown", "chmod"} # {}
    \/ "rm" \in bad[f]
    \/ warn_only /\ "mv" \in bad[f]

\* Parts of files and temporary ones stay on the server only as excused above.
RemoteIsClean == TargetIsWhole /\ TempIsRemoved
=============================================================================
