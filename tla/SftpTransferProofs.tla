------------------------- MODULE SftpTransferProofs -------------------------
(***************************************************************************)
(* Theorems about SftpTransfer for any files, any directories of them, any *)
(* options of put() and get() and whatever becomes of each of their steps. *)
(***************************************************************************)
EXTENDS SftpTransfer, SequenceTheorems, TLAPS

-----------------------------------------------------------------------------
(* The inductive invariant.                                                *)

\* Where a single file is being transferred.
Busy == {"upload", "mode", "mv", "cleanup", "cp", "chown", "chmod", "download", "remove"}
OnFile == Busy \cup {"transferred"}

\* The walk over the arguments and their files.
PlacePart ==
  /\ pc \in OnFile \cup {"next", "file", "handler", "returned", "raised"}
  /\ pc \in OnFile \cup {"file", "handler"} => at <= Len(args)
  /\ pc \in OnFile => pos <= Len(Here.files)
  /\ pc = "file" => pos <= Len(Here.files) + 1
  /\ pc = "next" => pos = 1 /\ done = <<>>

\* An exception is under way where there is a handler for it.
ErrorPart ==
  /\ error # None => pc \in {"handler", "cleanup", "remove", "raised"}
  /\ error # None /\ call.op = "put" => error.step # "rm"

\* The steps a file of this call takes.
KindPart ==
  /\ pc \in {"upload", "mode", "mv", "cleanup"} => call.op = "put"
  /\ pc \in {"cp", "chown", "chmod", "download", "remove"} => call.op = "get"
  /\ pc \in {"mv", "cleanup", "cp", "chown", "chmod", "remove"} => call.use_sudo

\* A file is listed only after it was its turn.
BehindPart ==
  /\ \A f \in ToSet(results) : \E i \in DOMAIN args : i < at /\ f \in ToSet(args[i].files)
  /\ \A f \in ToSet(done) : at \in DOMAIN args /\ \E p \in DOMAIN Here.files : p < pos /\ Here.files[p] = f

\* The file is there, or a command failed for it under warn_only.
Good(f) == target[f] = "new" \/ (warn_only /\ bad[f] \cap SudoSteps # {})

GoodPart ==
  /\ \A f \in ToSet(results) \cup ToSet(done) : Good(f)
  /\ pc = "transferred" \/ (pc = "remove" /\ error = None) => Good(Current)
  /\ pc \in {"chown", "chmod", "download"} /\ call.use_sudo =>
       temp[Current] = "new" \/ (warn_only /\ bad[Current] \cap SudoSteps # {})
  /\ pc = "mode" /\ call.use_sudo => temp[Current] = "raw"
  /\ pc = "mv" => temp[Current] = "new" \/ (temp[Current] = "raw" /\ warn_only /\ "mode" \in bad[Current])

\* Every argument behind is accounted for.
ListedPart ==
  /\ \A i \in DOMAIN args : i < at => ToSet(args[i].files) \subseteq ToSet(results)
                                      \/ i \in ToSet(failed) \cup unlisted
  /\ pc \in OnFile \cup {"file"} =>
       at \in unlisted \/ \A p \in DOMAIN Here.files : p < pos => Here.files[p] \in ToSet(done)
  /\ pc = "returned" => at > Len(args) \/ (call.op = "get" /\ at - 1 \in ToSet(failed))

\* What may leave a temporary file behind.
Excused(f) ==
  \/ bad[f] \cap {"upload", "mode", "cp", "chown", "chmod"} # {}
  \/ "rm" \in bad[f]
  \/ warn_only /\ "mv" \in bad[f]

TempPart ==
  /\ \A f \in File : temp[f] = "none" \/ Excused(f) \/ (pc \in Busy /\ f = Current)
  /\ ~call.use_sudo => \A f \in File : temp[f] = "none"

IInv ==
  /\ TypeOK /\ PlacePart /\ ErrorPart /\ KindPart /\ BehindPart /\ GoodPart /\ ListedPart
  /\ TargetIsWhole /\ TempPart

-----------------------------------------------------------------------------
(* Lists of files.                                                         *)

LEMMA SetOfAppend ==
  ASSUME NEW S, NEW s \in Seq(S), NEW e \in S
  PROVE  ToSet(Append(s, e)) = ToSet(s) \cup {e}
<1>1. /\ Append(s, e) \in Seq(S)
      /\ Len(Append(s, e)) = Len(s) + 1
      /\ \A i \in 1..Len(s) : Append(s, e)[i] = s[i]
      /\ Append(s, e)[Len(s) + 1] = e
  BY AppendProperties
<1>2. Len(s) \in Nat /\ DOMAIN s = 1..Len(s) /\ DOMAIN Append(s, e) = 1..(Len(s) + 1)
  BY <1>1, LenProperties
<1>3. \A i \in DOMAIN Append(s, e) : Append(s, e)[i] \in ToSet(s) \cup {e}
  BY <1>1, <1>2 DEF ToSet
<1>4. \A i \in DOMAIN s : i \in DOMAIN Append(s, e) /\ Append(s, e)[i] = s[i]
  BY <1>1, <1>2
<1>5. Len(s) + 1 \in DOMAIN Append(s, e)
  BY <1>2
<1> QED  BY <1>1, <1>3, <1>4, <1>5 DEF ToSet

LEMMA SetOfConcat ==
  ASSUME NEW S, NEW s \in Seq(S), NEW t \in Seq(S)
  PROVE  ToSet(s \o t) = ToSet(s) \cup ToSet(t)
<1>1. /\ s \o t \in Seq(S) /\ Len(s \o t) = Len(s) + Len(t)
      /\ \A i \in 1..(Len(s) + Len(t)) : (s \o t)[i] = IF i <= Len(s) THEN s[i] ELSE t[i - Len(s)]
  BY ConcatProperties
<1>2. /\ Len(s) \in Nat /\ Len(t) \in Nat /\ DOMAIN s = 1..Len(s) /\ DOMAIN t = 1..Len(t)
      /\ DOMAIN (s \o t) = 1..(Len(s) + Len(t))
  BY <1>1, LenProperties
<1>3. ASSUME NEW i \in DOMAIN (s \o t) PROVE (s \o t)[i] \in ToSet(s) \cup ToSet(t)
  <2>1. CASE i <= Len(s)
    BY <1>1, <1>2, <2>1 DEF ToSet
  <2>2. CASE ~(i <= Len(s))
    <3>1. i - Len(s) \in DOMAIN t
      BY <1>2, <2>2
    <3> QED  BY <1>1, <1>2, <2>2, <3>1 DEF ToSet
  <2> QED  BY <2>1, <2>2
<1>4. \A i \in DOMAIN s : i \in DOMAIN (s \o t) /\ (s \o t)[i] = s[i]
  BY <1>1, <1>2
<1>5. ASSUME NEW i \in DOMAIN t PROVE Len(s) + i \in DOMAIN (s \o t) /\ (s \o t)[Len(s) + i] = t[i]
  <2>1. Len(s) + i \in 1..(Len(s) + Len(t)) /\ ~(Len(s) + i <= Len(s)) /\ (Len(s) + i) - Len(s) = i
    BY <1>2
  <2> QED  BY <1>1, <1>2, <2>1
<1>6. ToSet(s \o t) \subseteq ToSet(s) \cup ToSet(t)
  BY <1>3 DEF ToSet
<1>7. ToSet(s) \subseteq ToSet(s \o t)
  BY <1>4 DEF ToSet
<1>8. ToSet(t) \subseteq ToSet(s \o t)
  BY <1>5 DEF ToSet
<1> QED  BY <1>6, <1>7, <1>8

LEMMA SetOfNone == ToSet(<<>>) = {}
BY DEF ToSet

\* What the call is for.
LEMMA Sorts ==
  ASSUME TypeOK
  PROVE  /\ Len(args) \in Nat /\ DOMAIN args = 1..Len(args) /\ at \in Nat \ {0} /\ pos \in Nat \ {0}
         /\ Distinct(args)
         /\ call.op \in {"put", "get"} /\ call.use_sudo \in BOOLEAN /\ call.mode \in BOOLEAN
         /\ \A i \in DOMAIN args :
              /\ args[i].dir \in BOOLEAN /\ args[i].files \in Seq(File)
              /\ Len(args[i].files) \in Nat /\ DOMAIN args[i].files = 1..Len(args[i].files)
              /\ \A p \in DOMAIN args[i].files : args[i].files[p] \in File
<1>1. args \in Seq(Argument) /\ Distinct(args)
  BY ArgumentAssumption DEF TypeOK
<1>2. Len(args) \in Nat /\ DOMAIN args = 1..Len(args) /\ \A i \in DOMAIN args : args[i] \in Argument
  BY <1>1, LenProperties, ElementOfSeq
<1>3. \A i \in DOMAIN args : args[i].dir \in BOOLEAN /\ args[i].files \in Seq(File)
  BY <1>2 DEF Argument
<1>4. \A i \in DOMAIN args :
        /\ Len(args[i].files) \in Nat /\ DOMAIN args[i].files = 1..Len(args[i].files)
        /\ \A p \in DOMAIN args[i].files : args[i].files[p] \in File
  BY <1>3, LenProperties, ElementOfSeq
<1>5. call.op \in {"put", "get"} /\ call.use_sudo \in BOOLEAN /\ call.mode \in BOOLEAN
  BY CallAssumption DEF TypeOK
<1> QED  BY <1>1, <1>2, <1>3, <1>4, <1>5 DEF TypeOK

\* The file at hand, which none of the lists has yet.
LEMMA AtHand ==
  ASSUME TypeOK, PlacePart, BehindPart, pc \in OnFile
  PROVE  /\ at \in DOMAIN args /\ pos \in DOMAIN Here.files /\ Current \in File
         /\ Current = Here.files[pos] /\ Here = args[at]
         /\ Current \notin ToSet(results) \cup ToSet(done)
<1>1. at \in DOMAIN args /\ pos \in DOMAIN Here.files /\ Here = args[at] /\ Current = Here.files[pos]
  BY Sorts DEF PlacePart, Here, Current
<1>2. Current \in File
  BY <1>1, Sorts
<1>3. Current \notin ToSet(done)
  <2> SUFFICES ASSUME Current \in ToSet(done) PROVE FALSE
    OBVIOUS
  <2>1. PICK p \in DOMAIN Here.files : p < pos /\ Here.files[p] = Here.files[pos]
    BY <1>1 DEF BehindPart
  <2>2. p = pos
    BY <1>1, <2>1, Sorts DEF Distinct
  <2> QED  BY <1>1, <2>1, <2>2, Sorts
<1>4. Current \notin ToSet(results)
  <2> SUFFICES ASSUME Current \in ToSet(results) PROVE FALSE
    OBVIOUS
  <2>1. PICK i \in DOMAIN args : i < at /\ Current \in ToSet(args[i].files)
    BY DEF BehindPart
  <2>2. PICK p \in DOMAIN args[i].files : args[i].files[p] = args[at].files[pos]
    BY <1>1, <2>1 DEF ToSet
  <2>3. i = at
    BY <1>1, <2>2, Sorts DEF Distinct
  <2> QED  BY <2>1, <2>3, Sorts
<1> QED  BY <1>1, <1>2, <1>3, <1>4

LEMMA ConfigStays == [Next]_vars => UNCHANGED input
BY DEF Next, Step, Stopped, vars, StartFileArgument, MakeDirectory, ListDirectory, StartFile, FinishFile,
       FinishArgument, HandleError, Return, Put, Upload, SetMode, Move, CleanUp, Get, Copy, Own, Download, RemoveTemp

-----------------------------------------------------------------------------
(* What a step with a file has to see to.                                  *)

\* A step makes c of the file at its destination and d of the temporary one,
\* and its failure, if it fails, is noted.
Changed(c, d, failure) ==
  /\ UNCHANGED <<input, position, dirs, unlisted>>
  /\ target' = [target EXCEPT ![Current] = c]
  /\ temp' = [temp EXCEPT ![Current] = d]
  /\ bad' = [bad EXCEPT ![Current] = @ \cup failure]

\* The way it goes from there, when these steps with the file have failed.
Proper(c, d, failures) ==
  /\ pc' \in OnFile \cup {"handler"}
  /\ error' \in Errors \cup {None}
  /\ error' # None <=> pc' \in {"handler", "cleanup"} \/ (pc' = "remove" /\ error' # None)
  /\ call.op = "put" /\ error' # None => error'.step # "rm"
  /\ KindPart'
  /\ pc' = "transferred" \/ (pc' = "remove" /\ error' = None) =>
       c = "new" \/ (warn_only /\ failures \cap SudoSteps # {})
  /\ pc' \in {"chown", "chmod", "download"} /\ call.use_sudo =>
       d = "new" \/ (warn_only /\ failures \cap SudoSteps # {})
  /\ pc' = "mode" /\ call.use_sudo => d = "raw"
  /\ pc' = "mv" => d = "new" \/ (d = "raw" /\ warn_only /\ "mode" \in failures)
  /\ call.op = "put" /\ call.use_sudo =>
       /\ c = "part" => "mv" \in failures
       /\ c = "raw" => warn_only /\ "mode" \in failures
  /\ pc' \in Busy \/ d = "none"
     \/ failures \cap {"upload", "mode", "cp", "chown", "chmod"} # {} \/ "rm" \in failures
     \/ (warn_only /\ "mv" \in failures)
  /\ call.use_sudo \/ d = "none"

LEMMA FileStep ==
  ASSUME IInv, pc \in Busy, NEW c \in Contents, NEW d \in Contents,
         NEW failure \in SUBSET (Steps \ {"mkdir"}),
         Changed(c, d, failure), Proper(c, d, bad[Current] \cup failure)
  PROVE  IInv'
<1>0. TypeOK /\ PlacePart /\ BehindPart /\ pc \in OnFile
  BY DEF IInv, OnFile
<1>1. /\ UNCHANGED <<call, warn_only, args, at, pos, done, results, failed, dirs, unlisted>>
      /\ target' = [target EXCEPT ![Current] = c]
      /\ temp' = [temp EXCEPT ![Current] = d]
      /\ bad' = [bad EXCEPT ![Current] = @ \cup failure]
  BY DEF Changed, input, position
<1>2. /\ Here' = Here /\ Current' = Current /\ Current \in File
      /\ Current \notin ToSet(results) \cup ToSet(done)
  BY <1>0, <1>1, AtHand DEF Here, Current
<1>3. /\ target'[Current] = c /\ temp'[Current] = d /\ bad'[Current] = bad[Current] \cup failure
      /\ \A f \in File : f # Current => target'[f] = target[f] /\ temp'[f] = temp[f] /\ bad'[f] = bad[f]
  BY <1>0, <1>1, <1>2 DEF TypeOK
<1>4. TypeOK'
  <2>1. target' \in [File -> Contents] /\ temp' \in [File -> Contents] /\ bad' \in [File -> SUBSET (Steps \ {"mkdir"})]
    BY <1>0, <1>1, <1>2 DEF TypeOK
  <2>2. /\ error' \in Errors \cup {None}
        /\ pc' \in {"handler", "cleanup", "raised"} => error' # None
        /\ pc' \in {"next", "returned"} => error' = None
    BY DEF Proper, OnFile, Busy
  <2> QED  BY <1>0, <1>1, <2>1, <2>2 DEF TypeOK
<1>5. PlacePart'
  BY <1>0, <1>1, <1>2 DEF PlacePart, Proper, OnFile, Busy
<1>6. ErrorPart' /\ KindPart'
  BY <1>1 DEF ErrorPart, Proper
<1>7. BehindPart'
  BY <1>0, <1>1, <1>2 DEF BehindPart
<1>8. ASSUME NEW f \in File, f # Current PROVE Good(f)' <=> Good(f)
  BY <1>1, <1>3, <1>8 DEF Good
<1>9. \A f \in ToSet(results) \cup ToSet(done) : f \in File
  <2>1. results \in Seq(File) /\ done \in Seq(File)
    BY <1>0 DEF TypeOK
  <2>2. \A i \in DOMAIN results : results[i] \in File
    BY <2>1, LenProperties, ElementOfSeq
  <2>3. \A i \in DOMAIN done : done[i] \in File
    BY <2>1, LenProperties, ElementOfSeq
  <2> QED  BY <2>2, <2>3 DEF ToSet
<1>10. GoodPart'
  <2>1. \A f \in ToSet(results') \cup ToSet(done') : Good(f)'
    BY <1>1, <1>2, <1>8, <1>9 DEF IInv, GoodPart
  <2>2. pc' = "transferred" \/ (pc' = "remove" /\ error' = None) => Good(Current)'
    BY <1>1, <1>2, <1>3 DEF Proper, Good
  <2>3. pc' \in {"chown", "chmod", "download"} /\ call'.use_sudo =>
           temp'[Current'] = "new" \/ (warn_only' /\ bad'[Current'] \cap SudoSteps # {})
    BY <1>1, <1>2, <1>3 DEF Proper
  <2>4. pc' = "mode" /\ call'.use_sudo => temp'[Current'] = "raw"
    BY <1>1, <1>2, <1>3 DEF Proper
  <2>5. pc' = "mv" => temp'[Current'] = "new" \/ (temp'[Current'] = "raw" /\ warn_only' /\ "mode" \in bad'[Current'])
    BY <1>1, <1>2, <1>3 DEF Proper
  <2> QED  BY <1>2, <2>1, <2>2, <2>3, <2>4, <2>5 DEF GoodPart, Good
<1>11. ListedPart'
  <2>1. pc' # "returned"
    BY DEF Proper, OnFile, Busy
  <2> QED  BY <1>0, <1>1, <1>2, <2>1 DEF IInv, ListedPart, OnFile
<1>12. TargetIsWhole'
  <2> SUFFICES ASSUME call.op = "put", call.use_sudo, NEW f \in File
               PROVE  /\ target'[f] = "part" => "mv" \in bad'[f]
                      /\ target'[f] = "raw" => warn_only /\ "mode" \in bad'[f]
    BY <1>1 DEF TargetIsWhole
  <2>1. CASE f = Current
    BY <1>3, <2>1 DEF Proper
  <2>2. CASE f # Current
    BY <1>3, <2>2 DEF IInv, TargetIsWhole
  <2> QED  BY <2>1, <2>2
<1>13. TempPart'
  <2>1. ASSUME NEW f \in File PROVE temp'[f] = "none" \/ Excused(f)' \/ (pc' \in Busy /\ f = Current)
    <3>1. CASE f = Current
      BY <1>1, <1>3, <3>1 DEF Proper, Excused
    <3>2. CASE f # Current
      BY <1>1, <1>3, <3>2 DEF IInv, TempPart, Excused
    <3> QED  BY <3>1, <3>2
  <2>2. ~call.use_sudo => \A f \in File : temp'[f] = "none"
    BY <1>3 DEF Proper, IInv, TempPart
  <2> QED  BY <1>1, <1>2, <2>1, <2>2 DEF TempPart, Excused
<1> QED  BY <1>4, <1>5, <1>6, <1>7, <1>10, <1>11, <1>12, <1>13 DEF IInv

-----------------------------------------------------------------------------
(* The steps with a file.                                                  *)

\* A file that is what it was.
LEMMA SameFile ==
  ASSUME NEW S, NEW files \in [File -> S], NEW f \in File
  PROVE  files = [files EXCEPT ![f] = files[f]] /\ files[f] \in S
OBVIOUS

LEMMA PutSteps ==
  ASSUME IInv, Put
  PROVE  IInv'
<1>0. /\ TypeOK /\ PlacePart /\ BehindPart /\ ErrorPart /\ KindPart
      /\ target \in [File -> Contents] /\ temp \in [File -> Contents]
      /\ bad \in [File -> SUBSET (Steps \ {"mkdir"})]
  BY DEF IInv, TypeOK
<1>1. pc \in {"upload", "mode", "mv", "cleanup"}
  BY DEF Put, Upload, SetMode, Move, CleanUp
<1>2. pc \in Busy /\ pc \in OnFile /\ call.op = "put" /\ call.use_sudo \in BOOLEAN
  BY <1>0, <1>1, Sorts DEF Busy, OnFile, KindPart
<1>3. Current \in File /\ target[Current] \in Contents /\ temp[Current] \in Contents
      /\ bad[Current] \in SUBSET (Steps \ {"mkdir"})
  BY <1>0, <1>2, AtHand
<1>4. target = [target EXCEPT ![Current] = target[Current]] /\ temp = [temp EXCEPT ![Current] = temp[Current]]
  BY <1>0, <1>3, SameFile
<1>5. ASSUME NEW o, NEW step \in Steps \ {"mkdir"}, Note(step, o)
      PROVE  \E failure \in SUBSET (Steps \ {"mkdir"}) :
               /\ failure = IF o = "ok" THEN {} ELSE {step}
               /\ bad' = [bad EXCEPT ![Current] = @ \cup failure]
  <2>1. CASE o = "ok"
    <3>1. bad' = bad
      BY <1>5, <2>1 DEF Note
    <3>2. bad = [bad EXCEPT ![Current] = bad[Current]]
      BY <1>0, <1>3, SameFile
    <3>3. bad[Current] = bad[Current] \cup {}
      OBVIOUS
    <3> QED  BY <2>1, <3>1, <3>2, <3>3
  <2>2. CASE o # "ok"
    BY <1>5, <2>2 DEF Note
  <2> QED  BY <2>1, <2>2
<1>6. CASE Upload
  <2>1. PICK o \in FtpOutcome :
          /\ \/ /\ call.use_sudo
                /\ temp' \in Becomes(temp, Copies(o, temp[Current], Uploaded))
                /\ UNCHANGED target
             \/ /\ ~call.use_sudo
                /\ target' \in Becomes(target, Copies(o, target[Current], Uploaded))
                /\ UNCHANGED temp
             \/ /\ ~call.use_sudo
                /\ o # "ok"
                /\ UNCHANGED <<target, temp>>
          /\ Note("upload", o)
          /\ Ends("upload", o, AfterUpload, "handler")
    BY <1>6 DEF Upload
  <2>2. PICK failure \in SUBSET (Steps \ {"mkdir"}) :
               /\ failure = IF o = "ok" THEN {} ELSE {"upload"}
               /\ bad' = [bad EXCEPT ![Current] = @ \cup failure]
    BY <1>5, <2>1 DEF Steps, SudoSteps
  <2>3. \E c \in Contents, d \in Contents :
          /\ Changed(c, d, failure)
          /\ ~call.use_sudo => d = temp[Current] /\ (o = "ok" => c = Uploaded)
          /\ call.use_sudo => c = target[Current] /\ (o = "ok" => d = Uploaded)
    <3>1. UNCHANGED <<input, position, dirs, unlisted>>
      BY <1>6 DEF Upload
    <3>2. CASE call.use_sudo /\ temp' \in Becomes(temp, Copies(o, temp[Current], Uploaded)) /\ UNCHANGED target
      <4>1. PICK d \in Copies(o, temp[Current], Uploaded) : temp' = [temp EXCEPT ![Current] = d]
        BY <3>2 DEF Becomes
      <4>2. d \in Contents /\ (o = "ok" => d = Uploaded)
        BY <1>3, <4>1 DEF Copies, Makes, Uploaded, Contents
      <4> QED  BY <1>3, <1>4, <2>2, <3>1, <3>2, <4>1, <4>2 DEF Changed
    <3>3. CASE ~call.use_sudo /\ target' \in Becomes(target, Copies(o, target[Current], Uploaded)) /\ UNCHANGED temp
      <4>1. PICK c \in Copies(o, target[Current], Uploaded) : target' = [target EXCEPT ![Current] = c]
        BY <3>3 DEF Becomes
      <4>2. c \in Contents /\ (o = "ok" => c = Uploaded)
        BY <1>3, <4>1 DEF Copies, Makes, Uploaded, Contents
      <4> QED  BY <1>3, <1>4, <2>2, <3>1, <3>3, <4>1, <4>2 DEF Changed
    <3>4. CASE ~call.use_sudo /\ o # "ok" /\ UNCHANGED <<target, temp>>
      BY <1>3, <1>4, <2>2, <3>1, <3>4 DEF Changed
    <3> QED  BY <2>1, <3>2, <3>3, <3>4
  <2>4. PICK c \in Contents, d \in Contents :
          /\ Changed(c, d, failure)
          /\ ~call.use_sudo => d = temp[Current] /\ (o = "ok" => c = Uploaded)
          /\ call.use_sudo => c = target[Current] /\ (o = "ok" => d = Uploaded)
    BY <2>3
  <2>5. call' = call
    BY <1>6 DEF Upload, input
  <2>6. IF o = "ok" THEN pc' = AfterUpload /\ error' = None
                    ELSE pc' = "handler" /\ error' = [step |-> "upload", how |-> o] /\ error' \in Errors
    BY <1>0, <1>6, <2>1 DEF Upload, Ends, Raises, FtpOutcome, SudoOutcome, Errors, Steps, SudoSteps, ErrorPart
  <2>7. Proper(c, d, bad[Current] \cup failure)
    <3>1. ~call.use_sudo => d = "none"
      BY <1>0, <1>3, <2>4 DEF IInv, TempPart
    <3>2. call.use_sudo => /\ c = "part" => "mv" \in bad[Current]
                           /\ c = "raw" => warn_only /\ "mode" \in bad[Current]
      BY <1>2, <1>3, <2>4 DEF IInv, TargetIsWhole
    <3>3. CASE o = "ok"
      BY <1>2, <2>4, <2>5, <2>6, <3>1, <3>2, <3>3
         DEF Proper, AfterUpload, AfterMode, Uploaded, OnFile, Busy, KindPart
    <3>4. CASE o # "ok"
      <4>1. error' # None /\ error'.step = "upload" /\ pc' = "handler"
        BY <2>6, <3>4, NoneAssumption
      <4>2. "upload" \in bad[Current] \cup failure
        BY <2>2, <3>4
      <4> QED  BY <1>2, <2>5, <2>6, <3>1, <3>2, <3>4, <4>1, <4>2 DEF Proper, OnFile, Busy, KindPart
    <3> QED  BY <3>3, <3>4
  <2> QED  BY <1>2, <2>4, <2>7, FileStep
<1>7. CASE SetMode
  <2>1. PICK o \in ToolOutcome :
          /\ IF call.use_sudo
             THEN temp' \in Becomes(temp, Makes(o, temp[Current], "new")) /\ UNCHANGED target
             ELSE target' \in Becomes(target, Makes(o, target[Current], "new")) /\ UNCHANGED temp
          /\ Note("mode", o)
          /\ Ends("mode", o, AfterMode, "handler")
    BY <1>7 DEF SetMode
  <2>2. PICK failure \in SUBSET (Steps \ {"mkdir"}) :
               /\ failure = IF o = "ok" THEN {} ELSE {"mode"}
               /\ bad' = [bad EXCEPT ![Current] = @ \cup failure]
    BY <1>5, <2>1 DEF Steps, SudoSteps
  <2>3. \E c \in Contents, d \in Contents :
          /\ Changed(c, d, failure)
          /\ ~call.use_sudo => d = temp[Current] /\ (o = "ok" => c = "new")
          /\ call.use_sudo => c = target[Current] /\ (o = "ok" => d = "new")
                              /\ (d = "new" \/ d = temp[Current])
    <3>1. UNCHANGED <<input, position, dirs, unlisted>>
      BY <1>7 DEF SetMode
    <3>2. CASE call.use_sudo
      <4>1. PICK d \in Makes(o, temp[Current], "new") : temp' = [temp EXCEPT ![Current] = d]
        BY <2>1, <3>2 DEF Becomes
      <4>2. d \in Contents /\ (o = "ok" => d = "new") /\ (d = "new" \/ d = temp[Current])
        BY <1>3, <4>1 DEF Makes, Contents
      <4> QED  BY <1>3, <1>4, <2>1, <2>2, <3>1, <3>2, <4>1, <4>2 DEF Changed
    <3>3. CASE ~call.use_sudo
      <4>1. PICK c \in Makes(o, target[Current], "new") : target' = [target EXCEPT ![Current] = c]
        BY <2>1, <3>3 DEF Becomes
      <4>2. c \in Contents /\ (o = "ok" => c = "new")
        BY <1>3, <4>1 DEF Makes, Contents
      <4> QED  BY <1>3, <1>4, <2>1, <2>2, <3>1, <3>3, <4>1, <4>2 DEF Changed
    <3> QED  BY <3>2, <3>3
  <2>4. PICK c \in Contents, d \in Contents :
          /\ Changed(c, d, failure)
          /\ ~call.use_sudo => d = temp[Current] /\ (o = "ok" => c = "new")
          /\ call.use_sudo => c = target[Current] /\ (o = "ok" => d = "new")
                              /\ (d = "new" \/ d = temp[Current])
    BY <2>3
  <2>5. call' = call
    BY <1>7 DEF SetMode, input
  <2>6. /\ o \in SudoOutcome /\ (o = "bad" => call.use_sudo)
        /\ IF Raises(o) THEN pc' = "handler" /\ error' = [step |-> "mode", how |-> o] /\ error' \in Errors
                        ELSE pc' = AfterMode /\ error' = None
        /\ ~Raises(o) => o = "ok" \/ (o = "bad" /\ warn_only)
        /\ Raises(o) => o # "ok"
    BY <1>0, <1>7, <2>1 DEF SetMode, Ends, Raises, ToolOutcome, FtpOutcome, SudoOutcome, Errors, Steps, SudoSteps,
                            ErrorPart
  <2>7. call.use_sudo => temp[Current] = "raw"
    BY <1>7 DEF SetMode, IInv, GoodPart
  <2>8. Proper(c, d, bad[Current] \cup failure)
    <3>1. ~call.use_sudo => d = "none"
      BY <1>0, <1>3, <2>4 DEF IInv, TempPart
    <3>2. call.use_sudo => /\ c = "part" => "mv" \in bad[Current]
                           /\ c = "raw" => warn_only /\ "mode" \in bad[Current]
      BY <1>2, <1>3, <2>4 DEF IInv, TargetIsWhole
    <3>3. CASE ~Raises(o)
      BY <1>2, <2>2, <2>4, <2>5, <2>6, <2>7, <3>1, <3>2, <3>3
         DEF Proper, AfterMode, OnFile, Busy, KindPart, SudoSteps
    <3>4. CASE Raises(o)
      <4>1. error' # None /\ error'.step = "mode" /\ pc' = "handler"
        BY <2>6, <3>4, NoneAssumption
      <4>2. "mode" \in bad[Current] \cup failure
        BY <2>2, <2>6, <3>4
      <4> QED  BY <1>2, <2>5, <2>6, <3>1, <3>2, <3>4, <4>1, <4>2 DEF Proper, OnFile, Busy, KindPart
    <3> QED  BY <3>3, <3>4
  <2> QED  BY <1>2, <2>4, <2>8, FileStep
<1>8. CASE Move
  <2>1. PICK o \in SudoOutcome :
          /\ \/ /\ target' \in Becomes(target, {temp[Current]})
                /\ temp' \in Becomes(temp, {"none"})
             \/ /\ o # "ok"
                /\ target' \in Becomes(target, {target[Current], "part"})
                /\ UNCHANGED temp
             \/ /\ o # "ok"
                /\ UNCHANGED <<target, temp>>
          /\ Note("mv", o)
          /\ Ends("mv", o, "transferred", "cleanup")
    BY <1>8 DEF Move, Caught
  <2>2. PICK failure \in SUBSET (Steps \ {"mkdir"}) :
               /\ failure = IF o = "ok" THEN {} ELSE {"mv"}
               /\ bad' = [bad EXCEPT ![Current] = @ \cup failure]
    BY <1>5, <2>1 DEF Steps, SudoSteps
  <2>3. PICK c \in Contents, d \in Contents :
          /\ Changed(c, d, failure)
          /\ \/ c = temp[Current] /\ d = "none"
             \/ o # "ok" /\ c \in {target[Current], "part"} /\ d = temp[Current]
    <3>1. UNCHANGED <<input, position, dirs, unlisted>>
      BY <1>8 DEF Move
    <3>2. CASE target' \in Becomes(target, {temp[Current]}) /\ temp' \in Becomes(temp, {"none"})
      <4>1. target' = [target EXCEPT ![Current] = temp[Current]] /\ temp' = [temp EXCEPT ![Current] = "none"]
        BY <3>2 DEF Becomes
      <4>2. "none" \in Contents
        BY DEF Contents
      <4> QED  BY <1>3, <2>2, <3>1, <4>1, <4>2 DEF Changed
    <3>3. CASE o # "ok" /\ target' \in Becomes(target, {target[Current], "part"}) /\ UNCHANGED temp
      <4>1. PICK c \in {target[Current], "part"} : target' = [target EXCEPT ![Current] = c]
        BY <3>3 DEF Becomes
      <4>2. c \in Contents
        BY <1>3, <4>1 DEF Contents
      <4> QED  BY <1>3, <1>4, <2>2, <3>1, <3>3, <4>1, <4>2 DEF Changed
    <3>4. CASE o # "ok" /\ UNCHANGED <<target, temp>>
      BY <1>3, <1>4, <2>2, <3>1, <3>4 DEF Changed
    <3> QED  BY <2>1, <3>2, <3>3, <3>4
  <2>4. call' = call /\ call.use_sudo
    BY <1>0, <1>8 DEF Move, input, KindPart
  <2>5. /\ IF Raises(o) THEN pc' = "cleanup" /\ error' = [step |-> "mv", how |-> o] /\ error' \in Errors
                        ELSE pc' = "transferred" /\ error' = None
        /\ ~Raises(o) => o = "ok" \/ (o = "bad" /\ warn_only)
        /\ Raises(o) => o # "ok"
    BY <1>0, <1>8, <2>1 DEF Move, Ends, Raises, FtpOutcome, SudoOutcome, Errors, Steps, SudoSteps, ErrorPart
  <2>6. temp[Current] = "new" \/ (temp[Current] = "raw" /\ warn_only /\ "mode" \in bad[Current])
    BY <1>8 DEF Move, IInv, GoodPart
  <2>7. /\ target[Current] = "part" => "mv" \in bad[Current]
        /\ target[Current] = "raw" => warn_only /\ "mode" \in bad[Current]
    BY <1>2, <1>3, <2>4 DEF IInv, TargetIsWhole
  <2>8. o # "ok" => "mv" \in bad[Current] \cup failure
    BY <2>2
  <2>9. /\ c = "part" => "mv" \in bad[Current] \cup failure
        /\ c = "raw" => warn_only /\ "mode" \in bad[Current] \cup failure
    BY <2>3, <2>6, <2>7, <2>8
  <2>10. ~Raises(o) => /\ c = "new" \/ (warn_only /\ (bad[Current] \cup failure) \cap SudoSteps # {})
                       /\ d = "none" \/ (warn_only /\ "mv" \in bad[Current] \cup failure)
    BY <2>3, <2>5, <2>6, <2>8 DEF SudoSteps
  <2>11. Proper(c, d, bad[Current] \cup failure)
    <3>1. CASE ~Raises(o)
      BY <1>2, <2>4, <2>5, <2>9, <2>10, <3>1 DEF Proper, OnFile, Busy, KindPart
    <3>2. CASE Raises(o)
      <4>1. error' # None /\ error'.step = "mv" /\ pc' = "cleanup"
        BY <2>5, <3>2, NoneAssumption
      <4> QED  BY <1>2, <2>4, <2>5, <2>9, <3>2, <4>1 DEF Proper, OnFile, Busy, KindPart
    <3> QED  BY <3>1, <3>2
  <2> QED  BY <1>2, <2>3, <2>11, FileStep
<1>9. CASE CleanUp
  <2>1. PICK o \in SudoOutcome :
          /\ temp' \in Becomes(temp, Makes(o, temp[Current], "none"))
          /\ Note("rm", o)
          /\ error' = error
    BY <1>9 DEF CleanUp, FirstError
  <2>2. PICK failure \in SUBSET (Steps \ {"mkdir"}) :
               /\ failure = IF o = "ok" THEN {} ELSE {"rm"}
               /\ bad' = [bad EXCEPT ![Current] = @ \cup failure]
    BY <1>5, <2>1 DEF Steps, SudoSteps
  <2>3. PICK d \in Contents : Changed(target[Current], d, failure) /\ (o = "ok" => d = "none")
    <3>1. UNCHANGED <<input, position, dirs, unlisted, target>>
      BY <1>9 DEF CleanUp
    <3>2. PICK d \in Makes(o, temp[Current], "none") : temp' = [temp EXCEPT ![Current] = d]
      BY <2>1 DEF Becomes
    <3>3. d \in Contents /\ (o = "ok" => d = "none")
      BY <1>3, <3>2 DEF Makes, Contents
    <3> QED  BY <1>4, <2>2, <3>1, <3>2, <3>3 DEF Changed
  <2>4. call' = call /\ call.use_sudo /\ pc' = "handler" /\ error # None
    BY <1>0, <1>9 DEF CleanUp, input, KindPart, TypeOK
  <2>5. /\ target[Current] = "part" => "mv" \in bad[Current]
        /\ target[Current] = "raw" => warn_only /\ "mode" \in bad[Current]
    BY <1>2, <1>3, <2>4 DEF IInv, TargetIsWhole
  <2>6. d = "none" \/ "rm" \in bad[Current] \cup failure
    BY <2>2, <2>3
  <2>7. Proper(target[Current], d, bad[Current] \cup failure)
    BY <1>0, <1>2, <2>1, <2>4, <2>5, <2>6 DEF Proper, OnFile, Busy, KindPart, ErrorPart, TypeOK
  <2> QED  BY <1>2, <1>3, <2>3, <2>7, FileStep
<1> QED  BY <1>6, <1>7, <1>8, <1>9 DEF Put

LEMMA GetSteps ==
  ASSUME IInv, Get
  PROVE  IInv'
<1>0. /\ TypeOK /\ PlacePart /\ BehindPart /\ ErrorPart /\ KindPart
      /\ target \in [File -> Contents] /\ temp \in [File -> Contents]
      /\ bad \in [File -> SUBSET (Steps \ {"mkdir"})]
  BY DEF IInv, TypeOK
<1>1. pc \in {"cp", "chown", "chmod", "download", "remove"}
  BY DEF Get, Copy, Own, Download, RemoveTemp
<1>2. pc \in Busy /\ pc \in OnFile /\ call.op = "get" /\ call.use_sudo \in BOOLEAN
  BY <1>0, <1>1, Sorts DEF Busy, OnFile, KindPart
<1>3. Current \in File /\ target[Current] \in Contents /\ temp[Current] \in Contents
      /\ bad[Current] \in SUBSET (Steps \ {"mkdir"})
  BY <1>0, <1>2, AtHand
<1>4. target = [target EXCEPT ![Current] = target[Current]] /\ temp = [temp EXCEPT ![Current] = temp[Current]]
  BY <1>0, <1>3, SameFile
<1>5. ASSUME NEW o, NEW step \in Steps \ {"mkdir"}, Note(step, o)
      PROVE  \E failure \in SUBSET (Steps \ {"mkdir"}) :
               /\ failure = IF o = "ok" THEN {} ELSE {step}
               /\ bad' = [bad EXCEPT ![Current] = @ \cup failure]
  <2>1. CASE o = "ok"
    <3>1. bad' = bad
      BY <1>5, <2>1 DEF Note
    <3>2. bad = [bad EXCEPT ![Current] = bad[Current]]
      BY <1>0, <1>3, SameFile
    <3>3. bad[Current] = bad[Current] \cup {}
      OBVIOUS
    <3> QED  BY <2>1, <3>1, <3>2, <3>3
  <2>2. CASE o # "ok"
    BY <1>5, <2>2 DEF Note
  <2> QED  BY <2>1, <2>2
<1>6. CASE Copy
  <2>1. PICK o \in SudoOutcome :
          /\ temp' \in Becomes(temp, Copies(o, temp[Current], "new"))
          /\ Note("cp", o)
          /\ Ends("cp", o, "chown", "handler")
    BY <1>6 DEF Copy
  <2>2. PICK failure \in SUBSET (Steps \ {"mkdir"}) :
               /\ failure = IF o = "ok" THEN {} ELSE {"cp"}
               /\ bad' = [bad EXCEPT ![Current] = @ \cup failure]
    BY <1>5, <2>1 DEF Steps, SudoSteps
  <2>3. PICK d \in Contents : Changed(target[Current], d, failure) /\ (o = "ok" => d = "new")
    <3>1. UNCHANGED <<input, position, dirs, unlisted, target>>
      BY <1>6 DEF Copy
    <3>2. PICK d \in Copies(o, temp[Current], "new") : temp' = [temp EXCEPT ![Current] = d]
      BY <2>1 DEF Becomes
    <3>3. d \in Contents /\ (o = "ok" => d = "new")
      BY <1>3, <3>2 DEF Copies, Makes, Contents
    <3> QED  BY <1>4, <2>2, <3>1, <3>2, <3>3 DEF Changed
  <2>4. call' = call /\ call.use_sudo
    BY <1>0, <1>6 DEF Copy, input, KindPart
  <2>5. /\ IF Raises(o) THEN pc' = "handler" /\ error' = [step |-> "cp", how |-> o] /\ error' \in Errors
                        ELSE pc' = "chown" /\ error' = None
        /\ ~Raises(o) => o = "ok" \/ (o = "bad" /\ warn_only)
        /\ Raises(o) => o # "ok"
    BY <1>0, <1>6, <2>1 DEF Copy, Ends, Raises, FtpOutcome, SudoOutcome, Errors, Steps, SudoSteps, ErrorPart
  <2>6. o # "ok" => "cp" \in bad[Current] \cup failure
    BY <2>2
  <2>7. ~Raises(o) => d = "new" \/ (warn_only /\ (bad[Current] \cup failure) \cap SudoSteps # {})
    BY <2>3, <2>5, <2>6 DEF SudoSteps
  <2>8. Proper(target[Current], d, bad[Current] \cup failure)
    <3>1. CASE ~Raises(o)
      BY <1>2, <2>4, <2>5, <2>7, <3>1 DEF Proper, OnFile, Busy, KindPart
    <3>2. CASE Raises(o)
      <4>1. error' # None /\ pc' = "handler"
        BY <2>5, <3>2, NoneAssumption
      <4> QED  BY <1>2, <2>4, <2>5, <2>6, <3>2, <4>1 DEF Proper, OnFile, Busy, KindPart
    <3> QED  BY <3>1, <3>2
  <2> QED  BY <1>2, <1>3, <2>3, <2>8, FileStep
<1>7. ASSUME NEW step \in {"chown", "chmod"}, NEW next, next = (IF step = "chown" THEN "chmod" ELSE "download"),
             Own(step, next)
      PROVE  IInv'
  <2>1. PICK o \in SudoOutcome : Note(step, o) /\ Ends(step, o, next, "handler")
    BY <1>7 DEF Own
  <2>2. PICK failure \in SUBSET (Steps \ {"mkdir"}) :
               /\ failure = IF o = "ok" THEN {} ELSE {step}
               /\ bad' = [bad EXCEPT ![Current] = @ \cup failure]
    BY <1>5, <1>7, <2>1 DEF Steps, SudoSteps
  <2>3. Changed(target[Current], temp[Current], failure)
    BY <1>4, <1>7, <2>2 DEF Changed, Own
  <2>4. call' = call /\ call.use_sudo /\ pc = step
    BY <1>0, <1>7 DEF Own, input, KindPart
  <2>5. /\ IF Raises(o) THEN pc' = "handler" /\ error' = [step |-> step, how |-> o] /\ error' \in Errors
                        ELSE pc' = next /\ error' = None
        /\ Raises(o) => o # "ok"
    BY <1>0, <1>7, <2>1, <2>4 DEF Ends, Raises, FtpOutcome, SudoOutcome, Errors, Steps, SudoSteps, ErrorPart
  <2>6. o # "ok" => step \in bad[Current] \cup failure
    BY <2>2
  <2>7. temp[Current] = "new" \/ (warn_only /\ (bad[Current] \cup failure) \cap SudoSteps # {})
    BY <1>7, <2>4 DEF IInv, GoodPart
  <2>8. Proper(target[Current], temp[Current], bad[Current] \cup failure)
    <3>1. CASE ~Raises(o)
      BY <1>2, <1>7, <2>4, <2>5, <2>7, <3>1 DEF Proper, OnFile, Busy, KindPart
    <3>2. CASE Raises(o)
      <4>1. error' # None /\ pc' = "handler"
        BY <2>5, <3>2, NoneAssumption
      <4>2. (bad[Current] \cup failure) \cap {"upload", "mode", "cp", "chown", "chmod"} # {}
        BY <1>7, <2>5, <2>6, <3>2
      <4> QED  BY <1>2, <2>4, <2>5, <3>2, <4>1, <4>2 DEF Proper, OnFile, Busy, KindPart
    <3> QED  BY <3>1, <3>2
  <2> QED  BY <1>2, <1>3, <2>3, <2>8, FileStep
<1>8. CASE Download
  <2>1. PICK o \in FtpOutcome :
          /\ \/ target' \in Becomes(target, Copies(o, target[Current], IF call.use_sudo THEN temp[Current] ELSE "new"))
             \/ o # "ok" /\ target' \in Becomes(target, {target[Current], "part"})
          /\ Note("download", o)
          /\ Ends("download", o, AfterDownload(o), AfterDownload(o))
    BY <1>8 DEF Download
  <2>2. PICK failure \in SUBSET (Steps \ {"mkdir"}) :
               /\ failure = IF o = "ok" THEN {} ELSE {"download"}
               /\ bad' = [bad EXCEPT ![Current] = @ \cup failure]
    BY <1>5, <2>1 DEF Steps, SudoSteps
  <2>3. PICK c \in Contents : /\ Changed(c, temp[Current], failure)
                              /\ o = "ok" => c = IF call.use_sudo THEN temp[Current] ELSE "new"
    <3>1. UNCHANGED <<input, position, dirs, unlisted, temp>>
      BY <1>8 DEF Download
    <3>2. CASE target' \in Becomes(target, Copies(o, target[Current], IF call.use_sudo THEN temp[Current] ELSE "new"))
      <4>1. PICK c \in Copies(o, target[Current], IF call.use_sudo THEN temp[Current] ELSE "new") :
              target' = [target EXCEPT ![Current] = c]
        BY <3>2 DEF Becomes
      <4>2. c \in Contents /\ (o = "ok" => c = IF call.use_sudo THEN temp[Current] ELSE "new")
        BY <1>3, <4>1 DEF Copies, Makes, Contents
      <4> QED  BY <1>4, <2>2, <3>1, <4>1, <4>2 DEF Changed
    <3>3. CASE o # "ok" /\ target' \in Becomes(target, {target[Current], "part"})
      <4>1. PICK c \in {target[Current], "part"} : target' = [target EXCEPT ![Current] = c]
        BY <3>3 DEF Becomes
      <4>2. c \in Contents
        BY <1>3, <4>1 DEF Contents
      <4> QED  BY <1>4, <2>2, <3>1, <3>3, <4>1, <4>2 DEF Changed
    <3> QED  BY <2>1, <3>2, <3>3
  <2>4. call' = call
    BY <1>8 DEF Download, input
  <2>5. /\ pc' = AfterDownload(o)
        /\ IF o = "ok" THEN error' = None
                       ELSE error' = [step |-> "download", how |-> o] /\ error' \in Errors
    BY <1>0, <1>8, <2>1 DEF Download, Ends, Raises, FtpOutcome, SudoOutcome, Errors, Steps, SudoSteps, ErrorPart
  <2>6. o # "ok" => error' # None
    BY <2>5, NoneAssumption
  <2>7. o = "ok" => c = "new" \/ (warn_only /\ (bad[Current] \cup failure) \cap SudoSteps # {})
    BY <1>8, <2>3 DEF Download, IInv, GoodPart
  <2>8. ~call.use_sudo => temp[Current] = "none"
    BY <1>3 DEF IInv, TempPart
  <2>9. Proper(c, temp[Current], bad[Current] \cup failure)
    <3>1. CASE call.use_sudo
      <4>1. pc' = "remove"
        BY <2>5, <3>1 DEF AfterDownload
      <4> QED  BY <1>2, <2>4, <2>5, <2>6, <2>7, <3>1, <4>1 DEF Proper, OnFile, Busy, KindPart
    <3>2. CASE ~call.use_sudo
      <4>1. pc' = IF o = "ok" THEN "transferred" ELSE "handler"
        BY <2>5, <3>2 DEF AfterDownload
      <4> QED  BY <1>2, <2>4, <2>5, <2>6, <2>7, <2>8, <3>2, <4>1 DEF Proper, OnFile, Busy, KindPart
    <3> QED  BY <3>1, <3>2
  <2> QED  BY <1>2, <1>3, <2>3, <2>9, FileStep
<1>9. CASE RemoveTemp
  <2>1. PICK o \in SudoOutcome :
          /\ temp' \in Becomes(temp, Makes(o, temp[Current], "none"))
          /\ Note("rm", o)
          /\ Ends("rm", o, IF error = None THEN "transferred" ELSE "handler", "handler")
    BY <1>9 DEF RemoveTemp
  <2>2. PICK failure \in SUBSET (Steps \ {"mkdir"}) :
               /\ failure = IF o = "ok" THEN {} ELSE {"rm"}
               /\ bad' = [bad EXCEPT ![Current] = @ \cup failure]
    BY <1>5, <2>1 DEF Steps, SudoSteps
  <2>3. PICK d \in Contents : Changed(target[Current], d, failure) /\ (o = "ok" => d = "none")
    <3>1. UNCHANGED <<input, position, dirs, unlisted, target>>
      BY <1>9 DEF RemoveTemp
    <3>2. PICK d \in Makes(o, temp[Current], "none") : temp' = [temp EXCEPT ![Current] = d]
      BY <2>1 DEF Becomes
    <3>3. d \in Contents /\ (o = "ok" => d = "none")
      BY <1>3, <3>2 DEF Makes, Contents
    <3> QED  BY <1>4, <2>2, <3>1, <3>2, <3>3 DEF Changed
  <2>4. call' = call /\ call.use_sudo
    BY <1>0, <1>9 DEF RemoveTemp, input, KindPart
  <2>5. IF Raises(o) THEN pc' = "handler" /\ error' = [step |-> "rm", how |-> o] /\ error' \in Errors
                     ELSE pc' = (IF error = None THEN "transferred" ELSE "handler") /\ error' = error
    BY <1>9, <2>1 DEF RemoveTemp, Ends, Raises, FtpOutcome, SudoOutcome, Errors, Steps, SudoSteps
  <2>6. d = "none" \/ "rm" \in bad[Current] \cup failure
    BY <2>2, <2>3
  <2>7. error = None => target[Current] = "new" \/ (warn_only /\ (bad[Current] \cup failure) \cap SudoSteps # {})
    BY <1>9 DEF RemoveTemp, IInv, GoodPart, Good
  <2>8. error' \in Errors \cup {None} /\ (Raises(o) => error' # None)
    BY <1>0, <2>5, NoneAssumption DEF TypeOK
  <2>9. Proper(target[Current], d, bad[Current] \cup failure)
    BY <1>2, <2>4, <2>5, <2>6, <2>7, <2>8 DEF Proper, OnFile, Busy, KindPart
  <2> QED  BY <1>2, <1>3, <2>3, <2>9, FileStep
<1> QED  BY <1>6, <1>7, <1>8, <1>9 DEF Get

-----------------------------------------------------------------------------
(* The loops over the arguments and their files.                           *)

\* Between two files nothing is made of any of them.
LEMMA BetweenFiles ==
  ASSUME IInv, pc \notin Busy, UNCHANGED <<input, target, temp, bad>>
  PROVE  TargetIsWhole' /\ TempPart' /\ (\A f \in File : Good(f)' <=> Good(f))
<1>1. UNCHANGED <<call, warn_only, args, target, temp, bad>>
  BY DEF input
<1>2. TargetIsWhole'
  BY <1>1 DEF IInv, TargetIsWhole
<1>3. TempPart'
  BY <1>1 DEF IInv, TempPart, Excused
<1>4. \A f \in File : Good(f)' <=> Good(f)
  BY <1>1 DEF Good
<1> QED  BY <1>2, <1>3, <1>4

\* The listed files are files.
LEMMA ListedFiles ==
  ASSUME TypeOK
  PROVE  ToSet(results) \subseteq File /\ ToSet(done) \subseteq File
<1>1. results \in Seq(File) /\ done \in Seq(File)
  BY DEF TypeOK
<1>2. \A i \in DOMAIN results : results[i] \in File
  BY <1>1, LenProperties, ElementOfSeq
<1>3. \A i \in DOMAIN done : done[i] \in File
  BY <1>1, LenProperties, ElementOfSeq
<1> QED  BY <1>2, <1>3 DEF ToSet

LEMMA LoopTypes ==
  ASSUME TypeOK, PlacePart, ErrorPart, [Next]_vars, ~Put, ~Get
  PROVE  TypeOK'
<1>0. /\ UNCHANGED input /\ Len(args) \in Nat /\ DOMAIN args = 1..Len(args)
      /\ at \in Nat \ {0} /\ pos \in Nat \ {0}
      /\ error \in Errors \cup {None} /\ done \in Seq(File) /\ results \in Seq(File) /\ <<>> \in Seq(File)
      /\ failed \in Seq(DOMAIN args)
  BY ConfigStays, Sorts, EmptySeq DEF TypeOK
<1>1. CASE StartFileArgument \/ StartFile \/ Return
  <2>1. UNCHANGED <<position, target, temp, dirs, error, bad, unlisted>> /\ error = None
        /\ pc' \in {"file", "upload", "cp", "download", "returned"}
    BY <1>1 DEF StartFileArgument, StartFile, Return, ErrorPart
  <2> QED  BY <1>0, <2>1 DEF TypeOK, input, position
<1>2. CASE MakeDirectory
  <2>1. at \in DOMAIN args /\ UNCHANGED <<position, target, temp, bad, unlisted>> /\ dirs' \subseteq dirs \cup {at}
    BY <1>0, <1>2 DEF MakeDirectory
  <2>2. (pc' = "file" /\ error' = error) \/ (pc' = "handler" /\ error' \in Errors)
    BY <1>2 DEF MakeDirectory, Ends, Raises, ToolOutcome, FtpOutcome, SudoOutcome, Errors, Steps, SudoSteps
  <2> QED  BY <1>0, <2>1, <2>2, NoneAssumption DEF TypeOK, input, position
<1>3. CASE ListDirectory
  <2>1. at \in DOMAIN args /\ UNCHANGED <<at, done, results, failed, target, temp, dirs, error, bad>> /\ pc' = "file"
    BY <1>0, <1>3 DEF ListDirectory
  <2>2. pos' \in Nat \ {0} /\ unlisted' \subseteq unlisted \cup {at}
    BY <1>0, <1>3, <2>1, Sorts DEF ListDirectory, Here
  <2> QED  BY <1>0, <2>1, <2>2 DEF TypeOK, input
<1>4. CASE FinishFile
  <2>1. UNCHANGED <<at, results, failed, target, temp, dirs, error, bad, unlisted>> /\ pc' = "file"
        /\ done' = Append(done, Current) /\ pos' = pos + 1 /\ pc = "transferred"
    BY <1>4 DEF FinishFile
  <2>2. Current \in File
    <3>1. at \in DOMAIN args /\ pos \in DOMAIN args[at].files
      BY <1>0, <2>1, Sorts DEF PlacePart, OnFile, Here
    <3> QED  BY <3>1, Sorts DEF Here, Current
  <2>3. done' \in Seq(File)
    BY <1>0, <2>1, <2>2, AppendProperties
  <2> QED  BY <1>0, <2>1, <2>3 DEF TypeOK, input
<1>5. CASE FinishArgument
  <2>1. UNCHANGED <<failed, target, temp, dirs, error, bad, unlisted>> /\ pc' = "next" /\ at <= Len(args) /\ error = None
        /\ results' = results \o done /\ done' = <<>> /\ pos' = 1 /\ at' = at + 1
    BY <1>5 DEF FinishArgument, PlacePart, ErrorPart
  <2>2. results' \in Seq(File)
    BY <1>0, <2>1, ConcatProperties
  <2> QED  BY <1>0, <2>1, <2>2 DEF TypeOK, input
<1>6. CASE HandleError
  <2>1. UNCHANGED <<target, temp, dirs, bad, unlisted>> /\ at \in DOMAIN args /\ error # None
    BY <1>0, <1>6 DEF HandleError, PlacePart, TypeOK
  <2>2. CASE /\ failed' = Append(failed, at) /\ pc' \in {"next", "returned"}
             /\ done' = <<>> /\ pos' = 1 /\ at' = at + 1 /\ error' = None /\ UNCHANGED results
    <3>1. failed' \in Seq(DOMAIN args)
      BY <1>0, <2>1, <2>2, AppendProperties
    <3> QED  BY <1>0, <2>1, <2>2, <3>1 DEF TypeOK, input
  <2>3. CASE pc' = "raised" /\ UNCHANGED <<position, error>>
    BY <1>0, <2>1, <2>3 DEF TypeOK, input, position
  <2> QED  BY <1>6, <2>2, <2>3 DEF HandleError, AfterFailure
<1>7. CASE UNCHANGED vars
  BY <1>7 DEF vars, input, position, TypeOK
<1> QED  BY <1>1, <1>2, <1>3, <1>4, <1>5, <1>6, <1>7 DEF Next, Step, Stopped

LEMMA LoopPlace ==
  ASSUME TypeOK, PlacePart, ErrorPart, KindPart, [Next]_vars, ~Put, ~Get
  PROVE  PlacePart' /\ ErrorPart' /\ KindPart'
<1>0. /\ UNCHANGED <<input, call, args>> /\ Len(args) \in Nat /\ DOMAIN args = 1..Len(args)
      /\ at \in Nat \ {0} /\ pos \in Nat \ {0} /\ call.op \in {"put", "get"}
      /\ (at \in DOMAIN args => Len(Here.files) \in Nat)
  BY ConfigStays, Sorts DEF input, Here
<1>1. CASE StartFileArgument \/ StartFile \/ Return
  <2>1. UNCHANGED <<at, pos, done, error>> /\ Here' = Here /\ error = None
    BY <1>0, <1>1 DEF StartFileArgument, StartFile, Return, Here, position, ErrorPart
  <2>2. PlacePart'
    BY <1>0, <1>1, <2>1 DEF StartFileArgument, StartFile, Return, PlacePart, OnFile, Busy
  <2>3. KindPart'
    BY <1>0, <1>1 DEF StartFileArgument, StartFile, Return, KindPart
  <2> QED  BY <2>1, <2>2, <2>3 DEF ErrorPart
<1>2. CASE MakeDirectory
  <2>1. UNCHANGED <<at, pos, done>> /\ Here' = Here /\ error = None /\ pc = "next" /\ at <= Len(args)
    BY <1>0, <1>2 DEF MakeDirectory, Here, position, ErrorPart
  <2>2. (pc' = "file" /\ error' = None) \/ (pc' = "handler" /\ error'.step = "mkdir")
    BY <1>2, <2>1 DEF MakeDirectory, Ends
  <2> QED  BY <1>0, <2>1, <2>2 DEF PlacePart, OnFile, Busy, ErrorPart, KindPart
<1>3. CASE ListDirectory
  <2>1. UNCHANGED <<at, done, error>> /\ Here' = Here /\ error = None /\ at <= Len(args) /\ pc' = "file"
        /\ (pos' = pos \/ pos' = Len(Here.files) + 1) /\ pos = 1
    BY <1>0, <1>3 DEF ListDirectory, Here, ErrorPart, PlacePart
  <2> QED  BY <1>0, <2>1 DEF PlacePart, OnFile, Busy, ErrorPart, KindPart
<1>4. CASE FinishFile
  <2>1. UNCHANGED <<at, error>> /\ Here' = Here /\ error = None /\ at <= Len(args) /\ pc' = "file"
        /\ pos' = pos + 1 /\ pos <= Len(Here.files)
    BY <1>0, <1>4 DEF FinishFile, Here, ErrorPart, PlacePart, OnFile, Busy
  <2> QED  BY <1>0, <2>1 DEF PlacePart, OnFile, Busy, ErrorPart, KindPart
<1>5. CASE FinishArgument
  BY <1>0, <1>5 DEF FinishArgument, PlacePart, OnFile, Busy, ErrorPart, KindPart
<1>6. CASE HandleError
  BY <1>0, <1>6 DEF HandleError, AfterFailure, PlacePart, OnFile, Busy, ErrorPart, KindPart, position
<1>7. CASE UNCHANGED vars
  <2>1. UNCHANGED <<pc, at, pos, done, error>> /\ Here' = Here
    BY <1>0, <1>7 DEF vars, position, Here
  <2> QED  BY <1>0, <2>1 DEF PlacePart, ErrorPart, KindPart
<1> QED  BY <1>1, <1>2, <1>3, <1>4, <1>5, <1>6, <1>7 DEF Next, Step, Stopped

LEMMA LoopLists ==
  ASSUME IInv, [Next]_vars, ~Put, ~Get
  PROVE  BehindPart' /\ GoodPart' /\ ListedPart' /\ TargetIsWhole' /\ TempPart'
<1>0. /\ TypeOK /\ PlacePart /\ ErrorPart /\ KindPart /\ BehindPart /\ GoodPart /\ ListedPart
      /\ UNCHANGED <<input, call, warn_only, args>>
      /\ Len(args) \in Nat /\ DOMAIN args = 1..Len(args)
      /\ at \in Nat \ {0} /\ pos \in Nat \ {0}
      /\ results \in Seq(File) /\ done \in Seq(File) /\ failed \in Seq(DOMAIN args)
      /\ ToSet(results) \subseteq File /\ ToSet(done) \subseteq File
  BY ConfigStays, Sorts, ListedFiles DEF IInv, input, TypeOK
<1>1. CASE StartFileArgument \/ StartFile \/ Return \/ MakeDirectory
  <2>1. UNCHANGED <<at, pos, done, results, failed, target, temp, bad, unlisted>> /\ Here' = Here /\ pc \notin Busy
    BY <1>0, <1>1 DEF StartFileArgument, StartFile, Return, MakeDirectory, Here, position, Busy
  <2>2. TargetIsWhole' /\ TempPart' /\ (\A f \in File : Good(f)' <=> Good(f))
    BY <1>0, <2>1, BetweenFiles
  <2>3. BehindPart'
    BY <1>0, <2>1 DEF BehindPart
  <2>4. GoodPart'
    <3>1. \A f \in ToSet(results') \cup ToSet(done') : Good(f)'
      BY <1>0, <2>1, <2>2 DEF GoodPart
    <3>2. /\ pc' \notin {"transferred", "remove", "chown", "chmod", "mode", "mv"}
          /\ pc' = "download" => ~call.use_sudo
      BY <1>1 DEF StartFileArgument, StartFile, Return, MakeDirectory, Ends
    <3> QED  BY <1>0, <3>1, <3>2 DEF GoodPart, Good
  <2>5. ListedPart'
    <3>1. pc' = "returned" => at > Len(args)
      BY <1>1 DEF StartFileArgument, StartFile, Return, MakeDirectory, Ends
    <3>2. pc = "file" \/ pos = 1
      BY <1>0, <1>1 DEF StartFileArgument, StartFile, Return, MakeDirectory, PlacePart
    <3>3. pc' \in OnFile \cup {"file"} => at \in DOMAIN args
      BY <1>0, <1>1, Sorts DEF StartFileArgument, StartFile, Return, MakeDirectory, Ends, OnFile, Busy, PlacePart
    <3>4. pc' \in OnFile \cup {"file"} =>
            at \in unlisted \/ \A p \in DOMAIN Here.files : p < pos => Here.files[p] \in ToSet(done)
      <4>1. CASE pc = "file"
        BY <1>0, <4>1 DEF ListedPart
      <4>2. CASE pos = 1
        <5>1. ASSUME at \in DOMAIN args, NEW p \in DOMAIN args[at].files PROVE ~(p < 1)
          <6>1. Len(args[at].files) \in Nat /\ DOMAIN args[at].files = 1..Len(args[at].files)
            BY <1>0, <5>1, Sorts
          <6> QED  BY <5>1, <6>1
        <5> QED  BY <3>3, <4>2, <5>1 DEF Here
      <4> QED  BY <3>2, <4>1, <4>2
    <3> QED  BY <1>0, <2>1, <3>1, <3>4 DEF ListedPart
  <2> QED  BY <2>2, <2>3, <2>4, <2>5
<1>2. CASE ListDirectory
  <2>1. /\ UNCHANGED <<at, done, results, failed, target, temp, bad>> /\ Here' = Here /\ pc \notin Busy
        /\ pc' = "file" /\ pos = 1 /\ done = <<>> /\ at \in DOMAIN args
        /\ \/ pos' = pos /\ unlisted' = unlisted
           \/ unlisted' = unlisted \cup {at}
    BY <1>0, <1>2 DEF ListDirectory, Here, Busy, PlacePart
  <2>2. TargetIsWhole' /\ TempPart' /\ (\A f \in File : Good(f)' <=> Good(f))
    BY <1>0, <2>1, BetweenFiles
  <2>3. BehindPart'
    BY <1>0, <2>1, SetOfNone DEF BehindPart
  <2>4. GoodPart'
    BY <1>0, <2>1, <2>2 DEF GoodPart, Good
  <2>5. ListedPart'
    BY <1>0, <2>1, Sorts DEF ListedPart, Here, OnFile
  <2> QED  BY <2>2, <2>3, <2>4, <2>5
<1>3. CASE FinishFile
  <2>1. /\ UNCHANGED <<at, results, failed, target, temp, bad, unlisted>> /\ Here' = Here
        /\ pc = "transferred" /\ pc \notin Busy /\ pc \in OnFile
        /\ pc' = "file" /\ done' = Append(done, Current) /\ pos' = pos + 1
    BY <1>0, <1>3 DEF FinishFile, Here, Busy, OnFile
  <2>2. TargetIsWhole' /\ TempPart' /\ (\A f \in File : Good(f)' <=> Good(f))
    BY <1>0, <2>1, BetweenFiles
  <2>3. /\ at \in DOMAIN args /\ pos \in DOMAIN Here.files /\ Current \in File /\ Current = Here.files[pos]
        /\ Here = args[at]
    BY <1>0, <2>1, AtHand
  <2>4. ToSet(done') = ToSet(done) \cup {Current}
    BY <1>0, <2>1, <2>3, SetOfAppend
  <2>5. \A p \in DOMAIN Here.files : p < pos' <=> p < pos \/ p = pos
    BY <1>0, <2>1, <2>3, Sorts
  <2>6. BehindPart'
    BY <1>0, <2>1, <2>3, <2>4, <2>5 DEF BehindPart
  <2>7. GoodPart'
    BY <1>0, <2>1, <2>2, <2>3, <2>4 DEF GoodPart, Good
  <2>8. ListedPart'
    BY <1>0, <2>1, <2>3, <2>4, <2>5 DEF ListedPart
  <2> QED  BY <2>2, <2>6, <2>7, <2>8
<1>4. CASE FinishArgument
  <2>1. /\ UNCHANGED <<failed, target, temp, bad, unlisted>>
        /\ pc = "file" /\ pc \notin Busy /\ pos > Len(Here.files) /\ at \in DOMAIN args /\ Here = args[at]
        /\ pc' = "next" /\ results' = results \o done /\ done' = <<>> /\ at' = at + 1
    BY <1>0, <1>4 DEF FinishArgument, Here, Busy, PlacePart
  <2>2. TargetIsWhole' /\ TempPart' /\ (\A f \in File : Good(f)' <=> Good(f))
    BY <1>0, <2>1, BetweenFiles
  <2>3. ToSet(results') = ToSet(results) \cup ToSet(done) /\ ToSet(done') = {}
    BY <1>0, <2>1, SetOfConcat, SetOfNone
  <2>4. \A i \in DOMAIN args : i < at' <=> i < at \/ i = at
    BY <1>0, <2>1
  <2>5. \A f \in ToSet(done) : f \in ToSet(args[at].files)
    BY <1>0, <2>1 DEF BehindPart, ToSet
  <2>6. BehindPart'
    BY <1>0, <2>1, <2>3, <2>4, <2>5 DEF BehindPart
  <2>7. GoodPart'
    BY <1>0, <2>1, <2>2, <2>3 DEF GoodPart, Good
  <2>8. at \in unlisted \/ ToSet(args[at].files) \subseteq ToSet(done)
    <3>1. \A p \in DOMAIN Here.files : p < pos
      BY <1>0, <2>1, Sorts
    <3> QED  BY <1>0, <2>1, <3>1 DEF ListedPart, ToSet
  <2>9. ListedPart'
    BY <1>0, <2>1, <2>3, <2>4, <2>8 DEF ListedPart, OnFile, Busy
  <2> QED  BY <2>2, <2>6, <2>7, <2>9
<1>5. CASE HandleError
  <2>1. UNCHANGED <<target, temp, bad, unlisted>> /\ pc \notin Busy /\ at \in DOMAIN args
    BY <1>0, <1>5 DEF HandleError, Busy, PlacePart
  <2>2. TargetIsWhole' /\ TempPart' /\ (\A f \in File : Good(f)' <=> Good(f))
    BY <1>0, <2>1, BetweenFiles
  <2>3. CASE /\ failed' = Append(failed, at) /\ pc' = AfterFailure
             /\ done' = <<>> /\ at' = at + 1 /\ UNCHANGED results
    <3>1. ToSet(failed') = ToSet(failed) \cup {at} /\ ToSet(done') = {}
      BY <1>0, <2>1, <2>3, SetOfAppend, SetOfNone
    <3>2. \A i \in DOMAIN args : i < at' <=> i < at \/ i = at
      BY <1>0, <2>1, <2>3
    <3>3. /\ pc' \in {"next", "returned"}
          /\ pc' = "returned" => call.op = "get" /\ at' - 1 = at
      BY <1>0, <2>3, Sorts DEF AfterFailure
    <3>4. BehindPart'
      BY <1>0, <2>3, <3>1, <3>2 DEF BehindPart
    <3>5. GoodPart'
      BY <1>0, <2>2, <2>3, <3>1, <3>3 DEF GoodPart, Good
    <3>6. ListedPart'
      BY <1>0, <2>1, <2>3, <3>1, <3>2, <3>3 DEF ListedPart, OnFile, Busy
    <3> QED  BY <2>2, <3>4, <3>5, <3>6
  <2>4. CASE pc' = "raised" /\ UNCHANGED position
    <3>1. UNCHANGED <<at, pos, done, results, failed>> /\ Here' = Here
      BY <1>0, <2>4 DEF position, Here
    <3>2. BehindPart'
      BY <1>0, <3>1 DEF BehindPart
    <3>3. GoodPart'
      BY <1>0, <2>2, <2>4, <3>1 DEF GoodPart, Good
    <3>4. ListedPart'
      BY <1>0, <2>1, <2>4, <3>1 DEF ListedPart, OnFile, Busy
    <3> QED  BY <2>2, <3>2, <3>3, <3>4
  <2> QED  BY <1>5, <2>3, <2>4 DEF HandleError
<1>6. CASE UNCHANGED vars
  <2>1. UNCHANGED <<pc, at, pos, done, results, failed, target, temp, error, bad, unlisted>>
    BY <1>6 DEF vars, position
  <2>2. Here' = Here /\ Current' = Current
    BY <1>0, <2>1 DEF Here, Current
  <2>3. \A f : Good(f)' <=> Good(f)
    BY <1>0, <2>1 DEF Good
  <2>4. GoodPart'
    BY <1>0, <2>1, <2>2, <2>3 DEF GoodPart, Good
  <2> QED  BY <1>0, <2>1, <2>2, <2>4 DEF IInv, BehindPart, ListedPart, TargetIsWhole, TempPart, Excused
<1> QED  BY <1>1, <1>2, <1>3, <1>4, <1>5, <1>6 DEF Next, Step, Stopped

-----------------------------------------------------------------------------

LEMMA InitInvariant == Init => IInv
<1> SUFFICES ASSUME Init PROVE IInv
  OBVIOUS
<1>1. /\ call \in Calls /\ args \in ArgLists /\ pc = "next" /\ at = 1 /\ pos = 1
      /\ temp = [f \in File |-> "none"]
      /\ done = <<>> /\ results = <<>> /\ failed = <<>> /\ error = None
      /\ bad = [f \in File |-> {}] /\ unlisted = {}
  BY DEF Init
<1>2. PICK c \in {"none", "old"} : target = [f \in File |-> c]
  BY DEF Init
<1>3. args \in Seq(Argument) /\ Len(args) \in Nat /\ DOMAIN args = 1..Len(args)
  BY <1>1, ArgumentAssumption, LenProperties
<1>4. dirs \subseteq DOMAIN args
  BY DEF Init
<1>5. TypeOK
  BY <1>1, <1>2, <1>3, <1>4, EmptySeq DEF TypeOK, Contents
<1>6. PlacePart /\ ErrorPart /\ KindPart
  BY <1>1 DEF PlacePart, ErrorPart, KindPart, OnFile, Busy
<1>7. BehindPart /\ GoodPart /\ ListedPart
  BY <1>1, <1>3, SetOfNone DEF BehindPart, GoodPart, ListedPart, OnFile, Busy
<1>8. TargetIsWhole /\ TempPart
  BY <1>1, <1>2 DEF TargetIsWhole, TempPart
<1> QED  BY <1>5, <1>6, <1>7, <1>8 DEF IInv

LEMMA Invariant == Spec => []IInv
<1>1. ASSUME IInv, [Next]_vars PROVE IInv'
  <2>1. CASE Put
    BY <1>1, <2>1, PutSteps
  <2>2. CASE Get
    BY <1>1, <2>2, GetSteps
  <2>3. CASE ~Put /\ ~Get
    <3>1. TypeOK /\ PlacePart /\ ErrorPart /\ KindPart
      BY <1>1 DEF IInv
    <3> QED  BY <1>1, <2>3, <3>1, LoopTypes, LoopPlace, LoopLists DEF IInv
  <2> QED  BY <2>1, <2>2, <2>3
<1> QED  BY <1>1, InitInvariant, PTL DEF Spec

\* Type correctness of put() and get() with the methods of SFTP.
THEOREM TypeCorrect == Spec => []TypeOK
BY Invariant, PTL DEF IInv

\* What put() and get() list is there, unless env.warn_only let a command on it fail.
\* A call that returns lists every argument with all its files or as failed, but for
\* directories that could not be listed and the arguments after one at which get()
\* gave up. What put() raises is what went wrong first.
THEOREM TheReportIsTrue == Spec => []ReportIsTrue
<1>1. ASSUME IInv PROVE ReportIsTrue
  <2>1. TypeOK /\ BehindPart /\ GoodPart /\ ListedPart /\ ErrorPart
    BY <1>1 DEF IInv
  <2>2. ASSUME pc = "returned", NEW f \in ToSet(results)
        PROVE  target[f] = "new" \/ (warn_only /\ bad[f] \cap SudoSteps # {})
    BY <2>1 DEF GoodPart, Good
  <2>3. ASSUME pc = "returned", NEW i \in DOMAIN args
        PROVE  \/ ToSet(args[i].files) \subseteq ToSet(results)
               \/ i \in ToSet(failed) \cup unlisted
               \/ call.op = "get" /\ \E k \in ToSet(failed) : k < i
    <3>1. CASE i < at
      BY <2>1, <3>1 DEF ListedPart
    <3>2. CASE ~(i < at)
      <4>1. i \in Nat /\ at \in Nat /\ i <= Len(args) /\ Len(args) \in Nat
        BY <2>1, Sorts
      <4>2. call.op = "get" /\ at - 1 \in ToSet(failed)
        BY <2>1, <2>3, <3>2, <4>1 DEF ListedPart
      <4>3. at - 1 < i
        BY <3>2, <4>1
      <4> QED  BY <4>2, <4>3
    <3> QED  BY <3>1, <3>2
  <2>4. pc = "raised" /\ call.op = "put" => error.step # "rm"
    BY <2>1 DEF TypeOK, ErrorPart
  <2> QED  BY <2>2, <2>3, <2>4 DEF ReportIsTrue
<1> QED  BY <1>1, Invariant, PTL

\* Whatever command of a transfer with use_sudo fails, no part of a file is seen at
\* its destination but by a move that copies, and no file without its mode but when
\* env.warn_only lets the chmod fail. A temporary file stays when the upload, put()'s
\* chmod or get()'s cp, chown or chmod fails, when its removal does, or when the move
\* does under env.warn_only; after a failed move it is removed.
THEOREM TheRemoteIsClean == Spec => []RemoteIsClean
<1>1. ASSUME IInv PROVE RemoteIsClean
  <2>1. TempIsRemoved
    BY <1>1 DEF IInv, TempPart, TempIsRemoved, Excused, Ended, Busy
  <2> QED  BY <1>1, <2>1 DEF IInv, RemoteIsClean
<1> QED  BY <1>1, Invariant, PTL
=============================================================================
