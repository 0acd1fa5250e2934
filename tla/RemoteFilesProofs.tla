-------------------------- MODULE RemoteFilesProofs --------------------------
(***************************************************************************)
(* Theorems about RemoteFiles for any tasks, any file, any number of stops *)
(* and any options.                                                        *)
(***************************************************************************)
EXTENDS RemoteFiles, SequenceTheorems, WellFoundedInduction, TLAPS

-----------------------------------------------------------------------------
(* The inductive invariant.                                                *)

\* The commands of upload_project().
Uploading == {"pack", "send", "untar", "remove", "clean"}

\* The next command belongs to the call under way.
PcPart ==
  /\ pc \in {"call", "stopped", "look", "echo", "save", "copy", "put", "sed"} \cup Uploading
  /\ pc \notin {"call", "stopped"} => call <= Len(script)
  /\ pc \in {"look", "echo"} => Op.name = "append"
  /\ pc = "echo" => at <= Len(Op.texts)

\* Folders: one for an upload under way, and one for every stop at the last
\* finally clause.
FolderPart ==
  /\ pc \in Uploading => tmp >= 1 /\ (tmp > 1 => "clean" \in excuses)
  /\ pc \notin Uploading => tmp <= stops /\ (tmp > 0 => "clean" \in excuses)

\* An archive is on its way to its removal, or one of the two commands failed.
ArchivePart == tar => pc \in {"untar", "remove"} \/ excuses \cap {"put", "remove"} # {}

\* upload_template() has saved what it is about to overwrite, unless it was told that
\* nothing was there.
BackupPart ==
  pc = "put" /\ file # None /\ ~how.warnOnly /\ ~how.hidden /\ "template" \notin misled => bak = file

\* What append() and upload_template() can be wrong about.
Misleading == {"append", "template"}

IInv == script \in Scripts /\ TypeOK /\ PcPart /\ FolderPart /\ ArchivePart /\ BackupPart

-----------------------------------------------------------------------------
(* The calls of a task.                                                    *)

LEMMA Sorts ==
  ASSUME IInv
  PROVE  /\ Len(script) \in Nat /\ call \in Nat /\ stops \in Nat /\ tmp \in Nat /\ MaxStops \in Nat
         /\ call <= Len(script) /\ Op.name = "append" => Len(Op.texts) \in Nat
<1>1. script \in Seq(Operations)
  BY ScriptAssumption DEF IInv
<1>2. Len(script) \in Nat /\ DOMAIN script = 1..Len(script)
  BY <1>1, LenProperties
<1>3. call \in 1..(Len(script) + 1) /\ stops \in 0..MaxStops /\ tmp \in 0..(stops + 1)
  BY DEF IInv, TypeOK
<1>4. ASSUME call <= Len(script), Op.name = "append" PROVE Len(Op.texts) \in Nat
  <2>1. Op \in Operations
    <3>1. call \in 1..Len(script)
      BY <1>2, <1>3, <1>4
    <3> QED  BY <1>1, <3>1, ElementOfSeq DEF Op
  <2>2. Op.texts \in Seq(Seq(Line))
    BY <1>4, <2>1 DEF Operations
  <2> QED  BY <2>2, LenProperties
<1> QED  BY <1>2, <1>3, <1>4, RemoteFilesAssumption

-----------------------------------------------------------------------------
(* The ways a command ends.                                                *)

\* An exception goes to a finally clause of the upload, or it stops the task.
LEMMA RaisesKeeps ==
  ASSUME IInv, pc \notin {"call", "stopped"}, Raises, misled' \in SUBSET Misleading,
         \/ tar' = tar
         \/ pc = "send" /\ tar' = TRUE
         \/ pc = "remove" /\ tar' = FALSE
  PROVE  IInv'
<1>1. /\ stops < MaxStops /\ stops' = stops + 1 /\ tmp' = tmp
      /\ script' = script /\ call' = call
      /\ pc' = Handler /\ failing' = (Handler # "stopped")
      /\ excuses' = CASE pc = "send" -> excuses \cup {"put"}
                      [] pc \in {"remove", "clean"} -> excuses \cup {pc}
                      [] OTHER -> excuses
  BY DEF Raises, place, task
<1>2. /\ pc \in {"pack", "send", "remove"} => pc' = "clean"
      /\ pc = "untar" => pc' = "remove"
      /\ pc \notin {"pack", "send", "remove", "untar"} => pc' = "stopped"
  BY <1>1 DEF Handler
<1>3. /\ excuses \subseteq excuses' /\ excuses' \subseteq excuses \cup {"put", "remove", "clean"}
      /\ pc = "send" => "put" \in excuses'
      /\ pc = "remove" => "remove" \in excuses'
      /\ pc = "clean" => "clean" \in excuses'
  BY <1>1
<1>4. script' \in Scripts
  BY <1>1 DEF IInv
<1>5. TypeOK'
  <2>1. stops' \in 0..MaxStops /\ tmp' \in 0..(stops' + 1)
    BY <1>1, Sorts DEF IInv, TypeOK
  <2>2. tar' \in BOOLEAN /\ failing' \in BOOLEAN /\ excuses' \subseteq {"put", "remove", "clean"}
    BY <1>1, <1>3 DEF IInv, TypeOK
  <2>3. call' \in 1..(Len(script') + 1) /\ pc' \notin {"look", "echo"}
    BY <1>1, <1>2 DEF IInv, TypeOK
  <2> QED  BY <2>1, <2>2, <2>3 DEF TypeOK, Misleading
<1>6. PcPart'
  BY <1>1, <1>2 DEF IInv, PcPart, Uploading
<1>7. FolderPart'
  <2>1. CASE pc \in {"pack", "send", "remove", "untar"}
    <3>1. pc' \in Uploading
      BY <1>2, <2>1 DEF Uploading
    <3>2. tmp >= 1 /\ (tmp > 1 => "clean" \in excuses)
      BY <2>1 DEF IInv, FolderPart, Uploading
    <3> QED  BY <1>1, <1>3, <3>1, <3>2 DEF FolderPart
  <2>2. CASE pc = "clean"
    <3>1. pc' \notin Uploading /\ "clean" \in excuses'
      BY <1>2, <1>3, <2>2 DEF Uploading
    <3>2. tmp' <= stops'
      BY <1>1, Sorts DEF IInv, TypeOK
    <3> QED  BY <3>1, <3>2 DEF FolderPart
  <2>3. CASE pc \notin Uploading
    <3>1. pc' \notin Uploading
      BY <1>2, <2>3 DEF Uploading
    <3>2. tmp <= stops /\ (tmp > 0 => "clean" \in excuses)
      BY <2>3 DEF IInv, FolderPart
    <3>3. tmp' <= stops'
      BY <1>1, <3>2, Sorts
    <3> QED  BY <1>1, <1>3, <3>1, <3>2, <3>3 DEF FolderPart
  <2> QED  BY <2>1, <2>2, <2>3 DEF Uploading
<1>8. ArchivePart'
  BY <1>2, <1>3 DEF IInv, ArchivePart
<1>9. BackupPart'
  BY <1>2 DEF BackupPart
<1> QED  BY <1>4, <1>5, <1>6, <1>7, <1>8, <1>9 DEF IInv

\* A command that edits a file leads to the next one of its call, to the next
\* call, or to the end of the task.
LEMMA OnwardKeeps ==
  ASSUME IInv, pc \notin Uploading \cup {"call", "stopped"}, UNCHANGED <<stops, project>>,
         misled' \in SUBSET Misleading,
         \/ Returned
         \/ Goes("stopped")
         \/ Goes("copy")
         \/ /\ Goes("put")
            /\ file' # None /\ ~how.warnOnly /\ ~how.hidden /\ "template" \notin misled' => bak' = file'
         \/ Goes("echo") /\ pc = "look" /\ at <= Len(Op.texts) /\ at' = at
         \/ Goes("look") /\ pc \in {"look", "echo"} /\ at <= Len(Op.texts) /\ at' = at + 1
  PROVE  IInv'
<1>1. script' = script /\ how' = how /\ stops' = stops
      /\ tmp' = tmp /\ tar' = tar /\ failing' = failing /\ excuses' = excuses
  BY DEF Returned, Goes, place, task, project
<1>2. pc' \in {"call", "stopped", "copy", "put", "echo", "look"} /\ pc' \notin Uploading
  BY DEF Returned, Goes, Uploading
<1>3. call <= Len(script)
  BY DEF IInv, PcPart
<1>4. script' \in Scripts
  BY <1>1 DEF IInv
<1>5. CASE Returned
  <2>1. pc' = "call" /\ call' = call + 1
    BY <1>5 DEF Returned
  <2>2. TypeOK'
    <3>1. call' \in 1..(Len(script') + 1)
      BY <1>1, <1>3, <2>1, Sorts
    <3> QED  BY <1>1, <2>1, <3>1 DEF IInv, TypeOK, Misleading
  <2> QED
    BY <1>1, <1>2, <1>4, <2>1, <2>2
    DEF IInv, PcPart, FolderPart, ArchivePart, BackupPart, Uploading
<1>6. CASE call' = call
  <2>1. Op' = Op
    BY <1>1, <1>6 DEF Op
  <2>2. pc' \in {"look", "echo"} =>
          /\ Op.name = "append" /\ at \in 1..(Len(Op.texts) + 1) /\ at <= Len(Op.texts)
          /\ at' = IF pc' = "look" THEN at + 1 ELSE at
    BY DEF IInv, PcPart, TypeOK, Returned, Goes
  <2>3. TypeOK'
    <3>1. pc' \in {"look", "echo"} => at' \in 1..(Len(Op'.texts) + 1)
      BY <1>3, <2>1, <2>2, Sorts
    <3> QED  BY <1>1, <1>6, <3>1 DEF IInv, TypeOK, Misleading
  <2>4. PcPart'
    BY <1>1, <1>2, <1>3, <1>6, <2>1, <2>2 DEF PcPart, Uploading
  <2>5. FolderPart'
    BY <1>1, <1>2 DEF IInv, FolderPart
  <2>6. ArchivePart'
    BY <1>1, <1>2 DEF IInv, ArchivePart, Uploading
  <2>7. BackupPart'
    BY <1>1 DEF BackupPart, Returned, Goes
  <2> QED  BY <1>4, <2>3, <2>4, <2>5, <2>6, <2>7 DEF IInv
<1> QED  BY <1>5, <1>6 DEF Returned, Goes, place

\* A command of upload_project() leads to the next one.
LEMMA UploadKeeps ==
  ASSUME IInv, UNCHANGED <<stops, tmp, failing, excuses>>, misled' \in SUBSET Misleading,
         \/ pc = "pack" /\ Goes("send") /\ tar' = tar
         \/ pc = "send" /\ Goes("untar") /\ tar' = TRUE
         \/ pc = "untar" /\ Goes("remove") /\ tar' = tar
         \/ pc = "remove" /\ Goes("clean") /\ tar' = FALSE
  PROVE  IInv'
<1>1. script' = script /\ call' = call /\ stops' = stops /\ tmp' = tmp
      /\ failing' = failing /\ excuses' = excuses
  BY DEF Goes, place, task
<1>2. pc \in Uploading /\ pc' \in Uploading \ {"pack"} /\ tar' \in BOOLEAN
  BY DEF Goes, Uploading, IInv, TypeOK
<1>3. TypeOK'
  BY <1>1, <1>2 DEF IInv, TypeOK, Uploading, Misleading
<1>4. PcPart'
  BY <1>1, <1>2 DEF IInv, PcPart, Uploading
<1>5. FolderPart'
  BY <1>1, <1>2 DEF IInv, FolderPart
<1>6. ArchivePart'
  BY <1>1 DEF IInv, ArchivePart, Goes
<1>7. BackupPart'
  BY <1>2 DEF BackupPart, Uploading
<1> QED  BY <1>1, <1>3, <1>4, <1>5, <1>6, <1>7 DEF IInv

-----------------------------------------------------------------------------
(* The actions.                                                            *)

LEMMA InitHolds == Init => IInv
<1> SUFFICES ASSUME Init PROVE IInv
  OBVIOUS
<1>1. script \in Seq(Operations)
  BY ScriptAssumption DEF Init
<1>2. Len(script) \in Nat
  BY <1>1, LenProperties
<1>3. TypeOK
  <2>1. call \in 1..(Len(script) + 1) /\ stops \in 0..MaxStops /\ tmp \in 0..(stops + 1)
    BY <1>2, RemoteFilesAssumption DEF Init
  <2>2. /\ pc \notin {"look", "echo"} /\ tar \in BOOLEAN /\ failing \in BOOLEAN
        /\ excuses \subseteq {"put", "remove", "clean"} /\ misled \subseteq {"append", "template"}
    BY DEF Init
  <2> QED  BY <2>1, <2>2 DEF TypeOK
<1> QED  BY <1>3 DEF Init, IInv, PcPart, FolderPart, ArchivePart, BackupPart, Uploading

LEMMA CallKeeps == ASSUME IInv, Call, misled' \in SUBSET Misleading PROVE IInv'
<1>1. /\ pc = "call" /\ call <= Len(script) /\ at' = 1
      /\ script' = script /\ call' = call /\ stops' = stops
      /\ tar' = tar /\ failing' = failing /\ excuses' = excuses
  BY DEF Call, task
<1>2. \/ Op.name = "append" /\ pc' = "look" /\ tmp' = tmp
      \/ pc' \in {"save", "sed"} /\ tmp' = tmp
      \/ pc' = "pack" /\ tmp' = tmp + 1
  <2>1. pc' = (CASE Op.name = "append" -> "look"
                 [] Op.name = "template" -> "save"
                 [] Op.name \in {"comment", "uncomment"} -> "sed"
                 [] OTHER -> "pack")
        /\ tmp' = IF Op.name = "project" THEN tmp + 1 ELSE tmp
    BY DEF Call
  <2>2. Op \in Operations
    <3>1. script \in Seq(Operations) /\ Len(script) \in Nat
      BY ScriptAssumption, Sorts DEF IInv
    <3>2. call \in 1..Len(script)
      BY <1>1, <3>1 DEF IInv, TypeOK
    <3> QED  BY <3>1, <3>2, ElementOfSeq DEF Op
  <2>3. Op.name \in {"append", "template", "comment", "uncomment", "project"}
    BY <2>2 DEF Operations
  <2> QED  BY <2>1, <2>3
<1>3. Op' = Op
  BY <1>1 DEF Op
<1>4. tmp <= stops /\ (tmp > 0 => "clean" \in excuses)
  BY <1>1 DEF IInv, FolderPart, Uploading
<1>5. TypeOK'
  <2>1. tmp' \in 0..(stops' + 1)
    BY <1>1, <1>2, <1>4, Sorts
  <2>2. pc' \in {"look", "echo"} => at' \in 1..(Len(Op'.texts) + 1)
    BY <1>1, <1>2, <1>3, Sorts
  <2> QED  BY <1>1, <2>1, <2>2 DEF IInv, TypeOK, Misleading
<1>6. PcPart'
  BY <1>1, <1>2, <1>3 DEF PcPart, Uploading
<1>7. FolderPart'
  <2>1. CASE pc' = "pack" /\ tmp' = tmp + 1
    BY <1>1, <1>4, <2>1, Sorts DEF FolderPart, Uploading
  <2>2. CASE pc' \notin Uploading /\ tmp' = tmp
    BY <1>1, <1>4, <2>2 DEF FolderPart
  <2> QED  BY <1>2, <2>1, <2>2 DEF Uploading
<1>8. ArchivePart'
  BY <1>1 DEF IInv, ArchivePart
<1>9. BackupPart'
  BY <1>2 DEF BackupPart
<1> QED  BY <1>1, <1>5, <1>6, <1>7, <1>8, <1>9 DEF IInv

LEMMA CleanKeeps == ASSUME IInv, Clean, misled' \in SUBSET Misleading PROVE IInv'
<1>1. /\ pc = "clean" /\ tmp' = tmp - 1 /\ failing' = FALSE
      /\ script' = script /\ stops' = stops /\ tar' = tar /\ excuses' = excuses
      /\ pc' \in {"stopped", "call"} /\ (pc' = "stopped" => call' = call)
      /\ (call' = call \/ call' = call + 1)
  BY DEF Clean, Goes, Returned, place, task
<1>2. tmp >= 1 /\ (tmp > 1 => "clean" \in excuses) /\ call <= Len(script) /\ tmp \in 0..(stops + 1)
  BY <1>1 DEF IInv, FolderPart, PcPart, Uploading, TypeOK
<1>3. TypeOK'
  <2>1. tmp' \in 0..(stops' + 1)
    BY <1>1, <1>2, Sorts
  <2>2. call' \in 1..(Len(script') + 1)
    BY <1>1, <1>2, Sorts DEF IInv, TypeOK
  <2> QED  BY <1>1, <2>1, <2>2 DEF IInv, TypeOK, Misleading
<1>4. PcPart'
  BY <1>1 DEF PcPart, Uploading
<1>5. FolderPart'
  <2>1. pc' \notin Uploading
    BY <1>1 DEF Uploading
  <2>2. tmp' <= stops' /\ (tmp' > 0 => "clean" \in excuses')
    BY <1>1, <1>2, Sorts
  <2> QED  BY <2>1, <2>2 DEF FolderPart
<1>6. ArchivePart'
  BY <1>1 DEF IInv, ArchivePart
<1>7. BackupPart'
  BY <1>1 DEF BackupPart
<1> QED  BY <1>1, <1>3, <1>4, <1>5, <1>6, <1>7 DEF IInv

LEMMA AgainKeeps == ASSUME IInv, Again, misled' \in SUBSET Misleading PROVE IInv'
<1>1. /\ pc = "stopped" /\ pc' = "call" /\ call' = 1
      /\ script' = script /\ stops' = stops /\ tmp' = tmp
      /\ tar' = tar /\ failing' = failing /\ excuses' = excuses
  BY DEF Again, task, project
<1>2. call' \in 1..(Len(script') + 1)
  BY <1>1, Sorts
<1> QED
  BY <1>1, <1>2
  DEF IInv, TypeOK, PcPart, FolderPart, ArchivePart, BackupPart, Uploading, Misleading

LEMMA StopsKeeps == ASSUME IInv, Stops, misled' \in SUBSET Misleading PROVE IInv'
BY RaisesKeeps DEF Stops

LEMMA LookKeeps == ASSUME IInv, Look PROVE IInv'
<1>1. /\ pc = "look" /\ at <= Len(Op.texts) /\ UNCHANGED <<stops, project>>
      /\ (Goes("look") /\ at' = at + 1) \/ (Goes("echo") /\ at' = at)
      /\ misled' \in {misled, misled \cup {"append"}}
  BY DEF Look
<1>2. pc \notin Uploading \cup {"call", "stopped"} /\ misled' \in SUBSET Misleading
  BY <1>1 DEF Uploading, IInv, TypeOK, Misleading
<1> QED  BY <1>1, <1>2, OnwardKeeps

LEMMA AllAppendedKeeps == ASSUME IInv, AllAppended, misled' \in SUBSET Misleading PROVE IInv'
<1>1. pc \notin Uploading \cup {"call", "stopped"}
  BY DEF AllAppended, Uploading
<1> QED  BY <1>1, OnwardKeeps DEF AllAppended

LEMMA EchoKeeps == ASSUME IInv, Echo, misled' \in SUBSET Misleading PROVE IInv'
<1>1. pc = "echo" /\ at <= Len(Op.texts) /\ pc \notin Uploading \cup {"call", "stopped"}
  BY DEF Echo, IInv, PcPart, Uploading
<1>2. CASE NextText /\ UNCHANGED <<stops, project>>
  BY <1>1, <1>2, OnwardKeeps DEF NextText
<1>3. CASE Raises /\ UNCHANGED <<at, tar>>
  BY <1>1, <1>3, RaisesKeeps
<1> QED  BY <1>2, <1>3 DEF Echo, Changes, Ignored

LEMMA SaveKeeps == ASSUME IInv, Save PROVE IInv'
<1>1. pc = "save" /\ pc \notin Uploading \cup {"call", "stopped"}
      /\ UNCHANGED <<file, bak, stops, project>>
  BY DEF Save, Uploading
<1>2. misled' \in SUBSET Misleading
  BY DEF Save, IInv, TypeOK, Misleading
<1>3. CASE Goes("copy")
  BY <1>1, <1>2, <1>3, OnwardKeeps
<1>4. CASE Goes("put") /\ (Seen => "template" \in misled')
  <2>1. file' # None /\ ~how.warnOnly /\ ~how.hidden /\ "template" \notin misled' => bak' = file'
    BY <1>1, <1>4 DEF Seen
  <2> QED  BY <1>1, <1>2, <1>4, <2>1, OnwardKeeps
<1> QED  BY <1>3, <1>4 DEF Save

LEMMA CopyKeeps == ASSUME IInv, Copy, misled' \in SUBSET Misleading PROVE IInv'
<1>1. pc = "copy" /\ pc \notin Uploading \cup {"call", "stopped"}
  BY DEF Copy, Uploading
<1>2. CASE Goes("put") /\ file' = file /\ bak' = file /\ UNCHANGED <<stops, project>>
  BY <1>1, <1>2, OnwardKeeps
<1>3. CASE how.warnOnly /\ Goes("put") /\ UNCHANGED <<stops, project>>
  BY <1>1, <1>3, OnwardKeeps
<1>4. CASE Raises /\ UNCHANGED <<at, tar>>
  BY <1>1, <1>4, RaisesKeeps
<1> QED  BY <1>2, <1>3, <1>4 DEF Copy, Changes, Ignored

LEMMA PutKeeps == ASSUME IInv, Put, misled' \in SUBSET Misleading PROVE IInv'
<1>1. pc = "put" /\ pc \notin Uploading \cup {"call", "stopped"}
  BY DEF Put, Uploading
<1>2. CASE Returned /\ UNCHANGED <<stops, project>>
  BY <1>1, <1>2, OnwardKeeps
<1>3. CASE Raises /\ UNCHANGED <<at, tar>>
  BY <1>1, <1>3, RaisesKeeps
<1> QED  BY <1>2, <1>3 DEF Put, Changes

LEMMA SedKeeps == ASSUME IInv, Sed \/ SedFails, misled' \in SUBSET Misleading PROVE IInv'
<1>1. pc = "sed" /\ pc \notin Uploading \cup {"call", "stopped"}
  BY DEF Sed, SedFails, Uploading
<1>2. CASE (Returned \/ Goes("stopped")) /\ UNCHANGED <<stops, project>>
  BY <1>1, <1>2, OnwardKeeps
<1>3. CASE Raises /\ UNCHANGED <<at, tar>>
  BY <1>1, <1>3, RaisesKeeps
<1> QED  BY <1>2, <1>3 DEF Sed, SedFails, Changes, Ignored

LEMMA ProjectKeeps ==
  ASSUME IInv, Pack \/ Send \/ Untar \/ RemoveArchive, misled' \in SUBSET Misleading
  PROVE  IInv'
<1>1. CASE Pack
  BY <1>1, UploadKeeps DEF Pack, project
<1>2. CASE Send
  BY <1>2, UploadKeeps, RaisesKeeps DEF Send
<1>3. CASE Untar
  BY <1>3, UploadKeeps DEF Untar, project
<1>4. CASE RemoveArchive
  BY <1>4, UploadKeeps, RaisesKeeps DEF RemoveArchive
<1> QED  BY <1>1, <1>2, <1>3, <1>4

LEMMA StutterKeeps == ASSUME IInv, UNCHANGED vars PROVE IInv'
BY DEF vars, place, task, project, IInv, TypeOK, Op, PcPart, FolderPart, ArchivePart, BackupPart

LEMMA NextKeeps == IInv /\ [Next]_vars => IInv'
<1> SUFFICES ASSUME IInv, [Next]_vars PROVE IInv'
  OBVIOUS
<1>1. misled' = misled => misled' \in SUBSET Misleading
  BY DEF IInv, TypeOK, Misleading
<1> QED
  BY <1>1, CallKeeps, StopsKeeps, LookKeeps, AllAppendedKeeps, EchoKeeps, SaveKeeps, CopyKeeps,
     PutKeeps, SedKeeps, ProjectKeeps, CleanKeeps, AgainKeeps, StutterKeeps
  DEF Next

LEMMA Inductive == Spec => []IInv
<1> QED  BY InitHolds, NextKeeps, PTL DEF Spec

-----------------------------------------------------------------------------
(* Functions that are defined by recursion over a natural number.          *)

LEMMA LeastNatural ==
  ASSUME NEW T \in SUBSET Nat, T # {}
  PROVE  \E m \in T : \A k \in T : ~(k < m)
<1>1. PICK m \in T : \A k \in T : <<k, m>> \notin OpToRel(<, Nat)
  BY WFMin, NatLessThanWellFounded, Zenon
<1> QED  BY <1>1, Zenon DEF OpToRel

LEMMA SetInduction ==
  ASSUME NEW T, 0 \in T, \A n \in Nat : n \in T => n + 1 \in T
  PROVE  Nat \subseteq T
<1> SUFFICES ASSUME NEW x \in Nat, x \notin T PROVE FALSE
  OBVIOUS
<1>1. PICK m \in {n \in Nat : n \notin T} : \A k \in {n \in Nat : n \notin T} : ~(k < m)
  BY LeastNatural
<1>2. m # 0 /\ m - 1 \in Nat /\ m - 1 < m
  BY <1>1
<1>3. m - 1 \in T
  BY <1>1, <1>2
<1> QED  BY <1>1, <1>2, <1>3

\* A function that is known up to m is known up to m + 1.
GoesOn(g, f, m, next) ==
  /\ g = [n \in 0..(m + 1) |-> g[n]]
  /\ g[m + 1] = next /\ \A n \in 0..m : g[n] = f[n]

LEMMA OneMore ==
  ASSUME NEW m \in Nat, NEW f, NEW next
  PROVE  \E g : GoesOn(g, f, m, next)
<1> DEFINE g == [n \in 0..(m + 1) |-> IF n = m + 1 THEN next ELSE f[n]]
<1>1. g = [n \in 0..(m + 1) |-> g[n]]
  OBVIOUS
<1>2. g[m + 1] = next /\ \A n \in 0..m : g[n] = f[n]
  OBVIOUS
<1> HIDE DEF g
<1> QED  BY <1>1, <1>2 DEF GoesOn

\* append() takes one text after the other.
LEMMA TextByText ==
  ASSUME NEW f, NEW texts, Len(texts) \in Nat
  PROVE  /\ WithTexts(f, texts)[0] = f
         /\ \A n \in 1..Len(texts) :
              WithTexts(f, texts)[n] = WithText(WithTexts(f, texts)[n - 1], texts[n])
<1> DEFINE L == Len(texts)
           Upto(g, m) == /\ g = [n \in 0..m |-> g[n]]
                         /\ g[0] = f /\ \A n \in 1..m : g[n] = WithText(g[n - 1], texts[n])
           T == {m \in Nat : \E g : Upto(g, m)}
<1>1. 0 \in T
  <2> DEFINE g == [n \in 0..0 |-> f]
  <2>1. g = [n \in 0..0 |-> g[n]] /\ g[0] = f
    OBVIOUS
  <2> HIDE DEF g
  <2>2. Upto(g, 0)
    BY <2>1
  <2> QED  BY <2>2
<1>2. ASSUME NEW m \in Nat, m \in T PROVE m + 1 \in T
  <2>1. PICK g : Upto(g, m)
    BY <1>2
  <2>2. PICK h : GoesOn(h, g, m, WithText(g[m], texts[m + 1]))
    BY OneMore, Zenon
  <2>3. ASSUME NEW n \in 1..(m + 1) PROVE h[n] = WithText(h[n - 1], texts[n])
    <3>1. n - 1 \in 0..m /\ (n \in 1..m \/ n = m + 1) /\ (m + 1) - 1 = m
      OBVIOUS
    <3>2. h[n - 1] = g[n - 1]
      BY <2>2, <3>1 DEF GoesOn
    <3>3. CASE n \in 1..m
      <4>1. h[n] = g[n]
        BY <2>2, <3>3 DEF GoesOn
      <4> QED  BY <2>1, <3>2, <3>3, <4>1
    <3>4. CASE n = m + 1
      BY <2>2, <3>1, <3>2, <3>4 DEF GoesOn
    <3> QED  BY <3>1, <3>3, <3>4
  <2>4. h[0] = f
    <3>1. 0 \in 0..m
      OBVIOUS
    <3>2. h[0] = g[0]
      BY <2>2, <3>1, Zenon DEF GoesOn
    <3>3. g[0] = f
      BY <2>1, Zenon
    <3> QED  BY <3>2, <3>3
  <2>5. \A n \in 1..(m + 1) : h[n] = WithText(h[n - 1], texts[n])
    BY <2>3
  <2>6. h = [n \in 0..(m + 1) |-> h[n]]
    BY <2>2 DEF GoesOn
  <2>7. Upto(h, m + 1)
    BY <2>4, <2>5, <2>6, Zenon
  <2> HIDE DEF Upto
  <2> QED  BY <2>7
<1>3. PICK g : Upto(g, L)
  <2> HIDE DEF T
  <2>1. L \in T
    BY <1>1, <1>2, SetInduction
  <2> QED  BY <2>1 DEF T
<1>4. g = [n \in 0..L |-> IF n = 0 THEN f ELSE WithText(g[n - 1], texts[n])]
  BY <1>3
<1>5. WithTexts(f, texts) = [n \in 0..L |-> IF n = 0 THEN f ELSE WithText(WithTexts(f, texts)[n - 1], texts[n])]
  BY <1>4, Zenon DEF WithTexts, L
<1> DEFINE W == WithTexts(f, texts)
<1> HIDE DEF W
<1>6. W = [n \in 0..L |-> IF n = 0 THEN f ELSE WithText(W[n - 1], texts[n])]
  BY <1>5 DEF W
<1> HIDE DEF L
<1>7. L \in Nat
  BY DEF L
<1>8. W[0] = f /\ \A n \in 1..L : W[n] = WithText(W[n - 1], texts[n])
  BY <1>6, <1>7
<1> QED  BY <1>8 DEF W, L

\* A task that nobody disturbs makes one call after the other.
LEMMA CallByCall ==
  ASSUME Len(script) \in Nat
  PROVE  /\ Undisturbed[0] = original
         /\ \A n \in 1..Len(script) : Undisturbed[n] = Result(Undisturbed[n - 1], script[n])
<1> DEFINE L == Len(script)
           Upto(g, m) == /\ g = [n \in 0..m |-> g[n]]
                         /\ g[0] = original /\ \A n \in 1..m : g[n] = Result(g[n - 1], script[n])
           T == {m \in Nat : \E g : Upto(g, m)}
<1>1. 0 \in T
  <2> DEFINE g == [n \in 0..0 |-> original]
  <2>1. g = [n \in 0..0 |-> g[n]] /\ g[0] = original
    OBVIOUS
  <2> HIDE DEF g
  <2>2. Upto(g, 0)
    BY <2>1
  <2> QED  BY <2>2
<1>2. ASSUME NEW m \in Nat, m \in T PROVE m + 1 \in T
  <2>1. PICK g : Upto(g, m)
    BY <1>2
  <2>2. PICK h : GoesOn(h, g, m, Result(g[m], script[m + 1]))
    BY OneMore, Zenon
  <2>3. ASSUME NEW n \in 1..(m + 1) PROVE h[n] = Result(h[n - 1], script[n])
    <3>1. n - 1 \in 0..m /\ (n \in 1..m \/ n = m + 1) /\ (m + 1) - 1 = m
      OBVIOUS
    <3>2. h[n - 1] = g[n - 1]
      BY <2>2, <3>1 DEF GoesOn
    <3>3. CASE n \in 1..m
      <4>1. h[n] = g[n]
        BY <2>2, <3>3 DEF GoesOn
      <4> QED  BY <2>1, <3>2, <3>3, <4>1
    <3>4. CASE n = m + 1
      BY <2>2, <3>1, <3>2, <3>4 DEF GoesOn
    <3> QED  BY <3>1, <3>3, <3>4
  <2>4. h[0] = original
    <3>1. 0 \in 0..m
      OBVIOUS
    <3>2. h[0] = g[0]
      BY <2>2, <3>1, Zenon DEF GoesOn
    <3>3. g[0] = original
      BY <2>1, Zenon
    <3> QED  BY <3>2, <3>3
  <2>5. \A n \in 1..(m + 1) : h[n] = Result(h[n - 1], script[n])
    BY <2>3
  <2>6. h = [n \in 0..(m + 1) |-> h[n]]
    BY <2>2 DEF GoesOn
  <2>7. Upto(h, m + 1)
    BY <2>4, <2>5, <2>6, Zenon
  <2> HIDE DEF Upto
  <2> QED  BY <2>7
<1>3. PICK g : Upto(g, L)
  <2> HIDE DEF T
  <2>1. L \in T
    BY <1>1, <1>2, SetInduction
  <2> QED  BY <2>1 DEF T
<1>4. g = [n \in 0..L |-> IF n = 0 THEN original ELSE Result(g[n - 1], script[n])]
  BY <1>3
<1>5. Undisturbed = [n \in 0..L |-> IF n = 0 THEN original ELSE Result(Undisturbed[n - 1], script[n])]
  BY <1>4, Zenon DEF Undisturbed, L
<1> DEFINE W == Undisturbed
<1> HIDE DEF W
<1>6. W = [n \in 0..L |-> IF n = 0 THEN original ELSE Result(W[n - 1], script[n])]
  BY <1>5 DEF W
<1> HIDE DEF L
<1>7. L \in Nat
  BY DEF L
<1>8. W[0] = original /\ \A n \in 1..L : W[n] = Result(W[n - 1], script[n])
  BY <1>6, <1>7
<1> QED  BY <1>8 DEF W, L

-----------------------------------------------------------------------------
(* append(), of lines that are not empty, to a file that ends with its last *)
(* line.                                                                   *)

EndedFile == {f \in File : f.ended} \cup {None}
OneLine == {text \in Seq(Line) : Len(text) = 1 /\ text # Blank}

LEMMA PresentIs ==
  ASSUME NEW f \in EndedFile, NEW text \in OneLine
  PROVE  Present(f, text) <=> f # None /\ \E i \in 1..Len(f.lines) : f.lines[i] = text[1]
<1>1. Len(text) = 1 /\ text # Blank
  BY DEF OneLine
<1>2. f # None => DOMAIN f.lines = 1..Len(f.lines)
  <2> SUFFICES ASSUME f # None PROVE DOMAIN f.lines = 1..Len(f.lines)
    OBVIOUS
  <2>1. f.lines \in Seq(Line)
    BY DEF EndedFile, File
  <2> QED  BY <2>1, LenProperties
<1> QED  BY <1>1, <1>2 DEF Present, Matches

\* echo >> puts the line behind those that are there.
LEMMA OneEcho ==
  ASSUME NEW f \in EndedFile, NEW text \in OneLine
  PROVE  \E before, all \in Seq(Line) :
           /\ before = LinesOf(f) /\ Appended(f, text) = Text(all)
           /\ Len(before) \in Nat /\ Len(all) = Len(before) + 1
           /\ \A i \in 1..Len(before) : all[i] = before[i]
           /\ all[Len(before) + 1] = text[1]
<1>1. text \in Seq(Line) /\ Len(text) = 1 /\ 1 \in 1..Len(text)
  BY DEF OneLine
<1>2. PICK before \in Seq(Line) : before = LinesOf(f) /\ Appended(f, text) = Text(before \o text)
  <2>1. CASE f = None
    <3>1. <<>> \in Seq(Line) /\ <<>> \o text = text
      BY <1>1, ConcatEmptySeq
    <3> QED  BY <2>1, <3>1 DEF Appended, LinesOf
  <2>2. CASE f # None
    <3>1. f.lines \in Seq(Line) /\ f.ended
      BY <2>2 DEF EndedFile, File
    <3> QED  BY <2>2, <3>1 DEF Appended, LinesOf
  <2> QED  BY <2>1, <2>2
<1> DEFINE all == before \o text
           m == Len(before)
<1>3. m \in Nat
  BY LenProperties
<1>4. /\ all \in Seq(Line) /\ Len(all) = m + Len(text)
      /\ \A i \in 1..(m + Len(text)) : all[i] = IF i <= m THEN before[i] ELSE text[i - m]
  BY <1>1, ConcatProperties
<1> HIDE DEF m
<1>5. Appended(f, text) = Text(all)
  BY <1>2
<1> HIDE DEF all
<1>6. Len(all) = m + 1 /\ \A i \in 1..(m + 1) : all[i] = IF i <= m THEN before[i] ELSE text[i - m]
  BY <1>1, <1>3, <1>4
<1>7. m + 1 \in 1..(m + 1) /\ ~(m + 1 <= m) /\ (m + 1) - m = 1
      /\ \A i \in 1..m : i \in 1..(m + 1) /\ i <= m
  BY <1>3
<1>8. all[m + 1] = text[1] /\ \A i \in 1..m : all[i] = before[i]
  BY <1>6, <1>7
<1> QED  BY <1>2, <1>3, <1>4, <1>5, <1>6, <1>8 DEF m

LEMMA EchoKeepsTexts ==
  ASSUME NEW f \in EndedFile, NEW text \in OneLine
  PROVE  /\ Appended(f, text) \in EndedFile
         /\ Present(Appended(f, text), text)
         /\ \A other \in OneLine : Present(f, other) => Present(Appended(f, text), other)
<1> DEFINE g == Appended(f, text)
<1>1. PICK before, all \in Seq(Line) :
        /\ before = LinesOf(f) /\ g = Text(all)
        /\ Len(before) \in Nat /\ Len(all) = Len(before) + 1
        /\ \A i \in 1..Len(before) : all[i] = before[i]
        /\ all[Len(before) + 1] = text[1]
  BY OneEcho, Zenon
<1> HIDE DEF g
<1>2. g = [lines |-> all, ended |-> TRUE]
  BY <1>1 DEF Text
<1>3. g \in File /\ g.ended /\ g.lines = all
  BY <1>1, <1>2 DEF File
<1>4. g \in EndedFile /\ g # None
  BY <1>3, OriginalAssumption DEF EndedFile
<1>5. Len(before) + 1 \in 1..Len(all)
  BY <1>1
<1>6. Present(g, text)
  BY <1>1, <1>3, <1>4, <1>5, PresentIs
<1>7. ASSUME NEW other \in OneLine, Present(f, other) PROVE Present(g, other)
  <2>1. f # None /\ \E i \in 1..Len(f.lines) : f.lines[i] = other[1]
    BY <1>7, PresentIs
  <2>2. PICK i \in 1..Len(before) : before[i] = other[1]
    BY <1>1, <2>1 DEF LinesOf
  <2>3. i \in 1..Len(all) /\ all[i] = other[1]
    BY <1>1, <2>2
  <2> QED  BY <1>3, <1>4, <2>3, PresentIs
<1> QED  BY <1>4, <1>6, <1>7 DEF g

\* What was there stays, and the text is there now.
LEMMA OneText ==
  ASSUME NEW f \in EndedFile, NEW text \in OneLine
  PROVE  /\ WithText(f, text) \in EndedFile
         /\ Present(WithText(f, text), text)
         /\ \A other \in OneLine : Present(f, other) => Present(WithText(f, text), other)
BY EchoKeepsTexts DEF WithText

\* What has become of a file when append() has taken the first n of its texts.
TextsAreIn(f, g, texts, n) ==
  /\ g \in EndedFile
  /\ \A other \in OneLine : Present(f, other) => Present(g, other)
  /\ \A j \in 1..n : Present(g, texts[j])

LEMMA AllTexts ==
  ASSUME NEW f \in EndedFile, NEW texts \in Seq(OneLine)
  PROVE  \A n \in 0..Len(texts) : TextsAreIn(f, WithTexts(f, texts)[n], texts, n)
<1> DEFINE L == Len(texts)
           W == WithTexts(f, texts)
           T == {n \in Nat : n <= L => TextsAreIn(f, W[n], texts, n)}
<1>1. L \in Nat /\ DOMAIN texts = 1..L
  BY LenProperties
<1>2. W[0] = f /\ \A n \in 1..L : W[n] = WithText(W[n - 1], texts[n])
  BY <1>1, TextByText
<1> HIDE DEF L, W
<1>3. 0 \in T
  BY <1>2 DEF TextsAreIn
<1>4. ASSUME NEW n \in Nat, n \in T PROVE n + 1 \in T
  <2> SUFFICES ASSUME n + 1 <= L PROVE TextsAreIn(f, W[n + 1], texts, n + 1)
    OBVIOUS
  <2>1. n <= L /\ n + 1 \in 1..L /\ (n + 1) - 1 = n
    BY <1>1
  <2>2. W[n + 1] = WithText(W[n], texts[n + 1])
    BY <1>2, <2>1
  <2>3. TextsAreIn(f, W[n], texts, n)
    BY <1>4, <2>1
  <2>4. W[n] \in EndedFile /\ texts[n + 1] \in OneLine
    BY <1>1, <2>1, <2>3, ElementOfSeq DEF TextsAreIn, L
  <2>5. /\ W[n + 1] \in EndedFile /\ Present(W[n + 1], texts[n + 1])
        /\ \A other \in OneLine : Present(W[n], other) => Present(W[n + 1], other)
    BY <2>2, <2>4, OneText
  <2>6. \A other \in OneLine : Present(f, other) => Present(W[n + 1], other)
    BY <2>3, <2>5 DEF TextsAreIn
  <2>7. ASSUME NEW j \in 1..(n + 1) PROVE Present(W[n + 1], texts[j])
    <3>1. CASE j = n + 1
      BY <2>5, <3>1
    <3>2. CASE j \in 1..n
      <4>1. texts[j] \in OneLine
        <5>1. j \in 1..Len(texts)
          BY <1>1, <2>1, <3>2 DEF L
        <5> QED  BY <5>1, ElementOfSeq
      <4> QED  BY <2>3, <2>5, <3>2, <4>1 DEF TextsAreIn
    <3> QED  BY <3>1, <3>2
  <2> QED  BY <2>5, <2>6, <2>7 DEF TextsAreIn
<1>5. Nat \subseteq T
  <2> HIDE DEF T
  <2> QED  BY <1>3, <1>4, SetInduction
<1> QED  BY <1>1, <1>5 DEF L, W

-----------------------------------------------------------------------------
(* What a repeated task makes of the file.                                 *)

\* append() has always been told the truth.
Undeceived == "append" \notin misled

\* A command is one of the call under way, an exception goes through the finally
\* clauses of the upload only, and append() adds what is not there.
OpPart ==
  /\ pc \in {"save", "copy", "put"} => Op.name = "template"
  /\ pc = "sed" => Op.name \in {"comment", "uncomment"}
  /\ pc \in Uploading => Op.name = "project"
  /\ failing => pc \in {"remove", "clean"}
  /\ pc = "echo" /\ Undeceived => ~Present(file, Op.texts[at])

LEMMA OpInit == Init => OpPart
BY DEF Init, OpPart, Uploading

\* An exception ends the task, or it is on its way through the upload.
LEMMA RaisesTo ==
  ASSUME Raises
  PROVE  /\ call' = call /\ script' = script /\ original' = original /\ how' = how
         /\ \/ pc' = "stopped" /\ ~failing'
            \/ pc \in Uploading /\ pc' \in {"remove", "clean"} /\ failing'
BY DEF Raises, Handler, place, task, Uploading

\* A step that looks for a text goes by what it was told; a wrong no stays on record.
LEMMA LookIs ==
  ASSUME Look
  PROVE  /\ pc = "look" /\ at <= Len(Op.texts) /\ file' = file /\ failing' = failing
         /\ \/ Present(file, Op.texts[at]) /\ Goes("look") /\ at' = at + 1
            \/ Goes("echo") /\ at' = at /\ (Undeceived' => ~Present(file, Op.texts[at]))
BY DEF Look, Answers, Undeceived, project

LEMMA StillMisled ==
  ASSUME [Next]_vars, Undeceived' PROVE Undeceived
<1>1. CASE Look
  BY <1>1 DEF Look, Undeceived
<1>2. CASE Save
  BY <1>2 DEF Save, Undeceived
<1>3. CASE misled' = misled
  BY <1>3 DEF Undeceived
<1> QED  BY <1>1, <1>2, <1>3 DEF Next, vars

LEMMA OpKeeps ==
  ASSUME IInv, OpPart, [Next]_vars
  PROVE  OpPart'
<1>1. ASSUME Raises PROVE OpPart'
  <2>1. Op' = Op
    BY <1>1, RaisesTo DEF Op
  <2> QED  BY <1>1, <2>1, RaisesTo DEF OpPart, Uploading
<1>2. ASSUME pc' \in {"call", "stopped"}, ~failing' PROVE OpPart'
  BY <1>2 DEF OpPart, Uploading
<1>3. ASSUME Call PROVE OpPart'
  <2>1. Op' = Op /\ failing' = failing /\ pc = "call" /\ call <= Len(script)
    BY <1>3 DEF Call, Op, task
  <2>2. Op \in Operations
    <3>1. script \in Seq(Operations) /\ Len(script) \in Nat
      BY ScriptAssumption, Sorts DEF IInv
    <3>2. call \in 1..Len(script)
      BY <2>1, <3>1 DEF IInv, TypeOK
    <3> QED  BY <3>1, <3>2, ElementOfSeq DEF Op
  <2>3. Op.name \in {"append", "template", "comment", "uncomment", "project"}
    BY <2>2 DEF Operations
  <2>4. pc' = (CASE Op.name = "append" -> "look"
                 [] Op.name = "template" -> "save"
                 [] Op.name \in {"comment", "uncomment"} -> "sed"
                 [] OTHER -> "pack")
    BY <1>3 DEF Call
  <2> QED  BY <2>1, <2>3, <2>4 DEF OpPart, Uploading
<1>4. ASSUME Stops PROVE OpPart'
  BY <1>1, <1>4 DEF Stops
<1>5. ASSUME Look PROVE OpPart'
  <2>1. pc = "look" /\ ~failing /\ failing' = failing /\ file' = file
    BY <1>5, LookIs DEF OpPart
  <2>2. CASE Goes("look")
    BY <2>1, <2>2 DEF Goes, OpPart, Uploading
  <2>3. CASE Goes("echo") /\ at' = at /\ (Undeceived' => ~Present(file, Op.texts[at]))
    <3>1. Op' = Op
      BY <2>3 DEF Op, Goes, place, task
    <3> QED  BY <2>1, <2>3, <3>1 DEF Goes, OpPart, Uploading
  <2> QED  BY <1>5, <2>2, <2>3, LookIs
<1>6. ASSUME Echo PROVE OpPart'
  <2>1. CASE NextText /\ UNCHANGED <<stops, project>>
    BY <1>6, <2>1 DEF Echo, NextText, Goes, OpPart, project, Uploading
  <2> QED  BY <1>1, <1>6, <2>1 DEF Echo, Changes, Ignored
<1>7. ASSUME Save PROVE OpPart'
  BY <1>7 DEF Save, Goes, Op, OpPart, place, task, project, Uploading
<1>8. ASSUME Copy PROVE OpPart'
  <2>1. CASE Goes("put") /\ UNCHANGED <<stops, project>>
    BY <1>8, <2>1 DEF Copy, Goes, Op, OpPart, place, task, project, Uploading
  <2> QED  BY <1>1, <1>8, <2>1 DEF Copy, Changes, Ignored
<1>9. ASSUME Put \/ Sed \/ SedFails PROVE OpPart'
  <2>1. CASE (Returned \/ Goes("stopped")) /\ UNCHANGED <<stops, project>>
    BY <1>2, <1>9, <2>1 DEF Returned, Goes, Put, Sed, SedFails, project, OpPart
  <2> QED  BY <1>1, <1>9, <2>1 DEF Put, Sed, SedFails, Changes, Ignored
<1>10. ASSUME Pack \/ Send \/ Untar \/ RemoveArchive PROVE OpPart'
  <2>1. CASE /\ Goes("send") \/ Goes("untar") \/ Goes("remove") \/ Goes("clean")
             /\ pc \in Uploading /\ failing' = failing /\ (failing => pc' \in {"remove", "clean"})
    <3>1. Op' = Op
      BY <2>1 DEF Goes, Op, place, task
    <3> QED  BY <2>1, <3>1 DEF Goes, OpPart, Uploading
  <2> QED  BY <1>1, <1>10, <2>1 DEF Pack, Send, Untar, RemoveArchive, project, Uploading, OpPart, Goes
<1>11. ASSUME Clean PROVE OpPart'
  BY <1>2, <1>11 DEF Clean, Goes, Returned
<1>12. ASSUME Again PROVE OpPart'
  BY <1>2, <1>12 DEF Again, project, OpPart
<1>13. ASSUME UNCHANGED vars PROVE OpPart'
  BY <1>13 DEF vars, place, task, project, Op, OpPart, Undeceived
<1>14. ASSUME AllAppended PROVE OpPart'
  BY <1>2, <1>14 DEF AllAppended, Returned, project, OpPart
<1> QED
  BY <1>3, <1>4, <1>5, <1>6, <1>7, <1>8, <1>9, <1>10, <1>11, <1>12, <1>13, <1>14 DEF Next

\* The place of the next command in a task that nobody disturbs, and the file there.
Reached ==
  IF pc \in {"look", "echo"} THEN WithTexts(Undisturbed[call - 1], Op.texts)[at - 1]
  ELSE Undisturbed[call - 1]

\* A task that writes the file anew is undisturbed from then on till it is stopped.
AnewPart == WritesAnew /\ call > 1 /\ pc # "stopped" /\ ~failing => file = Reached

\* A task that only appends may have been there before: when c calls and n texts of
\* the next one were done, which is not less than is done this time.
IsPlace(c, n) ==
  /\ c \in 0..Len(script) /\ n \in Nat
  /\ IF c < Len(script) THEN n <= Len(script[c + 1].texts) ELSE n = 0
Place(c, n) ==
  IF c < Len(script) THEN WithTexts(Undisturbed[c], script[c + 1].texts)[n] ELSE Undisturbed[c]
NotBehind(c, n) ==
  call - 1 < c \/ (call - 1 = c /\ (pc \in {"look", "echo"} => at - 1 <= n))
AppendPart ==
  OnlyAppends =>
    /\ \E c, n : IsPlace(c, n) /\ file = Place(c, n) /\ (pc # "stopped" => NotBehind(c, n))
    /\ pc = "echo" => file = Place(call - 1, at - 1)

\* A second comment() or uncomment() finds nothing to do.
SedPart ==
  OneComment \/ OneUncomment =>
    /\ original = None => file = None /\ call = 1
    /\ original # None => file \in {original, Undisturbed[1]} /\ (call = 2 => file = Undisturbed[1])

\* All texts of the first n calls are in a file, which ends with its last line.
CallsAreIn(f, n) ==
  /\ f \in EndedFile
  /\ \A i \in 1..n : \A j \in 1..Len(script[i].texts) : Present(f, script[i].texts[j])

\* Whatever it was told, a task that only appends has lost no line, has written no
\* other, and has missed no text of those it has passed.
Begins(s, t) == Len(s) <= Len(t) /\ \A i \in 1..Len(s) : t[i] = s[i]
Grown(lines) ==
  /\ Begins(LinesOf(original), lines)
  /\ \A i \in 1..Len(lines) : lines[i] \in ToSet(LinesOf(original)) \cup Wanted
TextsPassed == pc \in {"look", "echo"} => \A j \in 1..(at - 1) : Present(file, Op.texts[j])
ExtendPart ==
  OnlyAppends =>
    /\ file \in EndedFile /\ Grown(LinesOf(file))
    /\ pc # "stopped" => CallsAreIn(file, call - 1) /\ TextsPassed

FInv ==
  /\ IInv /\ OpPart /\ original \in Originals
  /\ ~how.warnOnly => ExtendPart
  /\ ~how.warnOnly /\ Undeceived => AnewPart /\ AppendPart /\ SedPart

-----------------------------------------------------------------------------
(* A task that writes the file anew.                                       *)

LEMMA CallFacts ==
  ASSUME IInv, call <= Len(script)
  PROVE  /\ call \in 1..Len(script) /\ call - 1 \in 0..Len(script) /\ (call + 1) - 1 = call
         /\ Undisturbed[call] = Result(Undisturbed[call - 1], Op)
         /\ Op \in Operations
<1>1. Len(script) \in Nat /\ call \in 1..Len(script) /\ script \in Seq(Operations)
  BY Sorts, ScriptAssumption DEF IInv, TypeOK
<1>2. Undisturbed[call] = Result(Undisturbed[call - 1], script[call])
  BY <1>1, CallByCall
<1>3. script[call] \in Operations
  BY <1>1, ElementOfSeq
<1> QED  BY <1>1, <1>2, <1>3 DEF Op

\* A call of append() that has gone through its texts.
LEMMA TextsDone ==
  ASSUME IInv, pc = "look", at > Len(Op.texts)
  PROVE  Undisturbed[call] = WithTexts(Undisturbed[call - 1], Op.texts)[at - 1]
<1>1. call <= Len(script) /\ Op.name = "append" /\ at \in 1..(Len(Op.texts) + 1) /\ Len(Op.texts) \in Nat
  BY Sorts DEF IInv, TypeOK, PcPart
<1>2. at - 1 = Len(Op.texts)
  BY <1>1
<1>3. Undisturbed[call] = Result(Undisturbed[call - 1], Op)
  BY <1>1, CallFacts
<1> QED  BY <1>1, <1>2, <1>3 DEF Result

\* One of its texts.
LEMMA TextDone ==
  ASSUME IInv, pc \in {"look", "echo"}, at <= Len(Op.texts)
  PROVE  /\ WithTexts(Undisturbed[call - 1], Op.texts)[(at + 1) - 1]
              = WithText(WithTexts(Undisturbed[call - 1], Op.texts)[at - 1], Op.texts[at])
         /\ at \in 1..Len(Op.texts)
<1>1. call <= Len(script) /\ Op.name = "append" /\ at \in 1..(Len(Op.texts) + 1) /\ Len(Op.texts) \in Nat
  BY Sorts DEF IInv, TypeOK, PcPart
<1>2. at \in 1..Len(Op.texts) /\ (at + 1) - 1 = at
  BY <1>1
<1> QED  BY <1>1, <1>2, TextByText

LEMMA SameTask ==
  ASSUME UNCHANGED task
  PROVE  /\ Undisturbed' = Undisturbed /\ script' = script /\ original' = original /\ how' = how
         /\ WritesAnew' = WritesAnew /\ OnlyAppends' = OnlyAppends
         /\ OneComment' = OneComment /\ OneUncomment' = OneUncomment
BY DEF task, Undisturbed, WritesAnew, OnlyAppends, OneComment, OneUncomment

LEMMA NextTask ==
  ASSUME [Next]_vars PROVE UNCHANGED task
BY DEF Next, Call, Stops, Look, AllAppended, Echo, Save, Copy, Put, Sed, SedFails, Pack, Send, Untar,
       RemoveArchive, Clean, Again, Changes, Ignored, Raises, NextText, Returned, Goes, vars, place

LEMMA AnewKeeps ==
  ASSUME IInv, OpPart, AnewPart, ~how.warnOnly, Undeceived', [Next]_vars
  PROVE  AnewPart'
<1>1. Undisturbed' = Undisturbed /\ script' = script /\ WritesAnew' = WritesAnew
  BY NextTask, SameTask
<1> SUFFICES ASSUME WritesAnew, call' > 1, pc' # "stopped", ~failing' PROVE file' = Reached'
  BY <1>1 DEF AnewPart
<1>2. ~Raises
  BY RaisesTo
<1>3. ASSUME pc \notin {"call", "stopped"}, Op.name # "template", ~failing
      PROVE  file = Reached
  <2>1. call <= Len(script)
    BY <1>3 DEF IInv, PcPart
  <2>2. call # 1
    BY <1>3 DEF Op, WritesAnew
  <2>3. call > 1
    BY <2>1, <2>2, CallFacts, Sorts
  <2> QED  BY <1>3, <2>3 DEF AnewPart
<1>4. ASSUME call' = call, file' = file, failing' = failing, pc # "stopped",
             pc \notin {"look", "echo"}, pc' \notin {"look", "echo"}
      PROVE  file' = Reached'
  BY <1>1, <1>4 DEF AnewPart, Reached
\* A call that returns with the result it should have.
<1>5. ASSUME call <= Len(script), Returned, file' = Undisturbed[call]
      PROVE  file' = Reached'
  <2>1. pc' = "call" /\ call' - 1 = call
    BY <1>5, CallFacts DEF Returned
  <2> QED  BY <1>1, <1>5, <2>1 DEF Reached
<1>6. ASSUME Call PROVE file' = Reached'
  <2>1. /\ pc = "call" /\ call <= Len(script) /\ call' = call /\ file' = file /\ failing' = failing /\ at' = 1
        /\ Op' = Op /\ pc' \in {"look", "save", "sed", "pack"} /\ (pc' = "look" => Op.name = "append")
    BY <1>6 DEF Call, Op, task
  <2>2. CASE pc' = "look"
    <3>1. Len(Op.texts) \in Nat
      BY <2>1, <2>2, Sorts
    <3>2. WithTexts(Undisturbed[call - 1], Op.texts)[0] = Undisturbed[call - 1]
      BY <3>1, TextByText
    <3>3. at' - 1 = 0
      BY <2>1
    <3>4. Reached' = WithTexts(Undisturbed[call - 1], Op.texts)[0] /\ Reached = Undisturbed[call - 1]
      BY <1>1, <2>1, <2>2, <3>3 DEF Reached
    <3> QED  BY <2>1, <3>2, <3>4 DEF AnewPart
  <2> QED  BY <1>4, <2>1, <2>2
<1>7. ASSUME Look \/ AllAppended PROVE file' = Reached'
  <2>1. /\ pc = "look" /\ file' = file /\ failing' = failing /\ call <= Len(script)
        /\ Op.name = "append" /\ at \in Nat /\ Len(Op.texts) \in Nat
    BY <1>7, Sorts DEF Look, AllAppended, project, IInv, PcPart, TypeOK
  <2>2. file = WithTexts(Undisturbed[call - 1], Op.texts)[at - 1]
    BY <1>3, <2>1 DEF Reached
  <2>3. CASE AllAppended
    BY <1>5, <2>1, <2>2, <2>3, TextsDone DEF AllAppended
  <2>4. CASE at <= Len(Op.texts) /\ Present(file, Op.texts[at]) /\ Goes("look") /\ at' = at + 1
    <3>1. WithTexts(Undisturbed[call - 1], Op.texts)[(at + 1) - 1] = file
      BY <2>1, <2>2, <2>4, TextDone DEF WithText
    <3>2. call' = call /\ pc' = "look" /\ Op' = Op
      BY <2>4 DEF Goes, place, task, Op
    <3> QED  BY <1>1, <2>1, <2>4, <3>1, <3>2 DEF Reached
  <2>5. CASE Goes("echo") /\ at' = at
    <3>1. call' = call /\ pc' = "echo" /\ Op' = Op
      BY <2>5 DEF Goes, place, task, Op
    <3> QED  BY <1>1, <2>1, <2>2, <2>5, <3>1 DEF Reached
  <2> QED  BY <1>7, <2>1, <2>3, <2>4, <2>5, LookIs
<1>8. ASSUME Echo PROVE file' = Reached'
  <2>1. /\ pc = "echo" /\ call <= Len(script) /\ Op.name = "append" /\ at <= Len(Op.texts)
        /\ ~failing /\ ~Present(file, Op.texts[at])
    BY <1>8, StillMisled DEF Echo, IInv, PcPart, OpPart
  <2>2. file' = Appended(file, Op.texts[at]) /\ Goes("look") /\ at' = at + 1
    BY <1>2, <1>8 DEF Echo, Changes, Ignored, NextText
  <2>3. file = WithTexts(Undisturbed[call - 1], Op.texts)[at - 1]
    BY <1>3, <2>1 DEF Reached
  <2>4. WithTexts(Undisturbed[call - 1], Op.texts)[(at + 1) - 1] = file'
    BY <2>1, <2>2, <2>3, TextDone DEF WithText
  <2>5. call' = call /\ pc' = "look" /\ Op' = Op
    BY <2>2 DEF Goes, place, task, Op
  <2> QED  BY <1>1, <2>2, <2>4, <2>5 DEF Reached
<1>9. ASSUME Save \/ Copy PROVE file' = Reached'
  BY <1>2, <1>4, <1>9 DEF Save, Copy, Changes, Ignored, Goes, place, project
<1>10. ASSUME Put PROVE file' = Reached'
  <2>1. pc = "put" /\ call <= Len(script) /\ Op.name = "template"
    BY <1>10 DEF Put, IInv, PcPart, OpPart
  <2>2. file' = Op.text /\ Returned
    BY <1>2, <1>10 DEF Put, Changes
  <2>3. Undisturbed[call] = Op.text
    BY <2>1, CallFacts DEF Result
  <2> QED  BY <1>5, <2>1, <2>2, <2>3
<1>11. ASSUME Sed PROVE file' = Reached'
  <2>1. pc = "sed" /\ call <= Len(script) /\ Op.name \in {"comment", "uncomment"} /\ ~failing
    BY <1>11 DEF Sed, IInv, PcPart, OpPart
  <2>2. file' = Edited(file, Op) /\ Returned
    BY <1>2, <1>11 DEF Sed, Changes, Ignored
  <2>3. file = Undisturbed[call - 1]
    BY <1>3, <2>1 DEF Reached
  <2>4. Undisturbed[call] = Edited(Undisturbed[call - 1], Op)
    BY <2>1, CallFacts DEF Result
  <2> QED  BY <1>5, <2>1, <2>2, <2>3, <2>4
<1>12. ASSUME Pack \/ Send \/ Untar \/ RemoveArchive PROVE file' = Reached'
  BY <1>2, <1>4, <1>12 DEF Pack, Send, Untar, RemoveArchive, Goes, place, project
<1>13. ASSUME Clean PROVE file' = Reached'
  <2>1. pc = "clean" /\ call <= Len(script) /\ Op.name = "project" /\ file' = file
    BY <1>13 DEF Clean, IInv, PcPart, OpPart, Uploading
  <2>2. ~failing /\ Returned
    BY <1>13 DEF Clean, Goes
  <2>3. file = Undisturbed[call - 1]
    BY <1>3, <2>1, <2>2 DEF Reached
  <2>4. Undisturbed[call] = Undisturbed[call - 1]
    BY <2>1, CallFacts DEF Result
  <2> QED  BY <1>5, <2>1, <2>2, <2>3, <2>4
<1>14. ASSUME UNCHANGED vars PROVE file' = Reached'
  <2>1. Op' = Op
    BY <1>14 DEF vars, place, task, Op
  <2> QED  BY <1>1, <1>14, <2>1 DEF vars, place, task, project, Reached, AnewPart
<1> QED
  BY <1>2, <1>6, <1>7, <1>8, <1>9, <1>10, <1>11, <1>12, <1>13, <1>14
  DEF Next, Stops, SedFails, Again, Goes

-----------------------------------------------------------------------------
(* A task that only comments, or takes off comments.                       *)

LEMMA Literal ==
  ASSUME NEW S, NEW a \in S
  PROVE  <<a>> \in Seq(S) /\ Len(<<a>>) = 1 /\ <<a>>[1] = a
OBVIOUS

LEMMA WiderSeq ==
  ASSUME NEW S, NEW T, S \subseteq T, NEW line \in Seq(S)
  PROVE  line \in Seq(T)
<1>1. PICK n \in Nat : line \in [1..n -> S]
  BY SeqDef
<1>2. line \in [1..n -> T]
  BY <1>1
<1> QED  BY <1>2, SeqDef

LEMMA BeginsWith ==
  ASSUME NEW S, NEW a \in S, NEW line \in Seq(S)
  PROVE  IsPrefix(<<a>>, line) <=> line # <<>> /\ line[1] = a
<1>1. PICK s \in Seq(S) : s = <<a>> /\ Len(s) = 1 /\ s[1] = a
  BY Literal, Zenon
<1>2. Len(line) \in Nat /\ (line # <<>> <=> Len(line) >= 1)
  BY LenProperties, EmptySeq
<1>3. SubSeq(s, 1, 1) = [i \in 1..1 |-> s[i]]
  BY <1>1
<1>4. Len(line) >= 1 => SubSeq(line, 1, 1) = [i \in 1..1 |-> line[i]]
  BY <1>2
<1>5. Len(line) >= 1 => (SubSeq(s, 1, 1) = SubSeq(line, 1, 1) <=> s[1] = line[1])
  BY <1>3, <1>4
<1> QED  BY <1>1, <1>2, <1>5 DEF IsPrefix

LEMMA CommentedTwice ==
  ASSUME NEW S, NEW token \in S, "#" \in S, token # "#", NEW line \in Seq(S)
  PROVE  Commented(Commented(line, token, TRUE), token, TRUE) = Commented(line, token, TRUE)
<1>1. CASE IsPrefix(<<token>>, line)
  <2>1. PICK new \in Seq(S) : new = <<"#">> \o line /\ new[1] = "#"
    <3>1. PICK s \in Seq(S) : s = <<"#">> /\ Len(s) = 1 /\ s[1] = "#"
      BY Literal, Zenon
    <3>2. s \o line \in Seq(S) /\ (s \o line)[1] = "#"
      BY <3>1
    <3> QED  BY <3>1, <3>2
  <2>2. ~IsPrefix(<<token>>, new)
    BY <2>1, BeginsWith
  <2>3. Commented(line, token, TRUE) = new /\ Commented(new, token, TRUE) = new
    BY <1>1, <2>1, <2>2 DEF Commented
  <2> QED  BY <2>3
<1>2. CASE ~IsPrefix(<<token>>, line)
  BY <1>2 DEF Commented
<1> QED  BY <1>1, <1>2

LEMMA UncommentedTwice ==
  ASSUME NEW S, NEW token \in S, "#" \in S, NEW line \in Seq(S),
         \A i, j \in DOMAIN line : line[i] = "#" /\ line[j] = "#" => i = j
  PROVE  Uncommented(Uncommented(line, token), token) = Uncommented(line, token)
<1>1. CASE IsPrefix(<<"#">>, line) /\ Contains(line, token)
  <2>1. line # <<>> /\ line[1] = "#"
    BY <1>1, BeginsWith
  <2> DEFINE new == Tail(line)
  <2>2. /\ new \in Seq(S) /\ Len(new) = Len(line) - 1 /\ \A i \in 1..Len(new) : new[i] = line[i + 1]
        /\ DOMAIN line = 1..Len(line) /\ Len(line) \in Nat
    BY <2>1, HeadTailProperties, LenProperties
  <2>3. Uncommented(line, token) = new
    BY <1>1 DEF Uncommented
  <2> HIDE DEF new
  <2>4. ~IsPrefix(<<"#">>, new)
    <3> SUFFICES ASSUME new # <<>>, new[1] = "#" PROVE FALSE
      BY <2>2, BeginsWith
    <3>1. 1 \in 1..Len(new)
      BY <2>2, EmptySeq
    <3>2. line[2] = "#" /\ 1 \in DOMAIN line /\ 2 \in DOMAIN line
      BY <2>2, <3>1
    <3> QED  BY <2>1, <3>2
  <2>5. Uncommented(new, token) = new
    BY <2>4 DEF Uncommented
  <2> QED  BY <2>3, <2>5
<1>2. CASE ~(IsPrefix(<<"#">>, line) /\ Contains(line, token))
  BY <1>2 DEF Uncommented
<1> QED  BY <1>1, <1>2

\* What sed makes of a line.
EditedLine(line, op) ==
  IF op.name = "comment" THEN Commented(line, op.token, op.anchored) ELSE Uncommented(line, op.token)

LEMMA EditedFacts ==
  ASSUME NEW lines, NEW ended, NEW op
  PROVE  Edited([lines |-> lines, ended |-> ended], op)
           = [lines |-> [i \in DOMAIN lines |-> EditedLine(lines[i], op)], ended |-> ended]
BY DEF Edited, EditedLine

LEMMA EditedTwice ==
  ASSUME IInv, original \in Originals, original # None, OneComment \/ OneUncomment
  PROVE  Edited(Edited(original, script[1]), script[1]) = Edited(original, script[1])
<1> DEFINE op == script[1]
           lines == original.lines
           new == [i \in DOMAIN lines |-> EditedLine(lines[i], op)]
           newer == [i \in DOMAIN new |-> EditedLine(new[i], op)]
<1>1. lines \in Seq(Line) /\ original = [lines |-> lines, ended |-> original.ended]
  BY OriginalAssumption DEF File
<1>2. op \in Operations
  <2>1. script \in Seq(Operations) /\ Len(script) = 1
    BY ScriptAssumption DEF IInv, OneComment, OneUncomment
  <2> QED  BY <2>1, ElementOfSeq
<1>3. op.name \in {"comment", "uncomment"} /\ op.token \in STRING
  BY <1>2 DEF Operations, OneComment, OneUncomment
<1>4. ASSUME NEW i \in DOMAIN lines
      PROVE  EditedLine(EditedLine(lines[i], op), op) = EditedLine(lines[i], op)
  <2> DEFINE l == lines[i]
             token == op.token
             S == STRING \cup {"#"}
  <2>1. l \in Seq(S) /\ token \in S /\ "#" \in S
    <3>1. DOMAIN lines = 1..Len(lines)
      BY <1>1, LenProperties
    <3>2. lines[i] \in Line
      <4> HIDE DEF lines
      <4>1. i \in 1..Len(lines)
        BY <3>1
      <4> QED  BY <1>1, <4>1, ElementOfSeq
    <3>3. token \in S /\ "#" \in S /\ STRING \subseteq S
      BY <1>3
    <3> HIDE DEF l, S
    <3>4. l \in Seq(STRING)
      BY <3>2 DEF Line, l
    <3>5. l \in Seq(S)
      BY <3>3, <3>4, WiderSeq
    <3> QED  BY <3>3, <3>5
  <2>2. CASE OneComment
    <3>1. op.name = "comment" /\ op.anchored = TRUE /\ op.token # "#"
      BY <1>2, <2>2 DEF OneComment, Operations
    <3> HIDE DEF l, token, S
    <3>2. token # "#"
      BY <3>1 DEF token
    <3>3. Commented(Commented(l, token, TRUE), token, TRUE) = Commented(l, token, TRUE)
      BY <2>1, <3>2, CommentedTwice
    <3> QED  BY <3>1, <3>3 DEF EditedLine, l, token
  <2>3. CASE OneUncomment
    <3>1. op.name = "uncomment" /\ \A j, k \in DOMAIN l : l[j] = "#" /\ l[k] = "#" => j = k
      BY <2>3 DEF OneUncomment
    <3> HIDE DEF l, token, S
    <3>2. Uncommented(Uncommented(l, token), token) = Uncommented(l, token)
      BY <2>1, <3>1, UncommentedTwice
    <3> QED  BY <3>1, <3>2 DEF EditedLine, l, token
  <2> QED  BY <2>2, <2>3
<1> HIDE DEF op, lines
<1>5. newer = new
  BY <1>4
<1>6. /\ Edited(original, op) = [lines |-> new, ended |-> original.ended]
      /\ Edited([lines |-> new, ended |-> original.ended], op) = [lines |-> newer, ended |-> original.ended]
  <2> HIDE DEF newer
  <2>1. Edited([lines |-> new, ended |-> original.ended], op) = [lines |-> newer, ended |-> original.ended]
    <3> HIDE DEF new
    <3> QED  BY EditedFacts DEF newer
  <2> QED  BY <1>1, <2>1, EditedFacts
<1> QED  BY <1>5, <1>6 DEF op

LEMMA SedKeepsFile ==
  ASSUME IInv, OpPart, SedPart, original \in Originals, ~how.warnOnly, [Next]_vars
  PROVE  SedPart'
<1>1. /\ Undisturbed' = Undisturbed /\ script' = script /\ original' = original
      /\ OneComment' = OneComment /\ OneUncomment' = OneUncomment
  BY NextTask, SameTask
<1> SUFFICES ASSUME OneComment \/ OneUncomment PROVE SedPart'
  BY <1>1 DEF SedPart
<1>2. Len(script) = 1 /\ script[1].name \in {"comment", "uncomment"} /\ call \in 1..2
  <2>1. Len(script) = 1 /\ script[1].name \in {"comment", "uncomment"}
    BY DEF OneComment, OneUncomment
  <2>2. call \in 1..(Len(script) + 1)
    BY DEF IInv, TypeOK
  <2> QED  BY <2>1, <2>2
<1>3. pc \notin {"call", "stopped"} => pc = "sed" /\ call = 1 /\ Op = script[1]
  <2> SUFFICES ASSUME pc \notin {"call", "stopped"} PROVE pc = "sed" /\ call = 1 /\ Op = script[1]
    OBVIOUS
  <2>1. call = 1 /\ Op = script[1]
    BY <1>2 DEF IInv, PcPart, Op
  <2> QED  BY <1>2, <2>1 DEF IInv, PcPart, OpPart, Uploading
<1>4. ASSUME file' = file, call' \in {call, 1} PROVE SedPart'
  BY <1>1, <1>4 DEF SedPart
<1>5. Undisturbed[1] = Edited(original, script[1])
  <2>1. Undisturbed[1] = Result(Undisturbed[0], script[1]) /\ Undisturbed[0] = original
    BY <1>2, CallByCall
  <2> QED  BY <1>2, <2>1 DEF Result
<1>6. ASSUME Sed PROVE SedPart'
  <2>1. pc = "sed" /\ file # None /\ file' = Edited(file, Op) /\ (Returned \/ Raises)
    BY <1>6 DEF Sed, Changes, Ignored
  <2>2. original # None /\ file \in {original, Undisturbed[1]} /\ Op = script[1]
    BY <1>3, <2>1 DEF SedPart
  <2>3. file' = Undisturbed[1]
    BY <1>5, <2>1, <2>2, EditedTwice
  <2> QED  BY <1>1, <2>2, <2>3 DEF SedPart
<1>7. ASSUME Call \/ Stops \/ SedFails \/ Again \/ UNCHANGED vars PROVE SedPart'
  BY <1>4, <1>7 DEF Call, Stops, Raises, SedFails, Again, Goes, vars, place
<1> QED
  BY <1>3, <1>6, <1>7
  DEF Next, Look, AllAppended, Echo, Save, Copy, Put, Pack, Send, Untar, RemoveArchive, Clean

-----------------------------------------------------------------------------
(* A task that only appends.                                               *)

LEMMA AppendOps ==
  ASSUME IInv, OnlyAppends, NEW i \in 1..Len(script)
  PROVE  script[i].name = "append" /\ script[i].texts \in Seq(OneLine) /\ Len(script[i].texts) \in Nat
<1> DEFINE op == script[i]
           texts == op.texts
<1>1. script \in Seq(Operations) /\ DOMAIN script = 1..Len(script)
  BY ScriptAssumption, LenProperties DEF IInv
<1>2. op \in Operations
  BY <1>1, ElementOfSeq
<1>3. op.name = "append" /\ \A j \in DOMAIN texts : Len(texts[j]) = 1 /\ texts[j] # Blank
  BY <1>1 DEF OnlyAppends
<1> HIDE DEF op
<1>4. texts \in Seq(Seq(Line))
  BY <1>2, <1>3 DEF Operations
<1> HIDE DEF texts
<1>5. Len(texts) \in Nat /\ DOMAIN texts = 1..Len(texts) /\ texts = [j \in 1..Len(texts) |-> texts[j]]
  BY <1>4, LenProperties
<1>6. ASSUME NEW j \in 1..Len(texts) PROVE texts[j] \in OneLine
  <2>1. texts[j] \in Seq(Line)
    BY <1>4, ElementOfSeq
  <2> QED  BY <1>3, <1>5, <2>1 DEF OneLine, texts
<1>7. texts \in [1..Len(texts) -> OneLine]
  BY <1>5, <1>6
<1>8. texts \in Seq(OneLine)
  BY <1>5, <1>7, SeqDef
<1> QED  BY <1>3, <1>5, <1>8 DEF op, texts

LEMMA AllCalls ==
  ASSUME IInv, OnlyAppends, original \in Originals
  PROVE  \A n \in 0..Len(script) : CallsAreIn(Undisturbed[n], n)
<1> DEFINE L == Len(script)
           U == Undisturbed
           T == {n \in Nat : n <= L => CallsAreIn(U[n], n)}
<1>1. L \in Nat
  BY ScriptAssumption, LenProperties DEF IInv
<1>2. U[0] = original /\ \A n \in 1..L : U[n] = Result(U[n - 1], script[n])
  BY <1>1, CallByCall
<1>3. \A i \in 1..L : script[i].name = "append" /\ script[i].texts \in Seq(OneLine) /\ Len(script[i].texts) \in Nat
  BY AppendOps
<1> HIDE DEF L, U
<1>4. 0 \in T
  <2>1. original \in EndedFile
    BY OriginalAssumption DEF EndedFile, OnlyAppends
  <2> QED  BY <1>2, <2>1 DEF CallsAreIn
<1>5. ASSUME NEW n \in Nat, n \in T PROVE n + 1 \in T
  <2> SUFFICES ASSUME n + 1 <= L PROVE CallsAreIn(U[n + 1], n + 1)
    OBVIOUS
  <2>1. n <= L /\ n + 1 \in 1..L /\ (n + 1) - 1 = n
    BY <1>1
  <2> DEFINE op == script[n + 1]
             texts == op.texts
  <2>2. op.name = "append" /\ texts \in Seq(OneLine) /\ Len(texts) \in Nat
    BY <1>3, <2>1
  <2>3. U[n + 1] = WithTexts(U[n], texts)[Len(texts)]
    BY <1>2, <2>1, <2>2 DEF Result
  <2>4. CallsAreIn(U[n], n)
    BY <1>5, <2>1
  <2>5. TextsAreIn(U[n], U[n + 1], texts, Len(texts))
    <3>1. U[n] \in EndedFile /\ Len(texts) \in 0..Len(texts)
      BY <2>2, <2>4 DEF CallsAreIn
    <3> HIDE DEF texts
    <3>2. TextsAreIn(U[n], WithTexts(U[n], texts)[Len(texts)], texts, Len(texts))
      BY <2>2, <3>1, AllTexts
    <3> QED  BY <2>3, <3>2
  <2>6. ASSUME NEW i \in 1..(n + 1), NEW j \in 1..Len(script[i].texts)
        PROVE  Present(U[n + 1], script[i].texts[j])
    <3>1. CASE i = n + 1
      BY <2>5, <3>1 DEF TextsAreIn
    <3>2. CASE i \in 1..n
      <4>1. Present(U[n], script[i].texts[j])
        BY <2>4, <3>2 DEF CallsAreIn
      <4>2. i \in 1..L
        BY <1>1, <2>1, <3>2
      <4>3. script[i].texts[j] \in OneLine
        BY <1>3, <4>2, ElementOfSeq
      <4> QED  BY <2>5, <4>1, <4>3 DEF TextsAreIn
    <3> QED  BY <3>1, <3>2
  <2> QED  BY <2>5, <2>6 DEF CallsAreIn, TextsAreIn
<1>6. Nat \subseteq T
  <2> HIDE DEF T
  <2> QED  BY <1>4, <1>5, SetInduction
<1> QED  BY <1>1, <1>6 DEF L, U

\* What is in the file at a place: the texts of the calls done, and of the next one.
LEMMA PlaceHas ==
  ASSUME IInv, OnlyAppends, original \in Originals, NEW c, NEW n, IsPlace(c, n)
  PROVE  /\ CallsAreIn(Place(c, n), c)
         /\ c < Len(script) => \A j \in 1..n : Present(Place(c, n), script[c + 1].texts[j])
<1>1. Len(script) \in Nat /\ c \in 0..Len(script) /\ n \in Nat
  BY ScriptAssumption, LenProperties DEF IInv, IsPlace
<1>2. CallsAreIn(Undisturbed[c], c)
  BY <1>1, AllCalls
<1>3. CASE c < Len(script)
  <2> DEFINE texts == script[c + 1].texts
             U == Undisturbed[c]
             P == Place(c, n)
  <2>1. c + 1 \in 1..Len(script)
    BY <1>1, <1>3
  <2>2. texts \in Seq(OneLine) /\ Len(texts) \in Nat
    BY <2>1, AppendOps
  <2>3. n \in 0..Len(texts) /\ U \in EndedFile
    BY <1>1, <1>2, <1>3, <2>2 DEF IsPlace, CallsAreIn
  <2>4. P = WithTexts(U, texts)[n]
    BY <1>3 DEF Place
  <2>5. TextsAreIn(U, P, texts, n)
    <3> HIDE DEF U, P, texts
    <3> QED  BY <2>2, <2>3, <2>4, AllTexts
  <2>6. ASSUME NEW i \in 1..c, NEW j \in 1..Len(script[i].texts)
        PROVE  Present(P, script[i].texts[j])
    <3>1. i \in 1..Len(script)
      BY <1>1
    <3>2. script[i].texts[j] \in OneLine
      BY <3>1, AppendOps, ElementOfSeq
    <3> QED  BY <1>2, <2>5, <3>2 DEF CallsAreIn, TextsAreIn
  <2> QED  BY <2>5, <2>6 DEF CallsAreIn, TextsAreIn
<1>4. CASE ~(c < Len(script))
  BY <1>2, <1>4 DEF Place
<1> QED  BY <1>3, <1>4

LEMMA AppendsTo ==
  ASSUME UNCHANGED task, NEW c, NEW n, IsPlace(c, n), file' = Place(c, n),
         pc' # "stopped" => NotBehind(c, n)',
         pc' = "echo" => file' = Place(call - 1, at - 1)'
  PROVE  AppendPart'
<1>1. Undisturbed' = Undisturbed /\ script' = script
  BY SameTask
<1>2. IsPlace(c, n)' /\ file' = Place(c, n)'
  BY <1>1 DEF IsPlace, Place
<1> QED  BY <1>2 DEF AppendPart

\* A file with the call's texts before the next one has it, or that one is next.
LEMMA LookFacts ==
  ASSUME IInv, OnlyAppends, original \in Originals, pc \in {"look", "echo"},
         NEW c, NEW n, IsPlace(c, n), NotBehind(c, n)
  PROVE  /\ call \in 1..Len(script) /\ at \in 1..(Len(Op.texts) + 1) /\ Len(Op.texts) \in Nat
         /\ c \in 0..Len(script) /\ n \in Nat /\ (c = call - 1 => n <= Len(Op.texts))
         /\ c = call - 1 => Place(c, n) = WithTexts(Undisturbed[call - 1], Op.texts)[n]
         /\ at <= Len(Op.texts) /\ ~(c = call - 1 /\ n = at - 1)
              => Present(Place(c, n), Op.texts[at])
<1>1. call \in 1..Len(script) /\ at \in 1..(Len(Op.texts) + 1) /\ Len(Op.texts) \in Nat
  BY AppendOps, CallFacts DEF IInv, PcPart, TypeOK, Op
<1>2. c \in 0..Len(script) /\ n \in Nat /\ Len(script) \in Nat
  BY ScriptAssumption, LenProperties DEF IInv, IsPlace
<1>3. CASE c = call - 1
  <2>1. c < Len(script) /\ c + 1 = call /\ script[c + 1] = Op
    BY <1>1, <1>2, <1>3 DEF Op
  <2>2. n <= Len(Op.texts) /\ Place(c, n) = WithTexts(Undisturbed[call - 1], Op.texts)[n]
    BY <1>3, <2>1 DEF IsPlace, Place
  <2>3. at - 1 <= n
    BY <1>1, <1>3 DEF NotBehind
  <2>4. n # at - 1 => at \in 1..n
    BY <1>1, <1>2, <2>3
  <2>5. \A j \in 1..n : Present(Place(c, n), Op.texts[j])
    BY <2>1, PlaceHas
  <2> QED  BY <1>1, <1>2, <1>3, <2>2, <2>4, <2>5
<1>4. CASE c # call - 1
  <2>1. call \in 1..c
    BY <1>1, <1>2, <1>4 DEF NotBehind
  <2>2. at <= Len(Op.texts) => at \in 1..Len(script[call].texts)
    BY <1>1 DEF Op
  <2>3. at <= Len(Op.texts) => Present(Place(c, n), script[call].texts[at])
    BY <2>1, <2>2, PlaceHas DEF CallsAreIn
  <2> QED  BY <1>1, <1>2, <1>4, <2>3 DEF Op
<1> QED  BY <1>3, <1>4

\* The place of a call of append() under way.
LEMMA OwnPlace ==
  ASSUME IInv, call \in 1..Len(script), NEW n \in Nat, n <= Len(Op.texts)
  PROVE  /\ IsPlace(call - 1, n)
         /\ Place(call - 1, n) = WithTexts(Undisturbed[call - 1], Op.texts)[n]
<1>1. Len(script) \in Nat
  BY ScriptAssumption, LenProperties DEF IInv
<1>2. call - 1 \in 0..Len(script) /\ call - 1 < Len(script) /\ (call - 1) + 1 = call
  BY <1>1
<1> QED  BY <1>2 DEF IsPlace, Place, Op

\* The place of the calls done before the one that comes.
LEMMA NextPlace ==
  ASSUME IInv, OnlyAppends, NEW c \in 0..Len(script)
  PROVE  IsPlace(c, 0) /\ Place(c, 0) = Undisturbed[c]
<1>1. Len(script) \in Nat
  BY ScriptAssumption, LenProperties DEF IInv
<1>2. CASE c < Len(script)
  <2>1. c + 1 \in 1..Len(script)
    BY <1>1, <1>2
  <2>2. Len(script[c + 1].texts) \in Nat
    BY <2>1, AppendOps
  <2> DEFINE texts == script[c + 1].texts
  <2>3. WithTexts(Undisturbed[c], texts)[0] = Undisturbed[c]
    BY <2>2, TextByText
  <2>4. 0 <= Len(texts)
    BY <2>2
  <2> QED  BY <1>2, <2>3, <2>4 DEF IsPlace, Place
<1> QED  BY <1>2 DEF IsPlace, Place

\* A task that only appends does nothing else.
LEMMA AppendsOnly ==
  ASSUME IInv, OpPart, OnlyAppends, pc \notin {"call", "stopped"}
  PROVE  pc \in {"look", "echo"} /\ call \in 1..Len(script) /\ Op.name = "append"
<1>1. call \in 1..Len(script)
  BY CallFacts DEF IInv, PcPart
<1>2. Op.name = "append"
  BY <1>1, AppendOps DEF Op
<1>3. pc \notin {"save", "copy", "put", "sed"} /\ pc \notin Uploading
  BY <1>2 DEF OpPart
<1> QED  BY <1>1, <1>2, <1>3 DEF IInv, PcPart, Uploading

LEMMA AppendKeeps ==
  ASSUME IInv, OpPart, AppendPart, original \in Originals, ~how.warnOnly, Undeceived', [Next]_vars
  PROVE  AppendPart'
<1>1. UNCHANGED task
  BY NextTask
<1>2. OnlyAppends' = OnlyAppends /\ script' = script
  BY <1>1, SameTask
<1> SUFFICES ASSUME OnlyAppends PROVE AppendPart'
  BY <1>2 DEF AppendPart
<1>3. PICK c, n : IsPlace(c, n) /\ file = Place(c, n) /\ (pc # "stopped" => NotBehind(c, n))
  BY DEF AppendPart
<1>4. call \in 1..(Len(script) + 1) /\ Len(script) \in Nat /\ c \in 0..Len(script) /\ n \in Nat
  BY <1>3, ScriptAssumption, LenProperties DEF IInv, TypeOK, IsPlace
<1>5. pc \notin {"call", "stopped"} => pc \in {"look", "echo"} /\ call \in 1..Len(script) /\ Op.name = "append"
  BY AppendsOnly
<1>6. ASSUME Call PROVE AppendPart'
  <2>1. /\ pc = "call" /\ call \in 1..Len(script) /\ call' = call /\ file' = file /\ at' = 1
        /\ pc' = "look"
    <3>1. pc = "call" /\ call \in 1..Len(script) /\ call' = call /\ file' = file /\ at' = 1
      BY <1>4, <1>6 DEF Call
    <3>2. Op.name = "append"
      BY <3>1, AppendOps DEF Op
    <3> QED  BY <1>6, <3>1, <3>2 DEF Call
  <2>2. NotBehind(c, n)'
    <3>1. call - 1 < c \/ call - 1 = c
      BY <1>3, <2>1 DEF NotBehind
    <3>2. at' - 1 <= n
      BY <1>4, <2>1
    <3> QED  BY <2>1, <3>1, <3>2 DEF NotBehind
  <2> QED  BY <1>1, <1>3, <2>1, <2>2, AppendsTo
<1>7. ASSUME Stops PROVE AppendPart'
  <2>1. file' = file /\ pc' = "stopped"
    BY <1>5, <1>7, RaisesTo DEF Stops, Uploading
  <2> QED  BY <1>1, <1>3, <2>1, AppendsTo
<1>8. ASSUME Look \/ AllAppended PROVE AppendPart'
  <2>1. pc = "look" /\ file' = file /\ NotBehind(c, n)
    BY <1>3, <1>8 DEF Look, AllAppended
  <2>2. /\ call \in 1..Len(script) /\ at \in 1..(Len(Op.texts) + 1) /\ Len(Op.texts) \in Nat
        /\ c = call - 1 => n <= Len(Op.texts)
        /\ c = call - 1 => file = WithTexts(Undisturbed[call - 1], Op.texts)[n]
        /\ at <= Len(Op.texts) /\ ~(c = call - 1 /\ n = at - 1) => Present(file, Op.texts[at])
    BY <1>3, <2>1, LookFacts
  <2>3. call - 1 < c \/ (call - 1 = c /\ at - 1 <= n)
    BY <2>1 DEF NotBehind
  <2>4. CASE at > Len(Op.texts) /\ Returned /\ at' = at
    <3>1. pc' = "call" /\ call' = call + 1 /\ call' - 1 = call
      BY <2>2, <2>4 DEF Returned
    <3>2. CASE call - 1 < c
      <4>1. call < c \/ call = c
        BY <1>4, <2>2, <3>2
      <4>2. NotBehind(c, n)'
        BY <3>1, <4>1 DEF NotBehind
      <4> QED  BY <1>1, <1>3, <2>1, <3>1, <4>2, AppendsTo
    <3>3. CASE call - 1 = c
      <4>1. n = at - 1
        BY <1>4, <2>2, <2>3, <2>4, <3>3
      <4>2. file = Undisturbed[call]
        BY <2>1, <2>2, <2>4, <3>3, <4>1, TextsDone
      <4>3. call \in 0..Len(script)
        BY <2>2
      <4>4. PICK d : d = call
        OBVIOUS
      <4>5. IsPlace(d, 0) /\ Place(d, 0) = file
        BY <4>2, <4>3, <4>4, NextPlace
      <4>6. NotBehind(d, 0)'
        BY <3>1, <4>4 DEF NotBehind
      <4> QED  BY <1>1, <2>1, <3>1, <4>5, <4>6, AppendsTo
    <3> QED  BY <2>3, <3>2, <3>3
  <2>5. CASE at <= Len(Op.texts) /\ Present(file, Op.texts[at]) /\ Goes("look") /\ at' = at + 1
    <3>1. pc' = "look" /\ call' = call /\ at' - 1 = at
      BY <2>2, <2>5 DEF Goes, place
    <3>2. CASE call - 1 < c \/ (call - 1 = c /\ at <= n)
      <4>1. NotBehind(c, n)'
        BY <3>1, <3>2 DEF NotBehind
      <4> QED  BY <1>1, <1>3, <2>1, <3>1, <4>1, AppendsTo
    <3>3. CASE call - 1 = c /\ ~(at <= n)
      <4>1. n = at - 1
        BY <1>4, <2>2, <2>3, <3>3
      <4>2. WithTexts(Undisturbed[call - 1], Op.texts)[(at + 1) - 1] = file
        BY <2>1, <2>2, <2>5, <3>3, <4>1, TextDone DEF WithText
      <4>3. at \in Nat /\ (at + 1) - 1 = at
        BY <2>2
      <4>4. PICK m : m = at
        OBVIOUS
      <4>5. IsPlace(c, m) /\ Place(c, m) = file
        BY <2>2, <2>5, <3>3, <4>2, <4>3, <4>4, OwnPlace
      <4>6. NotBehind(c, m)'
        BY <3>1, <3>3, <4>3, <4>4 DEF NotBehind
      <4> QED  BY <1>1, <2>1, <3>1, <4>5, <4>6, AppendsTo
    <3> QED  BY <2>3, <3>2, <3>3
  <2>6. CASE at <= Len(Op.texts) /\ ~Present(file, Op.texts[at]) /\ Goes("echo") /\ at' = at
    <3>1. pc' = "echo" /\ call' = call
      BY <2>6 DEF Goes, place
    <3>2. c = call - 1 /\ n = at - 1
      BY <2>2, <2>6
    <3>3. NotBehind(c, n)'
      BY <2>3, <2>6, <3>1, <3>2 DEF NotBehind
    <3>4. Undisturbed' = Undisturbed
      BY <1>1, SameTask
    <3>5. Place(call - 1, at - 1)' = Place(c, n)
      BY <1>2, <2>6, <3>1, <3>2, <3>4 DEF Place
    <3> QED  BY <1>1, <1>3, <2>1, <3>3, <3>5, AppendsTo
  <2> QED  BY <1>8, <2>4, <2>5, <2>6, LookIs DEF AllAppended
<1>9. ASSUME Echo PROVE AppendPart'
  <2>1. /\ pc = "echo" /\ call \in 1..Len(script) /\ at <= Len(Op.texts)
        /\ ~Present(file, Op.texts[at]) /\ file = Place(call - 1, at - 1)
    BY <1>5, <1>9, StillMisled DEF Echo, IInv, PcPart, OpPart, AppendPart
  <2>2. at \in 1..Len(Op.texts) /\ at \in Nat /\ at - 1 \in Nat /\ at - 1 <= Len(Op.texts) /\ (at + 1) - 1 = at
    <3>1. at \in 1..Len(Op.texts)
      BY <2>1, TextDone
    <3>2. Len(Op.texts) \in Nat
      BY <2>1, AppendOps DEF Op
    <3> QED  BY <3>1, <3>2
  <2>3. file' = Appended(file, Op.texts[at])
    BY <1>9 DEF Echo, Changes, Ignored
  <2>4. file = WithTexts(Undisturbed[call - 1], Op.texts)[at - 1]
    BY <2>1, <2>2, OwnPlace
  <2>5. WithTexts(Undisturbed[call - 1], Op.texts)[(at + 1) - 1] = file'
    BY <2>1, <2>3, <2>4, TextDone DEF WithText
  <2>6. PICK d, m : d = call - 1 /\ m = at /\ IsPlace(d, m) /\ file' = Place(d, m)
    BY <2>1, <2>2, <2>5, OwnPlace
  <2>7. CASE NextText
    <3>1. pc' = "look" /\ call' = call /\ at' - 1 = at
      BY <2>2, <2>7 DEF NextText, Goes, place
    <3>2. NotBehind(d, m)'
      BY <2>2, <2>6, <3>1 DEF NotBehind
    <3> QED  BY <1>1, <2>6, <3>1, <3>2, AppendsTo
  <2>8. CASE Raises
    <3>1. pc' = "stopped"
      BY <2>1, <2>8, RaisesTo DEF Uploading
    <3> QED  BY <1>1, <2>6, <3>1, AppendsTo
  <2> QED  BY <1>9, <2>7, <2>8 DEF Echo, Changes, Ignored
<1>10. ASSUME Again PROVE AppendPart'
  <2>1. file' = file /\ pc' = "call" /\ call' = 1
    BY <1>10 DEF Again
  <2>2. NotBehind(c, n)'
    BY <1>4, <2>1 DEF NotBehind
  <2> QED  BY <1>1, <1>3, <2>1, <2>2, AppendsTo
<1>11. ASSUME UNCHANGED vars PROVE AppendPart'
  <2>1. file' = file /\ pc' = pc /\ call' = call /\ at' = at /\ script' = script
    BY <1>11 DEF vars, place, task
  <2>2. Undisturbed' = Undisturbed
    BY <1>1, SameTask
  <2>3. NotBehind(c, n)' = NotBehind(c, n) /\ Place(call - 1, at - 1)' = Place(call - 1, at - 1)
    BY <2>1, <2>2 DEF NotBehind, Place
  <2>4. pc = "echo" => file = Place(call - 1, at - 1)
    BY DEF AppendPart
  <2> QED  BY <1>1, <1>3, <2>1, <2>3, <2>4, AppendsTo
<1> QED
  BY <1>5, <1>6, <1>7, <1>8, <1>9, <1>10, <1>11
  DEF Next, Save, Copy, Put, Sed, SedFails, Pack, Send, Untar, RemoveArchive, Clean

\* What echo >> adds is wanted, and what was there stays in its place.
LEMMA EchoGrows ==
  ASSUME IInv, OnlyAppends, NEW f \in EndedFile, Grown(LinesOf(f)),
         NEW text \in OneLine, text[1] \in Wanted
  PROVE  Grown(LinesOf(Appended(f, text)))
<1>1. PICK before, all \in Seq(Line) :
        /\ before = LinesOf(f) /\ Appended(f, text) = Text(all)
        /\ Len(before) \in Nat /\ Len(all) = Len(before) + 1
        /\ \A i \in 1..Len(before) : all[i] = before[i]
        /\ all[Len(before) + 1] = text[1]
  BY OneEcho, Zenon
<1>2. LinesOf(Appended(f, text)) = all
  <2>1. Appended(f, text) # None
    <3>1. [lines |-> all, ended |-> TRUE] \in File
      BY <1>1 DEF File
    <3> QED  BY <1>1, <3>1, OriginalAssumption DEF Text
  <2> QED  BY <1>1, <2>1 DEF LinesOf, Text
<1> DEFINE first == LinesOf(original)
           allowed == ToSet(first) \cup Wanted
<1>3. Begins(first, before) /\ \A i \in 1..Len(before) : before[i] \in allowed
  BY <1>1 DEF Grown
<1> HIDE DEF first, allowed
<1>4. Begins(first, all)
  <2>1. Len(first) <= Len(before) /\ \A i \in 1..Len(first) : before[i] = first[i]
    BY <1>3 DEF Begins
  <2> QED  BY <1>1, <2>1 DEF Begins
<1>5. \A i \in 1..Len(all) : all[i] \in allowed
  BY <1>1, <1>3 DEF allowed
<1> QED  BY <1>2, <1>4, <1>5 DEF Grown, first, allowed

\* A step that leaves the file alone.
LEMMA FileStays ==
  ASSUME UNCHANGED task, ExtendPart, file' = file,
         OnlyAppends /\ pc' # "stopped" => CallsAreIn(file, call - 1)' /\ TextsPassed'
  PROVE  ExtendPart'
<1>1. OnlyAppends' = OnlyAppends /\ script' = script /\ original' = original
  BY SameTask
<1> QED  BY <1>1 DEF ExtendPart, Grown, Wanted

LEMMA ExtendKeeps ==
  ASSUME IInv, OpPart, ExtendPart, ~how.warnOnly, [Next]_vars
  PROVE  ExtendPart'
<1>1. UNCHANGED task
  BY NextTask
<1>2. OnlyAppends' = OnlyAppends /\ script' = script
  BY <1>1, SameTask
<1> SUFFICES ASSUME OnlyAppends PROVE ExtendPart'
  BY <1>2 DEF ExtendPart
<1>3. /\ file \in EndedFile /\ Grown(LinesOf(file))
      /\ pc # "stopped" => CallsAreIn(file, call - 1) /\ TextsPassed
  BY DEF ExtendPart
<1>4. pc \notin {"call", "stopped"} => pc \in {"look", "echo"} /\ call \in 1..Len(script) /\ Op.name = "append"
  BY AppendsOnly
<1>5. call \in Nat
  BY Sorts
<1>6. ASSUME pc \in {"look", "echo"}
      PROVE  /\ Len(Op.texts) \in Nat /\ at \in 1..(Len(Op.texts) + 1)
             /\ \A j \in 1..Len(Op.texts) : Op.texts[j] \in OneLine
             /\ \A i \in 1..(call - 1) : \A j \in 1..Len(script[i].texts) : script[i].texts[j] \in OneLine
  <2>1. call \in 1..Len(script) /\ Len(script) \in Nat
    BY <1>4, <1>6, Sorts
  <2>2. Op.texts \in Seq(OneLine) /\ Len(Op.texts) \in Nat
    BY <2>1, AppendOps DEF Op
  <2>3. ASSUME NEW i \in 1..(call - 1), NEW j \in 1..Len(script[i].texts)
        PROVE  script[i].texts[j] \in OneLine
    <3>1. i \in 1..Len(script)
      BY <2>1
    <3> QED  BY <3>1, AppendOps, ElementOfSeq
  <2>4. at \in 1..(Len(Op.texts) + 1)
    BY <1>6 DEF IInv, TypeOK
  <2>5. \A j \in 1..Len(Op.texts) : Op.texts[j] \in OneLine
    BY <2>2, ElementOfSeq
  <2> QED  BY <2>2, <2>3, <2>4, <2>5
<1>7. ASSUME Call PROVE ExtendPart'
  <2>1. /\ pc = "call" /\ call' = call /\ file' = file /\ at' = 1
    BY <1>7 DEF Call
  <2>2. CallsAreIn(file, call - 1)' /\ TextsPassed'
    BY <1>2, <1>3, <2>1 DEF CallsAreIn, TextsPassed
  <2> QED  BY <1>1, <2>1, <2>2, FileStays
<1>8. ASSUME Stops PROVE ExtendPart'
  <2>1. file' = file /\ pc' = "stopped"
    BY <1>4, <1>8, RaisesTo DEF Stops, Uploading
  <2> QED  BY <1>1, <2>1, FileStays
<1>9. ASSUME Look PROVE ExtendPart'
  <2>1. /\ pc = "look" /\ at <= Len(Op.texts) /\ file' = file
        /\ CallsAreIn(file, call - 1) /\ TextsPassed
    BY <1>3, <1>9, LookIs
  <2>2. /\ call' = call /\ Op' = Op
        /\ at' = at \/ (at' = at + 1 /\ Present(file, Op.texts[at]))
    BY <1>9, LookIs DEF Goes, Op, place, task
  <2>3. TextsPassed'
    <3> SUFFICES ASSUME NEW j \in 1..(at' - 1) PROVE Present(file, Op.texts[j])
      BY <2>1, <2>2 DEF TextsPassed
    <3>1. j \in 1..(at - 1) \/ (j = at /\ at' = at + 1)
      BY <1>6, <2>1, <2>2
    <3> QED  BY <2>1, <2>2, <3>1 DEF TextsPassed
  <2>4. CallsAreIn(file, call - 1)'
    BY <1>2, <2>1, <2>2 DEF CallsAreIn
  <2> QED  BY <1>1, <2>1, <2>3, <2>4, FileStays
<1>10. ASSUME AllAppended PROVE ExtendPart'
  <2>1. /\ pc = "look" /\ at > Len(Op.texts) /\ file' = file /\ pc' = "call" /\ call' = call + 1
        /\ CallsAreIn(file, call - 1) /\ TextsPassed
    BY <1>3, <1>10 DEF AllAppended, Returned
  <2>2. at - 1 = Len(Op.texts)
    <3>1. Len(Op.texts) \in Nat /\ at \in 1..(Len(Op.texts) + 1)
      BY <1>6, <2>1
    <3>2. at > Len(Op.texts)
      BY <2>1
    <3> QED  BY <3>1, <3>2
  <2>3. ASSUME NEW i \in 1..call, NEW j \in 1..Len(script[i].texts)
        PROVE  Present(file, script[i].texts[j])
    <3>1. CASE i \in 1..(call - 1)
      BY <2>1, <3>1 DEF CallsAreIn
    <3>2. CASE i = call
      BY <2>1, <2>2, <3>2 DEF TextsPassed, Op
    <3> QED  BY <1>5, <3>1, <3>2
  <2>4. call' - 1 = call
    BY <1>5, <2>1
  <2>5. CallsAreIn(file, call - 1)' /\ TextsPassed'
    BY <1>2, <1>3, <2>1, <2>3, <2>4 DEF CallsAreIn, TextsPassed
  <2> QED  BY <1>1, <2>1, <2>5, FileStays
<1>11. ASSUME Echo PROVE ExtendPart'
  <2> DEFINE text == Op.texts[at]
  <2>1. /\ pc = "echo" /\ file' = Appended(file, text) /\ (NextText \/ Raises)
        /\ CallsAreIn(file, call - 1) /\ TextsPassed
    BY <1>3, <1>11 DEF Echo, Changes, Ignored
  <2>2. at \in 1..Len(Op.texts) /\ call \in 1..Len(script) /\ Len(Op.texts) \in Nat
    BY <1>4, <1>6, <2>1 DEF IInv, PcPart
  <2>3. text \in OneLine
    BY <1>6, <2>1, <2>2
  <2>4. text[1] \in Wanted
    <3>1. Op.texts \in Seq(OneLine) /\ script \in Seq(Operations)
      BY <2>2, AppendOps, ScriptAssumption DEF Op, IInv
    <3>2. DOMAIN Op.texts = 1..Len(Op.texts) /\ DOMAIN script = 1..Len(script)
      BY <3>1, LenProperties
    <3>3. text \in ToSet(Op.texts) /\ Op \in ToSet(script)
      BY <2>2, <3>2 DEF ToSet, Op
    <3> QED  BY <3>3 DEF Wanted
  <2> HIDE DEF text
  <2>5. /\ file' \in EndedFile /\ Present(file', text)
        /\ \A other \in OneLine : Present(file, other) => Present(file', other)
    BY <1>3, <2>1, <2>3, EchoKeepsTexts
  <2>6. Grown(LinesOf(file'))
    BY <1>3, <2>1, <2>3, <2>4, EchoGrows
  <2>7. CallsAreIn(file', call - 1)
    BY <1>6, <2>1, <2>5 DEF CallsAreIn
  <2>8. ASSUME NEW j \in 1..at PROVE Present(file', Op.texts[j])
    <3>1. CASE j \in 1..(at - 1)
      BY <1>6, <2>1, <2>2, <2>5, <3>1 DEF TextsPassed
    <3>2. CASE j = at
      BY <2>5, <3>2 DEF text
    <3> QED  BY <2>2, <3>1, <3>2
  <2>9. pc' # "stopped" => CallsAreIn(file, call - 1)' /\ TextsPassed'
    <3>1. CASE NextText
      <4>1. pc' = "look" /\ call' = call /\ Op' = Op /\ at' = at + 1 /\ at' - 1 = at
        BY <2>2, <3>1 DEF NextText, Goes, Op, place, task
      <4> QED  BY <1>2, <2>7, <2>8, <4>1 DEF CallsAreIn, TextsPassed
    <3>2. CASE Raises
      BY <2>1, <3>2, RaisesTo DEF Uploading
    <3> QED  BY <2>1, <3>1, <3>2
  <2>10. original' = original /\ Wanted' = Wanted
    BY <1>1, <1>2, SameTask DEF Wanted
  <2> QED  BY <2>5, <2>6, <2>9, <2>10 DEF ExtendPart, Grown
<1>12. ASSUME Again PROVE ExtendPart'
  <2>1. file' = file /\ pc' = "call" /\ call' = 1
    BY <1>12 DEF Again
  <2>2. CallsAreIn(file, call - 1)' /\ TextsPassed'
    BY <1>3, <2>1 DEF CallsAreIn, TextsPassed
  <2> QED  BY <1>1, <2>1, <2>2, FileStays
<1>13. ASSUME UNCHANGED vars PROVE ExtendPart'
  <2>1. file' = file /\ pc' = pc /\ call' = call /\ at' = at /\ Op' = Op
    BY <1>13 DEF vars, place, task, Op
  <2>2. pc # "stopped" => CallsAreIn(file, call - 1)' /\ TextsPassed'
    BY <1>2, <1>3, <2>1 DEF CallsAreIn, TextsPassed
  <2> QED  BY <1>1, <2>1, <2>2, FileStays
<1> QED
  BY <1>4, <1>7, <1>8, <1>9, <1>10, <1>11, <1>12, <1>13
  DEF Next, Save, Copy, Put, Sed, SedFails, Pack, Send, Untar, RemoveArchive, Clean

\* A file that has grown and has all texts of the task.
LEMMA AllIn ==
  ASSUME IInv, OnlyAppends, Grown(LinesOf(file)), CallsAreIn(file, Len(script)), original \in Originals
  PROVE  Extended
<1>1. file \in EndedFile /\ script \in Seq(Operations) /\ DOMAIN script = 1..Len(script)
  BY ScriptAssumption, LenProperties DEF CallsAreIn, IInv
<1>2. LinesOf(file) \in Seq(Line)
  <2>1. CASE file = None
    BY <2>1, EmptySeq DEF LinesOf
  <2>2. CASE file # None
    BY <1>1, <2>2 DEF LinesOf, EndedFile, File
  <2> QED  BY <2>1, <2>2
<1>3. LinesOf(original) \in Seq(Line)
  <2>1. CASE original = None
    BY <2>1, EmptySeq DEF LinesOf
  <2>2. CASE original # None
    BY <2>2, OriginalAssumption DEF LinesOf, File
  <2> QED  BY <2>1, <2>2
<1> DEFINE first == LinesOf(original)
           lines == LinesOf(file)
<1>4. Begins(first, lines) /\ \A i \in 1..Len(lines) : lines[i] \in ToSet(first) \cup Wanted
  BY DEF Grown
<1>5. first \in Seq(Line) /\ lines \in Seq(Line)
  BY <1>2, <1>3
<1>6. Wanted \subseteq ToSet(lines)
  <2> SUFFICES ASSUME NEW i \in 1..Len(script), NEW text \in ToSet(script[i].texts)
               PROVE  text[1] \in ToSet(lines)
    BY <1>1 DEF Wanted, ToSet
  <2>1. script[i].texts \in Seq(OneLine)
    BY AppendOps
  <2>2. PICK j \in 1..Len(script[i].texts) : text = script[i].texts[j]
    BY <2>1, LenProperties DEF ToSet
  <2>3. text \in OneLine /\ Present(file, text)
    BY <2>1, <2>2, ElementOfSeq DEF CallsAreIn
  <2>4. file # None /\ \E k \in 1..Len(file.lines) : file.lines[k] = text[1]
    BY <1>1, <2>3, PresentIs
  <2>5. PICK k \in 1..Len(lines) : lines[k] = text[1]
    BY <2>4 DEF LinesOf
  <2> HIDE DEF lines
  <2>6. k \in DOMAIN lines
    BY <1>5, LenProperties
  <2> QED  BY <2>5, <2>6 DEF ToSet
<1> HIDE DEF first, lines
<1>7. IsPrefix(first, lines)
  <2>1. Len(first) \in Nat /\ Len(lines) \in Nat /\ Len(first) <= Len(lines)
        /\ \A i \in 1..Len(first) : lines[i] = first[i]
    BY <1>4, <1>5, LenProperties DEF Begins
  <2>2. SubSeq(first, 1, Len(first)) = [i \in 1..Len(first) |-> first[i]]
    BY <1>5, <2>1
  <2>3. SubSeq(lines, 1, Len(first)) = [i \in 1..Len(first) |-> lines[i]]
    BY <1>5, <2>1
  <2>4. SubSeq(first, 1, Len(first)) = SubSeq(lines, 1, Len(first))
    BY <2>1, <2>2, <2>3
  <2> QED  BY <2>1, <2>4 DEF IsPrefix
<1>8. ToSet(lines) \subseteq ToSet(first) \cup Wanted
  <2>1. DOMAIN lines = 1..Len(lines)
    BY <1>5, LenProperties
  <2> SUFFICES ASSUME NEW i \in DOMAIN lines PROVE lines[i] \in ToSet(first) \cup Wanted
    BY DEF ToSet
  <2> QED  BY <1>4, <2>1
<1> QED  BY <1>6, <1>7, <1>8 DEF Extended, first, lines

-----------------------------------------------------------------------------
(* All of it together.                                                     *)

LEMMA FInit == Init => FInv
<1> SUFFICES ASSUME Init PROVE FInv
  OBVIOUS
<1>1. IInv /\ OpPart /\ original \in Originals
  BY InitHolds, OpInit DEF Init
<1>2. Len(script) \in Nat
  BY <1>1, ScriptAssumption, LenProperties DEF IInv
<1>3. call = 1 /\ pc = "call" /\ file = original
  BY DEF Init
<1>4. Undisturbed[0] = original
  BY <1>2, CallByCall
<1>5. AnewPart
  BY <1>3 DEF AnewPart
<1>6. AppendPart
  <2> SUFFICES ASSUME OnlyAppends PROVE AppendPart
    BY DEF AppendPart
  <2>1. IsPlace(0, 0) /\ Place(0, 0) = file
    BY <1>1, <1>2, <1>3, <1>4, NextPlace
  <2>2. NotBehind(0, 0)
    BY <1>3 DEF NotBehind
  <2> QED  BY <1>3, <2>1, <2>2 DEF AppendPart
<1>7. SedPart
  BY <1>3 DEF SedPart
<1>8. ExtendPart
  <2> SUFFICES ASSUME OnlyAppends PROVE ExtendPart
    BY DEF ExtendPart
  <2>1. file \in EndedFile
    BY <1>1, <1>3, OriginalAssumption DEF EndedFile, OnlyAppends
  <2>2. LinesOf(file) \in Seq(Line) /\ LinesOf(original) = LinesOf(file)
    <3>1. CASE file = None
      BY <1>3, <3>1, EmptySeq DEF LinesOf
    <3>2. CASE file # None
      BY <1>3, <2>1, <3>2 DEF LinesOf, EndedFile, File
    <3> QED  BY <3>1, <3>2
  <2>3. DOMAIN LinesOf(file) = 1..Len(LinesOf(file)) /\ Len(LinesOf(file)) \in Nat
    BY <2>2, LenProperties
  <2>4. Grown(LinesOf(file))
    BY <2>2, <2>3 DEF Grown, Begins, ToSet
  <2> QED  BY <1>3, <2>1, <2>4 DEF ExtendPart, CallsAreIn, TextsPassed
<1> QED  BY <1>1, <1>5, <1>6, <1>7, <1>8 DEF FInv

LEMMA FNext == FInv /\ [Next]_vars => FInv'
<1> SUFFICES ASSUME FInv, [Next]_vars PROVE FInv'
  OBVIOUS
<1>1. IInv /\ OpPart /\ original \in Originals
  BY DEF FInv
<1>2. IInv'
  BY <1>1, NextKeeps
<1>3. OpPart'
  BY <1>1, OpKeeps
<1>4. original' = original /\ how' = how
  BY NextTask, SameTask
<1>5. ASSUME ~how.warnOnly, Undeceived' PROVE AnewPart' /\ AppendPart' /\ SedPart'
  <2>1. AnewPart /\ AppendPart /\ SedPart
    BY <1>5, StillMisled DEF FInv
  <2> QED  BY <1>1, <1>5, <2>1, AnewKeeps, AppendKeeps, SedKeepsFile
<1>6. ASSUME ~how.warnOnly PROVE ExtendPart'
  BY <1>1, <1>6, ExtendKeeps DEF FInv
<1> QED  BY <1>1, <1>2, <1>3, <1>4, <1>5, <1>6 DEF FInv

LEMMA FInductive == Spec => []FInv
<1> QED  BY FInit, FNext, PTL DEF Spec

-----------------------------------------------------------------------------
(* The theorems.                                                           *)

\* The call under way is one of the task's, its text one of append()'s, and
\* upload_project() never has more folders than it has made.
THEOREM TypeCorrect == Spec => []TypeOK
<1>1. IInv => TypeOK
  BY DEF IInv
<1> QED  BY <1>1, Inductive, PTL

\* Wherever a task was stopped and however often it was called again, the
\* finally clauses of upload_project() have removed its folder and its archive,
\* unless the upload or the removal itself failed.
THEOREM NothingIsLeft == Spec => []TarsAreRemoved
<1>1. IInv => TarsAreRemoved
  <2> SUFFICES ASSUME IInv, pc \in {"call", "stopped"}
               PROVE  (tmp > 0 => "clean" \in excuses) /\ (tar => excuses \cap {"put", "remove"} # {})
    BY DEF TarsAreRemoved, Finished
  <2> QED  BY DEF IInv, FolderPart, ArchivePart, Uploading
<1> QED  BY <1>1, Inductive, PTL

\* upload_template() and sed() write over a file only when the backup has what is
\* in it, whatever stops the task between the copy and the upload. Excused are an
\* upload_template() whose look for the file failed or was cut off, or could not see
\* the file because only root may, and env.warn_only.
THEOREM NothingIsOverwritten == Spec => BackupIsPrevious
<1>1. IInv /\ [Next]_vars =>
        [(/\ pc \in {"put", "sed"} /\ file # None /\ file' # file
          /\ ~ how.warnOnly /\ ~ how.hidden /\ (pc = "put" => "template" \notin misled))
            => bak' = file]_vars
  <2> SUFFICES ASSUME IInv, Next, pc \in {"put", "sed"}, file # None, file' # file,
                      ~ how.warnOnly, ~ how.hidden, pc = "put" => "template" \notin misled
               PROVE  bak' = file
    OBVIOUS
  <2>1. CASE pc = "put"
    <3>1. bak = file
      BY <2>1 DEF IInv, BackupPart
    <3>2. Put \/ Stops
      BY <2>1 DEF Next, Call, Look, AllAppended, Echo, Save, Copy, Sed, SedFails, Pack, Send,
                  Untar, RemoveArchive, Clean, Again, Finished
    <3>3. bak' = bak
      BY <3>2 DEF Put, Stops, Changes
    <3> QED  BY <3>1, <3>3
  <2>2. CASE pc = "sed"
    <3>1. Sed
      BY <2>2 DEF Next, Call, Stops, Look, AllAppended, Echo, Save, Copy, Put, SedFails, Pack,
                  Send, Untar, RemoveArchive, Clean, Again, Finished, vars
    <3> QED  BY <3>1 DEF Sed, Changes, Ignored
  <2> QED  BY <2>1, <2>2
<1> QED  BY <1>1, Inductive, PTL DEF Spec, BackupIsPrevious

\* However often a task was stopped, at whatever command and before or after the
\* command did its work, and called again: when it gets through, the file is what
\* the task makes of it when nothing stops it. That holds of tasks that begin with
\* upload_template(), only append() lines to a file that ends with its last line,
\* or only comment() once with an anchored pattern or uncomment() once. Excused are
\* env.warn_only and an append() whose look for a text failed or was cut off, which
\* writes a text twice: what then still holds of a task that only appends is that the
\* file begins as it was, has all its texts behind that, and no other line.
THEOREM RepeatingIsSafe == Spec => []EndsAsUndisturbed
<1>1. FInv => EndsAsUndisturbed
  <2> SUFFICES ASSUME FInv, Finished, Repeatable, ~how.warnOnly
               PROVE  /\ Undeceived => file = Undisturbed[Len(script)]
                      /\ OnlyAppends => Extended
    BY DEF EndsAsUndisturbed, Undeceived
  <2>1. pc = "call" /\ Len(script) \in Nat /\ call = Len(script) + 1 /\ script # <<>>
    <3>1. pc = "call" /\ call > Len(script) /\ call \in 1..(Len(script) + 1)
      BY DEF FInv, IInv, TypeOK, Finished
    <3>2. script \in Seq(Operations) /\ script # <<>>
      BY ScriptAssumption DEF FInv, IInv
    <3>3. Len(script) \in Nat
      BY <3>2, LenProperties
    <3> QED  BY <3>1, <3>2, <3>3
  <2>2. call > 1 /\ call - 1 = Len(script)
    <3>1. script \in Seq(Operations)
      BY ScriptAssumption DEF FInv, IInv
    <3>2. Len(script) # 0
      BY <2>1, <3>1, EmptySeq
    <3> QED  BY <2>1, <3>2
  <2>3. ~failing
    BY <2>1 DEF FInv, OpPart
  <2>4. ASSUME WritesAnew, Undeceived PROVE file = Undisturbed[Len(script)]
    <3>1. file = Reached
      BY <2>1, <2>2, <2>3, <2>4 DEF FInv, AnewPart
    <3> QED  BY <2>1, <2>2, <3>1 DEF Reached
  <2>5. ASSUME OnlyAppends, Undeceived PROVE file = Undisturbed[Len(script)]
    <3>1. PICK c, n : IsPlace(c, n) /\ file = Place(c, n) /\ NotBehind(c, n)
      BY <2>1, <2>5 DEF FInv, AppendPart
    <3>2. c = Len(script)
      <4>1. c \in 0..Len(script)
        BY <3>1 DEF IsPlace
      <4>2. Len(script) < c \/ Len(script) = c
        BY <2>2, <3>1 DEF NotBehind
      <4> QED  BY <2>1, <4>1, <4>2
    <3> QED  BY <2>1, <3>1, <3>2 DEF Place
  <2>6. ASSUME OneComment \/ OneUncomment, Undeceived PROVE file = Undisturbed[Len(script)]
    <3>1. Len(script) = 1 /\ call = 2
      BY <2>1, <2>6 DEF OneComment, OneUncomment
    <3>2. file = Undisturbed[1]
      BY <2>6, <3>1 DEF FInv, SedPart
    <3> QED  BY <3>1, <3>2
  <2>7. ASSUME OnlyAppends PROVE Extended
    <3>1. Grown(LinesOf(file)) /\ CallsAreIn(file, Len(script))
      BY <2>1, <2>2, <2>7 DEF FInv, ExtendPart
    <3> QED  BY <2>7, <3>1, AllIn DEF FInv
  <2> QED  BY <2>4, <2>5, <2>6, <2>7 DEF Repeatable
<1> QED  BY <1>1, FInductive, PTL

=============================================================================
