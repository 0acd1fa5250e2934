--------------------------- MODULE JobQueueProofs ---------------------------
(***************************************************************************)
(* Theorems about JobQueue for every set of jobs, every pool size, every   *)
(* pipe capacity and every assignment of jobs to hosts.                    *)
(***************************************************************************)
EXTENDS JobQueue, SequenceTheorems, FiniteSetTheorems, TLAPS

-----------------------------------------------------------------------------
(* What the list operations of job_queue.py do to the elements of a list.  *)

\* list.append(e): one more element, still without repetition if e is new.
LEMMA AppendElements ==
  ASSUME NEW S, NEW s \in Seq(S), NEW e \in S
  PROVE  /\ Append(s, e) \in Seq(S)
         /\ Len(Append(s, e)) = Len(s) + 1
         /\ ToSet(Append(s, e)) = ToSet(s) \cup {e}
         /\ IsInjective(s) /\ e \notin ToSet(s) => IsInjective(Append(s, e))
<1>1. /\ Append(s, e) \in Seq(S)
      /\ Len(Append(s, e)) = Len(s) + 1
      /\ \A i \in 1..Len(s) : Append(s, e)[i] = s[i]
      /\ Append(s, e)[Len(s) + 1] = e
  BY AppendProperties
<1>2. /\ Len(s) \in Nat
      /\ DOMAIN s = 1..Len(s)
      /\ DOMAIN Append(s, e) = 1..(Len(s) + 1)
  BY <1>1, LenProperties
<1>3. 1..(Len(s) + 1) = 1..Len(s) \cup {Len(s) + 1}
  BY <1>2
<1>4. ToSet(Append(s, e)) = ToSet(s) \cup {e}
  BY <1>1, <1>2, <1>3 DEF ToSet
<1>5. ASSUME IsInjective(s), e \notin ToSet(s) PROVE IsInjective(Append(s, e))
  BY <1>1, <1>2, <1>3, <1>5 DEF ToSet, IsInjective
<1> QED  BY <1>1, <1>4, <1>5

\* list.pop(): the last element leaves the list, and leaves nothing behind.
LEMMA PopElements ==
  ASSUME NEW S, NEW s \in Seq(S), s # <<>>
  PROVE  /\ Front(s) \in Seq(S)
         /\ Last(s) \in S
         /\ Len(Front(s)) = Len(s) - 1
         /\ ToSet(s) = ToSet(Front(s)) \cup {Last(s)}
         /\ IsInjective(s) => IsInjective(Front(s)) /\ Last(s) \notin ToSet(Front(s))
<1>1. /\ Len(s) \in Nat \ {0}
      /\ DOMAIN s = 1..Len(s)
      /\ \A i \in 1..Len(s) : s[i] \in S
  BY EmptySeq, LenProperties, ElementOfSeq
<1>2. /\ Front(s) \in Seq(S)
      /\ Len(Front(s)) = Len(s) - 1
      /\ \A i \in 1..(Len(s) - 1) : Front(s)[i] = s[i]
  BY <1>1, SubSeqProperties DEF Front
<1>3. DOMAIN Front(s) = 1..(Len(s) - 1)
  BY <1>1, <1>2, LenProperties
<1>4. 1..Len(s) = 1..(Len(s) - 1) \cup {Len(s)}
  BY <1>1
<1>5. ToSet(s) = ToSet(Front(s)) \cup {Last(s)}
  BY <1>1, <1>2, <1>3, <1>4 DEF ToSet, Last
<1>6. ASSUME IsInjective(s) PROVE IsInjective(Front(s)) /\ Last(s) \notin ToSet(Front(s))
  BY <1>1, <1>2, <1>3, <1>6 DEF ToSet, Last, IsInjective
<1> QED  BY <1>1, <1>2, <1>5, <1>6 DEF Last

\* list.pop(i): exactly the element at i leaves the list.
LEMMA RemoveElements ==
  ASSUME NEW S, NEW s \in Seq(S), NEW i \in 1..Len(s)
  PROVE  /\ RemoveAt(s, i) \in Seq(S)
         /\ s[i] \in S
         /\ Len(RemoveAt(s, i)) = Len(s) - 1
         /\ ToSet(s) = ToSet(RemoveAt(s, i)) \cup {s[i]}
         /\ IsInjective(s) => IsInjective(RemoveAt(s, i)) /\ s[i] \notin ToSet(RemoveAt(s, i))
<1> DEFINE n == Len(s)
           r == RemoveAt(s, i)
           left == SubSeq(s, 1, i - 1)
           right == SubSeq(s, i + 1, n)
<1>1. /\ n \in Nat
      /\ DOMAIN s = 1..n
      /\ \A k \in 1..n : s[k] \in S
  BY LenProperties, ElementOfSeq
<1>a. r = left \o right
  BY DEF RemoveAt
<1>b. i \in 1..n
  OBVIOUS
<1> HIDE DEF n, r
<1>c. i \in Int /\ 1 <= i /\ i <= n
  BY <1>1, <1>b
<1>2. left \in Seq(S) /\ Len(left) = i - 1 /\ (\A k \in 1..(i - 1) : left[k] = s[k])
  <2>1. \A k \in 1..(i - 1) : s[k] \in S
    BY <1>1, <1>c
  <2>2. 1 \in Int /\ i - 1 \in Int
    BY <1>c
  <2>3. /\ left \in Seq(S)
        /\ Len(left) = IF 1 <= i - 1 THEN (i - 1) - 1 + 1 ELSE 0
        /\ \A k \in 1..((i - 1) - 1 + 1) : left[k] = s[1 + k - 1]
    BY <2>1, <2>2, SubSeqProperties
  <2> HIDE DEF left
  <2> QED  BY <1>c, <2>3
<1>3. right \in Seq(S) /\ Len(right) = n - i /\ (\A k \in 1..(n - i) : right[k] = s[i + k])
  <2>1. \A k \in (i + 1)..n : s[k] \in S
    BY <1>1, <1>c
  <2>2. i + 1 \in Int /\ n \in Int
    BY <1>1, <1>c
  <2>3. /\ right \in Seq(S)
        /\ Len(right) = IF i + 1 <= n THEN n - (i + 1) + 1 ELSE 0
        /\ \A k \in 1..(n - (i + 1) + 1) : right[k] = s[(i + 1) + k - 1]
    BY <2>1, <2>2, SubSeqProperties
  <2> HIDE DEF right
  <2>4. \A k \in 1..(n - i) : k \in 1..(n - (i + 1) + 1) /\ (i + 1) + k - 1 = i + k
    BY <1>1, <1>c
  <2> QED  BY <1>1, <1>c, <2>3, <2>4
<1> HIDE DEF left, right
<1>4. /\ r \in Seq(S)
      /\ Len(r) = n - 1
      /\ \A k \in 1..(n - 1) : r[k] = IF k < i THEN s[k] ELSE s[k + 1]
  <2>1. /\ left \o right \in Seq(S)
        /\ Len(left \o right) = Len(left) + Len(right)
        /\ \A k \in 1 .. Len(left) + Len(right) :
              (left \o right)[k] = IF k <= Len(left) THEN left[k] ELSE right[k - Len(left)]
    BY <1>2, <1>3, ConcatProperties
  <2>2. Len(left) = i - 1 /\ Len(right) = n - i
    BY <1>2, <1>3
  <2>3. Len(r) = n - 1
    BY <1>1, <1>a, <1>c, <2>1, <2>2
  <2>4. ASSUME NEW k \in 1..(n - 1) PROVE r[k] = IF k < i THEN s[k] ELSE s[k + 1]
    <3>1. k \in 1 .. Len(left) + Len(right) /\ (k <= Len(left) <=> k < i)
      BY <1>1, <1>c, <2>2
    <3>2. CASE k < i
      <4>1. r[k] = left[k] /\ k \in 1..(i - 1)
        BY <1>1, <1>a, <1>c, <2>1, <3>1, <3>2
      <4> QED  BY <1>2, <3>2, <4>1
    <3>3. CASE ~(k < i)
      <4>1. k - Len(left) \in 1..(n - i) /\ i + (k - Len(left)) = k + 1
        BY <1>1, <1>c, <2>2, <3>3
      <4>2. r[k] = right[k - Len(left)]
        BY <1>a, <2>1, <3>1, <3>3
      <4> QED  BY <1>3, <3>3, <4>1, <4>2
    <3> QED  BY <3>2, <3>3
  <2> QED  BY <1>a, <2>1, <2>3, <2>4
<1>5. DOMAIN r = 1..(n - 1)
  BY <1>4, LenProperties
<1>6. ToSet(s) \subseteq ToSet(r) \cup {s[i]}
  <2> SUFFICES ASSUME NEW k \in 1..n, k # i PROVE s[k] \in ToSet(r)
    BY <1>1 DEF ToSet
  <2>1. CASE k < i
    <3>1. k \in 1..(n - 1) /\ r[k] = s[k]  BY <1>1, <1>4, <2>1
    <3> QED  BY <3>1, <1>5 DEF ToSet
  <2>2. CASE k > i
    <3>1. k - 1 \in 1..(n - 1) /\ ~(k - 1 < i) /\ (k - 1) + 1 = k  BY <1>1, <2>2
    <3>2. r[k - 1] = s[k]  BY <3>1, <1>4
    <3> QED  BY <3>1, <3>2, <1>5 DEF ToSet
  <2> QED  BY <1>1, <2>1, <2>2
<1>7. ToSet(r) \subseteq ToSet(s)
  <2> SUFFICES ASSUME NEW k \in 1..(n - 1) PROVE r[k] \in ToSet(s)
    BY <1>5 DEF ToSet
  <2>1. k \in 1..n /\ k + 1 \in 1..n
    BY <1>1
  <2>2. r[k] = s[k] \/ r[k] = s[k + 1]
    BY <1>4
  <2> QED  BY <1>1, <2>1, <2>2 DEF ToSet
<1>8. s[i] \in ToSet(s)
  BY <1>1 DEF ToSet
<1>9. ASSUME IsInjective(s) PROVE IsInjective(r) /\ s[i] \notin ToSet(r)
  <2>1. \A a, b \in 1..n : s[a] = s[b] => a = b
    BY <1>1, <1>9 DEF IsInjective
  <2>2. s[i] \notin ToSet(r)
    BY <1>1, <1>4, <1>5, <2>1 DEF ToSet
  <2>3. ASSUME NEW a \in 1..(n - 1), NEW b \in 1..(n - 1), r[a] = r[b] PROVE a = b
    BY <1>1, <1>4, <2>1, <2>3
  <2> QED  BY <1>5, <2>2, <2>3 DEF IsInjective
<1> QED  BY <1>1, <1>4, <1>6, <1>7, <1>8, <1>9, <1>b DEF r, n

\* A list has no more distinct elements than positions.
LEMMA ElementsBounded ==
  ASSUME NEW S, NEW s \in Seq(S)
  PROVE  IsFiniteSet(ToSet(s)) /\ Cardinality(ToSet(s)) <= Len(s)
<1>1. Len(s) \in Nat /\ DOMAIN s = 1..Len(s)
  BY LenProperties
<1>2. IsFiniteSet(1..Len(s)) /\ Cardinality(1..Len(s)) = Len(s)
  BY <1>1, FS_Interval
<1>3. s \in Surjection(1..Len(s), ToSet(s))
  BY <1>1, ElementOfSeq DEF ToSet, Surjection
<1> QED  BY <1>2, <1>3, FS_Surjection

-----------------------------------------------------------------------------
\* The small tests and updates the actions are made of are always expanded.
USE DEF Over, Room, Rest, AllDone, WithDatum, WithCode

(* Type correctness.                                                       *)

LEMMA InitTyping == Init => TypeOK
<1> SUFFICES ASSUME Init PROVE TypeOK
  OBVIOUS
<1>1. results = <<>> /\ DOMAIN results = {}
  BY DEF Init
<1>2. DOMAIN results \in SUBSET Host /\ results \in [DOMAIN results -> Entries]
  BY <1>1
<1>3. <<>> \in Seq(Job)
  BY EmptySeq
<1>4. /\ child \in [Job -> ChildStates]
      /\ outcome \in [Job -> Outcomes \cup {None}]
      /\ exitcode \in [Job -> Int \cup {None}]
  BY DEF Init, ChildStates
<1>5. pc \in PCs /\ idx \in Nat \ {0} /\ numOfJobs \in Nat /\ delivered \in SUBSET Job
  BY DEF Init, PCs
<1>6. queued \in Seq(Job) /\ running \in Seq(Job) /\ completed \in Seq(Job) /\ pipe \in Seq(Job)
  BY <1>3 DEF Init
<1> QED  BY <1>2, <1>4, <1>5, <1>6 DEF Init, TypeOK

LEMMA NextTyping == TypeOK /\ [Next]_vars => TypeOK'
<1> SUFFICES ASSUME TypeOK, [Next]_vars PROVE TypeOK'
  OBVIOUS
<1> USE HostAssumption DEF TypeOK, PCs, parentVars, childVars
<1>1. ASSUME NEW j \in Job, AppendJob(j) PROVE TypeOK'
  BY <1>1, AppendElements DEF AppendJob
<1>2. CASE Close
  BY <1>2 DEF Close
<1>3. CASE Run
  <2>1. ToSet(queued) \subseteq Job
    BY ElementOfSeq, LenProperties DEF ToSet
  <2>2. DOMAIN results' = {HostOf[j] : j \in ToSet(queued)}
    BY <1>3 DEF Run
  <2>3. Blank \in Entries
    BY DEF Blank, Entries
  <2>4. results' \in [DOMAIN results' -> Entries]
    BY <1>3, <2>3 DEF Run
  <2> QED  BY <1>3, <2>1, <2>2, <2>4 DEF Run
<1>4. ASSUME AdvanceTheQueue, queued # <<>>
      PROVE  /\ queued' \in Seq(Job) /\ running' \in Seq(Job)
             /\ child' \in [Job -> ChildStates]
  BY <1>4, PopElements, AppendElements DEF AdvanceTheQueue, ChildStates
<1>5. CASE Prefill \/ Fill
  BY <1>4, <1>5 DEF Prefill, Fill, AdvanceTheQueue
<1>6. CASE PrefillRaises \/ PrefillDone \/ FillDone \/ ScanDone
  BY <1>6 DEF PrefillRaises, PrefillDone, FillDone, ScanDone
<1>7. CASE Check
  BY <1>7 DEF Check
<1>16. CASE FillRaises
  <2>1. Tail(pipe) \in Seq(Job)
    BY <1>16, HeadTailProperties DEF FillRaises
  <2> QED  BY <1>16, <2>1 DEF FillRaises
<1>8. CASE Scan
  <2>1. idx \in 1..Len(running)
    BY <1>8, LenProperties DEF Scan
  <2>2. RemoveAt(running, idx) \in Seq(Job) /\ Append(completed, running[idx]) \in Seq(Job)
    BY <2>1, RemoveElements, AppendElements
  <2>3. CASE IsAlive(running[idx])
    BY <1>8, <2>3 DEF Scan
  <2>4. CASE ~IsAlive(running[idx])
    <3>1. running' \in Seq(Job) /\ completed' \in Seq(Job)
      BY <1>8, <2>2, <2>4 DEF Scan
    <3>2. idx' \in Nat \ {0}
      BY <1>8 DEF Scan
    <3> QED  BY <1>8, <3>1, <3>2 DEF Scan
  <2> QED  BY <2>3, <2>4
<1>9. CASE Settle \/ DrainEmpty \/ FinalEmpty \/ Return
  <2>1. CASE Settle
    <3>1. finished' \in BOOLEAN
      BY <2>1 DEF Settle
    <3> QED  BY <2>1, <3>1 DEF Settle
  <2>2. CASE DrainEmpty
    BY <2>2 DEF DrainEmpty
  <2>3. CASE FinalEmpty
    BY <2>3 DEF FinalEmpty
  <2>4. CASE Return
    BY <2>4 DEF Return
  <2> QED  BY <1>9, <2>1, <2>2, <2>3, <2>4
<1>10. CASE FillResults
  <2>1. Head(pipe) \in Job /\ Tail(pipe) \in Seq(Job)
    BY <1>10, HeadTailProperties DEF FillResults
  <2>2. ASSUME NEW e \in Entries, NEW j \in Job PROVE [e EXCEPT !.results = j] \in Entries
    BY DEF Entries
  <2>3. results' \in [DOMAIN results -> Entries]
    BY <1>10, <2>1, <2>2 DEF FillResults
  <2> QED  BY <1>10, <2>1, <2>3 DEF FillResults
<1>11. CASE AttachExitCode
  <2>1. idx \in 1..Len(completed)
    BY <1>11, LenProperties DEF AttachExitCode
  <2>2. completed[idx] \in Job
    BY <2>1, ElementOfSeq
  <2>3. ASSUME NEW e \in Entries, NEW c \in Int \cup {None} PROVE [e EXCEPT !.exit_code = c] \in Entries
    BY DEF Entries
  <2>4. results' \in [DOMAIN results -> Entries]
    BY <1>11, <2>2, <2>3 DEF AttachExitCode
  <2> QED  BY <1>11, <2>4 DEF AttachExitCode
<1>12. ASSUME NEW j \in Job, NEW o \in Outcomes, TaskEnds(j, o) PROVE TypeOK'
  BY <1>12 DEF TaskEnds, ChildStates
<1>13. ASSUME NEW j \in Job, Flush(j) PROVE TypeOK'
  BY <1>13, AppendElements DEF Flush, ChildStates
<1>14. ASSUME NEW j \in Job, Die(j) \/ Kill(j) PROVE TypeOK'
  <2>1. ExitCode(outcome[j], NetworkErrorsIgnored) \in Int /\ KilledCode \in Int
    BY DEF ExitCode, KilledCode
  <2>2. CASE Die(j)
    BY <2>1, <2>2 DEF Die, ChildStates
  <2>3. CASE Kill(j)
    <3>1. LeftBy(j) \subseteq {"no", "lock", "half"}
      BY DEF LeftBy
    <3> QED  BY <2>1, <2>3, <3>1 DEF Kill, ChildStates
  <2> QED  BY <1>14, <2>2, <2>3
<1>15. CASE UNCHANGED vars
  BY <1>15 DEF vars
<1> QED
  BY <1>1, <1>2, <1>3, <1>5, <1>6, <1>7, <1>8, <1>9, <1>10, <1>11, <1>12, <1>13, <1>14, <1>15,
     <1>16, EndingsAssumption DEF Next, Parent, Child, Stopped

\* Every reachable state is well typed, for every value of the constants.
THEOREM TypeCorrect == Spec => []TypeOK
BY InitTyping, NextTyping, PTL DEF Spec

-----------------------------------------------------------------------------
(* The three lists and the processes.                                      *)

\* The inductive invariant: append() is only called before anything was
\* started, so a job it adds to _queued is in no other list.
ListInv ==
  /\ OneListPerJob
  /\ ListsMatchProcesses
  /\ pc = "open" => running = <<>> /\ completed = <<>>

LEMMA InitLists == Init => ListInv
<1> SUFFICES ASSUME Init PROVE ListInv
  OBVIOUS
<1>1. <<>> \in Seq(Job) /\ Len(<<>>) = 0 /\ DOMAIN <<>> = {}
  BY EmptySeq
<1>2. ToSet(<<>>) = {} /\ IsInjective(<<>>)
  BY <1>1 DEF ToSet, IsInjective
<1>3. OneListPerJob
  BY <1>1, <1>2 DEF Init, OneListPerJob
<1>4. ListsMatchProcesses
  BY <1>2 DEF Init, ListsMatchProcesses
<1> QED  BY <1>3, <1>4 DEF Init, ListInv

\* Starting the last queued job moves it from _queued to _running.
LEMMA AdvanceLists ==
  ASSUME TypeOK, ListInv, queued # <<>>, AdvanceTheQueue, pc # "open", pc' = pc
  PROVE  ListInv'
<1> DEFINE job == Last(queued)
<1>1. /\ queued \in Seq(Job) /\ running \in Seq(Job) /\ completed \in Seq(Job)
      /\ numOfJobs \in Nat /\ child \in [Job -> ChildStates]
  BY DEF TypeOK
<1>2. /\ job \in Job
      /\ Len(queued') = Len(queued) - 1
      /\ ToSet(queued) = ToSet(queued') \cup {job}
      /\ IsInjective(queued') /\ job \notin ToSet(queued')
  BY <1>1, PopElements DEF AdvanceTheQueue, ListInv, OneListPerJob
<1>3. job \notin ToSet(running) /\ job \notin ToSet(completed)
  BY <1>2 DEF ListInv, OneListPerJob
<1>4. /\ Len(running') = Len(running) + 1
      /\ ToSet(running') = ToSet(running) \cup {job}
      /\ IsInjective(running')
  BY <1>1, <1>2, <1>3, AppendElements DEF AdvanceTheQueue, ListInv, OneListPerJob
<1>5. completed' = completed /\ numOfJobs' = numOfJobs /\ child' = [child EXCEPT ![job] = "running"]
  BY DEF AdvanceTheQueue
<1> HIDE DEF job
<1>6. Len(queued) \in Nat /\ Len(running) \in Nat /\ Len(completed) \in Nat
  BY <1>1, LenProperties
<1>7. numOfJobs' = Len(queued') + Len(running') + Len(completed')
  BY <1>2, <1>4, <1>5, <1>6 DEF ListInv, OneListPerJob
<1>8. OneListPerJob'
  BY <1>2, <1>3, <1>4, <1>5, <1>7 DEF ListInv, OneListPerJob
<1>9. ListsMatchProcesses'
  BY <1>1, <1>2, <1>3, <1>4, <1>5 DEF ListInv, ListsMatchProcesses
<1> QED  BY <1>8, <1>9 DEF ListInv

\* Reaping moves the dead job at idx from _running to _completed.
LEMMA ScanLists ==
  ASSUME TypeOK, ListInv, Scan
  PROVE  ListInv'
<1> DEFINE job == running[idx]
<1>1. /\ queued \in Seq(Job) /\ running \in Seq(Job) /\ completed \in Seq(Job)
      /\ numOfJobs \in Nat /\ child \in [Job -> ChildStates]
      /\ idx \in 1..Len(running)
  BY LenProperties DEF TypeOK, Scan
<1>2. pc = "scan" /\ pc' = pc /\ queued' = queued /\ numOfJobs' = numOfJobs /\ child' = child
  BY DEF Scan, childVars
<1>3. CASE IsAlive(job)
  BY <1>2, <1>3 DEF Scan, ListInv, OneListPerJob, ListsMatchProcesses
<1>4. CASE ~IsAlive(job)
  <2>1. running' = RemoveAt(running, idx) /\ completed' = Append(completed, job)
    BY <1>4 DEF Scan
  <2>2. /\ job \in Job
        /\ Len(running') = Len(running) - 1
        /\ ToSet(running) = ToSet(running') \cup {job}
        /\ IsInjective(running') /\ job \notin ToSet(running')
    BY <1>1, <2>1, RemoveElements DEF ListInv, OneListPerJob
  <2>3. job \notin ToSet(queued) /\ job \notin ToSet(completed)
    BY <2>2 DEF ListInv, OneListPerJob
  <2>4. /\ Len(completed') = Len(completed) + 1
        /\ ToSet(completed') = ToSet(completed) \cup {job}
        /\ IsInjective(completed')
    BY <1>1, <2>1, <2>2, <2>3, AppendElements DEF ListInv, OneListPerJob
  <2>5. child[job] = "dead"
    BY <1>1, <1>4, <2>2 DEF IsAlive, ChildStates, ListInv, ListsMatchProcesses
  <2> HIDE DEF job
  <2>6. Len(queued) \in Nat /\ Len(running) \in Nat /\ Len(completed) \in Nat
    BY <1>1, LenProperties
  <2>7. numOfJobs' = Len(queued') + Len(running') + Len(completed')
    BY <1>2, <2>2, <2>4, <2>6 DEF ListInv, OneListPerJob
  <2>8. OneListPerJob'
    BY <1>2, <2>2, <2>3, <2>4, <2>7 DEF ListInv, OneListPerJob
  <2>9. ListsMatchProcesses'
    BY <1>2, <2>2, <2>4, <2>5 DEF ListInv, ListsMatchProcesses
  <2> QED  BY <1>2, <2>8, <2>9 DEF ListInv
<1> QED  BY <1>3, <1>4

\* A live child that goes on, or dies, stays where it is: in _running.
LEMMA ChildLists ==
  ASSUME TypeOK, ListInv, NEW j \in Job, IsAlive(j),
         NEW s \in {"flushing", "exiting", "dead"}, child' = [child EXCEPT ![j] = s],
         UNCHANGED <<pc, queued, running, completed, numOfJobs>>
  PROVE  ListInv'
<1>1. child \in [Job -> ChildStates]
  BY DEF TypeOK
<1>2. child[j] # "new" /\ child[j] # "dead"
  BY DEF IsAlive
<1>3. j \notin ToSet(queued)
  BY <1>2 DEF ListInv, ListsMatchProcesses
<1>4. OneListPerJob'
  BY DEF ListInv, OneListPerJob
<1>5. ListsMatchProcesses'
  BY <1>1, <1>2, <1>3 DEF ListInv, ListsMatchProcesses
<1> QED  BY <1>4, <1>5 DEF ListInv

LEMMA NextLists == TypeOK /\ ListInv /\ [Next]_vars => ListInv'
<1> SUFFICES ASSUME TypeOK, ListInv, [Next]_vars PROVE ListInv'
  OBVIOUS
<1>1. ASSUME NEW j \in Job, AppendJob(j) PROVE ListInv'
  <2>1. /\ queued \in Seq(Job) /\ Len(queued) \in Nat
        /\ running = <<>> /\ completed = <<>> /\ j \notin ToSet(queued)
        /\ child \in [Job -> ChildStates]
    BY <1>1, LenProperties DEF TypeOK, ListInv, AppendJob
  <2>2. ToSet(running) = {} /\ ToSet(completed) = {} /\ Len(running) = 0 /\ Len(completed) = 0
    BY <2>1, EmptySeq DEF ToSet
  <2>3. /\ Len(queued') = Len(queued) + 1
        /\ ToSet(queued') = ToSet(queued) \cup {j}
        /\ IsInjective(queued')
    BY <1>1, <2>1, AppendElements DEF AppendJob, ListInv, OneListPerJob
  <2>4. child[j] = "new"
    BY <2>2 DEF ListInv, ListsMatchProcesses
  <2>5. /\ pc' = pc /\ running' = running /\ completed' = completed /\ child' = child
        /\ numOfJobs' = numOfJobs + 1
    BY <1>1 DEF AppendJob, childVars
  <2>6. OneListPerJob'
    BY <2>1, <2>2, <2>3, <2>5 DEF ListInv, OneListPerJob
  <2>7. ListsMatchProcesses'
    BY <2>3, <2>4, <2>5 DEF ListInv, ListsMatchProcesses
  <2> QED  BY <2>5, <2>6, <2>7 DEF ListInv
<1>2. CASE Prefill \/ Fill
  BY <1>2, AdvanceLists DEF Prefill, Fill
<1>3. CASE Scan
  BY <1>3, ScanLists
<1>4. ASSUME NEW j \in Job, NEW o \in Outcomes, TaskEnds(j, o) PROVE ListInv'
  BY <1>4, ChildLists DEF TaskEnds, IsAlive, parentVars
<1>5. ASSUME NEW j \in Job, Flush(j) \/ Die(j) \/ Kill(j) PROVE ListInv'
  BY <1>5, ChildLists DEF Flush, Die, Kill, IsAlive, parentVars
<1>6. ASSUME UNCHANGED <<queued, running, completed, numOfJobs, child>>, pc' = "open" => pc = "open"
      PROVE ListInv'
  BY <1>6 DEF ListInv, OneListPerJob, ListsMatchProcesses
<1>7. CASE Close \/ Run \/ PrefillRaises \/ PrefillDone \/ FillDone \/ Check
  BY <1>6, <1>7 DEF Close, Run, PrefillRaises, PrefillDone, FillDone, Check, parentVars, childVars
<1>8. CASE ScanDone \/ Settle \/ FillResults \/ FillRaises \/ DrainEmpty \/ FinalEmpty \/ AttachExitCode \/ Return
  BY <1>6, <1>8 DEF ScanDone, Settle, FillResults, FillRaises, DrainEmpty, FinalEmpty, AttachExitCode, Return,
     parentVars, childVars
<1>9. CASE UNCHANGED vars
  BY <1>6, <1>9 DEF vars, parentVars, childVars
<1> QED
  BY <1>1, <1>2, <1>3, <1>4, <1>5, <1>7, <1>8, <1>9, EndingsAssumption DEF Next, Parent, Child, Stopped

\* No job is lost, run twice or counted twice, although _running is popped
\* while it is enumerated.
THEOREM JobsAreConserved == Spec => []JobsAreAccounted
<1>1. TypeOK /\ ListInv /\ [Next]_vars => ListInv'
  BY NextLists
<1>2. ListInv => JobsAreAccounted
  BY DEF ListInv, JobsAreAccounted
<1> QED  BY <1>1, <1>2, InitLists, TypeCorrect, PTL DEF Spec

-----------------------------------------------------------------------------
(* The window.                                                             *)

WindowInv == MaxRunning >= 0 => Len(running) <= MaxRunning

LEMMA NextWindow == TypeOK /\ WindowInv /\ [Next]_vars => WindowInv'
<1> SUFFICES ASSUME TypeOK, WindowInv, [Next]_vars, MaxRunning >= 0
             PROVE  Len(running') <= MaxRunning
  BY DEF WindowInv
<1>1. /\ Len(running) <= MaxRunning /\ Len(running) \in Nat /\ MaxRunning \in Int
      /\ running \in Seq(Job) /\ queued \in Seq(Job)
  BY LenProperties, MaxAssumption DEF WindowInv, TypeOK
<1>2. CASE Prefill \/ Fill
  <2>1. queued # <<>> /\ Len(running) < MaxRunning /\ running' = Append(running, Last(queued))
    BY <1>2 DEF Prefill, Fill, AdvanceTheQueue
  <2>2. Len(running') = Len(running) + 1
    BY <1>1, <2>1, PopElements, AppendElements
  <2> QED  BY <1>1, <2>1, <2>2
<1>3. CASE Scan
  <2>1. idx \in 1..Len(running)
    BY <1>1, <1>3 DEF Scan, TypeOK
  <2>2. running' = running \/ Len(running') = Len(running) - 1
    BY <1>1, <1>3, <2>1, RemoveElements DEF Scan
  <2> QED  BY <1>1, <2>2
<1>4. CASE UNCHANGED running
  BY <1>1, <1>4
<1>5. [Next]_vars => Prefill \/ Fill \/ Scan \/ UNCHANGED running
  BY DEF Next, Parent, Child, Stopped, vars, parentVars, AppendJob, Close, Run, PrefillRaises,
     PrefillDone, FillDone, Check, ScanDone, Settle, FillResults, FillRaises, DrainEmpty, FinalEmpty,
     AttachExitCode, Return, TaskEnds, Flush, Die, Kill
<1> QED  BY <1>2, <1>3, <1>4, <1>5

\* At most pool_size processes are alive at any time.
LEMMA WindowIsBounded == Spec => []WindowBound
<1>1. Init => WindowInv
  BY EmptySeq DEF Init, WindowInv
<1>2. TypeOK /\ WindowInv /\ [Next]_vars => WindowInv'
  BY NextWindow
<1>3. TypeOK /\ ListInv /\ WindowInv => WindowBound
  <2> SUFFICES ASSUME TypeOK, ListInv, WindowInv, MaxRunning >= 0
               PROVE  Cardinality({j \in Job : IsAlive(j)}) <= MaxRunning
    BY DEF WindowBound
  <2>1. {j \in Job : IsAlive(j)} \subseteq ToSet(running)
    BY DEF ListInv, ListsMatchProcesses, IsAlive
  <2>2. /\ IsFiniteSet(ToSet(running)) /\ Cardinality(ToSet(running)) <= Len(running)
        /\ Len(running) \in Nat
    BY ElementsBounded, LenProperties DEF TypeOK
  <2>3. /\ IsFiniteSet({j \in Job : IsAlive(j)})
        /\ Cardinality({j \in Job : IsAlive(j)}) <= Cardinality(ToSet(running))
    BY <2>1, <2>2, FS_Subset
  <2>4. Cardinality({j \in Job : IsAlive(j)}) \in Nat /\ Cardinality(ToSet(running)) \in Nat
    BY <2>2, <2>3, FS_CardinalityType
  <2> QED  BY <2>2, <2>3, <2>4, MaxAssumption DEF WindowInv
<1>4. TypeOK /\ ListInv /\ [Next]_vars => ListInv'
  BY NextLists
<1> QED  BY <1>1, <1>2, <1>3, <1>4, InitLists, TypeCorrect, PTL DEF Spec

\* While the window is filled for the first time nothing was reaped, so the
\* jobs that are counted are those started and those still to be started.
PrefillInv ==
  /\ pc = "prefill" => completed = <<>>
  /\ PoolFits

LEMMA NextPrefill == TypeOK /\ ListInv /\ PrefillInv /\ [Next]_vars => PrefillInv'
<1> SUFFICES ASSUME TypeOK, ListInv, PrefillInv, [Next]_vars PROVE PrefillInv'
  OBVIOUS
<1>1. CASE Run
  BY <1>1 DEF Run, PrefillInv, PoolFits, ListInv
<1>2. CASE Prefill
  BY <1>2 DEF Prefill, AdvanceTheQueue, PrefillInv, PoolFits
<1>3. CASE PrefillRaises
  <2>1. Len(<<>>) = 0
    BY EmptySeq
  <2>2. numOfJobs = Len(running)
    BY <1>3, <2>1, LenProperties DEF PrefillRaises, PrefillInv, ListInv, OneListPerJob, TypeOK
  <2>3. ~(numOfJobs >= MaxRunning)
    BY <1>3, <2>2, LenProperties, MaxAssumption DEF PrefillRaises, TypeOK
  <2> QED  BY <1>3, <2>3 DEF PrefillRaises, PrefillInv, PoolFits, parentVars
<1>4. ASSUME pc' = pc, pc # "prefill", pc # "raised" PROVE PrefillInv'
  BY <1>4 DEF PrefillInv, PoolFits
<1>5. ASSUME pc' # "raised", pc' # "prefill" PROVE PrefillInv'
  BY <1>5 DEF PrefillInv, PoolFits
<1>6. ASSUME UNCHANGED <<pc, completed, closed, numOfJobs>> PROVE PrefillInv'
  BY <1>6 DEF PrefillInv, PoolFits
<1>7. ASSUME NEW j \in Job, AppendJob(j) PROVE PrefillInv'
  BY <1>4, <1>7 DEF AppendJob
<1>8. CASE Close \/ Fill \/ Scan
  BY <1>4, <1>8 DEF Close, Fill, Scan
<1>9. CASE PrefillDone \/ FillDone \/ Check \/ ScanDone \/ Settle \/ FillRaises \/ DrainEmpty \/ FinalEmpty
          \/ Return
  BY <1>5, <1>9 DEF PrefillDone, FillDone, Check, ScanDone, Settle, FillRaises, DrainEmpty, FinalEmpty, Return
<1>10. CASE FillResults \/ AttachExitCode
  BY <1>6, <1>10 DEF FillResults, AttachExitCode
<1>11. ASSUME NEW j \in Job, Child(j) \/ Kill(j) PROVE PrefillInv'
  BY <1>6, <1>11 DEF Child, TaskEnds, Flush, Die, Kill, parentVars
<1>12. CASE UNCHANGED vars
  BY <1>6, <1>12 DEF vars, parentVars
<1> QED
  BY <1>1, <1>2, <1>3, <1>7, <1>8, <1>9, <1>10, <1>11, <1>12 DEF Next, Parent, Stopped

\* execute(), whose pool is never larger than its host list, never meets the
\* IndexError of the prefill loop.
THEOREM PrefillNeverRaises == Spec => []PoolFits
<1>1. Init => PrefillInv
  BY DEF Init, PrefillInv, PoolFits
<1>2. TypeOK /\ ListInv /\ PrefillInv /\ [Next]_vars => PrefillInv'
  BY NextPrefill
<1>3. PrefillInv => PoolFits
  BY DEF PrefillInv
<1>4. TypeOK /\ ListInv /\ [Next]_vars => ListInv'
  BY NextLists
<1> QED  BY <1>1, <1>2, <1>3, <1>4, InitLists, TypeCorrect, PTL DEF Spec

-----------------------------------------------------------------------------
(* The results.                                                            *)

\* Reading the pipe takes its head away and leaves the rest in it.
LEMMA PipeElements ==
  ASSUME NEW S, NEW s \in Seq(S), s # <<>>
  PROVE  Head(s) \in S /\ ToSet(s) = {Head(s)} \cup ToSet(Tail(s))
<1>1. /\ Len(s) \in Nat \ {0} /\ DOMAIN s = 1..Len(s)
      /\ Head(s) = s[1] /\ Head(s) \in S
      /\ Tail(s) \in Seq(S) /\ Len(Tail(s)) = Len(s) - 1
      /\ \A i \in 1..Len(Tail(s)) : Tail(s)[i] = s[i + 1]
  BY EmptySeq, LenProperties, HeadTailProperties
<1>2. DOMAIN Tail(s) = 1..(Len(s) - 1)
  BY <1>1, LenProperties
<1>3. ToSet(s) \subseteq {Head(s)} \cup ToSet(Tail(s))
  <2> SUFFICES ASSUME NEW i \in 1..Len(s), i # 1 PROVE s[i] \in ToSet(Tail(s))
    BY <1>1 DEF ToSet
  <2>1. i - 1 \in 1..(Len(s) - 1) /\ (i - 1) + 1 = i
    BY <1>1
  <2>2. Tail(s)[i - 1] = s[i]
    BY <1>1, <2>1
  <2> QED  BY <1>2, <2>1, <2>2 DEF ToSet
<1>4. ToSet(Tail(s)) \subseteq ToSet(s)
  <2> SUFFICES ASSUME NEW i \in 1..(Len(s) - 1) PROVE Tail(s)[i] \in ToSet(s)
    BY <1>2 DEF ToSet
  <2>1. i + 1 \in 1..Len(s) /\ Tail(s)[i] = s[i + 1]
    BY <1>1
  <2> QED  BY <1>1, <2>1 DEF ToSet
<1>5. Head(s) \in ToSet(s)
  BY <1>1 DEF ToSet
<1> QED  BY <1>1, <1>3, <1>4, <1>5

\* Every host with a job that was started, or will be, has an entry.
Registered ==
  pc # "open" => \A j \in Job : j \in ToSet(queued) \/ child[j] # "new" => HostOf[j] \in DOMAIN results

\* Nothing is in the pipe or in the results that a job of the host did not send.
Genuine ==
  /\ \A j \in delivered : child[j] \in {"exiting", "dead"}
  /\ ToSet(pipe) \subseteq delivered
  /\ \A h \in DOMAIN results : results[h].results \in Job =>
        results[h].results \in delivered /\ HostOf[results[h].results] = h

DataInv == Registered /\ Genuine /\ NoDatumLost

LEMMA InitData == Init => DataInv
<1> SUFFICES ASSUME Init PROVE DataInv
  OBVIOUS
<1>1. ToSet(pipe) = {} /\ DOMAIN results = {} /\ delivered = {}
  BY EmptySeq DEF Init, ToSet
<1> QED  BY <1>1 DEF Init, DataInv, Registered, Genuine, NoDatumLost

\* No datum is delivered before run() has made the entries.
LEMMA NothingWhileOpen ==
  ASSUME TypeOK, ListInv, DataInv, pc = "open"
  PROVE  delivered = {} /\ ToSet(pipe) = {} /\ \A j \in Job : child[j] = "new"
<1>1. ToSet(running) = {} /\ ToSet(completed) = {}
  BY EmptySeq DEF ListInv, ToSet
<1>2. \A j \in Job : child[j] = "new"
  BY <1>1 DEF ListInv, ListsMatchProcesses
<1>3. delivered = {}
  BY <1>2 DEF DataInv, Genuine, TypeOK
<1> QED  BY <1>2, <1>3 DEF DataInv, Genuine

LEMMA NextData == TypeOK /\ TypeOK' /\ ListInv /\ DataInv /\ [Next]_vars => DataInv'
<1> SUFFICES ASSUME TypeOK, TypeOK', ListInv, DataInv, [Next]_vars PROVE DataInv'
  OBVIOUS
<1>0. /\ HostOf \in [Job -> Host] /\ None \notin Job
      /\ results \in [DOMAIN results -> Entries]
      /\ child \in [Job -> ChildStates]
      /\ delivered \in SUBSET Job
      /\ pipe \in Seq(Job)
  BY HostAssumption, NoneAssumption DEF TypeOK
<1>1. ASSUME NEW j \in Job, AppendJob(j) PROVE DataInv'
  <2>1. UNCHANGED <<pc, results, child, pipe, delivered>> /\ pc = "open"
    BY <1>1 DEF AppendJob, childVars
  <2> QED  BY <2>1 DEF DataInv, Registered, Genuine, NoDatumLost
<1>2. CASE Run
  <2>1. delivered = {} /\ ToSet(pipe) = {} /\ \A j \in Job : child[j] = "new"
    BY <1>2, NothingWhileOpen DEF Run
  <2>2. /\ UNCHANGED <<queued, child, pipe, delivered>>
        /\ results' = [h \in {HostOf[j] : j \in ToSet(queued)} |-> Blank]
    BY <1>2 DEF Run, childVars
  <2>3. DOMAIN results' = {HostOf[j] : j \in ToSet(queued)}
    BY <2>2
  <2>4. \A h \in DOMAIN results' : results'[h].results = None
    BY <2>2 DEF Blank
  <2> QED  BY <1>0, <2>1, <2>2, <2>3, <2>4 DEF DataInv, Registered, Genuine, NoDatumLost
<1>3. CASE Prefill \/ Fill
  <2>1. /\ pc' = pc /\ pc # "open" /\ queued # <<>>
        /\ queued' = Front(queued) /\ child' = [child EXCEPT ![Last(queued)] = "running"]
        /\ UNCHANGED <<results, pipe, delivered>>
    BY <1>3 DEF Prefill, Fill, AdvanceTheQueue
  <2>2. Last(queued) \in ToSet(queued) /\ ToSet(queued') \subseteq ToSet(queued)
    BY <2>1, PopElements DEF TypeOK
  <2>3. child[Last(queued)] = "new"
    BY <2>2 DEF ListInv, ListsMatchProcesses
  <2>4. Registered'
    BY <1>0, <2>1, <2>2 DEF DataInv, Registered
  <2>5. Genuine'
    BY <1>0, <2>1, <2>3 DEF DataInv, Genuine
  <2> QED  BY <2>1, <2>4, <2>5 DEF DataInv, NoDatumLost
<1>4. CASE FillResults
  <2> DEFINE job == Head(pipe)
             host == HostOf[job]
  <2>1. /\ pc' = pc /\ pc # "open" /\ pipe # <<>> /\ pipe' = Tail(pipe)
        /\ UNCHANGED <<queued, child, delivered>>
        /\ results' = [results EXCEPT ![host].results = job]
    BY <1>4 DEF FillResults, childVars
  <2>2. job \in Job /\ ToSet(pipe) = {job} \cup ToSet(pipe')
    BY <1>0, <2>1, PipeElements
  <2> HIDE DEF job
  <2>3. job \in delivered /\ host \in DOMAIN results
    BY <1>0, <2>1, <2>2 DEF DataInv, Genuine, Registered
  <2>4. /\ DOMAIN results' = DOMAIN results
        /\ results'[host].results = job
        /\ \A h \in DOMAIN results : h # host => results'[h] = results[h]
    <3>1. "results" \in DOMAIN results[host]
      BY <1>0, <2>3 DEF Entries
    <3> QED  BY <1>0, <2>1, <2>3, <3>1
  <2> HIDE DEF host
  <2>5. Registered'
    BY <2>1, <2>4 DEF DataInv, Registered
  <2>6. Genuine'
    BY <2>1, <2>2, <2>3, <2>4 DEF DataInv, Genuine, host
  <2>7. NoDatumLost'
    <3> SUFFICES ASSUME pc # "unreadable", NEW j \in delivered, j \notin ToSet(pipe')
                 PROVE  /\ HostOf[j] \in DOMAIN results'
                        /\ \E k \in delivered : HostOf[k] = HostOf[j] /\ results'[HostOf[j]].results = k
      BY <2>1 DEF NoDatumLost
    <3>1. CASE HostOf[j] = host
      BY <2>3, <2>4, <3>1 DEF host
    <3>2. CASE HostOf[j] # host
      <4>1. j \notin ToSet(pipe)
        BY <2>2, <3>2 DEF host
      <4> QED  BY <2>4, <3>2, <4>1 DEF DataInv, NoDatumLost
    <3> QED  BY <3>1, <3>2
  <2> QED  BY <2>5, <2>6, <2>7 DEF DataInv
<1>5. CASE AttachExitCode
  <2> DEFINE host == HostOf[completed[idx]]
  <2>1. /\ pc' = pc /\ UNCHANGED <<queued, child, pipe, delivered>>
        /\ results' = [results EXCEPT ![host].exit_code = exitcode[completed[idx]]]
    BY <1>5 DEF AttachExitCode, childVars
  <2> HIDE DEF host
  <2>2. /\ DOMAIN results' = DOMAIN results
        /\ \A h \in DOMAIN results : results'[h].results = results[h].results
    BY <1>0, <2>1 DEF Entries
  <2>3. Registered' /\ Genuine'
    BY <2>1, <2>2 DEF DataInv, Registered, Genuine
  <2>4. NoDatumLost'
    BY <2>1, <2>2 DEF DataInv, NoDatumLost
  <2> QED  BY <2>3, <2>4 DEF DataInv
<1>6. ASSUME NEW j \in Job, Flush(j) PROVE DataInv'
  <2>1. /\ child[j] = "flushing" /\ child' = [child EXCEPT ![j] = "exiting"]
        /\ delivered' = delivered \cup {j}
        /\ ToSet(pipe') = ToSet(pipe) \cup {j}
        /\ UNCHANGED <<pc, queued, results>>
    BY <1>0, <1>6, AppendElements DEF Flush, parentVars
  <2>2. Registered'
    BY <1>0, <2>1 DEF DataInv, Registered
  <2>3. Genuine'
    BY <1>0, <2>1 DEF DataInv, Genuine
  <2>4. NoDatumLost'
    BY <2>1 DEF DataInv, NoDatumLost
  <2> QED  BY <2>2, <2>3, <2>4 DEF DataInv
<1>7. ASSUME NEW j \in Job, (\E o \in Outcomes : TaskEnds(j, o)) \/ Die(j) \/ Kill(j) PROVE DataInv'
  <2>1. /\ IsAlive(j) /\ UNCHANGED <<pc, queued, results, pipe, delivered>>
        /\ \/ /\ child[j] = "running"
              /\ \E s \in ChildStates \ {"new"} : child' = [child EXCEPT ![j] = s]
           \/ child' = [child EXCEPT ![j] = "dead"]
    BY <1>7 DEF TaskEnds, Die, Kill, IsAlive, ChildStates, parentVars
  <2>2. Registered'
    BY <1>0, <2>1 DEF DataInv, Registered, IsAlive
  <2>3. Genuine'
    BY <1>0, <2>1 DEF DataInv, Genuine
  <2> QED  BY <2>1, <2>2, <2>3 DEF DataInv, NoDatumLost
<1>8. ASSUME UNCHANGED <<queued, results, child, pipe, delivered>>, pc' # "open" => pc # "open",
             pc' # "unreadable" => pc # "unreadable"
      PROVE DataInv'
  BY <1>8 DEF DataInv, Registered, Genuine, NoDatumLost
<1>12. CASE FillRaises
  <2>1. /\ pc # "open" /\ pc' = "unreadable" /\ pipe # <<>> /\ pipe' = Tail(pipe)
        /\ UNCHANGED <<queued, results, child, delivered>>
    BY <1>12 DEF FillRaises, parentVars, childVars
  <2>2. ToSet(pipe') \subseteq ToSet(pipe)
    BY <1>0, <2>1, PipeElements
  <2> QED  BY <2>1, <2>2 DEF DataInv, Registered, Genuine, NoDatumLost
<1>9. CASE Close \/ PrefillRaises \/ PrefillDone \/ FillDone \/ Check \/ Scan
  BY <1>8, <1>9 DEF Close, PrefillRaises, PrefillDone, FillDone, Check, Scan, parentVars, childVars
<1>10. CASE ScanDone \/ Settle \/ DrainEmpty \/ FinalEmpty \/ Return
  BY <1>8, <1>10 DEF ScanDone, Settle, DrainEmpty, FinalEmpty, Return, parentVars, childVars
<1>11. CASE UNCHANGED vars
  BY <1>8, <1>11 DEF vars, parentVars, childVars
<1> QED
  BY <1>1, <1>2, <1>3, <1>4, <1>5, <1>6, <1>7, <1>9, <1>10, <1>11, <1>12, EndingsAssumption
  DEF Next, Parent, Child, Stopped

\* A datum a child managed to send is in the pipe or in the results, unless
\* one that could not be read ended the run.
THEOREM DataAreKept == Spec => []NoDatumLost
<1>1. TypeOK /\ TypeOK' /\ ListInv /\ DataInv /\ [Next]_vars => DataInv'
  BY NextData
<1>2. DataInv => NoDatumLost
  BY DEF DataInv
<1>3. TypeOK /\ ListInv /\ [Next]_vars => ListInv'
  BY NextLists
<1> QED  BY <1>1, <1>2, <1>3, InitLists, InitData, TypeCorrect, PTL DEF Spec

\* The exit code of the host of j is the one of a dead job of that host.
Coded(j) ==
  \E k \in Job : /\ HostOf[k] = HostOf[j]
                /\ child[k] = "dead"
                /\ results[HostOf[j]].exit_code = exitcode[k]

\* Once finished, the loop is over for good, no process is left and the pipe
\* is emptied before the exit codes are attached one by one.
ReportInv ==
  /\ finished => /\ queued = <<>> /\ running = <<>>
                 /\ pc \in {"drain", "final", "codes", "returned", "unreadable"}
  /\ pc \in {"final", "codes", "returned"} => finished
  /\ pc \in {"codes", "returned"} => pipe = <<>>
  /\ pc = "codes" => \A m \in DOMAIN completed : m < idx => Coded(completed[m])
  /\ pc = "returned" => \A m \in DOMAIN completed : Coded(completed[m])

LEMMA FinishedMeansDead ==
  ASSUME TypeOK, ListInv, ReportInv, finished
  PROVE  \A j \in Job : ~IsAlive(j) /\ (child[j] = "dead" => j \in ToSet(completed))
<1>1. ToSet(running) = {}
  BY EmptySeq DEF ReportInv, ToSet
<1> QED  BY <1>1 DEF ListInv, ListsMatchProcesses, IsAlive

LEMMA NextReport == TypeOK /\ ListInv /\ DataInv /\ ReportInv /\ [Next]_vars => ReportInv'
<1> SUFFICES ASSUME TypeOK, ListInv, DataInv, ReportInv, [Next]_vars PROVE ReportInv'
  OBVIOUS
<1>1. \A j \in Job : IsAlive(j) => ~finished /\ pc \notin {"final", "codes", "returned"}
  BY FinishedMeansDead DEF ReportInv
<1>2. ASSUME pc' \notin {"final", "codes", "returned"}, ~finished' PROVE ReportInv'
  BY <1>2 DEF ReportInv
<1>3. ASSUME NEW j \in Job, AppendJob(j) \/ Child(j) \/ Kill(j) PROVE ReportInv'
  <2>1. UNCHANGED <<pc, finished>>
    BY <1>3 DEF AppendJob, Child, TaskEnds, Flush, Die, Kill, parentVars
  <2>2. pc = "open" \/ IsAlive(j)
    BY <1>3 DEF AppendJob, Child, TaskEnds, Flush, Die, Kill, IsAlive
  <2>3. ~finished /\ pc \notin {"final", "codes", "returned"}
    BY <1>1, <2>2 DEF ReportInv
  <2> QED  BY <1>2, <2>1, <2>3
<1>4. CASE Close \/ Run \/ Prefill \/ PrefillRaises \/ PrefillDone \/ Fill \/ FillDone
  <2>1. finished' = finished /\ pc' \notin {"final", "codes", "returned"} /\ ~finished
    BY <1>4 DEF Close, Run, Prefill, PrefillRaises, PrefillDone, Fill, FillDone, AdvanceTheQueue,
       parentVars, ReportInv
  <2> QED  BY <1>2, <2>1
<1>5. CASE Check \/ Scan \/ ScanDone
  <2>1. finished' = finished /\ pc' \notin {"final", "codes", "returned"} /\ ~finished
    BY <1>5 DEF Check, Scan, ScanDone, parentVars, ReportInv
  <2> QED  BY <1>2, <2>1
<1>6. CASE Settle
  BY <1>6 DEF Settle, ReportInv
<1>7. CASE FillResults
  BY <1>7 DEF FillResults, ReportInv, childVars
<1>8. CASE FillRaises \/ DrainEmpty
  BY <1>8 DEF FillRaises, DrainEmpty, ReportInv, parentVars
<1>9. CASE FinalEmpty
  <2>1. \A m \in DOMAIN completed : ~(m < 1)
    BY LenProperties DEF TypeOK
  <2> QED  BY <1>9, <2>1 DEF FinalEmpty, ReportInv
<1>10. CASE AttachExitCode
  <2> DEFINE job == completed[idx]
  <2>1. /\ pc = "codes" /\ pc' = pc /\ idx' = idx + 1 /\ idx \in DOMAIN completed /\ idx \in Int
        /\ UNCHANGED <<queued, running, completed, finished, child, exitcode, pipe>>
        /\ results' = [results EXCEPT ![HostOf[job]].exit_code = exitcode[job]]
    BY <1>10, LenProperties DEF AttachExitCode, TypeOK, childVars
  <2>2. job \in ToSet(completed) /\ job \in Job
    BY <2>1, ElementOfSeq, LenProperties DEF ToSet, TypeOK
  <2>3. child[job] = "dead"
    BY <2>2 DEF ListInv, ListsMatchProcesses
  <2>4. HostOf[job] \in DOMAIN results
    BY <2>1, <2>2, <2>3 DEF DataInv, Registered
  <2> HIDE DEF job
  <2>5. /\ results'[HostOf[job]].exit_code = exitcode[job]
        /\ \A h \in DOMAIN results : h # HostOf[job] => results'[h] = results[h]
    <3>1. results[HostOf[job]] \in Entries
      BY <2>4 DEF TypeOK
    <3>2. "exit_code" \in DOMAIN results[HostOf[job]]
      BY <3>1 DEF Entries
    <3> QED  BY <2>1, <2>4, <3>2
  <2>6. ASSUME NEW m \in DOMAIN completed, m < idx + 1 PROVE Coded(completed[m])'
    <3>1. completed[m] \in Job /\ child[completed[m]] = "dead" /\ m \in Int
      BY ElementOfSeq, LenProperties DEF TypeOK, ToSet, ListInv, ListsMatchProcesses
    <3>2. HostOf[completed[m]] \in DOMAIN results
      BY <2>1, <3>1 DEF DataInv, Registered
    <3>3. CASE HostOf[completed[m]] = HostOf[job]
      BY <2>1, <2>2, <2>3, <2>5, <3>3 DEF Coded
    <3>4. CASE HostOf[completed[m]] # HostOf[job]
      <4>1. m < idx
        BY <2>1, <2>6, <3>1, <3>4 DEF job
      <4>2. Coded(completed[m])
        BY <2>1, <4>1 DEF ReportInv
      <4> QED  BY <2>1, <2>5, <3>2, <3>4, <4>2 DEF Coded
    <3> QED  BY <3>3, <3>4
  <2> QED  BY <2>1, <2>6 DEF ReportInv
<1>11. CASE Return
  <2>1. /\ pc = "codes" /\ pc' = "returned"
        /\ UNCHANGED <<idx, queued, running, completed, finished, results, child, exitcode, pipe>>
    BY <1>11 DEF Return, parentVars, childVars
  <2>2. \A m \in DOMAIN completed : m < idx
    BY <1>11, LenProperties DEF Return, TypeOK
  <2>3. \A m \in DOMAIN completed : Coded(completed[m])
    BY <2>1, <2>2 DEF ReportInv
  <2> QED  BY <2>1, <2>3 DEF ReportInv, Coded
<1>12. CASE UNCHANGED vars
  BY <1>12 DEF vars, parentVars, childVars, ReportInv, Coded
<1> QED
  BY <1>3, <1>4, <1>5, <1>6, <1>7, <1>8, <1>9, <1>10, <1>11, <1>12 DEF Next, Parent, Stopped

\* When run() returns, every process is gone and every host has the exit code
\* of one of its jobs and, if one of them sent a datum, that of one of them.
THEOREM ReportIsRight == Spec => []ReportIsComplete
<1>1. Init => ReportInv
  BY DEF Init, ReportInv
<1>2. TypeOK /\ ListInv /\ DataInv /\ ReportInv /\ [Next]_vars => ReportInv'
  BY NextReport
<1>3. TypeOK /\ ListInv /\ DataInv /\ ReportInv => ReportIsComplete
  <2> SUFFICES ASSUME TypeOK, ListInv, DataInv, ReportInv, pc = "returned" PROVE ReportIsComplete
    BY DEF ReportIsComplete
  <2>1. finished /\ ToSet(pipe) = {}
    BY EmptySeq DEF ReportInv, ToSet
  <2>2. \A j \in Job : child[j] \in {"new", "dead"}
    BY <2>1, FinishedMeansDead DEF IsAlive, TypeOK, ChildStates
  <2>3. ASSUME NEW j \in Job, child[j] = "dead" PROVE Coded(j)
    <3>1. j \in ToSet(completed)
      BY <2>1, <2>3, FinishedMeansDead
    <3> QED  BY <3>1 DEF ReportInv, ToSet
  <2>4. ASSUME NEW j \in Job, child[j] = "dead"
        PROVE  /\ j \in delivered => results[HostOf[j]].results \in delivered
               /\ results[HostOf[j]].results \in Job => HostOf[results[HostOf[j]].results] = HostOf[j]
    BY <2>1, <2>4 DEF DataInv, NoDatumLost, Genuine, Registered
  <2> QED  BY <2>2, <2>3, <2>4 DEF ReportIsComplete, Coded
<1>4. TypeOK /\ ListInv /\ [Next]_vars => ListInv'
  BY NextLists
<1>5. TypeOK /\ TypeOK' /\ ListInv /\ DataInv /\ [Next]_vars => DataInv'
  BY NextData
<1> QED  BY <1>1, <1>2, <1>3, <1>4, <1>5, InitLists, InitData, TypeCorrect, PTL DEF Spec

-----------------------------------------------------------------------------
(* The window is used.                                                     *)

\* The loop looks for dead processes only when the window is full or nothing
\* is left to start.
LEMMA WindowIsUsed == Spec => []WindowIsFilled
<1>1. Init => WindowIsFilled
  BY DEF Init, WindowIsFilled
<1>2. TypeOK /\ WindowIsFilled /\ [Next]_vars => WindowIsFilled'
  <2> SUFFICES ASSUME TypeOK, WindowIsFilled, [Next]_vars PROVE WindowIsFilled'
    OBVIOUS
  <2>1. CASE FillDone
    <3>1. Len(running) \in Nat /\ MaxRunning \in Int /\ UNCHANGED <<running, queued>>
      BY <2>1, LenProperties, MaxAssumption DEF FillDone, TypeOK, parentVars
    <3> QED  BY <2>1, <3>1 DEF FillDone, WindowIsFilled
  <2>2. CASE UNCHANGED <<running, queued>> /\ (pc' = "check" => pc = "check")
    BY <2>2 DEF WindowIsFilled
  <2>3. CASE pc' # "check"
    BY <2>3 DEF WindowIsFilled
  <2>4. \/ FillDone \/ pc' # "check"
        \/ UNCHANGED <<running, queued>> /\ (pc' = "check" => pc = "check")
    BY DEF Next, Parent, Child, Stopped, vars, parentVars, AppendJob, Close, Run, PrefillRaises,
       PrefillDone, Prefill, Fill, AdvanceTheQueue, Check, Scan, ScanDone, Settle, FillResults, FillRaises,
       DrainEmpty, FinalEmpty, AttachExitCode, Return, TaskEnds, Flush, Die, Kill
  <2> QED  BY <2>1, <2>2, <2>3, <2>4
<1> QED  BY <1>1, <1>2, TypeCorrect, PTL DEF Spec

-----------------------------------------------------------------------------
(* What no step may do.                                                    *)

\* A list is a prefix of itself and of itself with one more element.
LEMMA PrefixOfAppend ==
  ASSUME NEW S, NEW s \in Seq(S), NEW e \in S
  PROVE  IsPrefix(s, s) /\ IsPrefix(s, Append(s, e))
<1> DEFINE n == Len(s)
           t == Append(s, e)
<1>1. /\ n \in Nat /\ \A i \in 1..n : s[i] \in S /\ t[i] = s[i]
      /\ Len(t) = n + 1
  BY LenProperties, ElementOfSeq, AppendProperties
<1> HIDE DEF n, t
<1>2. 1 \in Int /\ n \in Int
  BY <1>1
<1>3. /\ SubSeq(s, 1, n) \in Seq(S) /\ Len(SubSeq(s, 1, n)) = IF 1 <= n THEN n - 1 + 1 ELSE 0
      /\ \A i \in 1..(n - 1 + 1) : SubSeq(s, 1, n)[i] = s[1 + i - 1]
  BY <1>1, <1>2, SubSeqProperties
<1>4. /\ SubSeq(t, 1, n) \in Seq(S) /\ Len(SubSeq(t, 1, n)) = IF 1 <= n THEN n - 1 + 1 ELSE 0
      /\ \A i \in 1..(n - 1 + 1) : SubSeq(t, 1, n)[i] = t[1 + i - 1]
  <2>1. \A i \in 1..n : t[i] \in S
    BY <1>1
  <2> QED  BY <1>2, <2>1, SubSeqProperties
<1>5. /\ Len(SubSeq(s, 1, n)) = Len(SubSeq(t, 1, n))
      /\ \A i \in 1..Len(SubSeq(s, 1, n)) : SubSeq(s, 1, n)[i] = SubSeq(t, 1, n)[i]
  <2>1. Len(SubSeq(s, 1, n)) = n /\ n - 1 + 1 = n /\ \A i \in 1..n : 1 + i - 1 = i
    BY <1>1, <1>3
  <2> QED  BY <1>1, <1>3, <1>4, <2>1
<1>6. SubSeq(s, 1, n) = SubSeq(t, 1, n)
  BY <1>3, <1>4, <1>5, SeqEqual
<1> QED  BY <1>1, <1>6 DEF IsPrefix, n, t

\* A process is started once, never goes back to an earlier state, and what
\* is in the completed list stays there.
LEMMA ProcessesOnlyMoveForward == Spec => NeverRestarted
<1> DEFINE Forward == /\ \A j \in Job : Rank(child'[j]) >= Rank(child[j])
                      /\ IsPrefix(completed, completed')
<1>1. TypeOK /\ ListInv /\ [Next]_vars => [Forward]_vars
  <2> SUFFICES ASSUME TypeOK, ListInv, [Next]_vars PROVE Forward
    OBVIOUS
  <2>1. child \in [Job -> ChildStates] /\ completed \in Seq(Job) /\ running \in Seq(Job)
    BY DEF TypeOK
  <2>2. /\ Rank("new") = 0 /\ Rank("running") = 1 /\ Rank("flushing") = 2
        /\ Rank("exiting") = 3 /\ Rank("dead") = 4
    BY DEF Rank
  <2>3. ASSUME NEW j \in Job PROVE Rank(child[j]) >= Rank(child[j])
    <3>1. child[j] \in ChildStates
      BY <2>1
    <3> QED  BY <2>2, <3>1 DEF ChildStates
  <2>4. IsPrefix(completed, completed')
    <3>1. CASE UNCHANGED completed
      BY <2>1, <3>1, LenProperties DEF IsPrefix
    <3>2. CASE Scan
      <4>1. running[idx] \in Job
        BY <2>1, <3>2, LenProperties, ElementOfSeq DEF Scan, TypeOK
      <4> QED  BY <2>1, <3>1, <3>2, <4>1, PrefixOfAppend DEF Scan
    <3>3. Scan \/ UNCHANGED completed
      BY DEF Next, Parent, Child, Stopped, vars, parentVars, AppendJob, Close, Run, PrefillRaises,
         PrefillDone, Prefill, Fill, AdvanceTheQueue, FillDone, Check, ScanDone, Settle, FillResults, FillRaises,
         DrainEmpty, FinalEmpty, AttachExitCode, Return, TaskEnds, Flush, Die, Kill
    <3> QED  BY <3>1, <3>2, <3>3
  <2>5. ASSUME NEW j \in Job PROVE Rank(child'[j]) >= Rank(child[j])
    <3>1. CASE Prefill \/ Fill
      <4>1. child' = [child EXCEPT ![Last(queued)] = "running"] /\ child[Last(queued)] = "new"
        <5>1. Last(queued) \in ToSet(queued)
          <6>1. queued \in Seq(Job) /\ queued # <<>>
            BY <3>1 DEF Prefill, Fill, TypeOK
          <6>2. ToSet(queued) = ToSet(Front(queued)) \cup {Last(queued)}
            BY <6>1, PopElements
          <6> QED  BY <6>2
        <5> QED  BY <3>1, <5>1 DEF Prefill, Fill, AdvanceTheQueue, ListInv, ListsMatchProcesses
      <4> QED  BY <2>1, <2>2, <2>3, <4>1
    <3>2. ASSUME NEW k \in Job, Child(k) \/ Kill(k) PROVE Rank(child'[j]) >= Rank(child[j])
      <4>1. CASE \E o \in Outcomes : TaskEnds(k, o)
        BY <2>1, <2>2, <2>3, <4>1 DEF TaskEnds
      <4>2. CASE Flush(k)
        BY <2>1, <2>2, <2>3, <4>2 DEF Flush
      <4>3. CASE Die(k) \/ Kill(k)
        <5>1. child[k] \in ChildStates /\ child' = [child EXCEPT ![k] = "dead"]
          BY <2>1, <4>3 DEF Die, Kill
        <5> QED  BY <2>1, <2>2, <2>3, <5>1 DEF ChildStates
      <4> QED  BY <3>2, <4>1, <4>2, <4>3, EndingsAssumption DEF Child
    <3>3. CASE UNCHANGED child
      BY <2>3, <3>3
    <3>4. \/ Prefill \/ Fill \/ UNCHANGED child
          \/ \E k \in Job : Child(k) \/ Kill(k)
      BY DEF Next, Parent, Stopped, vars, childVars, AppendJob, Close, Run, PrefillRaises,
         PrefillDone, FillDone, Check, Scan, ScanDone, Settle, FillResults, FillRaises,
         DrainEmpty, FinalEmpty, AttachExitCode, Return
    <3> QED  BY <3>1, <3>2, <3>3, <3>4
  <2> QED  BY <2>4, <2>5
<1>2. TypeOK /\ ListInv /\ [Next]_vars => ListInv'
  BY NextLists
<1> QED  BY <1>1, <1>2, InitLists, TypeCorrect, PTL DEF Spec, NeverRestarted

\* What was read for a host with one job is the datum of that job, so that
\* no later datum can replace it by another.
LEMMA ReadOnce == Spec => ResultIsFinal
<1> DEFINE Final ==
      \A j \in Job : (/\ HostOf[j] \in DOMAIN results
                      /\ results[HostOf[j]].results \in Job
                      /\ \A k \in Job : HostOf[k] = HostOf[j] => k = j)
        => results'[HostOf[j]].results = results[HostOf[j]].results
<1>1. TypeOK /\ ListInv /\ DataInv /\ [Next]_vars => [Final]_vars
  <2> SUFFICES ASSUME TypeOK, ListInv, DataInv, [Next]_vars,
                      NEW j \in Job, HostOf[j] \in DOMAIN results, results[HostOf[j]].results \in Job,
                      \A k \in Job : HostOf[k] = HostOf[j] => k = j
               PROVE  results'[HostOf[j]].results = results[HostOf[j]].results
    OBVIOUS
  <2>1. results[HostOf[j]].results = j /\ j \in delivered
    BY DEF DataInv, Genuine
  <2>2. results \in [DOMAIN results -> Entries] /\ pipe \in Seq(Job)
    BY DEF TypeOK
  <2>3. CASE Run
    BY <2>1, <2>3, NothingWhileOpen DEF Run
  <2>4. CASE FillResults
    <3> DEFINE job == Head(pipe)
    <3>1. job \in Job /\ results' = [results EXCEPT ![HostOf[job]].results = job]
      BY <2>2, <2>4, PipeElements DEF FillResults
    <3> HIDE DEF job
    <3>2. CASE job = j
      <4>1. "results" \in DOMAIN results[HostOf[j]]
        BY <2>2 DEF Entries
      <4> QED  BY <2>1, <2>2, <3>1, <3>2, <4>1
    <3>3. CASE job # j
      <4>1. HostOf[job] # HostOf[j]
        BY <3>1, <3>3
      <4> QED  BY <3>1, <4>1
    <3> QED  BY <3>2, <3>3
  <2>5. CASE AttachExitCode
    BY <2>2, <2>5 DEF AttachExitCode, Entries
  <2>6. CASE UNCHANGED results
    BY <2>6
  <2>7. Run \/ FillResults \/ AttachExitCode \/ UNCHANGED results
    BY DEF Next, Parent, Child, Stopped, vars, parentVars, AppendJob, Close, PrefillRaises,
       PrefillDone, Prefill, Fill, AdvanceTheQueue, FillDone, Check, Scan, ScanDone, Settle,
       FillRaises, DrainEmpty, FinalEmpty, Return, TaskEnds, Flush, Die, Kill
  <2> QED  BY <2>3, <2>4, <2>5, <2>6, <2>7
<1>2. TypeOK /\ ListInv /\ [Next]_vars => ListInv'
  BY NextLists
<1>3. TypeOK /\ TypeOK' /\ ListInv /\ DataInv /\ [Next]_vars => DataInv'
  BY NextData
<1> QED  BY <1>1, <1>2, <1>3, InitLists, InitData, TypeCorrect, PTL DEF Spec, ResultIsFinal
-----------------------------------------------------------------------------

\* The window never holds too many processes, and is full whenever the loop
\* goes to look for dead ones, or there are no jobs left to fill it.
THEOREM WindowIsRight == Spec => []WindowIsKept
<1>1. WindowBound /\ WindowIsFilled <=> WindowIsKept
  BY DEF WindowIsKept
<1> QED  BY <1>1, WindowIsBounded, WindowIsUsed, PTL

\* No process is started twice or revived, the completed list only grows, and
\* what was read for a host with one job stays its result.
THEOREM NothingComesBack == Spec => NothingIsUndone
BY ProcessesOnlyMoveForward, ReadOnce, PTL DEF NothingIsUndone

-----------------------------------------------------------------------------
(* JobQueue implements SlidingWindow.                                      *)

\* Only hosts that jobs were appended for have an entry.
NoStrangers ==
  pc # "open" => \A h \in DOMAIN results :
    \E j \in Job : HostOf[j] = h /\ (j \in ToSet(queued) \/ child[j] # "new")

LEMMA NextStrangers == TypeOK /\ ListInv /\ DataInv /\ NoStrangers /\ [Next]_vars => NoStrangers'
<1> SUFFICES ASSUME TypeOK, ListInv, DataInv, NoStrangers, [Next]_vars PROVE NoStrangers'
  OBVIOUS
<1>0. child \in [Job -> ChildStates] /\ queued \in Seq(Job)
  BY DEF TypeOK
<1>1. CASE Run
  <2>1. ToSet(queued) \subseteq Job
    BY <1>0, ElementOfSeq, LenProperties DEF ToSet
  <2> QED  BY <1>1, <2>1 DEF Run, NoStrangers
<1>2. CASE Prefill \/ Fill
  <2>1. /\ pc' = pc /\ pc # "open" /\ UNCHANGED results
        /\ ToSet(queued) = ToSet(queued') \cup {Last(queued)}
        /\ child' = [child EXCEPT ![Last(queued)] = "running"]
    BY <1>0, <1>2, PopElements DEF Prefill, Fill, AdvanceTheQueue
  <2> QED  BY <1>0, <2>1 DEF NoStrangers
<1>3. CASE FillResults \/ AttachExitCode
  <2>1. UNCHANGED <<pc, queued, child>> /\ DOMAIN results' = DOMAIN results
    BY <1>3 DEF FillResults, AttachExitCode, childVars
  <2> QED  BY <2>1 DEF NoStrangers
<1>4. ASSUME NEW j \in Job, (\E o \in Outcomes : TaskEnds(j, o)) \/ Flush(j) \/ Die(j) \/ Kill(j)
      PROVE  NoStrangers'
  <2>1. /\ UNCHANGED <<pc, queued, results>>
        /\ \E s \in ChildStates \ {"new"} : child' = [child EXCEPT ![j] = s]
    BY <1>4 DEF TaskEnds, Flush, Die, Kill, ChildStates, parentVars
  <2> QED  BY <1>0, <2>1 DEF NoStrangers
<1>5. ASSUME UNCHANGED <<queued, results, child>>, pc' # "open" => pc # "open" PROVE NoStrangers'
  BY <1>5 DEF NoStrangers
<1>6. ASSUME pc' = "open" PROVE NoStrangers'
  BY <1>6 DEF NoStrangers
<1>7. \/ pc' = "open" \/ Run \/ Prefill \/ Fill \/ FillResults \/ AttachExitCode
      \/ \E j \in Job : (\E o \in Outcomes : TaskEnds(j, o)) \/ Flush(j) \/ Die(j) \/ Kill(j)
      \/ UNCHANGED <<queued, results, child>> /\ (pc' # "open" => pc # "open")
  BY EndingsAssumption DEF Next, Parent, Child, Stopped, vars, parentVars, childVars, AppendJob, Close,
     PrefillRaises, PrefillDone, FillDone, Check, Scan, ScanDone, Settle, FillRaises,
     DrainEmpty, FinalEmpty, Return
<1> QED  BY <1>1, <1>2, <1>3, <1>4, <1>5, <1>6, <1>7

\* All that the refinement needs to know of the queue.
QueueInv == TypeOK /\ ListInv /\ WindowInv /\ PrefillInv /\ DataInv /\ ReportInv /\ NoStrangers

\* What the abstract states of a job mean; they exclude one another.
LEMMA WindowStates ==
  ASSUME ListInv, NEW j \in Job
  PROVE  /\ WindowState[j] = "waiting" <=> j \in ToSet(queued)
         /\ WindowState[j] = "active" <=> IsAlive(j)
         /\ WindowState[j] = "ended" <=> child[j] = "dead"
         /\ WindowState[j] = "absent" <=> ~(j \in ToSet(queued) \/ IsAlive(j) \/ child[j] = "dead")
BY DEF WindowState, ListInv, ListsMatchProcesses, IsAlive

\* What changes one job changes its abstract state only.
LEMMA WindowChanges ==
  ASSUME NEW j \in Job, NEW s, WindowState'[j] = s,
         \A k \in Job : k # j => (k \in ToSet(queued') <=> k \in ToSet(queued)) /\ child'[k] = child[k]
  PROVE  WindowState' = [WindowState EXCEPT ![j] = s]
<1>1. WindowState' = [k \in Job |-> WindowState'[k]] /\ WindowState = [k \in Job |-> WindowState[k]]
  BY DEF WindowState
<1>2. ASSUME NEW k \in Job, k # j PROVE WindowState'[k] = WindowState[k]
  BY <1>2 DEF WindowState, IsAlive
<1> HIDE DEF WindowState
<1> QED  BY <1>1, <1>2

\* The instance counts as the queue does.
LEMMA SameCardinality == \A S : Window!Cardinality(S) = Cardinality(S)
BY DEF Cardinality, Window!Cardinality

\* The live processes are fewer than the places as long as there is room.
LEMMA RoomMeansRoom ==
  ASSUME TypeOK, ListInv, Room, NEW S, S \subseteq ToSet(running)
  PROVE  Cardinality(S) < MaxRunning
<1>1. /\ IsFiniteSet(ToSet(running)) /\ Cardinality(ToSet(running)) <= Len(running)
      /\ Len(running) \in Nat /\ Len(running) < MaxRunning
  BY ElementsBounded, LenProperties DEF TypeOK
<1>2. Cardinality(S) <= Cardinality(ToSet(running)) /\ Cardinality(S) \in Nat
      /\ Cardinality(ToSet(running)) \in Nat
  BY <1>1, FS_Subset, FS_CardinalityType
<1> QED  BY <1>1, <1>2, MaxAssumption

\* The entries run() returns are a report the sliding window allows.
LEMMA ResultsAreAReport ==
  ASSUME QueueInv, pc = "codes", idx > Len(completed)
  PROVE  results \in Window!Reports(Window!In("ended"), HostOf, exitcode, delivered, None)
<1> DEFINE ended == {j \in Job : child[j] = "dead"}
<1>0. /\ HostOf \in [Job -> Host] /\ None \notin Job /\ delivered \in SUBSET Job
      /\ results \in [DOMAIN results -> Entries]
  BY HostAssumption, NoneAssumption DEF QueueInv, TypeOK
<1>1. Window!In("ended") = ended
  BY WindowStates DEF QueueInv, Window!In
<1>2. finished /\ queued = <<>> /\ ToSet(queued) = {} /\ ToSet(pipe) = {}
  BY EmptySeq DEF QueueInv, ReportInv, ToSet
<1>3. \A j \in Job : child[j] \in {"new", "dead"} /\ (child[j] = "dead" => j \in ToSet(completed))
  BY <1>2, FinishedMeansDead DEF QueueInv, IsAlive, TypeOK, ChildStates
<1>4. DOMAIN results = {HostOf[j] : j \in ended}
  <2>1. \A j \in ended : HostOf[j] \in DOMAIN results
    BY DEF QueueInv, DataInv, Registered
  <2>2. \A h \in DOMAIN results : \E j \in ended : HostOf[j] = h
    BY <1>2, <1>3 DEF QueueInv, NoStrangers
  <2> QED  BY <2>1, <2>2
<1>5. ASSUME NEW h \in DOMAIN results
      PROVE  /\ \E k \in ended : HostOf[k] = h /\ results[h].exit_code = exitcode[k]
             /\ results[h].results = None \/ results[h].results \in {j \in ended : HostOf[j] = h} \cap delivered
             /\ {j \in ended : HostOf[j] = h} \cap delivered # {} => results[h].results # None
  <2>1. PICK j \in ended : HostOf[j] = h
    BY <1>4
  <2>2. PICK m \in DOMAIN completed : completed[m] = j
    BY <1>3, <2>1 DEF ToSet
  <2>3. m < idx
    BY LenProperties DEF QueueInv, TypeOK
  <2>4. Coded(j)
    BY <2>2, <2>3 DEF QueueInv, ReportInv
  <2>5. \A k \in delivered : k \in ended
    BY <1>0, <1>3 DEF QueueInv, DataInv, Genuine
  <2>6. results[h].results \in {None} \cup Job
    BY <1>0 DEF Entries
  <2>7. results[h].results # None => results[h].results \in {k \in ended : HostOf[k] = h} \cap delivered
    BY <1>0, <2>5, <2>6 DEF QueueInv, DataInv, Genuine
  <2>8. {k \in ended : HostOf[k] = h} \cap delivered # {} => results[h].results # None
    BY <1>0, <1>2 DEF QueueInv, DataInv, NoDatumLost
  <2> QED  BY <2>1, <2>4, <2>7, <2>8 DEF Coded
<1> HIDE DEF ended
<1>6. results \in [{HostOf[j] : j \in ended} ->
                     [exit_code : {exitcode[j] : j \in ended}, results : delivered \cup {None}]]
  <2> SUFFICES ASSUME NEW h \in DOMAIN results
               PROVE  results[h] \in [exit_code : {exitcode[j] : j \in ended}, results : delivered \cup {None}]
    BY <1>0, <1>4
  <2>1. results[h] \in Entries
    BY <1>0
  <2> QED  BY <1>5, <2>1 DEF Entries
<1>7. ASSUME NEW h \in DOMAIN results
      PROVE  LET mine == {j \in ended : HostOf[j] = h} IN
             /\ \E j \in mine : results[h].exit_code = exitcode[j]
             /\ IF mine \cap delivered = {} THEN results[h].results = None
                                            ELSE results[h].results \in mine \cap delivered
  BY <1>5
<1> QED  BY <1>1, <1>6, <1>7 DEF Window!Reports

LEMMA InitRefines == Init => Window!Init
<1> SUFFICES ASSUME Init PROVE Window!Init
  OBVIOUS
<1>1. ToSet(queued) = {}
  BY EmptySeq DEF Init, ToSet
<1>2. WindowState = [j \in Job |-> "absent"]
  BY <1>1 DEF Init, WindowState, IsAlive
<1> QED  BY <1>2 DEF Init, Window!Init, WindowPhase

\* A step that starts or ends no job, delivers nothing and does not change
\* the phase is none of the sliding window.
LEMMA Stutters ==
  ASSUME UNCHANGED <<exitcode, delivered>>, WindowState' = WindowState, WindowPhase' = WindowPhase,
         pc # "returned", pc' # "returned"
  PROVE  UNCHANGED Window!vars
BY DEF Window!vars

LEMMA NextRefines == QueueInv /\ QueueInv' /\ [Next]_vars => [Window!Next]_Window!vars
<1> SUFFICES ASSUME QueueInv, QueueInv', [Next]_vars PROVE [Window!Next]_Window!vars
  OBVIOUS
<1> USE DEF QueueInv
<1>0. child \in [Job -> ChildStates] /\ queued \in Seq(Job) /\ pc \in PCs
  BY DEF TypeOK
<1>1. ASSUME NEW j \in Job, AppendJob(j) PROVE Window!Submit(j)
  <2>1. child[j] = "new"
    BY <1>1, NothingWhileOpen DEF AppendJob
  <2>2. WindowState[j] = "absent"
    BY <1>1, <2>1, WindowStates DEF AppendJob, IsAlive
  <2>3. ToSet(queued') = ToSet(queued) \cup {j} /\ child' = child
    BY <1>0, <1>1, AppendElements DEF AppendJob, childVars
  <2>4. WindowState'[j] = "waiting"
    BY <2>1, <2>3 DEF WindowState, IsAlive
  <2>5. WindowState' = [WindowState EXCEPT ![j] = "waiting"]
    BY <2>3, <2>4, WindowChanges
  <2> QED  BY <1>1, <2>2, <2>5 DEF AppendJob, Window!Submit, WindowPhase, childVars
<1>2. CASE Run
  <2>1. WindowState' = WindowState
    BY <1>2 DEF Run, WindowState, IsAlive, childVars
  <2> QED  BY <1>2, <2>1 DEF Run, Window!Begin, Window!Next, WindowPhase, childVars
<1>3. CASE Prefill \/ Fill
  <2> DEFINE j == Last(queued)
  <2>1. /\ j \in Job /\ ToSet(queued) = ToSet(queued') \cup {j} /\ j \notin ToSet(queued')
    BY <1>0, <1>3, PopElements DEF Prefill, Fill, AdvanceTheQueue, ListInv, OneListPerJob
  <2>2. /\ child' = [child EXCEPT ![j] = "running"] /\ Room
        /\ UNCHANGED <<pc, exitcode, delivered>> /\ pc \in {"prefill", "fill"}
    BY <1>3 DEF Prefill, Fill, AdvanceTheQueue
  <2> HIDE DEF j
  <2>3. WindowState[j] = "waiting"
    BY <2>1, WindowStates
  <2>4. Window!In("active") \subseteq ToSet(running)
    BY WindowStates DEF Window!In, ListInv, ListsMatchProcesses, IsAlive
  <2>5. Cardinality(Window!In("active")) < MaxRunning
    BY <2>2, <2>4, RoomMeansRoom
  <2>6. WindowState' = [WindowState EXCEPT ![j] = "active"]
    <3>1. WindowState'[j] = "active"
      BY <1>0, <2>1, <2>2 DEF WindowState, IsAlive
    <3> QED  BY <1>0, <2>1, <2>2, <3>1, WindowChanges
  <2>7. Window!Launch(j)
    BY <2>2, <2>3, <2>5, <2>6, SameCardinality DEF Window!Launch, WindowPhase
  <2> QED  BY <2>1, <2>7 DEF Window!Next
<1>4. CASE PrefillRaises
  <2>1. ToSet(queued) = {} /\ ToSet(completed) = {} /\ Room
    BY <1>4, EmptySeq DEF PrefillRaises, PrefillInv, ToSet
  <2>2. Window!In("waiting") = {}
    BY <2>1, WindowStates DEF Window!In
  <2>3. Window!In("active") \cup Window!In("ended") \subseteq ToSet(running)
    BY <2>1, WindowStates DEF Window!In, ListInv, ListsMatchProcesses, IsAlive
  <2>4. Cardinality(Window!In("active") \cup Window!In("ended")) < MaxRunning
    BY <2>1, <2>3, RoomMeansRoom
  <2>5. WindowState' = WindowState
    BY <1>4 DEF PrefillRaises, parentVars, childVars, WindowState, IsAlive
  <2>6. Window!Fail
    BY <1>4, <2>2, <2>4, <2>5, SameCardinality DEF PrefillRaises, parentVars, childVars, Window!Fail, WindowPhase
  <2> QED  BY <2>6 DEF Window!Next
<1>5. CASE Return
  <2>1. results \in Window!Reports(Window!In("ended"), HostOf, exitcode, delivered, None)
    BY <1>5, ResultsAreAReport DEF Return
  <2>2. finished /\ ToSet(queued) = {} /\ ToSet(running) = {}
    BY <1>5, EmptySeq DEF Return, ReportInv, ToSet
  <2>3. Window!In("waiting") = {} /\ Window!In("active") = {}
    BY <2>2, WindowStates DEF Window!In, ListInv, ListsMatchProcesses, IsAlive
  <2>4. WindowState' = WindowState
    BY <1>5 DEF Return, parentVars, childVars, WindowState, IsAlive
  <2>5. Window!Report
    BY <1>5, <2>1, <2>3, <2>4 DEF Return, parentVars, childVars, Window!Report, WindowPhase
  <2> QED  BY <2>5 DEF Window!Next
<1>6. ASSUME NEW j \in Job, NEW o \in Outcomes, TaskEnds(j, o) PROVE UNCHANGED Window!vars
  <2>1. UNCHANGED <<pc, queued, results, exitcode, delivered>>
    BY <1>6 DEF TaskEnds, parentVars
  <2>2. WindowState' = WindowState
    BY <1>0, <1>6, <2>1 DEF TaskEnds, WindowState, IsAlive
  <2> QED  BY <2>1, <2>2 DEF Window!vars, WindowPhase
<1>7. ASSUME NEW j \in Job, Flush(j) PROVE Window!Send(j)
  <2>1. UNCHANGED <<pc, queued, results, exitcode>> /\ delivered' = delivered \cup {j}
    BY <1>7 DEF Flush, parentVars
  <2>2. WindowState' = WindowState
    BY <1>0, <1>7, <2>1 DEF Flush, WindowState, IsAlive
  <2>3. WindowState[j] = "active"
    BY <1>7, WindowStates DEF Flush, IsAlive
  <2> QED  BY <2>1, <2>2, <2>3 DEF Window!Send, WindowPhase
<1>8. ASSUME NEW j \in Job, Die(j) \/ Kill(j) PROVE Window!End(j)
  <2>1. /\ IsAlive(j) /\ UNCHANGED <<pc, queued, results, delivered>>
        /\ child' = [child EXCEPT ![j] = "dead"]
    BY <1>8 DEF Die, Kill, IsAlive, parentVars
  <2>2. \E code \in Window!Codes : exitcode' = [exitcode EXCEPT ![j] = code]
    <3>1. ExitCode(outcome[j], NetworkErrorsIgnored) \in {0, 1}
      BY DEF ExitCode
    <3>2. KilledCode = Window!KilledCode
      BY DEF KilledCode, Window!KilledCode
    <3> QED  BY <1>8, <3>1, <3>2 DEF Die, Kill, Window!Codes
  <2>3. WindowState[j] = "active"
    BY <2>1, WindowStates
  <2>4. j \notin ToSet(queued)
    BY <2>1 DEF ListInv, ListsMatchProcesses, IsAlive
  <2>5. WindowState' = [WindowState EXCEPT ![j] = "ended"]
    <3>1. WindowState'[j] = "ended"
      BY <1>0, <2>1, <2>4 DEF WindowState, IsAlive
    <3> QED  BY <1>0, <2>1, <3>1, WindowChanges
  <2> QED  BY <2>1, <2>2, <2>3, <2>5 DEF Window!End, WindowPhase
<1>9. CASE Close \/ PrefillDone \/ FillDone \/ Check \/ Scan \/ ScanDone
  <2>1. /\ UNCHANGED <<queued, child, exitcode, delivered>> /\ pc # "returned" /\ pc' # "returned"
        /\ WindowPhase' = WindowPhase
    BY <1>9 DEF Close, PrefillDone, FillDone, Check, Scan, ScanDone, WindowPhase, parentVars, childVars
  <2>2. WindowState' = WindowState
    BY <2>1 DEF WindowState, IsAlive
  <2> QED  BY <2>1, <2>2, Stutters
<1>10. CASE Settle \/ FillResults \/ DrainEmpty \/ FinalEmpty \/ AttachExitCode
  <2>1. /\ UNCHANGED <<queued, child, exitcode, delivered>> /\ pc # "returned" /\ pc' # "returned"
        /\ WindowPhase' = WindowPhase
    BY <1>10 DEF Settle, FillResults, FillRaises, DrainEmpty, FinalEmpty, AttachExitCode, WindowPhase, parentVars,
       childVars
  <2>2. WindowState' = WindowState
    BY <2>1 DEF WindowState, IsAlive
  <2> QED  BY <2>1, <2>2, Stutters
<1>14. CASE FillRaises
  <2>1. /\ pc \in {"drain", "final"} /\ pc' = "unreadable" /\ pipe # <<>>
        /\ UNCHANGED <<queued, results, child, exitcode, delivered>>
    BY <1>14 DEF FillRaises, parentVars, childVars
  <2>2. delivered # {}
    <3>1. pipe \in Seq(Job)
      BY DEF TypeOK
    <3>2. Head(pipe) \in ToSet(pipe)
      BY <2>1, <3>1, PipeElements
    <3> QED  BY <3>2 DEF DataInv, Genuine
  <2>3. WindowState' = WindowState
    BY <2>1 DEF WindowState, IsAlive
  <2>4. Window!Refuse
    BY <2>1, <2>2, <2>3 DEF Window!Refuse, WindowPhase
  <2> QED  BY <2>4 DEF Window!Next
<1>11. CASE UNCHANGED vars
  <2>1. UNCHANGED <<pc, queued, results, child, exitcode, delivered>>
    BY <1>11 DEF vars, parentVars, childVars
  <2>2. WindowState' = WindowState
    BY <2>1 DEF WindowState, IsAlive
  <2> QED  BY <2>1, <2>2 DEF Window!vars, WindowPhase
<1>12. ASSUME NEW j \in Job, Child(j) \/ Kill(j) PROVE [Window!Next]_Window!vars
  <2>1. CASE \E o \in Outcomes : TaskEnds(j, o)
    BY <1>6, <2>1
  <2>2. CASE Flush(j) \/ Die(j) \/ Kill(j)
    BY <1>7, <1>8, <2>2 DEF Window!Next
  <2> QED  BY <1>12, <2>1, <2>2, EndingsAssumption DEF Child
<1>13. ASSUME NEW j \in Job, AppendJob(j) PROVE Window!Next
  BY <1>1, <1>13 DEF Window!Next
<1> QED
  BY <1>2, <1>3, <1>4, <1>5, <1>9, <1>10, <1>11, <1>12, <1>13, <1>14 DEF Next, Parent, Stopped

\* Whatever the lists, the polling and the pipe do, execute() sees the sliding
\* window: every behaviour of JobQueue is one of it.
THEOREM QueueIsAWindow == Spec => ImplementsWindow
<1>1. Init => QueueInv
  <2>1. Init => WindowInv /\ PrefillInv /\ ReportInv /\ NoStrangers
    BY EmptySeq DEF Init, WindowInv, PrefillInv, PoolFits, ReportInv, NoStrangers
  <2> QED  BY <2>1, InitTyping, InitLists, InitData DEF QueueInv
<1>2. QueueInv /\ [Next]_vars => QueueInv'
  BY NextTyping, NextLists, NextWindow, NextPrefill, NextData, NextReport, NextStrangers DEF QueueInv
<1>3. QueueInv /\ QueueInv' /\ [Next]_vars => [Window!Next]_Window!vars
  BY NextRefines
<1> QED  BY <1>1, <1>2, <1>3, InitRefines, PTL DEF Spec, ImplementsWindow, Window!Spec

=============================================================================
