-------------------------- MODULE RemoteTunnelProofs --------------------------
(***************************************************************************)
(* Theorems about RemoteTunnel for any set of connections, any number of   *)
(* bytes and every interleaving of the four kinds of threads.              *)
(***************************************************************************)
EXTENDS RemoteTunnel, SequenceTheorems, TLAPS

-----------------------------------------------------------------------------
(* The inductive invariant.                                                *)

ThreadStates == {"none", "select", "turn", "send", "blocked", "closing", "ended", "failed"}

Threads(c) == [at : ThreadStates, ready : SUBSET Side, from : Side, data : Seq(1..MaxWrites[c])]

ThreadPart ==
  /\ DOMAIN fwd = Conn /\ fwd = [c \in Conn |-> fwd[c]]
  /\ \A c \in Conn : fwd[c] \in Threads(c)

StreamPart ==
  /\ wrote \in [Conn -> [Side -> Nat]]
  /\ read \in [Conn -> [Side -> Nat]]
  /\ got \in [Conn -> [Side -> Seq(Nat)]]
  /\ \A c \in Conn : \A s \in Side : read[c][s] <= wrote[c][s] /\ wrote[c][s] <= MaxWrites[c]

ConnPart ==
  /\ sock \in [Conn -> {"none", "open", "closed"}]
  /\ chan \in [Conn -> {"none", "open", "closed"}]
  /\ \A c \in Conn : chan[c] = "none" <=> sock[c] = "none"
  /\ \A c \in Conn : chan[c] = "none" => fwd[c].at = "none"

FlagPart ==
  /\ handler \in BOOLEAN
  /\ end \in [Conn -> [Side -> {"up", "eof", "gone"}]]
  /\ block \in {"open", "zip", "chan", "join", "cancel", "cancelled", "left", "raised"}

\* A connection is accepted once, and its thread comes after its channel; the
\* main thread is never ahead of the lists.
ListPart ==
  /\ sockets \in Seq(Conn) /\ channels = sockets
  /\ \A c \in Conn : c \in ToSet(sockets) <=> sock[c] # "none"
  /\ threads \in Seq(Conn)
  /\ \A i \in DOMAIN threads : fwd[threads[i]].at # "none"
  /\ \A i, k \in DOMAIN threads : i # k => threads[i] # threads[k]
  /\ late \subseteq ToSet(threads)
  /\ idx \in Nat /\ idx <= Len(threads)
  /\ Len(threads) <= Len(sockets)
  /\ block \in {"chan", "join"} => idx >= 1

AcceptPart ==
  \/ accepting = [at |-> "nothing"]
  \/ /\ accepting \in [at : {"connect", "list"}, conn : Conn]
     /\ sock[accepting.conn] # "none"
     /\ accepting.conn \notin ToSet(threads)
     /\ accepting.at = "connect" <=> fwd[accepting.conn].at = "none"
     /\ Len(threads) < Len(sockets)

Types == ThreadPart /\ StreamPart /\ ConnPart /\ FlagPart /\ ListPart /\ AcceptPart

\* Who may have closed what: the main thread closes the socket first.
Closings ==
  /\ \A i \in 1..idx : sock[sockets[i]] = "closed"
  /\ \A c \in Conn : end[c]["remote"] = "gone" => chan[c] = "closed"
  /\ \A c \in Conn : fwd[c].at = "ended" => sock[c] = "closed" /\ chan[c] = "closed"
  /\ \A c \in Conn : chan[c] = "closed" =>
       \/ end[c]["remote"] = "gone" \/ sock[c] = "closed"
       \/ fwd[c].at = "none" /\ ~(accepting.at = "connect" /\ accepting.conn = c)

\* The data a thread has taken from one end and not yet given to the other.
Sending(c) == fwd[c].at \in {"send", "blocked"}
Pending(c, s) == IF Sending(c) /\ fwd[c].from = s THEN Len(fwd[c].data) ELSE 0

\* An end that gets no more, and may have lost some.
CutOff(c, s) ==
  IF s = "local" THEN end[c]["local"] = "gone"
  ELSE chan[c] = "closed" /\ (end[c]["remote"] = "gone" \/ sock[c] = "closed")

\* Nothing is lost on the way but to an end that is cut off; when the thread
\* has left its loop, the end that made it do so writes no more.
InOrder(c) == \A s \in Side : \A i \in DOMAIN got[c][s] : got[c][s][i] = i

Held(c) ==
  Sending(c) =>
    /\ Len(fwd[c].data) >= 1
    /\ \A i \in DOMAIN fwd[c].data : fwd[c].data[i] = read[c][fwd[c].from] - Len(fwd[c].data) + i

Kept(c) ==
  fwd[c].at # "failed" => \A s \in Side :
    Len(got[c][Other(s)]) = read[c][s] - Pending(c, s) \/ CutOff(c, Other(s))

Through(c) ==
  fwd[c].at \in {"closing", "ended"} =>
    LET s == fwd[c].from IN
    /\ Len(got[c][Other(s)]) = wrote[c][s] \/ end[c][Other(s)] = "gone"
    /\ end[c][s] # "up" \/ Closed(c, s)

\* Only what goes to the service can be held back.
HeldBack(c) == fwd[c].at = "blocked" => fwd[c].from = "remote"

Stream(c) == InOrder(c) /\ Held(c) /\ HeldBack(c) /\ Kept(c) /\ Through(c)

Streams == \A c \in Conn : Stream(c)

\* How far the clean-up has come.
CleanedUp ==
  /\ block \in {"cancelled", "left"} => ~handler
  /\ block = "left" => Listening
  /\ \A i \in 1..idx : i < idx \/ block \notin {"chan", "join", "raised"} => fwd[threads[i]].at = "ended"
  /\ block \in {"cancel", "cancelled", "left"} => \A i \in DOMAIN threads : i > idx => threads[i] \in late
  /\ \A c \in ToSet(sockets) :
       \/ c \in ToSet(threads)
       \/ accepting.at # "nothing" /\ accepting.conn = c
       \/ chan[c] = "closed" /\ fwd[c].at = "none"

IInv == Types /\ Closings /\ (ShortSends \/ Streams) /\ CleanedUp
-----------------------------------------------------------------------------
(* Lists, and what a step of a thread can touch.                           *)

USE DEF lists, streams

\* list.append(e): the elements keep their places, e has the last one.
LEMMA AppendOne ==
  ASSUME NEW S, NEW s \in Seq(S), NEW e \in S
  PROVE  /\ Append(s, e) \in Seq(S)
         /\ Len(s) \in Nat /\ Len(Append(s, e)) = Len(s) + 1
         /\ \A i \in 1..Len(s) : Append(s, e)[i] = s[i]
         /\ Append(s, e)[Len(s) + 1] = e
         /\ DOMAIN s = 1..Len(s) /\ DOMAIN Append(s, e) = 1..(Len(s) + 1)
         /\ ToSet(Append(s, e)) = ToSet(s) \cup {e}
<1>1. /\ Append(s, e) \in Seq(S)
      /\ Len(Append(s, e)) = Len(s) + 1
      /\ \A i \in 1..Len(s) : Append(s, e)[i] = s[i]
      /\ Append(s, e)[Len(s) + 1] = e
  BY AppendProperties
<1>2. /\ Len(s) \in Nat
      /\ DOMAIN s = 1..Len(s)
      /\ DOMAIN Append(s, e) = 1..(Len(s) + 1)
  BY <1>1, LenProperties
<1>3. 1..(Len(s) + 1) = 1..Len(s) \cup {Len(s) + 1}
  BY <1>2
<1> QED  BY <1>1, <1>2, <1>3 DEF ToSet

\* A function on 1..n is a list of n elements.
LEMMA FunctionIsSeq ==
  ASSUME NEW S, NEW n \in Nat, NEW f \in [1..n -> S]
  PROVE  f \in Seq(S) /\ Len(f) = n
<1>1. f \in Seq(S)
  BY SeqDef
<1>2. Len(f) \in Nat /\ 1..n = 1..Len(f)
  BY <1>1, LenProperties
<1> QED  BY <1>1, <1>2

\* No data fit into an empty list.
LEMMA NoData == <<>> \in Seq(Nat) /\ \A S : <<>> \in Seq(S) /\ Len(<<>>) = 0
BY EmptySeq

\* The types say what TypeOK says.
LEMMA TypesAreOK == Types => TypeOK
<1> SUFFICES ASSUME Types PROVE TypeOK
  OBVIOUS
<1> USE DEF Types, ListPart
<1>1. threads \in Seq({c \in Conn : fwd[c].at # "none"})
  <2>1. \A i \in DOMAIN threads : threads[i] \in {c \in Conn : fwd[c].at # "none"}
    BY LenProperties, ElementOfSeq
  <2>2. Len(threads) \in Nat /\ threads \in [1..Len(threads) -> {c \in Conn : fwd[c].at # "none"}]
    BY <2>1, LenProperties
  <2> QED  BY <2>2, FunctionIsSeq
<1>2. ToSet(sockets) = {c \in Conn : sock[c] # "none"}
  <2>1. ToSet(sockets) \subseteq Conn
    BY LenProperties, ElementOfSeq DEF ToSet
  <2> QED  BY <2>1
<1>3. \/ accepting = [at |-> "nothing"]
      \/ accepting \in [at : {"connect", "list"}, conn : ToSet(sockets) \ ToSet(threads)]
  BY DEF AcceptPart
<1>4. \A c \in Conn :
        /\ fwd[c] \in [at : {"none", "select", "turn", "send", "blocked", "closing", "ended", "failed"},
                       ready : SUBSET Side, from : Side, data : Seq(1..MaxWrites[c])]
        /\ \A s \in Side : read[c][s] \in 0..wrote[c][s] /\ wrote[c][s] \in 0..MaxWrites[c]
  BY BoundAssumption DEF ThreadPart, Threads, ThreadStates, StreamPart
<1>5. idx \in 0..Len(threads)
  BY LenProperties
<1> QED  BY <1>1, <1>2, <1>3, <1>4, <1>5 DEF TypeOK, ConnPart, FlagPart

\* The whole of what a thread does to itself and to the lists.
LEMMA ThreadSteps ==
  ASSUME Types, NEW c \in Conn, Forwarder(c)
  PROVE  /\ UNCHANGED <<lists, accepting, handler, end, wrote, block, idx, late>>
         /\ fwd[c].at \in {"select", "turn", "send", "blocked", "closing"}
         /\ \E f \in Threads(c) :
              f.at # "none" /\ (CloseBoth(c) \/ f.at # "ended") /\ fwd' = [fwd EXCEPT ![c] = f]
         /\ ~CloseBoth(c) => UNCHANGED <<sock, chan>>
         /\ ~Receive(c) => UNCHANGED read
         /\ ~Send(c) => UNCHANGED got
<1> USE DEF Types, ThreadPart
<1>0. /\ fwd[c] \in Threads(c) /\ <<>> \in Seq(1..MaxWrites[c]) /\ MaxWrites[c] \in Nat
      /\ \A f : fwd[c] = f => f \in Threads(c)
  BY EmptySeq, BoundAssumption
<1>1. CASE Wake(c) \/ WakeClosed(c)
  <2>1. PICK ready \in SUBSET Side : fwd' = [fwd EXCEPT ![c] = [fwd[c] EXCEPT !.at = "turn", !.ready = ready]]
    BY <1>1 DEF Wake, WakeClosed, Readable, SetFwd, Side
  <2>2. [fwd[c] EXCEPT !.at = "turn", !.ready = ready] \in Threads(c)
    BY <1>0 DEF Threads, ThreadStates
  <2>3. [fwd[c] EXCEPT !.at = "turn", !.ready = ready].at = "turn"
    BY <1>0 DEF Threads
  <2> QED  BY <1>1, <2>1, <2>2, <2>3 DEF Wake, WakeClosed
<1>2. CASE Receive(c)
  <2>1. PICK n \in 1..Unread(c, Turn(c)) :
          fwd' = [fwd EXCEPT ![c] = [fwd[c] EXCEPT !.at = "send", !.from = Turn(c),
                                       !.data = [i \in 1..n |-> read[c][Turn(c)] + i]]]
    BY <1>2 DEF Receive, SetFwd
  <2> DEFINE data == [i \in 1..n |-> read[c][Turn(c)] + i]
  <2>2. Turn(c) \in Side
    BY DEF Turn, Side
  <2>3. n \in Nat /\ data \in [1..n -> 1..MaxWrites[c]]
    BY <1>0, <2>2 DEF StreamPart, Unread
  <2>4. data \in Seq(1..MaxWrites[c])
    BY <2>3, FunctionIsSeq
  <2> HIDE DEF data
  <2>5. [fwd[c] EXCEPT !.at = "send", !.from = Turn(c), !.data = data] \in Threads(c)
    BY <1>0, <2>2, <2>4 DEF Threads, ThreadStates
  <2>6. [fwd[c] EXCEPT !.at = "send", !.from = Turn(c), !.data = data].at = "send"
    BY <1>0 DEF Threads
  <2>7. fwd' = [fwd EXCEPT ![c] = [fwd[c] EXCEPT !.at = "send", !.from = Turn(c), !.data = data]]
    BY <2>1 DEF data
  <2> QED  BY <1>2, <2>5, <2>6, <2>7 DEF Receive
<1>3. CASE ReceiveEnd(c) \/ ReceiveRaises(c)
  <2>1. Turn(c) \in Side
    BY DEF Turn, Side
  <2>2. /\ [Idle EXCEPT !.at = "closing", !.from = Turn(c)] \in Threads(c)
        /\ [Idle EXCEPT !.at = "failed"] \in Threads(c)
    BY <1>0, <2>1 DEF Idle, Threads, ThreadStates, Side
  <2> QED  BY <1>3, <2>2 DEF ReceiveEnd, ReceiveRaises, Raise, SetFwd, Idle
<1>4. CASE Send(c) \/ SendFails(c)
  <2>1. Forwarded(c) \in Threads(c) /\ Forwarded(c).at \notin {"none", "ended"}
    BY <1>0 DEF Forwarded, Idle, Threads, ThreadStates, Side
  <2>2. [Idle EXCEPT !.at = "failed"] \in Threads(c) /\ [Idle EXCEPT !.at = "failed"].at = "failed"
    BY <1>0 DEF Idle, Threads, ThreadStates, Side
  <2> QED  BY <1>4, <2>1, <2>2 DEF Send, SendFails, Raise, SetFwd
<1>5. CASE CloseBoth(c)
  <2>1. [fwd[c] EXCEPT !.at = "ended"] \in Threads(c) /\ [fwd[c] EXCEPT !.at = "ended"].at = "ended"
    BY <1>0 DEF Threads, ThreadStates
  <2> QED  BY <1>5, <2>1 DEF CloseBoth, SetFwd
<1>6. CASE Blocks(c)
  <2>1. [fwd[c] EXCEPT !.at = "blocked"] \in Threads(c) /\ [fwd[c] EXCEPT !.at = "blocked"].at = "blocked"
    BY <1>0 DEF Threads, ThreadStates
  <2> QED  BY <1>6, <2>1 DEF Blocks, SetFwd
<1> QED  BY <1>1, <1>2, <1>3, <1>4, <1>5, <1>6 DEF Forwarder, Runs

-----------------------------------------------------------------------------
(* Type correctness.                                                       *)

LEMMA InitTypes == Init => Types
<1> SUFFICES ASSUME Init PROVE Types
  OBVIOUS
<1> USE NoData DEF Init, Idle, Side
<1>1. ToSet(<<>>) = {} /\ DOMAIN <<>> = {}
  BY DEF ToSet
<1>2. ThreadPart
  BY DEF ThreadPart, Threads, ThreadStates
<1>3. StreamPart
  BY BoundAssumption DEF StreamPart
<1>4. ConnPart /\ FlagPart
  BY DEF ConnPart, FlagPart
<1>5. ListPart /\ AcceptPart
  BY <1>1 DEF ListPart, AcceptPart
<1> QED  BY <1>2, <1>3, <1>4, <1>5 DEF Types

LEMMA AcceptTypes ==
  ASSUME Types, NEW c \in Conn, Accept(c)
  PROVE  Types'
<1> USE DEF Types
<1>1. sockets \in Seq(Conn) /\ channels = sockets /\ chan[c] = "none" /\ sock[c] = "none" /\ fwd[c].at = "none"
  BY DEF Accept, ListPart, ConnPart
<1>2. /\ sockets' = Append(sockets, c) /\ channels' = sockets' /\ sockets' \in Seq(Conn)
      /\ ToSet(sockets') = ToSet(sockets) \cup {c} /\ Len(sockets') = Len(sockets) + 1
      /\ Len(sockets) \in Nat
  BY <1>1, AppendOne DEF Accept
<1>3. /\ UNCHANGED <<threads, handler, fwd, end, streams, block, idx, late>>
      /\ accepting' = [at |-> "connect", conn |-> c]
      /\ sock' = [sock EXCEPT ![c] = "open"] /\ chan' = [chan EXCEPT ![c] = "open"]
  BY DEF Accept
<1>4. c \notin ToSet(threads)
  BY <1>1 DEF ListPart, ToSet
<1>5. ThreadPart' /\ StreamPart' /\ FlagPart'
  BY <1>3 DEF ThreadPart, StreamPart, FlagPart
<1>6. ConnPart'
  BY <1>1, <1>3 DEF ConnPart
<1>7. Len(threads) \in Nat
  BY LenProperties DEF ListPart
<1>8. ListPart'
  BY <1>2, <1>3, <1>7 DEF ListPart, ConnPart
<1>9. AcceptPart'
  BY <1>1, <1>2, <1>3, <1>4, <1>7 DEF AcceptPart, ConnPart, ListPart
<1> QED  BY <1>5, <1>6, <1>8, <1>9

LEMMA AcceptStepTypes ==
  ASSUME Types, AcceptStep
  PROVE  Types'
<1> USE DEF Types
<1> DEFINE c == accepting.conn
<1>1. /\ accepting \in [at : {"connect", "list"}, conn : Conn]
      /\ c \in Conn /\ c \notin ToSet(threads) /\ sock[c] # "none"
      /\ accepting.at = "connect" <=> fwd[c].at = "none"
      /\ Len(threads) < Len(sockets)
  BY DEF AcceptStep, ConnectFails, Connects, ListThread, AcceptPart
<1>2. chan[c] # "none" /\ fwd[c] \in Threads(c) /\ DOMAIN fwd = Conn
  BY <1>1 DEF ConnPart, ThreadPart
<1> HIDE DEF c
<1>3. CASE ConnectFails
  <2>1. /\ UNCHANGED <<lists, handler, sock, fwd, end, streams, block, idx, late>>
        /\ accepting' = [at |-> "nothing"] /\ chan' = [chan EXCEPT ![c] = "closed"]
    BY <1>3 DEF ConnectFails, c
  <2>2. ThreadPart' /\ StreamPart' /\ FlagPart' /\ ListPart' /\ AcceptPart'
    BY <2>1 DEF ThreadPart, StreamPart, FlagPart, ListPart, AcceptPart
  <2>3. ConnPart'
    BY <1>1, <1>2, <2>1 DEF ConnPart
  <2> QED  BY <2>2, <2>3
<1>4. CASE Connects
  <2> DEFINE f == [fwd[c] EXCEPT !.at = "select"]
  <2>1. /\ UNCHANGED <<lists, handler, sock, chan, end, streams, block, idx, late>>
        /\ fwd' = [fwd EXCEPT ![c] = f] /\ accepting' = [accepting EXCEPT !.at = "list"]
    BY <1>4 DEF Connects, c
  <2>2. f \in Threads(c) /\ f.at = "select"
    BY <1>2 DEF Threads, ThreadStates
  <2> HIDE DEF f
  <2>3. accepting' \in [at : {"connect", "list"}, conn : Conn] /\ accepting'.at = "list" /\ accepting'.conn = c
    BY <1>1, <2>1 DEF c
  <2>4. ThreadPart'
    BY <1>1, <1>2, <2>1, <2>2 DEF ThreadPart
  <2>5. \A k \in Conn : fwd'[k] = IF k = c THEN f ELSE fwd[k]
    BY <1>2, <2>1
  <2>6. StreamPart' /\ FlagPart'
    BY <2>1 DEF StreamPart, FlagPart
  <2>7. ConnPart'
    BY <1>2, <2>1, <2>5 DEF ConnPart
  <2>8. ListPart'
    <3>1. \A i \in DOMAIN threads : threads[i] \in Conn
      BY LenProperties, ElementOfSeq DEF ListPart
    <3> QED  BY <2>1, <2>2, <2>5, <3>1 DEF ListPart
  <2>9. AcceptPart'
    BY <1>1, <2>1, <2>2, <2>3, <2>5 DEF AcceptPart
  <2> QED  BY <2>4, <2>6, <2>7, <2>8, <2>9
<1>5. CASE ListThread
  <2>1. /\ UNCHANGED <<sockets, channels, handler, sock, chan, fwd, end, streams, block, idx>>
        /\ threads' = Append(threads, c) /\ accepting' = [at |-> "nothing"]
        /\ late' \in {late, late \cup {c}} /\ fwd[c].at # "none"
    BY <1>1, <1>5 DEF ListThread, c
  <2>2. /\ threads' \in Seq(Conn)
        /\ Len(threads) \in Nat /\ Len(threads') = Len(threads) + 1
        /\ \A i \in 1..Len(threads) : threads'[i] = threads[i]
        /\ threads'[Len(threads) + 1] = c
        /\ DOMAIN threads = 1..Len(threads) /\ DOMAIN threads' = 1..(Len(threads) + 1)
        /\ ToSet(threads') = ToSet(threads) \cup {c}
    BY <1>1, <2>1, AppendOne DEF ListPart
  <2>3. ASSUME NEW i \in DOMAIN threads', NEW k \in DOMAIN threads', i # k PROVE threads'[i] # threads'[k]
    <3>1. \A m \in DOMAIN threads : threads[m] # c
      BY <1>1 DEF ToSet
    <3>2. CASE i \in DOMAIN threads /\ k \in DOMAIN threads
      BY <2>2, <2>3, <3>2 DEF ListPart
    <3>3. CASE i \notin DOMAIN threads \/ k \notin DOMAIN threads
      BY <2>2, <2>3, <3>1, <3>3
    <3> QED  BY <3>2, <3>3
  <2>4. \A i \in DOMAIN threads' : fwd[threads'[i]].at # "none"
    BY <2>1, <2>2 DEF ListPart
  <2>5. Len(sockets) \in Nat
    BY LenProperties DEF ListPart
  <2>6. ListPart'
    BY <1>1, <2>1, <2>2, <2>3, <2>4, <2>5 DEF ListPart
  <2>7. ThreadPart' /\ StreamPart' /\ FlagPart' /\ ConnPart' /\ AcceptPart'
    BY <2>1 DEF ThreadPart, StreamPart, FlagPart, ConnPart, AcceptPart
  <2> QED  BY <2>6, <2>7
<1> QED  BY <1>3, <1>4, <1>5 DEF AcceptStep

\* The ends of a connection touch its streams and its channel.
LEMMA EndTypes ==
  ASSUME Types, NEW c \in Conn, NEW s \in Side, Write(c, s) \/ Finish(c, s)
  PROVE  Types'
<1> USE DEF Types
<1>1. CASE Write(c, s)
  <2>1. /\ UNCHANGED <<lists, accepting, handler, sock, chan, fwd, end, read, got, block, idx, late>>
        /\ wrote[c][s] < MaxWrites[c] /\ wrote' = [wrote EXCEPT ![c][s] = wrote[c][s] + 1]
    BY <1>1 DEF Write
  <2>2. wrote[c][s] \in Nat /\ wrote \in [Conn -> [Side -> Nat]] /\ MaxWrites[c] \in Nat
    BY BoundAssumption DEF StreamPart
  <2>3. /\ wrote' \in [Conn -> [Side -> Nat]]
        /\ \A k \in Conn : \A t \in Side :
             wrote'[k][t] = IF k = c /\ t = s THEN wrote[c][s] + 1 ELSE wrote[k][t]
    BY <2>1, <2>2
  <2>4. ASSUME NEW k \in Conn, NEW t \in Side PROVE read[k][t] <= wrote'[k][t] /\ wrote'[k][t] <= MaxWrites[k]
    <3>1. /\ read[k][t] \in Nat /\ wrote[k][t] \in Nat /\ MaxWrites[k] \in Nat
          /\ read[k][t] <= wrote[k][t] /\ wrote[k][t] <= MaxWrites[k]
      BY BoundAssumption DEF StreamPart
    <3> QED  BY <2>1, <2>3, <3>1
  <2>5. StreamPart'
    BY <2>1, <2>3, <2>4 DEF StreamPart
  <2>6. ThreadPart' /\ FlagPart' /\ ConnPart' /\ ListPart' /\ AcceptPart'
    BY <2>1 DEF ThreadPart, FlagPart, ConnPart, ListPart, AcceptPart
  <2> QED  BY <2>5, <2>6
<1>2. CASE Finish(c, s)
  <2>1. /\ UNCHANGED <<lists, accepting, handler, sock, fwd, streams, block, idx, late>>
        /\ \E e \in {"eof", "gone"} : end' = [end EXCEPT ![c][s] = e]
        /\ \/ chan' = chan
           \/ chan[c] = "open" /\ chan' = [chan EXCEPT ![c] = "closed"]
    BY <1>2 DEF Finish, Reaches
  <2>2. end' \in [Conn -> [Side -> {"up", "eof", "gone"}]]
    BY <2>1 DEF FlagPart
  <2>3. ThreadPart' /\ StreamPart' /\ ListPart' /\ AcceptPart' /\ FlagPart'
    BY <2>1, <2>2 DEF ThreadPart, StreamPart, FlagPart, ListPart, AcceptPart
  <2>4. ConnPart'
    BY <2>1 DEF ConnPart
  <2> QED  BY <2>3, <2>4
<1> QED  BY <1>1, <1>2

\* What _forwarder() receives and sends.
LEMMA ForwarderStreams ==
  ASSUME Types, NEW c \in Conn, Forwarder(c)
  PROVE  StreamPart'
<1> USE DEF Types
<1>1. UNCHANGED wrote /\ (~Receive(c) => UNCHANGED read) /\ (~Send(c) => UNCHANGED got)
  BY ThreadSteps
<1>2. CASE Receive(c)
  <2> DEFINE s == Turn(c)
  <2>1. PICK n \in 1..Unread(c, s) : read' = [read EXCEPT ![c][s] = read[c][s] + n]
    BY <1>2 DEF Receive
  <2>2. s \in Side /\ UNCHANGED got
    BY <1>2 DEF Turn, Side, Receive
  <2> HIDE DEF s
  <2>3. /\ read \in [Conn -> [Side -> Nat]] /\ read[c][s] \in Nat /\ n \in Nat /\ wrote[c][s] \in Nat
        /\ read[c][s] + n <= wrote[c][s]
    BY <2>1, <2>2 DEF StreamPart, Unread
  <2>4. /\ read' \in [Conn -> [Side -> Nat]]
        /\ \A k \in Conn : \A t \in Side :
             read'[k][t] = IF k = c /\ t = s THEN read[c][s] + n ELSE read[k][t]
    BY <2>1, <2>2, <2>3
  <2> QED  BY <1>1, <2>2, <2>3, <2>4 DEF StreamPart
<1>3. CASE Send(c)
  <2> DEFINE o == Other(fwd[c].from)
             data == fwd[c].data
  <2>1. PICK n \in 1..Len(data) : got' = [got EXCEPT ![c][o] = got[c][o] \o SubSeq(data, 1, n)]
    BY <1>3 DEF Send
  <2>2. o \in Side /\ UNCHANGED read
    BY <1>3 DEF Other, Side, Send
  <2>3. data \in Seq(1..MaxWrites[c])
    BY DEF ThreadPart, Threads
  <2> HIDE DEF o, data
  <2>4. 1 \in Int /\ n \in Int /\ \A i \in 1..n : data[i] \in Nat
    <3>1. Len(data) \in Nat /\ \A i \in 1..Len(data) : data[i] \in 1..MaxWrites[c]
      BY <2>3, LenProperties, ElementOfSeq
    <3>2. n \in 1..Len(data)
      BY <2>1
    <3> QED  BY <3>1, <3>2, BoundAssumption
  <2>5. SubSeq(data, 1, n) \in Seq(Nat)
    BY <2>4, SubSeqProperties
  <2>6. got \in [Conn -> [Side -> Seq(Nat)]] /\ got[c][o] \in Seq(Nat)
    BY <2>2 DEF StreamPart
  <2>7. got[c][o] \o SubSeq(data, 1, n) \in Seq(Nat)
    BY <2>5, <2>6, ConcatProperties
  <2>8. got' \in [Conn -> [Side -> Seq(Nat)]]
    BY <2>1, <2>2, <2>6, <2>7
  <2> QED  BY <1>1, <2>2, <2>8 DEF StreamPart
<1>4. CASE ~Receive(c) /\ ~Send(c)
  BY <1>1, <1>4 DEF StreamPart
<1> QED  BY <1>2, <1>3, <1>4

LEMMA ForwarderTypes ==
  ASSUME Types, NEW c \in Conn, Forwarder(c)
  PROVE  Types'
<1> USE DEF Types
<1>1. /\ UNCHANGED <<lists, accepting, handler, end, wrote, block, idx, late>>
      /\ fwd[c].at # "none" /\ (~CloseBoth(c) => UNCHANGED <<sock, chan>>)
  BY ThreadSteps
<1>2. PICK f \in Threads(c) : f.at # "none" /\ fwd' = [fwd EXCEPT ![c] = f]
  BY ThreadSteps
<1>3. DOMAIN fwd' = Conn /\ \A k \in Conn : fwd'[k] = IF k = c THEN f ELSE fwd[k]
  BY <1>2 DEF ThreadPart
<1>4. ThreadPart'
  BY <1>2, <1>3 DEF ThreadPart
<1>5. StreamPart'
  BY ForwarderStreams
<1>6. /\ sock' \in [Conn -> {"none", "open", "closed"}] /\ chan' \in [Conn -> {"none", "open", "closed"}]
      /\ \A k \in Conn : (sock'[k] = "none" <=> sock[k] = "none") /\ (chan'[k] = "none" <=> chan[k] = "none")
  <2>1. CASE CloseBoth(c)
    <3>1. sock' = [sock EXCEPT ![c] = "closed"] /\ chan' = [chan EXCEPT ![c] = "closed"]
      BY <2>1 DEF CloseBoth
    <3>2. sock[c] # "none" /\ chan[c] # "none"
      BY <1>1 DEF ConnPart
    <3> QED  BY <3>1, <3>2 DEF ConnPart
  <2>2. CASE ~CloseBoth(c)
    BY <1>1, <2>2 DEF ConnPart
  <2> QED  BY <2>1, <2>2
<1>7. ConnPart'
  BY <1>1, <1>3, <1>6 DEF ConnPart
<1>8. FlagPart'
  BY <1>1 DEF FlagPart
<1>9. ListPart'
  <2>1. \A i \in DOMAIN threads : threads[i] \in Conn
    BY LenProperties, ElementOfSeq DEF ListPart
  <2> QED  BY <1>1, <1>2, <1>3, <1>6, <2>1 DEF ListPart
<1>10. AcceptPart'
  BY <1>1, <1>2, <1>3, <1>6 DEF AcceptPart
<1> QED  BY <1>4, <1>5, <1>7, <1>8, <1>9, <1>10

LEMMA MainTypes ==
  ASSUME Types, EndBody \/ CleanUp
  PROVE  Types'
<1> USE DEF Types
<1>0. /\ sockets \in Seq(Conn) /\ channels = sockets /\ Len(sockets) \in Nat /\ DOMAIN sockets = 1..Len(sockets)
      /\ Len(threads) \in Nat
      /\ \A i \in 1..Len(sockets) : sockets[i] \in Conn /\ sockets[i] \in ToSet(sockets)
      /\ idx \in Nat /\ idx <= Len(threads) /\ Len(threads) <= Len(sockets)
  BY LenProperties, ElementOfSeq DEF ListPart, ToSet
<1>1. CASE CloseSocket
  <2> DEFINE c == sockets[idx + 1]
  <2>1. /\ idx + 1 <= Len(threads) /\ idx' = idx + 1 /\ sock' = [sock EXCEPT ![c] = "closed"] /\ block' = "chan"
        /\ UNCHANGED <<lists, accepting, handler, chan, fwd, end, streams, late>>
    BY <1>0, <1>1 DEF CloseSocket, Another, AfterSocket
  <2>2. c \in Conn /\ sock[c] # "none"
    BY <1>0, <2>1 DEF ListPart
  <2> HIDE DEF c
  <2>3. /\ sock' \in [Conn -> {"none", "open", "closed"}]
        /\ \A k \in Conn : sock'[k] = "none" <=> sock[k] = "none"
    BY <2>1, <2>2 DEF ConnPart
  <2>4. ThreadPart' /\ StreamPart' /\ FlagPart'
    BY <2>1 DEF ThreadPart, StreamPart, FlagPart
  <2>5. ConnPart' /\ AcceptPart'
    BY <2>1, <2>3 DEF ConnPart, AcceptPart
  <2>6. ListPart'
    BY <1>0, <2>1, <2>3 DEF ListPart
  <2> QED  BY <2>4, <2>5, <2>6
<1>2. CASE CloseChannel
  <2> DEFINE c == sockets[idx]
  <2>1. /\ idx \in 1..Len(sockets) /\ chan' = [chan EXCEPT ![c] = "closed"] /\ block' = "join" /\ block = "chan"
        /\ UNCHANGED <<lists, accepting, handler, sock, fwd, end, streams, idx, late>>
    BY <1>0, <1>2 DEF CloseChannel, ListPart
  <2>2. c \in Conn /\ chan[c] # "none"
    BY <1>0, <2>1 DEF ListPart, ConnPart
  <2> HIDE DEF c
  <2>3. ThreadPart' /\ StreamPart' /\ FlagPart' /\ ListPart' /\ AcceptPart'
    BY <2>1 DEF ThreadPart, StreamPart, FlagPart, ListPart, AcceptPart
  <2>4. ConnPart'
    BY <2>1, <2>2 DEF ConnPart
  <2> QED  BY <2>3, <2>4
<1>3. CASE EndBody \/ Join \/ LoopEnds \/ Cancel \/ Leave
  <2>1. /\ UNCHANGED <<lists, accepting, sock, chan, fwd, end, streams, idx, late>>
        /\ block' \in {"zip", "raised", "cancel", "cancelled", "left"} /\ handler' \in {handler, FALSE}
    BY <1>3 DEF EndBody, Join, LoopEnds, Cancel, Leave
  <2>2. ThreadPart' /\ StreamPart' /\ AcceptPart' /\ ConnPart'
    BY <2>1 DEF ThreadPart, StreamPart, AcceptPart, ConnPart
  <2>3. FlagPart' /\ ListPart'
    BY <2>1 DEF FlagPart, ListPart
  <2> QED  BY <2>2, <2>3
<1> QED  BY <1>1, <1>2, <1>3 DEF CleanUp

LEMMA NextTypes == Types /\ [Next]_vars => Types'
<1> SUFFICES ASSUME Types, [Next]_vars PROVE Types'
  OBVIOUS
<1>1. CASE UNCHANGED vars
  <2>1. ThreadPart' /\ StreamPart' /\ AcceptPart' /\ ConnPart'
    BY <1>1 DEF vars, Types, ThreadPart, StreamPart, AcceptPart, ConnPart
  <2>2. FlagPart' /\ ListPart'
    BY <1>1 DEF vars, Types, FlagPart, ListPart
  <2> QED  BY <2>1, <2>2 DEF Types
<1> QED
  BY <1>1, AcceptTypes, AcceptStepTypes, EndTypes, ForwarderTypes, MainTypes DEF Next, Stopped

\* Every reachable state is well typed; the lists never get out of step but by
\* refused connections and the one that is being accepted.
THEOREM TypeCorrect == Spec => []TypeOK
BY InitTypes, NextTypes, TypesAreOK, PTL DEF Spec

-----------------------------------------------------------------------------
(* What is closed, and by whom.                                            *)

LEMMA NextClosings == Types /\ Closings /\ [Next]_vars => Closings'
<1> SUFFICES ASSUME Types, Closings, [Next]_vars PROVE Closings'
  OBVIOUS
<1> USE DEF Types
<1>0. /\ \A i \in 1..Len(sockets) : sockets[i] \in Conn
      /\ Len(sockets) \in Nat /\ idx \in Nat /\ idx <= Len(sockets)
      /\ channels = sockets
      /\ DOMAIN fwd = Conn /\ DOMAIN end = Conn /\ DOMAIN sock = Conn /\ DOMAIN chan = Conn
  <2>1. Len(threads) \in Nat
    BY LenProperties DEF ListPart
  <2> QED  BY <2>1, LenProperties, ElementOfSeq DEF ListPart, ThreadPart, ConnPart, FlagPart
<1>1. ASSUME NEW c \in Conn, Accept(c) PROVE Closings'
  <2>1. /\ UNCHANGED <<fwd, end, idx>> /\ accepting' = [at |-> "connect", conn |-> c]
        /\ sock' = [sock EXCEPT ![c] = "open"] /\ chan' = [chan EXCEPT ![c] = "open"]
        /\ chan[c] = "none" /\ sock[c] = "none"
        /\ \A i \in 1..Len(sockets) : sockets'[i] = sockets[i]
    BY <1>1, AppendOne DEF Accept, ConnPart, ListPart
  <2> QED  BY <1>0, <2>1 DEF Closings, ConnPart
<1>2. CASE AcceptStep
  <2>1. CASE ConnectFails
    BY <1>0, <2>1 DEF ConnectFails, Closings, AcceptPart
  <2>2. CASE Connects
    <3>1. /\ UNCHANGED <<sockets, sock, chan, end, idx>> /\ accepting.at = "connect"
          /\ accepting' = [accepting EXCEPT !.at = "list"]
          /\ accepting \in [at : {"connect", "list"}, conn : Conn]
          /\ \A k \in Conn : k # accepting.conn => fwd'[k] = fwd[k]
      BY <2>2 DEF Connects, AcceptPart
    <3>2. fwd'[accepting.conn].at = "select" /\ accepting'.at = "list"
      <4>1. fwd[accepting.conn] \in Threads(accepting.conn)
        BY <3>1 DEF ThreadPart
      <4> QED  BY <1>0, <2>2, <3>1, <4>1 DEF Connects, Threads
    <3> QED  BY <1>0, <3>1, <3>2 DEF Closings
  <2>3. CASE ListThread
    BY <2>3 DEF ListThread, Closings, AcceptPart
  <2> QED  BY <1>2, <2>1, <2>2, <2>3 DEF AcceptStep
<1>3. ASSUME NEW c \in Conn, NEW s \in Side, Write(c, s) \/ Finish(c, s) PROVE Closings'
  <2>1. CASE Write(c, s)
    BY <2>1 DEF Write, Closings
  <2>2. CASE Finish(c, s)
    <3>1. /\ UNCHANGED <<sockets, accepting, sock, fwd, idx>> /\ s \in {"local", "remote"} /\ ~Over(c)
          /\ \E e \in {"eof", "gone"} : end' = [end EXCEPT ![c][s] = e]
          /\ chan' = IF s = "remote" /\ end'[c][s] = "gone" THEN [chan EXCEPT ![c] = "closed"] ELSE chan
      BY <2>2 DEF Finish, Reaches, Side
    <3>2. /\ end'[c]["remote"] = "gone" /\ s = "remote" => chan'[c] = "closed"
          /\ s # "remote" => end'[c]["remote"] = end[c]["remote"]
          /\ end[c][s] # "gone"
          /\ \A k \in Conn : k # c => end'[k] = end[k] /\ chan'[k] = chan[k]
          /\ chan'[c] \in {chan[c], "closed"}
      BY <1>0, <2>2, <3>1 DEF FlagPart, Finish
    <3>3. chan'[c] = "closed" => chan[c] = "closed" \/ end'[c]["remote"] = "gone"
      BY <1>0, <3>1
    <3> QED  BY <3>1, <3>2, <3>3 DEF Closings
  <2> QED  BY <1>3, <2>1, <2>2
<1>4. ASSUME NEW c \in Conn, Forwarder(c) PROVE Closings'
  <2>1. /\ UNCHANGED <<sockets, accepting, end, idx>> /\ fwd[c].at \notin {"none", "ended"}
        /\ ~CloseBoth(c) => UNCHANGED <<sock, chan>>
    BY <1>4, ThreadSteps
  <2>2. PICK f \in Threads(c) :
             f.at # "none" /\ (CloseBoth(c) \/ f.at # "ended") /\ fwd' = [fwd EXCEPT ![c] = f]
    BY <1>4, ThreadSteps
  <2>3. \A k \in Conn : fwd'[k] = IF k = c THEN f ELSE fwd[k]
    BY <1>0, <2>2
  <2>4. CASE CloseBoth(c)
    <3>1. sock' = [sock EXCEPT ![c] = "closed"] /\ chan' = [chan EXCEPT ![c] = "closed"]
      BY <2>4 DEF CloseBoth
    <3> QED  BY <1>0, <2>1, <2>3, <3>1 DEF Closings
  <2>5. CASE ~CloseBoth(c)
    BY <2>1, <2>2, <2>3, <2>5 DEF Closings
  <2> QED  BY <2>4, <2>5
<1>5. CASE CloseSocket
  <2>1. /\ idx' = idx + 1 /\ idx + 1 <= Len(sockets) /\ sock' = [sock EXCEPT ![sockets[idx + 1]] = "closed"]
        /\ UNCHANGED <<sockets, accepting, chan, fwd, end>>
    BY <1>0, <1>5 DEF CloseSocket, Another
  <2>2. \A k \in Conn : sock'[k] = "closed" \/ sock'[k] = sock[k]
    BY <1>0, <2>1
  <2>3. sockets[idx + 1] \in Conn /\ sock'[sockets[idx + 1]] = "closed"
    BY <1>0, <2>1
  <2> QED  BY <1>0, <2>1, <2>2, <2>3 DEF Closings
<1>6. CASE CloseChannel
  <2>1. /\ chan' = [chan EXCEPT ![sockets[idx]] = "closed"] /\ idx >= 1
        /\ UNCHANGED <<sockets, accepting, sock, fwd, end, idx>>
    BY <1>0, <1>6 DEF CloseChannel, ListPart
  <2>2. sock[sockets[idx]] = "closed"
    BY <1>0, <2>1 DEF Closings
  <2> QED  BY <1>0, <2>1, <2>2 DEF Closings
<1>7. CASE EndBody \/ Join \/ LoopEnds \/ Cancel \/ Leave
  BY <1>7 DEF EndBody, Join, LoopEnds, Cancel, Leave, Closings
<1>8. CASE UNCHANGED vars
  BY <1>8 DEF vars, Closings
<1> QED
  BY <1>1, <1>2, <1>3, <1>4, <1>5, <1>6, <1>7, <1>8 DEF Next, CleanUp, Stopped

-----------------------------------------------------------------------------
(* The data.                                                               *)

\* What is closed, gone or through stays so, and then a stream that is not
\* touched stays as it was.
LEMMA StreamStays ==
  ASSUME NEW c \in Conn, Stream(c), fwd[c].from \in Side,
         fwd'[c] = fwd[c], wrote'[c] = wrote[c], read'[c] = read[c], got'[c] = got[c],
         sock[c] = "closed" => sock'[c] = "closed", chan[c] = "closed" => chan'[c] = "closed",
         \A s \in Side : /\ end[c][s] = "gone" => end'[c][s] = "gone"
                         /\ end[c][s] # "up" => end'[c][s] # "up"
  PROVE  Stream(c)'
<1>1. /\ \A s \in Side : CutOff(c, s) => CutOff(c, s)'
      /\ \A s \in Side : Closed(c, s) => Closed(c, s)'
      /\ \A s \in Side : Pending(c, s) = Pending(c, s)'
  BY DEF CutOff, Closed, Pending, Sending, Side
<1>2. \A s \in Side : Other(s) \in Side
  BY DEF Side, Other
<1>3. InOrder(c)' /\ Held(c)' /\ HeldBack(c)'
  BY DEF Stream, InOrder, Held, HeldBack, Sending
<1>4. Kept(c)'
  BY <1>1, <1>2 DEF Stream, Kept
<1>5. Through(c)'
  BY <1>1, <1>2 DEF Stream, Through
<1> QED  BY <1>3, <1>4, <1>5 DEF Stream

\* The sorts of what a stream is made of.
LEMMA StreamSorts ==
  ASSUME Types, NEW c \in Conn
  PROVE  /\ fwd[c] \in Threads(c) /\ fwd[c].from \in Side /\ DOMAIN fwd = Conn
         /\ fwd[c].data \in Seq(Nat) /\ Len(fwd[c].data) \in Nat
         /\ \A s \in Side : /\ Other(s) \in Side /\ Other(Other(s)) = s /\ Other(s) # s
                            /\ read[c][s] \in Nat /\ wrote[c][s] \in Nat /\ read[c][s] <= wrote[c][s]
                            /\ got[c][s] \in Seq(Nat) /\ Len(got[c][s]) \in Nat
<1> USE DEF Types
<1>1. fwd[c] \in Threads(c) /\ DOMAIN fwd = Conn
  BY DEF ThreadPart
<1>2. fwd[c].from \in Side /\ fwd[c].data \in Seq(1..MaxWrites[c])
  BY <1>1 DEF Threads
<1>3. fwd[c].data \in Seq(Nat) /\ Len(fwd[c].data) \in Nat
  <2>1. Len(fwd[c].data) \in Nat /\ \A i \in 1..Len(fwd[c].data) : fwd[c].data[i] \in 1..MaxWrites[c]
    BY <1>2, LenProperties, ElementOfSeq
  <2>2. fwd[c].data \in [1..Len(fwd[c].data) -> Nat]
    BY <1>2, <2>1, LenProperties, BoundAssumption
  <2> QED  BY <2>1, <2>2, SeqDef
<1>4. \A s \in Side : Other(s) \in Side /\ Other(Other(s)) = s /\ Other(s) # s
  BY DEF Side, Other
<1>5. \A s \in Side : /\ read[c][s] \in Nat /\ wrote[c][s] \in Nat /\ read[c][s] <= wrote[c][s]
                      /\ got[c][s] \in Seq(Nat)
  BY DEF StreamPart
<1> QED  BY <1>1, <1>2, <1>3, <1>4, <1>5, LenProperties

\* Before and after a step that only moves a thread about, nothing is pending.
LEMMA NothingPending ==
  ASSUME Types, NEW c \in Conn, Stream(c),
         fwd[c].at \notin {"send", "blocked", "failed"},
         fwd'[c].at \notin {"send", "blocked", "closing", "ended"},
         UNCHANGED <<read, got, end>>,
         sock[c] = "closed" => sock'[c] = "closed", chan[c] = "closed" => chan'[c] = "closed"
  PROVE  Stream(c)'
<1>1. \A s \in Side : Pending(c, s) = 0 /\ Pending(c, s)' = 0
  BY DEF Pending, Sending
<1>2. \A s \in Side : CutOff(c, s) => CutOff(c, s)'
  BY DEF CutOff
<1>3. \A s \in Side : Other(s) \in Side
  BY StreamSorts
<1> QED  BY <1>1, <1>2, <1>3 DEF Stream, InOrder, Held, HeldBack, Sending, Kept, Through

\* recv(): what has been taken and not yet sent is what the thread holds.
LEMMA ReceiveStream ==
  ASSUME Types, NEW c \in Conn, Stream(c), Receive(c)
  PROVE  Stream(c)'
<1> DEFINE s == Turn(c)
<1>1. PICK n \in 1..Unread(c, s) :
        /\ read' = [read EXCEPT ![c][s] = read[c][s] + n]
        /\ fwd' = [fwd EXCEPT ![c] = [fwd[c] EXCEPT !.at = "send", !.from = s,
                                        !.data = [i \in 1..n |-> read[c][s] + i]]]
  BY DEF Receive, SetFwd
<1>2. s \in Side /\ fwd[c].at = "turn" /\ UNCHANGED <<sock, chan, end, wrote, got>>
  BY DEF Turn, Side, Receive
<1> HIDE DEF s
<1> DEFINE data == [i \in 1..n |-> read[c][s] + i]
<1>3. /\ read \in [Conn -> [Side -> Nat]] /\ n \in Nat /\ n >= 1
      /\ \A t \in Side : read'[c][t] = IF t = s THEN read[c][s] + n ELSE read[c][t]
  BY <1>1, <1>2, StreamSorts DEF Types, StreamPart, Unread
<1>4. data \in [1..n -> Nat] /\ \A i \in 1..n : data[i] = read[c][s] + i
  BY <1>2, <1>3
<1>5. data \in Seq(Nat) /\ Len(data) = n /\ DOMAIN data = 1..n
  BY <1>3, <1>4, FunctionIsSeq
<1>6. fwd' = [fwd EXCEPT ![c] = [fwd[c] EXCEPT !.at = "send", !.from = s, !.data = data]]
  BY <1>1
<1> HIDE DEF data
<1>7. fwd'[c].at = "send" /\ fwd'[c].from = s /\ fwd'[c].data = data
  BY <1>6, StreamSorts DEF Threads
<1>8. Held(c)' /\ HeldBack(c)'
  <2>1. \A i \in 1..n : data[i] = read'[c][s] - n + i
    BY <1>2, <1>3, <1>4, StreamSorts
  <2> QED  BY <1>3, <1>5, <1>7, <2>1 DEF Held, HeldBack, Sending
<1>9. Kept(c)'
  <2>1. \A t \in Side : Pending(c, t) = 0 /\ Pending(c, t)' = IF t = s THEN n ELSE 0
    BY <1>2, <1>5, <1>7 DEF Pending, Sending
  <2>2. \A t \in Side : CutOff(c, t) = CutOff(c, t)'
    BY <1>2 DEF CutOff
  <2>3. \A t \in Side : Len(got[c][Other(t)]) = read[c][t] \/ CutOff(c, Other(t))
    BY <1>2, <2>1, StreamSorts DEF Stream, Kept
  <2>4. \A t \in Side : read'[c][t] - Pending(c, t)' = read[c][t]
    BY <1>3, <2>1, StreamSorts
  <2>5. \A t \in Side : Other(t) \in Side
    BY StreamSorts
  <2> QED  BY <1>2, <2>2, <2>3, <2>4, <2>5 DEF Kept
<1>10. InOrder(c)' /\ Through(c)'
  BY <1>2, <1>7 DEF Stream, InOrder, Through
<1> QED  BY <1>8, <1>9, <1>10 DEF Stream

\* recv() of nothing: the other end has got everything, or is gone.
LEMMA ReceiveEndStream ==
  ASSUME Types, Closings, NEW c \in Conn, Stream(c), ReceiveEnd(c)
  PROVE  Stream(c)'
<1> DEFINE s == Turn(c)
<1>1. /\ s \in Side /\ fwd[c].at = "turn" /\ UNCHANGED <<sock, chan, end, streams>>
      /\ ~(s = "local" /\ sock[c] = "closed")
      /\ Unread(c, s) = 0 /\ (end[c][s] # "up" \/ Closed(c, s))
      /\ fwd' = [fwd EXCEPT ![c] = [Idle EXCEPT !.at = "closing", !.from = s]]
  BY DEF Turn, Side, ReceiveEnd, AtEnd, Closed, SetFwd
<1> HIDE DEF s
<1>2. fwd'[c].at = "closing" /\ fwd'[c].from = s
  BY <1>1, StreamSorts DEF Idle
<1>3. \A t \in Side : Pending(c, t) = 0 /\ Pending(c, t)' = 0
  BY <1>1, <1>2 DEF Pending, Sending
<1>4. \A t \in Side : Len(got[c][Other(t)]) = read[c][t] \/ CutOff(c, Other(t))
  BY <1>1, <1>3, StreamSorts DEF Stream, Kept
<1>5. \A t \in Side : CutOff(c, t) = CutOff(c, t)'
  BY <1>1 DEF CutOff
<1>6. Kept(c)'
  BY <1>1, <1>3, <1>4, <1>5, StreamSorts DEF Kept
<1>7. Through(c)'
  <2>1. read[c][s] = wrote[c][s]
    BY <1>1, StreamSorts DEF Unread
  <2>2. CutOff(c, Other(s)) => end[c][Other(s)] = "gone"
    BY <1>1 DEF CutOff, Other, Side
  <2> QED  BY <1>1, <1>2, <1>4, <2>1, <2>2 DEF Through, Closed
<1> QED  BY <1>1, <1>2, <1>6, <1>7 DEF Stream, InOrder, Held, HeldBack, Sending

\* What a thread does when it is back at its select() or has been stopped by it.
LEMMA ForwardedAt == \A c \in Conn : Forwarded(c).at \in {"turn", "failed", "select"}
BY DEF Forwarded, Idle

\* send() of all that was held: it goes just behind what the other end has.
LEMMA SendStream ==
  ASSUME Types, ~ShortSends, NEW c \in Conn, Stream(c), Send(c)
  PROVE  Stream(c)'
<1> PICK s \in Side : s = fwd[c].from
  BY StreamSorts
<1> DEFINE data == fwd[c].data
<1>0. /\ s \in Side /\ Other(s) \in Side /\ Other(Other(s)) = s /\ Other(s) # s
      /\ data \in Seq(Nat) /\ Len(data) \in Nat /\ DOMAIN data = 1..Len(data)
  BY StreamSorts, LenProperties
<1>1. /\ Sending(c) /\ (Other(s) = "local" \/ ~Closed(c, Other(s))) /\ end[c][Other(s)] # "gone"
      /\ got' = [got EXCEPT ![c][Other(s)] = got[c][Other(s)] \o SubSeq(data, 1, Len(data))]
      /\ fwd' = [fwd EXCEPT ![c] = Forwarded(c)]
      /\ UNCHANGED <<sock, chan, end, wrote, read>>
  <2>1. fwd[c].at = "blocked" => Other(s) = "local"
    BY <1>0 DEF Stream, HeldBack, Side, Other
  <2> QED  BY <2>1 DEF Send, SetFwd, Sending, Deaf, Blocked
<1>2. fwd'[c].at \in {"turn", "failed", "select"}
  BY <1>1, StreamSorts, ForwardedAt
<1>3. /\ Len(data) >= 1
      /\ \A i \in 1..Len(data) : data[i] = read[c][s] - Len(data) + i
  BY <1>0, <1>1 DEF Stream, Held, HeldBack, Sending
<1>4. Pending(c, s) = Len(data) /\ Pending(c, Other(s)) = 0 /\ \A t \in Side : Pending(c, t)' = 0
  BY <1>0, <1>1, <1>2 DEF Pending, Sending
<1> HIDE DEF data
<1>5. ~CutOff(c, Other(s))
  BY <1>0, <1>1 DEF CutOff, Closed, Side
<1> DEFINE old == got[c][Other(s)]
<1>6. Len(old) = read[c][s] - Len(data) /\ old \in Seq(Nat) /\ Len(old) \in Nat /\ read[c][s] \in Nat
  BY <1>0, <1>1, <1>4, <1>5, StreamSorts DEF Stream, Kept, Sending
<1> DEFINE new == old \o data
<1>7. SubSeq(data, 1, Len(data)) = data
  BY <1>0, SubSeqFull
<1>8. /\ new \in Seq(Nat) /\ Len(new) = Len(old) + Len(data)
      /\ \A i \in 1..(Len(old) + Len(data)) :
           new[i] = IF i <= Len(old) THEN old[i] ELSE data[i - Len(old)]
  BY <1>0, <1>6, ConcatProperties
<1>9. got'[c][Other(s)] = new /\ got'[c][s] = got[c][s]
  BY <1>0, <1>1, <1>7 DEF Types, StreamPart
<1> HIDE DEF new
<1>10. InOrder(c)'
  <2>1. \A i \in 1..Len(old) : old[i] = i
    BY <1>0, <1>6, LenProperties DEF Stream, InOrder
  <2>2. ASSUME NEW i \in 1..(Len(old) + Len(data)) PROVE new[i] = i
    <3>0. new[i] = IF i <= Len(old) THEN old[i] ELSE data[i - Len(old)]
      BY <1>8
    <3> HIDE DEF old
    <3>1. CASE i <= Len(old)
      BY <1>6, <2>1, <3>0, <3>1
    <3>2. CASE ~(i <= Len(old))
      <4>1. i - Len(old) \in 1..Len(data)
        BY <1>0, <1>6, <3>2
      <4>2. data[i - Len(old)] = read[c][s] - Len(data) + (i - Len(old))
        BY <1>3, <4>1
      <4>3. new[i] = data[i - Len(old)]
        BY <3>0, <3>2
      <4> DEFINE r == read[c][s]
                 n == Len(data)
                 m == Len(old)
      <4>4. r \in Nat /\ n \in Nat /\ m = r - n /\ i \in Nat /\ new[i] = r - n + (i - m)
        BY <1>0, <1>6, <4>2, <4>3
      <4> HIDE DEF r, n, m
      <4> QED  BY <4>4
    <3> QED  BY <3>1, <3>2
  <2>3. DOMAIN new = 1..(Len(old) + Len(data))
    BY <1>8, LenProperties
  <2>4. \A t \in Side : t = s \/ t = Other(s)
    BY <1>0 DEF Side, Other
  <2> QED  BY <1>0, <1>9, <2>2, <2>3, <2>4 DEF Stream, InOrder
<1>11. Kept(c)'
  <2>1. Len(got'[c][Other(s)]) = read'[c][s] - Pending(c, s)'
    <3>1. read'[c][s] = read[c][s] /\ Pending(c, s)' = 0
      BY <1>1, <1>4
    <3> HIDE DEF old
    <3> QED  BY <1>0, <1>6, <1>8, <1>9, <3>1
  <2>2. Len(got'[c][s]) = read'[c][Other(s)] - Pending(c, Other(s))' \/ CutOff(c, s)'
    <3>1. Len(got[c][s]) = read[c][Other(s)] - Pending(c, Other(s)) \/ CutOff(c, s)
      BY <1>0, <1>1 DEF Stream, Kept, Sending
    <3>2. CutOff(c, s) = CutOff(c, s)' /\ Pending(c, Other(s))' = 0 /\ UNCHANGED read
      BY <1>0, <1>1, <1>4 DEF CutOff
    <3> QED  BY <1>4, <1>9, <3>1, <3>2
  <2>3. \A t \in Side : t = s \/ t = Other(s)
    BY <1>0 DEF Side, Other
  <2> QED  BY <1>0, <2>1, <2>2, <2>3 DEF Kept
<1> QED  BY <1>2, <1>10, <1>11 DEF Stream, Held, HeldBack, Sending, Through

\* A send() that fails without an exception has lost its data to an end that
\* is cut off.
LEMMA SendFailsStream ==
  ASSUME Types, Closings, NEW c \in Conn, Stream(c), SendFails(c)
  PROVE  Stream(c)'
<1> PICK s \in Side : s = fwd[c].from
  BY StreamSorts
<1>0. s \in Side /\ Other(s) \in Side /\ Other(Other(s)) = s /\ Other(s) # s
  BY StreamSorts
<1>1. /\ Sending(c) /\ UNCHANGED <<sock, chan, end, streams>>
      /\ Closed(c, Other(s)) \/ end[c][Other(s)] = "gone"
  BY DEF SendFails, Sending, Deaf
<1>2. CASE Raise(c)
  <2>1. fwd'[c].at = "failed"
    BY <1>2, StreamSorts DEF Raise, SetFwd, Idle
  <2> QED  BY <1>1, <2>1 DEF Stream, InOrder, Held, HeldBack, Sending, Kept, Through
<1>3. CASE ~(Other(s) = "local" /\ Closed(c, Other(s))) /\ SetFwd(c, Forwarded(c))
  <2>1. fwd'[c].at \in {"turn", "failed", "select"}
    BY <1>3, StreamSorts, ForwardedAt DEF SetFwd
  <2>2. CutOff(c, Other(s))
    BY <1>0, <1>1, <1>3 DEF CutOff, Closed, Side, Closings, Sending
  <2>3. Pending(c, Other(s)) = 0 /\ \A t \in Side : Pending(c, t)' = 0
    BY <1>0, <1>1, <2>1 DEF Pending, Sending
  <2>4. \A t \in Side : CutOff(c, t) = CutOff(c, t)'
    BY <1>1 DEF CutOff
  <2>5. \A t \in Side : t = s \/ t = Other(s)
    BY <1>0 DEF Side, Other
  <2>6. Kept(c)'
    BY <1>0, <1>1, <2>2, <2>3, <2>4, <2>5 DEF Stream, Kept, Sending
  <2> QED  BY <1>1, <2>1, <2>6 DEF Stream, InOrder, Held, HeldBack, Sending, Through
<1> QED  BY <1>2, <1>3 DEF SendFails

LEMMA ForwarderStream ==
  ASSUME Types, Closings, ~ShortSends, NEW c \in Conn, Stream(c), Forwarder(c)
  PROVE  Stream(c)'
<1>1. CASE Wake(c) \/ WakeClosed(c)
  <2>1. fwd[c].at = "select" /\ UNCHANGED <<read, got, end, sock, chan>>
    BY <1>1 DEF Wake, WakeClosed
  <2>2. fwd'[c].at = "turn"
    BY <1>1, StreamSorts DEF Wake, WakeClosed, SetFwd, Threads
  <2> QED  BY <2>1, <2>2, NothingPending
<1>2. CASE Receive(c) \/ ReceiveEnd(c)
  BY <1>2, ReceiveStream, ReceiveEndStream
<1>3. CASE ReceiveRaises(c)
  <2>1. fwd[c].at = "turn" /\ UNCHANGED <<read, got, end, sock, chan>>
    BY <1>3 DEF ReceiveRaises
  <2>2. fwd'[c].at = "failed"
    BY <1>3, StreamSorts DEF ReceiveRaises, Raise, SetFwd, Idle
  <2> QED  BY <2>1, <2>2, NothingPending
<1>4. CASE Send(c) \/ SendFails(c)
  BY <1>4, SendStream, SendFailsStream
<1>5. CASE CloseBoth(c)
  <2>1. /\ fwd[c].at = "closing" /\ UNCHANGED <<end, streams>>
        /\ sock' = [sock EXCEPT ![c] = "closed"] /\ chan' = [chan EXCEPT ![c] = "closed"]
    BY <1>5 DEF CloseBoth
  <2>2. fwd'[c].at = "ended" /\ fwd'[c].from = fwd[c].from
    BY <1>5, StreamSorts DEF CloseBoth, SetFwd, Threads
  <2>3. sock'[c] = "closed" /\ chan'[c] = "closed"
    BY <2>1 DEF Types, ConnPart
  <2>4. \A s \in Side : Pending(c, s) = 0 /\ Pending(c, s)' = 0 /\ (CutOff(c, s) => CutOff(c, s)')
    BY <2>1, <2>2, <2>3 DEF Pending, Sending, CutOff
  <2>5. Kept(c)'
    BY <2>1, <2>4, StreamSorts DEF Stream, Kept
  <2>6. Through(c)'
    BY <2>1, <2>2, <2>3 DEF Stream, Through, Closed
  <2> QED  BY <2>1, <2>2, <2>5, <2>6 DEF Stream, InOrder, Held, HeldBack, Sending
<1>6. CASE Blocks(c)
  <2>1. /\ fwd[c].at = "send" /\ fwd[c].from = "remote" /\ UNCHANGED <<sock, chan, end, streams>>
        /\ fwd'[c].at = "blocked" /\ fwd'[c].from = fwd[c].from /\ fwd'[c].data = fwd[c].data
    BY <1>6, StreamSorts DEF Blocks, SetFwd, Threads
  <2>2. \A s \in Side : Pending(c, s) = Pending(c, s)' /\ CutOff(c, s) = CutOff(c, s)'
    BY <2>1 DEF Pending, Sending, CutOff
  <2>3. Kept(c)'
    BY <2>1, <2>2, StreamSorts DEF Stream, Kept
  <2> QED  BY <2>1, <2>3 DEF Stream, InOrder, Held, HeldBack, Through, Sending
<1> QED  BY <1>1, <1>2, <1>3, <1>4, <1>5, <1>6 DEF Forwarder, Runs

\* The streams that a step does not concern stay as they were.
LEMMA NextStreams ==
  ASSUME Types, Closings, ~ShortSends, Streams, Next
  PROVE  Streams'
<1>0. /\ \A k \in Conn : Stream(k) /\ fwd[k].from \in Side
      /\ DOMAIN fwd = Conn /\ DOMAIN end = Conn /\ DOMAIN sock = Conn /\ DOMAIN chan = Conn
  BY StreamSorts DEF Streams, Types, ThreadPart, ConnPart, FlagPart
<1>1. ASSUME NEW c \in Conn, Accept(c) PROVE Streams'
  <2>1. /\ UNCHANGED <<fwd, end, streams>> /\ chan[c] = "none" /\ sock[c] = "none"
        /\ chan' = [chan EXCEPT ![c] = "open"] /\ sock' = [sock EXCEPT ![c] = "open"]
    BY <1>1 DEF Accept, Types, ConnPart
  <2>2. ASSUME NEW k \in Conn PROVE Stream(k)'
    <3>1. (sock[k] = "closed" => sock'[k] = "closed") /\ (chan[k] = "closed" => chan'[k] = "closed")
      BY <1>0, <2>1
    <3> QED  BY <1>0, <2>1, <3>1, StreamStays
  <2> QED  BY <2>2 DEF Streams
<1>2. CASE AcceptStep
  <2>1. CASE ConnectFails \/ ListThread
    <3>1. /\ UNCHANGED <<fwd, end, streams, sock>>
          /\ \A k \in Conn : chan[k] = "closed" => chan'[k] = "closed"
      BY <1>0, <2>1 DEF ConnectFails, ListThread
    <3>2. ASSUME NEW k \in Conn PROVE Stream(k)'
      BY <1>0, <3>1, StreamStays
    <3> QED  BY <3>2 DEF Streams
  <2>2. CASE Connects
    <3>1. PICK c \in Conn : c = accepting.conn /\ fwd[c].at = "none"
      BY <2>2 DEF Connects, Types, AcceptPart
    <3>2. /\ UNCHANGED <<end, streams, sock, chan>>
          /\ fwd' = [fwd EXCEPT ![c] = [fwd[c] EXCEPT !.at = "select"]]
      BY <2>2, <3>1 DEF Connects
    <3>3. fwd'[c].at = "select"
      BY <1>0, <3>2, StreamSorts DEF Threads
    <3>4. Stream(c)'
      BY <1>0, <3>1, <3>2, <3>3, NothingPending
    <3>5. ASSUME NEW k \in Conn, k # c PROVE Stream(k)'
      BY <1>0, <3>2, <3>5, StreamStays
    <3> QED  BY <3>4, <3>5 DEF Streams
  <2> QED  BY <1>2, <2>1, <2>2 DEF AcceptStep
<1>3. ASSUME NEW c \in Conn, NEW s \in Side, Write(c, s) PROVE Streams'
  <2>1. /\ UNCHANGED <<sock, chan, fwd, end, read, got>> /\ end[c][s] = "up" /\ (Closed(c, s) => Blocked(c))
        /\ fwd[c].at # "ended" /\ wrote' = [wrote EXCEPT ![c][s] = wrote[c][s] + 1]
    BY <1>3 DEF Write, Reaches, Closed, Over
  <2>2. /\ \A k \in Conn : k # c => wrote'[k] = wrote[k]
        /\ \A t \in Side : t # s => wrote'[c][t] = wrote[c][t]
    BY <2>1 DEF Types, StreamPart
  <2>3. InOrder(c)' /\ Held(c)' /\ HeldBack(c)'
    BY <1>0, <2>1 DEF Stream, InOrder, Held, HeldBack, Sending
  <2>4. Kept(c)'
    BY <1>0, <2>1 DEF Stream, Kept, Pending, Sending, CutOff
  <2>5. Through(c)'
    <3>1. fwd[c].at = "closing" => fwd[c].from # s
      BY <1>0, <2>1 DEF Stream, Through, Blocked
    <3> QED  BY <1>0, <2>1, <2>2, <3>1 DEF Stream, Through, Closed
  <2>6. ASSUME NEW k \in Conn, k # c PROVE Stream(k)'
    BY <1>0, <2>1, <2>2, <2>6, StreamStays
  <2> QED  BY <2>3, <2>4, <2>5, <2>6 DEF Stream, Streams
<1>4. ASSUME NEW c \in Conn, NEW s \in Side, Finish(c, s) PROVE Streams'
  <2>1. /\ UNCHANGED <<sock, fwd, streams>> /\ s \in {"local", "remote"}
        /\ \A k \in Conn : chan[k] = "closed" => chan'[k] = "closed"
        /\ \/ end' = [end EXCEPT ![c][s] = "eof"] /\ end[c][s] = "up"
           \/ end' = [end EXCEPT ![c][s] = "gone"]
    BY <1>0, <1>4 DEF Finish, Side
  <2>2. \A k \in Conn : \A t \in Side : /\ end[k][t] = "gone" => end'[k][t] = "gone"
                                        /\ end[k][t] # "up" => end'[k][t] # "up"
    BY <1>0, <2>1 DEF Types, FlagPart
  <2>3. ASSUME NEW k \in Conn PROVE Stream(k)'
    BY <1>0, <2>1, <2>2, StreamStays
  <2> QED  BY <2>3 DEF Streams
<1>5. ASSUME NEW c \in Conn, Forwarder(c) PROVE Streams'
  <2>1. Stream(c)'
    BY <1>0, <1>5, ForwarderStream
  <2>2. ASSUME NEW k \in Conn, k # c PROVE Stream(k)'
    <3>1. /\ UNCHANGED <<end, wrote>> /\ fwd'[k] = fwd[k]
      BY <1>0, <1>5, <2>2, ThreadSteps
    <3>2. read'[k] = read[k]
      <4>1. CASE Receive(c)
        BY <2>2, <4>1 DEF Receive, Types, StreamPart
      <4> QED  BY <1>5, <4>1, ThreadSteps
    <3>3. got'[k] = got[k]
      <4>1. CASE Send(c)
        BY <2>2, <4>1 DEF Send, Types, StreamPart
      <4> QED  BY <1>5, <4>1, ThreadSteps
    <3>4. sock'[k] = sock[k] /\ chan'[k] = chan[k]
      <4>1. CASE CloseBoth(c)
        BY <1>0, <2>2, <4>1 DEF CloseBoth
      <4> QED  BY <1>5, <4>1, ThreadSteps
    <3> QED  BY <1>0, <3>1, <3>2, <3>3, <3>4, StreamStays
  <2> QED  BY <2>1, <2>2 DEF Streams
<1>6. CASE EndBody \/ CleanUp
  <2>1. /\ UNCHANGED <<fwd, end, streams>>
        /\ \A k \in Conn : (sock[k] = "closed" => sock'[k] = "closed") /\ (chan[k] = "closed" => chan'[k] = "closed")
    BY <1>0, <1>6 DEF EndBody, CleanUp, CloseSocket, CloseChannel, Join, LoopEnds, Cancel, Leave
  <2>2. ASSUME NEW k \in Conn PROVE Stream(k)'
    BY <1>0, <2>1, StreamStays
  <2> QED  BY <2>2 DEF Streams
<1>7. CASE UNCHANGED vars
  <2>1. ASSUME NEW k \in Conn PROVE Stream(k)'
    BY <1>0, <1>7, StreamStays DEF vars
  <2> QED  BY <2>1 DEF Streams
<1> QED
  BY <1>1, <1>2, <1>3, <1>4, <1>5, <1>6, <1>7 DEF Next, Stopped

LEMMA InitStreams == Init => Closings /\ Streams
<1> SUFFICES ASSUME Init PROVE Closings /\ Streams
  OBVIOUS
<1>1. \A S : <<>> \in Seq(S) /\ Len(<<>>) = 0 /\ DOMAIN <<>> = {}
  BY NoData
<1>2. Closings
  BY DEF Init, Idle, Closings, Side
<1>3. \A c \in Conn : Stream(c)
  BY <1>1 DEF Init, Idle, Stream, InOrder, Held, HeldBack, Sending, Kept, Through, Pending, Sending, Side, Other
<1> QED  BY <1>2, <1>3 DEF Streams

\* Where chan.send() takes all the data it is given, each end of a connection
\* gets what the other has written, in order and without a gap, and all of it
\* when the connection has ended because that other one was through.
THEOREM DataForwarded ==
  ASSUME ~ShortSends
  PROVE  Spec => []DataIsForwarded
<1>1. Init => Types /\ Closings /\ Streams
  BY InitTypes, InitStreams
<1>2. Types /\ Closings /\ Streams /\ [Next]_vars => (Types /\ Closings /\ Streams)'
  <2> SUFFICES ASSUME Types, Closings, Streams, [Next]_vars PROVE (Types /\ Closings /\ Streams)'
    OBVIOUS
  <2>1. Types' /\ Closings'
    BY NextTypes, NextClosings
  <2>2. CASE Next
    BY <2>1, <2>2, NextStreams
  <2>3. CASE UNCHANGED vars
    <3>1. ASSUME NEW k \in Conn PROVE Stream(k)'
      BY <2>3, StreamStays, StreamSorts DEF vars, Streams
    <3> QED  BY <2>1, <3>1 DEF Streams
  <2> QED  BY <2>2, <2>3
<1>3. Types /\ Streams => DataIsForwarded
  BY DEF DataIsForwarded, Streams, Stream, InOrder, Through
<1> QED  BY <1>1, <1>2, <1>3, PTL DEF Spec

-----------------------------------------------------------------------------
(* The clean-up.                                                           *)

\* While the main thread goes through the triples, each one it has left behind
\* has ended; a thread listed too late for it is remembered as such.
LEMMA NextCleanedUp ==
  ASSUME Types, CleanedUp, [Next]_vars
  PROVE  CleanedUp'
<1>0. /\ Len(threads) \in Nat /\ idx \in Nat /\ idx <= Len(threads) /\ DOMAIN threads = 1..Len(threads)
      /\ \A i \in 1..Len(threads) : threads[i] \in Conn /\ threads[i] \in ToSet(threads)
      /\ Len(threads) <= Len(sockets) /\ Len(sockets) \in Nat /\ channels = sockets /\ ToSet(sockets) \subseteq Conn
      /\ DOMAIN fwd = Conn /\ DOMAIN chan = Conn
  BY LenProperties, ElementOfSeq DEF Types, ListPart, ThreadPart, ConnPart, ToSet
<1>1. ASSUME NEW c \in Conn, ~Ended, Accept(c) PROVE CleanedUp'
  <2>1. /\ UNCHANGED <<threads, fwd, block, idx, late, handler>> /\ Listening /\ handler
        /\ accepting' = [at |-> "connect", conn |-> c] /\ block # "left"
        /\ chan' = [chan EXCEPT ![c] = "open"] /\ chan[c] = "none"
        /\ ToSet(sockets') = ToSet(sockets) \cup {c}
    BY <1>1, AppendOne DEF Accept, Ended, Types, ListPart
  <2> QED  BY <1>0, <2>1 DEF CleanedUp, Listening
<1>2. CASE ~Ended /\ AcceptStep
  <2>1. PICK c \in Conn : c = accepting.conn /\ c \notin ToSet(threads) /\ accepting.at # "nothing"
    BY <1>2 DEF AcceptStep, ConnectFails, Connects, ListThread, Types, AcceptPart
  <2>2. block # "left"
    BY <1>2 DEF Ended
  <2>3. CASE ConnectFails
    <3>1. /\ UNCHANGED <<sockets, threads, fwd, block, idx, late, handler>>
          /\ chan' = [chan EXCEPT ![c] = "closed"] /\ fwd[c].at = "none"
      BY <2>1, <2>3 DEF ConnectFails, Types, AcceptPart
    <3> QED  BY <1>0, <2>1, <2>2, <3>1 DEF CleanedUp
  <2>4. CASE Connects
    <3>1. /\ UNCHANGED <<sockets, threads, chan, block, idx, late, handler>>
          /\ accepting' = [accepting EXCEPT !.at = "list"] /\ fwd[c].at = "none"
          /\ \A k \in Conn : k # c => fwd'[k] = fwd[k]
          /\ accepting \in [at : {"connect", "list"}, conn : Conn]
      BY <2>1, <2>4 DEF Connects, Types, AcceptPart
    <3>2. accepting'.at # "nothing" /\ accepting'.conn = c
      BY <2>1, <3>1
    <3> QED  BY <1>0, <2>1, <2>2, <3>1, <3>2 DEF CleanedUp
  <2>5. CASE ListThread
    <3>1. /\ UNCHANGED <<sockets, fwd, chan, block, idx, handler>>
          /\ late' = IF block \in {"open", "zip", "chan", "join"} THEN late ELSE late \cup {c}
      BY <2>1, <2>5 DEF ListThread
    <3>2. /\ ToSet(threads') = ToSet(threads) \cup {c} /\ DOMAIN threads' = 1..(Len(threads) + 1)
          /\ \A i \in 1..Len(threads) : threads'[i] = threads[i]
          /\ threads'[Len(threads) + 1] = c
      BY <2>1, <2>5, AppendOne DEF ListThread, Types, ListPart
    <3>3. \A i \in 1..idx : threads'[i] = threads[i]
      BY <1>0, <3>2
    <3>4. block \in {"cancel", "cancelled", "left"} => \A i \in DOMAIN threads' : i > idx => threads'[i] \in late'
      BY <1>0, <3>1, <3>2 DEF CleanedUp
    <3> QED  BY <1>0, <2>1, <2>2, <3>1, <3>2, <3>3, <3>4 DEF CleanedUp
  <2> QED  BY <1>2, <2>3, <2>4, <2>5 DEF AcceptStep
<1>3. ASSUME NEW c \in Conn, NEW s \in Side, Write(c, s) \/ Finish(c, s) PROVE CleanedUp'
  <2>1. /\ UNCHANGED <<lists, accepting, handler, fwd, block, idx, late>>
        /\ \A k \in Conn : chan[k] = "closed" => chan'[k] = "closed"
    BY <1>0, <1>3 DEF Write, Finish
  <2> QED  BY <1>0, <2>1 DEF CleanedUp, Listening
<1>4. ASSUME NEW c \in Conn, Forwarder(c) PROVE CleanedUp'
  <2>1. /\ UNCHANGED <<lists, accepting, handler, block, idx, late>>
        /\ fwd[c].at \notin {"none", "ended"} /\ \A k \in Conn : k # c => fwd'[k] = fwd[k]
    BY <1>0, <1>4, ThreadSteps
  <2>2. \A k \in Conn : chan[k] = "closed" => chan'[k] = "closed"
    <3>1. CASE CloseBoth(c)
      BY <1>0, <3>1 DEF CloseBoth
    <3> QED  BY <1>4, <3>1, ThreadSteps
  <2> QED  BY <1>0, <2>1, <2>2 DEF CleanedUp, Listening
<1>5. CASE EndBody \/ LoopEnds \/ Cancel \/ Leave
  BY <1>0, <1>5 DEF EndBody, LoopEnds, Another, Cancel, Leave, CleanedUp, Listening
<1>6. CASE CloseSocket
  BY <1>0, <1>6 DEF CloseSocket, AfterSocket, CleanedUp, Listening
<1>7. CASE CloseChannel
  BY <1>0, <1>7 DEF CloseChannel, CleanedUp, Listening
<1>8. CASE Join
  <2>1. /\ UNCHANGED <<lists, accepting, handler, sock, chan, fwd, end, streams, idx, late>>
        /\ \/ block' = "raised"
           \/ block' = "zip" /\ fwd[threads[idx]].at = "ended"
        /\ block = "join"
    BY <1>8 DEF Join, Over, RaiseNeeded
  <2> QED  BY <1>0, <2>1 DEF CleanedUp, Listening
<1>9. CASE UNCHANGED vars
  BY <1>9 DEF vars, CleanedUp, Listening
<1> QED
  BY <1>1, <1>2, <1>3, <1>4, <1>5, <1>6, <1>7, <1>8, <1>9 DEF Next, CleanUp, Stopped

\* A block left without an exception leaves no connection behind but those the
\* clean-up could not see.
THEOREM NothingLeftBehind == Spec => []LeftClean
<1> DEFINE I == Types /\ Closings /\ CleanedUp
<1>1. Init => I
  <2>1. ToSet(<<>>) = {} /\ DOMAIN <<>> = {}
    BY DEF ToSet
  <2> QED  BY <2>1, InitTypes, InitStreams DEF Init, CleanedUp
<1>2. I /\ [Next]_vars => I'
  BY NextTypes, NextClosings, NextCleanedUp
<1>3. I => LeftClean
  <2> SUFFICES ASSUME I, block = "left"
               PROVE  /\ ~handler /\ Listening
                      /\ \A c \in ToSet(sockets) \ late :
                           chan[c] = "closed" /\ (c \in Refused \/ (fwd[c].at = "ended" /\ sock[c] = "closed"))
    BY DEF LeftClean
  <2>1. ~handler /\ Listening
    BY DEF CleanedUp
  <2>2. ASSUME NEW c \in ToSet(sockets) \ late
        PROVE  chan[c] = "closed" /\ (c \in Refused \/ (fwd[c].at = "ended" /\ sock[c] = "closed"))
    <3>0. /\ c \in Conn /\ Len(threads) \in Nat /\ DOMAIN threads = 1..Len(threads)
          /\ idx \in Nat /\ idx <= Len(threads)
      BY LenProperties, ElementOfSeq DEF Types, ListPart, ToSet
    <3>1. CASE c \in ToSet(threads)
      <4>1. PICK i \in DOMAIN threads : c = threads[i]
        BY <3>1 DEF ToSet
      <4>2. i \in 1..idx
        BY <2>2, <3>0, <4>1 DEF CleanedUp
      <4>3. fwd[c].at = "ended"
        BY <4>1, <4>2 DEF CleanedUp
      <4> QED  BY <3>0, <4>3 DEF Closings
    <3>2. CASE c \notin ToSet(threads)
      BY <2>1, <3>2 DEF CleanedUp, Listening, Refused
    <3> QED  BY <3>1, <3>2
  <2> QED  BY <2>1, <2>2
<1> HIDE DEF I
<1> QED  BY <1>1, <1>2, <1>3, PTL DEF Spec
=============================================================================
