----------------------------- MODULE RemoteTunnel -----------------------------
(***************************************************************************)
(* remote_tunnel(): a block while which the server hands connections to a  *)
(* remote port over to this program. Four kinds of threads meet in it:     *)
(* the main thread, which runs the body of the block and then cleans up;   *)
(* paramiko's transport thread, which calls accept() for one connection    *)
(* after the other and meanwhile handles no other message of the server;   *)
(* one _forwarder() thread per connection; and, outside, the two ends of   *)
(* each connection, a remote client and a local service.                   *)
(*                                                                         *)
(* The bytes of a stream are numbered from 1 on, so that what one end has  *)
(* written is told by a number and what the other has got is a sequence.   *)
(***************************************************************************)
EXTENDS Integers, Sequences, SequencesExt

CONSTANTS
  Conn,        \* the connections that remote clients open
  MaxWrites,   \* bound: how many bytes each end of a connection writes
  Silent,      \* bound: the ends of connections, <<c, s>>, that neither write nor finish
  ShortSends   \* whether chan.send() may take a part of the data, as its window says

Side == {"local", "remote"}
Other(s) == IF s = "local" THEN "remote" ELSE "local"

ASSUME BoundAssumption == MaxWrites \in [Conn -> Nat] /\ Silent \subseteq Conn \X Side /\ ShortSends \in BOOLEAN

VARIABLES
  sockets, channels, threads,   \* the three lists of remote_tunnel()
  accepting,  \* what the transport thread is doing: accept() up to a step, or nothing
  handler,    \* whether accept() is the transport's handler of forwarded connections
  sock,       \* the local socket of a connection: "none", "open" or "closed"
  chan,       \* its channel, which the remote end closes, too
  fwd,        \* its _forwarder() thread
  end,        \* its two ends: "up", "eof" (writes no more), "gone" (nor reads)
  wrote,      \* how many bytes each end has written, as far as they have arrived here
  read,       \* how many of them _forwarder() has taken
  got,        \* the bytes each end was sent
  block,      \* the block: "open", then what the main thread does after it
  idx,        \* how many of the zipped triples it has begun
  late        \* history: connections whose thread was listed after the loop

lists == <<sockets, channels, threads>>
streams == <<wrote, read, got>>
vars == <<lists, accepting, handler, sock, chan, fwd, end, streams, block, idx, late>>

Idle == [at |-> "none", ready |-> {}, from |-> "local", data |-> <<>>]

Init ==
  /\ sockets = <<>> /\ channels = <<>> /\ threads = <<>>
  /\ accepting = [at |-> "nothing"]
  /\ handler = TRUE
  /\ sock = [c \in Conn |-> "none"]
  /\ chan = [c \in Conn |-> "none"]
  /\ fwd = [c \in Conn |-> Idle]
  /\ end = [c \in Conn |-> [s \in Side |-> "up"]]
  /\ wrote = [c \in Conn |-> [s \in Side |-> 0]]
  /\ read = [c \in Conn |-> [s \in Side |-> 0]]
  /\ got = [c \in Conn |-> [s \in Side |-> <<>>]]
  /\ block = "open"
  /\ idx = 0
  /\ late = {}

-----------------------------------------------------------------------------
(* The transport thread.                                                   *)

Listening == accepting.at = "nothing"

\* accept() up to sock.connect(). The channel is listed just before the socket;
\* as zip() asks for a socket first, it cannot tell this from one step.
Accept(c) ==
  /\ Listening /\ handler
  /\ chan[c] = "none"
  /\ channels' = Append(channels, c)
  /\ sockets' = Append(sockets, c)
  /\ chan' = [chan EXCEPT ![c] = "open"]
  /\ sock' = [sock EXCEPT ![c] = "open"]
  /\ accepting' = [at |-> "connect", conn |-> c]
  /\ UNCHANGED <<threads, handler, fwd, end, streams, block, idx, late>>

\* sock.connect() fails, which is printed; the socket stays open and listed.
ConnectFails ==
  /\ accepting.at = "connect"
  /\ chan' = [chan EXCEPT ![accepting.conn] = "closed"]
  /\ accepting' = [at |-> "nothing"]
  /\ UNCHANGED <<lists, handler, sock, fwd, end, streams, block, idx, late>>

\* It returns, and ThreadHandler() starts the thread, which is listed only then.
Connects ==
  /\ accepting.at = "connect"
  /\ fwd' = [fwd EXCEPT ![accepting.conn].at = "select"]
  /\ accepting' = [accepting EXCEPT !.at = "list"]
  /\ UNCHANGED <<lists, handler, sock, chan, end, streams, block, idx, late>>

ListThread ==
  /\ accepting.at = "list"
  /\ threads' = Append(threads, accepting.conn)
  /\ late' = IF block \in {"open", "zip", "chan", "join"} THEN late ELSE late \cup {accepting.conn}
  /\ accepting' = [at |-> "nothing"]
  /\ UNCHANGED <<sockets, channels, handler, sock, chan, fwd, end, streams, block, idx>>

AcceptStep == ConnectFails \/ Connects \/ ListThread

-----------------------------------------------------------------------------
(* The ends of a connection, as far as its thread can see them. What the   *)
(* remote one does is seen when the transport thread has time for it.      *)

Over(c) == fwd[c].at \in {"ended", "failed"}

\* A call of send() that is under way keeps the local connection, whoever closes it here.
Blocked(c) == fwd[c].at = "blocked"
Reaches(c, s) ==
  /\ <<c, s>> \notin Silent /\ ~Over(c)
  /\ IF s = "local" THEN fwd[c].at # "none" /\ (sock[c] = "open" \/ Blocked(c))
                    ELSE chan[c] = "open" /\ Listening

Write(c, s) ==
  /\ Reaches(c, s) /\ end[c][s] = "up"
  /\ wrote[c][s] < MaxWrites[c]
  /\ wrote' = [wrote EXCEPT ![c][s] = @ + 1]
  /\ UNCHANGED <<lists, accepting, handler, sock, chan, fwd, end, read, got, block, idx, late>>

\* An end is through with writing, or with the connection; in the second case
\* the server closes the channel.
Finish(c, s) ==
  /\ Reaches(c, s)
  /\ \/ end[c][s] = "up" /\ end' = [end EXCEPT ![c][s] = "eof"]
     \/ end[c][s] # "gone" /\ end' = [end EXCEPT ![c][s] = "gone"]
  /\ chan' = IF s = "remote" /\ end'[c][s] = "gone" THEN [chan EXCEPT ![c] = "closed"] ELSE chan
  /\ UNCHANGED <<lists, accepting, handler, sock, fwd, streams, block, idx, late>>

-----------------------------------------------------------------------------
(* _forwarder(), one thread per connection.                                *)

SetFwd(c, f) == fwd' = [fwd EXCEPT ![c] = f]
Raise(c) == SetFwd(c, [Idle EXCEPT !.at = "failed"])

Unread(c, s) == wrote[c][s] - read[c][s]
Closed(c, s) == IF s = "local" THEN sock[c] = "closed" ELSE chan[c] = "closed"

\* No more data will come. A closed channel still hands out what it has buffered.
\* A slip: what has arrived before the end is forgotten.
AtEndForgetful(c, s) == end[c][s] # "up" \/ Closed(c, s)
AtEnd(c, s) == Unread(c, s) = 0 /\ (end[c][s] # "up" \/ Closed(c, s))

\* What select() finds ready.
Readable(c) == {s \in Side : Unread(c, s) > 0 \/ AtEnd(c, s)}

\* select() returns.
Wake(c) ==
  /\ fwd[c].at = "select" /\ sock[c] = "open"
  /\ Readable(c) # {}
  /\ SetFwd(c, [fwd[c] EXCEPT !.at = "turn", !.ready = Readable(c)])
  /\ UNCHANGED <<lists, accepting, handler, sock, chan, end, streams, block, idx, late>>

\* The main thread has closed the socket that select() waits for: POSIX leaves
\* open what becomes of the call. It may find either of the two ready, or sleep
\* on until Channel.close() closes the pipe that it reads for the channel.
WakeClosed(c) ==
  /\ fwd[c].at = "select" /\ sock[c] = "closed"
  /\ \E ready \in SUBSET (Readable(c) \cup {"local"}) \ {{}} :
       SetFwd(c, [fwd[c] EXCEPT !.at = "turn", !.ready = ready])
  /\ UNCHANGED <<lists, accepting, handler, sock, chan, end, streams, block, idx, late>>

\* The side whose turn it is: the socket before the channel.
Turn(c) == IF "local" \in fwd[c].ready THEN "local" ELSE "remote"

\* recv() of some of the data that is there.
Receive(c) ==
  LET s == Turn(c) IN
  /\ fwd[c].at = "turn"
  /\ ~(s = "local" /\ Closed(c, s))
  /\ ~AtEnd(c, s)
  /\ \E n \in 1..Unread(c, s) :
       /\ read' = [read EXCEPT ![c][s] = @ + n]
       /\ SetFwd(c, [fwd[c] EXCEPT !.at = "send", !.from = s,
                       !.data = [i \in 1..n |-> read[c][s] + i]])
  /\ UNCHANGED <<lists, accepting, handler, sock, chan, end, wrote, got, block, idx, late>>

\* recv() of nothing: the loop is left.
ReceiveEnd(c) ==
  LET s == Turn(c) IN
  /\ fwd[c].at = "turn"
  /\ ~(s = "local" /\ Closed(c, s))
  /\ AtEnd(c, s)
  /\ SetFwd(c, [Idle EXCEPT !.at = "closing", !.from = s])
  /\ UNCHANGED <<lists, accepting, handler, sock, chan, end, streams, block, idx, late>>

\* recv() of a socket that was closed here or reset by the other end.
ReceiveRaises(c) ==
  /\ fwd[c].at = "turn" /\ Turn(c) = "local"
  /\ Closed(c, "local") \/ end[c]["local"] = "gone"
  /\ Raise(c)
  /\ UNCHANGED <<lists, accepting, handler, sock, chan, end, streams, block, idx, late>>

\* On to the other side, if it was ready, too, or back to select(), which
\* raises ValueError for a socket that is closed when it is called.
Forwarded(c) ==
  LET left == fwd[c].ready \ {fwd[c].from}
  IN  [Idle EXCEPT !.ready = left, !.at = CASE left # {} -> "turn"
                                            [] left = {} /\ Closed(c, "local") -> "failed"
                                            [] OTHER -> "select"]

\* sock.send() finds no room, as the service does not read.
Blocks(c) ==
  /\ fwd[c].at = "send" /\ fwd[c].from = "remote"
  /\ ~Closed(c, "local") /\ end[c]["local"] # "gone"
  /\ SetFwd(c, [fwd[c] EXCEPT !.at = "blocked"])
  /\ UNCHANGED <<lists, accepting, handler, sock, chan, end, streams, block, idx, late>>

\* What the calls raise or give up for: there is nobody left to send to. Closing the
\* socket does not end a call of its send() that is under way.
Deaf(c) ==
  LET o == Other(fwd[c].from)
  IN  end[c][o] = "gone" \/ (Closed(c, o) /\ ~Blocked(c))

\* sock.send() or chan.send(), whose result is not looked at. The socket
\* takes all of it; the channel waits for room in its window and may take as
\* much as there is.
Send(c) ==
  LET o == Other(fwd[c].from) IN
  /\ fwd[c].at \in {"send", "blocked"} /\ ~Deaf(c)
  /\ \E n \in 1..Len(fwd[c].data) :
       /\ n = Len(fwd[c].data) \/ (ShortSends /\ o = "remote")
       /\ got' = [got EXCEPT ![c][o] = @ \o SubSeq(fwd[c].data, 1, n)]
  /\ SetFwd(c, Forwarded(c))
  /\ UNCHANGED <<lists, accepting, handler, sock, chan, end, wrote, read, block, idx, late>>

\* The call raises, but for a socket whose other end has just gone and a channel
\* closed while the call waited for room.
SendFails(c) ==
  LET o == Other(fwd[c].from) IN
  /\ fwd[c].at \in {"send", "blocked"} /\ Deaf(c)
  /\ \/ Raise(c)
     \/ ~(o = "local" /\ Closed(c, o)) /\ SetFwd(c, Forwarded(c))
  /\ UNCHANGED <<lists, accepting, handler, sock, chan, end, streams, block, idx, late>>

\* chan.close(), sock.close(), and the end of the thread; both may be closed already.
CloseBoth(c) ==
  /\ fwd[c].at = "closing"
  /\ chan' = [chan EXCEPT ![c] = "closed"]
  /\ sock' = [sock EXCEPT ![c] = "closed"]
  /\ SetFwd(c, [fwd[c] EXCEPT !.at = "ended"])
  /\ UNCHANGED <<lists, accepting, handler, end, streams, block, idx, late>>

Runs(c) ==
  \/ Wake(c)
  \/ Receive(c) \/ ReceiveEnd(c) \/ ReceiveRaises(c)
  \/ Blocks(c) \/ SendFails(c) \/ CloseBoth(c)

Forwarder(c) == Runs(c) \/ Send(c) \/ WakeClosed(c)

-----------------------------------------------------------------------------
(* The main thread. `block` goes through "zip", "chan" and "join" for every *)
(* triple, then "cancel" and "cancelled", and is "left" or, after an        *)
(* exception of one of the threads, "raised".                               *)

\* The body of the block returns or raises.
EndBody ==
  /\ block = "open"
  /\ block' = "zip"
  /\ UNCHANGED <<lists, accepting, handler, sock, chan, fwd, end, streams, idx, late>>

\* Whether the zipped lists have another triple; zip() looks at the lists
\* while they grow. A slip: one too many.
AnotherOfTwo == idx < Len(sockets)
Another == idx < Len(sockets) /\ idx < Len(channels) /\ idx < Len(threads)

\* The next triple, and sock.close(). A slip: the channel is left to the thread.
AfterSocketJoin == "join"
AfterSocket == "chan"
CloseSocket ==
  /\ block = "zip" /\ Another
  /\ idx' = idx + 1
  /\ sock' = [sock EXCEPT ![sockets[idx + 1]] = "closed"]
  /\ block' = AfterSocket
  /\ UNCHANGED <<lists, accepting, handler, chan, fwd, end, streams, late>>

CloseChannel ==
  /\ block = "chan"
  /\ chan' = [chan EXCEPT ![channels[idx]] = "closed"]
  /\ block' = "join"
  /\ UNCHANGED <<lists, accepting, handler, sock, fwd, end, streams, idx, late>>

\* th.raise_if_needed(); a slip: it is not called.
NeverNeeded(c) == FALSE
RaiseNeeded(c) == fwd[c].at = "failed"

\* th.thread.join() returns.
Join ==
  /\ block = "join" /\ Over(threads[idx])
  /\ block' = IF RaiseNeeded(threads[idx]) THEN "raised" ELSE "zip"
  /\ UNCHANGED <<lists, accepting, handler, sock, chan, fwd, end, streams, idx, late>>

LoopEnds ==
  /\ block = "zip" /\ ~Another
  /\ block' = "cancel"
  /\ UNCHANGED <<lists, accepting, handler, sock, chan, fwd, end, streams, idx, late>>

\* transport.cancel_port_forward(): the handler is taken away, then the call
\* waits for the server's answer, which the transport thread has to read.
Cancel ==
  /\ block = "cancel"
  /\ handler' = FALSE
  /\ block' = "cancelled"
  /\ UNCHANGED <<lists, accepting, sock, chan, fwd, end, streams, idx, late>>

Leave ==
  /\ block = "cancelled" /\ Listening
  /\ block' = "left"
  /\ UNCHANGED <<lists, accepting, handler, sock, chan, fwd, end, streams, idx, late>>

CleanUp == CloseSocket \/ CloseChannel \/ Join \/ LoopEnds \/ Cancel \/ Leave

\* The main thread waits for a thread whose own connection it has not closed, as a
\* refused connection has shifted the third list against the others.
Shifted == block = "join" /\ threads[idx] # sockets[idx]

\* The model ends with the block, although the program goes on. Shifted, it may
\* stand still, if the ends of that connection do nothing.
Ended == block \in {"left", "raised"}
Stopped == (Ended \/ Shifted) /\ UNCHANGED vars

Next ==
  \/ ~Ended /\ \/ EndBody \/ CleanUp \/ AcceptStep
               \/ \E c \in Conn : Accept(c) \/ Forwarder(c)
               \/ \E c \in Conn, s \in Side : Write(c, s) \/ Finish(c, s)
  \/ Stopped

Spec == Init /\ [][Next]_vars

\* The threads run, and a select() returns when both that it waits for were closed.
\* Nothing is assumed of the body, and nothing of the clients and services: none has
\* to write, to take what a blocked call sends it, or to close its end.
Fairness ==
  /\ WF_vars(CleanUp)
  /\ WF_vars(~Ended /\ AcceptStep)
  /\ \A c \in Conn : WF_vars(~Ended /\ (Runs(c) \/ (chan[c] = "closed" /\ WakeClosed(c))))

FairSpec == Spec /\ Fairness

-----------------------------------------------------------------------------
(* Properties.                                                             *)

\* Connections whose local side could not be connected: they have no thread.
Refused == {c \in ToSet(sockets) : chan[c] = "closed" /\ fwd[c].at = "none"}

\* The type invariant: three lists that grow together, the third behind the
\* others by the refused connections and the one that is being accepted.
TypeOK ==
  /\ sockets = channels
  /\ ToSet(sockets) = {c \in Conn : sock[c] # "none"}
  /\ threads \in Seq({c \in Conn : fwd[c].at # "none"})
  /\ \A i, k \in DOMAIN threads : i # k => threads[i] # threads[k]
  /\ accepting = [at |-> "nothing"]
       \/ accepting \in [at : {"connect", "list"}, conn : ToSet(sockets) \ ToSet(threads)]
  /\ handler \in BOOLEAN
  /\ sock \in [Conn -> {"none", "open", "closed"}]
  /\ chan \in [Conn -> {"none", "open", "closed"}]
  /\ \A c \in Conn :
       /\ fwd[c] \in [at : {"none", "select", "turn", "send", "blocked", "closing", "ended", "failed"},
                      ready : SUBSET Side, from : Side, data : Seq(1..MaxWrites[c])]
       /\ \A s \in Side : read[c][s] \in 0..wrote[c][s] /\ wrote[c][s] \in 0..MaxWrites[c]
  /\ end \in [Conn -> [Side -> {"up", "eof", "gone"}]]
  /\ block \in {"open", "zip", "chan", "join", "cancel", "cancelled", "left", "raised"}
  /\ idx \in 0..Len(threads)
  /\ late \subseteq ToSet(threads)

\* Each end gets what the other wrote, in order and without a gap; and when a
\* connection has ended by itself because one end was through, the other got
\* all of it, unless it had gone.
DataIsForwarded ==
  \A c \in Conn :
    /\ \A s \in Side : \A i \in DOMAIN got[c][s] : got[c][s][i] = i
    /\ fwd[c].at = "ended" =>
         LET s == fwd[c].from
         IN  Len(got[c][Other(s)]) = wrote[c][s] \/ end[c][Other(s)] = "gone"

\* When the block has been left without an exception, nothing is handed over
\* any more, and of the connections that were, all are over: thread ended without
\* exception, socket and channel closed. It leaves alone those whose thread was
\* listed after the loop, and the socket of one that was refused.
LeftClean ==
  block = "left" =>
    /\ ~handler /\ Listening
    /\ \A c \in ToSet(sockets) \ late :
         /\ chan[c] = "closed"
         /\ c \in Refused \/ (fwd[c].at = "ended" /\ sock[c] = "closed")

\* The main thread waits for a thread that waits for its service to read.
Stalled == block = "join" /\ Blocked(threads[idx])

\* Leaving the block ends, whether the connections are idle or in use, but in these
\* two cases, and there when a service or client makes it.
BlockEnds ==
  <>[]Stalled \/ <>[]Shifted \/ ((block = "zip") ~> (block \in {"left", "raised"}))
=============================================================================
