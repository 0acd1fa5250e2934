------------------------------- MODULE Connect -------------------------------
(***************************************************************************)
(* fabric.network: the cache of SSH connections of one process             *)
(* (HostConnectionCache), the retry loop of connect() with its password    *)
(* prompt and its gateway, and fabric.state.default_channel, which replaces*)
(* a connection it finds dead. connect() calls itself for the gateway from *)
(* inside its try block, so a running connect is a stack of frames.        *)
(* Meanwhile servers may drop any connection. Environment of the module:   *)
(* the servers (Accepts, Drop, what an attempt meets) and the user at the  *)
(* prompt (Answers); ProxyCommand is left out.                             *)
(***************************************************************************)
EXTENDS Integers, Sequences

CONSTANTS
  Name,            \* host strings
  Norm,            \* normalize_to_string()
  Gateway,         \* env.gateway, or None
  Attempts,        \* env.connection_attempts
  Password,        \* passwords
  Accepts,         \* the passwords each server takes; None is a key or an agent
  Answers,         \* what the user types at a prompt that names a host
  Initial,         \* env.password at the start, or None
  AbortOnPrompts,  \* whether handle_prompt_abort() aborts, as settings() may have it
  None

ASSUME NormAssumption == Norm \in [Name -> Name]
ASSUME GatewayAssumption == Gateway \in Name \cup {None}
ASSUME AttemptsAssumption == Attempts \in Nat
ASSUME AcceptsAssumption == Accepts \in [Name -> SUBSET (Password \cup {None})]
ASSUME AnswersAssumption == Answers \in [Name -> SUBSET Password]
ASSUME InitialAssumption == Initial \in Password \cup {None}
ASSUME AbortAssumption == AbortOnPrompts \subseteq BOOLEAN

VARIABLES
  cache,      \* the connection stored under each key, or None
  password,   \* env.password
  passwords,  \* env.passwords
  op,         \* what the task is doing with the cache, or None
  pc,         \* how far it is
  stack,      \* the running calls of connect(), the outer one first
  channels,   \* open channels through the gateway that no client owns
  outcome,    \* how the last operation ended
  prompts     \* history: what was typed for each host, and "again" after the right one

vars == <<cache, password, passwords, op, pc, stack, channels, outcome, prompts>>

-----------------------------------------------------------------------------

Clients == [host : Name, tunnelled : BOOLEAN, up : BOOLEAN]

\* What a task does with the cache: again is the second round of default_channel.
Ops == [kind : {"client", "session", "force"}, name : Name, again : BOOLEAN]

ASSUME NoneAssumption == None \notin Password \cup Name \cup Clients \cup Ops

\* _tried_enough(); a slip: only at exactly the last try.
TriedExactly(tries) == tries = Attempts
TriedEnough(tries) == tries >= Attempts

\* What an operation may end with: exit is SystemExit.
Results == {"ok", "networkError", "keyError", "error", "exit"}

\* key in cache: __contains__ normalizes once more.
Cached(key) == cache[Norm[key]] # None

\* get_password(login_only=True); a slip: the default first.
RememberedByDefault(h) == IF password # None THEN password ELSE passwords[h]
Remembered(h) == IF passwords[h] # None THEN passwords[h] ELSE password

GatewayKey == Norm[Gateway]

\* A call of connect(): the host it dials and the key its client goes under.
Call(host, slot, seek) ==
  [host |-> host, slot |-> slot, seek |-> seek, tries |-> 0, failed |-> 0,
   password |-> Remembered(host), sock |-> FALSE, at |-> "try"]

\* HostConnectionCache.connect(): seek_gateway; a slip: the key is compared with
\* the gateway as it was given.
SeekUnlessNamed(key) == Gateway # key
SeekGateway(key) == Gateway # None => GatewayKey # Norm[key]

CallFor(key) == Call(Norm[key], Norm[Norm[key]], SeekGateway(key))

\* get_gateway(): connect(*normalize(gateway) + (cache, False)).
GatewayCall == Call(Norm[GatewayKey], Norm[GatewayKey], FALSE)

Top == stack[Len(stack)]
SetTop(f) == stack' = [stack EXCEPT ![Len(stack)] = f]

Connecting(where) == pc = "connecting" /\ stack # <<>> /\ Top.at = where

\* In the try block, where paramiko may raise: at direct_tcpip() or at connect().
Attempting == Connecting("dial") \/ (Connecting("tunnel") /\ cache[GatewayKey] # None)

\* The finally clause closes the channel of a call that is not connected; a
\* slip: it is left to the next try.
LeavingChannel == channels
ClosingChannel == channels - (IF Top.sock THEN 1 ELSE 0)

\* An exception leaves connect(), through every call on the stack: none of its
\* handlers takes a NetworkError or a SystemExit.
Unwind(result) ==
  /\ op' = None /\ pc' = "idle" /\ stack' = <<>>
  /\ outcome' = result
  /\ channels' = ClosingChannel

\* The loop goes round, with this password, after so many transient failures.
Again(pass, failures) ==
  /\ SetTop([Top EXCEPT !.at = "try", !.sock = FALSE, !.password = pass, !.failed = failures])
  /\ channels' = ClosingChannel
  /\ UNCHANGED <<op, pc, outcome>>

-----------------------------------------------------------------------------

Init ==
  /\ cache = [n \in Name |-> None]
  /\ password = Initial
  /\ passwords = [n \in Name |-> None]
  /\ op = None
  /\ pc = "idle"
  /\ stack = <<>>
  /\ channels = 0
  /\ outcome = "ok"
  /\ prompts = [n \in Name |-> "nothing"]

(* The task: connections[name], connections.connect(name), default_channel *)

Get(kind, n) ==
  /\ op = None
  /\ op' = [kind |-> kind, name |-> n, again |-> FALSE]
  /\ pc' = "lookup"
  /\ UNCHANGED <<cache, password, passwords, stack, channels, outcome, prompts>>

ForceConnect(n) ==
  /\ op = None
  /\ op' = [kind |-> "force", name |-> n, again |-> FALSE]
  /\ pc' = "connecting"
  /\ stack' = <<CallFor(n)>>
  /\ UNCHANGED <<cache, password, passwords, channels, outcome, prompts>>

\* __getitem__(): connect to the normalized key unless it is cached.
Look ==
  /\ pc = "lookup"
  /\ IF Cached(Norm[op.name])
     THEN pc' = "stored" /\ UNCHANGED stack
     ELSE pc' = "connecting" /\ stack' = <<CallFor(Norm[op.name])>>
  /\ UNCHANGED <<cache, password, passwords, op, channels, outcome, prompts>>

\* The key __getitem__() reads from the dictionary below itself.
Entry == Norm[op.name]

\* _open_session() raises 'SSH session not active'.
SessionFails == op.kind = "session" /\ cache[Entry] # None /\ ~cache[Entry].up

\* What the task does with the entry it has got.
Take ==
  /\ pc = "stored"
  /\ LET key == Entry
         dead == SessionFails
         retry == dead /\ ~op.again
     IN /\ IF retry
           THEN /\ cache' = [cache EXCEPT ![key] = None]
                /\ op' = [op EXCEPT !.again = TRUE]
                /\ pc' = "lookup"
                /\ UNCHANGED outcome
           ELSE /\ op' = None
                /\ pc' = "idle"
                /\ outcome' = CASE op.kind # "force" /\ cache[key] = None -> "keyError"
                                [] dead -> "error"
                                [] OTHER -> "ok"
                /\ UNCHANGED cache
  /\ UNCHANGED <<password, passwords, stack, channels, prompts>>

\* disconnect_all(), after a host of a task or at the end of the program.
DisconnectAll ==
  /\ op = None
  /\ cache' = [n \in Name |-> None]
  /\ UNCHANGED <<password, passwords, op, pc, stack, channels, outcome, prompts>>

(* connect()                                                               *)

\* The head of the loop. get_gateway() is told to replace the cached gateway
\* when tries > 0, after tries was incremented. Beyond Attempts the number of
\* tries, and of failures, makes no difference and is not counted on.
Try ==
  /\ Connecting("try")
  /\ LET f == [Top EXCEPT !.tries = IF @ > Attempts THEN @ ELSE @ + 1]
         tunnel == f.seek /\ Gateway # None
         replace == f.tries > 0 \/ ~Cached(GatewayKey)
     IN stack' = [stack EXCEPT ![Len(stack)] =
                    [f EXCEPT !.at = IF tunnel THEN "tunnel" ELSE "dial"]]
                 \o (IF tunnel /\ replace THEN <<GatewayCall>> ELSE <<>>)
  /\ UNCHANGED <<cache, password, passwords, op, pc, channels, outcome, prompts>>

\* direct_tcpip() over the client found in the dictionary below the cache.
Tunnel ==
  /\ Connecting("tunnel")
  /\ LET gateway == cache[GatewayKey] IN
     IF gateway = None THEN Unwind("keyError")
     ELSE /\ gateway.up
          /\ SetTop([Top EXCEPT !.at = "dial", !.sock = TRUE])
          /\ channels' = channels + 1
          /\ UNCHANGED <<op, pc, outcome>>
  /\ UNCHANGED <<cache, password, passwords, prompts>>

\* client.connect() succeeds, and the caller stores the client.
Connected ==
  /\ Connecting("dial")
  /\ Top.password \in Accepts[Top.host]
  /\ cache' = [cache EXCEPT ![Top.slot] = [host |-> Top.host, tunnelled |-> Top.sock, up |-> TRUE]]
  /\ channels' = channels - (IF Top.sock THEN 1 ELSE 0)
  /\ stack' = SubSeq(stack, 1, Len(stack) - 1)
  /\ pc' = IF Len(stack) = 1 THEN "stored" ELSE pc
  /\ UNCHANGED <<password, passwords, op, outcome, prompts>>

\* A channel refused by the gateway, a banner that cannot be read, a timeout or
\* another socket error: try again until _tried_enough().
Transient ==
  /\ Attempting
  /\ IF TriedEnough(Top.tries)
     THEN Unwind("networkError")
     ELSE Again(Top.password, IF Top.failed > Attempts THEN Top.failed ELSE Top.failed + 1)
  /\ UNCHANGED <<cache, password, passwords, prompts>>

\* A host key that does not match, a name that does not resolve.
Fatal ==
  /\ Connecting("dial")
  /\ Unwind("networkError")
  /\ UNCHANGED <<cache, password, passwords, prompts>>

\* EOFError or TypeError in the try block: sys.exit(0).
Quit ==
  /\ Attempting
  /\ Unwind("exit")
  /\ UNCHANGED <<cache, password, passwords, prompts>>

\* set_password(), for the host that is dialled; a slip: its arguments are swapped.
RememberHost(p) == passwords' = [passwords EXCEPT ![Top.host] = Top.host]
Remember(p) == passwords' = [passwords EXCEPT ![Top.host] = p]

Typed(p) ==
  /\ Remember(p) /\ password' = p /\ Again(p, Top.failed)
  /\ prompts' = [prompts EXCEPT ![Top.host] = IF @ \in {"right", "again"} THEN "again"
                                              ELSE IF p \in Accepts[Top.host] THEN "right" ELSE "wrong"]
  /\ UNCHANGED cache

\* prompt_for_password(), called by the handler of an exception: an EOFError of
\* the prompt is met by the handlers of the call outside, if there is one. The
\* prompt names env.host_string, which is what the task asked the cache for, also
\* while the gateway is dialled.
Prompt ==
  \/ /\ TRUE \in AbortOnPrompts
     /\ Unwind("exit")
     /\ UNCHANGED <<cache, password, passwords, prompts>>
  \/ /\ FALSE \in AbortOnPrompts
     /\ Unwind(IF Len(stack) > 1 THEN "exit" ELSE "error")
     /\ UNCHANGED <<cache, password, passwords, prompts>>
  \/ /\ FALSE \in AbortOnPrompts
     /\ \E p \in Answers[op.name] : Typed(p)

\* AuthenticationException, PasswordRequiredException or a key that cannot be
\* parsed.
Refused ==
  /\ Connecting("dial")
  /\ Top.password \notin Accepts[Top.host]
  /\ Prompt

\* Another SSHException, as of a gateway that is down: taken for a failure of
\* the authentication when there was no password.
SshError ==
  /\ Connecting("dial") \/ (Connecting("tunnel") /\ cache[GatewayKey] # None /\ ~cache[GatewayKey].up)
  /\ \/ Top.password = None /\ Prompt
     \/ /\ Top.password # None
        /\ Unwind("networkError")
        /\ UNCHANGED <<cache, password, passwords, prompts>>

\* External: a server or the network ends a connection.
Drop(n) ==
  /\ cache[n] # None
  /\ cache[n].up
  /\ cache' = [cache EXCEPT ![n].up = FALSE]
  /\ UNCHANGED <<password, passwords, op, pc, stack, channels, outcome, prompts>>

Connect == Try \/ Tunnel \/ Connected \/ Transient \/ Fatal \/ Quit \/ Refused \/ SshError

Step == Look \/ Take \/ Connect

Next ==
  \/ \E n \in Name : Get("client", n) \/ Get("session", n) \/ ForceConnect(n) \/ Drop(n)
  \/ Step
  \/ DisconnectAll

Spec == Init /\ [][Next]_vars

\* One thread of control: what it has begun it carries on with. paramiko ends
\* every attempt, in the longest case by env.timeout, and the user answers.
FairSpec == Spec /\ WF_vars(Step)

-----------------------------------------------------------------------------
(* Properties. They are stated for an idempotent Norm where it matters.    *)

Frames ==
  [host : Name, slot : Name, seek : BOOLEAN, tries : 0..(Attempts + 1), failed : 0..(Attempts + 1),
   password : Password \cup {None}, sock : BOOLEAN, at : {"try", "tunnel", "dial"}]

\* The type invariant.
TypeOK ==
  /\ cache \in [Name -> Clients \cup {None}]
  /\ password \in Password \cup {None}
  /\ passwords \in [Name -> Password \cup {None}]
  /\ op \in Ops \cup {None}
  /\ pc \in {"idle", "lookup", "connecting", "stored"}
  /\ stack \in Seq(Frames)
  /\ channels \in Int
  /\ outcome \in Results
  /\ prompts \in [Name -> {"nothing", "wrong", "right", "again"}]

\* A connection stands under the normal form of the host it leads to, and goes
\* through the gateway exactly when there is one and it is another host. So
\* the call for the gateway never looks for a gateway itself. And connections[name]
\* never raises KeyError: what was connected to is found under the key it is
\* looked up with.
CacheIsTruthful ==
  /\ \A n \in Name : cache[n] # None =>
       /\ cache[n].host = n /\ Norm[n] = n
       /\ cache[n].tunnelled <=> Gateway # None /\ n # GatewayKey
  /\ Len(stack) <= 2
  /\ outcome # "keyError"

\* A channel through the gateway is open only while the try it was opened for
\* runs, or belongs to a client.
NoLooseChannel ==
  channels = IF stack # <<>> /\ Top.sock THEN 1 ELSE 0

\* A call read its password before its gateway was connected to, for which the
\* user has typed another one since; none is remembered for its own host.
Stale(f) == passwords[f.host] = None /\ f.seek /\ Gateway # None

\* Once the right password of a host has been typed, at whatever prompt, it is
\* never asked for again, however often the connection breaks and whatever is
\* typed for other hosts. And a call tries, before it asks, what is remembered:
\* only the default may be an older one, and only behind a gateway.
PromptedOnce ==
  /\ \A n \in Name : prompts[n] # "again"
  /\ \A i \in DOMAIN stack : stack[i].password = Remembered(stack[i].host) \/ Stale(stack[i])

\* Every operation on the cache ends, unless the user types wrong passwords
\* without end: they are asked for as often.
Mistake == stack # <<>> /\ \E p \in Password \ Accepts[Top.host] : Typed(p)
OpEnds == []<><<Mistake>>_vars \/ ((op # None) ~> (op = None))
=============================================================================
