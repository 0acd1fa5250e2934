---------------------------- MODULE ConnectProofs ----------------------------
(***************************************************************************)
(* Theorems about Connect for any host strings, any gateway, any number of *)
(* attempts and whatever the servers and the user do.                      *)
(***************************************************************************)
EXTENDS Connect, SequenceTheorems, TLAPS

-----------------------------------------------------------------------------
(* The inductive invariant.                                                *)

\* The program counter, the operation and the running calls go together.
Doing ==
  /\ pc = "idle" <=> op = None
  /\ pc = "connecting" <=> stack # <<>>

\* A channel is open only for a call that dials through it; only a call that
\* looks for a gateway has a tunnel.
Shape(f) ==
  /\ f.at # "dial" => ~f.sock
  /\ f.at = "tunnel" => f.seek /\ Gateway # None

\* The call for the gateway is the only one inside another, which waits for it.
Nesting ==
  /\ Len(stack) <= 2
  /\ \A i \in DOMAIN stack : Shape(stack[i])
  /\ Len(stack) = 2 => stack[1].at = "tunnel" /\ ~stack[2].seek

Basics == TypeOK /\ Doing /\ Nesting /\ NoLooseChannel

\* What normalize() does to a host string it does once and for all: no HostName
\* of ~/.ssh/config is itself a Host with another HostName, as ssh would have it.
Idempotent == \A n \in Name : Norm[Norm[n]] = Norm[n]

\* Every call stores what it dials under its own name, and goes through the
\* gateway unless it is the gateway's.
Keyed(f) ==
  /\ f.slot = f.host /\ Norm[f.host] = f.host
  /\ f.seek <=> (Gateway # None => GatewayKey # f.host)
  /\ f.at = "dial" => (f.sock <=> f.seek /\ Gateway # None)

\* The outer call is for the entry the task asks for, the inner one for the
\* gateway, whose client is there when the outer call goes on; and the entry is
\* there when the task reads it.
Calls ==
  /\ \A i \in DOMAIN stack : Keyed(stack[i])
  /\ stack # <<>> => stack[1].slot = Entry
  /\ Len(stack) = 2 => stack[2].slot = GatewayKey
  /\ Len(stack) = 1 /\ stack[1].at = "tunnel" => cache[GatewayKey] # None
  /\ pc = "stored" => cache[Entry] # None

\* Once the right password of n was typed, it is remembered, and a running call
\* to n uses it.
Right(n) ==
  /\ passwords[n] \in Accepts[n] \ {None}
  /\ \A i \in DOMAIN stack : stack[i].host = n => stack[i].password \in Accepts[n] \ {None}

Held(f) == f.password = Remembered(f.host) \/ Stale(f)

Asked ==
  /\ \A n \in Name : prompts[n] # "again" /\ (prompts[n] = "right" => Right(n))
  /\ \A i \in DOMAIN stack : Held(stack[i])

IInv == Basics /\ Calls /\ CacheIsTruthful /\ Asked

-----------------------------------------------------------------------------
(* The ways a step of connect() may go.                                    *)

\* An exception leaves it; a KeyError only for want of the gateway.
GivesUp ==
  /\ \E r \in Results : /\ Unwind(r)
                        /\ r = "keyError" => Connecting("tunnel") /\ cache[GatewayKey] = None
  /\ stack # <<>>
  /\ UNCHANGED <<cache, password, passwords, prompts>>

\* The loop goes round with the password it had, ...
TriesAgain ==
  /\ stack # <<>>
  /\ \E k \in 0..(Attempts + 1) : Again(Top.password, k)
  /\ UNCHANGED <<cache, password, passwords, prompts>>

\* ... or with a new one, when it had none or a wrong one.
Asks ==
  /\ stack # <<>>
  /\ Top.password \notin Accepts[Top.host] \/ Top.password = None
  /\ \E p \in Password : Typed(p)

\* The gateway opens a channel.
Opens ==
  /\ Connecting("tunnel")
  /\ cache[GatewayKey] # None
  /\ SetTop([Top EXCEPT !.at = "dial", !.sock = TRUE])
  /\ channels' = channels + 1
  /\ UNCHANGED <<op, pc, outcome, cache, password, passwords, prompts>>

\* The call on top of the stack.
LEMMA TopFrame ==
  ASSUME TypeOK, stack # <<>>
  PROVE  /\ Len(stack) \in Nat /\ Len(stack) >= 1 /\ DOMAIN stack = 1..Len(stack)
         /\ Top \in Frames /\ Top = stack[Len(stack)]
         /\ \A i \in DOMAIN stack : stack[i] \in Frames
<1>1. stack \in Seq(Frames)
  BY DEF TypeOK
<1>2. Len(stack) \in Nat \ {0} /\ DOMAIN stack = 1..Len(stack)
  BY <1>1, EmptySeq, LenProperties
<1>3. \A i \in DOMAIN stack : stack[i] \in Frames
  BY <1>1, <1>2, ElementOfSeq
<1> QED  BY <1>2, <1>3 DEF Top

LEMMA Ways ==
  ASSUME TypeOK, Doing, Connect
  PROVE  GivesUp \/ TriesAgain \/ Asks \/ Opens \/ Try \/ Connected
<1>1. CASE Try \/ Connected
  BY <1>1
<1>2. CASE Tunnel
  BY <1>2 DEF Tunnel, GivesUp, Opens, Connecting, Results
<1>3. CASE Transient
  <2>1. stack # <<>> /\ Top \in Frames
    BY <1>3, TopFrame DEF Transient, Attempting, Connecting
  <2>2. CASE TriedEnough(Top.tries)
    BY <1>3, <2>1, <2>2 DEF Transient, GivesUp, Results
  <2>3. CASE ~TriedEnough(Top.tries)
    <3>1. (IF Top.failed > Attempts THEN Top.failed ELSE Top.failed + 1) \in 0..(Attempts + 1)
      BY <2>1, AttemptsAssumption DEF Frames
    <3> QED  BY <1>3, <2>1, <2>3, <3>1 DEF Transient, TriesAgain
  <2> QED  BY <2>2, <2>3
<1>4. CASE Fatal \/ Quit
  BY <1>4 DEF Fatal, Quit, Attempting, Connecting, GivesUp, Results
<1>5. ASSUME stack # <<>>, Prompt, Top.password \notin Accepts[Top.host] \/ Top.password = None
      PROVE  GivesUp \/ Asks
  <2>1. op \in Ops
    BY <1>5 DEF Doing, TypeOK
  <2>2. Answers[op.name] \subseteq Password
    BY <2>1, AnswersAssumption DEF Ops
  <2> QED  BY <1>5, <2>2 DEF Prompt, GivesUp, Asks, Results
<1>6. CASE Refused
  BY <1>5, <1>6 DEF Refused, Connecting
<1>7. CASE SshError
  <2>1. stack # <<>>
    BY <1>7 DEF SshError, Connecting
  <2>2. CASE Top.password = None /\ Prompt
    BY <1>5, <2>1, <2>2
  <2>3. CASE Unwind("networkError") /\ UNCHANGED <<cache, password, passwords, prompts>>
    BY <2>1, <2>3 DEF GivesUp, Results
  <2> QED  BY <1>7, <2>2, <2>3 DEF SshError
<1> QED  BY <1>1, <1>2, <1>3, <1>4, <1>6, <1>7 DEF Connect

-----------------------------------------------------------------------------
(* What the steps do to the stack.                                         *)

LEMMA SetTopStack ==
  ASSUME TypeOK, stack # <<>>, NEW f \in Frames, SetTop(f)
  PROVE  /\ stack' \in Seq(Frames) /\ Len(stack') = Len(stack) /\ DOMAIN stack' = DOMAIN stack /\ stack' # <<>>
         /\ \A i \in DOMAIN stack : stack'[i] = IF i = Len(stack) THEN f ELSE stack[i]
<1>1. stack \in Seq(Frames) /\ Len(stack) \in 1..Len(stack) /\ DOMAIN stack = 1..Len(stack)
  BY TopFrame DEF TypeOK
<1>2. /\ stack' \in Seq(Frames) /\ Len(stack') = Len(stack)
      /\ \A i \in 1..Len(stack) : stack'[i] = IF i = Len(stack) THEN f ELSE stack[i]
  BY <1>1, ExceptSeq DEF SetTop
<1>3. DOMAIN stack' = 1..Len(stack)
  BY <1>2, LenProperties
<1> QED  BY <1>1, <1>2, <1>3, EmptySeq

LEMMA AgainStack ==
  ASSUME TypeOK, stack # <<>>, NEW p \in Password \cup {None}, NEW k \in 0..(Attempts + 1), Again(p, k)
  PROVE  \E f \in Frames :
           /\ SetTop(f)
           /\ f.host = Top.host /\ f.slot = Top.slot /\ f.seek = Top.seek
           /\ f.at = "try" /\ ~f.sock /\ f.password = p
<1> DEFINE f == [Top EXCEPT !.at = "try", !.sock = FALSE, !.password = p, !.failed = k]
<1>1. Top \in Frames
  BY TopFrame
<1>2. f \in Frames /\ f.host = Top.host /\ f.slot = Top.slot /\ f.seek = Top.seek
      /\ f.at = "try" /\ ~f.sock /\ f.password = p
  BY <1>1 DEF Frames
<1>3. SetTop(f)
  BY DEF Again
<1> QED  BY <1>2, <1>3

\* A call of connect() begins with the password that is remembered for its host.
LEMMA CallFrame ==
  ASSUME TypeOK, NEW h \in Name, NEW s \in Name, NEW seek \in BOOLEAN
  PROVE  /\ Call(h, s, seek) \in Frames
         /\ Call(h, s, seek).host = h /\ Call(h, s, seek).slot = s /\ Call(h, s, seek).seek = seek
         /\ Call(h, s, seek).at = "try" /\ ~Call(h, s, seek).sock
         /\ Call(h, s, seek).password = Remembered(h)
<1>1. Remembered(h) \in Password \cup {None}
  BY DEF Remembered, TypeOK
<1> QED  BY <1>1, AttemptsAssumption DEF Call, Frames

LEMMA GatewayFrame ==
  ASSUME TypeOK, Gateway # None
  PROVE  /\ GatewayKey \in Name /\ GatewayCall \in Frames
         /\ GatewayCall.host = Norm[GatewayKey] /\ GatewayCall.slot = Norm[GatewayKey]
         /\ ~GatewayCall.seek /\ GatewayCall.at = "try" /\ ~GatewayCall.sock
         /\ GatewayCall.password = Remembered(Norm[GatewayKey])
<1>1. GatewayKey \in Name /\ Norm[GatewayKey] \in Name
  BY GatewayAssumption, NormAssumption DEF GatewayKey
<1> QED  BY <1>1, CallFrame DEF GatewayCall

LEMMA NewCall ==
  ASSUME TypeOK, NEW n \in Name
  PROVE  /\ Norm[n] \in Name /\ CallFor(n) \in Frames
         /\ CallFor(n).host = Norm[n] /\ CallFor(n).slot = Norm[Norm[n]]
         /\ CallFor(n).seek <=> (Gateway # None => GatewayKey # Norm[n])
         /\ CallFor(n).at = "try" /\ ~CallFor(n).sock
         /\ CallFor(n).password = Remembered(Norm[n])
<1>1. Norm[n] \in Name /\ Norm[Norm[n]] \in Name /\ SeekGateway(n) \in BOOLEAN
  BY NormAssumption DEF SeekGateway
<1>2. /\ CallFor(n) \in Frames
      /\ CallFor(n).host = Norm[n] /\ CallFor(n).slot = Norm[Norm[n]] /\ CallFor(n).seek = SeekGateway(n)
      /\ CallFor(n).at = "try" /\ ~CallFor(n).sock
      /\ CallFor(n).password = Remembered(Norm[n])
  BY <1>1, CallFrame DEF CallFor
<1> QED  BY <1>1, <1>2 DEF SeekGateway

LEMMA OneCall ==
  ASSUME NEW f \in Frames
  PROVE  /\ <<f>> \in Seq(Frames) /\ Len(<<f>>) = 1 /\ DOMAIN <<f>> = {1} /\ <<f>>[1] = f /\ <<f>> # <<>>
OBVIOUS

LEMMA TwoCalls ==
  ASSUME NEW f \in Frames, NEW g \in Frames
  PROVE  /\ <<f, g>> \in Seq(Frames) /\ Len(<<f, g>>) = 2 /\ DOMAIN <<f, g>> = {1, 2}
         /\ <<f, g>>[1] = f /\ <<f, g>>[2] = g /\ <<f, g>> # <<>>
         /\ <<f>> \o <<g>> = <<f, g>>
<1>1. /\ <<f, g>> \in Seq(Frames) /\ Len(<<f, g>>) = 2 /\ DOMAIN <<f, g>> = {1, 2}
      /\ <<f, g>>[1] = f /\ <<f, g>>[2] = g /\ <<f, g>> # <<>>
  OBVIOUS
<1>2. <<f>> \o <<g>> \in Seq(Frames) /\ Len(<<f>> \o <<g>>) = 2
  BY OneCall, ConcatProperties
<1>3. (<<f>> \o <<g>>)[1] = f /\ (<<f>> \o <<g>>)[2] = g
  BY OneCall, ConcatProperties
<1>4. \A i \in 1..2 : (<<f>> \o <<g>>)[i] = <<f, g>>[i]
  BY <1>1, <1>3
<1> QED  BY <1>1, <1>2, <1>4, SeqEqual

LEMMA TryStack ==
  ASSUME TypeOK, Nesting, Try
  PROVE  \E f \in Frames :
           /\ f.host = Top.host /\ f.slot = Top.slot /\ f.seek = Top.seek
           /\ f.password = Top.password /\ f.sock = Top.sock
           /\ \/ /\ ~(f.seek /\ Gateway # None) /\ f.at = "dial" /\ SetTop(f)
              \/ /\ f.seek /\ Gateway # None /\ f.at = "tunnel"
                 /\ Len(stack) = 1
                 /\ stack' = <<f, GatewayCall>>
<1>1. stack # <<>> /\ Top \in Frames /\ Len(stack) \in Nat /\ Len(stack) >= 1
      /\ Top = stack[Len(stack)] /\ DOMAIN stack = 1..Len(stack) /\ stack \in Seq(Frames)
  BY TopFrame DEF Try, Connecting, TypeOK
<1> DEFINE e == [Top EXCEPT !.tries = IF @ > Attempts THEN @ ELSE @ + 1]
           tunnel == Top.seek /\ Gateway # None
           f == [e EXCEPT !.at = IF tunnel THEN "tunnel" ELSE "dial"]
<1>2. PICK t : t = IF Top.tries > Attempts THEN Top.tries ELSE Top.tries + 1
  OBVIOUS
<1>3. t \in 0..(Attempts + 1) /\ t > 0
  <2>1. Top.tries \in 0..(Attempts + 1)
    BY <1>1 DEF Frames
  <2> QED  BY <1>2, <2>1, AttemptsAssumption
<1>4. e \in Frames /\ e.tries > 0 /\ e.seek = Top.seek
  <2>1. e = [Top EXCEPT !.tries = t]
    BY <1>2
  <2> QED  BY <1>1, <1>3, <2>1 DEF Frames
<1>5. /\ f \in Frames /\ f.host = Top.host /\ f.slot = Top.slot /\ f.seek = Top.seek
      /\ f.password = Top.password /\ f.sock = Top.sock
      /\ f.at = IF tunnel THEN "tunnel" ELSE "dial"
  <2>1. f = [[Top EXCEPT !.tries = t] EXCEPT !.at = IF tunnel THEN "tunnel" ELSE "dial"]
    BY <1>2
  <2> QED  BY <1>1, <1>3, <2>1 DEF Frames
<1>6. stack' = [stack EXCEPT ![Len(stack)] = f] \o (IF tunnel THEN <<GatewayCall>> ELSE <<>>)
  BY <1>4 DEF Try
<1>7. /\ [stack EXCEPT ![Len(stack)] = f] \in Seq(Frames)
      /\ Len([stack EXCEPT ![Len(stack)] = f]) = Len(stack)
      /\ [stack EXCEPT ![Len(stack)] = f][Len(stack)] = f
  BY <1>1, <1>5, ExceptSeq
<1> HIDE DEF e, f
<1>8. CASE ~tunnel
  <2>1. SetTop(f)
    BY <1>6, <1>7, <1>8, ConcatEmptySeq DEF SetTop
  <2> QED  BY <1>5, <1>8, <2>1
<1>9. CASE tunnel
  <2>1. Len(stack) = 1
    BY <1>1, <1>9 DEF Nesting
  <2>2. [stack EXCEPT ![Len(stack)] = f] = <<f>>
    BY <1>5, <1>7, <2>1, OneCall, SeqEqual
  <2>3. stack' = <<f>> \o <<GatewayCall>>
    BY <1>6, <1>9, <2>2
  <2>4. GatewayCall \in Frames
    BY <1>9, GatewayFrame
  <2>5. <<f>> \o <<GatewayCall>> = <<f, GatewayCall>>
    BY <1>5, <2>4, TwoCalls
  <2> QED  BY <1>5, <1>9, <2>1, <2>3, <2>5
<1> QED  BY <1>8, <1>9

\* A call that has returned leaves the one outside it, if any.
LEMMA ConnectedStack ==
  ASSUME TypeOK, Nesting, Connected
  PROVE  \/ Len(stack) = 1 /\ stack' = <<>> /\ pc' = "stored"
         \/ Len(stack) = 2 /\ stack' = <<stack[1]>> /\ pc' = pc
<1>1. stack # <<>> /\ Len(stack) \in Nat /\ Len(stack) >= 1 /\ DOMAIN stack = 1..Len(stack)
      /\ \A i \in DOMAIN stack : stack[i] \in Frames
  BY TopFrame DEF Connected, Connecting
<1>2. Len(stack) \in {1, 2}
  BY <1>1 DEF Nesting
<1>3. stack' = SubSeq(stack, 1, Len(stack) - 1)
  BY DEF Connected
<1>4. CASE Len(stack) = 1
  BY <1>3, <1>4, SubSeqEmpty DEF Connected
<1>5. CASE Len(stack) = 2
  <2>1. stack' = SubSeq(stack, 1, 1)
    BY <1>3, <1>5
  <2>2. stack' \in Seq(Frames) /\ Len(stack') = 1 /\ stack'[1] = stack[1]
    BY <1>1, <1>5, <2>1, SubSeqProperties
  <2>3. stack' = <<stack[1]>>
    BY <1>1, <1>5, <2>2, OneCall, SeqEqual
  <2>4. pc' = pc
    BY <1>5 DEF Connected
  <2> QED  BY <1>5, <2>3, <2>4
<1> QED  BY <1>2, <1>4, <1>5

-----------------------------------------------------------------------------
(* Type correctness, nesting and the channels.                             *)

LEMMA InitBasics == Init => Basics
<1> SUFFICES ASSUME Init PROVE Basics
  OBVIOUS
<1>1. <<>> \in Seq(Frames) /\ Len(<<>>) = 0 /\ DOMAIN <<>> = {}
  BY EmptySeq
<1>2. TypeOK
  BY <1>1, InitialAssumption DEF Init, TypeOK, Results
<1>3. Doing /\ Nesting /\ NoLooseChannel
  BY <1>1 DEF Init, Doing, Nesting, NoLooseChannel
<1> QED  BY <1>2, <1>3 DEF Basics

\* The host of a running call is a host string.
LEMMA TopSorts ==
  ASSUME TypeOK, stack # <<>>
  PROVE  /\ Top.host \in Name /\ Top.slot \in Name /\ Top.password \in Password \cup {None}
         /\ Top.sock \in BOOLEAN /\ Top.failed \in 0..(Attempts + 1)
         /\ \A p \in Password : p # None
<1>1. PICK f \in Frames : f = Top
  BY TopFrame
<1>2. /\ f.host \in Name /\ f.slot \in Name /\ f.password \in Password \cup {None}
      /\ f.sock \in BOOLEAN /\ f.failed \in 0..(Attempts + 1)
  BY DEF Frames
<1> QED  BY <1>1, <1>2, NoneAssumption

LEMMA NextTypes ==
  ASSUME TypeOK, Doing, Nesting, [Next]_vars
  PROVE  TypeOK'
<1>0. stack \in Seq(Frames) /\ channels \in Int /\ <<>> \in Seq(Frames)
  BY EmptySeq DEF TypeOK
<1>1. ASSUME NEW n \in Name, NEW k \in {"client", "session"}, Get(k, n) PROVE TypeOK'
  BY <1>0, <1>1 DEF Get, TypeOK, Ops
<1>2. ASSUME NEW n \in Name, ForceConnect(n) PROVE TypeOK'
  <2>1. CallFor(n) \in Frames
    BY NewCall
  <2>2. /\ op' = [kind |-> "force", name |-> n, again |-> FALSE] /\ pc' = "connecting"
        /\ stack' = <<CallFor(n)>> /\ UNCHANGED <<cache, password, passwords, channels, outcome, prompts>>
    BY <1>2 DEF ForceConnect
  <2>3. op' \in Ops /\ stack' \in Seq(Frames)
    BY <2>1, <2>2, OneCall DEF Ops
  <2> QED  BY <2>2, <2>3 DEF TypeOK
<1>3. ASSUME NEW n \in Name, Drop(n) PROVE TypeOK'
  <2>1. cache[n] \in Clients
    BY <1>3 DEF Drop, TypeOK
  <2>2. [cache[n] EXCEPT !.up = FALSE] \in Clients
    BY <2>1 DEF Clients
  <2>3. cache' \in [Name -> Clients \cup {None}]
    BY <1>3, <2>2 DEF Drop, TypeOK
  <2> QED  BY <1>0, <1>3, <2>3 DEF Drop, TypeOK
<1>4. CASE DisconnectAll
  BY <1>0, <1>4 DEF DisconnectAll, TypeOK
<1>5. CASE Look
  <2>1. op \in Ops
    BY <1>5 DEF Look, Doing, TypeOK
  <2>2. CallFor(Norm[op.name]) \in Frames
    BY <2>1, NewCall, NormAssumption DEF Ops
  <2> QED  BY <1>0, <1>5, <2>2, OneCall DEF Look, TypeOK
<1>6. CASE Take
  <2>1. op \in Ops
    BY <1>6 DEF Take, Doing, TypeOK
  <2>2. [op EXCEPT !.again = TRUE] \in Ops
    BY <2>1 DEF Ops
  <2>3. op' \in Ops \cup {None} /\ pc' \in {"lookup", "idle"} /\ cache' \in [Name -> Clients \cup {None}]
    BY <1>6, <2>2 DEF Take, TypeOK
  <2>4. outcome' \in Results
    BY <1>6 DEF Take, TypeOK, Results
  <2> QED  BY <1>0, <1>6, <2>3, <2>4 DEF Take, TypeOK
<1>7. CASE GivesUp
  <2>1. channels' \in Int
    BY <1>0, <1>7 DEF GivesUp, Unwind, ClosingChannel
  <2>2. op' = None /\ pc' = "idle" /\ stack' = <<>> /\ outcome' \in Results
    BY <1>7 DEF GivesUp, Unwind
  <2> QED  BY <1>0, <1>7, <2>1, <2>2 DEF GivesUp, TypeOK
<1>8. CASE TriesAgain
  <2>1. stack # <<>> /\ UNCHANGED <<cache, password, passwords, prompts, op, pc, outcome>>
    BY <1>8 DEF TriesAgain, Again
  <2>2. channels' \in Int
    BY <1>0, <1>8 DEF TriesAgain, Again, ClosingChannel
  <2>3. stack' \in Seq(Frames)
    <3>1. PICK k \in 0..(Attempts + 1) : Again(Top.password, k)
      BY <1>8 DEF TriesAgain
    <3>2. \E f \in Frames : SetTop(f)
      BY <2>1, <3>1, TopSorts, AgainStack
    <3> QED  BY <2>1, <3>2, SetTopStack
  <2> QED  BY <1>0, <2>1, <2>2, <2>3 DEF TypeOK
<1>9. CASE Asks
  <2>1. PICK p \in Password : Typed(p) /\ Remember(p) /\ password' = p /\ Again(p, Top.failed)
    BY <1>9 DEF Asks, Typed
  <2>2. stack # <<>> /\ UNCHANGED <<cache, op, pc, outcome>> /\ password' = p
    BY <1>9, <2>1 DEF Asks, Typed, Again
  <2>3. channels' \in Int
    BY <1>0, <2>1 DEF Again, ClosingChannel
  <2>4. p \in Password /\ Top.host \in Name /\ Top.failed \in 0..(Attempts + 1)
    BY <2>1, <2>2, TopSorts
  <2>5. stack' \in Seq(Frames)
    <3>1. \E f \in Frames : SetTop(f)
      BY <2>1, <2>2, <2>4, AgainStack
    <3> QED  BY <2>2, <3>1, SetTopStack
  <2>6. passwords' \in [Name -> Password \cup {None}]
    BY <2>1, <2>4 DEF Remember, TypeOK
  <2>7. prompts' \in [Name -> {"nothing", "wrong", "right", "again"}]
    BY <2>1, <2>4 DEF Typed, TypeOK
  <2> QED  BY <1>0, <2>2, <2>3, <2>4, <2>5, <2>6, <2>7 DEF TypeOK
<1>10. CASE Opens
  <2>1. stack # <<>> /\ SetTop([Top EXCEPT !.at = "dial", !.sock = TRUE]) /\ channels' = channels + 1
        /\ UNCHANGED <<op, pc, outcome, cache, password, passwords, prompts>>
    BY <1>10 DEF Opens, Connecting
  <2>2. [Top EXCEPT !.at = "dial", !.sock = TRUE] \in Frames
    BY <2>1, TopFrame DEF Frames
  <2>3. stack' \in Seq(Frames)
    BY <2>1, <2>2, SetTopStack
  <2> QED  BY <1>0, <2>1, <2>3 DEF TypeOK
<1>11. CASE Try
  <2>1. stack # <<>> /\ UNCHANGED <<cache, password, passwords, op, pc, channels, outcome, prompts>>
    BY <1>11 DEF Try, Connecting
  <2>2. stack' \in Seq(Frames)
    BY <1>11, <2>1, TryStack, SetTopStack, TwoCalls, GatewayFrame
  <2> QED  BY <1>0, <2>1, <2>2 DEF TypeOK
<1>12. CASE Connected
  <2>1. /\ cache' = [cache EXCEPT ![Top.slot] = [host |-> Top.host, tunnelled |-> Top.sock, up |-> TRUE]]
        /\ channels' \in Int /\ UNCHANGED <<password, passwords, op, outcome, prompts>> /\ stack # <<>>
    BY <1>0, <1>12 DEF Connected, Connecting
  <2>2. [host |-> Top.host, tunnelled |-> Top.sock, up |-> TRUE] \in Clients
    BY <2>1, TopSorts DEF Clients
  <2>3. cache' \in [Name -> Clients \cup {None}]
    BY <2>1, <2>2 DEF TypeOK
  <2>4. Len(stack) = 2 => <<stack[1]>> \in Seq(Frames)
    BY <2>1, TopFrame, OneCall
  <2>5. stack' \in Seq(Frames) /\ pc' \in {"stored", pc}
    BY <1>0, <1>12, <2>4, ConnectedStack
  <2> QED  BY <1>0, <2>1, <2>3, <2>5 DEF TypeOK
<1>13. CASE UNCHANGED vars
  BY <1>13 DEF vars, TypeOK
<1>14. CASE Connect
  BY <1>7, <1>8, <1>9, <1>10, <1>11, <1>12, <1>14, Ways
<1>15. CASE Next
  BY <1>1, <1>2, <1>3, <1>4, <1>5, <1>6, <1>14, <1>15 DEF Next, Step
<1> QED  BY <1>13, <1>15

\* A step that puts f in the place of the call on top.
LEMMA SetTopNesting ==
  ASSUME TypeOK, Nesting, stack # <<>>, NEW f \in Frames, SetTop(f), Shape(f),
         f.seek = Top.seek
  PROVE  Nesting' /\ Top' = f /\ stack' # <<>>
<1>1. /\ Len(stack) \in Nat /\ Len(stack) >= 1 /\ DOMAIN stack = 1..Len(stack) /\ Top = stack[Len(stack)]
      /\ Len(stack') = Len(stack) /\ DOMAIN stack' = DOMAIN stack /\ stack' # <<>>
      /\ \A i \in DOMAIN stack : stack'[i] = IF i = Len(stack) THEN f ELSE stack[i]
  BY TopFrame, SetTopStack
<1>2. Top' = f
  BY <1>1 DEF Top
<1>3. SUFFICES Nesting'
  BY <1>1, <1>2
<1>4. Len(stack') <= 2
  BY <1>1 DEF Nesting
<1>5. ASSUME NEW i \in DOMAIN stack' PROVE Shape(stack'[i])
  BY <1>1 DEF Nesting
<1>6. Len(stack') = 2 => stack'[1].at = "tunnel" /\ ~stack'[2].seek
  BY <1>1 DEF Nesting
<1> QED  BY <1>4, <1>5, <1>6 DEF Nesting, Shape

\* A stack of one call that has just begun, or that was below another.
LEMMA OneCallNesting ==
  ASSUME NEW f \in Frames, stack' = <<f>>, Shape(f)
  PROVE  Nesting' /\ Top' = f
<1>1. Len(stack') = 1 /\ DOMAIN stack' = {1} /\ stack'[1] = f
  BY OneCall
<1> QED  BY <1>1 DEF Nesting, Top, Shape

LEMMA NoCallNesting ==
  ASSUME stack' = <<>>
  PROVE  Nesting'
<1>1. Len(stack') = 0 /\ DOMAIN stack' = {}
  BY EmptySeq
<1> QED  BY <1>1 DEF Nesting

LEMMA NextNesting ==
  ASSUME Basics, [Next]_vars
  PROVE  (Doing /\ Nesting /\ NoLooseChannel)'
<1>0. TypeOK /\ Doing /\ Nesting /\ NoLooseChannel
  BY DEF Basics
<1>1. ASSUME NEW n \in Name, NEW k \in {"client", "session"}, Get(k, n) PROVE (Doing /\ Nesting /\ NoLooseChannel)'
  <2>1. op' \in Ops /\ pc' = "lookup" /\ stack = <<>> /\ UNCHANGED <<stack, channels>>
    BY <1>0, <1>1 DEF Get, Ops, Doing
  <2>2. Doing'
    BY <1>0, <2>1, NoneAssumption DEF Doing
  <2> QED  BY <1>0, <2>1, <2>2, NoCallNesting DEF NoLooseChannel
<1>2. ASSUME NEW n \in Name, ForceConnect(n) PROVE (Doing /\ Nesting /\ NoLooseChannel)'
  <2>1. op' \in Ops /\ pc' = "connecting" /\ stack = <<>> /\ stack' = <<CallFor(n)>> /\ UNCHANGED channels
    BY <1>0, <1>2 DEF ForceConnect, Ops, Doing
  <2>2. CallFor(n) \in Frames /\ CallFor(n).at = "try" /\ ~CallFor(n).sock
    BY <1>0, NewCall
  <2>3. Doing'
    BY <2>1, <2>2, OneCall, NoneAssumption DEF Doing
  <2>4. Nesting' /\ Top' = CallFor(n)
    BY <2>1, <2>2, OneCallNesting DEF Shape
  <2> QED  BY <1>0, <2>1, <2>2, <2>3, <2>4 DEF NoLooseChannel
<1>3. CASE (\E n \in Name : Drop(n)) \/ DisconnectAll \/ UNCHANGED vars
  <2>1. UNCHANGED <<op, pc, stack, channels>>
    BY <1>3 DEF Drop, DisconnectAll, vars
  <2> QED  BY <1>0, <2>1 DEF Doing, Nesting, Shape, NoLooseChannel, Top
<1>4. CASE Look
  <2>1. op \in Ops /\ op # None /\ stack = <<>> /\ UNCHANGED <<op, channels>>
    BY <1>0, <1>4 DEF Look, Doing, TypeOK
  <2>2. CASE pc' = "stored" /\ UNCHANGED stack
    BY <1>0, <2>1, <2>2, NoCallNesting DEF Doing, NoLooseChannel
  <2>3. CASE pc' = "connecting" /\ stack' = <<CallFor(Norm[op.name])>>
    <3>1. CallFor(Norm[op.name]) \in Frames /\ CallFor(Norm[op.name]).at = "try" /\ ~CallFor(Norm[op.name]).sock
      BY <1>0, <2>1, NewCall, NormAssumption DEF Ops
    <3>2. Doing'
      BY <2>1, <2>3, <3>1, OneCall DEF Doing
    <3>3. Nesting' /\ Top' = CallFor(Norm[op.name])
      BY <2>3, <3>1, OneCallNesting DEF Shape
    <3> QED  BY <1>0, <2>1, <2>3, <3>1, <3>2, <3>3 DEF NoLooseChannel
  <2> QED  BY <1>4, <2>2, <2>3 DEF Look
<1>5. CASE Take
  <2>1. op \in Ops /\ stack = <<>> /\ UNCHANGED <<stack, channels>>
    BY <1>0, <1>5 DEF Take, Doing, TypeOK
  <2>2. [op EXCEPT !.again = TRUE] \in Ops
    BY <2>1 DEF Ops
  <2>3. (op' \in Ops /\ pc' = "lookup") \/ (op' = None /\ pc' = "idle")
    BY <1>5, <2>2 DEF Take
  <2> QED  BY <1>0, <2>1, <2>3, NoneAssumption, NoCallNesting DEF Doing, NoLooseChannel
<1>6. CASE GivesUp
  <2>1. op' = None /\ pc' = "idle" /\ stack' = <<>> /\ channels' = ClosingChannel /\ stack # <<>>
    BY <1>6 DEF GivesUp, Unwind
  <2>2. channels' = 0
    BY <1>0, <2>1 DEF ClosingChannel, NoLooseChannel
  <2> QED  BY <2>1, <2>2, NoCallNesting DEF Doing, NoLooseChannel
<1>7. ASSUME stack # <<>>, NEW p \in Password \cup {None}, NEW k \in 0..(Attempts + 1), Again(p, k)
      PROVE  (Doing /\ Nesting /\ NoLooseChannel)'
  <2>1. UNCHANGED <<op, pc>> /\ channels' = ClosingChannel
    BY <1>7 DEF Again
  <2>2. PICK f \in Frames : SetTop(f) /\ f.seek = Top.seek /\ f.at = "try" /\ ~f.sock
    BY <1>0, <1>7, AgainStack
  <2>3. Nesting' /\ Top' = f /\ stack' # <<>>
    BY <1>0, <1>7, <2>2, SetTopNesting DEF Shape
  <2>4. channels' = 0
    BY <1>0, <1>7, <2>1 DEF ClosingChannel, NoLooseChannel
  <2> QED  BY <1>0, <1>7, <2>1, <2>2, <2>3, <2>4 DEF Doing, NoLooseChannel
<1>8. CASE TriesAgain
  BY <1>0, <1>7, <1>8, TopSorts DEF TriesAgain
<1>9. CASE Asks
  <2>1. PICK p \in Password : Again(p, Top.failed)
    BY <1>9 DEF Asks, Typed
  <2>2. stack # <<>> /\ p \in Password /\ Top.failed \in 0..(Attempts + 1)
    BY <1>0, <1>9, <2>1, TopSorts DEF Asks
  <2> QED  BY <1>7, <2>1, <2>2
<1>10. CASE Opens
  <2>1. /\ stack # <<>> /\ SetTop([Top EXCEPT !.at = "dial", !.sock = TRUE]) /\ channels' = channels + 1
        /\ UNCHANGED <<op, pc>> /\ Top.at = "tunnel"
    BY <1>10 DEF Opens, Connecting
  <2>2. PICK f \in Frames : f = [Top EXCEPT !.at = "dial", !.sock = TRUE]
    BY <1>0, <2>1, TopFrame DEF Frames
  <2>3. f.seek = Top.seek /\ f.sock /\ f.at = "dial"
    BY <1>0, <2>1, <2>2, TopFrame DEF Frames
  <2>4. Nesting' /\ Top' = f /\ stack' # <<>>
    BY <1>0, <2>1, <2>2, <2>3, SetTopNesting DEF Shape
  <2>5. ~Top.sock
    BY <1>0, <2>1, TopFrame DEF Nesting, Shape
  <2> QED  BY <1>0, <2>1, <2>3, <2>4, <2>5 DEF Doing, NoLooseChannel
<1>11. CASE Try
  <2>1. stack # <<>> /\ UNCHANGED <<op, pc, channels>> /\ Top.at = "try"
    BY <1>11 DEF Try, Connecting
  <2>2. ~Top.sock
    BY <1>0, <2>1, TopFrame DEF Nesting, Shape
  <2>3. PICK f \in Frames :
           /\ f.seek = Top.seek /\ f.sock = Top.sock
           /\ \/ f.at = "dial" /\ SetTop(f)
              \/ /\ f.seek /\ Gateway # None /\ f.at = "tunnel"
                 /\ Len(stack) = 1
                 /\ stack' = <<f, GatewayCall>>
    BY <1>0, <1>11, TryStack
  <2>4. CASE f.at = "dial" /\ SetTop(f)
    <3>1. Nesting' /\ Top' = f /\ stack' # <<>>
      BY <1>0, <2>1, <2>3, <2>4, SetTopNesting DEF Shape
    <3> QED  BY <1>0, <2>1, <2>2, <2>3, <3>1 DEF Doing, NoLooseChannel
  <2>5. CASE f.seek /\ Gateway # None /\ f.at = "tunnel" /\ stack' = <<f, GatewayCall>>
    <3>1. GatewayCall \in Frames /\ GatewayCall.at = "try" /\ ~GatewayCall.sock /\ ~GatewayCall.seek
      BY <1>0, <2>5, GatewayFrame
    <3>2. /\ Len(stack') = 2 /\ DOMAIN stack' = {1, 2} /\ stack'[1] = f /\ stack'[2] = GatewayCall
          /\ stack' # <<>>
      BY <2>5, <3>1, TwoCalls
    <3>3. Nesting'
      BY <2>2, <2>3, <2>5, <3>1, <3>2 DEF Nesting, Shape
    <3>4. Top' = GatewayCall
      BY <3>2 DEF Top
    <3> QED  BY <1>0, <2>1, <2>2, <3>1, <3>2, <3>3, <3>4 DEF Doing, NoLooseChannel
  <2> QED  BY <2>3, <2>4, <2>5
<1>12. CASE Connected
  <2>1. stack # <<>> /\ UNCHANGED op /\ pc = "connecting" /\ channels' = channels - (IF Top.sock THEN 1 ELSE 0)
    BY <1>12 DEF Connected, Connecting
  <2>2. channels' = 0
    BY <1>0, <2>1 DEF NoLooseChannel
  <2>3. CASE Len(stack) = 1 /\ stack' = <<>> /\ pc' = "stored"
    BY <1>0, <2>1, <2>2, <2>3, NoCallNesting DEF Doing, NoLooseChannel
  <2>4. CASE Len(stack) = 2 /\ stack' = <<stack[1]>> /\ pc' = pc
    <3>1. stack[1] \in Frames /\ Shape(stack[1]) /\ ~stack[1].sock
      BY <1>0, <2>1, <2>4, TopFrame DEF Nesting, Shape
    <3>2. Nesting' /\ Top' = stack[1]
      BY <2>4, <3>1, OneCallNesting
    <3>3. stack' # <<>>
      BY <2>4, <3>1, OneCall
    <3> QED  BY <1>0, <2>1, <2>2, <2>4, <3>1, <3>2, <3>3 DEF Doing, NoLooseChannel
  <2> QED  BY <1>0, <1>12, <2>3, <2>4, ConnectedStack
<1>13. CASE Connect
  BY <1>0, <1>6, <1>8, <1>9, <1>10, <1>11, <1>12, <1>13, Ways
<1>14. CASE Next
  BY <1>1, <1>2, <1>3, <1>4, <1>5, <1>13, <1>14 DEF Next, Step
<1> QED  BY <1>3, <1>14

LEMMA BasicsHold == Spec => []Basics
<1>1. Basics /\ [Next]_vars => Basics'
  BY NextTypes, NextNesting DEF Basics
<1> QED  BY InitBasics, <1>1, PTL DEF Spec

\* Type correctness of HostConnectionCache and of connect() with its gateway.
THEOREM TypeCorrect == Spec => []TypeOK
BY BasicsHold, PTL DEF Basics

\* Whatever exception ends a try of connect(), the channel that was opened for
\* it through the gateway is closed, and no second one is opened meanwhile.
THEOREM ChannelsAreClosed == Spec => []NoLooseChannel
BY BasicsHold, PTL DEF Basics

-----------------------------------------------------------------------------
(* What a running call is for.                                             *)

\* Nothing runs, and the task is not about to read an entry.
LEMMA NoCallKeyed ==
  ASSUME stack' = <<>>, pc' # "stored"
  PROVE  Calls'
<1>1. Len(stack') = 0 /\ DOMAIN stack' = {}
  BY EmptySeq
<1> QED  BY <1>1 DEF Calls

LEMMA OneCallKeyed ==
  ASSUME NEW f \in Frames, stack' = <<f>>, pc' = "connecting",
         Keyed(f), f.slot = Entry', f.at = "tunnel" => cache'[GatewayKey] # None
  PROVE  Calls'
<1>1. Len(stack') = 1 /\ DOMAIN stack' = {1} /\ stack'[1] = f
  BY OneCall
<1>2. \A i \in DOMAIN stack' : Keyed(stack'[i])
  BY <1>1
<1> QED  BY <1>1, <1>2 DEF Calls, Keyed

LEMMA SetTopKeyed ==
  ASSUME Basics, Calls, stack # <<>>, NEW f \in Frames, SetTop(f), Keyed(f), f.slot = Top.slot,
         f.at # "tunnel", UNCHANGED <<cache, op, pc>>
  PROVE  Calls'
<1>1. /\ Len(stack) \in Nat /\ Len(stack) >= 1 /\ DOMAIN stack = 1..Len(stack) /\ Top = stack[Len(stack)]
      /\ Len(stack') = Len(stack) /\ DOMAIN stack' = DOMAIN stack /\ stack' # <<>>
      /\ \A i \in DOMAIN stack : stack'[i] = IF i = Len(stack) THEN f ELSE stack[i]
  BY TopFrame, SetTopStack DEF Basics
<1>2. \A i \in DOMAIN stack' : Keyed(stack'[i])
  BY <1>1 DEF Calls
<1>3. stack'[1].slot = stack[1].slot /\ (Len(stack) = 2 => stack'[2].slot = stack[2].slot)
  BY <1>1
<1>4. Len(stack') = 1 => stack'[1].at # "tunnel"
  BY <1>1
<1>5. pc' # "stored"
  BY DEF Basics, Doing
<1>6. Entry' = Entry
  BY DEF Entry
<1> QED  BY <1>1, <1>2, <1>3, <1>4, <1>5, <1>6 DEF Calls, Keyed

\* The entry of the gateway is a normal form.
LEMMA GatewayNormal ==
  ASSUME Idempotent, Gateway # None
  PROVE  GatewayKey \in Name /\ Norm[GatewayKey] = GatewayKey
BY GatewayAssumption, NormAssumption DEF Idempotent, GatewayKey

LEMMA TopKeyed ==
  ASSUME Basics, Calls, stack # <<>>
  PROVE  Keyed(Top) /\ Shape(Top) /\ Top \in Frames
<1>1. TypeOK
  BY DEF Basics
<1>2. Len(stack) \in DOMAIN stack /\ Top = stack[Len(stack)] /\ Top \in Frames
  BY <1>1, TopFrame
<1> QED  BY <1>2 DEF Calls, Basics, Nesting

LEMMA NextCalls ==
  ASSUME Idempotent, Basics, Calls, [Next]_vars
  PROVE  Calls'
<1>0. TypeOK /\ Doing /\ Nesting
  BY DEF Basics
<1>1. ASSUME NEW n \in Name, NEW k \in {"client", "session"}, Get(k, n) PROVE Calls'
  <2>1. pc' = "lookup" /\ stack' = <<>>
    BY <1>0, <1>1 DEF Get, Doing
  <2> QED  BY <2>1, NoCallKeyed
<1>2. ASSUME NEW n \in Name, ForceConnect(n) PROVE Calls'
  <2>1. op'.name = n /\ pc' = "connecting" /\ stack' = <<CallFor(n)>>
    BY <1>2 DEF ForceConnect
  <2>2. Entry' = Norm[n]
    BY <2>1 DEF Entry
  <2>3. Keyed(CallFor(n)) /\ CallFor(n).slot = Norm[n] /\ CallFor(n).at = "try" /\ CallFor(n) \in Frames
    BY <1>0, NewCall DEF Keyed, Idempotent
  <2> QED  BY <2>1, <2>2, <2>3, OneCallKeyed
<1>3. ASSUME NEW n \in Name, Drop(n) PROVE Calls'
  <2>1. cache[n] \in Clients /\ cache' = [cache EXCEPT ![n].up = FALSE]
        /\ UNCHANGED <<op, pc, stack>>
    BY <1>0, <1>3 DEF Drop, TypeOK
  <2>2. [cache[n] EXCEPT !.up = FALSE] \in Clients
    BY <2>1 DEF Clients
  <2>3. \A m \in Name : cache[m] # None => cache'[m] # None
    BY <1>0, <2>1, <2>2, NoneAssumption DEF TypeOK
  <2>4. pc = "stored" => Entry \in Name
    BY <1>0, NormAssumption DEF Doing, TypeOK, Entry, Ops
  <2>5. Len(stack) = 1 /\ stack[1].at = "tunnel" => GatewayKey \in Name
    <3>1. Len(stack) = 1 => 1 \in DOMAIN stack
      BY <1>0, LenProperties DEF TypeOK
    <3> QED  BY <1>0, <3>1, GatewayNormal DEF Nesting, Shape
  <2>6. Entry' = Entry
    BY <2>1 DEF Entry
  <2> QED  BY <2>1, <2>3, <2>4, <2>5, <2>6 DEF Calls, Keyed
<1>4. CASE DisconnectAll
  <2>1. pc' = "idle" /\ stack' = <<>>
    BY <1>0, <1>4 DEF DisconnectAll, Doing
  <2> QED  BY <2>1, NoCallKeyed
<1>5. CASE Look
  <2>1. op \in Ops /\ stack = <<>> /\ UNCHANGED <<op, cache>>
    BY <1>0, <1>5 DEF Look, Doing, TypeOK
  <2>2. op.name \in Name /\ Norm[op.name] \in Name /\ Entry' = Entry /\ Norm[Norm[op.name]] = Entry
        /\ Norm[Entry] = Entry
    BY <2>1, NormAssumption DEF Ops, Entry, Idempotent
  <2>3. CASE Cached(Norm[op.name]) /\ pc' = "stored" /\ UNCHANGED stack
    <3>1. cache'[Entry] # None
      BY <2>1, <2>2, <2>3 DEF Cached
    <3>2. Len(stack') = 0 /\ DOMAIN stack' = {} /\ stack' = <<>>
      BY <2>1, <2>3, EmptySeq
    <3> QED  BY <2>2, <3>1, <3>2 DEF Calls
  <2>4. CASE pc' = "connecting" /\ stack' = <<CallFor(Norm[op.name])>>
    <3>1. PICK n \in Name : n = Norm[op.name]
      BY <2>2
    <3>2. Norm[n] = Entry
      BY <2>2, <3>1
    <3>3. Keyed(CallFor(n)) /\ CallFor(n).slot = Entry /\ CallFor(n).at = "try" /\ CallFor(n) \in Frames
      BY <1>0, <2>2, <3>2, NewCall DEF Keyed
    <3> QED  BY <2>2, <2>4, <3>1, <3>3, OneCallKeyed
  <2> QED  BY <1>5, <2>3, <2>4 DEF Look
<1>6. CASE Take
  <2>1. pc' \in {"lookup", "idle"} /\ stack' = <<>>
    BY <1>0, <1>6 DEF Take, Doing
  <2> QED  BY <2>1, NoCallKeyed
<1>7. CASE GivesUp
  BY <1>7, NoCallKeyed DEF GivesUp, Unwind
<1>8. ASSUME stack # <<>>, NEW p \in Password \cup {None}, NEW k \in 0..(Attempts + 1), Again(p, k), UNCHANGED cache
      PROVE  Calls'
  <2>1. UNCHANGED <<cache, op, pc>>
    BY <1>8 DEF Again
  <2>2. PICK f \in Frames : /\ SetTop(f) /\ f.host = Top.host /\ f.slot = Top.slot /\ f.seek = Top.seek
                            /\ f.at = "try"
    BY <1>0, <1>8, AgainStack
  <2>3. Keyed(f)
    BY <1>8, <2>2, TopKeyed DEF Keyed
  <2> QED  BY <1>8, <2>1, <2>2, <2>3, SetTopKeyed
<1>9. CASE TriesAgain
  BY <1>0, <1>8, <1>9, TopSorts DEF TriesAgain
<1>10. CASE Asks
  <2>1. PICK p \in Password : Again(p, Top.failed) /\ UNCHANGED cache
    BY <1>10 DEF Asks, Typed
  <2>2. stack # <<>> /\ p \in Password /\ Top.failed \in 0..(Attempts + 1) /\ UNCHANGED cache
    BY <1>0, <1>10, <2>1, TopSorts DEF Asks
  <2> QED  BY <1>8, <2>1, <2>2
<1>11. CASE Opens
  <2>1. /\ stack # <<>> /\ SetTop([Top EXCEPT !.at = "dial", !.sock = TRUE])
        /\ UNCHANGED <<op, pc, cache>> /\ Top.at = "tunnel"
    BY <1>11 DEF Opens, Connecting
  <2>2. PICK f \in Frames : f = [Top EXCEPT !.at = "dial", !.sock = TRUE]
    BY <1>0, <2>1, TopFrame DEF Frames
  <2>3. f.seek = Top.seek /\ f.sock /\ f.at = "dial" /\ f.host = Top.host /\ f.slot = Top.slot
    BY <1>0, <2>1, <2>2, TopFrame DEF Frames
  <2>4. Keyed(f)
    BY <2>1, <2>3, TopKeyed DEF Keyed, Shape
  <2> QED  BY <2>1, <2>2, <2>3, <2>4, SetTopKeyed
<1>12. CASE Try
  <2>1. stack # <<>> /\ UNCHANGED <<op, pc, cache>> /\ Top.at = "try" /\ pc = "connecting"
    BY <1>12 DEF Try, Connecting
  <2>2. Keyed(Top) /\ ~Top.sock
    BY <2>1, TopKeyed DEF Shape
  <2>3. PICK f \in Frames :
           /\ f.host = Top.host /\ f.slot = Top.slot /\ f.seek = Top.seek /\ f.sock = Top.sock
           /\ \/ /\ ~(f.seek /\ Gateway # None) /\ f.at = "dial" /\ SetTop(f)
              \/ /\ f.seek /\ Gateway # None /\ f.at = "tunnel"
                 /\ Len(stack) = 1
                 /\ stack' = <<f, GatewayCall>>
    BY <1>0, <1>12, TryStack
  <2>4. Keyed(f)
    BY <2>2, <2>3 DEF Keyed
  <2>5. CASE f.at = "dial" /\ SetTop(f)
    BY <2>1, <2>3, <2>4, <2>5, SetTopKeyed
  <2>6. CASE Gateway # None /\ f.at = "tunnel" /\ Len(stack) = 1 /\ stack' = <<f, GatewayCall>>
    <3>1. GatewayKey \in Name /\ Norm[GatewayKey] = GatewayKey
      BY <2>6, GatewayNormal
    <3>2. GatewayCall \in Frames /\ GatewayCall.host = GatewayKey /\ GatewayCall.slot = GatewayKey
          /\ ~GatewayCall.seek /\ GatewayCall.at = "try"
      BY <1>0, <2>6, <3>1, GatewayFrame
    <3>3. Keyed(GatewayCall)
      BY <2>6, <3>1, <3>2 DEF Keyed
    <3>4. /\ Len(stack') = 2 /\ DOMAIN stack' = {1, 2} /\ stack'[1] = f /\ stack'[2] = GatewayCall
      BY <2>6, <3>2, TwoCalls
    <3>5. \A i \in DOMAIN stack' : Keyed(stack'[i])
      BY <2>4, <3>3, <3>4
    <3>6. stack'[1].slot = Entry'
      BY <2>1, <2>3, <2>6, <3>4 DEF Calls, Entry, Top
    <3> QED  BY <2>1, <3>2, <3>4, <3>5, <3>6 DEF Calls, Keyed
  <2> QED  BY <2>3, <2>5, <2>6
<1>13. CASE Connected
  <2>1. /\ stack # <<>> /\ UNCHANGED op /\ pc = "connecting"
        /\ cache' = [cache EXCEPT ![Top.slot] = [host |-> Top.host, tunnelled |-> Top.sock, up |-> TRUE]]
    BY <1>13 DEF Connected, Connecting
  <2>2. [host |-> Top.host, tunnelled |-> Top.sock, up |-> TRUE] \in Clients /\ Top.slot \in Name
    BY <1>0, <2>1, TopSorts DEF Clients
  <2>3. cache'[Top.slot] # None
    BY <1>0, <2>1, <2>2, NoneAssumption DEF TypeOK
  <2>4. Entry' = Entry
    BY <2>1 DEF Entry
  <2>5. CASE Len(stack) = 1 /\ stack' = <<>> /\ pc' = "stored"
    <3>1. Top.slot = Entry
      BY <2>1, <2>5 DEF Calls, Top
    <3>2. Len(stack') = 0 /\ DOMAIN stack' = {}
      BY <2>5, EmptySeq
    <3> QED  BY <2>3, <2>4, <2>5, <3>1, <3>2 DEF Calls
  <2>6. CASE Len(stack) = 2 /\ stack' = <<stack[1]>> /\ pc' = pc
    <3>1. stack[1] \in Frames /\ 1 \in DOMAIN stack
      BY <1>0, <2>1, <2>6, TopFrame
    <3>2. Top.slot = GatewayKey
      BY <2>6 DEF Calls, Top
    <3>3. Keyed(stack[1]) /\ stack[1].slot = Entry'
      BY <2>1, <2>4, <3>1 DEF Calls
    <3> QED  BY <2>1, <2>3, <2>6, <3>1, <3>2, <3>3, OneCallKeyed
  <2> QED  BY <1>0, <1>13, <2>5, <2>6, ConnectedStack
<1>14. CASE UNCHANGED vars
  BY <1>14 DEF vars, Calls, Keyed, Entry
<1>15. CASE Connect
  BY <1>0, <1>7, <1>9, <1>10, <1>11, <1>12, <1>13, <1>15, Ways
<1>16. CASE Next
  BY <1>1, <1>2, <1>3, <1>4, <1>5, <1>6, <1>15, <1>16 DEF Next, Step
<1> QED  BY <1>14, <1>16

-----------------------------------------------------------------------------
(* What the cache holds, and what the user is asked.                       *)

Truthful(n) ==
  cache[n] # None =>
    /\ cache[n].host = n /\ Norm[n] = n
    /\ cache[n].tunnelled <=> Gateway # None /\ n # GatewayKey

LEMMA NextTruth ==
  ASSUME Idempotent, Basics, Basics', Calls, CacheIsTruthful, [Next]_vars
  PROVE  CacheIsTruthful'
<1>0. TypeOK /\ Doing /\ Nesting /\ \A n \in Name : Truthful(n)
  BY DEF Basics, CacheIsTruthful, Truthful
<1>1. SUFFICES (\A n \in Name : Truthful(n)') /\ outcome' # "keyError"
  BY DEF CacheIsTruthful, Truthful, Basics, Nesting
<1>2. ASSUME NEW n \in Name, Drop(n) PROVE (\A m \in Name : Truthful(m)') /\ outcome' # "keyError"
  <2>1. cache[n] \in Clients /\ cache' = [cache EXCEPT ![n].up = FALSE] /\ outcome' = outcome
    BY <1>0, <1>2 DEF Drop, TypeOK
  <2>2. cache'[n].host = cache[n].host /\ cache'[n].tunnelled = cache[n].tunnelled
    BY <1>0, <2>1 DEF Clients, TypeOK
  <2>3. \A m \in Name : m # n => cache'[m] = cache[m]
    BY <1>0, <2>1 DEF TypeOK
  <2> QED  BY <1>0, <1>2, <2>1, <2>2, <2>3 DEF Truthful, CacheIsTruthful, Drop
<1>3. CASE DisconnectAll
  BY <1>0, <1>3 DEF DisconnectAll, Truthful, CacheIsTruthful
<1>4. CASE Take
  <2>1. op \in Ops /\ pc = "stored"
    BY <1>0, <1>4 DEF Take, Doing, TypeOK
  <2>2. cache[Entry] # None
    BY <2>1 DEF Calls
  <2>3. cache' = cache \/ cache' = [cache EXCEPT ![Entry] = None]
    BY <1>4 DEF Take
  <2>4. \A n \in Name : cache'[n] = cache[n] \/ cache'[n] = None
    BY <1>0, <2>3 DEF TypeOK
  <2>5. outcome' # "keyError"
    BY <1>4, <2>2 DEF Take, CacheIsTruthful
  <2> QED  BY <1>0, <2>4, <2>5 DEF Truthful
<1>5. CASE Connected
  <2>1. /\ stack # <<>> /\ outcome' = outcome /\ Top.at = "dial"
        /\ cache' = [cache EXCEPT ![Top.slot] = [host |-> Top.host, tunnelled |-> Top.sock, up |-> TRUE]]
    BY <1>5 DEF Connected, Connecting
  <2>2. Keyed(Top) /\ Top.slot \in Name
    BY <1>0, <2>1, TopKeyed, TopSorts
  <2>3. \A n \in Name : n # Top.slot => cache'[n] = cache[n]
    BY <1>0, <2>1 DEF TypeOK
  <2>4. cache'[Top.slot] = [host |-> Top.host, tunnelled |-> Top.sock, up |-> TRUE]
    BY <1>0, <2>1, <2>2 DEF TypeOK
  <2>5. /\ cache'[Top.slot].host = Top.slot /\ Norm[Top.slot] = Top.slot
        /\ cache'[Top.slot].tunnelled <=> Gateway # None /\ Top.slot # GatewayKey
    BY <2>1, <2>2, <2>4 DEF Keyed
  <2> QED  BY <1>0, <2>1, <2>3, <2>5 DEF Truthful, CacheIsTruthful
<1>6. CASE GivesUp
  <2>1. PICK r \in Results : /\ outcome' = r /\ UNCHANGED cache
                             /\ r = "keyError" => Connecting("tunnel") /\ cache[GatewayKey] = None
    BY <1>6 DEF GivesUp, Unwind
  <2>2. ASSUME Connecting("tunnel") PROVE cache[GatewayKey] # None
    <3>1. stack # <<>> /\ Top.at = "tunnel"
      BY <2>2 DEF Connecting
    <3>2. Len(stack) \in {1, 2} /\ DOMAIN stack = 1..Len(stack) /\ Top = stack[Len(stack)]
      BY <1>0, <3>1, TopFrame DEF Nesting
    <3>3. Len(stack) # 2
      BY <1>0, <3>1, <3>2 DEF Nesting, Shape
    <3> QED  BY <3>1, <3>2, <3>3 DEF Calls
  <2> QED  BY <1>0, <2>1, <2>2 DEF Truthful
<1>7. CASE UNCHANGED <<cache, outcome>>
  BY <1>0, <1>7 DEF Truthful, CacheIsTruthful
<1>8. CASE TriesAgain \/ Asks \/ Opens \/ Try \/ Look \/ UNCHANGED vars
  BY <1>7, <1>8 DEF TriesAgain, Asks, Typed, Again, Opens, Try, Look, vars
<1>9. ASSUME NEW n \in Name, NEW k \in {"client", "session"}, Get(k, n) \/ ForceConnect(n)
      PROVE (\A m \in Name : Truthful(m)') /\ outcome' # "keyError"
  BY <1>7, <1>9 DEF Get, ForceConnect
<1>10. CASE Connect
  BY <1>0, <1>5, <1>6, <1>8, <1>10, Ways
<1>11. CASE Next
  BY <1>2, <1>3, <1>4, <1>8, <1>9, <1>10, <1>11 DEF Next, Step
<1> QED  BY <1>8, <1>11

\* A password that is remembered for a host is the one it is dialled with.
LEMMA AskedStays ==
  ASSUME TypeOK, Asked, UNCHANGED <<prompts, passwords, password>>,
         \A j \in DOMAIN stack' :
           \/ stack'[j].password = Remembered(stack'[j].host)
           \/ \E i \in DOMAIN stack : /\ stack'[j].host = stack[i].host
                                      /\ stack'[j].password = stack[i].password
                                      /\ stack'[j].seek = stack[i].seek
  PROVE  Asked'
<1>1. ASSUME NEW n \in Name, prompts[n] = "right" PROVE Right(n)'
  <2>1. /\ passwords[n] \in Accepts[n] \ {None}
        /\ \A i \in DOMAIN stack : stack[i].host = n => stack[i].password \in Accepts[n] \ {None}
    BY <1>1 DEF Asked, Right
  <2>2. Remembered(n) = passwords[n]
    BY <2>1 DEF Remembered
  <2> QED  BY <2>1, <2>2 DEF Right
<1>2. ASSUME NEW j \in DOMAIN stack' PROVE Held(stack[j])'
  <2>1. CASE stack'[j].password = Remembered(stack'[j].host)
    BY <2>1 DEF Held, Remembered
  <2>2. ASSUME NEW i \in DOMAIN stack, stack'[j].host = stack[i].host, stack'[j].password = stack[i].password,
               stack'[j].seek = stack[i].seek
        PROVE  Held(stack[j])'
    BY <2>2 DEF Asked, Held, Remembered, Stale
  <2> QED  BY <1>2, <2>1, <2>2
<1> QED  BY <1>1, <1>2 DEF Asked

LEMMA NextAsked ==
  ASSUME Idempotent, Basics, Calls, Asked, [Next]_vars
  PROVE  Asked'
<1>0. TypeOK /\ Doing /\ Nesting
  BY DEF Basics
<1>1. CASE stack' = <<>> /\ UNCHANGED <<prompts, passwords, password>>
  <2>1. DOMAIN stack' = {}
    BY <1>1, EmptySeq
  <2> QED  BY <1>0, <1>1, <2>1, AskedStays
<1>2. CASE UNCHANGED <<stack, prompts, passwords, password>>
  BY <1>0, <1>2, AskedStays
<1>3. ASSUME NEW n \in Name, stack' = <<CallFor(n)>>, UNCHANGED <<prompts, passwords, password>> PROVE Asked'
  <2>1. CallFor(n) \in Frames /\ CallFor(n).password = Remembered(CallFor(n).host)
    BY <1>0, NewCall
  <2>2. DOMAIN stack' = {1} /\ stack'[1] = CallFor(n)
    BY <1>3, <2>1, OneCall
  <2> QED  BY <1>0, <1>3, <2>1, <2>2, AskedStays
<1>4. ASSUME NEW f \in Frames, stack # <<>>, SetTop(f), f.host = Top.host, f.password = Top.password,
             f.seek = Top.seek, UNCHANGED <<prompts, passwords, password>>
      PROVE  Asked'
  <2>1. Len(stack) \in DOMAIN stack /\ Top = stack[Len(stack)]
    BY <1>0, <1>4, TopFrame
  <2>2. DOMAIN stack' = DOMAIN stack /\ \A i \in DOMAIN stack : stack'[i] = IF i = Len(stack) THEN f ELSE stack[i]
    BY <1>0, <1>4, SetTopStack
  <2>3. \A j \in DOMAIN stack' : /\ stack'[j].host = stack[j].host /\ stack'[j].password = stack[j].password
                                /\ stack'[j].seek = stack[j].seek
    BY <1>4, <2>1, <2>2
  <2> QED  BY <1>0, <1>4, <2>2, <2>3, AskedStays
<1>5. CASE Look
  <2>1. op \in Ops
    BY <1>0, <1>5 DEF Look, Doing, TypeOK
  <2>2. Norm[op.name] \in Name
    BY <2>1, NormAssumption DEF Ops
  <2> QED  BY <1>2, <1>3, <1>5, <2>2 DEF Look
<1>6. CASE GivesUp
  BY <1>1, <1>6 DEF GivesUp, Unwind
<1>7. CASE TriesAgain
  <2>1. PICK k \in 0..(Attempts + 1) : Again(Top.password, k) /\ stack # <<>> /\ UNCHANGED <<prompts, passwords, password>>
    BY <1>7 DEF TriesAgain
  <2>2. \E f \in Frames : SetTop(f) /\ f.host = Top.host /\ f.password = Top.password /\ f.seek = Top.seek
    BY <1>0, <2>1, TopSorts, AgainStack
  <2> QED  BY <1>4, <2>1, <2>2
<1>8. CASE Asks
  <2>1. PICK p \in Password : Typed(p) /\ Remember(p) /\ Again(p, Top.failed) /\ password' = p
    BY <1>8 DEF Asks, Typed
  <2>2. /\ stack # <<>> /\ p \in Password /\ p # None /\ Top.failed \in 0..(Attempts + 1)
        /\ Top.host \in Name
    BY <1>0, <1>8, <2>1, TopSorts DEF Asks
  <2>3. /\ Top.password \notin Accepts[Top.host] \/ Top.password = None
        /\ prompts' = [prompts EXCEPT ![Top.host] =
                         IF @ \in {"right", "again"} THEN "again"
                         ELSE IF p \in Accepts[Top.host] THEN "right" ELSE "wrong"]
        /\ passwords' = [passwords EXCEPT ![Top.host] = p]
    BY <1>8, <2>1 DEF Asks, Typed, Remember
  <2>4. PICK f \in Frames : SetTop(f) /\ f.host = Top.host /\ f.password = p
    BY <1>0, <2>1, <2>2, AgainStack
  <2>5. /\ Len(stack) \in {1, 2} /\ DOMAIN stack = 1..Len(stack) /\ Top = stack[Len(stack)]
        /\ DOMAIN stack' = DOMAIN stack
        /\ \A i \in DOMAIN stack : stack'[i] = IF i = Len(stack) THEN f ELSE stack[i]
    BY <1>0, <2>2, <2>4, TopFrame, SetTopStack DEF Nesting
  <2>6. \A i \in DOMAIN stack : stack[i].host = Top.host => i = Len(stack)
    <3>1. Len(stack) = 2 => stack[1].host # stack[2].host
      BY <1>0, <2>5 DEF Nesting, Shape, Calls, Keyed
    <3> QED  BY <2>5, <3>1
  <2>7. ASSUME NEW n \in Name PROVE prompts'[n] # "again" /\ (prompts'[n] = "right" => Right(n)')
    <3>1. CASE n = Top.host
      <4>1. prompts[n] \notin {"right", "again"}
        <5>1. Len(stack) \in DOMAIN stack /\ stack[Len(stack)].host = n
          BY <2>5, <3>1
        <5> QED  BY <2>3, <2>5, <3>1, <5>1 DEF Asked, Right
      <4>2. prompts'[n] = (IF p \in Accepts[n] THEN "right" ELSE "wrong") /\ passwords'[n] = p
        BY <1>0, <2>3, <3>1, <4>1 DEF TypeOK
      <4>3. \A j \in DOMAIN stack' : stack'[j].host = n => stack'[j].password = p
        BY <2>4, <2>5, <2>6, <3>1
      <4> QED  BY <2>2, <4>2, <4>3 DEF Right
    <3>2. CASE n # Top.host
      <4>1. prompts'[n] = prompts[n] /\ passwords'[n] = passwords[n]
        BY <1>0, <2>3, <3>2 DEF TypeOK
      <4>2. prompts[n] # "again" /\ (prompts[n] = "right" => Right(n))
        BY DEF Asked
      <4>3. \A j \in DOMAIN stack' : stack'[j].host = n => stack'[j] = stack[j]
        BY <2>4, <2>5, <3>2
      <4> QED  BY <2>5, <4>1, <4>2, <4>3 DEF Right
    <3> QED  BY <3>1, <3>2
  <2>8. ASSUME NEW j \in DOMAIN stack' PROVE Held(stack[j])'
    <3>1. CASE j = Len(stack)
      <4>1. stack'[j].password = p /\ stack'[j].host = Top.host /\ passwords'[Top.host] = p
        BY <1>0, <2>2, <2>3, <2>4, <2>5, <3>1 DEF TypeOK
      <4> QED  BY <2>2, <4>1 DEF Held, Remembered
    <3>2. CASE j # Len(stack)
      <4>1. j = 1 /\ Len(stack) = 2 /\ stack'[1] = stack[1] /\ stack[1].host # Top.host /\ 1 \in DOMAIN stack
        BY <2>5, <2>6, <3>2
      <4>2. passwords'[stack[1].host] = passwords[stack[1].host]
        BY <1>0, <2>3, <4>1 DEF TypeOK
      <4>3. stack[1].seek /\ Gateway # None
        BY <1>0, <4>1 DEF Nesting, Shape
      <4>4. Held(stack[1])
        BY <4>1 DEF Asked
      <4> QED  BY <4>1, <4>2, <4>3, <4>4 DEF Held, Remembered, Stale
    <3> QED  BY <3>1, <3>2
  <2> QED  BY <2>7, <2>8 DEF Asked
<1>9. CASE Opens
  <2>1. stack # <<>> /\ SetTop([Top EXCEPT !.at = "dial", !.sock = TRUE]) /\ UNCHANGED <<prompts, passwords, password>>
    BY <1>9 DEF Opens, Connecting
  <2>2. PICK f \in Frames : f = [Top EXCEPT !.at = "dial", !.sock = TRUE]
    BY <1>0, <2>1, TopFrame DEF Frames
  <2>3. f.host = Top.host /\ f.password = Top.password /\ f.seek = Top.seek
    BY <1>0, <2>1, <2>2, TopFrame DEF Frames
  <2> QED  BY <1>4, <2>1, <2>2, <2>3
<1>10. CASE Try
  <2>1. stack # <<>> /\ UNCHANGED <<prompts, passwords, password>>
    BY <1>10 DEF Try, Connecting
  <2>2. PICK f \in Frames :
           /\ f.host = Top.host /\ f.password = Top.password /\ f.seek = Top.seek
           /\ \/ SetTop(f)
              \/ /\ Gateway # None
                 /\ Len(stack) = 1
                 /\ stack' = <<f, GatewayCall>>
    BY <1>0, <1>10, TryStack
  <2>3. CASE SetTop(f)
    BY <1>4, <2>1, <2>2, <2>3
  <2>4. CASE Gateway # None /\ Len(stack) = 1 /\ stack' = <<f, GatewayCall>>
    <3>1. GatewayCall \in Frames /\ GatewayCall.password = Remembered(GatewayCall.host)
      BY <1>0, <2>4, GatewayFrame
    <3>2. /\ DOMAIN stack' = {1, 2} /\ stack'[1] = f /\ stack'[2] = GatewayCall
      BY <2>4, <3>1, TwoCalls
    <3>3. 1 \in DOMAIN stack /\ Top = stack[1]
      BY <1>0, <2>1, <2>4, TopFrame
    <3> QED  BY <1>0, <2>1, <2>2, <3>1, <3>2, <3>3, AskedStays
  <2> QED  BY <2>2, <2>3, <2>4
<1>11. CASE Connected
  <2>1. stack # <<>> /\ UNCHANGED <<prompts, passwords, password>>
    BY <1>11 DEF Connected, Connecting
  <2>2. CASE stack' = <<>>
    BY <1>1, <2>1, <2>2
  <2>3. CASE Len(stack) = 2 /\ stack' = <<stack[1]>>
    <3>1. 1 \in DOMAIN stack /\ stack[1] \in Frames
      BY <1>0, <2>1, <2>3, TopFrame
    <3>2. DOMAIN stack' = {1} /\ stack'[1] = stack[1]
      BY <2>3, <3>1, OneCall
    <3> QED  BY <1>0, <2>1, <3>1, <3>2, AskedStays
  <2> QED  BY <1>0, <1>11, <2>2, <2>3, ConnectedStack
<1>12. CASE UNCHANGED vars \/ (\E n \in Name : Drop(n)) \/ DisconnectAll \/ Take
  BY <1>2, <1>12 DEF vars, Drop, DisconnectAll, Take
<1>13. ASSUME NEW n \in Name, NEW k \in {"client", "session"}, Get(k, n) \/ ForceConnect(n) PROVE Asked'
  BY <1>2, <1>3, <1>13 DEF Get, ForceConnect
<1>14. CASE Connect
  BY <1>0, <1>6, <1>7, <1>8, <1>9, <1>10, <1>11, <1>14, Ways
<1>15. CASE Next
  BY <1>5, <1>12, <1>13, <1>14, <1>15 DEF Next, Step
<1> QED  BY <1>12, <1>15

LEMMA InitInvariant == Init => IInv
<1> SUFFICES ASSUME Init PROVE IInv
  OBVIOUS
<1>1. Len(<<>>) = 0 /\ DOMAIN <<>> = {}
  BY EmptySeq
<1>2. Calls /\ CacheIsTruthful
  BY <1>1 DEF Init, Calls, CacheIsTruthful
<1>3. Asked
  BY <1>1 DEF Init, Asked
<1> QED  BY <1>2, <1>3, InitBasics DEF IInv

LEMMA Invariant ==
  ASSUME Idempotent
  PROVE  Spec => []IInv
<1>1. Basics /\ [Next]_vars => Basics'
  BY NextTypes, NextNesting DEF Basics
<1>2. IInv /\ [Next]_vars => IInv'
  BY <1>1, NextCalls, NextTruth, NextAsked DEF IInv
<1> QED  BY <1>2, InitInvariant, PTL DEF Spec

\* However connections fail and are made anew, every client in the cache leads
\* to the host it is looked up by, through the gateway where there is one and
\* it is not the host itself, and neither connections[name] nor the channel
\* through the gateway ever finds its key missing.
THEOREM CacheTellsTheTruth ==
  ASSUME Idempotent
  PROVE  Spec => []CacheIsTruthful
BY Invariant, PTL DEF IInv

\* Whatever users type at prompts that name the host of the task and may mean its
\* gateway: once the right password of a host has been typed, it is never asked for
\* again, and a call tries what is remembered before it asks, but for a default
\* that was typed for the gateway meanwhile.
THEOREM AskedOnce ==
  ASSUME Idempotent
  PROVE  Spec => []PromptedOnce
<1>1. IInv => PromptedOnce
  BY DEF IInv, Asked, Held, PromptedOnce
<1> QED  BY <1>1, Invariant, PTL
=============================================================================
