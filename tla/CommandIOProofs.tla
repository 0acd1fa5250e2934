--------------------------- MODULE CommandIOProofs ---------------------------
(***************************************************************************)
(* Theorems about CommandIO for any passwords, any calls, any number of    *)
(* writes and of tries, however the output is cut into reads and whatever  *)
(* the user, the server and the threads do meanwhile.                      *)
(***************************************************************************)
EXTENDS CommandIO, SequenceTheorems, FiniteSetTheorems, WellFoundedInduction, TLAPS

-----------------------------------------------------------------------------
(* The inductive invariant.                                                *)

\* Which worker is where, and when the main thread has joined it.
ThreadPart ==
  /\ \A s \in Stream :
       /\ thread[s] \in {"read", "fragments", "asking", "done", "failed"}
       /\ thread[s] = "fragments" => todo[s] # <<>>
       /\ thread[s] \in {"read", "done"} => todo[s] = <<>>
       /\ thread[s] = "done" => flow[s] = "ended" /\ wire[s] = <<>> /\ raw[s] = <<>>
  /\ thread["in"] \in {"check", "key", "send", "done", "failed"}
  /\ pc \in {"join", "returned", "aborted"} => status # None
  /\ pc \in {"returned", "aborted"} => joined = Len(Workers)
  /\ pc # "raised" => \A i \in 1..joined : thread[Workers[i]] = "done"

\* sudo ends the line of a prompt, and before a second one it says that the password
\* was wrong; it is the only one to do so, and on one stream.
Grammar(w) ==
  /\ \A i \in 1..Len(w) : w[i] = "prompt" /\ i < Len(w) => w[i + 1] = "nl"
  /\ \A i \in 1..Len(w) : w[i] = "prompt" /\ i # 1 => i > 2 /\ w[i - 1] = "nl" /\ w[i - 2] = "again"

SudoPart ==
  /\ options.sudo \in BOOLEAN
  /\ \A s \in Stream : Grammar(written[s])
  /\ \A s \in Stream : \A i \in 1..Len(written[s]) : written[s][i] = "prompt" => s = SudoStream
  /\ LET w == written[SudoStream] IN
       /\ w # <<>> /\ w[Len(w)] = "prompt" => phase = "sudo" /\ waiting
       /\ phase = "sudo" /\ ~waiting /\ Running /\ w # <<>> =>
            Len(w) > 1 /\ w[Len(w)] = "nl" /\ w[Len(w) - 1] = "again"

\* What a stream has written is what was handled, the fragments still to be handled,
\* the bytes that do not decode yet, and what is on the wire: cut[k] is the place in
\* it of the end of the k-th of these fragments.
Piece(q, w, from, to) ==
  /\ to = from + Len(q)
  /\ \A i \in 1..Len(q) : q[i] = w[from + i]
  /\ \A i \in 1..Len(q) : q[i] = "nl" => Len(q) = 1
Follows(cut, w, frags, bytes, rest) ==
  LET n == Len(frags) IN
  /\ cut \in [0..n -> 0..Len(w)]
  /\ \A k \in 1..n : Piece(frags[k], w, cut[k - 1], cut[k])
  /\ cut[n] + Len(bytes) + Len(rest) = Len(w)
  /\ \A i \in 1..Len(bytes) : bytes[i] = w[cut[n] + i]
  /\ \A i \in 1..Len(rest) : rest[i] = w[cut[n] + Len(bytes) + i]

\* What is known of a capture when the first h marks of its stream were handled: no
\* prompt stays in it, a notice that it ends with has just come, and without a notice
\* it is what _execute will return.
NoticeIn(w, h) == \E j \in 1..h : w[j] = "again"
Caught(h, w, captured, own_s, buf_s, asks_again) ==
  /\ \A i \in 1..Len(captured) : captured[i] # "prompt"
  /\ \A i \in 1..Len(captured) : captured[i] = "again" => NoticeIn(w, h)
  /\ h > 0 /\ w[h] = "again" => captured # <<>> /\ captured[Len(captured)] = "again"
  /\ h > 1 /\ w[h] = "nl" /\ w[h - 1] = "again" => asks_again
  /\ ~NoticeIn(w, h) => own_s = None /\ buf_s = Visible(w)[h]

\* The passwords that were sent, and the one that is being typed, answer a prompt each.
PromptsIn(w, h) == {i \in 1..h : w[i] = "prompt"}
Answered(h, w, place, n) ==
  /\ place = "asking" => h > 0 /\ w[h] = "prompt"
  /\ n + (IF place = "asking" THEN 1 ELSE 0) <= Cardinality(PromptsIn(w, h))

StreamAt(s) ==
  \E cut :
    /\ Follows(cut, written[s], todo[s], raw[s], wire[s])
    /\ Caught(cut[0], written[s], Captured(s), own[s], buf[s], reprompt[s])
    /\ Answered(cut[0], written[s], thread[s], IF s = SudoStream THEN sent ELSE 0)
StreamPart == \A s \in Stream : StreamAt(s)

HistoryPart ==
  /\ written \in [Stream -> Seq(Mark)]
  /\ sent \in Nat /\ asked \in Nat /\ sent - asked <= 1

IInv == TypeOK /\ ThreadPart /\ SudoPart /\ StreamPart /\ HistoryPart

-----------------------------------------------------------------------------
(* Functions that are defined by recursion over a natural number.          *)

LEMMA LeastNatural ==
  ASSUME NEW T \in SUBSET Nat, T # {}
  PROVE  \E m \in T : \A k \in T : ~(k < m)
<1>1. PICK m \in T : \A k \in T : <<k, m>> \notin OpToRel(<, Nat)
  BY WFMin, NatLessThanWellFounded, Zenon
<1> QED  BY <1>1, Zenon DEF OpToRel

LEMMA SetInduction ==
  ASSUME NEW T, 0 \in T, \A n \in Nat : n \in T => n + 1 \in T
  PROVE  Nat \subseteq T
<1> SUFFICES ASSUME NEW x \in Nat, x \notin T PROVE FALSE
  OBVIOUS
<1>1. PICK m \in {n \in Nat : n \notin T} : \A k \in {n \in Nat : n \notin T} : ~(k < m)
  BY LeastNatural
<1>2. m # 0 /\ m - 1 \in Nat /\ m - 1 < m
  BY <1>1
<1>3. m - 1 \in T
  BY <1>1, <1>2
<1> QED  BY <1>1, <1>2, <1>3

\* There is a function that takes one step after the other.
LEMMA StepByStep ==
  ASSUME NEW S, NEW base \in S, NEW L \in Nat, NEW step \in [1..L -> [S -> S]]
  PROVE  \E f \in [0..L -> S] : f[0] = base /\ \A n \in 1..L : f[n] = step[n][f[n - 1]]
<1> DEFINE UpTo(m, f) == f[0] = base /\ \A n \in 1..m : f[n] = step[n][f[n - 1]]
           There(m) == \E f \in [0..m -> S] : UpTo(m, f)
           T == {m \in Nat : m <= L => There(m)}
<1>1. There(0)
  <2>1. [n \in 0..0 |-> base] \in [0..0 -> S]
    OBVIOUS
  <2>2. UpTo(0, [n \in 0..0 |-> base])
    OBVIOUS
  <2> HIDE DEF UpTo
  <2> QED  BY <2>1, <2>2
<1>2. ASSUME NEW m \in Nat, There(m), m + 1 <= L PROVE There(m + 1)
  <2>1. PICK f \in [0..m -> S] : UpTo(m, f)
    BY <1>2
  <2>2. m \in 0..m /\ m + 1 \in 1..L
    BY <1>2
  <2>3. step[m + 1][f[m]] \in S
    BY <2>2
  <2> DEFINE g == [n \in 0..(m + 1) |-> IF n = m + 1 THEN step[m + 1][f[m]] ELSE f[n]]
  <2>4. g \in [0..(m + 1) -> S]
    BY <2>3
  <2>5. g[m + 1] = step[m + 1][f[m]] /\ \A n \in 0..m : g[n] = f[n]
    OBVIOUS
  <2> HIDE DEF g
  <2>6. ASSUME NEW n \in 1..(m + 1) PROVE g[n] = step[n][g[n - 1]]
    <3>1. n - 1 \in 0..m /\ (n \in 1..m \/ n = m + 1) /\ (m + 1) - 1 = m
      OBVIOUS
    <3> QED  BY <2>1, <2>5, <3>1
  <2>7. UpTo(m + 1, g)
    BY <2>1, <2>5, <2>6
  <2> QED  BY <2>4, <2>7
<1>3. There(L)
  <2> HIDE DEF There
  <2>1. 0 \in T
    BY <1>1
  <2>2. ASSUME NEW m \in Nat, m \in T PROVE m + 1 \in T
    BY <1>2, <2>2
  <2>3. Nat \subseteq T
    <3> HIDE DEF T
    <3> QED  BY <2>1, <2>2, SetInduction
  <2> QED  BY <2>3
<1> QED  BY <1>3

-----------------------------------------------------------------------------
(* Sequences of marks.                                                     *)

LEMMA SeqFacts ==
  ASSUME NEW S, NEW s \in Seq(S)
  PROVE  Len(s) \in Nat /\ DOMAIN s = 1..Len(s) /\ s \in [1..Len(s) -> S]
BY LenProperties

LEMMA JoinFacts ==
  ASSUME NEW S, NEW s \in Seq(S), NEW t \in Seq(S)
  PROVE  /\ s \o t \in Seq(S) /\ Len(s \o t) = Len(s) + Len(t)
         /\ \A i \in 1..Len(s) : (s \o t)[i] = s[i]
         /\ \A i \in 1..Len(t) : (s \o t)[Len(s) + i] = t[i]
BY ConcatProperties, LenProperties

LEMMA FrontFacts ==
  ASSUME NEW S, NEW s \in Seq(S), Len(s) > 0
  PROVE  /\ Front(s) \in Seq(S) /\ Len(Front(s)) = Len(s) - 1
         /\ \A i \in 1..Len(Front(s)) : Front(s)[i] = s[i]
<1>1. Len(s) \in Nat /\ 1 \in 1..(Len(s) + 1) /\ Len(s) - 1 \in 0..Len(s)
  BY SeqFacts
<1>2. \A i \in 1..(Len(s) - 1) : i \in 1..Len(s)
  BY <1>1
<1> DEFINE n == Len(s) - 1
<1>3. SubSeq(s, 1, n) = [i \in 1..n |-> s[i]]
  BY <1>1
<1>4. n \in Nat /\ [i \in 1..n |-> s[i]] \in [1..n -> S]
  <2>1. n \in Nat
    BY <1>1
  <2>2. \A i \in 1..n : s[i] \in S
    BY <1>2, SeqFacts
  <2> QED  BY <2>1, <2>2
<1> HIDE DEF n
<1>5. PICK f \in [1..n -> S] : f = SubSeq(s, 1, n) /\ \A i \in 1..n : f[i] = s[i]
  BY <1>3, <1>4
<1>6. f \in Seq(S)
  BY <1>4, <1>5, SeqDef
<1>7. Len(f) = n
  BY <1>4, <1>5, <1>6, SeqFacts
<1> QED  BY <1>5, <1>6, <1>7 DEF Front, n

LEMMA ReverseFacts ==
  ASSUME NEW S, NEW s \in Seq(S)
  PROVE  /\ Reverse(s) \in Seq(S) /\ Len(Reverse(s)) = Len(s)
         /\ \A i \in 1..Len(s) : Reverse(s)[i] = s[(Len(s) - i) + 1]
<1>1. Reverse(s) \in [1..Len(s) -> S]
  BY SeqFacts DEF Reverse
<1>2. Reverse(s) \in Seq(S)
  BY <1>1, SeqFacts, SeqDef
<1>3. Len(Reverse(s)) = Len(s)
  BY <1>1, <1>2, SeqFacts
<1> QED  BY <1>2, <1>3 DEF Reverse

LEMMA SuffixFacts ==
  ASSUME NEW S, NEW s \in Seq(S), NEW t \in Seq(S)
  PROVE  IsSuffix(s, t) <=>
           /\ Len(s) <= Len(t)
           /\ \A i \in 1..Len(s) : Reverse(s)[i] = Reverse(t)[i]
<1>1. /\ Reverse(s) \in Seq(S) /\ Len(Reverse(s)) = Len(s)
      /\ Reverse(t) \in Seq(S) /\ Len(Reverse(t)) = Len(t)
      /\ Len(s) \in Nat /\ Len(t) \in Nat
  BY ReverseFacts, SeqFacts
<1> DEFINE r == Reverse(s)
           q == Reverse(t)
<1> HIDE DEF r, q
<1>2. SubSeq(r, 1, Len(s)) = [i \in 1..Len(s) |-> r[i]]
  BY <1>1 DEF r
<1>3. Len(s) <= Len(t) => SubSeq(q, 1, Len(s)) = [i \in 1..Len(s) |-> q[i]]
  BY <1>1 DEF q
<1>4. IsSuffix(s, t) <=> Len(s) <= Len(t) /\ SubSeq(r, 1, Len(s)) = SubSeq(q, 1, Len(s))
  BY <1>1 DEF IsSuffix, IsPrefix, r, q
<1>5. IsSuffix(s, t) <=> Len(s) <= Len(t) /\ \A i \in 1..Len(s) : r[i] = q[i]
  BY <1>2, <1>3, <1>4
<1> QED  BY <1>5 DEF r, q

\* A text ends with a mark, or with two.
LEMMA EndsWith ==
  ASSUME NEW S, NEW t \in Seq(S), NEW a \in S
  PROVE  IsSuffix(<<a>>, t) <=> t # <<>> /\ t[Len(t)] = a
<1>1. PICK s \in Seq(S) : s = <<a>> /\ Len(s) = 1 /\ s[1] = a
  <2>1. <<a>> \in Seq(S) /\ Len(<<a>>) = 1 /\ <<a>>[1] = a
    OBVIOUS
  <2> QED  BY <2>1, Zenon
<1>2. Len(t) \in Nat /\ (t # <<>> <=> Len(t) >= 1)
  BY SeqFacts, EmptySeq
<1>3. Len(s) = 1 /\ s[1] = a
  BY <1>1
<1>4. Reverse(s)[1] = a
  BY <1>3, ReverseFacts
<1>5. Len(t) >= 1 => Reverse(t)[1] = t[Len(t)]
  BY <1>2, ReverseFacts
<1>6. IsSuffix(s, t) <=> t # <<>> /\ t[Len(t)] = a
  <2>1. IsSuffix(s, t) <=> Len(s) <= Len(t) /\ \A i \in 1..Len(s) : Reverse(s)[i] = Reverse(t)[i]
    BY SuffixFacts
  <2> QED  BY <1>2, <1>3, <1>4, <1>5, <2>1
<1> QED  BY <1>1, <1>6

LEMMA EndsWithTwo ==
  ASSUME NEW S, NEW t \in Seq(S), NEW a \in S, NEW b \in S
  PROVE  IsSuffix(<<a, b>>, t) <=> Len(t) > 1 /\ t[Len(t)] = b /\ t[Len(t) - 1] = a
<1>1. PICK s \in Seq(S) : s = <<a, b>> /\ Len(s) = 2 /\ s[1] = a /\ s[2] = b
  <2>1. <<a, b>> \in Seq(S) /\ Len(<<a, b>>) = 2 /\ <<a, b>>[1] = a /\ <<a, b>>[2] = b
    OBVIOUS
  <2> QED  BY <2>1, Zenon
<1>2. Len(t) \in Nat
  BY SeqFacts
<1>3. Len(s) = 2 /\ s[1] = a /\ s[2] = b
  BY <1>1
<1>4. Reverse(s)[1] = b /\ Reverse(s)[2] = a
  <2>1. \A i \in 1..Len(s) : Reverse(s)[i] = s[(Len(s) - i) + 1]
    BY ReverseFacts
  <2> QED  BY <1>3, <2>1
<1>5. Len(t) > 1 => Reverse(t)[1] = t[Len(t)] /\ Reverse(t)[2] = t[Len(t) - 1]
  <2>1. \A i \in 1..Len(t) : Reverse(t)[i] = t[(Len(t) - i) + 1]
    BY ReverseFacts
  <2> QED  BY <1>2, <2>1
<1>6. IsSuffix(s, t) <=> Len(t) > 1 /\ t[Len(t)] = b /\ t[Len(t) - 1] = a
  <2>1. IsSuffix(s, t) <=> Len(s) <= Len(t) /\ \A i \in 1..Len(s) : Reverse(s)[i] = Reverse(t)[i]
    BY SuffixFacts
  <2>2. 1..2 = {1, 2}
    OBVIOUS
  <2> QED  BY <1>2, <1>3, <1>4, <1>5, <2>1, <2>2
<1> QED  BY <1>1, <1>6

\* Splitting a text at its newlines, and leaving out its prompts, mark by mark.
LEMMA SplitsValues ==
  ASSUME NEW text \in Seq(Mark)
  PROVE  /\ Splits(text)[0] = <<<<>>>>
         /\ \A n \in 0..Len(text) : Splits(text)[n] \in Seq(Seq(Mark)) \ {<<>>}
         /\ \A n \in 1..Len(text) : Splits(text)[n] = Split(Splits(text)[n - 1], text[n])
<1> DEFINE S == Seq(Seq(Mark)) \ {<<>>}
           L == Len(text)
           base == <<<<>>>>
           step == [n \in 1..L |-> [parts \in S |-> Split(parts, text[n])]]
<1>1. L \in Nat /\ base \in S
  BY SeqFacts
<1>2. ASSUME NEW parts \in S, NEW n \in 1..L PROVE Split(parts, text[n]) \in S
  <2>1. text[n] \in Mark
    BY SeqFacts
  <2>2. CASE text[n] = "nl"
    <3>1. <<<<text[n]>>, <<>>>> \in Seq(Seq(Mark)) /\ Len(<<<<text[n]>>, <<>>>>) = 2
      BY <2>1
    <3>2. parts \o <<<<text[n]>>, <<>>>> \in Seq(Seq(Mark)) /\ Len(parts \o <<<<text[n]>>, <<>>>>) # 0
      BY <3>1, JoinFacts, SeqFacts
    <3> QED  BY <2>2, <3>2 DEF Split
  <2>3. CASE text[n] # "nl"
    <3>1. Len(parts) \in 1..Len(parts) /\ parts[Len(parts)] \in Seq(Mark)
      BY SeqFacts, EmptySeq
    <3>2. Append(parts[Len(parts)], text[n]) \in Seq(Mark)
      BY <2>1, <3>1, AppendProperties
    <3>3. [parts EXCEPT ![Len(parts)] = Append(@, text[n])] \in Seq(Seq(Mark))
      BY <3>1, <3>2, ExceptSeq
    <3>4. Len([parts EXCEPT ![Len(parts)] = Append(@, text[n])]) = Len(parts)
      BY <3>1, <3>2, ExceptSeq
    <3> QED  BY <2>3, <3>1, <3>3, <3>4 DEF Split
  <2> QED  BY <2>2, <2>3
<1>3. step \in [1..L -> [S -> S]]
  BY <1>2
<1>4. PICK f \in [0..L -> S] : f[0] = base /\ \A n \in 1..L : f[n] = step[n][f[n - 1]]
  <2> HIDE DEF S, step, base, L
  <2> QED  BY <1>1, <1>3, StepByStep
<1> HIDE DEF S, base, L
<1>5. \A n \in 1..L : f[n] = Split(f[n - 1], text[n])
  <2>1. \A n \in 1..L : n - 1 \in 0..L
    BY <1>1
  <2> QED  BY <1>4, <2>1 DEF step
<1>6. f = [n \in 0..L |-> IF n = 0 THEN base ELSE Split(f[n - 1], text[n])]
  <2>1. \A n \in 0..L : f[n] = IF n = 0 THEN base ELSE Split(f[n - 1], text[n])
    BY <1>1, <1>4, <1>5
  <2> QED  BY <1>4, <2>1
<1>7. Splits(text) = [n \in 0..L |-> IF n = 0 THEN base ELSE Split(Splits(text)[n - 1], text[n])]
  BY <1>6, Zenon DEF Splits, L, base
<1> DEFINE N == Splits(text)
<1>8. N[0] = base /\ \A n \in 1..L : N[n] = Split(N[n - 1], text[n])
  <2> HIDE DEF N
  <2>1. N = [n \in 0..L |-> IF n = 0 THEN base ELSE Split(N[n - 1], text[n])]
    BY <1>7 DEF N
  <2> QED  BY <1>1, <2>1
<1> HIDE DEF N
<1>9. \A n \in 0..L : N[n] \in S
  <2> DEFINE R == {n \in Nat : n <= L => N[n] \in S}
  <2>1. 0 \in R
    BY <1>1, <1>8
  <2>2. ASSUME NEW n \in Nat, n \in R PROVE n + 1 \in R
    <3>1. n + 1 <= L => N[n] \in S /\ n + 1 \in 1..L /\ (n + 1) - 1 = n
      BY <1>1, <2>2
    <3> QED  BY <1>2, <1>8, <3>1
  <2>3. Nat \subseteq R
    <3> HIDE DEF R
    <3> QED  BY <2>1, <2>2, SetInduction
  <2> QED  BY <1>1, <2>3
<1> QED  BY <1>8, <1>9 DEF N, L, S, base

LEMMA VisibleValues ==
  ASSUME NEW w \in Seq(Mark)
  PROVE  /\ Visible(w)[0] = <<>>
         /\ \A n \in 0..Len(w) : Visible(w)[n] \in Seq(Mark)
         /\ \A n \in 1..Len(w) :
              Visible(w)[n] = IF w[n] = "prompt" THEN Visible(w)[n - 1] ELSE Append(Visible(w)[n - 1], w[n])
<1> DEFINE S == Seq(Mark)
           L == Len(w)
           base == <<>>
           Next1(v, n) == IF w[n] = "prompt" THEN v ELSE Append(v, w[n])
           step == [n \in 1..L |-> [v \in S |-> Next1(v, n)]]
<1>1. L \in Nat /\ base \in S
  BY SeqFacts
<1>2. ASSUME NEW v \in S, NEW n \in 1..L PROVE Next1(v, n) \in S
  <2>1. w[n] \in Mark
    BY SeqFacts
  <2> QED  BY <2>1, AppendProperties
<1> HIDE DEF Next1
<1>3. step \in [1..L -> [S -> S]]
  BY <1>2
<1>4. PICK f \in [0..L -> S] : f[0] = base /\ \A n \in 1..L : f[n] = step[n][f[n - 1]]
  <2> HIDE DEF S, step, base, L
  <2> QED  BY <1>1, <1>3, StepByStep
<1> HIDE DEF S, base, L
<1>5. \A n \in 1..L : f[n] = Next1(f[n - 1], n)
  <2>1. \A n \in 1..L : n - 1 \in 0..L
    BY <1>1
  <2> QED  BY <1>4, <2>1 DEF step
<1>6. f = [n \in 0..L |-> IF n = 0 THEN base ELSE Next1(f[n - 1], n)]
  <2>1. \A n \in 0..L : f[n] = IF n = 0 THEN base ELSE Next1(f[n - 1], n)
    BY <1>1, <1>4, <1>5
  <2> QED  BY <1>4, <2>1
<1>7. Visible(w) = [n \in 0..L |-> IF n = 0 THEN base ELSE Next1(Visible(w)[n - 1], n)]
  BY <1>6, Zenon DEF Visible, L, base, Next1
<1> DEFINE N == Visible(w)
<1>8. N[0] = base /\ \A n \in 1..L : N[n] = Next1(N[n - 1], n)
  <2> HIDE DEF N
  <2>1. N = [n \in 0..L |-> IF n = 0 THEN base ELSE Next1(N[n - 1], n)]
    BY <1>7 DEF N
  <2> QED  BY <1>1, <2>1
<1> HIDE DEF N
<1>9. \A n \in 0..L : N[n] \in S
  <2> DEFINE R == {n \in Nat : n <= L => N[n] \in S}
  <2>1. 0 \in R
    BY <1>1, <1>8
  <2>2. ASSUME NEW n \in Nat, n \in R PROVE n + 1 \in R
    <3>1. n + 1 <= L => N[n] \in S /\ n + 1 \in 1..L /\ (n + 1) - 1 = n
      BY <1>1, <2>2
    <3> QED  BY <1>2, <1>8, <3>1
  <2>3. Nat \subseteq R
    <3> HIDE DEF R
    <3> QED  BY <2>1, <2>2, SetInduction
  <2> QED  BY <1>1, <2>3
<1> QED  BY <1>8, <1>9 DEF N, L, S, base, Next1

\* What comes later does not change what was visible before.
LEMMA VisibleSame ==
  ASSUME NEW v \in Seq(Mark), NEW w \in Seq(Mark), Len(v) <= Len(w), \A i \in 1..Len(v) : w[i] = v[i]
  PROVE  \A n \in 0..Len(v) : Visible(w)[n] = Visible(v)[n]
<1> DEFINE V == Visible(v)
           W == Visible(w)
           R == {n \in Nat : n <= Len(v) => W[n] = V[n]}
<1>1. Len(v) \in Nat /\ Len(w) \in Nat
  BY SeqFacts
<1>2. /\ V[0] = <<>> /\ W[0] = <<>>
      /\ \A n \in 1..Len(v) : V[n] = IF v[n] = "prompt" THEN V[n - 1] ELSE Append(V[n - 1], v[n])
      /\ \A n \in 1..Len(w) : W[n] = IF w[n] = "prompt" THEN W[n - 1] ELSE Append(W[n - 1], w[n])
  BY VisibleValues
<1> HIDE DEF V, W
<1>3. 0 \in R
  BY <1>2
<1>4. ASSUME NEW n \in Nat, n \in R PROVE n + 1 \in R
  <2> SUFFICES ASSUME n + 1 <= Len(v) PROVE W[n + 1] = V[n + 1]
    OBVIOUS
  <2>1. n + 1 \in 1..Len(v) /\ n + 1 \in 1..Len(w) /\ (n + 1) - 1 = n /\ W[n] = V[n]
    BY <1>1, <1>4
  <2>2. w[n + 1] = v[n + 1]
    BY <2>1
  <2> QED  BY <1>2, <2>1, <2>2
<1>5. Nat \subseteq R
  <2> HIDE DEF R
  <2> QED  BY <1>3, <1>4, SetInduction
<1> QED  BY <1>1, <1>5 DEF V, W

LEMMA AppendJoin ==
  ASSUME NEW S, NEW a \in Seq(S), NEW b \in Seq(S), NEW e \in S, NEW c, c = Append(b, e)
  PROVE  Append(a \o b, e) = a \o c
<1>1. <<e>> \in Seq(S) /\ a \o b \in Seq(S)
  BY ConcatProperties
<1>2. Append(a \o b, e) = (a \o b) \o <<e>> /\ Append(b, e) = b \o <<e>>
  BY <1>1, AppendIsConcat, Zenon
<1>3. (a \o b) \o <<e>> = a \o (b \o <<e>>)
  <2>1. PICK u \in Seq(S) : u = <<e>>
    BY <1>1
  <2>2. (a \o b) \o u = a \o (b \o u)
    BY ConcatAssociative
  <2> QED  BY <2>1, <2>2
<1> QED  BY <1>2, <1>3, Zenon

\* Marks that are no prompts are all visible.
LEMMA VisibleOn ==
  ASSUME NEW w \in Seq(Mark), NEW frag \in Seq(Mark), NEW h \in 0..Len(w), h + Len(frag) <= Len(w),
         \A i \in 1..Len(frag) : frag[i] = w[h + i] /\ frag[i] # "prompt"
  PROVE  Visible(w)[h + Len(frag)] = Visible(w)[h] \o frag
<1> DEFINE W == Visible(w)
           Good(n) == n <= Len(frag) => W[h + n] = W[h] \o SubSeq(frag, 1, n)
           R == {n \in Nat : Good(n)}
<1>1. Len(w) \in Nat /\ Len(frag) \in Nat
  BY SeqFacts
<1>2. /\ W[h] \in Seq(Mark)
      /\ \A n \in 1..Len(w) : W[n] = IF w[n] = "prompt" THEN W[n - 1] ELSE Append(W[n - 1], w[n])
  BY VisibleValues
<1> HIDE DEF W
<1>3. Good(0)
  <2>1. SubSeq(frag, 1, 0) = <<>>
    BY SubSeqEmpty
  <2>2. h + 0 = h
    BY <1>1
  <2> QED  BY <1>2, <2>1, <2>2, ConcatEmptySeq
<1>4. ASSUME NEW n \in Nat, Good(n) PROVE Good(n + 1)
  <2> SUFFICES ASSUME n + 1 <= Len(frag) PROVE W[h + (n + 1)] = W[h] \o SubSeq(frag, 1, n + 1)
    OBVIOUS
  <2>1. h + n + 1 \in 1..Len(w) /\ (h + n + 1) - 1 = h + n /\ n + 1 \in 1..Len(frag) /\ n \in 0..Len(frag)
    BY <1>1
  <2>2. W[h + n + 1] = Append(W[h] \o SubSeq(frag, 1, n), frag[n + 1])
    <3>1. frag[n + 1] = w[h + n + 1] /\ frag[n + 1] # "prompt"
      BY <1>1, <2>1
    <3>2. W[h + n] = W[h] \o SubSeq(frag, 1, n)
      <4>1. n <= Len(frag)
        BY <1>1
      <4> QED  BY <1>4, <4>1, Zenon
    <3> QED  BY <1>2, <2>1, <3>1, <3>2
  <2>3. SubSeq(frag, 1, n + 1) = Append(SubSeq(frag, 1, n), frag[n + 1])
    BY <1>1, <2>1
  <2>4. SubSeq(frag, 1, n) \in Seq(Mark) /\ frag[n + 1] \in Mark
    BY <1>1, <2>1, SubSeqProperties, SeqFacts
  <2>5. Append(W[h] \o SubSeq(frag, 1, n), frag[n + 1]) = W[h] \o Append(SubSeq(frag, 1, n), frag[n + 1])
    <3> DEFINE a == W[h]
               b == SubSeq(frag, 1, n)
               e == frag[n + 1]
               c == Append(b, e)
    <3>1. a \in Seq(Mark) /\ b \in Seq(Mark) /\ e \in Mark
      BY <1>2, <2>4
    <3> HIDE DEF a, b, e
    <3>2. c = Append(b, e)
      OBVIOUS
    <3> HIDE DEF c
    <3>3. Append(a \o b, e) = a \o c
      BY <3>1, <3>2, AppendJoin, Zenon
    <3> QED  BY <3>3 DEF a, b, e, c
  <2>6. h + (n + 1) = h + n + 1
    BY <1>1
  <2> QED  BY <2>2, <2>3, <2>5, <2>6
<1> HIDE DEF Good
<1>5. Nat \subseteq R
  <2>1. 0 \in R /\ \A n \in Nat : n \in R => n + 1 \in R
    BY <1>3, <1>4
  <2> HIDE DEF R
  <2> QED  BY <2>1, SetInduction
<1>6. SubSeq(frag, 1, Len(frag)) = frag
  BY SubSeqFull
<1>7. Good(Len(frag)) /\ Len(frag) <= Len(frag)
  BY <1>1, <1>5
<1> QED  BY <1>6, <1>7, Zenon DEF W, Good

\* Where in a text its fragments end; a newline is one of its own.
Pieces(cut, frags, text, n) ==
  /\ cut \in [0..Len(frags) -> 0..n]
  /\ cut[0] = 0 /\ cut[Len(frags)] = n
  /\ \A k \in 1..Len(frags) : Piece(frags[k], text, cut[k - 1], cut[k])

OpenEnd(frags) == \A i \in 1..Len(frags[Len(frags)]) : frags[Len(frags)][i] # "nl"

LEMMA NewlineSplits ==
  ASSUME NEW text \in Seq(Mark), NEW n \in Nat, n + 1 <= Len(text), text[n + 1] = "nl",
         NEW P \in Seq(Seq(Mark)) \ {<<>>}, NEW cut, Pieces(cut, P, text, n)
  PROVE  \E cut2 : Pieces(cut2, Split(P, text[n + 1]), text, n + 1) /\ OpenEnd(Split(P, text[n + 1]))
<1> DEFINE Q == Split(P, text[n + 1])
           L == Len(P)
           cut2 == [k \in 0..(L + 2) |-> IF k <= L THEN cut[k] ELSE n + 1]
<1>1. L \in Nat
  BY SeqFacts
<1>2. PICK t \in Seq(Seq(Mark)) : t = <<<<"nl">>, <<>>>> /\ Len(t) = 2 /\ t[1] = <<"nl">> /\ t[2] = <<>>
  <2>1. <<"nl">> \in Seq(Mark) /\ <<>> \in Seq(Mark)
    BY DEF Mark
  <2>2. <<<<"nl">>, <<>>>> \in Seq(Seq(Mark))
    BY <2>1
  <2>3. Len(<<<<"nl">>, <<>>>>) = 2 /\ <<<<"nl">>, <<>>>>[1] = <<"nl">> /\ <<<<"nl">>, <<>>>>[2] = <<>>
    OBVIOUS
  <2> QED  BY <2>2, <2>3, Zenon
<1>3. Q = P \o t
  BY <1>2 DEF Split
<1>4. /\ Q \in Seq(Seq(Mark)) /\ Len(Q) = L + Len(t)
      /\ \A k \in 1..L : Q[k] = P[k]
      /\ \A k \in 1..Len(t) : Q[L + k] = t[k]
  <2> HIDE DEF Q
  <2> QED  BY <1>2, <1>3, JoinFacts
<1> HIDE DEF Q, L
<1>5. Len(Q) = L + 2
  BY <1>2, <1>4, Zenon
<1>6. Q[L + 1] = <<"nl">> /\ Q[L + 2] = <<>>
  <2>1. 1 \in 1..2 /\ 2 \in 1..2
    OBVIOUS
  <2> QED  BY <1>2, <1>4, <2>1, Zenon
<1>7. /\ cut \in [0..L -> 0..n] /\ cut[0] = 0 /\ cut[L] = n
      /\ \A k \in 1..L : Piece(P[k], text, cut[k - 1], cut[k])
  BY DEF Pieces, L
<1>8. /\ cut2 \in [0..(L + 2) -> 0..(n + 1)]
      /\ \A k \in 0..L : cut2[k] = cut[k]
      /\ cut2[L + 1] = n + 1 /\ cut2[L + 2] = n + 1
  BY <1>1, <1>7
<1> HIDE DEF cut2
<1>9. ASSUME NEW k \in 1..(L + 2) PROVE Piece(Q[k], text, cut2[k - 1], cut2[k])
  <2>1. CASE k \in 1..L
    <3>1. k \in 0..L /\ k - 1 \in 0..L
      BY <1>1, <2>1
    <3>2. Q[k] = P[k] /\ cut2[k] = cut[k] /\ cut2[k - 1] = cut[k - 1]
      BY <1>4, <1>8, <2>1, <3>1
    <3> QED  BY <1>7, <2>1, <3>2, Zenon
  <2>2. CASE k = L + 1
    <3>1. Len(<<"nl">>) = 1 /\ <<"nl">>[1] = "nl"
      OBVIOUS
    <3>2. Len(Q[k]) = 1 /\ Q[k][1] = "nl"
      BY <1>6, <2>2, <3>1, Zenon
    <3>3. L \in 0..L /\ k - 1 = L
      BY <1>1, <2>2
    <3>4. cut2[k] = n + 1 /\ cut2[k - 1] = n
      BY <1>7, <1>8, <2>2, <3>3
    <3> QED  BY <3>2, <3>4 DEF Piece
  <2>3. CASE k = L + 2
    <3>1. Len(Q[k]) = 0
      BY <1>6, <2>3
    <3>2. k - 1 = L + 1
      BY <1>1, <2>3
    <3>3. cut2[k] = n + 1 /\ cut2[k - 1] = n + 1
      BY <1>8, <2>3, <3>2
    <3> QED  BY <3>1, <3>3 DEF Piece
  <2> QED  BY <1>1, <2>1, <2>2, <2>3
<1>10. Pieces(cut2, Q, text, n + 1)
  <2>1. cut2[0] = 0 /\ cut2[Len(Q)] = n + 1
    BY <1>1, <1>5, <1>7, <1>8
  <2>2. \A k \in 1..Len(Q) : Piece(Q[k], text, cut2[k - 1], cut2[k])
    BY <1>5, <1>9
  <2> QED  BY <1>5, <1>8, <2>1, <2>2, Zenon DEF Pieces
<1>11. OpenEnd(Q)
  <2>1. Len(Q[L + 2]) = 0
    BY <1>6
  <2>2. Len(Q[Len(Q)]) = 0
    BY <1>5, <2>1, Zenon
  <2> QED  BY <2>2 DEF OpenEnd
<1> QED  BY <1>10, <1>11 DEF Q

LEMMA OtherSplits ==
  ASSUME NEW text \in Seq(Mark), NEW n \in Nat, n + 1 <= Len(text), text[n + 1] # "nl",
         NEW P \in Seq(Seq(Mark)) \ {<<>>}, NEW cut, Pieces(cut, P, text, n), OpenEnd(P)
  PROVE  \E cut2 : Pieces(cut2, Split(P, text[n + 1]), text, n + 1) /\ OpenEnd(Split(P, text[n + 1]))
<1> DEFINE Q == Split(P, text[n + 1])
           L == Len(P)
           last == P[L]
           longer == Append(last, text[n + 1])
           cut2 == [k \in 0..L |-> IF k = L THEN n + 1 ELSE cut[k]]
<1>1. L \in Nat /\ L >= 1 /\ L \in 1..L /\ DOMAIN P = 1..L
  BY SeqFacts, EmptySeq
<1>2. last \in Seq(Mark) /\ text[n + 1] \in Mark /\ Len(last) \in Nat
  <2>1. last \in Seq(Mark)
    BY <1>1
  <2> QED  BY <2>1, SeqFacts
<1>3. Q = [P EXCEPT ![L] = longer]
  BY DEF Split
<1> HIDE DEF last
<1>4. /\ longer \in Seq(Mark)
      /\ Len(longer) = Len(last) + 1
      /\ \A i \in 1..Len(last) : longer[i] = last[i]
      /\ longer[Len(last) + 1] = text[n + 1]
  BY <1>2, AppendProperties
<1> HIDE DEF longer, Q
<1>5. Q \in Seq(Seq(Mark)) /\ Len(Q) = L
  BY <1>1, <1>3, <1>4, ExceptSeq
<1>6. /\ \A k \in 1..(L - 1) : Q[k] = P[k]
      /\ Q[L] = longer
  <2>1. \A k \in 1..L : k = L => Q[k] = longer
    BY <1>1, <1>3, Zenon
  <2>2. \A k \in 1..L : k # L => Q[k] = P[k]
    BY <1>1, <1>3, Zenon
  <2>3. \A k \in 1..(L - 1) : k \in 1..L /\ k # L
    <3>1. L \in Nat
      BY <1>1
    <3> HIDE DEF L
    <3> QED  BY <3>1
  <2> QED  BY <1>1, <2>1, <2>2, <2>3, Zenon
<1>7. /\ cut \in [0..L -> 0..n] /\ cut[0] = 0 /\ cut[L] = n
      /\ \A k \in 1..L : Piece(P[k], text, cut[k - 1], cut[k])
  BY DEF Pieces
<1>8. \A i \in 1..Len(last) : last[i] # "nl"
  BY DEF OpenEnd, last
<1> HIDE DEF L
<1>9. /\ cut2 \in [0..L -> 0..(n + 1)]
      /\ \A k \in 0..(L - 1) : cut2[k] = cut[k]
      /\ cut2[L] = n + 1
  BY <1>1, <1>7
<1> HIDE DEF cut2
<1>10. Piece(last, text, cut[L - 1], n)
  BY <1>1, <1>7 DEF last
<1>11. cut[L - 1] \in Nat
  <2>1. L - 1 \in 0..L
    BY <1>1
  <2> QED  BY <1>7, <2>1
<1>12. Piece(longer, text, cut[L - 1], n + 1)
  <2>1. n + 1 = cut[L - 1] + Len(longer)
    <3>1. n = cut[L - 1] + Len(last)
      BY <1>10, Zenon DEF Piece
    <3>2. Len(longer) = Len(last) + 1
      BY <1>4
    <3> HIDE DEF longer
    <3> QED  BY <1>2, <1>11, <3>1, <3>2
  <2>2. ASSUME NEW i \in 1..Len(longer) PROVE longer[i] = text[cut[L - 1] + i] /\ longer[i] # "nl"
    <3>1. CASE i \in 1..Len(last)
      BY <1>4, <1>8, <1>10, <3>1 DEF Piece
    <3>2. CASE i = Len(last) + 1
      <4>1. cut[L - 1] + i = n + 1
        BY <1>2, <1>4, <2>1, <3>2
      <4>2. longer[i] = text[n + 1]
        BY <1>4, <3>2
      <4> QED  BY <4>1, <4>2
    <3> QED  BY <1>2, <1>4, <3>1, <3>2
  <2> QED  BY <2>1, <2>2 DEF Piece
<1>13. ASSUME NEW k \in 1..L PROVE Piece(Q[k], text, cut2[k - 1], cut2[k])
  <2>1. CASE k = L
    <3>1. L - 1 \in 0..(L - 1)
      BY <1>1
    <3>2. Q[k] = longer /\ cut2[k] = n + 1 /\ cut2[k - 1] = cut[L - 1]
      BY <1>6, <1>9, <2>1, <3>1
    <3> QED  BY <1>12, <3>2
  <2>2. CASE k # L
    <3>1. k \in 1..(L - 1) /\ k \in 0..(L - 1) /\ k - 1 \in 0..(L - 1)
      BY <1>1, <2>2
    <3>2. Q[k] = P[k] /\ cut2[k] = cut[k] /\ cut2[k - 1] = cut[k - 1]
      BY <1>6, <1>9, <3>1
    <3> QED  BY <1>7, <3>2, Zenon
  <2> QED  BY <2>1, <2>2
<1>14. OpenEnd(Q)
  <2>1. \A i \in 1..Len(longer) : longer[i] # "nl"
    <3>1. \A i \in 1..Len(longer) : i \in 1..Len(last) \/ i = Len(last) + 1
      BY <1>2, <1>4
    <3> QED  BY <1>4, <1>8, <3>1
  <2>2. Q[Len(Q)] = longer
    BY <1>5, <1>6, Zenon
  <2> QED  BY <2>1, <2>2 DEF OpenEnd
<1>15. Pieces(cut2, Q, text, n + 1)
  <2>1. cut2[0] = 0
    BY <1>1, <1>7, <1>9
  <2> QED  BY <1>5, <1>9, <1>13, <2>1 DEF Pieces
<1> QED  BY <1>14, <1>15 DEF Q

LEMMA FragmentsFollow ==
  ASSUME NEW text \in Seq(Mark)
  PROVE  /\ Fragments(text) \in Seq(Seq(Mark)) \ {<<>>}
         /\ \E cut : Pieces(cut, Fragments(text), text, Len(text))
<1> DEFINE P == Splits(text)
           L == Len(text)
           Good(n) == n <= L => \E cut : Pieces(cut, P[n], text, n) /\ OpenEnd(P[n])
           R == {n \in Nat : Good(n)}
<1>1. /\ L \in Nat /\ P[0] = <<<<>>>>
      /\ \A n \in 0..L : P[n] \in Seq(Seq(Mark)) \ {<<>>}
      /\ \A n \in 1..L : P[n] = Split(P[n - 1], text[n])
  BY SeqFacts, SplitsValues
<1>2. Good(0)
  <2>1. Len(P[0]) = 1 /\ P[0][1] = <<>> /\ Len(P[0][1]) = 0
    <3>1. Len(<<<<>>>>) = 1 /\ <<<<>>>>[1] = <<>> /\ Len(<<<<>>>>[1]) = 0
      OBVIOUS
    <3> HIDE DEF P
    <3> QED  BY <1>1, <3>1, Zenon
  <2> DEFINE cut == [k \in 0..1 |-> 0]
  <2>2. cut \in [0..1 -> 0..0] /\ cut[0] = 0 /\ cut[1] = 0
    OBVIOUS
  <2> HIDE DEF cut, P
  <2>3. Pieces(cut, P[0], text, 0) /\ OpenEnd(P[0])
    <3>1. \A k \in 1..Len(P[0]) : k = 1 /\ k - 1 = 0
      BY <2>1
    <3>2. Piece(P[0][1], text, 0, 0)
      BY <2>1 DEF Piece
    <3>3. \A k \in 1..Len(P[0]) : Piece(P[0][k], text, cut[k - 1], cut[k])
      BY <2>2, <3>1, <3>2
    <3>4. Pieces(cut, P[0], text, 0)
      BY <2>1, <2>2, <3>3, Zenon DEF Pieces
    <3>5. OpenEnd(P[0])
      BY <2>1 DEF OpenEnd
    <3> QED  BY <3>4, <3>5
  <2> QED  BY <2>3
<1> HIDE DEF P
<1>3. ASSUME NEW n \in Nat, Good(n) PROVE Good(n + 1)
  <2> SUFFICES ASSUME n + 1 <= L
               PROVE  \E cut : Pieces(cut, P[n + 1], text, n + 1) /\ OpenEnd(P[n + 1])
    OBVIOUS
  <2>1. n <= L /\ n \in 0..L /\ n + 1 \in 1..L /\ (n + 1) - 1 = n
    BY <1>1
  <2>2. PICK cut : Pieces(cut, P[n], text, n) /\ OpenEnd(P[n])
    BY <1>3, <2>1
  <2>3. P[n + 1] = Split(P[n], text[n + 1]) /\ P[n] \in Seq(Seq(Mark)) \ {<<>>}
    BY <1>1, <2>1
  <2> QED  BY <2>2, <2>3, NewlineSplits, OtherSplits
<1> HIDE DEF Good
<1>4. Nat \subseteq R
  <2>1. 0 \in R /\ \A n \in Nat : n \in R => n + 1 \in R
    BY <1>2, <1>3
  <2> HIDE DEF R
  <2> QED  BY <2>1, SetInduction
<1>5. Good(L) /\ L \in 0..L /\ L <= L
  BY <1>1, <1>4
<1> QED  BY <1>1, <1>5 DEF Good, P, Fragments

-----------------------------------------------------------------------------
(* One fragment.                                                           *)

\* The fragment q is at place h of the stream w, and c is captured before it.
Takes(w, h, q, c, own_s, buf_s, asks_again) ==
  /\ w \in Seq(Mark) /\ Grammar(w)
  /\ q \in Seq(Mark) /\ c \in Seq(Mark)
  /\ h \in 0..Len(w) /\ h + Len(q) \in 0..Len(w)
  /\ Piece(q, w, h, h + Len(q))
  /\ Caught(h, w, c, own_s, buf_s, asks_again)
  /\ c = IF own_s = None THEN buf_s ELSE own_s

LEMMA PromptEndsFragment ==
  ASSUME NEW w \in Seq(Mark), NEW q \in Seq(Mark), NEW h \in 0..Len(w), h + Len(q) \in 0..Len(w),
         Grammar(w), Piece(q, w, h, h + Len(q))
  PROVE  \A i \in 1..Len(q) : q[i] = "prompt" => i = Len(q)
<1> SUFFICES ASSUME NEW i \in 1..Len(q), q[i] = "prompt", i # Len(q) PROVE FALSE
  OBVIOUS
<1>1. Len(w) \in Nat /\ Len(q) \in Nat
  BY SeqFacts
<1>2. i + 1 \in 1..Len(q) /\ h + i \in 1..Len(w) /\ h + i < Len(w) /\ (h + i) + 1 = h + (i + 1)
  BY <1>1
<1>3. w[h + i] = "prompt" /\ w[h + (i + 1)] = q[i + 1]
  BY <1>2 DEF Piece
<1>4. w[(h + i) + 1] = "nl"
  BY <1>2, <1>3 DEF Grammar
<1>5. q[i + 1] = "nl"
  BY <1>2, <1>3, <1>4
<1>6. Len(q) = 1
  BY <1>2, <1>5 DEF Piece
<1> QED  BY <1>2, <1>6

\* What the text t with the fragment tells, which ends at place e.
Tells(w, h, e, t, asks_again) ==
  /\ t \in Seq(Mark)
  /\ \A i \in 1..Len(t) : t[i] = "prompt" => i = Len(t) /\ e > h /\ w[e] = "prompt"
  /\ \A i \in 1..Len(t) : t[i] = "again" => NoticeIn(w, e)
  /\ e > 0 /\ w[e] = "again" => t # <<>> /\ t[Len(t)] = "again"
  /\ e > 1 /\ w[e] = "nl" /\ w[e - 1] = "again" =>
       asks_again \/ (Len(t) > 1 /\ t[Len(t)] = "nl" /\ t[Len(t) - 1] = "again")

LEMMA TextFacts ==
  ASSUME NEW w, NEW h, NEW q, NEW c, NEW own_s, NEW buf_s, NEW asks_again,
         Takes(w, h, q, c, own_s, buf_s, asks_again),
         NEW t, t = c \o q, NEW e, e = h + Len(q)
  PROVE  Tells(w, h, e, t, asks_again)
<1>1. /\ w \in Seq(Mark) /\ q \in Seq(Mark) /\ c \in Seq(Mark)
      /\ h \in 0..Len(w) /\ e \in 0..Len(w)
      /\ Len(w) \in Nat /\ Len(q) \in Nat /\ Len(c) \in Nat
  BY SeqFacts DEF Takes
<1>2. \A i \in 1..Len(q) : q[i] = w[h + i] /\ (q[i] = "nl" => Len(q) = 1) /\ (q[i] = "prompt" => i = Len(q))
  <2>1. \A i \in 1..Len(q) : q[i] = "prompt" => i = Len(q)
    BY <1>1, PromptEndsFragment DEF Takes
  <2> QED  BY <2>1 DEF Takes, Piece
<1>3. /\ \A i \in 1..Len(c) : c[i] # "prompt"
      /\ \A i \in 1..Len(c) : c[i] = "again" => NoticeIn(w, h)
      /\ h > 0 /\ w[h] = "again" => c # <<>> /\ c[Len(c)] = "again"
      /\ h > 1 /\ w[h] = "nl" /\ w[h - 1] = "again" => asks_again
  BY DEF Takes, Caught
<1>4. /\ t \in Seq(Mark) /\ Len(t) = Len(c) + Len(q)
      /\ \A i \in 1..Len(c) : t[i] = c[i]
      /\ \A i \in 1..Len(q) : t[Len(c) + i] = q[i]
  BY <1>1, JoinFacts
<1>5. \A i \in 1..Len(t) : i \in 1..Len(c) \/ \E j \in 1..Len(q) : i = Len(c) + j
  <2> SUFFICES ASSUME NEW i \in 1..Len(t), i \notin 1..Len(c) PROVE \E j \in 1..Len(q) : i = Len(c) + j
    OBVIOUS
  <2>1. i - Len(c) \in 1..Len(q) /\ i = Len(c) + (i - Len(c))
    BY <1>1, <1>4
  <2> QED  BY <2>1
<1>6. \A i \in 1..Len(t) : t[i] = "prompt" => i = Len(t) /\ e > h /\ w[e] = "prompt"
  <2> SUFFICES ASSUME NEW i \in 1..Len(t), t[i] = "prompt"
               PROVE  i = Len(t) /\ e > h /\ w[e] = "prompt"
    OBVIOUS
  <2>1. PICK j \in 1..Len(q) : i = Len(c) + j
    BY <1>3, <1>4, <1>5
  <2>2. q[j] = "prompt"
    BY <1>4, <2>1
  <2>3. j = Len(q) /\ w[h + j] = "prompt"
    BY <1>2, <2>2
  <2> QED  BY <1>1, <1>4, <2>1, <2>3
<1>7. \A i \in 1..Len(t) : t[i] = "again" => NoticeIn(w, e)
  <2> SUFFICES ASSUME NEW i \in 1..Len(t), t[i] = "again" PROVE NoticeIn(w, e)
    OBVIOUS
  <2>1. CASE i \in 1..Len(c)
    <3>1. PICK j \in 1..h : w[j] = "again"
      BY <1>3, <1>4, <2>1 DEF NoticeIn
    <3>2. j \in 1..e
      BY <1>1
    <3> QED  BY <3>1, <3>2 DEF NoticeIn
  <2>2. CASE i \notin 1..Len(c)
    <3>1. PICK j \in 1..Len(q) : i = Len(c) + j
      BY <1>5, <2>2
    <3>2. w[h + j] = "again"
      BY <1>2, <1>4, <3>1
    <3>3. h + j \in 1..e
      BY <1>1
    <3> QED  BY <3>2, <3>3 DEF NoticeIn
  <2> QED  BY <2>1, <2>2
<1>8. Len(q) > 0 => t # <<>> /\ t[Len(t)] = w[e] /\ q[Len(q)] = w[e]
  <2> SUFFICES ASSUME Len(q) > 0 PROVE t # <<>> /\ t[Len(t)] = w[e] /\ q[Len(q)] = w[e]
    OBVIOUS
  <2>1. Len(q) \in 1..Len(q) /\ Len(t) > 0
    BY <1>1, <1>4
  <2>2. q[Len(q)] = w[e]
    BY <1>2, <2>1
  <2>3. t[Len(t)] = q[Len(q)]
    BY <1>4, <2>1
  <2> QED  BY <2>1, <2>2, <2>3
<1>9. Len(q) = 0 => t = c /\ e = h
  <2> SUFFICES ASSUME Len(q) = 0 PROVE t = c /\ e = h
    OBVIOUS
  <2>1. q = <<>>
    BY <1>1, EmptySeq
  <2> QED  BY <1>1, <2>1, ConcatEmptySeq
<1>10. e > 0 /\ w[e] = "again" => t # <<>> /\ t[Len(t)] = "again"
  BY <1>1, <1>3, <1>8, <1>9
<1>11. ASSUME e > 1, w[e] = "nl", w[e - 1] = "again", ~asks_again
       PROVE  Len(t) > 1 /\ t[Len(t)] = "nl" /\ t[Len(t) - 1] = "again"
  <2>1. Len(q) > 0
    BY <1>1, <1>3, <1>9, <1>11
  <2>2. Len(q) \in 1..Len(q) /\ q[Len(q)] = "nl"
    BY <1>1, <1>8, <1>11, <2>1
  <2>3. Len(q) = 1 /\ h = e - 1 /\ h > 0
    BY <1>1, <1>2, <1>11, <2>2
  <2>4. c # <<>> /\ c[Len(c)] = "again"
    BY <1>3, <1>11, <2>3
  <2>5. Len(c) \in 1..Len(c)
    BY <1>1, <2>4, EmptySeq
  <2>6. Len(t) - 1 = Len(c)
    BY <1>1, <1>4, <2>3
  <2>7. t[Len(t) - 1] = "again"
    BY <1>4, <2>4, <2>5, <2>6
  <2> QED  BY <1>1, <1>4, <1>8, <1>11, <2>1, <2>5, <2>6, <2>7
<1> QED  BY <1>4, <1>6, <1>7, <1>10, <1>11 DEF Tells

\* Without a notice, what is visible of the stream is what is captured of it.
Shows(w, e, t, own_s) ==
  /\ own_s = None
  /\ t # <<>> /\ t[Len(t)] = "prompt" => Visible(w)[e] = Front(t)
  /\ ~(t # <<>> /\ t[Len(t)] = "prompt") => Visible(w)[e] = t

LEMMA TextIsVisible ==
  ASSUME NEW w, NEW h, NEW q, NEW c, NEW own_s, NEW buf_s, NEW asks_again,
         Takes(w, h, q, c, own_s, buf_s, asks_again),
         NEW t, t = c \o q, NEW e, e = h + Len(q), ~NoticeIn(w, e)
  PROVE  Shows(w, e, t, own_s)
<1>1. /\ w \in Seq(Mark) /\ q \in Seq(Mark) /\ c \in Seq(Mark)
      /\ h \in 0..Len(w) /\ e \in 0..Len(w)
      /\ Len(w) \in Nat /\ Len(q) \in Nat /\ Len(c) \in Nat
  BY SeqFacts DEF Takes
<1>2. \A i \in 1..Len(q) : q[i] = w[h + i] /\ (q[i] = "prompt" => i = Len(q))
  <2>1. \A i \in 1..Len(q) : q[i] = "prompt" => i = Len(q)
    BY <1>1, PromptEndsFragment DEF Takes
  <2> QED  BY <2>1 DEF Takes, Piece
<1>3. own_s = None /\ c = Visible(w)[h]
  <2>1. ~NoticeIn(w, h)
    <3>1. 1..h \subseteq 1..e
      BY <1>1
    <3> QED  BY <3>1 DEF NoticeIn
  <2> QED  BY <2>1, Zenon DEF Takes, Caught
<1>4. /\ t \in Seq(Mark) /\ Len(t) = Len(c) + Len(q)
      /\ \A i \in 1..Len(c) : t[i] = c[i]
      /\ \A i \in 1..Len(q) : t[Len(c) + i] = q[i]
  BY <1>1, JoinFacts
<1>5. ASSUME t # <<>>, t[Len(t)] = "prompt" PROVE Visible(w)[e] = Front(t)
  <2>1. Len(q) > 0 /\ q[Len(q)] = "prompt"
    <3>1. Len(t) > 0 /\ Len(t) \in 1..Len(t)
      BY <1>4, <1>5, EmptySeq, SeqFacts
    <3>2. Len(q) > 0
      <4> SUFFICES ASSUME Len(q) = 0 PROVE FALSE
        BY <1>1
      <4>1. Len(t) \in 1..Len(c)
        BY <1>1, <1>4, <3>1
      <4> QED  BY <1>4, <1>5, <4>1 DEF Takes, Caught
    <3>3. Len(q) \in 1..Len(q)
      BY <1>1, <3>2
    <3> QED  BY <1>4, <1>5, <3>2, <3>3
  <2> DEFINE f == Front(q)
  <2>2. f \in Seq(Mark) /\ Len(f) = Len(q) - 1 /\ \A i \in 1..Len(f) : f[i] = q[i]
    BY <1>1, <2>1, FrontFacts
  <2> HIDE DEF f
  <2>3. \A i \in 1..Len(f) : i \in 1..Len(q) /\ i # Len(q)
    BY <1>1, <2>2
  <2>4. \A i \in 1..Len(f) : f[i] = w[h + i] /\ f[i] # "prompt"
    BY <1>2, <2>2, <2>3
  <2>5. h + Len(f) <= Len(w) /\ h + Len(f) = e - 1 /\ e \in 1..Len(w)
    BY <1>1, <2>1, <2>2
  <2>6. Visible(w)[e - 1] = c \o f
    <3>1. Visible(w)[h + Len(f)] = Visible(w)[h] \o f
      BY <1>1, <2>2, <2>4, <2>5, VisibleOn
    <3> QED  BY <1>3, <2>5, <3>1, Zenon
  <2>7. Visible(w)[e] = Visible(w)[e - 1]
    <3>1. w[e] = "prompt"
      <4>1. Len(q) \in 1..Len(q)
        BY <1>1, <2>1
      <4> QED  BY <1>2, <2>1, <4>1
    <3> QED  BY <1>1, <2>5, <3>1, VisibleValues
  <2>8. Front(t) = c \o f
    <3>1. c \o f \in Seq(Mark) /\ Len(c \o f) = Len(c) + Len(f)
          /\ (\A i \in 1..Len(c) : (c \o f)[i] = c[i])
          /\ (\A i \in 1..Len(f) : (c \o f)[Len(c) + i] = f[i])
      <4>1. c \in Seq(Mark) /\ f \in Seq(Mark)
        BY <1>1, <2>2
      <4> QED  BY <4>1, JoinFacts
    <3>2. Front(t) \in Seq(Mark) /\ Len(Front(t)) = Len(t) - 1 /\ \A i \in 1..Len(Front(t)) : Front(t)[i] = t[i]
      <4>1. t \in Seq(Mark) /\ Len(t) > 0
        BY <1>1, <1>4, <2>1
      <4> QED  BY <4>1, FrontFacts
    <3> DEFINE x == c \o f
               y == Front(t)
    <3> HIDE DEF x, y
    <3>3. Len(x) = Len(y)
      BY <1>1, <1>4, <2>2, <3>1, <3>2 DEF x, y
    <3>4. ASSUME NEW i \in 1..Len(y) PROVE x[i] = y[i]
      <4>1. y[i] = t[i]
        BY <3>2 DEF y
      <4>2. CASE i \in 1..Len(c)
        BY <1>4, <3>1, <4>1, <4>2 DEF x
      <4>3. CASE i \notin 1..Len(c)
        <5>1. i - Len(c) \in 1..Len(f) /\ i = Len(c) + (i - Len(c))
          BY <1>1, <1>4, <2>2, <3>2, <4>3 DEF y
        <5>2. x[Len(c) + (i - Len(c))] = f[i - Len(c)]
          BY <3>1, <5>1, Zenon DEF x
        <5>3. f[i - Len(c)] = q[i - Len(c)] /\ t[Len(c) + (i - Len(c))] = q[i - Len(c)]
          BY <1>4, <2>2, <2>3, <5>1, Zenon
        <5> QED  BY <4>1, <5>1, <5>2, <5>3
      <4> QED  BY <4>2, <4>3
    <3>5. x \in Seq(Mark) /\ y \in Seq(Mark)
      BY <3>1, <3>2 DEF x, y
    <3>6. x = y
      BY <3>3, <3>4, <3>5, SeqEqual
    <3> QED  BY <3>6 DEF x, y
  <2> QED  BY <2>6, <2>7, <2>8, Zenon
<1>6. ASSUME ~(t # <<>> /\ t[Len(t)] = "prompt") PROVE Visible(w)[e] = t
  <2>1. \A i \in 1..Len(q) : q[i] = w[h + i] /\ q[i] # "prompt"
    <3> SUFFICES ASSUME NEW i \in 1..Len(q), q[i] = "prompt" PROVE FALSE
      BY <1>2
    <3>1. i = Len(q)
      BY <1>2
    <3>2. Len(t) = Len(c) + i /\ t[Len(c) + i] = "prompt"
      BY <1>4, <3>1
    <3>3. Len(t) > 0
      BY <1>1, <3>2
    <3>4. t # <<>>
      BY <3>3
    <3> QED  BY <1>6, <3>2, <3>4, Zenon
  <2>2. Visible(w)[e] = Visible(w)[h] \o q
    <3>1. h + Len(q) <= Len(w)
      BY <1>1
    <3> QED  BY <1>1, <2>1, <3>1, VisibleOn
  <2> QED  BY <1>3, <2>2, Zenon
<1> QED  BY <1>3, <1>5, <1>6 DEF Shows

\* The three ways a capture goes on: with the fragment, less its prompt, and anew.
LEMMA CaughtAll ==
  ASSUME NEW w, NEW h, NEW q, NEW c, NEW own_s, NEW buf_s, NEW asks_again,
         Takes(w, h, q, c, own_s, buf_s, asks_again),
         NEW t, t = c \o q, NEW e, e = h + Len(q), NEW own2, NEW buf2,
         own_s = None => own2 = None /\ buf2 = t,
         ~(t # <<>> /\ t[Len(t)] = "prompt"),
         ~(Len(t) > 1 /\ t[Len(t)] = "nl" /\ t[Len(t) - 1] = "again")
  PROVE  Caught(e, w, t, own2, buf2, asks_again)
<1>0. Tells(w, h, e, t, asks_again)
  BY TextFacts, Zenon
<1>1. \A i \in 1..Len(t) : t[i] # "prompt"
  <2> SUFFICES ASSUME NEW i \in 1..Len(t), t[i] = "prompt" PROVE FALSE
    OBVIOUS
  <2>1. i = Len(t) /\ t \in Seq(Mark)
    BY <1>0 DEF Tells
  <2>2. t # <<>>
    BY <2>1, EmptySeq
  <2> QED  BY <2>1, <2>2
<1>2. \A i \in 1..Len(t) : t[i] = "again" => NoticeIn(w, e)
  BY <1>0 DEF Tells
<1>3. e > 0 /\ w[e] = "again" => t # <<>> /\ t[Len(t)] = "again"
  BY <1>0 DEF Tells
<1>4. e > 1 /\ w[e] = "nl" /\ w[e - 1] = "again" => asks_again
  BY <1>0 DEF Tells
<1>5. ~NoticeIn(w, e) => own2 = None /\ buf2 = Visible(w)[e]
  <2> SUFFICES ASSUME ~NoticeIn(w, e) PROVE own2 = None /\ buf2 = Visible(w)[e]
    OBVIOUS
  <2>1. Shows(w, e, t, own_s)
    BY TextIsVisible, Zenon
  <2> QED  BY <2>1 DEF Shows
<1> QED  BY <1>1, <1>2, <1>3, <1>4, <1>5, Zenon DEF Caught

\* The lemma about a capture that a prompt is taken out of, with all it is about.
Lessens(w, h, q, c, own_s, buf_s, asks_again, t, e, own2, buf2) ==
  Caught(e, w, Front(t), own2, buf2, asks_again)

LEMMA CaughtLess ==
  ASSUME NEW w, NEW h, NEW q, NEW c, NEW own_s, NEW buf_s, NEW asks_again,
         Takes(w, h, q, c, own_s, buf_s, asks_again),
         NEW t, t = c \o q, NEW e, e = h + Len(q), NEW own2, NEW buf2,
         own_s = None => own2 = None /\ buf2 = Front(t),
         t # <<>>, t[Len(t)] = "prompt"
  PROVE  Lessens(w, h, q, c, own_s, buf_s, asks_again, t, e, own2, buf2)
<1>0. Tells(w, h, e, t, asks_again)
  BY TextFacts, Zenon
<1>1. t \in Seq(Mark) /\ Len(t) \in Nat /\ Len(t) \in 1..Len(t)
  <2>1. t \in Seq(Mark)
    BY <1>0 DEF Tells
  <2> QED  BY <2>1, EmptySeq, SeqFacts
<1>2. e > h /\ w[e] = "prompt"
  BY <1>1, <1>0 DEF Tells
<1>3. Len(Front(t)) = Len(t) - 1 /\ \A i \in 1..Len(Front(t)) : Front(t)[i] = t[i]
  <2>1. Len(t) > 0
    BY <1>1
  <2> QED  BY <1>1, <2>1, FrontFacts
<1>4. \A i \in 1..Len(Front(t)) : i \in 1..Len(t) /\ i # Len(t)
  BY <1>1, <1>3
<1>5. \A i \in 1..Len(Front(t)) : Front(t)[i] # "prompt"
  <2>1. \A i \in 1..Len(t) : t[i] = "prompt" => i = Len(t)
    BY <1>0 DEF Tells
  <2> QED  BY <1>3, <1>4, <2>1, Zenon
<1>6. \A i \in 1..Len(Front(t)) : Front(t)[i] = "again" => NoticeIn(w, e)
  <2>1. \A i \in 1..Len(t) : t[i] = "again" => NoticeIn(w, e)
    BY <1>0 DEF Tells
  <2> QED  BY <1>3, <1>4, <2>1, Zenon
<1>7. ~NoticeIn(w, e) => own2 = None /\ buf2 = Visible(w)[e]
  <2> SUFFICES ASSUME ~NoticeIn(w, e) PROVE own2 = None /\ buf2 = Visible(w)[e]
    OBVIOUS
  <2>1. Shows(w, e, t, own_s)
    BY TextIsVisible, Zenon
  <2> QED  BY <2>1 DEF Shows
<1>8. w[e] # "again" /\ w[e] # "nl"
  BY <1>2
<1>9. Caught(e, w, Front(t), own2, buf2, asks_again)
  BY <1>2, <1>5, <1>6, <1>7, <1>8, Zenon DEF Caught
<1> QED  BY <1>9 DEF Lessens

LEMMA CaughtAnew ==
  ASSUME NEW w, NEW h, NEW q, NEW c, NEW own_s, NEW buf_s, NEW asks_again,
         Takes(w, h, q, c, own_s, buf_s, asks_again),
         NEW t, t = c \o q, NEW e, e = h + Len(q), NEW own2, NEW buf2,
         Len(t) > 1, t[Len(t)] = "nl", t[Len(t) - 1] = "again"
  PROVE  Caught(e, w, <<Head(t)>>, own2, buf2, TRUE)
<1>0. Tells(w, h, e, t, asks_again)
  BY TextFacts, Zenon
<1>1. t \in Seq(Mark) /\ Len(t) \in Nat /\ 1 \in 1..Len(t) /\ Len(t) - 1 \in 1..Len(t) /\ 1 # Len(t) /\ t # <<>>
  <2>1. t \in Seq(Mark)
    BY <1>0 DEF Tells
  <2> QED  BY <2>1, SeqFacts
<1>2. NoticeIn(w, e)
  BY <1>1, <1>0 DEF Tells
<1> DEFINE a == Head(t)
<1>3. a # "prompt"
  <2>1. a = t[1]
    BY <1>1, HeadTailProperties
  <2>2. t[1] # "prompt"
    BY <1>1, <1>0 DEF Tells
  <2> QED  BY <2>1, <2>2
<1> HIDE DEF a
<1>4. Len(<<a>>) = 1 /\ <<a>>[1] = a
  OBVIOUS
<1>5. \A i \in 1..Len(<<a>>) : <<a>>[i] # "prompt"
  <2>1. \A i \in 1..Len(<<a>>) : i = 1
    BY <1>4
  <2> QED  BY <1>3, <1>4, <2>1, Zenon
<1>6. ~(e > 0 /\ w[e] = "again")
  <2>1. e > 0 /\ w[e] = "again" => t[Len(t)] = "again"
    BY <1>0 DEF Tells
  <2>2. t[Len(t)] # "again"
    OBVIOUS
  <2> QED  BY <2>1, <2>2
<1> QED  BY <1>2, <1>5, <1>6, Zenon DEF Caught, a

\* Between the passwords that are asked for, there is the notice that one was wrong.
LEMMA LaterPrompt ==
  ASSUME NEW w, NEW h, NEW q, NEW c, NEW own_s, NEW buf_s, NEW asks_again,
         Takes(w, h, q, c, own_s, buf_s, asks_again), ~asks_again,
         NEW e, e = h + Len(q), e > h, w[e] = "prompt"
  PROVE  h = 0
<1>1. /\ w \in Seq(Mark) /\ q \in Seq(Mark)
      /\ h \in 0..Len(w) /\ e \in 1..Len(w)
      /\ Len(w) \in Nat /\ Len(q) \in Nat
  <2>1. w \in Seq(Mark) /\ q \in Seq(Mark) /\ h \in 0..Len(w) /\ h + Len(q) \in 0..Len(w)
    BY DEF Takes
  <2>2. Len(w) \in Nat /\ Len(q) \in Nat
    BY <2>1, SeqFacts
  <2> QED  BY <2>1, <2>2
<1> SUFFICES ASSUME h # 0 PROVE FALSE
  OBVIOUS
<1>2. e > 2 /\ w[e - 1] = "nl" /\ w[e - 2] = "again"
  BY <1>1 DEF Takes, Grammar
<1>3. CASE Len(q) = 1
  <2>1. h = e - 1 /\ h - 1 = e - 2 /\ h > 1
    BY <1>1, <1>2, <1>3
  <2>2. w[h] = "nl" /\ w[h - 1] = "again"
    BY <1>2, <2>1
  <2> QED  BY <2>1, <2>2 DEF Takes, Caught
<1>4. CASE Len(q) # 1
  <2>1. Len(q) - 1 \in 1..Len(q) /\ h + (Len(q) - 1) = e - 1
    <3>1. h \in Nat /\ e = h + Len(q) /\ e > h /\ Len(q) \in Nat
      BY <1>1
    <3> QED  BY <1>4, <3>1
  <2>2. q[Len(q) - 1] = "nl"
    <3>1. q[Len(q) - 1] = w[h + (Len(q) - 1)]
      BY <2>1 DEF Takes, Piece
    <3> QED  BY <1>2, <2>1, <3>1
  <2> QED  BY <1>4, <2>1, <2>2 DEF Takes, Piece
<1> QED  BY <1>3, <1>4

LEMMA PromptsCounted ==
  ASSUME NEW w, NEW h \in Nat, NEW e \in Nat, e >= h
  PROVE  /\ Cardinality(PromptsIn(w, h)) \in Nat
         /\ Cardinality(PromptsIn(w, h)) <= Cardinality(PromptsIn(w, e))
         /\ e > h /\ w[e] = "prompt" => Cardinality(PromptsIn(w, h)) + 1 <= Cardinality(PromptsIn(w, e))
         /\ h = 0 => Cardinality(PromptsIn(w, h)) = 0
<1>1. ASSUME NEW k \in Nat PROVE IsFiniteSet(PromptsIn(w, k)) /\ Cardinality(PromptsIn(w, k)) \in Nat
  <2>1. IsFiniteSet(1..k)
    BY FS_Interval
  <2>2. PromptsIn(w, k) \subseteq 1..k
    BY DEF PromptsIn
  <2>3. IsFiniteSet(PromptsIn(w, k))
    BY <2>1, <2>2, FS_Subset
  <2> QED  BY <2>3, FS_CardinalityType
<1>2. PromptsIn(w, h) \subseteq PromptsIn(w, e)
  BY DEF PromptsIn
<1>3. Cardinality(PromptsIn(w, h)) <= Cardinality(PromptsIn(w, e))
  BY <1>1, <1>2, FS_Subset
<1>4. ASSUME e > h, w[e] = "prompt"
      PROVE  Cardinality(PromptsIn(w, h)) + 1 <= Cardinality(PromptsIn(w, e))
  <2>1. e \notin PromptsIn(w, h) /\ PromptsIn(w, h) \cup {e} \subseteq PromptsIn(w, e)
    BY <1>2, <1>4 DEF PromptsIn
  <2>2. /\ IsFiniteSet(PromptsIn(w, h) \cup {e})
        /\ Cardinality(PromptsIn(w, h) \cup {e}) = Cardinality(PromptsIn(w, h)) + 1
    BY <1>1, <2>1, FS_AddElement
  <2>3. Cardinality(PromptsIn(w, h) \cup {e}) <= Cardinality(PromptsIn(w, e))
    BY <1>1, <2>1, FS_Subset
  <2> QED  BY <2>2, <2>3
<1>5. h = 0 => Cardinality(PromptsIn(w, h)) = 0
  <2>1. PromptsIn(w, 0) = {}
    BY DEF PromptsIn
  <2> QED  BY <2>1, FS_EmptySet
<1> QED  BY <1>1, <1>3, <1>4, <1>5

\* The first fragment is handled: its end is where the others go on.
LEMMA CutNext ==
  ASSUME NEW w \in Seq(Mark), NEW frags \in Seq(Seq(Mark)), frags # <<>>,
         NEW bytes \in Seq(Mark), NEW rest \in Seq(Mark),
         NEW cut, Follows(cut, w, frags, bytes, rest)
  PROVE  /\ Head(frags) \in Seq(Mark) /\ cut[0] \in 0..Len(w) /\ cut[1] \in 0..Len(w)
         /\ cut[1] = cut[0] + Len(Head(frags))
         /\ Piece(Head(frags), w, cut[0], cut[1])
         /\ \E cut2 : cut2[0] = cut[1] /\ Follows(cut2, w, Tail(frags), bytes, rest)
<1> DEFINE n == Len(frags)
           L == Len(w)
           T == Tail(frags)
           cut2 == [k \in 0..(n - 1) |-> cut[k + 1]]
<1>1. n \in Nat /\ n >= 1 /\ L \in Nat
  BY SeqFacts, EmptySeq
<1>2. Head(frags) = frags[1] /\ Head(frags) \in Seq(Mark)
  BY HeadTailProperties
<1>3. Len(T) = n - 1 /\ \A k \in 1..(n - 1) : T[k] = frags[k + 1]
  BY HeadTailProperties
<1> HIDE DEF n, L, T
<1>4. /\ cut \in [0..n -> 0..L]
      /\ \A k \in 1..n : Piece(frags[k], w, cut[k - 1], cut[k])
      /\ cut[n] + Len(bytes) + Len(rest) = L
      /\ \A i \in 1..Len(bytes) : bytes[i] = w[cut[n] + i]
      /\ \A i \in 1..Len(rest) : rest[i] = w[cut[n] + Len(bytes) + i]
  BY DEF Follows, n, L
<1>5. cut[0] \in 0..L /\ cut[1] \in 0..L
  BY <1>1, <1>4
<1>6. Piece(Head(frags), w, cut[0], cut[1])
  <2>1. 1 \in 1..n /\ 1 - 1 = 0
    BY <1>1
  <2>2. Piece(frags[1], w, cut[1 - 1], cut[1])
    BY <1>4, <2>1, Zenon
  <2> QED  BY <1>2, <2>1, <2>2, Zenon
<1>7. cut[1] = cut[0] + Len(Head(frags))
  BY <1>6, Zenon DEF Piece
<1>8. /\ cut2 \in [0..(n - 1) -> 0..L]
      /\ \A k \in 0..(n - 1) : cut2[k] = cut[k + 1]
  BY <1>1, <1>4
<1> HIDE DEF cut2
<1>9. cut2[0] = cut[1] /\ cut2[n - 1] = cut[n]
  <2>1. 0 \in 0..(n - 1) /\ n - 1 \in 0..(n - 1) /\ 0 + 1 = 1 /\ (n - 1) + 1 = n
    BY <1>1
  <2> QED  BY <1>8, <2>1
<1>10. ASSUME NEW k \in 1..(n - 1) PROVE Piece(T[k], w, cut2[k - 1], cut2[k])
  <2>1. k \in 0..(n - 1) /\ k - 1 \in 0..(n - 1) /\ k + 1 \in 1..n /\ (k + 1) - 1 = k /\ (k - 1) + 1 = k
    BY <1>1
  <2>2. T[k] = frags[k + 1] /\ cut2[k] = cut[k + 1] /\ cut2[k - 1] = cut[k]
    BY <1>3, <1>8, <2>1
  <2>3. Piece(frags[k + 1], w, cut[(k + 1) - 1], cut[k + 1])
    BY <1>4, <2>1, Zenon
  <2> QED  BY <2>1, <2>2, <2>3
<1>11. Follows(cut2, w, T, bytes, rest)
  <2>1. cut2[n - 1] + Len(bytes) + Len(rest) = L
    BY <1>4, <1>9
  <2>2. /\ \A i \in 1..Len(bytes) : bytes[i] = w[cut2[n - 1] + i]
        /\ \A i \in 1..Len(rest) : rest[i] = w[cut2[n - 1] + Len(bytes) + i]
    BY <1>4, <1>9
  <2> QED  BY <1>3, <1>8, <1>10, <2>1, <2>2, Zenon DEF Follows, L
<1> QED  BY <1>2, <1>5, <1>6, <1>7, <1>9, <1>11 DEF T, L

-----------------------------------------------------------------------------
(* More is written, and more is read.                                      *)

LEMMA GrammarOn ==
  ASSUME NEW w \in Seq(Mark), NEW marks \in Seq(Mark), Grammar(w), NEW v, v = w \o marks,
         w # <<>> /\ w[Len(w)] = "prompt" => marks # <<>> /\ marks[1] = "nl",
         \A i \in 1..Len(marks) : marks[i] = "prompt" =>
           /\ Len(marks) = 1
           /\ w # <<>> => Len(w) > 1 /\ w[Len(w)] = "nl" /\ w[Len(w) - 1] = "again"
  PROVE  Grammar(v)
<1>1. Len(w) \in Nat /\ Len(marks) \in Nat
  BY SeqFacts
<1>2. /\ Len(v) = Len(w) + Len(marks)
      /\ \A i \in 1..Len(w) : v[i] = w[i]
      /\ \A i \in 1..Len(marks) : v[Len(w) + i] = marks[i]
  BY JoinFacts
<1>3. ASSUME NEW i \in 1..Len(v), v[i] = "prompt", i < Len(v) PROVE v[i + 1] = "nl"
  <2>1. CASE i < Len(w)
    <3>1. i \in 1..Len(w) /\ i + 1 \in 1..Len(w)
      BY <1>1, <2>1
    <3>2. w[i] = "prompt"
      BY <1>2, <1>3, <3>1
    <3>3. w[i + 1] = "nl"
      BY <2>1, <3>1, <3>2 DEF Grammar
    <3> QED  BY <1>2, <3>1, <3>3
  <2>2. CASE i = Len(w)
    <3>1. i \in 1..Len(w) /\ Len(w) # 0
      BY <1>1, <2>2
    <3>2. w # <<>> /\ w[Len(w)] = "prompt"
      BY <1>2, <1>3, <2>2, <3>1
    <3>3. marks[1] = "nl" /\ 1 \in 1..Len(marks)
      BY <1>1, <1>2, <1>3, <2>2, <3>2
    <3> QED  BY <1>2, <2>2, <3>3
  <2>3. CASE i > Len(w)
    <3> DEFINE j == i - Len(w)
    <3>1. j \in 1..Len(marks) /\ i = Len(w) + j
      BY <1>1, <1>2, <2>3
    <3>2. marks[j] = "prompt"
      BY <1>2, <1>3, <3>1
    <3>3. Len(marks) = 1
      BY <3>1, <3>2
    <3>4. i = Len(v)
      BY <1>1, <1>2, <3>1, <3>3
    <3> QED  BY <1>1, <1>2, <1>3, <3>4
  <2>4. i < Len(w) \/ i = Len(w) \/ i > Len(w)
    <3>1. Len(v) \in Nat
      BY <1>1, <1>2
    <3> QED  BY <1>1, <3>1
  <2> QED  BY <2>1, <2>2, <2>3, <2>4, Zenon
<1>4. ASSUME NEW i \in 1..Len(v), v[i] = "prompt", i # 1
      PROVE  i > 2 /\ v[i - 1] = "nl" /\ v[i - 2] = "again"
  <2>1. CASE i <= Len(w)
    <3>1. i \in 1..Len(w) /\ w[i] = "prompt"
      BY <1>1, <1>2, <2>1, <1>4
    <3>2. i > 2 /\ w[i - 1] = "nl" /\ w[i - 2] = "again"
      BY <3>1, <1>4 DEF Grammar
    <3>3. i - 1 \in 1..Len(w) /\ i - 2 \in 1..Len(w)
      BY <1>1, <2>1, <3>2
    <3> QED  BY <1>2, <3>2, <3>3
  <2>2. CASE i > Len(w)
    <3> DEFINE j == i - Len(w)
    <3>1. j \in 1..Len(marks) /\ i = Len(w) + j
      BY <1>1, <1>2, <2>2
    <3>2. marks[j] = "prompt"
      BY <1>2, <1>4, <3>1
    <3>3. Len(marks) = 1 /\ (w # <<>> => Len(w) > 1 /\ w[Len(w)] = "nl" /\ w[Len(w) - 1] = "again")
      BY <3>1, <3>2
    <3>4. j = 1 /\ Len(w) # 0
      BY <1>1, <1>4, <3>1, <3>3
    <3>5. Len(w) > 1 /\ w[Len(w)] = "nl" /\ w[Len(w) - 1] = "again"
      BY <3>3, <3>4
    <3>6. i - 1 = Len(w) /\ i - 2 = Len(w) - 1 /\ Len(w) \in 1..Len(w) /\ Len(w) - 1 \in 1..Len(w)
      BY <1>1, <3>1, <3>4, <3>5
    <3> QED  BY <1>2, <3>5, <3>6
  <2> QED  BY <1>1, <2>1, <2>2
<1> QED  BY <1>3, <1>4 DEF Grammar

LEMMA Adds ==
  ASSUME NEW a \in Int, NEW b \in Int, NEW c \in Int, NEW d \in Int, NEW m \in Int, a + b + c = d
  PROVE  a + b + (c + m) = d + m
OBVIOUS

LEMMA PartIsLess ==
  ASSUME NEW a \in Int, NEW b \in Int, NEW c \in Nat, NEW d \in Int, a + b + c = d
  PROVE  a + b <= d
OBVIOUS

\* What a stream gets to write changes nothing for what it wrote before.
LEMMA WrittenOn ==
  ASSUME NEW w \in Seq(Mark), NEW marks \in Seq(Mark), NEW frags \in Seq(Seq(Mark)),
         NEW bytes \in Seq(Mark), NEW rest \in Seq(Mark), NEW cut, Follows(cut, w, frags, bytes, rest),
         NEW v, v = w \o marks, NEW rest2, rest2 = rest \o marks
  PROVE  /\ Follows(cut, v, frags, bytes, rest2)
         /\ \A c, own_s, buf_s, asks_again :
              Caught(cut[0], w, c, own_s, buf_s, asks_again) => Caught(cut[0], v, c, own_s, buf_s, asks_again)
         /\ \A place, n : Answered(cut[0], w, place, n) => Answered(cut[0], v, place, n)
<1> DEFINE N == Len(frags)
           h == cut[0]
<1>1. Len(w) \in Nat /\ Len(marks) \in Nat /\ N \in Nat /\ Len(bytes) \in Nat /\ Len(rest) \in Nat
  BY SeqFacts
<1>2. /\ v \in Seq(Mark) /\ Len(v) = Len(w) + Len(marks)
      /\ \A i \in 1..Len(w) : v[i] = w[i]
      /\ \A i \in 1..Len(marks) : v[Len(w) + i] = marks[i]
  BY JoinFacts
<1>3. /\ Len(rest2) = Len(rest) + Len(marks)
      /\ \A i \in 1..Len(rest) : rest2[i] = rest[i]
      /\ \A i \in 1..Len(marks) : rest2[Len(rest) + i] = marks[i]
  BY JoinFacts
<1> HIDE DEF N
<1>4. /\ cut \in [0..N -> 0..Len(w)]
      /\ \A k \in 1..N : Piece(frags[k], w, cut[k - 1], cut[k])
      /\ cut[N] + Len(bytes) + Len(rest) = Len(w)
      /\ \A i \in 1..Len(bytes) : bytes[i] = w[cut[N] + i]
      /\ \A i \in 1..Len(rest) : rest[i] = w[cut[N] + Len(bytes) + i]
  BY DEF Follows, N
<1>5. \A k \in 0..N : cut[k] \in 0..Len(w)
  BY <1>4
<1>6. cut \in [0..N -> 0..Len(v)]
  <2>1. 0..Len(w) \subseteq 0..Len(v)
    BY <1>1, <1>2
  <2> QED  BY <1>4, <2>1
<1>7. ASSUME NEW k \in 1..N PROVE Piece(frags[k], v, cut[k - 1], cut[k])
  <2>1. cut[k] \in 0..Len(w) /\ cut[k - 1] \in 0..Len(w)
    <3>1. k \in 0..N /\ k - 1 \in 0..N
      BY <1>1
    <3> QED  BY <1>5, <3>1
  <2> DEFINE q == frags[k]
             f == cut[k - 1]
  <2>2. Piece(q, w, f, cut[k])
    BY <1>4
  <2>3. \A i \in 1..Len(q) : f + i \in 1..Len(w)
    <3>1. cut[k] = f + Len(q)
      BY <2>2 DEF Piece
    <3>2. Len(q) \in Nat
      <4>1. q \in Seq(Mark)
        BY SeqFacts DEF N
      <4> QED  BY <4>1, SeqFacts
    <3>3. Len(w) \in Nat /\ f \in Nat /\ cut[k] <= Len(w)
      BY <1>1, <2>1
    <3> HIDE DEF q, f
    <3> QED  BY <3>1, <3>2, <3>3
  <2> HIDE DEF q, f
  <2>4. Piece(q, v, f, cut[k])
    BY <1>2, <2>2, <2>3 DEF Piece
  <2> QED  BY <2>4 DEF q, f
<1>8. cut[N] \in 0..Len(w)
  BY <1>1, <1>5
<1>9. cut[N] + Len(bytes) + Len(rest2) = Len(v)
  <2>1. cut[N] + Len(bytes) + Len(rest) = Len(w)
    BY <1>4
  <2>2. Len(rest2) = Len(rest) + Len(marks) /\ Len(v) = Len(w) + Len(marks)
    BY <1>2, <1>3
  <2> DEFINE a == cut[N]
             b == Len(bytes)
             c == Len(rest)
             d == Len(w)
             m == Len(marks)
  <2>3. a \in Int /\ b \in Int /\ c \in Int /\ d \in Int /\ m \in Int /\ a + b + c = d
    BY <1>1, <1>8, <2>1
  <2> HIDE DEF a, b, c, d, m
  <2>4. a + b + (c + m) = d + m
    BY <2>3, Adds
  <2> QED  BY <2>2, <2>4, Zenon DEF a, b, c, d, m
<1>10. \A i \in 1..Len(bytes) : bytes[i] = v[cut[N] + i]
  <2> SUFFICES ASSUME NEW i \in 1..Len(bytes) PROVE bytes[i] = v[cut[N] + i]
    OBVIOUS
  <2>1. cut[N] + i \in 1..Len(w)
    <3>1. cut[N] + Len(bytes) + Len(rest) = Len(w)
      BY <1>4
    <3> QED  BY <1>1, <1>8, <3>1
  <2> QED  BY <1>2, <1>4, <2>1
<1>11. \A i \in 1..Len(rest2) : rest2[i] = v[cut[N] + Len(bytes) + i]
  <2> SUFFICES ASSUME NEW i \in 1..Len(rest2) PROVE rest2[i] = v[cut[N] + Len(bytes) + i]
    OBVIOUS
  <2>1. cut[N] + Len(bytes) + Len(rest) = Len(w)
    BY <1>4
  <2>2. CASE i \in 1..Len(rest)
    <3>1. cut[N] + Len(bytes) + i \in 1..Len(w)
      BY <1>1, <1>8, <2>1, <2>2
    <3> QED  BY <1>2, <1>3, <1>4, <2>2, <3>1
  <2>3. CASE i \notin 1..Len(rest)
    <3> DEFINE j == i - Len(rest)
    <3>1. j \in 1..Len(marks) /\ i = Len(rest) + j
      BY <1>1, <1>3, <2>3
    <3>2. cut[N] + Len(bytes) + i = Len(w) + j
      <4> DEFINE a == cut[N]
                 b == Len(bytes)
                 c == Len(rest)
                 d == Len(w)
      <4>1. a \in Int /\ b \in Int /\ c \in Int /\ d \in Int /\ j \in Int /\ a + b + c = d
        BY <1>1, <1>8, <2>1, <3>1
      <4> HIDE DEF a, b, c, d, j
      <4>2. a + b + (c + j) = d + j
        BY <4>1, Adds
      <4>3. i = Len(rest) + j
        BY <3>1
      <4> QED  BY <4>2, <4>3, Zenon DEF a, b, c, d
    <3>3. rest2[Len(rest) + j] = marks[j] /\ v[Len(w) + j] = marks[j]
      BY <1>2, <1>3, <3>1, Zenon
    <3> QED  BY <3>1, <3>2, <3>3
  <2> QED  BY <2>2, <2>3
<1>12. Follows(cut, v, frags, bytes, rest2)
  BY <1>6, <1>7, <1>9, <1>10, <1>11, Zenon DEF Follows, N
<1>13. h \in 0..Len(w)
  BY <1>1, <1>5
<1> HIDE DEF h
<1>14. \A i \in 1..h : v[i] = w[i]
  <2>1. 1..h \subseteq 1..Len(w)
    BY <1>1, <1>13
  <2> QED  BY <1>2, <2>1
<1>15. NoticeIn(v, h) <=> NoticeIn(w, h)
  BY <1>14 DEF NoticeIn
<1>16. Visible(v)[h] = Visible(w)[h]
  <2>1. Len(w) <= Len(v)
    BY <1>1, <1>2
  <2> QED  BY <1>2, <1>13, <2>1, VisibleSame
<1>17. ASSUME NEW c, NEW own_s, NEW buf_s, NEW asks_again, Caught(h, w, c, own_s, buf_s, asks_again)
       PROVE  Caught(h, v, c, own_s, buf_s, asks_again)
  <2>1. h > 0 => v[h] = w[h]
    BY <1>13, <1>14
  <2>2. h > 1 => v[h - 1] = w[h - 1]
    <3>1. h > 1 => h - 1 \in 1..h
      BY <1>13
    <3> QED  BY <1>14, <3>1
  <2>3. h > 1 => h > 0
    BY <1>13
  <2> QED  BY <1>15, <1>16, <1>17, <2>1, <2>2, <2>3 DEF Caught
<1>18. ASSUME NEW place, NEW n, Answered(h, w, place, n) PROVE Answered(h, v, place, n)
  <2>1. PromptsIn(v, h) = PromptsIn(w, h)
    BY <1>14 DEF PromptsIn
  <2>2. h > 0 => v[h] = w[h]
    BY <1>13, <1>14
  <2> QED  BY <1>18, <2>1, <2>2 DEF Answered
<1> QED  BY <1>12, <1>17, <1>18 DEF h

ReadsOn(w, kept, rest, n, cut) ==
  LET bytes == kept \o SubSeq(rest, 1, n)
      rest2 == SubSeq(rest, n + 1, Len(rest))
  IN  /\ bytes \in Seq(Mark) /\ rest2 \in Seq(Mark)
      /\ Follows(cut, w, <<>>, bytes, rest2)
      /\ \E cut2 : cut2[0] = cut[0] /\ Follows(cut2, w, Fragments(bytes), <<>>, rest2)

LEMMA ReadOn ==
  ASSUME NEW w \in Seq(Mark), NEW kept \in Seq(Mark), NEW rest \in Seq(Mark), NEW n \in 1..Len(rest),
         NEW cut, Follows(cut, w, <<>>, kept, rest)
  PROVE  ReadsOn(w, kept, rest, n, cut)
<1> DEFINE bytes == kept \o SubSeq(rest, 1, n)
           rest2 == SubSeq(rest, n + 1, Len(rest))
           h == cut[0]
           some == SubSeq(rest, 1, n)
<1>1. Len(w) \in Nat /\ Len(kept) \in Nat /\ Len(rest) \in Nat
  BY SeqFacts
<1>2. some \in Seq(Mark) /\ Len(some) = n /\ \A i \in 1..n : some[i] = rest[i]
  <2>1. 1..n \subseteq 1..Len(rest)
    BY <1>1
  <2> QED  BY <1>1, <2>1, SeqFacts
<1> HIDE DEF some
<1>3. /\ bytes \in Seq(Mark) /\ Len(bytes) = Len(kept) + n
      /\ \A i \in 1..Len(kept) : bytes[i] = kept[i]
      /\ \A i \in 1..n : bytes[Len(kept) + i] = some[i]
  <2>1. bytes = kept \o some
    BY DEF some
  <2> HIDE DEF bytes
  <2>2. /\ kept \o some \in Seq(Mark) /\ Len(kept \o some) = Len(kept) + Len(some)
        /\ \A i \in 1..Len(kept) : (kept \o some)[i] = kept[i]
        /\ \A i \in 1..Len(some) : (kept \o some)[Len(kept) + i] = some[i]
    <3>1. some \in Seq(Mark)
      BY <1>2
    <3> QED  BY <3>1, JoinFacts
  <2>3. Len(some) = n
    BY <1>2
  <2> QED  BY <2>1, <2>2, <2>3, Zenon
<1>4. /\ rest2 \in Seq(Mark) /\ Len(rest2) = Len(rest) - n
      /\ \A i \in 1..(Len(rest) - n) : rest2[i] = rest[n + i]
  <2>1. n + 1 \in 1..(Len(rest) + 1) /\ Len(rest) \in n..Len(rest)
    BY <1>1
  <2>2. /\ rest2 \in Seq(Mark)
        /\ Len(rest2) = Len(rest) - n
    BY <1>1, <2>1, SubSeqProperties
  <2>3. \A i \in 1..(Len(rest) - n) : rest2[i] = rest[n + i]
    BY <1>1, <2>1, SubSeqProperties
  <2> QED  BY <2>2, <2>3
<1> HIDE DEF bytes, rest2
<1>5. /\ cut \in [0..0 -> 0..Len(w)] /\ h \in 0..Len(w)
      /\ h + Len(kept) + Len(rest) = Len(w)
      /\ \A i \in 1..Len(kept) : kept[i] = w[h + i]
      /\ \A i \in 1..Len(rest) : rest[i] = w[h + Len(kept) + i]
  <2>1. Len(<<>>) = 0
    OBVIOUS
  <2> QED  BY <2>1 DEF Follows
<1>6. \A i \in 1..Len(bytes) : bytes[i] = w[h + i]
  <2> SUFFICES ASSUME NEW i \in 1..Len(bytes) PROVE bytes[i] = w[h + i]
    OBVIOUS
  <2>1. CASE i \in 1..Len(kept)
    BY <1>3, <1>5, <2>1
  <2>2. CASE i \notin 1..Len(kept)
    <3> DEFINE j == i - Len(kept)
    <3>1. j \in 1..n /\ i = Len(kept) + j /\ j \in 1..Len(rest)
      BY <1>1, <1>3, <2>2
    <3>2. bytes[Len(kept) + j] = rest[j]
      BY <1>2, <1>3, <3>1
    <3>3. rest[j] = w[h + Len(kept) + j]
      BY <1>5, <3>1
    <3>4. h + i = h + Len(kept) + j
      BY <1>1, <1>5, <3>1
    <3> HIDE DEF j
    <3> QED  BY <3>1, <3>2, <3>3, <3>4
  <2> QED  BY <2>1, <2>2
<1>7. h + Len(bytes) + Len(rest2) = Len(w)
  <2>1. h + Len(kept) + Len(rest) = Len(w) /\ h \in Int
    BY <1>5
  <2>2. Len(bytes) = Len(kept) + n /\ Len(rest2) = Len(rest) - n
    BY <1>3, <1>4
  <2> QED  BY <1>1, <2>1, <2>2
<1>8. \A i \in 1..Len(rest2) : rest2[i] = w[h + Len(bytes) + i]
  <2> SUFFICES ASSUME NEW i \in 1..Len(rest2) PROVE rest2[i] = w[h + Len(bytes) + i]
    OBVIOUS
  <2>1. n + i \in 1..Len(rest) /\ h + Len(kept) + (n + i) = h + Len(bytes) + i
    BY <1>1, <1>3, <1>4, <1>5
  <2>2. rest2[i] = rest[n + i]
    BY <1>4
  <2>3. rest[n + i] = w[h + Len(kept) + (n + i)]
    BY <1>5, <2>1
  <2> QED  BY <2>1, <2>2, <2>3
<1>9. Follows(cut, w, <<>>, bytes, rest2)
  <2>1. Len(<<>>) = 0 /\ \A k \in 1..0 : FALSE
    OBVIOUS
  <2> QED  BY <1>5, <1>6, <1>7, <1>8, <2>1 DEF Follows
<1> DEFINE F == Fragments(bytes)
           N == Len(F)
           B == Len(bytes)
<1>10. F \in Seq(Seq(Mark)) /\ \E c : Pieces(c, F, bytes, B)
  BY <1>3, FragmentsFollow
<1>11. PICK c : Pieces(c, F, bytes, B)
  BY <1>10
<1>12. N \in Nat /\ B \in Nat
  BY <1>3, <1>10, SeqFacts
<1> HIDE DEF F, N, B, h
<1>13. /\ c \in [0..N -> 0..B] /\ c[0] = 0 /\ c[N] = B
       /\ \A k \in 1..N : Piece(F[k], bytes, c[k - 1], c[k])
  BY <1>11 DEF Pieces, N
<1> DEFINE cut2 == [k \in 0..N |-> h + c[k]]
<1>14. /\ cut2 \in [0..N -> 0..Len(w)]
       /\ \A k \in 0..N : cut2[k] = h + c[k]
  <2>1. \A k \in 0..N : h + c[k] \in 0..Len(w)
    <3> SUFFICES ASSUME NEW k \in 0..N PROVE h + c[k] \in 0..Len(w)
      OBVIOUS
    <3>1. c[k] \in 0..B /\ h \in Nat /\ h + B <= Len(w)
      <4>1. c[k] \in 0..B /\ h \in Nat
        <5>1. c[k] \in 0..B
          BY <1>13
        <5>2. h \in Nat
          BY <1>5
        <5> QED  BY <5>1, <5>2
      <4>2. h + B + Len(rest2) = Len(w) /\ Len(rest2) \in Nat
        BY <1>4, <1>7, SeqFacts DEF B
      <4>3. Len(w) \in Int /\ B \in Int /\ h \in Int
        BY <1>1, <1>12, <4>1
      <4>4. h + B <= Len(w)
        BY <4>2, <4>3, PartIsLess, Zenon
      <4> QED  BY <4>1, <4>4
    <3> QED  BY <1>1, <1>12, <3>1
  <2> QED  BY <2>1
<1> HIDE DEF cut2
<1>15. cut2[0] = h /\ cut2[N] = h + B
  <2>1. 0 \in 0..N /\ N \in 0..N
    BY <1>12
  <2> QED  BY <1>5, <1>13, <1>14, <2>1
<1>16. ASSUME NEW k \in 1..N PROVE Piece(F[k], w, cut2[k - 1], cut2[k])
  <2>1. k \in 0..N /\ k - 1 \in 0..N
    BY <1>12
  <2> DEFINE q == F[k]
             from == c[k - 1]
             to == c[k]
  <2>2. from \in 0..B /\ to \in 0..B /\ cut2[k] = h + to /\ cut2[k - 1] = h + from
    BY <1>13, <1>14, <2>1
  <2>3. q \in Seq(Mark)
    BY <1>10, SeqFacts DEF N
  <2>4. Piece(q, bytes, from, to)
    BY <1>13
  <2> HIDE DEF q, from, to
  <2>5. Len(q) \in Nat /\ to = from + Len(q)
    BY <2>3, <2>4, SeqFacts DEF Piece
  <2>6. \A i \in 1..Len(q) : q[i] = w[(h + from) + i]
    <3> SUFFICES ASSUME NEW i \in 1..Len(q) PROVE q[i] = w[(h + from) + i]
      OBVIOUS
    <3>1. from + i \in 1..B /\ h + (from + i) = (h + from) + i
      BY <1>5, <1>12, <2>2, <2>5
    <3>2. q[i] = bytes[from + i]
      BY <2>4 DEF Piece
    <3>3. bytes[from + i] = w[h + (from + i)]
      BY <1>6, <3>1 DEF B
    <3> QED  BY <3>1, <3>2, <3>3
  <2>7. h + to = (h + from) + Len(q)
    BY <1>5, <2>2, <2>5
  <2>8. \A i \in 1..Len(q) : q[i] = "nl" => Len(q) = 1
    BY <2>4 DEF Piece
  <2>9. Piece(q, w, h + from, h + to)
    BY <2>6, <2>7, <2>8 DEF Piece
  <2> QED  BY <2>2, <2>9 DEF q
<1>17. Follows(cut2, w, F, <<>>, rest2)
  <2>1. Len(<<>>) = 0 /\ \A i \in 1..0 : FALSE
    OBVIOUS
  <2>2. cut2[N] + 0 + Len(rest2) = Len(w)
    BY <1>1, <1>3, <1>4, <1>5, <1>7, <1>12, <1>15 DEF B
  <2>3. \A i \in 1..Len(rest2) : rest2[i] = w[cut2[N] + 0 + i]
    <3>1. cut2[N] + 0 = h + Len(bytes)
      BY <1>5, <1>12, <1>15 DEF B
    <3> QED  BY <1>8, <3>1
  <2> QED  BY <1>14, <1>16, <2>1, <2>2, <2>3 DEF Follows, N
<1> QED  BY <1>3, <1>4, <1>9, <1>15, <1>17 DEF F, h, bytes, rest2, ReadsOn

-----------------------------------------------------------------------------
(* The initial states, and the steps that leave the streams as they are.   *)

LEMMA MarkFacts ==
  ASSUME NEW marks \in Seq(Mark)
  PROVE  marks # None
BY NoneAssumption

LEMMA FirstFollows ==
  ASSUME NEW w, w = <<>>, NEW frags, frags = <<>>
  PROVE  /\ Follows([k \in 0..0 |-> 0], w, frags, <<>>, <<>>)
         /\ ~NoticeIn(w, 0)
         /\ Caught(0, w, <<>>, None, <<>>, FALSE)
         /\ \A place : place # "asking" => Answered(0, w, place, 0)
<1>1. Len(<<>>) = 0 /\ <<>> \in Seq(Mark)
  OBVIOUS
<1>2. \A k \in 1..0 : FALSE
  OBVIOUS
<1>3. Follows([k \in 0..0 |-> 0], w, frags, <<>>, <<>>)
  BY <1>1, <1>2 DEF Follows
<1>4. ~NoticeIn(w, 0)
  BY <1>2 DEF NoticeIn
<1>5. Caught(0, w, <<>>, None, <<>>, FALSE)
  <2>1. Visible(w)[0] = <<>>
    BY <1>1, VisibleValues
  <2> QED  BY <1>1, <1>2, <2>1 DEF Caught
<1>6. ASSUME NEW place, place # "asking" PROVE Answered(0, w, place, 0)
  <2>1. Cardinality(PromptsIn(w, 0)) = 0
    BY PromptsCounted
  <2> QED  BY <1>6, <2>1 DEF Answered
<1> QED  BY <1>3, <1>4, <1>5, <1>6

LEMMA OptionFacts ==
  ASSUME options \in Options
  PROVE  /\ options.sudo \in BOOLEAN /\ options.cached \in Password \cup {None}
         /\ SudoStream \in Stream
BY OptionsAssumption DEF SudoStream, Stream

LEMMA InitInv == Init => IInv
<1> SUFFICES ASSUME Init PROVE IInv
  OBVIOUS
<1>1. TypeOK
  BY OptionFacts DEF Init, TypeOK, Stream, Lines, Workers
<1>2. ThreadPart
  BY DEF Init, ThreadPart, Stream, Workers
<1>3. SudoPart
  <2>1. \A s \in Stream : written[s] = <<>>
    BY DEF Init
  <2>2. SudoStream \in Stream /\ options.sudo \in BOOLEAN
    BY OptionFacts DEF Init
  <2>3. Len(<<>>) = 0 /\ \A i \in 1..0 : FALSE
    OBVIOUS
  <2>4. Grammar(<<>>)
    BY <2>3 DEF Grammar
  <2> QED  BY <2>1, <2>2, <2>3, <2>4 DEF SudoPart
<1>4. ASSUME NEW s \in Stream PROVE StreamAt(s)
  <2>1. /\ written[s] = <<>> /\ todo[s] = <<>> /\ raw[s] = <<>> /\ wire[s] = <<>>
        /\ own[s] = None /\ buf[s] = <<>> /\ reprompt[s] = FALSE /\ sent = 0 /\ thread[s] # "asking"
    BY DEF Init, Stream
  <2>2. Captured(s) = <<>>
    BY <2>1 DEF Captured
  <2> DEFINE cut == [k \in 0..0 |-> 0]
  <2>3. cut[0] = 0
    OBVIOUS
  <2>4. Follows(cut, written[s], todo[s], raw[s], wire[s])
    BY <2>1, FirstFollows
  <2> HIDE DEF cut
  <2>5. Caught(cut[0], written[s], Captured(s), own[s], buf[s], reprompt[s])
    BY <2>1, <2>2, <2>3, FirstFollows
  <2>6. Answered(cut[0], written[s], thread[s], IF s = SudoStream THEN sent ELSE 0)
    BY <2>1, <2>3, FirstFollows
  <2> QED  BY <2>4, <2>5, <2>6 DEF StreamAt
<1>5. HistoryPart
  BY DEF Init, HistoryPart
<1> QED  BY <1>1, <1>2, <1>3, <1>4, <1>5 DEF IInv, StreamPart

LEMMA CutStarts ==
  ASSUME NEW w \in Seq(Mark), NEW frags \in Seq(Seq(Mark)), NEW bytes, NEW rest,
         NEW cut, Follows(cut, w, frags, bytes, rest)
  PROVE  cut[0] \in 0..Len(w) /\ cut[0] \in Nat
<1>1. Len(w) \in Nat /\ Len(frags) \in Nat
  BY SeqFacts
<1>2. cut \in [0..Len(frags) -> 0..Len(w)]
  BY DEF Follows
<1> QED  BY <1>1, <1>2

\* A stream that nobody touches; its thread may have ended.
LEMMA StreamSame ==
  ASSUME NEW s \in Stream, TypeOK, HistoryPart, StreamAt(s),
         written'[s] = written[s], todo'[s] = todo[s], raw'[s] = raw[s], wire'[s] = wire[s],
         own'[s] = own[s], buf'[s] = buf[s], reprompt'[s] = reprompt[s],
         thread'[s] = "asking" => thread[s] = "asking",
         options' = options, s = SudoStream => sent' = sent
  PROVE  StreamAt(s)'
<1>1. PICK cut :
        /\ Follows(cut, written[s], todo[s], raw[s], wire[s])
        /\ Caught(cut[0], written[s], Captured(s), own[s], buf[s], reprompt[s])
        /\ Answered(cut[0], written[s], thread[s], IF s = SudoStream THEN sent ELSE 0)
  BY Zenon DEF StreamAt
<1>2. Captured(s)' = Captured(s) /\ SudoStream' = SudoStream
  BY DEF Captured, SudoStream
<1>3. (IF s = SudoStream' THEN sent' ELSE 0) = IF s = SudoStream THEN sent ELSE 0
  BY <1>2
<1>4. cut[0] \in Nat /\ sent \in Nat
  <2>1. written[s] \in Seq(Mark) /\ todo[s] \in Seq(Seq(Mark)) /\ sent \in Nat
    BY DEF TypeOK, HistoryPart
  <2> QED  BY <1>1, <2>1, CutStarts
<1> DEFINE n == IF s = SudoStream THEN sent ELSE 0
<1>5. Answered(cut[0], written[s], thread'[s], n)
  <2>1. Cardinality(PromptsIn(written[s], cut[0])) \in Nat
    BY <1>4, PromptsCounted
  <2>2. n \in Nat
    BY <1>4
  <2>3. Answered(cut[0], written[s], thread[s], n)
    BY <1>1
  <2> HIDE DEF n
  <2> QED  BY <2>1, <2>2, <2>3 DEF Answered
<1> QED  BY <1>1, <1>2, <1>3, <1>5 DEF StreamAt

\* What the streams, the passwords sent and typed, and sudo are left with.
Quiet == UNCHANGED <<options, buf, own, raw, todo, reprompt, wire, written, sent, asked>>

LEMMA QuietStreams ==
  ASSUME IInv, Quiet, \A s \in Stream : thread'[s] = "asking" => thread[s] = "asking"
  PROVE  StreamPart' /\ HistoryPart'
<1>1. ASSUME NEW s \in Stream PROVE StreamAt(s)'
  <2>1. TypeOK /\ HistoryPart /\ StreamAt(s)
    BY DEF IInv, StreamPart
  <2> QED  BY <2>1, StreamSame DEF Quiet
<1>2. HistoryPart'
  BY DEF IInv, HistoryPart, Quiet
<1> QED  BY <1>1, <1>2 DEF StreamPart

LEMMA QuietSudo ==
  ASSUME SudoPart, options' = options, written' = written, phase' = phase,
         waiting' = waiting \/ phase # "sudo", Running' => Running
  PROVE  SudoPart'
<1>1. SudoStream' = SudoStream
  BY DEF SudoStream
<1> QED  BY <1>1 DEF SudoPart, Running

\* A step of the main thread.
LEMMA MainStep ==
  ASSUME IInv, Main \/ Interrupt
  PROVE  IInv'
<1> USE DEF IInv
<1>1. /\ Quiet /\ thread' = thread /\ phase' = phase /\ waiting' = waiting /\ status' = status
      /\ \A s \in Stream : thread'[s] = "asking" => thread[s] = "asking"
  BY DEF Main, Poll, CheckWorkers, Interrupt, Join, Return, Quiet, history, remote
<1>2. TypeOK'
  <2>1. CASE Poll
    BY <2>1 DEF TypeOK, Poll, remote
  <2>2. CASE CheckWorkers
    BY <2>2 DEF TypeOK, CheckWorkers, remote
  <2>3. CASE Interrupt
    BY <2>3 DEF TypeOK, Interrupt, remote
  <2>4. CASE Join
    <3>1. joined' \in 0..Len(Workers)
      BY <2>4 DEF TypeOK, Join, Workers
    <3> QED  BY <2>4, <3>1 DEF TypeOK, Join, remote
  <2>5. CASE Return
    <3>1. status # None
      BY <2>5 DEF ThreadPart, Return
    <3> QED  BY <2>5, <3>1 DEF TypeOK, Return
  <2> QED  BY <2>1, <2>2, <2>3, <2>4, <2>5 DEF Main
<1>3. ThreadPart'
  <2>1. /\ \A s \in Stream :
             /\ thread[s] \in {"read", "fragments", "asking", "done", "failed"}
             /\ thread[s] = "fragments" => todo[s] # <<>>
             /\ thread[s] \in {"read", "done"} => todo[s] = <<>>
             /\ thread[s] = "done" => flow'[s] = "ended" /\ wire[s] = <<>> /\ raw[s] = <<>>
        /\ thread["in"] \in {"check", "key", "send", "done", "failed"}
    <3>1. \A s \in Stream : flow[s] = "ended" => flow'[s] = "ended"
      BY DEF Main, Poll, CheckWorkers, Interrupt, Join, Return, remote
    <3> QED  BY <3>1 DEF ThreadPart
  <2>2. /\ pc' \in {"join", "returned", "aborted"} => status # None
        /\ pc' \in {"returned", "aborted"} => joined' = Len(Workers)
        /\ pc' # "raised" => \A i \in 1..joined' : thread[Workers[i]] = "done"
    <3>1. CASE Poll
      BY <3>1 DEF ThreadPart, Poll
    <3>2. CASE CheckWorkers
      BY <3>2 DEF ThreadPart, CheckWorkers
    <3>3. CASE Interrupt
      BY <3>3 DEF ThreadPart, Interrupt
    <3>4. CASE Join
      <4> DEFINE w == Workers[joined + 1]
      <4>1. /\ joined \in Nat /\ joined' = joined + 1 /\ pc = "join"
            /\ thread[w] \in {"done", "failed"}
            /\ pc' = IF thread[w] = "failed" THEN "raised" ELSE pc
        BY <3>4 DEF Join, TypeOK, Ended, Failed
      <4> HIDE DEF w
      <4>2. pc' # "raised" => thread[w] = "done"
        BY <4>1
      <4>3. \A i \in 1..joined' : i \in 1..joined \/ i = joined + 1
        BY <4>1
      <4>4. pc' # "raised" => \A i \in 1..joined' : thread[Workers[i]] = "done"
        BY <4>1, <4>2, <4>3 DEF ThreadPart, w
      <4> QED  BY <4>1, <4>4 DEF ThreadPart
    <3>5. CASE Return
      BY <3>5 DEF ThreadPart, Return
    <3> QED  BY <3>1, <3>2, <3>3, <3>4, <3>5 DEF Main
  <2> QED  BY <1>1, <2>1, <2>2, Zenon DEF ThreadPart, Quiet
<1>4. SudoPart'
  BY <1>1, QuietSudo DEF Quiet, Running
<1>5. StreamPart' /\ HistoryPart'
  BY <1>1, QuietStreams
<1> QED  BY <1>2, <1>3, <1>4, <1>5

\* What ThreadPart says that no worker changes of the main thread.
LEMMA WorkerMoves ==
  ASSUME TypeOK, ThreadPart, NEW w \in {"out", "err", "in"}, NEW place, Goes(w, place),
         thread[w] # "done", pc' = pc, joined' = joined
  PROVE  /\ \A v \in {"out", "err", "in"} : v # w => thread'[v] = thread[v]
         /\ thread'[w] = place
         /\ pc' \in {"returned", "aborted"} => joined' = Len(Workers)
         /\ pc' # "raised" => \A i \in 1..joined' : thread'[Workers[i]] = "done"
<1>1. (\A v \in {"out", "err", "in"} : v # w => thread'[v] = thread[v]) /\ thread'[w] = place
  BY DEF TypeOK, Goes
<1>2. \A i \in 1..joined : Workers[i] \in {"out", "err", "in"}
  <2>1. 1..joined \subseteq {1, 2, 3}
    BY DEF TypeOK, Workers
  <2> QED  BY <2>1 DEF Workers
<1>3. pc # "raised" => \A i \in 1..joined : thread'[Workers[i]] = "done"
  <2> SUFFICES ASSUME pc # "raised", NEW i \in 1..joined PROVE thread'[Workers[i]] = "done"
    OBVIOUS
  <2>1. thread[Workers[i]] = "done" /\ Workers[i] \in {"out", "err", "in"}
    BY <1>2 DEF ThreadPart
  <2> QED  BY <1>1, <2>1
<1> QED  BY <1>1, <1>3 DEF ThreadPart

\* A step of the input thread.
LEMMA InputStep ==
  ASSUME IInv, InputCheck \/ InputKey \/ InputAnswer \/ InputSend \/ InputEnds
  PROVE  IInv'
<1> USE DEF IInv
<1>1. PICK place \in {"check", "key", "send", "done", "failed"} :
        Goes("in", place) /\ (inbox' = inbox \/ inbox' = Append(inbox, "key"))
  BY DEF InputCheck, InputKey, InputAnswer, InputSend, InputEnds, Sends, remote
<1>2. /\ Quiet /\ pc' = pc /\ joined' = joined /\ enabled' = enabled /\ password' = password
      /\ phase' = phase /\ waiting' = waiting
      /\ status' = status /\ flow' = flow /\ closed' = closed
      /\ thread["in"] # "done"
  BY DEF InputCheck, InputKey, InputAnswer, InputSend, InputEnds, Quiet, history, remote
<1>3. /\ \A v \in {"out", "err", "in"} : v # "in" => thread'[v] = thread[v]
      /\ thread'["in"] = place
      /\ pc' \in {"returned", "aborted"} => joined' = Len(Workers)
      /\ pc' # "raised" => \A i \in 1..joined' : thread'[Workers[i]] = "done"
  BY <1>1, <1>2, WorkerMoves
<1>4. \A s \in Stream : thread'[s] = thread[s]
  BY <1>3 DEF Stream
<1>5. TypeOK'
  <2>1. inbox' \in Seq(Lines)
    <3>1. inbox \in Seq(Lines) /\ "key" \in Lines
      BY DEF TypeOK, Lines
    <3> QED  BY <1>1, <3>1, AppendProperties
  <2>2. thread' \in [{"out", "err", "in"} ->
                    {"read", "fragments", "asking", "check", "key", "send", "done", "failed"}]
    BY <1>1 DEF TypeOK, Goes
  <2> QED  BY <1>2, <1>4, <2>1, <2>2 DEF TypeOK, Quiet
<1>6. ThreadPart'
  <2>1. thread'["in"] \in {"check", "key", "send", "done", "failed"}
    BY <1>3
  <2> QED  BY <1>2, <1>3, <1>4, <2>1 DEF ThreadPart, Quiet
<1>7. SudoPart'
  BY <1>2, QuietSudo DEF Quiet, Running
<1>8. StreamPart' /\ HistoryPart'
  BY <1>2, <1>4, QuietStreams
<1> QED  BY <1>5, <1>6, <1>7, <1>8

\* The command reads, exits, writes without a pause, or a stream or the channel ends.
LEMMA RemoteStep ==
  ASSUME IInv, Reads \/ EndsOutput \/ Closes \/ (\E s \in Stream : NeverPauses(s))
               \/ \E code \in {0, 1} : Exits(code)
  PROVE  IInv'
<1> USE DEF IInv
<1>1. /\ Quiet /\ thread' = thread /\ pc' = pc /\ joined' = joined /\ enabled' = enabled /\ password' = password
      /\ phase' = phase /\ (waiting' = waiting \/ phase # "sudo")
      /\ (\A s \in Stream : flow[s] = "ended" => flow'[s] = "ended")
      /\ flow' \in [Stream -> {"some", "endless", "ended"}]
      /\ (inbox' = inbox \/ (inbox # <<>> /\ inbox' = Tail(inbox)))
      /\ \A s \in Stream : thread'[s] = "asking" => thread[s] = "asking"
  <2>0. flow \in [Stream -> {"some", "endless", "ended"}]
    BY DEF TypeOK
  <2>1. CASE Reads
    BY <2>0, <2>1 DEF Reads, Quiet, history, local
  <2>2. CASE EndsOutput
    BY <2>0, <2>2 DEF EndsOutput, Quiet, history, local
  <2>3. CASE Closes
    BY <2>0, <2>3 DEF Closes, Quiet, history, local
  <2>4. ASSUME NEW t \in Stream, NeverPauses(t)
        PROVE  /\ \A s \in Stream : flow[s] = "ended" => flow'[s] = "ended"
               /\ flow' \in [Stream -> {"some", "endless", "ended"}]
    <3>1. flow[t] = "some" /\ flow' = [flow EXCEPT ![t] = "endless"]
      BY <2>4 DEF NeverPauses
    <3> QED  BY <2>0, <3>1
  <2>5. CASE \E s \in Stream : NeverPauses(s)
    BY <2>4, <2>5 DEF NeverPauses, Quiet, history, local
  <2>6. CASE \E code \in {0, 1} : Exits(code)
    BY <2>0, <2>6 DEF Exits, Quiet, history, local
  <2> QED  BY <2>1, <2>2, <2>3, <2>5, <2>6
<1>2. status' \in {None, 0, 1, -1} /\ (status # None => status' = status)
      /\ (closed' => status' # None /\ \A s \in Stream : flow'[s] = "ended")
  <2>0. /\ status \in {None, 0, 1, -1}
        /\ closed => status # None /\ \A s \in Stream : flow[s] = "ended"
    BY DEF TypeOK
  <2>1. CASE Reads
    BY <2>0, <2>1 DEF Reads
  <2>2. CASE EndsOutput
    BY <2>0, <2>2 DEF EndsOutput
  <2>3. CASE Closes
    BY <2>0, <2>3, NoneAssumption DEF Closes, Running
  <2>4. CASE \E s \in Stream : NeverPauses(s)
    BY <2>0, <2>4 DEF NeverPauses
  <2>5. CASE \E code \in {0, 1} : Exits(code)
    BY <2>0, <2>5, NoneAssumption DEF Exits, Running
  <2> QED  BY <2>1, <2>2, <2>3, <2>4, <2>5
<1>3. TypeOK'
  <2>1. inbox' \in Seq(Lines)
    <3>1. inbox \in Seq(Lines)
      BY DEF TypeOK
    <3> QED  BY <1>1, <3>1, HeadTailProperties
  <2> QED  BY <1>1, <1>2, <2>1 DEF TypeOK, Quiet
<1>4. ThreadPart'
  BY <1>1, <1>2 DEF ThreadPart, Quiet
<1>5. SudoPart'
  BY <1>1, <1>2, QuietSudo DEF Quiet, Running
<1>6. StreamPart' /\ HistoryPart'
  BY <1>1, QuietStreams
<1> QED  BY <1>3, <1>4, <1>5, <1>6

-----------------------------------------------------------------------------
(* What is written.                                                        *)

LEMMA PutsOn ==
  ASSUME IInv, NEW t \in Stream, NEW marks \in Seq(Mark), Puts(t, marks),
         UNCHANGED <<options, buf, own, raw, todo, reprompt, thread, sent, asked>>
  PROVE  /\ StreamPart' /\ HistoryPart'
         /\ wire' \in [Stream -> Seq(Mark)]
         /\ written'[t] = written[t] \o marks
         /\ \A s \in Stream : s # t => written'[s] = written[s]
<1>1. /\ wire \in [Stream -> Seq(Mark)] /\ written \in [Stream -> Seq(Mark)]
      /\ raw \in [Stream -> Seq(Mark)] /\ todo \in [Stream -> Seq(Seq(Mark))]
      /\ TypeOK /\ HistoryPart
  BY DEF IInv, TypeOK, HistoryPart
<1>2. /\ wire'[t] = wire[t] \o marks /\ written'[t] = written[t] \o marks
      /\ \A s \in Stream : s # t => wire'[s] = wire[s] /\ written'[s] = written[s]
  BY <1>1 DEF Puts
<1>3. wire' \in [Stream -> Seq(Mark)] /\ written' \in [Stream -> Seq(Mark)]
  <2>1. wire[t] \o marks \in Seq(Mark) /\ written[t] \o marks \in Seq(Mark)
    <3>1. wire[t] \in Seq(Mark) /\ written[t] \in Seq(Mark)
      BY <1>1
    <3> QED  BY <3>1, JoinFacts
  <2> QED  BY <1>1, <2>1 DEF Puts
<1>4. HistoryPart'
  BY <1>3 DEF IInv, HistoryPart
<1>5. ASSUME NEW s \in Stream PROVE StreamAt(s)'
  <2>0. StreamAt(s)
    BY DEF IInv, StreamPart
  <2>1. CASE s # t
    BY <1>1, <1>2, <2>0, <2>1, StreamSame
  <2>2. CASE s = t
    <3>1. PICK cut :
            /\ Follows(cut, written[t], todo[t], raw[t], wire[t])
            /\ Caught(cut[0], written[t], Captured(t), own[t], buf[t], reprompt[t])
            /\ Answered(cut[0], written[t], thread[t], IF t = SudoStream THEN sent ELSE 0)
      BY <2>0, <2>2, Zenon DEF StreamAt
    <3>2. written[t] \in Seq(Mark) /\ todo[t] \in Seq(Seq(Mark)) /\ raw[t] \in Seq(Mark) /\ wire[t] \in Seq(Mark)
      BY <1>1
    <3>3. /\ Follows(cut, written'[t], todo[t], raw[t], wire'[t])
          /\ Caught(cut[0], written'[t], Captured(t), own[t], buf[t], reprompt[t])
          /\ Answered(cut[0], written'[t], thread[t], IF t = SudoStream THEN sent ELSE 0)
      <4>1. wire'[t] = wire[t] \o marks /\ written'[t] = written[t] \o marks
        BY <1>2
      <4>2. /\ Follows(cut, written'[t], todo[t], raw[t], wire'[t])
            /\ \A c, own_s, buf_s, asks_again :
                 Caught(cut[0], written[t], c, own_s, buf_s, asks_again)
                   => Caught(cut[0], written'[t], c, own_s, buf_s, asks_again)
            /\ \A place, n : Answered(cut[0], written[t], place, n) => Answered(cut[0], written'[t], place, n)
        BY <3>1, <3>2, <4>1, WrittenOn, Zenon
      <4> QED  BY <3>1, <4>2, Zenon
    <3>4. Captured(t)' = Captured(t) /\ SudoStream' = SudoStream
      BY DEF Captured, SudoStream
    <3>5. /\ todo'[t] = todo[t] /\ raw'[t] = raw[t] /\ own'[t] = own[t] /\ buf'[t] = buf[t]
          /\ reprompt'[t] = reprompt[t] /\ thread'[t] = thread[t] /\ sent' = sent
      OBVIOUS
    <3>6. \E cut2 :
            /\ Follows(cut2, written'[t], todo'[t], raw'[t], wire'[t])
            /\ Caught(cut2[0], written'[t], Captured(t)', own'[t], buf'[t], reprompt'[t])
            /\ Answered(cut2[0], written'[t], thread'[t], IF t = SudoStream' THEN sent' ELSE 0)
      BY <3>3, <3>4, <3>5
    <3> QED  BY <2>2, <3>6, Zenon DEF StreamAt
  <2> QED  BY <2>1, <2>2
<1> QED  BY <1>2, <1>3, <1>4, <1>5 DEF StreamPart

\* The parts about the threads, when something is written.
LEMMA PutsTypes ==
  ASSUME IInv, NEW t \in Stream, NEW marks \in Seq(Mark), Puts(t, marks),
         UNCHANGED <<options, local, flow, closed, sent, asked>>,
         status' = status \/ status' = 1, inbox' = inbox \/ (inbox # <<>> /\ inbox' = Tail(inbox))
  PROVE  TypeOK' /\ ThreadPart' /\ StreamPart' /\ HistoryPart'
<1>1. StreamPart' /\ HistoryPart' /\ wire' \in [Stream -> Seq(Mark)]
  BY PutsOn DEF local
<1>2. inbox' \in Seq(Lines)
  <2>1. inbox \in Seq(Lines)
    BY DEF IInv, TypeOK
  <2> QED  BY <2>1, HeadTailProperties
<1>3. status # None => status' # None
  BY NoneAssumption
<1>4. TypeOK'
  BY <1>1, <1>2, <1>3 DEF IInv, TypeOK, local
<1>5. ThreadPart'
  <2>1. thread[t] # "done"
    BY DEF IInv, ThreadPart, Puts
  <2>2. \A s \in Stream : s # t => wire'[s] = wire[s]
    BY DEF Puts, IInv, TypeOK
  <2> QED  BY <1>3, <2>1, <2>2 DEF IInv, ThreadPart, local
<1> QED  BY <1>1, <1>4, <1>5

\* The grammar of a stream and who writes to it, after more marks.
LEMMA PutsGrammar ==
  ASSUME IInv, NEW t \in Stream, NEW marks \in Seq(Mark), Puts(t, marks), options' = options,
         written'[t] = written[t] \o marks, \A s \in Stream : s # t => written'[s] = written[s],
         written[t] # <<>> /\ written[t][Len(written[t])] = "prompt" => marks # <<>> /\ marks[1] = "nl",
         \A i \in 1..Len(marks) : marks[i] = "prompt" =>
           /\ Len(marks) = 1 /\ t = SudoStream
           /\ written[t] # <<>> =>
                /\ Len(written[t]) > 1 /\ written[t][Len(written[t])] = "nl"
                /\ written[t][Len(written[t]) - 1] = "again"
  PROVE  /\ \A s \in Stream : Grammar(written'[s])
         /\ \A s \in Stream : \A i \in 1..Len(written'[s]) : written'[s][i] = "prompt" => s = SudoStream
<1>1. written[t] \in Seq(Mark) /\ Len(written[t]) \in Nat /\ Len(marks) \in Nat
  <2>1. written[t] \in Seq(Mark)
    BY DEF IInv, HistoryPart
  <2> QED  BY <2>1, SeqFacts
<1>2. Grammar(written'[t])
  <2>1. Grammar(written[t])
    BY DEF IInv, SudoPart
  <2> QED  BY <1>1, <2>1, GrammarOn
<1>3. \A i \in 1..Len(written'[t]) : written'[t][i] = "prompt" => t = SudoStream
  <2> SUFFICES ASSUME NEW i \in 1..Len(written'[t]), written'[t][i] = "prompt" PROVE t = SudoStream
    OBVIOUS
  <2>1. /\ Len(written'[t]) = Len(written[t]) + Len(marks)
        /\ \A k \in 1..Len(written[t]) : written'[t][k] = written[t][k]
        /\ \A k \in 1..Len(marks) : written'[t][Len(written[t]) + k] = marks[k]
    BY <1>1, JoinFacts
  <2>2. CASE i \in 1..Len(written[t])
    BY <2>1, <2>2 DEF IInv, SudoPart
  <2>3. CASE i \notin 1..Len(written[t])
    <3>1. i - Len(written[t]) \in 1..Len(marks) /\ i = Len(written[t]) + (i - Len(written[t]))
      BY <1>1, <2>1, <2>3
    <3>2. marks[i - Len(written[t])] = "prompt"
      BY <2>1, <3>1
    <3> QED  BY <3>1, <3>2
  <2> QED  BY <2>2, <2>3
<1> QED  BY <1>2, <1>3 DEF IInv, SudoPart

\* The last marks of what was written.
LEMMA LastMarks ==
  ASSUME NEW w \in Seq(Mark), NEW marks \in Seq(Mark), NEW v, v = w \o marks, Len(marks) > 0
  PROVE  /\ v # <<>> /\ Len(v) = Len(w) + Len(marks)
         /\ v[Len(v)] = marks[Len(marks)]
         /\ Len(marks) > 1 => Len(v) > 1 /\ v[Len(v) - 1] = marks[Len(marks) - 1]
<1>1. Len(w) \in Nat /\ Len(marks) \in Nat
  BY SeqFacts
<1>2. /\ Len(v) = Len(w) + Len(marks)
      /\ \A k \in 1..Len(marks) : v[Len(w) + k] = marks[k]
  BY JoinFacts
<1>3. Len(marks) \in 1..Len(marks) /\ Len(v) > 0
  BY <1>1, <1>2
<1>4. v[Len(v)] = marks[Len(marks)]
  BY <1>2, <1>3
<1>5. ASSUME Len(marks) > 1 PROVE Len(v) > 1 /\ v[Len(v) - 1] = marks[Len(marks) - 1]
  <2>1. Len(marks) - 1 \in 1..Len(marks) /\ Len(v) - 1 = Len(w) + (Len(marks) - 1) /\ Len(v) > 1
    BY <1>1, <1>2, <1>5
  <2>2. v[Len(w) + (Len(marks) - 1)] = marks[Len(marks) - 1]
    BY <1>2, <2>1, Zenon
  <2> QED  BY <2>1, <2>2
<1> QED  BY <1>2, <1>3, <1>4, <1>5

LEMMA Literals ==
  /\ \A a \in Mark : <<a>> \in Seq(Mark) /\ Len(<<a>>) = 1 /\ <<a>>[1] = a
  /\ \A a, b \in Mark :
       <<a, b>> \in Seq(Mark) /\ Len(<<a, b>>) = 2 /\ <<a, b>>[1] = a /\ <<a, b>>[2] = b
  /\ \A a, b, c \in Mark :
       /\ <<a, b, c>> \in Seq(Mark) /\ Len(<<a, b, c>>) = 3
       /\ <<a, b, c>>[1] = a /\ <<a, b, c>>[2] = b /\ <<a, b, c>>[3] = c
<1> HIDE DEF Mark
<1> QED  OBVIOUS

LEMMA SudoAsksStep ==
  ASSUME IInv, SudoAsks PROVE IInv'
<1> DEFINE t == SudoStream
           w == written[t]
<1>1. PICK marks \in Seq(Mark) : marks = <<"prompt">> /\ Len(marks) = 1 /\ marks[1] = "prompt"
  <2>1. "prompt" \in Mark
    BY DEF Mark
  <2> QED  BY <2>1, Literals, Zenon
<1>2. /\ Puts(t, marks) /\ Running /\ phase = "sudo" /\ ~waiting /\ waiting' /\ phase' = phase
      /\ UNCHANGED <<options, local, flow, closed, sent, asked>> /\ status' = status /\ inbox' = inbox
      /\ SudoStream' = SudoStream
  BY <1>1 DEF SudoAsks, SudoStream
<1>3. t \in Stream
  BY OptionFacts DEF IInv, TypeOK
<1> HIDE DEF t
<1>5. TypeOK' /\ ThreadPart' /\ StreamPart' /\ HistoryPart'
  BY <1>2, <1>3, PutsTypes
<1>6. written'[t] = written[t] \o marks /\ \A s \in Stream : s # t => written'[s] = written[s]
  BY <1>2, <1>3, PutsOn DEF local
<1>7. ~(w # <<>> /\ w[Len(w)] = "prompt")
  BY <1>2 DEF IInv, SudoPart, t
<1>8. w # <<>> => Len(w) > 1 /\ w[Len(w)] = "nl" /\ w[Len(w) - 1] = "again"
  BY <1>2 DEF IInv, SudoPart, t
<1>9. /\ \A s \in Stream : Grammar(written'[s])
      /\ \A s \in Stream : \A i \in 1..Len(written'[s]) : written'[s][i] = "prompt" => s = SudoStream
  <2>1. \A i \in 1..Len(marks) : marks[i] = "prompt" =>
          /\ Len(marks) = 1 /\ t = SudoStream
          /\ w # <<>> => Len(w) > 1 /\ w[Len(w)] = "nl" /\ w[Len(w) - 1] = "again"
    BY <1>1, <1>8 DEF t
  <2> QED  BY <1>2, <1>3, <1>6, <1>7, <2>1, PutsGrammar
<1>10. SudoPart'
  <2>1. options'.sudo \in BOOLEAN
    BY <1>2 DEF IInv, SudoPart
  <2> QED  BY <1>2, <1>9, <2>1 DEF SudoPart, Running
<1> QED  BY <1>5, <1>10 DEF IInv

LEMMA SudoReadsStep ==
  ASSUME IInv, SudoReads PROVE IInv'
<1> DEFINE t == SudoStream
           w == written[t]
<1>1. PICK marks \in Seq(Mark) :
        /\ Puts(t, marks)
        /\ \/ phase' = "command" /\ Len(marks) = 1 /\ marks[1] = "nl" /\ status' = status
           \/ phase' = phase /\ Len(marks) = 1 /\ marks[1] = "nl" /\ status' = 1
           \/ /\ phase' = phase /\ status' = status
              /\ Len(marks) = 3 /\ marks[1] = "nl" /\ marks[2] = "again" /\ marks[3] = "nl"
  <2>1. /\ <<"nl">> \in Seq(Mark) /\ Len(<<"nl">>) = 1 /\ <<"nl">>[1] = "nl"
        /\ <<"nl", "again", "nl">> \in Seq(Mark) /\ Len(<<"nl", "again", "nl">>) = 3
        /\ <<"nl", "again", "nl">>[1] = "nl" /\ <<"nl", "again", "nl">>[2] = "again"
        /\ <<"nl", "again", "nl">>[3] = "nl"
    <3>1. "nl" \in Mark /\ "again" \in Mark
      BY DEF Mark
    <3> QED  BY <3>1, Literals, Zenon
  <2>2. CASE phase' = "command" /\ Puts(t, <<"nl">>) /\ status' = status
    BY <2>1, <2>2, Zenon
  <2>3. CASE phase' = phase /\ Puts(t, <<"nl">>) /\ status' = 1
    BY <2>1, <2>3, Zenon
  <2>4. CASE phase' = phase /\ Puts(t, <<"nl", "again", "nl">>) /\ status' = status
    BY <2>1, <2>4, Zenon
  <2>5. \/ phase' = "command" /\ Puts(t, <<"nl">>) /\ status' = status
        \/ phase' = phase /\ Puts(t, <<"nl">>) /\ status' = 1
        \/ phase' = phase /\ Puts(t, <<"nl", "again", "nl">>) /\ status' = status
    <3> HIDE DEF t
    <3> QED  BY DEF SudoReads, t
  <2> QED  BY <2>2, <2>3, <2>4, <2>5, Zenon
<1>2. /\ Running /\ phase = "sudo" /\ waiting' = FALSE
      /\ UNCHANGED <<options, local, flow, closed, sent, asked>> /\ inbox # <<>> /\ inbox' = Tail(inbox)
      /\ SudoStream' = SudoStream
  BY DEF SudoReads, SudoStream
<1>3. t \in Stream
  BY OptionFacts DEF IInv, TypeOK
<1> HIDE DEF t
<1>5. TypeOK' /\ ThreadPart' /\ StreamPart' /\ HistoryPart'
  <2>1. status' = status \/ status' = 1
    BY <1>1
  <2> QED  BY <1>1, <1>2, <1>3, <2>1, PutsTypes
<1>6. written'[t] = written[t] \o marks /\ \A s \in Stream : s # t => written'[s] = written[s]
  BY <1>1, <1>2, <1>3, PutsOn DEF local
<1>7. \A i \in 1..Len(marks) : marks[i] # "prompt"
  <2>1. CASE Len(marks) = 1
    <3>1. \A i \in 1..Len(marks) : i = 1
      BY <2>1
    <3>2. marks[1] = "nl"
      BY <1>1
    <3> QED  BY <3>1, <3>2
  <2>2. CASE Len(marks) = 3
    <3>1. \A i \in 1..Len(marks) : i = 1 \/ i = 2 \/ i = 3
      BY <2>2
    <3>2. marks[1] = "nl" /\ marks[2] = "again" /\ marks[3] = "nl"
      <4>1. Len(marks) # 1
        BY <2>2
      <4> QED  BY <1>1, <4>1
    <3> QED  BY <3>1, <3>2
  <2> QED  BY <1>1, <2>1, <2>2, Zenon
<1>8. marks # <<>> /\ marks[1] = "nl" /\ Len(marks) > 0
  BY <1>1
<1>9. /\ \A s \in Stream : Grammar(written'[s])
      /\ \A s \in Stream : \A i \in 1..Len(written'[s]) : written'[s][i] = "prompt" => s = SudoStream
  BY <1>1, <1>2, <1>3, <1>6, <1>7, <1>8, PutsGrammar
<1>10. SudoPart'
  <2>1. options'.sudo \in BOOLEAN
    BY <1>2 DEF IInv, SudoPart
  <2> DEFINE v == written'[t]
  <2>2. w \in Seq(Mark)
    BY <1>3 DEF IInv, HistoryPart
  <2>3. /\ v # <<>> /\ v[Len(v)] = marks[Len(marks)]
        /\ Len(marks) > 1 => Len(v) > 1 /\ v[Len(v) - 1] = marks[Len(marks) - 1]
    BY <1>6, <1>8, <2>2, LastMarks
  <2>4. marks[Len(marks)] = "nl"
    BY <1>1
  <2>5. phase' = "sudo" /\ Running' => Len(marks) = 3 /\ marks[2] = "again"
    BY <1>1, NoneAssumption DEF Running
  <2>6. phase' = "sudo" /\ Running' => Len(v) > 1 /\ v[Len(v)] = "nl" /\ v[Len(v) - 1] = "again"
    <3> SUFFICES ASSUME phase' = "sudo", Running'
                 PROVE  Len(v) > 1 /\ v[Len(v)] = "nl" /\ v[Len(v) - 1] = "again"
      OBVIOUS
    <3>1. Len(marks) = 3 /\ marks[2] = "again"
      BY <2>5
    <3>2. Len(marks) > 1 /\ Len(marks) - 1 = 2
      BY <3>1
    <3> HIDE DEF v
    <3>3. v[Len(v)] = "nl"
      BY <2>3, <2>4, Zenon
    <3>4. Len(v) > 1 /\ v[Len(v) - 1] = marks[Len(marks) - 1]
      BY <2>3, <3>2, Zenon
    <3>5. v[Len(v) - 1] = "again"
      BY <3>1, <3>2, <3>4, Zenon
    <3> QED  BY <3>3, <3>4, <3>5
  <2>7. ~(v # <<>> /\ v[Len(v)] = "prompt")
    BY <2>3, <2>4
  <2> HIDE DEF v
  <2> QED  BY <1>2, <1>9, <2>1, <2>6, <2>7 DEF SudoPart, t, v
<1> QED  BY <1>5, <1>10 DEF IInv

\* The command writes.
LEMMA CommandWrites ==
  ASSUME IInv, NEW t \in Stream, NEW marks \in Seq(Mark), Puts(t, marks), phase = "command",
         UNCHANGED <<options, local, flow, closed, sent, asked, phase, status, inbox>>,
         Len(marks) > 0, \A i \in 1..Len(marks) : marks[i] # "prompt"
  PROVE  IInv'
<1>1. TypeOK' /\ ThreadPart' /\ StreamPart' /\ HistoryPart'
  BY PutsTypes
<1>2. written'[t] = written[t] \o marks /\ \A s \in Stream : s # t => written'[s] = written[s]
  BY PutsOn DEF local
<1> DEFINE w == written[t]
           v == written'[t]
<1>3. w \in Seq(Mark) /\ Len(w) \in Nat
  <2>1. w \in Seq(Mark)
    BY DEF IInv, HistoryPart
  <2> QED  BY <2>1, SeqFacts
<1>4. ~(w # <<>> /\ w[Len(w)] = "prompt")
  <2> SUFFICES ASSUME w # <<>>, w[Len(w)] = "prompt" PROVE FALSE
    OBVIOUS
  <2>1. Len(w) \in 1..Len(w)
    BY <1>3, EmptySeq
  <2>2. t = SudoStream
    BY <2>1 DEF IInv, SudoPart
  <2>3. phase = "sudo"
    BY <2>2 DEF IInv, SudoPart
  <2> QED  BY <2>3
<1>5. /\ \A s \in Stream : Grammar(written'[s])
      /\ \A s \in Stream : \A i \in 1..Len(written'[s]) : written'[s][i] = "prompt" => s = SudoStream
  BY <1>2, <1>4, PutsGrammar
<1>6. SudoPart'
  <2>1. options'.sudo \in BOOLEAN /\ SudoStream' = SudoStream /\ phase' # "sudo"
    BY DEF IInv, SudoPart, SudoStream
  <2>2. v[Len(v)] = marks[Len(marks)] /\ Len(marks) \in 1..Len(marks)
    BY <1>2, <1>3, LastMarks, SeqFacts
  <2>3. ~(written'[SudoStream] # <<>> /\ written'[SudoStream][Len(written'[SudoStream])] = "prompt")
    <3>1. CASE SudoStream = t
      BY <2>2, <3>1
    <3>2. CASE SudoStream # t
      <4>1. SudoStream \in Stream
        BY OptionFacts DEF IInv, TypeOK
      <4>2. written'[SudoStream] = written[SudoStream]
        BY <1>2, <3>2, <4>1
      <4> QED  BY <4>2 DEF IInv, SudoPart
    <3> QED  BY <3>1, <3>2
  <2> QED  BY <1>5, <2>1, <2>3 DEF SudoPart
<1> QED  BY <1>1, <1>6 DEF IInv

LEMMA CommandStep ==
  ASSUME IInv, Asks \/ \E s \in Stream, marks \in {<<"lead", "trail">>, <<"nl">>, <<"lead">>} : Writes(s, marks)
  PROVE  IInv'
<1>1. "lead" \in Mark /\ "trail" \in Mark /\ "nl" \in Mark /\ "question" \in Mark /\ "out" \in Stream
  BY DEF Mark, Stream
<1>2. ASSUME NEW marks \in {<<"lead", "trail">>, <<"nl">>, <<"lead">>, <<"question">>}
      PROVE  marks \in Seq(Mark) /\ Len(marks) > 0 /\ \A i \in 1..Len(marks) : marks[i] # "prompt"
  <2>1. CASE marks = <<"lead", "trail">>
    <3>1. marks \in Seq(Mark) /\ Len(marks) = 2 /\ marks[1] = "lead" /\ marks[2] = "trail"
      BY <1>1, <2>1, Literals, Zenon
    <3>2. \A i \in 1..Len(marks) : i = 1 \/ i = 2
      BY <3>1
    <3> QED  BY <3>1, <3>2
  <2>2. ASSUME NEW a \in Mark, a # "prompt", marks = <<a>>
        PROVE  marks \in Seq(Mark) /\ Len(marks) > 0 /\ \A i \in 1..Len(marks) : marks[i] # "prompt"
    <3>1. marks \in Seq(Mark) /\ Len(marks) = 1 /\ marks[1] = a
      BY <2>2, Literals, Zenon
    <3>2. \A i \in 1..Len(marks) : i = 1
      BY <3>1
    <3> QED  BY <2>2, <3>1, <3>2
  <2> QED  BY <1>1, <2>1, <2>2
<1>3. CASE Asks
  <2>1. /\ Puts("out", <<"question">>) /\ phase = "command"
        /\ UNCHANGED <<options, local, flow, closed, sent, asked, phase, status, inbox>>
    BY <1>3 DEF Asks
  <2> QED  BY <1>1, <1>2, <2>1, CommandWrites
<1>4. ASSUME NEW s \in Stream, NEW marks \in {<<"lead", "trail">>, <<"nl">>, <<"lead">>}, Writes(s, marks)
      PROVE  IInv'
  <2>1. /\ Puts(s, marks) /\ phase = "command"
        /\ UNCHANGED <<options, local, flow, closed, sent, asked, phase, status, inbox>>
    BY <1>4 DEF Writes
  <2>2. marks \in Seq(Mark) /\ Len(marks) > 0 /\ \A i \in 1..Len(marks) : marks[i] # "prompt"
    BY <1>2
  <2> QED  BY <2>1, <2>2, CommandWrites
<1> QED  BY <1>3, <1>4

-----------------------------------------------------------------------------
(* A step of an output thread.                                             *)

TypedData ==
  /\ buf \in [Stream -> Seq(Mark)] /\ own \in [Stream -> Seq(Mark) \cup {None}]
  /\ raw \in [Stream -> Seq(Mark)] /\ wire \in [Stream -> Seq(Mark)]
  /\ todo \in [Stream -> Seq(Seq(Mark))] /\ reprompt \in [Stream -> BOOLEAN]
  /\ password \in Password \cup {None} /\ inbox \in Seq(Lines)

\* What the thread of t leaves to the other one, and to the other end.
Elsewhere(t) ==
  /\ \A s \in Stream : s # t =>
       /\ todo'[s] = todo[s] /\ raw'[s] = raw[s] /\ wire'[s] = wire[s]
       /\ own'[s] = own[s] /\ buf'[s] = buf[s] /\ reprompt'[s] = reprompt[s]
       /\ s = SudoStream => sent' = sent
  /\ UNCHANGED <<options, pc, joined, status, flow, closed, written, phase, waiting>>

\* Where it may be after a step.
Lands(t, place) ==
  /\ Goes(t, place) /\ place \in {"read", "fragments", "asking", "done", "failed"}
  /\ place = "fragments" => todo'[t] # <<>>
  /\ place \in {"read", "done"} => todo'[t] = <<>>
  /\ place = "done" => flow[t] = "ended" /\ wire'[t] = <<>> /\ raw'[t] = <<>>

LEMMA LooperMoves ==
  ASSUME IInv, NEW t \in Stream, NEW place, Lands(t, place), Elsewhere(t), TypedData',
         thread[t] \in {"read", "fragments", "asking"},
         enabled' \/ place \in {"asking", "failed"} \/ (enabled' = enabled /\ thread[t] # "asking"),
         sent' \in Nat, asked' \in Nat, sent' - asked' <= 1, StreamAt(t)'
  PROVE  IInv'
<1>1. /\ TypeOK /\ ThreadPart /\ SudoPart /\ HistoryPart /\ t \in {"out", "err", "in"}
      /\ thread[t] # "done" /\ pc' = pc /\ joined' = joined /\ Goes(t, place)
  BY DEF IInv, Stream, Elsewhere, Lands
<1>2. /\ \A v \in {"out", "err", "in"} : v # t => thread'[v] = thread[v]
      /\ thread'[t] = place
      /\ pc' \in {"returned", "aborted"} => joined' = Len(Workers)
      /\ pc' # "raised" => \A i \in 1..joined' : thread'[Workers[i]] = "done"
  BY <1>1, WorkerMoves
<1>3. thread' \in [{"out", "err", "in"} ->
                  {"read", "fragments", "asking", "check", "key", "send", "done", "failed"}]
  BY <1>1 DEF TypeOK, Goes, Lands
<1>4. ~enabled' => \E s \in Stream : thread'[s] \in {"asking", "failed"}
  <2> SUFFICES ASSUME ~enabled' PROVE \E s \in Stream : thread'[s] \in {"asking", "failed"}
    OBVIOUS
  <2>1. CASE place \in {"asking", "failed"}
    BY <1>2, <2>1
  <2>2. CASE enabled' = enabled /\ thread[t] # "asking"
    <3>1. PICK s \in Stream : thread[s] \in {"asking", "failed"}
      BY <1>1, <2>2 DEF TypeOK
    <3>2. s # t
      BY <2>2, <3>1
    <3>3. thread'[s] = thread[s]
      BY <1>2, <3>2 DEF Stream
    <3> QED  BY <3>1, <3>3
  <2> QED  BY <2>1, <2>2
<1>5. TypeOK'
  BY <1>1, <1>3, <1>4 DEF TypeOK, TypedData, Elsewhere
<1>6. ThreadPart'
  <2>1. ASSUME NEW s \in Stream
        PROVE  /\ thread'[s] \in {"read", "fragments", "asking", "done", "failed"}
               /\ thread'[s] = "fragments" => todo'[s] # <<>>
               /\ thread'[s] \in {"read", "done"} => todo'[s] = <<>>
               /\ thread'[s] = "done" => flow'[s] = "ended" /\ wire'[s] = <<>> /\ raw'[s] = <<>>
    <3>1. CASE s = t
      BY <1>2, <3>1 DEF Lands, Elsewhere
    <3>2. CASE s # t
      <4>1. thread'[s] = thread[s]
        BY <1>2, <3>2 DEF Stream
      <4> QED  BY <1>1, <3>2, <4>1 DEF Elsewhere, ThreadPart
    <3> QED  BY <3>1, <3>2
  <2>2. thread'["in"] \in {"check", "key", "send", "done", "failed"}
    <3>1. thread'["in"] = thread["in"]
      BY <1>2 DEF Stream
    <3> QED  BY <1>1, <3>1 DEF ThreadPart
  <2>3. pc' \in {"join", "returned", "aborted"} => status' # None
    BY <1>1 DEF ThreadPart, Elsewhere
  <2> QED  BY <1>2, <2>1, <2>2, <2>3 DEF ThreadPart
<1>7. SudoPart'
  BY <1>1, QuietSudo DEF Elsewhere, Running
<1>8. StreamPart'
  <2>1. ASSUME NEW s \in Stream, s # t PROVE StreamAt(s)'
    <3>1. thread'[s] = thread[s]
      BY <1>2, <2>1 DEF Stream
    <3>2. StreamAt(s)
      BY DEF IInv, StreamPart
    <3>3. /\ written'[s] = written[s] /\ options' = options
          /\ todo'[s] = todo[s] /\ raw'[s] = raw[s] /\ wire'[s] = wire[s]
          /\ own'[s] = own[s] /\ buf'[s] = buf[s] /\ reprompt'[s] = reprompt[s]
          /\ s = SudoStream => sent' = sent
      BY <2>1 DEF Elsewhere
    <3> QED  BY <1>1, <3>1, <3>2, <3>3, StreamSame
  <2> QED  BY <2>1 DEF StreamPart
<1>9. HistoryPart'
  BY <1>1 DEF HistoryPart, Elsewhere
<1> QED  BY <1>5, <1>6, <1>7, <1>8, <1>9 DEF IInv

LEMMA StreamFacts ==
  ASSUME IInv, NEW t \in Stream
  PROVE  /\ TypedData /\ written[t] \in Seq(Mark) /\ Captured(t) \in Seq(Mark)
         /\ raw[t] \in Seq(Mark) /\ wire[t] \in Seq(Mark) /\ todo[t] \in Seq(Seq(Mark))
         /\ sent \in Nat /\ asked \in Nat /\ sent - asked <= 1
         /\ thread[t] = "fragments" => todo[t] # <<>>
         /\ thread[t] = "read" => todo[t] = <<>>
<1>1. TypedData /\ TypeOK /\ HistoryPart /\ ThreadPart
  BY DEF IInv, TypeOK, TypedData
<1> QED  BY <1>1 DEF TypedData, HistoryPart, ThreadPart, Captured

LEMMA ReadStep ==
  ASSUME IInv, NEW t \in Stream, Read(t)
  PROVE  IInv'
<1>1. /\ TypedData /\ written[t] \in Seq(Mark) /\ raw[t] \in Seq(Mark) /\ wire[t] \in Seq(Mark)
      /\ sent \in Nat /\ asked \in Nat /\ sent - asked <= 1 /\ todo[t] = <<>> /\ thread[t] = "read"
  BY StreamFacts DEF Read
<1>2. PICK n \in 1..Len(wire[t]) :
        /\ wire' = [wire EXCEPT ![t] = SubSeq(@, n + 1, Len(@))]
        /\ LET bytes == raw[t] \o SubSeq(wire[t], 1, n) IN
           \/ /\ raw' = [raw EXCEPT ![t] = <<>>]
              /\ todo' = [todo EXCEPT ![t] = Fragments(bytes)]
              /\ Goes(t, "fragments")
           \/ /\ raw' = [raw EXCEPT ![t] = bytes]
              /\ UNCHANGED <<todo, thread>>
  BY DEF Read, Undecoded
<1> DEFINE bytes == raw[t] \o SubSeq(wire[t], 1, n)
           rest2 == SubSeq(wire[t], n + 1, Len(wire[t]))
<1>3. UNCHANGED <<options, pc, joined, buf, own, reprompt, enabled, password, phase, waiting, inbox,
                  status, flow, closed, written, sent, asked>>
  BY DEF Read, history
<1>4. PICK cut :
        /\ Follows(cut, written[t], <<>>, raw[t], wire[t])
        /\ Caught(cut[0], written[t], Captured(t), own[t], buf[t], reprompt[t])
        /\ Answered(cut[0], written[t], thread[t], IF t = SudoStream THEN sent ELSE 0)
  <2>1. StreamAt(t)
    BY DEF IInv, StreamPart
  <2> QED  BY <1>1, <2>1, Zenon DEF StreamAt
<1>5. /\ bytes \in Seq(Mark) /\ rest2 \in Seq(Mark)
      /\ Follows(cut, written[t], <<>>, bytes, rest2)
      /\ \E cut2 : cut2[0] = cut[0] /\ Follows(cut2, written[t], Fragments(bytes), <<>>, rest2)
  <2>1. ReadsOn(written[t], raw[t], wire[t], n, cut)
    BY <1>1, <1>4, ReadOn
  <2> QED  BY <2>1, Zenon DEF ReadsOn
<1>6. Fragments(bytes) \in Seq(Seq(Mark)) \ {<<>>}
  BY <1>5, FragmentsFollow
<1>7. wire' = [wire EXCEPT ![t] = rest2]
  BY <1>2
<1>8. /\ Captured(t)' = Captured(t) /\ SudoStream' = SudoStream /\ own'[t] = own[t] /\ buf'[t] = buf[t]
      /\ reprompt'[t] = reprompt[t] /\ written'[t] = written[t] /\ sent' = sent
  BY <1>3 DEF Captured, SudoStream
<1>9. ASSUME NEW place, place # "asking"
      PROVE  Answered(cut[0], written[t], place, IF t = SudoStream THEN sent ELSE 0)
  BY <1>1, <1>4, <1>9 DEF Answered
<1>10. CASE raw' = [raw EXCEPT ![t] = <<>>] /\ todo' = [todo EXCEPT ![t] = Fragments(bytes)] /\ Goes(t, "fragments")
  <2> HIDE DEF bytes, rest2
  <2>1. raw'[t] = <<>> /\ todo'[t] = Fragments(bytes) /\ wire'[t] = rest2
    BY <1>1, <1>7, <1>10 DEF TypedData
  <2>2. Lands(t, "fragments")
    BY <1>6, <1>10, <2>1 DEF Lands
  <2>3. Elsewhere(t)
    BY <1>1, <1>3, <1>7, <1>10 DEF Elsewhere, TypedData
  <2>4. TypedData'
    <3>1. raw' \in [Stream -> Seq(Mark)]
      <4>1. <<>> \in Seq(Mark)
        OBVIOUS
      <4> QED  BY <1>1, <1>10, <4>1 DEF TypedData
    <3>2. todo' \in [Stream -> Seq(Seq(Mark))]
      BY <1>1, <1>6, <1>10 DEF TypedData
    <3>3. wire' \in [Stream -> Seq(Mark)]
      BY <1>1, <1>5, <1>7 DEF TypedData
    <3> QED  BY <1>1, <1>3, <3>1, <3>2, <3>3 DEF TypedData
  <2>5. PICK cut2 : cut2[0] = cut[0] /\ Follows(cut2, written[t], Fragments(bytes), <<>>, rest2)
    BY <1>5
  <2>6. thread'[t] # "asking"
    BY <1>10 DEF Goes, IInv, TypeOK, Stream
  <2>7. /\ Follows(cut2, written'[t], todo'[t], raw'[t], wire'[t])
        /\ Caught(cut2[0], written'[t], Captured(t)', own'[t], buf'[t], reprompt'[t])
        /\ Answered(cut2[0], written'[t], thread'[t], IF t = SudoStream' THEN sent' ELSE 0)
    BY <1>4, <1>8, <1>9, <2>1, <2>5, <2>6
  <2>8. StreamAt(t)'
    BY <2>7, Zenon DEF StreamAt
  <2> QED  BY <1>1, <1>3, <2>2, <2>3, <2>4, <2>8, LooperMoves
<1>11. CASE raw' = [raw EXCEPT ![t] = bytes] /\ UNCHANGED <<todo, thread>>
  <2> HIDE DEF bytes, rest2
  <2>1. raw'[t] = bytes /\ todo'[t] = <<>> /\ wire'[t] = rest2
    BY <1>1, <1>7, <1>11 DEF TypedData
  <2>2. Lands(t, "read")
    <3>1. Goes(t, "read")
      BY <1>1, <1>11 DEF Goes, IInv, TypeOK
    <3> QED  BY <2>1, <3>1 DEF Lands
  <2>3. Elsewhere(t)
    BY <1>1, <1>3, <1>7, <1>11 DEF Elsewhere, TypedData
  <2>4. TypedData'
    BY <1>1, <1>3, <1>5, <1>7, <1>11 DEF TypedData
  <2>5. thread'[t] # "asking"
    BY <1>1, <1>11
  <2>6. /\ Follows(cut, written'[t], todo'[t], raw'[t], wire'[t])
        /\ Caught(cut[0], written'[t], Captured(t)', own'[t], buf'[t], reprompt'[t])
        /\ Answered(cut[0], written'[t], thread'[t], IF t = SudoStream' THEN sent' ELSE 0)
    BY <1>4, <1>5, <1>8, <1>9, <2>1, <2>5
  <2>7. StreamAt(t)'
    BY <2>6, Zenon DEF StreamAt
  <2> QED  BY <1>1, <1>3, <2>2, <2>3, <2>4, <2>7, LooperMoves
<1> QED  BY <1>2, <1>10, <1>11

LEMMA EndingStep ==
  ASSUME IInv, NEW t \in Stream, TimeOut(t) \/ EndOfStream(t) \/ UserGivesUp(t)
  PROVE  IInv'
<1>1. /\ TypedData /\ sent \in Nat /\ asked \in Nat /\ sent - asked <= 1
      /\ thread[t] \in {"read", "asking"} /\ (thread[t] = "read" => todo[t] = <<>>)
  BY StreamFacts DEF TimeOut, EndOfStream, UserGivesUp
<1>2. UNCHANGED <<options, pc, joined, buf, own, raw, todo, wire, reprompt, enabled, password, phase, waiting,
                  inbox, status, flow, closed, written, sent, asked>>
  BY DEF TimeOut, EndOfStream, UserGivesUp, history, remote
<1>3. PICK place \in {"done", "failed"} :
        Goes(t, place) /\ (place = "done" => thread[t] = "read" /\ flow[t] = "ended" /\ wire[t] = <<>> /\ raw[t] = <<>>)
  BY DEF TimeOut, EndOfStream, UserGivesUp
<1>4. Lands(t, place) /\ Elsewhere(t) /\ TypedData'
  BY <1>1, <1>2, <1>3 DEF Lands, Elsewhere, TypedData
<1>5. thread'[t] # "asking"
  BY <1>3 DEF Goes, IInv, TypeOK, Stream
<1>6. StreamAt(t)'
  <2>1. TypeOK /\ HistoryPart /\ StreamAt(t)
    BY DEF IInv, StreamPart
  <2> QED  BY <1>2, <1>5, <2>1, StreamSame
<1>7. enabled' \/ place \in {"asking", "failed"} \/ (enabled' = enabled /\ thread[t] # "asking")
  BY <1>1, <1>2, <1>3
<1> QED  BY <1>1, <1>2, <1>4, <1>6, <1>7, LooperMoves

-----------------------------------------------------------------------------
(* A step with a fragment.                                                 *)

\* The first fragment of t is at h, and cut2 follows those after it.
Handles(t, h, cut2) ==
  /\ Takes(written[t], h, Head(todo[t]), Captured(t), own[t], buf[t], reprompt[t])
  /\ h \in Nat /\ cut2[0] \in Nat /\ cut2[0] = h + Len(Head(todo[t])) /\ cut2[0] >= h
  /\ Follows(cut2, written[t], Tail(todo[t]), raw[t], wire[t])
  /\ Answered(h, written[t], "fragments", IF t = SudoStream THEN sent ELSE 0)

LEMMA FragmentAt ==
  ASSUME IInv, NEW t \in Stream, Handling(t)
  PROVE  \E h, cut2 : Handles(t, h, cut2)
<1>1. /\ TypedData /\ written[t] \in Seq(Mark) /\ Captured(t) \in Seq(Mark)
      /\ raw[t] \in Seq(Mark) /\ wire[t] \in Seq(Mark) /\ todo[t] \in Seq(Seq(Mark))
      /\ todo[t] # <<>>
  BY StreamFacts DEF Handling
<1>2. PICK cut :
        /\ Follows(cut, written[t], todo[t], raw[t], wire[t])
        /\ Caught(cut[0], written[t], Captured(t), own[t], buf[t], reprompt[t])
        /\ Answered(cut[0], written[t], thread[t], IF t = SudoStream THEN sent ELSE 0)
  <2>1. StreamAt(t)
    BY DEF IInv, StreamPart
  <2> QED  BY <2>1, Zenon DEF StreamAt
<1> DEFINE q == Head(todo[t])
           h == cut[0]
<1>3. /\ q \in Seq(Mark) /\ h \in 0..Len(written[t]) /\ cut[1] \in 0..Len(written[t])
      /\ cut[1] = h + Len(q) /\ Piece(q, written[t], h, cut[1])
      /\ \E cut2 : cut2[0] = cut[1] /\ Follows(cut2, written[t], Tail(todo[t]), raw[t], wire[t])
  BY <1>1, <1>2, CutNext
<1>4. PICK cut2 : cut2[0] = cut[1] /\ Follows(cut2, written[t], Tail(todo[t]), raw[t], wire[t])
  BY <1>3
<1>5. Grammar(written[t]) /\ Captured(t) = IF own[t] = None THEN buf[t] ELSE own[t]
  BY DEF IInv, SudoPart, Captured
<1>6. Takes(written[t], h, q, Captured(t), own[t], buf[t], reprompt[t])
  <2>1. h + Len(q) \in 0..Len(written[t]) /\ Piece(q, written[t], h, h + Len(q))
    BY <1>3
  <2> QED  BY <1>1, <1>2, <1>3, <1>5, <2>1, Zenon DEF Takes
<1>7. Len(q) \in Nat
  BY <1>3, SeqFacts
<1> HIDE DEF q, h
<1>8. h \in Nat /\ cut2[0] \in Nat /\ cut2[0] = h + Len(q) /\ cut2[0] >= h
  BY <1>3, <1>4, <1>7
<1>9. Answered(h, written[t], "fragments", IF t = SudoStream THEN sent ELSE 0)
  BY <1>2 DEF Handling, h
<1>10. Handles(t, h, cut2)
  BY <1>4, <1>6, <1>8, <1>9, Zenon DEF Handles, q
<1> QED  BY <1>10

LEMMA TextEnds ==
  ASSUME IInv, NEW t \in Stream, Handling(t)
  PROVE  /\ Text(t) \in Seq(Mark) /\ Text(t) = Captured(t) \o Head(todo[t])
         /\ Answerable(t) => Text(t) # <<>> /\ Text(t)[Len(Text(t))] = "question"
         /\ Prompted(t) => Text(t) # <<>> /\ Text(t)[Len(Text(t))] = "prompt"
         /\ ~Answerable(t) /\ ~Prompted(t) => ~(Text(t) # <<>> /\ Text(t)[Len(Text(t))] = "prompt")
         /\ Refused(t) =>
              Len(Text(t)) > 1 /\ Text(t)[Len(Text(t))] = "nl" /\ Text(t)[Len(Text(t)) - 1] = "again"
         /\ ~Answerable(t) /\ ~Refused(t) =>
              ~(Len(Text(t)) > 1 /\ Text(t)[Len(Text(t))] = "nl" /\ Text(t)[Len(Text(t)) - 1] = "again")
<1>1. Captured(t) \in Seq(Mark) /\ todo[t] \in Seq(Seq(Mark)) /\ todo[t] # <<>>
  BY StreamFacts DEF Handling
<1>2. Head(todo[t]) \in Seq(Mark)
  BY <1>1, HeadTailProperties
<1>3. Text(t) \in Seq(Mark) /\ Text(t) = Captured(t) \o Head(todo[t])
  BY <1>1, <1>2, JoinFacts DEF Text
<1>4. "question" \in Mark /\ "prompt" \in Mark /\ "again" \in Mark /\ "nl" \in Mark
  BY DEF Mark
<1> DEFINE T == Text(t)
<1> HIDE DEF T
<1>5. T \in Seq(Mark)
  BY <1>3 DEF T
<1>6. /\ IsSuffix(<<"question">>, T) <=> T # <<>> /\ T[Len(T)] = "question"
      /\ IsSuffix(<<"prompt">>, T) <=> T # <<>> /\ T[Len(T)] = "prompt"
      /\ IsSuffix(<<"again", "nl">>, T) <=> Len(T) > 1 /\ T[Len(T)] = "nl" /\ T[Len(T) - 1] = "again"
  <2>1. IsSuffix(<<"question">>, T) <=> T # <<>> /\ T[Len(T)] = "question"
    BY <1>4, <1>5, EndsWith
  <2>2. IsSuffix(<<"prompt">>, T) <=> T # <<>> /\ T[Len(T)] = "prompt"
    BY <1>4, <1>5, EndsWith
  <2>3. IsSuffix(<<"again", "nl">>, T) <=> Len(T) > 1 /\ T[Len(T)] = "nl" /\ T[Len(T) - 1] = "again"
    BY <1>4, <1>5, EndsWithTwo
  <2> QED  BY <2>1, <2>2, <2>3
<1> QED  BY <1>3, <1>6, Zenon DEF Answerable, Prompted, Refused, T

LEMMA CaptureOn ==
  ASSUME IInv, NEW t \in Stream, NEW marks \in Seq(Mark), Capture(t, marks)
  PROVE  /\ Captured(t)' = marks
         /\ own[t] = None => own'[t] = None /\ buf'[t] = marks
         /\ \A s \in Stream : s # t => own'[s] = own[s] /\ buf'[s] = buf[s]
         /\ buf' \in [Stream -> Seq(Mark)] /\ own' \in [Stream -> Seq(Mark) \cup {None}]
<1>1. buf \in [Stream -> Seq(Mark)] /\ own \in [Stream -> Seq(Mark) \cup {None}] /\ marks # None
  BY MarkFacts DEF IInv, TypeOK
<1> QED  BY <1>1 DEF Capture, Captured

\* A fragment is handled, whatever it was: what is left to show is what the capture
\* and the passwords are now.
LEMMA FragmentHandled ==
  ASSUME IInv, NEW t \in Stream, Handling(t), NextFragment(t), NEW h, NEW cut2, Handles(t, h, cut2),
         NEW place \in {Onwards(t), "asking", "failed"}, Goes(t, place),
         UNCHANGED <<options, pc, joined, raw, wire, status, flow, closed, written, phase, waiting>>,
         \A s \in Stream : s # t =>
           /\ own'[s] = own[s] /\ buf'[s] = buf[s] /\ reprompt'[s] = reprompt[s]
           /\ s = SudoStream => sent' = sent,
         buf' \in [Stream -> Seq(Mark)], own' \in [Stream -> Seq(Mark) \cup {None}],
         reprompt' \in [Stream -> BOOLEAN], password' \in Password \cup {None}, inbox' \in Seq(Lines),
         enabled' = enabled \/ place \in {"asking", "failed"},
         sent' \in Nat, asked' \in Nat, sent' - asked' <= 1,
         Caught(cut2[0], written[t], Captured(t)', own'[t], buf'[t], reprompt'[t]),
         Answered(cut2[0], written[t], place, IF t = SudoStream THEN sent' ELSE 0)
  PROVE  IInv'
<1>1. TypedData /\ todo[t] \in Seq(Seq(Mark)) /\ todo[t] # <<>> /\ thread[t] = "fragments"
  BY StreamFacts DEF Handling
<1>2. /\ Tail(todo[t]) \in Seq(Seq(Mark)) /\ Len(Tail(todo[t])) = Len(todo[t]) - 1
      /\ Len(todo[t]) \in Nat
  BY <1>1, HeadTailProperties, SeqFacts
<1>3. todo'[t] = Tail(todo[t]) /\ todo' \in [Stream -> Seq(Seq(Mark))]
      /\ \A s \in Stream : s # t => todo'[s] = todo[s]
  BY <1>1, <1>2 DEF NextFragment, TypedData
<1>4. IF Len(todo[t]) = 1 THEN Tail(todo[t]) = <<>> ELSE Tail(todo[t]) # <<>>
  <2> DEFINE T == Tail(todo[t])
  <2>1. T \in Seq(Seq(Mark)) /\ Len(T) = Len(todo[t]) - 1
    BY <1>2
  <2> HIDE DEF T
  <2>2. Len(T) = 0 <=> T = <<>>
    BY <2>1, EmptySeq
  <2>3. Len(todo[t]) = 1 <=> Len(T) = 0
    BY <1>2, <2>1
  <2> QED  BY <2>2, <2>3, Zenon DEF T
<1>5. Lands(t, place)
  <2>1. CASE place = Onwards(t)
    BY <1>3, <1>4, <2>1 DEF Lands, Onwards
  <2>2. CASE place \in {"asking", "failed"}
    BY <2>2 DEF Lands
  <2> QED  BY <2>1, <2>2
<1>6. Elsewhere(t)
  BY <1>3 DEF Elsewhere
<1>7. TypedData'
  BY <1>1, <1>3 DEF TypedData
<1>8. thread'[t] = place
  BY DEF Goes, IInv, TypeOK, Stream
<1>9. SudoStream' = SudoStream
  BY DEF SudoStream
<1>10. /\ Follows(cut2, written'[t], todo'[t], raw'[t], wire'[t])
       /\ Caught(cut2[0], written'[t], Captured(t)', own'[t], buf'[t], reprompt'[t])
       /\ Answered(cut2[0], written'[t], thread'[t], IF t = SudoStream' THEN sent' ELSE 0)
  BY <1>3, <1>8, <1>9 DEF Handles
<1>11. StreamAt(t)'
  BY <1>10, Zenon DEF StreamAt
<1>12. enabled' \/ place \in {"asking", "failed"} \/ (enabled' = enabled /\ thread[t] # "asking")
  BY <1>1
<1> QED  BY <1>1, <1>5, <1>6, <1>7, <1>11, <1>12, LooperMoves

\* Nothing is sent for it, and nobody is asked.
LEMMA NothingAnswered ==
  ASSUME IInv, NEW t \in Stream, NEW h, NEW cut2, Handles(t, h, cut2), NEW place, place # "asking"
  PROVE  Answered(cut2[0], written[t], place, IF t = SudoStream THEN sent ELSE 0)
<1> DEFINE n == IF t = SudoStream THEN sent ELSE 0
           e == cut2[0]
           w == written[t]
<1>1. n \in Nat
  BY DEF IInv, HistoryPart
<1>2. Answered(h, w, "fragments", n) /\ h \in Nat /\ e \in Nat /\ e >= h
  BY DEF Handles
<1> HIDE DEF n, e, w
<1>3. n + 0 <= Cardinality(PromptsIn(w, h))
  BY <1>2 DEF Answered
<1>4. /\ Cardinality(PromptsIn(w, h)) \in Nat /\ Cardinality(PromptsIn(w, e)) \in Nat
      /\ Cardinality(PromptsIn(w, h)) <= Cardinality(PromptsIn(w, e))
  BY <1>2, PromptsCounted
<1>5. n + 0 <= Cardinality(PromptsIn(w, e))
  BY <1>1, <1>3, <1>4
<1>6. Answered(e, w, place, n)
  BY <1>5 DEF Answered
<1> QED  BY <1>6 DEF n, e, w

LEMMA SendsFacts ==
  ASSUME IInv, NEW t \in Stream, NEW line \in Lines, NEW place, Sends(t, line, place)
  PROVE  \E p \in {place, "failed"} : Goes(t, p) /\ inbox' \in Seq(Lines)
<1>1. inbox \in Seq(Lines)
  BY DEF IInv, TypeOK
<1>2. Append(inbox, line) \in Seq(Lines)
  BY <1>1, AppendProperties
<1> QED  BY <1>1, <1>2 DEF Sends

LEMMA KeptStep ==
  ASSUME IInv, NEW t \in Stream, Answer(t) \/ CaptureOnly(t)
  PROVE  IInv'
<1>1. Handling(t) /\ Capture(t, Text(t)) /\ NextFragment(t)
  BY DEF Answer, CaptureOnly
<1>2. /\ UNCHANGED <<options, pc, joined, raw, wire, status, flow, closed, written, phase, waiting, reprompt, enabled,
                     password, sent, asked>>
  BY DEF Answer, CaptureOnly, history, remote
<1>3. PICK h, cut2 : Handles(t, h, cut2)
  BY <1>1, FragmentAt
<1>4. Answerable(t) \/ (~Answerable(t) /\ ~Prompted(t) /\ ~Refused(t))
  BY DEF Answer, CaptureOnly
<1> DEFINE T == Text(t)
<1>5. /\ T \in Seq(Mark) /\ T = Captured(t) \o Head(todo[t])
      /\ ~(T # <<>> /\ T[Len(T)] = "prompt")
      /\ ~(Len(T) > 1 /\ T[Len(T)] = "nl" /\ T[Len(T) - 1] = "again")
  BY <1>1, <1>4, TextEnds
<1> HIDE DEF T
<1>6. /\ Captured(t)' = T
      /\ own[t] = None => own'[t] = None /\ buf'[t] = T
      /\ \A s \in Stream : s # t => own'[s] = own[s] /\ buf'[s] = buf[s]
      /\ buf' \in [Stream -> Seq(Mark)] /\ own' \in [Stream -> Seq(Mark) \cup {None}]
  BY <1>1, <1>5, CaptureOn DEF T
<1>7. Caught(cut2[0], written[t], Captured(t)', own'[t], buf'[t], reprompt'[t])
  <2>1. /\ Takes(written[t], h, Head(todo[t]), Captured(t), own[t], buf[t], reprompt[t])
        /\ cut2[0] = h + Len(Head(todo[t]))
    BY <1>3 DEF Handles
  <2>2. Caught(cut2[0], written[t], T, own'[t], buf'[t], reprompt[t])
    BY <1>5, <1>6, <2>1, CaughtAll, Zenon
  <2> QED  BY <1>2, <1>6, <2>2
<1>8. PICK place \in {Onwards(t), "failed"} : Goes(t, place) /\ inbox' \in Seq(Lines)
  <2>1. CASE Answer(t)
    <3>1. "answer" \in Lines
      BY DEF Lines
    <3> QED  BY <2>1, <3>1, SendsFacts DEF Answer
  <2>2. CASE CaptureOnly(t)
    BY <2>2 DEF CaptureOnly, remote, IInv, TypeOK
  <2> QED  BY <2>1, <2>2
<1>9. Answered(cut2[0], written[t], place, IF t = SudoStream THEN sent' ELSE 0)
  <2>1. place # "asking"
    BY <1>8 DEF Onwards
  <2> QED  BY <1>2, <1>3, <2>1, NothingAnswered
<1>10. reprompt' \in [Stream -> BOOLEAN] /\ password' \in Password \cup {None}
       /\ sent' \in Nat /\ asked' \in Nat /\ sent' - asked' <= 1
  BY <1>2 DEF IInv, TypeOK, HistoryPart
<1> QED  BY <1>1, <1>2, <1>3, <1>6, <1>7, <1>8, <1>9, <1>10, FragmentHandled

LEMMA TryAgainStep ==
  ASSUME IInv, NEW t \in Stream, TryAgain(t)
  PROVE  IInv'
<1>1. Handling(t) /\ Refused(t) /\ NextFragment(t) /\ Goes(t, Onwards(t))
  BY DEF TryAgain
<1>2. /\ UNCHANGED <<options, pc, joined, raw, wire, status, flow, closed, written, phase, waiting, enabled,
                     password, inbox, sent, asked>>
  BY DEF TryAgain, history, remote
<1>3. PICK h, cut2 : Handles(t, h, cut2)
  BY <1>1, FragmentAt
<1> DEFINE T == Text(t)
<1>4. /\ T \in Seq(Mark) /\ T = Captured(t) \o Head(todo[t])
      /\ Len(T) > 1 /\ T[Len(T)] = "nl" /\ T[Len(T) - 1] = "again"
  BY <1>1, TextEnds
<1>5. /\ own' = [own EXCEPT ![t] = <<Head(T)>>]
      /\ buf' = IF own[t] = None THEN [buf EXCEPT ![t] = T] ELSE buf
      /\ reprompt' = [reprompt EXCEPT ![t] = TRUE]
  BY DEF TryAgain
<1> HIDE DEF T
<1>6. buf \in [Stream -> Seq(Mark)] /\ own \in [Stream -> Seq(Mark) \cup {None}] /\ reprompt \in [Stream -> BOOLEAN]
  BY DEF IInv, TypeOK
<1>7. PICK new \in Seq(Mark) : new = <<Head(T)>> /\ new # None
  <2>1. T # <<>>
    BY <1>4
  <2>2. Head(T) \in Mark
    BY <1>4, <2>1, HeadTailProperties
  <2>3. <<Head(T)>> \in Seq(Mark)
    BY <2>2, Literals, Zenon
  <2> QED  BY <2>3, MarkFacts
<1>8. own'[t] = new /\ reprompt'[t] = TRUE
      /\ \A s \in Stream : s # t => own'[s] = own[s] /\ buf'[s] = buf[s] /\ reprompt'[s] = reprompt[s]
  BY <1>5, <1>6, <1>7
<1>9. buf' \in [Stream -> Seq(Mark)] /\ own' \in [Stream -> Seq(Mark) \cup {None}] /\ reprompt' \in [Stream -> BOOLEAN]
  BY <1>4, <1>5, <1>6, <1>7
<1>10. Captured(t)' = new
  BY <1>7, <1>8 DEF Captured
<1>11. Caught(cut2[0], written[t], Captured(t)', own'[t], buf'[t], reprompt'[t])
  <2>1. /\ Takes(written[t], h, Head(todo[t]), Captured(t), own[t], buf[t], reprompt[t])
        /\ cut2[0] = h + Len(Head(todo[t]))
    BY <1>3 DEF Handles
  <2>2. Caught(cut2[0], written[t], <<Head(T)>>, own'[t], buf'[t], TRUE)
    BY <1>4, <2>1, CaughtAnew, Zenon
  <2> QED  BY <1>7, <1>8, <1>10, <2>2
<1>12. Answered(cut2[0], written[t], Onwards(t), IF t = SudoStream THEN sent' ELSE 0)
  <2>1. Onwards(t) # "asking"
    BY DEF Onwards
  <2> QED  BY <1>2, <1>3, <2>1, NothingAnswered
<1>13. password' \in Password \cup {None} /\ inbox' \in Seq(Lines)
       /\ sent' \in Nat /\ asked' \in Nat /\ sent' - asked' <= 1
  BY <1>2 DEF IInv, TypeOK, HistoryPart
<1> QED  BY <1>1, <1>2, <1>3, <1>8, <1>9, <1>11, <1>12, <1>13, FragmentHandled

\* A prompt is taken out of the capture. It is sudo's, and if it is not the first one,
\* the thread was told to ask the user.
LEMMA PromptTaken ==
  ASSUME IInv, NEW t \in Stream, Handling(t), Prompted(t), Capture(t, Front(Text(t))), reprompt' = reprompt,
         NEW h, NEW cut2, Handles(t, h, cut2)
  PROVE  /\ t = SudoStream
         /\ Caught(cut2[0], written[t], Captured(t)', own'[t], buf'[t], reprompt'[t])
         /\ cut2[0] > h /\ written[t][cut2[0]] = "prompt"
         /\ sent + 1 <= Cardinality(PromptsIn(written[t], cut2[0]))
         /\ ~reprompt[t] => sent = 0
         /\ \A s \in Stream : s # t => own'[s] = own[s] /\ buf'[s] = buf[s]
         /\ buf' \in [Stream -> Seq(Mark)] /\ own' \in [Stream -> Seq(Mark) \cup {None}]
<1> DEFINE T == Text(t)
           w == written[t]
           e == cut2[0]
<1>1. T \in Seq(Mark) /\ T = Captured(t) \o Head(todo[t]) /\ T # <<>> /\ T[Len(T)] = "prompt"
  BY TextEnds
<1>2. /\ Takes(w, h, Head(todo[t]), Captured(t), own[t], buf[t], reprompt[t])
      /\ e = h + Len(Head(todo[t])) /\ h \in Nat /\ e \in Nat /\ e >= h
      /\ Follows(cut2, w, Tail(todo[t]), raw[t], wire[t])
      /\ Answered(h, w, "fragments", IF t = SudoStream THEN sent ELSE 0)
  BY DEF Handles
<1> HIDE DEF T
<1>3. Front(T) \in Seq(Mark)
  <2>1. Len(T) > 0
    BY <1>1, EmptySeq
  <2> QED  BY <1>1, <2>1, FrontFacts
<1>4. /\ Captured(t)' = Front(T)
      /\ own[t] = None => own'[t] = None /\ buf'[t] = Front(T)
      /\ \A s \in Stream : s # t => own'[s] = own[s] /\ buf'[s] = buf[s]
      /\ buf' \in [Stream -> Seq(Mark)] /\ own' \in [Stream -> Seq(Mark) \cup {None}]
  BY <1>3, CaptureOn DEF T
<1>5. /\ Caught(e, w, Front(T), own'[t], buf'[t], reprompt[t])
      /\ e > h /\ w[e] = "prompt"
  <2> DEFINE q == Head(todo[t])
             c == Captured(t)
             o == own[t]
             b == buf[t]
             r == reprompt[t]
             o2 == own'[t]
             b2 == buf'[t]
  <2>1. /\ Takes(w, h, q, c, o, b, r) /\ T = c \o q /\ e = h + Len(q)
        /\ o = None => o2 = None /\ b2 = Front(T)
        /\ T # <<>> /\ T[Len(T)] = "prompt"
    BY <1>1, <1>2, <1>4
  <2> HIDE DEF w, e, q, c, o, b, r, o2, b2
  <2>2. Caught(e, w, Front(T), o2, b2, r)
    <3>1. Takes(w, h, q, c, o, b, r)
      BY <2>1
    <3>2. T = c \o q
      BY <2>1
    <3>3. e = h + Len(q)
      BY <2>1
    <3>4. o = None => o2 = None /\ b2 = Front(T)
      BY <2>1
    <3>5. T # <<>>
      BY <2>1
    <3>6. T[Len(T)] = "prompt"
      BY <2>1
    <3>7. Lessens(w, h, q, c, o, b, r, T, e, o2, b2)
      BY <3>1, <3>2, <3>3, <3>4, <3>5, <3>6, CaughtLess, Zenon
    <3> QED  BY <3>7 DEF Lessens
  <2>3. Tells(w, h, e, T, r)
    BY <2>1, TextFacts, Zenon
  <2>4. Len(T) \in 1..Len(T)
    BY <1>1, EmptySeq, SeqFacts
  <2>5. e > h /\ w[e] = "prompt"
    BY <2>1, <2>3, <2>4 DEF Tells
  <2> QED  BY <2>2, <2>5 DEF w, e, q, c, o, b, r, o2, b2
<1>6. t = SudoStream
  <2>1. e \in 1..Len(w)
    BY <1>2, <1>5 DEF Takes
  <2> QED  BY <1>5, <2>1 DEF IInv, SudoPart
<1>7. /\ Cardinality(PromptsIn(w, h)) \in Nat /\ Cardinality(PromptsIn(w, e)) \in Nat
      /\ Cardinality(PromptsIn(w, h)) + 1 <= Cardinality(PromptsIn(w, e))
      /\ h = 0 => Cardinality(PromptsIn(w, h)) = 0
  BY <1>2, <1>5, PromptsCounted
<1>8. sent \in Nat /\ sent + 0 <= Cardinality(PromptsIn(w, h))
  BY <1>2, <1>6 DEF Answered, IInv, HistoryPart
<1>9. sent + 1 <= Cardinality(PromptsIn(w, e))
  BY <1>7, <1>8
<1>10. ~reprompt[t] => sent = 0
  <2> SUFFICES ASSUME ~reprompt[t] PROVE sent = 0
    OBVIOUS
  <2>1. h = 0
    <3> DEFINE q == Head(todo[t])
               c == Captured(t)
               o == own[t]
               b == buf[t]
               r == reprompt[t]
    <3>1. Takes(w, h, q, c, o, b, r) /\ ~r /\ e = h + Len(q) /\ e > h /\ w[e] = "prompt"
      BY <1>2, <1>5
    <3> HIDE DEF w, e, q, c, o, b, r
    <3> QED  BY <3>1, LaterPrompt
  <2> QED  BY <1>7, <1>8, <2>1
<1> QED  BY <1>4, <1>5, <1>6, <1>9, <1>10

LEMMA SendPasswordStep ==
  ASSUME IInv, NEW t \in Stream, SendPassword(t)
  PROVE  IInv'
<1>1. /\ Handling(t) /\ Prompted(t) /\ NextFragment(t) /\ Capture(t, Front(Text(t)))
      /\ password # None /\ ~reprompt[t] /\ (sent' = sent \/ sent' = sent + 1)
      /\ Sends(t, password, Onwards(t))
  BY DEF SendPassword, WithoutPrompt
<1>2. UNCHANGED <<options, pc, joined, raw, wire, status, flow, closed, written, phase, waiting, reprompt, enabled,
                  password, asked>>
  BY DEF SendPassword
<1>3. PICK h, cut2 : Handles(t, h, cut2)
  BY <1>1, FragmentAt
<1>4. /\ t = SudoStream
      /\ Caught(cut2[0], written[t], Captured(t)', own'[t], buf'[t], reprompt'[t])
      /\ cut2[0] > h /\ written[t][cut2[0]] = "prompt"
      /\ sent + 1 <= Cardinality(PromptsIn(written[t], cut2[0]))
      /\ sent = 0
      /\ \A s \in Stream : s # t => own'[s] = own[s] /\ buf'[s] = buf[s]
      /\ buf' \in [Stream -> Seq(Mark)] /\ own' \in [Stream -> Seq(Mark) \cup {None}]
  BY <1>1, <1>2, <1>3, PromptTaken
<1>5. PICK place \in {Onwards(t), "failed"} : Goes(t, place) /\ inbox' \in Seq(Lines)
  <2>1. password \in Lines
    BY <1>1 DEF IInv, TypeOK, Lines
  <2> QED  BY <1>1, <2>1, SendsFacts
<1>6. sent' \in Nat /\ asked' \in Nat /\ sent' - asked' <= 1
  BY <1>1, <1>2, <1>4 DEF IInv, HistoryPart
<1>7. Answered(cut2[0], written[t], place, IF t = SudoStream THEN sent' ELSE 0)
  <2>1. place # "asking"
    BY <1>5 DEF Onwards
  <2>2. Cardinality(PromptsIn(written[t], cut2[0])) \in Nat
    BY <1>3, PromptsCounted DEF Handles
  <2>3. sent' + 0 <= Cardinality(PromptsIn(written[t], cut2[0]))
    BY <1>1, <1>4, <2>2
  <2> QED  BY <1>4, <2>1, <2>3 DEF Answered
<1>8. reprompt' \in [Stream -> BOOLEAN] /\ password' \in Password \cup {None}
  BY <1>2 DEF IInv, TypeOK
<1>9. \A s \in Stream : s # t => reprompt'[s] = reprompt[s] /\ s # SudoStream
  BY <1>2, <1>4
<1> QED  BY <1>1, <1>2, <1>3, <1>4, <1>5, <1>6, <1>7, <1>8, <1>9, FragmentHandled

LEMMA AskUserStep ==
  ASSUME IInv, NEW t \in Stream, AskUser(t)
  PROVE  IInv'
<1>1. Handling(t) /\ Prompted(t) /\ NextFragment(t) /\ Capture(t, Front(Text(t)))
  BY DEF AskUser, WithoutPrompt
<1>2. UNCHANGED <<options, pc, joined, raw, wire, status, flow, closed, written, phase, waiting, reprompt,
                  password, inbox, sent, asked>>
  BY DEF AskUser, history, remote
<1>3. PICK h, cut2 : Handles(t, h, cut2)
  BY <1>1, FragmentAt
<1>4. /\ t = SudoStream
      /\ Caught(cut2[0], written[t], Captured(t)', own'[t], buf'[t], reprompt'[t])
      /\ cut2[0] > h /\ written[t][cut2[0]] = "prompt"
      /\ sent + 1 <= Cardinality(PromptsIn(written[t], cut2[0]))
      /\ \A s \in Stream : s # t => own'[s] = own[s] /\ buf'[s] = buf[s]
      /\ buf' \in [Stream -> Seq(Mark)] /\ own' \in [Stream -> Seq(Mark) \cup {None}]
  BY <1>1, <1>2, <1>3, PromptTaken
<1>5. PICK place \in {"asking", "failed"} : Goes(t, place)
  BY DEF AskUser
<1>6. sent' \in Nat /\ asked' \in Nat /\ sent' - asked' <= 1 /\ sent' = sent
  BY <1>2 DEF IInv, HistoryPart
<1>7. Answered(cut2[0], written[t], place, IF t = SudoStream THEN sent' ELSE 0)
  <2>1. Cardinality(PromptsIn(written[t], cut2[0])) \in Nat /\ cut2[0] > 0
    BY <1>3, <1>4, PromptsCounted DEF Handles
  <2>2. sent' + (IF place = "asking" THEN 1 ELSE 0) <= Cardinality(PromptsIn(written[t], cut2[0]))
    BY <1>4, <1>6, <2>1
  <2> QED  BY <1>4, <2>1, <2>2 DEF Answered
<1>8. reprompt' \in [Stream -> BOOLEAN] /\ password' \in Password \cup {None} /\ inbox' \in Seq(Lines)
  BY <1>2 DEF IInv, TypeOK
<1>9. \A s \in Stream : s # t => reprompt'[s] = reprompt[s] /\ s # SudoStream
  BY <1>2, <1>4
<1> QED  BY <1>1, <1>2, <1>3, <1>4, <1>5, <1>6, <1>7, <1>8, <1>9, FragmentHandled

\* The user has typed a password.
LEMMA UserAnswersStep ==
  ASSUME IInv, NEW t \in Stream, UserAnswers(t)
  PROVE  IInv'
<1> DEFINE w == written[t]
           on == IF todo[t] = <<>> THEN "read" ELSE "fragments"
<1>1. /\ TypedData /\ sent \in Nat /\ asked \in Nat /\ sent - asked <= 1
      /\ thread[t] = "asking" /\ w \in Seq(Mark)
  BY StreamFacts DEF UserAnswers
<1>2. /\ UNCHANGED <<options, pc, joined, buf, own, raw, todo, phase, waiting, wire, status, flow, closed, written>>
      /\ enabled' = TRUE /\ asked' = asked + 1 /\ (sent' = sent \/ sent' = sent + 1)
      /\ reprompt' = [reprompt EXCEPT ![t] = FALSE]
  BY DEF UserAnswers, Reenable
<1>3. PICK p \in Typed : password' = p /\ Sends(t, p, on)
  BY DEF UserAnswers
<1>4. PICK place \in {on, "failed"} : Goes(t, place) /\ inbox' \in Seq(Lines)
  <2>1. p \in Lines
    BY PasswordAssumption DEF Lines
  <2> QED  BY <1>3, <2>1, SendsFacts
<1>5. PICK cut :
        /\ Follows(cut, w, todo[t], raw[t], wire[t])
        /\ Caught(cut[0], w, Captured(t), own[t], buf[t], reprompt[t])
        /\ Answered(cut[0], w, thread[t], IF t = SudoStream THEN sent ELSE 0)
  <2>1. StreamAt(t)
    BY DEF IInv, StreamPart
  <2> QED  BY <2>1, Zenon DEF StreamAt
<1> DEFINE h == cut[0]
<1>6. h \in 1..Len(w) /\ w[h] = "prompt"
  <2>1. todo[t] \in Seq(Seq(Mark))
    BY <1>1 DEF TypedData
  <2>2. Len(todo[t]) \in Nat
    BY <2>1, SeqFacts
  <2>3. h \in 0..Len(w)
    BY <1>5, <2>2 DEF Follows
  <2>4. h > 0 /\ w[h] = "prompt"
    BY <1>1, <1>5 DEF Answered
  <2> QED  BY <1>1, <2>3, <2>4, SeqFacts
<1>7. t = SudoStream
  BY <1>6 DEF IInv, SudoPart
<1>8. /\ Captured(t)' = Captured(t) /\ SudoStream' = SudoStream /\ own'[t] = own[t] /\ buf'[t] = buf[t]
      /\ written'[t] = w /\ todo'[t] = todo[t] /\ raw'[t] = raw[t] /\ wire'[t] = wire[t]
  BY <1>2 DEF Captured, SudoStream
<1>9. Caught(h, w, Captured(t), own[t], buf[t], reprompt'[t])
  BY <1>5, <1>6 DEF Caught
<1>10. thread'[t] = place /\ place # "asking"
  BY <1>4 DEF Goes, IInv, TypeOK, Stream
<1>11. Answered(h, w, place, sent')
  <2>1. Cardinality(PromptsIn(w, h)) \in Nat
    <3>1. h \in Nat
      BY <1>6
    <3> QED  BY <1>1, <3>1, PromptsCounted
  <2>2. sent + 1 <= Cardinality(PromptsIn(w, h))
    BY <1>1, <1>5, <1>7 DEF Answered
  <2>3. sent' + 0 <= Cardinality(PromptsIn(w, h))
    BY <1>1, <1>2, <2>1, <2>2
  <2> QED  BY <1>10, <2>3 DEF Answered
<1>12. StreamAt(t)'
  <2>1. /\ Follows(cut, written'[t], todo'[t], raw'[t], wire'[t])
        /\ Caught(cut[0], written'[t], Captured(t)', own'[t], buf'[t], reprompt'[t])
        /\ Answered(cut[0], written'[t], thread'[t], IF t = SudoStream' THEN sent' ELSE 0)
    BY <1>5, <1>7, <1>8, <1>9, <1>10, <1>11
  <2> QED  BY <2>1, Zenon DEF StreamAt
<1>13. Lands(t, place)
  BY <1>2, <1>4 DEF Lands
<1>14. Elsewhere(t)
  BY <1>1, <1>2, <1>7 DEF Elsewhere, TypedData
<1>15. TypedData'
  BY <1>1, <1>2, <1>3, <1>4, PasswordAssumption DEF TypedData
<1>16. sent' \in Nat /\ asked' \in Nat /\ sent' - asked' <= 1
  BY <1>1, <1>2
<1> QED  BY <1>1, <1>2, <1>12, <1>13, <1>14, <1>15, <1>16, LooperMoves

-----------------------------------------------------------------------------
(* Theorems.                                                               *)

LEMMA NextInv ==
  IInv /\ [Next]_vars => IInv'
<1> SUFFICES ASSUME IInv, [Next]_vars PROVE IInv'
  OBVIOUS
<1>1. CASE Remote
  <2>1. CASE SudoAsks
    BY <2>1, SudoAsksStep
  <2>2. CASE SudoReads
    BY <2>2, SudoReadsStep
  <2>3. CASE Asks \/ \E s \in Stream, marks \in {<<"lead", "trail">>, <<"nl">>, <<"lead">>} : Writes(s, marks)
    BY <2>3, CommandStep
  <2>4. CASE Reads \/ EndsOutput \/ Closes \/ (\E s \in Stream : NeverPauses(s))
             \/ \E code \in {0, 1} : Exits(code)
    BY <2>4, RemoteStep
  <2> QED  BY <1>1, <2>1, <2>2, <2>3, <2>4, Zenon DEF Remote
<1>2. ASSUME NEW s \in Stream, Looper(s) PROVE IInv'
  <2>1. CASE Read(s)
    BY <2>1, ReadStep
  <2>2. CASE TimeOut(s) \/ EndOfStream(s)
    BY <2>2, EndingStep
  <2>3. CASE Answer(s) \/ CaptureOnly(s)
    BY <2>3, KeptStep
  <2>4. CASE SendPassword(s)
    BY <2>4, SendPasswordStep
  <2>5. CASE AskUser(s)
    BY <2>5, AskUserStep
  <2>6. CASE TryAgain(s)
    BY <2>6, TryAgainStep
  <2> QED  BY <1>2, <2>1, <2>2, <2>3, <2>4, <2>5, <2>6, Zenon DEF Looper, Fragment
<1>3. ASSUME NEW s \in Stream, UserAnswers(s) PROVE IInv'
  BY <1>3, UserAnswersStep
<1>4. ASSUME NEW s \in Stream, UserGivesUp(s) PROVE IInv'
  BY <1>4, EndingStep
<1>5. CASE InputCheck \/ InputKey \/ InputAnswer \/ InputSend \/ InputEnds
  BY <1>5, InputStep
<1>6. CASE Main \/ Interrupt
  BY <1>6, MainStep
<1>7. CASE UNCHANGED vars
  <2> USE DEF IInv, vars, local, remote, history
  <2>1. Quiet /\ \A s \in Stream : thread'[s] = "asking" => thread[s] = "asking"
    BY <1>7 DEF Quiet
  <2>2. StreamPart' /\ HistoryPart'
    BY <2>1, QuietStreams
  <2>3. TypeOK'
    BY <1>7 DEF TypeOK
  <2>4. ThreadPart'
    BY <1>7 DEF ThreadPart
  <2>5. SudoPart'
    BY <1>7, QuietSudo DEF Running
  <2> QED  BY <2>2, <2>3, <2>4, <2>5
<1> QED  BY <1>1, <1>2, <1>3, <1>4, <1>5, <1>6, <1>7, Zenon DEF Next, Stopped, Hanging


\* Type correctness of _execute, its threads and the other end; the keyboard is kept
\* from the command (channel.input_enabled) only while a thread asks the user for a
\* password, or after it failed in that.
THEOREM TypeCorrect == Spec => []TypeOK
<1>1. Init => IInv
  BY InitInv
<1>2. IInv /\ [Next]_vars => IInv'
  BY NextInv
<1>3. IInv => TypeOK
  BY DEF IInv
<1> QED  BY <1>1, <1>2, <1>3, PTL DEF Spec

\* When run() or sudo() reports the command, every thread was joined and had ended
\* without an error, and _execute has captured what the command wrote, less the
\* prompts of sudo: no byte is lost or out of order, however recv() cut the output
\* and wherever a character or a line was split, unless sudo refused a password on it.
THEOREM CaptureIsComplete == Spec => []ReturnIsComplete
<1>1. Init => IInv
  BY InitInv
<1>2. IInv /\ [Next]_vars => IInv'
  BY NextInv
<1>3. IInv => ReturnIsComplete
  <2> SUFFICES ASSUME IInv, pc \in {"returned", "aborted"}
               PROVE  /\ \A v \in DOMAIN thread : thread[v] = "done"
                      /\ \A s \in Stream : "again" \notin ToSet(written[s]) =>
                           buf[s] = Visible(written[s])[Len(written[s])]
    BY DEF ReturnIsComplete
  <2>1. thread["out"] = "done" /\ thread["err"] = "done" /\ thread["in"] = "done"
    <3>1. Len(Workers) = 3 /\ Workers[1] = "out" /\ Workers[2] = "err" /\ Workers[3] = "in"
      BY DEF Workers
    <3>2. joined = 3 /\ \A i \in 1..joined : thread[Workers[i]] = "done"
      BY <3>1 DEF IInv, ThreadPart
    <3>3. thread[Workers[1]] = "done" /\ thread[Workers[2]] = "done" /\ thread[Workers[3]] = "done"
      BY <3>2
    <3> QED  BY <3>1, <3>3
  <2>2. \A v \in DOMAIN thread : thread[v] = "done"
    BY <2>1 DEF IInv, TypeOK
  <2>3. ASSUME NEW s \in Stream, "again" \notin ToSet(written[s])
        PROVE  buf[s] = Visible(written[s])[Len(written[s])]
    <3> DEFINE w == written[s]
    <3>1. w \in Seq(Mark) /\ todo[s] = <<>> /\ raw[s] = <<>> /\ wire[s] = <<>>
      BY <2>1 DEF IInv, ThreadPart, HistoryPart, Stream
    <3>2. PICK cut :
            /\ Follows(cut, w, todo[s], raw[s], wire[s])
            /\ Caught(cut[0], w, Captured(s), own[s], buf[s], reprompt[s])
      <4>1. StreamAt(s)
        BY DEF IInv, StreamPart
      <4> QED  BY <4>1, Zenon DEF StreamAt
    <3>3. cut[0] = Len(w)
      <4>1. Len(<<>>) = 0
        OBVIOUS
      <4>2. Follows(cut, w, <<>>, <<>>, <<>>)
        BY <3>1, <3>2
      <4>3. cut[0] \in 0..Len(w) /\ cut[0] + 0 + 0 = Len(w)
        BY <4>1, <4>2 DEF Follows
      <4> QED  BY <3>1, <4>3, SeqFacts
    <3>4. \A j \in 1..Len(w) : w[j] # "again"
      BY <2>3, <3>1, SeqFacts DEF ToSet
    <3>5. ~NoticeIn(w, Len(w))
      BY <3>4 DEF NoticeIn
    <3> QED  BY <3>2, <3>3, <3>5 DEF Caught
  <2> QED  BY <2>2, <2>3
<1> QED  BY <1>1, <1>2, <1>3, PTL DEF Spec

\* prompt() sends one password for a prompt of sudo, never two and never one that was
\* not asked for, and all but one of them were typed: the cached password is not sent
\* again after it was refused.
THEOREM PasswordsAreAskedFor == Spec => []OneAnswerPerPrompt
<1>1. Init => IInv
  BY InitInv
<1>2. IInv /\ [Next]_vars => IInv'
  BY NextInv
<1>3. IInv => OneAnswerPerPrompt
  <2> SUFFICES ASSUME IInv PROVE OneAnswerPerPrompt
    OBVIOUS
  <2> DEFINE w == written[SudoStream]
  <2>1. SudoStream \in Stream
    BY DEF SudoStream, Stream
  <2>2. w \in Seq(Mark) /\ sent \in Nat /\ sent - asked <= 1
    BY <2>1 DEF IInv, HistoryPart
  <2>3. PICK cut :
          /\ Follows(cut, w, todo[SudoStream], raw[SudoStream], wire[SudoStream])
          /\ Answered(cut[0], w, thread[SudoStream], sent)
    <3>1. StreamAt(SudoStream)
      BY <2>1 DEF IInv, StreamPart
    <3> QED  BY <3>1 DEF StreamAt
  <2> DEFINE h == cut[0]
  <2>4. h \in 0..Len(w) /\ Len(w) \in Nat
    <3>1. todo[SudoStream] \in Seq(Seq(Mark))
      BY <2>1 DEF IInv, TypeOK
    <3>2. Len(todo[SudoStream]) \in Nat /\ Len(w) \in Nat
      BY <2>2, <3>1, SeqFacts
    <3> QED  BY <2>3, <3>2 DEF Follows
  <2>5. /\ Cardinality(PromptsIn(w, h)) \in Nat /\ Cardinality(PromptsIn(w, Len(w))) \in Nat
        /\ Cardinality(PromptsIn(w, h)) <= Cardinality(PromptsIn(w, Len(w)))
    BY <2>4, PromptsCounted
  <2>6. sent <= Cardinality(PromptsIn(w, h))
    <3>1. sent + 0 <= Cardinality(PromptsIn(w, h)) \/ sent + 1 <= Cardinality(PromptsIn(w, h))
      BY <2>3 DEF Answered
    <3> QED  BY <2>2, <2>5, <3>1
  <2>7. PromptsIn(w, Len(w)) = {i \in DOMAIN w : w[i] = "prompt"}
    BY <2>2, SeqFacts DEF PromptsIn
  <2>8. sent <= Cardinality({i \in DOMAIN w : w[i] = "prompt"})
    BY <2>2, <2>5, <2>6, <2>7
  <2> QED  BY <2>2, <2>8 DEF OneAnswerPerPrompt
<1> QED  BY <1>1, <1>2, <1>3, PTL DEF Spec

=============================================================================
