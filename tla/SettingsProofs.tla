---------------------------- MODULE SettingsProofs ----------------------------
(***************************************************************************)
(* Theorems about Settings for any keys and values, any groups and aliases *)
(* of them, any with statements, nested to any depth.                      *)
(***************************************************************************)
EXTENDS Settings, SequenceTheorems, WellFoundedInduction, TLAPS

-----------------------------------------------------------------------------
(* The inductive invariant.                                                *)

IsList(s) == s \in Seq(ToSet(s))

\* What a manager has from its call.
MadeWell(m) ==
  /\ m.manager.fn \in {"setenv", "prefix", "output"}
  /\ m.manager.fn = "setenv" =>
       /\ DOMAIN m.manager.vars \subseteq EnvKey
       /\ \A k \in DOMAIN m.manager.vars \cap Key : m.manager.vars[k] \in Value
  /\ m.manager.fn = "output" =>
       ToSet(ExpandAliases(m.manager.groups)) \subseteq Group /\ m.manager.which \in BOOLEAN

\* What a block has from its entry.
EnteredWell(f) ==
  /\ MadeWell(f.made)
  /\ f.made.manager.fn # "output" =>
       /\ DOMAIN f.previous \subseteq DOMAIN f.set /\ DOMAIN f.set \subseteq EnvKey
       /\ \A k \in DOMAIN f.set \cap Key : f.set[k] \in Value
       /\ \A k \in DOMAIN f.previous \cap Key : f.previous[k] \in Value
  /\ f.made.manager.fn = "output" =>
       /\ DOMAIN f.saved = ToSet(ExpandAliases(f.made.manager.groups))
       /\ \A g \in DOMAIN f.saved : f.saved[g] \in BOOLEAN

EntriesPart ==
  /\ IsList(entering) /\ IsList(frames)
  /\ \A i \in DOMAIN entering : MadeWell(entering[i])
  /\ \A i \in DOMAIN frames : EnteredWell(frames[i])

\* The dictionaries.
DictPart ==
  /\ DOMAIN env = EnvKey
  /\ \A k \in Key : env[k] \in Value \cup {Absent}
  /\ output \in [Group -> BOOLEAN]
  /\ DOMAIN kept = EnvKey /\ lost \subseteq EnvKey

\* Blocks are left one by one, up to the one that a with statement began.
NestingPart ==
  /\ Len(frames) + Len(entering) <= MaxFrames
  /\ entering # <<>> => ~leaving
  /\ leaving => frames # <<>>
  /\ raised => leaving
  /\ frames # <<>> => frames[1].made.outermost
  /\ frames = <<>> /\ entering # <<>> => entering[1].outermost

\* The value of a key below the i-th of the open blocks: what the next of them
\* that sets it has set, or what it is to be outside of them all.
Saves(f, k) == IF k \in DOMAIN f.previous THEN f.previous[k] ELSE Absent
Below(list, i, k, outside, v) ==
  \/ (\A j \in DOMAIN list : j < i => ~Overrides(list[j], k)) /\ v = outside
  \/ \E j \in DOMAIN list :
       /\ j < i /\ Overrides(list[j], k) /\ v = list[j].set[k]
       /\ \A h \in DOMAIN list : j < h /\ h < i => ~Overrides(list[h], k)

\* No block below the i-th gives the key back: bodies did not change it there.
Exposed(list, i, k) == \A j \in DOMAIN list : j < i => ~GivesBack(list[j], k)

\* Up to the first block without clean_revert that sets a key, each block gives back
\* what was there below it; and where there is no such block, the key has what the
\* innermost block that sets it has set.
Linked(list, e, k, outside) ==
  /\ Exposed(list, Len(list) + 1, k) => Below(list, Len(list) + 1, k, outside, e[k])
  /\ \A i \in DOMAIN list :
       Overrides(list[i], k) /\ Exposed(list, i, k) => Below(list, i, k, outside, Saves(list[i], k))
EnvPart == \A k \in EnvKey \ lost : Linked(frames, env, k, kept[k])

IInv == EntriesPart /\ DictPart /\ NestingPart /\ EnvPart

\* Of a group that it sets, a block of hide() or show() knows the value before it,
\* if its call has the group only once.
Single(names) ==
  \A i, k \in DOMAIN ExpandAliases(names) : ExpandAliases(names)[i] = ExpandAliases(names)[k] => i = k

NoGroupTwice ==
  \A calls \in Blocks : \A i \in DOMAIN calls : calls[i].fn = "output" => Single(calls[i].groups)

Covers(f, g) == f.made.manager.fn = "output" /\ g \in DOMAIN f.saved

\* The outermost block that sets a group has its value from the start.
OutputPart ==
  /\ \A i \in DOMAIN entering :
       entering[i].manager.fn = "output" => Single(entering[i].manager.groups)
  /\ \A g \in Group :
       /\ (\A i \in DOMAIN frames : ~Covers(frames[i], g)) => output[g] = InitialOutput[g]
       /\ \A i \in DOMAIN frames :
            Covers(frames[i], g) /\ (\A j \in DOMAIN frames : j < i => ~Covers(frames[j], g)) =>
              frames[i].saved[g] = InitialOutput[g]

\* The keys that nested blocks build on, and the calls that do.
Nesting == {"cwd", "command_prefixes"}
Builds(k, call) == (k = "cwd" /\ call.fn = "cd") \/ (k = "command_prefixes" /\ call.fn = "prefix")

\* What the calls have made, and what their blocks give back.
CallPart ==
  /\ \A i \in DOMAIN entering :
       /\ entering[i].call \in ManagerCall
       /\ entering[i].call.fn # "cd" => entering[i].manager = entering[i].call
       /\ entering[i].call.fn = "cd" =>
            entering[i].manager = Setting("cwd", ChangeCwd(env["cwd"], entering[i].call.path))
  /\ \A i, j \in DOMAIN entering :
       entering[i].call.fn = "cd" /\ entering[j].call.fn = "cd" => i = j

NestedPart ==
  /\ BlocksNest
  /\ \A i \in DOMAIN frames : frames[i].made.call \in ManagerCall
  /\ \A k \in Nesting : \A i \in DOMAIN frames :
       /\ ~Builds(k, frames[i].made.call) /\ frames[i].made.manager.fn # "output" =>
            k \notin DOMAIN frames[i].set
       /\ Builds(k, frames[i].made.call) =>
            /\ frames[i].made.manager.fn # "output" /\ ~Clean(frames[i].made.manager)
            /\ DOMAIN frames[i].set = {k} /\ DOMAIN frames[i].previous = {k}
            /\ frames[i].previous[k] = Nested(k, frames)[i - 1]

\* At most one cd() in a with statement: the second one of settings(cd(..), cd(..))
\* is made before the first is entered.
OneCd ==
  \A calls \in Blocks : \A i, j \in DOMAIN calls : calls[i].fn = "cd" /\ calls[j].fn = "cd" => i = j

-----------------------------------------------------------------------------
(* Lists.                                                                  *)

LEMMA ListOfElements ==
  ASSUME NEW S, NEW s \in Seq(S)
  PROVE  IsList(s) /\ Len(s) \in Nat /\ DOMAIN s = 1..Len(s)
<1>1. Len(s) \in Nat /\ s \in [1..Len(s) -> S] /\ DOMAIN s = 1..Len(s)
  BY LenProperties
<1>2. s \in [1..Len(s) -> ToSet(s)]
  BY <1>1 DEF ToSet
<1>3. s \in Seq(ToSet(s))
  BY <1>1, <1>2, SeqDef
<1> QED  BY <1>1, <1>3 DEF IsList

LEMMA ListLength ==
  ASSUME NEW s, IsList(s)
  PROVE  Len(s) \in Nat /\ DOMAIN s = 1..Len(s) /\ (s # <<>> => Len(s) >= 1) /\ (Len(s) >= 1 => s # <<>>)
BY LenProperties, EmptySeq DEF IsList

LEMMA ListGrows ==
  ASSUME NEW s, IsList(s), NEW e
  PROVE  /\ IsList(Append(s, e)) /\ Append(s, e) # <<>>
         /\ Len(Append(s, e)) = Len(s) + 1 /\ DOMAIN Append(s, e) = 1..(Len(s) + 1)
         /\ \A i \in DOMAIN s : Append(s, e)[i] = s[i]
         /\ Append(s, e)[Len(s) + 1] = e
<1>1. s \in Seq(ToSet(s) \cup {e}) /\ e \in ToSet(s) \cup {e}
  BY SeqMonotonic DEF IsList
<1>2. /\ Append(s, e) \in Seq(ToSet(s) \cup {e}) /\ Append(s, e) # <<>>
      /\ Len(Append(s, e)) = Len(s) + 1
      /\ \A i \in 1..Len(s) : Append(s, e)[i] = s[i]
      /\ Append(s, e)[Len(s) + 1] = e
  BY <1>1, AppendProperties
<1>3. IsList(Append(s, e)) /\ DOMAIN Append(s, e) = 1..Len(Append(s, e))
  BY <1>2, ListOfElements
<1> QED  BY <1>2, <1>3, ListLength

LEMMA ListShrinks ==
  ASSUME NEW s, IsList(s), s # <<>>
  PROVE  /\ IsList(Tail(s)) /\ Head(s) = s[1]
         /\ Len(Tail(s)) = Len(s) - 1 /\ DOMAIN Tail(s) = 1..(Len(s) - 1)
         /\ \A i \in 1..(Len(s) - 1) : Tail(s)[i] = s[i + 1]
         /\ IsList(Front(s)) /\ Last(s) = s[Len(s)]
         /\ Len(Front(s)) = Len(s) - 1 /\ DOMAIN Front(s) = 1..(Len(s) - 1)
         /\ \A i \in 1..(Len(s) - 1) : Front(s)[i] = s[i]
<1>1. s \in Seq(ToSet(s)) /\ Len(s) \in Nat /\ DOMAIN s = 1..Len(s) /\ Len(s) >= 1
  BY ListLength DEF IsList
<1>2. /\ Tail(s) \in Seq(ToSet(s)) /\ Len(Tail(s)) = Len(s) - 1
      /\ \A i \in 1..Len(Tail(s)) : Tail(s)[i] = s[i + 1]
  BY <1>1, HeadTailProperties
<1>3. IsList(Tail(s)) /\ DOMAIN Tail(s) = 1..(Len(s) - 1)
  BY <1>2, ListOfElements
<1>4. \A i \in 1..(Len(s) - 1) : s[i] \in ToSet(s)
  BY <1>1 DEF ToSet
<1>5. /\ SubSeq(s, 1, Len(s) - 1) \in Seq(ToSet(s))
      /\ Len(SubSeq(s, 1, Len(s) - 1)) = IF 1 <= Len(s) - 1 THEN (Len(s) - 1) - 1 + 1 ELSE 0
      /\ \A i \in 1..((Len(s) - 1) - 1 + 1) : SubSeq(s, 1, Len(s) - 1)[i] = s[1 + i - 1]
  BY <1>1, <1>4, SubSeqProperties
<1>6. Len(Front(s)) = Len(s) - 1
  BY <1>1, <1>5 DEF Front
<1>7. IsList(Front(s)) /\ DOMAIN Front(s) = 1..(Len(s) - 1)
  BY <1>5, <1>6, ListOfElements DEF Front
<1>8. \A i \in 1..(Len(s) - 1) : Front(s)[i] = s[i]
  BY <1>1, <1>5 DEF Front
<1>9. Head(s) = s[1] /\ Last(s) = s[Len(s)]
  BY DEF Last
<1> QED  BY <1>2, <1>3, <1>6, <1>7, <1>8, <1>9

-----------------------------------------------------------------------------
(* Values below a block.                                                   *)

\* They do not depend on the blocks above it.
LEMMA BelowSame ==
  ASSUME NEW s, NEW t, NEW i, NEW k, NEW o, NEW v,
         \A j \in DOMAIN s : j < i => j \in DOMAIN t /\ t[j] = s[j],
         \A j \in DOMAIN t : j < i => j \in DOMAIN s
  PROVE  /\ Below(s, i, k, o, v) <=> Below(t, i, k, o, v)
         /\ Exposed(s, i, k) <=> Exposed(t, i, k)
<1>1. ASSUME Below(s, i, k, o, v) PROVE Below(t, i, k, o, v)
  <2>1. CASE (\A j \in DOMAIN s : j < i => ~Overrides(s[j], k)) /\ v = o
    BY <2>1 DEF Below
  <2>2. CASE \E j \in DOMAIN s :
               /\ j < i /\ Overrides(s[j], k) /\ v = s[j].set[k]
               /\ \A h \in DOMAIN s : j < h /\ h < i => ~Overrides(s[h], k)
    BY <2>2 DEF Below
  <2> QED  BY <1>1, <2>1, <2>2 DEF Below
<1>2. ASSUME Below(t, i, k, o, v) PROVE Below(s, i, k, o, v)
  <2>1. CASE (\A j \in DOMAIN t : j < i => ~Overrides(t[j], k)) /\ v = o
    BY <2>1 DEF Below
  <2>2. CASE \E j \in DOMAIN t :
               /\ j < i /\ Overrides(t[j], k) /\ v = t[j].set[k]
               /\ \A h \in DOMAIN t : j < h /\ h < i => ~Overrides(t[h], k)
    BY <2>2 DEF Below
  <2> QED  BY <1>2, <2>1, <2>2 DEF Below
<1>3. Exposed(s, i, k) <=> Exposed(t, i, k)
  BY DEF Exposed
<1> QED  BY <1>1, <1>2, <1>3

\* A block that does not set a key leaves what is below it.
LEMMA BelowNotSet ==
  ASSUME NEW s, NEW n \in Nat, DOMAIN s = 1..n, NEW i \in 1..n, NEW k, NEW o, NEW v, ~Overrides(s[i], k)
  PROVE  Below(s, i, k, o, v) <=> Below(s, i + 1, k, o, v)
<1>1. \A j \in DOMAIN s : j < i + 1 <=> j < i \/ j = i
  OBVIOUS
<1> QED  BY <1>1 DEF Below

LEMMA BelowSet ==
  ASSUME NEW s, NEW n \in Nat, DOMAIN s = 1..n, NEW i \in 1..n, NEW k, NEW o, NEW v, Overrides(s[i], k)
  PROVE  Below(s, i + 1, k, o, v) <=> v = s[i].set[k]
<1>1. \A j \in DOMAIN s : j < i + 1 <=> j < i \/ j = i
  OBVIOUS
<1>2. i < i + 1 /\ i \in DOMAIN s /\ \A h \in DOMAIN s : ~(i < h /\ h < i + 1)
  OBVIOUS
<1>3. \A j \in DOMAIN s : j < i => j < i /\ i < i + 1
  BY <1>2
<1> QED  BY <1>1, <1>2, <1>3 DEF Below

\* Blocks below the i-th expose a key to the next one, too, but for the i-th itself.
LEMMA ExposedNext ==
  ASSUME NEW s, NEW n \in Nat, DOMAIN s = 1..n, NEW i \in 1..n, NEW k
  PROVE  Exposed(s, i + 1, k) <=> Exposed(s, i, k) /\ ~GivesBack(s[i], k)
<1>1. \A j \in DOMAIN s : j < i + 1 <=> j < i \/ j = i
  OBVIOUS
<1> QED  BY <1>1 DEF Exposed

\* A block is entered that saves the values of the keys it sets.
LEMMA LinkedEntered ==
  ASSUME NEW s, IsList(s), NEW f, NEW e, NEW e1, NEW k, NEW o, Linked(s, e, k, o),
         IF Overrides(f, k) THEN Saves(f, k) = e[k] /\ e1[k] = f.set[k] ELSE e1[k] = e[k]
  PROVE  Linked(Append(s, f), e1, k, o)
<1> DEFINE n == Len(s)
           t == Append(s, f)
<1>1. n \in Nat /\ DOMAIN s = 1..n
  BY ListLength
<1>2. /\ Len(t) = n + 1 /\ DOMAIN t = 1..(n + 1) /\ n + 1 \in Nat /\ n + 1 \in 1..(n + 1)
      /\ \A i \in DOMAIN s : t[i] = s[i]
      /\ t[n + 1] = f
  BY <1>1, ListGrows
<1>3. /\ Exposed(s, n + 1, k) => Below(s, n + 1, k, o, e[k])
      /\ \A i \in DOMAIN s :
           Overrides(s[i], k) /\ Exposed(s, i, k) => Below(s, i, k, o, Saves(s[i], k))
  BY DEF Linked
<1> HIDE DEF n, t
<1>4. ASSUME NEW i \in 1..(n + 1), NEW v
      PROVE  /\ Below(s, i, k, o, v) <=> Below(t, i, k, o, v)
             /\ Exposed(s, i, k) <=> Exposed(t, i, k)
  <2>1. \A j \in DOMAIN s : j < i => j \in DOMAIN t /\ t[j] = s[j]
    BY <1>1, <1>2
  <2>2. \A j \in DOMAIN t : j < i => j \in DOMAIN s
    BY <1>1, <1>2
  <2> QED  BY <2>1, <2>2, BelowSame
<1>5. Exposed(t, n + 1, k) => Below(t, n + 1, k, o, e[k])
  BY <1>2, <1>3, <1>4
<1>6. Exposed(t, (n + 1) + 1, k) => Below(t, (n + 1) + 1, k, o, e1[k])
  <2>1. CASE Overrides(f, k)
    <3>1. e1[k] = t[n + 1].set[k] /\ Overrides(t[n + 1], k)
      BY <1>2, <2>1
    <3> QED  BY <1>2, <3>1, BelowSet
  <2>2. CASE ~Overrides(f, k)
    <3>1. ~Overrides(t[n + 1], k) /\ e1[k] = e[k]
      BY <1>2, <2>2
    <3>2. Below(t, n + 1, k, o, e[k]) <=> Below(t, (n + 1) + 1, k, o, e[k])
      BY <1>2, <3>1, BelowNotSet
    <3>3. Exposed(t, (n + 1) + 1, k) => Exposed(t, n + 1, k)
      BY <1>2, ExposedNext
    <3> QED  BY <1>5, <3>1, <3>2, <3>3
  <2> QED  BY <2>1, <2>2
<1>7. ASSUME NEW i \in DOMAIN t, Overrides(t[i], k), Exposed(t, i, k)
      PROVE  Below(t, i, k, o, Saves(t[i], k))
  <2>1. CASE i \in DOMAIN s
    BY <1>1, <1>2, <1>3, <1>4, <1>7, <2>1
  <2>2. CASE i = n + 1
    BY <1>2, <1>5, <1>7, <2>2
  <2> QED  BY <1>1, <1>2, <2>1, <2>2
<1>8. Len(t) + 1 = (n + 1) + 1
  BY <1>2
<1>9. Linked(t, e1, k, o)
  BY <1>6, <1>7, <1>8 DEF Linked
<1> QED  BY <1>9 DEF t

\* A block is left that puts back the value of a key it set and that is as the block
\* made it, or whatever it is; a block below may have to do it, too.
LEMMA LinkedLeft ==
  ASSUME NEW s, IsList(s), s # <<>>, NEW e, NEW e1, NEW k, NEW o, Linked(s, e, k, o),
         Exposed(s, Len(s), k) =>
           IF Overrides(s[Len(s)], k)
           THEN GivesBack(s[Len(s)], k) \/ e[k] = s[Len(s)].set[k] => e1[k] = Saves(s[Len(s)], k)
           ELSE e1[k] = e[k]
  PROVE  Linked(Front(s), e1, k, o)
<1> DEFINE n == Len(s)
           t == Front(s)
<1>1. n \in Nat /\ DOMAIN s = 1..n /\ n >= 1 /\ n \in 1..n /\ (n - 1) + 1 = n
  BY ListLength
<1>2. /\ Len(t) = n - 1 /\ DOMAIN t = 1..(n - 1)
      /\ \A i \in 1..(n - 1) : t[i] = s[i]
  BY ListShrinks
<1>3. /\ Exposed(s, n + 1, k) => Below(s, n + 1, k, o, e[k])
      /\ \A i \in DOMAIN s :
           Overrides(s[i], k) /\ Exposed(s, i, k) => Below(s, i, k, o, Saves(s[i], k))
  BY DEF Linked
<1>4. Exposed(s, n, k) =>
        IF Overrides(s[n], k)
        THEN GivesBack(s[n], k) \/ e[k] = s[n].set[k] => e1[k] = Saves(s[n], k)
        ELSE e1[k] = e[k]
  OBVIOUS
<1> HIDE DEF n, t
<1>5. ASSUME NEW i \in 1..n, NEW v
      PROVE  /\ Below(s, i, k, o, v) <=> Below(t, i, k, o, v)
             /\ Exposed(s, i, k) <=> Exposed(t, i, k)
  <2>1. \A j \in DOMAIN s : j < i => j \in DOMAIN t /\ t[j] = s[j]
    BY <1>1, <1>2
  <2>2. \A j \in DOMAIN t : j < i => j \in DOMAIN s
    BY <1>1, <1>2
  <2> QED  BY <2>1, <2>2, BelowSame
<1>6. ASSUME Exposed(s, n, k) PROVE Below(s, n, k, o, e1[k])
  <2>1. Exposed(s, n + 1, k) <=> ~GivesBack(s[n], k)
    BY <1>1, <1>6, ExposedNext
  <2>2. CASE Overrides(s[n], k)
    <3>1. GivesBack(s[n], k) \/ e[k] = s[n].set[k]
      BY <1>1, <1>3, <2>1, <2>2, BelowSet
    <3>2. e1[k] = Saves(s[n], k)
      BY <1>4, <1>6, <2>2, <3>1
    <3> QED  BY <1>1, <1>3, <1>6, <2>2, <3>2
  <2>3. CASE ~Overrides(s[n], k)
    <3>1. e1[k] = e[k] /\ ~GivesBack(s[n], k)
      BY <1>4, <1>6, <2>3 DEF GivesBack
    <3>2. Below(s, n + 1, k, o, e[k])
      BY <1>3, <2>1, <3>1
    <3> QED  BY <1>1, <2>3, <3>1, <3>2, BelowNotSet
  <2> QED  BY <2>2, <2>3
<1>7. ASSUME NEW i \in DOMAIN t, Overrides(t[i], k), Exposed(t, i, k)
      PROVE  Below(t, i, k, o, Saves(t[i], k))
  <2>1. i \in 1..(n - 1) /\ i \in DOMAIN s /\ i \in 1..n /\ t[i] = s[i]
    BY <1>1, <1>2
  <2> QED  BY <1>3, <1>5, <1>7, <2>1
<1>8. Len(t) + 1 = n
  BY <1>1, <1>2
<1>9. Exposed(t, n, k) => Below(t, n, k, o, e1[k])
  BY <1>1, <1>5, <1>6
<1>10. Linked(t, e1, k, o)
  BY <1>7, <1>8, <1>9 DEF Linked
<1> QED  BY <1>10 DEF t

LEMMA EnvEntered ==
  ASSUME IsList(frames), EnvPart, NEW f,
         frames' = Append(frames, f), kept' = kept, lost' = lost,
         \A k \in EnvKey : IF Overrides(f, k) THEN Saves(f, k) = env[k] /\ env'[k] = f.set[k]
                           ELSE env'[k] = env[k]
  PROVE  EnvPart'
<1> SUFFICES ASSUME NEW k \in EnvKey \ lost PROVE Linked(Append(frames, f), env', k, kept[k])
  BY DEF EnvPart
<1>1. Linked(frames, env, k, kept[k])
  BY DEF EnvPart
<1> QED  BY <1>1, LinkedEntered

LEMMA EnvLeft ==
  ASSUME IsList(frames), frames # <<>>, EnvPart,
         frames' = Front(frames), kept' = kept, lost \subseteq lost',
         \A k \in EnvKey \ lost' : Exposed(frames, Len(frames), k) =>
           IF Overrides(Top, k)
           THEN GivesBack(Top, k) \/ env[k] = Top.set[k] => env'[k] = Saves(Top, k)
           ELSE env'[k] = env[k]
  PROVE  EnvPart'
<1> SUFFICES ASSUME NEW k \in EnvKey \ lost' PROVE Linked(Front(frames), env', k, kept[k])
  BY DEF EnvPart
<1>1. Linked(frames, env, k, kept[k])
  BY DEF EnvPart
<1>2. Top = frames[Len(frames)]
  BY ListShrinks DEF Top
<1> QED  BY <1>1, <1>2, LinkedLeft

-----------------------------------------------------------------------------
(* Parts that a step keeps when it leaves their variables alone.           *)

LEMMA EntriesSame == ASSUME EntriesPart, UNCHANGED <<entering, frames>> PROVE EntriesPart'
BY DEF EntriesPart

LEMMA EnvSame == ASSUME EnvPart, UNCHANGED <<env, frames, kept, lost>> PROVE EnvPart'
BY DEF EnvPart

-----------------------------------------------------------------------------
(* Making and entering.                                                    *)

LEMMA InitHolds == Init => IInv
<1> SUFFICES ASSUME Init PROVE IInv
  OBVIOUS
<1>1. entering = <<>> /\ frames = <<>> /\ env = InitialEnv /\ output = InitialOutput
      /\ leaving = FALSE /\ raised = FALSE /\ kept = InitialEnv /\ lost = {}
  BY DEF Init
<1>2. <<>> \in Seq({}) /\ Len(<<>>) = 0
  BY EmptySeq
<1>3. IsList(<<>>) /\ DOMAIN <<>> = {}
  <2>1. IsList(<<>>) /\ DOMAIN <<>> = 1..Len(<<>>)
    BY <1>2, ListOfElements, Zenon
  <2> QED  BY <1>2, <2>1
<1>4. EntriesPart
  BY <1>1, <1>3 DEF EntriesPart
<1>5. DictPart
  BY <1>1, InitialAssumption DEF DictPart, EnvKey
<1>6. NestingPart
  BY <1>1, <1>2, InitialAssumption DEF NestingPart
<1>7. EnvPart
  BY <1>1, <1>3 DEF EnvPart, Linked, Below
<1> QED  BY <1>4, <1>5, <1>6, <1>7 DEF IInv

\* What a call makes is a manager of one of the three kinds.
LEMMA MadeIsWell ==
  ASSUME NEW calls \in Blocks, NEW i \in DOMAIN calls, NEW e
  PROVE  MadeWell([manager |-> Made(calls[i], e), call |-> calls[i], outermost |-> i = 1])
<1> DEFINE m == Made(calls[i], e)
<1>1. calls[i] \in ManagerCall
  <2>1. calls \in Seq(ManagerCall)
    BY BlockAssumption
  <2> QED  BY <2>1, LenProperties, ElementOfSeq
<1>2. CASE calls[i] \in [fn : {"setenv"}, vars : UNION {[set -> Value] : set \in SUBSET Key}, clean : BOOLEAN]
  <2>1. m = calls[i] /\ m.fn = "setenv"
    BY <1>2 DEF Made
  <2>2. PICK set \in SUBSET Key : m.vars \in [set -> Value]
    BY <1>2, <2>1
  <2>3. DOMAIN m.vars \subseteq EnvKey /\ \A k \in DOMAIN m.vars \cap Key : m.vars[k] \in Value
    BY <2>2 DEF EnvKey
  <2> QED  BY <2>1, <2>3 DEF MadeWell
<1>3. CASE calls[i] \in [fn : {"output"}, groups : Seq(Group \cup DOMAIN Aliases), which : BOOLEAN]
  <2>1. m = calls[i] /\ m.fn = "output" /\ m.which \in BOOLEAN
    BY <1>3 DEF Made
  <2>2. ToSet(ExpandAliases(m.groups)) \subseteq Group
    BY <2>1, BlockAssumption
  <2> QED  BY <2>1, <2>2 DEF MadeWell
<1>4. CASE calls[i] \in [fn : {"cd"}, path : [absolute : BOOLEAN, dirs : Seq(STRING)]]
  <2>1. m = Setting("cwd", ChangeCwd(e["cwd"], calls[i].path))
    BY <1>4 DEF Made
  <2>2. m.fn = "setenv" /\ DOMAIN m.vars = {"cwd"}
    BY <2>1 DEF Setting
  <2>3. "cwd" \notin Key /\ "cwd" \in EnvKey
    BY KeyAssumption DEF EnvKey
  <2> QED  BY <2>2, <2>3 DEF MadeWell
<1>5. CASE calls[i] \in [fn : {"prefix"}, command : STRING]
  <2>1. m = calls[i] /\ m.fn = "prefix"
    BY <1>5 DEF Made
  <2> QED  BY <2>1 DEF MadeWell
<1> QED  BY <1>1, <1>2, <1>3, <1>4, <1>5 DEF ManagerCall

LEMMA WithEntries ==
  ASSUME NEW calls \in Blocks, With(calls)
  PROVE  /\ Len(calls) \in Nat /\ DOMAIN calls = 1..Len(calls)
         /\ IsList(entering') /\ Len(entering') = Len(calls) /\ DOMAIN entering' = DOMAIN calls
         /\ \A i \in DOMAIN calls :
              /\ entering'[i] = [manager |-> Made(calls[i], env), call |-> calls[i], outermost |-> i = 1]
              /\ entering'[i].manager = Made(calls[i], env)
              /\ entering'[i].call = calls[i]
              /\ i = 1 => entering'[i].outermost
<1>1. calls \in Seq(ManagerCall)
  BY BlockAssumption
<1>2. Len(calls) \in Nat /\ DOMAIN calls = 1..Len(calls)
  BY <1>1, LenProperties
<1>3. /\ entering' = [i \in 1..Len(calls) |->
           [manager |-> Made(calls[i], env), call |-> calls[i], outermost |-> i = 1]]
  BY <1>2 DEF With
<1>4. /\ DOMAIN entering' = 1..Len(calls)
      /\ \A i \in 1..Len(calls) :
           entering'[i] = [manager |-> Made(calls[i], env), call |-> calls[i], outermost |-> i = 1]
  BY <1>3
<1>5. entering' \in [1..Len(calls) -> ToSet(entering')]
  BY <1>3, <1>4 DEF ToSet
<1>6. entering' \in Seq(ToSet(entering'))
  BY <1>2, <1>5, SeqDef
<1>7. Len(entering') = Len(calls)
  BY <1>2, <1>4, <1>6, LenProperties
<1>8. ASSUME NEW i \in DOMAIN calls
      PROVE  /\ entering'[i].manager = Made(calls[i], env) /\ entering'[i].call = calls[i]
             /\ i = 1 => entering'[i].outermost
  <2>1. entering'[i] = [manager |-> Made(calls[i], env), call |-> calls[i], outermost |-> i = 1]
    BY <1>2, <1>4
  <2>2. entering'[i].manager = Made(calls[i], env)
    BY <2>1
  <2>3. entering'[i].outermost = (i = 1) /\ entering'[i].call = calls[i]
    <3>1. ASSUME NEW m, NEW made, NEW call, m = [manager |-> made, call |-> call, outermost |-> i = 1]
          PROVE  m.outermost = (i = 1) /\ m.call = call
      BY <3>1
    <3> QED  BY <2>1, <3>1
  <2> QED  BY <2>2, <2>3
<1> QED  BY <1>2, <1>4, <1>6, <1>7, <1>8 DEF IsList

LEMMA WithKeeps == ASSUME IInv, NEW calls \in Blocks, With(calls) PROVE IInv'
<1>1. /\ UNCHANGED <<env, output, frames, leaving, raised, kept, lost>>
      /\ entering = <<>> /\ ~leaving /\ Len(frames) + Len(calls) <= MaxFrames
  BY DEF With, Quiet
<1>2. EntriesPart'
  <2>1. ASSUME NEW i \in DOMAIN calls PROVE MadeWell(entering'[i])
    <3>1. entering'[i] = [manager |-> Made(calls[i], env), call |-> calls[i], outermost |-> i = 1]
      BY WithEntries
    <3>2. MadeWell([manager |-> Made(calls[i], env), call |-> calls[i], outermost |-> i = 1])
      BY MadeIsWell
    <3> QED  BY <3>1, <3>2, Zenon
  <2>2. IsList(entering') /\ DOMAIN entering' = DOMAIN calls
    BY WithEntries
  <2> QED  BY <1>1, <2>1, <2>2 DEF IInv, EntriesPart
<1>3. DictPart'
  BY <1>1 DEF IInv, DictPart
<1>4. NestingPart'
  <2>1. entering' # <<>> => entering'[1].outermost
    <3>1. entering' # <<>> => 1 \in DOMAIN calls
      BY WithEntries, ListLength
    <3>2. 1 \in DOMAIN calls => entering'[1].outermost
      BY WithEntries
    <3> QED  BY <3>1, <3>2
  <2>2. Len(entering') = Len(calls)
    BY WithEntries
  <2> QED  BY <1>1, <2>1, <2>2 DEF IInv, NestingPart
<1>5. EnvPart'
  BY <1>1, EnvSame DEF IInv
<1> QED  BY <1>2, <1>3, <1>4, <1>5 DEF IInv

\* The first manager of those made becomes the innermost block.
LEMMA EnteredNesting ==
  ASSUME IInv, entering # <<>>, NEW f, f.made = Head(entering), EnteredWell(f),
         entering' = Tail(entering), frames' = Append(frames, f), UNCHANGED <<leaving, raised>>
  PROVE  EntriesPart' /\ NestingPart'
<1>1. IsList(entering) /\ IsList(frames)
  BY DEF IInv, EntriesPart
<1>2. /\ IsList(entering') /\ Len(entering') = Len(entering) - 1 /\ Head(entering) = entering[1]
      /\ DOMAIN entering' = 1..(Len(entering) - 1)
      /\ \A i \in 1..(Len(entering) - 1) : entering'[i] = entering[i + 1]
  BY <1>1, ListShrinks
<1>3. /\ Len(entering) \in Nat /\ DOMAIN entering = 1..Len(entering)
      /\ Len(frames) \in Nat /\ DOMAIN frames = 1..Len(frames) /\ Len(entering) >= 1
      /\ (frames # <<>> => Len(frames) >= 1) /\ (Len(frames) >= 1 => frames # <<>>)
  BY <1>1, ListLength
<1>4. /\ IsList(frames') /\ frames' # <<>> /\ Len(frames') = Len(frames) + 1
      /\ DOMAIN frames' = 1..(Len(frames) + 1)
      /\ \A i \in DOMAIN frames : frames'[i] = frames[i]
      /\ frames'[Len(frames) + 1] = f
  BY <1>1, ListGrows
<1>5. EntriesPart'
  <2>1. ASSUME NEW i \in DOMAIN entering' PROVE MadeWell(entering'[i])
    <3>1. i + 1 \in DOMAIN entering /\ entering'[i] = entering[i + 1]
      BY <1>2, <1>3
    <3> QED  BY <3>1 DEF IInv, EntriesPart
  <2>2. ASSUME NEW i \in DOMAIN frames' PROVE EnteredWell(frames'[i])
    <3>1. i \in DOMAIN frames \/ i = Len(frames) + 1
      BY <1>3, <1>4
    <3> QED  BY <1>4, <3>1 DEF IInv, EntriesPart
  <2> QED  BY <1>2, <1>4, <2>1, <2>2 DEF EntriesPart
<1>6. frames'[1].made.outermost
  <2>1. CASE frames = <<>>
    <3>1. Len(frames) + 1 = 1
      BY <1>3, <2>1
    <3> QED  BY <1>2, <1>4, <2>1, <3>1 DEF IInv, NestingPart
  <2>2. CASE frames # <<>>
    BY <1>3, <1>4, <2>2 DEF IInv, NestingPart
  <2> QED  BY <2>1, <2>2
<1>7. Len(frames') + Len(entering') <= MaxFrames
  <2>1. Len(frames) + Len(entering) <= MaxFrames
    BY DEF IInv, NestingPart
  <2> QED  BY <1>2, <1>3, <1>4, <2>1, InitialAssumption
<1>8. NestingPart'
  BY <1>4, <1>6, <1>7 DEF IInv, NestingPart
<1> QED  BY <1>5, <1>8

LEMMA UpdatedValues ==
  ASSUME NEW f, NEW set
  PROVE  /\ DOMAIN Updated(f, set) = DOMAIN f
         /\ \A k \in DOMAIN f : Updated(f, set)[k] = IF k \in DOMAIN set THEN set[k] ELSE f[k]
BY DEF Updated

LEMMA HeadIsWell == ASSUME IInv, entering # <<>> PROVE MadeWell(Head(entering))
<1>1. IsList(entering)
  BY DEF IInv, EntriesPart
<1>2. 1 \in DOMAIN entering /\ Head(entering) = entering[1]
  BY <1>1, ListLength, ListShrinks
<1> QED  BY <1>2 DEF IInv, EntriesPart

LEMMA EnterSetenvKeeps == ASSUME IInv, EnterSetenv PROVE IInv'
<1> DEFINE set == Variables(Manager)
           f == [made |-> Head(entering), set |-> set, previous |-> Previous(set)]
<1>1. /\ entering # <<>> /\ Manager.fn # "output" /\ entering' = Tail(entering)
      /\ frames' = Append(frames, f) /\ env' = Updated(env, set)
      /\ UNCHANGED <<output, leaving, raised, kept, lost>>
  BY DEF EnterSetenv
<1>2. f.made = Head(entering) /\ f.set = set /\ f.previous = Previous(set)
  OBVIOUS
<1>3. MadeWell(Head(entering)) /\ Head(entering).manager.fn # "output"
  BY <1>1, HeadIsWell DEF Manager
<1>4. DOMAIN set \subseteq EnvKey /\ \A k \in DOMAIN set \cap Key : set[k] \in Value
  <2>1. CASE Manager.fn = "prefix"
    <3>1. DOMAIN set = {"command_prefixes"}
      BY <2>1 DEF Variables
    <3>2. "command_prefixes" \in EnvKey /\ "command_prefixes" \notin Key
      BY KeyAssumption DEF EnvKey
    <3> QED  BY <3>1, <3>2
  <2>2. CASE Manager.fn = "setenv"
    <3>1. set = Manager.vars
      BY <2>2 DEF Variables
    <3> QED  BY <1>3, <2>2, <3>1 DEF MadeWell, Manager
  <2> QED  BY <1>1, <1>3, <2>1, <2>2 DEF MadeWell, Manager
<1>5. /\ DOMAIN Previous(set) = {k \in DOMAIN set : env[k] # Absent}
      /\ \A k \in DOMAIN Previous(set) : Previous(set)[k] = env[k]
  BY DEF Previous
<1> HIDE DEF set, f
<1>6. EnteredWell(f)
  <2>1. \A k \in DOMAIN f.previous \cap Key : f.previous[k] \in Value
    BY <1>2, <1>5 DEF IInv, DictPart
  <2> QED  BY <1>2, <1>3, <1>4, <1>5, <2>1 DEF EnteredWell
<1>7. EntriesPart' /\ NestingPart'
  BY <1>1, <1>2, <1>6, EnteredNesting
<1>8. DOMAIN env' = EnvKey /\ \A k \in EnvKey : env'[k] = IF k \in DOMAIN set THEN set[k] ELSE env[k]
  BY <1>1, UpdatedValues DEF IInv, DictPart
<1>9. DictPart'
  <2>1. \A k \in Key : env'[k] \in Value \cup {Absent}
    BY <1>4, <1>8 DEF IInv, DictPart, EnvKey
  <2> QED  BY <1>1, <1>8, <2>1 DEF IInv, DictPart
<1>10. EnvPart'
  <2>1. ASSUME NEW k \in EnvKey
        PROVE  IF Overrides(f, k) THEN Saves(f, k) = env[k] /\ env'[k] = f.set[k] ELSE env'[k] = env[k]
    BY <1>2, <1>3, <1>5, <1>8 DEF Overrides, Saves
  <2> QED  BY <1>1, <2>1, EnvEntered DEF IInv, EntriesPart
<1> QED  BY <1>7, <1>9, <1>10 DEF IInv

LEMMA EnterOutputKeeps == ASSUME IInv, EnterOutput PROVE IInv'
<1> DEFINE groups == ExpandAliases(Manager.groups)
           f == [made |-> Head(entering), saved |-> Saved(groups, Manager.which)]
<1>1. /\ entering # <<>> /\ Manager.fn = "output" /\ entering' = Tail(entering)
      /\ frames' = Append(frames, f)
      /\ output' = Updated(output, [g \in ToSet(groups) |-> Manager.which])
      /\ UNCHANGED <<env, leaving, raised, kept, lost>>
  BY DEF EnterOutput
<1>2. f.made = Head(entering) /\ f.saved = Saved(groups, Manager.which)
  OBVIOUS
<1>3. /\ MadeWell(Head(entering)) /\ Head(entering).manager.fn = "output"
      /\ ToSet(groups) \subseteq Group /\ Manager.which \in BOOLEAN
      /\ groups = ExpandAliases(Head(entering).manager.groups)
  BY <1>1, HeadIsWell DEF Manager, MadeWell
<1>4. /\ DOMAIN f.saved = ToSet(groups)
      /\ \A g \in DOMAIN f.saved : f.saved[g] \in {Manager.which, output[g]}
  BY <1>2 DEF Saved
<1> HIDE DEF groups, f
<1>5. EnteredWell(f)
  BY <1>2, <1>3, <1>4 DEF EnteredWell, IInv, DictPart
<1>6. EntriesPart' /\ NestingPart'
  BY <1>1, <1>2, <1>5, EnteredNesting
<1>7. DictPart'
  <2>1. output' \in [Group -> BOOLEAN]
    BY <1>1, <1>3 DEF IInv, DictPart, Updated
  <2> QED  BY <1>1, <2>1 DEF IInv, DictPart
<1>8. EnvPart'
  <2>1. \A k : ~Overrides(f, k)
    BY <1>2, <1>3 DEF Overrides
  <2> QED  BY <1>1, <2>1, EnvEntered DEF IInv, EntriesPart
<1> QED  BY <1>6, <1>7, <1>8 DEF IInv

-----------------------------------------------------------------------------
(* The body.                                                               *)

\* A key of env is changed, outside of the blocks that override it or inside.
LEMMA BodyKeeps ==
  ASSUME IInv, NEW k \in Key, NEW v \in Value \cup {Absent}, Quiet,
         env' = [env EXCEPT ![k] = v], Changed(k, v),
         UNCHANGED <<output, frames, leaving, raised, entering>>
  PROVE  IInv'
<1>1. DOMAIN env = EnvKey /\ k \in EnvKey
  BY DEF IInv, DictPart, EnvKey
<1>2. EntriesPart'
  BY EntriesSame DEF IInv
<1>3. DictPart'
  <2>1. DOMAIN kept' = EnvKey /\ lost' \subseteq EnvKey
    BY <1>1 DEF IInv, DictPart, Changed
  <2> QED  BY <1>1, <2>1 DEF IInv, DictPart, EnvKey
<1>4. NestingPart'
  BY DEF IInv, NestingPart
<1>5. ASSUME NEW j \in EnvKey \ lost', j # k PROVE Linked(frames, env', j, kept'[j])
  <2>1. j \in EnvKey \ lost /\ env'[j] = env[j] /\ kept'[j] = kept[j]
    BY <1>1, <1>5 DEF Changed, IInv, DictPart
  <2>2. Linked(frames, env, j, kept[j])
    BY <2>1 DEF IInv, EnvPart
  <2> QED  BY <2>1, <2>2 DEF Linked
<1>6. ASSUME k \notin lost' PROVE Linked(frames, env', k, kept'[k])
  <2>1. CASE \A i \in DOMAIN frames : ~Overrides(frames[i], k)
    <3>1. env'[k] = v /\ kept'[k] = v
      BY <1>1, <2>1 DEF Changed, IInv, DictPart
    <3> QED  BY <2>1, <3>1 DEF Linked, Below
  <2>2. CASE ~\A i \in DOMAIN frames : ~Overrides(frames[i], k)
    <3>1. kept' = kept /\ lost' = lost \cup {j \in {k} : \A i \in DOMAIN frames : ~GivesBack(frames[i], j)}
      BY <2>2 DEF Changed
    <3>2. k \notin lost /\ ~\A i \in DOMAIN frames : ~GivesBack(frames[i], k)
      BY <1>6, <3>1
    <3>3. Linked(frames, env, k, kept[k])
      BY <1>1, <3>2 DEF IInv, EnvPart
    <3>4. ~Exposed(frames, Len(frames) + 1, k)
      <4>1. DOMAIN frames = 1..Len(frames) /\ Len(frames) \in Nat
        BY ListLength DEF IInv, EntriesPart
      <4> QED  BY <3>2, <4>1 DEF Exposed
    <3> QED  BY <3>1, <3>3, <3>4 DEF Linked
  <2> QED  BY <2>1, <2>2
<1>7. EnvPart'
  BY <1>5, <1>6 DEF EnvPart
<1> QED  BY <1>2, <1>3, <1>4, <1>7 DEF IInv

LEMMA EndBodyKeeps == ASSUME IInv, EndBody PROVE IInv'
<1>1. /\ entering = <<>> /\ frames # <<>> /\ leaving' = TRUE /\ raised' \in BOOLEAN
      /\ UNCHANGED <<env, output, frames, kept, lost, entering>>
  BY DEF EndBody, Quiet
<1>2. EntriesPart' /\ EnvPart'
  BY <1>1, EntriesSame, EnvSame DEF IInv
<1>3. DictPart'
  BY <1>1 DEF IInv, DictPart
<1>4. NestingPart'
  BY <1>1 DEF IInv, NestingPart
<1> QED  BY <1>2, <1>3, <1>4 DEF IInv

-----------------------------------------------------------------------------
(* Leaving.                                                                *)

LEMMA LeftNesting ==
  ASSUME IInv, leaving, NEW error \in BOOLEAN, Leave(error), entering' = entering
  PROVE  EntriesPart' /\ NestingPart' /\ EnteredWell(Top) /\ frames # <<>>
<1>1. IsList(frames) /\ frames # <<>> /\ entering = <<>> /\ IsList(entering)
  BY DEF IInv, EntriesPart, NestingPart
<1>2. frames' = Front(frames) /\ Remaining(error) = frames'
  BY DEF Leave, Remaining
<1>3. /\ Len(frames) \in Nat /\ DOMAIN frames = 1..Len(frames) /\ Len(frames) >= 1
  BY <1>1, ListLength
<1>4. /\ IsList(frames') /\ Top = frames[Len(frames)] /\ Len(frames') = Len(frames) - 1
      /\ DOMAIN frames' = 1..(Len(frames) - 1)
      /\ \A i \in 1..(Len(frames) - 1) : frames'[i] = frames[i]
  BY <1>1, <1>2, ListShrinks DEF Top
<1>5. EntriesPart'
  <2>1. ASSUME NEW i \in DOMAIN frames' PROVE EnteredWell(frames'[i])
    <3>1. i \in DOMAIN frames /\ frames'[i] = frames[i]
      BY <1>3, <1>4
    <3> QED  BY <3>1 DEF IInv, EntriesPart
  <2> QED  BY <1>4, <2>1 DEF IInv, EntriesPart
<1>6. frames' # <<>> <=> Len(frames) > 1
  BY <1>3, <1>4, ListLength
<1>7. leaving' => Len(frames) > 1
  BY <1>2, <1>6 DEF Leave
<1>8. raised' => leaving'
  BY DEF Leave
<1>9. Len(frames') + Len(entering') <= MaxFrames
  <2>1. Len(frames) + Len(entering) <= MaxFrames /\ Len(entering) \in Nat
    BY <1>1, ListLength DEF IInv, NestingPart
  <2> QED  BY <1>3, <1>4, <2>1, InitialAssumption
<1>10. frames' # <<>> => frames'[1].made.outermost
  <2>1. frames' # <<>> => 1 \in 1..(Len(frames) - 1)
    BY <1>3, <1>6
  <2> QED  BY <1>1, <1>4, <2>1 DEF IInv, NestingPart
<1>11. NestingPart'
  BY <1>1, <1>6, <1>7, <1>8, <1>9, <1>10 DEF NestingPart
<1>12. EnteredWell(Top)
  BY <1>3, <1>4 DEF IInv, EntriesPart
<1> QED  BY <1>1, <1>5, <1>11, <1>12

LEMMA LeaveCleanKeeps == ASSUME IInv, LeaveClean PROVE IInv'
<1>1. /\ leaving /\ Clean(Top.made.manager) /\ env' = Reverted(Top) /\ Leave(FALSE)
      /\ UNCHANGED <<output, kept, lost, entering>>
  BY DEF LeaveClean
<1>2. EntriesPart' /\ NestingPart' /\ EnteredWell(Top) /\ frames # <<>>
  BY <1>1, LeftNesting
<1>3. Top.made.manager.fn = "setenv"
  BY <1>1 DEF Clean
<1>4. /\ DOMAIN env' = EnvKey
      /\ \A k \in EnvKey :
           env'[k] = IF k \in DOMAIN Top.set /\ env[k] = Top.set[k] THEN Saves(Top, k) ELSE env[k]
  BY <1>1 DEF Reverted, Saves
<1>5. DictPart'
  <2>1. ASSUME NEW k \in Key PROVE env'[k] \in Value \cup {Absent}
    <3>1. env[k] \in Value \cup {Absent} /\ k \in EnvKey
      BY DEF IInv, DictPart, EnvKey
    <3>2. Saves(Top, k) \in Value \cup {Absent}
      BY <1>2, <1>3 DEF EnteredWell, Saves
    <3> QED  BY <1>4, <3>1, <3>2
  <2> QED  BY <1>1, <1>4, <2>1 DEF IInv, DictPart
<1>6. EnvPart'
  <2>1. ASSUME NEW k \in EnvKey
        PROVE  IF Overrides(Top, k)
               THEN GivesBack(Top, k) \/ env[k] = Top.set[k] => env'[k] = Saves(Top, k)
               ELSE env'[k] = env[k]
    BY <1>1, <1>3, <1>4 DEF Overrides, GivesBack
  <2>2. frames' = Front(frames)
    BY <1>1 DEF Leave, Remaining
  <2> QED  BY <1>1, <1>2, <2>1, <2>2, EnvLeft DEF IInv, EntriesPart
<1> QED  BY <1>2, <1>5, <1>6 DEF IInv

LEMMA LeaveSetenvKeeps == ASSUME IInv, LeaveSetenv PROVE IInv'
<1> DEFINE there == {k \in Fresh(Top) : env[k] # Absent}
           error == there # Fresh(Top)
<1>1. PICK removed \in SUBSET there :
        /\ error \/ removed = there
        /\ env' = [k \in EnvKey |-> IF k \in removed THEN Absent ELSE Updated(env, Top.previous)[k]]
        /\ lost' = lost \cup {k \in there \ removed :
                             \A i \in DOMAIN Front(frames) : ~GivesBack(frames[i], k)}
        /\ Leave(error)
  BY DEF LeaveSetenv
<1>2. /\ leaving /\ Top.made.manager.fn \in {"setenv", "prefix"}
      /\ UNCHANGED <<output, kept, entering>>
  BY DEF LeaveSetenv
<1>3. EntriesPart' /\ NestingPart' /\ EnteredWell(Top) /\ frames # <<>>
  <2>1. error \in BOOLEAN
    OBVIOUS
  <2> QED  BY <1>1, <1>2, <2>1, LeftNesting
<1>4. /\ DOMAIN env' = EnvKey
      /\ \A k \in EnvKey :
           env'[k] = IF k \in removed THEN Absent
                     ELSE IF k \in DOMAIN Top.previous THEN Top.previous[k] ELSE env[k]
  BY <1>1, UpdatedValues DEF IInv, DictPart
<1>5. DictPart'
  <2>1. ASSUME NEW k \in Key PROVE env'[k] \in Value \cup {Absent}
    <3>1. env[k] \in Value \cup {Absent} /\ k \in EnvKey
      BY DEF IInv, DictPart, EnvKey
    <3>2. k \in DOMAIN Top.previous => Top.previous[k] \in Value
      BY <1>2, <1>3 DEF EnteredWell
    <3> QED  BY <1>4, <3>1, <3>2
  <2>2. lost' \subseteq EnvKey
    BY <1>1, <1>2, <1>3 DEF IInv, DictPart, Fresh, EnteredWell
  <2> QED  BY <1>2, <1>4, <2>1, <2>2 DEF IInv, DictPart
<1>6. EnvPart'
  <2>1. ASSUME NEW k \in EnvKey \ lost', Exposed(frames, Len(frames), k)
        PROVE  IF Overrides(Top, k)
               THEN GivesBack(Top, k) \/ env[k] = Top.set[k] => env'[k] = Saves(Top, k)
               ELSE env'[k] = env[k]
    <3>1. k \notin there \ removed
      <4>1. \A i \in DOMAIN Front(frames) : ~GivesBack(frames[i], k)
        <5>1. IsList(frames)
          BY DEF IInv, EntriesPart
        <5>2. DOMAIN Front(frames) = 1..(Len(frames) - 1) /\ Len(frames) \in Nat /\ DOMAIN frames = 1..Len(frames)
          BY <1>3, <5>1, ListShrinks, ListLength
        <5> QED  BY <2>1, <5>2 DEF Exposed
      <4> QED  BY <1>1, <2>1, <4>1
    <3>2. DOMAIN Top.previous \subseteq DOMAIN Top.set
      BY <1>2, <1>3 DEF EnteredWell
    <3>3. k \in Fresh(Top) => env'[k] = Absent
      BY <1>1, <1>4, <3>1 DEF Fresh
    <3>4. k \in removed => k \in Fresh(Top)
      BY <1>1
    <3> HIDE DEF there, error
    <3> QED  BY <1>2, <1>4, <3>2, <3>3, <3>4 DEF Overrides, Saves, Fresh
  <2>2. frames' = Front(frames) /\ lost \subseteq lost'
    BY <1>1 DEF Leave, Remaining
  <2> QED  BY <1>2, <1>3, <2>1, <2>2, EnvLeft DEF IInv, EntriesPart
<1> QED  BY <1>3, <1>5, <1>6 DEF IInv

LEMMA LeaveOutputKeeps == ASSUME IInv, LeaveOutput PROVE IInv'
<1>1. /\ leaving /\ Top.made.manager.fn = "output" /\ output' = Updated(output, Top.saved)
      /\ Leave(FALSE) /\ UNCHANGED <<env, kept, lost, entering>>
  BY DEF LeaveOutput
<1>2. EntriesPart' /\ NestingPart' /\ EnteredWell(Top) /\ frames # <<>>
  BY <1>1, LeftNesting
<1>3. DictPart'
  <2>1. output' \in [Group -> BOOLEAN]
    BY <1>1, <1>2 DEF IInv, DictPart, Updated, EnteredWell
  <2> QED  BY <1>1, <2>1 DEF IInv, DictPart
<1>4. EnvPart'
  <2>1. \A k : ~Overrides(Top, k)
    BY <1>1 DEF Overrides
  <2>2. frames' = Front(frames)
    BY <1>1 DEF Leave, Remaining
  <2> QED  BY <1>1, <1>2, <2>1, <2>2, EnvLeft DEF IInv, EntriesPart
<1> QED  BY <1>2, <1>3, <1>4 DEF IInv

LEMMA NextKeeps == IInv /\ [Next]_vars => IInv'
<1> SUFFICES ASSUME IInv, [Next]_vars PROVE IInv'
  OBVIOUS
<1>1. ASSUME NEW k \in Key, Delete(k) PROVE IInv'
  BY <1>1, BodyKeeps DEF Delete
<1>2. ASSUME NEW k \in Key, NEW v \in Value, Assign(k, v) PROVE IInv'
  BY <1>2, BodyKeeps DEF Assign
<1>3. CASE UNCHANGED vars
  <2>1. UNCHANGED <<env, output, entering, frames, leaving, raised, kept, lost>>
    BY <1>3 DEF vars
  <2>2. EntriesPart' /\ EnvPart'
    BY <2>1, EntriesSame, EnvSame DEF IInv
  <2> QED  BY <2>1, <2>2 DEF IInv, DictPart, NestingPart
<1> QED
  BY <1>1, <1>2, <1>3, WithKeeps, EnterSetenvKeeps, EnterOutputKeeps, EndBodyKeeps,
     LeaveCleanKeeps, LeaveSetenvKeeps, LeaveOutputKeeps
  DEF Next

LEMMA Inductive == Spec => []IInv
<1> QED  BY InitHolds, NextKeeps, PTL DEF Spec

-----------------------------------------------------------------------------
(* The output groups, if no call names one of them twice.                  *)

\* A block is entered that saves what it covers.
LEMMA OutputEntered ==
  ASSUME IInv, OutputPart, entering # <<>>, NEW f,
         entering' = Tail(entering), frames' = Append(frames, f),
         \A g \in Group : IF Covers(f, g) THEN f.saved[g] = output[g] ELSE output'[g] = output[g]
  PROVE  OutputPart'
<1>1. IsList(entering) /\ IsList(frames)
  BY DEF IInv, EntriesPart
<1>2. /\ DOMAIN entering' = 1..(Len(entering) - 1)
      /\ \A i \in 1..(Len(entering) - 1) : entering'[i] = entering[i + 1]
      /\ Len(entering) \in Nat /\ DOMAIN entering = 1..Len(entering)
  BY <1>1, ListShrinks, ListLength
<1>3. /\ Len(frames) \in Nat /\ DOMAIN frames = 1..Len(frames)
      /\ DOMAIN frames' = 1..(Len(frames) + 1)
      /\ \A i \in DOMAIN frames : frames'[i] = frames[i]
      /\ frames'[Len(frames) + 1] = f
  BY <1>1, ListLength, ListGrows
<1>4. ASSUME NEW i \in DOMAIN entering', entering'[i].manager.fn = "output"
      PROVE  Single(entering'[i].manager.groups)
  <2>1. i + 1 \in DOMAIN entering /\ entering'[i] = entering[i + 1]
    BY <1>2
  <2> QED  BY <1>4, <2>1 DEF OutputPart
<1>5. /\ DOMAIN frames \subseteq DOMAIN frames' /\ Len(frames) + 1 \in DOMAIN frames'
      /\ \A i \in DOMAIN frames' : i \in DOMAIN frames \/ i = Len(frames) + 1
      /\ \A i \in DOMAIN frames : i < Len(frames) + 1
  BY <1>3
<1>6. ASSUME NEW g \in Group, \A i \in DOMAIN frames' : ~Covers(frames'[i], g)
      PROVE  output'[g] = InitialOutput[g]
  <2>1. ~Covers(f, g) /\ \A i \in DOMAIN frames : ~Covers(frames[i], g)
    BY <1>3, <1>5, <1>6
  <2> QED  BY <2>1 DEF OutputPart
<1>7. ASSUME NEW g \in Group, NEW i \in DOMAIN frames', Covers(frames'[i], g),
             \A j \in DOMAIN frames' : j < i => ~Covers(frames'[j], g)
      PROVE  frames'[i].saved[g] = InitialOutput[g]
  <2>1. CASE i \in DOMAIN frames
    <3>1. \A j \in DOMAIN frames : j < i => ~Covers(frames[j], g)
      BY <1>3, <1>5, <1>7
    <3> QED  BY <1>3, <1>7, <2>1, <3>1 DEF OutputPart
  <2>2. CASE i = Len(frames) + 1
    <3>1. \A j \in DOMAIN frames : ~Covers(frames[j], g)
      BY <1>3, <1>5, <1>7, <2>2
    <3>2. output[g] = InitialOutput[g]
      BY <3>1 DEF OutputPart
    <3> QED  BY <1>3, <1>7, <2>2, <3>2
  <2> QED  BY <1>5, <2>1, <2>2
<1> QED  BY <1>4, <1>6, <1>7 DEF OutputPart

LEMMA OutputLeft ==
  ASSUME IInv, OutputPart, frames # <<>>, entering' = entering, frames' = Front(frames),
         \A g \in Group : output'[g] = IF Covers(Top, g) THEN Top.saved[g] ELSE output[g]
  PROVE  OutputPart'
<1> DEFINE n == Len(frames)
<1>1. IsList(frames)
  BY DEF IInv, EntriesPart
<1>2. /\ n \in Nat /\ DOMAIN frames = 1..n /\ n >= 1
      /\ DOMAIN frames' = 1..(n - 1) /\ Top = frames[n]
      /\ \A i \in 1..(n - 1) : frames'[i] = frames[i]
  BY <1>1, ListLength, ListShrinks DEF Top
<1> HIDE DEF n
<1>3. /\ DOMAIN frames' \subseteq DOMAIN frames /\ n \in DOMAIN frames
      /\ \A i \in DOMAIN frames' : frames'[i] = frames[i] /\ i < n
      /\ \A i \in DOMAIN frames : i \in DOMAIN frames' \/ i = n
      /\ \A i \in DOMAIN frames' : \A j \in DOMAIN frames : j < i => j \in DOMAIN frames'
  BY <1>2
<1>4. ASSUME NEW g \in Group, \A i \in DOMAIN frames' : ~Covers(frames'[i], g)
      PROVE  output'[g] = InitialOutput[g]
  <2>1. \A i \in DOMAIN frames : Covers(frames[i], g) => i = n
    BY <1>3, <1>4
  <2>2. CASE Covers(frames[n], g)
    <3>1. \A j \in DOMAIN frames : j < n => ~Covers(frames[j], g)
      BY <1>2, <2>1
    <3>2. frames[n].saved[g] = InitialOutput[g]
      BY <1>3, <2>2, <3>1 DEF OutputPart
    <3> QED  BY <1>2, <2>2, <3>2
  <2>3. CASE ~Covers(frames[n], g)
    <3>1. \A i \in DOMAIN frames : ~Covers(frames[i], g)
      BY <2>1, <2>3
    <3>2. output[g] = InitialOutput[g]
      BY <3>1 DEF OutputPart
    <3> QED  BY <1>2, <2>3, <3>2
  <2> QED  BY <2>2, <2>3
<1>5. ASSUME NEW g \in Group, NEW i \in DOMAIN frames', Covers(frames'[i], g),
             \A j \in DOMAIN frames' : j < i => ~Covers(frames'[j], g)
      PROVE  frames'[i].saved[g] = InitialOutput[g]
  <2>1. i \in DOMAIN frames /\ frames'[i] = frames[i] /\ Covers(frames[i], g)
    BY <1>3, <1>5
  <2>2. \A j \in DOMAIN frames : j < i => ~Covers(frames[j], g)
    BY <1>3, <1>5
  <2> QED  BY <2>1, <2>2 DEF OutputPart
<1>6. \A i \in DOMAIN entering' :
        entering'[i].manager.fn = "output" => Single(entering'[i].manager.groups)
  BY DEF OutputPart
<1> QED  BY <1>4, <1>5, <1>6 DEF OutputPart

LEMMA OutputSame ==
  ASSUME OutputPart, UNCHANGED <<entering, frames, output>> PROVE OutputPart'
BY DEF OutputPart

LEMMA OutputInit == IInv /\ Init => OutputPart
<1> SUFFICES ASSUME IInv, Init PROVE OutputPart
  OBVIOUS
<1>1. entering = <<>> /\ frames = <<>> /\ output = InitialOutput
  BY DEF Init
<1>2. IsList(frames) /\ IsList(entering)
  BY DEF IInv, EntriesPart
<1>3. /\ DOMAIN frames = 1..Len(frames) /\ Len(frames) \in Nat /\ ~(Len(frames) >= 1)
      /\ DOMAIN entering = 1..Len(entering) /\ Len(entering) \in Nat /\ ~(Len(entering) >= 1)
  BY <1>1, <1>2, ListLength
<1>4. DOMAIN frames = {} /\ DOMAIN entering = {}
  BY <1>3
<1> QED  BY <1>1, <1>4 DEF OutputPart

LEMMA OutputEnter ==
  ASSUME IInv, OutputPart, EnterOutput PROVE OutputPart'
<1> DEFINE groups == ExpandAliases(Manager.groups)
           f == [made |-> Head(entering), saved |-> Saved(groups, Manager.which)]
<1>1. /\ entering # <<>> /\ Manager.fn = "output" /\ entering' = Tail(entering)
      /\ frames' = Append(frames, f)
      /\ output' = Updated(output, [g \in ToSet(groups) |-> Manager.which])
  BY DEF EnterOutput
<1>2. f.made = Head(entering) /\ f.saved = Saved(groups, Manager.which)
  OBVIOUS
<1>3. Single(Manager.groups)
  <2>1. IsList(entering)
    BY DEF IInv, EntriesPart
  <2>2. 1 \in DOMAIN entering /\ Head(entering) = entering[1]
    BY <1>1, <2>1, ListLength, ListShrinks
  <2> QED  BY <1>1, <2>2 DEF OutputPart, Manager
<1>4. /\ DOMAIN f.saved = ToSet(groups)
      /\ \A g \in ToSet(groups) : f.saved[g] = output[g]
  <2>1. \A g : ~ \E i, k \in DOMAIN groups : i # k /\ groups[i] = g /\ groups[k] = g
    <3>1. \A i, k \in DOMAIN groups : groups[i] = groups[k] => i = k
      BY <1>3 DEF Single
    <3> QED  BY <3>1
  <2> QED  BY <1>2, <2>1 DEF Saved
<1>5. ASSUME NEW g \in Group
      PROVE  IF Covers(f, g) THEN f.saved[g] = output[g] ELSE output'[g] = output[g]
  <2>1. Covers(f, g) <=> g \in ToSet(groups)
    BY <1>1, <1>2, <1>4 DEF Covers, Manager
  <2>2. DOMAIN output = Group
    BY DEF IInv, DictPart
  <2>3. output'[g] = IF g \in ToSet(groups) THEN Manager.which ELSE output[g]
    BY <1>1, <2>2 DEF Updated
  <2> QED  BY <1>4, <2>1, <2>3
<1> HIDE DEF f
<1> QED  BY <1>1, <1>5, OutputEntered

LEMMA OutputNext ==
  ASSUME NoGroupTwice
  PROVE  IInv /\ OutputPart /\ [Next]_vars => OutputPart'
<1> SUFFICES ASSUME IInv, OutputPart, [Next]_vars PROVE OutputPart'
  OBVIOUS
<1>1. ASSUME NEW calls \in Blocks, With(calls) PROVE OutputPart'
  <2>1. ASSUME NEW i \in DOMAIN calls, entering'[i].manager.fn = "output"
        PROVE  Single(entering'[i].manager.groups)
    <3>1. entering'[i].manager = Made(calls[i], env)
      BY <1>1, WithEntries
    <3>2. calls[i].fn # "cd" /\ Made(calls[i], env) = calls[i]
      BY <2>1, <3>1 DEF Made, Setting
    <3> QED  BY <2>1, <3>1, <3>2 DEF NoGroupTwice
  <2>2. DOMAIN entering' = DOMAIN calls
    BY <1>1, WithEntries
  <2>3. UNCHANGED <<frames, output>>
    BY <1>1 DEF With
  <2> QED  BY <2>1, <2>2, <2>3 DEF OutputPart
<1>2. CASE EnterSetenv
  <2> DEFINE f == [made |-> Head(entering), set |-> Variables(Manager),
                   previous |-> Previous(Variables(Manager))]
  <2>1. /\ entering # <<>> /\ entering' = Tail(entering) /\ frames' = Append(frames, f)
        /\ output' = output /\ Manager.fn # "output"
    BY <1>2 DEF EnterSetenv
  <2>2. f.made.manager.fn # "output"
    BY <2>1 DEF Manager
  <2>3. \A g : ~Covers(f, g)
    BY <2>2 DEF Covers
  <2> HIDE DEF f
  <2> QED  BY <2>1, <2>3, OutputEntered
<1>3. CASE EnterOutput
  BY <1>3, OutputEnter
<1>4. CASE LeaveClean \/ LeaveSetenv
  <2>1. PICK error \in BOOLEAN : Leave(error)
    BY <1>4 DEF LeaveClean, LeaveSetenv
  <2>2. leaving /\ Top.made.manager.fn # "output" /\ UNCHANGED <<output, entering>>
    BY <1>4 DEF LeaveClean, LeaveSetenv, Clean
  <2>3. frames # <<>> /\ frames' = Front(frames)
    BY <2>1, <2>2 DEF IInv, NestingPart, Leave, Remaining
  <2>4. \A g : ~Covers(Top, g)
    BY <2>2 DEF Covers
  <2> QED  BY <2>2, <2>3, <2>4, OutputLeft
<1>5. CASE LeaveOutput
  <2>1. /\ leaving /\ Leave(FALSE) /\ Top.made.manager.fn = "output"
        /\ output' = Updated(output, Top.saved) /\ entering' = entering
    BY <1>5 DEF LeaveOutput
  <2>2. frames # <<>> /\ frames' = Front(frames)
    BY <2>1 DEF IInv, NestingPart, Leave, Remaining
  <2>3. \A g \in Group : output'[g] = IF Covers(Top, g) THEN Top.saved[g] ELSE output[g]
    BY <2>1 DEF Covers, Updated, IInv, DictPart
  <2> QED  BY <2>1, <2>2, <2>3, OutputLeft
<1>6. CASE UNCHANGED <<entering, frames, output>>
  BY <1>6, OutputSame
<1>7. ASSUME EndBody \/ (\E k \in Key : Delete(k) \/ \E v \in Value : Assign(k, v)) \/ UNCHANGED vars
      PROVE  UNCHANGED <<entering, frames, output>>
  BY <1>7 DEF EndBody, Delete, Assign, vars
<1> QED  BY <1>1, <1>2, <1>3, <1>4, <1>5, <1>6, <1>7 DEF Next

-----------------------------------------------------------------------------
(* The function that Nested defines: that there is one is shown step by    *)
(* step, as the set of the lengths up to which there is one contains every *)
(* natural number.                                                         *)

LEMMA LeastNatural ==
  ASSUME NEW T \in SUBSET Nat, T # {}
  PROVE  \E m \in T : \A k \in T : ~(k < m)
<1>1. PICK m \in T : \A k \in T : <<k, m>> \notin OpToRel(<, Nat)
  BY WFMin, NatLessThanWellFounded, Zenon
<1> QED  BY <1>1, Zenon DEF OpToRel

LEMMA SetInduction ==
  ASSUME NEW T, 0 \in T, \A n \in Nat : n \in T => n + 1 \in T
  PROVE  Nat \subseteq T
<1> SUFFICES ASSUME NEW x \in Nat, x \notin T PROVE FALSE
  OBVIOUS
<1>1. PICK m \in {n \in Nat : n \notin T} : \A k \in {n \in Nat : n \notin T} : ~(k < m)
  BY LeastNatural
<1>2. m # 0 /\ m - 1 \in Nat /\ m - 1 < m
  BY <1>1
<1>3. m - 1 \in T
  BY <1>1, <1>2
<1> QED  BY <1>1, <1>2, <1>3

LEMMA OverIsList ==
  ASSUME NEW k, NEW v \in Seq(STRING), NEW call \in ManagerCall
  PROVE  Over(k, v, call) \in Seq(STRING)
<1>1. CASE call.fn = "cd"
  <2>1. call.path.dirs \in Seq(STRING)
    BY <1>1 DEF ManagerCall
  <2>2. ChangeCwd(v, call.path) \in Seq(STRING)
    BY <2>1, ConcatProperties DEF ChangeCwd
  <2> QED  BY <1>1, <2>2 DEF Over
<1>2. CASE call.fn = "prefix"
  <2>1. call.command \in STRING
    BY <1>2 DEF ManagerCall
  <2>2. Append(v, call.command) \in Seq(STRING)
    BY <2>1, AppendProperties
  <2> QED  BY <1>2, <2>2 DEF Over
<1>3. CASE call.fn \notin {"cd", "prefix"}
  BY <1>3 DEF Over
<1> QED  BY <1>1, <1>2, <1>3

LEMMA NestedValues ==
  ASSUME NEW blocks, IsList(blocks), NEW k \in Nesting,
         \A i \in DOMAIN blocks : blocks[i].made.call \in ManagerCall
  PROVE  /\ Nested(k, blocks)[0] = InitialEnv[k]
         /\ \A n \in 0..Len(blocks) : Nested(k, blocks)[n] \in Seq(STRING)
         /\ \A n \in 1..Len(blocks) :
              Nested(k, blocks)[n] = Over(k, Nested(k, blocks)[n - 1], blocks[n].made.call)
<1> DEFINE L == Len(blocks)
           Upto(m, f) ==
             /\ f[0] = InitialEnv[k]
             /\ \A n \in 1..m : f[n] = Over(k, f[n - 1], blocks[n].made.call)
           There(m) == \E f \in [0..m -> Seq(STRING)] : Upto(m, f)
           T == {m \in Nat : m <= L => There(m)}
<1>1. L \in Nat /\ DOMAIN blocks = 1..L /\ InitialEnv[k] \in Seq(STRING)
  BY ListLength, InitialAssumption DEF Nesting
<1>2. There(0)
  <2>1. [n \in 0..0 |-> InitialEnv[k]] \in [0..0 -> Seq(STRING)]
    BY <1>1
  <2>2. Upto(0, [n \in 0..0 |-> InitialEnv[k]])
    OBVIOUS
  <2> HIDE DEF Upto
  <2> QED  BY <2>1, <2>2
<1>3. ASSUME NEW m \in Nat, There(m), m + 1 <= L PROVE There(m + 1)
  <2>1. PICK f \in [0..m -> Seq(STRING)] : Upto(m, f)
    BY <1>3
  <2> DEFINE g == [n \in 0..(m + 1) |->
                     IF n = m + 1 THEN Over(k, f[m], blocks[m + 1].made.call) ELSE f[n]]
  <2>2. Over(k, f[m], blocks[m + 1].made.call) \in Seq(STRING)
    <3>1. m + 1 \in DOMAIN blocks /\ f[m] \in Seq(STRING)
      BY <1>1, <1>3, <2>1
    <3> QED  BY <3>1, OverIsList
  <2>3. g \in [0..(m + 1) -> Seq(STRING)]
    BY <2>2
  <2>4. g[m + 1] = Over(k, f[m], blocks[m + 1].made.call) /\ \A n \in 0..m : g[n] = f[n]
    OBVIOUS
  <2> HIDE DEF g
  <2>5. ASSUME NEW n \in 1..(m + 1) PROVE g[n] = Over(k, g[n - 1], blocks[n].made.call)
    <3>1. n - 1 \in 0..m /\ (n \in 1..m \/ n = m + 1) /\ (m + 1) - 1 = m
      OBVIOUS
    <3> QED  BY <2>1, <2>4, <3>1
  <2>6. Upto(m + 1, g)
    BY <2>1, <2>4, <2>5
  <2> QED  BY <2>3, <2>6
<1>4. There(L)
  <2> HIDE DEF There
  <2>1. 0 \in T
    BY <1>2
  <2>2. ASSUME NEW m \in Nat, m \in T PROVE m + 1 \in T
    BY <1>1, <1>3, <2>2
  <2>3. Nat \subseteq T
    <3> HIDE DEF T
    <3> QED  BY <2>1, <2>2, SetInduction
  <2> QED  BY <1>1, <2>3
<1>5. PICK f \in [0..L -> Seq(STRING)] : Upto(L, f)
  BY <1>4
<1>6. f = [n \in 0..L |-> IF n = 0 THEN InitialEnv[k] ELSE Over(k, f[n - 1], blocks[n].made.call)]
  <2>1. \A n \in 0..L : f[n] = IF n = 0 THEN InitialEnv[k] ELSE Over(k, f[n - 1], blocks[n].made.call)
    BY <1>1, <1>5
  <2> QED  BY <1>5, <2>1
<1>7. Nested(k, blocks) =
        [n \in 0..L |-> IF n = 0 THEN InitialEnv[k]
                        ELSE Over(k, Nested(k, blocks)[n - 1], blocks[n].made.call)]
  BY <1>6, Zenon DEF Nested
<1> HIDE DEF Upto
<1> DEFINE N == Nested(k, blocks)
<1>8. N[0] = InitialEnv[k] /\ \A n \in 1..L : N[n] = Over(k, N[n - 1], blocks[n].made.call)
  <2> HIDE DEF N
  <2>1. N = [n \in 0..L |-> IF n = 0 THEN InitialEnv[k] ELSE Over(k, N[n - 1], blocks[n].made.call)]
    BY <1>7 DEF N
  <2> QED  BY <1>1, <2>1
<1> HIDE DEF N
<1>9. \A n \in 0..L : N[n] \in Seq(STRING)
  <2> DEFINE R == {n \in Nat : n <= L => N[n] \in Seq(STRING)}
  <2>1. 0 \in R
    BY <1>1, <1>8
  <2>2. ASSUME NEW n \in Nat, n \in R PROVE n + 1 \in R
    <3> SUFFICES ASSUME n + 1 <= L PROVE N[n + 1] \in Seq(STRING)
      OBVIOUS
    <3>1. n + 1 \in 1..L /\ (n + 1) - 1 = n /\ N[n] \in Seq(STRING)
      BY <1>1, <2>2
    <3>2. N[n + 1] = Over(k, N[n], blocks[n + 1].made.call)
      BY <1>8, <3>1
    <3> QED  BY <1>1, <3>1, <3>2, OverIsList
  <2>3. Nat \subseteq R
    <3> HIDE DEF R
    <3> QED  BY <2>1, <2>2, SetInduction
  <2> QED  BY <1>1, <2>3
<1> QED  BY <1>8, <1>9 DEF N

\* What is below a block does not depend on the blocks above it.
LEMMA NestedSame ==
  ASSUME NEW s, IsList(s), NEW t, IsList(t), NEW k \in Nesting, Len(s) <= Len(t),
         \A i \in DOMAIN s : t[i] = s[i],
         \A i \in DOMAIN t : t[i].made.call \in ManagerCall
  PROVE  \A n \in 0..Len(s) : Nested(k, t)[n] = Nested(k, s)[n]
<1> DEFINE S == Nested(k, s)
           U == Nested(k, t)
           R == {n \in Nat : n <= Len(s) => U[n] = S[n]}
<1>1. /\ Len(s) \in Nat /\ DOMAIN s = 1..Len(s) /\ Len(t) \in Nat /\ DOMAIN t = 1..Len(t)
      /\ \A i \in DOMAIN s : s[i].made.call \in ManagerCall
  <2>1. Len(s) \in Nat /\ DOMAIN s = 1..Len(s) /\ Len(t) \in Nat /\ DOMAIN t = 1..Len(t)
    BY ListLength
  <2>2. \A i \in DOMAIN s : i \in DOMAIN t
    BY <2>1
  <2> QED  BY <2>1, <2>2
<1>2. S[0] = InitialEnv[k] /\ \A n \in 1..Len(s) : S[n] = Over(k, S[n - 1], s[n].made.call)
  BY <1>1, NestedValues
<1>3. U[0] = InitialEnv[k] /\ \A n \in 1..Len(t) : U[n] = Over(k, U[n - 1], t[n].made.call)
  BY <1>1, NestedValues
<1> HIDE DEF S, U
<1>4. 0 \in R
  BY <1>2, <1>3
<1>5. ASSUME NEW n \in Nat, n \in R PROVE n + 1 \in R
  <2> SUFFICES ASSUME n + 1 <= Len(s) PROVE U[n + 1] = S[n + 1]
    OBVIOUS
  <2>1. /\ n + 1 \in 1..Len(s) /\ n + 1 \in 1..Len(t) /\ (n + 1) - 1 = n
        /\ U[n] = S[n] /\ t[n + 1] = s[n + 1]
    BY <1>1, <1>5
  <2> QED  BY <1>2, <1>3, <2>1
<1>6. Nat \subseteq R
  <2> HIDE DEF R
  <2> QED  BY <1>4, <1>5, SetInduction
<1> QED  BY <1>1, <1>6 DEF S, U

-----------------------------------------------------------------------------
(* Blocks that build on each other, if no with statement has two cd().     *)

LEMMA NestingKeys == Nesting \subseteq EnvKey /\ Nesting \cap Key = {}
BY KeyAssumption DEF Nesting, EnvKey

\* A call that builds on no key of the two leaves what is below it.
LEMMA OverOther ==
  ASSUME NEW k \in Nesting, NEW v, NEW call, ~Builds(k, call)
  PROVE  Over(k, v, call) = v
BY DEF Over, Builds, Nesting

\* A block is entered that builds on the value of the key or leaves it.
LEMMA NestedEntered ==
  ASSUME IInv, NestedPart, NEW f, f.made.call \in ManagerCall, frames' = Append(frames, f),
         \A k \in Nesting :
           /\ env'[k] = Over(k, env[k], f.made.call)
           /\ ~Builds(k, f.made.call) /\ f.made.manager.fn # "output" => k \notin DOMAIN f.set
           /\ Builds(k, f.made.call) =>
                /\ f.made.manager.fn # "output" /\ ~Clean(f.made.manager)
                /\ DOMAIN f.set = {k} /\ DOMAIN f.previous = {k} /\ f.previous[k] = env[k]
  PROVE  NestedPart'
<1> DEFINE n == Len(frames)
<1>1. IsList(frames)
  BY DEF IInv, EntriesPart
<1>2. /\ n \in Nat /\ DOMAIN frames = 1..n
      /\ IsList(frames') /\ Len(frames') = n + 1 /\ DOMAIN frames' = 1..(n + 1)
      /\ \A i \in DOMAIN frames : frames'[i] = frames[i]
      /\ frames'[n + 1] = f
  BY <1>1, ListLength, ListGrows
<1> HIDE DEF n
<1>3. \A i \in DOMAIN frames' : frames'[i].made.call \in ManagerCall
  <2>1. \A i \in DOMAIN frames' : i \in DOMAIN frames \/ i = n + 1
    BY <1>2
  <2> QED  BY <1>2, <2>1 DEF NestedPart
<1>4. ASSUME NEW k \in Nesting
      PROVE  /\ \A m \in 0..n : Nested(k, frames')[m] = Nested(k, frames)[m]
             /\ Nested(k, frames')[n] = env[k]
             /\ Nested(k, frames')[n + 1] = env'[k]
  <2>1. ASSUME NEW m \in 0..n
        PROVE  Nested(k, frames')[m] = Nested(k, frames)[m]
    <3>1. Len(frames) <= Len(frames') /\ m \in 0..Len(frames)
      BY <1>2 DEF n
    <3>2. IsList(frames') /\ \A i \in DOMAIN frames : frames'[i] = frames[i]
      BY <1>2
    <3> QED  BY <1>1, <1>3, <3>1, <3>2, NestedSame
  <2>2. Nested(k, frames)[n] = env[k]
    BY DEF n, NestedPart, BlocksNest, Nesting
  <2>3. Nested(k, frames')[n] = env[k]
    BY <1>2, <2>1, <2>2
  <2>4. Nested(k, frames')[n + 1] = Over(k, Nested(k, frames')[(n + 1) - 1], frames'[n + 1].made.call)
    <3>1. n + 1 \in 1..Len(frames')
      BY <1>2
    <3> QED  BY <1>2, <1>3, <3>1, NestedValues
  <2>5. (n + 1) - 1 = n
    BY <1>2
  <2> QED  BY <1>2, <2>1, <2>3, <2>4, <2>5
<1>5. BlocksNest'
  BY <1>2, <1>4 DEF BlocksNest, Nesting
<1>6. ASSUME NEW k \in Nesting, NEW i \in DOMAIN frames'
      PROVE  /\ ~Builds(k, frames'[i].made.call) /\ frames'[i].made.manager.fn # "output" =>
                  k \notin DOMAIN frames'[i].set
             /\ Builds(k, frames'[i].made.call) =>
                  /\ frames'[i].made.manager.fn # "output" /\ ~Clean(frames'[i].made.manager)
                  /\ DOMAIN frames'[i].set = {k} /\ DOMAIN frames'[i].previous = {k}
                  /\ frames'[i].previous[k] = Nested(k, frames')[i - 1]
  <2>1. CASE i \in DOMAIN frames
    <3>1. frames'[i] = frames[i] /\ i - 1 \in 0..n
      BY <1>2, <2>1
    <3>2. Nested(k, frames')[i - 1] = Nested(k, frames)[i - 1]
      BY <1>4, <3>1
    <3> QED  BY <2>1, <3>1, <3>2 DEF NestedPart
  <2>2. CASE i = n + 1
    <3>1. frames'[i] = f /\ i - 1 = n
      BY <1>2, <2>2
    <3> QED  BY <1>4, <3>1
  <2> QED  BY <1>2, <2>1, <2>2
<1> QED  BY <1>3, <1>5, <1>6 DEF NestedPart

\* A block is left that gives back what was below it.
LEMMA NestedLeft ==
  ASSUME IInv, NestedPart, frames # <<>>, frames' = Front(frames),
         \A k \in Nesting :
           /\ Builds(k, Top.made.call) => env'[k] = Top.previous[k]
           /\ ~Builds(k, Top.made.call) => env'[k] = env[k]
  PROVE  NestedPart'
<1> DEFINE n == Len(frames)
<1>1. IsList(frames)
  BY DEF IInv, EntriesPart
<1>2. /\ n \in Nat /\ DOMAIN frames = 1..n /\ n >= 1
      /\ IsList(frames') /\ Len(frames') = n - 1 /\ DOMAIN frames' = 1..(n - 1)
      /\ \A i \in 1..(n - 1) : frames'[i] = frames[i]
      /\ Top = frames[n]
  BY <1>1, ListLength, ListShrinks DEF Top
<1> HIDE DEF n
<1>3. /\ \A i \in DOMAIN frames' : i \in DOMAIN frames /\ frames[i] = frames'[i] /\ i - 1 \in 0..(n - 1)
      /\ n \in DOMAIN frames /\ n - 1 \in 0..(n - 1)
  BY <1>2
<1>4. \A i \in DOMAIN frames : frames[i].made.call \in ManagerCall
  BY DEF NestedPart
<1>5. ASSUME NEW k \in Nesting, NEW m \in 0..(n - 1)
      PROVE  Nested(k, frames)[m] = Nested(k, frames')[m]
  <2>1. Len(frames') <= Len(frames) /\ Len(frames') = n - 1
    BY <1>2 DEF n
  <2> QED  BY <1>1, <1>2, <1>3, <1>4, <2>1, NestedSame
<1>6. ASSUME NEW k \in Nesting PROVE env'[k] = Nested(k, frames')[n - 1]
  <2>1. env[k] = Nested(k, frames)[n]
    BY DEF n, NestedPart, BlocksNest, Nesting
  <2>2. Nested(k, frames)[n] = Over(k, Nested(k, frames)[n - 1], frames[n].made.call)
    <3>1. n \in 1..Len(frames)
      BY <1>2 DEF n
    <3> QED  BY <1>1, <1>4, <3>1, NestedValues
  <2>3. env'[k] = Nested(k, frames)[n - 1]
    <3>1. CASE Builds(k, Top.made.call)
      BY <1>2, <1>3, <3>1 DEF NestedPart
    <3>2. CASE ~Builds(k, Top.made.call)
      BY <1>2, <2>1, <2>2, <3>2, OverOther
    <3> QED  BY <3>1, <3>2
  <2> QED  BY <1>3, <1>5, <2>3
<1>7. BlocksNest'
  BY <1>2, <1>6 DEF BlocksNest, Nesting
<1>8. ASSUME NEW k \in Nesting, NEW i \in DOMAIN frames'
      PROVE  /\ ~Builds(k, frames'[i].made.call) /\ frames'[i].made.manager.fn # "output" =>
                  k \notin DOMAIN frames'[i].set
             /\ Builds(k, frames'[i].made.call) =>
                  /\ frames'[i].made.manager.fn # "output" /\ ~Clean(frames'[i].made.manager)
                  /\ DOMAIN frames'[i].set = {k} /\ DOMAIN frames'[i].previous = {k}
                  /\ frames'[i].previous[k] = Nested(k, frames')[i - 1]
  <2>1. Nested(k, frames)[i - 1] = Nested(k, frames')[i - 1]
    BY <1>3, <1>5
  <2> QED  BY <1>3, <2>1 DEF NestedPart
<1>9. \A i \in DOMAIN frames' : frames'[i].made.call \in ManagerCall
  BY <1>3, <1>4
<1> QED  BY <1>7, <1>8, <1>9 DEF NestedPart

LEMMA NestedInit == IInv /\ Init => CallPart /\ NestedPart
<1> SUFFICES ASSUME IInv, Init PROVE CallPart /\ NestedPart
  OBVIOUS
<1>1. entering = <<>> /\ frames = <<>> /\ env = InitialEnv
  BY DEF Init
<1>2. IsList(frames) /\ IsList(entering)
  BY DEF IInv, EntriesPart
<1>3. /\ DOMAIN frames = 1..Len(frames) /\ Len(frames) \in Nat /\ ~(Len(frames) >= 1)
      /\ DOMAIN entering = 1..Len(entering) /\ Len(entering) \in Nat /\ ~(Len(entering) >= 1)
  BY <1>1, <1>2, ListLength
<1>4. DOMAIN frames = {} /\ DOMAIN entering = {} /\ Len(frames) = 0
  BY <1>3
<1>5. \A k \in Nesting : Nested(k, frames)[0] = InitialEnv[k]
  BY <1>2, <1>4, NestedValues
<1> QED  BY <1>1, <1>4, <1>5 DEF CallPart, NestedPart, BlocksNest, Nesting

\* What env has under these keys is a list, and there.
LEMMA NestingThere ==
  ASSUME IInv, NestedPart, NEW k \in Nesting
  PROVE  env[k] \in Seq(STRING) /\ env[k] # Absent
<1>1. IsList(frames) /\ \A i \in DOMAIN frames : frames[i].made.call \in ManagerCall
  BY DEF IInv, EntriesPart, NestedPart
<1>2. Len(frames) \in 0..Len(frames)
  BY <1>1, ListLength
<1>3. Nested(k, frames)[Len(frames)] \in Seq(STRING)
  BY <1>1, <1>2, NestedValues
<1>4. env[k] = Nested(k, frames)[Len(frames)]
  BY DEF NestedPart, BlocksNest, Nesting
<1> QED  BY <1>3, <1>4, AbsentAssumption

LEMMA NestedWith ==
  ASSUME OneCd, IInv, NestedPart, NEW calls \in Blocks, With(calls)
  PROVE  CallPart' /\ NestedPart'
<1>1. UNCHANGED <<env, frames>>
  BY DEF With
<1>2. NestedPart'
  BY <1>1 DEF NestedPart, BlocksNest
<1>3. DOMAIN entering' = DOMAIN calls
  BY WithEntries
<1>4. ASSUME NEW i \in DOMAIN calls
      PROVE  /\ entering'[i].call = calls[i] /\ calls[i] \in ManagerCall
             /\ entering'[i].manager = Made(calls[i], env)
  <2>1. calls \in Seq(ManagerCall)
    BY BlockAssumption
  <2>2. calls[i] \in ManagerCall
    BY <2>1, LenProperties, ElementOfSeq
  <2> QED  BY <2>2, WithEntries
<1>5. \A i, j \in DOMAIN entering' :
        entering'[i].call.fn = "cd" /\ entering'[j].call.fn = "cd" => i = j
  BY <1>3, <1>4 DEF OneCd
<1>6. ASSUME NEW i \in DOMAIN entering'
      PROVE  /\ entering'[i].call \in ManagerCall
             /\ entering'[i].call.fn # "cd" => entering'[i].manager = entering'[i].call
             /\ entering'[i].call.fn = "cd" =>
                  entering'[i].manager = Setting("cwd", ChangeCwd(env'["cwd"], entering'[i].call.path))
  BY <1>1, <1>3, <1>4 DEF Made
<1> QED  BY <1>2, <1>5, <1>6 DEF CallPart

\* The next of the managers is entered; the others are as they were made as long as
\* env.cwd is, or none of them is a cd().
LEMMA CallsEntered ==
  ASSUME IInv, CallPart, entering # <<>>, entering' = Tail(entering),
         env'["cwd"] = env["cwd"] \/ Head(entering).call.fn = "cd"
  PROVE  CallPart'
<1>1. IsList(entering)
  BY DEF IInv, EntriesPart
<1>2. /\ DOMAIN entering' = 1..(Len(entering) - 1) /\ Head(entering) = entering[1]
      /\ \A i \in 1..(Len(entering) - 1) : entering'[i] = entering[i + 1]
      /\ Len(entering) \in Nat /\ DOMAIN entering = 1..Len(entering) /\ Len(entering) >= 1
  BY <1>1, ListShrinks, ListLength
<1>3. \A i \in DOMAIN entering' :
        i + 1 \in DOMAIN entering /\ entering'[i] = entering[i + 1] /\ i + 1 # 1 /\ 1 \in DOMAIN entering
  BY <1>2
<1>4. ASSUME NEW i \in DOMAIN entering', NEW j \in DOMAIN entering',
             entering'[i].call.fn = "cd", entering'[j].call.fn = "cd"
      PROVE  i = j
  <2>1. i + 1 = j + 1
    BY <1>3, <1>4 DEF CallPart
  <2> QED  BY <1>2, <2>1
<1>5. ASSUME NEW i \in DOMAIN entering', entering'[i].call.fn = "cd" PROVE env'["cwd"] = env["cwd"]
  <2>1. Head(entering).call.fn # "cd"
    BY <1>2, <1>3, <1>5 DEF CallPart
  <2> QED  BY <2>1
<1> QED  BY <1>3, <1>4, <1>5 DEF CallPart

LEMMA NestedSetenv ==
  ASSUME IInv, CallPart, NestedPart, EnterSetenv
  PROVE  CallPart' /\ NestedPart'
<1> DEFINE set == Variables(Manager)
           f == [made |-> Head(entering), set |-> set, previous |-> Previous(set)]
<1>1. /\ entering # <<>> /\ Manager.fn # "output" /\ entering' = Tail(entering)
      /\ frames' = Append(frames, f) /\ env' = Updated(env, set)
  BY DEF EnterSetenv
<1>2. /\ f.made = Head(entering) /\ f.set = set /\ f.previous = Previous(set)
      /\ f.made.manager = Manager
  BY DEF Manager
<1>3. /\ DOMAIN Previous(set) = {k \in DOMAIN set : env[k] # Absent}
      /\ \A k \in DOMAIN Previous(set) : Previous(set)[k] = env[k]
  BY DEF Previous
<1>4. \A k \in EnvKey : env'[k] = IF k \in DOMAIN set THEN set[k] ELSE env[k]
  BY <1>1, UpdatedValues DEF IInv, DictPart
<1> DEFINE call == f.made.call
<1>5. /\ call \in ManagerCall /\ (call.fn # "cd" => Manager = call)
      /\ (call.fn = "cd" => Manager = Setting("cwd", ChangeCwd(env["cwd"], call.path)))
  <2>1. IsList(entering)
    BY DEF IInv, EntriesPart
  <2>2. 1 \in DOMAIN entering /\ Head(entering) = entering[1]
    BY <1>1, <2>1, ListLength, ListShrinks
  <2> QED  BY <2>2 DEF CallPart, Manager
<1> HIDE DEF set, f
<1>6. CASE call.fn = "cd"
  <2>1. Manager.fn = "setenv" /\ ~Manager.clean /\ set = [j \in {"cwd"} |-> ChangeCwd(env["cwd"], call.path)]
    BY <1>5, <1>6 DEF Setting, Variables, set
  <2>2. DOMAIN set = {"cwd"} /\ set["cwd"] = ChangeCwd(env["cwd"], call.path)
    BY <2>1
  <2>3. ASSUME NEW k \in Nesting
        PROVE  /\ env'[k] = Over(k, env[k], call)
               /\ ~Builds(k, call) => k \notin DOMAIN set
               /\ Builds(k, call) =>
                    DOMAIN set = {k} /\ DOMAIN Previous(set) = {k} /\ Previous(set)[k] = env[k]
    <3>1. k \in EnvKey /\ env[k] # Absent
      BY NestingKeys, NestingThere
    <3>2. CASE k = "cwd"
      BY <1>3, <1>4, <1>6, <2>2, <3>1, <3>2 DEF Over, Builds
    <3>3. CASE k = "command_prefixes"
      BY <1>3, <1>4, <1>6, <2>2, <3>1, <3>3 DEF Over, Builds
    <3> QED  BY <3>2, <3>3 DEF Nesting
  <2>4. ~Clean(Manager)
    BY <2>1 DEF Clean
  <2>5. NestedPart'
    BY <1>1, <1>2, <1>5, <2>1, <2>3, <2>4, NestedEntered
  <2>6. CallPart'
    BY <1>1, <1>2, <1>6, CallsEntered
  <2> QED  BY <2>5, <2>6
<1>7. CASE call.fn = "prefix"
  <2>1. Manager.fn = "prefix" /\ set = [j \in {"command_prefixes"} |-> Append(env["command_prefixes"], call.command)]
    BY <1>5, <1>7 DEF Variables, set
  <2>2. DOMAIN set = {"command_prefixes"} /\ set["command_prefixes"] = Append(env["command_prefixes"], call.command)
    BY <2>1
  <2>3. ASSUME NEW k \in Nesting
        PROVE  /\ env'[k] = Over(k, env[k], call)
               /\ ~Builds(k, call) => k \notin DOMAIN set
               /\ Builds(k, call) =>
                    DOMAIN set = {k} /\ DOMAIN Previous(set) = {k} /\ Previous(set)[k] = env[k]
    <3>1. k \in EnvKey /\ env[k] # Absent
      BY NestingKeys, NestingThere
    <3>2. CASE k = "cwd"
      BY <1>3, <1>4, <1>7, <2>2, <3>1, <3>2 DEF Over, Builds
    <3>3. CASE k = "command_prefixes"
      BY <1>3, <1>4, <1>7, <2>2, <3>1, <3>3 DEF Over, Builds
    <3> QED  BY <3>2, <3>3 DEF Nesting
  <2>4. ~Clean(Manager)
    BY <2>1 DEF Clean
  <2>5. NestedPart'
    BY <1>1, <1>2, <1>5, <2>1, <2>3, <2>4, NestedEntered
  <2>6. env'["cwd"] = env["cwd"]
    BY <1>4, <2>2, NestingKeys DEF Nesting
  <2> QED  BY <1>1, <2>5, <2>6, CallsEntered
<1>8. CASE call.fn \notin {"cd", "prefix"}
  <2>1. Manager = call /\ call.fn = "setenv"
    BY <1>1, <1>5, <1>8 DEF ManagerCall
  <2>2. DOMAIN set \subseteq Key
    <3>1. call \in [fn : {"setenv"}, vars : UNION {[keys -> Value] : keys \in SUBSET Key}, clean : BOOLEAN]
      BY <1>5, <2>1 DEF ManagerCall
    <3>2. PICK keys \in SUBSET Key : call.vars \in [keys -> Value]
      BY <3>1
    <3>3. set = call.vars
      BY <2>1 DEF set, Variables
    <3> QED  BY <3>2, <3>3
  <2>3. ASSUME NEW k \in Nesting
        PROVE  env'[k] = Over(k, env[k], call) /\ ~Builds(k, call) /\ k \notin DOMAIN set /\ env'[k] = env[k]
    <3>1. k \in EnvKey /\ k \notin DOMAIN set /\ ~Builds(k, call)
      BY <1>8, <2>2, NestingKeys DEF Builds
    <3> QED  BY <1>4, <3>1, OverOther
  <2>4. NestedPart'
    BY <1>1, <1>2, <1>5, <2>3, NestedEntered
  <2>5. env'["cwd"] = env["cwd"]
    BY <2>3 DEF Nesting
  <2> QED  BY <1>1, <2>4, <2>5, CallsEntered
<1> QED  BY <1>6, <1>7, <1>8

LEMMA NestedOutput ==
  ASSUME IInv, CallPart, NestedPart, EnterOutput
  PROVE  CallPart' /\ NestedPart'
<1> DEFINE f == [made |-> Head(entering),
                 saved |-> Saved(ExpandAliases(Manager.groups), Manager.which)]
<1>1. /\ entering # <<>> /\ Manager.fn = "output" /\ entering' = Tail(entering)
      /\ frames' = Append(frames, f) /\ env' = env
  BY DEF EnterOutput
<1>2. f.made = Head(entering) /\ f.made.manager = Manager
  BY DEF Manager
<1>3. f.made.call \in ManagerCall /\ f.made.call.fn = "output"
  <2>1. IsList(entering)
    BY DEF IInv, EntriesPart
  <2>2. 1 \in DOMAIN entering /\ Head(entering) = entering[1]
    BY <1>1, <2>1, ListLength, ListShrinks
  <2>3. Head(entering).call.fn # "cd"
    BY <1>1, <2>2 DEF CallPart, Manager, Setting
  <2> QED  BY <1>1, <1>2, <2>2, <2>3 DEF CallPart, Manager
<1> HIDE DEF f
<1>4. \A k \in Nesting : ~Builds(k, f.made.call) /\ Over(k, env[k], f.made.call) = env[k]
  <2>1. \A k \in Nesting : ~Builds(k, f.made.call)
    BY <1>3 DEF Builds
  <2> QED  BY <2>1, OverOther
<1>5. NestedPart'
  BY <1>1, <1>2, <1>3, <1>4, NestedEntered
<1>6. CallPart'
  BY <1>1, CallsEntered
<1> QED  BY <1>5, <1>6

LEMMA NestedLeave ==
  ASSUME IInv, CallPart, NestedPart, LeaveClean \/ LeaveSetenv \/ LeaveOutput
  PROVE  CallPart' /\ NestedPart'
<1>1. PICK error \in BOOLEAN : leaving /\ Leave(error) /\ entering' = entering
  BY DEF LeaveClean, LeaveSetenv, LeaveOutput
<1>2. /\ frames # <<>> /\ frames' = Front(frames) /\ entering = <<>> /\ IsList(entering)
      /\ EnteredWell(Top)
  BY <1>1, LeftNesting DEF IInv, NestingPart, EntriesPart, Leave, Remaining
<1>3. CallPart'
  <2>1. DOMAIN entering = 1..Len(entering) /\ Len(entering) \in Nat /\ ~(Len(entering) >= 1)
    BY <1>2, ListLength
  <2>2. DOMAIN entering' = {}
    BY <1>1, <2>1
  <2> QED  BY <2>2 DEF CallPart
<1>4. /\ \A k \in Nesting :
           /\ ~Builds(k, Top.made.call) /\ Top.made.manager.fn # "output" => k \notin DOMAIN Top.set
           /\ Builds(k, Top.made.call) =>
                /\ Top.made.manager.fn # "output" /\ ~Clean(Top.made.manager)
                /\ DOMAIN Top.set = {k} /\ DOMAIN Top.previous = {k}
  <2>1. IsList(frames)
    BY DEF IInv, EntriesPart
  <2>2. Len(frames) \in DOMAIN frames /\ Top = frames[Len(frames)]
    BY <1>2, <2>1, ListLength, ListShrinks DEF Top
  <2> QED  BY <2>2 DEF NestedPart
<1>5. ASSUME NEW k \in Nesting
      PROVE  /\ Builds(k, Top.made.call) => env'[k] = Top.previous[k]
             /\ ~Builds(k, Top.made.call) => env'[k] = env[k]
  <2>1. k \in EnvKey
    BY NestingKeys
  <2>2. CASE LeaveClean
    <3>1. env' = Reverted(Top) /\ Clean(Top.made.manager)
      BY <2>2 DEF LeaveClean
    <3>2. ~Builds(k, Top.made.call) /\ k \notin DOMAIN Top.set
      BY <1>4, <3>1 DEF Clean
    <3> QED  BY <2>1, <3>1, <3>2 DEF Reverted
  <2>3. CASE LeaveSetenv
    <3>1. PICK removed \in SUBSET Fresh(Top) :
            env' = [j \in EnvKey |-> IF j \in removed THEN Absent ELSE Updated(env, Top.previous)[j]]
      BY <2>3 DEF LeaveSetenv
    <3>2. Top.made.manager.fn # "output" /\ DOMAIN Top.previous \subseteq DOMAIN Top.set
      BY <1>2, <2>3 DEF LeaveSetenv, EnteredWell
    <3>3. k \notin Fresh(Top)
      BY <1>4, <3>2 DEF Fresh
    <3>4. env'[k] = IF k \in DOMAIN Top.previous THEN Top.previous[k] ELSE env[k]
      BY <2>1, <3>1, <3>3, UpdatedValues DEF IInv, DictPart
    <3> QED  BY <1>4, <3>2, <3>4
  <2>4. CASE LeaveOutput
    BY <1>4, <2>4 DEF LeaveOutput
  <2> QED  BY <2>2, <2>3, <2>4
<1>6. NestedPart'
  BY <1>2, <1>5, NestedLeft
<1> QED  BY <1>3, <1>6

LEMMA NestedNext ==
  ASSUME OneCd
  PROVE  IInv /\ CallPart /\ NestedPart /\ [Next]_vars => CallPart' /\ NestedPart'
<1> SUFFICES ASSUME IInv, CallPart, NestedPart, [Next]_vars PROVE CallPart' /\ NestedPart'
  OBVIOUS
<1>1. CASE UNCHANGED <<env, frames, entering>>
  BY <1>1 DEF CallPart, NestedPart, BlocksNest
<1>2. ASSUME NEW k \in Key, NEW v, Quiet, env' = [env EXCEPT ![k] = v], UNCHANGED <<frames, entering>>
      PROVE  CallPart' /\ NestedPart'
  <2>1. \A j \in Nesting : env'[j] = env[j]
    BY <1>2, NestingKeys DEF IInv, DictPart
  <2>2. NestedPart'
    BY <1>2, <2>1 DEF NestedPart, BlocksNest, Nesting
  <2>3. env'["cwd"] = env["cwd"]
    BY <2>1 DEF Nesting
  <2> QED  BY <1>2, <2>2, <2>3 DEF CallPart
<1>3. ASSUME NEW k \in Key, Delete(k) \/ \E v \in Value : Assign(k, v)
      PROVE  CallPart' /\ NestedPart'
  BY <1>2, <1>3 DEF Delete, Assign
<1>4. ASSUME EndBody \/ UNCHANGED vars PROVE UNCHANGED <<env, frames, entering>>
  BY <1>4 DEF EndBody, vars
<1> QED
  BY <1>1, <1>3, <1>4, NestedWith, NestedSetenv, NestedOutput, NestedLeave DEF Next

-----------------------------------------------------------------------------
(* The theorems.                                                           *)

\* Whatever is nested in whatever order and left in whatever way, env keeps its
\* keys, no more is open than was made, and a block is left only when there is one:
\* the innermost one that is open.
THEOREM TypeCorrect == Spec => []TypeOK
<1>1. IInv => TypeOK
  <2> SUFFICES ASSUME IInv PROVE TypeOK
    OBVIOUS
  <2>1. \A i \in DOMAIN frames :
          frames[i].made.manager.fn # "output" => DOMAIN frames[i].previous \subseteq DOMAIN frames[i].set
    BY DEF IInv, EntriesPart, EnteredWell
  <2> QED  BY <2>1 DEF IInv, DictPart, NestingPart, TypeOK
<1> QED  BY <1>1, Inductive, PTL

\* The part of BlocksLeaveNoTrace about env, which also holds when groups are named
\* twice.
EnvIsRestored ==
  frames = <<>> /\ entering = <<>> => \A k \in EnvKey \ lost : env[k] = kept[k]

\* Nested blocks of settings(), cd() and prefix(), however they are left and whichever
\* exits raise KeyError, give every key of env the value it had at the start or that
\* a body last gave it outside of the blocks that override it; but for keys changed
\* inside of blocks that all have clean_revert, and new ones an exit did not reach.
THEOREM EnvironmentComesBack == Spec => []EnvIsRestored
<1>1. IInv => EnvIsRestored
  <2> SUFFICES ASSUME IInv, frames = <<>>, NEW k \in EnvKey \ lost
               PROVE  env[k] = kept[k]
    BY DEF EnvIsRestored
  <2>1. Linked(frames, env, k, kept[k])
    BY DEF IInv, EnvPart
  <2>2. DOMAIN frames = {}
    <3>1. IsList(frames)
      BY DEF IInv, EntriesPart
    <3>2. DOMAIN frames = 1..Len(frames) /\ Len(frames) \in Nat /\ ~(Len(frames) >= 1)
      BY <3>1, ListLength
    <3> QED  BY <3>2
  <2> QED  BY <2>1, <2>2 DEF Below, Exposed, Linked
<1> QED  BY <1>1, Inductive, PTL

\* When every block is left, env and the output groups are as they were, whatever
\* nesting there was and however the blocks were left, in the sense and with the
\* exceptions of EnvironmentComesBack, where no call of hide() or show() names a group
\* twice: _set_output() saves the new value of such a group.
THEOREM BlocksGiveBack ==
  ASSUME NoGroupTwice
  PROVE  Spec => []BlocksLeaveNoTrace
<1>1. IInv /\ OutputPart /\ EnvIsRestored => BlocksLeaveNoTrace
  <2> SUFFICES ASSUME IInv, OutputPart, EnvIsRestored, frames = <<>>, entering = <<>>
               PROVE  /\ output = InitialOutput
                      /\ \A k \in EnvKey \ lost : env[k] = kept[k]
    BY DEF BlocksLeaveNoTrace
  <2>1. DOMAIN frames = {}
    <3>1. IsList(frames)
      BY DEF IInv, EntriesPart
    <3>2. DOMAIN frames = 1..Len(frames) /\ Len(frames) \in Nat /\ ~(Len(frames) >= 1)
      BY <3>1, ListLength
    <3> QED  BY <3>2
  <2>2. \A g \in Group : output[g] = InitialOutput[g]
    BY <2>1 DEF OutputPart
  <2>3. output \in [Group -> BOOLEAN] /\ InitialOutput \in [Group -> BOOLEAN]
    BY InitialAssumption DEF IInv, DictPart
  <2>4. output = InitialOutput
    BY <2>2, <2>3
  <2> QED  BY <2>4 DEF EnvIsRestored
<1>2. IInv /\ Init => OutputPart
  BY OutputInit
<1>3. IInv /\ OutputPart /\ [Next]_vars => OutputPart'
  BY OutputNext
<1> QED  BY <1>1, <1>2, <1>3, Inductive, EnvironmentComesBack, PTL DEF Spec

\* However cd() and prefix() are nested, by with statements or by settings(), and
\* whatever else overrides env between them and however blocks are left: env.cwd and
\* env.command_prefixes are what the open blocks say one after the other, where no
\* settings() has two cd().
THEOREM OpenBlocksNest ==
  ASSUME OneCd
  PROVE  Spec => []BlocksNest
<1>1. IInv /\ Init => CallPart /\ NestedPart
  BY NestedInit
<1>2. IInv /\ CallPart /\ NestedPart /\ [Next]_vars => CallPart' /\ NestedPart'
  BY NestedNext
<1>3. NestedPart => BlocksNest
  BY DEF NestedPart
<1> QED  BY <1>1, <1>2, <1>3, Inductive, PTL DEF Spec

=============================================================================
