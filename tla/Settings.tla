------------------------------ MODULE Settings ------------------------------
(***************************************************************************)
(* fabric.context_managers as far as it overrides shared dictionaries for  *)
(* the length of a with block: settings(), cd(), prefix(), hide() and      *)
(* show() over state.env and state.output. settings() nests any number of  *)
(* managers in one block: all are made first, then entered in order, and   *)
(* left in reverse order. The body of a block may assign and delete keys,  *)
(* and blocks are left normally or by an exception, which leaves any       *)
(* number of enclosing blocks before it is caught.                         *)
(***************************************************************************)
EXTENDS Integers, Sequences, SequencesExt, TLC

CONSTANTS
  Key,        \* keys of env that tasks assign, but for those named below
  Value,      \* what they assign to them
  Group,      \* output groups
  Aliases,    \* alias names of output groups: [alias |-> sequence of names]
  InitialEnv, \* env when the task starts, Absent for a key that is not there
  InitialOutput,
  Blocks,     \* bound: the with statements, each the sequence of its calls
  MaxFrames,  \* bound on the nesting
  Absent

ASSUME KeyAssumption == Key \cap {"cwd", "command_prefixes"} = {}
ASSUME AbsentAssumption == Absent \notin Value \cup Seq(STRING)
ASSUME InitialAssumption ==
  /\ DOMAIN InitialEnv = Key \cup {"cwd", "command_prefixes"}
  /\ \A k \in Key : InitialEnv[k] \in Value \cup {Absent}
  /\ InitialEnv["cwd"] \in Seq(STRING) /\ InitialEnv["command_prefixes"] \in Seq(STRING)
  /\ InitialOutput \in [Group -> BOOLEAN]
  /\ MaxFrames \in Nat

VARIABLES
  env,       \* state.env
  output,    \* state.output
  entering,  \* the managers a with statement made and did not enter yet
  frames,    \* the managers that were entered and not left, the outer ones first
  leaving,   \* the innermost block is being left
  raised,    \* an exception is under way
  kept,      \* history: what a key is to be when every block is left
  lost       \* history: the keys that may be something else then

vars == <<env, output, entering, frames, leaving, raised, kept, lost>>

\* The body of a block runs.
Quiet == entering = <<>> /\ ~leaving

EnvKey == Key \cup {"cwd", "command_prefixes"}

-----------------------------------------------------------------------------
(* Making a manager: what is read when it is called.                       *)

\* _change_cwd(): a path is a sequence of directories; an absolute one, which
\* starts with / or ~, replaces the current one.
ChangeCwd(cwd, path) == IF path.absolute THEN path.dirs ELSE cwd \o path.dirs

\* _AliasDict.expand_aliases(), which does not remove duplicates.
ExpandAliases(names) ==
  LET Expand[n \in Group \cup DOMAIN Aliases] ==
        IF n \notin DOMAIN Aliases THEN <<n>>
        ELSE FlattenSeq([i \in DOMAIN Aliases[n] |-> Expand[Aliases[n][i]]])
  IN  FlattenSeq([i \in DOMAIN names |-> Expand[names[i]]])

\* The calls of a with statement; hide() and show() name groups that there are.
ManagerCall ==
  [fn : {"setenv"}, vars : UNION {[set -> Value] : set \in SUBSET Key}, clean : BOOLEAN]
    \cup [fn : {"output"}, groups : Seq(Group \cup DOMAIN Aliases), which : BOOLEAN]
    \cup [fn : {"cd"}, path : [absolute : BOOLEAN, dirs : Seq(STRING)]]
    \cup [fn : {"prefix"}, command : STRING]

ASSUME BlockAssumption ==
  \A calls \in Blocks :
    /\ calls \in Seq(ManagerCall)
    /\ \A i \in DOMAIN calls :
         calls[i].fn = "output" => ToSet(ExpandAliases(calls[i].groups)) \subseteq Group

\* The call of a context manager: cd() looks at env now, prefix() when its
\* block is entered, the others do not look at it. A slip: prefix() does it
\* now, too.
Setting(k, v) == [fn |-> "setenv", vars |-> [j \in {k} |-> v], clean |-> FALSE]
MadeEarly(call, e) ==
  CASE call.fn = "cd" -> Setting("cwd", ChangeCwd(e["cwd"], call.path))
    [] call.fn = "prefix" -> Setting("command_prefixes", Append(e["command_prefixes"], call.command))
    [] OTHER -> call
Made(call, e) ==
  IF call.fn = "cd" THEN Setting("cwd", ChangeCwd(e["cwd"], call.path)) ELSE call

(* What entering saves and sets.                                           *)

\* What a manager sets: `variables` of _setenv().
Variables(m) ==
  IF m.fn = "prefix"
  THEN [k \in {"command_prefixes"} |-> Append(env["command_prefixes"], m.command)]
  ELSE m.vars

\* dict.update().
Updated(f, set) == [k \in DOMAIN f |-> IF k \in DOMAIN set THEN set[k] ELSE f[k]]

\* `previous` of _setenv() holds the values of the keys that are in env.
Previous(set) == [k \in {j \in DOMAIN set : env[j] # Absent} |-> env[k]]

\* `previous` of _set_output(): the loop saves a group and sets it before it
\* goes on, so of a group that comes twice it saves the new value.
Saved(groups, which) ==
  [g \in ToSet(groups) |->
     IF \E i, k \in DOMAIN groups : i # k /\ groups[i] = g /\ groups[k] = g
     THEN which ELSE output[g]]

-----------------------------------------------------------------------------

Init ==
  /\ env = InitialEnv
  /\ output = InitialOutput
  /\ entering = <<>>
  /\ frames = <<>>
  /\ leaving = FALSE
  /\ raised = FALSE
  /\ kept = InitialEnv
  /\ lost = {}

\* with settings(*calls): or, for one call, with call: all calls are made first.
With(calls) ==
  /\ Quiet
  /\ Len(frames) + Len(calls) <= MaxFrames
  /\ entering' = [i \in DOMAIN calls |->
       [manager |-> Made(calls[i], env), call |-> calls[i], outermost |-> i = 1]]
  /\ UNCHANGED <<env, output, frames, leaving, raised, kept, lost>>

\* The next of them.
Manager == Head(entering).manager

EnterSetenv ==
  /\ entering # <<>>
  /\ Manager.fn # "output"
  /\ entering' = Tail(entering)
  /\ LET set == Variables(Manager) IN
       /\ frames' = Append(frames, [made |-> Head(entering), set |-> set, previous |-> Previous(set)])
       /\ env' = Updated(env, set)
  /\ UNCHANGED <<output, leaving, raised, kept, lost>>

EnterOutput ==
  /\ entering # <<>>
  /\ Manager.fn = "output"
  /\ entering' = Tail(entering)
  /\ LET groups == ExpandAliases(Manager.groups) IN
       /\ frames' = Append(frames, [made |-> Head(entering), saved |-> Saved(groups, Manager.which)])
       /\ output' = Updated(output, [g \in ToSet(groups) |-> Manager.which])
  /\ UNCHANGED <<env, leaving, raised, kept, lost>>

(* The body.                                                               *)

Clean(m) == m.fn = "setenv" /\ m.clean

\* The managers that override a key, and those that give its value back whatever
\* it is when they are left.
Overrides(f, k) == f.made.manager.fn # "output" /\ k \in DOMAIN f.set
GivesBack(f, k) == Overrides(f, k) /\ ~Clean(f.made.manager)

\* The histories: what a body gives a key outside of every block that overrides it
\* is there to stay; inside, unless a block gives it back, the key may be lost.
Changed(k, v) ==
  IF \A i \in DOMAIN frames : ~Overrides(frames[i], k)
  THEN kept' = [kept EXCEPT ![k] = v] /\ lost' = lost \ {k}
  ELSE /\ kept' = kept
       /\ lost' = lost \cup {j \in {k} : \A i \in DOMAIN frames : ~GivesBack(frames[i], j)}

Assign(k, v) ==
  /\ Quiet
  /\ env' = [env EXCEPT ![k] = v]
  /\ Changed(k, v)
  /\ UNCHANGED <<output, frames, leaving, raised, entering>>

Delete(k) ==
  /\ Quiet
  /\ env[k] # Absent
  /\ env' = [env EXCEPT ![k] = Absent]
  /\ Changed(k, Absent)
  /\ UNCHANGED <<output, frames, leaving, raised, entering>>

\* The body ends, normally or with an exception.
EndBody ==
  /\ Quiet
  /\ frames # <<>>
  /\ leaving' = TRUE
  /\ raised' \in BOOLEAN
  /\ UNCHANGED <<env, output, frames, kept, lost, entering>>

-----------------------------------------------------------------------------
(* Leaving. The finally clauses of the managers of a block run one after   *)
(* the other, also when one of them raises.                                *)

Top == Last(frames)

\* Keys a manager set that were not there before: `new`.
Fresh(f) == DOMAIN f.set \ DOMAIN f.previous

\* The managers still to be left. A slip: one that raises is the last of its block
\* whose clean-up is run.
RemainingAtError(error) ==
  LET first == SelectLastInSeq(frames, LAMBDA f : f.made.outermost)
  IN  IF error THEN SubSeq(frames, 1, first - 1) ELSE Front(frames)
Remaining(error) == Front(frames)

\* An exception goes on to the next block unless it is caught there. A slip: it
\* goes on all the same.
LeaveStillRaised(error) ==
  /\ frames' = Remaining(error)
  /\ raised' = (raised \/ error)
  /\ \E caught \in BOOLEAN : leaving' = (Remaining(error) # <<>> /\ ~(Top.made.outermost /\ caught))
Leave(error) ==
  /\ frames' = Remaining(error)
  /\ LET up == raised \/ error IN
     IF ~Top.made.outermost
     THEN leaving' = (Remaining(error) # <<>>) /\ raised' = (up /\ Remaining(error) # <<>>)
     ELSE \E caught \in BOOLEAN :
            /\ caught \/ (up /\ Remaining(error) # <<>>)
            /\ leaving' = ~caught
            /\ raised' = (up /\ ~caught)

\* clean_revert: a key that still has the value the block gave it is reverted, a
\* new one too.
Reverted(f) ==
  [k \in EnvKey |->
     IF k \in DOMAIN f.set /\ env[k] = f.set[k]
     THEN IF k \in DOMAIN f.previous THEN f.previous[k] ELSE Absent
     ELSE env[k]]

LeaveClean ==
  /\ leaving
  /\ Clean(Top.made.manager)
  /\ env' = Reverted(Top)
  /\ Leave(FALSE)
  /\ UNCHANGED <<output, kept, lost, entering>>

\* Otherwise previous values come back and then the new keys are deleted, in
\* the order of the call, until one is not there: KeyError. Those that were not
\* reached stay, but for an outer block that gives them back.
LeaveSetenv ==
  /\ leaving
  /\ Top.made.manager.fn \in {"setenv", "prefix"} /\ ~Clean(Top.made.manager)
  /\ LET there == {k \in Fresh(Top) : env[k] # Absent}
         error == there # Fresh(Top)
     IN \E removed \in SUBSET there :
          /\ error \/ removed = there
          /\ env' = [k \in EnvKey |-> IF k \in removed THEN Absent ELSE Updated(env, Top.previous)[k]]
          /\ lost' = lost \cup {k \in there \ removed :
                               \A i \in DOMAIN Front(frames) : ~GivesBack(frames[i], k)}
          /\ Leave(error)
  /\ UNCHANGED <<output, kept, entering>>

LeaveOutput ==
  /\ leaving
  /\ Top.made.manager.fn = "output"
  /\ output' = Updated(output, Top.saved)
  /\ Leave(FALSE)
  /\ UNCHANGED <<env, kept, lost, entering>>

Next ==
  \/ \E calls \in Blocks : With(calls)
  \/ \E k \in Key : Delete(k) \/ \E v \in Value : Assign(k, v)
  \/ EnterSetenv \/ EnterOutput
  \/ EndBody
  \/ LeaveClean \/ LeaveSetenv \/ LeaveOutput

Spec == Init /\ [][Next]_vars

-----------------------------------------------------------------------------
(* Properties.                                                             *)

\* The type invariant.
TypeOK ==
  /\ DOMAIN env = EnvKey
  /\ \A k \in Key : env[k] \in Value \cup {Absent}
  /\ output \in [Group -> BOOLEAN]
  /\ Len(frames) + Len(entering) <= MaxFrames
  /\ entering # <<>> => ~leaving
  /\ leaving => frames # <<>>
  /\ raised => leaving
  /\ \A i \in DOMAIN frames :
       frames[i].made.manager.fn # "output" => DOMAIN frames[i].previous \subseteq DOMAIN frames[i].set
  /\ DOMAIN kept = EnvKey /\ lost \subseteq EnvKey

\* When every block is left, whatever nesting there was and however they were
\* left, the output is as at the start and each key of env what it was at the
\* start, or what a body last made it outside of the blocks that override it. That
\* goes for keys that bodies changed inside, if a block without clean_revert gives
\* them back, and for the blocks around one whose exit raised KeyError. Not for two
\* kinds of keys: those changed in blocks with clean_revert only, as its docstring
\* has it, and new keys that an exit did not delete because it raised before. Brand
\* new keys of a block with clean_revert, which the docstring says are preserved
\* (context_managers.py:231), are deleted in the code and in its test
\* (test_context_managers.py:231), and so here.
BlocksLeaveNoTrace ==
  frames = <<>> /\ entering = <<>> =>
    /\ output = InitialOutput
    /\ \A k \in EnvKey \ lost : env[k] = kept[k]

\* What a block makes of the value that a key has below it.
Over(k, v, call) ==
  CASE k = "cwd" /\ call.fn = "cd" -> ChangeCwd(v, call.path)
    [] k = "command_prefixes" /\ call.fn = "prefix" -> Append(v, call.command)
    [] OTHER -> v
Nested(k, blocks) ==
  LET upTo[n \in 0..Len(blocks)] ==
        IF n = 0 THEN InitialEnv[k] ELSE Over(k, upTo[n - 1], blocks[n].made.call)
  IN  upTo

\* Open blocks nest, whether they were nested by with or by settings(): env.cwd is
\* the path that one cd() after the other gives, and env.command_prefixes lists the
\* commands of the prefix() blocks, the outermost first.
BlocksNest == \A k \in {"cwd", "command_prefixes"} : env[k] = Nested(k, frames)[Len(frames)]

=============================================================================
