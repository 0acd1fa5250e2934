----------------------------- MODULE MCSettings -----------------------------
(* Small instances of Settings for TLC.                                    *)
EXTENDS Settings

CONSTANTS a, b, v, w

Keys2 == {a, b}
Keys1 == {a}
Vals == {v, w}

\* a is set from the start, b is new.
Env == [k \in Key |-> IF k = a THEN v ELSE Absent]
         @@ ("cwd" :> <<>>) @@ ("command_prefixes" :> <<>>)

Groups == {"running", "stdout", "stderr", "debug"}
AllAliases == [output |-> <<"stdout", "stderr">>, everything |-> <<"running", "output">>,
               commands |-> <<"stdout", "running">>]
Out == [g \in Group |-> g # "debug"]

Setenv(s, clean) == [fn |-> "setenv", vars |-> s, clean |-> clean]
Hide(groups) == [fn |-> "output", groups |-> groups, which |-> FALSE]
Show(groups) == [fn |-> "output", groups |-> groups, which |-> TRUE]
Cd(absolute, dir) == [fn |-> "cd", path |-> [absolute |-> absolute, dirs |-> <<dir>>]]
Prefix(command) == [fn |-> "prefix", command |-> command]

\* settings() with keys old and new, with clean_revert, and without it in front of a
\* manager that is left after an exit that raised; with statements of two managers
\* out of show(), hide(), prefix() and cd().
Calls ==
  {<<Setenv(a :> w @@ b :> w, TRUE)>>, <<Hide(<<"everything">>), Setenv(a :> w @@ b :> w, FALSE)>>,
   <<Show(<<"debug", "stdout">>), Cd(TRUE, "var")>>, <<Prefix("workon"), Cd(FALSE, "www")>>,
   <<Prefix("workon"), Prefix("source")>>}

\* Two cd() in one settings(), which do not nest: BlocksNest fails for these blocks.
CdTwice == {<<Cd(TRUE, "var"), Cd(FALSE, "www")>>, <<Setenv(a :> w, FALSE)>>, <<Prefix("nice")>>}
=============================================================================
