------------------------------ MODULE MCExecute ------------------------------
(* Small instances of Execute for TLC.                                     *)
EXTENDS Execute

CONSTANTS h1, h2, deploy, setup, ghost

Tasks == {deploy, setup, ghost}
Hosts2 == {h1, h2}

\* `ghost` is not in the fabfile; `setup` is decorated with @runs_once.
Lines == {<<setup, deploy>>, <<deploy, setup, setup>>, <<setup, ghost, deploy>>}

\* env.pool_size not set, the string '0', and a string that is no number.
NotGiven == [set |-> FALSE, number |-> 0]
Pools == {NotGiven, [set |-> TRUE, number |-> 0], [set |-> TRUE, number |-> None]}

\* Tasks without a size of their own, and one with @parallel(pool_size=-1).
Own == {[t \in {setup, deploy} |-> NotGiven],
        [t \in {setup, deploy} |-> IF t = deploy THEN [set |-> TRUE, number |-> -1] ELSE NotGiven]}

\* env.dedupe_hosts = True: no host twice.
Deduped == {<<>>, <<h1, h2>>}
\* env.dedupe_hosts = False; FailFast fails for these lists, see the README.
WithDuplicates == {<<h1, h2, h1>>}
=============================================================================
