----------------------------- MODULE MCHostLists -----------------------------
(* Small instances of HostLists for TLC.                                   *)
EXTENDS HostLists

CONSTANTS h1, h2, h3, blankH2, web, db, ghost

\* blankH2 is h2 with blanks around it.
Given == {h1, h2, h3, blankH2}
Stripped == [h \in Raw |-> IF h = blankH2 THEN h2 ELSE h]

Roles == {web, db, ghost}
\* The role ghost is not defined.
Defined == [r \in {web, db} |-> IF r = web THEN <<h1, blankH2>> ELSE <<h3, h1>>]

Arg(k, v) == [key |-> k, value |-> v]

SomeArguments ==
  {<<>>, <<Arg("host", <<h1>>), Arg("hosts", <<h3, blankH2, h3>>)>>,
   <<Arg("hosts", <<h2, h1>>), Arg("role", <<db>>), Arg("exclude_hosts", <<h1>>)>>,
   <<Arg("exclude_hosts", <<h1, h2>>)>>, <<Arg("roles", <<web, db>>), Arg("exclude_hosts", <<blankH2>>)>>,
   <<Arg("role", <<ghost>>), Arg("exclude_hosts", <<h2>>), Arg("exclude_hosts", <<h3>>)>>}

SomeHosts == {<<>>, <<h2>>, <<h3, h1, h2>>, <<h1, blankH2, h1>>}
SomeRoles == {<<>>, <<web>>, <<db, ghost>>}
=============================================================================
