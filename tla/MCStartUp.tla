------------------------------- MODULE MCStartUp -------------------------------
(* Every fabfile of up to three of six variables, and every pair of modules *)
(* of a few variables that it may import, circles among them included.      *)
EXTENDS StartUp

CONSTANTS t1, t2, t3, t4, t5, none

MCTask == {t1, t2, t3, t4, t5}
\* t2 goes by the name of t1, t3 by that of the module a; t4 is without a name.
MCDefinedName ==
  t1 :> "x" @@ t2 :> "x" @@ t3 :> "z" @@ t4 :> "undefined" @@ t5 :> "w"
MCIsDefault == {t1, t3, t4, t5}
MCAliases == [t \in MCTask |-> IF t = t3 THEN {"a"} ELSE {}]

Holding(kind, as, obj) == [kind |-> kind, as |-> as, obj |-> obj]
Choice(items, n) ==
  {s \in UNION {[1..k -> items] : k \in 0..n} : \A i, j \in DOMAIN s : s[i] = s[j] => i = j}

FabItems ==
  { Holding("task", "x", t1), Holding("task", "y", t2), Holding("task", "z", t3),
    Holding("function", "f", "f"), Holding("module", "a", "a"), Holding("module", "b", "b") }
AItems ==
  { Holding("task", "u", t4), Holding("task", "w", t5), Holding("module", "b", "b"),
    Holding("module", "fabfile", "fabfile") }
BItems == {Holding("task", "v", t4), Holding("task", "x", t1), Holding("module", "a", "a")}

Imported(import, fab, a, b) ==
  [import |-> import,
   vars |-> [m \in {"fabfile", "a", "b"} |->
               CASE m = "fabfile" -> fab [] m = "a" -> a [] OTHER -> b]]

MCFabfiles ==
  { Imported("nothing", fab, a, b) :
      fab \in Choice(FabItems, 3), a \in Choice(AItems, 2), b \in Choice(BItems, 1) }
    \cup { Imported(import, <<Holding("task", "x", t1)>>, <<>>, <<>>) :
             import \in {"append", "insert", "raise"} }

MCSysPaths == {<<"site">>, <<"here", "site">>, <<"site", "other", "here", "more">>}

Line(names) ==
  [list |-> FALSE, display |-> None, names |-> names, remainder |-> FALSE, skip |-> FALSE]
MCCommandLines ==
  { Line(<<>>), [Line(<<>>) EXCEPT !.list = TRUE], [Line(<<>>) EXCEPT !.remainder = TRUE],
    [Line(<<>>) EXCEPT !.list = TRUE, !.remainder = TRUE],
    [Line(<<>>) EXCEPT !.display = <<"a">>],
    Line(<<<<"x">>>>), Line(<<<<"x">>, <<"a">>>>), [Line(<<<<"remainder">>>>) EXCEPT !.remainder = TRUE], Line(<<<<"x">>, <<"a", "w">>>>),
    [Line(<<<<"x">>, <<"f">>>>) EXCEPT !.skip = TRUE],
    [Line(<<<<"b", "x">>>>) EXCEPT !.remainder = TRUE] }

=============================================================================
