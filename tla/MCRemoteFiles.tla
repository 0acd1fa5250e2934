----------------------------- MODULE MCRemoteFiles -----------------------------
EXTENDS RemoteFiles

AppendTexts(texts) == [name |-> "append", texts |-> texts]
Template(lines, ended) ==
  [name |-> "template", text |-> [lines |-> lines, ended |-> ended]]
Comment(token, anchored) == [name |-> "comment", token |-> token, anchored |-> anchored]
Uncomment(token) == [name |-> "uncomment", token |-> token]
Project == [name |-> "project"]

X == <<"x">>
Y == <<"y">>

\* Tasks that may be repeated and others; the last two texts are an empty line
\* and one of two lines.
MCScripts ==
  { <<AppendTexts(<<<<X>>, <<Y>>, <<X>>>>), AppendTexts(<<<<Y>>>>)>>,
    <<Template(<<X, Y>>, TRUE), AppendTexts(<<<<<<"z">>>>>>), Comment("x", TRUE)>>,
    <<Template(<<X, Y>>, FALSE), AppendTexts(<<<<X>>, <<Y>>>>), Uncomment("x"), Project>>,
    <<Comment("x", TRUE)>>, <<Comment("x", FALSE)>>, <<Uncomment("x")>>,
    <<AppendTexts(<<<<X>>>>), Comment("x", TRUE)>>,
    <<AppendTexts(<<<<<<>>>>, <<X, Y>>>>)>>,
    <<Project, AppendTexts(<<<<X>>>>), Project>> }

MCOriginals ==
  { None, Text(<<>>), Text(<<X>>), Text(<<<<"#", "x">>, <<"x", "y">>, <<"y", "x">>>>),
    Text(<<<<"#", "#", "x">>>>), [lines |-> <<Y, X>>, ended |-> FALSE] }

=============================================================================
