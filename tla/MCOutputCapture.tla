--------------------------- MODULE MCOutputCapture ---------------------------
(* An instance of OutputCapture for TLC.                                   *)
EXTENDS OutputCapture

\* Lines that end with LF or CR LF, empty, unfinished, and as long as
\* MaxOutputLine before, at and after their end.
AllScripts ==
  [s \in Streams |->
     IF s = "stdout"
       THEN {<<"a", CR, LF, "b">>, <<"b", "a", "b", LF>>, <<LF, "b", "a", "b", "a">>}
       ELSE {<<"a", LF>>}]

Entry(trigger, wildcards, words) ==
  [trigger |-> trigger, wildcards |-> wildcards, words |-> words]

\* No trigger, no known action, an action that ends the invocation, and others.
AllFilterSets ==
  {<<Entry(<<>>, FALSE, <<"SHUTDOWN">>),
     Entry(<<"b", "b">>, FALSE, <<"unknown">>),
     Entry(<<"b", "*", "b">>, TRUE, <<"GC", "SHUTDOWN">>),
     Entry(<<"a", "?">>, TRUE, <<"NONE", "DEBUG", "RESTART">>),
     Entry(<<"a">>, FALSE, <<"PAUSE">>)>>}

=============================================================================
