------------------------------- MODULE MCShell -------------------------------
(***************************************************************************)
(* Shell for TLC: the lines the user types.                                *)
(***************************************************************************)
EXTENDS Shell

Atoi(word) == IF word = "1" THEN 1 ELSE 0

\* Lines of every kind: pipelines that end because of end of file or of SIGPIPE,
\* redirections in both orders, signs in odd places, background jobs, builtins, blanks.
SomeLines ==
  { <<"yes", "|", "head", "|", "cat">>,
    <<"yes", "|", "true", "&">>,
    <<"cat", "<", "f", "|", "cat">>,
    <<"true", "|", "cat", ">", "g">>,
    <<"cat", ">", "g", "<", "f">>,
    <<"cat", "<", "none">>,
    <<"true", ">", "/">>,
    <<"cat">>,
    <<"true", "&">>,
    <<"|", "cat">>,
    <<"cat", "|">>,
    <<"&">>,
    <<"echo", "-n", "1", "a">>, <<"echo", "-n", "1">>, <<"quit">>, <<"pwd">>, <<"id">>,
    <<>>, Spaces }
==============================================================================
