-------------------------- MODULE MCHostOperator --------------------------
(***************************************************************************)
(* Small instances of HostOperator: a checkout of one repository, where    *)
(* the operator is started, and a second directory, empty or with another  *)
(* repository; an issue of the same number in both.                        *)
(***************************************************************************)
EXTENDS HostOperator, TLC

CONSTANTS here, there, nowhere, repo1, repo2, seven, someday, text

Blank == [key \in Keys |-> None]
Refs == {[number |-> seven, repo |-> r] : r \in Repos \union {None}}
Bare == [number |-> seven, repo |-> None]

Lines ==
  {[issue |-> i, ticket |-> t, prompt |-> p, repoUrl |-> u, cwd |-> c] :
     i \in Refs \union {None}, t \in {someday, None}, p \in {text, None},
     u \in {repo2, None}, c \in {there, nowhere, Empty, None}}
ShellEnvs ==
  {Blank, [Blank EXCEPT !.cwd = there], [Blank EXCEPT !.issue = Empty],
   [Blank EXCEPT !.issue = Bare, !.cwd = Empty]}
Files == {[d \in Dirs |-> file] :
            file \in {Blank, [Blank EXCEPT !.cwd = there, !.issue = Bare],
                     [Blank EXCEPT !.ticket = seven, !.prompt = text]}}
TreesOf == {[d \in Dirs |-> IF d = here THEN repo1 ELSE other] :
              other \in {repo2, None}}
ScriptNames == {"lint:check", "lint", "test"}
Checks == {<<"lint:check", "lint">>, <<"test">>}
ScriptsOf == [r \in Repos |-> IF r = repo1 THEN {"lint", "test"}
                                           ELSE {"lint:check", "lint"}]
=============================================================================
