--------------------------- MODULE HostOperator ---------------------------
(***************************************************************************)
(* One session of the Host operator: from the command line, the shell's    *)
(* environment and the .env of the tree it aims at, through the intake of  *)
(* a GitHub issue and one run, to the exit code.                           *)
(*                                                                         *)
(* Of the run (MinimalAdw) only what depends on the session is kept: where *)
(* it works, which tree it finds there, which check scripts of that tree   *)
(* become gates while Build edits package.json, and what the pull request  *)
(* closes. Paths are absolute, and a directory inside a worktree counts as *)
(* that worktree, as for `git rev-parse' and for `gh'.                     *)
(***************************************************************************)
EXTENDS Naturals, Sequences

CONSTANTS
  Dirs, Missing,      \* directories, and paths that are none
  Repos,              \* remote repositories
  Numbers,            \* issue numbers
  Ids,                \* ticket ids, issue numbers among them
  None, Empty,        \* a value that is absent, and one given as ""
  CommandLines, Shells, DotEnvs,  \* the inputs considered
  ProcessCwd,         \* the directory the caller starts the operator in
  Trees,              \* which repositories the directories may hold
  Scripts,            \* names in the scripts of a package.json
  Categories,         \* the check categories: each a sequence of names
  RepoScripts,        \* what each repository's package.json has
  MaxEdits            \* edits of package.json by the agents

Keys == {"issue", "ticket", "prompt", "repoUrl", "cwd"}
Issues == Repos \X Numbers
IssueRefs == [number : Numbers, repo : Repos \union {None}]
Tickets == [id : Ids, issue : Issues \union {None}]
PullRequests == [repo : Repos, closes : Numbers \union {None}]

Inputs(S) ==
  \A input \in S :
    /\ DOMAIN input = Keys
    /\ input.issue \in IssueRefs \union {None, Empty}
    /\ input.ticket \in Ids \union {None, Empty}
    /\ input.repoUrl \in Repos \union {None, Empty}
    /\ input.cwd \in Dirs \union Missing \union {None, Empty}

ASSUME InputsAssumption ==
  /\ Inputs(CommandLines) /\ Inputs(Shells)
  /\ \A files \in DotEnvs : DOMAIN files = Dirs /\ Inputs({files[d] : d \in Dirs})
  /\ ProcessCwd \in Dirs /\ Missing \cap Dirs = {} /\ Numbers \subseteq Ids
  /\ Trees \subseteq [Dirs -> Repos \union {None}]
  /\ RepoScripts \in [Repos -> SUBSET Scripts] /\ MaxEdits \in Nat
ASSUME CategoriesAssumption == Categories \subseteq Seq(Scripts)
ASSUME AbsentAssumption ==
  /\ None # Empty
  /\ {None, Empty} \cap (Dirs \union Missing \union {0, 1, 2, 128}) = {}
  /\ {None, Empty} \cap Tickets = {} /\ {None, Empty} \cap PullRequests = {}

VARIABLES
  line, shell, dotEnv,    \* what the caller gives, and the .env per directory
  flags,                  \* the command line after the wrapper
  stage,
  args,                   \* the arguments once every source is applied
  cwd,
  ticket,                 \* [id, issue], or None; issue is None if manual
  tree,                   \* per directory: the repository of its remote
  scripts,                \* per directory: the script names of package.json
  gates,                  \* the scripts that are run as gates
  provisioned,            \* history: the scripts right after provision
  edits, ready,           \* ready: the issues labelled ready-for-agent
  pr,                     \* [repo, closes], or None
  status, exit

given == <<line, shell, dotEnv, flags>>
session == <<args, cwd, ticket>>
work == <<tree, scripts, gates, provisioned, edits>>
outcome == <<pr, status, exit>>
vars == <<given, stage, session, work, ready, outcome>>

Given(v) == v \notin {None, Empty}

Stages == {"aim", "args", "intake", "provision", "gates", "build", "test",
           "review", "ship", "view", "report", "done", "killed"}

TypeOK ==
  /\ stage \in Stages
  /\ cwd \in Dirs \union Missing \union {None}
  /\ stage \notin {"aim", "done", "killed"} => cwd \in Dirs
  /\ ticket \in Tickets \union {None}
  /\ tree \in [Dirs -> Repos \union {None}]
  /\ scripts \in [Dirs -> SUBSET Scripts] /\ gates \subseteq Scripts
  /\ provisioned \subseteq Scripts
  /\ edits \in 0..MaxEdits /\ ready \subseteq Issues
  /\ pr \in PullRequests \union {None}
  /\ status \in {"none", "shipped", "ready_for_pr", "failed"}
  /\ exit \in {None, 0, 1, 2, 128}

\* Mutant of Prepared: only the command line is looked at.
PreparedWithoutEnv ==
  IF line.cwd # None THEN line ELSE [line EXCEPT !.cwd = ProcessCwd]

\* The bin puts the caller's directory on a command line that names none.
Prepared ==
  IF line.cwd # None \/ Given(shell.cwd) THEN line
                                         ELSE [line EXCEPT !.cwd = ProcessCwd]

Init ==
  /\ line \in CommandLines /\ shell \in Shells /\ dotEnv \in DotEnvs
  /\ flags \in {line, Prepared}
  /\ stage = "aim" /\ args = None /\ cwd = None /\ ticket = None
  /\ tree \in Trees
  /\ scripts = [d \in Dirs |-> IF tree[d] = None THEN {} ELSE RepoScripts[tree[d]]]
  /\ gates = {} /\ provisioned = {} /\ edits = 0
  /\ ready \in SUBSET Issues
  /\ pr = None /\ status = "none" /\ exit = None

Goto(s) == stage' = s /\ UNCHANGED <<outcome>>
Refuse == stage' = "done" /\ exit' = 1 /\ UNCHANGED <<pr, status>>
FailRun == stage' = "report" /\ status' = "failed" /\ UNCHANGED <<pr, exit>>

-----------------------------------------------------------------------------
\* The command line and the environment.

Target ==
  IF Given(flags.cwd) THEN flags.cwd
  ELSE IF Given(shell.cwd) THEN shell.cwd ELSE ProcessCwd

\* Mutant of Aim: the directory is not looked at.
AimUnseen ==
  /\ stage = "aim"
  /\ cwd' = Target /\ Goto("args")
  /\ UNCHANGED <<given, args, ticket, work, ready>>

\* cwd is settled before the .env in it is read.
Aim ==
  /\ stage = "aim"
  /\ cwd' = Target
  /\ IF Target \in Dirs THEN Goto("args") ELSE Refuse
  /\ UNCHANGED <<given, args, ticket, work, ready>>

\* The shell's value wins over the file's, an empty one included; then an empty
\* value is none.
Env(key) == IF shell[key] # None THEN shell[key] ELSE dotEnv[cwd][key]

Argument(key) ==
  IF Given(flags[key]) THEN flags[key]
  ELSE IF Given(Env(key)) THEN Env(key) ELSE None

ParseArgs ==
  LET parsed == [key \in Keys |-> Argument(key)]
      issue == Given(parsed.issue)
      manual == {key \in {"ticket", "prompt"} : Given(parsed[key])}
  IN
  /\ stage = "args"
  /\ args' = parsed
  /\ \/ issue /\ manual = {} /\ Goto("intake") /\ UNCHANGED ticket
     \/ /\ ~issue /\ manual = {"ticket", "prompt"} /\ Goto("provision")
        /\ ticket' = [id |-> parsed.ticket, issue |-> None]
     \/ /\ IF issue THEN manual # {} ELSE manual # {"ticket", "prompt"}
        /\ Refuse /\ UNCHANGED ticket
  /\ UNCHANGED <<given, cwd, work, ready>>

-----------------------------------------------------------------------------
\* Intake: `gh issue view', in cwd, of a bare number, or with -R of a URL.

RepoOfRef == IF args.issue.repo # None THEN args.issue.repo ELSE tree[cwd]

IntakeReads ==
  LET issue == <<RepoOfRef, args.issue.number>> IN
  /\ stage = "intake" /\ RepoOfRef # None /\ issue \in ready
  /\ ticket' = [id |-> args.issue.number, issue |-> issue]
  /\ Goto("provision")
  /\ UNCHANGED <<given, args, cwd, work, ready>>

\* gh finds no repository, no such issue, or no label; or it fails.
IntakeFails ==
  /\ stage = "intake" /\ Refuse
  /\ UNCHANGED <<given, session, work, ready>>

\* Somebody takes the label away.
Unlabel(issue) ==
  /\ exit = None /\ issue \in ready
  /\ ready' = ready \ {issue}
  /\ UNCHANGED <<given, stage, session, work, outcome>>

-----------------------------------------------------------------------------
\* The run: provision, gates, Build, Test, Review, Ship.

\* Mutant of NeedsClone: a repository that is named is cloned.
NeedsNamedClone == tree[cwd] = None \/ args.repoUrl # None

NeedsClone == tree[cwd] = None

Provisions ==
  /\ stage = "provision" /\ Goto("gates")
  /\ IF NeedsClone
       THEN /\ args.repoUrl # None
            /\ tree' = [tree EXCEPT ![cwd] = args.repoUrl]
            /\ scripts' = [scripts EXCEPT ![cwd] = RepoScripts[args.repoUrl]]
       ELSE UNCHANGED <<tree, scripts>>
  /\ UNCHANGED <<given, session, gates, provisioned, edits, ready>>

\* The first script of each category that the package.json has.
Gates(names) ==
  {name \in names : \E category \in Categories : \E i \in DOMAIN category :
     /\ category[i] = name
     /\ \A j \in 1..(i - 1) : category[j] \notin names}

ResolveGates ==
  /\ stage = "gates"
  /\ gates' = Gates(scripts[cwd]) /\ provisioned' = scripts[cwd]
  /\ IF gates' = {} THEN FailRun ELSE Goto("build")
  /\ UNCHANGED <<given, session, tree, scripts, edits, ready>>

BuildEdits ==
  /\ stage = "build" /\ edits < MaxEdits
  /\ \E name \in Scripts :
       scripts' = [scripts EXCEPT ![cwd] =
                     IF name \in @ THEN @ \ {name} ELSE @ \union {name}]
  /\ edits' = edits + 1
  /\ UNCHANGED <<given, stage, session, tree, gates, provisioned, ready, outcome>>

BuildReturns ==
  /\ stage = "build" /\ Goto("test")
  /\ UNCHANGED <<given, session, work, ready>>

\* Mutant of GatesOfTest: the gates are resolved again from what Build left.
GatesOfNow == Gates(scripts[cwd])

GatesOfTest == gates

\* `run' of a script that is gone exits nonzero.
Tests ==
  /\ stage = "test"
  /\ \/ GatesOfTest \subseteq scripts[cwd] /\ Goto("review")
     \/ Goto("build")
  /\ UNCHANGED <<given, session, work, ready>>

Reviews ==
  /\ stage = "review" /\ (Goto("ship") \/ Goto("build"))
  /\ UNCHANGED <<given, session, work, ready>>

RunFails ==
  /\ stage \in {"provision", "gates", "build", "test", "review"} /\ FailRun
  /\ UNCHANGED <<given, session, work, ready>>

ShipFails ==
  /\ stage \in {"ship", "view"}
  /\ stage' = "report" /\ status' = "ready_for_pr"
  /\ UNCHANGED <<given, session, work, ready, pr, exit>>

\* The body closes the issue of the ticket's number, in the tree's repository.
ShipOpensPr ==
  /\ stage = "ship" /\ stage' = "view"
  /\ pr' = [repo |-> tree[cwd],
            closes |-> IF ticket.id \in Numbers THEN ticket.id ELSE None]
  /\ UNCHANGED <<given, session, work, ready, status, exit>>

ShipViewsPr ==
  /\ stage = "view" /\ stage' = "report" /\ status' = "shipped"
  /\ UNCHANGED <<given, session, work, ready, pr, exit>>

-----------------------------------------------------------------------------
\* Mutant of ExitCode: whatever has passed Review is a success.
ExitZeroUnlessFailed(s) == IF s = "failed" THEN 1 ELSE 0

ExitCode(s) == CASE s = "shipped" -> 0 [] s = "ready_for_pr" -> 2
                 [] OTHER -> 1

Exits ==
  /\ stage = "report" /\ stage' = "done" /\ exit' = ExitCode(status)
  /\ UNCHANGED <<given, session, work, ready, pr, status>>

\* A signal ends the operator. The caller sees the 1 that the bin makes of it,
\* or, without the bin or when the bin is killed too, 128 (and the signal, which
\* is left out).
Killed ==
  /\ exit = None /\ stage' = "killed" /\ exit' \in {1, 128}
  /\ UNCHANGED <<given, session, work, ready, pr, status>>

Ended == exit # None /\ UNCHANGED vars

Next ==
  \/ Aim \/ ParseArgs \/ IntakeReads \/ IntakeFails
  \/ Provisions \/ ResolveGates \/ BuildEdits \/ BuildReturns
  \/ Tests \/ Reviews \/ RunFails
  \/ ShipFails \/ ShipOpensPr \/ ShipViewsPr \/ Exits \/ Killed \/ Ended
  \/ \E issue \in Issues : Unlabel(issue)

Spec == Init /\ [][Next]_vars

-----------------------------------------------------------------------------
(***************************************************************************)
(* Properties.                                                             *)
(***************************************************************************)

\* The session works where its caller says: an explicit --cwd or a non-empty
\* ADW_CWD wins over the injected invoker path (prepareAdwHostArgv), and a
\* .env never moves it (resolveHostOperatorCwd before loadHostDotEnv).
WorksWhereAsked ==
  cwd # None =>
    cwd = IF Given(line.cwd) THEN line.cwd
          ELSE IF Given(shell.cwd) THEN shell.cwd ELSE ProcessCwd

\* The pull request of a run closes the very issue the run was given: its
\* closing keyword links the ticket (shipPrBody in ship-agent.ts).
PrClosesItsTicket ==
  pr # None /\ ticket.issue # None => <<pr.repo, pr.closes>> = ticket.issue

\* That much is true of an issue given by its number, and of one given by its URL
\* where that is the repository the run ends up in: intake, the reuse of the
\* worktree and Ship all speak of the repository in cwd, whatever --repo-url
\* says (loadReadyTicket, provision, openPullRequest).
BareIssueIsItsOwn ==
  pr # None /\ ticket.issue # None /\ args.issue.repo \in {None, tree[cwd]}
    => <<pr.repo, pr.closes>> = ticket.issue

\* Build cannot drop a check: what a pull request is opened for still has every
\* script that was a check of the provisioned tree, since the gates are resolved
\* once and a script that is gone is red (run-minimal-adw.ts, test-agent.ts).
KeepsItsChecks == pr # None => Gates(provisioned) \subseteq scripts[cwd]

\* A caller can rely on the exit code: 0 only with a pull request, 1 of a
\* session that was not killed never with one, 2 only after a run has reached
\* Ship (exitCodeForStatus, runHostOperatorArgv).
ExitTellsOutcome ==
  /\ exit = 0 => pr # None
  /\ exit = 1 /\ stage = "done" => pr = None
  /\ exit = 2 => status = "ready_for_pr" /\ ticket # None
=============================================================================
