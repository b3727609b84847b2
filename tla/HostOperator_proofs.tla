------------------------ MODULE HostOperator_proofs ------------------------
(***************************************************************************)
(* Proofs about HostOperator, for every value of its constants: whatever   *)
(* command lines, environments and trees there are.                        *)
(***************************************************************************)
EXTENDS HostOperator, WellFoundedInduction, TLAPS

Running == {"provision", "gates", "build", "test", "review", "ship", "view",
            "report"}
Opened == {"view", "report", "done", "killed"}

\* What the session was given stays, and its directory is the one it aims at.
InputsFit ==
  /\ line \in CommandLines /\ shell \in Shells /\ dotEnv \in DotEnvs
  /\ flags \in {line, Prepared}
  /\ stage = "aim" => cwd = None
  /\ cwd \in {None, Target}

\* The arguments are good for what the stages after them do with them.
ArgsFit ==
  /\ stage \in {"intake"} \union Running =>
       args.repoUrl \in Repos \union {None}
  /\ stage = "intake" => args.issue \in IssueRefs
  /\ stage \in Running \ {"provision", "report"} => tree[cwd] # None

LEMMA FlagsFit ==
  ASSUME InputsFit
  PROVE  /\ flags.issue \in IssueRefs \union {None, Empty}
         /\ flags.repoUrl \in Repos \union {None, Empty}
         /\ flags.cwd \in Dirs \union Missing \union {None, Empty}
         /\ flags.ticket \in Ids \union {None, Empty}
BY InputsAssumption DEF InputsFit, Prepared, Inputs, Keys

LEMMA ArgumentsFit ==
  ASSUME InputsFit, cwd \in Dirs
  PROVE  /\ Argument("issue") \in IssueRefs \union {None}
         /\ Argument("repoUrl") \in Repos \union {None}
         /\ Argument("ticket") \in Ids \union {None}
<1>1. \A files \in DotEnvs : \A d \in Dirs : Inputs({files[d]})
  BY InputsAssumption DEF Inputs
<1>2. Inputs({dotEnv[cwd]}) /\ Inputs({shell})
  BY <1>1, InputsAssumption DEF InputsFit, Inputs
<1> QED
  BY <1>2, FlagsFit DEF Argument, Env, Given, Inputs

Typed == TypeOK /\ InputsFit /\ ArgsFit

LEMMA TypedInit == Init => Typed
<1> SUFFICES ASSUME Init PROVE Typed
  OBVIOUS
<1>1. tree \in [Dirs -> Repos \union {None}]
  BY InputsAssumption DEF Init
<1>2. scripts \in [Dirs -> SUBSET Scripts]
  BY <1>1, InputsAssumption DEF Init
<1>3. edits \in 0..MaxEdits
  <2>1. MaxEdits \in Nat /\ edits = 0
    BY InputsAssumption DEF Init
  <2> QED
    BY <2>1
<1>4. stage \in Stages /\ stage = "aim"
  BY DEF Init, Stages
<1>5. /\ cwd \in Dirs \union Missing \union {None} /\ exit \in {None, 0, 1, 2, 128}
      /\ ticket \in Tickets \union {None} /\ pr \in PullRequests \union {None}
      /\ status \in {"none", "shipped", "ready_for_pr", "failed"}
  BY DEF Init
<1>6. gates \subseteq Scripts /\ provisioned \subseteq Scripts /\ ready \subseteq Issues
  BY DEF Init
<1>7. TypeOK
  BY <1>1, <1>2, <1>3, <1>4, <1>5, <1>6 DEF TypeOK
<1>8. InputsFit /\ ArgsFit
  BY DEF Init, InputsFit, ArgsFit, Running
<1> QED
  BY <1>7, <1>8 DEF Typed

\* The ways the arguments can turn out.
LEMMA ParsedWell ==
  ASSUME Typed, ParseArgs
  PROVE  /\ args'.issue \in IssueRefs \union {None}
         /\ args'.repoUrl \in Repos \union {None}
         /\ \/ /\ stage' = "intake" /\ args'.issue # None
               /\ UNCHANGED <<ticket, outcome>>
            \/ /\ stage' = "provision" /\ UNCHANGED outcome
               /\ ticket' \in Tickets /\ ticket'.issue = None
            \/ stage' = "done" /\ exit' = 1 /\ UNCHANGED <<ticket, pr, status>>
<1> USE DEF Typed, TypeOK
<1>1. cwd \in Dirs
  BY DEF ParseArgs
<1>2. args' = [key \in Keys |-> Argument(key)]
  BY DEF ParseArgs
<1>3. /\ args'.issue \in IssueRefs \union {None}
      /\ args'.repoUrl \in Repos \union {None}
      /\ args'.ticket \in Ids \union {None}
  BY <1>1, <1>2, ArgumentsFit DEF Keys
<1>4. \/ /\ stage' = "intake" /\ Given(args'.issue)
         /\ UNCHANGED <<ticket, outcome>>
      \/ /\ stage' = "provision" /\ Given(args'.ticket) /\ UNCHANGED outcome
         /\ ticket' = [id |-> args'.ticket, issue |-> None]
      \/ stage' = "done" /\ exit' = 1 /\ UNCHANGED <<ticket, pr, status>>
  BY <1>2 DEF ParseArgs, Keys, Goto, Refuse
<1> QED
  BY <1>3, <1>4 DEF Tickets, Given

LEMMA TypedStep == Typed /\ [Next]_vars => Typed'
<1> SUFFICES ASSUME Typed, [Next]_vars PROVE Typed'
  OBVIOUS
<1> USE DEF Typed, TypeOK, InputsFit, ArgsFit, Stages, Running
<1> USE DEF Goto, Refuse, FailRun, given, session, work, outcome
<1>1. CASE Aim
  <2>1. Target' = Target
    BY <1>1 DEF Aim, Target
  <2>2. Target \in Dirs \union Missing
    BY FlagsFit, InputsAssumption DEF Target, Given, Inputs
  <2> QED
    BY <1>1, <2>1, <2>2 DEF Aim, Prepared
<1>2. CASE ParseArgs
  <2>1. UNCHANGED <<given, cwd, work, ready>> /\ cwd \in Dirs
    BY <1>2 DEF ParseArgs
  <2>2. InputsFit' /\ ArgsFit'
    BY <1>2, <2>1, ParsedWell DEF Target, Prepared
  <2> QED
    BY <1>2, <2>1, <2>2, ParsedWell
<1>3. CASE IntakeReads
  <2>1. args.issue.number \in Numbers /\ RepoOfRef \in Repos
    BY <1>3 DEF IntakeReads, IssueRefs, RepoOfRef
  <2>2. ticket' \in Tickets
    BY <1>3, <2>1, InputsAssumption DEF IntakeReads, Tickets, Issues
  <2> QED
    BY <1>3, <2>2 DEF IntakeReads, Target, Prepared
<1>4. CASE IntakeFails
  BY <1>4 DEF IntakeFails, Target, Prepared
<1>5. CASE Provisions
  <2>1. /\ stage' = "gates" /\ tree'[cwd] # None
        /\ tree' \in [Dirs -> Repos \union {None}]
    BY <1>5 DEF Provisions, NeedsClone
  <2>2. scripts' \in [Dirs -> SUBSET Scripts]
    BY <1>5, InputsAssumption DEF Provisions, NeedsClone
  <2> QED
    BY <1>5, <2>1, <2>2 DEF Provisions, Target, Prepared
<1>6. CASE ResolveGates
  <2>1. scripts[cwd] \subseteq Scripts
    BY <1>6 DEF ResolveGates
  <2>2. Gates(scripts[cwd]) \subseteq Scripts
    BY <2>1 DEF Gates
  <2> QED
    BY <1>6, <2>1, <2>2 DEF ResolveGates, Target, Prepared
<1>7. CASE BuildEdits
  <2>1. \A name \in Scripts :
          (IF name \in scripts[cwd] THEN scripts[cwd] \ {name}
                                    ELSE scripts[cwd] \union {name}) \subseteq Scripts
    BY <1>7 DEF BuildEdits
  <2>2. edits + 1 \in 0..MaxEdits
    BY <1>7, InputsAssumption DEF BuildEdits
  <2> QED
    BY <1>7, <2>1, <2>2 DEF BuildEdits, Target, Prepared
<1>8. CASE BuildReturns \/ Tests \/ Reviews \/ RunFails
  BY <1>8 DEF BuildReturns, Tests, Reviews, RunFails, Target, Prepared
<1>9. CASE ShipFails \/ ShipViewsPr
  BY <1>9 DEF ShipFails, ShipViewsPr, Target, Prepared
<1>10. CASE ShipOpensPr
  <2>1. [repo |-> tree[cwd],
         closes |-> IF ticket.id \in Numbers THEN ticket.id ELSE None]
          \in PullRequests
    BY <1>10 DEF ShipOpensPr, PullRequests
  <2> QED
    BY <1>10, <2>1 DEF ShipOpensPr, Target, Prepared
<1>11. CASE Exits \/ Killed \/ UNCHANGED vars
  BY <1>11 DEF Exits, ExitCode, Killed, vars, Target, Prepared
<1>12. ASSUME NEW issue \in Issues, Unlabel(issue) PROVE Typed'
  BY <1>12 DEF Unlabel, Target, Prepared
<1> QED
  BY <1>1, <1>2, <1>3, <1>4, <1>5, <1>6, <1>7, <1>8, <1>9, <1>10, <1>11, <1>12
  DEF Next, Ended
\* Every reachable state of a session is typed, whatever it was given.
THEOREM TypedAlways == Spec => []TypeOK
<1>1. Typed => TypeOK
  BY DEF Typed
<1> QED
  BY <1>1, TypedInit, TypedStep, PTL DEF Spec

LEMMA AlwaysTyped == Spec => []Typed
BY TypedInit, TypedStep, PTL DEF Spec

\* The session works where the command line or the shell says, and no .env
\* moves it.
THEOREM AlwaysWhereAsked == Spec => []WorksWhereAsked
<1>1. ASSUME Typed, cwd # None PROVE WorksWhereAsked
  <2>1. cwd = Target /\ flags \in {line, Prepared} /\ DOMAIN line = Keys
    BY <1>1, InputsAssumption DEF Typed, InputsFit, Inputs
  <2>2. Given(ProcessCwd)
    BY InputsAssumption, AbsentAssumption DEF Given
  <2> QED
    BY <2>1, <2>2 DEF WorksWhereAsked, Target, Prepared, Given, Keys
<1>2. Typed => WorksWhereAsked
  BY <1>1 DEF WorksWhereAsked
<1> QED
  BY <1>2, AlwaysTyped, PTL

-----------------------------------------------------------------------------
\* What a session has come to at each stage.
Progress ==
  /\ exit # None <=> stage \in {"done", "killed"}
  /\ stage \in Running => ticket # None
  /\ stage \in {"aim", "args", "intake"} => ticket = None
  /\ stage = "view" => pr # None
  /\ pr # None => stage \in Opened /\ ticket # None
  /\ stage = "report" => status # "none"
  /\ stage \notin {"report", "done", "killed"} => status = "none"
  /\ status = "shipped" => pr # None
  /\ status = "failed" => pr = None
  /\ status = "ready_for_pr" => ticket # None
  /\ exit = 0 => status = "shipped"
  /\ exit = 2 => status = "ready_for_pr"
  /\ exit = 1 /\ stage = "done" => pr = None

LEMMA ProgressStep == Typed /\ Progress /\ [Next]_vars => Progress'
<1> SUFFICES ASSUME Typed, Progress, [Next]_vars PROVE Progress'
  OBVIOUS
<1> USE AbsentAssumption
<1> USE DEF Progress, Typed, TypeOK, Stages, Running, Opened
<1> USE DEF Goto, Refuse, FailRun, given, session, work, outcome
<1>1. CASE Aim
  BY <1>1 DEF Aim
<1>2. CASE ParseArgs
  <2>1. stage = "args" /\ (stage' # "done" => UNCHANGED outcome)
    BY <1>2 DEF ParseArgs
  <2>2. \/ stage' = "intake" /\ UNCHANGED ticket
        \/ stage' = "provision" /\ ticket' \in Tickets
        \/ stage' = "done" /\ exit' = 1 /\ UNCHANGED <<ticket, pr, status>>
    BY <1>2, <2>1, ParsedWell DEF ParseArgs
  <2> QED
    BY <2>1, <2>2
<1>3. CASE IntakeReads
  <2>1. ticket' \in Tickets
    BY <1>3, InputsAssumption DEF IntakeReads, Tickets, Issues
  <2> QED
    BY <1>3, <2>1 DEF IntakeReads
<1>4. CASE IntakeFails \/ Provisions \/ ResolveGates
  BY <1>4 DEF IntakeFails, Provisions, ResolveGates
<1>5. CASE BuildEdits \/ BuildReturns \/ Tests \/ Reviews \/ RunFails
  BY <1>5 DEF BuildEdits, BuildReturns, Tests, Reviews, RunFails
<1>6. CASE ShipFails \/ ShipViewsPr
  BY <1>6 DEF ShipFails, ShipViewsPr
<1>7. CASE ShipOpensPr
  <2>1. tree[cwd] \in Repos
    BY <1>7 DEF ShipOpensPr, ArgsFit
  <2>2. pr' \in PullRequests
    BY <1>7, <2>1 DEF ShipOpensPr, PullRequests
  <2> QED
    BY <1>7, <2>2 DEF ShipOpensPr
<1>8. CASE Exits \/ Killed \/ UNCHANGED vars
  BY <1>8 DEF Exits, ExitCode, Killed, vars
<1>9. ASSUME NEW issue \in Issues, Unlabel(issue) PROVE Progress'
  BY <1>9 DEF Unlabel
<1> QED
  BY <1>1, <1>2, <1>3, <1>4, <1>5, <1>6, <1>7, <1>8, <1>9 DEF Next, Ended

LEMMA ProgressAlways == Spec => []Progress
<1>1. Init => Progress
  BY AbsentAssumption DEF Init, Progress, Running, Opened
<1> QED
  BY <1>1, ProgressStep, AlwaysTyped, PTL DEF Spec

\* The exit code can be relied on, whatever the session was given.
THEOREM ExitAlwaysTells == Spec => []ExitTellsOutcome
<1>1. Progress => ExitTellsOutcome
  BY AbsentAssumption DEF Progress, ExitTellsOutcome
<1> QED
  BY <1>1, ProgressAlways, PTL

-----------------------------------------------------------------------------
\* The gates are the checks of the provisioned tree, all of them scripts of what
\* has been tested; an issue given by its number is one of the tree's repository,
\* which stays what it is, and a pull request is opened there.
GatesKept ==
  /\ stage \in {"build", "test", "review", "ship", "view"} =>
       gates = Gates(provisioned)
  /\ stage \in {"review", "ship", "view"} => gates \subseteq scripts[cwd]
  /\ pr # None => Gates(provisioned) \subseteq scripts[cwd]

OwnIssue ==
  ticket # None /\ ticket.issue # None =>
    /\ args.issue.repo # None => ticket.issue = <<args.issue.repo, ticket.id>>
    /\ args.issue.repo = None =>
         tree[cwd] # None /\ ticket.issue = <<tree[cwd], ticket.id>>
    /\ ticket.id \in Numbers
    /\ pr # None => <<pr.repo, pr.closes>> = <<tree[cwd], ticket.id>>

Keeps == GatesKept /\ OwnIssue

LEMMA KeepsStep == Typed /\ Progress /\ Keeps /\ [Next]_vars => Keeps'
<1> SUFFICES ASSUME Typed, Progress, Keeps, [Next]_vars PROVE Keeps'
  OBVIOUS
<1> USE AbsentAssumption
<1> USE DEF Keeps, GatesKept, OwnIssue, Typed, TypeOK, Progress, Stages, Running,
            Opened
<1> USE DEF Goto, Refuse, FailRun, given, session, work, outcome
<1>1. CASE Aim
  BY <1>1 DEF Aim
<1>2. CASE ParseArgs
  BY <1>2, ParsedWell DEF ParseArgs
<1>3. CASE IntakeReads
  <2>1. ticket' \in Tickets /\ ticket'.issue \in Repos \X Numbers
    BY <1>3, InputsAssumption DEF IntakeReads, Tickets, Issues
  <2> QED
    BY <1>3, <2>1 DEF IntakeReads, RepoOfRef, Issues
<1>4. CASE IntakeFails \/ RunFails
  BY <1>4 DEF IntakeFails, RunFails
<1>5. CASE Provisions
  BY <1>5 DEF Provisions, NeedsClone
<1>6. CASE ResolveGates
  BY <1>6 DEF ResolveGates
<1>7. CASE BuildEdits
  BY <1>7 DEF BuildEdits
<1>8. CASE BuildReturns \/ Tests \/ Reviews
  BY <1>8 DEF BuildReturns, Tests, GatesOfTest, Reviews
<1>9. CASE ShipFails \/ ShipViewsPr
  BY <1>9 DEF ShipFails, ShipViewsPr
<1>10. CASE ShipOpensPr
  BY <1>10 DEF ShipOpensPr
<1>11. CASE Exits \/ Killed \/ UNCHANGED vars
  BY <1>11 DEF Exits, Killed, vars
<1>12. ASSUME NEW issue \in Issues, Unlabel(issue) PROVE Keeps'
  BY <1>12 DEF Unlabel
<1> QED
  BY <1>1, <1>2, <1>3, <1>4, <1>5, <1>6, <1>7, <1>8, <1>9, <1>10, <1>11, <1>12
  DEF Next, Ended

LEMMA KeepsAlways == Spec => []Keeps
<1>1. Init => Keeps
  BY DEF Init, Keeps, GatesKept, OwnIssue
<1> QED
  BY <1>1, KeepsStep, AlwaysTyped, ProgressAlways, PTL DEF Spec

\* Build cannot drop a check, whatever the scripts and their categories are.
THEOREM ChecksAlwaysKept == Spec => []KeepsItsChecks
<1>1. Keeps => KeepsItsChecks
  BY DEF Keeps, GatesKept, KeepsItsChecks
<1> QED
  BY <1>1, KeepsAlways, PTL

\* An issue given by its number, or by its URL in the repository of the tree, is
\* closed by the pull request of its own run.
THEOREM BareIssueAlwaysOwn == Spec => []BareIssueIsItsOwn
<1>1. Keeps /\ Progress => BareIssueIsItsOwn
  BY DEF Keeps, OwnIssue, Progress, BareIssueIsItsOwn
<1> QED
  BY <1>1, KeepsAlways, ProgressAlways, PTL

-----------------------------------------------------------------------------
\* Gates, for any categories and any scripts.
NamesOf(category) == {category[i] : i \in DOMAIN category}

\* Of the names of a category that are there, one comes first.
LEMMA FirstName ==
  ASSUME NEW category \in Categories, NEW names,
         NamesOf(category) \cap names # {}
  PROVE  \E i \in DOMAIN category :
           /\ category[i] \in names
           /\ \A j \in 1..(i - 1) : category[j] \notin names
<1> DEFINE There == {i \in DOMAIN category : category[i] \in names}
           Less == OpToRel(<, Nat)
<1>1. DOMAIN category = 1..Len(category) /\ Len(category) \in Nat
  BY CategoriesAssumption
<1>2. There # {} /\ There \subseteq Nat
  BY <1>1 DEF NamesOf
<1>3. IsWellFoundedOn(Less, Nat)
  BY NatLessThanWellFounded
<1> HIDE DEF Less
<1>4. PICK i \in There : \A j \in There : ~(<<j, i>> \in Less)
  BY <1>2, <1>3, WFMin
<1>5. \A j \in There : ~(j < i)
  BY <1>2, <1>4 DEF Less, OpToRel
<1> QED
  BY <1>1, <1>4, <1>5

\* No category is missed: where a package.json has scripts of one, a script of it
\* is a gate, and gates are scripts it has (resolvePackageJsonTestCommands).
THEOREM EveryCategoryGated ==
  \A names : /\ Gates(names) \subseteq names
             /\ \A category \in Categories :
                  NamesOf(category) \cap names # {}
                    => NamesOf(category) \cap Gates(names) # {}
<1> SUFFICES ASSUME NEW names, NEW category \in Categories,
                    NamesOf(category) \cap names # {}
             PROVE  NamesOf(category) \cap Gates(names) # {}
  BY DEF Gates
<1>1. PICK i \in DOMAIN category :
        /\ category[i] \in names
        /\ \A j \in 1..(i - 1) : category[j] \notin names
  BY FirstName
<1>2. category[i] \in Gates(names) /\ category[i] \in NamesOf(category)
  BY <1>1 DEF Gates, NamesOf
<1> QED
  BY <1>2

\* What a pull request is opened for has a check of each category that the
\* provisioned tree had one of, whatever Build did to package.json.
THEOREM NoCategoryLost ==
  Spec => [](pr # None =>
               \A category \in Categories :
                 NamesOf(category) \cap provisioned # {}
                   => NamesOf(category) \cap scripts[cwd] # {})
<1>1. KeepsItsChecks =>
        (pr # None =>
           \A category \in Categories :
             NamesOf(category) \cap provisioned # {}
               => NamesOf(category) \cap scripts[cwd] # {})
  BY EveryCategoryGated DEF KeepsItsChecks
<1> QED
  BY <1>1, ChecksAlwaysKept, PTL
=============================================================================
