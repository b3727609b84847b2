------------------------- MODULE TicketForge_proofs -------------------------
(***************************************************************************)
(* Proofs about TicketForge, for every value of its constants: any number  *)
(* of tickets, runs and edits, with or without faults.                     *)
(***************************************************************************)
EXTENDS TicketForge, TLAPS

LEMMA TypedInit == Init => TypeOK
<1> SUFFICES ASSUME Init PROVE TypeOK
  OBVIOUS
<1> USE EditsAssumption DEF Init, TypeOK
<1>1. headOn \in Branches /\ stage \in [Runs -> Stages]
  BY DEF Branches, Stages
<1>2. edits \in [Runs -> 0..MaxEdits]
  OBVIOUS
<1> QED
  BY <1>1, <1>2 DEF Clones

LEMMA BranchFacts == \A r \in Runs : BranchOf(r) = TicketOf[r] /\ TicketOf[r] \in Tickets
BY TicketOfAssumption DEF BranchOf, TicketBranch

\* A command that is cut short leaves worktree and forge typed, takes nothing off
\* the forge, and leaves other branches than its ticket's alone there.
LEMMA CutShortTyped ==
  ASSUME TypeOK, NEW r \in Runs, CutShort(r)
  PROVE  /\ worktree' \in Clones /\ headOn' \in Branches
         /\ local' \in [Branches -> SUBSET Changes]
         /\ dirt' \in SUBSET Changes /\ installed' \in BOOLEAN
         /\ remote' \in [Branches -> SUBSET Changes]
         /\ pr' \in [Tickets -> {"none", "open", "merged", "closed"}]
<1> USE BranchFacts DEF TypeOK, Branches
<1>1. CASE UNCHANGED <<repo, forge>>
  BY <1>1 DEF repo, forge
<1>2. CASE CloneCut /\ UNCHANGED forge
  BY <1>2 DEF CloneCut, forge
<1>3. CASE MakeBranch(r) /\ UNCHANGED forge
  BY <1>3 DEF MakeBranch, Clones, forge
<1>4. CASE CommitDirt /\ UNCHANGED forge
  BY <1>4 DEF CommitDirt, forge
<1> QED
  BY <1>1, <1>2, <1>3, <1>4 DEF CutShort, Clones, repo, forge

LEMMA CutShortForge ==
  ASSUME TypeOK, NEW r \in Runs, CutShort(r)
  PROVE  /\ \A b \in Branches : remote[b] \subseteq remote'[b]
         /\ \A b \in Branches \ {BranchOf(r)} : remote'[b] = remote[b]
         /\ stage[r] # "push" => UNCHANGED remote
         /\ remote' # remote =>
              remote' = [remote EXCEPT ![BranchOf(r)] = local[BranchOf(r)]]
         /\ \A t \in Tickets : pr[t] # "none" => pr'[t] # "none"
         /\ \A t \in Tickets \ {TicketOf[r]} : pr'[t] = pr[t]
         /\ stage[r] \notin {"clone", "checkout", "install", "commit"} => UNCHANGED repo
BY BranchFacts
DEF CutShort, FastForward, TypeOK, Branches, CloneCut, MakeBranch, CommitDirt,
    repo, forge

LEMMA TypedStep == TypeOK /\ [Next]_vars => TypeOK'
<1> SUFFICES ASSUME TypeOK, [Next]_vars PROVE TypeOK'
  OBVIOUS
<1> USE DEF TypeOK, Branches
<1>1. ASSUME NEW r \in Runs,
             \/ Start(r) \/ ReuseWorktree(r) \/ NoWorktree(r) \/ FindLockfile(r)
             \/ Preflight(r) \/ PreflightFails(r)
      PROVE  TypeOK'
  BY <1>1
  DEF Start, ReuseWorktree, NoWorktree, FindLockfile, Preflight,
      PreflightFails, Goes, KeepsNotes, Stages, Provisioning, Ended, repo, forge
<1>2. ASSUME NEW r \in Runs, Clone(r) PROVE TypeOK'
  BY <1>2 DEF Clone, Clones, Goes, KeepsNotes, Stages, Provisioning, forge
<1>3. ASSUME NEW r \in Runs, Checkout(r) PROVE TypeOK'
  BY <1>3, BranchFacts
  DEF Checkout, MakeBranch, Clones, Goes, KeepsNotes, Stages, Provisioning, forge
<1>4. ASSUME NEW r \in Runs, Install(r) PROVE TypeOK'
  BY <1>4 DEF Install, Goes, KeepsNotes, Stages, Provisioning, forge
<1>5. ASSUME NEW r \in Runs, BuildEdits(r) PROVE TypeOK'
  <2>1. edits[r] + 1 \in 1..MaxEdits
    BY <1>5, EditsAssumption DEF BuildEdits
  <2>2. <<r, edits[r] + 1>> \in Changes
    BY <2>1 DEF Changes, RunChanges
  <2> QED
    BY <1>5, <2>1, <2>2, EditsAssumption DEF BuildEdits, forge
<1>6. ASSUME NEW r \in Runs,
             BuildCommits(r) \/ BuildStrays(r) \/ ReviewPasses(r) \/ WorkFails(r)
      PROVE  TypeOK'
  BY <1>6
  DEF BuildCommits, CommitDirt, BuildStrays, ReviewPasses, WorkFails, Goes,
      KeepsNotes, Stages, Shipping, Ended, repo, forge, run
<1>7. ASSUME NEW r \in Runs,
             ShipCommits(r) \/ Push(r) \/ PushRejected(r) \/ OpenPr(r)
               \/ OpenRefused(r) \/ ViewPr(r)
      PROVE  TypeOK'
  BY <1>7, BranchFacts
  DEF ShipCommits, CommitDirt, Push, PushRejected, OpenPr, OpenRefused, ViewPr,
      Goes, KeepsNotes, Stages, Shipping, Ended, repo, forge
<1>8. ASSUME NEW r \in Runs, ShipFaults(r) PROVE TypeOK'
  BY <1>8, CutShortTyped DEF ShipFaults, Goes, Stages, Shipping, Ended
<1>9. ASSUME NEW r \in Runs, ProvisionFails(r) \/ Aborts(r) PROVE TypeOK'
  BY <1>9, CutShortTyped
  DEF ProvisionFails, Aborts, Goes, KeepsNotes, Stages, Ended
<1>10. CASE OperatorCleans
  BY <1>10 DEF OperatorCleans, Clones, forge, run
<1>11. ASSUME NEW t \in Tickets, Engineer(t) PROVE TypeOK'
  <2>1. <<t, 0>> \in Changes
    BY DEF Changes
  <2> QED
    BY <1>11, <2>1
    DEF Engineer, EngineerMerges, EngineerCloses, EngineerPushes, repo, run
<1>12. CASE UNCHANGED vars
  BY <1>12 DEF vars, repo, forge, run
<1> QED
  BY <1>1, <1>2, <1>3, <1>4, <1>5, <1>6, <1>7, <1>8, <1>9, <1>10, <1>11, <1>12
  DEF Next, Provision, Work, Ship

\* Every reachable state of worktree, forge and runs is typed.
THEOREM TypedAlways == Spec => []TypeOK
BY TypedInit, TypedStep, PTL DEF Spec

-----------------------------------------------------------------------------
LEMMA GrowsStep ==
  TypeOK /\ [Next]_vars => \A b \in Branches : remote[b] \subseteq remote'[b]
<1> SUFFICES ASSUME TypeOK, [Next]_vars
             PROVE  \A b \in Branches : remote[b] \subseteq remote'[b]
  OBVIOUS
<1> USE DEF TypeOK, Branches
<1>1. ASSUME NEW r \in Runs,
             Push(r) \/ ShipFaults(r) \/ ProvisionFails(r) \/ Aborts(r)
      PROVE  \A b \in Branches : remote[b] \subseteq remote'[b]
  BY <1>1, BranchFacts, CutShortForge
  DEF Push, ShipFaults, ProvisionFails, Aborts, FastForward
<1>2. ASSUME NEW t \in Tickets, Engineer(t)
      PROVE  \A b \in Branches : remote[b] \subseteq remote'[b]
  BY <1>2 DEF Engineer, EngineerMerges, EngineerCloses, EngineerPushes
<1>3. ASSUME NEW r \in Runs,
             \/ Provision(r) /\ ~ProvisionFails(r)
             \/ Work(r) \/ ShipCommits(r) \/ PushRejected(r)
             \/ OpenPr(r) \/ OpenRefused(r) \/ ViewPr(r)
      PROVE  UNCHANGED remote
  BY <1>3
  DEF Provision, Start, ReuseWorktree, NoWorktree, Clone, Checkout,
      FindLockfile, Install, Preflight, PreflightFails, Work, BuildEdits,
      BuildCommits, BuildStrays, ReviewPasses, WorkFails, ShipCommits,
      PushRejected, OpenPr, OpenRefused, ViewPr, forge
<1>4. OperatorCleans \/ UNCHANGED vars => UNCHANGED remote
  BY DEF OperatorCleans, vars, forge
<1> QED
  BY <1>1, <1>2, <1>3, <1>4 DEF Next, Ship

\* No step of any run, of whatever history, takes a commit off the forge.
THEOREM ForgeOnlyGrows == Spec => RemoteOnlyGrows
<1>1. TypeOK /\ [Next]_vars => [\A b \in Branches : remote[b] \subseteq remote'[b]]_vars
  BY GrowsStep
<1> QED
  BY <1>1, TypedAlways, PTL DEF Spec, RemoteOnlyGrows

-----------------------------------------------------------------------------
\* Where a run is, and what holds there: there is one at a time, it is on its
\* ticket's branch from the checkout on, and agents find the install done.
OnBranch == {"lockfile", "install", "preflight", "work"} \union Shipping

OneAtATime ==
  \A r, s \in Runs : InProgress(r) /\ InProgress(s) => r = s

OnItsBranch ==
  \A r \in Runs \ strayed : stage[r] \in OnBranch => headOn = BranchOf(r)

\* The checkout has not let half a clone through: what it passes is a full one,
\* or one without a commit, where no file is found.
CloneWhole ==
  \A r \in Runs :
    /\ stage[r] = "checkout" => worktree # "empty"
    /\ stage[r] \in OnBranch => worktree \in {"noCommit", "full"}
    /\ stage[r] = "work" => worktree = "full"

InstallDone ==
  \A r \in Runs :
    stage[r] \in {"preflight", "work"} /\ HasLockfile /\ worktree = "full"
      => installed

Course == OneAtATime /\ OnItsBranch /\ CloneWhole /\ InstallDone

LEMMA CourseInit == Init => Course
BY DEF Init, Course, OneAtATime, OnItsBranch, CloneWhole, InstallDone, InProgress,
       OnBranch, Shipping

\* A run that is cut short is the only one under way, and ends.
Stops(r) == ShipFaults(r) \/ ProvisionFails(r) \/ Aborts(r)

LEMMA StopsFacts ==
  ASSUME TypeOK, OneAtATime, NEW r \in Runs, Stops(r)
  PROVE  /\ CutShort(r) /\ InProgress(r)
         /\ stage'[r] \in {"ready", "failed", "aborted"}
         /\ \A s \in Runs \ {r} : stage'[s] = stage[s]
         /\ \A s \in Runs : ~InProgress(s)'
         /\ UNCHANGED <<edits, vetted, prUrl, strayed, unclean>>
         /\ faulted \subseteq faulted'
         /\ stage'[r] = "ready" => r \in faulted'
BY DEF Stops, ShipFaults, ProvisionFails, Aborts, OneAtATime, InProgress, Ended,
       Goes, KeepsNotes, Provisioning, Shipping, TypeOK

\* A run that ends or goes on changes only its own stage.
LEMMA CourseStep == TypeOK /\ Course /\ [Next]_vars => Course'
<1> SUFFICES ASSUME TypeOK, Course, [Next]_vars PROVE Course'
  OBVIOUS
<1> USE DEF TypeOK, Course, OneAtATime, OnItsBranch, CloneWhole, InstallDone
<1> USE DEF InProgress, OnBranch, Shipping, Ended
<1>1. ASSUME NEW r \in Runs, Start(r) PROVE Course'
  BY <1>1 DEF Start, Idle, Goes, repo, forge
<1>2. ASSUME NEW r \in Runs,
             ReuseWorktree(r) \/ NoWorktree(r) \/ PreflightFails(r) \/ Preflight(r)
      PROVE  Course'
  BY <1>2
  DEF ReuseWorktree, NoWorktree, PreflightFails, Preflight, HasFiles,
      Provisioning, Goes, KeepsNotes, repo, forge
<1>3. ASSUME NEW r \in Runs, Clone(r) PROVE Course'
  BY <1>3 DEF Clone, Goes, KeepsNotes, forge
<1>4. ASSUME NEW r \in Runs, Checkout(r) PROVE Course'
  <2>1. headOn' = BranchOf(r)' /\ worktree' \in {"noCommit", "full"}
    BY <1>4
    DEF Checkout, MakeBranch, Clones, Goes, BranchOf, TicketBranch
  <2> QED
    BY <1>4, <2>1 DEF Checkout, Goes, KeepsNotes, forge
<1>5. ASSUME NEW r \in Runs, FindLockfile(r) \/ Install(r) PROVE Course'
  BY <1>5 DEF FindLockfile, Install, HasFiles, Goes, KeepsNotes, repo, forge
<1>6. ASSUME NEW r \in Runs, BuildEdits(r) \/ BuildCommits(r) PROVE Course'
  BY <1>6 DEF BuildEdits, BuildCommits, CommitDirt, run, forge
<1>7. ASSUME NEW r \in Runs, BuildStrays(r) PROVE Course'
  BY <1>7 DEF BuildStrays, forge
<1>8. ASSUME NEW r \in Runs, ReviewPasses(r) \/ WorkFails(r) PROVE Course'
  BY <1>8 DEF ReviewPasses, WorkFails, Goes, KeepsNotes, repo, forge
<1>9. ASSUME NEW r \in Runs, Ship(r), ~ShipFaults(r) PROVE Course'
  BY <1>9
  DEF Ship, ShipCommits, CommitDirt, Push, PushRejected, OpenPr, OpenRefused,
      ViewPr, Goes, KeepsNotes, repo, forge
\* No other run is under way when one is cut short, so that nobody goes on in
\* the worktree it leaves.
\* No other run is under way, so that nobody goes on in the worktree it leaves.
<1>10. ASSUME NEW r \in Runs, Stops(r) PROVE Course'
  <2>1. \A s \in Runs : ~InProgress(s)'
    BY <1>10, StopsFacts
  <2> QED
    BY <2>1
<1>11. CASE OperatorCleans
  BY <1>11 DEF OperatorCleans, Idle, run, forge
<1>12. ASSUME NEW t \in Tickets, Engineer(t) PROVE Course'
  BY <1>12 DEF Engineer, EngineerMerges, EngineerCloses, EngineerPushes, repo, run
<1>13. CASE UNCHANGED vars
  BY <1>13 DEF vars, repo, run
<1> QED
  BY <1>1, <1>2, <1>3, <1>4, <1>5, <1>6, <1>7, <1>8, <1>9, <1>10, <1>11, <1>12,
     <1>13
  DEF Next, Provision, Work, Stops

LEMMA CourseAlways == Spec => []Course
BY TypedAlways, CourseInit, CourseStep, PTL DEF Spec

\* No agent is started on half a clone or without the locked install, at
\* whatever step of whatever earlier run a command failed or was killed.
THEOREM AgentsFindSetup == Spec => []SetupBeforeBuild
<1>1. Course => SetupBeforeBuild
  BY DEF Course, OnItsBranch, CloneWhole, InstallDone, OnBranch, SetupBeforeBuild
<1> QED
  BY <1>1, CourseAlways, PTL

-----------------------------------------------------------------------------
\* How far the change that Review passed has come. A run that left its ticket's
\* branch is out of account.
Carried(r) ==
  /\ stage[r] = "commit" => vetted[r] \subseteq local[BranchOf(r)] \union dirt
  /\ stage[r] = "push" => vetted[r] \subseteq local[BranchOf(r)]
  /\ stage[r] \in {"openPr", "viewPr", "shipped"} =>
       vetted[r] \subseteq remote[BranchOf(r)]
  /\ stage[r] \in {"viewPr", "shipped"} => pr[TicketOf[r]] # "none"
  /\ stage[r] = "shipped" => prUrl[r] = TicketOf[r]

AllCarried == \A r \in Runs \ strayed : Carried(r)

\* A run whose own stage, change and URL stay keeps what it has carried if no
\* other run's commits are taken away from it.
LEMMA CarriedStays ==
  ASSUME TypeOK, NEW r \in Runs, Carried(r),
         stage'[r] = stage[r], vetted'[r] = vetted[r], prUrl'[r] = prUrl[r],
         pr[TicketOf[r]] # "none" => pr'[TicketOf[r]] # "none",
         remote[BranchOf(r)] \subseteq remote'[BranchOf(r)],
         stage[r] \in {"commit", "push"} => UNCHANGED <<local, dirt>>
  PROVE  Carried(r)'
BY DEF Carried, BranchOf, TicketBranch

LEMMA CarriedStep == TypeOK /\ Course /\ AllCarried /\ [Next]_vars => AllCarried'
<1> SUFFICES ASSUME TypeOK, Course, AllCarried, [Next]_vars,
                    NEW s \in Runs, s \notin strayed'
             PROVE  Carried(s)'
  BY DEF AllCarried
<1> USE DEF TypeOK, AllCarried
<1>0. remote[BranchOf(s)] \subseteq remote'[BranchOf(s)]
  BY GrowsStep, BranchFacts DEF Branches
<1>1. ASSUME NEW r \in Runs, Provision(r), ~ProvisionFails(r) PROVE Carried(s)'
  <2>1. /\ stage'[r] \in Provisioning \union {"preflight", "work", "failed"}
        /\ s # r => stage'[s] = stage[s]
        /\ UNCHANGED <<vetted, prUrl, pr, strayed>>
    BY <1>1
    DEF Provision, Start, ReuseWorktree, NoWorktree, Clone, Checkout,
        FindLockfile, Install, Preflight, PreflightFails, Goes, KeepsNotes,
        Provisioning, forge
  <2>2. CASE s = r
    BY <2>1, <2>2 DEF Carried, Provisioning
  <2>3. CASE s # r
    <3>1. stage[s] \in {"commit", "push"} => UNCHANGED <<local, dirt>>
      BY <1>1, <2>3
      DEF Course, OneAtATime, InProgress, Ended, Idle, Provision, Start,
          ReuseWorktree, NoWorktree, Clone, Checkout, FindLockfile, Install,
          Preflight, PreflightFails, Goes, Provisioning, repo
    <3> QED
      BY <1>0, <2>1, <2>3, <3>1, CarriedStays
  <2> QED
    BY <2>2, <2>3
<1>2. ASSUME NEW r \in Runs, BuildEdits(r) \/ BuildCommits(r) \/ BuildStrays(r)
      PROVE  Carried(s)'
  <2>1. /\ stage[r] = "work" /\ s \notin strayed
        /\ UNCHANGED <<stage, vetted, prUrl, pr>>
    BY <1>2 DEF BuildEdits, BuildCommits, BuildStrays, run, forge
  <2>2. stage[s] \notin {"commit", "push"}
    BY <2>1 DEF Course, OneAtATime, InProgress, Ended
  <2> QED
    BY <1>0, <2>1, <2>2, CarriedStays
<1>3. ASSUME NEW r \in Runs, ReviewPasses(r) \/ WorkFails(r) PROVE Carried(s)'
  <2>1. CASE s = r
    BY <1>3, <2>1, BranchFacts
    DEF ReviewPasses, WorkFails, Goes, KeepsNotes, repo, forge, Carried, Course,
        OnItsBranch, OnBranch, BranchOf, TicketBranch
  <2>2. CASE s # r
    <3>1. /\ stage'[s] = stage[s] /\ vetted'[s] = vetted[s] /\ s \notin strayed
          /\ UNCHANGED <<prUrl, pr, local, dirt>>
      BY <1>3, <2>2 DEF ReviewPasses, WorkFails, Goes, KeepsNotes, repo, forge
    <3> QED
      BY <1>0, <3>1, CarriedStays
  <2> QED
    BY <2>1, <2>2
<1>4. ASSUME NEW r \in Runs, Ship(r), ~ShipFaults(r) PROVE Carried(s)'
  <2>0. s \notin strayed /\ stage[r] \in Shipping
    BY <1>4
    DEF Ship, ShipCommits, Push, PushRejected, OpenPr, OpenRefused, ViewPr,
        Goes, KeepsNotes, Shipping
  <2>1. CASE s # r
    <3>1. stage[s] \notin {"commit", "push"}
      BY <2>0, <2>1 DEF Course, OneAtATime, InProgress, Ended, Shipping
    <3>2. stage'[s] = stage[s] /\ vetted'[s] = vetted[s] /\ prUrl'[s] = prUrl[s]
      BY <1>4, <2>1
      DEF Ship, ShipCommits, Push, PushRejected, OpenPr, OpenRefused, ViewPr,
          Goes, KeepsNotes
    <3>3. pr[TicketOf[s]] # "none" => pr'[TicketOf[s]] # "none"
      BY <1>4, TicketOfAssumption
      DEF Ship, ShipCommits, Push, PushRejected, OpenPr, OpenRefused, ViewPr,
          forge
    <3> QED
      BY <1>0, <2>0, <3>1, <3>2, <3>3, CarriedStays
  <2>2. CASE s = r /\ ShipCommits(r)
    BY <2>0, <2>2, BranchFacts
    DEF ShipCommits, CommitDirt, Goes, KeepsNotes, Carried, Course, OnItsBranch,
        OnBranch, Shipping, BranchOf, TicketBranch, Branches
  <2>3. CASE s = r /\ Push(r)
    BY <2>0, <2>3, BranchFacts
    DEF Push, Goes, KeepsNotes, Carried, repo, BranchOf, TicketBranch, Branches
  <2>4. CASE s = r /\ OpenPr(r)
    BY <2>0, <2>4, TicketOfAssumption
    DEF OpenPr, Goes, KeepsNotes, Carried, repo, BranchOf, TicketBranch
  <2>5. CASE s = r /\ ViewPr(r)
    BY <2>0, <2>5, BranchFacts
    DEF ViewPr, Goes, Carried, Course, OnItsBranch, OnBranch, Shipping, repo,
        forge, BranchOf, TicketBranch
  <2>6. CASE s = r /\ (PushRejected(r) \/ OpenRefused(r))
    BY <2>6 DEF PushRejected, OpenRefused, Goes, Carried
  <2> QED
    BY <1>4, <2>1, <2>2, <2>3, <2>4, <2>5, <2>6 DEF Ship
<1>5. ASSUME NEW r \in Runs, Stops(r) PROVE Carried(s)'
  <2>0. Course => OneAtATime
    BY DEF Course
  <2>1. CASE s = r
    BY <1>5, <2>0, <2>1, StopsFacts DEF Carried
  <2>2. CASE s # r
    <3>1. /\ stage'[s] = stage[s] /\ ~InProgress(s)' /\ s \notin strayed
          /\ UNCHANGED <<vetted, prUrl>>
      BY <1>5, <2>0, <2>2, StopsFacts
    <3>2. stage[s] \notin {"commit", "push"}
      BY <3>1 DEF InProgress, Ended
    <3>3. pr[TicketOf[s]] # "none" => pr'[TicketOf[s]] # "none"
      BY <1>5, <2>0, StopsFacts, CutShortForge, TicketOfAssumption
    <3> QED
      BY <1>0, <3>1, <3>2, <3>3, CarriedStays
  <2> QED
    BY <2>1, <2>2
<1>6. CASE OperatorCleans
  <2>1. /\ UNCHANGED <<stage, vetted, prUrl, pr, strayed>>
        /\ stage[s] \notin {"commit", "push"}
    BY <1>6 DEF OperatorCleans, Idle, InProgress, Ended, run, forge
  <2> QED
    BY <1>0, <2>1, CarriedStays
<1>7. ASSUME NEW t \in Tickets, Engineer(t) PROVE Carried(s)'
  <2>1. /\ UNCHANGED <<stage, vetted, prUrl, strayed, local, dirt>>
        /\ pr[TicketOf[s]] # "none" => pr'[TicketOf[s]] # "none"
    BY <1>7, TicketOfAssumption
    DEF Engineer, EngineerMerges, EngineerCloses, EngineerPushes, repo, run
  <2> QED
    BY <1>0, <2>1, CarriedStays
<1>8. CASE UNCHANGED vars
  <2>1. UNCHANGED <<stage, vetted, prUrl, strayed, pr, local, dirt>>
    BY <1>8 DEF vars, repo, forge, run
  <2> QED
    BY <1>0, <2>1, CarriedStays
<1> QED
  BY <1>1, <1>2, <1>3, <1>4, <1>5, <1>6, <1>7, <1>8
  DEF Next, Provision, Work, Ship, Stops

-----------------------------------------------------------------------------
\* The other way round: what a run ships has been passed, while no agent leaves
\* its branch. Before its Review a run has passed nothing, so that Review takes
\* no earlier verdict back.
BeforeReview == {"waiting", "preflight", "work"} \union Provisioning

NothingPassed == \A r \in Runs : stage[r] \in BeforeReview => vetted[r] = {}

PassedAll(r) ==
  /\ stage[r] = "commit" => local[BranchOf(r)] \union dirt \subseteq vetted[r]
  /\ stage[r] = "push" => local[BranchOf(r)] \subseteq vetted[r]

NoneUnvetted == \A b \in Branches : \A c \in remote[b] : ~Unvetted(c)

OnlyPassed ==
  /\ NothingPassed
  /\ strayed = {} => NoneUnvetted /\ \A r \in Runs : PassedAll(r)

LEMMA NothingPassedStep ==
  TypeOK /\ NothingPassed /\ [Next]_vars
    => NothingPassed' /\ \A r \in Runs : vetted[r] \subseteq vetted'[r]
<1> SUFFICES ASSUME TypeOK, NothingPassed, [Next]_vars
             PROVE  NothingPassed' /\ \A r \in Runs : vetted[r] \subseteq vetted'[r]
  OBVIOUS
<1> DEFINE Goal == NothingPassed' /\ \A r \in Runs : vetted[r] \subseteq vetted'[r]
<1> USE DEF TypeOK, NothingPassed, BeforeReview, Provisioning
<1>1. ASSUME NEW r \in Runs, Provision(r) PROVE Goal
  <2>1. /\ stage[r] \in BeforeReview /\ UNCHANGED vetted
        /\ \A s \in Runs \ {r} : stage'[s] = stage[s]
    BY <1>1
    DEF Provision, Start, ReuseWorktree, NoWorktree, Clone, Checkout,
        FindLockfile, Install, ProvisionFails, Preflight, PreflightFails, Goes,
        KeepsNotes
  <2> QED
    BY <2>1
<1>2. ASSUME NEW r \in Runs, Work(r) PROVE Goal
  BY <1>2
  DEF Work, BuildEdits, BuildCommits, BuildStrays, ReviewPasses, WorkFails, Goes,
      KeepsNotes, run
<1>3. ASSUME NEW r \in Runs, Ship(r) \/ Aborts(r) PROVE Goal
  <2>1. /\ UNCHANGED vetted
        /\ stage'[r] \in Shipping \union Ended
        /\ \A s \in Runs \ {r} : stage'[s] = stage[s]
    BY <1>3
    DEF Ship, ShipCommits, Push, PushRejected, OpenPr, OpenRefused, ViewPr,
        ShipFaults, Aborts, Goes, KeepsNotes, Shipping, Ended
  <2> QED
    BY <2>1 DEF Shipping, Ended
<1>4. ASSUME NEW t \in Tickets, Engineer(t) PROVE UNCHANGED run
  BY <1>4 DEF Engineer, EngineerMerges, EngineerCloses, EngineerPushes
<1>5. OperatorCleans \/ UNCHANGED vars => UNCHANGED run
  BY DEF OperatorCleans, vars
<1> QED
  BY <1>1, <1>2, <1>3, <1>4, <1>5 DEF Next, run

\* What has passed stays passed, so the forge may gain what a run has passed and
\* what engineers wrote.
LEMMA NoneUnvettedStays ==
  ASSUME NoneUnvetted, \A r \in Runs : vetted[r] \subseteq vetted'[r],
         \A b \in Branches : \A c \in remote'[b] :
           \/ \E a \in Branches : c \in remote[a]
           \/ \E r \in Runs : c \in vetted[r]
           \/ c \notin RunChanges
  PROVE  NoneUnvetted'
BY DEF NoneUnvetted, Unvetted, RunChanges

LEMMA OnlyPassedStep == TypeOK /\ Course /\ OnlyPassed /\ [Next]_vars => OnlyPassed'
<1> SUFFICES ASSUME TypeOK, Course, OnlyPassed, [Next]_vars, strayed' = {}
             PROVE  NoneUnvetted' /\ \A r \in Runs : PassedAll(r)'
  BY NothingPassedStep DEF OnlyPassed
<1> DEFINE Goal == NoneUnvetted' /\ \A r \in Runs : PassedAll(r)'
<1>0. \A r \in Runs : vetted[r] \subseteq vetted'[r]
  BY NothingPassedStep DEF OnlyPassed
<1>1. strayed = {}
  <2>1. ASSUME NEW r \in Runs, Provision(r) \/ Aborts(r) PROVE UNCHANGED strayed
    BY <2>1
    DEF Provision, Start, ReuseWorktree, NoWorktree, Clone, Checkout,
        FindLockfile, Install, ProvisionFails, Preflight, PreflightFails, Aborts,
        KeepsNotes
  <2>2. ASSUME NEW r \in Runs, Work(r) \/ Ship(r) PROVE strayed \subseteq strayed'
    BY <2>2
    DEF Work, BuildEdits, BuildCommits, BuildStrays, ReviewPasses, WorkFails,
        Ship, ShipCommits, Push, PushRejected, OpenPr, OpenRefused, ViewPr,
        ShipFaults, KeepsNotes, run
  <2>3. ASSUME NEW t \in Tickets, Engineer(t) PROVE UNCHANGED run
    BY <2>3 DEF Engineer, EngineerMerges, EngineerCloses, EngineerPushes
  <2>4. OperatorCleans \/ UNCHANGED vars => UNCHANGED run
    BY DEF OperatorCleans, vars
  <2> QED
    BY <2>1, <2>2, <2>3, <2>4 DEF Next, run
<1>2. NoneUnvetted /\ \A r \in Runs : PassedAll(r)
  BY <1>1 DEF OnlyPassed
<1> USE DEF TypeOK, PassedAll
\* Steps of one run that leave the forge alone, and that another run's passed
\* delta does not see because no other run is under way.
<1>3. ASSUME NEW r \in Runs, stage[r] \notin Ended \union {"waiting"},
             UNCHANGED remote, \A s \in Runs \ {r} : stage'[s] = stage[s],
             PassedAll(r)'
      PROVE  Goal
  <2>1. NoneUnvetted'
    BY <1>0, <1>2, <1>3, NoneUnvettedStays
  <2>2. ASSUME NEW s \in Runs, s # r PROVE stage'[s] \notin {"commit", "push"}
    BY <1>3, <2>2 DEF Course, OneAtATime, InProgress, Ended
  <2> QED
    BY <1>3, <2>1, <2>2
<1>4. ASSUME NEW r \in Runs, Start(r) PROVE Goal
  <2>1. UNCHANGED remote /\ \A s \in Runs : stage'[s] \notin {"commit", "push"}
    BY <1>4 DEF Start, Goes, Idle, InProgress, Ended, forge
  <2> QED
    BY <1>0, <1>2, <2>1, NoneUnvettedStays
<1>5. ASSUME NEW r \in Runs, Provision(r), ~Start(r), ~ProvisionFails(r)
      PROVE  Goal
  <2>1. /\ stage[r] \in Provisioning \union {"preflight"}
        /\ stage'[r] \in Provisioning \union {"preflight", "work", "failed"}
        /\ UNCHANGED remote /\ \A s \in Runs \ {r} : stage'[s] = stage[s]
    BY <1>5
    DEF Provision, ReuseWorktree, NoWorktree, Clone, Checkout,
        FindLockfile, Install, Preflight, PreflightFails, Goes, Provisioning,
        forge
  <2> QED
    BY <1>3, <2>1 DEF Provisioning, Ended
<1>6. ASSUME NEW r \in Runs,
             \/ BuildEdits(r) \/ BuildCommits(r) \/ BuildStrays(r) \/ WorkFails(r)
      PROVE  Goal
  <2>1. /\ stage[r] = "work" /\ stage'[r] \in {"work", "failed"}
        /\ UNCHANGED remote /\ \A s \in Runs \ {r} : stage'[s] = stage[s]
    BY <1>6
    DEF BuildEdits, BuildCommits, BuildStrays, WorkFails, Goes, forge, run
  <2> QED
    BY <1>3, <2>1 DEF Ended
<1>7. ASSUME NEW r \in Runs, ReviewPasses(r) PROVE Goal
  <2>1. headOn = BranchOf(r)
    BY <1>1, <1>7 DEF ReviewPasses, Goes, Course, OnItsBranch, OnBranch
  <2>2. PassedAll(r)'
    BY <1>7, <2>1 DEF ReviewPasses, Goes, repo, BranchOf, TicketBranch
  <2> QED
    BY <1>3, <1>7, <2>2 DEF ReviewPasses, Goes, Ended, forge
<1>8. ASSUME NEW r \in Runs, ShipCommits(r) PROVE Goal
  <2>1. headOn = BranchOf(r) /\ BranchOf(r) \in Branches
    BY <1>1, <1>8, BranchFacts
    DEF ShipCommits, Goes, Course, OnItsBranch, OnBranch, Shipping, Branches
  <2>2. PassedAll(r)'
    BY <1>2, <1>8, <2>1
    DEF ShipCommits, CommitDirt, Goes, KeepsNotes, BranchOf, TicketBranch
  <2> QED
    BY <1>3, <1>8, <2>2 DEF ShipCommits, Goes, Ended, forge
<1>9. ASSUME NEW r \in Runs, Push(r) \/ Stops(r) PROVE Goal
  <2>1. /\ InProgress(r)
        /\ stage'[r] \in {"openPr", "ready", "failed", "aborted"}
        /\ \A s \in Runs \ {r} : stage'[s] = stage[s]
        /\ \/ UNCHANGED remote
           \/ /\ stage[r] = "push"
              /\ remote' = [remote EXCEPT ![BranchOf(r)] = local[BranchOf(r)]]
    BY <1>9, StopsFacts, CutShortForge
    DEF Push, Goes, Course, InProgress, Ended
  <2>2. NoneUnvetted'
    BY <1>0, <1>2, <2>1, NoneUnvettedStays
  <2>3. ASSUME NEW s \in Runs PROVE stage'[s] \notin {"commit", "push"}
    BY <2>1, <2>3 DEF Course, OneAtATime, InProgress, Ended
  <2> QED
    BY <2>2, <2>3
<1>10. ASSUME NEW r \in Runs,
              PushRejected(r) \/ OpenPr(r) \/ OpenRefused(r) \/ ViewPr(r)
       PROVE  Goal
  <2>1. /\ stage[r] \in Shipping /\ stage'[r] \notin {"commit", "push"}
        /\ UNCHANGED remote /\ \A s \in Runs \ {r} : stage'[s] = stage[s]
    BY <1>10
    DEF PushRejected, OpenPr, OpenRefused, ViewPr, Goes, Shipping, forge
  <2> QED
    BY <1>3, <2>1 DEF Shipping, Ended
<1>11. CASE OperatorCleans
  <2>1. UNCHANGED remote /\ \A s \in Runs : stage'[s] \notin {"commit", "push"}
    BY <1>11 DEF OperatorCleans, Idle, InProgress, Ended, forge, run
  <2> QED
    BY <1>0, <1>2, <2>1, NoneUnvettedStays
<1>12. ASSUME NEW t \in Tickets, Engineer(t) PROVE Goal
  <2>1. <<t, 0>> \notin RunChanges
    BY EditsAssumption DEF RunChanges
  <2>2. NoneUnvetted'
    BY <1>0, <1>2, <1>12, <2>1, NoneUnvettedStays
    DEF Engineer, EngineerMerges, EngineerCloses, EngineerPushes, Branches
  <2> QED
    BY <1>2, <1>12, <2>2
    DEF Engineer, EngineerMerges, EngineerCloses, EngineerPushes, repo, run,
        BranchOf, TicketBranch
<1>13. CASE UNCHANGED vars
  BY <1>2, <1>13
  DEF vars, repo, forge, run, NoneUnvetted, Unvetted, BranchOf, TicketBranch
<1> QED
  BY <1>4, <1>5, <1>6, <1>7, <1>8, <1>9, <1>10, <1>11, <1>12, <1>13
  DEF Next, Provision, Work, Ship, Stops

\* A run that reports shipped has all that Review passed on its ticket's branch,
\* and records its own ticket's pull request, for any number of runs and faults.
\* And while no agent leaves its branch, nothing that runs wrote is on the forge
\* without having passed a Review.
THEOREM ShippedWhatWasVetted == Spec => []ShippedIsVetted
<1>1. Init => AllCarried /\ OnlyPassed
  BY DEF Init, AllCarried, Carried, OnlyPassed, NothingPassed, NoneUnvetted,
         PassedAll
<1>2. AllCarried /\ OnlyPassed => ShippedIsVetted
  BY DEF AllCarried, Carried, OnlyPassed, NoneUnvetted, ShippedIsVetted
<1> QED
  BY <1>1, <1>2, TypedAlways, CourseAlways, CarriedStep, OnlyPassedStep, PTL
  DEF Spec

-----------------------------------------------------------------------------
\* Where the work of each ticket is while runs start clean and agents stay on
\* their branches: main holds only what was merged, and a run carries nothing
\* over from the one before it.
MainIsMerged == local[Main] \subseteq remote[Main]

CarriesOwn(r) ==
  /\ stage[r] \in {"gitdir", "clone", "checkout"} => headOn = Main /\ dirt = {}
  /\ stage[r] \in OnBranch => \A c \in dirt : WrittenFor(c) = TicketOf[r]

BranchIsOwn(t) ==
  \A c \in (local[t] \union remote[t]) \ remote[Main] : WrittenFor(c) = t

Apart ==
  strayed = {} /\ ~unclean =>
    /\ MainIsMerged
    /\ \A r \in Runs : CarriesOwn(r)
    /\ \A t \in Tickets : BranchIsOwn(t)

LEMMA ApartInit == Init => Apart
BY TicketsAssumption
DEF Init, Apart, MainIsMerged, CarriesOwn, BranchIsOwn, OnBranch, Shipping, Branches

LEMMA ApartStep == TypeOK /\ Course /\ Apart /\ [Next]_vars => Apart'
<1> SUFFICES ASSUME TypeOK, Course, Apart, [Next]_vars, strayed' = {}, ~unclean'
             PROVE  /\ MainIsMerged'
                    /\ \A r \in Runs : CarriesOwn(r)'
                    /\ \A t \in Tickets : BranchIsOwn(t)'
  BY DEF Apart
<1> DEFINE Goal == /\ MainIsMerged'
                   /\ \A r \in Runs : CarriesOwn(r)'
                   /\ \A t \in Tickets : BranchIsOwn(t)'
<1>0. strayed = {} /\ ~unclean
  <2>1. ASSUME NEW r \in Runs, Provision(r) \/ Aborts(r)
        PROVE  strayed' = strayed /\ (unclean => unclean')
    BY <2>1
    DEF Provision, Start, ReuseWorktree, NoWorktree, Clone, Checkout,
        FindLockfile, Install, ProvisionFails, Preflight, PreflightFails, Aborts,
        KeepsNotes, TypeOK
  <2>2. ASSUME NEW r \in Runs, Work(r) \/ Ship(r)
        PROVE  strayed \subseteq strayed' /\ unclean' = unclean
    BY <2>2
    DEF Work, BuildEdits, BuildCommits, BuildStrays, ReviewPasses, WorkFails,
        Ship, ShipCommits, Push, PushRejected, OpenPr, OpenRefused, ViewPr,
        ShipFaults, KeepsNotes, run
  <2>3. ASSUME NEW t \in Tickets, Engineer(t) PROVE UNCHANGED run
    BY <2>3 DEF Engineer, EngineerMerges, EngineerCloses, EngineerPushes
  <2>4. OperatorCleans \/ UNCHANGED vars => UNCHANGED run
    BY DEF OperatorCleans, vars
  <2> QED
    BY <2>1, <2>2, <2>3, <2>4 DEF Next, run
<1>1. /\ MainIsMerged
      /\ \A r \in Runs : CarriesOwn(r)
      /\ \A t \in Tickets : BranchIsOwn(t)
  BY <1>0 DEF Apart
<1> USE TicketsAssumption
<1> USE DEF TypeOK, MainIsMerged, CarriesOwn, BranchIsOwn, OnBranch, Shipping,
            Branches
<1>2. ASSUME NEW r \in Runs,
             \/ ReuseWorktree(r) \/ NoWorktree(r) \/ FindLockfile(r) \/ Install(r)
             \/ Preflight(r) \/ PreflightFails(r) \/ ReviewPasses(r)
             \/ WorkFails(r) \/ PushRejected(r) \/ OpenPr(r) \/ OpenRefused(r)
             \/ ViewPr(r)
      PROVE  Goal
  <2>1. /\ UNCHANGED <<local, headOn, dirt, remote>>
        /\ \A s \in Runs \ {r} : stage'[s] = stage[s]
        /\ stage[r] \in {"gitdir", "clone", "checkout"} \/ stage[r] \in OnBranch
        /\ stage'[r] \in {"gitdir", "clone", "checkout"} =>
             stage[r] \in {"gitdir", "clone", "checkout"}
        /\ stage'[r] \in OnBranch => stage[r] \in OnBranch
    BY <1>2
    DEF ReuseWorktree, NoWorktree, FindLockfile, Install, Preflight,
        PreflightFails, ReviewPasses, WorkFails, PushRejected, OpenPr,
        OpenRefused, ViewPr, Goes, KeepsNotes, repo, forge
  <2> QED
    BY <1>1, <2>1 DEF WrittenFor
<1>3. ASSUME NEW r \in Runs, Start(r) PROVE Goal
  BY <1>1, <1>3 DEF Start, Goes, Idle, InProgress, Ended, repo, forge
<1>4. ASSUME NEW r \in Runs, Clone(r) PROVE Goal
  BY <1>1, <1>4 DEF Clone, Goes, KeepsNotes, forge
<1>5. ASSUME NEW r \in Runs, Checkout(r) PROVE Goal
  <2>1. \A s \in Runs \ {r} : ~InProgress(s)
    BY <1>5 DEF Checkout, Goes, Course, OneAtATime, InProgress, Ended
  <2>2. /\ headOn = Main /\ dirt = {} /\ UNCHANGED <<dirt, remote>>
        /\ local' = [local EXCEPT ![TicketOf[r]] = local[Main]]
        /\ stage' = [stage EXCEPT ![r] = "lockfile"]
    BY <1>1, <1>5, BranchFacts DEF Checkout, MakeBranch, Goes, forge
  <2>3. MainIsMerged'
    BY <1>1, <2>2, BranchFacts
  <2>4. \A s \in Runs : CarriesOwn(s)'
    BY <2>1, <2>2 DEF InProgress, Ended
  <2>5. \A t \in Tickets : BranchIsOwn(t)'
    BY <1>1, <2>2, BranchFacts DEF WrittenFor
  <2> QED
    BY <2>3, <2>4, <2>5
<1>6. ASSUME NEW r \in Runs, BuildEdits(r) PROVE Goal
  <2>1. edits[r] + 1 \in 1..MaxEdits
    BY <1>6, EditsAssumption DEF BuildEdits
  <2>2. WrittenFor(<<r, edits[r] + 1>>) = TicketOf[r]
    BY <2>1 DEF WrittenFor, RunChanges
  <2>3. \A s \in Runs \ {r} : ~InProgress(s)
    BY <1>6 DEF BuildEdits, Course, OneAtATime, InProgress, Ended
  <2> QED
    BY <1>1, <1>6, <2>2, <2>3 DEF BuildEdits, forge, InProgress, Ended
<1>7. ASSUME NEW r \in Runs, BuildCommits(r) \/ ShipCommits(r) PROVE Goal
  <2>1. headOn = TicketOf[r] /\ \A c \in dirt : WrittenFor(c) = TicketOf[r]
    BY <1>0, <1>1, <1>7, BranchFacts
    DEF BuildCommits, ShipCommits, Goes, Course, OnItsBranch
  <2>2. /\ local' = [local EXCEPT ![headOn] = @ \union dirt] /\ dirt' = {}
        /\ UNCHANGED <<headOn, remote>>
    BY <1>7 DEF BuildCommits, ShipCommits, CommitDirt, forge
  <2>3. \A s \in Runs : stage'[s] \in {"gitdir", "clone", "checkout"} =>
          stage[s] \in {"gitdir", "clone", "checkout"}
    BY <1>7 DEF BuildCommits, ShipCommits, Goes, run
  <2> QED
    BY <1>1, <2>1, <2>2, <2>3, BranchFacts
<1>8. ASSUME NEW r \in Runs, Push(r) PROVE Goal
  <2>1. /\ UNCHANGED repo
        /\ remote' = [remote EXCEPT ![BranchOf(r)] = local[BranchOf(r)]]
        /\ \A s \in Runs \ {r} : stage'[s] = stage[s]
        /\ stage[r] \in Shipping /\ stage'[r] \in Shipping
    BY <1>8 DEF Push, Goes, KeepsNotes, forge
  <2> QED
    BY <1>1, <2>1, BranchFacts DEF repo
<1>9. ASSUME NEW t \in Tickets, Engineer(t) PROVE Goal
  <2>1. WrittenFor(<<t, 0>>) = t
    BY EditsAssumption DEF WrittenFor, RunChanges
  <2> QED
    BY <1>1, <1>9, <2>1
    DEF Engineer, EngineerMerges, EngineerCloses, EngineerPushes, repo, run
<1>10. CASE OperatorCleans
  BY <1>1, <1>10
  DEF OperatorCleans, Idle, InProgress, Ended, run, forge
<1>11. CASE UNCHANGED vars
  BY <1>1, <1>11 DEF vars, repo, forge, run
<1>12. ASSUME NEW r \in Runs, BuildStrays(r) PROVE FALSE
  BY <1>12 DEF BuildStrays
\* A command that is cut short does a part of what it does when it succeeds, and
\* nobody is left to carry anything.
<1>13. ASSUME NEW r \in Runs, Stops(r) PROVE Goal
  <2>1. /\ CutShort(r) /\ InProgress(r) /\ \A s \in Runs : ~InProgress(s)'
    BY <1>13, StopsFacts DEF Course
  <2>2. \A s \in Runs : CarriesOwn(s)'
    BY <2>1 DEF InProgress, Ended
  <2>3. CASE UNCHANGED repo
    <3>1. \/ UNCHANGED remote
          \/ remote' = [remote EXCEPT ![BranchOf(r)] = local[BranchOf(r)]]
      BY <2>1, CutShortForge
    <3> QED
      BY <1>1, <2>2, <2>3, <3>1, BranchFacts DEF repo
  <2>4. CASE CloneCut /\ UNCHANGED forge
    BY <1>1, <2>2, <2>4 DEF CloneCut, forge
  <2>5. CASE stage[r] = "checkout" /\ MakeBranch(r) /\ UNCHANGED forge
    <3>1. headOn = Main /\ UNCHANGED remote
          /\ local' = [local EXCEPT ![TicketOf[r]] = local[Main]]
      BY <1>1, <2>5, BranchFacts DEF MakeBranch, forge
    <3> QED
      BY <1>1, <2>2, <3>1, BranchFacts
  <2>6. CASE UNCHANGED <<local, headOn, dirt, forge>>
    BY <1>1, <2>2, <2>6 DEF forge
  <2>7. CASE stage[r] = "commit" /\ CommitDirt /\ UNCHANGED forge
    <3>1. headOn = TicketOf[r] /\ \A c \in dirt : WrittenFor(c) = TicketOf[r]
      BY <1>0, <1>1, <2>7, BranchFacts DEF Course, OnItsBranch
    <3>2. /\ local' = [local EXCEPT ![headOn] = @ \union dirt]
          /\ UNCHANGED <<headOn, remote>>
      BY <2>7 DEF CommitDirt, forge
    <3> QED
      BY <1>1, <2>2, <3>1, <3>2, BranchFacts
  <2> QED
    BY <2>1, <2>3, <2>4, <2>5, <2>6, <2>7 DEF CutShort
<1> QED
  BY <1>2, <1>3, <1>4, <1>5, <1>6, <1>7, <1>8, <1>9, <1>10, <1>11, <1>12, <1>13
  DEF Next, Provision, Work, Ship, Stops

\* Nothing done for one ticket leaks into the pull request of another, while
\* runs are started from a clean main and agents stay on their branches.
THEOREM OnlyOwnWork == Spec => []OwnWorkOnly
<1>1. Apart => OwnWorkOnly
  BY DEF Apart, BranchIsOwn, OwnWorkOnly
<1> QED
  BY <1>1, ApartInit, ApartStep, TypedAlways, CourseAlways, PTL DEF Spec

-----------------------------------------------------------------------------
\* What the first run of a ticket finds on the forge: before its push no branch,
\* before its own `gh pr create' no pull request.
BeforePush == {"waiting", "preflight", "work", "commit", "push"} \union Provisioning

FindsNothing(r) ==
  /\ stage[r] \in BeforePush => remote[TicketOf[r]] = {}
  /\ stage[r] \in BeforePush \union {"openPr"} => pr[TicketOf[r]] = "none"
  /\ r \notin strayed \union faulted /\ stage[r] = "ready" =>
       vetted[r] \subseteq remote[Main] /\ pr[TicketOf[r]] = "none"

FirstFindsNothing == \A r \in Runs : FirstOfTicket(r) => FindsNothing(r)

LEMMA FirstFindsInit == Init => FirstFindsNothing
BY TicketOfAssumption DEF Init, FirstFindsNothing, FindsNothing, Branches

\* A run that has begun never waits again, so a run that is the first of its
\* ticket now always was.
LEMMA BegunStays ==
  TypeOK /\ [Next]_vars => \A s \in Runs : stage'[s] = "waiting" => stage[s] = "waiting"
<1> SUFFICES ASSUME TypeOK, [Next]_vars, NEW s \in Runs, stage'[s] = "waiting"
             PROVE  stage[s] = "waiting"
  OBVIOUS
<1> USE DEF TypeOK
<1>1. ASSUME NEW r \in Runs, Provision(r) PROVE stage[s] = "waiting"
  BY <1>1
  DEF Provision, Start, ReuseWorktree, NoWorktree, Clone, Checkout,
      FindLockfile, Install, ProvisionFails, Preflight, PreflightFails, Goes
<1>2. ASSUME NEW r \in Runs, Work(r) \/ Ship(r) \/ Aborts(r)
      PROVE  stage[s] = "waiting"
  BY <1>2
  DEF Work, BuildEdits, BuildCommits, BuildStrays, ReviewPasses, WorkFails, Ship,
      ShipCommits, Push, PushRejected, OpenPr, OpenRefused, ViewPr, ShipFaults,
      Aborts, Goes, run
<1>3. ASSUME NEW t \in Tickets, Engineer(t) PROVE stage[s] = "waiting"
  BY <1>3 DEF Engineer, EngineerMerges, EngineerCloses, EngineerPushes, run
<1>4. OperatorCleans \/ UNCHANGED vars => UNCHANGED stage
  BY DEF OperatorCleans, vars, run
<1> QED
  BY <1>1, <1>2, <1>3, <1>4 DEF Next

LEMMA FirstFindsStep ==
  TypeOK /\ Course /\ AllCarried /\ FirstFindsNothing /\ [Next]_vars
    => FirstFindsNothing'
<1> SUFFICES ASSUME TypeOK, Course, AllCarried, FirstFindsNothing, [Next]_vars,
                    NEW f \in Runs, FirstOfTicket(f)'
             PROVE  FindsNothing(f)'
  BY DEF FirstFindsNothing
<1> DEFINE t == TicketOf[f]
<1>1. FirstOfTicket(f) /\ FindsNothing(f)
  BY BegunStays DEF FirstOfTicket, FirstFindsNothing
<1>2. ASSUME NEW s \in Runs, s # f, TicketOf[s] = t
      PROVE  stage[s] = "waiting" /\ stage'[s] = "waiting"
  BY <1>1, <1>2 DEF FirstOfTicket
<1>3. t \in Tickets /\ t # Main /\ remote[Main] \subseteq remote'[Main]
  BY GrowsStep, TicketOfAssumption, TicketsAssumption DEF Branches
<1> USE DEF TypeOK, FindsNothing, BeforePush, Provisioning
\* Steps that leave the forge of this ticket alone and do not end the run at
\* ready_for_pr.
<1>4. ASSUME remote'[t] = remote[t], pr'[t] = pr[t],
             vetted'[f] = vetted[f], stage'[f] = stage[f],
             strayed \subseteq strayed', faulted \subseteq faulted'
      PROVE  FindsNothing(f)'
  BY <1>1, <1>3, <1>4
<1>5. ASSUME NEW r \in Runs, Provision(r), ~ProvisionFails(r)
      PROVE  FindsNothing(f)'
  <2>1. /\ stage'[r] \in BeforePush \union {"failed"} /\ stage[r] \in BeforePush
        /\ \A s \in Runs \ {r} : stage'[s] = stage[s]
        /\ UNCHANGED <<forge, vetted, strayed, faulted>>
    BY <1>5
    DEF Provision, Start, ReuseWorktree, NoWorktree, Clone, Checkout,
        FindLockfile, Install, Preflight, PreflightFails, Goes, KeepsNotes
  <2> QED
    BY <1>1, <1>4, <1>5, <2>1 DEF forge
<1>6. ASSUME NEW r \in Runs, Work(r) PROVE FindsNothing(f)'
  <2>1. /\ stage[r] = "work" /\ stage'[r] \in {"work", "commit", "failed"}
        /\ \A s \in Runs \ {r} : stage'[s] = stage[s] /\ vetted'[s] = vetted[s]
        /\ UNCHANGED <<forge, faulted>> /\ strayed \subseteq strayed'
    BY <1>6
    DEF Work, BuildEdits, BuildCommits, BuildStrays, ReviewPasses, WorkFails,
        Goes, KeepsNotes, forge, run
  <2> QED
    BY <1>1, <1>4, <2>1 DEF forge
<1>7. ASSUME NEW r \in Runs, Ship(r), ~ShipFaults(r) PROVE FindsNothing(f)'
  <2>0. /\ stage[r] \in Shipping
        /\ \A s \in Runs \ {r} : stage'[s] = stage[s]
        /\ UNCHANGED <<vetted, strayed>> /\ faulted \subseteq faulted'
    BY <1>7
    DEF Ship, ShipCommits, Push, PushRejected, OpenPr, OpenRefused, ViewPr,
        Goes, KeepsNotes, Shipping
  <2>1. CASE r # f
    <3>1. TicketOf[r] # t
      BY <1>2, <2>0, <2>1 DEF Shipping
    <3>2. remote'[t] = remote[t] /\ pr'[t] = pr[t]
      BY <1>3, <1>7, <3>1, BranchFacts
      DEF Ship, ShipCommits, Push, PushRejected, OpenPr, OpenRefused, ViewPr,
          forge, Branches
    <3> QED
      BY <1>4, <2>0, <2>1, <3>2
  <2>2. CASE r = f /\ (ShipCommits(r) \/ Push(r) \/ OpenPr(r))
    BY <1>1, <1>3, <2>2, BranchFacts
    DEF ShipCommits, Push, OpenPr, Goes, forge, Branches
  <2>3. CASE r = f /\ PushRejected(r)
    BY <1>1, <2>3, BranchFacts DEF PushRejected, FastForward, Goes, Branches
  <2>4. CASE r = f /\ OpenRefused(r)
    <3>1. remote[t] \subseteq remote[Main] /\ pr[t] = "none"
      BY <1>1, <2>4, BranchFacts
      DEF OpenRefused, CanOpen, TicketBranch, Goes
    <3>2. f \notin strayed => vetted[f] \subseteq remote[t]
      BY <2>4, BranchFacts DEF AllCarried, Carried, OpenRefused, Goes
    <3> QED
      BY <2>0, <2>4, <3>1, <3>2 DEF OpenRefused, Goes, KeepsNotes, forge
  <2>5. CASE r = f /\ ViewPr(r)
    <3>1. f \notin strayed => headOn = t /\ pr[t] # "none"
      BY <2>5, BranchFacts
      DEF AllCarried, Carried, Course, OnItsBranch, OnBranch, Shipping, ViewPr,
          Goes
    <3> QED
      BY <1>3, <2>0, <2>5, <3>1 DEF ViewPr, Goes, forge
  <2> QED
    BY <1>7, <2>1, <2>2, <2>3, <2>4, <2>5 DEF Ship
<1>8. ASSUME NEW e \in Tickets, Engineer(e) PROVE FindsNothing(f)'
  <2>1. UNCHANGED run /\ pr[e] = "open"
    BY <1>8 DEF Engineer, EngineerMerges, EngineerCloses, EngineerPushes
  <2>2. e # t => remote'[t] = remote[t] /\ pr'[t] = pr[t]
    BY <1>3, <1>8
    DEF Engineer, EngineerMerges, EngineerCloses, EngineerPushes, Branches
  <2> QED
    BY <1>1, <1>4, <2>1, <2>2 DEF run
<1>9. CASE OperatorCleans \/ UNCHANGED vars
  BY <1>4, <1>9 DEF OperatorCleans, vars, run, forge
<1>10. ASSUME NEW r \in Runs, Stops(r) PROVE FindsNothing(f)'
  <2>0. /\ CutShort(r) /\ stage[r] # "waiting"
        /\ stage'[r] \in {"ready", "failed", "aborted"}
        /\ \A s \in Runs \ {r} : stage'[s] = stage[s]
        /\ UNCHANGED <<vetted, strayed>> /\ faulted \subseteq faulted'
        /\ stage'[r] = "ready" => r \in faulted'
    BY <1>10, StopsFacts DEF Course, InProgress
  <2>1. CASE r = f
    BY <2>0, <2>1
  <2>2. CASE r # f
    <3>1. TicketOf[r] # t
      BY <1>2, <2>0, <2>2
    <3>2. remote'[t] = remote[t] /\ pr'[t] = pr[t]
      BY <1>3, <2>0, <3>1, BranchFacts, CutShortForge DEF Branches
    <3> QED
      BY <1>4, <2>0, <2>2, <3>2
  <2> QED
    BY <2>1, <2>2
<1> QED
  BY <1>5, <1>6, <1>7, <1>8, <1>9, <1>10 DEF Next, Provision, Ship, Stops

\* Nothing but a fault, a stray agent or an earlier run of its ticket keeps a
\* run that has something to ship from its pull request, whatever the runs of
\* other tickets, the operator and the engineers do.
THEOREM FirstRunAlwaysShips == Spec => []FirstRunShips
<1>1. Init => AllCarried
  BY DEF Init, AllCarried, Carried
<1>2. FirstFindsNothing => FirstRunShips
  BY DEF FirstFindsNothing, FindsNothing, FirstRunShips
<1> QED
  BY <1>1, <1>2, TypedAlways, CourseAlways, CarriedStep, FirstFindsInit,
     FirstFindsStep, PTL DEF Spec
=============================================================================
