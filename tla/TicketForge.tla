---------------------------- MODULE TicketForge ----------------------------
(***************************************************************************)
(* Several runs, of one or more tickets, over one worktree and one forge:  *)
(* workspace provision, the git side of Build and Review, and Ship with    *)
(* its gh and git commands; and what people do between and beside them.    *)
(*                                                                         *)
(* A commit is the set of changes in its history, so a commit is an        *)
(* ancestor of another if it is a subset. A branch that does not exist is  *)
(* the empty set: pushing to either is a fast-forward, and from neither    *)
(* can a pull request be opened. Merges keep the history of the branch.    *)
(* The one-run-at-a-time rule is the Host slot's (HostSandbox).            *)
(***************************************************************************)
EXTENDS Naturals, FiniteSets

CONSTANTS
  Tickets,
  Main,            \* the default branch
  NoTicket,
  Runs,            \* run attempts on this machine
  TicketOf,        \* the ticket a run is for
  MaxEdits,        \* bound: changes one run makes
  MaxStrays,       \* bound: runs whose agent checks out another branch
  HasRepoUrl,      \* the operator passed a repoUrl
  HasLockfile,     \* the repository has a pnpm-lock.yaml
  Faults           \* forge commands may fail for reasons of their own

ASSUME TicketsAssumption == Main \notin Tickets /\ NoTicket \notin Tickets
ASSUME TicketOfAssumption == TicketOf \in [Runs -> Tickets]
ASSUME EditsAssumption == MaxEdits \in Nat /\ MaxStrays \in Nat
ASSUME FlagsAssumption == {HasRepoUrl, HasLockfile, Faults} \subseteq BOOLEAN

Branches == Tickets \union {Main}
\* What a run wrote, and what an engineer pushed to the branch of a ticket.
RunChanges == Runs \X (1..MaxEdits)
Changes == RunChanges \union {<<t, 0>> : t \in Tickets}

Provisioning == {"gitdir", "clone", "checkout", "lockfile", "install"}
Shipping == {"commit", "push", "openPr", "viewPr"}
Ended == {"failed", "aborted", "shipped", "ready"}
Stages == {"waiting", "preflight", "work"}
            \union Provisioning \union Shipping \union Ended

\* Nothing; a .git without a commit (a clone killed while it fetched); the
\* commits, but neither files nor index; some files, the index missing or locked
\* (killed or failed while it wrote them); all files. This is what git leaves: it
\* writes the index after the last file, in one step.
Clones == {"empty", "noCommit", "noFiles", "partial", "full"}
\* What a test for a file may find.
HasFiles(w) == w \in {"partial", "full"}

VARIABLES
  worktree,   \* what there is of the clone
  local,      \* the branches of the worktree
  headOn,     \* the branch HEAD names
  dirt,       \* uncommitted changes
  installed,  \* the locked install of this checkout has succeeded
  remote,     \* the branches on the forge
  pr,         \* pull request per ticket: "none", "open", "merged", "closed"
  stage,      \* per run
  edits,      \* changes the run has made
  vetted,     \* per run: what Review passed, commits and pending edits
  prUrl,      \* per run: the ticket whose pull request it recorded
  faulted,    \* history: a command of the run failed by itself
  strayed,    \* history: runs whose agent checked out another branch
  unclean     \* history: some run was not started from a clean main

repo == <<worktree, local, headOn, dirt, installed>>
forge == <<remote, pr>>
run == <<stage, edits, vetted, prUrl, faulted, strayed, unclean>>
vars == <<repo, forge, run>>

TypeOK ==
  /\ worktree \in Clones
  /\ local \in [Branches -> SUBSET Changes]
  /\ headOn \in Branches
  /\ dirt \in SUBSET Changes
  /\ installed \in BOOLEAN
  /\ remote \in [Branches -> SUBSET Changes]
  /\ pr \in [Tickets -> {"none", "open", "merged", "closed"}]
  /\ stage \in [Runs -> Stages]
  /\ edits \in [Runs -> 0..MaxEdits]
  /\ vetted \in [Runs -> SUBSET Changes]
  /\ prUrl \in [Runs -> Tickets \union {NoTicket}]
  /\ faulted \subseteq Runs /\ strayed \subseteq Runs /\ unclean \in BOOLEAN

\* The operator's worktree is a clean clone, or an empty sandbox.
Init ==
  /\ worktree \in {"empty", "full"}
  /\ local = [b \in Branches |-> {}]
  /\ headOn = Main
  /\ dirt = {}
  /\ installed = FALSE
  /\ remote = [b \in Branches |-> {}]
  /\ pr = [t \in Tickets |-> "none"]
  /\ stage = [r \in Runs |-> "waiting"]
  /\ edits = [r \in Runs |-> 0]
  /\ vetted = [r \in Runs |-> {}]
  /\ prUrl = [r \in Runs |-> NoTicket]
  /\ faulted = {} /\ strayed = {} /\ unclean = FALSE

\* Mutant of TicketBranch: one branch for every ticket.
SharedBranch(t) == CHOOSE b \in Tickets : TRUE

TicketBranch(t) == t
BranchOf(r) == TicketBranch(TicketOf[r])
InProgress(r) == stage[r] \notin Ended \union {"waiting"}
Idle == \A r \in Runs : ~InProgress(r)

Goes(r, from, to) == stage[r] = from /\ stage' = [stage EXCEPT ![r] = to]
KeepsNotes == UNCHANGED <<edits, vetted, prUrl, faulted, strayed, unclean>>

-----------------------------------------------------------------------------
\* Provision. Each command may fail, which ends the run before any agent.

Start(r) ==
  /\ Idle /\ Goes(r, "waiting", "gitdir")
  /\ unclean' = (unclean \/ headOn # Main \/ dirt # {})
  /\ UNCHANGED <<edits, vetted, prUrl, faulted, strayed, repo, forge>>

ReuseWorktree(r) ==
  /\ worktree # "empty" /\ Goes(r, "gitdir", "checkout")
  /\ KeepsNotes /\ UNCHANGED <<repo, forge>>

NoWorktree(r) ==
  /\ worktree = "empty"
  /\ Goes(r, "gitdir", IF HasRepoUrl THEN "clone" ELSE "failed")
  /\ KeepsNotes /\ UNCHANGED <<repo, forge>>

Clone(r) ==
  /\ Goes(r, "clone", "checkout")
  /\ worktree' = "full" /\ headOn' = Main
  /\ local' = [local EXCEPT ![Main] = remote[Main]]
  /\ KeepsNotes /\ UNCHANGED <<dirt, installed, forge>>

\* What a clone that fails or is killed may leave.
CloneCut ==
  /\ worktree' \in Clones /\ headOn' = Main
  /\ local' = IF worktree' \in {"empty", "noCommit"} THEN local
                ELSE [local EXCEPT ![Main] = remote[Main]]
  /\ UNCHANGED <<dirt, installed>>

\* git checkout -B: the branch is created at HEAD or moved there; pending
\* edits are carried along. Without an index git writes the files of HEAD too,
\* and refuses if that would touch one that is there.
MakeBranch(r) ==
  /\ worktree # "partial"
  /\ worktree' = IF worktree = "noFiles" THEN "full" ELSE worktree
  /\ local' = [local EXCEPT ![BranchOf(r)] = local[headOn]]
  /\ headOn' = BranchOf(r)
  /\ UNCHANGED <<dirt, installed>>

\* Mutant of Checkout: the exit code is not looked at.
CheckoutAnyway(r) ==
  /\ Goes(r, "checkout", "lockfile")
  /\ IF worktree = "partial" THEN UNCHANGED repo ELSE MakeBranch(r)
  /\ KeepsNotes /\ UNCHANGED forge

Checkout(r) ==
  /\ Goes(r, "checkout", "lockfile") /\ MakeBranch(r)
  /\ KeepsNotes /\ UNCHANGED forge

\* `test -f' is all that looks at the checkout.
FindLockfile(r) ==
  /\ \/ HasLockfile /\ HasFiles(worktree) /\ Goes(r, "lockfile", "install")
     \/ ~(HasLockfile /\ worktree = "full") /\ Goes(r, "lockfile", "preflight")
  /\ KeepsNotes /\ UNCHANGED <<repo, forge>>

Install(r) ==
  /\ Goes(r, "install", "preflight") /\ installed' = TRUE
  /\ KeepsNotes /\ UNCHANGED <<worktree, local, headOn, dirt, forge>>

\* The skills and the gates are looked up before the first Build call, again
\* by testing for files.
Preflight(r) ==
  /\ HasFiles(worktree) /\ Goes(r, "preflight", "work")
  /\ KeepsNotes /\ UNCHANGED <<repo, forge>>

PreflightFails(r) ==
  /\ Goes(r, "preflight", "failed")
  /\ KeepsNotes /\ UNCHANGED <<repo, forge>>

-----------------------------------------------------------------------------
\* Build, Test and Review, as far as git sees them.

BuildEdits(r) ==
  /\ stage[r] = "work" /\ edits[r] < MaxEdits
  /\ edits' = [edits EXCEPT ![r] = @ + 1]
  /\ dirt' = dirt \union {<<r, edits[r] + 1>>}
  /\ UNCHANGED <<worktree, local, headOn, installed, forge,
                 stage, vetted, prUrl, faulted, strayed, unclean>>

CommitDirt ==
  /\ local' = [local EXCEPT ![headOn] = @ \union dirt]
  /\ dirt' = {}
  /\ UNCHANGED <<worktree, headOn, installed>>

BuildCommits(r) ==
  /\ stage[r] = "work" /\ dirt # {}
  /\ CommitDirt
  /\ UNCHANGED <<forge, run>>

BuildStrays(r) ==
  /\ stage[r] = "work"
  /\ r \notin strayed /\ Cardinality(strayed) < MaxStrays
  /\ headOn' \in Branches \ {headOn}
  /\ strayed' = strayed \union {r}
  /\ UNCHANGED <<worktree, local, dirt, installed, forge,
                 stage, edits, vetted, prUrl, faulted, unclean>>

\* Mutant of ReviewPasses: only the tip is reviewed, not the uncommitted edits.
ReviewsTip(r) ==
  /\ Goes(r, "work", "commit")
  /\ vetted' = [vetted EXCEPT ![r] = local[headOn]]
  /\ UNCHANGED <<edits, prUrl, faulted, strayed, unclean, repo, forge>>

\* Review passes the full pending delta: the tip and the uncommitted edits.
ReviewPasses(r) ==
  /\ Goes(r, "work", "commit")
  /\ vetted' = [vetted EXCEPT ![r] = local[headOn] \union dirt]
  /\ UNCHANGED <<edits, prUrl, faulted, strayed, unclean, repo, forge>>

WorkFails(r) ==
  /\ Goes(r, "work", "failed")
  /\ KeepsNotes /\ UNCHANGED <<repo, forge>>

-----------------------------------------------------------------------------
\* Ship: commit pending, push, open, view.

\* Mutant of ShipCommits: no `git status' first, and an empty commit fails.
CommitAlways(r) ==
  /\ Goes(r, "commit", IF dirt = {} THEN "ready" ELSE "push")
  /\ CommitDirt
  /\ KeepsNotes /\ UNCHANGED forge

\* With nothing pending the commit is skipped.
ShipCommits(r) ==
  /\ Goes(r, "commit", "push")
  /\ CommitDirt
  /\ KeepsNotes /\ UNCHANGED forge

\* Mutant of Push: --force.
ForcePush(r) ==
  /\ Goes(r, "push", "openPr")
  /\ remote' = [remote EXCEPT ![BranchOf(r)] = local[BranchOf(r)]]
  /\ KeepsNotes /\ UNCHANGED <<repo, pr>>

FastForward(b) == remote[b] \subseteq local[b]

Push(r) ==
  /\ Goes(r, "push", "openPr") /\ FastForward(BranchOf(r))
  /\ remote' = [remote EXCEPT ![BranchOf(r)] = local[BranchOf(r)]]
  /\ KeepsNotes /\ UNCHANGED <<repo, pr>>

PushRejected(r) ==
  /\ Goes(r, "push", "ready") /\ ~FastForward(BranchOf(r))
  /\ KeepsNotes /\ UNCHANGED <<repo, forge>>

\* gh pr create refuses a second open pull request of a branch, and one
\* without commits of its own.
CanOpen(t) ==
  /\ pr[t] # "open"
  /\ ~(remote[TicketBranch(t)] \subseteq remote[Main])

\* Mutant of OpenPr: opened as a draft, which is a state of its own.
OpenDraft(r) ==
  /\ Goes(r, "openPr", "viewPr") /\ CanOpen(TicketOf[r])
  /\ pr' = [pr EXCEPT ![TicketOf[r]] = "draft"]
  /\ KeepsNotes /\ UNCHANGED <<repo, remote>>

OpenPr(r) ==
  /\ Goes(r, "openPr", "viewPr") /\ CanOpen(TicketOf[r])
  /\ pr' = [pr EXCEPT ![TicketOf[r]] = "open"]
  /\ KeepsNotes /\ UNCHANGED <<repo, remote>>

OpenRefused(r) ==
  /\ Goes(r, "openPr", "ready") /\ ~CanOpen(TicketOf[r])
  /\ KeepsNotes /\ UNCHANGED <<repo, forge>>

\* gh pr view names no branch: it shows the pull request of HEAD's branch.
ViewPr(r) ==
  /\ IF headOn \in Tickets /\ pr[headOn] # "none"
       THEN /\ Goes(r, "viewPr", "shipped")
            /\ prUrl' = [prUrl EXCEPT ![r] = headOn]
       ELSE Goes(r, "viewPr", "ready") /\ UNCHANGED prUrl
  /\ UNCHANGED <<edits, vetted, faulted, strayed, unclean, repo, forge>>

-----------------------------------------------------------------------------
\* Commands that fail by themselves, and runs that are cut short.

\* What the command under way may have done: nothing, or (part of) its work.
CutShort(r) ==
  \/ UNCHANGED <<repo, forge>>
  \/ stage[r] = "clone" /\ CloneCut /\ UNCHANGED forge
  \/ stage[r] = "checkout" /\ MakeBranch(r) /\ UNCHANGED forge
  \/ /\ stage[r] = "checkout" /\ worktree = "noFiles" /\ worktree' = "partial"
     /\ UNCHANGED <<local, headOn, dirt, installed, forge>>
  \/ /\ stage[r] = "install" /\ installed' = FALSE
     /\ UNCHANGED <<worktree, local, headOn, dirt, forge>>
  \/ stage[r] = "commit" /\ CommitDirt /\ UNCHANGED forge
  \/ /\ stage[r] = "push" /\ FastForward(BranchOf(r))
     /\ remote' = [remote EXCEPT ![BranchOf(r)] = local[BranchOf(r)]]
     /\ UNCHANGED <<repo, pr>>
  \/ /\ stage[r] = "openPr" /\ CanOpen(TicketOf[r])
     /\ pr' = [pr EXCEPT ![TicketOf[r]] = "open"]
     /\ UNCHANGED <<repo, remote>>

ProvisionFails(r) ==
  /\ \E s \in Provisioning : Goes(r, s, "failed")
  /\ CutShort(r) /\ KeepsNotes

ShipFaults(r) ==
  /\ Faults
  /\ \E s \in Shipping : Goes(r, s, "ready")
  /\ CutShort(r)
  /\ faulted' = faulted \union {r}
  /\ UNCHANGED <<edits, vetted, prUrl, strayed, unclean>>

\* The process is interrupted or dies; everything outside it stays.
Aborts(r) ==
  /\ InProgress(r)
  /\ stage' = [stage EXCEPT ![r] = "aborted"]
  /\ CutShort(r) /\ KeepsNotes

-----------------------------------------------------------------------------
\* People. The worktree is theirs between runs, the forge at any time.

OperatorCleans ==
  /\ Idle /\ worktree # "empty"
  /\ worktree' = "full" /\ headOn' = Main /\ dirt' = {} /\ installed' = FALSE
  /\ local' = [local EXCEPT ![Main] = @ \union remote[Main]]
  /\ UNCHANGED <<forge, run>>

EngineerMerges(t) ==
  /\ pr[t] = "open"
  /\ pr' = [pr EXCEPT ![t] = "merged"]
  /\ remote' = [remote EXCEPT ![Main] = @ \union remote[t]]
  /\ UNCHANGED <<repo, run>>

EngineerCloses(t) ==
  /\ pr[t] = "open"
  /\ pr' = [pr EXCEPT ![t] = "closed"]
  /\ UNCHANGED <<repo, remote, run>>

EngineerPushes(t) ==
  /\ pr[t] = "open"
  /\ remote' = [remote EXCEPT ![t] = @ \union {<<t, 0>>}]
  /\ UNCHANGED <<repo, pr, run>>

-----------------------------------------------------------------------------

Provision(r) ==
  \/ Start(r) \/ ReuseWorktree(r) \/ NoWorktree(r) \/ Clone(r)
  \/ Checkout(r) \/ FindLockfile(r) \/ Install(r)
  \/ ProvisionFails(r) \/ Preflight(r) \/ PreflightFails(r)
Work(r) ==
  \/ BuildEdits(r) \/ BuildCommits(r) \/ BuildStrays(r)
  \/ ReviewPasses(r) \/ WorkFails(r)
Ship(r) ==
  \/ ShipCommits(r) \/ Push(r) \/ PushRejected(r) \/ OpenPr(r)
  \/ OpenRefused(r) \/ ViewPr(r) \/ ShipFaults(r)
Engineer(t) == EngineerMerges(t) \/ EngineerCloses(t) \/ EngineerPushes(t)

Next ==
  \/ \E r \in Runs : Provision(r) \/ Work(r) \/ Ship(r) \/ Aborts(r)
  \/ OperatorCleans
  \/ \E t \in Tickets : Engineer(t)

Spec == Init /\ [][Next]_vars

-----------------------------------------------------------------------------
(***************************************************************************)
(* Properties.                                                             *)
(***************************************************************************)

\* No run takes a commit off the forge, whatever earlier runs of its ticket,
\* a reset of the local branch or an engineer left there: push in
\* github-gh.ts never forces.
RemoteOnlyGrows == [][\A b \in Branches : remote[b] \subseteq remote'[b]]_vars

\* Written by a run, and passed by no run's Review.
Unvetted(c) == c \in RunChanges /\ \A r \in Runs : c \notin vetted[r]

\* A run that reports shipped has put all that Review passed, uncommitted edits
\* included, on its ticket's branch, and the URL it records is that of its own
\* ticket's pull request (runShipAgent; ADR-0011). Its agent has to stay on the
\* branch; what earlier agents did to the worktree does not matter. And where no
\* agent left its branch nothing else is there: what runs put on the forge, whether
\* they ended well, failed, or were cut short, has passed a Review.
ShippedIsVetted ==
  /\ \A r \in Runs \ strayed : stage[r] = "shipped" =>
       /\ vetted[r] \subseteq remote[BranchOf(r)]
       /\ prUrl[r] = TicketOf[r]
       /\ pr[TicketOf[r]] # "none"
  /\ strayed = {} => \A b \in Branches : \A c \in remote[b] : ~Unvetted(c)

\* No agent is started on a worktree that is not a full checkout of the ticket
\* branch with its locked install done, whatever an earlier run that failed or
\* was killed half-way left behind (provision in workspace-provision.ts,
\* ADR-0010). A .git is reused without a look at what is in it, and files are
\* only tested for; what stops a run on half a clone is that git's checkout
\* refuses there, and that its exit code counts.
SetupBeforeBuild ==
  \A r \in Runs : stage[r] = "work" =>
    /\ worktree = "full"
    /\ r \in strayed \/ headOn = BranchOf(r)
    /\ HasLockfile => installed

FirstOfTicket(r) ==
  \A s \in Runs \ {r} : TicketOf[s] = TicketOf[r] => stage[s] = "waiting"

\* The first run of a ticket that passes Review, with something to ship and no
\* command failing by itself, does not end ready_for_pr: Ship's own sequence
\* of commands does not get in its way, whether Build committed or not. If it
\* does end so, there is no pull request of the ticket it could have missed.
FirstRunShips ==
  \A r \in Runs \ (strayed \union faulted) :
    stage[r] = "ready" /\ FirstOfTicket(r) =>
      vetted[r] \subseteq remote[Main] /\ pr[TicketOf[r]] = "none"

WrittenFor(c) == IF c \in RunChanges THEN TicketOf[c[1]] ELSE c[1]

\* If every run was started from a clean main and no agent left its branch, a
\* ticket's branch on the forge holds, beyond main, only work done for that
\* ticket: edits and commits of other tickets' failed runs do not leak into
\* its pull request (checkoutBranchAndInstall, commitWorkingTree).
OwnWorkOnly ==
  strayed = {} /\ ~unclean =>
    \A t \in Tickets : \A c \in remote[t] \ remote[Main] : WrittenFor(c) = t

\* A run whose change (which no other run has passed) is in its ticket's open
\* pull request does not report ready_for_pr: `shipped - PR/MR exists'
\* (ADR-0011).
ReadyMeansNotInPr ==
  \A r \in Runs :
    /\ stage[r] = "ready" /\ pr[TicketOf[r]] = "open"
    /\ \A s \in Runs \ {r} : ~(vetted[r] \subseteq vetted[s])
    => ~(vetted[r] \subseteq remote[BranchOf(r)])
=============================================================================
