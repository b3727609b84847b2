------------------------------ MODULE HostSlot ------------------------------
(***************************************************************************)
(* What the Host layer promises about its slot, without execs, processes   *)
(* and the way a destroy goes: a lock that a sandbox takes when it is      *)
(* created, at most once, and that is given back by the end of a destroy   *)
(* of that very sandbox and by nothing else.                               *)
(***************************************************************************)

CONSTANTS Runs, NoRun, Providers, ProviderOf

VARIABLES
  holder,    \* the sandbox that has the slot of a provider
  answered,  \* the runs whose create has been answered
  over       \* the runs whose sandbox a destroy has ended

vars == <<holder, answered, over>>

Init ==
  /\ holder = [p \in Providers |-> NoRun]
  /\ answered = {}
  /\ over = {}

Acquire(r) ==
  /\ r \notin answered /\ holder[ProviderOf[r]] = NoRun
  /\ holder' = [holder EXCEPT ![ProviderOf[r]] = r]
  /\ answered' = answered \union {r}
  /\ UNCHANGED over

\* Busy, or no sandbox id could be made.
Refuse(r) ==
  /\ r \notin answered
  /\ answered' = answered \union {r}
  /\ UNCHANGED <<holder, over>>

\* Only the first destroy to end gives the slot back.
Release(r) ==
  /\ r \notin over /\ holder[ProviderOf[r]] = r
  /\ holder' = [holder EXCEPT ![ProviderOf[r]] = NoRun]
  /\ over' = over \union {r}
  /\ UNCHANGED answered

Next == \E r \in Runs : Acquire(r) \/ Refuse(r) \/ Release(r)

Spec == Init /\ [][Next]_vars
=============================================================================
