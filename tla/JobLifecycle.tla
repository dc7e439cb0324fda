---------------------------- MODULE JobLifecycle ----------------------------
(***************************************************************************)
(* What the job transport promises, without the transport: a job row is    *)
(* created, dispatched, accepted and applied, each at most once and never  *)
(* backwards; the world changes at most once for it, never before it was   *)
(* dispatched; its first result is kept for ever, and is "applied" only if *)
(* the world did change; and it is APPLIED only with that result.          *)
(* JobDelivery implements this module.                                     *)
(***************************************************************************)
EXTENDS Naturals

CONSTANT Jobs

VARIABLES
  status,   \* the row's status, "none" before it exists
  attempt,  \* result of the job, "none" before there is one
  effect,   \* how often the job's change is present in the world
  happened  \* jobs whose change was made at some time

vars == <<status, attempt, effect, happened>>

Results == {"applied", "final_error"}

Init ==
  /\ status = [j \in Jobs |-> "none"]
  /\ attempt = [j \in Jobs |-> "none"]
  /\ effect = [j \in Jobs |-> 0]
  /\ happened = {}

\* Jobs of S move from one status of `from` to the next one.
Move(S, from, to) ==
  /\ \A j \in S : status[j] \in from
  /\ status' = [j \in Jobs |-> IF j \in S THEN to ELSE status[j]]
  /\ UNCHANGED <<attempt, effect, happened>>

Create(S) == Move(S, {"none"}, "QUEUED")
Dispatch(S) == Move(S, {"QUEUED"}, "DISPATCHED")
Accept(S) == Move(S, {"DISPATCHED"}, "WAITING_WORLD")
Confirm(S) ==
  /\ \A j \in S : attempt[j] = "applied"
  /\ Move(S, {"DISPATCHED", "WAITING_WORLD"}, "APPLIED")

\* The first result of a job that was dispatched.
Settle(j, r) ==
  /\ status[j] \notin {"none", "QUEUED"} /\ attempt[j] = "none"
  /\ r = "applied" => j \in happened
  /\ attempt' = [attempt EXCEPT ![j] = r]
  /\ UNCHANGED <<status, effect, happened>>

Apply(S) ==
  /\ \A j \in S : status[j] \notin {"none", "QUEUED"} /\ effect[j] = 0
  /\ effect' = [j \in Jobs |-> IF j \in S THEN 1 ELSE effect[j]]
  /\ happened' = happened \cup S
  /\ UNCHANGED <<status, attempt>>

\* The game loses what it has not saved.
Forget(S) ==
  /\ effect' = [j \in Jobs |-> IF j \in S THEN 0 ELSE effect[j]]
  /\ UNCHANGED <<status, attempt, happened>>

Next ==
  \/ \E S \in SUBSET Jobs :
       Create(S) \/ Dispatch(S) \/ Accept(S) \/ Confirm(S) \/ Apply(S) \/ Forget(S)
  \/ \E j \in Jobs, r \in Results : Settle(j, r)

Spec == Init /\ [][Next]_vars
=============================================================================
