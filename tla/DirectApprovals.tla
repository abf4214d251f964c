--------------------------- MODULE DirectApprovals ---------------------------
(***************************************************************************)
(* The tools a surface runs directly (request ui.tool.execute) and the     *)
(* decisions about them (approval.approve, approval.deny) in server.py.    *)
(*                                                                         *)
(* A tool that needs approval is recorded twice: its request in the        *)
(* approval store, which lasts, and the call itself in _direct_pending,    *)
(* which is memory.  Handlers of several connections interleave wherever   *)
(* they await: while a tool is evaluated or run in a thread.               *)
(***************************************************************************)
EXTENDS Naturals, FiniteSets, Sequences

CONSTANTS
  Call,         \* requests ui.tool.execute, each of which is made once
  Capacity,     \* most entries of _direct_pending for a new one (64)
  MaxDecisions, \* bound: requests to approve or deny
  MaxRestarts   \* bound: restarts of the daemon

ASSUME DirectApprovalsAssumption ==
  Capacity \in Nat \ {0} /\ {MaxDecisions, MaxRestarts} \subseteq Nat

VARIABLES
  store,     \* per call, the state of its request in the approval store
  direct,    \* the calls in _direct_pending
  stage,     \* per call, where its handlers are
  log,       \* per call, the events recorded for it
  decisions, \* the decisions so far (history)
  restarts   \* the restarts so far (history)

vars == <<store, direct, stage, log, decisions, restarts>>

ApprovalState == {"none", "pending", "granted", "denied"}

(* A call is evaluated, awaits a decision and runs; or it is refused for   *)
(* want of capacity, fails with an exception, or is lost in a restart.     *)
Stage == {"idle", "evaluating", "awaiting", "running", "done", "refused", "failed", "lost"}

Event == {"ToolStarted", "ApprovalRequired", "ToolCompleted", "ToolDenied"}

TypeOK ==
  /\ store \in [Call -> ApprovalState]
  /\ direct \subseteq Call
  /\ stage \in [Call -> Stage]
  /\ log \in [Call -> Seq(Event)]
  /\ decisions \in 0..MaxDecisions /\ restarts \in 0..MaxRestarts

Init ==
  /\ store = [c \in Call |-> "none"]
  /\ direct = {}
  /\ stage = [c \in Call |-> "idle"]
  /\ log = [c \in Call |-> <<>>]
  /\ decisions = 0 /\ restarts = 0

Enter(c, s) == stage' = [stage EXCEPT ![c] = s]
Record(c, event) == log' = [log EXCEPT ![c] = Append(@, event)]

(* Fault: an entry stays until its call removes it.                        *)
FaultPruned == direct

(* _prune_direct_pending: what the store has decided is dropped.           *)
Pruned == {c \in direct : store[c] = "pending"}

-----------------------------------------------------------------------------
Execute(c) ==
  /\ stage[c] = "idle"
  /\ Record(c, "ToolStarted")
  /\ Enter(c, "evaluating")
  /\ UNCHANGED <<store, direct, decisions, restarts>>

(* Fault: a new call takes the place of another.                           *)
FaultAwaitDecision(c) ==
  /\ stage[c] = "evaluating"
  /\ \E kept \in SUBSET Pruned :
       /\ Cardinality(kept) < Capacity
       /\ direct' = kept \cup {c}
  /\ store' = [store EXCEPT ![c] = "pending"]
  /\ Record(c, "ApprovalRequired")
  /\ Enter(c, "awaiting")
  /\ UNCHANGED <<decisions, restarts>>

(* Without capacity the request fails, before anything is registered.      *)
AwaitDecision(c) ==
  /\ stage[c] = "evaluating"
  /\ IF Cardinality(Pruned) < Capacity
     THEN /\ store' = [store EXCEPT ![c] = "pending"]
          /\ direct' = Pruned \cup {c}
          /\ Record(c, "ApprovalRequired")
          /\ Enter(c, "awaiting")
     ELSE direct' = Pruned /\ Enter(c, "refused") /\ UNCHANGED <<store, log>>
  /\ UNCHANGED <<decisions, restarts>>

(* A tool that needs no approval has run when it is evaluated.             *)
CompleteAtOnce(c) ==
  /\ stage[c] = "evaluating"
  /\ Record(c, "ToolCompleted")
  /\ Enter(c, "done")
  /\ UNCHANGED <<store, direct, decisions, restarts>>

(* An exception leaves the entry of an approved call behind.               *)
Fail(c) ==
  /\ stage[c] \in {"evaluating", "running"}
  /\ Enter(c, "failed")
  /\ UNCHANGED <<store, direct, log, decisions, restarts>>

Decide ==
  /\ decisions < MaxDecisions
  /\ decisions' = decisions + 1

(* A call that is not in _direct_pending (any more) is unknown: it has no  *)
(* row among the pending actions of turns.  The store grants what is       *)
(* pending.                                                                *)
Approve(c) ==
  /\ store[c] # "none" /\ Decide
  /\ direct' = Pruned
  /\ IF c \in Pruned /\ store[c] = "pending"
     THEN store' = [store EXCEPT ![c] = "granted"] /\ Enter(c, "running")
     ELSE UNCHANGED <<store, stage>>
  /\ UNCHANGED <<log, restarts>>

(* What the store says to a denial is not looked at.                       *)
Deny(c) ==
  /\ store[c] # "none" /\ Decide
  /\ IF c \in Pruned
     THEN /\ store' = [store EXCEPT ![c] = IF @ = "pending" THEN "denied" ELSE @]
          /\ direct' = Pruned \ {c}
          /\ Record(c, "ToolDenied")
          /\ Enter(c, IF stage[c] = "awaiting" THEN "done" ELSE stage[c])
     ELSE direct' = Pruned /\ UNCHANGED <<store, log, stage>>
  /\ UNCHANGED restarts

(* The tool of an approved call has run.                                   *)
Complete(c) ==
  /\ stage[c] = "running"
  /\ direct' = direct \ {c}
  /\ Record(c, "ToolCompleted")
  /\ Enter(c, "done")
  /\ UNCHANGED <<store, decisions, restarts>>

(* Listing the approvals reconciles, too.                                  *)
List ==
  /\ direct' = Pruned
  /\ UNCHANGED <<store, stage, log, decisions, restarts>>

(* stop() clears _direct_pending; what runs is lost.                       *)
Restart ==
  /\ restarts < MaxRestarts
  /\ restarts' = restarts + 1
  /\ direct' = {}
  /\ stage' = [c \in Call |->
       IF stage[c] \in {"evaluating", "awaiting", "running"} THEN "lost" ELSE stage[c]]
  /\ UNCHANGED <<store, log, decisions>>

ToolExecute(c) == Execute(c) \/ AwaitDecision(c) \/ CompleteAtOnce(c) \/ Complete(c) \/ Fail(c)
ApprovalAction(c) == Approve(c) \/ Deny(c)

Next == List \/ Restart \/ \E c \in Call : ToolExecute(c) \/ ApprovalAction(c)

Spec == Init /\ [][Next]_vars

-----------------------------------------------------------------------------
(* Properties.                                                             *)

(* A call has one outcome at most, and a call that is shown as denied was  *)
(* never run: two surfaces that decide at once, or decide while the tool   *)
(* runs, get one decision.                                                 *)
OneOutcome ==
  \A c \in Call :
    LET outcomes == {i \in DOMAIN log[c] : log[c][i] \in {"ToolCompleted", "ToolDenied"}} IN
    /\ \A i, j \in outcomes : i = j
    /\ \A i \in outcomes :
         log[c][i] = "ToolDenied" => store[c] = "denied" /\ stage[c] # "running"

(* A call that waits for a decision can be decided, until it is (README:   *)
(* "PENDING approvals have no wall-clock timeout and are not evicted"),    *)
(* or until the daemon restarts, which loses _direct_pending.              *)
PendingDecidable ==
  restarts = 0 => \A c \in Call : store[c] = "pending" => c \in direct

(* Capacity is backpressure: a call is refused only when as many calls     *)
(* really wait for a decision; those that run or have failed hold no place.*)
RefusedOnlyWhenFull ==
  [][\A c \in Call : stage[c] = "evaluating" /\ stage'[c] = "refused" =>
       Cardinality({d \in Call : stage[d] = "awaiting" /\ store[d] = "pending"}) >= Capacity]_vars
=============================================================================
