------------------------- MODULE LifecycleEngine -------------------------
(***************************************************************************)
(* squadra.engines.LifecycleEngine: the pure function from what a tick     *)
(* observed of one increment (its facts) to a derived state and the        *)
(* intents the supervisor must run.  The guards keep the order of the      *)
(* code: the first one that holds decides.                                 *)
(***************************************************************************)
EXTENDS Integers, Sequences

Lifecycles == {"queued", "active", "done", "withdrawn"}

(* The four phases of a run that is under way (claiming, seams, tdd, qa)   *)
(* are one value: no guard tells them apart.  "none": no status file.      *)
Phases == {"none", "working", "parked", "done"}

ParkedStates ==
  {"none", "needs-decision", "qa-ready", "awaiting-pr-approval", "failed", "withdrawn"}

Containers == {"absent", "running", "exited"}

Intents ==
  {"NoAction", "AwaitAgent", "FinalizeCleanup", "HandoffAgentDone",
   "ParkNeedsDecision", "StopContainer", "RetryIncrement", "EscalateExhausted",
   "EscalateEgressDenied", "SweepLeak", "RelinquishClaim", "SignalClaimable"}

States ==
  {"OUT_OF_SCOPE", "PREDECESSOR_WITHDRAWN", "BLOCKED", "CLAIMABLE", "PROVISIONING",
   "RUNNING", "AGENT_DONE", "AGENT_DECISION", "AGENT_FAILED", "AGENT_TIMEOUT",
   "AWAITING_PR", "FINALIZING", "DONE", "WITHDRAWN", "WITHDRAWN_IN_FLIGHT",
   "ESCALATED", "PARKED_DECISION"}

Facts ==
  [lifecycle : Lifecycles, is_fleet_claimed : BOOLEAN,
   predecessors_done : BOOLEAN, predecessor_withdrawn : BOOLEAN,
   in_claim_scope : BOOLEAN, parked_tagged : BOOLEAN, failed_tagged : BOOLEAN,
   needs_decision_tagged : BOOLEAN, phase : Phases, parked_state : ParkedStates,
   container : Containers, exit_code : {0, 1}, heartbeat_stale : BOOLEAN,
   manifest_present : BOOLEAN, manifest_valid : BOOLEAN,
   manifest_needs_decision : BOOLEAN, commits_present : BOOLEAN,
   pr_completed : BOOLEAN, build_failed : BOOLEAN, egress_denied : BOOLEAN,
   teardown_failed : BOOLEAN, attempt : Nat, max_attempts : Nat]

Decision(state, actions) == [state |-> state, actions |-> actions]

Terminal(state) == Decision(state, <<"NoAction">>)

-----------------------------------------------------------------------------

(* Mutation: every parked status counts as deliberate.                     *)
IsAnyPark(f) == f.parked_tagged \/ f.phase \in {"done", "parked"}

(* Any parked tag, a finalized status, or a park other than a failed one.  *)
IsDeliberatePark(f) ==
  \/ f.parked_tagged
  \/ f.phase = "done"
  \/ f.phase = "parked" /\ f.parked_state # "failed"

IsFailedPark(f) == f.phase = "parked" /\ f.parked_state = "failed"

RetryOrEscalate(f) ==
  IF f.attempt >= f.max_attempts
    THEN Decision("ESCALATED", <<"EscalateExhausted">>)
    ELSE Decision("AGENT_FAILED", <<"RetryIncrement">>)

(* Mutation: a hung sandbox is retried without being stopped first.        *)
TimeoutNoStop(f) == Decision("AGENT_TIMEOUT", RetryOrEscalate(f).actions)

Timeout(f) ==
  Decision("AGENT_TIMEOUT", <<"StopContainer">> \o RetryOrEscalate(f).actions)

CompletionTriple(f) ==
  /\ f.exit_code = 0
  /\ f.manifest_present
  /\ f.manifest_valid
  /\ f.commits_present

ClassifyExited(f) ==
  IF ~ CompletionTriple(f) THEN RetryOrEscalate(f)
  ELSE IF f.manifest_needs_decision
    THEN Decision("AGENT_DECISION", <<"ParkNeedsDecision">>)
    ELSE Decision("AGENT_DONE", <<"HandoffAgentDone">>)

ClassifyInflight(f) ==
  IF f.egress_denied THEN Decision("ESCALATED", <<"EscalateEgressDenied">>)
  ELSE IF IsDeliberatePark(f) THEN Terminal("AWAITING_PR")
  ELSE IF f.build_failed THEN RetryOrEscalate(f)
  ELSE IF f.container = "exited" THEN ClassifyExited(f)
  ELSE IF f.container = "running"
    THEN IF f.heartbeat_stale THEN Timeout(f) ELSE Decision("RUNNING", <<"AwaitAgent">>)
  ELSE IF IsFailedPark(f) THEN RetryOrEscalate(f)
  ELSE Terminal("PROVISIONING")

(* Mutations: a done item is finalized without its pull request; or keeps  *)
(* its sandbox until the merge.                                            *)
FinalizeUnmerged(f) ==
  IF ~ f.is_fleet_claimed THEN Terminal("DONE")
  ELSE Decision("FINALIZING", <<"FinalizeCleanup">>)

AwaitMergeOnly(f) ==
  IF ~ f.is_fleet_claimed THEN Terminal("DONE")
  ELSE IF f.pr_completed THEN Decision("FINALIZING", <<"FinalizeCleanup">>)
  ELSE Terminal("AWAITING_PR")

ClassifyDone(f) ==
  IF ~ f.is_fleet_claimed THEN Terminal("DONE")
  ELSE IF f.pr_completed THEN Decision("FINALIZING", <<"FinalizeCleanup">>)
  ELSE IF f.container = "running" THEN Decision("AWAITING_PR", <<"StopContainer">>)
  ELSE Terminal("AWAITING_PR")

(* Mutation: only a withdrawn predecessor holds an item back.              *)
ClaimableUnlessWithdrawn(f) ==
  IF ~ f.in_claim_scope THEN Terminal("OUT_OF_SCOPE")
  ELSE IF f.predecessor_withdrawn THEN Terminal("PREDECESSOR_WITHDRAWN")
  ELSE Decision("CLAIMABLE", <<"SignalClaimable">>)

ClassifyQueued(f) ==
  IF ~ f.in_claim_scope THEN Terminal("OUT_OF_SCOPE")
  ELSE IF f.predecessor_withdrawn THEN Terminal("PREDECESSOR_WITHDRAWN")
  ELSE IF f.predecessors_done THEN Decision("CLAIMABLE", <<"SignalClaimable">>)
  ELSE Terminal("BLOCKED")

(* Mutation: a decision park outranks the withdrawal of its item.          *)
ClassifyTagsFirst(f) ==
  IF f.failed_tagged THEN Terminal("ESCALATED")
  ELSE IF f.needs_decision_tagged THEN Terminal("PARKED_DECISION")
  ELSE IF f.lifecycle = "withdrawn"
    THEN IF f.is_fleet_claimed
           THEN Decision("WITHDRAWN_IN_FLIGHT", <<"RelinquishClaim">>)
           ELSE Terminal("WITHDRAWN")
  ELSE IF f.lifecycle = "done" THEN ClassifyDone(f)
  ELSE IF f.lifecycle = "active"
    THEN IF f.is_fleet_claimed THEN ClassifyInflight(f) ELSE Terminal("RUNNING")
  ELSE ClassifyQueued(f)

Classify(f) ==
  IF f.lifecycle = "withdrawn" /\ f.is_fleet_claimed
    THEN Decision("WITHDRAWN_IN_FLIGHT", <<"RelinquishClaim">>)
  ELSE IF f.failed_tagged THEN Terminal("ESCALATED")
  ELSE IF f.needs_decision_tagged THEN Terminal("PARKED_DECISION")
  ELSE IF f.lifecycle = "withdrawn" THEN Terminal("WITHDRAWN")
  ELSE IF f.lifecycle = "done" THEN ClassifyDone(f)
  ELSE IF f.lifecycle = "active"
    THEN IF f.is_fleet_claimed THEN ClassifyInflight(f) ELSE Terminal("RUNNING")
  ELSE ClassifyQueued(f)

(* The leak sweep is layered on whatever the primary decision is.          *)
Decide(f) ==
  LET primary == Classify(f)
  IN  IF f.teardown_failed
        THEN Decision(primary.state, Append(primary.actions, "SweepLeak"))
        ELSE primary

=============================================================================
