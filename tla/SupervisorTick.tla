-------------------------- MODULE SupervisorTick --------------------------
(***************************************************************************)
(* One fleet: the board, the increment directories and worktrees on the    *)
(* host, one sandbox per increment, and the supervisor tick that reads all *)
(* of it, decides with LifecycleEngine and acts, one seam call at a time   *)
(* (squadra.supervisor).  Between any two calls a runner, a person or a    *)
(* crash of the tick may step in.                                          *)
(*                                                                         *)
(* A tick holds the flock from its gather to its end, and the operating    *)
(* system drops the flock of a tick that dies.  A second tick that finds   *)
(* the lock held returns at once, so it is a stuttering step here.         *)
(***************************************************************************)
EXTENDS LifecycleEngine, FiniteSets

CONSTANTS
  Items,              \* work item ids; a tick treats them in id order
  Cap,                \* [fleet].cap: increments in flight at once
  MaxAttempts,        \* [fleet].max_attempts
  Predecessors,       \* item -> the items it is queued behind
  InScope,            \* items the claim scope admits
  RefusesClosed,      \* the board never reopens a closed item (GitHub)
  BootsCleanly,       \* a launched runner lives to write its status, before the next tick reads
  FlakyDocker,        \* compose down may fail with its compose file in place
  AgentLeavesBranch,  \* an agent may leave its worktree on another branch
  ExitOutcomes,       \* what an agent's run may leave behind
  HumanEdges,         \* <<from, to>> lifecycle moves people make by hand
  MaxMoves,           \* bound: moves by hand
  MaxCrashes          \* bound: ticks that die between two calls

ASSUME ItemsAssumption == Items \subseteq Nat /\ IsFiniteSet(Items)
ASSUME CapAssumption == Cap \in Nat
ASSUME AttemptsAssumption == MaxAttempts \in Nat \ {0}
ASSUME BoardAssumption ==
  /\ Predecessors \in [Items -> SUBSET Items]
  /\ HumanEdges \subseteq Lifecycles \X Lifecycles
ASSUME FlagsAssumption ==
  {RefusesClosed, BootsCleanly, FlakyDocker, AgentLeavesBranch} \subseteq BOOLEAN
ASSUME BoundsAssumption == MaxMoves \in Nat /\ MaxCrashes \in Nat

Exits ==
  [code : {0, 1}, commits : BOOLEAN,
   manifest : {"absent", "invalid", "pr", "needs-decision", "failed"}]

ASSUME ExitsAssumption == ExitOutcomes \subseteq Exits

VARIABLES
  lifecycle,   \* board: item -> bucket
  tags,        \* board: item -> fleet tags on it
  merged,      \* board: item -> attempt whose pull request completed, 0 if none
  status,      \* host: item -> status.json
  claimed_at,  \* host: item -> claimed-at marker
  trees,       \* host: <<item, attempt>> whose worktree is on disk
  branches,    \* host: <<item, attempt>> whose branch exists
  astray,      \* host: worktrees that are no longer on their own branch
  box,         \* docker: item -> its sandbox
  lock,        \* supervisor.lock, and how far the tick that holds it is
  view,        \* tick: item -> status.json as the tick read it
  plan,        \* tick: item -> calls still to make for it
  target,      \* tick: item -> attempt whose branch those calls name
  claims,      \* tick: claimable items not yet tried
  budget,      \* tick: claims it may still launch
  moves,       \* bound counter
  crashes      \* bound counter

board == <<lifecycle, tags, merged>>
disk  == <<status, claimed_at, trees, branches, astray>>
tick  == <<lock, view, plan, target, claims, budget>>
bounds == <<moves, crashes>>
vars  == <<board, disk, box, tick, bounds>>

-----------------------------------------------------------------------------

FleetTags == {"claimed", "failed", "needs-decision", "awaiting-pr-approval"}
ParkedTags == {"needs-decision", "awaiting-pr-approval"}

Statuses ==
  [attempt : Nat, phase : Phases, parked_state : ParkedStates, stale : BOOLEAN]
NoStatus == [attempt |-> 0, phase |-> "none", parked_state |-> "none", stale |-> FALSE]
NewStatus(a) == [NoStatus EXCEPT !.attempt = a, !.phase = "working"]
Parked(s, park) == [s EXCEPT !.phase = "parked", !.parked_state = park]
Finished(s) == [s EXCEPT !.phase = "done", !.parked_state = "none"]

(* A launched sandbox runs the runner: it boots, works, parks its status   *)
(* and leaves; "exited" is docker's word for a container that stopped.     *)
BoxStates == {"absent", "boot", "work", "leaving", "exited"}
Running == {"boot", "work", "leaving"}
Boxes == [state : BoxStates, attempt : Nat, exit : Exits, denied : BOOLEAN]
Killed == [code |-> 1, commits |-> FALSE, manifest |-> "absent"]
NoBox == [state |-> "absent", attempt |-> 0, exit |-> Killed, denied |-> FALSE]
NewBox(a) == [NoBox EXCEPT !.state = "boot", !.attempt = a]

Calls ==
  {"archive", "archive_if_present", "teardown", "park_failed", "park_withdrawn",
   "park_awaiting", "park_decision", "mark_done", "tag_claimed", "tag_failed",
   "tag_awaiting", "tag_decision", "drop_claimed", "drop_parks", "drop_all",
   "requeue", "delete_branch", "remove_worktree", "compose_down", "create", "activate",
   "mark_claimed_at", "launch", "unclaim"}

Claimed(i) == "claimed" \in tags[i]
InFlight == {i \in Items : lifecycle[i] = "active" /\ Claimed(i)}
Closed == {"done", "withdrawn"}
IsRunning(i) == box[i].state \in Running

-----------------------------------------------------------------------------
(* Gather: project what is observed of one item onto the engine's facts.   *)
(* The status was read first; the container is inspected after it.         *)

Seen(i) == view[i] # NoStatus

(* Branch, worktree, compose file and retry count all come from the status *)
(* file, or from attempt 1 while there is none.                            *)
CurrentAttempt(i) == IF Seen(i) THEN view[i].attempt ELSE 1

NextAttempt(i) == IF Seen(i) THEN view[i].attempt + 1 ELSE 1

(* Every compose call names the compose file inside that worktree: with    *)
(* the worktree gone the call fails and reads as no container.             *)
Container(i) ==
  IF <<i, CurrentAttempt(i)>> \notin trees THEN "absent"
  ELSE IF IsRunning(i) THEN "running" ELSE box[i].state

HeartbeatStale(i) == IF Seen(i) THEN view[i].stale ELSE claimed_at[i] = "stale"

FactsOf(i) ==
  LET inflight == i \in InFlight
      observed == IF Claimed(i) /\ lifecycle[i] \in {"active", "done"}
                    THEN Container(i) ELSE "absent"
      exited   == inflight /\ observed = "exited"
      queued   == lifecycle[i] = "queued"
      gated    == queued /\ i \in InScope
      manifest == box[i].exit.manifest
  IN  [lifecycle |-> lifecycle[i],
       is_fleet_claimed |-> Claimed(i),
       predecessors_done |-> gated => \A j \in Predecessors[i] : lifecycle[j] = "done",
       predecessor_withdrawn |->
         gated /\ \E j \in Predecessors[i] : lifecycle[j] = "withdrawn",
       in_claim_scope |-> queued => i \in InScope,
       parked_tagged |-> tags[i] \cap ParkedTags # {},
       failed_tagged |-> "failed" \in tags[i],
       needs_decision_tagged |-> "needs-decision" \in tags[i],
       phase |-> view[i].phase,
       parked_state |-> view[i].parked_state,
       container |-> observed,
       exit_code |-> box[i].exit.code,
       heartbeat_stale |-> HeartbeatStale(i),
       manifest_present |-> exited /\ manifest # "absent",
       manifest_valid |-> exited /\ manifest \notin {"absent", "invalid"},
       manifest_needs_decision |-> exited /\ manifest = "needs-decision",
       commits_present |-> exited /\ box[i].exit.commits,
       pr_completed |->
         lifecycle[i] = "done" /\ Claimed(i) /\ merged[i] = CurrentAttempt(i),
       build_failed |-> FALSE,
       egress_denied |-> inflight /\ observed # "absent" /\ box[i].denied,
       teardown_failed |-> FALSE,
       attempt |-> CurrentAttempt(i),
       max_attempts |-> MaxAttempts]

(* Mutation: free slots counted by the sandboxes that run.                 *)
SlotsByContainer == Cap - Cardinality({i \in Items : IsRunning(i)})

(* The claim budget: cap minus what the gather counted as in flight.       *)
FreeSlots == Cap - Cardinality(InFlight)

(* The items a tick looks at: a withdrawn one only while it is claimed.    *)
Relevant == {i \in Items : lifecycle[i] = "withdrawn" => Claimed(i)}

DecisionFor(i) == Decide(FactsOf(i)).actions

Claimable == {i \in Relevant : DecisionFor(i) = <<"SignalClaimable">>}

-----------------------------------------------------------------------------
(* Each intent as the calls its handler makes, in order.  `seen`: the tick *)
(* read a status file.                                                     *)

When(condition, calls) == IF condition THEN calls ELSE <<>>

Retry(seen) ==
  When(seen, <<"archive", "park_failed">>) \o <<"teardown", "drop_claimed", "requeue">>

(* Mutation: an exhausted item keeps its claim.                            *)
EscalateClaimed(seen) == When(seen, <<"archive">>) \o <<"teardown", "tag_failed">>

Escalate(seen) ==
  When(seen, <<"archive">>) \o <<"teardown", "tag_failed", "drop_claimed">>

EscalateEgress == <<"teardown", "tag_failed", "drop_claimed">>

(* Mutation: the worktree is archived before the sandbox is stopped.       *)
RelinquishArchiveFirst(seen) ==
  <<"archive_if_present", "teardown">> \o When(seen, <<"park_withdrawn">>)
    \o <<"drop_parks", "drop_claimed">>

Relinquish(seen) ==
  <<"teardown", "archive_if_present">> \o When(seen, <<"park_withdrawn">>)
    \o <<"drop_parks", "drop_claimed">>

Finalize(seen) ==
  <<"delete_branch", "remove_worktree", "compose_down", "drop_all">>
    \o When(seen, <<"mark_done">>)

Handoff(seen) == <<"tag_awaiting">> \o When(seen, <<"park_awaiting">>) \o <<"teardown">>

ParkNeedsDecision(seen) ==
  <<"tag_decision">> \o When(seen, <<"park_decision">>) \o <<"teardown">>

ClaimAndLaunch == <<"create", "activate", "tag_claimed", "mark_claimed_at", "launch">>

RollBack == <<"unclaim", "requeue">>

RunAction(intent, seen) ==
  CASE intent = "FinalizeCleanup"      -> Finalize(seen)
    [] intent = "HandoffAgentDone"     -> Handoff(seen)
    [] intent = "ParkNeedsDecision"    -> ParkNeedsDecision(seen)
    [] intent \in {"StopContainer", "SweepLeak"} -> <<"teardown">>
    [] intent = "RetryIncrement"       -> Retry(seen)
    [] intent = "EscalateExhausted"    -> Escalate(seen)
    [] intent = "EscalateEgressDenied" -> EscalateEgress
    [] intent = "RelinquishClaim"      -> Relinquish(seen)
    [] OTHER                           -> <<>>

Program(actions, seen) ==
  IF Len(actions) = 2
    THEN RunAction(actions[1], seen) \o RunAction(actions[2], seen)
    ELSE RunAction(actions[1], seen)

-----------------------------------------------------------------------------
(* One tick: lock, read, decide, act in id order, claim in id order.       *)

None == [i \in Items |-> <<>>]
NoTarget == [i \in Items |-> 0]
Unread == [i \in Items |-> NoStatus]

Init ==
  /\ lifecycle = [i \in Items |-> "queued"]
  /\ tags = [i \in Items |-> {}]
  /\ merged = [i \in Items |-> 0]
  /\ status = [i \in Items |-> NoStatus]
  /\ claimed_at = [i \in Items |-> "none"]
  /\ trees = {} /\ branches = {} /\ astray = {}
  /\ box = [i \in Items |-> NoBox]
  /\ lock = "free" /\ view = Unread /\ plan = None /\ target = NoTarget
  /\ claims = {} /\ budget = 0
  /\ moves = 0 /\ crashes = 0

StartTick ==
  /\ lock = "free"
  /\ BootsCleanly => \A i \in Items : box[i].state # "boot"
  /\ lock' = "reading"
  /\ view' = status
  /\ UNCHANGED <<board, disk, box, plan, target, claims, budget, bounds>>

(* With claim work pending, a dead credential drops the claims only.       *)
Gather ==
  /\ lock = "reading"
  /\ lock' = "acting"
  /\ plan' = [i \in Items |->
       IF i \in Relevant THEN Program(DecisionFor(i), Seen(i)) ELSE <<>>]
  /\ target' = [i \in Items |->
       IF i \in Claimable THEN NextAttempt(i) ELSE CurrentAttempt(i)]
  /\ claims' \in {Claimable, {}}
  /\ budget' = FreeSlots
  /\ view' = Unread
  /\ UNCHANGED <<board, disk, box, bounds>>

Turn(i, call) ==
  /\ lock = "acting"
  /\ plan[i] # <<>>
  /\ \A j \in Items : plan[j] # <<>> => i <= j
  /\ Head(plan[i]) = call

Advance(i) ==
  /\ plan' = [plan EXCEPT ![i] = Tail(@)]
  /\ UNCHANGED <<lock, view, target, claims, budget>>

(* The handler returns early: the rest of this item's calls are not made.  *)
Abandon(i) ==
  /\ plan' = [plan EXCEPT ![i] = <<>>]
  /\ UNCHANGED <<lock, view, target, claims, budget>>

Released ==
  /\ lock' = "free" /\ view' = Unread /\ plan' = None /\ target' = NoTarget
  /\ claims' = {} /\ budget' = 0

(* Mutation: the claim pass trusts the engine to have escalated.           *)
ClaimRegardless(i) == ClaimAndLaunch

(* An item requeued by hand beyond the cap is escalated, not claimed.      *)
ClaimProgram(i) ==
  IF target[i] > MaxAttempts THEN <<"tag_failed">> ELSE ClaimAndLaunch

BeginClaim(i) ==
  /\ lock = "acting" /\ plan = None /\ budget > 0
  /\ i \in claims /\ \A j \in claims : i <= j
  /\ claims' = claims \ {i}
  /\ plan' = [plan EXCEPT ![i] = ClaimProgram(i)]
  /\ UNCHANGED <<board, disk, box, lock, view, target, budget, bounds>>

EndTick ==
  /\ lock = "acting" /\ plan = None
  /\ claims = {} \/ budget <= 0
  /\ Released
  /\ UNCHANGED <<board, disk, box, bounds>>

(* The host reboots, the tick is killed, or a board call fails: the tick   *)
(* ends between two calls and leaves everything as it is.                  *)
Crash ==
  /\ lock = "acting" /\ crashes < MaxCrashes
  /\ crashes' = crashes + 1
  /\ Released
  /\ UNCHANGED <<board, disk, box, moves>>

-----------------------------------------------------------------------------
(* The calls, each one step of the tick against the board or the host.     *)

TagOf == [tag_claimed |-> "claimed", tag_failed |-> "failed",
          tag_awaiting |-> "awaiting-pr-approval", tag_decision |-> "needs-decision"]

AddTag(i) ==
  \E call \in DOMAIN TagOf :
    /\ Turn(i, call)
    /\ tags' = [tags EXCEPT ![i] = @ \cup {TagOf[call]}]
    /\ Advance(i)
    /\ UNCHANGED <<lifecycle, merged, disk, box, bounds>>

(* The same write by a handler and by the roll back of a claim.            *)
DropClaimed(i) ==
  /\ Turn(i, "drop_claimed") \/ Turn(i, "unclaim")
  /\ tags' = [tags EXCEPT ![i] = @ \ {"claimed"}]
  /\ Advance(i)
  /\ UNCHANGED <<lifecycle, merged, disk, box, bounds>>

(* A loop over the item's fleet tags, one board write each, in the order   *)
(* the board listed them.                                                  *)
DropTags(i, call, keep) ==
  /\ Turn(i, call)
  /\ IF tags[i] \subseteq keep
       THEN tags' = tags /\ Advance(i)
       ELSE /\ \E t \in tags[i] \ keep : tags' = [tags EXCEPT ![i] = @ \ {t}]
            /\ UNCHANGED tick
  /\ UNCHANGED <<lifecycle, merged, disk, box, bounds>>

Drop(i) ==
  \/ DropTags(i, "drop_parks", {"claimed"})
  \/ DropTags(i, "drop_all", {})

(* A board that refuses the write is reported, and the handler returns.    *)
SetState(i, call, bucket) ==
  /\ Turn(i, call)
  /\ IF RefusesClosed /\ lifecycle[i] \in Closed
       THEN lifecycle' = lifecycle /\ Abandon(i)
       ELSE lifecycle' = [lifecycle EXCEPT ![i] = bucket] /\ Advance(i)
  /\ UNCHANGED <<tags, merged, disk, box, bounds>>

MoveItem(i) == SetState(i, "requeue", "queued") \/ SetState(i, "activate", "active")

(* Mutation: a parked state status.py does not know.                       *)
ParkedAsReaped == [park_failed |-> "reaped", park_withdrawn |-> "withdrawn",
                   park_awaiting |-> "awaiting-pr-approval",
                   park_decision |-> "needs-decision"]

ParkedAs == [park_failed |-> "failed", park_withdrawn |-> "withdrawn",
             park_awaiting |-> "awaiting-pr-approval", park_decision |-> "needs-decision"]

(* An update merges into the file as it is now, whoever wrote it last.     *)
Park(i) ==
  \E call \in DOMAIN ParkedAs :
    /\ Turn(i, call)
    /\ status' = [status EXCEPT ![i] = Parked(@, ParkedAs[call])]
    /\ Advance(i)
    /\ UNCHANGED <<board, claimed_at, trees, branches, astray, box, bounds>>

MarkDone(i) ==
  /\ Turn(i, "mark_done")
  /\ status' = [status EXCEPT ![i] = Finished(@)]
  /\ Advance(i)
  /\ UNCHANGED <<board, claimed_at, trees, branches, astray, box, bounds>>

Here(i) == <<i, target[i]>>

(* The move raises when the directory is gone, and nothing catches it.     *)
Archive(i) ==
  /\ Turn(i, "archive")
  /\ IF Here(i) \in trees THEN Advance(i) ELSE Released
  /\ trees' = trees \ {Here(i)}
  /\ astray' = astray \ {Here(i)}
  /\ UNCHANGED <<board, status, claimed_at, branches, box, bounds>>

ArchiveIfPresent(i) ==
  /\ Turn(i, "archive_if_present")
  /\ trees' = trees \ {Here(i)}
  /\ astray' = astray \ {Here(i)}
  /\ Advance(i)
  /\ UNCHANGED <<board, status, claimed_at, branches, box, bounds>>

(* compose -f names the compose file in the worktree; its failure is       *)
(* returned and dropped by every caller.                                   *)
Teardown(i) ==
  /\ Turn(i, "teardown")
  /\ \/ Here(i) \in trees /\ box' = [box EXCEPT ![i] = NoBox]
     \/ (FlakyDocker \/ Here(i) \notin trees) /\ box' = box
  /\ Advance(i)
  /\ UNCHANGED <<board, disk, bounds>>

(* CleanupAccess.finalize runs its steps whatever the others did; after    *)
(* one that failed, the rest of the cleanup is all that is still to come.  *)
OnlyStill(i, rest) ==
  /\ plan' = [plan EXCEPT ![i] = rest]
  /\ UNCHANGED <<lock, view, target, claims, budget>>

(* `git branch -D`: refused while a worktree has the branch checked out.   *)
DeleteBranch(i) ==
  LET deleted == Here(i) \in branches /\ Here(i) \notin trees \ astray
  IN  /\ Turn(i, "delete_branch")
      /\ branches' = IF deleted THEN branches \ {Here(i)} ELSE branches
      /\ IF deleted THEN Advance(i) ELSE OnlyStill(i, <<"remove_worktree", "compose_down">>)
      /\ UNCHANGED <<board, status, claimed_at, trees, astray, box, bounds>>

(* `git worktree remove --force`, then prune: whoever still works in it.   *)
RemoveWorktree(i) ==
  /\ Turn(i, "remove_worktree")
  /\ trees' = trees \ {Here(i)}
  /\ astray' = astray \ {Here(i)}
  /\ IF Here(i) \in trees THEN Advance(i) ELSE OnlyStill(i, <<"compose_down">>)
  /\ UNCHANGED <<board, status, claimed_at, branches, box, bounds>>

(* The project goes down by its name, so that no compose file is needed.   *)
(* The rest of the finalize is reached only when all of it worked.         *)
ComposeDown(i) ==
  /\ Turn(i, "compose_down")
  /\ \/ box' = [box EXCEPT ![i] = NoBox] /\ Advance(i)
     \/ FlakyDocker /\ box' = box /\ Abandon(i)
  /\ UNCHANGED <<board, disk, bounds>>

Cleanup(i) == DeleteBranch(i) \/ RemoveWorktree(i) \/ ComposeDown(i)

(* Mutation: `git worktree add -B`, which takes over an existing branch.   *)
CreateAnew(i) ==
  /\ Turn(i, "create")
  /\ branches' = branches \cup {Here(i)}
  /\ trees' = trees \cup {Here(i)}
  /\ Advance(i)
  /\ UNCHANGED <<board, status, claimed_at, astray, box, bounds>>

(* Fetch, then `git worktree add -b`: refused when the branch exists.      *)
Create(i) ==
  /\ Turn(i, "create")
  /\ \/ /\ Here(i) \notin branches \cup trees
        /\ branches' = branches \cup {Here(i)}
        /\ trees' = trees \cup {Here(i)}
        /\ Advance(i)
     \/ branches' = branches /\ trees' = trees /\ Abandon(i)
  /\ UNCHANGED <<board, status, claimed_at, astray, box, bounds>>

MarkClaimedAt(i) ==
  /\ Turn(i, "mark_claimed_at")
  /\ claimed_at' = [claimed_at EXCEPT ![i] = "fresh"]
  /\ Advance(i)
  /\ UNCHANGED <<board, status, trees, branches, astray, box, bounds>>

(* compose up replaces whatever the project ran before.  A launch that     *)
(* fails rolls the claim back.                                             *)
Launch(i) ==
  /\ Turn(i, "launch")
  /\ \/ /\ box' = [box EXCEPT ![i] = NewBox(target[i])]
        /\ budget' = budget - 1
        /\ plan' = [plan EXCEPT ![i] = <<>>]
     \/ /\ plan' = [plan EXCEPT ![i] = RollBack]
        /\ UNCHANGED <<box, budget>>
  /\ UNCHANGED <<board, disk, lock, view, target, claims, bounds>>

Call(i) ==
  \/ AddTag(i) \/ DropClaimed(i) \/ Drop(i) \/ MoveItem(i)
  \/ Park(i) \/ MarkDone(i)
  \/ Archive(i) \/ ArchiveIfPresent(i) \/ Teardown(i) \/ Cleanup(i)
  \/ Create(i) \/ MarkClaimedAt(i) \/ Launch(i)

TickStep == StartTick \/ Gather \/ EndTick \/ \E i \in Items : BeginClaim(i) \/ Call(i)

-----------------------------------------------------------------------------
(* The sandbox: runner-wrap.sh, and the agent it runs.                     *)

RunnerStep(i, state) ==
  /\ box' = [box EXCEPT ![i].state = state]
  /\ UNCHANGED <<board, claimed_at, trees, branches, tick, bounds>>

(* `status init` writes the whole file before anything else happens.       *)
Boots(i) ==
  /\ box[i].state = "boot"
  /\ status' = [status EXCEPT ![i] = NewStatus(box[i].attempt)]
  /\ RunnerStep(i, "work")
  /\ UNCHANGED astray

(* The agent parks its status first, then writes a manifest that mirrors   *)
(* the park (or fails to), and leaves.                                     *)
Mirrors(manifest) ==
  CASE manifest = "pr"             -> {"awaiting-pr-approval"}
    [] manifest = "needs-decision" -> {"needs-decision"}
    [] manifest = "failed"         -> {"failed"}
    [] OTHER -> {"awaiting-pr-approval", "needs-decision", "failed"}

AgentParks(i) ==
  /\ box[i].state = "work"
  /\ \E e \in ExitOutcomes : \E park \in Mirrors(e.manifest) :
       /\ status' = [status EXCEPT ![i] = Parked(@, park)]
       /\ box' = [box EXCEPT ![i].state = "leaving", ![i].exit = e]
  /\ UNCHANGED <<board, claimed_at, trees, branches, astray, tick, bounds>>

AgentExits(i) ==
  /\ box[i].state = "leaving"
  /\ RunnerStep(i, "exited")
  /\ UNCHANGED <<status, astray>>

(* The wrapper's backstop: an agent that ends without parking is recorded  *)
(* as failed, and the wrapper's exit code is then never 0.                 *)
Backstop(i) ==
  /\ box[i].state = "work"
  /\ status' = IF status[i].phase \in {"parked", "done"} THEN status
               ELSE [status EXCEPT ![i] = Parked(@, "failed")]
  /\ RunnerStep(i, "exited")
  /\ UNCHANGED astray

(* The container dies with no last word (out of memory, host reboot, a     *)
(* runner that cannot start).                                              *)
Dies(i) ==
  /\ IsRunning(i)
  /\ BootsCleanly => box[i].state # "boot"
  /\ box' = [box EXCEPT ![i].state = "exited", ![i].exit = Killed]
  /\ UNCHANGED <<board, disk, tick, bounds>>

EgressDenied(i) ==
  /\ IsRunning(i) /\ ~ box[i].denied
  /\ box' = [box EXCEPT ![i].denied = TRUE]
  /\ UNCHANGED <<board, disk, tick, bounds>>

Strays(i) ==
  /\ AgentLeavesBranch /\ box[i].state = "work"
  /\ <<i, box[i].attempt>> \in trees \ astray
  /\ astray' = astray \cup {<<i, box[i].attempt>>}
  /\ UNCHANGED <<board, status, claimed_at, trees, branches, box, tick, bounds>>

(* Time passes without a heartbeat; a live runner may still send the next. *)
Ages(i) ==
  \/ /\ status[i] # NoStatus /\ ~ status[i].stale
     /\ status' = [status EXCEPT ![i].stale = TRUE]
     /\ UNCHANGED <<board, claimed_at, trees, branches, astray, box, tick, bounds>>
  \/ /\ claimed_at[i] = "fresh"
     /\ claimed_at' = [claimed_at EXCEPT ![i] = "stale"]
     /\ UNCHANGED <<board, status, trees, branches, astray, box, tick, bounds>>

Heartbeat(i) ==
  /\ box[i].state \in {"work", "leaving"} /\ status[i].stale
  /\ status' = [status EXCEPT ![i].stale = FALSE]
  /\ UNCHANGED <<board, claimed_at, trees, branches, astray, box, tick, bounds>>

Runner(i) ==
  \/ Boots(i) \/ AgentParks(i) \/ AgentExits(i) \/ Backstop(i) \/ Dies(i)
  \/ EgressDenied(i) \/ Strays(i) \/ Ages(i) \/ Heartbeat(i)

-----------------------------------------------------------------------------
(* People, on the board and at the pull request.                           *)

HumanMove(i) ==
  /\ moves < MaxMoves
  /\ \E to \in Lifecycles :
       /\ <<lifecycle[i], to>> \in HumanEdges
       /\ lifecycle' = [lifecycle EXCEPT ![i] = to]
  /\ moves' = moves + 1
  /\ UNCHANGED <<tags, merged, disk, box, tick, crashes>>

(* A person clears a park or an escalation; `claimed` is the fleet's.      *)
HumanUntag(i) ==
  /\ moves < MaxMoves
  /\ \E t \in tags[i] \ {"claimed"} : tags' = [tags EXCEPT ![i] = @ \ {t}]
  /\ moves' = moves + 1
  /\ UNCHANGED <<lifecycle, merged, disk, box, tick, crashes>>

PRMerges(i) ==
  /\ merged[i] = 0
  /\ status[i].phase = "parked" /\ status[i].parked_state = "awaiting-pr-approval"
  /\ merged' = [merged EXCEPT ![i] = status[i].attempt]
  /\ UNCHANGED <<lifecycle, tags, disk, box, tick, bounds>>

Human(i) == HumanMove(i) \/ HumanUntag(i) \/ PRMerges(i)

-----------------------------------------------------------------------------

Next == TickStep \/ Crash \/ \E i \in Items : Runner(i) \/ Human(i)

Spec == Init /\ [][Next]_vars

(* cron starts a tick every few minutes and a tick makes progress; a       *)
(* container that was started starts.  Agents and people owe us nothing.   *)
FairSpec == Spec /\ WF_vars(TickStep) /\ \A i \in Items : WF_vars(Boots(i))

-----------------------------------------------------------------------------

TypeOK ==
  /\ lifecycle \in [Items -> Lifecycles]
  /\ tags \in [Items -> SUBSET FleetTags]
  /\ merged \in [Items -> Nat]
  /\ status \in [Items -> Statuses]
  /\ claimed_at \in [Items -> {"none", "fresh", "stale"}]
  /\ trees \subseteq Items \X Nat
  /\ branches \subseteq Items \X Nat
  /\ astray \subseteq Items \X Nat
  /\ box \in [Items -> Boxes]
  /\ lock \in {"free", "reading", "acting"}
  /\ view \in [Items -> Statuses]
  /\ plan \in [Items -> Seq(Calls)]
  /\ target \in [Items -> Nat]
  /\ claims \subseteq Items
  /\ budget \in Int
  /\ moves \in Nat /\ crashes \in Nat

(* run_tick: the fleet never has more claimed, active items than its cap,  *)
(* whatever dies in between and whoever moves items off the board's        *)
(* active column meanwhile.                                                *)
InFlightWithinCap == Cardinality(InFlight) <= Cap

(* _retry, _next_attempt: no sandbox and no status ever names an attempt   *)
(* beyond the cap, through requeues, relinquished claims and hand moves.   *)
AttemptsWithinCap ==
  \A i \in Items : box[i].attempt <= MaxAttempts /\ status[i].attempt <= MaxAttempts

(* _claim_and_launch: a sandbox is never started a second time on an       *)
(* attempt whose runner already reported, nor while an older one runs      *)
(* under a newer status: attempts only grow.                               *)
AttemptsOnlyGrow ==
  [][\A i \in Items :
       /\ status'[i].attempt >= status[i].attempt
       /\ box'[i].state = "boot" /\ box[i].state # "boot"
            => box'[i].attempt > status[i].attempt]_vars

(* CleanupAccess.finalize: a branch is deleted only when its pull request  *)
(* completed, whatever the status said by the time of the call.            *)
BranchesOutliveTheirPR ==
  [][\A b \in branches \ branches' : merged[b[1]] = b[2]]_vars

(* The claim is the sandbox's owner: between ticks, no running sandbox     *)
(* belongs to an item the fleet no longer claims, or no tick would ever    *)
(* stop it.                                                                *)
RunningMeansClaimed ==
  lock = "free" => \A i \in Items : IsRunning(i) => Claimed(i)

(* worktree.archive, cleanup.remove_worktree: /work is never taken from    *)
(* under a sandbox that is running, unless what it works on was merged: a  *)
(* finalize removes the worktree before it takes the sandbox down.         *)
RunnerKeepsItsWorktree ==
  \A i \in Items :
    IsRunning(i) => <<i, box[i].attempt>> \in trees \/ merged[i] = box[i].attempt

(* _queued_gates: no sandbox is started for an item behind one that is not *)
(* delivered.                                                              *)
PredecessorsDelivered ==
  \A i \in Items : IsRunning(i) => \A j \in Predecessors[i] : lifecycle[j] = "done"

(* README, Reap: a deliberate park is never reaped: the tick archives the  *)
(* worktree of a parked attempt only for an item that was withdrawn.       *)
ParkedWorkIsKept ==
  [][\A i \in Items :
       LET here == <<i, status[i].attempt>> IN
         /\ here \in trees \ trees'
         /\ status[i].phase = "parked"
         /\ status[i].parked_state \in {"needs-decision", "awaiting-pr-approval"}
         => lifecycle[i] = "withdrawn" \/ merged[i] = status[i].attempt]_vars

(* The retry contract of _claim_and_launch: while an item waits in the     *)
(* queue with attempts left, the branch its next claim creates is free.    *)
NextBranchIsFree ==
  \A i \in Items :
    lock = "free" /\ lifecycle[i] = "queued" /\ status[i].attempt < MaxAttempts
      => <<i, status[i].attempt + 1>> \notin branches

(* _classify_exited: a run the agent declared failed is never presented    *)
(* for pull request approval.                                              *)
FailedRunIsNotHandedOff ==
  [][\A i \in Items :
       "awaiting-pr-approval" \in tags'[i] \ tags[i]
         => box[i].exit.manifest # "failed"]_vars

(* _escalate: once a tick is over, an escalated item holds no claim.       *)
EscalatedIsReleased ==
  lock = "free" => \A i \in Items : ~ {"failed", "claimed"} \subseteq tags[i]

IsDead(i) ==
  /\ lifecycle[i] = "active" /\ Claimed(i)
  /\ box[i].state = "exited" /\ box[i].exit.code = 1
  /\ tags[i] = {"claimed"}
  /\ status[i].phase = "parked" /\ status[i].parked_state = "failed"

(* README, Reap: the watchdog recovers from dead runners: no claimed item  *)
(* stays behind a runner that died with its failure recorded, as long as   *)
(* no tick dies.                                                           *)
DeadRunnerIsReaped == \A i \in Items : IsDead(i) ~> ~ IsDead(i) \/ crashes > 0

(* README, Reap, as it is written: the watchdog recovers from dead runners,*)
(* wherever a tick died before.                                            *)
DeadRunnerIsAlwaysReaped == \A i \in Items : IsDead(i) ~> ~ IsDead(i)

(* _relinquish: an increment someone withdrew in flight is let go, with    *)
(* its sandbox stopped.                                                    *)
WithdrawnIsRelinquished ==
  \A i \in Items :
    lifecycle[i] = "withdrawn" /\ Claimed(i)
      ~> (~ Claimed(i) /\ ~ IsRunning(i)) \/ lifecycle[i] # "withdrawn"

(* _classify_done: closing an item by hand stops its sandbox.              *)
ClosedByHandIsStopped ==
  \A i \in Items :
    lifecycle[i] = "done" /\ Claimed(i) /\ IsRunning(i) /\ tags[i] = {"claimed"}
      ~> ~ IsRunning(i)

IsMerged(i) ==
  /\ lifecycle[i] = "done" /\ Claimed(i)
  /\ status[i] # NoStatus /\ merged[i] = status[i].attempt
  /\ tags[i] \cap {"failed", "needs-decision"} = {}

(* _finalize: a merged increment is retired; a leftover artifact is        *)
(* retried next tick.                                                      *)
MergedIsFinalized == \A i \in Items : IsMerged(i) ~> ~ Claimed(i)

-----------------------------------------------------------------------------
(* Why the two caps hold: what is true of the plans, the claims and the    *)
(* budget at every step of a tick.                                         *)

ClaimCalls ==
  {"create", "activate", "tag_claimed", "mark_claimed_at", "launch", "unclaim"}

OtherCalls == Calls \ ClaimCalls

ClaimPlans ==
  {ClaimAndLaunch,
   <<"activate", "tag_claimed", "mark_claimed_at", "launch">>,
   <<"tag_claimed", "mark_claimed_at", "launch">>,
   <<"mark_claimed_at", "launch">>,
   <<"launch">>,
   RollBack}

(* The item the claim pass is working on, if any.                          *)
Claiming == {i \in Items : plan[i] \in ClaimPlans}

PlanShape == \A i \in Items : plan[i] \in Seq(OtherCalls) \cup ClaimPlans

NoPlanBetweenTicks == lock # "acting" => plan = None /\ claims = {}

OneClaimAtATime ==
  \A i \in Claiming :
    budget > 0 /\ i \notin claims /\ \A j \in Items \ {i} : plan[j] = <<>>

(* Until its claim activates it, an item to claim is not active.           *)
ClaimsAreNotActive ==
  \A i \in Items :
    \/ i \in claims
    \/ plan[i] \in {ClaimAndLaunch,
                    <<"activate", "tag_claimed", "mark_claimed_at", "launch">>}
    => lifecycle[i] # "active"

(* The item being claimed uses one of the slots the budget still holds.    *)
SlotsAddUp == budget >= 0 /\ Cardinality(InFlight \ Claiming) + budget <= Cap

ClaimInv ==
  PlanShape /\ NoPlanBetweenTicks /\ OneClaimAtATime /\ ClaimsAreNotActive /\ SlotsAddUp

AttemptInv ==
  /\ AttemptsWithinCap
  /\ \A i \in Items : view[i].attempt <= MaxAttempts
  /\ \A i \in Claiming : target[i] <= MaxAttempts

=============================================================================
