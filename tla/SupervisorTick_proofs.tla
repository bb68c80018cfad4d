------------------------ MODULE SupervisorTick_proofs ------------------------
(***************************************************************************)
(* What holds of a fleet of any size, under any cap, attempt budget, board *)
(* and flags: type correctness, the retry cap and the claim budget.        *)
(***************************************************************************)
EXTENDS SupervisorTick, FiniteSetTheorems, TLAPS

USE DEF board, disk, tick, bounds, vars

-----------------------------------------------------------------------------
(* The programs a tick runs for an item it does not claim.                 *)

LEMMA WhenType ==
  ASSUME NEW c \in BOOLEAN, NEW s \in Seq(OtherCalls)
  PROVE  When(c, s) \in Seq(OtherCalls)
BY DEF When

(* No handler of an intent other than a claim makes a call of the claim    *)
(* protocol, whatever the intent.                                          *)
LEMMA RunActionType ==
  ASSUME NEW intent, NEW seen \in BOOLEAN
  PROVE  RunAction(intent, seen) \in Seq(OtherCalls)
<1> DEFINE O == OtherCalls
<1>1. /\ <<"archive", "park_failed">> \in Seq(O)
      /\ <<"teardown", "drop_claimed", "requeue">> \in Seq(O)
      /\ <<"archive">> \in Seq(O)
      /\ <<"teardown", "tag_failed", "drop_claimed">> \in Seq(O)
      /\ <<"teardown", "archive_if_present">> \in Seq(O)
      /\ <<"park_withdrawn">> \in Seq(O)
      /\ <<"drop_parks", "drop_claimed">> \in Seq(O)
      /\ <<"delete_branch", "remove_worktree", "compose_down", "drop_all">> \in Seq(O)
      /\ <<"mark_done">> \in Seq(O)
      /\ <<"tag_awaiting">> \in Seq(O)
      /\ <<"park_awaiting">> \in Seq(O)
      /\ <<"teardown">> \in Seq(O)
      /\ <<"tag_decision">> \in Seq(O)
      /\ <<"park_decision">> \in Seq(O)
      /\ <<>> \in Seq(O)
  BY DEF OtherCalls, Calls, ClaimCalls
<1>2. \A s, t \in Seq(O) : s \o t \in Seq(O)
  OBVIOUS
<1>3. \A s \in Seq(O) : When(seen, s) \in Seq(O)
  BY WhenType
<1> HIDE DEF O
<1>4. Retry(seen) \in Seq(O)
  BY <1>1, <1>2, <1>3 DEF Retry
<1>5. Escalate(seen) \in Seq(O)
  BY <1>1, <1>2, <1>3 DEF Escalate
<1>6. Relinquish(seen) \in Seq(O)
  BY <1>1, <1>2, <1>3 DEF Relinquish
<1>7. Finalize(seen) \in Seq(O)
  BY <1>1, <1>2, <1>3 DEF Finalize
<1>8. Handoff(seen) \in Seq(O)
  BY <1>1, <1>2, <1>3 DEF Handoff
<1>9. ParkNeedsDecision(seen) \in Seq(O)
  BY <1>1, <1>2, <1>3 DEF ParkNeedsDecision
<1>10. EscalateEgress \in Seq(O)
  BY <1>1 DEF EscalateEgress
<1>11. RunAction(intent, seen) \in Seq(O)
  <2>1. CASE intent = "FinalizeCleanup"
    BY <2>1, <1>7 DEF RunAction
  <2>2. CASE intent = "HandoffAgentDone"
    BY <2>2, <1>8 DEF RunAction
  <2>3. CASE intent = "ParkNeedsDecision"
    BY <2>3, <1>9 DEF RunAction
  <2>4. CASE intent \in {"StopContainer", "SweepLeak"}
    BY <2>4, <1>1 DEF RunAction
  <2>5. CASE intent = "RetryIncrement"
    BY <2>5, <1>4 DEF RunAction
  <2>6. CASE intent = "EscalateExhausted"
    BY <2>6, <1>5 DEF RunAction
  <2>7. CASE intent = "EscalateEgressDenied"
    BY <2>7, <1>10 DEF RunAction
  <2>8. CASE intent = "RelinquishClaim"
    BY <2>8, <1>6 DEF RunAction
  <2>9. CASE intent \notin {"FinalizeCleanup", "HandoffAgentDone", "ParkNeedsDecision",
                            "StopContainer", "SweepLeak", "RetryIncrement",
                            "EscalateExhausted", "EscalateEgressDenied", "RelinquishClaim"}
    BY <2>9, <1>1 DEF RunAction
  <2> QED
    BY <2>1, <2>2, <2>3, <2>4, <2>5, <2>6, <2>7, <2>8, <2>9
<1> QED
  BY <1>11 DEF O

LEMMA ProgramType ==
  ASSUME NEW actions, NEW seen \in BOOLEAN
  PROVE  Program(actions, seen) \in Seq(OtherCalls)
<1>1. /\ RunAction(actions[1], seen) \in Seq(OtherCalls)
      /\ RunAction(actions[2], seen) \in Seq(OtherCalls)
  BY RunActionType
<1> QED
  BY <1>1 DEF Program

LEMMA PlansType ==
  /\ ClaimPlans \subseteq Seq(Calls)
  /\ Seq(OtherCalls) \subseteq Seq(Calls)
BY DEF ClaimPlans, OtherCalls, ClaimCalls, Calls, ClaimAndLaunch, RollBack

-----------------------------------------------------------------------------
(* Type correctness.                                                       *)

LEMMA StatusType ==
  /\ NoStatus \in Statuses
  /\ NoBox \in Boxes
  /\ Killed \in Exits
  /\ \A a \in Nat : NewStatus(a) \in Statuses /\ NewBox(a) \in Boxes
BY DEF NoStatus, NewStatus, Statuses, Phases, ParkedStates, NoBox, NewBox, Boxes,
       BoxStates, Killed, Exits

LEMMA UpdateType ==
  ASSUME NEW s \in Statuses
  PROVE  /\ Finished(s) \in Statuses
         /\ \A park \in ParkedStates : Parked(s, park) \in Statuses
<1>1. {"done", "parked"} \subseteq Phases /\ "none" \in ParkedStates
  BY DEF Phases, ParkedStates
<1>2. \A ph \in Phases, park \in ParkedStates :
        [s EXCEPT !.phase = ph, !.parked_state = park] \in Statuses
  <2> HIDE DEF Phases, ParkedStates
  <2> QED
    BY DEF Statuses
<1> QED
  BY <1>1, <1>2 DEF Finished, Parked

LEMMA InitType == Init => TypeOK
BY StatusType DEF Init, TypeOK, Unread, None, NoTarget, Lifecycles

LEMMA GatherType == TypeOK /\ Gather => TypeOK'
<1> SUFFICES ASSUME TypeOK, Gather PROVE TypeOK'
  OBVIOUS
<1>1. plan' \in [Items -> Seq(Calls)]
  <2>1. \A i \in Items : Program(DecisionFor(i), Seen(i)) \in Seq(Calls)
    BY ProgramType, PlansType DEF Seen
  <2> QED
    BY <2>1 DEF Gather
<1>2. target' \in [Items -> Nat]
  <2>1. \A i \in Items : NextAttempt(i) \in Nat /\ CurrentAttempt(i) \in Nat
    BY DEF TypeOK, NextAttempt, CurrentAttempt, Statuses
  <2> QED
    BY <2>1 DEF Gather
<1>3. claims' \subseteq Items
  BY DEF Gather, Claimable, Relevant
<1>4. budget' \in Int
  <2>1. IsFiniteSet(InFlight)
    BY ItemsAssumption, FS_Subset DEF InFlight
  <2>2. Cardinality(InFlight) \in Nat
    BY <2>1, FS_CardinalityType
  <2> QED
    BY <2>2, CapAssumption DEF Gather, FreeSlots
<1>5. view' \in [Items -> Statuses]
  BY StatusType DEF Gather, Unread
<1> QED
  BY <1>1, <1>2, <1>3, <1>4, <1>5 DEF Gather, TypeOK

(* What the tick does to its own variables within an item's turn.          *)
LEMMA TurnType ==
  ASSUME TypeOK, NEW i \in Items, NEW call, Turn(i, call)
  PROVE  /\ Advance(i) => plan' \in [Items -> Seq(Calls)]
         /\ Abandon(i) => plan' \in [Items -> Seq(Calls)]
         /\ Released => /\ plan' \in [Items -> Seq(Calls)]
                        /\ view' \in [Items -> Statuses]
                        /\ target' \in [Items -> Nat]
                        /\ lock' \in {"free", "reading", "acting"}
                        /\ claims' \subseteq Items
                        /\ budget' \in Int
<1>1. plan[i] \in Seq(Calls) /\ plan[i] # <<>>
  BY DEF TypeOK, Turn
<1>2. Tail(plan[i]) \in Seq(Calls) /\ <<>> \in Seq(Calls)
  BY <1>1
<1>3. plan \in [Items -> Seq(Calls)]
  BY DEF TypeOK
<1>4. Advance(i) \/ Abandon(i) => plan' \in [Items -> Seq(Calls)]
  BY <1>2, <1>3 DEF Advance, Abandon
<1>5. None \in [Items -> Seq(Calls)]
  BY <1>2 DEF None
<1>6. Unread \in [Items -> Statuses] /\ NoTarget \in [Items -> Nat]
  BY StatusType DEF Unread, NoTarget
<1> QED
  BY <1>4, <1>5, <1>6 DEF Released

LEMMA BoardCallType ==
  ASSUME TypeOK, NEW i \in Items,
         AddTag(i) \/ DropClaimed(i) \/ Drop(i) \/ MoveItem(i)
  PROVE  TypeOK'
<1>1. CASE AddTag(i)
  <2>1. PICK call \in DOMAIN TagOf :
          /\ Turn(i, call)
          /\ tags' = [tags EXCEPT ![i] = @ \cup {TagOf[call]}]
          /\ Advance(i)
          /\ UNCHANGED <<lifecycle, merged, disk, box, bounds>>
    BY <1>1 DEF AddTag
  <2>2. TagOf[call] \in FleetTags
    BY DEF TagOf, FleetTags
  <2>3. tags' \in [Items -> SUBSET FleetTags]
    BY <2>1, <2>2 DEF TypeOK
  <2> QED
    BY <2>1, <2>3, TurnType DEF TypeOK, Advance
<1>2. CASE DropClaimed(i)
  <2>1. tags' \in [Items -> SUBSET FleetTags]
    BY <1>2 DEF DropClaimed, TypeOK
  <2> QED
    BY <1>2, <2>1, TurnType DEF DropClaimed, TypeOK, Advance
<1>3. ASSUME NEW call, NEW keep, DropTags(i, call, keep) PROVE TypeOK'
  <2>1. tags' \in [Items -> SUBSET FleetTags]
    BY <1>3, ZenonT(60) DEF DropTags, TypeOK
  <2> QED
    BY <1>3, <2>1, TurnType DEF DropTags, TypeOK, Advance
<1>4. ASSUME NEW call, NEW bucket \in Lifecycles, SetState(i, call, bucket) PROVE TypeOK'
  <2>1. lifecycle' \in [Items -> Lifecycles]
    BY <1>4 DEF SetState, TypeOK
  <2> QED
    BY <1>4, <2>1, TurnType DEF SetState, TypeOK, Advance, Abandon
<1> QED
  BY <1>1, <1>2, <1>3, <1>4 DEF Drop, MoveItem, Lifecycles

(* What is left of a cleanup after a step of it that failed.               *)
CleanupRests == {<<"remove_worktree", "compose_down">>, <<"compose_down">>}

CleanupCalls == {"delete_branch", "remove_worktree", "compose_down"}

LEMMA RestType ==
  /\ \A rest \in CleanupRests : rest \in Seq(OtherCalls) /\ rest \in Seq(Calls)
  /\ \A rest \in CleanupRests : \A k \in DOMAIN rest : rest[k] \in CleanupCalls
  /\ CleanupCalls \subseteq OtherCalls /\ CleanupCalls \cap ClaimCalls = {}
BY DEF CleanupRests, CleanupCalls, OtherCalls, Calls, ClaimCalls

(* A step of the cleanup: the sandbox, the worktree and the branch of its  *)
(* item, and what it leaves of the plan.                                   *)
LEMMA CleanupTurn ==
  ASSUME NEW i, Cleanup(i)
  PROVE  /\ \E call \in CleanupCalls : Turn(i, call)
         /\ \/ Advance(i) \/ Abandon(i)
            \/ \E rest \in CleanupRests : OnlyStill(i, rest)
         /\ box' \in {box, [box EXCEPT ![i] = NoBox]}
         /\ trees' \subseteq trees /\ trees \ trees' \subseteq {Here(i)}
         /\ branches' \subseteq branches /\ branches \ branches' \subseteq {Here(i)}
         /\ astray' \subseteq astray
         /\ UNCHANGED <<board, status, claimed_at, bounds>>
<1>1. CASE DeleteBranch(i)
  BY <1>1 DEF DeleteBranch, CleanupCalls, CleanupRests
<1>2. CASE RemoveWorktree(i)
  BY <1>2 DEF RemoveWorktree, CleanupCalls, CleanupRests
<1>3. CASE ComposeDown(i)
  BY <1>3 DEF ComposeDown, CleanupCalls, CleanupRests
<1> QED
  BY <1>1, <1>2, <1>3 DEF Cleanup

LEMMA HostCallType ==
  ASSUME TypeOK, NEW i \in Items,
         Park(i) \/ MarkDone(i) \/ Archive(i) \/ ArchiveIfPresent(i) \/ Teardown(i)
           \/ Cleanup(i) \/ Create(i) \/ MarkClaimedAt(i)
  PROVE  TypeOK'
<1>0. Here(i) \in Items \X Nat
  BY DEF Here, TypeOK
<1>1. CASE Park(i)
  <2>1. PICK call \in DOMAIN ParkedAs :
          /\ Turn(i, call)
          /\ status' = [status EXCEPT ![i] = Parked(@, ParkedAs[call])]
          /\ Advance(i)
          /\ UNCHANGED <<board, claimed_at, trees, branches, astray, box, bounds>>
    BY <1>1 DEF Park
  <2>2. ParkedAs[call] \in ParkedStates
    BY DEF ParkedAs, ParkedStates
  <2>3. status' \in [Items -> Statuses]
    BY <2>1, <2>2, UpdateType DEF TypeOK
  <2> QED
    BY <2>1, <2>3, TurnType DEF TypeOK, Advance
<1>2. CASE MarkDone(i)
  <2>1. status' \in [Items -> Statuses]
    BY <1>2, UpdateType DEF MarkDone, TypeOK
  <2> QED
    BY <1>2, <2>1, TurnType DEF MarkDone, TypeOK, Advance
<1>3. CASE Archive(i)
  BY <1>3, TurnType DEF Archive, TypeOK, Advance
<1>4. CASE ArchiveIfPresent(i)
  BY <1>4, TurnType DEF ArchiveIfPresent, TypeOK, Advance
<1>5. CASE Teardown(i)
  <2>1. box' \in [Items -> Boxes]
    BY <1>5, StatusType DEF Teardown, TypeOK
  <2> QED
    BY <1>5, <2>1, TurnType DEF Teardown, TypeOK, Advance
<1>6. CASE Cleanup(i)
  <2>1. PICK call \in CleanupCalls : Turn(i, call)
    BY <1>6, CleanupTurn
  <2>2. box' \in [Items -> Boxes]
    BY <1>6, CleanupTurn, StatusType DEF TypeOK
  <2>3. /\ trees' \subseteq Items \X Nat
        /\ branches' \subseteq Items \X Nat
        /\ astray' \subseteq Items \X Nat
        /\ UNCHANGED <<board, status, claimed_at, bounds>>
    BY <1>6, CleanupTurn DEF TypeOK
  <2>4. plan' \in [Items -> Seq(Calls)] /\ UNCHANGED <<lock, view, target, claims, budget>>
    <3>1. CASE Advance(i) \/ Abandon(i)
      BY <2>1, <3>1, TurnType DEF Advance, Abandon
    <3>2. CASE \E rest \in CleanupRests : OnlyStill(i, rest)
      BY <3>2, RestType DEF OnlyStill, TypeOK
    <3> QED
      BY <1>6, <3>1, <3>2, CleanupTurn
  <2> QED
    BY <2>2, <2>3, <2>4 DEF TypeOK
<1>7. CASE Create(i)
  <2>1. trees' \subseteq Items \X Nat /\ branches' \subseteq Items \X Nat
    BY <1>0, <1>7 DEF Create, TypeOK
  <2> QED
    BY <1>7, <2>1, TurnType DEF Create, TypeOK, Advance, Abandon
<1>8. CASE MarkClaimedAt(i)
  <2>1. claimed_at' \in [Items -> {"none", "fresh", "stale"}]
    BY <1>8 DEF MarkClaimedAt, TypeOK
  <2> QED
    BY <1>8, <2>1, TurnType DEF MarkClaimedAt, TypeOK, Advance
<1> QED
  BY <1>1, <1>2, <1>3, <1>4, <1>5, <1>6, <1>7, <1>8

LEMMA ClaimType ==
  ASSUME TypeOK, NEW i \in Items, BeginClaim(i) \/ Launch(i)
  PROVE  TypeOK'
<1>1. ClaimProgram(i) \in Seq(Calls) /\ RollBack \in Seq(Calls) /\ <<>> \in Seq(Calls)
  <2>1. <<"tag_failed">> \in Seq(Calls) /\ <<>> \in Seq(Calls)
    BY DEF Calls
  <2>2. {ClaimAndLaunch, RollBack} \subseteq Seq(Calls)
    BY PlansType DEF ClaimPlans
  <2> QED
    BY <2>1, <2>2 DEF ClaimProgram
<1>2. CASE BeginClaim(i)
  BY <1>1, <1>2 DEF BeginClaim, TypeOK
<1>3. CASE Launch(i)
  <2>1. box' \in [Items -> Boxes]
    <3>1. box \in [Items -> Boxes] /\ target[i] \in Nat
      BY DEF TypeOK
    <3>2. NewBox(target[i]) \in Boxes
      BY <3>1, StatusType
    <3> QED
      BY <1>3, <3>1, <3>2 DEF Launch
  <2>2. budget' \in Int
    BY <1>3 DEF Launch, TypeOK
  <2>3. plan' \in [Items -> Seq(Calls)]
    BY <1>1, <1>3 DEF Launch, TypeOK
  <2> QED
    BY <1>3, <2>1, <2>2, <2>3 DEF Launch, TypeOK
<1> QED
  BY <1>2, <1>3

LEMMA TickType == TypeOK /\ TickStep => TypeOK'
<1> SUFFICES ASSUME TypeOK, TickStep PROVE TypeOK'
  OBVIOUS
<1>1. CASE StartTick
  BY <1>1 DEF StartTick, TypeOK
<1>2. CASE EndTick
  BY <1>2, StatusType DEF EndTick, TypeOK, Released, None, Unread, NoTarget
<1> QED
  BY <1>1, <1>2, GatherType, BoardCallType, HostCallType, ClaimType DEF TickStep, Call

LEMMA RunnerType == ASSUME TypeOK, NEW i \in Items, Runner(i) PROVE TypeOK'
<1>1. CASE Boots(i)
  <2>1. status' \in [Items -> Statuses]
    BY <1>1, StatusType DEF Boots, TypeOK, Boxes
  <2>2. box' \in [Items -> Boxes]
    BY <1>1 DEF Boots, RunnerStep, TypeOK, Boxes, BoxStates
  <2> QED
    BY <1>1, <2>1, <2>2 DEF Boots, RunnerStep, TypeOK
<1>2. CASE AgentParks(i)
  <2>1. PICK e \in ExitOutcomes : \E park \in Mirrors(e.manifest) :
          /\ status' = [status EXCEPT ![i] = Parked(@, park)]
          /\ box' = [box EXCEPT ![i].state = "leaving", ![i].exit = e]
    BY <1>2 DEF AgentParks
  <2>2. Mirrors(e.manifest) \subseteq ParkedStates
    <3>1. {"awaiting-pr-approval", "needs-decision", "failed"} \subseteq ParkedStates
      BY DEF ParkedStates
    <3> QED
      BY <3>1 DEF Mirrors
  <2>3. PICK park \in ParkedStates :
          /\ status' = [status EXCEPT ![i] = Parked(@, park)]
          /\ box' = [box EXCEPT ![i].state = "leaving", ![i].exit = e]
    BY <2>1, <2>2
  <2>4. status' \in [Items -> Statuses]
    BY <2>3, UpdateType DEF TypeOK
  <2>5. box' \in [Items -> Boxes]
    <3>1. e \in Exits /\ "leaving" \in BoxStates
      BY ExitsAssumption DEF BoxStates
    <3>2. \A b \in Boxes : [b EXCEPT !.state = "leaving", !.exit = e] \in Boxes
      BY <3>1 DEF Boxes
    <3>3. box \in [Items -> Boxes]
      BY DEF TypeOK
    <3>4. box' = [box EXCEPT ![i] = [box[i] EXCEPT !.state = "leaving", !.exit = e]]
      BY <2>3, <3>3
    <3> QED
      BY <3>2, <3>3, <3>4
  <2> QED
    BY <1>2, <2>4, <2>5 DEF AgentParks, TypeOK
<1>3. CASE AgentExits(i)
  <2>1. box' \in [Items -> Boxes]
    BY <1>3 DEF AgentExits, RunnerStep, TypeOK, Boxes, BoxStates
  <2> QED
    BY <1>3, <2>1 DEF AgentExits, RunnerStep, TypeOK
<1>4. CASE Backstop(i)
  <2>1. status' \in [Items -> Statuses]
    <3>1. "failed" \in ParkedStates
      BY DEF ParkedStates
    <3> QED
      BY <1>4, <3>1, UpdateType DEF Backstop, TypeOK
  <2>2. box' \in [Items -> Boxes]
    BY <1>4 DEF Backstop, RunnerStep, TypeOK, Boxes, BoxStates
  <2> QED
    BY <1>4, <2>1, <2>2 DEF Backstop, RunnerStep, TypeOK
<1>5. CASE Dies(i)
  <2>1. box' \in [Items -> Boxes]
    BY <1>5, StatusType DEF Dies, TypeOK, Boxes, BoxStates
  <2> QED
    BY <1>5, <2>1 DEF Dies, TypeOK
<1>6. CASE EgressDenied(i)
  <2>1. box' \in [Items -> Boxes]
    BY <1>6 DEF EgressDenied, TypeOK, Boxes
  <2> QED
    BY <1>6, <2>1 DEF EgressDenied, TypeOK
<1>7. CASE Strays(i)
  BY <1>7 DEF Strays, TypeOK
<1>8. CASE Ages(i)
  <2>1. status' \in [Items -> Statuses]
    <3>1. status \in [Items -> Statuses]
      BY DEF TypeOK
    <3>2. [status EXCEPT ![i].stale = TRUE] \in [Items -> Statuses]
      BY <3>1 DEF Statuses
    <3> QED
      BY <1>8, <3>1, <3>2 DEF Ages
  <2>2. claimed_at' \in [Items -> {"none", "fresh", "stale"}]
    BY <1>8 DEF Ages, TypeOK
  <2> QED
    BY <1>8, <2>1, <2>2 DEF Ages, TypeOK
<1>9. CASE Heartbeat(i)
  <2>1. status' \in [Items -> Statuses]
    BY <1>9 DEF Heartbeat, TypeOK, Statuses
  <2> QED
    BY <1>9, <2>1 DEF Heartbeat, TypeOK
<1> QED
  BY <1>1, <1>2, <1>3, <1>4, <1>5, <1>6, <1>7, <1>8, <1>9 DEF Runner

LEMMA HumanType == ASSUME TypeOK, NEW i \in Items, Human(i) PROVE TypeOK'
<1>1. CASE HumanMove(i)
  BY <1>1 DEF HumanMove, TypeOK
<1>2. CASE HumanUntag(i)
  BY <1>2 DEF HumanUntag, TypeOK
<1>3. CASE PRMerges(i)
  BY <1>3 DEF PRMerges, TypeOK, Statuses
<1> QED
  BY <1>1, <1>2, <1>3 DEF Human

LEMMA CrashType == TypeOK /\ Crash => TypeOK'
BY StatusType DEF Crash, TypeOK, Released, None, Unread, NoTarget

LEMMA TypeStep == TypeOK /\ [Next]_vars => TypeOK'
<1> SUFFICES ASSUME TypeOK, [Next]_vars PROVE TypeOK'
  OBVIOUS
<1>1. CASE Next
  BY <1>1, TickType, RunnerType, HumanType, CrashType DEF Next
<1>2. CASE UNCHANGED vars
  BY <1>2 DEF TypeOK
<1> QED
  BY <1>1, <1>2

(* Every reachable state is well typed: whatever interleaving of tick,     *)
(* runner, person and crash, status.json keeps a phase and parked state    *)
(* the status module accepts, and a plan only holds calls of the seams.    *)
THEOREM TypeCorrect == Spec => []TypeOK
<1>1. Init => TypeOK
  BY InitType
<1>2. TypeOK /\ [Next]_vars => TypeOK'
  BY TypeStep
<1> QED
  BY <1>1, <1>2, PTL DEF Spec

-----------------------------------------------------------------------------
(* Heads and tails of the plans: the call a plan starts with tells a claim *)
(* from everything else.                                                   *)

LEMMA PlanHead ==
  ASSUME NEW p \in Seq(OtherCalls) \cup ClaimPlans, p # <<>>
  PROVE  /\ Head(p) = "create" => p = ClaimAndLaunch
         /\ Head(p) = "activate" =>
              p = <<"activate", "tag_claimed", "mark_claimed_at", "launch">>
         /\ Head(p) = "tag_claimed" => p = <<"tag_claimed", "mark_claimed_at", "launch">>
         /\ Head(p) = "mark_claimed_at" => p = <<"mark_claimed_at", "launch">>
         /\ Head(p) = "launch" => p = <<"launch">>
         /\ Head(p) = "unclaim" => p = RollBack
         /\ Head(p) \in ClaimCalls <=> p \in ClaimPlans
         /\ Head(p) \notin ClaimCalls => p \in Seq(OtherCalls)
<1>1. CASE p \in ClaimPlans
  BY <1>1 DEF ClaimPlans, ClaimAndLaunch, RollBack, ClaimCalls
<1>2. CASE p \notin ClaimPlans
  <2>1. p \in Seq(OtherCalls)
    BY <1>2
  <2>2. Head(p) \in OtherCalls
    BY <2>1
  <2>3. Head(p) \notin ClaimCalls
    BY <2>2 DEF OtherCalls
  <2> QED
    BY <1>2, <2>1, <2>3 DEF ClaimCalls
<1> QED
  BY <1>1, <1>2

LEMMA PlanTail ==
  /\ Tail(ClaimAndLaunch) = <<"activate", "tag_claimed", "mark_claimed_at", "launch">>
  /\ Tail(<<"activate", "tag_claimed", "mark_claimed_at", "launch">>)
       = <<"tag_claimed", "mark_claimed_at", "launch">>
  /\ Tail(<<"tag_claimed", "mark_claimed_at", "launch">>) = <<"mark_claimed_at", "launch">>
  /\ Tail(<<"mark_claimed_at", "launch">>) = <<"launch">>
  /\ Tail(RollBack) = <<"requeue">>
BY DEF ClaimAndLaunch, RollBack

LEMMA PlanParts ==
  /\ <<>> \in Seq(OtherCalls) /\ <<"requeue">> \in Seq(OtherCalls)
  /\ <<"tag_failed">> \in Seq(OtherCalls)
  /\ Seq(OtherCalls) \cap ClaimPlans = {}
<1>1. /\ <<>> \in Seq(OtherCalls) /\ <<"requeue">> \in Seq(OtherCalls)
      /\ <<"tag_failed">> \in Seq(OtherCalls)
  BY DEF OtherCalls, Calls, ClaimCalls
<1>2. ASSUME NEW p \in Seq(OtherCalls), p \in ClaimPlans PROVE FALSE
  <2>1. p # <<>> /\ Head(p) \in ClaimCalls
    BY <1>2 DEF ClaimPlans, ClaimAndLaunch, RollBack, ClaimCalls
  <2>2. Head(p) \in OtherCalls
    BY <2>1
  <2> QED
    BY <2>1, <2>2 DEF OtherCalls
<1> QED
  BY <1>1, <1>2

(* Only an item the engine calls claimable is queued for a claim, and a    *)
(* claimable item is in the queued bucket.                                 *)
LEMMA ClaimableIsQueued ==
  ASSUME TypeOK, NEW i \in Claimable
  PROVE  lifecycle[i] = "queued"
<1>1. FactsOf(i).lifecycle = lifecycle[i] /\ FactsOf(i).teardown_failed = FALSE
  BY DEF FactsOf
<1>2. Classify(FactsOf(i)).actions = <<"SignalClaimable">>
  BY <1>1 DEF Claimable, DecisionFor, Decide
<1> DEFINE f == FactsOf(i)
<1> HIDE DEF f
<1>3. ASSUME lifecycle[i] # "queued" PROVE FALSE
  <2>1. RetryOrEscalate(f).actions \in {<<"EscalateExhausted">>, <<"RetryIncrement">>}
    BY DEF RetryOrEscalate, Decision
  <2>2. Timeout(f).actions # <<"SignalClaimable">>
    BY <2>1 DEF Timeout, Decision
  <2>3. ClassifyExited(f).actions # <<"SignalClaimable">>
    BY <2>1 DEF ClassifyExited, Decision
  <2>4. ClassifyInflight(f).actions # <<"SignalClaimable">>
    BY <2>1, <2>2, <2>3 DEF ClassifyInflight, Terminal, Decision
  <2>5. ClassifyDone(f).actions # <<"SignalClaimable">>
    BY DEF ClassifyDone, Terminal, Decision
  <2>6. f.lifecycle \in {"active", "done", "withdrawn"}
    BY <1>1, <1>3 DEF f, TypeOK, Lifecycles, Claimable, Relevant
  <2>7. Classify(f).actions # <<"SignalClaimable">>
    BY <2>4, <2>5, <2>6 DEF Classify, Terminal, Decision
  <2> QED
    BY <1>2, <2>7 DEF f
<1> QED
  BY <1>3

-----------------------------------------------------------------------------
(* The claim budget.                                                       *)

LEMMA InFlightFinite ==
  ASSUME NEW S, S \subseteq Items
  PROVE  IsFiniteSet(S) /\ Cardinality(S) \in Nat
BY ItemsAssumption, FS_Subset, FS_CardinalityType

LEMMA OneMore ==
  ASSUME NEW S, IsFiniteSet(S), NEW x
  PROVE  /\ IsFiniteSet(S \cup {x})
         /\ Cardinality(S \cup {x}) \in Nat
         /\ Cardinality(S \cup {x}) <= Cardinality(S) + 1
<1>1. /\ IsFiniteSet(S \cup {x})
      /\ Cardinality(S \cup {x}) = IF x \in S THEN Cardinality(S) ELSE Cardinality(S) + 1
  BY FS_AddElement
<1>2. Cardinality(S) \in Nat
  BY FS_CardinalityType
<1> QED
  BY <1>1, <1>2

(* At most one item is being claimed, and the budget still holds its slot. *)
LEMMA InFlightBound ==
  ASSUME TypeOK, ClaimInv
  PROVE  Cardinality(InFlight) <= Cap
<1>1. InFlight \subseteq Items /\ Claiming \subseteq Items
  BY DEF InFlight, Claiming
<1>2. budget \in Nat /\ Cardinality(InFlight \ Claiming) + budget <= Cap
  BY DEF ClaimInv, SlotsAddUp, TypeOK
<1>3. IsFiniteSet(InFlight \ Claiming) /\ Cardinality(InFlight \ Claiming) \in Nat
  BY <1>1, InFlightFinite
<1>4. CASE Claiming = {}
  BY <1>2, <1>3, <1>4, CapAssumption
<1>5. CASE Claiming # {}
  <2>1. PICK i \in Claiming : TRUE
    BY <1>5
  <2>2. budget > 0 /\ \A j \in Items \ {i} : plan[j] = <<>>
    BY <2>1 DEF ClaimInv, OneClaimAtATime
  <2>3. Claiming = {i}
    BY <2>1, <2>2, PlanParts DEF Claiming
  <2>4. InFlight \subseteq (InFlight \ Claiming) \cup {i}
    BY <2>3
  <2>5. /\ IsFiniteSet((InFlight \ Claiming) \cup {i})
        /\ Cardinality((InFlight \ Claiming) \cup {i}) <= Cardinality(InFlight \ Claiming) + 1
        /\ Cardinality((InFlight \ Claiming) \cup {i}) \in Nat
    BY <1>3, OneMore
  <2>6. Cardinality(InFlight) <= Cardinality((InFlight \ Claiming) \cup {i})
    BY <2>4, <2>5, FS_Subset
  <2>7. Cardinality(InFlight) \in Nat
    BY <1>1, InFlightFinite
  <2> QED
    BY <1>2, <1>3, <2>2, <2>5, <2>6, <2>7, CapAssumption
<1> QED
  BY <1>4, <1>5

LEMMA FewerInFlight ==
  ASSUME InFlight' \ Claiming' \subseteq InFlight \ Claiming
  PROVE  /\ Cardinality(InFlight' \ Claiming') <= Cardinality(InFlight \ Claiming)
         /\ Cardinality(InFlight' \ Claiming') \in Nat
         /\ Cardinality(InFlight \ Claiming) \in Nat
<1>1. InFlight \ Claiming \subseteq Items
  BY DEF InFlight
<1>2. IsFiniteSet(InFlight \ Claiming) /\ Cardinality(InFlight \ Claiming) \in Nat
  BY <1>1, InFlightFinite
<1>3. /\ IsFiniteSet(InFlight' \ Claiming')
      /\ Cardinality(InFlight' \ Claiming') <= Cardinality(InFlight \ Claiming)
  BY <1>2, FS_Subset
<1> QED
  BY <1>2, <1>3, FS_CardinalityType

(* Nothing becomes active or claimed.                                      *)
NothingClaimed ==
  /\ InFlight' \subseteq InFlight
  /\ \A j \in Items : lifecycle'[j] = "active" => lifecycle[j] = "active"

(* A step of a runner or a person: the tick's own state stays.             *)
LEMMA QuietStep ==
  ASSUME TypeOK, ClaimInv, NothingClaimed, UNCHANGED <<plan, claims, budget>>,
         lock' # "acting" => lock # "acting"
  PROVE  ClaimInv'
<1>1. Claiming' = Claiming
  BY DEF Claiming
<1>2. PlanShape'
  BY DEF ClaimInv, PlanShape
<1>3. NoPlanBetweenTicks'
  BY DEF ClaimInv, NoPlanBetweenTicks, None
<1>4. OneClaimAtATime'
  BY <1>1 DEF ClaimInv, OneClaimAtATime
<1>5. ClaimsAreNotActive'
  BY DEF ClaimInv, ClaimsAreNotActive, NothingClaimed
<1>6. InFlight' \ Claiming' \subseteq InFlight \ Claiming
  BY <1>1 DEF NothingClaimed
<1>7. SlotsAddUp'
  BY <1>6, FewerInFlight, CapAssumption DEF ClaimInv, SlotsAddUp, TypeOK
<1> QED
  BY <1>2, <1>3, <1>4, <1>5, <1>7 DEF ClaimInv

(* The tick ends, in order or not.                                         *)
LEMMA ReleasedStep ==
  ASSUME TypeOK, ClaimInv, NothingClaimed, Released
  PROVE  ClaimInv'
<1>1. \A i \in Items : plan'[i] = <<>>
  BY DEF Released, None
<1>2. Claiming' = {}
  BY <1>1, PlanParts DEF Claiming
<1>3. PlanShape'
  BY <1>1, PlanParts DEF PlanShape
<1>4. NoPlanBetweenTicks'
  BY DEF Released, NoPlanBetweenTicks, None
<1>5. OneClaimAtATime'
  BY <1>2 DEF OneClaimAtATime
<1>6. ClaimsAreNotActive'
  BY <1>1 DEF ClaimsAreNotActive, Released, ClaimAndLaunch
<1>7. SlotsAddUp'
  <2>1. InFlight \subseteq Items
    BY DEF InFlight
  <2>2. IsFiniteSet(InFlight) /\ Cardinality(InFlight) \in Nat
    BY <2>1, InFlightFinite
  <2>3. Cardinality(InFlight') <= Cardinality(InFlight) /\ IsFiniteSet(InFlight')
    BY <2>2, FS_Subset DEF NothingClaimed
  <2>4. Cardinality(InFlight') \in Nat
    BY <2>3, FS_CardinalityType
  <2>5. Cardinality(InFlight) <= Cap
    BY InFlightBound
  <2>6. InFlight' \ Claiming' = InFlight' /\ budget' = 0
    BY <1>2 DEF Released
  <2> QED
    BY <2>2, <2>3, <2>4, <2>5, <2>6, CapAssumption DEF SlotsAddUp
<1> QED
  BY <1>3, <1>4, <1>5, <1>6, <1>7 DEF ClaimInv

(* A call of a plan that is not a claim's: no claim is under way.          *)
LEMMA OtherTurn ==
  ASSUME TypeOK, ClaimInv, NothingClaimed, NEW i \in Items, NEW call, Turn(i, call),
         call \notin ClaimCalls,
         Advance(i) \/ Abandon(i) \/ \E rest \in CleanupRests : OnlyStill(i, rest)
  PROVE  ClaimInv'
<1>1. /\ plan[i] # <<>> /\ Head(plan[i]) = call /\ lock = "acting"
      /\ plan[i] \in Seq(OtherCalls) \cup ClaimPlans
  BY DEF Turn, ClaimInv, PlanShape
<1>2. plan[i] \in Seq(OtherCalls) /\ plan[i] \notin ClaimPlans
  BY <1>1, PlanHead
<1>3. Claiming = {}
  BY <1>1, <1>2 DEF ClaimInv, OneClaimAtATime, Claiming
<1>4. /\ plan'[i] \in Seq(OtherCalls)
      /\ \A j \in Items \ {i} : plan'[j] = plan[j]
      /\ UNCHANGED <<claims, budget, lock>>
  <2>1. Tail(plan[i]) \in Seq(OtherCalls)
    BY <1>1, <1>2
  <2> QED
    BY <2>1, PlanParts, RestType DEF Advance, Abandon, OnlyStill, TypeOK
<1>5. PlanShape'
  BY <1>4 DEF PlanShape, ClaimInv
<1>6. Claiming' = {}
  BY <1>3, <1>4, PlanParts DEF Claiming
<1>7. ClaimsAreNotActive'
  <2>1. \A j \in Items : plan'[j] \notin ClaimPlans
    BY <1>6 DEF Claiming
  <2> QED
    BY <1>4, <2>1 DEF ClaimsAreNotActive, ClaimInv, NothingClaimed, ClaimPlans
<1>8. InFlight' \ Claiming' \subseteq InFlight \ Claiming
  BY <1>3, <1>6 DEF NothingClaimed
<1>9. SlotsAddUp'
  BY <1>4, <1>8, FewerInFlight, CapAssumption DEF ClaimInv, SlotsAddUp, TypeOK
<1> QED
  BY <1>1, <1>4, <1>5, <1>6, <1>7, <1>9
     DEF ClaimInv, NoPlanBetweenTicks, OneClaimAtATime

(* The item being claimed is the only one with a plan.                     *)
LEMMA ClaimUnderway ==
  ASSUME TypeOK, ClaimInv, NEW i \in Claiming
  PROVE  /\ Claiming = {i} /\ i \in Items /\ i \notin claims
         /\ budget > 0 /\ lock = "acting"
         /\ \A j \in Items \ {i} : plan[j] = <<>>
<1>1. i \in Items /\ plan[i] \in ClaimPlans
  BY DEF Claiming
<1>2. budget > 0 /\ i \notin claims /\ \A j \in Items \ {i} : plan[j] = <<>>
  BY DEF ClaimInv, OneClaimAtATime
<1>3. <<>> \notin ClaimPlans
  BY PlanParts
<1>4. Claiming = {i}
  BY <1>1, <1>2, <1>3 DEF Claiming
<1>5. lock = "acting"
  BY <1>1, <1>3 DEF ClaimInv, NoPlanBetweenTicks, None
<1> QED
  BY <1>1, <1>2, <1>4, <1>5

(* A claim goes on: its slot is the one it reserves.                       *)
LEMMA ClaimTurn ==
  ASSUME TypeOK, ClaimInv, NEW i \in Claiming, NEW q \in ClaimPlans,
         plan' = [plan EXCEPT ![i] = q],
         UNCHANGED <<lock, claims, budget>>,
         InFlight' \subseteq InFlight \cup {i},
         \A j \in Items \ {i} : lifecycle'[j] = "active" => lifecycle[j] = "active",
         q \in {ClaimAndLaunch,
                <<"activate", "tag_claimed", "mark_claimed_at", "launch">>}
           => lifecycle'[i] # "active"
  PROVE  ClaimInv'
<1>1. /\ Claiming = {i} /\ i \in Items /\ i \notin claims
      /\ budget > 0 /\ lock = "acting"
      /\ \A j \in Items \ {i} : plan[j] = <<>>
  BY ClaimUnderway
<1>2. plan'[i] = q /\ \A j \in Items \ {i} : plan'[j] = <<>>
  BY <1>1 DEF TypeOK
<1>3. Claiming' = {i}
  BY <1>1, <1>2, PlanParts DEF Claiming
<1>4. PlanShape'
  BY <1>2, PlanParts DEF PlanShape
<1>5. ClaimsAreNotActive'
  BY <1>1, <1>2, PlanParts DEF ClaimsAreNotActive, ClaimInv, ClaimPlans
<1>6. InFlight' \ Claiming' \subseteq InFlight \ Claiming
  BY <1>1, <1>3
<1>7. SlotsAddUp'
  BY <1>6, FewerInFlight, CapAssumption DEF ClaimInv, SlotsAddUp, TypeOK
<1> QED
  BY <1>1, <1>2, <1>3, <1>4, <1>5, <1>7 DEF ClaimInv, NoPlanBetweenTicks, OneClaimAtATime

(* A claim is given up: its item is not in flight.                         *)
LEMMA ClaimGivenUp ==
  ASSUME TypeOK, ClaimInv, NothingClaimed, NEW i \in Claiming, NEW q \in Seq(OtherCalls),
         plan' = [plan EXCEPT ![i] = q],
         UNCHANGED <<lock, claims, budget>>,
         i \notin InFlight'
  PROVE  ClaimInv'
<1>1. /\ Claiming = {i} /\ i \in Items /\ i \notin claims
      /\ budget > 0 /\ lock = "acting"
      /\ \A j \in Items \ {i} : plan[j] = <<>>
  BY ClaimUnderway
<1>2. plan'[i] = q /\ \A j \in Items \ {i} : plan'[j] = <<>>
  BY <1>1 DEF TypeOK
<1>3. \A j \in Items : plan'[j] \notin ClaimPlans
  BY <1>2, PlanParts
<1>4. Claiming' = {}
  BY <1>3 DEF Claiming
<1>5. PlanShape'
  BY <1>2, PlanParts DEF PlanShape
<1>6. ClaimsAreNotActive'
  BY <1>3 DEF ClaimsAreNotActive, ClaimInv, NothingClaimed, ClaimPlans
<1>7. InFlight' \ Claiming' \subseteq InFlight \ Claiming
  BY <1>1, <1>4 DEF NothingClaimed
<1>8. SlotsAddUp'
  BY <1>7, FewerInFlight, CapAssumption DEF ClaimInv, SlotsAddUp, TypeOK
<1> QED
  BY <1>1, <1>4, <1>5, <1>6, <1>8 DEF ClaimInv, NoPlanBetweenTicks, OneClaimAtATime

(* The plan a claim's call leaves behind.                                  *)
LEMMA ClaimPlanOf ==
  ASSUME TypeOK, ClaimInv, NEW i \in Items, NEW call \in ClaimCalls, Turn(i, call)
  PROVE  /\ i \in Claiming
         /\ call = "create" =>
              /\ Tail(plan[i]) = <<"activate", "tag_claimed", "mark_claimed_at", "launch">>
              /\ lifecycle[i] # "active"
         /\ call = "activate" =>
              /\ Tail(plan[i]) = <<"tag_claimed", "mark_claimed_at", "launch">>
              /\ lifecycle[i] # "active"
         /\ call = "tag_claimed" => Tail(plan[i]) = <<"mark_claimed_at", "launch">>
         /\ call = "mark_claimed_at" => Tail(plan[i]) = <<"launch">>
         /\ call = "unclaim" => Tail(plan[i]) = <<"requeue">>
         /\ call # "unclaim" /\ call # "launch" => Tail(plan[i]) \in ClaimPlans
<1>1. /\ plan[i] \in Seq(OtherCalls) \cup ClaimPlans /\ plan[i] # <<>>
      /\ Head(plan[i]) = call
  BY DEF Turn, ClaimInv, PlanShape
<1>2. i \in Claiming
  BY <1>1, PlanHead DEF Claiming
<1>3. plan[i] = ClaimAndLaunch => lifecycle[i] # "active"
  BY DEF ClaimInv, ClaimsAreNotActive
<1>4. plan[i] = <<"activate", "tag_claimed", "mark_claimed_at", "launch">>
        => lifecycle[i] # "active"
  BY DEF ClaimInv, ClaimsAreNotActive
<1>5. call \in {"create", "activate", "tag_claimed", "mark_claimed_at", "launch", "unclaim"}
  BY DEF ClaimCalls
<1> HIDE DEF ClaimCalls
<1> QED
  BY <1>1, <1>2, <1>3, <1>4, <1>5, PlanHead, PlanTail DEF ClaimPlans

LEMMA BoardCallClaims ==
  ASSUME TypeOK, ClaimInv, NEW i \in Items,
         AddTag(i) \/ DropClaimed(i) \/ Drop(i) \/ MoveItem(i)
  PROVE  ClaimInv'
<1>0. Claiming \subseteq Items /\ plan \in [Items -> Seq(Calls)]
  BY DEF Claiming, TypeOK
<1>1. CASE AddTag(i)
  <2>1. PICK call \in DOMAIN TagOf :
          /\ Turn(i, call)
          /\ tags' = [tags EXCEPT ![i] = @ \cup {TagOf[call]}]
          /\ Advance(i)
          /\ UNCHANGED <<lifecycle, merged, disk, box, bounds>>
    BY <1>1 DEF AddTag
  <2>2. CASE call = "tag_claimed"
    <3>1. /\ i \in Claiming
          /\ Tail(plan[i]) = <<"mark_claimed_at", "launch">>
          /\ Tail(plan[i]) \in ClaimPlans
      BY <2>1, <2>2, ClaimPlanOf DEF ClaimCalls
    <3>2. InFlight' \subseteq InFlight \cup {i}
      BY <2>1 DEF InFlight, Claimed, TypeOK
    <3>3. Tail(plan[i]) \notin {ClaimAndLaunch,
                <<"activate", "tag_claimed", "mark_claimed_at", "launch">>}
      BY <3>1 DEF ClaimAndLaunch
    <3> QED
      BY <1>0, <2>1, <3>1, <3>2, <3>3, ClaimTurn DEF Advance
  <2>3. CASE call # "tag_claimed"
    <3>1. call \notin ClaimCalls /\ TagOf[call] # "claimed"
      BY <2>1, <2>3 DEF TagOf, ClaimCalls
    <3>2. NothingClaimed
      BY <2>1, <3>1 DEF NothingClaimed, InFlight, Claimed, TypeOK
    <3> QED
      BY <2>1, <3>1, <3>2, OtherTurn
  <2> QED
    BY <2>2, <2>3
<1>2. CASE DropClaimed(i)
  <2>1. NothingClaimed
    BY <1>2 DEF DropClaimed, NothingClaimed, InFlight, Claimed, TypeOK
  <2>2. CASE Turn(i, "drop_claimed")
    BY <1>2, <2>1, <2>2, OtherTurn DEF DropClaimed, ClaimCalls
  <2>3. CASE Turn(i, "unclaim")
    <3>1. i \in Claiming /\ Tail(plan[i]) = <<"requeue">>
      BY <2>3, ClaimPlanOf DEF ClaimCalls
    <3>2. i \notin InFlight'
      BY <1>2 DEF DropClaimed, InFlight, Claimed, TypeOK
    <3> QED
      BY <1>0, <1>2, <2>1, <3>1, <3>2, PlanParts, ClaimGivenUp DEF DropClaimed, Advance
  <2> QED
    BY <1>2, <2>2, <2>3 DEF DropClaimed
<1>3. ASSUME NEW call \in {"drop_parks", "drop_all"}, NEW keep, DropTags(i, call, keep)
      PROVE  ClaimInv'
  <2>1. NothingClaimed
    <3>1. lifecycle' = lifecycle /\ \A j \in Items : tags'[j] \subseteq tags[j]
      BY <1>3 DEF DropTags, TypeOK
    <3> QED
      BY <3>1 DEF NothingClaimed, InFlight, Claimed
  <2>2. CASE UNCHANGED tick
    BY <2>1, <2>2, QuietStep
  <2>3. CASE Advance(i)
    BY <1>3, <2>1, <2>3, OtherTurn DEF DropTags, ClaimCalls
  <2> QED
    BY <1>3, <2>2, <2>3 DEF DropTags
<1>4. CASE SetState(i, "requeue", "queued")
  <2>1. NothingClaimed
    BY <1>4 DEF SetState, NothingClaimed, InFlight, Claimed, TypeOK
  <2> QED
    BY <1>4, <2>1, OtherTurn DEF SetState, ClaimCalls
<1>5. CASE SetState(i, "activate", "active")
  <2>1. /\ i \in Claiming /\ lifecycle[i] # "active"
        /\ Tail(plan[i]) = <<"tag_claimed", "mark_claimed_at", "launch">>
        /\ Tail(plan[i]) \in ClaimPlans
    BY <1>5, ClaimPlanOf DEF SetState, ClaimCalls
  <2>2. CASE lifecycle' = lifecycle /\ Abandon(i)
    <3>1. NothingClaimed /\ i \notin InFlight'
      BY <1>5, <2>1, <2>2 DEF SetState, NothingClaimed, InFlight, Claimed
    <3> QED
      BY <1>0, <2>1, <2>2, <3>1, PlanParts, ClaimGivenUp DEF Abandon
  <2>3. CASE lifecycle' = [lifecycle EXCEPT ![i] = "active"] /\ Advance(i)
    <3>1. InFlight' \subseteq InFlight \cup {i}
      BY <1>5, <2>3 DEF SetState, InFlight, Claimed, TypeOK
    <3>2. \A j \in Items \ {i} : lifecycle'[j] = "active" => lifecycle[j] = "active"
      BY <2>3 DEF TypeOK
    <3>3. Tail(plan[i]) \notin {ClaimAndLaunch,
                <<"activate", "tag_claimed", "mark_claimed_at", "launch">>}
      BY <2>1 DEF ClaimAndLaunch
    <3> QED
      BY <1>0, <2>1, <2>3, <3>1, <3>2, <3>3, ClaimTurn DEF Advance
  <2> QED
    BY <1>5, <2>2, <2>3 DEF SetState
<1> QED
  BY <1>1, <1>2, <1>3, <1>4, <1>5 DEF Drop, MoveItem

(* No call on the host moves an item or tags it.                           *)
LEMMA BoardStands ==
  UNCHANGED <<lifecycle, tags>> => NothingClaimed /\ InFlight' = InFlight
BY DEF NothingClaimed, InFlight, Claimed

LEMMA HostCallClaims ==
  ASSUME TypeOK, ClaimInv, NEW i \in Items,
         Park(i) \/ MarkDone(i) \/ Archive(i) \/ ArchiveIfPresent(i) \/ Teardown(i)
           \/ Cleanup(i)
  PROVE  ClaimInv'
<1>1. UNCHANGED <<lifecycle, tags>>
  BY CleanupTurn DEF Park, MarkDone, Archive, ArchiveIfPresent, Teardown
<1>2. NothingClaimed
  BY <1>1, BoardStands
<1>3. CASE Park(i)
  <2>1. PICK call \in DOMAIN ParkedAs : Turn(i, call) /\ Advance(i)
    BY <1>3 DEF Park
  <2>2. call \notin ClaimCalls
    BY DEF ParkedAs, ClaimCalls
  <2> QED
    BY <1>2, <2>1, <2>2, OtherTurn
<1>4. CASE MarkDone(i) \/ ArchiveIfPresent(i) \/ Teardown(i)
  <2>1. PICK call \in {"mark_done", "archive_if_present", "teardown"} :
          Turn(i, call) /\ Advance(i)
    BY <1>4 DEF MarkDone, ArchiveIfPresent, Teardown
  <2>2. call \notin ClaimCalls
    BY DEF ClaimCalls
  <2> QED
    BY <1>2, <2>1, <2>2, OtherTurn
<1>6. CASE Cleanup(i)
  BY <1>2, <1>6, CleanupTurn, RestType, OtherTurn
<1>5. CASE Archive(i)
  <2>1. CASE Advance(i)
    BY <1>2, <1>5, <2>1, OtherTurn DEF Archive, ClaimCalls
  <2>2. CASE Released
    BY <1>2, <2>2, ReleasedStep
  <2> QED
    BY <1>5, <2>1, <2>2 DEF Archive
<1> QED
  BY <1>3, <1>4, <1>5, <1>6

LEMMA ClaimCallClaims ==
  ASSUME TypeOK, ClaimInv, NEW i \in Items, Create(i) \/ MarkClaimedAt(i) \/ Launch(i)
  PROVE  ClaimInv'
<1>0. plan \in [Items -> Seq(Calls)]
  BY DEF TypeOK
<1>1. UNCHANGED <<lifecycle, tags>>
  BY DEF Create, MarkClaimedAt, Launch
<1>2. NothingClaimed /\ InFlight' = InFlight
  BY <1>1, BoardStands
<1>3. CASE Create(i)
  <2>1. /\ i \in Claiming /\ lifecycle[i] # "active"
        /\ Tail(plan[i]) \in ClaimPlans
    BY <1>3, ClaimPlanOf DEF Create, ClaimCalls
  <2>2. CASE Advance(i)
    BY <1>0, <1>1, <1>2, <2>1, <2>2, ClaimTurn DEF Advance
  <2>3. CASE Abandon(i)
    <3>1. i \notin InFlight'
      BY <1>2, <2>1 DEF InFlight
    <3> QED
      BY <1>0, <1>2, <2>1, <2>3, <3>1, PlanParts, ClaimGivenUp DEF Abandon
  <2> QED
    BY <1>3, <2>2, <2>3 DEF Create
<1>4. CASE MarkClaimedAt(i)
  <2>1. /\ i \in Claiming
        /\ Tail(plan[i]) = <<"launch">> /\ Tail(plan[i]) \in ClaimPlans
    BY <1>4, ClaimPlanOf DEF MarkClaimedAt, ClaimCalls
  <2>2. Tail(plan[i]) \notin {ClaimAndLaunch,
              <<"activate", "tag_claimed", "mark_claimed_at", "launch">>}
    BY <2>1 DEF ClaimAndLaunch
  <2> QED
    BY <1>0, <1>1, <1>2, <1>4, <2>1, <2>2, ClaimTurn DEF MarkClaimedAt, Advance
<1>5. CASE Launch(i)
  <2>1. i \in Claiming
    BY <1>5, ClaimPlanOf DEF Launch, ClaimCalls
  <2>2. CASE plan' = [plan EXCEPT ![i] = RollBack] /\ budget' = budget
    <3>1. RollBack \in ClaimPlans
      BY DEF ClaimPlans
    <3>2. RollBack \notin {ClaimAndLaunch,
                <<"activate", "tag_claimed", "mark_claimed_at", "launch">>}
      BY DEF ClaimAndLaunch, RollBack
    <3> QED
      BY <1>1, <1>2, <1>5, <2>1, <2>2, <3>1, <3>2, ClaimTurn DEF Launch
  <2>3. CASE plan' = [plan EXCEPT ![i] = <<>>] /\ budget' = budget - 1
    <3>1. /\ Claiming = {i} /\ i \notin claims
          /\ budget > 0 /\ lock = "acting"
          /\ \A j \in Items \ {i} : plan[j] = <<>>
      BY <2>1, ClaimUnderway
    <3>2. \A j \in Items : plan'[j] = <<>>
      BY <1>0, <2>3, <3>1
    <3>3. Claiming' = {}
      BY <3>2, PlanParts DEF Claiming
    <3>4. PlanShape' /\ OneClaimAtATime'
      BY <3>2, <3>3, PlanParts DEF PlanShape, OneClaimAtATime
    <3>5. ClaimsAreNotActive'
      <4>1. claims' = claims /\ lifecycle' = lifecycle
        BY <1>1, <1>5 DEF Launch
      <4>2. \A j \in Items : plan'[j] \notin ClaimPlans
        BY <3>2, PlanParts
      <4> QED
        BY <4>1, <4>2 DEF ClaimsAreNotActive, ClaimInv, ClaimPlans
    <3>6. SlotsAddUp'
      <4>1. InFlight \ Claiming \subseteq Items /\ InFlight \subseteq Items
        BY DEF InFlight
      <4>2. /\ IsFiniteSet(InFlight \ Claiming) /\ Cardinality(InFlight \ Claiming) \in Nat
            /\ Cardinality(InFlight) \in Nat
        BY <4>1, InFlightFinite
      <4>3. /\ IsFiniteSet((InFlight \ Claiming) \cup {i})
            /\ Cardinality((InFlight \ Claiming) \cup {i}) \in Nat
            /\ Cardinality((InFlight \ Claiming) \cup {i}) <= Cardinality(InFlight \ Claiming) + 1
        BY <4>2, OneMore
      <4>4. InFlight \subseteq (InFlight \ Claiming) \cup {i}
        BY <3>1
      <4>5. Cardinality(InFlight) <= Cardinality((InFlight \ Claiming) \cup {i})
        BY <4>3, <4>4, FS_Subset
      <4>6. Cardinality(InFlight' \ Claiming') = Cardinality(InFlight)
        <5>1. InFlight' \ Claiming' = InFlight
          BY <1>2, <3>3
        <5> QED
          BY <5>1
      <4>7. budget \in Int /\ budget > 0 /\ Cardinality(InFlight \ Claiming) + budget <= Cap
        BY <3>1 DEF ClaimInv, SlotsAddUp, TypeOK
      <4> DEFINE now == Cardinality(InFlight)
                 rest == Cardinality(InFlight \ Claiming)
                 upto == Cardinality((InFlight \ Claiming) \cup {i})
      <4>8. /\ now \in Nat /\ rest \in Nat /\ upto \in Nat
            /\ now <= upto /\ upto <= rest + 1 /\ rest + budget <= Cap
        BY <4>2, <4>3, <4>5, <4>7
      <4>9. Cardinality(InFlight' \ Claiming') = now /\ budget' = budget - 1
        BY <2>3, <4>6
      <4> HIDE DEF now, rest, upto
      <4> QED
        BY <4>7, <4>8, <4>9, CapAssumption DEF SlotsAddUp
    <3> QED
      BY <1>5, <3>1, <3>4, <3>5, <3>6 DEF ClaimInv, NoPlanBetweenTicks, Launch
  <2> QED
    BY <1>5, <2>2, <2>3 DEF Launch
<1> QED
  BY <1>3, <1>4, <1>5

(* A tick starts its claims with every slot that is free at the gather.    *)
LEMMA GatherClaims == TypeOK /\ ClaimInv /\ Gather => ClaimInv'
<1> SUFFICES ASSUME TypeOK, ClaimInv, Gather PROVE ClaimInv'
  OBVIOUS
<1>1. \A i \in Items : plan'[i] \in Seq(OtherCalls)
  <2>1. \A i \in Items : Program(DecisionFor(i), Seen(i)) \in Seq(OtherCalls)
    BY ProgramType DEF Seen
  <2> QED
    BY <2>1, PlanParts DEF Gather
<1>2. \A i \in Items : plan'[i] \notin ClaimPlans
  BY <1>1, PlanParts
<1>3. Claiming' = {}
  BY <1>2 DEF Claiming
<1>4. InFlight' = InFlight /\ lifecycle' = lifecycle /\ lock' = "acting"
  BY DEF Gather, InFlight, Claimed
<1>5. \A i \in claims' : lifecycle[i] = "queued"
  BY ClaimableIsQueued DEF Gather
<1>6. ClaimsAreNotActive'
  BY <1>2, <1>4, <1>5 DEF ClaimsAreNotActive, ClaimPlans
<1>7. SlotsAddUp'
  <2>1. InFlight' \ Claiming' = InFlight
    BY <1>3, <1>4
  <2>2. Cardinality(InFlight' \ Claiming') = Cardinality(InFlight)
    BY <2>1
  <2>3. Cardinality(InFlight) \in Nat
    BY InFlightFinite DEF InFlight
  <2>4. Cardinality(InFlight) <= Cap /\ budget' = Cap - Cardinality(InFlight)
    BY InFlightBound DEF Gather, FreeSlots
  <2> QED
    BY <2>2, <2>3, <2>4, CapAssumption DEF SlotsAddUp
<1> QED
  BY <1>1, <1>3, <1>4, <1>6, <1>7
     DEF ClaimInv, PlanShape, NoPlanBetweenTicks, OneClaimAtATime

LEMMA BeginClaimClaims == ASSUME TypeOK, ClaimInv, NEW i \in Items, BeginClaim(i) PROVE ClaimInv'
<1>1. /\ plan' = [plan EXCEPT ![i] = ClaimProgram(i)]
      /\ plan = None /\ i \in claims /\ claims' = claims \ {i} /\ budget > 0
      /\ UNCHANGED <<lifecycle, tags, lock, budget>> /\ lock = "acting"
  BY DEF BeginClaim
<1>2. \A j \in Items : plan[j] = <<>>
  BY <1>1 DEF None
<1>3. plan'[i] = ClaimProgram(i) /\ \A j \in Items \ {i} : plan'[j] = <<>>
  BY <1>1, <1>2 DEF TypeOK
<1>4. ClaimProgram(i) \in {<<"tag_failed">>, ClaimAndLaunch}
  BY DEF ClaimProgram
<1>5. ClaimAndLaunch \in ClaimPlans
  BY DEF ClaimPlans
<1>6. Claiming = {} /\ Claiming' \subseteq {i}
  BY <1>2, <1>3, PlanParts DEF Claiming
<1>7. PlanShape'
  BY <1>3, <1>4, <1>5, PlanParts DEF PlanShape
<1>8. OneClaimAtATime'
  BY <1>1, <1>3, <1>6 DEF OneClaimAtATime
<1>9. ClaimsAreNotActive'
  <2>1. \A j \in claims : lifecycle[j] # "active"
    BY DEF ClaimInv, ClaimsAreNotActive, TypeOK
  <2>2. \A j \in Items : plan'[j] \in ClaimPlans => j \in claims
    <3>1. \A j \in Items \ {i} : plan'[j] \notin ClaimPlans
      BY <1>3, PlanParts
    <3> QED
      BY <1>1, <3>1
  <2>3. lifecycle' = lifecycle /\ claims' \subseteq claims
    BY <1>1
  <2>4. {ClaimAndLaunch, <<"activate", "tag_claimed", "mark_claimed_at", "launch">>}
          \subseteq ClaimPlans
    BY DEF ClaimPlans
  <2> QED
    BY <2>1, <2>2, <2>3, <2>4 DEF ClaimsAreNotActive
<1>10. SlotsAddUp'
  <2>1. InFlight' \ Claiming' \subseteq InFlight \ Claiming
    BY <1>1, <1>6 DEF InFlight, Claimed
  <2> QED
    BY <1>1, <2>1, FewerInFlight, CapAssumption DEF ClaimInv, SlotsAddUp, TypeOK
<1> QED
  BY <1>1, <1>7, <1>8, <1>9, <1>10 DEF ClaimInv, NoPlanBetweenTicks

(* People move items off the active column or around the others, never     *)
(* into it: only the fleet activates.                                      *)
OnlyTheFleetActivates == \A e \in HumanEdges : e[2] # "active"

LEMMA ClaimInvInit == Init => ClaimInv
<1> SUFFICES ASSUME Init PROVE ClaimInv
  OBVIOUS
<1>1. \A i \in Items : plan[i] = <<>> /\ lifecycle[i] = "queued"
  BY DEF Init, None
<1>2. Claiming = {}
  BY <1>1, PlanParts DEF Claiming
<1>3. InFlight \ Claiming = {}
  BY <1>1 DEF InFlight
<1>4. SlotsAddUp
  BY <1>3, FS_EmptySet, CapAssumption DEF SlotsAddUp, Init
<1> QED
  BY <1>1, <1>2, <1>4, PlanParts
     DEF ClaimInv, PlanShape, NoPlanBetweenTicks, OneClaimAtATime, ClaimsAreNotActive, Init

LEMMA ClaimInvStep ==
  ASSUME OnlyTheFleetActivates, TypeOK, ClaimInv, [Next]_vars
  PROVE  ClaimInv'
<1>1. CASE UNCHANGED vars
  BY <1>1, BoardStands, QuietStep
<1>2. CASE StartTick
  BY <1>2, BoardStands, QuietStep DEF StartTick
<1>3. CASE Gather
  BY <1>3, GatherClaims
<1>4. CASE EndTick \/ Crash
  BY <1>4, BoardStands, ReleasedStep DEF EndTick, Crash
<1>5. ASSUME NEW i \in Items, BeginClaim(i) PROVE ClaimInv'
  BY <1>5, BeginClaimClaims
<1>6. ASSUME NEW i \in Items, Call(i) PROVE ClaimInv'
  BY <1>6, BoardCallClaims, HostCallClaims, ClaimCallClaims DEF Call
<1>7. ASSUME NEW i \in Items, Runner(i) PROVE ClaimInv'
  <2>1. UNCHANGED <<board, tick>>
    BY <1>7 DEF Runner, Boots, AgentParks, AgentExits, Backstop, Dies, EgressDenied, Strays,
                Ages, Heartbeat, RunnerStep
  <2> QED
    BY <2>1, BoardStands, QuietStep
<1>8. ASSUME NEW i \in Items, Human(i) PROVE ClaimInv'
  <2>1. UNCHANGED tick
    BY <1>8 DEF Human, HumanMove, HumanUntag, PRMerges
  <2>2. /\ \A j \in Items : lifecycle'[j] = "active" => lifecycle[j] = "active"
        /\ \A j \in Items : tags'[j] \subseteq tags[j]
    <3>1. CASE HumanMove(i)
      <4>1. PICK to \in Lifecycles : /\ <<lifecycle[i], to>> \in HumanEdges
                                    /\ lifecycle' = [lifecycle EXCEPT ![i] = to]
        BY <3>1 DEF HumanMove
      <4>2. to # "active"
        BY <4>1 DEF OnlyTheFleetActivates
      <4> QED
        BY <3>1, <4>1, <4>2 DEF HumanMove, TypeOK
    <3>2. CASE HumanUntag(i)
      BY <3>2 DEF HumanUntag, TypeOK
    <3>3. CASE PRMerges(i)
      BY <3>3 DEF PRMerges
    <3> QED
      BY <1>8, <3>1, <3>2, <3>3 DEF Human
  <2>3. NothingClaimed
    BY <2>2 DEF NothingClaimed, InFlight, Claimed
  <2> QED
    BY <2>1, <2>3, QuietStep
<1> QED
  BY <1>1, <1>2, <1>3, <1>4, <1>5, <1>6, <1>7, <1>8 DEF Next, TickStep

(* run_tick: while only the fleet activates items, the claimed, active     *)
(* items never outnumber the cap, for any fleet, any board and any number  *)
(* of ticks that die half way through a claim.                             *)
THEOREM InFlightCapped == OnlyTheFleetActivates => (Spec => []InFlightWithinCap)
<1> SUFFICES ASSUME OnlyTheFleetActivates PROVE Spec => []InFlightWithinCap
  OBVIOUS
<1>1. Init => TypeOK /\ ClaimInv
  BY InitType, ClaimInvInit
<1>2. (TypeOK /\ ClaimInv) /\ [Next]_vars => (TypeOK /\ ClaimInv)'
  <2>1. TypeOK /\ [Next]_vars => TypeOK'
    BY TypeStep
  <2> QED
    BY <2>1, ClaimInvStep
<1>3. TypeOK /\ ClaimInv => InFlightWithinCap
  BY InFlightBound DEF InFlightWithinCap
<1> QED
  BY <1>1, <1>2, <1>3, PTL DEF Spec

-----------------------------------------------------------------------------
(* The retry cap.  PlanShape alone, and so whoever moves items wherever:   *)
(* a call never turns a plan into a claim, and a claim names an attempt    *)
(* within the cap.                                                         *)

AttemptsHold == TypeOK /\ PlanShape /\ NoPlanBetweenTicks /\ AttemptInv

LEMMA RestOfPlan ==
  ASSUME NEW p \in Seq(OtherCalls) \cup ClaimPlans, p # <<>>
  PROVE  /\ Tail(p) \in Seq(OtherCalls) \cup ClaimPlans
         /\ Tail(p) \in ClaimPlans => p \in ClaimPlans
<1>1. CASE p \in ClaimPlans
  <2>1. Tail(RollBack) \in Seq(OtherCalls)
    BY PlanTail, PlanParts
  <2>2. Tail(<<"launch">>) \in Seq(OtherCalls)
    <3>1. Tail(<<"launch">>) = <<>>
      OBVIOUS
    <3> QED
      BY <3>1, PlanParts
  <2>3. p \in {RollBack, <<"launch">>} \/ Tail(p) \in ClaimPlans
    BY <1>1, PlanTail DEF ClaimPlans
  <2> QED
    BY <1>1, <2>1, <2>2, <2>3
<1>2. CASE p \notin ClaimPlans
  <2>1. Tail(p) \in Seq(OtherCalls)
    BY <1>2
  <2> QED
    BY <2>1, PlanParts
<1> QED
  BY <1>1, <1>2

(* What a call does to the plans.                                          *)
LEMMA CallPlans ==
  ASSUME TypeOK, PlanShape, NoPlanBetweenTicks, NEW i \in Items, Call(i)
  PROVE  /\ PlanShape' /\ NoPlanBetweenTicks'
         /\ Claiming' \subseteq Claiming
         /\ UNCHANGED <<target, view>> \/ Released
         /\ UNCHANGED status \/ Park(i) \/ MarkDone(i)
         /\ UNCHANGED box \/ Teardown(i) \/ Cleanup(i) \/ Launch(i)
<1>1. /\ lock = "acting" /\ plan[i] # <<>>
      /\ \/ Advance(i) \/ Abandon(i) \/ Released \/ UNCHANGED tick
         \/ Launch(i) \/ \E rest \in CleanupRests : OnlyStill(i, rest)
  BY CleanupTurn
  DEF Call, AddTag, DropClaimed, Drop, DropTags, MoveItem, SetState, Park, MarkDone,
      Archive, ArchiveIfPresent, Teardown, Create, MarkClaimedAt, Launch, Turn
<1>2. plan[i] \in Seq(OtherCalls) \cup ClaimPlans
  BY DEF PlanShape
<1>3. /\ UNCHANGED status \/ Park(i) \/ MarkDone(i)
      /\ UNCHANGED box \/ Teardown(i) \/ Cleanup(i) \/ Launch(i)
  <2>1. UNCHANGED status \/ Park(i) \/ MarkDone(i)
    BY CleanupTurn
    DEF Call, AddTag, DropClaimed, Drop, DropTags, MoveItem, SetState,
        Archive, ArchiveIfPresent, Teardown, Create, MarkClaimedAt, Launch
  <2>2. UNCHANGED box \/ Teardown(i) \/ Cleanup(i) \/ Launch(i)
    BY DEF Call, AddTag, DropClaimed, Drop, DropTags, MoveItem, SetState,
           Park, MarkDone, Archive, ArchiveIfPresent, Create, MarkClaimedAt
  <2> QED
    BY <2>1, <2>2
<1>4. CASE Released
  <2>1. PlanShape' /\ Claiming' = {} /\ NoPlanBetweenTicks'
    BY <1>4, PlanParts DEF Released, None, PlanShape, Claiming, NoPlanBetweenTicks
  <2> QED
    BY <1>3, <1>4, <2>1
<1>5. CASE UNCHANGED tick
  <2>1. PlanShape' /\ Claiming' = Claiming /\ NoPlanBetweenTicks'
    BY <1>5 DEF PlanShape, Claiming, NoPlanBetweenTicks, None
  <2> QED
    BY <1>3, <1>5, <2>1
<1>6. ASSUME NEW q \in Seq(OtherCalls) \cup ClaimPlans, q \in ClaimPlans => i \in Claiming,
             plan' = [plan EXCEPT ![i] = q], UNCHANGED <<lock, view, target, claims>>
      PROVE  PlanShape' /\ Claiming' \subseteq Claiming /\ NoPlanBetweenTicks'
  <2>1. plan'[i] = q /\ \A j \in Items \ {i} : plan'[j] = plan[j]
    BY <1>6 DEF TypeOK
  <2>2. PlanShape'
    BY <1>6, <2>1 DEF PlanShape
  <2>3. Claiming' \subseteq Claiming
    BY <1>6, <2>1 DEF Claiming
  <2> QED
    BY <1>1, <1>6, <2>2, <2>3 DEF NoPlanBetweenTicks
<1>7. CASE Advance(i)
  <2>1. /\ Tail(plan[i]) \in Seq(OtherCalls) \cup ClaimPlans
        /\ Tail(plan[i]) \in ClaimPlans => i \in Claiming
    BY <1>1, <1>2, RestOfPlan DEF Claiming
  <2>2. plan' = [plan EXCEPT ![i] = Tail(plan[i])]
    BY <1>7 DEF Advance
  <2> QED
    BY <1>3, <1>6, <1>7, <2>1, <2>2 DEF Advance
<1>8. CASE Abandon(i)
  BY <1>3, <1>6, <1>8, PlanParts DEF Abandon
<1>9. CASE Launch(i)
  <2>1. i \in Claiming
    <3>1. Head(plan[i]) \in ClaimCalls
      BY <1>9 DEF Launch, Turn, ClaimCalls
    <3> QED
      BY <1>1, <1>2, <3>1, PlanHead DEF Claiming
  <2>2. RollBack \in ClaimPlans /\ <<>> \in Seq(OtherCalls)
    BY PlanParts DEF ClaimPlans
  <2> QED
    BY <1>3, <1>6, <1>9, <2>1, <2>2 DEF Launch
<1>10. ASSUME NEW rest \in CleanupRests, OnlyStill(i, rest)
       PROVE  PlanShape' /\ NoPlanBetweenTicks' /\ Claiming' \subseteq Claiming
  BY <1>6, <1>10, RestType, PlanParts DEF OnlyStill
<1>11. (\E rest \in CleanupRests : OnlyStill(i, rest)) => UNCHANGED <<target, view>>
  BY DEF OnlyStill
<1> QED
  BY <1>1, <1>3, <1>4, <1>5, <1>7, <1>8, <1>9, <1>10, <1>11

(* Parking, finishing and resetting keep an attempt's number or forget it. *)
LEMMA AttemptKept ==
  /\ \A s \in Statuses : Finished(s).attempt = s.attempt
  /\ \A s \in Statuses, park \in ParkedStates : Parked(s, park).attempt = s.attempt
  /\ NoStatus.attempt = 0 /\ NoBox.attempt = 0
  /\ \A a \in Nat : NewStatus(a).attempt = a /\ NewBox(a).attempt = a
BY DEF Finished, Parked, Statuses, NoStatus, NoBox, NewStatus, NewBox

LEMMA CallAttempts ==
  ASSUME AttemptsHold, NEW i \in Items, Call(i)
  PROVE  AttemptInv'
<1>1. /\ Claiming' \subseteq Claiming
      /\ UNCHANGED <<target, view>> \/ Released
      /\ UNCHANGED status \/ Park(i) \/ MarkDone(i)
      /\ UNCHANGED box \/ Teardown(i) \/ Cleanup(i) \/ Launch(i)
  BY CallPlans DEF AttemptsHold
<1>2. \A j \in Items : status'[j].attempt = status[j].attempt
  <2>1. CASE Park(i)
    <3>1. PICK call \in DOMAIN ParkedAs :
            status' = [status EXCEPT ![i] = Parked(@, ParkedAs[call])]
      BY <2>1 DEF Park
    <3>2. ParkedAs[call] \in ParkedStates
      BY DEF ParkedAs, ParkedStates
    <3> QED
      BY <3>1, <3>2, AttemptKept DEF AttemptsHold, TypeOK
  <2>2. CASE MarkDone(i)
    BY <2>2, AttemptKept DEF MarkDone, AttemptsHold, TypeOK
  <2> QED
    BY <1>1, <2>1, <2>2
<1>3. \A j \in Items : box'[j].attempt <= MaxAttempts
  <2>1. \A j \in Items : box[j].attempt <= MaxAttempts
    BY DEF AttemptsHold, AttemptInv, AttemptsWithinCap
  <2>2. box \in [Items -> Boxes] /\ target \in [Items -> Nat]
    BY DEF AttemptsHold, TypeOK
  <2>3. CASE Teardown(i) \/ Cleanup(i)
    <3>1. box' = box \/ box' = [box EXCEPT ![i] = NoBox]
      BY <2>3, CleanupTurn DEF Teardown
    <3> QED
      BY <2>1, <2>2, <3>1, AttemptKept, AttemptsAssumption
  <2>4. CASE Launch(i)
    <3>1. i \in Claiming
      <4>1. plan[i] # <<>> /\ Head(plan[i]) \in ClaimCalls
        BY <2>4 DEF Launch, Turn, ClaimCalls
      <4> QED
        BY <4>1, PlanHead DEF Claiming, AttemptsHold, PlanShape
    <3>2. target[i] <= MaxAttempts
      BY <3>1 DEF AttemptsHold, AttemptInv
    <3>3. box' = box \/ box' = [box EXCEPT ![i] = NewBox(target[i])]
      BY <2>4 DEF Launch
    <3> QED
      BY <2>1, <2>2, <3>2, <3>3, AttemptKept
  <2> QED
    BY <1>1, <2>1, <2>3, <2>4
<1>4. \A j \in Items : view'[j].attempt <= MaxAttempts
  <2>1. CASE Released
    BY <2>1, AttemptKept, AttemptsAssumption DEF Released, Unread
  <2>2. CASE UNCHANGED view
    BY <2>2 DEF AttemptsHold, AttemptInv
  <2> QED
    BY <1>1, <2>1, <2>2
<1>5. \A j \in Claiming' : target'[j] <= MaxAttempts
  <2>1. CASE Released
    BY <2>1, AttemptsAssumption DEF Released, NoTarget, Claiming
  <2>2. CASE UNCHANGED target
    BY <1>1, <2>2 DEF AttemptsHold, AttemptInv
  <2> QED
    BY <1>1, <2>1, <2>2
<1> QED
  BY <1>2, <1>3, <1>4, <1>5 DEF AttemptsHold, AttemptInv, AttemptsWithinCap

(* A tick plans no claim at its gather, and claims only within the cap.    *)
LEMMA TickAttempts ==
  ASSUME AttemptsHold,
         StartTick \/ Gather \/ EndTick \/ Crash \/ \E i \in Items : BeginClaim(i)
  PROVE  (PlanShape /\ NoPlanBetweenTicks /\ AttemptInv)'
<1> USE AttemptKept, AttemptsAssumption DEF AttemptsHold, AttemptInv, AttemptsWithinCap
<1>1. CASE StartTick
  BY <1>1 DEF StartTick, PlanShape, NoPlanBetweenTicks, Claiming, None
<1>2. CASE EndTick \/ Crash
  <2>1. /\ Released /\ UNCHANGED <<status, box>>
    BY <1>2 DEF EndTick, Crash
  <2>2. PlanShape' /\ NoPlanBetweenTicks' /\ Claiming' = {}
    BY <2>1, PlanParts DEF Released, None, PlanShape, NoPlanBetweenTicks, Claiming
  <2>3. \A i \in Items : view'[i].attempt <= MaxAttempts
    BY <2>1 DEF Released, Unread
  <2>4. AttemptInv'
    BY <2>1, <2>2, <2>3
  <2> QED
    BY <2>2, <2>4
<1>3. CASE Gather
  <2>1. \A i \in Items : plan'[i] \in Seq(OtherCalls)
    <3>1. \A i \in Items : Program(DecisionFor(i), Seen(i)) \in Seq(OtherCalls)
      BY ProgramType DEF Seen
    <3> QED
      BY <1>3, <3>1, PlanParts DEF Gather
  <2>2. Claiming' = {} /\ PlanShape'
    BY <2>1, PlanParts DEF Claiming, PlanShape
  <2>3. lock' = "acting" /\ view' = Unread /\ UNCHANGED <<status, box>>
    BY <1>3 DEF Gather
  <2>4. \A i \in Items : view'[i].attempt <= MaxAttempts
    BY <2>3 DEF Unread
  <2>5. AttemptInv'
    BY <2>2, <2>3, <2>4
  <2> QED
    BY <2>2, <2>3, <2>5 DEF NoPlanBetweenTicks
<1>4. ASSUME NEW i \in Items, BeginClaim(i)
      PROVE  (PlanShape /\ NoPlanBetweenTicks /\ AttemptInv)'
  <2>1. /\ plan' = [plan EXCEPT ![i] = ClaimProgram(i)] /\ lock' = "acting"
        /\ UNCHANGED <<status, box, view, target>>
    BY <1>4 DEF BeginClaim
  <2>2. plan'[i] = ClaimProgram(i) /\ \A j \in Items \ {i} : plan'[j] = plan[j]
    BY <2>1 DEF TypeOK
  <2>3. /\ ClaimProgram(i) \in Seq(OtherCalls) \cup ClaimPlans
        /\ target[i] > MaxAttempts => ClaimProgram(i) \notin ClaimPlans
    BY PlanParts DEF ClaimProgram, ClaimPlans
  <2>4. PlanShape'
    BY <2>2, <2>3 DEF PlanShape
  <2>5. \A j \in Claiming' : target[j] <= MaxAttempts
    <3>1. i \in Claiming' => target[i] <= MaxAttempts
      BY <2>2, <2>3 DEF Claiming, TypeOK
    <3>2. Claiming' \ {i} \subseteq Claiming
      BY <2>2 DEF Claiming
    <3>3. \A j \in Claiming : target[j] <= MaxAttempts
      OBVIOUS
    <3> QED
      BY <3>1, <3>2, <3>3
  <2>6. AttemptInv'
    BY <2>1, <2>5
  <2> QED
    BY <2>1, <2>4, <2>6 DEF NoPlanBetweenTicks
<1> QED
  BY <1>1, <1>2, <1>3, <1>4

(* A runner reports the attempt it was launched for.                       *)
LEMMA RunnerAttempts ==
  ASSUME TypeOK, AttemptsWithinCap, NEW i \in Items, Runner(i)
  PROVE  AttemptsWithinCap'
<1> USE DEF AttemptsWithinCap
<1>1. \A j \in Items : box'[j].attempt = box[j].attempt
  <2>0. /\ box \in [Items -> Boxes]
        /\ \A b \in Boxes : \A st, e :
             /\ [b EXCEPT !.state = st].attempt = b.attempt
             /\ [b EXCEPT !.state = st, !.exit = e].attempt = b.attempt
             /\ [b EXCEPT !.denied = st].attempt = b.attempt
    BY DEF TypeOK, Boxes
  <2>1. CASE Boots(i) \/ AgentExits(i) \/ Backstop(i)
    <3>1. PICK st : box' = [box EXCEPT ![i] = [box[i] EXCEPT !.state = st]]
      BY <2>0, <2>1 DEF Boots, AgentExits, Backstop, RunnerStep
    <3> QED
      BY <2>0, <3>1
  <2>2. CASE AgentParks(i)
    <3>1. PICK e : box' = [box EXCEPT ![i] = [box[i] EXCEPT !.state = "leaving", !.exit = e]]
      BY <2>0, <2>2 DEF AgentParks
    <3> QED
      BY <2>0, <3>1
  <2>3. CASE Dies(i)
    <3>1. box' = [box EXCEPT ![i] = [box[i] EXCEPT !.state = "exited", !.exit = Killed]]
      BY <2>0, <2>3 DEF Dies
    <3> QED
      BY <2>0, <3>1
  <2>5. CASE EgressDenied(i)
    <3>1. box' = [box EXCEPT ![i] = [box[i] EXCEPT !.denied = TRUE]]
      BY <2>0, <2>5 DEF EgressDenied
    <3> QED
      BY <2>0, <3>1
  <2>4. CASE Strays(i) \/ Ages(i) \/ Heartbeat(i)
    BY <2>4 DEF Strays, Ages, Heartbeat
  <2> QED
    BY <2>1, <2>2, <2>3, <2>4, <2>5 DEF Runner
<1>2. \A j \in Items : status'[j].attempt \in {status[j].attempt, box[j].attempt}
  <2>1. status \in [Items -> Statuses] /\ box \in [Items -> Boxes]
    BY DEF TypeOK
  <2>2. CASE Boots(i)
    <3>1. box[i].attempt \in Nat
      BY <2>1 DEF Boxes
    <3> QED
      BY <2>1, <2>2, <3>1, AttemptKept DEF Boots
  <2>3. CASE AgentParks(i)
    <3>1. PICK e \in ExitOutcomes : \E park \in Mirrors(e.manifest) :
            status' = [status EXCEPT ![i] = Parked(@, park)]
      BY <2>3 DEF AgentParks
    <3>2. Mirrors(e.manifest) \subseteq ParkedStates
      BY DEF Mirrors, ParkedStates
    <3>3. PICK park \in ParkedStates : status' = [status EXCEPT ![i] = Parked(@, park)]
      BY <3>1, <3>2
    <3> QED
      BY <2>1, <3>3, AttemptKept
  <2>4. CASE Backstop(i)
    <3>1. status' = status \/ status' = [status EXCEPT ![i] = Parked(@, "failed")]
      BY <2>4 DEF Backstop, TypeOK
    <3>2. "failed" \in ParkedStates
      BY DEF ParkedStates
    <3> QED
      BY <2>1, <3>1, <3>2, AttemptKept
  <2>5. CASE Ages(i) \/ Heartbeat(i)
    BY <2>1, <2>5 DEF Ages, Heartbeat, Statuses
  <2>6. CASE AgentExits(i) \/ Dies(i) \/ EgressDenied(i) \/ Strays(i)
    BY <2>6 DEF AgentExits, Dies, EgressDenied, Strays, RunnerStep
  <2> QED
    BY <2>2, <2>3, <2>4, <2>5, <2>6 DEF Runner
<1> QED
  BY <1>1, <1>2

LEMMA AttemptsHoldStep == AttemptsHold /\ [Next]_vars => AttemptsHold'
<1> SUFFICES ASSUME AttemptsHold, [Next]_vars PROVE AttemptsHold'
  OBVIOUS
<1>0. TypeOK /\ TypeOK'
  BY TypeStep DEF AttemptsHold
<1>1. ASSUME UNCHANGED tick, AttemptsWithinCap' PROVE AttemptsHold'
  BY <1>0, <1>1
     DEF AttemptsHold, PlanShape, NoPlanBetweenTicks, None, AttemptInv, Claiming
<1>2. CASE UNCHANGED vars
  BY <1>1, <1>2 DEF AttemptsHold, AttemptInv, AttemptsWithinCap
<1>3. CASE StartTick \/ Gather \/ EndTick \/ Crash \/ \E i \in Items : BeginClaim(i)
  BY <1>0, <1>3, TickAttempts DEF AttemptsHold
<1>4. ASSUME NEW i \in Items, Call(i) PROVE AttemptsHold'
  BY <1>0, <1>4, CallPlans, CallAttempts DEF AttemptsHold
<1>5. ASSUME NEW i \in Items, Runner(i) PROVE AttemptsHold'
  <2>1. UNCHANGED tick
    BY <1>5 DEF Runner, Boots, AgentParks, AgentExits, Backstop, Dies, EgressDenied, Strays,
                Ages, Heartbeat, RunnerStep
  <2> QED
    BY <1>1, <1>5, <2>1, RunnerAttempts DEF AttemptsHold, AttemptInv
<1>6. ASSUME NEW i \in Items, Human(i) PROVE AttemptsHold'
  <2>1. UNCHANGED <<tick, box, status>>
    BY <1>6 DEF Human, HumanMove, HumanUntag, PRMerges
  <2> QED
    BY <1>1, <2>1 DEF AttemptsHold, AttemptInv, AttemptsWithinCap
<1> QED
  BY <1>2, <1>3, <1>4, <1>5, <1>6 DEF Next, TickStep

LEMMA AttemptsHoldInit == Init => AttemptsHold
<1> SUFFICES ASSUME Init PROVE AttemptsHold
  OBVIOUS
<1>1. Claiming = {} /\ PlanShape
  BY PlanParts DEF Init, None, Claiming, PlanShape
<1>2. \A i \in Items : view[i].attempt = 0 /\ status[i].attempt = 0 /\ box[i].attempt = 0
  BY AttemptKept DEF Init, Unread
<1> QED
  BY <1>1, <1>2, InitType, AttemptsAssumption
     DEF Init, AttemptsHold, AttemptInv, AttemptsWithinCap, NoPlanBetweenTicks

(* _retry, _next_attempt: no sandbox and no status names an attempt beyond *)
(* max_attempts, for any fleet and any board, whoever moves items back to  *)
(* the queue by hand and wherever ticks die.                               *)
THEOREM AttemptsCapped == Spec => []AttemptsWithinCap
<1>1. AttemptsHold => AttemptsWithinCap
  BY DEF AttemptsHold, AttemptInv
<1> QED
  BY <1>1, AttemptsHoldInit, AttemptsHoldStep, PTL DEF Spec

=============================================================================
