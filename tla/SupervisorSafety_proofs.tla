---------------------- MODULE SupervisorSafety_proofs ----------------------
(***************************************************************************)
(* What a tick never does to a sandbox, its branch and its worktree, for a *)
(* fleet of any size.  Each invariant is stated item by item: a step is    *)
(* checked against the item it is about, and one lemma says what it leaves *)
(* alone of every other.                                                   *)
(***************************************************************************)
EXTENDS SupervisorTick_proofs, SequenceTheorems

USE DEF board, disk, tick, bounds, vars

-----------------------------------------------------------------------------
(* What a tick may plan for an item, and what it observed when it did.     *)

StopThen(p) == <<"teardown">> \o p

(* Two tuples end to end.                                                  *)
LEMMA Concat ==
  ASSUME NEW S, NEW s \in Seq(S), NEW t \in Seq(S)
  PROVE  /\ s \o t \in Seq(S) /\ Len(s \o t) = Len(s) + Len(t)
         /\ \A k \in 1..Len(s) : (s \o t)[k] = s[k]
         /\ \A k \in 1..Len(t) : (s \o t)[Len(s) + k] = t[k]
OBVIOUS

LEMMA Join11 ==
  ASSUME NEW a, NEW b
  PROVE  <<a>> \o <<b>> = <<a, b>>
<1> DEFINE S == {a, b}
           p == <<a>> \o <<b>>
<1>1. <<a>> \in Seq(S) /\ <<b>> \in Seq(S)
  OBVIOUS
<1>2. p \in Seq(S) /\ Len(p) = 2 /\ p[1] = a /\ p[2] = b
  BY <1>1, Concat
<1> HIDE DEF p
<1>3. p = <<a, b>>
  BY <1>2
<1> QED
  BY <1>3 DEF p

LEMMA Join12 ==
  ASSUME NEW a, NEW b, NEW c
  PROVE  <<a>> \o <<b, c>> = <<a, b, c>>
<1> DEFINE S == {a, b, c}
           p == <<a>> \o <<b, c>>
<1>1. <<a>> \in Seq(S) /\ <<b, c>> \in Seq(S)
  OBVIOUS
<1>2. p \in Seq(S) /\ Len(p) = 3 /\ p[1] = a /\ p[2] = b /\ p[3] = c
  BY <1>1, Concat
<1> HIDE DEF p
<1>3. p = <<a, b, c>>
  BY <1>2
<1> QED
  BY <1>3 DEF p

LEMMA Join13 ==
  ASSUME NEW a, NEW b, NEW c, NEW d
  PROVE  <<a>> \o <<b, c, d>> = <<a, b, c, d>>
<1> DEFINE S == {a, b, c, d}
           p == <<a>> \o <<b, c, d>>
<1>1. <<a>> \in Seq(S) /\ <<b, c, d>> \in Seq(S)
  OBVIOUS
<1>2. p \in Seq(S) /\ Len(p) = 4 /\ p[1] = a /\ p[2] = b /\ p[3] = c /\ p[4] = d
  BY <1>1, Concat
<1> HIDE DEF p
<1>3. p = <<a, b, c, d>>
  BY <1>2
<1> QED
  BY <1>3 DEF p

LEMMA Join14 ==
  ASSUME NEW a, NEW b, NEW c, NEW d, NEW e
  PROVE  <<a>> \o <<b, c, d, e>> = <<a, b, c, d, e>>
<1> DEFINE S == {a, b, c, d, e}
           p == <<a>> \o <<b, c, d, e>>
<1>1. <<a>> \in Seq(S) /\ <<b, c, d, e>> \in Seq(S)
  OBVIOUS
<1>2. p \in Seq(S) /\ Len(p) = 5 /\ p[1] = a /\ p[2] = b /\ p[3] = c /\ p[4] = d /\ p[5] = e
  BY <1>1, Concat
<1> HIDE DEF p
<1>3. p = <<a, b, c, d, e>>
  BY <1>2
<1> QED
  BY <1>3 DEF p

LEMMA Join15 ==
  ASSUME NEW a, NEW b, NEW c, NEW d, NEW e, NEW f
  PROVE  <<a>> \o <<b, c, d, e, f>> = <<a, b, c, d, e, f>>
<1> DEFINE S == {a, b, c, d, e, f}
           p == <<a>> \o <<b, c, d, e, f>>
<1>1. <<a>> \in Seq(S) /\ <<b, c, d, e, f>> \in Seq(S)
  OBVIOUS
<1>2. /\ p \in Seq(S) /\ Len(p) = 6
      /\ p[1] = a /\ p[2] = b /\ p[3] = c /\ p[4] = d /\ p[5] = e /\ p[6] = f
  BY <1>1, Concat
<1> HIDE DEF p
<1>3. p = <<a, b, c, d, e, f>>
  BY <1>2
<1> QED
  BY <1>3 DEF p

LEMMA Join21 ==
  ASSUME NEW a, NEW b, NEW c
  PROVE  <<a, b>> \o <<c>> = <<a, b, c>>
<1> DEFINE S == {a, b, c}
           p == <<a, b>> \o <<c>>
<1>1. <<a, b>> \in Seq(S) /\ <<c>> \in Seq(S)
  OBVIOUS
<1>2. p \in Seq(S) /\ Len(p) = 3 /\ p[1] = a /\ p[2] = b /\ p[3] = c
  BY <1>1, Concat
<1> HIDE DEF p
<1>3. p = <<a, b, c>>
  BY <1>2
<1> QED
  BY <1>3 DEF p

LEMMA Join22 ==
  ASSUME NEW a, NEW b, NEW c, NEW d
  PROVE  <<a, b>> \o <<c, d>> = <<a, b, c, d>>
<1> DEFINE S == {a, b, c, d}
           p == <<a, b>> \o <<c, d>>
<1>1. <<a, b>> \in Seq(S) /\ <<c, d>> \in Seq(S)
  OBVIOUS
<1>2. p \in Seq(S) /\ Len(p) = 4 /\ p[1] = a /\ p[2] = b /\ p[3] = c /\ p[4] = d
  BY <1>1, Concat
<1> HIDE DEF p
<1>3. p = <<a, b, c, d>>
  BY <1>2
<1> QED
  BY <1>3 DEF p

LEMMA Join23 ==
  ASSUME NEW a, NEW b, NEW c, NEW d, NEW e
  PROVE  <<a, b>> \o <<c, d, e>> = <<a, b, c, d, e>>
<1> DEFINE S == {a, b, c, d, e}
           p == <<a, b>> \o <<c, d, e>>
<1>1. <<a, b>> \in Seq(S) /\ <<c, d, e>> \in Seq(S)
  OBVIOUS
<1>2. p \in Seq(S) /\ Len(p) = 5 /\ p[1] = a /\ p[2] = b /\ p[3] = c /\ p[4] = d /\ p[5] = e
  BY <1>1, Concat
<1> HIDE DEF p
<1>3. p = <<a, b, c, d, e>>
  BY <1>2
<1> QED
  BY <1>3 DEF p

LEMMA Join32 ==
  ASSUME NEW a, NEW b, NEW c, NEW d, NEW e
  PROVE  <<a, b, c>> \o <<d, e>> = <<a, b, c, d, e>>
<1> DEFINE S == {a, b, c, d, e}
           p == <<a, b, c>> \o <<d, e>>
<1>1. <<a, b, c>> \in Seq(S) /\ <<d, e>> \in Seq(S)
  OBVIOUS
<1>2. p \in Seq(S) /\ Len(p) = 5 /\ p[1] = a /\ p[2] = b /\ p[3] = c /\ p[4] = d /\ p[5] = e
  BY <1>1, Concat
<1> HIDE DEF p
<1>3. p = <<a, b, c, d, e>>
  BY <1>2
<1> QED
  BY <1>3 DEF p

LEMMA Join41 ==
  ASSUME NEW a, NEW b, NEW c, NEW d, NEW e
  PROVE  <<a, b, c, d>> \o <<e>> = <<a, b, c, d, e>>
<1> DEFINE S == {a, b, c, d, e}
           p == <<a, b, c, d>> \o <<e>>
<1>1. <<a, b, c, d>> \in Seq(S) /\ <<e>> \in Seq(S)
  OBVIOUS
<1>2. p \in Seq(S) /\ Len(p) = 5 /\ p[1] = a /\ p[2] = b /\ p[3] = c /\ p[4] = d /\ p[5] = e
  BY <1>1, Concat
<1> HIDE DEF p
<1>3. p = <<a, b, c, d, e>>
  BY <1>2
<1> QED
  BY <1>3 DEF p

(* The plans of the intents, written out.                                  *)
LEMMA PlansWritten ==
  /\ Retry(TRUE) = <<"archive", "park_failed", "teardown", "drop_claimed", "requeue">>
  /\ Retry(FALSE) = <<"teardown", "drop_claimed", "requeue">>
  /\ Escalate(TRUE) = <<"archive", "teardown", "tag_failed", "drop_claimed">>
  /\ Escalate(FALSE) = <<"teardown", "tag_failed", "drop_claimed">>
  /\ Relinquish(TRUE) = <<"teardown", "archive_if_present", "park_withdrawn", "drop_parks",
                          "drop_claimed">>
  /\ Relinquish(FALSE) = <<"teardown", "archive_if_present", "drop_parks", "drop_claimed">>
  /\ Finalize(TRUE) = <<"delete_branch", "remove_worktree", "compose_down", "drop_all",
                        "mark_done">>
  /\ Finalize(FALSE) = <<"delete_branch", "remove_worktree", "compose_down", "drop_all">>
  /\ Handoff(TRUE) = <<"tag_awaiting", "park_awaiting", "teardown">>
  /\ Handoff(FALSE) = <<"tag_awaiting", "teardown">>
  /\ ParkNeedsDecision(TRUE) = <<"tag_decision", "park_decision", "teardown">>
  /\ ParkNeedsDecision(FALSE) = <<"tag_decision", "teardown">>
<1>1. Retry(TRUE) = <<"archive", "park_failed", "teardown", "drop_claimed", "requeue">>
  BY Join23 DEF Retry, When
<1>2. Retry(FALSE) = <<"teardown", "drop_claimed", "requeue">>
  BY DEF Retry, When
<1>3. /\ Escalate(TRUE) = <<"archive", "teardown", "tag_failed", "drop_claimed">>
      /\ Escalate(FALSE) = <<"teardown", "tag_failed", "drop_claimed">>
  BY Join13 DEF Escalate, When
<1>4. Relinquish(TRUE) = <<"teardown", "archive_if_present", "park_withdrawn", "drop_parks",
                           "drop_claimed">>
  <2>1. <<"teardown", "archive_if_present">> \o <<"park_withdrawn">>
          = <<"teardown", "archive_if_present", "park_withdrawn">>
    BY Join21
  <2>2. <<"teardown", "archive_if_present", "park_withdrawn">> \o <<"drop_parks", "drop_claimed">>
          = <<"teardown", "archive_if_present", "park_withdrawn", "drop_parks", "drop_claimed">>
    BY Join32
  <2> QED
    BY <2>1, <2>2 DEF Relinquish, When
<1>5. Relinquish(FALSE) = <<"teardown", "archive_if_present", "drop_parks", "drop_claimed">>
  BY Join22 DEF Relinquish, When
<1>6. /\ Finalize(TRUE) = <<"delete_branch", "remove_worktree", "compose_down", "drop_all",
                            "mark_done">>
      /\ Finalize(FALSE) = <<"delete_branch", "remove_worktree", "compose_down", "drop_all">>
  BY Join41 DEF Finalize, When
<1>7. /\ Handoff(TRUE) = <<"tag_awaiting", "park_awaiting", "teardown">>
      /\ Handoff(FALSE) = <<"tag_awaiting", "teardown">>
  <2>1. /\ <<"tag_awaiting">> \o <<"park_awaiting">> = <<"tag_awaiting", "park_awaiting">>
        /\ <<"tag_awaiting">> \o <<"teardown">> = <<"tag_awaiting", "teardown">>
    BY Join11
  <2>2. <<"tag_awaiting", "park_awaiting">> \o <<"teardown">>
          = <<"tag_awaiting", "park_awaiting", "teardown">>
    BY Join21
  <2>3. Handoff(TRUE) = <<"tag_awaiting", "park_awaiting", "teardown">>
    BY <2>1, <2>2 DEF Handoff, When
  <2>4. Handoff(FALSE) = <<"tag_awaiting", "teardown">>
    BY <2>1 DEF Handoff, When
  <2> QED
    BY <2>3, <2>4
<1>8. /\ ParkNeedsDecision(TRUE) = <<"tag_decision", "park_decision", "teardown">>
      /\ ParkNeedsDecision(FALSE) = <<"tag_decision", "teardown">>
  <2>1. /\ <<"tag_decision">> \o <<"park_decision">> = <<"tag_decision", "park_decision">>
        /\ <<"tag_decision">> \o <<"teardown">> = <<"tag_decision", "teardown">>
    BY Join11
  <2>2. <<"tag_decision", "park_decision">> \o <<"teardown">>
          = <<"tag_decision", "park_decision", "teardown">>
    BY Join21
  <2>3. ParkNeedsDecision(TRUE) = <<"tag_decision", "park_decision", "teardown">>
    BY <2>1, <2>2 DEF ParkNeedsDecision, When
  <2>4. ParkNeedsDecision(FALSE) = <<"tag_decision", "teardown">>
    BY <2>1 DEF ParkNeedsDecision, When
  <2> QED
    BY <2>3, <2>4
<1> QED
  BY <1>1, <1>2, <1>3, <1>4, <1>5, <1>6, <1>7, <1>8

LEMMA StopPlansWritten ==
  /\ StopThen(Retry(TRUE)) =
       <<"teardown", "archive", "park_failed", "teardown", "drop_claimed", "requeue">>
  /\ StopThen(Retry(FALSE)) = <<"teardown", "teardown", "drop_claimed", "requeue">>
  /\ StopThen(Escalate(TRUE)) =
       <<"teardown", "archive", "teardown", "tag_failed", "drop_claimed">>
  /\ StopThen(Escalate(FALSE)) = <<"teardown", "teardown", "tag_failed", "drop_claimed">>
<1>1. <<"teardown">> \o <<"archive", "park_failed", "teardown", "drop_claimed", "requeue">>
        = <<"teardown", "archive", "park_failed", "teardown", "drop_claimed", "requeue">>
  BY Join15
<1>2. <<"teardown">> \o <<"archive", "teardown", "tag_failed", "drop_claimed">>
        = <<"teardown", "archive", "teardown", "tag_failed", "drop_claimed">>
  BY Join14
<1>3. /\ <<"teardown">> \o <<"teardown", "drop_claimed", "requeue">>
           = <<"teardown", "teardown", "drop_claimed", "requeue">>
      /\ <<"teardown">> \o <<"teardown", "tag_failed", "drop_claimed">>
           = <<"teardown", "teardown", "tag_failed", "drop_claimed">>
  BY Join13
<1> QED
  BY <1>1, <1>2, <1>3, PlansWritten DEF StopThen

(* The engine's decisions, each with the facts it is taken on.             *)
LEMMA Decisions ==
  ASSUME NEW f, f.lifecycle \in Lifecycles, ~ f.teardown_failed, ~ f.build_failed
  PROVE  LET a == Decide(f).actions IN
         \/ a \in {<<"NoAction">>, <<"AwaitAgent">>}
         \/ a = <<"SignalClaimable">> /\ f.lifecycle = "queued" /\ f.in_claim_scope
              /\ f.predecessors_done /\ ~ f.failed_tagged
         \/ a = <<"FinalizeCleanup">> /\ f.lifecycle = "done" /\ f.is_fleet_claimed
              /\ f.pr_completed
         \/ a = <<"StopContainer">> /\ f.lifecycle = "done" /\ f.is_fleet_claimed
         \/ a = <<"RelinquishClaim">> /\ f.lifecycle = "withdrawn" /\ f.is_fleet_claimed
         \/ /\ f.lifecycle = "active" /\ f.is_fleet_claimed
            /\ \/ a \in {<<"HandoffAgentDone">>, <<"ParkNeedsDecision">>,
                         <<"EscalateEgressDenied">>,
                         <<"StopContainer", "RetryIncrement">>,
                         <<"StopContainer", "EscalateExhausted">>}
               \/ /\ a \in {<<"RetryIncrement">>, <<"EscalateExhausted">>}
                  /\ f.container # "running"
<1> USE DEF Terminal, Decision
<1>1. RetryOrEscalate(f).actions \in {<<"EscalateExhausted">>, <<"RetryIncrement">>}
  BY DEF RetryOrEscalate
<1>2. Timeout(f).actions \in {<<"StopContainer", "RetryIncrement">>,
                              <<"StopContainer", "EscalateExhausted">>}
  BY <1>1, Join11 DEF Timeout
<1>3. ClassifyExited(f).actions \in {<<"HandoffAgentDone">>, <<"ParkNeedsDecision">>,
                                     <<"RetryIncrement">>, <<"EscalateExhausted">>}
  BY <1>1 DEF ClassifyExited
<1>4. \/ ClassifyInflight(f).actions \in
           {<<"NoAction">>, <<"AwaitAgent">>, <<"HandoffAgentDone">>, <<"ParkNeedsDecision">>,
            <<"EscalateEgressDenied">>, <<"StopContainer", "RetryIncrement">>,
            <<"StopContainer", "EscalateExhausted">>}
      \/ /\ ClassifyInflight(f).actions \in {<<"RetryIncrement">>, <<"EscalateExhausted">>}
         /\ f.container # "running"
  BY <1>1, <1>2, <1>3 DEF ClassifyInflight
<1>5. \/ ClassifyDone(f).actions = <<"NoAction">>
      \/ /\ f.is_fleet_claimed
         /\ \/ ClassifyDone(f).actions = <<"FinalizeCleanup">> /\ f.pr_completed
            \/ ClassifyDone(f).actions = <<"StopContainer">>
  BY DEF ClassifyDone
<1>6. \/ ClassifyQueued(f).actions = <<"NoAction">>
      \/ /\ ClassifyQueued(f).actions = <<"SignalClaimable">>
         /\ f.in_claim_scope /\ f.predecessors_done
  BY DEF ClassifyQueued
<1>7. Decide(f).actions = Classify(f).actions
  BY DEF Decide
<1>8. CASE f.lifecycle = "queued"
  BY <1>6, <1>7, <1>8 DEF Classify
<1>9. CASE f.lifecycle = "active"
  BY <1>4, <1>7, <1>9 DEF Classify
<1>10. CASE f.lifecycle = "done"
  BY <1>5, <1>7, <1>10 DEF Classify
<1>11. CASE f.lifecycle = "withdrawn"
  BY <1>7, <1>11 DEF Classify
<1> QED
  BY <1>8, <1>9, <1>10, <1>11 DEF Lifecycles

(* The plan of a gather: no calls for an item it may claim, and for every  *)
(* other one the calls of what the engine decided.                         *)
LEMMA Programs ==
  ASSUME TypeOK, NEW i \in Items
  PROVE  LET p == Program(DecisionFor(i), Seen(i))
             seen == Seen(i) IN
         /\ i \in Claimable =>
              /\ p = <<>> /\ lifecycle[i] = "queued" /\ "failed" \notin tags[i]
              /\ \A j \in Predecessors[i] : lifecycle[j] = "done"
         /\ \/ p = <<>>
            \/ /\ p = Finalize(seen) /\ lifecycle[i] = "done"
               /\ Claimed(i) /\ merged[i] = CurrentAttempt(i)
            \/ p = <<"teardown">> /\ lifecycle[i] = "done" /\ Claimed(i)
            \/ p = Relinquish(seen) /\ lifecycle[i] = "withdrawn" /\ Claimed(i)
            \/ /\ i \in InFlight
               /\ \/ p \in {Handoff(seen), ParkNeedsDecision(seen), EscalateEgress,
                            StopThen(Retry(seen)), StopThen(Escalate(seen))}
                  \/ p \in {Retry(seen), Escalate(seen)} /\ Container(i) # "running"
<1> DEFINE f == FactsOf(i)
           a == DecisionFor(i)
<1>1. /\ f.lifecycle = lifecycle[i] /\ ~ f.teardown_failed /\ ~ f.build_failed
      /\ f.is_fleet_claimed = Claimed(i)
      /\ f.failed_tagged = ("failed" \in tags[i])
      /\ f.pr_completed => merged[i] = CurrentAttempt(i)
      /\ i \in InFlight => f.container = Container(i)
      /\ lifecycle[i] = "queued" /\ f.in_claim_scope /\ f.predecessors_done =>
           \A j \in Predecessors[i] : lifecycle[j] = "done"
  BY DEF FactsOf, InFlight
<1>2. lifecycle[i] \in Lifecycles
  BY DEF TypeOK
<1>3. a = Decide(f).actions
  BY DEF DecisionFor
<1> HIDE DEF f
<1>4. \/ a \in {<<"NoAction">>, <<"AwaitAgent">>}
      \/ a = <<"SignalClaimable">> /\ lifecycle[i] = "queued"
           /\ "failed" \notin tags[i] /\ \A j \in Predecessors[i] : lifecycle[j] = "done"
      \/ a = <<"FinalizeCleanup">> /\ lifecycle[i] = "done" /\ Claimed(i)
           /\ merged[i] = CurrentAttempt(i)
      \/ a = <<"StopContainer">> /\ lifecycle[i] = "done" /\ Claimed(i)
      \/ a = <<"RelinquishClaim">> /\ lifecycle[i] = "withdrawn" /\ Claimed(i)
      \/ /\ i \in InFlight
         /\ \/ a \in {<<"HandoffAgentDone">>, <<"ParkNeedsDecision">>,
                      <<"EscalateEgressDenied">>,
                      <<"StopContainer", "RetryIncrement">>,
                      <<"StopContainer", "EscalateExhausted">>}
            \/ a \in {<<"RetryIncrement">>, <<"EscalateExhausted">>} /\ Container(i) # "running"
  BY <1>1, <1>2, <1>3, Decisions DEF InFlight
<1> HIDE DEF a
<1>5. ASSUME NEW x PROVE Program(<<x>>, Seen(i)) = RunAction(x, Seen(i))
  BY DEF Program
<1>6. ASSUME NEW x, NEW y
      PROVE  Program(<<x, y>>, Seen(i)) = RunAction(x, Seen(i)) \o RunAction(y, Seen(i))
  BY DEF Program
<1>7. /\ RunAction("NoAction", Seen(i)) = <<>>
      /\ RunAction("AwaitAgent", Seen(i)) = <<>>
      /\ RunAction("SignalClaimable", Seen(i)) = <<>>
      /\ RunAction("FinalizeCleanup", Seen(i)) = Finalize(Seen(i))
      /\ RunAction("StopContainer", Seen(i)) = <<"teardown">>
      /\ RunAction("RelinquishClaim", Seen(i)) = Relinquish(Seen(i))
      /\ RunAction("HandoffAgentDone", Seen(i)) = Handoff(Seen(i))
      /\ RunAction("ParkNeedsDecision", Seen(i)) = ParkNeedsDecision(Seen(i))
      /\ RunAction("EscalateEgressDenied", Seen(i)) = EscalateEgress
      /\ RunAction("RetryIncrement", Seen(i)) = Retry(Seen(i))
      /\ RunAction("EscalateExhausted", Seen(i)) = Escalate(Seen(i))
  BY DEF RunAction
<1>8. i \in Claimable => a = <<"SignalClaimable">>
  BY DEF Claimable, a
<1>9. i \in Claimable =>
        /\ Program(a, Seen(i)) = <<>> /\ lifecycle[i] = "queued" /\ "failed" \notin tags[i]
        /\ \A j \in Predecessors[i] : lifecycle[j] = "done"
  BY <1>4, <1>5, <1>7, <1>8
<1> DEFINE p == Program(a, Seen(i))
<1>10. \/ p = <<>>
       \/ /\ p = Finalize(Seen(i)) /\ lifecycle[i] = "done"
          /\ Claimed(i) /\ merged[i] = CurrentAttempt(i)
       \/ p = <<"teardown">> /\ lifecycle[i] = "done" /\ Claimed(i)
       \/ p = Relinquish(Seen(i)) /\ lifecycle[i] = "withdrawn" /\ Claimed(i)
       \/ /\ i \in InFlight
          /\ \/ p \in {Handoff(Seen(i)), ParkNeedsDecision(Seen(i)), EscalateEgress,
                       StopThen(Retry(Seen(i))), StopThen(Escalate(Seen(i)))}
             \/ p \in {Retry(Seen(i)), Escalate(Seen(i))} /\ Container(i) # "running"
  BY <1>4, <1>5, <1>6, <1>7, ZenonT(60) DEF StopThen
<1> QED
  BY <1>9, <1>10 DEF a

-----------------------------------------------------------------------------
(* What a step about one item leaves alone of another.                     *)

TickKept(j) ==
  /\ plan'[j] = plan[j] /\ target'[j] = target[j] /\ view'[j] = view[j]
  /\ lock' = lock /\ (j \in claims' <=> j \in claims)

TickOver(j) ==
  /\ plan'[j] = <<>> /\ target'[j] = 0 /\ view'[j] = NoStatus
  /\ lock' = "free" /\ j \notin claims'

DiskKept(j) ==
  \A a : /\ <<j, a>> \in trees' <=> <<j, a>> \in trees
         /\ <<j, a>> \in branches' <=> <<j, a>> \in branches

Alone(j) ==
  /\ lifecycle'[j] = lifecycle[j] /\ tags'[j] = tags[j] /\ merged'[j] = merged[j]
  /\ status'[j] = status[j] /\ box'[j] = box[j]
  /\ DiskKept(j)
  /\ TickKept(j) \/ TickOver(j)

LEMMA ReleasedIsOver == ASSUME Released, NEW j \in Items PROVE TickOver(j)
BY DEF Released, None, NoTarget, Unread, TickOver

LEMMA TypedMaps ==
  ASSUME TypeOK
  PROVE  /\ lifecycle \in [Items -> Lifecycles] /\ tags \in [Items -> SUBSET FleetTags]
         /\ merged \in [Items -> Nat] /\ status \in [Items -> Statuses]
         /\ box \in [Items -> Boxes] /\ view \in [Items -> Statuses]
         /\ plan \in [Items -> Seq(Calls)] /\ target \in [Items -> Nat]
         /\ claims \subseteq Items
BY DEF TypeOK

(* An item's calls touch that item only: its tags and bucket, its status,  *)
(* its sandbox, its own worktrees and branches.                            *)
LEMMA Bystander ==
  ASSUME TypeOK, NEW i \in Items, NEW j \in Items \ {i},
         BeginClaim(i) \/ Call(i) \/ Runner(i) \/ Human(i)
  PROVE  Alone(j)
<1> USE TypedMaps
<1> HIDE DEF board, disk, tick, bounds, vars
<1>1. ASSUME Advance(i) \/ Abandon(i) \/ \E rest \in CleanupRests : OnlyStill(i, rest)
      PROVE  TickKept(j)
  BY <1>1 DEF Advance, Abandon, OnlyStill, TickKept
<1>2. ASSUME UNCHANGED tick PROVE TickKept(j)
  BY <1>2 DEF TickKept, tick
<1>3. ASSUME UNCHANGED <<trees, branches>> PROVE DiskKept(j)
  BY <1>3 DEF DiskKept
<1> USE DEF board, disk
<1>4. CASE BeginClaim(i)
  BY <1>3, <1>4 DEF BeginClaim, Alone, TickKept
<1>5. CASE AddTag(i) \/ DropClaimed(i) \/ MoveItem(i)
  BY <1>1, <1>3, <1>5 DEF AddTag, DropClaimed, MoveItem, SetState, Alone
<1>6. CASE Drop(i)
  BY <1>1, <1>2, <1>3, <1>6 DEF Drop, DropTags, Alone
<1>7. CASE Park(i) \/ MarkDone(i) \/ MarkClaimedAt(i) \/ Teardown(i)
  BY <1>1, <1>3, <1>7 DEF Park, MarkDone, MarkClaimedAt, Teardown, Alone
<1>8. CASE Archive(i) \/ ArchiveIfPresent(i)
  <2>1. DiskKept(j)
    BY <1>8 DEF Archive, ArchiveIfPresent, Here, DiskKept
  <2> QED
    BY <1>1, <1>8, <2>1, ReleasedIsOver DEF Archive, ArchiveIfPresent, Alone
<1>9. CASE Cleanup(i) \/ Create(i)
  <2>1. \A a : <<j, a>> # Here(i)
    BY DEF Here
  <2>2. /\ trees' \subseteq trees \cup {Here(i)} /\ trees \subseteq trees' \cup {Here(i)}
        /\ branches' \subseteq branches \cup {Here(i)}
        /\ branches \subseteq branches' \cup {Here(i)}
    <3>1. CASE Cleanup(i)
      BY <3>1, CleanupTurn
    <3>2. CASE Create(i)
      BY <3>2 DEF Create
    <3> QED
      BY <1>9, <3>1, <3>2
  <2>3. DiskKept(j)
    BY <2>1, <2>2 DEF DiskKept
  <2>4. CASE Cleanup(i)
    BY <1>1, <2>3, <2>4, CleanupTurn DEF Alone
  <2>5. CASE Create(i)
    BY <1>1, <2>3, <2>5 DEF Create, Alone
  <2> QED
    BY <1>9, <2>4, <2>5
<1>10. CASE Launch(i)
  BY <1>3, <1>10 DEF Launch, Alone, TickKept
<1>11. CASE Runner(i)
  <2>1. UNCHANGED <<board, trees, branches, tick>>
    BY <1>11 DEF Runner, Boots, AgentParks, AgentExits, Backstop, Dies, EgressDenied, Strays,
                 Ages, Heartbeat, RunnerStep
  <2>2. status'[j] = status[j] /\ box'[j] = box[j]
    BY <1>11 DEF Runner, Boots, AgentParks, AgentExits, Backstop, Dies, EgressDenied, Strays,
                 Ages, Heartbeat, RunnerStep
  <2> QED
    BY <1>2, <1>3, <2>1, <2>2 DEF Alone
<1>12. CASE Human(i)
  <2>1. UNCHANGED <<disk, box, tick>>
    BY <1>12 DEF Human, HumanMove, HumanUntag, PRMerges
  <2>2. lifecycle'[j] = lifecycle[j] /\ tags'[j] = tags[j] /\ merged'[j] = merged[j]
    BY <1>12 DEF Human, HumanMove, HumanUntag, PRMerges
  <2> QED
    BY <1>2, <1>3, <2>1, <2>2 DEF Alone
<1> QED
  BY <1>4, <1>5, <1>6, <1>7, <1>8, <1>9, <1>10, <1>11, <1>12 DEF Call

-----------------------------------------------------------------------------
(* Attempts: the status, the sandbox, the branches and the plans name      *)
(* attempts of one item that only go forward.                              *)

(* The calls a tick has still to make for an item.                         *)
Left(i) == {plan[i][k] : k \in DOMAIN plan[i]}

StatusCalls == DOMAIN ParkedAs \cup {"mark_done"}

(* A claim whose branch is made.                                           *)
LaunchPlans == ClaimPlans \ {ClaimAndLaunch, RollBack}

GrowAt(i) ==
  /\ status[i].attempt = 0 => status[i] = NoStatus
  /\ view[i].attempt = 0 => view[i] = NoStatus
  /\ view[i].attempt <= status[i].attempt
  /\ merged[i] <= status[i].attempt
  /\ Left(i) \cap StatusCalls # {} \/ box[i].state \in {"work", "leaving"}
       => status[i].attempt > 0
  /\ Left(i) \cap CleanupCalls # {} => merged[i] = target[i] /\ target[i] > 0
  /\ box[i].state = "boot" =>
       box[i].attempt = status[i].attempt + 1 /\ <<i, box[i].attempt>> \in branches
  /\ lock = "reading" =>
       view[i].attempt = status[i].attempt \/ <<i, view[i].attempt + 1>> \in branches
  /\ i \in claims => plan[i] = <<>>
  /\ i \in claims \/ plan[i] = ClaimAndLaunch =>
       target[i] = status[i].attempt + 1 \/ Here(i) \in branches
  /\ plan[i] \in LaunchPlans =>
       /\ target[i] = status[i].attempt + 1 /\ Here(i) \in branches
       /\ box[i].state # "boot"

GrowInv == AttemptsHold /\ \A i \in Items : GrowAt(i)

(* A plan that goes on, or is cut short, other than by making the branch.  *)
PlanShrinks(i) ==
  /\ Left(i)' \cap StatusCalls \subseteq Left(i)
  /\ Left(i)' \cap CleanupCalls # {} => Left(i) \cap CleanupCalls # {}
  /\ plan'[i] # ClaimAndLaunch
  /\ plan'[i] \in LaunchPlans => plan[i] \in LaunchPlans

LEMMA EmptyPlan ==
  ASSUME NEW i, plan[i] = <<>>
  PROVE  Left(i) = {} /\ plan[i] \notin ClaimPlans
<1>1. DOMAIN <<>> = {}
  OBVIOUS
<1> QED
  BY <1>1, PlanParts DEF Left

LEMMA EmptyPlanNext ==
  ASSUME NEW i, plan'[i] = <<>>
  PROVE  Left(i)' = {} /\ plan'[i] \notin ClaimPlans
<1>1. DOMAIN <<>> = {}
  OBVIOUS
<1> QED
  BY <1>1, PlanParts DEF Left

LEMMA TailShrinks ==
  ASSUME TypeOK, PlanShape, NEW i \in Items, NEW call, Turn(i, call), call # "create",
         plan'[i] \in {Tail(plan[i]), <<>>}
  PROVE  PlanShrinks(i)
<1>1. /\ plan[i] \in Seq(OtherCalls) \cup ClaimPlans /\ plan[i] # <<>>
      /\ plan[i] \in Seq(Calls) /\ Head(plan[i]) = call
  BY TypedMaps DEF Turn, PlanShape
<1>2. CASE plan'[i] = <<>>
  <2>1. <<>> # ClaimAndLaunch
    BY DEF ClaimAndLaunch
  <2> QED
    BY <1>2, <2>1, EmptyPlanNext DEF PlanShrinks, LaunchPlans
<1>3. CASE plan'[i] = Tail(plan[i])
  <2>1. Left(i)' \subseteq Left(i)
    <3>1. \A k \in DOMAIN Tail(plan[i]) :
            k + 1 \in DOMAIN plan[i] /\ Tail(plan[i])[k] = plan[i][k + 1]
      BY <1>1
    <3> QED
      BY <1>3, <3>1 DEF Left
  <2>2. plan[i] \in ClaimPlans \/ Tail(plan[i]) \notin ClaimPlans
    BY <1>1, RestOfPlan
  <2>3. ClaimAndLaunch \in ClaimPlans /\ RollBack \in ClaimPlans
    BY DEF ClaimPlans
  <2>4. plan[i] # ClaimAndLaunch
    BY <1>1 DEF ClaimAndLaunch
  <2>5. plan[i] = RollBack => Tail(plan[i]) \notin ClaimPlans
    BY PlanTail, PlanParts
  <2>6. Tail(plan[i]) # ClaimAndLaunch
    <3>1. ASSUME NEW p \in ClaimPlans \ {RollBack, <<"launch">>}
          PROVE  Tail(p) # ClaimAndLaunch
      <4>1. Tail(p) \in {<<"activate", "tag_claimed", "mark_claimed_at", "launch">>,
                         <<"tag_claimed", "mark_claimed_at", "launch">>,
                         <<"mark_claimed_at", "launch">>, <<"launch">>}
        BY PlanTail DEF ClaimPlans
      <4> QED
        BY <4>1 DEF ClaimAndLaunch
    <3>2. Tail(<<"launch">>) = <<>> /\ <<>> # ClaimAndLaunch
      BY DEF ClaimAndLaunch
    <3> QED
      BY <2>2, <2>3, <2>5, <3>1, <3>2
  <2> QED
    BY <1>3, <2>1, <2>2, <2>4, <2>5, <2>6 DEF PlanShrinks, LaunchPlans
<1> QED
  BY <1>2, <1>3

(* What is left of a cleanup was part of it.                               *)
LEMMA RestShrinks ==
  ASSUME NEW i, Left(i) \cap CleanupCalls # {}, plan'[i] \in CleanupRests
  PROVE  PlanShrinks(i)
<1>1. Left(i)' \subseteq CleanupCalls
  BY RestType DEF Left
<1>2. CleanupCalls \cap StatusCalls = {}
  BY DEF CleanupCalls, StatusCalls, ParkedAs
<1>3. plan'[i] \notin ClaimPlans /\ ClaimAndLaunch \in ClaimPlans
  BY RestType, PlanParts DEF ClaimPlans
<1> QED
  BY <1>1, <1>2, <1>3 DEF PlanShrinks, LaunchPlans

LEMMA HeadIsLeft ==
  ASSUME TypeOK, NEW i \in Items, NEW call, Turn(i, call)
  PROVE  call \in Left(i) /\ 1 \in DOMAIN plan[i] /\ plan[i][1] = call
<1>1. plan[i] \in Seq(Calls) /\ plan[i] # <<>> /\ Head(plan[i]) = call
  BY TypedMaps DEF Turn
<1>2. 1 \in DOMAIN plan[i] /\ plan[i][1] = call
  BY <1>1
<1> QED
  BY <1>2 DEF Left

TickOn(i) ==
  /\ lock' = "acting" /\ plan[i] # <<>> /\ PlanShrinks(i)
  /\ target'[i] = target[i] /\ view'[i] = view[i] /\ (i \in claims' <=> i \in claims)

(* What a call other than the claim's two decisive ones does to the plan   *)
(* of its item.                                                            *)
LEMMA CallTick ==
  ASSUME TypeOK, PlanShape, NEW i \in Items, Call(i), ~ Create(i), ~ Launch(i)
  PROVE  /\ lock = "acting" /\ plan[i] # <<>>
         /\ TickKept(i) \/ TickOver(i) \/ TickOn(i)
<1>1. PICK call : /\ Turn(i, call) /\ call # "create"
                  /\ \/ Advance(i) \/ Abandon(i) \/ Released \/ UNCHANGED tick
                     \/ /\ call \in CleanupCalls
                        /\ \E rest \in CleanupRests : OnlyStill(i, rest)
  <2>1. CASE AddTag(i)
    BY <2>1 DEF AddTag, TagOf
  <2>2. CASE Park(i)
    BY <2>2 DEF Park, ParkedAs
  <2>3. CASE DropClaimed(i)
    BY <2>3 DEF DropClaimed
  <2>4. CASE Drop(i)
    BY <2>4 DEF Drop, DropTags
  <2>5. CASE MoveItem(i)
    BY <2>5 DEF MoveItem, SetState
  <2>6. CASE MarkDone(i) \/ Archive(i) \/ ArchiveIfPresent(i)
    BY <2>6 DEF MarkDone, Archive, ArchiveIfPresent
  <2>7. CASE Teardown(i) \/ MarkClaimedAt(i)
    BY <2>7 DEF Teardown, MarkClaimedAt
  <2>8. CASE Cleanup(i)
    <3>1. "create" \notin CleanupCalls
      BY DEF CleanupCalls
    <3> QED
      BY <2>8, <3>1, CleanupTurn
  <2> QED
    BY <2>1, <2>2, <2>3, <2>4, <2>5, <2>6, <2>7, <2>8 DEF Call
<1>2. lock = "acting" /\ plan[i] # <<>>
  BY <1>1 DEF Turn
<1>3. CASE Advance(i) \/ Abandon(i)
  <2>1. plan'[i] \in {Tail(plan[i]), <<>>}
    BY <1>3, TypedMaps DEF Advance, Abandon
  <2>2. PlanShrinks(i)
    BY <1>1, <2>1, TailShrinks
  <2> QED
    BY <1>2, <1>3, <2>2 DEF Advance, Abandon, TickOn
<1>4. CASE Released
  BY <1>2, <1>4, ReleasedIsOver
<1>5. CASE UNCHANGED tick
  BY <1>2, <1>5 DEF TickKept
<1>6. CASE call \in CleanupCalls /\ \E rest \in CleanupRests : OnlyStill(i, rest)
  <2>1. plan'[i] \in CleanupRests /\ UNCHANGED <<lock, view, target, claims>>
    BY <1>6, TypedMaps DEF OnlyStill
  <2>2. PlanShrinks(i)
    BY <1>1, <1>6, <2>1, HeadIsLeft, RestShrinks
  <2> QED
    BY <1>2, <2>1, <2>2 DEF TickOn
<1> QED
  BY <1>1, <1>2, <1>3, <1>4, <1>5, <1>6

(* A step that takes no attempt forward, starts no sandbox and deletes no  *)
(* branch of an item.                                                      *)
Gentle(i) ==
  /\ status'[i].attempt = status[i].attempt
  /\ status'[i] = status[i] \/ status[i].attempt > 0
  /\ merged'[i] = merged[i]
  /\ box'[i].state = "boot" => box[i].state = "boot" /\ box'[i].attempt = box[i].attempt
  /\ box'[i].state \in {"work", "leaving"} => box[i].state \in {"work", "leaving"}
  /\ \A a : <<i, a>> \in branches => <<i, a>> \in branches'
  /\ TickKept(i) \/ TickOver(i) \/ TickOn(i)

LEMMA GentleGrows ==
  ASSUME TypeOK, NEW i \in Items, GrowAt(i), Gentle(i)
  PROVE  GrowAt(i)'
<1> USE DEF Gentle, GrowAt
<1>1. /\ status[i].attempt \in Nat /\ merged[i] \in Nat /\ view[i].attempt \in Nat
      /\ target[i] \in Nat /\ box[i].attempt \in Nat
  BY TypedMaps DEF Statuses, Boxes
<1>2. NoStatus.attempt = 0
  BY AttemptKept
<1>3. CASE TickOver(i)
  <2>1. Left(i)' = {} /\ plan'[i] \notin ClaimPlans /\ ClaimAndLaunch \in ClaimPlans
    BY <1>3, EmptyPlanNext DEF TickOver, ClaimPlans
  <2> QED
    BY <1>1, <1>2, <1>3, <2>1 DEF TickOver, LaunchPlans
<1>4. CASE TickKept(i)
  <2>1. Left(i)' = Left(i)
    BY <1>4 DEF TickKept, Left
  <2> QED
    BY <1>1, <1>4, <2>1, SMTT(60) DEF TickKept, Here
<1>5. CASE TickOn(i)
  BY <1>1, <1>5 DEF TickOn, PlanShrinks, Here
<1> QED
  BY <1>3, <1>4, <1>5

(* A park or the last word on a finalized item is a write to a status that *)
(* the tick read.                                                          *)
LEMMA StatusCallGentle ==
  ASSUME TypeOK, NEW i \in Items, GrowAt(i), Park(i) \/ MarkDone(i)
  PROVE  status'[i].attempt = status[i].attempt /\ status[i].attempt > 0
<1>1. CASE Park(i)
  <2>1. PICK call \in DOMAIN ParkedAs :
          /\ Turn(i, call)
          /\ status' = [status EXCEPT ![i] = Parked(@, ParkedAs[call])]
    BY <1>1 DEF Park
  <2>2. ParkedAs[call] \in ParkedStates
    BY DEF ParkedAs, ParkedStates
  <2>3. call \in Left(i) \cap StatusCalls
    BY <2>1, HeadIsLeft DEF StatusCalls
  <2> QED
    BY <2>1, <2>2, <2>3, TypedMaps, AttemptKept DEF GrowAt
<1>2. CASE MarkDone(i)
  <2>1. "mark_done" \in Left(i) \cap StatusCalls
    BY <1>2, HeadIsLeft DEF MarkDone, StatusCalls
  <2> QED
    BY <1>2, <2>1, TypedMaps, AttemptKept DEF MarkDone, GrowAt
<1> QED
  BY <1>1, <1>2

LEMMA CallGentle ==
  ASSUME TypeOK, PlanShape, NEW i \in Items, GrowAt(i), Call(i),
         ~ Create(i), ~ Launch(i), ~ Cleanup(i)
  PROVE  Gentle(i)
<1>1. TickKept(i) \/ TickOver(i) \/ TickOn(i)
  BY CallTick
<1>2. UNCHANGED <<merged, branches>>
  BY DEF Call, AddTag, DropClaimed, Drop, DropTags, MoveItem, SetState, Park, MarkDone,
         Archive, ArchiveIfPresent, Teardown, MarkClaimedAt
<1>3. /\ status'[i].attempt = status[i].attempt
      /\ status'[i] = status[i] \/ status[i].attempt > 0
  <2>1. CASE Park(i) \/ MarkDone(i)
    BY <2>1, StatusCallGentle
  <2>2. CASE ~ (Park(i) \/ MarkDone(i))
    <3>1. UNCHANGED status
      BY <2>2 DEF Call, AddTag, DropClaimed, Drop, DropTags, MoveItem, SetState,
             Archive, ArchiveIfPresent, Teardown, MarkClaimedAt
    <3> QED
      BY <3>1
  <2> QED
    BY <2>1, <2>2
<1>4. box'[i] \in {box[i], NoBox}
  <2>1. CASE Teardown(i)
    BY <2>1, TypedMaps DEF Teardown
  <2>2. CASE ~ Teardown(i)
    BY <2>2 DEF Call, AddTag, DropClaimed, Drop, DropTags, MoveItem, SetState, Park, MarkDone,
         Archive, ArchiveIfPresent, MarkClaimedAt
  <2> QED
    BY <2>1, <2>2
<1>5. NoBox.state = "absent"
  BY DEF NoBox
<1> QED
  BY <1>1, <1>2, <1>3, <1>4, <1>5 DEF Gentle

(* The branch a cleanup deletes is the one whose pull request completed:   *)
(* an attempt that the status has reached, and no sandbox is starting on.  *)
LEMMA CleanupGrows ==
  ASSUME TypeOK, PlanShape, NEW i \in Items, GrowAt(i), Cleanup(i)
  PROVE  /\ GrowAt(i)'
         /\ \A b \in branches \ branches' : b = <<i, merged[i]>>
<1>0. /\ status[i].attempt \in Nat /\ merged[i] \in Nat /\ view[i].attempt \in Nat
      /\ target[i] \in Nat /\ box[i].attempt \in Nat
  BY TypedMaps DEF Statuses, Boxes
<1>1. /\ UNCHANGED <<status, merged>>
      /\ branches' \subseteq branches
      /\ \A b \in branches \ branches' : b = Here(i)
      /\ box'[i] \in {box[i], NoBox}
  BY CleanupTurn, TypedMaps
<1>2. PICK call \in CleanupCalls : Turn(i, call)
  BY CleanupTurn
<1>3. merged[i] = target[i] /\ target[i] > 0 /\ Left(i) \cap CleanupCalls # {}
  BY <1>2, HeadIsLeft DEF GrowAt
<1>4. plan[i] \notin ClaimPlans /\ plan[i] # <<>> /\ lock = "acting" /\ i \notin claims
  <2>1. call \notin ClaimCalls
    BY RestType
  <2> QED
    BY <1>2, <2>1, PlanHead DEF Turn, PlanShape, GrowAt
<1>5. /\ PlanShrinks(i)
      /\ target'[i] = target[i] /\ view'[i] = view[i] /\ claims' = claims /\ lock' = lock
  <2>1. CASE Advance(i) \/ Abandon(i)
    <3>1. plan'[i] \in {Tail(plan[i]), <<>>} /\ call # "create"
      BY <2>1, TypedMaps DEF Advance, Abandon, CleanupCalls
    <3> QED
      BY <1>2, <2>1, <3>1, TailShrinks DEF Advance, Abandon
  <2>2. CASE \E rest \in CleanupRests : OnlyStill(i, rest)
    <3>1. plan'[i] \in CleanupRests
      BY <2>2, TypedMaps DEF OnlyStill
    <3> QED
      BY <1>3, <2>2, <3>1, RestShrinks DEF OnlyStill
  <2> QED
    BY <2>1, <2>2, CleanupTurn
<1>6. plan'[i] \notin LaunchPlans /\ plan'[i] # ClaimAndLaunch
  BY <1>4, <1>5 DEF PlanShrinks, LaunchPlans
<1>7. box'[i].state = "boot" => box'[i] = box[i] /\ <<i, box[i].attempt>> \in branches'
  <2>1. NoBox.state = "absent"
    BY DEF NoBox
  <2>2. box[i].state = "boot" => <<i, box[i].attempt>> # Here(i)
    BY <1>0, <1>3 DEF GrowAt, Here
  <2> QED
    BY <1>1, <2>1, <2>2 DEF GrowAt
<1>8. box'[i].state \in {"work", "leaving"} => box[i].state \in {"work", "leaving"}
  <2>1. NoBox.state = "absent"
    BY DEF NoBox
  <2> QED
    BY <1>1, <2>1
<1>9. GrowAt(i)'
  BY <1>0, <1>1, <1>3, <1>4, <1>5, <1>6, <1>7, <1>8 DEF GrowAt, PlanShrinks
<1> QED
  BY <1>1, <1>3, <1>9 DEF Here

(* The claim makes its branch, and `git worktree add -b` refuses one that  *)
(* exists: the attempt it goes on with is the next one.                    *)
LEMMA CreateGrows ==
  ASSUME TypeOK, PlanShape, NEW i \in Items, GrowAt(i), Create(i)
  PROVE  GrowAt(i)' /\ branches \subseteq branches'
<1>1. /\ Turn(i, "create") /\ plan[i] # <<>> /\ lock = "acting" /\ lock' = "acting"
      /\ UNCHANGED <<status, merged, box>>
      /\ target'[i] = target[i] /\ view'[i] = view[i] /\ claims' = claims
      /\ branches \subseteq branches'
  BY DEF Create, Turn, Advance, Abandon
<1>2. plan[i] = ClaimAndLaunch
  BY <1>1, PlanHead DEF Turn, PlanShape
<1>3. \/ plan'[i] = <<>>
      \/ /\ plan'[i] = <<"activate", "tag_claimed", "mark_claimed_at", "launch">>
         /\ Here(i) \notin branches /\ Here(i) \in branches'
  BY <1>2, PlanTail, TypedMaps DEF Create, Advance, Abandon
<1>4. CASE plan'[i] = <<>>
  <2>1. Left(i)' = {} /\ plan'[i] \notin LaunchPlans /\ plan'[i] # ClaimAndLaunch
    BY <1>4, EmptyPlanNext DEF LaunchPlans, ClaimAndLaunch
  <2> QED
    BY <1>1, <2>1 DEF GrowAt
<1>5. CASE /\ plan'[i] = <<"activate", "tag_claimed", "mark_claimed_at", "launch">>
           /\ Here(i) \notin branches /\ Here(i) \in branches'
  <2>1. Left(i)' = {"activate", "tag_claimed", "mark_claimed_at", "launch"}
    <3>1. DOMAIN plan'[i] = 1..4
      BY <1>5
    <3> QED
      BY <1>5, <3>1 DEF Left
  <2>2. Left(i)' \cap StatusCalls = {} /\ Left(i)' \cap CleanupCalls = {}
    BY <2>1 DEF StatusCalls, ParkedAs, CleanupCalls
  <2>3. target[i] = status[i].attempt + 1
    BY <1>2, <1>5 DEF GrowAt
  <2>4. box[i].state # "boot"
    BY <1>5, <2>3 DEF GrowAt, Here
  <2>5. plan'[i] # ClaimAndLaunch /\ plan'[i] # <<>>
    BY <1>5 DEF ClaimAndLaunch
  <2>6. i \notin claims
    BY <1>1 DEF GrowAt
  <2> QED
    BY <1>1, <1>5, <2>2, <2>3, <2>4, <2>5, <2>6 DEF GrowAt, Here
<1> QED
  BY <1>1, <1>3, <1>4, <1>5

LEMMA LaunchGrows ==
  ASSUME TypeOK, PlanShape, NEW i \in Items, GrowAt(i), Launch(i)
  PROVE  /\ GrowAt(i)' /\ UNCHANGED <<branches, status>>
         /\ box'[i].state = "boot" => box'[i].attempt = status[i].attempt + 1
<1>1. /\ Turn(i, "launch") /\ plan[i] # <<>> /\ lock = "acting" /\ lock' = "acting"
      /\ UNCHANGED <<status, merged, branches, target, view, claims>>
  BY DEF Launch, Turn
<1>2. plan[i] = <<"launch">>
  BY <1>1, PlanHead DEF Turn, PlanShape
<1>3. plan[i] \in LaunchPlans
  BY <1>2 DEF LaunchPlans, ClaimPlans, ClaimAndLaunch, RollBack
<1>4. target[i] = status[i].attempt + 1 /\ Here(i) \in branches /\ box[i].state # "boot"
  BY <1>3 DEF GrowAt
<1>5. \/ plan'[i] = <<>> /\ box'[i] = NewBox(target[i])
      \/ plan'[i] = RollBack /\ box'[i] = box[i]
  BY TypedMaps DEF Launch
<1>6. Left(i)' \cap StatusCalls = {} /\ Left(i)' \cap CleanupCalls = {}
  <2>1. CASE plan'[i] = <<>>
    BY <2>1, EmptyPlanNext
  <2>2. CASE plan'[i] = RollBack
    <3>1. Left(i)' = {"unclaim", "requeue"}
      <4>1. DOMAIN plan'[i] = 1..2
        BY <2>2 DEF RollBack
      <4> QED
        BY <2>2, <4>1 DEF Left, RollBack
    <3> QED
      BY <3>1 DEF StatusCalls, ParkedAs, CleanupCalls
  <2> QED
    BY <1>5, <2>1, <2>2
<1>7. plan'[i] \notin LaunchPlans /\ plan'[i] # ClaimAndLaunch
  <2>1. ClaimAndLaunch # <<>> /\ ClaimAndLaunch # RollBack
    BY DEF ClaimAndLaunch, RollBack
  <2>2. <<>> \notin ClaimPlans
    BY PlanParts
  <2> QED
    BY <1>5, <2>1, <2>2 DEF LaunchPlans
<1>8. target[i] \in Nat
  BY TypedMaps
<1>9. NewBox(target[i]).state = "boot" /\ NewBox(target[i]).attempt = target[i]
  BY <1>8, AttemptKept DEF NewBox, NoBox
<1>10. i \notin claims
  BY <1>1 DEF GrowAt
<1> QED
  BY <1>1, <1>4, <1>5, <1>6, <1>7, <1>9, <1>10 DEF GrowAt, Here

LEMMA BeginClaimGrows ==
  ASSUME TypeOK, NEW i \in Items, GrowAt(i), BeginClaim(i)
  PROVE  GrowAt(i)'
<1>1. /\ i \in claims /\ i \notin claims' /\ lock' = "acting"
      /\ UNCHANGED <<status, merged, box, branches, target, view>>
      /\ plan'[i] \in {<<"tag_failed">>, ClaimAndLaunch}
  BY TypedMaps DEF BeginClaim, ClaimProgram
<1>2. Left(i)' \cap StatusCalls = {} /\ Left(i)' \cap CleanupCalls = {}
  <2>1. CASE plan'[i] = <<"tag_failed">>
    <3>1. DOMAIN plan'[i] = 1..1
      BY <2>1
    <3>2. Left(i)' = {"tag_failed"}
      BY <2>1, <3>1 DEF Left
    <3> QED
      BY <3>2 DEF StatusCalls, ParkedAs, CleanupCalls
  <2>2. CASE plan'[i] = ClaimAndLaunch
    <3>1. DOMAIN plan'[i] = 1..5
      BY <2>2 DEF ClaimAndLaunch
    <3>2. Left(i)' = {"create", "activate", "tag_claimed", "mark_claimed_at", "launch"}
      BY <2>2, <3>1 DEF Left, ClaimAndLaunch
    <3> QED
      BY <3>2 DEF StatusCalls, ParkedAs, CleanupCalls
  <2> QED
    BY <1>1, <2>1, <2>2
<1>3. plan'[i] \notin LaunchPlans
  BY <1>1, PlanParts DEF LaunchPlans
<1> QED
  BY <1>1, <1>2, <1>3 DEF GrowAt, Here

(* A runner writes the attempt its sandbox was launched for.               *)
LEMMA BootsGrows ==
  ASSUME TypeOK, NEW i \in Items, GrowAt(i), Boots(i)
  PROVE  GrowAt(i)' /\ status'[i].attempt = status[i].attempt + 1
<1>0. /\ status[i].attempt \in Nat /\ merged[i] \in Nat /\ view[i].attempt \in Nat
      /\ target[i] \in Nat /\ box[i].attempt \in Nat
  BY TypedMaps DEF Statuses, Boxes
<1>1. /\ box[i].state = "boot" /\ box'[i].state = "work"
      /\ status'[i] = NewStatus(box[i].attempt)
      /\ UNCHANGED <<board, branches, tick>>
  BY TypedMaps DEF Boots, RunnerStep, Boxes
<1>2. status'[i].attempt = box[i].attempt
  BY <1>0, <1>1, AttemptKept
<1>3. box[i].attempt = status[i].attempt + 1 /\ <<i, box[i].attempt>> \in branches
  BY <1>1 DEF GrowAt
<1>4. Left(i)' = Left(i)
  BY <1>1 DEF Left
<1> QED
  BY <1>0, <1>1, <1>2, <1>3, <1>4 DEF GrowAt, Here

(* Nothing else a runner does, or a person, names an attempt.              *)
LEMMA RunnerGentle ==
  ASSUME TypeOK, NEW i \in Items, GrowAt(i), Runner(i), ~ Boots(i)
  PROVE  Gentle(i)
<1>1. UNCHANGED <<merged, branches, tick>>
  BY DEF Runner, AgentParks, AgentExits, Backstop, Dies, EgressDenied, Strays, Ages,
         Heartbeat, RunnerStep
<1>2. TickKept(i)
  BY <1>1 DEF TickKept
<1>3. /\ box'[i].state = "boot" => box[i].state = "boot"
      /\ box'[i].state \in {"work", "leaving"} => box[i].state \in {"work", "leaving"}
      /\ box'[i].attempt = box[i].attempt
  <2>1. box[i] \in Boxes
    BY TypedMaps
  <2>2. CASE AgentExits(i) \/ Backstop(i)
    <3>1. box'[i] = [box[i] EXCEPT !.state = "exited"]
      BY <2>2, TypedMaps DEF AgentExits, Backstop, RunnerStep
    <3> QED
      BY <2>1, <3>1 DEF Boxes
  <2>3. CASE AgentParks(i)
    <3>1. PICK e : box'[i] = [box[i] EXCEPT !.state = "leaving", !.exit = e]
      BY <2>3, TypedMaps DEF AgentParks
    <3> QED
      BY <2>1, <2>3, <3>1 DEF Boxes, AgentParks
  <2>4. CASE Dies(i)
    <3>1. box'[i] = [box[i] EXCEPT !.state = "exited", !.exit = Killed]
      BY <2>4, TypedMaps DEF Dies
    <3> QED
      BY <2>1, <3>1 DEF Boxes
  <2>5. CASE EgressDenied(i)
    <3>1. box'[i] = [box[i] EXCEPT !.denied = TRUE]
      BY <2>5, TypedMaps DEF EgressDenied
    <3> QED
      BY <2>1, <3>1 DEF Boxes
  <2>6. CASE Strays(i) \/ Ages(i) \/ Heartbeat(i)
    BY <2>6 DEF Strays, Ages, Heartbeat
  <2> QED
    BY <2>2, <2>3, <2>4, <2>5, <2>6 DEF Runner
<1>4. /\ status'[i].attempt = status[i].attempt
      /\ status'[i] = status[i] \/ status[i].attempt > 0
  <2>0. status[i] \in Statuses /\ status[i].attempt \in Nat
    BY TypedMaps DEF Statuses
  <2>1. CASE AgentParks(i)
    <3>1. PICK e \in ExitOutcomes : \E park \in Mirrors(e.manifest) :
            status' = [status EXCEPT ![i] = Parked(@, park)]
      BY <2>1 DEF AgentParks
    <3>2. Mirrors(e.manifest) \subseteq ParkedStates
      BY DEF Mirrors, ParkedStates
    <3>3. PICK park \in ParkedStates : status'[i] = Parked(status[i], park)
      BY <3>1, <3>2, TypedMaps
    <3> QED
      BY <2>0, <2>1, <3>3, AttemptKept DEF AgentParks, GrowAt
  <2>2. CASE Backstop(i)
    <3>1. status'[i] \in {status[i], Parked(status[i], "failed")}
      BY <2>2, TypedMaps DEF Backstop
    <3>2. "failed" \in ParkedStates
      BY DEF ParkedStates
    <3> QED
      BY <2>0, <2>2, <3>1, <3>2, AttemptKept DEF Backstop, GrowAt
  <2>3. CASE Ages(i)
    <3>1. \/ status'[i] = status[i]
          \/ status[i] # NoStatus /\ status'[i] = [status[i] EXCEPT !.stale = TRUE]
      BY <2>3, TypedMaps DEF Ages
    <3>2. status[i] # NoStatus => status[i].attempt > 0
      BY <2>0 DEF GrowAt
    <3> QED
      BY <2>0, <3>1, <3>2 DEF Statuses
  <2>4. CASE Heartbeat(i)
    <3>1. status'[i] = [status[i] EXCEPT !.stale = FALSE] /\ status[i].attempt > 0
      BY <2>4, TypedMaps DEF Heartbeat, GrowAt
    <3> QED
      BY <2>0, <3>1 DEF Statuses
  <2>5. CASE AgentExits(i) \/ Dies(i) \/ EgressDenied(i) \/ Strays(i)
    BY <2>5 DEF AgentExits, Dies, EgressDenied, Strays, RunnerStep
  <2> QED
    BY <2>1, <2>2, <2>3, <2>4, <2>5 DEF Runner
<1> QED
  BY <1>1, <1>2, <1>3, <1>4 DEF Gentle

LEMMA HumanGrows ==
  ASSUME TypeOK, NEW i \in Items, GrowAt(i), Human(i)
  PROVE  GrowAt(i)'
<1>1. CASE HumanMove(i) \/ HumanUntag(i)
  <2>1. Gentle(i)
    BY <1>1 DEF HumanMove, HumanUntag, Gentle, TickKept
  <2> QED
    BY <2>1, GentleGrows
<1>2. CASE PRMerges(i)
  <2>1. /\ merged[i] = 0 /\ merged'[i] = status[i].attempt
        /\ UNCHANGED <<status, box, branches, tick>>
    BY <1>2, TypedMaps DEF PRMerges
  <2>2. status[i].attempt \in Nat /\ target[i] \in Nat
    BY TypedMaps DEF Statuses
  <2>3. Left(i) \cap CleanupCalls = {}
    BY <2>1, <2>2 DEF GrowAt
  <2>4. Left(i)' = Left(i)
    BY <2>1 DEF Left
  <2> QED
    BY <2>1, <2>2, <2>3, <2>4 DEF GrowAt, Here
<1> QED
  BY <1>1, <1>2 DEF Human

(* The plans of a gather other than a finalize's.                          *)
OtherPlans(seen) ==
  {<<>>, <<"teardown">>, Relinquish(seen), Handoff(seen), ParkNeedsDecision(seen),
   EscalateEgress, StopThen(Retry(seen)), StopThen(Escalate(seen)), Retry(seen), Escalate(seen)}

(* Call by call: without a status file, and with one.                      *)
UnseenPlans ==
  {<<>>, <<"teardown">>,
   <<"teardown", "archive_if_present", "drop_parks", "drop_claimed">>,
   <<"tag_awaiting", "teardown">>, <<"tag_decision", "teardown">>,
   <<"teardown", "tag_failed", "drop_claimed">>,
   <<"teardown", "drop_claimed", "requeue">>,
   <<"teardown", "teardown", "drop_claimed", "requeue">>,
   <<"teardown", "teardown", "tag_failed", "drop_claimed">>}

SeenPlans ==
  {<<>>, <<"teardown">>,
   <<"teardown", "archive_if_present", "park_withdrawn", "drop_parks", "drop_claimed">>,
   <<"tag_awaiting", "park_awaiting", "teardown">>,
   <<"tag_decision", "park_decision", "teardown">>,
   <<"teardown", "tag_failed", "drop_claimed">>,
   <<"archive", "park_failed", "teardown", "drop_claimed", "requeue">>,
   <<"archive", "teardown", "tag_failed", "drop_claimed">>,
   <<"teardown", "archive", "park_failed", "teardown", "drop_claimed", "requeue">>,
   <<"teardown", "archive", "teardown", "tag_failed", "drop_claimed">>}

FinalizePlans ==
  {<<"delete_branch", "remove_worktree", "compose_down", "drop_all">>,
   <<"delete_branch", "remove_worktree", "compose_down", "drop_all", "mark_done">>}

LEMMA OtherPlansWritten ==
  OtherPlans(FALSE) \subseteq UnseenPlans /\ OtherPlans(TRUE) \subseteq SeenPlans
<1>1. ASSUME NEW p \in OtherPlans(FALSE) PROVE p \in UnseenPlans
  BY PlansWritten, StopPlansWritten DEF OtherPlans, EscalateEgress, UnseenPlans
<1>2. ASSUME NEW p \in OtherPlans(TRUE) PROVE p \in SeenPlans
  BY PlansWritten, StopPlansWritten DEF OtherPlans, EscalateEgress, SeenPlans
<1> QED
  BY <1>1, <1>2

(* Only what was read is written back.                                     *)
LEMMA UnseenIsNotWritten ==
  ASSUME NEW p \in OtherPlans(FALSE) \cup {Finalize(FALSE)}, NEW k \in DOMAIN p
  PROVE  p[k] \notin StatusCalls
<1>1. ASSUME NEW q \in UnseenPlans, NEW m \in DOMAIN q PROVE q[m] \notin StatusCalls
  BY DEF UnseenPlans, StatusCalls, ParkedAs
<1>2. CASE p \in OtherPlans(FALSE)
  BY <1>1, <1>2, OtherPlansWritten
<1>3. CASE p = Finalize(FALSE)
  <2>1. p = <<"delete_branch", "remove_worktree", "compose_down", "drop_all">>
    BY <1>3, PlansWritten
  <2> QED
    BY <2>1 DEF StatusCalls, ParkedAs
<1> QED
  BY <1>2, <1>3

LEMMA CleanupIsFinalize ==
  ASSUME NEW seen \in BOOLEAN, NEW p \in OtherPlans(seen), NEW k \in DOMAIN p
  PROVE  p[k] \notin CleanupCalls
<1>1. p \in UnseenPlans \cup SeenPlans
  <2>1. seen = TRUE \/ seen = FALSE
    OBVIOUS
  <2> QED
    BY <2>1, OtherPlansWritten
<1>2. ASSUME NEW q \in UnseenPlans, NEW m \in DOMAIN q PROVE q[m] \notin CleanupCalls
  BY DEF UnseenPlans, CleanupCalls
<1>3. ASSUME NEW q \in SeenPlans, NEW m \in DOMAIN q PROVE q[m] \notin CleanupCalls
  BY DEF SeenPlans, CleanupCalls
<1> QED
  BY <1>1, <1>2, <1>3

(* What a gather plans for an item, whoever looks at it.                   *)
LEMMA GatherPlans ==
  ASSUME TypeOK, Gather, NEW i \in Items
  PROVE  /\ \/ plan'[i] \in OtherPlans(Seen(i))
            \/ /\ plan'[i] = Finalize(Seen(i)) /\ i \notin Claimable
               /\ merged[i] = CurrentAttempt(i)
         /\ plan'[i] \notin ClaimPlans
         /\ i \in Claimable => plan'[i] = <<>>
         /\ target'[i] = IF i \in Claimable THEN NextAttempt(i) ELSE CurrentAttempt(i)
         /\ view'[i] = NoStatus /\ claims' \subseteq Claimable
<1>1. plan'[i] = IF i \in Relevant THEN Program(DecisionFor(i), Seen(i)) ELSE <<>>
  BY DEF Gather
<1>2. /\ Program(DecisionFor(i), Seen(i)) \notin ClaimPlans
      /\ <<>> \notin ClaimPlans
  BY ProgramType, PlanParts DEF Seen
<1>3. <<>> # Finalize(Seen(i))
  <2>1. ASSUME NEW p, p = Finalize(TRUE) \/ p = Finalize(FALSE) PROVE p # <<>>
    <3>1. \/ p = <<"delete_branch", "remove_worktree", "compose_down", "drop_all", "mark_done">>
          \/ p = <<"delete_branch", "remove_worktree", "compose_down", "drop_all">>
      BY <2>1, PlansWritten
    <3> QED
      BY <3>1
  <2>2. Seen(i) = TRUE \/ Seen(i) = FALSE
    BY DEF Seen
  <2> QED
    BY <2>1, <2>2
<1>4. \/ plan'[i] \in OtherPlans(Seen(i))
      \/ /\ plan'[i] = Finalize(Seen(i)) /\ i \notin Claimable
         /\ merged[i] = CurrentAttempt(i)
  BY <1>1, <1>3, Programs DEF OtherPlans
<1>5. i \in Claimable => plan'[i] = <<>>
  BY <1>1, Programs
<1> QED
  BY <1>1, <1>2, <1>4, <1>5 DEF Gather, Unread

LEMMA GatherGrows ==
  ASSUME TypeOK, NoPlanBetweenTicks, NEW i \in Items, GrowAt(i), Gather
  PROVE  GrowAt(i)'
<1>0. /\ status[i].attempt \in Nat /\ merged[i] \in Nat /\ view[i].attempt \in Nat
      /\ NoStatus.attempt = 0
  BY TypedMaps, AttemptKept DEF Statuses
<1>1. /\ lock = "reading" /\ lock' = "acting"
      /\ UNCHANGED <<status, merged, box, branches>>
  BY DEF Gather
<1>2. /\ plan'[i] \notin ClaimPlans /\ plan'[i] # ClaimAndLaunch /\ plan'[i] \notin LaunchPlans
  BY GatherPlans DEF LaunchPlans, ClaimPlans
<1>3. view[i].attempt = status[i].attempt \/ <<i, view[i].attempt + 1>> \in branches
  BY <1>1 DEF GrowAt
<1>4. Seen(i) <=> view[i].attempt > 0
  BY <1>0 DEF Seen, GrowAt
<1>5. i \in claims' =>
        /\ plan'[i] = <<>>
        /\ target'[i] = status[i].attempt + 1 \/ <<i, target'[i]>> \in branches
  <2>1. NextAttempt(i) = view[i].attempt + 1
    BY <1>0, <1>4 DEF NextAttempt
  <2> QED
    BY <1>3, <2>1, GatherPlans
<1>6. Left(i)' \cap StatusCalls # {} => status[i].attempt > 0
  <2>1. SUFFICES ASSUME Left(i)' \cap StatusCalls # {}, ~ Seen(i) PROVE FALSE
    BY <1>0, <1>4 DEF GrowAt
  <2>2. plan'[i] \in OtherPlans(FALSE) \cup {Finalize(FALSE)}
    BY <2>1, GatherPlans DEF Seen
  <2> QED
    BY <2>1, <2>2, UnseenIsNotWritten DEF Left
<1>7. Left(i)' \cap CleanupCalls # {} => merged[i] = target'[i] /\ target'[i] > 0
  <2>1. SUFFICES ASSUME Left(i)' \cap CleanupCalls # {}
                 PROVE  merged[i] = target'[i] /\ target'[i] > 0
    OBVIOUS
  <2>2. PICK k \in DOMAIN plan'[i] : plan'[i][k] \in CleanupCalls
    BY <2>1 DEF Left
  <2>3. Seen(i) \in BOOLEAN
    BY DEF Seen
  <2>4. plan'[i] \notin OtherPlans(Seen(i))
    BY <2>2, <2>3, CleanupIsFinalize
  <2>5. merged[i] = target'[i] /\ target'[i] = CurrentAttempt(i)
    BY <2>4, GatherPlans
  <2>6. CurrentAttempt(i) > 0
    BY <1>4 DEF CurrentAttempt
  <2> QED
    BY <2>5, <2>6
<1> QED
  BY <1>0, <1>1, <1>2, <1>5, <1>6, <1>7, GatherPlans DEF GrowAt, Here

LEMMA StartTickGrows ==
  ASSUME TypeOK, NoPlanBetweenTicks, NEW i \in Items, GrowAt(i), StartTick
  PROVE  GrowAt(i)'
<1>0. status[i].attempt \in Nat
  BY TypedMaps DEF Statuses
<1>1. /\ view'[i] = status[i] /\ plan[i] = <<>> /\ claims = {}
      /\ UNCHANGED <<status, merged, box, branches, plan, target, claims>>
  BY DEF StartTick, NoPlanBetweenTicks, None
<1>2. plan'[i] = <<>>
  BY <1>1
<1>3. Left(i)' = {} /\ plan'[i] \notin ClaimPlans
  BY <1>2, EmptyPlanNext
<1>4. plan'[i] # ClaimAndLaunch
  BY <1>2 DEF ClaimAndLaunch
<1> QED
  BY <1>0, <1>1, <1>3, <1>4 DEF GrowAt, LaunchPlans

LEMMA GrowInit == Init => GrowInv
<1> SUFFICES ASSUME Init PROVE GrowInv
  OBVIOUS
<1>1. ASSUME NEW i \in Items PROVE GrowAt(i)
  <2>1. /\ plan[i] = <<>> /\ status[i] = NoStatus /\ view[i] = NoStatus /\ merged[i] = 0
        /\ box[i] = NoBox /\ claims = {} /\ lock = "free"
    BY DEF Init, None, Unread
  <2>2. Left(i) = {} /\ plan[i] \notin ClaimPlans /\ plan[i] # ClaimAndLaunch
    BY <2>1, EmptyPlan DEF ClaimAndLaunch
  <2>3. NoStatus.attempt = 0 /\ NoBox.state = "absent"
    BY AttemptKept DEF NoBox
  <2> QED
    BY <2>1, <2>2, <2>3 DEF GrowAt, LaunchPlans
<1> QED
  BY <1>1, AttemptsHoldInit DEF GrowInv

(* An item no step is about keeps what is true of it.                      *)
LEMMA AloneGrows ==
  ASSUME TypeOK, NEW j \in Items, GrowAt(j), Alone(j)
  PROVE  GrowAt(j)'
<1>1. Gentle(j)
  BY DEF Alone, DiskKept, Gentle
<1> QED
  BY <1>1, GentleGrows

(* The step of an item about itself.                                       *)
LEMMA OwnStepGrows ==
  ASSUME TypeOK, PlanShape, NEW i \in Items, GrowAt(i),
         BeginClaim(i) \/ Call(i) \/ Runner(i) \/ Human(i)
  PROVE  GrowAt(i)'
<1>1. CASE BeginClaim(i)
  BY <1>1, BeginClaimGrows
<1>2. CASE Call(i)
  <2>1. CASE Create(i) \/ Launch(i) \/ Cleanup(i)
    BY <2>1, CreateGrows, LaunchGrows, CleanupGrows
  <2>2. CASE ~ (Create(i) \/ Launch(i) \/ Cleanup(i))
    BY <1>2, <2>2, CallGentle, GentleGrows
  <2> QED
    BY <2>1, <2>2
<1>3. CASE Runner(i)
  <2>1. CASE Boots(i)
    BY <2>1, BootsGrows
  <2>2. CASE ~ Boots(i)
    BY <1>3, <2>2, RunnerGentle, GentleGrows
  <2> QED
    BY <2>1, <2>2
<1>4. CASE Human(i)
  BY <1>4, HumanGrows
<1> QED
  BY <1>1, <1>2, <1>3, <1>4

(* The steps of a tick about all of its items, or none.                    *)
LEMMA WholeTick ==
  ASSUME TypeOK, EndTick \/ Crash \/ UNCHANGED vars, NEW j \in Items
  PROVE  Alone(j)
<1>1. DiskKept(j) /\ UNCHANGED <<lifecycle, tags, merged, status, box>>
  BY DEF EndTick, Crash, DiskKept
<1>2. TickKept(j) \/ TickOver(j)
  <2>1. CASE UNCHANGED vars
    BY <2>1 DEF TickKept
  <2>2. CASE EndTick \/ Crash
    BY <2>2, ReleasedIsOver DEF EndTick, Crash
  <2> QED
    BY <2>1, <2>2
<1> QED
  BY <1>1, <1>2 DEF Alone

LEMMA GrowStep == GrowInv /\ [Next]_vars => GrowInv'
<1> SUFFICES ASSUME GrowInv, [Next]_vars PROVE GrowInv'
  OBVIOUS
<1>0. AttemptsHold' /\ TypeOK /\ PlanShape /\ NoPlanBetweenTicks
  BY AttemptsHoldStep DEF GrowInv, AttemptsHold
<1> SUFFICES ASSUME NEW j \in Items PROVE GrowAt(j)'
  BY <1>0 DEF GrowInv
<1>1. GrowAt(j)
  BY DEF GrowInv
<1>2. CASE StartTick
  BY <1>0, <1>1, <1>2, StartTickGrows
<1>3. CASE Gather
  BY <1>0, <1>1, <1>3, GatherGrows
<1>4. CASE EndTick \/ Crash \/ UNCHANGED vars
  BY <1>0, <1>1, <1>4, WholeTick, AloneGrows
<1>5. ASSUME NEW i \in Items, BeginClaim(i) \/ Call(i) \/ Runner(i) \/ Human(i)
      PROVE  GrowAt(j)'
  <2>1. CASE i = j
    BY <1>0, <1>1, <1>5, <2>1, OwnStepGrows
  <2>2. CASE i # j
    BY <1>0, <1>1, <1>5, <2>2, Bystander, AloneGrows
  <2> QED
    BY <2>1, <2>2
<1> QED
  BY <1>2, <1>3, <1>4, <1>5 DEF Next, TickStep

(* What a step does to the attempt a status names, and to a sandbox that   *)
(* starts.                                                                 *)
LEMMA StepGrows ==
  ASSUME GrowInv, [Next]_vars, NEW j \in Items
  PROVE  /\ status'[j].attempt >= status[j].attempt
         /\ box'[j].state = "boot" /\ box[j].state # "boot"
              => box'[j].attempt > status[j].attempt
<1>0. /\ TypeOK /\ PlanShape /\ GrowAt(j)
      /\ status[j].attempt \in Nat
  BY TypedMaps DEF GrowInv, AttemptsHold, Statuses
<1>1. ASSUME Gentle(j) \/ UNCHANGED <<status, box>> PROVE
        /\ status'[j].attempt >= status[j].attempt
        /\ box'[j].state = "boot" => box[j].state = "boot"
  BY <1>0, <1>1 DEF Gentle
<1>2. CASE StartTick \/ Gather \/ EndTick \/ Crash \/ UNCHANGED vars
  BY <1>1, <1>2 DEF StartTick, Gather, EndTick, Crash
<1>3. ASSUME NEW i \in Items, BeginClaim(i) \/ Call(i) \/ Runner(i) \/ Human(i), i # j
      PROVE  UNCHANGED <<status[j], box[j]>>
  BY <1>0, <1>3, Bystander DEF Alone
<1>4. ASSUME BeginClaim(j) \/ Human(j) \/ Create(j) PROVE UNCHANGED <<status, box>>
  BY <1>4 DEF BeginClaim, Human, HumanMove, HumanUntag, PRMerges, Create
<1>5. CASE Launch(j)
  BY <1>0, <1>5, LaunchGrows
<1>6. CASE Boots(j)
  <2>1. box[j].state = "boot" /\ status'[j].attempt = status[j].attempt + 1
    BY <1>0, <1>6, BootsGrows DEF Boots
  <2> QED
    BY <1>0, <2>1
<1>7. CASE Cleanup(j)
  <2>1. UNCHANGED status /\ box'[j] \in {box[j], NoBox} /\ NoBox.state = "absent"
    BY <1>0, <1>7, CleanupTurn, TypedMaps DEF NoBox
  <2> QED
    BY <1>0, <2>1
<1>8. CASE \/ Runner(j) /\ ~ Boots(j)
           \/ Call(j) /\ ~ Create(j) /\ ~ Launch(j) /\ ~ Cleanup(j)
  BY <1>0, <1>1, <1>8, RunnerGentle, CallGentle
<1> QED
  BY <1>0, <1>1, <1>2, <1>3, <1>4, <1>5, <1>6, <1>7, <1>8 DEF Next, TickStep

(* _claim_and_launch: attempts only grow.  No status ever names an earlier *)
(* attempt than it did, and no sandbox is started on an attempt a runner   *)
(* already reported: for any fleet and any board, under any moves by hand, *)
(* with ticks that die anywhere, docker calls that fail, agents that leave *)
(* their branch and sandboxes that never boot.                             *)
THEOREM AttemptsGrow == Spec => AttemptsOnlyGrow
<1>1. GrowInv /\ [Next]_vars =>
        [\A i \in Items :
           /\ status'[i].attempt >= status[i].attempt
           /\ box'[i].state = "boot" /\ box[i].state # "boot"
                => box'[i].attempt > status[i].attempt]_vars
  BY StepGrows
<1> QED
  BY <1>1, GrowInit, GrowStep, PTL DEF Spec, AttemptsOnlyGrow

(* CleanupAccess.finalize: a branch is deleted only when its pull request  *)
(* completed, whatever the status said by the time of the call and however *)
(* often the item was claimed, requeued or finalized before.               *)
THEOREM BranchesAreKept == Spec => BranchesOutliveTheirPR
<1>1. GrowInv /\ [Next]_vars => [\A b \in branches \ branches' : merged[b[1]] = b[2]]_vars
  <2> SUFFICES ASSUME GrowInv, Next, NEW b \in branches \ branches'
               PROVE  merged[b[1]] = b[2]
    OBVIOUS
  <2>0. TypeOK /\ PlanShape
    BY DEF GrowInv, AttemptsHold
  <2>1. PICK i \in Items : Cleanup(i)
    <3>1. StartTick \/ Gather \/ EndTick \/ Crash => branches' = branches
      BY DEF StartTick, Gather, EndTick, Crash
    <3>2. ASSUME NEW i \in Items, BeginClaim(i) \/ Runner(i) \/ Human(i)
          PROVE  branches' = branches
      BY <3>2 DEF BeginClaim, Runner, Boots, AgentParks, AgentExits, Backstop, Dies,
                  EgressDenied, Strays, Ages, Heartbeat, RunnerStep,
                  Human, HumanMove, HumanUntag, PRMerges
    <3>3. ASSUME NEW i \in Items, Call(i), ~ Cleanup(i) PROVE branches \subseteq branches'
      BY <3>3 DEF Call, AddTag, DropClaimed, Drop, DropTags, MoveItem, SetState, Park, MarkDone,
                  Archive, ArchiveIfPresent, Teardown, Create, MarkClaimedAt, Launch
    <3> QED
      BY <3>1, <3>2, <3>3 DEF Next, TickStep
  <2>2. GrowAt(i)
    BY DEF GrowInv
  <2> QED
    BY <2>0, <2>1, <2>2, CleanupGrows
<1> QED
  BY <1>1, GrowInit, GrowStep, PTL DEF Spec, BranchesOutliveTheirPR

-----------------------------------------------------------------------------
(* Predecessors: a claim is only ever begun behind delivered items, and a  *)
(* delivered item stays delivered.                                         *)

(* The board never reopens a closed item, nor does a person.               *)
DoneIsFinal == RefusesClosed /\ \A e \in HumanEdges : e[1] # "done"

Underway(i) == i \in claims \/ plan[i] \in ClaimPlans \/ IsRunning(i)

Delivered(i) == \A j \in Predecessors[i] : lifecycle[j] = "done"

PredInv == AttemptsHold /\ \A i \in Items : Underway(i) => Delivered(i)

LEMMA DoneStays ==
  ASSUME DoneIsFinal, TypeOK, [Next]_vars, NEW j \in Items, lifecycle[j] = "done"
  PROVE  lifecycle'[j] = "done"
<1>1. CASE StartTick \/ Gather \/ EndTick \/ Crash \/ UNCHANGED vars
  BY <1>1 DEF StartTick, Gather, EndTick, Crash
<1>2. ASSUME NEW i \in Items, BeginClaim(i) \/ Runner(i) PROVE lifecycle' = lifecycle
  BY <1>2 DEF BeginClaim, Runner, Boots, AgentParks, AgentExits, Backstop, Dies,
              EgressDenied, Strays, Ages, Heartbeat, RunnerStep
<1>3. ASSUME NEW i \in Items, Call(i), ~ MoveItem(i) PROVE lifecycle' = lifecycle
  BY <1>3, CleanupTurn DEF Call, AddTag, DropClaimed, Drop, DropTags, Park, MarkDone, Archive,
                           ArchiveIfPresent, Teardown, Create, MarkClaimedAt, Launch
<1>4. ASSUME NEW i \in Items, MoveItem(i) PROVE lifecycle'[j] = lifecycle[j]
  BY <1>4, TypedMaps DEF MoveItem, SetState, Closed, DoneIsFinal
<1>5. ASSUME NEW i \in Items, Human(i) PROVE lifecycle'[j] = lifecycle[j]
  <2>1. CASE HumanMove(i)
    <3>1. PICK to \in Lifecycles : /\ <<lifecycle[i], to>> \in HumanEdges
                                  /\ lifecycle' = [lifecycle EXCEPT ![i] = to]
      BY <2>1 DEF HumanMove
    <3>2. lifecycle[i] # "done"
      BY <3>1 DEF DoneIsFinal
    <3> QED
      BY <3>1, <3>2, TypedMaps
  <2> QED
    BY <1>5, <2>1 DEF Human, HumanUntag, PRMerges
<1> QED
  BY <1>1, <1>2, <1>3, <1>4, <1>5 DEF Next, TickStep

(* A runner never starts another one.                                      *)
LEMMA RunnerRuns ==
  ASSUME TypeOK, NEW i \in Items, Runner(i)
  PROVE  /\ box'[i].state \in Running => box[i].state \in Running
         /\ box'[i].attempt = box[i].attempt
         /\ box'[i].state = "boot" => box[i].state = "boot"
<1>1. box[i] \in Boxes
  BY TypedMaps
<1>2. CASE Boots(i)
  <2>1. box'[i] = [box[i] EXCEPT !.state = "work"] /\ box[i].state = "boot"
    BY <1>2, TypedMaps DEF Boots, RunnerStep
  <2> QED
    BY <1>1, <2>1 DEF Boxes, Running
<1>3. CASE AgentExits(i) \/ Backstop(i)
  <2>1. box'[i] = [box[i] EXCEPT !.state = "exited"]
    BY <1>3, TypedMaps DEF AgentExits, Backstop, RunnerStep
  <2> QED
    BY <1>1, <2>1 DEF Boxes, Running
<1>4. CASE AgentParks(i)
  <2>1. PICK e : box'[i] = [box[i] EXCEPT !.state = "leaving", !.exit = e]
    BY <1>4, TypedMaps DEF AgentParks
  <2> QED
    BY <1>1, <1>4, <2>1 DEF Boxes, AgentParks, Running
<1>5. CASE Dies(i)
  <2>1. box'[i] = [box[i] EXCEPT !.state = "exited", !.exit = Killed]
    BY <1>5, TypedMaps DEF Dies
  <2> QED
    BY <1>1, <2>1 DEF Boxes, Running
<1>6. CASE EgressDenied(i)
  <2>1. box'[i] = [box[i] EXCEPT !.denied = TRUE]
    BY <1>6, TypedMaps DEF EgressDenied
  <2> QED
    BY <1>1, <2>1 DEF Boxes
<1>7. CASE Strays(i) \/ Ages(i) \/ Heartbeat(i)
  BY <1>7 DEF Strays, Ages, Heartbeat
<1> QED
  BY <1>2, <1>3, <1>4, <1>5, <1>6, <1>7 DEF Runner

LEMMA NoBoxIsIdle ==
  /\ NoBox.state \notin Running /\ NoBox.state = "absent"
  /\ \A a \in Nat : NewBox(a).state = "boot" /\ NewBox(a).attempt = a
BY AttemptKept DEF NoBox, NewBox, Running

(* What a call does to the claims and to the sandbox of its item.          *)
LEMMA CallBox ==
  ASSUME TypeOK, PlanShape, NoPlanBetweenTicks, NEW i \in Items, Call(i)
  PROVE  /\ i \in claims' => i \in claims
         /\ plan'[i] \in ClaimPlans => plan[i] \in ClaimPlans
         /\ \/ box'[i] \in {box[i], NoBox}
            \/ /\ Launch(i) /\ plan[i] \in ClaimPlans
               /\ plan'[i] = <<>> /\ box'[i] = NewBox(target[i])
<1>1. i \in claims' => i \in claims
  BY CleanupTurn
  DEF Call, AddTag, DropClaimed, Drop, DropTags, MoveItem, SetState, Park, MarkDone, Archive,
      ArchiveIfPresent, Teardown, Create, MarkClaimedAt, Launch, Advance, Abandon, OnlyStill,
      Released
<1>2. plan'[i] \in ClaimPlans => plan[i] \in ClaimPlans
  BY CallPlans DEF Claiming
<1>3. CASE Teardown(i) \/ Cleanup(i)
  BY <1>1, <1>2, <1>3, CleanupTurn, TypedMaps DEF Teardown
<1>4. CASE Launch(i)
  <2>1. plan[i] \in ClaimPlans
    <3>1. plan[i] # <<>> /\ Head(plan[i]) \in ClaimCalls
      BY <1>4 DEF Launch, Turn, ClaimCalls
    <3> QED
      BY <3>1, PlanHead DEF PlanShape
  <2> QED
    BY <1>1, <1>2, <1>4, <2>1, TypedMaps DEF Launch
<1> QED
  BY <1>1, <1>2, <1>3, <1>4, CallPlans

LEMMA UnderwayStep ==
  ASSUME TypeOK, PlanShape, NoPlanBetweenTicks, [Next]_vars, NEW j \in Items, Underway(j)'
  PROVE  Underway(j) \/ (Gather /\ j \in Claimable)
<1> USE DEF Underway, IsRunning
<1>1. ASSUME Alone(j) PROVE Underway(j)
  <2>1. <<>> \notin ClaimPlans
    BY PlanParts
  <2> QED
    BY <1>1, <2>1 DEF Alone, TickKept, TickOver
<1>2. CASE StartTick
  BY <1>2 DEF StartTick
<1>3. CASE Gather
  BY <1>3, GatherPlans DEF Gather
<1>4. CASE EndTick \/ Crash \/ UNCHANGED vars
  BY <1>1, <1>4, WholeTick
<1>5. ASSUME NEW i \in Items, BeginClaim(i) \/ Call(i) \/ Runner(i) \/ Human(i), i # j
      PROVE  Underway(j)
  BY <1>1, <1>5, Bystander
<1>6. CASE BeginClaim(j)
  BY <1>6 DEF BeginClaim
<1>7. CASE Call(j)
  BY <1>7, CallBox, NoBoxIsIdle
<1>8. CASE Runner(j)
  <2>1. UNCHANGED <<plan, claims>>
    BY <1>8 DEF Runner, Boots, AgentParks, AgentExits, Backstop, Dies,
                EgressDenied, Strays, Ages, Heartbeat, RunnerStep
  <2> QED
    BY <1>8, <2>1, RunnerRuns
<1>9. CASE Human(j)
  BY <1>9 DEF Human, HumanMove, HumanUntag, PRMerges
<1> QED
  BY <1>2, <1>3, <1>4, <1>5, <1>6, <1>7, <1>8, <1>9 DEF Next, TickStep

(* _queued_gates: when a done item stays done, no sandbox is started, or   *)
(* runs on, for an item behind one that is not delivered, for any graph of *)
(* predecessors and however ticks, claims and moves by hand interleave.    *)
THEOREM OnlyBehindDelivered == DoneIsFinal => (Spec => []PredecessorsDelivered)
<1> SUFFICES ASSUME DoneIsFinal PROVE Spec => []PredecessorsDelivered
  OBVIOUS
<1>1. Init => PredInv
  <2> SUFFICES ASSUME Init PROVE PredInv
    OBVIOUS
  <2>1. \A i \in Items : ~ Underway(i)
    BY NoBoxIsIdle, PlanParts DEF Init, None, Underway, IsRunning
  <2> QED
    BY <2>1, AttemptsHoldInit DEF PredInv
<1>2. PredInv /\ [Next]_vars => PredInv'
  <2> SUFFICES ASSUME PredInv, [Next]_vars PROVE PredInv'
    OBVIOUS
  <2>0. AttemptsHold' /\ TypeOK /\ PlanShape /\ NoPlanBetweenTicks
    BY AttemptsHoldStep DEF PredInv, AttemptsHold
  <2> SUFFICES ASSUME NEW j \in Items, Underway(j)' PROVE Delivered(j)'
    BY <2>0 DEF PredInv
  <2>1. Delivered(j)
    <3>1. CASE Underway(j)
      BY <3>1 DEF PredInv
    <3>2. CASE j \in Claimable
      BY <2>0, <3>2, Programs DEF Delivered
    <3> QED
      BY <2>0, <3>1, <3>2, UnderwayStep
  <2>2. Predecessors[j] \subseteq Items
    BY BoardAssumption
  <2> QED
    BY <2>0, <2>1, <2>2, DoneStays DEF Delivered
<1>3. PredInv => PredecessorsDelivered
  BY DEF PredInv, Underway, Delivered, PredecessorsDelivered
<1> QED
  BY <1>1, <1>2, <1>3, PTL DEF Spec

-----------------------------------------------------------------------------
(* Claims and escalations: what a plan has still to release.               *)

(* People move items out of the queue or to its end states, never into it: *)
(* only the fleet requeues.                                                *)
OnlyTheFleetRequeues == \A e \in HumanEdges : e[2] # "queued"

ActivatePlan == <<"activate", "tag_claimed", "mark_claimed_at", "launch">>

(* A claim whose item is active.                                           *)
HeldPlans ==
  {<<"tag_claimed", "mark_claimed_at", "launch">>, <<"mark_claimed_at", "launch">>,
   <<"launch">>, RollBack}

Unclaims == {"drop_claimed", "unclaim"}

(* An item is requeued, and escalated, with its claim released right       *)
(* before, or right after.                                                 *)
ReleaseFirst(i) ==
  \A k \in DOMAIN plan[i] :
    /\ plan[i][k] = "requeue" =>
         /\ k = Len(plan[i])
         /\ k > 1 => plan[i][k - 1] \in Unclaims
         /\ k = 1 => ~ Claimed(i)
    /\ plan[i][k] = "tag_failed" =>
         /\ k < Len(plan[i]) => Len(plan[i]) = k + 1 /\ plan[i][k + 1] = "drop_claimed"
         /\ k = Len(plan[i]) => ~ Claimed(i)

EscAt(i) ==
  /\ lifecycle[i] = "queued" => ~ Claimed(i) /\ plan[i] \notin HeldPlans
  /\ ReleaseFirst(i)
  /\ i \in claims \/ plan[i] \in ClaimPlans => "failed" \notin tags[i]
  /\ i \in claims \/ plan[i] = ClaimAndLaunch \/ plan[i] = ActivatePlan => ~ Claimed(i)

EscInv == GrowInv /\ \A i \in Items : EscAt(i)

LEMMA ClaimTails ==
  ASSUME NEW p \in Seq(OtherCalls) \cup ClaimPlans, p # <<>>
  PROVE  /\ Tail(p) \in ClaimPlans => p \in ClaimPlans
         /\ Tail(p) # ClaimAndLaunch
         /\ Tail(p) = ActivatePlan => p = ClaimAndLaunch
         /\ Tail(p) \in HeldPlans => p \in HeldPlans \/ p = ActivatePlan
<1>1. Tail(p) \in ClaimPlans => p \in ClaimPlans
  BY RestOfPlan
<1>2. HeldPlans \cup {ClaimAndLaunch, ActivatePlan} \subseteq ClaimPlans
  BY DEF HeldPlans, ActivatePlan, ClaimPlans
<1>3. SUFFICES ASSUME p \in ClaimPlans
               PROVE  /\ Tail(p) # ClaimAndLaunch
                      /\ Tail(p) = ActivatePlan => p = ClaimAndLaunch
                      /\ Tail(p) \in HeldPlans => p \in HeldPlans \/ p = ActivatePlan
  BY <1>1, <1>2
<1> USE PlanTail
<1>4. CASE p = ClaimAndLaunch
  <2>1. Tail(p) = ActivatePlan
    BY <1>4 DEF ActivatePlan
  <2>2. ActivatePlan # ClaimAndLaunch /\ ActivatePlan \notin HeldPlans
    BY DEF ActivatePlan, ClaimAndLaunch, HeldPlans, RollBack
  <2> QED
    BY <1>4, <2>1, <2>2
<1>5. CASE p = ActivatePlan
  <2>1. Tail(p) = <<"tag_claimed", "mark_claimed_at", "launch">>
    BY <1>5 DEF ActivatePlan
  <2>2. Tail(p) # ClaimAndLaunch /\ Tail(p) # ActivatePlan
    BY <2>1 DEF ActivatePlan, ClaimAndLaunch
  <2> QED
    BY <1>5, <2>2
<1>6. CASE p \in HeldPlans
  <2>1. Tail(p) \in {<<"mark_claimed_at", "launch">>, <<"launch">>, <<>>, <<"requeue">>}
    <3>1. Tail(<<"launch">>) = <<>>
      OBVIOUS
    <3> QED
      BY <1>6, <3>1 DEF HeldPlans
  <2>2. ASSUME NEW q \in {<<"mark_claimed_at", "launch">>, <<"launch">>, <<>>, <<"requeue">>}
        PROVE  q # ClaimAndLaunch /\ q # ActivatePlan
    <3>1. ClaimAndLaunch[1] = "create" /\ ActivatePlan[1] = "activate"
      BY DEF ClaimAndLaunch, ActivatePlan
    <3>2. CASE q = <<>>
      BY <3>2 DEF ClaimAndLaunch, ActivatePlan
    <3>3. CASE q # <<>>
      <4>1. q[1] \notin {"create", "activate"}
        BY <3>3
      <4> QED
        BY <3>1, <4>1
    <3> QED
      BY <3>2, <3>3
  <2> QED
    BY <1>6, <2>1, <2>2
<1> QED
  BY <1>3, <1>4, <1>5, <1>6 DEF ClaimPlans, HeldPlans, ActivatePlan

(* A call of the plan is made: what its place in the plan says.            *)
LEMMA TailReleases ==
  ASSUME TypeOK, NEW i \in Items, NEW call, Turn(i, call), ReleaseFirst(i),
         plan'[i] = Tail(plan[i]), Claimed(i)' => Claimed(i) /\ call \notin Unclaims
  PROVE  ReleaseFirst(i)'
<1>1. plan[i] \in Seq(Calls) /\ plan[i] # <<>> /\ plan[i][1] = call
  BY HeadIsLeft, TypedMaps DEF Turn
<1>2. /\ Len(plan'[i]) = Len(plan[i]) - 1 /\ Len(plan[i]) \in Nat
      /\ DOMAIN plan[i] = 1..Len(plan[i]) /\ DOMAIN plan'[i] = 1..(Len(plan[i]) - 1)
      /\ \A k \in 1..(Len(plan[i]) - 1) : plan'[i][k] = plan[i][k + 1]
  BY <1>1
<1> SUFFICES ASSUME NEW k \in DOMAIN plan'[i]
             PROVE  /\ plan'[i][k] = "requeue" =>
                         /\ k = Len(plan'[i])
                         /\ k > 1 => plan'[i][k - 1] \in Unclaims
                         /\ k = 1 => ~ Claimed(i)'
                    /\ plan'[i][k] = "tag_failed" =>
                         /\ k < Len(plan'[i]) =>
                              Len(plan'[i]) = k + 1 /\ plan'[i][k + 1] = "drop_claimed"
                         /\ k = Len(plan'[i]) => ~ Claimed(i)'
  BY DEF ReleaseFirst
<1>3. k \in Nat /\ k >= 1 /\ k + 1 \in DOMAIN plan[i] /\ plan'[i][k] = plan[i][k + 1]
  BY <1>2
<1>4. plan[i][k + 1] = "requeue" =>
        k + 1 = Len(plan[i]) /\ plan[i][k] \in Unclaims
  BY <1>3 DEF ReleaseFirst
<1>5. plan[i][k + 1] = "tag_failed" =>
        /\ k + 1 < Len(plan[i]) => Len(plan[i]) = k + 2 /\ plan[i][k + 2] = "drop_claimed"
        /\ k + 1 = Len(plan[i]) => ~ Claimed(i)
  BY <1>3 DEF ReleaseFirst
<1>6. plan'[i][k] = "requeue" =>
        /\ k = Len(plan'[i])
        /\ k > 1 => plan'[i][k - 1] \in Unclaims
        /\ k = 1 => ~ Claimed(i)'
  BY <1>1, <1>2, <1>3, <1>4
<1>7. plan'[i][k] = "tag_failed" =>
        /\ k < Len(plan'[i]) => Len(plan'[i]) = k + 1 /\ plan'[i][k + 1] = "drop_claimed"
        /\ k = Len(plan'[i]) => ~ Claimed(i)'
  BY <1>2, <1>3, <1>5
<1> QED
  BY <1>6, <1>7

(* A step that neither requeues nor claims an item.                        *)
LEMMA EscKept ==
  ASSUME TypeOK, PlanShape, NEW i \in Items, EscAt(i),
         lifecycle'[i] # "queued" \/ lifecycle'[i] = lifecycle[i],
         Claimed(i)' => Claimed(i),
         "failed" \in tags'[i] \ tags[i] => i \notin claims /\ plan[i] \notin ClaimPlans,
         i \in claims' => i \in claims,
         \/ plan'[i] = plan[i]
         \/ plan'[i] = <<>>
         \/ plan'[i] \in CleanupRests
         \/ \E call : /\ Turn(i, call) /\ plan'[i] = Tail(plan[i])
                      /\ call \in Unclaims => ~ Claimed(i)'
                      /\ call = "activate" => lifecycle'[i] # "queued"
  PROVE  EscAt(i)'
<1> USE DEF EscAt
<1>0. HeldPlans \cup {ClaimAndLaunch, ActivatePlan} \subseteq ClaimPlans
  BY DEF HeldPlans, ActivatePlan, ClaimPlans
<1>1. CASE plan'[i] = plan[i]
  <2>1. ReleaseFirst(i)'
    BY <1>1 DEF ReleaseFirst
  <2> QED
    BY <1>0, <1>1, <2>1
<1>2. CASE plan'[i] = <<>>
  <2>1. DOMAIN plan'[i] = {}
    BY <1>2
  <2>2. ReleaseFirst(i)'
    BY <2>1 DEF ReleaseFirst
  <2>3. plan'[i] \notin ClaimPlans
    BY <1>2, PlanParts
  <2> QED
    BY <1>0, <2>2, <2>3
<1>3. ASSUME NEW call, Turn(i, call), plan'[i] = Tail(plan[i]),
             call \in Unclaims => ~ Claimed(i)',
             call = "activate" => lifecycle'[i] # "queued"
      PROVE  EscAt(i)'
  <2>1. ReleaseFirst(i)'
    BY <1>3, TailReleases
  <2>2. /\ plan[i] \in Seq(OtherCalls) \cup ClaimPlans /\ plan[i] # <<>>
        /\ Head(plan[i]) = call
    BY <1>3 DEF Turn, PlanShape
  <2>3. /\ plan'[i] \in ClaimPlans => plan[i] \in ClaimPlans
        /\ plan'[i] # ClaimAndLaunch
        /\ plan'[i] = ActivatePlan => plan[i] = ClaimAndLaunch
        /\ plan'[i] \in HeldPlans => plan[i] \in HeldPlans \/ plan[i] = ActivatePlan
    BY <1>3, <2>2, ClaimTails
  <2>4. plan[i] = ActivatePlan => call = "activate"
    BY <2>2 DEF ActivatePlan
  <2> QED
    BY <1>3, <2>1, <2>3, <2>4
<1>4. CASE plan'[i] \in CleanupRests
  <2>1. \A k \in DOMAIN plan'[i] : plan'[i][k] \notin {"requeue", "tag_failed"}
    BY <1>4, RestType DEF CleanupCalls
  <2>2. ReleaseFirst(i)'
    BY <2>1 DEF ReleaseFirst
  <2>3. plan'[i] \notin ClaimPlans
    BY <1>4, RestType, PlanParts
  <2> QED
    BY <1>0, <2>2, <2>3
<1> QED
  BY <1>1, <1>2, <1>3, <1>4

(* A board call of an item that is not being claimed.                      *)
LEMMA TagEsc ==
  ASSUME TypeOK, PlanShape, NEW i \in Items, GrowAt(i), EscAt(i), AddTag(i)
  PROVE  EscAt(i)'
<1>1. PICK call \in DOMAIN TagOf :
        /\ Turn(i, call)
        /\ tags' = [tags EXCEPT ![i] = @ \cup {TagOf[call]}]
        /\ plan' = [plan EXCEPT ![i] = Tail(@)]
        /\ UNCHANGED <<lifecycle, claims>>
  BY DEF AddTag, Advance
<1>2. /\ plan[i] # <<>> /\ Head(plan[i]) = call /\ i \notin claims
      /\ plan[i] \in Seq(OtherCalls) \cup ClaimPlans
      /\ tags'[i] = tags[i] \cup {TagOf[call]} /\ plan'[i] = Tail(plan[i])
  BY <1>1, TypedMaps DEF Turn, PlanShape, GrowAt
<1>3. CASE call = "tag_claimed"
  <2>1. plan[i] = <<"tag_claimed", "mark_claimed_at", "launch">>
    BY <1>2, <1>3, PlanHead
  <2>2. plan[i] \in HeldPlans /\ plan[i] \in ClaimPlans
    BY <2>1 DEF HeldPlans, ClaimPlans
  <2>3. plan'[i] = <<"mark_claimed_at", "launch">>
    BY <1>2, <2>1, PlanTail
  <2>4. tags'[i] = tags[i] \cup {"claimed"}
    BY <1>2, <1>3 DEF TagOf
  <2>5. plan'[i] # ClaimAndLaunch /\ plan'[i] # ActivatePlan
    BY <2>3 DEF ClaimAndLaunch, ActivatePlan
  <2>6. ReleaseFirst(i)'
    <3>1. \A k \in DOMAIN plan'[i] : plan'[i][k] \in {"mark_claimed_at", "launch"}
      BY <2>3
    <3> QED
      BY <3>1 DEF ReleaseFirst
  <2> QED
    BY <1>1, <1>2, <2>2, <2>4, <2>5, <2>6 DEF EscAt
<1>4. CASE call # "tag_claimed"
  <2>1. Claimed(i)' = Claimed(i) /\ call \notin Unclaims /\ call # "activate"
    BY <1>2, <1>4 DEF TagOf, Claimed, Unclaims
  <2>2. plan[i] \notin ClaimPlans
    <3>1. call \notin ClaimCalls
      BY <1>4 DEF TagOf, ClaimCalls
    <3> QED
      BY <1>2, <3>1, PlanHead
  <2> QED
    BY <1>1, <1>2, <2>1, <2>2, EscKept
<1> QED
  BY <1>3, <1>4

LEMMA MoveEsc ==
  ASSUME TypeOK, PlanShape, NEW i \in Items, EscAt(i), MoveItem(i)
  PROVE  EscAt(i)'
<1>1. UNCHANGED <<tags, claims>> /\ Claimed(i)' = Claimed(i)
  BY DEF MoveItem, SetState, Advance, Abandon, Claimed
<1>2. CASE plan'[i] = <<>> /\ lifecycle' = lifecycle
  BY <1>1, <1>2, EscKept
<1>3. CASE /\ Turn(i, "activate") /\ plan'[i] = Tail(plan[i])
           /\ lifecycle'[i] = "active"
  <2>1. "activate" \notin Unclaims
    BY DEF Unclaims
  <2> QED
    BY <1>1, <1>3, <2>1, EscKept
<1>4. CASE /\ Turn(i, "requeue") /\ plan'[i] = Tail(plan[i])
           /\ lifecycle'[i] = "queued"
  <2>1. 1 \in DOMAIN plan[i] /\ plan[i][1] = "requeue" /\ plan[i] \in Seq(Calls)
    BY <1>4, HeadIsLeft, TypedMaps
  <2>2. 1 = Len(plan[i]) /\ ~ Claimed(i)
    BY <2>1 DEF EscAt, ReleaseFirst
  <2>3. plan'[i] = <<>>
    <3>1. Tail(plan[i]) \in Seq(Calls) /\ Len(Tail(plan[i])) = 0
      BY <2>1, <2>2
    <3> QED
      BY <1>4, <3>1, EmptySeq
  <2>4. DOMAIN plan'[i] = {}
    BY <2>3
  <2>5. ReleaseFirst(i)'
    BY <2>4 DEF ReleaseFirst
  <2>6. plan'[i] \notin ClaimPlans
    BY <2>3, PlanParts
  <2>7. HeldPlans \cup {ClaimAndLaunch, ActivatePlan} \subseteq ClaimPlans
    BY DEF HeldPlans, ActivatePlan, ClaimPlans
  <2> QED
    BY <1>1, <2>2, <2>5, <2>6, <2>7 DEF EscAt
<1> QED
  BY <1>2, <1>3, <1>4, TypedMaps DEF MoveItem, SetState, Advance, Abandon

LEMMA LaunchEsc ==
  ASSUME TypeOK, PlanShape, NEW i \in Items, EscAt(i), Launch(i)
  PROVE  EscAt(i)'
<1>1. /\ Turn(i, "launch") /\ UNCHANGED <<lifecycle, tags, claims>>
      /\ plan'[i] \in {<<>>, RollBack}
  BY TypedMaps DEF Launch
<1>2. Claimed(i)' = Claimed(i)
  BY <1>1 DEF Claimed
<1>3. CASE plan'[i] = <<>>
  BY <1>1, <1>2, <1>3, EscKept
<1>4. CASE plan'[i] = RollBack
  <2>1. plan[i] = <<"launch">>
    BY <1>1, PlanHead DEF Turn, PlanShape
  <2>2. plan[i] \in HeldPlans /\ plan[i] \in ClaimPlans
    BY <2>1 DEF HeldPlans, ClaimPlans
  <2>3. RollBack # ClaimAndLaunch /\ RollBack # ActivatePlan
    BY DEF RollBack, ClaimAndLaunch, ActivatePlan
  <2>4. ReleaseFirst(i)'
    <3>1. /\ DOMAIN plan'[i] = 1..2 /\ Len(plan'[i]) = 2
          /\ plan'[i][1] = "unclaim" /\ plan'[i][2] = "requeue"
      BY <1>4 DEF RollBack
    <3> QED
      BY <3>1 DEF ReleaseFirst, Unclaims
  <2> QED
    BY <1>1, <1>2, <1>4, <2>2, <2>3, <2>4 DEF EscAt
<1> QED
  BY <1>1, <1>3, <1>4

LEMMA CallEsc ==
  ASSUME TypeOK, PlanShape, NEW i \in Items, GrowAt(i), EscAt(i), Call(i)
  PROVE  EscAt(i)'
<1>1. CASE AddTag(i) \/ MoveItem(i) \/ Launch(i)
  BY <1>1, TagEsc, MoveEsc, LaunchEsc
<1>2. CASE DropClaimed(i)
  <2>1. PICK call : Turn(i, call) /\ DropClaimed(i)
    BY <1>2 DEF DropClaimed
  <2>2. /\ tags'[i] = tags[i] \ {"claimed"} /\ plan'[i] = Tail(plan[i])
        /\ UNCHANGED <<lifecycle, claims>> /\ call # "activate"
    BY <1>2, <2>1, TypedMaps DEF DropClaimed, Advance, Turn
  <2>3. ~ Claimed(i)' /\ "failed" \notin tags'[i] \ tags[i]
    BY <2>2 DEF Claimed
  <2> QED
    BY <2>1, <2>2, <2>3, EscKept
<1>3. CASE Drop(i)
  <2>1. PICK call \in {"drop_parks", "drop_all"} :
          /\ Turn(i, call) /\ UNCHANGED <<lifecycle, claims>>
          /\ tags'[i] \subseteq tags[i]
          /\ plan'[i] = plan[i] \/ plan'[i] = Tail(plan[i])
    BY <1>3, TypedMaps DEF Drop, DropTags, Advance
  <2>2. Claimed(i)' => Claimed(i)
    BY <2>1 DEF Claimed
  <2>3. call \notin Unclaims /\ call # "activate"
    BY DEF Unclaims
  <2> QED
    BY <2>1, <2>2, <2>3, EscKept
<1>4. CASE \/ Park(i) \/ MarkDone(i) \/ Archive(i) \/ ArchiveIfPresent(i) \/ Teardown(i)
           \/ Create(i) \/ MarkClaimedAt(i)
  <2>1. UNCHANGED <<lifecycle, tags>> /\ Claimed(i)' = Claimed(i)
    BY <1>4 DEF Park, MarkDone, Archive, ArchiveIfPresent, Teardown, Create,
                MarkClaimedAt, Claimed
  <2>2. PICK call \in Calls \ (Unclaims \cup {"activate"}) :
          Turn(i, call) /\ (Advance(i) \/ Abandon(i) \/ Released)
    <3>1. CASE Park(i)
      BY <3>1 DEF Park, ParkedAs, Calls, Unclaims
    <3>2. CASE MarkDone(i) \/ Archive(i) \/ ArchiveIfPresent(i)
      BY <3>2 DEF MarkDone, Archive, ArchiveIfPresent, Calls, Unclaims
    <3>3. CASE Teardown(i) \/ Create(i) \/ MarkClaimedAt(i)
      BY <3>3 DEF Teardown, Create, MarkClaimedAt, Calls, Unclaims
    <3> QED
      BY <1>4, <3>1, <3>2, <3>3
  <2>3. /\ i \in claims' => i \in claims
        /\ plan'[i] \in {<<>>, Tail(plan[i])}
    BY <2>2, TypedMaps DEF Advance, Abandon, Released, None
  <2> QED
    BY <2>1, <2>2, <2>3, EscKept
<1>5. CASE Cleanup(i)
  <2>1. UNCHANGED <<lifecycle, tags>> /\ Claimed(i)' = Claimed(i)
    BY <1>5, CleanupTurn DEF Claimed
  <2>2. PICK call \in CleanupCalls : Turn(i, call)
    BY <1>5, CleanupTurn
  <2>3. call \notin Unclaims /\ call # "activate"
    BY DEF Unclaims, CleanupCalls
  <2>4. claims' = claims /\ plan'[i] \in {<<>>, Tail(plan[i])} \cup CleanupRests
    BY <1>5, CleanupTurn, TypedMaps DEF Advance, Abandon, OnlyStill
  <2> QED
    BY <2>1, <2>2, <2>3, <2>4, EscKept
<1> QED
  BY <1>1, <1>2, <1>3, <1>4, <1>5 DEF Call

LEMMA BeginClaimEsc ==
  ASSUME TypeOK, NEW i \in Items, EscAt(i), BeginClaim(i)
  PROVE  EscAt(i)'
<1>1. /\ i \in claims /\ i \notin claims' /\ UNCHANGED <<lifecycle, tags>>
      /\ plan'[i] \in {<<"tag_failed">>, ClaimAndLaunch}
  BY TypedMaps DEF BeginClaim, ClaimProgram
<1>2. ~ Claimed(i) /\ ~ Claimed(i)' /\ "failed" \notin tags[i]
  BY <1>1 DEF EscAt, Claimed
<1>3. plan'[i] \notin HeldPlans
  BY <1>1 DEF HeldPlans, ClaimAndLaunch, RollBack
<1>4. ReleaseFirst(i)'
  <2>1. CASE plan'[i] = <<"tag_failed">>
    <3>1. DOMAIN plan'[i] = {1} /\ Len(plan'[i]) = 1 /\ plan'[i][1] = "tag_failed"
      BY <2>1
    <3> QED
      BY <1>2, <3>1 DEF ReleaseFirst
  <2>2. CASE plan'[i] = ClaimAndLaunch
    <3>1. \A k \in DOMAIN plan'[i] :
            plan'[i][k] \in {"create", "activate", "tag_claimed", "mark_claimed_at", "launch"}
      BY <2>2 DEF ClaimAndLaunch
    <3> QED
      BY <3>1 DEF ReleaseFirst
  <2> QED
    BY <1>1, <2>1, <2>2
<1> QED
  BY <1>1, <1>2, <1>3, <1>4 DEF EscAt

(* A gather plans a requeue, or an escalation, with the release of the     *)
(* claim next to it.                                                       *)
LEMMA GatherReleases ==
  ASSUME NEW seen \in BOOLEAN, NEW p \in OtherPlans(seen) \cup {Finalize(seen)},
         NEW k \in DOMAIN p
  PROVE  /\ p[k] = "requeue" => k = Len(p) /\ k > 1 /\ p[k - 1] \in Unclaims
         /\ p[k] = "tag_failed" => Len(p) = k + 1 /\ p[k + 1] = "drop_claimed"
<1> DEFINE Good(q, m) ==
      /\ q[m] = "requeue" => m = Len(q) /\ m > 1 /\ q[m - 1] = "drop_claimed"
      /\ q[m] = "tag_failed" => Len(q) = m + 1 /\ q[m + 1] = "drop_claimed"
<1>1. ASSUME NEW q \in UnseenPlans, NEW m \in DOMAIN q PROVE Good(q, m)
  <2>1. CASE q = <<"teardown", "tag_failed", "drop_claimed">>
    BY <2>1
  <2>2. CASE q = <<"teardown", "drop_claimed", "requeue">>
    BY <2>2
  <2>3. CASE q = <<"teardown", "teardown", "drop_claimed", "requeue">>
    BY <2>3
  <2>4. CASE q = <<"teardown", "teardown", "tag_failed", "drop_claimed">>
    BY <2>4
  <2>5. CASE q \notin
         {<<"teardown", "tag_failed", "drop_claimed">>,
          <<"teardown", "drop_claimed", "requeue">>,
          <<"teardown", "teardown", "drop_claimed", "requeue">>,
          <<"teardown", "teardown", "tag_failed", "drop_claimed">>}
    <3>1. q[m] \notin {"requeue", "tag_failed"}
      BY <2>5 DEF UnseenPlans
    <3> QED
      BY <3>1
  <2> QED
    BY <2>1, <2>2, <2>3, <2>4, <2>5
<1>2. ASSUME NEW q \in SeenPlans, NEW m \in DOMAIN q PROVE Good(q, m)
  <2>1. CASE q = <<"teardown", "tag_failed", "drop_claimed">>
    BY <2>1
  <2>2. CASE q = <<"archive", "park_failed", "teardown", "drop_claimed", "requeue">>
    BY <2>2
  <2>3. CASE q = <<"archive", "teardown", "tag_failed", "drop_claimed">>
    BY <2>3
  <2>4. CASE q = <<"teardown", "archive", "park_failed", "teardown", "drop_claimed", "requeue">>
    BY <2>4
  <2>5. CASE q = <<"teardown", "archive", "teardown", "tag_failed", "drop_claimed">>
    BY <2>5
  <2>6. CASE q \notin
         {<<"teardown", "tag_failed", "drop_claimed">>,
          <<"archive", "park_failed", "teardown", "drop_claimed", "requeue">>,
          <<"archive", "teardown", "tag_failed", "drop_claimed">>,
          <<"teardown", "archive", "park_failed", "teardown", "drop_claimed", "requeue">>,
          <<"teardown", "archive", "teardown", "tag_failed", "drop_claimed">>}
    <3>1. q[m] \notin {"requeue", "tag_failed"}
      BY <2>6 DEF SeenPlans
    <3> QED
      BY <3>1
  <2> QED
    BY <2>1, <2>2, <2>3, <2>4, <2>5, <2>6
<1>3. ASSUME NEW q \in FinalizePlans, NEW m \in DOMAIN q PROVE Good(q, m)
  <2>1. q[m] \notin {"requeue", "tag_failed"}
    BY DEF FinalizePlans
  <2> QED
    BY <2>1
<1>4. p \in UnseenPlans \cup SeenPlans \cup FinalizePlans
  <2>1. seen = TRUE \/ seen = FALSE
    OBVIOUS
  <2>2. Finalize(TRUE) \in FinalizePlans /\ Finalize(FALSE) \in FinalizePlans
    BY PlansWritten DEF FinalizePlans
  <2> QED
    BY <2>1, <2>2, OtherPlansWritten
<1>5. Good(p, k)
  BY <1>1, <1>2, <1>3, <1>4
<1> QED
  BY <1>5 DEF Unclaims

LEMMA GatherEsc ==
  ASSUME TypeOK, NEW i \in Items, EscAt(i), Gather
  PROVE  EscAt(i)'
<1>1. UNCHANGED <<lifecycle, tags>> /\ Claimed(i)' = Claimed(i)
  BY DEF Gather, Claimed
<1>2. plan'[i] \notin ClaimPlans /\ claims' \subseteq Claimable
  BY GatherPlans
<1>3. HeldPlans \cup {ClaimAndLaunch, ActivatePlan} \subseteq ClaimPlans
  BY DEF HeldPlans, ActivatePlan, ClaimPlans
<1>4. i \in claims' => lifecycle[i] = "queued" /\ "failed" \notin tags[i]
  BY <1>2, Programs
<1>5. ReleaseFirst(i)'
  <2>1. Seen(i) \in BOOLEAN /\ plan'[i] \in OtherPlans(Seen(i)) \cup {Finalize(Seen(i))}
    BY GatherPlans DEF Seen
  <2>2. \A k \in DOMAIN plan'[i] :
          /\ plan'[i][k] = "requeue" =>
               k = Len(plan'[i]) /\ k > 1 /\ plan'[i][k - 1] \in Unclaims
          /\ plan'[i][k] = "tag_failed" =>
               Len(plan'[i]) = k + 1 /\ plan'[i][k + 1] = "drop_claimed"
    BY <2>1, GatherReleases
  <2>3. plan'[i] \in Seq(Calls)
    BY GatherType, TypedMaps DEF TypeOK
  <2>4. \A k \in DOMAIN plan'[i] : k \in Nat /\ Len(plan'[i]) \in Nat
    BY <2>3
  <2> QED
    BY <2>2, <2>4 DEF ReleaseFirst
<1> QED
  BY <1>1, <1>2, <1>3, <1>4, <1>5 DEF EscAt

LEMMA AloneEsc ==
  ASSUME TypeOK, PlanShape, NEW j \in Items, EscAt(j), Alone(j)
  PROVE  EscAt(j)'
<1>1. /\ lifecycle'[j] = lifecycle[j] /\ Claimed(j)' = Claimed(j) /\ tags'[j] = tags[j]
      /\ j \in claims' => j \in claims
      /\ plan'[j] \in {plan[j], <<>>}
  BY DEF Alone, TickKept, TickOver, Claimed
<1> QED
  BY <1>1, EscKept

LEMMA EscInit == Init => EscInv
<1> SUFFICES ASSUME Init PROVE EscInv
  OBVIOUS
<1>1. ASSUME NEW i \in Items PROVE EscAt(i)
  <2>1. plan[i] = <<>> /\ tags[i] = {} /\ claims = {}
    BY DEF Init, None
  <2>2. DOMAIN plan[i] = {} /\ plan[i] \notin ClaimPlans /\ ~ Claimed(i)
    <3>1. DOMAIN plan[i] = {}
      BY <2>1
    <3> QED
      BY <2>1, <3>1, PlanParts DEF Claimed
  <2>3. ReleaseFirst(i)
    BY <2>2 DEF ReleaseFirst
  <2>4. HeldPlans \cup {ClaimAndLaunch, ActivatePlan} \subseteq ClaimPlans
    BY DEF HeldPlans, ActivatePlan, ClaimPlans
  <2> QED
    BY <2>1, <2>2, <2>3, <2>4 DEF EscAt
<1> QED
  BY <1>1, GrowInit DEF EscInv

LEMMA EscStep == OnlyTheFleetRequeues /\ EscInv /\ [Next]_vars => EscInv'
<1> SUFFICES ASSUME OnlyTheFleetRequeues, EscInv, [Next]_vars PROVE EscInv'
  OBVIOUS
<1>0. GrowInv' /\ TypeOK /\ PlanShape
  BY GrowStep DEF EscInv, GrowInv, AttemptsHold
<1> SUFFICES ASSUME NEW j \in Items PROVE EscAt(j)'
  BY <1>0 DEF EscInv
<1>1. EscAt(j) /\ GrowAt(j)
  BY DEF EscInv, GrowInv
<1>2. CASE StartTick \/ Runner(j)
  <2>1. UNCHANGED <<lifecycle, tags, plan, claims>>
    BY <1>2 DEF StartTick, Runner, Boots, AgentParks, AgentExits, Backstop, Dies,
                EgressDenied, Strays, Ages, Heartbeat, RunnerStep
  <2> QED
    BY <1>0, <1>1, <2>1, EscKept DEF Claimed
<1>3. CASE Gather
  BY <1>0, <1>1, <1>3, GatherEsc
<1>4. CASE EndTick \/ Crash \/ UNCHANGED vars
  BY <1>0, <1>1, <1>4, WholeTick, AloneEsc
<1>5. CASE BeginClaim(j)
  BY <1>0, <1>1, <1>5, BeginClaimEsc
<1>6. CASE Call(j)
  BY <1>0, <1>1, <1>6, CallEsc
<1>7. CASE Human(j)
  <2>1. /\ lifecycle'[j] # "queued" \/ lifecycle'[j] = lifecycle[j]
        /\ tags'[j] \subseteq tags[j] /\ UNCHANGED <<plan, claims>>
    BY <1>0, <1>7, TypedMaps DEF Human, HumanMove, HumanUntag, PRMerges, OnlyTheFleetRequeues
  <2> QED
    BY <1>0, <1>1, <2>1, EscKept DEF Claimed
<1>8. ASSUME NEW i \in Items, BeginClaim(i) \/ Call(i) \/ Runner(i) \/ Human(i), i # j
      PROVE  EscAt(j)'
  BY <1>0, <1>1, <1>8, Bystander, AloneEsc
<1> QED
  BY <1>2, <1>3, <1>4, <1>5, <1>6, <1>7, <1>8 DEF Next, TickStep

-----------------------------------------------------------------------------
(* Escalations.                                                            *)

(* An escalated item that is still claimed is the one the tick is at, and  *)
(* its release comes next.                                                 *)
EscRel ==
  crashes = 0 =>
    \A i \in Items :
      {"failed", "claimed"} \subseteq tags[i] =>
        plan[i] = <<"drop_claimed">> /\ \A j \in Items : j < i => plan[j] = <<>>

EscRelease == EscInv /\ EscRel

(* Tags are put on an item by its own tag calls only.                      *)
LEMMA TagsGrow ==
  ASSUME TypeOK, [Next]_vars, NEW i \in Items, NEW t \in tags'[i] \ tags[i]
  PROVE  \E call \in DOMAIN TagOf :
           /\ Turn(i, call) /\ TagOf[call] = t
           /\ tags'[i] = tags[i] \cup {TagOf[call]} /\ plan' = [plan EXCEPT ![i] = Tail(@)]
<1>1. CASE StartTick \/ Gather \/ EndTick \/ Crash \/ UNCHANGED vars
  BY <1>1 DEF StartTick, Gather, EndTick, Crash
<1>2. ASSUME NEW j \in Items, BeginClaim(j) \/ Call(j) \/ Runner(j) \/ Human(j), i # j
      PROVE  FALSE
  BY <1>2, Bystander DEF Alone
<1>3. CASE BeginClaim(i) \/ Runner(i)
  BY <1>3 DEF BeginClaim, Runner, Boots, AgentParks, AgentExits, Backstop, Dies,
              EgressDenied, Strays, Ages, Heartbeat, RunnerStep
<1>4. CASE Human(i)
  BY <1>4, TypedMaps DEF Human, HumanMove, HumanUntag, PRMerges
<1>5. CASE AddTag(i)
  <2>1. PICK call \in DOMAIN TagOf :
          /\ Turn(i, call)
          /\ tags' = [tags EXCEPT ![i] = @ \cup {TagOf[call]}]
          /\ plan' = [plan EXCEPT ![i] = Tail(@)]
    BY <1>5 DEF AddTag, Advance
  <2>2. tags'[i] = tags[i] \cup {TagOf[call]}
    BY <2>1, TypedMaps
  <2>3. TagOf[call] = t
    BY <2>2
  <2> QED
    BY <2>1, <2>2, <2>3
<1>6. CASE DropClaimed(i) \/ Drop(i)
  BY <1>6, TypedMaps DEF DropClaimed, Drop, DropTags
<1>7. CASE Call(i) /\ ~ AddTag(i) /\ ~ DropClaimed(i) /\ ~ Drop(i)
  <2>1. tags' = tags
    BY <1>7, CleanupTurn
    DEF Call, MoveItem, SetState, Park, MarkDone, Archive, ArchiveIfPresent, Teardown,
        Create, MarkClaimedAt, Launch
  <2> QED
    BY <2>1
<1> QED
  BY <1>1, <1>2, <1>3, <1>4, <1>5, <1>6, <1>7 DEF Next, TickStep

LEMMA CrashesCount ==
  ASSUME [Next]_vars
  PROVE  crashes' = crashes \/ (Crash /\ crashes' = crashes + 1)
BY CleanupTurn, ZenonT(60)
DEF Next, TickStep, StartTick, Gather, EndTick, BeginClaim, Crash, Call, AddTag, DropClaimed,
    Drop, DropTags, MoveItem, SetState, Park, MarkDone, Archive, ArchiveIfPresent,
    Teardown, Create, MarkClaimedAt, Launch, Runner, Boots, AgentParks,
    AgentExits, Backstop, Dies, EgressDenied, Strays, Ages, Heartbeat, RunnerStep,
    Human, HumanMove, HumanUntag, PRMerges

(* The turn of an item is over only with the calls of the items before it. *)
LEMMA EscalationStands ==
  ASSUME EscRelease, [Next]_vars, crashes' = 0, NEW i \in Items,
         {"failed", "claimed"} \subseteq tags[i], {"failed", "claimed"} \subseteq tags'[i]
  PROVE  plan'[i] = <<"drop_claimed">> /\ \A j \in Items : j < i => plan'[j] = <<>>
<1>0. TypeOK /\ NoPlanBetweenTicks /\ crashes \in Nat /\ Items \subseteq Nat
  BY ItemsAssumption DEF EscRelease, EscInv, GrowInv, AttemptsHold, TypeOK
<1>1. crashes = 0 /\ ~ Crash
  BY <1>0, CrashesCount DEF Crash
<1>2. plan[i] = <<"drop_claimed">> /\ \A j \in Items : j < i => plan[j] = <<>>
  BY <1>1 DEF EscRelease, EscRel
<1>3. plan[i] # <<>> /\ Head(plan[i]) = "drop_claimed" /\ plan # None
  <2>1. plan[i] # <<>> /\ Head(plan[i]) = "drop_claimed"
    BY <1>2
  <2> QED
    BY <2>1 DEF None
<1>4. lock = "acting"
  BY <1>0, <1>3 DEF NoPlanBetweenTicks
<1>5. ~ StartTick /\ ~ Gather /\ ~ EndTick /\ \A j \in Items : ~ BeginClaim(j)
  BY <1>3, <1>4 DEF StartTick, Gather, EndTick, BeginClaim
<1>6. ASSUME NEW j \in Items, Call(j) PROVE FALSE
  <2>1. PICK call : Turn(j, call) /\ (j = i => DropClaimed(i))
    <3>1. CASE Cleanup(j)
      <4>1. PICK call \in CleanupCalls : Turn(j, call)
        BY <3>1, CleanupTurn
      <4>2. call # "drop_claimed"
        BY DEF CleanupCalls
      <4> QED
        BY <1>3, <4>1, <4>2 DEF Turn
    <3>2. CASE ~ Cleanup(j)
      BY <1>3, <1>6, <3>2
      DEF Call, AddTag, TagOf, DropClaimed, Drop, DropTags, MoveItem, SetState,
          Park, ParkedAs, MarkDone, Archive, ArchiveIfPresent, Teardown, Create,
          MarkClaimedAt, Launch, Turn
    <3> QED
      BY <3>1, <3>2
  <2>2. j <= i /\ plan[j] # <<>>
    BY <1>3, <2>1 DEF Turn
  <2>3. j = i
    BY <1>0, <1>2, <2>2
  <2>4. "claimed" \notin tags'[i]
    BY <1>0, <2>1, <2>3, TypedMaps DEF DropClaimed
  <2> QED
    BY <2>4
<1>7. plan' = plan
  <2>1. CASE \E j \in Items : Runner(j) \/ Human(j)
    BY <2>1 DEF Runner, Boots, AgentParks, AgentExits, Backstop, Dies, EgressDenied, Strays,
           Ages, Heartbeat, RunnerStep, Human, HumanMove, HumanUntag, PRMerges
  <2> QED
    BY <1>1, <1>5, <1>6, <2>1 DEF Next, TickStep
<1> QED
  BY <1>2, <1>7

LEMMA EscalationBegins ==
  ASSUME EscRelease, [Next]_vars, NEW i \in Items,
         ~ {"failed", "claimed"} \subseteq tags[i], {"failed", "claimed"} \subseteq tags'[i]
  PROVE  plan'[i] = <<"drop_claimed">> /\ \A j \in Items : j < i => plan'[j] = <<>>
<1>0. TypeOK /\ PlanShape /\ Items \subseteq Nat /\ EscAt(i)
  BY ItemsAssumption DEF EscRelease, EscInv, GrowInv, AttemptsHold
<1>1. PICK t \in {"failed", "claimed"} : t \in tags'[i] \ tags[i]
  OBVIOUS
<1>2. PICK call \in DOMAIN TagOf :
        /\ Turn(i, call) /\ TagOf[call] = t
        /\ tags'[i] = tags[i] \cup {TagOf[call]} /\ plan' = [plan EXCEPT ![i] = Tail(@)]
  BY <1>0, <1>1, TagsGrow
<1>3. plan[i] \in Seq(Calls) /\ plan[i] # <<>> /\ plan[i][1] = call /\ 1 \in DOMAIN plan[i]
  BY <1>0, <1>2, HeadIsLeft, TypedMaps DEF Turn
<1>4. call = "tag_failed"
  <2>1. ASSUME call = "tag_claimed" PROVE FALSE
    <3>1. plan[i] \in ClaimPlans
      <4>1. Head(plan[i]) \in ClaimCalls
        BY <1>2, <2>1 DEF Turn, ClaimCalls
      <4> QED
        BY <1>0, <1>3, <4>1, PlanHead DEF PlanShape
    <3>2. "failed" \notin tags[i]
      BY <1>0, <3>1 DEF EscAt
    <3> QED
      BY <1>2, <2>1, <3>2 DEF TagOf
  <2> QED
    BY <1>1, <1>2, <2>1 DEF TagOf
<1>5. Claimed(i)
  BY <1>2, <1>4 DEF TagOf, Claimed
<1>6. Len(plan[i]) = 2 /\ plan[i][2] = "drop_claimed"
  <2>1. ReleaseFirst(i) /\ plan[i][1] = "tag_failed"
    BY <1>0, <1>3, <1>4 DEF EscAt
  <2>2. 1 < Len(plan[i]) => Len(plan[i]) = 2 /\ plan[i][2] = "drop_claimed"
    <3>1. 1 < Len(plan[i]) => Len(plan[i]) = 1 + 1 /\ plan[i][1 + 1] = "drop_claimed"
      BY <1>3, <2>1 DEF ReleaseFirst
    <3> QED
      BY <3>1
  <2>3. Len(plan[i]) # 1
    BY <1>3, <1>5, <2>1 DEF ReleaseFirst
  <2>4. Len(plan[i]) \in Nat /\ Len(plan[i]) >= 1
    BY <1>3
  <2>5. 1 < Len(plan[i])
    <3>1. ASSUME NEW n \in Nat, n >= 1, n # 1 PROVE 1 < n
      BY <3>1
    <3> QED
      BY <2>3, <2>4, <3>1
  <2> QED
    BY <2>2, <2>5
<1>7. plan'[i] = <<"drop_claimed">>
  <2>1. plan'[i] = Tail(plan[i])
    BY <1>0, <1>2, TypedMaps
  <2>2. Tail(plan[i]) \in Seq(Calls) /\ Len(Tail(plan[i])) = 1
        /\ Tail(plan[i])[1] = "drop_claimed"
    BY <1>3, <1>6
  <2>3. ASSUME NEW p \in Seq(Calls), Len(p) = 1, p[1] = "drop_claimed"
        PROVE  p = <<"drop_claimed">>
    BY <2>3
  <2> QED
    BY <2>1, <2>2, <2>3
<1>8. ASSUME NEW j \in Items, j < i PROVE plan'[j] = <<>>
  <2>1. ~ i <= j /\ i # j
    <3>1. i \in Nat /\ j \in Nat
      BY <1>0
    <3> QED
      BY <1>8, <3>1
  <2>2. plan[j] = <<>>
    BY <1>2, <2>1 DEF Turn
  <2> QED
    BY <1>0, <1>2, <2>1, <2>2, TypedMaps
<1> QED
  BY <1>7, <1>8

(* _escalate: while no tick has died, no escalated item keeps its claim    *)
(* once the tick is over, however the items' calls and the people's moves  *)
(* interleave, when only the fleet requeues.                               *)
THEOREM EscalationsRelease ==
  OnlyTheFleetRequeues => (Spec => [](crashes = 0 => EscalatedIsReleased))
<1> SUFFICES ASSUME OnlyTheFleetRequeues
             PROVE  Spec => [](crashes = 0 => EscalatedIsReleased)
  OBVIOUS
<1>1. Init => EscRelease
  BY EscInit DEF Init, EscRelease, EscRel
<1>2. EscRelease /\ [Next]_vars => EscRelease'
  <2> SUFFICES ASSUME EscRelease, [Next]_vars PROVE EscRelease'
    OBVIOUS
  <2>1. EscInv'
    BY EscStep DEF EscRelease
  <2> QED
    BY <2>1, EscalationStands, EscalationBegins DEF EscRelease, EscRel
<1>3. EscRelease => (crashes = 0 => EscalatedIsReleased)
  <2> SUFFICES ASSUME EscRelease, crashes = 0, lock = "free", NEW i \in Items,
                      {"failed", "claimed"} \subseteq tags[i]
               PROVE  FALSE
    BY DEF EscalatedIsReleased
  <2>1. plan[i] = <<"drop_claimed">>
    BY DEF EscRelease, EscRel
  <2>2. plan[i] = <<>>
    BY DEF EscRelease, EscInv, GrowInv, AttemptsHold, NoPlanBetweenTicks, None
  <2> QED
    BY <2>1, <2>2, SMTT(30)
<1> QED
  BY <1>1, <1>2, <1>3, PTL DEF Spec

-----------------------------------------------------------------------------
(* Sandboxes: who owns one that runs, and what stops it before its         *)
(* worktree or its claim goes.                                             *)

(* A sandbox that is up writes its status before the next tick reads it,   *)
(* and compose takes down what its file names.                             *)
CalmHost == BootsCleanly /\ ~ FlakyDocker

Stops == {"teardown", "compose_down"}

NeedsStop == {"archive", "archive_if_present", "drop_claimed", "drop_all"}

(* No call takes away the worktree or the claim before one that stops; a   *)
(* finalize removes the worktree, and stops right after.                   *)
StopsFirst(i) ==
  \A k \in DOMAIN plan[i] :
    /\ plan[i][k] \in NeedsStop => \E m \in 1..(k - 1) : plan[i][m] \in Stops
    /\ plan[i][k] = "remove_worktree" =>
         k + 1 \in DOMAIN plan[i] /\ plan[i][k + 1] = "compose_down"

BoundPlans == {<<"mark_claimed_at", "launch">>, <<"launch">>}

(* A sandbox that has its worktree, and its claim.                         *)
Kept(i) ==
  /\ i \notin claims /\ plan[i] \notin ClaimPlans
  /\ <<i, box[i].attempt>> \in trees /\ Claimed(i)
  /\ lock = "reading" => view[i] # NoStatus /\ view[i].attempt = box[i].attempt
  /\ plan[i] # <<>> => target[i] = box[i].attempt /\ StopsFirst(i)

(* The tick is about to take the sandbox down.                             *)
Stopping(i) ==
  /\ plan[i] # <<>> /\ plan[i][1] = "compose_down"
  /\ \A j \in Items : plan[j] # <<>> => i <= j

(* A finalize took the worktree of a merged attempt, and stops its sandbox *)
(* next, or died before it did.                                            *)
Retired(i) == merged[i] = box[i].attempt /\ (crashes > 0 \/ Stopping(i))

Bound(i) ==
  /\ box[i].state \in {"work", "leaving"} => box[i].attempt = status[i].attempt
  /\ lock = "reading" => box[i].state # "boot"
  /\ plan[i] \in LaunchPlans => Here(i) \in trees
  /\ plan[i] \in BoundPlans => Claimed(i)

SafeAt(i) == Bound(i) /\ (IsRunning(i) => Kept(i) \/ Retired(i))

SafeInv == EscInv /\ \A i \in Items : SafeAt(i)

(* A step that loses no sandbox it found kept; one found retired, and not  *)
(* replaced, is a matter of its own.                                       *)
Safely(i) ==
  /\ Bound(i)'
  /\ IsRunning(i)' =>
       \/ Kept(i)' \/ Retired(i)'
       \/ IsRunning(i) /\ Retired(i) /\ box'[i].attempt = box[i].attempt

LEMMA AloneSafe ==
  ASSUME TypeOK, NEW j \in Items, SafeAt(j), Alone(j)
  PROVE  Safely(j)
<1> USE DEF SafeAt, Safely, Bound, Kept, IsRunning
<1>1. /\ box'[j] = box[j] /\ status'[j] = status[j] /\ Claimed(j)' = Claimed(j)
      /\ \A a : <<j, a>> \in trees' <=> <<j, a>> \in trees
  BY DEF Alone, DiskKept, Claimed
<1>2. CASE TickKept(j)
  <2>1. StopsFirst(j)' <=> StopsFirst(j)
    BY <1>2 DEF TickKept, StopsFirst
  <2> QED
    BY <1>1, <1>2, <2>1 DEF TickKept, Here
<1>3. CASE TickOver(j)
  <2>1. plan'[j] = <<>> /\ plan'[j] \notin ClaimPlans /\ lock' = "free" /\ j \notin claims'
    BY <1>3, PlanParts DEF TickOver
  <2>2. LaunchPlans \cup BoundPlans \subseteq ClaimPlans
    BY DEF LaunchPlans, BoundPlans, ClaimPlans
  <2> QED
    BY <1>1, <2>1, <2>2
<1> QED
  BY <1>2, <1>3 DEF Alone

(* Only the finalize's own next call takes a retired sandbox anywhere: it  *)
(* stops it.  A tick that dies instead has died.                           *)
LEMMA RetiredStays ==
  ASSUME CalmHost, TypeOK, PlanShape, NoPlanBetweenTicks, [Next]_vars, NEW i \in Items,
         GrowAt(i), Bound(i), IsRunning(i), Retired(i), IsRunning(i)',
         box'[i].attempt = box[i].attempt
  PROVE  Retired(i)'
<1>0. /\ crashes \in Nat /\ Items \subseteq Nat /\ box[i].attempt \in Nat
      /\ status[i].attempt \in Nat
  BY ItemsAssumption, TypedMaps DEF TypeOK, Boxes, Statuses
<1>1. merged[i] > 0
  BY <1>0 DEF Retired, GrowAt, Bound, IsRunning, Running
<1>2. merged'[i] = merged[i]
  <2>1. UNCHANGED merged \/ \E j \in Items : PRMerges(j)
    BY CleanupTurn, ZenonT(60)
    DEF Next, TickStep, StartTick, Gather, EndTick, BeginClaim, Crash, Call, AddTag,
        DropClaimed, Drop, DropTags, MoveItem, SetState, Park, MarkDone, Archive,
        ArchiveIfPresent, Teardown, Create, MarkClaimedAt, Launch, Runner, Boots, AgentParks,
        AgentExits, Backstop, Dies, EgressDenied, Strays, Ages, Heartbeat, RunnerStep,
        Human, HumanMove, HumanUntag
  <2>2. ASSUME NEW j \in Items, PRMerges(j) PROVE merged'[i] = merged[i]
    BY <1>1, <2>2, TypedMaps DEF PRMerges
  <2> QED
    BY <2>1, <2>2
<1>3. CASE crashes' > 0
  BY <1>2, <1>3 DEF Retired
<1>4. CASE ~ crashes' > 0
  <2>1. Stopping(i) /\ ~ Crash
    <3>1. crashes' = crashes
      BY <1>0, <1>4, CrashesCount
    <3>2. ~ Crash
      BY <1>0, <3>1 DEF Crash
    <3>3. ~ (crashes > 0)
      BY <1>4, <3>1
    <3> QED
      BY <3>2, <3>3 DEF Retired
  <2>2. plan[i] # <<>> /\ Head(plan[i]) = "compose_down" /\ plan[i] \in Seq(Calls)
    BY <2>1, TypedMaps DEF Stopping
  <2>3. plan # None /\ lock = "acting"
    BY <2>2 DEF None, NoPlanBetweenTicks
  <2>4. ~ StartTick /\ ~ Gather /\ ~ EndTick /\ \A j \in Items : ~ BeginClaim(j)
    BY <2>3 DEF StartTick, Gather, EndTick, BeginClaim
  <2>5. ASSUME NEW j \in Items, Call(j) PROVE FALSE
    <3>1. ASSUME NEW call, Turn(j, call) PROVE j = i /\ call = "compose_down"
      <4>1. i <= j /\ j <= i
        BY <2>1, <2>2, <3>1 DEF Turn, Stopping
      <4>2. j = i
        BY <1>0, <4>1
      <4> QED
        BY <2>2, <3>1, <4>2 DEF Turn
    <3>2. ComposeDown(j)
      BY <2>5, <3>1
      DEF Call, AddTag, TagOf, DropClaimed, Drop, DropTags, MoveItem, SetState, Park,
          ParkedAs, MarkDone, Archive, ArchiveIfPresent, Teardown, Cleanup, DeleteBranch,
          RemoveWorktree, Create, MarkClaimedAt, Launch
    <3>3. box'[i] = NoBox
      BY <3>1, <3>2, TypedMaps DEF ComposeDown, CalmHost
    <3> QED
      BY <3>3, NoBoxIsIdle DEF IsRunning
  <2>6. plan' = plan
    <3>1. CASE \E j \in Items : Runner(j) \/ Human(j)
      BY <3>1 DEF Runner, Boots, AgentParks, AgentExits, Backstop, Dies, EgressDenied, Strays,
             Ages, Heartbeat, RunnerStep, Human, HumanMove, HumanUntag, PRMerges
    <3> QED
      BY <2>1, <2>4, <2>5, <3>1 DEF Next, TickStep
  <2> QED
    BY <1>2, <2>1, <2>6 DEF Retired, Stopping
<1> QED
  BY <1>3, <1>4

LEMMA StartTickSafe ==
  ASSUME CalmHost, TypeOK, NoPlanBetweenTicks, NEW i \in Items, GrowAt(i), SafeAt(i), StartTick
  PROVE  Safely(i)
<1>1. /\ view'[i] = status[i] /\ plan[i] = <<>> /\ claims = {} /\ box[i].state # "boot"
      /\ UNCHANGED <<status, tags, box, trees, plan, target, claims>>
  BY DEF StartTick, NoPlanBetweenTicks, None, CalmHost
<1>2. IsRunning(i) => status[i].attempt = box[i].attempt /\ status[i] # NoStatus
  BY <1>1, AttemptKept DEF IsRunning, Running, SafeAt, Bound, GrowAt
<1>3. plan[i] \notin LaunchPlans \cup BoundPlans
  BY <1>1, PlanParts DEF LaunchPlans, BoundPlans, ClaimPlans
<1> QED
  BY <1>1, <1>2, <1>3 DEF SafeAt, Safely, Bound, Kept, IsRunning, Claimed

(* What is planned for an item whose sandbox runs.                         *)
LEMMA StoppedFirst ==
  ASSUME NEW seen \in BOOLEAN,
         NEW p \in {<<>>, Finalize(seen), <<"teardown">>, Relinquish(seen), Handoff(seen),
                    ParkNeedsDecision(seen), EscalateEgress,
                    StopThen(Retry(seen)), StopThen(Escalate(seen))},
         NEW k \in DOMAIN p
  PROVE  /\ p[k] \in NeedsStop => \E m \in 1..(k - 1) : p[m] \in Stops
         /\ p[k] = "remove_worktree" => k + 1 \in DOMAIN p /\ p[k + 1] = "compose_down"
<1> DEFINE
      Opening ==
        {<<"teardown">>, <<"teardown", "tag_failed", "drop_claimed">>,
         <<"teardown", "archive_if_present", "drop_parks", "drop_claimed">>,
         <<"teardown", "archive_if_present", "park_withdrawn", "drop_parks", "drop_claimed">>,
         <<"teardown", "teardown", "drop_claimed", "requeue">>,
         <<"teardown", "teardown", "tag_failed", "drop_claimed">>,
         <<"teardown", "archive", "park_failed", "teardown", "drop_claimed", "requeue">>,
         <<"teardown", "archive", "teardown", "tag_failed", "drop_claimed">>}
      Keeping ==
        {<<>>, <<"tag_awaiting", "teardown">>, <<"tag_decision", "teardown">>,
         <<"tag_awaiting", "park_awaiting", "teardown">>,
         <<"tag_decision", "park_decision", "teardown">>}
      Good(q, n) ==
        /\ q[n] \in NeedsStop => \E m \in 1..(n - 1) : q[m] \in Stops
        /\ q[n] = "remove_worktree" => n + 1 \in DOMAIN q /\ q[n + 1] = "compose_down"
<1>1. p \in Opening \cup Keeping \cup FinalizePlans
  <2>1. CASE seen = TRUE
    BY <2>1, PlansWritten, StopPlansWritten DEF EscalateEgress, FinalizePlans
  <2>2. CASE seen = FALSE
    BY <2>2, PlansWritten, StopPlansWritten DEF EscalateEgress, FinalizePlans
  <2> QED
    BY <2>1, <2>2
<1>2. ASSUME NEW q \in Keeping, NEW n \in DOMAIN q PROVE Good(q, n)
  <2>1. q[n] \notin NeedsStop /\ q[n] # "remove_worktree"
    BY DEF NeedsStop
  <2> QED
    BY <2>1
<1>3. ASSUME NEW q \in Opening, NEW n \in DOMAIN q PROVE Good(q, n)
  <2>1. q[1] \in Stops /\ q[1] \notin NeedsStop /\ n \in Nat /\ n >= 1
    BY DEF Stops, NeedsStop
  <2>2. q[n] # "remove_worktree"
    OBVIOUS
  <2>3. q[n] \in NeedsStop => 1 \in 1..(n - 1)
    BY <2>1
  <2> QED
    BY <2>1, <2>2, <2>3
<1>4. ASSUME NEW q \in FinalizePlans, NEW n \in DOMAIN q PROVE Good(q, n)
  <2>1. /\ {1, 2, 3, 4} \subseteq DOMAIN q /\ n \in {1, 2, 3, 4, 5}
        /\ q[1] = "delete_branch" /\ q[2] = "remove_worktree" /\ q[3] = "compose_down"
        /\ q[4] = "drop_all" /\ (n = 5 => q[n] = "mark_done")
    BY DEF FinalizePlans
  <2>2. CASE n = 2
    BY <2>1, <2>2 DEF NeedsStop
  <2>3. CASE n = 4
    <3>1. 3 \in 1..(4 - 1) /\ q[3] \in Stops /\ q[4] # "remove_worktree"
      BY <2>1 DEF Stops
    <3> QED
      BY <2>3, <3>1
  <2>4. CASE n \notin {2, 4}
    <3>1. q[n] \notin NeedsStop /\ q[n] # "remove_worktree"
      BY <2>1, <2>4 DEF NeedsStop
    <3> QED
      BY <3>1
  <2> QED
    BY <2>2, <2>3, <2>4
<1> HIDE DEF Opening, Keeping
<1>5. Good(p, k)
  BY <1>1, <1>2, <1>3, <1>4
<1> QED
  BY <1>5

LEMMA GatherSafe ==
  ASSUME TypeOK, NEW i \in Items, EscAt(i), SafeAt(i), Gather
  PROVE  Safely(i)
<1>1. /\ lock = "reading" /\ lock' = "acting" /\ UNCHANGED <<tags, status, box, trees>>
  BY DEF Gather
<1>2. /\ plan'[i] \notin ClaimPlans /\ claims' \subseteq Claimable
      /\ target'[i] = IF i \in Claimable THEN NextAttempt(i) ELSE CurrentAttempt(i)
  BY GatherPlans
<1>3. LaunchPlans \cup BoundPlans \subseteq ClaimPlans
  BY DEF LaunchPlans, BoundPlans, ClaimPlans
<1>4. ASSUME IsRunning(i), Kept(i)
      PROVE  i \notin claims' /\ target'[i] = box[i].attempt /\ StopsFirst(i)'
  <2>1. /\ <<i, box[i].attempt>> \in trees /\ Claimed(i)
        /\ view[i] # NoStatus /\ view[i].attempt = box[i].attempt
    BY <1>1, <1>4 DEF Kept
  <2>2. CurrentAttempt(i) = box[i].attempt /\ Container(i) = "running"
    BY <1>4, <2>1 DEF CurrentAttempt, Seen, Container
  <2>3. i \notin Claimable
    BY <2>1, Programs DEF EscAt
  <2>4. Seen(i) \in BOOLEAN
    BY DEF Seen
  <2>5. plan'[i] = IF i \in Relevant THEN Program(DecisionFor(i), Seen(i)) ELSE <<>>
    BY DEF Gather
  <2>6. plan'[i] \in {<<>>, Finalize(Seen(i)), <<"teardown">>, Relinquish(Seen(i)),
                      Handoff(Seen(i)), ParkNeedsDecision(Seen(i)), EscalateEgress,
                      StopThen(Retry(Seen(i))), StopThen(Escalate(Seen(i)))}
    BY <2>2, <2>5, Programs
  <2>7. StopsFirst(i)'
    BY <2>4, <2>6, StoppedFirst DEF StopsFirst
  <2> QED
    BY <1>2, <2>2, <2>3, <2>7
<1>5. Bound(i)'
  BY <1>1, <1>2, <1>3 DEF SafeAt, Bound
<1>6. IsRunning(i) /\ Kept(i) => Kept(i)'
  BY <1>1, <1>2, <1>4 DEF Kept, Claimed
<1> QED
  BY <1>1, <1>5, <1>6 DEF SafeAt, Safely, IsRunning

LEMMA BeginClaimSafe ==
  ASSUME TypeOK, NEW i \in Items, SafeAt(i), BeginClaim(i)
  PROVE  Safely(i)
<1>1. /\ i \in claims /\ lock' = "acting" /\ UNCHANGED <<tags, status, box, trees>>
      /\ plan'[i] \in {<<"tag_failed">>, ClaimAndLaunch}
  BY TypedMaps DEF BeginClaim, ClaimProgram
<1>2. IsRunning(i) => Retired(i)
  BY <1>1 DEF SafeAt, Kept
<1>3. plan'[i] \notin LaunchPlans
  BY <1>1, PlanParts DEF LaunchPlans
<1>4. plan'[i] \notin BoundPlans
  BY <1>1 DEF BoundPlans, ClaimAndLaunch
<1> QED
  BY <1>1, <1>2, <1>3, <1>4 DEF SafeAt, Safely, Bound, IsRunning

LEMMA LaunchSafe ==
  ASSUME TypeOK, PlanShape, NEW i \in Items, GrowAt(i), SafeAt(i), Launch(i)
  PROVE  Safely(i)
<1>1. /\ Turn(i, "launch") /\ plan[i] # <<>> /\ lock' = "acting"
      /\ UNCHANGED <<tags, status, trees, target, claims>>
  BY DEF Launch, Turn
<1>2. plan[i] = <<"launch">>
  BY <1>1, PlanHead DEF Turn, PlanShape
<1>3. plan[i] \in LaunchPlans /\ plan[i] \in BoundPlans /\ plan[i] \in ClaimPlans
  BY <1>2 DEF LaunchPlans, BoundPlans, ClaimPlans, ClaimAndLaunch, RollBack
<1>4. /\ Here(i) \in trees /\ Claimed(i) /\ Claimed(i)' /\ i \notin claims
      /\ IsRunning(i) => Retired(i)
  BY <1>1, <1>3 DEF SafeAt, Bound, Kept, GrowAt, Claimed
<1>5. plan'[i] \notin LaunchPlans \cup BoundPlans
  <2>1. plan'[i] \in {<<>>, RollBack}
    BY TypedMaps DEF Launch
  <2>2. RollBack \notin BoundPlans /\ <<>> \notin BoundPlans
    BY DEF RollBack, BoundPlans
  <2> QED
    BY <2>1, <2>2, PlanParts DEF LaunchPlans
<1>6. \/ box'[i] = box[i]
      \/ plan'[i] = <<>> /\ box'[i].state = "boot" /\ box'[i].attempt = target[i]
  BY TypedMaps, NoBoxIsIdle DEF Launch
<1>7. plan'[i] = <<>> => plan'[i] \notin ClaimPlans
  BY PlanParts
<1>8. Bound(i)'
  BY <1>1, <1>5, <1>6 DEF SafeAt, Bound
<1>9. CASE box'[i] = box[i]
  BY <1>4, <1>8, <1>9 DEF Safely, IsRunning
<1>10. CASE plan'[i] = <<>> /\ box'[i].state = "boot" /\ box'[i].attempt = target[i]
  <2>1. Kept(i)'
    BY <1>1, <1>4, <1>7, <1>10 DEF Kept, Here
  <2> QED
    BY <1>8, <2>1 DEF Safely
<1> QED
  BY <1>6, <1>9, <1>10

(* A call that leaves a sandbox running takes neither its worktree nor its *)
(* claim.                                                                  *)
LEMMA RunningCall ==
  ASSUME CalmHost, TypeOK, PlanShape, NEW i \in Items, Kept(i), Call(i), ~ RemoveWorktree(i),
         IsRunning(i), IsRunning(i)'
  PROVE  /\ trees \subseteq trees' /\ Claimed(i)'
         /\ \E call \in Calls \ (Stops \cup NeedsStop) :
              /\ Turn(i, call)
              /\ \/ UNCHANGED <<plan, target>>
                 \/ plan'[i] = Tail(plan[i]) /\ target'[i] = target[i]
                 \/ plan'[i] = <<>>
                 \/ plan'[i] \in CleanupRests /\ target'[i] = target[i]
<1>0. PICK call \in Calls :
        /\ Turn(i, call)
        /\ \/ call \in DOMAIN TagOf /\ AddTag(i)
           \/ call \in Unclaims /\ DropClaimed(i)
           \/ DropTags(i, call, {"claimed"}) /\ call = "drop_parks"
           \/ DropTags(i, call, {}) /\ call = "drop_all"
           \/ call \in {"requeue", "activate"} /\ MoveItem(i)
           \/ call \in DOMAIN ParkedAs /\ Park(i)
           \/ call = "mark_done" /\ MarkDone(i)
           \/ call = "archive" \/ call = "archive_if_present"
           \/ call = "teardown" /\ Teardown(i)
           \/ call = "delete_branch" /\ DeleteBranch(i)
           \/ call = "compose_down" /\ ComposeDown(i)
           \/ call = "create" /\ Create(i)
           \/ call = "mark_claimed_at" /\ MarkClaimedAt(i)
           \/ call = "launch"
  <2>1. CASE AddTag(i)
    BY <2>1 DEF AddTag, TagOf, Calls
  <2>2. CASE Park(i)
    BY <2>2 DEF Park, ParkedAs, Calls
  <2>3. CASE DropClaimed(i)
    BY <2>3 DEF DropClaimed, Unclaims, Calls
  <2>4. CASE Drop(i)
    BY <2>4 DEF Drop, DropTags, Calls
  <2>5. CASE MoveItem(i)
    BY <2>5 DEF MoveItem, SetState, Calls
  <2>6. CASE MarkDone(i) \/ Archive(i) \/ ArchiveIfPresent(i)
    BY <2>6 DEF MarkDone, Archive, ArchiveIfPresent, Calls
  <2>7. CASE Teardown(i) \/ MarkClaimedAt(i) \/ Create(i) \/ Launch(i)
    BY <2>7 DEF Teardown, MarkClaimedAt, Create, Launch, Calls
  <2>8. CASE DeleteBranch(i) \/ ComposeDown(i)
    BY <2>8 DEF DeleteBranch, ComposeDown, Calls
  <2> QED
    BY <2>1, <2>2, <2>3, <2>4, <2>5, <2>6, <2>7, <2>8 DEF Call, Cleanup
<1>1. /\ plan[i] \notin ClaimPlans /\ plan[i] # <<>> /\ Head(plan[i]) = call
      /\ plan[i] \in Seq(OtherCalls) \cup ClaimPlans
      /\ <<i, box[i].attempt>> \in trees /\ Claimed(i)
      /\ target[i] = box[i].attempt /\ StopsFirst(i)
  BY <1>0 DEF Kept, Turn, PlanShape
<1>2. call \notin ClaimCalls
  BY <1>1, PlanHead
<1>3. call \notin NeedsStop
  <2>1. 1 \in DOMAIN plan[i] /\ plan[i][1] = call
    BY <1>0, HeadIsLeft
  <2>2. 1..(1 - 1) = {}
    OBVIOUS
  <2> QED
    BY <1>1, <2>1, <2>2 DEF StopsFirst
<1>4. call \notin Stops
  <2>1. ~ Teardown(i)
    BY <1>1, NoBoxIsIdle, TypedMaps DEF Teardown, Here, CalmHost, IsRunning
  <2>2. ~ ComposeDown(i)
    BY NoBoxIsIdle, TypedMaps DEF ComposeDown, CalmHost, IsRunning
  <2> QED
    BY <1>0, <2>1, <2>2 DEF Stops, TagOf, ParkedAs, Unclaims
<1>5. \/ call \in DOMAIN TagOf /\ AddTag(i)
      \/ DropTags(i, "drop_parks", {"claimed"})
      \/ MoveItem(i) \/ Park(i) \/ MarkDone(i) \/ DeleteBranch(i)
  BY <1>0, <1>2, <1>3, <1>4 DEF ClaimCalls, NeedsStop, Stops, Unclaims
<1>6. UNCHANGED trees
  BY <1>5 DEF AddTag, DropTags, MoveItem, SetState, Park, MarkDone, DeleteBranch
<1>7. Claimed(i)'
  <2>1. CASE AddTag(i)
    BY <1>1, <2>1, TypedMaps DEF AddTag, Claimed
  <2>2. CASE DropTags(i, "drop_parks", {"claimed"})
    BY <1>1, <2>2, TypedMaps DEF DropTags, Claimed
  <2>3. CASE MoveItem(i) \/ Park(i) \/ MarkDone(i) \/ DeleteBranch(i)
    BY <1>1, <2>3 DEF MoveItem, SetState, Park, MarkDone, DeleteBranch, Claimed
  <2> QED
    BY <1>5, <2>1, <2>2, <2>3
<1>8. \/ UNCHANGED <<plan, target>>
      \/ plan'[i] = Tail(plan[i]) /\ target'[i] = target[i]
      \/ plan'[i] = <<>>
      \/ plan'[i] \in CleanupRests /\ target'[i] = target[i]
  <2>1. CASE DeleteBranch(i)
    BY <2>1, TypedMaps DEF DeleteBranch, Advance, OnlyStill, CleanupRests
  <2>2. CASE ~ DeleteBranch(i)
    BY <1>5, <2>2, TypedMaps
    DEF AddTag, DropTags, MoveItem, SetState, Park, MarkDone, Advance, Abandon
  <2> QED
    BY <2>1, <2>2
<1> QED
  BY <1>0, <1>3, <1>4, <1>6, <1>7, <1>8

(* The stop of a plan stays ahead of what needs it.                        *)
LEMMA TailStopsFirst ==
  ASSUME TypeOK, NEW i \in Items, StopsFirst(i), NEW call, Turn(i, call), call \notin Stops,
         plan'[i] = Tail(plan[i])
  PROVE  StopsFirst(i)'
<1>1. plan[i] \in Seq(Calls) /\ plan[i] # <<>> /\ plan[i][1] = call
  BY HeadIsLeft, TypedMaps DEF Turn
<1>2. /\ DOMAIN plan[i] = 1..Len(plan[i]) /\ DOMAIN plan'[i] = 1..(Len(plan[i]) - 1)
      /\ \A k \in 1..(Len(plan[i]) - 1) : plan'[i][k] = plan[i][k + 1]
      /\ Len(plan[i]) \in Nat
  BY <1>1
<1>8. ASSUME NEW k \in DOMAIN plan'[i], plan'[i][k] = "remove_worktree"
      PROVE  k + 1 \in DOMAIN plan'[i] /\ plan'[i][k + 1] = "compose_down"
  <2>1. k \in Nat /\ k >= 1 /\ k + 1 \in DOMAIN plan[i] /\ plan[i][k + 1] = "remove_worktree"
    BY <1>2, <1>8
  <2>2. (k + 1) + 1 \in DOMAIN plan[i] /\ plan[i][(k + 1) + 1] = "compose_down"
    BY <2>1 DEF StopsFirst
  <2>3. k + 1 \in 1..(Len(plan[i]) - 1)
    BY <1>2, <2>1, <2>2
  <2> QED
    BY <1>2, <2>2, <2>3
<1> SUFFICES ASSUME NEW k \in DOMAIN plan'[i], plan'[i][k] \in NeedsStop
             PROVE  \E m \in 1..(k - 1) : plan'[i][m] \in Stops
  BY <1>8 DEF StopsFirst
<1>3. k \in Nat /\ k >= 1 /\ k <= Len(plan[i]) - 1
      /\ k + 1 \in DOMAIN plan[i] /\ plan[i][k + 1] \in NeedsStop
  BY <1>2
<1>4. PICK n \in 1..((k + 1) - 1) : plan[i][n] \in Stops
  BY <1>3 DEF StopsFirst
<1>5. n \in Nat /\ n >= 1 /\ n # 1 /\ n <= k
  BY <1>1, <1>3, <1>4
<1>6. n - 1 \in 1..(k - 1) /\ n - 1 \in 1..(Len(plan[i]) - 1) /\ (n - 1) + 1 = n
  BY <1>2, <1>3, <1>5
<1>7. plan'[i][n - 1] \in Stops
  BY <1>2, <1>4, <1>6
<1> QED
  BY <1>6, <1>7

(* A claim under way has its worktree, and its tag before its sandbox.     *)
LEMMA ClaimIsBound ==
  ASSUME TypeOK, PlanShape, NEW i \in Items, SafeAt(i), Call(i), ~ Launch(i),
         plan[i] \in ClaimPlans, plan'[i] \in LaunchPlans
  PROVE  Here(i)' \in trees' /\ (plan'[i] \in BoundPlans => Claimed(i)')
<1>0. /\ plan[i] \in Seq(OtherCalls) \cup ClaimPlans /\ plan[i] # <<>>
      /\ Head(plan[i]) \in ClaimCalls
  <2>1. plan[i] # <<>>
    BY PlanParts
  <2> QED
    BY <2>1, PlanHead
<1>1. plan'[i] # <<>> /\ plan'[i] # <<"requeue">>
  BY PlanParts DEF LaunchPlans
<1>2. CASE Create(i)
  <2>1. plan[i] = ClaimAndLaunch
    BY <1>0, <1>2, PlanHead DEF Create, Turn
  <2>2. /\ plan'[i] = <<"activate", "tag_claimed", "mark_claimed_at", "launch">>
        /\ Here(i) \in trees' /\ target' = target
    BY <1>1, <1>2, <2>1, PlanTail, TypedMaps DEF Create, Advance, Abandon
  <2>3. plan'[i] \notin BoundPlans
    BY <2>2 DEF BoundPlans
  <2> QED
    BY <2>2, <2>3 DEF Here
<1>3. CASE MoveItem(i)
  <2>1. Turn(i, "activate")
    BY <1>0, <1>3 DEF MoveItem, SetState, Turn, ClaimCalls
  <2>2. plan[i] = <<"activate", "tag_claimed", "mark_claimed_at", "launch">>
    BY <1>0, <2>1, PlanHead DEF Turn
  <2>3. plan[i] \in LaunchPlans
    BY <2>2 DEF LaunchPlans, ClaimPlans, ClaimAndLaunch, RollBack
  <2>4. /\ plan'[i] = <<"tag_claimed", "mark_claimed_at", "launch">>
        /\ trees' = trees /\ target' = target
    BY <1>1, <1>3, <2>2, PlanTail, TypedMaps DEF MoveItem, SetState, Advance, Abandon
  <2>5. plan'[i] \notin BoundPlans
    BY <2>4 DEF BoundPlans
  <2> QED
    BY <2>3, <2>4, <2>5 DEF SafeAt, Bound, Here
<1>4. CASE AddTag(i)
  <2>1. Turn(i, "tag_claimed") /\ tags' = [tags EXCEPT ![i] = @ \cup {"claimed"}]
    <3>1. PICK call \in DOMAIN TagOf :
            Turn(i, call) /\ tags' = [tags EXCEPT ![i] = @ \cup {TagOf[call]}]
      BY <1>4 DEF AddTag
    <3>2. call = "tag_claimed"
      BY <1>0, <3>1 DEF Turn, TagOf, ClaimCalls
    <3> QED
      BY <3>1, <3>2 DEF TagOf
  <2>2. plan[i] = <<"tag_claimed", "mark_claimed_at", "launch">>
    BY <1>0, <2>1, PlanHead DEF Turn
  <2>3. plan[i] \in LaunchPlans
    BY <2>2 DEF LaunchPlans, ClaimPlans, ClaimAndLaunch, RollBack
  <2>4. trees' = trees /\ target' = target /\ Claimed(i)'
    BY <1>4, <2>1, TypedMaps DEF AddTag, Advance, Claimed
  <2> QED
    BY <2>3, <2>4 DEF SafeAt, Bound, Here
<1>5. CASE MarkClaimedAt(i)
  <2>1. plan[i] = <<"mark_claimed_at", "launch">>
    BY <1>0, <1>5, PlanHead DEF MarkClaimedAt, Turn
  <2>2. plan[i] \in LaunchPlans /\ plan[i] \in BoundPlans
    BY <2>1 DEF LaunchPlans, BoundPlans, ClaimPlans, ClaimAndLaunch, RollBack
  <2>3. UNCHANGED <<trees, target, tags>>
    BY <1>5 DEF MarkClaimedAt, Advance
  <2> QED
    BY <2>2, <2>3 DEF SafeAt, Bound, Here, Claimed
<1>6. CASE DropClaimed(i)
  <2>1. Turn(i, "unclaim")
    BY <1>0, <1>6 DEF DropClaimed, Turn, ClaimCalls
  <2>2. plan[i] = RollBack
    BY <1>0, <2>1, PlanHead DEF Turn
  <2>3. plan'[i] = <<"requeue">>
    BY <1>6, <2>2, PlanTail, TypedMaps DEF DropClaimed, Advance
  <2> QED
    BY <1>1, <2>3
<1>7. CASE \/ Drop(i) \/ Park(i) \/ MarkDone(i) \/ Archive(i) \/ ArchiveIfPresent(i)
           \/ Teardown(i) \/ Cleanup(i)
  <2>1. Head(plan[i]) \notin ClaimCalls
    <3>1. CASE Cleanup(i)
      BY <3>1, CleanupTurn, RestType DEF Turn
    <3>2. CASE ~ Cleanup(i)
      BY <1>7, <3>2 DEF Drop, DropTags, Park, ParkedAs, MarkDone, Archive, ArchiveIfPresent,
                        Teardown, Turn, ClaimCalls
    <3> QED
      BY <3>1, <3>2
  <2> QED
    BY <1>0, <2>1
<1> QED
  BY <1>2, <1>3, <1>4, <1>5, <1>6, <1>7 DEF Call

LEMMA CallSafe ==
  ASSUME CalmHost, TypeOK, PlanShape, NoPlanBetweenTicks, NEW i \in Items, GrowAt(i),
         SafeAt(i), Call(i)
  PROVE  Safely(i)
<1>1. CASE Launch(i)
  BY <1>1, LaunchSafe
<1>2. CASE ~ Launch(i)
  <2>1. /\ i \in claims' => i \in claims
        /\ plan'[i] \in ClaimPlans => plan[i] \in ClaimPlans
        /\ box'[i] \in {box[i], NoBox}
    BY <1>2, CallBox
  <2>2. lock' # "reading"
    <3>1. lock = "acting" /\ (TickKept(i) \/ TickOver(i) \/ TickOn(i) \/ Create(i))
      <4>1. CASE Create(i)
        BY <4>1 DEF Create, Turn
      <4>2. CASE ~ Create(i)
        BY <1>2, <4>2, CallTick
      <4> QED
        BY <4>1, <4>2
    <3> QED
      BY <3>1 DEF TickKept, TickOver, TickOn, Create, Advance, Abandon
  <2>3. status'[i].attempt = status[i].attempt
    <3>1. CASE Create(i) \/ Cleanup(i)
      BY <3>1, CleanupTurn DEF Create
    <3>2. CASE ~ (Create(i) \/ Cleanup(i))
      BY <1>2, <3>2, CallGentle DEF Gentle
    <3> QED
      BY <3>1, <3>2
  <2>4. box'[i].state \in {"work", "leaving"} => box'[i].attempt = status'[i].attempt
    BY <2>1, <2>3, NoBoxIsIdle DEF SafeAt, Bound, Running
  <2>5. /\ plan'[i] \in LaunchPlans => Here(i)' \in trees'
        /\ plan'[i] \in BoundPlans => Claimed(i)'
    <3>1. BoundPlans \subseteq LaunchPlans /\ LaunchPlans \subseteq ClaimPlans
      BY DEF BoundPlans, LaunchPlans, ClaimPlans, ClaimAndLaunch, RollBack
    <3> QED
      BY <1>2, <2>1, <3>1, ClaimIsBound
  <2>6. ASSUME IsRunning(i)', Kept(i), ~ RemoveWorktree(i) PROVE Kept(i)'
    <3>1. box'[i] = box[i] /\ IsRunning(i)
      BY <2>1, <2>6, NoBoxIsIdle DEF IsRunning
    <3>2. PICK call \in Calls \ (Stops \cup NeedsStop) :
            /\ Turn(i, call) /\ trees \subseteq trees' /\ Claimed(i)'
            /\ \/ UNCHANGED <<plan, target>>
               \/ plan'[i] = Tail(plan[i]) /\ target'[i] = target[i]
               \/ plan'[i] = <<>>
               \/ plan'[i] \in CleanupRests /\ target'[i] = target[i]
      BY <2>6, <3>1, RunningCall
    <3>3. target[i] = box[i].attempt /\ StopsFirst(i)
      BY <2>6, <3>2 DEF Kept, Turn
    <3>4. plan'[i] # <<>> => target'[i] = box'[i].attempt /\ StopsFirst(i)'
      <4>1. CASE UNCHANGED <<plan, target>>
        BY <3>1, <3>3, <4>1 DEF StopsFirst
      <4>2. CASE plan'[i] = Tail(plan[i]) /\ target'[i] = target[i]
        BY <3>1, <3>2, <3>3, <4>2, TailStopsFirst
      <4>3. CASE plan'[i] \in CleanupRests /\ target'[i] = target[i]
        <5>1. ASSUME NEW q \in CleanupRests, NEW k \in DOMAIN q
              PROVE  /\ q[k] \notin NeedsStop
                     /\ q[k] = "remove_worktree" => k + 1 \in DOMAIN q /\ q[k + 1] = "compose_down"
          BY DEF CleanupRests, NeedsStop
        <5> QED
          BY <3>1, <3>3, <4>3, <5>1 DEF StopsFirst
      <4> QED
        BY <3>2, <4>1, <4>2, <4>3
    <3> QED
      BY <2>1, <2>2, <2>6, <3>1, <3>2, <3>4 DEF Kept
  <2>7. ASSUME IsRunning(i), Kept(i), RemoveWorktree(i) PROVE Retired(i)'
    <3>1. /\ Turn(i, "remove_worktree") /\ UNCHANGED <<merged, box>>
          /\ Advance(i) \/ OnlyStill(i, <<"compose_down">>)
      BY <2>7 DEF RemoveWorktree
    <3>2. /\ plan[i] # <<>> /\ plan[i] \in Seq(Calls)
          /\ target[i] = box[i].attempt /\ StopsFirst(i)
      BY <2>7, <3>1, TypedMaps DEF Kept, Turn
    <3>3. merged[i] = target[i]
      BY <3>1, HeadIsLeft DEF GrowAt, CleanupCalls
    <3>4. 1 \in DOMAIN plan[i] /\ plan[i][1] = "remove_worktree"
      BY <3>1, HeadIsLeft
    <3>5. 2 \in DOMAIN plan[i] /\ plan[i][2] = "compose_down"
      <4>1. 1 + 1 \in DOMAIN plan[i] /\ plan[i][1 + 1] = "compose_down"
        BY <3>2, <3>4 DEF StopsFirst
      <4> QED
        BY <4>1
    <3>6. plan'[i] # <<>> /\ plan'[i][1] = "compose_down"
      <4>1. CASE Advance(i)
        <5>1. plan'[i] = Tail(plan[i])
          BY <4>1, TypedMaps DEF Advance
        <5>2. /\ Tail(plan[i]) \in Seq(Calls) /\ Len(Tail(plan[i])) >= 1
              /\ Tail(plan[i])[1] = "compose_down"
          BY <3>2, <3>5
        <5>3. Tail(plan[i]) # <<>>
          BY <5>2
        <5> QED
          BY <5>1, <5>2, <5>3
      <4>2. CASE OnlyStill(i, <<"compose_down">>)
        BY <4>2, TypedMaps DEF OnlyStill
      <4> QED
        BY <3>1, <4>1, <4>2
    <3>7. ASSUME NEW j \in Items, plan'[j] # <<>> PROVE i <= j
      <4>1. CASE j = i
        BY <4>1, ItemsAssumption
      <4>2. CASE j # i
        <5>1. plan'[j] = plan[j]
          BY <3>1, <4>2, TypedMaps DEF Advance, OnlyStill
        <5> QED
          BY <3>1, <3>7, <5>1 DEF Turn
      <4> QED
        BY <4>1, <4>2
    <3> QED
      BY <3>1, <3>2, <3>3, <3>6, <3>7 DEF Retired, Stopping
  <2>8. IsRunning(i)' => IsRunning(i) /\ box'[i] = box[i]
    BY <2>1, NoBoxIsIdle DEF IsRunning
  <2>9. Bound(i)'
    BY <2>2, <2>4, <2>5 DEF Bound
  <2> QED
    BY <2>6, <2>7, <2>8, <2>9 DEF SafeAt, Safely
<1> QED
  BY <1>1, <1>2

LEMMA RunnerSafe ==
  ASSUME TypeOK, NEW i \in Items, GrowAt(i), SafeAt(i), Runner(i)
  PROVE  Safely(i)
<1>1. UNCHANGED <<tags, trees, tick>>
  BY DEF Runner, Boots, AgentParks, AgentExits, Backstop, Dies, EgressDenied, Strays, Ages,
         Heartbeat, RunnerStep
<1>2. /\ IsRunning(i)' => IsRunning(i)
      /\ box'[i].attempt = box[i].attempt
      /\ box'[i].state = "boot" => box[i].state = "boot"
  BY RunnerRuns DEF IsRunning
<1>3. box'[i].state \in {"work", "leaving"} => box'[i].attempt = status'[i].attempt
  <2>1. CASE Boots(i)
    <3>1. status'[i] = NewStatus(box[i].attempt) /\ box[i].attempt \in Nat
      BY <2>1, TypedMaps DEF Boots, Boxes
    <3> QED
      BY <1>2, <3>1, AttemptKept
  <2>2. CASE ~ Boots(i)
    BY <1>2, <2>2, RunnerGentle DEF Gentle, SafeAt, Bound
  <2> QED
    BY <2>1, <2>2
<1>4. StopsFirst(i)' <=> StopsFirst(i)
  BY <1>1 DEF StopsFirst
<1> QED
  BY <1>1, <1>2, <1>3, <1>4 DEF SafeAt, Safely, Bound, Kept, Claimed, Here

LEMMA HumanSafe ==
  ASSUME TypeOK, NEW i \in Items, SafeAt(i), Human(i)
  PROVE  Safely(i)
<1>1. UNCHANGED <<disk, box, tick>>
  BY DEF Human, HumanMove, HumanUntag, PRMerges
<1>2. Claimed(i) => Claimed(i)'
  BY TypedMaps DEF Human, HumanMove, HumanUntag, PRMerges, Claimed
<1>3. StopsFirst(i)' <=> StopsFirst(i)
  BY <1>1 DEF StopsFirst
<1> QED
  BY <1>1, <1>2, <1>3 DEF SafeAt, Safely, Bound, Kept, IsRunning, Here

LEMMA SafeInit == Init => SafeInv
<1> SUFFICES ASSUME Init PROVE SafeInv
  OBVIOUS
<1>1. ASSUME NEW i \in Items PROVE SafeAt(i)
  <2>1. plan[i] = <<>> /\ box[i] = NoBox /\ lock = "free"
    BY DEF Init, None
  <2>2. plan[i] \notin LaunchPlans \cup BoundPlans
    BY <2>1, PlanParts DEF LaunchPlans, BoundPlans, ClaimPlans
  <2> QED
    BY <2>1, <2>2, NoBoxIsIdle DEF SafeAt, Bound, IsRunning, Running
<1> QED
  BY <1>1, EscInit DEF SafeInv

LEMMA SafeStep == CalmHost /\ OnlyTheFleetRequeues /\ SafeInv /\ [Next]_vars => SafeInv'
<1> SUFFICES ASSUME CalmHost, OnlyTheFleetRequeues, SafeInv, [Next]_vars PROVE SafeInv'
  OBVIOUS
<1>0. EscInv' /\ TypeOK /\ PlanShape /\ NoPlanBetweenTicks
  BY EscStep DEF SafeInv, EscInv, GrowInv, AttemptsHold
<1> SUFFICES ASSUME NEW j \in Items PROVE SafeAt(j)'
  BY <1>0 DEF SafeInv
<1>1. SafeAt(j) /\ EscAt(j) /\ GrowAt(j)
  BY DEF SafeInv, EscInv, GrowInv
<1>2. ASSUME StartTick PROVE Safely(j)
  BY <1>0, <1>1, <1>2, StartTickSafe
<1>3. ASSUME Gather PROVE Safely(j)
  BY <1>0, <1>1, <1>3, GatherSafe
<1>4. ASSUME EndTick \/ Crash \/ UNCHANGED vars PROVE Safely(j)
  BY <1>0, <1>1, <1>4, WholeTick, AloneSafe
<1>5. ASSUME BeginClaim(j) \/ Call(j) \/ Runner(j) \/ Human(j) PROVE Safely(j)
  BY <1>0, <1>1, <1>5, BeginClaimSafe, CallSafe, RunnerSafe, HumanSafe
<1>6. ASSUME NEW i \in Items, BeginClaim(i) \/ Call(i) \/ Runner(i) \/ Human(i), i # j
      PROVE  Safely(j)
  BY <1>0, <1>1, <1>6, Bystander, AloneSafe
<1>7. Safely(j)
  BY <1>2, <1>3, <1>4, <1>5, <1>6 DEF Next, TickStep
<1>8. IsRunning(j)' => Kept(j)' \/ Retired(j)'
  BY <1>0, <1>1, <1>7, RetiredStays DEF SafeAt, Safely
<1> QED
  BY <1>7, <1>8 DEF SafeAt, Safely

LEMMA SafeAlways == CalmHost /\ OnlyTheFleetRequeues => (Spec => []SafeInv)
<1> SUFFICES ASSUME CalmHost, OnlyTheFleetRequeues PROVE Spec => []SafeInv
  OBVIOUS
<1>1. SafeInv /\ [Next]_vars => SafeInv'
  BY SafeStep
<1> QED
  BY <1>1, SafeInit, PTL DEF Spec

(* worktree.archive, cleanup.remove_worktree: no sandbox that runs loses   *)
(* the worktree it works in but to the finalize of a merged attempt, for   *)
(* any fleet, wherever a tick dies and an agent strays: while docker does  *)
(* as it is told, a sandbox is up before the next tick reads its status,   *)
(* and only the fleet requeues.                                            *)
THEOREM WorktreesAreKept ==
  CalmHost /\ OnlyTheFleetRequeues => (Spec => []RunnerKeepsItsWorktree)
<1> SUFFICES ASSUME CalmHost, OnlyTheFleetRequeues PROVE Spec => []RunnerKeepsItsWorktree
  OBVIOUS
<1>1. SafeInv => RunnerKeepsItsWorktree
  BY DEF SafeInv, SafeAt, Kept, Retired, RunnerKeepsItsWorktree
<1> QED
  BY <1>1, SafeAlways, PTL

(* What a tick that dies may leave: a sandbox of a merged attempt that     *)
(* still runs, its worktree gone.  A relinquish cannot stop it any more.   *)
LooseIsMerged ==
  lock = "free" =>
    \A i \in Items :
      IsRunning(i) => Claimed(i) \/ (crashes > 0 /\ merged[i] = box[i].attempt)

(* The claim is the sandbox's owner: under the same conditions, and while  *)
(* no tick has died, no sandbox runs between ticks for an item the fleet   *)
(* does not claim; after a tick died, only one whose attempt was merged.   *)
THEOREM SandboxesAreOwned ==
  CalmHost /\ OnlyTheFleetRequeues =>
    (Spec => []((crashes = 0 => RunningMeansClaimed) /\ LooseIsMerged))
<1> SUFFICES ASSUME CalmHost, OnlyTheFleetRequeues
             PROVE  Spec => []((crashes = 0 => RunningMeansClaimed) /\ LooseIsMerged)
  OBVIOUS
<1>1. SafeInv => LooseIsMerged
  <2> SUFFICES ASSUME SafeInv, lock = "free", NEW i \in Items, IsRunning(i)
               PROVE  Claimed(i) \/ (crashes > 0 /\ merged[i] = box[i].attempt)
    BY DEF LooseIsMerged
  <2>1. plan[i] = <<>>
    BY DEF SafeInv, EscInv, GrowInv, AttemptsHold, NoPlanBetweenTicks, None
  <2> QED
    BY <2>1 DEF SafeInv, SafeAt, Kept, Retired, Stopping
<1>2. LooseIsMerged => (crashes = 0 => RunningMeansClaimed)
  BY DEF LooseIsMerged, RunningMeansClaimed
<1> QED
  BY <1>1, <1>2, SafeAlways, PTL

=============================================================================
