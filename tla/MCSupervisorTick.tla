------------------------- MODULE MCSupervisorTick -------------------------
(***************************************************************************)
(* Small fleets for TLC: one or two increments, what their agents may      *)
(* leave behind and what people may do on the board.                       *)
(***************************************************************************)
EXTENDS SupervisorTick

Exit(code, commits, manifest) ==
  [code |-> code, commits |-> commits, manifest |-> manifest]

CleanPR == Exit(0, TRUE, "pr")
CleanDecision == Exit(0, TRUE, "needs-decision")
CleanFailed == Exit(0, TRUE, "failed")

MCOneItem == {1}
MCTwoItems == {1, 2}

MCFree == [i \in Items |-> {}]
MCSecondBehindFirst == [i \in Items |-> IF i = 2 THEN {1} ELSE {}]

MCAllOutcomes == {CleanPR, CleanDecision, CleanFailed, Killed}
MCPullRequests == {CleanPR}
MCProtocolOutcomes == {CleanPR, CleanDecision, Killed}

(* A person closes an open item ...                                        *)
MCCloses == {"queued", "active"} \X {"done", "withdrawn"}

(* ... or sends an active one back to the queue as well.                   *)
MCHumanEdges == MCCloses \cup {<<"active", "queued">>}

=============================================================================
