------------------------- MODULE MCIncrementVerbs -------------------------
(***************************************************************************)
(* Two rows of a plan for TLC.  Edits of the plan queue the second behind  *)
(* the first, on its own, or on its own under another parent.              *)
(***************************************************************************)
EXTENDS IncrementVerbs

Row(origin, parent, after) ==
  [origin |-> origin, parent |-> parent, after |-> after, text |-> "text"]

MCRequests ==
  [p \in Planners |->
     {Row("A", "P", {}), Row("B", "P", {"A"}), Row("B", "P", {}), Row("B", "Q", {})}]

=============================================================================
