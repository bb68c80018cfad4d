---------------------------- MODULE AtomicQueue ----------------------------
(***************************************************************************)
(* What a board with the verbs of squadra.increments promises: queueing is *)
(* one write.  An increment is absent, or there with everything its row    *)
(* asked for, behind increments that are there; it never changes after     *)
(* that but for its claim and its closing.  IncrementVerbs implements this *)
(* with six and more writes to GitHub, any of which may be the last.       *)
(***************************************************************************)
CONSTANTS
  Planners,
  Requests,   \* planner -> the rows it may queue
  NoRequest,
  Absent,     \* what stands under an Origin nobody has queued
  NoAnswer

Origins == {r.origin : r \in UNION {Requests[p] : p \in Planners}}

VARIABLES
  increment,  \* Origin -> the increment that carries it
  call,       \* planner -> the row it is queueing
  answer      \* planner -> the Origin its last call returned the id of

vars == <<increment, call, answer>>

There(o) == increment[o] # Absent

IsAsAsked(r) ==
  LET x == increment[r.origin] IN
  x.parent = r.parent /\ x.text = r.text /\ x.after = r.after

Init ==
  /\ increment = [o \in Origins |-> Absent]
  /\ call = [p \in Planners |-> NoRequest]
  /\ answer = [p \in Planners |-> NoAnswer]

Answers(p, r, o) ==
  /\ call' = [call EXCEPT ![p] = r]
  /\ answer' = [answer EXCEPT ![p] = o]

Queue(p, r) ==
  /\ call[p] = NoRequest
  /\ \A o \in r.after : There(o)
  /\ Answers(p, r, NoAnswer)
  /\ UNCHANGED increment

(* A person may have closed the item while it was being written.           *)
Commit(p) ==
  LET r == call[p] IN
  /\ r # NoRequest /\ ~ There(r.origin)
  /\ \A o \in r.after : There(o)
  /\ \E closed \in {"open", "completed", "not_planned"} :
       increment' =
         [increment EXCEPT ![r.origin] =
            [parent |-> r.parent, text |-> r.text, after |-> r.after,
             claimed |-> FALSE, closed |-> closed]]
  /\ UNCHANGED <<call, answer>>

(* The id of what this call committed, or of what was there already.       *)
Return(p) ==
  LET r == call[p] IN
  /\ r # NoRequest /\ There(r.origin) /\ IsAsAsked(r)
  /\ increment[r.origin].closed # "not_planned"
  /\ Answers(p, NoRequest, r.origin)
  /\ UNCHANGED increment

(* A refusal, a gh call that fails, a planner that dies.                   *)
GiveUp(p) == Answers(p, NoRequest, NoAnswer) /\ UNCHANGED increment

Claim(o) ==
  /\ There(o) /\ \A d \in increment[o].after : increment[d].closed # "open"
  /\ increment' = [increment EXCEPT ![o].claimed = TRUE]
  /\ UNCHANGED <<call, answer>>

Release(o) ==
  /\ There(o)
  /\ increment' = [increment EXCEPT ![o].claimed = FALSE]
  /\ UNCHANGED <<call, answer>>

(* Closed stays closed; a withdrawal may come after a merge, never before. *)
Close(o, why) ==
  /\ There(o) /\ (increment[o].closed = "open" \/ why = "not_planned")
  /\ increment' = [increment EXCEPT ![o].closed = why]
  /\ UNCHANGED <<call, answer>>

Next ==
  \/ \E p \in Planners :
       Commit(p) \/ Return(p) \/ GiveUp(p) \/ \E r \in Requests[p] : Queue(p, r)
  \/ \E o \in Origins :
       Claim(o) \/ Release(o) \/ \E why \in {"completed", "not_planned"} : Close(o, why)

Spec == Init /\ [][Next]_vars

=============================================================================
