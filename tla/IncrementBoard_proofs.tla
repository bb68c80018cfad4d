------------------------ MODULE IncrementBoard_proofs ------------------------
(***************************************************************************)
(* What committed and claimed increments are, for any planners, requests,  *)
(* scope and bounds: every one has a bucket, and none is claimed before    *)
(* all its links are there and closed; each is what one request asked for. *)
(***************************************************************************)
EXTENDS IncrementVerbs_proofs, FiniteSetTheorems

(* The marker goes on after the Status.                                    *)
StatusBeforeTheMarker == \A i \in Ids : issue[i].committed => issue[i].status # "none"

(* A planner that writes links writes them to a partial item of its own,   *)
(* and has the Status to write until there is one.                         *)
WritesItsOwnPartialItem(w) ==
  LET i == job[w].item IN
  /\ At(w, "fetch") => job[w].request \in Requests[w]
  /\ At(w, "write") =>
       /\ job[w].request \in Requests[w]
       /\ issue[i].origin = job[w].request.origin
       /\ ~ issue[i].committed
       /\ job[w].todo.status \/ issue[i].status # "none"

Setting(w) == job[w].step \in {"set_read", "set_write", "tag"}

SetsAState(w) == Setting(w) => job[w].goal # "none"

Unblocked(i) == issue[i].committed /\ \A d \in issue[i].preds : IsClosed(d)

(* A tick on its way to a claim read the increment committed, with its     *)
(* predecessors done, and both stay so.                                    *)
ClaimsTheUnblocked ==
  Setting("tick") /\ job["tick"].goal = "active" => Unblocked(job["tick"].item)

JobFits(w) ==
  /\ w \in Planners => WritesItsOwnPartialItem(w)
  /\ SetsAState(w)
  /\ w = "tick" => ClaimsTheUnblocked

BoardInv ==
  /\ StatusBeforeTheMarker
  /\ \A w \in Processes : JobFits(w)
  /\ \A i \in Ids : issue[i].claimed => Unblocked(i)

-----------------------------------------------------------------------------
(* What no step takes back.                                                *)

MayClaim(i) ==
  At("tick", "tag") /\ job["tick"].goal = "active" /\ job["tick"].item = i

MayCommit(i) ==
  \E p \in Planners :
    At(p, "write") /\ job[p].todo = Nothing /\ job[p].item = i /\ job'[p].step # "write"

GrowsTo(i, x) ==
  /\ issue[i].committed => x.committed /\ x.preds = issue[i].preds
  /\ issue[i].status # "none" => x.status # "none"
  /\ issue[i].closed # "open" => x.closed # "open"
  /\ issue[i].origin # "none" => x.origin = issue[i].origin
  /\ x.committed => issue[i].committed \/ MayCommit(i)
  /\ x.claimed => issue[i].claimed \/ MayClaim(i)

Grows == \A i \in Ids : GrowsTo(i, issue'[i])

LEMMA ReadsGrow ==
  ASSUME UNCHANGED issue
  PROVE  Grows
BY DEF Grows, GrowsTo

LEMMA WriteGrows ==
  ASSUME Good, NEW i \in Ids, NEW x, issue' = [issue EXCEPT ![i] = x], GrowsTo(i, x)
  PROVE  Grows
<1>1. \A k \in Ids \ {i} : GrowsTo(k, issue[k])
  BY DEF GrowsTo
<1>2. \A k \in Ids : issue'[k] = IF k = i THEN x ELSE issue[k]
  BY DEF Good, TypeOK
<1> QED
  BY <1>1, <1>2 DEF Grows

(* One process moves, and fits; the others fit still.                      *)
LEMMA StepKeepsBoardInv ==
  ASSUME Good, Good', BoardInv, Grows, NEW w \in Processes,
         \A v \in Processes \ {w} : job'[v] = job[v], JobFits(w)'
  PROVE  BoardInv'
<1>1. \A i \in Ids : issue[i].preds \subseteq Ids /\ issue'[i].preds \subseteq Ids
  BY DEF Good, TypeOK, Issues
<1>2. \A i \in Ids : Unblocked(i) => Unblocked(i)'
  BY <1>1 DEF Unblocked, IsClosed, Grows, GrowsTo
<1>3. StatusBeforeTheMarker'
  <2> SUFFICES ASSUME NEW i \in Ids, issue'[i].committed
               PROVE  issue'[i].status # "none"
    BY DEF StatusBeforeTheMarker
  <2>1. CASE issue[i].committed
    BY <2>1 DEF BoardInv, StatusBeforeTheMarker, Grows, GrowsTo
  <2>2. CASE MayCommit(i)
    <3>1. PICK p \in Planners : At(p, "write") /\ job[p].todo = Nothing /\ job[p].item = i
      BY <2>2 DEF MayCommit
    <3>2. issue[i].status # "none"
      BY <3>1 DEF BoardInv, JobFits, WritesItsOwnPartialItem, Processes, Nothing
    <3> QED
      BY <3>2 DEF Grows, GrowsTo
  <2> QED
    BY <2>1, <2>2 DEF Grows, GrowsTo
<1>4. \A i \in Ids : issue'[i].claimed => Unblocked(i)'
  <2> SUFFICES ASSUME NEW i \in Ids, issue'[i].claimed
               PROVE  Unblocked(i)
    BY <1>2
  <2>1. CASE issue[i].claimed
    BY <2>1 DEF BoardInv
  <2>2. CASE MayClaim(i)
    BY <2>2 DEF MayClaim, At, BoardInv, JobFits, ClaimsTheUnblocked, Setting, Processes
  <2> QED
    BY <2>1, <2>2 DEF Grows, GrowsTo
<1>5. ASSUME NEW v \in Processes \ {w}
      PROVE  JobFits(v)'
  <2> DEFINE i == job[v].item
  <2>1. job'[v] = job[v] /\ JobFits(v)
    BY <1>5 DEF BoardInv
  <2>2. v \in Planners => WritesItsOwnPartialItem(v)'
    <3> SUFFICES ASSUME v \in Planners, At(v, "write")
                 PROVE  /\ issue'[i].origin = job[v].request.origin
                        /\ ~ issue'[i].committed
                        /\ job[v].todo.status \/ issue'[i].status # "none"
      BY <2>1 DEF JobFits, WritesItsOwnPartialItem, At
    <3>1. /\ job[v].request \in Requests[v]
          /\ issue[i].origin = job[v].request.origin
          /\ ~ issue[i].committed
          /\ job[v].todo.status \/ issue[i].status # "none"
      BY <2>1 DEF JobFits, WritesItsOwnPartialItem
    <3>2. i \in Known /\ i \in Ids /\ issue[i].origin # "none"
      BY ItemIsKnown DEF At, BeforeAnItem, Good, OriginInv, OriginFromTheStart
    <3>3. ~ MayCommit(i)
      <4> SUFFICES ASSUME NEW q \in Planners, At(q, "write"), job[q].item = i,
                          job'[q].step # "write"
                   PROVE  FALSE
        BY DEF MayCommit
      <4>1. q # v
        BY <2>1 DEF At
      <4>2. job[q].request \in Requests[q] /\ issue[i].origin = job[q].request.origin
        BY DEF BoardInv, JobFits, WritesItsOwnPartialItem, Processes
      <4> QED
        BY <3>1, <4>1, <4>2, OneOwnerAssumption
    <3> QED
      BY <3>1, <3>2, <3>3 DEF Grows, GrowsTo
  <2>3. SetsAState(v)'
    BY <2>1 DEF JobFits, SetsAState, Setting
  <2>4. v = "tick" => ClaimsTheUnblocked'
    <3> SUFFICES ASSUME v = "tick", Setting(v), job[v].goal = "active"
                 PROVE  Unblocked(i)'
      BY <2>1 DEF ClaimsTheUnblocked, Setting
    <3>1. Unblocked(i) /\ i \in Ids
      BY <2>1, ItemIsKnown DEF JobFits, ClaimsTheUnblocked, Setting, BeforeAnItem
    <3> QED
      BY <1>2, <3>1
  <2> QED
    BY <2>2, <2>3, <2>4 DEF JobFits
<1> QED
  BY <1>3, <1>4, <1>5 DEF BoardInv

LEMMA MovesOne ==
  ASSUME Good, NEW w \in Processes, NEW j, Becomes(w, j)
  PROVE  job'[w] = j /\ \A v \in Processes \ {w} : job'[v] = job[v]
BY DEF Good, TypeOK, Becomes

Busy == {"fetch", "write", "set_read", "set_write", "tag"}

LEMMA QuietStep ==
  ASSUME Good, Good', BoardInv, Grows, NEW w \in Processes, NEW j, Becomes(w, j),
         j.step \notin Busy
  PROVE  BoardInv'
<1>1. JobFits(w)'
  BY MovesOne DEF JobFits, WritesItsOwnPartialItem, SetsAState, ClaimsTheUnblocked, Setting,
                  At, Busy
<1> QED
  BY <1>1, MovesOne, StepKeepsBoardInv

LEMMA IdleStep ==
  ASSUME Good, Good', BoardInv, Grows, NEW w \in Processes, Becomes(w, Idle)
  PROVE  BoardInv'
BY QuietStep DEF Idle, Busy

LEMMA ReturnedStep ==
  ASSUME Good, Good', BoardInv, Grows, NEW w \in Processes, NEW i, Becomes(w, Returned(i))
  PROVE  BoardInv'
BY QuietStep DEF Idle, Returned, Busy

LEMMA OutsideStep ==
  ASSUME Good, Good', BoardInv, Grows, UNCHANGED job
  PROVE  BoardInv'
<1>1. "tick" \in Processes /\ JobFits("tick") /\ "tick" \notin Planners
  BY PlannersAssumption DEF Processes, BoardInv
<1>2. JobFits("tick")'
  <2>1. Setting("tick") => job["tick"].item \in Ids
    BY <1>1, ItemIsKnown DEF Setting, BeforeAnItem
  <2>2. \A i \in Ids : issue[i].preds \subseteq Ids /\ issue'[i].preds \subseteq Ids
    BY DEF Good, TypeOK, Issues
  <2>3. \A i \in Ids : Unblocked(i) => Unblocked(i)'
    BY <2>2 DEF Unblocked, IsClosed, Grows, GrowsTo
  <2> QED
    BY <1>1, <2>1, <2>3 DEF JobFits, SetsAState, ClaimsTheUnblocked, Setting
<1> QED
  BY <1>1, <1>2, StepKeepsBoardInv

-----------------------------------------------------------------------------
(* queue_increment.                                                        *)

LEMMA LookStep ==
  ASSUME Good, Good', BoardInv, NEW p \in Planners, Look(p)
  PROVE  Grows /\ BoardInv'
<1>1. Grows /\ p \in Processes /\ "tick" # p
  BY ReadsGrow, PlannersAssumption DEF Look, Reads, Processes
<1>2. CASE Becomes(p, Idle)
  BY <1>1, <1>2, IdleStep
<1>3. CASE Goes(p, "create")
  <2>1. [job[p] EXCEPT !.step = "create"].step = "create"
    BY <1>1 DEF Good, TypeOK, Jobs
  <2> QED
    BY <1>1, <1>3, <2>1, QuietStep DEF Goes, Busy
<1>4. ASSUME NEW i, Becomes(p, Answer(p, i))
      PROVE  Grows /\ BoardInv'
  <2>1. CASE Answer(p, i) = [job[p] EXCEPT !.step = "fetch", !.item = i]
    <3>1. job'[p] = [job[p] EXCEPT !.step = "fetch", !.item = i]
      BY <1>1, <1>4, <2>1, MovesOne
    <3>2. job'[p].step = "fetch" /\ job'[p].request = job[p].request
      BY <1>1, <3>1 DEF Good, TypeOK, Jobs
    <3>3. job[p].request \in Requests[p]
      BY DEF Look, At, Good, OriginInv, RowsAreOwn
    <3>4. JobFits(p)'
      BY <1>1, <3>2, <3>3 DEF JobFits, WritesItsOwnPartialItem, SetsAState, Setting, At
    <3> QED
      BY <1>1, <1>4, <3>4, MovesOne, StepKeepsBoardInv
  <2>2. CASE Answer(p, i) = Returned(i)
    BY <1>1, <1>4, <2>2, ReturnedStep
  <2>3. CASE Answer(p, i) = Idle
    BY <1>1, <1>4, <2>3, IdleStep
  <2> QED
    BY <1>1, <2>1, <2>2, <2>3 DEF Answer
<1> QED
  BY <1>1, <1>2, <1>3, <1>4 DEF Look

LEMMA CreateStep ==
  ASSUME Good, Good', BoardInv, NEW p \in Planners, Create(p)
  PROVE  Grows /\ BoardInv'
<1>1. PICK i \in Ids \ Known :
        /\ issue' = [issue EXCEPT ![i] = NewIssue(job[p].request)]
        /\ Becomes(p, [job[p] EXCEPT !.step = "write", !.item = i,
                                     !.todo = Everything(job[p].ids)])
  BY DEF Create
<1>2. p \in Processes /\ "tick" # p /\ job[p].request \in Requests[p]
  BY PlannersAssumption DEF Processes, Create, At, Good, OriginInv, RowsAreOwn
<1>3. issue[i] = NoIssue
  BY DEF Known, Exists
<1>4. Grows
  <2>1. GrowsTo(i, NewIssue(job[p].request))
    BY <1>3 DEF GrowsTo, NewIssue, NoIssue
  <2> QED
    BY <1>1, <2>1, WriteGrows
<1>5. /\ job'[p].step = "write" /\ job'[p].item = i /\ job'[p].request = job[p].request
      /\ job'[p].todo.status
  <2>1. job'[p] = [job[p] EXCEPT !.step = "write", !.item = i,
                                 !.todo = Everything(job[p].ids)]
    BY <1>1, <1>2, MovesOne
  <2> QED
    BY <1>2, <2>1 DEF Good, TypeOK, Jobs, Everything
<1>6. issue'[i].origin = job[p].request.origin /\ ~ issue'[i].committed
  BY <1>1 DEF Good, TypeOK, NewIssue, NoIssue
<1>7. JobFits(p)'
  BY <1>2, <1>5, <1>6 DEF JobFits, WritesItsOwnPartialItem, SetsAState, Setting, At
<1> QED
  BY <1>1, <1>2, <1>4, <1>7, MovesOne, StepKeepsBoardInv

LEMMA FetchStep ==
  ASSUME Good, Good', BoardInv, NEW p \in Planners, Fetch(p)
  PROVE  Grows /\ BoardInv'
<1> DEFINE i == job[p].item
           todo == Todo(i, job[p].request, job[p].ids)
<1>1. Grows /\ p \in Processes /\ "tick" # p /\ UNCHANGED issue
  BY ReadsGrow, PlannersAssumption DEF Fetch, Reads, Processes
<1>2. CASE Becomes(p, Idle)
  BY <1>1, <1>2, IdleStep
<1>3. CASE ~ Becomes(p, Idle)
  <2>1. /\ Partial(i) /\ issue[i].origin = job[p].request.origin
        /\ Becomes(p, [job[p] EXCEPT !.step = "write", !.todo = todo])
    BY <1>3 DEF Fetch
  <2>2. job'[p] = [job[p] EXCEPT !.step = "write", !.todo = todo]
    BY <1>1, <2>1, MovesOne
  <2>3. /\ job'[p].step = "write" /\ job'[p].item = i /\ job'[p].request = job[p].request
        /\ job'[p].todo = todo
    BY <1>1, <2>2 DEF Good, TypeOK, Jobs
  <2>4. todo.status \/ issue[i].status # "none"
    BY DEF Todo
  <2>5. job[p].request \in Requests[p]
    BY <1>1 DEF Fetch, At, BoardInv, JobFits, WritesItsOwnPartialItem
  <2>6. JobFits(p)'
    BY <1>1, <2>1, <2>3, <2>4, <2>5
    DEF JobFits, WritesItsOwnPartialItem, SetsAState, Setting, At, Partial
  <2> QED
    BY <1>1, <2>1, <2>6, MovesOne, StepKeepsBoardInv
<1> QED
  BY <1>1, <1>2, <1>3

(* A write to the item a planner is at, and one write less to make.        *)
LEMMA LinkingStep ==
  ASSUME Good, Good', BoardInv, NEW p \in Planners, At(p, "write"),
         NEW x, issue' = [issue EXCEPT ![job[p].item] = x],
         x.origin = issue[job[p].item].origin, x.committed = issue[job[p].item].committed,
         x.claimed = issue[job[p].item].claimed, x.closed = issue[job[p].item].closed,
         issue[job[p].item].status # "none" => x.status # "none",
         NEW left, Becomes(p, [job[p] EXCEPT !.todo = left]),
         left.status = job[p].todo.status \/ x.status # "none"
  PROVE  Grows /\ BoardInv'
<1> DEFINE i == job[p].item
<1>1. p \in Processes /\ "tick" # p /\ i \in Ids
  BY ItemIsKnown, PlannersAssumption DEF Processes, At, BeforeAnItem
<1>2. /\ job[p].request \in Requests[p]
      /\ issue[i].origin = job[p].request.origin /\ ~ issue[i].committed
      /\ job[p].todo.status \/ issue[i].status # "none"
  BY <1>1 DEF BoardInv, JobFits, WritesItsOwnPartialItem
<1>3. Grows
  BY <1>1, <1>2, WriteGrows DEF GrowsTo
<1>4. job'[p] = [job[p] EXCEPT !.todo = left]
  BY <1>1, MovesOne
<1>5. /\ job'[p].step = "write" /\ job'[p].item = i /\ job'[p].request = job[p].request
      /\ job'[p].todo = left
  BY <1>1, <1>4 DEF Good, TypeOK, Jobs, At
<1>6. issue'[i] = x
  BY <1>1 DEF Good, TypeOK
<1>7. JobFits(p)'
  BY <1>1, <1>2, <1>5, <1>6 DEF JobFits, WritesItsOwnPartialItem, SetsAState, Setting, At
<1> QED
  BY <1>1, <1>3, <1>7, MovesOne, StepKeepsBoardInv

LEMMA WriteStep ==
  ASSUME Good, Good', BoardInv, NEW p \in Planners,
         LinkParent(p) \/ LinkPredecessor(p) \/ AddToProject(p) \/ SetQueued(p)
  PROVE  Grows /\ BoardInv'
<1> DEFINE i == job[p].item
           todo == job[p].todo
<1>1. p \in Processes /\ At(p, "write") /\ i \in Ids
  BY ItemIsKnown DEF LinkParent, LinkPredecessor, AddToProject, SetQueued, Linked, Processes,
                     At, BeforeAnItem
<1>2. issue[i] \in Issues /\ job[p] \in Jobs
  BY <1>1 DEF Good, TypeOK
<1>3. CASE LinkParent(p)
  <2>1. CASE issue[i].parent = "none"
    <3> DEFINE x == [issue[i] EXCEPT !.parent = job[p].request.parent]
               left == [todo EXCEPT !.parent = FALSE]
    <3>1. issue' = [issue EXCEPT ![i] = x] /\ Becomes(p, [job[p] EXCEPT !.todo = left])
      BY <1>1, <1>2, <1>3, <2>1 DEF LinkParent, Becomes, Jobs
    <3>2. /\ x.origin = issue[i].origin /\ x.committed = issue[i].committed
          /\ x.claimed = issue[i].claimed /\ x.closed = issue[i].closed
          /\ x.status = issue[i].status /\ left.status = todo.status
      BY <1>2 DEF Issues, Jobs
    <3> QED
      BY <1>1, <3>1, <3>2, LinkingStep
  <2>2. CASE issue[i].parent # "none"
    <3>1. UNCHANGED issue /\ Becomes(p, Idle)
      BY <1>3, <2>2 DEF LinkParent
    <3> QED
      BY <1>1, <3>1, ReadsGrow, IdleStep
  <2> QED
    BY <2>1, <2>2
<1>4. CASE LinkPredecessor(p)
  <2>1. PICK d \in todo.preds :
          /\ issue' = [issue EXCEPT ![i].preds = @ \cup {d}]
          /\ Becomes(p, [job[p] EXCEPT !.todo.preds = @ \ {d}])
    BY <1>4 DEF LinkPredecessor
  <2> DEFINE x == [issue[i] EXCEPT !.preds = @ \cup {d}]
             left == [todo EXCEPT !.preds = @ \ {d}]
  <2>2. issue' = [issue EXCEPT ![i] = x] /\ Becomes(p, [job[p] EXCEPT !.todo = left])
    BY <1>1, <1>2, <2>1 DEF Becomes, Jobs
  <2>3. /\ x.origin = issue[i].origin /\ x.committed = issue[i].committed
        /\ x.claimed = issue[i].claimed /\ x.closed = issue[i].closed
        /\ x.status = issue[i].status /\ left.status = todo.status
    BY <1>2 DEF Issues, Jobs
  <2> QED
    BY <1>1, <2>2, <2>3, LinkingStep
<1>5. CASE AddToProject(p)
  <2> DEFINE x == [issue[i] EXCEPT !.on_project = TRUE]
             left == [todo EXCEPT !.project = FALSE]
  <2>1. issue' = [issue EXCEPT ![i] = x] /\ Becomes(p, [job[p] EXCEPT !.todo = left])
    BY <1>1, <1>2, <1>5 DEF AddToProject, Becomes, Jobs
  <2>2. /\ x.origin = issue[i].origin /\ x.committed = issue[i].committed
        /\ x.claimed = issue[i].claimed /\ x.closed = issue[i].closed
        /\ x.status = issue[i].status /\ left.status = todo.status
    BY <1>2 DEF Issues, Jobs
  <2> QED
    BY <1>1, <2>1, <2>2, LinkingStep
<1>6. CASE SetQueued(p)
  <2> DEFINE x == [issue[i] EXCEPT !.status = "queued"]
             left == [todo EXCEPT !.status = FALSE]
  <2>1. issue' = [issue EXCEPT ![i] = x] /\ Becomes(p, [job[p] EXCEPT !.todo = left])
    BY <1>1, <1>2, <1>6 DEF SetQueued, Becomes, Jobs
  <2>2. /\ x.origin = issue[i].origin /\ x.committed = issue[i].committed
        /\ x.claimed = issue[i].claimed /\ x.closed = issue[i].closed
        /\ x.status # "none"
    BY <1>2 DEF Issues
  <2> QED
    BY <1>1, <2>1, <2>2, LinkingStep
<1> QED
  BY <1>3, <1>4, <1>5, <1>6

(* The marker goes on when nothing is left to write, the Status included.  *)
LEMMA CommitStep ==
  ASSUME Good, Good', BoardInv, NEW p \in Planners, Commit(p)
  PROVE  Grows /\ BoardInv'
<1> DEFINE i == job[p].item
           x == [issue[i] EXCEPT !.committed = TRUE]
<1>1. p \in Processes /\ At(p, "write") /\ i \in Ids
  BY ItemIsKnown DEF Commit, Processes, At, BeforeAnItem
<1>2. issue[i] \in Issues /\ job[p] \in Jobs
  BY <1>1 DEF Good, TypeOK
<1>3. issue' = [issue EXCEPT ![i] = x]
  BY DEF Commit
<1>4. job'[p] = [job[p] EXCEPT !.step = "read_back"]
  BY <1>1, MovesOne DEF Commit, Goes
<1>5. [job[p] EXCEPT !.step = "read_back"].step = "read_back"
  BY <1>2 DEF Jobs
<1>6. ~ issue[i].committed
  BY <1>1 DEF BoardInv, JobFits, WritesItsOwnPartialItem
<1>7. MayCommit(i)
  BY <1>1, <1>4, <1>5 DEF MayCommit, Commit
<1>8. GrowsTo(i, x)
  BY <1>2, <1>6, <1>7 DEF GrowsTo, Issues
<1>9. Grows
  BY <1>1, <1>3, <1>8, WriteGrows
<1> QED
  BY <1>1, <1>5, <1>9, QuietStep DEF Commit, Goes, Busy

(* Calls that begin, read or end, and write nothing.                       *)
LEMMA ReadingStep ==
  ASSUME Good, Good', BoardInv, NEW p \in Planners,
         \/ \E r \in Requests[p] : Queue(p, r) \/ Withdraw(p, r.origin)
         \/ ReadBack(p) \/ LookUp(p)
  PROVE  Grows /\ BoardInv'
<1>1. Grows /\ p \in Processes
  BY ReadsGrow DEF Queue, Withdraw, ReadBack, LookUp, Reads, Processes
<1>2. ASSUME NEW j, Becomes(p, j), j.step \in {"look", "look_up", "recheck"}
      PROVE  Grows /\ BoardInv'
  BY <1>1, <1>2, QuietStep DEF Busy
<1>3. CASE \E r \in Requests[p] : Queue(p, r) \/ Withdraw(p, r.origin)
  BY <1>1, <1>2, <1>3, IdleStep DEF Queue, Withdraw, Idle
<1>4. CASE ReadBack(p)
  BY <1>1, <1>4, IdleStep, ReturnedStep DEF ReadBack
<1>5. CASE LookUp(p)
  BY <1>1, <1>2, <1>5, IdleStep DEF LookUp, Idle
<1> QED
  BY <1>3, <1>4, <1>5

-----------------------------------------------------------------------------
(* set_state, and the tick's calls around it.                              *)

LEMMA RecheckStep ==
  ASSUME Good, Good', BoardInv, NEW p \in Planners, Recheck(p)
  PROVE  Grows /\ BoardInv'
<1> DEFINE j == [job[p] EXCEPT !.step = "set_read", !.goal = "withdrawn"]
<1>1. Grows /\ p \in Processes /\ p # "tick"
  BY ReadsGrow, PlannersAssumption DEF Recheck, Reads, Processes
<1>2. CASE Becomes(p, Idle)
  BY <1>1, <1>2, IdleStep
<1>3. CASE Becomes(p, j)
  <2>1. job'[p] = j /\ j.step = "set_read" /\ j.goal = "withdrawn"
    BY <1>1, <1>3, MovesOne DEF Good, TypeOK, Jobs
  <2>2. JobFits(p)'
    BY <1>1, <2>1 DEF JobFits, WritesItsOwnPartialItem, SetsAState, Setting, At
  <2> QED
    BY <1>1, <1>3, <2>2, MovesOne, StepKeepsBoardInv
<1> QED
  BY <1>1, <1>2, <1>3 DEF Recheck

LEMMA SettingStep ==
  ASSUME Good, Good', BoardInv, Grows, NEW w \in Processes, Setting(w),
         NEW step \in {"set_read", "set_write", "tag"},
         Becomes(w, [job[w] EXCEPT !.step = step])
  PROVE  BoardInv'
<1> DEFINE i == job[w].item
<1>1. job'[w] = [job[w] EXCEPT !.step = step]
  BY MovesOne
<1>2. job'[w].step = step /\ job'[w].item = i /\ job'[w].goal = job[w].goal
  BY <1>1 DEF Good, TypeOK, Jobs
<1>3. JobFits(w) /\ i \in Ids
  BY ItemIsKnown DEF BoardInv, Setting, BeforeAnItem
<1>4. \A k \in Ids : issue[k].preds \subseteq Ids /\ issue'[k].preds \subseteq Ids
  BY DEF Good, TypeOK, Issues
<1>5. Unblocked(i) => issue'[i].committed /\ \A d \in issue'[i].preds : issue'[d].closed # "open"
  BY <1>3, <1>4 DEF Unblocked, IsClosed, Grows, GrowsTo
<1>6. JobFits(w)'
  BY <1>2, <1>3, <1>5 DEF JobFits, WritesItsOwnPartialItem, SetsAState, ClaimsTheUnblocked,
                          Setting, At, Unblocked, IsClosed
<1> QED
  BY <1>6, MovesOne, StepKeepsBoardInv

LEMMA AfterSetStep ==
  ASSUME Good, Good', BoardInv, Grows, NEW w \in Processes, Setting(w), Becomes(w, AfterSet(w))
  PROVE  BoardInv'
<1>1. CASE AfterSet(w) = Idle
  BY <1>1, IdleStep
<1>2. CASE AfterSet(w) = [job[w] EXCEPT !.step = "tag"]
  BY <1>2, SettingStep
<1> QED
  BY <1>1, <1>2 DEF AfterSet

LEMMA SetStateStep ==
  ASSUME Good, Good', BoardInv, NEW w \in Processes, SetStateRead(w) \/ SetStateWrite(w)
  PROVE  Grows /\ BoardInv'
<1> DEFINE i == job[w].item
           goal == job[w].goal
<1>1. Setting(w) /\ i \in Ids
  BY ItemIsKnown DEF SetStateRead, SetStateWrite, At, Setting, BeforeAnItem
<1>2. CASE SetStateRead(w)
  <2>1. Grows
    BY <1>2, ReadsGrow DEF SetStateRead, Reads
  <2>2. \/ Becomes(w, AfterSet(w))
        \/ Becomes(w, Idle)
        \/ Becomes(w, [job[w] EXCEPT !.step = "set_write"])
    BY <1>2 DEF SetStateRead, Goes
  <2> QED
    BY <1>1, <2>1, <2>2, AfterSetStep, IdleStep, SettingStep
<1>3. CASE SetStateWrite(w)
  <2> DEFINE x == IF goal = "withdrawn" THEN [issue[i] EXCEPT !.closed = "not_planned"]
                                        ELSE [issue[i] EXCEPT !.status = goal]
  <2>1. issue' = [issue EXCEPT ![i] = x]
    BY <1>3 DEF SetStateWrite
  <2>2. issue[i] \in Issues /\ goal # "none"
    BY <1>1 DEF Good, TypeOK, BoardInv, JobFits, SetsAState
  <2>3. GrowsTo(i, x)
    <3>1. CASE goal = "withdrawn"
      BY <2>2, <3>1 DEF GrowsTo, Issues
    <3>2. CASE goal # "withdrawn"
      BY <2>2, <3>2 DEF GrowsTo, Issues
    <3> QED
      BY <3>1, <3>2
  <2>4. Grows
    BY <1>1, <2>1, <2>3, WriteGrows
  <2> QED
    BY <1>1, <1>3, <2>4, AfterSetStep DEF SetStateWrite
<1> QED
  BY <1>2, <1>3

LEMMA TickTakesUp ==
  ASSUME Good, Good', BoardInv, NEW i \in Ids, Claim(i) \/ Requeue(i)
  PROVE  Grows /\ BoardInv'
<1>1. Grows /\ "tick" \in Processes /\ "tick" \notin Planners
  BY ReadsGrow, PlannersAssumption DEF Claim, Requeue, Reads, Processes
<1>2. CASE Claim(i)
  <2> DEFINE j == [Idle EXCEPT !.step = "set_read", !.item = i, !.goal = "active"]
  <2>1. Becomes("tick", j) /\ UNCHANGED issue
    BY <1>2 DEF Claim, Reads
  <2>2. Unblocked(i)
    <3>1. issue[i].committed
      BY <1>2 DEF Claim, Bucket, Partial
    <3>2. ASSUME NEW d \in issue[i].preds
          PROVE  IsClosed(d)
      <4>1. Bucket(d) = "done" /\ issue[d] \in Issues
        BY <1>2 DEF Claim, Good, TypeOK, Issues
      <4> QED
        BY <4>1 DEF Bucket, Native, IsClosed, Issues, Options
    <3> QED
      BY <3>1, <3>2 DEF Unblocked
  <2>3. job'["tick"] = j /\ j.step = "set_read" /\ j.item = i /\ j.goal = "active"
    BY <1>1, <2>1, MovesOne DEF Idle
  <2>4. JobFits("tick")'
    BY <1>1, <2>1, <2>2, <2>3
    DEF JobFits, SetsAState, ClaimsTheUnblocked, Setting, Unblocked, IsClosed
  <2> QED
    BY <1>1, <2>1, <2>4, MovesOne, StepKeepsBoardInv
<1>3. CASE Requeue(i)
  <2> DEFINE j == [Idle EXCEPT !.step = "tag", !.item = i, !.goal = "queued"]
  <2>1. Becomes("tick", j)
    BY <1>3 DEF Requeue
  <2>2. job'["tick"] = j /\ j.step = "tag" /\ j.goal = "queued"
    BY <1>1, <2>1, MovesOne DEF Idle
  <2>3. JobFits("tick")'
    BY <1>1, <2>2 DEF JobFits, SetsAState, ClaimsTheUnblocked, Setting
  <2> QED
    BY <1>1, <2>1, <2>3, MovesOne, StepKeepsBoardInv
<1> QED
  BY <1>2, <1>3

LEMMA MarkClaimStep ==
  ASSUME Good, Good', BoardInv, MarkClaim
  PROVE  Grows /\ BoardInv'
<1> DEFINE i == job["tick"].item
           claims == job["tick"].goal = "active"
           x == [issue[i] EXCEPT !.claimed = claims]
<1>1. "tick" \in Processes /\ At("tick", "tag") /\ Setting("tick")
  BY DEF MarkClaim, At, Setting, Processes
<1>2. i \in Ids /\ issue[i] \in Issues
  BY <1>1, ItemIsKnown DEF At, BeforeAnItem, Good, TypeOK
<1>3. issue' = [issue EXCEPT ![i] = x]
  BY DEF MarkClaim
<1>4. x.claimed => MayClaim(i)
  BY <1>1, <1>2 DEF MayClaim, Issues
<1>5. GrowsTo(i, x)
  BY <1>2, <1>4 DEF GrowsTo, Issues
<1>6. Grows
  BY <1>2, <1>3, <1>5, WriteGrows
<1>7. \/ Becomes("tick", Idle)
      \/ Becomes("tick", [job["tick"] EXCEPT !.step = "set_read"])
  BY DEF MarkClaim, Goes
<1> QED
  BY <1>1, <1>6, <1>7, IdleStep, SettingStep

-----------------------------------------------------------------------------
(* Everyone else.                                                          *)

LEMMA EnvironmentStep ==
  ASSUME Good, Good', BoardInv, Environment
  PROVE  Grows /\ BoardInv'
<1>1. ASSUME NEW w \in Processes, Crash(w)
      PROVE  Grows /\ BoardInv'
  BY <1>1, ReadsGrow, IdleStep DEF Crash
<1>2. ASSUME NEW i \in Ids, NEW x, issue' = [issue EXCEPT ![i] = x], GrowsTo(i, x),
             UNCHANGED job
      PROVE  Grows /\ BoardInv'
  BY <1>2, WriteGrows, OutsideStep
<1>3. ASSUME NEW i \in Ids, WorkflowSetsStatus(i)
      PROVE  Grows /\ BoardInv'
  <2>1. GrowsTo(i, [issue[i] EXCEPT !.status = "queued"])
    BY DEF Good, TypeOK, Issues, GrowsTo
  <2> QED
    BY <1>2, <1>3, <2>1 DEF WorkflowSetsStatus
<1>4. ASSUME NEW i \in Ids, PullRequestCloses(i)
      PROVE  Grows /\ BoardInv'
  <2>1. GrowsTo(i, [issue[i] EXCEPT !.closed = "completed"])
    BY DEF Good, TypeOK, Issues, GrowsTo
  <2> QED
    BY <1>2, <1>4, <2>1 DEF PullRequestCloses
<1>5. ASSUME NEW i \in Ids, PersonCloses(i)
      PROVE  Grows /\ BoardInv'
  <2>1. PICK why \in {"completed", "not_planned"} : Moved(i, [issue[i] EXCEPT !.closed = why])
    BY <1>5 DEF PersonCloses
  <2>2. GrowsTo(i, [issue[i] EXCEPT !.closed = why])
    BY DEF Good, TypeOK, Issues, GrowsTo
  <2> QED
    BY <1>2, <2>1, <2>2 DEF Moved
<1>6. ASSUME NEW i \in Ids, PersonDrags(i)
      PROVE  Grows /\ BoardInv'
  <2>1. PICK option \in Drags : Moved(i, [issue[i] EXCEPT !.status = option])
    BY <1>6 DEF PersonDrags
  <2>2. option # "none"
    BY VerbBoundsAssumption DEF Options
  <2>3. GrowsTo(i, [issue[i] EXCEPT !.status = option])
    BY <2>2 DEF Good, TypeOK, Issues, GrowsTo
  <2> QED
    BY <1>2, <2>1, <2>3 DEF Moved
<1> QED
  BY <1>1, <1>3, <1>4, <1>5, <1>6 DEF Environment

LEMMA NextKeepsBoardInv ==
  ASSUME Good, Good', BoardInv, [Next]_vars
  PROVE  Grows /\ BoardInv'
<1>1. CASE Calls
  BY <1>1, ReadingStep DEF Calls
<1>2. ASSUME NEW p \in Planners, PlannerStep(p)
      PROVE  Grows /\ BoardInv'
  <2>1. p \in Processes
    BY DEF Processes
  <2> QED
    BY <1>2, <2>1, LookStep, CreateStep, FetchStep, WriteStep, CommitStep, ReadingStep,
       RecheckStep, SetStateStep DEF PlannerStep
<1>3. CASE TickStep
  <2>1. "tick" \in Processes
    BY DEF Processes
  <2> QED
    BY <1>3, <2>1, TickTakesUp, SetStateStep, MarkClaimStep DEF TickStep
<1>4. CASE Environment
  BY <1>4, EnvironmentStep
<1>5. CASE UNCHANGED vars
  BY <1>5, ReadsGrow, OutsideStep DEF vars
<1> QED
  BY <1>1, <1>2, <1>3, <1>4, <1>5 DEF Next

LEMMA BoardInvHolds == Spec => [](Good /\ BoardInv)
<1>1. Init => BoardInv
  BY DEF Init, NoIssue, Idle, BoardInv, StatusBeforeTheMarker, JobFits, SetsAState,
         WritesItsOwnPartialItem, ClaimsTheUnblocked, Setting, At
<1> QED
  BY <1>1, NextKeepsBoardInv, InitGood, NextGood, PTL DEF Spec

(* items_with_origin: no create, finished, interrupted or retried, and no  *)
(* race with the tick leaves a committed issue that makes every verb of    *)
(* the board raise; only a person's drag does.                             *)
THEOREM IncrementsHaveBuckets == Spec => []EveryIncrementHasABucket
<1>1. ASSUME Good, BoardInv
      PROVE  EveryIncrementHasABucket
  <2> SUFFICES ASSUME NEW i \in Known, ~ Partial(i), issue[i].status # "done"
               PROVE  Bucket(i) # "raises"
    BY DEF EveryIncrementHasABucket
  <2>1. issue[i] \in Issues /\ i \in Ids /\ Exists(i)
    BY <1>1 DEF Good, TypeOK, Known
  <2>2. issue[i].status # "none"
    BY <1>1, <2>1 DEF BoardInv, StatusBeforeTheMarker, Partial
  <2>3. Native(i) \in {"completed", "not_planned", "queued", "active"}
    BY <2>1, <2>2 DEF Native, Issues, Options
  <2> QED
    BY <2>1, <2>3 DEF Bucket
<1> QED
  BY <1>1, BoardInvHolds, PTL

(* Obligation 2 of create_increment, and the gates of the tick: whatever   *)
(* retries, workflows and people do meanwhile, a claimed increment is      *)
(* complete and everything it is linked behind is closed.                  *)
THEOREM ClaimsWaitForPredecessors == Spec => []ClaimedBehindItsPredecessors
<1>1. BoardInv => ClaimedBehindItsPredecessors
  BY DEF BoardInv, Unblocked, ClaimedBehindItsPredecessors, Known
<1> QED
  BY <1>1, BoardInvHolds, PTL

-----------------------------------------------------------------------------
(* A committed increment is what one request asked for.                    *)

(* Every predecessor is an increment; there is one for each then, and none *)
(* is still to come.                                                       *)
AllThere(r) == \A o \in r.after : \E k \in IncrementIds(r) : issue[k].origin = o

LEMMA QueuedWhenAllThere ==
  ASSUME Good, NEW r \in Every, Cardinality(IncrementIds(r)) = Cardinality(r.after)
  PROVE  AllThere(r)
<1> DEFINE S == IncrementIds(r)
           f == [k \in S |-> issue[k].origin]
<1>1. f \in [S -> r.after] /\ \A k \in S : f[k] = issue[k].origin
  BY DEF IncrementIds
<1>2. \A k, m \in S : f[k] = f[m] => k = m
  BY <1>1 DEF IncrementIds, Good, OriginInv, OneItemPerOrigin
<1> HIDE DEF f, S
<1>3. f \in Injection(S, r.after)
  BY <1>1, <1>2 DEF Injection, IsInjective
<1>4. f \in Surjection(S, r.after)
  BY <1>3, FS_Injection, RequestsAssumption DEF S
<1> QED
  BY <1>1, <1>4 DEF Surjection, AllThere, S

LEMMA AllThereStays ==
  ASSUME Good, Good', Grows, NEW r, AllThere(r)
  PROVE  IncrementIds(r)' = IncrementIds(r) /\ AllThere(r)'
<1>1. ASSUME NEW k \in IncrementIds(r)
      PROVE  k \in IncrementIds(r)' /\ issue'[k].origin = issue[k].origin
  <2>1. k \in Ids /\ issue[k].committed /\ issue[k].origin # "none" /\ issue[k].origin \in r.after
    BY DEF IncrementIds, Known, Partial, Good, OriginInv, OriginFromTheStart
  <2>2. issue'[k].committed /\ issue'[k].origin = issue[k].origin
    BY <2>1 DEF Grows, GrowsTo
  <2> QED
    BY <2>1, <2>2 DEF IncrementIds, Known, Partial, Exists, NoIssue
<1>2. ASSUME NEW k \in IncrementIds(r)'
      PROVE  k \in IncrementIds(r)
  <2>1. k \in Known' /\ issue'[k].origin \in r.after
    BY <1>2 DEF IncrementIds
  <2>2. PICK m \in IncrementIds(r) : issue[m].origin = issue'[k].origin
    BY <2>1 DEF AllThere
  <2>3. m \in Known' /\ issue'[m].origin = issue'[k].origin
    BY <1>1, <2>2 DEF IncrementIds
  <2>4. m = k
    BY <2>1, <2>3 DEF Good, OriginInv, OneItemPerOrigin
  <2> QED
    BY <2>4
<1> QED
  BY <1>1, <1>2 DEF AllThere

AsAsked(i, r) == issue[i].origin = r.origin /\ AllThere(r) /\ Matches(i, r, IncrementIds(r))

(* What a planner's call knows, and what a write it has left will bring    *)
(* its item to.                                                            *)
WritesWhatWasAsked(w) ==
  LET r == job[w].request
      i == job[w].item
  IN  /\ job[w].step \in {"look", "create", "fetch", "write"} =>
           AllThere(r) /\ job[w].ids = IncrementIds(r)
      /\ At(w, "fetch") =>
           issue[i].origin = r.origin /\ Finishes(i, r, job[w].ids)
      /\ At(w, "write") =>
           /\ issue[i].text = r.text
           /\ job[w].todo.parent \/ issue[i].parent = r.parent
           /\ issue[i].preds \cup job[w].todo.preds = job[w].ids

MatchInv ==
  /\ \A i \in Ids : issue[i].committed => \E r \in Every : AsAsked(i, r)
  /\ \A p \in Planners : WritesWhatWasAsked(p)

(* Only a planner at its own partial item writes links, and no one text.   *)
LinksTo(i, x) ==
  /\ issue[i].origin # "none" => x.text = issue[i].text
  /\ x.committed => x.parent = issue[i].parent /\ x.preds = issue[i].preds
  /\ x.parent # issue[i].parent \/ x.preds # issue[i].preds
       => \E p \in Planners : At(p, "write") /\ job[p].item = i /\ job'[p] # job[p]

Links == \A i \in Ids : LinksTo(i, issue'[i])

LEMMA CommittedAsAsked ==
  ASSUME Good, Good', BoardInv, MatchInv, Grows, Links, NEW i \in Ids, issue'[i].committed
  PROVE  (\E r \in Every : AsAsked(i, r))'
<1>1. PICK r \in Every : AsAsked(i, r)
  <2>1. CASE issue[i].committed
    BY <2>1 DEF MatchInv
  <2>2. CASE MayCommit(i)
    <3>1. PICK p \in Planners : At(p, "write") /\ job[p].todo = Nothing /\ job[p].item = i
      BY <2>2 DEF MayCommit
    <3>2. job[p].request \in Every /\ issue[i].origin = job[p].request.origin
      BY <3>1 DEF BoardInv, JobFits, WritesItsOwnPartialItem, Processes, Every
    <3>3. WritesWhatWasAsked(p) /\ job[p].step = "write"
      BY <3>1 DEF MatchInv, At
    <3>4. AllThere(job[p].request) /\ job[p].ids = IncrementIds(job[p].request)
      BY <3>3 DEF WritesWhatWasAsked
    <3>5. Matches(i, job[p].request, job[p].ids)
      <4>1. job[p].todo.parent = FALSE /\ job[p].todo.preds = {}
        BY <3>1 DEF Nothing
      <4>2. issue[i].text = job[p].request.text /\ issue[i].parent = job[p].request.parent
        BY <3>1, <3>3, <4>1 DEF WritesWhatWasAsked
      <4>3. issue[i].preds = job[p].ids
        BY <3>1, <3>3, <4>1 DEF WritesWhatWasAsked
      <4> QED
        BY <4>2, <4>3 DEF Matches
    <3>6. AsAsked(i, job[p].request)
      BY <3>2, <3>4, <3>5 DEF AsAsked
    <3> QED
      BY <3>2, <3>6
  <2> QED
    BY <2>1, <2>2 DEF Grows, GrowsTo
<1>2. issue[i].origin # "none"
  BY <1>1, RequestsAssumption DEF AsAsked, Origins
<1>3. /\ issue'[i].origin = issue[i].origin /\ issue'[i].text = issue[i].text
      /\ issue'[i].parent = issue[i].parent /\ issue'[i].preds = issue[i].preds
  BY <1>2 DEF Grows, GrowsTo, Links, LinksTo
<1>4. IncrementIds(r)' = IncrementIds(r) /\ AllThere(r)'
  BY <1>1, AllThereStays DEF AsAsked
<1>5. AsAsked(i, r)'
  BY <1>1, <1>3, <1>4 DEF AsAsked, Matches
<1> QED
  BY <1>5

(* A planner that does not move is undisturbed by whoever does.            *)
LEMMA UndisturbedAsAsked ==
  ASSUME Good, Good', BoardInv, MatchInv, Grows, Links, NEW p \in Planners, job'[p] = job[p]
  PROVE  WritesWhatWasAsked(p)'
<1> DEFINE i == job[p].item
           r == job[p].request
<1>1. WritesWhatWasAsked(p) /\ p \in Processes
  BY DEF MatchInv, Processes
<1>2. CASE job[p].step \in {"fetch", "write"}
  <2>1. /\ AllThere(r) /\ job[p].ids = IncrementIds(r)
        /\ r \in Requests[p] /\ issue[i].origin = r.origin
    BY <1>1, <1>2 DEF WritesWhatWasAsked, BoardInv, JobFits, WritesItsOwnPartialItem, At
  <2>2. IncrementIds(r)' = IncrementIds(r) /\ AllThere(r)'
    BY <2>1, AllThereStays
  <2>3. i \in Ids /\ issue[i].origin # "none"
    BY <1>1, <1>2, ItemIsKnown DEF BeforeAnItem, Good, OriginInv, OriginFromTheStart
  <2>4. issue'[i].origin = issue[i].origin /\ issue'[i].text = issue[i].text
    BY <2>3 DEF Grows, GrowsTo, Links, LinksTo
  <2>5. issue'[i].parent = issue[i].parent /\ issue'[i].preds = issue[i].preds
    <3> SUFFICES ASSUME NEW q \in Planners, At(q, "write"), job[q].item = i, job'[q] # job[q]
                 PROVE  FALSE
      BY <2>3 DEF Links, LinksTo
    <3>1. job[q].request \in Requests[q] /\ issue[i].origin = job[q].request.origin
      BY DEF BoardInv, JobFits, WritesItsOwnPartialItem, Processes
    <3> QED
      BY <2>1, <3>1, OneOwnerAssumption
  <2> QED
    BY <1>1, <2>1, <2>2, <2>4, <2>5 DEF WritesWhatWasAsked, At, Finishes
<1>3. CASE job[p].step \in {"look", "create"}
  <2>1. AllThere(r) /\ job[p].ids = IncrementIds(r)
    BY <1>1, <1>3 DEF WritesWhatWasAsked
  <2>2. IncrementIds(r)' = IncrementIds(r) /\ AllThere(r)'
    BY <2>1, AllThereStays
  <2> QED
    BY <1>3, <2>1, <2>2 DEF WritesWhatWasAsked, At
<1>4. CASE job[p].step \notin {"look", "create", "fetch", "write"}
  BY <1>4 DEF WritesWhatWasAsked, At
<1> QED
  BY <1>2, <1>3, <1>4

LEMMA StepKeepsMatchInv ==
  ASSUME Good, Good', BoardInv, MatchInv, Grows, Links, NEW w \in Processes,
         \A v \in Processes \ {w} : job'[v] = job[v],
         w \in Planners => WritesWhatWasAsked(w)'
  PROVE  MatchInv'
<1>1. Planners \subseteq Processes
  BY DEF Processes
<1>2. \A p \in Planners : WritesWhatWasAsked(p)'
  BY <1>1, UndisturbedAsAsked
<1>3. \A i \in Ids : issue'[i].committed => (\E r \in Every : AsAsked(i, r))'
  BY CommittedAsAsked
<1> QED
  BY <1>2, <1>3 DEF MatchInv

(* No step but a planner's links an item, and then its own partial one.    *)

SameLinks(i, x) ==
  x.text = issue[i].text /\ x.parent = issue[i].parent /\ x.preds = issue[i].preds

LEMMA LinksKept ==
  ASSUME Good, NEW i \in Ids, NEW x, issue' = [issue EXCEPT ![i] = x],
         LinksTo(i, x) \/ SameLinks(i, x)
  PROVE  Links
<1>1. \A k \in Ids \ {i} : LinksTo(k, issue[k])
  BY DEF LinksTo
<1>2. LinksTo(i, x)
  BY DEF LinksTo, SameLinks
<1>3. \A k \in Ids : issue'[k] = IF k = i THEN x ELSE issue[k]
  BY DEF Good, TypeOK
<1> QED
  BY <1>1, <1>2, <1>3 DEF Links

LEMMA ReadsLink ==
  ASSUME UNCHANGED issue
  PROVE  Links
BY DEF Links, LinksTo

LEMMA PlannerLinks ==
  ASSUME Good, BoardInv, NEW p \in Planners,
         \/ Create(p) \/ LinkParent(p) \/ LinkPredecessor(p)
         \/ AddToProject(p) \/ SetQueued(p) \/ Commit(p)
  PROVE  Links
<1> DEFINE i == job[p].item
<1>1. p \in Processes /\ job[p] \in Jobs
  BY DEF Processes, Good, TypeOK
<1>2. CASE Create(p)
  <2>1. PICK k \in Ids \ Known : issue' = [issue EXCEPT ![k] = NewIssue(job[p].request)]
    BY <1>2 DEF Create
  <2>2. LinksTo(k, NewIssue(job[p].request))
    BY DEF Known, Exists, LinksTo, NewIssue, NoIssue
  <2> QED
    BY <2>1, <2>2, LinksKept
<1>3. CASE ~ Create(p)
  <2>1. At(p, "write") /\ i \in Ids /\ issue[i] \in Issues /\ ~ issue[i].committed
    <3>1. At(p, "write")
      BY <1>3 DEF LinkParent, LinkPredecessor, AddToProject, SetQueued, Commit, Linked
    <3> QED
      BY <1>1, <3>1, ItemIsKnown
      DEF At, BeforeAnItem, Good, TypeOK, BoardInv, JobFits, WritesItsOwnPartialItem
  <2>2. CASE LinkParent(p)
    <3>1. CASE issue[i].parent # "none"
      BY <2>2, <3>1, ReadsLink DEF LinkParent
    <3>2. CASE issue[i].parent = "none"
      <4> DEFINE x == [issue[i] EXCEPT !.parent = job[p].request.parent]
      <4>1. /\ issue' = [issue EXCEPT ![i] = x] /\ job[p].todo.parent
            /\ Becomes(p, [job[p] EXCEPT !.todo.parent = FALSE])
        BY <2>1, <2>2, <3>2 DEF LinkParent
      <4>2. job'[p] # job[p]
        <5>1. job'[p] = [job[p] EXCEPT !.todo.parent = FALSE]
          BY <1>1, <4>1, MovesOne
        <5> QED
          BY <1>1, <4>1, <5>1 DEF Jobs
      <4>3. LinksTo(i, x)
        BY <2>1, <4>2 DEF LinksTo, Issues
      <4> QED
        BY <2>1, <4>1, <4>3, LinksKept
    <3> QED
      BY <3>1, <3>2
  <2>3. CASE LinkPredecessor(p)
    <3>1. PICK d \in job[p].todo.preds :
            /\ issue' = [issue EXCEPT ![i].preds = @ \cup {d}]
            /\ Becomes(p, [job[p] EXCEPT !.todo.preds = @ \ {d}])
      BY <2>3 DEF LinkPredecessor
    <3> DEFINE x == [issue[i] EXCEPT !.preds = @ \cup {d}]
    <3>2. job'[p] # job[p]
      <4>1. job'[p] = [job[p] EXCEPT !.todo.preds = @ \ {d}]
        BY <1>1, <3>1, MovesOne
      <4> QED
        BY <1>1, <4>1 DEF Jobs
    <3>3. LinksTo(i, x)
      BY <2>1, <3>2 DEF LinksTo, Issues
    <3>4. issue' = [issue EXCEPT ![i] = x]
      BY <2>1, <3>1
    <3> QED
      BY <2>1, <3>3, <3>4, LinksKept
  <2>4. CASE AddToProject(p) \/ SetQueued(p) \/ Commit(p)
    <3>1. ASSUME NEW x \in {[issue[i] EXCEPT !.on_project = TRUE],
                            [issue[i] EXCEPT !.status = "queued"],
                            [issue[i] EXCEPT !.committed = TRUE]}
          PROVE  SameLinks(i, x)
      BY <2>1 DEF SameLinks, Issues
    <3> QED
      BY <2>1, <2>4, <3>1, LinksKept DEF AddToProject, SetQueued, Commit
  <2> QED
    BY <1>3, <2>2, <2>3, <2>4
<1> QED
  BY <1>2, <1>3

LEMMA StateLinks ==
  ASSUME Good, NEW w \in Processes, SetStateRead(w) \/ SetStateWrite(w)
  PROVE  Links
<1> DEFINE i == job[w].item
           goal == job[w].goal
           x == IF goal = "withdrawn" THEN [issue[i] EXCEPT !.closed = "not_planned"]
                                      ELSE [issue[i] EXCEPT !.status = goal]
<1>1. CASE SetStateRead(w)
  BY <1>1, ReadsLink DEF SetStateRead, Reads
<1>2. CASE SetStateWrite(w)
  <2>1. i \in Ids /\ issue[i] \in Issues
    BY <1>2, ItemIsKnown DEF SetStateWrite, At, BeforeAnItem, Good, TypeOK
  <2>2. issue' = [issue EXCEPT ![i] = x]
    BY <1>2 DEF SetStateWrite
  <2>3. SameLinks(i, x)
    <3>1. CASE goal = "withdrawn"
      BY <2>1, <3>1 DEF SameLinks, Issues
    <3>2. CASE goal # "withdrawn"
      BY <2>1, <3>2 DEF SameLinks, Issues
    <3> QED
      BY <3>1, <3>2
  <2> QED
    BY <2>1, <2>2, <2>3, LinksKept
<1> QED
  BY <1>1, <1>2

LEMMA OthersLink ==
  ASSUME Good, MarkClaim \/ Environment
  PROVE  Links
<1>1. CASE MarkClaim
  <2> DEFINE i == job["tick"].item
             x == [issue[i] EXCEPT !.claimed = (job["tick"].goal = "active")]
  <2>1. i \in Ids /\ issue[i] \in Issues
    BY <1>1, ItemIsKnown DEF MarkClaim, At, BeforeAnItem, Processes, Good, TypeOK
  <2>2. issue' = [issue EXCEPT ![i] = x]
    BY <1>1 DEF MarkClaim
  <2>3. SameLinks(i, x)
    BY <2>1 DEF SameLinks, Issues
  <2> QED
    BY <2>1, <2>2, <2>3, LinksKept
<1>2. ASSUME NEW w \in Processes, Crash(w)
      PROVE  Links
  BY <1>2, ReadsLink DEF Crash
<1>3. ASSUME NEW i \in Ids, \/ WorkflowSetsStatus(i) \/ PullRequestCloses(i)
                            \/ PersonCloses(i) \/ PersonDrags(i)
      PROVE  Links
  <2>1. PICK x : issue' = [issue EXCEPT ![i] = x]
                 /\ \/ \E s : x = [issue[i] EXCEPT !.status = s]
                    \/ \E c : x = [issue[i] EXCEPT !.closed = c]
    BY <1>3 DEF WorkflowSetsStatus, PullRequestCloses, PersonCloses, PersonDrags, Moved
  <2>2. SameLinks(i, x)
    BY <2>1 DEF SameLinks, Good, TypeOK, Issues
  <2> QED
    BY <2>1, <2>2, LinksKept
<1> QED
  BY <1>1, <1>2, <1>3 DEF Environment

-----------------------------------------------------------------------------
(* The planner that moves.                                                 *)

LEMMA QueueAsks ==
  ASSUME Good, NEW p \in Planners, NEW r \in Requests[p], Queue(p, r)
  PROVE  WritesWhatWasAsked(p)'
<1>1. p \in Processes /\ r \in Every /\ UNCHANGED issue
  BY DEF Processes, Every, Queue, Reads
<1>2. CASE Becomes(p, Idle)
  BY <1>1, <1>2, MovesOne DEF WritesWhatWasAsked, Idle, At
<1>3. CASE Becomes(p, [Idle EXCEPT !.step = "look", !.request = r, !.ids = IncrementIds(r)])
  <2> DEFINE j == [Idle EXCEPT !.step = "look", !.request = r, !.ids = IncrementIds(r)]
  <2>1. job'[p].step = "look" /\ job'[p].request = r /\ job'[p].ids = IncrementIds(r)
    <3>1. job'[p] = j
      BY <1>1, <1>3, MovesOne
    <3>2. j.step = "look" /\ j.request = r /\ j.ids = IncrementIds(r)
      BY DEF Idle
    <3> QED
      BY <3>1, <3>2
  <2>2. AllThere(r)
    BY <1>1, QueuedWhenAllThere DEF Queue
  <2>3. AllThere(r)' /\ IncrementIds(r)' = IncrementIds(r)
    BY <1>1, <2>2 DEF AllThere, IncrementIds, Known, Exists, Partial
  <2> QED
    BY <2>1, <2>3 DEF WritesWhatWasAsked, At
<1> QED
  BY <1>2, <1>3 DEF Queue

LEMMA LookAsks ==
  ASSUME Good, Good', MatchInv, NEW p \in Planners, Look(p)
  PROVE  WritesWhatWasAsked(p)'
<1>0. PICK r : r = job[p].request
  OBVIOUS
<1> DEFINE ids == job[p].ids
<1>1. p \in Processes /\ UNCHANGED issue /\ job[p] \in Jobs
  BY DEF Processes, Look, Reads, Good, TypeOK
<1>2. AllThere(r) /\ ids = IncrementIds(r)
  BY <1>0 DEF MatchInv, WritesWhatWasAsked, Look, At
<1>3. AllThere(r)' /\ IncrementIds(r)' = IncrementIds(r)
  BY <1>1, <1>2, AllThereStays, ReadsGrow
<1>4. CASE Goes(p, "create")
  <2>1. job'[p] = [job[p] EXCEPT !.step = "create"]
    BY <1>1, <1>4, MovesOne DEF Goes
  <2>2. job'[p].step = "create" /\ job'[p].request = r /\ job'[p].ids = ids
    BY <1>0, <1>1, <2>1 DEF Jobs
  <2> QED
    BY <1>2, <1>3, <2>2 DEF WritesWhatWasAsked, At
<1>5. CASE Becomes(p, Idle)
  BY <1>1, <1>5, MovesOne DEF WritesWhatWasAsked, Idle, At
<1>6. ASSUME NEW i \in Carrying(r.origin), Becomes(p, Answer(p, i))
      PROVE  WritesWhatWasAsked(p)'
  <2>1. job'[p] = Answer(p, i)
    BY <1>1, <1>6, MovesOne
  <2>2. CASE Partial(i) /\ Finishes(i, r, ids)
    <3>1. job'[p] = [job[p] EXCEPT !.step = "fetch", !.item = i]
      BY <1>0, <2>1, <2>2 DEF Answer
    <3>2. /\ job'[p].step = "fetch" /\ job'[p].item = i
          /\ job'[p].request = r /\ job'[p].ids = ids
      BY <1>0, <1>1, <3>1 DEF Jobs
    <3>3. issue[i].origin = r.origin
      BY <1>6 DEF Carrying
    <3> QED
      BY <1>1, <1>2, <1>3, <2>2, <3>2, <3>3 DEF WritesWhatWasAsked, At, Finishes
  <2>3. CASE ~ (Partial(i) /\ Finishes(i, r, ids))
    <3>1. job'[p] = Returned(i) \/ job'[p] = Idle
      BY <1>0, <2>1, <2>3 DEF Answer
    <3>2. Returned(i).step = "returned" /\ Idle.step = "idle"
      BY DEF Returned, Idle
    <3>3. job'[p].step \in {"returned", "idle"}
      BY <3>1, <3>2
    <3> QED
      BY <3>3 DEF WritesWhatWasAsked, At
  <2> QED
    BY <2>2, <2>3
<1> QED
  BY <1>0, <1>4, <1>5, <1>6 DEF Look

LEMMA CreateAsks ==
  ASSUME Good, Good', MatchInv, Grows, NEW p \in Planners, Create(p)
  PROVE  WritesWhatWasAsked(p)'
<1>0. PICK r : r = job[p].request
  OBVIOUS
<1> DEFINE ids == job[p].ids
<1>1. p \in Processes /\ job[p] \in Jobs
  BY DEF Processes, Good, TypeOK
<1>2. AllThere(r) /\ ids = IncrementIds(r)
  BY <1>0 DEF MatchInv, WritesWhatWasAsked, Create, At
<1>3. AllThere(r)' /\ IncrementIds(r)' = IncrementIds(r)
  BY <1>2, AllThereStays
<1>4. PICK i \in Ids :
        /\ issue' = [issue EXCEPT ![i] = NewIssue(r)]
        /\ Becomes(p, [job[p] EXCEPT !.step = "write", !.item = i, !.todo = Everything(ids)])
  BY <1>0 DEF Create
<1>5. /\ job'[p].step = "write" /\ job'[p].item = i /\ job'[p].request = r
      /\ job'[p].ids = ids /\ job'[p].todo = Everything(ids)
  <2>1. job'[p] = [job[p] EXCEPT !.step = "write", !.item = i, !.todo = Everything(ids)]
    BY <1>1, <1>4, MovesOne
  <2> QED
    BY <1>0, <1>1, <2>1 DEF Jobs
<1>6. issue'[i].text = r.text /\ issue'[i].preds = {}
  BY <1>4 DEF Good, TypeOK, NewIssue, NoIssue
<1>7. job'[p].todo.parent /\ job'[p].todo.preds = ids
  BY <1>5 DEF Everything
<1> QED
  BY <1>2, <1>3, <1>5, <1>6, <1>7 DEF WritesWhatWasAsked, At

LEMMA FetchAsks ==
  ASSUME Good, Good', MatchInv, NEW p \in Planners, Fetch(p)
  PROVE  WritesWhatWasAsked(p)'
<1>0. PICK r : r = job[p].request
  OBVIOUS
<1> DEFINE ids == job[p].ids
           i == job[p].item
<1>1. p \in Processes /\ UNCHANGED issue /\ job[p] \in Jobs
  BY DEF Processes, Fetch, Reads, Good, TypeOK
<1>2. AllThere(r) /\ ids = IncrementIds(r) /\ Finishes(i, r, ids)
  BY <1>0 DEF MatchInv, WritesWhatWasAsked, Fetch, At
<1>3. AllThere(r)' /\ IncrementIds(r)' = IncrementIds(r)
  BY <1>1, <1>2, AllThereStays, ReadsGrow
<1>4. CASE Becomes(p, Idle)
  BY <1>1, <1>4, MovesOne DEF WritesWhatWasAsked, Idle, At
<1>5. CASE Becomes(p, [job[p] EXCEPT !.step = "write", !.todo = Todo(i, r, ids)])
  <2>1. job'[p] = [job[p] EXCEPT !.step = "write", !.todo = Todo(i, r, ids)]
    BY <1>1, <1>5, MovesOne
  <2>2. /\ job'[p].step = "write" /\ job'[p].item = i /\ job'[p].request = r
        /\ job'[p].ids = ids /\ job'[p].todo = Todo(i, r, ids)
    BY <1>0, <1>1, <2>1 DEF Jobs
  <2>3. /\ issue[i].text = r.text
        /\ Todo(i, r, ids).parent \/ issue[i].parent = r.parent
        /\ issue[i].preds \cup Todo(i, r, ids).preds = ids
    BY <1>2 DEF Finishes, Todo
  <2> QED
    BY <1>1, <1>2, <1>3, <2>2, <2>3 DEF WritesWhatWasAsked, At
<1> QED
  BY <1>0, <1>4, <1>5 DEF Fetch

(* A write leaves out what it has written, or writes no link.              *)
LEMMA WriteAsks ==
  ASSUME Good, Good', MatchInv, Grows, NEW p \in Planners, At(p, "write"),
         NEW x, issue' = [issue EXCEPT ![job[p].item] = x],
         NEW left, Becomes(p, [job[p] EXCEPT !.todo = left]),
         x.text = issue[job[p].item].text,
         job[p].todo.parent /\ ~ left.parent => x.parent = job[p].request.parent,
         ~ job[p].todo.parent => x.parent = issue[job[p].item].parent,
         x.preds \cup left.preds = issue[job[p].item].preds \cup job[p].todo.preds
  PROVE  WritesWhatWasAsked(p)'
<1>0. PICK r : r = job[p].request
  OBVIOUS
<1> DEFINE ids == job[p].ids
           i == job[p].item
<1>1. p \in Processes /\ job[p] \in Jobs /\ i \in Ids
  BY ItemIsKnown DEF Processes, Good, TypeOK, At, BeforeAnItem
<1>2. /\ AllThere(r) /\ ids = IncrementIds(r) /\ issue[i].text = r.text
      /\ job[p].todo.parent \/ issue[i].parent = r.parent
      /\ issue[i].preds \cup job[p].todo.preds = ids
  BY <1>0 DEF MatchInv, WritesWhatWasAsked, At
<1>3. AllThere(r)' /\ IncrementIds(r)' = IncrementIds(r)
  BY <1>2, AllThereStays
<1>4. /\ job'[p].step = "write" /\ job'[p].item = i /\ job'[p].request = r
      /\ job'[p].ids = ids /\ job'[p].todo = left
  <2>1. job'[p] = [job[p] EXCEPT !.todo = left]
    BY <1>1, MovesOne
  <2> QED
    BY <1>0, <1>1, <2>1 DEF Jobs, At
<1>5. issue'[i] = x
  BY <1>1 DEF Good, TypeOK
<1>6. left.parent \/ x.parent = r.parent
  BY <1>0, <1>2
<1>7. x.text = r.text /\ x.preds \cup left.preds = ids
  BY <1>2
<1> QED
  BY <1>2, <1>3, <1>4, <1>5, <1>6, <1>7 DEF WritesWhatWasAsked, At

LEMMA LinkAsks ==
  ASSUME Good, Good', MatchInv, Grows, NEW p \in Planners,
         LinkParent(p) \/ LinkPredecessor(p) \/ AddToProject(p) \/ SetQueued(p)
  PROVE  WritesWhatWasAsked(p)'
<1> DEFINE i == job[p].item
           todo == job[p].todo
<1>1. p \in Processes /\ At(p, "write") /\ i \in Ids
  BY ItemIsKnown DEF LinkParent, LinkPredecessor, AddToProject, SetQueued, Linked, Processes,
                     At, BeforeAnItem
<1>2. issue[i] \in Issues /\ job[p] \in Jobs
  BY <1>1 DEF Good, TypeOK
<1>3. CASE LinkParent(p)
  <2>1. CASE issue[i].parent = "none"
    <3> DEFINE x == [issue[i] EXCEPT !.parent = job[p].request.parent]
               left == [todo EXCEPT !.parent = FALSE]
    <3>1. issue' = [issue EXCEPT ![i] = x] /\ Becomes(p, [job[p] EXCEPT !.todo = left])
      BY <1>1, <1>2, <1>3, <2>1 DEF LinkParent, Becomes, Jobs
    <3>2. /\ x.text = issue[i].text /\ x.parent = job[p].request.parent
          /\ x.preds = issue[i].preds /\ left.preds = todo.preds /\ todo.parent
      BY <1>2, <1>3 DEF Issues, Jobs, LinkParent
    <3> HIDE DEF x, left
    <3> QED
      BY <1>1, <3>1, <3>2, WriteAsks
  <2>2. CASE issue[i].parent # "none"
    <3>1. job'[p] = Idle
      BY <1>1, <1>3, <2>2, MovesOne DEF LinkParent
    <3> QED
      BY <3>1 DEF WritesWhatWasAsked, Idle, At
  <2> QED
    BY <2>1, <2>2
<1>4. CASE LinkPredecessor(p)
  <2>1. PICK d \in todo.preds :
          /\ issue' = [issue EXCEPT ![i].preds = @ \cup {d}]
          /\ Becomes(p, [job[p] EXCEPT !.todo.preds = @ \ {d}])
    BY <1>4 DEF LinkPredecessor
  <2> DEFINE x == [issue[i] EXCEPT !.preds = @ \cup {d}]
             left == [todo EXCEPT !.preds = @ \ {d}]
  <2>2. issue' = [issue EXCEPT ![i] = x] /\ Becomes(p, [job[p] EXCEPT !.todo = left])
    BY <1>1, <1>2, <2>1 DEF Becomes, Jobs
  <2>3. /\ x.text = issue[i].text /\ x.parent = issue[i].parent
        /\ x.preds = issue[i].preds \cup {d} /\ left.preds = todo.preds \ {d}
        /\ ~ todo.parent
    BY <1>2, <1>4 DEF Issues, Jobs, LinkPredecessor
  <2>4. x.preds \cup left.preds = issue[i].preds \cup todo.preds
    BY <2>3
  <2> HIDE DEF x, left
  <2> QED
    BY <1>1, <2>2, <2>3, <2>4, WriteAsks
<1>5. CASE AddToProject(p)
  <2> DEFINE x == [issue[i] EXCEPT !.on_project = TRUE]
             left == [todo EXCEPT !.project = FALSE]
  <2>1. issue' = [issue EXCEPT ![i] = x] /\ Becomes(p, [job[p] EXCEPT !.todo = left])
    BY <1>1, <1>2, <1>5 DEF AddToProject, Becomes, Jobs
  <2>2. /\ x.text = issue[i].text /\ x.parent = issue[i].parent
        /\ x.preds = issue[i].preds /\ left.preds = todo.preds /\ ~ todo.parent
    BY <1>2, <1>5 DEF Issues, Jobs, AddToProject, Linked
  <2> HIDE DEF x, left
  <2> QED
    BY <1>1, <2>1, <2>2, WriteAsks
<1>6. CASE SetQueued(p)
  <2> DEFINE x == [issue[i] EXCEPT !.status = "queued"]
             left == [todo EXCEPT !.status = FALSE]
  <2>1. issue' = [issue EXCEPT ![i] = x] /\ Becomes(p, [job[p] EXCEPT !.todo = left])
    BY <1>1, <1>2, <1>6 DEF SetQueued, Becomes, Jobs
  <2>2. /\ x.text = issue[i].text /\ x.parent = issue[i].parent
        /\ x.preds = issue[i].preds /\ left.preds = todo.preds /\ ~ todo.parent
    BY <1>2, <1>6 DEF Issues, Jobs, SetQueued, Linked
  <2> HIDE DEF x, left
  <2> QED
    BY <1>1, <2>1, <2>2, WriteAsks
<1> QED
  BY <1>3, <1>4, <1>5, <1>6

(* Every other step of a call leaves the writing steps, or is none.        *)
LEMMA ElsewhereAsks ==
  ASSUME Good, NEW p \in Planners,
         \/ Commit(p) \/ ReadBack(p) \/ LookUp(p) \/ Recheck(p)
         \/ SetStateRead(p) \/ SetStateWrite(p) \/ Crash(p)
         \/ \E o \in Origins : Withdraw(p, o)
  PROVE  WritesWhatWasAsked(p)'
<1> DEFINE Out == {"idle", "returned", "read_back", "look_up", "recheck", "set_read",
                   "set_write", "tag"}
<1>1. p \in Processes /\ job[p] \in Jobs
  BY DEF Processes, Good, TypeOK
<1>2. ASSUME NEW j, j.step \in Out, Becomes(p, j)
      PROVE  WritesWhatWasAsked(p)'
  BY <1>1, <1>2, MovesOne DEF WritesWhatWasAsked, At
<1>3. Idle.step \in Out /\ \A i : Returned(i).step \in Out
  BY DEF Idle, Returned
<1>4. \A s \in {"read_back", "set_write", "tag"} : [job[p] EXCEPT !.step = s].step \in Out
  BY <1>1 DEF Jobs
<1>5. AfterSet(p).step \in Out
  BY <1>3, <1>4 DEF AfterSet
<1> HIDE DEF Out
<1>6. CASE Commit(p) \/ ReadBack(p) \/ Crash(p)
  BY <1>2, <1>3, <1>4, <1>6 DEF Commit, Goes, ReadBack, Crash
<1>7. CASE SetStateRead(p) \/ SetStateWrite(p)
  BY <1>2, <1>3, <1>4, <1>5, <1>7 DEF SetStateRead, SetStateWrite, Goes
<1>8. CASE LookUp(p)
  <2>1. \A i : [Idle EXCEPT !.step = "recheck", !.item = i].step \in Out
    BY DEF Idle, Out
  <2> QED
    BY <1>2, <1>3, <1>8, <2>1 DEF LookUp
<1>9. CASE Recheck(p)
  <2>1. [job[p] EXCEPT !.step = "set_read", !.goal = "withdrawn"].step \in Out
    BY <1>1 DEF Jobs, Out
  <2> QED
    BY <1>2, <1>3, <1>9, <2>1 DEF Recheck
<1>10. CASE \E o \in Origins : Withdraw(p, o)
  <2>1. \A o : [Idle EXCEPT !.step = "look_up", !.request = Withdrawal(o)].step \in Out
    BY DEF Idle, Out
  <2> QED
    BY <1>2, <1>10, <2>1 DEF Withdraw
<1> QED
  BY <1>6, <1>7, <1>8, <1>9, <1>10

-----------------------------------------------------------------------------

(* What a planner's step is.                                               *)
PlannerMoves(p) ==
  \/ PlannerStep(p) \/ Crash(p)
  \/ \E r \in Requests[p] : Queue(p, r) \/ Withdraw(p, r.origin)

OthersMove ==
  \/ TickStep \/ Crash("tick") \/ UNCHANGED <<issue, job>>
  \/ \E i \in Ids : \/ WorkflowSetsStatus(i) \/ PullRequestCloses(i)
                    \/ PersonCloses(i) \/ PersonDrags(i)

LEMMA PlannerOrOther ==
  [Next]_vars => OthersMove \/ \E p \in Planners : PlannerMoves(p)
BY DEF Next, Calls, Environment, Processes, vars, PlannerMoves, OthersMove

LEMMA MoveOfOne ==
  /\ \A p \in Planners : PlannerMoves(p) => p \in Processes /\ \E j : Becomes(p, j)
  /\ OthersMove => (\E j : Becomes("tick", j)) \/ UNCHANGED job
<1>1. ASSUME NEW p \in Planners, PlannerMoves(p)
      PROVE  p \in Processes /\ \E j : Becomes(p, j)
  <2>1. CASE PlannerStep(p)
    BY <2>1 DEF PlannerStep, Look, Create, Fetch, LinkParent, LinkPredecessor, AddToProject,
                SetQueued, Commit, ReadBack, LookUp, Recheck, SetStateRead, SetStateWrite,
                Goes, Processes
  <2>2. CASE ~ PlannerStep(p)
    BY <1>1, <2>2 DEF PlannerMoves, Crash, Queue, Withdraw, Processes
  <2> QED
    BY <2>1, <2>2
<1>2. ASSUME OthersMove
      PROVE  (\E j : Becomes("tick", j)) \/ UNCHANGED job
  BY <1>2 DEF OthersMove, TickStep, Claim, Requeue, SetStateRead, SetStateWrite, MarkClaim, Goes,
              Crash, WorkflowSetsStatus, PullRequestCloses, PersonCloses, PersonDrags, Moved
<1> QED
  BY <1>1, <1>2

LEMMA NextLinks ==
  ASSUME Good, BoardInv, [Next]_vars
  PROVE  Links
<1>1. ASSUME NEW p \in Planners, PlannerMoves(p)
      PROVE  Links
  <2>0. p \in Processes
    BY DEF Processes
  <2>1. CASE \/ Create(p) \/ LinkParent(p) \/ LinkPredecessor(p)
             \/ AddToProject(p) \/ SetQueued(p) \/ Commit(p)
    BY <2>1, PlannerLinks
  <2>2. CASE SetStateRead(p) \/ SetStateWrite(p)
    BY <2>0, <2>2, StateLinks
  <2>3. CASE UNCHANGED issue
    BY <2>3, ReadsLink
  <2> QED
    BY <1>1, <2>1, <2>2, <2>3
    DEF PlannerMoves, PlannerStep, Look, Fetch, ReadBack, LookUp, Recheck, Crash, Queue,
        Withdraw, Reads
<1>2. ASSUME OthersMove
      PROVE  Links
  <2>0. "tick" \in Processes
    BY DEF Processes
  <2>1. CASE SetStateRead("tick") \/ SetStateWrite("tick")
    BY <2>0, <2>1, StateLinks
  <2>2. CASE MarkClaim \/ Environment
    BY <2>2, OthersLink
  <2>3. CASE UNCHANGED issue
    BY <2>3, ReadsLink
  <2> QED
    BY <1>2, <2>0, <2>1, <2>2, <2>3 DEF OthersMove, TickStep, Claim, Requeue, Reads, Environment
<1> QED
  BY <1>1, <1>2, PlannerOrOther

LEMMA PlannerKeepsMatchInv ==
  ASSUME Good, Good', BoardInv, MatchInv, Grows, Links, NEW p \in Planners, PlannerMoves(p)
  PROVE  MatchInv'
<1>1. p \in Processes /\ \E j : Becomes(p, j)
  BY MoveOfOne
<1>2. \A v \in Processes \ {p} : job'[v] = job[v]
  BY <1>1, MovesOne
<1>3. WritesWhatWasAsked(p)'
  <2>1. CASE Look(p) \/ Create(p) \/ Fetch(p)
    BY <2>1, LookAsks, CreateAsks, FetchAsks
  <2>2. CASE LinkParent(p) \/ LinkPredecessor(p) \/ AddToProject(p) \/ SetQueued(p)
    BY <2>2, LinkAsks
  <2>3. CASE \/ Commit(p) \/ ReadBack(p) \/ LookUp(p) \/ Recheck(p)
             \/ SetStateRead(p) \/ SetStateWrite(p) \/ Crash(p)
    BY <2>3, ElsewhereAsks
  <2>4. ASSUME NEW r \in Requests[p], Queue(p, r)
        PROVE  WritesWhatWasAsked(p)'
    BY <2>4, QueueAsks
  <2>5. ASSUME NEW r \in Requests[p], Withdraw(p, r.origin)
        PROVE  WritesWhatWasAsked(p)'
    <3>1. r.origin \in Origins
      BY DEF Origins, Every
    <3> QED
      BY <2>5, <3>1, ElsewhereAsks
  <2> QED
    BY <2>1, <2>2, <2>3, <2>4, <2>5 DEF PlannerMoves, PlannerStep
<1> QED
  BY <1>1, <1>2, <1>3, StepKeepsMatchInv

LEMMA OthersKeepMatchInv ==
  ASSUME Good, Good', BoardInv, MatchInv, Grows, Links, OthersMove
  PROVE  MatchInv'
<1>1. "tick" \in Processes /\ "tick" \notin Planners
  BY PlannersAssumption DEF Processes
<1>2. \A v \in Processes \ {"tick"} : job'[v] = job[v]
  BY <1>1, MoveOfOne, MovesOne
<1> QED
  BY <1>1, <1>2, StepKeepsMatchInv

LEMMA MatchInvHolds == Spec => [](Good /\ BoardInv /\ MatchInv)
<1>1. Init => MatchInv
  BY DEF Init, MatchInv, NoIssue, Idle, WritesWhatWasAsked, At, Processes
<1>2. ASSUME Good, Good', BoardInv, MatchInv, [Next]_vars
      PROVE  MatchInv'
  BY <1>2, NextKeepsBoardInv, NextLinks, PlannerOrOther, PlannerKeepsMatchInv, OthersKeepMatchInv
<1> QED
  BY <1>1, <1>2, BoardInvHolds, PTL DEF Spec

(* check_queue_finishes: whatever crashes, retries and two requests for    *)
(* one Origin leave behind, a committed increment has the text, the parent *)
(* and the predecessors of one request, never the links of two mixed.      *)
THEOREM IncrementsAreOneRequest == Spec => []CommittedIsOneRequest
<1>1. Good /\ MatchInv => CommittedIsOneRequest
  BY DEF MatchInv, AsAsked, CommittedIsOneRequest, Requested, Known
<1> QED
  BY <1>1, MatchInvHolds, PTL

-----------------------------------------------------------------------------
(* An id is returned for what was asked for.                               *)

(* A planner that reads its item back committed it as it was asked.        *)
ReadsBackWhatWasAsked(p) ==
  At(p, "read_back") =>
    /\ issue[job[p].item].committed
    /\ Matches(job[p].item, job[p].request, job[p].ids)

ReturnInv == \A p \in Planners : ReadsBackWhatWasAsked(p)

LEMMA CommittedAsWritten ==
  ASSUME Good, Good', MatchInv, NEW p \in Planners, Commit(p)
  PROVE  ReadsBackWhatWasAsked(p)'
<1> DEFINE i == job[p].item
           r == job[p].request
<1>1. /\ p \in Processes /\ job[p] \in Jobs /\ i \in Ids /\ issue[i] \in Issues
      /\ At(p, "write") /\ job[p].todo = Nothing
      /\ issue' = [issue EXCEPT ![i].committed = TRUE] /\ Goes(p, "read_back")
  BY ItemIsKnown DEF Commit, At, Processes, BeforeAnItem, Good, TypeOK
<1>2. issue[i].text = r.text /\ issue[i].parent = r.parent /\ issue[i].preds = job[p].ids
  <2>1. WritesWhatWasAsked(p)
    BY DEF MatchInv
  <2>2. ~ job[p].todo.parent /\ job[p].todo.preds = {}
    BY <1>1 DEF Nothing
  <2> QED
    BY <1>1, <2>1, <2>2 DEF WritesWhatWasAsked
<1>3. job'[p].item = i /\ job'[p].request = r /\ job'[p].ids = job[p].ids
  <2>1. job'[p] = [job[p] EXCEPT !.step = "read_back"]
    BY <1>1, MovesOne DEF Goes
  <2> QED
    BY <1>1, <2>1 DEF Jobs
<1>4. /\ issue'[i].committed /\ issue'[i].text = issue[i].text
      /\ issue'[i].parent = issue[i].parent /\ issue'[i].preds = issue[i].preds
  BY <1>1 DEF Good, TypeOK, Issues
<1> QED
  BY <1>2, <1>3, <1>4 DEF ReadsBackWhatWasAsked, Matches

LEMMA ReadBackStands ==
  ASSUME Good, Grows, Links, NEW p \in Planners, ReadsBackWhatWasAsked(p), job'[p] = job[p]
  PROVE  ReadsBackWhatWasAsked(p)'
<1> SUFFICES ASSUME At(p, "read_back")
             PROVE  /\ issue'[job[p].item].committed
                    /\ Matches(job[p].item, job[p].request, job[p].ids)'
  BY DEF ReadsBackWhatWasAsked, At
<1> DEFINE i == job[p].item
<1>1. i \in Ids /\ issue[i].origin # "none"
  BY ItemIsKnown DEF At, Processes, BeforeAnItem, Good, OriginInv, OriginFromTheStart
<1>2. issue[i].committed /\ Matches(i, job[p].request, job[p].ids)
  BY DEF ReadsBackWhatWasAsked
<1>3. GrowsTo(i, issue'[i]) /\ LinksTo(i, issue'[i])
  BY <1>1 DEF Grows, Links
<1> QED
  BY <1>1, <1>2, <1>3 DEF GrowsTo, LinksTo, Matches

(* A planner comes to read back by its commit only, and returns from there *)
(* or from its look.                                                       *)
LEMMA HowACallEnds ==
  ASSUME Good, NEW p \in Planners, PlannerMoves(p),
         NEW end \in {"read_back", "returned"}, job'[p].step = end
  PROVE  \/ end = "read_back" /\ Commit(p)
         \/ end = "returned" /\ (Look(p) \/ ReadBack(p))
<1>1. p \in Processes /\ job[p] \in Jobs
  BY DEF Processes, Good, TypeOK
<1>2. ASSUME NEW j, Becomes(p, j), j.step # end
      PROVE  FALSE
  BY <1>1, <1>2, MovesOne
<1>3. /\ ~ Becomes(p, Idle)
      /\ end = "read_back" => \A i : ~ Becomes(p, Returned(i))
      /\ \A i : ~ Becomes(p, [Idle EXCEPT !.step = "recheck", !.item = i])
      /\ \A r, ids : ~ Becomes(p, [Idle EXCEPT !.step = "look", !.request = r, !.ids = ids])
      /\ \A r : ~ Becomes(p, [Idle EXCEPT !.step = "look_up", !.request = r])
  <2>1. Idle.step = "idle" /\ \A i : Returned(i).step = "returned"
    BY DEF Idle, Returned
  <2>2. ~ Becomes(p, Idle) /\ (end = "read_back" => \A i : ~ Becomes(p, Returned(i)))
    BY <1>2, <2>1
  <2>3. ASSUME NEW i PROVE ~ Becomes(p, [Idle EXCEPT !.step = "recheck", !.item = i])
    <3>1. [Idle EXCEPT !.step = "recheck", !.item = i].step = "recheck"
      BY DEF Idle
    <3> QED
      BY <1>2, <3>1
  <2>4. ASSUME NEW r, NEW ids
        PROVE  ~ Becomes(p, [Idle EXCEPT !.step = "look", !.request = r, !.ids = ids])
    <3>1. [Idle EXCEPT !.step = "look", !.request = r, !.ids = ids].step = "look"
      BY DEF Idle
    <3> QED
      BY <1>2, <3>1
  <2>5. ASSUME NEW r PROVE ~ Becomes(p, [Idle EXCEPT !.step = "look_up", !.request = r])
    <3>1. [Idle EXCEPT !.step = "look_up", !.request = r].step = "look_up"
      BY DEF Idle
    <3> QED
      BY <1>2, <3>1
  <2> QED
    BY <2>2, <2>3, <2>4, <2>5
<1>4. \A step : step # end =>
        /\ ~ Goes(p, step)
        /\ \A i : ~ Becomes(p, [job[p] EXCEPT !.step = step, !.item = i])
        /\ \A goal : ~ Becomes(p, [job[p] EXCEPT !.step = step, !.goal = goal])
        /\ \A todo : ~ Becomes(p, [job[p] EXCEPT !.step = step, !.todo = todo])
        /\ \A i, todo : ~ Becomes(p, [job[p] EXCEPT !.step = step, !.item = i, !.todo = todo])
  <2> SUFFICES ASSUME NEW step, step # end
               PROVE  /\ ~ Goes(p, step)
                      /\ \A i : ~ Becomes(p, [job[p] EXCEPT !.step = step, !.item = i])
                      /\ \A goal : ~ Becomes(p, [job[p] EXCEPT !.step = step, !.goal = goal])
                      /\ \A todo : ~ Becomes(p, [job[p] EXCEPT !.step = step, !.todo = todo])
                      /\ \A i, todo :
                           ~ Becomes(p, [job[p] EXCEPT !.step = step, !.item = i, !.todo = todo])
    OBVIOUS
  <2>1. ~ Goes(p, step)
    <3>1. [job[p] EXCEPT !.step = step].step # end
      BY <1>1 DEF Jobs
    <3> QED
      BY <1>2, <3>1 DEF Goes
  <2>2. ASSUME NEW i PROVE ~ Becomes(p, [job[p] EXCEPT !.step = step, !.item = i])
    <3>1. [job[p] EXCEPT !.step = step, !.item = i].step # end
      BY <1>1 DEF Jobs
    <3> QED
      BY <1>2, <3>1
  <2>3. ASSUME NEW goal PROVE ~ Becomes(p, [job[p] EXCEPT !.step = step, !.goal = goal])
    <3>1. [job[p] EXCEPT !.step = step, !.goal = goal].step # end
      BY <1>1 DEF Jobs
    <3> QED
      BY <1>2, <3>1
  <2>4. ASSUME NEW todo PROVE ~ Becomes(p, [job[p] EXCEPT !.step = step, !.todo = todo])
    <3>1. [job[p] EXCEPT !.step = step, !.todo = todo].step # end
      BY <1>1 DEF Jobs
    <3> QED
      BY <1>2, <3>1
  <2>5. ASSUME NEW i, NEW todo
        PROVE  ~ Becomes(p, [job[p] EXCEPT !.step = step, !.item = i, !.todo = todo])
    <3>1. [job[p] EXCEPT !.step = step, !.item = i, !.todo = todo].step # end
      BY <1>1 DEF Jobs
    <3> QED
      BY <1>2, <3>1
  <2> QED
    BY <2>1, <2>2, <2>3, <2>4, <2>5
<1>5. \A todo : At(p, "write") =>
        /\ ~ Becomes(p, [job[p] EXCEPT !.todo.parent = todo])
        /\ ~ Becomes(p, [job[p] EXCEPT !.todo.preds = todo])
        /\ ~ Becomes(p, [job[p] EXCEPT !.todo.project = todo])
        /\ ~ Becomes(p, [job[p] EXCEPT !.todo.status = todo])
  <2>1. ASSUME NEW todo, At(p, "write") PROVE [job[p] EXCEPT !.todo = todo].step # end
    BY <1>1, <2>1 DEF Jobs, At
  <2> QED
    BY <1>2, <2>1
<1>6. end = "read_back" => ~ Look(p)
  <2> HAVE end = "read_back"
  <2>1. \A i : Answer(p, i) \in {Idle, Returned(i), [job[p] EXCEPT !.step = "fetch", !.item = i]}
    BY DEF Answer
  <2>2. ASSUME NEW i PROVE ~ Becomes(p, Answer(p, i))
    <3>1. ~ Becomes(p, [job[p] EXCEPT !.step = "fetch", !.item = i])
      BY <1>4
    <3> QED
      BY <1>3, <2>1, <3>1, Zenon
  <2> QED
    BY <1>3, <1>4, <2>2 DEF Look
<1>7. ~ Create(p) /\ ~ Fetch(p)
  BY <1>3, <1>4 DEF Create, Fetch
<1>8. ~ LinkParent(p) /\ ~ LinkPredecessor(p) /\ ~ AddToProject(p) /\ ~ SetQueued(p)
  BY <1>3, <1>5 DEF LinkParent, LinkPredecessor, AddToProject, SetQueued, Linked
<1>9. /\ end = "read_back" => ~ ReadBack(p)
      /\ ~ LookUp(p) /\ ~ Recheck(p) /\ ~ Crash(p)
  BY <1>3, <1>4 DEF ReadBack, LookUp, Recheck, Crash
<1>10. ~ SetStateRead(p) /\ ~ SetStateWrite(p)
  <2>1. ~ Becomes(p, AfterSet(p))
    BY <1>3, <1>4 DEF AfterSet, Goes
  <2> QED
    BY <1>3, <1>4, <2>1 DEF SetStateRead, SetStateWrite
<1>11. \A r \in Requests[p] : ~ Queue(p, r) /\ ~ Withdraw(p, r.origin)
  BY <1>3 DEF Queue, Withdraw
<1>12. end = "returned" => ~ Commit(p)
  BY <1>4 DEF Commit
<1> QED
  BY <1>6, <1>7, <1>8, <1>9, <1>10, <1>11, <1>12 DEF PlannerMoves, PlannerStep

LEMMA ReturnInvHolds == Spec => [](Good /\ BoardInv /\ MatchInv /\ ReturnInv)
<1>1. Init => ReturnInv
  BY DEF Init, Idle, ReturnInv, ReadsBackWhatWasAsked, At, Processes
<1>2. ASSUME Good, Good', BoardInv, MatchInv, ReturnInv, [Next]_vars, NEW p \in Planners
      PROVE  ReadsBackWhatWasAsked(p)'
  <2>0. Grows /\ Links /\ ReadsBackWhatWasAsked(p) /\ p \in Processes /\ p # "tick"
    BY <1>2, NextKeepsBoardInv, NextLinks, PlannersAssumption DEF ReturnInv, Processes
  <2>1. CASE job'[p] = job[p]
    BY <1>2, <2>0, <2>1, ReadBackStands
  <2>2. CASE PlannerMoves(p) /\ job'[p] # job[p]
    <3>1. CASE job'[p].step = "read_back"
      BY <1>2, <2>2, <3>1, HowACallEnds, CommittedAsWritten
    <3>2. CASE job'[p].step # "read_back"
      BY <3>2 DEF ReadsBackWhatWasAsked, At
    <3> QED
      BY <3>1, <3>2
  <2>3. ASSUME NEW q \in Planners, PlannerMoves(q), q # p
        PROVE  job'[p] = job[p]
    BY <1>2, <2>0, <2>3, MoveOfOne, MovesOne
  <2>4. ASSUME OthersMove
        PROVE  job'[p] = job[p]
    <3>1. "tick" \in Processes
      BY DEF Processes
    <3> QED
      BY <1>2, <2>0, <2>4, <3>1, MoveOfOne, MovesOne
  <2> QED
    BY <1>2, <2>1, <2>2, <2>3, <2>4, PlannerOrOther
<1>3. Good /\ Good' /\ BoardInv /\ MatchInv /\ ReturnInv /\ [Next]_vars => ReturnInv'
  BY <1>2 DEF ReturnInv
<1> QED
  BY <1>1, <1>3, MatchInvHolds, PTL DEF Spec

(* queue_increment: an id is returned only for an increment that has the   *)
(* marker, and the text, the parent and the predecessors of the request,   *)
(* created, finished or found, through any race with the tick, with people *)
(* and with other planners, and after any crash.                           *)
THEOREM ReturnsWhatWasAsked == Spec => ReturnedIsWhatWasAsked
<1>1. ASSUME Good, ReturnInv, [Next]_vars, NEW p \in Planners,
             job'[p].step = "returned", job'[p] # job[p]
      PROVE  /\ issue[job'[p].item].committed
             /\ Matches(job'[p].item, job[p].request, job[p].ids)
  <2>0. p \in Processes /\ p # "tick" /\ "tick" \in Processes
    BY PlannersAssumption DEF Processes
  <2>1. PlannerMoves(p)
    BY <1>1, <2>0, PlannerOrOther, MoveOfOne, MovesOne
  <2>2. \A i : Returned(i).step = "returned" /\ Returned(i).item = i
    BY DEF Returned, Idle
  <2>3. CASE ReadBack(p)
    <3>1. job'[p] \in {Returned(job[p].item), Idle} /\ At(p, "read_back")
      BY <1>1, <2>0, <2>3, MovesOne DEF ReadBack
    <3>2. job'[p].item = job[p].item
      BY <1>1, <2>2, <3>1 DEF Idle
    <3> QED
      BY <1>1, <3>1, <3>2 DEF ReturnInv, ReadsBackWhatWasAsked
  <2>4. CASE Look(p)
    <3>1. PICK i \in Carrying(job[p].request.origin) : job'[p] = Answer(p, i)
      <4>1. job'[p] # Idle
        BY <1>1 DEF Idle
      <4>2. ~ Goes(p, "create")
        <5>1. [job[p] EXCEPT !.step = "create"].step = "create"
          BY <1>1, <2>0 DEF Good, TypeOK, Jobs
        <5> QED
          BY <1>1, <2>0, <5>1, MovesOne DEF Goes
      <4> QED
        BY <1>1, <2>0, <2>4, <4>1, <4>2, MovesOne DEF Look
    <3>2. Answer(p, i) # Idle /\ Answer(p, i) # [job[p] EXCEPT !.step = "fetch", !.item = i]
      <4>1. [job[p] EXCEPT !.step = "fetch", !.item = i].step = "fetch"
        BY <1>1, <2>0 DEF Good, TypeOK, Jobs
      <4>2. Idle.step = "idle" /\ Answer(p, i).step = "returned"
        BY <1>1, <3>1 DEF Idle
      <4> QED
        BY <4>1, <4>2
    <3>3. /\ ~ Partial(i) /\ Matches(i, job[p].request, job[p].ids)
          /\ Answer(p, i) = Returned(i)
      BY <3>2 DEF Answer
    <3> QED
      BY <2>2, <3>1, <3>3 DEF Carrying, Known, Partial
  <2> QED
    BY <1>1, <2>1, <2>3, <2>4, HowACallEnds
<1>2. Good /\ ReturnInv /\ [Next]_vars =>
        [\A p \in Planners :
           job'[p].step = "returned" /\ job'[p] # job[p] =>
             /\ issue[job'[p].item].committed
             /\ Matches(job'[p].item, job[p].request, job[p].ids)]_vars
  BY <1>1
<1> QED
  BY <1>2, ReturnInvHolds, PTL DEF Spec, ReturnedIsWhatWasAsked

-----------------------------------------------------------------------------
(* A verdict on a request outlives what is queued after it.                *)

(* Links go to issues that exist, so no issue is linked before it does.    *)
LinksNameItems == \A i \in Ids : issue[i].preds \subseteq Known

LEMMA KnownGrows ==
  ASSUME Good, Grows
  PROVE  /\ Known \subseteq Known'
         /\ \A k \in Known : issue'[k].origin = issue[k].origin
<1> SUFFICES ASSUME NEW k \in Known
             PROVE  k \in Known' /\ issue'[k].origin = issue[k].origin
  OBVIOUS
<1>1. k \in Ids /\ issue[k].origin # "none"
  BY DEF Good, OriginInv, OriginFromTheStart, Known
<1>2. issue'[k].origin = issue[k].origin
  BY <1>1 DEF Grows, GrowsTo
<1> QED
  BY <1>1, <1>2 DEF Known, Exists, NoIssue

(* The one step that links an issue to another.                            *)
LEMMA OnlyLinkPredecessorLinks ==
  ASSUME Good, BoardInv, [Next]_vars, NEW i \in Ids, issue'[i].preds # issue[i].preds
  PROVE  \E p \in Planners : LinkPredecessor(p) /\ i = job[p].item
<1>1. PICK p \in Planners : At(p, "write") /\ job[p].item = i /\ job'[p] # job[p]
  BY NextLinks DEF Links, LinksTo
<1>2. p \in Processes /\ "tick" \in Processes /\ p # "tick" /\ issue[i] \in Issues
  BY PlannersAssumption DEF Processes, Good, TypeOK
<1>3. PlannerMoves(p)
  BY <1>1, <1>2, PlannerOrOther, MoveOfOne, MovesOne
<1>4. CASE LinkParent(p) \/ AddToProject(p) \/ SetQueued(p) \/ Commit(p)
  BY <1>1, <1>2, <1>4 DEF LinkParent, AddToProject, SetQueued, Commit, Issues, Good, TypeOK
<1>5. ~ Resting(p) /\ \A step \in Steps \ {"write"} : ~ At(p, step)
  BY <1>1 DEF At, Resting
<1>6. CASE Crash(p)
  BY <1>6 DEF Crash
<1> QED
  BY <1>1, <1>3, <1>4, <1>5, <1>6
  DEF PlannerMoves, PlannerStep, Queue, Withdraw, Look, Create, Fetch, ReadBack, LookUp, Recheck,
      SetStateRead, SetStateWrite, Steps

LEMMA LinksNameItemsHolds == Spec => [](Good /\ BoardInv /\ LinksNameItems)
<1>1. Init => LinksNameItems
  BY DEF Init, NoIssue, LinksNameItems
<1>2. ASSUME Good, Good', BoardInv, MatchInv, LinksNameItems, [Next]_vars, NEW i \in Ids
      PROVE  issue'[i].preds \subseteq Known'
  <2>1. Known \subseteq Known'
    BY <1>2, NextKeepsBoardInv, KnownGrows
  <2>2. CASE issue'[i].preds = issue[i].preds
    BY <1>2, <2>1, <2>2 DEF LinksNameItems
  <2>3. ASSUME NEW p \in Planners, LinkPredecessor(p), i = job[p].item
        PROVE  issue'[i].preds \subseteq Known'
    <3>1. PICK d \in job[p].todo.preds : issue' = [issue EXCEPT ![i].preds = @ \cup {d}]
      BY <2>3 DEF LinkPredecessor
    <3>2. issue[i].preds \cup job[p].todo.preds = IncrementIds(job[p].request)
      BY <1>2, <2>3 DEF LinkPredecessor, MatchInv, WritesWhatWasAsked, At
    <3>3. d \in Known
      BY <3>1, <3>2 DEF IncrementIds
    <3>4. issue'[i].preds = issue[i].preds \cup {d}
      BY <1>2, <3>1 DEF Good, TypeOK, Issues
    <3> QED
      BY <1>2, <2>1, <3>3, <3>4 DEF LinksNameItems
  <2> QED
    BY <1>2, <2>2, <2>3, OnlyLinkPredecessorLinks
<1>3. Good /\ Good' /\ BoardInv /\ MatchInv /\ LinksNameItems /\ [Next]_vars => LinksNameItems'
  BY <1>2 DEF LinksNameItems, Ids
<1> QED
  BY <1>1, <1>3, MatchInvHolds, PTL DEF Spec

(* partial_items: its verdict on a request, made with the ids the Origins  *)
(* have now, is the verdict with those they have once more increments are  *)
(* queued: only a write to the partial item changes it.                    *)
THEOREM VerdictsStand == Spec => VerdictOutlivesNewItems
<1>1. ASSUME Good, BoardInv, Grows, LinksNameItems,
             NEW i \in Known, issue'[i] = issue[i], NEW r
      PROVE  ReportFinishes(i, r) <=> ReportFinishes(i, r)'
  <2>1. /\ Known \subseteq Known' /\ \A k \in Known : issue'[k].origin = issue[k].origin
    BY <1>1, KnownGrows
  <2>2. \A k \in Known : k \in CarriedIds(r) <=> k \in CarriedIds(r)'
    BY <2>1 DEF CarriedIds, Carrying
  <2>3. issue[i].preds \subseteq Known
    BY <1>1 DEF LinksNameItems, Known
  <2>4. issue[i].preds \subseteq CarriedIds(r) <=> issue'[i].preds \subseteq CarriedIds(r)'
    BY <1>1, <2>2, <2>3
  <2> QED
    BY <1>1, <2>4 DEF ReportFinishes, Finishes
<1>2. Good /\ Good' /\ BoardInv /\ LinksNameItems /\ [Next]_vars =>
        [\A i \in Known : Partial(i) /\ issue'[i] = issue[i] =>
           \A r \in Requested(i) : ReportFinishes(i, r) <=> ReportFinishes(i, r)']_vars
  BY <1>1, NextKeepsBoardInv
<1> QED
  BY <1>2, LinksNameItemsHolds, PTL DEF Spec, VerdictOutlivesNewItems

-----------------------------------------------------------------------------
(* To everyone else a queueing is one write: the detailed steps map to     *)
(* steps of AtomicQueue.                                                   *)

(* What a planner reads back is the row it queued.                         *)
ReadsBackItsRow(p) ==
  At(p, "read_back") =>
    /\ job[p].request \in Requests[p]
    /\ issue[job[p].item].committed
    /\ AsAsked(job[p].item, job[p].request)

RowInv == \A p \in Planners : ReadsBackItsRow(p)

(* What a step of the refinement starts from.                              *)
QueueInv == Good /\ BoardInv /\ MatchInv /\ LinksNameItems /\ RowInv

(* A committed issue is the increment of its Origin.                       *)
Stands(i) ==
  /\ i \in Known /\ issue[i].origin \in Origins
  /\ Increments(issue[i].origin) = {i}
  /\ IncrementsNow[issue[i].origin] = IncrementOf(i)
  /\ IncrementOf(i) # NoIncrement

AllStand == \A i \in Ids : issue[i].committed => Stands(i)

Evolves == QueueInv /\ Good' /\ AllStand' /\ Grows /\ Links

LEMMA StandsUnderItsOrigin ==
  ASSUME QueueInv, NEW i \in Ids, issue[i].committed
  PROVE  Stands(i)
<1>1. PICK r \in Every : AsAsked(i, r)
  BY DEF QueueInv, MatchInv
<1>2. issue[i].origin \in Origins /\ i \in Known
  BY <1>1 DEF AsAsked, Origins, Known, Exists, NoIssue
<1>3. Increments(issue[i].origin) = {i}
  BY <1>2 DEF Increments, Carrying, Partial, QueueInv, Good, OriginInv, OneItemPerOrigin
<1>4. IncrementsNow[issue[i].origin] = IncrementOf(i)
  BY <1>2, <1>3 DEF IncrementsNow
<1>5. issue[i].parent # "none"
  BY <1>1, RequestsAssumption DEF AsAsked, Matches, Parents
<1>6. IncrementOf(i) # NoIncrement
  BY <1>5 DEF IncrementOf, NoIncrement
<1> QED
  BY <1>2, <1>3, <1>4, <1>6 DEF Stands

LEMMA StandsAsAsked ==
  ASSUME QueueInv, NEW i \in Ids, issue[i].committed, NEW r \in Every, AsAsked(i, r)
  PROVE  /\ IncrementsNow[r.origin] # NoIncrement
         /\ IncrementsNow[r.origin].parent = r.parent
         /\ IncrementsNow[r.origin].text = r.text
         /\ IncrementsNow[r.origin].after = r.after
         /\ IncrementsNow[r.origin].closed = issue[i].closed
<1>1. r.origin = issue[i].origin /\ issue[i].parent = r.parent /\ issue[i].text = r.text
  BY DEF AsAsked, Matches
<1>2. {issue[d].origin : d \in issue[i].preds} = r.after
  BY DEF AsAsked, Matches, AllThere, IncrementIds
<1>3. IncrementsNow[r.origin] = IncrementOf(i) /\ IncrementOf(i) # NoIncrement
  BY <1>1, StandsUnderItsOrigin DEF Stands
<1>4. /\ IncrementOf(i).parent = r.parent /\ IncrementOf(i).text = r.text
      /\ IncrementOf(i).closed = issue[i].closed
  BY <1>1 DEF IncrementOf
<1>5. IncrementOf(i).after = r.after
  BY <1>2, Zenon DEF IncrementOf
<1> QED
  BY <1>3, <1>4, <1>5

LEMMA AllThereStand ==
  ASSUME QueueInv, NEW r \in Every, AllThere(r), NEW o \in r.after
  PROVE  IncrementsNow[o] # NoIncrement
<1>1. PICK k \in IncrementIds(r) : issue[k].origin = o
  BY DEF AllThere
<1>2. k \in Ids /\ issue[k].committed
  BY DEF IncrementIds, Known, Partial
<1> QED
  BY <1>1, <1>2, StandsUnderItsOrigin DEF Stands

(* It stays the increment; all but its claim and its closing is settled.   *)
Fated(x, claimed, closed) ==
  [parent |-> x.parent, text |-> x.text, after |-> x.after, claimed |-> claimed,
   closed |-> closed]

LEMMA IncrementKept ==
  ASSUME Evolves, NEW i \in Ids, issue[i].committed
  PROVE  /\ issue'[i].committed /\ issue'[i].origin = issue[i].origin
         /\ IncrementOf(i)' = Fated(IncrementOf(i), issue'[i].claimed, issue'[i].closed)
<1>1. i \in Known /\ issue[i].origin # "none" /\ issue[i].preds \subseteq Known
  BY StandsUnderItsOrigin DEF Stands, Evolves, QueueInv, Good, OriginInv, OriginFromTheStart,
                              LinksNameItems
<1>2. /\ issue'[i].committed /\ issue'[i].origin = issue[i].origin
      /\ issue'[i].text = issue[i].text /\ issue'[i].parent = issue[i].parent
      /\ issue'[i].preds = issue[i].preds
  BY <1>1 DEF Evolves, Grows, GrowsTo, Links, LinksTo
<1>3. \A d \in issue[i].preds : issue'[d].origin = issue[d].origin
  BY <1>1, KnownGrows DEF Evolves, QueueInv
<1>4. {issue'[d].origin : d \in issue'[i].preds} = {issue[d].origin : d \in issue[i].preds}
  BY <1>2, <1>3
<1>5. /\ IncrementOf(i).parent = issue[i].parent /\ IncrementOf(i).text = issue[i].text
      /\ IncrementOf(i).after = {issue[d].origin : d \in issue[i].preds}
  BY Zenon DEF IncrementOf
<1> QED
  BY <1>2, <1>4, <1>5, Zenon DEF IncrementOf, Fated

(* Absent until somebody commits it.                                       *)
LEMMA AbsentUntilCommitted ==
  ASSUME Evolves, NEW o, Increments(o) = {},
         \A i \in Ids : issue'[i].committed => issue[i].committed \/ issue'[i].origin # o
  PROVE  Increments(o)' = {}
<1> SUFFICES ASSUME NEW i \in Increments(o)'
             PROVE  FALSE
  OBVIOUS
<1>1. i \in Ids /\ issue'[i].committed /\ issue'[i].origin = o
  BY DEF Increments, Carrying, Known, Partial
<1>2. issue[i].committed
  BY <1>1
<1>3. issue[i].origin = o /\ i \in Increments(issue[i].origin)
  BY <1>1, <1>2, IncrementKept, StandsUnderItsOrigin DEF Stands, Evolves
<1> QED
  BY <1>3

LEMMA NobodyStands ==
  ASSUME NEW o \in Origins, Increments(o) = {}
  PROVE  IncrementsNow[o] = NoIncrement
BY DEF IncrementsNow

LEMMA SomebodyStands ==
  ASSUME NEW o \in Origins, Increments(o) # {}
  PROVE  \E i \in Ids : issue[i].committed /\ issue[i].origin = o
BY DEF Increments, Carrying, Known, Partial

(* Nothing about an increment changes.                                     *)
LEMMA BoardKept ==
  ASSUME Evolves,
         \A i \in Ids : issue'[i].committed =>
           /\ issue[i].committed
           /\ issue'[i].claimed = issue[i].claimed /\ issue'[i].closed = issue[i].closed
  PROVE  IncrementsNow' = IncrementsNow
<1> SUFFICES ASSUME NEW o \in Origins
             PROVE  IncrementsNow'[o] = IncrementsNow[o]
  BY DEF IncrementsNow
<1>1. CASE Increments(o) = {}
  <2>1. Increments(o)' = {}
    BY <1>1, AbsentUntilCommitted
  <2> QED
    BY <1>1, <2>1 DEF IncrementsNow
<1>2. CASE Increments(o) # {}
  <2>1. PICK i \in Ids : issue[i].committed /\ issue[i].origin = o
    BY <1>2, SomebodyStands
  <2>2. IncrementsNow[o] = IncrementOf(i)
    BY <2>1, StandsUnderItsOrigin DEF Stands, Evolves
  <2>3. /\ issue'[i].committed /\ issue'[i].origin = o
        /\ IncrementOf(i)' = Fated(IncrementOf(i), issue[i].claimed, issue[i].closed)
    BY <2>1, IncrementKept
  <2>4. IncrementsNow'[o] = IncrementOf(i)'
    BY <2>3 DEF Evolves, AllStand, Stands
  <2>5. Fated(IncrementOf(i), issue[i].claimed, issue[i].closed) = IncrementOf(i)
    BY DEF Fated, IncrementOf
  <2> QED
    BY <2>2, <2>3, <2>4, <2>5
<1> QED
  BY <1>1, <1>2

(* Only the increment of the issue that is rewritten can move.             *)
LEMMA OtherIncrementsKept ==
  ASSUME Evolves, NEW i \in Ids, \A k \in Ids \ {i} : issue'[k] = issue[k],
         NEW o \in Origins, issue'[i].committed => issue'[i].origin # o
  PROVE  IncrementsNow'[o] = IncrementsNow[o]
<1>1. CASE Increments(o) = {}
  <2>1. Increments(o)' = {}
    BY <1>1, AbsentUntilCommitted
  <2> QED
    BY <1>1, <2>1 DEF IncrementsNow
<1>2. CASE Increments(o) # {}
  <2>1. PICK k \in Ids : issue[k].committed /\ issue[k].origin = o
    BY <1>2, SomebodyStands
  <2>2. IncrementsNow[o] = IncrementOf(k)
    BY <2>1, StandsUnderItsOrigin DEF Stands, Evolves
  <2>3. /\ issue'[k].committed /\ issue'[k].origin = o
        /\ IncrementOf(k)' = Fated(IncrementOf(k), issue'[k].claimed, issue'[k].closed)
    BY <2>1, IncrementKept
  <2>4. issue'[k] = issue[k]
    BY <2>3
  <2>5. IncrementsNow'[o] = IncrementOf(k)'
    BY <2>3 DEF Evolves, AllStand, Stands
  <2>6. Fated(IncrementOf(k), issue[k].claimed, issue[k].closed) = IncrementOf(k)
    BY DEF Fated, IncrementOf
  <2> QED
    BY <2>2, <2>3, <2>4, <2>5, <2>6
<1> QED
  BY <1>1, <1>2

LEMMA IncrementsChangeAt ==
  ASSUME NEW o \in Origins, NEW x, IncrementsNow'[o] = x,
         \A u \in Origins \ {o} : IncrementsNow'[u] = IncrementsNow[u]
  PROVE  IncrementsNow' = [IncrementsNow EXCEPT ![o] = x]
<1>1. /\ IncrementsNow = [u \in Origins |-> IncrementsNow[u]]
      /\ IncrementsNow' = [u \in Origins |-> IncrementsNow'[u]]
  BY DEF IncrementsNow
<1> QED
  BY <1>1

(* One increment is claimed, released or closed.                           *)
LEMMA OneIncrementMoves ==
  ASSUME Evolves, NEW i \in Ids, issue[i].committed,
         \A k \in Ids \ {i} : issue'[k] = issue[k]
  PROVE  LET o == issue[i].origin IN
         /\ o \in Origins /\ IncrementsNow[o] # NoIncrement
         /\ IncrementsNow' =
              [IncrementsNow EXCEPT
                 ![o] = Fated(IncrementsNow[o], issue'[i].claimed, issue'[i].closed)]
<1> DEFINE o == issue[i].origin
<1>1. o \in Origins /\ IncrementsNow[o] = IncrementOf(i) /\ IncrementOf(i) # NoIncrement
  BY StandsUnderItsOrigin DEF Stands, Evolves
<1>2. /\ issue'[i].committed /\ issue'[i].origin = o
      /\ IncrementOf(i)' = Fated(IncrementOf(i), issue'[i].claimed, issue'[i].closed)
  BY IncrementKept
<1>3. IncrementsNow'[o] = Fated(IncrementsNow[o], issue'[i].claimed, issue'[i].closed)
  BY <1>1, <1>2 DEF Evolves, AllStand, Stands
<1>4. \A u \in Origins \ {o} : IncrementsNow'[u] = IncrementsNow[u]
  BY <1>2, OtherIncrementsKept
<1> HIDE DEF o
<1>5. IncrementsNow' = [IncrementsNow EXCEPT
        ![o] = Fated(IncrementsNow[o], issue'[i].claimed, issue'[i].closed)]
  BY <1>1, <1>3, <1>4, IncrementsChangeAt
<1> QED
  BY <1>1, <1>5 DEF o

(* Where a planner is, to who waits for its answer.                        *)
CallOf(p) == IF job[p].step \in Queueing THEN job[p].request ELSE NoRequest
AnswerOf(p) == IF At(p, "returned") THEN issue[job[p].item].origin ELSE "none"

LEMMA CallsOfOthers ==
  ASSUME Evolves, NEW q \in Planners, job'[q] = job[q]
  PROVE  CallOf(q)' = CallOf(q) /\ AnswerOf(q)' = AnswerOf(q)
<1>1. At(q, "returned") => job[q].item \in Known
  BY ItemIsKnown DEF At, Processes, BeforeAnItem, Evolves, QueueInv
<1>2. At(q, "returned") => issue'[job[q].item].origin = issue[job[q].item].origin
  BY <1>1, KnownGrows DEF Evolves, QueueInv
<1> QED
  BY <1>2 DEF CallOf, AnswerOf, At

LEMMA CallsOfOne ==
  ASSUME Evolves, NEW p \in Planners, \A v \in Processes \ {p} : job'[v] = job[v]
  PROVE  /\ CallsNow' = [CallsNow EXCEPT ![p] = CallOf(p)']
         /\ AnswersNow' = [AnswersNow EXCEPT ![p] = AnswerOf(p)']
         /\ CallsNow[p] = CallOf(p)
<1>1. \A q \in Planners \ {p} : CallOf(q)' = CallOf(q) /\ AnswerOf(q)' = AnswerOf(q)
  BY CallsOfOthers DEF Processes
<1>2. /\ CallsNow = [q \in Planners |-> CallOf(q)]
      /\ AnswersNow = [q \in Planners |-> AnswerOf(q)]
  BY DEF CallsNow, AnswersNow, CallOf, AnswerOf
<1>3. /\ CallsNow' = [q \in Planners |-> CallOf(q)']
      /\ AnswersNow' = [q \in Planners |-> AnswerOf(q)']
  BY DEF CallsNow, AnswersNow, CallOf, AnswerOf
<1> QED
  BY <1>1, <1>2, <1>3

LEMMA CallsKept ==
  ASSUME Evolves, \A p \in Planners : job'[p] = job[p]
  PROVE  CallsNow' = CallsNow /\ AnswersNow' = AnswersNow
<1>1. \A q \in Planners : CallOf(q)' = CallOf(q) /\ AnswerOf(q)' = AnswerOf(q)
  BY CallsOfOthers
<1> QED
  BY <1>1 DEF CallsNow, AnswersNow, CallOf, AnswerOf

Refines == [OneWrite!Next]_(OneWrite!vars)

(* A call that goes on writes nothing an increment shows.                  *)
LEMMA Silent ==
  ASSUME IncrementsNow' = IncrementsNow, CallsNow' = CallsNow, AnswersNow' = AnswersNow
  PROVE  Refines
BY DEF Refines, OneWrite!vars

LEMMA CallGoesOn ==
  ASSUME Evolves, NEW p \in Planners, \A v \in Processes \ {p} : job'[v] = job[v],
         CallOf(p)' = CallOf(p), AnswerOf(p)' = AnswerOf(p)
  PROVE  CallsNow' = CallsNow /\ AnswersNow' = AnswersNow
<1>1. \A q \in Planners : CallOf(q)' = CallOf(q) /\ AnswerOf(q)' = AnswerOf(q)
  BY CallsOfOthers DEF Processes
<1> QED
  BY <1>1 DEF CallsNow, AnswersNow, CallOf, AnswerOf

(* A call that is over without an id gave up.                              *)
LEMMA EndsInNothing ==
  ASSUME Evolves, NEW p \in Planners, \A v \in Processes \ {p} : job'[v] = job[v],
         IncrementsNow' = IncrementsNow, job'[p].step \notin Queueing \cup {"returned"}
  PROVE  Refines
<1>1. CallOf(p)' = NoRequest /\ AnswerOf(p)' = "none"
  BY DEF CallOf, AnswerOf, At
<1>2. OneWrite!GiveUp(p)
  BY <1>1, CallsOfOne DEF OneWrite!GiveUp, OneWrite!Answers
<1> QED
  BY <1>2 DEF Refines, OneWrite!Next

LEMMA OneFieldMoves ==
  ASSUME NEW i, NEW y
  PROVE  /\ Fated(IncrementOf(i), issue[i].claimed, y) = [IncrementOf(i) EXCEPT !.closed = y]
         /\ Fated(IncrementOf(i), y, issue[i].closed) = [IncrementOf(i) EXCEPT !.claimed = y]
<1> DEFINE after == {issue[d].origin : d \in issue[i].preds}
           x == [parent |-> issue[i].parent, text |-> issue[i].text, after |-> after,
                 claimed |-> issue[i].claimed, closed |-> issue[i].closed]
<1>1. IncrementOf(i) = x
  BY Zenon DEF IncrementOf
<1> HIDE DEF after
<1>2. /\ Fated(x, issue[i].claimed, y) = [x EXCEPT !.closed = y]
      /\ Fated(x, y, issue[i].closed) = [x EXCEPT !.claimed = y]
  BY DEF Fated
<1> HIDE DEF x
<1> QED
  BY <1>1, <1>2, Zenon

(* An issue that is closed, or whose Status is set, while nobody's call    *)
(* moves.                                                                  *)
LEMMA Rewritten ==
  ASSUME Evolves, CallsNow' = CallsNow, AnswersNow' = AnswersNow,
         NEW i \in Ids, NEW x, issue' = [issue EXCEPT ![i] = x],
         x.committed = issue[i].committed, x.claimed = issue[i].claimed,
         \/ x.closed = issue[i].closed
         \/ /\ x.closed \in {"completed", "not_planned"}
            /\ issue[i].closed = "open" \/ x.closed = "not_planned"
  PROVE  Refines
<1>1. issue'[i] = x /\ \A k \in Ids \ {i} : issue'[k] = issue[k]
  BY DEF Evolves, QueueInv, Good, TypeOK
<1>2. CASE ~ issue[i].committed \/ x.closed = issue[i].closed
  <2>1. IncrementsNow' = IncrementsNow
    BY <1>1, <1>2, BoardKept
  <2> QED
    BY <2>1, Silent
<1>3. CASE issue[i].committed /\ x.closed # issue[i].closed
  <2> DEFINE o == issue[i].origin
  <2>1. /\ o \in Origins /\ IncrementsNow[o] # NoIncrement
        /\ IncrementsNow' =
             [IncrementsNow EXCEPT ![o] = Fated(IncrementsNow[o], x.claimed, x.closed)]
    BY <1>1, <1>3, OneIncrementMoves
  <2>2. IncrementsNow[o] = IncrementOf(i)
    BY <1>3, StandsUnderItsOrigin DEF Stands, Evolves
  <2>3. IncrementsNow[o].closed = issue[i].closed /\ IncrementsNow[o].claimed = x.claimed
    BY <2>2 DEF IncrementOf
  <2>4. Fated(IncrementsNow[o], x.claimed, x.closed)
          = [IncrementsNow[o] EXCEPT !.closed = x.closed]
    <3>1. Fated(IncrementOf(i), issue[i].claimed, x.closed)
            = [IncrementOf(i) EXCEPT !.closed = x.closed]
      BY OneFieldMoves, Zenon
    <3> QED
      BY <2>2, <3>1, Zenon
  <2>5. OneWrite!Close(o, x.closed)
    BY <1>3, <2>1, <2>3, <2>4 DEF OneWrite!Close, OneWrite!There
  <2>6. o \in OneWrite!Origins
    BY <2>1 DEF Origins, Every, OneWrite!Origins
  <2> QED
    BY <1>3, <2>5, <2>6 DEF Refines, OneWrite!Next
<1> QED
  BY <1>2, <1>3

(* A queueing keeps its row from its first step to its last.               *)
LEMMA KeepsItsRow ==
  ASSUME Good, NEW p \in Planners, PlannerMoves(p), job'[p].step \in Queueing
  PROVE  \/ \E r \in Requests[p] : Queue(p, r) /\ r.parent \in Scope
         \/ job[p].step \in Queueing /\ job'[p].request = job[p].request
<1>1. p \in Processes /\ job[p] \in Jobs
  BY DEF Processes, Good, TypeOK
<1>2. ASSUME NEW j, Becomes(p, j), j.step \notin Queueing
      PROVE  FALSE
  BY <1>1, <1>2, MovesOne
<1>3. ASSUME NEW j, Becomes(p, j), j.request = job[p].request
      PROVE  job'[p].request = job[p].request
  BY <1>1, <1>3, MovesOne
<1>4. /\ ~ Becomes(p, Idle) /\ \A i : ~ Becomes(p, Returned(i))
      /\ \A i : ~ Becomes(p, [Idle EXCEPT !.step = "recheck", !.item = i])
      /\ \A r : ~ Becomes(p, [Idle EXCEPT !.step = "look_up", !.request = r])
  <2>1. Idle.step = "idle" /\ \A i : Returned(i).step = "returned"
    BY DEF Idle, Returned
  <2>2. \A i : [Idle EXCEPT !.step = "recheck", !.item = i].step = "recheck"
    BY DEF Idle
  <2>3. \A r : [Idle EXCEPT !.step = "look_up", !.request = r].step = "look_up"
    BY DEF Idle
  <2>4. ASSUME NEW i PROVE ~ Becomes(p, [Idle EXCEPT !.step = "recheck", !.item = i])
    BY <1>2, <2>2 DEF Queueing
  <2>5. ASSUME NEW r PROVE ~ Becomes(p, [Idle EXCEPT !.step = "look_up", !.request = r])
    BY <1>2, <2>3 DEF Queueing
  <2> QED
    BY <1>2, <2>1, <2>4, <2>5 DEF Queueing
<1>5. \A step : step \notin Queueing =>
        ~ Goes(p, step) /\ \A goal : ~ Becomes(p, [job[p] EXCEPT !.step = step, !.goal = goal])
  <2> SUFFICES ASSUME NEW step, step \notin Queueing
               PROVE  /\ ~ Goes(p, step)
                      /\ \A goal : ~ Becomes(p, [job[p] EXCEPT !.step = step, !.goal = goal])
    OBVIOUS
  <2>1. ~ Goes(p, step)
    <3>1. [job[p] EXCEPT !.step = step].step = step
      BY <1>1 DEF Jobs
    <3> QED
      BY <1>2, <3>1 DEF Goes
  <2>2. ASSUME NEW goal PROVE ~ Becomes(p, [job[p] EXCEPT !.step = step, !.goal = goal])
    <3>1. [job[p] EXCEPT !.step = step, !.goal = goal].step = step
      BY <1>1 DEF Jobs
    <3> QED
      BY <1>2, <3>1
  <2> QED
    BY <2>1, <2>2
<1>6. CASE Look(p)
  <2>1. PICK j : Becomes(p, j) /\ j.request = job[p].request
    <3>1. \A i : Answer(p, i) \in {Idle, Returned(i), [job[p] EXCEPT !.step = "fetch", !.item = i]}
      BY DEF Answer
    <3>2. \A i : [job[p] EXCEPT !.step = "fetch", !.item = i].request = job[p].request
      BY <1>1 DEF Jobs
    <3>3. [job[p] EXCEPT !.step = "create"].request = job[p].request
      BY <1>1 DEF Jobs
    <3>4. \/ Goes(p, "create")
          \/ \E i \in Carrying(job[p].request.origin) : Becomes(p, Answer(p, i))
      BY <1>4, <1>6 DEF Look
    <3>5. ASSUME NEW i, Becomes(p, Answer(p, i))
          PROVE  Becomes(p, [job[p] EXCEPT !.step = "fetch", !.item = i])
      BY <1>4, <3>1, <3>5, Zenon
    <3> QED
      BY <3>2, <3>3, <3>4, <3>5 DEF Goes
  <2> QED
    BY <1>3, <1>6, <2>1 DEF Look, At, Queueing
<1>7. CASE Create(p)
  <2>1. \A i, todo :
          [job[p] EXCEPT !.step = "write", !.item = i, !.todo = todo].request = job[p].request
    BY <1>1 DEF Jobs
  <2>2. PICK j : Becomes(p, j) /\ j.request = job[p].request
    BY <1>7, <2>1 DEF Create
  <2> QED
    BY <1>3, <1>7, <2>2 DEF Create, At, Queueing
<1>8. CASE Fetch(p)
  <2>1. \A todo : [job[p] EXCEPT !.step = "write", !.todo = todo].request = job[p].request
    BY <1>1 DEF Jobs
  <2>2. PICK j : Becomes(p, j) /\ j.request = job[p].request
    BY <1>4, <1>8, <2>1 DEF Fetch
  <2> QED
    BY <1>3, <1>8, <2>2 DEF Fetch, At, Queueing
<1>9. CASE LinkParent(p) \/ LinkPredecessor(p) \/ AddToProject(p) \/ SetQueued(p)
  <2>1. \A todo : [job[p] EXCEPT !.todo = todo].request = job[p].request
    BY <1>1 DEF Jobs
  <2>2. PICK j : Becomes(p, j) /\ j.request = job[p].request
    BY <1>4, <1>9, <2>1 DEF LinkParent, LinkPredecessor, AddToProject, SetQueued
  <2> QED
    BY <1>3, <1>9, <2>2
    DEF LinkParent, LinkPredecessor, AddToProject, SetQueued, Linked, At, Queueing
<1>10. CASE Commit(p)
  <2>1. [job[p] EXCEPT !.step = "read_back"].request = job[p].request
    BY <1>1 DEF Jobs
  <2> QED
    BY <1>3, <1>10, <2>1 DEF Commit, Goes, At, Queueing
<1>11. ~ ReadBack(p) /\ ~ LookUp(p) /\ ~ Recheck(p) /\ ~ Crash(p)
  BY <1>4, <1>5 DEF ReadBack, LookUp, Recheck, Crash, Queueing
<1>12. ~ SetStateRead(p) /\ ~ SetStateWrite(p)
  <2>1. ~ Becomes(p, AfterSet(p))
    <3>1. "tag" \notin Queueing
      BY DEF Queueing
    <3> QED
      BY <1>4, <1>5, <3>1 DEF AfterSet, Goes
  <2> QED
    BY <1>4, <1>5, <2>1 DEF SetStateRead, SetStateWrite, Queueing
<1>13. \A r \in Requests[p] : ~ Withdraw(p, r.origin) /\ (Queue(p, r) => r.parent \in Scope)
  BY <1>4 DEF Withdraw, Queue
<1> QED
  BY <1>6, <1>7, <1>8, <1>9, <1>10, <1>11, <1>12, <1>13 DEF PlannerMoves, PlannerStep

(* The writes before the marker show nowhere.                              *)
LEMMA UnseenWrite ==
  ASSUME Evolves, NEW i \in Ids, NEW x, issue' = [issue EXCEPT ![i] = x],
         ~ issue[i].committed, ~ x.committed
  PROVE  IncrementsNow' = IncrementsNow
<1>1. issue'[i] = x /\ \A k \in Ids \ {i} : issue'[k] = issue[k]
  BY DEF Evolves, QueueInv, Good, TypeOK
<1> QED
  BY <1>1, BoardKept

LEMMA UnseenSteps ==
  ASSUME Evolves, NEW p \in Planners, PlannerMoves(p), ~ Commit(p), ~ SetStateWrite(p)
  PROVE  IncrementsNow' = IncrementsNow
<1>1. CASE UNCHANGED issue
  BY <1>1, BoardKept
<1>2. CASE Create(p)
  <2>1. PICK k \in Ids \ Known : issue' = [issue EXCEPT ![k] = NewIssue(job[p].request)]
    BY <1>2 DEF Create
  <2>2. ~ issue[k].committed /\ ~ NewIssue(job[p].request).committed
    BY DEF Known, Exists, NewIssue, NoIssue
  <2> QED
    BY <2>1, <2>2, UnseenWrite
<1>3. CASE /\ ~ UNCHANGED issue
           /\ LinkParent(p) \/ LinkPredecessor(p) \/ AddToProject(p) \/ SetQueued(p)
  <2> DEFINE i == job[p].item
  <2>1. At(p, "write") /\ i \in Ids /\ issue[i] \in Issues /\ ~ issue[i].committed
    <3>1. At(p, "write") /\ p \in Processes
      BY <1>3 DEF LinkParent, LinkPredecessor, AddToProject, SetQueued, Linked, Processes
    <3> QED
      BY <3>1, ItemIsKnown
      DEF At, BeforeAnItem, Evolves, QueueInv, Good, TypeOK, BoardInv, JobFits,
          WritesItsOwnPartialItem
  <2>2. \A y : /\ ~ [issue[i] EXCEPT !.parent = y].committed
               /\ ~ [issue[i] EXCEPT !.preds = y].committed
               /\ ~ [issue[i] EXCEPT !.on_project = y].committed
               /\ ~ [issue[i] EXCEPT !.status = y].committed
    BY <2>1 DEF Issues
  <2>3. PICK x : issue' = [issue EXCEPT ![i] = x] /\ ~ x.committed
    BY <1>3, <2>2 DEF LinkParent, LinkPredecessor, AddToProject, SetQueued
  <2> QED
    BY <2>1, <2>3, UnseenWrite
<1> QED
  BY <1>1, <1>2, <1>3
  DEF PlannerMoves, PlannerStep, Look, Fetch, ReadBack, LookUp, Recheck, SetStateRead, Crash,
      Queue, Withdraw, Reads

(* The marker is the one write: the row is there, all of it, at once.      *)
LEMMA CommitsItsRow ==
  ASSUME QueueInv, Good', Grows, NEW p \in Planners, Commit(p)
  PROVE  /\ job[p].request \in Requests[p] /\ job[p].request \in Every
         /\ AllThere(job[p].request)
         /\ job'[p].step = "read_back" /\ job'[p].request = job[p].request
         /\ job'[p].item = job[p].item
         /\ job[p].item \in Ids /\ ~ issue[job[p].item].committed
         /\ issue[job[p].item].origin = job[p].request.origin
         /\ issue'[job[p].item] = [issue[job[p].item] EXCEPT !.committed = TRUE]
         /\ \A k \in Ids \ {job[p].item} : issue'[k] = issue[k]
         /\ issue'[job[p].item].committed /\ AsAsked(job[p].item, job[p].request)'
<1>0. PICK i, r : i = job[p].item /\ r = job[p].request
  OBVIOUS
<1>1. /\ p \in Processes /\ job[p] \in Jobs /\ i \in Ids /\ issue[i] \in Issues
      /\ At(p, "write") /\ job[p].todo = Nothing
      /\ issue' = [issue EXCEPT ![i].committed = TRUE] /\ Goes(p, "read_back")
  BY <1>0, ItemIsKnown
     DEF Commit, At, Processes, BeforeAnItem, QueueInv, Good, TypeOK
<1>2. /\ r \in Requests[p] /\ issue[i].origin = r.origin /\ ~ issue[i].committed
  BY <1>0, <1>1 DEF QueueInv, BoardInv, JobFits, WritesItsOwnPartialItem
<1>3. r \in Every
  BY <1>2 DEF Every
<1>4. /\ AllThere(r) /\ issue[i].text = r.text /\ issue[i].parent = r.parent
      /\ issue[i].preds = IncrementIds(r)
  <2>1. WritesWhatWasAsked(p)
    BY DEF QueueInv, MatchInv
  <2>2. ~ job[p].todo.parent /\ job[p].todo.preds = {}
    BY <1>1 DEF Nothing
  <2> QED
    BY <1>0, <1>1, <2>1, <2>2 DEF WritesWhatWasAsked, At
<1>5. /\ issue'[i] = [issue[i] EXCEPT !.committed = TRUE]
      /\ \A k \in Ids \ {i} : issue'[k] = issue[k]
  BY <1>1 DEF QueueInv, Good, TypeOK
<1>6. job'[p].step = "read_back" /\ job'[p].item = i /\ job'[p].request = r
  <2>1. job'[p] = [job[p] EXCEPT !.step = "read_back"]
    BY <1>1, MovesOne DEF Goes, QueueInv
  <2> QED
    BY <1>0, <1>1, <2>1 DEF Jobs
<1>7. AllThere(r)' /\ IncrementIds(r)' = IncrementIds(r)
  BY <1>4, AllThereStays DEF QueueInv
<1>8. /\ issue'[i].committed /\ issue'[i].text = issue[i].text
      /\ issue'[i].parent = issue[i].parent /\ issue'[i].preds = issue[i].preds
      /\ issue'[i].origin = issue[i].origin
  BY <1>1, <1>5 DEF Issues
<1>9. AsAsked(i, r)'
  BY <1>2, <1>4, <1>7, <1>8 DEF AsAsked, Matches
<1> QED
  BY <1>0, <1>1, <1>2, <1>3, <1>4, <1>5, <1>6, <1>8, <1>9

LEMMA CommitRefines ==
  ASSUME Evolves, NEW p \in Planners, Commit(p)
  PROVE  Refines
<1>0. PICK i, r, o : i = job[p].item /\ r = job[p].request /\ o = r.origin
  OBVIOUS
<1>1. /\ r \in Every /\ AllThere(r) /\ i \in Ids /\ ~ issue[i].committed
      /\ issue[i].origin = o
      /\ issue'[i] = [issue[i] EXCEPT !.committed = TRUE]
      /\ \A k \in Ids \ {i} : issue'[k] = issue[k]
      /\ issue'[i].committed /\ AsAsked(i, r)'
  BY <1>0, CommitsItsRow DEF Evolves
<1>2. o \in Origins /\ r # NoRequest
  BY <1>0, <1>1, RequestsAssumption DEF Origins, NoRequest
<1>3. IncrementsNow[o] = NoIncrement
  <2>1. Increments(o) = {}
    BY <1>1, <1>2 DEF Increments, Carrying, Partial, Evolves, QueueInv, Good, OriginInv,
                      OneItemPerOrigin, Known, Exists, NoIssue
  <2> QED
    BY <1>2, <2>1, NobodyStands
<1>4. \A d \in r.after : IncrementsNow[d] # NoIncrement
  BY <1>1, AllThereStand DEF Evolves
<1>5. IncrementsNow'[o] = IncrementOf(i)'
  <2>1. issue'[i].origin = o
    BY <1>0, <1>1 DEF AsAsked
  <2>2. Stands(i)'
    BY <1>1 DEF Evolves, AllStand
  <2> QED
    BY <2>1, <2>2 DEF Stands
<1>6. IncrementOf(i)' = [parent |-> r.parent, text |-> r.text, after |-> r.after,
                         claimed |-> FALSE, closed |-> issue[i].closed]
  <2>1. issue'[i].parent = r.parent /\ issue'[i].text = r.text
    BY <1>1 DEF AsAsked, Matches
  <2>2. {issue'[d].origin : d \in issue'[i].preds} = r.after
    <3>1. issue'[i].preds = IncrementIds(r)' /\ AllThere(r)'
      BY <1>1 DEF AsAsked, Matches
    <3>2. \A d \in IncrementIds(r)' : issue'[d].origin \in r.after
      BY DEF IncrementIds
    <3>3. \A u \in r.after : \E d \in IncrementIds(r)' : issue'[d].origin = u
      BY <3>1 DEF AllThere
    <3> HIDE DEF IncrementIds
    <3> QED
      BY <3>1, <3>2, <3>3
  <2>3. issue'[i].claimed = FALSE /\ issue'[i].closed = issue[i].closed
    BY <1>1 DEF Evolves, QueueInv, BoardInv, Unblocked, Good, TypeOK, Issues
  <2> QED
    BY <2>1, <2>2, <2>3, Zenon DEF IncrementOf
<1>7. IncrementsNow' = [IncrementsNow EXCEPT
        ![o] = [parent |-> r.parent, text |-> r.text, after |-> r.after,
                claimed |-> FALSE, closed |-> issue[i].closed]]
  <2>1. issue'[i].origin = o
    BY <1>0, <1>1 DEF AsAsked
  <2>2. \A u \in Origins \ {o} : IncrementsNow'[u] = IncrementsNow[u]
    BY <1>1, <2>1, OtherIncrementsKept
  <2> QED
    BY <1>2, <1>5, <1>6, <2>2, IncrementsChangeAt
<1>8. CallOf(p) = r /\ CallOf(p)' = CallOf(p) /\ AnswerOf(p)' = AnswerOf(p)
  <2>1. job'[p].step = "read_back" /\ job'[p].request = job[p].request
    BY CommitsItsRow DEF Evolves
  <2> QED
    BY <1>0, <2>1 DEF CallOf, AnswerOf, At, Commit, Queueing
<1>9. /\ CallsNow' = CallsNow /\ AnswersNow' = AnswersNow
      /\ CallsNow[p] = r
  <2>1. \A v \in Processes \ {p} : job'[v] = job[v]
    BY MovesOne DEF Commit, Goes, Processes, Evolves, QueueInv
  <2> QED
    BY <1>8, <2>1, CallGoesOn, CallsOfOne
<1>10. issue[i].closed \in {"open", "completed", "not_planned"}
  BY <1>1 DEF Evolves, QueueInv, Good, TypeOK, Issues
<1>11. OneWrite!Commit(p)
  BY <1>0, <1>2, <1>3, <1>4, <1>7, <1>9, <1>10 DEF OneWrite!Commit, OneWrite!There
<1> QED
  BY <1>11 DEF Refines, OneWrite!Next

(* An id goes to the caller once its row stands.                           *)
LEMMA ReturnRefines ==
  ASSUME Evolves, UNCHANGED issue, NEW p \in Planners, job[p].step \in Queueing,
         NEW i \in Ids, Becomes(p, Returned(i)),
         issue[i].committed, issue[i].closed # "not_planned",
         NEW r \in Every, r = job[p].request, AsAsked(i, r)
  PROVE  Refines
<1>1. job'[p] = Returned(i) /\ \A v \in Processes \ {p} : job'[v] = job[v]
  BY MovesOne DEF Processes, Evolves, QueueInv
<1>2. IncrementsNow' = IncrementsNow
  BY BoardKept
<1>3. issue'[i].origin = r.origin /\ r # NoRequest
  BY RequestsAssumption DEF AsAsked, NoRequest, Origins
<1>4. CallOf(p) = r /\ CallOf(p)' = NoRequest /\ AnswerOf(p)' = r.origin
  BY <1>1, <1>3 DEF CallOf, AnswerOf, At, Returned, Idle, Queueing
<1>5. /\ CallsNow[p] = r
      /\ CallsNow' = [CallsNow EXCEPT ![p] = NoRequest]
      /\ AnswersNow' = [AnswersNow EXCEPT ![p] = r.origin]
  BY <1>1, <1>4, CallsOfOne
<1>6. /\ IncrementsNow[r.origin] # NoIncrement
      /\ IncrementsNow[r.origin].parent = r.parent /\ IncrementsNow[r.origin].text = r.text
      /\ IncrementsNow[r.origin].after = r.after
      /\ IncrementsNow[r.origin].closed # "not_planned"
  BY StandsAsAsked DEF Evolves
<1>7. OneWrite!Return(p)
  BY <1>2, <1>3, <1>5, <1>6
     DEF OneWrite!Return, OneWrite!There, OneWrite!IsAsAsked, OneWrite!Answers
<1> QED
  BY <1>7 DEF Refines, OneWrite!Next

LEMMA ReturningRefines ==
  ASSUME Evolves, NEW p \in Planners, PlannerMoves(p), job'[p].step = "returned"
  PROVE  Refines
<1>0. PICK r : r = job[p].request
  OBVIOUS
<1>1. /\ p \in Processes /\ job[p] \in Jobs /\ \A i \in Ids : issue[i] \in Issues
      /\ \A j : Becomes(p, j) => job'[p] = j
  BY MovesOne DEF Processes, Evolves, QueueInv, Good, TypeOK
<1>2. CASE ReadBack(p)
  <2> DEFINE i == job[p].item
  <2>1. At(p, "read_back") /\ UNCHANGED issue
    BY <1>2 DEF ReadBack, Reads
  <2>2. Bucket(i) = "queued" /\ Becomes(p, Returned(i))
    BY <1>1, <1>2 DEF ReadBack, Idle
  <2>3. /\ i \in Ids /\ r \in Requests[p] /\ r \in Every /\ issue[i].committed
        /\ AsAsked(i, r)
    BY <1>0, <1>1, <2>1, ItemIsKnown
       DEF At, BeforeAnItem, Evolves, QueueInv, RowInv, ReadsBackItsRow, Every
  <2>4. issue[i].closed # "not_planned"
    BY <2>2 DEF Bucket, Native
  <2>5. job[p].step \in Queueing
    BY <2>1 DEF At, Queueing
  <2> HIDE DEF i
  <2> QED
    BY <1>0, <2>1, <2>2, <2>3, <2>4, <2>5, ReturnRefines
<1>3. CASE Look(p)
  <2>1. At(p, "look") /\ UNCHANGED issue /\ job[p].step \in Queueing
    BY <1>3 DEF Look, Reads, At, Queueing
  <2>2. PICK i \in Carrying(r.origin) : Becomes(p, Answer(p, i))
    <3>1. Idle.step # "returned" /\ [job[p] EXCEPT !.step = "create"].step # "returned"
      BY <1>1 DEF Idle, Jobs
    <3> QED
      BY <1>0, <1>1, <1>3, <3>1 DEF Look, Goes
  <2>3. /\ ~ Partial(i) /\ Bucket(i) # "withdrawn" /\ Matches(i, r, job[p].ids)
        /\ Answer(p, i) = Returned(i)
    <3>1. Idle.step # "returned" /\ [job[p] EXCEPT !.step = "fetch", !.item = i].step # "returned"
      BY <1>1 DEF Idle, Jobs
    <3>2. Answer(p, i).step = "returned"
      BY <1>1, <2>2
    <3> QED
      BY <1>0, <3>1, <3>2 DEF Answer
  <2>4. i \in Ids /\ Exists(i) /\ issue[i].origin = r.origin /\ issue[i].committed
    BY <2>2, <2>3 DEF Carrying, Known, Partial
  <2>5. r \in Every
    BY <1>0, <2>1 DEF At, Evolves, QueueInv, Good, OriginInv, RowsAreOwn, Every
  <2>6. AllThere(r) /\ job[p].ids = IncrementIds(r)
    BY <1>0, <2>1 DEF At, Evolves, QueueInv, MatchInv, WritesWhatWasAsked
  <2>7. AsAsked(i, r)
    BY <2>3, <2>4, <2>6 DEF AsAsked
  <2>8. issue[i].closed # "not_planned"
    BY <2>3, <2>4 DEF Bucket, Native
  <2> QED
    BY <1>0, <2>1, <2>2, <2>3, <2>4, <2>5, <2>7, <2>8, ReturnRefines
<1> QED
  BY <1>2, <1>3, HowACallEnds DEF Evolves, QueueInv

(* A row is queued behind increments that are there.                       *)
LEMMA QueueRefines ==
  ASSUME Evolves, NEW p \in Planners, NEW r \in Requests[p], Queue(p, r), r.parent \in Scope
  PROVE  Refines
<1> DEFINE j == [Idle EXCEPT !.step = "look", !.request = r, !.ids = IncrementIds(r)]
<1>1. Becomes(p, j) /\ Resting(p) /\ UNCHANGED issue /\ j.step = "look" /\ j.request = r
  BY DEF Queue, Reads, Idle
<1>2. job'[p] = j /\ \A v \in Processes \ {p} : job'[v] = job[v]
  BY <1>1, MovesOne DEF Processes, Evolves, QueueInv
<1>3. CallOf(p) = NoRequest /\ CallOf(p)' = r /\ AnswerOf(p)' = "none"
  BY <1>1, <1>2 DEF CallOf, AnswerOf, At, Queueing, Resting
<1>4. /\ CallsNow[p] = NoRequest
      /\ CallsNow' = [CallsNow EXCEPT ![p] = r]
      /\ AnswersNow' = [AnswersNow EXCEPT ![p] = "none"]
  BY <1>2, <1>3, CallsOfOne
<1>5. IncrementsNow' = IncrementsNow
  BY <1>1, BoardKept
<1>6. \A o \in r.after : IncrementsNow[o] # NoIncrement
  <2>1. r \in Every
    BY DEF Every
  <2>2. AllThere(r)
    BY <2>1, QueuedWhenAllThere DEF Queue, Evolves, QueueInv
  <2> QED
    BY <2>1, <2>2, AllThereStand DEF Evolves
<1>7. OneWrite!Queue(p, r)
  BY <1>4, <1>5, <1>6 DEF OneWrite!Queue, OneWrite!There, OneWrite!Answers
<1> QED
  BY <1>7 DEF Refines, OneWrite!Next

LEMMA SetStateRefines ==
  ASSUME Evolves, NEW w \in Processes, SetStateWrite(w),
         CallsNow' = CallsNow, AnswersNow' = AnswersNow
  PROVE  Refines
<1> DEFINE i == job[w].item
           goal == job[w].goal
           x == IF goal = "withdrawn" THEN [issue[i] EXCEPT !.closed = "not_planned"]
                                      ELSE [issue[i] EXCEPT !.status = goal]
<1>1. i \in Ids /\ issue[i] \in Issues
  BY ItemIsKnown DEF SetStateWrite, At, BeforeAnItem, Evolves, QueueInv, Good, TypeOK
<1>2. issue' = [issue EXCEPT ![i] = x]
  BY DEF SetStateWrite
<1>3. /\ x.committed = issue[i].committed /\ x.claimed = issue[i].claimed
      /\ x.closed \in {issue[i].closed, "not_planned"}
  BY <1>1 DEF Issues
<1> HIDE DEF i, x
<1> QED
  BY <1>1, <1>2, <1>3, Rewritten

LEMMA PlannerRefines ==
  ASSUME Evolves, NEW p \in Planners, PlannerMoves(p)
  PROVE  Refines
<1>1. p \in Processes /\ \A v \in Processes \ {p} : job'[v] = job[v]
  BY MoveOfOne, MovesOne DEF Evolves, QueueInv
<1>2. CASE Commit(p)
  BY <1>2, CommitRefines
<1>3. CASE SetStateWrite(p)
  <2>1. job[p].step = "set_write" /\ job'[p].step \in {"idle", "tag"}
    <3>1. job'[p] = AfterSet(p) /\ job[p] \in Jobs
      BY <1>1, <1>3, MovesOne DEF SetStateWrite, Evolves, QueueInv, Good, TypeOK
    <3>2. [job[p] EXCEPT !.step = "tag"].step = "tag" /\ Idle.step = "idle"
      BY <3>1 DEF Jobs, Idle
    <3> QED
      BY <1>3, <3>1, <3>2 DEF AfterSet, SetStateWrite, At
  <2>2. CallOf(p)' = CallOf(p) /\ AnswerOf(p)' = AnswerOf(p)
    BY <2>1 DEF CallOf, AnswerOf, At, Queueing
  <2>3. CallsNow' = CallsNow /\ AnswersNow' = AnswersNow
    BY <1>1, <2>2, CallGoesOn
  <2> QED
    BY <1>1, <1>3, <2>3, SetStateRefines
<1>4. CASE ~ Commit(p) /\ ~ SetStateWrite(p)
  <2>1. IncrementsNow' = IncrementsNow
    BY <1>4, UnseenSteps
  <2>2. CASE job'[p].step = "returned"
    BY <2>2, ReturningRefines
  <2>3. CASE job'[p].step \in Queueing
    <3>1. ASSUME NEW r \in Requests[p], Queue(p, r), r.parent \in Scope
          PROVE  Refines
      BY <3>1, QueueRefines
    <3>2. CASE job[p].step \in Queueing /\ job'[p].request = job[p].request
      <4>1. CallOf(p)' = CallOf(p) /\ AnswerOf(p)' = AnswerOf(p)
        BY <2>3, <3>2 DEF CallOf, AnswerOf, At, Queueing
      <4>2. CallsNow' = CallsNow /\ AnswersNow' = AnswersNow
        BY <1>1, <4>1, CallGoesOn
      <4> QED
        BY <2>1, <4>2, Silent
    <3> QED
      BY <2>3, <3>1, <3>2, KeepsItsRow DEF Evolves, QueueInv
  <2>4. CASE job'[p].step \notin Queueing \cup {"returned"}
    BY <1>1, <2>1, <2>4, EndsInNothing
  <2> QED
    BY <2>2, <2>3, <2>4
<1> QED
  BY <1>2, <1>3, <1>4

(* The tag goes on behind increments that are closed.                      *)
LEMMA MarkClaimRefines ==
  ASSUME Evolves, MarkClaim, CallsNow' = CallsNow, AnswersNow' = AnswersNow
  PROVE  Refines
<1> DEFINE i == job["tick"].item
           claims == job["tick"].goal = "active"
           o == issue[i].origin
<1>1. /\ "tick" \in Processes /\ At("tick", "tag") /\ Setting("tick")
      /\ issue' = [issue EXCEPT ![i].claimed = claims]
  BY DEF MarkClaim, At, Setting, Processes
<1>2. i \in Ids /\ issue[i] \in Issues
  BY <1>1, ItemIsKnown DEF At, BeforeAnItem, Evolves, QueueInv, Good, TypeOK
<1>3. issue'[i] = [issue[i] EXCEPT !.claimed = claims] /\ \A k \in Ids \ {i} : issue'[k] = issue[k]
  BY <1>1, <1>2 DEF Evolves, QueueInv, Good, TypeOK
<1>4. /\ issue'[i].committed = issue[i].committed /\ issue'[i].closed = issue[i].closed
      /\ issue'[i].claimed = claims
  BY <1>2, <1>3 DEF Issues
<1>5. CASE ~ issue[i].committed
  <2>1. IncrementsNow' = IncrementsNow
    BY <1>3, <1>4, <1>5, BoardKept
  <2> QED
    BY <2>1, Silent
<1>6. CASE issue[i].committed
  <2>1. /\ o \in Origins /\ IncrementsNow[o] # NoIncrement
        /\ IncrementsNow' =
             [IncrementsNow EXCEPT ![o] = Fated(IncrementsNow[o], claims, issue[i].closed)]
    BY <1>2, <1>3, <1>4, <1>6, OneIncrementMoves
  <2>2. IncrementsNow[o] = IncrementOf(i)
    BY <1>2, <1>6, StandsUnderItsOrigin DEF Stands, Evolves
  <2>3. Fated(IncrementsNow[o], claims, issue[i].closed)
          = [IncrementsNow[o] EXCEPT !.claimed = claims]
    <3>1. Fated(IncrementOf(i), claims, issue[i].closed)
            = [IncrementOf(i) EXCEPT !.claimed = claims]
      BY OneFieldMoves, Zenon
    <3> QED
      BY <2>2, <3>1, Zenon
  <2>4. o \in OneWrite!Origins
    BY <2>1 DEF Origins, Every, OneWrite!Origins
  <2>5. CASE ~ claims
    <3>1. claims = FALSE
      BY <2>5
    <3>2. OneWrite!Release(o)
      BY <2>1, <2>3, <3>1 DEF OneWrite!Release, OneWrite!There
    <3> QED
      BY <2>4, <3>2 DEF Refines, OneWrite!Next
  <2>6. CASE claims
    <3>1. claims = TRUE
      BY <2>6
    <3>2. \A d \in issue[i].preds : IsClosed(d)
      BY <1>1, <2>6 DEF Evolves, QueueInv, BoardInv, JobFits, ClaimsTheUnblocked, Unblocked
    <3>3. \A d \in issue[i].preds : IncrementsNow[issue[d].origin].closed # "open"
      <4> SUFFICES ASSUME NEW d \in issue[i].preds
                   PROVE  IncrementsNow[issue[d].origin].closed # "open"
        OBVIOUS
      <4>1. d \in Ids /\ issue[d].committed
        <5>1. PICK r \in Every : AsAsked(i, r)
          BY <1>2, <1>6 DEF Evolves, QueueInv, MatchInv
        <5> QED
          BY <5>1 DEF AsAsked, Matches, IncrementIds, Known, Partial
      <4>2. IncrementsNow[issue[d].origin] = IncrementOf(d)
        BY <4>1, StandsUnderItsOrigin DEF Stands, Evolves
      <4>3. IncrementOf(d).closed = issue[d].closed
        BY DEF IncrementOf
      <4> QED
        BY <3>2, <4>2, <4>3 DEF IsClosed
    <3>4. IncrementOf(i).after = {issue[d].origin : d \in issue[i].preds}
      BY Zenon DEF IncrementOf
    <3>5. \A u \in IncrementsNow[o].after : IncrementsNow[u].closed # "open"
      BY <2>2, <3>3, <3>4
    <3>6. OneWrite!Claim(o)
      BY <2>1, <2>3, <3>1, <3>5 DEF OneWrite!Claim, OneWrite!There
    <3> QED
      BY <2>4, <3>6 DEF Refines, OneWrite!Next
  <2> QED
    BY <2>5, <2>6
<1> QED
  BY <1>5, <1>6

LEMMA OthersRefine ==
  ASSUME Evolves, OthersMove
  PROVE  Refines
<1>1. "tick" \in Processes /\ "tick" \notin Planners /\ Planners \subseteq Processes
  BY PlannersAssumption DEF Processes
<1>2. \A p \in Planners : job'[p] = job[p]
  BY <1>1, MoveOfOne, MovesOne DEF Evolves, QueueInv
<1>3. CallsNow' = CallsNow /\ AnswersNow' = AnswersNow
  BY <1>2, CallsKept
<1>4. CASE SetStateWrite("tick")
  BY <1>1, <1>3, <1>4, SetStateRefines
<1>5. CASE MarkClaim
  BY <1>3, <1>5, MarkClaimRefines
<1>6. CASE UNCHANGED issue
  <2>1. IncrementsNow' = IncrementsNow
    BY <1>6, BoardKept
  <2> QED
    BY <1>3, <2>1, Silent
<1>7. ASSUME NEW i \in Ids, \/ WorkflowSetsStatus(i) \/ PullRequestCloses(i)
                            \/ PersonCloses(i) \/ PersonDrags(i)
      PROVE  Refines
  <2>1. issue[i] \in Issues
    BY DEF Evolves, QueueInv, Good, TypeOK
  <2>2. CASE WorkflowSetsStatus(i) \/ PersonDrags(i)
    <3>1. PICK option : issue' = [issue EXCEPT ![i] = [issue[i] EXCEPT !.status = option]]
      BY <2>2 DEF WorkflowSetsStatus, PersonDrags, Moved
    <3> DEFINE x == [issue[i] EXCEPT !.status = option]
    <3>2. /\ x.committed = issue[i].committed /\ x.claimed = issue[i].claimed
          /\ x.closed = issue[i].closed
      BY <2>1 DEF Issues
    <3> HIDE DEF x
    <3> QED
      BY <1>3, <3>1, <3>2, Rewritten DEF x
  <2>3. CASE PullRequestCloses(i) \/ PersonCloses(i)
    <3>1. PICK why \in {"completed", "not_planned"} :
            issue' = [issue EXCEPT ![i] = [issue[i] EXCEPT !.closed = why]]
      BY <2>3 DEF PullRequestCloses, PersonCloses, Moved
    <3>2. issue[i].closed = "open"
      BY <2>3 DEF PullRequestCloses, PersonCloses, IsClosed
    <3> DEFINE x == [issue[i] EXCEPT !.closed = why]
    <3>3. /\ x.committed = issue[i].committed /\ x.claimed = issue[i].claimed
          /\ x.closed = why
      BY <2>1 DEF Issues
    <3>4. issue' = [issue EXCEPT ![i] = x]
      BY <3>1
    <3> HIDE DEF x
    <3> QED
      BY <1>3, <3>2, <3>3, <3>4, Rewritten
  <2> QED
    BY <1>7, <2>2, <2>3
<1> QED
  BY <1>4, <1>5, <1>6, <1>7
  DEF OthersMove, TickStep, Claim, Requeue, SetStateRead, Crash, Reads

(* The row a planner reads back stays as it committed it.                  *)
LEMMA RowStands ==
  ASSUME QueueInv, Good', Grows, Links, NEW p \in Planners, job'[p] = job[p]
  PROVE  ReadsBackItsRow(p)'
<1>0. PICK i, r : i = job[p].item /\ r = job[p].request
  OBVIOUS
<1> SUFFICES ASSUME At(p, "read_back")
             PROVE  r \in Requests[p] /\ issue'[i].committed /\ AsAsked(i, r)'
  BY <1>0 DEF ReadsBackItsRow, At
<1>1. i \in Ids /\ issue[i].origin # "none"
  BY <1>0, ItemIsKnown
     DEF At, Processes, BeforeAnItem, QueueInv, Good, OriginInv, OriginFromTheStart
<1>2. r \in Requests[p] /\ issue[i].committed /\ AsAsked(i, r)
  BY <1>0 DEF QueueInv, RowInv, ReadsBackItsRow
<1>3. GrowsTo(i, issue'[i]) /\ LinksTo(i, issue'[i])
  BY <1>1 DEF Grows, Links
<1>4. AllThere(r)' /\ IncrementIds(r)' = IncrementIds(r)
  BY <1>2, AllThereStays DEF AsAsked, QueueInv
<1>5. /\ issue'[i].committed /\ issue'[i].origin = issue[i].origin
      /\ issue'[i].text = issue[i].text /\ issue'[i].parent = issue[i].parent
      /\ issue'[i].preds = issue[i].preds
  BY <1>1, <1>2, <1>3 DEF GrowsTo, LinksTo
<1>6. AsAsked(i, r)'
  BY <1>2, <1>4, <1>5 DEF AsAsked, Matches
<1> QED
  BY <1>2, <1>5, <1>6

LEMMA NextKeepsRowInv ==
  ASSUME QueueInv, Good', [Next]_vars
  PROVE  RowInv'
<1> SUFFICES ASSUME NEW p \in Planners
             PROVE  ReadsBackItsRow(p)'
  BY DEF RowInv
<1>1. Grows /\ Links
  BY NextKeepsBoardInv, NextLinks DEF QueueInv
<1>2. p \in Processes /\ p # "tick" /\ "tick" \in Processes
  BY PlannersAssumption DEF Processes
<1>3. CASE job'[p] = job[p]
  BY <1>1, <1>3, RowStands
<1>4. CASE PlannerMoves(p) /\ job'[p].step = "read_back"
  <2>1. PICK i, r : i = job[p].item /\ r = job[p].request
    OBVIOUS
  <2>2. /\ job'[p].item = i /\ job'[p].request = r /\ r \in Requests[p]
        /\ issue'[i].committed /\ AsAsked(i, r)'
    BY <1>1, <1>4, <2>1, HowACallEnds, CommitsItsRow DEF QueueInv
  <2> QED
    BY <2>2 DEF ReadsBackItsRow
<1>5. CASE job'[p].step # "read_back"
  BY <1>5 DEF ReadsBackItsRow, At
<1>6. ASSUME NEW q \in Planners, PlannerMoves(q), q # p
      PROVE  job'[p] = job[p]
  BY <1>2, <1>6, MoveOfOne, MovesOne DEF QueueInv
<1>7. ASSUME OthersMove
      PROVE  job'[p] = job[p]
  BY <1>2, <1>7, MoveOfOne, MovesOne DEF QueueInv
<1> QED
  BY <1>3, <1>4, <1>5, <1>6, <1>7, PlannerOrOther

LEMMA QueueInvHolds == Spec => []QueueInv
<1>1. Init => RowInv
  BY DEF Init, Idle, RowInv, ReadsBackItsRow, At, Processes
<1>2. Good /\ BoardInv /\ MatchInv /\ LinksNameItems /\ RowInv => QueueInv
  BY DEF QueueInv
<1>3. QueueInv /\ Good' /\ [Next]_vars => RowInv'
  BY NextKeepsRowInv
<1> QED
  BY <1>1, <1>2, <1>3, MatchInvHolds, LinksNameItemsHolds, PTL DEF Spec

LEMMA EveryIncrementStands == QueueInv => AllStand
BY StandsUnderItsOrigin DEF AllStand

LEMMA InitRefines == Init => OneWrite!Init
<1> SUFFICES ASSUME Init
             PROVE  OneWrite!Init
  OBVIOUS
<1>1. \A o \in Origins : IncrementsNow[o] = NoIncrement
  <2>1. \A o \in Origins : Increments(o) = {}
    BY DEF Init, Increments, Carrying, Known, Exists
  <2> QED
    BY <2>1, NobodyStands
<1>2. IncrementsNow = [o \in OneWrite!Origins |-> NoIncrement]
  BY <1>1 DEF IncrementsNow, Origins, Every, OneWrite!Origins
<1>3. /\ CallsNow = [p \in Planners |-> NoRequest]
      /\ AnswersNow = [p \in Planners |-> "none"]
  BY DEF Init, Idle, CallsNow, AnswersNow, At, Queueing, Processes
<1> QED
  BY <1>2, <1>3 DEF OneWrite!Init

LEMMA NextRefines ==
  ASSUME QueueInv, Good', AllStand', [Next]_vars
  PROVE  Refines
<1>1. Evolves
  BY NextKeepsBoardInv, NextLinks DEF Evolves, QueueInv
<1> QED
  BY <1>1, PlannerOrOther, PlannerRefines, OthersRefine

(* create_increment, "one business write": for any planners, rows, scope   *)
(* and bounds, the writes of a queueing, cut off anywhere, retried,        *)
(* finished by a later call and raced by the tick and by people, are one   *)
(* write to everyone else: a whole row, behind increments that are there,  *)
(* or nothing; and what stands is claimed, released and closed, no more.   *)
THEOREM QueueingIsOneWrite == Spec => ImplementsAtomicQueue
<1>1. Init => OneWrite!Init
  BY InitRefines
<1>2. QueueInv /\ Good' /\ AllStand' /\ [Next]_vars => [OneWrite!Next]_(OneWrite!vars)
  BY NextRefines DEF Refines
<1>3. QueueInv => Good /\ AllStand
  BY EveryIncrementStands DEF QueueInv
<1> QED
  BY <1>1, <1>2, <1>3, QueueInvHolds, PTL DEF Spec, ImplementsAtomicQueue, OneWrite!Spec

=============================================================================
