-------------------------- MODULE IncrementVerbs --------------------------
(***************************************************************************)
(* The verbs of squadra.increments on a GitHub board: planners queue and   *)
(* withdraw increments by Origin while the supervisor tick claims and      *)
(* requeues them and people move them by hand.  Queueing is several GitHub *)
(* writes, so a planner may die between any two of them; the retry has to  *)
(* find the partial item and finish it (squadra.github_board).             *)
(*                                                                         *)
(* A step is one read or one write of GitHub.                              *)
(***************************************************************************)
EXTENDS FiniteSets, Naturals

CONSTANTS
  Planners,    \* processes that run `squadra board queue` and `withdraw`
  Requests,    \* planner -> requests it makes: predecessors named by Origin
  Scope,       \* parents inside [board].claim_scope
  Drags,       \* Status options people drag an issue to
  Workflow,    \* the project's "Item added" workflow sets a queued Status
  MaxIssues,   \* bound: issues on the board
  MaxMoves,    \* bound: moves by hand
  MaxCrashes   \* bound: processes that die, or gh calls that fail

Every == UNION {Requests[p] : p \in Planners}
Origins == {r.origin : r \in Every}
Parents == {r.parent : r \in Every}
Texts == {r.text : r \in Every}
Options == {"queued", "active", "done"}

ASSUME PlannersAssumption == "tick" \notin Planners
ASSUME RequestsAssumption ==
  /\ \A r \in Every :
       r.after \subseteq Origins /\ IsFiniteSet(r.after) /\ r.origin \notin r.after
  /\ "none" \notin Origins \cup Parents \cup Texts
(* Two planners never queue under one Origin: nothing arbitrates there.    *)
ASSUME OneOwnerAssumption ==
  \A p, q \in Planners : \A r \in Requests[p], s \in Requests[q] :
    r.origin = s.origin => p = q
ASSUME VerbBoundsAssumption ==
  /\ MaxIssues \in Nat /\ MaxMoves \in Nat /\ MaxCrashes \in Nat
  /\ Workflow \in BOOLEAN /\ Drags \subseteq Options

VARIABLES
  issue,    \* GitHub: issue number -> the issue and its project item
  job,      \* process -> the call it is in, and how far
  moves,    \* bound counter
  crashes   \* bound counter

vars == <<issue, job, moves, crashes>>

-----------------------------------------------------------------------------
(* Issues and where they stand.                                            *)

Ids == 1 .. MaxIssues

(* The Origin rides in the body; title and body are one text.              *)
Issues ==
  [origin : Origins \cup {"none"}, text : Texts \cup {"none"},
   parent : Parents \cup {"none"}, preds : SUBSET Ids,
   on_project : BOOLEAN, status : Options \cup {"none"}, committed : BOOLEAN,
   closed : {"open", "completed", "not_planned"}, claimed : BOOLEAN]

NoIssue ==
  [origin |-> "none", text |-> "none", parent |-> "none", preds |-> {},
   on_project |-> FALSE, status |-> "none", committed |-> FALSE,
   closed |-> "open", claimed |-> FALSE]

NewIssue(r) == [NoIssue EXCEPT !.origin = r.origin, !.text = r.text]

Exists(i) == issue[i] # NoIssue
Known == {i \in Ids : Exists(i)}
Partial(i) == Exists(i) /\ ~ issue[i].committed

(* Closure wins over Status.                                               *)
Native(i) ==
  IF issue[i].closed = "open" THEN issue[i].status ELSE issue[i].closed

(* Mutation: an issue is in the bucket of its Status before it is          *)
(* committed.                                                              *)
BucketOfAny(i) ==
  CASE Native(i) = "completed"   -> "done"
    [] Native(i) = "not_planned" -> "withdrawn"
    [] Native(i) \in {"queued", "active"} -> Native(i)
    [] OTHER -> "raises"

(* The bucket of an issue; "raises" where the adapter refuses to name one. *)
Bucket(i) ==
  IF ~ Exists(i) \/ Partial(i) THEN "raises"
  ELSE CASE Native(i) = "completed"   -> "done"
         [] Native(i) = "not_planned" -> "withdrawn"
         [] Native(i) \in {"queued", "active"} -> Native(i)
         [] OTHER -> "raises"

IsClosed(i) == issue[i].closed # "open"

(* items_with_origin raises on a committed issue without a bucket, and     *)
(* index_by_origin on an Origin carried twice.                             *)
BoardIsReadable ==
  /\ \A i \in Known : Partial(i) \/ Bucket(i) # "raises"
  /\ \A i, j \in Known : issue[i].origin = issue[j].origin => i = j

(* Mutation: only increments carry an Origin.                              *)
CarryingCommitted(o) == {i \in Known : ~ Partial(i) /\ issue[i].origin = o}

Carrying(o) == {i \in Known : issue[i].origin = o}

(* Item ids of predecessors: increments only, as `origins` reports them to *)
(* the planner, or any item, as partial_items maps them.                   *)
IncrementIds(r) == {i \in Known : ~ Partial(i) /\ issue[i].origin \in r.after}
CarriedIds(r) == UNION {Carrying(o) : o \in r.after}

-----------------------------------------------------------------------------
(* The rules of the verbs: an item against a request for its Origin.       *)

Matches(i, r, ids) ==
  /\ issue[i].parent = r.parent
  /\ issue[i].preds = ids
  /\ issue[i].text = r.text

(* Mutation: a parent that is already set goes unread.                     *)
FinishesAnyParent(i, r, ids) ==
  /\ issue[i].preds \subseteq ids
  /\ issue[i].text = r.text

Finishes(i, r, ids) ==
  /\ issue[i].parent \in {"none", r.parent}
  /\ issue[i].preds \subseteq ids
  /\ issue[i].text = r.text

(* Mutation: predecessors compare as check_queue_matches compares them.    *)
ReportMatches(i, r) ==
  Finishes(i, r, CarriedIds(r)) /\ issue[i].preds = CarriedIds(r)

(* The verdict of partial_items on a request the planner has yet to make.  *)
ReportFinishes(i, r) == Finishes(i, r, CarriedIds(r))

(* The writes left of create_increment, from the issue as it was fetched.  *)
Todo(i, r, ids) ==
  [parent  |-> issue[i].parent = "none",
   preds   |-> ids \ issue[i].preds,
   project |-> ~ issue[i].on_project,
   status  |-> issue[i].status # "queued"]

Nothing == [parent |-> FALSE, preds |-> {}, project |-> FALSE, status |-> FALSE]
Everything(ids) == [parent |-> TRUE, preds |-> ids, project |-> TRUE, status |-> TRUE]

-----------------------------------------------------------------------------
(* A process is idle or in one call.                                       *)

Processes == Planners \cup {"tick"}
Steps ==
  {"idle", "look", "create", "fetch", "write", "read_back", "returned",
   "look_up", "recheck", "set_read", "set_write", "tag"}
NoRequest == [origin |-> "none", parent |-> "none", after |-> {}, text |-> "none"]
Withdrawal(o) == [NoRequest EXCEPT !.origin = o]
Jobs ==
  [step : Steps, request : Every \cup {NoRequest} \cup {Withdrawal(o) : o \in Origins},
   ids : SUBSET Ids,
   item : Ids \cup {0}, goal : {"none", "active", "queued", "withdrawn"},
   todo : [parent : BOOLEAN, preds : SUBSET Ids, project : BOOLEAN, status : BOOLEAN]]
Idle ==
  [step |-> "idle", request |-> NoRequest, ids |-> {}, item |-> 0,
   goal |-> "none", todo |-> Nothing]

At(w, step) == job[w].step = step
Becomes(w, j) == job' = [job EXCEPT ![w] = j]
Goes(w, step) == Becomes(w, [job[w] EXCEPT !.step = step])
Returned(i) == [Idle EXCEPT !.step = "returned", !.item = i]
Resting(p) == job[p].step \in {"idle", "returned"}
Unbounded == UNCHANGED <<moves, crashes>>
Reads == UNCHANGED issue /\ Unbounded

Init ==
  /\ issue = [i \in Ids |-> NoIssue]
  /\ job = [w \in Processes |-> Idle]
  /\ moves = 0
  /\ crashes = 0

-----------------------------------------------------------------------------
(* queue_increment.                                                        *)

(* The planner knows an id for every predecessor: the increments `origins` *)
(* reports.  A parent outside the claim scope is refused at once.          *)
Queue(p, r) ==
  /\ Resting(p)
  /\ Cardinality(IncrementIds(r)) = Cardinality(r.after)
  /\ IF r.parent \in Scope
       THEN Becomes(p, [Idle EXCEPT !.step = "look", !.request = r, !.ids = IncrementIds(r)])
       ELSE Becomes(p, Idle)
  /\ Reads

(* Mutation: an increment found under the Origin is returned unread.       *)
AnswerAnyIncrement(p, i) ==
  CASE Partial(i) /\ Finishes(i, job[p].request, job[p].ids) ->
         [job[p] EXCEPT !.step = "fetch", !.item = i]
    [] ~ Partial(i) /\ Bucket(i) # "withdrawn" -> Returned(i)
    [] OTHER -> Idle

(* Mutation: any item found must match, a partial one too.                 *)
AnswerMatchesOnly(p, i) ==
  IF Bucket(i) = "withdrawn" \/ ~ Matches(i, job[p].request, job[p].ids) THEN Idle
  ELSE IF Partial(i) THEN [job[p] EXCEPT !.step = "fetch", !.item = i]
  ELSE Returned(i)

(* What one item carrying the Origin means for the request.                *)
Answer(p, i) ==
  LET r == job[p].request
      ids == job[p].ids
  IN  CASE Partial(i) /\ Finishes(i, r, ids) ->
             [job[p] EXCEPT !.step = "fetch", !.item = i]
        [] ~ Partial(i) /\ Bucket(i) # "withdrawn" /\ Matches(i, r, ids) -> Returned(i)
        [] OTHER -> Idle

Look(p) ==
  /\ At(p, "look")
  /\ LET carrying == Carrying(job[p].request.origin) IN
       IF ~ BoardIsReadable THEN Becomes(p, Idle)
       ELSE IF carrying = {} THEN Goes(p, "create")
       ELSE \E i \in carrying : Becomes(p, Answer(p, i))
  /\ Reads

(* Write 1.  GitHub numbers issues upwards and never reuses a number.      *)
Create(p) ==
  /\ At(p, "create")
  /\ \E i \in Ids \ Known :
       /\ \A j \in Ids : j < i => j \in Known
       /\ issue' = [issue EXCEPT ![i] = NewIssue(job[p].request)]
       /\ Becomes(p, [job[p] EXCEPT !.step = "write", !.item = i, !.todo = Everything(job[p].ids)])
  /\ Unbounded

(* Finishing reads the partial item again, and refuses a closed one.       *)
Fetch(p) ==
  /\ At(p, "fetch")
  /\ LET i == job[p].item IN
       IF Partial(i) /\ issue[i].origin = job[p].request.origin /\ ~ IsClosed(i)
         THEN Becomes(p, [job[p] EXCEPT !.step = "write",
                                        !.todo = Todo(i, job[p].request, job[p].ids)])
         ELSE Becomes(p, Idle)
  /\ Reads

(* GitHub refuses a second parent, and the verb fails.                     *)
LinkParent(p) ==
  /\ At(p, "write") /\ job[p].todo.parent
  /\ LET i == job[p].item IN
       IF issue[i].parent = "none"
         THEN /\ issue' = [issue EXCEPT ![i].parent = job[p].request.parent]
              /\ Becomes(p, [job[p] EXCEPT !.todo.parent = FALSE])
         ELSE Becomes(p, Idle) /\ UNCHANGED issue
  /\ Unbounded

LinkPredecessor(p) ==
  /\ At(p, "write") /\ ~ job[p].todo.parent
  /\ \E d \in job[p].todo.preds :
       /\ issue' = [issue EXCEPT ![job[p].item].preds = @ \cup {d}]
       /\ Becomes(p, [job[p] EXCEPT !.todo.preds = @ \ {d}])
  /\ Unbounded

Linked(p) == At(p, "write") /\ ~ job[p].todo.parent /\ job[p].todo.preds = {}

AddToProject(p) ==
  /\ Linked(p) /\ job[p].todo.project
  /\ issue' = [issue EXCEPT ![job[p].item].on_project = TRUE]
  /\ Becomes(p, [job[p] EXCEPT !.todo.project = FALSE])
  /\ Unbounded

SetQueued(p) ==
  /\ Linked(p) /\ ~ job[p].todo.project /\ job[p].todo.status
  /\ issue' = [issue EXCEPT ![job[p].item].status = "queued"]
  /\ Becomes(p, [job[p] EXCEPT !.todo.status = FALSE])
  /\ Unbounded

(* Mutation: the marker goes on before the Status.                         *)
CommitBeforeStatus(p) ==
  /\ Linked(p) /\ ~ job[p].todo.project
  /\ issue' = [issue EXCEPT ![job[p].item].committed = TRUE]
  /\ Goes(p, "read_back")
  /\ Unbounded

Commit(p) ==
  /\ At(p, "write") /\ job[p].todo = Nothing
  /\ issue' = [issue EXCEPT ![job[p].item].committed = TRUE]
  /\ Goes(p, "read_back")
  /\ Unbounded

(* A tick, a person or a workflow may have moved the item already: the     *)
(* verb then fails although the item is committed.                         *)
ReadBack(p) ==
  /\ At(p, "read_back")
  /\ IF Bucket(job[p].item) = "queued"
       THEN Becomes(p, Returned(job[p].item))
       ELSE Becomes(p, Idle)
  /\ Reads

-----------------------------------------------------------------------------
(* withdraw_increment.                                                     *)

Withdraw(p, o) ==
  /\ Resting(p)
  /\ Becomes(p, [Idle EXCEPT !.step = "look_up", !.request = Withdrawal(o)])
  /\ Reads

(* Only an increment in scope can be withdrawn; a partial item counts as   *)
(* absent.                                                                 *)
LookUp(p) ==
  /\ At(p, "look_up")
  /\ LET found == {i \in Carrying(job[p].request.origin) :
                     ~ Partial(i) /\ issue[i].parent \in Scope}
     IN  IF BoardIsReadable /\ found # {}
           THEN \E i \in found :
                  Becomes(p, [Idle EXCEPT !.step = "recheck", !.item = i])
           ELSE Becomes(p, Idle)
  /\ Reads

(* check_transition refuses active and done; withdrawn needs no write.     *)
NeedsWithdrawal(i) == Bucket(i) = "queued"

Recheck(p) ==
  /\ At(p, "recheck")
  /\ IF NeedsWithdrawal(job[p].item)
       THEN Becomes(p, [job[p] EXCEPT !.step = "set_read", !.goal = "withdrawn"])
       ELSE Becomes(p, Idle)
  /\ Reads

-----------------------------------------------------------------------------
(* set_state, for a planner's withdrawal and for the tick: one read, then  *)
(* one write that trusts it.                                               *)

AfterSet(w) ==
  IF job[w].goal = "active" THEN [job[w] EXCEPT !.step = "tag"] ELSE Idle

SetStateRead(w) ==
  /\ At(w, "set_read")
  /\ LET i == job[w].item IN
       IF ~ Partial(i) /\ Bucket(i) = job[w].goal THEN Becomes(w, AfterSet(w))
       ELSE IF Partial(i) \/ IsClosed(i) THEN Becomes(w, Idle)
       ELSE Goes(w, "set_write")
  /\ Reads

(* Mutation: the bucket is written where GitHub takes a close reason.      *)
CloseIntoBucket(w) ==
  /\ At(w, "set_write")
  /\ LET i == job[w].item
         goal == job[w].goal
     IN  issue' = IF goal = "withdrawn"
                    THEN [issue EXCEPT ![i].closed = goal]
                    ELSE [issue EXCEPT ![i].status = goal]
  /\ Becomes(w, AfterSet(w))
  /\ Unbounded

SetStateWrite(w) ==
  /\ At(w, "set_write")
  /\ LET i == job[w].item
         goal == job[w].goal
     IN  issue' = IF goal = "withdrawn"
                    THEN [issue EXCEPT ![i].closed = "not_planned"]
                    ELSE [issue EXCEPT ![i].status = goal]
  /\ Becomes(w, AfterSet(w))
  /\ Unbounded

(* The tick's gather finds an increment it may claim: queued, in scope,    *)
(* every predecessor it reads done.                                        *)
Claim(i) ==
  /\ At("tick", "idle")
  /\ Bucket(i) = "queued"
  /\ issue[i].parent \in Scope
  /\ \A d \in issue[i].preds : Bucket(d) = "done"
  /\ Becomes("tick", [Idle EXCEPT !.step = "set_read", !.item = i, !.goal = "active"])
  /\ Reads

(* ... and one to retry or roll back: in flight, to be queued again.       *)
Requeue(i) ==
  /\ At("tick", "idle")
  /\ Bucket(i) = "active" /\ issue[i].claimed
  /\ Becomes("tick", [Idle EXCEPT !.step = "tag", !.item = i, !.goal = "queued"])
  /\ Reads

(* The claim tag goes on once the item is active, and off before it is     *)
(* queued again.                                                           *)
MarkClaim ==
  /\ At("tick", "tag")
  /\ LET claims == job["tick"].goal = "active" IN
       /\ issue' = [issue EXCEPT ![job["tick"].item].claimed = claims]
       /\ IF claims THEN Becomes("tick", Idle) ELSE Goes("tick", "set_read")
  /\ Unbounded

-----------------------------------------------------------------------------
(* Everyone else.                                                          *)

(* A process dies, or the gh call it is about to make fails.               *)
Crash(w) ==
  /\ crashes < MaxCrashes
  /\ ~ At(w, "idle") /\ ~ At(w, "returned")
  /\ crashes' = crashes + 1
  /\ Becomes(w, Idle)
  /\ UNCHANGED <<issue, moves>>

(* The "Item added to project" workflow fills an empty Status.             *)
WorkflowSetsStatus(i) ==
  /\ Workflow
  /\ issue[i].on_project /\ issue[i].status = "none"
  /\ issue' = [issue EXCEPT ![i].status = "queued"]
  /\ UNCHANGED <<job, moves, crashes>>

(* The pull request of a claimed increment is merged and closes its issue. *)
PullRequestCloses(i) ==
  /\ issue[i].claimed /\ ~ IsClosed(i)
  /\ issue' = [issue EXCEPT ![i].closed = "completed"]
  /\ UNCHANGED <<job, moves, crashes>>

(* A person closes an issue, or drags its project item.                    *)
Moved(i, changed) ==
  /\ Exists(i) /\ moves < MaxMoves
  /\ issue' = [issue EXCEPT ![i] = changed]
  /\ moves' = moves + 1
  /\ UNCHANGED <<job, crashes>>

PersonCloses(i) ==
  /\ ~ IsClosed(i)
  /\ \E why \in {"completed", "not_planned"} : Moved(i, [issue[i] EXCEPT !.closed = why])

PersonDrags(i) ==
  /\ issue[i].on_project
  /\ \E option \in Drags \ {issue[i].status} :
       Moved(i, [issue[i] EXCEPT !.status = option])

-----------------------------------------------------------------------------

PlannerStep(p) ==
  \/ Look(p) \/ Create(p) \/ Fetch(p)
  \/ LinkParent(p) \/ LinkPredecessor(p) \/ AddToProject(p) \/ SetQueued(p)
  \/ Commit(p) \/ ReadBack(p)
  \/ LookUp(p) \/ Recheck(p)
  \/ SetStateRead(p) \/ SetStateWrite(p)

TickStep ==
  \/ \E i \in Ids : Claim(i) \/ Requeue(i)
  \/ SetStateRead("tick") \/ SetStateWrite("tick") \/ MarkClaim

Calls ==
  \E p \in Planners : \E r \in Requests[p] : Queue(p, r) \/ Withdraw(p, r.origin)

Environment ==
  \/ \E w \in Processes : Crash(w)
  \/ \E i \in Ids :
       \/ WorkflowSetsStatus(i) \/ PullRequestCloses(i)
       \/ PersonCloses(i) \/ PersonDrags(i)

Next == Calls \/ (\E p \in Planners : PlannerStep(p)) \/ TickStep \/ Environment

(* A process that runs finishes its call, and a planner queues every row   *)
(* it has a turn for again: its reconcile does not see a partial item.     *)
Fairness ==
  \A p \in Planners :
    WF_vars(PlannerStep(p)) /\ \A r \in Requests[p] : SF_vars(Queue(p, r))

Spec == Init /\ [][Next]_vars /\ Fairness

-----------------------------------------------------------------------------
(* Properties.                                                             *)

TypeOK ==
  /\ issue \in [Ids -> Issues]
  /\ job \in [Processes -> Jobs]
  /\ moves \in 0 .. MaxMoves
  /\ crashes \in 0 .. MaxCrashes

(* index_by_origin, items_with_origin: whatever a crashed create left      *)
(* behind, no retry ever puts a second item under its Origin.              *)
OneItemPerOrigin ==
  \A i, j \in Known : issue[i].origin = issue[j].origin => i = j

Requested(i) == {r \in Every : r.origin = issue[i].origin}

(* check_queue_finishes: an item a retry finished is what some one request *)
(* asked for, never the links of two requests mixed.                       *)
CommittedIsOneRequest ==
  \A i \in Known : issue[i].committed =>
    \E r \in Requested(i) : Matches(i, r, IncrementIds(r))

(* Obligation 2 of create_increment: a retry may add links to an item that *)
(* has a queued Status already, from its first create, a workflow or a     *)
(* person; still no increment is claimed while it is incomplete, or while  *)
(* something it is linked behind is open.                                  *)
ClaimedBehindItsPredecessors ==
  \A i \in Known : issue[i].claimed =>
    issue[i].committed /\ \A d \in issue[i].preds : IsClosed(d)

(* queue_increment: an id is returned only for an increment that is what   *)
(* was asked for, created, finished or found, through any race with the    *)
(* tick and with people.                                                   *)
ReturnedIsWhatWasAsked ==
  [][\A p \in Planners :
       job'[p].step = "returned" /\ job'[p] # job[p] =>
         /\ issue[job'[p].item].committed
         /\ Matches(job'[p].item, job[p].request, job[p].ids)]_vars

(* items_with_origin raises for one committed issue without a bucket, and  *)
(* with it every verb on the board: no create, finished, interrupted or    *)
(* retried, and no race with the tick leaves such an issue.  Only a person *)
(* does who drags an open one to a done Status.                            *)
EveryIncrementHasABucket ==
  \A i \in Known : Bucket(i) # "raises" \/ Partial(i) \/ issue[i].status = "done"

(* partial_items: its verdict on a request outlives the queueing of the    *)
(* predecessors it could not map yet: only a write to the partial item     *)
(* changes it.                                                             *)
VerdictOutlivesNewItems ==
  [][\A i \in Known : Partial(i) /\ issue'[i] = issue[i] =>
       \A r \in Requested(i) : ReportFinishes(i, r) <=> ReportFinishes(i, r)']_vars

(* N8: a create that died part-way is finished by the planner's retries,   *)
(* unless a person closed the item or the board cannot be read.            *)
PartialItemsGetFinished ==
  \A i \in Ids :
    Partial(i) ~> issue[i].committed \/ IsClosed(i) \/ ~ BoardIsReadable

-----------------------------------------------------------------------------
(* Queueing looks like one write.                                          *)

Queueing == {"look", "create", "fetch", "write", "read_back"}

NoIncrement ==
  [parent |-> "none", text |-> "none", after |-> {}, claimed |-> FALSE, closed |-> "open"]

(* An issue as the planner who queued it names things: by Origin.          *)
IncrementOf(i) ==
  [parent |-> issue[i].parent, text |-> issue[i].text,
   after |-> {issue[d].origin : d \in issue[i].preds},
   claimed |-> issue[i].claimed, closed |-> issue[i].closed]

Increments(o) == {i \in Carrying(o) : ~ Partial(i)}

IncrementsNow ==
  [o \in Origins |->
     IF Increments(o) = {} THEN NoIncrement ELSE IncrementOf(CHOOSE i \in Increments(o) : TRUE)]

CallsNow ==
  [p \in Planners |-> IF job[p].step \in Queueing THEN job[p].request ELSE NoRequest]

AnswersNow ==
  [p \in Planners |-> IF At(p, "returned") THEN issue[job[p].item].origin ELSE "none"]

OneWrite ==
  INSTANCE AtomicQueue WITH
    Absent <- NoIncrement, NoAnswer <- "none",
    increment <- IncrementsNow, call <- CallsNow, answer <- AnswersNow

(* BoardAccess.create_increment, "one business write": the six and more    *)
(* writes of a queueing, interrupted anywhere, retried, and finished by a  *)
(* later call, are to planners, tick and people one write that puts a      *)
(* whole row behind increments that are there, or none at all.             *)
ImplementsAtomicQueue == OneWrite!Spec

-----------------------------------------------------------------------------
(* Why an Origin stays unique.                                             *)

(* Obligation 1: an item never exists without its Origin.                  *)
OriginFromTheStart == \A i \in Known : issue[i].origin # "none"

BeforeAnItem == {"idle", "look", "create", "look_up"}

JobsNameItems == \A w \in Processes : job[w].step \notin BeforeAnItem => job[w].item \in Known

RowsAreOwn ==
  \A p \in Planners : job[p].step \in {"look", "create"} => job[p].request \in Requests[p]

(* What a planner read absent is absent until it creates it: no one else   *)
(* creates under its Origins.                                              *)
CreatorsAreAlone ==
  \A p \in Planners : At(p, "create") => Carrying(job[p].request.origin) = {}

OriginInv ==
  /\ OriginFromTheStart
  /\ JobsNameItems
  /\ RowsAreOwn
  /\ CreatorsAreAlone
  /\ OneItemPerOrigin

=============================================================================
