------------------------ MODULE IncrementVerbs_proofs ------------------------
(***************************************************************************)
(* What holds of the verbs for any planners, requests, scope and bounds.   *)
(***************************************************************************)
EXTENDS IncrementVerbs, TLAPS

USE DEF vars

Good == TypeOK /\ OriginInv

(* What a call may become without breaking the invariant.                  *)
GoodJob(w, j) ==
  /\ j \in Jobs
  /\ j.step \notin BeforeAnItem => j.item \in Known
  /\ w \in Planners /\ j.step \in {"look", "create"} => j.request \in Requests[w]
  /\ w \in Planners /\ j.step = "create" => Carrying(j.request.origin) = {}

(* A write to GitHub that is not the first of a create.                    *)
RewritesKnown ==
  /\ issue' \in [Ids -> Issues]
  /\ \A i \in Ids :
       issue'[i] = issue[i] \/ (i \in Known /\ issue'[i].origin = issue[i].origin)

BoundsKept == moves' \in 0 .. MaxMoves /\ crashes' \in 0 .. MaxCrashes

-----------------------------------------------------------------------------

LEMMA InitGood == Init => Good
<1> SUFFICES ASSUME Init PROVE Good
  OBVIOUS
<1>1. NoIssue \in Issues /\ Idle \in Jobs
  BY DEF NoIssue, Issues, Idle, Jobs, Steps, Nothing
<1>2. TypeOK
  BY <1>1, VerbBoundsAssumption DEF Init, TypeOK
<1>3. Known = {}
  BY DEF Init, Known, Exists
<1>4. \A w \in Processes : job[w].step = "idle"
  BY DEF Init, Idle
<1>5. Planners \subseteq Processes
  BY DEF Processes
<1> QED
  BY <1>2, <1>3, <1>4, <1>5 DEF Good, OriginInv, OriginFromTheStart, JobsNameItems, BeforeAnItem,
     RowsAreOwn, CreatorsAreAlone, OneItemPerOrigin, At

(* An issue exists as soon as it carries an Origin, and not before.        *)
LEMMA KnownByOrigin ==
  ASSUME OriginFromTheStart, NEW i \in Ids
  PROVE  i \in Known <=> issue[i].origin # "none"
BY DEF OriginFromTheStart, Known, Exists, NoIssue

LEMMA StepKeepsGood ==
  ASSUME Good, RewritesKnown, BoundsKept,
         NEW w \in Processes, NEW j, Becomes(w, j), GoodJob(w, j)
  PROVE  Good'
<1> USE DEF Good, OriginInv
<1>1. TypeOK'
  BY DEF TypeOK, Becomes, GoodJob, RewritesKnown, BoundsKept
<1>2. Known' = Known
  BY KnownByOrigin DEF RewritesKnown, Known, Exists, OriginFromTheStart, NoIssue
<1>3. \A i \in Ids : issue'[i].origin = issue[i].origin
  BY DEF RewritesKnown
<1>4. \A o : Carrying(o)' = Carrying(o)
  BY <1>2, <1>3 DEF Carrying, Known
<1>5. \A v \in Processes : job'[v] = IF v = w THEN j ELSE job[v]
  BY DEF TypeOK, Becomes
<1>6. Planners \subseteq Processes
  BY DEF Processes
<1>7. OriginFromTheStart'
  BY <1>2, <1>3 DEF OriginFromTheStart, Known
<1>8. JobsNameItems'
  BY <1>2, <1>5 DEF JobsNameItems, GoodJob, BeforeAnItem
<1>9. RowsAreOwn'
  BY <1>5, <1>6 DEF RowsAreOwn, GoodJob
<1>10. CreatorsAreAlone'
  BY <1>4, <1>5, <1>6 DEF CreatorsAreAlone, GoodJob, At
<1>11. OneItemPerOrigin'
  BY <1>2, <1>3 DEF OneItemPerOrigin, Known
<1> QED
  BY <1>1, <1>7, <1>8, <1>9, <1>10, <1>11

(* A step of GitHub or of a person leaves every call where it is.          *)
LEMMA OutsideKeepsGood ==
  ASSUME Good, RewritesKnown, BoundsKept, UNCHANGED job
  PROVE  Good'
<1>1. "tick" \in Processes
  BY DEF Processes
<1>2. Becomes("tick", job["tick"])
  BY DEF Good, TypeOK, Becomes
<1>3. GoodJob("tick", job["tick"])
  BY <1>1, PlannersAssumption DEF Good, TypeOK, OriginInv, JobsNameItems, GoodJob
<1> QED
  BY <1>1, <1>2, <1>3, StepKeepsGood

LEMMA UnboundedKept == Good /\ Unbounded => BoundsKept
BY DEF Good, TypeOK, Unbounded, BoundsKept

LEMMA ReadsRewrite == Good /\ Reads => RewritesKnown /\ BoundsKept
BY UnboundedKept DEF Good, TypeOK, Reads, RewritesKnown

LEMMA IdleIsGood == \A w : GoodJob(w, Idle)
BY DEF GoodJob, Idle, Jobs, Steps, Nothing, BeforeAnItem

(* The item a call is about.                                               *)
LEMMA ItemIsKnown ==
  ASSUME Good, NEW w \in Processes, job[w].step \notin BeforeAnItem
  PROVE  job[w].item \in Known /\ job[w].item \in Ids
BY DEF Good, OriginInv, JobsNameItems, Known

LEMMA JobType ==
  ASSUME Good, NEW w \in Processes
  PROVE  /\ job[w] \in Jobs
         /\ \A step \in Steps \ {"look", "create"} :
              /\ job[w].step \notin BeforeAnItem \/ step \in BeforeAnItem
              => GoodJob(w, [job[w] EXCEPT !.step = step])
         /\ \A i \in Known, step \in Steps \ {"look", "create"} :
              GoodJob(w, [job[w] EXCEPT !.step = step, !.item = i])
<1>1. job[w] \in Jobs
  BY DEF Good, TypeOK
<1>2. Known \subseteq Ids
  BY DEF Known
<1> QED
  BY <1>1, <1>2, ZenonT(60) DEF Good, OriginInv, JobsNameItems, GoodJob, Jobs

-----------------------------------------------------------------------------
(* queue_increment.                                                        *)

LEMMA QueueGood ==
  ASSUME Good, NEW p \in Planners, NEW r \in Requests[p], Queue(p, r)
  PROVE  Good'
<1> DEFINE j == [Idle EXCEPT !.step = "look", !.request = r, !.ids = IncrementIds(r)]
<1>1. GoodJob(p, j)
  BY DEF GoodJob, Idle, Jobs, Steps, Nothing, BeforeAnItem, Every, IncrementIds, Known
<1>2. RewritesKnown /\ BoundsKept /\ p \in Processes
  BY ReadsRewrite DEF Queue, Processes
<1> QED
  BY <1>1, <1>2, IdleIsGood, StepKeepsGood DEF Queue

LEMMA LookGood ==
  ASSUME Good, NEW p \in Planners, Look(p)
  PROVE  Good'
<1>1. RewritesKnown /\ BoundsKept /\ p \in Processes
  BY ReadsRewrite DEF Look, Processes
<1>2. job[p] \in Jobs /\ job[p].request \in Requests[p]
  BY <1>1, JobType DEF Look, At, Good, OriginInv, RowsAreOwn
<1>3. ASSUME Goes(p, "create"), Carrying(job[p].request.origin) = {}
      PROVE  Good'
  <2>1. GoodJob(p, [job[p] EXCEPT !.step = "create"])
    BY <1>2, <1>3 DEF GoodJob, Jobs, Steps, BeforeAnItem
  <2> QED
    BY <1>1, <1>3, <2>1, StepKeepsGood DEF Goes
<1>4. ASSUME NEW i \in Carrying(job[p].request.origin), Becomes(p, Answer(p, i))
      PROVE  Good'
  <2>1. i \in Known
    BY DEF Carrying
  <2>2. GoodJob(p, [job[p] EXCEPT !.step = "fetch", !.item = i])
    BY <1>1, <2>1, JobType DEF Steps
  <2>3. GoodJob(p, Returned(i))
    BY <2>1 DEF GoodJob, Returned, Idle, Jobs, Steps, Nothing, BeforeAnItem, Known
  <2>4. GoodJob(p, Answer(p, i))
    BY <2>2, <2>3, IdleIsGood DEF Answer
  <2> QED
    BY <1>1, <1>4, <2>4, StepKeepsGood
<1> QED
  BY <1>1, <1>3, <1>4, IdleIsGood, StepKeepsGood DEF Look

(* The one step that puts a new item under an Origin.                      *)
LEMMA CreateGood ==
  ASSUME Good, NEW p \in Planners, Create(p)
  PROVE  Good'
<1> USE DEF Good, OriginInv
<1>1. PICK i \in Ids \ Known :
        /\ issue' = [issue EXCEPT ![i] = NewIssue(job[p].request)]
        /\ Becomes(p, [job[p] EXCEPT !.step = "write", !.item = i,
                                     !.todo = Everything(job[p].ids)])
  BY DEF Create
<1> DEFINE r == job[p].request
           j == [job[p] EXCEPT !.step = "write", !.item = i, !.todo = Everything(job[p].ids)]
<1>2. p \in Processes /\ At(p, "create") /\ r \in Requests[p] /\ Planners \subseteq Processes
  BY DEF Create, Processes, At, RowsAreOwn
<1>3. r \in Every /\ r.origin \in Origins /\ r.origin # "none"
  BY <1>2, RequestsAssumption DEF Every, Origins
<1>4. NewIssue(r) \in Issues /\ NewIssue(r).origin = r.origin /\ NewIssue(r) # NoIssue
  BY <1>3 DEF NewIssue, NoIssue, Issues, Texts
<1>5. j \in Jobs /\ j.step = "write" /\ j.item = i
  BY <1>2, ZenonT(60) DEF TypeOK, Jobs, Steps, Everything
<1>6. \A v \in Processes : job'[v] = IF v = p THEN j ELSE job[v]
  BY <1>1, <1>2 DEF TypeOK, Becomes
<1>7. \A k \in Ids : issue'[k] = IF k = i THEN NewIssue(r) ELSE issue[k]
  BY <1>1 DEF TypeOK
<1>8. Known' = Known \cup {i}
  BY <1>4, <1>7 DEF Known, Exists
<1>9. TypeOK'
  BY <1>1, <1>4, <1>5 DEF TypeOK, Create, Unbounded, Becomes
<1>10. OriginFromTheStart'
  BY <1>3, <1>4, <1>7, <1>8 DEF OriginFromTheStart, Known
<1>11. JobsNameItems'
  BY <1>5, <1>6, <1>8 DEF JobsNameItems
<1>12. RowsAreOwn'
  BY <1>2, <1>5, <1>6 DEF RowsAreOwn
<1>13. CreatorsAreAlone'
  <2> SUFFICES ASSUME NEW q \in Planners, At(q, "create")' PROVE (Carrying(job[q].request.origin) = {})'
    BY DEF CreatorsAreAlone
  <2>1. q # p /\ job'[q] = job[q] /\ At(q, "create")
    BY <1>2, <1>5, <1>6 DEF At
  <2>2. job[q].request \in Requests[q]
    BY <2>1 DEF RowsAreOwn, At
  <2>3. job[q].request.origin # r.origin
    BY <1>2, <2>1, <2>2, OneOwnerAssumption
  <2>4. Carrying(job[q].request.origin) = {}
    BY <2>1 DEF CreatorsAreAlone
  <2> QED
    BY <1>4, <1>7, <1>8, <2>1, <2>3, <2>4 DEF Carrying, Known
<1>14. OneItemPerOrigin'
  <2>1. \A k \in Known : issue[k].origin # r.origin
    BY <1>2 DEF CreatorsAreAlone, Carrying
  <2> QED
    BY <1>4, <1>7, <1>8, <2>1 DEF OneItemPerOrigin, Known
<1> QED
  BY <1>9, <1>10, <1>11, <1>12, <1>13, <1>14

LEMMA FetchGood ==
  ASSUME Good, NEW p \in Planners, Fetch(p)
  PROVE  Good'
<1> DEFINE i == job[p].item
           j == [job[p] EXCEPT !.step = "write", !.todo = Todo(i, job[p].request, job[p].ids)]
<1>1. RewritesKnown /\ BoundsKept /\ p \in Processes
  BY ReadsRewrite DEF Fetch, Processes
<1>2. job[p] \in Jobs /\ i \in Known /\ i \in Ids
  BY <1>1, JobType, ItemIsKnown DEF Fetch, At, BeforeAnItem
<1>3. issue[i] \in Issues
  BY <1>2 DEF Good, TypeOK
<1>4. Todo(i, job[p].request, job[p].ids)
        \in [parent : BOOLEAN, preds : SUBSET Ids, project : BOOLEAN, status : BOOLEAN]
  BY <1>2, <1>3 DEF Todo, Issues, Jobs
<1>5. GoodJob(p, j)
  BY <1>2, <1>4 DEF GoodJob, Jobs, Steps
<1> QED
  BY <1>1, <1>5, IdleIsGood, StepKeepsGood DEF Fetch

(* The writes that follow the first change neither an Origin nor what      *)
(* exists.                                                                 *)
LEMMA WriteGood ==
  ASSUME Good, NEW w \in Processes, Unbounded,
         job[w].step \notin BeforeAnItem,
         NEW x, issue' = [issue EXCEPT ![job[w].item] = x],
         x \in Issues, x.origin = issue[job[w].item].origin,
         NEW j, Becomes(w, j), GoodJob(w, j)
  PROVE  Good'
<1>1. RewritesKnown
  BY ItemIsKnown DEF RewritesKnown, Good, TypeOK
<1> QED
  BY <1>1, UnboundedKept, StepKeepsGood

(* What a planner has left to write stays well-formed as it shrinks.       *)
LEMMA WritesLeft ==
  ASSUME Good, NEW p \in Planners, At(p, "write"), NEW left,
         left \in [parent : BOOLEAN, preds : SUBSET Ids, project : BOOLEAN, status : BOOLEAN]
  PROVE  GoodJob(p, [job[p] EXCEPT !.todo = left])
<1>1. job[p] \in Jobs /\ job[p].item \in Known
  BY JobType, ItemIsKnown DEF At, BeforeAnItem, Processes
<1> QED
  BY <1>1 DEF GoodJob, Jobs, At

LEMMA LinkParentGood ==
  ASSUME Good, NEW p \in Planners, LinkParent(p)
  PROVE  Good'
<1> DEFINE i == job[p].item
           x == [issue[i] EXCEPT !.parent = job[p].request.parent]
<1>1. p \in Processes /\ job[p] \in Jobs /\ i \in Ids /\ i \in Known /\ At(p, "write")
  BY JobType, ItemIsKnown DEF LinkParent, At, BeforeAnItem, Processes
<1>2. CASE issue[i].parent = "none"
  <2>1. issue[i] \in Issues /\ job[p].request.parent \in Parents \cup {"none"}
    BY <1>1 DEF Good, TypeOK, Jobs, NoRequest, Withdrawal, Parents
  <2>2. x \in Issues /\ x.origin = issue[i].origin
    BY <2>1 DEF Issues
  <2>3. issue' = [issue EXCEPT ![i] = x]
    BY <1>1, <1>2 DEF LinkParent
  <2>4. [job[p].todo EXCEPT !.parent = FALSE]
          \in [parent : BOOLEAN, preds : SUBSET Ids, project : BOOLEAN, status : BOOLEAN]
    BY <1>1 DEF Jobs
  <2>5. GoodJob(p, [job[p] EXCEPT !.todo.parent = FALSE])
    BY <1>1, <2>4, WritesLeft
  <2> QED
    BY <1>1, <1>2, <2>2, <2>3, <2>5, WriteGood DEF LinkParent, At, BeforeAnItem
<1>3. CASE issue[i].parent # "none"
  <2>1. Becomes(p, Idle) /\ RewritesKnown /\ BoundsKept
    BY <1>3, ReadsRewrite DEF LinkParent, Reads
  <2> QED
    BY <1>1, <2>1, IdleIsGood, StepKeepsGood
<1> QED
  BY <1>2, <1>3

LEMMA LinkPredecessorGood ==
  ASSUME Good, NEW p \in Planners, LinkPredecessor(p)
  PROVE  Good'
<1> DEFINE i == job[p].item
<1>1. p \in Processes /\ job[p] \in Jobs /\ i \in Ids /\ i \in Known /\ At(p, "write")
  BY JobType, ItemIsKnown DEF LinkPredecessor, At, BeforeAnItem, Processes
<1>2. PICK d \in job[p].todo.preds :
        /\ issue' = [issue EXCEPT ![i].preds = @ \cup {d}]
        /\ Becomes(p, [job[p] EXCEPT !.todo.preds = @ \ {d}])
  BY DEF LinkPredecessor
<1> DEFINE x == [issue[i] EXCEPT !.preds = @ \cup {d}]
<1>3. issue[i] \in Issues /\ d \in Ids
  BY <1>1 DEF Good, TypeOK, Jobs
<1>4. x \in Issues /\ x.origin = issue[i].origin
  BY <1>3 DEF Issues
<1>5. issue' = [issue EXCEPT ![i] = x]
  BY <1>1, <1>2
<1>6. [job[p].todo EXCEPT !.preds = @ \ {d}]
        \in [parent : BOOLEAN, preds : SUBSET Ids, project : BOOLEAN, status : BOOLEAN]
  BY <1>1 DEF Jobs
<1>7. GoodJob(p, [job[p] EXCEPT !.todo.preds = @ \ {d}])
  BY <1>1, <1>6, WritesLeft
<1> QED
  BY <1>1, <1>2, <1>4, <1>5, <1>7, WriteGood DEF LinkPredecessor, At, BeforeAnItem

LEMMA AddToProjectGood ==
  ASSUME Good, NEW p \in Planners, AddToProject(p)
  PROVE  Good'
<1> DEFINE i == job[p].item
           x == [issue[i] EXCEPT !.on_project = TRUE]
<1>1. p \in Processes /\ job[p] \in Jobs /\ i \in Ids /\ i \in Known /\ At(p, "write")
  BY JobType, ItemIsKnown DEF AddToProject, Linked, At, BeforeAnItem, Processes
<1>2. x \in Issues /\ x.origin = issue[i].origin
  <2>1. issue[i] \in Issues
    BY <1>1 DEF Good, TypeOK
  <2> QED
    BY <2>1 DEF Issues
<1>3. issue' = [issue EXCEPT ![i] = x]
  BY <1>1 DEF AddToProject
<1>4. [job[p].todo EXCEPT !.project = FALSE]
        \in [parent : BOOLEAN, preds : SUBSET Ids, project : BOOLEAN, status : BOOLEAN]
  BY <1>1 DEF Jobs
<1>5. GoodJob(p, [job[p] EXCEPT !.todo.project = FALSE])
  BY <1>1, <1>4, WritesLeft
<1> QED
  BY <1>1, <1>2, <1>3, <1>5, WriteGood DEF AddToProject, At, BeforeAnItem

LEMMA SetQueuedGood ==
  ASSUME Good, NEW p \in Planners, SetQueued(p)
  PROVE  Good'
<1> DEFINE i == job[p].item
           x == [issue[i] EXCEPT !.status = "queued"]
<1>1. p \in Processes /\ job[p] \in Jobs /\ i \in Ids /\ i \in Known /\ At(p, "write")
  BY JobType, ItemIsKnown DEF SetQueued, Linked, At, BeforeAnItem, Processes
<1>2. x \in Issues /\ x.origin = issue[i].origin
  BY <1>1 DEF Good, TypeOK, Issues, Options
<1>3. issue' = [issue EXCEPT ![i] = x]
  BY <1>1 DEF SetQueued
<1>4. [job[p].todo EXCEPT !.status = FALSE]
        \in [parent : BOOLEAN, preds : SUBSET Ids, project : BOOLEAN, status : BOOLEAN]
  BY <1>1 DEF Jobs
<1>5. GoodJob(p, [job[p] EXCEPT !.todo.status = FALSE])
  BY <1>1, <1>4, WritesLeft
<1> QED
  BY <1>1, <1>2, <1>3, <1>5, WriteGood DEF SetQueued, At, BeforeAnItem

LEMMA CommitGood ==
  ASSUME Good, NEW p \in Planners, Commit(p)
  PROVE  Good'
<1> DEFINE i == job[p].item
           x == [issue[i] EXCEPT !.committed = TRUE]
<1>1. p \in Processes /\ i \in Ids /\ i \in Known /\ job[p].step = "write"
  BY ItemIsKnown DEF Commit, At, BeforeAnItem, Processes
<1>2. x \in Issues /\ x.origin = issue[i].origin
  <2>1. issue[i] \in Issues
    BY <1>1 DEF Good, TypeOK
  <2> QED
    BY <2>1 DEF Issues
<1>3. issue' = [issue EXCEPT ![i] = x]
  BY <1>1 DEF Commit
<1>4. GoodJob(p, [job[p] EXCEPT !.step = "read_back"])
  BY <1>1, JobType DEF Steps, BeforeAnItem
<1> QED
  BY <1>1, <1>2, <1>3, <1>4, WriteGood DEF Commit, Goes, BeforeAnItem

LEMMA ReadBackGood ==
  ASSUME Good, NEW p \in Planners, ReadBack(p)
  PROVE  Good'
<1> DEFINE i == job[p].item
<1>1. p \in Processes /\ i \in Ids /\ i \in Known /\ RewritesKnown /\ BoundsKept
  BY ItemIsKnown, ReadsRewrite DEF ReadBack, At, BeforeAnItem, Processes
<1>2. GoodJob(p, Returned(i))
  BY <1>1 DEF GoodJob, Returned, Idle, Jobs, Steps, Nothing
<1> QED
  BY <1>1, <1>2, IdleIsGood, StepKeepsGood DEF ReadBack

-----------------------------------------------------------------------------
(* withdraw_increment and set_state.                                       *)

LEMMA WithdrawGood ==
  ASSUME Good, NEW p \in Planners, NEW r \in Requests[p], Withdraw(p, r.origin)
  PROVE  Good'
<1> DEFINE j == [Idle EXCEPT !.step = "look_up", !.request = Withdrawal(r.origin)]
<1>1. Withdrawal(r.origin) \in {Withdrawal(o) : o \in Origins}
  BY DEF Origins, Every
<1>2. GoodJob(p, j)
  BY <1>1 DEF GoodJob, Idle, Jobs, Steps, Nothing, BeforeAnItem
<1>3. RewritesKnown /\ BoundsKept /\ p \in Processes
  BY ReadsRewrite DEF Withdraw, Processes
<1> QED
  BY <1>2, <1>3, StepKeepsGood DEF Withdraw

LEMMA LookUpGood ==
  ASSUME Good, NEW p \in Planners, LookUp(p)
  PROVE  Good'
<1>1. RewritesKnown /\ BoundsKept /\ p \in Processes
  BY ReadsRewrite DEF LookUp, Processes
<1>2. ASSUME NEW i \in Carrying(job[p].request.origin)
      PROVE  GoodJob(p, [Idle EXCEPT !.step = "recheck", !.item = i])
  <2>1. i \in Known /\ i \in Ids
    BY DEF Carrying, Known
  <2> QED
    BY <2>1 DEF GoodJob, Idle, Jobs, Steps, Nothing
<1> QED
  BY <1>1, <1>2, IdleIsGood, StepKeepsGood DEF LookUp

LEMMA RecheckGood ==
  ASSUME Good, NEW p \in Planners, Recheck(p)
  PROVE  Good'
<1>1. RewritesKnown /\ BoundsKept /\ p \in Processes
  BY ReadsRewrite DEF Recheck, Processes
<1>2. job[p] \in Jobs /\ job[p].item \in Known
  BY <1>1, JobType, ItemIsKnown DEF Recheck, At, BeforeAnItem
<1>3. GoodJob(p, [job[p] EXCEPT !.step = "set_read", !.goal = "withdrawn"])
  BY <1>2 DEF GoodJob, Jobs, Steps
<1> QED
  BY <1>1, <1>3, IdleIsGood, StepKeepsGood DEF Recheck

LEMMA AfterSetGood ==
  ASSUME Good, NEW w \in Processes, job[w].step \notin BeforeAnItem
  PROVE  GoodJob(w, AfterSet(w))
<1>1. GoodJob(w, [job[w] EXCEPT !.step = "tag"])
  BY JobType DEF Steps
<1> QED
  BY <1>1, IdleIsGood DEF AfterSet

LEMMA SetStateReadGood ==
  ASSUME Good, NEW w \in Processes, SetStateRead(w)
  PROVE  Good'
<1>1. RewritesKnown /\ BoundsKept /\ job[w].step \notin BeforeAnItem
  BY ReadsRewrite DEF SetStateRead, At, BeforeAnItem
<1>2. GoodJob(w, [job[w] EXCEPT !.step = "set_write"])
  BY <1>1, JobType DEF Steps
<1> QED
  BY <1>1, <1>2, IdleIsGood, AfterSetGood, StepKeepsGood DEF SetStateRead, Goes

LEMMA SetStateWriteGood ==
  ASSUME Good, NEW w \in Processes, SetStateWrite(w)
  PROVE  Good'
<1> DEFINE i == job[w].item
           goal == job[w].goal
           x == IF goal = "withdrawn" THEN [issue[i] EXCEPT !.closed = "not_planned"]
                                      ELSE [issue[i] EXCEPT !.status = goal]
<1>1. job[w].step \notin BeforeAnItem /\ goal \in {"none", "active", "queued", "withdrawn"}
  BY JobType DEF SetStateWrite, At, BeforeAnItem, Jobs
<1>2. i \in Ids /\ issue[i] \in Issues
  BY <1>1, ItemIsKnown DEF Good, TypeOK
<1>3. x \in Issues /\ x.origin = issue[i].origin
  <2>1. CASE goal = "withdrawn"
    BY <1>2, <2>1 DEF Issues
  <2>2. CASE goal # "withdrawn"
    BY <1>1, <1>2, <2>2 DEF Issues, Options
  <2> QED
    BY <1>1, <2>1, <2>2
<1>4. issue' = [issue EXCEPT ![i] = x]
  BY <1>2 DEF SetStateWrite
<1> QED
  BY <1>1, <1>3, <1>4, AfterSetGood, WriteGood DEF SetStateWrite

-----------------------------------------------------------------------------
(* The tick and everyone else.                                             *)

LEMMA ClaimGood ==
  ASSUME Good, NEW i \in Ids, Claim(i)
  PROVE  Good'
<1>1. i \in Known /\ "tick" \in Processes /\ "tick" \notin Planners
  BY PlannersAssumption DEF Claim, Bucket, Known, Processes
<1>2. GoodJob("tick", [Idle EXCEPT !.step = "set_read", !.item = i, !.goal = "active"])
  BY <1>1 DEF GoodJob, Idle, Jobs, Steps, Nothing
<1> QED
  BY <1>1, <1>2, ReadsRewrite, StepKeepsGood DEF Claim

LEMMA RequeueGood ==
  ASSUME Good, NEW i \in Ids, Requeue(i)
  PROVE  Good'
<1>1. i \in Known /\ "tick" \in Processes /\ "tick" \notin Planners
  BY PlannersAssumption DEF Requeue, Bucket, Known, Processes
<1>2. GoodJob("tick", [Idle EXCEPT !.step = "tag", !.item = i, !.goal = "queued"])
  BY <1>1 DEF GoodJob, Idle, Jobs, Steps, Nothing
<1> QED
  BY <1>1, <1>2, ReadsRewrite, StepKeepsGood DEF Requeue

LEMMA MarkClaimGood ==
  ASSUME Good, MarkClaim
  PROVE  Good'
<1> DEFINE i == job["tick"].item
           claims == job["tick"].goal = "active"
           x == [issue[i] EXCEPT !.claimed = claims]
<1>1. "tick" \in Processes /\ job["tick"].step \notin BeforeAnItem
  BY DEF MarkClaim, At, BeforeAnItem, Processes
<1>2. i \in Ids /\ issue[i] \in Issues
  BY <1>1, ItemIsKnown DEF Good, TypeOK
<1>3. x \in Issues /\ x.origin = issue[i].origin
  BY <1>2 DEF Issues
<1>4. issue' = [issue EXCEPT ![i] = x]
  BY <1>2 DEF MarkClaim
<1>5. GoodJob("tick", [job["tick"] EXCEPT !.step = "set_read"])
  BY <1>1, JobType DEF Steps
<1>6. \/ Becomes("tick", Idle)
      \/ Becomes("tick", [job["tick"] EXCEPT !.step = "set_read"])
  BY DEF MarkClaim, Goes
<1>7. Unbounded
  BY DEF MarkClaim
<1> QED
  BY <1>1, <1>3, <1>4, <1>5, <1>6, <1>7, IdleIsGood, WriteGood

LEMMA CrashGood ==
  ASSUME Good, NEW w \in Processes, Crash(w)
  PROVE  Good'
<1>1. RewritesKnown
  BY DEF Crash, Good, TypeOK, RewritesKnown
<1>2. BoundsKept
  BY VerbBoundsAssumption DEF Crash, Good, TypeOK, BoundsKept
<1> QED
  BY <1>1, <1>2, IdleIsGood, StepKeepsGood DEF Crash

(* GitHub or a person rewrites an issue that exists.                       *)
LEMMA RewriteGood ==
  ASSUME Good, NEW i \in Known, NEW x \in Issues, x.origin = issue[i].origin,
         issue' = [issue EXCEPT ![i] = x], BoundsKept, UNCHANGED job
  PROVE  Good'
<1>1. RewritesKnown
  BY DEF Good, TypeOK, RewritesKnown, Known
<1> QED
  BY <1>1, OutsideKeepsGood

LEMMA EnvironmentGood ==
  ASSUME Good, NEW i \in Ids,
         \/ WorkflowSetsStatus(i) \/ PullRequestCloses(i)
         \/ PersonCloses(i) \/ PersonDrags(i)
  PROVE  Good'
<1>1. issue[i] \in Issues
  BY DEF Good, TypeOK
<1>2. CASE WorkflowSetsStatus(i)
  <2> DEFINE x == [issue[i] EXCEPT !.status = "queued"]
  <2>1. i \in Known
    BY <1>2 DEF WorkflowSetsStatus, Known, Exists, NoIssue
  <2>2. x \in Issues /\ x.origin = issue[i].origin
    BY <1>1 DEF Issues, Options
  <2>3. issue' = [issue EXCEPT ![i] = x] /\ BoundsKept /\ UNCHANGED job
    BY <1>2, UnboundedKept DEF WorkflowSetsStatus, Unbounded
  <2> QED
    BY <2>1, <2>2, <2>3, RewriteGood
<1>3. CASE PullRequestCloses(i)
  <2> DEFINE x == [issue[i] EXCEPT !.closed = "completed"]
  <2>1. i \in Known
    BY <1>3 DEF PullRequestCloses, Known, Exists, NoIssue
  <2>2. x \in Issues /\ x.origin = issue[i].origin
    BY <1>1 DEF Issues
  <2>3. issue' = [issue EXCEPT ![i] = x] /\ BoundsKept /\ UNCHANGED job
    BY <1>3, UnboundedKept DEF PullRequestCloses, Unbounded
  <2> QED
    BY <2>1, <2>2, <2>3, RewriteGood
<1>4. ASSUME NEW x \in Issues, x.origin = issue[i].origin, Moved(i, x)
      PROVE  Good'
  <2>1. i \in Known
    BY <1>4 DEF Moved, Known
  <2>2. BoundsKept
    BY <1>4, VerbBoundsAssumption DEF Moved, Good, TypeOK, BoundsKept
  <2> QED
    BY <1>4, <2>1, <2>2, RewriteGood DEF Moved
<1>5. CASE PersonCloses(i)
  <2>1. PICK why \in {"completed", "not_planned"} : Moved(i, [issue[i] EXCEPT !.closed = why])
    BY <1>5 DEF PersonCloses
  <2>2. [issue[i] EXCEPT !.closed = why] \in Issues
    BY <1>1 DEF Issues
  <2>3. [issue[i] EXCEPT !.closed = why].origin = issue[i].origin
    BY <1>1 DEF Issues
  <2> QED
    BY <1>4, <2>1, <2>2, <2>3
<1>6. CASE PersonDrags(i)
  <2>1. PICK option \in Drags : Moved(i, [issue[i] EXCEPT !.status = option])
    BY <1>6 DEF PersonDrags
  <2>2. [issue[i] EXCEPT !.status = option] \in Issues
    BY <1>1, VerbBoundsAssumption DEF Issues
  <2>3. [issue[i] EXCEPT !.status = option].origin = issue[i].origin
    BY <1>1 DEF Issues
  <2> QED
    BY <1>4, <2>1, <2>2, <2>3
<1> QED
  BY <1>2, <1>3, <1>5, <1>6

-----------------------------------------------------------------------------

LEMMA NextGood == Good /\ [Next]_vars => Good'
<1> SUFFICES ASSUME Good, [Next]_vars PROVE Good'
  OBVIOUS
<1>1. CASE Calls
  BY <1>1, QueueGood, WithdrawGood DEF Calls
<1>2. ASSUME NEW p \in Planners, PlannerStep(p) PROVE Good'
  <2>1. p \in Processes
    BY DEF Processes
  <2> QED
    BY <1>2, <2>1, LookGood, CreateGood, FetchGood, LinkParentGood, LinkPredecessorGood,
       AddToProjectGood, SetQueuedGood, CommitGood, ReadBackGood, LookUpGood, RecheckGood,
       SetStateReadGood, SetStateWriteGood DEF PlannerStep
<1>3. CASE TickStep
  <2>1. "tick" \in Processes
    BY DEF Processes
  <2> QED
    BY <1>3, <2>1, ClaimGood, RequeueGood, SetStateReadGood, SetStateWriteGood, MarkClaimGood
       DEF TickStep
<1>4. CASE Environment
  BY <1>4, CrashGood, EnvironmentGood DEF Environment
<1>5. CASE UNCHANGED vars
  <2>1. RewritesKnown /\ BoundsKept
    BY <1>5, ReadsRewrite DEF Reads, Unbounded
  <2> QED
    BY <1>5, <2>1, OutsideKeepsGood
<1> QED
  BY <1>1, <1>2, <1>3, <1>4, <1>5 DEF Next

(* index_by_origin never finds an Origin twice: through crashed creates,   *)
(* their retries, ticks and people, for any planners that share no Origin. *)
THEOREM OriginsAreUnique == Spec => []OneItemPerOrigin
<1>1. Spec => []Good
  BY InitGood, NextGood, PTL DEF Spec
<1>2. Good => OneItemPerOrigin
  BY DEF Good, OriginInv
<1> QED
  BY <1>1, <1>2, PTL

(* The same for the shape of the board and of every call: in particular no *)
(* verb writes a Status or a close reason that GitHub does not have.       *)
THEOREM VerbsTypeCorrect == Spec => []TypeOK
<1>1. Spec => []Good
  BY InitGood, NextGood, PTL DEF Spec
<1>2. Good => TypeOK
  BY DEF Good
<1> QED
  BY <1>1, <1>2, PTL

=============================================================================
