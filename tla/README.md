# A TLA+ model of squadra

squadra runs a fleet of coding agents over a project board. A board item in the
queue (an *increment*) is claimed, gets a git branch and a worktree of its own,
and is worked on by one agent in one docker compose project (its *sandbox*). A
supervisor, started every few minutes by a timer, reads the board, the files on
the host and docker, decides per increment what must happen, and does it: claim
and launch, hand a finished run off for review, park a question for a person,
reap a dead runner and retry it, escalate, relinquish, finalize after the merge.

This directory holds the specification of that machinery, the TLC runs that
check it on small fleets, and the theorems TLAPS proves for fleets of any size.
Paths below are relative to the repository; `supervisor.py` and the other bare
names are in `src/squadra/`.

## 1. Inventory

| Part | State | Operations | Modelled |
|---|---|---|---|
| Lifecycle engine (`engines.py`, `domain.py`) | none, a pure function | `decide`: facts to a state and intents | `LifecycleEngine`, whole |
| Supervisor tick (`supervisor.py`) | flock, the views and intents of the tick that holds it | main, preflight, lock, stamp, gather, nine handlers, claim pass | `SupervisorTick` from the gather on, one seam call per step; `TickEntry` from the command line to the board calls |
| Worktrees (`worktree.py`) | worktrees and branches of one clone | create, archive, prune | `SupervisorTick` |
| Cleanup (`cleanup.py`) | the same, and compose projects | delete branch, remove worktree, prune, compose down | `SupervisorTick` |
| Sandbox (`sandbox.py`) | one compose project per increment | launch, inspect, logs, teardown, exec | `SupervisorTick`, without exec |
| Runner and agent (`_scripts/runner-wrap.sh`, `_templates/runner-skill.md`) | container, exit code, outcome manifest | status init, heartbeat, park, manifest, backstop | `SupervisorTick`; their status calls one by one: `StatusFile` |
| Status file (`status.py`) | `status.json` per increment, its flock, one shared temp file | init, update, heartbeat, add worker, load | `LockedFile` with `StatusFile`, shown to implement `AtomicFile`, which is how `SupervisorTick` uses it |
| Manifest (`manifest.py`) | `.squadra/outcome.json` | read and validate | what the read tells apart |
| GitHub board (`github_board.py`) | issues, links, project items, labels | preflight, lists, create, set state, tags, comments | creates and set state: `IncrementVerbs`; preflight, lists, set state and tags of a tick: `TickEntry` |
| Azure DevOps board (`board.py`) | work items with one tag field, columns | preflight, lists, set state, tags, comments | `BoardConfig`, `TickEntry` |
| Fake board (`fake_board.py`) | one JSON file, its flock | the same, a create that a test can stop, and faults to arm | `BoardAccess`, `TickEntry` |
| Increment verbs (`increments.py`) | none of their own | queue, withdraw, list by Origin, report partial items | `IncrementVerbs`, one `gh` call per step, shown to implement `AtomicQueue` |
| Fleet stamp (`supervisor.py`, `engines.py`) | a file with the fleet's name | refuse a renamed fleet | `TickEntry` |
| Dry run (`dry_run.py`, the seams of `supervisor.py`) | none | a tick whose writes return at once | in part: `TickEntry` |
| Configuration (`config.py`) | `squadra.toml` | resolve and refuse | `BoardConfig`: name, prefix, scope, states, repository |
| Scaffold, units, command line, credentials | files | rendering, dispatch, process launches | no |

**How the parts meet.** Nothing talks to anything directly. The tick, the
runner and people share four stores: the board (a remote service), the fleet
root on disk (`status.json`, the claimed-at marker), the clone with its branches
and worktrees, and docker. The tick reads all four, one after the other, and
then writes them one call at a time; nothing is transactional. The runner writes
`status.json` from inside the container (`status init`, heartbeats, the agent's
park), then the manifest, then exits. People move and untag items, and merge.
Outside planners put increments on the board and withdraw them through the
increment verbs; they share nothing with the tick but the board, and name their
increments by an *Origin* that must stay unique on it. Two services may be
started on one fleet root, and the operator may edit `squadra.toml` while a tick
has it loaded; between ticks stand the flock and the stamp.

**What is hard.** The stores disagree for a while after every step. A tick may
be killed between two calls (the host reboots; a board call raises out of the
tick), and the next tick must make sense of what is left. Runners change the
status while the tick is between its read of the status and its look at the
container. Everything the tick knows about the *current* attempt (branch,
worktree, compose file, retry count) is read out of the status file, which the
runner writes only after it booted, so between launch and boot it names the
previous attempt. Four processes rewrite that file, and any of them may be
killed with the lock in hand and half a temp file behind it. Azure DevOps keeps
all tags in one field, which is read, changed and written whole, may be written
in vain, and may be answered with nothing at all. Git refuses to delete a
branch a worktree has checked out and refuses to create a branch twice. A board may refuse to reopen a closed item.
Queueing an increment on GitHub is six or more writes, seen in progress by the
tick, by people and by the project's own workflows, and a planner may die after
any of them.

**What makes each part correct.**

- *Engine*: total, and its guard order is right: a withdrawal outranks every
  park, an escalation outranks everything else, a deliberate park is never
  reaped, a failed park is.
- *Claim pass*: never more claimed, active items than the cap; no attempt
  beyond the budget; nothing started behind an undelivered predecessor; a
  failed launch leaves nothing that blocks the next claim.
- *Reap, escalate, relinquish*: a worktree is never taken from under a running
  sandbox; the claim outlives the sandbox; every handler can be repeated after
  a tick that died in the middle; a dead runner is eventually reaped.
- *Finalize*: only merged branches go, and a merged increment is eventually
  retired.
- *Status file*: every call takes effect at one instant, whoever dies where;
  no reader sees half a file; a wrapper that ends leaves a parked or done status
  and keeps the park of its agent; nobody waits for ever.
- *Entry of the tick*: one tick at a time acts on a root, under the name the
  root has and the prefix of the claims that are there; the gather finds every
  item in its one bucket.
- *Boards*: a tag write keeps everybody else's tags and is there when the tick
  goes on; a claim whose item was closed meanwhile stops before its tag; a
  create that is stopped anywhere can be finished.
- *Verbs*: one item per Origin; an interrupted create is finished, and as one
  request asked, never as a mixture of two; an increment is not claimed before
  it is complete; no create leaves a board that every later verb refuses to
  read; an id is returned only for what was asked.

`PROJECT.json` lists the hazards line by line, with the property that covers
each, how far it does, or the reason none does.

## 2. Plan

| # | Module | Contents | State |
|---|---|---|---|
| 1 | `LifecycleEngine` | the decision function | done |
| 2 | `SupervisorTick`, `MCSupervisorTick` | tick, host, board, runner, people | done |
| 3 | `SupervisorTick_proofs` | types, the cap, the attempt budget | done |
| 4 | `IncrementVerbs`, `MCIncrementVerbs`, `IncrementVerbs_proofs` | queue, withdraw, interrupted creates, a tick and people in between | done |
| 5 | `AtomicFile`, `LockedFile`, `StatusFile`, `MCStatusFile` | the atomic register; the flock, temp file and rename that implement it; who calls what | done |
| 6 | `LockedFile_proofs`, `StatusFile_proofs` | the refinement, and what it gives for `status.json` | done |
| 7 | `BoardConfig`, `BoardAccess`, `TickEntry`, `MCTickEntry`, `TickEntry_proofs` | configuration, the three boards as a tick uses them, lock, stamp and dry run; the fake create | done |
| 8 | `AtomicQueue`, `IncrementBoard_proofs` | a queueing as one write, and the refinement; what committed and claimed increments are | done |
| 9 | `SupervisorSafety_proofs` | attempts, branches, predecessors, escalations, worktrees and sandboxes | done |
| 10 | `BoardSafety_proofs` | tags and the gather on the three boards, the fake board's creates and faults | done |

`IncrementVerbs`, `TickEntry` and `SupervisorTick` meet on the board: each
holds the other side as what it does to an item there. `TickEntry` takes for a
decision any program of board calls that the engine may ask for what the gather
saw; which of them it asks for is `SupervisorTick`'s. `SupervisorTick` uses the
status file as `AtomicFile` promises it. An abstract life of one increment, to be
refined by `SupervisorTick`, was planned and given up: after a crash or a move
by hand nearly every change of state is allowed, so it would say little. What is left to TLC, and why, ends section 6.

## 3. The modules and the code

### LifecycleEngine

One operator per method of `LifecycleEngine` in `engines.py`, guards in the
code's order, over a record of the facts of `domain.LifecycleFacts`. Dropped:
who the intents name (pull request URL, denied host, failure edge). The four
phases of a run under way (claiming, seams, tdd, qa) are one value, `working`,
as no guard tells them apart; "none" stands for no status file. The three
container facts are one, `container`.

### SupervisorTick

| Variables | Stand for |
|---|---|
| `lifecycle`, `tags`, `merged` | the board: bucket, fleet tags, the attempt whose pull request completed |
| `status`, `claimed_at` | the increment directory: `status.json`, the claimed-at marker |
| `trees`, `branches`, `astray` | the clone: worktrees on disk, branches, worktrees that left their branch |
| `box` | docker: the increment's agent container, with what its run will have left behind |
| `lock`, `view`, `plan`, `target`, `claims`, `budget` | the tick that holds the flock: how far it is, the statuses it read, the calls it still has to make and the attempt they name, the items still to claim, the slots still free |
| `moves`, `crashes` | counters of the bounds `MaxMoves`, `MaxCrashes` |

A tick is `StartTick` (lock, statuses read), `Gather` (the rest is read, the
engine decides, each handler becomes the sequence of calls it makes), then one
step per call: `AddTag`, `DropClaimed`, `Drop`, `MoveItem`, `Park`, `MarkDone`,
`Archive`, `ArchiveIfPresent`, `Teardown`, `DeleteBranch`, `RemoveWorktree`,
`ComposeDown` (together `Cleanup`), `Create`, `MarkClaimedAt`, `Launch`; `BeginClaim` takes the next item to claim;
`EndTick` releases the lock. `Crash` ends a tick between any two calls; it also
stands for a board call that raises. `_retry`, `_escalate` and the other
handlers are the sequences of the same names, so the order of the calls is the
order in the code. An early return in a handler is `Abandon`: the rest of that
item's calls are not made, and the tick goes on.

Choices a reader should know:

- *The gather is two steps, not many.* The code reads a status, then the
  container, item by item. The model reads all statuses first and everything
  else after; the gap in which a runner can move between the two reads, which
  is what matters, is there. Gaps between two other reads are not.
- *Prune is no step of its own*, neither after an archive nor after a removed
  worktree: it changes nothing that the model tells apart.
- *The cleanup of a finalize* is three steps: branch, worktree, compose project,
  in this order, each made whatever the others did. After one that failed the
  plan holds the rest of the cleanup only (`OnlyStill`), so that the tags stay.
  A finalize is asked for by the merge, whatever the container does; so a sandbox
  that is still up runs without its worktree until `ComposeDown`, and on if the
  tick dies in between.
- *A second tick* finds the lock held and returns: a stuttering step. The flock
  of a tick that died is released by the operating system.
- *Dead credentials* drop the claims of the tick and nothing else: `claims'`
  is the claimable set or empty, whether or not there was work to pay for.
- *Git*: `branch -D` fails while the branch is checked out; `worktree remove`
  of a directory that is gone fails; `worktree add -b` fails on an existing
  branch; `Create` may also fail for no reason seen here (the fetch).
- *Compose* names the compose file inside the worktree in launch, inspect,
  logs and teardown: with the worktree gone they fail, which reads as "absent"
  or is dropped. Cleanup names the project and does not need the file. A launch
  that fails leaves the container as it was. `inspect` is taken at its
  docstring's word: a container that exited is listed. A compose that lists
  only running ones would make every exited container read as absent (hazard
  at `sandbox.py:161`).
- *Archive* raises when the directory is gone, which ends the tick
  (`Released`), as nothing in the tick catches it. `park_failed` on a status
  that was seen never fails: nothing deletes a status file.
- *The runner*: `Boots` is `status init`, which overwrites the whole file;
  `AgentParks` parks the status and settles what the manifest will say (the
  skill wants them to agree; an absent or invalid manifest agrees with any);
  `AgentExits`, `Backstop`, `Dies` end the container. The heartbeat is a flag:
  `Ages` lets it go stale at any time, `Heartbeat` refreshes it, so a live
  runner may look stale for as long as it takes (a suspended host).
- *Left out*: comments, log lines, the entry of the tick (it refuses a whole tick
  before it reads an increment; `TickEntry`), `write_context`, the `qa-ready` park and tag
  (nothing in the tick sets them, and the engine treats them like the other
  deliberate parks).

Constants of the surroundings:

| Constant | Why |
|---|---|
| `RefusesClosed` | GitHub's adapter refuses to move a closed issue, the other two boards do not |
| `BootsCleanly` | TRUE: every runner writes its first status before the next tick reads, as it does unless the image fails within the container; FALSE: it may die before, or boot late |
| `FlakyDocker` | `compose down` may fail with its file in place |
| `AgentLeavesBranch` | an agent may check out something else in its worktree, which is what lets `git branch -D` succeed |
| `ExitOutcomes` | exit code, manifest and commits of the runs considered |
| `HumanEdges` | moves people make by hand. The sets used hold no move into the active column (such an item is a person's own and never claimed) and none out of a closed one |

### IncrementVerbs

| Variable | Stands for |
|---|---|
| `issue` | GitHub: per issue number, Origin and text (the body), parent and blocking links, the project item and its Status, the commit marker label, open or why closed, the claimed label |
| `job` | per process (each planner, and the tick): the call it is in, what it read, the writes it has left |
| `moves`, `crashes` | counters of the bounds `MaxMoves`, `MaxCrashes` |

`Queue` starts `queue_increment`; `Look` is its board-wide read and the rules
`check_queue_matches` and `check_queue_finishes`; `Create` is the first write,
`Fetch` the second read of an item that is to be finished, and `LinkParent`,
`LinkPredecessor`, `AddToProject`, `SetQueued`, `Commit` are the other writes
of `create_increment`, with `ReadBack` after the commit. `Withdraw`, `LookUp`,
`Recheck` are `withdraw_increment`. `SetStateRead` and `SetStateWrite` are
`set_state`, for a withdrawal and for the tick; `Claim`, `Requeue` and
`MarkClaim` are the tick's calls around it. `WorkflowSetsStatus`,
`PullRequestCloses`, `PersonCloses` and `PersonDrags` happen at any time.
`Crash` ends any call between two `gh` calls, and stands for one that fails.

- *A listing is one read.* `items_with_origin` pages; what changes between two
  pages is not told apart. Reads that only fetch ids to write with are no steps.
- *Predecessors.* The caller names items. A planner of this model names
  Origins and resolves them, as `squadra board origins` lets it, in the step in
  which it queues: increments only, and all of them must be there.
- *Done* is reached by a merge or a person closing the issue: the fleet never
  writes it here, since its `finalize` finds the issue closed.
- *GitHub* numbers issues upwards without reuse, refuses a second parent, and
  takes a link that is there already as no change.
- *Left out*: tags other than the claim, comments, edits of a title or body by
  hand, links changed by hand, an item taken off the project. In the runs every parent
  is in scope; the proofs cover both answers. The `duplicate` and missing
  close reasons are not told from `not_planned`.
- *Other boards.* The create of the fake board is in `BoardAccess`. Azure
  DevOps has none: its `create_increment` only raises.

`AtomicQueue` is the same board to someone who sees no `gh` calls: per Origin an
increment that is absent, or there with the whole row (`Commit`), then claimed,
released and closed; per planner the row it is queueing and the Origin it was
last answered the id of. Its claims wait for closed predecessors, its answers for
a row that stands. `ImplementsAtomicQueue` maps to it: under an Origin stands
the committed issue that carries it, with its predecessors read back to Origins;
a partial item is absent. So `create_increment`'s marker is the abstract
`Commit`, every other write of a create is invisible, whether a first call or
a retry makes it, and a refusal, a failed read back and a crash are `GiveUp`,
after the commit as before it.

`OneOwnerAssumption` says that two planners never queue under one Origin.
Nothing in the code arbitrates there (the ledger of the board writes says two
such calls can both create, and every verb then refuses the duplicate).

### AtomicFile, LockedFile, StatusFile

`AtomicFile` is what a file promises those who update it: between a call and
its return there is one instant at which it takes effect, on the version that is
there. `LockedFile` is the protocol of `_status_lock`, `_read_json` and
`_write_json_atomic` in `status.py` (and of the fake board's file).

| Variable | Stands for |
|---|---|
| `file` | the version a reader gets |
| `temp` | temp files: a version, a part of one, or none. `status.py` has one name for all, `TempOf` |
| `holder` | who holds the flock |
| `job` | per process: its call, how far it is, what it will write |
| `runner`, `command`, `seen`, `clock` | how far the wrapper's script is, the calls left of the agent's command, whether the tick read a status, the time |

A call is `Invoke`, `Load` (a read without the lock), or `Lock`, `Read`,
`Open`, `Fill`, `Replace`, `Unlock`, then `Return`; `Die` takes any set of
processes in any of these and drops their flock, and leaves the temp file.
`StatusFile` gives the calls their meaning (`Initialise`, `Update`,
`Heartbeat`, `AddWorker`, `LoadStatus`, with `_validate` as `Validated`)
and their callers: `Launch` and `Initialised` are the wrapper's `status init`,
`Beat` its loop, `ReadPhase`, `CallBackstop` and `BackstopReturns` its end;
`BeginCommand` and `NextCall` the `status update` commands of an agent,
whose worker calls follow the update; `TickLoads` and `TickUpdates` the tick.

- *A container dies whole*: when the wrapper exits or docker stops it, the
  loop and the agent go with it, wherever they are in a call.
- *An agent's command is synchronous*: the wrapper waits for the agent and the
  agent for its command, so no call of the agent is open when the wrapper looks.
- *Which updates*: four commands of an agent (a phase, a park, an unpark with a
  worker, a park that forgets its state), three of a tick (failed, done,
  needs-decision). A tick parks a finished run only once its container
  exited, since `decide` asks for an exited container.
- *Left out*: the fields that every update just passes on, schema errors, a file
  damaged by hand.

### BoardConfig, BoardAccess, TickEntry

`BoardConfig` is pure: `ConfigIsSound` and `Config` are `load_config`,
`Preflight` is `validate_config` of the three adapters, `In` is the bucket of a
native state. `BoardAccess` adds the board, the people who change it and the
fake board's create; `TickEntry` the ticks.

| Variable | Stands for |
|---|---|
| `toml`, `columns`, `items` | `squadra.toml`, the columns (GitHub: the Status options), the items |
| `creates`, `fault`, `fired` | the calls of `create_increment` on the fake board; the armed fault |
| `stamp`, `dirs`, `lock` | the fleet root: name file, increment directories with the prefix of their claim, flock |
| `ticks` | per tick: stage, the configuration it loaded, dry or not, lists still to read, what it saw, board calls still to make, where it is in one, and what had happened when it last looked (`since`: at the preflight, at the look or write of `set_state`, at the read of the tags), which the properties compare with |
| `world`, `left` | the small world this history is about, and what may still happen in it |

`LoadConfig`, `ValidateConfig`, `TryLock`, `Stamp`, `ReadBuckets` (one per
list; GitHub has one for all), `Decide`, then the calls: `LookAtIssue` and
`SetState`; `TagOne` for GitHub and the fake board; `ReadTags`, `PatchTags`,
`VerifyTags` for Azure DevOps; `WriteClaimedAt`; `Launch`, which may fail and
then has the claim rolled back, tag first (`RetryCalls`); `Absorbed` is any of
them in a dry run. `EndTick`, `TickDies`. `EditToml` and `ClearRoot` are the operator,
`PersonMoves`, `PersonTags`, `EditColumns` people. `Begin`, `Peek`, `Take`,
`Write` are the fake board's create, save by save, with its fault.

- *A default prefix is the name*, where the code writes `<name>:`
  (`config.py:230`): only which prefixes are equal matters.
- *One list is one read*, also where the adapter queries ids and then fetches them
  in batches. The gates (predecessors, scope) are read with the decision.
- *Only the calls that concern state and claim* are in a plan; claims come last
  and items go in id order, as in `SupervisorTick`.
- *A blank answer* of Azure DevOps (`board.py:833`) and a write that is lost
  behind a success (`board.py:645`) are events of bounded number. Blank may be
  a list (`ReadBuckets`), the links of a candidate, which is then behind nothing or
  out of scope (`BlankLinks`), the state of a predecessor, which raises
  (`BlankStateRaises`), and the tags (`Show`).
- *Closure and Status* of an issue are one native state, as `native_state` makes
  them one: a Status written on a closed issue stays hidden (`NativeAfter`), and
  a person who reopens it may find any Status there (`PersonMoves`). So the model
  cannot tell what the fleet would have to write to reopen an issue, and states
  no property about it; that `set_state` refuses a closed issue matters through
  what the refusal stops (`LaunchedIsActive`).
- *The operator* keeps one prefix per name (`KeepsPrefix`): a stamp holds the
  name only, so the code cannot see a prefix that is changed under it. A root is
  cleared only with nothing claimed and no tick on it, as the refusal says.
- *GitHub's 404 on a label* that somebody else removed at the same time, and
  a fake create finished by somebody else than its owner, are not modelled.

## 4. The runs

`verbs` is on `MCIncrementVerbs`, `files` on `MCStatusFile`, `boards` on
`MCTickEntry`, the others on `MCSupervisorTick`. Each passing property has a
mutation in the module (`(* Mutation: ... *)`) that breaks it, named in
`PROJECT.json`.

| Run | Fleet | Shows |
|---|---|---|
| `attempts` | 1 item, 2 attempts, 1 move, 1 crash, every surrounding adverse | types; `AttemptsWithinCap`; `AttemptsOnlyGrow`: no sandbox is started on an attempt that already reported; `BranchesOutliveTheirPR`: no unmerged branch is deleted |
| `capacity` | 2 items, 1 slot, 1 move, 1 crash, a board that reopens | `InFlightWithinCap`, through ticks that die in the middle of a claim and roll backs that resurrect a closed item |
| `sandboxes` | 2 items, the second behind the first, 2 slots, 2 attempts, 1 move | `RunningMeansClaimed`, `EscalatedIsReleased`, `PredecessorsDelivered` |
| `recovery` | 1 item, 2 attempts, 1 move, 1 crash, fair | `RunnerKeepsItsWorktree`, also through a cleanup that stops half way; `DeadRunnerIsReaped`, `WithdrawnIsRelinquished`, `ClosedByHandIsStopped` |
| `verbs` | 1 planner, 2 rows with 3 versions of the second, 2 issues, 1 hand move, 1 crash, fair | `OneItemPerOrigin`, `CommittedIsOneRequest`, `ClaimedBehindItsPredecessors`, `EveryIncrementHasABucket`, `ReturnedIsWhatWasAsked`, `VerdictOutlivesNewItems`, `PartialItemsGetFinished`, `ImplementsAtomicQueue` |
| `files` | wrapper, heartbeat, agent, tick; 2 attempts, 1 command, 1 update, clock to 1, fair | `ImplementsAtomicFile`, `LockInv`, `ParkedStateIffParked`, `WhoExitsIsParked`, `HeartbeatNeverGoesBack`, `BackstopKeepsThePark`, `EveryCallReturns` |
| `boards` | ten worlds, see below | `ActingTickOwnsTheRoot`, `GatherSeesTheBoard`, `TagsAreAsWritten`, `OthersTagsSurvive`, `LaunchedIsActive`, `QueuedIsComplete`, `FaultFiresOnce`, `OneItemPerCreator` |
| `parked_work` | 1 item | violated, see below |
| `rolled_back` | 1 item, nobody else moves | violated |
| `failed_run` | 1 item | violated |
| `finalize` | 1 item, 1 attempt, fair | violated |
| `reap_crash` | 1 item, 1 crash, fair | violated |

**Bounds.** Two attempts are the first number where an attempt follows another
and the budget is then exhausted; the attempts of one item do not depend on
another's. Two items over one slot is the smallest fleet with a contended slot,
and two over two the smallest with a predecessor that has a sandbox of its own.
One hand move may fall between any two steps of the tick and so may one crash;
the items start fresh, and a second crash starts from a state of which the
first tick's leftovers are part already. `InFlightWithinCap` and
`AttemptsWithinCap` are proved without any of these bounds.

In `verbs`, the second row is queued behind the first, then alone, then alone
under another parent: the three ways an edited plan may meet what an earlier
version left (a link too many, none, another parent). Two issues
are enough: an issue meets another only as its predecessor, or under its
Origin. One planner suffices since planners share no Origin; the tick is
the second process. One crash falls after any of the writes, and the call that
retries is the same call. The invariants are proved without these bounds.
That one planner's half-written row is nothing to another planner either is proved only (`QueueingIsOneWrite`, for any planners).

`files` has a second attempt, so that what a killed runner left (a status,
half a temp file) is met by the next one; one command of the agent is up to two
calls and one tick adds two more, so every pair of the four meets
at every step of the protocol. The clock has two values: older and newer.

`boards` explores ten worlds that do not touch, one of them picked in the
first state, each with the events it is about: a fleet renamed under two ticks,
real or dry (`Renamed`); edits that do not load (`Misedited`); claims from
before fleets had names (`Legacy`); columns and items that move around one
tick, per provider (`AdoMap`, `FakeMap`, `GitHubMap`); one item's tags under
people, lost writes and blank answers (`AdoTags`, `GitHubTags`); two creates of
the fake board under a fault, and one beside a tick (`Fake`, `FakeClaimed`). Two
ticks are the first number that can contend for the lock; a third would wait as
the second does. Two items suffice for a gate and for the order of the calls.

`files` and `boards` do not check for deadlock: with their bounds spent, and
the runner gone or the configuration refused, nothing is left to happen.

**Where assumptions matter.** `sandboxes` runs without crashes:
`EscalatedIsReleased` fails when a tick dies between `add_tag(failed)` and
`remove_tag(claimed)` (the item keeps its slot for good; named with
the hazard at `supervisor.py:960`), and
`RunningMeansClaimed` when one dies inside the cleanup of a merged, still running
increment that a person then takes away (`cleanup.py:127`). `sandboxes` and `recovery` take `BootsCleanly`:
between launch and `status init` of a second attempt the tick looks for the first attempt's compose file, so it can
neither see nor stop the new sandbox, and an item that a person withdraws in that
window is released with its sandbox running. A runner
that dies there wedges the reap as `reap_crash` does.

**What the properties exempt.** Some windows are in the model and stay open in
the code; the properties say so, and the hazard at the line has a note.
`RunnerKeepsItsWorktree` exempts a merged attempt, whose finalize takes the
worktree first. `GatherSeesTheBoard` speaks of a board left alone since the
preflight: columns edited after it do hide items. `OthersTagsSurvive` exempts
tags written between the read and the write of the field, and both tag properties
a blank answer. `LaunchedIsActive` exempts an item moved after `set_state`
looked at it. In the run of `PredecessorsDelivered` a done item stays done, so it
shows that the verdict is right and kept, not what a reopened predecessor does;
and its board answers every read: with blank links (`board.py:833`) an item is
claimed ahead of its predecessors, which `TickEntry` allows and no property denies.

**The five disagreements.**

1. `parked_work`: the tick reads the status, the agent parks
   awaiting approval and leaves with a non-zero exit, the tick reads the
   container: crashed. `_retry` archives the worktree of a deliberate park,
   against `README.md:419`.
2. `rolled_back`: a launch that fails leaves its branch and worktree; the next
   claim takes the same attempt number, and `git worktree add -b` refuses it, on
   every later tick. `README.md:347-349` promises that no increment is stranded.
3. `failed_run`: exit 0, commits and a valid manifest whose outcome is
   `failed` are handed off as a finished run: `_classify_exited` asks for
   `needs-decision` only.
4. `finalize`: the branch is deleted before the worktree that has it checked
   out; git refuses; the next tick deletes it, but has no worktree to remove, so
   the cleanup is partial for ever and the merged increment keeps its claim. It
   works when the agent left its branch, which is why the mutated run
   of `BranchesOutliveTheirPR` and `drop_all` are reached in `attempts`.
5. `reap_crash`: a tick dies after it archived a dead runner's worktree. Every
   later tick raises on the second archive, before it looks at any other item
   of a higher id.

## 5. Fairness

`FairSpec` adds `WF_vars(TickStep)`: the timer starts a tick every few minutes,
and each seam call returns. A tick may still die (`Crash` is not part of
`TickStep` and has no fairness), at most `MaxCrashes` times. `Create` and
`Launch` may fail every time. It also adds `WF_vars(Boots(i))`: a container
that was started starts. Nothing is assumed of agents, people, heartbeats or merges.

`IncrementVerbs` takes `WF_vars(PlannerStep(p))`: a call that has begun makes its
next `gh` call, unless it crashes. `SF_vars(Queue(p, r))` is the planner's
reconcile: it queues every row of its plan again until `origins` reports it,
and a partial item is not reported (`increments.py:153-157`); a call of another
row may be under way at the time, so the fairness is strong. The plan does not
say which version of a row comes last, so `PartialItemsGetFinished` covers the
version that agrees with what is on the board. Nothing is assumed of ticks,
workflows and people.

`DeadRunnerIsReaped` and `WithdrawnIsRelinquished` must hold through
every order of the seam calls and every status the runner leaves. The first
speaks of histories without a crash: with one it fails, as `reap_crash` shows of
`DeadRunnerIsAlwaysReaped`. The second holds with a crash too, as the docstring
of `_relinquish` says it must.

`StatusFile` takes `SF_statusVars(Protocol(p))` for every process: one that is
in a call goes on with it, and one that waits for the flock gets it when it
becomes free again and again, which is how the kernel serves `flock` waiters.
Nobody need call, agents need not end, and any process may die.
`TickEntry` has no liveness and no fairness.

## 6. What is proved

`SupervisorTick_proofs`, checked by TLAPS to the last leaf, for every finite
set of item numbers, cap, budget, board kind, outcome set and bound. The
assumptions are the named ASSUMEs of `SupervisorTick`: what configuration
parsing guarantees (a cap of at least 0, at least one attempt) and that a fleet
is a finite set of numbers.

- `TypeCorrect`: `Spec => []TypeOK`. One lemma per group of actions. The work
  is in `Program`: that what the engine decides, turned into calls,
  is a sequence of calls the tick knows.
- `InFlightCapped`: `InFlightWithinCap`, provided people move nothing into the
  active column (`OnlyTheFleetActivates`); without that proviso it is false, as
  a claimed item sent back to the queue and activated again takes a slot
  nobody counted. The cap alone is not inductive: in the middle of a claim,
  what bounds the fleet is that the remaining budget was computed from the
  gather and nothing but the claim pass adds to the fleet since.
  `ClaimInv` says so in five parts. `PlanShape`: each item's plan is a handler's
  remainder with no claim call in it, or one of the six remainders of a claim.
  `NoPlanBetweenTicks`. `OneClaimAtATime`: while one item is claimed, nothing
  else has calls left and a slot is free. `ClaimsAreNotActive`: an item to
  claim is not active before `activate`. `SlotsAddUp`: claimed active items
  other than the one being claimed, plus the budget, are at most the cap. The
  cardinality steps are lemmas on adding and removing one item of a finite set.
- `AttemptsCapped`: `AttemptsWithinCap`, with no proviso: `AttemptInv` adds
  that the statuses a tick read, and the attempt an item being claimed is
  about to run, are within the budget. It needs `PlanShape` (a `launch` occurs
  only in a claim's plan) and that `ClaimProgram` escalates instead of claiming
  beyond the budget.

`IncrementVerbs_proofs` does the same for the verbs, for any planners, plans,
scope and bounds, from the ASSUMEs of `IncrementVerbs`.

- `OriginsAreUnique`: `Spec => []OneItemPerOrigin`. Uniqueness alone is not
  inductive: a planner that read an Origin absent may create it later.
  `OriginInv` adds that it is still absent then (`CreatorsAreAlone`), which
  needs that each planner's requests are its own (`RowsAreOwn`, and
  `OneOwnerAssumption`), that the other writes go to items that exist
  (`JobsNameItems`), and that an item carries its Origin from its first write
  (`OriginFromTheStart`, the first obligation of `create_increment`). All steps
  but `Create` rewrite an issue and keep its Origin, which one lemma
  (`StepKeepsGood`) takes through the invariant.
- `VerbsTypeCorrect`: `Spec => []TypeOK`, with it: no write asks for a Status or
  a close reason that GitHub does not have.

`IncrementBoard_proofs` proves more of them, from one invariant, `BoardInv`:
an issue has a Status before it gets the commit marker; a planner that writes
links writes them to a partial item of its own, and has the Status to write
until there is one; a tick on its way to a claim read the increment committed
with all it is linked behind closed. Each of these survives the others' steps
because of what no step takes back (`Grows`): an Origin, a marker, a closure,
the links of a committed issue.

- `IncrementsHaveBuckets`: `EveryIncrementHasABucket`.
- `ClaimsWaitForPredecessors`: `ClaimedBehindItsPredecessors`.
- `IncrementsAreOneRequest`: `CommittedIsOneRequest`. `MatchInv` adds what a
  call knows at each of its writes: what is on the issue together with what is
  left to write is what was asked. It holds through other processes since only
  the owner of an Origin links its item (`Links`), and since the increments a
  request is queued behind were all there when it was queued: with
  `OneItemPerOrigin` they are then a bijective image of the names, so no later
  commit can add to them (`AllThereStays`).
- `ReturnsWhatWasAsked`: the action property `ReturnedIsWhatWasAsked`. An id is
  returned by the look, of an increment compared there and then, or by the read
  back, several steps after the last comparison; `ReturnInv` says that what a
  planner reads back is committed as it was asked. `Commit` makes it true by
  `MatchInv`, and no other step relinks what is committed.
- `VerdictsStand`: the action property `VerdictOutlivesNewItems`. New items add
  to the ids that the Origins of a request map to, which could turn a refusal
  into a match; they cannot, as a link goes to an item that exists
  (`LinksNameItems`, which rests on `MatchInv`).
- `QueueingIsOneWrite`: `ImplementsAtomicQueue`, the refinement. `QueueInv` joins
  the invariants above with `RowInv`: what a planner reads back is its row, by
  Origin and with every predecessor there. `StandsUnderItsOrigin` makes the
  mapping a function of the board (`OneItemPerOrigin`: the `CHOOSE` has one
  candidate), `IncrementKept` says that what stands moves in its claim and its
  closing only, and `BoardKept` that all but four writes leave the abstract board
  alone. Those four are the marker (`CommitRefines`), the claim tag
  (`MarkClaimRefines`: it goes on behind increments that are closed, by
  `ClaimsTheUnblocked`), `set_state` and the closures (`Rewritten`). `KeepsItsRow`
  and `ReturningRefines` follow a call from its row to its id.

`LockedFile_proofs`, for any processes, calls, versions and temp names:

- `LockInvariant`: whoever is between lock and unlock holds the flock, and what it
  is about to write is its own change of the version that is there.
- `Implementation`: `Spec => ImplementsAtomicFile`. Each step maps to a step of
  `AtomicFile` or to none: a call takes effect at `Replace`, or where it read
  that there is nothing to write. It needs `LockInv` (what is renamed is the
  change of the *current* version) and what `CallsAssumption` says of reads
  (they change nothing) and blind writes (they look at nothing).

`StatusFile_proofs` shows that the wrapper, the heartbeat, the agent and the
tick use the file by these steps only, so the refinement carries over
(`StatusIsAtomic`), for any number of attempts and all bounds, and so does the type
(`StatusTypeCorrect`: the file is never torn). `ScriptInv`
says where each of the four may be while the wrapper is where, and that every
version was validated.

- `StatusStaysPaired`: `ParkedStateIffParked`.
- `ExitsAreParked`: `WhoExitsIsParked`. When the wrapper is done with its
  backstop, or saw a parked or done phase, no call of the agent is open, the
  heartbeat keeps the phase, and the tick's updates write those two phases only.
- `BackstopFindsNoPark` and `HeartbeatsGoForward`: `BackstopKeepsThePark` and
  `HeartbeatNeverGoesBack`, action properties. `CallInv` says who may ask for
  what (no tick parks for a decision beside a runner, and the agent has no call
  open once the backstop is), and `BeatInv` that the one heartbeat under way is
  not behind the file, and that an init under way is for another attempt.

`TickEntry_proofs`, from the ASSUMEs of `TickEntry`: names and processes are
told apart, the operator who set a root up agrees with the claims in it
(`RootsAssumption`), ids are given in order and predecessors have one
(`IdsAssumption`), no configured name is a mark of this model
(`NativesAssumption`), and a world begins with whole, unqueued items
and has creates on the fake board only (`BoardsAssumption`).

- `RootsAreOwned`: `ActingTickOwnsTheRoot`. The invariant adds who holds the
  lock at which stage (`LockIsHeld`) and that one name has one prefix among
  ticks, `squadra.toml` and the directories (`OneNameOnePrefix`): it is what
  makes the stamp's comparison of names say something about prefixes, and it
  rests on `KeepsPrefix`.

`SupervisorSafety_proofs` goes on from `SupervisorTick_proofs`, each time with
one lemma per group of actions. Every invariant was first checked by TLC, on two
items with crashes.

- `AttemptsGrow` and `BranchesAreKept`: the action properties `AttemptsOnlyGrow`
  and `BranchesOutliveTheirPR`. What a tick writes was decided from a status it
  read earlier, so `GrowInv` says that no status it read is ahead of the file,
  that a claim names the attempt after the one on file unless that attempt's
  branch is there already (then it is not made again, and the claim is rolled
  back), and that a plan with a cleanup left names the attempt that was merged.
- `OnlyBehindDelivered`: `PredecessorsDelivered`. The gate is evaluated at the
  decision, the claim comes several calls later, and the run lasts for many
  ticks; `PredInv` carries the verdict along. It holds if what is done stays
  done (`DoneIsFinal`: the board does not reopen a closed item, as the GitHub
  board refuses to, and people move nothing out of "done"). Without that, a
  delivered predecessor may go back while its successor runs.
- `EscalationsRelease`: `EscalatedIsReleased`, while no crash has happened, if
  people put nothing back into the queue (`OnlyTheFleetRequeues`). `EscInv` says
  that a queued item has no claim, that an item on its way to a claim is not
  escalated, and that a plan releases right before it requeues and right after
  it tags the failure. A crash between these two calls leaves the claim of an
  escalated item.
- `WorktreesAreKept` and `SandboxesAreOwned`: `RunnerKeepsItsWorktree` and
  `RunningMeansClaimed`, again if only the fleet requeues, for a host on which a
  launched runner lives to write its status before the next tick reads it, and
  `compose down` takes down what its file names (`CalmHost`). These are the
  settings of `sandboxes` and `recovery`; `attempts` runs without them. `SafeInv`
  says of a sandbox that is up that it is kept or retired. Kept (`Kept`): its
  worktree and its claim are there, the tick under way read its status for this
  very attempt, and no plan takes the worktree or the claim away before a call
  that stops the sandbox (`StopsFirst`). Retired (`Retired`): its attempt was
  merged, and a finalize is on its way to `ComposeDown` or a tick died there. The
  second theorem has therefore two halves: `RunningMeansClaimed` while no tick
  has died, and after a crash nothing but a merged sandbox without its claim
  (`LooseIsMerged`), which a person makes by moving its item.

`BoardSafety_proofs` goes on from `TickEntry_proofs`, over any worlds: any
boards of the three kinds, any configuration, prefixes and people. Its invariants
were first checked by TLC on the worlds of `boards`.

- `TagsAreWritten` and `TagsOfOthersSurvive`: `TagsAreAsWritten`, and the action
  property `OthersTagsSurvive`. `TagInv` says how far a plan is when the claim
  is on the item or off it, and what the Azure board knows between its three
  requests: the tags it is about to patch are those it read unless somebody wrote
  tags since, or the answer was blank. It needs the forms of the plans, and that the
  configuration a tick acts on is one of its world's.
- `GathersSeeTheBoard`: `GatherSeesTheBoard`, on the two services (`OnAService`).
  `GatherInv` adds that every item is in a column of the board or closed
  (`ColumnsHold`), and of each item that the gather has it in its bucket or has
  not read that bucket yet (`GatherIsRight`). The preflight is what makes the
  buckets of a column one. The fake board's `set_state` takes any name, so there
  an item can be where no column is; TLC checks it on the worlds.
- `FaultsFireOnce`: `FaultFiresOnce`, as at least as many
  faults have fired as creates are stopping or have one armed (`FaultInv`).
- `QueuedItemsAreComplete` and `CreatorsHaveOneItem`: `QueuedIsComplete` and
  `OneItemPerCreator`. `CreateInv` says of each Origin that one item at most has
  it (`OriginIsKept`) and of each call under way that what its
  item does not have yet is among the writes it has left, the commit last (`CallIsOn`). A retry
  finds the partial item and takes what is missing there; the lemmas on the writes of
  a call (`FreshWrites`, `RestWrites`, `WritesGoOn`) carry this through each one.
- `EntryTypeCorrect`: `EntryTypeOK`. `NamesHold` says which native states there are,
  by provider (`NativeNames`): on a service what a tick writes is a column when it
  writes it (`SetState` exits otherwise); the fake board checks nothing, so there
  it is the first name of a bucket in the text that the tick or the create read
  (`FirstNamesAreKnown`), and a create carries that name through its writes up to the
  commit. The stamp is a name since only a loaded configuration is written.

**Only model-checked.** Liveness, which tlapm does not reach:
`DeadRunnerIsReaped`, `WithdrawnIsRelinquished`, `ClosedByHandIsStopped`,
`PartialItemsGetFinished`, `EveryCallReturns` (`AtomicQueue` promises no liveness).
`LaunchedIsActive`, and `GatherSeesTheBoard` on the fake board.

## 7. Not modelled

- *Without state across calls*: `scaffold.py`, `units.py`, `_resources.py`,
  `constants.py` (rendering), `cli.py` and the host scripts (dispatch). Of
  `config.py`, the layers of the environment, numeric bounds, skills and templates.
- *Choice of a credential and process launches*: `remote_auth.py`,
  `git_host.py`, `repo.py`, `secrets.py`. The two credential probes of a tick are
  one choice in `SupervisorTick`.
- *Of the boards*: comments, paging (one listing is one read), the lookup of a
  pull request by branch, labels that do not exist yet, the parse of a
  malformed fake file, and the seeding of tests.
- *Of the dry run*: the two wrappers of `dry_run.py` and `DryRunSandbox` stand
  before what only `SupervisorTick` has (worktrees, docker). In `TickEntry` a dry
  tick's board, stamp and marker calls return at once, by the flag that its actions
  carry: what the runs show is that such ticks share the lock and the root with
  real ones rightly, not that `dry_run_seams` replaces every seam.
- *Of the runner*: the cloning of the workspace and the sidecar's pid files.

What compose, git, the kernel and the boards do is modelled from how the code
calls them.
