----------------------------- MODULE TickEntry -----------------------------
(***************************************************************************)
(* One supervisor tick from its command line to its exit, on a fleet root  *)
(* that other ticks want as well: load_config, the preflight of the board, *)
(* the flock, the fleet-name stamp, the gather of the four buckets, then   *)
(* the board calls of what it decided, each as its provider makes it, real *)
(* or behind the seams of a dry run (squadra.supervisor, main).            *)
(*                                                                         *)
(* What a tick decides is SupervisorTick's; here a decision is any of the  *)
(* programs of board calls the engine may ask for what was seen.           *)
(***************************************************************************)
EXTENDS BoardAccess

CONSTANTS
  Ticks,   \* supervisor processes
  Nobody   \* holder of a free lock

VARIABLES
  stamp,  \* <fleet_root>/fleet-name, Unset when there is none
  dirs,   \* increment directory -> the tag prefix of its claim, Unset for none
  lock,   \* supervisor.lock: the tick that holds its flock
  ticks   \* tick -> how far it is

Prefix(raw) == IF raw.tag_prefix = Unset THEN raw.name ELSE raw.tag_prefix

(* A root that this squadra.toml may work on holds claims of its prefix.   *)
ClaimsAgree(raw, mark, claims) ==
  mark = raw.name \/ (mark = Unset /\ raw.tag_prefix # Unset)
    => \A i \in Ids : claims[i] \in {Unset, Prefix(raw)}

ASSUME NamesAssumption == Nobody \notin Ticks /\ Unset \notin FleetNames

(* The operator who set the fleet up agrees with the claims found there.   *)
ASSUME RootsAssumption ==
  \A w \in Worlds : \A r \in w.roots :
    /\ r.stamp \in FleetNames \cup {Unset} /\ DOMAIN r.dirs = Ids
    /\ \A raw \in w.tomls : ClaimsAgree(raw, r.stamp, r.dirs)

(* Ids are given out from 1 on, and increments are queued behind items.    *)
ASSUME IdsAssumption ==
  /\ IsFiniteSet(Ids) /\ Ids = 1..Cardinality(Ids)
  /\ IsFiniteSet(Creators)
  /\ NoItem \notin Ids /\ NoOrigin \notin Creators
  /\ \A p \in Creators : Requests[p].predecessors \in Seq(Ids)

(* A board starts with whole items, under the first ids, that nobody has   *)
(* queued yet; on the two services each is in a column, or closed.  The    *)
(* creates of BoardAccess are the fake provider's.                         *)
ASSUME BoardsAssumption ==
  \A w \in Worlds :
    /\ w.provider \in Providers
    /\ w.provider # "fake" => w.creators = {}
    /\ w.bounds \in [Kinds -> Nat]
    /\ w.columns \in w.layouts /\ w.faults \subseteq Nat
    /\ \A board \in w.items :
         /\ DOMAIN board = Ids
         /\ \A i \in Ids :
              /\ DOMAIN board[i] = DOMAIN NewItem(Absent)
              /\ board[i].origin = NoOrigin
              /\ w.provider = "ado" => board[i].native \in {Absent} \cup w.columns
              /\ w.provider = "github" =>
                   board[i].native \in {Absent} \cup w.columns \cup ClosedNames
         /\ \E k \in 0..Cardinality(Ids) : {i \in Ids : board[i].native # Absent} = 1..k

(* No column and no configured name is one of the two marks of an item     *)
(* that has no state on the board; the buckets are the four there are.     *)
ASSUME NativesAssumption ==
  \A w \in Worlds :
    /\ \A layout \in w.layouts : {Absent, Partial} \cap layout = {}
    /\ \A raw \in w.tomls :
         LET states == ResolvedStates(w.provider, raw) IN
         /\ DOMAIN states \subseteq Buckets
         /\ {Absent, Partial} \cap Mapped(states) = {}
         /\ \A b \in DOMAIN states : states[b] \in Seq(STRING)

root == <<stamp, dirs, lock>>
entryVars == <<boardVars, root, ticks>>

Unseen == [bucket |-> "none", tags |-> {}]
NothingSeen == [i \in Ids |-> Unseen]
NoPlan == [i \in Ids |-> <<>>]
NoConfig == [valid |-> FALSE]

Off ==
  [stage |-> "off", config |-> NoConfig, dry |-> FALSE, since |-> <<>>,
   reads |-> <<>>, seen |-> NothingSeen, plan |-> NoPlan, io |-> "call", read |-> {}]

Init ==
  /\ \E w \in Worlds :
       /\ InitialBoard(w)
       /\ \E r \in w.roots : stamp = r.stamp /\ dirs = r.dirs
  /\ lock = Nobody
  /\ ticks = [t \in Ticks |-> Off]

At(t, stage) == ticks[t].stage = stage

Moves(t, tick) == ticks' = [ticks EXCEPT ![t] = tick]

(* The process ends, and with it its flock.                                *)
Exits(t) ==
  /\ Moves(t, Off)
  /\ lock' = IF lock = t THEN Nobody ELSE lock

-----------------------------------------------------------------------------
(* Before the lock: main.                                                  *)

(* An unsound squadra.toml ends the tick with exit code 1.                 *)
LoadConfig(t) ==
  /\ t \in world.ticks /\ At(t, "off")
  /\ ConfigIsSound(world.provider, toml)
  /\ \E dry \in world.dry :
       Moves(t, [Off EXCEPT !.stage = "loaded", !.dry = dry,
                            !.config = Config(world.provider, toml)])
  /\ UNCHANGED <<boardVars, root>>

ValidateConfig(t) ==
  /\ At(t, "loaded")
  /\ IF Preflight(world.provider, ticks[t].config, columns)
       THEN Moves(t, [ticks[t] EXCEPT !.stage = "valid", !.since = left])
       ELSE Moves(t, Off)
  /\ UNCHANGED <<boardVars, root>>

(* Mutation: LOCK_SH.                                                      *)
TryLockShared(t) ==
  /\ At(t, "valid")
  /\ lock' = t /\ Moves(t, [ticks[t] EXCEPT !.stage = "locked"])
  /\ UNCHANGED <<boardVars, stamp, dirs>>

(* LOCK_EX | LOCK_NB: a tick that finds the lock held skips its turn.      *)
TryLock(t) ==
  /\ At(t, "valid")
  /\ IF lock = Nobody
       THEN lock' = t /\ Moves(t, [ticks[t] EXCEPT !.stage = "locked"])
       ELSE lock' = lock /\ Moves(t, Off)
  /\ UNCHANGED <<boardVars, stamp, dirs>>

-----------------------------------------------------------------------------
(* Under the lock: the stamp.                                              *)

HasIncrementDirs == \E i \in Ids : dirs[i] # Unset

(* Mutation: only a stamp of another name is refused.                      *)
StampRefusesNames(config) ==
  HasIncrementDirs /\ stamp \notin {Unset, config.name}

(* fleet_stamp_refusal: a rename, or an upgrade the stamp cannot see.      *)
StampRefuses(config) ==
  /\ HasIncrementDirs /\ stamp # config.name
  /\ stamp # Unset \/ ~ config.prefix_explicit

(* The four lists of the gather, by the calls that answer them: GitHub     *)
(* lists the project once.                                                 *)
Lists ==
  IF world.provider = "github" THEN <<Buckets>>
    ELSE <<{"done"}, {"active"}, {"queued"}, {"withdrawn"}>>

Stamp(t) ==
  LET tick == ticks[t] IN
  /\ At(t, "locked")
  /\ IF StampRefuses(tick.config) THEN Exits(t) /\ stamp' = stamp
     ELSE /\ stamp' = IF tick.dry THEN stamp ELSE tick.config.name
          /\ lock' = lock
          /\ Moves(t, [tick EXCEPT !.stage = "gather", !.reads = Lists])
  /\ UNCHANGED <<boardVars, dirs>>

-----------------------------------------------------------------------------
(* The gather: the four lists, the last answer for an item standing; then  *)
(* the gates of the queued ones, read at one instant with the decision.    *)

(* items_in_state, of which the gather leaves the unclaimed withdrawn out: *)
(* a partial item's native state is in no bucket.                          *)
Answer(config, buckets, i) ==
  {b \in buckets :
     /\ In(config, items[i].native, b)
     /\ b = "withdrawn" => ClaimTag(config) \in items[i].tags}

Notes(t, found) ==
  LET tick == ticks[t] IN
  [tick EXCEPT !.reads = Tail(@),
     !.seen = [i \in Ids |->
       IF found[i] = {} THEN @[i]
         ELSE [bucket |-> CHOOSE b \in found[i] : TRUE, tags |-> items[i].tags]]]

(* Azure DevOps may answer a read with nothing at all, and a blank answer  *)
(* reads as an empty one.                                                  *)
ReadBuckets(t) ==
  /\ At(t, "gather") /\ ticks[t].reads # <<>>
  /\ \/ /\ Moves(t, Notes(t, [i \in Ids |-> Answer(ticks[t].config, Head(ticks[t].reads), i)]))
        /\ left' = left
     \/ /\ world.provider = "ado" /\ Spend("blanks")
        /\ Moves(t, Notes(t, [i \in Ids |-> {}]))
  /\ UNCHANGED <<world, toml, columns, items, fault, creates, fired, root>>

Candidates(t) ==
  {i \in Ids : /\ ticks[t].seen[i].bucket = "queued"
               /\ InClaimScope(ticks[t].config, items[i].parent)}

(* On Azure DevOps the links of an item may come back blank, as none: the  *)
(* item is behind nothing, or, where parents count, out of scope.          *)
BlankLinks(blank) ==
  /\ Cardinality(blank) <= IF world.provider = "ado" THEN left.blanks ELSE 0
  /\ left' = [left EXCEPT !.blanks = @ - Cardinality(blank)]

Predecessors(i, blank) == IF i \in blank THEN {} ELSE items[i].predecessors

(* A predecessor in no bucket raises, and the tick is over.                *)
GatesAreReadable(t, blank) ==
  \A i \in Candidates(t) : \A j \in Predecessors(i, blank) : HasBucket(ticks[t].config, j)

Unblocked(t, i, blank) ==
  \A j \in Predecessors(i, blank) : In(ticks[t].config, items[j].native, "done")

(* The board calls of a claim with its launch, of a retry, and of an       *)
(* escalation, finalize or relinquish, as far as they concern the state    *)
(* and the claim.                                                          *)
ClaimCalls == <<"activate", "tag", "mark", "launch">>
RetryCalls == <<"untag", "requeue">>
ReleaseCalls == <<"untag">>

(* What the engine may ask for an item that was seen like this.            *)
Programs(t, i, blank) ==
  LET seen    == ticks[t].seen[i]
      claimed == ClaimTag(ticks[t].config) \in seen.tags
  IN  {<<>>}
      \cup (IF i \in Candidates(t) /\ Unblocked(t, i, blank) THEN {ClaimCalls} ELSE {})
      \cup (IF seen.bucket = "active" /\ claimed THEN {RetryCalls, ReleaseCalls} ELSE {})
      \cup (IF seen.bucket \in {"done", "withdrawn"} /\ claimed THEN {ReleaseCalls} ELSE {})

Plans(t, blank) ==
  {plan \in [Ids -> {<<>>, ClaimCalls, RetryCalls, ReleaseCalls}] :
     \A i \in Ids : plan[i] \in Programs(t, i, blank)}

(* A blank state of a predecessor is in no bucket either.                  *)
BlankStateRaises(t) ==
  /\ world.provider = "ado" /\ Spend("blanks")
  /\ \E i \in Candidates(t) : items[i].predecessors # {}
  /\ Exits(t)

Decide(t) ==
  /\ At(t, "gather") /\ ticks[t].reads = <<>>
  /\ \/ BlankStateRaises(t)
     \/ \E blank \in SUBSET Candidates(t) :
          /\ BlankLinks(blank)
          /\ IF GatesAreReadable(t, blank)
               THEN /\ \E plan \in Plans(t, blank) :
                         Moves(t, [ticks[t] EXCEPT !.stage = "act", !.plan = plan])
                    /\ lock' = lock
               ELSE Exits(t)
  /\ UNCHANGED <<world, toml, columns, items, fault, creates, fired, stamp, dirs>>

-----------------------------------------------------------------------------
(* The calls: claims last, items in id order.                              *)

IsClaim(plan, i) == Head(plan[i]) \in {"activate", "tag", "mark", "launch"}

Turn(t, i, call) ==
  LET plan == ticks[t].plan IN
  /\ At(t, "act")
  /\ plan[i] # <<>> /\ Head(plan[i]) = call
  /\ \A j \in Ids \ {i} : plan[j] # <<>> =>
       IF IsClaim(plan, i) = IsClaim(plan, j) THEN i < j ELSE IsClaim(plan, j)

(* The time as a tick notes it, for these kinds of events.                 *)
Noted(t, kinds) ==
  [kind \in Kinds |-> IF kind \in kinds THEN left[kind] ELSE ticks[t].since[kind]]

DoneSince(t, i, since) ==
  Moves(t, [ticks[t] EXCEPT !.plan[i] = Tail(@), !.io = "call", !.read = {}, !.since = since])

Done(t, i) == DoneSince(t, i, ticks[t].since)

GivenUp(t, i) == Moves(t, [ticks[t] EXCEPT !.plan[i] = <<>>])

(* dry_run_seams: every write returns at once, as if it had been made.     *)
Absorbed(t, i) ==
  /\ \E call \in {"activate", "requeue", "tag", "untag", "mark", "launch"} : Turn(t, i, call)
  /\ ticks[t].dry
  /\ Done(t, i)
  /\ UNCHANGED <<boardVars, root>>

Goal == [activate |-> "active", requeue |-> "queued"]

StateCall(t, i, call) ==
  call \in DOMAIN Goal /\ Turn(t, i, call) /\ ~ ticks[t].dry

(* Mutation: a closed issue is not refused; its Status is written.         *)
LookPastClosure(t, i) ==
  \E call \in DOMAIN Goal :
    LET now == Noted(t, {"moves"}) IN
    /\ StateCall(t, i, call) /\ world.provider = "github" /\ ticks[t].io = "call"
    /\ IF In(ticks[t].config, items[i].native, Goal[call]) THEN DoneSince(t, i, now)
       ELSE Moves(t, [ticks[t] EXCEPT !.io = "write", !.since = now])
    /\ UNCHANGED <<boardVars, root>>

(* GitHub looks first: it writes nothing onto an item that is there        *)
(* already, and refuses a closed one.                                      *)
LookAtIssue(t, i) ==
  \E call \in DOMAIN Goal :
    LET native == items[i].native
        now    == Noted(t, {"moves"})
    IN
    /\ StateCall(t, i, call) /\ world.provider = "github" /\ ticks[t].io = "call"
    /\ IF In(ticks[t].config, native, Goal[call]) THEN DoneSince(t, i, now)
       ELSE IF native \in ClosedNames THEN GivenUp(t, i)
       ELSE Moves(t, [ticks[t] EXCEPT !.io = "write", !.since = now])
    /\ UNCHANGED <<boardVars, root>>

(* native_state: whatever Status is written, a closed issue is closed.     *)
NativeAfter(native, status) == IF native \in ClosedNames THEN native ELSE status

(* A column that went since the preflight is an error of the two services. *)
SetState(t, i) ==
  \E call \in DOMAIN Goal :
    LET status == FirstNative(ticks[t].config, Goal[call])
        since  == IF world.provider = "github" THEN ticks[t].since ELSE Noted(t, {"moves"})
    IN
    /\ StateCall(t, i, call)
    /\ world.provider = "github" => ticks[t].io = "write"
    /\ IF world.provider # "fake" /\ status \notin columns
         THEN Exits(t) /\ items' = items
         ELSE /\ items' = [items EXCEPT ![i].native = NativeAfter(@, status)]
              /\ DoneSince(t, i, since) /\ lock' = lock
    /\ UNCHANGED <<world, toml, columns, fault, creates, fired, left, stamp, dirs>>

TagCall(t, i, call) ==
  call \in {"tag", "untag"} /\ Turn(t, i, call) /\ ~ ticks[t].dry

Retagged(t, call, tags) ==
  IF call = "tag" THEN tags \cup {ClaimTag(ticks[t].config)}
                  ELSE tags \ {ClaimTag(ticks[t].config)}

(* GitHub's labels, and the fake board under its own lock: one write.      *)
TagOne(t, i) ==
  \E call \in {"tag", "untag"} :
    /\ TagCall(t, i, call) /\ world.provider # "ado"
    /\ items' = [items EXCEPT ![i].tags = Retagged(t, call, @)]
    /\ Done(t, i)
    /\ UNCHANGED <<world, toml, columns, fault, creates, fired, left, root>>

(* What `work-item show` answers: the tags, or nothing.                    *)
Show(i, tags) ==
  \/ tags = items[i].tags /\ left' = left
  \/ tags = {} /\ Spend("blanks")

(* Azure DevOps: System.Tags is one field.  It is read ...                 *)
ReadTags(t, i) ==
  \E call \in {"tag", "untag"}, tags \in {items[i].tags, {}} :
    /\ TagCall(t, i, call) /\ world.provider = "ado" /\ ticks[t].io = "call"
    /\ Show(i, tags)
    /\ IF Retagged(t, call, tags) = tags THEN Done(t, i)
       ELSE Moves(t, [ticks[t] EXCEPT !.io = "patch", !.read = tags,
                                      !.since = Noted(t, {"tags"})])
    /\ UNCHANGED <<world, toml, columns, items, fault, creates, fired, root>>

(* Mutation: the write replaces the field by the one tag it is about.      *)
PatchOwnTag(t, i) ==
  \E call \in {"tag", "untag"} :
    /\ TagCall(t, i, call) /\ ticks[t].io = "patch"
    /\ items' = [items EXCEPT ![i].tags = Retagged(t, call, {})]
    /\ Moves(t, [ticks[t] EXCEPT !.io = "verify", !.read = Retagged(t, call, {})])
    /\ UNCHANGED <<world, toml, columns, fault, creates, fired, left, root>>

(* ... replaced whole, or silently not ...                                 *)
PatchTags(t, i) ==
  \E call \in {"tag", "untag"} :
    /\ TagCall(t, i, call) /\ ticks[t].io = "patch"
    /\ \/ /\ items' = [items EXCEPT ![i].tags = Retagged(t, call, ticks[t].read)]
          /\ left' = left
       \/ items' = items /\ Spend("drops")
    /\ Moves(t, [ticks[t] EXCEPT !.io = "verify", !.read = Retagged(t, call, @)])
    /\ UNCHANGED <<world, toml, columns, fault, creates, fired, root>>

(* Mutation: the answer of the write is trusted.                           *)
VerifyNothing(t, i) ==
  \E call \in {"tag", "untag"} :
    /\ TagCall(t, i, call) /\ ticks[t].io = "verify"
    /\ Done(t, i)
    /\ UNCHANGED <<boardVars, root>>

(* ... and read back: what does not match raises TagWriteError.            *)
VerifyTags(t, i) ==
  \E call \in {"tag", "untag"}, tags \in {items[i].tags, {}} :
    /\ TagCall(t, i, call) /\ ticks[t].io = "verify"
    /\ Show(i, tags)
    /\ IF tags = ticks[t].read THEN Done(t, i) /\ lock' = lock ELSE Exits(t)
    /\ UNCHANGED <<world, toml, columns, items, fault, creates, fired, stamp, dirs>>

(* The claimed-at marker makes the increment directory.                    *)
WriteClaimedAt(t, i) ==
  /\ Turn(t, i, "mark") /\ ~ ticks[t].dry
  /\ dirs' = [dirs EXCEPT ![i] = ticks[t].config.prefix]
  /\ Done(t, i)
  /\ UNCHANGED <<boardVars, stamp, lock>>

(* A launch that fails is rolled back: the claim's tag goes, and the item  *)
(* is queued again.                                                        *)
Launch(t, i) ==
  /\ Turn(t, i, "launch") /\ ~ ticks[t].dry /\ ticks[t].io = "call"
  /\ \/ Done(t, i)
     \/ Moves(t, [ticks[t] EXCEPT !.plan[i] = RetryCalls])
  /\ UNCHANGED <<boardVars, root>>

EndTick(t) ==
  /\ At(t, "act") /\ ticks[t].plan = NoPlan
  /\ Exits(t)
  /\ UNCHANGED <<boardVars, stamp, dirs>>

(* The tick is killed, or a board call raises out of it.                   *)
TickDies(t) ==
  /\ ~ At(t, "off")
  /\ Spend("crashes")
  /\ Exits(t)
  /\ UNCHANGED <<world, toml, columns, items, fault, creates, fired, stamp, dirs>>

Call(t, i) ==
  \/ Absorbed(t, i) \/ LookAtIssue(t, i) \/ SetState(t, i) \/ TagOne(t, i)
  \/ ReadTags(t, i) \/ PatchTags(t, i) \/ VerifyTags(t, i)
  \/ WriteClaimedAt(t, i) \/ Launch(t, i)

Tick(t) ==
  \/ LoadConfig(t) \/ ValidateConfig(t) \/ TryLock(t) \/ Stamp(t)
  \/ ReadBuckets(t) \/ Decide(t) \/ EndTick(t) \/ TickDies(t)
  \/ \E i \in Ids : Call(t, i)

-----------------------------------------------------------------------------
(* The operator of the host.                                               *)

(* One name has one prefix: the operator never changes the tag prefix      *)
(* under a name that ticks or increment directories still use, and sets an *)
(* explicit one on an unstamped root only to what its claims carry.        *)
KeepsPrefix(raw) ==
  /\ \A t \in Ticks :
       ~ At(t, "off") /\ ticks[t].config.name = raw.name
         => ticks[t].config.prefix = Prefix(raw)
  /\ ClaimsAgree(raw, stamp, dirs)

EditToml ==
  /\ Spend("edits")
  /\ toml' \in world.tomls \ {toml}
  /\ KeepsPrefix(toml')
  /\ UNCHANGED <<world, columns, items, fault, creates, fired, root, ticks>>

(* The fleet is stopped, its increments finished, their dirs moved aside.  *)
ClearRoot ==
  /\ HasIncrementDirs /\ lock = Nobody
  /\ \A i \in Ids : <<dirs[i], "claimed">> \notin items[i].tags
  /\ Spend("edits")
  /\ dirs' = [i \in Ids |-> Unset]
  /\ UNCHANGED <<world, toml, columns, items, fault, creates, fired, stamp, lock, ticks>>

Operator == EditToml \/ ClearRoot

Next ==
  \/ \E t \in Ticks : Tick(t)
  \/ Operator
  \/ (People \/ Creates) /\ UNCHANGED <<root, ticks>>

Spec == Init /\ [][Next]_entryVars

-----------------------------------------------------------------------------

Stages == {"off", "loaded", "valid", "locked", "gather", "act"}

(* What a fake board's file starts with, and what some squadra.toml names. *)
FakeNames ==
  {board[i].native : board \in world.items, i \in Ids}
    \cup UNION {Mapped(ResolvedStates(world.provider, raw)) : raw \in world.tomls}

(* The native states there are, by provider: only a fake board without     *)
(* columns of its own takes a name that is nobody's column.                *)
NativeNames ==
  {Absent} \cup (UNION world.layouts)
    \cup (IF world.provider = "github" THEN ClosedNames ELSE {})
    \cup (IF world.provider = "fake" THEN {Partial} \cup FakeNames ELSE {})

EntryTypeOK ==
  /\ stamp \in FleetNames \cup {Unset}
  /\ lock \in Ticks \cup {Nobody}
  /\ \A i \in Ids : items[i].native \in NativeNames
  /\ \A t \in Ticks :
       /\ ticks[t].stage \in Stages
       /\ \A i \in Ids :
            ticks[t].plan[i] \in Seq({"activate", "requeue", "tag", "untag", "mark", "launch"})

Acting(t) == ticks[t].stage \in {"gather", "act"}

(* run_tick, fleet_stamp_refusal: a tick that reads and acts on a fleet    *)
(* root holds its lock, has its name on it, and speaks the tag prefix of   *)
(* every claim that has a directory there, however the name was edited     *)
(* while ticks were loading and whichever of them died.                    *)
ActingTickOwnsTheRoot ==
  \A t \in Ticks : Acting(t) =>
    /\ lock = t
    /\ ~ ticks[t].dry => stamp = ticks[t].config.name
    /\ \A i \in Ids : dirs[i] \in {Unset, ticks[t].config.prefix}

(* Nothing of this kind happened since the tick last noted the time.       *)
QuietSince(t, kinds) == \A kind \in kinds : left[kind] = ticks[t].since[kind]

(* validate_config, _gather: on a board that was left alone since the      *)
(* preflight, the gather finds every item in the one bucket its column     *)
(* maps to; what goes unseen is a withdrawn item without a claim and, on   *)
(* GitHub, an open issue that somebody dragged to done.                    *)
GatherSeesTheBoard ==
  [][\A t \in Ticks : \A i \in OnBoard :
       LET config == ticks[t].config
           seen   == ticks[t].seen[i]
           native == items[i].native
       IN  /\ At(t, "gather") /\ ticks[t].reads = <<>> /\ ticks'[t].stage = "act"
           /\ QuietSince(t, {"moves", "columns", "blanks"})
           /\ items[i].origin = NoOrigin
           => \E b \in Buckets :
                /\ \A c \in Buckets : native \in Names(config.states, c) <=> c = b
                /\ \/ seen.bucket = b
                   \/ b = "withdrawn" /\ ClaimTag(config) \notin seen.tags
                   \/ b = "done" /\ native \in columns /\ world.provider = "github"]_entryVars

BlankAnswers == left.blanks < world.bounds.blanks

(* add_tag and remove_tag, as _claim_and_launch and _retry rely on them:   *)
(* the increment about to be marked claimed carries the fleet's tag, and   *)
(* the one about to be requeued does not, whatever people write meanwhile  *)
(* and even if a write is lost; only a blank read can fake a removal.      *)
TagsAreAsWritten ==
  \A t \in Ticks, i \in Ids :
    LET claimed == ClaimTag(ticks[t].config) \in items[i].tags IN
      ~ ticks[t].dry =>
        /\ Turn(t, i, "mark") => claimed
        /\ Turn(t, i, "requeue") => ~ claimed \/ BlankAnswers

(* _write_tags replaces the whole field: it takes no tag of a person's     *)
(* away and brings none back, unless that tag was edited between its read  *)
(* and its write, or the read came back blank.                             *)
OthersTagsSurvive ==
  [][\A t \in Ticks : \A i \in Ids :
       ticks'[t] # ticks[t] /\ ~ (Note \in items[i].tags <=> Note \in items'[i].tags)
         => ~ QuietSince(t, {"tags"}) \/ BlankAnswers]_entryVars

(* GhApiGitHub.set_state, _set_state_or_report, _claim_and_launch: whoever *)
(* closes or moves an item while a tick is about to claim it, a sandbox is *)
(* launched only for one that the claim left active: a refused activation  *)
(* stops the claim before its tag.  Only who moves the item after          *)
(* set_state looked at it is not noticed.                                  *)
LaunchedIsActive ==
  \A t \in Ticks, i \in Ids :
    Turn(t, i, "launch") /\ ~ ticks[t].dry =>
      \/ In(ticks[t].config, items[i].native, "active")
      \/ ~ QuietSince(t, {"moves"})

=============================================================================
