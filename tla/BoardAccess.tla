---------------------------- MODULE BoardAccess ----------------------------
(***************************************************************************)
(* A board behind squadra.board's seam, as three providers keep it: Azure  *)
(* DevOps, a GitHub project and the fake provider's JSON file.  Here are   *)
(* its columns and items, the people who change both, and the create of    *)
(* the fake provider, one locked save at a time; its ticks are in          *)
(* TickEntry, the create of the GitHub provider in IncrementVerbs.         *)
(***************************************************************************)
EXTENDS BoardConfig, FiniteSets

CONSTANTS
  Ids,       \* item ids, in the order the board gives them out
  Creators,  \* processes that queue an increment, each under its own Origin
  Requests,  \* creator -> the increment it queues
  Worlds,    \* small worlds: a provider, who acts on it, and how often
  NoItem,
  NoOrigin

VARIABLES
  world,    \* the one of Worlds this history is about
  toml,     \* squadra.toml
  columns,  \* the board's own states (GitHub: the Status options)
  items,    \* the board: id -> item
  fault,    \* fake board: the write an armed fault stops a create after, 0 if none
  creates,  \* fake board: creator -> its create_increment call
  fired,    \* faults armed and not fired yet
  left      \* bounds: what may still happen, by kind

boardVars == <<world, toml, columns, items, fault, creates, fired, left>>

Buckets == {"queued", "active", "done", "withdrawn"}
Absent == "absent"
Partial == "partial"

(* What the bounds of a world count.                                       *)
Kinds == {"moves", "tags", "columns", "blanks", "drops", "edits", "crashes", "arms"}

(* A tag is its prefix and its word; people have tags of their own.        *)
ClaimTag(config) == <<config.prefix, "claimed">>
Note == <<"person", "note">>

NewItem(native) ==
  [native |-> native, tags |-> {}, origin |-> NoOrigin, parent |-> NoItem,
   predecessors |-> {}]

OnBoard == {i \in Ids : items[i].native # Absent}

(* item_state raises for a partial item, an unmapped column, and an open   *)
(* issue in a done Status.                                                 *)
HasBucket(config, i) == \E b \in Buckets : In(config, items[i].native, b)

InitialBoard(w) ==
  /\ world = w
  /\ toml \in w.tomls
  /\ columns = w.columns
  /\ items \in w.items
  /\ fault = 0
  /\ creates = [p \in Creators |->
       [stage |-> "idle", queued |-> Absent, item |-> NoItem, todo |-> <<>>,
        peeked |-> 0, armed |-> 0, made |-> 0]]
  /\ fired = 0
  /\ left = w.bounds

(* One of the bounded events of a kind happens.                            *)
Spend(kind) ==
  /\ left[kind] > 0
  /\ left' = [left EXCEPT ![kind] = @ - 1]

-----------------------------------------------------------------------------
(* People and the board's administrator.                                   *)

Natives ==
  IF world.provider = "github"
    THEN columns \cup {"closed:completed", "closed:not_planned"} ELSE columns

PersonMoves(i) ==
  /\ items[i].native \notin {Absent, Partial}
  /\ Spend("moves")
  /\ \E native \in Natives \ {items[i].native} :
       items' = [items EXCEPT ![i].native = native]
  /\ UNCHANGED <<world, toml, columns, fault, creates, fired>>

PersonTags(i) ==
  /\ items[i].native # Absent
  /\ Spend("tags")
  /\ \/ items' = [items EXCEPT ![i].tags = @ \cup {Note}]
     \/ items' = [items EXCEPT ![i].tags = @ \ {Note}]
  /\ UNCHANGED <<world, toml, columns, fault, creates, fired>>

(* A column goes only when nothing stands in it.                           *)
EditColumns ==
  /\ Spend("columns")
  /\ columns' \in world.layouts \ {columns}
  /\ \A i \in OnBoard : items[i].native \in columns => items[i].native \in columns'
  /\ UNCHANGED <<world, toml, items, fault, creates, fired>>

People == EditColumns \/ \E i \in Ids : PersonMoves(i) \/ PersonTags(i)

-----------------------------------------------------------------------------
(* create_increment of the fake provider.  Each write is a save of its own *)
(* under the file's lock; a read takes the current version without it.     *)

(* Mutation: the ids of partial items are given out again.                 *)
NextIdOfCommitted == 1 + Cardinality({i \in OnBoard : items[i].native # Partial})

NextId == 1 + Cardinality(OnBoard)

WriteOf(op, to) == [op |-> op, to |-> to]
Creation == <<WriteOf("create", NoItem)>>
ParentLink(r) == <<WriteOf("parent", r.parent)>>
PredecessorLinks(links) == [k \in DOMAIN links |-> WriteOf("predecessor", links[k])]
Commitment == <<WriteOf("commit", NoItem)>>

Fresh(r) == Creation \o ParentLink(r) \o PredecessorLinks(r.predecessors) \o Commitment

MissingAt(i, r) == {k \in DOMAIN r.predecessors : r.predecessors[k] \notin items[i].predecessors}

(* Those of the request's links, in its order, that the item has not got.  *)
MissingLinks(i, r) ==
  LET at      == MissingAt(i, r)
      rank(k) == Cardinality({j \in at : j <= k})
  IN  [n \in 1..Cardinality(at) |-> r.predecessors[CHOOSE k \in at : rank(k) = n]]

(* Mutation: the commit is made before the links that are missing.         *)
RestFirst(i, r) ==
  Commitment \o (IF items[i].parent = NoItem THEN ParentLink(r) ELSE <<>>)
    \o PredecessorLinks(MissingLinks(i, r))

(* What a retry adds to the partial item it found.                         *)
Rest(i, r) ==
  (IF items[i].parent = NoItem THEN ParentLink(r) ELSE <<>>)
    \o PredecessorLinks(MissingLinks(i, r)) \o Commitment

Carrying(p) == {i \in Ids : items[i].origin = p}

Calls(p, call) == creates' = [creates EXCEPT ![p] = call]

Idle(p) == creates[p].stage = "idle"

Over(p) == Calls(p, [creates[p] EXCEPT !.stage = "idle"])

(* Mutation: the commit writes the bucket, not a native name of it.        *)
BeginsWithBucket(p, i, todo) ==
  Calls(p, [stage |-> "peek", queued |-> "queued", item |-> i, todo |-> todo,
            peeked |-> 0, armed |-> 0, made |-> 0])

Begins(p, i, todo) ==
  Calls(p, [stage |-> "peek", queued |-> FirstNative(Config(world.provider, toml), "queued"),
            item |-> i, todo |-> todo, peeked |-> 0, armed |-> 0, made |-> 0])

(* The caller found no item under its Origin, or a partial one.            *)
Begin(p) ==
  /\ p \in world.creators /\ Idle(p)
  /\ ConfigIsSound(world.provider, toml)
  /\ \/ Carrying(p) = {} /\ Begins(p, NoItem, Fresh(Requests[p]))
     \/ \E i \in Carrying(p) :
          /\ items[i].native = Partial
          /\ Begins(p, i, Rest(i, Requests[p]))
  /\ UNCHANGED <<world, toml, columns, items, fault, fired, left>>

(* _disarm looks first, and takes the lock only when a fault is armed.     *)
Peek(p) ==
  /\ creates[p].stage = "peek"
  /\ Calls(p, [creates[p] EXCEPT !.stage = IF fault = 0 THEN "write" ELSE "take",
                                 !.peeked = fault])
  /\ UNCHANGED <<world, toml, columns, items, fault, fired, left>>

(* Mutation: the fault that was looked at is taken, whatever is armed now. *)
TakePeeked(p) ==
  /\ creates[p].stage = "take"
  /\ IF creates[p].peeked > Len(creates[p].todo) THEN Over(p)
     ELSE Calls(p, [creates[p] EXCEPT !.stage = "write", !.armed = creates[p].peeked])
  /\ fault' = 0
  /\ UNCHANGED <<world, toml, columns, items, fired, left>>

(* A fault beyond the last write is refused, and spent.                    *)
Take(p) ==
  /\ creates[p].stage = "take"
  /\ IF fault > Len(creates[p].todo) THEN Over(p)
     ELSE Calls(p, [creates[p] EXCEPT !.stage = "write", !.armed = fault])
  /\ fault' = 0
  /\ UNCHANGED <<world, toml, columns, items, fired, left>>

(* What one write makes of an item.                                        *)
Written(item, write, p) ==
  CASE write.op = "create"      -> [NewItem(Partial) EXCEPT !.origin = p]
    [] write.op = "parent"      -> [item EXCEPT !.parent = write.to]
    [] write.op = "predecessor" -> [item EXCEPT !.predecessors = @ \cup {write.to}]
    [] OTHER                    -> [item EXCEPT !.native = creates[p].queued]  \* commit

(* One save; an injected crash ends the call after the armed one.          *)
Write(p) ==
  LET call  == creates[p]
      write == Head(call.todo)
      id    == IF write.op = "create" THEN NextId ELSE call.item
      rest  == Tail(call.todo)
      fires == call.made + 1 = call.armed
  IN  /\ call.stage = "write"
      /\ id \in Ids
      /\ items' = [items EXCEPT ![id] = Written(@, write, p)]
      /\ Calls(p, [call EXCEPT !.stage = IF fires \/ rest = <<>> THEN "idle" ELSE "write",
                               !.item = id, !.todo = rest, !.made = @ + 1])
      /\ fired' = IF fires THEN fired - 1 ELSE fired
      /\ UNCHANGED <<world, toml, columns, fault, left>>

CreatorDies(p) ==
  /\ ~ Idle(p)
  /\ Spend("crashes")
  /\ Over(p)
  /\ UNCHANGED <<world, toml, columns, items, fault, fired>>

(* A test arms a fault: the next create stops after its j-th write.        *)
Arm ==
  /\ Spend("arms")
  /\ fault' \in world.faults
  /\ fired' = fired + 1
  /\ UNCHANGED <<world, toml, columns, items, creates>>

Create(p) == Begin(p) \/ Peek(p) \/ Take(p) \/ Write(p) \/ CreatorDies(p)

Creates == Arm \/ \E p \in Creators : Create(p)

-----------------------------------------------------------------------------

(* create_increment, obligations 2 to 4: an item with an Origin that is in *)
(* a bucket carries every link of the increment it was queued as, through  *)
(* crashes at any write and retries that finish what they find.            *)
QueuedIsComplete ==
  \A i \in Ids :
    items[i].origin # NoOrigin /\ items[i].native # Partial =>
      LET r == Requests[items[i].origin] IN
        /\ items[i].parent = r.parent
        /\ items[i].predecessors = {r.predecessors[k] : k \in DOMAIN r.predecessors}

(* _disarm: a fault fires at most once, whoever creates at the same time.  *)
FaultFiresOnce == fired >= 0

(* _next_id: two creates never land on one item, and no retry adds a       *)
(* second item under its Origin.                                           *)
OneItemPerCreator ==
  \A p \in Creators :
    /\ Cardinality(Carrying(p)) <= 1
    /\ creates[p].item # NoItem => items[creates[p].item].origin = p

=============================================================================
