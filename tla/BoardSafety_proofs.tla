------------------------- MODULE BoardSafety_proofs -------------------------
(***************************************************************************)
(* Proofs about the board that ticks, people and creates write at the same *)
(* time (TickEntry, BoardAccess): what a tick's tag calls leave behind,    *)
(* what its gather sees, what a create does with a fault, and what the     *)
(* creates make of the items they build, interrupted and retried.          *)
(***************************************************************************)
EXTENDS TickEntry_proofs, SequenceTheorems, FiniteSetTheorems

ItemFields == {"native", "tags", "origin", "parent", "predecessors"}
CallFields == {"stage", "queued", "item", "todo", "peeked", "armed", "made"}

(* The item has a state on the board.                                      *)
Committed(i) == items[i].native \notin {Absent, Partial}

WorldIsKept ==
  /\ world \in Worlds /\ toml \in world.tomls /\ columns \in world.layouts
  /\ left \in [Kinds -> Nat]
  /\ \A kind \in Kinds : left[kind] <= world.bounds[kind]

ItemsAreWhole ==
  /\ DOMAIN items = Ids
  /\ \A i \in Ids : DOMAIN items[i] = ItemFields
  /\ \E k \in Nat : OnBoard = 1..k

CreatesAreKept ==
  /\ DOMAIN creates = Creators
  /\ \A p \in Creators :
       /\ DOMAIN creates[p] = CallFields
       /\ Idle(p) \/ creates[p].queued \notin {Absent, Partial}
       /\ creates[p].item # NoItem =>
            creates[p].item \in OnBoard /\ items[creates[p].item].origin = p

BoardInv == WorldIsKept /\ ItemsAreWhole /\ CreatesAreKept

(* Programs of board calls, from their first call on or from a later one.  *)
PlanForms ==
  {<<>>, ClaimCalls, <<"tag", "mark", "launch">>, <<"mark", "launch">>, <<"launch">>,
   RetryCalls, <<"requeue">>, ReleaseCalls}

ConfigIsRead(t) ==
  Loaded(t) => \E raw \in world.tomls :
    ConfigIsSound(world.provider, raw) /\ ticks[t].config = Config(world.provider, raw)

PlansAreForBoard(t) ==
  LET tick == ticks[t] IN
  /\ DOMAIN tick.seen = Ids /\ DOMAIN tick.plan = Ids
  /\ tick.stage # "act" => tick.plan = NoPlan /\ tick.io = "call"
  /\ \A i \in Ids :
       /\ tick.plan[i] \in PlanForms
       /\ tick.seen[i].bucket # "none" \/ tick.plan[i] # <<>> => Committed(i)

HasClaim(t, i) == ClaimTag(ticks[t].config) \in items[i].tags

(* A person's tag is as the tick last read it, unless somebody wrote tags  *)
(* since, or some answer was blank.                                        *)
NoteIsRead(t, i) ==
  \/ Note \in ticks[t].read <=> Note \in items[i].tags
  \/ left.tags < ticks[t].since.tags
  \/ BlankAnswers

TagTurn(t, i) == Turn(t, i, "tag") \/ Turn(t, i, "untag")

TagsAreRead(t) ==
  LET tick == ticks[t] IN
  tick.stage = "act" /\ ~ tick.dry =>
    /\ tick.io \in {"patch", "verify"} => world.provider = "ado"
    /\ tick.io = "patch" => tick.since.tags \in Nat /\ left.tags <= tick.since.tags
    /\ \A i \in Ids :
         /\ tick.plan[i] = <<"mark", "launch">> => HasClaim(t, i)
         /\ tick.plan[i] = <<"requeue">> => ~ HasClaim(t, i) \/ BlankAnswers
         /\ tick.io = "patch" /\ TagTurn(t, i) => NoteIsRead(t, i)
         /\ tick.io = "verify" /\ Turn(t, i, "tag") => ClaimTag(tick.config) \in tick.read
         /\ tick.io = "verify" /\ Turn(t, i, "untag") => ClaimTag(tick.config) \notin tick.read

TickInv(t) == ConfigIsRead(t) /\ PlansAreForBoard(t) /\ TagsAreRead(t)

TagInv == EInv /\ BoardInv /\ \A t \in Ticks : TickInv(t)

-----------------------------------------------------------------------------
(* What the names of a configuration are, and what stays of an item.       *)

LEMMA ConfiguredNames ==
  ASSUME WorldIsKept, NEW raw \in world.tomls, ConfigIsSound(world.provider, raw),
         NEW config, config = Config(world.provider, raw)
  PROVE  /\ \A native, bucket : In(config, native, bucket) => native \notin {Absent, Partial}
         /\ \A bucket \in {"queued", "active"} :
              FirstNative(config, bucket) \notin {Absent, Partial}
<1> DEFINE states == ResolvedStates(world.provider, raw)
<1>1. config.states = states
  BY DEF Config
<1>2. /\ {Absent, Partial} \cap Mapped(states) = {}
      /\ \A b \in DOMAIN states : states[b] \in Seq(STRING)
  BY NativesAssumption DEF WorldIsKept
<1>3. /\ {"queued", "active", "done"} \subseteq DOMAIN states
      /\ \A b \in DOMAIN states : states[b] # <<>>
  BY DEF ConfigIsSound, StatesAreSound
<1> HIDE DEF states
<1>4. \A b \in DOMAIN states : \A k \in DOMAIN states[b] : states[b][k] \in Mapped(states)
  BY DEF Mapped, Names
<1>5. ASSUME NEW native, NEW bucket, In(config, native, bucket)
      PROVE  native \notin {Absent, Partial}
  <2>1. bucket \in DOMAIN states /\ \E k \in DOMAIN states[bucket] : native = states[bucket][k]
    BY <1>1, <1>5 DEF In, Names
  <2> QED
    BY <1>2, <1>4, <2>1
<1>6. ASSUME NEW bucket \in {"queued", "active"}
      PROVE  FirstNative(config, bucket) \notin {Absent, Partial}
  <2>1. bucket \in DOMAIN states /\ states[bucket] \in Seq(STRING) /\ states[bucket] # <<>>
    BY <1>2, <1>3
  <2>2. 1 \in DOMAIN states[bucket]
    BY <2>1
  <2> QED
    BY <1>1, <1>2, <1>4, <2>1, <2>2 DEF FirstNative
<1> QED
  BY <1>5, <1>6

LEMMA ReadNames ==
  ASSUME WorldIsKept, NEW t \in Ticks, ConfigIsRead(t), Loaded(t)
  PROVE  /\ \A native, bucket :
              In(ticks[t].config, native, bucket) => native \notin {Absent, Partial}
         /\ \A bucket \in {"queued", "active"} :
              FirstNative(ticks[t].config, bucket) \notin {Absent, Partial}
BY ConfiguredNames DEF ConfigIsRead

(* The programs, and what is left of one when its first call is over.      *)
LEMMA FormsAreTuples ==
  ASSUME NEW q \in PlanForms, q # <<>>
  PROVE  /\ q = <<"mark", "launch">> <=> Head(q) = "mark"
         /\ q = <<"requeue">> <=> Head(q) = "requeue"
         /\ Tail(q) \in PlanForms
         /\ Tail(q) = <<"mark", "launch">> => Head(q) = "tag"
         /\ Tail(q) = <<"requeue">> => Head(q) = "untag"
<1>1. CASE q = ClaimCalls
  BY <1>1 DEF ClaimCalls, PlanForms
<1>2. CASE q \in {<<"tag", "mark", "launch">>, <<"mark", "launch">>}
  <2>1. CASE q = <<"tag", "mark", "launch">>
    BY <2>1 DEF PlanForms
  <2>2. CASE q = <<"mark", "launch">>
    BY <2>2 DEF PlanForms
  <2> QED
    BY <1>2, <2>1, <2>2
<1>3. CASE q = <<"launch">>
  <2>1. Head(q) = "launch" /\ Tail(q) = <<>>
    BY <1>3
  <2>2. <<>> # <<"mark", "launch">> /\ <<>> # <<"requeue">>
    BY EmptySeq
  <2> QED
    BY <1>3, <2>1, <2>2 DEF PlanForms
<1>4. CASE q = RetryCalls
  BY <1>4 DEF RetryCalls, PlanForms
<1>5. CASE q = <<"requeue">>
  <2>1. Head(q) = "requeue" /\ Tail(q) = <<>>
    BY <1>5
  <2> QED
    BY <1>5, <2>1 DEF PlanForms
<1>6. CASE q = ReleaseCalls
  <2>1. Head(q) = "untag" /\ Tail(q) = <<>>
    BY <1>6 DEF ReleaseCalls
  <2> QED
    BY <1>6, <2>1 DEF PlanForms, ReleaseCalls
<1> QED
  BY <1>1, <1>2, <1>3, <1>4, <1>5, <1>6 DEF PlanForms

NativesDrift == \A i \in Ids : Committed(i) => Committed(i)'

TagsDrift ==
  \A i \in Ids : Committed(i) =>
    /\ \A tag : tag # Note => (tag \in items'[i].tags <=> tag \in items[i].tags)
    /\ (Note \in items'[i].tags <=> Note \in items[i].tags) \/ left'.tags < left.tags

LeftFalls ==
  /\ left' \in [Kinds -> Nat]
  /\ \A kind \in Kinds : left'[kind] <= left[kind]

LEMMA SpendFalls ==
  ASSUME left \in [Kinds -> Nat], NEW kind \in Kinds, Spend(kind)
  PROVE  LeftFalls /\ left'[kind] < left[kind]
BY DEF Spend, LeftFalls

LEMMA StayFalls ==
  ASSUME left \in [Kinds -> Nat], left' = left
  PROVE  LeftFalls
BY DEF LeftFalls

LEMMA FallKeepsWorld ==
  ASSUME WorldIsKept, world' = world, toml' \in world.tomls, columns' \in world.layouts, LeftFalls
  PROVE  WorldIsKept'
<1>1. \A kind \in Kinds : world.bounds[kind] \in Nat
  BY BoardsAssumption DEF WorldIsKept
<1>2. \A kind \in Kinds : left'[kind] <= left[kind] /\ left[kind] <= world.bounds[kind]
                          /\ left[kind] \in Nat /\ left'[kind] \in Nat
  BY DEF LeftFalls, WorldIsKept
<1> QED
  BY <1>1, <1>2 DEF WorldIsKept, LeftFalls

(* A tick that did not move keeps what it knows.                           *)
LEMMA OthersKeepTick ==
  ASSUME WorldIsKept, NEW t \in Ticks, TickInv(t), world' = world, ticks'[t] = ticks[t],
         NativesDrift, LeftFalls, ticks[t].stage = "act" => TagsDrift
  PROVE  TickInv(t)'
<1>1. ConfigIsRead(t)'
  BY DEF TickInv, ConfigIsRead, Loaded
<1>2. PlansAreForBoard(t)'
  BY DEF TickInv, PlansAreForBoard, NativesDrift
<1>3. TagsAreRead(t)'
  <2> SUFFICES ASSUME ticks[t].stage = "act", ~ ticks[t].dry
               PROVE  TagsAreRead(t)'
    BY DEF TagsAreRead
  <2> DEFINE tick == ticks[t]
  <2>1. \A i \in Ids : \A call : Turn(t, i, call)' <=> Turn(t, i, call)
    BY DEF Turn, At
  <2>2. ClaimTag(tick.config) # Note
    BY DEF ClaimTag, Note
  <2>3. \A i \in Ids : tick.plan[i] # <<>> =>
          /\ Committed(i)
          /\ HasClaim(t, i)' <=> HasClaim(t, i)
    BY <2>2 DEF TickInv, PlansAreForBoard, TagsDrift, HasClaim
  <2>4. BlankAnswers => BlankAnswers'
    <3>1. /\ left.blanks \in Nat /\ left'.blanks \in Nat /\ world.bounds.blanks \in Nat
          /\ left'.blanks <= left.blanks
      BY BoardsAssumption DEF WorldIsKept, LeftFalls, Kinds
    <3> QED
      BY <3>1 DEF BlankAnswers
  <2>5. ASSUME NEW i \in Ids, tick.io = "patch", TagTurn(t, i), NoteIsRead(t, i)
        PROVE  NoteIsRead(t, i)'
    <3>1. tick.plan[i] # <<>>
      BY <2>5 DEF TagTurn, Turn
    <3>2. /\ left.tags \in Nat /\ left'.tags \in Nat /\ tick.since.tags \in Nat
          /\ left'.tags <= left.tags /\ left.tags <= tick.since.tags
      BY <2>5 DEF WorldIsKept, LeftFalls, Kinds, TickInv, TagsAreRead
    <3>3. \/ Note \in items'[i].tags <=> Note \in items[i].tags
          \/ left'.tags < left.tags
      BY <2>3, <3>1 DEF TagsDrift
    <3>4. CASE left.tags < tick.since.tags \/ BlankAnswers
      BY <2>4, <3>2, <3>4 DEF NoteIsRead
    <3>5. CASE /\ Note \in tick.read <=> Note \in items[i].tags
               /\ ~ (left.tags < tick.since.tags)
      <4>1. CASE Note \in items'[i].tags <=> Note \in items[i].tags
        BY <3>5, <4>1 DEF NoteIsRead
      <4>2. CASE left'.tags < left.tags
        <5>1. left'.tags < tick.since.tags
          BY <3>2, <4>2
        <5> QED
          BY <5>1 DEF NoteIsRead
      <4> QED
        BY <3>3, <4>1, <4>2
    <3> QED
      BY <2>5, <3>4, <3>5 DEF NoteIsRead
  <2>6. \A i \in Ids : TagTurn(t, i)' <=> TagTurn(t, i)
    BY <2>1 DEF TagTurn
  <2>7. /\ tick.io \in {"patch", "verify"} => world'.provider = "ado"
        /\ tick.io = "patch" => tick.since.tags \in Nat /\ left'.tags <= tick.since.tags
    <3>1. /\ left.tags \in Nat /\ left'.tags \in Nat /\ left'.tags <= left.tags
      BY DEF WorldIsKept, LeftFalls, Kinds
    <3> QED
      BY <3>1 DEF TickInv, TagsAreRead
  <2>8. ASSUME NEW i \in Ids
        PROVE  /\ tick.plan[i] = <<"mark", "launch">> => HasClaim(t, i)'
               /\ tick.plan[i] = <<"requeue">> => ~ HasClaim(t, i)' \/ BlankAnswers'
               /\ tick.io = "patch" /\ TagTurn(t, i) => NoteIsRead(t, i)'
               /\ tick.io = "verify" /\ Turn(t, i, "tag") => ClaimTag(tick.config) \in tick.read
               /\ tick.io = "verify" /\ Turn(t, i, "untag")
                    => ClaimTag(tick.config) \notin tick.read
    <3>1. tick.plan[i] \in {<<"mark", "launch">>, <<"requeue">>} => tick.plan[i] # <<>>
      <4>1. <<"mark", "launch">> # <<>> /\ <<"requeue">> # <<>>
        OBVIOUS
      <4> QED
        BY <4>1
    <3> QED
      BY <2>3, <2>4, <2>5, <3>1 DEF TickInv, TagsAreRead
  <2> QED
    BY <2>1, <2>6, <2>7, <2>8 DEF TagsAreRead
<1> QED
  BY <1>1, <1>2, <1>3 DEF TickInv

-----------------------------------------------------------------------------
(* Writes to one item, and what they leave of the rest of the board.       *)

LEMMA SameItems ==
  ASSUME BoardInv, items' = items
  PROVE  /\ ItemsAreWhole' /\ OnBoard' = OnBoard
         /\ NativesDrift
         /\ \A i \in Ids : items'[i].tags = items[i].tags /\ items'[i].origin = items[i].origin
BY DEF BoardInv, ItemsAreWhole, OnBoard, NativesDrift, Committed

LEMMA OneItemChanges ==
  ASSUME BoardInv, NEW i \in OnBoard, NEW item, DOMAIN item = ItemFields,
         items' = [items EXCEPT ![i] = item], item.native # Absent, item.origin = items[i].origin,
         Committed(i) => item.native # Partial
  PROVE  /\ ItemsAreWhole' /\ OnBoard' = OnBoard
         /\ NativesDrift
         /\ \A j \in Ids : items'[j].origin = items[j].origin
<1>1. i \in Ids /\ DOMAIN items = Ids /\ items[i].native # Absent
  BY DEF BoardInv, ItemsAreWhole, OnBoard
<1>2. /\ DOMAIN items' = Ids /\ items'[i] = item
      /\ \A j \in Ids \ {i} : items'[j] = items[j]
  BY <1>1
<1>3. OnBoard' = OnBoard
  BY <1>1, <1>2 DEF OnBoard
<1>4. ItemsAreWhole'
  BY <1>2, <1>3 DEF BoardInv, ItemsAreWhole
<1>5. NativesDrift
  BY <1>2 DEF NativesDrift, Committed
<1> QED
  BY <1>2, <1>3, <1>4, <1>5

LEMMA SameCreates ==
  ASSUME BoardInv, creates' = creates, OnBoard \subseteq OnBoard',
         \A i \in Ids : items'[i].origin = items[i].origin
  PROVE  CreatesAreKept'
BY DEF BoardInv, CreatesAreKept, OnBoard, Idle

LEMMA SameTags ==
  ASSUME \A i \in Ids : items'[i].tags = items[i].tags
  PROVE  TagsDrift
BY DEF TagsDrift

(* People: a move, a tag of their own, or a column.                        *)
LEMMA PeopleDrift ==
  ASSUME BoardInv, People
  PROVE  /\ BoardInv' /\ NativesDrift /\ TagsDrift /\ LeftFalls
         /\ world' = world /\ toml' = toml
<1>0. /\ left \in [Kinds -> Nat]
      /\ {Absent, Partial} \cap columns = {}
  BY NativesAssumption DEF BoardInv, WorldIsKept
<1>1. CASE EditColumns
  <2>1. LeftFalls
    BY <1>0, <1>1, SpendFalls DEF EditColumns, Kinds
  <2>2. WorldIsKept'
    BY <1>1, <2>1, FallKeepsWorld DEF EditColumns, BoardInv, WorldIsKept
  <2>3. items' = items /\ creates' = creates
    BY <1>1 DEF EditColumns
  <2> QED
    BY <1>1, <2>1, <2>2, <2>3, SameItems, SameCreates, SameTags DEF EditColumns, BoardInv
<1>2. ASSUME NEW i \in Ids, PersonMoves(i)
      PROVE  BoardInv' /\ NativesDrift /\ TagsDrift /\ LeftFalls /\ world' = world /\ toml' = toml
  <2>1. LeftFalls
    BY <1>0, <1>2, SpendFalls DEF PersonMoves, Kinds
  <2>2. WorldIsKept'
    BY <1>2, <2>1, FallKeepsWorld DEF PersonMoves, BoardInv, WorldIsKept
  <2>3. PICK native \in Natives : items' = [items EXCEPT ![i].native = native]
    BY <1>2 DEF PersonMoves
  <2>4. native \notin {Absent, Partial}
    BY <1>0 DEF Natives, Absent, Partial
  <2> DEFINE item == [items[i] EXCEPT !.native = native]
  <2>5. DOMAIN items[i] = ItemFields /\ DOMAIN items = Ids
    BY DEF BoardInv, ItemsAreWhole
  <2>6. /\ DOMAIN item = ItemFields /\ item.native = native
        /\ item.origin = items[i].origin /\ item.tags = items[i].tags
    BY <2>5 DEF ItemFields
  <2>7. i \in OnBoard /\ items' = [items EXCEPT ![i] = item]
    BY <1>2, <2>3 DEF PersonMoves, OnBoard
  <2> HIDE DEF item
  <2>8. /\ ItemsAreWhole' /\ OnBoard' = OnBoard /\ NativesDrift
        /\ \A j \in Ids : items'[j].origin = items[j].origin
    BY <2>4, <2>6, <2>7, OneItemChanges
  <2>9. \A j \in Ids : items'[j].tags = items[j].tags
    BY <2>5, <2>6, <2>7
  <2>10. CreatesAreKept'
    BY <1>2, <2>8, SameCreates DEF PersonMoves
  <2> QED
    BY <1>2, <2>1, <2>2, <2>8, <2>9, <2>10, SameTags DEF BoardInv, PersonMoves
<1>3. ASSUME NEW i \in Ids, PersonTags(i)
      PROVE  BoardInv' /\ NativesDrift /\ TagsDrift /\ LeftFalls /\ world' = world /\ toml' = toml
  <2>1. LeftFalls /\ left'.tags < left.tags
    BY <1>0, <1>3, SpendFalls DEF PersonTags, Kinds
  <2>2. WorldIsKept'
    BY <1>3, <2>1, FallKeepsWorld DEF PersonTags, BoardInv, WorldIsKept
  <2>3. PICK tags : /\ items' = [items EXCEPT ![i].tags = tags]
                    /\ tags = items[i].tags \cup {Note} \/ tags = items[i].tags \ {Note}
    BY <1>3 DEF PersonTags
  <2> DEFINE item == [items[i] EXCEPT !.tags = tags]
  <2>4. DOMAIN items[i] = ItemFields /\ DOMAIN items = Ids
    BY DEF BoardInv, ItemsAreWhole
  <2>5. /\ DOMAIN item = ItemFields /\ item.native = items[i].native
        /\ item.origin = items[i].origin /\ item.tags = tags
    BY <2>4 DEF ItemFields
  <2>6. i \in OnBoard /\ items[i].native # Absent /\ items' = [items EXCEPT ![i] = item]
    BY <1>3, <2>3 DEF PersonTags, OnBoard
  <2> HIDE DEF item
  <2>7. /\ ItemsAreWhole' /\ OnBoard' = OnBoard /\ NativesDrift
        /\ \A j \in Ids : items'[j].origin = items[j].origin
    BY <2>5, <2>6, OneItemChanges DEF Committed
  <2>8. TagsDrift
    BY <2>1, <2>3, <2>4, <2>5, <2>6 DEF TagsDrift
  <2>9. CreatesAreKept'
    BY <1>3, <2>7, SameCreates DEF PersonTags
  <2> QED
    BY <1>3, <2>1, <2>2, <2>7, <2>8, <2>9 DEF BoardInv, PersonTags
<1> QED
  BY <1>1, <1>2, <1>3 DEF People

-----------------------------------------------------------------------------
(* The create of the fake provider.                                        *)

LEMMA NextIdIsNew ==
  ASSUME BoardInv
  PROVE  /\ NextId \notin OnBoard
         /\ \E k \in Nat : OnBoard \cup {NextId} = 1..k
<1>1. PICK k \in Nat : OnBoard = 1..k
  BY DEF BoardInv, ItemsAreWhole
<1>2. Cardinality(OnBoard) = k
  <2>1. Cardinality(1..k) = IF 1 > k THEN 0 ELSE k - 1 + 1
    BY FS_Interval
  <2> QED
    BY <1>1, <2>1
<1>3. NextId = k + 1
  BY <1>2 DEF NextId
<1>4. OnBoard \cup {NextId} = 1..(k + 1)
  BY <1>1, <1>3
<1> QED
  BY <1>1, <1>3, <1>4

(* One call moves; the items are as they were.                             *)
LEMMA CallMoves ==
  ASSUME BoardInv, NEW p \in Creators, NEW call, Calls(p, call),
         UNCHANGED <<world, toml, columns, items>>,
         LeftFalls, DOMAIN call = CallFields,
         call.stage = "idle" \/ call.queued \notin {Absent, Partial},
         call.item # NoItem => call.item \in OnBoard /\ items[call.item].origin = p
  PROVE  BoardInv' /\ NativesDrift /\ TagsDrift /\ LeftFalls
<1>1. /\ DOMAIN creates' = Creators /\ creates'[p] = call
      /\ \A q \in Creators \ {p} : creates'[q] = creates[q]
  BY DEF Calls, BoardInv, CreatesAreKept
<1>2. /\ ItemsAreWhole' /\ OnBoard' = OnBoard /\ NativesDrift
      /\ \A i \in Ids : items'[i].tags = items[i].tags /\ items'[i].origin = items[i].origin
  BY SameItems
<1>3. CreatesAreKept'
  BY <1>1, <1>2 DEF BoardInv, CreatesAreKept, OnBoard, Idle
<1>4. WorldIsKept'
  BY FallKeepsWorld DEF BoardInv, WorldIsKept
<1> QED
  BY <1>2, <1>3, <1>4, SameTags DEF BoardInv

LEMMA BeginDrifts ==
  ASSUME BoardInv, NEW p \in Creators, Begin(p)
  PROVE  BoardInv' /\ NativesDrift /\ TagsDrift /\ LeftFalls
<1>1. PICK i, todo :
        /\ Begins(p, i, todo)
        /\ i = NoItem \/ (i \in Carrying(p) /\ items[i].native = Partial)
  BY DEF Begin
<1> DEFINE queued == FirstNative(Config(world.provider, toml), "queued")
           call == [stage |-> "peek", queued |-> queued, item |-> i, todo |-> todo,
                    peeked |-> 0, armed |-> 0, made |-> 0]
<1>2. queued \notin {Absent, Partial}
  BY ConfiguredNames DEF Begin, BoardInv, WorldIsKept
<1>3. i # NoItem => i \in OnBoard /\ items[i].origin = p
  BY <1>1 DEF Carrying, OnBoard, Partial, Absent
<1>4. Calls(p, call)
  BY <1>1 DEF Begins
<1> HIDE DEF queued
<1>5. /\ DOMAIN call = CallFields /\ call.queued = queued /\ call.item = i
  BY DEF CallFields
<1>6. LeftFalls
  BY StayFalls DEF Begin, BoardInv, WorldIsKept
<1> HIDE DEF call
<1> QED
  BY <1>2, <1>3, <1>4, <1>5, <1>6, CallMoves DEF Begin

(* _disarm, and the end of a call: which item it is about stays.           *)
LEMMA StageMoves ==
  ASSUME BoardInv, NEW p \in Creators, ~ Idle(p), UNCHANGED <<world, toml, columns, items>>,
         LeftFalls, NEW stage, NEW peeked, NEW armed,
         \/ Calls(p, [creates[p] EXCEPT !.stage = stage])
         \/ Calls(p, [creates[p] EXCEPT !.stage = stage, !.peeked = peeked])
         \/ Calls(p, [creates[p] EXCEPT !.stage = stage, !.armed = armed])
  PROVE  BoardInv' /\ NativesDrift /\ TagsDrift /\ LeftFalls
<1>1. PICK call : /\ Calls(p, call)
                  /\ \/ call = [creates[p] EXCEPT !.stage = stage]
                     \/ call = [creates[p] EXCEPT !.stage = stage, !.peeked = peeked]
                     \/ call = [creates[p] EXCEPT !.stage = stage, !.armed = armed]
  OBVIOUS
<1>2. DOMAIN creates[p] = CallFields
  BY DEF BoardInv, CreatesAreKept
<1>3. /\ DOMAIN call = CallFields
      /\ call.queued = creates[p].queued /\ call.item = creates[p].item
  BY <1>1, <1>2 DEF CallFields
<1> QED
  BY <1>1, <1>3, CallMoves DEF BoardInv, CreatesAreKept

LEMMA DisarmDrifts ==
  ASSUME BoardInv, NEW p \in Creators, Peek(p) \/ Take(p) \/ CreatorDies(p)
  PROVE  BoardInv' /\ NativesDrift /\ TagsDrift /\ LeftFalls
<1>0. left \in [Kinds -> Nat]
  BY DEF BoardInv, WorldIsKept
<1>1. CASE Peek(p)
  <2>1. LeftFalls /\ ~ Idle(p)
    BY <1>0, <1>1, StayFalls DEF Peek, Idle
  <2> QED
    BY <1>1, <2>1, StageMoves DEF Peek
<1>2. CASE Take(p)
  <2>1. LeftFalls /\ ~ Idle(p)
    BY <1>0, <1>2, StayFalls DEF Take, Idle
  <2>2. \/ Calls(p, [creates[p] EXCEPT !.stage = "idle"])
        \/ Calls(p, [creates[p] EXCEPT !.stage = "write", !.armed = fault])
    BY <1>2 DEF Take, Over
  <2> QED
    BY <1>2, <2>1, <2>2, StageMoves DEF Take
<1>3. CASE CreatorDies(p)
  <2>1. LeftFalls /\ ~ Idle(p)
    BY <1>0, <1>3, SpendFalls DEF CreatorDies, Kinds
  <2> QED
    BY <1>3, <2>1, StageMoves DEF CreatorDies, Over
<1> QED
  BY <1>1, <1>2, <1>3

(* One save: a new item under a new id, or a change of the call's item.    *)
LEMMA WriteDrifts ==
  ASSUME BoardInv, NEW p \in Creators, Write(p)
  PROVE  BoardInv' /\ NativesDrift /\ TagsDrift /\ LeftFalls
<1> DEFINE call  == creates[p]
           write == Head(call.todo)
           id    == IF write.op = "create" THEN NextId ELSE call.item
           item  == Written(items[id], write, p)
           stage == IF call.made + 1 = call.armed \/ Tail(call.todo) = <<>> THEN "idle" ELSE "write"
           after == [call EXCEPT !.stage = stage, !.item = id, !.todo = Tail(call.todo),
                                 !.made = @ + 1]
<1>1. /\ call.stage = "write" /\ id \in Ids
      /\ items' = [items EXCEPT ![id] = item]
      /\ Calls(p, after)
      /\ world' = world /\ toml' = toml /\ columns' = columns /\ left' = left
  BY DEF Write
<1>2. LeftFalls /\ WorldIsKept'
  BY <1>1, StayFalls, FallKeepsWorld DEF BoardInv, WorldIsKept
<1>3. /\ DOMAIN items = Ids /\ DOMAIN items[id] = ItemFields
      /\ DOMAIN call = CallFields /\ call.queued \notin {Absent, Partial}
  BY <1>1 DEF BoardInv, ItemsAreWhole, CreatesAreKept, Idle
<1>4. /\ DOMAIN creates' = Creators
      /\ creates'[p].queued = call.queued /\ creates'[p].item = id
      /\ DOMAIN creates'[p] = CallFields
      /\ \A q \in Creators \ {p} : creates'[q] = creates[q]
  <2>1. DOMAIN after = CallFields /\ after.queued = call.queued /\ after.item = id
    BY <1>3 DEF CallFields
  <2> HIDE DEF after
  <2> QED
    BY <1>1, <2>1 DEF Calls, BoardInv, CreatesAreKept
<1>5. CASE write.op = "create"
  <2>1. item = [NewItem(Partial) EXCEPT !.origin = p]
    BY <1>5 DEF Written
  <2>2. DOMAIN item = ItemFields /\ item.native = Partial /\ item.origin = p
    BY <2>1 DEF NewItem, ItemFields
  <2>3. id = NextId /\ id \notin OnBoard
    BY <1>5, NextIdIsNew
  <2> HIDE DEF item, id, after
  <2>4. /\ DOMAIN items' = Ids /\ items'[id] = item
        /\ \A i \in Ids \ {id} : items'[i] = items[i]
    BY <1>1, <1>3
  <2>5. OnBoard' = OnBoard \cup {id}
    BY <1>1, <2>2, <2>4 DEF OnBoard, Absent, Partial
  <2>6. ItemsAreWhole'
    <3>1. \E k \in Nat : OnBoard' = 1..k
      BY <2>3, <2>5, NextIdIsNew
    <3> QED
      BY <2>2, <2>4, <3>1 DEF ItemsAreWhole, BoardInv
  <2>7. \A i \in OnBoard : items'[i] = items[i]
    BY <2>3, <2>4 DEF OnBoard
  <2>8. NativesDrift /\ TagsDrift
    BY <2>7 DEF NativesDrift, TagsDrift, Committed, OnBoard
  <2>9. CreatesAreKept'
    <3>1. \A q \in Creators \ {p} : creates[q].item # NoItem =>
            creates[q].item \in OnBoard' /\ items'[creates[q].item].origin = q
      BY <2>5, <2>7 DEF BoardInv, CreatesAreKept
    <3> QED
      BY <1>1, <1>3, <1>4, <2>2, <2>4, <2>5, <3>1 DEF BoardInv, CreatesAreKept, Idle
  <2> QED
    BY <1>2, <2>6, <2>8, <2>9 DEF BoardInv
<1>6. CASE write.op # "create"
  <2>1. id = call.item /\ id # NoItem
    BY <1>1, <1>6, IdsAssumption
  <2>2. id \in OnBoard /\ items[id].origin = p
    BY <2>1 DEF BoardInv, CreatesAreKept
  <2>3. items[id].native # Absent
    BY <2>2 DEF OnBoard
  <2>4. \/ item = [items[id] EXCEPT !.parent = write.to]
        \/ item = [items[id] EXCEPT !.predecessors = @ \cup {write.to}]
        \/ item = [items[id] EXCEPT !.native = call.queued]
    BY <1>6 DEF Written
  <2>5. /\ DOMAIN item = ItemFields /\ item.tags = items[id].tags /\ item.origin = items[id].origin
        /\ item.native = items[id].native \/ item.native \notin {Absent, Partial}
    <3> HIDE DEF item, id, write
    <3> QED
      BY <1>3, <2>4 DEF ItemFields
  <2> HIDE DEF item, id, after
  <2>6. /\ ItemsAreWhole' /\ OnBoard' = OnBoard /\ NativesDrift
        /\ \A i \in Ids : items'[i].origin = items[i].origin
    BY <1>1, <2>2, <2>3, <2>5, OneItemChanges DEF Committed
  <2>7. TagsDrift
    <3>1. \A i \in Ids : items'[i].tags = items[i].tags
      BY <1>1, <1>3, <2>5
    <3> QED
      BY <3>1, SameTags
  <2>8. CreatesAreKept'
    <3>1. \A q \in Creators \ {p} : creates[q].item # NoItem =>
            creates[q].item \in OnBoard' /\ items'[creates[q].item].origin = q
      BY <2>6 DEF BoardInv, CreatesAreKept, OnBoard
    <3> QED
      BY <1>1, <1>3, <1>4, <2>2, <2>6, <3>1 DEF BoardInv, CreatesAreKept, Idle
  <2> QED
    BY <1>2, <2>6, <2>7, <2>8 DEF BoardInv
<1> QED
  BY <1>5, <1>6

LEMMA CreatesDrift ==
  ASSUME BoardInv, Creates
  PROVE  /\ BoardInv' /\ NativesDrift /\ TagsDrift /\ LeftFalls
         /\ world' = world /\ toml' = toml
<1>1. CASE Arm
  <2>1. LeftFalls
    BY <1>1, SpendFalls DEF Arm, Kinds, BoardInv, WorldIsKept
  <2>2. WorldIsKept'
    BY <1>1, <2>1, FallKeepsWorld DEF Arm, BoardInv, WorldIsKept
  <2> QED
    BY <1>1, <2>1, <2>2, SameItems, SameCreates, SameTags DEF Arm, BoardInv
<1>2. ASSUME NEW p \in Creators, Create(p)
      PROVE  /\ BoardInv' /\ NativesDrift /\ TagsDrift /\ LeftFalls
             /\ world' = world /\ toml' = toml
  BY <1>2, BeginDrifts, DisarmDrifts, WriteDrifts
  DEF Create, Begin, Peek, Take, Write, CreatorDies
<1> QED
  BY <1>1, <1>2 DEF Creates

LEMMA OperatorDrifts ==
  ASSUME BoardInv, Operator
  PROVE  /\ BoardInv' /\ NativesDrift /\ TagsDrift /\ LeftFalls
         /\ world' = world /\ ticks' = ticks
<1>1. /\ LeftFalls /\ world' = world /\ ticks' = ticks /\ toml' \in world.tomls
      /\ columns' = columns /\ items' = items /\ creates' = creates
  BY SpendFalls DEF Operator, EditToml, ClearRoot, Kinds, BoardInv, WorldIsKept
<1>2. WorldIsKept'
  BY <1>1, FallKeepsWorld DEF BoardInv, WorldIsKept
<1> QED
  BY <1>1, <1>2, SameItems, SameCreates, SameTags DEF BoardInv

-----------------------------------------------------------------------------
(* The steps of a tick, up to its decision.                                *)

LEMMA BlanksStay ==
  ASSUME WorldIsKept, world' = world, LeftFalls
  PROVE  BlankAnswers => BlankAnswers'
<1>1. /\ left.blanks \in Nat /\ left'.blanks \in Nat /\ world.bounds.blanks \in Nat
      /\ left'.blanks <= left.blanks
  BY BoardsAssumption DEF WorldIsKept, LeftFalls, Kinds
<1> QED
  BY <1>1 DEF BlankAnswers

LEMMA BlankSpent ==
  ASSUME WorldIsKept, world' = world, Spend("blanks")
  PROVE  BlankAnswers'
<1>1. left' = [left EXCEPT !.blanks = @ - 1] /\ left.blanks \in Nat
  BY DEF Spend, WorldIsKept, Kinds
<1>2. left'.blanks = left.blanks - 1
  BY <1>1 DEF WorldIsKept, Kinds
<1>3. world.bounds.blanks \in Nat /\ left.blanks <= world.bounds.blanks
  BY BoardsAssumption DEF WorldIsKept, Kinds
<1> QED
  BY <1>1, <1>2, <1>3 DEF BlankAnswers

(* The board of a step that only reads it.                                 *)
LEMMA ReadingKeepsBoard ==
  ASSUME BoardInv, UNCHANGED <<world, toml, columns, items, creates>>, LeftFalls
  PROVE  BoardInv' /\ NativesDrift /\ TagsDrift
<1>1. WorldIsKept'
  BY FallKeepsWorld DEF BoardInv, WorldIsKept
<1> QED
  BY <1>1, SameItems, SameCreates, SameTags DEF BoardInv

LEMMA TickOver ==
  ASSUME NEW t \in Ticks, ticks'[t] = Off
  PROVE  TickInv(t)'
<1>1. /\ Off.stage = "off" /\ Off.seen = NothingSeen /\ Off.plan = NoPlan /\ Off.io = "call"
  BY DEF Off
<1>2. \A i \in Ids : NothingSeen[i].bucket = "none" /\ NoPlan[i] = <<>>
  BY DEF NothingSeen, Unseen, NoPlan
<1>3. DOMAIN NothingSeen = Ids /\ DOMAIN NoPlan = Ids
  BY DEF NothingSeen, NoPlan
<1> QED
  BY <1>1, <1>2, <1>3 DEF TickInv, ConfigIsRead, Loaded, PlansAreForBoard, PlanForms, TagsAreRead

LEMMA BeforeActing ==
  ASSUME NEW t \in Ticks, NEW tick, ticks'[t] = tick, world' = world, items' = items,
         tick.stage \notin {"off", "act"}, tick.plan = NoPlan, tick.io = "call",
         DOMAIN tick.seen = Ids,
         \A i \in Ids : tick.seen[i].bucket # "none" => Committed(i),
         \E raw \in world.tomls :
           ConfigIsSound(world.provider, raw) /\ tick.config = Config(world.provider, raw)
  PROVE  TickInv(t)'
<1>1. ConfigIsRead(t)'
  BY DEF ConfigIsRead
<1>2. PlansAreForBoard(t)'
  BY DEF PlansAreForBoard, NoPlan, PlanForms, Committed
<1>3. TagsAreRead(t)'
  BY DEF TagsAreRead
<1> QED
  BY <1>1, <1>2, <1>3 DEF TickInv

LEMMA EarlySteps ==
  ASSUME TagInv, NEW t \in Ticks,
         LoadConfig(t) \/ ValidateConfig(t) \/ TryLock(t) \/ Stamp(t)
  PROVE  /\ BoardInv' /\ NativesDrift /\ LeftFalls
         /\ world' = world /\ items' = items
         /\ TickInv(t)'
<1>1. /\ UNCHANGED boardVars
      /\ ticks[t].stage \notin {"act"}
      /\ ticks[t].stage = "off" => LoadConfig(t)
  BY DEF LoadConfig, ValidateConfig, TryLock, Stamp, At
<1>2. UNCHANGED <<world, toml, columns, items, creates>> /\ LeftFalls
  BY <1>1, StayFalls DEF boardVars, TagInv, BoardInv, WorldIsKept
<1>3. BoardInv' /\ NativesDrift
  BY <1>2, ReadingKeepsBoard DEF TagInv
<1>4. \A tick : Moves(t, tick) => ticks'[t] = tick
  BY MovesOne DEF TagInv, EInv
<1>5. Exits(t) => TickInv(t)'
  BY <1>4, TickOver DEF Exits
<1>6. Moves(t, Off) => TickInv(t)'
  BY <1>4, TickOver
<1>7. DOMAIN ticks[t] = Fields
  BY DEF TagInv, EInv, TicksAreRecords
<1>8. /\ ticks[t].plan = NoPlan /\ ticks[t].io = "call" /\ DOMAIN ticks[t].seen = Ids
      /\ \A i \in Ids : ticks[t].seen[i].bucket # "none" => Committed(i)
  BY <1>1 DEF TagInv, TickInv, PlansAreForBoard
<1>9. CASE LoadConfig(t)
  <2>1. PICK dry \in world.dry :
          Moves(t, [Off EXCEPT !.stage = "loaded", !.dry = dry,
                               !.config = Config(world.provider, toml)])
    BY <1>9 DEF LoadConfig
  <2> DEFINE tick == [Off EXCEPT !.stage = "loaded", !.dry = dry,
                                 !.config = Config(world.provider, toml)]
  <2>2. /\ tick.stage = "loaded" /\ tick.config = Config(world.provider, toml)
        /\ tick.plan = NoPlan /\ tick.io = "call" /\ tick.seen = NothingSeen
    BY DEF Off
  <2>3. ticks'[t] = tick
    BY <1>4, <2>1
  <2> HIDE DEF tick
  <2>4. DOMAIN tick.seen = Ids /\ \A i \in Ids : tick.seen[i].bucket = "none"
    BY <2>2 DEF NothingSeen, Unseen
  <2>5. toml \in world.tomls /\ ConfigIsSound(world.provider, toml)
    BY <1>9 DEF LoadConfig, TagInv, BoardInv, WorldIsKept
  <2>6. TickInv(t)'
    BY <1>2, <2>2, <2>3, <2>4, <2>5, BeforeActing
  <2> QED
    BY <1>2, <1>3, <2>6
<1>10. ASSUME NEW tick, ticks'[t] = tick, ticks[t].stage # "off",
              tick.stage \in {"valid", "locked", "gather"}, tick.config = ticks[t].config,
              tick.plan = ticks[t].plan, tick.io = ticks[t].io, tick.seen = ticks[t].seen
       PROVE  TickInv(t)'
  <2>1. \E raw \in world.tomls :
          ConfigIsSound(world.provider, raw) /\ tick.config = Config(world.provider, raw)
    BY <1>10 DEF TagInv, TickInv, ConfigIsRead, Loaded
  <2> QED
    BY <1>2, <1>8, <1>10, <2>1, BeforeActing
<1>11. CASE ticks[t].stage # "off"
  <2>1. PICK tick : /\ ticks'[t] = tick
                    /\ \/ tick = [ticks[t] EXCEPT !.stage = "valid", !.since = left]
                       \/ tick = [ticks[t] EXCEPT !.stage = "locked"]
                       \/ tick = [ticks[t] EXCEPT !.stage = "gather", !.reads = Lists]
                       \/ tick = Off
    <3>1. CASE LoadConfig(t)
      BY <1>11, <3>1 DEF LoadConfig, At
    <3>2. CASE ValidateConfig(t)
      BY <1>4, <3>2 DEF ValidateConfig
    <3>3. CASE TryLock(t)
      BY <1>4, <3>3 DEF TryLock
    <3>4. CASE Stamp(t)
      BY <1>4, <3>4 DEF Stamp, Exits
    <3> QED
      BY <3>1, <3>2, <3>3, <3>4
  <2>2. CASE tick = Off
    BY <1>2, <1>3, <2>1, <2>2, TickOver
  <2>3. CASE tick # Off
    <3>1. /\ tick.stage \in {"valid", "locked", "gather"} /\ tick.config = ticks[t].config
          /\ tick.plan = ticks[t].plan /\ tick.io = ticks[t].io /\ tick.seen = ticks[t].seen
      BY <1>7, <2>1, <2>3 DEF Fields
    <3> QED
      BY <1>2, <1>3, <1>10, <1>11, <2>1, <3>1
  <2> QED
    BY <2>2, <2>3
<1> QED
  BY <1>1, <1>9, <1>11

(* The gather notes what it reads, which is on the board.                  *)
LEMMA GatherSteps ==
  ASSUME TagInv, NEW t \in Ticks, ReadBuckets(t)
  PROVE  /\ BoardInv' /\ NativesDrift /\ LeftFalls
         /\ world' = world /\ items' = items
         /\ TickInv(t)'
<1>1. /\ UNCHANGED <<world, toml, columns, items, creates>>
      /\ ticks[t].stage = "gather" /\ LeftFalls
  BY SpendFalls, StayFalls DEF ReadBuckets, At, Kinds, TagInv, BoardInv, WorldIsKept
<1>2. BoardInv' /\ NativesDrift
  BY <1>1, ReadingKeepsBoard DEF TagInv
<1>3. PICK found : /\ Moves(t, Notes(t, found))
                   /\ \A i \in Ids : found[i] = {} \/ \E buckets :
                        found[i] = Answer(ticks[t].config, buckets, i)
  BY DEF ReadBuckets
<1> DEFINE tick == Notes(t, found)
<1>4. ticks'[t] = tick
  BY <1>3, MovesOne DEF TagInv, EInv
<1>5. DOMAIN ticks[t] = Fields
  BY DEF TagInv, EInv, TicksAreRecords
<1>6. /\ tick.stage = "gather" /\ tick.config = ticks[t].config
      /\ tick.plan = ticks[t].plan /\ tick.io = ticks[t].io
      /\ tick.seen = [i \in Ids |->
           IF found[i] = {} THEN ticks[t].seen[i]
             ELSE [bucket |-> CHOOSE b \in found[i] : TRUE, tags |-> items[i].tags]]
  BY <1>1, <1>5 DEF Notes, Fields
<1> HIDE DEF tick
<1>7. /\ \A native, bucket :
           In(ticks[t].config, native, bucket) => native \notin {Absent, Partial}
      /\ \E raw \in world.tomls :
           ConfigIsSound(world.provider, raw) /\ ticks[t].config = Config(world.provider, raw)
  BY <1>1, ReadNames DEF TagInv, BoardInv, TickInv, ConfigIsRead, Loaded
<1>8. ASSUME NEW i \in Ids, tick.seen[i].bucket # "none"
      PROVE  Committed(i)
  <2>1. CASE found[i] = {}
    BY <1>6, <1>8, <2>1 DEF TagInv, TickInv, PlansAreForBoard
  <2>2. CASE found[i] # {}
    <3>1. \E b \in found[i] : In(ticks[t].config, items[i].native, b)
      BY <1>3, <2>2 DEF Answer
    <3> QED
      BY <1>7, <3>1 DEF Committed
  <2> QED
    BY <2>1, <2>2
<1>9. /\ ticks[t].plan = NoPlan /\ ticks[t].io = "call"
  BY <1>1 DEF TagInv, TickInv, PlansAreForBoard
<1>10. DOMAIN tick.seen = Ids
  BY <1>6
<1>11. \E raw \in world.tomls :
         ConfigIsSound(world.provider, raw) /\ tick.config = Config(world.provider, raw)
  BY <1>6, <1>7
<1>12. /\ tick.stage \notin {"off", "act"} /\ tick.plan = NoPlan /\ tick.io = "call"
  BY <1>6, <1>9
<1>13. world' = world /\ items' = items
  BY <1>1
<1>14. TickInv(t)'
  BY <1>4, <1>8, <1>10, <1>11, <1>12, <1>13, BeforeActing
<1> QED
  BY <1>1, <1>2, <1>14

(* Blank answers are spent, as many as there are blank links.              *)
LEMMA BlankSpends ==
  ASSUME WorldIsKept, NEW t \in Ticks, Decide(t)
  PROVE  LeftFalls
<1>1. left \in [Kinds -> Nat] /\ "blanks" \in Kinds /\ left.blanks \in Nat
  BY DEF WorldIsKept, Kinds
<1>2. CASE BlankStateRaises(t)
  BY <1>1, <1>2, SpendFalls DEF BlankStateRaises
<1>3. ASSUME NEW blank \in SUBSET Candidates(t), BlankLinks(blank)
      PROVE  LeftFalls
  <2>1. Cardinality(blank) \in Nat
    <3>1. blank \subseteq Ids
      BY DEF Candidates
    <3> QED
      BY <3>1, IdsAssumption, FS_Subset, FS_CardinalityType
  <2>2. Cardinality(blank) <= left.blanks
    BY <1>1, <1>3, <2>1 DEF BlankLinks
  <2>3. left.blanks - Cardinality(blank) \in Nat /\ left.blanks - Cardinality(blank) <= left.blanks
    BY <1>1, <2>1, <2>2
  <2>4. left' = [left EXCEPT !.blanks = left.blanks - Cardinality(blank)]
    BY <1>3 DEF BlankLinks
  <2>5. ASSUME NEW kind \in Kinds PROVE left'[kind] \in Nat /\ left'[kind] <= left[kind]
    BY <1>1, <2>3, <2>4
  <2>6. left' \in [Kinds -> Nat]
    BY <1>1, <2>3, <2>4
  <2> QED
    BY <2>5, <2>6 DEF LeftFalls
<1> QED
  BY <1>2, <1>3 DEF Decide

(* What is decided is about items that were seen in a bucket.              *)
LEMMA DecideSteps ==
  ASSUME TagInv, NEW t \in Ticks, Decide(t)
  PROVE  /\ BoardInv' /\ NativesDrift /\ LeftFalls
         /\ world' = world /\ items' = items
         /\ TickInv(t)'
<1>1. /\ UNCHANGED <<world, toml, columns, items, creates>>
      /\ ticks[t].stage = "gather" /\ LeftFalls
  BY BlankSpends DEF Decide, At, TagInv, BoardInv
<1>2. BoardInv' /\ NativesDrift
  BY <1>1, ReadingKeepsBoard DEF TagInv
<1>3. CASE Exits(t)
  <2>1. ticks'[t] = Off
    BY <1>3, MovesOne DEF TagInv, EInv, Exits
  <2> QED
    BY <1>1, <1>2, <2>1, TickOver
<1>4. CASE ~ Exits(t)
  <2>0. PICK blank : \E plan \in Plans(t, blank) :
          Moves(t, [ticks[t] EXCEPT !.stage = "act", !.plan = plan])
    BY <1>4 DEF Decide, BlankStateRaises
  <2>1. PICK plan \in Plans(t, blank) : Moves(t, [ticks[t] EXCEPT !.stage = "act", !.plan = plan])
    BY <2>0
  <2> DEFINE tick == [ticks[t] EXCEPT !.stage = "act", !.plan = plan]
  <2>2. ticks'[t] = tick
    BY <2>1, MovesOne DEF TagInv, EInv
  <2>3. /\ tick.stage = "act" /\ tick.config = ticks[t].config /\ tick.dry = ticks[t].dry
        /\ tick.plan = plan /\ tick.io = ticks[t].io /\ tick.seen = ticks[t].seen
    BY DEF TagInv, EInv, TicksAreRecords, Fields
  <2> HIDE DEF tick
  <2>4. /\ ticks[t].io = "call" /\ DOMAIN ticks[t].seen = Ids
        /\ \A i \in Ids : ticks[t].seen[i].bucket # "none" => Committed(i)
    BY <1>1 DEF TagInv, TickInv, PlansAreForBoard
  <2>5. DOMAIN plan = Ids /\ \A i \in Ids : plan[i] \in Programs(t, i, blank)
    BY DEF Plans
  <2>6. ASSUME NEW i \in Ids
        PROVE  /\ plan[i] \in {<<>>, ClaimCalls, RetryCalls, ReleaseCalls}
               /\ plan[i] # <<>> => ticks[t].seen[i].bucket # "none"
    BY <2>5 DEF Programs, Candidates
  <2>7. ClaimCalls # <<"mark", "launch">> /\ ReleaseCalls # <<"mark", "launch">> /\ RetryCalls # <<"mark", "launch">>
    BY DEF ClaimCalls, RetryCalls, ReleaseCalls
  <2>8. ClaimCalls # <<"requeue">> /\ ReleaseCalls # <<"requeue">> /\ RetryCalls # <<"requeue">>
    BY DEF ClaimCalls, RetryCalls, ReleaseCalls
  <2>9. <<>> # <<"mark", "launch">> /\ <<>> # <<"requeue">>
    OBVIOUS
  <2>10. ConfigIsRead(t)'
    BY <1>1, <2>2, <2>3 DEF TagInv, TickInv, ConfigIsRead, Loaded
  <2>11. PlansAreForBoard(t)'
    BY <1>1, <2>2, <2>3, <2>4, <2>5, <2>6 DEF PlansAreForBoard, PlanForms, Committed
  <2>12. TagsAreRead(t)'
    BY <2>2, <2>3, <2>4, <2>6, <2>7, <2>8, <2>9 DEF TagsAreRead
  <2> QED
    BY <1>1, <1>2, <2>10, <2>11, <2>12 DEF TickInv
<1> QED
  BY <1>3, <1>4

LEMMA LastSteps ==
  ASSUME TagInv, NEW t \in Ticks, EndTick(t) \/ TickDies(t)
  PROVE  /\ BoardInv' /\ NativesDrift /\ LeftFalls
         /\ world' = world /\ items' = items
         /\ TickInv(t)'
<1>1. UNCHANGED <<world, toml, columns, items, creates>> /\ LeftFalls /\ Exits(t)
  BY SpendFalls, StayFalls
  DEF EndTick, TickDies, boardVars, Kinds, TagInv, BoardInv, WorldIsKept
<1>2. ticks'[t] = Off
  BY <1>1, MovesOne DEF TagInv, EInv, Exits
<1> QED
  BY <1>1, <1>2, TickOver, ReadingKeepsBoard DEF TagInv

-----------------------------------------------------------------------------
(* The board calls.                                                        *)

LEMMA OneTurn ==
  ASSUME NEW t, NEW i \in Ids, NEW j \in Ids, NEW call, NEW other,
         Turn(t, i, call), Turn(t, j, other)
  PROVE  i = j /\ call = other
<1>1. i \in Int /\ j \in Int
  BY IdsAssumption, FS_CardinalityType
<1> DEFINE plan == ticks[t].plan
<1>2. CASE i # j
  <2>1. IF IsClaim(plan, i) = IsClaim(plan, j) THEN i < j ELSE IsClaim(plan, j)
    BY <1>2 DEF Turn
  <2>2. IF IsClaim(plan, j) = IsClaim(plan, i) THEN j < i ELSE IsClaim(plan, i)
    BY <1>2 DEF Turn
  <2>3. IsClaim(plan, i) \in BOOLEAN /\ IsClaim(plan, j) \in BOOLEAN
    BY DEF IsClaim
  <2> HIDE DEF plan
  <2> QED
    BY <1>1, <2>1, <2>2, <2>3
<1> QED
  BY <1>2 DEF Turn

(* The first call of an item's program is over, one way or the other.      *)
LEMMA CallIsOver ==
  ASSUME TagInv, NEW t \in Ticks, NEW i \in Ids, NEW call, Turn(t, i, call),
         NEW since, DoneSince(t, i, since), world' = world, NativesDrift, LeftFalls,
         \A j \in Ids \ {i} : items'[j].tags = items[j].tags,
         ~ ticks[t].dry =>
           /\ call = "tag" => ClaimTag(ticks[t].config) \in items'[i].tags
           /\ call = "untag" => ClaimTag(ticks[t].config) \notin items'[i].tags \/ BlankAnswers'
  PROVE  TickInv(t)'
<1> DEFINE tick == [ticks[t] EXCEPT !.plan[i] = Tail(@), !.io = "call", !.read = {},
                                    !.since = since]
<1>1. ticks'[t] = tick
  BY MovesOne DEF TagInv, EInv, DoneSince
<1>2. /\ DOMAIN ticks[t] = Fields /\ ticks[t].stage = "act" /\ ticks[t].plan[i] # <<>>
      /\ Head(ticks[t].plan[i]) = call
  BY DEF TagInv, EInv, TicksAreRecords, Turn, At
<1>3. /\ tick.stage = "act" /\ tick.config = ticks[t].config /\ tick.dry = ticks[t].dry
      /\ tick.plan = [ticks[t].plan EXCEPT ![i] = Tail(@)]
      /\ tick.io = "call" /\ tick.seen = ticks[t].seen
  BY <1>2 DEF Fields
<1> HIDE DEF tick
<1>4. /\ DOMAIN ticks[t].seen = Ids /\ DOMAIN ticks[t].plan = Ids
      /\ \A j \in Ids :
           /\ ticks[t].plan[j] \in PlanForms
           /\ ticks[t].seen[j].bucket # "none" \/ ticks[t].plan[j] # <<>> => Committed(j)
  BY DEF TagInv, TickInv, PlansAreForBoard
<1>5. /\ DOMAIN tick.plan = Ids /\ tick.plan[i] = Tail(ticks[t].plan[i])
      /\ \A j \in Ids \ {i} : tick.plan[j] = ticks[t].plan[j]
  BY <1>3, <1>4
<1>6. /\ tick.plan[i] \in PlanForms
      /\ tick.plan[i] = <<"mark", "launch">> => call = "tag"
      /\ tick.plan[i] = <<"requeue">> => call = "untag"
  BY <1>2, <1>4, <1>5, FormsAreTuples
<1>7. ConfigIsRead(t)'
  BY <1>1, <1>2, <1>3 DEF TagInv, TickInv, ConfigIsRead, Loaded
<1>8. PlansAreForBoard(t)'
  BY <1>1, <1>2, <1>3, <1>4, <1>5, <1>6 DEF PlansAreForBoard, NativesDrift
<1>9. TagsAreRead(t)'
  <2> SUFFICES ASSUME ~ ticks[t].dry
               PROVE  TagsAreRead(t)'
    BY <1>1, <1>3 DEF TagsAreRead
  <2>1. BlankAnswers => BlankAnswers'
    BY BlanksStay DEF TagInv, BoardInv
  <2>2. ASSUME NEW j \in Ids \ {i}
        PROVE  /\ tick.plan[j] = <<"mark", "launch">> => HasClaim(t, j)'
               /\ tick.plan[j] = <<"requeue">> => ~ HasClaim(t, j)' \/ BlankAnswers'
    <3>1. HasClaim(t, j)' <=> HasClaim(t, j)
      BY <1>1, <1>3, <2>2 DEF HasClaim
    <3> QED
      BY <1>2, <1>5, <2>1, <2>2, <3>1 DEF TagInv, TickInv, TagsAreRead
  <2>3. /\ tick.plan[i] = <<"mark", "launch">> => HasClaim(t, i)'
        /\ tick.plan[i] = <<"requeue">> => ~ HasClaim(t, i)' \/ BlankAnswers'
    BY <1>1, <1>3, <1>6 DEF HasClaim
  <2>4. \A j \in Ids :
          /\ tick.plan[j] = <<"mark", "launch">> => HasClaim(t, j)'
          /\ tick.plan[j] = <<"requeue">> => ~ HasClaim(t, j)' \/ BlankAnswers'
    BY <2>2, <2>3
  <2> QED
    BY <1>1, <1>3, <2>4 DEF TagsAreRead
<1> QED
  BY <1>7, <1>8, <1>9 DEF TickInv

(* A tick that is in the middle of a call, its programs as they were.      *)
LEMMA CallGoesOn ==
  ASSUME TagInv, NEW t \in Ticks, NEW tick, Moves(t, tick), ticks[t].stage = "act",
         world' = world, NativesDrift, LeftFalls,
         tick.stage = "act", tick.config = ticks[t].config, tick.dry = ticks[t].dry,
         tick.plan = ticks[t].plan, tick.seen = ticks[t].seen,
         \A j \in Ids : ticks[t].plan[j] \in {<<"mark", "launch">>, <<"requeue">>}
           => items'[j].tags = items[j].tags,
         ~ tick.dry /\ tick.io \in {"patch", "verify"} => world.provider = "ado",
         ~ tick.dry /\ tick.io = "patch" =>
           /\ tick.since.tags \in Nat /\ left'.tags <= tick.since.tags
           /\ \A j \in Ids : TagTurn(t, j) =>
                (Note \in tick.read <=> Note \in items'[j].tags) \/ BlankAnswers',
         ~ tick.dry /\ tick.io = "verify" => \A j \in Ids :
           /\ Turn(t, j, "tag") => ClaimTag(tick.config) \in tick.read
           /\ Turn(t, j, "untag") => ClaimTag(tick.config) \notin tick.read
  PROVE  TickInv(t)'
<1>1. ticks'[t] = tick
  BY MovesOne DEF TagInv, EInv
<1>2. ConfigIsRead(t)'
  BY <1>1 DEF TagInv, TickInv, ConfigIsRead, Loaded
<1>3. PlansAreForBoard(t)'
  BY <1>1 DEF TagInv, TickInv, PlansAreForBoard, NativesDrift
<1>4. TagsAreRead(t)'
  <2> SUFFICES ASSUME ~ ticks[t].dry
               PROVE  TagsAreRead(t)'
    BY <1>1 DEF TagsAreRead
  <2>1. \A j \in Ids : \A call : Turn(t, j, call)' <=> Turn(t, j, call)
    BY <1>1 DEF Turn, At
  <2>2. \A j \in Ids : TagTurn(t, j)' <=> TagTurn(t, j)
    BY <2>1 DEF TagTurn
  <2>3. BlankAnswers => BlankAnswers'
    BY BlanksStay DEF TagInv, BoardInv
  <2>4. ASSUME NEW j \in Ids
        PROVE  /\ tick.plan[j] = <<"mark", "launch">> => HasClaim(t, j)'
               /\ tick.plan[j] = <<"requeue">> => ~ HasClaim(t, j)' \/ BlankAnswers'
    <3>1. tick.plan[j] \in {<<"mark", "launch">>, <<"requeue">>} => (HasClaim(t, j)' <=> HasClaim(t, j))
      BY <1>1 DEF HasClaim
    <3> QED
      BY <2>3, <3>1 DEF TagInv, TickInv, TagsAreRead
  <2>5. \A j \in Ids : tick.io = "patch" /\ TagTurn(t, j) => NoteIsRead(t, j)'
    BY <1>1 DEF NoteIsRead
  <2> QED
    BY <1>1, <2>1, <2>2, <2>4, <2>5 DEF TagsAreRead
<1> QED
  BY <1>2, <1>3, <1>4 DEF TickInv

LEMMA TurnIsOnBoard ==
  ASSUME TagInv, NEW t \in Ticks, NEW i \in Ids, NEW call, Turn(t, i, call)
  PROVE  /\ Committed(i) /\ i \in OnBoard
         /\ ticks[t].stage = "act" /\ Loaded(t) /\ DOMAIN ticks[t] = Fields
BY DEF Turn, At, TagInv, TickInv, PlansAreForBoard, Committed, OnBoard, Loaded, EInv,
       TicksAreRecords

CallResult(t) ==
  /\ BoardInv' /\ NativesDrift /\ LeftFalls
  /\ world' = world
  /\ TickInv(t)'

LEMMA AbsorbedCall ==
  ASSUME TagInv, NEW t \in Ticks, NEW i \in Ids, Absorbed(t, i)
  PROVE  CallResult(t)
<1>1. PICK call : Turn(t, i, call)
  BY DEF Absorbed
<1>2. UNCHANGED <<world, toml, columns, items, creates>> /\ LeftFalls
  BY StayFalls DEF Absorbed, boardVars, TagInv, BoardInv, WorldIsKept
<1>3. BoardInv' /\ NativesDrift
  BY <1>2, ReadingKeepsBoard DEF TagInv
<1>4. TickInv(t)'
  BY <1>1, <1>2, <1>3, CallIsOver DEF Absorbed, Done
<1> QED
  BY <1>2, <1>3, <1>4 DEF CallResult

(* An item's program gives way to another, the board being as it was.      *)
LEMMA ProgramGives ==
  ASSUME TagInv, NEW t \in Ticks, NEW i \in Ids, NEW call, Turn(t, i, call),
         NEW q \in PlanForms, q # <<"mark", "launch">>, q # <<"requeue">>,
         ticks[t].io = "call",
         Moves(t, [ticks[t] EXCEPT !.plan[i] = q]),
         UNCHANGED <<world, items>>, NativesDrift, LeftFalls
  PROVE  TickInv(t)'
<1> DEFINE tick == [ticks[t] EXCEPT !.plan[i] = q]
<1>1. ticks'[t] = tick
  BY MovesOne DEF TagInv, EInv
<1>2. ticks[t].stage = "act" /\ DOMAIN ticks[t] = Fields /\ Committed(i)
  BY TurnIsOnBoard
<1>3. /\ tick.stage = "act" /\ tick.config = ticks[t].config /\ tick.dry = ticks[t].dry
      /\ tick.plan = [ticks[t].plan EXCEPT ![i] = q]
      /\ tick.io = ticks[t].io /\ tick.since = ticks[t].since /\ tick.read = ticks[t].read
      /\ tick.seen = ticks[t].seen
  BY <1>2 DEF Fields
<1> HIDE DEF tick
<1>4. DOMAIN ticks[t].seen = Ids /\ DOMAIN ticks[t].plan = Ids
  BY DEF TagInv, TickInv, PlansAreForBoard
<1>5. /\ DOMAIN tick.plan = Ids /\ tick.plan[i] = q
      /\ \A j \in Ids \ {i} : tick.plan[j] = ticks[t].plan[j]
  BY <1>3, <1>4
<1>6. ConfigIsRead(t)'
  BY <1>1, <1>2, <1>3 DEF TagInv, TickInv, ConfigIsRead, Loaded
<1>7. PlansAreForBoard(t)'
  BY <1>1, <1>2, <1>3, <1>4, <1>5 DEF TagInv, TickInv, PlansAreForBoard, Committed
<1>8. TagsAreRead(t)'
  <2>1. BlankAnswers => BlankAnswers'
    BY BlanksStay DEF TagInv, BoardInv
  <2>2. \A j \in Ids : HasClaim(t, j)' <=> HasClaim(t, j)
    BY <1>1, <1>3 DEF HasClaim
  <2>3. ASSUME NEW j \in Ids, ~ ticks[t].dry
        PROVE  /\ tick.plan[j] = <<"mark", "launch">> => HasClaim(t, j)'
               /\ tick.plan[j] = <<"requeue">> => ~ HasClaim(t, j)' \/ BlankAnswers'
    <3>1. CASE j = i
      BY <1>5, <3>1
    <3>2. CASE j # i
      BY <1>2, <1>5, <2>1, <2>2, <2>3, <3>2 DEF TagInv, TickInv, TagsAreRead
    <3> QED
      BY <3>1, <3>2
  <2> QED
    BY <1>1, <1>3, <2>3 DEF TagsAreRead
<1> QED
  BY <1>6, <1>7, <1>8 DEF TickInv

LEMMA LookCall ==
  ASSUME TagInv, NEW t \in Ticks, NEW i \in Ids, LookAtIssue(t, i)
  PROVE  CallResult(t)
<1>1. PICK call \in DOMAIN Goal :
        /\ Turn(t, i, call) /\ ticks[t].io = "call"
        /\ \/ GivenUp(t, i)
           \/ \E since : \/ DoneSince(t, i, since)
                         \/ Moves(t, [ticks[t] EXCEPT !.io = "write", !.since = since])
  BY DEF LookAtIssue, StateCall
<1>2. UNCHANGED <<world, toml, columns, items, creates>> /\ LeftFalls
  BY StayFalls DEF LookAtIssue, boardVars, TagInv, BoardInv, WorldIsKept
<1>3. BoardInv' /\ NativesDrift
  BY <1>2, ReadingKeepsBoard DEF TagInv
<1>4. call \notin {"tag", "untag"}
  BY DEF Goal
<1>5. ticks[t].stage = "act" /\ DOMAIN ticks[t] = Fields
  BY <1>1, TurnIsOnBoard
<1>6. ASSUME NEW since, DoneSince(t, i, since)
      PROVE  CallResult(t)
  <2>1. TickInv(t)'
    BY <1>1, <1>2, <1>3, <1>4, <1>6, CallIsOver
  <2> QED
    BY <1>2, <1>3, <2>1 DEF CallResult
<1>7. CASE GivenUp(t, i)
  <2>1. <<>> # <<"mark", "launch">> /\ <<>> # <<"requeue">> /\ <<>> \in PlanForms
    BY DEF PlanForms
  <2>2. TickInv(t)'
    BY <1>1, <1>2, <1>3, <1>7, <2>1, ProgramGives DEF GivenUp
  <2> QED
    BY <1>2, <1>3, <2>2 DEF CallResult
<1>8. ASSUME NEW since, Moves(t, [ticks[t] EXCEPT !.io = "write", !.since = since])
      PROVE  CallResult(t)
  <2> DEFINE tick == [ticks[t] EXCEPT !.io = "write", !.since = since]
  <2>1. /\ tick.stage = "act" /\ tick.config = ticks[t].config /\ tick.dry = ticks[t].dry
        /\ tick.plan = ticks[t].plan /\ tick.io = "write" /\ tick.seen = ticks[t].seen
    BY <1>5 DEF Fields
  <2> HIDE DEF tick
  <2>2. TickInv(t)'
    BY <1>2, <1>3, <1>5, <1>8, <2>1, CallGoesOn DEF tick
  <2> QED
    BY <1>2, <1>3, <2>2 DEF CallResult
<1> QED
  BY <1>1, <1>6, <1>7, <1>8

LEMMA StateWrite ==
  ASSUME TagInv, NEW t \in Ticks, NEW i \in Ids, SetState(t, i)
  PROVE  CallResult(t)
<1>1. PICK call \in DOMAIN Goal :
        /\ Turn(t, i, call)
        /\ \/ Exits(t) /\ items' = items
           \/ /\ items' = [items EXCEPT ![i].native =
                             NativeAfter(@, FirstNative(ticks[t].config, Goal[call]))]
              /\ \E since : DoneSince(t, i, since)
  BY DEF SetState, StateCall
<1>2. UNCHANGED <<world, toml, columns, creates>> /\ LeftFalls
  BY StayFalls DEF SetState, TagInv, BoardInv, WorldIsKept
<1>3. CASE Exits(t) /\ items' = items
  <2>1. ticks'[t] = Off
    BY <1>3, MovesOne DEF TagInv, EInv, Exits
  <2> QED
    BY <1>2, <1>3, <2>1, TickOver, ReadingKeepsBoard DEF TagInv, CallResult
<1>4. ASSUME NEW since, DoneSince(t, i, since), ~ (Exits(t) /\ items' = items)
      PROVE  CallResult(t)
  <2> DEFINE native == NativeAfter(items[i].native, FirstNative(ticks[t].config, Goal[call]))
             item == [items[i] EXCEPT !.native = native]
  <2>1. i \in OnBoard /\ Committed(i) /\ Loaded(t)
    BY <1>1, TurnIsOnBoard
  <2>2. native \notin {Absent, Partial}
    <3>1. Goal[call] \in {"queued", "active"}
      BY <1>1 DEF Goal
    <3>2. FirstNative(ticks[t].config, Goal[call]) \notin {Absent, Partial}
      BY <2>1, <3>1, ReadNames DEF TagInv, BoardInv, TickInv
    <3> QED
      BY <2>1, <3>2 DEF NativeAfter, Committed
  <2>3. DOMAIN items[i] = ItemFields /\ DOMAIN items = Ids
    BY DEF TagInv, BoardInv, ItemsAreWhole
  <2>4. items' = [items EXCEPT ![i] = item]
    BY <1>1, <1>4
  <2> HIDE DEF native
  <2>5. /\ DOMAIN item = ItemFields /\ item.native = native
        /\ item.origin = items[i].origin /\ item.tags = items[i].tags
    BY <2>3 DEF ItemFields
  <2> HIDE DEF item
  <2>6. /\ ItemsAreWhole' /\ OnBoard' = OnBoard /\ NativesDrift
        /\ \A j \in Ids : items'[j].origin = items[j].origin
    BY <2>1, <2>2, <2>4, <2>5, OneItemChanges DEF TagInv
  <2>7. \A j \in Ids : items'[j].tags = items[j].tags
    BY <2>3, <2>4, <2>5
  <2>8. WorldIsKept' /\ CreatesAreKept'
    BY <1>2, <2>6, SameCreates, FallKeepsWorld DEF TagInv, BoardInv, WorldIsKept
  <2>9. call \notin {"tag", "untag"}
    BY <1>1 DEF Goal
  <2>10. TickInv(t)'
    BY <1>1, <1>2, <1>4, <2>6, <2>7, <2>9, CallIsOver
  <2> QED
    BY <1>2, <2>6, <2>8, <2>10 DEF CallResult, BoardInv
<1> QED
  BY <1>1, <1>3, <1>4

(* A write of one item's tags leaves everything else of the board.         *)
LEMMA TagsChange ==
  ASSUME TagInv, NEW i \in OnBoard, NEW tags, items' = [items EXCEPT ![i].tags = tags],
         UNCHANGED <<world, toml, columns, creates>>, LeftFalls
  PROVE  /\ BoardInv' /\ NativesDrift
         /\ items'[i].tags = tags
         /\ \A j \in Ids \ {i} : items'[j].tags = items[j].tags
<1> DEFINE item == [items[i] EXCEPT !.tags = tags]
<1>1. DOMAIN items[i] = ItemFields /\ DOMAIN items = Ids /\ i \in Ids /\ items[i].native # Absent
  BY DEF TagInv, BoardInv, ItemsAreWhole, OnBoard
<1>2. items' = [items EXCEPT ![i] = item]
  OBVIOUS
<1>3. /\ DOMAIN item = ItemFields /\ item.native = items[i].native
      /\ item.origin = items[i].origin /\ item.tags = tags
  BY <1>1 DEF ItemFields
<1> HIDE DEF item
<1>4. /\ ItemsAreWhole' /\ OnBoard' = OnBoard /\ NativesDrift
      /\ \A j \in Ids : items'[j].origin = items[j].origin
  BY <1>1, <1>2, <1>3, OneItemChanges DEF TagInv, Committed
<1>5. WorldIsKept' /\ CreatesAreKept'
  BY <1>4, SameCreates, FallKeepsWorld DEF TagInv, BoardInv, WorldIsKept
<1> QED
  BY <1>1, <1>2, <1>3, <1>4, <1>5 DEF BoardInv

LEMMA OneTagWrite ==
  ASSUME TagInv, NEW t \in Ticks, NEW i \in Ids, TagOne(t, i)
  PROVE  CallResult(t)
<1>1. PICK call \in {"tag", "untag"} :
        /\ Turn(t, i, call) /\ Done(t, i)
        /\ items' = [items EXCEPT ![i].tags = Retagged(t, call, @)]
  BY DEF TagOne, TagCall
<1>2. UNCHANGED <<world, toml, columns, creates>> /\ LeftFalls
  BY StayFalls DEF TagOne, TagInv, BoardInv, WorldIsKept
<1>3. i \in OnBoard
  BY <1>1, TurnIsOnBoard
<1>4. PICK tags : tags = Retagged(t, call, items[i].tags)
  OBVIOUS
<1>5. items' = [items EXCEPT ![i].tags = tags]
  BY <1>1, <1>4
<1>6. /\ BoardInv' /\ NativesDrift
      /\ items'[i].tags = tags
      /\ \A j \in Ids \ {i} : items'[j].tags = items[j].tags
  BY <1>2, <1>3, <1>5, TagsChange
<1>7. TickInv(t)'
  BY <1>1, <1>2, <1>4, <1>6, CallIsOver DEF Retagged, Done
<1> QED
  BY <1>2, <1>6, <1>7 DEF CallResult

(* Azure DevOps' field of tags: its read.  An answer that needs no write   *)
(* ends the call, and a blank one is spent.                                *)
LEMMA TagsRead ==
  ASSUME TagInv, NEW t \in Ticks, NEW i \in Ids, ReadTags(t, i)
  PROVE  CallResult(t)
<1>1. PICK call \in {"tag", "untag"}, tags \in {items[i].tags, {}} :
        /\ Turn(t, i, call) /\ world.provider = "ado" /\ Show(i, tags)
        /\ IF Retagged(t, call, tags) = tags THEN Done(t, i)
           ELSE Moves(t, [ticks[t] EXCEPT !.io = "patch", !.read = tags,
                                          !.since = Noted(t, {"tags"})])
  BY DEF ReadTags, TagCall
<1>2. LeftFalls
  BY <1>1, SpendFalls, StayFalls DEF Show, Kinds, TagInv, BoardInv, WorldIsKept
<1>3. UNCHANGED <<world, toml, columns, items, creates>>
  BY DEF ReadTags
<1>4. BoardInv' /\ NativesDrift
  BY <1>2, <1>3, ReadingKeepsBoard DEF TagInv
<1>5. tags = items[i].tags \/ BlankAnswers'
  BY <1>1, <1>3, BlankSpent DEF Show, TagInv, BoardInv
<1>6. CASE Retagged(t, call, tags) = tags
  <2>1. /\ call = "tag" => ClaimTag(ticks[t].config) \in tags
        /\ call = "untag" => ClaimTag(ticks[t].config) \notin tags
    BY <1>1, <1>6 DEF Retagged
  <2>2. /\ call = "tag" => ClaimTag(ticks[t].config) \in items'[i].tags
        /\ call = "untag" => ClaimTag(ticks[t].config) \notin items'[i].tags \/ BlankAnswers'
    BY <1>1, <1>3, <1>5, <2>1
  <2>3. TickInv(t)'
    BY <1>1, <1>2, <1>3, <1>4, <1>6, <2>2, CallIsOver DEF Done
  <2> QED
    BY <1>2, <1>3, <1>4, <2>3 DEF CallResult
<1>7. CASE Retagged(t, call, tags) # tags
  <2> DEFINE tick == [ticks[t] EXCEPT !.io = "patch", !.read = tags,
                                      !.since = Noted(t, {"tags"})]
  <2>1. ticks[t].stage = "act" /\ DOMAIN ticks[t] = Fields
    BY <1>1, TurnIsOnBoard
  <2>2. /\ tick.stage = "act" /\ tick.config = ticks[t].config /\ tick.dry = ticks[t].dry
        /\ tick.plan = ticks[t].plan /\ tick.io = "patch" /\ tick.seen = ticks[t].seen
        /\ tick.since = Noted(t, {"tags"}) /\ tick.read = tags
    BY <2>1 DEF Fields
  <2>3. Moves(t, tick)
    BY <1>1, <1>7
  <2> HIDE DEF tick
  <2>4. \A j \in Ids : TagTurn(t, j) => j = i
    BY <1>1, OneTurn DEF TagTurn
  <2>5. \A j \in Ids : TagTurn(t, j) =>
          (Note \in tick.read <=> Note \in items'[j].tags) \/ BlankAnswers'
    BY <1>3, <1>5, <2>2, <2>4
  <2>6. tick.since.tags \in Nat /\ left'.tags <= tick.since.tags
    <3>1. tick.since.tags = left.tags
      BY <2>2 DEF Noted, Kinds
    <3> QED
      BY <1>2, <3>1 DEF LeftFalls, Kinds, TagInv, BoardInv, WorldIsKept
  <2>7. TickInv(t)'
    BY <1>1, <1>2, <1>3, <1>4, <2>1, <2>2, <2>3, <2>5, <2>6, CallGoesOn
  <2> QED
    BY <1>2, <1>3, <1>4, <2>7 DEF CallResult
<1> QED
  BY <1>6, <1>7

(* Its write, made or dropped without a word.                              *)
LEMMA TagsWrite ==
  ASSUME TagInv, NEW t \in Ticks, NEW i \in Ids, PatchTags(t, i)
  PROVE  CallResult(t)
<1>1. PICK call \in {"tag", "untag"} :
        /\ Turn(t, i, call) /\ ~ ticks[t].dry /\ ticks[t].io = "patch"
        /\ \/ /\ items' = [items EXCEPT ![i].tags = Retagged(t, call, ticks[t].read)]
              /\ left' = left
           \/ items' = items /\ Spend("drops")
        /\ Moves(t, [ticks[t] EXCEPT !.io = "verify", !.read = Retagged(t, call, @)])
  BY DEF PatchTags, TagCall
<1> DEFINE tick == [ticks[t] EXCEPT !.io = "verify", !.read = Retagged(t, call, @)]
<1>2. UNCHANGED <<world, toml, columns, creates>> /\ LeftFalls
  BY <1>1, SpendFalls, StayFalls DEF PatchTags, Kinds, TagInv, BoardInv, WorldIsKept
<1>3. i \in OnBoard /\ ticks[t].stage = "act" /\ DOMAIN ticks[t] = Fields
  BY <1>1, TurnIsOnBoard
<1>4. /\ tick.stage = "act" /\ tick.config = ticks[t].config /\ tick.dry = ticks[t].dry
      /\ tick.plan = ticks[t].plan /\ tick.io = "verify" /\ tick.seen = ticks[t].seen
      /\ tick.read = Retagged(t, call, ticks[t].read)
  BY <1>3 DEF Fields
<1>5. Moves(t, tick)
  BY <1>1
<1> HIDE DEF tick
<1>6. world.provider = "ado"
  BY <1>1, <1>3 DEF TagInv, TickInv, TagsAreRead
<1>7. /\ BoardInv' /\ NativesDrift
      /\ \A j \in Ids \ {i} : items'[j].tags = items[j].tags
  <2>1. CASE items' = [items EXCEPT ![i].tags = Retagged(t, call, ticks[t].read)]
    BY <1>2, <1>3, <2>1, TagsChange
  <2>2. CASE items' = items
    BY <1>2, <2>2, ReadingKeepsBoard DEF TagInv
  <2> QED
    BY <1>1, <2>1, <2>2
<1>8. ticks[t].plan[i] \notin {<<"mark", "launch">>, <<"requeue">>}
  <2>1. Head(ticks[t].plan[i]) \in {"tag", "untag"}
    BY <1>1 DEF Turn
  <2>2. Head(<<"mark", "launch">>) = "mark" /\ Head(<<"requeue">>) = "requeue"
    OBVIOUS
  <2> QED
    BY <2>1, <2>2
<1>9. \A j \in Ids : \A other : Turn(t, j, other) => other = call
  BY <1>1, OneTurn
<1>10. \A j \in Ids :
         /\ Turn(t, j, "tag") => ClaimTag(tick.config) \in tick.read
         /\ Turn(t, j, "untag") => ClaimTag(tick.config) \notin tick.read
  <2>1. /\ call = "tag" => ClaimTag(tick.config) \in tick.read
        /\ call = "untag" => ClaimTag(tick.config) \notin tick.read
    BY <1>4 DEF Retagged
  <2> QED
    BY <1>9, <2>1
<1>11. \A j \in Ids : ticks[t].plan[j] \in {<<"mark", "launch">>, <<"requeue">>}
         => items'[j].tags = items[j].tags
  BY <1>7, <1>8
<1>12. TickInv(t)'
  BY <1>2, <1>3, <1>4, <1>5, <1>6, <1>7, <1>10, <1>11, CallGoesOn
<1> QED
  BY <1>2, <1>7, <1>12 DEF CallResult

(* What is read back is what was written, or the tick is over.             *)
LEMMA TagsVerified ==
  ASSUME TagInv, NEW t \in Ticks, NEW i \in Ids, VerifyTags(t, i)
  PROVE  CallResult(t)
<1>1. PICK call \in {"tag", "untag"}, tags \in {items[i].tags, {}} :
        /\ Turn(t, i, call) /\ ~ ticks[t].dry /\ ticks[t].io = "verify" /\ Show(i, tags)
        /\ IF tags = ticks[t].read THEN Done(t, i) /\ lock' = lock ELSE Exits(t)
  BY DEF VerifyTags, TagCall
<1>2. LeftFalls
  BY <1>1, SpendFalls, StayFalls DEF Show, Kinds, TagInv, BoardInv, WorldIsKept
<1>3. UNCHANGED <<world, toml, columns, items, creates>>
  BY DEF VerifyTags
<1>4. BoardInv' /\ NativesDrift
  BY <1>2, <1>3, ReadingKeepsBoard DEF TagInv
<1>5. tags = items[i].tags \/ BlankAnswers'
  BY <1>1, <1>3, BlankSpent DEF Show, TagInv, BoardInv
<1>6. CASE tags = ticks[t].read
  <2>1. ticks[t].stage = "act"
    BY <1>1, TurnIsOnBoard
  <2>2. /\ call = "tag" => ClaimTag(ticks[t].config) \in tags
        /\ call = "untag" => ClaimTag(ticks[t].config) \notin tags
    BY <1>1, <1>6, <2>1 DEF TagInv, TickInv, TagsAreRead
  <2>3. /\ call = "tag" => ClaimTag(ticks[t].config) \in items'[i].tags
        /\ call = "untag" => ClaimTag(ticks[t].config) \notin items'[i].tags \/ BlankAnswers'
    BY <1>1, <1>3, <1>5, <2>2
  <2>4. TickInv(t)'
    BY <1>1, <1>2, <1>3, <1>4, <1>6, <2>3, CallIsOver DEF Done
  <2> QED
    BY <1>2, <1>3, <1>4, <2>4 DEF CallResult
<1>7. CASE tags # ticks[t].read
  <2>1. ticks'[t] = Off
    BY <1>1, <1>7, MovesOne DEF TagInv, EInv, Exits
  <2> QED
    BY <1>2, <1>3, <1>4, <2>1, TickOver DEF CallResult
<1> QED
  BY <1>6, <1>7

LEMMA MarkCall ==
  ASSUME TagInv, NEW t \in Ticks, NEW i \in Ids, WriteClaimedAt(t, i)
  PROVE  CallResult(t)
<1>1. Turn(t, i, "mark") /\ Done(t, i)
  BY DEF WriteClaimedAt
<1>2. UNCHANGED <<world, toml, columns, items, creates>> /\ LeftFalls
  BY StayFalls DEF WriteClaimedAt, Launch, boardVars, TagInv, BoardInv, WorldIsKept
<1>3. BoardInv' /\ NativesDrift
  BY <1>2, ReadingKeepsBoard DEF TagInv
<1>4. TickInv(t)'
  BY <1>1, <1>2, <1>3, CallIsOver DEF Done
<1> QED
  BY <1>2, <1>3, <1>4 DEF CallResult

(* A launch ends its program, or the roll back takes the program's place.  *)
LEMMA LaunchCall ==
  ASSUME TagInv, NEW t \in Ticks, NEW i \in Ids, Launch(t, i)
  PROVE  CallResult(t)
<1>1. /\ Turn(t, i, "launch") /\ ticks[t].io = "call"
      /\ Done(t, i) \/ Moves(t, [ticks[t] EXCEPT !.plan[i] = RetryCalls])
  BY DEF Launch
<1>2. UNCHANGED <<world, toml, columns, items, creates>> /\ LeftFalls
  BY StayFalls DEF Launch, boardVars, TagInv, BoardInv, WorldIsKept
<1>3. BoardInv' /\ NativesDrift
  BY <1>2, ReadingKeepsBoard DEF TagInv
<1>4. CASE Done(t, i)
  <2>1. TickInv(t)'
    BY <1>1, <1>2, <1>3, <1>4, CallIsOver DEF Done
  <2> QED
    BY <1>2, <1>3, <2>1 DEF CallResult
<1>5. CASE Moves(t, [ticks[t] EXCEPT !.plan[i] = RetryCalls])
  <2>1. RetryCalls # <<"mark", "launch">> /\ RetryCalls # <<"requeue">> /\ RetryCalls \in PlanForms
    BY DEF RetryCalls, PlanForms
  <2>2. TickInv(t)'
    BY <1>1, <1>2, <1>3, <1>5, <2>1, ProgramGives
  <2> QED
    BY <1>2, <1>3, <2>2 DEF CallResult
<1> QED
  BY <1>1, <1>4, <1>5

-----------------------------------------------------------------------------
(* The invariant, and what follows from it.                                *)

LEMMA TickKeepsTags ==
  ASSUME TagInv, NEW t \in Ticks, Tick(t)
  PROVE  /\ CallResult(t)
         /\ ticks[t].stage # "act" => items' = items
<1>1. CASE LoadConfig(t) \/ ValidateConfig(t) \/ TryLock(t) \/ Stamp(t)
  BY <1>1, EarlySteps DEF CallResult
<1>2. CASE ReadBuckets(t)
  BY <1>2, GatherSteps DEF CallResult
<1>3. CASE Decide(t)
  BY <1>3, DecideSteps DEF CallResult
<1>4. CASE EndTick(t) \/ TickDies(t)
  BY <1>4, LastSteps DEF CallResult
<1>5. ASSUME NEW i \in Ids, Call(t, i)
      PROVE  CallResult(t) /\ ticks[t].stage = "act"
  <2>1. CallResult(t)
    BY <1>5, AbsorbedCall, LookCall, StateWrite, OneTagWrite, TagsRead, TagsWrite,
       TagsVerified, MarkCall, LaunchCall DEF Call
  <2>2. \E call : Turn(t, i, call)
    BY <1>5 DEF Call, Absorbed, LookAtIssue, SetState, TagOne, ReadTags, PatchTags, VerifyTags,
                WriteClaimedAt, Launch, StateCall, TagCall
  <2> QED
    BY <2>1, <2>2 DEF Turn, At
<1> QED
  BY <1>1, <1>2, <1>3, <1>4, <1>5 DEF Tick

LEMMA InitHasTagInv ==
  ASSUME Init
  PROVE  TagInv
<1>1. PICK w \in Worlds : InitialBoard(w)
  BY DEF Init
<1>2. /\ world = w /\ toml \in w.tomls /\ columns = w.columns /\ items \in w.items
      /\ left = w.bounds
      /\ creates = [p \in Creators |->
           [stage |-> "idle", queued |-> Absent, item |-> NoItem, todo |-> <<>>,
            peeked |-> 0, armed |-> 0, made |-> 0]]
  BY <1>1 DEF InitialBoard
<1>3. /\ w.bounds \in [Kinds -> Nat] /\ w.columns \in w.layouts
      /\ DOMAIN items = Ids
      /\ \A i \in Ids : DOMAIN items[i] = DOMAIN NewItem(Absent)
      /\ \E k \in 0..Cardinality(Ids) : OnBoard = 1..k
  BY <1>2, BoardsAssumption DEF OnBoard
<1>4. WorldIsKept
  <2>1. \A kind \in Kinds : left[kind] \in Nat
    BY <1>2, <1>3
  <2> QED
    BY <1>2, <1>3, <2>1 DEF WorldIsKept
<1>5. ItemsAreWhole
  <2>1. Cardinality(Ids) \in Nat
    BY IdsAssumption, FS_CardinalityType
  <2> QED
    BY <1>3, <2>1 DEF ItemsAreWhole, ItemFields, NewItem
<1>6. CreatesAreKept
  BY <1>2 DEF CreatesAreKept, Idle, CallFields
<1>7. \A t \in Ticks : TickInv(t)
  <2>1. \A t \in Ticks : ticks[t] = Off
    BY DEF Init
  <2>2. /\ Off.stage = "off" /\ Off.seen = NothingSeen /\ Off.plan = NoPlan /\ Off.io = "call"
    BY DEF Off
  <2>3. \A i \in Ids : NothingSeen[i].bucket = "none" /\ NoPlan[i] = <<>>
    BY DEF NothingSeen, Unseen, NoPlan
  <2>4. DOMAIN NothingSeen = Ids /\ DOMAIN NoPlan = Ids
    BY DEF NothingSeen, NoPlan
  <2> QED
    BY <2>1, <2>2, <2>3, <2>4
    DEF TickInv, ConfigIsRead, Loaded, PlansAreForBoard, PlanForms, TagsAreRead
<1> QED
  BY <1>4, <1>5, <1>6, <1>7, InitHasEInv DEF TagInv, BoardInv

LEMMA NextKeepsTagInv ==
  ASSUME TagInv, [Next]_entryVars
  PROVE  TagInv'
<1>0. EInv'
  BY NextKeepsEInv DEF TagInv
<1>1. ASSUME NEW t \in Ticks, Tick(t)
      PROVE  TagInv'
  <2>1. /\ BoardInv' /\ NativesDrift /\ LeftFalls /\ world' = world /\ TickInv(t)'
        /\ ticks[t].stage # "act" => items' = items
    BY <1>1, TickKeepsTags DEF CallResult
  <2>2. ASSUME NEW u \in Ticks \ {t}
        PROVE  TickInv(u)'
    <3>1. ticks'[u] = ticks[u]
      BY <1>1, <2>2, TickKeepsStates DEF TagInv, EInv, TicksAreRecords, BoardInv, ItemsAreWhole,
           ItemFields, BInv, ItemsHaveStates
    <3>2. ticks[u].stage = "act" => TagsDrift
      <4>1. ticks[u].stage = "act" => ticks[t].stage # "act"
        BY <2>2 DEF TagInv, EInv, LockIsHeld
      <4> QED
        BY <2>1, <4>1, SameTags
    <3> QED
      BY <2>1, <2>2, <3>1, <3>2, OthersKeepTick DEF TagInv, BoardInv
  <2> QED
    BY <1>0, <2>1, <2>2 DEF TagInv
<1>2. ASSUME BoardInv', NativesDrift, TagsDrift, LeftFalls, world' = world, ticks' = ticks
      PROVE  TagInv'
  BY <1>0, <1>2, OthersKeepTick DEF TagInv, BoardInv
<1>3. CASE Operator
  BY <1>2, <1>3, OperatorDrifts DEF TagInv
<1>4. CASE (People \/ Creates) /\ UNCHANGED <<root, ticks>>
  BY <1>2, <1>4, PeopleDrift, CreatesDrift DEF TagInv
<1>5. CASE UNCHANGED entryVars
  <2>1. UNCHANGED <<world, toml, columns, items, creates, left, ticks>>
    BY <1>5 DEF entryVars, boardVars
  <2> QED
    BY <1>2, <2>1, StayFalls, ReadingKeepsBoard DEF TagInv, BoardInv, WorldIsKept
<1> QED
  BY <1>1, <1>3, <1>4, <1>5 DEF Next

LEMMA TagInvHolds == Spec => []TagInv
<1>1. Init => TagInv
  BY InitHasTagInv
<1>2. TagInv /\ [Next]_entryVars => TagInv'
  BY NextKeepsTagInv
<1> QED
  BY <1>1, <1>2, PTL DEF Spec

(* add_tag, remove_tag, _write_tags: on every provider, when a tick marks  *)
(* an increment as claimed the item has the tag of its fleet, and when it  *)
(* requeues one the item has lost it, unless some read came back blank;    *)
(* whatever people, lost writes, creates and other ticks do meanwhile.     *)
THEOREM TagsAreWritten == Spec => []TagsAreAsWritten
<1>1. ASSUME TagInv, NEW t \in Ticks, NEW i \in Ids, ~ ticks[t].dry
      PROVE  /\ Turn(t, i, "mark") => HasClaim(t, i)
             /\ Turn(t, i, "requeue") => ~ HasClaim(t, i) \/ BlankAnswers
  <2>1. \A call : Turn(t, i, call) =>
          /\ ticks[t].stage = "act" /\ ticks[t].plan[i] # <<>>
          /\ Head(ticks[t].plan[i]) = call
    BY DEF Turn, At
  <2>2. ticks[t].plan[i] \in PlanForms
    BY <1>1 DEF TagInv, TickInv, PlansAreForBoard
  <2>3. /\ Turn(t, i, "mark") => ticks[t].plan[i] = <<"mark", "launch">>
        /\ Turn(t, i, "requeue") => ticks[t].plan[i] = <<"requeue">>
    BY <2>1, <2>2, FormsAreTuples
  <2> QED
    BY <1>1, <2>1, <2>3 DEF TagInv, TickInv, TagsAreRead
<1>2. TagInv => TagsAreAsWritten
  BY <1>1 DEF TagsAreAsWritten, HasClaim
<1> QED
  BY <1>2, TagInvHolds, PTL

(* Only the write of a field of tags can change a tag that is not the      *)
(* fleet's.                                                                *)
LEMMA NoteChanges ==
  ASSUME TagInv, NEW t \in Ticks, Tick(t), NEW i \in Ids,
         ~ (Note \in items[i].tags <=> Note \in items'[i].tags)
  PROVE  \E call \in {"tag", "untag"} :
           /\ TagCall(t, i, call) /\ ticks[t].io = "patch"
           /\ items' = [items EXCEPT ![i].tags = Retagged(t, call, ticks[t].read)]
<1>0. DOMAIN items = Ids /\ \A j \in Ids : DOMAIN items[j] = ItemFields
  BY DEF TagInv, BoardInv, ItemsAreWhole
<1>1. /\ items' # items
      /\ ClaimTag(ticks[t].config) # Note
  BY DEF ClaimTag, Note
<1>2. ticks[t].stage = "act"
  BY <1>1, TickKeepsTags
<1>3. PICK j \in Ids : Call(t, j)
  BY <1>1, <1>2 DEF Tick, LoadConfig, ValidateConfig, TryLock, Stamp, ReadBuckets, Decide, EndTick,
                    TickDies, boardVars
<1>4. ~ SetState(t, j)
  <2> SUFFICES ASSUME SetState(t, j)
               PROVE  FALSE
    OBVIOUS
  <2>1. PICK native : items' = items \/ items' = [items EXCEPT ![j].native = native]
    BY DEF SetState
  <2>2. items'[i].tags = items[i].tags
    BY <1>0, <2>1 DEF ItemFields
  <2> QED
    BY <2>2
<1>5. ~ TagOne(t, j)
  <2> SUFFICES ASSUME TagOne(t, j)
               PROVE  FALSE
    OBVIOUS
  <2>1. PICK tags, call : /\ items' = [items EXCEPT ![j].tags = tags]
                          /\ tags = Retagged(t, call, items[j].tags)
    BY DEF TagOne
  <2>2. items'[i].tags = items[i].tags \/ (i = j /\ items'[i].tags = tags)
    BY <1>0, <2>1 DEF ItemFields
  <2> QED
    BY <1>1, <2>1, <2>2 DEF Retagged
<1>6. PatchTags(t, j)
  BY <1>1, <1>3, <1>4, <1>5
  DEF Call, Absorbed, LookAtIssue, ReadTags, VerifyTags, WriteClaimedAt, Launch, boardVars
<1>7. PICK call \in {"tag", "untag"} :
        /\ TagCall(t, j, call) /\ ticks[t].io = "patch"
        /\ items' = [items EXCEPT ![j].tags = Retagged(t, call, ticks[t].read)]
  BY <1>1, <1>6 DEF PatchTags
<1>8. i = j
  <2>1. PICK tags : items' = [items EXCEPT ![j].tags = tags]
    BY <1>7
  <2>2. i # j => items'[i] = items[i]
    BY <1>0, <2>1
  <2> QED
    BY <2>2
<1> QED
  BY <1>7, <1>8

(* _write_tags: a step of a tick leaves a person's tag on an item as it    *)
(* is, unless somebody wrote tags since the tick read that field, or a     *)
(* read came back blank.                                                   *)
THEOREM TagsOfOthersSurvive == Spec => OthersTagsSurvive
<1>1. ASSUME TagInv, [Next]_entryVars, NEW t \in Ticks, NEW i \in Ids, ticks'[t] # ticks[t],
             ~ (Note \in items[i].tags <=> Note \in items'[i].tags)
      PROVE  ~ QuietSince(t, {"tags"}) \/ BlankAnswers
  <2>1. BInv
    BY <1>1 DEF TagInv, EInv, TicksAreRecords, BoardInv, ItemsAreWhole, ItemFields, BInv,
                ItemsHaveStates
  <2>2. Tick(t)
    BY <1>1, <2>1, MoversStep
  <2>3. PICK call \in {"tag", "untag"} :
          /\ TagCall(t, i, call) /\ ticks[t].io = "patch"
          /\ items' = [items EXCEPT ![i].tags = Retagged(t, call, ticks[t].read)]
    BY <1>1, <2>2, NoteChanges
  <2>4. TagTurn(t, i) /\ ticks[t].stage = "act" /\ ~ ticks[t].dry
    BY <2>3 DEF TagCall, TagTurn, Turn, At
  <2>5. NoteIsRead(t, i) /\ ticks[t].since.tags \in Nat
    BY <1>1, <2>3, <2>4 DEF TagInv, TickInv, TagsAreRead
  <2>6. ~ (Note \in ticks[t].read <=> Note \in items[i].tags)
    <3>1. PICK tags : tags = Retagged(t, call, ticks[t].read)
      OBVIOUS
    <3>2. Note \in tags <=> Note \in ticks[t].read
      BY <3>1 DEF Retagged, ClaimTag, Note
    <3>3. DOMAIN items = Ids /\ DOMAIN items[i] = ItemFields
      BY <1>1 DEF TagInv, BoardInv, ItemsAreWhole
    <3>4. items'[i].tags = tags
      BY <2>3, <3>1, <3>3 DEF ItemFields
    <3> QED
      BY <1>1, <3>2, <3>4
  <2>7. left.tags \in Nat /\ ticks[t].since.tags \in Nat
    BY <1>1, <2>5 DEF TagInv, BoardInv, WorldIsKept, Kinds
  <2> QED
    BY <2>5, <2>6, <2>7 DEF NoteIsRead, QuietSince
<1>2. TagInv /\ [Next]_entryVars =>
        [\A t \in Ticks : \A i \in Ids :
           ticks'[t] # ticks[t] /\ ~ (Note \in items[i].tags <=> Note \in items'[i].tags)
             => ~ QuietSince(t, {"tags"}) \/ BlankAnswers]_entryVars
  BY <1>1
<1> QED
  BY <1>2, TagInvHolds, PTL DEF Spec, OthersTagsSurvive

-----------------------------------------------------------------------------
(* The faults that tests arm.                                              *)

(* The creates that a fault will stop.                                     *)
Stopping == {p \in Creators : creates[p].stage = "write" /\ creates[p].armed # 0}

(* A fault armed and not fired yet is still there to be taken, or is with  *)
(* the one create that took it.                                            *)
FaultsAreCounted ==
  /\ fault \in Nat /\ fired \in Int
  /\ fired >= Cardinality(Stopping) + (IF fault = 0 THEN 0 ELSE 1)
  /\ \A p \in Creators :
       /\ creates[p].made \in Nat /\ creates[p].armed \in Nat
       /\ creates[p].stage \in {"peek", "take"} => creates[p].armed = 0

FaultInv == TagInv /\ FaultsAreCounted

LEMMA StoppingIsFinite ==
  /\ IsFiniteSet(Stopping) /\ Cardinality(Stopping) \in Nat
  /\ \A S : S \subseteq Stopping =>
              Cardinality(S) \in Nat /\ Cardinality(S) <= Cardinality(Stopping)
<1>1. Stopping \subseteq Creators
  BY DEF Stopping
<1>2. IsFiniteSet(Stopping)
  BY <1>1, IdsAssumption, FS_Subset
<1> QED
  BY <1>2, FS_Subset, FS_CardinalityType

LEMMA OneCallMoves ==
  ASSUME TagInv, NEW p \in Creators, NEW call, Calls(p, call)
  PROVE  /\ creates'[p] = call
         /\ \A q \in Creators \ {p} : creates'[q] = creates[q]
BY DEF Calls, TagInv, BoardInv, CreatesAreKept

(* A step of a call that takes or fires no fault.                          *)
LEMMA NoFaultMoves ==
  ASSUME FaultInv, NEW p \in Creators, NEW call, Calls(p, call),
         call.made \in Nat, call.armed \in Nat,
         call.stage \in {"peek", "take"} => call.armed = 0,
         call.stage = "write" /\ call.armed # 0 => p \in Stopping,
         fault' \in {fault, 0}, fired' = fired
  PROVE  FaultsAreCounted'
<1>1. /\ creates'[p] = call
      /\ \A q \in Creators \ {p} : creates'[q] = creates[q]
  BY OneCallMoves DEF FaultInv
<1>2. Stopping' \subseteq Stopping
  BY <1>1 DEF Stopping
<1>3. /\ Cardinality(Stopping') \in Nat /\ Cardinality(Stopping) \in Nat
      /\ Cardinality(Stopping') <= Cardinality(Stopping)
  BY <1>2, StoppingIsFinite
<1>4. fired' >= Cardinality(Stopping') + (IF fault' = 0 THEN 0 ELSE 1)
  BY <1>3 DEF FaultInv, FaultsAreCounted
<1>5. fault' \in Nat /\ fired' \in Int
  BY DEF FaultInv, FaultsAreCounted
<1> QED
  BY <1>1, <1>4, <1>5 DEF FaultInv, FaultsAreCounted

LEMMA TakeCounts ==
  ASSUME FaultInv, NEW p \in Creators, Take(p)
  PROVE  FaultsAreCounted'
<1>1. /\ creates[p].stage = "take" /\ fault' = 0 /\ fired' = fired
      /\ creates[p].made \in Nat /\ creates[p].armed = 0
      /\ DOMAIN creates[p] = CallFields
  BY DEF Take, FaultInv, FaultsAreCounted, TagInv, BoardInv, CreatesAreKept
<1>2. CASE Over(p)
  <2> DEFINE call == [creates[p] EXCEPT !.stage = "idle"]
  <2>1. call.made = creates[p].made /\ call.armed = 0 /\ call.stage = "idle"
    BY <1>1 DEF CallFields
  <2>2. Calls(p, call)
    BY <1>2 DEF Over
  <2> HIDE DEF call
  <2> QED
    BY <1>1, <2>1, <2>2, NoFaultMoves
<1>3. CASE Calls(p, [creates[p] EXCEPT !.stage = "write", !.armed = fault])
  <2> DEFINE call == [creates[p] EXCEPT !.stage = "write", !.armed = fault]
  <2>0. Calls(p, call)
    BY <1>3
  <2>1. call.made = creates[p].made /\ call.armed = fault /\ call.stage = "write"
    BY <1>1 DEF CallFields
  <2> HIDE DEF call
  <2>2. CASE fault = 0
    BY <1>1, <2>0, <2>1, <2>2, NoFaultMoves
  <2>3. CASE fault # 0
    <3>1. /\ creates'[p] = call
          /\ \A q \in Creators \ {p} : creates'[q] = creates[q]
      BY <2>0, OneCallMoves DEF FaultInv
    <3>2. Stopping' = Stopping \cup {p} /\ p \notin Stopping
      BY <1>1, <2>1, <2>3, <3>1 DEF Stopping
    <3>3. Cardinality(Stopping') = Cardinality(Stopping) + 1
      BY <3>2, StoppingIsFinite, FS_AddElement
    <3>4. Cardinality(Stopping) \in Nat
      BY StoppingIsFinite
    <3>5. fired' >= Cardinality(Stopping') + (IF fault' = 0 THEN 0 ELSE 1)
      BY <1>1, <2>3, <3>3, <3>4 DEF FaultInv, FaultsAreCounted
    <3> QED
      BY <1>1, <2>1, <3>1, <3>5 DEF FaultInv, FaultsAreCounted
  <2> QED
    BY <2>2, <2>3
<1> QED
  BY <1>2, <1>3 DEF Take

LEMMA WriteCounts ==
  ASSUME FaultInv, NEW p \in Creators, Write(p)
  PROVE  FaultsAreCounted'
<1> DEFINE fires == creates[p].made + 1 = creates[p].armed
<1> DEFINE rest == Tail(creates[p].todo)
           stage == IF fires \/ rest = <<>> THEN "idle" ELSE "write"
           id == IF Head(creates[p].todo).op = "create" THEN NextId ELSE creates[p].item
           call == [creates[p] EXCEPT !.stage = stage, !.item = id, !.todo = rest, !.made = @ + 1]
<1>0. Calls(p, call)
  BY DEF Write
<1>1. stage \in {"idle", "write"} /\ (fires => stage = "idle")
  OBVIOUS
<1> HIDE DEF stage
<1>2. /\ creates[p].stage = "write" /\ fault' = fault
      /\ fired' = (IF fires THEN fired - 1 ELSE fired)
      /\ creates[p].made \in Nat /\ creates[p].armed \in Nat
      /\ DOMAIN creates[p] = CallFields
  BY DEF Write, FaultInv, FaultsAreCounted, TagInv, BoardInv, CreatesAreKept
<1>3. /\ call.made = creates[p].made + 1 /\ call.armed = creates[p].armed /\ call.stage = stage
  BY <1>2 DEF CallFields
<1>4. Calls(p, call)
  BY <1>0
<1> HIDE DEF call
<1>5. CASE ~ fires
  <2>1. call.stage = "write" /\ call.armed # 0 => p \in Stopping
    BY <1>2, <1>3 DEF Stopping
  <2> QED
    BY <1>1, <1>2, <1>3, <1>4, <1>5, <2>1, NoFaultMoves
<1>6. CASE fires
  <2>1. /\ creates'[p] = call
        /\ \A q \in Creators \ {p} : creates'[q] = creates[q]
    BY <1>4, OneCallMoves DEF FaultInv
  <2>2. Stopping' = Stopping \ {p} /\ p \in Stopping
    BY <1>1, <1>2, <1>3, <1>6, <2>1 DEF Stopping
  <2>3. Cardinality(Stopping') = Cardinality(Stopping) - 1
    BY <2>2, StoppingIsFinite, FS_RemoveElement
  <2>4. Cardinality(Stopping) \in Nat
    BY StoppingIsFinite
  <2>5. fired' >= Cardinality(Stopping') + (IF fault' = 0 THEN 0 ELSE 1)
    BY <1>2, <1>6, <2>3, <2>4 DEF FaultInv, FaultsAreCounted
  <2> QED
    BY <1>1, <1>2, <1>3, <1>6, <2>1, <2>5 DEF FaultInv, FaultsAreCounted
<1> QED
  BY <1>5, <1>6

LEMMA CreateCounts ==
  ASSUME FaultInv, NEW p \in Creators, Begin(p) \/ Peek(p) \/ CreatorDies(p)
  PROVE  FaultsAreCounted'
<1>1. /\ creates[p].made \in Nat /\ creates[p].armed \in Nat
      /\ DOMAIN creates[p] = CallFields
      /\ fault' = fault /\ fired' = fired
  BY DEF Begin, Peek, CreatorDies, FaultInv, FaultsAreCounted, TagInv, BoardInv, CreatesAreKept
<1>2. PICK call :
        /\ Calls(p, call)
        /\ call.made \in Nat /\ call.armed \in Nat
        /\ call.stage \in {"peek", "take"} => call.armed = 0
        /\ call.stage = "write" => call.armed = 0
  <2>1. CASE Begin(p)
    <3>1. PICK i, todo : Begins(p, i, todo)
      BY <2>1 DEF Begin
    <3> DEFINE call == [stage |-> "peek",
                        queued |-> FirstNative(Config(world.provider, toml), "queued"),
                        item |-> i, todo |-> todo, peeked |-> 0, armed |-> 0, made |-> 0]
    <3>2. Calls(p, call)
      BY <3>1 DEF Begins
    <3>3. call.made = 0 /\ call.armed = 0 /\ call.stage = "peek"
      OBVIOUS
    <3> QED
      BY <3>2, <3>3
  <2>2. CASE Peek(p)
    <3> DEFINE call == [creates[p] EXCEPT !.stage = IF fault = 0 THEN "write" ELSE "take",
                                          !.peeked = fault]
    <3>1. creates[p].armed = 0
      BY <2>2 DEF Peek, FaultInv, FaultsAreCounted
    <3>2. call.made = creates[p].made /\ call.armed = 0
      BY <1>1, <3>1 DEF CallFields
    <3>3. Calls(p, call)
      BY <2>2 DEF Peek
    <3> HIDE DEF call
    <3> QED
      BY <1>1, <3>2, <3>3
  <2>3. CASE CreatorDies(p)
    <3> DEFINE call == [creates[p] EXCEPT !.stage = "idle"]
    <3>1. call.made = creates[p].made /\ call.armed = creates[p].armed /\ call.stage = "idle"
      BY <1>1 DEF CallFields
    <3> QED
      BY <1>1, <2>3, <3>1 DEF CreatorDies, Over
  <2> QED
    BY <2>1, <2>2, <2>3
<1> QED
  BY <1>1, <1>2, NoFaultMoves

LEMMA NextKeepsFaultInv ==
  ASSUME FaultInv, [Next]_entryVars
  PROVE  FaultInv'
<1>1. TagInv'
  BY NextKeepsTagInv DEF FaultInv
<1>2. ASSUME fault' = fault, fired' = fired, creates' = creates
      PROVE  FaultsAreCounted'
  <2>1. Stopping' = Stopping
    BY <1>2 DEF Stopping
  <2> QED
    BY <1>2, <2>1 DEF FaultInv, FaultsAreCounted
<1>3. ASSUME NEW t \in Ticks, Tick(t)
      PROVE  FaultsAreCounted'
  BY <1>2, <1>3, ZenonT(60)
  DEF Tick, LoadConfig, ValidateConfig, TryLock, Stamp, ReadBuckets, Decide, EndTick, TickDies,
      Call, Absorbed, LookAtIssue, SetState, TagOne, ReadTags, PatchTags, VerifyTags,
      WriteClaimedAt, Launch, boardVars
<1>4. CASE Operator \/ People
  <2>1. fault' = fault /\ fired' = fired /\ creates' = creates
    BY <1>4 DEF Operator, EditToml, ClearRoot, People, EditColumns, PersonMoves, PersonTags
  <2> QED
    BY <1>1, <1>2, <2>1 DEF FaultInv
<1>5. CASE Arm
  <2>1. fault' \in Nat /\ fired' = fired + 1 /\ creates' = creates
    BY <1>5, BoardsAssumption DEF Arm, FaultInv, TagInv, BoardInv, WorldIsKept
  <2>2. Stopping' = Stopping /\ Cardinality(Stopping) \in Nat
    BY <2>1, StoppingIsFinite DEF Stopping
  <2>3. fired' >= Cardinality(Stopping') + (IF fault' = 0 THEN 0 ELSE 1)
    BY <2>1, <2>2 DEF FaultInv, FaultsAreCounted
  <2>4. \A p \in Creators : creates'[p] = creates[p]
    BY <2>1
  <2> QED
    BY <1>1, <2>1, <2>3, <2>4 DEF FaultInv, FaultsAreCounted
<1>6. ASSUME NEW p \in Creators, Create(p)
      PROVE  FaultsAreCounted'
  BY <1>6, TakeCounts, WriteCounts, CreateCounts DEF Create
<1>7. CASE UNCHANGED entryVars
  <2>1. fault' = fault /\ fired' = fired /\ creates' = creates
    BY <1>7 DEF entryVars, boardVars
  <2> QED
    BY <1>1, <1>2, <2>1 DEF FaultInv
<1> QED
  BY <1>1, <1>3, <1>4, <1>5, <1>6, <1>7 DEF Next, Creates, FaultInv

(* _disarm: however many creates look at a fault before one of them takes  *)
(* it, and wherever they die, each fault that was armed stops at most one. *)
THEOREM FaultsFireOnce == Spec => []FaultFiresOnce
<1>1. Init => FaultInv
  <2> SUFFICES ASSUME Init
               PROVE  FaultInv
    OBVIOUS
  <2>1. /\ fault = 0 /\ fired = 0
        /\ creates = [p \in Creators |->
             [stage |-> "idle", queued |-> Absent, item |-> NoItem, todo |-> <<>>,
              peeked |-> 0, armed |-> 0, made |-> 0]]
    BY DEF Init, InitialBoard
  <2>2. Stopping = {}
    BY <2>1 DEF Stopping
  <2>3. Cardinality(Stopping) = 0
    BY <2>2, FS_EmptySet
  <2> QED
    BY <2>1, <2>3, InitHasTagInv DEF FaultInv, FaultsAreCounted
<1>2. FaultInv /\ [Next]_entryVars => FaultInv'
  BY NextKeepsFaultInv
<1>3. FaultInv => FaultFiresOnce
  BY StoppingIsFinite DEF FaultInv, FaultsAreCounted, FaultFiresOnce
<1> QED
  BY <1>1, <1>2, <1>3, PTL DEF Spec

-----------------------------------------------------------------------------
(* The gather.                                                             *)

(* An item that no create of the fake provider made.                       *)
Home(i) == i \in OnBoard /\ items[i].origin = NoOrigin

OnAService == world.provider \in {"ado", "github"}

(* On a service an item stands in a column, or is a closed issue.          *)
ColumnsHold ==
  OnAService => \A i \in Ids : Home(i) =>
    items[i].native \in columns \/ (world.provider = "github" /\ items[i].native \in ClosedNames)

(* The buckets that are still to be read.                                  *)
Awaited(reads) == UNION {reads[k] : k \in DOMAIN reads}

(* A tick that gathers has the item in its bucket, or has not read that    *)
(* bucket yet, or cannot see the item there.                               *)
SeesItem(t, i) ==
  LET tick == ticks[t] IN
  \A b \in Buckets : items[i].native \in Names(tick.config.states, b) =>
    /\ tick.seen[i] = Unseen \/ tick.seen[i].bucket = b
    /\ b \notin Awaited(tick.reads) =>
         tick.seen[i].bucket = b \/ b = "withdrawn" \/ ~ In(tick.config, items[i].native, b)

GatherIsRight(t) ==
  LET tick == ticks[t] IN
  /\ tick.stage \notin {"gather", "act"} => tick.seen = NothingSeen
  /\ tick.stage \in {"valid", "locked", "gather"} =>
       /\ tick.since \in [Kinds -> Nat]
       /\ \A kind \in Kinds : left[kind] <= tick.since[kind]
       /\ left.columns = tick.since.columns => Preflight(world.provider, tick.config, columns)
  /\ tick.stage = "gather" =>
       /\ tick.reads \in Seq(SUBSET Buckets)
       /\ QuietSince(t, {"moves", "columns", "blanks"}) =>
            \A i \in Ids : Home(i) => SeesItem(t, i)

GatherInv == TagInv /\ ColumnsHold /\ \A t \in Ticks : GatherIsRight(t)

(* What a step of somebody else may do to what a gather reads.             *)
HomeDrift ==
  \A i \in Ids : Home(i)' =>
    Home(i) /\ (items'[i].native = items[i].native \/ left'.moves < left.moves)

ColumnsDrift == columns' = columns \/ left'.columns < left.columns

LEMMA OthersKeepGather ==
  ASSUME TagInv, NEW t \in Ticks, GatherIsRight(t), ticks'[t] = ticks[t], world' = world,
         LeftFalls, ColumnsDrift, ticks[t].stage = "gather" => HomeDrift
  PROVE  GatherIsRight(t)'
<1> DEFINE tick == ticks[t]
<1>0. \A kind \in Kinds : left[kind] \in Nat /\ left'[kind] \in Nat /\ left'[kind] <= left[kind]
  BY DEF LeftFalls, TagInv, BoardInv, WorldIsKept
<1>1. CASE tick.stage \notin {"valid", "locked", "gather"}
  BY <1>1 DEF GatherIsRight
<1>2. CASE tick.stage \in {"valid", "locked", "gather"}
  <2>1. /\ tick.since \in [Kinds -> Nat]
        /\ \A kind \in Kinds : left[kind] <= tick.since[kind]
        /\ left.columns = tick.since.columns => Preflight(world.provider, tick.config, columns)
    BY <1>2 DEF GatherIsRight
  <2>2. \A kind \in Kinds : /\ left'[kind] <= tick.since[kind]
                            /\ left'[kind] = tick.since[kind] => left'[kind] = left[kind]
    BY <1>0, <2>1
  <2>3. left'.columns = tick.since.columns => Preflight(world.provider, tick.config, columns')
    <3>1. ASSUME left'.columns = tick.since.columns
          PROVE  columns' = columns /\ left.columns = tick.since.columns
      BY <1>0, <2>2, <3>1 DEF ColumnsDrift, Kinds
    <3> QED
      BY <2>1, <3>1
  <2>4. ASSUME tick.stage = "gather", QuietSince(t, {"moves", "columns", "blanks"})'
        PROVE  \A i \in Ids : Home(i)' => SeesItem(t, i)'
    <3>1. \A kind \in {"moves", "columns", "blanks"} : left'[kind] = tick.since[kind]
      BY <2>4 DEF QuietSince
    <3>2. \A kind \in {"moves", "columns", "blanks"} : left'[kind] = left[kind]
      BY <2>2, <3>1 DEF Kinds
    <3>3. QuietSince(t, {"moves", "columns", "blanks"})
      BY <3>1, <3>2 DEF QuietSince
    <3>4. ~ (left'.moves < left.moves)
      BY <1>0, <3>2 DEF Kinds
    <3> TAKE i \in Ids
    <3> HAVE Home(i)'
    <3>5. Home(i) /\ items'[i].native = items[i].native
      BY <2>4, <3>4 DEF HomeDrift
    <3>6. SeesItem(t, i)
      BY <2>4, <3>3, <3>5 DEF GatherIsRight
    <3> QED
      BY <3>5, <3>6 DEF SeesItem
  <2> QED
    BY <1>2, <2>1, <2>2, <2>3, <2>4 DEF GatherIsRight
<1> QED
  BY <1>1, <1>2

(* People, creates and the operator.                                       *)
LEMMA DriftOfOthers ==
  ASSUME TagInv, ColumnsHold, Operator \/ People \/ Creates
  PROVE  HomeDrift /\ ColumnsDrift /\ ColumnsHold'
<1>0. /\ DOMAIN items = Ids /\ \A i \in Ids : DOMAIN items[i] = ItemFields
      /\ left \in [Kinds -> Nat]
  BY DEF TagInv, BoardInv, ItemsAreWhole, WorldIsKept
<1>1. ASSUME UNCHANGED <<world, columns, items>>
      PROVE  HomeDrift /\ ColumnsDrift /\ ColumnsHold'
  BY <1>1 DEF HomeDrift, ColumnsDrift, ColumnsHold, Home, OnBoard, OnAService
<1>2. CASE Operator
  <2>1. UNCHANGED <<world, columns, items>>
    BY <1>2 DEF Operator, EditToml, ClearRoot
  <2> QED
    BY <1>1, <2>1
<1>3. CASE EditColumns
  <2>1. /\ world' = world /\ items' = items
        /\ \A i \in OnBoard : items[i].native \in columns => items[i].native \in columns'
        /\ left'.columns < left.columns
    BY <1>0, <1>3, SpendFalls DEF EditColumns, Kinds
  <2> QED
    BY <2>1 DEF HomeDrift, ColumnsDrift, ColumnsHold, Home, OnBoard, OnAService
<1>4. ASSUME NEW i \in Ids, PersonMoves(i)
      PROVE  HomeDrift /\ ColumnsDrift /\ ColumnsHold'
  <2>1. PICK native \in Natives : items' = [items EXCEPT ![i].native = native]
    BY <1>4 DEF PersonMoves
  <2>2. /\ items[i].native # Absent /\ left'.moves < left.moves
        /\ world' = world /\ columns' = columns
    BY <1>0, <1>4, SpendFalls DEF PersonMoves, Kinds
  <2>3. /\ \A j \in Ids : items'[j].origin = items[j].origin
        /\ \A j \in Ids \ {i} : items'[j] = items[j]
        /\ items'[i].native = native
    BY <1>0, <2>1 DEF ItemFields
  <2>4. native \in columns \/ (world.provider = "github" /\ native \in ClosedNames)
    BY DEF Natives, ClosedNames
  <2> QED
    BY <2>2, <2>3, <2>4 DEF HomeDrift, ColumnsDrift, ColumnsHold, Home, OnBoard, OnAService
<1>5. ASSUME NEW i \in Ids, PersonTags(i)
      PROVE  HomeDrift /\ ColumnsDrift /\ ColumnsHold'
  <2>1. PICK tags : items' = [items EXCEPT ![i].tags = tags]
    BY <1>5 DEF PersonTags
  <2>2. world' = world /\ columns' = columns
    BY <1>5 DEF PersonTags
  <2>3. \A j \in Ids : items'[j].origin = items[j].origin /\ items'[j].native = items[j].native
    BY <1>0, <2>1 DEF ItemFields
  <2> QED
    BY <2>2, <2>3 DEF HomeDrift, ColumnsDrift, ColumnsHold, Home, OnBoard, OnAService
<1>6. ASSUME NEW p \in Creators, Write(p)
      PROVE  HomeDrift /\ ColumnsDrift /\ ColumnsHold'
  <2> DEFINE write == Head(creates[p].todo)
             id    == IF write.op = "create" THEN NextId ELSE creates[p].item
             item  == Written(items[id], write, p)
  <2>1. /\ id \in Ids /\ items' = [items EXCEPT ![id] = item]
        /\ world' = world /\ columns' = columns
    BY <1>6 DEF Write
  <2>2. DOMAIN items[id] = ItemFields
    BY <1>0, <2>1
  <2>3. item.origin = p
    <3>1. CASE write.op = "create"
      <4>1. item = [NewItem(Partial) EXCEPT !.origin = p]
        BY <3>1 DEF Written
      <4> QED
        BY <4>1 DEF NewItem
    <3>2. CASE write.op # "create"
      <4>1. id = creates[p].item /\ id # NoItem
        BY <2>1, <3>2, IdsAssumption
      <4>2. items[id].origin = p
        BY <4>1 DEF TagInv, BoardInv, CreatesAreKept
      <4>3. \/ item = [items[id] EXCEPT !.parent = write.to]
            \/ item = [items[id] EXCEPT !.predecessors = @ \cup {write.to}]
            \/ item = [items[id] EXCEPT !.native = creates[p].queued]
        BY <3>2 DEF Written
      <4> HIDE DEF item, id, write
      <4> QED
        BY <2>2, <4>2, <4>3 DEF ItemFields
    <3> QED
      BY <3>1, <3>2
  <2> HIDE DEF item, id
  <2>4. \A i \in Ids \ {id} : items'[i] = items[i]
    BY <1>0, <2>1
  <2>5. items'[id].origin # NoOrigin
    BY <1>0, <2>1, <2>3, IdsAssumption
  <2> QED
    BY <2>1, <2>4, <2>5 DEF HomeDrift, ColumnsDrift, ColumnsHold, Home, OnBoard, OnAService
<1>7. ASSUME NEW p \in Creators, Begin(p) \/ Peek(p) \/ Take(p) \/ CreatorDies(p)
      PROVE  UNCHANGED <<world, columns, items>>
  BY <1>7 DEF Begin, Peek, Take, CreatorDies
<1>8. CASE Arm
  BY <1>1, <1>8 DEF Arm
<1> QED
  BY <1>1, <1>2, <1>3, <1>4, <1>5, <1>6, <1>7, <1>8 DEF People, Creates, Create

(* A tick moves no item out of the columns of a service.                   *)
LEMMA TicksKeepColumns ==
  ASSUME TagInv, ColumnsHold, NEW t \in Ticks, Tick(t)
  PROVE  columns' = columns /\ ColumnsHold'
<1>0. /\ DOMAIN items = Ids /\ \A i \in Ids : DOMAIN items[i] = ItemFields
  BY DEF TagInv, BoardInv, ItemsAreWhole
<1>1. columns' = columns /\ world' = world
  BY DEF Tick, LoadConfig, ValidateConfig, TryLock, Stamp, ReadBuckets, Decide, EndTick, TickDies,
         Call, Absorbed, LookAtIssue, SetState, TagOne, ReadTags, PatchTags, VerifyTags,
         WriteClaimedAt, Launch, boardVars
<1>2. CASE items' = items
  BY <1>1, <1>2 DEF ColumnsHold, Home, OnBoard, OnAService
<1>3. ASSUME NEW i \in Ids, NEW tags, items' = [items EXCEPT ![i].tags = tags]
      PROVE  ColumnsHold'
  <2>1. \A j \in Ids : items'[j].origin = items[j].origin /\ items'[j].native = items[j].native
    BY <1>0, <1>3 DEF ItemFields
  <2> QED
    BY <1>1, <2>1 DEF ColumnsHold, Home, OnBoard, OnAService
<1>4. ASSUME NEW i \in Ids, SetState(t, i), items' # items
      PROVE  ColumnsHold'
  <2>1. PICK call \in DOMAIN Goal :
          LET status == FirstNative(ticks[t].config, Goal[call]) IN
          /\ StateCall(t, i, call)
          /\ world.provider = "fake" \/ status \in columns
          /\ items' = [items EXCEPT ![i].native = NativeAfter(@, status)]
    BY <1>4 DEF SetState
  <2> DEFINE native == NativeAfter(items[i].native, FirstNative(ticks[t].config, Goal[call]))
  <2>2. items[i].native # Absent
    BY <2>1, TurnIsOnBoard DEF StateCall, Committed
  <2>3. /\ \A j \in Ids : items'[j].origin = items[j].origin
        /\ \A j \in Ids \ {i} : items'[j] = items[j]
        /\ items'[i].native = native
    BY <1>0, <2>1 DEF ItemFields
  <2>4. native = items[i].native \/ native \in columns \/ world.provider = "fake"
    BY <2>1 DEF NativeAfter
  <2> HIDE DEF native
  <2> QED
    BY <1>1, <2>2, <2>3, <2>4 DEF ColumnsHold, Home, OnBoard, OnAService
<1>5. CASE \E i \in Ids : Call(t, i)
  <2>1. PICK i \in Ids : Call(t, i)
    BY <1>5
  <2>2. \/ items' = items
        \/ \E tags : items' = [items EXCEPT ![i].tags = tags]
        \/ SetState(t, i)
    BY <2>1 DEF Call, Absorbed, LookAtIssue, TagOne, ReadTags, PatchTags, VerifyTags,
                WriteClaimedAt, Launch, boardVars
  <2> QED
    BY <1>1, <1>2, <1>3, <1>4, <2>2
<1> QED
  BY <1>1, <1>2, <1>5 DEF Tick, LoadConfig, ValidateConfig, TryLock, Stamp, ReadBuckets, Decide,
                          EndTick, TickDies, boardVars

LEMMA AwaitedSplits ==
  ASSUME NEW reads \in Seq(SUBSET Buckets), reads # <<>>
  PROVE  /\ Tail(reads) \in Seq(SUBSET Buckets) /\ Head(reads) \in SUBSET Buckets
         /\ Awaited(reads) \subseteq Head(reads) \cup Awaited(Tail(reads))
<1>1. Len(reads) \in Nat /\ Len(reads) >= 1 /\ DOMAIN reads = 1..Len(reads)
  BY EmptySeq
<1>2. /\ Tail(reads) \in Seq(SUBSET Buckets) /\ Head(reads) \in SUBSET Buckets
      /\ Head(reads) = reads[1]
      /\ Len(Tail(reads)) = Len(reads) - 1
      /\ \A k \in 1..(Len(reads) - 1) : Tail(reads)[k] = reads[k + 1]
  BY <1>1
<1>3. DOMAIN Tail(reads) = 1..(Len(reads) - 1)
  BY <1>2
<1>4. ASSUME NEW k \in DOMAIN reads, k # 1
      PROVE  reads[k] \subseteq Awaited(Tail(reads))
  <2>1. k - 1 \in 1..(Len(reads) - 1) /\ (k - 1) + 1 = k
    BY <1>1, <1>4
  <2>2. Tail(reads)[k - 1] = reads[k]
    BY <1>2, <2>1
  <2> QED
    BY <1>3, <2>1, <2>2 DEF Awaited
<1>5. \A k \in DOMAIN reads : reads[k] \subseteq Head(reads) \cup Awaited(Tail(reads))
  BY <1>2, <1>4
<1> QED
  BY <1>2, <1>5 DEF Awaited

LEMMA ListsAreAwaited ==
  /\ Lists \in Seq(SUBSET Buckets)
  /\ Buckets \subseteq Awaited(Lists)
<1> DEFINE four == <<{"done"}, {"active"}, {"queued"}, {"withdrawn"}>>
<1>1. /\ four \in Seq(SUBSET Buckets) /\ DOMAIN four = 1..4
      /\ four[1] = {"done"} /\ four[2] = {"active"}
      /\ four[3] = {"queued"} /\ four[4] = {"withdrawn"}
  BY DEF Buckets
<1>2. /\ <<Buckets>> \in Seq(SUBSET Buckets) /\ DOMAIN <<Buckets>> = 1..1
      /\ <<Buckets>>[1] = Buckets
  OBVIOUS
<1>3. Buckets \subseteq Awaited(<<Buckets>>)
  BY <1>2 DEF Awaited
<1> HIDE DEF four
<1>4. /\ {"done"} \subseteq Awaited(four) /\ {"active"} \subseteq Awaited(four)
      /\ {"queued"} \subseteq Awaited(four) /\ {"withdrawn"} \subseteq Awaited(four)
  BY <1>1 DEF Awaited
<1>5. Buckets \subseteq Awaited(four)
  BY <1>4 DEF Buckets
<1> QED
  BY <1>1, <1>2, <1>3, <1>5 DEF Lists, four

(* The buckets of one name: one.                                           *)
LEMMA OneBucket ==
  ASSUME TagInv, NEW t \in Ticks, Loaded(t), NEW native
  PROVE  /\ \A b, c : native \in Names(ticks[t].config.states, b)
                        /\ native \in Names(ticks[t].config.states, c) => b = c
         /\ native \in Mapped(ticks[t].config.states) =>
              \E b \in Buckets : native \in Names(ticks[t].config.states, b)
         /\ ticks[t].config.provider = world.provider
<1>1. PICK raw \in world.tomls : /\ ConfigIsSound(world.provider, raw)
                                 /\ ticks[t].config = Config(world.provider, raw)
  BY DEF TagInv, TickInv, ConfigIsRead
<1>2. /\ ticks[t].config.states = ResolvedStates(world.provider, raw)
      /\ ticks[t].config.provider = world.provider
  BY <1>1 DEF Config
<1>3. DOMAIN ResolvedStates(world.provider, raw) \subseteq Buckets
  BY <1>1, NativesAssumption DEF TagInv, BoardInv, WorldIsKept
<1>4. StatesAreSound(ResolvedStates(world.provider, raw))
  BY <1>1 DEF ConfigIsSound
<1> DEFINE states == ResolvedStates(world.provider, raw)
<1> HIDE DEF states
<1>5. \A b, c : native \in Names(states, b) /\ native \in Names(states, c) => b = c
  <2>1. \A b : native \in Names(states, b) => b \in DOMAIN states
    BY DEF Names
  <2> QED
    BY <1>4, <2>1 DEF StatesAreSound, states
<1>6. native \in Mapped(states) => \E b \in DOMAIN states : native \in Names(states, b)
  BY DEF Mapped
<1> QED
  BY <1>2, <1>3, <1>5, <1>6 DEF states

(* A list that is read notes each item of its buckets.                     *)
LEMMA ReadKeepsGather ==
  ASSUME GatherInv, NEW t \in Ticks, ReadBuckets(t)
  PROVE  GatherIsRight(t)'
<1> DEFINE old == ticks[t]
<1>1. /\ UNCHANGED <<world, columns, items>>
      /\ old.stage = "gather" /\ old.reads # <<>> /\ LeftFalls
      /\ DOMAIN old = Fields /\ Loaded(t)
  BY SpendFalls, StayFalls
  DEF ReadBuckets, At, Kinds, Loaded, GatherInv, TagInv, BoardInv, WorldIsKept, EInv,
      TicksAreRecords
<1>2. PICK found :
        /\ Moves(t, Notes(t, found))
        /\ \/ found = [i \in Ids |-> Answer(old.config, Head(old.reads), i)]
           \/ Spend("blanks")
  BY DEF ReadBuckets
<1> DEFINE new == Notes(t, found)
<1>3. ticks'[t] = new
  BY <1>2, MovesOne DEF GatherInv, TagInv, EInv
<1>4. /\ new.stage = "gather" /\ new.config = old.config /\ new.since = old.since
      /\ new.reads = Tail(old.reads)
      /\ new.seen = [i \in Ids |->
           IF found[i] = {} THEN old.seen[i]
             ELSE [bucket |-> CHOOSE b \in found[i] : TRUE, tags |-> items[i].tags]]
  BY <1>1 DEF Notes, Fields
<1> HIDE DEF new
<1>5. /\ old.since \in [Kinds -> Nat]
      /\ \A kind \in Kinds : left[kind] <= old.since[kind]
      /\ left.columns = old.since.columns => Preflight(world.provider, old.config, columns)
      /\ old.reads \in Seq(SUBSET Buckets)
  BY <1>1 DEF GatherInv, GatherIsRight
<1>6. \A kind \in Kinds : left[kind] \in Nat /\ left'[kind] \in Nat /\ left'[kind] <= left[kind]
  BY <1>1 DEF LeftFalls, GatherInv, TagInv, BoardInv, WorldIsKept
<1>7. \A kind \in Kinds : /\ left'[kind] <= old.since[kind]
                          /\ left'[kind] = old.since[kind] => left'[kind] = left[kind]
  BY <1>5, <1>6
<1>8. left'.columns = old.since.columns => Preflight(world.provider, old.config, columns)
  BY <1>5, <1>7 DEF Kinds
<1>9. /\ Tail(old.reads) \in Seq(SUBSET Buckets) /\ Head(old.reads) \in SUBSET Buckets
      /\ Awaited(old.reads) \subseteq Head(old.reads) \cup Awaited(Tail(old.reads))
  BY <1>1, <1>5, AwaitedSplits
<1>10. ASSUME QuietSince(t, {"moves", "columns", "blanks"})', NEW i \in Ids, Home(i)'
       PROVE  SeesItem(t, i)'
  <2>1. \A kind \in {"moves", "columns", "blanks"} : left'[kind] = old.since[kind]
    BY <1>3, <1>4, <1>10 DEF QuietSince
  <2>2. \A kind \in {"moves", "columns", "blanks"} : left'[kind] = left[kind]
    BY <1>7, <2>1 DEF Kinds
  <2>3. QuietSince(t, {"moves", "columns", "blanks"})
    BY <2>1, <2>2 DEF QuietSince
  <2>4. ~ Spend("blanks")
    <3>1. left'.blanks = left.blanks /\ left.blanks \in Nat /\ left \in [Kinds -> Nat]
      BY <1>6, <2>2 DEF Kinds, GatherInv, TagInv, BoardInv, WorldIsKept
    <3> QED
      BY <3>1, SpendFalls DEF Kinds
  <2>5. found[i] = Answer(old.config, Head(old.reads), i)
    BY <1>2, <2>4
  <2>6. Home(i) /\ SeesItem(t, i)
    <3>1. Home(i)
      BY <1>1, <1>10 DEF Home, OnBoard
    <3> QED
      BY <1>1, <2>3, <3>1 DEF GatherInv, GatherIsRight
  <2>7. ASSUME NEW b \in Buckets, items[i].native \in Names(old.config.states, b)
        PROVE  /\ new.seen[i] = Unseen \/ new.seen[i].bucket = b
               /\ b \notin Awaited(new.reads) =>
                    \/ new.seen[i].bucket = b
                    \/ b = "withdrawn"
                    \/ ~ In(old.config, items[i].native, b)
    <3>1. \A c \in found[i] : c = b
      BY <1>1, <2>5, <2>7, OneBucket DEF Answer, In, GatherInv
    <3>2. /\ old.seen[i] = Unseen \/ old.seen[i].bucket = b
          /\ b \notin Awaited(old.reads) =>
               old.seen[i].bucket = b \/ b = "withdrawn" \/ ~ In(old.config, items[i].native, b)
      BY <2>6, <2>7 DEF SeesItem
    <3>3. CASE found[i] = {}
      <4>1. new.seen[i] = old.seen[i]
        BY <1>4, <3>3
      <4>2. b \in Head(old.reads) => b = "withdrawn" \/ ~ In(old.config, items[i].native, b)
        BY <2>5, <3>3 DEF Answer
      <4> QED
        BY <1>4, <1>9, <3>2, <4>1, <4>2
    <3>4. CASE found[i] # {}
      <4>1. (CHOOSE c \in found[i] : TRUE) \in found[i]
        BY <3>4
      <4>2. new.seen[i].bucket = b
        BY <1>4, <3>1, <3>4, <4>1
      <4> QED
        BY <4>2
    <3> QED
      BY <3>3, <3>4
  <2> QED
    BY <1>1, <1>3, <1>4, <2>7 DEF SeesItem
<1> QED
  BY <1>1, <1>3, <1>4, <1>5, <1>7, <1>8, <1>9, <1>10 DEF GatherIsRight

LEMMA OwnStepKeepsGather ==
  ASSUME GatherInv, NEW t \in Ticks, Tick(t)
  PROVE  GatherIsRight(t)'
<1> DEFINE old == ticks[t]
<1>0. /\ DOMAIN old = Fields /\ GatherIsRight(t)
      /\ \A tick : Moves(t, tick) => ticks'[t] = tick
  BY MovesOne DEF GatherInv, TagInv, EInv, TicksAreRecords
<1>1. ASSUME ticks'[t] = Off
      PROVE  GatherIsRight(t)'
  BY <1>1 DEF GatherIsRight, Off
<1>2. ASSUME ticks'[t].stage = "act"
      PROVE  GatherIsRight(t)'
  BY <1>2 DEF GatherIsRight
<1>3. CASE LoadConfig(t)
  <2>1. PICK dry \in world.dry :
          ticks'[t] = [Off EXCEPT !.stage = "loaded", !.dry = dry,
                                  !.config = Config(world.provider, toml)]
    BY <1>0, <1>3 DEF LoadConfig
  <2>2. ticks'[t].stage = "loaded" /\ ticks'[t].seen = NothingSeen
    BY <2>1 DEF Off
  <2> QED
    BY <2>2 DEF GatherIsRight
<1>4. CASE ValidateConfig(t)
  <2>1. /\ UNCHANGED boardVars /\ old.stage = "loaded" /\ left \in [Kinds -> Nat]
        /\ old.seen = NothingSeen
    BY <1>0, <1>4 DEF ValidateConfig, At, GatherInv, TagInv, BoardInv, WorldIsKept, GatherIsRight
  <2>2. CASE ticks'[t] # Off
    <3>1. /\ ticks'[t] = [old EXCEPT !.stage = "valid", !.since = left]
          /\ Preflight(world.provider, old.config, columns)
      BY <1>0, <1>4, <2>2 DEF ValidateConfig
    <3>2. /\ ticks'[t].stage = "valid" /\ ticks'[t].since = left
          /\ ticks'[t].seen = old.seen /\ ticks'[t].config = old.config
      BY <1>0, <3>1 DEF Fields
    <3>3. left' = left /\ world' = world /\ columns' = columns
      BY <2>1 DEF boardVars
    <3>4. \A kind \in Kinds : left[kind] <= left[kind]
      BY <2>1
    <3> QED
      BY <2>1, <3>1, <3>2, <3>3, <3>4 DEF GatherIsRight
  <2> QED
    BY <1>1, <2>2
<1>5. CASE TryLock(t)
  <2>1. left' = left /\ world' = world /\ columns' = columns /\ old.stage = "valid"
    BY <1>5 DEF TryLock, boardVars, At
  <2>2. CASE ticks'[t] # Off
    <3>1. ticks'[t] = [old EXCEPT !.stage = "locked"]
      BY <1>0, <1>5, <2>2 DEF TryLock
    <3>2. /\ ticks'[t].stage = "locked" /\ ticks'[t].since = old.since
          /\ ticks'[t].seen = old.seen /\ ticks'[t].config = old.config
      BY <1>0, <3>1 DEF Fields
    <3> QED
      BY <1>0, <2>1, <3>2 DEF GatherIsRight
  <2> QED
    BY <1>1, <2>2
<1>6. CASE Stamp(t)
  <2>1. left' = left /\ world' = world /\ columns' = columns /\ old.stage = "locked"
    BY <1>6 DEF Stamp, boardVars, At
  <2>2. CASE ticks'[t] # Off
    <3>1. ticks'[t] = [old EXCEPT !.stage = "gather", !.reads = Lists]
      BY <1>0, <1>6, <2>2 DEF Stamp, Exits
    <3>2. /\ ticks'[t].stage = "gather" /\ ticks'[t].since = old.since
          /\ ticks'[t].seen = NothingSeen /\ ticks'[t].config = old.config
          /\ ticks'[t].reads = Lists
      BY <1>0, <2>1, <3>1 DEF Fields, GatherIsRight
    <3>3. \A i \in Ids : NothingSeen[i] = Unseen
      BY DEF NothingSeen
    <3>4. \A i \in Ids : SeesItem(t, i)'
      BY <3>2, <3>3, ListsAreAwaited DEF SeesItem
    <3> QED
      BY <1>0, <2>1, <3>2, <3>4, ListsAreAwaited DEF GatherIsRight
  <2> QED
    BY <1>1, <2>2
<1>7. CASE ReadBuckets(t)
  BY <1>7, ReadKeepsGather
<1>8. CASE Decide(t)
  <2>1. CASE ticks'[t] # Off
    <3>1. PICK plan : ticks'[t] = [old EXCEPT !.stage = "act", !.plan = plan]
      BY <1>0, <1>8, <2>1 DEF Decide, BlankStateRaises, Exits
    <3>2. ticks'[t].stage = "act"
      BY <1>0, <3>1 DEF Fields
    <3> QED
      BY <1>2, <3>2
  <2> QED
    BY <1>1, <2>1
<1>9. CASE EndTick(t) \/ TickDies(t)
  BY <1>0, <1>1, <1>9 DEF EndTick, TickDies, Exits
<1>10. ASSUME NEW i \in Ids, Call(t, i)
       PROVE  GatherIsRight(t)'
  <2>1. old.stage = "act"
    BY <1>10 DEF Call, Absorbed, LookAtIssue, SetState, TagOne, ReadTags, PatchTags, VerifyTags,
                 WriteClaimedAt, Launch, StateCall, TagCall, Turn, At
  <2>2. \/ Exits(t)
        \/ \E since : DoneSince(t, i, since)
        \/ \E q : Moves(t, [old EXCEPT !.plan[i] = q])
        \/ \E io, read, since :
             \/ Moves(t, [old EXCEPT !.io = io, !.since = since])
             \/ Moves(t, [old EXCEPT !.io = io, !.read = read])
             \/ Moves(t, [old EXCEPT !.io = io, !.read = read, !.since = since])
    <3>1. CASE Absorbed(t, i) \/ TagOne(t, i) \/ WriteClaimedAt(t, i) \/ Launch(t, i)
      BY <3>1 DEF Absorbed, TagOne, WriteClaimedAt, Launch, Done
    <3>2. CASE LookAtIssue(t, i)
      BY <3>2 DEF LookAtIssue, GivenUp
    <3>3. CASE SetState(t, i) \/ VerifyTags(t, i)
      BY <3>3 DEF SetState, VerifyTags, Done
    <3>4. CASE ReadTags(t, i)
      BY <3>4 DEF ReadTags, Done
    <3>5. CASE PatchTags(t, i)
      <4>1. PICK call, read : /\ Moves(t, [old EXCEPT !.io = "verify", !.read = read])
        BY <3>5 DEF PatchTags
      <4> QED
        BY <4>1
    <3> QED
      BY <1>10, <3>1, <3>2, <3>3, <3>4, <3>5 DEF Call
  <2>3. ticks'[t] = Off \/ ticks'[t].stage = "act"
    BY <1>0, <2>1, <2>2 DEF DoneSince, Exits, Fields
  <2> QED
    BY <1>1, <1>2, <2>3
<1> QED
  BY <1>3, <1>4, <1>5, <1>6, <1>7, <1>8, <1>9, <1>10 DEF Tick

LEMMA NextKeepsGatherInv ==
  ASSUME GatherInv, [Next]_entryVars
  PROVE  GatherInv'
<1>0. TagInv /\ TagInv' /\ ColumnsHold
  BY NextKeepsTagInv DEF GatherInv
<1>1. ASSUME ticks' = ticks, world' = world, LeftFalls, HomeDrift, ColumnsDrift
      PROVE  \A t \in Ticks : GatherIsRight(t)'
  BY <1>0, <1>1, OthersKeepGather DEF GatherInv
<1>2. ASSUME NEW t \in Ticks, Tick(t)
      PROVE  GatherInv'
  <2>1. columns' = columns /\ ColumnsHold'
    BY <1>0, <1>2, TicksKeepColumns
  <2>2. /\ LeftFalls /\ world' = world
        /\ ticks[t].stage # "act" => items' = items
    BY <1>0, <1>2, TickKeepsTags DEF CallResult
  <2>3. GatherIsRight(t)'
    BY <1>2, OwnStepKeepsGather
  <2>4. ASSUME NEW u \in Ticks \ {t}
        PROVE  GatherIsRight(u)'
    <3>1. ticks'[u] = ticks[u]
      BY <1>0, <1>2, <2>4, TickKeepsStates DEF TagInv, EInv, TicksAreRecords, BoardInv,
           ItemsAreWhole, ItemFields, BInv, ItemsHaveStates
    <3>2. ASSUME ticks[u].stage = "gather"
          PROVE  HomeDrift
      <4>1. ticks[t].stage # "act"
        BY <1>0, <2>4, <3>2 DEF TagInv, EInv, LockIsHeld
      <4>2. items' = items
        BY <2>2, <4>1
      <4> QED
        BY <4>2 DEF HomeDrift, Home, OnBoard
    <3>3. ColumnsDrift /\ GatherIsRight(u)
      BY <2>1, <2>4 DEF ColumnsDrift, GatherInv
    <3> QED
      BY <1>0, <2>2, <2>4, <3>1, <3>2, <3>3, OthersKeepGather
  <2> QED
    BY <1>0, <2>1, <2>3, <2>4 DEF GatherInv
<1>3. CASE Operator \/ ((People \/ Creates) /\ UNCHANGED <<root, ticks>>)
  <2>1. HomeDrift /\ ColumnsDrift /\ ColumnsHold'
    BY <1>0, <1>3, DriftOfOthers
  <2>2. LeftFalls /\ world' = world /\ ticks' = ticks
    BY <1>0, <1>3, OperatorDrifts, PeopleDrift, CreatesDrift DEF TagInv
  <2> QED
    BY <1>0, <1>1, <2>1, <2>2 DEF GatherInv
<1>4. CASE UNCHANGED entryVars
  <2>1. UNCHANGED <<world, columns, items, left, ticks>>
    BY <1>4 DEF entryVars, boardVars
  <2>2. HomeDrift /\ ColumnsDrift /\ ColumnsHold' /\ LeftFalls
    BY <1>0, <2>1, StayFalls DEF HomeDrift, ColumnsDrift, ColumnsHold, Home, OnBoard, OnAService,
                                 TagInv, BoardInv, WorldIsKept
  <2> QED
    BY <1>0, <1>1, <2>1, <2>2 DEF GatherInv
<1> QED
  BY <1>2, <1>3, <1>4 DEF Next

LEMMA InitHasGatherInv ==
  ASSUME Init
  PROVE  GatherInv
<1>1. PICK w \in Worlds : InitialBoard(w)
  BY DEF Init
<1>2. ColumnsHold
  <2>1. world = w /\ columns = w.columns /\ items \in w.items
    BY <1>1 DEF InitialBoard
  <2>2. /\ w.provider = "ado" => \A i \in Ids : items[i].native \in {Absent} \cup columns
        /\ w.provider = "github" =>
             \A i \in Ids : items[i].native \in {Absent} \cup columns \cup ClosedNames
    BY <2>1, BoardsAssumption
  <2> QED
    BY <2>1, <2>2 DEF ColumnsHold, OnAService, Home, OnBoard
<1>3. \A t \in Ticks : ticks[t] = Off
  BY DEF Init
<1>4. \A t \in Ticks : GatherIsRight(t)
  BY <1>3 DEF GatherIsRight, Off
<1> QED
  BY <1>2, <1>4, InitHasTagInv DEF GatherInv

(* The bucket of an item that stands in a column or is closed, on a board  *)
(* that its configuration resolves.                                        *)
LEMMA HomeHasBucket ==
  ASSUME GatherInv, NEW t \in Ticks, Loaded(t), OnAService, NEW i \in Ids, Home(i),
         Preflight(world.provider, ticks[t].config, columns)
  PROVE  \E b \in Buckets :
           /\ \A c \in Buckets : items[i].native \in Names(ticks[t].config.states, c) <=> c = b
           /\ ~ In(ticks[t].config, items[i].native, b) =>
                b = "done" /\ items[i].native \in columns /\ world.provider = "github"
<1> DEFINE config == ticks[t].config
           native == items[i].native
<1>1. native \in columns \/ (world.provider = "github" /\ native \in ClosedNames)
  BY DEF GatherInv, ColumnsHold
<1>2. native \in Mapped(config.states)
  BY <1>1 DEF Preflight, Resolves, GitHubResolves, OnAService
<1>3. PICK b \in Buckets : native \in Names(config.states, b)
  BY <1>2, OneBucket DEF GatherInv
<1>4. \A c \in Buckets : native \in Names(config.states, c) <=> c = b
  BY <1>3, OneBucket DEF GatherInv
<1>5. config.provider = world.provider
  BY OneBucket DEF GatherInv
<1>6. ~ In(config, native, b) => b = "done" /\ native \in columns /\ world.provider = "github"
  BY <1>1, <1>3, <1>5 DEF In
<1> QED
  BY <1>4, <1>6

(* validate_config, _gather, items_in_state: on Azure DevOps and on GitHub *)
(* a tick that decides has every item that no create made in the bucket    *)
(* its column maps to, if nobody moved an item or edited the columns since *)
(* its preflight and no answer was blank; whatever configuration it read,  *)
(* whatever other ticks and creates did before, and whoever wrote tags.    *)
THEOREM GathersSeeTheBoard == OnAService /\ Spec => GatherSeesTheBoard
<1>1. Init => GatherInv
  BY InitHasGatherInv
<1>2. GatherInv /\ [Next]_entryVars => GatherInv'
  BY NextKeepsGatherInv
<1>3. GatherInv /\ OnAService /\ [Next]_entryVars => OnAService'
  <2> SUFFICES ASSUME GatherInv, OnAService, [Next]_entryVars
               PROVE  world' = world
    BY DEF OnAService
  <2>1. CASE \E t \in Ticks : Tick(t)
    BY <2>1, TickKeepsTags DEF CallResult, GatherInv
  <2>2. CASE Operator \/ People \/ Creates
    BY <2>2, OperatorDrifts, PeopleDrift, CreatesDrift DEF GatherInv, TagInv
  <2> QED
    BY <2>1, <2>2 DEF Next, entryVars, boardVars
<1>4. ASSUME GatherInv, OnAService, [Next]_entryVars, NEW t \in Ticks, NEW i \in OnBoard,
             At(t, "gather"), ticks[t].reads = <<>>, ticks'[t].stage = "act",
             QuietSince(t, {"moves", "columns", "blanks"}), items[i].origin = NoOrigin
      PROVE  \E b \in Buckets :
               /\ \A c \in Buckets :
                    items[i].native \in Names(ticks[t].config.states, c) <=> c = b
               /\ \/ ticks[t].seen[i].bucket = b
                  \/ b = "withdrawn" /\ ClaimTag(ticks[t].config) \notin ticks[t].seen[i].tags
                  \/ b = "done" /\ items[i].native \in columns /\ world.provider = "github"
  <2>1. Loaded(t) /\ ticks[t].stage = "gather" /\ i \in Ids /\ Home(i)
    BY <1>4 DEF At, Loaded, Home, OnBoard
  <2>2. /\ Preflight(world.provider, ticks[t].config, columns)
        /\ SeesItem(t, i)
    BY <1>4, <2>1 DEF GatherInv, GatherIsRight, QuietSince, Kinds
  <2>3. PICK b \in Buckets :
          /\ \A c \in Buckets : items[i].native \in Names(ticks[t].config.states, c) <=> c = b
          /\ ~ In(ticks[t].config, items[i].native, b) =>
               b = "done" /\ items[i].native \in columns /\ world.provider = "github"
    BY <1>4, <2>1, <2>2, HomeHasBucket
  <2>4. b \notin Awaited(ticks[t].reads)
    <3>1. DOMAIN <<>> = {}
      OBVIOUS
    <3> QED
      BY <1>4, <3>1 DEF Awaited
  <2>5. /\ ticks[t].seen[i] = Unseen \/ ticks[t].seen[i].bucket = b
        /\ \/ ticks[t].seen[i].bucket = b
           \/ b = "withdrawn"
           \/ ~ In(ticks[t].config, items[i].native, b)
    BY <2>2, <2>3, <2>4 DEF SeesItem
  <2>6. ClaimTag(ticks[t].config) \notin Unseen.tags
    BY DEF Unseen
  <2> QED
    BY <2>3, <2>5, <2>6
<1>5. GatherInv /\ OnAService /\ [Next]_entryVars =>
        (\A t \in Ticks : \A i \in OnBoard :
           LET config == ticks[t].config
               seen   == ticks[t].seen[i]
               native == items[i].native
           IN  /\ At(t, "gather") /\ ticks[t].reads = <<>> /\ ticks'[t].stage = "act"
               /\ QuietSince(t, {"moves", "columns", "blanks"})
               /\ items[i].origin = NoOrigin
               => \E b \in Buckets :
                    /\ \A c \in Buckets : native \in Names(config.states, c) <=> c = b
                    /\ \/ seen.bucket = b
                       \/ b = "withdrawn" /\ ClaimTag(config) \notin seen.tags
                       \/ b = "done" /\ native \in columns /\ world.provider = "github")
  BY <1>4
<1> QED
  BY <1>1, <1>2, <1>3, <1>5, PTL DEF Spec, GatherSeesTheBoard

-----------------------------------------------------------------------------
(* The writes of a create.                                                 *)

LinksOf(r) == Range(r.predecessors)

CommitWrite == WriteOf("commit", NoItem)

LinkWrites(r) ==
  {WriteOf("parent", r.parent)} \cup {WriteOf("predecessor", link) : link \in LinksOf(r)}

(* Links of the request, and then, last and once, the commit.              *)
EndsInCommit(todo, r) ==
  /\ todo \in Seq(LinkWrites(r) \cup {CommitWrite}) /\ todo # <<>>
  /\ \A k \in DOMAIN todo : todo[k] = CommitWrite <=> k = Len(todo)

LEMMA RangeOfConcat ==
  ASSUME NEW S, NEW s \in Seq(S), NEW q \in Seq(S)
  PROVE  s \o q \in Seq(S) /\ Range(s \o q) = Range(s) \cup Range(q)
<1>1. /\ Len(s) \in Nat /\ Len(q) \in Nat
      /\ DOMAIN s = 1..Len(s) /\ DOMAIN q = 1..Len(q)
  BY LenProperties
<1>2. /\ s \o q \in Seq(S) /\ Len(s \o q) = Len(s) + Len(q)
      /\ \A i \in 1..(Len(s) + Len(q)) :
           (s \o q)[i] = IF i <= Len(s) THEN s[i] ELSE q[i - Len(s)]
  BY ConcatProperties
<1>3. DOMAIN (s \o q) = 1..(Len(s) + Len(q))
  BY <1>2, LenProperties
<1> DEFINE sq == s \o q
<1> HIDE DEF sq
<1>4. Range(sq) \subseteq Range(s) \cup Range(q)
  <2> SUFFICES ASSUME NEW i \in DOMAIN sq
               PROVE  sq[i] \in Range(s) \cup Range(q)
    BY DEF Range
  <2>1. CASE i <= Len(s)
    BY <1>1, <1>2, <1>3, <2>1 DEF Range, sq
  <2>2. CASE ~ (i <= Len(s))
    <3>1. i - Len(s) \in 1..Len(q)
      BY <1>1, <1>3, <2>2 DEF sq
    <3> QED
      BY <1>1, <1>2, <1>3, <2>2, <3>1 DEF Range, sq
  <2> QED
    BY <2>1, <2>2
<1>5. Range(s) \subseteq Range(sq)
  <2> SUFFICES ASSUME NEW i \in DOMAIN s
               PROVE  s[i] \in Range(sq)
    BY DEF Range
  <2>1. i \in 1..(Len(s) + Len(q)) /\ i <= Len(s)
    BY <1>1
  <2> QED
    BY <1>2, <1>3, <2>1 DEF Range, sq
<1>6. Range(q) \subseteq Range(sq)
  <2> SUFFICES ASSUME NEW i \in DOMAIN q
               PROVE  q[i] \in Range(sq)
    BY DEF Range
  <2>1. /\ i + Len(s) \in 1..(Len(s) + Len(q)) /\ ~ (i + Len(s) <= Len(s))
        /\ (i + Len(s)) - Len(s) = i
    BY <1>1
  <2> QED
    BY <1>2, <1>3, <2>1 DEF Range, sq
<1> QED
  BY <1>2, <1>4, <1>5, <1>6 DEF sq

LEMMA CommitIsLast ==
  ASSUME NEW r, NEW q \in Seq(LinkWrites(r))
  PROVE  /\ EndsInCommit(q \o Commitment, r)
         /\ Range(q \o Commitment) = Range(q) \cup {CommitWrite}
<1> DEFINE S == LinkWrites(r) \cup {CommitWrite}
           todo == q \o Commitment
<1>1. q \in Seq(S) /\ Len(q) \in Nat /\ DOMAIN q = 1..Len(q)
  BY SeqMonotonic, LenProperties
<1>2. /\ Commitment \in Seq(S) /\ Len(Commitment) = 1
      /\ Commitment[1] = CommitWrite /\ DOMAIN Commitment = 1..1
  BY DEF Commitment, CommitWrite
<1>3. CommitWrite \notin LinkWrites(r)
  BY DEF CommitWrite, LinkWrites, WriteOf
<1>4. /\ todo \in Seq(S) /\ Len(todo) = Len(q) + 1
      /\ \A i \in 1..(Len(q) + 1) :
           todo[i] = IF i <= Len(q) THEN q[i] ELSE Commitment[i - Len(q)]
  <2> HIDE DEF S
  <2>1. /\ q \o Commitment \in Seq(S) /\ Len(q \o Commitment) = Len(q) + Len(Commitment)
        /\ \A i \in 1..(Len(q) + Len(Commitment)) :
             (q \o Commitment)[i] = IF i <= Len(q) THEN q[i] ELSE Commitment[i - Len(q)]
    BY <1>1, <1>2, ConcatProperties, Zenon
  <2> QED
    BY <1>2, <2>1, Zenon
<1> HIDE DEF todo
<1>5. DOMAIN todo = 1..(Len(q) + 1) /\ todo # <<>>
  <2>1. DOMAIN todo = 1..(Len(q) + 1)
    BY <1>4, LenProperties
  <2>2. Len(<<>>) = 0
    BY EmptySeq
  <2> QED
    BY <1>1, <1>4, <2>1, <2>2
<1>6. ASSUME NEW k \in DOMAIN todo
      PROVE  todo[k] = CommitWrite <=> k = Len(todo)
  <2>1. CASE k <= Len(q)
    <3>1. k \in 1..Len(q) /\ k # Len(todo)
      BY <1>1, <1>4, <1>5, <2>1
    <3>2. q[k] \in LinkWrites(r)
      BY <3>1, ElementOfSeq
    <3> QED
      BY <1>3, <1>4, <1>5, <2>1, <3>1, <3>2
  <2>2. CASE ~ (k <= Len(q))
    <3>1. k = Len(q) + 1 /\ k - Len(q) = 1
      BY <1>1, <1>5, <2>2
    <3> QED
      BY <1>2, <1>4, <1>5, <2>2, <3>1
  <2> QED
    BY <2>1, <2>2
<1>7. Range(todo) = Range(q) \cup Range(Commitment)
  BY <1>1, <1>2, RangeOfConcat DEF todo
<1>8. Range(Commitment) = {CommitWrite}
  BY <1>2 DEF Range
<1> QED
  BY <1>4, <1>5, <1>6, <1>7, <1>8 DEF EndsInCommit, todo

LEMMA LinksAreWrites ==
  ASSUME NEW r, NEW links \in Seq(LinksOf(r))
  PROVE  /\ PredecessorLinks(links) \in Seq(LinkWrites(r))
         /\ Range(PredecessorLinks(links)) = {WriteOf("predecessor", link) : link \in Range(links)}
         /\ ParentLink(r) \in Seq(LinkWrites(r))
         /\ Range(ParentLink(r)) = {WriteOf("parent", r.parent)}
<1>1. Len(links) \in Nat /\ DOMAIN links = 1..Len(links)
  BY LenProperties
<1>2. \A k \in 1..Len(links) : links[k] \in LinksOf(r)
  BY ElementOfSeq
<1>3. \A k \in 1..Len(links) : WriteOf("predecessor", links[k]) \in LinkWrites(r)
  BY <1>2 DEF LinkWrites
<1>4. PredecessorLinks(links) = [k \in 1..Len(links) |-> WriteOf("predecessor", links[k])]
  BY <1>1 DEF PredecessorLinks
<1>5. [k \in 1..Len(links) |-> WriteOf("predecessor", links[k])] \in Seq(LinkWrites(r))
  BY <1>1, <1>3, IsASeq
<1>6. Range(PredecessorLinks(links)) = {WriteOf("predecessor", link) : link \in Range(links)}
  BY <1>1 DEF PredecessorLinks, Range
<1>7. /\ ParentLink(r) \in Seq(LinkWrites(r)) /\ DOMAIN ParentLink(r) = 1..1
      /\ ParentLink(r)[1] = WriteOf("parent", r.parent)
  BY DEF ParentLink, LinkWrites
<1>8. Range(ParentLink(r)) = {WriteOf("parent", r.parent)}
  BY <1>7 DEF Range
<1> QED
  BY <1>4, <1>5, <1>6, <1>7, <1>8

(* A finite set of numbers, counted off in order.                          *)
LEMMA RanksAreOnto ==
  ASSUME NEW at \in SUBSET Nat, IsFiniteSet(at)
  PROVE  LET rank(k) == Cardinality({j \in at : j <= k}) IN
         /\ Cardinality(at) \in Nat
         /\ \A k \in at : rank(k) \in 1..Cardinality(at)
         /\ \A k, m \in at : rank(k) = rank(m) => k = m
         /\ \A n \in 1..Cardinality(at) : \E k \in at : rank(k) = n
<1> DEFINE upto(k) == {j \in at : j <= k}
           rank(k) == Cardinality(upto(k))
           N == Cardinality(at)
           f == [k \in at |-> rank(k)]
<1>1. N \in Nat
  BY FS_CardinalityType
<1>2. ASSUME NEW k \in at
      PROVE  IsFiniteSet(upto(k)) /\ rank(k) \in 1..N
  <2>1. upto(k) \in SUBSET at /\ k \in upto(k)
    OBVIOUS
  <2>2. IsFiniteSet(upto(k)) /\ rank(k) <= N
    BY <2>1, FS_Subset
  <2>3. rank(k) \in Nat /\ rank(k) # 0
    BY <2>1, <2>2, FS_EmptySet, FS_CardinalityType
  <2> HIDE DEF rank, N
  <2> QED
    BY <1>1, <2>2, <2>3
<1>3. ASSUME NEW k \in at, NEW m \in at, k < m
      PROVE  rank(k) # rank(m)
  <2>1. upto(k) \in SUBSET upto(m) /\ m \in upto(m) /\ m \notin upto(k)
    <3>1. k \in Nat /\ m \in Nat /\ \A j \in at : j \in Nat
      OBVIOUS
    <3>2. \A j \in at : j <= k => j <= m
      BY <1>3, <3>1
    <3>3. m <= m /\ ~ (m <= k)
      BY <1>3, <3>1
    <3> QED
      BY <3>2, <3>3
  <2>2. IsFiniteSet(upto(m))
    BY <1>2
  <2> HIDE DEF upto
  <2> QED
    BY <2>1, <2>2, FS_Subset
<1>4. ASSUME NEW k \in at, NEW m \in at, rank(k) = rank(m)
      PROVE  k = m
  <2> HIDE DEF rank
  <2> QED
    BY <1>3, <1>4
<1>5. f \in [at -> 1..N]
  BY <1>2
<1>6. f \in Injection(at, 1..N)
  <2>1. \A k, m \in at : f[k] = f[m] => k = m
    BY <1>4
  <2> HIDE DEF f
  <2> QED
    BY <1>5, <2>1 DEF Injection, IsInjective
<1>7. IsFiniteSet(1..N) /\ Cardinality(1..N) = N
  <2>1. IsFiniteSet(1..N) /\ Cardinality(1..N) = IF 1 > N THEN 0 ELSE N - 1 + 1
    BY <1>1, FS_Interval
  <2> HIDE DEF N
  <2> QED
    BY <1>1, <2>1
<1>8. f \in Surjection(at, 1..N)
  <2> HIDE DEF f
  <2> QED
    BY <1>6, <1>7, FS_Injection
<1>9. \A n \in 1..N : \E k \in at : f[k] = n
  <2> HIDE DEF f
  <2> QED
    BY <1>8 DEF Surjection
<1>10. \A n \in 1..N : \E k \in at : rank(k) = n
  BY <1>9
<1> QED
  BY <1>1, <1>2, <1>4, <1>10

(* create_increment, of a retry: the links it adds are the missing ones.   *)
LEMMA MissingAreLinks ==
  ASSUME NEW i, NEW r, r.predecessors \in Seq(Ids)
  PROVE  /\ MissingLinks(i, r) \in Seq(LinksOf(r))
         /\ Range(MissingLinks(i, r)) = LinksOf(r) \ items[i].predecessors
<1> DEFINE at == MissingAt(i, r)
           rank(k) == Cardinality({j \in at : j <= k})
           pick(n) == CHOOSE k \in at : rank(k) = n
           N == Cardinality(at)
           missing == [n \in 1..N |-> r.predecessors[pick(n)]]
<1>1. /\ Len(r.predecessors) \in Nat
      /\ DOMAIN r.predecessors = 1..Len(r.predecessors)
  BY LenProperties
<1>2. at \in SUBSET (1..Len(r.predecessors)) /\ at \in SUBSET Nat /\ IsFiniteSet(at)
  <2>1. at \in SUBSET (1..Len(r.predecessors))
    BY <1>1 DEF MissingAt
  <2>2. IsFiniteSet(1..Len(r.predecessors))
    BY <1>1, FS_Interval
  <2> HIDE DEF at
  <2>3. at \in SUBSET Nat
    BY <1>1, <2>1
  <2>4. IsFiniteSet(at)
    BY <2>1, <2>2, FS_Subset
  <2> QED
    BY <2>1, <2>3, <2>4
<1>3. MissingLinks(i, r) = missing
  BY DEF MissingLinks
<1>4. \A k \in at : r.predecessors[k] \in LinksOf(r) \ items[i].predecessors
  BY DEF MissingAt, LinksOf, Range
<1>5. \A link \in LinksOf(r) \ items[i].predecessors : \E k \in at : r.predecessors[k] = link
  BY DEF MissingAt, LinksOf, Range
<1> HIDE DEF at
<1>6. /\ N \in Nat
      /\ \A k \in at : rank(k) \in 1..N
      /\ \A k, m \in at : rank(k) = rank(m) => k = m
      /\ \A n \in 1..N : \E k \in at : rank(k) = n
  BY <1>2, RanksAreOnto
<1> HIDE DEF rank, N
<1>7. \A n \in 1..N : pick(n) \in at /\ rank(pick(n)) = n
  BY <1>6
<1>8. \A k \in at : pick(rank(k)) = k
  BY <1>6, <1>7
<1> HIDE DEF pick
<1>9. missing \in Seq(LinksOf(r))
  <2>1. \A n \in 1..N : r.predecessors[pick(n)] \in LinksOf(r)
    BY <1>4, <1>7
  <2> QED
    BY <1>6, <2>1, IsASeq
<1>10. Range(missing) \subseteq LinksOf(r) \ items[i].predecessors
  BY <1>4, <1>7 DEF Range
<1>11. LinksOf(r) \ items[i].predecessors \subseteq Range(missing)
  <2> SUFFICES ASSUME NEW link \in LinksOf(r) \ items[i].predecessors
               PROVE  \E n \in 1..N : missing[n] = link
    BY DEF Range
  <2>1. PICK k \in at : r.predecessors[k] = link
    BY <1>5
  <2>2. rank(k) \in 1..N /\ missing[rank(k)] = link
    BY <1>6, <1>8, <2>1
  <2> QED
    BY <2>2
<1> QED
  BY <1>3, <1>9, <1>10, <1>11

LEMMA FreshWrites ==
  ASSUME NEW r, r.predecessors \in Seq(Ids)
  PROVE  /\ Fresh(r) # <<>> /\ Head(Fresh(r)) = WriteOf("create", NoItem)
         /\ EndsInCommit(Tail(Fresh(r)), r)
         /\ Range(Tail(Fresh(r))) = LinkWrites(r) \cup {CommitWrite}
<1> DEFINE links == PredecessorLinks(r.predecessors)
           parent == ParentLink(r)
           T == LinkWrites(r) \cup {CommitWrite, WriteOf("create", NoItem)}
<1>1. r.predecessors \in Seq(LinksOf(r))
  <2>1. r.predecessors \in [1..Len(r.predecessors) -> Ids] /\ Len(r.predecessors) \in Nat
    BY LenProperties
  <2>2. \A k \in 1..Len(r.predecessors) : r.predecessors[k] \in LinksOf(r)
    BY <2>1 DEF LinksOf, Range
  <2>3. [k \in 1..Len(r.predecessors) |-> r.predecessors[k]] \in Seq(LinksOf(r))
    BY <2>1, <2>2, IsASeq
  <2> QED
    BY <2>1, <2>3
<1>2. /\ links \in Seq(LinkWrites(r)) /\ parent \in Seq(LinkWrites(r))
      /\ Range(links) = {WriteOf("predecessor", link) : link \in LinksOf(r)}
      /\ Range(parent) = {WriteOf("parent", r.parent)}
  BY <1>1, LinksAreWrites DEF LinksOf
<1>3. /\ parent \o links \in Seq(LinkWrites(r)) /\ Range(parent \o links) = LinkWrites(r)
  BY <1>2, RangeOfConcat DEF LinkWrites
<1>4. /\ links \in Seq(T) /\ parent \in Seq(T) /\ Creation \in Seq(T) /\ Commitment \in Seq(T)
      /\ parent \o links \in Seq(T)
  <2>1. Creation \in Seq(T) /\ Commitment \in Seq(T)
    BY DEF Creation, Commitment, CommitWrite
  <2> QED
    BY <1>2, <1>3, <2>1, SeqMonotonic
<1> DEFINE rest == (parent \o links) \o Commitment
<1>5. rest \in Seq(T)
  BY <1>4, ConcatProperties
<1>6. Fresh(r) = Creation \o rest
  <2> HIDE DEF links, parent, T
  <2>1. ((Creation \o parent) \o links) \o Commitment = Creation \o rest
    BY <1>4
  <2> QED
    BY <2>1 DEF Fresh, links, parent
<1> HIDE DEF rest
<1>7. /\ Head(Creation \o rest) = WriteOf("create", NoItem) /\ Tail(Creation \o rest) = rest
      /\ Creation \o rest # <<>>
  BY <1>5 DEF Creation
<1> QED
  BY <1>3, <1>6, <1>7, CommitIsLast DEF rest

LEMMA RestWrites ==
  ASSUME NEW i, NEW r, r.predecessors \in Seq(Ids)
  PROVE  /\ EndsInCommit(Rest(i, r), r)
         /\ items[i].parent = NoItem => WriteOf("parent", r.parent) \in Range(Rest(i, r))
         /\ \A link \in LinksOf(r) \ items[i].predecessors :
              WriteOf("predecessor", link) \in Range(Rest(i, r))
<1> DEFINE parent == IF items[i].parent = NoItem THEN ParentLink(r) ELSE <<>>
           links == PredecessorLinks(MissingLinks(i, r))
<1>1. /\ links \in Seq(LinkWrites(r)) /\ ParentLink(r) \in Seq(LinkWrites(r))
      /\ Range(links) = {WriteOf("predecessor", link) : link \in LinksOf(r) \ items[i].predecessors}
      /\ Range(ParentLink(r)) = {WriteOf("parent", r.parent)}
  BY MissingAreLinks, LinksAreWrites
<1>2. /\ parent \in Seq(LinkWrites(r))
      /\ items[i].parent = NoItem => WriteOf("parent", r.parent) \in Range(parent)
  BY <1>1, EmptySeq
<1> HIDE DEF parent, links
<1>3. /\ parent \o links \in Seq(LinkWrites(r))
      /\ Range(parent \o links) = Range(parent) \cup Range(links)
  BY <1>1, <1>2, RangeOfConcat
<1>4. Rest(i, r) = (parent \o links) \o Commitment
  BY DEF Rest, parent, links
<1>5. /\ EndsInCommit((parent \o links) \o Commitment, r)
      /\ Range((parent \o links) \o Commitment) = Range(parent \o links) \cup {CommitWrite}
  BY <1>3, CommitIsLast
<1> QED
  BY <1>1, <1>2, <1>3, <1>4, <1>5

-----------------------------------------------------------------------------
(* The items that creates make.                                            *)

(* An item with an Origin is being built from the request of its creator,  *)
(* and is the only one; one that is not partial any more is built.         *)
OriginIsKept(i) ==
  items[i].origin # NoOrigin =>
    LET r == Requests[items[i].origin] IN
    /\ items[i].origin \in Creators /\ items[i].native # Absent
    /\ items[i].predecessors \subseteq LinksOf(r)
    /\ items[i].parent # NoItem => items[i].parent = r.parent
    /\ items[i].native # Partial =>
         items[i].parent = r.parent /\ items[i].predecessors = LinksOf(r)
    /\ \A j \in Ids : items[j].origin = items[i].origin => j = i

(* A call has the create still to do, or works on the partial item of its  *)
(* creator and has what is missing there still to do.                      *)
CallIsOn(p) ==
  LET call == creates[p]
      r    == Requests[p]
  IN  IF call.item = NoItem
        THEN Carrying(p) = {} /\ call.todo = Fresh(r)
        ELSE /\ EndsInCommit(call.todo, r)
             /\ items[call.item].native = Partial
             /\ \/ items[call.item].parent = r.parent
                \/ WriteOf("parent", r.parent) \in Range(call.todo)
             /\ \A link \in LinksOf(r) :
                  \/ link \in items[call.item].predecessors
                  \/ WriteOf("predecessor", link) \in Range(call.todo)

BuildsInv ==
  /\ \A i \in Ids : OriginIsKept(i)
  /\ \A p \in Creators : ~ Idle(p) => CallIsOn(p)

CreateInv == TagInv /\ BuildsInv

(* What a step of somebody else leaves of the items being built.           *)
BuildsStay ==
  /\ \A i \in Ids :
       /\ items'[i].origin = items[i].origin /\ items'[i].parent = items[i].parent
       /\ items'[i].predecessors = items[i].predecessors
       /\ items'[i].native = Partial <=> items[i].native = Partial
       /\ items'[i].native = Absent <=> items[i].native = Absent
  /\ creates' = creates

LEMMA StayKeepsBuilds ==
  ASSUME CreateInv, BuildsStay
  PROVE  BuildsInv'
<1>1. ASSUME NEW i \in Ids
      PROVE  OriginIsKept(i)'
  BY DEF CreateInv, BuildsInv, OriginIsKept, BuildsStay
<1>2. ASSUME NEW p \in Creators, ~ Idle(p)'
      PROVE  CallIsOn(p)'
  <2>1. ~ Idle(p) /\ CallIsOn(p) /\ creates' = creates
    BY <1>2 DEF CreateInv, BuildsInv, BuildsStay, Idle
  <2>2. Carrying(p)' = Carrying(p)
    BY DEF Carrying, BuildsStay
  <2>3. creates[p].item # NoItem => creates[p].item \in Ids
    BY DEF CreateInv, TagInv, BoardInv, CreatesAreKept, OnBoard
  <2> QED
    BY <2>1, <2>2, <2>3 DEF CallIsOn, BuildsStay
<1> QED
  BY <1>1, <1>2 DEF BuildsInv

LEMMA SameBuilds ==
  ASSUME items' = items, creates' = creates
  PROVE  BuildsStay
BY DEF BuildsStay

(* One field of one item: its tags, or its state once it has one.          *)
LEMMA FieldKeepsBuilds ==
  ASSUME TagInv, NEW i \in Ids, creates' = creates,
         \/ \E tags : items' = [items EXCEPT ![i].tags = tags]
         \/ /\ Committed(i)
            /\ \E native : /\ native \notin {Absent, Partial}
                           /\ items' = [items EXCEPT ![i].native = native]
  PROVE  BuildsStay
<1>0. DOMAIN items = Ids /\ \A j \in Ids : DOMAIN items[j] = ItemFields
  BY DEF TagInv, BoardInv, ItemsAreWhole
<1>1. ASSUME NEW tags, items' = [items EXCEPT ![i].tags = tags]
      PROVE  BuildsStay
  <2>1. \A j \in Ids : /\ items'[j].origin = items[j].origin /\ items'[j].parent = items[j].parent
                       /\ items'[j].predecessors = items[j].predecessors
                       /\ items'[j].native = items[j].native
    BY <1>0, <1>1 DEF ItemFields
  <2> QED
    BY <2>1 DEF BuildsStay
<1>2. ASSUME NEW native, native \notin {Absent, Partial}, Committed(i),
             items' = [items EXCEPT ![i].native = native]
      PROVE  BuildsStay
  <2>1. \A j \in Ids : /\ items'[j].origin = items[j].origin /\ items'[j].parent = items[j].parent
                       /\ items'[j].predecessors = items[j].predecessors
                       /\ j # i => items'[j].native = items[j].native
    BY <1>0, <1>2 DEF ItemFields
  <2>2. items'[i].native = native
    BY <1>0, <1>2 DEF ItemFields
  <2> QED
    BY <1>2, <2>1, <2>2 DEF BuildsStay, Committed
<1> QED
  BY <1>1, <1>2

(* The operator and people.                                                *)
LEMMA PeopleKeepBuilds ==
  ASSUME TagInv, Operator \/ People
  PROVE  BuildsStay
<1>0. {Absent, Partial} \cap columns = {}
  BY NativesAssumption DEF TagInv, BoardInv, WorldIsKept
<1>1. CASE Operator \/ EditColumns
  BY <1>1, SameBuilds DEF Operator, EditToml, ClearRoot, EditColumns
<1>2. ASSUME NEW i \in Ids, PersonMoves(i)
      PROVE  BuildsStay
  <2>1. PICK native \in Natives : items' = [items EXCEPT ![i].native = native]
    BY <1>2 DEF PersonMoves
  <2>2. native \notin {Absent, Partial}
    BY <1>0 DEF Natives, Absent, Partial
  <2>3. Committed(i) /\ creates' = creates
    BY <1>2 DEF PersonMoves, Committed
  <2> QED
    BY <2>1, <2>2, <2>3, FieldKeepsBuilds
<1>3. ASSUME NEW i \in Ids, PersonTags(i)
      PROVE  BuildsStay
  <2>1. (\E tags : items' = [items EXCEPT ![i].tags = tags]) /\ creates' = creates
    BY <1>3 DEF PersonTags
  <2> QED
    BY <2>1, FieldKeepsBuilds
<1> QED
  BY <1>1, <1>2, <1>3 DEF People

LEMMA TicksKeepBuilds ==
  ASSUME TagInv, NEW t \in Ticks, Tick(t)
  PROVE  BuildsStay
<1>1. creates' = creates
  BY DEF Tick, LoadConfig, ValidateConfig, TryLock, Stamp, ReadBuckets, Decide, EndTick, TickDies,
         Call, Absorbed, LookAtIssue, SetState, TagOne, ReadTags, PatchTags, VerifyTags,
         WriteClaimedAt, Launch, boardVars
<1>2. ASSUME NEW i \in Ids, SetState(t, i), items' # items
      PROVE  BuildsStay
  <2>1. PICK call \in DOMAIN Goal :
          LET status == FirstNative(ticks[t].config, Goal[call]) IN
          /\ StateCall(t, i, call)
          /\ items' = [items EXCEPT ![i].native = NativeAfter(@, status)]
    BY <1>2 DEF SetState
  <2> DEFINE native == NativeAfter(items[i].native, FirstNative(ticks[t].config, Goal[call]))
  <2>2. Committed(i) /\ Loaded(t)
    BY <2>1, TurnIsOnBoard DEF StateCall
  <2>3. FirstNative(ticks[t].config, Goal[call]) \notin {Absent, Partial}
    <3>1. Goal[call] \in {"queued", "active"}
      BY DEF Goal
    <3> QED
      BY <2>2, <3>1, ReadNames DEF TagInv, BoardInv, TickInv
  <2>4. native \notin {Absent, Partial}
    BY <2>2, <2>3 DEF NativeAfter, Committed
  <2>5. items' = [items EXCEPT ![i].native = native]
    BY <2>1
  <2> HIDE DEF native
  <2> QED
    BY <1>1, <2>2, <2>4, <2>5, FieldKeepsBuilds
<1>3. ASSUME NEW i \in Ids, Call(t, i)
      PROVE  BuildsStay
  <2>1. \/ items' = items
        \/ \E tags : items' = [items EXCEPT ![i].tags = tags]
        \/ SetState(t, i)
    BY <1>3 DEF Call, Absorbed, LookAtIssue, TagOne, ReadTags, PatchTags, VerifyTags,
                WriteClaimedAt, Launch, boardVars
  <2> QED
    BY <1>1, <1>2, <2>1, SameBuilds, FieldKeepsBuilds
<1> QED
  BY <1>1, <1>3, SameBuilds DEF Tick, LoadConfig, ValidateConfig, TryLock, Stamp, ReadBuckets,
                                Decide, EndTick, TickDies, boardVars

(* One call moves and no item does.                                        *)
LEMMA CallKeepsBuilds ==
  ASSUME CreateInv, NEW p \in Creators, NEW call, Calls(p, call), items' = items,
         call.stage = "idle" \/ CallIsOn(p)'
  PROVE  BuildsInv'
<1>1. /\ creates'[p] = call
      /\ \A q \in Creators \ {p} : creates'[q] = creates[q]
  BY DEF Calls, CreateInv, TagInv, BoardInv, CreatesAreKept
<1>2. \A i \in Ids : OriginIsKept(i)'
  BY DEF CreateInv, BuildsInv, OriginIsKept
<1>3. ASSUME NEW q \in Creators, ~ Idle(q)'
      PROVE  CallIsOn(q)'
  <2>1. CASE q = p
    BY <1>1, <1>3, <2>1 DEF Idle
  <2>2. CASE q # p
    BY <1>1, <1>3, <2>2 DEF CreateInv, BuildsInv, Idle, CallIsOn, Carrying
  <2> QED
    BY <2>1, <2>2
<1> QED
  BY <1>2, <1>3 DEF BuildsInv

LEMMA BeginKeepsBuilds ==
  ASSUME CreateInv, NEW p \in Creators, Begin(p)
  PROVE  BuildsInv'
<1> DEFINE r == Requests[p]
<1>0. r.predecessors \in Seq(Ids) /\ NoItem \notin Ids /\ p # NoOrigin
  BY IdsAssumption
<1>1. PICK i, todo :
        /\ Begins(p, i, todo)
        /\ \/ i = NoItem /\ Carrying(p) = {} /\ todo = Fresh(r)
           \/ i \in Carrying(p) /\ items[i].native = Partial /\ todo = Rest(i, r)
  BY DEF Begin
<1> DEFINE call == [stage |-> "peek",
                    queued |-> FirstNative(Config(world.provider, toml), "queued"),
                    item |-> i, todo |-> todo, peeked |-> 0, armed |-> 0, made |-> 0]
<1>2. Calls(p, call) /\ items' = items
  BY <1>1 DEF Begins, Begin
<1>3. call.item = i /\ call.todo = todo
  OBVIOUS
<1> HIDE DEF call
<1>4. creates'[p] = call
  BY <1>2 DEF Calls, CreateInv, TagInv, BoardInv, CreatesAreKept
<1>5. CASE i = NoItem
  <2>1. Carrying(p)' = {} /\ todo = Fresh(r)
    BY <1>0, <1>1, <1>2, <1>5 DEF Carrying
  <2> QED
    BY <1>2, <1>3, <1>4, <1>5, <2>1, CallKeepsBuilds DEF CallIsOn
<1>6. CASE i # NoItem
  <2>1. i \in Ids /\ items[i].origin = p /\ items[i].native = Partial /\ todo = Rest(i, r)
    BY <1>1, <1>6 DEF Carrying
  <2>2. items[i].parent # NoItem => items[i].parent = r.parent
    BY <1>0, <2>1 DEF CreateInv, BuildsInv, OriginIsKept
  <2>3. /\ EndsInCommit(todo, r)
        /\ items[i].parent = r.parent \/ WriteOf("parent", r.parent) \in Range(todo)
        /\ \A link \in LinksOf(r) :
             link \in items[i].predecessors \/ WriteOf("predecessor", link) \in Range(todo)
    BY <1>0, <2>1, <2>2, RestWrites
  <2>4. CallIsOn(p)'
    BY <1>2, <1>3, <1>4, <1>6, <2>1, <2>3 DEF CallIsOn
  <2> QED
    BY <1>2, <2>4, CallKeepsBuilds
<1> QED
  BY <1>5, <1>6

LEMMA DisarmKeepsBuilds ==
  ASSUME CreateInv, NEW p \in Creators, Peek(p) \/ Take(p) \/ CreatorDies(p)
  PROVE  BuildsInv'
<1>1. /\ ~ Idle(p) /\ items' = items /\ CallIsOn(p) /\ DOMAIN creates[p] = CallFields
      /\ Carrying(p)' = Carrying(p)
  BY DEF Peek, Take, CreatorDies, Idle, CreateInv, BuildsInv, TagInv, BoardInv, CreatesAreKept,
         Carrying
<1>2. PICK call :
        /\ Calls(p, call)
        /\ call.stage = "idle" \/ (call.item = creates[p].item /\ call.todo = creates[p].todo)
  <2>1. ASSUME NEW stage, NEW peeked,
               Calls(p, [creates[p] EXCEPT !.stage = stage, !.peeked = peeked])
        PROVE  \E call : /\ Calls(p, call)
                         /\ call.item = creates[p].item /\ call.todo = creates[p].todo
    <3> DEFINE call == [creates[p] EXCEPT !.stage = stage, !.peeked = peeked]
    <3>1. call.item = creates[p].item /\ call.todo = creates[p].todo
      BY <1>1 DEF CallFields
    <3> QED
      BY <2>1, <3>1
  <2>2. ASSUME NEW armed, Calls(p, [creates[p] EXCEPT !.stage = "write", !.armed = armed])
        PROVE  \E call : /\ Calls(p, call)
                         /\ call.item = creates[p].item /\ call.todo = creates[p].todo
    <3> DEFINE call == [creates[p] EXCEPT !.stage = "write", !.armed = armed]
    <3>1. call.item = creates[p].item /\ call.todo = creates[p].todo
      BY <1>1 DEF CallFields
    <3> QED
      BY <2>2, <3>1
  <2>3. ASSUME Over(p)
        PROVE  \E call : Calls(p, call) /\ call.stage = "idle"
    <3> DEFINE call == [creates[p] EXCEPT !.stage = "idle"]
    <3>1. call.stage = "idle"
      BY <1>1 DEF CallFields
    <3> QED
      BY <2>3, <3>1 DEF Over
  <2>4. CASE Peek(p)
    BY <2>1, <2>4 DEF Peek
  <2>5. CASE Take(p)
    BY <2>2, <2>3, <2>5 DEF Take
  <2>6. CASE CreatorDies(p)
    BY <2>3, <2>6 DEF CreatorDies
  <2> QED
    BY <2>4, <2>5, <2>6
<1>3. creates'[p] = call
  BY <1>2 DEF Calls, CreateInv, TagInv, BoardInv, CreatesAreKept
<1>4. call.stage = "idle" \/ CallIsOn(p)'
  BY <1>1, <1>2, <1>3 DEF CallIsOn
<1> QED
  BY <1>1, <1>2, <1>4, CallKeepsBuilds

(* What a save of one creator leaves of the calls and items of the others. *)
LEMMA OneBuildMoves ==
  ASSUME CreateInv, NEW p \in Creators, NEW id \in Ids, NEW item, NEW call, Calls(p, call),
         items' = [items EXCEPT ![id] = item], items[id].origin \in {NoOrigin, p}, item.origin = p,
         OriginIsKept(id)', call.stage = "idle" \/ CallIsOn(p)', Carrying(p) \subseteq {id}
  PROVE  BuildsInv'
<1>1. /\ creates'[p] = call /\ items'[id] = item /\ p # NoOrigin
      /\ \A q \in Creators \ {p} : creates'[q] = creates[q]
      /\ \A i \in Ids \ {id} : items'[i] = items[i]
  BY IdsAssumption
  DEF Calls, CreateInv, TagInv, BoardInv, CreatesAreKept, ItemsAreWhole
<1>2. ASSUME NEW i \in Ids, i # id
      PROVE  OriginIsKept(i)'
  <2>1. items'[i].origin # p
    BY <1>1, <1>2 DEF Carrying
  <2> QED
    BY <1>1, <1>2, <2>1 DEF CreateInv, BuildsInv, OriginIsKept
<1>3. ASSUME NEW q \in Creators, ~ Idle(q)'
      PROVE  CallIsOn(q)'
  <2>1. CASE q = p
    BY <1>1, <1>3, <2>1 DEF Idle
  <2>2. CASE q # p
    <3>1. creates'[q] = creates[q] /\ CallIsOn(q) /\ q # NoOrigin
      BY <1>1, <1>3, <2>2, IdsAssumption DEF CreateInv, BuildsInv, Idle
    <3>2. Carrying(q)' = Carrying(q)
      BY <1>1, <2>2, <3>1 DEF Carrying
    <3>3. creates[q].item # NoItem =>
            creates[q].item \in Ids /\ items[creates[q].item].origin = q
      BY DEF CreateInv, TagInv, BoardInv, CreatesAreKept, OnBoard
    <3>4. creates[q].item # NoItem => items'[creates[q].item] = items[creates[q].item]
      BY <1>1, <2>2, <3>1, <3>3
    <3> QED
      BY <3>1, <3>2, <3>4 DEF CallIsOn
  <2> QED
    BY <2>1, <2>2
<1> QED
  BY <1>2, <1>3 DEF BuildsInv

LEMMA WritesGoOn ==
  ASSUME NEW r, NEW todo, EndsInCommit(todo, r)
  PROVE  /\ Head(todo) \in LinkWrites(r) \cup {CommitWrite}
         /\ Head(todo) = CommitWrite => Tail(todo) = <<>> /\ Range(todo) = {CommitWrite}
         /\ Head(todo) # CommitWrite =>
              /\ EndsInCommit(Tail(todo), r)
              /\ Range(todo) \subseteq {Head(todo)} \cup Range(Tail(todo))
<1> DEFINE S == LinkWrites(r) \cup {CommitWrite}
<1>1. /\ todo \in Seq(S) /\ todo # <<>>
      /\ \A k \in DOMAIN todo : todo[k] = CommitWrite <=> k = Len(todo)
  BY DEF EndsInCommit
<1> HIDE DEF S
<1>2. Len(todo) \in Nat /\ Len(todo) >= 1 /\ DOMAIN todo = 1..Len(todo)
  BY <1>1, EmptySeq, LenProperties
<1>3. /\ Head(todo) \in S /\ Tail(todo) \in Seq(S) /\ Len(Tail(todo)) = Len(todo) - 1
      /\ Head(todo) = todo[1]
      /\ \A k \in 1..Len(Tail(todo)) : Tail(todo)[k] = todo[k + 1]
  BY <1>1, HeadTailProperties
<1>4. DOMAIN Tail(todo) = 1..(Len(todo) - 1)
  BY <1>3, LenProperties
<1>5. ASSUME Head(todo) = CommitWrite
      PROVE  Tail(todo) = <<>> /\ Range(todo) = {CommitWrite}
  <2>1. Len(todo) = 1
    BY <1>1, <1>2, <1>3, <1>5
  <2>2. Len(Tail(todo)) = 0 /\ DOMAIN todo = {1}
    BY <1>2, <1>3, <2>1
  <2>3. Tail(todo) = <<>>
    BY <1>3, <2>2, EmptySeq
  <2> QED
    BY <1>3, <1>5, <2>2, <2>3 DEF Range
<1>6. ASSUME Head(todo) # CommitWrite
      PROVE  /\ EndsInCommit(Tail(todo), r)
             /\ Range(todo) \subseteq {Head(todo)} \cup Range(Tail(todo))
  <2>1. Len(todo) >= 2
    BY <1>1, <1>2, <1>3, <1>6
  <2>2. Tail(todo) # <<>>
    <3>1. Len(Tail(todo)) # 0 /\ Len(<<>>) = 0
      BY <1>2, <1>3, <2>1, EmptySeq
    <3> QED
      BY <3>1
  <2>3. ASSUME NEW k \in DOMAIN Tail(todo)
        PROVE  Tail(todo)[k] = CommitWrite <=> k = Len(Tail(todo))
    <3>1. k \in 1..Len(Tail(todo)) /\ k + 1 \in DOMAIN todo /\ k \in Int
      BY <1>2, <1>3, <1>4
    <3>2. Tail(todo)[k] = CommitWrite <=> k + 1 = Len(todo)
      BY <1>1, <1>3, <3>1
    <3>3. k + 1 = Len(todo) <=> k = Len(todo) - 1
      BY <1>2, <3>1
    <3> QED
      BY <1>3, <3>2, <3>3, Zenon
  <2>4. ASSUME NEW k \in DOMAIN todo
        PROVE  todo[k] \in {Head(todo)} \cup Range(Tail(todo))
    <3>1. CASE k = 1
      BY <1>3, <3>1
    <3>2. CASE k # 1
      <4>1. k - 1 \in 1..(Len(todo) - 1) /\ (k - 1) + 1 = k
        BY <1>2, <3>2
      <4>2. k - 1 \in 1..Len(Tail(todo))
        BY <1>3, <4>1
      <4>3. Tail(todo)[k - 1] = todo[k]
        BY <1>3, <4>1, <4>2
      <4> QED
        BY <1>4, <4>1, <4>3 DEF Range
    <3> QED
      BY <3>1, <3>2
  <2> QED
    BY <1>3, <2>2, <2>3, <2>4 DEF EndsInCommit, Range, S
<1> QED
  BY <1>3, <1>5, <1>6 DEF S

LEMMA WriteKeepsBuilds ==
  ASSUME CreateInv, NEW p \in Creators, Write(p)
  PROVE  BuildsInv'
<1> DEFINE old   == creates[p]
           r     == Requests[p]
           write == Head(old.todo)
           stage == IF old.made + 1 = old.armed \/ Tail(old.todo) = <<>> THEN "idle" ELSE "write"
<1>1. r.predecessors \in Seq(Ids) /\ NoItem \notin Ids /\ p # NoOrigin
  BY IdsAssumption
<1>2. /\ \A op, to : WriteOf(op, to).op = op /\ WriteOf(op, to).to = to
      /\ \A to : CommitWrite # WriteOf("parent", to) /\ CommitWrite # WriteOf("predecessor", to)
      /\ \A to, link : WriteOf("parent", to) # WriteOf("predecessor", link)
  BY DEF WriteOf, CommitWrite
<1>3. PICK id \in Ids :
        /\ id = IF write.op = "create" THEN NextId ELSE old.item
        /\ items' = [items EXCEPT ![id] = Written(@, write, p)]
        /\ Calls(p, [old EXCEPT !.stage = stage, !.item = id, !.todo = Tail(old.todo),
                                !.made = @ + 1])
  BY DEF Write
<1> DEFINE item == Written(items[id], write, p)
           call == [old EXCEPT !.stage = stage, !.item = id, !.todo = Tail(old.todo),
                               !.made = @ + 1]
<1>4. /\ old.stage = "write" /\ id \in Ids
      /\ items' = [items EXCEPT ![id] = item]
      /\ Calls(p, call)
  BY <1>3 DEF Write
<1>5. /\ DOMAIN items = Ids /\ DOMAIN items[id] = ItemFields
      /\ DOMAIN old = CallFields /\ old.queued \notin {Absent, Partial}
      /\ CallIsOn(p) /\ OriginIsKept(id)
      /\ old.item # NoItem => items[old.item].origin = p
  BY <1>4 DEF CreateInv, BuildsInv, TagInv, BoardInv, ItemsAreWhole, CreatesAreKept, Idle
<1>6. /\ call.item = id /\ call.todo = Tail(old.todo)
      /\ Tail(old.todo) = <<>> => call.stage = "idle"
  BY <1>5 DEF CallFields
<1> HIDE DEF call
<1>7. creates'[p] = call
  BY <1>4 DEF Calls, CreateInv, TagInv, BoardInv, CreatesAreKept
<1>8. CASE old.item = NoItem
  <2>1. /\ Carrying(p) = {} /\ write = WriteOf("create", NoItem)
        /\ EndsInCommit(Tail(old.todo), r)
        /\ Range(Tail(old.todo)) = LinkWrites(r) \cup {CommitWrite}
    BY <1>1, <1>5, <1>8, FreshWrites DEF CallIsOn
  <2>2. write.op = "create"
    BY <1>2, <2>1
  <2>3. items[id].origin = NoOrigin
    <3>1. id \notin OnBoard
      BY <1>3, <2>2, NextIdIsNew DEF CreateInv, TagInv
    <3> QED
      BY <1>4, <1>5, <3>1 DEF OnBoard, OriginIsKept
  <2>4. item = [NewItem(Partial) EXCEPT !.origin = p]
    BY <2>2 DEF Written
  <2>5. /\ item.origin = p /\ item.native = Partial /\ item.parent = NoItem
        /\ item.predecessors = {}
    BY <2>4 DEF NewItem
  <2> HIDE DEF item, write
  <2>6. /\ items'[id] = item
        /\ \A j \in Ids \ {id} : items'[j] = items[j]
    BY <1>4, <1>5
  <2>7. OriginIsKept(id)'
    <3>1. \A j \in Ids : items'[j].origin = p => j = id
      BY <2>1, <2>6 DEF Carrying
    <3> QED
      BY <2>5, <2>6, <3>1 DEF OriginIsKept, Partial, Absent
  <2>8. CallIsOn(p)'
    BY <1>1, <1>4, <1>6, <1>7, <2>1, <2>5, <2>6 DEF CallIsOn, LinkWrites
  <2> QED
    BY <1>4, <2>1, <2>3, <2>5, <2>7, <2>8, OneBuildMoves
<1>9. CASE old.item # NoItem
  <2>1. /\ EndsInCommit(old.todo, r) /\ items[old.item].native = Partial
        /\ \/ items[old.item].parent = r.parent
           \/ WriteOf("parent", r.parent) \in Range(old.todo)
        /\ \A link \in LinksOf(r) :
             \/ link \in items[old.item].predecessors
             \/ WriteOf("predecessor", link) \in Range(old.todo)
    BY <1>5, <1>9 DEF CallIsOn
  <2>2. /\ write \in LinkWrites(r) \cup {CommitWrite}
        /\ write = CommitWrite => Tail(old.todo) = <<>> /\ Range(old.todo) = {CommitWrite}
        /\ write # CommitWrite =>
             /\ EndsInCommit(Tail(old.todo), r)
             /\ Range(old.todo) \subseteq {write} \cup Range(Tail(old.todo))
    BY <2>1, WritesGoOn
  <2>3. \/ write = WriteOf("parent", r.parent)
        \/ \E link \in LinksOf(r) : write = WriteOf("predecessor", link)
        \/ write = CommitWrite
    BY <2>2 DEF LinkWrites
  <2>4. write.op # "create" /\ id = old.item
    BY <1>2, <1>3, <2>3 DEF CommitWrite
  <2>5. /\ items[id].origin = p /\ items[id].native = Partial
        /\ items[id].predecessors \subseteq LinksOf(r)
        /\ items[id].parent # NoItem => items[id].parent = r.parent
        /\ \A j \in Ids : items[j].origin = p => j = id
    BY <1>1, <1>5, <1>9, <2>1, <2>4 DEF OriginIsKept
  <2>6. ASSUME items'[id] = item, item.origin = p, item.native # Absent,
               \A j \in Ids \ {id} : items'[j] = items[j],
               item.predecessors \subseteq LinksOf(r),
               item.parent # NoItem => item.parent = r.parent,
               item.native # Partial => item.parent = r.parent /\ item.predecessors = LinksOf(r),
               call.stage = "idle" \/ CallIsOn(p)'
        PROVE  BuildsInv'
    <3> HIDE DEF item, write
    <3>1. OriginIsKept(id)'
      BY <2>5, <2>6 DEF OriginIsKept
    <3>2. Carrying(p) \subseteq {id}
      BY <2>5 DEF Carrying
    <3> QED
      BY <1>4, <2>5, <2>6, <3>1, <3>2, OneBuildMoves
  <2>7. items'[id] = item /\ \A j \in Ids \ {id} : items'[j] = items[j]
    <3> HIDE DEF item
    <3> QED
      BY <1>4, <1>5
  <2>8. CASE write = WriteOf("parent", r.parent)
    <3>1. item = [items[id] EXCEPT !.parent = r.parent] /\ write # CommitWrite
      BY <1>2, <2>8 DEF Written
    <3>2. /\ item.parent = r.parent /\ item.origin = p /\ item.native = Partial
          /\ item.predecessors = items[id].predecessors
      <4> HIDE DEF item, write
      <4> QED
        BY <1>5, <2>5, <3>1 DEF ItemFields
    <3>3. \A link : WriteOf("predecessor", link) # write
      BY <1>2, <2>8
    <3> HIDE DEF item, write
    <3>4. CallIsOn(p)'
      BY <1>1, <1>4, <1>6, <1>7, <2>1, <2>2, <2>4, <2>7, <3>1, <3>2, <3>3, ZenonT(60)
         DEF CallIsOn
    <3> QED
      BY <2>5, <2>6, <2>7, <3>2, <3>4 DEF Partial, Absent
  <2>9. ASSUME NEW link \in LinksOf(r), write = WriteOf("predecessor", link)
        PROVE  BuildsInv'
    <3>1. item = [items[id] EXCEPT !.predecessors = @ \cup {link}] /\ write # CommitWrite
      <4>1. write.op = "predecessor" /\ write.to = link /\ write # CommitWrite
        BY <1>2, <2>9
      <4> HIDE DEF write
      <4> QED
        BY <4>1 DEF Written
    <3>2. /\ item.parent = items[id].parent /\ item.origin = p /\ item.native = Partial
          /\ item.predecessors = items[id].predecessors \cup {link}
      <4> HIDE DEF item, write
      <4> QED
        BY <1>5, <2>5, <3>1 DEF ItemFields
    <3>3. /\ \A other : WriteOf("predecessor", other) = write => other = link
          /\ WriteOf("parent", r.parent) # write
      BY <2>9 DEF WriteOf
    <3> HIDE DEF item, write
    <3>4. \A other \in LinksOf(r) :
            \/ other \in item.predecessors
            \/ WriteOf("predecessor", other) \in Range(Tail(old.todo))
      BY <2>1, <2>2, <2>4, <3>1, <3>2, <3>3
    <3>5. item.parent = r.parent \/ WriteOf("parent", r.parent) \in Range(Tail(old.todo))
      BY <2>1, <2>2, <2>4, <3>1, <3>2, <3>3
    <3>6. CallIsOn(p)'
      BY <1>1, <1>4, <1>6, <1>7, <2>2, <2>7, <3>1, <3>2, <3>4, <3>5 DEF CallIsOn
    <3> QED
      BY <2>5, <2>6, <2>7, <2>9, <3>2, <3>6 DEF Partial, Absent
  <2>10. CASE write = CommitWrite
    <3>1. item = [items[id] EXCEPT !.native = old.queued]
      BY <1>2, <2>10 DEF Written, CommitWrite
    <3>2. /\ item.parent = items[id].parent /\ item.origin = p /\ item.native = old.queued
          /\ item.predecessors = items[id].predecessors
      <4> HIDE DEF item, write, old
      <4> QED
        BY <1>5, <2>5, <3>1 DEF ItemFields
    <3>3. call.stage = "idle" /\ Range(old.todo) = {CommitWrite}
      BY <1>6, <2>2, <2>10
    <3>4. items[id].parent = r.parent /\ LinksOf(r) \subseteq items[id].predecessors
      <4>1. /\ WriteOf("parent", r.parent) # CommitWrite
            /\ \A link : WriteOf("predecessor", link) # CommitWrite
        BY <1>2
      <4> QED
        BY <2>1, <2>4, <3>3, <4>1
    <3> HIDE DEF item, write
    <3> QED
      BY <1>5, <2>5, <2>6, <2>7, <3>2, <3>3, <3>4
  <2> QED
    BY <2>3, <2>8, <2>9, <2>10
<1> QED
  BY <1>8, <1>9

LEMMA NextKeepsCreateInv ==
  ASSUME CreateInv, [Next]_entryVars
  PROVE  CreateInv'
<1>1. TagInv /\ TagInv'
  BY NextKeepsTagInv DEF CreateInv
<1>2. ASSUME NEW t \in Ticks, Tick(t)
      PROVE  BuildsInv'
  BY <1>1, <1>2, TicksKeepBuilds, StayKeepsBuilds
<1>3. CASE Operator \/ People
  BY <1>1, <1>3, PeopleKeepBuilds, StayKeepsBuilds DEF CreateInv
<1>4. CASE Arm
  BY <1>1, <1>4, SameBuilds, StayKeepsBuilds DEF Arm, CreateInv
<1>5. ASSUME NEW p \in Creators, Create(p)
      PROVE  BuildsInv'
  BY <1>5, BeginKeepsBuilds, DisarmKeepsBuilds, WriteKeepsBuilds DEF Create
<1>6. CASE UNCHANGED entryVars
  BY <1>1, <1>6, SameBuilds, StayKeepsBuilds DEF entryVars, boardVars, CreateInv
<1> QED
  BY <1>1, <1>2, <1>3, <1>4, <1>5, <1>6 DEF Next, Creates, CreateInv

LEMMA CreateInvHolds == Spec => []CreateInv
<1>1. Init => CreateInv
  <2> SUFFICES ASSUME Init
               PROVE  CreateInv
    OBVIOUS
  <2>1. PICK w \in Worlds : InitialBoard(w)
    BY DEF Init
  <2>2. /\ items \in w.items
        /\ creates = [p \in Creators |->
             [stage |-> "idle", queued |-> Absent, item |-> NoItem, todo |-> <<>>,
              peeked |-> 0, armed |-> 0, made |-> 0]]
    BY <2>1 DEF InitialBoard
  <2>3. \A i \in Ids : items[i].origin = NoOrigin
    BY <2>2, BoardsAssumption
  <2>4. \A p \in Creators : Idle(p)
    BY <2>2 DEF Idle
  <2> QED
    BY <2>3, <2>4, InitHasTagInv DEF CreateInv, BuildsInv, OriginIsKept
<1>2. CreateInv /\ [Next]_entryVars => CreateInv'
  BY NextKeepsCreateInv
<1> QED
  BY <1>1, <1>2, PTL DEF Spec

(* create_increment, obligations 2 to 4: however many creates of the fake  *)
(* provider run at once, wherever faults and crashes stop them and however *)
(* retries pick up what they find, an item that has a state carries all    *)
(* links of its request, with no other; whatever ticks and people do.      *)
THEOREM QueuedItemsAreComplete == Spec => []QueuedIsComplete
<1>1. CreateInv => QueuedIsComplete
  BY DEF CreateInv, BuildsInv, OriginIsKept, QueuedIsComplete, LinksOf, Range
<1> QED
  BY <1>1, CreateInvHolds, PTL

(* _next_id, find_by_origin: no two creates land on one item, and retries  *)
(* never add a second item under an Origin.                                *)
THEOREM CreatorsHaveOneItem == Spec => []OneItemPerCreator
<1>1. ASSUME CreateInv, NEW p \in Creators
      PROVE  /\ Cardinality(Carrying(p)) <= 1
             /\ creates[p].item # NoItem => items[creates[p].item].origin = p
  <2>1. p # NoOrigin
    BY IdsAssumption
  <2>2. \A i, j \in Carrying(p) : i = j
    BY <1>1, <2>1 DEF CreateInv, BuildsInv, OriginIsKept, Carrying
  <2>3. Carrying(p) = {} \/ \E i : Carrying(p) = {i}
    BY <2>2
  <2>4. Cardinality(Carrying(p)) \in {0, 1}
    BY <2>3, FS_EmptySet, FS_Singleton
  <2> QED
    BY <1>1, <2>4 DEF CreateInv, TagInv, BoardInv, CreatesAreKept
<1>2. CreateInv => OneItemPerCreator
  BY <1>1 DEF OneItemPerCreator
<1> QED
  BY <1>2, CreateInvHolds, PTL

-----------------------------------------------------------------------------
(* The native states of the board, and the name on the root.               *)

NamesHold ==
  /\ stamp \in FleetNames \cup {Unset}
  /\ \A i \in Ids : items[i].native \in NativeNames
  /\ \A p \in Creators :
       Idle(p) \/ (world.provider = "fake" /\ creates[p].queued \in NativeNames)

NameInv == TagInv /\ NamesHold

LEMMA NamesAreOfWorld ==
  ASSUME world' = world
  PROVE  NativeNames' = NativeNames
BY DEF NativeNames, FakeNames

LEMMA NamesByProvider ==
  /\ Absent \in NativeNames
  /\ UNION world.layouts \subseteq NativeNames
  /\ world.provider = "github" => ClosedNames \subseteq NativeNames
  /\ world.provider = "fake" => Partial \in NativeNames /\ FakeNames \subseteq NativeNames
<1> DEFINE onGitHub == IF world.provider = "github" THEN ClosedNames ELSE {}
           onFake   == IF world.provider = "fake" THEN {Partial} \cup FakeNames ELSE {}
           columned == {Absent} \cup (UNION world.layouts)
<1>1. NativeNames = (columned \cup onGitHub) \cup onFake
  BY DEF NativeNames
<1>2. world.provider = "github" => onGitHub = ClosedNames
  OBVIOUS
<1>3. world.provider = "fake" => onFake = {Partial} \cup FakeNames
  OBVIOUS
<1>4. Absent \in columned /\ UNION world.layouts \subseteq columned
  OBVIOUS
<1> HIDE DEF onGitHub, onFake, columned
<1>5. columned \subseteq NativeNames /\ onGitHub \subseteq NativeNames
  BY <1>1
<1>6. onFake \subseteq NativeNames
  BY <1>1
<1> QED
  BY <1>2, <1>3, <1>4, <1>5, <1>6

LEMMA SameNames ==
  ASSUME NamesHold, UNCHANGED <<world, items, creates, stamp>>
  PROVE  NamesHold'
BY NamesAreOfWorld DEF NamesHold, Idle

(* What a configuration calls a bucket is a name of some squadra.toml.     *)
LEMMA FirstNamesAreKnown ==
  ASSUME WorldIsKept, world.provider = "fake", NEW raw \in world.tomls,
         ConfigIsSound(world.provider, raw), NEW bucket \in {"queued", "active"}
  PROVE  FirstNative(Config(world.provider, raw), bucket) \in NativeNames
<1> DEFINE states == ResolvedStates(world.provider, raw)
<1>1. Config(world.provider, raw).states = states
  BY DEF Config
<1>2. \A b \in DOMAIN states : states[b] \in Seq(STRING)
  BY NativesAssumption DEF WorldIsKept
<1>3. bucket \in DOMAIN states /\ states[bucket] # <<>>
  BY DEF ConfigIsSound, StatesAreSound
<1>4. states[bucket][1] \in Mapped(states)
  <2>1. 1 \in DOMAIN states[bucket]
    BY <1>2, <1>3
  <2>2. states[bucket][1] \in Names(states, bucket)
    BY <1>3, <2>1 DEF Names
  <2> QED
    BY <1>3, <2>2 DEF Mapped
<1>5. states[bucket][1] \in FakeNames
  BY <1>4 DEF FakeNames
<1> HIDE DEF states
<1> QED
  BY <1>1, <1>5, NamesByProvider DEF FirstNative

LEMMA ColumnsAreNames ==
  ASSUME WorldIsKept
  PROVE  columns \subseteq NativeNames
BY NamesByProvider DEF WorldIsKept

(* One item changes its native state, to one there is.                     *)
LEMMA OneNameChanges ==
  ASSUME NamesHold, ItemsAreWhole, NEW i \in Ids, NEW native \in NativeNames,
         items' = [items EXCEPT ![i].native = native], UNCHANGED <<world, creates, stamp>>
  PROVE  NamesHold'
<1>1. \A j \in Ids : items'[j].native = IF j = i THEN native ELSE items[j].native
  BY DEF ItemsAreWhole, ItemFields
<1> QED
  BY <1>1, NamesAreOfWorld DEF NamesHold, Idle

LEMMA TagsKeepNames ==
  ASSUME NamesHold, ItemsAreWhole, NEW i \in Ids, NEW tags,
         items' = [items EXCEPT ![i].tags = tags], UNCHANGED <<world, creates, stamp>>
  PROVE  NamesHold'
<1>1. \A j \in Ids : items'[j].native = items[j].native
  BY DEF ItemsAreWhole, ItemFields
<1> QED
  BY <1>1, NamesAreOfWorld DEF NamesHold, Idle

LEMMA PeopleKeepNames ==
  ASSUME NameInv, People, stamp' = stamp
  PROVE  NamesHold'
<1>0. NamesHold /\ ItemsAreWhole /\ columns \subseteq NativeNames
  BY ColumnsAreNames DEF NameInv, TagInv, BoardInv
<1>1. CASE EditColumns
  BY <1>0, <1>1, SameNames DEF EditColumns
<1>2. ASSUME NEW i \in Ids, PersonMoves(i)
      PROVE  NamesHold'
  <2>1. PICK native \in Natives : items' = [items EXCEPT ![i].native = native]
    BY <1>2 DEF PersonMoves
  <2>2. native \in NativeNames
    BY <1>0, NamesByProvider DEF Natives, ClosedNames
  <2> QED
    BY <1>0, <1>2, <2>1, <2>2, OneNameChanges DEF PersonMoves
<1>3. ASSUME NEW i \in Ids, PersonTags(i)
      PROVE  NamesHold'
  BY <1>0, <1>3, TagsKeepNames DEF PersonTags
<1> QED
  BY <1>1, <1>2, <1>3 DEF People

(* A create writes partial items and the first queued name it read, and    *)
(* only the fake provider's board has creates.                             *)
LEMMA CreatesKeepNames ==
  ASSUME NameInv, Creates, stamp' = stamp
  PROVE  NamesHold'
<1>0. /\ NamesHold /\ WorldIsKept /\ ItemsAreWhole /\ DOMAIN creates = Creators
      /\ \A p \in Creators : DOMAIN creates[p] = CallFields
  BY DEF NameInv, TagInv, BoardInv, CreatesAreKept
<1>1. CASE Arm
  BY <1>0, <1>1, SameNames DEF Arm
<1>2. ASSUME NEW p \in Creators, NEW call, Calls(p, call), UNCHANGED <<world, items>>,
             \/ call.stage = "idle"
             \/ world.provider = "fake" /\ call.queued \in NativeNames
      PROVE  NamesHold'
  <2>1. creates'[p] = call /\ \A q \in Creators \ {p} : creates'[q] = creates[q]
    BY <1>0, <1>2 DEF Calls
  <2> QED
    BY <1>0, <1>2, <2>1, NamesAreOfWorld DEF NamesHold, Idle
<1>3. ASSUME NEW p \in Creators, Begin(p)
      PROVE  NamesHold'
  <2>1. world.provider = "fake" /\ UNCHANGED <<world, items>>
    <3>1. world \in Worlds /\ world.creators # {}
      BY <1>0, <1>3 DEF Begin, WorldIsKept
    <3>2. world.provider = "fake"
      BY <3>1, BoardsAssumption
    <3> QED
      BY <1>3, <3>2 DEF Begin
  <2>2. PICK i, todo : Begins(p, i, todo)
    BY <1>3 DEF Begin
  <2> DEFINE config == Config(world.provider, toml)
             call   == [stage |-> "peek", queued |-> FirstNative(config, "queued"),
                        item |-> i, todo |-> todo, peeked |-> 0, armed |-> 0, made |-> 0]
  <2>3. FirstNative(config, "queued") \in NativeNames
    BY <1>0, <1>3, <2>1, FirstNamesAreKnown DEF Begin, WorldIsKept
  <2>4. Calls(p, call) /\ call.queued \in NativeNames
    BY <2>2, <2>3 DEF Begins
  <2> HIDE DEF call
  <2> QED
    BY <1>2, <2>1, <2>4
<1>4. ASSUME NEW p \in Creators, Peek(p) \/ Take(p) \/ CreatorDies(p)
      PROVE  NamesHold'
  <2>1. ~ Idle(p) /\ UNCHANGED <<world, items>>
    BY <1>4 DEF Peek, Take, CreatorDies, Idle
  <2>2. \/ Over(p)
        \/ \E stage, peeked : Calls(p, [creates[p] EXCEPT !.stage = stage, !.peeked = peeked])
        \/ \E stage, armed : Calls(p, [creates[p] EXCEPT !.stage = stage, !.armed = armed])
    BY <1>4 DEF Peek, Take, CreatorDies
  <2>3. PICK call : /\ Calls(p, call)
                    /\ call.stage = "idle" \/ call.queued = creates[p].queued
    <3>1. ASSUME NEW stage, NEW peeked
          PROVE  [creates[p] EXCEPT !.stage = stage, !.peeked = peeked].queued = creates[p].queued
      BY <1>0 DEF CallFields
    <3>2. ASSUME NEW stage, NEW armed
          PROVE  [creates[p] EXCEPT !.stage = stage, !.armed = armed].queued = creates[p].queued
      BY <1>0 DEF CallFields
    <3>3. [creates[p] EXCEPT !.stage = "idle"].stage = "idle"
      BY <1>0 DEF CallFields
    <3>4. CASE Over(p)
      BY <3>3, <3>4 DEF Over
    <3>5. ASSUME NEW stage, NEW peeked,
                 Calls(p, [creates[p] EXCEPT !.stage = stage, !.peeked = peeked])
          PROVE  \E call : Calls(p, call) /\ call.queued = creates[p].queued
      BY <3>1, <3>5
    <3>6. ASSUME NEW stage, NEW armed,
                 Calls(p, [creates[p] EXCEPT !.stage = stage, !.armed = armed])
          PROVE  \E call : Calls(p, call) /\ call.queued = creates[p].queued
      BY <3>2, <3>6
    <3> QED
      BY <2>2, <3>4, <3>5, <3>6
  <2> QED
    BY <1>0, <1>2, <2>1, <2>3 DEF NamesHold
<1>5. ASSUME NEW p \in Creators, Write(p)
      PROVE  NamesHold'
  <2> DEFINE write == Head(creates[p].todo)
             id    == IF write.op = "create" THEN NextId ELSE creates[p].item
             item  == Written(items[id], write, p)
  <2>1. /\ id \in Ids /\ items' = [items EXCEPT ![id] = item]
        /\ world' = world /\ creates[p].stage = "write"
    BY <1>5 DEF Write
  <2>2. world.provider = "fake" /\ creates[p].queued \in NativeNames
    BY <1>0, <2>1 DEF NamesHold, Idle
  <2>3. items[id].native \in NativeNames /\ DOMAIN items[id] = ItemFields
    BY <1>0, <2>1 DEF NamesHold, ItemsAreWhole
  <2>4. item.native \in NativeNames
    <3>1. CASE write.op = "create"
      <4>1. item.native = Partial
        BY <3>1 DEF Written, NewItem
      <4> QED
        BY <2>2, <4>1, NamesByProvider
    <3>2. CASE write.op # "create"
      <4>1. \/ item = [items[id] EXCEPT !.parent = write.to]
            \/ item = [items[id] EXCEPT !.predecessors = @ \cup {write.to}]
            \/ item = [items[id] EXCEPT !.native = creates[p].queued]
        BY <3>2 DEF Written
      <4> HIDE DEF item, id, write
      <4> QED
        BY <2>2, <2>3, <4>1 DEF ItemFields
    <3> QED
      BY <3>1, <3>2
  <2>5. PICK stage, rest, made :
          creates' = [creates EXCEPT ![p] = [creates[p] EXCEPT
            !.stage = stage, !.item = id, !.todo = rest, !.made = made]]
    BY <1>5 DEF Write, Calls
  <2> HIDE DEF item, id, write
  <2>6. /\ creates'[p].queued = creates[p].queued
        /\ \A q \in Creators \ {p} : creates'[q] = creates[q]
    BY <1>0, <2>5 DEF CallFields
  <2>7. \A j \in Ids : items'[j] = IF j = id THEN item ELSE items[j]
    BY <1>0, <2>1 DEF ItemsAreWhole
  <2> QED
    BY <1>0, <2>1, <2>2, <2>4, <2>6, <2>7, NamesAreOfWorld DEF NamesHold, Idle
<1> QED
  BY <1>1, <1>3, <1>4, <1>5 DEF Creates, Create

(* A tick stamps the name it read, and writes the first name of a bucket:  *)
(* a column, where the service has the last word on it.                    *)
LEMMA TickKeepsNames ==
  ASSUME NameInv, NEW t \in Ticks, Tick(t)
  PROVE  NamesHold'
<1>0. NamesHold /\ ItemsAreWhole /\ WorldIsKept /\ ConfigIsRead(t) /\ columns \subseteq NativeNames
  BY ColumnsAreNames DEF NameInv, TagInv, BoardInv, TickInv
<1>1. CASE Stamp(t)
  <2>1. Loaded(t) /\ UNCHANGED <<world, items, creates>>
    BY <1>1 DEF Stamp, At, Loaded, boardVars
  <2>2. ticks[t].config.name \in FleetNames
    BY <2>1 DEF NameInv, TagInv, EInv, OneNameOnePrefix
  <2>3. stamp' = stamp \/ stamp' = ticks[t].config.name
    BY <1>1 DEF Stamp
  <2> QED
    BY <1>0, <2>1, <2>2, <2>3, NamesAreOfWorld DEF NamesHold, Idle
<1>2. ASSUME NEW i \in Ids, SetState(t, i)
      PROVE  NamesHold'
  <2>1. PICK call \in DOMAIN Goal :
          LET status == FirstNative(ticks[t].config, Goal[call]) IN
          /\ StateCall(t, i, call)
          /\ \/ items' = items
             \/ /\ world.provider = "fake" \/ status \in columns
                /\ items' = [items EXCEPT ![i].native = NativeAfter(@, status)]
    BY <1>2 DEF SetState
  <2> DEFINE status == FirstNative(ticks[t].config, Goal[call])
  <2>2. UNCHANGED <<world, creates, stamp>>
    BY <1>2 DEF SetState
  <2>3. CASE items' = items
    BY <1>0, <2>2, <2>3, SameNames
  <2>4. CASE items' # items
    <3>1. Loaded(t) /\ Goal[call] \in {"queued", "active"}
      BY <2>1 DEF StateCall, Turn, At, Loaded, Goal
    <3>2. status \in NativeNames
      <4>1. CASE status \in columns
        BY <1>0, <4>1
      <4>2. CASE status \notin columns
        BY <1>0, <2>1, <2>4, <3>1, <4>2, FirstNamesAreKnown DEF ConfigIsRead
      <4> QED
        BY <4>1, <4>2
    <3>3. NativeAfter(items[i].native, status) \in NativeNames
      BY <1>0, <3>2 DEF NativeAfter, NamesHold
    <3> QED
      BY <1>0, <2>1, <2>2, <2>4, <3>3, OneNameChanges
  <2> QED
    BY <2>3, <2>4
<1>3. ASSUME NEW i \in Ids, Call(t, i), ~ SetState(t, i)
      PROVE  NamesHold'
  <2>1. /\ UNCHANGED <<world, creates, stamp>>
        /\ items' = items \/ \E tags : items' = [items EXCEPT ![i].tags = tags]
    BY <1>3 DEF Call, Absorbed, LookAtIssue, TagOne, ReadTags, PatchTags, VerifyTags,
                WriteClaimedAt, Launch, boardVars, root
  <2> QED
    BY <1>0, <2>1, SameNames, TagsKeepNames
<1>4. CASE ~ Stamp(t) /\ ~ \E i \in Ids : Call(t, i)
  <2>1. UNCHANGED <<world, items, creates, stamp>>
    BY <1>4 DEF Tick, LoadConfig, ValidateConfig, TryLock, ReadBuckets, Decide, EndTick,
                TickDies, boardVars, root
  <2> QED
    BY <1>0, <2>1, SameNames
<1> QED
  BY <1>1, <1>2, <1>3, <1>4

LEMMA NextKeepsNameInv ==
  ASSUME NameInv, [Next]_entryVars
  PROVE  NameInv'
<1>1. TagInv' /\ NamesHold
  BY NextKeepsTagInv DEF NameInv
<1>2. CASE \E t \in Ticks : Tick(t)
  BY <1>1, <1>2, TickKeepsNames DEF NameInv
<1>3. CASE Operator
  <2>1. UNCHANGED <<world, items, creates, stamp>>
    BY <1>3 DEF Operator, EditToml, ClearRoot, root
  <2> QED
    BY <1>1, <2>1, SameNames DEF NameInv
<1>4. CASE (People \/ Creates) /\ UNCHANGED <<root, ticks>>
  BY <1>1, <1>4, PeopleKeepNames, CreatesKeepNames DEF root, NameInv
<1>5. CASE UNCHANGED entryVars
  BY <1>1, <1>5, SameNames DEF entryVars, boardVars, root, NameInv
<1> QED
  BY <1>2, <1>3, <1>4, <1>5 DEF Next

LEMMA InitHasNameInv ==
  ASSUME Init
  PROVE  NameInv
<1>1. PICK w \in Worlds : InitialBoard(w) /\ \E r \in w.roots : stamp = r.stamp
  BY DEF Init
<1>2. /\ world = w /\ columns = w.columns /\ items \in w.items
      /\ \A p \in Creators : Idle(p)
  BY <1>1 DEF InitialBoard, Idle
<1>3. stamp \in FleetNames \cup {Unset}
  BY <1>1, RootsAssumption
<1>4. ASSUME NEW i \in Ids
      PROVE  items[i].native \in NativeNames
  <2>1. columns \subseteq UNION world.layouts
    BY <1>2, BoardsAssumption
  <2>2. CASE world.provider = "ado"
    <3>1. items[i].native \in {Absent} \cup columns
      BY <1>2, <2>2, BoardsAssumption
    <3> QED
      BY <2>1, <3>1, NamesByProvider
  <2>3. CASE world.provider = "github"
    <3>1. items[i].native \in {Absent} \cup columns \cup ClosedNames
      BY <1>2, <2>3, BoardsAssumption
    <3> QED
      BY <2>1, <2>3, <3>1, NamesByProvider
  <2>4. CASE world.provider = "fake"
    <3>1. items[i].native \in FakeNames
      BY <1>2 DEF FakeNames
    <3> QED
      BY <2>4, <3>1, NamesByProvider
  <2>5. world.provider \in Providers
    BY <1>2, BoardsAssumption
  <2> QED
    BY <2>2, <2>3, <2>4, <2>5 DEF Providers
<1> QED
  BY <1>2, <1>3, <1>4, InitHasTagInv DEF NameInv, NamesHold

LEMMA FormsAreCalls ==
  PlanForms \subseteq Seq({"activate", "requeue", "tag", "untag", "mark", "launch"})
<1> DEFINE S == {"activate", "requeue", "tag", "untag", "mark", "launch"}
<1>1. /\ <<>> \in Seq(S) /\ ClaimCalls \in Seq(S) /\ <<"tag", "mark", "launch">> \in Seq(S)
      /\ <<"mark", "launch">> \in Seq(S) /\ <<"launch">> \in Seq(S)
  BY DEF ClaimCalls
<1>2. RetryCalls \in Seq(S) /\ <<"requeue">> \in Seq(S) /\ ReleaseCalls \in Seq(S)
  BY DEF RetryCalls, ReleaseCalls
<1> QED
  BY <1>1, <1>2 DEF PlanForms

(* native_state, set_state, create_increment, write_fleet_stamp: whatever  *)
(* ticks, creates, people and edits of squadra.toml and of the columns do, *)
(* an item of a service is in a column the board has had or, on GitHub,    *)
(* closed, and never partial there; one of the fake board may besides be   *)
(* partial or under a configured name; the root is stamped with a name     *)
(* some squadra.toml may have; and what is left of a program of board      *)
(* calls is made of the six calls there are.                               *)
THEOREM EntryTypeCorrect == Spec => []EntryTypeOK
<1>1. Init => NameInv
  BY InitHasNameInv
<1>2. NameInv /\ [Next]_entryVars => NameInv'
  BY NextKeepsNameInv
<1>3. ASSUME NameInv
      PROVE  EntryTypeOK
  <2>1. \A t \in Ticks : ticks[t].stage \in Stages
    BY <1>3 DEF NameInv, TagInv, EInv, TicksAreRecords
  <2>2. \A t \in Ticks : \A i \in Ids : ticks[t].plan[i] \in PlanForms
    BY <1>3 DEF NameInv, TagInv, TickInv, PlansAreForBoard
  <2>3. lock \in Ticks \cup {Nobody}
    BY <1>3 DEF NameInv, TagInv, EInv, LockIsHeld
  <2> QED
    BY <1>3, <2>1, <2>2, <2>3, FormsAreCalls DEF NameInv, NamesHold, EntryTypeOK
<1> QED
  BY <1>1, <1>2, <1>3, PTL DEF Spec

=============================================================================
