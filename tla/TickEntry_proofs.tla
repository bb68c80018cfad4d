-------------------------- MODULE TickEntry_proofs --------------------------
(***************************************************************************)
(* Proofs about TickEntry, for any board, fleet roots, texts of            *)
(* squadra.toml, number of ticks and bounds.                               *)
(***************************************************************************)
EXTENDS TickEntry, TLAPS

Fields == {"stage", "config", "dry", "since", "reads", "seen", "plan", "io", "read"}

TicksAreRecords ==
  /\ DOMAIN ticks = Ticks
  /\ \A t \in Ticks : DOMAIN ticks[t] = Fields /\ ticks[t].stage \in Stages
  /\ DOMAIN dirs = Ids

(* Whoever is past the lock holds it, and nobody else does.                *)
LockIsHeld ==
  /\ lock \in Ticks \cup {Nobody}
  /\ \A t \in Ticks : ticks[t].stage \in {"locked", "gather", "act"} <=> lock = t

Loaded(t) == ticks[t].stage # "off"

(* The configuration of a process that has one is of a text of the file.   *)
AgreesWith(config, raw) == config.name = raw.name => config.prefix = Prefix(raw)

ConfigAgrees(config, mark, claims) ==
  config.name = mark \/ (mark = Unset /\ config.prefix_explicit)
    => \A i \in Ids : claims[i] \in {Unset, config.prefix}

(* Configurations of one name have one prefix, the one of squadra.toml,    *)
(* and the claims on the root have it if the stamp lets the tick at them.  *)
OneNameOnePrefix ==
  /\ ClaimsAgree(toml, stamp, dirs)
  /\ \A t \in Ticks : Loaded(t) =>
       LET config == ticks[t].config IN
         /\ config.name \in FleetNames
         /\ AgreesWith(config, toml)
         /\ ConfigAgrees(config, stamp, dirs)
         /\ \A u \in Ticks : Loaded(u) /\ ticks[u].config.name = config.name
              => ticks[u].config.prefix = config.prefix

EInv ==
  /\ TicksAreRecords
  /\ LockIsHeld
  /\ OneNameOnePrefix
  /\ ActingTickOwnsTheRoot

Untouched == <<toml, stamp, dirs>>

-----------------------------------------------------------------------------
(* Steps of one tick that leave the root and its text alone.               *)

(* A tick that goes on, with its configuration, at the same or at another  *)
(* stage that has the same rights.                                         *)
Continues(t, tick) ==
  /\ DOMAIN tick = Fields
  /\ tick.config = ticks[t].config /\ tick.dry = ticks[t].dry
  /\ \/ tick.stage = ticks[t].stage
     \/ tick.stage = "valid" /\ ticks[t].stage = "loaded"
     \/ tick.stage = "act" /\ ticks[t].stage = "gather"

LEMMA MovesOne ==
  ASSUME TicksAreRecords, NEW t \in Ticks, NEW tick, Moves(t, tick)
  PROVE  /\ DOMAIN ticks' = Ticks
         /\ ticks'[t] = tick
         /\ \A u \in Ticks \ {t} : ticks'[u] = ticks[u]
BY DEF TicksAreRecords, Moves

LEMMA ContinuesKeepsEInv ==
  ASSUME EInv, NEW t \in Ticks, NEW tick, Moves(t, tick), Continues(t, tick),
         lock' = lock, UNCHANGED Untouched
  PROVE  EInv'
<1>1. /\ DOMAIN ticks' = Ticks
      /\ ticks'[t] = tick
      /\ \A u \in Ticks \ {t} : ticks'[u] = ticks[u]
  BY MovesOne DEF EInv
<1>2. \A u \in Ticks : /\ DOMAIN ticks'[u] = Fields /\ ticks'[u].stage \in Stages
                       /\ ticks'[u].config = ticks[u].config
                       /\ ticks'[u].dry = ticks[u].dry
                       /\ Loaded(u)' <=> Loaded(u)
                       /\ Acting(u)' <=> Acting(u)
                       /\ ticks'[u].stage \in {"locked", "gather", "act"}
                            <=> ticks[u].stage \in {"locked", "gather", "act"}
  BY <1>1 DEF EInv, TicksAreRecords, Continues, Loaded, Acting, Stages
<1>3. toml' = toml /\ stamp' = stamp /\ dirs' = dirs
  BY DEF Untouched
<1>4. TicksAreRecords'
  BY <1>1, <1>2, <1>3 DEF EInv, TicksAreRecords
<1>5. LockIsHeld'
  BY <1>2 DEF EInv, LockIsHeld
<1>6. OneNameOnePrefix'
  BY <1>2, <1>3 DEF EInv, OneNameOnePrefix, ClaimsAgree, Prefix, AgreesWith, ConfigAgrees
<1>7. ActingTickOwnsTheRoot'
  BY <1>2, <1>3 DEF EInv, ActingTickOwnsTheRoot
<1> QED
  BY <1>4, <1>5, <1>6, <1>7 DEF EInv

LEMMA ExitsKeepsEInv ==
  ASSUME EInv, NEW t \in Ticks, Exits(t), UNCHANGED Untouched
  PROVE  EInv'
<1>1. /\ DOMAIN ticks' = Ticks
      /\ ticks'[t] = Off
      /\ \A u \in Ticks \ {t} : ticks'[u] = ticks[u]
  BY MovesOne DEF EInv, Exits
<1>2. /\ DOMAIN Off = Fields /\ Off.stage = "off"
  BY DEF Off, Fields
<1>3. toml' = toml /\ stamp' = stamp /\ dirs' = dirs
  BY DEF Untouched
<1>4. TicksAreRecords'
  BY <1>1, <1>2, <1>3 DEF EInv, TicksAreRecords, Stages
<1>5. LockIsHeld'
  BY <1>1, <1>2, NamesAssumption DEF EInv, LockIsHeld, Exits
<1>6. \A u \in Ticks : Loaded(u)' => Loaded(u) /\ ticks'[u] = ticks[u]
  BY <1>1, <1>2 DEF Loaded
<1>7. OneNameOnePrefix'
  BY <1>3, <1>6 DEF EInv, OneNameOnePrefix, ClaimsAgree, Prefix, AgreesWith, ConfigAgrees
<1>8. \A u \in Ticks : Acting(u)' => Acting(u) /\ u # t /\ ticks'[u] = ticks[u]
  BY <1>1, <1>2 DEF Acting
<1>9. ActingTickOwnsTheRoot'
  BY <1>3, <1>8 DEF EInv, ActingTickOwnsTheRoot, Exits
<1> QED
  BY <1>4, <1>5, <1>7, <1>9 DEF EInv

-----------------------------------------------------------------------------
(* The steps that read squadra.toml, take the lock, write the stamp or an  *)
(* increment directory.                                                    *)

LEMMA LoadKeepsEInv ==
  ASSUME EInv, NEW t \in Ticks, LoadConfig(t)
  PROVE  EInv'
<1> DEFINE config == Config(world.provider, toml)
<1>1. PICK dry \in world.dry :
        Moves(t, [Off EXCEPT !.stage = "loaded", !.dry = dry, !.config = config])
  BY DEF LoadConfig
<1> DEFINE tick == [Off EXCEPT !.stage = "loaded", !.dry = dry, !.config = config]
<1>2. DOMAIN tick = Fields /\ tick.stage = "loaded" /\ tick.config = config
  BY DEF Off, Fields
<1> HIDE DEF tick
<1>3. /\ DOMAIN ticks' = Ticks
      /\ ticks'[t] = tick
      /\ \A u \in Ticks \ {t} : ticks'[u] = ticks[u]
  BY <1>1, MovesOne DEF EInv, tick
<1>4. /\ toml' = toml /\ stamp' = stamp /\ dirs' = dirs /\ lock' = lock
      /\ ticks[t].stage = "off"
  BY DEF LoadConfig, boardVars, root, At
<1>5. /\ config.name = toml.name /\ config.prefix = Prefix(toml)
      /\ config.prefix_explicit = (toml.tag_prefix # Unset)
      /\ config.name \in FleetNames
  BY DEF LoadConfig, Config, Prefix, ConfigIsSound
<1> HIDE DEF config
<1>6. TicksAreRecords'
  BY <1>2, <1>3, <1>4 DEF EInv, TicksAreRecords, Stages
<1>7. LockIsHeld'
  BY <1>2, <1>3, <1>4 DEF EInv, LockIsHeld
<1>8. OneNameOnePrefix'
  <2>1. ClaimsAgree(toml, stamp, dirs)'
    BY <1>4 DEF EInv, OneNameOnePrefix, ClaimsAgree, Prefix
  <2>2. /\ AgreesWith(config, toml)
        /\ ConfigAgrees(config, stamp, dirs)
    BY <1>5 DEF AgreesWith, ConfigAgrees, EInv, OneNameOnePrefix, ClaimsAgree
  <2>3. \A u \in Ticks : Loaded(u) /\ ticks[u].config.name = config.name
                          => ticks[u].config.prefix = config.prefix
    BY <1>5 DEF EInv, OneNameOnePrefix, AgreesWith
  <2>4. \A u \in Ticks : Loaded(u)' =>
          (ticks'[u].config = config /\ u = t) \/ (Loaded(u) /\ ticks'[u] = ticks[u])
    BY <1>2, <1>3 DEF Loaded
  <2>5. \A u, v \in Ticks :
          Loaded(u)' /\ Loaded(v)' /\ ticks'[u].config.name = ticks'[v].config.name
            => ticks'[u].config.prefix = ticks'[v].config.prefix
    BY <2>3, <2>4 DEF EInv, OneNameOnePrefix
  <2>6. \A u \in Ticks : Loaded(u)' =>
          LET own == ticks'[u].config IN
            own.name \in FleetNames /\ AgreesWith(own, toml) /\ ConfigAgrees(own, stamp, dirs)
    BY <1>5, <2>2, <2>4 DEF EInv, OneNameOnePrefix
  <2>7. \A u \in Ticks : Loaded(u)' =>
          LET own == ticks'[u].config IN AgreesWith(own, toml') /\ ConfigAgrees(own, stamp', dirs')
    BY <1>4, <2>6 DEF AgreesWith, ConfigAgrees, Prefix
  <2> QED
    BY <2>1, <2>5, <2>6, <2>7 DEF OneNameOnePrefix
<1>9. ActingTickOwnsTheRoot'
  <2>1. \A u \in Ticks : Acting(u)' => Acting(u) /\ ticks'[u] = ticks[u]
    BY <1>2, <1>3 DEF Acting
  <2> QED
    BY <1>4, <2>1 DEF EInv, ActingTickOwnsTheRoot
<1> QED
  BY <1>6, <1>7, <1>8, <1>9 DEF EInv

LEMMA TryLockKeepsEInv ==
  ASSUME EInv, NEW t \in Ticks, TryLock(t)
  PROVE  EInv'
<1>1. CASE lock # Nobody
  <2>1. Exits(t)
    <3>1. LockIsHeld /\ ticks[t].stage = "valid" /\ lock' = lock /\ Moves(t, Off)
      BY <1>1 DEF TryLock, At, EInv
    <3>2. lock # t
      BY <3>1 DEF LockIsHeld
    <3> QED
      BY <3>1, <3>2 DEF Exits, LockIsHeld
  <2> QED
    BY <2>1, ExitsKeepsEInv DEF TryLock, boardVars, Untouched
<1>2. CASE lock = Nobody
  <2> DEFINE tick == [ticks[t] EXCEPT !.stage = "locked"]
  <2>1. /\ Moves(t, tick) /\ lock' = t /\ ticks[t].stage = "valid"
        /\ toml' = toml /\ stamp' = stamp /\ dirs' = dirs
    BY <1>2 DEF TryLock, At, boardVars
  <2>2. DOMAIN tick = Fields /\ tick.stage = "locked" /\ tick.config = ticks[t].config
    BY DEF EInv, TicksAreRecords, Fields
  <2> HIDE DEF tick
  <2>3. /\ DOMAIN ticks' = Ticks
        /\ ticks'[t] = tick
        /\ \A u \in Ticks \ {t} : ticks'[u] = ticks[u]
    BY <2>1, MovesOne DEF EInv
  <2>4. \A u \in Ticks : ticks[u].stage \notin {"locked", "gather", "act"}
    BY <1>2, NamesAssumption DEF EInv, LockIsHeld
  <2>5. TicksAreRecords'
    BY <2>1, <2>2, <2>3 DEF EInv, TicksAreRecords, Stages
  <2>6. LockIsHeld'
    <3>1. \A u \in Ticks : ticks'[u].stage \in {"locked", "gather", "act"} <=> u = t
      BY <2>2, <2>3, <2>4
    <3> QED
      BY <2>1, <3>1 DEF LockIsHeld
  <2>7. \A u \in Ticks : /\ ticks'[u].config = ticks[u].config
                         /\ Loaded(u)' => Loaded(u)
                         /\ ~ Acting(u)'
    BY <2>1, <2>2, <2>3, <2>4 DEF Loaded, Acting
  <2>8. OneNameOnePrefix'
    BY <2>1, <2>7 DEF EInv, OneNameOnePrefix, ClaimsAgree, Prefix, AgreesWith, ConfigAgrees
  <2>9. ActingTickOwnsTheRoot'
    BY <2>7 DEF ActingTickOwnsTheRoot
  <2> QED
    BY <2>5, <2>6, <2>8, <2>9 DEF EInv
<1> QED
  BY <1>1, <1>2

(* A stamp is written by a tick that was not refused, so the claims under  *)
(* it are its own; a dry tick leaves the stamp as it finds it.             *)
LEMMA StampKeepsEInv ==
  ASSUME EInv, NEW t \in Ticks, Stamp(t)
  PROVE  EInv'
<1> DEFINE config == ticks[t].config
<1>1. CASE StampRefuses(config)
  BY <1>1, ExitsKeepsEInv DEF Stamp, boardVars, Untouched
<1>2. CASE ~ StampRefuses(config)
  <2> DEFINE tick == [ticks[t] EXCEPT !.stage = "gather", !.reads = Lists]
  <2>1. /\ Moves(t, tick) /\ lock' = lock /\ ticks[t].stage = "locked"
        /\ stamp' = (IF ticks[t].dry THEN stamp ELSE config.name)
        /\ toml' = toml /\ dirs' = dirs
    BY <1>2 DEF Stamp, At, boardVars
  <2>2. /\ DOMAIN tick = Fields /\ tick.stage = "gather"
        /\ tick.config = config /\ tick.dry = ticks[t].dry
    BY DEF EInv, TicksAreRecords, Fields
  <2> HIDE DEF tick
  <2>3. /\ DOMAIN ticks' = Ticks
        /\ ticks'[t] = tick
        /\ \A u \in Ticks \ {t} : ticks'[u] = ticks[u]
    BY <2>1, MovesOne DEF EInv
  <2>4. TicksAreRecords'
    BY <2>1, <2>2, <2>3 DEF EInv, TicksAreRecords, Stages
  <2>5. LockIsHeld'
    BY <2>1, <2>2, <2>3 DEF EInv, LockIsHeld
  <2>6. \A u \in Ticks : /\ ticks'[u].config = ticks[u].config
                         /\ ticks'[u].dry = ticks[u].dry
                         /\ Loaded(u)' <=> Loaded(u)
    BY <2>1, <2>2, <2>3 DEF Loaded
  <2>7. Loaded(t) /\ config.name \in FleetNames /\ config.name # Unset
    BY <2>1, NamesAssumption DEF Loaded, EInv, OneNameOnePrefix
  <2>8. \A i \in Ids : dirs[i] \in {Unset, config.prefix}
    BY <1>2, <2>7 DEF StampRefuses, HasIncrementDirs, EInv, OneNameOnePrefix, ConfigAgrees
  <2>9. OneNameOnePrefix'
    <3>1. CASE ticks[t].dry
      BY <2>1, <2>6, <3>1 DEF EInv, OneNameOnePrefix, ClaimsAgree, Prefix, AgreesWith, ConfigAgrees
    <3>2. CASE ~ ticks[t].dry
      <4>1. stamp' = config.name
        BY <2>1, <3>2
      <4>2. ClaimsAgree(toml, stamp, dirs)'
        BY <2>1, <2>7, <2>8, <4>1 DEF EInv, OneNameOnePrefix, ClaimsAgree, AgreesWith, Prefix
      <4>3. \A u \in Ticks : Loaded(u) => ConfigAgrees(ticks'[u].config, stamp', dirs')
        <5>1. TAKE u \in Ticks
        <5>2. HAVE Loaded(u)
        <5>3. ticks'[u].config = ticks[u].config
          BY <2>6
        <5>4. CASE ticks[u].config.name = config.name
          BY <2>1, <2>7, <2>8, <5>2, <5>3, <5>4 DEF EInv, OneNameOnePrefix, ConfigAgrees
        <5>5. CASE ticks[u].config.name # config.name
          BY <2>7, <4>1, <5>3, <5>5 DEF ConfigAgrees
        <5> QED
          BY <5>4, <5>5
      <4> QED
        BY <2>1, <2>6, <4>2, <4>3 DEF EInv, OneNameOnePrefix, AgreesWith, Prefix
    <3> QED
      BY <3>1, <3>2
  <2>10. ActingTickOwnsTheRoot'
    <3>1. \A u \in Ticks \ {t} : ~ Acting(u)'
      BY <2>1, <2>3 DEF Acting, EInv, LockIsHeld
    <3> QED
      BY <2>1, <2>5, <2>6, <2>8, <2>2, <2>3, <3>1 DEF ActingTickOwnsTheRoot, LockIsHeld
  <2> QED
    BY <2>4, <2>5, <2>9, <2>10 DEF EInv
<1> QED
  BY <1>1, <1>2

(* The claimed-at marker is written by a tick that holds the lock.         *)
LEMMA MarkKeepsEInv ==
  ASSUME EInv, NEW t \in Ticks, NEW i \in Ids, WriteClaimedAt(t, i)
  PROVE  EInv'
<1> DEFINE config == ticks[t].config
<1>1. /\ ticks[t].stage = "act" /\ ~ ticks[t].dry
      /\ dirs' = [dirs EXCEPT ![i] = config.prefix]
      /\ toml' = toml /\ stamp' = stamp /\ lock' = lock
  BY DEF WriteClaimedAt, Turn, At, boardVars
<1> DEFINE tick == [ticks[t] EXCEPT !.plan[i] = Tail(@), !.io = "call", !.read = {},
                                    !.since = ticks[t].since]
<1>2. Moves(t, tick)
  BY DEF WriteClaimedAt, Done, DoneSince
<1>3. /\ DOMAIN tick = Fields /\ tick.stage = "act"
      /\ tick.config = config /\ tick.dry = ticks[t].dry
  BY <1>1 DEF EInv, TicksAreRecords, Fields
<1> HIDE DEF tick
<1>4. /\ DOMAIN ticks' = Ticks
      /\ \A u \in Ticks : /\ DOMAIN ticks'[u] = Fields
                          /\ ticks'[u].stage = ticks[u].stage
                          /\ ticks'[u].config = ticks[u].config
                          /\ ticks'[u].dry = ticks[u].dry
  BY <1>1, <1>2, <1>3, MovesOne DEF EInv, TicksAreRecords
<1>5. /\ DOMAIN dirs' = Ids
      /\ \A j \in Ids : dirs'[j] = dirs[j] \/ dirs'[j] = config.prefix
  BY <1>1 DEF EInv, TicksAreRecords
<1>6. lock = t /\ stamp = config.name /\ Loaded(t)
  BY <1>1 DEF EInv, ActingTickOwnsTheRoot, Acting, Loaded
<1>7. config.name # Unset
  BY <1>6, NamesAssumption DEF EInv, OneNameOnePrefix
<1>8. TicksAreRecords'
  BY <1>4, <1>5 DEF EInv, TicksAreRecords
<1>9. LockIsHeld'
  BY <1>1, <1>4 DEF EInv, LockIsHeld
<1>10. OneNameOnePrefix'
  <2>1. ClaimsAgree(toml, stamp, dirs)'
    <3>1. CASE toml.name = config.name
      BY <1>1, <1>5, <1>6, <3>1
      DEF EInv, OneNameOnePrefix, ClaimsAgree, AgreesWith, Prefix
    <3>2. CASE toml.name # config.name
      BY <1>1, <1>6, <1>7, <3>2 DEF ClaimsAgree
    <3> QED
      BY <3>1, <3>2
  <2>2. ASSUME NEW u \in Ticks, Loaded(u)
        PROVE  ConfigAgrees(ticks[u].config, stamp, dirs')
    <3>1. CASE ticks[u].config.name = config.name
      BY <1>5, <1>6, <2>2, <3>1 DEF EInv, OneNameOnePrefix, ConfigAgrees
    <3>2. CASE ticks[u].config.name # config.name
      BY <1>6, <1>7, <3>2 DEF ConfigAgrees
    <3> QED
      BY <3>1, <3>2
  <2>3. ASSUME NEW u \in Ticks, Loaded(u)'
        PROVE  /\ Loaded(u)
               /\ ConfigAgrees(ticks'[u].config, stamp', dirs')
               /\ AgreesWith(ticks'[u].config, toml')
               /\ ticks'[u].config.name \in FleetNames
    <3>1. Loaded(u) /\ ticks'[u].config = ticks[u].config
      BY <1>4, <2>3 DEF Loaded
    <3>2. ConfigAgrees(ticks[u].config, stamp, dirs') /\ stamp' = stamp /\ toml' = toml
      BY <1>1, <2>2, <3>1
    <3>3. /\ AgreesWith(ticks[u].config, toml)
          /\ ticks[u].config.name \in FleetNames
      BY <3>1 DEF EInv, OneNameOnePrefix
    <3> QED
      BY <3>1, <3>2, <3>3 DEF ConfigAgrees, AgreesWith, Prefix
  <2>4. ASSUME NEW u \in Ticks, NEW v \in Ticks, Loaded(u)', Loaded(v)',
               ticks'[v].config.name = ticks'[u].config.name
        PROVE  ticks'[v].config.prefix = ticks'[u].config.prefix
    BY <1>4, <2>3, <2>4 DEF EInv, OneNameOnePrefix
  <2> QED
    BY <2>1, <2>3, <2>4 DEF OneNameOnePrefix
<1>11. ActingTickOwnsTheRoot'
  BY <1>1, <1>4, <1>5, <1>6 DEF EInv, ActingTickOwnsTheRoot, Acting, LockIsHeld
<1> QED
  BY <1>8, <1>9, <1>10, <1>11 DEF EInv

LEMMA OperatorKeepsEInv ==
  ASSUME EInv, Operator
  PROVE  EInv'
<1>1. CASE EditToml
  <2>1. /\ KeepsPrefix(toml')
        /\ stamp' = stamp /\ dirs' = dirs /\ lock' = lock /\ ticks' = ticks
    BY <1>1 DEF EditToml, root
  <2>2. OneNameOnePrefix'
    BY <2>1 DEF EInv, OneNameOnePrefix, KeepsPrefix, ClaimsAgree, Prefix, AgreesWith,
                ConfigAgrees, Loaded, At
  <2> QED
    BY <2>1, <2>2 DEF EInv, TicksAreRecords, LockIsHeld, ActingTickOwnsTheRoot, Acting
<1>2. CASE ClearRoot
  <2>1. /\ dirs' = [i \in Ids |-> Unset]
        /\ toml' = toml /\ stamp' = stamp /\ lock' = lock /\ ticks' = ticks
    BY <1>2 DEF ClearRoot
  <2>2. OneNameOnePrefix'
    BY <2>1 DEF EInv, OneNameOnePrefix, ClaimsAgree, AgreesWith, ConfigAgrees, Prefix, Loaded
  <2> QED
    BY <2>1, <2>2 DEF EInv, TicksAreRecords, LockIsHeld, ActingTickOwnsTheRoot, Acting
<1> QED
  BY <1>1, <1>2 DEF Operator

-----------------------------------------------------------------------------

LEMMA InitHasEInv ==
  ASSUME Init
  PROVE  EInv
<1>1. PICK w \in Worlds : InitialBoard(w) /\ \E r \in w.roots : stamp = r.stamp /\ dirs = r.dirs
  BY DEF Init
<1>2. PICK r \in w.roots : stamp = r.stamp /\ dirs = r.dirs
  BY <1>1
<1>3. toml \in w.tomls
  BY <1>1 DEF InitialBoard
<1>4. DOMAIN dirs = Ids /\ ClaimsAgree(toml, stamp, dirs)
  BY <1>2, <1>3, RootsAssumption
<1>5. /\ lock = Nobody /\ DOMAIN ticks = Ticks
      /\ \A t \in Ticks : DOMAIN ticks[t] = Fields /\ ticks[t].stage = "off"
  BY DEF Init, Off, Fields
<1> QED
  BY <1>4, <1>5, NamesAssumption
  DEF EInv, TicksAreRecords, LockIsHeld, OneNameOnePrefix, ActingTickOwnsTheRoot,
      Loaded, Acting, Stages

(* The steps of a tick that only read the board, or write to it.           *)
LEMMA GatherKeepsEInv ==
  ASSUME EInv, NEW t \in Ticks, ReadBuckets(t) \/ Decide(t)
  PROVE  EInv'
<1>1. CASE ReadBuckets(t)
  <2>1. UNCHANGED Untouched /\ lock' = lock
    BY <1>1 DEF ReadBuckets, root, Untouched
  <2>2. \E found : Moves(t, Notes(t, found))
    BY <1>1 DEF ReadBuckets
  <2>3. PICK found : Moves(t, Notes(t, found))
    BY <2>2
  <2>4. Continues(t, Notes(t, found))
    BY DEF Continues, Notes, EInv, TicksAreRecords, Fields
  <2> QED
    BY <2>1, <2>3, <2>4, ContinuesKeepsEInv
<1>2. CASE Decide(t)
  <2>1. UNCHANGED Untouched
    BY <1>2 DEF Decide, Untouched
  <2>2. CASE Exits(t)
    BY <2>1, <2>2, ExitsKeepsEInv
  <2>3. CASE ~ Exits(t)
    <3>1. PICK plan : Moves(t, [ticks[t] EXCEPT !.stage = "act", !.plan = plan])
      BY <1>2, <2>3 DEF Decide, BlankStateRaises
    <3>2. Continues(t, [ticks[t] EXCEPT !.stage = "act", !.plan = plan])
      BY <1>2 DEF Continues, Decide, At, EInv, TicksAreRecords, Fields
    <3>3. lock' = lock
      BY <1>2, <2>3 DEF Decide, BlankStateRaises
    <3> QED
      BY <2>1, <3>1, <3>2, <3>3, ContinuesKeepsEInv
  <2> QED
    BY <2>2, <2>3
<1> QED
  BY <1>1, <1>2

(* A call that is over, given up or half made leaves its tick where it is. *)
LEMMA CallContinues ==
  ASSUME EInv, NEW t \in Ticks, NEW i \in Ids, lock' = lock, UNCHANGED Untouched,
         \/ \E since : DoneSince(t, i, since)
         \/ \E q : Moves(t, [ticks[t] EXCEPT !.plan[i] = q])
         \/ \E io, read, since :
              Moves(t, [ticks[t] EXCEPT !.io = io, !.read = read, !.since = since])
         \/ \E io, read : Moves(t, [ticks[t] EXCEPT !.io = io, !.read = read])
         \/ \E io, since : Moves(t, [ticks[t] EXCEPT !.io = io, !.since = since])
  PROVE  EInv'
<1>1. DOMAIN ticks[t] = Fields
  BY DEF EInv, TicksAreRecords
<1>2. ASSUME NEW since, DoneSince(t, i, since)
      PROVE  EInv'
  <2>1. Continues(t, [ticks[t] EXCEPT !.plan[i] = Tail(@), !.io = "call", !.read = {},
                                      !.since = since])
    BY <1>1 DEF Continues, Fields
  <2> QED
    BY <1>2, <2>1, ContinuesKeepsEInv DEF DoneSince
<1>3. ASSUME NEW q, Moves(t, [ticks[t] EXCEPT !.plan[i] = q])
      PROVE  EInv'
  <2>1. Continues(t, [ticks[t] EXCEPT !.plan[i] = q])
    BY <1>1 DEF Continues, Fields
  <2> QED
    BY <1>3, <2>1, ContinuesKeepsEInv
<1>4. ASSUME NEW io, NEW read, NEW since,
             Moves(t, [ticks[t] EXCEPT !.io = io, !.read = read, !.since = since])
      PROVE  EInv'
  <2>1. Continues(t, [ticks[t] EXCEPT !.io = io, !.read = read, !.since = since])
    BY <1>1 DEF Continues, Fields
  <2> QED
    BY <1>4, <2>1, ContinuesKeepsEInv
<1>5. ASSUME NEW io, NEW read, Moves(t, [ticks[t] EXCEPT !.io = io, !.read = read])
      PROVE  EInv'
  <2>1. Continues(t, [ticks[t] EXCEPT !.io = io, !.read = read])
    BY <1>1 DEF Continues, Fields
  <2> QED
    BY <1>5, <2>1, ContinuesKeepsEInv
<1>6. ASSUME NEW io, NEW since, Moves(t, [ticks[t] EXCEPT !.io = io, !.since = since])
      PROVE  EInv'
  <2>1. Continues(t, [ticks[t] EXCEPT !.io = io, !.since = since])
    BY <1>1 DEF Continues, Fields
  <2> QED
    BY <1>6, <2>1, ContinuesKeepsEInv
<1> QED
  BY <1>2, <1>3, <1>4, <1>5, <1>6

LEMMA CallKeepsEInv ==
  ASSUME EInv, NEW t \in Ticks, NEW i \in Ids, Call(t, i)
  PROVE  EInv'
<1>1. CASE Absorbed(t, i)
  BY <1>1, CallContinues DEF Absorbed, Done, boardVars, root, Untouched
<1>2. CASE LookAtIssue(t, i)
  <2>1. \/ \E since : DoneSince(t, i, since)
        \/ \E q : Moves(t, [ticks[t] EXCEPT !.plan[i] = q])
        \/ \E io, since : Moves(t, [ticks[t] EXCEPT !.io = io, !.since = since])
    BY <1>2 DEF LookAtIssue, GivenUp
  <2>2. UNCHANGED Untouched /\ lock' = lock
    BY <1>2 DEF LookAtIssue, boardVars, root, Untouched
  <2> QED
    BY <2>1, <2>2, CallContinues
<1>3. CASE SetState(t, i)
  <2>1. UNCHANGED Untouched
    BY <1>3 DEF SetState, Untouched
  <2>2. Exits(t) \/ ((\E since : DoneSince(t, i, since)) /\ lock' = lock)
    BY <1>3 DEF SetState
  <2> QED
    BY <2>1, <2>2, ExitsKeepsEInv, CallContinues
<1>4. CASE TagOne(t, i)
  BY <1>4, CallContinues DEF TagOne, Done, root, Untouched
<1>5. CASE ReadTags(t, i)
  <2>1. UNCHANGED Untouched /\ lock' = lock
    BY <1>5 DEF ReadTags, root, Untouched
  <2>2. \/ \E since : DoneSince(t, i, since)
        \/ \E io, read, since :
             Moves(t, [ticks[t] EXCEPT !.io = io, !.read = read, !.since = since])
    BY <1>5 DEF ReadTags, Done
  <2> QED
    BY <2>1, <2>2, CallContinues
<1>6. CASE PatchTags(t, i)
  <2>1. UNCHANGED Untouched /\ lock' = lock
    BY <1>6 DEF PatchTags, root, Untouched
  <2>2. PICK call \in {"tag", "untag"} :
          Moves(t, [ticks[t] EXCEPT !.io = "verify", !.read = Retagged(t, call, @)])
    BY <1>6 DEF PatchTags
  <2>3. \E io, read : Moves(t, [ticks[t] EXCEPT !.io = io, !.read = read])
    BY <2>2
  <2> QED
    BY <2>1, <2>3, CallContinues
<1>7. CASE VerifyTags(t, i)
  <2>1. UNCHANGED Untouched
    BY <1>7 DEF VerifyTags, Untouched
  <2>2. Exits(t) \/ ((\E since : DoneSince(t, i, since)) /\ lock' = lock)
    BY <1>7 DEF VerifyTags, Done
  <2> QED
    BY <2>1, <2>2, ExitsKeepsEInv, CallContinues
<1>8. CASE WriteClaimedAt(t, i)
  BY <1>8, MarkKeepsEInv
<1>9. CASE Launch(t, i)
  <2>1. UNCHANGED Untouched /\ lock' = lock
    BY <1>9 DEF Launch, boardVars, root, Untouched
  <2> QED
    BY <1>9, <2>1, CallContinues DEF Launch, Done
<1> QED
  BY <1>1, <1>2, <1>3, <1>4, <1>5, <1>6, <1>7, <1>8, <1>9 DEF Call

LEMMA NextKeepsEInv ==
  ASSUME EInv, [Next]_entryVars
  PROVE  EInv'
<1>1. ASSUME NEW t \in Ticks, Tick(t)
      PROVE  EInv'
  <2>1. CASE LoadConfig(t)
    BY <2>1, LoadKeepsEInv
  <2>2. CASE ValidateConfig(t)
    <3>1. UNCHANGED Untouched /\ lock' = lock /\ ticks[t].stage = "loaded"
      BY <2>2 DEF ValidateConfig, At, boardVars, root, Untouched
    <3>2. CASE Moves(t, Off)
      <4>1. lock # t
        BY <3>1 DEF EInv, LockIsHeld
      <4> QED
        BY <3>1, <3>2, <4>1, ExitsKeepsEInv DEF Exits
    <3>3. CASE Moves(t, [ticks[t] EXCEPT !.stage = "valid", !.since = left])
      <4>1. Continues(t, [ticks[t] EXCEPT !.stage = "valid", !.since = left])
        BY <3>1 DEF Continues, EInv, TicksAreRecords, Fields
      <4> QED
        BY <3>1, <3>3, <4>1, ContinuesKeepsEInv
    <3> QED
      BY <2>2, <3>2, <3>3 DEF ValidateConfig
  <2>3. CASE TryLock(t)
    BY <2>3, TryLockKeepsEInv
  <2>4. CASE Stamp(t)
    BY <2>4, StampKeepsEInv
  <2>5. CASE ReadBuckets(t) \/ Decide(t)
    BY <2>5, GatherKeepsEInv
  <2>6. CASE EndTick(t)
    BY <2>6, ExitsKeepsEInv DEF EndTick, boardVars, Untouched
  <2>7. CASE TickDies(t)
    BY <2>7, ExitsKeepsEInv DEF TickDies, Untouched
  <2>8. CASE \E i \in Ids : Call(t, i)
    BY <2>8, CallKeepsEInv
  <2> QED
    BY <1>1, <2>1, <2>2, <2>3, <2>4, <2>5, <2>6, <2>7, <2>8 DEF Tick
<1>2. CASE Operator
  BY <1>2, OperatorKeepsEInv
<1>3. CASE (People \/ Creates) /\ UNCHANGED <<root, ticks>>
  <2>1. toml' = toml
    BY <1>3 DEF People, EditColumns, PersonMoves, PersonTags, Creates, Arm, Create, Begin,
                Peek, Take, Write, CreatorDies
  <2> QED
    BY <1>3, <2>1 DEF root, EInv, TicksAreRecords, LockIsHeld, OneNameOnePrefix, ClaimsAgree,
                      Prefix, AgreesWith, ConfigAgrees, ActingTickOwnsTheRoot, Loaded, Acting
<1>4. CASE UNCHANGED entryVars
  BY <1>4 DEF entryVars, boardVars, root, EInv, TicksAreRecords, LockIsHeld, OneNameOnePrefix,
              ClaimsAgree, Prefix, AgreesWith, ConfigAgrees, ActingTickOwnsTheRoot, Loaded, Acting
<1> QED
  BY <1>1, <1>2, <1>3, <1>4 DEF Next

(* run_tick, fleet_stamp_refusal: at any time at most one process reads    *)
(* and acts on the root; it holds the lock, the root has its name unless   *)
(* the run is dry, and every claim found there is of its prefix.           *)
THEOREM RootsAreOwned == Spec => []ActingTickOwnsTheRoot
<1>1. Init => EInv
  BY InitHasEInv
<1>2. EInv /\ [Next]_entryVars => EInv'
  BY NextKeepsEInv
<1>3. EInv => ActingTickOwnsTheRoot
  BY DEF EInv
<1> QED
  BY <1>1, <1>2, <1>3, PTL DEF Spec

-----------------------------------------------------------------------------
(* What a step of one tick does to the board.                              *)

ItemsHaveStates ==
  /\ DOMAIN items = Ids
  /\ \A i \in Ids : "native" \in DOMAIN items[i]

BInv == DOMAIN ticks = Ticks /\ ItemsHaveStates

LEMMA StaysOver ==
  ASSUME ItemsHaveStates, UNCHANGED items
  PROVE  ItemsHaveStates'
BY DEF ItemsHaveStates

LEMMA RetaggingKeepsStates ==
  ASSUME ItemsHaveStates, NEW i \in Ids, NEW tags, items' = [items EXCEPT ![i].tags = tags]
  PROVE  ItemsHaveStates'
BY DEF ItemsHaveStates

LEMMA CallKeepsStates ==
  ASSUME BInv, NEW t \in Ticks, NEW i \in Ids, Call(t, i)
  PROVE  /\ DOMAIN ticks' = Ticks
         /\ \A u \in Ticks \ {t} : ticks'[u] = ticks[u]
         /\ ItemsHaveStates'
<1>1. CASE Absorbed(t, i)
  BY <1>1, StaysOver DEF Absorbed, Done, DoneSince, Moves, boardVars, root, BInv
<1>2. CASE LookAtIssue(t, i)
  BY <1>2, StaysOver DEF LookAtIssue, Done, DoneSince, GivenUp, Moves, boardVars, root, BInv
<1>3. CASE SetState(t, i)
  <2>1. PICK call \in DOMAIN Goal :
          /\ StateCall(t, i, call)
          /\ \/ Exits(t) /\ items' = items
             \/ /\ items' = [items EXCEPT ![i].native =
                               NativeAfter(@, FirstNative(ticks[t].config, Goal[call]))]
                /\ \E since : DoneSince(t, i, since)
    BY <1>3 DEF SetState
  <2>2. ItemsHaveStates'
    BY <2>1, StaysOver DEF NativeAfter, ItemsHaveStates, BInv
  <2> QED
    BY <2>1, <2>2 DEF StateCall, Exits, Done, DoneSince, Moves, BInv
<1>4. CASE TagOne(t, i)
  <2>1. PICK call \in {"tag", "untag"} :
          /\ TagCall(t, i, call) /\ Done(t, i)
          /\ items' = [items EXCEPT ![i].tags = Retagged(t, call, @)]
    BY <1>4 DEF TagOne
  <2>2. ItemsHaveStates'
    BY <2>1, RetaggingKeepsStates DEF BInv
  <2> QED
    BY <2>1, <2>2 DEF TagCall, Done, DoneSince, Moves, BInv
<1>5. CASE ReadTags(t, i)
  BY <1>5, StaysOver DEF ReadTags, Done, DoneSince, Moves, root, BInv
<1>6. CASE PatchTags(t, i)
  <2>1. PICK call \in {"tag", "untag"} :
          /\ TagCall(t, i, call)
          /\ \/ items' = [items EXCEPT ![i].tags = Retagged(t, call, ticks[t].read)]
             \/ items' = items
          /\ Moves(t, [ticks[t] EXCEPT !.io = "verify", !.read = Retagged(t, call, @)])
    BY <1>6 DEF PatchTags
  <2>2. ItemsHaveStates'
    BY <2>1, RetaggingKeepsStates, StaysOver DEF BInv
  <2> QED
    BY <2>1, <2>2 DEF TagCall, Moves, BInv
<1>7. CASE VerifyTags(t, i)
  BY <1>7, StaysOver DEF VerifyTags, Exits, Done, DoneSince, Moves, BInv
<1>8. CASE WriteClaimedAt(t, i)
  BY <1>8, StaysOver DEF WriteClaimedAt, Done, DoneSince, Moves, boardVars, BInv
<1>9. CASE Launch(t, i)
  BY <1>9, StaysOver DEF Launch, Done, DoneSince, Moves, boardVars, root, BInv
<1> QED
  BY <1>1, <1>2, <1>3, <1>4, <1>5, <1>6, <1>7, <1>8, <1>9 DEF Call

LEMMA TickKeepsStates ==
  ASSUME BInv, NEW t \in Ticks, Tick(t)
  PROVE  /\ DOMAIN ticks' = Ticks
         /\ \A u \in Ticks \ {t} : ticks'[u] = ticks[u]
         /\ ItemsHaveStates'
<1>1. CASE LoadConfig(t)
  BY <1>1, StaysOver DEF LoadConfig, Moves, boardVars, root, BInv
<1>2. CASE ValidateConfig(t)
  BY <1>2, StaysOver DEF ValidateConfig, Moves, boardVars, root, BInv
<1>3. CASE TryLock(t)
  BY <1>3, StaysOver DEF TryLock, Moves, boardVars, BInv
<1>4. CASE Stamp(t)
  BY <1>4, StaysOver DEF Stamp, Exits, Moves, boardVars, BInv
<1>5. CASE ReadBuckets(t)
  BY <1>5, StaysOver DEF ReadBuckets, Moves, root, BInv
<1>6. CASE Decide(t)
  BY <1>6, StaysOver DEF Decide, BlankStateRaises, Exits, Moves, BInv
<1>7. CASE EndTick(t)
  BY <1>7, StaysOver DEF EndTick, Exits, Moves, boardVars, BInv
<1>8. CASE TickDies(t)
  BY <1>8, StaysOver DEF TickDies, Exits, Moves, BInv
<1>9. CASE \E i \in Ids : Call(t, i)
  BY <1>9, CallKeepsStates
<1> QED
  BY <1>1, <1>2, <1>3, <1>4, <1>5, <1>6, <1>7, <1>8, <1>9 DEF Tick

LEMMA OthersKeepStates ==
  ASSUME BInv, Operator \/ ((People \/ Creates) /\ UNCHANGED <<root, ticks>>)
  PROVE  ticks' = ticks /\ ItemsHaveStates'
<1>1. CASE Operator
  BY <1>1, StaysOver DEF Operator, EditToml, ClearRoot, BInv
<1>2. CASE People /\ UNCHANGED <<root, ticks>>
  <2>1. CASE EditColumns
    BY <1>2, <2>1, StaysOver DEF EditColumns, BInv
  <2>2. ASSUME NEW i \in Ids, PersonMoves(i)
        PROVE  ItemsHaveStates'
    BY <2>2 DEF PersonMoves, ItemsHaveStates, BInv
  <2>3. ASSUME NEW i \in Ids, PersonTags(i)
        PROVE  ItemsHaveStates'
    BY <2>3 DEF PersonTags, ItemsHaveStates, BInv
  <2> QED
    BY <1>2, <2>1, <2>2, <2>3 DEF People
<1>3. CASE Creates /\ UNCHANGED <<root, ticks>>
  <2>1. CASE UNCHANGED items
    BY <1>3, <2>1, StaysOver DEF BInv
  <2>2. ASSUME NEW p \in Creators, Write(p)
        PROVE  ItemsHaveStates'
    <3>1. PICK id, write : id \in Ids /\ items' = [items EXCEPT ![id] = Written(@, write, p)]
      BY <2>2 DEF Write
    <3>2. "native" \in DOMAIN Written(items[id], write, p)
      <4> DEFINE item == items[id]
      <4>1. "native" \in DOMAIN item
        BY <3>1 DEF ItemsHaveStates, BInv
      <4>2. /\ "native" \in DOMAIN [NewItem(Partial) EXCEPT !.origin = p]
            /\ "native" \in DOMAIN [item EXCEPT !.parent = write.to]
            /\ "native" \in DOMAIN [item EXCEPT !.predecessors = @ \cup {write.to}]
            /\ "native" \in DOMAIN [item EXCEPT !.native = creates[p].queued]
        BY <4>1 DEF NewItem
      <4>3. \/ Written(item, write, p) = [NewItem(Partial) EXCEPT !.origin = p]
            \/ Written(item, write, p) = [item EXCEPT !.parent = write.to]
            \/ Written(item, write, p) = [item EXCEPT !.predecessors = @ \cup {write.to}]
            \/ Written(item, write, p) = [item EXCEPT !.native = creates[p].queued]
        BY DEF Written
      <4> QED
        BY <4>2, <4>3
    <3> QED
      BY <3>1, <3>2 DEF ItemsHaveStates, BInv
  <2> QED
    BY <1>3, <2>1, <2>2 DEF Creates, Arm, Create, Begin, Peek, Take, CreatorDies
<1> QED
  BY <1>1, <1>2, <1>3

LEMMA BInvHolds == Spec => []BInv
<1>1. ASSUME Init
      PROVE  BInv
  <2>1. PICK w \in Worlds : items \in w.items
    BY <1>1 DEF Init, InitialBoard
  <2> QED
    BY <1>1, <2>1, BoardsAssumption DEF Init, BInv, ItemsHaveStates, NewItem
<1>2. ASSUME BInv, [Next]_entryVars
      PROVE  BInv'
  <2>1. CASE \E t \in Ticks : Tick(t)
    BY <1>2, <2>1, TickKeepsStates DEF BInv
  <2>2. CASE Operator \/ ((People \/ Creates) /\ UNCHANGED <<root, ticks>>)
    BY <1>2, <2>2, OthersKeepStates DEF BInv
  <2>3. CASE UNCHANGED entryVars
    BY <1>2, <2>3, StaysOver DEF entryVars, boardVars, BInv
  <2> QED
    BY <1>2, <2>1, <2>2, <2>3 DEF Next
<1> QED
  BY <1>1, <1>2, PTL DEF Spec

(* Which step moved a tick: its own.                                       *)
LEMMA MoversStep ==
  ASSUME BInv, [Next]_entryVars, NEW t \in Ticks, ticks'[t] # ticks[t]
  PROVE  Tick(t)
<1>1. CASE \E u \in Ticks : Tick(u)
  BY <1>1, TickKeepsStates
<1>2. CASE Operator \/ ((People \/ Creates) /\ UNCHANGED <<root, ticks>>)
  BY <1>2, OthersKeepStates
<1>3. CASE UNCHANGED entryVars
  BY <1>3 DEF entryVars
<1> QED
  BY <1>1, <1>2, <1>3 DEF Next

=============================================================================
