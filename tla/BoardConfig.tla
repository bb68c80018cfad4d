---------------------------- MODULE BoardConfig ----------------------------
(***************************************************************************)
(* squadra.toml as load_config resolves it and as a board's preflight      *)
(* accepts it (squadra.config, validate_config of the three adapters):     *)
(* pure functions of the file's text and of the board's columns.           *)
(*                                                                         *)
(* A tag prefix defaulted from the fleet's name is written as that name.   *)
(***************************************************************************)
EXTENDS Naturals, Sequences

CONSTANTS
  FleetNames,  \* what the pattern of [fleet].name admits
  Origin       \* the repository FLEET_HOME's origin remote names

Providers == {"ado", "github", "fake"}
Unset == "unset"
NoStates == <<>>

AdoBasicStates ==
  [queued |-> <<"To Do">>, active |-> <<"Doing">>, done |-> <<"Done">>]

ClosedNames ==
  {"closed:completed", "closed:not_planned", "closed:duplicate", "closed:"}

(* The commit marker's own namespace.                                      *)
MarkerPrefix == "squadra"

Names(states, bucket) ==
  IF bucket \in DOMAIN states
    THEN {states[bucket][k] : k \in DOMAIN states[bucket]} ELSE {}

Mapped(states) == UNION {Names(states, bucket) : bucket \in DOMAIN states}

(* Mutation: one native name may stand in two buckets.                     *)
StatesAreSoundEach(states) ==
  /\ {"queued", "active", "done"} \subseteq DOMAIN states
  /\ \A b \in DOMAIN states : states[b] # <<>>

StatesAreSound(states) ==
  /\ {"queued", "active", "done"} \subseteq DOMAIN states
  /\ \A b \in DOMAIN states : states[b] # <<>>
  /\ \A b, c \in DOMAIN states :
       b # c => Names(states, b) \cap Names(states, c) = {}

(* Only Azure DevOps' Basic process has states to infer.                   *)
ResolvedStates(provider, raw) ==
  IF raw.states = NoStates /\ provider = "ado" THEN AdoBasicStates ELSE raw.states

ScopeIsSound(raw) ==
  \/ raw.claim_scope = "parents" /\ raw.parent_scope_ids # {}
  \/ raw.claim_scope = "whole-board" /\ raw.parent_scope_ids = {}

(* Whether load_config and build_board return: everything else they do is  *)
(* to raise ConfigError.                                                   *)
ConfigIsSound(provider, raw) ==
  /\ provider \in Providers
  /\ raw.name \in FleetNames
  /\ ScopeIsSound(raw)
  /\ StatesAreSound(ResolvedStates(provider, raw))
  /\ provider = "github" => raw.repository # Unset

(* [board.github] is ignored for every other provider.                     *)
Config(provider, raw) ==
  [name |-> raw.name,
   provider |-> provider,
   prefix |-> IF raw.tag_prefix = Unset THEN raw.name ELSE raw.tag_prefix,
   prefix_explicit |-> raw.tag_prefix # Unset,
   claim_scope |-> raw.claim_scope,
   parent_scope_ids |-> raw.parent_scope_ids,
   states |-> ResolvedStates(provider, raw),
   repository |-> IF provider = "github" THEN raw.repository ELSE Unset]

InClaimScope(config, parent) ==
  config.claim_scope = "whole-board" \/ parent \in config.parent_scope_ids

(* The bucket of a native state: one at most, since the states are sound.  *)
(* On GitHub an open issue is in no bucket while its Status says done.     *)
In(config, native, bucket) ==
  /\ native \in Names(config.states, bucket)
  /\ config.provider = "github" /\ bucket = "done" => native \in ClosedNames

FirstNative(config, bucket) == config.states[bucket][1]

-----------------------------------------------------------------------------
(* validate_config: the preflight of every tick against the live board.    *)

(* Mutation: the board's own columns need not be mapped.                   *)
ResolvesOneWay(config, natives) == Mapped(config.states) \subseteq natives

(* Both ways: no configured name the board lacks, no column left out.      *)
Resolves(config, natives) == Mapped(config.states) = natives

GitHubResolves(config, columns) ==
  /\ config.repository = Origin
  /\ columns \cap ClosedNames = {}
  /\ Resolves(config, columns \cup ClosedNames)
  /\ \A b \in {"queued", "active"} : Names(config.states, b) \cap ClosedNames = {}
  /\ In(config, "closed:completed", "done")
  /\ In(config, "closed:not_planned", "withdrawn")
  /\ config.prefix # MarkerPrefix

(* A fake board that declares no columns takes the configured ones.        *)
Preflight(provider, config, columns) ==
  CASE provider = "ado"    -> Resolves(config, columns)
    [] provider = "github" -> GitHubResolves(config, columns)
    [] provider = "fake"   -> columns = {} \/ Resolves(config, columns)

=============================================================================
