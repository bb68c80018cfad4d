---------------------------- MODULE MCTickEntry ----------------------------
(***************************************************************************)
(* Small worlds for TLC.  Each names a provider, the squadra.toml texts,   *)
(* columns and items there may be, who acts, and how often.                *)
(***************************************************************************)
EXTENDS TickEntry, TLC

CONSTANTS t1, t2, p1, p2

MCIds == 1..3
MCTicks == {t1, t2}
MCCreators == {p1, p2}
MCRequests ==
  p1 :> [parent |-> 7, predecessors |-> <<1>>] @@ p2 :> [parent |-> 7, predecessors |-> <<>>]

-----------------------------------------------------------------------------
(* The texts of squadra.toml.                                              *)

Basic == {"To Do", "Doing", "Done"}
MapAll == [queued |-> <<"To Do", "Review">>, active |-> <<"Doing">>, done |-> <<"Done">>,
           withdrawn |-> <<"Removed">>]
MapTwice == [MapAll EXCEPT !.withdrawn = <<"Removed", "To Do">>]
MapGitHub == [MapAll EXCEPT !.queued = <<"To Do">>,
               !.done = <<"Done", "closed:completed", "closed:duplicate", "closed:">>,
               !.withdrawn = <<"closed:not_planned">>]
MapClosedActive == [MapGitHub EXCEPT !.active = <<"Doing", "closed:">>,
                                     !.done = <<"Done", "closed:completed", "closed:duplicate">>]

Toml(name, states) ==
  [name |-> name, tag_prefix |-> Unset, claim_scope |-> "whole-board",
   parent_scope_ids |-> {}, states |-> states, repository |-> "own/repo"]

Alpha == Toml("alpha", NoStates)
Beta == Toml("beta", NoStates)
Upgraded == [Alpha EXCEPT !.tag_prefix = "fleet"]
Parents == [Toml("alpha", MapAll) EXCEPT !.claim_scope = "parents", !.parent_scope_ids = {7}]
Unsound ==
  {Toml("", NoStates), Toml("alpha", MapTwice), [Parents EXCEPT !.parent_scope_ids = {}],
   [Alpha EXCEPT !.parent_scope_ids = {7}]}

-----------------------------------------------------------------------------
(* The items, and the fleet roots.                                         *)

Item(native, tags) == [NewItem(native) EXCEPT !.tags = tags, !.parent = 7]
Board(first, second) ==
  [i \in MCIds |-> IF i = 1 THEN first ELSE IF i = 2 THEN second ELSE NewItem(Absent)]
One(item) == Board(item, NewItem(Absent))
Behind(item) == [item EXCEPT !.predecessors = {1}]

NoDirs == [i \in MCIds |-> Unset]
FreshRoot == [stamp |-> Unset, dirs |-> NoDirs]
ClaimedBy(name, s) == [stamp |-> s, dirs |-> [NoDirs EXCEPT ![1] = name]]
Held(prefix, tags) == Item("Doing", {<<prefix, "claimed">>} \cup tags)

NoEvents ==
  [moves |-> 0, tags |-> 0, columns |-> 0, blanks |-> 0, drops |-> 0, edits |-> 0,
   crashes |-> 0, arms |-> 0]

World(provider, tomls, boards, roots) ==
  [provider |-> provider, tomls |-> tomls, items |-> boards, roots |-> roots,
   columns |-> Basic, layouts |-> {Basic}, ticks |-> {t1}, dry |-> {FALSE},
   creators |-> {}, faults |-> {}, bounds |-> NoEvents]

-----------------------------------------------------------------------------
(* Two ticks, real or dry, and a fleet that is renamed under them.         *)
Renamed ==
  [World("ado", {Alpha, Beta}, {One(Item("To Do", {}))}, {FreshRoot}) EXCEPT
     !.ticks = {t1, t2}, !.dry = BOOLEAN,
     !.bounds = [NoEvents EXCEPT !.edits = 2, !.crashes = 1]]

(* A squadra.toml that is edited into one that does not load, and back.    *)
Misedited ==
  [World("ado", {Alpha} \cup Unsound, {One(Item("To Do", {}))}, {FreshRoot}) EXCEPT
     !.bounds = [NoEvents EXCEPT !.edits = 2]]

(* The claims of a fleet from before fleets had names.                     *)
Legacy ==
  [World("ado", {Alpha, Upgraded, Beta}, {One(Held("fleet", {}))}, {ClaimedBy("fleet", Unset)})
     EXCEPT !.ticks = {t1, t2}, !.dry = BOOLEAN,
            !.bounds = [NoEvents EXCEPT !.edits = 2, !.crashes = 1]]

(* Columns and items that move around a tick; blank answers.               *)
Mapping(provider, tomls, items_, layouts_, natives) ==
  [World(provider, tomls, items_, {FreshRoot}) EXCEPT
     !.columns = natives, !.layouts = layouts_,
     !.bounds = [NoEvents EXCEPT !.moves = 1, !.columns = 1, !.edits = 1,
                                 !.blanks = IF provider = "ado" THEN 1 ELSE 0]]

Wide == Basic \cup {"Removed", "Review"}
Pair == {Board(Item(native, {}), Behind(Item("To Do", {}))) : native \in {"Done", "To Do"}}

AdoMap == Mapping("ado", {Parents, Alpha}, Pair, {Wide, Wide \ {"Doing"}, Wide \cup {"Blocked"}}, Wide)
FakeMap == Mapping("fake", {Parents, Toml("alpha", MapTwice)}, Pair,
                   {Wide, Wide \cup {"Blocked"}}, Wide)
GitHubMap ==
  Mapping("github",
          {Toml("alpha", MapGitHub), Toml("squadra", MapGitHub), Toml("alpha", MapClosedActive),
           [Toml("alpha", MapGitHub) EXCEPT !.repository = "other/repo"]},
          Pair \cup {Board(Item("closed:completed", {<<"alpha", "claimed">>}),
                            Behind(Item("To Do", {})))},
          {Basic, Basic \ {"Doing"}, Basic \cup {"Blocked"}}, Basic)

(* One field of tags that people, lost writes and blank answers disturb.   *)
Tagged(provider, faults_) ==
  [World(provider, {Toml("alpha", IF provider = "github" THEN MapGitHub ELSE NoStates)},
         {One(Held("alpha", {})), One(Held("alpha", {Note}))}, {ClaimedBy("alpha", "alpha")})
     EXCEPT !.bounds = [faults_ EXCEPT !.tags = 1, !.moves = 1]]

AdoTags == Tagged("ado", [NoEvents EXCEPT !.blanks = 1, !.drops = 1])
GitHubTags == Tagged("github", NoEvents)

(* The fake board: two creates under a fault, and a tick that claims.      *)
Fake ==
  [World("fake", {Toml("alpha", MapAll)}, {One(Item("Done", {}))}, {FreshRoot}) EXCEPT
     !.columns = {}, !.layouts = {{}, Basic}, !.creators = {p1, p2}, !.ticks = {},
     !.faults = 1..5, !.bounds = [NoEvents EXCEPT !.arms = 1, !.crashes = 1]]

FakeClaimed ==
  [Fake EXCEPT !.creators = {p1}, !.ticks = {t1}, !.faults = {},
               !.bounds = [NoEvents EXCEPT !.crashes = 1]]

MCWorlds ==
  {Renamed, Misedited, Legacy, AdoMap, FakeMap, GitHubMap, AdoTags, GitHubTags, Fake,
   FakeClaimed}

=============================================================================
