----------------------------- MODULE ToolCatalog -----------------------------
(***************************************************************************)
(* The desktop tools a runtime starts with (crates/lucy-hyprfast/src/       *)
(* lib.rs): the definitions come from two MCP servers, one of them slow to  *)
(* start, from a cache file that spares asking it, or from the catalog the  *)
(* last start saved; and what of them a blind plan is offered.  Several     *)
(* processes start over the same two files, which are written by            *)
(* truncating and writing.                                                  *)
(***************************************************************************)
EXTENDS Integers, FiniteSets, FiniteSetsExt

CONSTANTS Starters,    \* processes that build a runtime
          Disabled,    \* those with LUCY_COMPUTER_USE_ENABLED=0
          Releases,    \* the lists of tools hyprfast may give
          Extras,      \* the lists computer use may give
          ToolsOn,     \* the tools on each list
          Ttl,         \* hours for which the cached definitions are fresh
          MaxHours, MaxStarts,
          MaxBroken    \* bound on the crashes and failed writes

ASSUME CatalogAssumption ==
  /\ {Ttl, MaxHours, MaxStarts, MaxBroken} \subseteq Nat /\ Disabled \subseteq Starters
  /\ "none" \notin Releases /\ DOMAIN ToolsOn = Releases \cup Extras \cup {"none"} /\ ToolsOn["none"] = {}

VARIABLES hour, release,
          defs,    \* mcp-tool-defs.json
          saved,   \* hyprfast-catalog.json
          start,   \* each process
          starts, broken
catalogVars == <<hour, release, defs, saved, start, starts, broken>>

\* A tool is its name, the terms its name contains and those its name or its
\* description contains.
Merged(t) == [t EXCEPT !.words = @ \cup {"computer_use_"}]
Mentions(t, terms) == t.words \cap terms # {}
Named(t, terms) == t.parts \cap terms # {}

----------------------------------------------------------------------------
(* classify(): the first of the term lists that has a word of the text decides *)

Places ==
  <<<<{"browser_", "browser "}, "Browser">>, <<{"hint_"}, "Hints">>, <<{"screenshot", "vision"}, "Vision">>,
    <<{"clipboard"}, "Clipboard">>, <<{"excalidraw"}, "Excalidraw">>, <<{"task_"}, "Tasks">>,
    <<{"computer_use_", "computer use", "hypr", "desktop", "window", "pointer", "keyboard", "click_ui",
       "ui_", "application", "menu", "form"}, "Desktop">>>>
Domain(t) ==
  LET found == {i \in DOMAIN Places : Mentions(t, Places[i][1])}
      place == IF found = {} THEN "System" ELSE Places[Min(found)][2]
  IN  IF place = "Vision" /\ "computer_use_" \in t.words THEN "Desktop" ELSE place

ReadsOnly(t) ==
  Domain(t) = "Vision"
  \/ Mentions(t, {"screenshot", "inspect", "get", "list", "find", "query", "focused", "frontmost"})

\* The names Lucy takes to be gone, and what the names and classes say of a tool.
Removed(t)   == t.name \in {"ground", "act_fast", "act_batch"} \/ Named(t, {"stagehand"})
Batches(t)   == ~Removed(t) /\ (Mentions(t, {"batch"}) \/ Named(t, {"execute_plan"}))
Launches(t)  == Mentions(t, {"launch", "open_application", "discover_application"}) \/ Named(t, {"browser_open"})
Observes(t)  ==
  \/ ReadsOnly(t) \/ Mentions(t, {"observe", "read"})
  \/ Named(t, {"snapshot", "extract", "get_ui", "ui_tree", "find_element"})
Resolves(t)  ==
  /\ ~Removed(t)
  /\ Named(t, {"hint_act", "hint_batch", "hint_resolve", "find_and_click", "find_and_type", "execute_plan"})
\* The other server's tools are known under a longer name.
Native(t) == "computer_use_" \notin t.words
Addressed(t) == Native(t) /\ t.name \in {"browser_click", "browser_type", "browser_hover", "browser_select_option"}
Core(t) == Native(t) /\
  \/ t.name \in {"browser_open", "browser_navigate", "browser_go_back", "browser_go_forward", "browser_tabs",
                 "browser_console", "browser_evaluate", "browser_wait", "browser_screenshot",
                 "browser_execute_plan", "hint_act", "hint_batch", "hint_snapshot", "hint_click", "hint_type",
                 "hint_clear", "hint_resolve", "hint_resolve_batch", "find_and_click", "find_and_type", "verify",
                 "verify_action", "verify_element", "wait_until", "wait_for", "desktop", "hypr", "launch", "ui",
                 "click_ui", "pointer", "keyboard", "screenshot"}
  \/ Named(t, {"task_"})

\* What the catalog of hyprfast is relied on for, and the tests' copy of it (lib.rs
\* 957) has: a tool that finds its element itself goes by a name the planner keeps,
\* which is none of the four that need an address, and starts no application; and
\* computer use gives none that does.
ASSUME ResolversAssumption ==
  /\ \A l \in Releases \cup Extras : ToolsOn[l] \subseteq [name : STRING, parts : SUBSET STRING, words : SUBSET STRING]
  /\ \A r \in Releases : \A t \in ToolsOn[r] : Resolves(t) => Core(t) /\ ~Launches(t) /\ ~Addressed(t)
  /\ \A e \in Extras : \A t \in ToolsOn[e] : ~Resolves(t)

\* planner_tool_set(): what is offered of the tools there are.
Reopens(t, ready) ==
  ready /\ Launches(t) /\ (Domain(t) = "Browser" \/ (Domain(t) = "Desktop" /\ Named(t, {"browser"})))
Covered(t) == ~Core(t) /\ Domain(t) \in {"Browser", "Hints"} /\ ~Batches(t) /\ ~Observes(t)
\* Slip: what is gone is not left out.
UnhiddenGone(tools, ready) ==
  {t \in tools :
     /\ ~Reopens(t, ready)
     /\ ~((\E u \in tools : Resolves(u)) /\ Addressed(t))
     /\ ~((\E u \in tools : Batches(u)) /\ Covered(t))}
Unhidden(tools, ready) ==
  {t \in tools :
     /\ ~Removed(t) /\ ~Reopens(t, ready)
     /\ ~((\E u \in tools : Resolves(u)) /\ Addressed(t))
     /\ ~((\E u \in tools : Batches(u)) /\ Covered(t))}

Offer(tools, ready) ==
  LET plain == Unhidden(tools, ready)
      seeing == IF \E t \in plain : Observes(t) THEN plain ELSE plain \cup {t \in tools : Observes(t)}
  IN  IF seeing = {} THEN tools ELSE seeing

----------------------------------------------------------------------------
\* A list goes by its name; "none" is the empty one.
NoFile == [is |-> "none", at |-> 0, hypr |-> "none", extra |-> "none", given |-> 0]
Off == [at |-> "off", cache |-> NoFile, hypr |-> "none", extra |-> "none", given |-> 0, from |-> "none"]
NoSave == [is |-> "none", hypr |-> "none", extra |-> "none"]
Tools(s) == ToolsOn[s.hypr] \cup {Merged(t) : t \in ToolsOn[s.extra]}

CatalogInit ==
  /\ hour = 0 /\ release \in Releases
  /\ defs = NoFile /\ saved = NoSave
  /\ start = [p \in Starters |-> Off] /\ starts = 0 /\ broken = 0

files == <<defs, saved>>
world == <<hour, release>>
Goes(p, s) == start' = [start EXCEPT ![p] = s]

\* Time passes, and hyprfast may be another afterwards.  A start is over within
\* the hour: every request it makes has a timeout.
Tick ==
  /\ hour < MaxHours /\ \A p \in Starters : start[p].at \in {"off", "up", "bare"}
  /\ hour' = hour + 1 /\ release' \in Releases /\ UNCHANGED <<files, start, starts, broken>>

\* load_cached_defs(): a file that cannot be read or parsed counts for none.
AskServers(p) ==
  /\ start[p].at = "off" /\ starts < MaxStarts /\ starts' = starts + 1
  /\ Goes(p, [Off EXCEPT !.at = "asking", !.cache = IF defs.is = "whole" THEN defs ELSE NoFile])
  /\ UNCHANGED <<world, files, broken>>

Fresh(cache) == cache.is = "whole" /\ Ttl # 0 /\ hour - cache.at <= Ttl

\* The computer-use list: none where it is off, the cached one while it is
\* fresh, else the server's, and if that fails the cached one however old.
ExtraFor(p) ==
  LET cache == start[p].cache
      old == [list |-> cache.extra, given |-> cache.given, from |-> "failed"]
  IN  IF p \in Disabled THEN {[list |-> "none", given |-> hour, from |-> "off"]}
      ELSE IF Fresh(cache) /\ ToolsOn[cache.extra] # {} THEN {[old EXCEPT !.from = "fresh"]}
      ELSE {old} \cup {[list |-> e, given |-> hour, from |-> "live"] : e \in Extras}

\* hyprfast is always asked; when it fails the cached list serves, if there is one.
HyprFor(p) == {release, start[p].cache.hypr}

\* Slip: the fallback is stored like an answer.
StoresAll(p, from) == ~Fresh(start[p].cache) /\ p \notin Disabled

\* Only what was given now is stored.
Stores(p, from) == ~Fresh(start[p].cache) /\ p \notin Disabled /\ from = "live"

\* Both servers are asked side by side and both awaited; either may fail.
Discover(p, hypr, x) ==
  /\ start[p].at = "asking"
  /\ Goes(p, [Off EXCEPT
                    !.at = IF hypr = "none" THEN "lost" ELSE IF Stores(p, x.from) THEN "storing" ELSE "keeping",
                    !.hypr = hypr, !.extra = x.list, !.given = x.given, !.from = x.from])
  /\ UNCHANGED <<world, files, starts, broken>>

\* save_cached_defs(): the file is emptied and then written; where another
\* process wrote in between, a longer text's tail may stay behind.
EmptyDefs(p) ==
  /\ start[p].at = "storing" /\ defs' = [NoFile EXCEPT !.is = "torn"]
  /\ Goes(p, [start[p] EXCEPT !.at = "writing_defs"])
  /\ UNCHANGED <<world, saved, starts, broken>>
WriteDefs(p) ==
  /\ start[p].at = "writing_defs"
  /\ \/ defs' = [is |-> "whole", at |-> hour, hypr |-> start[p].hypr, extra |-> start[p].extra,
                 given |-> start[p].given]
     \/ defs.is = "whole" /\ defs' = [NoFile EXCEPT !.is = "torn"]
  /\ Goes(p, [start[p] EXCEPT !.at = "keeping"])
  /\ UNCHANGED <<world, saved, starts, broken>>

Equipped(s) == [Off EXCEPT !.at = "up", !.hypr = s.hypr, !.extra = s.extra]
\* catalog.save(), the same way; its failure is ignored like the cache's.
EmptySaved(p) ==
  /\ start[p].at = "keeping" /\ saved' = [NoSave EXCEPT !.is = "torn"]
  /\ Goes(p, [start[p] EXCEPT !.at = "writing_catalog"])
  /\ UNCHANGED <<world, defs, starts, broken>>
WriteSaved(p) ==
  /\ start[p].at = "writing_catalog"
  /\ \/ saved' = [is |-> "whole", hypr |-> start[p].hypr, extra |-> start[p].extra]
     \/ saved.is = "whole" /\ saved' = [NoSave EXCEPT !.is = "torn"]
  /\ Goes(p, Equipped(start[p]))
  /\ UNCHANGED <<world, defs, starts, broken>>
Unwritable(p) ==
  /\ start[p].at \in {"storing", "keeping", "writing_defs", "writing_catalog"} /\ broken < MaxBroken
  /\ broken' = broken + 1
  /\ Goes(p, IF start[p].at \in {"storing", "writing_defs"} THEN [start[p] EXCEPT !.at = "keeping"] ELSE Equipped(start[p]))
  /\ UNCHANGED <<world, files, starts>>

\* Discovery failed: the catalog of an earlier start, or none.
Recall(p) ==
  /\ start[p].at = "lost"
  /\ Goes(p, IF saved.is = "whole" THEN Equipped(saved) ELSE [Off EXCEPT !.at = "bare"])
  /\ UNCHANGED <<world, files, starts, broken>>

Quit(p) == start[p].at \in {"up", "bare"} /\ Goes(p, Off) /\ UNCHANGED <<world, files, starts, broken>>
StartCrash(p) ==
  /\ start[p].at \in {"writing_defs", "writing_catalog"} /\ broken < MaxBroken
  /\ broken' = broken + 1 /\ Goes(p, Off)
  /\ UNCHANGED <<world, files, starts>>

CatalogNext ==
  \/ Tick
  \/ \E p \in Starters : \/ AskServers(p) \/ \E h \in HyprFor(p), x \in ExtraFor(p) : Discover(p, h, x)
                         \/ EmptyDefs(p) \/ WriteDefs(p) \/ EmptySaved(p) \/ WriteSaved(p)
                         \/ Unwritable(p) \/ Recall(p) \/ Quit(p) \/ StartCrash(p)

CatalogSpec == CatalogInit /\ [][CatalogNext]_catalogVars

----------------------------------------------------------------------------
CatalogTypeOK ==
  /\ hour \in 0..MaxHours /\ release \in Releases /\ starts \in 0..MaxStarts /\ broken \in 0..MaxBroken
  /\ {defs.is, saved.is} \subseteq {"none", "torn", "whole"}
  /\ \A p \in Starters :
       start[p].at \in {"off", "asking", "storing", "writing_defs", "keeping", "writing_catalog", "lost", "up", "bare"}

\* A list taken for fresh without asking its server is no older than the time
\* it may be kept, whichever starts failed, fell back, were cut off or wrote
\* over each other since it was given: "A failed live fetch must NOT refresh
\* the timestamp" (lib.rs:253).
FreshIsRecent ==
  \A p \in Starters :
    start[p].from = "fresh" /\ start[p].at \in {"storing", "writing_defs", "keeping", "writing_catalog"}
      => hour - start[p].given <= Ttl

\* What is behind it: no list is stored as given later than it was, and the hour a
\* list is given in lasts until the start that took it has stored it.
HyprLists == Releases \cup {"none"}
ExtraLists == Extras \cup {"none"}
DefsFile == [is : {"none", "torn", "whole"}, at : Nat, hypr : HyprLists, extra : ExtraLists, given : Nat]
SavedFile == [is : {"none", "torn", "whole"}, hypr : HyprLists, extra : ExtraLists]
StartState ==
  [at : {"off", "asking", "storing", "writing_defs", "keeping", "writing_catalog", "lost", "up", "bare"},
   cache : DefsFile, hypr : HyprLists, extra : ExtraLists, given : Nat,
   from : {"none", "off", "failed", "fresh", "live"}]
StartsTypeOK ==
  /\ hour \in Nat /\ release \in Releases
  /\ defs \in DefsFile /\ saved \in SavedFile /\ start \in [Starters -> StartState]
AtMostGiven(cache) == cache.is = "whole" => cache.at <= cache.given
GivenIn(s) ==
  /\ AtMostGiven(s.cache)
  /\ s.at \in {"storing", "writing_defs"} => s.from = "live" /\ s.given = hour
  /\ s.at \in {"keeping", "writing_catalog"} /\ s.from = "fresh" => hour - s.given <= Ttl
GivenInv ==
  /\ StartsTypeOK
  /\ AtMostGiven(defs) /\ \A p \in Starters : GivenIn(start[p])

\* What a plan is offered serves it, from whichever source the tools came: as
\* long as some tool lets it look that is not itself to be hidden, nothing
\* gone is offered, a verb that finds its element itself is kept where there
\* is one, and no verb that needs an element's address is offered beside it.
OfferServes ==
  \A p \in Starters, ready \in BOOLEAN :
    LET tools == Tools(start[p])
        offered == Offer(tools, ready)
    IN  start[p].at = "up" /\ (\E t \in tools : Observes(t) /\ ~Removed(t) /\ ~Addressed(t) /\ ~Reopens(t, ready)) =>
          /\ \E t \in offered : Observes(t)
          /\ ~\E t \in offered : Removed(t)
          /\ (\E t \in tools : Resolves(t)) =>
               (\E t \in offered : Resolves(t)) /\ ~\E t \in offered : Addressed(t)
=============================================================================
