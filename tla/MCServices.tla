----------------------------- MODULE MCServices -----------------------------
(***************************************************************************)
(* The parts that speak to other programs and to the user, side by side:    *)
(* they share no variable, and a behaviour moves one of them.               *)
(***************************************************************************)
EXTENDS Provider, McpClient, Terminal, Settings, BrowserLoop, SystemOne, ToolCatalog, TLC

CONSTANTS c1, c2, t1, t2, u1, u2, m1, m2

VARIABLE part   \* which of them moves

MCServes == (u1 :> {m1, m2}) @@ (u2 :> {m1})

\* Pages of one small journey: a form, the form with suggestions, results, the item.
Node(role, label, more, date) == [role |-> role, label |-> label, more |-> more, date |-> date]
Does(kind, n) == [kind |-> kind, node |-> n]
Down == [kind |-> "scroll", node |-> 0]
Form ==
  [url |-> "form", title |-> {}, text |-> {}, host |-> TRUE, omitted |-> TRUE,
   actions |-> {Does("fill", 1), Does("click", 1), Does("click", 2), [kind |-> "select", node |-> 3, option |-> "a"], Down},
   nodes |-> (1 :> Node("textbox", {"from"}, {}, NoDate)) @@ (2 :> Node("button", {"go"}, {}, NoDate))
             @@ (3 :> Node("combobox", {"class"}, {}, NoDate))]
Suggesting ==
  [url |-> "form", title |-> {}, text |-> {}, host |-> TRUE, omitted |-> FALSE,
   actions |-> {Does("fill", 4), Does("click", 4), Does("click", 5), Does("click", 6), Does("fill", 6)},
   nodes |-> (4 :> Node("textbox", {"from"}, {"paris"}, NoDate)) @@ (5 :> Node("option", {"paris"}, {}, NoDate))
             @@ (6 :> Node("textbox", {"may"}, {}, "may 1"))]
Chosen ==
  [url |-> "form", title |-> {}, text |-> {"book"}, host |-> TRUE, omitted |-> FALSE,
   actions |-> {Does("fill", 7), Does("click", 10)},
   nodes |-> (7 :> Node("textbox", {"from", "paris"}, {}, NoDate)) @@ (10 :> Node("gridcell", {"may"}, {}, "may 1"))]
Results ==
  [url |-> "list", title |-> {"trip"}, text |-> {"flights", "found"}, host |-> TRUE, omitted |-> FALSE,
   actions |-> {Does("click", 8), Does("click", 9)},
   nodes |-> (8 :> Node("link", {"trip"}, {}, NoDate)) @@ (9 :> Node("link", {"more"}, {}, NoDate))]
Elsewhere ==
  [url |-> "ads", title |-> {"trip"}, text |-> {"flights"}, host |-> FALSE, omitted |-> FALSE,
   actions |-> {Down}, nodes |-> << >>]
Blank == [url |-> "blank", title |-> {}, text |-> {}, host |-> FALSE, omitted |-> FALSE,
          actions |-> {}, nodes |-> << >>]
MCPages == {Blank, Form, Suggesting, Chosen, Results, Elsewhere}
MCLeads == (Blank :> {Blank, Form, Chosen}) @@ (Form :> {Form, Suggesting}) @@ (Suggesting :> {Results})
           @@ (Chosen :> {Chosen, Results}) @@ (Results :> {Elsewhere}) @@ (Elsewhere :> {Elsewhere})
From == [what |-> {"from"}, value |-> {"paris"}, date |-> NoDate]
When == [what |-> {"when"}, value |-> {"may"}, date |-> "may 1"]
MCPlans == {[requirements |-> <<From, When>>, open |-> {}, finish |-> {"flights", "found"}],
            [requirements |-> <<From>>, open |-> {"trip", "rome"}, finish |-> {"book"}],
            [requirements |-> << >>, open |-> {"trip"}, finish |-> {"book"}]}

\* Tools as hyprfast describes them, a description's words where they count:
\* hint_act's "target" reads as "get".
Tool(n, parts, words) == [name |-> n, parts |-> parts, words |-> parts \cup words]
Navigate  == Tool("browser_navigate", {"browser_"}, {"browser "})
Opener    == Tool("browser_open", {"browser_", "browser_open"}, {"launch", "hypr"})
Clicks    == Tool("browser_click", {"browser_"}, {})
Presses   == Tool("browser_press_key", {"browser_"}, {})
Snapshot  == Tool("browser_snapshot", {"browser_", "snapshot"}, {})
HintAct   == Tool("hint_act", {"hint_", "hint_act"}, {"browser_", "browser ", "get"})
HintBatch == Tool("hint_batch", {"hint_", "hint_batch"}, {"batch"})
PlanRun   == Tool("browser_execute_plan", {"browser_", "execute_plan"}, {"browser "})
Stagehand == Tool("stagehand_extract", {"stagehand", "extract"}, {})
Ground    == Tool("ground", {}, {"screenshot", "vision"})
MCToolsOn ==
  [hints |-> {Navigate, Opener, Clicks, Presses, Snapshot, HintAct, HintBatch, Ground},
   plans |-> {Navigate, Clicks, Presses, PlanRun, Stagehand, Ground},
   plain |-> {Tool("click", {}, {}), Tool("screenshot", {}, {"screenshot"})},
   none |-> {}]

\* Strings that hold an object, or braces around a quote that nothing balances.
MCBodies == {<<"{", "}">>, <<"}", "escape", "quote", "{">>}
\* None, "See [1]:".
MCProse  == {<< >>, <<"[", "scalar", "]">>}

\* A reply for the behaviours that read none.
ReplyRests ==
  /\ answer = << >>
  /\ sent = [doc |-> <<"{", "}">>, upto |-> 2, half |-> FALSE, fenced |-> FALSE,
             before |-> << >>, after |-> << >>]

\* The parts that speak to a model or a server, and those that show or drive something.
talkVars == <<replyVars, providerVars, mcpVars>>
driveVars == <<browserVars, systemOneVars, catalogVars>>
chatVars == <<terminalVars, settingsVars>>

MCInit ==
  /\ ProviderInit /\ McpInit /\ SettingsInit /\ TerminalInit /\ BrowserInit /\ SystemOneInit /\ CatalogInit
  /\ part \in {"reply", "provider", "mcp", "screen", "config", "browser", "desktop", "tools"}
  /\ IF part = "reply" THEN ReplyInit ELSE ReplyRests
  /\ part # "config" => env = "none"
  /\ part # "screen" => ~ownKey
  /\ part # "desktop" => provider = "decider"
  /\ part # "tools" => release = "hints"
MCNext ==
  \/ part = "reply" /\ ReplyNext /\ UNCHANGED <<providerVars, mcpVars, chatVars, driveVars, part>>
  \/ part = "provider" /\ ProviderNext /\ UNCHANGED <<replyVars, mcpVars, chatVars, driveVars, part>>
  \/ part = "mcp" /\ McpNext /\ UNCHANGED <<replyVars, providerVars, chatVars, driveVars, part>>
  \/ part = "screen" /\ TerminalNext /\ UNCHANGED <<talkVars, settingsVars, driveVars, part>>
  \/ part = "config" /\ SettingsNext /\ UNCHANGED <<talkVars, terminalVars, driveVars, part>>
  \/ part = "browser" /\ BrowserNext /\ UNCHANGED <<talkVars, chatVars, systemOneVars, catalogVars, part>>
  \/ part = "desktop" /\ SystemOneNext /\ UNCHANGED <<talkVars, chatVars, browserVars, catalogVars, part>>
  \/ part = "tools" /\ CatalogNext /\ UNCHANGED <<talkVars, chatVars, browserVars, systemOneVars, part>>

MCSpec == MCInit /\ [][MCNext]_<<talkVars, chatVars, driveVars, part>>
=============================================================================
