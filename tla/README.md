# Lucy: TLA+ models, model checks and proofs

Lucy is a desktop assistant written in Rust: a language model is asked what to
do, tools do it, and the user, at the terminal or on a paired phone, watches,
approves and stops it. This directory models the parts of it whose correctness
depends on *order*: who stops what, who holds which slot, what is still true
after an `await`, what a crash leaves behind, which answer belongs to which
question. Every definition is translated from the source; `PROJECT.json` names,
for each, the file and lines it stands for. Paths below are relative to
`src/crates/` unless they say otherwise.

Contents: 1 inventory, 2 modules, 3 runs, 4 fairness, 5 proofs, 6 where the code
and its docs part, 7 what is not modelled, 8 running, 9 where to go on.

## 1. Inventory

### 1.1 How the parts interact

```
   TUI (Terminal, Settings)            phone (WebSocket, REST)
        |                                     |
        |                         lucy-gateway: server, host, auth
        |                                     |
        +------------> lucy-runtime <---------+
             turn routing -> plan execution, ReAct loop, desktop agent loop
                |         |         |               |
                |         |         |               +--> fast lane -> hyprfast tools
                |         |         +--> lucy-core: ApprovalGate, InterruptSignal
                |         +--> lucy-agent provider, lucy-mcp client
                +--> lucy-adk sessions     (shared by every run)
                +--> lucy-knowledge  <--- captures detached after a turn
                +--> lucy-systemone: decider, desktop loop, browser loop, tab
   lucy-scheduler: cron -> scheduler -> executor
   lucy-tasks, lucy-spaces, lucy-skills: libraries with files of their own
```

* One **runtime** holds one `InterruptSignal`, one `ApprovalGate` and one
  conversation cache. All runs share them; nothing in the gate knows which run a
  prompt belongs to except the call id.
* A **turn** resets the interrupt (`save_user_message`), is classified, and may
  execute a plan or start a run; the run asks the gate, the gate publishes to
  whatever channel is in its event slot, and the answer comes back by call id.
* The **gateway** starts a run in a task of its own; the connection that asked
  for it holds a guard of the single task slot, hears of the end through a
  channel, and may go away first.
* The **host** loads the runtime for the first task and drops it when the
  gateway has been idle.
* The **terminal** starts each turn as a task that speaks to the screen through
  a queue of events only; screen, runtime and file each hold a copy of the
  **configuration**.
* The **knowledge store** is written by captures that run after the turn that
  made them has been answered, next to recall, `/forget` and `/kb-dream`.
* **Providers**, **MCP servers**, the **System One daemon** and the **browser
  tab** are other programs: what they answer is free, and the models are about
  which answer is taken for which question, what is counted, and what is left
  behind when a call is given up.

### 1.2 Components, their state, and what makes them correct

| Component | State | Hard because | Correct when |
|---|---|---|---|
| Interrupt signal (`lucy-core`) | an atomic flag, an atomic epoch, a tokio `Notify` | no lock joins the three | no waiter sleeps through a raised flag; no fire is cleared by a reset that did not know of it |
| Approval gate (`lucy-core`) | mode, always-allow set, event slot, map from call id to sender | a timer, an answer and a stop race for one prompt; ids are reused; `resolve` sends outside the lock | one answer allows one call, only an answer allows, a stop ends what waits |
| ReAct loop (`lucy-runtime`) | counters, stop reason, the calls of the decision | many ways round the loop, a stop between any two awaits | the ceilings hold, the report adds up, a stop is obeyed, a run ends |
| Executor (`lucy-scheduler`) | semaphore, job map, shutdown flag | `spawn` starts the task before it lists the job; abort, panic, cancel and cleanup all meet the permit | permits are conserved, the list tells a consistent story |
| Scheduler, cron (`lucy-scheduler`) | tasks with next and last run | `run_pending` works on a copy and writes back after awaits | what is withdrawn stays so; what is due runs; the search finds the first match |
| Gateway server (`lucy-gateway`) | task slot, client count, guards, shared event sink | socket, run and REST handler end in any order | slot and count balance on every way out |
| Runtime host (`lucy-gateway`) | an `RwLock` around the runtime, a mutex, client count, last use | FIFO locks held across awaits, a reaper that tests before it waits | `ensure` returns, an idle runtime goes |
| Device store (`lucy-gateway`) | pairing token and devices, in memory and in a file | crashes around a truncating write, failed saves, a second process | a code makes one device; a token once handed out survives, or its loss has a cause |
| Knowledge (`lucy-knowledge`) | a file per topic, an index over the files | file and row are written apart, a rebuild in between | nothing quarantined is injected, promotion is earned, the index covers the files |
| Sessions (`lucy-runtime`, `lucy-adk`) | the live session, the event log under it, the file of the current id | turns, switches, compactions and crashes at each await | no turn is lost or put down twice |
| Turn routing and plans (`lucy-runtime`) | the branch, the plan, its step | two classifiers side by side, approvals and the kill switch between steps | a stop ends the plan |
| Desktop agent loop, fast lane (`lucy-runtime`) | objectives, budgets, plan cache, browser handle | nested loops share budgets; evidence may hold before anything was done | it ends, what proved nothing is not complete, one browser is launched |
| Provider (`lucy-agent`) | attempts, usage, call log | retries, cancellation, cut replies | each call leaves one record; what is rescued from a cut reply has its shape |
| MCP client (`lucy-mcp`) | one server process behind a lock taken twice | a call drops the session under another | an answer belongs to its request |
| Desktop tools (`lucy-hyprfast`) | two cache files, the catalog of a start | several processes, a slow server, fallbacks that look like answers | nothing is fresh beyond its time; a plan is offered what it can use |
| System One (`lucy-systemone`) | the decider's pinned path, the daemon's pipe, the loops' history, the tab's socket | answers without a number, calls given up that are still carried out, pages that move on | a question gets its own answer; "done" was on the page |
| Terminal and settings (`lucy-tui`, `lucy-config`) | busy flag, cards, overlays, event queue; copies of the configuration | events come after the user has moved on | a typed turn runs alone; models belong to their endpoint |
| Tasks and watches (`lucy-tasks`) | the task table, a round of nudges; baselines | the list changes while a round reads it; a two-row table decides what a page lost | a report accounts for both pages |
| Spaces and editor (`lucy-spaces`) | rows, and a file per page; a buffer and two stacks | row and file in separate steps; errors ignored | files follow rows; undo and redo walk one line of buffers |
| Skills (`lucy-skills`) | counts in memory and in a file, skill files | several recorders, failed and torn writes | no outcome that was reported is lost |

The components that have no module are in `PROJECT.json` and in section 7.

## 2. Modules

| Module | Models | How it is composed |
|---|---|---|
| `InterruptSignal` | `InterruptSignal`, one step per atomic access | |
| `ApprovalGate` | `ApprovalGate`, split at awaits and at the unlock in `resolve` | carries the interrupt flag and who is registered with it |
| `ReactLoop` | one run of `react.rs` | the gate appears as answer, refusal or stop |
| `JobBoard` | what the job list promises (abstract) | |
| `Executor` | `executor.rs` | implements `JobBoard` (`Board == INSTANCE JobBoard`) |
| `Scheduler` | `ScheduledTask`, `run_pending` | its tasks' minutes are those `Cron` accepts (`FiresAssumption` in `MCScheduling`) |
| `Cron` | field parser, matcher, search | |
| `Gateway` | connections, slot, runs and REST tasks | a run's inside is `ReactLoop`'s, a prompt's `ApprovalGate`'s |
| `Host`, `DeviceStore` | `Host`; pairing, devices, the store file | |
| `Knowledge` | topic files, index, captures, recall, `/forget`, `/kb-dream` | |
| `Sessions` | the live session, its log, turns, replies, compaction, session commands, crash and restart | |
| `Turn` | `classify_turn`, `plan_commands`, `execute_plan_sequentially` | gate and tools appear as outcomes |
| `AgentLoop` | `agent_loop.rs` from plan to report | what the fast lane answers is free |
| `Perception` | `fast_perception.rs`: a request, its gate, its call, the reading of a reply | |
| `Provider` | one call over `post_json`; and, with variables of its own, how JSON is got out of a reply | |
| `McpClient` | `ensure_connected`, `request`, the server | |
| `ToolCatalog` | discovery, cache files, classification and the planner's tool set of `lucy-hyprfast` | |
| `Terminal` | the chat screen: keys, overlays, cards, voice, events of turns | |
| `Settings` | the configuration file and its copies: settings screen, commands, environment, restart | |
| `BrowserPolicy`, `BrowserLoop` | what to do next in a page; the loop that observes, asks, acts and verifies | the loop extends the policy |
| `SystemOne` | the desktop loop over the subtasks, its client and the daemon | |
| `BrowserTab` | the calls of a CDP client over one socket, and the tab that carries them out | |
| `Decider` | the search for the path a classification server answers at, and the reading of an answer | |
| `Tasks` | the to-do list, the rounds of nudges, the page watches and their diff | |
| `Spaces` | the page library: rows, files, search | |
| `EditHistory`, `Editor` | what undo and redo promise (abstract); the editor | `Editor` implements `EditHistory` |
| `Skills` | outcomes, patterns, creation and improvement of skills | |
| `MC...` | values for the constants, and the composition for a run | |
| `...Proofs` | theorems about the modules they extend: those of a run, in one module | |

Each `MC` module puts several components beside each other that share no
variable: `part` says which of them moves, the others rest in one initial state.
A run is then the union of its components' graphs and not their product, and
fairness is asked of a component in the behaviours in which it moves.

A definition under a comment `Slip:` is the form a definition would have with a
plausible bug in it; it is part of no specification, and shows that the property
named beside it in `PROJECT.json` tells the two apart.

### 2.1 State and code

**InterruptSignal.** `pc[t]` is the line a thread is at. `FireBump`,
`FireStore`, `FireNotify` are the statements of `fire`; `ResetCheck`,
`ResetClear`, `ResetRecheck`, `ResetRestore`, `ResetNotify` those of
`reset_if_epoch`, with `SampleEpoch` the caller's earlier `epoch()`;
`WaitEnable`, `WaitCheck`, `WaitReturn` are `notified`, whose registration comes
before its test. All accesses are sequentially consistent, as in the code.
`NotifyWaiters` is tokio's: it wakes the registrations that exist and leaves no
permit. `handled` is a history variable.

**ApprovalGate.** A prompt is a oneshot channel, numbered as it is opened.
`pending` is the map. `Take` and `Send` are the two halves of `resolve`: between
them a timer may end the call. `Discard` removes by *id*, as the code does, which
is how one call may remove the entry of another under the same id. `AskIds` are
the ids of callers that use `ask()`: only tests do. An unknown mode string
behaves as `write` (`CurrentMode`).

**ReactLoop.** An action is the code between two awaits, so `Fire` may come
between any two. What a model, a tool, a page check or a user returns is chosen
freely. `Refuse` stands for the ways a call is counted but not run. The loop's own
looks (`perceive`, `observe_probe`, `grade_completion`) go through `call_fast`, whose
progress is `fast`: they are gated and run like the model's calls, but not counted as
its calls. `late` and `asked` are history variables, of both kinds of call. The hooks
`probe_check` and `screen_check` are left out: only tests set them.

**Executor.** `spawn[j]`, `task[j]`, `status[j]` are the caller, the tokio task
and the record of one job. `Store` comes after `Acquire` has started the task,
as in the code, and `SetStatus` of a job not listed yet goes nowhere. `End` gives
the permit back: it is moved into the task's future.

**Scheduler, Cron.** `poll[p].due` is the copy made under the read lock.
`RunTask`, `Executed`, `Rearm` are separated by the awaits of runner and
delivery. In `Cron` a text is the *shape* of a field with its numbers; the
calendar is small and regular, with the real lower bounds and the parser's
weekday bound, which is one above the last weekday. What a text *means* (`Means`,
`IsDue`) is standard cron's reading, which the head of `cron.rs` promises; `Common`
names the texts lucy reads that way, and section 6 the others.

**Gateway.** A run's `stage` follows `spawn_task` and `run_task_once`. `sink` is
the gate's event slot: `Route` sets it, `Return` clears it, whoever set it.
`current[c]` is the guard a connection loop holds. `abandoned` is a history
variable.

**Host, DeviceStore.** `queue` holds the writers of the `RwLock`; `Current` is
`try_read`. The reaper is split at its waits. `mem` and `file` are the two copies
of the store; `Saved` writes what the store is *by now*. `file` is the store last
written whole; `damage` says what half a write has made of it (`TornWrites`): text
that does not parse, which `Load("kept")` renames aside, or no text. Any load may also
fail to read the file, or to rename it, and begin afresh (`"blind"`). `aside` and
`unread` are history variables: whose devices went which way.

**Knowledge.** A topic file is its header's origin and promotion, what follows
the header on its own line, and the lines after it. `Check`, `Read`, `Write`,
`Insert` are the steps of `store()`. `HeaderRewritten` is `write_promotion`, which
leaves out the newline behind the header. `behind` collects the topics known to
lack a row, each for a real failure, a stale write or a topic longer than a chunk.

**Sessions.** The store keeps every event and the live session what the model
is shown. A turn goes into the live history under the lock and into the log after
it; a compaction awaits its summary in between. `Crash` may come anywhere.

**Turn.** A planned command is what the code asks of it: whether it opens a page,
touches the page, names its element, is known, and wants approval.

**AgentLoop, Perception.** The budgets are spent where the code spends them: in
the planner, in each pursuit, in replans and in the closing check. A reply of a
tool is a record of the fields the readers look for, bare, inside the MCP
envelope, or an `error:` text; `Called` and what follows it read it as the code
does, its quirks included (section 6).

**Provider.** `sends`, `spent`, `usage`, `log` count what is sent, what was paid
for, what is in the total and what was written down. A reply to be read as JSON is
a sequence of brackets, commas, quotes, escapes, keys and scalars, cut anywhere, with
prose around it that may hold brackets of its own; what a string holds is a row of
tokens too (`Bodies`), braces and escaped quotes among them. `Documents` are what serde
would parse. Both scanners keep a mode (`Follows`: plain, quoted, escaped) and start
where the code does, at the first bracket of the whole reply (`Scanned`) or at every
`{`, also one inside a string (`Balanced`).

**McpClient.** The session's lock is taken in `ensure_connected` and, having been
let go, in `request`. The server answers in any order, talks unasked, and dies;
a call may be dropped at each of its awaits.

**ToolCatalog.** A tool is its name, the terms its name contains and those its
description contains; `Domain`, `ReadsOnly` and the rest read them as
`classify()` and the `is_...` predicates do. `AskServers` to `WriteSaved` are one
start; `Discover` chooses for each server whether it answers. A list goes by its
name, and `given` is when its server gave it, which no file says.

**Terminal, Settings.** The loop takes one queued event or one key at a time. A
provider is the endpoint it is reached at, since ids are made from URLs and
matched on URLs. A save writes the saver's whole copy.

**BrowserPolicy, BrowserLoop, SystemOne, BrowserTab, Decider.** Texts are sets of
words; a page is its address, the actions by node and what its title and text
say; System One's answers are any answers. `page` is what is in the tab now, `snapshot`
what the loop observed: the page moves by itself (`PageMoves`), under an act and after
one that was refused (`Acts`). It does so in the model where the loop can tell, before
an observation and between a decision and the end; a change while the policy thinks
shows at the next of these. `shown` and `judged` are history, of no influence. `owed`
counts the requests whose answer is still to come through the daemon's pipe, `astray` those of
them that nobody waits for, because a line that was no answer was read in their place
(`ReadStray`) or their asker was dropped (`Deserted`: no caller in this repository does
that, but `predict()` lets it). An operation of the tab is a row of calls, each numbered, sent over one
socket, and carried out also when nobody waits for it any more. A build of the
classification server says at which path it answers, is missing, broken or silent.

**Tasks, Spaces, Editor, Skills.** A statement and the writing of a page's file are
atomic, the calls made of them are not. A skill file is the remarks in its
description and the numbers in front of its steps; the counts file can be torn.

## 3. Runs

State counts are of distinct states; every run is complete. Times are with two
workers.

| Run | States | Time | Properties |
|---|---|---|---|
| `Core` | 749 k | 1 min | `NoLostWakeup`, `NoLostFire`; `OneAnswerOneCall`, `StopEndsPrompts` |
| `Scheduling` | 80 k | 1¼ min | `PermitsBalance`, `JobBoardSpec`; `WithdrawalHolds`, `DueTaskRuns`; `FirstMatch` |
| `Gateway` | 186 k | 1½ min | `BooksBalance`, `RunsKeptApart`, `SlotIsFreed`; `SheetFollowsRow`; `KeepsHistory`; `RecordedIsCounted`; `PathIsFound` |
| `Host` | 28 k | ½ min | `EnsureReturns`, `IdleIsUnloaded`; `OnePhonePerCode`, `LossHasACause` |
| `Knowledge` | 2.3 M | 1 min | `QuarantineHolds`, `PromotionIsEarned`, `IndexCoversFiles` |
| `Sessions` | 1.75 M | 1½ min | `LiveIsLogged`; `StopEndsPlan`; `DiffIsExact`; `EachStepOnTheLast` |
| `Desktop` | 398 k | 1 min | `FewAfterStop`, `HollowNeverComplete`, `OneLaunch`; `RunsEnd` (`RunEnds` and `AgentRunEnds`) |
| `Services` | 1.14 M | 2 min | `CutKeepsShape`, `CallsAddUp`; `ReplyIsOwn`; `TypedTurnsAlone`; `ModelsOfTheirEndpoint`; `DoneIsVerified`; `NoAnswerOwed`; `FreshIsRecent`, `OfferServes` |
| `Knowledge_forgotten` | | | refutes `ForgottenStaysForgotten` |
| `Services_largest` | | | refutes `LargestIsTaken` |
| `Services_wedge` | | | refutes `BusyMeansWork` |
| `Services_model` | | | refutes `HeaderIsTrue` |

Types are not in these lists. They are proved for the modules that have theorems; the
type invariants of the others (`StoreTypeOK`, `TabTypeOK`, `SettingsTypeOK` and so
on) and the inductive invariants of section 5 can be added to the cfg of their run,
and held in all of them when this was last done.

### 3.1 What each run shows, and why the bounds are enough

**Core.** *Interrupt*: three threads are a stopper, a resetter and a waiter at
once; two fires let one be overtaken by the other, which is what the epoch is for.
The theorems remove both bounds. *Gate*: two prompts under one id are what makes an
answer meet the wrong call; a third adds another copy of the same race. One id is
of an `ask()` caller, one tool is gated by its registry entry, and of the modes one
is a typo: the branch of `needs_approval` that the three documented words do not
reach. Answers, timers, stops, resets, mode changes and a lost listener come in any
order, and each allow goes back to an answer of its own.

**Scheduling.** *Executor*: more jobs than slots, so that a permit is waited for;
one panicking job, so that a permit comes back without a final status. No
interleaving of `spawn`, worker, `cancel`, `cleanup` and `shutdown` shows an
observer of the list a status that goes back, a terminal one that changes, or a
live job that vanishes. *Scheduler*: one task matches every minute, one matches
two, so one is overdue while the other runs; one poller, since nothing in the
repository polls twice. *Cron*: the numbers 0 to 4 pass every field's bounds on
both sides and the weekday bound's extra value; the starts 0, 21 and 46 are the
beginning, the middle and two minutes before the end of the small calendar, so that
the search carries over every field; 60 minutes exceed a full cycle, so "none"
means never. Standard cron's reading is written without the parser, and also says
which texts are to be refused: a parser that refused too much would fail.

**Gateway.** *Server*: two sockets, a WebSocket run and a REST run, both of which
may panic: `RunsKeptApart` needs two runs of different kinds, `SlotIsFreed` wants
panics, hang-ups and session changes at once. *Spaces*: two handles, two pages,
four calls and one broken operation are enough for a call to overtake another
between its row and its file, and for a later one to put it right. *Editor*: an undo
stack capped at two is passed by three keys. *Skills*: two recorders of two uses,
one torn write and a crash. *Decider*: three paths, two callers with two questions,
and a server that is replaced up to six times while they look.

**Host.** Two callers race for the mutex while the reaper races for the lock; a
timeout of 1 is enough to be not yet and already idle; the second build is the one
after an unload. *Store*: two phones and two codes (one handed out, one that
replaces it), `lucy pair` before and beside the gateway, with saves that fail before
or after they have truncated the file, crashes and restarts.

**Knowledge.** Two captures of one topic are two writers of one file; a topic of
the owner's and of quarantined claims is where a rebuild could launder an origin.
The threshold is the default, so promotion needs recalls, which need a promoted
row, which only the owner's edit gives: the run goes through that whole sequence
(depth 112). One fault is a refused row, a failed write or a crash, at every place.

**Sessions.** *Sessions*: three sessions (one that is live, one to switch to, one
that a fork or a new session makes), two prompts in flight, a history of three
turns so that a compaction has something to leave out and something to keep, one
fault. *Turn*: plans of two commands, since what goes wrong goes wrong between two.
*Tasks*: two tasks and one round, so that the list changes under it; texts of three
lines, enough for a line to move past another. *Tab*: two operations over two tabs,
one answer late.

**Desktop.** *ReAct loop*: the tool budget is smaller than what one decision may
name, so the ceiling is passed inside a decision, as the code lets it; three
decisions leave room for a refuted claim, an empty reply and a real one. *Agent
loop*: three objectives, three model calls and one recovery: every budget can be
the one that ends the run. *Fast lane*: ten tools cover every route of
`fast_perception.rs`, and replies come in each of the shapes it reads.

**Services.** *Provider*: every reply over a small grammar, fenced, wrapped or cut at
any token, whose strings hold a whole object, or an escaped quote between braces that
do not match, with nothing or a reference in brackets before it and behind it; calls that are repeated, cancelled, refused and answered beside the
point. *MCP*: two callers and four request ids, one line of talk, one dropped call:
an answer can arrive when its caller is gone and another is asking. *Terminal*: two
turns and two cards. *Settings*: two URLs and two models, so that a list can be at
the wrong address. *Browser loop*: three steps, three plans, six pages, one of
them no page of the goal's host that the results may turn into at any time. *Desktop
loop*: three steps, one goal after the other; one answer astray is enough for
every later one to come late by a question. *Tool catalog*: two processes that start three
times over three hours with a lifetime of one, so that a file is fresh, stale, and
written by two at once.

The four refuting runs use the instance of the run they are named after; section 6
says what they find. `Knowledge` uses symmetry of the captures and `Sessions` of
sessions and prompts: both check safety only, and no property names a particular
one. The other runs use none.

`CHECK_DEADLOCK FALSE` is set where the environment may simply stop (no more
prompts, jobs, keys, calls or builds, or a bounded clock at its end): in all runs but
`Knowledge`. Where a system may not get stuck, a liveness property of the run says
so.

## 4. Fairness

| Run | Assumed | Why |
|---|---|---|
| `Core` | WF of a prompt's wake-up | tokio polls a task whose `select!` has a ready branch; **not** of the timer: a stop must not need it |
| `Scheduling` | SF of `Acquire(j)`; WF of `Store`, `Runs` | tokio's semaphore is FIFO; runners return or panic |
| | WF of `Poll`, `Continues` | somebody keeps calling `run_pending`; runner and delivery return |
| `Gateway` | WF of `RunStep`, `Reply`, `Closed`, `StopDenies`; SF of `Return`, `Deliver` | runs end (`RunEnds`); a connection loop takes what is waiting for it although Stop frames come between |
| `Host` | SF of `Lock`, `Install`, `Reap`, `Unload`; WF of `Builds`, `ReadEnds`, `Tick`, `ReapCheck`, `ReapQueue`, `ReapEnds`, `UnloadEnds` | both locks are FIFO; builds, and closures under the read lock, return |
| `Desktop` | WF of `LoopStep`, `PromptStopped`; `RunEnds` adds WF of `AskReturns` | model client and tools have timeouts; nobody need answer a prompt, and the gate's `APPROVAL_TIMEOUT` answers when nobody does |
| | WF of `Proceeds` (`AgentLoop`) | as for the ReAct loop |

`Knowledge`, `Sessions` and `Services` state no liveness: nothing forces a topic to be
recalled, a user to type, or another program to answer.

## 5. Proofs

Eight modules hold theorems, one for each run's components.
Each theorem is `Spec => []P` (or an action property, or a refinement) by an inductive
invariant, for every value of the constants that the named assumptions of the module
admit; the bounds on clocks, faults and events that a run needs are constants too, so
the theorems hold for every bound.

| Theorem | States | Rests on |
|---|---|---|
| `CoreProofs!TypeCorrect` | type correctness of `InterruptSignal` | |
| `CoreProofs!NoLostWakeupHolds` | `NoLostWakeup` | inductive with the types; `Threads` may be any set |
| `CoreProofs!NoLostFireHolds` | `NoLostFire` | inductive with the types |
| `CoreProofs!GateTypeCorrect` | type correctness of `ApprovalGate` | |
| `CoreProofs!OneAnswerOneCallHolds` | `OneAnswerOneCall` | `AnswerInv` |
| `SchedulingProofs!PermitsBalanceHolds` | `PermitsBalance` | finite `Jobs` |
| `SchedulingProofs!ConcurrencyLimitHolds` | never more live tasks than slots | `PermitsBalance` |
| `SchedulingProofs!JobBoardHolds` | `JobBoardSpec`: the executor implements `JobBoard` | `Lockstep` |
| `SchedulingProofs!SchedulerTypeCorrect` | type correctness of `Scheduler` | |
| `SchedulingProofs!WithdrawalIsKept` | `WithdrawalHolds` | `WithdrawalInv` |
| `SchedulingProofs!FirstMatchHolds` | `FirstMatch` of `Cron` | `SearchInv`; fields have values, texts numbers |
| `DesktopProofs!CeilingsHold` | the decision ceiling, and by how much the tool ceiling is passed | `LoopInv` |
| `DesktopProofs!HonestReportHolds` | the figures of the report add up | `LoopInv` |
| `DesktopProofs!CompleteIsConfirmedHolds` | complete only on a check that ran and held | `LoopInv` |
| `DesktopProofs!FewAfterStopHolds` | `FewAfterStop` | `LoopInv` |
| `DesktopProofs!HollowNeverCompleteHolds` | `HollowNeverComplete` | `HollowInv` |
| `DesktopProofs!OneLaunchHolds` | `OneLaunch` | `LaunchInv` |
| `GatewayProofs!TypeCorrect` | type correctness of `Gateway` | |
| `GatewayProofs!BooksBalanceHolds` | `BooksBalance` | `GatewayInv` |
| `GatewayProofs!RunsKeptApartHolds` | `RunsKeptApart` | `GatewayInv` |
| `GatewayProofs!RecordedIsCountedHolds` | `RecordedIsCounted` of `Skills` | `SkillsInv` |
| `GatewayProofs!SheetFollowsRowHolds` | `SheetFollowsRow` of `Spaces` | `SheetsInv` |
| `GatewayProofs!KeepsHistoryHolds` | `KeepsHistory`: the editor implements `EditHistory` | `StacksInv`; `MaxUndo` positive |
| `GatewayProofs!PathIsFoundHolds` | `PathIsFound` of `Decider` | `SweepInv`; `Paths` positive |
| `HostProofs!NoneReplacedHolds` | `NoneReplaced` of `Host`: no runtime is built into the place of another while the gateway is up | `LoadInv` |
| `HostProofs!OnePhonePerCodeHolds` | `OnePhonePerCode` | `StoreInv` |
| `HostProofs!LossHasACauseHolds` | `LossHasACause` | `StoreInv` |
| `SessionsProofs!LiveIsLoggedHolds` | `LiveIsLogged` | `RecordInv` |
| `SessionsProofs!StopEndsPlanHolds` | `StopEndsPlan` of `Turn` | `LateInv` |
| `SessionsProofs!EachStepOnTheLastHolds` | `EachStepOnTheLast` of `BrowserTab` | `TabInv` |
| `SessionsProofs!DiffIsExactHolds` | `DiffIsExact` of `Tasks` | `WatchInv`, and induction over both pages |
| `KnowledgeProofs!TypeCorrect` | type correctness | `GateInv` |
| `KnowledgeProofs!QuarantineIsSafe` | `QuarantineHolds` | `GateInv` |
| `KnowledgeProofs!PromotionGate` | `PromotionIsEarned` | `GateInv` |
| `KnowledgeProofs!IndexCoversFilesHolds` | `IndexCoversFiles` | `IndexInv`, the types |
| `ServicesProofs!CallsAddUpHolds` | `CallsAddUp` of `Provider` | `CallsInv` |
| `ServicesProofs!ReplyIsOwnHolds` | `ReplyIsOwn` of `McpClient` | `McpInv` |
| `ServicesProofs!TypedTurnsAloneHolds` | `TypedTurnsAlone` of `Terminal` | `TurnInv` |
| `ServicesProofs!ModelsOfTheirEndpointHolds` | `ModelsOfTheirEndpoint` of `Settings` | `CopiesInv` |
| `ServicesProofs!DoneIsVerifiedHolds` | `DoneIsVerified` of `BrowserLoop` | `DoneInv` |
| `ServicesProofs!NoAnswerOwedHolds` | `NoAnswerOwed` of `SystemOne` | `OwedInv` |
| `ServicesProofs!FreshIsRecentHolds` | `FreshIsRecent` of `ToolCatalog` | `GivenInv` |
| `ServicesProofs!OfferServesHolds` | `OfferServes` of `ToolCatalog` | `GivenInv`; `ResolversAssumption` |

* **`LoopInv`** (in `ReactLoop`). None of the ceilings is inductive: a step that
  counts a call must know that the run was below the ceiling when the decision was
  asked for, and how many calls are left on the list. `LoopInv` says so at each
  `pc`. `StopBound` says the same of what begins after a stop: what each place may
  inherit from the looks made there, since no test comes between them.
* **`AnswerInv`** (in `ApprovalGate`). An allow that was given is in the resolver's
  hand, in the prompt's channel or in its result; in each case the prompt carries it
  (`Carries`). The invariant says that the map leads from an id to prompts under that
  id, and that the prompts bearing an allow under an id are no more than the allowing
  answers given under it, so that no step makes two allows of one answer.
* **`Lockstep`** (in `Executor`) ties record, `spawn` call and task together;
  the refinement needs it to know that a record is absent until `Store`, and that a
  task that starts was not reported as over.
* **`WithdrawalInv`** (in `Scheduler`). A poll's copy holds nothing that was withdrawn
  before it was made (`quiet`), and no task is both in the map and removed.
* **`SearchInv`** (in `Cron`). Every minute between the start and the candidate was
  looked at and does not match the parsed expression. That the parser takes a
  common field exactly when it is well formed, and what it makes of it matches what
  standard cron means, is a lemma about each field (`FieldMeans`): it needs that the
  calendar reads a value of the field (`ReadingIsValue`), and that a number the field
  takes and that is not the week's 7 is such a value (`LegalIsValue`).
* **`GatewayInv`** (in `Gateway`). Type correctness, `HeldByOne` (the taken slot is held
  by one connection or by the one REST caller that waits) and `WorkHoldsSlot` (while
  nobody has left, a run that works holds the slot, and the gate's channel is its own).
* **`GateInv`** (in `Knowledge`). That a promotion is earned depends on texts read
  long before: a capture holds an old copy of a file, the dream holds another. The
  invariant says that every text that claims a promotion, wherever it is held,
  claims it with reason, and that recall counts are covered by `uses`.
* **`SkillsInv`** (in `Skills`). Whoever saves holds the lock, memory covers what was
  reported and the outcome that is being saved, and a file that is not torn covers
  what was reported.
* **`HollowInv`** (in `AgentLoop`). An objective that was passed over has left both marks
  `final_summary` asks about, at whatever depth of revision, and an outcome stands only
  between runs.
* **`LaunchInv`** (in `Perception`). The launch is counted before anything is known of
  its result: while nothing is known none was opened but by the request in hand, and no
  request waits inside that one.
* **`SheetsInv`** (in `Spaces`). A row changes before its file. A call that is alone on a
  page is the only one on it, and at each place it is at, the row is as it left it
  (`FoundAsLeft`); so what it writes last is what the row says. Whoever enters takes
  "alone" from whoever is there, which is why a call that found company must not clear
  `stale` even when the company has gone.
* **`StacksInv`** (in `Editor`) is only that the stacks are sequences. The refinement is in
  the steps: the two stacks and the buffer are read as one line (`LinePlaces`), undo and
  redo move along it (`BackIsSame`, `ForthIsSameLine`), an edit keeps the line up to the
  place shown but for its oldest buffer (`EditedLine`).
* **`LoadInv`** (in `Host`). Whoever builds holds the mutex, so there is one at most; what
  each wait for the lock has in front of it is written out (`QueueIs`). A caller that builds
  beside a runtime has the reaper before it in the queue, and the reaper that is dropping has
  it no longer. After the shutdown this may fail, as section 6 says.
* **`StoreInv`** (in `DeviceStore`). Memory and file may differ, and a code may be live in
  the one and used in the other. In each of them a code that is live has no device and no
  phone keeps a token had for it, and devices of one code are one device; what the file
  has, the running gateway has, but for what was lost for one of the three causes.
* **`RecordInv`** (in `Sessions`). A session command reads a session at one step and
  installs it at a later one; what it holds meanwhile is on record too. The types carry the
  rest: ids are used before they are live, and a fork copies into a session that exists.
* **`LateInv`** (in `Turn`). The call that follows a stop may be tried twice; after it the
  plan is at its next test, or over.
* **`IndexInv`** (in `Knowledge`). Between steps a claim of a file need not be in the index.
  It is in a row, or a capture has written the file and not yet the row, or the rebuild has
  still to come to its topic; a crash moves the last two to `behind`, and so does a text
  that was written over one it had not read. That a claim is no line of markup is
  `BulletAssumption`: `accept` leaves at least one word and `write_topic_file` puts it
  behind a dash.
* **`CallsInv`** (in `Provider`). Every attempt is one request, and a call waits only while
  it has one left; the record and the result are written in one step.
* **`McpInv`** (in `McpClient`). Whoever reads holds the lock and waits for an id that no
  call has had an answer to. It says nothing of the server: answers that come late, or
  for a call that was aborted, are passed over by their id.
* **`TurnInv`** (in `Terminal`). The queue of events is ordered: what a turn says when it
  is over is the last of it, and a card that is waited for is shown, or in the queue with
  no other behind it. While a turn was spoken nothing of this is claimed.
* **`CopiesInv`** (in `Settings`). Each of the three copies may be written to the file whole,
  so each must be fit to be; and a test that still counts was made at the endpoint now typed.
* **`DoneInv`**, **`OwedInv`** (in `BrowserLoop`, `SystemOne`). A run that is done takes no
  further step, and from a look at the page to the next act what was seen is one of the
  pages shown (`Viewing`), which is what an end in a later state rests on. Beyond the
  answers that went astray, one is owed exactly while the client reads, and a daemon
  that is not up owes none: so no restart inherits a debt.
* **`GivenInv`** (in `ToolCatalog`). A cache file is stored with a time not later than its
  list was given, and the hour of a live list lasts until the start that took it has
  stored it, since a start is over within the hour. Whatever a start has come from is a list
  hyprfast gives and one computer use gives, which is all `OfferServes` needs of it. The
  rest is in the rules of `planner_tool_set`: while a tool to look with is left, nothing
  that was hidden is brought back (`NothingBroughtBack`), and no rule hides a resolver
  (`ResolverKept`). The last holds because `is_planner_core` lists by hand the names
  `is_self_resolving_interaction` looks for. It is a fact about names, not about code:
  `ResolversAssumption` states it, the tests' copy of hyprfast's catalog has it, and
  without it the property is false. A resolver under a name of its own, or one whose
  description speaks of launching, is hidden beside a batch tool or a ready browser.
* **`WatchInv`** (in `Tasks`) is small: a report is the difference of the two pages it names.
  The work is in what the difference is. It reads a table of common rests, which the
  code fills from the back; its value at two places is the length of the longest row of
  lines the rests of both pages have in common (`LargestMatching`): no matching of the two
  rests is larger, and the walk's is as large. Then by the same induction the walk tells, of
  each rest, exactly what it does not keep (`WalkAccounts`), and setting lines that
  went beside lines that came as changed keeps the accounts (`PairHolds`, `BagLess`).
  The induction is over how much of the two pages is left. The library states it with an
  operator parameter, which the provers cannot instantiate; here a set stands for the
  property (`MeasureInduction`), and that the recursive tables exist, so that each satisfies
  the equation that defines it, is shown once for all three (`TableExists`).
* **`SweepInv`** (in `Decider`). While the server is the one the call began with, every
  path from its first to the one before its turn has nothing; after `Paths` of them, in a
  circle, those are all there are, wherever the pin was moved meanwhile.
* **`TabInv`** (in `BrowserTab`). That a page has carried out a prefix of what was asked
  says nothing of what is still on its way to it. An input on the wire is the next of its
  action, there is at most one, and only the call that waits may own it (`WireInv`);
  while an action is under way, what came back to that call, or has not, says how far
  the page is (`UnderWay`). So an answer to an earlier call moves nothing on, and an
  input that was given up is the last its action sends.

The invariants were model-checked on the runs' instances before they were proved, and so was
`NoneReplaced`, which is no run's property: its theorem says all the run would. Twice
the proof changed what is stated. `DiffIsExact` measured the report by a fold over the
common subsequences in an order the logic leaves open, so that only its value under TLC was
known; it now speaks of matchings, sets of equal lines in the order of both pages, and says
the same of every order. And `WatchInv` had to say that a check under way has passed its
first step (`checking.next > 0`): without that, a check of a watch before the first is a step
it could not exclude.

Only model-checked:

* liveness (`StopEndsPrompts`, `RunsEnd`, `DueTaskRuns`, `SlotIsFreed`,
  `EnsureReturns`, `IdleIsUnloaded`): the proof system does not do fairness and `ENABLED`;
* `CutKeepsShape`: an induction over the tokens of a reply. The documents are a fixed set
  over what strings may hold and what prose may say, and the run has every reply made of
  those;
* the types of the modules whose theorem does not need them.

## 6. Where the code and its docs part

Four disagreements have a run (`findings` in `PROJECT.json`):

* `ForgottenStaysForgotten` (`Knowledge_forgotten`): `/forget` sets a tombstone in
  the index only; `reindex()` deletes all rows and rebuilds them from the files, so
  the next `/kb-dream` brings the topic back. The comment at
  `lucy-tui/src/commands.rs:568-569` says that it cannot.
* `LargestIsTaken` (`Services_largest`): `largest_balanced_object` stops at the first
  closing brace at whatever depth (`lucy-agent/src/provider.rs:1437`), so of a whole
  object with objects inside an inner one is returned, against line 1400.
* `BusyMeansWork` (`Services_wedge`): `/stop` with nothing running sets the busy flag
  (`lucy-tui/src/commands.rs:800`), and no event will clear it, against
  `model.rs:374`.
* `HeaderIsTrue` (`Services_model`): a tier bound in `/settings` shows in the header
  and never reaches the runtime (`lucy-tui/src/lib.rs:348`), against line 349.

The following were met while modelling and have no run, to keep the runs to the
questions that hold. In each case the module does what the code does.

*Gate.* The timer of `ask_cancellable` leaves its entry in the map
(`lucy-core/src/lib.rs:463`, against 452-454). Under a reused call id an "always"
given on one card is recorded for the other call's tool (570, against 522).

*ReAct loop.* A decision's calls are all run, past the tool-call ceiling
(`react.rs:799`, against 100-101). Denied and unknown calls count as having done
something, so a claim is accepted with nothing run (1017, against 1013-1016). A
provider failure is reported as an exhausted budget (1120, against 778-780). The
loop's own looks do not test the interrupt (`fast_perception.rs:807-877`; `execute`
does, `react.rs:801`): a run stopped before its first look still makes two tool calls,
and may raise two prompts. "No prompt and at most one call after a stop" fails on the
run's instance; `FewAfterStop` is what holds.

*Executor, scheduler, cron.* A job that ends before it is listed is `Pending` for
ever (`executor.rs:164`), as is one whose runner panics `Running`, against line 62.
A `spawn` past its shutdown test starts a job that shutdown does not see (290). A
task cancelled while it runs is re-armed (`lucy-scheduler/src/lib.rs:237`, against
64). "Standard cron syntax" (`cron.rs:3`) is departed from in five ways: `N/M` keeps
only the step (72, against 65), and so does `a-b/N` (62); weekday 7 is accepted and
never matches (194, 353); `*/N` counts from zero on fields that begin at one (122);
day of month and day of week must both hold where cron asks for either (349-353); a step
beyond the field is refused (39). `FirstMatch` without `CommonText` fails on the
run's instance.

*Gateway, host, devices.* A socket that closes frees the slot while its run goes on
(`server.rs:706`, against 54-56), and a run closed before it saves its message
clears the interrupt meant for it (against 704-705). A panic past `set_events` keeps
the event sender in the gate, and the slot while the phone stays (570, against
159-160). The reaper tests the client count before it waits and not after
(`host.rs:194`, against 87-88); a REST run longer than the timeout loses its runtime
(139). A shutdown that aborts the reaper while a caller builds behind it lets the new
runtime take the place of the old one (176), and then drops the new one too. A running
gateway never re-reads its store, so a code printed beside it is refused
(`lucy-gateway/src/lib.rs:170`). A store that cannot be read, or is cut inside a
character and so is no text, counts as no store (`auth.rs:99`), and a rename that fails
is ignored (242): the next save replaces it in silence, against 86-88 ("losing the
devices should not be invisible"). `LossHasACause` without `unread` fails on the run's
instance.

*Knowledge.* Recall looks only at promoted rows, and promotion wants recalls, so no
captured topic is promoted unless its owner edits the header; the edit promotes
without recalls (`lucy-config/src/lib.rs:832-835` says the gate "only ever delays").
A rebuild makes one row per file under the header's origin, and none for a topic
longer than a chunk (`store.rs:699-701` calls it lossless). Two captures, or a
capture and a promotion, may overwrite each other's line; each further
`write_promotion` swallows one.

*Sessions and turns.* `save_assistant_text` trims the history before auto-compaction
measures it, so nothing is ever summarised by it. A switch or a new session resets
the flag of a run that was just stopped. A reply goes to whichever session is
current when it comes. A crash during the import leaves part of it. A plan that
fails validation leaves its events in the gate (`turn.rs:1283`).

*Fast lane.* `wait_once` takes a reply that holds `"timed_out":false` as a match; a
failure inside the MCP envelope reads as a success, a probe's error there as "no";
`verdict_from_str` looks for "satisfied" before "not_satisfied"
(`fast_perception.rs:1797-1806`).

*Provider, MCP.* The repair of a cut reply starts at the first bracket, wherever that
is (`provider.rs:1481`, against 1479-1480: "from the JSON rather than from its
preamble"): `See [1]: {"objectives":[{"d":1},{"d` yields the inner `{"d":1}`. A cut
inside a string that holds an object yields that object: `{"code":"fn main() {}` gives
`{}`, against 1466-1476. `CutKeepsShape` without `Findable` fails on the run's
instance. `complete_text` records an empty reply as a success and then fails
the call. The body of a reply is read without the interrupt. The timeout of an MCP
call is per line (`lucy-mcp/src/lib.rs:181`), so a server that talks holds a call for
ever; any error reply ends the server.

*Tool catalog.* A fallback to the file is saved again under a new stamp when the
other server answered live, against the comment at `lucy-hyprfast/src/lib.rs:253`; a
removed tool is offered again when it is the only one that observes, and when the
filter leaves nothing; an empty list stored as fresh makes each start ask again.

*Configuration and terminal.* `set_approval_mode` changes the file, and the next save
by the settings screen or `/serve` writes the old mode back; a stale save loses the
always-allow list likewise. `tested` survives an edited key. What the environment
overrides is written back by a later save. Saves are not atomic, and a failed one
leaves memory ahead of the file. Push-to-talk on F2 is shadowed by help; voice ignores
the busy flag.

*System One.* The daemon's answers are told apart by their order only. A line that a
library prints to its stdout is taken for an answer, does not parse, and leaves the
daemon running with the real answer still to come (`bridge.rs:181-183`); from then on
each question gets the answer to the one before, until a timeout, an error of the pipe
or the daemon's end. "Nobody asks a daemon that owes an answer" fails on the run's
instance; `NoAnswerOwed` says that nothing else has this effect. A run of the browser
loop is done on what it observed last: the page may have moved since, while the policy
was asked, and "the page in the tab is the one a success was judged by" fails on the
run's instance too. A requirement counts as met when its action was issued; a `?` leaves
`last_report` of the run before; the interrupt is looked at between subtasks only.
`close()` of the CDP client also closes tabs it only found (nothing calls it). The
decider's `probe()` always says that there are no answers, and its path stays pinned
when the answer cannot be read.

*Tasks, spaces, editor, skills.* `complete()` completes a cancelled task and
`set_status` leaves `completed_at`. `Spaces::reindex` rebuilds the search from the rows
although the doc makes the files the truth; overlapping saves may leave the file
older. `/title` cannot be undone, and a shorter heading leaves the cursor beyond the
text. A torn counts file keeps the skill store from opening; a pattern's remark is
appended again and again.

## 7. What is not modelled

*Abstracted inside the modelled parts.* Memory reordering (all atomics are
sequentially consistent, which is what the code asks for); wording of prompts,
reports and errors; frame encoding and the HTTP layer; token generation, hashing and
when a token expires (it may at any time); the real calendar and the cron aliases;
ranking and text gates of recall, page observations, headings and supersession of
chunks; session titles and search rows; the word lists of the manual router; what
a page shows, what the model says, what System One answers (all free); drawing and
scrolling of the terminal. `lucy-tasks`, `lucy-spaces` and the cron polling of the
scheduler are modelled as libraries: nothing else in the repository calls them.

*Components without a module:*

| Component | Why |
|---|---|
| Error text, model log, legacy file sessions | formatting; single appends; a file format read once |
| Result delivery | a fixed set of handlers, each one send |
| Gateway protocol and QR | serialisation and drawing |
| Model memory hub | `hub.rs` is not Rust as it stands: line 313 has a character literal of two characters, and its schema is a raw string with a literal `\n` in it |
| Execution journal | each record is one append, kept for display |
| Tools | each is one call to the operating system |
| Speech | a recorder and a transcription service, one after the other |
| Command line, ACP server, mascot | argument parsing and drawing; the ACP adapter does not parse (two `where` clauses on one function) |
| Android application | a web view of the gateway's page |

## 8. Running

```
tlc -workers 2 -config Core.cfg MCCore       # the module of each run is in PROJECT.json
tlapm SchedulingProofs.tla                   # and the other ...Proofs
```

A component alone is the run of its `MC` module with `Init` restricted to one value
of `part`.

## 9. Where to go on

1. Proofs of the types that no theorem states yet, and of `CutKeepsShape` for any grammar.
2. `Gateway` with `ApprovalGate` in place of its free prompt, so that the id of a
   prompt and the connection it was published to meet in one graph.
3. The settings screen's list editors, and the session titles.
