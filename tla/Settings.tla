------------------------------ MODULE Settings ------------------------------
(***************************************************************************)
(* The configuration and everybody who holds a copy of it (crates/          *)
(* lucy-config, lucy-tui settings.rs, lucy-agent providers.rs, lucy-runtime *)
(* lib.rs).  The file is one; the chat screen reads it once and saves its   *)
(* own copy whole, the runtime reads it once and holds another, commands    *)
(* read, change and save.  A provider is the endpoint it is reached at: ids *)
(* are made from URLs and matched on URLs.  Texts, labels and the other     *)
(* sections are left out.                                                   *)
(***************************************************************************)
EXTENDS Integers, FiniteSets

CONSTANTS Urls,      \* endpoints
          Endpoint,  \* the one [models] text_base_url names
          Models,    \* model ids
          Serves,    \* the models each endpoint lists
          Deepest,   \* reasoning tiers: three in the code
          MaxTries,  \* bound on connection tests
          MaxWrites  \* bound on the saves of all processes

ASSUME SettingsAssumption ==
  /\ Endpoint \in Urls /\ Serves \in [Urls -> SUBSET Models]
  /\ Deepest \in Nat \ {0} /\ MaxWrites \in Nat /\ MaxTries \in Nat

VARIABLES file,      \* the configuration on disk
          app,       \* the chat screen's copy
          rt,        \* the runtime's copy
          gate,      \* the approval gate's mode
          env,       \* LUCY_CHAT_MODE in the screen's environment, or "none"
          header,    \* the model named at the top of the screen
          open, typed, goodKey, tested, found, offered, fallbacks,
          answered,  \* of every endpoint, the lists it has answered a probe with
          tries, writes
copies == <<file, app, rt, gate, env, header>>
draft == <<open, typed, goodKey, tested, found, offered, fallbacks, answered, tries>>
settingsVars == <<copies, draft, writes>>

Tiers == 1..Deepest
Pending == "pending"
Unbound == <<>>
Default == <<"default">>                    \* a bare name, no provider's
ModelKeys == (Urls \cup {Pending}) \X Models
Modes == {"never", "write", "always"}
Empty == [u \in Urls |-> {}]                \* {} of an endpoint: not connected
Compiled == [providers |-> Empty, tiers |-> [t \in Tiers |-> Unbound],
             mode |-> "write", chat |-> "auto", bridge |-> FALSE]

SettingsTypeOK ==
  /\ \A c \in {file, app, rt} :
       /\ c.providers \in [Urls -> SUBSET Models]
       /\ c.tiers \in [Tiers -> ModelKeys \cup {Unbound, Default}]
       /\ c.mode \in Modes /\ c.chat \in {"auto", "manual"} /\ c.bridge \in BOOLEAN
  /\ gate \in Modes /\ env \in {"none", "manual"}
  /\ header \in ModelKeys \cup {Default}
  /\ {open, goodKey, tested} \subseteq BOOLEAN /\ typed \in Urls \cup {"none"}
  /\ found \subseteq Models /\ offered \subseteq ModelKeys
  /\ fallbacks \subseteq ModelKeys \cup {Default}
  /\ answered \in [Urls -> SUBSET SUBSET Models]
  /\ tries \in 0..MaxTries /\ writes \in 0..MaxWrites

----------------------------------------------------------------------------
\* resolve_level_model(): the tier's own model, else that of a cheaper tier, else
\* the default.
BoundBelow(c, t) == {s \in 1..t : c.tiers[s] # Unbound}
Resolve(c, t) ==
  IF BoundBelow(c, t) = {} THEN Default
  ELSE c.tiers[CHOOSE s \in BoundBelow(c, t) : \A r \in BoundBelow(c, t) : r <= s]

\* model_options(): every model of every connected provider.
Options(providers) == UNION {{u} \X providers[u] : u \in Urls}
\* resolve_level_fallbacks().
Fallbacks(c) == {Resolve(c, t) : t \in Tiers}

\* level_keys(): what the arrows reach.  level_picker_choices(): what the
\* dropdown shows, the tiers first, then each provider, then the fallbacks.
BoundKeys == {app.tiers[t] : t \in Tiers} \ {Unbound}
ArrowKeys == {Unbound} \cup offered \cup fallbacks \cup BoundKeys
PickerKeys == {Unbound} \cup BoundKeys \cup offered \cup (fallbacks \ BoundKeys)

----------------------------------------------------------------------------
\* load(): the file, with the environment laid over it.
Overlaid(c) == IF env = "none" THEN c ELSE [c EXCEPT !.chat = env]
\* save(): one whole record for another.
Saves(c) == writes < MaxWrites /\ writes' = writes + 1 /\ file' = c

Closed == [open |-> FALSE, typed |-> "none", goodKey |-> FALSE, tested |-> FALSE, found |-> {}]
DraftIs(d) ==
  /\ open' = d.open /\ typed' = d.typed /\ goodKey' = d.goodKey
  /\ tested' = d.tested /\ found' = d.found

\* sync_text_endpoint(): the endpoint answers with its list, which its provider
\* takes over, or it does not answer in time.
Synced(c) == [c EXCEPT !.providers[Endpoint] = Serves[Endpoint]]

SettingsInit ==
  /\ file = Compiled /\ env \in {"none", "manual"}
  /\ app = Overlaid(Compiled) /\ rt = Overlaid(Compiled)
  /\ gate = "write" /\ header = Default
  /\ open = FALSE /\ typed = "none" /\ goodKey = FALSE /\ tested = FALSE /\ found = {}
  /\ offered = {} /\ fallbacks = {Default}
  /\ answered = [u \in Urls |-> {}] /\ tries = 0 /\ writes = 0

\* The program ends and is started again: run_voice() loads, then the runtime
\* loads for itself and synchronises, and saves if that changed anything.
Restart ==
  /\ app' = Overlaid(file)
  /\ \/ rt' = Overlaid(file) /\ UNCHANGED <<file, writes, answered>>
     \/ /\ rt' = Synced(Overlaid(file)) /\ rt' # Overlaid(file) /\ Saves(rt')
        /\ answered' = [answered EXCEPT ![Endpoint] = @ \cup {Serves[Endpoint]}]
  /\ gate' = file.mode /\ header' = Resolve(rt', Deepest)
  /\ DraftIs(Closed) /\ offered' = {} /\ fallbacks' = Fallbacks(Compiled)
  /\ UNCHANGED <<env, tries>>

----------------------------------------------------------------------------
\* The settings screen.
OpenSettings ==
  /\ ~open
  /\ DraftIs([Closed EXCEPT !.open = TRUE])
  /\ offered' = Options(app.providers) /\ fallbacks' = Fallbacks(app)
  /\ UNCHANGED <<copies, answered, tries, writes>>
CloseSettings ==
  /\ open /\ open' = FALSE
  /\ UNCHANGED <<copies, typed, goodKey, tested, found, offered, fallbacks, answered, tries, writes>>

\* Slip: only a preset drops the last test.
TypedStays == tested

\* A URL typed by hand no longer counts as tested; what was found stays.
TypedTested == FALSE
TypeUrl(u) ==
  /\ open /\ u # typed /\ typed' = u /\ tested' = TypedTested
  /\ UNCHANGED <<copies, open, goodKey, found, offered, fallbacks, answered, tries, writes>>
TypeKey ==
  /\ open /\ goodKey' = ~goodKey
  /\ UNCHANGED <<copies, open, typed, tested, found, offered, fallbacks, answered, tries, writes>>
\* apply_preset(): a vendor's URL, or the form as it is; the last test is dropped
\* with what it found, and a blank key may come from the environment.
Presets == Urls
PickPreset ==
  /\ open /\ typed' \in Presets \cup {typed} /\ goodKey' \in {goodKey, TRUE}
  /\ tested' = FALSE /\ found' = {}
  /\ UNCHANGED <<copies, open, offered, fallbacks, answered, tries, writes>>

\* [Test]: a good key gets the endpoint's list, which must not be empty.  The
\* dropdowns show it at once, under the provider's id or, when there is none yet,
\* under one that will be replaced.
Listed(u) == goodKey /\ Serves[u] # {}
PreviewId(u) == IF app.providers[u] # {} THEN u ELSE Pending
Preview(u) ==
  IF PreviewId(u) = u THEN Options([app.providers EXCEPT ![u] = Serves[u]])
  ELSE Options(app.providers) \cup ({Pending} \X Serves[u])
TestProvider ==
  /\ open /\ typed \in Urls /\ tries < MaxTries /\ tries' = tries + 1
  /\ \/ /\ Listed(typed) /\ tested' = TRUE /\ found' = Serves[typed]
        /\ answered' = [answered EXCEPT ![typed] = @ \cup {Serves[typed]}]
        /\ offered' = Preview(typed) /\ fallbacks' = Fallbacks(app)
     \/ tested' = FALSE /\ UNCHANGED <<found, answered, offered, fallbacks>>
  /\ UNCHANGED <<copies, open, typed, goodKey, writes>>

\* [Save]: the provider of this URL is replaced or added, with what was found.
WithProvider(c, u, models) == [c EXCEPT !.providers[u] = models]
SaveProvider ==
  /\ open /\ typed \in Urls /\ tested
  /\ app' = WithProvider(app, typed, found) /\ Saves(app')
  /\ offered' = Options(app'.providers) /\ fallbacks' = Fallbacks(app')
  /\ header' = Resolve(app', Deepest)
  /\ UNCHANGED <<rt, gate, env, open, typed, goodKey, tested, found, answered, tries>>

\* A tier is bound by the arrows or from the dropdown, and the screen's copy is
\* saved; the runtime is not told.
Cycled(k) == k \in ArrowKeys
Picked(k) == k \in PickerKeys
BindTier(t, k) ==
  /\ open /\ (Cycled(k) \/ Picked(k))
  /\ app' = [app EXCEPT !.tiers[t] = k] /\ Saves(app')
  /\ fallbacks' = Fallbacks(app') /\ header' = Resolve(app', Deepest)
  /\ UNCHANGED <<rt, gate, env, open, typed, goodKey, tested, found, offered, answered, tries>>

\* The chat mode row, like every row that only saves.
ChooseChat(m) ==
  /\ open /\ app' = [app EXCEPT !.chat = m] /\ Saves(app') /\ header' = Resolve(app', Deepest)
  /\ UNCHANGED <<rt, gate, env, draft>>

\* runtime.set_approval_mode(): the file is read again, changed and saved, the
\* runtime's copy and the gate follow; the screen's copy is not told.
RuntimeMode(from, m) ==
  /\ rt' = [rt EXCEPT !.mode = m] /\ gate' = m
  /\ file' = [Overlaid(from) EXCEPT !.mode = m]
\* The permissions row saves the screen's copy, then asks the runtime.
ChooseMode(m) ==
  /\ open /\ writes < MaxWrites /\ writes' = writes + 1
  /\ app' = [app EXCEPT !.mode = m] /\ RuntimeMode(app', m)
  /\ UNCHANGED <<env, header, draft>>
\* /auto.
AutoCommand(m) ==
  /\ ~open /\ writes < MaxWrites /\ writes' = writes + 1 /\ RuntimeMode(file, m)
  /\ UNCHANGED <<app, env, header, draft>>
\* /serve on|off: a clone of the screen's copy is changed and saved.
ServeCommand(on) ==
  /\ ~open /\ Saves([app EXCEPT !.bridge = on])
  /\ UNCHANGED <<app, rt, gate, env, header, draft>>
\* lucy config set: one key of the file takes another value, which validate()
\* must accept, so an unknown mode is not written.
Settable(c) == {[c EXCEPT !.chat = m] : m \in {"auto", "manual"}}
               \cup {[c EXCEPT !.mode = m] : m \in Modes}
ConfigSet ==
  /\ \E c \in Settable(file) : Saves(c)
  /\ UNCHANGED <<app, rt, gate, env, header, draft>>
\* lucy config reset, lucy serve --enable and --disable.  These commands are
\* processes of their own, whose environment overrides nothing.
ConfigReset ==
  /\ Saves(Compiled)
  /\ UNCHANGED <<app, rt, gate, env, header, draft>>
ServeSwitch ==
  /\ \E on \in BOOLEAN : Saves([file EXCEPT !.bridge = on])
  /\ UNCHANGED <<app, rt, gate, env, header, draft>>

SettingsNext ==
  \/ Restart \/ OpenSettings \/ CloseSettings \/ TypeKey \/ PickPreset \/ TestProvider
  \/ SaveProvider \/ ConfigSet \/ ConfigReset \/ ServeSwitch
  \/ \E u \in Urls : TypeUrl(u)
  \/ \E t \in Tiers, k \in ModelKeys \cup {Unbound, Default} : BindTier(t, k)
  \/ \E m \in {"auto", "manual"} : ChooseChat(m)
  \/ \E m \in Modes : ChooseMode(m) \/ AutoCommand(m)
  \/ \E on \in BOOLEAN : ServeCommand(on)

SettingsSpec == SettingsInit /\ [][SettingsNext]_settingsVars

----------------------------------------------------------------------------
\* Whatever was typed, tested, picked and typed again, the models stored for an
\* endpoint are a list this endpoint gave.
ModelsOfTheirEndpoint ==
  \A u \in Urls : file.providers[u] # {} => file.providers[u] \in answered[u]

\* What is behind it: so it is with every copy, each of which may be written to
\* the file whole; and what a test that still counts found is a list the endpoint
\* in the form gave.
Config ==
  [providers : [Urls -> SUBSET Models], tiers : [Tiers -> ModelKeys \cup {Unbound, Default}],
   mode : Modes, chat : {"auto", "manual"}, bridge : BOOLEAN]
WasAnswered(c) == \A u \in Urls : c.providers[u] # {} => c.providers[u] \in answered[u]
CopiesTypeOK ==
  /\ file \in Config /\ app \in Config /\ rt \in Config
  /\ env \in {"none", "manual"} /\ found \subseteq Models
  /\ answered \in [Urls -> SUBSET SUBSET Models]
CopiesInv ==
  /\ CopiesTypeOK
  /\ WasAnswered(file) /\ WasAnswered(app) /\ WasAnswered(rt)
  /\ typed \in Urls /\ tested => found \in answered[typed]

\* The model the screen names for the next turn is the one the runtime would
\* call.  Refuted: the settings never reach the runtime's copy.
HeaderIsTrue == header = Resolve(rt, Deepest)
=============================================================================
