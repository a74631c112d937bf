----------------------------- MODULE SceneCard -----------------------------
(***************************************************************************)
(* NanoleafSceneCard of frontend/nanoleaf-scene-card.js: a dashboard card  *)
(* that fetches a scene catalogue and calls services of Home Assistant.    *)
(* The dashboard may set another configuration, take the card out of the   *)
(* page and put it back at any time; fetches and service calls that are    *)
(* under way go on, and their answers find a card that has changed.        *)
(*                                                                         *)
(* Code between two awaits is one step.  The two awaits of a load change   *)
(* nothing between them and are one.  A catalogue is the address it came   *)
(* from and its valid scenes; palettes, the title, the animation and the   *)
(* limit of fifty visible scenes are left out.                             *)
(***************************************************************************)
EXTENDS Naturals, FiniteSets

CONSTANTS
  Entities,    \* light entities the card may be configured for
  Urls,        \* scenes_url
  Scenes,      \* UUIDs
  Effects,     \* effects stored on bulbs
  MaxLoads,    \* bound: loads of a catalogue
  MaxCalls,    \* bound: service calls
  MaxChanges,  \* bound: generations of the card
  None

ASSUME CardAssumption ==
  /\ None \notin Entities \cup Urls \cup Scenes \cup Effects
  /\ None \notin [entity : Entities, url : Urls] \cup [url : Urls, ids : SUBSET Scenes]
  /\ None \notin [n : Nat, config : [entity : Entities, url : Urls]]
  /\ \A n \in {MaxLoads, MaxCalls, MaxChanges} : n \in Nat

VARIABLES
  config,      \* _config, None before the first setConfig
  connected,   \* the card is in the page
  generation,  \* _generation
  scenes,      \* _scenes, None when empty
  found,       \* the scenes that match the search
  selected,    \* _selected
  loads,       \* loads under way
  started,     \* loads so far; the number of the controller in _abort
  loading,     \* _loading
  failed,      \* _catalogError is shown
  busy,        \* _busy
  calls,       \* service calls under way
  made,        \* service calls so far
  shown,       \* the call that _message or _actionError is about and the
               \* configuration it was made under, None when both are empty
  states,      \* hass.states: the effects of each light, None when unavailable
  stored       \* the stored effect that is chosen

catalogue == <<scenes, found, selected, failed>>
traffic == <<loads, started, loading>>
acting == <<busy, calls, made, shown>>
vars == <<config, connected, generation, catalogue, traffic, acting, states, stored>>

Init ==
  /\ config = None
  /\ connected = FALSE
  /\ generation = 0
  /\ scenes = None
  /\ found = Scenes
  /\ selected = None
  /\ loads = {}
  /\ started = 0
  /\ loading = FALSE
  /\ failed = FALSE
  /\ busy = FALSE
  /\ calls = {}
  /\ made = 0
  /\ shown = None
  /\ states = [e \in Entities |-> None]
  /\ stored = None

-----------------------------------------------------------------------------
(* Decisions of the code that the actions share.                           *)

\* `if (controller.signal.aborted) return`
Dropped_Never(l) == FALSE
Dropped(l) == l.aborted

\* `if (this._abort === controller)` in the finally of a load
Owns_Any(l) == TRUE
Owns(l) == l.n = started

\* `if (generation === this._generation)`
Current_Any(c) == TRUE
Current(c) == c.generation = generation

\* The result of a call, which carries the configuration of the call.
Report(c) == [n |-> c.n, config |-> c.config]

\* setConfig forgets the last result.
AfterSetConfig_Kept == shown
AfterSetConfig == None

\* A catalogue without a valid scene is an error.
Valid_Any(ids) == TRUE
Valid(ids) == ids # {}

\* _updateOptions keeps a selection that is still to be seen.
Kept(cat, query) ==
  IF cat # None /\ selected \in cat.ids \cap query THEN selected ELSE None

\* _update keeps a stored effect that the configured light still has.
Offered(c, st) == IF c = None \/ st[c.entity] = None THEN {} ELSE st[c.entity]
KeptEffect(c, st) == IF stored \in Offered(c, st) THEN stored ELSE None
Available == config # None /\ states[config.entity] # None

Aborted == {[l EXCEPT !.aborted = TRUE] : l \in loads}

\* _loadScenes up to its first await.
StartLoad(url) ==
  /\ started < MaxLoads
  /\ started' = started + 1
  /\ loads' = Aborted \cup {[n |-> started + 1, url |-> url, aborted |-> FALSE]}
  /\ loading' = TRUE

-----------------------------------------------------------------------------
(* The dashboard.                                                          *)

\* setConfig with another entity or address. A change of the title changes
\* nothing here.
SetConfig(c) ==
  /\ c # config
  /\ generation < MaxChanges
  /\ config' = c
  /\ generation' = generation + 1
  /\ scenes' = None
  /\ found' = Scenes
  /\ selected' = None
  /\ failed' = FALSE
  /\ busy' = FALSE
  /\ shown' = AfterSetConfig
  /\ stored' = KeptEffect(c, states)
  /\ IF connected
     THEN StartLoad(c.url)
     ELSE /\ loads' = Aborted
          /\ UNCHANGED <<started, loading>>
  /\ UNCHANGED <<connected, calls, made, states>>

\* connectedCallback
Connect ==
  /\ ~connected
  /\ connected' = TRUE
  /\ IF config # None /\ scenes = None /\ ~loading
     THEN /\ StartLoad(config.url)
          /\ failed' = FALSE
     ELSE UNCHANGED <<traffic, failed>>
  /\ UNCHANGED <<config, generation, scenes, found, selected, acting, states, stored>>

\* disconnectedCallback
Disconnect ==
  /\ connected
  /\ generation < MaxChanges
  /\ connected' = FALSE
  /\ loads' = Aborted
  /\ loading' = FALSE
  /\ generation' = generation + 1
  /\ busy' = FALSE
  /\ UNCHANGED <<config, catalogue, started, calls, made, shown, states, stored>>

\* Home Assistant hands the card its new state.
SetHass(st) ==
  /\ st # states
  /\ states' = st
  /\ stored' = KeptEffect(config, st)
  /\ UNCHANGED <<config, connected, generation, catalogue, traffic, acting>>

-----------------------------------------------------------------------------
(* Loads.                                                                  *)

LoadSucceeds(l, ids) ==
  /\ ~Dropped(l)
  /\ Valid(ids)
  /\ scenes' = [url |-> l.url, ids |-> ids]
  /\ selected' = Kept(scenes', found)
  /\ UNCHANGED failed

\* The server's error, or a catalogue without a valid scene.
LoadFails(l) ==
  /\ ~Dropped(l)
  /\ scenes' = None
  /\ selected' = None
  /\ failed' = TRUE

LoadDropped(l) ==
  /\ Dropped(l)
  /\ UNCHANGED <<scenes, selected, failed>>

EndLoad(l) ==
  /\ loads' = loads \ {l}
  /\ loading' = IF Owns(l) THEN FALSE ELSE loading
  /\ \/ \E ids \in SUBSET Scenes : LoadSucceeds(l, ids)
     \/ LoadFails(l)
     \/ LoadDropped(l)
  /\ UNCHANGED <<config, connected, generation, found, started, acting, states, stored>>

-----------------------------------------------------------------------------
(* The user, who can use what _update has not disabled.                    *)

Search(query) ==
  /\ connected
  /\ ~busy /\ ~loading
  /\ found' = query
  /\ selected' = Kept(scenes, query)
  /\ UNCHANGED <<config, connected, generation, scenes, failed, traffic, acting, states, stored>>

Select(s) ==
  /\ connected
  /\ ~busy /\ ~loading
  /\ s = None \/ (scenes # None /\ s \in scenes.ids \cap found)
  /\ selected' = s
  /\ shown' = None
  /\ UNCHANGED <<config, connected, generation, scenes, found, failed, traffic, busy, calls,
                 made, states, stored>>

Choose(e) ==
  /\ connected
  /\ ~busy
  /\ e \in Offered(config, states) \cup {None}
  /\ stored' = e
  /\ UNCHANGED <<config, connected, generation, catalogue, traffic, acting, states>>

\* "Reload catalogue"
Reload ==
  /\ connected
  /\ config # None
  /\ ~busy /\ ~loading
  /\ StartLoad(config.url)
  /\ failed' = FALSE
  /\ UNCHANGED <<config, connected, generation, scenes, found, selected, acting, states, stored>>

\* _run up to its await: a preview, an upload, or playing a stored effect. It may
\* find the transition or a missing service wrong and show that instead.
Run(play) ==
  /\ connected
  /\ ~busy
  /\ made < MaxCalls
  /\ Available
  /\ IF play THEN stored # None ELSE selected # None /\ ~loading
  /\ made' = made + 1
  /\ \/ /\ busy' = TRUE
        /\ calls' = calls \cup {[n |-> made + 1, generation |-> generation, config |-> config]}
        /\ shown' = None
     \/ /\ shown' = Report([n |-> made + 1, config |-> config])
        /\ UNCHANGED <<busy, calls>>
  /\ UNCHANGED <<config, connected, generation, catalogue, traffic, states, stored>>

\* callService returns or rejects.
EndCall(c) ==
  /\ calls' = calls \ {c}
  /\ IF Current(c)
     THEN /\ busy' = FALSE
          /\ shown' = Report(c)
     ELSE UNCHANGED <<busy, shown>>
  /\ UNCHANGED <<config, connected, generation, catalogue, traffic, made, states, stored>>

-----------------------------------------------------------------------------

Next ==
  \/ \E e \in Entities, u \in Urls : SetConfig([entity |-> e, url |-> u])
  \/ Connect \/ Disconnect
  \/ \E st \in [Entities -> {None} \cup SUBSET Effects] : SetHass(st)
  \/ \E l \in loads : EndLoad(l)
  \/ \E query \in SUBSET Scenes : Search(query)
  \/ \E s \in Scenes \cup {None} : Select(s)
  \/ \E e \in Effects \cup {None} : Choose(e)
  \/ Reload
  \/ \E play \in BOOLEAN : Run(play)
  \/ \E c \in calls : EndCall(c)

Spec == Init /\ [][Next]_vars

-----------------------------------------------------------------------------
(* Properties.                                                             *)

Numbers(bound) == 0..bound
Configs == [entity : Entities, url : Urls]
TypeOK ==
  /\ config \in Configs \cup {None}
  /\ scenes \in [url : Urls, ids : (SUBSET Scenes) \ {{}}] \cup {None}
  /\ found \subseteq Scenes
  /\ selected \in Scenes \cup {None}
  /\ loads \subseteq [n : Numbers(MaxLoads), url : Urls, aborted : BOOLEAN]
  /\ calls \subseteq [n : Numbers(MaxCalls), generation : Numbers(MaxChanges), config : Configs]
  /\ started \in Numbers(MaxLoads)
  /\ made \in Numbers(MaxCalls)
  /\ shown \in [n : Numbers(MaxCalls), config : Configs] \cup {None}
  /\ generation \in Numbers(MaxChanges)
  /\ \A b \in {connected, loading, failed, busy} : b \in BOOLEAN
  /\ states \in [Entities -> {None} \cup SUBSET Effects]
  /\ stored \in Effects \cup {None}

\* What the card offers to send is of its present configuration: the catalogue
\* comes from the configured address, however late another one arrives; the
\* selected scene is in it and in sight; and the light has the chosen effect.
OffersCurrent ==
  /\ scenes # None => scenes.url = config.url
  /\ selected # None => scenes # None /\ selected \in scenes.ids \cap found
  /\ stored # None => stored \in Offered(config, states)

\* The card says that it loads exactly while a load is under way that will fill it,
\* and once configured and in the page it is never left without a catalogue, a load
\* and an error, whatever is aborted, moved or configured anew.
LoadShown ==
  /\ loading <=> \E l \in loads : ~l.aborted
  /\ connected /\ config # None => scenes # None \/ loading \/ failed

\* The buttons are disabled exactly while a call of this generation is under way,
\* of which there is one at most: a call that outlives its configuration neither
\* enables nor blocks them.
BusyMeansCall ==
  /\ Cardinality({c \in calls : c.generation = generation}) = IF busy THEN 1 ELSE 0
  /\ \A c \in calls : c.generation <= generation

\* The result on show is that of the last call, and that call was made for the
\* light and the catalogue the card is configured for now, however many calls
\* outlive their configuration; there is none while the last call is under way.
ShownIsOwn ==
  /\ shown # None => shown.n = made /\ shown.config = config
  /\ busy => shown = None
=============================================================================
