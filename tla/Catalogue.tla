----------------------------- MODULE Catalogue -----------------------------
(***************************************************************************)
(* scenes.json, the catalogue of scene names, and its download from the    *)
(* Nanoleaf cloud: NanoleafCloudApi of nl_api.py.  Four lists are fetched  *)
(* page by page; after every page the file is written anew with all that   *)
(* has arrived, and at the end once more without duplicates and sorted by  *)
(* name.  Writing is not atomic: opening the file empties it.  A writer is *)
(* the "Refresh Scene Database" button of a bulb (a thread of Home         *)
(* Assistant, which reloads the names afterwards) or the command line.     *)
(* The cloud does not change while it is asked.                            *)
(***************************************************************************)
EXTENDS Palettes

CONSTANTS
  Writers,
  Homes,         \* the writers that are coordinators of Home Assistant
  Pages,         \* featured and community by "top", then both by "recent": the pages of each
  Folded,        \* [Names -> Nat], the place of the casefolded name in order
  Stripped,      \* [Names -> names without blanks around them and without case]
  Kept,          \* catalogues an earlier download may have left
  MaxDownloads,  \* bound: downloads
  MaxUpsets      \* bound: failures, interruptions, and what others do

ASSUME CatalogueAssumption ==
  /\ Homes \subseteq Writers
  /\ Pages \in Seq(Seq(Seq(Effects) \ {<<>>})) /\ Len(Pages) = 4
  /\ Folded \in [Names -> Nat]
  /\ DOMAIN Stripped = Names
  /\ Kept \subseteq Seq(Effects)
  /\ MaxDownloads \in Nat /\ MaxUpsets \in Nat

VARIABLES
  file,      \* scenes.json: "absent", "torn" or "good" with its effects
  dl,        \* what each writer is doing
  names,     \* _scene_lookup of each coordinator: None or the effects it knows
  downloads, \* downloads begun
  upsets

catVars == <<file, dl, names, downloads, upsets>>

max_retries == 3
Online == UNION {ToSet(page) : page \in UNION {ToSet(Pages[l]) : l \in DOMAIN Pages}}
Resting == [at |-> "idle", list |-> 1, page |-> 1, attempt |-> 1, effects |-> <<>>, raced |-> FALSE]
Doing(w, at) == dl[w].at = at
LastPage(w) == dl[w].page > Len(Pages[dl[w].list])

CatInit ==
  /\ file \in [state : {"absent", "torn"}, effects : {<<>>}] \cup [state : {"good"}, effects : Kept]
  /\ dl = [w \in Writers |-> Resting]
  /\ names = [c \in Homes |-> None]
  /\ downloads \in {0, MaxDownloads}
  /\ upsets = 0

Upset == upsets < MaxUpsets /\ upsets' = upsets + 1

-----------------------------------------------------------------------------
(* What the download makes of what it gets.                                *)

\* The items of a page that are new and have a palette.
Fresh(items, effects) ==
  Chosen(items, {i \in DOMAIN items : /\ Palette[items[i]] # <<>>
                                      /\ items[i] \notin ToSet(effects)
                                      /\ \A j \in 1 .. i - 1 : items[j] # items[i]})

SameScene_Unstripped(d, e) == EffectName[d] = EffectName[e] /\ Palette[d] = Palette[e]
SameScene(d, e) == Stripped[EffectName[d]] = Stripped[EffectName[e]] /\ Palette[d] = Palette[e]

\* _dedup_effects: the first of each name and palette stays.
Deduped(effects) ==
  Chosen(effects, {i \in DOMAIN effects : \A j \in 1 .. i - 1 : ~ SameScene(effects[j], effects[i])})

\* list.sort is stable.
ByName(effects) ==
  LET Rank(i) == Folded[EffectName[effects[i]]]
  IN {p \in (DOMAIN effects) \X (DOMAIN effects) :
        Rank(p[1]) < Rank(p[2]) \/ (Rank(p[1]) = Rank(p[2]) /\ p[1] < p[2])}
Sorted(effects) == [k \in DOMAIN effects |-> effects[Nth(DOMAIN effects, ByName(effects), k)]]

\* After the last page of a list: the next one, or the final write.
NextList(d) ==
  IF d.list < Len(Pages)
    THEN [d EXCEPT !.at = "fetch", !.list = @ + 1, !.page = 1]
    ELSE [d EXCEPT !.at = "open", !.list = @ + 1, !.page = 1, !.effects = Sorted(Deduped(@))]

-----------------------------------------------------------------------------
(* A download.                                                             *)

Download(w) ==
  /\ Doing(w, "idle")
  /\ downloads < MaxDownloads
  /\ downloads' = downloads + 1
  /\ LET busy == {v \in Writers : ~ Doing(v, "idle")}
     IN dl' = [v \in Writers |->
                 IF v = w THEN [Resting EXCEPT !.at = "fetch", !.raced = busy # {}]
                 ELSE [dl[v] EXCEPT !.raced = @ \/ v \in busy]]
  /\ UNCHANGED <<file, names, upsets>>

\* A page, the empty one behind the last included.
Page(w) ==
  /\ Doing(w, "fetch")
  /\ LET items == IF LastPage(w) THEN <<>> ELSE Pages[dl[w].list][dl[w].page]
     IN dl' = [dl EXCEPT ![w].at = "open", ![w].attempt = 1,
                         ![w].effects = @ \o Fresh(items, @)]
  /\ UNCHANGED <<file, names, downloads, upsets>>

\* 403 takes the place of the empty page; nothing is written.
NoMorePages(w) ==
  /\ Doing(w, "fetch")
  /\ LastPage(w)
  /\ dl' = [dl EXCEPT ![w] = NextList([@ EXCEPT !.attempt = 1])]
  /\ UNCHANGED <<file, names, downloads, upsets>>

\* The network or the server fails; the third time, or by a client error, for good.
PageFails(w) ==
  /\ Doing(w, "fetch")
  /\ Upset
  /\ \/ /\ dl[w].attempt < max_retries
        /\ dl' = [dl EXCEPT ![w].attempt = @ + 1]
     \/ dl' = [dl EXCEPT ![w] = Resting]
  /\ UNCHANGED <<file, names, downloads>>

Open(w) ==
  /\ Doing(w, "open")
  /\ file' = [state |-> "torn", effects |-> <<>>]
  /\ dl' = [dl EXCEPT ![w].at = "write"]
  /\ UNCHANGED <<names, downloads, upsets>>

\* The content; with two writers at work, a longer one may stick out behind it.
Write(w) ==
  /\ Doing(w, "write")
  /\ \/ file' = [state |-> "good", effects |-> dl[w].effects]
     \/ dl[w].raced /\ file' = [state |-> "torn", effects |-> <<>>]
  /\ dl' = [dl EXCEPT ![w] = CASE @.list > Len(Pages) -> [@ EXCEPT !.at = "written"]
                               [] @.list <= Len(Pages) /\ LastPage(w) -> NextList(@)
                               [] OTHER -> [@ EXCEPT !.at = "fetch", !.page = dl[w].page + 1]]
  /\ UNCHANGED <<names, downloads, upsets>>

\* SceneLookup.from_path: what cannot be read has no names.
Known == IF file.state = "good" THEN file.effects ELSE <<>>

\* The button loads the names anew.
Written(w) ==
  /\ Doing(w, "written")
  /\ dl' = [dl EXCEPT ![w] = Resting]
  /\ names' = [c \in Homes |-> IF c = w THEN Known ELSE names[c]]
  /\ UNCHANGED <<file, downloads, upsets>>

\* The first poll loads the names.
PollLoads(c) ==
  /\ names[c] = None
  /\ names' = [names EXCEPT ![c] = Known]
  /\ UNCHANGED <<file, dl, downloads, upsets>>

\* The process ends, wherever it is: Home Assistant with all its downloads and
\* names, or the command line.
Stop(w) ==
  /\ Upset
  /\ ~ Doing(w, "idle")
  /\ dl' = [v \in Writers |-> IF v = w \/ {v, w} \subseteq Homes THEN Resting ELSE dl[v]]
  /\ names' = IF w \in Homes THEN [c \in Homes |-> None] ELSE names
  /\ UNCHANGED <<file, downloads>>

CatNext ==
  \/ \E w \in Writers : Download(w) \/ Page(w) \/ NoMorePages(w) \/ PageFails(w)
                          \/ Open(w) \/ Write(w) \/ Written(w) \/ Stop(w)
  \/ \E c \in Homes : PollLoads(c)

-----------------------------------------------------------------------------

CatTypeOK ==
  /\ file.state \in {"absent", "torn", "good"}
  /\ ToSet(file.effects) \subseteq Effects
  /\ \A w \in Writers : /\ dl[w].at \in {"idle", "fetch", "open", "write", "written"}
                        /\ dl[w].list \in 1 .. 5
                        /\ dl[w].attempt \in 1 .. max_retries
                        /\ ToSet(dl[w].effects) \subseteq Online
  /\ downloads \in 0 .. MaxDownloads
  /\ upsets \in 0 .. MaxUpsets

Twins(d, e) == Stripped[EffectName[d]] = Stripped[EffectName[e]] /\ Palette[d] = Palette[e]
Complete(effects) ==
  /\ ToSet(effects) \subseteq Online
  /\ \A e \in Online : Palette[e] # <<>> => \E d \in ToSet(effects) : Twins(d, e)
  /\ \A i, j \in DOMAIN effects :
       i < j => /\ ~ Twins(effects[i], effects[j])
                /\ Folded[EffectName[effects[i]]] <= Folded[EffectName[effects[j]]]

\* A download that no other one overlaps leaves every scene of the cloud in the
\* file, once for each name and palette and in the order of the names, whatever
\* pages were repeated, fetched again or refused; a coordinator knows them all.
DownloadComplete ==
  [][\A w \in Writers : Written(w) /\ ~ dl[w].raced
       => /\ file.state = "good"
          /\ Complete(file.effects)
          /\ w \in Homes => names'[w] = file.effects]_catVars
=============================================================================
