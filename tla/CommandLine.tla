---------------------------- MODULE CommandLine ----------------------------
(***************************************************************************)
(* cli.py: one terminal runs one command after another on one legacy bulb. *)
(* A command reads the configuration and the catalogue, opens a session,   *)
(* makes its requests one by one, closes and exits; pairing and unpairing  *)
(* rewrite the configuration.  Meanwhile a request may fail, the user may  *)
(* interrupt the command, another client may change the bulb's scenes or   *)
(* reset it, and Home Assistant may write the catalogue.                   *)
(*                                                                         *)
(* What is left to do of a command is a sequence of steps, each with the   *)
(* slot it is about.  A session is the cipher state that a request meets:  *)
(* after a timeout it is "corrupted" and sends nothing (LegacySession);    *)
(* after the bulb's 0x01F1 it is "expired" and every request gets the same *)
(* answer.  Printing, --dry-run where it asks the bulb nothing, and the    *)
(* discovery of addresses have no state.  An open connection that a failed *)
(* authentication leaves behind ends with the command.                     *)
(***************************************************************************)
EXTENDS Catalogue

CONSTANTS
  Slots,      \* identifiers of scenes, 1-243 in the code
  MaxColors,  \* --max-colors, 7 by default
  Terminal,   \* the command line among Writers
  Tokens,     \* tokens there may be, from 1; 0 is none
  AppEffects, \* the effects that the bulb has, or is given by another client
  MaxJobs     \* bound: commands

ASSUME CommandLineAssumption ==
  /\ Slots \subseteq Nat \ {0} /\ IsFiniteSet(Slots)
  /\ MaxColors \in Nat \ {0}
  /\ Terminal \in Writers \ Homes
  /\ AppEffects \subseteq Effects
  /\ MaxJobs \in Nat
  /\ Tokens \in Nat /\ Tokens >= 2 + MaxJobs \* a command is given one token at most

VARIABLES
  conf,      \* the device file: "absent", "torn" or "good" with its token
  accepted,  \* the token the bulb accepts
  issued,    \* tokens issued so far
  scenes,    \* what each slot of the bulb holds; <<>> is nothing
  playing,   \* the slot the bulb plays, 0 for none
  session,
  job,       \* the command under way
  jobs

cliVars == <<conf, accepted, issued, scenes, playing, session, job, jobs>>
vars == <<catVars, cliVars>>
bulb == <<accepted, issued, scenes, playing>>

Do(op) == <<[op |-> op, slot |-> 0]>>
ForEach(op, S) == [k \in 1 .. Cardinality(S) |-> [op |-> op, slot |-> Nth(S, Ascending(S), k)]]
Steps(ops) == [i \in DOMAIN ops |-> [op |-> ops[i], slot |-> 0]]
Opening == Steps(<<"kex", "auth">>)

Nothing == [s \in Slots |-> <<>>]
NoJob == [cmd |-> "none", todo |-> <<>>, slot |-> 0, query |-> None, effect |-> None, db |-> <<>>,
          compact |-> FALSE, skip |-> FALSE, listed |-> {}, seen |-> Nothing, text |-> 0,
          passed |-> {},   \* the slots whose scene the bulb refused to show
          raced |-> FALSE] \* another client has changed the scenes since they were listed
Step == Head(job.todo)
Is(ops) == job.todo # <<>> /\ Step.op \in ops
Occupied == {s \in Slots : scenes[s] # <<>>}
Stored(e) == encode_palette_bytes(Palette[e], MaxColors, FALSE)

\* Bound: a behaviour is one of commands or one of downloads. A command reads
\* the catalogue once, as it begins, and finds whatever a download may have left.
Init ==
  /\ CatInit
  /\ jobs = IF downloads = 0 THEN MaxJobs ELSE 0
  /\ \/ /\ downloads = MaxDownloads
        /\ conf \in [state : {"absent", "torn"}, token : {0}] \cup [state : {"good"}, token : {0, 1}]
        /\ accepted \in 0 .. 2
        /\ scenes \in [Slots -> {<<>>} \cup {Stored(e) : e \in AppEffects}]
     \/ /\ downloads = 0
        /\ conf = [state |-> "absent", token |-> 0]
        /\ accepted = 0
        /\ scenes = Nothing
  /\ issued = 2
  /\ playing = 0
  /\ session = "none"
  /\ job = NoJob

-----------------------------------------------------------------------------
(* How a command goes on.                                                  *)

\* `finally: await session.close()`, and the command is over.
AtEnd_Open == session
AtEnd == "none"

GoOn(j, s) ==
  IF j.todo = <<>> THEN job' = NoJob /\ session' = AtEnd ELSE job' = j /\ session' = s

Ahead(s) == GoOn([job EXCEPT !.todo = Tail(@)], s)
Exit == GoOn(NoJob, session)

\* The steps whose RuntimeError the command takes.
Tolerated_Unpair == {"get", "clear", "thread", "probe", "unpair"}
Tolerated == {"get", "clear", "thread", "probe"}

\* The steps after one that raises a RuntimeError.
AfterFailure ==
  CASE Is(Tolerated) \/ (Is({"current"}) /\ job.cmd # "current") -> Tail(job.todo)
    [] Is({"kex_old", "auth_old", "revoke"}) -> SubSeq(job.todo, Len(job.todo) - 5, Len(job.todo))
    [] job.cmd = "observe" -> Opening \o Do("light")
    [] OTHER -> <<>>
Fail(s) == GoOn([job EXCEPT !.todo = AfterFailure], s)

\* resolve_device_scene_id: the scenes on the bulb that the query names.
Matched ==
  {s \in Slots :
     LET e == resolve(job.db, job.seen[s])
     IN job.seen[s] # <<>> /\ e # None /\ EffectName[e] \in Part[job.query]}

Ambiguous == job.query # None /\ Cardinality(Matched) # 1

\* Which slot a step is about, 0 when there is none.
Target ==
  CASE Step.slot # 0 -> Step.slot
    [] Step.slot = 0 /\ (Is({"play", "delete"}) \/ job.cmd = "replace") ->
         IF job.query = None THEN job.slot
         ELSE IF Ambiguous THEN 0 ELSE CHOOSE s \in Matched : TRUE
    [] Step.slot = 0 /\ Is({"add"}) /\ job.cmd = "add" ->
         IF job.slot # 0 THEN job.slot
         ELSE IF Slots \subseteq job.listed THEN 0
         ELSE Min(Slots \ job.listed)
    [] OTHER -> 0

\* build_simple_scene_tlv raises without a visible colour.
Payload == encode_palette_bytes(Palette[job.effect], MaxColors, job.compact)
Impossible == \/ Is({"play", "delete", "add"}) /\ Target = 0
              \/ Is({"add"}) /\ Payload = <<>>
              \/ Is({"delete"}) /\ job.cmd = "replace" /\ Payload = <<>>

\* add --skip-existing: the palette at hand is the one to be added.
Skips_Raw(p) == job.skip /\ p = Palette[job.effect]
Skips(p) ==
  LET there == normalize_scene_palette(p, MaxColors)
  IN job.skip /\ there # <<>> /\ there = normalize_scene_palette(Palette[job.effect], MaxColors)

Usable_Corrupted == session \in {"authed", "corrupted"}
Usable == session = "authed"
Handshake == {"kex", "auth", "kex_old", "auth_old", "pair", "revoke", "unpair", "probe"}
Local == {"truncate", "put", "unlink"}

-----------------------------------------------------------------------------
(* A command begins: what is read and refused before the session is open.  *)

Begin(j) ==
  /\ job = NoJob
  /\ Doing(Terminal, "idle")
  /\ jobs < MaxJobs
  /\ jobs' = jobs + 1
  /\ job' = j
  /\ UNCHANGED <<catVars, bulb, conf, session>>

Paired == conf.state = "good" /\ conf.token # 0
Command(cmd, ops) == [NoJob EXCEPT !.cmd = cmd, !.todo = Opening \o Steps(ops)]

Info == Paired /\ Begin(Command("info", <<"info", "light", "list", "current", "gets", "thread">>))
Fw == Paired /\ Begin(Command("fw", <<"info">>))
Observe == Paired /\ Begin(Command("observe", <<"light">>))
Set(s) == Paired /\ Begin([Command("set", <<"light", "list", "play", "identify">>) EXCEPT !.slot = s])
List == Paired /\ Begin(Command("list", <<"list", "current", "gets">>))
Current == Paired /\ Begin(Command("current", <<"current">>))
DeleteAll == Paired /\ Begin(Command("delete_all", <<"list", "clears">>))
Unpair(rm) ==
  Paired /\ Begin(Command("unpair", <<"unpair", "truncate", "put">> \o IF rm THEN <<"unlink">> ELSE <<>>))

\* The user gives a slot, or else a name.
Aimed(cmd, ops, s, q) ==
  [Command(cmd, <<"list">> \o (IF q = None THEN <<>> ELSE <<"gets">>) \o ops)
     EXCEPT !.slot = s, !.query = q, !.db = Known]
Targets == (Slots \X {None}) \cup ({0} \X Queries)
Play(s, q) == Paired /\ Begin(Aimed("play", <<"play">>, s, q))
Delete(s, q) == Paired /\ Begin(Aimed("delete", <<"delete">>, s, q))

\* What --preview, --add and --replace find in scenes.json.
Found(want) == IF file.state = "good" THEN find_scene_effect(file.effects, want) ELSE None
Usual(want) == Paired /\ Found(want) # None /\ Palette[Found(want)] # <<>>
Preview(want) ==
  /\ Usual(want)
  /\ Shown(Palette[Found(want)], MaxColors) # <<>>
  /\ Begin([Command("preview", <<"preview">>) EXCEPT !.effect = Found(want)])
Add(want, s, opt) ==
  /\ Usual(want)
  /\ opt = "dry" => s = 0
  /\ LET ops == CASE opt = "dry" -> <<>> [] opt = "skip" -> <<"gets", "add">> [] OTHER -> <<"add">>
     IN Begin([Aimed("add", ops, s, None) EXCEPT !.effect = Found(want),
                 !.skip = (opt = "skip"), !.compact = (opt = "compact")])
Replace(s, q, want, opt) ==
  /\ Usual(want)
  /\ Begin([Aimed("replace", IF opt = "dry" THEN <<>> ELSE <<"delete", "add">>, s, q)
             EXCEPT !.effect = Found(want), !.compact = (opt = "compact")])

\* A token at hand is revoked first; whatever fails there, pairing goes on.
Pair ==
  /\ conf.state = "good"
  /\ Begin([NoJob EXCEPT !.cmd = "pair",
             !.todo = Steps((IF conf.token # 0 THEN <<"kex_old", "auth_old", "revoke">> ELSE <<>>)
                              \o <<"kex", "pair", "truncate", "put", "truncate", "put">>)])
Find == Begin([NoJob EXCEPT !.cmd = "find", !.todo = Steps(<<"kex", "probe", "truncate", "put">>)])
\* persist_device cannot read a torn file of this bulb; a missing one is made.
Discover ==
  /\ conf.state # "torn"
  /\ Begin([NoJob EXCEPT !.cmd = "discover", !.todo = Steps(<<"truncate", "put">>)])

-----------------------------------------------------------------------------
(* The steps of a command.                                                 *)

\* LtpduSession.kex: a fresh cipher; what the command did before is closed.
Kex ==
  /\ Is({"kex", "kex_old"})
  /\ Ahead("open")
  /\ UNCHANGED <<catVars, bulb, conf, jobs>>

Auth ==
  /\ Is({"auth", "auth_old"})
  /\ IF conf.token = accepted /\ accepted # 0 THEN Ahead("authed") ELSE Fail("open")
  /\ UNCHANGED <<catVars, bulb, conf, jobs>>

\* What the bulb does with a request that reaches it; `add` goes where it is
\* told to, or to a slot that is free.
delete_scene ==
  /\ Is({"delete", "clear"})
  /\ scenes' = [scenes EXCEPT ![Target] = <<>>]
  /\ UNCHANGED <<accepted, issued, playing>>

add_scene ==
  /\ Is({"add"})
  /\ \E s \in {Target} \cup (Slots \ Occupied) : scenes' = [scenes EXCEPT ![s] = Payload]
  /\ UNCHANGED <<accepted, issued, playing>>

play_scene ==
  /\ Is({"play"})
  /\ playing' = Target
  /\ UNCHANGED <<accepted, issued, scenes>>

delete_token ==
  /\ Is({"revoke", "unpair"})
  /\ accepted' = 0
  /\ UNCHANGED <<issued, scenes, playing>>

pair ==
  /\ Is({"pair"})
  /\ issued' = issued + 1
  /\ accepted' = issued'
  /\ UNCHANGED <<scenes, playing>>

list_scenes == Is({"list", "current"}) /\ UNCHANGED bulb
get_scene == Is({"get"}) /\ UNCHANGED bulb
query == Is({"info", "light", "thread", "identify", "preview", "probe"}) /\ UNCHANGED bulb

Execute == \/ delete_scene \/ add_scene \/ play_scene \/ delete_token \/ pair
           \/ list_scenes \/ get_scene \/ query

\* Scenes that are not there, and pairing with a bulb that has a token.
Refuses == \/ Is({"get", "delete", "clear", "play"}) /\ scenes[Target] = <<>>
           \/ Is({"pair"}) /\ accepted # 0
           \/ Is({"revoke", "unpair"}) /\ session # "authed"

Reaches == \/ Is(Handshake \ {"kex", "kex_old", "auth", "auth_old"})
           \/ job.todo # <<>> /\ ~ Is(Handshake \cup Local) /\ Usable /\ ~ Impossible

\* The handles are there; each is asked for, or deleted, in its turn.
Listed(handles) ==
  LET Each(step) == CASE step.op = "gets" -> ForEach("get", handles)
                      [] step.op = "clears" -> ForEach("clear", handles)
                      [] OTHER -> <<step>>
      rest == Tail(job.todo)
  IN IF job.cmd \in {"set", "play", "delete", "replace"} /\ job.query = None /\ job.slot \notin handles
       THEN Exit
       ELSE GoOn([job EXCEPT !.listed = handles, !.raced = FALSE,
                             !.todo = FlattenSeq([i \in DOMAIN rest |-> Each(rest[i])])], session)

\* A scene is read: its palette is kept, or ends an add that skips.
Got ==
  LET p == parse_scene_palette(scenes[Step.slot])
  IN IF job.cmd = "add" /\ Skips(p) THEN Exit
     ELSE GoOn([job EXCEPT !.seen[Step.slot] = IF job.query = None THEN @ ELSE p,
                           !.todo = Tail(@)], session)

\* The bulb carries a request out and the answer arrives. The list of scenes may
\* have handles of scenes that are deleted.
Answered ==
  /\ Reaches /\ ~ Refuses
  /\ Execute
  /\ CASE Is({"list"}) -> \E old \in SUBSET (Slots \ Occupied) : Listed(Occupied \cup old)
       [] Is({"get"}) -> Got
       [] Is({"current"}) /\ job.cmd = "current" /\ playing # 0 ->
            GoOn([job EXCEPT !.todo = ForEach("get", {playing})], session)
       [] Is({"light"}) /\ job.cmd = "observe" -> UNCHANGED <<job, session>>
       [] Is({"pair"}) -> GoOn([job EXCEPT !.text = issued', !.todo = Tail(@)], session)
       [] OTHER -> Ahead(session)
  /\ UNCHANGED <<catVars, conf, jobs>>

\* An error status, which leaves the cipher in step, and which the bulb may give
\* to any request. A scene that it refuses to show is passed over.
PassOver(j) == IF Is({"get"}) THEN [j EXCEPT !.passed = @ \cup {Step.slot}] ELSE j
Refused ==
  /\ Reaches
  /\ IF Refuses THEN UNCHANGED upsets ELSE Upset
  /\ GoOn(PassOver([job EXCEPT !.todo = AfterFailure]), session)
  /\ UNCHANGED <<file, dl, names, downloads, bulb, conf, jobs>>

\* A timeout: the request or its answer is lost.
Lost ==
  /\ Reaches \/ Is({"kex", "auth", "kex_old", "auth_old"})
  /\ Upset
  /\ UNCHANGED bulb \/ (Reaches /\ ~ Refuses /\ Execute)
  /\ Fail(IF Is({"kex", "kex_old"}) THEN "none" ELSE "corrupted")
  /\ UNCHANGED <<file, dl, names, downloads, conf, jobs>>

\* The bulb no longer knows the session; `observe` authenticates anew, at once.
Expired ==
  /\ Reaches /\ ~ Is(Handshake)
  /\ Upset
  /\ IF job.cmd = "observe" /\ Is({"light"}) /\ conf.token = accepted
       THEN UNCHANGED <<job, session>>
       ELSE Fail("expired")
  /\ UNCHANGED <<file, dl, names, downloads, bulb, conf, jobs>>

\* A session that is corrupted or expired fails at once.
Dead ==
  /\ session \in {"corrupted", "expired"}
  /\ job.todo # <<>> /\ ~ Is(Handshake \cup Local)
  /\ ~ Impossible
  /\ ~ Usable
  /\ Fail(session)
  /\ UNCHANGED <<catVars, bulb, conf, jobs>>

\* No such scene, several of the name, no free slot or no visible colour.
GiveUp ==
  /\ job.todo # <<>>
  /\ Impossible
  /\ Exit
  /\ UNCHANGED <<catVars, bulb, conf, jobs>>

\* The configuration is read, and opened for writing.
Truncate ==
  /\ Is({"truncate"})
  /\ conf' = [state |-> "torn", token |-> 0]
  /\ GoOn([job EXCEPT !.todo = Tail(@),
             !.text = CASE job.cmd = "pair" /\ Len(job.todo) = 4 -> job.text
                        [] job.cmd \in {"find", "unpair"} -> 0
                        [] OTHER -> conf.token], session)
  /\ UNCHANGED <<catVars, bulb, jobs>>

Put ==
  /\ Is({"put"})
  /\ conf' = [state |-> "good", token |-> job.text]
  /\ Ahead(session)
  /\ UNCHANGED <<catVars, bulb, jobs>>

Unlink ==
  /\ Is({"unlink"})
  /\ conf' = [state |-> "absent", token |-> 0]
  /\ Ahead(session)
  /\ UNCHANGED <<catVars, bulb, jobs>>

\* Ctrl-C; what is written is written.
Interrupt ==
  /\ job # NoJob
  /\ Upset
  /\ Exit
  /\ UNCHANGED <<file, dl, names, downloads, bulb, conf, jobs>>

-----------------------------------------------------------------------------
(* Others.                                                                 *)

Races == job' = IF job = NoJob THEN job ELSE [job EXCEPT !.raced = TRUE]

AppSaves(s, e) ==
  /\ Upset
  /\ scenes' = [scenes EXCEPT ![s] = Stored(e)]
  /\ Races
  /\ UNCHANGED <<file, dl, names, downloads, accepted, issued, playing, conf, session, jobs>>

AppDeletes(s) ==
  /\ s \in Occupied
  /\ Upset
  /\ scenes' = [scenes EXCEPT ![s] = <<>>]
  /\ Races
  /\ UNCHANGED <<file, dl, names, downloads, accepted, issued, playing, conf, session, jobs>>

\* A factory reset; the sessions die with the token.
Reset ==
  /\ Upset
  /\ accepted' = 0
  /\ session' = IF session = "authed" THEN "expired" ELSE session
  /\ UNCHANGED <<file, dl, names, downloads, issued, scenes, playing, conf, job, jobs>>

\* A download; the terminal does one thing at a time.
OtherWriters ==
  /\ CatNext
  /\ job # NoJob => dl'[Terminal] = dl[Terminal]
  /\ UNCHANGED cliVars

Commands ==
  \/ Info \/ Fw \/ Observe \/ List \/ Current \/ DeleteAll \/ Pair \/ Find \/ Discover
  \/ \E rm \in BOOLEAN : Unpair(rm)
  \/ \E s \in Slots : Set(s)
  \/ \E t \in Targets : Play(t[1], t[2]) \/ Delete(t[1], t[2])
  \/ \E want \in Queries \cup Effects :
       \/ Preview(want)
       \/ \E s \in Slots \cup {0}, opt \in {"plain", "skip", "compact", "dry"} : Add(want, s, opt)
       \/ \E t \in Targets, opt \in {"plain", "compact", "dry"} : Replace(t[1], t[2], want, opt)

Progress ==
  \/ Kex \/ Auth \/ Answered \/ Refused \/ Lost \/ Expired \/ Dead \/ GiveUp
  \/ Truncate \/ Put \/ Unlink \/ Interrupt

App ==
  \/ \E s \in Slots, e \in AppEffects : AppSaves(s, e)
  \/ \E s \in Slots : AppDeletes(s)
  \/ Reset

Next == Commands \/ Progress \/ App \/ OtherWriters

Spec == Init /\ [][Next]_vars

-----------------------------------------------------------------------------
(* Properties.                                                             *)

TypeOK ==
  /\ CatTypeOK
  /\ conf.state \in {"absent", "torn", "good"}
  /\ conf.token \in 0 .. Tokens /\ accepted \in 0 .. Tokens /\ issued \in 0 .. Tokens
  /\ DOMAIN scenes = Slots
  /\ playing \in Slots \cup {0}
  /\ session \in {"none", "open", "authed", "corrupted", "expired"}
  /\ job = NoJob => session = "none"
  /\ jobs \in 0 .. MaxJobs

\* The step of the command at hand takes effect on the bulb.
Effective == job.todo # <<>> /\ ~ Races /\ <<scenes, playing>>' # <<scenes, playing>>

\* The scenes on the bulb that have the name a command was given.
Named == {s \in Occupied : LET e == resolve(job.db, parse_scene_palette(scenes[s]))
                           IN e # None /\ EffectName[e] \in Part[job.query]}
TakesNamed == Effective /\ Is({"play", "delete"}) /\ job.query # None /\ ~ job.raced

\* resolve_device_scene_id: a scene played, deleted or replaced by its name is
\* the only one on the bulb of that name, but for scenes that the bulb refused
\* to show. Whatever else keeps a scene from being read also stops the command.
ActsOnUnique == [][TakesNamed => Named \ job.passed = {Target}]_vars

\* add --skip-existing, of a palette that a second conversion leaves alone: it
\* compares the palette converted once with the bulb's converted twice.
SkipsTwins ==
  LET p == normalize_scene_palette(Palette[job.effect], MaxColors)
  IN Effective /\ Is({"add"}) /\ job.skip /\ ~ job.raced /\ normalize_scene_palette(p, MaxColors) = p
Duplicates == {s \in Occupied : parse_scene_palette(scenes[s]) = parse_scene_palette(Payload)}

\* Such an add saves no palette a second time, unless the first is in a scene
\* that the bulb refused to show.
SkipNeverDuplicates == [][SkipsTwins => Duplicates \subseteq job.passed]_vars

\* A scene added from the catalogue, of which the bulb may keep only the first
\* colours, is recognised when it is read back, as a scene of that catalogue
\* that shows the same: if the first conversion changes none of its colours and
\* none is shown as black.
AddedIsNamed ==
  [][LET x == Palette[job.effect]
         p == parse_scene_palette(Payload)
         e == resolve(job.db, p)
     IN Effective /\ Is({"add"}) /\ ~ job.compact /\ EffectName[job.effect] # NoName
          /\ (\A i \in DOMAIN x : ToHsb(x[i]).bri > 0)
          /\ IsPrefix(normalize_scene_palette(x, MaxColors), x)
     => e # None /\ SameColors(normalize_scene_palette(Palette[e], MaxColors), p)]_vars

\* The configuration file loses a token the bulb accepts to no command but
\* `find --save`, which writes it anew: whatever fails, `unpair` and `pair`
\* drop the token only when the bulb has.
TokenKept ==
  [][Truncate /\ job.cmd # "find" /\ conf.token = accepted /\ accepted # 0
     => job'.text = conf.token]_vars
=============================================================================
