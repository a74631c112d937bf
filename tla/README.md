# A verification of nanoleaf_lights

TLA+ models of the Home Assistant integration for Nanoleaf bulbs
(`custom_components/nanoleaf_lights`), checked with TLC on small instances, and
theorems about them proved with TLAPS. Paths below are relative to
`custom_components/nanoleaf_lights/` unless they begin with another directory.

## The system

The integration talks to bulbs over two secure protocols, and keeps one
coordinator per bulb that polls it and carries out service calls. Everything runs
as coroutines of one asyncio event loop: code between two awaits is atomic, and at
each await any other coroutine may run, the coroutine may be cancelled, or its
timeout may fire.

| component | state it keeps | operations | what makes it hard | what makes it correct |
|---|---|---|---|---|
| LTPDUv3 session, `nl_ltpdu_v3.py` | socket, SRP-keyed cipher with one counter for both directions, lock, `_broken`, `_closed`, pending futures by message id, token | connect, pair, auth, reauth, `_request`, unpair, close | UDP loss, duplication and reordering; retransmission; 16-bit ids that return; cancellation at any await | no nonce twice, no request twice, answers to their own calls, silence after close |
| Legacy session, `nl_ltpdu.py` | CoAP context, AES-CTR cipher, lock, `_cipher_corrupted`, token | connect, pair, auth, reauth (key exchange outside the lock), send, get, observe, delete_token, close | CTR has no integrity check; overlapping reauths; cancellation between swap and authentication | replies deciphered in step, expiry means not executed, contexts neither leaked nor closed in use |
| Session factory, `session.py` | none | `connect_session`: v3 probe, then legacy | which failure selects which protocol; closing what failed | exactly one open session on return, none on an error |
| Coordinator, `coordinator.py` | `_session`, authentication failures, `data`, `_settings_lock`, `_scene_lock`, scene lookup | poll, service call, settings actions, reauth, shutdown | `_session` is read again after every await by tasks that open, reauthenticate and close it | polls recover, settings are exclusive, calls return |
| Scene upload, `coordinator.py` | `_scene_lock`, `data["scene_handles"]` | list, allocate, add, read back, list, publish, play | the app changes the bulb meanwhile; answers are lost after a write; readers without the lock publish lists | never replaces, keeps the capacity, plays what was verified, a refusal wrote nothing |
| Config entries and flows, `__init__.py`, `config_flow.py` | the entry's token, address and port | setup, unload, remove, pair, reauth, reconfigure, rediscovery | pairing takes the bulb's only token; flows run beside a loaded entry | a usable token is never lost by a flow that fails |
| Scene card, `frontend/nanoleaf-scene-card.js` | selection, catalogue, busy flags, generation counters | configuration, loads, preview, upload, play | answers that arrive after the selection has changed | what is shown and sent belongs to the present selection |
| Scene catalogue, `nl_ltpdu.py` | effects by palette | match a palette, encode and decode it, find an effect | rounding both ways, black and surplus colours, palettes that are equal, reordered or longer | a stored scene is given a name whose scene shows the same |
| Catalogue download, `nl_api.py`, `button.py` | `scenes.json`, the names each coordinator has loaded | fetch four lists page by page, write after each page, remove duplicates, sort | repeated and refused pages, retries, failures and crashes between pages, a file that is not written atomically, two writers | a download that ends has every scene once |
| Circadian and clock settings, `coordinator.py`, `nl_ltpdu_v3.py` | none | conversions between user and wire values | rounding on writing, flooring on reading, ranges of the models | a schedule read and saved again stays as it is and is accepted |
| Command line, repository `cli.py` | the device file with its token | info, light, scenes, add, replace, delete, preview, observe, pair, unpair, find | one step of several failing, Ctrl-C between two steps, the app meanwhile, names resolved from scenes that may be unreadable | acts on the one scene that was meant, keeps the token the bulb accepts |
| Services, entities, discovery | none of their own | validation and forwarding | little | not modelled |

How they interact: the coordinator gets its session from the factory and passes
it to every action; a session raises `SessionExpiredError` when the request may be
repeated after `reauth()`, and any other exception when the session must be
closed. Uploads are sequences of service calls under `_scene_lock`; polls, reloads
and uploads all publish whole dictionaries with `async_set_updated_data`. The flows
open sessions of their own beside the coordinator's.

The hazards of this code, each at its line and with the properties aimed at it, are
listed in `PROJECT.json`.

## The modules

| module | models | run |
|---|---|---|
| `SecureChannel` | what a session promises its caller, without protocol | refined in `v3_session` |
| `V3Session` | `SecureCipher`, `_Datagrams`, `LtpduV3Session`; the bulb as `tests/test_protocol_sessions.py` plays it | `v3_session` |
| `V3Session_proofs` | theorems about `V3Session` | |
| `LegacySession` | `LtpduSession` after `connect()` and `auth()` | `legacy_session`, `legacy_reauth_cancelled` |
| `LegacySession_proofs` | theorems about `LegacySession` | |
| `Coordinator` | the sharing of `_session`: polls, service calls, unloading | `coordinator`, `coordinator_one_session`, `coordinator_light_state`, `coordinator_static_data` |
| `Coordinator_proofs` | theorems about `Coordinator` | |
| `SceneUpload` | `async_scene_action` with both upload paths, the app, the readers without the lock | `scene_upload`, `upload_stale_list` |
| `SceneUpload_proofs` | theorems about `SceneUpload` | |
| `Onboarding` | `connect_session`, the config flows and `async_remove_entry`, with one bulb and its tokens | `onboarding` |
| `Onboarding_proofs` | theorems about `Onboarding` | |
| `SceneCard` | `NanoleafSceneCard` of `frontend/nanoleaf-scene-card.js` | `scene_card` |
| `SceneCard_proofs` | theorems about `SceneCard` | |
| `Palettes` | the colour conversions, the legacy palette encoding, `SceneLookup`, `find_scene_effect` | in `command_line` |
| `Catalogue` | `NanoleafCloudApi.build_scenes`, the file it writes, the names loaded from it | in `command_line` |
| `CommandLine` | the commands of `cli.py` on one legacy bulb, composed with `Catalogue` | `command_line` |
| `CommandLine_proofs` | theorems about `CommandLine` and `Catalogue` | |
| `Circadian` | the white points of `_encode_circadian` and `_parse_circadian` | |
| `Circadian_proofs` | theorems about `Circadian` | |

The `MC_` modules instantiate them for TLC. The layers meet through their
promises: `V3Session` and `LegacySession` establish what a session's exceptions mean
(`ExpiredMeansUnsent`, `ExpiredMeansUnexecuted`, `AtMostOnce`); `Coordinator` takes
from them only that an exchange ends with an answer, an expiry or an error; and
`SceneUpload` takes a service call as one step, because a repeated step is one the
bulb has not seen. `CommandLine` extends `Catalogue`, which extends `Palettes`: a
command finds in the file what a download has left there, and takes from
`LegacySession` that a session which has timed out sends nothing more.

### V3Session

One action per stretch of code between awaits. A coroutine is a record: its
operation, where it waits (`lock`, `challenge`, `verdict`, `answer`), its message
id, and how often it has transmitted. `Begin` is the call up to `async with
self._lock`; `StartHandshake` and `StartRequest` are `_handshake` and `_encrypted` up
to their first await; `Retransmit`, `Timeout` and `Cancel` are the ways out of
`wait_for`; `Deliver` is `datagram_received`; `ReceiveChallenge`, `ReceiveVerdict`,
`ReceiveAnswer` and `ReceiveUnpair` are the code after the awaits. `future` keeps the
reply between the moment the future resolves and the moment the coroutine runs, so
that a close, a cancellation or a timeout can come in between.

Keys are numbers of handshakes; a ciphertext is the triple of key, counter and
request; it deciphers only under that key at that counter, which is what the CCM
tag and the CTR checksum give. `sent` and `replies` only grow: a datagram never
picked is lost, one picked twice is a duplicate, one picked late is reordered.
The bulb answers a repeated datagram with the same reply (`seen`), may answer
anything with an error status, and may restart. `error_received` fails the pending
futures; for its coroutine that is an error reply, so `DeviceRefuse` covers it.
`CounterLimit` stands for 2^32 or 2^40.

`SecureChannel` is refined by mapping its phase, current request, asked and answered
requests to the session's variables (`Channel`, `ChannelSpec`).

### LegacySession

A key exchange, its CoAP context and its cipher share a number. `position` is the
keystream position of each cipher object, counted in messages; `device` is the
bulb's position and authentication under each key. `TimeoutAnswer` sets
`_cipher_corrupted`; a cancelled request does not, as in the code, and the next
request then meets a bulb out of step, which answers 0x01F1. `BeginReauth`,
`ReceiveKex` and `AbandonKex` are `kex` outside the lock, with its busy retry and its
`finally`; `Swap`, `ReceiveAuth`, `FailAuth`, `DiscardNew` and `RetireOld` are `reauth`;
`CancelReauth` is a cancellation at any of its awaits. `send_ltpdu` and `get_ltpdu` are
the same but for the CoAP method and are one set of actions.

### Coordinator

An open session is a number, a closed one is `Closed`, and each task holds the
session its exchange runs on, which may no longer be the current one. How an
exchange ends is left open until the environment is `calm`. The actions follow
`async_service_call` (`Begin`, `ServiceOpen`, `ServiceAct`, `Reauth`, `SafeClose`,
`CloseEnds`), `_settings_call` (the queue `settings`, `Acquire`, `ServiceRead`), and
`_async_update_data` await by await (`PollOpen`, `PollInfo`, `PollThread`, `PollScenes`,
`PollLight`, `PollScene`, `PollRethread`, `PollAcquire`, `PollRead`), including every
`assert self._session is not None`.

`Cancel` ends a service call at any await. If the call is in an exchange then, the session it is
talking on may be broken (`except BaseException`, `nl_ltpdu_v3.py:1380`; a handshake at 1356) or, on
a legacy bulb, its cipher out of step: for every other task that shares it, it is `stale` from then
on. It stays in use when the exchange was still waiting for the session's lock.

Left out: the `connected` flag, the timestamps of the optional reads (a read is due
or it is not), the name lookup of the first poll, the device-info query inside a
settings refresh, and a legacy reauth that revives a session closed meanwhile.

### SceneUpload

The bulb is a function from identifiers to names. An upload goes through
`motions` (native only), `list`, `check` (native: one call per stored name), `add`,
`readback`, `relist`, `play`; at each step it may fail or be cancelled. `Write` lets
the bulb store something else than was sent and lets the answer get lost. The
native bulb saves under the identifier asked for, whatever is there; the legacy
bulb picks a free one. `BeginReload`, `BeginStatic` and `Publish` are
`async_reload_scenes` and `_refresh_static_data`, which take no lock. `raced` marks
the uploads during which the app has added a scene: no lock of the code reaches the
app, and the properties except exactly those. A write is taken to reach the bulb
before the call ends: on v3 a later request follows a new handshake, which
invalidates the old key (`V3Session`).

### Onboarding

A task is a flow or a removal: which one, where it is, the protocol it is trying and
the token it carries. `Connected`, `NotConnected`, `Pair`, `Authenticate`,
`CredentialFails` and `FailedClosed` are `connect_session` await by await, `TryNext` its
loop; `Submit` is the code from a form to the first await, `Query`, `Unpair` and `Leave`
what a caller does with the session and after its close, `Cancel` a cancellation at
any await. A failed flow shows its form again; a failed removal still removes the
entry. `Pair` has the token given even when its answer is lost.

Left out: addresses (there is one bulb; rediscovery that only updates an address
changes no token), names, and which message a form shows. Taken for granted: a
bulb keeps the tokens it has given until it is reset, is not reset in the moment
between a successful exchange and the end of its flow, and Home Assistant removes no
entry that a flow is on.

`RejectedMeansInvalid` is about bulbs that speak one protocol, because it does not
hold of those that speak both: LTPDUv3 rejects a legacy token without asking the bulb
(`nl_ltpdu_v3.py:1411`), so that when the legacy exchange fails for some other reason in
the same attempt, `connect_session` reports a rejection (`session.py:78`) of a token
that is good. After three such attempts the coordinator asks the user to pair again.
`OneEntry` excepts entries made while the unique id could not be read
(`config_flow.py:182`): nothing recognises them later.

### SceneCard

Code between two awaits of the card is one action: the setters and callbacks
(`SetConfig`, `SetHass`, `Connect`, `Disconnect`), the listeners (`Search`, `Select`,
`Choose`, `Reload`), `_loadScenes` up to its fetch (`StartLoad`) and after it
(`LoadSucceeds`, `LoadFails`, `LoadDropped`), and `_run` (`Run`, `EndCall`). A fetch that
has been aborted may still end with an answer, as one does whose body was being
parsed. A load has the number of its `AbortController`, a call the generation it was made
in. Besides what the page shows, the state keeps where it came from: the address of
the catalogue, and for the message (`shown`) its call and the configuration the call was made under.

### Palettes

A colour of the bulb is a record of hue (0-360), saturation and brightness (0-100), one
of the catalogue a triple of bytes. `ToHsb` and `FromHsb` are the arithmetic of `decode_palette_hex` and
`palette_to_hex`, with the rounding of Python's `round` and the truncation of its `int`; they are
not inverse to each other, and that is what `add --skip-existing` and the lookup of names
have to live with. The code computes them in floating point. In 925 of the 3.7 million HSB
colours and in about 0.7 % of the RGB colours an exact tie or an exact whole number falls on
the neighbouring value there; the colours of the instance are not among them.
`encode_palette_bytes` drops the black colours, keeps the first ones and, if asked, joins runs;
`parse_scene_palette` is its reader, whose repeat byte counts one more than was written. The
colours that are shown and the runs they form are sets of positions (`Lit`, `Packed`), in
the order of `Nth`.
`resolve` is `SceneLookup`: exact, then reordered, then longer. Upper and lower case enter
as the sets `Equal` and `Part`, which names a query equals or is a part of.

### Catalogue

`dl` is a download: its list, its page, the attempt at that page and the effects so far.
`Page` is an answered request and what `Fresh` takes from it; `NoMorePages` the 403 that
takes the place of an empty page; `PageFails` a failure, retried up to three times; `Open`
and `Write` the two halves of writing the file, between which it is torn; `NextList` goes on
with the next list, or removes the duplicates and sorts for the last write. `Written` is
the reload of the names that follows the button, `PollLoads` the first poll's. `Stop` is the end
of the process at any point; that of Home Assistant ends all its downloads. The first state
is any that an earlier download may have left, a torn file included.

### CommandLine

What a command has still to do is a sequence of steps: requests to the bulb, and the
rewriting of the device file in two (`Truncate`, `Put`), between which it is empty. A
command's action (`List`, `Play`, `Add`, ...) is what its handler reads and refuses before it
opens the session; `Listed` and `Got` put in the steps that depend on answers. A request is
`Answered`, `Refused` by the bulb, `Lost` (with or without effect), or finds the session
`Expired` or `Dead`; `AfterFailure` is which steps follow a failure: none, or those after an
`except` of the handler. `Interrupt` is Ctrl-C. The app saves and deletes scenes at any
time, and the bulb may be reset; `raced` records that it has changed the scenes since the
command listed them, and the properties about scenes are about commands that were not raced.

A bulb refuses requests about scenes it does not have, pairing while it has given a token,
and requests without authentication (`Refuses`), and it may answer any other request with an error
status as well (`Refused`); that leaves the cipher in step, and the command goes on where the code catches the
`RuntimeError`. A scene whose reading was refused is in `passed`. A CoAP error leaves the cipher
out of step and then acts as `Lost` or `Expired` does. The list of scenes has every scene there is, and
may have handles of scenes that are deleted (`nl_ltpdu.py:1594`). `find` exits when its connection or
its key exchange fails; only its probe may. Where
a failed authentication leaves a connection open, it ends with the process.

`ActsOnUnique` and `SkipNeverDuplicates` leave the scenes in `passed` out, and those only. The code has
that exception (repository `cli.py:464`, 1062) and what it says of itself has not: a name is said to be
resolved or to end "with an error if not found or ambiguous" (440), and the add to be skipped "if a
scene with the same palette already exists on the device" (1613). In the model, as in the code, two scenes may have the
name that was typed, the bulb answer the reading of one with an error status, and the command play, delete or
replace the other as the only one; or the scene with the palette be the one it refuses to show, and the
palette be added again. Without the exception TLC finds both properties violated in these ways.

Three things the model does as the code does are worth a reader's attention.
`add --skip-existing` compares a palette rounded once with one rounded twice, so a colour such
as 0x94cc9c is added a second time, though the docstring (repository `cli.py:284`) calls the
result what a device would store and read back; `SkipNeverDuplicates` is about colours that
the second rounding leaves alone. `--compact-repeats` writes the length of a run
(`nl_ltpdu.py:329`) where its reader (422) and `SCENES.md:158` expect the repetitions after the
first; both properties about palettes except it. And `find --save` writes the device file
without its token, as a Ctrl-C between the two halves of writing does for any command;
`TokenKept` says that no other step does.

### Circadian

No state: the operators `Encoded` and `Parsed` take a white point from the user's kelvin to the
bulb's mireds and back, `color_temperature_range` has the ranges of all models, `Accepted`
what the services let through.

## What is checked

Each run takes less than two minutes with two workers.

| run | instance | distinct states | shows |
|---|---|---|---|
| `v3_session` | 2 tasks, 1 message id, 2 transmissions, 3 counters, 2 calls, 2 handshakes | 696,392 | `NonceUnique`, `AnswersAreOwn`, `AtMostOnce`, `ExpiredMeansUnsent`, `LockStep`, `NoSendAfterClose`, `LockReleased`, `ChannelSpec` |
| `legacy_session` | 2 tasks, 1 busy retry, 2 calls, 3 keys | 1,658,062 | `AnswersInStep`, `ExpiredMeansUnexecuted`, `ContextsAccounted`, `CurrentNotRetired` |
| `coordinator` | poll, 1 service call at a time, unloading, threshold 3 | 203,092 | `SettingsExclusive`, `PollsRecover`, `CallsEnd` |
| `scene_upload` | 2 uploads, 3 identifiers, room for 2, 2 names, 2 interferences | 366,851 | `RefusedMeansUnwritten`, `NeverReplaces`, `WithinLimit`, `NamesUnique`, `PlaysVerified` |
| `onboarding` | 2 tasks at a time, 2 pairings, 2 entries, 1 reset | 2,414,965 | `NothingLeftOpen`, `OneEntry`, `SuccessMeansUsable`, `RejectedMeansInvalid` |
| `scene_card` | 2 lights, 2 catalogues, 2 scenes, 1 stored effect, 3 loads, 2 calls, 3 generations | 235,479 | `OffersCurrent`, `LoadShown`, `BusyMeansCall`, `ShownIsOwn` |
| `command_line` | 1 bulb, 2 slots, 2 colours, 5 effects, 2 names to type, 1 command or 2 downloads, 1 upset | 347,165 | `DownloadComplete`, `ActsOnUnique`, `SkipNeverDuplicates`, `AddedIsNamed`, `TokenKept` |

Why the bounds are enough. One message id makes every id of a later exchange a
reused one, so that every late reply is a candidate for the wrong future; two
handshakes and two calls give a request under an old key, a request under the
new one, and a handshake between them; with three counters a first exchange completes
and a second one under the same key runs into the end of the nonce space. Longer
sequences are covered by the theorems, which hold for every limit. Three legacy keys are the first session and two overlapping
reauths, or one with a busy retry. In the coordinator three tasks are the poll, a
service call and the unloading; the sessions are numbered afresh when no task
refers to them, so polls and calls go on without bound. Room for two scenes and two
uploads contend for the last slot, and with one interference each the app and a
reader come in between any two steps. Two tasks with two pairings give two flows that
race to add the bulb, and two that repair one entry; the reset between the pairings
makes the first token void, and may change the protocols. In the card three loads are
an aborted one, its successor and one more; two calls are one from before a change of
generation and one from after it. In the command line a behaviour is one of commands or one
of downloads: a command reads the catalogue once, as it begins, and the first state lets it
find whatever a download may have left. One command is enough, for commands share only the
device file, the bulb and the catalogue, and the first state has every combination of these.
One upset is one failure, error status, interruption or action of the app between any two steps. Two
downloads overlap or follow each other. The five effects have a name that is uploaded twice, a palette in
two orders, one that is longer than the bulb keeps, and one that begins with black and has a
colour that each rounding changes again.

Five runs expect a violation: each states what a docstring, a comment or the README
says, and TLC's trace shows what the code does instead.

| run | says | refuted by |
|---|---|---|
| `legacy_reauth_cancelled` | `nl_ltpdu.py:858`: no other coroutine can send with the new cipher before auth completes | a reauth cancelled during its token exchange leaves the new cipher in place (`except Exception`, line 887) |
| `coordinator_one_session` | `coordinator.py:143`: one persistent session per device | the poll and a service call both find none and both open one |
| `coordinator_light_state` | `coordinator.py:430`: keep the successful light state | `assert self._session is not None` (316, 269) escapes the handlers (414, 427) when a service call has closed the session |
| `coordinator_static_data` | repository `README.md:202`: device info and scene lists are fetched after connecting | a session opened by a service call is not followed by the static reads |
| `upload_stale_list` | repository `README.md:190`: an upload refreshes the stored effect list before returning | a reload, or the static reads of a reconnecting poll, publishes an older list after the upload has published its own, while the upload plays its scene |

### Fairness

`V3Session`: weak fairness of each task's own steps. asyncio runs every ready
callback and fires every due timer; a waiting task always has a timer
(`wait_for`). Nothing is assumed of the network, of the bulb, or of callers.

`Coordinator`: weak fairness of each task's steps, because every await of the code
has a timeout; strong fairness of opening a session, because a connection attempt
takes several round trips, within which exchanges that have already failed come to
an end; and weak fairness of the next poll, which Home Assistant schedules unless the
poll raised `ConfigEntryAuthFailed`. `PollsRecover` also assumes that the bulb is
reachable from some point on (`calm`), and that cancelled calls break sessions no longer from
some point on (`NoSessionDies`): a poll retries once, so a call that is cancelled on its session at
that moment makes it fail, and a user who never ceases to do so never lets one through. Before
that point, a cancellation may break any session. The property says that polls go on to come to
an end (the poll task is idle again and again), so that one which hangs refutes it, and that in the end each is a
success, or the entry asks for a new token. Both are checked with one service call at a
time: several that never cease to be called can keep closing each other's session
before any poll gets through, which is no behaviour of a calm bulb with finite
reaction times.

`LegacySession`, `SceneUpload`, `Onboarding`, `SceneCard` and `CommandLine` are checked for
safety; `upload_stale_list` adds weak fairness of the upload's steps.

Deadlock is checked in `v3_session`, where the bulb can always restart, and in
`onboarding`, where a flow can always be begun or given up. The other specifications
stop: when the bounds on calls and keys are used up, when the entry is unloaded, when
every upload has been made, when the card has had its loads and generations, when the
command has exited or the downloads have ended.

## What is proved

### V3Session

`V3Session_proofs` proves, for every set of tasks and message ids, every number of
attempts, every counter limit and every bound on calls and handshakes, from
`V3Assumption` alone:

| theorem | states |
|---|---|
| `TypeCorrect` | `Spec => []TypeOK` |
| `Inductive` | `Spec => []IInv` |
| `NoncesUnique` | `Spec => []NonceUnique` |
| `ExecutedAtMostOnce` | `Spec => []AtMostOnce` |
| `OwnAnswers` | `Spec => []AnswersAreOwn` |
| `ExpiredUnsent` | `Spec => []ExpiredMeansUnsent` |
| `SilentAfterClose` | `Spec => NoSendAfterClose` |
| `StaysInStep` | `Spec => []LockStep` |
| `ImplementsChannel` | `Spec => ChannelSpec` |

None of the invariants is inductive. That no nonce is used twice needs to know that
the client's counter is beyond every counter it has used under its key, that the
reply to a pending request is at the counter after it, and that a cipher whose
exchange ended without its own answer is marked broken before anybody can use it
again; that an answer is the caller's own needs to know that a data reply comes from
the request whose counter it follows, and that only one request was ever sent at that
counter. `IInv` is the conjunction of `TypeOK` with thirteen named parts:

- `LockInv`: a task waits for the network exactly when it holds the lock;
- `CallInv`: each request under way belongs to one task, has not ended, and has not
  been sent before its task waits for the answer;
- `KeyInv`: the key of a handshake under way is in no ciphertext and in no other hands;
- `CounterInv`: the client takes the even counters of a key in their order, and its
  counter is beyond all that were sent; the odd ones are left to the replies;
- `AnswerInv`: the request a task waits on is the last one under the cipher's key;
- `UnpairInv`: at most one unpair request is ever made;
- `ReplyInv`: an encrypted reply answers a request the bulb has carried out;
- `ExecutedInv`: the bulb has executed what it has seen, once each;
- `OutcomeInv`: what the outcome of a call says of its datagrams;
- `HelloInv`: a handshake has one hello, which the bulb takes once, so that it never comes
  back to a key it has left;
- `DeviceInv`: the bulb's counter follows the last request it has carried out under its key;
- `LastInv`: between exchanges the last request under a usable cipher has been carried out;
- `PartingInv`: a request to unpair is the last under its key.

For each part one lemma shows that every action keeps it, with a step per action that
can disturb it; `Shape` lemmas state once what the shared operators `Exchange`, `Fail`
and `SendEncrypted` do to the state.

`LockStep` relates the two ends. The client's counter follows its last request (`AnswerInv`), the
bulb's the last it has carried out (`DeviceInv`), and `LastInv` says that these are the same
request once the lock is free: an exchange that ends in any other way than with its own answer
leaves the cipher broken. A bulb that has restarted has another key or none, and `HelloInv` keeps
it from coming back to this one by an old hello.

`ImplementsChannel` maps every action of `V3Session` to a step of `SecureChannel` or to a stutter:
a bulb that carries a request out is `Execute`, which `ExecutedInv` allows once; an answer that the
channel gives was asked for by that call, which `AnswersAreOwn` says; a cipher that breaks is
`Break`. The call at hand is that of the one task that waits for an answer (`LockInv`).

### LegacySession

`LegacySession_proofs` proves, for any finite set of coroutines and any number of busy
retries, requests and key exchanges, from `LegacyAssumption` alone:

| theorem | states |
|---|---|
| `TypeCorrect` | `Spec => []TypeOK` |
| `Inductive` | `Spec => []IInv` |
| `Answered` | `Spec => []AnswersInStep` |
| `ExpiredUnexecuted` | `Spec => []ExpiredMeansUnexecuted` |
| `ContextsKept` | `Spec => []ContextsAccounted` |
| `CurrentKept` | `Spec => []CurrentNotRetired` |

The difficulty is reauth: it exchanges keys outside the lock, so several may overlap, while
requests go on under the old key, and each swap puts a new cipher under the feet of whoever
comes next. `IInv` is the conjunction of `TypeOK` and `ContextsAccounted` with eight named parts:

- `LockInv`: who is in an exchange on the cipher holds the lock;
- `RestInv`: a reply is kept only for a task that waits, and a busy reply leaves a key for
  the retry;
- `CallInv`: each request under way has a call of its own, which has not ended;
- `SentInv`: a request on its way was not carried out, and is the only one of its call;
- `KeyInv`: the key of a reauth has never been in use before its swap, and the one it has
  replaced is in no other hands;
- `PositionInv`: nothing is enciphered under a key before its swap, the token takes its
  first position, and the request a task waits on is the last one under the current key;
- `ReplyInv`: the data a waiting task has got is enciphered right after its own request,
  which was carried out once; a session-expired reply says that it never will be;
- `OutcomeInv`: the same of the calls that have ended.

The actions are first brought into a few shapes (`Begin`, `Sends`, `Offers`, `Agrees`,
`Swap`, `ReceiveAuth`, `FailAuth`, `Over` for the many ways a task can end, and `Rests`),
with a lemma for what each does to the state (`NextCases`), and then each part is shown to be
kept by each shape.

### Coordinator

`Coordinator_proofs` proves, for any finite set of service calls and any threshold, with as
many session numbers as tasks can refer to and one more:

| theorem | states |
|---|---|
| `TypeCorrect` | `Spec => []TypeOK` |
| `Inductive` | `Spec => []IInv` |
| `OneSettingsAction` | `Spec => []SettingsExclusive` |

`QueueInv` says that the queue of the settings lock has exactly those tasks that want it
(`Wants`), once each, and that one which has gone past its wait is the first of them. A task
leaves the queue from any place, for it may be cancelled or closed while it waits, and
`LeaveQueue` shows that those behind it move up and nobody else does; `JoinQueue` that a new one
is last. `TaskInv` has what keeps the queue true from one await to the next. That a session
which is opened is a new one is a matter of counting (`FreshIsFree`): each task refers to one
session at most and `_session` to one more. The actions are brought into the shape `Moved` with
`Keeps`, `Leaves` or `Joins` (`StepMoves`); `QueueKept` and `FlagsKept` do the rest.

### SceneUpload

`SceneUpload_proofs` proves, for any number of uploads at once, any finite set of identifiers,
any capacity and any interference by the app, from `UploadAssumption` alone:

| theorem | states |
|---|---|
| `TypeCorrect` | `Spec => []TypeOK` |
| `Inductive` | `Spec => []IInv` |
| `RefusedUnwritten` | `Spec => []RefusedMeansUnwritten` |
| `ReplacesNothing` | `Spec => NeverReplaces` |
| `KeepsLimit` | `Spec => WithinLimit` |
| `NamesStayUnique` | `Spec => NamesUnique` |
| `PlaysOwn` | `Spec => PlaysVerified` |

The argument is about how long what an upload has read stays true. Only one upload is past the
lock (`TypeOK`), so from its list to its write the bulb's scenes can only become fewer, unless
the app adds one, which `raced` records. `ListInv` says so: the list read is short of the
capacity, does not have the identifier chosen, and contains all that is stored; that gives the
capacity and that nothing is replaced. `NameInv` follows the one-by-one reading of names:
each stored scene is either left to be read or has another name. `PlayInv` carries what was
verified to the moment it is played, and `PhaseInv` ties the number of writes to the point an
upload has reached, so that a refusal comes before any write and nothing is written twice.

### Onboarding

`Onboarding_proofs` proves, for any flows and any number of pairings, config entries and
resets of the bulb, from `OnboardingAssumption` alone:

| theorem | states |
|---|---|
| `TypeCorrect` | `Spec => []TypeOK` |
| `Inductive` | `Spec => []IInv` |
| `SessionsEnd` | `Spec => []NothingLeftOpen` |
| `OneEntryEach` | `Spec => []OneEntry` |
| `SuccessUsable` | `Spec => SuccessMeansUsable` |
| `RejectedInvalid` | `Spec => RejectedMeansInvalid` |

That a success leaves a usable entry rests on nobody else revoking the token between the
exchange that gave it and the end of the flow. Only a removal revokes, and only the token of
its own entry: so `TokenInv` says that a token is in one entry at most and that flows which
hold the same one are on the same entry, and `RemoveInv` that no flow is on an entry that is
being removed. `AcceptInv` then carries what the bulb has said of a token up to the moment it
is stored or reported; `FlowInv` ties what a flow holds to the point it has reached, and
`KnownInv` is `OneEntry` without counting. The actions are brought into the shapes `Rests`,
`Goes`, `Unpairs`, `Gives`, `Takes`, `Adds` and `Stores` (`NextCases`), and each part is shown
to be kept by each shape; `NextReports` says which flow's outcome a step can change.

### SceneCard

`SceneCard_proofs` proves, for any entities, addresses, scenes and effects and any number of
loads, calls and configurations, from `CardAssumption` alone, which keeps `None` apart from
configurations and catalogues:

| theorem | states |
|---|---|
| `TypeCorrect` | `Spec => []TypeOK` |
| `Inductive` | `Spec => []IInv` |
| `Offers` | `Spec => []OffersCurrent` |
| `LoadsShown` | `Spec => []LoadShown` |
| `BusyWhileCalling` | `Spec => []BusyMeansCall` |
| `ShowsOwn` | `Spec => []ShownIsOwn` |

A late answer does no harm because of two facts about identity. A load that is not aborted is
the last one, and was made for the address the card has now, in the page (`LoadInv`); and a
call of this generation is the last one made, was made under the configuration of the card
now, and is under way exactly while the card is busy
(`CallInv`). The message carries the configuration of its call, and `ShownIsOwn` asks that it be the
present one: `setConfig` takes the message away, and a call of an older generation leaves none. With the scenes those of the address on show, and none of them left on a card
that is not configured (`OfferInv`), each part is kept by each action.

### CommandLine

`CommandLine_proofs` proves, for any effects, lists of the cloud, names, slots, and any number
of commands, downloads and upsets, from the assumptions of `Palettes`, `Catalogue` and
`CommandLine`, every safety property its run checks:

| theorem | states |
|---|---|
| `TypeCorrect` | `Spec => []TypeOK` |
| `Inductive` | `Spec => []IInv` |
| `DownloadsComplete` | `Spec => DownloadComplete` |
| `KeepsToken` | `Spec => TokenKept` |
| `AddsOnce` | `Spec => SkipNeverDuplicates` |
| `ActsByName` | `Spec => ActsOnUnique` |
| `AddedAreNamed` | `Spec => AddedIsNamed` |

`IInv` is the conjunction of what is so of the catalogue (`CatInv`), of the commands
(`CmdInv`), and of what they know of the bulb's scenes (`SceneInv`).
The assumptions say that the colours of the cloud are numbers, that a list ends with its first empty page, as `iter_effect_pages` takes it,
that the slots are finitely many, and that there are tokens for every command.

That a download which was alone has everything in the file, each scene once and in order, has three
parts. What it has gathered grows with each page and is not lost by a retry (`GatherInv`: all
of the pages before the one it is at). Removing duplicates leaves one of each and sorting keeps them all
(`FinalComplete`). And nobody else has written: downloads at the same time know of it (`AloneInv`),
and what one that was alone has written is still in the file (`FileInv`). Together they are
`CatInv`. What a program would go through the lists for are sets of positions here
(`Fresh`, `Deduped`, `Sorted`), in the order of `Nth`, the position with k - 1 before it.
`NthInOrder` shows that there is one for each k; the induction it needs is `Induction`, from the
pigeonhole principle, and `Least` is the first of a set of positions.

A command that writes the device file follows a script, and what it has left to do is an end of
that script (`Left`, `Follows`), whatever has failed before; the others have no step that writes
(`Plain`). So the place in the script tells what has happened: `TokenInv` says that when pairing is
about to save its token the bulb accepts that one or none, that when unpairing comes to the
file the bulb accepts none, and that tokens are issued once for each pairing at most. One lemma
shows for each action that a command goes on as one of its kind (`GoesOn`, `AheadKept`,
`FailKept`), and one for each command that it begins as one (`UsualKept`, `FilesKept`).

A command that plays, deletes, replaces or adds a scene has its steps in the order of their
ranks: it lists the scenes, reads those it has to know, and only then changes any (`Scenic`,
`Before`; `UnrolledSteps` shows that the order survives the listing, which puts in one step
for each scene). So long as the session lives and no other client has been at the
scenes, it knows the truth about each slot: it is empty, or is yet to be read, or has been read and
is remembered as it is, or is not the palette that is to be skipped, or the bulb has refused to show
it and it is in `passed` (`KnowInv`, `Knows`). A timeout or an expired session ends this and lets no
request through any more (`AimedLoses`); an error status adds one slot to `passed` and nothing else
(`AimedRefused`, `AimedFail`). Each slot is to be read once at most and is not remembered before it
has been (`Before`, `Unread`), so that what is passed over is not what was read. When the step that
changes a scene is at hand nothing is left to be read (`AimedStep`), so that what the command
takes for the only scene of a name is the only one outside `passed` (`TakesUnique`), and what it adds is
nowhere else there yet (`AddsNoTwin`). `StoredInv` is what is needed besides: what the bulb has stored are
entries, and those of a scene are read back as a palette that is not empty (`ReadNonempty`).

That a scene added is recognised is a fact about palettes (`Recognised`). Stored without repeats it is read
back as it is shown (`ParsePlain`), which is its first colours if none is shown as black
(`FirstShown`). The effect itself is in the catalogue, so the lookup finds something: the same palette,
a reordered one, which has as many colours and the same ones because a bijection
can be made of those for each colour (`SameLength`), or a longer one, and then the bulb has kept
as many as it takes and no more of the longer one would be shown.

### Circadian

`Circadian_proofs` proves, for every model's range and every value:

| theorem | states |
|---|---|
| `SameMireds` | a white point in the model's range is sent as the bulb had it |
| `ReadAccepted` | what is sent fits two bytes, and what is read back is accepted |
| `SavedAgain` | saving what was read sends the same mireds, even if it is out of range |

The first rests on intervals: flooring leaves the product of mireds and kelvin short of a
million by less than the mireds, at most 476, and rounding returns the same mireds while that
is below half the kelvin, at least 1050 (`BackAndForth`). A white point at an end of the range may be read back just outside it, is
brought back to the end, and that gives the same mireds again (`FromBelow`, `FromAbove`).

### Only model-checked

`LockReleased`, `PollsRecover` and `CallsEnd` are liveness properties and out of this
prover's reach; every safety property that a passing run checks is a theorem. Induction over data,
for what a definition by recursion computes, is out of reach too. The lists of this project are therefore
positions, and where a proof needs induction over numbers it counts instead (`Induction`);
`FlattenSeq` of the community modules is taken by its steps (`FlattenSteps`). Compact repeats are read back
otherwise than they were written, so nothing is stated of what they come to but that they are entries.

## Not modelled

- Services, entities and discovery: they validate, forward or display, and keep nothing.
- The layouts of requests and replies, except where a property depends on them; the device
  controls and settings, which are one request each; times and offsets of a schedule, which
  are copied.
- Of the sessions, the connect probes and the pairing exchanges of a legacy session, whose
  outcomes `Onboarding` and `CommandLine` take as steps; `observe_ltpdu` beyond its repeats in
  `CommandLine`; `query_core`.
- Previews of the coordinator, which write nothing; the v2 effect encoding, whose upload is
  read back and compared; the card's editor, which is a form.
- Of the command line, printing, the firmware check and download, the directory of saved
  files of one scan, and `--dry-run` of a preview.
- Raw copies of the downloaded pages (`save_raw`) and the firmware download of `nl_api.py`.

## Plan

The order is by what goes wrong worst: first the sessions, whose promises everything
else uses, then the coordinator and the uploads that write to a bulb, then the flows
that hold its credentials, then what only displays, and last the catalogue and the command
line. All of these have their modules, and each of these its theorems; every safety property
that a passing run checks is proved. What is left:

1. the v2 effect encoding, which the upload reads back, as sequences of palettes beside
   `Palettes`, and its comparison in `SceneUpload`;
2. the times and offsets of a schedule in `Circadian`, with the kelvin proved now.
