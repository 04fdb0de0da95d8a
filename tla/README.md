# Verification of matrix-react-sdk

TLA+ models of the parts of matrix-react-sdk that keep state over asynchronous
steps, the TLC configurations that check them on small instances, and theorems
about them that TLAPS checks for every instance. All paths below are relative
to the repository; `PROJECT.json` names, for each definition, the lines it
stands for.

matrix-react-sdk runs in one JavaScript thread per tab. The code between two
`await`s is never interrupted, and every model takes it as one step. What
interleaves is: the continuations after `await`, timers, events of the Matrix
client (whose `/sync` runs on its own), the user, other tabs, other devices of
the user, and the end of the page at any point. The hard behaviour of this code
is nearly always of the same kind: a request and the event it causes come back
in either order, and state that was read before an `await` is used after it.

Reproduce a run with `tlc -config <cfg> <module>` and a proof with
`tlapm <module>.tla`, in this directory.

## 1. Inventory

| Component | State | Operations | Interacts with | Hard behaviour | Correct if |
|---|---|---|---|---|---|
| **Session lock** (`utils/SessionLock.ts`, used in `MatrixChat`, `Lifecycle`) | three `localStorage` items; per tab the servicer's timer and the wait loop | `getSessionLock`, `checkSessionLockFree`, storage listeners, `releaseLock`, page hide | other tabs through storage events; `clearStorage` | crashes that leave a ping, timers that race, events older than the storage, pages that come back from the back/forward cache | one tab runs the application; the newest claim wins; a waiting tab proceeds |
| **Life cycle** (`Lifecycle.ts`) | session in storage, the client | restore, log in, log out, clear storage, start and stop services | nearly everything | each step awaits requests or storage | the storage of a session is not emptied under another one |
| **Event index** (`indexing/`) | checkpoint queue in memory and in the platform's database, live events | crawler, sync, timeline, redaction and decryption listeners, close | js-sdk client, platform's index | the crawler's awaits race redactions, commits, close, reloads and failing calls | no message of an encrypted room is left out for good; redacted ones do not stay |
| **Voice broadcast recording** (`voice-broadcast/`) | recording state, retry list, sequence number, recorder | start, pause, resume, stop, chunk upload, info events, reconnect | VoiceRecording (microphone), homeserver, stores | commands overlap, uploads are concurrent, retries run twice | every chunk is sent once, in order; room, state and microphone agree |
| **Voice broadcast playback, stores, resumer** | chunk list, positions, current recording / playback / pre-recording | load, play, skip, pause others | Playback, room timeline | chunks arrive while others load | plays each chunk once, at most one current item |
| **Local echo** (`stores/local-echo/`) | transactions, cached values, context state | `setValue`, run, resend, echo by push rules | push rules on the server, NonUrgentToastStore | two requests per change, either may fail; echoes of half, old or foreign changes | the user sees what the server has or is told |
| **Live location** (`stores/OwnBeaconStore.ts`) | known and live beacons, ids in `localStorage`, watch, interval, error counts | create, stop, publish, expire, membership | geolocation, homeserver, other devices | the id of a beacon is read after awaits; errors stop the watch while beacons join | shares exactly while a beacon of this device is live, to no other |
| **Group calls** (`stores/CallStore.ts`, `models/Call.ts`) | connection states, resend timers, the user's entry in room state, the setting of connected calls | start, disconnect, hang up, resend, clean, restart | widget, room state, other devices | entries are read, changed and sent whole; hangups and ends of tabs in between | a device is listed while it is connected, and not for ever after |
| **One-to-one calls** (`LegacyCallHandler.tsx`) | calls by room, transfers, ringing | place, answer, hang up, hold | js-sdk calls, audio | awaits in `placeCall`, glare | one call that is not on hold |
| **Navigation** (`stores/RoomViewStore.tsx`) | the viewed room, its subscription, joining, replying, errors | view room or alias, home page, join, reply | dispatcher, homeserver, sliding sync | lookups, subscriptions and joins that end after the user has moved on; payloads fired again | the view follows the last choice and comes to rest; one subscription |
| **Dispatcher and asynchronous stores** | pending payload, store states | dispatch, waitFor, ready / not ready | all stores | handlers are asynchronous, the client is swapped under them | a store never handles with a stale client |
| **Settings** (`settings/`) | levels, watchers, local echo values | get, set, watch | account data, local storage | echo of writes, other tabs and devices | the value of the strongest level is seen |
| **Room list** (`stores/room-list/`) | ordered lists by tag, sticky room | handle room update, set sticky room, filters | notifications, spaces | index arithmetic of categories around the sticky room | the lists are permutations in order |
| **Spaces** (`stores/spaces/`) | hierarchy, rooms by space, active space | rebuild on state events | room list | cyclic and partly known hierarchies | the closure of the hierarchy |
| **Right panel, dialogs, toasts** | panel history, dialog stack with promises | push, pop, close | views | closes while a close is awaited | each promise settles once |
| **Voice messages** (`audio/`) | playbacks, playback order, positions, what was heard | play, pause, seek, autoplay of the next message, mount, change of room | Web Audio, timeline | a stop, an end and a decoded message are one event; starts are asynchronous | one message sounds, positions are kept, the chain ends |
| **MultiInviter** (`utils/MultiInviter.ts`) | completion state and error per address, the promise | invite, retry after rate limits, invite without profile, cancel | homeserver, AskInviteAnywayDialog | an address is tried again within its first try; several invitations at once | settles, tells what happened, invites nobody twice |
| **DeviceListener, encryption setup** | sessions at the start, dismissals, toasts shown | recheck, dismiss, stop, start | crypto SDK, ToastStore, Lifecycle | rechecks overlap over ten awaits; snapshots of the sessions are awaited | the toasts are those of the latest state, none is left behind |
| **Timers, presence, notifications, decryption failures** | activity timers, tracked failures | — | server, analytics | timers | — |
| **Widgets** (`stores/widgets/`) | running widgets, layouts | messaging, capabilities | matrix-widget-api | life cycle of an iframe | — |
| **Sliding sync, identity and integration tokens** | subscriptions, tokens | — | homeserver | concurrent requests | — |
| **Views** (`MatrixChat`, `TimelinePanel`, `components/`, `res`, `i18n`) | routing and rendering | — | all of the above | — | — |

How they interact: the js-sdk client emits events to stores (`EventIndex`,
`OwnBeaconStore`, `CallStore`, echo chambers, `RoomListStore`) or, through
`actions/MatrixActionCreators`, dispatches them; views dispatch actions; stores
emit updates to views; requests are promises. `localStorage` is shared by tabs,
account data and room state by devices. `Lifecycle` starts and stops the
services and is the only part that reaches across all of them.

## 2. Modules

| Module | Models | Proofs |
|---|---|---|
| `SessionLock` | the lock of `SessionLock.ts`, its two uses in `MatrixChat` | `SessionLockProofs` |
| `TabLock` | what the lock promises, without storage, events or clocks | (refined by `SessionLock`) |
| `SessionLogout` | the lock composed with the paths of `Lifecycle.ts` that empty `localStorage` | `SessionLockProofs` |
| `EventIndex` | `EventIndex.ts`, the platform's index behind `BaseEventIndexManager`, `EventIndexPeg` | `EventIndexProofs` |
| `VoiceBroadcastRecording` | `VoiceBroadcastRecording.ts`, `VoiceBroadcastRecorder.ts`, the start and stop of `VoiceRecording.ts`, `startNewVoiceBroadcastRecording.ts` | `VoiceBroadcastRecordingProofs` |
| `EchoChamber` | `stores/local-echo/`, `setRoomNotifsState` of `RoomNotifs.ts`, the resend of `ServerOfflineDialog` | `ClientPartsProofs` |
| `OwnBeaconStore` | `OwnBeaconStore.ts` with the homeserver's beacon_info events | `OwnBeaconStoreProofs` |
| `MultiInviter` | `utils/MultiInviter.ts` with the answers of the homeserver and of `AskInviteAnywayDialog` | `RoomPartsProofs` |
| `JitsiCall` | `Call` and `JitsiCall` of `models/Call.ts`, the record of connected calls of `CallStore.ts`, on several devices | `JitsiCallProofs` |
| `RoomViewStore` | the viewing, joining and replying of `RoomViewStore.tsx`, the queue of `dispatcher.ts`, `RoomAliasCache.ts` | `RoomPartsProofs` |
| `DeviceListener` | `DeviceListener.ts` and its toasts | `DeviceListenerProofs` |
| `PlaybackQueue` | `PlaybackQueue.ts`, `Playback.ts`, `ManagedPlayback.ts`, `PlaybackManager.ts`, mounting by `MAudioBody.tsx` | `ClientPartsProofs` |
| `MCSessionLogout`, `MCOwnBeaconStore` | symmetry sets for TLC | |
| `MCEventIndex`, `MCVoiceBroadcastRecording`, `MCEchoChamber` | the scenarios TLC checks | |
| `MCRoomParts` | `MultiInviter`, `JitsiCall` and `RoomViewStore` side by side, with their scenarios | |
| `MCClientParts` | `EchoChamber` and `PlaybackQueue` side by side | |
| `MCStoreParts` | `OwnBeaconStore` and `DeviceListener` side by side | |

The last three check several components in one run. The components share no
state, so a run chooses one (`part`) in its initial state, and the others rest in
one initial state of theirs: nothing is lost, and the states add up rather than
multiply. The MC module extends the components, so that the run and the theorems
speak of the same definitions, and TLC evaluates the assumptions on their
constants. This is why the operators of `JitsiCall`, `RoomViewStore`,
`DeviceListener` and `PlaybackQueue` have names of their own (`CallInit`,
`CallNext`, `CallSpec`, `callVars`, `callScenario`, `callCount`; `ViewInit`,
`ViewNext`, `ViewSpec`, `viewScenario`, `viewCount`; `ListenerInit`,
`ListenerNext`, `ListenerSpec`, `listenerVars`, `listenerCount`; `VoicesInit`,
`VoicesNext`, `VoicesSpec`, `voiceVars`, `voiceScenario`, `voiceCount`). Two
components that share a run share a proof module where both are short.

`EventIndex`, `VoiceBroadcastRecording`, `EchoChamber`, `JitsiCall`, `RoomViewStore`,
`DeviceListener` and `PlaybackQueue` have a variable `scenario` (`viewScenario`,
`callScenario`, `voiceScenario`) that `Init` chooses from the constant `Scenarios` and no step
changes: a record of bounds (how many calls, failures, reloads) and of
assumptions about the environment (does the user wait for one change before the
next; may events come before answers). One run then checks several scenarios,
and a property that needs an assumption says so (`scenario.serial => ...`). The
bounds of `OwnBeaconStore` are ordinary constants, and `count` says what of them
is used up, as `viewCount` and `callCount` do for the navigation and the calls;
the constants of `SessionLock` are the parameters of the lock.

Definitions that are preceded by a comment "Mutant: …" are wrong variants of the
operator that follows; they are used by no specification. Each says how a
plausible bug in the code would look, and each property of a passing run has one
that violates it (`PROJECT.json`, "mutants").

### 2.1 SessionLock, TabLock, SessionLogout

A tab (`Tab`) is one page load. `claimant`, `owner`, `ping` are the three
storage items (`ping` as the age of the timestamp). `inbox[t]` holds the storage
events queued in a tab: events carry nothing the code reads but their key, and
further events of the same key change nothing, so a set stands for the queue.
`pc[t]` is where the tab is: asking the user whether to go on (`confirm`),
waiting for the lock (`waiting`, with `sleep[t]` the rest of its `setTimeout`),
giving up (`aborting`, then `aborted`), `running`, `stopping` (in `onNewInstance`), `wedged`
(it failed; the servicer goes on), `stopped`, `closed`. `servicer[t]` says
whether the interval timer runs, `since[t]` how long ago it ran, `frozen[t]`
that the page lies in the back/forward cache.

| Action | Code |
|---|---|
| `Start`, `Confirm` | construction of `MatrixChat`, `checkSessionLockFree`, the confirmation view, `getSessionLock` to its first await |
| `WakeUp` | the timeout of the wait loop and the next turn of the loop |
| `StorageEvent` | the storage listener of a running tab, or the one that ends the wait of a waiting tab |
| `Service` | `serviceLock` by the interval timer |
| `FinishAbort`, `FinishStop`, `StopFails` | the continuations after the awaited unlock of a claim, of `onNewInstance`, and its rejection |
| `Close`, `Crash`, hiding and coming back | `onPagehideEvent`, a process that dies without it, the back/forward cache |
| `Tick` | a unit of time, which no awake tab's timer lets pass beyond `MaxGap` |

`TabLock` has two variables, the tab that asked last and the set of running
tabs. `SessionLock` implements it with `newest <- claimant` and
`running <- {t : Active(t)}` (`ImplementsTabLock`).

`SessionLogout` extends the module with the two paths that call
`localStorage.clear()`; the event of `clear` has no key and the lock's listeners
ignore it. The request of a logout leaves no trace until it is answered, so it
may be under way in every page that has run the application (`MayLogOut`).

### 2.2 EventIndex

`timeline[r]` is the room on the server: a sequence of messages and redactions.
The client has its events from `token[r]` to `seen[r]`; `saved[r]` is how far it
need not sync again after a reload. `crawlerCheckpoints` is the queue in memory,
`stored` the one in the database, `indexed` and `live` the events in the
database and those that wait for the next commit. `crawler` names the await at
which `crawlerFunc` stands, `batch` is what it fetched last. Handlers of live
events that wait for a decryption (`decrypting`), for the answer whether a room
is indexed (`checking`) or for the checkpoint of a gap to be stored (`adding`),
and the handler of the first sync (`setup`, `seeds`) go on by themselves. The
listeners are on from `init` to `close` (`Listening`), so the sync that catches
up after a start may bring events before the first sync is handled; the field
`calmStart` of a scenario leaves those out. A reload ends all of it and keeps
what is stored. `overtaken` is a history: the messages whose redaction came
between the crawler's filter and its add.

| Action | Code |
|---|---|
| `LoadCheckpoints` | `init` |
| `FirstSync`, `IsEventIndexEmpty`, `AddInitialCheckpoint`, `StartCrawler` | `onSync` of the first sync, up to its await and after it; `addInitialCheckpoints`, `startCrawler` |
| `CommitLiveEvents` | `onSync` of later syncs |
| `OnRoomTimeline`, `AddLiveEvent` | `onRoomTimeline` up to its await and after it, `redactEvent` |
| `OnTimelineReset`, `AddRoomCheckpoint` | `onTimelineReset`, `addRoomCheckpoint` |
| `OnRoomStateEvent`, `IsRoomIndexed` | `onRoomStateEvent` up to its await and after it, `addEventsFromLiveTimeline` |
| `TakeCheckpoint`, `MessagesResponse`, `MessagesError`, `CheckpointRemoved`, `FilterEvents`, `DeleteRedacted`, `AddHistoricEvents`, `CrawlTrimmed` | `crawlerFunc`, one per await: the sleep, `/messages`, a removal, the decryptions, each `deleteEvent`, the add, the removal after catching up |
| `Close`, `Reload` | `close`, the end of the page and `EventIndexPeg` at the next start |
| `ServerEvent`, `SaveSync` | other users; the sync store of the js-sdk (external) |

### 2.3 VoiceBroadcastRecording

`begin` is `startBroadcast`: whether its request has been answered, its event
has come, and the recording object exists. `state` is the recording's, `recorder`
says whether the microphone is on; `sent` and `infos` are the messages and info
events that the room has; `toRetry` is the retry list. Calls that wait (uploads,
messages, info events, commands, reconnects) sit in the slots `Task`, each at
one of its awaits; a reconnect holds the list it iterates over and its copy.
Audio is a number per chunk. A request may fail without effect, or take effect
and lose its answer: `unanswered` is the history variable that counts the latter,
per chunk. `recorded` counts the chunks the recording was given: the last one of a
recorder that `onConnectionError` (`stopRecorder(false)`) or `destroy` stops is
dropped by the code and not among them. Scenarios say what a property assumes:
`steady`, reconnects run alone and succeed; `Orderly`, the user waits for each
command, nothing fails or is redacted, and the answer of `startBroadcast` comes
before its event.

| Action | Code |
|---|---|
| `Answered`, `OnRoomStateEvents` | `startBroadcast`: the answer, the listener |
| `Pause`, `Resume`, `Stop` | the methods up to their first await |
| `RecorderStarted`, `RecorderStopped` | `VoiceRecording.start` and `stop` settle |
| `OnChunkRecorded` | the recorder emits a chunk: `onChunkRecorded`, `uploadAndSendFn` |
| `Uploaded`, `MessageSent`, `InfoSent`, `RequestFailed`, `AnswerLost` | the requests settle; `callWithRetry`, `onConnectionError` |
| `OnReconnect`, `OnReconnectIdle` | `onReconnect` |
| `OnBeforeRedaction` | `onBeforeRedaction`, `destroy` |

### 2.4 EchoChamber

One room's notification volume. The volume is set by up to two push rule
requests; `rules` on the client follow `server` by `OnAccountData`, which may
bring a part of a change (`wholeEchoes` excludes that). `txns` is every
transaction ever made, with its status and the runs of it whose promise has not
settled (`open`), `cache` the one that `getValue` answers with, `requests` those
under way. `run` refuses only what has succeeded, and the dialog keeps the resend
button of a failed transaction (`button`) until it is rendered again, which takes
a toast that comes or goes; so a transaction may run twice at a time, also after
it was disowned. `won` remembers that a run of it has succeeded. `setRoomNotifsState` computes its requests
from the client's rules at the time of the call. Not modelled here: a volume
that is unknown, guests, a client that is replaced during a transaction. A
change by another device that is undone before the next sync leaves the cached
value in place, since the chamber compares volumes; other devices change the
volume once.

| Action | Code |
|---|---|
| `SetValue` | `GenericEchoChamber.setValue`, `beginTransaction`, `run`, `setRoomNotifsState` |
| `Resend` | the resend button of `ServerOfflineDialog` |
| `RequestDone`, `RequestFailed`, `RunDone` | the requests, and the promise of `run` |
| `OnAccountData` | `RoomEchoChamber.onAccountData`, `disownTransaction` |
| `ForeignChange` | another device (external) |

### 2.5 OwnBeaconStore

Each room has one `beacon_info` per user (`server`), which a new beacon, a stop
or another device replaces; `timeline[r]` is what `/sync` has still to bring.
`beacons`, `local` (created ids in `localStorage`), `liveBeaconIds`, `watching`
and the publish state (`lastPublished`, `debounced`, error counts) are the
store's. `creates` and `stops` are the calls under way, at the await where they
stand: sent, accepted by the server, answered. `own` and `positioned` are
history variables: what this device created, and what locations were sent to.

| Action | Code |
|---|---|
| `CreateLiveBeacon`, `CreateAnswered`, `CreateFailed` | `createLiveBeacon` |
| `StopBeacon`, `StopAnswered`, `StopFailed` | `stopBeacon`, `updateBeaconEvent` |
| `Sync`, `Expire` | `onNewBeacon`, `onUpdateBeacon`, `onBeaconLiveness`, each with `checkLiveness` and `togglePollingLocation` |
| `OnWatchedPosition`, `DebounceEnds`, `StaticInterval`, `Located` | the watch, the debounced publish, the interval, `getCurrentPosition` |
| `SendAnswered`, `ResetLocationPublishError` | `sendLocationToBeacon` and its error counts |
| `PermissionDenied` | `onGeolocationError` |
| `Reload` | `onReady`, `initialiseBeaconState` |
| `StopAccepted`, `CreateAccepted`, `ForeignBeacon` | the homeserver and other devices (external) |

### 2.6 MultiInviter

One call of `invite`. `calls[a]` is `doInvite` of address `a`: waiting for the
profile, for the answer to the invitation, or for the timeout of a rate limit;
`next` is the index of the recursion `inviteMore`, `phase` where the series is:
inviting one after the other, asking the user about unknown profiles, inviting
those "anyway" at once (`unknowns` is what `Promise.all` still waits for), over.
`accepted` and `gaveUp` are history variables.

| Action | Code |
|---|---|
| `Invite` | `invite` and the first `inviteMore` |
| `ProfileAnswered`, `InviteAccepted`, `InviteFailed` | `inviteToRoom` and `doInvite` settle, with the rest of `inviteMore` |
| `InviteWithoutProfile`, `LimitExceeded`, `TriedAgain` | the errors that start `doInvite` again |
| `OnInviteAnyways`, `OnGiveUp` | the two answers of the dialog |
| `OnBackgroundClick` | a click beside it, which closes it without an answer (`Modal`) |
| `Cancel` | `cancel` |

### 2.7 JitsiCall

The call of one video room on several devices of one user. `entries` is the
history of the user's room state event, a set of devices each; `known[d]` is the
entry that device `d` has from `/sync`, so that a device may change an old one.
`call[d]` has the connection state and what hangs on it: the starts that wait for
the widget or in the lobby, how often the listeners are registered, how many
resend intervals run and whether the call still knows one (`timers`, `held`).
`activeCallRoomIds` is the setting in which `CallStore` remembers connected
calls. `expired` says which entries are older than an hour.

`serial` scenarios are those in which an update of the entry begins when no other
device's is under way and the device knows the current entry (`Orderly`); in
`steady` ones, moreover, nobody hangs up in the lobby or while a connection is
being announced, and no tab crashes during an update. `ConnectedShown` holds in
serial scenarios that are steady or in which no tab crashes; `UncleanRemembered`
in steady ones, after any number of crashes.

| Action | Code |
|---|---|
| `Start`, `WidgetReady`, `WidgetTimeout` | `JoinCallView`, `start` and the wait for the widget |
| `JoinCall`, `JoinFailed` | `performConnection` |
| `OnHangup`, `Disconnect`, `DisconnectAnswered`, `DisconnectFailed` | `onHangup`, `disconnect`, `performDisconnection` |
| `StopMessaging`, `MyMembership`, `BeforeUnload` | the listeners of `Call` |
| `EntrySent`, `SendFailed`, `Sync` | the homeserver, with the end of `onConnectionState` |
| `Resend`, `Clean`, `OnReady` | the interval of `onConnectionState`, `clean`, `CallStore.onReady` |
| `Crash`, `Expire` | tabs and time (external) |

### 2.8 RoomViewStore

`queue` holds the payloads that `dispatch` has put behind a timeout;
`OnDispatch` handles the first. A payload that needs the alias (`lookups`) or the
room subscription of sliding sync (`subscribing`) waits there and is dispatched
again. `asked` is a history variable: where the user went last.

| Action | Code |
|---|---|
| `ClickRoom`, `ClickAlias`, `ClickHome`, `ClickJoin`, `ClickReply`, `EndReply` | views that dispatch (external) |
| `Subscribe`, `ViewRoom`, `ViewAlias` | the branches of `viewRoom` |
| `ViewRoomError`, `ViewHomePage`, `JoinRoom`, `JoinRoomError`, `ReplyToEvent` | the other cases of `onDispatch` |
| `RoomVisible`, `RoomIdForAlias`, `AliasNotFound`, `JoinAnswered` | the continuations after the awaits |

### 2.9 DeviceListener

`account` is what the crypto SDK answers about cross-signing and secret storage,
and what the user lacks; `devices` and `verified` are the user's other sessions.
`rechecks` are the calls of `doRecheck` under way, each at one of its awaits with
what it has read so far (`cross`, `storage`, the lists of old and new sessions).
A recheck that outlives `stop` goes on: `client` says whether `this.client` was
there when it asked, `gone` that its client has been stopped and may throw
`ClientStoppedError`. Any other recheck may fail at any of its awaits too
(`faults` bounds how many do): `recheck` catches the error and nothing asks
again. `snapshots` and `showing` are the awaits of
`onWillUpdateDevices` and of `showToast`. Toasts are sets: `setupToast`,
`bulkToast`, `toasts`. Two variables are history: `atStart`, the sessions known
when the listener was started, and `untold`, which reminders the latest recheck
has not seen to: all if it has failed, the setup toast if secret storage was
being accessed when it looked or it opened the dialog instead, those of sessions
if the details of one could not be fetched. The next recheck starts with none.

| Action | Code |
|---|---|
| `AccountChanged`, `DeviceVerificationChanged`, `RoomEncrypted`, `OnSync`, `OnDevicesUpdated` | the listeners, each with `recheck` |
| `OnWillUpdateDevices`, `SnapshotTaken` | `onWillUpdateDevices`, `ensureDeviceIdsAtStartPopulated` |
| `CrossSigningAnswered` … `TrustAnswered` | `doRecheck`, one per await; `Ends` is its last part |
| `DismissSession`, `DismissBulk`, `DismissEncryptionSetup` | the buttons of the toasts with the methods they call |
| `AccessSecretStorage`, `SecretStorageAccessed` | `accessSecretStorage` from the setup toast's button or the settings, and its end |
| `SessionToastShown`, `SessionToastFailed` | the end of `showToast`, and a `getDevice` that fails |
| `RecheckFailed`, `SnapshotFailed` | an error of any await of `doRecheck`, which `recheck` catches; one of `getDeviceIds` in `onWillUpdateDevices` |
| `Stop`, `Start` | `stop`, `startMatrixClient` with `ToastStore.reset` |

### 2.10 PlaybackQueue

The voice messages of one room. `playbacks[m]` is the `Playback` that message
`m` has while it is mounted: its state, whether it is being decoded, whether
there is a source node and its `AudioContext` runs (it is heard if both).
`calls[m]` is the queue of its `suspend` and `resume` calls, which one context
settles in order. The other variables are those of the queue. Every step
computes the whole synchronous cascade: an event, the queue's listener, the
pauses of the others and the start of the next one up to its await.
`partly` is a history variable: what was heard, and not to the end.

| Action | Code |
|---|---|
| `Toggle`, `Seek` | the play button and the seek bar: `toggle`, `skipTo` |
| `Settled`, `Ended`, `Prepared` | the ends of `play`, `pause`, `onPlaybackEnd`, `prepare`, with `onPlaybackStateChange` |
| `OnPlaybackClock` | `onPlaybackClock` |
| `Mount`, `Unmount`, `LeaveRoom`, `EnterRoom` | `MAudioBody`, `destroy`, and the room listener of the queue |

## 3. What the runs check

A run with result "violated" shows one statement of a doc or a comment that the
code does not keep, by a counterexample of TLC; section 5 tells it.

| Run | Instance | Properties | Result |
|---|---|---|---|
| `session_lock` | 3 tabs, expiry 3 ticks, service every tick, at most 2 late, no back/forward cache, failing callbacks | `MutualExclusion`, `NewestSurvives`, the inductive `IInv`, `NoForeignRemoval`, refinement of `TabLock`; `ClaimantProceeds` and `DisplacedStops` under fairness | hold |
| `session_logout` | 3 tabs up to symmetry, expiry 2, pages that come back from the back/forward cache, logins and logouts | `OverlapResolves`: two tabs may run at once, but one is shutting down or has the event that makes it | holds |
| `session_logout_exclusion` | the same without the cache | `MutualExclusion` | violated |
| `event_index` | 1 room of up to 4 events; scenarios with failures, reloads, redactions and closes | `OrderedNothingLost`, `LoadedRedacted`, `NotForgotten`; `CrawlFinishes` under fairness | hold |
| `event_index_caught_up` | commits may overtake handlers | `NothingLost` | violated |
| `broadcast` | 3 waiting calls; scenarios `Live`, `Retry`, `Overlap`, `Commands` with up to 3 chunks, 4 commands, 2 failures, 3 reconnects | `UniqueSequence`, `SteadyChunkKept`, `SteadySentOnce`, `StoppedIsLast`, `StatesAgree` (room, state and microphone); `EverythingSent` under fairness | hold |
| `broadcast_lost` | 1 chunk, 3 failures, 1 reconnect that fails | `ChunkKept` | violated |
| `client_parts` | local echo: scenarios `Serial`, `Calm`, `Overlap`, `OverlapResend`, `ResendAgain` with up to 3 changes, 2 resends, 3 failures, a change on another device; voice messages: 3 of them, scenarios `Chain`, `Visit`, `Decoding`, `Impatient` | `ShownIsTrue`, `FailureReported`, `VoicesInOrder`; `Converges` and `ChainEnds` under fairness | hold |
| `echo_hidden` | 2 changes, one failing request | `CaughtUp` | violated |
| `store_parts` | beacons: 2 rooms up to symmetry, 4 events, three incidents of: up to 2 created beacons, stop, beacon of another device, 2 failing requests, geolocation error, reload, event that overtakes its answer; reminders: 2 sessions up to symmetry, 2 rechecks at a time, scenarios `Orderly`, `Faulty` (two failing calls), `Restarted`, `Required`, `Disorder`, `DisorderRestarted` | `OnlyOwnPositioned`, `WatchesWhileLive`, `CreatedIsShared`, `ToastsAreTrue` | hold |
| `beacon_live` | 2 rooms, 5 events, 2 beacons | `ExpiredIsStopped`, `EachGetsLocation` under fairness | hold |
| `room_parts` | invitations: 5 lists of up to 3 addresses with repeated and invalid ones, 2 rate limits; calls: 2 devices, scenarios `Failures`, `Crashes`, `Resends`, `Lobby`, `Leaving`; navigation: 3 rooms and an alias, scenarios `Quick`, `Plain`, `Away`, `Piled`, `PiledPlain` | the types, `ResolvedIsTrue`, `InvitedOnce`, `ConnectedShown`, `UncleanRemembered`, `LastViewWins`, `OneSubscription`, `AboutThisRoom`; `InviteSettles`, `StuckDevicesGo`, `NavigationSettles` under fairness | hold |

The type invariants of `MultiInviter`, `JitsiCall` and `RoomViewStore` are
checked by `room_parts`; those of all ten components are proved (section 4).
Deadlock is checked for the session lock, where a tick is always possible; the
other systems really stop when their bounded inputs are used up.

**Bounds, and why they suffice.** Every bound is a constant or a field of
`scenario` and a conjunct of a guard.

- *Session lock*: a third tab is what it takes for one tab to remove the ping of
  another while a third looks at the lock. Time is a count of ticks; an expiry of
  3 and services at most 2 late leave room for the last ping and the expiry to
  race by one tick in either direction. The proofs cover every number of tabs
  and every timing with `MaxGap < Expiry`.
- *Event index*: the rooms do not share state but for the queue, and one room
  already has several checkpoints in it (backward, forward, and that of a gap).
  Four events are what the loss of `event_index_caught_up` needs (with three it
  does not happen), so `Crawl` has four. Failures are checked with three events,
  and together with a reload with two.
- *Broadcast*: three slots allow two calls that race and a reconnect; the known
  losses and duplicates need one or two chunks.
- *Echo*: three changes allow a late answer for the first after the third was
  made; two failures allow both requests of a change to fail, or both of two
  runs; two resends let a second run of a change begin before the first resend
  has settled.
- *Voice messages*: three messages are what a cycle of the order needs besides
  the one that plays; four clicks leave one for each message and one to come
  back. `Visit` puts a text between them, where autoplay has to stop.
- *Reminders*: two sessions, one old and one new, or one that changes while the
  other stays; two rechecks are what it takes for one to overtake the other, and
  a third would only wait.
- *Invitations*: the lists repeat an address, start or end with an invalid one,
  or have an order that is not that of the set; two rate limits let an address be
  tried three times, or two addresses twice.
- *Calls*: two devices of one user share the entry; two starts let a call be
  joined again with what the first one left behind; one failure, two crashes.
- *Navigation*: three views in a row, of which each may overtake the one before.
- *Beacons*: two rooms for a beacon that joins and one that ends; four events
  let a beacon be created and replaced or stopped next to another one. A created
  beacon meets any two incidents, or two of them any one, and the theorems hold
  for any number; two failing requests are what the code counts as an
  error. `beacon_live` leaves other incidents out (`LiveNext`, which is `Next`
  without the actions that its bounds disable): each of them is a way to end
  without a location.

**Fairness.** A browser settles a request, runs a timer and delivers an event at
some time; that, and nothing else, is assumed, by weak fairness of the actions in
`Fairness` of each module: timers, storage events and callbacks of the session
lock; requests, handlers and syncs for the event index; answers and reconnects
for the broadcast; requests and echoes for the local echo; requests, `/sync`,
the browser's first position, its interval and `getCurrentPosition` for beacons.
`MultiInviter`, `JitsiCall`, `RoomViewStore` and `PlaybackQueue` each have one
progress action (`VoicesProgress` for the last), the disjunction of what settles
by itself: answers and timeouts (and the user's answer to a modal dialog) for invitations; the
homeserver's answers, `/sync` and time for calls; the dispatcher's timeouts and
answers for navigation; settled audio calls, decoding and the end of a sound for
voice messages. Weak fairness of it assumes only that the system does not stop
while one of these is due, and is therefore weaker than fairness of each.
No fairness is put on users, other devices, failures, closes, crashes and
reloads. In modules with scenarios the fairness is conditional on
`scenario.fair`, and so is the liveness property, so that scenarios meant for
safety need not be fair. A request that fails or succeeds is one fair choice:
liveness never depends on success, but on the bound on failures.

## 4. What is proved

TLAPS checks the following for every value of the constants; the leaves use only
the modules' named assumptions (`SessionLockAssumption`, `BeaconAssumption`,
`EventIndexAssumption`, `InviterAssumption`, `EchoAssumption`, `ListenerAssumption`,
`RecordingAssumption`, `RoomViewAssumption`), which say that bounds are numbers,
that `None` is none of the values it stands in for, that an alias belongs to a
room, and the like. A theorem about a module with scenarios holds for every set
of scenarios, that is for any number of calls, failures and reconnects.

`SessionLockProofs`:

- `TypeCorrect`: `Spec => []TypeOK`.
- `Invariance`: `Spec => []IInv`, if `Timely == ~BFCache /\ MaxGap < Expiry`.
  Mutual exclusion alone is not inductive: nothing in it says why the lock looks
  taken while a tab runs. `IInv` adds that an active tab has its servicer running
  (`ActiveInv`), that a running servicer belongs to the active tab, whose ping is
  in storage and no older than the time since the servicer ran (`ServicerInv`),
  and that no page is frozen. The lemma `FreeMeansIdle` turns this into the
  reason why the protocol works: if the lock looks free, no tab is active, so the
  step that acquires it makes at most one.
- `Exclusion` (`MutualExclusion`) and `OwnRemoval` (`NoForeignRemoval`) from it.
- `Refinement`: under `Timely` the specification implements `TabLock`. Every
  step that acquires is `Arrive` or `Take`, every step that ends a tab `Leave`,
  and every other step changes neither the claim nor the set of active tabs.

- `Newest` (`NewestSurvives`) and `Overlaps` (`OverlapResolves`), for `Spec` and
  for `LogoutSpec`, without `Timely`: with a back/forward cache or late services
  two tabs do overlap. The invariant is `Informed`: a tab that runs while
  another's claim stands has the claim's event still to handle. When a logout
  clears the claim nobody is told, but two tabs that run only do so since one of
  them claimed after the other, which then has the event of that claim.

`OwnBeaconStoreProofs`:

- `TypeCorrect`.
- `OnlyOwn` (`OnlyOwnPositioned`), for every order of events and answers and any
  failures. The invariant `OwnInv` behind it: `localStorage` holds only ids
  created here, and every beacon in `liveBeaconIds` has its current event's id in
  the history of created ones.
- `Watches` (`WatchesWhileLive`).
- `EventsInOrder`: the events of a room that are to come have growing ids above
  the client's, no two rooms share one, and a client that has caught up has what
  the homeserver has; for every interleaving, reloads included.
- `CreatedShared` (`CreatedIsShared`), with the invariant `Sharing`: until the
  request that made an event is answered the event is to come (`Answers`), so
  that a stop that is answered prunes an older id, and an id is stored before the
  client sees its event; a beacon that is created waits for exactly one stop
  (`Stopping`); and a live beacon of ours is stored or about to be (`Stored`).
  `CreatedIsShared` speaks of runs in which no event overtakes its answer: the
  code does not know yet that such an event is ours, or prunes its id.

`RoomPartsProofs`, on inviting:

- `InviteInvariant`: `Spec => []InviteInv`, with `InviteInv` the conjunction of the types and
  of: no call is under way unless the series runs or the second invitations do
  (`Resting`); one address at a time is invited in a series (`OneAtATime`); only
  addresses that failed as unknown are invited again (`OnlyUnknowns`,
  `UnknownsFailed`); who is shown as invited has no call under way and was
  accepted, or was given up in the dialog (`InvitedRests`, `InvitedIsTrue`);
  invalid addresses are marked at the start (`InvalidMarked`); and everything
  before the next address of the series is done (`Reached`).
- `InviterTypeCorrect`, `ToldTheTruth` (`ResolvedIsTrue`) and `NobodyInvitedTwice`
  (`InvitedOnce`, an action property) from it. That the series skips nothing
  needs the least of the indices not yet done, and so the lemma `Minimum`.

`ClientPartsProofs`, on the local echo:

- `EchoInvariant`: `FailureReported` alone is not inductive, as a failure is told
  only to a context that listens. `EchoInv` adds that the context owns the
  transaction whose value is shown, listens to it until a run of it has
  succeeded, and has told of what it heard (`CacheHeard`), that it owns whatever
  it listens to (`HeardOwned`), and that every request belongs to a transaction.
  A cancelled transaction may fail late without a toast; it is never the one
  that is shown.
- `EchoTypeCorrect` and `Reported` (`FailureReported`) from it.
- `OneAfterAnother` and from it `ShownTruly` (`ShownIsTrue`), for changes one
  after the other. `ShownIsTrue` is about the end of it all, so the invariant
  `OneByOne` says what the requests under way are going to do. No
  transaction runs twice at a time (`OneRun`). While the one that is shown runs,
  every request is one of its present run, and whatever is left of them, in any
  order, leads the server to its volume (`Running`); this is where
  `setRoomNotifsState` computes a set of requests that do not disturb one
  another (lemma `Leading`). When it has succeeded the server has its volume, or
  had it until another device or a stale resend button changed it, and then the
  next echo clears it (`Succeeded`).

`VoiceBroadcastRecordingProofs`:

- `Invariance`: the types; waiting calls hold functions that fit them
  (`WellFormed`); and `Numbers`: a sequence number that is in the room, in
  flight, or held by the retry list, a waiting call or a reconnect's copy of the
  list, has been given and belongs to one chunk. `TypeCorrect` and
  `NumbersUnique` (`UniqueSequence`) follow, for any failures and any overlap.
- `SteadyInvariance`: where reconnects run alone and succeed, each chunk is in
  one place: in the room, with one call that works on it, or at one position of
  the part of the retry list that is still to do (`Whole`). The last may be in the
  room as well, if its answer was lost: what is to be sent again is then the very
  message that is there, with its sequence number (`Arrived`), and it is there no
  more often than answers were lost (`Copies`). A reconnect works on the first element of that part, while failures append to
  it (`Retrying`). `ChunksKept` (`SteadyChunkKept`) and `ChunksOnce`
  (`SteadySentOnce`) follow. The run `broadcast_lost` shows that the assumption
  is needed.
- `OrderlyInvariance`: where the user waits for each command and nothing fails,
  at most one call carries out a command, and where it stands says what the
  microphone does (`Commanded`, `Phases`). `Agreement` (`StatesAgree`) and
  `StoppedLast` (`StoppedIsLast`) follow.

`ClientPartsProofs`, on voice messages, for any messages, timelines and numbers
of clicks, mounts and visits:

- `VoicesInvariant`: the types, whatever the user does (`VoicesTypeCorrect`
  follows), and for a user who waits (`Waiting`) the invariant `WaitingInv`. What
  can be heard now does not say what will be heard, as a step only calls `suspend`
  and `resume`, which settle later. `WillPlay` therefore says of each message
  whether it plays when its calls have settled, and the invariant that at most one
  does (`OneWill`), with one call at a time under way for each (`Alone`); that a
  message that comes to its end is alone, so that the queue starts the next one in
  silence (`Ending`); and that nothing has been played before all is decoded
  (`Preparing`), so that the stop with which decoding ends is not taken for the
  end of the current message. The steps of the queue are a cascade of functions on
  states; the lemmas `PauseIs` to `EmitIs` say of each what it changes, up to
  `Reacting`: the queue rests, goes back to a position, or plays one message.
- `OneAtATime` (`VoicesInOrder`) from it. Where a message may be played while it
  is decoded, the invariant fails, and TLC finds two messages that sound
  (section 5).

`RoomPartsProofs`, on the navigation:

- `ViewInvariance`: payloads that wait are fit for what waits for them
  (`Payloaded`); with sliding sync the subscriptions are those of
  `subscribingRoomId`, from which the room that is shown does not differ
  (`Subscribed`); joins and replies are about the room that is shown
  (`Replying`, `Joining`, `Honest`). Where tasks do not pile up there is one in
  the queue at most, and a request to join is about the room shown (`OneTask`):
  without it the `join_room` that a view puts in the queue might meet a store
  that shows another room.
- `NavigationTypeCorrect`, `SubscribedToOne` (`OneSubscription`, at any time and not only
  when everything has been answered), `AboutTheRoom` (`AboutThisRoom`).
- `LeadsThere` and from it `ViewsFollowTheUser` (`LastViewWins`), for a user who
  waits for the lookup of an alias before going elsewhere: at any time exactly
  one thing leads to the room asked for last, the lookup under way, else the
  payload in the queue, else it is shown. An older view that sliding sync fires
  again while an alias is looked up does not disturb this, as the lookup ends
  after it.

`JitsiCallProofs`, for any devices and any number of starts, failures, crashes,
resends and departures:

- `Basis` needs no assumption on the scenario: the types, a call that knows a
  timer has one that runs (so `clearInterval` never counts below zero), and a
  client that is gone does nothing. `CallTypeCorrect` follows. An action on a call
  is a chain of changes of `connectionState`, each with its listeners (`SetState`);
  the lemmas up to `StopMessagingActs` say of all of them together what a device
  may send as it goes from one state to another (`Comes`): every update keeps the
  other devices, and a device that is in the call in the end has announced itself
  and listed itself last, or was in it all along.
- `CallInvariant`: `CallSpec => []CallInv`. `ConnectedShown` is about the end of
  all updates, so `CallInv` says what the updates under way are going to do. In
  serial scenarios one device at a time has some (`OneUpdates`). None of them drops
  another device that is in the call, and the last one of a device that is in the
  call lists it (`Announcing`); the device has a timer or is announcing itself,
  which is why the hour cannot pass (`Expire`). In steady scenarios nothing is sent
  after an announcement, so that it is still in force when `clean` or the resend
  timer reads the entry (`Steadily`); there is one start at a time, the timer
  runs exactly after the announcement, and `activeCallRoomIds` says whether the
  device is connected (`Calling`); and a device that is not in the call removes
  itself last, or has done so unless the setting or `clean` is still to
  (`Removing`).
- `InTheCallShown` (`ConnectedShown`) and `UncleanKept` (`UncleanRemembered`)
  follow. The proof corrected the model in three places. `Orderly` asked that a
  device knows the current entry only if there is another device; with that, one
  device alone was not serial. `ConnectedShown` was claimed for every serial
  scenario, and is wrong where a tab has crashed (section 5). `UncleanRemembered`
  had a bound on crashes that it does not need.

`DeviceListenerProofs`:

- `TypeCorrect`, for any number of rechecks that overlap, provided there may be
  one (`ListenerAssumption`). It holds because sessions are only ever added: what
  a recheck has read stays a set of known sessions.
- `ToastsTracked` (`SessionToastsTracked`), for rechecks in any order. The
  invariant `Tracked` counts the toasts that are about to be shown too.
- `RemindersAreCurrent` (`RemindersCurrent`) and from both `ToastsTrue`
  (`ToastsAreTrue`), where rechecks keep their order. The property is about the
  end of it all, so `RemindersInv` says what the latest recheck has read so far
  (`HasRead`), await by await: nothing of it has changed since, as every change
  starts a later recheck, and no earlier recheck touches the setup toast once
  this one has left it as it should be, as the earlier ones are further on
  (`Asked`). When it ends there is no other that could still show anything. Any
  recheck, and any toast of a session, may fail meanwhile; what the latest recheck
  has left undone is in `untold` and excepted until the next one starts. That
  old and new sessions are told apart rightly needs `StartKnown`: the sessions at
  the start are remembered before another one is downloaded, and before a
  recheck asks for them.

`EventIndexProofs`, for any rooms, lengths of timelines, batch sizes, faults and
reloads:

- `BasisHolds`, the invariant `Basis` that needs no assumption on the scenario:
  the types; saved, seen and sent events come in this order (`Order`); only
  events of encrypted rooms that exist are indexed, live or fetched (`Placed`);
  what each state of the crawler implies (`Loop`); and no checkpoint that is
  still to be stored is of a crawl that is already on its way (`Fresh`: tokens of
  different syncs and of different lives of the page differ, which is what `from`
  and `page` of a checkpoint are for). `TypeCorrect`, `Forgetting`
  (`NotForgotten`, an action property) and `RedactionReachesIndex`
  (`LoadedRedacted`) follow from it, the last with a strengthening that speaks
  also of what the crawler has filtered and not yet added (`Searched`).
- `WholeHolds` and from it `NothingIsLost` (`OrderedNothingLost`), for any mixture
  of crawls in both directions, live events, limited syncs, commits, redactions,
  closes and reloads. `NothingLost` says that a message is indexed or below
  a stored checkpoint; that is not inductive, since a crawl ends early when all it
  has fetched is indexed already, and gives up the rest on the ground that
  somebody else had it. `Sound` is what this ground amounts to, in one room and in
  terms of positions: below an indexed event every message is indexed, or a
  backward crawl that starts between the two will come to it, or a forward
  crawl will, with nothing in between that could stop it; the same below a live
  event that waits for its commit, where crawls that are about to be stored count
  too; and the same for all that need not be synced again. `Coverage` says that
  this holds of what the index has, and also of what it will have when the crawler
  has done what it is about to do (`View`): the crawler decides to trim or to store on
  what it has read, and other handlers run before it does. `Gathered` says that
  what it holds then are all the messages of a stretch of the room, and `Kept`
  that two crawls of one room are never the same one, and that the queue in
  memory has each stored checkpoint once.
  The lemmas `Weaker` to `Seeded` are about sets of numbers only: each says that
  one kind of step (a message is sent, seen, committed, fetched, ...) keeps `Sound`.
  `CoverageStep` maps every action to them; `Shares` and `StaysCovered` handle the
  rooms an action does not touch.
  `Undisturbed` lists what is assumed, and the code needs each of it: without
  `inOrder` `event_index_caught_up` is a counterexample, without `~endInSetup` the
  seeding is cut short, without `calmStart` a gap of one room keeps the others from
  being seeded (section 5); 403 answers give a crawl up on purpose.

Only model-checked: all liveness properties (fairness and `ENABLED` are out of
the prover's reach). Every safety property of the passing runs has a theorem.
`PartsTypeOK`, the conjunction of three type invariants for the run `room_parts`,
has no theorem of its own: each conjunct has (`InviterTypeCorrect`,
`CallTypeCorrect`, `NavigationTypeCorrect`).

## 5. What does not hold

Where the code falls short of what it says, the properties above carry an
assumption, which each names. The first four are runs; the others were seen with
the same modules when the assumption is dropped.

- *Session lock and storage* (`session_logout_exclusion`). `clearStorage`
  empties `localStorage`, the lock's items included, while the tab runs on: the
  next tab finds no ping and starts next to it. In the same way a tab that waits
  for the lock finds its own claim gone and gives up, so that no tab is left.
- *Event index, caught up* (`event_index_caught_up`). `onSync` commits the live
  events that have arrived, while handlers of earlier ones still wait. After a
  reload the same events come in a limited sync; its crawl meets the committed
  event first, takes it for having caught up, and the ones behind are never
  indexed.
- *Broadcast, lost chunk* (`broadcast_lost`). `onReconnect` ends with
  `this.toRetry = toRetryCopy`, and functions that `callWithRetry` pushed to the
  old array while it ran are gone.
- *Echo, hidden failure* (`echo_hidden`). One of a change's two requests fails;
  the echo of the other alters the volume, which the chamber takes for the echo
  of the whole: the failed transaction and the toast go.
- *Session lock and a holder that does not stop.* If `onNewInstance` rejects or
  never settles, the interval of the holder goes on pinging (line 197) and the
  tab that waits for it waits for ever; `ClaimantProceeds` excepts a wedged tab.
- *Session lock and the back/forward cache.* A page that comes back runs
  `releaseLock` for a claim it missed and removes the ping of the tab that took
  the lock meanwhile; a third tab finds the lock free.
- *Event index, stale batch.* The crawler filters redacted messages when they are
  decrypted, then awaits a `deleteEvent` for each redaction of the batch
  (lines 591–601) and only then adds the rest. A redaction that comes
  meanwhile is undone by the add, with no failure and no reload. `overtaken`
  remembers these messages and `LoadedRedacted` excepts them, and no others.
- *Event index, events before the first sync.* The listeners are registered by
  `init`, before the sync that catches up after a start. If that sync is limited
  in one room, `onTimelineReset` stores a checkpoint; then `isEventIndexEmpty`
  (line 184) is false, and on a first start the other rooms, and what is older in
  this one but for the crawl of the gap, get no initial checkpoint
  (`calmStart`).
- *Event index, close during set-up.* The handler of the first sync goes on after
  `close` and starts the crawler on the closed index.
- *Event index, seeding.* A reload during `addInitialCheckpoints` leaves a
  non-empty index, so the rooms without a checkpoint are never crawled
  (`endInSetup`).
- *Broadcast.* A message that the server accepted and whose answer is lost is
  put on the retry list (lines 426-432) and sent again with a new transaction id:
  the chunk is in the room twice, with one sequence number. Two sync state changes
  in a row run `onReconnect` twice, which
  sends a message twice (`steady`). A later chunk whose upload ends first takes
  the smaller sequence number. A stop during a pause is followed by the paused
  info event; a recording that is destroyed while the microphone starts leaves it
  on (`patient`). An event that comes by `/sync` before the request is answered
  leaves `startBroadcast` waiting for the next state event of the room
  (`answerFirst`).
- *Echo.* Two changes without a pause may leave the server with the first one; a
  cancelled transaction that fails late is offered for resending next to its
  successor (`serial`). A second click on a resend button runs a transaction that
  runs already; when one run succeeds the listeners go, and a run that fails after
  that leaves the room with the choice that failed and no toast
  (`FailureReported` excepts it by `won`). After a failure `getValue` goes on to answer with the
  value that was not set.
- *Beacons.* If `/sync` brings a created event before the answer that names it,
  the beacon never counts as live here (`MaxOvertakes`). A stop whose event
  overtakes its answer prunes the wrong id. After a fatal geolocation error a
  beacon that joins before the others have ended is neither stopped nor watched
  for. Error counts are kept by room and user, so a new beacon starts with its
  predecessor's errors and gets no location. A debounced position survives its
  watch and delays the first position of the next.
- *Invitations.* If one of the invitations "anyway" is refused for good,
  `Promise.all` (line 336) rejects and nobody catches it: the promise of `invite`
  never settles (`refused`). The same holds of a click beside the dialog about
  unknown profiles: `Modal` closes it, neither of its callbacks is called, and
  lines 345–358 do not wait for its end (`phase = "closed"`). `InviteSettles`
  excepts both. `cancel` returns at once unless `busy`, which only a
  failed invitation sets (line 307); nothing under `src/` calls it.
- *Calls.* A hangup in the lobby changes the connection state, which
  `performConnection` takes for the end of its wait: `start` goes on and reports
  the call connected without a conference, though the comment at lines 627–630
  says otherwise (`steady`). If the call is left while `addOurDevice` is under
  way, the interval that renews the entry is set afterwards and nobody clears it:
  the device is listed again every 45 minutes. `CallStore` clears the setting of
  connected calls before the server has the cleaned entry, so a crash in between
  leaves the device listed until the entry expires. A disconnection that fails
  leaves "disconnecting", in which later hangups are ignored. If a tab has crashed
  in the call, the `clean` of a client that shows the call removes its device from
  the entry known by then; a client that has announced itself meanwhile, but has
  not seen its own entry, drops itself in this way (lines 440–460, 586–588) and is
  not listed until the next turn of its timer. Two devices that
  update the entry at the same time overwrite each other (`serial`).
  `JitsiCall.destroy` adds a listener where it should remove it (line 568); it is
  not modelled (section 6).
- *Navigation.* A lookup of an alias that is answered late pulls the user back to
  the room (`patient`). The home page does not reset `subscribingRoomId`, so a
  subscription that is confirmed afterwards shows its room. With sliding sync two
  rooms that are viewed before the first payload is handled take turns for ever
  (`prompt`). `joinRoom` joins the room that is shown when its payload is handled,
  not the one whose button was pressed.
- *Reminders.* A recheck that overtakes an earlier one is undone by it: a setup
  toast comes back after everything was set up (`inTurn`). A session that is
  downloaded before the awaited snapshot is taken counts as an old one and gets
  no toast of its own. A recheck that survives `stop` sets
  `ourDeviceIdsAtStart` to the empty set, so that after the next login every old
  session has a toast of its own. `showToast` awaits the details of a session;
  if a later recheck hides the toast meanwhile it appears all the same, and
  nobody hides it (`prompt`). Two rechecks that overlap where a secure backup is
  required both open the dialog. An error of any await ends a recheck (line 287)
  and nothing asks again, so a due toast is missing and a stale one stays until
  something else changes; a toast whose `getDevice` fails is missing likewise; and
  when an access to secret storage ends without having changed anything, the toast
  that it held back is not shown (`untold`). If the snapshot of
  `onWillUpdateDevices` fails, the new session counts as an old one (a scenario
  with `inTurn` has no such failure).
- *Voice messages.* A click on another message in the last moment of the playing
  one makes both sound (`patient`). Every stop counts as the end of the message:
  a message that is autoplayed while it is decoded, or the current one if it is
  mounted again, loses its position, counts as heard and is skipped (`decoded`,
  `mounts`). If the user has just clicked another message, the queue plays
  the next one beside it: 1 ends, 2 is autoplayed while it is decoded, 1 is
  clicked again, and before it starts 2 is decoded, counts as heard, and 3 plays.
  Going back and forth between two messages replays what was heard.
  `destroy` removes the listeners before the stop that the comment at
  `PlaybackQueue.ts:203` relies on, so positions are not stored on unmounting.

## 6. What is not modelled

`PROJECT.json` lists each component with its status and reason. Outside for
good: rendering and layout, text processing, the crypto and widget SDKs, which
are not in the repository. Within the modelled components: search and statistics
of the event index, the remaining time and sounds of a broadcast, `EchoStore`'s
toast (it follows `contextState`), room membership and the labs flag of the
beacon store, Element Call and the layout of calls, threads and knocking in the
navigation, and the view of a room that was just created, whose payload says that
the user is joining (`RoomViewStore.tsx:466`), the client information and the check of the key backup in the
reminders, the recording of voice messages.

Three details of calls are left out. Leaving the view of a call that is not
connected destroys it (`CallView.tsx:55-58`), and coming back while its `start`
still waits for the widget makes a second one, which `destroy` then gives a resend
interval of its own (`Call.ts:568`): `StuckDevicesGo` does not speak of that.
`OnReady` finds the current entry, though a client is ready when a cached sync has
been loaded. `getDevices` in `clean` (line 442) does not fail. Two of voice
messages: seeking in a playing message suspends its `AudioContext` and resumes it
later without an event (`Playback.ts:295-298`, `326-328`), and large files play
in an audio element (line 234).

## 7. Plan

In this order; each item is a module with its properties and, where it is
short, proofs in a module of its own.

1. An abstract index (what is in it, what is still owed) that `EventIndex`
   implements, and an abstract switch that `EchoChamber` implements for serial
   changes.
2. `VoiceBroadcastPlayback` with its stores: chunks that arrive while others
   load. Reading it shows that a pause or a stop during a load is overwritten by
   its end, that the Stopped event of an old chunk makes a restarted playback
   skip one, and that `doSkipTo` removes a listener that was never registered.
3. `LegacyCallHandler`, `ReadyWatchingStore` and the rest of the dispatcher:
   handlers that overlap over awaits while the client is replaced.
4. `Modal` and `SettingsStore`: sequential state with callbacks.
5. The importance algorithm of the room list and the closure of spaces, as
   operators against reference definitions.
