# A verification project for Nostroots

Nostroots puts notes on a map. Users publish them to a Nostr relay from the
app; servers check that their authors own Trustroots accounts and publish
checked copies; a daemon notifies subscribers. This directory holds TLA+ models
of the services that make those promises, the TLC runs that check them and the
theorems TLAPS proves about them. Paths below are relative to the repository.

## 1. Inventory

| Component | State it keeps | Operations | What makes it hard | What makes it correct |
| --- | --- | --- | --- | --- |
| `nr-bridge` links an account to an npub | Deno KV: one token request per username, rate counters per window; MongoDB: `nostrNpub` | `POST /verify_token`, `POST /authenticate` | concurrent calls, compare-and-set loops with bounded retries, expiry, a call lost at any await | no submission is compared before it is counted; e-mails stay within the limits; requests live once; only a counted match links |
| `nr-server` validates and reposts (AMQP mode) | the durable queue `repost`, the relay's 30398 events, trustroots.org, one note in progress | deliver, query profiles, ask NIP-05, repost, refuse, answer a ping, ack | prefetch of one, publication without waiting, redelivery after a crash, links that change meanwhile | nothing leaves the queue undecided; every copy is vetted; a place shows the note processed last, the newest if they came in their order; everything is decided |
| `nr-relay` + `nr-relay-to-rabbit`, the relay's write policy | lines on the plugin's input, one HTTP post at a time, the exchange | read, post, publish, answer, give up after 5 s | a handler that outlives the plugin's patience; the servers' own events take the same way | what the relay accepts was published, nothing is published twice |
| `nr-server` subscribe mode, metrics | last timestamp seen, subscription, a queue of three; `isPublishing` | resubscribe hourly, process, page through copies | overlapping windows, page boundaries | no gap between windows |
| `nr-notification-daemon` | filters and tokens per pubkey, a cache of usernames; a durable queue | load from relay, consume, match, look up the author, push, answer a ping, ack or requeue | two sources of subscriptions, handlers nobody waits for, state read on both sides of an await, requeue for ever, restarts that forget all | a push was asked for and bears only a confirmed name; nobody who asked is passed over; every note is settled |
| `nr-app` event store and relay subscriptions | events by storage id and their persisted copy, recorded queries, calls that wait for the connection | add events, flush, persist, start subscriptions, connect, lose the connection, restart | versions in any order, a debounced saga, requests nobody closes, until the relay refuses more | the newest version heard stays; no recorded query is forgotten but by a lost connection or a full relay; known authors are asked for |
| `nr-app` synchronisation of subscribed places | tokens and filters, an encrypted backup | register, subscribe, merge the echo | echoes of one's own events | local changes are not undone |
| `nr-app` NIP-07 bridge of the browser | requests that wait by site and method, the prompt, permissions in AsyncStorage, the WebView's address | ask, serve, wait, allow once or always, deny, navigate, revoke | requests, taps and navigations between awaits; a list that is read, awaited and written | each request is answered once, none without consent, none forgotten |
| `nr-app` keystore, screens, services | keys | | user interface and platform calls | |
| `nr-monitor` | last status of each check, the last ping | check with retries, ping, compare, alert | state updated before the alert, an answer racing its timeout, answers to earlier pings | a daemon found well works; silence means nothing changed since the last telegram; rounds end |
| `nr-common` | none | schemas, plus-code helpers, `getNip5PubKey` | | |
| `nostr-ingestor` (`vibe/nip42relay/internal/bridge`) | a state file: last poll, sync token, what was posted; two loops | list commits, sync a room, publish, mark, save the cursor | publishing and marking are two steps; deadlines, crashes and errors at each; pages and limits | cursors never pass what was not posted; a second note needs a failure; messages arrive |
| `vibe/nip42relay` gateway, `vibe/push-notification-daemon`, `vibe/web`, `nr-push/relay2rabbit`, `development-utils`, ... | | | older, experimental or user interface | |

The components meet in few places. An event reaches `strfry`, whose plugin posts
it to `nr-relay-to-rabbit`, which publishes it to a fanout exchange before it
answers; `nr-server` and the daemon each have a durable queue bound to the
exchange. `nr-server` publishes back to the same relay. `nr-bridge` and
`nr-server` share nothing but trustroots.org: the first writes the key the second
reads through NIP-05. The app and the daemon share the kind 10395 event. The monitor
sends its pings to the daemon as events, through relay and queue like any other, and
the answers come back over the relay.

The `hazards` of `PROJECT.json` list what is hard to test in this code, each at
its line, with the property that covers it or the reason none does yet.

## 2. What is modelled

### TokenVerification (nr-bridge)

One action per stretch of code between two awaits, so that TLC and the proofs
see every interleaving a Deno process can produce.

| TLA+ | Code |
| --- | --- |
| `pending` | KV `["tokenRequests", username]`; the id of a request is its position in `issued` and stands for its UUID and its token |
| `slots` | the three families of KV rate counters, the window part of the key |
| `npub` | `users.nostrNpub` |
| `call[c]` | where call `c` stands and its locals: `key`, `seen` and `tries` of `reserveSlot`, `entry` and `tries` of `reserveVerifyAttempt` |
| `issued` | history: every request created, with the reservations that paid for it |
| `SlotRead`, `SlotCommit`, `SlotLost` | the loop of `reserveSlot` (`nr-bridge/src/db/kv.ts`) |
| `VerifyToken` .. `SendEmail` | `handleVerifyToken` (`routes/verifyToken.ts`) |
| `Authenticate` .. `Cleanup` | `handleAuthenticate`, `reserveVerifyAttempt`, `setNpubForUsername` |
| `KvExpire`, `Abort`, `Tick` | KV's expiry, a rejected await (or the death of the process, call by call), the clock |

`atomic().check(entry)` compares versionstamps; the model compares the entries,
which is the same as long as no two writes at a key write equal values: a new
request has a new id and every other write increments a counter. A code is one
of a few values, so two requests may share one; a token is the id of its request.

`LinkLedger` is the abstract specification: requests are issued and closed, a
submission is counted and buys a credit unlike any other, a link spends a credit
of that account. `KeepsLedger` is `TokenVerification` read as a `LinkLedger`.

### RepostServer (nr-server, AMQP mode)

RabbitMQ returns an unacknowledged delivery to the head of the queue and the
server takes one at a time, so `queue` is a log with the cursor `acked`.
`server` says where `processQueueItem` stands; `wire` holds the copies sent and
not answered (`publishEvent` is not awaited, `validation/repost.ts:194`) and
`awaited` those whose promise belongs to the running process; `copies` is what
the relay shows at each address. `Throw` is the `catch` of `consume.ts:101`,
which neither acknowledges nor rejects; `ConsumeFails` that of `consume.ts:106`, where a
failed connect or consume is logged and the process stays, taking nothing; `Disconnect` a
connection lost between two deliveries; all three lead to `stalled`. `Bounce` is the unhandled
rejection that ends the process, as often as the relay refuses; `Crash` any other end. The relay's
replacement rule
(`MayReplace`, `MayStay`), the profiles, trustroots.org and the clock are modelled
from how the code uses them. A late answer to a profile query is an empty one.

A copy is dated when it is made, not when its note was. So a place follows the order in which
notes were processed (`LastProcessedWins`), and an older original that comes to the queue after
a newer edit takes its place, although notes are addressable events (`docs/Events.md:17`) of
which a relay would keep the newer. `NewestWinsInOrder` says what is left of "the newest wins":
where the notes of a place came in the order of their `created_at`, it shows the newest.

`VettedLayer` is the abstract specification a client that filters on kind 30398
relies on; `CopiesAreVetted` is the refinement. It says what the code and
`docs/Events.md` say and no more: a copy stays when the link is withdrawn.

### RelayIngest and RepostPipeline

`RelayIngest` is the Go plugin with its five-second client and the handler it
posts to, which goes on after the plugin gave up. What `main.ts:71` of `nr-relay-to-rabbit`
publishes is taken to be routed: the channel has no broker confirms, and a broker that ends with
a message in its socket is not modelled. `RepostPipeline` composes it with
`RepostServer`: the server's queue is the exchange's log, the server's copies are
submitted as lines like anybody's events, and the plugin's verdict is the answer
the server's publication gets. It has no state of its own. `ServerView` checks
that the composition implements `RepostServer!Spec`: what that model assumes of
its surroundings is what the ingest path provides. The refinement needs the states the
program can be in to be told apart from those it cannot: `PipelineAssumption` says that
the server's echo is one of its `Others`, which `MCRepostPipeline` has always had.

### NotificationDaemon and PushLedger (nr-notification-daemon)

The queue is a log with the cursor `done`, as in RepostServer. `filtersOf` and
`tokensOf` are `SubscriptionStore`, `named` is `usernameCache`; `loads` holds the
stored requests whose `onevent` handlers are still decrypting, which may write to
the store (`LoadApplied`) long after `EndOfStored` and `StartConsuming`. `pairs` and
`outbox` are the locals of `matchAndNotify` across its awaits: the filters are read in
`DeliverEvent`, the tokens in `Notify`. A failed push is only logged (`PushEnds` takes any
subset of the tokens). A look-up has four bad ends: the relay that has the profile is not
reached, and the note returns to the queue (`ResolveFails`); there is no profile, and the push
bears no name (`ResolveNobody`); the name is false, and the note is dropped (`ResolveMismatch`);
`trustroots.org` is not reached or answers no JSON, which `getNip5PubKey` turns into `undefined`
(`nr-common/src/utils.ts:311`), so that `profiles.ts:49` takes it for a false name and the note is
dropped and acknowledged too (`ResolveUnanswered`). The last is a loss for want of an answer;
`AskedNotesWereAttempted` excepts it by name (`unanswered`) and shows that it is the only one
besides a crash. `Forget` is what every end of the process does.
The relay's replacement (`StoreRequest`) comes after the routing to the queue and goes by
date, which the daemon does not: `NotificationDaemonStale.cfg` shows what follows.

`PushLedger` is the abstract specification: requests, confirmations, and pushes that a
user asked for, to a phone that user gave, under a name that was confirmed.
`KeepsTheLedger` is the refinement.

### Monitor and MonitoredDaemon (nr-monitor)

`Monitor` is `runLoop`: the checks of a round run side by side, each with its attempts
(`ServiceFails`) or its ping (`SendPing`, `HearAck`, `PingFails`); `FinishRound` is
`updateState`, which remembers before anybody is told; a telegram arrives or its failure
is logged. `MonitoredDaemon` composes it with `NotificationDaemon`: `PingIsSent` posts the
ping to the daemon's queue, or the relay does not take it; `AckIsHeard` hands on an answer
in `pongs`, of whichever ping. It adds no variable to the two.

### Ingestor (vibe/nip42relay/internal/bridge)

Two loops side by side on one state file. One action per call that can fail
(`runGitHubOnce`: `StartPoll` .. `SavePoll`; `runMatrixOnce`: `Sync` .. `SaveToken`); any
failure, the deadline too, ends the run where it stands (`GitHubFails`, `MatrixFails`).
A commit has a date and comes to the branch at any time after it (`Push`); GitHub
lists the newest `PerPage`, Matrix shows the newest `Limit`. Messages are numbered in
their order and a token is the number it is past. `overlooked` records what the sources
did not show to a run that could have asked for it, and `mishaps` the failures after the
relay took a note: both are what the properties except, by name.

`Forwarder` is the abstract specification of a loop: it posts at least once what came, in
any order and again after any failure, moves its saved mark on over what was posted or not
shown, and never posts again what it was shown and the mark is past. `BranchIsForwarded` reads the GitHub loop
as one (the mark is `lastPoll`, and a commit pushed with a date behind it is one the loop was
not shown), `RoomIsForwarded` the Matrix loop (the mark is `since`, and `Preflight` is where it
begins). The safety invariants of the loops speak of a state; `Forwarder` adds what a step may
do, so that a run which posted what an earlier one passed is caught though nothing is lost.

### BrowserBridge (nr-app/src/browser)

`stage` and `key` of a request stand for its place in `pendingMessagesByPermission` or in
a call of `handleMessage`; `tap[t]` is a call of `allowPrompt`, which several taps
can run at once since the prompt stays while the permission is stored. The prompt is three
variables: `prompt`, React's state, which the handlers set and `setPermissionPrompt` reads;
`shown`, what was rendered last (`Render`), which the user sees and taps on; and `promptRef`, which an
effect sets after that (`KeepPrompt`) and which `handleNavigationUrlChange` reads. A navigation that
comes between the first and the last denies the requests and leaves their prompt: `overtaken`
records it, and `PromptsAreAboutRequests` shows that nothing else leaves a prompt about nothing.
The origin a request is charged to is `nativeEvent.url ?? currentUrlRef` (`Send`): that of the page or,
where the event bears none, that of the address reported last, which may be another's. What the
user allows is therefore said of the origin that was charged. `list` and `revoke`
hold what `rememberOrigin` and `revokeOrigin` read before they write. The `Map`'s order is
left open (`ShowNext`). `hidden` records the requests whose prompt a navigation took away
while they, of the site arrived at, wait on: `setPermissionPrompt(null)` shows no other,
and a later request, tap or navigation may or may not bring it.

`Permission` is the abstract specification: a request is asked, allowed or denied once, signed
only after it was allowed, and allowed only if its site is trusted or the user allowed that method of
that site, which nobody offers him unless some page asked for it. `KeepsConsent` is the refinement;
it is stronger than `AnsweredOnce` and `ConsentCoversSigning` together, since they do not notice a
verdict that is taken back, or a permission given for what nobody ever asked. The user may well
allow what nobody asks any more, on an old prompt: that the permission is then kept for
the next request is what the code does.

### AppEvents (nr-app)

`store` is the events slice, `disk` its persisted copy, `query` the recorded
subscriptions, `waiting` the calls of `subscribeToFilter` that wait for the one shared
connection, `open` the requests (REQ) of the connection. `AddEvent` is `addEventToState` and the
start of the saga's debounce. Nothing is ever closed: `startSubscriptionSagaEffect` calls
`stopSubscription`, which makes an action and dispatches none, and the `subscriptionId` that
`subscribeToFilter` passes on is not one of the parameters the library reads, so that each
call is a request with an id of its own (`Connected`). They accumulate until the relay has
`MaxRequests` of them (`maxSubsPerConnection` in `strfry.conf`) and refuses the next, which
nobody in the app hears (`refused`). `missed` records the ids whose last request failed to
connect or was lost. `SubscribeToUserProfiles` with nothing stored stops a subscription, which
throws and ends the root saga (`alive`).

Not modelled inside these components: the text and tags of events and e-mails,
`/health`, the metrics a service publishes before it consumes, a restart of the broker,
and RabbitMQ's own timeout for unacknowledged deliveries (a broker setting the
repository does not make).

## 3. What is checked

| Run | Question | Bounds |
| --- | --- | --- |
| `token_verification` | `TypeOK`, `EveryComparisonIsPaidFor`, `EmailsArePaidFor`, `RequestLivesOnce`, `KeepsLedger` | two calls, one account, two codes, 2 attempts, 1 e-mail per user and window, 2 in all, 1 guess, 2 tries per loop, clock to 2 with windows of 2 and requests that live 1 |
| `token_overwrite` | expected violation of `PendingIsNotReplaced` | two calls, no submissions |
| `repost_server` | `TypeOK`, `AckedIsDecided`, `LastProcessedWins`, `NewestWinsInOrder`, `CopiesAreVetted` | two items out of two notes for one place, with two dates, a ping and an ignored event; clock to 1, one crash, one error that stalls, two keys, one username |
| `repost_stall` | expected violation of `EverythingIsProcessed` | one note, one error that stalls, no crash |
| `repost_lost` | expected violation of `VettedNotesAreCopied` | one note, one crash, no thrown error |
| `repost_pipeline` | `AcceptedNotesAreKept`, `ServerView`, `AcceptedNotesAreDecided` | two lines, one note, one ignored event, one crash, one error that stalls |
| `notification_daemon` | `TypeOK`, `AskedNotesWereAttempted`, `KeepsTheLedger`, `NotesAreSettled` | any three of three requests, two notes of one author and a ping in the queue, besides the answer to the ping; two users with a phone each, one of them with two filters for one note and a later request that gives no phone; one crash, any number of failed starts, look-ups, outages and pushes |
| `daemon_stale_request` | expected violation of `ServesStoredRequest` | one user, two requests, the later one with the earlier date; no crash |
| `monitored_daemon` | `MonitoredTypeOK`, `WellMeansDrained`, `SilenceMeansTold`, `RoundsEnd` | two rounds, one service with 3 attempts, two pings, one restart of the monitor; nobody subscribed |
| `ingestor` | `TypeOK`, `PassedIsPosted`, `PolledIsPosted`, `RepeatsNeedAMishap`, `BranchIsForwarded`, `RoomIsForwarded`, `MessagesAreBridged` | one commit, a room of three messages, two of them of others, two shown at a time, two instants, one failure after a note was taken, any number of others |
| `browser_bridge` | `TypeOK`, `AnsweredOnce`, `ConsentCoversSigning`, `PromptsAreAboutRequests`, `NobodyIsForgotten`, `KeepsConsent`, `LiveRequestsAreAnswered` | two requests, two sites, one method, two taps, one load, one `rememberOrigin` at a time |
| `app_events` | `TypeOK`, `StoreHoldsNewest`, `QueriesAreServed`, `AuthorsAreCovered`, `AuthorsAreSubscribed` | two versions of a note, another author's note elsewhere, his profile, a server message; a relay that allows three requests, two calls waiting, one restart |

**Why the bounds are enough.** Two calls are the smallest number that race for a
compare-and-set, and each race in `nr-bridge` is between one writer and one stale
reader; two tries show both the retry and the giving up; a clock of two ticks
crosses a window boundary and outlives a request, with a boundary instant on which the
two readings of "expired" differ. Two items in the queue let one copy be under way
while the next is processed, and one crash lets a note be reposted twice; the
second instant separates copies of one second from copies of two. Each limit is reached and
refused but for the global cap on e-mails, which one account never exhausts; `EmailsPaidFor`
covers it. `MaxQueue`, `MaxLines` and
`MaxNow` stop arrivals and the clock, `MaxCrashes` counts the ends from outside and `MaxThrows` the
errors that stall a process, each a step of its own; the other steps of the code, the end by a
refused copy (`Bounce`) among them, do not look at them, but for `MaxNow`, which also
says how many rate windows there are, and for `PingAnswered`, whose OK is lost only while the
queue has room for one ping more.

One crash of the daemon with one request still loading is the case its properties except
or survive; three items are the least in which a request is stale or late when a note comes, two
filters for one note the least that makes two calls for a user, and a second note of an
author finds his name in the cache. A request without a token comes after one with a token, which
stays. Two pings tell an
answer from a late one. Three messages with two shown at a time overflow the sync; one commit
with two instants is pushed before, during or after a poll, with a date on either side;
the page overflow is not reached with one commit, but the theorems cover any number. A run that
fails to read its state looks back a fixed time instead: a commit it is not shown for that counts as
`overlooked` and is excepted, like one dated before the last poll.
Two requests and two taps bring each pair of the bridge's awaits into every order; one load
that is committed or stopped is a navigation there and perhaps back, each before or after a
rendering and its effect. Two waiting calls are the least that can overtake each other, and
a relay that allows three requests is full after the map has moved twice. Versions of one second
are two in the code's eyes as in `StoreHoldsNewest`, which is satisfied with either: the code keeps
the one it heard first.
`MaxLoads`, `MaxRoom`, `MaxMishaps`, `MaxWaiting`, `MaxRemembering`, `MaxKills` and `MaxRestarts` are
again bounds of the surroundings or of faults; `MaxRequests` is none, it is the relay's limit.

In `repost_stall`, `repost_lost`, `repost_pipeline`, `notification_daemon`, `daemon_stale_request`,
`monitored_daemon`, `ingestor` and `browser_bridge` the system comes to rest when lines, faults
and time run out, so deadlock is not checked there; in the others it is, since a profile can always
change or a call begin.

**Fairness.** The safety properties assume none. `RepostServer!FairSpec` and
`RepostPipeline!Spec` assume weak fairness of the server's own steps (the event
loop runs what is ready), of its restart (somebody restarts the container; the
repository does not say who), of the relay's answer (or the loss of the
connection, which rejects the promise too), and of the plugin and the handler
it posts to. Weak fairness is enough because each of these steps, once possible,
stays possible until it or another step of the same process is taken.
`AcceptedNotesAreDecided` excepts what such fairness does not exclude: a server that stalls for
good, not consuming or with a delivery it never acknowledges, which is the defect `repost_stall`
shows, and one that is ended again and again, each time before the note it copied is
acknowledged. The
counterexamples of `repost_stall` and `repost_lost` obey this fairness: the system
keeps running and still does not do what is documented.

`NotificationDaemon` assumes weak fairness of the event loop's own steps, and strong
fairness of what it asks of others (the end of the stored events, the broker, the relay with the
profile of an author): each can fail any number of times, the daemon is restarted or the
message returned at once, and one that is asked for ever is in the end answered; any answer of
`trustroots.org`, or none, settles the note. A note for which the relay failed
always would hold up the queue for ever, which is what requeueing at once means and
`NotesAreSettled` does not hide: without strong fairness it fails. `Monitor` assumes that timeouts fire
and a fetch ends, nothing of the daemon. `Ingestor` assumes a restart and strong fairness of the calls of
the Matrix loop, which every tick tries anew. `BrowserBridge` assumes that each started handler
goes on, that React renders a changed prompt and runs the effect, and that a user who sees a
prompt answers it. `AppEvents` assumes that an attempt to
connect ends, either way, and that events pause for the five seconds of the debounce.

**Disagreements found.**

1. `README.md` of `nr-bridge` answers `409` when an unexpired request exists. Two
   concurrent calls both look before either writes, and `createTokenRequest` is an
   unconditional `set`: the second replaces the first and both e-mails go to the user,
   the first with a code that no longer works (`token_overwrite`).
2. An error thrown while a delivery is processed is logged and the delivery stays
   unacknowledged; with a prefetch of one the server is stuck while its
   process lives (`repost_stall`). A connect or consume that fails at the start, and a connection that
   is lost, end the same way, since the process stays.
3. A note that passed is acknowledged before its copy is known to have been taken; a
   refusal or a crash at that moment loses the copy for good (`repost_lost`).
4. A request for notifications is replaceable (`docs/Events.md`), so the relay keeps the one
   dated last; the daemon keeps the one it processed last, whatever its date. It serves a
   request the relay has discarded until it restarts, and then the other (`daemon_stale_request`).

Every property of a passing run has a mutant in `PROJECT.json`: a plausible bug in a
mapped definition under which TLC finds the property violated.

## 4. What is proved

Every theorem holds for any sets of calls, users, keys, notes, places and events and any
values of the limits and bounds that satisfy the assumptions the modules state
(`ConstantsAssumption`, `NoneAssumption` of TokenVerification and BrowserBridge; `ConstantsAssumption`,
`DistinctAssumption` of RepostServer and NotificationDaemon; `ConstantsAssumption` of
Ingestor; the four of AppEvents; `PipelineAssumption` of RepostPipeline and `MonitorAssumption` of
MonitoredDaemon; RelayIngest assumes nothing). They keep apart values the code keeps apart
(no ping is a status, no event is `None`) and ask limits to be numbers; none bounds a set or a
limit from above. TLC evaluates them in the passing run of each module. There is one lemma per action that touches
what an invariant speaks of, and frame lemmas for the rest.

**nr-bridge** (`TokenVerification_proofs`)

- `TypeCorrect`: `TypeOK` alone is not inductive, a call that commits must know that
  what it read was of the right kind. `TypeInv` adds `StageOK`: for each stage, which
  locals are set, that a counter about to be raised was read below its limit and an
  attempt about to be counted was read below the maximum.
- `ComparisonsArePaidFor`: the invariant is `CreditInv`, that is `HeldIsOwned` (every
  stored or held request was issued, to the account it is stored or held for) and the
  property itself. A compare-and-set that succeeds raises the stored count above
  every attempt held of that request; a new request has an id nobody holds yet; every
  other step lets go of requests and credits.
- `RequestsLiveOnce`: from `TypeInv`, since the only writes that leave something else
  behind are `CreateTokenRequest` and a compare-and-set that found what it had read.
- `LedgerIsKept`: the refinement. `CreateTokenRequest` is `Issue`, `AttemptCommit` is
  `Count`, the steps that delete are `Close`, a failed comparison or a lost call is
  `Forfeit`, `SetNpub` is `Link`, all else stutters. `CreditInv` gives what the abstract
  steps demand: the credit bought is new, the one spent is the call's alone.
- `EmailsPaidFor`: `TicketInv` follows the slots from `reserveSlot` to the
  request: a call on its way to `create` holds the slots its stage has paid for, every slot
  granted is within its limit and at most the stored count, and no two holders share
  one. A commit grants count + 1, which is above every slot granted before.

**nr-server** (`RepostServer_proofs`)

- `ServerTypeCorrect`: `StageOK` adds that every stage between delivery and ack has a
  delivery in front of the cursor, which is a note where the code treats it as one.
- `NothingUndecided`: `Decided` adds that a note that rests or is being acknowledged is
  decided already, and that what is answered with a pong is no note.
- `LastProcessedIsShown`: `Ordered` says that stamps grow with positions (the clock does not
  run backwards, one delivery at a time) and that the relay shows the newest stamp it
  took at each place. A copy shown in place of a later note's then has the same stamp.
- `NewestInOrderIsShown`: `Faithful` adds that a copy carries the date of the note at its position
  and that what a place shows is a copy of one of its notes; positions in the order of the dates
  then turn "processed last" into "newest".
- `LayerIsVetted`: the refinement. `Repost` is `Vet`, `Land` is `Show` or a stutter,
  `Publish` is `Claim`. It needs that the name found in a profile was claimed
  (`NamesAreClaimed`) and that what is vetted and shown does not move as the queue grows.

**nr-relay and nr-relay-to-rabbit** (`RelayIngest_proofs`)

- `IngestTypeCorrect` and `AcceptedPublished`: `PublishedOnce` says that a handler's post
  is marked published exactly when its line is on the exchange, once, and that a verdict
  that accepts was given after that.

**The pipeline** (`RepostPipeline_proofs`)

- `PipelineIsServer`: the refinement. `PipelineInv` is the invariants of the two components
  over the shared variables, and that no more lines are submitted than the server's queue
  takes. `Publish` is `Arrive`, a verdict on a copy the server waits for is `Land` or `Bounce`, the
  server's own steps are themselves, and what else the plugin and its handlers do is a
  stutter. That there is room for what arrives is not in any guard: it is a count
  (`RoomToPublish`), since every published post is of a line of its own and the one that is
  being published is not yet among them.
- `PipelineShowsLast`, `PipelineIsVetted`: the server's own theorems, instantiated at the shared
  variables. That is why the refinement is worth having: nothing about the server is
  proved twice.
- `AcceptedAreKept`: RelayIngest's theorem gives that an accepted line is published once, the
  refinement and `NothingUndecided` that a published note behind the cursor is decided.

**nr-notification-daemon** (`NotificationDaemon_proofs`)

- `DaemonTypes`: `TypeOK` says for each stage what the delivery at hand is. It is inductive
  because the queue only grows at its end, so that `Current` stays what it was.
- `LedgerIsKept`: `LedgerInv` says that the store, the requests still loading, the pairs and the
  calls in flight go back to requests that were queued, and cached names to confirmations. A
  request once queued stays so; hence whatever was stale when it was used was at least asked
  for once. `PublishRequest` is `Request`, `ResolveConfirmed` is `Confirm`, `PushEnds` is `Push`.
- `AskedNotesReachTheService`: `AttemptInv` follows the one request of a user into the store
  (`Remembered`), keeps it there since no other request of the user is queued, and follows a
  note that matches through pairs and calls (`NoteAtHand`) to the calls made (`DoneNotes`). The
  exception is part of the theorem: a note whose author NIP-05 did not confirm, because the name is
  false or because `trustroots.org` did not answer.
  `NothingBefore` is why a first start that fails loses nothing.

**nr-monitor with the daemon** (also `NotificationDaemon_proofs`, which it builds on)

- `MonitoredIsDaemon`: sending a ping is the daemon's `Post`; every other step of the monitor
  leaves the daemon's variables alone. `MonitoredKeepsPromises` then follows from the
  daemon's theorems, without looking at a step again.
- `MonitoredTypes`, `WellIsDrained`, `SilenceIsTold`: the invariant is `MonitorInv`, of which each
  property is a consequence and none is inductive by itself. `RoundOK` says that a round that
  checks has a ping, and that an open check has attempts left. `PongsAreDue` says that every answer
  given is to a ping at the head of the queue or behind it, `WellMeansAnswered` that a check
  found well has its own round's ping among the answers: with only the first, an answer
  to an earlier ping could do. `ToldIsKnown` carries what was told through the round, when
  the results are not yet those that were compared.

**The browser bridge** (`BrowserBridge_proofs`)

- `TypeCorrect`: what several `allowPrompt` calls hold is disjoint and released; without that
  conjunct an answer could be given twice.
- `AnsweredAtMostOnce`: every step denies requests that wait, takes some from the map, moves one
  on, or answers one that was neither signed nor denied.
- `SignedWithConsent`: `ListsGranted` says that every list read, written or remembered holds only
  what was granted, whatever concurrent writes undo or bring back.
- `PromptsHaveRequests`, `WaitingIsShown`: inductive with `TypeOK`, by one lemma for each way a
  prompt goes (`Release`, `Navigate`, `ShowNext`). A navigation that reads an old ref leaves a
  prompt about nothing only of a site that is not the new one, which is what `overtaken` has.
- `ConsentIsKept`: the refinement of `Permission`. `Send` is `Ask`; `AllowOnce`, the tap of `AllowAlways`
  (which grants but allows nothing yet), the release after its list is written, and `Serve`, which finds
  a site trusted or a key stored, are `Allow`; what the user or a navigation denies is `Deny`; an answer
  is `Sign`; what concerns prompts and lists stutters. It rests on three invariants: what is
  released or denied waits (`TypeOK`), what the lists hold was granted (`ListsGranted`), and what
  is in the state, on the screen or in the ref was asked by some page (`PromptsAsked`), which an old
  prompt still satisfies.

**The app's store and subscriptions** (`AppEvents_proofs`)

- `StoreAndSubscriptionsTyped`, `NewestIsStored`: one event per address makes the comparison in
  `addEventToState` a comparison with everything heard there.
- `LastQueryIsServed`: `EndsWithQuery`, the last call that waits for an id has the query recorded
  for it; calls connect in their order, so the one that leaves none behind is served, or is
  refused by a relay that is full, or fails. Nothing closes a request but the end of the
  connection (`OpenNeedsConn`), so the relay stays full until then.
- `AuthorsAreRecorded`: a saga that rests has recorded a query for all who are stored, since each event
  that is added makes it due again, and nothing else adds an author while the process runs.
  With the former it is the safety half of `AuthorsAreSubscribed`: the rest is that the saga runs
  and attempts to connect end.

**The ingestor** (`Ingestor_proofs`)

- `NoMessageIsPassed`, `NoCommitIsPassed`: `PassInv` and `PollInv` say of a run under way that
  what it is about to pass is posted or still in its hands; saving the cursor turns the one
  into the other. `PollInv` goes by the marks, not the posts: whatever the last poll is past and
  the branch showed is marked, and a mark is made after a post.
- `BranchForwarded`, `RoomForwarded`: the refinements of `Forwarder`. Publishing is `Post`, which asks
  that nothing the mark is past be posted: a listed commit is not marked, hence not behind the
  last poll (`PollInv`); a message of a run comes after the token (`RoomInv`). Saving the cursor is
  `Pass`, a commit that comes with a date behind it is `Come` with the mark already past it,
  `Preflight` is the room's `Begin`, and all else skips or stutters.
- `RepeatsAreMishaps`: `RepeatInv`, a thing not marked was posted at most as often as steps
  failed after a note was taken, and a thing being marked once more.

## 5. What is only model-checked, and what is not modelled

Every safety property of every passing run is a theorem: invariants, action properties, and the
refinements of `LinkLedger`, `VettedLayer`, `RepostServer`, `PushLedger`, `Forwarder` and `Permission`. What is left
to TLC is the other kind. Liveness under fairness is out of TLAPS's reach with the backends
used here: `AcceptedNotesAreDecided`, `NotesAreSettled`, `RoundsEnd`, `MessagesAreBridged`,
`LiveRequestsAreAnswered` and `AuthorsAreSubscribed` hold on the instances of section 3 and no
more is claimed. Enabledness, and so the absence of deadlock, is TLC's too, and so are
the four expected violations, which need a witness and not a proof. Fairness is not refined
either: the refinements above are of the abstract safety specifications.

Not modelled, and why (`PROJECT.json` names every component):

- **User interface.** The greater part of the repository's lines is pages, screens, styles
  and assets: `vibe/web` and its examples (one bundled page of 20,000 lines among them), the
  extension and native apps under `vibe/`, and the screens and components of `nr-app`. They render
  state and call the functions whose effects are modelled here; their own logic is
  layout, wording and handlers that set a field. A model of them would restate
  the code line by line and say nothing a property could be about. This is why the lines
  mapped are a small share of the repository's, and most of those of its services.
- **Synchronisation of subscribed places** (`notifications.saga.ts`): the form, the
  encrypted backup and the echo are merged as data, and no document says which device wins.
- **nr-server's subscribe mode and metrics**: development only, and a statistic nobody reads.
- **The authenticating relay** of `vibe/nip42relay`: a proxy, sequential within a connection.
- **`vibe/push-notification-daemon` and `nr-push/relay2rabbit`**: variants of services that
  are modelled. The first differs in that one failed call to APNs returns the whole event to
  the queue, so that phones already told are told again.
- **nr-common**: schemas and plus-code helpers are pure functions on strings, which unit tests
  reach; `getNip5PubKey` is part of RepostServer.
- **Keystore and services of the app**: single calls to the platform.

What a continuation would add, in this order: an abstract specification of the app's store with
its persisted copy; a bound on how long a persisted profile goes without a subscription (a launch
asks for nobody before an event is heard); the merge of subscribed places with two devices once its intent is written
down, and the subscribe mode's windows.
