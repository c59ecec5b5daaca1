# Beacon Gateway: verification project

Beacon Gateway sits between a household's apps and its Frigate NVR: it signs
people in, mirrors Frigate's MQTT events, pushes them to phones, and serves
snapshots, clips and live views. This directory models its own logic in TLA+:
what its goroutines, its SQLite tables, its clip cache and its peers do to each
other. TLC checks small instances; TLAPS proves theorems for every instance.

    tlc -workers 2 -config signin_loads.cfg MCSignInLoads
    tlapm SignInProofs.tla

## 1. Inventory

Every part of the system, the state it keeps, what it does, what is hard about
it and what makes it correct. All state but the cache directory and two
in-memory caches is in one SQLite database behind a pool of one connection
(`internal/db/db.go:32`), so that a statement or a transaction is atomic and
anything longer is not. `beacon-admin` is a second process on the same file.

| part | state | operations | what is hard | correct means |
|---|---|---|---|---|
| accounts (`auth/store.go`, `auth/invites.go`) | `users`, `user_identities`, `allowed_emails`, `invites`, `user_cameras`, `refresh_tokens` | create with identity, link, scope, invite life cycle, delete with cascade | several statements per decision | rows refer to accounts that exist; an identity never moves |
| sign-in (`api/handlers.go`) | none of its own | look up identity, then email, then gate and create | two requests of one person or one invite, admin commands in between, failures half way | one account per person, single-use invites, scope before tokens, admitted people only |
| sessions and access (`api/handlers.go`, `api/hls.go`, `auth/middleware.go`, `auth/jwt.go`) | `refresh_tokens`, roles, scopes | refresh, revoke, access checks of lists, searches, cameras and live views | read and revoke are two statements; role and scope are two reads; a live view outlasts one check | a token is exchanged once; an answer shows what the person may see |
| admin CLI (`cmd/admin`) | the same tables | allow, revoke, roles, scopes, users | another process, several statements | as accounts |
| MQTT subscriber and dispatcher (`mqtt`, `cmd/gateway`) | broker session, handlers at work | upsert, prewarm, push | at-least-once, unordered, one goroutine per message, stops and crashes, deliveries before the subscription | what is acknowledged is stored, and every event is pushed, stops and failed upserts apart |
| event store (`events/store.go`) | `events` | upsert, pin, list | versions of an event race | a pin survives updates |
| push (`apns/sender.go`, `transport.go`) | `devices`, mutes | select, ask rules, deliver per platform, prune | long sequence of statements and requests over changing tables | the right people, nobody forgotten, live devices kept |
| notification rules (`notifrules`) | `notification_rules`, `notification_cooldowns` | filters, quiet hours, cooldown | read-then-write of the cooldown, fail open | one push per window |
| clip cache (`frigate/client.go`) | `<id>.mp4`, `.raw`, `.tmp`; singleflight map | fill, serve | shared fills, leaving callers, crashes between file operations | complete files, one fill per clip, everyone answered |
| clip pruner (`clips/pruner.go`) | none | list, look up, remove | races pins, fills and readers | what is pinned by the time it is looked up stays |
| camera health (`camhealth`) | `lastSeenUp`, `offline` | poll | time passes during a poll; failures | asymmetric debounce |
| relay registration, checkout (`api/handlers.go`, `api/checkout.go`, `apns/transport.go`) | `settings` | register in the background, read the token for each push, check out | two registrations race; a token is shown once and may be lost | a household that paid is served |
| token verification (`auth/apple.go`, `google.go`) | key cache | look a key up, fetch the set, check claims | overlapping fetches, an old answer after a new one | withdrawn keys die out, published ones are found |
| migrations (`db/db.go`) | `schema_migrations` | apply in order | two processes | each once |
| proxies, HLS, WebRTC, router, configuration, camera registry | none | pass requests on | - | - |

How they interact: sign-in, sessions, push and event lists share the account
tables; an MQTT message becomes an upsert, then a push (Push) and, at the end of
an event, a prewarm (Clips); the event's `keep_clip` is written by people and
read by the pruner; the API's camera list reads the monitor's tags.

## 2. Plan

Order of work, the most important behaviour first.

1. `Accounts` + `SignIn`, under three loads by `SignInLoads`, proved in
   `SignInProofs` - done.
2. `Push` with cooldown and both transports, proved in `PushProofs` - done.
3. `Clips`, with the abstract `ClipCache` it implements, proved in
   `ClipsProofs` - done.
4. `Ingest`, proved in `IngestProofs` - done.
5. `CamHealth`, proved in `CamHealthProofs` - done.
6. `Sessions`, proved in `SessionsProofs` - done.
7. `KeyCache` and `Relay`, composed in `OwnerSignIn`, proved in
   `OwnerSignInProofs` - done.
8. `NotifRules`: filters, quiet hours, clamping and normalisation as operators,
   against a reference definition; used by `Push`, proved in `NotifRulesProofs`
   - done.
9. `Gateway`: Ingest composed with Push and Clips through their common rows -
   not begun: the product of the three is out of TLC's reach unless each is cut
   down to what the others see of it.

Parameters are CONSTANTS with named assumptions, an operation is an action,
invariants are conjunctions of named parts; no module uses RECURSIVE.

## 3. The modules

**Accounts** is the account tables: one operator per statement or transaction of
`auth/store.go` and `auth/invites.go`, each leaving the tables it does not
mention. Accounts are numbered in the order of their creation (the code draws
uuids), which is what `ORDER BY created_at` needs. Deleting cascades as the
migrations' foreign keys do. `None` in a role is "no such row".

**SignIn** runs requests through `completeProviderSignIn`. `pc[r]` names the next
statement; each step is one statement with the code's decision on its result.
`StatementFails` ends a request with an error where the code does, a failed
allowlist, invite or count lookup is one that finds nothing, and the best-effort
writes of scope and redemption go on. `Restart` drops the requests at work.
Around them `Admin` runs the API's invite handlers and `beacon-admin`, one
statement at a time, `revoke` with its two. A provider token is its identity; its
email and whether the provider verified it are constants. `origin` and `granted`
are history.

**SignInLoads** runs SignIn under three loads, one of which is chosen at the start.
`quiet`: one sign-in at a time, and no statement fails but those that a key refuses.
`serial`: one at a time, but statements fail and the gateway restarts in the middle.
`busy`: SignIn as it stands. Under each the admin's commands come between any two
statements. The documents' promises are stated of the weakest load that still keeps
them. One account per person, one owner and answers for the bound account need only
that sign-ins do not overlap; single-use invites need in addition that the invite
just used can be marked as such, and scope before tokens that the scope can be
written, for both writes are best effort.

**Push** runs `SendToAll` for several events: `ListDevices` is its query,
`AskRule`, `ReadCooldown` and `RecordCooldown` are `Allows` (with `NotifRules`'
`staticAllows` of the rule stored then, at the minute of the day) and
`touchCooldown` for one user after another, `Deliver` one platform's request in
any order (a Go map), `Prune` one `DELETE` each. `Change` is what apps and admin
do meanwhile, a rule sent and `normalized` among it. A device row has a number,
for its uuid: registration keeps the row of a known token. A token the push service
has dropped is known again once an app registers it, since the app sends what it was
just given. Mutes and cooldowns end without a clock. `ever`, `always`, `chosen`,
`cleared`, `raced` and `dead` are history: `chosen` is whose rule, as the settings
screen describes it, wanted the event when it was asked, `cleared` is whom a cooldown
let through and was recorded for (a push that a failed read or write lets through is
not in it), `raced` the pairs of dispatches that were at work at one time, `dead` the
tokens unknown to the push service at some time of their present row.

**NotifRules** is `notifrules`' pure part: `normalized` (what becomes of what an app
sends), `staticAllows` and `inQuietHours` (what passes), and beside them `Chosen` and
`Quiet`, which say the same as the settings screen would: the window runs forward
from its start. Lists of labels and zones are sets, scores whole steps.

**Clips** runs callers of `EnsureCachedClip` (a request, a pin, the prewarm),
the jobs of singleflight, and the pruner over the three files of a clip. A
caller's steps are `Stat`, `Join`, then an answer by `Settle` or `Leave`; a job's
are `Recheck` to `Rename`; the pruner's `PassStart`, `ReadDir`, `Lookup`,
`Remove`, of which the last may fail, as may `Rename`. What is too old is fixed when
the directory has been listed. A file is absent, torn, or complete; complete ones
remember whether the event still went on when Frigate answered. `late` is history:
clips pinned since the pass looked them up. `Restart` loses jobs and callers
and leaves files. The model takes for granted that ffmpeg ends with the gateway
(as it does in a container) and that a complete remux of a complete download is
playable. A rename is one step with what follows it: the deferred removal of the raw
file and the end of the job, in between which nobody can tell it from either side,
for the served file is there and the key still taken. The clip of an event whose row
is missing is aged by the file's time in the code; here being old is one set for both. The retention window is
clamped to a day and more, so "0 disables pruning" cannot be reached.

**ClipCache** is what a reader of the cache is promised: a clip appears complete,
in one step, and is not replaced while it is there. `Clips` implements it with
`cached <- mp4` (`CacheSpec`).

**Ingest** runs the handlers of an event's messages. The broker owes a message,
has it in flight on this connection, or has had it acknowledged; the end of a
connection makes owed what was in flight. A handler's steps are `Handle` (the
context check), `Upsert`, `GoPrewarm`, `SendToAll`, `Ack` (paho's, after the
handler has returned). A prewarm is a goroutine of its own, from `GoPrewarm` to
`PrewarmEnds`; its context is not the one a stop cancels, but it ends with the
process. `Stop`, `Exit`, `Crash` and `Start` are the process. A gateway that starts
connects (`Connect`), and its `OnConnect` subscribes (`Subscribe`), which gives the
client its only route: `Deliver` hands a message that the kept session brings in
between to no handler, and it stays in flight, unacknowledged, until the connection
ends. The route outlives connections, not the process. `unheard` is history, the
messages of this connection that had no handler; so is `cut`, the events whose
prewarm went with its process when their last message had been acknowledged. The
model begins on a gateway that has run before: the broker knows the session and its
subscription, and this process has subscribed.
Frigate, the broker and paho are external, modelled as the code uses them: QoS 1,
a kept session, `SetOrderMatters(false)`. If Frigate publishes with QoS 0 the
broker owes nothing over a gap, and the two liveness properties are then
Frigate's to break. A message that cannot be parsed is logged and dropped and
changes nothing.

**CamHealth** runs `poll` in two steps with time between them, and the clock in
ticks. `Gap` bounds the time from one poll's result to the next.

**KeyCache** is `keyFor` and `refreshKeys`, which Apple's and Google's verifier have
alike: a look at the cache, a fetch without the lock (`ProviderAnswers`, with the
set published at that moment), the replacement (`Store`), a second look that does
not ask for the age, then the claims. The provider publishes and withdraws keys.
Time is in ticks; no tick passes a fetch that has waited for the client's timeout.

**Relay** is the gateway's instance at the push relay: `StartRegistration` is
`maybeRegisterRelayAtSignIn` up to the goroutine, `RelayRegisters` and `SetString` the
goroutine, with every way to lose the token in between; pushes, checkouts and
`GetSubscription` read the stored token anew. The relay is external: what it does to
an instance (`trial`, `lapsed`, `paid`) follows from how the code talks to it.
`disturbed` is history: registrations overlapped, or one followed a failed read.

**OwnerSignIn** composes the two: a request's token is verified, and `FinishSignIn`
starts a registration and leaves. What lies between is `SignIn`; here an account is
its role.

**Sessions** runs refreshes (`Lookup`, `Revoke`, `IssueTokens`: three statements
of `Refresh`) and requests with an access token (`ReadRole`, `ReadCameras`:
`AccessibleCameras`; `CheckAdmin`: `AdminOnly`), with `Command` for `beacon-admin`
in between. A refresh token is a number; its row is live, revoked, expired or
deleted with its account. An access token is a JWT, which nothing revokes, so
whoever was ever given tokens can make a request; its expiry only takes behaviours
away. The scopes in tokens and the routes that take them are a static table and
left out. What a request is shown is a set of cameras: `Limited` is what the kinds
of handler make of the set `AccessibleCameras` returns - lists, searches, `GetMe`,
one camera or an event of it - and `ListEvents` differs from the others for the
empty one. `GetMe` looks the account up first. A live view is many requests:
`HLSResource` asks for the next resource, and its access is looked at anew. `ever`
(what the user was entitled to meanwhile), `parent` (what a token was exchanged
for), `contested` (tokens held twice at a time, or whose revocation failed) and
`out` (who was thrown out) are history.

`MC*` modules give values to the constants that a `.cfg` cannot write.

## 4. What the runs check

| run | shows |
|---|---|
| `signin_loads` | busy - two requests at a time, any admin command between any two statements, failures, restarts: references, admission, identity binding, redemption and who is answered hold whatever happens; serial - one request at a time, with failures and restarts: one account per verified email, one owner, answers for the bound account; quiet - nothing fails either: single-use invites, scope before tokens |
| `signin_invite_race`, `signin_stale_link` | with two requests two of these promises do not: findings |
| `push_concurrent` | two pushes while tables change, statements fail and tokens die: nobody is pushed who was not entitled during the dispatch or whose rule did not choose the event, nobody entitled throughout is left out by a dispatch that ends, a device is pruned only for a token that was unknown since its row was inserted (not by an old answer about the row before), two events are recorded in one cooldown window only if the two dispatches overlapped |
| `push_cooldown_race` | two pushes that overlap pass one cooldown window: a finding |
| `clips_cache` | two callers, their fills, the pruner, a pin and a restart: the refinement, no torn file served, a pinned clip goes only if it was pinned between its lookup and its removal, every waiting caller answered |
| `clips_early` | a clip fetched during its event is cached truncated for those who ask later: a finding |
| `ingest` | redelivery, disorder, crashes, a stop, a failing upsert: nothing acknowledged is lost but for stops and failures, pushes are bounded by deliveries; every event is pushed and prewarmed in the end, but for what a stop or a failed upsert drops, a message that came before the gateway had subscribed as long as that connection lasts, and a prewarm that ends with its process |
| `sessions` | two requests, refreshing, reading or viewing live, with commands between any two statements, expiry and failures: answers, exchanges of tokens and revocations keep their promises |
| `sessions_no_account` | who has no account any more is shown every camera's events: a finding |
| `camhealth` | no tag from one poll, none in the grace period, there in the end |
| `owner_signin` | two sign-ins verified while keys rotate and fetches overlap, and the registrations they leave, with failures and restarts: withdrawn keys die out, published ones are found, a household that paid is served unless registrations overlapped or a read failed |

The code takes no lock across statements. What holds only when nothing overlaps is
not weakened until it holds always: sign-in states it of a serial or a quiet gateway; Push,
Sessions, the key cache and the relay state exactly which overlap is excused
(`raced`, `contested`, `overrun`, `disturbed`); and where a document promises
more, the run with two actors refutes it.

**Bounds.** Sign-in: two requests, four identities of two people (one with both
providers, one made by the CLI for the first person's email), one invite, two or
three accounts, four or five inputs (`MaxInputs` quiet, `MaxBusyInputs` otherwise): enough for every pair of
statements of two requests to interleave with an admin command, and for an account
to be deleted and its email to come back. Push: an admin and a member with a
device each, two events of one camera (of two, for scopes), a day of four minutes
whose last is ending, rules with every kind of filter, one change: each property
is about one user, one device and at most two dispatches. Clips: one clip - clips
share nothing but the pruner's listing - two callers, two jobs (so that a second
fill could start if the code let it), one restart. Ingest: one event with its
first and last message - events share only handlers - two handlers, one stop, and two
losses (broken connections, crashes and failed upserts together): a message can be
handled twice at once and once more, and one that found no route can be delivered
again.
Sessions: one user, since users share nothing but the numbering of tokens; two
requests, of which one reads, since a read writes nothing that another would see;
three tokens, one with two heirs; two commands, one to change a role or scope and
one to throw out; every kind of request but the list of cameras, which `Limited`
treats like a search (`Asked`). OwnerSignIn: two requests, an old and a new key, a
TTL and a timeout of a tick each, two rotations, two instances: a slow answer can
outlive a withdrawal and a replacement, and a second registration has an instance
to get. CamHealth: a window of three ticks with polls at most two apart. No run
relies on symmetry for a temporal property of liveness; `CHECK_DEADLOCK FALSE`
stands where bounded inputs let the model run out of work.

**Fairness.** Clips: goroutines run, and a job ends since its context has five
minutes; nothing makes people ask or the pruner run. Ingest: the broker delivers
while connected, handlers run, paho reconnects, `OnConnect` runs and subscribes, a
prewarm has five minutes, a supervisor starts the gateway again; nothing makes Frigate publish, and losses are bounded, since a network that
breaks for ever delivers nothing. That connections break is not assumed either, which
is why a message that found no route is excused. CamHealth: time passes and the ticker fires.

## 5. What is proved

`SignInProofs` proves, for any number of requests, identities, emails, invites and
accounts, with or without failures, that `TypeOK`, `NoOrphans`, `RedeemerCameIn`
and `AccountsWereAdmitted` are invariants and that every step satisfies
`IdentityNeverMoves`, `RedemptionIsFinal` and `AnsweredForItsPerson`. It assumes
the named assumptions of `Accounts` and `SignIn`: finite data is not among them.
None of these is inductive. What a request remembers must be tied to the tables
as they have become since: `IInv` adds `Unborn` (an account number not yet given
out occurs in no row: a creation makes no row point to it), `InFlight` (where in
the code which of the request's variables are set), `Admitted` (a request past the
gate has an allowed email or an invite that was minted) and `HoldsIdentity` (a
request that is to issue tokens holds an account that existed, and if it still
does, the person's). `Forward` says what no step undoes (invites only move on,
accounts do not come back, the allowlist's history grows); one lemma shows it of
every step, and the invariants' lemmas have one step per action.

The same module proves the five promises of `SignInLoads`. `LoadsAreSignIns` says
that its behaviours are SignIn's, so that `IInv` holds of them; `LoadInvariance` adds
`SInv` where sign-ins do not overlap and `QInv` where nothing fails. What makes them
work is that only one request is not idle (`OthersIdle`) and that the admin's commands
and the clock disturb it little (`Disturbance`: they make accounts for the CLI only,
unbind an identity only by deleting its account, and bring no invite back). `SInv`
then says of that request that nobody touches the identity it is about to bind
(`OneBinding`), that no account but the CLI's came before the one its person has or is
about to get (`FirstOfPerson`: the account found by email is the oldest), and that the
rank of owner is still to be given (`FirstRank`). `QInv` adds that an invite through
which somebody came in is pending only while that sign-in has still to redeem it
(`Unspent`), and that only the account just created waits for its scope (`Scoped`).
These rest on two assumptions on constants: no provider vouches for an identity that
`create-user` makes (`AccountsAssumption`; such a subject is the CLI's own), and no
invite code is one of the words that name the other origins (`SignInAssumption`).

`CamHealthProofs` proves `TypeOK`, `NotByOnePoll` and
`GraceAtStartup` for any cameras, window and pace. `NotByOnePoll` carries its
condition (polls closer together than the window). The invariant bounds an age by
the time since the last good poll, by a gap more after one miss, and by the
uptime.

`SessionsProofs` proves, for any users, cameras, scopes, requests and bounds,
`TypeOK`, `ShownWasEntitled`, `RevokedStaysOut` and `ExchangedOnce` as invariants
and `OthersStaySignedIn` of every step, from `SessionsAssumption` alone. The
invariant adds what a request under way holds: `Refreshers` (past its lookup, a
token of somebody who was not thrown out, or whose account is gone), `Exchanges`
(once a token was exchanged and is not contested it is not live and nobody holds
it, so it has no second heir) and `Readers` (what its user is entitled to now is
part of what it was meanwhile). `Forward` again is what no step undoes.

`OwnerSignInProofs` proves, for any keys, tokens, instances, TTL and timeout,
`TypeOK`, `PaidIsServed`, `WithdrawnKeyDiesOut` and `PublishedKeyIsKnown`, from the
named assumptions of `Requests`, `KeyCache` and `Relay`. The key cache's invariant
bounds how long ago a key of the cached set was withdrawn by the set's age and a
fetch, and a key of an answer by the wait for it, from which the TTL's bound
follows at the moment a token is accepted. The relay's says that, undisturbed, there
is one instance at most that anybody can pay for, the stored one.

`NotifRulesProofs` is about pure functions, for days and scores of any length:
what an app sends becomes a stored rule, a stored one stays, quiet hours with their
two cases are the window that runs forward, they leave a minute open, and a rule
lets through exactly what `Chosen` says. `Push` uses both sides.

`PushProofs` proves, for any users, devices, scopes, rules, events and number of
changes, all five properties of the run: `TypeOK`, `NobodyElseIsPushed`,
`NobodyIsForgotten` and `CooldownHolds` as invariants, `DevicesAreKept` of every
step, from the named assumptions of `NotifRules` and `Push`. A dispatch acts on a selection of tables
that have moved on, so `IInv` says for what it holds what was true meanwhile:
`Grounds` (the selected were entitled, the approved chose the event or could not be
read), `OnTheWay` (who was entitled all along is selected, and approved or yet to be
asked; so a rule with a cooldown, asked for, is nobody's of these), `Reported`
(a token reported unknown has been so during its present row, if that is still the row
it was selected from) and `Windows` (two dispatches at work together are a pair that
raced, an entry of a window is in the table). That a rule passes exactly what its user chose
is `StaticAllowsTheChosen` above. One lemma per action says what it does to each
entry; each part of `IInv` then has one proof over these.

`ClipsProofs` proves, for any clips, callers, jobs and restarts, `TypeOK` and
`ServedComplete` as invariants, `PinnedIsKept` of every step, and that `Clips`
implements `ClipCache` (`CacheSpec`). None of it can be seen from the served file
alone: `Filling` says of every step of a job what the clip's three files are (no
served file, the raw one what Frigate answered with, the temporary one the same when
it is to be renamed), for which `InFlight` must say that a clip has one job at most,
so that no second one writes to its files. `PassOK` says that the file about to be
removed is not pinned, unless the pin came after the pass had looked it up.

`IngestProofs` proves, for any events, versions, handlers, losses and stops,
`TypeOK`, `NothingIsLost` and `ToldOncePerDelivery`, assuming that the handlers are
finitely many. `Handling` says what a handler stands for (a message that was published
and found a route, and past its upsert one that was stored or given up), and `Counted`
sets the pushes of an event, those done and those that handlers at work may still make,
against the deliveries of its first message to a handler; a message still owed, or
that had no handler, has one delivery to come.

Only model-checked: liveness (`EveryoneIsAnswered`, `EveryEventIsTold`,
`EveryClipIsPrewarmed`, `DownIsTagged`), which the prover cannot do under fairness.
Every other property of a passing run is a theorem.

## 6. Not modelled

- Migrations: they run before anything else in a process. Two processes that migrate
  at once both find one missing; the second transaction fails and is rolled back,
  and its process ends with an error.
- Of sessions, the expiry of access tokens and the scopes in them (a static table).
- Proxies, the rewriting of HLS playlists, WebRTC signalling, routing, configuration
  and payload formats keep no state of the gateway's. What the system page reports
  is read from the rest.
- Cryptography, the parsing of key sets, Frigate, the broker, APNs, FCM and the relay
  are external.

Seen while modelling, and not spent a run on:

- After a restart the broker may deliver before `OnConnect` has subscribed
  (`mqtt/subscriber.go:44-54`). Such a message reaches no handler, is not acknowledged,
  and comes again only when the connection next breaks: on one that lasts, the event is
  neither stored nor pushed all the while (`unheard` in `EveryEventIsTold`).
- A clip pinned between the pruner's lookup and its `os.Remove` (`clips/pruner.go:98-120`)
  goes, though `pruner.go:1-3` makes no such exception; the fetch that follows a pin
  brings it back only if it looks for the file after the removal, and Frigate still has
  the recording (`late` in `PinnedIsKept`).
- Registration keeps the row of a known token, number and all. A dispatch that was told
  of the token as unknown before its app registered it anew prunes the row all the same
  (`DevicesAreKept` speaks of the present row).
- With a polling interval as long as the debounce window one failed poll tags every
  camera (`NotByOnePoll` has its condition; both are configuration).
- Two requests that refresh one token at once both succeed, overlapping first sign-ins
  make two admins or two accounts of one person, an account deleted between the reads
  of its role and its scope is answered with every camera, and what an orderly stop or
  a failed upsert drops is acknowledged. The models have all of these; the properties
  name what they leave out.
- `ADMIN_EMAILS` is looked at only when an account is created without an invite
  (`api/handlers.go:385`); `config.go:100` speaks of promotion on sign-in.
- `cmd/admin/main.go:361-362` says that a later Apple sign-in with the address of a
  `create-user` account would create a separate account; since identities are linked
  by verified email it is linked to that account (`SignIn`'s `LookupEmail`, `Link`).
- An admin's sign-in whose read of the relay token fails registers another instance
  although one is stored and perhaps paid for (`api/handlers.go:355`: any error
  counts as none found). `PaidIsServed` excuses it, with overlapping registrations.
- `beacon-admin create-user` may run between a first sign-in's look for an account of
  its email and the creation of one. Then two accounts have the email, and the person's
  other provider is linked to the older one, the CLI's. The proof of `SerialOneAccountPerPerson`
  found this: it does not go through without excusing accounts the CLI made, and with
  such an account in the instance TLC has the behaviour.
