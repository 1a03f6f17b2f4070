# Formal models of ocmanager

ocmanager sells and runs access to an ocserv VPN: a FastAPI backend with an admin panel
and a Telegram Mini App, arq workers, a Telegram bot, one PostgreSQL database, one Redis,
and an ocserv container on the same host (the "node") that the backend drives through
files on a volume, signals and `occtl`.

This directory holds TLA+ models of the part of it that is hard to test: what happens to a
client's subscription, money, access and certificates when requests, jobs, retries, crashes
and administrators meet. Paths below are relative to `src/backend/src/ocmanager/`.

    tlc -workers 2 -config MCSubscriptions.cfg MCSubscriptions     # a run
    tlapm SubscriptionsProofs.tla                                  # the proofs of a module

`PROJECT.json` maps every definition that models code to its lines, lists the runs, and for
each property names a mutation of a mapped definition (`X_Y`: the operator `X` with the
slip `Y`) that makes TLC find the property violated. A property that is a conjunction has one
slip there; the modules hold one more for each other conjunct, to be tried by hand by putting
`X_Y` for the body of `X`.

## 1. Inventory

### How the parts interact

Every change of the business state is one PostgreSQL transaction (READ COMMITTED) that also
inserts its domain events into `event_outbox`. Dispatcher jobs take events from there and
run the handlers registered in `flows/handlers.py`: publish the node's access list, compose
notifications, write the audit log. Cron jobs (`apps/worker.py`) expire subscriptions, poll
traffic, apply revocations, reconcile node and database, sweep webhooks and purge. Payments
come in as webhooks. No process keeps business state in memory; what they share is the
database, Redis (jobs, rate limits, one-time links) and the node's files.

    provider --webhook--> inbox --job--> purchase --> subscription service --> event outbox
    Mini App / admin API / bot / CLI ------------------^                          |
    cron: expiry, traffic poll ------------------------^          dispatcher: handlers
                                                                                  |
                             node: allowed.list, crl.pem, sessions <-- access, revocations
                                        ^--- reconcile (every 5 min) --- database

### Components

| Component | State | Operations | What is hard | Correct when | Module |
|---|---|---|---|---|---|
| Subscription automaton (`subscriptions/state.py`) | status, trial, term, auto-renewal, limit, used traffic | 13 transitions | long legal sequences: block, exhaust, extend, revive | status agrees with term, block, auto-renewal | `SubscriptionState` |
| Subscription service (`subscriptions/service.py`, `flows/subscriptions.py`, `grants.py`, `trial.py`, `traffic.py`) | `clients`, `subscriptions` | grants, payments, extension, expiry, block, quota | row locks; time and client read before the lock | no day is lost; access changes are announced; one trial | `Subscriptions` |
| Event bus (`events/bus.py`) | `event_outbox` | record, dispatch, purge | several dispatchers, SAVEPOINT, backoff, cancelled jobs | handlers take effect together and once, or never | `EventBus`, `EventDelivery` |
| Webhook inbox, payments (`billing/webhooks.py`, `billing/service.py`, `flows/purchase.py`, `apps/worker.py`) | `webhook_events`, `payments`, arq jobs | intake, process, retry, sweep, requeue | duplicate jobs, crash between commit and enqueue, refusal after the money came | each webhook grants once; no payment is lost | `WebhookInbox` |
| Access list (`flows/access.py`, `flows/reconcile.py`) | `allowed.list`, sessions | publish on events, reconcile | overlapping synchronisations, outages, hand edits | the node agrees with the database | `NodeAccess` |
| Revocation list (`flows/revocations.py`, `provisioning/revocations.py`) | `revocations`, `crl.pem` | revoke, apply, refresh, reconcile | list computed before it is written | what is marked applied is refused | `NodeCrl` |
| Traffic accounting (`nodes/traffic.py`, `flows/traffic.py`, `apps/internal.py`) | `node_sessions`, samples | poll, disconnect hook, purge | hook against poll, a poll that is refused, retention | bytes are counted once | `Traffic` |
| Bypass routes (`core/settings_store.py`, `admin/routers/settings.py`, `nodes/driver/local_docker.py`, `src/ocserv/render-conf.sh`) | the setting, `default-user.conf`, `ocserv.conf` | PATCH, publish, reconcile, render, reload | four places in a row, of which reconcile compares two | ocserv has loaded what the setting says | `Routes` |
| Clients and inviters (`flows/clients.py`, `subscriptions/service.py`, `tma/deps.py`, `apps/bot.py`) | `clients` | first contact by bot, Mini App or payment | two first requests insert at a time | one row a person, no ring of inviters | `Clients` |
| Referral programme (`flows/referrals.py`, `subscriptions/referral.py`) | reward journal, bonuses | reward, tiers, pending days, cap | two friends pay at a time; a refund; a blocked inviter | the cap holds; days given are the journal's | `Referrals` |
| Promo codes (`billing/promo.py`, `flows/promo.py`) | codes, uses | claim, redeem, edit, delete | the last use, a claim that cannot be applied | used up exactly where given, and never past the maximum | `PromoCodes` |
| Devices (`provisioning/service.py`, `delivery.py`, `flows/devices.py`) | `devices`, one-time links | issue, revoke, deliver | limit read before the lock, Redis before the commit | limit and numbering hold; a key leaves once | `Devices` |
| Outbox of messages (`notifications/*`) | `outbox_messages` | enqueue, send, retry | 429, crash after sending, overlapping jobs | sent at least once, again only for a lost answer | `Notifications` |
| What clients are told (`flows/notify.py`) | dedupe keys | handlers of the events, hourly reminders | events late and out of order; windows that must meet | alarms are true; nothing stays unsaid | `Announcements`, `Reminders` |
| Node health (`nodes/service.py`, `flows/nodes.py`) | node status, its cache, the known certificate | check, alert, reload of the certificate | checks that overlap, a reload that fails | an outage told once; ocserv has the certificate | `NodeHealth` |
| Admin accounts (`admin/auth.py`, `accounts.py`, `core/ratelimit.py`) | sessions, second factor, counters | login, password, setup and confirmation | count before check; requests that loaded early | attempts bounded; the secret in force was confirmed | `AdminAuth` |
| `ocm` on the host (`src/deploy/installer/ocm.py`, `backup.py`) | database, CA, checkout, image, copies | backup, restore, update, rollback | any step fails or is the last | data is whole or can be made so | `Host` |
| Installer (`src/deploy/installer/install.py`, `steps.py`) | `.install-state`, `.env`, volumes | questions, 12 steps | died between effect and mark; other answers | a repeated run finishes and nothing is made twice | `Install` |
| Admin API, Mini App API, bot, CLI, audit, abuse, plans, providers, PKI, occtl, frontends, migrations | none, or plain storage | call the flows; parse; show | none of their own | | not modelled (section 7) |

## 2. Modules

`SubscriptionState` is the automaton as operators `CanX(s)` and `X(s, ...)`, one pair per
function of `state.py`. Time is counted in days. Fields that decide nothing (`plan_id`,
`started_at`, `device_limit`, provider ids) are left out.

`Subscriptions` extends it with clients, the row locks and the events. A transaction locks
the client row, then the subscription row, and holds both to its commit, so an operation is
one action. What it read before it obtained the locks is explicit: `Load(c)` puts a call,
with the time and the client row it saw, into `slow[c]`; an operation is served either
straight through (`Loaded(c)`) or from `slow[c]` with stale data. An operation that reloads
the client under the lock may use either copy (`Rows`), because `SELECT .. FOR UPDATE` does
not refresh an object that the SQLAlchemy session already holds (`tma/deps.py`,
`flows/purchase.py`, `flows/referrals.py` load it early). `recorded` is the set of events the
last transaction inserted. The forms of payment are `PayStarted` and `PayRenewed`; promo
codes and referral rewards act on a subscription through `ExtendDays`, `GrantTrafficFor`,
`AddPerks`.

`EventDelivery` is what the bus promises: recorded, then delivered with every handler
applied once, or dead with none. `EventBus` is the implementation: `Take` (SELECT FOR UPDATE
SKIP LOCKED in the order `available_at, id`), `RunHandler` inside the SAVEPOINT, `Deliver` or
`Fail` (COMMIT), `Lose` (no COMMIT: crash, lost connection, or `CancelledError`, which the
`except Exception` does not catch, so that no attempt is counted), `Purge`. Times are
relative to the present and saturate where nothing depends on them, so that the clock needs
no bound. `Status` is the refinement mapping.

`WebhookInbox` goes from the provider's POST to a credited payment. A processing is two
steps: `BeginPay` takes the webhook's row lock and inserts or reads the payment, `Grant` or
`Refuse` commits. In between other jobs run, held back only by the locks the code has. Jobs
are arq's: with the id `webhook:<id>` (`<<w, 0>>`, the sweeper's, one at a time) and with
random ids (`<<w, n>>`, those of requests). `Faults` says what may go wrong in an instance.

`NodeAccess` and `NodeCrl` model the two files of the node. A worker reads the database,
later reads or writes the file, later cuts sessions (or waits for the reload) and commits;
each is a step of its own, since no lock covers them together. The bus is seen from outside:
an event is `owed` until the work on it succeeded.

`Traffic` books the bytes of one client's sessions. A poll is `ListSessions` (what `occtl`
answers), `LockLogs` (SELECT the open rows FOR UPDATE) and `CommitPoll`, or `RefusePoll` when
the unique key of `session_log` turns down the insert and the whole transaction is rolled
back. A disconnect hook is `FindLog` and `RecordSessionEnd`. The row a hook inserts has
`started_at = now - duration`, which is never quite the time ocserv gave, so the key does not
tell a poll's row and a hook's row of one session apart: they are two keys of `log`. Samples
are stamped with the day and the traffic period; `NewPeriod` is a renewal or a reset.

`Routes` follows a list of bypass routes from the setting to the file, to `ocserv.conf` and
into ocserv: `Patch`, then `Write`, `Inspect`, `Render`, `Reload` of the admin's request or
of reconcile, which gets there by `ReadWanted` and `Compare`. `Stop`, `Boot` and `Serve` are
the container, where `entrypoint.sh` renders on its own.

`Clients` is the first contact of a person: `Ask`, `Find` (where there is a row already),
`Upsert` (INSERT ON CONFLICT, held back by another request's uncommitted row of the same
`telegram_id`), `Attach` by the request that created the row, `Commit`. A code can only be one
of a client committed before.

`Referrals` has one inviter: payments of friends are recorded, processed and refunded;
the handler of `PaymentReceived` checks without a lock (`Check`), locks the inviter
(`LockInviter`), and writes base reward and tiers (`Reward`); `Fetch` and `PayOut` are
`apply_pending`. Handlers that fail are run again, as the bus does.

`PromoCodes` is one code: `Ask`, `LockCode` (`claim` under FOR UPDATE), `Redeem` or `Refuse`
(the end of the SAVEPOINT that holds claim and gift), against edits, deletion and blocks.

`Devices` is the path of an issue, `ReadLimit`, `Lock` (the advisory lock), `PutP12`,
`CommitIssue`, `Answer`, against revocations, changes of the limit, lost requests, downloads
and a Redis that forgets.

`Notifications` is the outbox: `Take` locks the first message that is due, `Accept` is
Telegram taking it, `MarkSent`, `SlowDown` (429), `Retried`, `Undeliverable`, `Unrenderable`
its outcomes, `LoseAnswer` and `Die` what may be lost after `Accept`. `Announcements` is the
side that fills it: operations record events, `Deliver` runs a handler later, in any order,
on the subscription as it is then. `Reminders` is the hourly job with its windows of an hour.

`NodeHealth` has a check in steps (`BeginCheck`, `Probe`, `SetCache`, `CommitCheck`), the
alerts as events, and the reload of the server certificate (`ReadCert`, `ReloadCert`,
`RememberCert`).

`AdminAuth` is one administrator: a request counts its attempt (`Attempt`), loads the row
without a lock (`Load`) and later writes the columns it changed (`Login`, `Setup`, `Confirm`,
`Disable`, `ChangePassword`). The command line is one more actor.

`Host` is `ocm`, command by command and step by step: `Dump`, `Fetch`, `Clear`, `Pack`,
`Prune`, `Offsite` of a copy; `StopApp`, `Drop`, `CreateDatabase`, `CopyIn`, `Load`, `Remove`, `Unpack`
of a restoration; `Pull`, `Build`, `Up` of an update; `Checkout`, `SwitchBack` of a rollback.
`Fail` may end any of them. The systemd timer makes copies on its own.

`Install` is the installer: questions, the twelve steps with their effects, the mark after
each, and the next run after one that was interrupted anywhere.

They compose by their interfaces: `Subscriptions` guarantees that a change of access records
an event (`AccessChangesAnnounced`), `EventBus` that a recorded event's handlers take effect,
`NodeAccess`, `NodeHealth`, `Announcements` and `Referrals` assume just that of their events;
`Announcements` and `Reminders` fill the outbox of which `Notifications` tells that it is
emptied. `WebhookInbox` treats a grant as succeeding or refused, which is what
`PayStarted`/`PayRenewed` may do, and `Referrals` and `PromoCodes` what `ExtendDays` may do.
`Clients` guarantees the order of ids by which `Referrals` locks rows.

The `MC*` modules give TLC its instances. `MCParts` is more than that: it composes fourteen
components, as section 3 says. `ServerParts` (`NodeAccess`, `NodeCrl`, `NodeHealth`, `Routes`,
`Host`, `Install`, `AdminAuth`) and `ClientParts` (`Clients`, `Referrals`, `Notifications`,
`Announcements`, `Reminders`, `Devices`, `PromoCodes`) declare their constants and variables, and
the constants get values in `MCParts.cfg` only, so that theorems can be stated about all of
them. `Parts` has the one variable that both halves refer to.

`SubscriptionsProofs`, `EventBusProofs`, `WebhookInboxProofs` and `TrafficProofs` hold the proofs
about the module they are named after, `ServerProofs` and `ClientProofs` those about the
components of `ServerParts` and `ClientParts`, one section each, and `PartsProofs` those about
`MCParts`. `Sums` has the lemmas about sums over finite sets (`MapThenSumSet` of the community
modules) that the proofs about `Traffic`, `Referrals` and `Notifications` rest on, and two facts
about numbers and sequences that both halves use.

## 3. Runs

Passing runs:

| Run | Shows | Size |
|---|---|---|
| `MCSubscriptions` | `StatusFits` (`BlockedWithItsClient`, `ExpiredHasNoDaysLeft`, `NoAutoRenewUnlessActive`): status, block, term and auto-renewal agree after any sequence. `TrialGivenOnce`. `AccessChangesAnnounced`. `PaidTermNeverShrinks`, `RenewalsAddUp`: two payments that meet at the lock both count. `OverdueIsClosed`: the cron misses no row | 95 017 states, 90 s |
| `MCEventBus` | `EffectsOnce`, `ImplementsDelivery`: delivery refines the promise. `DeadOnlyAfterPatience`: attempts are used up only by a long outage. `EventsAreSettled`: a hanging event does not block the others | 49 869 states, 100 s |
| `MCWebhookInbox` | `GrantedOnce`, `NoMoneyWithoutTrace`, `RefundsHavePayments`, `ClosedStaysClosed` with every fault | 2 million states, 150 s |
| `MCWebhookInboxLive` | `AcceptedIsSettled`: what was accepted is closed or dead in the end, though Redis loses jobs and the processing raises | 153 000 states, 100 s |
| `MCParts` | fourteen components, each in its own behaviours; below | 1 027 260 states, 150 s |
| `MCLive` | what happens in the end in nine of them; below | 104 354 states, 160 s |
| `MCTraffic` | `BookedByRows`: every increment between two readings of a row is booked once. `FinalIsComplete`: a hook fetches the tail, also of a row that a poll has closed. `UsageOnlyGrows`: no purge takes samples of the running period. `EndedIsClosed`, `OnlineIsBooked`: a refused poll does not block later ones for ever | 372 261 states, 170 s |

`MCParts` and `MCLive` put components that share no state side by side. The variable `part` is
chosen in the initial state and never changes; a step is one of that component, while the
variables of all others keep their initial values. The behaviours are thus those of
the components alone, seen from each (`PartsAreApart` in section 6), and the state space is
the sum of theirs, not the product. An
invariant is stated as `part = "p" => P!Inv`, a liveness property as
`part = "p" /\ P!Fairness => P!X`. The assumptions of the components are stated there, as
`ASSUME`, for the constants of each. `Referrals` and `Clients` are extended, the others are
instances; hence the names `PartsInit`, `PartsNext`, `PartsSpec` beside the `Init`,
`Next`, `Spec` of `Referrals` and the `ClientsInit`, `ClientsNext`, `ClientsSpec` of `Clients`.

| `MCParts` | of the parts | says |
|---|---|---|
| `NodeFilesAreSound` | `NodeCrl`, `Routes` | `ClaimsAreDisjoint`: SKIP LOCKED keeps two runs off one revocation. `FileIsLoaded`: without failures ocserv has what the file says whenever no publication is under way |
| `NodeIsWatched` | `NodeHealth` | `OutagesAreTold`: one `node_down` an outage and one `node_up` an end. `RememberedIsLoaded`: no certificate is remembered that ocserv has not read |
| `MessagesGoOnce` | `Notifications` | `RepeatsAreLosses`: no message is received twice but for a lost answer. `FailedAfterPatience`: given up only after an outage as long as the pauses |
| `ClientsAreToldRight` | `Announcements`, `Reminders` | `AlarmsAreTrue`, whatever the order of the events. `NobodyIsPassedOver`: while runs are at most an hour apart, each end is met |
| `RewardsAddUp` | `Referrals` | `CapHolds`, `DaysMatchJournal`, `TiersAreGranted`, `PendingIsAwaited` |
| `CodesAddUp` | `PromoCodes` | `RedeemedIsGiven`, `UsesAreCounted`, `NeverOversold` |
| `DevicesAddUp` | `Devices` | `WithinLimit`, `NumbersAreOnce`, `RevokedIsListed`, `KeysLeaveOnce` |
| `ReferralForest` | `Clients` | `OneRowEach`, `ReferrersAreOlder`, `ReferrerIsKept` |
| `LoginIsGuarded` | `AdminAuth` | `AttemptsAreBounded`, `SecretIsConfirmed` |
| `DataIsThere` | `Host` | `RestoredIsTheCopy`, `AppKnowsItsSchema`, `UpdateCanGoBack` |
| `InstalledOnce` | `Install` | `DatabaseOpens`, `MadeOnce` |

| `MCLive` | of the parts | says |
|---|---|---|
| `NodeFollows` | `NodeAccess`, `NodeCrl`, `Routes`, `NodeHealth` | `NodeConverges`: the node heals after an outage, a term that ran out, an edit by hand. `CrlConverges`. `RoutesArrive`: the file comes to be what the setting says, and ocserv to know it when nothing failed. `StatusSettles`, `CertArrives` |
| `ClientsAreTold` | `Notifications`, `Announcements` | `MessagesAreSettled`, also beside a message that is answered 429 for ever. `NothingStaysUnsaid`: an end or a used-up quota that lasts is told |
| `InterruptedIsFinished` | `Host`, `Install` | `RestoreIsFinished`, `InstallFinishes`: what was interrupted can be repeated to its end |
| `RefusalEnds` | `AdminAuth` | a count that refuses comes to its end, whatever is tried meanwhile |

`TypeOK` is checked by each of the other safety runs, and of six parts in `PartsTypeOK`; it
carries what the types can say: no attempt beyond `MAX_ATTEMPTS`, no row the table's CHECK
constraints refuse, claims held only by `apply_revocations`, no more events settled than owed,
no step marked in `.install-state` that had no effect.

Runs that are expected to find a violation (each checks one property, a sentence of the
repository that the code does not keep; `PROJECT.json` quotes it):

| Run | Property | What TLC finds |
|---|---|---|
| `MCSubscriptionsBlocked` | `BlockedClientGetsNothing` | a client blocked while its request waits for the lock still gets the grant, since `_require_not_blocked` looks at an object loaded before |
| `MCWebhookInboxStuck` | `AcceptedIsSettled` | `record_failure` fails too: arq drops the job, the sweeper only looks for `received` |
| `MCWebhookInboxTwice` | `PaymentCreditedOnce` | two webhooks of one recorded, uncredited payment run at a time; `get_payment` takes no lock |
| `MCNodeCrlRace` | `AppliedIsListed` | two runs of `apply_revocations` overlap: a revocation marked applied is not in the list, until reconcile |
| `MCTrafficTwice` | `BookedOnce` | a session that no poll has met ends after a poll has listed it: its hook and the poll both book it from zero |

### Behaviour without a run of its own

What was met while modelling and is not listed as a finding, because the code accepts it,
because it heals itself, or because it needs an operator's mistake. Where a definition is
named it is in the module, unchecked: it does not hold.

- *Subscriptions.* `terms_for_client` reads the permanent bonus before the client row is
  locked, so a perk committed in between is missing for the renewed term. Days by hand, or
  block and unblock, reopen an exhausted subscription until the next poll.
- *Node.* Two synchronisations that overlap may leave the older `allowed.list` until
  reconcile. Two polls that overlap would book a session twice, against
  `test_overlapping_polls_never_count_twice`, but only a poll of more than the cron's five
  minutes could meet another, and arq cancels it after 300 s. Two checks that overlap may
  leave "up" as the last word to the admins while the row says degraded
  (`nodes/service.py:94-100`).
- *Routes.* When the file is written and the rendering or the reload fails, or `docker
  inspect` times out (which passes for a container that is down), reconcile finds the file
  equal to the setting and ocserv keeps the old routes until its restart or the next
  change. The reload after a CRL published by reconcile is the same. `docs/data-flows.md:138`
  has reconcile do routes before the CRL; the code does the CRL first.
- *Messages.* Unblocking after the term has passed records no `SubscriptionExpired`. The
  second exhaustion of one period, after `grant_traffic`, is silent: its dedupe key is used.
  `EndsAreTrue` fails: after the traffic was used up an "expired" that waited is still sent
  although days were added. A reminder run that is late by a second leaves ends that are
  never met, although the docstring at `flows/notify.py:338-341` relies on the hourly run.
- *Referrals.* `OneBasePerFriend` fails: when a friend's first payment is refunded, the next
  one is the first again; depending on when, there is a second base reward or none
  (the docstring at `subscriptions/service.py:480` counts a friend once). Days that could not be
  given because the inviter was blocked are paid at his next activation or renewal only.
- *Clients.* A person whose row is made by a payment, by a request of the Mini App or by
  `/start` without a code keeps no inviter, whatever links he follows later.
- *Locks.* Two transactions that insert rows of one client hold KEY SHARE on it and then ask
  for FOR UPDATE: PostgreSQL aborts one of them, and the job or event is tried again.
- *Admin.* With `Overlap` TRUE `SecretIsConfirmed` fails: a confirmation that loaded the row
  before another window's setup (or `ocm admin reset-totp`) switches on a factor whose secret is
  not the confirmed one (`admin/routers/auth.py:158-185`). The run keeps such requests apart.
- *ocm.* With `Together` TRUE `RestoredIsTheCopy` fails: a restoration and the timer's copy
  use the same `/tmp/ocm.dump` of the container (`backup.py:28`). Copies made within one
  minute have one name, and the later replaces the earlier (`backup.py:162-164`), also the
  emergency copy of a restoration that is repeated at once. After an update with a migration
  `rollback` starts the old code first, which fails, before it asks about the data
  (`ocm.py:296-318`). An update whose build failed says "already the latest" the next time.
- *Installer.* A run that died after `stack` and before its mark is stopped by `check_ports`,
  which finds the containers of the installation itself; with `StopsOnHint` FALSE
  `InstallFinishes` fails. Answers given after declining the existing `.env` are ignored once
  the step `env` is marked. `PasswordIsKnown` (`INSTALL.md:41`) fails: a generated password
  is shown only on the final screen of the run that made it, which an interrupted run never
  reaches.

## 4. Bounds

- `MCSubscriptions`: one client (operations on different clients share nothing but the expiry
  batch; the theorems hold for any number), three days, a two-day plan with and without a
  limit, a one-day trial, one call waiting. The days suffice for a term to end before, at and
  after the time a waiting call has read; the horizon is that of two plans end to end; usage
  levels lie below the warning, above it, and above the limit; `Horizon`, `MaxLimit`,
  `MaxBonus` stop terms, limits and bonuses from growing.
- `MCEventBus`: two dispatchers, two handlers, two attempts, a hanging event and two that
  are not. A second dispatcher is what competes or passes by; the third event is one that is
  behind another. `MaxOverdue`, `MaxAge` say where lateness and age stop being counted;
  `AgeAssumption` (in `EventBus`) ensures that ages are told apart as far as the pauses go. An
  instance with three attempts, pauses 2 and 3, two events and none hanging has 37 000
  states up to symmetry and was checked as well; beyond that the proofs cover safety for
  every number.
- `MCWebhookInbox`: two bodies of one payment, its refund, a forged body; two jobs at a time
  for the first webhook, one for the others, two tries. Two jobs are what can race for a row,
  two bodies what can race for a payment. `MCWebhookInboxLive` has two jobs for each.
- `MCNodeCrlRace`: two devices, two runs of `apply_revocations`, no outage.
- The parts of `MCParts` and `MCLive` (where the two differ, the second is the smaller, unless
  said otherwise, since liveness costs more):

| Part | Instance |
|---|---|
| `NodeAccess` | two users, two changes, one outage, one edit; a dispatcher and reconcile |
| `NodeCrl` | two devices, two runs of `apply_revocations` (one in `MCLive`), one worker for the daily refresh and reconcile, an outage, an edit. One outage may come at any step; a second one meets no new state |
| `Routes` | two lists, two changes, reconcile; one admin, an outage, a failure, an edit in `MCParts`, two admins and no outage in `MCLive`, so that publications meet each other and meet the container |
| `NodeHealth` | one checker (with two `OutagesAreTold` fails, see section 3), two turns of the node, two renewals (one), a failure |
| `Notifications` | two messages, two senders (one), two attempts, one lost answer; one chat refuses, one message is always answered 429 |
| `Announcements` | two terms, two traffic periods (one), one event under way (two: what is left behind is the question there) |
| `Reminders` | a day of three units of time, a window of two, thresholds at 2 and 4, one change, six units: ends fall on, before and after each edge of a window |
| `Clients` | two people, two requests at once, four in all |
| `Referrals` | two friends, three payments, a cap of one, a tier at the second reward, two changes of the block, one failure |
| `PromoCodes` | two clients, three requests, a code of one use or of any number, three changes |
| `Devices` | two requests at once, limits 0 to 2, three numbers, two changes |
| `AdminAuth` | two windows (one in `MCLive`), one attempt, two secrets, one session |
| `Host` | two revisions, the second with a migration; two days (one); two commands, one failing step; one copy of each kind kept |
| `Install` | two answers for the domain, two interrupted runs (one) |

  Two are enough of what competes: of requests, senders, windows and clients each component
  lets at most one proceed under its lock, and a third waits as the second does. Counters
  (attempts, caps, numbers, copies kept) are at their limit within the bounds.
- `MCTraffic`: two sessions (one that overlaps with the other's booking is what a refused poll
  can harm), one byte each, one delivery of each hook or none, days 0 to 2, one renewal,
  `Retention = PeriodDays = 1`, the tightest pair for which `UsageOnlyGrows` can hold. The
  settings only enforce that samples are kept for seven days: a retention shorter than the
  period makes the used traffic fall. One poller, for the reason given in section 3.

Instances with `CHECK_DEADLOCK FALSE` may really stop: every webhook closed, every
revocation applied, or the bounds on time reached.

## 5. Fairness

Liveness is checked under what the scheduling justifies and no more:

- crons come again and again: weak fairness of `ExpireDue`, `Sweep`, `StartUp` (Docker's
  restart policy), strong fairness of the jobs they start where another job may be in the way;
- a job is not interrupted *every* time: strong fairness of a step, not weak fairness of
  running to the end, so that any number of crashes is allowed;
- arq cancels a job after `job_timeout`: weak fairness of `Lose` for a hanging event and of
  `Step` (which includes `GiveUp`) in `NodeCrl`;
- in `Traffic` the cron polls again and again and is not lost every time, and a hook's request
  ends, with a commit or without; no hook is assumed to arrive;
- in `EventBus`, an event that is at the head of the queue again and again while a dispatcher
  is free is taken. With as many hanging events as dispatchers at a time this would not be
  justified; the run has one for two dispatchers;
- in `Notifications` a message that is first in line again and again is taken, and not
  interrupted every time; jobs start and end; the clock goes on;
- in `NodeHealth` and `Routes` every check, request and run of reconcile gets on, or fails, and
  the container is started again; `StatusSettles` and `CertArrives` speak of a node that stays as
  it is, since nobody repairs it by fairness;
- in `Announcements` every recorded event is delivered, which is `EventsAreSettled` for
  handlers that do not fail for good; in `AdminAuth` only the clock of Redis goes on;
- in `Host` commands end, and the operator repeats a restoration that was interrupted at
  some moment when the timer is not at work (strong fairness: the moment comes again and again);
  in `Install` he runs the installer until it is finished and stops the containers that
  `check_ports` names;
- nothing is assumed of providers, administrators or clients, nor of the node being up,
  except that it starts again.

Symmetry is not used in any run with a liveness property.

## 6. Theorems

Checked by TLAPS for every value of the constants that satisfies the named assumptions: types of
the constants; `MAX_DAYS`, `MAX_ATTEMPTS`, `MAX_BACKOFF`, the batch of the senders and the numbers
of copies kept positive; tiers positive; ages counted as far as the pauses go (`AgeAssumption`);
finitely many sessions (`TrafficAssumption`); sentinels like `"nobody"` not among the requests. TLC evaluates the same assumptions in the runs. What goes
beyond them is a hypothesis of the theorem, given below.

| Theorem | States |
|---|---|
| `SubscriptionsProofs!TypeCorrect` | `Spec => []TypeOK`: for any clients, plans and number of waiting calls no operation writes a row the table refuses |
| `SubscriptionsProofs!StatusAgrees` | `Spec => []StatusFits` |
| `SubscriptionsProofs!TrialOnce` | `Spec => TrialGivenOnce` |
| `SubscriptionsProofs!AccessIsAnnounced` | `Spec => AccessChangesAnnounced` |
| `SubscriptionsProofs!PaidTermKept` | `Spec => PaidTermNeverShrinks` |
| `SubscriptionsProofs!PaymentsAddUp` | `Spec => RenewalsAddUp` |
| `EventBusProofs!BusTypeCorrect`, `BusEffectsOnce` | `Spec => [](TypeOK /\ EffectsOnce)` for any events, handlers, dispatchers |
| `EventBusProofs!BusImplementsDelivery` | `Spec => ImplementsDelivery` |
| `EventBusProofs!BusIsPatient` | `Spec => []DeadOnlyAfterPatience` for any number of attempts and maximum of the pauses |
| `WebhookInboxProofs!TypeCorrect`, `NoDoubleGrant`, `MoneyIsTraced`, `RefundsAreKnown` | `Spec => []TypeOK`, `[]GrantedOnce`, `[]NoMoneyWithoutTrace`, `[]RefundsHavePayments`, with every fault |
| `WebhookInboxProofs!ClosedForGood` | `Spec => ClosedStaysClosed` |
| `ClientProofs!NoRings` | `Clients`: `Spec => [](OneRowEach /\ ReferrersAreOlder)` for any people and any number of requests at once, without assumptions |
| `ClientProofs!InviterIsKept` | `Clients`: `Spec => ReferrerIsKept` |
| `ClientProofs!ForestGrows` | `Clients`: `Spec => ReferralForest`, the two together |
| `TrafficProofs!TrafficTypeCorrect` | `Spec => []TypeOK` |
| `TrafficProofs!BooksMatchRows`, `FinalIsBooked` | `OnePoller` implies `Spec => []BookedByRows`, `Spec => []FinalIsComplete` |
| `TrafficProofs!UsedTrafficGrows` | `PeriodDays <= Retention` implies `Spec => UsageOnlyGrows` |
| `ClientProofs!RewardsAreRight` | `Referrals`: `Spec => []RewardsAddUp`: `CapHolds`, `DaysMatchJournal`, `TiersAreGranted`, `PendingIsAwaited` |
| `ClientProofs!CodesAreRight` | `PromoCodes`: `Spec => CodesAddUp` |
| `ClientProofs!DevicesAreRight` | `Devices`: `Spec => DevicesAddUp` |
| `ServerProofs!FilesAreSound` | `NodeCrl`, `Routes`: `[]NodeFilesAreSound`, with the types of `NodeCrl` |
| `ServerProofs!MadeOnceAndOpens` | `Install`: `[]TypeOK`, `InstalledOnce` |
| `ServerProofs!AttemptsAreLimited` | `AdminAuth`: `[]AttemptsAreBounded` |
| `ServerProofs!LoginIsSafe` | `~Overlap` implies `AdminAuth`: `[]LoginIsGuarded` |
| `ServerProofs!OutagesAndCertificates` | one checker implies `NodeHealth`: `[]NodeIsWatched` |
| `ClientProofs!WordsAreTrue` | `Announcements`, `Reminders`: `[]ClientsAreToldRight` |
| `ClientProofs!SentOnce` | `Notifications`: `[](TypeOK /\ MessagesGoOnce)` |
| `ServerProofs!ServerIsTyped` | `Host`: `[](TypeOK /\ AppKnowsItsSchema)` |
| `ServerProofs!CopiesCanBeGoneBackTo` | `~Together` implies `Host`: `[]DataIsThere` |
| `ServerProofs!AccessIsTyped` | `NodeAccess`: `[]TypeOK` |
| `PartsProofs!PartsAreApart` | `PartsSpec` implies the specification of each of the fourteen components |
| `PartsProofs!PartsAreTyped` | `PartsSpec => []PartsTypeOK` |
| `PartsProofs!PartsAreSound` | one checker, `~Overlap` and `~Together` imply that `PartsSpec` has every property of the table of `MCParts` in section 3 |

*Subscriptions.* The three agreements of `StatusFits` are not inductive as they stand.
`ExpiredHasNoDaysLeft` needs that no waiting call has read a time later than the clock
(`CallsFromThePast`), since `Revive` and `ExpireNow` judge by it. `NoAutoRenewUnlessActive`
needs that a trial has no auto-renewal in *any* status: an exhausted, blocked or expired trial
may become `trial` again without a look at `auto`. `IInv` is `TypeOK`, `CallsFromThePast` and
`Sound`, these conditions on every row. One lemma per operator of the automaton says that what
it returns is a subscription and sound; `SaveStep` carries that to a transaction; the actions
follow in four groups (grants, closures, traffic, the others).

The action properties have one argument. `Honest` says what the row of a client may become, given
the events recorded with it: access does not change without one of the events the access list
follows, a paid term does not shrink without an expiry, a trial comes from a trial or from no row. Every
operator of the automaton is honest, a transaction replaces one row, so every step is honest about every
client (`StepIsHonest`). `TrialGivenOnce` needs one more invariant: a client who has used his
trial has a row (`TrialLeavesARow`), since no step deletes one.

*Event bus.* `EffectsOnce` is inductive only together with: a row that is stored and not
delivered has no effects committed; no two dispatchers hold one event (the row lock); a
dispatcher holds only pending events below `MAX_ATTEMPTS`. From them `Deliver` commits
once. For the refinement each step is shown to map to `Record`, `Deliver`, `Bury` or a
stutter: `Fail` is `Bury` at the last attempt and a stutter before, `Purge` a stutter because
it takes delivered rows only.

`DeadOnlyAfterPatience` speaks of the sum of the pauses between the attempts, a recursive function.
`PausesKept` says that a pending row is as old as the pauses it has been through, but for the rest
of the last one. That the function is such a sum, for every number of attempts, is shown by a
least counterexample (`WFMin` over the numbers, which, unlike the induction theorems, takes a set
and not an operator).

*Webhook inbox.* What a job that is about to commit has found out must still be so. That is
`LockIsHeld`: a job that pays has a webhook of a payment that is not closed, and is the only one
that pays for it, since `process_webhook_event` holds its row. With it the five statements carry
each other.

*Clients.* That inviters are older is not inductive by itself: the row of an inviter has to be
there, and be older than the row that a request is still holding back. `ClientsInv` adds the types
(`Typed`), that the code a request carries is of a stored client (`Carried`), that numbers
are taken once (`Numbered`), that a row a request holds fits what is stored, nobody
else's person or number (`HeldFits`), and that no two requests hold the same (`OneHolder`, the
unique index). `Upsert` keeps `OneRowEach` by the last two, `Attach` keeps the order by
`Carried` and `Numbered`. `InviterIsKept` needs `HeldFits` and `Typed`: the row that commits is new
or is one that is stored as it is.

*Sums.* `MapThenSumSet` folds with a CHOSEN order. The lemmas show that it exists on every finite
set, that the order does not matter, what taking an element out or changing one summand does, and that
it adds up over a union. Each is shown for a smallest subset that would contradict it.

*Traffic.* `SessionIsSound` says of each session alone how its phase, the bytes it moved, its hook,
its rows and what is booked fit together, and what a poll or hook under way has read of it.
Almost every step changes one session; a poll commits on all that it listed, each by itself.
`OnePoller` is needed because two polls that list the same session book it twice; arq cancels a
poll (300 s) before the cron starts the next. That `used` only grows rests on its being the sum
of the samples of the period (`UsageInv`): no purge takes one of them while samples are kept for
a period (`PeriodDays <= Retention`). The settings only enforce seven days, so that this is a
hypothesis and not an assumption about the code.

*Referrals.* The entries that a handler is about to commit were composed at the lock. `CommitFits`
says that they fit the journal, the cap, and the inviter as they are at the commit: nothing
that they depend on changes while the row is locked, except that entries leave the window of the
cap, which can only make room. One new base reward reaches at most one new tier,
because every tier up to the number of base rewards was granted before. The days that are called
applied are a sum of `Sums`; a commit extends the journal, a payment turns pending entries into
applied ones. `PayOutIsSound` keeps the entries that `apply_pending` has read pending until it
marks them, and its renewal waiting until then.

*Promo codes and devices.* Both rest on what the lock keeps: the request that has claimed a code will find
it valid, not used up and not used by its client (`CodeIsLocked`); the request that holds the advisory lock
has the next number, and room for it (`PlaceIsKept`), though devices may be revoked meanwhile. A key
leaves once because a number that was downloaded is not in Redis any more, and is never put there again
(`KeysAreOfRows`).

*Node files.* `CrlInv` adds to the claims being disjoint that they are of rows that are there
(`ClaimsAreRows`), without which a job could claim what another has just taken. `RoutesInv` splits
`FileIsLoaded` at its two stages: without failures and edits by hand, `ocserv.conf` is what the
file says unless somebody is between writing and rendering, and ocserv has loaded it unless
somebody is about to reload (`NobodyAt`).

*Installer.* Between a step and its mark the next run repeats the step, so the marks cannot carry
the proof. `InstallInv` says what a mark implies (`MarksAreTrue`), that passwords are numbered
as they are generated (`NumbersAreGiven`), that a run in its steps has the answers
(`AnswersAreThere`), and `EnvComesFirst`: a volume is there only when the step `env` is marked,
so that the secret it was made with cannot change any more. `MadeOnce` follows from each
step's effect being one of a few (`StepEffect`).

*Admin.* What was let through was counted before (`AttemptsAreCounted`). For the second factor a
request that works on it must still see the row that it loaded (`FactorIsSeen`). That is so only
when such requests do not overlap, hence the hypothesis `~Overlap`: section 3 has the
counterexample with two of them.

*Node health.* `OutagesAddUp` counts the alerts told and those still waiting: there is one outage
more than there are returns just while the node is down. It is inductive with `CheckIsFresh`,
what a check has loaded is what the row says, which holds for one checker (section 3 has what two
may do). `CertInv` orders the certificates: remembered, loaded, written.

*What clients are told.* A handler looks at the subscription as it is, and `past` has noted
all that was ever so (`FactsArePast`), whence an alarm is true whatever was delivered before.
`RemindersInv` is `NobodyIsPassedOver` with the order of the times: a run meets the ends that came
near since the run before, and a change makes an end that is not near yet or needs no reminder.

*Messages.* `RepeatsAreLosses` bounds a sum over all messages and is not inductive: a message that was
accepted and not yet marked has a copy that no loss accounts for. `Surplus` takes off the copy
that a row or a sender knows of, `CopiesAreLosses` bounds its sum, and each step changes one
summand. `AttemptsTakeTime` is for messages what `PausesKept` is for events; `PausesAddUp`
shows by a least number (`LeastNumber`) what the recursive sum of the pauses is.

*ocm.* `HostInv` says what a step can rely on in `run` (`TaskIsSound`): a copy that is being packed is
of a database that was there, a restoration that has emptied something has stopped the app. With
the order of the revisions (`GitTypes`) and the types of databases and copies (`DataTypes`) it
carries `AppKnowsItsSchema`, for any revisions and with the timer at work. `UpdateCanGoBack`
speaks of a copy that later copies push out. `CopiesInv` has that copies are of the past
(`FilesArePast`), that in the minute of the recorded copy no database is there, in a copy either,
whose migrations the recorded code lacks (`RecordedIsNew`), and that each task keeps what it was
asked for (`TasksAreSound`). When a copy is pruned, as many newer ones as are kept stay
(`NewerStay`). `~Together` is a hypothesis because a restoration and the timer's copy share
`/tmp/ocm.dump` (section 3).

*Access list.* The number of events owed has to cover the dispatchers at work (`EventsCoverJobs`),
or a settled one would make it negative.

*Composition.* The variables of the components are disjoint and a step of one leaves the others'
alone, so a behaviour of `PartsSpec` is one of each of them (`PartsAreApart`), and what the
theorems above say of each holds of the whole. `MCPartsAssumption` is the conjunction of the
assumptions of the components. The hypotheses of `PartsAreSound` are satisfied by the constants of
the run.

Every invariant that a passing run checks, every action property and the refinement are thus
stated by a theorem. Only model-checked: the liveness properties `EventsAreSettled`,
`AcceptedIsSettled`, `OverdueIsClosed`, `EndedIsClosed`, `OnlineIsBooked`, `NodeFollows`,
`ClientsAreTold`, `InterruptedIsFinished` and `RefusalEnds`, since TLAPS proves none under
fairness; and the counterexamples of the runs that expect one.

## 7. Not modelled

- Request handlers (admin API, Mini App, bot, CLI) call the flows and have no state of their
  own; what matters of them, the client object loaded early, is in `Subscriptions`.
- Parsing of provider payloads, `occtl` output and certificates: pure conversions. Failures
  appear as `Unusable`, `Fail` or the node being away.
- Plans and checkout are plain storage; a grant takes the terms of a plan as they are then.
- PKI: a list of serial numbers is all that `NodeCrl` needs of it; validity dates are left
  out, and with them what happens if the daily refresh stops for longer than they last.
- In `Traffic`, counters that restart with ocserv and session ids that are given again within
  the hook's tolerance; what the used traffic does to the subscription is `ApplyUsage`.
- Of the settings only the routes: the other keys are read afresh where they are used.
- Of the installer, swap and docker are of a server that has neither, so that both are done and
  marked; the questions of language, DNS and memory decide nothing later.
- Of `ocm`, what only shows or passes on (`doctor`, `logs`, `admin`), and the copy's way to
  another server beyond its failing.
- Times of sessions of the panel: a session may end at any moment in `AdminAuth`.
- Abuse detection only reads and alerts; audit is append-only; frontends and migrations.
- Wall-clock durations: how long a stale list stays on the node is reconcile's period.

## 8. Plan

Done: every component of section 1 that has behaviour of its own has a module. Left, in this
order:

1. Proofs. What still holds without the hypotheses `~Overlap`, one checker and `~Together`; the
   steps on which the liveness properties rest, as action properties.
2. `RowLocks`: the lock modes and orders of all transactions, deadlocks and who retries.
3. Restarts of ocserv's counters, and session ids given again, in `Traffic`.
4. `Announcements` over `EventBus` instead of over its promise, with handlers that fail for good.
