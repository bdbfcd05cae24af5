# rune-console: a TLA+ model

rune-console is a single-tenant Go daemon that guards a team memory: it registers
members, mails them one-time codes, hands out bearer tokens for the gRPC data plane,
decides which teams a token may read and write, keeps one connection to an encrypted
vector store, and updates itself. This directory holds TLA+ modules of the parts in
which a wrong order of steps is a wrong access decision, lost data or a service that
stays down, the TLC runs that check them on small instances, and TLAPS proofs.
`PROJECT.json` says which lines of `src/` each definition stands for.

## 1. Inventory

| Part | State | Operations | Who calls it |
|---|---|---|---|
| invite store `internal/invites` | `invites` table, `byHandle`/`byLease` maps | Issue, Lookup, Unwrap, ReportCompromise, RevokePending, RevokeAllPendingForMember, LoadFromDB; every write transaction first sweeps aged-out rows | console handlers, agents (Unwrap) |
| token registry `internal/tokens` | `tokens` table, maps by secret and by user, queue of last_used stamps | AddToken, RotateToken, RevokeToken, MarkActivated, Validate, the writer goroutine | issueCode, deactivate, delete; every RPC validates |
| member registry `internal/members` | `members` table and maps by id and email | Add, MarkInvited, Reinvite, Activate, SetSessionExpired, Update, Remove | console handlers, Unwrap |
| group store `internal/groups/store.go` | `groups`, `memberships`, `read_exclusions` and the maps and indexes over them | CreateGroup, RenameGroup, DeleteGroupWithMembers, Grant, RevokeDirectGrant, Revoke, RemoveUser, LoadFromDB | console handlers |
| judge `internal/groups/judge.go` | none: pure over the group maps | EffectiveRole, RecallScope, GroupAccess, CaptureTagSet, Permissions | every data-plane RPC |
| console handlers `internal/server/console_api*.go`, `selfinvite.go` | none of their own; no lock spans two store calls | createInvitation, resend, cancel, deactivate, delete, addTeamMember, role and removal batches, deleteTeam | browser |
| data plane RPCs `internal/server/grpc.go` | engine handle | Unwrap, LookupWrap, ReportActivation, Insert, Search, GetPermissions, GetCentroids | agents |
| team memory: the tag engine behind `internal/crypto/keys.go` | records with a set of team tags (external) | insert, search, retag, remove tag | Insert, Search, deleteTeam |
| login and sessions `internal/console/login.go`, `owner.go`, `session.go` | `console_owner`, `console_session`, login transactions, organization admin | start, callback, claim, session check, logout, boot | browser |
| data plane connection `internal/console/dataplane.go`, `workspace.go` | refresh credential, attach slot, one background loop, the expired badge | Connect, Start, Resume, Pause, Disconnect, connect loop, refresh loop | browser, timers |
| update engine `internal/updater/updater.go`, `backup.go`, `binary.go`, `system.go`, `release.go` | service binary and its previous copy, state paths, backup, lock file | Run: resolve, stop, back up, install, start, probe, roll back | operator, update agent |
| web update `internal/updater/webupdate.go`, `internal/commands/update_agent.go` | request file, status file, version cache | Check, Request, consume, heartbeat, terminal status, reconciliation | browser, supervisor |
| storage `internal/storedb`, `internal/db` | SQLite file | transactions, numbered migrations | every store |

How they interact: a console request is a sequence of store calls. Each store call
is atomic (one mutex, one transaction) and durable before it is visible, but
nothing makes two calls atomic: other requests, agents' RPCs and crashes come
between them. The code compensates by ordering (tokens die before members do,
codes are persisted before statuses advance, state goes back before the binary does)
and by undo steps (void the code, revoke the grant, remove the member, put the
displaced entry back) whose own errors are often dropped. Console and update agent
share nothing but two files; console and vector store nothing but a connection. That
is where the behaviour is hard, and what the modules concentrate on:

* *durability*: a token must not leave the daemon before its consumption is on disk;
* *clocks*: Go-side gates and SQL sweeps judge the same expiry separately;
* *two indexes and a table* that must tell the same story after every failed commit;
* *asynchronous writes* that arrive after the row they describe has changed;
* *interleaved requests* about one account, with undo paths and crashes;
* *tree-shaped authority* judged by walks in both directions, with exceptions cut out;
* *records that carry the tags* they were judged with when the tree changes under them;
* *goroutines that outlive their cancellation* and answers that were already on the way;
* *a replacement of the running program* that may fail or be killed at every step,
  with the undo of a partly done swap failing as well;
* *status read by the daemon that is being replaced*, from an agent that may be dead.

What makes each part correct: a code is redeemed at most once and never after it was
cancelled (invites); a replaced secret is dead for ever and bookkeeping never lands on
another secret's row (tokens); nobody is active without having redeemed a code, a
failed invitation and a successful delete leave nothing behind (handlers); every boot
succeeds, every judge gives the same answer, memory never leaks downwards and a cut
stays cut (groups); a deletion strands no record that was stored in time and shows
new eyes none but its own team's (team memory); the admin is the claimer, a sign-in is one session (login); attaches never
overlap and a slot is always freed (data plane); no entry is lost, no daemon runs on
newer state, every reported result is true (engine); no browser waits for ever and a
shown success is installed (web update).

## 2. Modules

| Module | Models | Notes |
|---|---|---|
| `OneTimeCode` | what an invite promises | abstract: a status that only moves forward, one release |
| `Invites` | the invite store | lock, commit or rollback, publish are separate steps; boot in two; implements `OneTimeCode` |
| `Tokens` | token registry, last_used writer, ReportActivation | |
| `Onboarding` | one account across members, tokens, invites and memberships | composes the four stores, one store call per step |
| `Groups` | group store, judge, membership handlers | recursion as recursive functions over the depth |
| `GroupsUndo` | a Grant and its undo as adjacent steps | extends `Groups` with one history variable |
| `TeamMemory` | Insert, Search, deleteTeam, the tag engine | extends `Groups`: the same store actions beside captures and deletions |
| `ConsoleLogin` | login, claim, sessions, organization admin | statements and cloud calls as separate steps |
| `Dataplane` | the connection to the vector store and its loops | handlers and goroutines with a program counter each |
| `Snapshot` | state backup and its restore | one action per rename, sync and removal |
| `ServiceUpdate` | what a run of the update engine promises | abstract |
| `Updater` | Engine.Run | extends `Snapshot`, implements `ServiceUpdate` |
| `WebUpdate` | request file, agent, status file, console | extends `ServiceUpdate`, which is its engine |
| `InvitesProofs`, `TokensProofs`, `OnboardingProofs`, `ConsoleLoginProofs`, `DataplaneProofs`, `UpdaterProofs`, `WebUpdateProofs` | theorems about the module each is named after | checked by TLAPS; `UpdaterProofs` covers `Snapshot` too |
| `TeamsProofs` | theorems about `Groups` and `TeamMemory` | checked by TLAPS; extends `TeamMemory` |

Each of `MCInvites`, `MCTokens`, `MCOnboarding`, `MCGroups`, `MCTeamMemory`,
`MCConsoleLogin`, `MCDataplane`, `MCUpdater`, `MCWebUpdate` extends its module for TLC.

**Invites.** `disk` is the table, `mem` the maps, `op` the mutator that holds the
write lock. `UnwrapEnter`, `RevokeEnter`, ... are the Go-side gates; `Commit` runs
`Swept` and the statement (`Written`) if the row counts and the forward-only trigger
(`StatementOK`) agree; `Rollback` is any error of `persist`; `Return` publishes and
replies. Issue draws its handle and reads the clock before it waits for the lock
(`waiting`). `Crash` may come anywhere; `BootSweep` and `BootLoad` are the two halves
of LoadFromDB. `ClockSetBack` moves the wall clock backwards. `released` and `voided`
record what callers were told.

**Tokens.** `byUser` and `byToken` are the two maps, `disk` the table. Validate stamps
under the lock and queues the stamp (`Enqueue`) after releasing it, so stamps queue in
any order; `WriterStep` throttles and writes rows keyed on user and secret.
ReportActivation is Validate followed by MarkActivated, with the lock free between.
Dates and instants share one clock; 0 is "never".

**Onboarding.** One email. `member`, `token`, `codes`, `grants` are the committed
state of the four stores, whose calls are atomic here (that each store is atomic and
durable is what `Invites` and `Tokens` establish). A request in `req` carries exactly
what its handler read earlier, e.g. the copy of the member. `Fault` is a store call
that is refused; a mail may fail after it was delivered. A self-invite goes on after
IssueSelfInvite: `Pin` resolves the CA pin, `SelfMail` is the encoding and the mail in
`console/invite.go`; when one of them fails nothing is undone. `deleted` and `undone`
record what a handler reported, `outcome` what became of a code and `by` which kind of
request abandoned it, that is, ended with neither a mail nor a try to void it.

**Groups.** `parent`, `name`, `direct`, `excluded` stand for rows and maps alike; the
indexes `children` and `byName` have no rows and are maintained by hand. `Chain` walks
up, `Subtree` down the index. Edit ranks with write: no decision in production tells
them apart. Requests that check membership in one call and grant in the next are
`request`; the undo of a failed mail is `AddFails`.

**TeamMemory.** `record` is what the engine holds, `removal` the deletions in flight.
Insert is `CaptureTags` (the judge) and `CaptureStores` (the engine), so the tree may change
between; a deletion is its lookups, its memory step (transfer or purge) and the
deletion of the team, and every engine call may take effect and report an error. The
engine itself is external. `keys.go:293` leaves to it what RemoveTag does with a record's
last tag (the guard documented for PurgeTag is of a stub), so `MayStrip` says which
answers it may give: keep the tag, which leaves the record unreachable, or strip it, which
makes the record public. The run lets it do either at every call. `missed` marks the
records that met one of the known races or a purge of their only tag.

**ConsoleLogin.** `owner` and `sessions` are rows, `logins` and `admin` memory. A
callback is take-state, cloud exchange, `Bind` (INSERT OR IGNORE), `ReadBack`,
`Register`, `CreateSession`. `Boot` derives the admin again from the row. `unread`
records that a failed read hid the claim since the boot.

**Dataplane.** `connecting`, `attached`, `target`, `expired`, `cancel` are the fields
under `d.mu`; `op` and `loop` say what every handler and goroutine does next. A
cancelled goroutine's unanswered calls fail; an answer already received is processed.
A handler that finds the slot held for another runspace unlocks (`SlotAwaited`) and then
calls Stop (`StaleStopped`), which hits whatever loop runs by then.
The three sections under the mutex that follow a successful attach are one step
(`AttachRecorded`). `paused` records whether a stop or delete had the data plane to
itself, which is when it promises something.

**Snapshot and Updater.** Contents of a state path are their kind and the version of
the daemon that wrote them. `staged` and `displaced` are the two places of the restore's
container, `swapped` the records `rollbackSwaps` goes through, `safe` is `cleanupSafe`.
A failing call may have had its effect (`StopFails`, `CopyFails`). `called` are the runs
that read their version and did not try the lock yet; `raced` records that such a run
got the lock after another one had replaced the binary. A kill forgets the run and
leaves the machine as it is; a reboot starts whatever binary is there.

**WebUpdate.** `inbox` and `status` are the two files, `age` the time since the last
status write, `asking` the browsers' requests in flight, `beat` the heartbeat goroutine.
`Shown` is what the daemon that serves would answer: its own version, the inbox and the
age of the status go into it. The daemon's memory is lost whenever the engine stops it.

## 3. Runs

| Run | Instance | States | Shows |
|---|---|---|---|
| `invites` | 2 handles, 2 members, TTL 2, 2 waiting Issues, 1 clock step back | 3.0 M | single release, cache never ahead of the table, plaintext scrubbed, a voided code stays void, gate and sweep agree while the clock was not set back, refinement of `OneTimeCode` |
| `tokens` | 2 users, 2 secrets, 2 calls, clock 3 | 2.7 M | maps and table agree, replaced secrets stay dead, out-of-order stamps never land on another secret's row, last_used never moves back |
| `onboarding` | 2 requests, 1 agent, 2 member ids, 2 secrets, 1 crash | 1.8 M | nobody is active without having redeemed a code of their own id; statuses never run ahead of invites |
| `onboarding_serial` | 1 request at a time, 1 agent, 3 secrets, 1 refusal, 1 crash | 1.4 M | a successful delete is complete; a rolled-back invitation leaves nothing; a redeemable code was announced or is in its request's hands, but for a refused revocation, a crash and a failed self-invite |
| `groups` | 1 user, 4 groups, 2 names, depth 3, 1 request | 29 k | every boot succeeds with the same indexes, judges agree, capture stays up, access appears only by a grant |
| `team_memory` | 1 user, 3 groups, depth 2, 1 record, 2 deletions | 0.7 M | only the known races and a purge of its only tag strand a record; a deletion shows to new eyes only records of its own team: to the target's readers, or by the strip of a last tag |
| `login` | 2 accounts, 3 sign-ins, 2 browsers, 2 refusals, 2 crashes | 0.9 M | the admin is the claimer; one session per sign-in |
| `dataplane` | 2 handlers, 2 loops, 2 tokens, 2 runespaces, 3 requests, 1 restart | 206 k | attaches are serial, the slot is freed, a live credential is kept, a wrong badge heals, a stop stays a stop |
| `updater` | 2 runs, 2 state paths, 2 releases, 2 faults, 1 kill | 0.9 M | restore is safe, rollback complete, no daemon on newer state, refinement of `ServiceUpdate`, a stopped service is answered for |
| `web_update` | 2 browsers, 2 releases, 2 jobs, 1 fault, 1 kill | 0.3 M | shown success is installed, terminal is final, shown state settles, accepted requests are answered |
| `onboarding_orphan`, `groups_undo` | violations | | see findings |

Why the bounds are enough. Two handles and two members make a call about one meet the
sweep of another; TTL 2 with clock 3 lets an invite be issued before and expire after
another; one step back is enough for memory and table to disagree. Two calls are the
least that can queue stamps in the wrong order around a rotation. Two requests give
every pairwise race of handlers, three secrets in the serial run invite, resend and
self-invite. Users do not interact in the group store (a row names one user), so one is
enough; four groups hold a chain of three with a branch, which has grandparents,
siblings and the depth limit. In `team_memory` three groups are a parent, a deleted
team and a transfer's target, and two deletions may name each other; `MayStrip` holds both
policies about a last tag. Three sign-ins are
two of one account around one of the other. Two loops are an old one that outlives its
cancellation and its successor; two tokens a stale and a fresh one; two runespaces a
Connect that must drop the attach of the other. Two state paths and two faults are the
least for a swap that fails after a first entry was swapped *and* whose undo fails;
with three releases, a pinned second one and one fault (3.0 M states, longer than the
regular run) the same properties of `Updater` hold, and the exception `~raced` is
needed. One fault and one kill in `web_update` hit every file operation and every step
of the agent, one at a time.

The clock, the ids, the secrets, faults, kills and crashes are bounded by named
constants. Deadlock is checked except where the bounds use up the inputs and the system
is then at rest (`groups`, `team_memory`, `updater`, `dataplane`). Symmetry is used only
in runs without liveness.

Fairness, and why the code justifies it:

* `Updater`: `WF(EngineStep)`. A run that is not killed continues: every command and
  probe has a timeout. Nothing is assumed of operators, publication or daemons.
* `WebUpdate`: browsers' requests, agent, heartbeat write and engine continue; the
  supervisor starts the agent while a request lies there (path unit); time passes.
  `SF(RecordTerminal)`: stopHeartbeat waits in a select whose stop channel is closed,
  and the ticker cannot win it for ever.
* `Dataplane`: handlers and loops continue; `SF` on the answers of an exchange and of a
  dial: the loops retry for ever with a bounded delay, so a runespace that is up and
  keeps being asked answers at some point.

### Findings

The two violation runs are places where the code does something else than a comment
beside it says; the quotes are in `PROJECT.json`.

* `onboarding_orphan`: when the mail to a new member fails, the member and the grant
  are rolled back and the token minted for them is not.
* `groups_undo`: Grant lifts the user's exclusion and the undo does not put it back, so
  a failed *add to team* returns to a user the inherited read they had been cut from.

### Observations

Behaviour met while modelling that a maintainer should know and no passing property
excludes. Accounts and tokens:

* `console_api_users.go:526`: a resend or an invitation that looked the member up before
  a delete issues a code, a credential or a membership after the cascade passed it.
* `console/invite.go:58-72`: a self-invite whose registration string or mail fails (or
  whose pin does, `selfinvite.go:106`) leaves an invited member, a live token and a pending
  code that nobody has. A second self-invite issues a code of its own, but an invitation
  of that address takes the pending code for a delivered one (`needsCode`) and mails none.
* `console_api_users.go:1080`: a resend does not void the older code, which then hands
  out a token that the resend rotated away.
* `tokens/store.go:199`: a rotation between ReportActivation's two calls makes the *new*
  secret look activated.
* `tokens/store.go:447`: the last_used writer throttles per user, not per token (comment
  at 426).
* `grpc.go:1036`: a crash between Unwrap and Activate leaves a burned latest code and a
  member who is not active, which `console_api_users.go:228-231` takes for impossible.
* `console_api_users.go:555-563`: a resend between the online check of a deactivation
  and its revocation kills the code just mailed.
* `console_api.go:514`: a removal between the check and the Grant of a role change is
  undone by that Grant, where the comment at 515 expects an error.
* The boot-time orphan report that `console_api_users.go:1091` mentions is not there.

Team memory: a capture judged before a deletion stores under the dead tag after it; a
purge leaves a record its last tag, or makes it public, as the engine decides
(`keys.go:298`; `teamdelete.go:14` drops the guard against it); a deletion refused after its memory step leaves the
memory moved; the target of a transfer is not looked up again before the retag; the
team is resolved twice from the same reference.

Login: a second account is admitted without rights where `owner.go:12` and `:80` say
refused; when the read-back after the claim fails there is a claim without an admin
until the next login or boot; a session row whose deletion at logout fails stays live
until it lapses, and the error is only logged.

Data plane: a re-dial that was already answered attaches again after Pause
(`PausedStaysDetached` excludes it through `paused`); a 401 for the old token may raise
the badge over a fresh credential until the next exchange; after a late re-dial the
engine may be attached to another runespace than `attachedID` says; a Resume whose wait
for the slot ran out is dropped.

Updater: `CurrentVersion` is read before the lock (`updater.go:131`), so a run that
waited through another one may install a pinned older release over newer state, which
`UPGRADING.md:66` calls unsupported; the lock file lives in the backup directory, so two
runs with different `--backup-dir` do not exclude each other (the model assumes one).

Web update: with an operator's run beside an agent the agent may report success for a
release that was replaced meanwhile (`overlap`); when the sync of a published request
fails, `os.Remove` takes whatever request is at the path (`webupdate.go:488`); a new
daemon reads success from its own version before the engine may still roll it back.

## 4. Proofs

The theorems hold for every value of the constants: any number of calls, browsers,
goroutines, state paths, releases, faults and crashes. The only assumptions are the
named `ASSUME`s of the modules: the bounds are naturals (zero releases, paths or ticks
are excluded where the program cannot have them), the sets that are counted are finite,
`MayStrip` is a non-empty set of truth values,
console requests are not agents, and the strings that stand for Go's nil or for a group
without a row (`"none"`, `"nobody"`, `"top"`, `"unborn"`, `"gone"`, `"noname"`) are not
names of accounts, secrets, users, runners, goroutines or groups. TLC evaluates them in
every run. Three theorems of `OnboardingProofs` have a hypothesis besides, which their
statements spell out: `OneAdmin`, the console serves one request at a time, and
`OneFault`, at most one call fails. They are the hypotheses under which the run
`onboarding_serial` checks the same properties.

No property below is inductive as a run states it. Each proof module begins with its
inductive invariant `IInv`, a conjunction of named parts that was model-checked before it
was proved, then has one lemma per action, and ends with the theorems. Type correctness
is part of every `IInv`.

| Module | Theorem | States |
|---|---|---|
| `InvitesProofs` | `TokenReleasedOnce`, `DurableBeforeRelease`, `CacheCoherence`, `PlaintextScrubbed`, `CancelIsFinal` | `SingleRelease`, `ReleaseIsDurable`, `CacheNotAhead`, `PlaintextOnlyPending`, `VoidedStaysVoid`, clock set back or not |
| | `GateAndSweepAgree` | `GateAgreesWithTable` |
| | `Refinement` | `Invites` implements `OneTimeCode` |
| `TokensProofs` | `RevocationIsFinal`, `RegistryIsTheTable`, `StampsAreOwn`, `LastUsedNeverBack` | `DeadStaysDead`, `CacheMatchesTable`, `StampIsOwn`, `LastUsedForward` |
| `OnboardingProofs` | `ActivationIsEarned`, `StatusFollowsInvite` | `ActiveWasRedeemed`, `InvitedHasCode` |
| | `DeleteLeavesNothing` | `DeleteIsComplete`, under `OneAdmin` |
| | `NoCodeForgotten` | a redeemable code was announced or is in the hands of the request that issued it, but for a refused revocation, a crash and a failed self-invite; for any number of requests |
| | `FailedInviteUndone` | `FailedInviteLeavesNothing`, under `OneAdmin` and `OneFault` |
| `TeamsProofs` | `BootAlwaysSucceeds`, `JudgesAgreeAlways`, `CaptureNeverLeaksDown`, `AccessOnlyByGrant` | `RestartIsInvisible`, `JudgesAgree`, `CaptureStaysUp`, `AccessFollowsGrants` |
| | `NoRecordStranded`, `OnlyItsOwnExposed` | `OnlyRacesStrand`, `DeletionExposesOnlyItsOwn`, for either policy of the engine about a last tag |
| `ConsoleLoginProofs` | `AdminIsTheClaimer`, `LoginGivesOneSession` | `AdminIsOwner`, `OneSessionPerLogin` |
| `DataplaneProofs` | `AttachIsSingleFlight`, `PauseHolds`, `CredentialSurvives` | `AttachesAreSerial`, `PausedStaysDetached`, `LiveCredentialKept` |
| `UpdaterProofs` | `RestoreStepKeeps`, `RestoredIsTheBackup` | every step of a restore keeps `RestoreInv`; a restore that reports success left the archived state |
| | `RestoreSafe`, `RollbackComplete`, `StateIsNeverNewer` | `RestoreIsSafe`, `RollbackIsComplete`, `NoDaemonOnNewerState` |
| | `EngineImplementsService` | `Updater` implements `ServiceUpdate` |
| `WebUpdateProofs` | `ShownSuccessIsTrue`, `TerminalStays` | `SuccessIsInstalled`, `TerminalIsFinal` |

What the invariants add, and why the properties need it:

**Invites.** `RowShape`: a record keeps its plaintext exactly while it is pending.
`DownEmpty`: nothing is in memory, waiting or in flight while the daemon is down.
`Coherent`: with the lock free every cached record agrees with its row up to a sweep;
with a mutator before its commit the gate it passed still holds of the cache; after its
commit, what it is about to publish agrees with the rows. The last part is what makes
`Return` safe although the table changed two steps earlier. `History`: a handle is
released at most once and only when its row is consumed on disk; a voided handle is
expired or revoked on disk. `WrittenFacts`, `PublishedFacts` and `SweptFacts` say what
transaction, publication and sweep do to one row. The count that `expectRows` compares
needs `RevokeAllMatchesLive`: the rows that a revoke-all's WHERE clause selects after
the sweep are exactly the invites it counted in memory. `GateAndSweepAgree` rests on
`Steady` besides: while the clock was not set back, no row expired before its time, no
call holds a clock reading from the future, and a record that a call finds in date is
equal to its row, so the Go-side gate and the SQL statement cannot disagree.

**Tokens.** `Sound` says of a token in table, cache or mutator that its secret was minted
and never replaced and its stamp is a past use of that very secret. `RowsFollow`: each
row is the cached token with an older stamp, or after a commit the token about to be
published. `OpSound`: a put carries a secret that is nowhere yet. The two that are not
obvious are about stamps: `StampsSound` (a stamp in a call or in the queue names a
minted secret and is not newer than what the cached token has seen, and until the
writer's first write for a user not older than the row) and `WriterAhead` (what the
writer remembers is never behind the row). Together they make last_used monotone
although stamps queue in any order and the writer's memory is lost in a crash.

**Onboarding.** `RequestsSound` is what a handler may rely on between two store calls: a
request that is about to mail, pin or void names an issued code of the id it read, one
that is about to activate holds the secret of a consumed code. `Drawn`: ids and secrets
in the stores were drawn. `Budget` counts: an id, a secret, a code is left for every
request that is about to draw one. Its proof (`CallingBound`) follows the number of
requests at a call by the cardinality of a set that gains or loses one element. The
theorems hold for concurrent requests; `ActiveWasRedeemed` survives the races of the
observations because a status only follows a redeemed code of the *same* id.

`DeleteIsComplete` is false for concurrent requests: an invitation that looked the
member up earlier may grant, mint or issue between two calls of the cascade. With one
request at a time (`OneAdmin`) agents, refusals and crashes still interleave with it, and
`SerialInv` carries the proof. `AtWork`: a request past its lookup works on the member
that is registered. `CascadeSound`: what the cascade cleared stays cleared until its next
call, since nothing an agent does mints, grants or issues. `IdsDrawn`: memberships and
codes are those of ids that were drawn, so a new member never inherits those of a deleted
one. Steps are split into those that only take away (`Eases`), which keep all of it, and
the few that add.

`Accounted` needs no such hypothesis: for any interleaving, refusal and crash, the code a
request issued is announced, void or still held by it. The exceptions are named in it: a
revocation that was refused, a request that died, and the failed self-invite, known by
the kind of the request that abandoned the code (`by`). An invitation or a resend
never gives a code up without trying to void it. `FailedInviteLeavesNothing`
does need `OneAdmin` and `OneFault`: with two failures the undo itself may be refused
(`rollbackInvitation` discards the error), and the property is false. `FailInv` then says of
the request that created its member (`Fresh`): the member has no code but the request's
own, nobody can redeem it before it is announced (`OutSound`), and an undo step is
reached only after the one failure, so it succeeds.

**Groups and TeamMemory.** `Forest` is the heart: there is a level for every living
group, 1 for a root, one more than the parent's for any other, at most `MaxTreeDepth`.
It is an existential, kept by each action with the levels as witness (`CreateGroup`
extends them, the others keep them). `RowsSound`: the indexes `children` and
`byName`, which are maintained by hand, list exactly what the rows say; siblings differ
in name; a membership or exclusion is one of a living group. The judge's walks are
recursive functions over the number of steps left. The library's induction theorems
cannot be instantiated here, so both facts about them, that the recursive function exists
and what it returns, are proved by the least counterexample, which
`WellFoundedInduction` gives without an operator parameter (`LeastNatural`). The results
are stated once, as `TreeFacts`: up from a group the walk finds the group and what its
parent finds, is transitive and has no cycle, reaches a root within `MaxTreeDepth` steps,
and the walk down the index finds exactly the groups whose walk up passes by. From there
`ScopeFacts` characterises `RecallScope` by the walk up alone, which is what
`JudgesAgree` compares, and `AccessFollowsGrants` follows by asking of each action what
it does to one chain (`KeepsPlaces`, `EntersRightly`). Boot succeeds because the levels
bound the depth that LoadFromDB checks and every parent is a living group.
`MemoryInv` adds `RecordsSound`: a record that was stored in time carries no tag of a
team whose memory was dealt with, although several deletions and captures are in flight,
and a record without tags was stripped by a purge of its only one;
`Reworked` says what one engine call may do to one record. `OnlyItsOwnExposed` is stated
for every `MayStrip`: with an engine that keeps a last tag its second case is void, and a
purge shows nothing to anybody.

**ConsoleLogin.** `TakenOnce`: a state is held by at most one callback and is gone from
the transactions while it is. `SessionsAreTaken`: the login of every session is over and
no request that may still create a session shares it. `AdminFromClaim`: whoever is about
to be registered is the owner; a claim without an admin has a request on its way to
register it or met an unreadable row.

**Dataplane.** `SlotSound`: `connecting` is set exactly while one handler or one connect
loop holds the slot, which is what passes it from `Connect` to the goroutine it starts.
`ContextSound`: a goroutine that is not cancelled is the one `d.cancel` would cancel,
hence a stop cancels all. `PauseSound`: from the moment a stop has the data plane to
itself no goroutine is past the point at which cancellation helps. `LoopsSound` has the
fact behind `CredentialSurvives`: a token that was rejected is not the valid one.

**Snapshot and Updater.** `RestoreInv` follows the position of every entry. `Looping`:
paths before `entry` hold the archive, later ones are untouched, the current one is
waiting, between its renames or swapped. `Undoing`: what still has a swap record is
swapped, what has none is back unless an undo failed. From these, wherever a restore
stops, each original entry is at its path or in the container. `Updater` adds where the
binary is at every step (`BinaryKnown`), that a daemon runs the installed binary or not
at all (`ServiceKnown`), and `Ordered`: as long as no run overtook another before the
lock, everything on disk was written by the installed binary or an older one, and what is
in the backup by the binary the run found. The refinement maps each action to the
abstract step with the same effect on binary, daemon and report, or to a stutter; every
step of a restore stutters.

**WebUpdate.** `JobsFresh`: a job id that is about to be published is nobody else's.
`StatusOwned`: from the agent's first write to its last, the status file is the running
one of its job, which is why a terminal status changes only for a new job.
`AgentAlone` and `SuccessKept`: without an operator's run beside it, an agent works from
the binary it was started from towards a target that is not behind it, and later runs
start from that target or beyond.

Only model-checked:

* liveness under fairness, which is out of the prover's reach (`StoppedIsAnswered`,
  `ShownSettles`, `AcceptedIsAnswered`, `SlotIsFreed`, `FalseBadgeClears`).

Every other property of a passing run is a theorem. The two violation runs state what the
code does not do, so there is nothing to prove.

## 5. Not modelled

Cryptography and key files, the internals of the vector store and of the cloud service
(their calls only as outcomes), HTTP, JSON and paging, audit log, command line, archive
formats, the parsing of service-manager output, local release archives, a check-only
update, the generated protobuf code, the browser application, deployment templates. The
storage layer appears as atomic commits that may be refused; its migrations are SQL run
once at boot. `normalizeTerminalState` (a finished job is shown as idle once a later
release is known) only relabels what is shown and is left out of `Shown`. Functions
without a caller in production (`groups.DeleteGroup`, `ExcludeRead`, `CanGrant`,
`PurgeGroupTag`, `members.Update`) are not actions.

## 6. Plan

All modules of the inventory that are worth a model are written, and every safety property
of the passing runs is proved. What could follow:

1. A refinement from the stores to `Onboarding`: that a call of `Invites` and `Tokens`,
   with its lock, commit and publication, is the one atomic step `Onboarding` takes it
   for. Today that rests on the theorems of the two modules and on reading.
2. `FailedInviteLeavesNothing` with the refused undo made explicit, so that the theorem
   says what exactly is left for every number of failures instead of assuming one.
3. `DeleteIsComplete` as a property of overlapping requests, once the code holds a lock,
   or checks again, over the cascade.
