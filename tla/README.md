# TLA+ verification of ovpn-admin

ovpn-admin is a Go web portal that administers an OpenVPN server: it issues and
revokes client certificates, edits per-user routes, enforces those routes with
iptables, talks to OpenVPN's management console, and authenticates its own
administrators. This directory holds TLA+ models of its stateful core, TLC
configurations that check them on small instances, and TLAPS proofs of the
properties that hold for every instance. Line numbers refer to the source files in
the root of the repository; `README.md:N` is the repository's own README.

## 1. Inventory

| Component | State | Operations | What is hard | What makes it correct |
|---|---|---|---|---|
| Sessions (`auth.go`) | signed tokens; per-user epoch and logout blacklist, each in memory and in a file | sign, verify, bump epoch, revoke, load | failed writes, restarts, expiry and cap of the blacklist | a session that was killed is never accepted again |
| Admin passwords (`auth.go`) | htpasswd table in memory and in a file; forced-change gate | login, logout, change password, start-up | a change works under four separate locks and can fail at two of them | disk and memory agree; the temporary password stays gated |
| Second factor (`totp.go`, `totp_handlers.go`) | secrets store and enrolment marker; spent challenges | setup, confirm, disable, login with a code | check and write are separate; store and marker are two files | a code is spent once; enrolment is never silently lost |
| Login rate limiter (`auth.go`) | failure trackers by address and account | check, record, evict | lock against eviction | a lock holds for its time |
| Firewall (`firewall.go`) | iptables chain in the kernel; the controller's account of it; event map and wake-up channel | start-up, user change, common change, reconcile, self-heal | any command can fail; the chain cannot be read back; a crash keeps the rules | account covers the chain; the chain converges to the policy |
| Management console (`mgmt.go`, `mgmt_broker.go`, `app.go`) | one TCP connection that serves one client; broker registry; outstanding command | client authentication, status, kill, switching on and off | untagged replies, timeouts, broken connections, overlapping starts | a confirmed kill is a kill; a known status is current; nobody waits for a dead loop |
| API tokens (`apitokens.go`) | token records in memory and in a file | create, verify, touch, revoke | roll back on failed writes | a revoked token stays revoked |
| VPN users (`users.go`, `internal/ovpnuser`) | certificates, password rows | create, revoke, unrevoke, rotate, delete, change password | two stores changed one after the other, then a kill | a revoked user is locked out of both |
| Certificate stores (`store_filesystem.go`, `kubernetes.go`) | `index.txt` or Secrets, CRL | revoke, unrevoke, rotate, delete | read-modify-write without a lock; one API call at a time | index and CRL agree |
| CCD and common routes (`ccd.go`, `common_routes.go`) | a file per user; a versioned list | apply, import, refresh, rerender | fan-out from a stale snapshot | every file reflects the list |
| Server configuration (`server_config.go`) | `server.conf`, backup | apply, toggle | restart fails, roll back | a failed apply leaves the old file in force |
| Traffic (`traffic.go`) | per-session counters, monthly totals | poll | restart between two statements | bytes are counted once |

Interaction: HTTP handlers call each other's packages directly, in one goroutine
per request. The CCD and common-route handlers push events to the firewall
controller; the controller polls the console through the broker; revoke and rotate
end with a kill through the same broker; the MFA and password handlers share the
session epochs. `PROJECT.json` lists every component, what is modelled of it, and
the hazards line by line.

## 2. Modules

| Module | Models | Used by |
|---|---|---|
| `SessionTokens` | session layer: minting, verification, epochs, blacklist, loads | extended by the next two |
| `AdminSessions` | login, logout, password change, gate, start-up | `MCAdminSessions` |
| `AdminSessionsProofs` | theorems about `AdminSessions` | |
| `AdminMfa` | second factor, over `SessionTokens` | `MCAdminMfa` |
| `AdminMfaProofs` | theorems about `AdminMfa` | |
| `Firewall` | chain, account, event queue, start-up | `MCFirewall` |
| `FirewallProofs` | theorems about `Firewall` | |
| `MgmtBroker` | client-authentication loop, broker, polls and kills | `MCMgmtBroker` |
| `MgmtBrokerProofs` | theorems about `MgmtBroker` | |
| `CertLifecycle` | abstract: what a certificate store promises | instantiated by the next two |
| `VpnUsers` | VPN accounts on the filesystem backend: handlers, `index.txt`, CRL, password rows | `MCVpnUsers` |
| `KubernetesStore` | the same store on Kubernetes secrets, and where a CCD is kept there | `MCKubernetesStore` |
| `CertStoreProofs` | theorems about `VpnUsers` and `KubernetesStore`, their refinements of `CertLifecycle` among them | |
| `CcdRoutes` | CCD files, common routes, global full tunnel | `MCCcdRoutes` |
| `CcdRoutesProofs` | theorems about `CcdRoutes` | |
| `ServerConfig` | server configuration editor, the OpenVPN container | `MCServerConfig` |
| `ServerConfigProofs` | theorems about `ServerConfig` | |
| `Traffic` | traffic accounting | `MCTraffic` |
| `TrafficProofs` | theorems about `Traffic` | |

**SessionTokens.** A token is its payload; the HMAC is unforgeable and its key
outlives restarts. Epochs and blacklist are kept twice (memory, file). Files are
replaced by an atomic rename, so a write happens or leaves the old file; the
parameter `persisted` says which. `bumpUserEpoch` and `revokeToken` include the
write and the roll back, because the code makes them under one lock.

**AdminSessions.** A request is a record in `req`; its `stage` is the last step it
completed. Requests are cut exactly where the handler releases a lock:
`ChangeAuthenticate`, `ChangeValidate`, `ChangeCommit`, `ChangeBump`, `ChangeCopy`,
`ChangeSave` are the lock-delimited parts of `adminChangePasswordHandler`, and
`ChangeRollback` its two error paths. `CrashRestart` can come between any two of
them and runs `initAuth`. `killed`, `loggedOut` and `reported` are history
variables: what the program has promised.

**AdminMfa.** The same cutting, for `mfaSetupHandler`, `mfaConfirmHandler`,
`mfaDisableHandler` and `mfaLoginHandler`. A clock tick is one TOTP step. Secrets
and backup codes are numbers; the code of a step is the step. `StoreLost` (external)
removes the secrets file, and `CrashRestart` decides whether the start is refused.
`PasswordChange` is the one effect of the password handler that matters here, a
moved epoch. An `initAuth` that refuses to start because a file is unreadable
changes nothing and is left out.

**Firewall.** `accepts[k][c]` counts the ACCEPT rules of session `k` for CIDR `c` in
the kernel; `session[k]` is the controller's account. `Refusals` chooses which
commands iptables refuses in an event; deleting a rule that is absent always fails.
`initChain` is one action per command. `push` is two steps (store under the lock,
then the non-blocking send), and the loop is three (receive, swap the map, handle).
An event is handled in one step, because the handler holds `fc.mu`; the policy that
it reads session by session is read at once. A reconcile is two steps: the snapshot
of the clients, and its application; `push` cannot store in between, the world can
change. `EvConnect` and `EvDisconnect` are not pushed by any production code.

**MgmtBroker.** One server. `conn[o]` is the o-th connection of the loop; `sent` and
`wire` are the two directions of its stream; `serving` is the client the console is
serving. The loop's select is one action per case, plus one per way in which the
write it makes can fail. The deferred calls on the way out are steps of their own
(`CloseDone`, `unregisterBroker`, `CloseConn`). `exec` is offer, wait and its three
ways out. OpenVPN (`ConsoleAnswers`, `Effect`, `Reply`, `ClientConnects`...) is
external and modelled from how the code uses it: it answers commands in order, and a
kill is acknowledged with `SUCCESS` only when it found the client. A CONNECT block is
one line. The status text is its list of clients and its END line.

**CertLifecycle.** The abstract specification of `storage.Store`: certificates are
issued, a published CRL decides which of them are `usable`, and one that was reported
as `withdrawn` (revoked, rotated out, deleted) is not in a later CRL's free list until an
unrevoke is asked for. `VpnUsers` and `KubernetesStore` both implement it
(`ImplementsLifecycle`): `issued` is what was signed, `usable` what the CRL that OpenVPN
reads does not list, `withdrawn` what was reported to an administrator.

**VpnUsers.** A handler of `users.go` is the series of calls that `Path` lists; each call
is an action that can fail, and what a failure does (report, ignore, roll back) is
decided where the code decides it. The certificate store is inlined: `index` is
`index.txt`, one line per serial; `UnrevokeClient`, `RotateClient` and `DeleteClient`
read it, change their copy and write the copy (`copy` in the request). `fRead` returns
an empty file on an error and `fWrite` truncates first; `MaxLosses` allows it. easyrsa
(`BuildClient`, `EasyrsaRevoke`, `GenCrl`) is external and modelled by what the store
expects of it. `rows` is `users.db`, with the refusals of each openvpn-user command.
Password authentication is switched on (`passwordAuthActive`); without it the calls to
openvpn-user do not happen. `live` are established tunnels; a client may connect with any
certificate that the CRL lets pass and whose row does not deny it.

**KubernetesStore.** Each API call of `kubernetes.go` is an action; `Path` lists the
calls of each operation. A certificate's secret has a version, and an update of a
secret that changed since it was read is refused (`Conflict`), as the API server does;
the secrets of `index.txt` and of the CRL are overwritten. A call can fail before or
after it took effect. `Boot` is `run()`, before which nothing is served; `RenewalTick`
is `crlRenewalLoop`; `ListUsers` copies `index.txt` to the disk, on which
`checkUserExist` relies. The content of a CCD is a model value here; only where it is
kept, transferred and overwritten is modelled.

**CcdRoutes.** The file `ccd/<cn>` is the only copy of a user's own settings, so
`Render` (`modifyCcd`, `mergePushRoutes`, `mergeExclusions`, the template) and `Parse`
(`parseCcd`) are modelled by what they keep: an address that several sources push has one
line, whose comment names the first of them. `crit` is the holder of `ccdMu`: an edit, a
pass of `rerenderAllCcds` or a pass of `refreshAllUserDomains`, file by file. A change of
the common routes or of the global switch is committed at once and leaves a member of
`renders`, the goroutine that will render it. The scheduler resolves without a lock
(`SchedulerResolve`) and applies later (`SchedulerApply`). `userCreate` seeds the file
without `ccdMu`, and `DeleteUser` (`userDelete` with `DeleteClient` of the filesystem store)
removes it without `ccdMu`: the file and its static address are free for others from then
on, and `intent` is reset. A removal that fails is only logged, and a pass that has read the
file before writes it again: then the file stays and the user is `spoiled`, until a new user
of that name is seeded. `ChangeStatus` (revoke, unrevoke) leaves the file alone. `routes`
and `switch` are what is on disk of `common` and `glob`; a restart that cannot load them goes
on with an empty list or with the defaults. A common-route store that cannot be written
changes nothing.

**ServerConfig.** `mem`, `json` and `conf` are the three copies; `run` is what OpenVPN
runs on and `sum` what its container remembers of `server.conf`. The steps of `apply()`
are actions under `applyMu`; `PutBegin` reads the loop's switch before that lock and
`Sync` uses it after. A configuration has one field per category of `categorizeChanges`;
one value of the hard field passes the validator and does not start. A failed persist
leaves the JSON alone (the file is replaced at once) or has replaced it (a Kubernetes update
whose answer is lost). `Start` is the part of `main` that loads the JSON and renders
`server.conf`; when it cannot load the JSON it only warns and runs on `Defaults`
(`main.go:312-326`). `unread` records which copies hold these defaults in the place of what
was saved: memory, or the JSON too, after the roll back of a failed save wrote them there.
`OpenvpnStart` and `Watch` are the script of the `openvpn` container in the Helm chart
(`charts/openvpn-admin/templates/deployment.yaml`) and the checksum watcher it starts.

**Traffic.** One counter stands for received and sent bytes; the monthly row is kept per
session, so that what was counted can be compared with what OpenVPN counted. `AddMonthly`
and `SaveSession` are the two writes of `update`; `torn` and `dropped` record that the
second or the first of them was lost.

A type invariant `TypeOK` is in every module; the runs check it where it says more than
types (`AdminSessions`, `Firewall` and `Traffic`). For these, `MgmtBroker`, `VpnUsers` and
`KubernetesStore` it is proved.

## 3. Runs

Passing runs, with the distinct states TLC reaches:

| Run | Shows | Instance | States |
|---|---|---|---|
| `AdminSessions` | killed and logged-out sessions stay dead, no step revives one, temporary password gated, restart keeps passwords | 1 login, 2 logouts, 1 change; lifetime 1, clock 2, blacklist of 1 | 118 thousand |
| `AdminMfa_login` | a code is accepted once, a live challenge answered once | 2 logins (symmetric), 2 challenges, 3 TOTP steps | 1.5 million |
| `AdminMfa_enrol` | enrolment is not silently lost, earlier sessions stay dead | 1 login, 1 enrolment request, lost store, crashes | 421 thousand |
| `Firewall` | account and chain agree, no lost wake-up, DROP before handlers, convergence | 1 client, 1 route, 3 changes, 1 failure, 1 crash | 611 thousand |
| `MgmtBroker_kill` | confirmed kill, current status | 1 kill, 1 poll, 2 connections, 2 starts | 1.0 million |
| `MgmtBroker_release` | one answer per command, nobody waits on the dead | 1 kill, 1 poll, 1 verdict, 1 timeout | 292 thousand |
| `VpnUsers` | refinement of `CertLifecycle`; a confirmed cut-off is final, a reported user can connect, no fall back to certificate-only | 2 users, 3 certificates, 4 requests one after the other, 1 failing call, 1 crash, clients at any time | 1.0 million |
| `KubernetesStore` | refinement of `CertLifecycle`; the CRL catches up, reported users can connect, CCDs are kept, one secret per user | 1 user, 2 certificates, 4 requests (certificates one at a time, CCD saves beside them), 1 failing call, 1 crash | 177 thousand |
| `CcdRoutes` | a user's own settings survive every rerender, static addresses are unique, DNS answers end where they belong, deleted routes stay deleted | 2 users (symmetric), 1 address, 2 domains, one of which never resolves, 1 common route, 1 save, 3 operations or faults | 1.0 million |
| `ServerConfig` | copies agree, a refused configuration never takes effect, a reported one is not reverted, OpenVPN ends up running | 2 concurrent saves, 2 failing steps (a failed load or write at the start included), 1 crash | 252 thousand |
| `Traffic` | nothing is counted twice, and everything in the end | 2 sessions of 2 bytes, 2 callers, 1 failing step, 1 restart | 568 thousand |

Every property has a mutant in `PROJECT.json`: a plausible bug (a dropped roll back,
an off-by-one in a sweep, a missing wake-up) under which TLC finds it violated.

Why the bounds are enough. The interesting cases need few actors: a blacklist of one
entry is full after one logout, so the cap, the sweep and the reload all happen; three
TOTP steps are the acceptance window; one failed event plus later good ones exercises
every retry; two connections and two starts give one overlap of an old and a new
loop; four requests are create, a withdrawal, an unrevoke or retry, and one more, with
the failure or the crash in any of them; two saves overlap in every step of `apply`; three
operations are an edit, a change of the common routes and a fault between them, or an edit, a
delete of that user and an edit that takes the freed address; two failing steps are a write
of `server.conf` and its roll back, or a load at the start and a save after it. The properties that are proved below
hold for every instance, so their runs may stay small.

Scope of the passing properties. Several hold only with less concurrency than the
code allows, and the run's instance says so: `TempPasswordGated` and
`RestartKeepsPasswords` with one password change at a time,
`EnrolmentNeverSilentlyLost` with one enrolment request at a time, `CodeAcceptedOnce`
with none, `SnapshotCurrent` as long as no command times out, `TerminationConfirmed` if
moreover no client asks for a verdict, `NoPhantomAccept` with one failed event. The
properties of `VpnUsers` hold for one request at a time and a readable `index.txt`; those
of `KubernetesStore` for one certificate operation at a time and one failing call
(`CcdKept` is proved without these limits, the refinement without the second).
`PersonalKept` leaves out users whose file met a failed write, an unprotected seed or a
removal that was lost (`spoiled`), `CopiesAgree` a `server.conf` that could not be written at
the start (`lost`), a JSON that holds a refused configuration because its roll back failed as
well or a failed Kubernetes update had taken effect (`Stranded`), and the time from a start
that could not load the JSON to the next save (`unread`). `ReportedNotReverted` says of that
time only that the JSON still has what was reported, and nothing once the roll back of a save
made in it has written the defaults there.
`NeverOvercounted` and `CountedInTheEnd` leave out what `torn` and `dropped` record. The next
section says what happens beyond.

One run shows a disagreement between the code and what it says of itself, and is the
finding in `PROJECT.json`: `KubernetesStore_crl_race`. A renewal that listed the revoked
secrets before a revocation puts its older CRL after it; `verifyRevokedInCRL` looks at the
list in memory (`kubernetes.go:397`), so the revocation is reported while the CRL in
force does not hold it.

### Where the code falls short

The models yield more counterexamples than are worth a run each. The properties below
are in their modules; no run checks them, or only on an instance where they hold. TLC
violates each of them with the constants given, within seconds (for `MgmtBroker` with
CHECK_DEADLOCK FALSE: the bounds run out).

| Property | Constants | Counterexample | What the code says |
|---|---|---|---|
| `AdminSessions!ReportedChangeSurvives` | run `AdminSessions` with `Logouters = {o1}`, `Changers = {c1, c2}`, `sessionTTL = 0`, `MaxTime = 0`, `MaxHash = 4` | two password changes write their copies of the table in the opposite order (`auth.go:1377`); a reported change is lost on restart | `auth.go:1249-1251`: "so we never report a password change that a restart would silently revert" |
| `AdminMfa!NoPasswordOnlySession` | run `AdminMfa_enrol` with `MaxEpoch = 1`, `MaxTime = 0` | a login between confirm's epoch bump and its write (`totp_handlers.go:136`) gets a password-only session that survives enabling | `auth.go:1081-1084`: "it can never linger as a password-only session" |
| `AdminMfa!EnrolmentNeverSilentlyLost` | the same with `Enrollers = {e1, e2}` | a setup that was checked before a confirm (`totp_handlers.go:66`) overwrites the enabled record | `totp_handlers.go:64`: "Prevent rotating an active MFA secret without an explicit disable step" |
| `Firewall!FailedInitStillDrops` | run `Firewall` with `MaxChanges = 0`, `MaxCrashes = 0` | a start-up step that fails after the DROP (`firewall.go:205`) leaves the chain detached | `firewall.go:196-198`: "if a LATER step fails the chain is still fail-CLOSED" |
| `MgmtBroker!TerminationConfirmed` | `Users = {u1, u2}`, `Killers = {k1}`, `Pollers = {}`, `MaxConns = MaxGens = MaxAuths = 1`, `MaxStalls = 0` | the acknowledgement of `client-auth-nt` (`mgmt.go:686`) is taken for that of a kill | `mgmt.go:662-663`: "exactly one command may be outstanding at a time" |
| `MgmtBroker!OwnerIsFound` | `Users = {u1}`, no killers or pollers, `MaxConns = MaxGens = 2`, `MaxAuths = MaxStalls = 0` | a cancelled loop registers (`mgmt.go:627`) over the loop started after it | `mgmt.go:623-625`: "become the single OWNER of this console" |
| `VpnUsers!ReportedActiveNotDenied` | `Users = {u1}`, `MaxSerials = 1`, `MaxRequests = 3`, `MaxFailures = 1`, no losses or crashes | `userUnrevoke` drops the error of openvpn-user; the user is reported as active and denied by the row | `users.go:57-61`: "Callers on the password-auth path MUST check the error" |
| `CcdRoutes!CommonRoutesApplied` | `Users = {u1}`, `Savers = {}`, `Faulty = FALSE`, `MaxOps = 2` | a common route is created after `userCreate` has read the list and rendered before the new user is listed; the file never gets it (`users.go:586-592`) | `README.md:22`: "applied to every active user" |
| `CcdRoutes!ExclusionsKept` | run `CcdRoutes` with `Nets = {n1}` | a user's exclusion that was global for a while is written with the global's marker, and goes with the global | `app.go:247-250`: "so the operator-side state survives a re-read" |
| `ServerConfig!RolledBack` | `Reqs = {r1}`, `MaxPuts = 1`, no failures or crashes, `FairSpec` | a configuration that OpenVPN does not start with stays; `waitMgmtReady` (`server_config.go:903`) has no caller outside the tests | `README.md:432-433`: "automatically rolls back to the previous version" |
| `ServerConfig!RestartKeepsReported` | `Reqs = {r1}`, `MaxPuts = MaxFailures = MaxCrashes = 1`, `Spec` | a start that cannot load or decode the JSON runs on the defaults and renders them (`main.go:312-326`, a warning only); OpenVPN is started on a configuration nobody saved | `server_config.go:958-960`: "so a restart can't silently revert what the API reported as success" |

Further consequences of the code as modelled:

- `AdminSessions` with two changers and `TempPasswordGated`: a roll back restores the
  gate it saw, and leaves the temporary password live with the gate down
  (`auth.go:1282`).
- `AdminSessions`: a login validated before a change and signed after it carries the
  new epoch (`auth.go:1085`).
- `AdminMfa` with an enrolment request and `CodeAcceptedOnce`: a confirm on an enabled
  account writes back the record it read, without the step that a login has spent since
  (`totp_handlers.go:145`).
- `AdminMfa` with `reanswered = {}` as the invariant: two answers to one challenge that
  were verified before its expiry and recorded after it both succeed (`totp.go:645`); and
  spent challenges are forgotten in a restart (`totp.go:624`).
- `Firewall` with two failures, two routes and `NoPhantomAccept`: a failed uninstall
  leaves `pendingDeletes` behind, and a rule that is gone is listed again
  (`firewall.go:676`).
- `Firewall`: when the detach of a repeated start fails, the chain is flushed while
  attached (`firewall.go:189`).
- `MgmtBroker` with `MaxStalls = 1` and `SnapshotCurrent`: the END line of a reply the
  loop gave up on completes the next status, as an empty list (`mgmt.go:702`).
- `VpnUsers` with two requests in flight: both rewrite `index.txt` from copies they read
  before (`store_filesystem.go:223`), and the second undoes the first;
  `ActiveIsConnectable`, `CutOffStaysOff` and `ImplementsLifecycle` fail. `NeverDowngraded`
  fails when a password is removed by a request that began before it was set
  (`MaxRequests = 4` suffices for each). With `MaxLosses = 1` one unreadable read is written
  back as an empty `index.txt` (`helpers.go:45-61`), and the same fail but `NeverDowngraded`.
- `VpnUsers`: `userDelete` kills before it revokes (`users.go:766`), so the client may be
  back when it reports; a rotation whose row cannot be created leaves the user
  certificate-only; one whose build fails leaves the old line archived and the user gone;
  an unrevoke whose `index.txt` cannot be written has moved the files and cannot be
  retried; deleting a user without a row reports a failure after the certificate is gone;
  changing the password of a revoked user activates the row (`ovpnuser.go:409`).
- `CcdRoutes`: the goroutines of two changes may run in the opposite order, and are lost
  in a crash; a user who is revoked during a change keeps the old file; an address added
  after a domain that resolves to it is taken for the domain's; exclusions are dropped while
  full tunnel is off; the add, import, remove and refresh handlers do not ask whether the
  user exists. The file of a deleted user is there again when its removal failed
  (`store_filesystem.go:373-375`, a warning only) or when an edit or a pass that had read it
  writes it, and keeps its static address from others; the comment above the removal says
  "CCD must die with the user". A start that cannot load the common routes goes on with an
  empty list (`main.go:290-296`), which the next change writes over the file.
- `ServerConfig`: two saves that switch the loop may leave it in the state of the first
  (`server_config.go:1162`); when the roll back of the JSON fails too, or a failed update of
  the Kubernetes secret had taken effect, the refused configuration is loaded by the next
  start; after a start that could not load the JSON, the roll back of a failed save writes
  the defaults over it (`server_config.go:993-1001`), and what was saved is gone; the watcher of the Helm chart also restarts
  OpenVPN on soft changes, which `README.md:425-428` says keep clients connected; without
  the watcher a SIGTERM that is not delivered leaves a hard change unapplied.
- `KubernetesStore` with two failing calls: two secrets of one name, which every later
  operation refuses (`kubernetes.go:416-420`); a rotation that fails after the archive makes
  the user vanish, and one that fails before the transfer loses the CCD on the retry; a CCD
  save that overlaps a rotation is overwritten.
- `Traffic`: a crash between the two writes counts a poll's growth again (the snapshot is
  "persisted so an ovpn-admin restart [...] does not re-count", `traffic.go:35-37`); a failed
  monthly write loses it; a session that ends between two polls loses its last bytes.

## 4. Fairness

`AdminSessions` and `AdminMfa` have no liveness property: an HTTP request may stop at
any step, with the process.

`Firewall!FairSpec`: weak fairness of the start-up steps, of each `push` that was
called, of the handler goroutine, of the self-heal ticker (`time.NewTicker` in
`selfHealLoop`) and of the restart of an exited process (the container's restart
policy, `main` ends with `log.Fatalf`). Nothing is assumed of the world; `Converges`
relies on changes, failures and crashes being finitely many, by their bounds.

`MgmtBroker!FairSpec`: weak fairness of the loop, of its watcher and of a caller whose
select is ready, that is, of runnable goroutines. No timeout fires by assumption and
OpenVPN is not assumed to answer.

`ServerConfig!FairSpec`: handlers run on, a stopped process is started again, and the
container runtime and the watcher of the Helm chart are there. `EndsUpRunning` rests on
the watcher: signals are best-effort.

`KubernetesStore!FairSpec`: handlers run on (API calls have deadlines), a stopped process
is started again, and the ticker of `crlRenewalLoop` keeps firing. Nobody has to retry.

`Traffic!FairSpec`: a poll that began ends (the console has a deadline), and the ticker keeps
calling `setState`. OpenVPN and its clients owe nothing.

`VpnUsers` and `CcdRoutes` state safety only.

## 5. Proofs

Assumptions: the named `ASSUME`s (bounds are naturals, the sets of request slots are
disjoint, there is an admin and a VPN user, the default admin is an admin; `Zone` gives every
domain its addresses; the placeholder names `nobody` and `dynamic` are no request and no
address, and `none` and `REVOKED-` no VPN user: `validateUsername` refuses the second, the
first stands for an empty name). TLC evaluates them in every run. Thirteen theorems assume less
than the code allows, and say so in their statement: two of `AdminMfaProofs` and two of
`AdminSessionsProofs` limit the requests in flight, two of `MgmtBrokerProofs` exclude timeouts
(and verdicts), four of `CertStoreProofs` take requests one at a time (and three of them a
readable `index.txt`) and two more operations on certificates, one of `FirewallProofs` speaks of the time before a second failure.
Without the assumption they are false; section 3 has the counterexamples. Each inductive invariant was checked with TLC on instances
beyond those of the runs before it was proved.

`AdminSessionsProofs` proves `TypeCorrect`, `KilledNeverAccepted`, `LogoutIsFinal` and
`DeadSessionsStayDead`, for any number of admins and concurrent requests. The
inductive invariant `IInv` adds to the types:

- `EpochsOnDisk`: memory and file hold the same epochs, so a restart changes none;
- `NoTokenAhead`: no token carries an epoch above its user's;
- `BeforeIssued` and `BumpedKills`: the tokens that a change in flight is to kill were
  issued, and after its bump they are behind the epoch;
- `KilledOvertaken`: what was reported as killed is behind the epoch for good;
- `LogoutRecorded`: a recorded logout has expired, or is in memory and in the file.

`KilledStayDead` alone is not inductive: a restart could bring back an older epoch if
the file were behind. `DeadSessionsStayDead` is an action property proved from `IInv`.

`TempPasswordIsGated` and `RestartLoadsLivePasswords` assume `OneChanger`, password changes
one at a time, with any number of logins and logouts beside them, failed writes and
crashes. They share `GateInv`: memory is what a restart would load (`Settled`) unless a change
is between its commit and its save, and then what its roll back would put back is
(`RollbackSettles`); the temporary password never reaches the file (`TempNeverSaved`), where
a restart would find it without the gate.

`FirewallProofs` proves `TypeCorrect`, `AcceptsAccountedFor`, `WakeupsNotLost` and
`DropInForce`, for any users, addresses and routes, any pattern of refused commands and
any number of crashes. `IInv` adds `IdleUnlessRunning` (nothing is queued or handled
before start-up ends), `BootProgress` (what each step of `initChain` has built) and
`Untracked` (a session that is not tracked has an empty account). `TypeCorrect` is
more than typing here: a rule count never goes below zero. `NoPhantomUntilSecondFailure`
states the reverse of `AcceptsAccountedFor`: what an account lists is in the chain. Its
invariant `AccountExact` adds that what waits for its deletion is still listed, and that
nothing waits before the first failure. The second failure is what breaks it: an uninstall
that fails keeps `pendingDeletes`, and the list is later completed from it.

`AdminMfaProofs` has one inductive invariant per promise, over the types (`Typed`, which
adds that finitely many challenges were minted: the next one is numbered by their count).

- `EnrolmentKillsSessions` (`SessionInv`): as in `AdminSessionsProofs`, and a confirm past
  its bump remembers only sessions that are behind the epoch. Any number of enrolments.
- `ChallengesAnsweredOnce` (`ChallengeInv`): challenges have unique numbers; a login between
  the check of its token and its answer holds a minted one; an answered challenge is in
  the spent set or has expired. The last is what the sweep must not break.
- `BackupCodesOnce` and `CodesOnce` (`CodeInv`): the file holds what the memory holds
  while it exists, so a restart revives no record; code sets are numbered, and a spent backup
  code is in no record, for any number of enrolments. A spent TOTP step is remembered in the
  record or its window is over; the pruning keeps two steps where one would be accepted. This
  half assumes `Enrollers = {}`: a confirm writes back the used steps it read.
- `EnrolmentKept` (`EnrolInv`): the process is down only for want of the secrets file, the
  marker lists everybody enrolled, and what a setup checked still holds when it writes. The
  last needs `OneEnroller`, setups, confirms and disables one at a time.

`MgmtBrokerProofs` proves `TypeCorrect` and three promises, for any users, callers,
connections and starts of the loop. Replies carry no tag, so that a reply belongs to its command
is a fact about everything that is on its way.

- `CommandsAnsweredOnce` (`OnceInv`), with timeouts and verdicts: an idle loop works for
  nobody, no caller is served by two loops, and a caller that does not wait has an empty channel.
- `StatusIsCurrent` (`StatusInv`, no timeouts): for a loop that asks for a status, either the
  command is on its way to OpenVPN, or the list is coming and its END after it, or the list
  was collected and END is to come; for any other loop no part of a status is anywhere. The
  list was true at a moment of every call that waits for it. Replies to verdicts may come in
  between: they have neither a list nor an END.
- `TerminationIsConfirmed` (`KillInv`, no timeouts and no verdicts): at most one exchange is
  open on a connection, and an acknowledgement or an empty list on its way tells the truth
  about its user. It stays true because nobody connects without a verdict.

`ServerConfigProofs` proves `CopiesInStep`, `RefusedIsGone` and `ReportedIsKept`, for any
number of saves in flight, failures and crashes. What a failing save puts back is the copy it
took when it got the lock; `Progress` says, for each step of `apply()`, what was written so
far and that this copy is still the one in memory. Saves are stamped in the order in which
they got the lock, and `StampOrder` and `StampsLeft` turn "never reverted" and "never
revived" into comparisons of stamps. A start may find the JSON unreadable; `Fallback` says
what memory and the JSON hold then, and is what the exceptions of `CopiesAgree` and
`ReportedNotReverted` rest on.

`TrafficProofs` proves `TypeCorrect` and `CountedAtMostOnce`, for any sessions and pollers.
`Remembered` (what is remembered of a session is not ahead of OpenVPN's counter) and
`Covered` (what was added up for it is not ahead of what is remembered) hold of the memory
and of the database, `Measured` and `CoveredByPoll` say the same of the counters that a poll
read before it got the lock. So the growth that a poll adds never takes the sum past the
counter, although polls overlap and a restart reloads the database.

`CcdRoutesProofs` proves `SettingsKept`, `StaticHandedOutOnce`, `AnswersStayHome` and
`DeletedForGood`, for any users, addresses, domains and operations. The core is the lemma
`RoundTrip`, about the two conversions and no state: what `Parse` reads from what `Render`
wrote is the settings rendered, although an address that several sources push has one line.
`IInv` is then that every file is a rendering (`FilesOK`), that the shared lists are well
formed and memory holds no common route that the disk does not (`SharedOK`), and that an edit
in progress is about to write what was asked for (`CritOK`), although the file it read may
have been removed by a delete since.

`CertStoreProofs` proves `TypeCorrect` and four promises of the filesystem backend, for any
users, certificates, failing calls and crashes between two calls of a handler.

- `PasswordKept` (`GuardInv`), requests one at a time: a row is dropped only by a request
  that was told to, or after the certificate it was set for was put out of use. It needs
  nothing of `index.txt`, which may be lost.
- `CutOffIsFinal` and `ReportedCanConnect` (`StoreInv`), and a readable `index.txt` besides.
  Neither is inductive: both speak of what was reported, and what makes a report true was
  done by calls before it. `BaseInv` holds whoever is at work, and so after a failure or a
  crash half way: every signed certificate has a line (`OwnersListed`), a user at most one
  under the own name (`OneLine`), a valid line its files (`ValidHasFiles`), and what was
  reported as withdrawn is marked in `index.txt` and listed in the CRL (`OutMarked`,
  `OutListed`); the mark is what makes every later CRL list it. `CreateOK`, `RollbackOK`,
  `RevokeOK`, `UnrevokeOK`, `RotateOK` and `DeleteOK` say what each handler counts on before
  each of its calls, such as that the copy it is about to write is the file with its own edit.
- `StoreKeepsPromise`: from the same invariant, each call is a step of `CertLifecycle` or
  changes nothing it can see. A signed certificate is `Issue` (`BuildStep`), a new CRL
  `Publish` (`PublishStep`), the report of a revoke, rotation or delete `Withdraw`
  (`WithdrawStep`), and the begin of an unrevoke `Readmit` (`StartStep`). `Publish` allows
  only certificates that are not withdrawn, which is `OutMarked`.

For `KubernetesStore` (its instance `K`) the module proves `KubernetesTypeCorrect` for any
overlapping requests, and `KubernetesKeepsPromise` and `NoFalseSuccess` with operations on
certificates one at a time and any number of CCD saves beside them. Any number of calls may
fail, before or after they took effect, and the process may crash between any two.

- `KubeBase` holds whatever overlaps. Its core is that the copy a request took of a secret is
  the secret as it is or an older version of it (`KubeFresh` in `KubeHeld`), so an update that
  is not a `Conflict` was computed from the secret as it is. This is why an archived secret
  stays revoked, although a CCD save writes back the whole secret it read before.
- `KubeInv` adds that what was reported as withdrawn is marked, in the CRL secret and in the
  CRL on the disk (`OutKept`), and what each operation has reached before each of its calls
  (`KubeCall`): marked, then listed, then in the CRL secret, then on the disk. A list that is
  about to be put holds everything that was reported; overlapping operations break exactly
  this clause, and so the race of the finding is the only way to a false success. It was
  checked with TLC with two failing calls and a crash.
- `SavedCcdKept` needs no limit at all, on overlaps, failures or crashes. `CcdInv` says that
  of two operations that write one user's CCD neither is marked `alone` (`AloneKnown`), that
  what was reported as saved is in the secret and nobody is writing there (`SavedThere`), and
  where the CCD that a rotation is to keep is at each of its calls (`CcdCall`): in the secret,
  in the copy of the secret rotated out, in the request's hands, in the new secret. An update
  from a copy that is older is a `Conflict`, so a revoke, an unrevoke or a save that was read
  before cannot bring back another CCD.
- `OneSecretUntilSecondFailure` and `ActiveUntilSecondFailure` (`LiveInv`), operations on
  certificates one at a time and until a second call fails. That a user has one secret rests
  on two checks, `checkUserExist` on the disk and the list in `easyrsaBuildClient`; the first
  can only be wrong after a failure (`IndexKept`: until then both copies of the index list
  every secret, except while the operation that made a new one is `Behind`), the second only
  by a failure, so one failure does not get past both. `LiveCall` says what each operation
  counts on: the lists it is about to put are the secrets as they are, its user has no secret
  (`Absentee`), then one that the CRL lets pass (`Built`), then one that the index lists too
  (`Ready`). Each of these is what `GoodKept` needs at the report. TLC checked `LiveInv` with
  two failing calls and a crash (760 thousand states).
- In the refinement, `Create` is `Issue`, `CrlDisk` is `Publish`, `AnswerDone` is `Withdraw`,
  the start of an unrevoke is `Readmit`, and every other call changes nothing the abstract
  store speaks of.

Model-checked only, because out of the prover's reach: liveness (`Converges`,
`NobodyWaitsOnTheDead`, `EndsUpRunning`, `CrlCatchesUp`, `CountedInTheEnd`).

## 6. Not modelled

Cryptography, TOTP arithmetic and secret encryption; validation of names, passwords and
configuration fields; the `.ovpn` and `server.conf` templates; the creation of the CA,
`dh.pem` and `ta.key` at a first start; the import of the legacy traffic file; metrics (no
state of their own); the web frontend; packaging. API tokens and the login rate limiter keep
each operation under one lock and come last in the plan; the limiter's refusals are left out
of the login handlers: they only remove behaviours. The two session checks of a handler
(`requireAuth`, then `sessionUser`) are one step. Several management servers are one, and
the version and signal commands of the broker are left out.

## 7. Plan

1. `ApiTokens` and `LoginRateLimit` (over `SessionTokens`' clock).
2. A composition of `CcdRoutes` with the policy that `Firewall` reads, and of `VpnUsers`'
   kill with `MgmtBroker`.
