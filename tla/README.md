# LukePanel: specification, model checking and proofs

LukePanel is a server panel in two Go processes: an unprivileged **web
process** (`internal/server`, `internal/auth`, `internal/config`), which keeps
accounts, sessions, files and the audit log and serves the embedded front end,
and a root **agent** (`internal/agent` and the packages it calls), which runs
the privileged operations. The **front end** (`web/assets/app.js`, written in
`frontend/src/app.tsx` and embedded as `internal/server/webdist/assets/app.js`:
one program in three places) is a single page whose handlers are suspended at
every request. The web process reaches the agent over HTTP on a
Unix socket. Go serves every request, in both processes, in a goroutine of its
own; there are no transactions across requests, only short critical sections,
files and commands. The correctness of the panel is therefore a matter of
what may happen *between* the steps of a handler, in Go between critical
sections, in the browser between awaits. This directory models those steps.

## 1. Inventory

| component | state | operations | hard behaviour | what makes it correct |
|---|---|---|---|---|
| Background jobs (`agent/jobs.go`, bodies in `aptadmin`, `dockerapi`) | in-memory map of at most 40 rows, pruned | start, update, prune, get, list | goroutine reports to a row that other handlers prune; table full of active jobs; restart loses all | the row of an unfinished job stays; oldest finished rows go first; every job ends |
| Accounts, TOTP, sessions (`server/server.go`, `server/totp.go`, `auth/session.go`, `config`) | `config.json` and its copy, session store, elevations, pending set-ups | login, elevate, change password or name, KDF upgrade, TOTP set-up/confirm/disable, regenerate codes, logout, revoke | five mutexes, none held for a whole handler; slow password check on a copied hash; restarts | a code is spent once; TOTP cannot be skipped; a change ends old sessions; no change is undone |
| Audit log (`server/audit.go`) | JSONL files, SQLite index, channel, counter, ready flag | write, query, rotate, index, rebuild, reset | counter raised after the lock is released; full channel; failing commands and renames; stops | indexed answers are fresh; counter exact; order kept; the index comes back |
| SSH port and settings (`sshadmin`) | drop-in file, pending file, the running sshd | apply, confirm or cancel | no lock at all; each command can fail or be cut off; files outlive the agent | the way in that works is never closed before another one is proved |
| SSH keys, password login, users (`sshadmin`) | `authorized_keys`, drop-in | add/delete key, switch password login, manage users | read-modify-write without a lock; check then act | one way to log in remains |
| Login limiter (`auth/ratelimit.go`) | attempts per address, at most 4096 | allowed, fail, success, prune | check and count are separate sections; eviction | a locked address stays locked for its time |
| Passkeys (`server/passkey.go`, `auth/webauthn.go`) | challenges, credentials | begin and finish of login and registration, manage | challenge used twice; sign count from a stale copy | a challenge is used once |
| IP allowlist, notices (`server/security_auth.go`) | allowlist, recovery token | save, recover | changing the list from an address it excludes | the one-time token works once |
| GitHub access (`server/github_*`, `githubhelper`) | tokens and flows per session; the page's timer and card | device flow, token, disconnect, import | token arrives after the session ended; a chain of polls that outlives its card, page and login | a token needs its session's consent and goes with it; polling ends |
| Front end: shell (`web/assets/app.js`, `App` and the request layer) | identity, route, one dialog, one question, one second-factor promise, a working flag per page | 150 operations of 14 pages, login, logout, dialogs, uploads, changes of page | every await lets another handler, a timer or the user in; dialogs replace each other; retries after 403; a session that ends under way | nothing is written unconfirmed or twice; success and failure are told truthfully; nobody waits for ever |
| Front end: page data (`useResource`, the pages' `reload`) | selection, data, loading and error state | load, refresh, poll, select, reload after a write | loads overlap; answers out of order; stale closures | what is shown belongs to the selection and is not older than one's own write |
| Backup and restore (`server/backup.go`) | data directories, configuration | export, scheduled copies, import | multi-step swap with rollback, no `configMu` | all or nothing, memory equals file |
| Firewall, Fail2ban (`hostadmin`) | UFW rules and recovery timer, jail file | enable/confirm/rules, write/test/restart | enabled before the timer exists; each step has its own way back | access comes back unless confirmed |
| Tasks, snapshots, files | unit files and metadata; copies; tree, recycle bin, versions | create/act, create/restore/prune, edit/move/recycle | several files per operation | no half-made object |
| Docker, host settings, services, monitoring, agent transport, crypto, installer | none of their own, or outside the program | single commands, reads, formatting | | |

How they interact: handlers of the web process write audit events, read and
write the configuration, and call the agent; a restore replaces the
configuration, drops sessions and elevations and resets the audit index; the
APT jobs create snapshots; the SSH and firewall operations share sshd's port.
The front end reaches all of it through `api`, `secureApi` and `uploadApi`: a
401 resets the browser's login, a 403 with `elevation_required` asks for the
second factor and sends the request again.

The `hazards` of `PROJECT.json` list, line by line, where these behaviours
bite, and which property watches each of them.

## 2. Plan

Written so far, most important first: background jobs (with their abstract
ledger), accounts and sessions, the audit log, the SSH port change, the front
end's shell with the operations of all pages (`PanelPages`, `PanelShell`), its
page data (`PageData`), the GitHub sign-in across browser, panel and GitHub
(`DeviceLogin`), and enabling UFW with its recovery (`Firewall`). Next:

1. `LoginGate`: limiter, passkey challenges and sign counts, IP allowlist and
   its token; composed with `PanelAuth`'s login.
2. `BackupRestore`: swap and rollback of the data directories, configuration
   and sessions against concurrent account changes; the exchange of the audit
   files, which `AuditLog` leaves out.
3. `Fail2ban`: write, test, restart and way back; UFW's rules by number.
4. `SshLogin`: keys, password authentication, users.
5. `HostFiles`: snapshots, tasks, recycle bin and versions, as "several files,
   one object" with an abstract specification each.
6. Proofs: the safety properties of what is written so far are all proved;
   those of the modules above, and a ledger-like abstract specification for
   snapshots and restore, come with them.

## 3. Modules

| module | role |
|---|---|
| `JobLedger` | abstract: what the job table promises |
| `BackgroundJobs` | job manager, its handler, job bodies; refines `JobLedger` |
| `BackgroundJobs_proofs` | types, tracked rows, table bound, refinement |
| `PanelAuth` | accounts, second factor, sessions, configuration file |
| `PanelAuth_proofs` | inductive invariant and its consequences |
| `AuditLog` | files, index, worker, reader, restart, reset |
| `AuditLog_proofs` | inductive invariant, order of the files and consequences |
| `SshPorts` | port change, confirmation, restoring, sshd |
| `SshPorts_proofs` | inductive invariant and its consequences |
| `PanelPages` | the operations of every page of the front end, as data |
| `PanelShell` | the browser shell that runs them, and its session |
| `PanelShell_proofs` | inductive invariant and its consequences |
| `PageData` | how a page loads what it shows |
| `PageData_proofs` | inductive invariant and its consequences |
| `DeviceLogin` | GitHub sign-in: page, panel, GitHub |
| `DeviceLogin_proofs` | inductive invariant and its consequences |
| `Firewall` | enabling UFW, its recovery by systemd, confirmation |
| `Firewall_proofs` | inductive invariant and its consequences |
| `MC*` | instances for TLC |

Common conventions: one action per critical section or command; an action that
only frees a request slot stands for an error answer; operators that stand
*before* the definition they resemble (`PrunedAnyStatus` before
`pruneLocked`, ...) are deliberately wrong variants, used to show that each
property would notice such a mistake; they are not part of `Next`.

**BackgroundJobs.** `status` is `JobManager.jobs` (`"absent"`: no row), `pc`
and `at` follow handler and goroutine. `Stamp` is the part of `Start` before
the mutex, `Insert` the section under it (prune, insert, `go`), `Begin` and
`Finish` the two `update` calls, `StepOk`/`StepFails`/`Repair` the commands of
the body in `aptadmin` or `dockerapi`. Ids are creation stamps, since the
table compares nothing else. Rows may be inserted out of stamp order.

**PanelAuth.** `cfg` is `Server.cfg`, `disk` is `config.json`; `req[r]` is a
request goroutine with the values it copied out of a section. A hash is a
record of password, KDF and salt; the salt makes hashes comparable as the code
compares them. Requests carry correct passwords, since a wrong one changes
nothing here; a refused second factor, a conflict and a failed save are
`Refuse`. Expiry may come at any time. `used`, `installs`, `epoch` and the
`late`, `cleared` fields are history: handlers never read them.

**AuditLog.** `file[e]` says in which of the rotated files an event's line can
be read, `at[e]` how far its `Write` and its indexing are, `index[e]` how many
rows it has. `Append` has the three outcomes of the ignored encoder error
(line, part of a line, nothing) and any partly failed rotation. A failing
`sqlite3` may have inserted any part of its script. The command runs under
`indexMu`; the flag is cleared after the mutex was released, and the counter is
lowered after that: three steps (`SyncInsert`, `SyncFailed`, `SyncDone`, and
`Flush`, `FlushFailed`, `FlushDone`; places `"unsynced"` and `"unflushed"` lie
between the first two), as are a reader's failing command and its note
(`QuerySqliteFails`, `QueryGivesUp`). `q` is one reader; `q.spoiled` records
that the index was given up while it was past its first check.

**SshPorts.** `conf` is the drop-in, `running` what sshd last loaded, `taken`
the ports other programs hold, `pend` the pending file. A call is a sequence
of `ApplyStatus`, `ApplyRead`, `Write`, `Reload`, `savePendingPort`,
`CheckListening`, `Forget`, `Return` with the failures and the restoring
between them. `alone` and `premise` are history: whether another call took a
step meanwhile, and whether sshd and the files agreed at the start.
`restoreConfig` leaves what it finds, the call's copy, or an empty file, when
`os.WriteFile` truncated it and could not write (its error is ignored); a copy
that could not be read counts as none (`ApplyRead`), and the restoration then
removes the file. Both set the history field `lost`. A file cut in the middle
of its few lines is left out.

**PanelPages** is a catalogue and has no state: per page of `app.js` one
definition lists its operations with the awaits and shell calls of their
handlers in order, where their button is (page or dialog), what disables it,
and whether the handler has a `catch`. `Op("host", "page", "page", {"dns"},
Mutate)` reads: a button of the host page, disabled while the page works, whose
handler sets the working flag, calls `secureApi`, shows success, reloads.
Local validation and links are no operations.

**PanelShell.** `ui` is the state of `App`: `modal`, `asked`
(`confirmResolve`), `pending` (`elevationPromise`), `working` of the mounted
page, `kdf` (the prompt's timer), and `runs`, the suspended handlers. Helper
functions carry the source's names (`closeModal`, `confirmAction`, `resetAuth`,
`elevationHandler`) and map a browser state to the next; an action is one run
to completion. `live` and `elevated` are the server's view of the session;
`PanelAuth` has the server in full. A request is sent (`Send`), carried out or
refused (`Serve`) and its answer handled (`Deliver`); it may have been carried
out although it failed. A handler that has ended is remembered for one step,
so that invariants see its outcome. Simplified: the logout request takes its
effect on the page with its answer; an aborted upload is not carried out
afterwards; the elevation dialog accepts one resubmission in flight.

**PageData.** `page` is one loader, chosen at the start: how many rounds of
requests, guarded by `useResource`'s generation or not, what its selection is,
polled or not, with writes or not. `load` are the loads in progress, `latest`
the one with the newest generation, `shown` which selection and server state
the page shows. A write keeps the selection of the render it was started in
(`write.key`) and reloads with it; on the SSH page creating or deleting an
account names another or none. On the GitHub page the selection is what stands
in two text inputs: `Select` is the list of repositories, `Submit` the form,
`SetRepository` typing (or the login that fills a blank owner), `Emptied` the
empty choice and a disconnection, `WrittenUnnamed` an operation after which
there is no repository to read. Only the first two load. A blank input is
`NoKey`; such a page may be opened, makes one round of requests, and keeps what
it showed. Typed and submitted picks may overlap more freely than the form's
busy button lets them. The recycle bin and favourites of the file
page are further lists of the same kind and are left out; leaving a page ends
the behaviour, as its loads then change nothing.

**DeviceLogin.** `flow[f]` follows one chain through the page (`startDevice`,
`pollDevice`), the panel (`githubDeviceStart`, `githubDevicePoll` in the two
sections of `githubMu` with GitHub's answer between) and the user's decision.
`ref` is `pollRef`, `card` the flow shown. `PollTooEarly` is `NextPoll` as a
choice; the second outbound call (`AuthenticatedUser`) is the step
`TokenStored` or its failure. The cancel button's request and answer are one
step, which may fail: the card goes, the flow stays listed. `consent`, `out`,
`raced` are history.

**Firewall.** `call[c]` is a goroutine of the agent inside `EnableUFW`
(`AllowPorts`, `TurnOn`, `MarkPending`, `StartTimer`, or `TurnOffAgain`),
`ConfirmUFW` (`StopTimer`, `StopService`, `Unmark`) or `DisableUFW` (`TurnOff`
first). Each command may fail before or after it took effect, because the
request's context may end at any moment. `timer` and `service` are the two
units; `TimerFires`, `ServiceDisables` and `ServiceEnds` are systemd. An
elapsed timer stays active: the unit has no `RemainAfterElapse=no`. The rules
(which ports are let through, additions and deletions) are left out: they
change nothing that the recovery or the confirmation depends on. History:
`confirmed` (the user vouched for UFW as it is), `excused` (a gap was met, see
the comment at `OnIsAccounted`), `trial` (the last call enabled UFW
undisturbed, over a timer that could start or over an elapsed one), `settled`
(a confirmation went through undisturbed).

## 4. Runs

| run | instance | shows |
|---|---|---|
| `jobs` | 4 submissions, table of 2, one restart, the longest body (`apt.upgrade`) | types, `RunningJobTracked`, `TableBound`, `ImplementsLedger`, `EveryJobFinishes` |
| `auth` | 2 concurrent requests, 2 session identities, 2 names, 2 passwords, 1 code set, legacy first hash | types, `CodeSpentPerInstall`, `SecondFactorHeld`, `OldSessionsExplained`, `PasswordOnlyByChange` |
| `audit` | 2 events, channel of 1, batch of 2, 2 rotated files, 2 stops, 1 reset | types, `PendingCounts`, `FreshIndexedAnswer`, `OnlyRacedTwice`, `NewestFirst`, `PendingDrains` |
| `ssh_port` | 2 concurrent calls without bound, 2 ports, stops at any time | types, `OnlyPortKept`, `PendingAnswerTrue`, `ConfirmChooses` |
| `shell` | one operation of every kind, 2 handlers, all pages; 3 pairs that run against each other | types, `WriteOnlyConfirmed`, `RetriesSafe`, `WaitersHeld`, `OneAtATime`, `OutcomeShown` |
| `page_data` | one loader of every kind, 2 loads, 2 selections, 2 server states | types, `GuardedFresh`, `ReadsOwnWrites`, `AloneSettles`, `SpinnerStops` |
| `device` | flows and logins, 3 together | types, `TokenByConsent`, `OneFlowPerSession`, `LogoutClears`, `ChainEnds` |
| `firewall` | 2 concurrent calls without bound, stops and reboots at any time | types, `OnIsAccounted`, `ConfirmHolds`, `Recovers` |
| `auth_code_once` | violation | a recovery code accepted twice |
| `audit_complete` | violation | an incomplete index used after a stop |
| `ssh_proven` | violation | the old port closed without confirmation |
| `shell_silent` | violation | an upload lost without a message |

*Why the bounds are enough.* Jobs: four submissions make the table of two
overflow with active rows, with finished rows and with a mixture, and let the
next submission repair it; all other kinds are shorter sequences of the same
steps, and the proofs cover them. Accounts: every race the hazards name is one
between two requests; the second identity is the session that a change must
end. Configuration changes are bounded by the hashes (2), sets (1) and changes
(1); the theorems hold without these limits. Audit: two events are enough to
fill the channel, make the second writer insert synchronously, swallow a line
after a torn one, and to be in different rotated files; with two stops there
is a start on a partly built index. SSH: the model has no counters, calls
repeat for ever; with two ports every combination of old, new and taken port
occurs. `sshd_config` itself has no `Port` line in the run. Shell: operations
that agree in page, button, gate, steps and dialog behave alike, so one stands
for its kind (`OneOfEachKind`); what goes wrong between handlers goes wrong
between two, and the shell's own dialogs (question, second factor, password
prompt) act beside them. `Encounters` names the pairs that run together: two
operations of a page with one working flag, two uploads of one component, two
operations that ask and then show a secret; other pairs are left out for their
number, so the run says nothing on, for example, a Docker form against a
Docker list operation; the theorems of `PanelShell_proofs` do, for any number
of handlers and any operations together. `Links` lets the user go from every page to the
dashboard and back. Page data: two loads give every order of two answers and a
load older than a write; the properties compare what is shown with one server
state, the one the page's own operation left, so a state before it and one
after are enough. Device: `Tries = 3` gives two flows in one login, one flow across
two logins, or three logins; a flow of an earlier login beside a flow of the
present one needs four; the theorems of `DeviceLogin_proofs` hold for any
number. Firewall: calls and timers repeat for ever; what goes wrong between
calls goes wrong between two.

*Symmetry* is used for requests, session identities, calls and handlers, which are only
compared for equality, and only in runs without liveness.

*Deadlock* is checked except in `jobs`, where the agent rightly stops once
nobody submits another job.

*Fairness.* Weak fairness of every job goroutine (`FairSpec` of
`BackgroundJobs`) and, in `AuditLog`, of each writer past its append, of the
worker and of a rebuild. Justified: the Go scheduler runs every runnable
goroutine, each APT and Docker command is bound to a context with a deadline of
20 or 30 minutes, the worker's 800 ms ticker never stops, sqlite3 commands end.
No client has to submit, write, query, or confirm. In `PageData`, weak fairness
of each load: a browser request settles, with an answer or an error, and its
handler runs; `SpinnerStops` allows a user or timer that starts loads for ever.
In `DeviceLogin`, weak fairness of each chain (timers fire, requests are
answered) and of the user's decision, since a device code expires by itself.
In `Firewall`, weak fairness of systemd's three steps: a waiting timer fires
and a started service runs; no call of the agent has to go on.
`PanelShell` states no fairness and no liveness: nothing makes a user answer.

### What the violations say

* `auth_code_once`: `totpConfirm` copies the pending set-up, installs it, and
  removes it last. A second confirmation that read the same set-up installs
  the full code set again, after a code of it may have been used. Every other
  path is exact: `CodeSpentPerInstall` holds, so a double installation is the
  only way.
* `audit_complete`: `rebuildIfNeeded` takes any non-empty index as complete;
  events that were in the channel at a stop stay out of indexed answers.
  Within one process the answers are fresh (`FreshIndexedAnswer`).
* `ssh_proven`: while a port change is pending `Status` names the new port as
  current, and saving the settings once more with it drops the old `Port` line
  without a confirmation. A single call from a settled state keeps the port
  (`OnlyPortKept`).
* `shell_silent`: the panel for release attachments lives in the dialog. A 403
  to its upload opens the second-factor dialog in the same slot, the panel
  unmounts and its cleanup aborts the upload's controller; after the correct
  second factor the retry finds the aborted signal and calls `abort()` on a
  request that was never sent, which fires no event. Nothing is uploaded and
  nothing is shown. The file editor's save, the restore of the version dialog
  and the cancel button of a device login end silently on an error too, for
  want of a `catch`; every other operation says what happened (`OutcomeShown`).

Some observations the models made are not runs of their own:

* A request that asked GitHub before the logout stores its token after it, so
  the token is in memory until the restart, while SECURITY.md:27 has it
  cleared at logout. It is not used again, since session ids are not reused,
  and no other way leads there: `raced` in `LogoutClears`. Sessions that
  expire or are revoked do not clear their token at all.
* A recovery timer that has fired is still active, so `systemctl start` does
  nothing: after one automatic recovery the next `EnableUFW` reports success,
  the page shows the banner of the recovery window, and no recovery runs until
  a confirmation stops the timer (the `"stale"` trials that `Recovers` leaves
  out). SECURITY.md:42 promises the recovery without that exception.
* The services page reloads with the search of the moment an operation was
  started, as its newest load (the `~astray` of `GuardedFresh`).
* The GitHub page shows the summary of one repository next to inputs that name
  another: after typing, until the form is sent; after a refused summary; and
  an operation started then reads the typed repository, not the one it was done
  to. A disconnection takes the summary and leaves the inputs (the `~astray`
  of `AloneSettles`).
* A failing restoration of the SSH drop-in whose own error is ignored (a read
  that fails at manager.go:603, a write at 709) leaves sshd with the ports of
  `sshd_config`, the default one without any: the port in use may be closed
  (`lost` in `OnlyPortKept`). So may two calls that overlap, which nothing in
  the code prevents.
* A query that finds the index ready, and the counter at zero after an
  insertion failed and was noted in between, answers from an index that lacks
  the event (`spoiled` in `FreshIndexedAnswer`); the next query reads the files.
* A poll that asks GitHub while its flow is cancelled or replaced may still
  connect the session (`OneFlowPerSession` speaks of the table, so of polls
  that come later).
* Unguarded pages show the answer that comes last (the `~overlap` of
  `AloneSettles`).

## 5. Proofs

All for every value of the constants, from the named assumptions
`JobsAssumption`, `AuthAssumption`, `AuditAssumption`, `PortsAssumption`,
`PageAssumption`, `DeviceAssumption` and `ShellAssumption` (naturals, positive
capacities, non-empty sets, ports other than 0, an instance that takes its
operations from those of the pages), by TLAPS. `StepsAssumption` is different
in kind: it speaks about no parameter but about the fixed set `Operations`,
and says in one place what the shell relies on in the pages' code (a question
comes first, the working flag is set before the first request, success is
shown after the last write, a dialog belongs to its page). TLC evaluates it on
every run of `PanelShell`; a page that broke it would stop those runs.

* **Jobs.** `JobsInv` = `TypeOK`, `RunningJobTracked` and `FinishedRows` (a row
  with a final status belongs to a goroutine that is done): pruning takes
  finished rows only, and a goroutine's place determines its row's status.
  `JobsImplementLedger` maps each step to a ledger step or a stutter; the work
  is in `Insert`, whose pruned set is shown to be an oldest-first set of
  finished rows of a full table. `JobsTableBound`: only `Insert` enlarges the
  table; a full one from which nothing is pruned has no finished row, since
  otherwise the oldest of them (`Smallest`) could go.
* **Accounts.** `AuthInv` = types, `disk = cfg` outside a section (`Synced`),
  what a waiting handler copied is still related to the configuration
  (`Copied`: a KDF upgrade whose salt is still the stored one holds the stored
  password; a login about to create its session has been cleared),
  `CodeSpentPerInstall`, `SecondFactorHeld`, and `Revoking`: every old session
  is covered by a change, of another session, about to revoke it. The strengthening is
  needed because the properties speak about sessions and the file, while the
  danger sits in copies inside requests. `AuthCodeSpent`, `AuthSecondFactor`,
  `AuthOldSessions`, and the action property `AuthPassword` follow.
* **Audit.** `AuditInv` = types with `PendingCounts`, which places are possible
  in which phase, `Covered` (an event of this process that is no longer on its
  way has a row, or the index is not in use; one whose command failed stays on
  its way, and counted, until the failure is noted), `Asked` (the same for what
  a query under way will find), `Raced`; and `Ordered`, that the files keep the
  order of events, from which `NewestFirst` follows by a cardinality argument.
* **SSH port.** `PortsInv` = types, `PendingApart` (the pending file names two
  different ports), and per call `Known`, `ApplySafe` and `ConfirmSafe`: what
  an undisturbed call has written, may restore, and leaves in the files at each
  of its places. `OnlyPortKept` alone is not inductive: it speaks about sshd,
  which follows the files, and the files may come back from the call's copy
  `old`. So `ApplySafe` also has the port in the files and, once copied, in
  `old`. A step of another call ends the call's solitude (`Aside`), so each
  action has to be examined for the call that steps only (`AsideKeeps`). What
  a restoration may lose is followed by `copied` and `lost`. Any
  `Port` lines of `sshd_config` are allowed, while the run has none.
* **Page data.** `DataInv` = types, `Selected` (which pages always have a
  selection), `Picks`, `Single` (a load that overlapped none is alone), and
  what holds of the load that answers for the page, the newest generation on a
  guarded page and the sole one elsewhere: unless the page went astray, it asks
  for the selection, which names something (`Aimed`),
  and what it carries is not older than the page's own operation (`Recent`).
  The properties speak about a page at rest, when that load is gone: `Brought`
  keeps what it left. The steps that set selection and summary apart on the
  GitHub page (`ApartKeeps`, `UnnamedKeeps`) make it astray until the next
  load. Any number of loads may overlap and be answered in any
  order; `GuardedFresh`, `ReadsOwnWrites` and `AloneSettles` follow.
* **Device login.** `DeviceInv` = types, `Shown` and `Begun` (how page, request
  and table agree on a flow and its owner), `Agreed` (a permission that can
  still turn into a token was given in the owner's session), `Single`, and
  `Met` (a request that can still bring a token back was met by the logout).
  `TokenByConsent` and `LogoutClears` speak about the table of tokens; the
  danger sits in requests under way and in chains of an earlier login, about
  which `Agreed` and `Met` speak. `OneFlowPerSession` follows from `Single` by
  the cardinality of a set whose members are equal.
* **Firewall.** `FirewallInv` = types, `Solitude` (a call that is alone has no
  other beside it), `Arranged` (what each call has done to UFW and the units
  by the time it reaches a command), `OnIsAccounted` and `ConfirmHolds`. The
  properties speak about the units; that a confirmation may take them away is
  safe because `Arranged` knows UFW to be off or vouched for by then, and that
  it is complete because an undisturbed call finds the timer as it left it.

* **Shell.** `ShellInv` has a part for each handler and a part for what they
  share. Per handler: where it can stand (`Placed`), that it has not left its
  question without a yes (`Agreed`), which steps the server carried out
  (`Hit`), that a success toast came last (`Told`) and that it did not end in
  silence (`Spoken`). Shared: the pending question names a handler that waits
  for it, and so does the dialog that shows it (`Questioned`); the second
  factor's promise is held while anyone waits (`Promised`); what is mounted
  belongs to the route (`Mounted`); on a gated page one handler at most holds
  the working flag, and none does while one that will set it is being asked
  (`Gated`); no credential of a dead session passes for the live one's
  (`Current`). None of the properties is inductive alone: `WriteOnlyConfirmed`
  needs to know whose question a click answers, `RetriesSafe` which answers are
  retried, `OneAtATime` what a confirmation may start. The functions on the
  browser state each have a lemma, most of them that a handler goes on where
  it was or ended with a message (`Tame`) and the shared part survives
  (`AfterKeeps`, `PutKeeps`); an action's lemma composes those of the functions
  it calls, in the order the code calls them. TLC checked `ShellInv` on the
  instance of `shell` before it was proved.

Only model-checked: the liveness properties `EveryJobFinishes`,
`PendingDrains`, `SpinnerStops`, `ChainEnds` and `Recovers` (temporal reasoning under
fairness is outside the prover's reach) and the four violations. Every other
property of a run is a theorem.

## 6. Not modelled

See `components` in `PROJECT.json` for each part and its reason. In short: what
the plan above still lists; parts without state of their own (Docker client
other than the build, host and service administration, monitoring, transport);
cryptography (hashes and codes are records and pairs); time (expiry comes, and a timer fires, at
any moment); in the front end rendering, form contents, validation, theme and
downloads; the installer and formatting. Within the modelled
parts: writes of configuration fields that the account handlers do not use,
the session list's other columns, query filters and paging, and the other
lines of the SSH drop-in, which travel with the `Port` lines.
