# Fleet Hub, specified

TLA+ models of the Fleet Hub (a Flask hub over SQLite, and its Windows, Linux
and Android agents), the TLC runs that check them on small instances, and
TLAPS proofs of the results that should hold for every instance. Every
definition names the source lines it stands for in `PROJECT.json` (`map`);
hazards, findings and mutants are listed there too.

## The system

One hub process (waitress, many request threads, about fifteen background
threads) owns one SQLite file. Agents never listen: everything a machine does
is asked for by its agent over HTTPS. Three facts shape almost every module:

* **Transactions are short.** A function opens a connection per block, and with
  Python's default isolation a `SELECT` outside a write is not in any
  transaction, so "read, close, decide, write" is a window in which another
  thread commits. Only four places take `BEGIN IMMEDIATE`.
* **The command queue is the only way to make a machine do anything.** Package
  deployments, patches, firmware, backups, wake, rules, watchdogs, terminals,
  file browsing and wipe all call `fleet.create_command` and later read the
  command's status back. A scheduler is a small state machine coupled to the
  queue's.
* **Nothing in a process survives it.** The agent keeps claimed commands in
  memory; the hub keeps bells, slots, relay sessions and live interest in
  memory and everything else in SQLite.

## Inventory

| Component | State it keeps | Operations | What is hard | What makes it correct |
|---|---|---|---|---|
| Command queue (`hub/fleet.py`) | `commands`, `command_results`, `command_output_chunks` | create, claim, expire, cancel, complete, append/prune output, delete with the machine | claim races cancel, expiry and delete; `complete_command` checks before its transaction | at most one delivery, the row says what happened, nothing waits for ever |
| Command push (`wait_for_commands`) | one Event per machine, slot counter | clear, claim, wait, ring | lost wakeup, slot leak, agents that hang up | a pending command wakes a held request; slots are counted right |
| Live output (`OutputStreamer`, `append_command_output`, console) | agent buffer and sequence, hub chunks, console cursor | flush, retry, cap, read | retries, caps, cancellation while a post is in flight, reads between two statements | ordered, no duplicate, no gap the console cannot explain |
| Agent command loop (`Worker.cs`) | running tasks | poll, dispatch, refuse, report | lost replies and reports, restarts | at most once on the machine |
| Enrollment and identity (`fleet.py`, `onboarding.py`, `invites.py`) | `agents`, `decommissioned_agents`, codes | enroll, authenticate, re-point, revoke, prune, decommission | re-enrollment racing a delete, one code redeemed twice, 401 meaning "enroll again" | one identity per install; a deleted agent stays deleted |
| Report ingest (`app.py`) | `machine_info`, readings buffer | report, flush, delete, merge | a report that authenticated before the delete writes after it | a deleted machine does not come back |
| Package deployments (`packages.py`) | `deployments`, `deployment_targets` | create, tick (reconcile, dispatch), cancel, retry, forget, rename | the crash between queueing and recording, operators acting in the middle of a pass | one live install per target, every target ends, the roll-up is true |
| Patch runs (`patches.py`), firmware (`firmware.py`) | runs and targets | as deployments, plus reboot handling and report-back | the same, and a machine that reboots under its own command | the same |
| Backups (`backups.py`, agent `Backup/`) | profiles, runs, file sets, the destination's objects, the agent's cache of a chain | dispatch, upload, report, rotate, cancel, expire, restore | reports that are repeated or late, rotation that stops half-way, passes that overlap | every chain can be restored from, what is listed is stored, nothing is left out that was never listed |
| Wake (`wake.py`) | wake requests | pick a relay, send, expire | a relay that is itself asleep | every request ends |
| Rules (`rules.py`) | rules, firings, messages | evaluate, fire, answer, cooldown | one event fires twice, answers out of order | one action per firing |
| Remote control (`remote.py`, `remote_relay.py`) | sessions, relay pairs | start, consent, attach, expire | two browser tabs, a relay peer that vanishes | one controller, no orphan session |
| Terminal (`terminal.py`, ConPTY) | sessions, input and output chunks | open, input, output, resize, close, reap | input retried, output acknowledged late | in order, exactly once |
| Files, live view, processes, discovery, location, disk usage, BIOS, BitLocker, wipe | one request row each, latest answer | request, answer, expire | an answer for an older request | the shown answer is to the last request |
| Watchdogs (`watchdogs.py`, agent `Watchdog/`) | definitions, states, restarts | probe, restart, back off, give up | restart storms | bounded restarts |
| Alerts, events, correlation, posture, software, usage, reports | derived rows | ingest, raise, resolve | late or duplicated batches | idempotent ingest |
| Notify, push | channels, subscriptions | send | dead endpoints | pruned, never blocking |
| Tickets, recordings, sharing | rows and blobs | open, append, close, serve | upload races close | no blob without a row |
| Permissions, users, invites, API tokens, policy, settings | rows, caches | change, check, expire | a cached answer after a change | a revoked right is refused |
| AI assistant, web fetch, directory | runs, staged files | run, confirm, cancel | a confirmation for a changed step | what runs is what was confirmed |
| Hub self-update, agent update | staged releases, pending/previous swap | stage, swap, confirm, roll back | power loss between renames | a bootable binary at every instant |
| Clients (Flutter app, console JavaScript), installers, TURN | view state | - | - | outside the models |

## Modules

| Module | Models | Uses | Checked by |
|---|---|---|---|
| `CommandQueue` | the tables `commands` and `command_results` and the transactions on them | - | through the modules that extend it |
| `CommandDelivery` | a command's way to an agent and its result's way back | `CommandQueue` | `delivery`, `delivery_live` |
| `WorkOrder` | what an operator is promised about a command | - | as `ImplementsWorkOrder` of `delivery` |
| `CommandDeliveryProofs` | theorems about `CommandDelivery` | both | TLAPS |
| `CommandPush` | the doorbell and the held requests | `CommandQueue` | `push` |
| `CommandPushProofs` | theorems about `CommandPush` | it | TLAPS |
| `Deployment` | package deployments: rows, scheduler, operators, agents | `CommandQueue` | `deploy`, `deploy_double`, `schedulers` |
| `DeploymentProofs` | theorems about `Deployment` | it | TLAPS |
| `PatchRun` | patch runs: rows, scheduler, heartbeats that confirm, operators, agents | `CommandQueue` | `schedulers` |
| `PatchRunProofs` | theorems about `PatchRun` | it | TLAPS |
| `Firmware` | firmware updates: rows, scheduler, fetch, flash, boot, evidence | `CommandQueue` | `upkeep`, `firmware_live` |
| `OneFlash` | what a firmware job promises about each machine | - | as `ImplementsOneFlash` of `upkeep` |
| `Backup` | the file backups of one PC: runs, chains, archives, reports, rotation, the agent's cache | `CommandQueue` | `upkeep` |
| `UpkeepProofs` | theorems about `Firmware` and `Backup` | both | TLAPS |
| `OutputStream` | live output from the agent's buffer to the console | - | `stream` |
| `OutputStreamProofs` | theorems about `OutputStream` | it | TLAPS |
| `Enrollment` | agents, tombstones, codes, reports and deletes against an install's identity | - | `enrollment`, `enrollment_live` |
| `EnrollmentProofs` | theorems about `Enrollment` | it | TLAPS |
| `Wake` | wake requests, their passes and relays | `CommandQueue` | `hub_services` |
| `Invites` | one invite and the group it grants | - | `hub_services` |
| `PtyInput`, `PtyOutput` | the two directions of a remote terminal | - | `hub_services` |
| `HubServicesProofs` | theorems about these four | them | TLAPS |

`MCHubServices`, `MCSchedulers` and `MCUpkeep` put modules side by side that share no table
and call none of each other's functions. A behaviour of the hub is, seen from
one of them, a behaviour of that one's specification, so each of their behaviours
is of one module (the variable `focus`, or `part`) while the others stand still.
What is checked there is each module on its own, under one configuration.

`MC<module>` gives the constants their values and the symmetry. The operators
that `PROJECT.json` lists under `mutants` stand in the modules beside the action
they change (`ReportsUntilAnswered` before `Report`); no specification uses them,
and putting one in its action's place makes the named property fail.

### CommandQueue

`fleet.py` 1480-2060 as operators, one per SQLite transaction: `InsertCommand`
is the INSERT of `create_command`, `ClaimCommands` the `BEGIN IMMEDIATE` block
of `claim_commands` (expire what has lapsed, select the rest, mark it claimed),
and so on. A command is `unissued`, then one of the code's five statuses, then
`deleted` once `delete_machine` has taken its row. There is no process here; who
calls what, and what is read in an earlier transaction, is up to the modules
that extend it. The clock is the set `lapsed` of commands whose `expires_at` has
passed, which any command may join at any time, because each has its own TTL.

### CommandDelivery

Request threads (`Worker`) and enrolments (`Agent`) over the queue. A thread
holds at most one piece of `work`, and its kind says how far the handler has
come: `poll` (authenticated, not yet claimed), `reply` (claimed, response not
yet received), `result` (body received, `complete_command` not yet looked),
`record` (looked, transaction not yet begun), `delete` (agent ids read, rows not
yet removed). An agent's copy of a command is `inHand`, `running`, `refusing` or
`reporting`; these are the local variables of `RunOneAsync` and of the loop of
`Worker.cs`. `AgentRestart` and `HubRestart` erase what is in memory and nothing
else. `runs` and `outcome` record what really happened on the machine, so that
properties can compare the hub's rows with it. `Faults` turns the loss of
requests and replies and restarts on or off; lost polls that the client merely
abandons (`PollGivenUp`) happen in either case.

`WorkOrder` is the abstract promise: an order is queued once, then it is handed
over or withdrawn, and nothing that was withdrawn or lost starts afterwards.
`phaseOf` maps the places above to its phases; `ImplementsWorkOrder` is the
instance under that map.

### CommandPush

`wait_for_commands` step by step, with a program counter per request thread:
`clear`, first claim, `slot`, `check`, `wait`, `reclear`, `reclaim`. `bell[m]` is
the machine's `threading.Event`, `slots` the counter behind `_wait_lock`. `Issue`
commits and rings in two steps, as `create_command` does. A wait ends with the
bell, a five second slice or the deadline. A claim for a machine in `Locked` may fail with
`database is locked`, which leaves through the `finally` that gives the slot
back. An agent may ask again while an older request of its own is still held:
the hub cannot know that the client hung up.

### Deployment

Rows `deployment` and `row` are the tables `deployments` and `deployment_targets`.
`sched` is where the scheduler thread is inside a pass, one value per point
between two transactions: it reads the targets, judges each by its command's
status, writes the verdict, refreshes the roll-up; then selects due targets,
claims one (`_claim_target`), queues its command, records the id. Operators
cancel, retry and delete, also in several transactions; a machine may be
deleted, merged into another record or found unable between any two of these
steps. `madeFor` remembers which target a command was queued for, which the
tables do not. `Operations` names which operator acts a run allows.
`FaultySpec` adds passes that die between any two transactions (`PassDies`) and
merges; `Duplicate` are the machine records that a merge may drop.

### PatchRun

One run. `patching` and `items` are its rows in `patch_run_targets` and
`patch_run_items`, `offered` the list of updates each machine last reported
(`machine_patches`). `patchPass` is where the scheduler is inside a pass and what
it has read: the rows under way, the verdict it is about to write, the due rows,
the target being dispatched. A command that is done moves its target to
`rebooting` only; the target is closed by a heartbeat's thread (`beat`), which
stores the list in two steps, as `ingest_inventory` reads before its transaction
opens, and then confirms in five: target, offered, items, outcome, status.
On the machine, `lacks` is the truth, `scan` and `sent` the pending list of the
reporter and the hash it last sent, `installs` the executor. Windows, backoffs
and timeouts are choices of the pass that looks at them; which updates are
approved is a choice of `Resolve`. `leaving` holds the deletes and merges that
have removed the commands and not yet the patch rows.

### Firmware

One job, one image. `row` is `firmware_targets`; `age` is how long ago the flash
was fetched against the code's two timeouts; `pass` is where the scheduler is
(`reconcile_once`, `confirm_stored`, `fail_unapplied_after_reboot`, `expire_stale`,
`dispatch_once`, each with what it has read). `cancel` is a console request that
cancels a job target by target, `post` a result that `ingest_result` has accepted
and not yet written. The agent's `Place` runs from claimed over fetched
(`running`) to `staged`; the flash is part of the next `Boot`. `bios` is what the
machine runs, `report` what it last reported and whether that was before the
fetch, after it or after the boot. A machine may also be flashed by hand.

`OneFlash` is the abstract promise, with no command, pass, report or clock in it: a
machine waits, is handed the image, has it staged, is over, and what the hub says of
it is either nothing or that it was flashed. `flashOf` maps `age`, `staged` and the
agent's place to these phases, `saidOf` is the row's `applied`; the fetch is the only
step that hands anything out. What the code does not promise is not in it: a row may
say cancelled or failed of a machine that then flashes (`CancelIsHonest` below).

### Backup

One PC with one file, whose versions are numbered. `runs` is `backup_runs` in the
order of the inserts, `fileSets` is `backup_file_sets` with the version its
`backup_files` list (`Nothing` for an incremental that packs no file), `store` what
the destination holds under each object key. A chain's id is the number of the run
that started it; a key is chain, sequence and second, as in
`object_key_for_machine`, so two runs may share one. `threads` is where each pass is
inside `files_dispatch_once` (the scheduler's and the console's) or
`expire_stale_file_runs`, `posts` where each report is inside `ingest_file_result`,
with the archives `rotate_chains` has still to remove, and `cancelling` a
`cancel_file_run`; each value is a point between two transactions, or between a
transaction and a call to the destination. `orders` is the run that each command
names. On the PC, `tasks` are the runs' executors
and `cache` is `BackupManifest`. `overlapped` and `unlisted` are history: that two
passes, or two closers of one run, have collided, and the chains for which the
agent was told 200 about a run that was not recorded. The properties are of a PC
whose passes and reports come one after the other: what collisions do is in the table
of disagreements below, and `overlapped` remembers them for good.

### Wake

Requests for one sleeping machine, with the peers (`Machine`) that can relay.
`tick` is where each pass is: `reconcile`, `confirm`, `expire` and `dispatch`, a
step per transaction. The scheduler thread runs passes, and so does the console
after a request, so two overlap. `heard` and `late` are the three comparisons
with the clock. `sentFor` records the packets that really left.

### Invites

`visit` is a sign-in inside `redeem`: look, claim a seat, record, read the group,
write it; two visits may be the same person's. Operators revoke and delete the
invite and save an edit of the group; the hub may stop anywhere.

### PtyInput and PtyOutput

Batches and bytes are known by the order in which the hub accepted the one and
the shell printed the other. `posting` is a tab inside `push_input`, which reads
the next number before its transaction opens; `pull` is the agent's poll. On the
way back, `flush` is what each of the agent's two flushers waits for, `delayed` the
posts it gave up on that may still land, `chunks` the hub's replay window, and
`screens` the console's polls, which read the window in three statements, and
`screen` the chunks that were written to the terminal.

### OutputStream

Pieces of output (what one flush takes from the buffer) get sequence numbers;
`net` is the POSTs on the way or in a handler's hands, including those the agent
has given up on. `rows` is `command_output_chunks`. The hub's caps are one number,
`Cap`, and the cap marker is a row of its own. A console poll is three reads in
three steps: command, chunks, marker and cursor. `TabSwitches` lets a second
poll start while the first is unanswered, as `visibilitychange` does.

### Enrollment

Hub side: `agents` (with the two ways a row ends, revoked or gone), `tombs`
(`decommissioned_agents`), `codes`, `record` (a machine's telemetry and who wrote
it). PC side: `identity`, `host` (its computer name), `strikes`, `removed`. `work`
is one request or one operator's delete per thread, one value per transaction
boundary; `Serve` is the next transaction of any of them, `Hear` the agent's
reading of the answer. The ingest gate of `app.py` (`_ingest_gate`) is a guard:
a report holds the gate of the name it carries from the authorization to its
last write, and `delete_machine` takes the same gate. Both agent loops ask: the
heartbeat loop and the process loop authenticate and read 401 reasons alike.
`strayed` and `forgotten` are history: agents that changed their name in a
report, and identities an install threw away.

## Runs

| Run | What it shows | Bounds and why they are enough |
|---|---|---|
| `delivery` | no command starts twice, custody, statuses that are true, refinement of `WorkOrder`, with every loss and restart | 2 commands (one claim takes both), 2 enrolments of one machine (the old and the new owner), 2 threads (every race in the queue is between two transactions); 150 thousand states |
| `delivery_live` | with nothing lost, what is pending is claimed or retired and what is claimed is answered | 1 enrolment, 2 commands so that one waits for the other's place (`MaxConcurrent` 1) |
| `push` | slots and bells; a held request is answered and a command is served | 2 threads, 2 machines and 1 slot, so that "taken" and "full" occur; claims of the second machine fail now and then |
| `deploy` | no orphaned command, budget, roll-up, only a retry reopens, every target ends | 1 machine, 2 attempts, 1 retry, every operation; 5 commands: 2 x (1 + 1) and one more that would show an attempt too many; 390 thousand states |
| `deploy_double` | the finding below | 1 machine, 2 attempts |
| `stream` | order, no duplicate, cap always marked; the result is never held up by output; consoles stop | 3 pieces and a cap of 1: at and above it; 2 attempts: a late one and its successor; 1 poll at a time, tabs that are hidden and shown |
| `enrollment` | one checked holder per name, deleted stays deleted, credentials are thrown away only when they should be | 1 install with the secret, 2 names (so that it can stray), 1 code, 2 threads, 2 identities; 2.6 million states |
| `enrollment_live` | deleted PCs come back, doomed ones go | 1 name, 3 identities, 2 strikes, 2 heartbeats at a time |
| `upkeep` | `Firmware`: one update command per target; the image is handed out and flashed once (`OneFlash`); what the hub concludes from a version is what the machine runs; a complete job is over. `Backup`: every chain is whole, a PC that was backed up stays restorable, what is listed is stored, nothing is left out that the newest chain does not list last | *firmware*: 1 machine (targets share only the job's roll-up), 2 commands, one more than allowed; cancels, dying passes and agents, lost replies and reports. Backups: the three parts below; 2.9 million states |
| `firmware_live` | every target ends, but for the two that are abandoned | two parts: cancels, with the window open and no pass that dies; deletes and a withdrawn image, with everything that may end, die or get lost; 680 thousand states |
| `hub_services` | `Wake`: what says sent was sent, one relay, a withdrawn request is unsent. `Invites`: seats and records. `PtyInput`, `PtyOutput`: in order, none twice | 2 passes, 1 request, 2 commands; 3 persons, 2 visits and 1 seat; 2 tabs and 4 batches; 3 bytes, 2 a chunk, a window of 2 chunks, 1 late post; 3.7 million states |
| `schedulers` | `Deployment` with dying passes and merges: budget and roll-up. `PatchRun`: attempts are spent before a command is queued, a complete run is over, what is recorded as applied is gone from the machine | the five parts below; 2 million states |

`schedulers` explores patch runs with 2 machine records (one a former name of the
other), 2 updates, 2 heartbeats, 1 attempt and 1 retry, in parts, because all
together is too much; each has all of the scheduler, the agent and the
heartbeats. *updates*: both updates, cancels and a retry, one heartbeat at a time.
*beats*: two heartbeats at once, one update, cancels, a retry, passes that die.
*deletes* and *merges*: one update and one heartbeat at a time, beside a machine
that is deleted (with searches that fail and passes that die) or merged.

`upkeep` explores backups with 3 runs, 1 kept chain and 2 archives a chain (a full,
an incremental and the full whose success dooms the first chain), 2 versions of the
file, 2 attempts per report and 1 cancel, in three parts. *faults*: two things go
wrong (the hub or the agent restarts, a pass or an upload fails, the destination
refuses, a run is cancelled or expired, a report times out and stays on its thread, a
command lapses), one pass and one report at a time, with both kinds of destination.
*crowd* and *second*: one thing goes wrong, with 2 threads of passes and 2 of
reports, runs at least a second apart or all in one. A behaviour is cut where it
becomes `overlapped`, for the properties say nothing from there on.

The type invariant of a module and its small safety invariants are checked as one
conjunction of named parts: `PushInv`, `DeployInv`, `PatchInv`, `StreamInv`, `EnrollInv`,
`FirmwareInv`, `BackupInv`, `WakeInv`, `InviteInv`, `PtyInputInv`, `PtyOutputInv`.

Deadlock is checked in `push` and `enrollment*`, which never stop. Elsewhere
commands, ids and pieces run out: the bounded system stops when its work is
done. Symmetry is used in safety runs only.

### Fairness

* **Delivery**: request threads run, the sweep runs, time passes, an agent's
  tasks go on; a poll needs an idle thread, which waitress's pool gives it again
  and again (strong fairness). No operator has to do anything.
* **Push**: threads run, slices and deadlines come, agents ask again, a claim
  that fails now and then does not fail each time, and the hub is not restarted
  for ever.
* **Deployment**: the hub's own fairness is the scheduler thread and the clock.
  `FairSpec` adds an assumption about agents, that one which claimed a command
  reports it. `TargetsEnd` needs it: see `MCDeployOffline`. A target of a cancelled
  deployment is exempt: see `MCDeployCancelled`.
* **Firmware**: however often passes die, one gets to its end again and again; a
  machine is online at a pass again and again (strong fairness of its claim); an
  agent that took the command up goes on. No agent has to claim anything.
* **Wake**: the same for passes, and time passes (`WakeEnds`, which no run
  checks: the bounds of `hub_services` are for safety).
* **OutputStream**: the agent's threads run and the console's timer fires.
  Nothing is assumed of the network.
* **Enrollment**: the heartbeat goes on, requests that were taken up are served
  and heard, and restarts and lost answers stop at some time (they reset the
  strikes, which only count when they come in a row).

## Finding, and counterexamples kept beside it

`deploy_double` (`packages.py:1781`): `create_command` commits before
`dispatch_once` records the id. A pass that dies between the two leaves a target
`in_flight` with no command id; the next reconcile charges it a failed attempt
and the retry queues a second install while the first is still live. The
docstring of `_claim_target` (1659) says that a double install is the one thing
that must not happen.

These configurations state things one would like to be true and are violated.
They are not runs: most are limits the code accepts, some are worth a look.

| Configuration | Violated | Why |
|---|---|---|
| `MCDeliveryStuck` | `LostReportIsExpired` | `Worker.cs:356` says that the hub expires a command whose report was lost; `fleet.py` expires pending commands only (1784), so it stays `claimed` |
| `MCDeliveryOrphan` | `NoOrphanResult` | `complete_command` checks the row (`fleet.py:2033`) before its transaction; a delete between the two leaves a result without a command |
| `MCStreamSkipped` | `NothingSkipped` | the chunks and the highest number of a poll are two statements (`fleet.py:2167`); a chunk stored between them is passed by the cursor and never shown |
| `MCStreamTwice` | `PrintedInOrder` | two polls at once after a tab is shown again (`fleet-terminal.js:573`) print the same chunk |
| `MCStreamCancelled` | `DropsAreEarned` | the command ends while a POST is out; the chunk it carries is cancelled with it and not tried again (`OutputStreamer.cs:147`) |
| `MCStreamMarker` | `MarkerIsBeyond` | "seq+1 is safe" (`fleet.py:2133`) is not so for a late POST: the agent has numbered on, and the marker takes a chunk's number |
| `MCDeployCancelled` | `CancelledEnds` | dispatch, cancel, failed attempt: the target goes back to pending in a deployment that no pass reads any more (`packages.py:1640`) |
| `MCDeploySticky` | `CancelledIsSticky` | the roll-up at the end of a pass reads the status before its transaction opens (`packages.py:1797`); a cancel in between is overwritten |
| `MCDeployOffline` | `TargetsEnd` | the sweep that is to free a target (comment at `packages.py:1599`) touches pending commands only; one claimed by a machine that goes offline keeps its target in flight |
| `MCDeployForgotten` | `DeploymentsEnd` | a deployment whose last target's machine is deleted has no targets and stays open (`packages.py:1813`) |
| `MCDeployMerged` | `CompleteIsOver` | the last row of a deployment is a merge's duplicate, and its loss settles the deployment behind a pass that is about to roll it up; the pass writes `complete` from a read made before an operator's retry (`packages.py:1797`, 1833). Theorems about `Deployment` keep the two apart |
| `MCBackupMissed` | `NothingMissedAlways` | a run is cancelled or expired while the agent works on it; its report is answered 200 all the same (`backups.py:3122`), so the agent saves its cache (`BackupFilesExecutor.cs:197`) with a version that the hub discarded or never listed, and every later incremental of the chain leaves the file out. `BackupManifest.cs:18` calls the cache "what a chain already contains" |
| `MCEnrollmentTombs` | `TombsAreOfTheGone` | the agents to bury are read before the first INSERT opens the transaction (`fleet.py:1352`); one that moves to another name in between is buried alive, which the docstring at 1660 rules out |
| `MCEnrollmentCode` | `DeadCodeHasNoAgent` | `revoke_code` reads the code before its transaction (`onboarding.py:331`); a redemption that commits in between mints an agent that the revocation does not see |

These properties stand at the end of their modules, under what the code does not
keep. TLC violates each of them in a small instance of the module (one machine or
two, one update, one request, two passes or tabs); they are not runs.

| Module | Violated | Why |
|---|---|---|
| `PatchRun` | `AppliedIsGoneAlways` | a Windows Update search that fails reports an empty list beside an `error` (`PatchScanner.cs`); the hub reads the list only (`fleet_web.py:344`), so everything attempted is confirmed |
| `PatchRun` | `ClosedIsGone` | a heartbeat's confirm that stalls after its third read, until the target timed out and was retried, closes the new attempt as `applied` (`patches.py:1709`) |
| `PatchRun` | `CancelIsTrue` | `cancel_run` recalls targets in flight while their commands stay live (`patches.py:1331`, whose docstring speaks of undispatched ones only) |
| `PatchRun` | `CancelStays` | a verdict reached from rows read before the cancel is written without a condition (`patches.py:1601`) |
| `PatchRun` | `NobodyIsLeftBehind` | both records of a merge tried one update: moving the outcomes breaks `UNIQUE (run_id, machine, uid)` (`patches.py:1791`), and `merge_machines` stops after the commands are gone (`app.py:3781`) |
| `PatchRun` | `NothingIsTrue` | a machine with no approved update is `nothing_to_do` whatever it lacks; the comment in `dispatch_once` calls it a claim about its patch state |
| `Enrollment` | `NoGhost`, with the constants of `MCEnrollmentTombs` | a report that renames holds the gate of the new name only (`fleet.py:1460`, `app.py:5519`), so the old name's delete does not wait for it |
| `Firmware` | `CancelIsHonest` | `cancel_target` writes `cancelled` without a condition, over a fetch that has been granted (`firmware.py:1303`) |
| `Firmware` | `TerminalStays`, `VerdictsStay` | a result that was accepted, or a verdict on rows read before, is written over a target that was settled meanwhile |
| `Firmware` | `FlashesEnd` without `Abandoned` | a pass that dies between the claim and the command's id, or an agent that dies before it fetches, leaves a target in flight that no sweep matches (`firmware.py:881`) |
| `Backup` | `OneBackup` | a console request's pass and the scheduler's both find no run under way and start one each; "there is at most one" (`backups.py:1901`) rests on a read before the INSERT |
| `Backup` | `ListedOnce` | two reports of one run, the second sent when the first timed out, both find it running and both list its archive (`backups.py:3122`) |
| `Backup` | `KeptIsStoredAlways` | a cancel that read the run before its archive was listed closes it afterwards; the repeated report then discards an archive that stays listed (`backups.py:3131`); likewise, with no two requests at once, when the hub stops between the listing of an archive and the close of its run, the operator cancels the run that still reads `running`, and the agent repeats its report |
| `Backup` | `RunIsOnItsWay` | a pass that fails after `start_file_run` leaves a running row that nothing carries on: the PC is not backed up for the 24 hours until it expires, although "the next pass tries again" (`backups.py:3056`) |
| `Wake` | `OneRelayAlways`, `WithdrawnIsUnsentAlways` | two passes that overlap reopen what the other has closed; `OneRelay` and `WithdrawnIsUnsent` hold while they do not |
| `Wake` | `OneOpenWake` | two requests at once both find nothing open |
| `Wake` | `WithdrawnStays` | a pass that read the request before the cancel finishes it as already awake (`wake.py:907`) |
| `Invites` | `OneSeatEach` | the same address twice at a time takes two seats (`invites.py:355`) |
| `Invites` | `VisitsOnlyAdd` | the group is read in one transaction and written in another, so an edit in between is undone |
| `PtyInput` | `NoneGoesDeaf` | `push_input` reads the number before its transaction; a batch gets one that the agent's cursor has passed (`terminal.py:412`) |
| `PtyOutput` | `ShownWhole` | a retry carries more bytes than the post that landed, under the same number, and is dropped as a duplicate; or a chunk is stored between the three reads of a poll |
| `PtyOutput` | `ShownInOrder` with `MaxScreens = 2` | typing starts a poll whether or not one is under way (`fleet-pty.js:514`); both ask from one cursor and write the same chunks |
| `PtyOutput` | `CursorStays`, `PartingWords` | the window is cleared under a poll; the last flush overtakes the pump's |

Wake also disagrees with a docstring: `_claim` says that a crash between the claim
and the command costs one retry, but a `relaying` row without a command waits for
its deadline and ends as `no_relay`.

## Proofs

TLAPS checks, for every value of the constants:

| Module | Theorems | Under |
|---|---|---|
| `CommandDeliveryProofs` | `TypeCorrect`, `Delivery` (at most one start), `Custodianship`, `StatusSoundness`, `Finality` (an action property), `Refinement` (`CommandDelivery` implements `WorkOrder`) | `QueueAssumption`, `DeliveryAssumption` |
| `CommandPushProofs` | `SlotAccounting` (`PushInv`), `Wakeup` (`NoLostWakeup`) | `QueueAssumption`, `PushAssumption` |
| `PatchRunProofs` | `PatchTypes`, `NoFalseApplied` (`AppliedIsGone`), `RunStaysOver`, `PatchRunIsSound` (`PatchInv`, with the bound on commands) | `QueueAssumption`, `PatchAssumption` |
| `DeploymentProofs` | `DeploymentSafety` (`DeployInv`) and `SettledIsReopenedByARetry` (`OnlyARetryReopens`), passes that die included; `LiveInstallsAreTracked` for passes that live | `QueueAssumption`, `DeploymentAssumption`, `Apart` |
| `UpkeepProofs` | `FirmwareSafety` (`FirmwareInv`), `AppliedFlashesAreReal`, `UnappliedFlashesAreReal` (action properties), `OneFlashEach` (`Firmware` implements `OneFlash`); `ChainsStayWhole` (`BackupInv`), `KeptStaysStored` (`KeptIsStored`), `NothingGoesMissing` (`NothingMissed`) | `QueueAssumption`, `FirmwareAssumption`, `BackupAssumption` |
| `EnrollmentProofs` | `EnrollmentSafety` (`EnrollInv`), `DeletedMachinesStayGone`, `ForgettingIsFinal` | `EnrollmentAssumption` |
| `OutputStreamProofs` | `StreamSafety` (`StreamInv`), `CapsAreVisible` (`CapIsVisible`) | `StreamAssumption`, `OnePoll` |
| `HubServicesProofs` | `WakeSafety` (`WakeInv`), `InviteSafety` (`InviteInv`), `TypedSafety` (`PtyInputInv`), `PrintedSafety` (`PtyOutputInv`) | `QueueAssumption`, `WakeAssumption`, `InviteAssumption`, `PtyInputAssumption`, `PtyOutputAssumption`; the last one `OneScreen` |

The assumptions of the modules are type facts: the `No...` values are outside the
sets they stand beside, numbers are numbers, a chunk holds a byte, there is at least one person, and no
wake request is a command (they are ids of two tables). Sets of machines, agents,
commands and requests may be infinite. Three hypotheses say more:

* `Apart`: no machine has a duplicate record that is merged away, or operators
  neither retry a deployment nor delete from it. What happens otherwise is
  `MCDeployMerged`, and a second budget of attempts for a row that a merge brings
  back to a machine that an operator had deleted. With it, each half (merges
  without retries; retries and deletes without merges) is covered in full.
* `OnePoll`: the console has one poll in the air, or is never hidden and shown again.
  Otherwise, `MCStreamTwice`.
* `OneScreen`: a terminal's console has one poll in the air. With two (typing and
  showing the tab both start one), both ask from one cursor and show the same chunks.

**Delivery.** `AtMostOnce` is not inductive: a start is the
first only if nobody else has a copy of the command, and nobody has one only if
claiming is exclusive. `IInv` is `TypeOK /\ Custody /\ StatusIsReal /\
AtMostOnce /\ DeleteScope`. `Custody` is the strengthening: a command has at most
one copy outside the queue (`OneCopy`), only claimed or deleted commands have one
(`CopyIsClaimed`), a copy carries what happened (`CarriedIsFaithful`,
`LocalIsFaithful`), and what was never claimed was never touched
(`UnclaimedIsUntouched`). `DeleteScope` says that a delete under way holds rows
of its own machine only. There is a lemma per action, each with a step per conjunct
it disturbs; `NextIInv` puts them together. `Finality` and `Refinement` use
`IInv` and go action by action: most steps are stutters of `WorkOrder`
(`QuietStep`), the others each have a lemma that names the abstract step.

**Push.** `PushIInv` is `PushTypeOK /\ HasMachine /\ SlotsAreHeld
/\ NobodySleepsThroughTheBell /\ NoLostWakeup`. `SlotsAreHeld` equates a counter
with the cardinality of a set of threads, so each step that enters or leaves the
set cites one of `OneMore`, `OneLess`, `SameHolders`. `NoLostWakeup` needs
`NobodySleepsThroughTheBell`: a thread blocked on a set bell would be
invisible to it.

**Patch runs.** `TypedAtWork` adds to the types that whoever is in
the middle of something is at work on a machine. `AppliedIsGone` needs that every
list covers what the machine lacks, wherever it is (`ListsCover`: stored, pending at
the reporter, in a heartbeat's thread, or half-way through a confirm), for machines
that are not `unsure`; a machine lacks less with time, so a late list still covers.
`RunIsOver` holds because each writer rolls the run up in its own transaction, and
`_claim_target`, which does not, finds its target pending and so the run open.
`SpentBeforeQueued` bounds a cardinality: `Paid` says that the commands a machine
has, and one more if the scheduler is between its claim and its command, are at most
`PatchAttempts * rearmed` and the attempts of the row; `ReadEnough` that the attempts
the scheduler has read are never fewer than the row's, which is what makes the check
in `dispatch_once` valid when the claim acts on it three transactions later.

**Deployments.** Two inductive invariants. `FirstInv` holds even if passes die:
every attempt is paid for before its command is queued (`Paid`, a bound on a
cardinality, with credit for a row that is gone for good), the verdicts of a pass
are about rows that are still in flight or gone (`VerdictsAreDue`), and no stale
roll-up says `complete` (`RollUpIsOpen`: a deployment that the pass has a hand in is
not settled behind its back). `TrackInv`, for passes that live, ties each value a
pass has read to the row it was read from (`PassIsTracked`); `LiveIsTracked`, no
install that may still run is unknown to its row, follows as the pass is the only one
that takes a row out of flight without ending its command.

**Firmware.** `SendsOnce` says that a flash command is only ever the first of its
target, by following the rows and the console through every place at which a target
may be pending again. The two action properties are about evidence: a
target becomes `applied` only if the image is in, and is failed as unapplied only if
it is not. Both need `Dated`: a new version reported after the fetch is what the
machine runs, and a report made after the boot, whatever it says, is of what it runs.
`Handed` ties the rows to what left the hub: while a target may still be sent its
command the image was not fetched, and whoever is in the middle of a flash fetched it.
`OneFlashEach` follows action by action (`FlashSteps`): most steps leave a machine
where it is and at most change what is said of it (`QuietSteps`), which is `applied`
only on evidence (`SaidOnEvidence`); the fetch, the staging, an agent that stops, the
boot and a flash by hand are each one abstract step. With `Handed`, no fetch finds its
target in flight twice.

**Backups.** `UpInv` has two storeys. `BaseInv` holds whatever passes and reports do
at once: types, and rows and lists name runs that exist. The rest holds until
passes or reports have collided. `ManifestInv`: there is one pass and one run at a
time; a run that is planned or under way starts a chain or goes on where the newest
one ends (`PlansHold`); the archives of a chain are listed without a gap and in the
order of their sequences; and what rotation has still to take is of a doomed chain and
goes from the top (`GoesFromTheTop`), which is what keeps a chain whole when rotation
stops half-way. `StoreInv` follows a command to its task and its report: a report that
says done comes after its upload (`ReportsAreTrue`), so what is listed is stored.
`CacheInv`: versions grow along a chain, and the version that the agent's cache holds
is covered by an archive of its chain (`Covered`), unless that chain was rotated away
or the agent was told 200 for a run that was not recorded. Most lemmas about the
manifest are one fact seen from different steps: a doomed chain stays doomed, because
inserts go to the newest chain and deletions take from the doomed ones only. Doom is a
cardinality and `Highest` a choice: that a bounded set of numbers has a greatest
element comes from the well-foundedness of `<`.

**Enrollment.** A request spans several transactions, so the invariant says for each
place of it what cannot change underneath: gates have one holder (`GatesHold`), a row
that is gone stays gone, a row leaves its name only under the name's gate or by
straying. That gives `OneHolds`, and `RecordsAreNamed` and `RefusalsAreFinal`, of
which `DeletedStaysGone` and `ForgetIsFinal` are instances. New ids need room:
`RoomIsKept` compares the requests that are about to insert with the ids left.

**Live output.** `Known(s, x)` says that x is the chunk numbered s, wherever a copy of
it is: in the flusher's hands, in a POST, in the table, in a poll. `Numbered` says
that two copies of a number are one chunk, `Bounded` and `InOrder` that numbers and
text go up together, `Ahead` that what is not yet stored comes after what was
printed. `CapIsVisible` rests on `CapIsKnown`: while a flusher still holds the answer
`truncated`, the marker is there already.

**Invites.** `SeatsAreTaken` counts the people who are let in, or about to be, and the
visits between their seat and their record: there are at most `used_count`, and
`used_count` grows only below its limit.

**Typed input.** `NumbersFollow`: a row's number names one batch, and numbers and
batches go up together, in the table, in a poll and in what a tab has read.
`NoGaps`: between the agent's cursor and any number in use nothing is missing. The
agent takes rows in the order of their ranks, so what it types continues what it typed.

**Terminal output.** A number is a place in what the shell prints: whatever is posted
under it begins where the numbers before it ended, also when a retry carries more
(`Taken`: a chunk on its way, stored, listed or shown was taken before what waits, or
is the start of it). So the screen is in order when its numbers are (`Placed`), and
they are, as the cursor passes what it showed (`Turns`). Both end with the shell: then
two flushers share a number.

**Wakes.** Steps are grouped by what they do to the queue (`QueueMoves`) and to the
rows (`RowMoves`), so that most of the invariant is shown once per group.
`SendersAreReal` and `SentIsReal` tie a packet that left to a command that was
claimed and made for this request; `OneByOne`, while passes do not overlap, says at
each place of a pass through which command a packet can still leave: one at most.

**Only model-checked.** All liveness (`ResultFollows`, `WatchEnds`, `TargetsEnd`,
`FlashesEnd`, `DeletedReturns`, `DoomedGoes` and those of delivery and push): fairness
and `ENABLED` are outside what the prover handles. There are no recursive operators.

## What is simplified

* Queue: `rename_machine` and `forget_machine` read before their first write
  inside one connection; they are one step. Output retention is not an action.
* Delivery: an agent that shuts down while it reports, and its 24 hour limit on
  reporting, are covered by `AgentRestart` and `ReportLost` respectively.
* Push: `MaxWaiting` is constant; the code reads the setting for each request.
* PatchRun: one run, and no maintenance windows or approvals of its own: they are
  choices of the pass. The SELECT and UPDATEs of `_mark_items` are one step; the
  loops that retire and dispatch may take their rows in any order; a heartbeat
  authenticates before the model starts; a Windows Update search is one step, and
  updates only go, as the search after an install is about what was attempted.
* Firmware: one job and one image; `rename_machine`, `update_payload` and the
  BitLocker evidence are left out; which machines can be flashed is a choice.
* Backup: one PC, one file that is edited and never deleted; whether the PC is due,
  asked for, online and within the throttle, and whether a run is a day old, are
  choices; `created_at` is the order of the inserts; an agent that was reinstalled
  loses no cache. Restores, profiles, keys and the hub's own database backup are left
  out.
* Wake: one sleeping machine; which peer is chosen is any; `rename_machine` is
  left out.
* Invites: one invite and one group.
* Terminal: one session; the limit on sessions, the buffer's cap of 512 KB and the
  window's bound in characters are left out; a resize is a batch like any other.
* Deployment: one package per deployment; `max_attempts` is one constant; any
  deployment's window may close; one pass runs at a time, as in the code.
* OutputStream: characters and chunks share one cap; `MaxPosts` bounds the POSTs
  in the air, `MaxPolls` the console's requests.
* Enrollment: a name stands for all its spellings; unsigned reports are off
  (`require_enrolled_telemetry`); a hub restart, PCs without a serial number,
  reinstallation over an uninstalled PC, `merge_machines` and the readings queue
  are not modelled; starting to uninstall counts as gone; `authenticate` with
  its touch of `last_seen` is one step; the name is read together with the
  header; gates are one per name, not striped (striping only makes more wait);
  prunes may happen at any age. With one install the serial check of `redeem`
  never meets another PC's serial.

What is not modelled at all is listed in `PROJECT.json` with its reason: mostly
view code, data processing and I/O, and what is planned below.

## Plan

What is left, in the order in which others rest on it.

1. `Ingest`: the readings queue, `merge_machines` as a whole and the delete
   against it.
2. What is left of backups: restores against rotation, profiles, the hub's own
   database. `Rules` and `Watchdogs`: one action per firing, bounded restarts.
3. `RemoteSession`, `Transfers`: one controller, no staged file left behind.
4. `SelfUpdate` (hub and agent): a bootable binary between any two renames.
5. `Assistant`, `Tokens`: what runs is what was confirmed, a grant is redeemed once.
