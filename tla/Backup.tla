--------------------------------- MODULE Backup ---------------------------------
(***************************************************************************)
(* The file backups of one PC (hub/backups.py, the agent's                 *)
(* BackupFilesExecutor): runs, the chains of a full archive and the        *)
(* incrementals that rest on it, the reports that list an archive's files, *)
(* rotation, cancel and expiry, and the agent's own record of what a chain *)
(* holds.  A pass runs on the scheduler's thread and on the request        *)
(* threads of the console; reports arrive on threads of their own.         *)
(*                                                                         *)
(* The PC has one file, whose versions are numbered.  A chain's id is the  *)
(* number of the run that started it.  An object key is the chain, the     *)
(* sequence and the second the run was started in, as in                   *)
(* object_key_for_machine; the manifest's order is that of the inserts.    *)
(***************************************************************************)
EXTENDS CommandQueue, Integers, FiniteSets, Sequences

CONSTANTS
    Thread,         \* threads that run files_dispatch_once: Scheduler and requests
    Scheduler,      \* the backup_scheduler thread, the only one that expires runs
    Post,           \* request threads that take reports
    NoBackup,       \* no command, no post
    KeepChains, FullEvery,      \* backup.files_keep_chains, backup.files_full_every
    MaxRuns, MaxVersion, MaxSecond, MaxTries, MaxCancels    \* bounds

ASSUME BackupAssumption ==
    /\ Scheduler \in Thread /\ NoBackup \notin Command \cup Post
    /\ KeepChains \in Nat \ {0} /\ FullEvery \in Nat \ {0}
    /\ {MaxRuns, MaxVersion, MaxSecond, MaxTries, MaxCancels} \subseteq Nat /\ MaxVersion > 0

VARIABLES
    runs,       \* backup_runs, in the order of the inserts
    fileSets,   \* backup_file_sets, each with the version its backup_files list
    store,      \* the destination: what each object holds
    orders,     \* the run that each backup_files command names
    viaHub,     \* whether the destination takes uploads through the hub (WebDAV)
    threads,    \* where each pass is, and what it has read
    posts,      \* where each report is on its thread
    cancelling, \* the cancel request being served
    tasks,      \* what the agent is doing about each run's command
    cache,      \* the agent's BackupManifest: a chain and the version it holds
    file,       \* the version on the disk
    second,     \* the clock, in seconds of starts of passes
    recorded,   \* how many file sets were ever inserted
    cancels,    \* how many cancels were served
    overlapped, \* history: two passes have been under way at once, or a run was closed
                \* or recorded by two that had both read it as running
    unlisted    \* history: chains for which the agent was told 200 for a run that
                \* was not recorded

backupTables == <<runs, fileSets, recorded>>
backupHub == <<threads, posts, cancelling>>
backupAgent == <<tasks, cache, file>>
backupHistory == <<overlapped, unlisted>>
backupOwn == <<backupTables, store, orders, viaHub, backupHub, backupAgent, second, cancels,
               backupHistory>>
backupVars == <<queueVars, backupOwn>>

-------------------------------------------------------------------------------
RunId == 1..MaxRuns
RunStatus == {"running", "succeeded", "failed", "cancelled"}
Nothing == 0
Holding == 0..MaxVersion
Key == [chain : RunId, seq : 0..MaxRuns, at : 0..MaxSecond]
FileSet == [id : Nat, run : RunId, chain : RunId, seq : 0..MaxRuns, lists : Holding]
Dying == [order : Nat, row : FileSet]

NoThread == [pc |-> "idle", now |-> 0, stale |-> {}, chain |-> 0, seq |-> 0, run |-> 0,
             command |-> NoBackup]
NoSet == [id |-> 0, run |-> 0, chain |-> 0, seq |-> 0, lists |-> Nothing]
NoPost == [pc |-> "idle", run |-> 0, ok |-> FALSE, doomed |-> {}, row |-> NoSet]
NoCancelling == [pc |-> "idle", run |-> 0, command |-> NoBackup]
NoTask == [pc |-> "none", packs |-> Nothing, seen |-> 0, ok |-> FALSE, tries |-> 0,
           on |-> NoBackup]

RunRow == [status : RunStatus, chain : RunId, seq : 0..MaxRuns, at : 0..MaxSecond,
           command : Command \cup {NoBackup}]
PassState == [pc : {"idle", "expire", "plan", "start", "queue", "attach"}, now : 0..MaxSecond,
              stale : SUBSET RunId, chain : 0..MaxRuns, seq : 0..MaxRuns, run : 0..MaxRuns,
              command : Command \cup {NoBackup}]
PostState == [pc : {"idle", "get", "discard", "fail", "base", "insert", "finish", "chains",
                    "delete", "drop", "answer"}, run : 0..MaxRuns, ok : BOOLEAN,
              doomed : SUBSET Dying, row : FileSet \cup {NoSet}]
TaskState == [pc : {"none", "ready", "packed", "relaying", "report", "waiting", "done"},
              packs : Holding, seen : 0..MaxVersion, ok : BOOLEAN, tries : 0..MaxTries,
              on : Post \cup {NoBackup}]

BackupTypeOK ==
    /\ QueueTypeOK
    /\ runs \in Seq(RunRow) /\ Len(runs) <= MaxRuns
    /\ fileSets \subseteq FileSet /\ store \subseteq [key : Key, holds : Holding]
    /\ orders \in [Command -> 0..MaxRuns] /\ viaHub \in BOOLEAN
    /\ threads \in [Thread -> PassState]
    /\ posts \in [Post -> PostState]
    /\ cancelling \in [pc : {"idle", "recall", "write"}, run : 0..MaxRuns,
                       command : Command \cup {NoBackup}]
    /\ tasks \in [RunId -> TaskState]
    /\ cache \in [chain : 0..MaxRuns, version : 0..MaxVersion]
    /\ file \in 1..MaxVersion /\ second \in 0..MaxSecond
    /\ recorded \in Nat /\ cancels \in 0..MaxCancels
    /\ overlapped \in BOOLEAN /\ unlisted \subseteq RunId

BackupInit ==
    /\ QueueInit
    /\ runs = <<>> /\ fileSets = {} /\ store = {} /\ recorded = 0
    /\ orders = [c \in Command |-> 0] /\ viaHub \in BOOLEAN
    /\ threads = [t \in Thread |-> NoThread]
    /\ posts = [p \in Post |-> NoPost]
    /\ cancelling = NoCancelling
    /\ tasks = [r \in RunId |-> NoTask]
    /\ cache = [chain |-> 0, version |-> 0]
    /\ file = 1 /\ second = 0 /\ cancels = 0
    /\ overlapped = FALSE /\ unlisted = {}

-------------------------------------------------------------------------------
(* machine_chains, latest_chain, plan_next_run.                            *)

Highest(S) == CHOOSE n \in S : \A k \in S : k <= n
SetsOf(chain) == {s \in fileSets : s.chain = chain}
Listed == {s.chain : s \in fileSets}
LastOf(chain) == Highest({s.id : s \in SetsOf(chain)})
Newest == CHOOSE c \in Listed : \A d \in Listed : LastOf(d) <= LastOf(c)
Complete(chain) == \E s \in SetsOf(chain) : s.seq = 0

(* The chains beyond the newest KeepChains.                                *)
Doomed == {c \in Listed : Cardinality({d \in Listed : LastOf(d) > LastOf(c)}) >= KeepChains}

KeyOf(r) == [chain |-> runs[r].chain, seq |-> runs[r].seq, at |-> runs[r].at]
Running == {r \in DOMAIN runs : runs[r].status = "running"}

(* client.put replaces an object, client.delete is a no-op on a missing    *)
(* one.                                                                    *)
Put(key, v) == store' = {o \in store : o.key # key} \cup {[key |-> key, holds |-> v]}
Delete(key) == store' = {o \in store : o.key # key}

(* _finish_run: by id, whatever the row says.                              *)
FinishRun(r, to) == runs' = [runs EXCEPT ![r].status = to]

(* A run is closed over the head of its report.                            *)
CloseOver(r, to) ==
    /\ FinishRun(r, to)
    /\ overlapped' = (\/ overlapped \/ runs[r].status # "running"
                      \/ \E p \in Post : posts[p].run = r /\ posts[p].pc # "get")

-------------------------------------------------------------------------------
(* files_tick, and files_dispatch_once on a request's thread.              *)

Stands(t, pc) == threads[t].pc = pc
Go(t, pc) == threads' = [threads EXCEPT ![t].pc = pc]
Leave(t) == threads' = [threads EXCEPT ![t] = NoThread]

(* expire_stale_file_runs reads the running rows that are old enough,      *)
(* which is up to the clock, and then fails them one by one.               *)
BeginExpiry(t) ==
    /\ Stands(t, "idle") /\ t = Scheduler
    /\ \E stale \in SUBSET Running :
           /\ stale # {}
           /\ threads' = [threads EXCEPT ![t].pc = "expire", ![t].stale = stale]
    /\ UNCHANGED <<queueVars, backupTables, store, orders, viaHub, posts, cancelling, backupAgent,
                   second, cancels, backupHistory>>

ExpireRun(t) ==
    /\ Stands(t, "expire")
    /\ \E r \in threads[t].stale :
           /\ CloseOver(r, "failed")
           /\ threads' = IF threads[t].stale = {r} THEN [threads EXCEPT ![t] = NoThread]
                         ELSE [threads EXCEPT ![t].stale = @ \ {r}]
    /\ UNCHANGED <<queueVars, fileSets, recorded, store, orders, viaHub, posts, cancelling,
                   backupAgent, second, cancels, unlisted>>

Dispatching == {"plan", "start", "queue", "attach"}

(* Phase 1, in this second or a later one: the PC is due or was asked for, *)
(* is online, and no backup of it is running.  A pass that finds it        *)
(* otherwise, or all slots taken, changes nothing.                         *)
BeginDispatch(t) ==
    /\ Stands(t, "idle") /\ Len(runs) < MaxRuns
    /\ Running = {}
    /\ second' \in second..MaxSecond
    /\ threads' = [threads EXCEPT ![t].pc = "plan", ![t].now = second']
    /\ overlapped' = (overlapped \/ \E u \in Thread : threads[u].pc \in Dispatching)
    /\ UNCHANGED <<queueVars, backupTables, store, orders, viaHub, posts, cancelling, backupAgent,
                   cancels, unlisted>>

(* Phase 2: plan_next_run.  Chain 0 is a new one.                          *)
PlanNextRun(t) ==
    /\ Stands(t, "plan")
    /\ LET full == Listed = {} \/ ~Complete(Newest) \/ Cardinality(SetsOf(Newest)) >= FullEvery
       IN  threads' = [threads EXCEPT ![t].pc = "start",
               ![t].chain = IF full THEN 0 ELSE Newest,
               ![t].seq = IF full THEN 0 ELSE 1 + Highest({s.seq : s \in SetsOf(Newest)})]
    /\ UNCHANGED <<queueVars, backupTables, store, orders, viaHub, posts, cancelling, backupAgent,
                   second, cancels, backupHistory>>

StartFileRun(t) ==
    LET r == Len(runs) + 1
    IN  /\ Stands(t, "start") /\ r \in RunId
        /\ runs' = Append(runs, [status |-> "running", seq |-> threads[t].seq,
               chain |-> IF threads[t].chain = 0 THEN r ELSE threads[t].chain,
               at |-> threads[t].now, command |-> NoBackup])
        /\ threads' = [threads EXCEPT ![t].pc = "queue", ![t].run = r]
        /\ UNCHANGED <<queueVars, fileSets, recorded, store, orders, viaHub, posts, cancelling,
                       backupAgent, second, cancels, backupHistory>>

QueueBackup(t) ==
    /\ Stands(t, "queue")
    /\ \E c \in Command : status[c] = "unissued"
    /\ LET c == CHOOSE free \in Command : status[free] = "unissued"
       IN  /\ \E m \in Machine : Create(c, m)
           /\ threads' = [threads EXCEPT ![t].pc = "attach", ![t].command = c]
           /\ orders' = [orders EXCEPT ![c] = threads[t].run]
    /\ UNCHANGED <<backupTables, store, viaHub, posts, cancelling, backupAgent, second, cancels,
                   backupHistory>>

AttachCommand(t) ==
    /\ Stands(t, "attach")
    /\ runs' = [runs EXCEPT ![threads[t].run].command = threads[t].command]
    /\ Leave(t)
    /\ UNCHANGED <<queueVars, fileSets, recorded, store, orders, viaHub, posts, cancelling,
                   backupAgent, second, cancels, backupHistory>>

(* mint_upload or the queue refuses, or anything else raises: logged, and  *)
(* the run row stays.                                                      *)
DispatchFails(t) ==
    /\ threads[t].pc \in Dispatching \ {"plan"}
    /\ Leave(t)
    /\ UNCHANGED <<queueVars, backupTables, store, orders, viaHub, posts, cancelling, backupAgent,
                   second, cancels, backupHistory>>

(* cancel_file_run: read the newest running run, recall its command if the *)
(* agent has not claimed it, then write, each on its own.                  *)
LookToCancel ==
    /\ cancelling.pc = "idle" /\ cancels < MaxCancels
    /\ \E r \in Running :
           /\ \A q \in Running : runs[q].at <= runs[r].at
           /\ cancelling' = [pc |-> "recall", run |-> r, command |-> runs[r].command]
    /\ cancels' = cancels + 1
    /\ UNCHANGED <<queueVars, backupTables, store, orders, viaHub, threads, posts, backupAgent,
                   second, backupHistory>>

RecallBackup ==
    /\ cancelling.pc = "recall"
    /\ IF cancelling.command # NoBackup /\ status[cancelling.command] = "pending"
       THEN CancelIfPending(cancelling.command) ELSE UNCHANGED queueVars
    /\ cancelling' = [cancelling EXCEPT !.pc = "write"]
    /\ UNCHANGED <<backupTables, store, orders, viaHub, threads, posts, backupAgent, second,
                   cancels, backupHistory>>

CloseCancelled ==
    /\ cancelling.pc = "write"
    /\ CloseOver(cancelling.run, "cancelled")
    /\ cancelling' = NoCancelling
    /\ UNCHANGED <<queueVars, fileSets, recorded, store, orders, viaHub, threads, posts,
                   backupAgent, second, cancels, unlisted>>

(* The hub stops: what its threads were about to do is not done.           *)
HubStops ==
    /\ \/ \E t \in Thread : ~Stands(t, "idle")
       \/ \E p \in Post : posts[p].pc # "idle"
    /\ threads' = [t \in Thread |-> NoThread]
    /\ posts' = [p \in Post |-> NoPost]
    /\ cancelling' = NoCancelling
    /\ UNCHANGED <<queueVars, backupTables, store, orders, viaHub, backupAgent, second, cancels,
                   backupHistory>>

-------------------------------------------------------------------------------
(* The agent.  Commands run on tasks of their own, side by side.           *)

Does(r, pc) == tasks[r].pc = pc
Done(r) == [NoTask EXCEPT !.pc = "done", !.packs = tasks[r].packs]

Edit ==
    /\ file < MaxVersion
    /\ file' = file + 1
    /\ UNCHANGED <<queueVars, backupTables, store, orders, viaHub, backupHub, tasks, cache, second,
                   cancels, backupHistory>>

(* What is claimed is started; the command names the run.                  *)
TakeBackups(a, m) ==
    /\ Claimable(m) # {}
    /\ Claim(a, m)
    /\ tasks' = [r \in RunId |-> IF \E c \in Claimable(m) : orders[c] = r
                                 THEN [NoTask EXCEPT !.pc = "ready"] ELSE tasks[r]]
    /\ UNCHANGED <<backupTables, store, orders, viaHub, backupHub, cache, file, second, cancels,
                   backupHistory>>

BackupLapses(c) ==
    /\ status[c] = "pending" /\ Lapse(c)
    /\ UNCHANGED backupOwn

(* Walk, select and pack.  An incremental for a chain whose cache is not   *)
(* here becomes a full; a file that the cache has at this version is left  *)
(* out.                                                                    *)
Select(r) ==
    LET full == runs[r].seq = 0 \/ cache.chain # runs[r].chain
    IN  /\ Does(r, "ready")
        /\ tasks' = [tasks EXCEPT ![r].pc = "packed", ![r].seen = file,
               ![r].packs = IF full \/ cache.version # file THEN file ELSE Nothing]
        /\ UNCHANGED <<queueVars, backupTables, store, orders, viaHub, backupHub, cache, file,
                       second, cancels, backupHistory>>

(* Nothing to read, a set too large, a refused or broken upload: FailRun.  *)
ReportAs(r, ok) == tasks' = [tasks EXCEPT ![r].pc = "report", ![r].ok = ok]

BackupFails(r) ==
    /\ tasks[r].pc \in {"packed", "relaying"}
    /\ ReportAs(r, FALSE)
    /\ UNCHANGED <<queueVars, backupTables, store, orders, viaHub, backupHub, cache, file, second,
                   cancels, backupHistory>>

(* A pre-signed PUT asks nobody; agent_upload_backup looks at the run      *)
(* before it streams the archive on.                                       *)
Upload(r) ==
    /\ IF viaHub THEN Does(r, "relaying") ELSE Does(r, "packed")
    /\ Put(KeyOf(r), tasks[r].packs)
    /\ ReportAs(r, TRUE)
    /\ UNCHANGED <<queueVars, backupTables, orders, viaHub, backupHub, cache, file, second, cancels,
                   backupHistory>>

BeginRelay(r) ==
    /\ viaHub /\ Does(r, "packed")
    /\ IF runs[r].status = "running" THEN tasks' = [tasks EXCEPT ![r].pc = "relaying"]
                                     ELSE ReportAs(r, FALSE)
    /\ UNCHANGED <<queueVars, backupTables, store, orders, viaHub, backupHub, cache, file, second,
                   cancels, backupHistory>>

(* The destination refuses the relayed archive: the hub closes the run.    *)
RelayFails(r) ==
    /\ Does(r, "relaying")
    /\ FinishRun(r, "failed")
    /\ ReportAs(r, FALSE)
    /\ UNCHANGED <<queueVars, fileSets, recorded, store, orders, viaHub, backupHub, cache, file,
                   second, cancels, backupHistory>>

(* ReportBackupAsync: a few attempts.  One may be lost, or be given up on  *)
(* while the hub still serves it.                                          *)
Send(r, p) ==
    /\ Does(r, "report") /\ tasks[r].tries < MaxTries
    /\ posts[p].pc = "idle"
    /\ posts' = [posts EXCEPT ![p] = [NoPost EXCEPT !.pc = "get", !.run = r, !.ok = tasks[r].ok]]
    /\ tasks' = [tasks EXCEPT ![r].pc = "waiting", ![r].on = p, ![r].tries = @ + 1]
    /\ UNCHANGED <<queueVars, backupTables, store, orders, viaHub, threads, cancelling, cache, file,
                   second, cancels, backupHistory>>

TimesOut(r) ==
    /\ Does(r, "waiting")
    /\ tasks' = [tasks EXCEPT ![r].pc = "report", ![r].on = NoBackup]
    /\ UNCHANGED <<queueVars, backupTables, store, orders, viaHub, backupHub, cache, file, second,
                   cancels, backupHistory>>

GivesUp(r) ==
    /\ Does(r, "report") /\ tasks[r].tries = MaxTries
    /\ tasks' = [tasks EXCEPT ![r] = Done(r)]
    /\ UNCHANGED <<queueVars, backupTables, store, orders, viaHub, backupHub, cache, file, second,
                   cancels, backupHistory>>

SavesOnAnyAnswer(r) ==
    cache' = [chain |-> runs[r].chain, version |-> file]

(* SaveCache of what this run saw; the other chains' caches are pruned.    *)
SaveCache(r) ==
    cache' = IF tasks[r].ok THEN [chain |-> runs[r].chain, version |-> tasks[r].seen] ELSE cache

(* The hub's 200 reaches the agent, if it still waits for this one.        *)
AnswerReport(p) ==
    LET r == posts[p].run
    IN  /\ posts[p].pc = "answer"
        /\ posts' = [posts EXCEPT ![p] = NoPost]
        /\ IF Does(r, "waiting") /\ tasks[r].on = p
           THEN /\ SaveCache(r) /\ tasks' = [tasks EXCEPT ![r] = Done(r)]
                /\ unlisted' = IF tasks[r].ok /\ runs[r].status # "succeeded"
                               THEN unlisted \cup {runs[r].chain} ELSE unlisted
           ELSE UNCHANGED <<cache, tasks, unlisted>>
        /\ UNCHANGED <<queueVars, backupTables, store, orders, viaHub, threads, cancelling, file,
                       second, cancels, overlapped>>

AgentRestarts ==
    /\ \E r \in RunId : tasks[r].pc \notin {"none", "done"}
    /\ tasks' = [r \in RunId |-> IF Does(r, "none") THEN NoTask ELSE Done(r)]
    /\ UNCHANGED <<queueVars, backupTables, store, orders, viaHub, backupHub, cache, file, second,
                   cancels, backupHistory>>

-------------------------------------------------------------------------------
(* agent_backup_result and ingest_file_result: one report on its thread.   *)

Serves(p, pc) == posts[p].pc = pc
Onward(p, pc) == posts' = [posts EXCEPT ![p].pc = pc]

DiscardsTheClosed(p) ==
    LET r == posts[p].run
    IN  /\ Serves(p, "get")
        /\ Onward(p, IF runs[r].status # "running"
                   THEN IF posts[p].ok THEN "discard" ELSE "answer"
                   ELSE IF ~posts[p].ok THEN "fail"
                   ELSE IF runs[r].seq > 0 THEN "base" ELSE "insert")
        /\ UNCHANGED <<queueVars, backupTables, store, orders, viaHub, threads, cancelling,
                       backupAgent, second, cancels, backupHistory>>

(* get_run, and everything that is decided from it.                        *)
GetRun(p) ==
    LET r == posts[p].run
    IN  /\ Serves(p, "get")
        /\ Onward(p, IF runs[r].status # "running"
                   THEN IF runs[r].status = "cancelled" /\ posts[p].ok THEN "discard" ELSE "answer"
                   ELSE IF ~posts[p].ok THEN "fail"
                   ELSE IF runs[r].seq > 0 THEN "base" ELSE "insert")
        /\ UNCHANGED <<queueVars, backupTables, store, orders, viaHub, threads, cancelling,
                       backupAgent, second, cancels, backupHistory>>

(* _discard_cancelled_object: best effort.                                 *)
Discard(p) ==
    /\ Serves(p, "discard")
    /\ Delete(KeyOf(posts[p].run)) \/ UNCHANGED store
    /\ Onward(p, "answer")
    /\ UNCHANGED <<queueVars, backupTables, orders, viaHub, threads, cancelling, backupAgent,
                   second, cancels, backupHistory>>

CompleteFailed(p) ==
    /\ Serves(p, "fail")
    /\ FinishRun(posts[p].run, "failed")
    /\ Onward(p, "answer")
    /\ UNCHANGED <<queueVars, fileSets, recorded, store, orders, viaHub, threads, cancelling,
                   backupAgent, second, cancels, backupHistory>>

(* record_file_set: an incremental needs its full, asked before the INSERT *)
(* opens a transaction.                                                    *)
CheckBase(p) ==
    /\ Serves(p, "base")
    /\ Onward(p, IF Complete(runs[posts[p].run].chain) THEN "insert" ELSE "fail")
    /\ UNCHANGED <<queueVars, backupTables, store, orders, viaHub, threads, cancelling, backupAgent,
                   second, cancels, backupHistory>>

RecordFileSet(p) ==
    LET r == posts[p].run
    IN  /\ Serves(p, "insert")
        /\ recorded' = recorded + 1
        /\ fileSets' = fileSets \cup {[id |-> recorded + 1, run |-> r, chain |-> runs[r].chain,
                                       seq |-> runs[r].seq, lists |-> tasks[r].packs]}
        /\ Onward(p, "finish")
        /\ overlapped' = (overlapped \/ runs[r].status # "running" \/ \E s \in fileSets : s.run = r)
        /\ UNCHANGED <<queueVars, runs, store, orders, viaHub, threads, cancelling, backupAgent,
                       second, cancels, unlisted>>

CompleteSucceeded(p) ==
    /\ Serves(p, "finish")
    /\ FinishRun(posts[p].run, "succeeded")
    /\ Onward(p, "chains")
    /\ UNCHANGED <<queueVars, fileSets, recorded, store, orders, viaHub, threads, cancelling,
                   backupAgent, second, cancels, backupHistory>>

FullGoesFirst(a, b) ==
    \/ a.order > b.order
    \/ a.order = b.order /\ a.row.seq < b.row.seq
    \/ a.order = b.order /\ a.row.seq = b.row.seq /\ a.row.id > b.row.id

(* machine_chains, read once, and rotate_chains, which takes whole chains, *)
(* the newest first, and of each the newest sequence first.                *)
GoesBefore(a, b) ==
    \/ a.order > b.order
    \/ a.order = b.order /\ a.row.seq > b.row.seq
    \/ a.order = b.order /\ a.row.seq = b.row.seq /\ a.row.id > b.row.id

RotateChains(p) ==
    /\ Serves(p, "chains")
    /\ LET dying == {s \in fileSets : s.chain \in Doomed}
           doomed == {[order |-> LastOf(s.chain), row |-> s] : s \in dying}
       IN  posts' = [posts EXCEPT ![p].doomed = doomed,
                                  ![p].pc = IF doomed = {} THEN "answer" ELSE "delete"]
    /\ UNCHANGED <<queueVars, backupTables, store, orders, viaHub, threads, cancelling, backupAgent,
                   second, cancels, backupHistory>>

IsNext(e, p) == e \in posts[p].doomed /\ \A o \in posts[p].doomed : o = e \/ GoesBefore(e, o)
Rest(p, doomed) == [posts[p] EXCEPT !.doomed = doomed, !.row = NoSet,
                                    !.pc = IF doomed = {} THEN "answer" ELSE "delete"]

DeleteArchive(p) ==
    /\ Serves(p, "delete")
    /\ \E e \in posts[p].doomed :
           /\ IsNext(e, p)
           /\ Delete(KeyOf(e.row.run))
           /\ posts' = [posts EXCEPT ![p].pc = "drop", ![p].row = e.row, ![p].doomed = @ \ {e}]
    /\ UNCHANGED <<queueVars, backupTables, orders, viaHub, threads, cancelling, backupAgent,
                   second, cancels, backupHistory>>

(* The destination refuses: this chain keeps what is left of it.           *)
DeleteFails(p) ==
    /\ Serves(p, "delete")
    /\ \E e \in posts[p].doomed :
           /\ IsNext(e, p)
           /\ posts' = [posts EXCEPT ![p] =
                  Rest(p, {o \in posts[p].doomed : o.row.chain # e.row.chain})]
    /\ UNCHANGED <<queueVars, backupTables, store, orders, viaHub, threads, cancelling, backupAgent,
                   second, cancels, backupHistory>>

DropRows(p) ==
    /\ Serves(p, "drop")
    /\ fileSets' = {s \in fileSets : s.id # posts[p].row.id}
    /\ posts' = [posts EXCEPT ![p] = Rest(p, posts[p].doomed)]
    /\ UNCHANGED <<queueVars, runs, recorded, store, orders, viaHub, threads, cancelling,
                   backupAgent, second, cancels, backupHistory>>

-------------------------------------------------------------------------------
DispatchStep == \E t \in Thread :
    \/ BeginDispatch(t) \/ PlanNextRun(t) \/ StartFileRun(t) \/ QueueBackup(t) \/ AttachCommand(t)
    \/ ExpireRun(t)

CancelRunStep == RecallBackup \/ CloseCancelled

AgentStep ==
    \/ Edit
    \/ \E a \in Agent, m \in Machine : TakeBackups(a, m)
    \/ \E r \in RunId : Select(r) \/ Upload(r) \/ BeginRelay(r) \/ GivesUp(r)
    \/ \E r \in RunId, p \in Post : Send(r, p)

ReportStep == \E p \in Post :
    \/ GetRun(p) \/ Discard(p) \/ CompleteFailed(p) \/ CheckBase(p) \/ RecordFileSet(p)
    \/ CompleteSucceeded(p) \/ RotateChains(p) \/ DeleteArchive(p) \/ DropRows(p) \/ AnswerReport(p)

(* What goes wrong, or comes from outside.                                 *)
BackupFault ==
    \/ HubStops \/ AgentRestarts \/ LookToCancel
    \/ \E t \in Thread : BeginExpiry(t) \/ DispatchFails(t)
    \/ \E c \in Command : BackupLapses(c)
    \/ \E r \in RunId : BackupFails(r) \/ RelayFails(r) \/ TimesOut(r)
    \/ \E p \in Post : DeleteFails(p)

BackupNext == DispatchStep \/ CancelRunStep \/ AgentStep \/ ReportStep \/ BackupFault

BackupSpec == BackupInit /\ [][BackupNext]_backupVars

-------------------------------------------------------------------------------
(* Properties.  They are of a PC whose passes and reports came one after   *)
(* the other; what two at once do to it they do not withstand.             *)

(* A chain is a full and the incrementals that rest on it, without a gap,  *)
(* also when rotation stopped half-way, the destination refused or the hub *)
(* stopped between an archive and its rows: what a chain lists can be      *)
(* restored to some moment (rotate_chains, record_file_set).               *)
ChainsAreWhole ==
    \A c \in Listed : LET seqs == {s.seq : s \in SetsOf(c)} IN seqs = 0..Highest(seqs)

(* Once a PC has been backed up it can be restored: rotation never takes   *)
(* the last chain.                                                         *)
StaysRestorable == recorded > 0 => Listed # {} /\ Complete(Newest)

BackupInv == BackupTypeOK /\ (overlapped \/ (ChainsAreWhole /\ StaysRestorable))

(* What the manifest of the kept chains lists is in the store, with the    *)
(* version it lists (rotate_chains, _discard_cancelled_object).  Runs of   *)
(* one second, chain and sequence share an object.  A run that the hub     *)
(* listed and stopped before it closed may be cancelled after all; its     *)
(* repeated report then discards what is listed.                           *)
SharesItsKey(r) == \E q \in DOMAIN runs : q # r /\ KeyOf(q) = KeyOf(r)

KeptIsStored ==
    overlapped \/ \A s \in fileSets :
        \/ s.chain \in Doomed \/ SharesItsKey(s.run) \/ runs[s.run].status = "cancelled"
        \/ [key |-> KeyOf(s.run), holds |-> s.lists] \in store

(* The newest version of the file that the manifest of a chain has, in the *)
(* order of _LATEST_VERSIONS_SQL.                                          *)
LatestListed(chain) ==
    LET packed == {s \in SetsOf(chain) : s.lists # Nothing}
    IN  {s.lists : s \in {s \in packed : \A o \in packed : o.id <= s.id}}

(* A file that the next incremental would leave out, for the agent's cache *)
(* has it at this version, is what the newest chain lists last: no version *)
(* is skipped that the hub never recorded (SaveCache, ReportBackupAsync,   *)
(* ingest_file_result).  Not so after a cancelled or expired run that the  *)
(* agent finished all the same.                                            *)
LeavesOut(chain) == chain \in Listed /\ cache = [chain |-> chain, version |-> file]

NothingMissed ==
    overlapped \/ \A c \in Listed \ unlisted :
        (c = Newest /\ LeavesOut(c)) => LatestListed(c) = {file}

(* The same two without their provisos; one run at a time                  *)
(* (current_running_file_run: "There is at most one"); one archive listed  *)
(* per run ("a retry of a POST that already landed", ingest_file_result);  *)
(* and a run that is under way has a pass or a command that brings it on   *)
(* ("the next pass tries again", files_dispatch_once).                     *)
KeptIsStoredAlways ==
    \A s \in fileSets : \/ s.chain \in Doomed \/ SharesItsKey(s.run)
                        \/ [key |-> KeyOf(s.run), holds |-> s.lists] \in store
NothingMissedAlways ==
    \A c \in Listed : (c = Newest /\ LeavesOut(c)) => LatestListed(c) = {file}
OneBackup == Cardinality(Running) <= 1
ListedOnce == \A s, o \in fileSets : s.run = o.run => s = o
RunIsOnItsWay ==
    \A r \in Running : runs[r].command # NoBackup \/ \E t \in Thread : threads[t].run = r
=============================================================================
