# Verification of codex-with-chatgpt

TLA+ models, TLC configurations and TLAPS proofs of the machine gateway of
*codex-with-chatgpt*: one local process that lets ChatGPT pages, each owned by one local
Codex session, read registered workspaces through short-lived capabilities, and that
tracks every prompt ("control request") sent to a page until exactly one terminal result
is recorded.

Paths such as `gateway/turn-capability.ts` are relative to the repository's `src/`.

## 1. Inventory

### 1.1 The parts and their state

| Part | Source | State it keeps | Where |
|---|---|---|---|
| Turn capability broker | `gateway/turn-capability.ts` | capability records, activity leases, completion fences, session epochs | memory of the gateway |
| Control request store | `control/requests.ts` | active pointer per session; per request: request, renewal, page observation, terminal marker, late evidence | files of the workspace |
| Page observation lifecycle | `control/wait-policy.ts` | none: a function from (stored observation, new observation) to the next one, and the policy shown to the waiting host | - |
| Surface ownership | `session/surface-ownership.ts` | machine ownership index (authority), per-workspace mirror, session chat route | machine and workspace files |
| Machine gateway | `gateway/machine-gateway.ts` | session mutation locks, completions in submission | memory |
| Workspace registry | `gateway/workspace-registry.ts` | registrations, storage memberships, draining marks | machine file and memory |
| File locks, atomic files | `config/paths.ts`, `config/private-file.ts` | lock files, reaper markers | files |
| Machine lifetime and daemon | `gateway/runtime.ts`, `process/machine-daemon.ts` | ownership record of the one gateway process | machine file |
| MCP tool calls | `mcp/server.ts` | the lease of the running call | memory |
| Execution records | `execution/records.ts`, `execution/output.ts` | append-only log, output index and body files | workspace files |
| Session state | `session/state.ts` | workspace session file; per session: route, task, checkpoint | workspace files |
| Turn preflight, page health | `session/turn-preflight.ts`, `session/page-health.ts` | none: functions of an observation | - |
| HTTP server, client, identity | `gateway/server.ts`, `control-client.ts`, ... | tokens, connector binding | files |
| Runtime installation | `config/runtime-install.ts` | releases, `current` pointer, launcher | files |
| Skill installation | `config/skill-install.ts` | installed Skill | files |
| OS integration | `config/autostart.ts`, `sandbox-allow.ts`, ... | launch agent, editor settings | files |
| Workspace reading | `workspace/*.ts` | none | - |
| Command line, logger, update check | `cli/`, `logger/`, `update/` | none | - |

### 1.2 Operations, interactions, hard behaviours

*Broker.* `issueReplacingSession`, `keepAliveRequest`, `claim`, `renew`, `release`,
`beginCompletion`, `complete`, `abortCompletion`, `cancel`, `revoke*`; every one prunes
first. Concurrent MCP calls hold leases while the control plane replaces, revokes and
completes the turn. Hard: which leases may outlive what; a fence that goes stale; time
passing between two clock readings of one handler; bounded tombstones.

*Control requests.* `openControlRequest`, `observeControlRequest`, `renewControlRequest`,
`cancelControlRequest`, `retireControlRequestSession`, `pruneControlRequests`,
`recordLateControlEvidence`, `waitForControlRequest`. Each is a sequence of atomic file
writes under the locks maintenance -> session -> request. Hard: a crash between two writes
and the recovery at the next call, replays of observations, expiry in the middle of it.

*Page observations.* Ordered events of one prompt on one page: `send_attempted`, `sent`,
`response_created`, `generating`, `result_candidate`, `final`, and failures. Hard:
duplicated and reordered observations, a replaced response, the stability barrier.

*Surface ownership.* `claimSurface`, `commitVerifiedSurfaceRoute`, `renewSurface`,
`recoverSurface`, `releaseSurface`, `listSurfaceLeases`, `currentSurfaceBinding`,
`reconcileSurfaceSessionRoute`, `retireSurfaceSession`, `unregisterSurfaceOwnership`; most
of them reap first. A commit and a retirement write the machine index and then the
checkout's route, a reconciliation the route and then the index. Hard: an interruption
between the two, two sessions that want one page or chat, generations that may never be
reused, callers that hold references and bindings from before a rotation, the limit of 100.

*Machine gateway.* Each HTTP operation takes the session mutation lock and calls the parts
above in a fixed order; `beginCompletion` keeps the lock until `completeTurn` or
`abortTurnCompletion`. Hard: order of revocation and terminal marker, lock leaks.

*Migration of the store.* `ensureControlRequestStoreUnlocked` builds the store from the
mailbox of earlier versions and publishes it by one rename; `clearLegacyControlMailbox`
takes the mailbox away in phases a marker records. Hard: a crash between any two writes, and
an earlier version that still runs and knows none of the locks.

*Registry.* `register`, `unregister` and every lookup of a stale registration reconcile the
memberships with what is on disk: registrations that went stale are removed with their
capabilities, and a Project that lost its last checkout loses its surfaces. Hard: the file,
the memory and the surfaces change one after the other, and each change may be the last.

*File locks.* `withFileLock`, `withFileLockAsync`, the recovery of abandoned locks. Hard:
two reapers and a contender, an owner that dies anywhere.

*Machine lifetime.* A gateway claims the owner record, listens, publishes the runtime
record, and on its end clears the one and releases the other; `machine start`, `stop` and
`setup` read, probe and signal. Hard: records of processes that are gone, pids that now are
others', a gateway too slow for a probe, a setup that fails half way.

*Installation.* Stage, validate, publish, launcher, and two rollbacks. Hard: a failure or a
crash at each step, a launcher the user put there.

*Execution records, session state.* Appends with repair of a torn tail beside readers that
take no lock; two session files that are written one after the other and are mirrors of the
machine's index. Hard: torn writes, a checkpoint that names a route or a request that is
gone.

*Tool calls.* Claim, await, renew by a timer, look again, answer, release. Hard: whatever
the gateway does between the claim and the answer.

### 1.3 How the parts interact

The command line and the Codex skill call the control client, which sends every operation
as an HTTP request to the one gateway process. The gateway's operation takes the session's
mutation lock, checks that the calling session still owns its page (surface ownership),
changes the request store and the broker in a fixed order and answers. ChatGPT reaches the
same process through MCP: a tool call claims the turn's capability, renews the lease while
it works and releases it. Everything that must survive the process is in files below one
state directory, changed under file locks; the capabilities are only in memory, so that a
restart revokes all of them.

### 1.4 What makes each part correct

| Part | Properties |
|---|---|
| Broker | one capability occupies a session at a time; leases stay within capabilities; completion is sealed against new work; fences, epochs and lifetimes are exact; terminal turns drain |
| Page observations | a final was stable; one response; sending proved before a response |
| Request store and gateway | one outcome that never changes; one unfinished prompt per session; a marked result stays deliverable; authority ends with the outcome |
| File lock | serializes; never taken from a live owner; recovered from a dead one |
| Surface ownership | one session per page and chat, a generation given once, a superseded lease never current again, a route follows the index, limit kept |
| Store migration | what is published is whole and agrees with the mailbox; only what was taken is deleted; an interrupted clearing resumes |
| Workspace registry | no capability outlives its registration; surfaces are removed from Projects without a checkout, all of those and no others, across restarts |
| Machine lifetime | one gateway owns the machine; the records name it; a command signals nobody else and leaves a gateway behind when it says so |
| Tool calls | an answer belongs to a turn that was live on its page; one live turn per session; a completion gives the session back |
| Execution records | no record that was acknowledged is lost or altered by a torn write; an output that is cited can be read or is known to be gone |
| Session state | a reader finds task and checkpoint in agreement after any crash; route changes leave the task alone |
| Runtime installation | `current` names a complete release at every moment, a failed installation restores the previous one, a foreign launcher is left alone |

## 2. Plan

Modules in the order in which they are written, the most important behaviour first:

1. `TurnCapability` (with `TurnCapabilityProofs`): done.
2. `PageObservations`, `PageLifecycle` (with `PageLifecycleProofs`): done.
3. `ControlOutcome` (what a request promises its host) and `ControlRequests`, which
   implements it and composes the lifecycle with the gateway's handlers (proved in
   `ControlStoreProofs`): done.
4. `FileLock` (with `CheckoutProofs`): done.
5. `SurfaceOwnership` (with `SurfaceOwnershipProofs`): done.
6. `WorkspaceRegistry` (with `WorkspaceRegistryProofs`): done.
7. `MachineLifetime` (with `MachineLifetimeProofs`): done.
8. `RuntimeInstall` (proved in `MachineLifetimeProofs`, which the two share): done.
9. `ToolCalls` (with `ToolCallsProofs`), the gateway's operations as a running tool call
   meets them: done.
10. `ExecutionRecords`, `SessionState` (proved in `CheckoutProofs`), `ControlStoreMigration`
    (proved in `ControlStoreProofs`): done.

Modules whose states share nothing are checked side by side in one run: `MCMachine`,
`MCCheckout` and `MCControlStore` have a variable `part` that is chosen at the start and
says which of them moves. A behaviour is one of that module alone, and no product of their
states arises. The properties of a module that is checked there are gathered in one
invariant and one action property, named after it, whose conjuncts have names and comments
of their own.

What is proved of each module is in section 6. Left of the plan is one abstract specification
more: a lease service that gives each owner increasing generations, implemented by
`SurfaceOwnership`.

## 3. The modules

### 3.1 `TurnCapability`: the broker (`gateway/turn-capability.ts`)

The broker is one value, `broker`, a record of its four maps: `records` (capabilities by
token), `leases` (with their holder), `fenceOwner` (`completionFences`), `epochs`
(`sessionEpochs`). The private helpers `prune`, `terminate`, `trimTombstones`,
`clearExpiredLeases`, `assertFreshSessionEpoch` are operators from brokers to brokers;
each public method is an action of the same name that composes them in the order of the
source. Node runs a handler without interruption, so a handler is one action. Some
handlers read the clock more than once; the parameter `late` is the later reading.
`Restart` empties the broker. Tokens, leases and fences are numbered in the order they are
drawn, because random secrets do not repeat.

Left out: the hashes kept of expired leases and used fences, which only choose between two
error codes; the surface and workspace fields of a binding other than the ones the broker
compares.

`Spec` has the operations the gateway calls, `OpenSpec` also `issue`, which is exported and
called by tests only, and does not replace: the properties that need replacement
(`OneHolderPerSession`, `LiveCarriesSessionEpoch`) are checked under `Spec`. `FairSpec` is
`OpenSpec` with fairness.

### 3.2 `PageObservations` and `PageLifecycle` (`control/wait-policy.ts`)

`PageObservations` translates the pure part: which observation may follow the stored state
(`Follows`: freshness, sequence, transitions, response identity, stability barrier), what is
stored then (`Advance`), what counts as a replay. `PageLifecycle` lets a host observe
anything in any order and keeps a history `log` of what was accepted. The URL and the
response identity of an observation are one value, a result's text is a member of
`Results`. `seq` gaps are allowed in the module; `MCPageLifecycle` lets the host skip none,
since the code only compares `seq`.

### 3.3 `ControlRequests` and `ControlOutcome` (`control/requests.ts`, `gateway/machine-gateway.ts`)

`store` holds the files of one workspace: the active pointer of each session and, for each
request, request, renewal, observation, terminal marker, late evidence; and `live`, the
request's capability in the memory of the gateway. A handler reads and decides in one
action and leaves the sequence of its atomic file operations in `todo`; `Step` makes the
next one, `Fail` lets it fail (the handler's `catch` runs), `Crash` kills the process with
what was written. Actions: `Open`, `Reopen` (an existing pending request is returned),
`IssueTurn`, the branches of `observeControlPage` (`ObservePending`, `Generate`,
`ObserveWithoutAuthority`, `ObserveAfterFailure`, `ObserveEnded`), `Cancel`, `Retire`,
`Prune`, `LoseAuthority` (the broker expires the capability), `Tick`.

`ControlOutcome` is what the waiting host relies on: `absent`, `pending`, then at most one
outcome which never changes until it is forgotten. The refinement maps the snapshot and
wait policy (`Shown`) and the marker on disk (`Committed`).

Abstractions: a handler reads the clock once; page identity is dropped (an observation that
names another page is refused before it is looked at); correlation stands for task,
iteration and phase; the locks are not modelled here, because one process runs the handlers
(see 3.4 for the lock). The files of earlier versions are the subject of 3.12. A crash between
the active pointer and the request file leaves a session claimed by a request that status
and observation do not find, until it is opened again, expires, or the session is retired;
that is modelled, and no property forbids it.

### 3.4 `FileLock` (`config/paths.ts`)

A file is an inode with an owner (the pid written in it) and whether it is older than
`staleMs`; `lock` is the one that has the lock's name, `markers` the reaper markers. Every
process walks through `withFileLock` one file operation at a time: list and look at the
markers, create, write the pid, list again, compare (`Enter`), the action, `releaseOwnedLock`
as compare (`Leave`) and unlink by name (`Unlink`); or, when the lock exists,
`removeAbandonedLock`: create and write a marker, `Judge`, `Compare`, `ReapUnlink`, `Done`.
`Crash` closes a process's descriptors and leaves its files. A retry and a time out are the
same to the state: the process is out and may start again. `Prompt` restricts `Age`: no
process stalls for `staleMs` between creating a file and writing its pid. A dead process's
pid is not given to another.

### 3.5 `SurfaceOwnership` (`session/surface-ownership.ts`)

`machine` is the machine's index: leases, bindings, the Project URL of each project, the
next generation, the generation of each session, the projects known and those unregistered.
`route` is the route of each session in each checkout (`session/state.ts`). A handler runs
under the machine's lock and its project's, so it is one action, except that the second of
its two files is still to be written: it waits in `todo`, nobody else enters (`NoOneHolds`),
and `FinishIndex` or `FinishRoute` writes it or `Interrupted` does not (the write fails, or
the process dies and its locks are recovered).

The operators `Reaped`, `Synced`, `Published`, `Pruned` are the source's functions from
indexes to indexes, `Consistent` is `assertMachineOwnershipConsistency`, which every handler
evaluates on the index it read and on the one it writes (`Save`, `SaveThenRoute`). A handler
that throws before its first write leaves everything as it was and is no step. `claimSurface`
has two actions, for a caller that asks again for its page (`ClaimAgain`) and for a new
generation (`ClaimNew`, with the reference it replaces or none); `recoverSurface` is
`Recover`, with a binding its caller read at some earlier time. `granted` and `bound` are
histories: the references callers were given, from which every later argument is taken,
however old, and the bindings they may have read.

Abstractions: `expired` says that a lease's time has passed, which may happen at any moment,
instead of a clock; a page is its tab, since browser and surface are fixed; the mirror of
the index in the workspace is left out, because it is only written
(`syncProjectIntoMachineState` replaces what was read from it by the index); so are the
evidence for a first Project selection and the indexes of earlier versions.

### 3.6 `WorkspaceRegistry` (`gateway/workspace-registry.ts`)

`disk` is what the user has at each root (a directory's fingerprint and the Git project it
belongs to, or nothing) and changes at any time (`Change`). `stored` is the membership file
with the Projects whose cleanup is pending, `gateway` the same in memory, `entries` the
registrations, `live` those with a live capability, `surfaces` the Projects the ownership
index knows. `Register`, `LookupStale` and `Unregister` are the operations up to their first
commit; each is one `Reconcile`: find what went stale, promote what became a Git checkout,
refuse a collision, commit file and memory, revoke. Then `Clean` removes one emptied
Project's surfaces at a time, `Finish` makes the second commit and the registration, `Fail`
is a throw in between. `Start`, `BootClean`, `Booted`, `BootDies` are the constructor with
its replay; `Die` is the end of the process. `unread` is the set of roots that cannot be
read at the moment: they are neither served nor removed.

Abstractions: revocation and memory change in the step of the commit (the code has no await
between them); names, display data and repository keys are one value, `project`.
`Rivals = FALSE` says that no process constructs a registry while a gateway is up. The code
does not enforce it (a manual `serve-http` may), and with `Rivals = TRUE`
`RemovedOnlyWhenEmpty` fails; it is among the hazards without a property.

### 3.7 `MachineLifetime` (`gateway/runtime.ts`, `process/machine-daemon.ts`, `gateway/server.ts`, `cli/index.ts`)

`phase` takes each gateway process from `new` through `owned`, `listening`, `up` to
`closing`, `clearing`, `releasing`, `gone`; `owner` and `runtime` are the two records,
`bytes` the version it runs, `aliens` the processes that are gone and whose pid somebody
else got. `cmd` is the running command: what it read, whom it saw, its child, whether a
setup has to undo. A probe is answered by a gateway that listens, or is not (`too slow`). A
signal goes to the pid that was read. The operations are the code's `start`, `stop` and
`setup`, each in the steps between which another process can act. A pid is anybody's once
its process is gone (`Recycle`), also that of a child a command still waits for: Node
collects the exit of a child at once, and a gateway that loses the machine exits at once.
What fails beside the probes: the publication of the runtime record, whose gateway closes
(`PublishFails`); the start of a child (`SpawnFails`: the error event that Node emits
besides has no listener, and may end the command); and a command may die anywhere
(`CommandDies`), whose lock is recovered.

Assumed: commands act under the machine operation lock (3.4), so that one acts at a time; no
pid changes hands between the answer that proves whose it is and the signal to it
(`Terminate`, machine-daemon.ts 222-228). `installs` counts versions built.

A start that gives up sends SIGTERM to the pid of its child without a look at whether the
child is still there (machine-daemon.ts 190-195), up to 30 s after it may have exited, and
may so signal an unrelated process. What the repository says of recycled pids it says of the
stop (219-221). `AliensSpared` therefore names this one step, and says that there is no
other.

### 3.8 `RuntimeInstall` (`config/runtime-install.ts`)

`tree` says of each release directory whether it is absent, partial or whole; `link` is
`current`, `launcher` the file in the user's home, `setup` the running installation with its
snapshot. Actions: `BeginSetup` (the snapshot), `Keep` (a process that runs from the current
release), `Stage`, `Deploy`, `Validate`, `StageFails`, the rename `PublishStage`, `Launch` or
`LaunchFails` with `UndoCurrent` and `UndoLauncher` (the rollback inside the installation),
`EndSetup` or `RestoreInstallation` (the one around the setup), `KillSetup`, `InstallBeside`
(`c2c skill install` installs a release too, under the lock of the installation but not that
of the setup, so that it falls before the setup's own installation or after it), and
`UserLauncher`: the user puts something in the launcher's place, at any time. There are
two snapshots: `link` and `launcher`, taken when the setup begins, and `former` and `latest`,
taken by the installation itself. A pointer is set back to any release that is there
(`CurrentRestored`); that it is also complete is what `RollbackStands` says. A launcher
that the user writes while a release is built is taken for the earlier one by the rollback
around the setup; `ForeignKept` claims nothing of it.

### 3.9 `ToolCalls` (`gateway/machine-gateway.ts`, `mcp/server.ts`)

One session in one checkout. `page` has the latest, the leased and the committed generation;
`requests` and `turns` are in the order they were made; `held` and `calls` are the leases
and the tool calls; `locked` is `controlSubmissionSessions`, `fences` is
`controlCompletionFences`; `registered` the checkout. A call is claimed, awaits, may renew
by its timer (`RenewTurn`), and ends (`EndCall`: the last look at turn and page, the answer
and the release, which the code does without an await between them); between any two of
these come the gateway's operations on pages (`SurfaceClaim`, `SurfaceCommit`,
`SurfaceRelease`, `SurfaceRetire`, `RecoverPage`), requests (`OpenControlRequest`,
`ObserveControlPage`, `CancelControlRequest`), turns (`IssueReplacingTurn`, `TurnEnds`,
`BeginCompletion`, `CompleteTurn`, `AbortTurnCompletion`) and the registration, a restart of
the gateway, and time (`PageRunsOut`, `RequestRunsOut`, `LeaseRunsOut`). Only phases BOOT
and PLAN are told apart, because only BOOT changes a page; a turn that was revoked,
cancelled or expired is `ended`, which no handler tells apart here. The broker and the index
are those of 3.1 and 3.5, as far as the gateway sees them.

### 3.10 `ExecutionRecords` (`execution/records.ts`, `execution/output.ts`)

`log` is a sequence of bytes: two for a record, and a newline. A recorder takes the lock,
saves the output if there is one (body file, index, removal of bodies that fell out),
repairs the tail, appends byte by byte, and may die, or see a write fail, after every byte
and between every two files. The repair of a last record that only lacks its newline is two
operations of the file system: when the newline cannot be written (`NewlineFails`: no space,
an error of the disk), the `catch` that is meant for a torn tail cuts the record off
(`TruncateRecord`), although a reader may have returned it before; when that fails too, the
process ends (`KillRecorder`). Records in `Wide` have a character of two bytes, which is
where finding 5.4 lies: the passing run has none. Readers are operators on the log, since
they take no lock: what holds of every state holds of every read. An output without text
cites a body that is never written; when its id is the one of a body that a crash left
behind, it reads that body. No property speaks of such an id.

### 3.11 `SessionState` (`session/state.ts`)

`shared` and `thread` are the two kinds of file, `machine` and `binding` what the ownership
index says, `writer` the operation that holds the session lock and the file it has still to
write. Actions: `Update` (updateSession), `ReconcileRoute` (reconcileSessionRoute and
clearSessionRoute, by what the index says; nothing is written when the files say it already,
`MatchesAuthority`), `ClearChat` (clearChatPointer), `RetireSession`; `WriteThread` is the
second write and `Return` the end, `Killed` a death in between. `Bind`, `Unbind`,
`UnregisterProject` change the index, `DropShared` is the second write when the session's
file was removed. `Readable` is what `readSessionUnlocked` accepts. Chats and tabs of one
lease generation are one value, `route`.

### 3.12 `ControlStoreMigration` (`control/requests.ts`, `gateway/machine-gateway.ts`)

`mailbox` is the old store, `stage` the new one while it is built, `marker`, `entries`,
`source` what is published: the marker, the requests and the copies of what was taken. Each
request in the mailbox is of one of a few kinds (bound to no page, waiting, with a result,
unreadable, ...). Actions: `Survey`, `ScanLegacyStore`, `StageFiles`, `PublishStore`; for
the clearing `CheckCleanup`, `AuthorizeCleanup`, `RenameRoot`, `ConfirmRetired`,
`DeleteRetired`, `FinishRetirement`, with `ResumeRetirement` after a death; `WorkCrashes`
between any two; `EarlierVersionWrites`; the store's own requests move on, expire and are
pruned, and the sessions' checkpoints follow. `refused` remembers an integrity error.
Requests are taken when their kind has evidence of a page; the others go with the mailbox. A
clearing is refused while a request is live, when the mailbox is not the one that was read,
and when what would be taken of it now has not the digests of what was. An earlier version
that writes twice may undo its first write after the scan and before the mailbox is compared
with it; what is published then is not what its manifest says. The clearing finds that out
and is refused, so the mailbox stays: `PublishedIsWhole` allows it before a clearing is
authorized, and not after. The parsing of marker and files is abstracted to the kind
`broken`.

## 4. The runs

| Run | Question | Bounds |
|---|---|---|
| `broker_session` | does one session's work ever belong to two turns or to an old epoch, is a completion sealed | 2 registrations, 3 turns, 3 epochs, 2 leases, 1 fence, clock 0..2 |
| `broker_interface` | types, leases, fences and lifetimes under the whole interface; do terminal turns drain | 2 turns, 2 lease lifetimes, 2 leases, 2 fences, clock 0..3, fair |
| `page_lifecycle` | what do the two stored observations guarantee about the whole history | 6 observations, 2 responses, 2 payloads |
| `control_store` | does a marked result stay deliverable, does authority end with the outcome, has a session one unfinished prompt, is there one outcome that never changes; and is a migration whole, and a clearing safe | requests: 2 sessions, 2 requests, 4 observations, clock 0..2; migration: 2 requests of 3 kinds, 2 writes of the earlier version (one and its undoing) |
| `requests_evidence` | can late evidence count as a delivered result | violated: finding 5.1 |
| `lock_serialize` | serialization of three after an abandoned lock | violated: finding 5.2 |
| `surface_machine` | has a page or a chat two owners, does a superseded lease come back, is a generation given twice, is the limit exceeded, does a route become what the index does not say | 3 sessions, limit 2, 3 pages, 2 chats, 3 generations; or 2 projects, 3 checkouts, 2 generations; or 2 checkouts, 2 caller epochs, 2 generations |
| `surface_release` | can a candidate be released | violated: finding 5.3 |
| `machine` | is a lock ever taken from a live holder by a reaper; registry, lifetime, installation and tool calls, whatever dies or fails | lock: 3 processes, all may die; 2 roots, 2 directories, 1 Git project, 2 registrations; 3 gateways, 1 command, 1 build; 3 releases; 2 calls, 2 turns, 2 pages, 2 requests |
| `checkout` | is a holder named by its lock, is an abandoned lock recovered; are records kept, do session files agree | 2 processes of which one may die; 2 recorders, 3 records, 1 output kept; 2 sessions, 2 Projects, 2 turns, 1 generation |
| `records_tail` | can the log always be read | violated: finding 5.4 |
| `setup_served` | does a setup end with the bytes it built | violated: finding 5.5 |

Why the bounds suffice. *Broker*: a conflict needs the old turn, the new one and one that
replaces both; two leases let one drain while the other does not; the clock passes the short
and the long lifetime and the skew; the tombstone limits 0 and 1 make eviction happen at
once and once. *Page*: six observations reach a final in the shortest way (attempt, sent,
created, candidate, candidate, final) with one of another kind to spare; two responses and
payloads suffice to contradict each other. *Requests*: the shortest delivery needs five
events of which the host may skip the ones the code does not require, which is four; time
passes the barrier, the lifetime and retention. *Lock*: three processes are one that left
the lock and died, or two that recover it and one that comes in between; inodes are enough
for every file that can exist at once. `MCFileLock` starts with inode 1 when a lock was left
behind, and gives a new file the least free inode: inodes are only compared for equality.
*Surfaces*: a superseded lease needs the generation of the binding, the one that replaces it
and, for reuse, one more after both are gone, which is three (`MaxGeneration` is the first
that is not given); across projects two suffice, the one before an unregistration and the
one after it. One page to lose and one to win; as many sessions as the limit and one more.
Sessions, pages and chats are only compared for equality, and are permuted where no home or
checkout tells them apart. *Registry*: a moved directory needs two roots and two
directories, a promotion a path project and a Git project that has two checkouts; ids are
drawn once for the old and once for the new registration. *Lifetime*: the gateway that was,
the one a command starts beside or instead of it, and the one a rollback starts; commands
exclude each other, so that one, which runs again and again, shows what two would.
*Installation*: the release that was, the one that fails and the one after it. *Tool calls*:
a call of the old turn and one of the new; the page that is left and its replacement.
*Records*: a record that is whole, one that is torn, and the one written behind it; one
output is kept, so that the second removes the first; a newline that fails needs a record
before it and a process that dies at its last byte. *Session*: the other session shows what
is shared; a route of a Project that was replaced by a second one. *Migration*: one request
that is taken beside one that is not; one write at any point is enough to make any
comparison fail, and a second to undo it.

`CHECK_DEADLOCK FALSE` is set where the model stops at its bounds (clock, sequence numbers)
or all processes may be dead.

### Fairness

`broker_interface`: the clock advances (`WF(Tick)`) and the gateway keeps calling the broker
(`WF(Observe)`); every call prunes, and machine status and MCP traffic call it all the time.
`checkout`: a process goes on until it dies (`WF` for each process), that is, it keeps
asking for the lock (callers that time out after 5 s are retried by their users; a single
call gives up before `staleMs`, 30 s, and does not recover a young lock), and time passes
again and again (`SF(Age)`: the other steps may disable it for a moment).

### What the gathered properties say

| Property | Conjuncts |
|---|---|
| `SessionSteps` (broker) | `CompletionSealed`: a completing turn gets no new lease; `EpochForward`: a session's epoch never goes back |
| `TerminalTurnsEnd` | `DrainOnly`: a terminal turn only loses leases; `TerminalTurnsDrain`: it comes to have none |
| `RegistryInv` | `StoredLoadable`: the next process accepts the file; `AuthorityIsRegistered`: capabilities are of registrations, registrations of members; `EmptiedIsPending`: surfaces of a Project without a checkout are on their way out |
| `LifetimeInv` | `OneOwner`: one process owns the machine |
| `LifetimeSteps` | `UpStaysFound`: no gateway takes the record of one that is up away, and a command only after it looked twice at a dead one's; `AliensSpared`: no command signals a process that got a gateway's pid, but for a start that gives up on its own child |
| `InstallInv` | `CurrentIsWhole`: `current` names a complete release; `RollbackStands`: so does what a running setup would go back to |
| `CallsInv` | `LeasesAreOfCalls`: a lease is of a call that awaits; `OneTurnInFlight`: all leases are of one turn; `LockHasFence`: a locked session has one fence to unlock it |
| `CallSteps` | `ResultIsCurrent`: an answer is for the newest turn, its page and an open request; `CompletingKeepsPage`: a completing turn keeps its page |
| `RecordsInv` | `LogReadable`: no reader refuses the log; `IndexedIsReadable`: an output in the index reads as it was saved |
| `SessionInv` | `SessionReadable`: no session becomes unreadable; `RequestIsOfTurn`: a checkpoint names a request of its turn; `ReconciledIsAuthority`: a reconciled session says what the machine says |
| `MigrationInv` | `PublishedIsWhole`: a published store has all that was taken; `RetiredIsFinished`: nothing that was taken waits when the mailbox goes; `RefusedForCause`: a clearing is refused only for a mailbox that changed or a lost request; `KeptReferenceWasTaken`: a checkpoint's reference that was kept is of a request that was taken |

Each of them has the types of its module as its first conjunct where it is an invariant.

## 5. Findings

### 5.1 Late evidence may become a delivered result

`docs/protocol.md` says late evidence can never count as a delivered result. For a request
that is still pending, `observeControlPage` writes the evidence and ends the request in two
writes. After a failure between them the request is pending, gets a capability again, and a
final is delivered although evidence is on disk (`requests_evidence`).

### 5.2 Three processes can break the file lock after recovery

`releaseOwnedLock` compares inodes and then unlinks by name. While a contender gives its
candidate up (it saw a reaper's marker), the reaper, which compared the old inode before,
unlinks the candidate by name; a third process creates the lock and enters; the contender
then unlinks that lock, and one more process enters (`lock_serialize`). With two processes
(`checkout`, where a holder is always named by the lock) or without an abandoned lock
(proved) it cannot happen.

### 5.3 A candidate page that replaces a committed one cannot be released

`docs/protocol.md:525-526` tells the owner of a candidate to release it when its
verification failed. If the session has a committed binding of generation 1 and the
candidate has generation 2, `releaseSurface` removes the lease and keeps the binding;
`pruneMachineGenerations` keeps the session's generation, 2, because the session still has
an entry, and `assertOwnershipRelations` (lines 721-730) demands the generation of the
binding. The write is refused, each time (`surface_release`). When the candidate expires
instead, every operation that reaps meets the same check, for every project of the machine,
until the session is retired or its project unregistered. Setting the generation back to
the binding's would not be a repair: the mutant `PrunedToEntries` does so, and
`NewestGeneration` then fails, since a binding read earlier can be recovered into a lease
older than one already given.

### 5.4 A repaired log may be unreadable

`repairInterruptedTail` finds the last newline in the decoded text and gives its place to
`truncateSync`, which counts bytes. With a character of more than one byte before it, the
file is cut inside its last whole record; the next record is written behind the stump and
every later read throws (`records_tail`). The repository's test
(`tests/execution-records.test.ts:155`) uses one-byte characters only.

### 5.5 A setup may end well with the old bytes still served

`cli/index.ts:639` says that a rebuilt runtime must not keep serving from the previous
bytes. The gateway is stopped only when the observation at the start found it healthy; one
that was too slow then, and again when the setup looked for a gateway, gets a second one
beside it, which cannot claim the machine and ends. When the old one answers a later poll
the setup ends well (`setup_served`).

## 6. The proofs

`TurnCapabilityProofs`. `IInv` is the conjunction of the types, the checked invariants and
what they need to be inductive: unused tokens, leases and fences are untouched (`Unused`),
an absent record holds nothing, a completing record has a fence (`Good`), and a live
capability reaches no further than its own lifetime from now (`Lifetimes`). The lemmas are
about the helpers (`terminate`, `prune`, `clearExpiredLeases`, `trimTombstones` preserve
`Good` brokers); each handler composes them. The proof is for every value of the constants,
under `BrokerAssumption`. `Invariant`, `TypeCorrect`, `OneHolderTheorem`, `LeaseTheorem`,
`FenceTheorem`, `EpochTheorem`, `LifetimeTheorem`. The action properties need
a second relation between a broker and what a helper makes of it: `Sealed` says that no turn
gets a lease, none becomes completed, the epochs stay, and that what is left of a turn that is
not live only goes (`Drains`). Every helper seals, sealing composes, and the handlers that do
not seal (issuing, claiming, completing, `revokeSession`, a restart) are shown one by one.
`SessionStepsTheorem` (`SessionSteps`) and `DrainTheorem` (`DrainOnly`) follow for the broker
as the gateway drives it (`Spec`).

`PageLifecycleProofs`. The stored state has two observations, the properties speak of all:
`CandidateStands`, `DefinitiveResponse`, `DefinitiveSending` say what the definitive
observation remembers of the log, and are inductive together with the properties.
`Invariant`, `TypeCorrect`, `StabilityTheorem`, `ResponseTheorem`, `SendingTheorem`, under
`ObservationAssumption`.

`CheckoutProofs`. `Typed` holds with crashes and recovery; it needs `Held` (a process that
writes a pid has created the file). `Serialized` assumes that no process dies and no lock
was left behind: then the lock file is the one its single owner has open (`Linked`,
`Single`, `Held`), is named as soon as it can look old (`Signed`, `Named`), hence never
judged abandoned, and nobody is about to take it away (`Lively`). With deaths the statement
is false (5.2). What remains true whoever dies is `SparedTheorem` (`ReaperSparesHolder`),
under `LockAssumption` alone: a reaper that is about to unlink by name does not unlink the
lock of a process in its action. `ReaperIInv` follows the argument of the comment at
`paths.ts:253`. A file that a process has open is nobody else's (`Owners`), and as long as
it is the lock it is young or names its owner (`Signs`), so that no reaper has found it
abandoned (`Unseen`). A reaper has a marker of its own (`Distinct`), which is not taken for
abandoned while it lives (`Marked`); and a candidate created while a reaper is about to
unlink has that marker still to look at, or has found it (`Spared`), so that it does not
enter.

The session files, in the same module: one process at a time is between two writes
(`Writers`), and `SessionIInv` says of what it has still to write that it can be read and has
the progress of the file it replaces (`WritesThread`, `WritesShared`), which is why a death
between them leaves nothing that a reader refuses. The machine's binding of a session is to
the checkout's own Project (`Bound`). `SessionTheorem` and `ProgressTheorem`, under
`SessionAssumption`.

The execution records: that the log can be read is not inductive. `InOrder` says that each
byte follows the one before, `LogLocked` that one process at a time is at the log and that
what the holder of the lock has still to write continues the log; a torn tail is then the
beginning of a line, and what the repair leaves ends with a newline. An output is saved
under the next id, which needs the ids to suffice (`IdsSuffice`: each record begun takes
one, counted by the cardinality of those under way), one process at a time
(`OutputsLocked`), and ids that are given in order (`IdsInOrder`). A cut leaves whole lines
too (`CutIsWhole`), and loses at most the record behind the last newline; only who holds the
lock cuts, so that `GrowthTheorem` (`RecordsOnlyGrow`) excepts no other. `RecordsTheorem`
and `GrowthTheorem`, under `RecordsAssumption` and `Wide = {}`: any number of recorders and
records.

`SurfaceOwnershipProofs`. `IInv` joins the types with what the index and the histories have
to do with each other (`Accurate`): a lease carries the generation the index records for its
session, leases and bindings are among those given, and no reference given to a session that
still has an entry is newer than the recorded generation or has reached the next one. The
same is said of an index that waits to be written. It is needed because a generation is
unique only as long as the allocator is ahead of everything that was ever given, and a lease
is the newest only because the recorded generation bounds all earlier ones. The lemmas are
about `Pruned`, `Reaped`, `Synced`, `Published`: they only remove entries (`Remains`).
`OneOwner` is proved from the check of what is written, for the pending index as well
(`Owned`). `Typed`, `GenerationsAreUnique`, `GenerationsAreNewest`, `OwnersAreUnique` and
the two below, from `SurfaceAssumption` alone: any limit, any number of projects, sessions,
pages and checkouts. `CapacityIsKept` (`WithinCapacity`) says the limit also of the index
that waits to be written (`Capacity`): a claim adds a lease only to a slot that is free or
to its own place. `RoutesAreOfTheIndex` (`RouteFollowsIndex`) says that a route that waits
to be written is of a binding the index already has (`PendingFollows`), which holds because
nobody changes the index in between.

`ControlStoreProofs`. A handler of the request store is the sequence of the changes it has
still to make, and a crash or a failed file operation drops the rest of it (not a
revocation, which is made in the gateway's own memory). `IInv` therefore has two halves.
`Files` and `RevokeDue` say what holds of the files now: a pending request is the one the
active file names (`PendingNamed`), a marker that is ahead of its observation still has its
candidate (`ResultMarked`), an ended request has no capability unless a revocation is
among the changes to come. `Ready` says of each change still to come when it may be made,
by kind, from the store as it is now, the changes before it, and those of its whole handler.
Both halves are needed: the order of two writes is what keeps the store readable after a
crash between them, and the order is known only from the sequence. `StepGood` proves once
per kind of change that making it, and dropping it, preserve `Good`; one lemma per handler
shows that what it decides is `Ready`. `StoreInvariant` follows, and from it `TypeCorrect`,
`OnlyOneUnfinished`, `ResultsRecoverable`, `AuthorityEnds`, and `OutcomeTheorem`: every
change is a step of `ControlOutcome` or a stutter, `Tells` and `Commits` being its variables.
All are for every value of the constants under `ObservationAssumption` and
`RequestAssumption`. The only induction over data is in `ForEachUpTo`, what a pruning
handler puts together request by request; it is by the well-founded order on finite sets
(`SetInduction`), without an operator as parameter.

For `ControlStoreMigration`, which shares the module, `MigrationIInv` has a part for each of
what the invariant rests on: what a scan in hand says of the mailbox (`Scanned`), what a
published store holds (`Held`, with `Finished` and `Whole` as they are while the mailbox
exists), how far a clearing has come (`Retiring`), what is still true while no earlier version
has written (`Undisturbed`), and that a refusal has its cause (`Caused`). One lemma per action
keeps it. `MigrationTheorem` (`MigrationInv`) and `DeletionTheorem` (`DeletedIsTaken`) are for
any set of requests and any number of writes, under `MigrationAssumption`. The attempt
corrected the model twice: a second scan compares the digests of what is taken and not only
which requests are, and `PublishedIsWhole` as first stated fails when two writes of an earlier
version undo each other around the scan, which a bound of one write had hidden; the run now
has two.

`MachineLifetimeProofs`. That two gateways do not own the machine is not inductive: what
keeps the second out is the record. `Named` says that whoever holds the machine is named by
it; `Command` keeps the type of what a command remembers. `LifetimeTheorem`, under
`LifetimeAssumption`: any number of gateways, commands and builds. `LifetimeStepsTheorem`
(`LifetimeSteps`) adds `StepInv`: a pid that another process has taken is of a gateway that
is gone (`AliensAreGone`), what a command has
seen did start (`SeenHasStarted`), and between the check and the removal of a record its
gateway stays gone (`ClearedIsGone`), because a gateway never starts twice.

For `RuntimeInstall`, which shares the module, `InstallIInv` adds to the two parts of
`InstallInv` the shape of the state (`Shaped`), that a setup's stage is named neither by
`current` nor by the snapshot until it is published (`Apart`), and that it is complete
before it is published and removed only once `current` is what it was (`Advanced`).
`InstallTheorem`, under `InstallAssumption`: any number of releases. `ForeignTheorem`
(`ForeignKept`) needs of `InstallIInv` what a snapshot holds, and that `Manageable` is asked
before a launcher is written.

`ToolCallsProofs`. That all leases are of one turn needs two facts more: a session has one
live turn (`OneLiveTurn`), and while it has one no lease is of another
(`HeldIsOfLiveTurn`); and for an issued turn's page, that a pending request is of the newest
one. `CallsTheorem`, under `ToolCallsAssumption`: any number of calls, turns, pages and
requests. `CallStepsTheorem` (`CallSteps`) adds `StepInv`: turns and requests are given in
order and only the newest turn lives (`TurnsInOrder`, `RequestsInOrder`), its outcome is open
(`LiveIsOpen`), whoever completes it has its fence (`CompletingHasFence`), and a call that
awaits has no answer yet (`AwaitsUnanswered`).

`WorkspaceRegistryProofs`. There are three copies of the memberships: the file, the
gateway's memory and what a constructor has read. `Agreed` relates them, `Draining` says
what an operation or a constructor under way still has to clean, from which
`EmptiedIsPending` is inductive. `RegistryTheorem`, under `RegistryAssumption` and `Rivals =
FALSE`: any number of roots, Projects and registrations. `RemovalTheorem`
(`RemovedOnlyWhenEmpty`), under the same, rests on `AuthorityIsRegistered` (who is
registered is a member) and on `Agreed` (nobody is registered while a constructor cleans).
`RegistrySpec` with `Rivals = TRUE` is the open hazard of 3.6.

Only model-checked: liveness (`TerminalTurnsDrain`, `AbandonedIsRecovered`), which is out of
the prover's reach (the safety half of `TerminalTurnsEnd`, `DrainOnly`, is proved for the
broker as the gateway drives it, with plain `issue` it is only checked); `LockNamesHolder`
for two processes of which one may die (for more it is false, 5.2). `RecordsInv` and
`RecordsOnlyGrow` are proved for `Wide = {}` only: otherwise they are false (5.4).

Two losses are no finding, since no line of the repository claims otherwise, and the
properties name them: `RecordsOnlyGrow` except for the last record without a newline when
its newline fails (records.ts 125-130, 3.10), and `AliensSpared` except for a start that
gives up on its child (machine-daemon.ts 190-195, 3.7).

## 7. Not modelled

*Without state of their own*: result schemas and tool schemas (valid or not), turn preflight
and page health (functions of an observation whose verdicts reach the models as events),
workspace reading, the MCP transport (one per call), HTTP routing and authentication (each
request calls one gateway operation), option parsing and printing of the command line, the
logger and the update check.

*Edits of files of the operating system or other programs*: launch agent, editor sandbox
settings, the installed Skill. That preparing them may fail is an action of
`MachineLifetime`; their contents are not modelled.

*Parts of modelled components*: `renewControlRequest`, which nothing calls;
`waitForControlRequest`, which only reads; `commitSessionRoute`, which only tests call; the
preflight of plugins, which refuses or does not; the workspace mirror of the ownership
index, which is written and, once the index exists, replaced by it before it is used; the
migrations of session files and ownership indexes of earlier versions, which happen once and
under a lock, unlike that of the mailbox, whose writer may still run; the parsing of stored
files, which either succeeds or is the kind `broken`.

*Known gaps*: what happens when a process stalls for `staleMs` inside `withFileLock`, and
when a second gateway constructs its registry beside the first (both are hazards without a
property, see `Prompt` and `Rivals`); a launcher the user writes during a build; an output
without text whose id has a body left from a crash.
