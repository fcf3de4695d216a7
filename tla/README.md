# A TLA+ model of Reasonbook

Reasonbook (`cmos-mcp`) is a memory for coding agents: an MCP server in
TypeScript that keeps missions, sprints, decisions, learnings and sessions of a
project in a SQLite store, and may share them through a hosted dashboard.  This
directory models the parts of it where several actors meet: server processes on
one machine that share a store and a registry, and machines that share a project
through the dashboard.

Paths below are relative to the source directory (`src/`, so that
`src/tools/rbook/client.ts` is `src/src/tools/rbook/client.ts` from the root of
the checkout).

## The system

### Where state lives, and what is atomic

| State | Owner | Shared by |
|---|---|---|
| the store, `rbook/db/rbook.sqlite` | a project | every server process and CLI hook started for the project on this machine |
| the registry, `project-graph.sqlite` | a user | every server process of the user |
| rows of table `metadata` of the store (cursor, counter, orderings) | a project | as the store |
| the broker's log and mirror | the hosted dashboard | the machines of all editors of a project |
| timers, open clients | one server process | nobody |

The store is accessed with better-sqlite3, which is synchronous: between two
`await`s the code of one process is not interrupted by its own other calls.
Processes interleave between any two SQL statements outside a transaction, and at
every `await` also the calls of one process interleave.  A transaction begun with
`BEGIN IMMEDIATE` takes the write lock first, and is one step.  A process may die
anywhere (the harness kills the server at the end of a session); what was
committed stays.  The steps of every module here follow these rules.

### Components

Every component, with its sources, is a row of `PROJECT.json`.  What they keep,
what they do and what would make them correct:

* **Dashboard upload debt and lease** (`intelligence/project-upload-state.ts`,
  `dashboard-upload*.ts`, `checkpoint-backfill.ts`).  *State*: eight columns of the
  project's registry row: when an upload was first owed, when the store was last
  written, the first mark since the lease was claimed, a generation, a lease token
  and its expiry, an auth backoff, and the row's status.  *Operations*: mark, claim,
  renew, finish, under a timer per server and under explicit closes; registry
  archive, restore, register, unregister.  *Called by*: the tool dispatcher after
  every writing call, and the closes of sessions and sprints.  *Hard*: a lease that
  runs out while its holder sleeps, marks during an upload, crashes holding the
  lease, lost answers.  *Correct if* no mark is forgotten before the dashboard has
  the write it stands for, an overtaken holder changes nothing, the backoff ends
  only by a successful close, and the debt of an idle project is paid.
* **Mission lifecycle** (`rbook-mission-*.ts`, `errors.ts`).  *State*: status and
  sprint of each mission.  *Operations*: add, start, block, unblock, defer,
  complete, drop, update, move.  *Hard*: most of them read, decide and write in
  separate statements, so that processes overtake each other.  *Correct if* a
  status changes along the transition table, terminal missions stay terminal, and
  missions move only into live sprints.
* **Sprints and current-sprint pointers** (`rbook-sprint-*.ts`,
  `sprint-current-invariant.ts`, `sprint-tracking.ts`).  *State*: status of each
  sprint; `sprint_tracking` inside the `master_context` document.  *Operations*:
  add, update, close, activation by a mission start, `syncSprintTracking` after
  each.  *Hard*: the single-open rule across processes, the rollback of a demotion,
  a document written back from a stale read.  *Correct if* at most one sprint is
  open, nothing is demoted without a successor, and the pointers name the sprint
  that is open.
* **Collaborative sync of mutable fields** (`sync-mutable*.ts`, `sync-locks.ts`,
  `sync-pull.ts`, `sync-bootstrap.ts`).  *State*: the field itself (status of a
  mission or a sprint, name of the project), the ordering of the edit that won
  (`mutable_status`), the counter `mutable_origin_seq`, the pull cursor; on the
  broker a log and a mirror.  *Operations*: edit, change guard, paged pull with
  last-writer-wins merge, stamp, record, push, converge, clone.  *Hard*: reordered,
  lost and half-answered requests, crashes between statements, clocks of different
  machines, a superseded answer that arrives late.  *Correct if* up-to-date stores
  hold the broker's value, a stale edit never beats a fresher one, and what is
  suppressed as unchanged has been sent.
* **Sessions and captures** (`session-owner.ts`, `rbook-session-*.ts`,
  `implicit-session-lifecycle.ts`).  *State*: session rows with an owner and a JSON
  column of captures, and the rows made of them (a decision at once, a next step
  when the session closes).  *Operations*: start, implicit open by the first write,
  capture (read, append, write back), complete, close at exit and at the end of a
  harness session, reconcile.  *Hard*: two processes that both start, captures lost
  to the read-modify-write, a completion that awaits between reading the captures
  and extracting them, two closes, a process that dies while it extracts.  *Correct
  if* a caller has one session, nobody else writes into it, a decision is one row,
  and no capture is lost.
* **Next steps and their lease** (`next-step-lease.ts`).  *State*: open
  steps with the time they were made or last carried; the closes they survived are
  not counted but read off status and `end_date` of the sprints.  *Operations*:
  insert, carry, complete, drop, reopen; the drop inside a sprint's close, after a
  one-time repair of end dates.  *Hard*: `end_date` also holds planned dates and is
  written by several tools, older versions and, by omission, other machines.
  *Correct if* a step is dropped only after the closes it was given.
* **Draft approvals** (`cli/drafts-hook.ts`, `draft-runtime.ts`, `proposals.ts`,
  `draft-approval.ts`).  *State*: proposals with an outcome and the record made of
  them, in the store; outside it, for each conversation, what its last reply showed
  and what the operator then said of it.  *Operations*: the hooks of the harness
  (a reply ends, a message is sent, a session starts or ends), evaluation, claim,
  write, release and naming of a record.  *Hard*: hooks that are killed by a
  deadline between the two stores, calls that evaluate one draft together, a claim
  and its record in two transactions.  *Correct if* a draft becomes one record or
  none, and only by words that its operator said after it was shown.
* **Project graph registry** (`project-graph-registry.ts`, `rbook-project-init.ts`,
  `project-resolution.ts`).  *State*: a row per project id with its folder, the
  default project in two entries, and the id inside each store.  *Operations*:
  register, init, adopt, unregister, choose the default, prune; the operator moves,
  copies and deletes folders.  *Hard*: registry and stores say the same thing twice,
  in single statements of several processes.  *Correct if* they agree, the row of a
  store that stays in its place is not taken away, and the chosen default stands.
* **Insert-union of creation events** (`rbook-db-backfill.ts`, `sync-pull.ts`,
  `sync-merge.ts`, `sync-bootstrap.ts`).  *State*: records with ids and times, a time
  cursor for what was replayed, a position for what was pulled.  *Operations*:
  replay, paged pull, clone.  *Hard*: replays that are cut off or overlap, answers
  that are lost, ids that two stores draw alike.  *Correct if* no record is passed
  by a cursor unsaid, and stores that are through hold the same.
* **Spin-out** (`spin-out*.ts`).  *State*: a ledger, reservations and pointers in the
  source, copies and receipts in the targets.  *Operations*: the command, again and
  again; ordinary work on both stores; a restore of a target.  *Hard*: no transaction
  spans two databases, so that a command may end between any two of three.
  *Correct if* a row is copied once, none is lost, no edit is left behind, and
  nothing in the target is overwritten.
* **Decisions; learnings and constraints; master context; snapshots and restore;
  credentials; dashboard client; harness link; messages; migration; links and search; onboarding;
  telemetry; hooks and command line; tool server; store client**: single-transaction
  or derived state, pure input and output, or state kept by an external service.
  `PROJECT.json` says for each why it is not modelled.

### How they interact

```
 agent --MCP--> tool server --+--> mission, sprint, session, ... tools --> store
                              |        |                                     ^
                              |        +--> maybePropagateMutableStatus -----+
                              |                 |  (pull, record, push)
                              |                 v
                              |              broker  <--- other machines
                              +--> markDashboardUploadOwed --> registry row
        timer in each server ----> claimUpload / send / finishUpload --> dashboard
```

A tool call that writes the store marks the registry row afterwards, in another
database: the two are not one transaction.  A mission or sprint tool commits its
row first and propagates it second.  `syncSprintTracking` runs after the sprint's
transaction.  Each of the three is a window that the modules keep open.

## Modules

| Module | Models | Used by |
|---|---|---|
| `UploadDebt` | abstract: promises, and the date of the debt | `UploadLease` |
| `UploadLease` | the registry row, writers, timers, closes | `MCUploadLease`, `MCUploadLive`, `UploadLease_proofs` |
| `MCUploadLease` | bounds for TLC | runs |
| `MCUploadLive` | the same actions under fairness, with a last moment for faults | run |
| `UploadLease_proofs` | theorems | |
| `MissionSprint` | missions, sprints, pointers, tool calls in flight | `MCMissionSprint`, `MissionSprint_proofs` |
| `MCMissionSprint` | symmetry | runs |
| `MissionSprint_proofs` | theorems, those about `NextStepLease` too | |
| `CollabSync` | one mutable field in several stores and on the broker | `MCCollabSync`, `CollabSync_proofs` |
| `MCCollabSync` | bounds and clocks | runs |
| `CollabSync_proofs` | theorems | |
| `Sessions` | sessions, their captures and the rows made of them, processes and their calls | `MCSessions`, `Sessions_proofs` |
| `MCSessions` | symmetry | runs |
| `Sessions_proofs` | theorems | |
| `Drafts` | proposals, the hooks of a conversation, calls that record | `MCDrafts`, `Drafts_proofs` |
| `MCDrafts` | symmetry; drafts of constraints by themselves | run |
| `Drafts_proofs` | theorems | |
| `SpinOut` | commands over a source and its targets | `MCSpinOut`, `SpinOut_proofs` |
| `MCSpinOut` | two commands that overlap | run |
| `SpinOut_proofs` | theorems | |
| `EventReplay` | append-only records in several stores and on the broker | `MCEventReplay`, `EventReplay_proofs` |
| `MCEventReplay` | calls in flight, clocks, sprints of one store | runs |
| `EventReplay_proofs` | theorems | |
| `Registry` | rows, ids in stores, the default, calls in flight | `MCRegistry`, `Registry_proofs` |
| `MCRegistry` | symmetry; a default is chosen where nobody moves folders | run |
| `Registry_proofs` | theorems | |
| `NextStepLease` | next steps, and the sprints as their lease sees them | `MCNextStepLease`, `MissionSprint_proofs` |
| `MCNextStepLease` | symmetry | run |

An operator under a comment `Mutant:` is a plausible bug of the
operator defined after it.  No specification refers to it; each property was seen
to fail when its mutant takes the operator's place.

### UploadLease

| In the module | In the code |
|---|---|
| `row` | the `upload_*` columns and `status` of `projects` in the registry |
| `row.blocked` | `upload_auth_blocked` |
| `att[a]` | the locals of one `withUploadLease`: token, generation, snapshot, lease flag, outcome |
| `unmarked[w]` | a tool call between its write and `markDashboardUploadOwed` |
| `store`, `delivered` | version of the store, newest version the dashboard has (versions are counts of commits) |
| `claims` | stands for the random token: the number of the claim that drew it |
| `marks` | history: what `markUploadOwed` was called for; nothing in the code keeps it |
| `MarkUploadOwed`, `ClaimUpload`, `HoldsLease`, `FinishUpload` | the four UPDATEs of `project-upload-state.ts` |
| `Write`, `MarkWrite`, `DropMark` | `executeWithStoreUpkeep` in `index.ts` |
| `vouched` | history: the newest version that an event replay answered for and did not send whole |
| `OpenClose` ... `LeaveToHolder`, `Snapshot`, `Deliver`, `SendFails`, `Finish` | the path of `withUploadLease` and `triggerCheckpointBackfill` |
| `StartReplay`, `EndReplay` | the event replay that an explicit close without a slug falls back to (`checkpoint-backfill.ts:197`) |
| `ClaimTimer` | one firing of the interval in `dashboard-upload-scheduler.ts` |
| `Renew`, `RenewThrows` | the keep-alive interval of an upload |
| `Crash`, `Tick`, `Archive`, ... | a process dies; time; the registry's operations |

The dashboard is external: `Deliver` has it take the snapshot and answer or not,
`SendFails` has it refuse, or not be there.  A snapshot replaces what the dashboard
has unless it is older (`Newest`).  The event replay that an explicit close falls
back to is here by its result: it sent everything that the store has (`whole`) or
not, and its answer is a success whenever no push failed
(`checkpoint-backfill.ts:199`), also when the guard against large deltas pushed
nothing (`rbook-db-backfill.ts:876-904`), the time limit cut it off (`:934-944`), or
records lay behind its cursor (`:664`).  So a close may pay a debt of which the
dashboard has nothing; the properties say that a mark is lost in this way alone.
`UploadDebt` says what all this is
for in five actions without lease, token or generation: promises are recorded,
received, settled as far as they are kept, or forgotten with the project.
`Debt == INSTANCE UploadDebt WITH promises <- marks, since <- row.firstOwedAt`.

### MissionSprint

| In the module | In the code |
|---|---|
| `sprint[s]`, `mission[m]` | `sprints.status`; `missions.status` and `missions.sprint_id`; "absent" before the INSERT |
| `tracking` | `master_context.sprint_tracking` |
| `call[c]` | where a tool call is, and the values its handler read before (`from`, `sprint`, `read`) |
| `CheckTransition`, `WriteTransition` | the read and the UPDATE of block, unblock, defer, complete |
| `Start`, `CommitStart`, `Activates` | `rbookMissionStart`: checks, then `BEGIN IMMEDIATE` |
| `Drop`, `Update`, `CompleteSprint`, `UpdateSprint` | handlers that check inside their transaction: one step |
| `Move`, `CheckMove`, `WriteMove` | the three statements of `rbookMissionMove` |
| `AddSprint`, `InsertSprint`, `WithSingleCurrent` | the id check, then the transaction of `writeSingleCurrentSprint` |
| `ReadContext`, `DerivePointer`, `PersistContext` | `syncSprintTracking` |
| `ReceiveSprintStatus`, `ReceiveMissionStatus` | a pulled `sprint_status` or `mission_status`, written by a plain UPDATE without a look at the transition table (`sync-mutable.ts:341-351`); `Inbound` and `InboundMission` are the statuses that come |
| `Interrupt` | the process of a call dies, or its statement fails |

"Active" stands for the three open statuses, "active" for one of them spelt in
another case, "Archived" for the statuses of dead sprints and of missions from an
older version.  A sprint without a status (NULL) is left out, as are notes, the
JSON of `domain_fields`, dependencies and the event log: no guard here reads them.

### CollabSync

One field of one row; the code treats fields independently, but for the counter
and the cursor, which only advance faster when there are more of them.

| In the module | In the code |
|---|---|
| `row[s]` | the status or name in the store of `s` |
| `recorded[s]` | the entry of `metadata.mutable_status` (value, time, counter) |
| `counter[s]`, `cursor[s]` | `metadata.mutable_origin_seq`, `metadata.pull_cursor` |
| `log`, `mirror` | the broker's `rbook_sync_log` and current value (external) |
| `call[c]` | a call in flight on a store, its page, stamp or answer |
| `Wins` | `incomingWins` |
| `Edit`, `Decide`, `Suppressed` | the handler's commit and `maybePropagateMutableStatus` |
| `OpenPull` ... `StopPull` | `syncPull`, a page at a time |
| `TakeSeq`, `WriteLocal`, `Record`, `Deliver`, `Accepted`, `Converge`, `Settle` | `pushMutableStatus` and `applyLocalMutableStatus` |
| `WriteUnshared` | handlers that write the field and do not propagate |
| `Clone` | `syncBootstrap` |
| `Interrupt` | a crash, a failed request or a lost answer |
| `edit`, `unsettled` | history: the last local edit; stores that know they owe something |

`EmitOnlyIfChanged` selects the field: FALSE for missions, whose handler always
emits, TRUE for sprints and the name.  `MergePage` gives the result of a page by
saying which of its events stands at the end rather than folding over it: the
events of a page are merged in one transaction, and only the last winner is left.
The soft-lock is advisory (a held lock is a warning), so it guards nothing here.
The limit on pages per pull, the conflict and restore surface and the creation
events of the same pages are left out.

### Sessions

| In the module | In the code |
|---|---|
| `session[s]` | status, `implicit`, `owner_key` and captures of a row of `sessions`; `rest` is what `lastActivityMs` says of the twelve hours |
| `rows[<<i, s>>]` | how many rows of `strategic_decisions` or `next_steps` have text `i` and session `s` |
| `call[c]` | a tool call: the next statement of its handler, the session it resolved, the captures it read |
| `KeyOf`, `CallerExplicit`, `ActiveOf`, `Dead`, `HeldByAnotherProcess` | `session-owner.ts` |
| `LoopFree` | the event loop: a process runs one call until it awaits |
| `Capture`, `FindOwn`, `Open`, `ReadRow`, `Decide`, `Defer` | `rbookSessionCapture`, a statement (or its transaction) at a time |
| `Complete`, `ReadRow`, `RecordDecisions`, `CloseSession`, `SeekStep`, `InsertStep` | `rbookSessionComplete` |
| `CloseEach`, `CloseNext`, `Reconcile`, `FinishReconcile`, `Leave`, `EndHarnessSession` | `implicit-session-lifecycle.ts`, each close through the handler above |
| `Start`, `StartExplicit`, `InsertExplicit` | `rbookSessionStart` |
| `Exit`, `Crash`, `GoIdle` | `process.exit` after a signal, death between two statements, twelve hours of silence |
| `acknowledged`, `undisturbed`, `torn` | history: answered captures, those nobody overlapped, sessions whose closer died on the way |

A text stands for a capture; those of `Decisions` are rows at once (learnings go the
same way), those of `Steps` when the session closes (constraints and context go the
same way, with other keys).  A process in `Linked` writes as the conversation of one
harness session for as long as it lives; the hook that ends the conversation is such
a process too.  The sprint a row is stamped with, the event log, aggregation into
the master context and the three attempts at an id are left out.

### Drafts

| In the module | In the code |
|---|---|
| `outcome`, `kind`, `named` | the columns of `proposals` (`named` is `record_id`) |
| `records` | decisions and standing records, as the call that wrote each |
| `age` | the session starts counted since a draft was made (table `starts`) |
| `shown`, `window`, `excerpt` | the file of `draft-runtime.ts`: shown set, open window, words and their class |
| `hook[s]` | the hook of a conversation that is running: `StopBegin` ... `StopShow`, `Message` ... `Decline` |
| `Kill` | the deadline of a hook, between any two of its steps |
| `Evaluate`, `Recordable`, `Mode` | `evaluateDraft` |
| `Look`, `Direct`, `Commit` | `rbookDecisionsRecord` with a draft or without one |
| `Claim`, `Write`, `Release`, `NameRecord` | `recordDraftOfKind`, for a rule or a profile line |
| `WriteConstraint`, `NameConstraint` | the same for a constraint: a capture outside a transaction, and a look-up by text |
| `Die` | the server of a call dies |
| `display`, `said`, `unheard` | history: what the last reply showed, what the operator last said of a draft, and which answers no hook has kept |

What a message says is its class (approves, declines, or neither), as
`classifyReply` has it; which draft it names is left open.  `evaluateDraft` reads
the runtime file and the store one after the other and is one step here.

A constraint goes through `rbookSessionCapture` without a transaction
(`rbook-session-capture.ts:897-899`), and a rejected INSERT is answered as a success
(`:868-881`): after `WriteConstraint` there is a row or not.  The look-up then finds
it, finds nothing (the draft is named `c:unknown`, here `Unknown`, and stays
approved, `draft-approval.ts:371-372`), or throws, which releases the claim (`:373-378`)
also where the row exists.

### SpinOut

| In the module | In the code |
|---|---|
| `payload`, `pointer`, `reserved`, `ledger` | the source: versions of its rows, `spin_out_row`, `spin_out_reservation`, `spin_out_operation` |
| `cell`, `receipt`, `inode`, `backup` | a target: rows by id, its `spin_out_operation`, its file, its last backup |
| `lock` | `BEGIN IMMEDIATE` held on a store |
| `run[p]` | an invocation: the step it is at, and the file it opened |
| `LockSource`, `Resume`, `Reserve`, `ReleaseTarget`, `RelockSource`, `RelockTarget`, `Copy`, `Mark` | the three transactions of `spinOut`, and what it checks in each |
| `Abandon` | an error or a death anywhere |
| `WorkInSource`, `WorkInTarget`, `Restore` | the tools, and `rbook_db(restore)` of a target |

A restore takes place only while no invocation has the stores open (the command
holds them open, and on the platforms where that does not stop a restore the code
compares files, which `inode` stands for).  Deadlock is not checked: every command
may have been refused for good.

### EventReplay

| In the module | In the code |
|---|---|
| `rows[s]` | the records of one kind in a store: id, time, content, origin |
| `log` | what the broker accepted, in its order (external) |
| the time cursor `pushed`, the position `pulled` | `getCursor` of the replay, `metadata.pull_cursor` |
| `planned[s]` | the times of the events of sprints in a store, by themselves |
| `call[c]` | a replay, pull or clone: what it still has to push, the page it fetched |
| `Plan` | a sprint is added, with the date it is planned for, or one is pulled |
| `Replay`, `Push`, `PushSprint`, `Finish` | `rbookDbBackfill` |
| `OpenPull`, `Fetch`, `Merge`, `PersistCursor`, `ResetPull` | `syncPull` |
| `OpenClone`, `Seed` | `syncBootstrap` |
| `behind[s]` | history: records whose time a cursor or a list had reached (`Reached`) before they were made |

`Numbered` selects the kind: TRUE for decisions and learnings, whose ids come from
each store's AUTOINCREMENT, FALSE for sessions, whose ids are unique.

The event of a sprint has its planned start or end date as its time
(`rbook-db-backfill.ts:494`, `:507`), a date the caller gives (`rbook-sprint-add.ts:54`).
One list and one cursor serve all kinds of events, and the cursor goes to the time
of the last event that was pushed (`:952-981`).  A sprint that is planned for next
month therefore moves the cursor past everything that is recorded until then, on
one machine with one clock.  `PushSprint` and `Finish` do the same, and `behind`
keeps which records that concerns: `NothingSkipped` and `Agree` are about the others.

### Registry

| In the module | In the code |
|---|---|
| `row[i]` | `projects`: `store_path` and `archived_at` of a project id |
| `default`, `confirmed` | two entries of `registry_meta`; the default is applied when they agree |
| `folder[p]`, `stored[p]` | whether there is `rbook/`, or a store in it; `metadata.project_id` |
| `call[c]` | a call: its folder, the id the registry had for it, the id it goes on with |
| `Register`, `Seek`, `Mint`, `Check`, `Upsert` | `registerStore`, `mintProjectId`, `register` |
| `Choose`, `Confirm`; `Unregister`, `Delete`, `Clear` | `setDefault`; `unregisterStore` |
| `InitProject`, `Create`, `ReadStored`, `Identify`, `DropStale`, `Lookup` | `rbookProjectInit`, where it deals with the id |
| `Adopt`, `Prune`, `PruneNext` | `touchOrRegisterFromStore`, `pruneMissingStores` |
| `Move`, `Copy`, `Remove`, `LoseStore` | the operator, between calls |
| `settled`, `standing`, `touched`, `replaced` | history: rows of live stores since before a call, the standing choice, folders the operator changed, folders in which an init wrote its id over another one |

### NextStepLease

| State or action | Code |
|---|---|
| `sprint`, `event`, `repaired` | `sprints` (status, `end_date`), the closes in `session_events`, the marker `sprint_end_date_repair_v1` |
| `step` | `next_steps`: status ("resolved" for completed and dropped), `created_at`, `resolved_at` |
| `call` | a call between its clock, or the row it read, and its write |
| `StartInsert`, `Insert` | the completion of a session, before and after its await |
| `StartCarry`, `Carry`, `CarryAll`, `Resolve`, `Reopen` | the statements of `rbook-next-steps.ts` |
| `AddSprint`, `StartUpdate`, `WriteSprint`, `ReceiveStatus` | everything else that writes status or `end_date` of a sprint |
| `Misdated`, `Repaired`, `Lapsed`, `DropLapsed`, `CompleteSprintRecord`, `Close` | the transaction of `rbook_sprint(complete)`, as far as the lease goes |
| `closed` | history: when the close was committed that wrote a sprint's `end_date` |

`Init` is a store of the version before 3.2.0: its closed sprints may have kept
planned dates, and the closes may not be recorded.  A statement of the repair may
fail while the close goes on (`sprint-end-date-repair.ts:105`, `:120-124`): `Close` then
repairs any part of what is misdated and leaves the marker unset.  The pointers, readiness and
demotions of these same tools are in `MissionSprint`.

## What TLC checks

Runs that pass:

| Run | Question | Bounds |
|---|---|---|
| `upload_lease` | Is any mark lost, does an overtaken attempt commit, does anything but a close end the backoff, and does the row implement `UploadDebt` - under crashes, lost leases, refusals, event replays that leave something out, and registry operations? | one writer, timer and close; QUIET 1, MAXWAIT 2, LEASE 1; 2 ticks and 2 writes (3 of them together), 2 marks, 2 claims; 1.3 million states |
| `upload_live` | Is a debt eventually paid, or refused for good? | the same processes; faults and marks until tick 1, clock until 2, 2 faults |
| `sprint_race` | Which rules of sprints and transitions hold for two processes that overlap and die, and where does a close leave the pointers? | 2 calls, 1 mission, 2 sprints, two spellings of open, one status that is pulled for each; 0.9 million states |
| `collab_mission` | Do stores that are up to date agree with the broker, does the last edit of a store that loses nothing stand? | 2 stores, one failing, one cloned late, pages of 1, 2 instants, 2 edits; 0.8 million states |
| `collab_sprint` | With the change guard, is what a store suppresses known to the broker, where its own calls do not fail? | 2 stores, one failing, a value written without propagation, 2 edits; 0.9 million states |
| `sessions` | Is a decision one row, a session its process's own, and a next step that nobody overlapped kept and extracted, whatever starts, closes, exits, dies or falls silent? | 2 processes, one of them linked; 2 sessions, 1 decision, 1 next step; 4 calls, 2 at a time; 2.1 million states |
| `drafts` | Does a draft become one record or none, and only by its operator's words, whatever hook is killed and whatever calls overlap? | 1 conversation and 1 server without hooks, 2 drafts that are decisions or rules (constraints, by themselves, with 1 reply and 1 message), 2 calls, 2 replies, 2 messages; 2.8 million states |
| `spin_out` | Is a row copied once, and is nothing lost, left behind or overwritten, wherever commands end? | 2 processes, 2 commands that overlap in a row, 2 targets, 2 ids, 2 versions, 1 restore |
| `event_replay` | Is no record that was there in time passed by a cursor unsaid, do stores hold what their position passed, and do those that are through agree? | 2 stores, one of them failing and cloned late, 3 calls, 2 records, pages of 1; 1 sprint planned for later in the failing store, then with 1 call for each store and the log as long as the records; 2.6 million states |
| `registry` | Do registry and stores agree wherever no init wrote over a newer id, does the row of a store that stays stay, does the chosen default stand? | 2 processes, 2 folders, 2 ids, 2 changes by the operator; a default is chosen where there are none; 1.0 million states |
| `next_step_lease` | Does a close drop a next step only after sprints were really closed since its last carry? | 1 call, 1 step, 2 sprints, LAPSE_AT 1, MIN_AGE 1, one planned date, clock 2 to 3; 1.0 million states |

Why the bounds are enough to meet the interesting cases.  Two claims are the
fewest with a takeover, and with LEASE 1 and two ticks a lease runs out, is taken,
and its first holder ends afterwards; two marks are the fewest with one before and
one after a claim, and both fit in one tick; the second tick is needed for MAXWAIT,
for which one write is enough.  Two calls are the fewest that overlap, and every handler has at
most one window in which it relies on what it read, so a third call adds only a
second overtaking of the same window; one mission suffices because no
handler relates two missions except through a sprint's readiness, where one
unfinished mission blocks as well as two.  In `CollabSync` two edits give a loser and a winner, a page
limit of 1 makes each pull of two events take two pages with requests in between,
and two stores give every order of push and pull.  In `Sessions` a linked and an
unlinked process give both kinds of key, two sessions an explicit and an implicit
one, and `MaxCalls` = 4 is enough for a start, a capture that reconciles, a close
that overlaps it, and one call more.  In `Drafts` two drafts give one that is
approved and one that is not, or a revision of the other, and two replies give a
shown set that is out of date.  In `SpinOut` two commands over a common row meet in
every pair of steps, and an edit, a restore and a free id to take are enough to
spoil a resumption.  In `EventReplay` a second call on one store overlaps the first,
and a second record is one that a cursor can pass; one sprint, dated later than the
next record, is enough to be pushed before it, after it or in a list with it.  In
`Drafts` what is particular about constraints follows the claim, so that one reply
and one message are enough for them.  In `Registry` two folders give a
project that moved and a new one in its place, or a store and its copy; stores of a
version without ids make first registrations race at once.  In `NextStepLease` the call in flight overlaps the closes and
the pulls, which are atomic; the close that drops never counts itself, so with
LAPSE_AT 1 a second sprint is the fewest; the planned date is later than the close
that an older version recorded and than the first close here, and the clock reaches
it.  In `Registry` a choice of the default is checked in folders that nobody moves;
`TheChoiceStands` is proved with both.  The mutants are found within
the same bounds.

Liveness.  `MCUploadLive` assumes weak fairness of the clock, of each timer's claim
(an open server polls each opened project every minute, `startTimer`) and of the
continuation of an attempt (its awaits resolve: requests have a timeout).  Tool
calls, closes and renewals are not assumed to happen.  Faults are finite, since with
a failure after every send nothing would be paid, and the clock stops late
enough for every lease and quiet period of before to have run out; deadlock is not
checked in this run because the clock ends.

The run that shows a violation, with a finding in `PROJECT.json`:

| Run | Violates | What happens |
|---|---|---|
| `event_numbers` | `ConflictFree` | two stores draw one id for two decisions; each pull finds its id taken and inserts nothing, and each store keeps its own for good |

Deadlock is not checked in the runs of `Sessions`, `Drafts`, `SpinOut`,
`EventReplay` and `NextStepLease`: all processes may have exited, every draft be
decided, every command be refused, every record be sent, the clock have ended.

### What the passing runs exclude

A passing run with a restricted constant says where the property ends, and a
property that says that something happens in one way alone says nothing against
that way.  The following shows what lies beyond: promises of the code, its comments
or its documents, stated in the modules, that the code does not keep, and what TLC
reports when a constant is relaxed.  Each was seen with the module as it is.

| Property | Holds in | Relaxed to | What then happens |
|---|---|---|---|
| `MovesNeedLiveDestination` | 1 call: `MovesOneAtATime` (not in a run) | 2 calls | the destination closes between its check and the write (`rbook-mission-move.ts:250`) |
| `TrackingInStep` | 1 call: `TrackingOneAtATime` (not in a run) | `Written` with "active" | `openSprintPointer` compares exactly, everybody else folds case: the pointer stays null (`sprint-tracking.ts:32`) |
| `TrackingInStep` | 1 call: `TrackingOneAtATime` (not in a run) | 2 calls | a pointer derived before another process closes the sprint is persisted after it (`sprint-tracking.ts:107`), which `sprint-tracking.ts:2`, "in step with the sprints table at every sprint boundary", does not foresee |
| `AtMostOneOpenSprint` | `sprint_race` | `Inbound` with "Active" | a pulled status is written by a plain UPDATE and opens a second sprint (`sync-mutable.ts:350`; the rule is at `terminal-status.ts:64`) |
| `Converged` | `collab_mission` | equal clocks, 4 edits | two stamps of the same millisecond: the loser records the winner without its counter, and its own event, pulled back, beats it (`sync-mutable-push.ts:227`) |
| `Converged` | `collab_mission` | a third store that is cloned, two editors | the clone has values without orderings, an older event that is pushed later wins there only (`sync-bootstrap.ts:389`) |
| `Converged` | `collab_mission` | 2 processes on a store, 3 edits | the answer to a superseded push is applied over a newer edit that another call pulled meanwhile (`sync-mutable-push.ts:221`) |
| `Converged` | `collab_mission` | `Unshared` not empty | a status written by `rbook_mission(update)`, or by a demotion, is never sent |
| `EditSurvives` | `collab_mission` | all stores instead of those that do not fail | an edit whose pull fails is in the row without an ordering, and an older event of the next pull beats it, although `sync-mutable.ts:442` says a stale remote edit "can NOT clobber a fresher local one" (`sync-mutable-push.ts:132`) |
| `EditSurvives` | `collab_mission` | 2 processes on a store, 3 edits, no failures | the answer to a superseded push is applied over a newer edit that another call pushed meanwhile (`sync-mutable-push.ts:221`) |
| `EditSurvives` | `collab_mission` | the constants of `collab_sprint`, no failures | a value written without propagation between an edit and the change guard's reading of the row is the recorded one, and the edit is not sent (`sync-locks.ts:320`) |
| `SuppressedIsKnown` | `collab_sprint` | 2 processes on a store | one call has recorded its edit and not yet sent it; another edit of the same value is suppressed (`sync-locks.ts:320`) |
| `RetryIsSent` | nowhere; `SuppressedIsKnown` is what is left | the constants of `collab_sprint`, where A is fallible | the push of a sprint edit fails; repeating it is suppressed as unchanged (`sync-locks.ts:320`), although the answer said "retry to propagate it" (`sync-locks.ts:240`) |
| `TerminalIsFinal` | 1 call, nothing pulled: `TerminalOneAtATime` (not in a run) | 2 calls, as in `sprint_race` | start read Queued, another process drops the mission, the start commits In Progress (`rbook-mission-start.ts:226`), although Dropped "cannot be re-activated" (`errors.ts:116`) |
| `StepMaterializes` | 1 call: `StepsMaterializeOneAtATime` (not in a run) | the constants of `sessions` | a completion reads the captures and awaits an embedding; a next step captured meanwhile is acknowledged and never becomes a row (`rbook-session-complete.ts:577`), although it "materializes at session close" (`rbook-session-capture.ts:591`) |
| `LandsOnlyOnWhatWasShown` | `drafts`, as part of `WordsAreTheOperators` | a Stop hook that may be killed | the shown set of the reply before stays, and the next message binds to it (`drafts-hook.ts:399`), although it "never lands on a draft they were not shown" (`draft-runtime.ts:29`) |
| `WordsAreTheOperators`, `HeardBeforeRecorded` | `drafts` | a Stop hook that may be killed | the same: words bind to a draft of the reply before, which was not said to the operator (`drafts-hook.ts:399`) |
| `ReplacedByARevision` | `drafts` | a Stop hook that may be killed, 3 replies and messages | the same: a draft that was bound without being heard is replaced |
| `DroppedAfterRealCloses` | `next_step_lease` | sprints closed by another machine counted by `closed` as well | a pulled "Completed" leaves the planned `end_date` in place (`sync-mutable.ts:350`), and once it has passed it counts as a close that rows carried after the real one survived, although "every close stamps its actual close time" (`next-step-lease.ts:17`) |
| `NothingSkipped` | `event_replay` | clocks 3 apart | a pulled record stamped ahead of this store's clock moves the time cursor past its own later records (`rbook-db-backfill.ts:664`) |
| `PaidMarksAreDelivered` | nowhere; `DebtDatesFromOldestUnpaidMark` excepts what a replay answered for | the constants of `upload_lease` | an explicit close gets no slug and falls back to the event replay, whose success pays the debt although it sent none or a part of it (`checkpoint-backfill.ts:199`; `SECURITY.md:95` allows the fallback), although "each upload sends a consistent snapshot of the whole SQLite file" (`README.md:361`) |
| `NamesARecord` | nowhere; `RecordMatchesOutcome` excepts constraints | a constraint, 1 draft, 1 call | the INSERT is rejected, the capture answers success, the look-up finds nothing, and the draft is approved and names `c:unknown` (`draft-approval.ts:372`), although `record_id` is "the record it became" (`proposals.ts:41`) |
| `CursorSkipsNone` | nowhere; `NothingSkipped` excepts `behind` | one store, a sprint that is planned for later | the sprint is pushed, the cursor stands in the future, and the next decision is never replayed (`rbook-db-backfill.ts:976`), which the order of the events by their instants is to prevent: "the cursor then skips rows it never pushed" (`:868`) |
| `NothingSkipped` | `event_replay` | one instant for all records | the time limit cuts a replay between two records of one millisecond, and the cursor passes the second |
| `IdIsForLife` | nowhere; `RowsAgree` excepts the folders of `replaced` | the constants of `registry` | init finds no id in the new database, a writing call mints and registers one, and init's INSERT OR REPLACE puts another in its place (`rbook-project-init.ts:745-747`, `:758`): every later write is refused as an identity conflict (`project-graph-registry.ts:675-690`), although init re-reads the id "in case a concurrent init stored one since" (`:753`) and "a project keeps its id for life" (`:708`); `mintProjectId` does the same write on a condition |
| `OriginSeqMonotonic` | 1 process (not in a run) | 2 processes on 1 store, 3 edits | both read the counter before either writes it, one goes on to a second edit, and the late write puts the counter back (`sync-mutable.ts:308`), although "the contract is MONOTONIC, not gapless" (`:302`) |

Three weaknesses of sessions lie outside what the properties say.  Two processes
of one key, or without one, that start at once both find no explicit session and
insert one each (`rbook-session-start.ts:274`), and two processes of one harness
session likewise open two implicit ones, which is why `OneImplicitSession` speaks of processes that
write under their own key.  A process that dies after it has completed a session and
before it has extracted its next steps leaves them in the JSON for good, since only
an active session can be completed (`rbook-session-complete.ts:414`);
`StepKeptUnlessOverlapped` excepts those sessions by `torn`.  Two calls that close
one session at once, each past the check of its status, may both insert a next step,
whose look-up and insert are not a transaction.

Missions.  A pulled status is written whatever the row holds, also over a terminal
one (`sync-mutable.ts:341-348`): `LegalUnlessOvertaken` lists it beside the late write,
and `TerminalOneAtATime` assumes that nothing is pulled.

Drafts.  The words of a message are lost when the prompt hook is killed before it
binds them: the answer to the agent then says that nothing was heard, which is the
safe side.  So are those of a message sent while a draft is claimed.  A claim whose
server dies before the record is written stays approved without a record, and a
draft may be recorded when it expires between its evaluation and the write.  A
constraint may also be pending with a record, and recorded a second time: its
look-up threw after the row was written, and the claim was released.

Spin-out.  A comment says that the caller holds the write reservation of the target
"through allocation and all INSERTs" (`spin-out-mapping.ts:47`); the caller releases
it between the two (`spin-out.ts:308`), so that an id taken in between fails the
INSERT (this is why `WorkSurvives` rests on the INSERT being no upsert) and leaves
the operation reserved for good.  The same is documented in the code for a death
between reservation and copy.  Restoring the source, which the model leaves out,
forgets reservations, and an overlapping command then copies again.  A command that
was completed is refused when it is repeated after a copy was edited in its target.

Replay.  A push that fails is passed by the time cursor and only counted in the
answer; `NothingSkipped` takes that as having been said.  The header of
`rbook-db-backfill.ts` (line 13) says that `force` replays everything; the code resumes
from the cursor.

Registry.  Two copies of a store that register at once each find no live incumbent,
and the second takes the row of the first, against `project-graph-registry.ts:366`;
`SettledIsKept` therefore speaks of rows that were live when the call began.  A
prune archives by id what it listed by path (`:598`), so a store that registers at its new
place in between is archived until its next write; an init drops the row of the
project that was at its folder even if that project has registered elsewhere since
it looked (`rbook-project-init.ts:1067`).  A death between the two statements of
`unregisterStore` leaves the default on a project that is gone; it applies again when
the project registers again.  An init that finds no id writes its own over one that
was stored since (`rbook-project-init.ts:755-758`); `RowsAgree` is about the folders
where that has not happened, and says that registry and stores part in no other
way.  A call that unregisters the default clears what
another process chose in between (`:738`); `ChoiceStands` speaks of choices that no
other change of the default overlapped.

Hazards outside all modules: a process that dies between the commit of a write and
its mark in the registry leaves a write that no debt covers until the next one
(`index.ts:500`, `DropMark` models it, nothing repairs it); block, unblock and defer
write back all of `domain_fields` from an earlier read (`rbook-mission-block.ts:239`);
the inferred sprint of a new mission may close before the mission is inserted
(`rbook-mission-add.ts:278`).

## What is proved

The `_proofs` modules hold theorems for every value of the constants that meets the
assumptions named in the modules (durations are naturals and the lease is positive,
NULL is no number, timers are not closes, `Added`, `Written`, `Inbound` and `InboundMission` are
statuses, values and clocks have their types, `None` is none of the values it stands beside).

* **UploadLease_proofs.**  `LeaseInvariant` is inductive.  Its core is `OwnerKnows`:
  the attempt whose token is in the row has a generation that is not ahead of the
  row; each mark of a later generation is dated by `firstAfterClaimAt`; each mark up
  to its generation is in its snapshot, or in what its replay was to send, once it has
  read the store; and a success means that this was delivered, or answered for by a
  replay that left something out (`vouched`).  `TokensAreFresh` says that only the latest
  claim can be an owner.  Neither the debt property nor the type invariant implies
  this, and without it `FinishUpload` could clear a mark that no attempt has read.
  From the invariant follow `DebtDatesFromOldestUnpaidMark`, `DebtColumnsAgree`,
  `BackoffClearedOnlyByClose` (a timer that owns the lease found no backoff, and
  nobody else can set one while it does), `OnlyLatestClaimCommits`, and the
  refinement `LeaseImplementsDebt`: the initial states map to those of `UploadDebt`,
  a mark to `Record`, a delivery or the end of a replay to `Receive` or a stutter, a successful finish to
  `Settle`, unregister to `Forget`, and everything else to a stutter.
* **MissionSprint_proofs.**  `Typed` (types and `CallsKnow`: what a call holds was
  legal in the rows it read) is inductive.  `SingleCurrentSprint` needs no more than
  that the writes that open a sprint demote the others in the same transaction, or,
  for the start of a mission, look for them in it.  It assumes `NoInboundOpen`, that
  no other machine sends an open status, without which it fails (see above).
  `DemotionHasASuccessor`, `TransitionsAreLegal` and `ClosePointsAtTheOpenSprint` are
  properties of steps, each proved by listing the actions that write the column.
  Three promises of the documentation fail when calls overlap ("What the passing runs
  exclude"); the theorems ending in `OneAtATime` show that, beside what is pulled,
  overlapping is what breaks them.  `TerminalIsFinal` and `MovesNeedLiveDestination` hold
  in every step where a call starts only after the one before it has returned or died,
  the former as long as no mission status is pulled: what a call has read is
  still so when it writes (`Fresh`).  `TrackingInStep` holds there if calls do not
  fail half-way either, no request sets the status "active" (lower case), and no sprint
  status is pulled; by `InStep` the pointer is right unless the one call is
  on its way to it, and what that call is about to persist is right.
  At the end the module instantiates `NextStepLease`, which is about the same sprints
  with their end dates.  `DropsFollowRealCloses` needs `LeaseInv`: where a close wrote
  the end date of a completed sprint, the date is not after that close, or a repair is
  to come that will make it so (`Dated`); the recorded event of a close is not after the
  close that wrote the date (`Recorded`), so that no repair, also one that failed before
  or in part, dates a sprint later than it was closed; and a call that will close a sprint
  carries a date that has passed (`Informed`).  Then each row that the survey of a close
  with a finished repair counts is a sprint that was closed after the step's last carry,
  and the close's own sprint, still open, is none of them.
* **CollabSync_proofs.**  `Typed` adds to the types that a call has a value and a
  stamp where it will write them, and that its page lies within the log: this is what
  keeps NULL out of rows and events.  Three more theorems are proved under
  `OneProcess` (calls on a store do not overlap), and each assumes besides what
  cannot be left out: "What the passing runs exclude" has the counterexample for each
  of the assumptions.
  - `GuardKnowsTheBroker`: `Sent` follows the recorded edit of a store whose calls do
    not fail through the push.  It is at the broker (`Logged`), or a call is sending it;
    a page or a lost conflict puts only values of the log there.  Other stores may fail,
    and be cloned late.
  - `LastEditSurvives` (`GuardSeesAll`: where the change guard is in use, every write is
    propagated): `EditKept` says that a store at which no call works on an edit of its
    own has recorded an ordering that is not older than its last edit and, under the
    guard, the value that stands in its row (`Stands`), and which part of that each
    point of a push keeps (`Traced`).  It speaks of stores whose requests do not fail;
    the other stores may fail, and any store may be cloned late.
  - `StoresConverge` (every edit is sent, `DistinctStamps`: no two clocks ever show the
    same time, and `ClonesOfOneEditor`: a store is cloned late only beside a single
    other one): events are ordered by their time and then by
    their place in the log, and `incomingWins` decides as that order does, since
    equal times are of one store and its counters increase (`Numbered`).  `Led`: the broker holds
    the event that leads its log.  `Tracked`: a store whose edits are answered follows
    one event that leads all it has pulled (`Follows`), and so does what each call is
    about to write or settle (`Tracks`).  That the store follows some leader, and not the
    leader of what it pulled, is what makes it inductive: the event it follows may be in
    the log beyond its cursor.  A clone follows an event without knowing its ordering,
    so that any event of its next page wins; that is right because it has sent nothing
    yet, the log is all of one editor, and that editor's clock does not go back
    (`InTime`, `LogInOrder`).  Requests may fail and processes die anywhere.
* **Sessions_proofs.**  `Typed` adds to the types what a call has found where it is
  (`Fits`: a session, an item, a step that is still to extract).
  `UndisturbedStepsAreKept` needs `KeptAt`: an undisturbed next step is in the row, in
  what every call that will write from the captures has read of them, and, for every
  call that extracts, still to extract or a row already; the step property alone says
  nothing of the calls under way.  `KeptStep` reduces a step of one call to what that
  call holds afterwards.  `DecisionsAreRecordedOnce` needs `StepsLeft`: what is
  extracted outside a transaction are next steps, so a decision gets its row only
  where the look-up and the insert are one step.  `OneSessionPerProcess` and
  `OwnersSessionsAreLeftAlone` rest on `Own`: of two calls of a process one is at an
  await (`Alone`, the event loop); a call about to open a session has found none of its
  process's own (`Opening`), which stays true because nobody else opens one under
  that key; and a call that will write to a session was let through by its owner's key, or
  found it silent for twelve hours or its owner gone, which do not change while it is
  at work (`Granted`).  `Turn` says what a step does to the calls, `RowMoves` what it does
  to a session.  `StepsMaterializeOneAtATime` shows `StepMaterializes`, which overlapping
  calls break, where they do not overlap: every acknowledged next step is then an
  undisturbed one, since a capture writes to a session that is still as open as it
  found it (`FoundOpen`).
* **SpinOut_proofs.**  The inductive invariant is `IInv`: `Typed`; `Holding` (a process
  between taking and giving up a lock has it, and nobody else); `Claims` (ledger,
  reservations and pointers agree: a pointer's operation is marked, a reservation's
  operation planned the row); `Stages` (what an invocation checked still holds at its
  step, because it holds the lock of what it checked); `Copies` (each copy, also one
  in a backup, is where the operation that holds its row planned it); `Arrived` and
  `Answered` (a marked row, and one that was answered for, is in the file it was
  copied to).  `OneCopy` follows from `Copies`, since a row has one reservation and a
  plan has one id for it; `NothingLost`, `NoEditLost` and `WorkSurvives` from the rest.
* **Registry_proofs.**  `IInv` has three parts.  `Typed`: a call that works in a folder
  has its path and a store there, which nobody takes away before the call ends.
  `Chosen`: a choice that stands is in both entries, and a call that will clear the
  entries is removing what was chosen; `ChoiceStands` says nothing of the calls in
  the middle of a change, and they are what could break it.  `Agreement`: of the folders
  in their place where no id was written over another (`Clean`), what each call knows of
  its folder (`Knows`: the rows there are at most the one it found, until the store has
  an id; from then on its id is the store's), and that a folder has one row at most; and
  of all folders, that what was settled when a call began still names its store
  (`Settled`).  An init that overwrites an id takes its folder out of `Clean` for good, so
  that the rest need not know when inits overlap.  `SparedAgrees` reduces another call's
  step to what it leaves in the folder.  No theorem assumes anything of the calls.
* **Drafts_proofs.**  `Typed` adds to the types what a call under way has and that a hook
  at work on a message knows its class.  `RecordMatchesOutcome` needs `RecordInv`: a
  draft that nobody has answered, or that is only claimed, names no record (else a
  failed write could not release its claim), a claim is on a standing kind, and the
  record that a call will name exists.  Of constraints `OneRecordOrNone` states less, as
  the property does: a claim has one holder, a record that is named exists, and an
  approved draft has a record, a holder, or says that its record is unknown.  `RecordFrame` covers the steps that only answer
  open drafts.  Words rest on `SpokenInv`, proved where the harness does not kill stop
  hooks (`"stop" \notin Killable`): outside a stop hook the shown set is within what the
  last reply showed, and what a hook is about to bind was answered with the reply it
  holds.  From it follow `WordsAreTheOperators`, and `HeardBeforeRecorded` and
  `ReplacedByARevision` by the one action each is about.
* **EventReplay_proofs.**  `Typed` adds to the types that what a call will push is in
  its table and that ids anywhere are bounded, so that the counter of a store draws
  one that its table lacks.  `PulledIsHeld` rests on `HeldInv`: a call holds what is
  behind its page, and after the merge its page as well, unless it counted a failure;
  the position alone says nothing of the calls that will move it.  `NothingSkipped`
  and `Agree` are proved under `OneClock` (the clocks of all machines show one time,
  which moves from one record to the next).  Their invariant is `Dated`, that no record
  is ahead of the clock and no two records are of one time, and `Passed`:
  what the cursor passed is in the log, counted, or was made too late (`Handled`), and what
  a replay under way will pass is behind it, in its list, counted, or newer than all of
  the list, sprints included (`Listed`).  The last case is a record made or pulled while
  the replay runs, which its cursor must not pass.  The cursor itself may be ahead of the
  clock: sprints have any dates.  A record made then is in `behind`, and one that is not
  is `Beyond` every cursor, list and sprint of its store, which gives `NoTies`: a record
  and a sprint of one time, of which the cursor could pass the one with the other.

Every invariant and every action property of the passing runs is stated by a theorem,
and the constants of its run meet what the theorem assumes.  Only model-checked is
`DebtIsEventuallyPaid`, which is liveness and rests on fairness; `event_numbers` violates
its property.
Nothing here uses a RECURSIVE operator; a proof about the fold of a page over an
unbounded log would need induction over data, which is why `MergePage` is stated
with the event that stands.

## What is not modelled, and why

Per component in `PROJECT.json`; in short: text, wording and formatting; JSON
documents beyond the fields a guard reads; the dashboard and the broker beyond what
the client relies on; SQLite itself (a statement and an immediate transaction are
atomic and durable); snapshots and restore, where files are replaced under the
handles of other processes; one-time conversions.

## Plan

Done, in the order of importance: the upload debt (the component with the most
intricate concurrency, and a single row everybody shares), missions and sprints (the
program's central data and its one cross-row invariant), collaborative sync,
sessions and their captures, drafts, spin-outs, the replay of
records, the registry, the lease of next steps.

Next:

1. The identity half of a database restore, composed with `Registry`: what
   `rbook-db-restore.ts` puts back when the replacement fails.
2. `Drafts` with two conversations, and reminders.
