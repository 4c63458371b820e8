# A formal model of neoseq

neoseq is an outliner whose graphs are Loro documents. A graph lives in a
replica on each device (IndexedDB in the browser, SQLite natively) and,
optionally, on a synchronization server. The user interface shows what the
replica holds and writes to it through one serialized lane; the sync agent carries
updates between the replica and the server.

What can go wrong, and what a unit test hardly reaches, is in the hand-overs:
an update imported before it is committed, a commit whose outcome is lost, a
checkpoint that claims rows it does not contain, two tabs on one log, a frame of
an abandoned socket, input typed into a row that does not exist yet. This project
models those parts in TLA+, checks them with TLC on small instances, and proves
the server room, the browser's log, the lease, the sync agent, the editing of a block, the stored
account and the graph library with TLAPS for all instances.

Source paths are relative to the repository root (`src/` in `PROJECT.json`);
`A` is `apps/client/src`.

## 1. Inventory

| Part | Source | State it keeps | Operations that change it | Modelled in |
|---|---|---|---|---|
| Server graph store | `crates/neoseq-server/src/store.rs`, `migrations/` | graph row, checkpoint and its predecessor, Tail, receipts, memberships | `commit_update`, `compact_checkpoint`, grant, revoke, create, delete | `ServerRoom` |
| Server room | `crates/neoseq-server/src/room.rs`, `crates/graph-core/src/server_graph.rs` | registry of rooms, each a document, a cursor, counters and sessions under a mutex | open, `submit_update`, `restore`, `evict`, `recheck`, `revoke_graph`, presence | `ServerRoom` |
| Server sessions | `crates/neoseq-server/src/web.rs` | a task and a bounded outbound queue per WebSocket | `run_session`, graph and membership endpoints | `ServerRoom` |
| Browser storage | `A/persistence.ts` | checkpoints, Tail, outbox, metadata, quarantine | append, checkpoint, repair, acknowledge, adopt a server Base | `LocalLog` |
| Graph Worker | `A/graph-worker.ts` | the core document, applied sequence, pending write, frame in flight | open and recover, execute, import, compact, frames | `LocalLog` |
| Graph session | `A/core-port/session.ts`, `unsaved.ts` | the tab's role, its lane, announcements, unsaved input | open, reload, take over, close, commands | `LocalLog`, `BlockContent`, `OutlinePending` |
| Tab lease | `A/core-port/lease.ts` | a lease per graph and tab, claims on a channel | acquire, take turns, claim, object, release | `LeaseElection` |
| Sync agent | `A/features/sync/SyncAgent.ts` | sockets, deadlines, backoff, pause, outgoing runs | connect, Welcome, download, send, acknowledge, abandon, resume | `SyncAgent` |
| Remote account | `A/features/sync/auth.ts`, `api.ts`, `RemoteMembersDialog.tsx` | stored tokens, revocations that wait, the members shown | sign in and out, retry, validate, invite, remove | `ClientAuth` |
| Graph library | `A/features/repositories`, `A/features/graphs`, `A/core-port/directory.ts` | directory entries, replicas, accounts, catalogs | open, create, import, export, rename, delete, connect, forget | `GraphLibrary` |
| Graph core | `crates/graph-core/src/core*` | outline, pages, tags, properties, undo | commands | the outline commands: `OutlineTree`, `OutlinePending` |
| Block content | `A/features/blocks/editor/content-*.ts` | draft buffer, submission in flight, kept record | type, submit, rebase, compose, complete, hide, restore | `BlockContent` |
| Block text input | `A/features/blocks/editor` (`BlockTextArea.tsx`, `auto-pair.ts`, `vim/engine.ts`) | text area, pairs, composition, Vim state | keys, input events, repairs | `BlockInput`, `VimEngine` |
| Outline | `A/features/outline` | pending rows, buffers, selection, drag | create, join, split, move, adopt, abandon, select, drop | `OutlinePending`, `OutlineSelection`, `OutlineTree` |
| Query surfaces | `A/features/query` | plans, views, answers, sorts, open cell | shape, save, answer, sort, edit a cell | `QueryPanel`, `QueryOrdering`, `QueryEdit` |
| Pickers | `A/features/properties`, `A/features/tags` | staged edits and captured values | choose, dismiss, set a moment, tag | `PropertyEditors` |
| Tag directory | `A/features/tags`, `A/entities` | groups, order numbers, favourites, titles | drag, nudge, file, rename, delete | `TagDirectory`, `Ordering` |
| Server accounts, native runtime, archive, query engine, domain types, bindings, appliance, shell | see `PROJECT.json` | | | not modelled |

How they meet. A command goes from the interface through the session's lane to
the Worker, which applies it to the core and appends a Tail row and an outbox
record in one transaction; the published document comes back and every editor
rebases its drafts on it. The agent asks the Worker for a frame (the oldest
outbox records), sends it, and passes the acknowledgement back. On the server the
session's handler authorizes, locks the room, imports the update into the room's
document, commits a row, acknowledges, broadcasts to the other sessions and
perhaps compacts, all under the room's mutex. Other tabs of the same browser
follow the lease holder by announcements and reload from storage.

What is hard about it, and what must hold nevertheless:

* the room imports before it commits and cannot retract, so every failure has to
  restore or discard it before anybody reads it (`RoomMirrorsStore`);
* the outcome of a COMMIT may be lost (`OneCursorPerIdentity`, `LearnedIsDurable`);
* membership is read before the lock, and changes are never pushed
  (`OnlyWritersCommit`, `StaleSessionLeaves`);
* rooms are evicted, reconstructed and deleted by several tasks at once
  (`SingleLiveRoom`, `DeletedRoomIsClosed`);
* recovery on the client reads in several transactions and writes while it
  recovers, next to another tab (`SavedIsRecoverable`, `HolderIsCurrent`);
* acknowledgements arrive late, twice, or after newer records joined the outbox
  (`UnsentIsQueued`, `DeliversInOrder`);
* frames, Welcomes and downloads of an abandoned socket still land (`NoGap`);
* tabs elect a writer with messages that cross (`OneWriter`);
* publications, refusals and discarded pages meet input that is newer than the text it was typed over
  (`InputSurvives`, `RowsKeepInput`, `InputIsDrained`).

`PROJECT.json` lists these as hazards, at their lines, with the properties that
would catch them.

## 2. Modules

A module per component holds its constants, state, actions and properties; actions carry
the name of the function, handler or control they model where the source gives
one. `MCServerRoom`, `MCLocalLog`, `MCSyncAgent` and `MCBlockContent` give the
constants of one component their values. `MCTabs`, `MCViews` and
`MCEditing` each hold several small components side by side: the
variable `component` says which of them a behaviour is of, each takes its own steps,
and a property of the sum is the conjunction of that component's properties.

Documents are abstracted to what the code tells apart. For the server, the log and
the agent a document is the set of updates it has imported: Loro's merge
is commutative and idempotent, and nothing there looks inside an update except
for its identity, its causal dependencies and whether it is valid. For the editors a text is a set or a
sequence of tokens, each typed once, so that a token that is lost, doubled or moved can be told.

Definitions that begin with a real definition's name and end in a mistake
(`IsDuplicateInReceipts`, `CoversFlight`, `revokeTakingAnyAnswer`) are variants. The specifications
never use them: each is put in the real one's place to see that a property notices.

**ServerRoom.** A handler is split where the code awaits, and only there.
`handler[s].step` is the program counter of a session's task; `lock[r]` is the
room's mutex, held between the steps of `submit_update`.

| Code | Model |
|---|---|
| `open_with_base_status`, `room_for`, `load_graph`, `load_room` | `OpenSession`, `LoadCheckpoint`, `LoadTail`, `LoadFails`, `Welcome`, `WelcomeRefused` |
| `submit_update` up to the commit | `SubmitUpdate` (before the lock), `SubmitRefused`, `AdmitUpdate` |
| `restore` | `RestoreRoom`, `RestoreFails` |
| `PgStore::commit_update` | `CommitInsert`, `CommitDuplicate`, `CommitFails` (the row absent, present, or still to come), `LateCommitLands` |
| reply, broadcast | `ReplyInserted`, `ReplyDuplicate`, `ReplyToSlowAuthor` |
| `compact_checkpoint` | `CompactCheckpoint`, `CompactionDeferred` |
| `evict`, `recheck`, `disconnect`, presence, the send half of `run_session` | `Evict`, `RecheckMembership`, `Disconnect`, `RelayPresence`, `SendOutbound` |
| membership and life of the graph, end of the process | `GrantMembership`, `RevokeMembership`, `DeleteGraph`, `RevokeTake`, `RevokeClose`, `CreateGraph`, `Crash` |

`LateCommit` lets a transaction whose connection was lost commit after its error
was reported; `Recreate` lets the identifier of a deleted graph be created again.
Quotas appear as an error `commit_update` may return. `acked`, `view` and
`unbroadcast` are history: what clients learned.

**LocalLog.** Each IndexedDB transaction is a step. `tab[t].step` says where a
tab's lane stands; frames and acknowledgements run beside the lane. A new frame replaces
the one in flight, and any frame ever sent may be acknowledged, late or again. Web Locks make the
lease a mutual exclusion here; `LeaseElection` justifies it.

| Code | Model |
|---|---|
| `openGraph`, `recover`, `recoverIntact` | `ReadCheckpoints`, `RecoverIntact`, `SelectBase`, `CreateBase`, `ScanTail`, `OpenFails` |
| `repairCorruptTail`, `normalizeOutbox` | `RepairCorruptTail`, `NormalizeOutbox` |
| `execute`, `persistPending`, `retryPending` | `Execute`, `PersistPending`, `PersistFails`, `RetryPending` |
| `syncImport`, `syncReplace`, `maybeCompact`, `installCheckpoint` | `SyncImport`, `SyncReplace`, `MaybeCompact`, `CompactionSkipped`, `InstallCheckpoint` |
| `syncNextFrame`, `syncAck`, `acknowledge` | `ReadOutbox`, `SyncNextFrame`, `Covers`, `SyncAck`, `Acknowledge` |
| session and lease | `OpenTab`, `Reload`, `TakeOver`, `CloseTab` |

The server is a set of accepted updates, which is what `ServerRoom` promises of
it. `CrashTab`, `DamageUpdate` and `DamageCheckpoint` are the environment.

**SyncAgent** keeps one current socket and every socket it has abandoned, each with
what is on the wire both ways (`conn[c].up`, `down`), the frame being handled
(`rx`) and its state; Worker calls that were made and may still land (`calls`); and
the outgoing chain (`outgoing`, `run`). Incoming frames of a socket are handled one at a
time, runs of the outgoing chain one at a time, the two beside each other.
`UpdateDelivery` is the abstract specification it implements: `history`, the server's
updates of this replica and what left the outbox are mapped to `log`, `delivered`
and `retired`.

**LeaseElection** has one lease per tab and graph with its consumers in
line (`ask`), the browser's lock queue, and the claims and objections of the
BroadcastChannel election as messages in any order. The 300 ms window is the assumption
that a live tab's objection is delivered before the window closes.

**ClientAuth** has a stored token and a list of revocations per storage, the loop
of each tab's retry with what it read and what failed again, requests whose answers
may be lost, and the members dialog with its single request.

**GraphLibrary** has entries, replicas and accounts in shared storage, a picker per
tab with the requests it waits for, and sessions that open and close. What the code awaits
between two writes is two steps of a dialog or an import: a deletion removes the replica (`local`), then
the entry (`entry`); signing in asks for a credential (`ask`), stores it, asks for the graphs (`list`) and only then registers the
account, so that a failure of the second request leaves the credential; an import stores the replica (`install`), then writes the entry (`register`), and until then
it is in `Unregistered`; forgetting an account takes its replicas one at a time (`each`, `entry`). The id of an account is
random, so one that was forgotten does not come back (`past`).

**BlockContent** has the block in the core, on disk and as published, the buffer,
the submission in flight, the lane, a composition, a completion menu, a staged picker edit and
the record of a page that hides; `Races` lets the overlaps happen that its code does not guard (section 4). **OutlinePending** has the core's and the
published outline, operations not yet acknowledged under temporary ids and the
buffers of rows. **OutlineSelection** has rows, caret, selection, presses and
drags. **BlockInput** puts `VimEngine` and the pair rules under a text area with
compositions. **QueryPanel**, **QueryOrdering**, **QueryEdit**, **PropertyEditors**
and **TagDirectory** have a surface that captured what it shows, a lane of commands,
and what is stored.

## 3. Runs

| Run | Instance | What it asks |
|---|---|---|
| `server_commit` | 2 sessions of one account, 3 updates (`b` needs `a`, `x` malformed), 2 rooms, 3 rows, compaction after each update, 1 receipt, queues of 1, presence | Everything a client learned is durable; the room equals the store between handlers; both checkpoints reconstruct; one live room; broadcasts complete; one cursor for each retained identity |
| `server_membership` | owner and guest, 1 update, 2 membership versions, 1 deletion with re-creation, late commits | Only writers commit; a deletion closes every room |
| `server_liveness` | owner and guest, 2 updates (1 malformed), 1 room, compaction after each update, 3 membership versions, 1 deletion, fair | Stale sessions leave; every submission ends |
| `server_late_commit` | 2 sessions, late commits | Violates `LearnedIsDurable` (finding 1) |
| `local_log` | 1 tab, 2 local updates, 1 foreign, 3 rows, 2 damaged checkpoints | Saved is recoverable, the outbox keeps its payloads, nothing unsent is dropped, no position is used twice |
| `local_tabs` | 2 tabs, 2 local updates, 1 damaged row | The holder is current after every take-over; sequences are never reused |
| `local_reader` | 2 tabs | Violates `SavedIsRecoverable` (finding 2) |
| `sync` | 2 local updates, 1 foreign, 2 sockets, 1 fault, fair | Refines `UpdateDelivery`; no gap behind a Welcome; "synced" is true; what is saved is delivered |
| `editor` | a block of 1 token, 1 typed, 1 foreign, 2 deletions, 1 closed page, 1 fault, 2 of these together | No input lost, doubled or written to a redirected deletion; a quiet editor is current; input settles |
| `editing` | outlines of 3 rows, 2 structural keys, 2 operations (3 in a burst of typing, `MaxBurst`); pickers, cells and text areas with 4 to 5 gestures | Rows keep input and land in place; choices are written; cells are drained; what was typed stays; word motions land |
| `views` | outlines of 2 to 5 rows; panels, orders and directories with 1 to 3 gestures and 0 to 1 events; the account in 2 tabs with 2 tokens, 1 member, 5 gestures, 2 faults | One target; plans land in their view; settled answers are current and lawfully ordered; moved tags land; no revocation forgotten and no dialog stale |
| `tabs` | 3 tabs on the lease, 3 to 4 acquisitions, 3 claims; 2 tabs on the library, 2 repositories | One writer; the library is current |

Why these bounds suffice for the interesting cases. Two sessions on two rooms
let one evict a room while the other loads its successor. Compaction
after one update and three rows give two successive compactions with a row left,
which is when a predecessor checkpoint and a receipt are first dropped; one
receipt makes the cap bite: the retry of an update forgotten gets a new cursor, while a
retained one is answered with its own. `server_liveness` needs one room only, since
each has a mutex of its own; a malformed update takes it through `restore`, and a deletion through a
restore that fails and a room that is closed. Queues of length one make "full" and "not full" one
message apart. Membership versions allow a grant and then a demotion or
revocation under a submission under way. On the client two local updates and one foreign give
two records in one frame with a record joining later, and an import between; three
rows let the older of two checkpoints advance twice, and rows are first
deleted when it does. Two sockets are a current and an abandoned one. In the editors each bound
allows the gesture, one command behind it and one disturbance in every order; every
property is violated within them by a small mistake put in the code's place (the mutants of
`PROJECT.json`).

Bounds: every constant named `Max...`, `Asks`, `Claims`, the `acts`, `events`,
`fails` of an opened surface. Each only stops an action from being taken once
more. Symmetry is used over rooms, sessions that share an account, tabs, and updates of one
origin, never in a run with a liveness property.

Deadlock is checked in `server_commit` and `server_late_commit`. Elsewhere it is not: a deleted graph with
every client gone, a log or surface whose bounds are used up, really may stop.

Fairness. `server_liveness`: Tokio polls every ready task and a store call returns
or times out, so weak fairness of `HandlerStep`; `tokio::sync::Mutex` hands itself over in
order, so a waiter gets it although others take it in between: strong
fairness of `LockedStep`, `RecheckMembership` (the interval timer of
`run_session`) and `RevokeClose`. `sync`: the event loop runs every promise and
timer and the browser reports being online again; the server answers what it
reads. `editor`: the debounce timer fires and the Worker answers what is in its lane. Nothing is
assumed of users, clients or faults.

## 4. Proofs

The theorems hold for every value of the constants, so for any number of rooms,
sessions, tabs, updates, rows and versions, and without the bounds of the runs.
They assume of the constants what the modules' named assumptions say
(`UpdateAssumption`, `IdentityAssumption`, `LimitAssumption`, `FaultAssumption`, ...): limits are
natural numbers, an update's dependencies are updates, sets are finite where the code counts
them. TLC evaluates these assumptions in every run. Each inductive
invariant was checked by TLC on the instance of a run before it was proved.

| Module | Theorems | Further hypotheses |
|---|---|---|
| `ServerRoomProofs` | `TypeCorrect`, `IdentityCorrect` | none |
| | `SingleLiveCorrect`, `DeletedClosedCorrect` | `~Recreate` |
| | `LearnedCorrect`, `FallbackCorrect`, `ReconstructsCorrect`, `MirrorsCorrect`, `BroadcastCorrect` | `~Recreate`, `~LateCommit` |
| | `OnlyWritersCorrect` | none |
| `LocalLogProofs` | `LogTypeCorrect`, `PinnedCorrect`, `PositionsCorrect`, `RecoverableCorrect`, `CurrentCorrect` | rows undamaged, only the holder writes in recovery |
| | `UnsentCorrect`, `FreshCorrect` | none |
| | `SingleTabCorrect` | one tab |
| `LeaseElectionProofs` | `OneWriterCorrect` | none |
| `SyncAgentProofs` | `TypesCorrect`, `SyncedCorrect`, `DeliveryCorrect` (the refinement of `UpdateDelivery`), `GapCorrect` | none |
| `BlockContentProofs` | `ControlHolds`, `QuietCurrent`, `OnlyDeleted`, `InputIsSafe` | `~Races` |
| `BlockOnceProofs` | `OnceOnly` | `~Races` |
| `ClientAuthProofs` | `RevocationCorrect`, `MembersCorrect`, `AccountCorrect` | none |
| `GraphLibraryProofs` | `LibraryCorrect`, `TypesCorrect` | `Kept` |

**Server room.** Three layers, each inductive given the one before.

1. *Types and store.* Rows, receipts and cursors are well formed; receipts and rows together name each
   *retained* identity at most once (an older receipt is dropped, and its update may be inserted again). `OneCursorPerIdentity` follows, and `OnlyWritersCommit`
   because the role a commit checks is the one in the row it locks.
2. *The registry* (`RegInv`: `LoaderInv`, `LockInv`, `EvictInv`, `SlotInv`, `CloseInv`). A room
   that serves, or whose lock is held, is the one the registry has, unless
   somebody is on the way to close it; a loader owns the slot it is to fill. `SingleLiveRoom` and
   `DeletedRoomIsClosed` are conjuncts. The first is not inductive alone: an eviction
   decides under one lock and removes under another, and only `EvictInv` says
   that what it removes is still what it looked at. With re-creation this fails: after
   two deletions a delayed eviction may unregister a healthy successor. Hence `~Recreate`; the run
   `server_membership` explores re-creation with one deletion.
3. *Serving* (`ServeInv`). `Tables` says both checkpoints reconstruct the graph with the rows kept for
   them; `RoomDocs` and `HandlerDocs` say what a room's document holds at each step of
   a handler (the store's content, or that with the one update under the lock, or
   marked for restoration); `Seated`, `Learnt` and `Told` say that whatever a client was told is below the
   room's cursor. It needs that a reported failure is final (`~LateCommit`); finding
   1 shows that it is not true otherwise.

**Log.** `LogInv` is `TypeOK /\ Store /\ Sessions`. `Store` says of what is on disk: the first
checkpoint starts empty, checkpoints and rows are numbered without overlap, every
intact checkpoint with the rows after it restores the *same* log (`Agree`,
`Complete`, `Replayable`), an outbox record's row is kept, and local updates form a
chain in which each was made over its predecessors (`Made`, `Chained`). `Sessions` says of
each tab's step what it has read and may still rely on, and that the holder's
document is the log and at most its one unsaved update. The hypotheses are that rows are not
damaged (checkpoints may be) and that a tab without the lease does not reach the
writes of recovery. Finding 2 shows that the second is
needed: the code does not ensure it. They hold in the run `local_log`; in `local_tabs` rows are damaged too
and `HolderIsCurrent` is checked there for that case, which no theorem covers. `SingleTabCorrect` discharges the second hypothesis when
there is one tab.

**Lease.** `LeaseInv` is `Typed /\ LineInv /\ LockInv`. `LineInv` counts the acquisitions of a lease
(`consumers` is their number) and gives each a place of its own, so that a writer has nobody before it who still
writes. `LockInv` says that the browser's locks and the election do not mix, and of the election that whenever a
holder or a smaller claim stands against a claimant, the claim, the objection or the smaller
claim is still on its way: the reason why a window that closes without an objection means that there is no
holder.

**Sync agent.** `Typed` says that a run of the outgoing chain under way has its request on
the wire or its answer still to handle. `SyncedInv` says that "synced" over a waiting update, or a
run that found nothing where an update now waits, has another run behind it in the chain. `DeliveryInv` says that the
server's updates and the retired ones are closed under "saved before", and that every frame
and every acknowledgement in transit, on any socket, keeps them so; with it every step is one of
`Record`, `Deliver`, `Retire` or a stutter of `UpdateDelivery`, which is the refinement's step theorem
(`Traffic` is the lemma that carries messages from one socket to the next). `GapInv` is
`Settled`, `Orderly` of every socket, and `Shaped /\ Gapless` of the current one: once the server has joined a session and the replica was greeted,
either a download is still to come, or what the replica lacks of the server's
updates is in frames on their way. It needs `DeliveryInv`, because the device's own updates never come back to it.

**Account.** `AuthInv` says that every token anybody knows was issued, so that one the server
refuses is never accepted again; that a token a retry has read and the server
still accepts is in its rest or among those left; that a dialog that is not busy has
no request under way; and that a list on its way to the dialog is the graph's. `RevocationKept` is
that an accepted token a user signed out of is recorded, on its way to the server or being retried, unless a retry that had not read it
wrote its list over it (`overwritten`, see the observations); `MembersListed` is that an idle
dialog shows the server's members unless another tab changed them.

**Graph library.** `LibraryInv` has four parts. The *types*. `Steadies`, of each picker: the account it chose was registered, and is
shown or gone for good (`Chosen`); a step on a local graph belongs to a tab that shows the local graphs (`Steady`), so
that the list its write has to refresh is the one on the screen; a catalog holds graphs of its account only (`Sorted`); and a list that
is loading has read the entries there are now, unless an event is on its way (`Loading`). `Currents`: a list
at rest that was read, with no event on its way, holds the entries, and beyond them only graphs set apart. `Reachable`: a stored local graph has
an entry unless its import is about to write one, a stored graph of an account has the account; a tab that forgets an
account still has to delete every replica of it, and a deletion that has come to the entry has left no replica; who connects
has an id that was registered, or one of its own (`Joins`, `Alone`), so that connecting never brings back an account a tab chose and lost. `CatalogIsCurrent` is not inductive
without `Loading`, since the list is read in two steps (the entries, then the replicas) between which other tabs write, and
`ReplicaHasItsAccount` is not without the last two of `Reachable`. A write is followed to the other
tabs by one lemma (what `announce` does to every picker) and every action is a short chain of such lemmas. `Kept` says of the starting
libraries what the code leaves behind: a stored local graph has its entry, and a stored graph of an account has that account. TLC
evaluates it for the run `tabs` (`LibraryKept`).

**Block content.** Four layers.

1. *Control* (`Control`) says who may move what while something is under way. `Pending`: a submission at
   the Worker is the running job, on the text it was written against. `InTurn` and `StagedAlone`: an edit lowered before
   its turn meets the text it was lowered against. `Succession`: at most one job recovers
   a draft, and only from a block that does not come back. `Removal`, `Current`, `Composing`, `Based` and `Resumed` are what
   these need of the undo, the publication, the composition, the draft and a restored page. `QuietIsCurrent` follows
   from `Based` and `Current`.
2. *Text* (`TextInv`) says what atoms may be missing where. `DeletedOnly`: whatever a draft, a submission or an
   early edit leaves out of its source was deleted. `KeptCovers`: the same of a closed page's record and of each text it may be put back
   onto. `Ledger` and `Landing`: every text the graph ever had is still there or given up. `OnlyDeletedIsGone` is not inductive without the
   first two, because a save trusts the draft, and a restored page trusts the record.
3. *Safety* (`Safe`, `TypedLive`) says where each atom still is. `Sourced`: what a draft only takes over from its
   source is in the graph or in the submission, so that a draft may be dropped when it is clean. `Recovering`: a recovery and the draft it
   stands for hold the same. `Recorded`: while the page is hidden its record has what only its drafts have. Every step carries
   every live atom (`Carries`), and typing adds the one it counts. Live is what is neither given up nor in a record that was forgotten because it
no longer applied (`page.dropped`). `InputSurvives` follows.
4. *Once* (`Tally`, `Unique`) says why nothing is written a second time. `Once`: the action waits in the lane, is at the Worker,
   waits for a retry or is over, one of these. `Sound`: what a draft adds to its source was typed, never landed, and is in no
   record that waits to be put back; `Apart`: nor in an edit lowered early, so that a draft rebased onto any text that lands adds its
   own once more only if that text lacks it. `Numbered` and `Fresh`: what is typed here and what another replica
   writes are never the same. `NothingTwice` follows. It is far from inductive alone: a text without repetitions and a draft
   without repetitions give one with repetitions as soon as they share an atom the draft calls its own.

`~Races` is the one hypothesis, and the run `editor` makes it too: an edit lowered early (a picker's staged splice, a Vim word motion) meets no
other change and no fault; the user's own removal of the block does not fail; no completion ends during a composition, which starts
neither over another one nor behind a submission that waits; a page is not hidden while a restore waits. The code does not exclude these, and each
may lose or misplace input; see the observations.

Only model-checked:

* liveness (`StaleSessionLeaves`, `SubmissionsFinish`, `SavedIsDelivered`, `InputSettles`): fairness
  and `ENABLED` are out of this prover's reach;
* the properties of `MCEditing`, and those of `MCViews` but for `AccountKept`: they rest on what recursive functions of a
  row list or a plan compute, or on the projection of a whole surface;
* `HolderIsCurrent` with a damaged row, `SingleLiveRoom` with re-creation;
* what recursive definitions compute, since induction over data would need theorems with an operator parameter.

## 5. Findings

1. `server_late_commit`. The COMMIT of `commit_update` can land after its error was reported, and
   after another session rebuilt the room without the row. In the run the row lands at cursor 1; the rebuilt
   room commits another update at cursor 2 and compacts its own document through 2, which deletes the row of an
   update the document lacks. The retry is then a duplicate by its receipt, and is acknowledged by
   a room that imported the operations on admission only: the client is told that an update is durable which neither
   checkpoint nor Tail can reconstruct
   (`room.rs:433`; `architectures/server.md:145` and `tests/sync_faults.rs:114` say otherwise).
2. `local_reader`. A tab without the lease recovers as the holder does, and writes while it does
   (`graph-worker.ts:339`): a first checkpoint for a log it read as empty, or a repair of rows that no longer follow the
   checkpoint it had read. When the holder has adopted the server's Base in between, the empty checkpoint replaces it, and what was
   saved is gone (`architectures/clients.md:122` and `graph-worker.ts:671` say that only the holder writes).

## 6. Observations

Behaviour met while modelling that no run states as a violation, because nothing in the repository
promises otherwise, because it is outside the abstraction, or because it is a matter of
taste. "Excluded" means that the model marks the situation and its property is not asked of it.

*Server.* After a deletion and re-creation the old room may commit a row whose dependencies are
gone (`room.rs:646`). An author whose queue is full leaves before its own update is
broadcast. A checkpoint that fails validation still counts as one of the two
retained. Rooms without sessions stay registered.

*Log and agent.* `repairCorruptTail` (`persistence.ts:651`, `687`) may leave outbox records whose payload
is in quarantine; later opens then fail with `storage_corrupt`. A second Hello racing the
first pauses the agent with "history". A member whom the recheck drops is told `access_denied`
and never resumes (`SyncAgent.ts:563`). The lease assumes prompt delivery of objections (`answered`): without
it TLC finds two holders. A browser without Web Locks and without `BroadcastChannel` gives every tab the lease at once
(`lease.ts:95-97`); there the tabs cannot know of each other, and that branch is not modelled. A session that joins a lease a waiting directory operation
created fails with its timeout instead of opening read-only.

*Account and library.* `retryRevocations` writes back the list it read, over a revocation
appended meanwhile; a 401 in the dialog or a validation clears a newer credential; a
token the server no longer accepts is retried for ever. A rename may write an entry for a deleted graph; a failed connection
leaves its credential (modelled; no property is about it); a navigation after an import may come after the reader left. A graph opened or imported while its account is being
forgotten stays as a replica without an account (excluded, `raced`): `ForgetRepositoryDialog` lists the replicas once
(`GraphPicker.tsx:889`). An import cut off between storing and registering leaves a local replica without an entry
(`directory.ts:388`): it is listed, but its deletion is announced to no other tab (excluded, `raced`). A list of local graphs that
loads while the reader leaves it for an account misses an event that comes then (excluded, `missed`).

*Editors.* `PropertyPicker` splices `commandPrefix` by index. When the row goes away under the picker, the staged
splice is dropped without a notice (`PropertyPicker.tsx:131`; excluded, `dropped`). Closing and choosing do not wait for the
request of a new page, so that a second command may splice the same token again, although a comment says that a dismissal cannot submit again
(`PropertyPicker.tsx:283`; excluded, `twice`). A kept record whose block is gone, or whose bases no longer agree with it,
is forgotten before it is looked at, and `resumeContent` returns nothing: the text is lost and nobody is told
(`session.ts:690-708`), although `architectures/clients.md:204` says that input is not lost silently. Its text is counted apart
(`page.dropped`), neither as safe nor as told. A composition or a completion during a queued
submission lowers against a stale source. When the user's own removal of a block is not published and is then undone, `recover` (`content-session.ts:275`) clears a draft
whose block is back, with what was typed after it was read. A page hidden while a restore waits overwrites the kept record. Enter, a
token, Enter, Backspace before the first row is acknowledged loses the token: the join of the second row into the first
clears the buffer the token was in
(`draft-state.ts:181`; the run `editing` gets there, excluded, `dropped`); a refused join shows text twice (excluded, `diverged`). `acceptPage` has no guard against temporary ids;
after a removal the fallback may focus a removed block.

*Text area and Vim.* `wordEnd` with a count skips a word of one character; `lineStart` at 0 with a leading
line break stays; `normalCaretAfterEdit` clamps at the end only; a pair's closer that is composed
and withdrawn loses its marker; a repair after the lease is lost does not look at `readOnly`.

*Selection.* A press that retires a range drag under way never ends it (excluded); anchors are positions; a bullet drag may
select deleted blocks again; a right click outside Visual Line leaves an empty selection.

*Queries and pickers.* A flush that waits for a cell editor writes an older plan over a newer one (excluded,
`raced`); saving a view writes the whole presentation; a failed save is not tried again. Escape in a
cell leaves a dirty buffer. "Ranked, missing below", descending, is cyclic on lists of several values, and numbers beside
terms that are none are not ordered transitively (excluded). `TaskMomentPicker` writes the time or date it captured.

*Tags.* A title typed back to the stored one while a rename is in flight is lost (excluded, `quit`); a
drag captures its group when it starts; `nextTagOrder` may renumber a whole group, and a group numbered anew may change the order of the
groups.

## 7. Not modelled

`PROJECT.json` gives a reason for each component. In short: server accounts, bootstrap and
metrics, the appliance and the dashboard (I/O and configuration); the native runtime and its
SQLite repository (the same log protocol with one process, without tabs and leases); the bindings; the
query engine, domain types and the archive (pure functions on values); the shell and remaining
views (layout and navigation). Within modelled components these are left out: the
CBOR codec, the arithmetic of quotas, `max_rooms` with several graphs, the migration of old outboxes,
import of an archive into a log, presence contents, heartbeats, undo and redo that wait, history's
reveal, the closing of a tab in `ClientAuth`.

## 8. Further work

1. Lemmas on the comparators of `QueryOrdering` and on moves in `OutlineTree` and `Ordering`.
2. `InputIsDrained` for query cells.
3. The log with damaged rows under one tab.
