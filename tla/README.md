# Filament DB in TLA+

Filament DB keeps an inventory of 3D-printing filaments and their spools. It is
a Next.js application on MongoDB, an Electron shell that can run it against an
embedded database, against a remote (Atlas) one, or against both ("hybrid", with
a sync service between them), and a mobile companion. This directory holds a
TLA+ model of the parts of it where several actors touch the same state: the
sync service, the requests that keep template families and spool weights in
order, the NFC service, the desktop's processes and the mobile app's offline
queue. Paths below are relative to the repository (`src/` is the web
application, `electron/` the shell, `packages/mobile/` the companion).

Contents:

1. Inventory of the system
2. Modules and how they correspond to the code
3. Runs, bounds and what they show
4. Fairness
5. Proofs
6. Disagreements between the code and what is said of it
7. Abstractions, and what is not modelled
8. Plan

## 1. Inventory

Every part is listed in `PROJECT.json` under `components`, with its files, and
every known hazard under `hazards`, with its line. "Modelled in" says where the
part is now, in brackets where it is planned.

| Part | State | Operations | What is hard | What makes it correct | Modelled in |
|---|---|---|---|---|---|
| Hybrid sync: row loop (`electron/sync-service.ts`, `syncCollection`) | two databases, per pass the slim reads and the source document of the row under work | zombie repair, slim reads, decision per row, hydrate, insert / replaceOne / flag `$set` | decides from old reads, writes by `_id`; other services and the application write meanwhile; no transactions | the pair agrees on every row nobody disturbed; equal timestamps mean equal bodies; databases converge to the latest write | `SyncRows`, `Register` |
| Hybrid sync: references (`sync`, `repairDanglingSpoolLocations`, `repairFilamentParentIds`) | syncId maps, snapshot of timestamps, results per collection, `aborted` | collections in dependency order, transform of references, two repairs | ids differ per database; a collection fails, the cycle is aborted; variants copied before parents; writes meanwhile | references resolve; none is lost to a failure | `SyncRefs` |
| Hybrid sync: service lifecycle (`SyncService`, `electron/main.ts`) | `syncing`, `aborted`, interval, status, listeners | start/stop periodic sync, destroy, reconnect, mode switch, status events | a destroyed service still running beside its successor; a cycle outlasting its interval | one cycle per service; status ends in a final state; abandoned databases are not written after the running collection | creation, cycles, destruction in `Desktop`; the overlap of two services on one pair in `SyncRows` (`LocalOf` is unrestricted); status events left out |
| Hybrid sync: names (`reconcileByName`, `renameStaging.ts`, `trimEntityNames.ts`) | names under a partial unique index, staging placeholders, quarantine list | pairing by name, trimming, staging a swap of names, sweeping placeholders | crash or second service between stage and final write; names changed meanwhile | no two records fused; every placeholder resolved or reported | `SyncNames`, without `reconcileByName` and the trim |
| Hybrid sync: legacy nozzle conditions (`attemptTransitClearPair`, queue in `_migrations`) | durable queue on both databases | enqueue, pair clear, replay, revalidate | a clear that succeeded on one side, replays after drift | the field is cleared on both or on neither; never against newer provenance | [LegacyTransit] |
| Hybrid sync: AMS slots, calibration and print history references | the same maps | transform, `repairPrinterAmsSlots` | filaments copied after printers | slots resolve | [SyncRefs, extended] |
| Template families (`createVariantGated.ts`, `promoteParent.ts`, `firstVariantGate.ts`, `[id]/route.ts`, `[id]/restore`, `[id]/promote`, `[id]/spools`, `iniImportApply.ts`) | filaments with parentId, tombstone, spools, promotion marker and token; printer slots; the process-local mutex | create, adopt, detach, paint, promote, trash, purge, restore, revive, addSpool, removeSpool | check-then-act under one key at a time; four-step promotion without transaction; failures and crashes in between | no inventory lost or doubled; templates hold none; one level of inheritance; no trashed parent; slots resolve | `Families` |
| Filament mutex (`filamentMutex.ts`) | a promise chain per key | `runExclusive` | two keys, failing sections | exclusion, no deadlock, progress after a failure | `Families` |
| Print jobs (`api/print-history`) | spools' weights and ledgers, history rows | debit, compensate, delete with refund, cap the ledger | several filaments, sequential saves with optimistic versions, compensation while others write | weights and ledger agree; a failed job leaves no debit, or says so | `PrintJobs` |
| AMS slots and spool assignment (`spoolSlots.ts`) | printers' slots | assign, clear | one slot per spool across printers, two updates | a spool is in at most one slot | one slot during promotions in `Families`; [SpoolSlots] |
| Nozzle assignment (`nozzlePrinterAssignment.ts`) | printers' installed nozzles | assign, conflicts | two updates | a nozzle in at most one printer | [Nozzles] |
| Deletion guards (`locationDeleteBlockers.ts`, `entityDependents.ts`) | locations, nozzles, printers, bed types | check dependents, delete | a reference arriving between check and delete | no dangling reference | [Guards] |
| Bulk imports (`importFilaments.ts`, `bambuStudioApply.ts`, `iniImportApply.ts`) | filaments by name | upsert per row, revive | rows changed between lookup and write | a row is applied once or reported | the revival in `Families`; [Imports] |
| Database connection (`mongodb.ts`) | cached connection, migration flags | connect, migrate once, retry after a failure | concurrent first requests, failing migrations | one connection; a failed migration is tried again | [DbConnect] |
| Mobile write queue (`packages/mobile/src/lib/writeQueue.ts`) | stored queue, in-flight head, generation | enqueue, trim at the cap, flush, clear on server change | killed between send and dequeue; lost answers | order kept per spool; nothing sent to another server; the queue drains | `WriteQueue` |
| Scan bus (`scanBus.ts`, `scanMatchHandler.ts`) | subscribers, last event | publish, subscribe, match | replies arriving out of order | latest scan wins | the matching in `Nfc`; [ScanBus] |
| NFC service (`electron/nfc-service.ts`) | reader, card, session lock | read, write, format, card events | card removed in a session, reader replaced | no write to another card or past a chip's memory; success is true; removal is seen | `Nfc` |
| Embedded MongoDB (`electron/local-mongo.ts`) | handle, shared start promise, `shuttingDown` | start, stop | stop during start | one server; none left after shutdown | `Desktop` |
| Desktop processes (`electron/main.ts`) | server process, restart count, timers, stored settings, `isQuitting` | boot, save settings, reset, crash restart, share on the network, quit | handlers overlap at every await; a process that dies or does not die; a slow look-up | one server on the configured database; no leftovers; every quit ends | `Desktop` |
| OPT tag renumbering and resync, snapshots, auto-updater, Electron shell, mobile app, label printing, codecs and slicer exports, inheritance and views, web interface | | | pure conversions, I/O, or presentation | | not planned, or low priority: see `PROJECT.json` |

How the parts interact: every request handler and every sync service works on
the same MongoDB collections, and little else connects them. There are no
transactions between documents (print jobs use one where the server has it). The
handlers of one server process share the filament mutex; a sync service, the
other desktops and another server process do not take it. The sync services of
two desktops meet only in the remote database. The Electron shell starts,
destroys and replaces the database, the server and the sync service; the
interface watches their events, and asks the NFC service through it. The mobile
app only sends HTTP requests.

## 2. Modules

| Module | Models | Lines of the code |
|---|---|---|
| `SyncRows` | the row loop of a sync pass, for any number of services and local databases around one remote, and the application writing all of them | `syncCollection`, `backfill` aside; `purgedZombies.ts` |
| `Register`, `SyncRegister` | the abstract specification of the row loop, a replicated register that keeps the last write; and the refinement mapping | |
| `SyncRowsProofs` | theorems about `SyncRows`, and that it implements `Register` | |
| `SyncRefs` | a whole sync cycle over two collections, with ids that differ per database | `sync` (order, maps, prerequisites), `buildFilamentRefsTransform`, both repairs |
| `SyncRefsProofs` | theorems about `SyncRefs` | |
| `SyncNames` | names under the unique index during a pass | `syncCollection` again: sweep, quarantine, `writeWithRenameStaging`, `settleStagedRenames`; `renameStaging.ts` |
| `SyncNamesProofs` | theorems about `SyncNames` | |
| `Families` | the requests on a template family | `createVariantGated.ts`, `promoteParent.ts` and the routes listed above |
| `FamiliesProofs` | theorems about `Families`: types, mutex and rules; where the spools are | |
| `PrintJobs` | grams in and out of spools | `api/print-history`, `spools/[spoolId]/usage`, `capUsageHistory.ts` |
| `PrintJobsProofs` | theorems about `PrintJobs`, and the laws of its sums and debits | |
| `Nfc` | the NFC service and its callers | `electron/nfc-service.ts`, the NFC handlers of `electron/main.ts`, `NfcProvider.tsx`, `scanMatchHandler.ts` |
| `NfcProofs` | theorems about `Nfc` | |
| `WriteQueue` | the mobile app's offline queue | `packages/mobile/src/lib/writeQueue.ts`, `serverConfig.tsx`, `api.ts` |
| `WriteQueueProofs` | theorems about `WriteQueue` | |
| `Desktop` | the desktop's processes | `electron/main.ts`, `electron/local-mongo.ts` |
| `DesktopProofs` | theorems about `Desktop` | |
| `MC...` | model values, plays, symmetry for TLC | |

Several modules have a constant `Plays`: a set of records that say which requests
are made, on what, and how much may go wrong. `Init` picks one. A play is the part
of the environment that a run lets loose; the actions of the code never read
anything of it but budgets. One run so covers several scenarios, each with the
interactions that matter to it, where their product would be out of reach.

### SyncRows

`store[db][row]` is a collection of one database keyed by syncId; a document has
its `updatedAt`, its `_deletedAt` (0 for null), `_purged`, and for a body the
set of optional fields it carries: enough to tell a replacement from a `$set`.
`snap`, `todo` and `job` are the local variables of one run of `syncCollection`;
`pc` is where it awaits.

| Action | Code |
|---|---|
| `StartPass`, `RemoteZombies` | `retombstonePurgedZombies` on either side |
| `ReadLocal`, `ReadRemote` | the two slim `find`s with their projection; the second also partitions the rows |
| `WriteFlags` | the `_purged` and `_deletedAt` `$set`s |
| `Hydrate`, `Copy` | the fetch of the whole source document, and the insert or replaceOne after it |
| `FinishPass`, `PassFails` | the end of the loop; a rejected await, or the process ending |
| `AppCreate`, `AppEdit`, `AppDelete` | requests that stamp `updatedAt` |
| `AppRequest`, then `AppRestore` / `AppPurge` | restore and delete-for-ever: the lookup, and the write by `_id` |

`Outcome(a, b)` is the whole decision table of the loop, from the point of view
of one direction. `dirty` and `last` are history: which rows of a pass's pair
others wrote since its reads, and the latest application write to each row.

### SyncRefs

One collection without references (locations) and one with references to it and
to itself (filaments) stand for the seven. An id is `<<side, syncId>>`, so that a
reference carried over untranslated is visibly the other database's. The `pc`
values are the cycle's sections in source order. `Skipped(deps)` is `trySync`,
`Translate` the transform, `Corrected` and `Expected` what the two repairs put in
place of a wrong reference, `Touched` the comparison with the timestamps taken
before the copy. `Legacy` starts from databases that a version before GH #116
has synced. Faults: a collection errors half way, a repair throws, `destroy()`
sets `aborted`, the process dies.

### Families

`doc` is the filaments collection; `own` is what a filament carries itself
(spools, color, low-stock threshold), `marker` and `by` are the promotion marker
on the parent and the token on the copy. `queue[k]` is the promise chain of key
`k`, its head holds the section. A request is a record with its program counter
and local variables; every `await` on the database is an action. `Fetch` to
`Complete` are `gateAndPromoteInLock` and the promotion, shared by create, adopt,
restore and promote as in the code; the sections after it are one block per route.
`DropCheck` to `DropSlotsAgain` are the removal of a spool: slots, `$pull`, slots
again, in one section. `Fail` is a rejected await (the section ends, the chain moves on), `Crash` ends
all requests and forgets the mutexes.

### Register and SyncRegister

`Register` says what hybrid sync promises of a row: users write values; a database
comes to show only what another shows, or showed when it was read; the latest
write is never gone from all of them (`Carry`'s third conjunct); in the end all
show it. `SyncRegister` maps `SyncRows` to it: a database shows `View` of its
document (`Lifted` lets a decision to bring a row back lift the tombstone it meets), `held` is what the services have read or are about to copy, `value` is
the history variable `last`. `IsRegister == Reg!Spec` is checked as a property of
`SyncRows` with writes between passes.

### SyncNames

Rows carry a name, which is a user's or a `Placeholder` (of a row, with a nonce),
`upd` and `del`. `queue[db]` is the durable record in `_migrations`. The actions
follow a pass: `Start`, `ReadQueue`, `SweepEntry`, `FindStrays`, then per
stray row `LookUp`, `ReadPeer`, `Heal`, and `EndSweep` (the sweep of what dead passes
left, local then remote), `ReadLocal`,
`ReadRemote` (slim reads, and the quarantine of rows seen with a placeholder),
`HeldBack`, `WriteFlags`, `Hydrate`, `WriteCopy` (the row loop), and when the index
refuses a copy `Collide`, `FindBlocker`, `ReadSource`, `Enqueue`, `Stage`, `PullOld`, `PushAgain`, `Retry`,
`Rollback`; `Settle` and `Finish` at the end. `Desired`, `Movers`, `Blocks` and
`CanVacate` are the planner of `renameStaging.ts`: the greatest set of rows that
can all leave their names. `Holder` stands for the partial unique index.

### PrintJobs

A spool has a weight and a ledger of entries (job, grams asked, grams debited);
`hist` is the print history. `PostJob` to `Answer` are `POST /api/print-history`:
`Migrate` (rolls from before there were spools), `Transact` where the server is a
replica set, else `Apply`, `SaveFil` per filament, `Record`, `Trim`, and after a
failure `UndoFil` per filament. `DeleteJob`, `RefundRow`, `Tombstone` are the
deletion; `LogUsage` and `Weigh` the short requests; `Promote`, `Remap`,
`Complete` the promotion, as far as weights see it. `holder[f]` is the mutex of a
filament, `ver` the version Mongoose saves under (`MaySave`).

### Nfc

A tag has a chip, a capability container and up to three regions of memory: those
every NTAG has, the larger ones have, the largest has; behind the last lies the
configuration that bricks a tag (`spoilt`). `queue` is `runExclusive`'s chain, its
head has begun. `OpenNtag`, `WriteCc`, `WriteData`, `Verify` are a write to an
NTAG, `OpenSlix2`, `WriteData`, `LastRegion` to an SLIX2, `Flip` locks and unlocks; `Goes`
and `Same` say whether the connection, and the tag under it, are still the ones
that were examined. `Place`, `Lift`, `Status`, `Plug`, `Unplug` are the readers'
events and their handler (each reader has its own thread that reports, so `events`
is a queue per reader), `AutoRead`, `Match`, `ReadBack` what the desktop does on
a new tag.

### WriteQueue

`stored` is the queue in AsyncStorage, `call[w]` one `submitWrite`, `flush` the one
`flushQueue`, `req[x]` the HTTP request a sender waits for, `val` the servers.
`Send`, `Serve`, `ServeLate` and `Outcomes` are the network: a request may be
served, refused, unanswered, or served after the app gave it up. `ClearQueue`,
`Persist`, `SetServer` are the three awaits of `save` (a change of address);
`Kill` is the operating system ending the app. Two edits of a
spool may be under way at once: what disables its buttons is a state of the mounted row.
`begun`, `beside`, `home`, `told`, `sent` and `excused` are history.

### Desktop

`mongo.db` are database processes, `server.proc` server processes, `sync.svc`
service objects; `task[t]` is a handler at an await. `Start`, `Created`, `Stop`,
`Stopped` are `local-mongo.ts`; `Resolve`, `Probe`, `GotLocal`, `GotAtlas`
`resolveMongoUri`; `Fork`, `Ready`, `TooSlow`, `Crash`, `Timer`, `Again`
`startProductionServer`; `Killing`, `Stopping`, `Exits`, `SafetyNet` `stopServer`;
`Save`, `Boot`, `Quit`, `QuitTimer` the handlers. `Again` is the await of an SRV
look-up inside a restart.

## 3. Runs

Twelve runs are listed in `PROJECT.json`, eleven that pass and one that shows a
disagreement (section 6). "States" are distinct states.

| Run | Instance | Properties | States | Shows |
|---|---|---|---|---|
| `SyncRowsTwoDesktops` | two services on two local databases, one row, 3 stamps, writes at any moment | `TypeOK`, `SameStampSameBody`, `UndisturbedRowsAgree`, `Converges` | 685,339 | equal timestamps mean equal bodies; what a pass is through with agrees unless somebody else wrote it; all three databases converge once writes stop |
| `SyncRowsQuiet` | two services, one row, 3 stamps, one restore or purge, one failed pass, writes only between passes | `IsRegister` | 390,512 | the loops of two desktops implement the register: neither the latest write nor a purge is lost, and everybody ends with it |
| `SyncRefsFaults` | two plays: one location, two filaments, 3 stamps; and databases whose ids were copied verbatim, two locations, 2 stamps; two faults in both | `TypeOK`, `RefsResolve`, `LinksKept`, `LinksHeal` | 595,768 | failing collections, aborts and crashes lose no spool location and leave no dangling reference; old databases heal |
| `SyncNames` | three rows, three names, two desktops; eleven plays: swaps, rotations, chains, contended names, trashed rows, with edits, a death, a failed read or write, a second desktop | `Inv`, `OriginalKept`, `PlaceholdersStay`, `SuccessMeansAgreement`, `RenamesSettle` | 212,777 | a rename moved aside is never forgotten, no placeholder spreads, a pass that says success has agreed, names settle |
| `FamiliesGates` | two plays: three rows, two there at the start, opposing adoptions beside detaches, trash and new spools; two rows, an import beside creates, trash, purges, spools, paint and one failure | `TypeOK`, `NoNesting`, `PurgedStaysDead`, `NoCircularWait`, `FirstVariantFindsNoSpools` | 1,511,283 | one level of inheritance; no waiting in a circle; an import revives no purged row and strands no spools |
| `FamiliesPromote` | three rows, one at the start, a color and a spool, both clients create, promote, trash, restore, add spools and paint; one failure or crash | `InventoryKept`, `TemplatesHoldNoSpools`, `TrashHasNoVariants`, `GivenUpToTheCopy` | 1,318,223 | the promotion loses nothing and strands nothing, wherever it stops |
| `FamiliesSlots` | three rows, two spools, both clients create, promote, paint, add and remove spools; two failures or crashes | `SlotResolves`, `LiveOnce`, `NeverResurrected` | 1,122,088 | a printer's slot resolves at every step; no promotion moves a spool twice; a removed spool stays removed |
| `FamiliesRevived` | the import's play | `InventoryKept` | violated | section 6 |
| `PrintJobs` | three filaments, one with two spools, one a roll from before spools, two jobs, two clients: jobs of one and of both, a deletion, a promotion, a manual log or a weighing (at rest), a ledger of 4; two failures or crashes | `Inv`, `RetryIsSafe`, `RecordedIsCharged`, `DeletedIsRefunded` | 516,842 | weights and ledgers agree at every step; "please retry" left nothing; a deletion pays back in full |
| `Nfc` | six tags of five kinds, two readers, one or two requests, three tags put down, one failing exchange, in eight plays | `Inv`, `TagsRespected`, `SuccessIsTrue` | 830,575 | whichever tag lies there when, only the right one is changed, within its memory, and success is true |
| `WriteQueue` | four edits of two spools, one of them usage, a queue of 2, two servers; losses, a kill, a move, another client, in seven plays | `Inv`, `EditsKept`, `AppliedInOrder`, `QueueDrains` | 1,060,710 | no edit is lost, misdirected, overtaken by one that was over when it was made, or (usage) repeated; the queue drains |
| `Desktop` | two databases, four server processes, three services, three restarts; two saves in a row, or overlapping, or a quit, with failures, in every mode | `Inv`, `Handover`, `HandlersEnd` | 168,366 | one database, one server, on what the settings say; nothing left behind; every save and quit ends |

Some of these properties are conjunctions of named parts, each stated and
commented in its module, and each with a mutant of its own in `PROJECT.json`:

| Property | Parts |
|---|---|
| `SyncRefs!LinksKept` | `LocsKept`, `ParentsKeptAtRest` |
| `SyncRefs!LinksHeal` | `LocsSettle`, `LocsHeal`, `ParentsHeal` |
| `SyncNames!Inv` | `TypeOK` (with the uniqueness of names), `SameStampSameName` |
| `PrintJobs!Inv` | `TypeOK`, `WeightsExplained`, `NoCircularWait` |
| `Nfc!Inv` | `TypeOK`, `WithinChip`, `RemovalIsSeen` |
| `Nfc!TagsRespected` | `OnlyLawfulChanges`, `LateRequestsChangeNothing` |
| `Nfc!SuccessIsTrue` | `OkMeansWritten`, `ErasedReadsBlank` |
| `WriteQueue!Inv` | `TypeOK`, `SentHome` |
| `WriteQueue!EditsKept` | `NothingForgotten`, `HeadIsSpared` |
| `WriteQueue!AppliedInOrder` | `UsageOnce`, `NewestEditStays`, `ReplayIsNoOp` |
| `Desktop!Inv` | `TypeOK`, `OneDatabase`, `NoOrphan`, `NoStrayServer`, `ServesItsDatabase`, `AdvertisesLiving`, `SwitchedOff` |
| `Desktop!Handover` | `SuccessIsServed`, `AbandonedIsLeft` |
| `Desktop!HandlersEnd` | `QuitEnds`, `SavesEnd` |

More instances are there to run by hand. Two configurations pass: `SyncRefsBusy.cfg`
(`RefsResolve` with writes at any moment and any failure) and
`FamiliesAnswered.cfg` (`EveryRequestAnswered`, the liveness behind
`NoCircularWait`). The others end in a violation and are in section 6.

Why the bounds are enough to be interesting:

- *SyncRows.* A divergence needs a row that both sides have, a write between a
  read and a copy, and a later pass: three application writes and one row do this.
  Rows affect each other only through their order in a pass (paired before
  one-sided), which the runs' single row does not exercise; the theorems hold for
  any number of rows. Two services reach every overlap of two passes; a third adds no new kind of
  step. `Fields` has one element: a body that lost or kept a field is visible.
- *SyncRefs.* Copy order matters with a variant and its parent (which of the two
  filaments is which is chosen by the writes); failures matter with one location and
  two filaments, translation by a wrong map with two locations. Two faults allow a
  cycle to fail and the one that would heal it to fail too.
- *Families.* A family is a parent, a variant and a third row that can become
  either (promotion copies need a free id). Two clients are enough for every race
  of two sections; three rows and one failure cover a promotion interrupted,
  resumed and raced; two spools a slot that names one of them while the other
  moves. Runs are split by the kinds of request because the product of
  all eleven with three rows is out of reach; each split keeps together the requests
  that touch the state its properties are about.

- *SyncNames.* A cycle of names needs two rows, a rotation or a chain three, a
  contended name three with a fourth holder elsewhere. One death, one failed write
  and one edit each hit every step; the second desktop makes one pass. `Nonces`
  and `Dates` have more elements than there are placeholders and records at once (no
  step of the run is without a new one). A record's `at` tells it from a later one of
  the same row.
- *PrintJobs.* Two filaments are the smallest job that is saved one by one, two rows
  of one spool the smallest debit that clamps in the middle, and a row of another spool of
  the filament the smallest whose compensation can stop half way; a third filament is
  the promotion's copy. Two failures let a save and its compensation both fail.
- *Nfc.* Every kind of chip is there, with every state of its container: blank,
  ours, promising too little, locked, foreign. Three regions tell chips
  apart; three moves swap a tag between any two connections and back.
- *WriteQueue.* Two edits of one spool can overtake each other, a third of another
  spool goes in between; a queue of two is full with one entry in flight.
- *Desktop.* Two databases and two services show a successor beside its predecessor
  and four server processes two restarts beside a save; three crashes reach the cap.

The passing runs of a module leave out the request kinds, or the overlap, that
section 6 already explains, and nothing else:

- `TemplatesHoldNoSpools` is checked without adoptions: `PUT` documents a window
  after the gate in which spools may still arrive on the parent.
- `TrashHasNoVariants` is checked (`FamiliesPromote`) without re-parenting PUTs and
  without imports, `NoNesting` (`FamiliesGates`) without adoptions beside imports,
  `SlotResolves` without trash, `PurgedStaysDead` with purges against imports but
  without restores, `InventoryKept` without imports.
- `IsRegister` is checked with writes between passes (`Quiet`), `LinksKept` with
  writes between cycles (`QuietSpec`), its part about parents only as long as nothing has failed.
- The import's play has one importer and two rows: with three, a revived orphan's
  parent (`FamiliesReviveOrphan` in section 6) can itself be revived and strand spools.
- `WeightsExplained` is checked with weighings only while no request is under way,
  and `RecordedIsCharged` without a failing promotion.
- In `Nfc` readers answer truthfully for missing pages, a phantom or unplugged
  reader is the only one, and no exchange of an SLIX2's erasing fails in the part of
  `ErasedIsEmpty`, which is not in the run.
- `NewestEditStays` excepts requests served after the app gave them up, and edits
  that a change of the address dropped; `ReplayIsNoOp` also other clients' edits. Both
  except edits of one spool that were under way at the same time (`Crossed`; what
  happens to those is `Remounted` in section 6).
- `NoStrayServer`, `ServesItsDatabase`, `AdvertisesLiving` and `SuccessIsServed` are
  claimed when saves do not overlap and no restart looks up an SRV address
  (`Orderly`), `SwitchedOff` when saves do not overlap, `NoOrphan` when no database
  was asked for after the quit began. The overlaps are in the run for the other
  properties.

## 4. Fairness

`SyncRows`, `SyncRefs` and `SyncNames` assume weak fairness of a service's own steps
(`PassStep`, `CycleStep`): the interval timer starts another cycle after one has
ended, and the driver settles every await one way or the other. In `SyncNames` also
of time passing (`Age`), without which no record ever becomes old enough to sweep.
Passes that fail, aborts and crashes have no fairness and are bounded (`MaxFails`,
`MaxFaults`, `MaxCrashes`): the liveness properties say what holds once they stop.
The application's writes have no fairness and are bounded by `MaxTime`: convergence
is claimed after the last of them. `Families` assumes weak fairness of each request's
steps: the event loop runs every continuation whose promise is settled.
`WriteQueue` assumes it of a write's and a flush's continuations, of the flush's trigger (the app comes to the
foreground again and again, `_layout.tsx`), of requests being answered or timing out
(`api.ts` has a timeout), and of a change of address running to its end. `Desktop`
assumes it of every handler's continuations and of the timers the code sets (restart,
the kill's safety net, the quit's), and of
`mongod.stop` unless it hangs, which it may; not of any user, crash or sync cycle. No strong fairness is used.

## 5. Proofs

The theorems of eight components are proved with TLAPS, each for any values of the
constants: any number of rows, services, requests, tags, edits or processes, any bounds.
"Condition" is what the theorem assumes of the plays; an empty one means none.

| Module | Theorem | Statement | Condition |
|---|---|---|---|
| `SyncRowsProofs` | `TypeCorrect` | `[]TypeOK` | |
| | `NoFrozenDivergence` | `[]SameStampSameBody` | |
| | `PassSettlesItsRows` | `[]UndisturbedRowsAgree` | |
| | `LastWriteWins` | `[]LatestWriteSurvives` | (1) |
| | `PurgeIsForGood` | `[]PurgeSurvives` | (1) |
| | `RowsAreRegister` | `Reg!Safety`: `SyncRows` implements `Register` | (1) |
| | `RegisterGivenAgreement` | `<>[]Reg!Agreed => IsRegister` | (1) |
| `SyncRefsProofs` | `Typed` | `[]TypeOK` | |
| | `ReferencesResolve` | `[]RefsResolve` | |
| | `LocationsKept` | `[]LocsKept` | (10) |
| | `LinksAreKept` | `[]LinksKept` | (10) |
| | `QuietTyped` | `[](TypeOK /\ RefsResolve)` | (10) |
| `SyncNamesProofs` | `NamesStayUnique` | `[](TypeOK /\ Own)`: names are unique, and a placeholder that is borne is its own row's | |
| | `PlaceholdersOnlyAside` | `PlaceholdersStay` | (2) |
| | `NamesAreOnRecord` | `[]OriginalKept` | (2) |
| `FamiliesProofs` | `FamiliesTyped` | `[]TypeOK` | |
| | `NoRequestsInACircle` | `[]NoCircularWait` | |
| | `PurgedIsDead` | `[]PurgedStaysDead` | (3) |
| | `OneLevelDeep` | `[]NoNesting` | (4) |
| | `NoSpoolIsLost` | `[]InventoryKept` | (5) |
| | `TemplatesAreEmpty` | `[]TemplatesHoldNoSpools` | (5) |
| | `TrashIsChildless` | `[]TrashHasNoVariants` | (5) |
| | `SpoolsMoveToTheCopy` | `GivenUpToTheCopy` | (5) |
| | `FirstVariantsAreGated` | `FirstVariantFindsNoSpools` | (5) |
| | `SlotsAlwaysResolve` | `[]SlotResolves` | (6) |
| | `SpoolsAreLiveOnce` | `[]LiveOnce` | (6) |
| | `RemovedSpoolsStayAway` | `NeverResurrected` | (6) |
| `PrintJobsProofs` | `Typed` | `[]TypeOK` | |
| | `NoStandstill` | `[]NoCircularWait` | |
| | `NoDoubleDebit` | `[]RetryIsSafe` | (12) |
| `NfcProofs` | `NfcTyped` | `[]TypeOK` | |
| | `OnlyTheRightTag` | `TagsRespected` | |
| | `NoChipIsSpoilt` | `[]WithinChip` | (7) |
| | `SuccessIsKept` | `SuccessIsTrue` | (7) |
| | `RemovalIsReported` | `[]RemovalIsSeen` | (8) |
| | `NfcStateIsRight` | `[]Inv` | (7), (8) |
| `WriteQueueProofs` | `AcceptedEditsKept` | `EditsKept` | |
| | `UsageCountedOnce` | `[]UsageOnce` | |
| | `NewestEditWins` | `NewestEditStays` | |
| | `EditsSentHome` | `[]Inv` | (9) |
| | `EditsAppliedInOrder` | `AppliedInOrder` | (9) |
| `DesktopProofs` | `Typed` | `[]TypeOK` | |
| | `OneDatabaseEver` | `[]OneDatabase` | |
| | `NoOrphanLeft` | `[]NoOrphan` | |
| | `NoStray` | `[]NoStrayServer` | |
| | `ServesItsOwn` | `[]ServesItsDatabase` | |
| | `OffIsOff` | `[]SwitchedOff` | |
| | `HandoverHolds` | `Handover` | |
| | `Safe` | `[]Inv`, the six above and `AdvertisesLiving` | (11) |

Each condition is where the code stops keeping the property, not where the proof
does: section 6 has what the code does without it.

1. `Quiet`: the application writes between passes only. Without it
   `SyncRowsLostUpdate`, `SyncRowsPurgeUndone`.
2. `NothingTrashed`: no row is in the trash and none is put there. The guard against
   copying a placeholder looks at live bodies only (`BehindTheGuard`).
3. Nobody purges while somebody restores (`FamiliesZombie`).
4. Nothing fails and nobody restores or revives. A `PUT` writes the parent and looks
   afterwards whether it has nested two variants: if it fails in between, or if the
   row comes back from the trash after the look, the nesting stays (section 6).
5. `OrderlyPlays`: nobody re-parents or revives a filament, and nobody purges while
   somebody restores (`FamiliesRevived`, `FamiliesTrashRace`,
   `FamiliesReviveOrphan`, the adoption at the end of section 6, and the documented
   window of an adoption). Failures and
   crashes are unrestricted.
6. `CalmPlays`: variants are created, filaments promoted and painted, spools added
   and removed, and nothing is deleted (`FamiliesSlotRace`; for `LiveOnce` the copy
   has to stay a live variant, see the end of section 6).
7. Readers do not answer with success for pages that are not there (`Short`).
8. Some reader is a phantom (then `RemovalIsSeen` claims nothing), or no reader is
   pulled out, or there is one (`Haunted`, `Pulled`).
9. No edit is made while the address is being saved (`MidSave`).
10. `QuietSpec`: the application writes between cycles only; anything may fail
   (`SyncRefsOwnLoc`, `SyncRefsDetach`). `RefsResolve` and the types need no such
   thing. Both speak of databases this version alone has written, as the properties
   do (`play.legacy = {}`), and of parents while no cycle failed (`SyncRefsAborted`).
11. `FewFailures`: at most one failure in a play that toggles sharing (`Refusals`).
12. No promotion is cut short (`"promote" \notin Faulty`; jobs and deletions may fail
    and the server may die while none is under way), and the data at the start is
    `OrderlyStock`: a spool's id is on a filament once, and entries are of jobs on record.
    The first is needed (section 6), the second is what the routes write.

What `Desktop`'s properties say of orderly saves only (section 3) the theorems say of
those only; the overlaps are in the proof as in the runs.

Besides these, each module's named assumptions on its constants: sizes and bounds
are naturals, marks for "nothing" are none of the values, a service has a local
database and the remote is none of them, the names at the start are unique, the tags
at the start are what a factory or this program leaves. TLC evaluates them on every
run.

The inductive invariants, and why each is needed:

**SyncRows.**

- `TypeInv`. `TypeOK` says that a copy is made from a document, which is true only
  because rows never vanish from a database: a row a slim read has seen is still
  there (`SeenStays`), the row under work is still to be done (`JobMatchesPc`), and
  a restore or purge in flight is of a row that exists (`ReqsExist`).
- `StampInv`. `SameStampSameBody` compares stored documents, but a pass also holds
  one in memory and writes it later. The invariant is therefore about `Copies(r)`:
  the stored documents of a row and the hydrated ones. Any two with the same
  timestamp have the same body, and no timestamp is ahead of the application's
  clock, so that a new write has a new one. The flag writes keep it because they
  leave `updatedAt` and body alone; the copies because they write a whole document
  of the row. `OldContent` and `StampStep` reduce every step to one of these.
- `PassInv`. For every row nobody else wrote since a pass read it, the pass knows
  one of three things: what it has read is what is there (rows still to do), the
  pair agrees (rows it is through with, or that needed nothing), or the document it
  has hydrated is the source's (the row under work). `FlagsSettle` and
  `CopySettles` show that the write that follows makes the pair agree;
  `Bystander` and `OthersAreTold`, that whoever else writes is recorded in `dirty`.

The theorems put no condition on `LocalOf`: they also cover two services on one
pair of databases, which is what a destroyed service and its successor are.

**The register.** That the latest write survives is not inductive: a pass that read
before it could still overwrite the last copy. `RegInv` therefore names a database
that cannot be overwritten, the row's home (`IsHome`): it has the latest document,
and every service that has read that side in the pass under way has seen it there.
`Dominates` says of everything else there is of the row, stored, read or hydrated
(`Traces`), that `Outcome` decides for the latest write against it; so a service that
has seen the home leaves it alone or copies from it. `HeldMatchesPc` ties what a
service holds to where it is, `BoundInv` keeps timestamps behind the clock. The
step `StepImplements` maps reads and hydrations to `Read`, flag writes and copies to
`Carry`, application writes to `Write`, and everything else to a stutter. A
pass that decided to bring a row back writes the source it hydrates as live, also
when another service has put the tombstone there meanwhile, which shows a value no database
showed: `Register` allows what is read to be lifted from the trash (`Lifted`).

**SyncRefs.** `TInv` is types with what a cycle has found out: rows never vanish, so a
row in a snapshot or a map is still there (`SeenIsHeld`, `MapsAreHeld`). `RInv` adds, for
databases of this version, that every stored document resolves (`Resolves`) and that
every repair under way would leave it so (`FixesResolve`); a copy resolves because it
keeps a reference only if the target's map has it. That a location is *kept* needs more:
`LocsStage` says that a cycle whose locations did not fail has the same ones on both
sides and all of them in both maps, and that the collections which rely on the maps run
only then; with `CopyIsSource` (the document under work is still the newer side's, as
nobody writes meanwhile) a copy translates the location and drops none. `LInv` is for
any failure. A copy may well drop a *parent* that is copied after it: `PInv` says, of a
cycle in which nothing has failed, that every link is as written or is a `LostParent`,
which the snapshot lets the repair find; that a snapshot still is what is stored of the
rows to do (`CopyStage`); and that the newest version is on some side.

**SyncNames.** `Keeps` is types with uniqueness, and what the local variables of a
pass know: the placeholder in a record is its own row's (`Own`), a row that was read
is there (`Grounded`). `LiveInv` adds, where nothing is trashed, that a pass holds
live bodies and copies none with a placeholder. `OriginalKept` is not inductive, since
a sweep that has decided to take a record out does so after the row may have been
staged again, and a stage renews its record in two steps. `StageInv`: no two passes
have one nonce (`Apart`); a pass about to take back its record has not staged the row,
or has put it back (`NotYet`, `Away`); and every row that is aside has a record no
sweep is about to take out (`Spared`), or one its pass is renewing, or a pass died or
failed while it did, the one window the code leaves (`AllSafe`).

**Families.** `Settled` is types, that a request is well formed for where it is
(`Shaped`), and the mutex: `Exclusion` says that the queue of a key holds exactly the
requests with that key, once each, and that whoever is past its section's first step
is at its head. `NoCircularWait` follows, as a request has one key. `StepSettled`
reduces every action of a request to what it writes (`Does`), and the other invariants
are shown against `Does` only. `PurgeInv` says that rows
are purged only in plays that purge. `NestInv` says that of two nested rows one was
written by a `PUT` that has yet to look, in the right order of its two looks.

`SpoolInv`, for orderly plays: a filament with variants is live, and whatever spools
it still has are promised, that is, its marker is set (`Marked`) and a copy bears the
marker's token and has each of them that was not removed (`Covered`). To be inductive
this needs what each section has found out so far (`SectionInv`): the parent is live
and has no parent; the snapshot has all its spools and the current marker; before a
variant surfaces the parent is `Fit`; a spool about to be added is on no filament yet
(`NewSpools`). The mutex is what makes it stable: all of this is written only under
the parent's key, which the section holds. `CalmInv` adds that two filaments share a
spool only as original and copy, that a removed spool stays on an original only
while there is the copy it was removed from, and that a slot can follow
its spool to every copy of its filament.

**Nfc.** `Sound` says what the head of the queue has found out about the tag of its open
connection (`Inspected`): in a phase that writes, the tag's kind and container allow it,
and the regions before the current one hold what was written. A swapped tag breaks
the connection (`Same`), so it stays true. `RemovalInv`: what an empty reader has still
to report ends with the removal (`Announced`), and a tag is shown only while some reader
is noted to hold one.

**WriteQueue.** `EditsInv` ties the entry that is being sent to the head of the
queue and every request to its sender; a call that was answered "queued" is in the
queue, at its server, or excused. `UsageInv`: usage is never stored, and is sent only
while unsent. `HomeInv`: whatever is of the current generation is for the address in
use, and nothing is while the address is being saved. `OrderInv`: of one spool, what
waits is in the order it was made and nothing newer was sent, because a new edit
flushes or joins the queue first, unless it was made while the other was under way
(`beside`). `ReplayInv`: an edit that was served and may be sent
again is what its spool shows. Writing the proof of `ReplayIsNoOp` showed that
it needs `\cup excused`: an address that changes away and back while a request for a
dropped edit is pending lets that edit arrive last; the property now says so.

**Desktop.** `HInv` is the conjunction of ten invariants, each proved from those before
it, since they concern different processes.

- The database. `MInv`: whatever is alive is the database known to `local-mongo.ts`
  (`KnownIsOnly`) or the one being created by the shared start (`StartIsOnly`); so
  there is never a second. `QInv`: while the quit's stop waits, `shuttingDown` is still
  set unless a start was asked for after the quit began, and once it is through
  nothing is alive (`ShutDownIsDone`). Both hold whatever overlaps.
- The services. `LetGo`: all but the current one are destroyed. `OInv`: none is active
  while Atlas is asked, without a mode, and on Atlas alone.
- The server. `RInv`, for orderly plays: before a handler forks there is no current
  server (`StoppedFirst`), everything else is on its way out (`StrayIsNone`), and a
  timer that is set is of the server that crashed last or of none (`TimerIsOfDead`), so
  that its guard keeps it from forking a second. `WInv`: a stopped process that may still
  hold the port is awaited by a handler, which is why no start-up probe is answered by it
  (`NoneIsFooled`).
- Both together. `DInv`: the database is stopped or started by the one handler under
  way, and whoever resolved or stored its URI has it up. `UInv`: the URI a handler
  resolved is the stored one, and so is the server's unless a handler is about to
  replace it. `AInv`: whatever is advertised without a server is taken back by a save
  that has yet to end, which needs the count of its refusals (`FewRefusals`).

They end with the quit, which lets go of handlers half way: `WInv` to `AInv` are claimed
until it begins, and the properties they imply are claimed at rest only. Each action is
reduced once to what it does to a handler and to one process (`Becomes`, `Started`,
`Halted`, `Kills`, `Forks`), and the invariants are shown against that.

**PrintJobs.** The types need more than types (`TInv`). A job computes weights and ledgers
from documents it read, and writes them later by position: while the version is the one it
read, the stored filament still has the same spools in the same places (`Fits`); a version
never goes down, and no document disappears (`Evolves`). A spool on any filament has a
`base` (`Based`). A record is deleted only after it was written, and nobody deletes the
record of a job that is not through (`Booked`). `HInv` says who holds which key, at every
step: a job of one filament from the migration of its document on, a promotion its parent,
anybody else none. So a request that waits holds nothing, or waits for what it holds itself,
and the latter is what `MayUse` rules out.

That a retried job debits nothing twice (`NoDoubleDebit`) is about the entries it left
(`Marks`). `CInv` says that a job nobody posted, that is still reading, or that was told to
retry has none (`CleanIsUnmarked`). For that, a document that may still be written has no
other job's entries but those that are stored (`Reads`): a save under the version that was
read brings back nothing that was refunded or pulled meanwhile. `RInv` follows a job from
its first save to the answer, while the answer may still be "retry" (`MayRetry`): each of
its entries is on a filament that was saved and is still to be undone; or the compensation
will find one missing, and answer otherwise (`Lost`); or it is on the copy of a promotion
under way, which will clear the original (`Copied`), and then the compensation finds that
one missing. When all is undone the first case is empty, so are the other two, and
`UndoneTrace` has what `CInv` claims. What every step does to other jobs' entries is one
predicate (`Tame`): none is added, and under the same version none goes.

`Applied`, `Only` and `Total` are functions by recursion over a sequence. What they do for
every sequence is shown by induction in the form of sets (`AllNaturals`: a set of naturals
that has 0 and every successor has them all): a sum splits by its indices, over a filter
and over an append (`TotalSplit`, `TotalOnly`, `TotalAppend`), and after any list of usages
each spool's weight went down by what its new entries say was debited and by what the
answered rows say was taken of it (`AppliedCharges`).

TLC checked each inductive invariant on the run's plays, or ad hoc on smaller ones,
before it was proved. What stays with TLC, and why:

- liveness, with the fairness of section 4: `Converges`, `LinksHeal`, `RenamesSettle`,
  `QueueDrains`, `HandlersEnd`, `EveryRequestAnswered`, and `<>[]Agreed` of the register;
- `SameStampSameName`: a row can be staged twice in one pass, under two
  names, so that what a settlement puts back is not what its timestamp first came
  with; the runs' plays do not reach it, and no invariant of the code excludes it;
- `SuccessMeansAgreement`, which rests on what a whole pass has seen of every row;
- of `PrintJobs`, `WeightsExplained`, `RecordedIsCharged` and `DeletedIsRefunded`, which
  count entries. The laws of the sums and of the debit they rest on are proved; not
  proved is that no writer in between breaks them.

## 6. Disagreements found while modelling

One is a run with `expect: violation` and a finding in `PROJECT.json`:

- **`FamiliesRevived`, `InventoryKept`.** `promoteParent.ts:391-395` says of an
  interrupted promotion that "no reference is ever left dangling and no data is
  lost", and `:364-365` that "resuming moves nothing new". A promotion stops after
  the copy; the copy is trashed, and the parent gets a new spool while its marker
  stays; the parent is trashed too; an import revives the copy and then the parent.
  The next create of a variant finds marker and token, resumes that promotion, and
  clears the parent's `spools`, the new one included, which the copy never held.

The others are to be run by hand, and each ends in a violation: a configuration of
its own (`tlc -config <name>.cfg <MC module>`), or the module's configuration with
another value for `Plays` and the one property (`Nfc`: `Short` is `Nfc.cfg` with
`Plays <- Short`):

| Configuration | Property | What is said | What the code does |
|---|---|---|---|
| `SyncRowsLostUpdate` | `LatestWriteSurvives` | "last-write-wins conflict resolution based on updatedAt timestamps" (`electron/sync-service.ts:345`) | an edit of the target after the slim read is overwritten by an older document: `replaceOne` filters by `_id` alone (`:2712`) |
| `SyncRowsPurgeUndone` | `PurgeSurvives` | "It's a one-way flag — once set on either peer, it wins over any other state" (`:2550`) | a purge after the slim read is overwritten in the same way (`:2729`) |
| `SyncRefsOwnLoc` | `OwnLocKept` | "Orphans (id not present on either side) clear to null" (`:3083`) | a location created and used after the maps were built is cleared, though its side has it (`:3126`) |
| `SyncRefsDetach` | `DetachKept` | "Untouched rows are user territory" (`:3223`) | a variant that the user detaches during the cycle looks touched by the cycle, and its parent is put back (`:3281`) |
| `FamiliesSlotRace` | `SlotResolves` | "every external reference still resolves" (`promoteParent.ts:392`) | the fresh copy is trashed, under its own key, between its slots' clearing and its tombstone, while the promotion points slots at it (`[id]/route.ts:1823`) |
| `FamiliesReviveOrphan` | `TrashHasNoVariants` | "a TRASHED doc cannot have live variants" (`iniImportApply.ts:491`) | an import revives a variant whose parent is in the trash: the gate finds no live parent and lets it pass (`firstVariantGate.ts:82`) |
| `FamiliesReviveNested` | `NoNesting` | "creating a cycle or nested inheritance that every single-level read path ... assumes cannot exist" (`[id]/route.ts:860`) | an import revives a variant whose parent has become a variant meanwhile (`iniImportApply.ts:521`) |
| `FamiliesZombie` | `PurgedStaysDead` | "`_purged` with a live `_deletedAt` is simply not a legal state" (`purgedZombies.ts:10`) | a restore saves, by `_id`, what it read before a concurrent purge (`restore/route.ts:159`); the zombie repair exists to undo this at the next start |
| `SyncNames`: `BehindTheGuard` | `PlaceholdersStay` | the hydrate guard is the "one enforcement point" for writes that copy a name to the peer (`electron/sync-service.ts:1792`) | the guard looks at live bodies only (`:1778`): when another service moves the row aside and a user trashes it before it is hydrated, a pass that had decided to bring the row back writes the placeholder with `_deletedAt: null` (`:2645`) |
| `SyncRefsAborted` | `ParentsSettle` | without the repair "the wrong null persists forever (GH #128)" (`electron/sync-service.ts:3161`) | the repair runs only at the end of the cycle that copied the variant and knows its rows by that cycle's snapshot: when the cycle ends between the copies of variant and parent, the null stays |
| `FamiliesTrashRace` | `TrashHasNoVariants` | "a trashed doc cannot have live variants" (`[id]/route.ts:1796`) | a re-parenting PUT writes under the variant's key: it can write, and pass its assertion, between the trash's check and its write |
| `PrintJobsWeighed` | `WeightsExplained` | "staleness is covered by OCC" (`print-history/route.ts:631-635`) | putting a spool on the scale is a lean update, which does not raise the version (`Filament.ts:548-556`): a job saves a weight computed from before |
| `PrintJobsHalfPromoted` | `RecordedIsCharged` | "no data is lost" (`promoteParent.ts:394`) | a job debits the parent's spool after the copy was made and before the resumed promotion clears it: the ledger entry goes with it |
| `Nfc`: `Erasing` | `ErasedIsEmpty` | "then zero everything else" (`nfc-service.ts:1382`); reporting "a partial wipe as SUCCESS, leaving protected old data behind" is what the NTAG path avoids (`:1505`) | the SLIX2 path stops zeroing at the first block that fails, for whatever reason, and reports success (`:1392`) |
| `Nfc`: `Short` | `WithinChip` | "some readers return SW=9000 with a short payload — that proves nothing" (`nfc-service.ts:876`) | the probe before a write takes such an answer as proof that the pages are there (`:1268`) |
| `Nfc`: `Haunted` | `RemovalEndsPresence` | a phantom "present" that "permanently blocks tag-removal detection" (`nfc-service.ts:244`) | `clearPhantomPresence` clears the status and leaves `readerPresent` (`:369`): a removal on another reader then finds the phantom still present |
| `Nfc`: `Pulled` | `RemovalIsSeen` | "Only mark empty if no reader reports present" (`nfc-service.ts:288`) | one of two readers is pulled out with the only tag: nobody asks again whether a tag is present (`:296`) |
| `Nfc`: `Swapped` | `NameIsOfTheTag` | "swapping tag A for tag B briefly shows the 'Tag detected' intermediate state rather than the previous tag's name" (`docs/nfc.md:140`) | a match or read-back that is answered after the next tag was put down names that one |
| `WriteQueue`: `Concurrent`, `GivenUp` | `ReplayIsHarmless` | "replaying an `updateSpool` (absolute SET) is a no-op" (`writeQueue.ts:188-189`), "re-applies harmlessly" (`:278-279`) | after another client's edit, or when a request given up is served late, it puts the older value back |
| `WriteQueue`: `Remounted` | `NoOlderReplay` | "while ANY write is already pending, a live write would let an OLDER queued write replay on top of it on the next flush" (`writeQueue.ts:208-211`) | only what is stored counts as pending: after the screen is reopened (`saving` is a state of the mounted row, `filament/[id].tsx:392`) a second edit goes live beside the first, which is then unanswered, stored, and flushed on top of the newer one |
| `WriteQueue`: `MidSave` | `SentHome` | queued writes are dropped with their server (`serverConfig.tsx:62-74`) | an edit queued between the clearing and the new address's `setState` goes to the new server |
| `WriteQueue`: `Unsaved` | `KeptUnlessMoved` | "we only clear on a genuine, accepted change of address" (`serverConfig.tsx:62-65`) | when the address then cannot be stored, the queue is gone and the server is the old one |
| `Desktop`: `Lookups` | `NoStrayEver` | the timer re-checks "the exit handler's guard at timer-fire time" (`main.ts:610`) | with an SRV address the restart awaits a look-up after that check, and forks beside a save's server |
| `Desktop`: `Overlaps` | `DatabaseIsThere` | settings are saved one after the other | `save-config` is not serialized: a save to Atlas stops the database while one to offline gets its URI (`local-mongo.ts:22`) |
| `Desktop`: `Refusals` | `AdvertisesLiving` | never "re-advertise a dead server after a failed restart (#723)" (`main.ts:1118`) | a toggle whose restart and recovery both fail reverts the flag and advertises |
| `Desktop`: `Overtaken` | `NoOrphanEver` | a stop waits for a start under way (#914) | a start that begins after the quit resets `shuttingDown` (`local-mongo.ts:23`) |

More weaknesses the runs' conditions step around. `NoNesting`: with one failure two
opposing re-parents stay nested, since the first to write has not looked yet and the
second looks at the other half; and without any failure a row that is restored, whose
gate looked at its parent before the parent was adopted, is nested as well (35 states;
TLC finds both with `fails` 1, or with `restore` beside `adopt` and `trash`). `InventoryKept`
fails without an import, too: a promotion dies after the copy; the copy is adopted away and
trashed, and the parent gets a new spool; the copy is restored while a `PUT` that found
it in the trash, and therefore asked no gate, adopts it back; the next create resumes
the old promotion and clears the new spool (41 states; two spools, two clients that send
`create`, `trash`, `restore` and `addSpool`, `adopt`, one crash; about five minutes).
`WeightsExplained` fails for a job of several filaments that has two rows of one spool: the
creation of its record fails although the record was written; somebody deletes that record
and one of the two entries is refunded before the compensation gets to the filament, which
adds back both rows' grams where it finds any entry of the job
(`print-history/route.ts:660` says that a refund "can never land twice"; 14 states: usages
`p`, `p`, `q`, one client deletes, the other posts, failures of jobs only).
`RetryIsSafe` fails when a promotion dies between copy and clear while a job of two
filaments is saving: the copy has the job's entry, the compensation pulls the one on the
original and finds every entry it looks for, and "please retry" is answered with the debit
still on the copy, which the resumed promotion makes the only one (16 states:
`PrintJobs.cfg` with `Faulty = {"promote"}`; the comment at `print-history/route.ts:661-663`
asks that the compensation "must be the exact inverse of the debit").
`LocsHeal` needs edits or
faults to be absent, since a cycle after a failed spool repair copies an edited row
with the location it could not translate; and `LiveOnce` holds in runs in which a
copy stays a live variant of its parent, since a retried promotion looks for the
interrupted one's copy among the live variants only (`promoteParent.ts:286`) and
copies the spools again when that copy was detached or trashed meanwhile. The comment at
the head of `writeQueue.ts` (`:20-26`) has a flush drop what the server rejects, with
whatever status, and take the head out of the queue while it is sent; the code keeps the
head on a 5xx or a timeout, and in the queue (`:257-283`). In `Desktop`'s code a manual `trigger-sync` during the quit can revive the destroyed
service (`main.ts:1928` keeps the variable and `sync` resets `aborted`), and a switch
to Atlas stops the database under a collection that is running.

## 7. Abstractions

Common to all modules: a database operation on one document is atomic and
immediately visible to everyone; documents are reduced to the fields the
properties tell apart; names, validation, progress messages and logging are left
out.

- *SyncRows.* The application never gives two writes the same millisecond, except
  that a delete may share one with the edit before it (the tie the row loop
  documents), and its tombstone may be a tick older than its `updatedAt`. One
  collection at a time. An insert that meets an existing syncId is swallowed, as
  in the code; one that meets an existing *name* is not modelled. References in
  the body are `SyncRefs`' subject, here a copy is verbatim.
- *SyncRefs.* Nothing is deleted. A filament has one spool, so the repair of a
  spool's location writes that location and not the array it is part of (hazard
  without a property, planned as SpoolRepair). Prerequisites other than locations
  behave alike and are represented by it.
- *SyncNames.* Purges, bodies and references are left to `SyncRows` and `SyncRefs`.
  Every row has its syncId and its trimmed name. Time passes for a record in one step
  (`Age`). The rows of a pass are taken in any order, as maps give no other promise.
- *Families.* The two updates that clear a filament's slots are one step, so are
  those that remap its references; color and its name are one trait; a filament's
  own `totalWeight` moves as its spools do. One mutex: a single server process.
  An import's section and its row lookup are two steps, its other fields nothing. When
  its revival finds the row gone, the code goes on to create a root row, outside the
  family, or, where a restore was faster, to paint the row it collides with
  (`iniImportApply.ts:541-586`); here the request ends.
- *PrintJobs.* A request that waits for a key takes it with its first step under it.
  Retired spools, untracked weights, tares, the gross-capacity clamp of a refund,
  entries from before job ids, the trash and the deletion of spools are left out.
- *Nfc.* A payload takes one or two regions and is written region by region, so a
  write is torn between any two of them and not inside one. An SLIX2's last block is
  never used, with it its forgiven failure on write. A Bambu tag is recognized or not.
  An NTAG's capability page, whose bits can only be set (`ndef.ts:286-293`), is written
  like any other: no play has a container whose bits the one for its size would lack.
- *WriteQueue.* A section under the queue's lock and what its caller does up to the
  next await are one step. An edit is one spool's weight or its usage.
- *Desktop.* A handler runs to its next await in one step. Ports, windows, files and
  the network are what may fail, not values. A cycle of the sync service is a sequence
  of collections without content. The five seconds `stopServer` grants a process that it
  killed (`main.ts:697-699`) end only when the process is dead (`SafetyNet`), as the code
  expects "within a few ms"; with one that lives longer a start-up probe could be
  answered by the old server.

Not modelled, and why: see the table in section 1 and the notes in
`PROJECT.json`. The codecs, exports and views are pure conversions for which a
reference definition would say the same thing twice; the shells are I/O around the
parts that are modelled or planned.

## 8. Plan

Proved, as planned: `SyncRows` and its refinement of `Register`, `SyncRefs`, `SyncNames`,
`Families`, `Nfc`, `WriteQueue`, `Desktop`, and types, keys and retries of `PrintJobs` (section 5). What is left, the most important
first:

1. **SyncNames**: `SameStampSameName`, for plays in which no row can be staged twice in
   a pass.
2. **PrintJobs**: `WeightsExplained`, from the laws of sums and debits,
   for jobs without two rows of one spool.
3. Further models: **LegacyTransit** (the durable queue of pair clears),
   **SpoolRepair** and the remaining references of the cycle, **SpoolSlots, Nozzles,
   Guards** (two-step updates and check-then-act deletions), **Imports**,
   **DbConnect**, **ScanBus**, the sync service's status events and probes.

Runs are sized to finish within five minutes with two workers; each new module
replaces or merges runs of an older one rather than only adding to them. To repeat
them: `tlc -config <run>.cfg <module>` in this directory, and `tlapm <module>.tla` for
each of the proof modules `SyncRowsProofs`, `SyncRefsProofs`, `SyncNamesProofs`, `FamiliesProofs`,
`NfcProofs`, `PrintJobsProofs`, `WriteQueueProofs` and `DesktopProofs`, which take a
minute or two up to ten each, `PrintJobsProofs` about a quarter of an hour.
