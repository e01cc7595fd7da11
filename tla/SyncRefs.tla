------------------------------ MODULE SyncRefs ------------------------------
(***************************************************************************)
(* References in hybrid sync (electron/sync-service.ts): a sync cycle      *)
(* copies locations, then filaments, and gives every copied filament the   *)
(* target database's own ids for the location of its spool and for its     *)
(* parent.  Ids differ between the two databases, so a reference is        *)
(* translated through maps syncId -> id built at fixed points of the       *)
(* cycle; what the maps do not know becomes null, under the source's       *)
(* timestamp.  A collection that fails, or a cycle that is aborted, must   *)
(* not lead to a copy whose references could not be translated.            *)
(*                                                                         *)
(* One collection without references stands for nozzles, bed types and     *)
(* locations, filaments for the collections that refer to others and to    *)
(* themselves.  Rows are named by syncId; nothing is deleted here.         *)
(***************************************************************************)
EXTENDS Naturals, FiniteSets

CONSTANTS
    Locs,       \* syncIds of locations
    Fils,       \* syncIds of filaments
    None,       \* the null reference, and "no document"
    Plays,      \* what past versions left, and how much may happen
    MaxTime,    \* bound on the application's timestamps
    MaxFaults   \* bound on failing collections, aborts and crashes

Sides == {"local", "remote"}
Other(side) == IF side = "local" THEN "remote" ELSE "local"

\* legacy: the references a past version left as the other database's ids; locs:
\* the locations in use in this play; time: the last timestamp; faults: how many
\* collections failed, cycles were aborted and processes died, limit: may at most.
Play == [legacy : SUBSET {"loc", "parent"}, locs : SUBSET Locs, time : 0..MaxTime,
         faults : 0..MaxFaults, limit : 0..MaxFaults]

VARIABLES
    locs,       \* locs[side]: the locations that database has
    fils,       \* fils[side][f]: the filament there, or None
    ids,        \* the rows that have been given a syncId
    clock,
    want,       \* history: each filament as the application last wrote it
    pc,         \* where the sync cycle stands
    aborted,    \* destroy() was called during this cycle
    errored,    \* the collections whose result carries an error
    todo,       \* rows the running copy loop still has to do
    locMap,     \* the location maps: for each side, the locations known there
    filMap,     \* the filament maps, likewise
    before,     \* updatedAt of the filaments when the maps were built
    seen,       \* the slim reads of the filaments' copy loop
    job,        \* the filament copy whose source has been hydrated
    fixes,      \* writes the running repair has decided on
    play

data  == <<locs, fils, ids, clock, want>>
maps  == <<locMap, filMap, before, seen>>
cycle == <<aborted, errored, todo, maps, job, fixes>>
vars  == <<data, pc, cycle, play>>

\* A row's ObjectId in one database.  The two databases' ids never coincide.
Id(side, r) == IF r = None THEN None ELSE <<side, r>>
Ref(R) == (Sides \X R) \cup {None}
Fil == [upd : Nat, loc : Ref(Locs), parent : Ref(Fils)]
Wanted == [upd : Nat, loc : Locs \cup {None}, parent : Fils \cup {None},
           side : Sides]

\* The null reference is no row, no id and no document.
ASSUME RefsAssumption ==
    /\ Locs \cap Fils = {} /\ None \notin Locs \cup Fils
    /\ None \notin Sides \X (Locs \cup Fils) /\ None \notin Fil /\ None \notin Wanted
    /\ Plays \subseteq Play /\ \A p \in Plays : p.faults = 0
    /\ MaxTime \in Nat /\ MaxFaults \in Nat

NoFils == [side \in Sides |-> [f \in Fils |-> None]]
NoMap  == [side \in Sides |-> {}]
NoJob  == [row |-> None, to |-> "local", full |-> None]

Has(side, f) == fils[side][f] # None
UpdOf(d) == IF d = None THEN 0 ELSE d.upd

\* Two databases a version before GH #116 has synced: the side that was copied
\* to holds ids of the other one.
LegacyFils(to, w) ==
    [side \in Sides |-> [f \in Fils |->
        LET wrong(kind) == IF side = to /\ kind \in play.legacy THEN Other(side) ELSE side
        IN  [upd |-> 1, loc |-> Id(wrong("loc"), w[f].loc),
             parent |-> Id(wrong("parent"), w[f].parent)]]]

Init ==
    /\ play \in Plays
    /\ IF play.legacy = {}
       THEN /\ locs = NoMap /\ fils = NoFils /\ ids = {}
            /\ clock = 0
            /\ want = [f \in Fils |-> None]
       ELSE /\ locs = [side \in Sides |-> play.locs]
            /\ ids = play.locs \cup Fils
            /\ clock = 1
            /\ \E to \in Sides, base \in Fils \cup {None} :
                  /\ want \in [Fils -> [upd : {1}, loc : play.locs \cup {None},
                                      parent : {base, None}, side : {Other(to)}]]
                  /\ base # None => want[base].parent = None
                  /\ fils = LegacyFils(to, want)
    /\ pc = "idle"
    /\ aborted = FALSE
    /\ errored = {}
    /\ todo = {}
    /\ locMap = NoMap /\ filMap = NoMap
    /\ before = NoFils /\ seen = NoFils
    /\ job = NoJob
    /\ fixes = {}

-----------------------------------------------------------------------------
(* The application.  It writes rows without a syncId; the sync mints one.  *)

CreateLoc(side, l) ==
    /\ \A s \in Sides : l \notin locs[s]
    /\ locs' = [locs EXCEPT ![side] = @ \cup {l}]
    /\ UNCHANGED <<fils, ids, clock, want, pc, cycle, play>>

RowOf(ref) == IF ref = None THEN None ELSE ref[2]

WriteFil(side, f, d) ==
    /\ clock < play.time
    /\ fils' = [fils EXCEPT ![side][f] = [d EXCEPT !.upd = clock + 1]]
    /\ want' = [want EXCEPT ![f] = [upd |-> clock + 1, loc |-> RowOf(d.loc),
                                   parent |-> RowOf(d.parent), side |-> side]]
    /\ clock' = clock + 1
    /\ UNCHANGED <<locs, ids, pc, cycle, play>>

\* Inheritance is one level deep: a parent has no parent, a child no children.
MayBeParent(side, p, f) ==
    \/ p = None
    \/ /\ p \in Fils \ {f}
       /\ Has(side, p) /\ fils[side][p].parent = None
       /\ \A g \in Fils : Has(side, g) => fils[side][g].parent # Id(side, f)

CreateFil(side, f) ==
    /\ \A s \in Sides : ~Has(s, f)
    /\ \E l \in locs[side] \cup {None}, p \in Fils \cup {None} :
          /\ MayBeParent(side, p, f)
          /\ WriteFil(side, f,
                [upd |-> 0, loc |-> Id(side, l), parent |-> Id(side, p)])

MoveSpool(side, f) ==
    /\ Has(side, f)
    /\ \E l \in locs[side] \cup {None} :
          /\ Id(side, l) # fils[side][f].loc
          /\ WriteFil(side, f, [fils[side][f] EXCEPT !.loc = Id(side, l)])

Reparent(side, f) ==
    /\ Has(side, f)
    /\ \E p \in Fils \cup {None} :
          /\ Id(side, p) # fils[side][f].parent
          /\ MayBeParent(side, p, f)
          /\ WriteFil(side, f, [fils[side][f] EXCEPT !.parent = Id(side, p)])

\* Any other edit rewrites the references as it found them.
Edit(side, f) ==
    /\ play.legacy # {}
    /\ Has(side, f)
    /\ WriteFil(side, f, fils[side][f])

AppNext ==
    \E side \in Sides :
        \/ \E l \in play.locs : CreateLoc(side, l)
        \/ \E f \in Fils :
              \/ CreateFil(side, f) \/ Edit(side, f)
              \/ MoveSpool(side, f) \/ Reparent(side, f)

-----------------------------------------------------------------------------
(* The cycle.                                                              *)

\* trySync: a collection is skipped, and counts as errored, once the cycle is
\* aborted or one of its prerequisites has errored.
SkippedIgnoringDeps(deps) == aborted    \* mutant: prerequisites not looked at
Skipped(deps) == aborted \/ deps \cap errored # {}

StartCycle ==
    /\ pc = "idle"
    /\ aborted' = FALSE
    /\ errored' = {}
    /\ pc' = "locations"
    /\ UNCHANGED <<data, todo, maps, job, fixes, play>>

\* backfillSyncIds, then the slim reads of the locations: what one side has
\* and the other lacks.
ReadLocs ==
    /\ pc = "locations"
    /\ IF Skipped({})
       THEN /\ errored' = errored \cup {"locations"}
            /\ pc' = "locMaps"
            /\ UNCHANGED <<todo, ids>>
       ELSE /\ ids' = ids \cup locs["local"] \cup locs["remote"]
            /\ todo' = (locs["local"] \cup locs["remote"])
                       \ (locs["local"] \cap locs["remote"])
            /\ pc' = "copyLocs"
            /\ UNCHANGED errored
    /\ UNCHANGED <<locs, fils, clock, want, aborted, maps, job, fixes, play>>

CopyLoc(l) ==
    /\ pc = "copyLocs"
    /\ l \in todo
    /\ locs' = [side \in Sides |-> locs[side] \cup {l}]
    /\ todo' = todo \ {l}
    /\ UNCHANGED <<fils, ids, clock, want, pc, aborted, errored, maps, job,
                   fixes, play>>

LocsDone ==
    /\ pc = "copyLocs"
    /\ todo = {}
    /\ pc' = "locMaps"
    /\ UNCHANGED <<data, cycle, play>>

\* Rows without a syncId are in no map.
BuildLocMaps ==
    /\ pc = "locMaps"
    /\ locMap' = [side \in Sides |-> locs[side] \cap ids]
    /\ pc' = IF aborted \/ "locations" \in errored
             THEN "backfill" ELSE "spoolsLocal"
    /\ UNCHANGED <<data, aborted, errored, todo, filMap, before, seen, job,
                   fixes, play>>

\* repairDanglingSpoolLocations, one side after the other: an id the side's map
\* does not hold is replaced by what it means on the other side, else by null.
CorrectedToNull(side, ref) == None      \* mutant: every stray id is an orphan
Corrected(side, ref) ==
    IF ref[1] = Other(side) /\ ref[2] \in locMap[Other(side)] \cap locMap[side]
    THEN Id(side, ref[2]) ELSE None

Stray(side, f) ==
    /\ Has(side, f)
    /\ fils[side][f].loc # None
    /\ fils[side][f].loc \notin {Id(side, l) : l \in locMap[side]}

ReadSpools(side, at, next) ==
    /\ pc = at
    /\ fixes' = {[side |-> side, row |-> f, ref |-> Corrected(side, fils[side][f].loc)] :
                     f \in {g \in Fils : Stray(side, g)}}
    /\ pc' = next
    /\ UNCHANGED <<data, aborted, errored, todo, maps, job, play>>

\* Both repairs write their one field and leave updatedAt alone.
FixSpool(x) ==
    /\ pc \in {"fixLocal", "fixRemote"}
    /\ x \in fixes
    /\ fils' = [fils EXCEPT ![x.side][x.row].loc = x.ref]
    /\ fixes' = fixes \ {x}
    /\ UNCHANGED <<locs, ids, clock, want, pc, aborted, errored, todo, maps,
                   job, play>>

SpoolsFixed(at, next) ==
    /\ pc = at
    /\ fixes = {}
    /\ pc' = next
    /\ UNCHANGED <<data, cycle, play>>

RepairSpools ==
    \/ ReadSpools("local", "spoolsLocal", "fixLocal")
    \/ SpoolsFixed("fixLocal", "spoolsRemote")
    \/ ReadSpools("remote", "spoolsRemote", "fixRemote")
    \/ SpoolsFixed("fixRemote", "backfill")
    \/ \E x \in fixes : FixSpool(x)

HeldFils(side) == {f \in Fils : Has(side, f)}

BackfillFils ==
    /\ pc = "backfill"
    /\ ids' = IF aborted THEN ids
              ELSE ids \cup HeldFils("local") \cup HeldFils("remote")
    /\ pc' = "filMaps"
    /\ UNCHANGED <<locs, fils, clock, want, cycle, play>>

\* The maps the parents are translated with, and the timestamps by which the
\* repair will tell the rows this cycle wrote: both before the copy.
BuildFilMaps ==
    /\ pc = "filMaps"
    /\ filMap' = [side \in Sides |-> HeldFils(side) \cap ids]
    /\ before' = fils
    /\ pc' = "filaments"
    /\ UNCHANGED <<data, aborted, errored, todo, locMap, seen, job, fixes, play>>

ReadFils ==
    /\ pc = "filaments"
    /\ IF Skipped({"locations"})
       THEN /\ errored' = errored \cup {"filaments"}
            /\ pc' = "repair"
            /\ UNCHANGED <<todo, seen, ids>>
       ELSE /\ ids' = ids \cup HeldFils("local") \cup HeldFils("remote")
            /\ seen' = fils
            /\ todo' = {f \in Fils : UpdOf(fils["local"][f]) #
                                     UpdOf(fils["remote"][f])}
            /\ pc' = "copyFils"
            /\ UNCHANGED errored
    /\ UNCHANGED <<locs, fils, clock, want, aborted, locMap, filMap, before,
                   job, fixes, play>>

NewerIsLocal(f) ==      \* mutant: the local side always wins
    IF seen["local"][f] # None THEN "local" ELSE "remote"
Newer(f) == IF UpdOf(seen["local"][f]) > UpdOf(seen["remote"][f])
            THEN "local" ELSE "remote"
Paired(f) == \A side \in Sides : seen[side][f] # None

\* Pairs are settled before rows that only one side has.
Hydrate(f) ==
    /\ pc = "copyFils"
    /\ f \in todo
    /\ Paired(f) \/ \A g \in todo : ~Paired(g)
    /\ job' = [row |-> f, to |-> Other(Newer(f)), full |-> fils[Newer(f)][f]]
    /\ pc' = "write"
    /\ UNCHANGED <<data, aborted, errored, todo, maps, fixes, play>>

\* An id of the source that both maps know becomes the target's id, any other
\* becomes null.
TranslateVerbatim(map, to, ref) == ref      \* mutant: the source's id is kept
TranslateOrMiss(map, to, ref) ==            \* mutant: a failed lookup is stored
    IF ref = None THEN None
    ELSE IF ref[1] = Other(to) /\ ref[2] \in map["local"] \cap map["remote"]
         THEN Id(to, ref[2]) ELSE "undefined"
Translate(map, to, ref) ==
    IF ref = None THEN None
    ELSE IF ref[1] = Other(to) /\ ref[2] \in map["local"] \cap map["remote"]
         THEN Id(to, ref[2]) ELSE None

WriteCopy ==
    /\ pc = "write"
    /\ fils' = [fils EXCEPT ![job.to][job.row] =
                   [job.full EXCEPT !.loc = Translate(locMap, job.to, @),
                                    !.parent = Translate(filMap, job.to, @)]]
    /\ todo' = todo \ {job.row}
    /\ job' = NoJob
    /\ pc' = "copyFils"
    /\ UNCHANGED <<locs, ids, clock, want, aborted, errored, maps, fixes, play>>

FilsDone ==
    /\ pc = "copyFils"
    /\ todo = {}
    /\ pc' = "repair"
    /\ UNCHANGED <<data, cycle, play>>

\* repairFilamentParentIds: what the other side says the parent is, for rows
\* that lost theirs and were written since the maps were built.
ExpectedVerbatim(side, f) ==        \* mutant: the other side's id, untranslated
    IF fils[Other(side)][f] = None THEN None ELSE fils[Other(side)][f].parent
Expected(side, f) ==
    LET there == fils[Other(side)][f] IN
    IF /\ there # None
       /\ there.parent \in {Other(side)} \X ids
       /\ Has(Other(side), there.parent[2]) /\ Has(side, there.parent[2])
    THEN Id(side, there.parent[2]) ELSE None

TouchedIfNew(side, f) == before[side][f] = None     \* mutant: GH #128 alone
Touched(side, f) == UpdOf(before[side][f]) # UpdOf(fils[side][f])

Dangling(side, f) ==
    LET p == fils[side][f].parent
    IN  p # None /\ (p[1] # side \/ ~Has(side, p[2]))

\* Mutants: only one of the two shapes is repaired.
NeedsParentIfDangling(side, f) == f \in ids /\ Has(side, f) /\ Dangling(side, f)
NeedsParentIfNull(side, f) ==
    /\ f \in ids /\ Has(side, f)
    /\ fils[side][f].parent = None
    /\ Expected(side, f) # None
    /\ Touched(side, f)
NeedsParent(side, f) ==
    /\ f \in ids /\ Has(side, f)
    /\ \/ /\ fils[side][f].parent = None
          /\ Expected(side, f) # None
          /\ Touched(side, f)
       \/ Dangling(side, f)

ReadParents ==
    /\ pc = "repair"
    /\ IF aborted \/ "filaments" \in errored
       THEN fixes' = {} /\ pc' = "end"
       ELSE /\ fixes' = {[side |-> sf[1], row |-> sf[2],
                          ref |-> Expected(sf[1], sf[2])] :
                            sf \in {x \in Sides \X Fils : NeedsParent(x[1], x[2])}}
            /\ pc' = "fixParents"
    /\ UNCHANGED <<data, aborted, errored, todo, maps, job, play>>

FixParent(x) ==
    /\ pc = "fixParents"
    /\ x \in fixes
    /\ fils' = [fils EXCEPT ![x.side][x.row].parent = x.ref]
    /\ fixes' = fixes \ {x}
    /\ UNCHANGED <<locs, ids, clock, want, pc, aborted, errored, todo, maps,
                   job, play>>

ParentsFixed ==
    /\ pc = "fixParents"
    /\ fixes = {}
    /\ pc' = "end"
    /\ UNCHANGED <<data, cycle, play>>

Forget ==
    /\ pc' = "idle"
    /\ todo' = {} /\ fixes' = {} /\ job' = NoJob
    /\ locMap' = NoMap /\ filMap' = NoMap
    /\ before' = NoFils /\ seen' = NoFils

EndCycle ==
    /\ pc = "end"
    /\ Forget
    /\ UNCHANGED <<data, aborted, errored, play>>

CycleStep ==
    \/ StartCycle
    \/ ReadLocs \/ (\E l \in Locs : CopyLoc(l)) \/ LocsDone
    \/ BuildLocMaps \/ RepairSpools \/ BackfillFils \/ BuildFilMaps
    \/ ReadFils \/ (\E f \in Fils : Hydrate(f)) \/ WriteCopy \/ FilsDone
    \/ ReadParents \/ (\E x \in fixes : FixParent(x)) \/ ParentsFixed
    \/ EndCycle

-----------------------------------------------------------------------------
(* What can go wrong.                                                      *)

Fault == play.faults < play.limit /\ play' = [play EXCEPT !.faults = @ + 1]

\* A location the remote refuses, a connection lost between two of them.
LocsFail ==
    /\ pc = "copyLocs" /\ todo # {}
    /\ Fault
    /\ errored' = errored \cup {"locations"}
    /\ todo' = {}
    /\ pc' = "locMaps"
    /\ UNCHANGED <<data, aborted, maps, job, fixes>>

FilsFail ==
    /\ pc \in {"copyFils", "write"} /\ todo # {}
    /\ Fault
    /\ errored' = errored \cup {"filaments"}
    /\ todo' = {} /\ job' = NoJob
    /\ pc' = "repair"
    /\ UNCHANGED <<data, aborted, maps, fixes>>

\* The repairs are best-effort: their errors are logged and the cycle goes on.
SpoolRepairFails ==
    /\ pc \in {"fixLocal", "fixRemote"} /\ fixes # {}
    /\ Fault
    /\ fixes' = {}
    /\ pc' = "backfill"
    /\ UNCHANGED <<data, aborted, errored, todo, maps, job>>

ParentRepairFails ==
    /\ pc = "fixParents" /\ fixes # {}
    /\ Fault
    /\ fixes' = {}
    /\ pc' = "end"
    /\ UNCHANGED <<data, aborted, errored, todo, maps, job>>

\* destroy(): the user switches the connection mode, or quits.
Abort ==
    /\ pc # "idle" /\ ~aborted
    /\ Fault
    /\ aborted' = TRUE
    /\ UNCHANGED <<data, pc, errored, todo, maps, job, fixes>>

\* The process dies, or an error outside the collections ends the cycle.
Crash ==
    /\ pc # "idle"
    /\ Fault
    /\ Forget
    /\ UNCHANGED <<data, aborted, errored>>

-----------------------------------------------------------------------------
SyncFairness == WF_vars(CycleStep)

CollectionFails == LocsFail \/ FilsFail
CycleFails ==
    \/ CollectionFails \/ SpoolRepairFails \/ ParentRepairFails
    \/ Abort \/ Crash
Next == AppNext \/ CycleStep \/ CycleFails
Spec == Init /\ [][Next]_vars /\ SyncFairness

\* Nobody writes while a cycle is under way; the cycle may still fail.
QuietApp  == pc = "idle" /\ AppNext
QuietNext == QuietApp \/ CycleStep \/ CycleFails
QuietSpec == Init /\ [][QuietNext]_vars /\ SyncFairness

\* Writes at any moment, no failures.
BusyNext == AppNext \/ CycleStep
BusySpec == Init /\ [][BusyNext]_vars /\ SyncFairness

-----------------------------------------------------------------------------
\* Every variable keeps its type; in particular a reference is an id of one of
\* the two databases or null, and never what a failed lookup returns.
TypeOK ==
    /\ locs \in [Sides -> SUBSET Locs]
    /\ fils \in [Sides -> [Fils -> Fil \cup {None}]]
    /\ ids \subseteq Locs \cup Fils
    /\ clock \in Nat
    /\ want \in [Fils -> Wanted \cup {None}]
    /\ pc \in {"idle", "locations", "copyLocs", "locMaps", "spoolsLocal",
               "fixLocal", "spoolsRemote", "fixRemote", "backfill", "filMaps",
               "filaments", "copyFils", "write", "repair", "fixParents", "end"}
    /\ aborted \in BOOLEAN
    /\ errored \subseteq {"locations", "filaments"}
    /\ todo \subseteq Locs \cup Fils
    /\ locMap \in [Sides -> SUBSET Locs]
    /\ filMap \in [Sides -> SUBSET Fils]
    /\ before \in [Sides -> [Fils -> Fil \cup {None}]]
    /\ seen \in [Sides -> [Fils -> Fil \cup {None}]]
    /\ job \in [row : Fils, to : Sides, full : Fil] \cup {NoJob}
    /\ fixes \subseteq [side : Sides, row : Fils, ref : Ref(Locs) \cup Ref(Fils)]
    /\ play \in Play

\* Whatever fails and whenever the application writes, no filament refers to a
\* location or a parent its own database does not have: a reference that cannot
\* be translated is dropped, never carried over as the other database's id.
RefsResolve ==
    play.legacy = {} => \A side \in Sides, f \in Fils : Has(side, f) =>
        /\ fils[side][f].loc \in {Id(side, l) : l \in locs[side] \cup {None}}
        /\ fils[side][f].parent \in {Id(side, p) : p \in HeldFils(side) \cup {None}}

\* A row under the timestamp of the latest write has that write's references,
\* as the same database's ids.
LocAsWritten(side, f) ==
    (Has(side, f) /\ fils[side][f].upd = want[f].upd) =>
        fils[side][f].loc = Id(side, want[f].loc)
ParentAsWritten(side, f) ==
    (Has(side, f) /\ fils[side][f].upd = want[f].upd) =>
        fils[side][f].parent = Id(side, want[f].parent)

\* Locations are never lost to a failure: whichever step of a cycle fails,
\* aborts or dies, no copy drops a spool's location ("Dependent collections are
\* SKIPPED rather than run with stale syncId maps").
LocsKept ==
    play.legacy = {} => \A side \in Sides, f \in Fils : LocAsWritten(side, f)

\* The database an assignment was made in keeps it: the repair is for a spool
\* "whose locationId doesn't match a current location ObjectId on that side".
OwnLocKept ==
    \A f \in Fils : want[f] # None => LocAsWritten(want[f].side, f)

\* Between cycles every parent link is what the user wrote, although a variant
\* may be copied before its parent (GH #128, GH #131), as long as none failed.
ParentsKeptAtRest ==
    (pc = "idle" /\ play.legacy = {} /\ play.faults = 0) =>
        \A side \in Sides, f \in Fils : ParentAsWritten(side, f)

\* A variant the user has detached stays detached ("Untouched rows are user
\* territory - last-write-wins handles real edits on the next pass").
DetachKept ==
    \A side \in Sides, f \in Fils :
        (want[f] # None /\ want[f].parent = None) => ParentAsWritten(side, f)

\* Every filament reaches both databases, with the location last given to it.
LocsSettled ==
    \A side \in Sides, f \in Fils : want[f] # None =>
        /\ Has(side, f)
        /\ fils[side][f].upd = want[f].upd
        /\ LocAsWritten(side, f)

LocsSettle == <>[](play.legacy = {} => LocsSettled)

\* Locations that dangle since an old version synced the databases (time 1 is
\* theirs) heal, unless a row is edited AND something fails: a cycle whose
\* repair failed copies the edited row with the location it could not translate.
LocsHeal == <>[]((clock = 1 \/ play.faults = 0) => LocsSettled)

\* Parents that dangle since an old version synced the databases heal, whatever
\* fails on the way, as long as nobody edits a filament (time 1 is theirs).
ParentsHeal ==
    <>[](clock = 1 => \A side \in Sides, f \in Fils : ParentAsWritten(side, f))

\* A null that the copy put in place of a parent is replaced in the end.
ParentsSettle ==
    <>[](\A side \in Sides, f \in Fils : ParentAsWritten(side, f))

\* What the user linked stays linked, and what an old version broke is mended,
\* whatever failed on the way (GH #116, GH #128).
LinksKept == LocsKept /\ ParentsKeptAtRest
LinksHeal == LocsSettle /\ LocsHeal /\ ParentsHeal
=============================================================================
