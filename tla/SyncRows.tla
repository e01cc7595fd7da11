------------------------------ MODULE SyncRows ------------------------------
(***************************************************************************)
(* The row loop of hybrid sync (electron/sync-service.ts, syncCollection): *)
(* several sync services copy the rows of one collection between their     *)
(* local database and a shared remote one, last write wins, while the      *)
(* application keeps writing to every database.                            *)
(*                                                                         *)
(* A service reads the flags and timestamps of both sides once (the slim   *)
(* reads), decides every row from what it read, fetches a whole document   *)
(* only when it has to copy one, and writes by _id alone: each of these is *)
(* a step of its own here, and everyone else may act between two of them.  *)
(*                                                                         *)
(* Rows are keyed by syncId.  Names (and the rename staging they need) and *)
(* references between collections are the business of other modules.       *)
(***************************************************************************)
EXTENDS Naturals, FiniteSets

CONSTANTS
    Rows,       \* the syncIds that may come to exist
    Services,   \* the running SyncService instances
    Locals,     \* the local databases
    Remote,     \* the shared (Atlas) database
    LocalOf,    \* the local database each service was started on
    Fields,     \* the optional fields a document body may carry
    NoDoc,      \* "no document with this syncId"
    Quiet,      \* TRUE: nobody uses the application while a pass is under way
    MaxTime,    \* bound on the application's timestamps
    MaxReqs,    \* bound on restore/purge requests in flight
    MaxFails    \* bound on passes that die half way

ASSUME ServicesAssumption ==
    /\ LocalOf \in [Services -> Locals]
    /\ Remote \notin Locals

ASSUME BoundsAssumption ==
    Quiet \in BOOLEAN /\ MaxTime \in Nat /\ MaxReqs \in Nat /\ MaxFails \in Nat

Stores == Locals \cup {Remote}
Sides  == {"local", "remote"}

\* A timestamp is a number; 0 is a null _deletedAt.  A body is the set of
\* optional fields the document has, because a copy must also delete fields.
Doc  == [body : SUBSET Fields, upd : Nat, del : Nat, purged : BOOLEAN]
Slim == [upd : Nat, del : Nat, purged : BOOLEAN]

ASSUME NoDocAssumption == NoDoc \notin Doc \cup Slim

VARIABLES
    store,      \* store[db][row]: the databases
    clock,      \* the time of the latest application write
    reqs,       \* restore and purge requests between their check and write
    pc,         \* pc[s]: where the service's pass stands
    snap,       \* snap[s][side][row]: what the slim reads returned
    todo,       \* todo[s]: rows whose outcome is still to be applied
    job,        \* job[s]: the copy whose source has been hydrated
    fails,      \* passes that died so far
    dirty,      \* history: rows of s's pair that others wrote since its reads
    last        \* history: the latest application write to each row

app  == <<clock, reqs, last>>
vars == <<store, clock, reqs, pc, snap, todo, job, fails, dirty, last>>

Other(side) == IF side = "local" THEN "remote" ELSE "local"
Db(s, side) == IF side = "local" THEN LocalOf[s] ELSE Remote
Pair(s)     == {LocalOf[s], Remote}

NoSnap == [side \in Sides |-> [r \in Rows |-> NoDoc]]
NoJob  == [row |-> NoDoc, to |-> "local", kind |-> "none", full |-> NoDoc]

IsLive(d)    == d.del = 0
SlimUnprojected(d) == d     \* mutant: the slim read without its projection
SlimOf(d)    == IF d = NoDoc THEN NoDoc
                ELSE [upd |-> d.upd, del |-> d.del, purged |-> d.purged]

-----------------------------------------------------------------------------
(* The decision the row loop takes for a row, read as "what goes from a    *)
(* document a to the other side's document b".  At most one of the two     *)
(* directions has an outcome other than "none".                            *)

\* Mutants of Outcome: the live side survives a tie (before GH #317); a purge is
\* an ordinary delete (before GH #213); the older side wins; a delete wins over
\* any edit.
OutcomeTieLives(a, b) ==
    IF a = NoDoc THEN "none"
    ELSE IF b = NoDoc THEN "insert"
    ELSE IF a.purged \/ b.purged
         THEN IF a.purged /\ ~b.purged THEN "purge" ELSE "none"
    ELSE IF ~IsLive(a) /\ IsLive(b) /\ a.del > b.upd THEN "delete"
    ELSE IF IsLive(a) /\ ~IsLive(b) /\ a.upd > b.del THEN "resurrect"
    ELSE IF IsLive(a) /\ IsLive(b) /\ a.upd > b.upd THEN "update"
    ELSE "none"

OutcomePurgeIsDelete(a, b) ==
    IF a = NoDoc THEN "none"
    ELSE IF b = NoDoc THEN "insert"
    ELSE IF ~IsLive(a) /\ IsLive(b) /\ a.del >= b.upd THEN "delete"
    ELSE IF IsLive(a) /\ ~IsLive(b) /\ a.upd > b.del THEN "resurrect"
    ELSE IF IsLive(a) /\ IsLive(b) /\ a.upd > b.upd THEN "update"
    ELSE "none"

OutcomeOlderWins(a, b) ==
    IF a = NoDoc THEN "none"
    ELSE IF b = NoDoc THEN "insert"
    ELSE IF a.purged \/ b.purged
         THEN IF a.purged /\ ~b.purged THEN "purge" ELSE "none"
    ELSE IF ~IsLive(a) /\ IsLive(b) /\ a.del >= b.upd THEN "delete"
    ELSE IF IsLive(a) /\ ~IsLive(b) /\ a.upd > b.del THEN "resurrect"
    ELSE IF IsLive(a) /\ IsLive(b) /\ a.upd < b.upd THEN "update"
    ELSE "none"

OutcomeDeleteWins(a, b) ==
    IF a = NoDoc THEN "none"
    ELSE IF b = NoDoc THEN "insert"
    ELSE IF a.purged \/ b.purged
         THEN IF a.purged /\ ~b.purged THEN "purge" ELSE "none"
    ELSE IF ~IsLive(a) /\ IsLive(b) THEN "delete"
    ELSE IF IsLive(a) /\ IsLive(b) /\ a.upd > b.upd THEN "update"
    ELSE "none"

Outcome(a, b) ==
    IF a = NoDoc THEN "none"
    ELSE IF b = NoDoc THEN "insert"
    ELSE IF a.purged \/ b.purged
         THEN IF a.purged /\ ~b.purged THEN "purge" ELSE "none"
    ELSE IF ~IsLive(a) /\ IsLive(b) /\ a.del >= b.upd THEN "delete"
    ELSE IF IsLive(a) /\ ~IsLive(b) /\ a.upd > b.del THEN "resurrect"
    ELSE IF IsLive(a) /\ IsLive(b) /\ a.upd > b.upd THEN "update"
    ELSE "none"

FlagKinds == {"purge", "delete"}
CopyKinds == {"insert", "resurrect", "update"}

\* What a pass of s intends for row r in the direction of `to`.
Intent(s, r, to) == Outcome(snap[s][Other(to)][r], snap[s][to][r])

\* Paired rows come before the rows that exist on one side only.
Unpaired(s, r) == \E side \in Sides : snap[s][side][r] = NoDoc
Turn(s, r) ==
    /\ r \in todo[s]
    /\ Unpaired(s, r) => \A q \in todo[s] : Unpaired(s, q)

\* The two $set writes carry flags only: the source's tombstone date, or the
\* present when a purged source has none.  `updatedAt` stays as it was.
FlagWrite(kind, a, d) ==
    IF kind = "purge"
    THEN [d EXCEPT !.purged = TRUE,
                   !.del = IF a.del # 0 THEN a.del ELSE clock]
    ELSE [d EXCEPT !.del = a.del]

\* A whole-document copy.  An insert that meets a document with its syncId is
\* refused by the unique index and swallowed; the others are a replaceOne, so
\* that fields the source dropped go away; a resurrect lifts the tombstone.
CopyWriteBySet(kind, full, d) ==    \* mutant: $set instead of replaceOne
    CASE kind = "insert"    -> IF d = NoDoc THEN full ELSE d
      [] kind = "resurrect" -> [full EXCEPT !.del = 0, !.body = @ \cup d.body]
      [] OTHER              -> [full EXCEPT !.body = @ \cup d.body]

CopyWrite(kind, full, d) ==
    CASE kind = "insert"    -> IF d = NoDoc THEN full ELSE d
      [] kind = "resurrect" -> [full EXCEPT !.del = 0]
      [] OTHER              -> full

\* retombstonePurgedZombies: purged rows without a tombstone date get one.
Retombstone(d) ==
    IF d # NoDoc /\ d.purged /\ IsLive(d) THEN [d EXCEPT !.del = clock] ELSE d

-----------------------------------------------------------------------------
Init ==
    /\ store = [st \in Stores |-> [r \in Rows |-> NoDoc]]
    /\ clock = 0
    /\ reqs = {}
    /\ pc    = [s \in Services |-> "idle"]
    /\ snap  = [s \in Services |-> NoSnap]
    /\ todo  = [s \in Services |-> {}]
    /\ job   = [s \in Services |-> NoJob]
    /\ fails = 0
    /\ dirty = [s \in Services |-> {}]
    /\ last  = [r \in Rows |-> NoDoc]

\* A pass holds what it read of its pair from its first slim read to its end.
\* Whoever writes rows rs of database st disturbs the passes of all services
\* but its own on these rows.
Holding(s) == pc[s] \in {"readRemote", "rows", "copy"}

Disturb(own, st, rs) ==
    dirty' = [s \in Services |->
                IF s \notin own /\ st \in Pair(s) /\ Holding(s)
                THEN dirty[s] \cup rs
                ELSE dirty[s]]

Put(st, r, d) == store' = [store EXCEPT ![st][r] = d]

\* A purge is for good whatever is written to another copy afterwards.
Remember(r, d) ==
    last' = [last EXCEPT ![r] =
                IF last[r] # NoDoc /\ last[r].purged THEN last[r] ELSE d]

-----------------------------------------------------------------------------
(* The application's writes.  Each stamps `updatedAt`; two of them never   *)
(* fall into the same millisecond, except that a delete may share one with *)
(* the edit before it, and its tombstone date may be one tick older than   *)
(* its `updatedAt`.                                                        *)

\* When Quiet, nobody writes while a pass is under way: the setting in which
\* last-write-wins is promised.  Passes may still overlap each other.
AllIdle  == \A s \in Services : pc[s] = "idle"
MayWrite == Quiet => AllIdle

AppWrite(st, r, d) ==
    /\ MayWrite
    /\ Put(st, r, d)
    /\ clock' = d.upd
    /\ Remember(r, d)
    /\ Disturb({}, st, {r})
    /\ UNCHANGED <<pc, snap, todo, job, fails>>

AppCreate(st, r) ==
    /\ clock < MaxTime
    /\ \A db \in Stores : store[db][r] = NoDoc
    /\ \E b \in SUBSET Fields :
          AppWrite(st, r, [body |-> b, upd |-> clock + 1, del |-> 0,
                           purged |-> FALSE])
    /\ UNCHANGED reqs

AppEdit(st, r) ==
    /\ clock < MaxTime
    /\ store[st][r] # NoDoc
    /\ IsLive(store[st][r])
    /\ \E b \in SUBSET Fields :
          AppWrite(st, r, [store[st][r] EXCEPT !.body = b, !.upd = clock + 1])
    /\ UNCHANGED reqs

AppDelete(st, r) ==
    /\ clock < MaxTime
    /\ store[st][r] # NoDoc
    /\ IsLive(store[st][r])
    /\ \E t, u \in {clock, clock + 1} :
          /\ t > 0 /\ t <= u
          /\ u = clock => store[st][r].upd = clock
          /\ AppWrite(st, r, [store[st][r] EXCEPT !.del = t, !.upd = u])
    /\ UNCHANGED reqs

\* Restore and "delete forever" first look the row up in the trash ...
InTrash(d) == d # NoDoc /\ ~IsLive(d) /\ ~d.purged

AppRequest(st, r, kind) ==
    /\ MayWrite
    /\ Cardinality(reqs) < MaxReqs
    /\ InTrash(store[st][r])
    /\ reqs' = reqs \cup {[db |-> st, row |-> r, kind |-> kind]}
    /\ UNCHANGED <<store, clock, pc, snap, todo, job, fails, dirty, last>>

\* ... and then write by _id, whatever the row has become: save() sends the
\* one path that changed, the permanent delete sends its two flags.
AppRestore(q) ==
    /\ q \in reqs /\ q.kind = "restore"
    /\ clock < MaxTime
    /\ AppWrite(q.db, q.row,
                [store[q.db][q.row] EXCEPT !.del = 0, !.upd = clock + 1])
    /\ reqs' = reqs \ {q}

AppPurge(q) ==
    /\ q \in reqs /\ q.kind = "purge"
    /\ clock < MaxTime
    /\ AppWrite(q.db, q.row,
                [store[q.db][q.row] EXCEPT !.del = clock + 1,
                                           !.upd = clock + 1,
                                           !.purged = TRUE])
    /\ reqs' = reqs \ {q}

AppNext ==
    \/ \E st \in Stores, r \in Rows :
          \/ AppCreate(st, r)
          \/ AppEdit(st, r)
          \/ AppDelete(st, r)
          \/ \E kind \in {"restore", "purge"} : AppRequest(st, r, kind)
    \/ \E q \in reqs : AppRestore(q) \/ AppPurge(q)

-----------------------------------------------------------------------------
(* A service's pass.                                                       *)

Zombies(st) == {r \in Rows : Retombstone(store[st][r]) # store[st][r]}

RepairZombies(s, side, from, to) ==
    LET st == Db(s, side) IN
    /\ pc[s] = from
    /\ store' = [store EXCEPT ![st] = [r \in Rows |-> Retombstone(store[st][r])]]
    /\ pc' = [pc EXCEPT ![s] = to]
    /\ Disturb({s}, st, Zombies(st))
    /\ UNCHANGED <<app, snap, todo, job, fails>>

StartPass(s)     == RepairZombies(s, "local", "idle", "zombies")
RemoteZombies(s) == RepairZombies(s, "remote", "zombies", "readLocal")

SlimRead(s, side, from, to) ==
    /\ pc[s] = from
    /\ snap' = [snap EXCEPT ![s][side] =
                   [r \in Rows |-> SlimOf(store[Db(s, side)][r])]]
    /\ pc' = [pc EXCEPT ![s] = to]
    /\ UNCHANGED <<store, app, job, fails, dirty>>

ReadLocal(s) ==
    /\ SlimRead(s, "local", "readLocal", "readRemote")
    /\ UNCHANGED todo

ReadRemote(s) ==
    /\ SlimRead(s, "remote", "readRemote", "rows")
    /\ todo' = [todo EXCEPT ![s] =
                   {r \in Rows : \E to \in Sides :
                       Outcome(snap'[s][Other(to)][r], snap'[s][to][r]) # "none"}]

WriteFlags(s, r, to) ==
    LET st == Db(s, to) IN
    /\ pc[s] = "rows"
    /\ Turn(s, r)
    /\ Intent(s, r, to) \in FlagKinds
    /\ Put(st, r, FlagWrite(Intent(s, r, to), snap[s][Other(to)][r],
                            store[st][r]))
    /\ todo' = [todo EXCEPT ![s] = @ \ {r}]
    /\ Disturb({s}, st, {r})
    /\ UNCHANGED <<app, pc, snap, job, fails>>

Hydrate(s, r, to) ==
    /\ pc[s] = "rows"
    /\ Turn(s, r)
    /\ Intent(s, r, to) \in CopyKinds
    /\ job' = [job EXCEPT ![s] = [row |-> r, to |-> to,
                                  kind |-> Intent(s, r, to),
                                  full |-> store[Db(s, Other(to))][r]]]
    /\ pc' = [pc EXCEPT ![s] = "copy"]
    /\ UNCHANGED <<store, app, snap, todo, fails, dirty>>

Copy(s) ==
    LET j  == job[s]
        st == Db(s, j.to)
    IN
    /\ pc[s] = "copy"
    /\ Put(st, j.row, CopyWrite(j.kind, j.full, store[st][j.row]))
    /\ pc'   = [pc EXCEPT ![s] = "rows"]
    /\ todo' = [todo EXCEPT ![s] = @ \ {j.row}]
    /\ job'  = [job EXCEPT ![s] = NoJob]
    /\ Disturb({s}, st, {j.row})
    /\ UNCHANGED <<app, snap, fails>>

EndPass(s) ==
    /\ pc'   = [pc EXCEPT ![s] = "idle"]
    /\ snap' = [snap EXCEPT ![s] = NoSnap]
    /\ todo' = [todo EXCEPT ![s] = {}]
    /\ job'  = [job EXCEPT ![s] = NoJob]
    /\ dirty' = [dirty EXCEPT ![s] = {}]
    /\ UNCHANGED <<store, app>>

FinishPass(s) ==
    /\ pc[s] = "rows"
    /\ todo[s] = {}
    /\ EndPass(s)
    /\ UNCHANGED fails

\* A lost connection, a rejected write, the process ending: what was written
\* stays written, the rest of the pass never happens.
PassFails(s) ==
    /\ pc[s] # "idle"
    /\ fails < MaxFails
    /\ EndPass(s)
    /\ fails' = fails + 1

PassStep(s) ==
    \/ StartPass(s)
    \/ RemoteZombies(s)
    \/ ReadLocal(s)
    \/ ReadRemote(s)
    \/ \E r \in Rows, to \in Sides : WriteFlags(s, r, to) \/ Hydrate(s, r, to)
    \/ Copy(s)
    \/ FinishPass(s)

SyncNext == \E s \in Services : PassStep(s) \/ PassFails(s)

Next == AppNext \/ SyncNext

Fairness == \A s \in Services : WF_vars(PassStep(s))

Spec     == Init /\ [][Next]_vars
FairSpec == Spec /\ Fairness

-----------------------------------------------------------------------------
Job == [row : Rows, to : Sides, kind : CopyKinds, full : Doc]

\* Every variable keeps its type; in particular a copy never starts from a
\* document that is not there and a flag is never set on a missing one.
TypeOK ==
    /\ store \in [Stores -> [Rows -> Doc \cup {NoDoc}]]
    /\ clock \in Nat
    /\ reqs \subseteq [db : Stores, row : Rows, kind : {"restore", "purge"}]
    /\ pc \in [Services -> {"idle", "zombies", "readLocal", "readRemote",
                            "rows", "copy"}]
    /\ snap \in [Services -> [Sides -> [Rows -> Slim \cup {NoDoc}]]]
    /\ todo \in [Services -> SUBSET Rows]
    /\ job \in [Services -> Job \cup {NoJob}]
    /\ fails \in Nat
    /\ dirty \in [Services -> SUBSET Rows]
    /\ last \in [Rows -> Doc \cup {NoDoc}]

\* Two copies of a row with the same `updatedAt` have the same body.  The row
\* loop leaves pairs with equal timestamps alone for ever ("no action needed"),
\* so a copy that kept some of the target's fields under the source's
\* timestamp would freeze a divergence no later pass repairs.
SameStampSameBody ==
    \A r \in Rows : \A a, b \in Stores :
        LET da == store[a][r]
            db == store[b][r]
        IN (da # NoDoc /\ db # NoDoc /\ da.upd = db.upd) => da.body = db.body

\* What the row loop means by two sides having converged on a row.
Agree(a, b) ==
    IF a = NoDoc \/ b = NoDoc THEN a = b
    ELSE /\ a.purged = b.purged
         /\ a.purged \/ (IsLive(a) = IsLive(b))
         /\ (~a.purged /\ IsLive(a)) => (a.upd = b.upd /\ a.body = b.body)

\* Once a pass is through with a row that nobody else wrote since the pass read
\* it, both databases agree on the row: the decision from the slim reads and
\* the write that follows, several steps later, together settle the pair.
UndisturbedRowsAgree ==
    \A s \in Services : pc[s] \in {"rows", "copy"} =>
        \A r \in Rows \ (todo[s] \cup dirty[s]) :
            Agree(store[LocalOf[s]][r], store[Remote][r])

\* The latest write to a row is still somewhere: the document that carries its
\* timestamp has not been replaced in every database by an older one.  This is
\* the README's "last-write-wins conflict resolution".
LatestWriteSurvives ==
    \A r \in Rows : last[r] # NoDoc =>
        \E st \in Stores : /\ store[st][r] # NoDoc
                           /\ store[st][r].upd >= last[r].upd

\* "It's a one-way flag - once set on either peer, it wins over any other
\* state": a row that was deleted for ever is marked so in some database.
PurgeSurvives ==
    \A r \in Rows : (last[r] # NoDoc /\ last[r].purged) =>
        \E st \in Stores : store[st][r] # NoDoc /\ store[st][r].purged

\* After the last application write the databases end up agreeing on every
\* row, however the passes interleave with each other and with that write.
Converges ==
    <>[](\A r \in Rows : \A a, b \in Stores : Agree(store[a][r], store[b][r]))
=============================================================================
