------------------------------ MODULE SyncNames ------------------------------
(***************************************************************************)
(* Names in hybrid sync (electron/sync-service.ts, syncCollection; the     *)
(* pure part in src/lib/renameStaging.ts).  Live rows of a collection have *)
(* different names, a unique index sees to that, and a copy whose name     *)
(* another row still holds is refused.  If that row is itself about to be  *)
(* renamed, the pass moves it aside to a placeholder (GH #1142), records   *)
(* that in a durable queue first (GH #1153), and settles at its end what   *)
(* was not renamed after all.  A pass begins by sweeping what dead passes  *)
(* left; a record is left alone until it is old.                           *)
(*                                                                         *)
(* Several services share the remote database, users write everywhere, and *)
(* a pass may die between any two steps.  How rows are compared is that of *)
(* SyncRows, without purges; names are trimmed, and every row has its      *)
(* syncId (reconcileByName and the trim pass are left out).                *)
(***************************************************************************)
EXTENDS Naturals, FiniteSets

CONSTANTS
    Rows, Names, Locals, Remote,
    Services, LocalOf,  \* the local database each service was started on
    NoDoc, None,
    Nonces, Dates,  \* more than there are placeholders and records at once
    Plays,          \* what is in the databases at first, and what goes wrong
    MaxTime,        \* bound on timestamps
    MaxCrashes      \* bound on passes that die, and on writes that fail

Stores == Locals \cup {Remote}
Sides == {"local", "remote"}
Placeholders == [row : Rows, nonce : Nonces]
IsPlaceholder(n) == n \in Placeholders

\* `del` is 0 for a row that is not in the trash.
Doc == [name : Names \cup Placeholders, upd : 0..MaxTime, del : 0..MaxTime]
Live(d) == d # NoDoc /\ d.del = 0
Stranded(d) == Live(d) /\ IsPlaceholder(d.name)

\* services: those that run, once: those that run one pass; docs; edits: writes of users, and of which kinds;
\* crashes: passes that die; fails: writes that fail.
Play == [services : SUBSET Services, once : SUBSET Services,
         docs : [Stores -> [Rows -> [name : Names, upd : 0..MaxTime, del : 0..MaxTime] \cup {NoDoc}]],
         edits : 0..MaxTime, kinds : SUBSET {"name", "trash", "restore", "create"},
         crashes : [Services -> 0..MaxCrashes], fails : 0..MaxCrashes]

ASSUME SyncNamesAssumption ==
    /\ LocalOf \in [Services -> Locals] /\ Remote \notin Locals
    /\ Names \cap Placeholders = {} /\ None \notin Names \cup Nonces /\ NoDoc \notin Doc
    /\ Plays \subseteq Play
    /\ \A p \in Plays, db \in Stores : \A q, r \in Rows :
          (Live(p.docs[db][q]) /\ Live(p.docs[db][r]) /\ p.docs[db][q].name = p.docs[db][r].name)
             => q = r
    /\ MaxTime \in Nat /\ MaxCrashes \in Nat

VARIABLES
    play,
    doc,        \* doc[db][row]
    clock,      \* the time of the latest write of a user
    queue,      \* queue[db]: "renameStagingRestores" of its _migrations
    pass,       \* pass[s]: the pass of a service
    dirty,      \* history: rows of its pair that others wrote since it read them
    lapsed      \* history: placeholders whose record was given up

vars == <<play, doc, clock, queue, pass, dirty, lapsed>>

Db(s, side) == IF side = "local" THEN LocalOf[s] ELSE Remote
Other(side) == IF side = "local" THEN "remote" ELSE "local"

\* The unique index is partial: only live rows count.
Holder(db, n) == {r \in Rows : Live(doc[db][r]) /\ doc[db][r].name = n}
Free(db, r, n) == Holder(db, n) \subseteq {r}

\* entries, covered, strays: what the sweep of `side` has read; held: the rows
\* whose names do not move in this pass (quarantinedSyncIds); todo: rows whose turn
\* is still to come; staged: rows this pass moved aside; bad: the result has an
\* error.
NoJob == [row |-> None, to |-> "local", kind |-> "none", full |-> NoDoc, blocker |-> None,
          o |-> None]
Idle == [pc |-> "idle", side |-> "local", entries |-> {}, covered |-> {}, strays |-> {},
         held |-> {}, snap |-> [side \in Sides |-> [r \in Rows |-> NoDoc]], todo |-> {},
         job |-> NoJob, staged |-> {}, nonce |-> None, drain |-> None, bad |-> FALSE]

Init ==
    /\ play \in Plays
    /\ doc = play.docs
    /\ clock = MaxTime - play.edits
    /\ queue = [db \in Stores |-> {}]
    /\ pass = [s \in Services |-> Idle]
    /\ dirty = [s \in Services |-> {}]
    /\ lapsed = {}

\* Whoever writes row r of db disturbs the passes of all services but `own`.
Disturbed(own, db, r) == [s \in Services |->
    IF s \notin own /\ db \in {LocalOf[s], Remote} /\ pass[s].pc # "idle"
    THEN dirty[s] \cup {r} ELSE dirty[s]]

Put(own, db, r, d) ==
    /\ doc' = [doc EXCEPT ![db][r] = d]
    /\ dirty' = Disturbed(own, db, r)

Named(own, db, r, n) == Put(own, db, r, [doc[db][r] EXCEPT !.name = n])
SameDocs == UNCHANGED <<doc, dirty>>

-----------------------------------------------------------------------------
(* Users.  Their writes are refused when the name is taken.                *)

Write(kind, db, r, d) ==
    /\ play.edits > 0 /\ play' = [play EXCEPT !.edits = @ - 1]
    /\ kind \in play.kinds
    /\ clock' = clock + 1
    /\ Live(d) => Free(db, r, d.name)
    /\ Put({}, db, r, [d EXCEPT !.upd = clock + 1])
    /\ UNCHANGED <<queue, pass, lapsed>>

\* Any edit; one that does not rename saves the name that is there.
Edit(db, r, n) ==
    /\ Live(doc[db][r])
    /\ Write("name", db, r, [doc[db][r] EXCEPT !.name = n])

Trash(db, r) ==
    /\ Live(doc[db][r])
    /\ Write("trash", db, r, [doc[db][r] EXCEPT !.del = clock + 1])

Restore(db, r) ==
    /\ doc[db][r] # NoDoc /\ ~Live(doc[db][r])
    /\ Write("restore", db, r, [doc[db][r] EXCEPT !.del = 0])

Create(db, r, n) ==
    /\ \A st \in Stores : doc[st][r] = NoDoc
    /\ Write("create", db, r, [name |-> n, upd |-> 0, del |-> 0])

User == \E db \in Stores, r \in Rows :
    \/ Live(doc[db][r]) /\ \E n \in Names \cup {doc[db][r].name} : Edit(db, r, n)
    \/ \E n \in Names : Create(db, r, n)
    \/ Trash(db, r) \/ Restore(db, r)

-----------------------------------------------------------------------------
(* Which way a pair of rows goes, and the plan (planRenameStaging).        *)

\* What goes from a to the other side's b; see SyncRows.
Outcome(a, b) ==
    CASE a = NoDoc -> "none"
      [] a # NoDoc /\ b = NoDoc -> "insert"
      [] OTHER ->
         CASE ~Live(a) /\ Live(b) /\ a.del >= b.upd -> "delete"
           [] Live(a) /\ ~Live(b) /\ a.upd > b.del -> "resurrect"
           [] Live(a) /\ Live(b) /\ a.upd > b.upd -> "update"
           [] OTHER -> "none"

Paired(P, r) == \A side \in Sides : P.snap[side][r] # NoDoc
Intent(P, to, r) == Outcome(P.snap[Other(to)][r], P.snap[to][r])

\* desiredNameOn: the name this pass will write there.
Desired(P, to, r) ==
    IF Intent(P, to, r) \in {"update", "resurrect"} THEN P.snap[Other(to)][r].name ELSE None

\* Rows that ask for a name they do not hold; one in the trash holds none.  Two
\* that ask for the same name are both refused.
Movers(P, to) ==
    LET moves(r) == /\ r \notin P.held /\ Desired(P, to, r) # None
                    /\ ~Live(P.snap[to][r]) \/ Desired(P, to, r) # P.snap[to][r].name
    IN {r \in Rows : moves(r) /\ \A q \in Rows \ {r} :
                        moves(q) => Desired(P, to, q) # Desired(P, to, r)}

Blocks(P, to, h, r) == h # r /\ Live(P.snap[to][h]) /\ P.snap[to][h].name = Desired(P, to, r)

\* The rows that can leave their names: the way of each ends at a free name or goes
\* round in a circle.  Of these, the ones that are in another's way may be moved
\* aside.
CanVacateNext(P, to) == Movers(P, to)       \* mutant: looks one step ahead
CanVacate(P, to) ==
    UNION {V \in SUBSET Movers(P, to) :
              \A r \in V, h \in Rows : Blocks(P, to, h, r) => h \in V}
Stageable(P, to) == {h \in CanVacate(P, to) : \E r \in CanVacate(P, to) : Blocks(P, to, h, r)}

\* pairWritesFlagsOnly
FlagsOnly(P, r) ==
    /\ Paired(P, r)
    /\ \/ \A side \in Sides : ~Live(P.snap[side][r])
       \/ \E to \in Sides : Intent(P, to, r) = "delete"

-----------------------------------------------------------------------------
(* The sweep of one side: the records of its queue, then the placeholders  *)
(* that have none.                                                         *)

Set(s, p) == pass' = [pass EXCEPT ![s] = p]
Goto(s, pc) == Set(s, [pass[s] EXCEPT !.pc = pc])
Here(s) == Db(s, pass[s].side)
Rest == UNCHANGED <<play, clock>>

Start(s) ==
    /\ pass[s].pc = "idle" /\ s \in play.services
    /\ Set(s, [Idle EXCEPT !.pc = "queue"])
    /\ dirty' = [dirty EXCEPT ![s] = {}]
    /\ play' = [play EXCEPT !.services = @ \ (play.once \cap {s})]
    /\ UNCHANGED <<doc, clock, queue, lapsed>>

ReadQueue(s) ==
    /\ pass[s].pc = "queue"
    /\ LET es == queue[Here(s)] IN
       Set(s, [pass[s] EXCEPT !.pc = "entries", !.entries = es, !.covered = {e.row : e \in es}])
    /\ SameDocs /\ UNCHANGED <<queue, lapsed>> /\ Rest

\* A live row with a record is held, whatever the record turns out to be.  A young
\* record belongs to a pass that is at work.
Old(e) == e.old

SweepEntry(s) ==
    /\ pass[s].pc = "entries"
    /\ \E e \in pass[s].entries :
          LET d == doc[Here(s)][e.row]
              p == [pass[s] EXCEPT !.entries = @ \ {e}]
              h == [p EXCEPT !.held = @ \cup {e.row}, !.bad = TRUE]
              drained(q) == [q EXCEPT !.pc = "drain", !.drain = e]
          IN \/ /\ ~Live(d) \/ d.name # e.p
                /\ LET q == IF Live(d) THEN h ELSE p IN
                   Set(s, IF Old(e) THEN drained(q) ELSE q)
                /\ SameDocs
             \/ /\ Live(d) /\ d.name = e.p
                /\ IF Old(e) /\ Free(Here(s), e.row, e.o)
                   THEN Set(s, drained(h)) /\ Named({s}, Here(s), e.row, e.o)
                   ELSE Set(s, h) /\ SameDocs
    /\ UNCHANGED <<queue, lapsed>> /\ Rest

\* dequeueRestoreOn: a sweeper takes out the record it has read, not one with
\* another date; the owner whatever there is.
SameKey(e, x) == e.row = x.row /\ e.o = x.o /\ e.p = x.p
SweptAny(e, x) == SameKey(e, x)     \* mutant: whatever its date
Swept(e, x) == SameKey(e, x) /\ e.at = x.at

Drain(s) ==
    /\ pass[s].pc = "drain"
    /\ LET x == pass[s].drain
           d == doc[Here(s)][x.row]
       IN /\ queue' = [queue EXCEPT ![Here(s)] = {e \in @ : ~Swept(e, x)}]
          /\ lapsed' = IF ~Live(d) /\ d.name = x.p
                       THEN lapsed \cup {<<Here(s), x.row, x.p>>} ELSE lapsed
    /\ Set(s, [pass[s] EXCEPT !.pc = "entries", !.drain = None])
    /\ SameDocs /\ Rest

FindStrays(s) ==
    /\ pass[s].pc = "entries" /\ pass[s].entries = {}
    /\ LET found == {r \in Rows : Stranded(doc[Here(s)][r])} \ pass[s].covered IN
       Set(s, [pass[s] EXCEPT !.pc = "strays", !.covered = {},
                              !.strays = {[row |-> r, p |-> doc[Here(s)][r].name] : r \in found}])
    /\ SameDocs /\ UNCHANGED <<queue, lapsed>> /\ Rest

\* A stray is held, whatever becomes of it.  Its pass may have written the record by now.
LookUp(s) ==
    /\ pass[s].pc = "strays"
    /\ \E x \in pass[s].strays :
          LET h == [pass[s] EXCEPT !.held = @ \cup {x.row}, !.bad = TRUE] IN
          Set(s, IF \E e \in queue[Here(s)] : e.row = x.row
                 THEN [h EXCEPT !.strays = @ \ {x}] ELSE [h EXCEPT !.pc = "peer", !.drain = x])
    /\ SameDocs /\ UNCHANGED <<queue, lapsed>> /\ Rest

\* placeholderRestoreTarget: the name of the other side's row, if it has one.
ReadPeer(s) ==
    /\ pass[s].pc = "peer"
    /\ LET x == pass[s].drain
           peer == doc[Db(s, Other(pass[s].side))][x.row]
       IN Set(s, IF peer # NoDoc /\ ~IsPlaceholder(peer.name)
                 THEN [pass[s] EXCEPT !.pc = "heal", !.drain =
                          [side |-> pass[s].side, row |-> x.row, o |-> peer.name, p |-> x.p]]
                 ELSE [pass[s] EXCEPT !.pc = "strays", !.drain = None, !.strays = @ \ {x}])
    /\ SameDocs /\ UNCHANGED <<queue, lapsed>> /\ Rest

Healed(s) == [pass[s] EXCEPT !.pc = "strays", !.drain = None, !.strays =
                 @ \ {[row |-> pass[s].drain.row, p |-> pass[s].drain.p]}]
Heal(s) ==
    /\ pass[s].pc = "heal"
    /\ LET x == pass[s].drain IN
       IF doc[Here(s)][x.row].name = x.p /\ Free(Here(s), x.row, x.o)
       THEN Named({s}, Here(s), x.row, x.o) ELSE SameDocs
    /\ Set(s, Healed(s))
    /\ UNCHANGED <<queue, lapsed>> /\ Rest

EndSweep(s) ==
    /\ pass[s].pc = "strays" /\ pass[s].strays = {}
    /\ Set(s, IF pass[s].side = "local" THEN [pass[s] EXCEPT !.pc = "queue", !.side = "remote"]
              ELSE [pass[s] EXCEPT !.pc = "local"])
    /\ SameDocs /\ UNCHANGED <<queue, lapsed>> /\ Rest

-----------------------------------------------------------------------------
(* The slim reads and the row loop.                                        *)

ReadLocal(s) ==
    /\ pass[s].pc = "local"
    /\ Set(s, [pass[s] EXCEPT !.pc = "remote", !.snap["local"] = doc[LocalOf[s]]])
    /\ SameDocs /\ UNCHANGED <<queue, lapsed>> /\ Rest

\* Rows that were moved aside since the sweep are held as well.
SeenStranded(P) == {r \in Rows : \E side \in Sides : Stranded(P.snap[side][r])}

ReadRemote(s) ==
    /\ pass[s].pc = "remote"
    /\ LET P == [pass[s] EXCEPT !.snap["remote"] = doc[Remote]] IN
       Set(s, [P EXCEPT !.pc = "rows", !.held = @ \cup SeenStranded(P),
                        !.bad = @ \/ SeenStranded(P) # {},
                        !.todo = {r \in Rows : \E to \in Sides : Intent(P, to, r) # "none"}])
    /\ SameDocs /\ UNCHANGED <<queue, lapsed>> /\ Rest

\* Paired rows first.
Turn(s, r) ==
    /\ pass[s].pc = "rows" /\ r \in pass[s].todo
    /\ ~Paired(pass[s], r) => \A q \in pass[s].todo : ~Paired(pass[s], q)

Passed(s, r) == [pass[s] EXCEPT !.todo = @ \ {r}]

HeldBack(s, r) ==
    /\ Turn(s, r) /\ r \in pass[s].held /\ ~FlagsOnly(pass[s], r)
    /\ Set(s, Passed(s, r))
    /\ SameDocs /\ UNCHANGED <<queue, lapsed>> /\ Rest

WriteFlags(s, r, to) ==
    /\ Turn(s, r) /\ Intent(pass[s], to, r) = "delete"
    /\ Put({s}, Db(s, to), r, [doc[Db(s, to)][r] EXCEPT !.del = pass[s].snap[Other(to)][r].del])
    /\ Set(s, Passed(s, r))
    /\ UNCHANGED <<queue, lapsed>> /\ Rest

\* holdHydratedPlaceholder: another service may have moved the row aside since the
\* slim reads.
CopiesAny(full) == FALSE        \* mutant: a placeholder is copied
IsHeldBody(full) == Stranded(full)

Hydrate(s, r, to) ==
    /\ Turn(s, r) /\ r \notin pass[s].held
    /\ Intent(pass[s], to, r) \in {"insert", "update", "resurrect"}
    /\ LET full == doc[Db(s, Other(to))][r] IN
       Set(s, IF IsHeldBody(full) THEN [Passed(s, r) EXCEPT !.bad = TRUE]
              ELSE [Passed(s, r) EXCEPT !.pc = "write",
                      !.job = [NoJob EXCEPT !.row = r, !.to = to, !.full = full,
                                            !.kind = Intent(pass[s], to, r)]])
    /\ SameDocs /\ UNCHANGED <<queue, lapsed>> /\ Rest

\* What the write leaves; an insert of a row that is there by now is no error.
Target(s) == Db(s, pass[s].job.to)
Written(s) ==
    LET j == pass[s].job
        d == doc[Target(s)][j.row]
    IN CASE j.kind = "insert" -> IF d = NoDoc THEN j.full ELSE d
         [] j.kind = "resurrect" -> [j.full EXCEPT !.del = 0]
         [] OTHER -> j.full
CollidesUpdates(s) ==    \* mutant: a row that comes out of the trash takes no name
    pass[s].job.kind = "update" /\ ~Free(Target(s), pass[s].job.row, Written(s).name)
Collides(s) == Live(Written(s)) /\ ~Free(Target(s), pass[s].job.row, Written(s).name)

Next1(s) == [pass[s] EXCEPT !.pc = "rows", !.job = NoJob]
RefusedQuietly(s) == Next1(s)       \* mutant: a collision is not reported
Refused(s) == [Next1(s) EXCEPT !.bad = TRUE]
Throws(s) == [pass[s] EXCEPT !.pc = "settle", !.job = NoJob, !.todo = {}, !.bad = TRUE]

WriteCopy(s) ==
    /\ pass[s].pc = "write" /\ ~Collides(s)
    /\ Put({s}, Target(s), pass[s].job.row, Written(s))
    /\ Set(s, Next1(s))
    /\ UNCHANGED <<queue, lapsed>> /\ Rest

\* The nonce of a pass; chosen when it is first needed.
Used == {n \in Nonces :
    \/ \E db \in Stores, r \in Rows : doc[db][r] # NoDoc /\ doc[db][r].name \in [row : Rows, nonce : {n}]
    \/ \E db \in Stores : \E e \in queue[db] : e.p.nonce = n
    \/ \E s \in Services : \/ pass[s].nonce = n
                           \/ pass[s].pc \in {"drain", "settled"} /\ pass[s].drain.p.nonce = n
                           \/ \E e \in pass[s].entries \cup pass[s].strays : e.p.nonce = n}
Nonce(s) == IF pass[s].nonce # None THEN pass[s].nonce ELSE CHOOSE n \in Nonces \ Used : TRUE

\* writeWithRenameStaging: the row in the way is moved aside if the plan says so and
\* its own turn is still to come.
Waits(s, b) == b \in Stageable(pass[s], pass[s].job.to) /\ b \in pass[s].todo \ pass[s].held
InTheWay(s) == CHOOSE r \in Holder(Target(s), Written(s).name) : r # pass[s].job.row

Collide(s) ==
    /\ pass[s].pc = "write" /\ Collides(s)
    /\ IF pass[s].job.kind = "insert" THEN Set(s, Throws(s)) ELSE Goto(s, "blocker")
    /\ SameDocs /\ UNCHANGED <<queue, lapsed>> /\ Rest

FindBlocker(s) ==
    /\ pass[s].pc = "blocker"
    /\ LET b == InTheWay(s) IN
       \/ ~Collides(s) /\ Set(s, Throws(s))
       \/ Collides(s) /\ ~Waits(s, b) /\ Set(s, Refused(s))
       \/ /\ Collides(s) /\ Waits(s, b)
          /\ Set(s, [pass[s] EXCEPT !.pc = "source", !.job.blocker = b, !.job.o = Written(s).name])
    /\ SameDocs /\ UNCHANGED <<queue, lapsed>> /\ Rest

\* pendingRenameCanFreeName: its source has another name now.
ReadSource(s) ==
    /\ pass[s].pc = "source"
    /\ LET source == doc[Db(s, Other(pass[s].job.to))][pass[s].job.blocker]
           frees == source # NoDoc /\ ~IsPlaceholder(source.name) /\ source.name # pass[s].job.o
       IN \/ ~frees /\ Set(s, Refused(s))
          \/ /\ frees /\ (pass[s].nonce # None \/ Nonces \ Used # {})      \* bound
             /\ Set(s, [pass[s] EXCEPT !.pc = "enqueue", !.nonce = Nonce(s)])
    /\ SameDocs /\ UNCHANGED <<queue, lapsed>> /\ Rest

\* The record of the row in the way, without and with its date, and as what it is
\* settled by.
Key(s) == [row |-> pass[s].job.blocker, o |-> pass[s].job.o,
           p |-> [row |-> pass[s].job.blocker, nonce |-> pass[s].nonce]]
Entry(s, at) == [row |-> Key(s).row, o |-> Key(s).o, p |-> Key(s).p, at |-> at, old |-> FALSE]
Aside(s) == [side |-> pass[s].job.to, row |-> Key(s).row, o |-> Key(s).o, p |-> Key(s).p]

\* A date that no record has, nor any a sweep has read.
Dated == (UNION ({queue[db] : db \in Stores} \cup {pass[s].entries : s \in Services}))
            \cup {pass[s].drain : s \in {t \in Services : pass[t].pc = "drain"}}
NewDates == {at \in Dates : \A e \in Dated : e.at # at}
Push(s) ==
    /\ NewDates # {}       \* bound
    /\ queue' = [queue EXCEPT ![Target(s)] = @ \cup {Entry(s, CHOOSE at \in NewDates : TRUE)}]
Pull(db, x) == queue' = [queue EXCEPT ![db] = {e \in @ : ~SameKey(e, x)}]

Enqueue(s) ==
    /\ pass[s].pc = "enqueue"
    /\ Push(s) /\ Goto(s, "stage")
    /\ SameDocs /\ UNCHANGED lapsed /\ Rest

Stage(s) ==
    /\ pass[s].pc = "stage"
    /\ LET e == Key(s)
           d == doc[Target(s)][e.row]
       IN IF Live(d) /\ d.name = e.o
          THEN /\ Named({s}, Target(s), e.row, e.p)
               /\ Set(s, [pass[s] EXCEPT !.pc = "pull", !.staged = @ \cup {Aside(s)}])
          ELSE Goto(s, "unqueue") /\ SameDocs
    /\ UNCHANGED <<queue, lapsed>> /\ Rest

Unqueue(s) ==
    /\ pass[s].pc = "unqueue"
    /\ Pull(Target(s), Key(s)) /\ Set(s, Refused(s))
    /\ SameDocs /\ UNCHANGED lapsed /\ Rest

\* The record is written anew: a sweep may have taken it for a dead pass's while
\* this one slept.
PullOld(s) ==
    /\ pass[s].pc = "pull"
    /\ Pull(Target(s), Key(s)) /\ Goto(s, "push")
    /\ SameDocs /\ UNCHANGED lapsed /\ Rest

PushAgain(s) ==
    /\ pass[s].pc = "push"
    /\ Push(s) /\ Goto(s, "retry")
    /\ SameDocs /\ UNCHANGED lapsed /\ Rest

Retry(s) ==
    /\ pass[s].pc = "retry"
    /\ IF Collides(s) THEN Goto(s, "rollback") /\ SameDocs
       ELSE Put({s}, Target(s), pass[s].job.row, Written(s)) /\ Set(s, Next1(s))
    /\ UNCHANGED <<queue, lapsed>> /\ Rest

\* A placeholder is taken back if it is still there and the name is free.
TakenBackBlindly(s, db, x) ==       \* mutant: whatever name is there now
    IF Live(doc[db][x.row]) => Free(db, x.row, x.o)
    THEN Named({s}, db, x.row, x.o) ELSE SameDocs
TakenBack(s, db, x) ==
    IF doc[db][x.row].name = x.p /\ (Live(doc[db][x.row]) => Free(db, x.row, x.o))
    THEN Named({s}, db, x.row, x.o) ELSE SameDocs

Rollback(s) ==
    /\ pass[s].pc = "rollback"
    /\ TakenBack(s, Target(s), Key(s))
    /\ Set(s, Throws(s))
    /\ UNCHANGED <<queue, lapsed>> /\ Rest

EndRows(s) ==
    /\ pass[s].pc = "rows" /\ pass[s].todo = {}
    /\ Goto(s, "settle")
    /\ SameDocs /\ UNCHANGED <<queue, lapsed>> /\ Rest

\* settleStagedRenames: on every way out of the row loop.
Settle(s) ==
    /\ pass[s].pc = "settle"
    /\ \E x \in pass[s].staged :
          LET db == Db(s, x.side)
              left == [pass[s] EXCEPT !.staged = @ \ {x}]
              taken == IsPlaceholder(doc[db][x.row].name) /\ ~Free(db, x.row, x.o)
          IN IF taken THEN Set(s, [left EXCEPT !.bad = TRUE]) /\ SameDocs
             ELSE TakenBack(s, db, x) /\ Set(s, [pass[s] EXCEPT !.pc = "settled", !.drain = x])
    /\ UNCHANGED <<queue, lapsed>> /\ Rest

Settled(s) ==
    /\ pass[s].pc = "settled"
    /\ Pull(Db(s, pass[s].drain.side), pass[s].drain)
    /\ Set(s, [pass[s] EXCEPT !.pc = "settle", !.staged = @ \ {pass[s].drain}, !.drain = None])
    /\ SameDocs /\ UNCHANGED lapsed /\ Rest

Finish(s) ==
    /\ pass[s].pc = "settle" /\ pass[s].staged = {}
    /\ Set(s, Idle)
    /\ SameDocs /\ UNCHANGED <<queue, lapsed>> /\ Rest

-----------------------------------------------------------------------------
(* Failures and time.                                                      *)

\* The record of a row that has just been moved aside may be missing.
Lapses(s) == lapsed' = IF pass[s].pc \in {"pull", "push"}
                       THEN lapsed \cup {<<Target(s), Key(s).row, Key(s).p>>} ELSE lapsed

Fails(s) ==
    /\ play.fails > 0 /\ play' = [play EXCEPT !.fails = @ - 1]
    /\ LET p == pass[s] IN
       \/ p.pc \in {"queue", "entries", "local", "remote"} /\ Set(s, Idle)
       \/ p.pc = "entries" /\ \E e \in p.entries :
             /\ Live(doc[Here(s)][e.row])
             /\ Set(s, [p EXCEPT !.entries = @ \ {e}, !.held = @ \cup {e.row}, !.bad = TRUE])
       \/ p.pc = "strays" /\ \E x \in p.strays :
             Set(s, [p EXCEPT !.strays = @ \ {x}, !.held = @ \cup {x.row}, !.bad = TRUE])
       \/ p.pc \in {"peer", "heal"} /\ Set(s, Healed(s))
       \/ p.pc = "drain" /\ Set(s, [p EXCEPT !.pc = "entries", !.drain = None])
       \/ p.pc \in {"rows", "write", "blocker", "source", "stage", "rollback"} /\ Set(s, Throws(s))
       \/ p.pc \in {"enqueue", "unqueue"} /\ Set(s, Refused(s))
       \/ p.pc \in {"pull", "push"} /\ Goto(s, "retry")
       \/ p.pc = "retry" /\ Goto(s, "rollback")
       \/ p.pc = "settle" /\ \E x \in p.staged : Set(s, [p EXCEPT !.staged = @ \ {x}, !.bad = TRUE])
       \/ p.pc = "settled" /\ Set(s, [p EXCEPT !.pc = "settle", !.staged = @ \ {p.drain},
                                              !.drain = None, !.bad = TRUE])
    /\ Lapses(s)
    /\ SameDocs /\ UNCHANGED <<clock, queue>>

Crash(s) ==
    /\ play.crashes[s] > 0 /\ play' = [play EXCEPT !.crashes[s] = @ - 1]
    /\ pass[s].pc # "idle" /\ Set(s, Idle)
    /\ Lapses(s)
    /\ SameDocs /\ UNCHANGED <<clock, queue>>

\* SWEEP_MIN_AGE_MS after it was written; its pass may be asleep, not dead.
Age(db) ==
    /\ \E e \in queue[db] :
          ~e.old /\ queue' = [queue EXCEPT ![db] = (@ \ {e}) \cup {[e EXCEPT !.old = TRUE]}]
    /\ SameDocs /\ UNCHANGED <<play, clock, pass, lapsed>>

-----------------------------------------------------------------------------
Sweep(s) == \/ Start(s) \/ ReadQueue(s) \/ SweepEntry(s) \/ Drain(s)
            \/ FindStrays(s) \/ LookUp(s) \/ ReadPeer(s) \/ Heal(s) \/ EndSweep(s)
Loop(s) == \/ ReadLocal(s) \/ ReadRemote(s) \/ EndRows(s)
           \/ \E r \in Rows : HeldBack(s, r) \/ \E to \in Sides : WriteFlags(s, r, to) \/ Hydrate(s, r, to)
Staging(s) == \/ WriteCopy(s) \/ Collide(s) \/ FindBlocker(s) \/ ReadSource(s) \/ Enqueue(s)
              \/ Stage(s) \/ Unqueue(s) \/ PullOld(s) \/ PushAgain(s) \/ Retry(s) \/ Rollback(s) \/ Settle(s) \/ Settled(s) \/ Finish(s)

PassStep(s) == Sweep(s) \/ Loop(s) \/ Staging(s)

Next ==
    \/ User
    \/ \E s \in Services : PassStep(s) \/ Fails(s) \/ Crash(s)
    \/ \E db \in Stores : Age(db)

Spec == Init /\ [][Next]_vars

\* Passes go on, cycle after cycle, and records get old.
Fairness ==
    /\ \A s \in Services : WF_vars(PassStep(s))
    /\ \A db \in Stores : WF_vars(Age(db))
FairSpec == Spec /\ Fairness

-----------------------------------------------------------------------------
Record == [row : Rows, o : Names, p : Placeholders, at : Dates, old : BOOLEAN]

\* Every variable keeps its type, and no two live rows of a database ever have the
\* same name.
TypeOK ==
    /\ play \in Play
    /\ \A db \in Stores : /\ \A r \in Rows : doc[db][r] \in Doc \cup {NoDoc}
                          /\ \A n \in Names \cup Placeholders : \A q, r \in Holder(db, n) : q = r
                          /\ queue[db] \subseteq Record
    /\ clock \in 0..MaxTime
    /\ \A s \in Services : pass[s].held \cup pass[s].todo \subseteq Rows /\ dirty[s] \subseteq Rows

\* A placeholder comes onto a row only by moving that row aside: no copy carries it
\* to another database, whoever edits a stranded row meanwhile.
PlaceholdersStay ==
    [][\A db \in Stores, r \in Rows :
          (Stranded(doc'[db][r]) /\ doc[db][r] # doc'[db][r] /\ ~Stranded(doc[db][r]))
             => doc'[db][r].name.row = r /\ doc[db][r] # NoDoc /\ doc'[db][r].upd = doc[db][r].upd]_vars
\* The name of a row that is moved aside is on record until the row has it back or
\* has another, or the pass that moved it is still at work: for passes that sleep,
\* die and sweep each other's records.  Not when the pass dies while it renews the
\* record, nor when the row went through the trash.
OriginalKept ==
    \A db \in Stores, r \in Rows :
        LET d == doc[db][r] IN
        Stranded(d) =>
            \/ \E e \in queue[db] : e.row = r /\ e.p = d.name
            \/ \E s \in Services : \E x \in pass[s].staged :
                  Db(s, x.side) = db /\ x.row = r /\ x.p = d.name
            \/ <<db, r, d.name>> \in lapsed

\* Live rows with one timestamp have one name, in whichever databases: otherwise no
\* later pass would look at them again.  Rows without a record apart: the sweep gives
\* one the name of its peer, whose later date follows.
GivenUp(db, r) == \E l \in lapsed : l[1] = db /\ l[2] = r
SameStampSameName ==
    \A st, db \in Stores, r \in Rows :
        LET c == doc[st][r]
            d == doc[db][r]
        IN (/\ Live(c) /\ Live(d) /\ c.upd = d.upd /\ ~Stranded(c) /\ ~Stranded(d)
            /\ ~GivenUp(st, r) /\ ~GivenUp(db, r))
              => c.name = d.name

\* A pass that ends without an error leaves its two databases in agreement on every
\* row that nobody else wrote since it began: nothing was skipped, refused or left
\* aside unsaid.
SuccessMeansAgreement ==
    [][\A s \in Services : (pass[s].pc = "settle" /\ pass'[s].pc = "idle" /\ ~pass[s].bad) =>
          \A r \in Rows \ dirty[s], to \in Sides :
             /\ Outcome(doc[Db(s, Other(to))][r], doc[Db(s, to)][r]) = "none"
             /\ ~Stranded(doc[Db(s, to)][r])]_vars

\* When one service runs, nobody writes any more and the latest versions of all rows
\* have different names, its two databases come to agree on them, however the names
\* were exchanged; and rows that cannot have the names they want are never left aside.
\* When a pass died or a write failed in the middle, a row may stay aside
\* for good, its name given to the row it was moved for; it is on record, and
\* reported by every pass.
Synced == {Remote} \cup {LocalOf[s] : s \in play.services}
Latest(r) == CHOOSE d \in {play.docs[db][r] : db \in Synced} :
                \A db \in Synced : play.docs[db][r].upd <= d.upd
Kept == {r \in Rows : \A db \in Synced : play.docs[db][r] # NoDoc}
Satisfiable == \A q, r \in Kept : q # r => Latest(q).name # Latest(r).name
Alone == play.kinds = {} /\ Cardinality(play.services) = 1
Undisturbed == Alone /\ play.fails = 0 /\ \A s \in Services : play.crashes[s] = 0
Agreed(db, r) == doc[db][r].name = Latest(r).name
LeftAside(db, r) == \E e \in queue[db] : /\ e.row = r /\ e.p = doc[db][r].name
                                        /\ ~Free(db, r, e.o)
RenamesSettle ==
    /\ (Alone /\ Satisfiable)
           => <>[](\A db \in Synced, r \in Kept : Agreed(db, r) \/ LeftAside(db, r))
    /\ (Undisturbed /\ Satisfiable) => <>[](\A db \in Synced, r \in Kept : Agreed(db, r))
    /\ Undisturbed => <>[](\A db \in Synced, r \in Rows : ~Stranded(doc[db][r]))

\* The state of the databases: unique names, and one name for one timestamp.
Inv == TypeOK /\ SameStampSameName
=============================================================================
