------------------------------ MODULE Families ------------------------------
(***************************************************************************)
(* Template families (GH #605): a filament with a live variant is a        *)
(* template and holds no inventory of its own.  Nothing stores that; every *)
(* request that could break it checks and then acts, without transactions, *)
(* under a process-local mutex keyed by ONE filament                       *)
(* (src/lib/filamentMutex.ts):                                             *)
(*   create   a variant of p            (createVariantGated.ts)            *)
(*   adopt    t: write parentId p       (PUT, api/filaments/[id]/route.ts) *)
(*   detach   t: write parentId null, paint t: write a color      (PUT)    *)
(*   promote  p, "Convert to template"  ([id]/promote/route.ts)            *)
(*   trash t, purge t                   (DELETE, [id]/route.ts)            *)
(*   restore t                          ([id]/restore/route.ts)            *)
(*   revive t, found in the trash by a bulk import  (iniImportApply.ts)    *)
(*   addSpool to t, removeSpool from t  ([id]/spools/...)                  *)
(* The first variant of a filament that carries something moves what it    *)
(* carries to a copy first: marker, copy, remap, complete                  *)
(* (promoteParent.ts).                                                     *)
(*                                                                         *)
(* Every await on the database is a step of its own, except that the two   *)
(* updates that clear a filament's slots, and those that remap its         *)
(* references, are one.  A request that was refused and one that was       *)
(* answered look the same afterwards.  Left out: names, validation of      *)
(* fields, and a filament's own totalWeight, which moves as spools do.     *)
(***************************************************************************)
EXTENDS Naturals, Sequences, FiniteSets

CONSTANTS
    Rows,       \* the filament ids that may come to exist
    Traits,     \* "color": color and colorName; "alarm": lowStockThreshold
    Spools,     \* spool ids
    Clients,    \* requests that may be in flight together
    None,       \* null
    NoDoc,      \* "no such document"
    Plays,      \* what there is at first, what is asked and what goes wrong
    MaxFails    \* bound on failing requests and crashes

AllKinds == {"create", "adopt", "detach", "paint", "promote", "trash", "purge",
             "restore", "revive", "addSpool", "removeSpool"}

\* rows: the ids in use in this play; roots: the filaments that exist from the
\* start; kinds: the kinds of request each client sends; fails: what may still fail.
Play == [rows : SUBSET Rows, roots : SUBSET Rows, traits : SUBSET Traits,
         kinds : [Clients -> SUBSET AllKinds], fails : 0..MaxFails]

\* Where a request may be: outside its sections, at their first step, in them.
Outside == {"idle", "putParent", "putVariants", "putStored", "assertParent",
            "assertVariants", "rollback", "purgeRead", "purgeCheck", "purgeSlots",
            "purgeWrite", "restoreRead", "restoreParent", "reviveRead"}
Entries == {"fetch", "strip", "trashCheck", "pushCheck", "dropCheck", "reviveGate"}
Inside  == {"gate", "unmark", "target", "partial", "resume", "mark", "copy", "remap",
            "complete", "insert", "save", "alarm", "write", "trashRead", "trashSlots",
            "trashWrite", "reviveCheck", "reviveWrite", "reviveAlarm", "push",
            "pushAgain", "pull", "dropSlots", "drop", "dropSlotsAgain"}

VARIABLES
    doc,        \* the filaments collection
    slot,       \* a printer's AMS slot: filament and spool, spool None = any
    queue,      \* per key, the requests that wait for or hold the mutex
    req,        \* the requests in flight
    added,      \* history: the spools that were created and not removed
    play

vars == <<doc, slot, queue, req, added, play>>

Things == Traits \cup Spools
\* Promotion tokens, 0 is null: more than can be in use at once.
Tokens == 1..(2 * (Cardinality(Rows) + Cardinality(Clients)) + 1)

\* `own` is what a filament carries itself: traits and spools.
Doc == [live : BOOLEAN, purged : BOOLEAN, parent : Rows \cup {None},
        own : SUBSET Things, marker : Tokens \cup {0}, by : Tokens \cup {0}]

ASSUME FamiliesAssumption ==
    /\ IsFiniteSet(Rows) /\ IsFiniteSet(Clients)
    /\ None \notin Rows \cup Spools /\ NoDoc \notin Doc
    /\ Traits \subseteq {"color", "alarm"} /\ Spools \cap {"color", "alarm"} = {}
    /\ Plays \subseteq Play /\ \A p \in Plays : p.roots \subseteq p.rows
    /\ MaxFails \in Nat

Fresh(parent, own, by) ==
    [live |-> TRUE, purged |-> FALSE, parent |-> parent, own |-> own,
     marker |-> 0, by |-> by]

IsDoc(f)   == doc[f] # NoDoc
Live(f)    == f # None /\ IsDoc(f) /\ doc[f].live
InTrash(f) == IsDoc(f) /\ ~doc[f].live /\ ~doc[f].purged
HeldSpools(f) == doc[f].own \cap Spools

\* hasVariants and hasVariantsIncludingTrashed
LiveVariants(p) == {f \in Rows : Live(f) /\ doc[f].parent = p}
KeptVariants(p) == {f \in Rows : IsDoc(f) /\ doc[f].parent = p /\ ~doc[f].purged}
HasVariants(p)  == LiveVariants(p) # {}

\* parentPromotionState(...).needed and orphansThresholdOnFirstVariant
NeededByColor(d) == "color" \in d.own    \* mutant: spools alone do not count
Needed(d)  == d.own \ {"alarm"} # {}
Orphans(d) == "alarm" \in d.own /\ ~Needed(d)

Idle == [pc |-> "idle", kind |-> "none", t |-> None, p |-> None, spool |-> None,
         ok |-> FALSE, paint |-> FALSE, half |-> FALSE, clear |-> FALSE,
         key |-> None, snap |-> NoDoc, copy |-> None]

Init ==
    /\ play \in Plays
    /\ \E own \in [play.roots -> SUBSET (play.traits \cup Spools)] :
          /\ \A f, g \in play.roots : f # g => own[f] \cap own[g] \cap Spools = {}
          /\ doc = [f \in Rows |-> IF f \in play.roots THEN Fresh(None, own[f], 0) ELSE NoDoc]
    /\ slot \in [fil : Rows, spool : Spools \cup {None}] \cup {None}
    /\ slot # None => Live(slot.fil) /\ slot.spool \in HeldSpools(slot.fil) \cup {None}
    /\ queue = [k \in Rows |-> <<>>]
    /\ req = [c \in Clients |-> Idle]
    /\ added = UNION {HeldSpools(f) : f \in play.roots}

-----------------------------------------------------------------------------
(* The mutex: runExclusive(key, fn) queues behind whatever holds the key.  *)

MayRun(c) == req[c].key # None => Head(queue[req[c].key]) = c
At(c, pc) == req[c].pc = pc /\ MayRun(c)

Without(q, c) == IF q # <<>> /\ Head(q) = c THEN Tail(q) ELSE q
Release(c) == [k \in Rows |-> Without(queue[k], c)]

\* Leave the section the request is in, if any, and queue for key k.
EnterHolding(c, k, r) ==        \* mutant: the first lock is kept
    /\ queue' = [queue EXCEPT ![k] = Append(@, c)]
    /\ req' = [req EXCEPT ![c] = [r EXCEPT !.key = k]]
Enter(c, k, r) ==
    /\ queue' = [Release(c) EXCEPT ![k] = Append(@, c)]
    /\ req' = [req EXCEPT ![c] = [r EXCEPT !.key = k]]

\* Go on after the section.
Leave(c, r) ==
    /\ queue' = Release(c)
    /\ req' = [req EXCEPT ![c] = [r EXCEPT !.key = None]]

Answer(c) == queue' = Release(c) /\ req' = [req EXCEPT ![c] = Idle]
Go(c, r)  == req' = [req EXCEPT ![c] = r] /\ UNCHANGED queue
Goto(c, pc) == Go(c, [req[c] EXCEPT !.pc = pc])

Put(f, d) == doc' = [doc EXCEPT ![f] = d]

-----------------------------------------------------------------------------
(* Requests.                                                               *)

Request(kind, t, p, s, ok, paint, pc) ==
    [Idle EXCEPT !.kind = kind, !.t = t, !.p = p, !.spool = s, !.ok = ok,
                 !.paint = paint, !.pc = pc]

\* What writing a color adds, in a play that looks at colors.
Color  == play.traits \cap {"color"}
Colors == {b \in BOOLEAN : b => Color # {}}

\* A new spool's id is one that nothing names.
UsedSpools ==
    LET named == {doc[f] : f \in Rows} \cup {req[c].snap : c \in Clients} IN
    (UNION {d.own : d \in named \ {NoDoc}}) \cup {req[c].spool : c \in Clients}
        \cup (IF slot = None THEN {} ELSE {slot.spool})

Submit(c) ==
    /\ req[c].pc = "idle"
    /\ UNCHANGED <<doc, slot, added, play>>
    /\ \E kind \in play.kinds[c], t \in {f \in Rows : IsDoc(f)} :
        LET r(p, s, ok, paint, pc) == Request(kind, t, p, s, ok, paint, pc) IN
        \/ /\ kind = "create"
           /\ \E ok \in BOOLEAN, paint \in Colors :
                 Enter(c, t, Request(kind, None, t, None, ok, paint, "fetch"))
        \/ /\ kind = "adopt"
           /\ \E p \in {f \in Rows \ {t} : IsDoc(f)}, ok \in BOOLEAN, paint \in Colors :
                 Go(c, r(p, None, ok, paint, "putParent"))
        \/ kind = "detach" /\ Enter(c, t, r(None, None, FALSE, FALSE, "strip"))
        \/ kind = "paint"  /\ Enter(c, t, r(None, None, FALSE, TRUE, "strip"))
        \/ kind = "promote" /\ Enter(c, t, Request(kind, None, t, None, TRUE, FALSE, "fetch"))
        \/ kind = "trash"  /\ Enter(c, t, r(None, None, FALSE, FALSE, "trashCheck"))
        \/ kind = "purge"  /\ Go(c, r(None, None, FALSE, FALSE, "purgeRead"))
        \/ kind = "restore" /\ Go(c, r(None, None, FALSE, FALSE, "restoreRead"))
        \/ kind = "revive" /\ Go(c, r(None, None, FALSE, FALSE, "reviveRead"))
        \/ /\ kind = "addSpool"
           /\ \E s \in Spools \ UsedSpools :
                 Enter(c, t, r(None, s, FALSE, FALSE, "pushCheck"))
        \/ /\ kind = "removeSpool"
           /\ \E s \in Spools : Enter(c, t, r(None, s, FALSE, FALSE, "dropCheck"))

-----------------------------------------------------------------------------
(* The gate (gateAndPromoteInLock) and the promotion, run by create, adopt, *)
(* restore and promote while they hold the parent's key.                   *)

AfterGate(r, clear) ==
    [r EXCEPT !.clear = clear, !.snap = NoDoc, !.copy = None,
              !.pc = CASE r.kind = "create"  -> "insert"
                       [] r.kind = "restore" -> "save"
                       [] OTHER              -> "strip"]

\* The adoption's own write runs under the target's key: the two sections are
\* strictly sequential.
Pass(c, clear) ==
    LET r == AfterGate(req[c], clear) IN
    CASE r.kind = "adopt"   -> Enter(c, r.t, r)
      [] r.kind = "promote" -> Answer(c)
      [] OTHER              -> Go(c, r)

\* The parent is read again inside the section; every decision up to the
\* completion uses this snapshot.
Fetch(c) ==
    LET p == req[c].p
        d == doc[p]
        r == [req[c] EXCEPT !.snap = d]
    IN
    /\ At(c, "fetch")
    /\ IF ~Live(p) \/ d.parent # None THEN Answer(c)
       ELSE IF ~Needed(d) /\ d.marker # 0 /\ r.kind # "promote"
            THEN Go(c, [r EXCEPT !.pc = "unmark"])
       ELSE IF Needed(d) \/ Orphans(d) \/ r.kind = "promote"
            THEN Go(c, [r EXCEPT !.pc = "gate"])
       ELSE Pass(c, FALSE)
    /\ UNCHANGED <<doc, slot, added, play>>

\* clearStalePromotionMarker
Unmark(c) ==
    LET r == req[c] IN
    /\ At(c, "unmark")
    /\ IF Live(r.p) THEN Put(r.p, [doc[r.p] EXCEPT !.marker = 0]) ELSE UNCHANGED doc
    /\ IF r.kind = "promote" THEN Answer(c)
       ELSE IF Orphans(r.snap) THEN Goto(c, "gate")
       ELSE Pass(c, FALSE)
    /\ UNCHANGED <<slot, added, play>>

\* Restore never promotes; create and adopt only when the user has confirmed.
Gate(c) ==
    LET r == req[c]
        n == Needed(r.snap)
    IN
    /\ At(c, "gate")
    /\ UNCHANGED <<doc, slot, added, play>>
    /\ \/ /\ r.kind = "promote"
          /\ IF KeptVariants(r.p) = {} THEN Answer(c)
             ELSE IF n THEN Goto(c, "partial")
             ELSE IF r.snap.marker # 0 THEN Goto(c, "unmark")
             ELSE Answer(c)
       \/ /\ r.kind # "promote"
          /\ IF HasVariants(r.p)
             THEN IF n THEN Goto(c, "resume") ELSE Pass(c, FALSE)
             ELSE IF ~n THEN Pass(c, TRUE)
             ELSE IF ~r.ok THEN Answer(c)
             ELSE IF r.kind = "adopt" THEN Goto(c, "target")
             ELSE Goto(c, "partial")

\* Right before a confirmed promotion an adoption looks at its target again.
TargetAlive(c) ==
    /\ At(c, "target")
    /\ IF Live(req[c].t) THEN Goto(c, "partial") ELSE Answer(c)
    /\ UNCHANGED <<doc, slot, added, play>>

\* findPartialPromotionVariant: a live variant that carries the marker's token
\* proves that an earlier promotion was interrupted.
PartialNone(r) == {}                    \* mutant: no promotion is ever resumed
Partial(r) == {v \in LiveVariants(r.p) : r.snap.marker # 0 /\ doc[v].by = r.snap.marker}

FindPartial(c) ==
    LET r == req[c] IN
    /\ At(c, "partial") \/ At(c, "resume")
    /\ \/ \E v \in Partial(r) : Go(c, [r EXCEPT !.copy = v, !.pc = "remap"])
       \/ /\ Partial(r) = {}
          /\ IF r.pc = "resume" THEN Pass(c, FALSE)
             ELSE IF r.snap.marker = 0 THEN Goto(c, "mark")
             ELSE Goto(c, "copy")
    /\ UNCHANGED <<doc, slot, added, play>>

\* A random token: one that no document and no request carries.
UsedTokens ==
    UNION {{d.marker, d.by} : d \in ({doc[f] : f \in Rows}
                                     \cup {req[c].snap : c \in Clients}) \ {NoDoc}}

\* The ids a new document may get.  When none is left the create fails, the way
\* one fails that the database refuses.
NewRow == {v \in play.rows : ~IsDoc(v)}

MarkMoves(c) ==             \* mutant: the parent is cleared before the copy
    LET r == req[c]
        token == CHOOSE x \in Tokens : x \notin UsedTokens
    IN
    /\ At(c, "mark")
    /\ Put(r.p, [doc[r.p] EXCEPT !.marker = token, !.own = {}])
    /\ Go(c, [r EXCEPT !.pc = "copy", !.snap.marker = token])
    /\ UNCHANGED <<slot, added, play>>
Mark(c) ==
    LET r == req[c]
        token == CHOOSE x \in Tokens : x \notin UsedTokens
    IN
    /\ At(c, "mark")
    /\ IF Live(r.p) THEN Put(r.p, [doc[r.p] EXCEPT !.marker = token]) ELSE UNCHANGED doc
    /\ Go(c, [r EXCEPT !.pc = "copy", !.snap.marker = token])
    /\ UNCHANGED <<slot, added, play>>

CopyUnsigned(c) ==          \* mutant: the copy does not carry the token
    LET r == req[c] IN
    /\ At(c, "copy")
    /\ \/ \E v \in NewRow :
             /\ Put(v, Fresh(r.p, r.snap.own, 0))
             /\ Go(c, [r EXCEPT !.copy = v, !.pc = "remap"])
       \/ NewRow = {} /\ Answer(c) /\ UNCHANGED doc
    /\ UNCHANGED <<slot, added, play>>
Copy(c) ==
    LET r == req[c] IN
    /\ At(c, "copy")
    /\ \/ \E v \in NewRow :
             /\ Put(v, Fresh(r.p, r.snap.own, r.snap.marker))
             /\ Go(c, [r EXCEPT !.copy = v, !.pc = "remap"])
       \/ NewRow = {} /\ Answer(c) /\ UNCHANGED doc
    /\ UNCHANGED <<slot, added, play>>

\* remapExternalSpoolRefs, over the spools of the snapshot; a slot for any
\* spool of the parent follows too.
RemapWhole(c) ==            \* mutant: a slot for one spool does not follow
    LET r == req[c] IN
    /\ At(c, "remap")
    /\ slot' = IF slot # None /\ slot.fil = r.p /\ slot.spool = None
               THEN [slot EXCEPT !.fil = r.copy] ELSE slot
    /\ Goto(c, "complete")
    /\ UNCHANGED <<doc, added, play>>
Remap(c) ==
    LET r == req[c] IN
    /\ At(c, "remap")
    /\ slot' = IF slot # None /\ slot.fil = r.p /\ slot.spool \in r.snap.own \cup {None}
               THEN [slot EXCEPT !.fil = r.copy] ELSE slot
    /\ Goto(c, "complete")
    /\ UNCHANGED <<doc, added, play>>

\* completeParentPromotion: the carried fields and the marker in one write.
Complete(c) ==
    LET r == req[c] IN
    /\ At(c, "complete")
    /\ IF Live(r.p) THEN Put(r.p, [doc[r.p] EXCEPT !.own = {}, !.marker = 0])
       ELSE UNCHANGED doc
    /\ Pass(c, FALSE)
    /\ UNCHANGED <<slot, added, play>>

\* clearOrphanedParentThreshold, the last step of whoever minted the first
\* variant of a parent with a threshold and nothing else.
ClearAlarm(c) ==
    LET p == req[c].p IN
    /\ At(c, "alarm")
    /\ IF Live(p) THEN Put(p, [doc[p] EXCEPT !.own = @ \ {"alarm"}]) ELSE UNCHANGED doc
    /\ Answer(c)
    /\ UNCHANGED <<slot, added, play>>

EndVariantWrite(c) == IF req[c].clear THEN Goto(c, "alarm") ELSE Answer(c)

GateStep(c) ==
    \/ Fetch(c) \/ Unmark(c) \/ Gate(c) \/ TargetAlive(c) \/ FindPartial(c)
    \/ Mark(c) \/ Copy(c) \/ Remap(c) \/ Complete(c) \/ ClearAlarm(c)

-----------------------------------------------------------------------------
(* create                                                                  *)

Insert(c) ==
    LET r == req[c] IN
    /\ At(c, "insert")
    /\ \/ \E v \in NewRow :
             /\ Put(v, Fresh(r.p, IF r.paint THEN Color ELSE {}, 0))
             /\ EndVariantWrite(c)
       \/ NewRow = {} /\ Answer(c) /\ UNCHANGED doc
    /\ UNCHANGED <<slot, added, play>>

-----------------------------------------------------------------------------
(* PUT: adopt, detach, paint                                               *)

\* The checks before any lock ...
PutParent(c) ==
    LET p == req[c].p IN
    /\ At(c, "putParent")
    /\ IF Live(p) /\ doc[p].parent = None THEN Goto(c, "putVariants") ELSE Answer(c)
    /\ UNCHANGED <<doc, slot, added, play>>

PutVariants(c) ==
    /\ At(c, "putVariants")
    /\ IF HasVariants(req[c].t) THEN Answer(c) ELSE Goto(c, "putStored")
    /\ UNCHANGED <<doc, slot, added, play>>

\* ... and the stored parent: writing the same one again skips the gate.
PutStored(c) ==
    LET r == req[c] IN
    /\ At(c, "putStored")
    /\ IF ~Live(r.t) THEN Enter(c, r.t, [r EXCEPT !.pc = "strip"])
       ELSE IF doc[r.t].parent = r.p THEN Enter(c, r.t, [r EXCEPT !.pc = "strip"])
       ELSE Enter(c, r.p, [r EXCEPT !.pc = "fetch"])
    /\ UNCHANGED <<doc, slot, added, play>>

\* stripTemplateFieldsForWrite, in one section with the write.  The check that
\* an adopted target is still alive is the write's own filter.
Strip(c) ==
    LET r == req[c] IN
    /\ At(c, "strip")
    /\ Go(c, [r EXCEPT !.pc = "write", !.paint = @ /\ ~HasVariants(r.t)])
    /\ UNCHANGED <<doc, slot, added, play>>

WritePopulated(c) ==        \* mutant: the parent document, not its id
    LET r == req[c] IN
    /\ At(c, "write")
    /\ IF Live(r.t) /\ r.kind = "adopt"
       THEN Put(r.t, [doc[r.t] EXCEPT !.parent = doc[r.p]])
       ELSE UNCHANGED doc
    /\ Answer(c)
    /\ UNCHANGED <<slot, added, play>>
Write(c) ==
    LET r == req[c]
        parent == CASE r.kind = "adopt"  -> r.p
                    [] r.kind = "detach" -> None
                    [] OTHER             -> doc[r.t].parent
    IN
    /\ At(c, "write")
    /\ IF Live(r.t)
       THEN /\ Put(r.t, [doc[r.t] EXCEPT !.parent = parent,
                                         !.own = @ \cup IF r.paint THEN Color ELSE {}])
            /\ IF r.kind = "adopt"
               THEN \E first \in {"assertParent", "assertVariants"} :
                       Leave(c, [r EXCEPT !.pc = first])
               ELSE Answer(c)
       ELSE UNCHANGED doc /\ Answer(c)
    /\ UNCHANGED <<slot, added, play>>

\* The invariant is asserted again after the write, by two reads that run side
\* by side; `half` remembers that one of them is done.
AssertNothing(c, pc, other, bad) ==     \* mutant: the outcome is not looked at
    LET r == req[c] IN
    /\ At(c, pc)
    /\ IF ~r.half THEN Go(c, [r EXCEPT !.pc = other, !.half = TRUE])
       ELSE EndVariantWrite(c)
    /\ UNCHANGED <<doc, slot, added, play>>
AssertOutcome(c, pc, other, bad) ==
    LET r == req[c] IN
    /\ At(c, pc)
    /\ IF bad THEN Goto(c, "rollback")
       ELSE IF ~r.half THEN Go(c, [r EXCEPT !.pc = other, !.half = TRUE])
       ELSE EndVariantWrite(c)
    /\ UNCHANGED <<doc, slot, added, play>>

AssertParent(c) ==
    LET p == req[c].p IN
    AssertOutcome(c, "assertParent", "assertVariants", ~Live(p) \/ doc[p].parent # None)
AssertVariants(c) ==
    AssertOutcome(c, "assertVariants", "assertParent", HasVariants(req[c].t))

Rollback(c) ==
    LET r == req[c] IN
    /\ At(c, "rollback")
    /\ IF Live(r.t) /\ doc[r.t].parent = r.p
       THEN Put(r.t, [doc[r.t] EXCEPT !.parent = None]) ELSE UNCHANGED doc
    /\ Answer(c)
    /\ UNCHANGED <<slot, added, play>>

PutStep(c) ==
    \/ PutParent(c) \/ PutVariants(c) \/ PutStored(c) \/ Strip(c) \/ Write(c)
    \/ AssertParent(c) \/ AssertVariants(c) \/ Rollback(c)

-----------------------------------------------------------------------------
(* DELETE: into the trash under the row's key, for ever without any lock.  *)

TrashCheckNone(c) ==        \* mutant: variants do not refuse the trash
    /\ At(c, "trashCheck")
    /\ Goto(c, "trashRead")
    /\ UNCHANGED <<doc, slot, added, play>>
TrashCheck(c) ==
    /\ At(c, "trashCheck")
    /\ IF HasVariants(req[c].t) THEN Answer(c) ELSE Goto(c, "trashRead")
    /\ UNCHANGED <<doc, slot, added, play>>

TrashRead(c) ==
    LET r == req[c] IN
    /\ At(c, "trashRead")
    /\ IF Live(r.t) THEN Go(c, [r EXCEPT !.snap = doc[r.t], !.pc = "trashSlots"])
       ELSE Answer(c)
    /\ UNCHANGED <<doc, slot, added, play>>

PurgeRead(c) ==
    LET r == req[c] IN
    /\ At(c, "purgeRead")
    /\ IF InTrash(r.t) THEN Go(c, [r EXCEPT !.snap = doc[r.t], !.pc = "purgeCheck"])
       ELSE Answer(c)
    /\ UNCHANGED <<doc, slot, added, play>>

PurgeCheck(c) ==
    /\ At(c, "purgeCheck")
    /\ IF KeptVariants(req[c].t) # {} THEN Answer(c) ELSE Goto(c, "purgeSlots")
    /\ UNCHANGED <<doc, slot, added, play>>

\* Slots that name one of the spools read before, or the filament.
ClearSlots(c, from, to) ==
    LET r == req[c] IN
    /\ At(c, from)
    /\ slot' = IF slot # None /\ (slot.fil = r.t \/ slot.spool \in r.snap.own)
               THEN None ELSE slot
    /\ Go(c, [r EXCEPT !.snap = NoDoc, !.pc = to])
    /\ UNCHANGED <<doc, added, play>>

TrashWrite(c) ==
    LET t == req[c].t IN
    /\ At(c, "trashWrite")
    /\ IF Live(t) THEN Put(t, [doc[t] EXCEPT !.live = FALSE]) ELSE UNCHANGED doc
    /\ Answer(c)
    /\ UNCHANGED <<slot, added, play>>

PurgeWrite(c) ==
    LET t == req[c].t IN
    /\ At(c, "purgeWrite")
    /\ Put(t, [doc[t] EXCEPT !.live = FALSE, !.purged = TRUE])
    /\ Answer(c)
    /\ UNCHANGED <<slot, added, play>>

DeleteStep(c) ==
    \/ TrashCheck(c) \/ TrashRead(c) \/ ClearSlots(c, "trashSlots", "trashWrite")
    \/ TrashWrite(c)
    \/ PurgeRead(c) \/ PurgeCheck(c) \/ ClearSlots(c, "purgeSlots", "purgeWrite")
    \/ PurgeWrite(c)

-----------------------------------------------------------------------------
(* restore                                                                 *)

RestoreRead(c) ==
    LET r == req[c] IN
    /\ At(c, "restoreRead")
    /\ IF ~InTrash(r.t) THEN Answer(c)
       ELSE IF doc[r.t].parent = None THEN Goto(c, "save")
       ELSE Go(c, [r EXCEPT !.p = doc[r.t].parent, !.pc = "restoreParent"])
    /\ UNCHANGED <<doc, slot, added, play>>

RestoreParent(c) ==
    LET r == req[c] IN
    /\ At(c, "restoreParent")
    /\ IF Live(r.p) THEN Enter(c, r.p, [r EXCEPT !.pc = "fetch"]) ELSE Answer(c)
    /\ UNCHANGED <<doc, slot, added, play>>

\* save() sends the one path that changed, by _id.
Save(c) ==
    LET t == req[c].t IN
    /\ At(c, "save")
    /\ Put(t, [doc[t] EXCEPT !.live = TRUE])
    /\ EndVariantWrite(c)
    /\ UNCHANGED <<slot, added, play>>

RestoreStep(c) == RestoreRead(c) \/ RestoreParent(c) \/ Save(c)

-----------------------------------------------------------------------------
(* revive: a bulk import finds the name of its section in the trash.  Its  *)
(* gate (firstVariantGate.ts) asks for inventory alone, not for a color.   *)

ReviveRead(c) ==
    LET r == req[c]
        p == doc[r.t].parent
    IN
    /\ At(c, "reviveRead")
    /\ IF ~InTrash(r.t) THEN Answer(c)
       ELSE IF p = None THEN Goto(c, "reviveWrite")
       ELSE Enter(c, p, [r EXCEPT !.p = p, !.pc = "reviveGate"])
    /\ UNCHANGED <<doc, slot, added, play>>

ReviveGate(c) ==
    LET r == req[c] IN
    /\ At(c, "reviveGate")
    /\ IF Live(r.p) /\ (HeldSpools(r.p) # {} \/ Orphans(doc[r.p]))
       THEN Go(c, [r EXCEPT !.snap = doc[r.p], !.pc = "reviveCheck"])
       ELSE Goto(c, "reviveWrite")
    /\ UNCHANGED <<doc, slot, added, play>>

ReviveCheckLess(c) ==       \* mutant: carried inventory does not refuse the row
    LET r == [req[c] EXCEPT !.snap = NoDoc, !.pc = "reviveWrite"] IN
    /\ At(c, "reviveCheck")
    /\ Go(c, r)
    /\ UNCHANGED <<doc, slot, added, play>>
ReviveCheck(c) ==
    LET r == [req[c] EXCEPT !.snap = NoDoc, !.pc = "reviveWrite"] IN
    /\ At(c, "reviveCheck")
    /\ IF HasVariants(r.p) THEN Go(c, r)
       ELSE IF req[c].snap.own \cap Spools = {} THEN Go(c, [r EXCEPT !.clear = TRUE])
       ELSE Answer(c)
    /\ UNCHANGED <<doc, slot, added, play>>

\* Lifting the tombstone and the section's fields, a color among them, are one
\* write; a row that left the trash meanwhile is not touched.
ReviveWriteById(c) ==       \* mutant: the filter names the row only
    LET r == req[c] IN
    /\ At(c, "reviveWrite")
    /\ Put(r.t, [doc[r.t] EXCEPT !.live = TRUE, !.own = @ \cup Color])
    /\ IF r.clear THEN Goto(c, "reviveAlarm") ELSE Answer(c)
    /\ UNCHANGED <<slot, added, play>>
ReviveWrite(c) ==
    LET r == req[c] IN
    /\ At(c, "reviveWrite")
    /\ IF InTrash(r.t)
       THEN Put(r.t, [doc[r.t] EXCEPT !.live = TRUE,
                                      !.own = @ \cup Color])
       ELSE UNCHANGED doc
    /\ IF r.clear THEN Goto(c, "reviveAlarm") ELSE Answer(c)
    /\ UNCHANGED <<slot, added, play>>

ReviveAlarm(c) ==
    /\ At(c, "reviveAlarm")
    /\ IF HasVariants(req[c].p) THEN Goto(c, "alarm") ELSE Answer(c)
    /\ UNCHANGED <<doc, slot, added, play>>

ReviveStep(c) ==
    \/ ReviveRead(c) \/ ReviveGate(c) \/ ReviveCheck(c) \/ ReviveWrite(c)
    \/ ReviveAlarm(c)

-----------------------------------------------------------------------------
(* addSpool (pushSpoolWithTemplateGuard)                                   *)

PushCheck(c) ==
    /\ At(c, "pushCheck")
    /\ IF HasVariants(req[c].t) THEN Answer(c) ELSE Goto(c, "push")
    /\ UNCHANGED <<doc, slot, added, play>>

Push(c) ==
    LET r == req[c] IN
    /\ At(c, "push")
    /\ IF Live(r.t)
       THEN /\ Put(r.t, [doc[r.t] EXCEPT !.own = @ \cup {r.spool}])
            /\ added' = added \cup {r.spool}
            /\ Goto(c, "pushAgain")
       ELSE Answer(c) /\ UNCHANGED <<doc, added>>
    /\ UNCHANGED <<slot, play>>

PushAgain(c) ==
    /\ At(c, "pushAgain")
    /\ IF HasVariants(req[c].t) THEN Goto(c, "pull") ELSE Answer(c)
    /\ UNCHANGED <<doc, slot, added, play>>

\* The request is refused and the spool was never there.
Pull(c) ==
    LET r == req[c] IN
    /\ At(c, "pull")
    /\ Put(r.t, [doc[r.t] EXCEPT !.own = @ \ {r.spool}])
    /\ added' = added \ {r.spool}
    /\ Answer(c)
    /\ UNCHANGED <<slot, play>>

(* removeSpool: the slots are cleared before the $pull, so that a failure   *)
(* leaves the spool there for a retry, and once more after it.             *)

DropCheckUnlocked(c) ==     \* mutant: the sequence does not run in a section
    LET r == req[c] IN
    /\ At(c, "dropCheck")
    /\ IF Live(r.t) /\ r.spool \in doc[r.t].own
       THEN Leave(c, [r EXCEPT !.pc = "dropSlots"]) ELSE Answer(c)
    /\ UNCHANGED <<doc, slot, added, play>>
DropCheck(c) ==
    LET r == req[c] IN
    /\ At(c, "dropCheck")
    /\ IF Live(r.t) /\ r.spool \in doc[r.t].own THEN Goto(c, "dropSlots") ELSE Answer(c)
    /\ UNCHANGED <<doc, slot, added, play>>

FreeSlot(s) == slot' = IF slot # None /\ slot.spool = s THEN None ELSE slot

DropSlots(c) ==
    /\ At(c, "dropSlots")
    /\ FreeSlot(req[c].spool)
    /\ Goto(c, "drop")
    /\ UNCHANGED <<doc, added, play>>

Drop(c) ==
    LET r == req[c] IN
    /\ At(c, "drop")
    /\ IF Live(r.t) /\ r.spool \in doc[r.t].own
       THEN /\ Put(r.t, [doc[r.t] EXCEPT !.own = @ \ {r.spool}])
            /\ added' = added \ {r.spool}
            /\ Goto(c, "dropSlotsAgain")
       ELSE Answer(c) /\ UNCHANGED <<doc, added>>
    /\ UNCHANGED <<slot, play>>

DropSlotsAgain(c) ==
    /\ At(c, "dropSlotsAgain")
    /\ FreeSlot(req[c].spool)
    /\ Answer(c)
    /\ UNCHANGED <<doc, added, play>>

SpoolStep(c) ==
    \/ PushCheck(c) \/ Push(c) \/ PushAgain(c) \/ Pull(c)
    \/ DropCheck(c) \/ DropSlots(c) \/ Drop(c) \/ DropSlotsAgain(c)

-----------------------------------------------------------------------------
Step(c) ==
    \/ GateStep(c) \/ Insert(c) \/ PutStep(c) \/ DeleteStep(c)
    \/ RestoreStep(c) \/ ReviveStep(c) \/ SpoolStep(c)

\* An await rejects: the request ends there and its section is over.
Fail(c) ==
    /\ req[c].pc # "idle" /\ MayRun(c)
    /\ play.fails > 0 /\ play' = [play EXCEPT !.fails = @ - 1]
    /\ Answer(c)
    /\ UNCHANGED <<doc, slot, added>>

\* The process dies: so do the requests and the mutexes.
Crash ==
    /\ \E c \in Clients : req[c].pc # "idle"
    /\ play.fails > 0 /\ play' = [play EXCEPT !.fails = @ - 1]
    /\ req' = [c \in Clients |-> Idle]
    /\ queue' = [k \in Rows |-> <<>>]
    /\ UNCHANGED <<doc, slot, added>>

Next ==
    \/ \E c \in Clients : Submit(c) \/ Step(c) \/ Fail(c)
    \/ Crash

Spec == Init /\ [][Next]_vars
FairSpec == Spec /\ \A c \in Clients : WF_vars(Step(c))

-----------------------------------------------------------------------------
\* Every variable keeps its type; in particular a stored parent is an id and
\* never a populated document, and a request only waits in queues of rows.
TypeOK ==
    /\ doc \in [Rows -> Doc \cup {NoDoc}]
    /\ slot \in [fil : Rows, spool : Spools \cup {None}] \cup {None}
    /\ queue \in [Rows -> Seq(Clients)]
    /\ req \in [Clients ->
          [pc : Outside \cup Entries \cup Inside, kind : AllKinds \cup {"none"}, t : Rows \cup {None},
           p : Rows \cup {None}, spool : Spools \cup {None}, ok : BOOLEAN,
           paint : BOOLEAN, half : BOOLEAN, clear : BOOLEAN,
           key : Rows \cup {None}, snap : Doc \cup {NoDoc}, copy : Rows \cup {None}]]
    /\ added \subseteq Spools
    /\ play \in Play

\* "no data is lost": whatever fails, every spool that was ever accepted is in
\* some document.
InventoryKept ==
    \A s \in added : \E f \in Rows : IsDoc(f) /\ s \in doc[f].own

\* Copy first, clear last: a spool leaves a filament only when another one
\* already holds the spool, and marker and token prove that the two belong to
\* one promotion.
GivenUpToTheCopy ==
    [][\A p \in Rows : \A s \in added' :
          (IsDoc(p) /\ s \in doc[p].own \ doc'[p].own) =>
              \E v \in Rows \ {p} : /\ IsDoc(v) /\ s \in doc[v].own
                                    /\ doc[p].marker # 0
                                    /\ doc[v].by = doc[p].marker]_vars

\* No template holds spools, except one whose promotion has begun and is under
\* way or was interrupted: then the marker says so.
TemplatesHoldNoSpools ==
    \A p \in Rows : (Live(p) /\ HasVariants(p) /\ HeldSpools(p) # {}) =>
        doc[p].marker # 0

\* The first live variant of a live filament never surfaces while the filament
\* holds spools, unless it is the copy that a promotion makes for them, or a PUT
\* is about to write the parent: its gate has let go of the key by then.
FirstVariantFindsNoSpools ==
    [][\A p \in Rows :
          (Live(p) /\ ~HasVariants(p) /\ HasVariants(p)') =>
              \/ HeldSpools(p) = {} \/ doc[p].marker # 0
              \/ \E c \in Clients : req[c].kind = "adopt" /\ req[c].p = p]_vars

\* A spool is live on two filaments only as long as a promotion moves it.
LiveOnce ==
    \A f, g \in Rows : (f # g /\ Live(f) /\ Live(g)) =>
        \/ HeldSpools(f) \cap HeldSpools(g) = {}
        \/ doc[f].marker # 0 /\ doc[g].by = doc[f].marker
        \/ doc[g].marker # 0 /\ doc[f].by = doc[g].marker

\* No "200-acknowledged delete whose spool RESURRECTS on the variant": a spool
\* that was removed never shows up on a document again.
NeverResurrected ==
    [][\A f \in Rows : (IsDoc(f))' =>
          doc'[f].own \cap Spools \subseteq
              added' \cup (IF IsDoc(f) THEN doc[f].own ELSE {})]_vars

\* "every external reference still resolves": at every moment a slot refers to
\* a live filament that holds its spool.
SlotResolves ==
    slot # None => /\ Live(slot.fil)
                   /\ slot.spool \in HeldSpools(slot.fil) \cup {None}

\* A PUT that has written a parent and has not yet asserted the outcome.
Settling(f) ==
    \E c \in Clients : /\ req[c].kind = "adopt" /\ req[c].t = f
                       /\ req[c].pc \in {"assertParent", "assertVariants", "rollback"}

\* Inheritance is one level deep, "under any interleaving of two opposing
\* re-parents", once the requests that wrote a parent have looked at the result.
NoNesting ==
    \A f \in Rows : (Live(f) /\ Live(doc[f].parent) /\ doc[doc[f].parent].parent # None)
        => Settling(f) \/ Settling(doc[f].parent)

\* "a trashed doc cannot have live variants"
TrashHasNoVariants ==
    \A p \in Rows : (IsDoc(p) /\ ~doc[p].live) =>
        \A v \in LiveVariants(p) : Settling(v)

\* "`_purged` with a live `_deletedAt` is simply not a legal state."
PurgedStaysDead == \A f \in Rows : IsDoc(f) => ~(doc[f].purged /\ doc[f].live)

\* Opposing re-parents each take two keys; some request can always go on.
NoCircularWait ==
    (\E c \in Clients : req[c].pc # "idle") =>
        \E c \in Clients : req[c].pc # "idle" /\ MayRun(c)

\* Every request is answered: no two of them wait for each other's key, and
\* the queue of a key moves on whatever the section at its head ends with.
EveryRequestAnswered ==
    \A c \in Clients : (req[c].pc # "idle") ~> (req[c].pc = "idle")
=============================================================================
