----------------------------- MODULE PrintJobs -----------------------------
(***************************************************************************)
(* Grams in and out of spools.  A print job debits the spools it used,     *)
(* leaves an entry with its id in each spool's ledger (usageHistory) and   *)
(* is recorded in the print history (api/print-history/route.ts); deleting *)
(* the record pays the grams back, keyed by the ledger entry               *)
(* ([id]/route.ts).  Meanwhile usage is logged by hand                     *)
(* (spools/[spoolId]/usage), spools are put on the scale                   *)
(* (spools/[spoolId], PUT) and a promotion moves the spools of a filament  *)
(* to its first variant (promoteParent.ts, in detail in Families).         *)
(*                                                                         *)
(* Two things keep these apart: a process-local mutex per filament, of     *)
(* which nobody holds two, and the version __v a document is saved under.  *)
(* A job of one filament runs in a transaction if the server has them (a   *)
(* replica set); the embedded server is a standalone, where it saves one   *)
(* document after another as a job of several filaments always does.       *)
(*                                                                         *)
(* A request that waits for a key takes it together with its first step    *)
(* under it.  Left out: retired spools and untracked weights, tares and    *)
(* the gross-capacity clamp of a refund, entries from before jobId, the    *)
(* trash, and the deletion of spools.                                      *)
(***************************************************************************)
EXTENDS Integers, SequencesExt

CONSTANTS
    Fils, Spools, Jobs, Clients,
    Usages,     \* the usage lists jobs are posted with: [fil, spool, grams]
    Kinds,      \* the kinds of request each client sends
    Short,      \* what anybody may do besides: log usage, weigh a spool at any
                \* moment, or weigh one while no request is under way ("rest")
    Faulty,     \* those of them that may be cut short by a failure or crash
    Stock, Past,    \* the filaments and the print history at the start
    None, NoFil,
    MaxLedger,  \* MAX_SPOOL_HISTORY
    MaxLogs,    \* bound on manual logs and weighings
    MaxFails    \* bound on failures and crashes

LongKinds == {"job", "delete", "promote"}

VARIABLES
    fil,        \* the filaments collection
    hist,       \* the print history
    holder,     \* who holds the key of a filament
    replica,    \* does the server have transactions?
    req,        \* the requests in flight
    logs, fails,
    base,       \* history: what a spool would weigh without its live debits
    answer      \* history: how a job's request ended, and its deletion began

vars == <<fil, hist, holder, replica, req, logs, fails, base, answer>>

Entry == [job : Jobs \cup {None}, grams : Nat, debited : Nat]
Spool == [id : Spools, weight : Nat, ledger : Seq(Entry)]
\* `gross` is the weight of a roll from before there were spools.
Doc   == [ver : Nat, gross : Nat \cup {None}, parent : Fils \cup {None},
          spools : Seq(Spool)]
Row   == [fil : Fils, spool : Spools \cup {None}, grams : Nat, debited : Nat]
Hist  == [rows : Seq(Row), live : BOOLEAN]
Usage == [fil : Fils, spool : Spools \cup {None}, grams : Nat]
Answers == {"posted", "created", "retry", "error", "unsafe", "refused", "deleting"}

ASSUME PrintJobsAssumption ==
    /\ None \notin Fils \cup Spools \cup Jobs \cup Clients \cup Int \cup Answers
    /\ NoFil \notin Doc
    /\ Usages \subseteq Seq(Usage) \ {<<>>}
    /\ Kinds \in [Clients -> SUBSET LongKinds] /\ Faulty \subseteq LongKinds
    /\ Short \subseteq {"log", "weigh", "rest"}
    /\ Stock \in [Fils -> Doc \cup {NoFil}]
    /\ Past \in [Jobs -> Hist] /\ \A j \in Jobs : Past[j].live => Past[j].rows # <<>>
    /\ MaxLedger \in Nat \ {0} /\ MaxLogs \in Nat /\ MaxFails \in Nat

Idle == [kind |-> "idle"]
NoRow == [rows |-> <<>>, live |-> FALSE]

-----------------------------------------------------------------------------
(* The data.                                                               *)

IndexOf(d, s) == SelectInSeq(d.spools, LAMBDA x : x.id = s)     \* 0 if absent
HasVariants(f) == \E g \in Fils : fil[g] # NoFil /\ fil[g].parent = f
FilsOf(rows) == {rows[i].fil : i \in DOMAIN rows}

\* selectSpoolForDebit: the first that holds filament, else the first.
Pick(d) ==
    LET full == SelectInSeq(d.spools, LAMBDA x : x.weight > 0)
    IN IF full # 0 THEN full ELSE IF d.spools # <<>> THEN 1 ELSE 0

Wanted(weight, grams) == grams      \* mutant: no clamp at zero
Least(a, b) == IF a < b THEN a ELSE b

\* What is taken off stops at zero, and the entry says what was taken.
Debit(sp, job, grams) ==
    LET d == Least(sp.weight, grams) IN
    [sp EXCEPT !.weight = @ - d,
               !.ledger = Append(@, [job |-> job, grams |-> grams, debited |-> d])]

\* applyJobToFilaments: usage by usage, each seeing the debits before it.
ApplyUsage(job, acc, u) ==
    LET d == acc.docs[u.fil]
        i == IF u.spool = None THEN Pick(d) ELSE IndexOf(d, u.spool)
        row == [fil |-> u.fil, spool |-> None, grams |-> u.grams, debited |-> 0]
    IN  IF i = 0
        THEN [acc EXCEPT !.rows = Append(@, row), !.ok = @ /\ u.spool = None]
        ELSE LET sp == Debit(d.spools[i], job, u.grams) IN
             [acc EXCEPT !.docs[u.fil].spools[i] = sp,
                         !.rows = Append(@, [row EXCEPT !.spool = sp.id,
                                              !.debited = Last(sp.ledger).debited])]

Applied(job, usage, docs) ==
    LET done[n \in 0..Len(usage)] ==
          IF n = 0 THEN [docs |-> docs, rows |-> <<>>, ok |-> TRUE]
          ELSE ApplyUsage(job, done[n - 1], usage[n])
    IN  done[Len(usage)]

\* What is left of a sequence at the indices I, and what was debited there.
Only(seq, I) ==
    LET kept[n \in 0..Len(seq)] ==
          IF n = 0 THEN <<>>
          ELSE IF n \in I THEN Append(kept[n - 1], seq[n]) ELSE kept[n - 1]
    IN  kept[Len(seq)]
Total(seq, I) ==
    LET sum[n \in 0..Len(seq)] ==
          IF n = 0 THEN 0 ELSE sum[n - 1] + (IF n \in I THEN seq[n].debited ELSE 0)
    IN  sum[Len(seq)]

\* capUsageHistory: the oldest entries no undo needs go first, then the oldest,
\* never the last.
Cap(ledger) ==
    LET old == 1..(Len(ledger) - 1)
        before(k, i) == IF (ledger[k].job = None) = (ledger[i].job = None)
                        THEN k < i ELSE ledger[k].job = None
        drop == {i \in old : Cardinality({k \in old : before(k, i)})
                                 < Len(ledger) - MaxLedger}
    IN IF Len(ledger) <= MaxLedger THEN ledger
       ELSE Only(ledger, DOMAIN ledger \ drop)

CapDoc(d, ids) ==
    LET capped(sp) == IF sp.id \in ids THEN [sp EXCEPT !.ledger = Cap(@)] ELSE sp
    IN [d EXCEPT !.spools = [i \in DOMAIN @ |-> capped(@[i])]]

SpoolsOf(rows, f) == {rows[i].spool : i \in {k \in DOMAIN rows : rows[k].fil = f}} \ {None}

Debited(ledger) == Total(ledger, {i \in DOMAIN ledger : ledger[i].job # None})
TakenBy(rows, f, s) ==
    Total(rows, {i \in DOMAIN rows : rows[i].fil = f /\ rows[i].spool = s})

Init ==
    /\ fil = Stock
    /\ hist = Past
    /\ holder = [f \in Fils |-> None]
    /\ replica \in BOOLEAN
    /\ req = [c \in Clients |-> Idle]
    /\ logs = 0 /\ fails = 0
    /\ base = [s \in Spools |->
                 LET held == {f \in Fils : fil[f] # NoFil /\ IndexOf(fil[f], s) # 0}
                 IN IF held = {} THEN None
                    ELSE LET d == fil[CHOOSE f \in held : TRUE]
                             sp == d.spools[IndexOf(d, s)]
                         IN sp.weight + Debited(sp.ledger)]
    /\ answer = [j \in Jobs |-> IF hist[j].live THEN "created" ELSE None]

-----------------------------------------------------------------------------
(* A print job.  `docs` are the documents it read, `todo` what is left of  *)
(* the pass it is in, `saved` the filaments whose save returned.           *)

Free(f) == holder[f] = None
Whole(r) == Cardinality(FilsOf(r.usage)) = 1    \* one key for the whole job

MayUseRelocking(c, f) == Free(f)    \* mutant: the fallback takes its key again
MayUse(c, f) == IF Whole(req[c]) THEN holder[f] = c ELSE Free(f)

Step(c, r) == req' = [req EXCEPT ![c] = r]
Done(c) ==
    /\ Step(c, Idle)
    /\ holder' = [f \in Fils |-> IF holder[f] = c THEN None ELSE holder[f]]

Answer(j, a) == answer' = [answer EXCEPT ![j] = a]

\* Pass 1: no key is held.  A usage that names nothing is refused.
PostJob(c, j, usage) ==
    /\ req[c] = Idle /\ answer[j] = None
    /\ \A i \in DOMAIN usage :
          /\ fil[usage[i].fil] # NoFil
          /\ usage[i].spool # None => IndexOf(fil[usage[i].fil], usage[i].spool) # 0
    /\ LET multi == Cardinality(FilsOf(usage)) > 1 IN
       Step(c, [kind |-> "job", pc |-> IF multi THEN "check" ELSE "migrate",
                job |-> j, usage |-> usage,
                docs |-> [f \in Fils |-> IF f \in FilsOf(usage) THEN fil[f] ELSE NoFil],
                todo |-> FilsOf(usage), saved |-> {}, rows |-> <<>>,
                undo |-> None, unsafe |-> FALSE])
    /\ Answer(j, "posted")
    /\ UNCHANGED <<fil, hist, holder, replica, logs, fails, base>>

IsLegacy(d) == d.spools = <<>> /\ d.gross # None

\* checkLegacyMigrationAllowed, for each filament of a job of several.
CheckLegacy(c, f) ==
    LET r == req[c] IN
    /\ r.kind = "job" /\ r.pc = "check" /\ f \in r.todo
    /\ Free(f)
    /\ IF IsLegacy(r.docs[f]) /\ fil[f].spools = <<>> /\ HasVariants(f)
       THEN Done(c) /\ Answer(r.job, "refused")
       ELSE /\ Step(c, [r EXCEPT !.todo = @ \ {f}])
            /\ UNCHANGED <<holder, answer>>
    /\ UNCHANGED <<fil, hist, replica, logs, fails, base>>

Checked(c) ==
    LET r == req[c] IN
    /\ r.kind = "job" /\ r.pc = "check" /\ r.todo = {}
    /\ Step(c, [r EXCEPT !.pc = "migrate", !.todo = FilsOf(r.usage)])
    /\ UNCHANGED <<fil, hist, holder, replica, logs, fails, base, answer>>

\* migrateLegacyFilamentInLock: the roll becomes a spool.  A job of one
\* filament keeps the key from here on.
Migrate(c, f) ==
    LET r == req[c]
        keep == IF Whole(r) THEN [holder EXCEPT ![f] = c] ELSE holder
        next(d) == /\ Step(c, [r EXCEPT !.docs[f] = d, !.todo = @ \ {f}])
                   /\ holder' = keep
                   /\ UNCHANGED answer
    IN
    /\ r.kind = "job" /\ r.pc = "migrate" /\ f \in r.todo
    /\ Free(f)
    /\ IF ~IsLegacy(r.docs[f]) THEN next(r.docs[f]) /\ UNCHANGED <<fil, base>>
       ELSE IF HasVariants(f) /\ fil[f].spools = <<>>
       THEN Done(c) /\ Answer(r.job, "refused") /\ UNCHANGED <<fil, base>>
       ELSE IF ~IsLegacy(fil[f]) THEN next(fil[f]) /\ UNCHANGED <<fil, base>>
       ELSE \E s \in {s \in Spools : base[s] = None} :
              LET d == [fil[f] EXCEPT !.ver = @ + 1, !.gross = None,
                         !.spools = <<[id |-> s, weight |-> fil[f].gross, ledger |-> <<>>]>>]
              IN /\ fil' = [fil EXCEPT ![f] = d]
                 /\ base' = [base EXCEPT ![s] = fil[f].gross]
                 /\ next(d)
    /\ UNCHANGED <<hist, replica, logs, fails>>

Recorded(r, rows) == [hist EXCEPT ![r.job] = [rows |-> rows, live |-> TRUE]]

\* persistWithTransaction: the documents are read anew, and everything or
\* nothing is written.
Transact(c) ==
    LET r == req[c]
        done == Applied(r.job, r.usage, fil)
    IN
    /\ r.kind = "job" /\ r.pc = "migrate" /\ r.todo = {} /\ Whole(r) /\ replica
    /\ IF done.ok
       THEN /\ fil' = [f \in Fils |->
                 LET ids == SpoolsOf(done.rows, f) IN
                 IF ids = {} THEN fil[f]
                 ELSE [CapDoc(done.docs[f], ids) EXCEPT !.ver = @ + 1]]
            /\ hist' = Recorded(r, done.rows)
            /\ Answer(r.job, "created")
       ELSE Answer(r.job, "refused") /\ UNCHANGED <<fil, hist>>
    /\ Done(c)
    /\ UNCHANGED <<replica, logs, fails, base>>

\* persistSequential: the debit is applied to the documents read before.
Apply(c) ==
    LET r == req[c]
        done == Applied(r.job, r.usage, r.docs)
    IN
    /\ r.kind = "job" /\ r.pc = "migrate" /\ r.todo = {} /\ ~(Whole(r) /\ replica)
    /\ IF done.ok
       THEN /\ Step(c, [r EXCEPT !.pc = "save", !.docs = done.docs, !.rows = done.rows,
                                 !.todo = FilsOf(r.usage)])
            /\ UNCHANGED <<holder, answer>>
       ELSE Done(c) /\ Answer(r.job, "refused")
    /\ UNCHANGED <<fil, hist, replica, logs, fails, base>>

\* What save() writes: the paths that changed, under the version that was read.
Written(d, ids, f) ==
    [fil[f] EXCEPT !.ver = @ + 1,
       !.spools = [i \in DOMAIN @ |-> IF @[i].id \in ids THEN d.spools[i] ELSE @[i]]]
MaySave(d, f) == fil[f].ver = d.ver

SaveFil(c, f) ==
    LET r == req[c]
        ids == SpoolsOf(r.rows, f)
    IN
    /\ r.kind = "job" /\ r.pc = "save" /\ f \in r.todo
    /\ MayUse(c, f)
    /\ IF ids = {} \/ MaySave(r.docs[f], f)
       THEN /\ fil' = IF ids = {} THEN fil ELSE [fil EXCEPT ![f] = Written(r.docs[f], ids, f)]
            /\ Step(c, [r EXCEPT !.todo = @ \ {f}, !.saved = @ \cup {f},
                                 !.docs[f].ver = fil'[f].ver])
       ELSE /\ Step(c, [r EXCEPT !.pc = "undo", !.todo = FilsOf(r.usage), !.undo = "retry"])
            /\ UNCHANGED fil
    /\ UNCHANGED <<hist, holder, replica, logs, fails, base, answer>>

\* The history row is created last.
Record(c) ==
    LET r == req[c] IN
    /\ r.kind = "job" /\ r.pc = "save" /\ r.todo = {}
    /\ hist' = Recorded(r, r.rows)
    /\ Answer(r.job, "created")
    /\ Step(c, [r EXCEPT !.pc = "trim", !.todo = FilsOf(r.usage)])
    /\ UNCHANGED <<fil, holder, replica, logs, fails, base>>

\* capTouchedSpools after the fact: a save that fails is let go.  It saves the
\* ledgers; the weights stay what they are by now.
LedgersOf(d, f) ==
    [d EXCEPT !.spools = [i \in DOMAIN @ |-> [@[i] EXCEPT !.weight = fil[f].spools[i].weight]]]

Trim(c, f) ==
    LET r == req[c]
        ids == SpoolsOf(r.rows, f)
        capped == CapDoc(r.docs[f], ids)
    IN
    /\ r.kind = "job" /\ r.pc = "trim" /\ f \in r.todo
    /\ MayUse(c, f)
    /\ fil' = IF capped # r.docs[f] /\ MaySave(r.docs[f], f)
              THEN [fil EXCEPT ![f] = Written(LedgersOf(capped, f), ids, f)] ELSE fil
    /\ Step(c, [r EXCEPT !.todo = @ \ {f}])
    /\ UNCHANGED <<hist, holder, replica, logs, fails, base, answer>>

Trimmed(c) ==
    LET r == req[c] IN
    /\ r.kind = "job" /\ r.pc = "trim" /\ r.todo = {}
    /\ Done(c)
    /\ UNCHANGED <<fil, hist, replica, logs, fails, base, answer>>

EntriesOf(j, f, s) ==
    IF fil[f] = NoFil \/ IndexOf(fil[f], s) = 0 THEN {}
    ELSE LET ledger == fil[f].spools[IndexOf(fil[f], s)].ledger
         IN {k \in DOMAIN ledger : ledger[k].job = j}

\* The compensation of some spools: what this job took is added to what is there
\* now, where its ledger entry is still there to pull.
Pulled(f, j, rows, ids) ==
    LET mine(sp) == sp.id \in ids /\ EntriesOf(j, f, sp.id) # {}
        back(sp) == IF mine(sp)
                    THEN [sp EXCEPT !.ledger = Only(@, {k \in DOMAIN @ : @[k].job # j}),
                                    !.weight = @ + TakenBy(rows, f, sp.id)]
                    ELSE sp
    IN [fil[f] EXCEPT
          !.ver = IF \E i \in DOMAIN fil[f].spools : mine(fil[f].spools[i]) THEN @ + 1 ELSE @,
          !.spools = [i \in DOMAIN @ |-> back(@[i])]]

HasEntriesAssumed(f, j, rows) == TRUE   \* mutant: matchedCount is not looked at
HasEntries(f, j, rows) == \A t \in SpoolsOf(rows, f) : EntriesOf(j, f, t) # {}

UndoFil(c, f) ==
    LET r == req[c] IN
    /\ r.kind = "job" /\ r.pc = "undo" /\ f \in r.todo
    /\ MayUse(c, f)
    /\ fil' = [fil EXCEPT ![f] = Pulled(f, r.job, r.rows, SpoolsOf(r.rows, f))]
    /\ Step(c, [r EXCEPT !.todo = @ \ {f},
                         !.unsafe = @ \/ (f \in r.saved /\ ~HasEntries(f, r.job, r.rows))])
    /\ UNCHANGED <<hist, holder, replica, logs, fails, base, answer>>

Undone(c) ==
    LET r == req[c] IN
    /\ r.kind = "job" /\ r.pc = "undo" /\ r.todo = {}
    /\ Done(c) /\ Answer(r.job, IF r.unsafe THEN "unsafe" ELSE r.undo)
    /\ UNCHANGED <<fil, hist, replica, logs, fails, base>>

JobStep(c) ==
    \/ \E f \in Fils : \/ CheckLegacy(c, f) \/ Migrate(c, f) \/ SaveFil(c, f)
                       \/ Trim(c, f) \/ UndoFil(c, f)
    \/ Checked(c) \/ Transact(c) \/ Apply(c) \/ Record(c) \/ Trimmed(c) \/ Undone(c)

-----------------------------------------------------------------------------
(* The deletion of a record pays back row by row, each under the key of    *)
(* the filament that has the row's spool.                                  *)

DeleteJob(c, j) ==
    /\ req[c] = Idle /\ hist[j].live
    /\ Step(c, [kind |-> "delete", job |-> j, rows |-> hist[j].rows, i |-> 1,
                target |-> hist[j].rows[1].fil, hop |-> 0])
    /\ Answer(j, "deleting")
    /\ UNCHANGED <<fil, hist, holder, replica, logs, fails, base>>

NextRow(r) ==
    [r EXCEPT !.i = @ + 1, !.hop = 0,
              !.target = IF r.i < Len(r.rows) THEN r.rows[r.i + 1].fil ELSE @]

\* The entry a row pays back: of the job and its grams, else of the job.
EntryOf(ledger, j, grams) ==
    LET exact == SelectInSeq(ledger, LAMBDA e : e.job = j /\ e.grams = grams)
    IN IF exact # 0 THEN exact ELSE SelectInSeq(ledger, LAMBDA e : e.job = j)

RefundUnmatched(sp, r) ==   \* mutant: refunds although there is no entry left
    [sp EXCEPT !.weight = @ + r.rows[r.i].debited,
               !.ledger = SelectSeq(@, LAMBDA e : e.job # r.job)]
Refunded(sp, r) ==
    LET k == EntryOf(sp.ledger, r.job, r.rows[r.i].grams) IN
    IF k = 0 THEN sp
    ELSE [sp EXCEPT !.weight = @ + sp.ledger[k].debited, !.ledger = Only(@, DOMAIN @ \ {k})]

FilWhenRead(r) == r.rows[r.i].fil       \* mutant: the row is not read again
FilNow(r) == hist[r.job].rows[r.i].fil

\* One hop at most: the copy a promotion makes is a variant, which is never
\* promoted.
RefundRow(c) ==
    LET r == req[c]
        f == r.target
    IN
    /\ r.kind = "delete" /\ r.i <= Len(r.rows)
    /\ Free(f)
    /\ IF FilNow(r) # f
       THEN /\ Step(c, IF r.hop = 1 THEN NextRow(r)
                       ELSE [r EXCEPT !.target = FilNow(r), !.hop = 1])
            /\ UNCHANGED fil
       ELSE LET i == IF fil[f] = NoFil THEN 0 ELSE IndexOf(fil[f], r.rows[r.i].spool)
                sp == Refunded(fil[f].spools[i], r)
            IN /\ fil' = IF i = 0 \/ sp = fil[f].spools[i] THEN fil
                         ELSE [fil EXCEPT ![f].ver = @ + 1, ![f].spools[i] = sp]
               /\ Step(c, NextRow(r))
    /\ UNCHANGED <<hist, holder, replica, logs, fails, base, answer>>

Tombstone(c) ==
    LET r == req[c] IN
    /\ r.kind = "delete" /\ r.i > Len(r.rows)
    /\ hist' = [hist EXCEPT ![r.job].live = FALSE]
    /\ Done(c)
    /\ UNCHANGED <<fil, replica, logs, fails, base, answer>>

DeleteStep(c) == RefundRow(c) \/ Tombstone(c)

-----------------------------------------------------------------------------
(* The other writers of spools, each under the filament's key.             *)

\* POST usage: read, changed and saved in one hold.
LogUsage(f, i) ==
    /\ logs < MaxLogs
    /\ Free(f) /\ fil[f] # NoFil /\ i \in DOMAIN fil[f].spools
    /\ LET sp == Debit(fil[f].spools[i], None, 1) IN
       /\ fil' = [fil EXCEPT ![f].ver = @ + 1,
                             ![f].spools[i] = [sp EXCEPT !.ledger = Cap(@)]]
       /\ base' = [base EXCEPT ![sp.id] = @ - (fil[f].spools[i].weight - sp.weight)]
    /\ logs' = logs + 1
    /\ UNCHANGED <<hist, holder, replica, req, fails, answer>>

\* PUT: an update of the stored document, which leaves its version alone.
Weigh(f, i) ==
    /\ logs < MaxLogs
    /\ Free(f) /\ fil[f] # NoFil /\ i \in DOMAIN fil[f].spools
    /\ \E w \in {0, 1} :
          /\ fil' = [fil EXCEPT ![f].spools[i].weight = w]
          /\ base' = [base EXCEPT ![fil[f].spools[i].id] = w + Debited(fil[f].spools[i].ledger)]
    /\ logs' = logs + 1
    /\ UNCHANGED <<hist, holder, replica, req, fails, answer>>

\* The promotion a confirmed first variant brings about: the spools are copied
\* (the snapshot is taken under the key), the history rows follow them, and the
\* parent is cleared under a new version.  A copy that an interrupted promotion
\* left is taken up again.
Carries(d) == d.spools # <<>> \/ d.gross # None

Promote(c, f) ==
    /\ req[c] = Idle
    /\ Free(f) /\ fil[f] # NoFil /\ fil[f].parent = None /\ Carries(fil[f])
    /\ \E v \in Fils :
          /\ IF HasVariants(f) THEN fil[v] # NoFil /\ fil[v].parent = f /\ UNCHANGED fil
             ELSE /\ fil[v] = NoFil
                  /\ fil' = [fil EXCEPT ![v] = [fil[f] EXCEPT !.ver = 0, !.parent = f]]
          /\ Step(c, [kind |-> "promote", pc |-> "remap", from |-> f, to |-> v,
                      moved |-> {fil[f].spools[i].id : i \in DOMAIN fil[f].spools}])
    /\ holder' = [holder EXCEPT ![f] = c]
    /\ UNCHANGED <<hist, replica, logs, fails, base, answer>>

Remap(c) ==
    LET r == req[c]
        follow(row) == IF row.fil = r.from /\ row.spool \in r.moved
                       THEN [row EXCEPT !.fil = r.to] ELSE row
    IN
    /\ r.kind = "promote" /\ r.pc = "remap"
    /\ hist' = [j \in Jobs |->
                   [hist[j] EXCEPT !.rows = [i \in DOMAIN @ |-> follow(@[i])]]]
    /\ Step(c, [r EXCEPT !.pc = "complete"])
    /\ UNCHANGED <<fil, holder, replica, logs, fails, base, answer>>

ClearedSameVersion(d) == [d EXCEPT !.spools = <<>>, !.gross = None]    \* mutant
Cleared(d) == [d EXCEPT !.ver = @ + 1, !.spools = <<>>, !.gross = None]

Complete(c) ==
    LET r == req[c] IN
    /\ r.kind = "promote" /\ r.pc = "complete"
    /\ fil' = [fil EXCEPT ![r.from] = Cleared(@)]
    /\ Done(c)
    /\ UNCHANGED <<hist, replica, logs, fails, base, answer>>

PromoteStep(c) == Remap(c) \/ Complete(c)

-----------------------------------------------------------------------------
(* Failures.                                                               *)

Fault == fails < MaxFails /\ fails' = fails + 1

\* A call on the database fails: before anything was saved, or in a request
\* that has nothing to undo, that is the end of it.
Fail(c) ==
    LET r == req[c] IN
    /\ Fault
    /\ r.kind \in Faulty
    /\ r.kind = "job" => r.pc \in {"check", "migrate"}
    /\ Done(c)
    /\ IF r.kind = "job" THEN Answer(r.job, "error") ELSE UNCHANGED answer
    /\ UNCHANGED <<fil, hist, replica, logs, base>>

\* A save fails, although it may have been carried out.
SaveFails(c, f) ==
    LET r == req[c] IN
    /\ Fault
    /\ "job" \in Faulty
    /\ r.kind = "job" /\ r.pc = "save" /\ f \in r.todo /\ MayUse(c, f)
    /\ \/ UNCHANGED fil
       \/ /\ SpoolsOf(r.rows, f) # {} /\ MaySave(r.docs[f], f)
          /\ fil' = [fil EXCEPT ![f] = Written(r.docs[f], SpoolsOf(r.rows, f), f)]
    /\ Step(c, [r EXCEPT !.pc = "undo", !.todo = FilsOf(r.usage), !.undo = "error"])
    /\ UNCHANGED <<hist, holder, replica, logs, base, answer>>

RecordFails(c) ==
    LET r == req[c] IN
    /\ Fault
    /\ "job" \in Faulty
    /\ r.kind = "job" /\ r.pc = "save" /\ r.todo = {}
    /\ UNCHANGED hist \/ hist' = Recorded(r, r.rows)
    /\ Step(c, [r EXCEPT !.pc = "undo", !.todo = FilsOf(r.usage), !.undo = "error"])
    /\ UNCHANGED <<fil, holder, replica, logs, base, answer>>

UndoFails(c, f) ==
    LET r == req[c] IN
    /\ Fault
    /\ "job" \in Faulty
    /\ r.kind = "job" /\ r.pc = "undo" /\ f \in r.todo /\ MayUse(c, f)
    /\ SpoolsOf(r.rows, f) # {}
    /\ \E n \in 0..Len(r.rows) :
          fil' = [fil EXCEPT ![f] = Pulled(f, r.job, r.rows, SpoolsOf(SubSeq(r.rows, 1, n), f))]
    /\ Step(c, [r EXCEPT !.todo = @ \ {f}, !.unsafe = TRUE])
    /\ UNCHANGED <<hist, holder, replica, logs, base, answer>>

\* The server dies: the keys were in its memory.
Crash ==
    /\ Fault
    /\ \E c \in Clients : req[c] # Idle
    /\ \A c \in Clients : req[c].kind \in Faulty \cup {"idle"}
    /\ req' = [c \in Clients |-> Idle]
    /\ holder' = [f \in Fils |-> None]
    /\ UNCHANGED <<fil, hist, replica, logs, base, answer>>

-----------------------------------------------------------------------------
Requests(c) ==
    \/ "job" \in Kinds[c] /\ \E j \in Jobs, u \in Usages : PostJob(c, j, u)
    \/ "delete" \in Kinds[c] /\ \E j \in Jobs : DeleteJob(c, j)
    \/ "promote" \in Kinds[c] /\ \E f \in Fils : Promote(c, f)

Handle(c) == JobStep(c) \/ DeleteStep(c) \/ PromoteStep(c)
Failures(c) ==
    Fail(c) \/ RecordFails(c) \/ \E f \in Fils : SaveFails(c, f) \/ UndoFails(c, f)

MayWeigh ==
    \/ "weigh" \in Short
    \/ "rest" \in Short /\ \A c \in Clients : req[c] = Idle

Next ==
    \/ \E c \in Clients : Requests(c) \/ Handle(c) \/ Failures(c)
    \/ \E f \in Fils, i \in 1..Cardinality(Spools) :
          \/ "log" \in Short /\ LogUsage(f, i)
          \/ MayWeigh /\ Weigh(f, i)
    \/ Crash

Spec == Init /\ [][Next]_vars

-----------------------------------------------------------------------------
JobReq == [kind : {"job"}, pc : {"check", "migrate", "save", "trim", "undo"}, job : Jobs,
           usage : Usages, docs : [Fils -> Doc \cup {NoFil}],
           todo : SUBSET Fils, saved : SUBSET Fils, rows : Seq(Row),
           undo : {None, "retry", "error"}, unsafe : BOOLEAN]
DeleteReq == [kind : {"delete"}, job : Jobs, rows : Seq(Row), i : Nat \ {0},
              target : Fils, hop : {0, 1}]
PromoteReq == [kind : {"promote"}, pc : {"remap", "complete"}, from : Fils, to : Fils,
               moved : SUBSET Spools]

\* Every variable keeps its type.
TypeOK ==
    /\ fil \in [Fils -> Doc \cup {NoFil}]
    /\ hist \in [Jobs -> Hist]
    /\ holder \in [Fils -> Clients \cup {None}]
    /\ replica \in BOOLEAN
    /\ req \in [Clients -> JobReq \cup DeleteReq \cup PromoteReq \cup {Idle}]
    /\ logs \in Nat /\ fails \in Nat
    /\ base \in [Spools -> Int \cup {None}]
    /\ answer \in [Jobs -> Answers \cup {None}]

\* The weight of a spool plus what the jobs in its ledger took is what it held:
\* no debit, compensation, refund or retry of one is lost, applied twice or
\* applied without its entry, whoever else writes the filament in between.
\* (Of a filament that is being promoted the copy counts.)
WeightsExplained ==
    \A f \in Fils : (fil[f] # NoFil /\ ~HasVariants(f)) => \A i \in DOMAIN fil[f].spools :
        LET sp == fil[f].spools[i] IN sp.weight + Debited(sp.ledger) = base[sp.id]

\* A job that was answered 409, "please retry", has left nothing behind: the
\* retry does not debit anything a second time.
RetryIsSafe ==
    \A j \in Jobs : answer[j] = "retry" =>
        /\ hist[j] = NoRow
        /\ \A f \in Fils, s \in Spools : EntriesOf(j, f, s) = {}

OneFil(j) == Cardinality({hist[j].rows[i].spool : i \in DOMAIN hist[j].rows}) = 1

\* What the history says a job used is still in the ledger of the spool it
\* names, one entry per row, for the deletion to pay back; a job of several
\* filaments may name the one its spool was on before a promotion.
RecordedIsCharged ==
    \A j \in Jobs : answer[j] = "created" =>
        \A i \in DOMAIN hist[j].rows :
            LET row == hist[j].rows[i]
                same == {k \in DOMAIN hist[j].rows : hist[j].rows[k].spool = row.spool}
            IN row.spool = None \/
               \E f \in (IF OneFil(j) THEN {row.fil} ELSE Fils) :
                   Cardinality(EntriesOf(j, f, row.spool)) = Cardinality(same)

\* A record in the trash was paid back in full, even if the spool was promoted
\* to another filament while the deletion was under way.
DeletedIsRefunded ==
    \A j \in Jobs : (answer[j] = "deleting" /\ ~hist[j].live /\ OneFil(j)) =>
        \A f \in Fils, s \in Spools : HasVariants(f) \/ EntriesOf(j, f, s) = {}

\* A request that waits for a key waits for another that is not itself waiting
\* ("never hold two filament keys at once"; the fallback, already under the key,
\* "would self-deadlock on the chained mutex").
WaitsFor(c) ==
    LET r == req[c] IN
    CASE r.kind = "job" ->
            {f \in r.todo : IF r.pc \in {"check", "migrate"} THEN ~Free(f) ELSE ~MayUse(c, f)}
      [] r.kind = "delete" /\ r.i <= Len(r.rows) -> {f \in {r.target} : ~Free(f)}
      [] OTHER -> {}
NoCircularWait ==
    \A c \in Clients, f \in Fils : f \in WaitsFor(c) =>
        holder[f] \in Clients \ {c} /\ WaitsFor(holder[f]) = {}

\* The state at every await: grams and ledgers agree, and somebody can go on.
Inv == TypeOK /\ WeightsExplained /\ NoCircularWait
=============================================================================
