--------------------------- MODULE SyncRowsProofs ---------------------------
(***************************************************************************)
(* Proofs about SyncRows, for any sets of rows, services and databases and *)
(* any bounds; and, in the second half, that it implements the register.   *)
(***************************************************************************)
EXTENDS SyncRegister, TLAPS

\* Both databases of a service, whichever side they are on, are databases.
LEMMA StoreFacts ==
    ASSUME NEW s \in Services, NEW side \in Sides
    PROVE  /\ Db(s, side) \in Stores
           /\ LocalOf[s] \in Stores /\ Remote \in Stores
           /\ Other(side) \in Sides
BY ServicesAssumption DEF Db, Stores, Sides, Other

\* A document whose flags or timestamps are set is still a document.
LEMMA DocUpdates ==
    ASSUME NEW d \in Doc, NEW t \in Nat, NEW u \in Nat
    PROVE  /\ [d EXCEPT !.del = t, !.upd = u] \in Doc
           /\ [d EXCEPT !.del = t, !.upd = u, !.purged = TRUE] \in Doc
           /\ [d EXCEPT !.purged = TRUE, !.del = t] \in Doc
           /\ [d EXCEPT !.del = t] \in Doc
BY DEF Doc

\* A slim read returns the three projected fields, or that there is no row.
LEMMA SlimType ==
    ASSUME NEW d \in Doc \cup {NoDoc}
    PROVE  SlimOf(d) \in Slim \cup {NoDoc}
BY DEF SlimOf, Doc, Slim

\* The zombie repair neither creates nor removes a row, nor edits it.
LEMMA RetombstoneType ==
    ASSUME NEW d \in Doc \cup {NoDoc}, clock \in Nat
    PROVE  /\ Retombstone(d) \in Doc \cup {NoDoc}
           /\ Retombstone(d) = NoDoc <=> d = NoDoc
           /\ d # NoDoc => /\ Retombstone(d).upd = d.upd
                           /\ Retombstone(d).body = d.body
BY NoDocAssumption DEF Retombstone, IsLive, Doc

\* An intent to copy is about a source that was read, hence is there.
LEMMA CopyHasSource ==
    ASSUME NEW a, NEW b, Outcome(a, b) \in CopyKinds
    PROVE  a # NoDoc
BY DEF Outcome, CopyKinds

\* The mark for "no copy under way" is no copy.
LEMMA NoJobNotJob ==
    NoJob \notin Job
BY DEF NoJob, Job, CopyKinds

\* A flag is only ever meant for a row that was read on both sides.
LEMMA FlagHasBoth ==
    ASSUME NEW a, NEW b, Outcome(a, b) \in FlagKinds
    PROVE  a # NoDoc /\ b # NoDoc
BY DEF Outcome, FlagKinds

\* A row that was seen by a slim read never disappears from that database.
SeenStays ==
    \A s \in Services, side \in Sides, r \in Rows :
        snap[s][side][r] # NoDoc => store[Db(s, side)][r] # NoDoc

\* The row under work has a document to copy, and is still to be done.
JobMatchesPc ==
    \A s \in Services :
        pc[s] = "copy" => /\ job[s] # NoJob
                          /\ job[s].row \in todo[s]

\* Restore and purge requests are about rows that exist.
ReqsExist == \A q \in reqs : store[q.db][q.row] # NoDoc

TypeInv == TypeOK /\ SeenStays /\ JobMatchesPc /\ ReqsExist

\* No step takes a document out of a database.
NothingVanishes ==
    \A st \in Stores, r \in Rows :
        store[st][r] # NoDoc => store'[st][r] # NoDoc

\* Writing one document keeps the databases' type and every row in place.
LEMMA PutFacts ==
    ASSUME TypeOK, NEW st \in Stores, NEW r \in Rows, NEW d \in Doc,
           Put(st, r, d)
    PROVE  /\ store' \in [Stores -> [Rows -> Doc \cup {NoDoc}]]
           /\ NothingVanishes
BY NoDocAssumption DEF TypeOK, Put, NothingVanishes

\* Recording which passes a write disturbs keeps the record's type.
LEMMA DisturbType ==
    ASSUME TypeOK, NEW own, NEW st \in Stores, NEW rs \in SUBSET Rows,
           Disturb(own, st, rs)
    PROVE  dirty' \in [Services -> SUBSET Rows]
BY DEF TypeOK, Disturb

\* A write by the application keeps TypeInv.
LEMMA AppWriteType ==
    ASSUME TypeInv, NEW st \in Stores, NEW r \in Rows, NEW d \in Doc,
           AppWrite(st, r, d),
           reqs' \subseteq reqs
    PROVE  TypeInv'
<1>1. store' \in [Stores -> [Rows -> Doc \cup {NoDoc}]] /\ NothingVanishes
  BY PutFacts DEF TypeInv, AppWrite
<1>2. dirty' \in [Services -> SUBSET Rows]
  BY DisturbType DEF TypeInv, AppWrite
<1>3. TypeOK'
  BY <1>1, <1>2 DEF TypeInv, TypeOK, AppWrite, Remember, Doc
<1>4. SeenStays'
  BY <1>1, StoreFacts DEF TypeInv, SeenStays, NothingVanishes, AppWrite, Db
<1>5. JobMatchesPc'
  BY DEF TypeInv, JobMatchesPc, AppWrite
<1>6. ReqsExist'
  BY <1>1 DEF TypeInv, TypeOK, ReqsExist, NothingVanishes
<1> QED BY <1>3, <1>4, <1>5, <1>6 DEF TypeInv

\* Every request to the application keeps TypeInv.
LEMMA AppType ==
    ASSUME TypeInv, AppNext PROVE TypeInv'
<1>1. ASSUME NEW st \in Stores, NEW r \in Rows, AppCreate(st, r)
      PROVE  TypeInv'
  <2>1. PICK b \in SUBSET Fields :
           AppWrite(st, r, [body |-> b, upd |-> clock + 1, del |-> 0,
                            purged |-> FALSE])
    BY <1>1 DEF AppCreate
  <2>2. [body |-> b, upd |-> clock + 1, del |-> 0, purged |-> FALSE] \in Doc
    BY DEF TypeInv, TypeOK, Doc
  <2> QED BY <1>1, <2>1, <2>2, AppWriteType DEF AppCreate
<1>2. ASSUME NEW st \in Stores, NEW r \in Rows, AppEdit(st, r)
      PROVE  TypeInv'
  <2>1. PICK b \in SUBSET Fields :
           AppWrite(st, r, [store[st][r] EXCEPT !.body = b, !.upd = clock + 1])
    BY <1>2 DEF AppEdit
  <2>2. store[st][r] \in Doc /\ clock + 1 \in Nat
    BY <1>2 DEF TypeInv, TypeOK, AppEdit
  <2>3. [store[st][r] EXCEPT !.body = b, !.upd = clock + 1] \in Doc
    BY <2>2 DEF Doc
  <2> QED BY <1>2, <2>1, <2>3, AppWriteType DEF AppEdit
<1>3. ASSUME NEW st \in Stores, NEW r \in Rows, AppDelete(st, r)
      PROVE  TypeInv'
  <2>1. PICK t \in {clock, clock + 1}, u \in {clock, clock + 1} :
           AppWrite(st, r, [store[st][r] EXCEPT !.del = t, !.upd = u])
    BY <1>3 DEF AppDelete
  <2>2. store[st][r] \in Doc /\ t \in Nat /\ u \in Nat
    BY <1>3 DEF TypeInv, TypeOK, AppDelete
  <2>3. [store[st][r] EXCEPT !.del = t, !.upd = u] \in Doc
    BY <2>2 DEF Doc
  <2> QED BY <1>3, <2>1, <2>3, AppWriteType DEF AppDelete
<1>4. ASSUME NEW st \in Stores, NEW r \in Rows,
             NEW kind \in {"restore", "purge"}, AppRequest(st, r, kind)
      PROVE  TypeInv'
  <2>1. TypeOK'
    BY <1>4 DEF TypeInv, TypeOK, AppRequest
  <2>2. SeenStays' /\ JobMatchesPc'
    BY <1>4 DEF TypeInv, SeenStays, JobMatchesPc, AppRequest, Db
  <2>3. ReqsExist'
    BY <1>4 DEF TypeInv, ReqsExist, AppRequest, InTrash
  <2> QED BY <2>1, <2>2, <2>3 DEF TypeInv
<1>5. ASSUME NEW q \in reqs
      PROVE  /\ q.db \in Stores /\ q.row \in Rows
             /\ store[q.db][q.row] \in Doc
  <2>1. q.db \in Stores /\ q.row \in Rows
    BY DEF TypeInv, TypeOK
  <2>2. store[q.db][q.row] # NoDoc
    BY DEF TypeInv, ReqsExist
  <2> QED BY <2>1, <2>2 DEF TypeInv, TypeOK
<1>6. ASSUME NEW q \in reqs, AppRestore(q) PROVE TypeInv'
  <2>0. store[q.db][q.row] \in Doc /\ clock + 1 \in Nat
    BY <1>5 DEF TypeInv, TypeOK
  <2>1. [store[q.db][q.row] EXCEPT !.del = 0, !.upd = clock + 1] \in Doc
    BY <2>0, DocUpdates
  <2> QED BY <1>5, <1>6, <2>1, AppWriteType DEF AppRestore
<1>7. ASSUME NEW q \in reqs, AppPurge(q) PROVE TypeInv'
  <2>0. store[q.db][q.row] \in Doc /\ clock + 1 \in Nat
    BY <1>5 DEF TypeInv, TypeOK
  <2>1. [store[q.db][q.row] EXCEPT !.del = clock + 1, !.upd = clock + 1,
                                   !.purged = TRUE] \in Doc
    BY <2>0, DocUpdates
  <2> QED BY <1>5, <1>7, <2>1, AppWriteType DEF AppPurge
<1> QED BY <1>1, <1>2, <1>3, <1>4, <1>6, <1>7 DEF AppNext

-----------------------------------------------------------------------------
\* retombstonePurgedZombies keeps TypeInv.
LEMMA ZombiesType ==
    ASSUME TypeInv, NEW s \in Services, NEW side \in Sides,
           NEW from, NEW to \in {"zombies", "readLocal"},
           RepairZombies(s, side, from, to), pc[s] # "copy"
    PROVE  TypeInv'
<1> DEFINE st == Db(s, side)
<1>0. st \in Stores
  BY StoreFacts
<1>1. /\ store' \in [Stores -> [Rows -> Doc \cup {NoDoc}]]
      /\ NothingVanishes
  BY <1>0, RetombstoneType
     DEF RepairZombies, TypeInv, TypeOK, NothingVanishes
<1>2. dirty' \in [Services -> SUBSET Rows]
  <2>1. Zombies(st) \in SUBSET Rows /\ Disturb({s}, st, Zombies(st))
    BY DEF Zombies, RepairZombies
  <2>2. TypeOK
    BY DEF TypeInv
  <2> QED BY <1>0, <2>1, <2>2, DisturbType
<1>3. TypeOK'
  BY <1>1, <1>2 DEF TypeInv, TypeOK, RepairZombies, app
<1>4. SeenStays'
  BY <1>1, StoreFacts DEF TypeInv, SeenStays, NothingVanishes, RepairZombies, Db
<1>5. JobMatchesPc'
  BY DEF TypeInv, TypeOK, JobMatchesPc, RepairZombies
<1>6. ReqsExist'
  BY <1>1 DEF TypeInv, TypeOK, ReqsExist, NothingVanishes, RepairZombies, app
<1> QED BY <1>3, <1>4, <1>5, <1>6 DEF TypeInv

\* Both slim reads keep TypeInv.
LEMMA SlimReadType ==
    ASSUME TypeInv, NEW s \in Services, NEW side \in Sides,
           NEW from \in {"readLocal", "readRemote"},
           NEW to \in {"readRemote", "rows"},
           SlimRead(s, side, from, to),
           todo' \in [Services -> SUBSET Rows],
           \A x \in Services : x # s => todo'[x] = todo[x]
    PROVE  TypeInv'
<1>0. Db(s, side) \in Stores
  BY StoreFacts
<1>1. snap' \in [Services -> [Sides -> [Rows -> Slim \cup {NoDoc}]]]
  <2>1. [r \in Rows |-> SlimOf(store[Db(s, side)][r])]
           \in [Rows -> Slim \cup {NoDoc}]
    BY <1>0, SlimType DEF TypeInv, TypeOK
  <2> QED BY <2>1 DEF TypeInv, TypeOK, SlimRead
<1>2. TypeOK'
  BY <1>1 DEF TypeInv, TypeOK, SlimRead, app
<1>3. SeenStays'
  <2> SUFFICES ASSUME NEW x \in Services, NEW sd \in Sides, NEW r \in Rows,
                      snap'[x][sd][r] # NoDoc
               PROVE  store[Db(x, sd)][r] # NoDoc
    BY DEF SeenStays, SlimRead, Db
  <2>1. CASE x = s /\ sd = side
    BY <2>1 DEF SlimRead, SlimOf, TypeInv, TypeOK
  <2>2. CASE ~(x = s /\ sd = side)
    <3>1. snap'[x][sd][r] = snap[x][sd][r]
      BY <2>2 DEF SlimRead, TypeInv, TypeOK
    <3> QED BY <3>1 DEF TypeInv, SeenStays
  <2> QED BY <2>1, <2>2
<1>4. JobMatchesPc'
  BY DEF TypeInv, TypeOK, JobMatchesPc, SlimRead
<1>5. ReqsExist'
  BY DEF TypeInv, ReqsExist, SlimRead, app
<1> QED BY <1>2, <1>3, <1>4, <1>5 DEF TypeInv

\* Any write the row loop makes to one row keeps TypeInv.
LEMMA RowWriteType ==
    ASSUME TypeInv, NEW s \in Services, NEW side \in Sides, NEW r \in Rows,
           NEW d \in Doc, Put(Db(s, side), r, d),
           Disturb({s}, Db(s, side), {r}),
           todo' = [todo EXCEPT ![s] = @ \ {r}],
           job' \in [Services -> Job \cup {NoJob}],
           pc' = [pc EXCEPT ![s] = "rows"],
           \A x \in Services : x # s => job'[x] = job[x],
           UNCHANGED <<app, snap, fails>>
    PROVE  TypeInv'
<1>0. Db(s, side) \in Stores
  BY StoreFacts
<1>1. store' \in [Stores -> [Rows -> Doc \cup {NoDoc}]] /\ NothingVanishes
  BY <1>0, PutFacts DEF TypeInv
<1>2. dirty' \in [Services -> SUBSET Rows]
  <2>1. {r} \in SUBSET Rows /\ TypeOK
    BY DEF TypeInv
  <2> QED BY <1>0, <2>1, DisturbType
<1>3. TypeOK'
  BY <1>1, <1>2 DEF TypeInv, TypeOK, app
<1>4. SeenStays'
  BY <1>1, StoreFacts DEF TypeInv, SeenStays, NothingVanishes, Db
<1>5. JobMatchesPc'
  BY DEF TypeInv, TypeOK, JobMatchesPc
<1>6. ReqsExist'
  BY <1>1 DEF TypeInv, TypeOK, ReqsExist, NothingVanishes, app
<1> QED BY <1>3, <1>4, <1>5, <1>6 DEF TypeInv

\* Propagating a tombstone or a purge writes a document.
LEMMA FlagWriteType ==
    ASSUME TypeInv, NEW s \in Services, NEW r \in Rows, NEW to \in Sides,
           WriteFlags(s, r, to)
    PROVE  TypeInv'
<1> DEFINE st == Db(s, to)
           a  == snap[s][Other(to)][r]
           k  == Intent(s, r, to)
<1>0. st \in Stores /\ Other(to) \in Sides
  BY StoreFacts
<1>1. a # NoDoc /\ snap[s][to][r] # NoDoc
  BY FlagHasBoth DEF WriteFlags, Intent
<1>2. store[st][r] \in Doc
  BY <1>0, <1>1 DEF TypeInv, TypeOK, SeenStays
<1>3. a.del \in Nat /\ clock \in Nat
  BY <1>0, <1>1 DEF TypeInv, TypeOK, Slim
<1>4. FlagWrite(k, a, store[st][r]) \in Doc
  BY <1>2, <1>3, DocUpdates DEF FlagWrite
<1>5. pc' = [pc EXCEPT ![s] = "rows"]
  BY DEF WriteFlags, TypeInv, TypeOK
<1> QED BY <1>4, <1>5, RowWriteType DEF WriteFlags, TypeInv, TypeOK

\* Copying a document writes a document.
LEMMA CopyDocType ==
    ASSUME NEW k \in CopyKinds, NEW full \in Doc, NEW d \in Doc \cup {NoDoc}
    PROVE  CopyWrite(k, full, d) \in Doc
<1>1. [full EXCEPT !.del = 0] \in Doc
  BY DEF Doc
<1> QED BY <1>1 DEF CopyWrite, CopyKinds

\* The write of a hydrated document keeps TypeInv.
LEMMA CopyType ==
    ASSUME TypeInv, NEW s \in Services, Copy(s) PROVE TypeInv'
<1> DEFINE j  == job[s]
           st == Db(s, j.to)
<1>1. j \in Job
  BY DEF Copy, TypeInv, TypeOK, JobMatchesPc
<1>2. /\ j.row \in Rows /\ j.to \in Sides /\ j.kind \in CopyKinds
      /\ j.full \in Doc
  BY <1>1 DEF Job
<1>3. store[st][j.row] \in Doc \cup {NoDoc}
  BY <1>2, StoreFacts DEF TypeInv, TypeOK
<1>4. CopyWrite(j.kind, j.full, store[st][j.row]) \in Doc
  BY <1>2, <1>3, CopyDocType
<1>5. /\ job' \in [Services -> Job \cup {NoJob}]
      /\ \A x \in Services : x # s => job'[x] = job[x]
  BY DEF Copy, TypeInv, TypeOK
<1> QED BY <1>2, <1>4, <1>5, RowWriteType DEF Copy

\* Hydrating a row keeps TypeInv: the source that was seen is still there.
LEMMA HydrateType ==
    ASSUME TypeInv, NEW s \in Services, NEW r \in Rows, NEW to \in Sides,
           Hydrate(s, r, to)
    PROVE  TypeInv'
<1> DEFINE from == Db(s, Other(to))
           j == [row |-> r, to |-> to, kind |-> Intent(s, r, to),
                 full |-> store[from][r]]
<1>0. from \in Stores /\ Other(to) \in Sides
  BY StoreFacts
<1>1. snap[s][Other(to)][r] # NoDoc
  BY CopyHasSource DEF Hydrate, Intent
<1>2. store[from][r] \in Doc
  BY <1>0, <1>1 DEF TypeInv, TypeOK, SeenStays
<1>3. j \in Job
  BY <1>2 DEF Job, Hydrate
<1>4. TypeOK'
  BY <1>3 DEF TypeInv, TypeOK, Hydrate, app
<1>5. SeenStays' /\ ReqsExist'
  BY DEF TypeInv, SeenStays, ReqsExist, Hydrate, app, Db
<1>6. JobMatchesPc'
  BY <1>3, NoJobNotJob DEF TypeInv, TypeOK, JobMatchesPc, Hydrate, Turn
<1> QED BY <1>4, <1>5, <1>6 DEF TypeInv

\* A pass that ends, or dies, keeps TypeInv.
LEMMA EndPassType ==
    ASSUME TypeInv, NEW s \in Services, EndPass(s), fails' \in Nat
    PROVE  TypeInv'
<1>1. NoSnap \in [Sides -> [Rows -> Slim \cup {NoDoc}]]
  BY DEF NoSnap
<1>2. TypeOK'
  BY <1>1 DEF TypeInv, TypeOK, EndPass, app
<1>3. SeenStays'
  BY DEF TypeInv, TypeOK, SeenStays, EndPass, NoSnap, Db
<1>4. JobMatchesPc' /\ ReqsExist'
  BY DEF TypeInv, TypeOK, JobMatchesPc, ReqsExist, EndPass, app
<1> QED BY <1>2, <1>3, <1>4 DEF TypeInv

\* Every step of a pass keeps TypeInv.
LEMMA PassType ==
    ASSUME TypeInv, NEW s \in Services, PassStep(s) \/ PassFails(s)
    PROVE  TypeInv'
<1>1. CASE StartPass(s)
  BY <1>1, ZombiesType DEF StartPass, Sides, RepairZombies
<1>2. CASE RemoteZombies(s)
  BY <1>2, ZombiesType DEF RemoteZombies, Sides, RepairZombies
<1>3. CASE ReadLocal(s)
  BY <1>3, SlimReadType DEF ReadLocal, Sides, TypeInv, TypeOK
<1>4. CASE ReadRemote(s)
  <2>1. /\ todo' \in [Services -> SUBSET Rows]
        /\ \A x \in Services : x # s => todo'[x] = todo[x]
    BY <1>4 DEF ReadRemote, TypeInv, TypeOK
  <2> QED BY <1>4, <2>1, SlimReadType DEF ReadRemote, Sides
<1>5. CASE \E r \in Rows, to \in Sides : WriteFlags(s, r, to)
  BY <1>5, FlagWriteType
<1>6. CASE \E r \in Rows, to \in Sides : Hydrate(s, r, to)
  BY <1>6, HydrateType
<1>7. CASE Copy(s)
  BY <1>7, CopyType
<1>8. CASE FinishPass(s)
  BY <1>8, EndPassType DEF FinishPass, TypeInv, TypeOK
<1>9. CASE PassFails(s)
  BY <1>9, EndPassType DEF PassFails, TypeInv, TypeOK
<1> QED BY <1>1, <1>2, <1>3, <1>4, <1>5, <1>6, <1>7, <1>8, <1>9 DEF PassStep

\* Stuttering keeps TypeInv.
LEMMA StutterType ==
    ASSUME TypeInv, UNCHANGED vars PROVE TypeInv'
BY DEF TypeInv, TypeOK, SeenStays, JobMatchesPc, ReqsExist, vars, Db

\* The empty databases satisfy TypeInv.
LEMMA InitType ==
    ASSUME Init PROVE TypeInv
<1>1. NoSnap \in [Sides -> [Rows -> Slim \cup {NoDoc}]]
  BY DEF NoSnap
<1>2. TypeOK
  BY <1>1 DEF Init, TypeOK
<1>3. SeenStays
  BY DEF Init, SeenStays, NoSnap
<1>4. JobMatchesPc /\ ReqsExist
  BY DEF Init, JobMatchesPc, ReqsExist
<1> QED BY <1>2, <1>3, <1>4 DEF TypeInv

\* Every variable keeps its type, for any number of rows, services and local
\* databases.  The row loop copies and flags documents it has not looked at
\* since its slim reads; the type is kept because a document that was read once
\* never leaves its database (SeenStays): nothing here deletes physically.
THEOREM TypeCorrect == Spec => []TypeOK
<1>1. Init => TypeInv
  BY InitType
<1>2. TypeInv /\ [Next]_vars => TypeInv'
  BY AppType, PassType, StutterType DEF Next, SyncNext
<1>3. TypeInv => TypeOK
  BY DEF TypeInv
<1> QED BY <1>1, <1>2, <1>3, PTL DEF Spec

-----------------------------------------------------------------------------
(* SameStampSameBody is not inductive: a hydrated document waits in a job   *)
(* while the databases move on, and a new timestamp must be new for all of  *)
(* them.  The strengthening speaks of every copy of a row, hydrated ones    *)
(* included, and bounds their timestamps by the clock.                      *)

Copies(r) ==
    ({store[st][r] : st \in Stores}
       \cup {job[s].full : s \in {x \in Services : job[x] # NoJob
                                                   /\ job[x].row = r}})
    \ {NoDoc}

SameContent(d, e) == d.upd = e.upd /\ d.body = e.body

StampInv ==
    \A r \in Rows :
        /\ \A d \in Copies(r) : d.upd <= clock
        /\ \A d, e \in Copies(r) : d.upd = e.upd => d.body = e.body

\* Every copy of a row, stored or hydrated, is a document.
LEMMA CopiesAreDocs ==
    ASSUME TypeInv, NEW r \in Rows PROVE Copies(r) \subseteq Doc
BY DEF Copies, TypeInv, TypeOK, Job

\* What a step may do to the copies of a row without breaking StampInv: keep
\* timestamps with their bodies, or add one document with a new timestamp.
LEMMA StampStep ==
    ASSUME TypeInv, TypeInv', StampInv, clock' >= clock, NEW n,
           \A r \in Rows : \A d \in Copies(r)' :
               \/ \E e \in Copies(r) : SameContent(d, e)
               \/ d = n /\ n.upd > clock /\ n.upd <= clock'
    PROVE  StampInv'
<1>1. clock \in Nat /\ clock' \in Nat
  BY DEF TypeInv, TypeOK
<1> SUFFICES ASSUME NEW r \in Rows
             PROVE  /\ \A d \in Copies(r)' : d.upd <= clock'
                    /\ \A d, e \in Copies(r)' : d.upd = e.upd => d.body = e.body
  BY DEF StampInv
<1>2. \A d \in Copies(r) : d.upd \in Nat /\ d.upd <= clock
  BY CopiesAreDocs DEF Doc, StampInv
<1>3. \A d \in Copies(r)' : d.upd <= clock'
  BY <1>1, <1>2 DEF SameContent
<1>4. ASSUME NEW d \in Copies(r)', NEW e \in Copies(r)', d.upd = e.upd
      PROVE  d.body = e.body
  <2>1. CASE \E x \in Copies(r) : SameContent(d, x)
    <3>1. PICK x \in Copies(r) : SameContent(d, x)
      BY <2>1
    <3>2. ~(e.upd > clock)
      BY <1>1, <1>2, <1>4, <3>1 DEF SameContent
    <3>3. PICK y \in Copies(r) : SameContent(e, y)
      BY <3>2
    <3> QED BY <1>4, <3>1, <3>3 DEF SameContent, StampInv
  <2>2. CASE d = n /\ n.upd > clock
    <3>1. ~\E y \in Copies(r) : SameContent(e, y)
      BY <1>1, <1>2, <1>4, <2>2 DEF SameContent
    <3> QED BY <2>2, <3>1
  <2> QED BY <2>1, <2>2
<1> QED BY <1>3, <1>4

\* After one document is written, the copies of a row are among the old
\* ones and the one written.
LEMMA PutCopies ==
    ASSUME TypeInv, NEW st \in Stores, NEW r \in Rows, NEW d, Put(st, r, d),
           \A s \in Services : job'[s] = job[s] \/ job'[s] = NoJob
    PROVE  \A q \in Rows : \A c \in Copies(q)' :
               c \in Copies(q) \/ (q = r /\ c = d)
BY DEF TypeInv, TypeOK, Put, Copies

\* A write with a fresh timestamp, or with its row's body, keeps StampInv.
LEMMA AppWriteStamp ==
    ASSUME TypeInv, TypeInv', StampInv, NEW st \in Stores, NEW r \in Rows,
           NEW d \in Doc, AppWrite(st, r, d),
           \/ d.upd = clock + 1
           \/ /\ store[st][r] # NoDoc
              /\ d.upd = clock
              /\ SameContent(d, store[st][r])
    PROVE  StampInv'
<1>1. clock \in Nat /\ clock' = d.upd
  BY DEF TypeInv, TypeOK, AppWrite
<1>2. \A q \in Rows : \A c \in Copies(q)' :
          c \in Copies(q) \/ (q = r /\ c = d)
  BY PutCopies DEF AppWrite
<1>3. store[st][r] # NoDoc => store[st][r] \in Copies(r)
  BY DEF Copies
<1>4. clock' >= clock
  BY <1>1
<1>5. \A q \in Rows : \A c \in Copies(q)' :
          \/ \E e \in Copies(q) : SameContent(c, e)
          \/ c = d /\ d.upd > clock /\ d.upd <= clock'
  BY <1>1, <1>2, <1>3 DEF SameContent
<1> QED BY <1>4, <1>5, StampStep

\* Every request to the application keeps StampInv.
LEMMA AppStamp ==
    ASSUME TypeInv, TypeInv', StampInv, AppNext PROVE StampInv'
<1>0. clock \in Nat
  BY DEF TypeInv, TypeOK
<1>1. ASSUME NEW st \in Stores, NEW r \in Rows, AppCreate(st, r)
      PROVE  StampInv'
  <2>1. PICK b \in SUBSET Fields :
           AppWrite(st, r, [body |-> b, upd |-> clock + 1, del |-> 0,
                            purged |-> FALSE])
    BY <1>1 DEF AppCreate
  <2>2. [body |-> b, upd |-> clock + 1, del |-> 0, purged |-> FALSE] \in Doc
    BY <1>0 DEF Doc
  <2> QED BY <2>1, <2>2, AppWriteStamp
<1>2. ASSUME NEW st \in Stores, NEW r \in Rows, AppEdit(st, r)
      PROVE  StampInv'
  <2>1. PICK b \in SUBSET Fields :
           AppWrite(st, r, [store[st][r] EXCEPT !.body = b, !.upd = clock + 1])
    BY <1>2 DEF AppEdit
  <2>2. store[st][r] \in Doc /\ clock + 1 \in Nat
    BY <1>2 DEF TypeInv, TypeOK, AppEdit
  <2>3. /\ [store[st][r] EXCEPT !.body = b, !.upd = clock + 1] \in Doc
        /\ [store[st][r] EXCEPT !.body = b, !.upd = clock + 1].upd = clock + 1
    BY <2>2 DEF Doc
  <2> QED BY <2>1, <2>3, AppWriteStamp
<1>3. ASSUME NEW st \in Stores, NEW r \in Rows, AppDelete(st, r)
      PROVE  StampInv'
  <2>1. PICK t \in {clock, clock + 1}, u \in {clock, clock + 1} :
           /\ u = clock => store[st][r].upd = clock
           /\ AppWrite(st, r, [store[st][r] EXCEPT !.del = t, !.upd = u])
    BY <1>3 DEF AppDelete
  <2>2. store[st][r] \in Doc /\ t \in Nat /\ u \in Nat
    BY <1>3 DEF TypeInv, TypeOK, AppDelete
  <2>3. store[st][r] # NoDoc
    BY <1>3 DEF AppDelete
  <2> DEFINE d == [store[st][r] EXCEPT !.del = t, !.upd = u]
  <2>4. d \in Doc /\ d.upd = u /\ d.body = store[st][r].body
    BY <2>2 DEF Doc
  <2>5. \/ d.upd = clock + 1
        \/ d.upd = clock /\ SameContent(d, store[st][r])
    BY <2>1, <2>4 DEF SameContent
  <2> QED BY <2>1, <2>3, <2>4, <2>5, AppWriteStamp
<1>4. ASSUME NEW st \in Stores, NEW r \in Rows,
             NEW kind \in {"restore", "purge"}, AppRequest(st, r, kind)
      PROVE  StampInv'
  BY <1>4 DEF StampInv, Copies, AppRequest
<1>5. ASSUME NEW q \in reqs
      PROVE  /\ q.db \in Stores /\ q.row \in Rows
             /\ store[q.db][q.row] \in Doc
             /\ clock + 1 \in Nat
  <2>1. q.db \in Stores /\ q.row \in Rows
    BY DEF TypeInv, TypeOK
  <2>2. store[q.db][q.row] # NoDoc
    BY DEF TypeInv, ReqsExist
  <2> QED BY <1>0, <2>1, <2>2 DEF TypeInv, TypeOK
<1>6. ASSUME NEW q \in reqs, AppRestore(q) PROVE StampInv'
  <2> DEFINE d == [store[q.db][q.row] EXCEPT !.del = 0, !.upd = clock + 1]
  <2>1. store[q.db][q.row] \in Doc /\ clock + 1 \in Nat
    BY <1>5
  <2>2. d \in Doc /\ d.upd = clock + 1
    BY <2>1 DEF Doc
  <2> QED BY <1>5, <1>6, <2>2, AppWriteStamp DEF AppRestore
<1>7. ASSUME NEW q \in reqs, AppPurge(q) PROVE StampInv'
  <2> DEFINE d == [store[q.db][q.row] EXCEPT !.del = clock + 1,
                                             !.upd = clock + 1,
                                             !.purged = TRUE]
  <2>1. store[q.db][q.row] \in Doc /\ clock + 1 \in Nat
    BY <1>5
  <2>2. d \in Doc /\ d.upd = clock + 1
    BY <2>1 DEF Doc
  <2> QED BY <1>5, <1>7, <2>2, AppWriteStamp DEF AppPurge
<1> QED BY <1>1, <1>2, <1>3, <1>4, <1>6, <1>7 DEF AppNext

\* Steps of a pass make no timestamp: every copy has the content of an old one.
LEMMA OldContent ==
    ASSUME TypeInv, TypeInv', StampInv, clock' = clock,
           \A r \in Rows : \A d \in Copies(r)' :
               \E e \in Copies(r) : SameContent(d, e)
    PROVE  StampInv'
<1>1. clock' >= clock
  BY DEF TypeInv, TypeOK
<1> QED BY <1>1, StampStep

\* Writing a body and a timestamp that some copy has already keeps StampInv.
LEMMA PutOldContent ==
    ASSUME TypeInv, TypeInv', StampInv, NEW st \in Stores, NEW r \in Rows,
           NEW d, Put(st, r, d), clock' = clock,
           \A s \in Services : job'[s] = job[s] \/ job'[s] = NoJob,
           \E e \in Copies(r) : SameContent(d, e)
    PROVE  StampInv'
<1>1. \A q \in Rows : \A c \in Copies(q)' :
          c \in Copies(q) \/ (q = r /\ c = d)
  BY PutCopies
<1>2. \A q \in Rows : \A c \in Copies(q)' :
          \E e \in Copies(q) : SameContent(c, e)
  BY <1>1 DEF SameContent
<1> QED BY <1>2, OldContent

\* retombstonePurgedZombies keeps StampInv: it sets _deletedAt alone.
LEMMA ZombiesStamp ==
    ASSUME TypeInv, TypeInv', StampInv, NEW s \in Services, NEW side \in Sides,
           NEW from, NEW to, RepairZombies(s, side, from, to)
    PROVE  StampInv'
<1> SUFFICES ASSUME NEW r \in Rows, NEW d \in Copies(r)'
             PROVE  \E e \in Copies(r) : SameContent(d, e)
  BY OldContent DEF RepairZombies, app
<1>0. Db(s, side) \in Stores
  BY StoreFacts
<1>1. CASE d \in Copies(r)
  BY <1>1 DEF SameContent
<1>2. CASE d \notin Copies(r)
  <2>1. d = Retombstone(store[Db(s, side)][r]) /\ d # NoDoc
    BY <1>0, <1>2 DEF Copies, RepairZombies, TypeInv, TypeOK
  <2>2. store[Db(s, side)][r] \in Doc \cup {NoDoc} /\ clock \in Nat
    BY <1>0 DEF TypeInv, TypeOK
  <2>3. store[Db(s, side)][r] # NoDoc
    BY <2>1, <2>2, RetombstoneType
  <2>4. store[Db(s, side)][r] \in Copies(r)
    BY <1>0, <2>3 DEF Copies
  <2> QED BY <2>1, <2>2, <2>3, <2>4, RetombstoneType DEF SameContent
<1> QED BY <1>1, <1>2

\* The two flag writes keep StampInv: they leave updatedAt and body alone.
LEMMA FlagsStamp ==
    ASSUME TypeInv, TypeInv', StampInv, NEW s \in Services, NEW r \in Rows,
           NEW to \in Sides, WriteFlags(s, r, to)
    PROVE  StampInv'
<1> DEFINE st == Db(s, to)
           d  == FlagWrite(Intent(s, r, to), snap[s][Other(to)][r],
                           store[st][r])
<1>0. st \in Stores
  BY StoreFacts
<1>1. snap[s][to][r] # NoDoc
  BY FlagHasBoth DEF WriteFlags, Intent
<1>2. store[st][r] \in Doc /\ store[st][r] # NoDoc
  BY <1>0, <1>1 DEF TypeInv, TypeOK, SeenStays
<1>3. store[st][r] \in Copies(r)
  BY <1>0, <1>2 DEF Copies
<1>4. SameContent(d, store[st][r])
  BY <1>2 DEF SameContent, FlagWrite, Doc
<1> QED BY <1>0, <1>3, <1>4, PutOldContent DEF WriteFlags, app

\* A whole-document copy keeps StampInv: what it writes is a copy of its row.
LEMMA CopyStamp ==
    ASSUME TypeInv, TypeInv', StampInv, NEW s \in Services, Copy(s)
    PROVE  StampInv'
<1> DEFINE j  == job[s]
           st == Db(s, j.to)
           d  == CopyWrite(j.kind, j.full, store[st][j.row])
<1>1. j \in Job /\ j # NoJob
  BY NoJobNotJob DEF Copy, TypeInv, TypeOK, JobMatchesPc
<1>2. /\ j.row \in Rows /\ j.to \in Sides /\ j.kind \in CopyKinds
      /\ j.full \in Doc
  BY <1>1 DEF Job
<1>3. st \in Stores
  BY <1>2, StoreFacts
<1>4. j.full \in Copies(j.row)
  BY <1>1, <1>2, NoDocAssumption DEF Copies
<1>5. store[st][j.row] # NoDoc => store[st][j.row] \in Copies(j.row)
  BY <1>3 DEF Copies
<1>6. [j.full EXCEPT !.del = 0].upd = j.full.upd
      /\ [j.full EXCEPT !.del = 0].body = j.full.body
  BY <1>2 DEF Doc
<1>7. \E e \in Copies(j.row) : SameContent(d, e)
  <2>1. CASE j.kind = "insert"
    BY <2>1, <1>4, <1>5 DEF SameContent, CopyWrite
  <2>2. CASE j.kind = "resurrect"
    BY <2>2, <1>4, <1>6 DEF SameContent, CopyWrite
  <2>3. CASE j.kind = "update"
    BY <2>3, <1>4 DEF SameContent, CopyWrite
  <2> QED BY <1>2, <2>1, <2>2, <2>3 DEF CopyKinds
<1>8. \A x \in Services : job'[x] = job[x] \/ job'[x] = NoJob
  BY DEF Copy, TypeInv, TypeOK
<1> QED BY <1>2, <1>3, <1>7, <1>8, PutOldContent DEF Copy, app

\* Hydrating keeps StampInv: what is held in memory is a copy of its row.
LEMMA HydrateStamp ==
    ASSUME TypeInv, TypeInv', StampInv, NEW s \in Services, NEW r \in Rows,
           NEW to \in Sides, Hydrate(s, r, to)
    PROVE  StampInv'
<1> SUFFICES ASSUME NEW q \in Rows, NEW d \in Copies(q)'
             PROVE  d \in Copies(q)
  BY OldContent DEF Hydrate, app, SameContent
<1>1. Db(s, Other(to)) \in Stores
  BY StoreFacts
<1> QED BY <1>1 DEF Copies, Hydrate, TypeInv, TypeOK

\* A pass that ends, or dies, keeps StampInv.
LEMMA EndPassStamp ==
    ASSUME TypeInv, TypeInv', StampInv, NEW s \in Services, EndPass(s)
    PROVE  StampInv'
<1> SUFFICES ASSUME NEW q \in Rows, NEW d \in Copies(q)'
             PROVE  d \in Copies(q)
  BY OldContent DEF EndPass, app, SameContent
<1> QED BY DEF Copies, EndPass, TypeInv, TypeOK

\* Every step of a pass keeps StampInv.
LEMMA PassStamp ==
    ASSUME TypeInv, TypeInv', StampInv, NEW s \in Services,
           PassStep(s) \/ PassFails(s)
    PROVE  StampInv'
<1>1. CASE StartPass(s) \/ RemoteZombies(s)
  BY <1>1, ZombiesStamp DEF StartPass, RemoteZombies, Sides
<1>2. CASE ReadLocal(s) \/ ReadRemote(s)
  BY <1>2 DEF ReadLocal, ReadRemote, SlimRead, StampInv, Copies, app
<1>3. CASE \E r \in Rows, to \in Sides : WriteFlags(s, r, to)
  BY <1>3, FlagsStamp
<1>4. CASE \E r \in Rows, to \in Sides : Hydrate(s, r, to)
  BY <1>4, HydrateStamp
<1>5. CASE Copy(s)
  BY <1>5, CopyStamp
<1>6. CASE FinishPass(s) \/ PassFails(s)
  BY <1>6, EndPassStamp DEF FinishPass, PassFails
<1> QED BY <1>1, <1>2, <1>3, <1>4, <1>5, <1>6 DEF PassStep

\* Whatever the services and the application do and however they interleave,
\* no two databases ever hold one row under one timestamp with two bodies: the
\* pairs the row loop skips because their timestamps are equal need no copy.
THEOREM NoFrozenDivergence == Spec => []SameStampSameBody
<1>1. Init => TypeInv /\ StampInv
  <2>1. Init => StampInv
    BY DEF Init, StampInv, Copies
  <2> QED BY <2>1, InitType
<1>2. TypeInv /\ StampInv /\ [Next]_vars => (TypeInv /\ StampInv)'
  <2> SUFFICES ASSUME TypeInv, StampInv, [Next]_vars
               PROVE  TypeInv' /\ StampInv'
    OBVIOUS
  <2>1. TypeInv'
    BY AppType, PassType, StutterType DEF Next, SyncNext
  <2>2. CASE UNCHANGED vars
    BY <2>1, <2>2 DEF StampInv, Copies, vars
  <2> QED BY <2>1, <2>2, AppStamp, PassStamp DEF Next, SyncNext
<1>3. TypeInv /\ StampInv => SameStampSameBody
  BY DEF SameStampSameBody, StampInv, Copies
<1> QED BY <1>1, <1>2, <1>3, PTL DEF Spec

-----------------------------------------------------------------------------
(* Lemmas about the decision and the two kinds of write, one row at a time. *)

\* The row loop decides from a slim read what it would from the documents.
LEMMA OutcomeOfSlim ==
    ASSUME NEW a \in Doc \cup {NoDoc}, NEW b \in Doc \cup {NoDoc}
    PROVE  Outcome(SlimOf(a), SlimOf(b)) = Outcome(a, b)
<1>1. /\ SlimOf(a) = NoDoc <=> a = NoDoc
      /\ SlimOf(b) = NoDoc <=> b = NoDoc
  BY NoDocAssumption DEF SlimOf, Slim, Doc
<1>2. a # NoDoc => /\ SlimOf(a).upd = a.upd /\ SlimOf(a).del = a.del
                   /\ SlimOf(a).purged = a.purged
  BY DEF SlimOf
<1>3. b # NoDoc => /\ SlimOf(b).upd = b.upd /\ SlimOf(b).del = b.del
                   /\ SlimOf(b).purged = b.purged
  BY DEF SlimOf
<1> QED BY <1>1, <1>2, <1>3 DEF Outcome, IsLive

\* Agreement does not depend on the side one looks from.
LEMMA AgreeIsSymmetric ==
    ASSUME NEW a \in Doc \cup {NoDoc}, NEW b \in Doc \cup {NoDoc}, Agree(a, b)
    PROVE  Agree(b, a)
BY DEF Agree

\* A row agrees with itself.
LEMMA AgreeIsReflexive ==
    ASSUME NEW a \in Doc \cup {NoDoc} PROVE Agree(a, a)
BY DEF Agree

\* A pair the row loop leaves alone agrees already: this is where equal
\* timestamps have to mean equal bodies.
LEMMA NothingToDoMeansAgreement ==
    ASSUME NEW a \in Doc \cup {NoDoc}, NEW b \in Doc \cup {NoDoc},
           Outcome(a, b) = "none", Outcome(b, a) = "none",
           (a # NoDoc /\ b # NoDoc /\ a.upd = b.upd) => a.body = b.body
    PROVE  Agree(a, b)
<1>1. CASE a = NoDoc \/ b = NoDoc
  BY <1>1 DEF Outcome, Agree
<1>2. CASE a # NoDoc /\ b # NoDoc
  <2>1. /\ a.upd \in Nat /\ a.del \in Nat /\ a.purged \in BOOLEAN
        /\ b.upd \in Nat /\ b.del \in Nat /\ b.purged \in BOOLEAN
    BY <1>2 DEF Doc
  <2>2. CASE a.purged \/ b.purged
    BY <1>2, <2>1, <2>2 DEF Outcome, Agree
  <2>3. CASE ~a.purged /\ ~b.purged
    <3>1. CASE a.del = 0 /\ b.del = 0
      <4>1. a.upd = b.upd
        BY <1>2, <2>1, <2>3, <3>1 DEF Outcome, IsLive
      <4> QED BY <1>2, <2>1, <2>3, <3>1, <4>1 DEF Agree, IsLive
    <3>2. CASE a.del # 0 /\ b.del # 0
      BY <1>2, <2>1, <2>3, <3>2 DEF Agree, IsLive
    <3>3. CASE a.del # 0 /\ b.del = 0
      BY <1>2, <2>1, <2>3, <3>3 DEF Outcome, IsLive
    <3>4. CASE a.del = 0 /\ b.del # 0
      BY <1>2, <2>1, <2>3, <3>4 DEF Outcome, IsLive
    <3> QED BY <3>1, <3>2, <3>3, <3>4
  <2> QED BY <2>1, <2>2, <2>3
<1> QED BY <1>1, <1>2

\* Where the target is as it was read, the flag write makes the pair agree.
LEMMA FlagsSettle ==
    ASSUME NEW a \in Doc \cup {NoDoc}, NEW b \in Doc \cup {NoDoc},
           Outcome(a, b) \in FlagKinds, clock \in Nat
    PROVE  Agree(a, FlagWrite(Outcome(a, b), SlimOf(a), b))
<1>1. a \in Doc /\ b \in Doc /\ a # NoDoc /\ b # NoDoc
  BY FlagHasBoth
<1>2. SlimOf(a).del = a.del
  BY <1>1 DEF SlimOf
<1>3. CASE Outcome(a, b) = "purge"
  <2>1. a.purged
    BY <1>1, <1>3 DEF Outcome
  <2> DEFINE n == FlagWrite("purge", SlimOf(a), b)
  <2>2. n = [b EXCEPT !.purged = TRUE,
                      !.del = IF a.del # 0 THEN a.del ELSE clock]
    BY <1>2 DEF FlagWrite
  <2>3. n.purged = TRUE
    BY <1>1, <2>2 DEF Doc
  <2>4. n # NoDoc
    <3>1. (IF a.del # 0 THEN a.del ELSE clock) \in Nat
      BY <1>1 DEF Doc
    <3>2. n \in Doc
      BY <1>1, <2>2, <3>1, DocUpdates
    <3> QED BY <3>2, NoDocAssumption
  <2> QED BY <1>1, <1>3, <2>1, <2>3, <2>4 DEF Agree, Doc
<1>4. CASE Outcome(a, b) = "delete"
  <2> DEFINE n == FlagWrite("delete", SlimOf(a), b)
  <2>1. ~a.purged /\ ~b.purged /\ ~IsLive(a)
    BY <1>1, <1>4 DEF Outcome
  <2>2. n = [b EXCEPT !.del = a.del]
    BY <1>2 DEF FlagWrite
  <2>3. n \in Doc /\ n.del = a.del /\ n.purged = b.purged
    BY <1>1, <2>2 DEF Doc
  <2>4. n # NoDoc
    BY <2>3, NoDocAssumption
  <2>5. a.purged = FALSE /\ b.purged = FALSE
    BY <1>1, <2>1 DEF Doc
  <2> QED BY <1>1, <1>4, <2>1, <2>3, <2>4, <2>5 DEF Agree, IsLive
<1> QED BY <1>3, <1>4 DEF FlagKinds

\* Where the target is as it was read, the copy makes the pair agree.
LEMMA CopySettles ==
    ASSUME NEW a \in Doc \cup {NoDoc}, NEW b \in Doc \cup {NoDoc},
           Outcome(a, b) \in CopyKinds
    PROVE  Agree(a, CopyWrite(Outcome(a, b), a, b))
<1>1. a \in Doc
  BY CopyHasSource
<1>2. CASE Outcome(a, b) = "insert"
  <2>1. b = NoDoc
    BY <1>2 DEF Outcome
  <2> QED BY <1>2, <2>1, AgreeIsReflexive DEF CopyWrite
<1>3. CASE Outcome(a, b) = "resurrect"
  <2>1. a.del = 0
    BY <1>3 DEF Outcome, IsLive
  <2>2. [a EXCEPT !.del = 0] = a
    BY <1>1, <2>1 DEF Doc
  <2> QED BY <1>3, <2>2, AgreeIsReflexive DEF CopyWrite
<1>4. CASE Outcome(a, b) = "update"
  BY <1>4, AgreeIsReflexive DEF CopyWrite
<1> QED BY <1>2, <1>3, <1>4 DEF CopyKinds

-----------------------------------------------------------------------------
(* UndisturbedRowsAgree: what a pass knows about its pair.  For a row nobody *)
(* else wrote, the snapshots are still true until the row is done, and then  *)
(* the two sides agree; a hydrated document is still its source.             *)

Fresh(s, side, r) == snap[s][side][r] = SlimOf(store[Db(s, side)][r])

PairAgrees(s, r) == Agree(store[Db(s, "local")][r], store[Db(s, "remote")][r])

RowKnown(s, r) ==
    /\ pc[s] = "readRemote" => Fresh(s, "local", r)
    /\ pc[s] \in {"rows", "copy"} =>
          IF r \in todo[s] THEN Fresh(s, "local", r) /\ Fresh(s, "remote", r)
                           ELSE PairAgrees(s, r)
    /\ (pc[s] = "copy" /\ job[s].row = r) =>
          job[s].full = store[Db(s, Other(job[s].to))][r]

PassKnows(s) ==
    /\ \A r \in Rows \ dirty[s] : RowKnown(s, r)
    /\ pc[s] = "copy" => job[s].kind = Intent(s, job[s].row, job[s].to)

PassInv == \A s \in Services : PassKnows(s)

\* The two sides of a service are two databases, and its pair is the two.
LEMMA DbFacts ==
    ASSUME NEW s \in Services
    PROVE  /\ \A side \in Sides : Db(s, side) \in Pair(s)
           /\ Db(s, "local") \in Stores /\ Db(s, "remote") \in Stores
           /\ Db(s, "local") # Db(s, "remote")
           /\ Pair(s) = {Db(s, "local"), Db(s, "remote")}
BY ServicesAssumption DEF Db, Pair, Stores, Sides

\* A step that leaves the pass of s alone, and touches no row of its pair that
\* is not disturbed afterwards.
LEMMA Bystander ==
    ASSUME TypeInv, NEW s \in Services, PassKnows(s),
           pc'[s] = pc[s], snap'[s] = snap[s], todo'[s] = todo[s],
           job'[s] = job[s], dirty[s] \subseteq dirty'[s],
           Holding(s) => \A st \in Pair(s), r \in Rows \ dirty'[s] :
                             store'[st][r] = store[st][r]
    PROVE  PassKnows(s)'
<1>1. CASE ~Holding(s)
  BY <1>1 DEF PassKnows, RowKnown, Holding
<1>2. CASE Holding(s)
  <2>1. ASSUME NEW r \in Rows \ dirty'[s] PROVE RowKnown(s, r)'
    <3>1. RowKnown(s, r)
      BY DEF PassKnows
    <3>2. \A side \in Sides : store'[Db(s, side)][r] = store[Db(s, side)][r]
      BY <1>2, DbFacts
    <3>3. /\ Fresh(s, "local", r)' <=> Fresh(s, "local", r)
          /\ Fresh(s, "remote", r)' <=> Fresh(s, "remote", r)
          /\ PairAgrees(s, r)' <=> PairAgrees(s, r)
      BY <3>2 DEF Fresh, PairAgrees, Sides, Db
    <3>4. (pc[s] = "copy" /\ job[s].row = r) =>
              job'[s].full = store'[Db(s, Other(job'[s].to))][r]
      <4> SUFFICES ASSUME pc[s] = "copy", job[s].row = r
                   PROVE  job'[s].full = store'[Db(s, Other(job'[s].to))][r]
        OBVIOUS
      <4>1. job[s] \in Job
        BY DEF TypeInv, TypeOK, JobMatchesPc
      <4>2. Other(job[s].to) \in Sides
        BY <4>1, StoreFacts DEF Job
      <4>3. job[s].full = store[Db(s, Other(job[s].to))][r]
        BY <3>1 DEF RowKnown
      <4> QED BY <3>2, <4>2, <4>3
    <3> QED BY <3>1, <3>3, <3>4 DEF RowKnown, Db
  <2>2. (pc[s] = "copy" => job[s].kind = Intent(s, job[s].row, job[s].to))'
    BY DEF PassKnows, Intent
  <2> QED BY <2>1, <2>2 DEF PassKnows
<1> QED BY <1>1, <1>2

\* Whoever writes tells the other passes on that database which rows.
LEMMA OthersAreTold ==
    ASSUME TypeInv, NEW own, NEW st \in Stores, NEW rs \in SUBSET Rows,
           Disturb(own, st, rs),
           \A db \in Stores, r \in Rows :
               ~(db = st /\ r \in rs) => store'[db][r] = store[db][r],
           NEW s \in Services, s \notin own, PassKnows(s),
           pc'[s] = pc[s], snap'[s] = snap[s], todo'[s] = todo[s],
           job'[s] = job[s]
    PROVE  PassKnows(s)'
<1>1. dirty[s] \subseteq dirty'[s]
  BY DEF Disturb
<1>2. Holding(s) => \A db \in Pair(s), r \in Rows \ dirty'[s] :
                        store'[db][r] = store[db][r]
  <2> SUFFICES ASSUME Holding(s), NEW db \in Pair(s), NEW r \in Rows \ dirty'[s]
               PROVE  store'[db][r] = store[db][r]
    OBVIOUS
  <2>1. db \in Stores
    BY DbFacts
  <2>2. ~(db = st /\ r \in rs)
    BY DEF Disturb
  <2> QED BY <2>1, <2>2
<1> QED BY <1>1, <1>2, Bystander

\* A write of one row of one database leaves all the others as they were.
LEMMA PutElsewhere ==
    ASSUME TypeInv, NEW st \in Stores, NEW r \in Rows, NEW d, Put(st, r, d)
    PROVE  /\ store'[st][r] = d
           /\ \A db \in Stores, q \in Rows :
                 ~(db = st /\ q \in {r}) => store'[db][q] = store[db][q]
BY DEF TypeInv, TypeOK, Put

\* A request to the application keeps what every pass knows: it disturbs the
\* passes it could surprise.
LEMMA AppPass ==
    ASSUME TypeInv, PassInv, AppNext, NEW s \in Services
    PROVE  PassKnows(s)'
<1>1. ASSUME NEW st \in Stores, NEW r \in Rows, NEW d, AppWrite(st, r, d)
      PROVE  PassKnows(s)'
  <2>1. \A db \in Stores, q \in Rows :
            ~(db = st /\ q \in {r}) => store'[db][q] = store[db][q]
    BY <1>1, PutElsewhere DEF AppWrite
  <2>2. /\ pc'[s] = pc[s] /\ snap'[s] = snap[s] /\ todo'[s] = todo[s]
        /\ job'[s] = job[s] /\ Disturb({}, st, {r})
    BY <1>1 DEF AppWrite
  <2> QED BY <2>1, <2>2, OthersAreTold DEF PassInv
<1>2. ASSUME NEW st \in Stores, NEW r \in Rows,
             AppCreate(st, r) \/ AppEdit(st, r) \/ AppDelete(st, r)
      PROVE  PassKnows(s)'
  <2>1. PICK d : AppWrite(st, r, d)
    BY <1>2 DEF AppCreate, AppEdit, AppDelete
  <2> QED BY <1>1, <2>1
<1>3. ASSUME NEW st \in Stores, NEW r \in Rows,
             NEW kind \in {"restore", "purge"}, AppRequest(st, r, kind)
      PROVE  PassKnows(s)'
  BY <1>3, Bystander DEF PassInv, AppRequest
<1>4. ASSUME NEW q \in reqs, AppRestore(q) \/ AppPurge(q)
      PROVE  PassKnows(s)'
  <2>1. q.db \in Stores /\ q.row \in Rows
    BY DEF TypeInv, TypeOK
  <2>2. PICK d : AppWrite(q.db, q.row, d)
    BY <1>4 DEF AppRestore, AppPurge
  <2> QED BY <1>1, <2>1, <2>2
<1> QED BY <1>2, <1>3, <1>4 DEF AppNext

\* A step of one service's pass, seen from the pass of another one.
LEMMA OtherPass ==
    ASSUME TypeInv, PassInv, NEW x \in Services, PassStep(x) \/ PassFails(x),
           NEW s \in Services, s # x
    PROVE  PassKnows(s)'
<1>0. s \notin {x} /\ PassKnows(s) /\ \A side \in Sides : Db(x, side) \in Stores
  BY StoreFacts DEF PassInv
<1>1. ASSUME NEW side \in Sides, NEW from, NEW to,
             RepairZombies(x, side, from, to)
      PROVE  PassKnows(s)'
  <2> DEFINE st == Db(x, side)
  <2>1. Zombies(st) \in SUBSET Rows /\ Disturb({x}, st, Zombies(st))
    BY <1>1 DEF Zombies, RepairZombies
  <2>2. \A db \in Stores, r \in Rows :
            ~(db = st /\ r \in Zombies(st)) => store'[db][r] = store[db][r]
    BY <1>0, <1>1 DEF RepairZombies, Zombies, TypeInv, TypeOK
  <2>3. /\ pc'[s] = pc[s] /\ snap'[s] = snap[s] /\ todo'[s] = todo[s]
        /\ job'[s] = job[s]
    BY <1>1 DEF RepairZombies, TypeInv, TypeOK
  <2> QED BY <1>0, <2>1, <2>2, <2>3, OthersAreTold
<1>2. CASE ReadLocal(x) \/ ReadRemote(x)
  <2>1. /\ pc'[s] = pc[s] /\ snap'[s] = snap[s] /\ todo'[s] = todo[s]
        /\ job'[s] = job[s] /\ dirty'[s] = dirty[s] /\ store' = store
    BY <1>2 DEF ReadLocal, ReadRemote, SlimRead, TypeInv, TypeOK
  <2> QED BY <2>1, Bystander DEF PassInv
<1>a. ASSUME NEW st \in Stores, NEW r \in Rows, NEW d, Put(st, r, d),
             Disturb({x}, st, {r}), UNCHANGED snap,
             pc'[s] = pc[s], todo'[s] = todo[s], job'[s] = job[s]
      PROVE  PassKnows(s)'
  <2>1. \A db \in Stores, q \in Rows :
            ~(db = st /\ q \in {r}) => store'[db][q] = store[db][q]
    BY <1>a, PutElsewhere
  <2> QED BY <1>0, <1>a, <2>1, OthersAreTold
<1>3. ASSUME NEW r \in Rows, NEW to \in Sides, WriteFlags(x, r, to)
      PROVE  PassKnows(s)'
  <2>1. pc'[s] = pc[s] /\ todo'[s] = todo[s] /\ job'[s] = job[s]
    BY <1>3 DEF WriteFlags, TypeInv, TypeOK
  <2> QED BY <1>0, <1>3, <1>a, <2>1 DEF WriteFlags
<1>4. ASSUME NEW r \in Rows, NEW to \in Sides, Hydrate(x, r, to)
      PROVE  PassKnows(s)'
  <2>1. /\ pc'[s] = pc[s] /\ snap'[s] = snap[s] /\ todo'[s] = todo[s]
        /\ job'[s] = job[s] /\ dirty'[s] = dirty[s] /\ store' = store
    BY <1>4 DEF Hydrate, TypeInv, TypeOK
  <2> QED BY <2>1, Bystander DEF PassInv
<1>5. CASE Copy(x)
  <2>1. job[x] \in Job
    BY <1>5 DEF Copy, TypeInv, TypeOK, JobMatchesPc
  <2>2. job[x].row \in Rows /\ Db(x, job[x].to) \in Stores
    BY <1>0, <2>1 DEF Job
  <2>3. pc'[s] = pc[s] /\ todo'[s] = todo[s] /\ job'[s] = job[s]
    BY <1>5 DEF Copy, TypeInv, TypeOK
  <2> QED BY <1>5, <1>a, <2>2, <2>3 DEF Copy
<1>6. CASE FinishPass(x) \/ PassFails(x)
  <2>1. /\ pc'[s] = pc[s] /\ snap'[s] = snap[s] /\ todo'[s] = todo[s]
        /\ job'[s] = job[s] /\ dirty'[s] = dirty[s] /\ store' = store
    BY <1>6 DEF FinishPass, PassFails, EndPass, TypeInv, TypeOK
  <2> QED BY <2>1, Bystander DEF PassInv
<1> QED
  BY <1>1, <1>2, <1>3, <1>4, <1>5, <1>6
     DEF PassStep, StartPass, RemoteZombies, Sides

\* A write of the pass's own that is right for its row and touches no other.
LEMMA OwnWrite ==
    ASSUME TypeInv, NEW s \in Services, PassKnows(s),
           pc[s] \in {"rows", "copy"}, NEW r \in Rows, NEW to \in Sides,
           NEW d, Put(Db(s, to), r, d),
           r \notin dirty[s] =>
               /\ Agree(store[Db(s, Other(to))][r], d)
               /\ Agree(d, store[Db(s, Other(to))][r]),
           Disturb({s}, Db(s, to), {r}),
           todo' = [todo EXCEPT ![s] = @ \ {r}],
           pc'[s] = "rows", snap' = snap
    PROVE  PassKnows(s)'
<1>1. dirty'[s] = dirty[s] /\ todo'[s] = todo[s] \ {r}
  BY DEF Disturb, TypeInv, TypeOK
<1>2. /\ store'[Db(s, to)][r] = d
      /\ \A db \in Stores, q \in Rows :
             ~(db = Db(s, to) /\ q = r) => store'[db][q] = store[db][q]
  BY PutElsewhere, StoreFacts
<1> SUFFICES ASSUME NEW q \in Rows \ dirty[s] PROVE RowKnown(s, q)'
  BY <1>1 DEF PassKnows
<1>3. RowKnown(s, q)
  BY DEF PassKnows
<1>4. CASE q = r
  <2>1. store'[Db(s, Other(to))][r] = store[Db(s, Other(to))][r]
    BY <1>2, DbFacts, StoreFacts DEF Sides, Other
  <2>2. Agree(store'[Db(s, to)][r], store'[Db(s, Other(to))][r])
        /\ Agree(store'[Db(s, Other(to))][r], store'[Db(s, to)][r])
    BY <1>2, <1>4, <2>1
  <2>3. PairAgrees(s, r)'
    BY <2>2 DEF PairAgrees, Sides, Other, Db
  <2> QED BY <1>1, <1>4, <2>3 DEF RowKnown
<1>5. CASE q # r
  <2>1. /\ store'[Db(s, "local")][q] = store[Db(s, "local")][q]
        /\ store'[Db(s, "remote")][q] = store[Db(s, "remote")][q]
    BY <1>2, <1>5, DbFacts
  <2>2. /\ Fresh(s, "local", q)' <=> Fresh(s, "local", q)
        /\ Fresh(s, "remote", q)' <=> Fresh(s, "remote", q)
        /\ PairAgrees(s, q)' <=> PairAgrees(s, q)
    BY <2>1 DEF Fresh, PairAgrees, Db
  <2> QED BY <1>1, <1>3, <1>5, <2>2 DEF RowKnown
<1> QED BY <1>4, <1>5

\* A service's flag write keeps what its pass knows, and settles its row.
LEMMA OwnFlags ==
    ASSUME TypeInv, NEW s \in Services, PassKnows(s), NEW r \in Rows,
           NEW to \in Sides, WriteFlags(s, r, to)
    PROVE  PassKnows(s)'
<1> DEFINE a == store[Db(s, Other(to))][r]
           b == store[Db(s, to)][r]
           n == FlagWrite(Intent(s, r, to), snap[s][Other(to)][r], b)
<1>0. /\ Db(s, to) \in Stores /\ Db(s, Other(to)) \in Stores
      /\ Other(to) \in Sides /\ clock \in Nat
  BY StoreFacts DEF TypeInv, TypeOK
<1>1. a \in Doc \cup {NoDoc} /\ b \in Doc \cup {NoDoc}
  BY <1>0 DEF TypeInv, TypeOK
<1>2. r \notin dirty[s] => Agree(a, n) /\ Agree(n, a)
  <2> SUFFICES ASSUME r \notin dirty[s] PROVE Agree(a, n) /\ Agree(n, a)
    OBVIOUS
  <2>1. Fresh(s, "local", r) /\ Fresh(s, "remote", r)
    BY DEF PassKnows, RowKnown, WriteFlags, Turn
  <2>2. snap[s][Other(to)][r] = SlimOf(a) /\ snap[s][to][r] = SlimOf(b)
    BY <2>1 DEF Fresh, Sides, Other
  <2>3. Intent(s, r, to) = Outcome(a, b)
    BY <1>1, <2>2, OutcomeOfSlim DEF Intent
  <2>4. Outcome(a, b) \in FlagKinds
    BY <2>3 DEF WriteFlags
  <2>5. Agree(a, n)
    BY <1>0, <1>1, <2>2, <2>3, <2>4, FlagsSettle
  <2>6. n \in Doc
    <3>1. a \in Doc /\ b \in Doc
      BY <1>1, <2>4, FlagHasBoth
    <3>2. SlimOf(a).del \in Nat
      BY <3>1, NoDocAssumption DEF SlimOf, Doc
    <3> QED BY <1>0, <2>2, <3>1, <3>2, DocUpdates DEF FlagWrite
  <2> QED BY <1>1, <2>5, <2>6, AgreeIsSymmetric
<1>3. /\ Put(Db(s, to), r, n) /\ Disturb({s}, Db(s, to), {r})
      /\ todo' = [todo EXCEPT ![s] = @ \ {r}]
      /\ pc[s] = "rows" /\ pc' = pc /\ snap' = snap
  BY DEF WriteFlags
<1> QED BY <1>2, <1>3, OwnWrite

\* A service's copy keeps what its pass knows, and settles its row.
LEMMA OwnCopy ==
    ASSUME TypeInv, NEW s \in Services, PassKnows(s), Copy(s)
    PROVE  PassKnows(s)'
<1> DEFINE r  == job[s].row
           to == job[s].to
           a  == store[Db(s, Other(to))][r]
           b  == store[Db(s, to)][r]
           n  == CopyWrite(job[s].kind, job[s].full, b)
<1>0. job[s] \in Job /\ r \in todo[s] /\ pc[s] = "copy"
  BY DEF Copy, TypeInv, TypeOK, JobMatchesPc
<1>1. /\ r \in Rows /\ to \in Sides /\ job[s].kind \in CopyKinds
      /\ job[s].full \in Doc
  BY <1>0 DEF Job
<1>2. /\ Db(s, to) \in Stores /\ Db(s, Other(to)) \in Stores
      /\ Other(to) \in Sides
  BY <1>1, StoreFacts
<1>3. a \in Doc \cup {NoDoc} /\ b \in Doc \cup {NoDoc}
  BY <1>1, <1>2 DEF TypeInv, TypeOK
<1>4. r \notin dirty[s] => Agree(a, n) /\ Agree(n, a)
  <2> SUFFICES ASSUME r \notin dirty[s] PROVE Agree(a, n) /\ Agree(n, a)
    OBVIOUS
  <2>1. RowKnown(s, r)
    BY <1>1 DEF PassKnows
  <2>2. Fresh(s, "local", r) /\ Fresh(s, "remote", r) /\ job[s].full = a
    BY <1>0, <2>1 DEF RowKnown
  <2>3. snap[s][Other(to)][r] = SlimOf(a) /\ snap[s][to][r] = SlimOf(b)
    BY <1>1, <2>2 DEF Fresh, Sides, Other
  <2>4. job[s].kind = Outcome(a, b)
    BY <1>0, <1>3, <2>3, OutcomeOfSlim DEF Intent, PassKnows
  <2>5. Agree(a, n)
    BY <1>1, <1>3, <2>2, <2>4, CopySettles
  <2>6. n \in Doc
    BY <1>1, <1>3, CopyDocType
  <2> QED BY <1>3, <2>5, <2>6, AgreeIsSymmetric
<1>5. /\ Put(Db(s, to), r, n) /\ Disturb({s}, Db(s, to), {r})
      /\ todo' = [todo EXCEPT ![s] = @ \ {r}]
      /\ pc[s] = "copy" /\ pc'[s] = "rows" /\ snap' = snap
  BY DEF Copy, TypeInv, TypeOK
<1> HIDE DEF r, to, a, b, n
<1> QED BY <1>1, <1>4, <1>5, OwnWrite DEF a

\* After the second slim read the rows left out of `todo` agree already.
LEMMA OwnReadRemote ==
    ASSUME TypeInv, StampInv, NEW s \in Services, PassKnows(s), ReadRemote(s)
    PROVE  PassKnows(s)'
<1>0. /\ pc[s] = "readRemote" /\ pc'[s] = "rows" /\ dirty' = dirty
      /\ store' = store
  BY DEF ReadRemote, SlimRead, TypeInv, TypeOK
<1> SUFFICES ASSUME NEW r \in Rows \ dirty[s] PROVE RowKnown(s, r)'
  BY <1>0 DEF PassKnows
<1> DEFINE a == store[Db(s, "local")][r]
           b == store[Db(s, "remote")][r]
<1>1. a \in Doc \cup {NoDoc} /\ b \in Doc \cup {NoDoc}
  BY DbFacts DEF TypeInv, TypeOK
<1>2. snap'[s]["local"][r] = SlimOf(a) /\ snap'[s]["remote"][r] = SlimOf(b)
  <2>1. snap[s]["local"][r] = SlimOf(a)
    BY <1>0 DEF PassKnows, RowKnown, Fresh
  <2> QED BY <2>1 DEF ReadRemote, SlimRead, TypeInv, TypeOK, Sides
<1>3. CASE r \in todo'[s]
  BY <1>0, <1>2, <1>3 DEF RowKnown, Fresh, Db
<1>4. CASE r \notin todo'[s]
  <2>1. \A to \in Sides :
            Outcome(snap'[s][Other(to)][r], snap'[s][to][r]) = "none"
    BY <1>4 DEF ReadRemote, TypeInv, TypeOK
  <2>2. Outcome(SlimOf(a), SlimOf(b)) = "none"
        /\ Outcome(SlimOf(b), SlimOf(a)) = "none"
    BY <1>2, <2>1 DEF Sides, Other
  <2>3. Outcome(a, b) = "none" /\ Outcome(b, a) = "none"
    BY <1>1, <2>2, OutcomeOfSlim
  <2>4. (a # NoDoc /\ b # NoDoc /\ a.upd = b.upd) => a.body = b.body
    BY DbFacts DEF StampInv, Copies
  <2>5. Agree(a, b)
    BY <1>1, <2>3, <2>4, NothingToDoMeansAgreement
  <2> QED BY <1>0, <1>4, <2>5 DEF RowKnown, PairAgrees, Db
<1> QED BY <1>3, <1>4

\* Every step of a service's own pass keeps what the pass knows.
LEMMA OwnPass ==
    ASSUME TypeInv, StampInv, NEW s \in Services, PassKnows(s),
           PassStep(s) \/ PassFails(s)
    PROVE  PassKnows(s)'
<1>1. CASE StartPass(s) \/ RemoteZombies(s)
  <2>1. pc'[s] \in {"zombies", "readLocal"}
    BY <1>1 DEF StartPass, RemoteZombies, RepairZombies, TypeInv, TypeOK
  <2> QED BY <2>1 DEF PassKnows, RowKnown
<1>2. CASE ReadLocal(s)
  <2>1. /\ pc'[s] = "readRemote" /\ store' = store
        /\ \A r \in Rows : snap'[s]["local"][r] =
                              SlimOf(store[Db(s, "local")][r])
    BY <1>2 DEF ReadLocal, SlimRead, TypeInv, TypeOK, Sides
  <2> QED BY <2>1 DEF PassKnows, RowKnown, Fresh, Db
<1>3. CASE ReadRemote(s)
  BY <1>3, OwnReadRemote
<1>4. CASE \E r \in Rows, to \in Sides : WriteFlags(s, r, to)
  BY <1>4, OwnFlags
<1>5. ASSUME NEW r \in Rows, NEW to \in Sides, Hydrate(s, r, to)
      PROVE  PassKnows(s)'
  <2>1. /\ pc[s] = "rows" /\ pc'[s] = "copy" /\ store' = store /\ snap' = snap
        /\ todo' = todo /\ dirty' = dirty
        /\ job'[s] = [row |-> r, to |-> to, kind |-> Intent(s, r, to),
                      full |-> store[Db(s, Other(to))][r]]
    BY <1>5 DEF Hydrate, TypeInv, TypeOK
  <2>2. job'[s].kind = Intent(s, r, to) /\ job'[s].row = r /\ job'[s].to = to
        /\ job'[s].full = store[Db(s, Other(to))][r]
    BY <2>1
  <2> QED BY <2>1, <2>2 DEF PassKnows, RowKnown, Fresh, PairAgrees, Intent, Db
<1>6. CASE Copy(s)
  BY <1>6, OwnCopy
<1>7. CASE FinishPass(s) \/ PassFails(s)
  <2>1. pc'[s] = "idle"
    BY <1>7 DEF FinishPass, PassFails, EndPass, TypeInv, TypeOK
  <2> QED BY <2>1 DEF PassKnows, RowKnown
<1> QED BY <1>1, <1>2, <1>3, <1>4, <1>5, <1>6, <1>7 DEF PassStep

\* A pass settles every row it is left alone with, for any number of services
\* on the same databases, with writes, failures and other passes at any moment.
THEOREM PassSettlesItsRows == Spec => []UndisturbedRowsAgree
<1> DEFINE Inv == TypeInv /\ StampInv /\ PassInv
<1>1. Init => Inv
  <2>1. Init => StampInv
    BY DEF Init, StampInv, Copies
  <2>2. Init => PassInv
    BY DEF Init, PassInv, PassKnows, RowKnown
  <2> QED BY <2>1, <2>2, InitType
<1>2. Inv /\ [Next]_vars => Inv'
  <2> SUFFICES ASSUME Inv, [Next]_vars PROVE Inv'
    OBVIOUS
  <2>1. TypeInv'
    BY AppType, PassType, StutterType DEF Next, SyncNext
  <2>2. CASE UNCHANGED vars
    <3>1. StampInv'
      BY <2>2 DEF StampInv, Copies, vars
    <3>2. PassInv'
      BY <2>2, Bystander DEF PassInv, vars
    <3> QED BY <2>1, <3>1, <3>2
  <2>3. CASE Next
    <3>1. StampInv'
      BY <2>1, <2>3, AppStamp, PassStamp DEF Next, SyncNext
    <3>2. ASSUME NEW s \in Services PROVE PassKnows(s)'
      <4>1. CASE AppNext
        BY <4>1, AppPass
      <4>2. CASE PassStep(s) \/ PassFails(s)
        BY <4>2, OwnPass DEF PassInv
      <4>3. CASE \E x \in Services : x # s /\ (PassStep(x) \/ PassFails(x))
        BY <4>3, OtherPass
      <4> QED BY <2>3, <4>1, <4>2, <4>3 DEF Next, SyncNext
    <3> QED BY <2>1, <3>1, <3>2 DEF PassInv
  <2> QED BY <2>2, <2>3
<1>3. Inv => UndisturbedRowsAgree
  BY DEF UndisturbedRowsAgree, PassInv, PassKnows, RowKnown, PairAgrees, Db
<1> QED BY <1>1, <1>2, <1>3, PTL DEF Spec

-----------------------------------------------------------------------------
(***************************************************************************)
(* Last write wins, proved: when nobody uses the application while a pass  *)
(* is under way, the row loops of any number of services on any number of  *)
(* databases implement the register.  Passes may overlap and die.          *)
(*                                                                         *)
(* The argument: the database in which a row was written last (its home)   *)
(* keeps that document, because every service read it there after it was   *)
(* written and what it read beats everything else there is of the row.     *)
(***************************************************************************)

\* Has the service read this side in the pass under way?
Seen(s, side) ==
    pc[s] \in (IF side = "local" THEN {"readRemote", "rows", "copy"}
                                 ELSE {"rows", "copy"})

\* What was not read is not held, and a copy is the one its slim reads call for.
HeldMatchesPc ==
    \A s \in Services :
        /\ \A side \in Sides, r \in Rows : ~Seen(s, side) => snap[s][side][r] = NoDoc
        /\ pc[s] # "copy" => job[s] = NoJob
        /\ pc[s] = "copy" => job[s].kind = Intent(s, job[s].row, job[s].to)

\* Everything there is of a row: stored, read or hydrated.
Traces(r) ==
    (Copies(r) \cup {snap[s][side][r] : s \in Services, side \in Sides}) \ {NoDoc}

BoundInv ==
    /\ clock <= MaxTime
    /\ \A r \in Rows : \A d \in Traces(r) : d.upd <= clock /\ d.del <= clock

UnwrittenInv ==
    \A r \in Rows : last[r] = NoDoc => \A st \in Stores : store[st][r] = NoDoc

\* What the row loop decides for the write w against the trace d.
Beats(w, d) ==
    /\ ~d.purged
    /\ IF IsLive(w) THEN d.upd <= w.upd /\ d.del < w.upd
                    ELSE IsLive(d) => d.upd <= w.del

\* The latest write beats every trace of its row.  A tombstone carries an
\* `updatedAt` that may be a tick younger than its date: such a document must not
\* be lifted, so nobody may believe it live.
Dominates(r) ==
    /\ \A d \in Traces(r) : Beats(last[r], d)
    /\ ~IsLive(last[r]) =>
          /\ \A s \in Services, side \in Sides :
                (snap[s][side][r] # NoDoc /\ IsLive(snap[s][side][r]))
                    => store[Db(s, side)][r].upd <= last[r].del
          /\ \A s \in Services :
                (job[s] # NoJob /\ job[s].row = r /\ job[s].kind # "insert")
                    => job[s].full.upd <= last[r].del

\* A database that keeps the latest write, and was read so.
IsHome(st, r) ==
    IF last[r].purged
    THEN /\ store[st][r] # NoDoc /\ store[st][r].purged
         /\ store[st][r].upd >= last[r].upd
         /\ \A s \in Services, side \in Sides :
               (Db(s, side) = st /\ Seen(s, side))
                   => snap[s][side][r] # NoDoc /\ snap[s][side][r].purged
    ELSE /\ store[st][r] = last[r]
         /\ \A s \in Services, side \in Sides :
               (Db(s, side) = st /\ Seen(s, side)) => snap[s][side][r] = SlimOf(last[r])

RowLatest(r) ==
    last[r] # NoDoc => /\ \E st \in Stores : IsHome(st, r)
                       /\ ~last[r].purged => Dominates(r)

LatestInv == \A r \in Rows : RowLatest(r)

RegInv == TypeInv /\ HeldMatchesPc /\ BoundInv /\ UnwrittenInv /\ LatestInv

-----------------------------------------------------------------------------
\* While all services are idle nobody holds anything.
LEMMA IdleHoldsNothing ==
    ASSUME TypeInv, HeldMatchesPc, AllIdle
    PROVE  /\ \A s \in Services : job[s] = NoJob
           /\ \A s \in Services, side \in Sides, r \in Rows : snap[s][side][r] = NoDoc
           /\ \A r \in Rows : \A d \in Traces(r) : \E st \in Stores : d = store[st][r]
           /\ \A s \in Services, side \in Sides : ~Seen(s, side)
<1>1. \A s \in Services, side \in Sides : ~Seen(s, side)
  BY DEF AllIdle, Seen
<1>2. \A s \in Services : job[s] = NoJob
  BY DEF HeldMatchesPc, AllIdle
<1>3. \A s \in Services, side \in Sides, r \in Rows : snap[s][side][r] = NoDoc
  BY <1>1 DEF HeldMatchesPc
<1> QED BY <1>1, <1>2, <1>3 DEF Traces, Copies

\* A write by the application becomes the latest write of its row, and the
\* database it is made in the row's home.
LEMMA AppWriteLatest ==
    ASSUME RegInv, TypeInv', Quiet, NEW st \in Stores, NEW r \in Rows, NEW d \in Doc,
           AppWrite(st, r, d), clock < MaxTime \/ d.upd = clock,
           (store[st][r] # NoDoc /\ store[st][r].purged) => d.purged,
           d.upd \in {clock, clock + 1}, d.del <= d.upd,
           IF IsLive(d) THEN d.upd = clock + 1 ELSE d.del >= clock
    PROVE  HeldMatchesPc' /\ BoundInv' /\ UnwrittenInv' /\ LatestInv'
<1>0. AllIdle /\ clock \in Nat /\ MaxTime \in Nat
  BY BoundsAssumption DEF RegInv, TypeInv, TypeOK, AppWrite, MayWrite
<1>1. /\ \A s \in Services : job[s] = NoJob
      /\ \A s \in Services, side \in Sides, q \in Rows : snap[s][side][q] = NoDoc
      /\ \A s \in Services, side \in Sides : ~Seen(s, side)
  BY <1>0, IdleHoldsNothing DEF RegInv
<1>2. /\ pc' = pc /\ snap' = snap /\ job' = job /\ clock' = d.upd
      /\ \A db \in Stores, q \in Rows :
            store'[db][q] = IF db = st /\ q = r THEN d ELSE store[db][q]
      /\ last' = [last EXCEPT ![r] =
                     IF last[r] # NoDoc /\ last[r].purged THEN last[r] ELSE d]
  BY DEF AppWrite, RegInv, TypeInv, TypeOK, Put, Remember
<1>3. \A s \in Services, side \in Sides : ~Seen(s, side)'
  BY <1>1, <1>2 DEF Seen
<1>4. \A q \in Rows : \A e \in Traces(q)' : \E db \in Stores : e = store'[db][q] /\ e # NoDoc
  BY <1>1, <1>2 DEF Traces, Copies
<1>5. HeldMatchesPc'
  BY <1>1, <1>2, <1>3, <1>0 DEF HeldMatchesPc, AllIdle
<1>6. \A q \in Rows, db \in Stores : store[db][q] # NoDoc =>
          /\ store[db][q] \in Doc /\ store[db][q] \in Traces(q)
          /\ store[db][q].upd <= clock /\ store[db][q].del <= clock
  BY DEF RegInv, TypeInv, TypeOK, Traces, Copies, BoundInv
<1>7. BoundInv'
  <2>1. clock' <= MaxTime /\ clock' \in Nat /\ clock <= clock'
    BY <1>0, <1>2 DEF RegInv, BoundInv, Doc
  <2>2. ASSUME NEW q \in Rows, NEW e \in Traces(q)'
        PROVE  e.upd <= clock' /\ e.del <= clock'
    <3>1. PICK db \in Stores : e = store'[db][q] /\ e # NoDoc
      BY <1>4
    <3>2. CASE db = st /\ q = r
      BY <3>1, <3>2, <1>2, <1>0 DEF Doc
    <3>3. CASE ~(db = st /\ q = r)
      BY <3>1, <3>3, <1>2, <1>0, <1>6 DEF Doc
    <3> QED BY <3>2, <3>3
  <2> QED BY <2>1, <2>2 DEF BoundInv
<1>8. UnwrittenInv'
  BY <1>2, NoDocAssumption DEF UnwrittenInv, RegInv, TypeInv, TypeOK
<1>9. ASSUME NEW q \in Rows, q # r PROVE RowLatest(q)'
  <2>0. RowLatest(q) /\ last'[q] = last[q] /\ \A db \in Stores : store'[db][q] = store[db][q]
    BY <1>2, <1>9 DEF RegInv, LatestInv, TypeInv, TypeOK
  <2>1. ASSUME NEW db \in Stores, IsHome(db, q) PROVE IsHome(db, q)'
    BY <2>0, <2>1, <1>3 DEF IsHome
  <2>2. Traces(q)' = Traces(q)
    BY <2>0, <1>2 DEF Traces, Copies
  <2>3. ASSUME Dominates(q) PROVE Dominates(q)'
    BY <2>0, <2>2, <2>3, <1>1, <1>2 DEF Dominates, Beats, IsLive, Db
  <2> QED BY <2>0, <2>1, <2>3 DEF RowLatest
<1>10. RowLatest(r)'
  <2>1. CASE last[r] # NoDoc /\ last[r].purged
    <3>0. last'[r] = last[r]
      BY <2>1, <1>2 DEF RegInv, TypeInv, TypeOK
    <3>1. PICK db \in Stores : IsHome(db, r)
      BY <2>1 DEF RegInv, LatestInv, RowLatest
    <3>2. /\ store[db][r] \in Doc /\ store[db][r].purged /\ store[db][r].upd <= clock
          /\ store[db][r].upd >= last[r].upd /\ last[r] \in Doc
      BY <3>1, <2>1, <1>6 DEF IsHome, RegInv, TypeInv, TypeOK
    <3>3. /\ store'[db][r] # NoDoc /\ store'[db][r].purged
          /\ store'[db][r].upd >= last[r].upd
      BY <3>1, <3>2, <1>2, <1>0, <2>1, NoDocAssumption DEF Doc, IsHome
    <3>4. IsHome(db, r)'
      BY <3>0, <3>3, <2>1, <1>3 DEF IsHome
    <3> QED BY <3>0, <3>4, <2>1 DEF RowLatest
  <2>2. CASE ~(last[r] # NoDoc /\ last[r].purged)
    <3>0. last'[r] = d /\ store'[st][r] = d /\ d # NoDoc
      BY <2>2, <1>2, NoDocAssumption DEF RegInv, TypeInv, TypeOK
    <3>1. IsHome(st, r)'
      BY <3>0, <1>3, <1>0 DEF IsHome, Doc
    <3>2. ASSUME ~d.purged PROVE Dominates(r)'
      <4>1. ASSUME NEW db \in Stores, store[db][r] # NoDoc PROVE ~store[db][r].purged
        <5>1. CASE last[r] = NoDoc
          BY <5>1, <4>1 DEF RegInv, UnwrittenInv
        <5>2. CASE last[r] # NoDoc
          BY <5>2, <2>2, <4>1, <1>6 DEF RegInv, LatestInv, RowLatest, Dominates, Beats
        <5> QED BY <5>1, <5>2
      <4>2. ASSUME NEW e \in Traces(r)' PROVE Beats(d, e)
        <5>1. PICK db \in Stores : e = store'[db][r] /\ e # NoDoc
          BY <1>4
        <5>2. CASE db = st
          BY <5>1, <5>2, <3>0, <3>2, <1>0 DEF Beats, IsLive, Doc
        <5>3. CASE db # st
          <6>1. e = store[db][r]
            BY <5>1, <5>3, <1>2
          <6>2. e \in Doc /\ ~e.purged /\ e.upd <= clock /\ e.del <= clock
            BY <6>1, <5>1, <4>1, <1>6
          <6> QED BY <6>2, <1>0 DEF Beats, IsLive, Doc
        <5> QED BY <5>2, <5>3
      <4> QED BY <4>2, <3>0, <1>1, <1>2 DEF Dominates
    <3> QED BY <3>0, <3>1, <3>2 DEF RowLatest
  <2> QED BY <2>1, <2>2
<1> QED BY <1>5, <1>7, <1>8, <1>9, <1>10 DEF LatestInv

\* A document that a request is about.
LEMMA RequestedDoc ==
    ASSUME TypeInv, NEW q \in reqs
    PROVE  q.db \in Stores /\ q.row \in Rows /\ store[q.db][q.row] \in Doc
<1>1. q.db \in Stores /\ q.row \in Rows
  BY DEF TypeInv, TypeOK
<1>2. store[q.db][q.row] # NoDoc
  BY DEF TypeInv, ReqsExist
<1> QED BY <1>1, <1>2 DEF TypeInv, TypeOK

\* Whatever the users do between passes keeps RegInv.
LEMMA AppLatest ==
    ASSUME RegInv, TypeInv', Quiet, AppNext
    PROVE  HeldMatchesPc' /\ BoundInv' /\ UnwrittenInv' /\ LatestInv'
<1>0. /\ clock \in Nat /\ clock + 1 \in Nat
      /\ \A st \in Stores, r \in Rows : store[st][r] # NoDoc =>
            store[st][r] \in Doc /\ store[st][r].upd <= clock
  BY DEF RegInv, BoundInv, TypeInv, TypeOK, Traces, Copies
<1>1. ASSUME NEW st \in Stores, NEW r \in Rows, AppCreate(st, r)
      PROVE  HeldMatchesPc' /\ BoundInv' /\ UnwrittenInv' /\ LatestInv'
  <2>1. PICK b \in SUBSET Fields :
           AppWrite(st, r, [body |-> b, upd |-> clock + 1, del |-> 0, purged |-> FALSE])
    BY <1>1 DEF AppCreate
  <2> DEFINE d == [body |-> b, upd |-> clock + 1, del |-> 0, purged |-> FALSE]
  <2>2. d \in Doc /\ d.upd = clock + 1 /\ d.del = 0 /\ IsLive(d)
    BY <1>0 DEF Doc, IsLive
  <2>3. store[st][r] = NoDoc /\ clock < MaxTime
    BY <1>1 DEF AppCreate
  <2> QED BY <1>0, <2>1, <2>2, <2>3, AppWriteLatest
<1>2. ASSUME NEW st \in Stores, NEW r \in Rows, AppEdit(st, r)
      PROVE  HeldMatchesPc' /\ BoundInv' /\ UnwrittenInv' /\ LatestInv'
  <2>1. PICK b \in SUBSET Fields :
           AppWrite(st, r, [store[st][r] EXCEPT !.body = b, !.upd = clock + 1])
    BY <1>2 DEF AppEdit
  <2> DEFINE d == [store[st][r] EXCEPT !.body = b, !.upd = clock + 1]
  <2>d. d = [store[st][r] EXCEPT !.body = b, !.upd = clock + 1] /\ AppWrite(st, r, d)
    BY <2>1
  <2> HIDE DEF d
  <2>2. store[st][r] \in Doc /\ clock < MaxTime /\ IsLive(store[st][r])
    BY <1>0, <1>2 DEF AppEdit
  <2>3. /\ d \in Doc /\ d.upd = clock + 1 /\ d.del = 0 /\ IsLive(d)
        /\ d.purged = store[st][r].purged
    <3>1. clock + 1 \in Nat
      BY <1>0
    <3>2. d \in Doc /\ d.upd = clock + 1 /\ d.del = store[st][r].del
          /\ d.purged = store[st][r].purged
      BY <2>1, <2>2, <2>d, <3>1 DEF Doc
    <3> QED BY <2>2, <3>2 DEF IsLive
  <2>4. /\ d.del <= d.upd /\ d.upd \in {clock, clock + 1}
        /\ (store[st][r] # NoDoc /\ store[st][r].purged) => d.purged
    BY <1>0, <2>3
  <2> QED BY <2>d, <2>2, <2>3, <2>4, AppWriteLatest
<1>3. ASSUME NEW st \in Stores, NEW r \in Rows, AppDelete(st, r)
      PROVE  HeldMatchesPc' /\ BoundInv' /\ UnwrittenInv' /\ LatestInv'
  <2>1. PICK t \in {clock, clock + 1}, u \in {clock, clock + 1} :
           /\ t > 0 /\ t <= u
           /\ AppWrite(st, r, [store[st][r] EXCEPT !.del = t, !.upd = u])
    BY <1>3 DEF AppDelete
  <2> DEFINE d == [store[st][r] EXCEPT !.del = t, !.upd = u]
  <2>d. d = [store[st][r] EXCEPT !.del = t, !.upd = u] /\ AppWrite(st, r, d)
    BY <2>1
  <2> HIDE DEF d
  <2>2. store[st][r] \in Doc /\ clock < MaxTime
    BY <1>0, <1>3 DEF AppDelete
  <2>3. /\ d \in Doc /\ d.upd = u /\ d.del = t /\ ~IsLive(d)
        /\ d.purged = store[st][r].purged
    <3>1. t \in Nat /\ u \in Nat /\ t # 0
      BY <1>0, <2>1
    <3>2. d \in Doc /\ d.upd = u /\ d.del = t /\ d.purged = store[st][r].purged
      BY <2>2, <2>d, <3>1 DEF Doc
    <3> QED BY <3>1, <3>2 DEF IsLive
  <2>4. d.del >= clock /\ d.del <= d.upd
    BY <1>0, <2>1, <2>3
  <2> QED BY <1>0, <2>d, <2>1, <2>2, <2>3, <2>4, AppWriteLatest
<1>4. ASSUME NEW st \in Stores, NEW r \in Rows, NEW kind \in {"restore", "purge"},
             AppRequest(st, r, kind)
      PROVE  HeldMatchesPc' /\ BoundInv' /\ UnwrittenInv' /\ LatestInv'
  <2>1. UNCHANGED <<store, clock, pc, snap, todo, job, last>>
    BY <1>4 DEF AppRequest
  <2> QED BY <2>1 DEF RegInv, HeldMatchesPc, BoundInv, UnwrittenInv, LatestInv, RowLatest,
                      IsHome, Dominates, Traces, Copies, Seen, Intent, Db
<1>5. ASSUME NEW q \in reqs, AppRestore(q)
      PROVE  HeldMatchesPc' /\ BoundInv' /\ UnwrittenInv' /\ LatestInv'
  <2> DEFINE d == [store[q.db][q.row] EXCEPT !.del = 0, !.upd = clock + 1]
  <2>1. q.db \in Stores /\ q.row \in Rows /\ store[q.db][q.row] \in Doc
    BY RequestedDoc DEF RegInv
  <2>2. AppWrite(q.db, q.row, d) /\ clock < MaxTime
    BY <1>5 DEF AppRestore
  <2>d. d = [store[q.db][q.row] EXCEPT !.del = 0, !.upd = clock + 1]
    OBVIOUS
  <2> HIDE DEF d
  <2>3. /\ d \in Doc /\ d.upd = clock + 1 /\ d.del = 0 /\ IsLive(d)
        /\ d.purged = store[q.db][q.row].purged
    <3>1. clock + 1 \in Nat /\ 0 \in Nat
      BY <1>0
    <3>2. d \in Doc /\ d.upd = clock + 1 /\ d.del = 0
          /\ d.purged = store[q.db][q.row].purged
      BY <2>1, <2>d, <3>1 DEF Doc
    <3> QED BY <3>2 DEF IsLive
  <2> QED BY <1>0, <2>1, <2>2, <2>3, AppWriteLatest
<1>6. ASSUME NEW q \in reqs, AppPurge(q)
      PROVE  HeldMatchesPc' /\ BoundInv' /\ UnwrittenInv' /\ LatestInv'
  <2> DEFINE d == [store[q.db][q.row] EXCEPT !.del = clock + 1, !.upd = clock + 1,
                                             !.purged = TRUE]
  <2>1. q.db \in Stores /\ q.row \in Rows /\ store[q.db][q.row] \in Doc
    BY RequestedDoc DEF RegInv
  <2>2. AppWrite(q.db, q.row, d) /\ clock < MaxTime
    BY <1>6 DEF AppPurge
  <2>d. d = [store[q.db][q.row] EXCEPT !.del = clock + 1, !.upd = clock + 1,
                                       !.purged = TRUE]
    OBVIOUS
  <2> HIDE DEF d
  <2>3. d \in Doc /\ d.upd = clock + 1 /\ d.del = clock + 1 /\ ~IsLive(d) /\ d.purged
    <3>1. clock + 1 \in Nat /\ clock + 1 # 0
      BY <1>0
    <3>2. d \in Doc /\ d.upd = clock + 1 /\ d.del = clock + 1 /\ d.purged
      BY <2>1, <2>d, <3>1 DEF Doc
    <3> QED BY <3>1, <3>2 DEF IsLive
  <2> QED BY <1>0, <2>1, <2>2, <2>3, AppWriteLatest
<1> QED BY <1>1, <1>2, <1>3, <1>4, <1>5, <1>6 DEF AppNext

-----------------------------------------------------------------------------
(* The steps of a pass.  `last` and the clock stand still.                  *)

\* The zombie repair touches purged rows only, and leaves them purged.
LEMMA ZombiesLatest ==
    ASSUME RegInv, TypeInv', NEW s \in Services, NEW side \in Sides, NEW from, NEW to,
           RepairZombies(s, side, from, to),
           from \in {"idle", "zombies"}, to \in {"zombies", "readLocal"}
    PROVE  HeldMatchesPc' /\ BoundInv' /\ UnwrittenInv' /\ LatestInv'
<1> DEFINE st == Db(s, side)
<1>0. st \in Stores /\ clock \in Nat
  BY StoreFacts DEF RegInv, TypeInv, TypeOK
<1>1. /\ snap' = snap /\ job' = job /\ clock' = clock /\ last' = last
      /\ pc[s] = from /\ pc' = [pc EXCEPT ![s] = to]
      /\ \A db \in Stores, q \in Rows :
            store'[db][q] = IF db = st THEN Retombstone(store[db][q]) ELSE store[db][q]
  BY <1>0 DEF RepairZombies, app, RegInv, TypeInv, TypeOK
<1>2. \A x \in Services, sd \in Sides : Seen(x, sd)' <=> Seen(x, sd)
  BY <1>1 DEF Seen, RegInv, TypeInv, TypeOK
<1>3. HeldMatchesPc'
  <2>1. \A x \in Services : pc'[x] = "copy" <=> pc[x] = "copy"
    BY <1>1 DEF RegInv, TypeInv, TypeOK
  <2> QED BY <1>1, <1>2, <2>1 DEF HeldMatchesPc, Intent, RegInv
<1>4. \A db \in Stores, q \in Rows :
          LET d == store[db][q]  e == store'[db][q] IN
          /\ d = NoDoc <=> e = NoDoc
          /\ d # NoDoc => /\ d \in Doc /\ e \in Doc
                          /\ e.upd = d.upd /\ e.purged = d.purged
                          /\ ~d.purged => e = d
                          /\ e.del \in {d.del, clock}
  <2> SUFFICES ASSUME NEW db \in Stores, NEW q \in Rows
               PROVE  LET d == store[db][q]  e == store'[db][q] IN
                      /\ d = NoDoc <=> e = NoDoc
                      /\ d # NoDoc => /\ d \in Doc /\ e \in Doc
                                      /\ e.upd = d.upd /\ e.purged = d.purged
                                      /\ ~d.purged => e = d
                                      /\ e.del \in {d.del, clock}
    OBVIOUS
  <2>1. store[db][q] \in Doc \cup {NoDoc}
    BY DEF RegInv, TypeInv, TypeOK
  <2>2. ASSUME store[db][q] # NoDoc
        PROVE  LET e == Retombstone(store[db][q]) IN
               /\ e \in Doc /\ e.upd = store[db][q].upd
               /\ e.purged = store[db][q].purged
               /\ ~store[db][q].purged => e = store[db][q]
               /\ e.del \in {store[db][q].del, clock}
    BY <1>0, <2>1, <2>2, DocUpdates DEF Retombstone, Doc
  <2>3. Retombstone(NoDoc) = NoDoc
    BY DEF Retombstone
  <2> QED BY <1>1, <2>1, <2>2, <2>3, NoDocAssumption
<1>5. \A q \in Rows : \A e \in Traces(q)' : \E d \in Traces(q) :
          /\ e.upd = d.upd /\ e.purged = d.purged /\ e.del \in {d.del, clock}
          /\ ~d.purged => e = d
  <2> SUFFICES ASSUME NEW q \in Rows, NEW e \in Traces(q)'
               PROVE  \E d \in Traces(q) :
                        /\ e.upd = d.upd /\ e.purged = d.purged /\ e.del \in {d.del, clock}
                        /\ ~d.purged => e = d
    OBVIOUS
  <2>1. CASE e \in Traces(q)
    BY <2>1
  <2>2. CASE \E db \in Stores : e = store'[db][q]
    <3>1. PICK db \in Stores : e = store'[db][q]
      BY <2>2
    <3>2. e # NoDoc /\ store[db][q] # NoDoc
      BY <3>1, <1>4 DEF Traces
    <3>3. store[db][q] \in Traces(q)
      BY <3>2 DEF Traces, Copies
    <3> QED BY <3>1, <3>2, <3>3, <1>4
  <2> QED BY <2>1, <2>2, <1>1 DEF Traces, Copies
<1>6. BoundInv'
  BY <1>0, <1>1, <1>5 DEF BoundInv, RegInv
<1>7. UnwrittenInv'
  BY <1>1, <1>4 DEF UnwrittenInv, RegInv
<1>8. ASSUME NEW r \in Rows PROVE RowLatest(r)'
  <2> SUFFICES ASSUME last[r] # NoDoc
               PROVE  /\ \E db \in Stores : IsHome(db, r)'
                      /\ ~last[r].purged => Dominates(r)'
    BY <1>1 DEF RowLatest
  <2>0. RowLatest(r)
    BY DEF RegInv, LatestInv
  <2>1. PICK db \in Stores : IsHome(db, r)
    BY <2>0 DEF RowLatest
  <2>2. CASE last[r].purged
    <3>1. IsHome(db, r)'
      BY <2>1, <2>2, <1>1, <1>2, <1>4 DEF IsHome, Db
    <3> QED BY <3>1, <2>2
  <2>3. CASE ~last[r].purged
    <3>1. Dominates(r)
      BY <2>0, <2>3 DEF RowLatest
    <3>2. \A d \in Stores : store'[d][r] = store[d][r]
      <4> SUFFICES ASSUME NEW d \in Stores PROVE store'[d][r] = store[d][r]
        OBVIOUS
      <4>1. store[d][r] # NoDoc => ~store[d][r].purged
        BY <3>1 DEF Dominates, Beats, Traces, Copies
      <4> QED BY <4>1, <1>4
    <3>3. Traces(r)' = Traces(r)
      BY <3>2, <1>1 DEF Traces, Copies
    <3>4. Dominates(r)'
      BY <3>1, <3>2, <3>3, <1>1, StoreFacts DEF Dominates, Db
    <3>5. IsHome(db, r)'
      BY <2>1, <2>3, <3>2, <1>1, <1>2 DEF IsHome, Db
    <3> QED BY <3>4, <3>5
  <2> QED BY <2>2, <2>3
<1> QED BY <1>3, <1>6, <1>7, <1>8 DEF LatestInv

\* The slim reads find the latest write at its home.
LEMMA ReadLatest ==
    ASSUME RegInv, TypeInv', NEW s \in Services, NEW side \in Sides, NEW from, NEW to,
           SlimRead(s, side, from, to),
           \/ side = "local" /\ from = "readLocal" /\ to = "readRemote"
           \/ side = "remote" /\ from = "readRemote" /\ to = "rows"
    PROVE  HeldMatchesPc' /\ BoundInv' /\ UnwrittenInv' /\ LatestInv'
<1>1. /\ store' = store /\ job' = job /\ clock' = clock /\ last' = last
      /\ pc[s] = from /\ pc' = [pc EXCEPT ![s] = to]
      /\ \A x \in Services, sd \in Sides, q \in Rows :
            snap'[x][sd][q] = IF x = s /\ sd = side THEN SlimOf(store[Db(s, side)][q])
                              ELSE snap[x][sd][q]
  BY DEF SlimRead, app, RegInv, TypeInv, TypeOK
<1>2. \A x \in Services, sd \in Sides :
          Seen(x, sd)' <=> Seen(x, sd) \/ (x = s /\ sd = side)
  BY <1>1 DEF Seen, RegInv, TypeInv, TypeOK, Sides
<1>3. HeldMatchesPc'
  <2>1. \A x \in Services : (pc'[x] = "copy" <=> pc[x] = "copy") /\ (x = s => pc[x] # "copy")
    BY <1>1 DEF RegInv, TypeInv, TypeOK
  <2>2. \A x \in Services : pc[x] = "copy" => job[x].row \in Rows /\ job[x].to \in Sides
    BY DEF RegInv, TypeInv, TypeOK, JobMatchesPc, Job
  <2>3. \A x \in Services : pc[x] = "copy" =>
            Intent(x, job[x].row, job[x].to)' = Intent(x, job[x].row, job[x].to)
    BY <1>1, <2>1, <2>2, StoreFacts DEF Intent
  <2> QED BY <1>1, <1>2, <2>1, <2>3 DEF HeldMatchesPc, RegInv
<1>4. \A q \in Rows : store[Db(s, side)][q] \in Doc \cup {NoDoc}
  BY StoreFacts DEF RegInv, TypeInv, TypeOK
<1>5. \A q \in Rows : \A e \in Traces(q)' : \E d \in Traces(q) :
          e.upd = d.upd /\ e.del = d.del /\ e.purged = d.purged
  <2> SUFFICES ASSUME NEW q \in Rows, NEW e \in Traces(q)'
               PROVE  \E d \in Traces(q) : e.upd = d.upd /\ e.del = d.del /\ e.purged = d.purged
    OBVIOUS
  <2>1. CASE e \in Traces(q)
    BY <2>1
  <2>2. CASE e = SlimOf(store[Db(s, side)][q])
    <3>1. e # NoDoc
      BY DEF Traces
    <3>2. store[Db(s, side)][q] # NoDoc
      BY <2>2, <3>1 DEF SlimOf
    <3>3. store[Db(s, side)][q] \in Traces(q)
      BY <3>2, StoreFacts DEF Traces, Copies
    <3> QED BY <2>2, <3>2, <3>3 DEF SlimOf
  <2>3. e \in Traces(q) \/ e = SlimOf(store[Db(s, side)][q])
    BY <1>1 DEF Traces, Copies
  <2> QED BY <2>1, <2>2, <2>3
<1>6. BoundInv'
  BY <1>1, <1>5 DEF BoundInv, RegInv
<1>7. UnwrittenInv'
  BY <1>1 DEF UnwrittenInv, RegInv
<1>8. ASSUME NEW r \in Rows PROVE RowLatest(r)'
  <2> SUFFICES ASSUME last[r] # NoDoc
               PROVE  /\ \E db \in Stores : IsHome(db, r)'
                      /\ ~last[r].purged => Dominates(r)'
    BY <1>1 DEF RowLatest
  <2>0. RowLatest(r)
    BY DEF RegInv, LatestInv
  <2>1. PICK db \in Stores : IsHome(db, r)
    BY <2>0 DEF RowLatest
  <2> DEFINE d == store[Db(s, side)][r]
  <2>2. /\ SlimOf(d) = NoDoc <=> d = NoDoc
        /\ d # NoDoc => SlimOf(d).del = d.del /\ SlimOf(d).purged = d.purged
        /\ snap'[s][side][r] = SlimOf(d)
    BY <1>1, <1>4, NoDocAssumption DEF SlimOf, Slim, Doc
  <2> HIDE DEF d
  <2>3. IsHome(db, r)'
    <3>1. CASE last[r].purged
      <4>1. store[db][r] # NoDoc /\ store[db][r].purged /\ store[db][r].upd >= last[r].upd
        BY <2>1, <3>1 DEF IsHome
      <4>2. ASSUME NEW x \in Services, NEW sd \in Sides, Db(x, sd) = db, Seen(x, sd)'
            PROVE  snap'[x][sd][r] # NoDoc /\ snap'[x][sd][r].purged
        <5>1. CASE x = s /\ sd = side
          BY <4>1, <4>2, <5>1, <2>2 DEF d
        <5>2. CASE ~(x = s /\ sd = side)
          BY <4>2, <5>2, <2>1, <3>1, <1>1, <1>2 DEF IsHome
        <5> QED BY <5>1, <5>2
      <4> QED BY <4>1, <4>2, <3>1, <1>1 DEF IsHome, Db
    <3>2. CASE ~last[r].purged
      BY <2>1, <3>2, <1>1, <1>2 DEF IsHome, Db
    <3> QED BY <3>1, <3>2
  <2>4. ASSUME ~last[r].purged PROVE Dominates(r)'
    <3>1. Dominates(r)
      BY <2>0, <2>4 DEF RowLatest
    <3>2. \A e \in Traces(r)' : Beats(last[r], e)
      BY <3>1, <1>5 DEF Dominates, Beats, IsLive
    <3>3. ASSUME NEW x \in Services, NEW sd \in Sides, ~IsLive(last[r]),
                 snap'[x][sd][r] # NoDoc, IsLive(snap'[x][sd][r])
          PROVE  store[Db(x, sd)][r].upd <= last[r].del
      <4>1. CASE x = s /\ sd = side
        <5>1. store[Db(s, side)][r] # NoDoc /\ snap'[x][sd][r].del = store[Db(s, side)][r].del
          BY <3>3, <4>1, <2>2 DEF d
        <5>2. store[Db(s, side)][r] \in Traces(r) /\ IsLive(store[Db(s, side)][r])
          BY <5>1, <3>3, StoreFacts DEF Traces, Copies, IsLive
        <5> QED BY <5>2, <4>1, <3>1, <3>3 DEF Dominates, Beats
      <4>2. CASE ~(x = s /\ sd = side)
        BY <4>2, <3>3, <3>1, <1>1 DEF Dominates
      <4> QED BY <4>1, <4>2
    <3> QED BY <3>1, <3>2, <3>3, <1>1 DEF Dominates, Db
  <2> QED BY <2>1, <2>3, <2>4
<1> QED BY <1>3, <1>6, <1>7, <1>8 DEF LatestInv

\* Whoever has read the home of a row means to write nothing there.
LEMMA HomeIsSpared ==
    ASSUME RegInv, NEW s \in Services, pc[s] \in {"rows", "copy"},
           NEW r \in Rows, NEW to \in Sides, last[r] # NoDoc, IsHome(Db(s, to), r)
    PROVE  Intent(s, r, to) = "none"
<1> DEFINE a == snap[s][Other(to)][r]
           b == snap[s][to][r]
<1>1. Other(to) \in Sides /\ Seen(s, to)
  BY StoreFacts DEF Seen
<1>2. a \in Slim \cup {NoDoc} /\ b \in Slim \cup {NoDoc} /\ last[r] \in Doc
  BY <1>1 DEF RegInv, TypeInv, TypeOK
<1>3. Intent(s, r, to) = Outcome(a, b)
  BY DEF Intent
<1>4. CASE last[r].purged
  <2>1. b # NoDoc /\ b.purged
    BY <1>1, <1>4 DEF IsHome
  <2> QED BY <1>3, <2>1 DEF Outcome
<1>5. CASE ~last[r].purged
  <2>1. b = SlimOf(last[r])
    BY <1>1, <1>5 DEF IsHome
  <2>2. b # NoDoc /\ b.upd = last[r].upd /\ b.del = last[r].del /\ b.purged = last[r].purged
    BY <1>2, <2>1, NoDocAssumption DEF SlimOf, Slim, Doc
  <2>3. a # NoDoc => Beats(last[r], a)
    BY <1>1, <1>5 DEF RegInv, LatestInv, RowLatest, Dominates, Traces
  <2> QED BY <1>2, <1>3, <1>5, <2>2, <2>3 DEF Outcome, Beats, IsLive, Slim, Doc
<1> QED BY <1>4, <1>5

\* What is meant for a row comes from a document, and the row has been written.
LEMMA IntentHasSource ==
    ASSUME RegInv, NEW s \in Services, NEW r \in Rows, NEW to \in Sides,
           Intent(s, r, to) # "none"
    PROVE  /\ snap[s][Other(to)][r] \in Slim
           /\ snap[s][Other(to)][r] \in Traces(r)
           /\ store[Db(s, Other(to))][r] \in Doc
           /\ store[Db(s, Other(to))][r] \in Traces(r)
           /\ last[r] \in Doc
<1>0. Other(to) \in Sides /\ Db(s, Other(to)) \in Stores
  BY StoreFacts
<1>1. snap[s][Other(to)][r] # NoDoc
  BY DEF Intent, Outcome
<1>2. store[Db(s, Other(to))][r] # NoDoc
  BY <1>0, <1>1 DEF RegInv, TypeInv, SeenStays
<1>3. last[r] # NoDoc
  BY <1>0, <1>2 DEF RegInv, UnwrittenInv
<1> QED BY <1>0, <1>1, <1>2, <1>3 DEF RegInv, TypeInv, TypeOK, Traces, Copies

\* The two flag writes.
LEMMA FlagsLatest ==
    ASSUME RegInv, TypeInv', NEW s \in Services, NEW r \in Rows, NEW to \in Sides,
           WriteFlags(s, r, to)
    PROVE  HeldMatchesPc' /\ BoundInv' /\ UnwrittenInv' /\ LatestInv'
<1> DEFINE st == Db(s, to)
           a  == snap[s][Other(to)][r]
           d  == store[st][r]
           k  == Intent(s, r, to)
           e  == FlagWrite(k, a, d)
<1>0. st \in Stores /\ Other(to) \in Sides /\ clock \in Nat /\ pc[s] = "rows"
      /\ k \in FlagKinds /\ k # "none" /\ k = Outcome(a, snap[s][to][r])
  BY StoreFacts DEF RegInv, TypeInv, TypeOK, WriteFlags, FlagKinds, Intent
<1>1. /\ snap' = snap /\ job' = job /\ clock' = clock /\ last' = last /\ pc' = pc
      /\ \A db \in Stores, q \in Rows :
            store'[db][q] = IF db = st /\ q = r THEN e ELSE store[db][q]
  BY <1>0 DEF WriteFlags, app, Put, RegInv, TypeInv, TypeOK
<1>2. a \in Slim /\ a \in Traces(r) /\ last[r] \in Doc
  BY <1>0, IntentHasSource
<1>3. d \in Doc /\ d \in Traces(r)
  <2>1. snap[s][to][r] # NoDoc
    BY <1>0, FlagHasBoth
  <2>2. d # NoDoc
    BY <1>0, <2>1 DEF RegInv, TypeInv, SeenStays
  <2> QED BY <1>0, <2>2 DEF RegInv, TypeInv, TypeOK, Traces, Copies
<1>4. /\ e \in Doc /\ e # NoDoc /\ e.upd = d.upd /\ e.del \in {a.del, clock}
      /\ ~a.purged => e.purged = d.purged /\ e.del = a.del /\ a.del # 0
      /\ a.purged => e.purged
  <2>1. k = "purge" => a.purged
    BY <1>0 DEF Outcome
  <2>2. k = "delete" => a.del # 0 /\ ~a.purged
    BY <1>0, <1>2, FlagHasBoth DEF Outcome, IsLive
  <2>3. a.del \in Nat /\ a.purged \in BOOLEAN
    BY <1>2 DEF Slim
  <2>4. CASE k = "purge"
    <3>1. e = [d EXCEPT !.purged = TRUE, !.del = IF a.del # 0 THEN a.del ELSE clock]
      BY <2>4 DEF FlagWrite
    <3> QED BY <1>0, <1>3, <2>1, <2>3, <2>4, <3>1, NoDocAssumption DEF Doc
  <2>5. CASE k = "delete"
    <3>1. e = [d EXCEPT !.del = a.del]
      BY <2>5 DEF FlagWrite
    <3> QED BY <1>0, <1>3, <2>2, <2>3, <2>5, <3>1, NoDocAssumption DEF Doc
  <2> QED BY <1>0, <2>4, <2>5 DEF FlagKinds
<1> HIDE DEF e
<1>5. HeldMatchesPc'
  BY <1>1 DEF HeldMatchesPc, RegInv, Seen, Intent
<1>6. \A q \in Rows : \A x \in Traces(q)' : x \in Traces(q) \/ (q = r /\ x = e)
  BY <1>1 DEF Traces, Copies
<1>7. BoundInv'
  <2>1. /\ d.upd <= clock /\ a.del <= clock
    BY <1>2, <1>3 DEF RegInv, BoundInv
  <2>2. e.upd <= clock /\ e.del <= clock
    BY <2>1, <1>0, <1>4
  <2> QED BY <1>1, <1>6, <2>2 DEF BoundInv, RegInv
<1>8. UnwrittenInv'
  BY <1>1, <1>2, NoDocAssumption DEF UnwrittenInv, RegInv
<1>9. ASSUME NEW q \in Rows PROVE RowLatest(q)'
  <2> SUFFICES ASSUME last[q] # NoDoc
               PROVE  /\ \E db \in Stores : IsHome(db, q)'
                      /\ ~last[q].purged => Dominates(q)'
    BY <1>1 DEF RowLatest
  <2>0. RowLatest(q)
    BY DEF RegInv, LatestInv
  <2>1. PICK db \in Stores : IsHome(db, q)
    BY <2>0 DEF RowLatest
  <2>2. ~(db = st /\ q = r)
    BY <2>1, <1>0, HomeIsSpared
  <2>3. IsHome(db, q)'
    BY <2>1, <2>2, <1>1 DEF IsHome, Seen, Db
  <2>4. ASSUME ~last[q].purged PROVE Dominates(q)'
    <3>1. Dominates(q)
      BY <2>0, <2>4 DEF RowLatest
    <3>2. q = r => Beats(last[r], e)
      <4> SUFFICES ASSUME q = r PROVE Beats(last[r], e)
        OBVIOUS
      <4>1. Beats(last[r], a) /\ Beats(last[r], d)
        BY <3>1, <1>2, <1>3 DEF Dominates
      <4> QED BY <4>1, <1>4 DEF Beats, IsLive
    <3>3. \A x \in Traces(q)' : Beats(last[q], x)
      BY <3>1, <3>2, <1>6 DEF Dominates
    <3>4. \A x \in Stores : store'[x][q].upd = store[x][q].upd
      BY <1>1, <1>4
    <3> QED BY <3>1, <3>3, <3>4, <1>1, StoreFacts DEF Dominates, Db
  <2> QED BY <2>3, <2>4
<1> QED BY <1>5, <1>7, <1>8, <1>9 DEF LatestInv

\* Reading the whole document: what may be lifted was not written by a delete.
LEMMA HydrateLatest ==
    ASSUME RegInv, TypeInv', NEW s \in Services, NEW r \in Rows, NEW to \in Sides,
           Hydrate(s, r, to)
    PROVE  HeldMatchesPc' /\ BoundInv' /\ UnwrittenInv' /\ LatestInv'
<1> DEFINE full == store[Db(s, Other(to))][r]
           k    == Intent(s, r, to)
           j    == [row |-> r, to |-> to, kind |-> k, full |-> full]
<1>1. /\ store' = store /\ snap' = snap /\ clock' = clock /\ last' = last
      /\ pc[s] = "rows" /\ pc' = [pc EXCEPT ![s] = "copy"]
      /\ job' = [job EXCEPT ![s] = j] /\ job \in [Services -> Job \cup {NoJob}]
  BY DEF Hydrate, app, RegInv, TypeInv, TypeOK
<1>2. k \in CopyKinds /\ k # "none" /\ k = Outcome(snap[s][Other(to)][r], snap[s][to][r])
  BY DEF Hydrate, CopyKinds, Intent
<1>3. /\ full \in Doc /\ full \in Traces(r) /\ Other(to) \in Sides
      /\ snap[s][Other(to)][r] \in Slim /\ snap[s][Other(to)][r] \in Traces(r)
  BY <1>2, IntentHasSource, StoreFacts
<1>4. \A x \in Services, sd \in Sides : Seen(x, sd)' <=> Seen(x, sd)
  BY <1>1 DEF Seen, RegInv, TypeInv, TypeOK
<1>5. \A x \in Services : job'[x] = IF x = s THEN j ELSE job[x]
  BY <1>1
<1>6. j.row = r /\ j.to = to /\ j.kind = k /\ j.full = full
  OBVIOUS
<1>a. HeldMatchesPc'
  <2>1. \A x \in Services : x # s => (pc'[x] = pc[x] /\ job'[x] = job[x])
    BY <1>1, <1>5 DEF RegInv, TypeInv, TypeOK
  <2>2. pc'[s] = "copy" /\ job'[s] = j
    BY <1>1, <1>5 DEF RegInv, TypeInv, TypeOK
  <2>3. \A x \in Services : \A q, sd : Intent(x, q, sd)' = Intent(x, q, sd)
    BY <1>1 DEF Intent
  <2> HIDE DEF j
  <2>4. ASSUME NEW x \in Services
        PROVE  /\ pc'[x] # "copy" => job'[x] = NoJob
               /\ pc'[x] = "copy" => job'[x].kind = Intent(x, job'[x].row, job'[x].to)
    BY <1>6, <2>1, <2>2 DEF HeldMatchesPc, RegInv
  <2> QED BY <1>1, <1>4, <2>3, <2>4 DEF HeldMatchesPc, RegInv
<1> HIDE DEF j
<1>7. \A q \in Rows : Traces(q)' \subseteq Traces(q)
  <2> SUFFICES ASSUME NEW q \in Rows, NEW x \in Traces(q)' PROVE x \in Traces(q)
    OBVIOUS
  <2>1. \/ x \in Traces(q)
        \/ q = r /\ x = full
    BY <1>1, <1>5, <1>6 DEF Traces, Copies
  <2> QED BY <2>1, <1>3
<1>8. BoundInv' /\ UnwrittenInv'
  BY <1>1, <1>7 DEF BoundInv, UnwrittenInv, RegInv
<1>9. ASSUME NEW q \in Rows PROVE RowLatest(q)'
  <2> SUFFICES ASSUME last[q] # NoDoc
               PROVE  /\ \E db \in Stores : IsHome(db, q)'
                      /\ ~last[q].purged => Dominates(q)'
    BY <1>1 DEF RowLatest
  <2>0. RowLatest(q)
    BY DEF RegInv, LatestInv
  <2>1. PICK db \in Stores : IsHome(db, q)
    BY <2>0 DEF RowLatest
  <2>2. IsHome(db, q)'
    BY <2>1, <1>1, <1>4 DEF IsHome, Db
  <2>3. ASSUME ~last[q].purged PROVE Dominates(q)'
    <3>1. Dominates(q)
      BY <2>0, <2>3 DEF RowLatest
    <3>2. ASSUME q = r, ~IsLive(last[q]), k # "insert" PROVE full.upd <= last[q].del
      <4>1. IsLive(snap[s][Other(to)][r]) /\ snap[s][Other(to)][r] # NoDoc
        BY <1>2, <3>2 DEF Outcome, CopyKinds
      <4> QED BY <3>1, <3>2, <4>1, <1>3 DEF Dominates
    <3>3. \A x \in Services :
             (job'[x] # NoJob /\ job'[x].row = q /\ job'[x].kind # "insert"
                /\ ~IsLive(last[q])) => job'[x].full.upd <= last[q].del
      BY <1>5, <1>6, <3>1, <3>2 DEF Dominates
    <3> QED BY <1>1, <1>7, <3>1, <3>3 DEF Dominates, Db
  <2> QED BY <2>2, <2>3
<1> QED BY <1>a, <1>8, <1>9 DEF LatestInv

\* Writing it: an insert that comes too late changes nothing, and what replaces
\* a document carries no younger stamp than the latest write.
LEMMA CopyLatest ==
    ASSUME RegInv, TypeInv', NEW s \in Services, Copy(s)
    PROVE  HeldMatchesPc' /\ BoundInv' /\ UnwrittenInv' /\ LatestInv'
<1> DEFINE j  == job[s]
           r  == j.row
           st == Db(s, j.to)
           d  == store[st][r]
           e  == CopyWrite(j.kind, j.full, d)
<1>0. /\ j \in Job /\ j # NoJob /\ pc[s] = "copy" /\ j.kind = Intent(s, r, j.to)
  BY NoJobNotJob DEF Copy, RegInv, TypeInv, TypeOK, JobMatchesPc, HeldMatchesPc
<1>1. /\ r \in Rows /\ j.to \in Sides /\ st \in Stores /\ j.kind \in CopyKinds
      /\ j.full \in Doc /\ j.kind # "none" /\ j.full \in Traces(r)
  <2>1. r \in Rows /\ j.to \in Sides /\ j.kind \in CopyKinds /\ j.full \in Doc
    BY <1>0 DEF Job
  <2> QED BY <1>0, <2>1, StoreFacts, NoDocAssumption DEF CopyKinds, Traces, Copies
<1>2. /\ snap' = snap /\ clock' = clock /\ last' = last /\ clock \in Nat
      /\ pc' = [pc EXCEPT ![s] = "rows"] /\ job' = [job EXCEPT ![s] = NoJob]
      /\ \A db \in Stores, q \in Rows :
            store'[db][q] = IF db = st /\ q = r THEN e ELSE store[db][q]
  BY <1>1 DEF Copy, app, Put, RegInv, TypeInv, TypeOK
<1>3. /\ d \in Doc \cup {NoDoc}
      /\ d # NoDoc => d \in Traces(r)
  BY <1>1 DEF RegInv, TypeInv, TypeOK, Traces, Copies
<1> HIDE DEF d
<1>4. /\ e \in Doc /\ e # NoDoc
      /\ \/ e = d
         \/ e = j.full /\ j.kind = "insert" /\ d = NoDoc
         \/ /\ j.kind # "insert" /\ e.upd = j.full.upd /\ e.purged = j.full.purged
            /\ e.del \in {0, j.full.del}
  <2>1. CASE j.kind = "insert"
    BY <1>1, <1>3, <2>1, NoDocAssumption DEF CopyWrite
  <2>2. CASE j.kind = "resurrect"
    <3>1. e = [j.full EXCEPT !.del = 0]
      BY <2>2 DEF CopyWrite
    <3> QED BY <1>1, <2>2, <3>1, NoDocAssumption DEF Doc
  <2>3. CASE j.kind = "update"
    BY <1>1, <2>3, NoDocAssumption DEF CopyWrite
  <2>4. j.kind = "insert" \/ j.kind = "resurrect" \/ j.kind = "update"
    BY <1>1 DEF CopyKinds
  <2> HIDE DEF e
  <2> QED BY <2>1, <2>2, <2>3, <2>4
<1>5. last[r] \in Doc
  BY <1>0, <1>1, IntentHasSource
<1> HIDE DEF e
<1>6. \A x \in Services : job'[x] = IF x = s THEN NoJob ELSE job[x]
  BY <1>2 DEF RegInv, TypeInv, TypeOK
<1>7. \A x \in Services : pc'[x] = IF x = s THEN "rows" ELSE pc[x]
  BY <1>2 DEF RegInv, TypeInv, TypeOK
<1>8. \A x \in Services, sd \in Sides : Seen(x, sd)' <=> Seen(x, sd)
  BY <1>0, <1>7 DEF Seen
<1>9. HeldMatchesPc'
  <2>1. \A x \in Services : \A q, sd : Intent(x, q, sd)' = Intent(x, q, sd)
    BY <1>2 DEF Intent
  <2> QED BY <1>2, <1>6, <1>7, <1>8, <2>1 DEF HeldMatchesPc, RegInv
<1>10. \A q \in Rows : \A x \in Traces(q)' : x \in Traces(q) \/ (q = r /\ x = e)
  BY <1>2, <1>6 DEF Traces, Copies
<1>11. BoundInv'
  <2>1. j.full.upd <= clock /\ j.full.del <= clock /\ (d # NoDoc => d.upd <= clock /\ d.del <= clock)
    BY <1>1, <1>3 DEF RegInv, BoundInv
  <2>2. e.upd <= clock /\ e.del <= clock
    BY <2>1, <1>2, <1>4
  <2> QED BY <1>2, <1>10, <2>2 DEF BoundInv, RegInv
<1>12. UnwrittenInv'
  BY <1>2, <1>5, NoDocAssumption DEF UnwrittenInv, RegInv
<1>13. ASSUME NEW q \in Rows PROVE RowLatest(q)'
  <2> SUFFICES ASSUME last[q] # NoDoc
               PROVE  /\ \E db \in Stores : IsHome(db, q)'
                      /\ ~last[q].purged => Dominates(q)'
    BY <1>2 DEF RowLatest
  <2>0. RowLatest(q)
    BY DEF RegInv, LatestInv
  <2>1. PICK db \in Stores : IsHome(db, q)
    BY <2>0 DEF RowLatest
  <2>2. ~(db = st /\ q = r)
    BY <2>1, <1>0, <1>1, HomeIsSpared
  <2>3. IsHome(db, q)'
    BY <2>1, <2>2, <1>2, <1>8 DEF IsHome, Db
  <2>4. ASSUME ~last[q].purged PROVE Dominates(q)'
    <3>1. Dominates(q)
      BY <2>0, <2>4 DEF RowLatest
    <3>2. ASSUME q = r PROVE Beats(last[r], j.full) /\ (d # NoDoc => Beats(last[r], d))
      BY <3>1, <3>2, <1>1, <1>3 DEF Dominates
    <3>3. ASSUME q = r, ~IsLive(last[r]), j.kind # "insert" PROVE j.full.upd <= last[r].del
      BY <3>1, <3>3, <1>0 DEF Dominates
    <3>4. ASSUME q = r PROVE Beats(last[r], e)
      <4>1. CASE e = d \/ e = j.full
        BY <3>2, <3>4, <4>1, <1>4
      <4>2. CASE j.kind # "insert" /\ e.upd = j.full.upd /\ e.purged = j.full.purged
                 /\ e.del \in {0, j.full.del}
        <5>1. last[r].del \in Nat /\ last[r].upd \in Nat /\ j.full.upd \in Nat
              /\ j.full.del \in Nat
          BY <1>1, <1>5 DEF Doc
        <5> QED BY <3>2, <3>3, <3>4, <4>2, <5>1 DEF Beats, IsLive
      <4> QED BY <4>1, <4>2, <1>4
    <3>5. \A x \in Traces(q)' : Beats(last[q], x)
      BY <3>1, <3>4, <1>10 DEF Dominates
    <3>6. ASSUME NEW x \in Services, NEW sd \in Sides, ~IsLive(last[q]),
                 snap[x][sd][q] # NoDoc, IsLive(snap[x][sd][q])
          PROVE  store'[Db(x, sd)][q].upd <= last[q].del
      <4>1. store[Db(x, sd)][q] # NoDoc /\ store[Db(x, sd)][q].upd <= last[q].del
            /\ Db(x, sd) \in Stores
        BY <3>1, <3>6, StoreFacts DEF Dominates, RegInv, TypeInv, SeenStays
      <4>2. CASE ~(Db(x, sd) = st /\ q = r)
        BY <4>1, <4>2, <1>2
      <4>3. CASE Db(x, sd) = st /\ q = r
        <5>1. d # NoDoc /\ d.upd <= last[r].del /\ store'[Db(x, sd)][q] = e
          BY <4>1, <4>3, <1>1, <1>2 DEF d
        <5> QED BY <5>1, <4>3, <3>3, <3>6, <1>4
      <4> QED BY <4>2, <4>3
    <3>7. \A x \in Services : job'[x] = job[x] \/ job'[x] = NoJob
      BY <1>6
    <3> QED BY <3>1, <3>5, <3>6, <3>7, <1>2 DEF Dominates, Db
  <2> QED BY <2>3, <2>4
<1> QED BY <1>9, <1>11, <1>12, <1>13 DEF LatestInv

\* The end of a pass, in success or failure: what it held is forgotten.
LEMMA EndLatest ==
    ASSUME RegInv, TypeInv', NEW s \in Services, EndPass(s)
    PROVE  HeldMatchesPc' /\ BoundInv' /\ UnwrittenInv' /\ LatestInv'
<1>1. /\ store' = store /\ clock' = clock /\ last' = last
      /\ \A x \in Services : /\ pc'[x] = IF x = s THEN "idle" ELSE pc[x]
                             /\ snap'[x] = IF x = s THEN NoSnap ELSE snap[x]
                             /\ job'[x] = IF x = s THEN NoJob ELSE job[x]
  BY DEF EndPass, app, RegInv, TypeInv, TypeOK
<1>2. \A sd \in Sides, q \in Rows : NoSnap[sd][q] = NoDoc
  BY DEF NoSnap
<1>3. \A x \in Services, sd \in Sides, q \in Rows :
          snap'[x][sd][q] = IF x = s THEN NoDoc ELSE snap[x][sd][q]
  BY <1>1, <1>2
<1>4. \A x \in Services, sd \in Sides : Seen(x, sd)' <=> x # s /\ Seen(x, sd)
  BY <1>1 DEF Seen
<1>5. \A x \in Services : \A q, sd : x # s => Intent(x, q, sd)' = Intent(x, q, sd)
  BY <1>1 DEF Intent
<1>6. HeldMatchesPc'
  BY <1>1, <1>3, <1>4, <1>5 DEF HeldMatchesPc, RegInv
<1>7. \A q \in Rows : Traces(q)' \subseteq Traces(q)
  BY <1>1, <1>3 DEF Traces, Copies
<1>8. BoundInv' /\ UnwrittenInv'
  BY <1>1, <1>7 DEF BoundInv, UnwrittenInv, RegInv
<1>9. ASSUME NEW q \in Rows PROVE RowLatest(q)'
  <2>1. RowLatest(q)
    BY DEF RegInv, LatestInv
  <2>2. ASSUME NEW db \in Stores, IsHome(db, q) PROVE IsHome(db, q)'
    BY <2>2, <1>1, <1>3, <1>4 DEF IsHome, Db
  <2>3. ASSUME Dominates(q) PROVE Dominates(q)'
    BY <2>3, <1>1, <1>3, <1>7 DEF Dominates, Db
  <2> QED BY <2>1, <2>2, <2>3, <1>1 DEF RowLatest
<1> QED BY <1>6, <1>8, <1>9 DEF LatestInv

-----------------------------------------------------------------------------
\* RegInv is inductive when users keep away from passes.
LEMMA RegInvHolds ==
    ASSUME Quiet
    PROVE  Spec => []RegInv
<1>1. Init => RegInv
  <2> SUFFICES ASSUME Init PROVE RegInv
    OBVIOUS
  <2>1. TypeInv
    BY InitType
  <2>2. /\ \A s \in Services, sd \in Sides, r \in Rows : snap[s][sd][r] = NoDoc
        /\ \A s \in Services : job[s] = NoJob /\ pc[s] = "idle"
        /\ \A st \in Stores, r \in Rows : store[st][r] = NoDoc
        /\ \A r \in Rows : last[r] = NoDoc
        /\ clock = 0
    BY DEF Init, NoSnap
  <2>3. \A r \in Rows : Traces(r) = {}
    BY <2>2 DEF Traces, Copies
  <2> QED BY <2>1, <2>2, <2>3, BoundsAssumption
          DEF RegInv, HeldMatchesPc, BoundInv, UnwrittenInv, LatestInv, RowLatest
<1>2. RegInv /\ [Next]_vars => RegInv'
  <2> SUFFICES ASSUME RegInv, [Next]_vars PROVE RegInv'
    OBVIOUS
  <2>0. TypeInv'
    BY AppType, PassType, StutterType DEF Next, SyncNext, RegInv
  <2>1. CASE AppNext
    BY <2>0, <2>1, AppLatest DEF RegInv
  <2>2. ASSUME NEW s \in Services, PassStep(s) \/ PassFails(s) PROVE RegInv'
    <3>1. CASE StartPass(s) \/ RemoteZombies(s)
      <4>1. \/ RepairZombies(s, "local", "idle", "zombies")
            \/ RepairZombies(s, "remote", "zombies", "readLocal")
        BY <3>1 DEF StartPass, RemoteZombies
      <4>2. "local" \in Sides /\ "remote" \in Sides
        BY DEF Sides
      <4>3. HeldMatchesPc' /\ BoundInv' /\ UnwrittenInv' /\ LatestInv'
        BY <4>1, <4>2, <2>0, ZombiesLatest
      <4> QED BY <4>3, <2>0 DEF RegInv
    <3>2. CASE ReadLocal(s) \/ ReadRemote(s)
      BY <3>2, <2>0, ReadLatest DEF ReadLocal, ReadRemote, RegInv, Sides
    <3>3. CASE \E r \in Rows, to \in Sides : WriteFlags(s, r, to)
      BY <3>3, <2>0, FlagsLatest DEF RegInv
    <3>4. CASE \E r \in Rows, to \in Sides : Hydrate(s, r, to)
      BY <3>4, <2>0, HydrateLatest DEF RegInv
    <3>5. CASE Copy(s)
      BY <3>5, <2>0, CopyLatest DEF RegInv
    <3>6. CASE FinishPass(s) \/ PassFails(s)
      BY <3>6, <2>0, EndLatest DEF FinishPass, PassFails, RegInv
    <3> QED BY <2>2, <3>1, <3>2, <3>3, <3>4, <3>5, <3>6 DEF PassStep
  <2>3. CASE UNCHANGED vars
    <3>1. UNCHANGED <<store, clock, pc, snap, job, last>>
      BY <2>3 DEF vars
    <3>2. \A r \in Rows : Traces(r)' = Traces(r)
      BY <3>1 DEF Traces, Copies
    <3>3. HeldMatchesPc'
      BY <3>1 DEF RegInv, HeldMatchesPc, Seen, Intent
    <3>4. BoundInv' /\ UnwrittenInv'
      BY <3>1, <3>2 DEF RegInv, BoundInv, UnwrittenInv
    <3>5. \A st \in Stores, r \in Rows : IsHome(st, r)' <=> IsHome(st, r)
      BY <3>1 DEF IsHome, Seen, Db
    <3>6. \A r \in Rows : Dominates(r)' <=> Dominates(r)
      BY <3>1, <3>2 DEF Dominates, Db
    <3>7. LatestInv'
      BY <3>1, <3>5, <3>6 DEF RegInv, LatestInv, RowLatest
    <3> QED BY <2>0, <3>3, <3>4, <3>7 DEF RegInv
  <2> QED BY <2>1, <2>2, <2>3 DEF Next, SyncNext
<1> QED BY <1>1, <1>2, PTL DEF Spec

\* When users keep away from passes, no interleaving of passes, whole or
\* aborted, replaces the latest write of a row in every database.
THEOREM LastWriteWins ==
    ASSUME Quiet
    PROVE  Spec => []LatestWriteSurvives
<1>1. RegInv => LatestWriteSurvives
  <2> SUFFICES ASSUME RegInv, NEW r \in Rows, last[r] # NoDoc
               PROVE  \E st \in Stores : store[st][r] # NoDoc /\ store[st][r].upd >= last[r].upd
    BY DEF LatestWriteSurvives
  <2>1. PICK st \in Stores : IsHome(st, r)
    BY DEF RegInv, LatestInv, RowLatest
  <2>2. last[r] \in Doc
    BY DEF RegInv, TypeInv, TypeOK
  <2> QED BY <2>1, <2>2 DEF IsHome, Doc
<1> QED BY <1>1, RegInvHolds, PTL

\* Nor does any of them undo a delete for ever.
THEOREM PurgeIsForGood ==
    ASSUME Quiet
    PROVE  Spec => []PurgeSurvives
<1>1. RegInv => PurgeSurvives
  BY DEF RegInv, LatestInv, RowLatest, IsHome, PurgeSurvives
<1> QED BY <1>1, RegInvHolds, PTL

-----------------------------------------------------------------------------
(* The refinement.                                                         *)

RegValue == [r \in Rows |-> View(last[r])]
RegShown == [st \in Stores |-> [r \in Rows |-> View(store[st][r])]]
RegHeld  == [r \in Rows |-> (UNION {HeldBy(s, r) : s \in Services}) \ {View(NoDoc)}]

\* Of a slim read as much is to be seen as of the document.
LEMMA ViewOfSlim ==
    ASSUME NEW d \in Doc \cup {NoDoc}
    PROVE  View(SlimOf(d)) = View(d)
<1>1. CASE d = NoDoc
  BY <1>1 DEF SlimOf
<1>2. CASE d # NoDoc
  <2>1. SlimOf(d) = [upd |-> d.upd, del |-> d.del, purged |-> d.purged]
    BY <1>2 DEF SlimOf
  <2>2. SlimOf(d) \in Slim
    BY <2>1, <1>2 DEF Slim, Doc
  <2>3. SlimOf(d) # NoDoc /\ SlimOf(d).upd = d.upd /\ SlimOf(d).del = d.del
        /\ SlimOf(d).purged = d.purged
    BY <2>1, <2>2, NoDocAssumption
  <2> QED BY <1>2, <2>3 DEF View, IsLive
<1> QED BY <1>1, <1>2

\* What is held of a row, by its two kinds.
JobView(j) == View(CopyWrite(j.kind, j.full, j.full))

HeldAre(r) ==
    \A v : v \in RegHeld[r] <=>
             /\ v # View(NoDoc)
             /\ \E s \in Services : \/ \E side \in Sides : v = View(snap[s][side][r])
                                    \/ job[s].row = r /\ v = JobView(job[s])

LEMMA WhatIsHeld ==
    ASSUME NEW r \in Rows
    PROVE  HeldAre(r) /\ HeldAre(r)'
<1>1. \A s \in Services : \A v : v \in HeldBy(s, r) <=>
          \/ \E side \in Sides : v = View(snap[s][side][r])
          \/ job[s].row = r /\ v = JobView(job[s])
  BY DEF HeldBy, JobView
<1>2. \A s \in Services : \A v : v \in HeldBy(s, r)' <=>
          \/ \E side \in Sides : v = View(snap'[s][side][r])
          \/ job'[s].row = r /\ v = JobView(job'[s])
  BY DEF HeldBy, JobView
<1>3. RegHeld[r] = (UNION {HeldBy(s, r) : s \in Services}) \ {View(NoDoc)}
  BY DEF RegHeld
<1>4. RegHeld'[r] = (UNION {HeldBy(s, r)' : s \in Services}) \ {View(NoDoc)}
  BY DEF RegHeld
<1>5. \A v : v \in RegHeld[r] <=> v # View(NoDoc) /\ \E s \in Services : v \in HeldBy(s, r)
  BY <1>3
<1>6. \A v : v \in RegHeld'[r] <=>
          v # View(NoDoc) /\ \E s \in Services : v \in HeldBy(s, r)'
  BY <1>4
<1>7. HeldAre(r)
  BY <1>1, <1>5, Zenon DEF HeldAre
<1>8. HeldAre(r)'
  BY <1>2, <1>6, Zenon DEF HeldAre
<1> QED BY <1>7, <1>8

\* The latest write is shown at its home.
StillShown == \A r \in Rows : \E st \in Stores : RegShown[st][r] = RegValue[r]

LEMMA LatestIsShown ==
    RegInv => StillShown
<1> SUFFICES ASSUME RegInv, NEW r \in Rows
             PROVE  \E st \in Stores : RegShown[st][r] = RegValue[r]
  BY DEF StillShown
<1>1. CASE last[r] = NoDoc
  BY <1>1 DEF RegInv, UnwrittenInv, RegShown, RegValue, Stores
<1>2. CASE last[r] # NoDoc
  <2>1. PICK st \in Stores : IsHome(st, r)
    BY <1>2 DEF RegInv, LatestInv, RowLatest
  <2>2. View(store[st][r]) = View(last[r])
    BY <2>1, <1>2 DEF IsHome, View
  <2> QED BY <2>1, <2>2 DEF RegShown, RegValue
<1> QED BY <1>1, <1>2

\* What is shown of a document with a timestamp in use is a value.
LEMMA ViewIsValue ==
    ASSUME NEW d \in Doc \cup {NoDoc}, d # NoDoc => d.upd <= MaxTime
    PROVE  /\ View(d) \in Reg!Value
           /\ View(d).state = "none" <=> d = NoDoc
           /\ View(d).state = "purged" <=> d # NoDoc /\ d.purged
           /\ View(d).state = "live" <=> d # NoDoc /\ ~d.purged /\ IsLive(d)
           /\ View(d).stamp = IF View(d).state = "live" THEN d.upd ELSE 0
<1>1. CASE d = NoDoc
  BY <1>1 DEF View, Reg!Value
<1>2. CASE d # NoDoc
  <2>1. d.upd \in (1..MaxTime) \cup {0}
    BY <1>2, BoundsAssumption DEF Doc
  <2> QED BY <1>2, <2>1 DEF View, Reg!Value
<1> QED BY <1>1, <1>2

\* The steps of the register, in terms of the mapping.
LEMMA RegReads ==
    ASSUME RegValue' = RegValue, RegShown' = RegShown,
           \A r \in Rows : \A v \in RegHeld'[r] :
               \/ v \in RegHeld[r]
               \/ \E st \in Stores : v = RegShown[st][r]
               \/ /\ v \in Reg!Value /\ v.state = "live"
                  /\ \E st \in Stores : RegShown[st][r].state = "trashed"
    PROVE  Reg!Next
<1>1. \A r \in Rows :
          RegHeld'[r] \subseteq RegHeld[r] \cup {RegShown[st][r] : st \in Stores} \cup Reg!Lifted(r)
  BY DEF Reg!Lifted, RegShown
<1>2. Reg!Read
  BY <1>1 DEF Reg!Read, RegValue, RegShown, RegHeld
<1> QED BY <1>2 DEF Reg!Next

LEMMA RegCarries ==
    ASSUME NEW to \in Stores, NEW r \in Rows, NEW v \in RegHeld[r],
           RegValue' = RegValue, RegShown' = [RegShown EXCEPT ![to][r] = v],
           \E st \in Stores : RegShown'[st][r] = RegValue'[r],
           \A q \in Rows : RegHeld'[q] \subseteq RegHeld[q]
    PROVE  Reg!Next
<1>1. Reg!Forget
  BY DEF Reg!Forget, RegHeld
<1>2. \E st \in Stores : RegShown'[st][r] = RegValue[r]
  OBVIOUS
<1>3. Reg!Carry(to, r, v)
  BY <1>1, <1>2 DEF Reg!Carry, RegValue, RegShown, RegHeld
<1> QED BY <1>3 DEF Reg!Next, RegHeld

LEMMA RegWrites ==
    ASSUME NEW st \in Stores, NEW r \in Rows, NEW v \in Reg!Value,
           v.state # "none", RegShown[st][r].state = "purged" => v.state = "purged",
           v.state = "live" => v.stamp > RegValue[r].stamp /\ v.stamp > RegShown[st][r].stamp,
           RegShown' = [RegShown EXCEPT ![st][r] = v],
           RegValue' = [RegValue EXCEPT ![r] =
                           IF RegValue[r].state = "purged" THEN RegValue[r] ELSE v],
           RegHeld' = RegHeld
    PROVE  Reg!Next
<1>1. Reg!Write(st, r, v)
  BY DEF Reg!Write, RegValue, RegShown, RegHeld
<1> QED BY <1>1 DEF Reg!Next

\* Nothing shown changes where documents keep their views, nothing held where
\* no service reads or forgets.
LEMMA ShownFollowsStore ==
    ASSUME TypeInv, NEW st \in Stores, NEW r \in Rows, NEW d,
           \A db \in Stores, q \in Rows :
               store'[db][q] = IF db = st /\ q = r THEN d ELSE store[db][q]
    PROVE  /\ RegShown' = [RegShown EXCEPT ![st][r] = View(d)]
           /\ View(d) = View(store[st][r]) => RegShown' = RegShown
<1>1. ASSUME NEW db \in Stores
      PROVE  RegShown'[db] = IF db = st THEN [RegShown[st] EXCEPT ![r] = View(d)]
                                        ELSE RegShown[db]
  BY DEF RegShown
<1>2. /\ RegShown[st][r] = View(store[st][r])
      /\ RegShown' = [db \in Stores |-> RegShown'[db]]
      /\ RegShown = [db \in Stores |-> RegShown[db]]
      /\ RegShown[st] = [q \in Rows |-> RegShown[st][q]]
  BY DEF RegShown
<1> HIDE DEF View, RegShown
<1>3. RegShown' = [RegShown EXCEPT ![st][r] = View(d)]
  BY <1>1, <1>2
<1>4. ASSUME View(d) = View(store[st][r]) PROVE RegShown' = RegShown
  <2>1. [RegShown[st] EXCEPT ![r] = View(d)] = RegShown[st]
    BY <1>2, <1>4
  <2> QED BY <1>1, <1>2, <2>1
<1> QED BY <1>3, <1>4

LEMMA HeldOnlyShrinks ==
    ASSUME \A s \in Services, side \in Sides, r \in Rows :
               snap'[s][side][r] = snap[s][side][r] \/ snap'[s][side][r] = NoDoc,
           \A s \in Services : job'[s] = job[s] \/ job'[s] = NoJob
    PROVE  \A r \in Rows : RegHeld'[r] \subseteq RegHeld[r]
<1> SUFFICES ASSUME NEW r \in Rows, NEW v, v \in RegHeld'[r] PROVE v \in RegHeld[r]
  OBVIOUS
<1>1. /\ v # View(NoDoc)
      /\ \E s \in Services : \/ \E side \in Sides : v = View(snap'[s][side][r])
                             \/ job'[s].row = r /\ v = JobView(job'[s])
  BY WhatIsHeld DEF HeldAre
<1>2. JobView(NoJob) = View(NoDoc)
  BY DEF JobView, NoJob, CopyWrite
<1>3. \E s \in Services : \/ \E side \in Sides : v = View(snap[s][side][r])
                          \/ job[s].row = r /\ v = JobView(job[s])
  BY <1>1, <1>2
<1> QED BY <1>1, <1>3, WhatIsHeld DEF HeldAre

\* A user's write is a write of the register.
LEMMA AppWriteIsWrite ==
    ASSUME RegInv, RegInv', NEW st \in Stores, NEW r \in Rows, NEW d \in Doc,
           AppWrite(st, r, d),
           (store[st][r] # NoDoc /\ store[st][r].purged) => d.purged,
           d.upd \in {clock, clock + 1}, IsLive(d) => d.upd = clock + 1
    PROVE  Reg!Next
<1>1. /\ \A db \in Stores, q \in Rows :
            store'[db][q] = IF db = st /\ q = r THEN d ELSE store[db][q]
      /\ last' = [last EXCEPT ![r] =
                     IF last[r] # NoDoc /\ last[r].purged THEN last[r] ELSE d]
      /\ clock' = d.upd /\ snap' = snap /\ job' = job
      /\ clock \in Nat /\ MaxTime \in Nat
  BY BoundsAssumption DEF AppWrite, RegInv, TypeInv, TypeOK, Put, Remember
<1>2. d # NoDoc /\ d.upd <= MaxTime /\ clock <= MaxTime
  BY <1>1, NoDocAssumption DEF RegInv, BoundInv
<1>3. /\ store[st][r] \in Doc \cup {NoDoc} /\ last[r] \in Doc \cup {NoDoc}
      /\ store[st][r] # NoDoc => store[st][r].upd <= clock
  BY DEF RegInv, TypeInv, TypeOK, BoundInv, Traces, Copies
<1>4. last[r] # NoDoc => last[r].upd <= clock
  <2> SUFFICES ASSUME last[r] # NoDoc PROVE last[r].upd <= clock
    OBVIOUS
  <2>1. PICK db \in Stores : IsHome(db, r)
    BY DEF RegInv, LatestInv, RowLatest
  <2>2. store[db][r] # NoDoc /\ store[db][r].upd >= last[r].upd
    BY <2>1, <1>3 DEF IsHome, Doc
  <2>3. store[db][r].upd <= clock /\ store[db][r] \in Doc
    BY <2>2 DEF RegInv, TypeInv, TypeOK, BoundInv, Traces, Copies
  <2> QED BY <2>2, <2>3, <1>1, <1>3 DEF Doc
<1>5. /\ View(d) \in Reg!Value /\ View(d).state # "none"
      /\ View(d).state = "purged" <=> d.purged
      /\ View(d).state = "live" => IsLive(d) /\ View(d).stamp = d.upd
  BY <1>2, ViewIsValue
<1>6. /\ RegShown[st][r].state = "purged" <=> store[st][r] # NoDoc /\ store[st][r].purged
      /\ RegShown[st][r].stamp <= clock /\ RegShown[st][r].stamp \in Nat
  <2>1. store[st][r] # NoDoc => store[st][r].upd <= MaxTime /\ store[st][r].upd \in Nat
    BY <1>1, <1>2, <1>3 DEF Doc
  <2>2. /\ View(store[st][r]).state = "purged" <=> store[st][r] # NoDoc /\ store[st][r].purged
        /\ View(store[st][r]).stamp = IF View(store[st][r]).state = "live"
                                      THEN store[st][r].upd ELSE 0
        /\ View(store[st][r]).state = "live" => store[st][r] # NoDoc
    BY <1>3, <2>1, ViewIsValue
  <2>3. RegShown[st][r] = View(store[st][r])
    BY DEF RegShown
  <2> QED BY <2>1, <2>2, <2>3, <1>1, <1>3
<1>7. /\ RegValue[r].state = "purged" <=> last[r] # NoDoc /\ last[r].purged
      /\ RegValue[r].stamp <= clock /\ RegValue[r].stamp \in Nat
  <2>1. last[r] # NoDoc => last[r].upd <= MaxTime /\ last[r].upd \in Nat
    BY <1>1, <1>2, <1>3, <1>4 DEF Doc
  <2>2. /\ View(last[r]).state = "purged" <=> last[r] # NoDoc /\ last[r].purged
        /\ View(last[r]).stamp = IF View(last[r]).state = "live" THEN last[r].upd ELSE 0
        /\ View(last[r]).state = "live" => last[r] # NoDoc
    BY <1>3, <2>1, ViewIsValue
  <2>3. RegValue[r] = View(last[r])
    BY DEF RegValue
  <2> QED BY <2>1, <2>2, <2>3, <1>1, <1>4
<1>8. RegShown' = [RegShown EXCEPT ![st][r] = View(d)]
  <2>1. TypeInv
    BY DEF RegInv
  <2> QED BY <1>1, <2>1, ShownFollowsStore
<1>9. RegValue' = [RegValue EXCEPT ![r] =
                      IF RegValue[r].state = "purged" THEN RegValue[r] ELSE View(d)]
  <2>1. \A q \in Rows : RegValue'[q] = IF q = r /\ ~(last[r] # NoDoc /\ last[r].purged)
                                     THEN View(d) ELSE RegValue[q]
    BY <1>1 DEF RegValue, RegInv, TypeInv, TypeOK
  <2>2. /\ RegValue' = [q \in Rows |-> RegValue'[q]]
        /\ RegValue = [q \in Rows |-> RegValue[q]]
    BY DEF RegValue
  <2> QED BY <2>1, <2>2, <1>7
<1>10. RegHeld' = RegHeld
  BY <1>1 DEF RegHeld, HeldBy
<1>11. View(d).state = "live" =>
          View(d).stamp > RegValue[r].stamp /\ View(d).stamp > RegShown[st][r].stamp
  BY <1>1, <1>5, <1>6, <1>7
<1>12. RegShown[st][r].state = "purged" => View(d).state = "purged"
  BY <1>5, <1>6
<1> HIDE DEF View, RegShown, RegValue, RegHeld
<1> QED BY <1>5, <1>8, <1>9, <1>10, <1>11, <1>12, RegWrites

\* So the users' steps are steps of the register.
LEMMA AppImplements ==
    ASSUME RegInv, RegInv', AppNext
    PROVE  Reg!Next \/ UNCHANGED <<RegValue, RegShown, RegHeld>>
<1>0. /\ clock \in Nat /\ clock + 1 \in Nat
      /\ \A st \in Stores, r \in Rows : store[st][r] # NoDoc => store[st][r] \in Doc
  BY DEF RegInv, TypeInv, TypeOK
<1>1. ASSUME NEW st \in Stores, NEW r \in Rows, AppCreate(st, r)
      PROVE  Reg!Next
  <2>1. PICK b \in SUBSET Fields :
           AppWrite(st, r, [body |-> b, upd |-> clock + 1, del |-> 0, purged |-> FALSE])
    BY <1>1 DEF AppCreate
  <2> DEFINE d == [body |-> b, upd |-> clock + 1, del |-> 0, purged |-> FALSE]
  <2>2. d \in Doc /\ d.upd = clock + 1 /\ store[st][r] = NoDoc /\ AppWrite(st, r, d)
    BY <1>0, <1>1, <2>1 DEF Doc, AppCreate
  <2> HIDE DEF d
  <2> QED BY <2>2, AppWriteIsWrite
<1>2. ASSUME NEW st \in Stores, NEW r \in Rows, AppEdit(st, r)
      PROVE  Reg!Next
  <2>1. PICK b \in SUBSET Fields :
           AppWrite(st, r, [store[st][r] EXCEPT !.body = b, !.upd = clock + 1])
    BY <1>2 DEF AppEdit
  <2> DEFINE d == [store[st][r] EXCEPT !.body = b, !.upd = clock + 1]
  <2>d. d = [store[st][r] EXCEPT !.body = b, !.upd = clock + 1] /\ AppWrite(st, r, d)
    BY <2>1
  <2> HIDE DEF d
  <2>2. store[st][r] \in Doc /\ clock + 1 \in Nat
    BY <1>0, <1>2 DEF AppEdit
  <2>3. d \in Doc /\ d.upd = clock + 1 /\ d.purged = store[st][r].purged
    BY <2>1, <2>2, <2>d DEF Doc
  <2> QED BY <2>d, <2>3, AppWriteIsWrite
<1>3. ASSUME NEW st \in Stores, NEW r \in Rows, AppDelete(st, r)
      PROVE  Reg!Next
  <2>1. PICK t \in {clock, clock + 1}, u \in {clock, clock + 1} :
           t > 0 /\ AppWrite(st, r, [store[st][r] EXCEPT !.del = t, !.upd = u])
    BY <1>3 DEF AppDelete
  <2> DEFINE d == [store[st][r] EXCEPT !.del = t, !.upd = u]
  <2>d. d = [store[st][r] EXCEPT !.del = t, !.upd = u] /\ AppWrite(st, r, d)
    BY <2>1
  <2> HIDE DEF d
  <2>2. store[st][r] \in Doc /\ t \in Nat /\ u \in Nat /\ t # 0
    BY <1>0, <1>3, <2>1 DEF AppDelete
  <2>3. d \in Doc /\ d.upd = u /\ d.del = t /\ d.purged = store[st][r].purged
    BY <2>2, <2>d DEF Doc
  <2>4. ~IsLive(d)
    BY <2>2, <2>3 DEF IsLive
  <2>5. d.upd \in {clock, clock + 1} /\ ((store[st][r] # NoDoc /\ store[st][r].purged) => d.purged)
    BY <2>1, <2>3
  <2> QED BY <2>d, <2>3, <2>4, <2>5, AppWriteIsWrite
<1>4. ASSUME NEW st \in Stores, NEW r \in Rows, NEW kind \in {"restore", "purge"},
             AppRequest(st, r, kind)
      PROVE  UNCHANGED <<RegValue, RegShown, RegHeld>>
  BY <1>4 DEF AppRequest, RegValue, RegShown, RegHeld, HeldBy
<1>5. ASSUME NEW q \in reqs, AppRestore(q)
      PROVE  Reg!Next
  <2> DEFINE d == [store[q.db][q.row] EXCEPT !.del = 0, !.upd = clock + 1]
  <2>1. q.db \in Stores /\ q.row \in Rows /\ store[q.db][q.row] \in Doc
    BY RequestedDoc DEF RegInv
  <2>d. /\ d = [store[q.db][q.row] EXCEPT !.del = 0, !.upd = clock + 1]
        /\ AppWrite(q.db, q.row, d)
    BY <1>5 DEF AppRestore
  <2> HIDE DEF d
  <2>3. d \in Doc /\ d.upd = clock + 1 /\ d.purged = store[q.db][q.row].purged
    <3>1. clock + 1 \in Nat /\ 0 \in Nat
      BY <1>0
    <3> QED BY <2>1, <2>d, <3>1 DEF Doc
  <2> QED BY <2>1, <2>d, <2>3, AppWriteIsWrite
<1>6. ASSUME NEW q \in reqs, AppPurge(q)
      PROVE  Reg!Next
  <2> DEFINE d == [store[q.db][q.row] EXCEPT !.del = clock + 1, !.upd = clock + 1,
                                             !.purged = TRUE]
  <2>1. q.db \in Stores /\ q.row \in Rows /\ store[q.db][q.row] \in Doc
    BY RequestedDoc DEF RegInv
  <2>d. /\ d = [store[q.db][q.row] EXCEPT !.del = clock + 1, !.upd = clock + 1,
                                          !.purged = TRUE]
        /\ AppWrite(q.db, q.row, d)
    BY <1>5, <1>6 DEF AppPurge
  <2> HIDE DEF d
  <2>3. d \in Doc /\ d.upd = clock + 1 /\ d.purged
    <3>1. clock + 1 \in Nat
      BY <1>0
    <3> QED BY <2>1, <2>d, <3>1 DEF Doc
  <2> QED BY <2>1, <2>d, <2>3, AppWriteIsWrite
<1> QED BY <1>1, <1>2, <1>3, <1>4, <1>5, <1>6 DEF AppNext

\* The repair of zombies is invisible.
LEMMA ZombiesImplement ==
    ASSUME RegInv, NEW s \in Services, NEW side \in Sides, NEW from, NEW to,
           RepairZombies(s, side, from, to)
    PROVE  UNCHANGED <<RegValue, RegShown, RegHeld>>
<1>1. /\ last' = last /\ snap' = snap /\ job' = job
      /\ \A db \in Stores, q \in Rows :
            store'[db][q] \in {store[db][q], Retombstone(store[db][q])}
  BY DEF RepairZombies, app, RegInv, TypeInv, TypeOK
<1>2. \A db \in Stores, q \in Rows : View(Retombstone(store[db][q])) = View(store[db][q])
  <2> SUFFICES ASSUME NEW db \in Stores, NEW q \in Rows
               PROVE  View(Retombstone(store[db][q])) = View(store[db][q])
    OBVIOUS
  <2> DEFINE d == store[db][q]
             e == Retombstone(d)
  <2>1. CASE e = d
    BY <2>1
  <2>2. CASE e # d
    <3>1. d # NoDoc /\ d.purged /\ e = [d EXCEPT !.del = clock]
      BY <2>2 DEF Retombstone
    <3>2. d \in Doc /\ clock \in Nat
      BY <3>1 DEF RegInv, TypeInv, TypeOK
    <3> HIDE DEF d, e
    <3>3. e.purged /\ e # NoDoc
      <4>1. e \in Doc /\ e.purged = d.purged
        BY <3>1, <3>2 DEF Doc
      <4> QED BY <3>1, <4>1, NoDocAssumption
    <3>4. View(e) = View(d)
      BY <3>1, <3>3 DEF View
    <3> QED BY <3>4 DEF d, e
  <2> QED BY <2>1, <2>2
<1>3. RegShown' = RegShown
  BY <1>1, <1>2 DEF RegShown
<1>4. RegValue' = RegValue /\ RegHeld' = RegHeld
  BY <1>1 DEF RegValue, RegHeld, HeldBy
<1> QED BY <1>3, <1>4

\* What a slim read returns is shown.
LEMMA SlimReadImplements ==
    ASSUME RegInv, NEW s \in Services, NEW side \in Sides, NEW from, NEW to,
           SlimRead(s, side, from, to)
    PROVE  Reg!Next
<1>1. /\ store' = store /\ job' = job /\ last' = last
      /\ \A x \in Services, sd \in Sides, q \in Rows :
            snap'[x][sd][q] = IF x = s /\ sd = side THEN SlimOf(store[Db(s, side)][q])
                              ELSE snap[x][sd][q]
  BY DEF SlimRead, app, RegInv, TypeInv, TypeOK
<1>2. RegValue' = RegValue /\ RegShown' = RegShown
  BY <1>1 DEF RegValue, RegShown
<1>3. ASSUME NEW r \in Rows, NEW v \in RegHeld'[r]
      PROVE  v \in RegHeld[r] \/ \E st \in Stores : v = RegShown[st][r]
  <2>1. /\ v # View(NoDoc)
        /\ \E x \in Services : \/ \E sd \in Sides : v = View(snap'[x][sd][r])
                               \/ job[x].row = r /\ v = JobView(job[x])
    BY <1>1, WhatIsHeld DEF HeldAre
  <2>2. Db(s, side) \in Stores /\ store[Db(s, side)][r] \in Doc \cup {NoDoc}
    BY StoreFacts DEF RegInv, TypeInv, TypeOK
  <2>3. View(SlimOf(store[Db(s, side)][r])) = RegShown[Db(s, side)][r]
    BY <2>2, ViewOfSlim DEF RegShown
  <2>4. \/ v = View(SlimOf(store[Db(s, side)][r]))
        \/ \E x \in Services : \/ \E sd \in Sides : v = View(snap[x][sd][r])
                               \/ job[x].row = r /\ v = JobView(job[x])
    BY <2>1, <1>1
  <2> QED BY <2>1, <2>2, <2>3, <2>4, WhatIsHeld DEF HeldAre
<1> QED BY <1>2, <1>3, RegReads

\* A flag that is carried over is what the source showed.
LEMMA FlagsImplement ==
    ASSUME RegInv, RegInv', NEW s \in Services, NEW r \in Rows, NEW to \in Sides,
           WriteFlags(s, r, to)
    PROVE  Reg!Next
<1> DEFINE st == Db(s, to)
           a  == snap[s][Other(to)][r]
           d  == store[st][r]
           k  == Intent(s, r, to)
           e  == FlagWrite(k, a, d)
<1>0. st \in Stores /\ Other(to) \in Sides /\ clock \in Nat
      /\ k \in FlagKinds /\ k # "none" /\ k = Outcome(a, snap[s][to][r])
  BY StoreFacts DEF RegInv, TypeInv, TypeOK, WriteFlags, FlagKinds, Intent
<1>1. /\ snap' = snap /\ job' = job /\ last' = last
      /\ \A db \in Stores, q \in Rows :
            store'[db][q] = IF db = st /\ q = r THEN e ELSE store[db][q]
  BY <1>0 DEF WriteFlags, app, Put, RegInv, TypeInv, TypeOK
<1>2. a \in Slim /\ a # NoDoc
  BY <1>0, IntentHasSource, NoDocAssumption
<1>3. d \in Doc /\ d # NoDoc
  <2>1. snap[s][to][r] # NoDoc
    BY <1>0, FlagHasBoth
  <2>2. d # NoDoc
    BY <1>0, <2>1 DEF RegInv, TypeInv, SeenStays
  <2> QED BY <1>0, <2>2 DEF RegInv, TypeInv, TypeOK
<1>4. \/ a.purged /\ e.purged /\ e # NoDoc
      \/ ~a.purged /\ a.del # 0 /\ e # NoDoc /\ e.del = a.del /\ e.purged = d.purged
  <2>1. k = "purge" => a.purged
    BY <1>0 DEF Outcome
  <2>2. k = "delete" => a.del # 0 /\ ~a.purged
    BY <1>0, <1>2, FlagHasBoth DEF Outcome, IsLive
  <2>3. a.del \in Nat /\ a.purged \in BOOLEAN
    BY <1>2 DEF Slim
  <2>4. CASE k = "purge"
    <3>1. e = [d EXCEPT !.purged = TRUE, !.del = IF a.del # 0 THEN a.del ELSE clock]
      BY <2>4 DEF FlagWrite
    <3> QED BY <1>0, <1>3, <2>1, <2>3, <2>4, <3>1, NoDocAssumption DEF Doc
  <2>5. CASE k = "delete"
    <3>1. e = [d EXCEPT !.del = a.del]
      BY <2>5 DEF FlagWrite
    <3> QED BY <1>0, <1>3, <2>2, <2>3, <2>5, <3>1, NoDocAssumption DEF Doc
  <2> QED BY <1>0, <2>4, <2>5 DEF FlagKinds
<1> HIDE DEF e
<1>5. RegValue' = RegValue /\ RegHeld' = RegHeld
  BY <1>1 DEF RegValue, RegHeld, HeldBy
<1>6. /\ RegShown' = [RegShown EXCEPT ![st][r] = View(e)]
      /\ View(e) = View(d) => RegShown' = RegShown
  <2>1. TypeInv
    BY DEF RegInv
  <2> QED BY <1>0, <1>1, <2>1, ShownFollowsStore
<1>7. CASE View(e) = View(a)
  <2>1. View(a) # View(NoDoc)
    BY <1>2 DEF View
  <2>2. View(a) \in RegHeld[r]
    BY <1>0, <2>1, WhatIsHeld DEF HeldAre
  <2>3. RegShown' = [RegShown EXCEPT ![st][r] = View(a)]
    BY <1>6, <1>7
  <2>4. \E db \in Stores : RegShown'[db][r] = RegValue'[r]
    <3>1. RegInv' => StillShown'
      BY LatestIsShown, PTL
    <3> QED BY <3>1 DEF StillShown
  <2>5. \A q \in Rows : RegHeld'[q] \subseteq RegHeld[q]
    BY <1>5
  <2> HIDE DEF st, a
  <2> QED BY <1>0, <1>5, <2>2, <2>3, <2>4, <2>5, RegCarries
<1>8. CASE View(e) = View(d)
  BY <1>5, <1>6, <1>8, RegReads
<1>9. View(e) = View(a) \/ View(e) = View(d)
  BY <1>2, <1>3, <1>4 DEF View, IsLive
<1> QED BY <1>7, <1>8, <1>9

\* A hydrated document is shown by its database, or about to be lifted there.
LEMMA HydrateImplements ==
    ASSUME RegInv, NEW s \in Services, NEW r \in Rows, NEW to \in Sides,
           Hydrate(s, r, to)
    PROVE  Reg!Next
<1> DEFINE st   == Db(s, Other(to))
           full == store[st][r]
           k    == Intent(s, r, to)
           j    == [row |-> r, to |-> to, kind |-> k, full |-> full]
<1>1. /\ store' = store /\ snap' = snap /\ last' = last /\ k \in CopyKinds
      /\ \A x \in Services : job'[x] = IF x = s THEN j ELSE job[x]
  BY DEF Hydrate, app, RegInv, TypeInv, TypeOK
<1>2. k # "none"
  BY <1>1 DEF CopyKinds
<1>3. full \in Doc /\ full # NoDoc /\ st \in Stores /\ full.upd <= MaxTime
  <2>1. full \in Doc /\ full \in Traces(r)
    BY <1>2, IntentHasSource
  <2>2. full.upd <= clock /\ clock <= MaxTime /\ clock \in Nat /\ MaxTime \in Nat
    BY <2>1, BoundsAssumption DEF RegInv, BoundInv, TypeInv, TypeOK
  <2>3. st \in Stores
    BY StoreFacts
  <2> QED BY <2>1, <2>2, <2>3, NoDocAssumption DEF Doc
<1>4. j.row = r /\ j.kind = k /\ j.full = full
  OBVIOUS
<1>5. RegValue' = RegValue /\ RegShown' = RegShown /\ RegShown[st][r] = View(full)
  BY <1>1, <1>3 DEF RegValue, RegShown
<1> HIDE DEF j, st, full, k
<1>6. \/ JobView(j) = View(full)
      \/ /\ JobView(j) \in Reg!Value /\ JobView(j).state = "live"
         /\ View(full).state = "trashed"
  <2>1. CASE k = "insert" \/ k = "update"
    BY <1>3, <1>4, <2>1 DEF JobView, CopyWrite
  <2>2. CASE k = "resurrect"
    <3> DEFINE e == [full EXCEPT !.del = 0]
    <3>1. JobView(j) = View(e)
      BY <1>4, <2>2 DEF JobView, CopyWrite
    <3>2. /\ e \in Doc /\ e.del = 0 /\ e.upd = full.upd /\ e.purged = full.purged
      BY <1>3 DEF Doc
    <3> HIDE DEF e
    <3>3. e # NoDoc
      BY <3>2, NoDocAssumption
    <3>4. /\ View(e) \in Reg!Value
          /\ View(e).state = "live" <=> ~e.purged /\ IsLive(e)
      BY <1>3, <3>2, <3>3, ViewIsValue
    <3>5. CASE full.purged
      BY <1>3, <3>1, <3>2, <3>3, <3>5 DEF View
    <3>6. CASE ~full.purged /\ IsLive(full)
      BY <1>3, <3>1, <3>2, <3>3, <3>6 DEF View, IsLive
    <3>7. CASE ~full.purged /\ ~IsLive(full)
      <4>1. View(full).state = "trashed"
        BY <1>3, <3>7 DEF View
      <4>2. View(e).state = "live"
        BY <3>2, <3>4, <3>7 DEF IsLive
      <4> QED BY <3>1, <3>4, <4>1, <4>2
    <3> QED BY <3>5, <3>6, <3>7
  <2> QED BY <1>1, <2>1, <2>2 DEF CopyKinds
<1>7. ASSUME NEW q \in Rows, NEW v \in RegHeld'[q]
      PROVE  \/ v \in RegHeld[q]
             \/ q = r /\ v = JobView(j)
  <2>1. /\ v # View(NoDoc)
        /\ \E x \in Services : \/ \E sd \in Sides : v = View(snap[x][sd][q])
                               \/ job'[x].row = q /\ v = JobView(job'[x])
    BY <1>1, WhatIsHeld DEF HeldAre
  <2>2. \/ q = r /\ v = JobView(j)
        \/ \E x \in Services : \/ \E sd \in Sides : v = View(snap[x][sd][q])
                               \/ job[x].row = q /\ v = JobView(job[x])
    BY <2>1, <1>1, <1>4
  <2> QED BY <2>1, <2>2, WhatIsHeld DEF HeldAre
<1>8. \A q \in Rows : \A v \in RegHeld'[q] :
          \/ v \in RegHeld[q]
          \/ \E db \in Stores : v = RegShown[db][q]
          \/ /\ v \in Reg!Value /\ v.state = "live"
             /\ \E db \in Stores : RegShown[db][q].state = "trashed"
  BY <1>3, <1>5, <1>6, <1>7
<1> QED BY <1>5, <1>8, RegReads

\* Copying carries what is held; an insert that comes too late does nothing.
LEMMA CopyImplements ==
    ASSUME RegInv, RegInv', NEW s \in Services, Copy(s)
    PROVE  Reg!Next
<1> DEFINE j  == job[s]
           r  == j.row
           st == Db(s, j.to)
           d  == store[st][r]
           e  == CopyWrite(j.kind, j.full, d)
<1>0. j \in Job
  BY DEF Copy, RegInv, TypeInv, TypeOK, JobMatchesPc
<1>1. /\ r \in Rows /\ j.to \in Sides /\ st \in Stores /\ j.kind \in CopyKinds
      /\ j.full \in Doc
  BY <1>0, StoreFacts DEF Job
<1>2. /\ snap' = snap /\ last' = last /\ job' = [job EXCEPT ![s] = NoJob]
      /\ \A db \in Stores, q \in Rows :
            store'[db][q] = IF db = st /\ q = r THEN e ELSE store[db][q]
  BY <1>1 DEF Copy, app, Put, RegInv, TypeInv, TypeOK
<1>3. /\ View(e) = JobView(j) \/ View(e) = View(d)
      /\ JobView(j).state # "none"
  <2>1. CASE j.kind = "insert"
    BY <1>1, <2>1, NoDocAssumption DEF CopyWrite, JobView, View
  <2>2. CASE j.kind = "resurrect"
    <3>1. [j.full EXCEPT !.del = 0] \in Doc
      BY <1>1 DEF Doc
    <3>2. e = [j.full EXCEPT !.del = 0] /\ JobView(j) = View([j.full EXCEPT !.del = 0])
      BY <2>2 DEF CopyWrite, JobView
    <3> QED BY <3>1, <3>2, NoDocAssumption DEF View
  <2>3. CASE j.kind = "update"
    BY <1>1, <2>3, NoDocAssumption DEF CopyWrite, JobView, View
  <2> QED BY <1>1, <2>1, <2>2, <2>3 DEF CopyKinds
<1> HIDE DEF e
<1>4. RegValue' = RegValue
  BY <1>2 DEF RegValue
<1>5. \A q \in Rows : RegHeld'[q] \subseteq RegHeld[q]
  <2>1. \A x \in Services : job'[x] = job[x] \/ job'[x] = NoJob
    BY <1>2 DEF RegInv, TypeInv, TypeOK
  <2> QED BY <1>2, <2>1, HeldOnlyShrinks
<1>6. /\ RegShown' = [RegShown EXCEPT ![st][r] = View(e)]
      /\ View(e) = View(d) => RegShown' = RegShown
  <2>1. TypeInv
    BY DEF RegInv
  <2> HIDE DEF st, r
  <2> QED BY <1>1, <1>2, <2>1, ShownFollowsStore
<1>7. CASE View(e) = JobView(j)
  <2>1. JobView(j) # View(NoDoc)
    BY <1>3 DEF View
  <2>2. JobView(j) \in RegHeld[r]
    BY <1>1, <2>1, WhatIsHeld DEF HeldAre
  <2>3. RegShown' = [RegShown EXCEPT ![st][r] = JobView(j)]
    BY <1>6, <1>7
  <2>4. \E db \in Stores : RegShown'[db][r] = RegValue'[r]
    <3>1. RegInv' => StillShown'
      BY LatestIsShown, PTL
    <3> QED BY <1>1, <3>1 DEF StillShown
  <2> HIDE DEF st, r, j
  <2> QED BY <1>1, <1>4, <1>5, <2>2, <2>3, <2>4, RegCarries
<1>8. CASE View(e) = View(d)
  BY <1>4, <1>5, <1>6, <1>8, RegReads
<1> QED BY <1>3, <1>7, <1>8

\* A pass that ends or dies forgets what it held.
LEMMA EndImplements ==
    ASSUME RegInv, NEW s \in Services, EndPass(s)
    PROVE  Reg!Next
<1>1. /\ store' = store /\ last' = last
      /\ \A x \in Services : /\ snap'[x] = IF x = s THEN NoSnap ELSE snap[x]
                             /\ job'[x] = IF x = s THEN NoJob ELSE job[x]
  BY DEF EndPass, app, RegInv, TypeInv, TypeOK
<1>2. \A x \in Services, side \in Sides, r \in Rows :
          snap'[x][side][r] = snap[x][side][r] \/ snap'[x][side][r] = NoDoc
  BY <1>1 DEF NoSnap
<1>3. \A r \in Rows : RegHeld'[r] \subseteq RegHeld[r]
  BY <1>1, <1>2, HeldOnlyShrinks
<1>4. RegValue' = RegValue /\ RegShown' = RegShown
  BY <1>1 DEF RegValue, RegShown
<1> QED BY <1>3, <1>4, RegReads

\* Every step of SyncRows is a step of the register, or none it can see.
LEMMA StepImplements ==
    ASSUME RegInv, RegInv', [Next]_vars
    PROVE  [Reg!Next]_(Reg!vars)
<1>1. CASE AppNext
  BY <1>1, AppImplements DEF Reg!vars, RegValue, RegShown, RegHeld
<1>2. ASSUME NEW s \in Services, PassStep(s) \/ PassFails(s)
      PROVE  [Reg!Next]_(Reg!vars)
  <2>1. CASE StartPass(s) \/ RemoteZombies(s)
    <3>1. \/ RepairZombies(s, "local", "idle", "zombies")
          \/ RepairZombies(s, "remote", "zombies", "readLocal")
      BY <2>1 DEF StartPass, RemoteZombies
    <3>2. "local" \in Sides /\ "remote" \in Sides
      BY DEF Sides
    <3>3. UNCHANGED <<RegValue, RegShown, RegHeld>>
      BY <3>1, <3>2, ZombiesImplement
    <3> QED BY <3>3 DEF Reg!vars, RegValue, RegShown, RegHeld
  <2>2. CASE ReadLocal(s) \/ ReadRemote(s)
    <3>1. \/ SlimRead(s, "local", "readLocal", "readRemote")
          \/ SlimRead(s, "remote", "readRemote", "rows")
      BY <2>2 DEF ReadLocal, ReadRemote
    <3>2. "local" \in Sides /\ "remote" \in Sides
      BY DEF Sides
    <3> QED BY <3>1, <3>2, SlimReadImplements
  <2>3. CASE \E r \in Rows, to \in Sides : WriteFlags(s, r, to)
    BY <2>3, FlagsImplement
  <2>4. CASE \E r \in Rows, to \in Sides : Hydrate(s, r, to)
    BY <2>4, HydrateImplements
  <2>5. CASE Copy(s)
    BY <2>5, CopyImplements
  <2>6. CASE FinishPass(s) \/ PassFails(s)
    BY <2>6, EndImplements DEF FinishPass, PassFails
  <2> QED BY <1>2, <2>1, <2>2, <2>3, <2>4, <2>5, <2>6 DEF PassStep
<1>3. CASE UNCHANGED vars
  BY <1>3 DEF vars, Reg!vars, HeldBy
<1> QED BY <1>1, <1>2, <1>3 DEF Next, SyncNext

LEMMA InitImplements ==
    ASSUME Init PROVE Reg!Init
<1>1. /\ \A s \in Services, sd \in Sides, r \in Rows : snap[s][sd][r] = NoDoc
      /\ \A s \in Services : job[s] = NoJob
      /\ \A st \in Stores, r \in Rows : store[st][r] = NoDoc
      /\ \A r \in Rows : last[r] = NoDoc
  BY DEF Init, NoSnap
<1>2. View(NoDoc) \in Reg!Value /\ View(NoDoc).state = "none"
  BY ViewIsValue
<1>3. RegValue \in [Rows -> {v \in Reg!Value : v.state = "none"}]
  BY <1>1, <1>2 DEF RegValue
<1>4. RegShown = [st \in Stores |-> RegValue]
  BY <1>1 DEF RegShown, RegValue
<1>5. RegHeld = [r \in Rows |-> {}]
  <2>1. JobView(NoJob) = View(NoDoc)
    BY DEF JobView, NoJob, CopyWrite
  <2>2. ASSUME NEW r \in Rows PROVE RegHeld[r] = {}
    <3>1. \A v : v \notin RegHeld[r]
      BY <1>1, <2>1, WhatIsHeld DEF HeldAre
    <3> QED BY <3>1
  <2> QED BY <2>2 DEF RegHeld
<1> QED BY <1>3, <1>4, <1>5 DEF Reg!Init, RegValue, RegShown, RegHeld

\* When users keep away from passes, the loops of all services together are a
\* replicated register: nothing a pass writes, from slim reads that may be long
\* out of date, is anything but a copy of what another database shows or
\* showed, and no such copy is the end of a row's latest write.
THEOREM RowsAreRegister ==
    ASSUME Quiet
    PROVE  Spec => Reg!Safety
<1>1. Init => Reg!Init
  BY InitImplements
<1>2. RegInv /\ RegInv' /\ [Next]_vars => [Reg!Next]_(Reg!vars)
  BY StepImplements
<1>3. Spec => []RegInv
  BY RegInvHolds
<1> QED BY <1>1, <1>2, <1>3, PTL DEF Spec, Reg!Safety

\* What is left of the refinement for TLC is that the databases agree in the end.
THEOREM RegisterGivenAgreement ==
    ASSUME Quiet
    PROVE  Spec /\ <>[]Reg!Agreed => IsRegister
<1>1. Spec => Reg!Safety
  BY RowsAreRegister
<1> QED BY <1>1, PTL DEF IsRegister, Reg!Spec
=============================================================================
