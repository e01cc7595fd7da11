--------------------------- MODULE SyncRefsProofs ---------------------------
(***************************************************************************)
(* What holds of the references in hybrid sync, proved for any set of      *)
(* locations and filaments and any number of writes and failures: the      *)
(* types, that every reference resolves in its own database whatever fails *)
(* and whoever writes meanwhile, and that links are kept when nobody       *)
(* writes during a cycle.                                                  *)
(***************************************************************************)
EXTENDS SyncRefs, TLAPS

Doc == Fil \cup {None}

\* What a cycle has read is still there: rows only come, they never go.
SeenIsHeld == \A side \in Sides, f \in Fils : seen[side][f] # None => Has(side, f)
MapsAreHeld ==
    \A side \in Sides : locMap[side] \subseteq locs[side] /\ filMap[side] \subseteq HeldFils(side)
TodoDiffers ==
    pc \in {"copyFils", "write"} =>
        \A f \in todo : f \in Fils /\ UpdOf(seen["local"][f]) # UpdOf(seen["remote"][f])
JobIsCopy == pc = "write" => job \in [row : Fils, to : Sides, full : Fil]

\* A repair writes one field of a row that is there.
FixesFit ==
    \A x \in fixes :
        /\ pc \in {"fixLocal", "fixRemote"} => Has(x.side, x.row) /\ x.ref \in Ref(Locs)
        /\ pc = "fixParents" => Has(x.side, x.row) /\ x.ref \in Ref(Fils)

\* The inductive invariant of the types.
TInv == TypeOK /\ SeenIsHeld /\ MapsAreHeld /\ TodoDiffers /\ JobIsCopy /\ FixesFit

-----------------------------------------------------------------------------
(* Facts about documents and references.                                   *)

LEMMA NoneApart ==
    /\ None \notin Fil /\ None \notin Locs /\ None \notin Fils
    /\ \A side \in Sides, r \in Locs \cup Fils : Id(side, r) # None /\ RowOf(Id(side, r)) = r
    /\ \A side \in Sides : Id(side, None) = None
    /\ RowOf(None) = None
BY RefsAssumption DEF Fil, Ref, Id, RowOf

LEMMA SidesTwo ==
    /\ "local" \in Sides /\ "remote" \in Sides
    /\ \A side \in Sides : side = "local" \/ side = "remote"
    /\ \A side \in Sides : Other(side) \in Sides /\ Other(side) # side /\ Other(Other(side)) = side
BY DEF Sides, Other

LEMMA IdTyped ==
    /\ \A side \in Sides, l \in Locs \cup {None} : Id(side, l) \in Ref(Locs)
    /\ \A side \in Sides, f \in Fils \cup {None} : Id(side, f) \in Ref(Fils)
BY DEF Id, Ref

LEMMA RowTyped ==
    /\ \A ref \in Ref(Locs) : RowOf(ref) \in Locs \cup {None}
    /\ \A ref \in Ref(Fils) : RowOf(ref) \in Fils \cup {None}
BY DEF RowOf, Ref

\* One document of one database is replaced.
LEMMA OnePut ==
    ASSUME NEW F \in [Sides -> [Fils -> Doc]], NEW s \in Sides, NEW r \in Fils, NEW d \in Doc
    PROVE  LET G == [F EXCEPT ![s][r] = d] IN
           /\ G \in [Sides -> [Fils -> Doc]]
           /\ G[s][r] = d
           /\ \A t \in Sides, g \in Fils : (t # s \/ g # r) => G[t][g] = F[t][g]
OBVIOUS

LEMMA FilTyped ==
    ASSUME NEW d \in Fil
    PROVE  /\ d.upd \in Nat /\ d.loc \in Ref(Locs) /\ d.parent \in Ref(Fils)
           /\ \A u \in Nat : [d EXCEPT !.upd = u] \in Fil
           /\ \A l \in Ref(Locs) : [d EXCEPT !.loc = l] \in Fil
           /\ \A p \in Ref(Fils) : [d EXCEPT !.parent = p] \in Fil
BY DEF Fil

LEMMA Translated ==
    ASSUME NEW to \in Sides, NEW R, NEW ref \in Ref(R),
           NEW map \in [Sides -> SUBSET R]
    PROVE  Translate(map, to, ref) \in Ref(R)
BY DEF Translate, Ref, Id, Sides

-----------------------------------------------------------------------------
(* Every write to a filament puts one document in place.                   *)

Puts(s, f, d) == s \in Sides /\ f \in Fils /\ d \in Fil /\ fils' = [fils EXCEPT ![s][f] = d]

LEMMA WriteFilPuts ==
    ASSUME TInv, NEW s \in Sides, NEW f \in Fils, NEW d \in Fil, WriteFil(s, f, d)
    PROVE  Puts(s, f, [d EXCEPT !.upd = clock + 1])
<1>1. clock + 1 \in Nat
  BY DEF TInv, TypeOK
<1>2. [d EXCEPT !.upd = clock + 1] \in Fil
  BY <1>1, FilTyped
<1> QED
  BY <1>2 DEF WriteFil, Puts

\* What the application writes: ids of its own database.
AppWrites(s, f, d) ==
    /\ s \in Sides /\ f \in Fils /\ d \in Fil
    /\ WriteFil(s, f, d)
    /\ \/ play.legacy # {} /\ d = fils[s][f]
       \/ /\ \/ d.loc \in {Id(s, l) : l \in locs[s] \cup {None}}
             \/ Has(s, f) /\ d.loc = fils[s][f].loc
          /\ \/ d.parent \in {Id(s, p) : p \in HeldFils(s) \cup {None}}
             \/ Has(s, f) /\ d.parent = fils[s][f].parent

LEMMA AppStep ==
    ASSUME TInv, AppNext
    PROVE  \/ \E s \in Sides, l \in Locs : CreateLoc(s, l)
           \/ \E s \in Sides, f \in Fils : \E d \in Fil : AppWrites(s, f, d)
<1>1. PICK s \in Sides : \/ \E l \in play.locs : CreateLoc(s, l)
                         \/ \E f \in Fils : \/ CreateFil(s, f) \/ Edit(s, f)
                                            \/ MoveSpool(s, f) \/ Reparent(s, f)
  BY DEF AppNext
<1>t. /\ play.locs \subseteq Locs /\ locs[s] \subseteq Locs
      /\ \A f \in Fils : Has(s, f) => fils[s][f] \in Fil
  BY DEF TInv, TypeOK, Play, Has
<1>2. CASE \E l \in play.locs : CreateLoc(s, l)
  BY <1>2, <1>t
<1>3. CASE \E f \in Fils : \/ CreateFil(s, f) \/ Edit(s, f)
                           \/ MoveSpool(s, f) \/ Reparent(s, f)
  <2>1. PICK f \in Fils : CreateFil(s, f) \/ Edit(s, f) \/ MoveSpool(s, f) \/ Reparent(s, f)
    BY <1>3
  <2>p. \A p : MayBeParent(s, p, f) => p \in HeldFils(s) \cup {None}
    BY DEF MayBeParent, HeldFils
  <2>2. CASE CreateFil(s, f)
    <3>1. PICK l \in locs[s] \cup {None}, p \in Fils \cup {None} :
            /\ MayBeParent(s, p, f)
            /\ WriteFil(s, f, [upd |-> 0, loc |-> Id(s, l), parent |-> Id(s, p)])
      BY <2>2 DEF CreateFil
    <3> DEFINE d == [upd |-> 0, loc |-> Id(s, l), parent |-> Id(s, p)]
    <3>2. d \in Fil /\ d.loc = Id(s, l) /\ d.parent = Id(s, p)
      BY <1>t, IdTyped DEF Fil
    <3>w. WriteFil(s, f, d) /\ p \in HeldFils(s) \cup {None}
      BY <3>1, <2>p
    <3> HIDE DEF d
    <3>3. AppWrites(s, f, d)
      BY <3>w, <3>2 DEF AppWrites
    <3> QED
      BY <3>2, <3>3
  <2>3. CASE Edit(s, f)
    <3>1. AppWrites(s, f, fils[s][f])
      BY <2>3, <1>t DEF Edit, AppWrites
    <3> QED
      BY <3>1 DEF AppWrites
  <2>4. CASE MoveSpool(s, f)
    <3>1. PICK l \in locs[s] \cup {None} : WriteFil(s, f, [fils[s][f] EXCEPT !.loc = Id(s, l)])
      BY <2>4 DEF MoveSpool
    <3> DEFINE d == [fils[s][f] EXCEPT !.loc = Id(s, l)]
    <3>h. Has(s, f) /\ fils[s][f] \in Fil
      BY <2>4, <1>t DEF MoveSpool
    <3>2. d \in Fil /\ d.loc = Id(s, l) /\ d.parent = fils[s][f].parent
      BY <3>h, <1>t, IdTyped, FilTyped DEF Fil
    <3>w. WriteFil(s, f, d)
      BY <3>1
    <3> HIDE DEF d
    <3>3. AppWrites(s, f, d)
      BY <3>w, <3>2, <3>h DEF AppWrites
    <3> QED
      BY <3>2, <3>3
  <2>5. CASE Reparent(s, f)
    <3>1. PICK p \in Fils \cup {None} :
             /\ MayBeParent(s, p, f)
             /\ WriteFil(s, f, [fils[s][f] EXCEPT !.parent = Id(s, p)])
      BY <2>5 DEF Reparent
    <3> DEFINE d == [fils[s][f] EXCEPT !.parent = Id(s, p)]
    <3>h. Has(s, f) /\ fils[s][f] \in Fil
      BY <2>5, <1>t DEF Reparent
    <3>2. d \in Fil /\ d.parent = Id(s, p) /\ d.loc = fils[s][f].loc
      BY <3>h, IdTyped, FilTyped DEF Fil
    <3>w. WriteFil(s, f, d) /\ p \in HeldFils(s) \cup {None}
      BY <3>1, <2>p
    <3> HIDE DEF d
    <3>3. AppWrites(s, f, d)
      BY <3>w, <3>2, <3>h DEF AppWrites
    <3> QED
      BY <3>2, <3>3
  <2> QED
    BY <2>1, <2>2, <2>3, <2>4, <2>5
<1> QED
  BY <1>1, <1>2, <1>3

LEMMA FixSpoolPuts ==
    ASSUME TInv, NEW x \in fixes, FixSpool(x)
    PROVE  /\ fils[x.side][x.row] \in Fil /\ x.ref \in Ref(Locs)
           /\ Puts(x.side, x.row, [fils[x.side][x.row] EXCEPT !.loc = x.ref])
<1>1. x.side \in Sides /\ x.row \in Fils /\ fils[x.side][x.row] \in Fil /\ x.ref \in Ref(Locs)
  BY DEF FixSpool, FixesFit, TInv, TypeOK, Has
<1>2. fils' = [fils EXCEPT ![x.side][x.row] = [fils[x.side][x.row] EXCEPT !.loc = x.ref]]
  BY DEF FixSpool
<1> QED
  BY <1>1, <1>2, FilTyped DEF Puts

LEMMA FixParentPuts ==
    ASSUME TInv, NEW x \in fixes, FixParent(x)
    PROVE  /\ fils[x.side][x.row] \in Fil /\ x.ref \in Ref(Fils)
           /\ Puts(x.side, x.row, [fils[x.side][x.row] EXCEPT !.parent = x.ref])
<1>1. x.side \in Sides /\ x.row \in Fils /\ fils[x.side][x.row] \in Fil /\ x.ref \in Ref(Fils)
  BY DEF FixParent, FixesFit, TInv, TypeOK, Has
<1>2. fils' = [fils EXCEPT ![x.side][x.row] = [fils[x.side][x.row] EXCEPT !.parent = x.ref]]
  BY DEF FixParent
<1> QED
  BY <1>1, <1>2, FilTyped DEF Puts

\* The copy: the hydrated source with its references translated.
Copy == [job.full EXCEPT !.loc = Translate(locMap, job.to, @),
                         !.parent = Translate(filMap, job.to, @)]

LEMMA WriteCopyPuts ==
    ASSUME TInv, WriteCopy
    PROVE  /\ job \in [row : Fils, to : Sides, full : Fil]
           /\ Puts(job.to, job.row, Copy)
           /\ Copy.upd = job.full.upd
           /\ Copy.loc = Translate(locMap, job.to, job.full.loc)
           /\ Copy.parent = Translate(filMap, job.to, job.full.parent)
<1>1. job \in [row : Fils, to : Sides, full : Fil]
  BY DEF TInv, JobIsCopy, WriteCopy
<1> DEFINE l == Translate(locMap, job.to, job.full.loc)
           p == Translate(filMap, job.to, job.full.parent)
<1>2. l \in Ref(Locs) /\ p \in Ref(Fils)
  BY <1>1, Translated, FilTyped DEF TInv, TypeOK
<1>3. job.full \in Fil /\ job.to \in Sides /\ job.row \in Fils
  BY <1>1
<1>4. Copy = [job.full EXCEPT !.loc = l, !.parent = p]
  BY DEF Copy
<1>5. fils' = [fils EXCEPT ![job.to][job.row] = Copy]
  BY DEF WriteCopy, Copy
<1> HIDE DEF l, p
<1>6. Copy.upd = job.full.upd /\ Copy.loc = l /\ Copy.parent = p
  BY <1>3, <1>4 DEF Fil
<1>7. Copy = [x \in {"upd", "loc", "parent"} |-> Copy[x]]
  BY <1>3, <1>4 DEF Fil
<1>8. Copy \in Fil
  <2>1. job.full.upd \in Nat
    BY <1>3, FilTyped
  <2> HIDE DEF Copy
  <2> QED
    BY <1>2, <1>6, <1>7, <2>1 DEF Fil
<1> QED
  BY <1>1, <1>3, <1>5, <1>6, <1>8 DEF Puts, l, p

-----------------------------------------------------------------------------
(* The types.                                                              *)

SpoolReads == {"spoolsLocal", "spoolsRemote"}
SpoolFixes == {"fixLocal", "fixRemote"}

\* The steps that write no filament and no location: they read, and move on.
ReadingStep ==
    \/ StartCycle \/ ReadLocs \/ LocsDone \/ BuildLocMaps
    \/ ReadSpools("local", "spoolsLocal", "fixLocal")
    \/ ReadSpools("remote", "spoolsRemote", "fixRemote")
    \/ SpoolsFixed("fixLocal", "spoolsRemote") \/ SpoolsFixed("fixRemote", "backfill")
    \/ BackfillFils \/ BuildFilMaps \/ ReadFils \/ (\E f \in Fils : Hydrate(f))
    \/ FilsDone \/ ReadParents \/ ParentsFixed \/ EndCycle

WritingStep ==
    \/ \E l \in Locs : CopyLoc(l)
    \/ \E x \in fixes : FixSpool(x) \/ FixParent(x)
    \/ WriteCopy

LEMMA CycleSteps == CycleStep <=> ReadingStep \/ WritingStep
BY DEF CycleStep, RepairSpools, ReadingStep, WritingStep

LEMMA ReadingKeepsRows ==
    ReadingStep => UNCHANGED <<locs, fils, clock, want, play>>
BY DEF ReadingStep, StartCycle, ReadLocs, LocsDone, BuildLocMaps, ReadSpools, SpoolsFixed,
       BackfillFils, BuildFilMaps, ReadFils, Hydrate, FilsDone, ReadParents, ParentsFixed,
       EndCycle, Forget, data, cycle, maps

LEMMA FailureKeepsRows ==
    CycleFails => UNCHANGED <<locs, fils, ids, clock, want>> /\ Fault
BY DEF CycleFails, CollectionFails, LocsFail, FilsFail, SpoolRepairFails, ParentRepairFails,
       Abort, Crash, data

LEMMA FaultCounts ==
    ASSUME play \in Play, Fault
    PROVE  /\ play' \in Play /\ play'.legacy = play.legacy /\ play'.locs = play.locs
           /\ play'.faults = play.faults + 1
<1> DEFINE q == [play EXCEPT !.faults = play.faults + 1]
<1>1. play' = q
  BY DEF Fault
<1>2. /\ q.legacy = play.legacy /\ q.locs = play.locs /\ q.time = play.time
      /\ q.faults = play.faults + 1 /\ q.limit = play.limit
  BY DEF Play
<1>3. q = [x \in {"legacy", "locs", "time", "faults", "limit"} |-> q[x]]
  BY DEF Play
<1>4. play.faults + 1 \in 0..MaxFaults
  BY RefsAssumption DEF Fault, Play
<1> HIDE DEF q
<1>5. q \in Play
  BY <1>2, <1>3, <1>4 DEF Play
<1> QED
  BY <1>1, <1>2, <1>5

\* A write to a filament leaves every row that is there, there.
LEMMA PutGrows ==
    ASSUME TInv, NEW s \in Sides, NEW f \in Fils, NEW d \in Fil, Puts(s, f, d)
    PROVE  /\ fils' \in [Sides -> [Fils -> Doc]]
           /\ \A t \in Sides, g \in Fils : Has(t, g) => Has(t, g)'
           /\ fils'[s][f] = d
           /\ \A t \in Sides, g \in Fils : (t # s \/ g # f) => fils'[t][g] = fils[t][g]
<1>1. fils \in [Sides -> [Fils -> Doc]] /\ d \in Doc /\ d # None
  BY NoneApart DEF TInv, TypeOK, Doc
<1>2. fils' = [fils EXCEPT ![s][f] = d]
  BY DEF Puts
<1>3. /\ fils' \in [Sides -> [Fils -> Doc]]
      /\ fils'[s][f] = d
      /\ \A t \in Sides, g \in Fils : (t # s \/ g # f) => fils'[t][g] = fils[t][g]
  BY <1>1, <1>2, OnePut
<1> QED
  BY <1>1, <1>3 DEF Has

Grown ==
    /\ locs' \in [Sides -> SUBSET Locs]
    /\ fils' \in [Sides -> [Fils -> Doc]]
    /\ \A side \in Sides : locs[side] \subseteq locs'[side]
    /\ \A side \in Sides, f \in Fils : Has(side, f) => Has(side, f)'
    /\ play' \in Play /\ play'.legacy = play.legacy /\ play'.locs = play.locs

LEMMA Grows ==
    ASSUME TInv, [Next]_vars
    PROVE  Grown
<1>t. /\ locs \in [Sides -> SUBSET Locs] /\ fils \in [Sides -> [Fils -> Doc]]
      /\ play \in Play
  BY DEF TInv, TypeOK, Doc
<1>1. CASE UNCHANGED vars
  BY <1>1, <1>t DEF vars, data, Grown, Has
<1>2. CASE AppNext
  <2>1. CASE \E s \in Sides, l \in Locs : CreateLoc(s, l)
    <3>1. PICK s \in Sides, l \in Locs : CreateLoc(s, l)
      BY <2>1
    <3> QED
      BY <3>1, <1>t DEF CreateLoc, Grown, Has
  <2>2. CASE \E s \in Sides, f \in Fils : \E d \in Fil : AppWrites(s, f, d)
    <3>1. PICK s \in Sides, f \in Fils : \E d \in Fil : AppWrites(s, f, d)
      BY <2>2
    <3>2. PICK d \in Fil : AppWrites(s, f, d)
      BY <3>1
    <3>3. WriteFil(s, f, d)
      BY <3>2 DEF AppWrites
    <3> DEFINE e == [d EXCEPT !.upd = clock + 1]
    <3>4. Puts(s, f, e) /\ e \in Fil
      BY <3>3, WriteFilPuts DEF Puts
    <3>5. locs' = locs /\ play' = play
      BY <3>3 DEF WriteFil
    <3> HIDE DEF e
    <3> QED
      BY <3>4, <3>5, <1>t, PutGrows DEF Grown
  <2> QED
    BY <1>2, <2>1, <2>2, AppStep
<1>3. CASE ReadingStep
  BY <1>3, <1>t, ReadingKeepsRows DEF Grown, Has
<1>4. CASE WritingStep
  <2>1. CASE \E l \in Locs : CopyLoc(l)
    <3>1. PICK l \in Locs : CopyLoc(l)
      BY <2>1
    <3> QED
      BY <3>1, <1>t DEF CopyLoc, Grown, Has
  <2>2. CASE \E x \in fixes : FixSpool(x) \/ FixParent(x)
    <3>1. PICK x \in fixes : FixSpool(x) \/ FixParent(x)
      BY <2>2
    <3>2. locs' = locs /\ play' = play
      BY <3>1 DEF FixSpool, FixParent
    <3>3. CASE FixSpool(x)
      <4> DEFINE d == [fils[x.side][x.row] EXCEPT !.loc = x.ref]
      <4>1. Puts(x.side, x.row, d)
        BY <3>3, FixSpoolPuts
      <4> HIDE DEF d
      <4>2. x.side \in Sides /\ x.row \in Fils /\ d \in Fil
        BY <4>1 DEF Puts
      <4> QED
        BY <4>1, <4>2, <3>2, <1>t, PutGrows DEF Grown
    <3>4. CASE FixParent(x)
      <4> DEFINE d == [fils[x.side][x.row] EXCEPT !.parent = x.ref]
      <4>1. Puts(x.side, x.row, d)
        BY <3>4, FixParentPuts
      <4> HIDE DEF d
      <4>2. x.side \in Sides /\ x.row \in Fils /\ d \in Fil
        BY <4>1 DEF Puts
      <4> QED
        BY <4>1, <4>2, <3>2, <1>t, PutGrows DEF Grown
    <3> QED
      BY <3>1, <3>3, <3>4
  <2>3. CASE WriteCopy
    <3>1. Puts(job.to, job.row, Copy) /\ job.to \in Sides /\ job.row \in Fils /\ Copy \in Fil
      BY <2>3, WriteCopyPuts DEF Puts
    <3>2. locs' = locs /\ play' = play
      BY <2>3 DEF WriteCopy
    <3> QED
      BY <3>1, <3>2, <1>t, PutGrows DEF Grown
  <2> QED
    BY <1>4, <2>1, <2>2, <2>3 DEF WritingStep
<1>5. CASE CycleFails
  BY <1>5, <1>t, FailureKeepsRows, FaultCounts DEF Grown, Has
<1> QED
  BY <1>1, <1>2, <1>3, <1>4, <1>5, CycleSteps DEF Next

LEMMA NothingTyped ==
    /\ NoMap \in [Sides -> SUBSET Locs] /\ NoMap \in [Sides -> SUBSET Fils]
    /\ NoFils \in [Sides -> [Fils -> Doc]]
    /\ \A side \in Sides : NoMap[side] = {}
    /\ \A side \in Sides, f \in Fils : NoFils[side][f] = None
BY DEF NoMap, NoFils, Doc

\* The variables of a cycle have their types and fit the rows there are.
CycleTyped ==
    /\ pc \in {"idle", "locations", "copyLocs", "locMaps", "spoolsLocal",
               "fixLocal", "spoolsRemote", "fixRemote", "backfill", "filMaps",
               "filaments", "copyFils", "write", "repair", "fixParents", "end"}
    /\ aborted \in BOOLEAN
    /\ errored \subseteq {"locations", "filaments"}
    /\ todo \subseteq Locs \cup Fils
    /\ locMap \in [Sides -> SUBSET Locs]
    /\ filMap \in [Sides -> SUBSET Fils]
    /\ before \in [Sides -> [Fils -> Doc]]
    /\ seen \in [Sides -> [Fils -> Doc]]
    /\ job \in [row : Fils, to : Sides, full : Fil] \cup {NoJob}
    /\ fixes \subseteq [side : Sides, row : Fils, ref : Ref(Locs) \cup Ref(Fils)]
CycleFits == SeenIsHeld /\ MapsAreHeld /\ TodoDiffers /\ JobIsCopy /\ FixesFit

LEMMA TInvParts ==
    TInv <=> /\ CycleTyped /\ CycleFits
             /\ locs \in [Sides -> SUBSET Locs] /\ fils \in [Sides -> [Fils -> Doc]]
             /\ ids \subseteq Locs \cup Fils /\ clock \in Nat
             /\ want \in [Fils -> Wanted \cup {None}] /\ play \in Play
BY DEF TInv, TypeOK, CycleTyped, CycleFits, Doc

\* A cycle that only moves on, or nothing of a cycle.
LEMMA CycleKept ==
    ASSUME TInv, Grown, UNCHANGED <<pc, cycle>>
    PROVE  CycleTyped' /\ CycleFits'
<1>1. CycleTyped /\ CycleFits
  BY TInvParts
<1>2. UNCHANGED <<pc, aborted, errored, todo, locMap, filMap, before, seen, job, fixes>>
  BY DEF cycle, maps
<1>3. CycleTyped'
  BY <1>1, <1>2 DEF CycleTyped
<1>4. SeenIsHeld' /\ MapsAreHeld'
  BY <1>1, <1>2 DEF CycleFits, CycleTyped, SeenIsHeld, MapsAreHeld, Grown, Has, HeldFils
<1>5. TodoDiffers' /\ JobIsCopy'
  BY <1>1, <1>2 DEF CycleFits, TodoDiffers, JobIsCopy, UpdOf
<1>6. FixesFit'
  BY <1>1, <1>2 DEF CycleFits, CycleTyped, FixesFit, Grown, Has
<1> QED
  BY <1>3, <1>4, <1>5, <1>6 DEF CycleFits

LEMMA NewerIsThere ==
    ASSUME TInv, NEW f \in todo, pc \in {"copyFils", "write"}
    PROVE  f \in Fils /\ Newer(f) \in Sides /\ fils[Newer(f)][f] \in Fil
<1>1. f \in Fils /\ UpdOf(seen["local"][f]) # UpdOf(seen["remote"][f])
  BY DEF TInv, TodoDiffers
<1>2. \A side \in Sides : seen[side][f] \in Fil \cup {None}
  BY <1>1 DEF TInv, TypeOK
<1>3. \A side \in Sides : UpdOf(seen[side][f]) \in Nat
  BY <1>2, FilTyped DEF UpdOf
<1>4. Newer(f) \in Sides /\ UpdOf(seen[Newer(f)][f]) > 0
  BY <1>1, <1>3, SidesTwo DEF Newer
<1>5. seen[Newer(f)][f] # None
  BY <1>4 DEF UpdOf
<1>6. Has(Newer(f), f)
  BY <1>1, <1>4, <1>5 DEF TInv, SeenIsHeld
<1> QED
  BY <1>1, <1>4, <1>6 DEF Has, TInv, TypeOK

LEMMA ReadingTyped ==
    ASSUME TInv, ReadingStep, Grown
    PROVE  CycleTyped' /\ CycleFits' /\ ids' \subseteq Locs \cup Fils
<1> USE TInvParts, NothingTyped, SidesTwo DEF data, maps, cycle
<1>t. /\ CycleTyped /\ CycleFits /\ ids \subseteq Locs \cup Fils
      /\ locs \in [Sides -> SUBSET Locs] /\ fils \in [Sides -> [Fils -> Doc]]
  OBVIOUS
<1>r. fils' = fils /\ locs' = locs
  BY ReadingKeepsRows
<1>h. \A side \in Sides : HeldFils(side) \subseteq Fils /\ locs[side] \subseteq Locs
  BY <1>t DEF HeldFils
<1>1. CASE StartCycle
  <2>1. CycleTyped' /\ ids' \subseteq Locs \cup Fils
    BY <1>1, <1>t, <1>h DEF StartCycle, CycleTyped, Skipped
  <2>2. SeenIsHeld' /\ MapsAreHeld' /\ TodoDiffers' /\ JobIsCopy' /\ FixesFit'
    BY <1>1, <1>t, <1>r, <1>h DEF StartCycle, CycleFits, SeenIsHeld, MapsAreHeld,
      TodoDiffers, JobIsCopy, FixesFit, Has, HeldFils
  <2> QED
    BY <2>1, <2>2 DEF CycleFits
<1>2. CASE ReadLocs
  <2>1. CycleTyped' /\ ids' \subseteq Locs \cup Fils
    BY <1>2, <1>t, <1>h DEF ReadLocs, CycleTyped, Skipped
  <2>2. SeenIsHeld' /\ MapsAreHeld' /\ TodoDiffers' /\ JobIsCopy' /\ FixesFit'
    BY <1>2, <1>t, <1>r, <1>h DEF ReadLocs, CycleFits, SeenIsHeld, MapsAreHeld,
      TodoDiffers, JobIsCopy, FixesFit, Has, HeldFils
  <2> QED
    BY <2>1, <2>2 DEF CycleFits
<1>3. CASE LocsDone
  <2>1. CycleTyped' /\ ids' \subseteq Locs \cup Fils
    BY <1>3, <1>t, <1>h DEF LocsDone, CycleTyped, Skipped
  <2>2. SeenIsHeld' /\ MapsAreHeld' /\ TodoDiffers' /\ JobIsCopy' /\ FixesFit'
    BY <1>3, <1>t, <1>r, <1>h DEF LocsDone, CycleFits, SeenIsHeld, MapsAreHeld,
      TodoDiffers, JobIsCopy, FixesFit, Has, HeldFils
  <2> QED
    BY <2>1, <2>2 DEF CycleFits
<1>4. CASE BuildLocMaps
  <2>1. CycleTyped' /\ ids' \subseteq Locs \cup Fils
    BY <1>4, <1>t, <1>h DEF BuildLocMaps, CycleTyped, Skipped
  <2>2. SeenIsHeld' /\ MapsAreHeld' /\ TodoDiffers' /\ JobIsCopy' /\ FixesFit'
    BY <1>4, <1>t, <1>r, <1>h DEF BuildLocMaps, CycleFits, SeenIsHeld, MapsAreHeld,
      TodoDiffers, JobIsCopy, FixesFit, Has, HeldFils
  <2> QED
    BY <2>1, <2>2 DEF CycleFits
<1>5. CASE SpoolsFixed("fixLocal", "spoolsRemote") \/ SpoolsFixed("fixRemote", "backfill")
  <2>1. CycleTyped' /\ ids' \subseteq Locs \cup Fils
    BY <1>5, <1>t, <1>h DEF SpoolsFixed, CycleTyped, Skipped
  <2>2. SeenIsHeld' /\ MapsAreHeld' /\ TodoDiffers' /\ JobIsCopy' /\ FixesFit'
    BY <1>5, <1>t, <1>r, <1>h DEF SpoolsFixed, CycleFits, SeenIsHeld, MapsAreHeld,
      TodoDiffers, JobIsCopy, FixesFit, Has, HeldFils
  <2> QED
    BY <2>1, <2>2 DEF CycleFits
<1>6. CASE BackfillFils
  <2>1. CycleTyped' /\ ids' \subseteq Locs \cup Fils
    BY <1>6, <1>t, <1>h DEF BackfillFils, CycleTyped, Skipped
  <2>2. SeenIsHeld' /\ MapsAreHeld' /\ TodoDiffers' /\ JobIsCopy' /\ FixesFit'
    BY <1>6, <1>t, <1>r, <1>h DEF BackfillFils, CycleFits, SeenIsHeld, MapsAreHeld,
      TodoDiffers, JobIsCopy, FixesFit, Has, HeldFils
  <2> QED
    BY <2>1, <2>2 DEF CycleFits
<1>7. CASE BuildFilMaps
  <2>1. CycleTyped' /\ ids' \subseteq Locs \cup Fils
    BY <1>7, <1>t, <1>h DEF BuildFilMaps, CycleTyped, Skipped
  <2>2. SeenIsHeld' /\ MapsAreHeld' /\ TodoDiffers' /\ JobIsCopy' /\ FixesFit'
    BY <1>7, <1>t, <1>r, <1>h DEF BuildFilMaps, CycleFits, SeenIsHeld, MapsAreHeld,
      TodoDiffers, JobIsCopy, FixesFit, Has, HeldFils
  <2> QED
    BY <2>1, <2>2 DEF CycleFits
<1>8. CASE ReadFils
  <2>1. CycleTyped' /\ ids' \subseteq Locs \cup Fils
    BY <1>8, <1>t, <1>h DEF ReadFils, CycleTyped, Skipped
  <2>2. SeenIsHeld' /\ MapsAreHeld' /\ TodoDiffers' /\ JobIsCopy' /\ FixesFit'
    BY <1>8, <1>t, <1>r, <1>h DEF ReadFils, CycleFits, SeenIsHeld, MapsAreHeld,
      TodoDiffers, JobIsCopy, FixesFit, Has, HeldFils
  <2> QED
    BY <2>1, <2>2 DEF CycleFits
<1>9. CASE FilsDone
  <2>1. CycleTyped' /\ ids' \subseteq Locs \cup Fils
    BY <1>9, <1>t, <1>h DEF FilsDone, CycleTyped, Skipped
  <2>2. SeenIsHeld' /\ MapsAreHeld' /\ TodoDiffers' /\ JobIsCopy' /\ FixesFit'
    BY <1>9, <1>t, <1>r, <1>h DEF FilsDone, CycleFits, SeenIsHeld, MapsAreHeld,
      TodoDiffers, JobIsCopy, FixesFit, Has, HeldFils
  <2> QED
    BY <2>1, <2>2 DEF CycleFits
<1>10. CASE ParentsFixed
  <2>1. CycleTyped' /\ ids' \subseteq Locs \cup Fils
    BY <1>10, <1>t, <1>h DEF ParentsFixed, CycleTyped, Skipped
  <2>2. SeenIsHeld' /\ MapsAreHeld' /\ TodoDiffers' /\ JobIsCopy' /\ FixesFit'
    BY <1>10, <1>t, <1>r, <1>h DEF ParentsFixed, CycleFits, SeenIsHeld, MapsAreHeld,
      TodoDiffers, JobIsCopy, FixesFit, Has, HeldFils
  <2> QED
    BY <2>1, <2>2 DEF CycleFits
<1>11. CASE EndCycle
  <2>1. CycleTyped' /\ ids' \subseteq Locs \cup Fils
    BY <1>11, <1>t, <1>h DEF EndCycle, Forget, CycleTyped, Skipped
  <2>2. SeenIsHeld' /\ MapsAreHeld' /\ TodoDiffers' /\ JobIsCopy' /\ FixesFit'
    BY <1>11, <1>t, <1>r, <1>h DEF EndCycle, Forget, CycleFits, SeenIsHeld, MapsAreHeld,
      TodoDiffers, JobIsCopy, FixesFit, Has, HeldFils
  <2> QED
    BY <2>1, <2>2 DEF CycleFits
<1>12. CASE \E f \in Fils : Hydrate(f)
  <2>1. PICK f \in Fils : Hydrate(f)
    BY <1>12
  <2>2. /\ Newer(f) \in Sides /\ fils[Newer(f)][f] \in Fil /\ Other(Newer(f)) \in Sides
        /\ job' = [row |-> f, to |-> Other(Newer(f)), full |-> fils[Newer(f)][f]]
    BY <2>1, NewerIsThere DEF Hydrate
  <2>3. job' \in [row : Fils, to : Sides, full : Fil]
    BY <2>2
  <2>4. CycleTyped' /\ ids' \subseteq Locs \cup Fils
    BY <2>1, <2>3, <1>t DEF Hydrate, CycleTyped
  <2>5. SeenIsHeld' /\ MapsAreHeld' /\ TodoDiffers' /\ JobIsCopy' /\ FixesFit'
    BY <2>1, <2>3, <1>t, <1>r DEF Hydrate, CycleFits, SeenIsHeld, MapsAreHeld,
      TodoDiffers, JobIsCopy, FixesFit, Has, HeldFils
  <2> QED
    BY <2>4, <2>5 DEF CycleFits
<1>13. CASE \E side \in Sides, at \in SpoolReads, next \in SpoolFixes : ReadSpools(side, at, next)
  <2>1. PICK side \in Sides, at \in SpoolReads, next \in SpoolFixes : ReadSpools(side, at, next)
    BY <1>13
  <2>2. \A x \in fixes' : /\ x \in [side : Sides, row : Fils, ref : Ref(Locs)]
                          /\ Has(x.side, x.row)
    <3> TAKE x \in fixes'
    <3>1. PICK f \in Fils : /\ Stray(side, f)
                            /\ x = [side |-> side, row |-> f, ref |-> Corrected(side, fils[side][f].loc)]
      BY <2>1 DEF ReadSpools
    <3>2. Corrected(side, fils[side][f].loc) \in Ref(Locs)
      BY <1>t, IdTyped DEF Corrected, CycleTyped, Ref
    <3> QED
      BY <3>1, <3>2 DEF Stray
  <2>3. CycleTyped' /\ ids' \subseteq Locs \cup Fils
    BY <2>1, <2>2, <1>t DEF ReadSpools, CycleTyped, SpoolFixes
  <2>4. SeenIsHeld' /\ MapsAreHeld' /\ TodoDiffers' /\ JobIsCopy'
    BY <2>1, <1>t, <1>r DEF ReadSpools, SpoolFixes, CycleFits, SeenIsHeld, MapsAreHeld,
      TodoDiffers, JobIsCopy, Has, HeldFils
  <2>5. FixesFit'
    BY <2>1, <2>2, <1>r DEF ReadSpools, SpoolFixes, FixesFit, Has
  <2> QED
    BY <2>3, <2>4, <2>5 DEF CycleFits
<1>14. CASE ReadParents
  <2>2. \A x \in fixes' : /\ x \in [side : Sides, row : Fils, ref : Ref(Fils)]
                          /\ Has(x.side, x.row)
    <3> TAKE x \in fixes'
    <3>1. PICK sf \in Sides \X Fils :
            /\ NeedsParent(sf[1], sf[2])
            /\ x = [side |-> sf[1], row |-> sf[2], ref |-> Expected(sf[1], sf[2])]
      BY <1>14 DEF ReadParents
    <3>2. sf[1] \in Sides /\ sf[2] \in Fils
      OBVIOUS
    <3>3. Expected(sf[1], sf[2]) \in Ref(Fils)
      <4>1. fils[Other(sf[1])][sf[2]] # None => fils[Other(sf[1])][sf[2]].parent \in Ref(Fils)
        BY <1>t, <3>2, FilTyped DEF Doc
      <4>2. Other(sf[1]) \in Sides /\ ids \subseteq Locs \cup Fils
        BY <3>2, <1>t
      <4>3. \A p \in Ref(Fils) : p \in {Other(sf[1])} \X ids => p[2] \in Fils
        BY <4>2, RefsAssumption DEF Ref
      <4> DEFINE there == fils[Other(sf[1])][sf[2]]
      <4>4. CASE /\ there # None
                 /\ there.parent \in {Other(sf[1])} \X ids
                 /\ Has(Other(sf[1]), there.parent[2]) /\ Has(sf[1], there.parent[2])
        <5>1. there.parent[2] \in Fils
          BY <4>4, <4>1, <4>3
        <5>2. Expected(sf[1], sf[2]) = Id(sf[1], there.parent[2])
          BY <4>4 DEF Expected
        <5> QED
          BY <5>1, <5>2, <3>2, IdTyped
      <4>5. CASE Expected(sf[1], sf[2]) = None
        BY <4>5 DEF Ref
      <4> QED
        BY <4>4, <4>5 DEF Expected
    <3> QED
      BY <3>1, <3>2, <3>3 DEF NeedsParent
  <2>3. CycleTyped' /\ ids' \subseteq Locs \cup Fils
    BY <1>14, <2>2, <1>t DEF ReadParents, CycleTyped
  <2>4. SeenIsHeld' /\ MapsAreHeld' /\ TodoDiffers' /\ JobIsCopy'
    BY <1>14, <1>t, <1>r DEF ReadParents, CycleFits, SeenIsHeld, MapsAreHeld,
      TodoDiffers, JobIsCopy, Has, HeldFils
  <2>5. FixesFit'
    BY <1>14, <2>2, <1>r DEF ReadParents, FixesFit, Has
  <2> QED
    BY <2>3, <2>4, <2>5 DEF CycleFits
<1> QED
  BY <1>1, <1>2, <1>3, <1>4, <1>5, <1>6, <1>7, <1>8, <1>9, <1>10, <1>11, <1>12, <1>13, <1>14 DEF ReadingStep, SpoolReads, SpoolFixes

LEMMA WritingTyped ==
    ASSUME TInv, WritingStep, Grown
    PROVE  CycleTyped' /\ CycleFits' /\ ids' \subseteq Locs \cup Fils
<1> USE TInvParts, NothingTyped DEF maps
<1>t. /\ CycleTyped /\ CycleFits /\ ids \subseteq Locs \cup Fils
  OBVIOUS
<1>g. /\ \A side \in Sides : locs[side] \subseteq locs'[side]
      /\ \A side \in Sides, f \in Fils : Has(side, f) => Has(side, f)'
      /\ \A side \in Sides : HeldFils(side) \subseteq HeldFils(side)'
  BY DEF Grown, HeldFils
<1>1. CASE \E l \in Locs : CopyLoc(l)
  <2>1. CycleTyped' /\ ids' \subseteq Locs \cup Fils
    BY <1>1, <1>t DEF CopyLoc, CycleTyped
  <2>2. SeenIsHeld' /\ MapsAreHeld' /\ TodoDiffers' /\ JobIsCopy' /\ FixesFit'
    BY <1>1, <1>t, <1>g DEF CopyLoc, CycleFits, SeenIsHeld, MapsAreHeld, TodoDiffers, JobIsCopy,
      FixesFit
  <2> QED
    BY <2>1, <2>2 DEF CycleFits
<1>2. CASE \E x \in fixes : FixSpool(x) \/ FixParent(x)
  <2>0. UNCHANGED <<pc, ids, aborted, errored, todo, locMap, filMap, before, seen, job>>
        /\ fixes' \subseteq fixes
    BY <1>2 DEF FixSpool, FixParent
  <2>1. CycleTyped' /\ ids' \subseteq Locs \cup Fils
    BY <2>0, <1>t DEF CycleTyped
  <2>2. SeenIsHeld' /\ MapsAreHeld' /\ TodoDiffers' /\ JobIsCopy'
    BY <2>0, <1>t, <1>g DEF CycleFits, SeenIsHeld, MapsAreHeld, TodoDiffers, JobIsCopy, UpdOf
  <2>3. FixesFit'
    BY <2>0, <1>t, <1>g DEF CycleFits, CycleTyped, FixesFit
  <2> QED
    BY <2>1, <2>2, <2>3 DEF CycleFits
<1>3. CASE WriteCopy
  <2>1. CycleTyped' /\ ids' \subseteq Locs \cup Fils
    BY <1>3, <1>t DEF WriteCopy, CycleTyped
  <2>2. SeenIsHeld' /\ MapsAreHeld' /\ TodoDiffers' /\ JobIsCopy'
    BY <1>3, <1>t, <1>g DEF WriteCopy, CycleFits, SeenIsHeld, MapsAreHeld, TodoDiffers, JobIsCopy, UpdOf
  <2>3. FixesFit'
    BY <1>3, <1>t, <1>g DEF WriteCopy, CycleFits, CycleTyped, FixesFit
  <2> QED
    BY <2>1, <2>2, <2>3 DEF CycleFits
<1> QED
  BY <1>1, <1>2, <1>3 DEF WritingStep

LEMMA FailingTyped ==
    ASSUME TInv, CycleFails, Grown
    PROVE  CycleTyped' /\ CycleFits'
<1> USE TInvParts, NothingTyped DEF data, maps
<1>t. /\ CycleTyped /\ CycleFits /\ fils' = fils /\ locs' = locs
  BY FailureKeepsRows
<1>1. CASE Abort
  <2>0. UNCHANGED <<pc, errored, todo, locMap, filMap, before, seen, job, fixes>> /\ aborted' = TRUE
    BY <1>1 DEF Abort
  <2>1. CycleTyped'
    BY <2>0, <1>t DEF CycleTyped
  <2>2. SeenIsHeld' /\ MapsAreHeld' /\ TodoDiffers' /\ JobIsCopy' /\ FixesFit'
    BY <2>0, <1>t DEF CycleFits, SeenIsHeld, MapsAreHeld, TodoDiffers,
      JobIsCopy, FixesFit, Has, HeldFils
  <2> QED
    BY <2>1, <2>2 DEF CycleFits
<1>3. CASE Crash
  <2>1. CycleTyped'
    BY <1>3, <1>t DEF Crash, Forget, CycleTyped
  <2>2. SeenIsHeld' /\ MapsAreHeld' /\ TodoDiffers' /\ JobIsCopy' /\ FixesFit'
    BY <1>3, <1>t DEF Crash, Forget, CycleFits, SeenIsHeld, MapsAreHeld, TodoDiffers,
      JobIsCopy, FixesFit, Has
  <2> QED
    BY <2>1, <2>2 DEF CycleFits
<1>2. CASE CollectionFails \/ SpoolRepairFails \/ ParentRepairFails
  <2>1. CycleTyped'
    BY <1>2, <1>t DEF CollectionFails, LocsFail, FilsFail, SpoolRepairFails, ParentRepairFails,
      CycleTyped
  <2>2. SeenIsHeld' /\ MapsAreHeld' /\ TodoDiffers' /\ JobIsCopy' /\ FixesFit'
    BY <1>2, <1>t DEF CollectionFails, LocsFail, FilsFail, SpoolRepairFails, ParentRepairFails,
      CycleFits, SeenIsHeld, MapsAreHeld, TodoDiffers, JobIsCopy, FixesFit, Has, HeldFils
  <2> QED
    BY <2>1, <2>2 DEF CycleFits
<1> QED
  BY <1>1, <1>2, <1>3 DEF CycleFails

\* What the user last wrote, and when.
LEMMA DataTyped ==
    ASSUME TInv, [Next]_vars
    PROVE  clock' \in Nat /\ want' \in [Fils -> Wanted \cup {None}]
<1>t. clock \in Nat /\ want \in [Fils -> Wanted \cup {None}]
  BY TInvParts
<1>1. CASE UNCHANGED vars \/ ReadingStep \/ CycleFails
  BY <1>1, <1>t, ReadingKeepsRows, FailureKeepsRows DEF vars, data
<1>2. CASE WritingStep
  BY <1>2, <1>t DEF WritingStep, CopyLoc, FixSpool, FixParent, WriteCopy
<1>3. CASE AppNext
  <2>1. CASE \E s \in Sides, l \in Locs : CreateLoc(s, l)
    BY <2>1, <1>t DEF CreateLoc
  <2>2. CASE \E s \in Sides, f \in Fils : \E d \in Fil : AppWrites(s, f, d)
    <3>1. PICK s \in Sides, f \in Fils : \E d \in Fil : AppWrites(s, f, d)
      BY <2>2
    <3>2. PICK d \in Fil : AppWrites(s, f, d)
      BY <3>1
    <3>3. /\ clock' = clock + 1
          /\ want' = [want EXCEPT ![f] = [upd |-> clock + 1, loc |-> RowOf(d.loc),
                                          parent |-> RowOf(d.parent), side |-> s]]
      BY <3>2 DEF AppWrites, WriteFil
    <3>4. RowOf(d.loc) \in Locs \cup {None} /\ RowOf(d.parent) \in Fils \cup {None}
      BY FilTyped, RowTyped
    <3>5. [upd |-> clock + 1, loc |-> RowOf(d.loc), parent |-> RowOf(d.parent), side |-> s] \in Wanted
      BY <3>4, <1>t DEF Wanted
    <3> QED
      BY <3>3, <3>5, <1>t
  <2> QED
    BY <1>3, <2>1, <2>2, AppStep
<1> QED
  BY <1>1, <1>2, <1>3, CycleSteps DEF Next

LEMMA AppKeepsCycle == ASSUME TInv, AppNext PROVE UNCHANGED <<ids, pc, cycle, play>>
BY AppStep DEF AppWrites, CreateLoc, WriteFil

LEMMA TInvNext == ASSUME TInv, [Next]_vars PROVE TInv'
<1>1. Grown
  BY Grows
<1>2. clock' \in Nat /\ want' \in [Fils -> Wanted \cup {None}]
  BY DataTyped
<1>3. CycleTyped' /\ CycleFits' /\ ids' \subseteq Locs \cup Fils
  <2>t. ids \subseteq Locs \cup Fils
    BY TInvParts
  <2>1. CASE UNCHANGED vars
    BY <2>1, <2>t, <1>1, CycleKept DEF vars, data
  <2>2. CASE AppNext
    BY <2>2, <2>t, <1>1, CycleKept, AppKeepsCycle
  <2>3. CASE ReadingStep
    BY <2>3, <1>1, ReadingTyped
  <2>4. CASE WritingStep
    BY <2>4, <1>1, WritingTyped
  <2>5. CASE CycleFails
    BY <2>5, <2>t, <1>1, FailingTyped, FailureKeepsRows
  <2> QED
    BY <2>1, <2>2, <2>3, <2>4, <2>5, CycleSteps DEF Next
<1>4. /\ locs' \in [Sides -> SUBSET Locs] /\ fils' \in [Sides -> [Fils -> Doc]] /\ play' \in Play
  BY <1>1 DEF Grown
<1>5. /\ CycleTyped' /\ CycleFits'
      /\ locs' \in [Sides -> SUBSET Locs] /\ fils' \in [Sides -> [Fils -> Doc]]
      /\ ids' \subseteq Locs \cup Fils /\ clock' \in Nat
      /\ want' \in [Fils -> Wanted \cup {None}] /\ play' \in Play
  BY <1>2, <1>3, <1>4
<1> QED
  BY <1>5 DEF TInv, TypeOK, CycleTyped, CycleFits, Doc

LEMMA TInvInit == Init => TInv
<1> SUFFICES ASSUME Init PROVE TInv
  OBVIOUS
<1>p. play \in Play
  BY RefsAssumption DEF Init
<1>1. CycleTyped /\ CycleFits
  BY NothingTyped, NoneApart DEF Init, CycleTyped, CycleFits, SeenIsHeld, MapsAreHeld, TodoDiffers,
    JobIsCopy, FixesFit
<1>2. CASE play.legacy = {}
  BY <1>1, <1>2, <1>p, NothingTyped, TInvParts DEF Init
<1>3. CASE play.legacy # {}
  <2>1. PICK to \in Sides, b \in Fils \cup {None} :
           /\ want \in [Fils -> [upd : {1}, loc : play.locs \cup {None},
                                 parent : {b, None}, side : {Other(to)}]]
           /\ fils = LegacyFils(to, want)
    BY <1>3 DEF Init
  <2>2. play.locs \subseteq Locs
    BY <1>p DEF Play
  <2>3. ASSUME NEW f \in Fils
        PROVE  /\ want[f] \in Wanted
               /\ want[f].loc \in Locs \cup {None} /\ want[f].parent \in Fils \cup {None}
    BY <2>1, <2>2, SidesTwo DEF Wanted
  <2>4. want \in [Fils -> Wanted \cup {None}]
    BY <2>1, <2>3
  <2>5. fils \in [Sides -> [Fils -> Doc]]
    <3>1. ASSUME NEW side \in Sides, NEW f \in Fils, NEW s1 \in Sides, NEW s2 \in Sides
          PROVE  [upd |-> 1, loc |-> Id(s1, want[f].loc), parent |-> Id(s2, want[f].parent)] \in Doc
      BY <2>3, IdTyped DEF Doc, Fil
    <3> QED
      BY <2>1, <3>1, SidesTwo DEF LegacyFils
  <2>6. locs \in [Sides -> SUBSET Locs] /\ ids \subseteq Locs \cup Fils /\ clock \in Nat
    BY <1>3, <2>2 DEF Init
  <2> QED
    BY <1>1, <1>p, <2>4, <2>5, <2>6, TInvParts
<1> QED
  BY <1>2, <1>3

\* Every variable keeps its type, whoever writes and whatever fails.
THEOREM Typed == Spec => []TypeOK
<1>1. TInv /\ [Next]_vars => TInv'
  BY TInvNext
<1>2. TInv => TypeOK
  BY DEF TInv
<1> QED
  BY TInvInit, <1>1, <1>2, PTL DEF Spec

-----------------------------------------------------------------------------
(* References resolve.                                                     *)

LocRefs(side) == {Id(side, l) : l \in locs[side] \cup {None}}
FilRefs(side) == {Id(side, p) : p \in HeldFils(side) \cup {None}}
Resolving(side, d) == d.loc \in LocRefs(side) /\ d.parent \in FilRefs(side)

Resolves == \A side \in Sides, f \in Fils : Has(side, f) => Resolving(side, fils[side][f])
\* What a repair is about to write resolves too.
FixesResolve ==
    \A x \in fixes :
        /\ pc \in {"fixLocal", "fixRemote"} => x.ref \in LocRefs(x.side)
        /\ pc = "fixParents" => x.ref \in FilRefs(x.side)

\* The inductive invariant of the references.
RInv == TInv /\ (play.legacy = {} => Resolves /\ FixesResolve)

LEMMA RefsGrow ==
    ASSUME Grown, NEW side \in Sides
    PROVE  LocRefs(side) \subseteq LocRefs(side)' /\ FilRefs(side) \subseteq FilRefs(side)'
<1>1. locs[side] \subseteq locs'[side] /\ HeldFils(side) \subseteq HeldFils(side)'
  BY DEF Grown, HeldFils
<1> QED
  BY <1>1 DEF LocRefs, FilRefs

\* A row that is put in place with references that resolve.
LEMMA PutResolves ==
    ASSUME TInv, Grown, Resolves, NEW s \in Sides, NEW f \in Fils, NEW d \in Fil, Puts(s, f, d),
           Resolving(s, d)
    PROVE  Resolves'
<1> SUFFICES ASSUME NEW t \in Sides, NEW g \in Fils, Has(t, g)'
             PROVE  Resolving(t, fils[t][g])'
  BY DEF Resolves
<1>1. /\ fils'[s][f] = d
      /\ \A u \in Sides, h \in Fils : (u # s \/ h # f) => fils'[u][h] = fils[u][h]
  BY PutGrows
<1>2. LocRefs(t) \subseteq LocRefs(t)' /\ FilRefs(t) \subseteq FilRefs(t)'
  BY RefsGrow
<1>3. CASE t = s /\ g = f
  BY <1>1, <1>2, <1>3 DEF Resolving
<1>4. CASE t # s \/ g # f
  <2>1. fils'[t][g] = fils[t][g] /\ Has(t, g)
    BY <1>1, <1>4 DEF Has
  <2>2. Resolving(t, fils[t][g])
    BY <2>1 DEF Resolves
  <2> QED
    BY <2>1, <2>2, <1>2 DEF Resolving
<1> QED
  BY <1>3, <1>4

LEMMA RowsKeptResolve ==
    ASSUME Grown, Resolves, fils' = fils
    PROVE  Resolves'
<1> SUFFICES ASSUME NEW t \in Sides, NEW g \in Fils, Has(t, g)'
             PROVE  Resolving(t, fils[t][g])'
  BY DEF Resolves
<1>1. Resolving(t, fils[t][g])
  BY DEF Resolves, Has
<1>2. LocRefs(t) \subseteq LocRefs(t)' /\ FilRefs(t) \subseteq FilRefs(t)'
  BY RefsGrow
<1> QED
  BY <1>1, <1>2 DEF Resolving

LEMMA FixesKeptResolve ==
    ASSUME TInv, Grown, FixesResolve, fixes' \subseteq fixes, pc' = pc
    PROVE  FixesResolve'
<1> SUFFICES ASSUME NEW x \in fixes'
             PROVE  /\ pc \in {"fixLocal", "fixRemote"} => x.ref \in LocRefs(x.side)'
                    /\ pc = "fixParents" => x.ref \in FilRefs(x.side)'
  BY DEF FixesResolve
<1>1. x.side \in Sides
  BY DEF TInv, TypeOK
<1>2. LocRefs(x.side) \subseteq LocRefs(x.side)' /\ FilRefs(x.side) \subseteq FilRefs(x.side)'
  BY <1>1, RefsGrow
<1> QED
  BY <1>2 DEF FixesResolve

\* A repair is decided on by the rows and maps of its database.
LEMMA DecidedResolve ==
    ASSUME TInv, Grown, FixesResolve, ReadingStep
    PROVE  FixesResolve'
<1>t. /\ locs \in [Sides -> SUBSET Locs] /\ fils \in [Sides -> [Fils -> Doc]]
      /\ ids \subseteq Locs \cup Fils /\ MapsAreHeld /\ locMap \in [Sides -> SUBSET Locs]
  BY TInvParts DEF CycleFits, CycleTyped
<1>r. fils' = fils /\ locs' = locs
  BY ReadingKeepsRows
<1>1. CASE \E side \in Sides, at \in SpoolReads, next \in SpoolFixes : ReadSpools(side, at, next)
  <2>1. PICK side \in Sides, at \in SpoolReads, next \in SpoolFixes : ReadSpools(side, at, next)
    BY <1>1
  <2>2. ASSUME NEW x \in fixes'
        PROVE  x.ref \in LocRefs(x.side)'
    <3>1. PICK f \in Fils : x = [side |-> side, row |-> f, ref |-> Corrected(side, fils[side][f].loc)]
      BY <2>1 DEF ReadSpools
    <3>2. Corrected(side, fils[side][f].loc) \in LocRefs(side)
      BY <1>t, NoneApart DEF Corrected, LocRefs, MapsAreHeld
    <3>3. LocRefs(side) = LocRefs(side)'
      BY <1>r DEF LocRefs
    <3> QED
      BY <3>1, <3>2, <3>3
  <2> QED
    BY <2>1, <2>2 DEF ReadSpools, SpoolFixes, FixesResolve
<1>2. CASE ReadParents
  <2>1. ASSUME NEW x \in fixes'
        PROVE  x.ref \in FilRefs(x.side)'
    <3>1. PICK sf \in Sides \X Fils :
            /\ NeedsParent(sf[1], sf[2])
            /\ x = [side |-> sf[1], row |-> sf[2], ref |-> Expected(sf[1], sf[2])]
      BY <1>2 DEF ReadParents
    <3>2. sf[1] \in Sides /\ sf[2] \in Fils /\ Other(sf[1]) \in Sides
      BY SidesTwo
    <3>3. Expected(sf[1], sf[2]) \in FilRefs(sf[1])
      <4> DEFINE there == fils[Other(sf[1])][sf[2]]
      <4>1. CASE /\ there # None
                 /\ there.parent \in {Other(sf[1])} \X ids
                 /\ Has(Other(sf[1]), there.parent[2]) /\ Has(sf[1], there.parent[2])
        <5>1. there.parent \in Ref(Fils)
          BY <4>1, <1>t, <3>2, FilTyped DEF Doc
        <5>2. \A p \in Ref(Fils) : p \in {Other(sf[1])} \X ids => p[2] \in Fils
          BY <3>2, <1>t, RefsAssumption DEF Ref
        <5>3. there.parent[2] \in HeldFils(sf[1])
          BY <4>1, <5>1, <5>2 DEF HeldFils
        <5>4. Expected(sf[1], sf[2]) = Id(sf[1], there.parent[2])
          BY <4>1 DEF Expected
        <5> QED
          BY <5>3, <5>4 DEF FilRefs
      <4>2. CASE Expected(sf[1], sf[2]) = None
        BY <4>2, NoneApart, <3>2 DEF FilRefs
      <4> QED
        BY <4>1, <4>2 DEF Expected
    <3>4. FilRefs(sf[1]) = FilRefs(sf[1])'
      BY <1>r DEF FilRefs, HeldFils, Has
    <3> QED
      BY <3>1, <3>3, <3>4
  <2> QED
    BY <1>2, <2>1 DEF ReadParents, FixesResolve
<1>3. CASE \/ StartCycle \/ ReadLocs \/ LocsDone \/ BuildLocMaps \/ BackfillFils \/ BuildFilMaps
           \/ ReadFils \/ (\E f \in Fils : Hydrate(f)) \/ FilsDone \/ ParentsFixed \/ EndCycle
           \/ SpoolsFixed("fixLocal", "spoolsRemote") \/ SpoolsFixed("fixRemote", "backfill")
  <2>1. pc' \notin {"fixLocal", "fixRemote", "fixParents"}
    BY <1>3 DEF StartCycle, ReadLocs, LocsDone, BuildLocMaps, BackfillFils, BuildFilMaps, ReadFils,
      Hydrate, FilsDone, ParentsFixed, EndCycle, Forget, SpoolsFixed
  <2> QED
    BY <2>1 DEF FixesResolve
<1> QED
  BY <1>1, <1>2, <1>3, SidesTwo DEF ReadingStep, SpoolReads, SpoolFixes

\* What the copy could not translate, it drops.
LEMMA CopyResolves ==
    ASSUME TInv, WriteCopy
    PROVE  Resolving(job.to, Copy)
<1>1. /\ job.to \in Sides /\ job.full \in Fil
      /\ Copy.loc = Translate(locMap, job.to, job.full.loc)
      /\ Copy.parent = Translate(filMap, job.to, job.full.parent)
  BY WriteCopyPuts
<1>2. ASSUME NEW to \in Sides, NEW map, NEW ref
      PROVE  Translate(map, to, ref) \in {Id(to, r) : r \in (map["local"] \cap map["remote"]) \cup {None}}
  BY NoneApart DEF Translate
<1>3. /\ locMap["local"] \cap locMap["remote"] \subseteq locs[job.to]
      /\ filMap["local"] \cap filMap["remote"] \subseteq HeldFils(job.to)
  BY <1>1, SidesTwo DEF TInv, MapsAreHeld
<1>4. Copy.loc \in LocRefs(job.to)
  BY <1>1, <1>2, <1>3 DEF LocRefs
<1>5. Copy.parent \in FilRefs(job.to)
  BY <1>1, <1>2, <1>3 DEF FilRefs
<1> QED
  BY <1>4, <1>5 DEF Resolving

LEMMA RInvNext == ASSUME RInv, [Next]_vars PROVE RInv'
<1>t. TInv /\ TInv' /\ Grown
  BY TInvNext, Grows DEF RInv
<1> SUFFICES ASSUME play'.legacy = {} PROVE Resolves' /\ FixesResolve'
  BY <1>t DEF RInv
<1>r. Resolves /\ FixesResolve /\ play.legacy = {}
  BY <1>t DEF RInv, Grown
<1>1. CASE UNCHANGED vars
  BY <1>1, <1>t, <1>r, RowsKeptResolve, FixesKeptResolve DEF vars, data, cycle
<1>2. CASE AppNext
  <2>0. FixesResolve'
    BY <1>2, <1>t, <1>r, AppKeepsCycle, FixesKeptResolve DEF cycle
  <2>1. CASE \E s \in Sides, l \in Locs : CreateLoc(s, l)
    BY <2>1, <1>t, <1>r, RowsKeptResolve, <2>0 DEF CreateLoc
  <2>2. CASE \E s \in Sides, f \in Fils : \E d \in Fil : AppWrites(s, f, d)
    <3>1. PICK s \in Sides, f \in Fils : \E d \in Fil : AppWrites(s, f, d)
      BY <2>2
    <3>2. PICK d \in Fil : AppWrites(s, f, d)
      BY <3>1
    <3> DEFINE e == [d EXCEPT !.upd = clock + 1]
    <3>3. Puts(s, f, e) /\ e \in Fil /\ e.loc = d.loc /\ e.parent = d.parent
      BY <3>2, <1>t, WriteFilPuts DEF AppWrites, Puts, Fil
    <3>4. Resolving(s, d)
      BY <3>2, <1>r DEF AppWrites, Resolving, LocRefs, FilRefs, Resolves
    <3>5. Resolving(s, e)
      BY <3>3, <3>4 DEF Resolving
    <3> HIDE DEF e
    <3> QED
      BY <3>3, <3>5, <1>t, <1>r, <2>0, PutResolves
  <2> QED
    BY <1>2, <1>t, <2>1, <2>2, AppStep
<1>3. CASE ReadingStep
  BY <1>3, <1>t, <1>r, ReadingKeepsRows, RowsKeptResolve, DecidedResolve
<1>4. CASE WritingStep
  <2>1. CASE \E l \in Locs : CopyLoc(l)
    BY <2>1, <1>t, <1>r, RowsKeptResolve, FixesKeptResolve DEF CopyLoc
  <2>2. CASE \E x \in fixes : FixSpool(x) \/ FixParent(x)
    <3>0. FixesResolve'
      BY <2>2, <1>t, <1>r, FixesKeptResolve DEF FixSpool, FixParent
    <3>1. PICK x \in fixes : FixSpool(x) \/ FixParent(x)
      BY <2>2
    <3>2. CASE FixSpool(x)
      <4> DEFINE d == [fils[x.side][x.row] EXCEPT !.loc = x.ref]
      <4>1. /\ Puts(x.side, x.row, d) /\ fils[x.side][x.row] \in Fil
            /\ d.loc = x.ref /\ d.parent = fils[x.side][x.row].parent
        BY <3>2, <1>t, FixSpoolPuts DEF Fil
      <4>2. x.side \in Sides /\ x.row \in Fils /\ d \in Fil /\ Has(x.side, x.row)
        BY <4>1, NoneApart DEF Puts, Has
      <4>3. x.ref \in LocRefs(x.side)
        BY <3>2, <1>r DEF FixSpool, FixesResolve
      <4> HIDE DEF d
      <4>4. Resolving(x.side, d)
        BY <4>1, <4>2, <4>3, <1>r DEF Resolving, Resolves
      <4> QED
        BY <4>1, <4>2, <4>4, <3>0, <1>t, <1>r, PutResolves
    <3>3. CASE FixParent(x)
      <4> DEFINE d == [fils[x.side][x.row] EXCEPT !.parent = x.ref]
      <4>1. /\ Puts(x.side, x.row, d) /\ fils[x.side][x.row] \in Fil
            /\ d.parent = x.ref /\ d.loc = fils[x.side][x.row].loc
        BY <3>3, <1>t, FixParentPuts DEF Fil
      <4>2. x.side \in Sides /\ x.row \in Fils /\ d \in Fil /\ Has(x.side, x.row)
        BY <4>1, NoneApart DEF Puts, Has
      <4>3. x.ref \in FilRefs(x.side)
        BY <3>3, <1>r DEF FixParent, FixesResolve
      <4> HIDE DEF d
      <4>4. Resolving(x.side, d)
        BY <4>1, <4>2, <4>3, <1>r DEF Resolving, Resolves
      <4> QED
        BY <4>1, <4>2, <4>4, <3>0, <1>t, <1>r, PutResolves
    <3> QED
      BY <3>1, <3>2, <3>3
  <2>3. CASE WriteCopy
    <3>1. FixesResolve'
      BY <2>3 DEF WriteCopy, FixesResolve
    <3>2. Puts(job.to, job.row, Copy) /\ job.to \in Sides /\ job.row \in Fils /\ Copy \in Fil
      BY <2>3, <1>t, WriteCopyPuts DEF Puts
    <3> QED
      BY <2>3, <3>1, <3>2, <1>t, <1>r, CopyResolves, PutResolves
  <2> QED
    BY <1>4, <2>1, <2>2, <2>3 DEF WritingStep
<1>5. CASE CycleFails
  <2>1. Resolves'
    BY <1>5, <1>t, <1>r, FailureKeepsRows, RowsKeptResolve
  <2>2. FixesResolve'
    <3>1. CASE Abort
      BY <3>1, <1>t, <1>r, FixesKeptResolve DEF Abort
    <3>2. CASE CollectionFails \/ SpoolRepairFails \/ ParentRepairFails \/ Crash
      <4>1. fixes' = {} \/ pc' \notin {"fixLocal", "fixRemote", "fixParents"}
        BY <3>2 DEF CollectionFails, LocsFail, FilsFail, SpoolRepairFails, ParentRepairFails, Crash,
          Forget
      <4> QED
        BY <4>1 DEF FixesResolve
    <3> QED
      BY <1>5, <3>1, <3>2 DEF CycleFails
  <2> QED
    BY <2>1, <2>2
<1> QED
  BY <1>1, <1>2, <1>3, <1>4, <1>5, CycleSteps DEF Next

LEMMA RInvInit == Init => RInv
<1> SUFFICES ASSUME Init PROVE RInv
  OBVIOUS
<1>1. play.legacy = {} => fils = NoFils
  BY DEF Init
<1>2. fixes = {}
  BY DEF Init
<1> QED
  BY <1>1, <1>2, TInvInit, NothingTyped DEF RInv, Resolves, FixesResolve, Has

LEMMA RInvResolves == RInv => RefsResolve
BY DEF RInv, RefsResolve, Resolves, Resolving, LocRefs, FilRefs

\* Whatever fails and whenever the application writes, no filament refers to a
\* location or a parent that its own database does not have.
THEOREM ReferencesResolve == Spec => []RefsResolve
<1>1. RInv /\ [Next]_vars => RInv'
  BY RInvNext
<1> QED
  BY RInvInit, <1>1, RInvResolves, PTL DEF Spec

-----------------------------------------------------------------------------
(* Links are kept when nobody writes during a cycle.                       *)

AfterLocMaps ==
    {"spoolsLocal", "fixLocal", "spoolsRemote", "fixRemote", "backfill", "filMaps",
     "filaments", "copyFils", "write", "repair", "fixParents", "end"}

SameLocs == locs["local"] = locs["remote"]

\* A cycle whose locations did not fail has them all on both sides and in both maps;
\* where that is relied on, they did not fail.
LocsStage ==
    /\ pc = "copyLocs" =>
          /\ todo \subseteq ids
          /\ \A side \in Sides : locs[side] \subseteq ids /\ locs[side] \ locs[Other(side)] \subseteq todo
    /\ (pc = "locMaps" /\ "locations" \notin errored) => SameLocs /\ locs["local"] \subseteq ids
    /\ (pc \in AfterLocMaps /\ "locations" \notin errored) =>
          SameLocs /\ \A side \in Sides : locMap[side] = locs[side]
    /\ pc \in {"spoolsLocal", "fixLocal", "spoolsRemote", "fixRemote", "copyFils", "write"} =>
          "locations" \notin errored

\* What is being copied is what the newer side has.
CopyIsSource ==
    pc = "write" => /\ job.row \in todo /\ job.to = Other(Newer(job.row))
                    /\ job.full = fils[Newer(job.row)][job.row]

\* Databases of this version have no stray location.
NothingStray == pc \in {"fixLocal", "fixRemote"} => fixes = {}

\* No row is newer than the last write of it.
Stamped ==
    /\ \A f \in Fils : want[f] # None => want[f].upd <= clock
    /\ \A side \in Sides, f \in Fils : Has(side, f) =>
          want[f] # None /\ 1 <= fils[side][f].upd /\ fils[side][f].upd <= want[f].upd

\* The inductive invariant of the locations.
LInv ==
    /\ RInv /\ LocsStage /\ CopyIsSource
    /\ play.legacy = {} => NothingStray /\ Stamped /\ LocsKept

SameUpd(f) == UpdOf(fils["local"][f]) = UpdOf(fils["remote"][f])
AsLastWritten(side, f) == Has(side, f) /\ fils[side][f].upd = want[f].upd
\* Some database has the last write of every filament.
NewestIsThere ==
    \A f \in Fils : want[f] # None => \E side \in Sides : AsLastWritten(side, f)

\* A row whose parent the copy dropped, and that the repair will find.
LostParent(side, f) ==
    /\ Has(side, f) /\ fils[side][f].parent = None
    /\ UpdOf(before[side][f]) # fils[side][f].upd
    /\ AsLastWritten(Other(side), f) /\ ParentAsWritten(Other(side), f)

\* Before the copy, rows are as the cycle has read them; after it, the sides agree.
CopyStage ==
    /\ pc = "filaments" => before = fils
    /\ pc \in {"copyFils", "write"} =>
          /\ \A side \in Sides, f \in todo :
                /\ fils[side][f] = before[side][f] /\ fils[side][f] = seen[side][f]
                /\ ParentAsWritten(side, f)
          /\ \A f \in Fils \ todo : SameUpd(f)
    /\ pc \in {"repair", "fixParents"} => \A f \in Fils : SameUpd(f)

IdsStage ==
    pc \in {"filMaps", "filaments", "copyFils", "write", "repair", "fixParents"} =>
        \A side \in Sides : HeldFils(side) \subseteq ids

ParentStage ==
    /\ pc \in {"copyFils", "write", "repair"} =>
          \A side \in Sides, f \in Fils : ParentAsWritten(side, f) \/ LostParent(side, f)
    /\ pc = "fixParents" =>
          /\ \A x \in fixes : x.ref = Id(x.side, want[x.row].parent)
          /\ \A side \in Sides, f \in Fils :
                ParentAsWritten(side, f) \/ \E x \in fixes : x.side = side /\ x.row = f
    /\ pc \notin {"copyFils", "write", "repair", "fixParents"} =>
          \A side \in Sides, f \in Fils : ParentAsWritten(side, f)

\* The inductive invariant of the parents, for a play in which nothing has failed.
PInv ==
    /\ LInv
    /\ (play.legacy = {} /\ play.faults = 0) =>
          /\ ~aborted /\ errored = {}
          /\ NewestIsThere /\ CopyStage /\ IdsStage /\ ParentStage

-----------------------------------------------------------------------------
(* The locations: every step of a cycle, and every failure.                *)

LEMMA QuietIsNext == [QuietNext]_vars => [Next]_vars
BY DEF QuietNext, QuietApp, Next

LEMMA QuietSteps ==
    ASSUME [QuietNext]_vars
    PROVE  \/ UNCHANGED vars \/ (pc = "idle" /\ AppNext) \/ ReadingStep \/ WritingStep \/ CycleFails
BY CycleSteps DEF QuietNext, QuietApp

LEMMA UpdTyped ==
    /\ UpdOf(None) = 0
    /\ \A d \in Fil : UpdOf(d) = d.upd /\ d.upd \in Nat
    /\ \A d \in Doc : UpdOf(d) \in Nat
BY NoneApart, FilTyped DEF UpdOf, Doc

LEMMA StageNext ==
    ASSUME TInv, LocsStage, [QuietNext]_vars
    PROVE  LocsStage'
<1>t. /\ locs \in [Sides -> SUBSET Locs] /\ "local" \in Sides /\ "remote" \in Sides
      /\ Other("local") = "remote" /\ Other("remote") = "local"
      /\ \A side \in Sides : side = "local" \/ side = "remote"
  BY TInvParts, SidesTwo DEF Other
<1>1. CASE UNCHANGED vars
  BY <1>1 DEF vars, data, cycle, maps, LocsStage, SameLocs
<1>2. CASE pc = "idle" /\ AppNext
  <2>1. pc' = "idle"
    BY <1>2, AppKeepsCycle
  <2> QED
    BY <2>1 DEF LocsStage, AfterLocMaps
<1>3. CASE ReadingStep
  <2>1. CASE StartCycle \/ EndCycle
    BY <2>1 DEF StartCycle, EndCycle, Forget, LocsStage, AfterLocMaps
  <2>2. CASE ReadLocs
    BY <2>2, <1>t DEF ReadLocs, LocsStage, AfterLocMaps, Skipped
  <2>3. CASE LocsDone
    <3>1. /\ pc = "copyLocs" /\ todo = {} /\ pc' = "locMaps" /\ locs' = locs /\ ids' = ids
          /\ errored' = errored
      BY <2>3 DEF LocsDone, data, cycle
    <3>2. \A side \in Sides : locs[side] \subseteq ids /\ locs[side] \ locs[Other(side)] = {}
      BY <3>1 DEF LocsStage
    <3>3. SameLocs /\ locs["local"] \subseteq ids
      BY <3>2, <1>t DEF SameLocs
    <3> QED
      BY <3>1, <3>3 DEF LocsStage, AfterLocMaps, SameLocs
  <2>4. CASE BuildLocMaps
    <3>1. /\ pc = "locMaps" /\ locs' = locs /\ errored' = errored
          /\ locMap' = [side \in Sides |-> locs[side] \cap ids]
          /\ pc' = IF aborted \/ "locations" \in errored THEN "backfill" ELSE "spoolsLocal"
      BY <2>4 DEF BuildLocMaps, data
    <3>2. "locations" \notin errored =>
             SameLocs /\ \A side \in Sides : locMap'[side] = locs[side]
      BY <3>1, <1>t DEF LocsStage, SameLocs
    <3> QED
      BY <3>1, <3>2 DEF LocsStage, SameLocs
  <2>5. CASE \/ \E side \in Sides, at \in SpoolReads, next \in SpoolFixes : ReadSpools(side, at, next)
             \/ SpoolsFixed("fixLocal", "spoolsRemote") \/ SpoolsFixed("fixRemote", "backfill")
    <3>1. /\ UNCHANGED <<locs, locMap, errored>>
          /\ pc \in {"spoolsLocal", "fixLocal", "spoolsRemote", "fixRemote"}
          /\ pc' \in {"fixLocal", "spoolsRemote", "fixRemote", "backfill"}
      BY <2>5 DEF ReadSpools, SpoolsFixed, SpoolReads, SpoolFixes, data, cycle, maps
    <3> QED
      BY <3>1 DEF LocsStage, AfterLocMaps, SameLocs
  <2>6. CASE BackfillFils \/ BuildFilMaps \/ FilsDone \/ ReadParents \/ ParentsFixed
             \/ (\E f \in Fils : Hydrate(f))
    <3>1. /\ UNCHANGED <<locs, locMap, errored>>
          /\ pc \in {"backfill", "filMaps", "copyFils", "repair", "fixParents"}
          /\ pc' \in {"filMaps", "filaments", "repair", "fixParents", "end", "write"}
          /\ pc' = "write" => pc = "copyFils"
      BY <2>6 DEF BackfillFils, BuildFilMaps, FilsDone, ReadParents, ParentsFixed, Hydrate,
        data, cycle, maps
    <3> QED
      BY <3>1 DEF LocsStage, AfterLocMaps, SameLocs
  <2>7. CASE ReadFils
    BY <2>7 DEF ReadFils, Skipped, LocsStage, AfterLocMaps, SameLocs
  <2> QED
    BY <1>3, <2>1, <2>2, <2>3, <2>4, <2>5, <2>6, <2>7, SidesTwo DEF ReadingStep, SpoolReads, SpoolFixes
<1>4. CASE WritingStep
  <2>1. CASE \E l \in Locs : CopyLoc(l)
    <3>1. PICK l \in Locs : CopyLoc(l)
      BY <2>1
    <3>2. /\ pc = "copyLocs" /\ pc' = pc /\ ids' = ids /\ todo' = todo \ {l} /\ l \in todo
          /\ locs' = [side \in Sides |-> locs[side] \cup {l}]
      BY <3>1 DEF CopyLoc
    <3> QED
      BY <3>2, <1>t DEF LocsStage, AfterLocMaps
  <2>2. CASE WriteCopy
    BY <2>2 DEF WriteCopy, LocsStage, AfterLocMaps, SameLocs, maps
  <2>3. CASE \E x \in fixes : FixSpool(x) \/ FixParent(x)
    BY <2>3 DEF FixSpool, FixParent, LocsStage, AfterLocMaps, SameLocs, maps
  <2> QED
    BY <1>4, <2>1, <2>2, <2>3 DEF WritingStep
<1>5. CASE CycleFails
  <2>1. CASE LocsFail \/ Crash
    BY <2>1 DEF LocsFail, Crash, Forget, LocsStage, AfterLocMaps
  <2>2. CASE FilsFail \/ SpoolRepairFails \/ ParentRepairFails
    <3>1. /\ UNCHANGED <<locs, locMap>> /\ errored \subseteq errored'
          /\ pc \in AfterLocMaps /\ pc' \in {"repair", "backfill", "end"}
      BY <2>2 DEF FilsFail, SpoolRepairFails, ParentRepairFails, AfterLocMaps, data, maps
    <3> QED
      BY <3>1 DEF LocsStage, AfterLocMaps, SameLocs
  <2>3. CASE Abort
    BY <2>3 DEF Abort, LocsStage, SameLocs, data, maps
  <2> QED
    BY <1>5, <2>1, <2>2, <2>3 DEF CycleFails, CollectionFails
<1> QED
  BY <1>1, <1>2, <1>3, <1>4, <1>5, QuietSteps

LEMMA SourceNext ==
    ASSUME TInv, CopyIsSource, [QuietNext]_vars
    PROVE  CopyIsSource'
<1>1. CASE UNCHANGED vars \/ Abort
  <2>1. UNCHANGED <<pc, job, todo, fils, seen>>
    BY <1>1 DEF vars, data, cycle, maps, Abort
  <2> QED
    BY <2>1 DEF CopyIsSource, Newer, UpdOf
<1>2. CASE \E f \in Fils : Hydrate(f)
  <2>1. PICK f \in Fils : Hydrate(f)
    BY <1>2
  <2>2. /\ job' = [row |-> f, to |-> Other(Newer(f)), full |-> fils[Newer(f)][f]]
        /\ f \in todo /\ UNCHANGED <<fils, todo, seen>>
    BY <2>1 DEF Hydrate, data, maps
  <2>3. /\ job'.row = f /\ job'.to = Other(Newer(f)) /\ job'.full = fils[Newer(f)][f]
    BY <2>2
  <2>4. Newer(f)' = Newer(f)
    BY <2>2 DEF Newer, UpdOf
  <2> QED
    BY <2>2, <2>3, <2>4 DEF CopyIsSource, Newer, UpdOf
<1>3. pc' # "write" \/ UNCHANGED vars \/ Abort \/ \E f \in Fils : Hydrate(f)
  <2>1. CASE pc = "idle" /\ AppNext
    BY <2>1, AppKeepsCycle
  <2>2. CASE ReadingStep
    BY <2>2 DEF ReadingStep, StartCycle, ReadLocs, LocsDone, BuildLocMaps, ReadSpools, SpoolsFixed,
       BackfillFils, BuildFilMaps, ReadFils, FilsDone, ReadParents, ParentsFixed, EndCycle, Forget
  <2>3. CASE WritingStep
    BY <2>3 DEF WritingStep, CopyLoc, FixSpool, FixParent, WriteCopy
  <2>4. CASE CycleFails
    BY <2>4 DEF CycleFails, CollectionFails, LocsFail, FilsFail, SpoolRepairFails,
       ParentRepairFails, Crash, Forget
  <2> QED
    BY <2>1, <2>2, <2>3, <2>4, QuietSteps
<1> QED
  BY <1>1, <1>2, <1>3 DEF CopyIsSource

LEMMA StrayNext ==
    ASSUME TInv, LocsStage, Resolves, NothingStray, [QuietNext]_vars
    PROVE  NothingStray'
<1>1. CASE UNCHANGED vars \/ Abort
  BY <1>1 DEF vars, data, cycle, maps, Abort, NothingStray
<1>2. CASE \E side \in Sides, at \in SpoolReads, next \in SpoolFixes : ReadSpools(side, at, next)
  <2>1. PICK side \in Sides, at \in SpoolReads, next \in SpoolFixes : ReadSpools(side, at, next)
    BY <1>2
  <2>2. locMap[side] = locs[side]
    BY <2>1 DEF ReadSpools, SpoolReads, LocsStage, AfterLocMaps
  <2>3. \A f \in Fils : ~Stray(side, f)
    BY <2>2 DEF Stray, Resolves, Resolving, LocRefs, Id
  <2> QED
    BY <2>1, <2>3 DEF ReadSpools, NothingStray
<1>3. CASE \E x \in fixes : FixSpool(x)
  BY <1>3 DEF FixSpool, NothingStray
<1>4. \/ pc' \notin SpoolFixes
      \/ UNCHANGED vars \/ Abort \/ \E x \in fixes : FixSpool(x)
      \/ \E side \in Sides, at \in SpoolReads, next \in SpoolFixes : ReadSpools(side, at, next)
  <2>1. CASE pc = "idle" /\ AppNext
    BY <2>1, AppKeepsCycle DEF SpoolFixes
  <2>2. CASE ReadingStep
    <3>1. CASE \/ ReadSpools("local", "spoolsLocal", "fixLocal")
               \/ ReadSpools("remote", "spoolsRemote", "fixRemote")
      BY <3>1, SidesTwo DEF SpoolReads, SpoolFixes
    <3>2. CASE ~ \/ ReadSpools("local", "spoolsLocal", "fixLocal")
                 \/ ReadSpools("remote", "spoolsRemote", "fixRemote")
      BY <2>2, <3>2 DEF ReadingStep, StartCycle, ReadLocs, LocsDone, BuildLocMaps, SpoolsFixed,
         BackfillFils, BuildFilMaps, ReadFils, Hydrate, FilsDone, ReadParents, ParentsFixed, EndCycle,
         Forget, SpoolFixes
    <3> QED
      BY <3>1, <3>2
  <2>3. CASE WritingStep
    BY <2>3 DEF WritingStep, CopyLoc, FixParent, WriteCopy, SpoolFixes
  <2>4. CASE CycleFails
    BY <2>4 DEF CycleFails, CollectionFails, LocsFail, FilsFail, SpoolRepairFails,
       ParentRepairFails, Crash, Forget, SpoolFixes
  <2> QED
    BY <2>1, <2>2, <2>3, <2>4, QuietSteps
<1> QED
  BY <1>1, <1>2, <1>3, <1>4 DEF NothingStray, SpoolFixes

\* A row is written under an older stamp, or as it was last written.
LEMMA PutKeeps ==
    ASSUME TInv, Stamped, LocsKept, play.legacy = {}, UNCHANGED <<want, clock>>,
           NEW s \in Sides, NEW f \in Fils, NEW d \in Fil, Puts(s, f, d),
           want[f] # None, 1 <= d.upd, d.upd <= want[f].upd,
           d.upd = want[f].upd => d.loc = Id(s, want[f].loc)
    PROVE  Stamped' /\ \A t \in Sides, g \in Fils : LocAsWritten(t, g)'
<1>1. /\ fils'[s][f] = d
      /\ \A u \in Sides, h \in Fils : (u # s \/ h # f) => fils'[u][h] = fils[u][h]
  BY PutGrows
<1>2. ASSUME NEW t \in Sides, NEW g \in Fils
      PROVE  /\ Has(t, g)' => want[g] # None /\ 1 <= fils'[t][g].upd /\ fils'[t][g].upd <= want[g].upd
             /\ LocAsWritten(t, g)'
  <2>1. CASE t = s /\ g = f
    BY <2>1, <1>1 DEF LocAsWritten
  <2>2. CASE t # s \/ g # f
    <3>1. fils'[t][g] = fils[t][g]
      BY <2>2, <1>1
    <3>2. LocAsWritten(t, g)
      BY DEF LocsKept
    <3> QED
      BY <3>1, <3>2 DEF LocAsWritten, Stamped, Has
  <2> QED
    BY <2>1, <2>2
<1> QED
  BY <1>2 DEF Stamped

LEMMA RowsKeptKeep ==
    ASSUME Stamped, LocsKept, play.legacy = {}, UNCHANGED <<fils, want, clock>>
    PROVE  Stamped' /\ \A t \in Sides, g \in Fils : LocAsWritten(t, g)'
BY DEF Stamped, LocsKept, LocAsWritten, Has

\* The copy's source is as it was last written, or older; and what it refers to is on
\* both sides.
LEMMA CopyKeeps ==
    ASSUME TInv, LocsStage, CopyIsSource, Resolves, Stamped, LocsKept, play.legacy = {}, WriteCopy
    PROVE  LET f == job.row IN
           /\ want[f] # None /\ 1 <= Copy.upd /\ Copy.upd <= want[f].upd
           /\ Copy.upd = want[f].upd => Copy.loc = Id(job.to, want[f].loc)
<1> DEFINE f == job.row
           from == Newer(f)
<1>1. /\ job.to = Other(from) /\ job.full = fils[from][f] /\ f \in todo /\ pc = "write"
  BY DEF CopyIsSource, WriteCopy
<1>2. f \in Fils /\ from \in Sides /\ fils[from][f] \in Fil
  BY <1>1, NewerIsThere
<1>3. Has(from, f)
  BY <1>2, NoneApart DEF Has
<1>4. /\ Copy.upd = fils[from][f].upd
      /\ Copy.loc = Translate(locMap, job.to, fils[from][f].loc)
  BY <1>1, WriteCopyPuts
<1>5. want[f] # None /\ 1 <= Copy.upd /\ Copy.upd <= want[f].upd
  BY <1>2, <1>3, <1>4 DEF Stamped
<1>6. ASSUME Copy.upd = want[f].upd
      PROVE  Copy.loc = Id(job.to, want[f].loc)
  <2>1. fils[from][f].loc = Id(from, want[f].loc)
    BY <1>2, <1>3, <1>4, <1>6 DEF LocsKept, LocAsWritten
  <2>2. /\ locMap["local"] = locs["local"] /\ locMap["remote"] = locs["remote"]
        /\ locs["local"] = locs["remote"]
    BY <1>1, SidesTwo DEF LocsStage, AfterLocMaps, SameLocs
  <2>3. fils[from][f].loc \in LocRefs(from)
    BY <1>2, <1>3 DEF Resolves, Resolving
  <2>4. /\ locs[from] \subseteq locMap["local"] \cap locMap["remote"]
        /\ locs[from] \subseteq Locs
    BY <2>2, <1>2, SidesTwo DEF TInv, TypeOK
  <2>5. Other(job.to) = from
    BY <1>1, <1>2, SidesTwo
  <2>6. want[f].loc \in Locs \cup {None}
    BY <1>2, <1>5 DEF TInv, TypeOK, Wanted
  <2>7. CASE want[f].loc = None
    BY <2>1, <2>7, <1>4 DEF Id, Translate
  <2>8. CASE want[f].loc # None
    <3>1. fils[from][f].loc = <<from, want[f].loc>> /\ fils[from][f].loc # None
      BY <2>1, <2>6, <2>8, <1>2, NoneApart DEF Id
    <3>2. want[f].loc \in locs[from]
      <4>1. PICK l \in locs[from] \cup {None} : fils[from][f].loc = Id(from, l)
        BY <2>3 DEF LocRefs
      <4>2. l # None /\ fils[from][f].loc = <<from, l>>
        BY <4>1, <3>1 DEF Id
      <4>3. want[f].loc = l
        BY <4>2, <3>1
      <4> QED
        BY <4>2, <4>3
    <3> QED
      BY <3>1, <3>2, <2>4, <2>5, <1>4 DEF Translate
  <2> QED
    BY <2>7, <2>8
<1> QED
  BY <1>5, <1>6

\* A write by the application, under a new stamp.
LEMMA AppKeeps ==
    ASSUME TInv, Resolves, Stamped, LocsKept, play.legacy = {},
           NEW s \in Sides, NEW f \in Fils, NEW d \in Fil, AppWrites(s, f, d)
    PROVE  /\ fils'[s][f] = [d EXCEPT !.upd = clock + 1]
           /\ \A t \in Sides, g \in Fils : (t # s \/ g # f) => fils'[t][g] = fils[t][g]
           /\ want'[f].upd = clock + 1 /\ want'[f] # None
           /\ d.loc = Id(s, want'[f].loc) /\ d.parent = Id(s, want'[f].parent)
           /\ \A g \in Fils : g # f => want'[g] = want[g]
           /\ clock' = clock + 1
<1> DEFINE e == [d EXCEPT !.upd = clock + 1]
<1>1. Puts(s, f, e) /\ e \in Fil
  BY WriteFilPuts DEF AppWrites, Puts
<1>2. /\ fils'[s][f] = e
      /\ \A t \in Sides, g \in Fils : (t # s \/ g # f) => fils'[t][g] = fils[t][g]
  <2> HIDE DEF e
  <2> QED
    BY <1>1, PutGrows
<1> DEFINE w == [upd |-> clock + 1, loc |-> RowOf(d.loc), parent |-> RowOf(d.parent), side |-> s]
<1>3. clock' = clock + 1 /\ want' = [want EXCEPT ![f] = w]
  BY DEF AppWrites, WriteFil
<1>4. want'[f] = w /\ \A g \in Fils : g # f => want'[g] = want[g]
  BY <1>3, TInvParts
<1>5. w # None
  <2>1. None \notin Wanted
    BY RefsAssumption
  <2>2. RowOf(d.loc) \in Locs \cup {None} /\ RowOf(d.parent) \in Fils \cup {None}
    BY FilTyped, RowTyped
  <2>3. w \in Wanted
    BY <2>2, TInvParts DEF Wanted
  <2> QED
    BY <2>1, <2>3
<1>6. d.loc = Id(s, RowOf(d.loc)) /\ d.parent = Id(s, RowOf(d.parent))
  <2>1. d.loc \in LocRefs(s) /\ d.parent \in FilRefs(s)
    BY DEF AppWrites, Resolves, Resolving, LocRefs, FilRefs
  <2>2. locs[s] \subseteq Locs /\ HeldFils(s) \subseteq Fils
    BY DEF TInv, TypeOK, HeldFils
  <2> QED
    BY <2>1, <2>2, NoneApart DEF LocRefs, FilRefs
<1> QED
  BY <1>2, <1>3, <1>4, <1>5, <1>6

LEMMA KeptNext ==
    ASSUME TInv, LocsStage, CopyIsSource, Resolves, NothingStray, Stamped, LocsKept,
           play.legacy = {}, [QuietNext]_vars
    PROVE  Stamped' /\ \A t \in Sides, g \in Fils : LocAsWritten(t, g)'
<1>1. CASE UNCHANGED vars \/ ReadingStep \/ CycleFails
  BY <1>1, RowsKeptKeep, ReadingKeepsRows, FailureKeepsRows DEF vars, data
<1>2. CASE pc = "idle" /\ AppNext
  <2>1. CASE \E s \in Sides, l \in Locs : CreateLoc(s, l)
    BY <2>1, RowsKeptKeep DEF CreateLoc
  <2>2. CASE \E s \in Sides, f \in Fils : \E d \in Fil : AppWrites(s, f, d)
    <3>1. PICK s \in Sides, f \in Fils : \E d \in Fil : AppWrites(s, f, d)
      BY <2>2
    <3>2. PICK d \in Fil : AppWrites(s, f, d)
      BY <3>1
    <3> DEFINE e == [d EXCEPT !.upd = clock + 1]
    <3>3. /\ fils'[s][f] = e /\ want'[f].upd = clock + 1 /\ want'[f] # None
          /\ \A t \in Sides, g \in Fils : (t # s \/ g # f) => fils'[t][g] = fils[t][g]
          /\ d.loc = Id(s, want'[f].loc)
          /\ \A g \in Fils : g # f => want'[g] = want[g]
          /\ clock' = clock + 1
      BY <3>2, AppKeeps
    <3>4. e.upd = clock + 1 /\ e.loc = d.loc
      BY DEF Fil
    <3>5. clock \in Nat /\ \A g \in Fils : want[g] # None => want[g].upd \in Nat
      BY DEF TInv, TypeOK, Wanted
    <3> HIDE DEF e
    <3>6. \A g \in Fils : want'[g] # None => want'[g].upd <= clock'
      BY <3>3, <3>5 DEF Stamped
    <3>7. ASSUME NEW t \in Sides, NEW g \in Fils
          PROVE  /\ Has(t, g)' => want'[g] # None /\ 1 <= fils'[t][g].upd
                                  /\ fils'[t][g].upd <= want'[g].upd
                 /\ LocAsWritten(t, g)'
      <4>1. CASE t = s /\ g = f
        BY <4>1, <3>3, <3>4, <3>5 DEF LocAsWritten
      <4>2. CASE g # f
        <5>1. fils'[t][g] = fils[t][g] /\ want'[g] = want[g]
          BY <4>2, <3>3
        <5> QED
          BY <5>1 DEF LocAsWritten, LocsKept, Stamped, Has
      <4>3. CASE t # s /\ g = f
        <5>1. fils'[t][f] = fils[t][f]
          BY <4>3, <3>3
        <5>2. Has(t, f) => /\ 1 <= fils[t][f].upd /\ fils[t][f].upd <= clock
                           /\ fils[t][f].upd \in Nat
          <6>1. Has(t, f) => fils[t][f] \in Fil
            BY DEF Has, TInv, TypeOK
          <6> QED
            BY <6>1, <3>5, FilTyped DEF Stamped
        <5> QED
          BY <4>3, <5>1, <5>2, <3>3, <3>5 DEF LocAsWritten, Has
      <4> QED
        BY <4>1, <4>2, <4>3
    <3> QED
      BY <3>6, <3>7 DEF Stamped
  <2> QED
    BY <1>2, <2>1, <2>2, AppStep
<1>3. CASE WritingStep
  <2>1. CASE \E l \in Locs : CopyLoc(l)
    BY <2>1, RowsKeptKeep DEF CopyLoc
  <2>2. CASE \E x \in fixes : FixSpool(x) \/ FixParent(x)
    <3>1. PICK x \in fixes : FixParent(x)
      BY <2>2 DEF FixSpool, NothingStray
    <3> DEFINE d == [fils[x.side][x.row] EXCEPT !.parent = x.ref]
    <3>2. /\ Puts(x.side, x.row, d) /\ fils[x.side][x.row] \in Fil
          /\ d.loc = fils[x.side][x.row].loc /\ d.upd = fils[x.side][x.row].upd
      BY <3>1, FixParentPuts DEF Fil
    <3>3. x.side \in Sides /\ x.row \in Fils /\ d \in Fil /\ Has(x.side, x.row)
      BY <3>2, NoneApart DEF Puts, Has
    <3>4. UNCHANGED <<want, clock>>
      BY <3>1 DEF FixParent
    <3> HIDE DEF d
    <3>5. /\ want[x.row] # None /\ 1 <= d.upd /\ d.upd <= want[x.row].upd
          /\ d.upd = want[x.row].upd => d.loc = Id(x.side, want[x.row].loc)
      BY <3>2, <3>3 DEF Stamped, LocsKept, LocAsWritten
    <3> QED
      BY <3>2, <3>3, <3>4, <3>5, PutKeeps
  <2>3. CASE WriteCopy
    <3>1. Puts(job.to, job.row, Copy) /\ job.to \in Sides /\ job.row \in Fils /\ Copy \in Fil
      BY <2>3, WriteCopyPuts DEF Puts
    <3>2. UNCHANGED <<want, clock>>
      BY <2>3 DEF WriteCopy
    <3>3. /\ want[job.row] # None /\ 1 <= Copy.upd /\ Copy.upd <= want[job.row].upd
          /\ Copy.upd = want[job.row].upd => Copy.loc = Id(job.to, want[job.row].loc)
      BY <2>3, CopyKeeps
    <3> QED
      BY <3>1, <3>2, <3>3, PutKeeps
  <2> QED
    BY <1>3, <2>1, <2>2, <2>3 DEF WritingStep
<1> QED
  BY <1>1, <1>2, <1>3, QuietSteps

LEMMA LInvNext == ASSUME LInv, [QuietNext]_vars PROVE LInv'
<1>1. RInv' /\ TInv /\ Grown
  BY QuietIsNext, RInvNext, Grows DEF LInv, RInv
<1>2. LocsStage' /\ CopyIsSource'
  BY <1>1, StageNext, SourceNext DEF LInv
<1>3. ASSUME play'.legacy = {}
      PROVE  NothingStray' /\ Stamped' /\ LocsKept'
  <2>1. play.legacy = {} /\ Resolves /\ NothingStray /\ Stamped /\ LocsKept
    BY <1>1, <1>3 DEF Grown, LInv, RInv
  <2>2. NothingStray'
    BY <1>1, <2>1, StrayNext DEF LInv
  <2>3. Stamped' /\ \A t \in Sides, g \in Fils : LocAsWritten(t, g)'
    BY <1>1, <2>1, KeptNext DEF LInv
  <2> QED
    BY <2>2, <2>3 DEF LocsKept
<1> QED
  BY <1>1, <1>2, <1>3 DEF LInv

LEMMA LInvInit == Init => LInv
<1> SUFFICES ASSUME Init PROVE LInv
  OBVIOUS
<1>1. pc = "idle" /\ (play.legacy = {} => fils = NoFils /\ want = [f \in Fils |-> None])
  BY DEF Init
<1>2. play.legacy = {} => Stamped /\ LocsKept
  BY <1>1, NothingTyped DEF Stamped, LocsKept, LocAsWritten, Has
<1>3. LocsStage /\ CopyIsSource /\ NothingStray
  BY <1>1 DEF LocsStage, CopyIsSource, NothingStray, AfterLocMaps
<1> QED
  BY <1>2, <1>3, RInvInit DEF LInv

\* No copy drops a spool's location, whichever step of a cycle fails, aborts or dies.
THEOREM LocationsKept == QuietSpec => []LocsKept
<1>1. LInv /\ [QuietNext]_vars => LInv'
  BY LInvNext
<1>2. LInv => LocsKept
  BY DEF LInv, LocsKept
<1> QED
  BY LInvInit, <1>1, <1>2, PTL DEF QuietSpec

-----------------------------------------------------------------------------
(* The parents, while nothing fails.                                       *)

\* What PInv says of a play of this version's databases in which nothing has failed.
Unfailed ==
    /\ ~aborted /\ errored = {}
    /\ NewestIsThere /\ CopyStage /\ IdsStage /\ ParentStage
Plain == play.legacy = {} /\ play.faults = 0
Sound == LInv /\ Plain /\ Unfailed

LEMMA SoundHas ==
    ASSUME Sound
    PROVE  /\ TInv /\ Resolves /\ Stamped /\ LocsKept /\ NothingStray /\ LocsStage /\ CopyIsSource
           /\ play.legacy = {}
           /\ \A f \in Fils : want[f] # None => want[f] \in Wanted
           /\ \A side \in Sides, f \in Fils : Has(side, f) =>
                /\ fils[side][f] \in Fil /\ fils[side][f].upd \in Nat
                /\ UpdOf(fils[side][f]) = fils[side][f].upd /\ 1 <= fils[side][f].upd
                /\ want[f] # None /\ fils[side][f].upd <= want[f].upd
                /\ want[f].upd \in Nat /\ want[f].parent \in Fils \cup {None}
           /\ \A side \in Sides, f \in Fils : ~Has(side, f) => UpdOf(fils[side][f]) = 0
<1>1. /\ TInv /\ Resolves /\ Stamped /\ LocsKept /\ NothingStray /\ LocsStage /\ CopyIsSource
      /\ play.legacy = {}
  BY DEF Sound, LInv, RInv, Plain
<1>2. ASSUME NEW f \in Fils, want[f] # None
      PROVE  want[f] \in Wanted /\ want[f].upd \in Nat /\ want[f].parent \in Fils \cup {None}
  BY <1>1, <1>2 DEF TInv, TypeOK, Wanted
<1>3. ASSUME NEW side \in Sides, NEW f \in Fils, Has(side, f)
      PROVE  /\ fils[side][f] \in Fil /\ fils[side][f].upd \in Nat
             /\ UpdOf(fils[side][f]) = fils[side][f].upd /\ 1 <= fils[side][f].upd
             /\ want[f] # None /\ fils[side][f].upd <= want[f].upd
  BY <1>1, <1>3, UpdTyped DEF TInv, TypeOK, Has, Stamped
<1>4. \A side \in Sides, f \in Fils : ~Has(side, f) => UpdOf(fils[side][f]) = 0
  BY UpdTyped DEF Has
<1> QED
  BY <1>1, <1>2, <1>3, <1>4

LEMMA NothingFails ==
    ASSUME TInv, [QuietNext]_vars, ~aborted, errored = {}, play'.faults = 0
    PROVE  ~CycleFails /\ ~aborted' /\ errored' = {}
<1>1. ~CycleFails
  <2>1. play \in Play /\ play.faults \in Nat
    BY DEF TInv, TypeOK, Play
  <2> QED
    BY <2>1, FailureKeepsRows, FaultCounts
<1>2. CASE UNCHANGED vars
  BY <1>1, <1>2 DEF vars, cycle
<1>3. CASE pc = "idle" /\ AppNext
  BY <1>1, <1>3, AppKeepsCycle DEF cycle
<1>4. CASE ReadingStep
  BY <1>1, <1>4 DEF ReadingStep, StartCycle, ReadLocs, LocsDone, BuildLocMaps, ReadSpools, SpoolsFixed,
     BackfillFils, BuildFilMaps, ReadFils, Hydrate, FilsDone, ReadParents, ParentsFixed, EndCycle,
     Skipped, cycle
<1>5. CASE WritingStep
  <2>1. \A l \in Locs : CopyLoc(l) => UNCHANGED <<aborted, errored>>
    BY DEF CopyLoc
  <2>2. \A x \in fixes : FixSpool(x) \/ FixParent(x) => UNCHANGED <<aborted, errored>>
    BY DEF FixSpool, FixParent
  <2>3. WriteCopy => UNCHANGED <<aborted, errored>>
    BY DEF WriteCopy
  <2> QED
    BY <1>1, <1>5, <2>1, <2>2, <2>3 DEF WritingStep
<1> QED
  BY <1>1, <1>2, <1>3, <1>4, <1>5, QuietSteps

\* What one copy does: the older side gets the newer side's row.
LEMMA CopyOver ==
    ASSUME Sound, WriteCopy
    PROVE  \E f \in todo, from \in Sides :
             LET to == Other(from) IN
             /\ f \in Fils /\ to \in Sides /\ Has(from, f)
             /\ todo' = todo \ {f} /\ pc = "write" /\ pc' = "copyFils"
             /\ UpdOf(fils[to][f]) < fils[from][f].upd
             /\ fils'[to][f] \in Fil /\ fils'[to][f].upd = fils[from][f].upd
             /\ fils'[to][f].parent \in {None, Translate(filMap, to, fils[from][f].parent)}
             /\ before[to][f] = fils[to][f]
             /\ ParentAsWritten(from, f) /\ fils'[from][f] = fils[from][f]
             /\ \A t \in Sides, g \in Fils : (t # to \/ g # f) => fils'[t][g] = fils[t][g]
             /\ UNCHANGED <<ids, want, before, seen, fixes>>
<1> DEFINE f == job.row
           from == Newer(f)
           to == Other(from)
<1>1. /\ job.to = to /\ job.full = fils[from][f] /\ f \in todo /\ pc = "write"
  BY SoundHas DEF CopyIsSource, WriteCopy
<1>2. f \in Fils /\ from \in Sides /\ fils[from][f] \in Fil
  BY <1>1, NewerIsThere, SoundHas
<1>3. Has(from, f) /\ to \in Sides /\ to # from
  BY <1>2, NoneApart, SidesTwo DEF Has
<1>4. Puts(to, f, Copy) /\ Copy \in Fil /\ Copy.upd = fils[from][f].upd
      /\ Copy.parent = Translate(filMap, to, fils[from][f].parent)
  BY <1>1, WriteCopyPuts, SoundHas DEF Puts
<1>5. /\ fils'[to][f] = Copy
      /\ \A t \in Sides, g \in Fils : (t # to \/ g # f) => fils'[t][g] = fils[t][g]
  BY <1>2, <1>3, <1>4, PutGrows, SoundHas
<1>6. \A side \in Sides : fils[side][f] = before[side][f] /\ fils[side][f] = seen[side][f]
                          /\ ParentAsWritten(side, f)
  BY <1>1 DEF Sound, Unfailed, CopyStage
<1>7. UpdOf(fils[to][f]) < fils[from][f].upd
  <2>1. UpdOf(seen["local"][f]) # UpdOf(seen["remote"][f])
    BY <1>1, SoundHas DEF TInv, TodoDiffers
  <2>2. \A side \in Sides : UpdOf(seen[side][f]) \in Nat /\ seen[side][f] = fils[side][f]
    BY <1>2, <1>6, UpdTyped, SoundHas DEF TInv, TypeOK, Doc
  <2>3. UpdOf(seen[to][f]) < UpdOf(seen[from][f])
    BY <2>1, <2>2, <1>2, <1>3, SidesTwo DEF Newer
  <2>4. UpdOf(fils[from][f]) = fils[from][f].upd
    BY <1>2, UpdTyped
  <2> QED
    BY <2>2, <2>3, <2>4, <1>2, <1>3
<1>8. todo' = todo \ {f} /\ pc' = "copyFils" /\ UNCHANGED <<ids, want, before, seen, fixes>>
  BY DEF WriteCopy, maps
<1> HIDE DEF f, from
<1> QED
  BY <1>1, <1>2, <1>3, <1>4, <1>5, <1>6, <1>7, <1>8

\* What a repaired parent does: one field of a row that is there.
LEMMA FixOver ==
    ASSUME Sound, NEW x \in fixes, FixParent(x)
    PROVE  /\ x.side \in Sides /\ x.row \in Fils /\ Has(x.side, x.row)
           /\ fils'[x.side][x.row] \in Fil /\ fils'[x.side][x.row].parent = x.ref
           /\ fils'[x.side][x.row].upd = fils[x.side][x.row].upd
           /\ \A t \in Sides, g \in Fils :
                 (t # x.side \/ g # x.row) => fils'[t][g] = fils[t][g]
           /\ fixes' = fixes \ {x} /\ pc = "fixParents"
           /\ UNCHANGED <<pc, ids, want, before, seen, todo>>
<1> DEFINE d == [fils[x.side][x.row] EXCEPT !.parent = x.ref]
<1>1. /\ Puts(x.side, x.row, d) /\ fils[x.side][x.row] \in Fil
      /\ d.parent = x.ref /\ d.upd = fils[x.side][x.row].upd
  BY SoundHas, FixParentPuts DEF Fil
<1>2. x.side \in Sides /\ x.row \in Fils /\ d \in Fil /\ Has(x.side, x.row)
  BY <1>1, NoneApart DEF Puts, Has
<1>3. UNCHANGED <<pc, ids, want, before, seen, todo>> /\ fixes' = fixes \ {x} /\ pc = "fixParents"
  BY DEF FixParent, maps
<1> HIDE DEF d
<1>4. /\ fils'[x.side][x.row] = d
      /\ \A t \in Sides, g \in Fils : (t # x.side \/ g # x.row) => fils'[t][g] = fils[t][g]
  BY <1>1, <1>2, PutGrows, SoundHas
<1> QED
  BY <1>1, <1>2, <1>3, <1>4

\* The steps of a sound play, by what they write.
LEMMA SoundSteps ==
    ASSUME Sound, [QuietNext]_vars, play'.faults = 0
    PROVE  \/ UNCHANGED vars
           \/ pc = "idle" /\ \E s \in Sides, l \in Locs : CreateLoc(s, l)
           \/ pc = "idle" /\ \E s \in Sides, f \in Fils : \E d \in Fil : AppWrites(s, f, d)
           \/ ReadingStep
           \/ \E l \in Locs : CopyLoc(l)
           \/ \E x \in fixes : FixParent(x)
           \/ WriteCopy
<1>1. ~CycleFails
  BY SoundHas, NothingFails DEF Sound, Unfailed
<1>2. \A x \in fixes : ~FixSpool(x)
  BY SoundHas DEF NothingStray, FixSpool
<1> QED
  BY <1>1, <1>2, QuietSteps, AppStep, SoundHas DEF WritingStep

LEMMA NewestNext ==
    ASSUME Sound, [QuietNext]_vars, play'.faults = 0
    PROVE  NewestIsThere'
<1>n. NewestIsThere
  BY DEF Sound, Unfailed
<1>1. CASE UNCHANGED vars \/ ReadingStep \/ (\E s \in Sides, l \in Locs : CreateLoc(s, l))
           \/ (\E l \in Locs : CopyLoc(l))
  <2>1. UNCHANGED <<fils, want>>
    BY <1>1, ReadingKeepsRows DEF vars, data, CreateLoc, CopyLoc
  <2> QED
    BY <2>1, <1>n DEF NewestIsThere, AsLastWritten, Has
<1>2. CASE \E s \in Sides, f \in Fils : \E d \in Fil : AppWrites(s, f, d)
  <2>1. PICK s \in Sides, f \in Fils : \E d \in Fil : AppWrites(s, f, d)
    BY <1>2
  <2>2. PICK d \in Fil : AppWrites(s, f, d)
    BY <2>1
  <2> DEFINE e == [d EXCEPT !.upd = clock + 1]
  <2>3. /\ fils'[s][f] = e /\ want'[f].upd = clock + 1
        /\ \A t \in Sides, g \in Fils : (t # s \/ g # f) => fils'[t][g] = fils[t][g]
        /\ \A g \in Fils : g # f => want'[g] = want[g]
    BY <2>2, AppKeeps, SoundHas
  <2>4. e.upd = clock + 1 /\ e # None
    <3>1. clock + 1 \in Nat
      BY SoundHas DEF TInv, TypeOK
    <3> QED
      BY <3>1, FilTyped, NoneApart DEF Fil
  <2> HIDE DEF e
  <2>5. ASSUME NEW g \in Fils, want'[g] # None
        PROVE  \E side \in Sides : AsLastWritten(side, g)'
    <3>1. CASE g = f
      BY <3>1, <2>3, <2>4 DEF AsLastWritten, Has
    <3>2. CASE g # f
      <4>1. PICK side \in Sides : AsLastWritten(side, g)
        BY <3>2, <2>3, <2>5, <1>n DEF NewestIsThere
      <4> QED
        BY <4>1, <3>2, <2>3 DEF AsLastWritten, Has
    <3> QED
      BY <3>1, <3>2
  <2> QED
    BY <2>5 DEF NewestIsThere
<1>3. CASE \E x \in fixes : FixParent(x)
  <2>1. PICK x \in fixes : FixParent(x)
    BY <1>3
  <2>2. ASSUME NEW g \in Fils, want'[g] # None
        PROVE  \E side \in Sides : AsLastWritten(side, g)'
    <3>1. PICK side \in Sides : AsLastWritten(side, g)
      BY <2>1, <2>2, FixOver, <1>n DEF NewestIsThere
    <3>2. AsLastWritten(side, g)'
      BY <2>1, <3>1, FixOver, NoneApart DEF AsLastWritten, Has
    <3> QED
      BY <3>2
  <2> QED
    BY <2>2 DEF NewestIsThere
<1>4. CASE WriteCopy
  <2>1. PICK f \in todo, from \in Sides :
             LET to == Other(from) IN
             /\ f \in Fils /\ to \in Sides /\ Has(from, f)
             /\ UpdOf(fils[to][f]) < fils[from][f].upd
             /\ \A t \in Sides, g \in Fils : (t # to \/ g # f) => fils'[t][g] = fils[t][g]
             /\ want' = want
    BY <1>4, CopyOver
  <2>2. ASSUME NEW g \in Fils, want'[g] # None
        PROVE  \E side \in Sides : AsLastWritten(side, g)'
    <3>1. PICK side \in Sides : AsLastWritten(side, g)
      BY <2>1, <2>2, <1>n DEF NewestIsThere
    <3>2. side # Other(from) \/ g # f
      <4>1. SUFFICES ASSUME side = Other(from), g = f PROVE FALSE
        OBVIOUS
      <4>2. fils[from][f].upd <= want[f].upd /\ fils[from][f].upd \in Nat /\ want[f].upd \in Nat
        BY <2>1, SoundHas
      <4>3. UpdOf(fils[side][f]) = want[f].upd
        BY <3>1, <4>1, SoundHas DEF AsLastWritten
      <4> QED
        BY <2>1, <4>1, <4>2, <4>3
    <3>3. AsLastWritten(side, g)'
      BY <2>1, <3>1, <3>2 DEF AsLastWritten, Has
    <3> QED
      BY <3>3
  <2> QED
    BY <2>2 DEF NewestIsThere
<1> QED
  BY <1>1, <1>2, <1>3, <1>4, SoundSteps

LEMMA IdsStageNext ==
    ASSUME Sound, [QuietNext]_vars, play'.faults = 0
    PROVE  IdsStage'
<1>n. IdsStage /\ ~aborted /\ errored = {}
  BY DEF Sound, Unfailed
<1>1. CASE UNCHANGED vars
  BY <1>1, <1>n DEF vars, data, IdsStage, HeldFils, Has
<1>2. CASE \/ pc = "idle" /\ \E s \in Sides, l \in Locs : CreateLoc(s, l)
           \/ pc = "idle" /\ \E s \in Sides, f \in Fils : \E d \in Fil : AppWrites(s, f, d)
  <2>1. pc' = "idle"
    BY <1>2 DEF CreateLoc, AppWrites, WriteFil
  <2> QED
    BY <2>1 DEF IdsStage
<1>3. CASE ReadingStep
  <2>1. fils' = fils
    BY <1>3, ReadingKeepsRows
  <2>2. CASE BackfillFils \/ ReadFils
    <3>1. \A side \in Sides : HeldFils(side) \subseteq ids'
      BY <2>2, <1>n, SidesTwo DEF BackfillFils, ReadFils, Skipped
    <3> QED
      BY <3>1, <2>1 DEF IdsStage, HeldFils, Has
  <2>3. CASE \/ BuildFilMaps \/ (\E f \in Fils : Hydrate(f)) \/ FilsDone \/ ReadParents
    <3>1. /\ pc \in {"filMaps", "copyFils", "repair"} /\ ids' = ids
      BY <2>3 DEF BuildFilMaps, Hydrate, FilsDone, ReadParents, data
    <3> QED
      BY <3>1, <2>1, <1>n DEF IdsStage, HeldFils, Has
  <2>4. CASE \/ StartCycle \/ ReadLocs \/ LocsDone \/ BuildLocMaps
             \/ ReadSpools("local", "spoolsLocal", "fixLocal")
             \/ ReadSpools("remote", "spoolsRemote", "fixRemote")
             \/ SpoolsFixed("fixLocal", "spoolsRemote") \/ SpoolsFixed("fixRemote", "backfill")
             \/ ParentsFixed \/ EndCycle
    <3>1. pc' \notin {"filMaps", "filaments", "copyFils", "write", "repair", "fixParents"}
      BY <2>4 DEF StartCycle, ReadLocs, LocsDone, BuildLocMaps, ReadSpools, SpoolsFixed,
        ParentsFixed, EndCycle, Forget
    <3> QED
      BY <3>1 DEF IdsStage
  <2> QED
    BY <1>3, <2>2, <2>3, <2>4 DEF ReadingStep
<1>4. CASE \E l \in Locs : CopyLoc(l)
  BY <1>4 DEF CopyLoc, IdsStage
<1>5. CASE \E x \in fixes : FixParent(x)
  <2>1. PICK x \in fixes : FixParent(x)
    BY <1>5
  <2>2. \A side \in Sides, f \in Fils : Has(side, f)' => Has(side, f)
    BY <2>1, FixOver DEF Has
  <2> QED
    BY <2>1, <2>2, FixOver, <1>n DEF IdsStage, HeldFils
<1>6. CASE WriteCopy
  <2>1. PICK f \in todo, from \in Sides :
             LET to == Other(from) IN
             /\ f \in Fils /\ to \in Sides /\ Has(from, f) /\ pc = "write"
             /\ \A t \in Sides, g \in Fils : (t # to \/ g # f) => fils'[t][g] = fils[t][g]
             /\ ids' = ids
    BY <1>6, CopyOver
  <2>2. \A side \in Sides : HeldFils(side) \subseteq ids
    BY <2>1, <1>n DEF IdsStage
  <2>3. f \in ids
    BY <2>1, <2>2 DEF HeldFils
  <2>4. \A side \in Sides, g \in Fils : Has(side, g)' => g \in ids
    BY <2>1, <2>2, <2>3 DEF HeldFils, Has
  <2> QED
    BY <2>1, <2>4 DEF IdsStage, HeldFils
<1> QED
  BY <1>1, <1>2, <1>3, <1>4, <1>5, <1>6, SoundSteps

\* Rows that the two databases have under one stamp are on both.
LEMMA CopyStageNext ==
    ASSUME Sound, [QuietNext]_vars, play'.faults = 0
    PROVE  CopyStage'
<1>n. CopyStage /\ ParentStage /\ ~aborted /\ errored = {}
  BY DEF Sound, Unfailed
<1>1. CASE UNCHANGED vars
  BY <1>1, <1>n DEF vars, data, cycle, maps, CopyStage, SameUpd, UpdOf, ParentAsWritten, Has
<1>2. CASE \/ pc = "idle" /\ \E s \in Sides, l \in Locs : CreateLoc(s, l)
           \/ pc = "idle" /\ \E s \in Sides, f \in Fils : \E d \in Fil : AppWrites(s, f, d)
  <2>1. pc' = "idle"
    BY <1>2 DEF CreateLoc, AppWrites, WriteFil
  <2> QED
    BY <2>1 DEF CopyStage
<1>3. CASE ReadingStep
  <2>1. fils' = fils /\ want' = want
    BY <1>3, ReadingKeepsRows
  <2>2. CASE BuildFilMaps
    BY <2>2, <2>1 DEF BuildFilMaps, CopyStage
  <2>3. CASE ReadFils
    <3>1. /\ pc = "filaments" /\ pc' = "copyFils" /\ seen' = fils /\ before' = before
          /\ todo' = {f \in Fils : UpdOf(fils["local"][f]) # UpdOf(fils["remote"][f])}
      BY <2>3, <1>n DEF ReadFils, Skipped
    <3>2. before = fils /\ \A side \in Sides, f \in Fils : ParentAsWritten(side, f)
      BY <3>1, <1>n DEF CopyStage, ParentStage
    <3>3. \A side \in Sides, f \in Fils : ParentAsWritten(side, f)'
      BY <3>2, <2>1 DEF ParentAsWritten, Has
    <3>4. \A f \in Fils \ todo' : SameUpd(f)'
      BY <3>1, <2>1 DEF SameUpd, UpdOf
    <3> QED
      BY <3>1, <3>2, <3>3, <3>4, <2>1 DEF CopyStage
  <2>4. CASE \E f \in Fils : Hydrate(f)
    <3>1. /\ pc = "copyFils" /\ pc' = "write" /\ UNCHANGED <<before, seen, todo>>
      BY <2>4 DEF Hydrate, maps
    <3>2. \A side \in Sides, f \in todo : ParentAsWritten(side, f)'
      BY <3>1, <2>1, <1>n DEF CopyStage, ParentAsWritten, Has
    <3>3. \A f \in Fils \ todo : SameUpd(f)'
      BY <3>1, <2>1, <1>n DEF CopyStage, SameUpd, UpdOf
    <3> QED
      BY <3>1, <3>2, <3>3, <2>1, <1>n DEF CopyStage
  <2>5. CASE FilsDone \/ ReadParents
    <3>1. /\ (pc = "copyFils" /\ todo = {}) \/ pc = "repair"
          /\ pc' \in {"repair", "fixParents", "end"}
      BY <2>5 DEF FilsDone, ReadParents
    <3>2. \A f \in Fils : SameUpd(f)
      BY <3>1, <1>n DEF CopyStage
    <3>3. \A f \in Fils : SameUpd(f)'
      BY <3>2, <2>1 DEF SameUpd, UpdOf
    <3> QED
      BY <3>1, <3>3 DEF CopyStage
  <2>6. CASE \/ StartCycle \/ ReadLocs \/ LocsDone \/ BuildLocMaps
             \/ ReadSpools("local", "spoolsLocal", "fixLocal")
             \/ ReadSpools("remote", "spoolsRemote", "fixRemote")
             \/ SpoolsFixed("fixLocal", "spoolsRemote") \/ SpoolsFixed("fixRemote", "backfill")
             \/ BackfillFils \/ ParentsFixed \/ EndCycle
    <3>1. pc' \notin {"filaments", "copyFils", "write", "repair", "fixParents"}
      BY <2>6 DEF StartCycle, ReadLocs, LocsDone, BuildLocMaps, ReadSpools, SpoolsFixed,
        BackfillFils, ParentsFixed, EndCycle, Forget
    <3> QED
      BY <3>1 DEF CopyStage
  <2> QED
    BY <1>3, <2>2, <2>3, <2>4, <2>5, <2>6 DEF ReadingStep
<1>4. CASE \E l \in Locs : CopyLoc(l)
  BY <1>4 DEF CopyLoc, CopyStage
<1>5. CASE \E x \in fixes : FixParent(x)
  <2>1. PICK x \in fixes : FixParent(x)
    BY <1>5
  <2>2. ASSUME NEW f \in Fils PROVE SameUpd(f)'
    <3>1. SameUpd(f)
      BY <2>1, FixOver, <1>n DEF CopyStage
    <3>2. \A side \in Sides : UpdOf(fils'[side][f]) = UpdOf(fils[side][f])
      BY <2>1, FixOver, UpdTyped, SoundHas
    <3> QED
      BY <3>1, <3>2, SidesTwo DEF SameUpd, UpdOf
  <2> QED
    BY <2>1, <2>2, FixOver DEF CopyStage
<1>6. CASE WriteCopy
  <2>1. PICK f \in todo, from \in Sides :
             LET to == Other(from) IN
             /\ f \in Fils /\ to \in Sides /\ Has(from, f)
             /\ todo' = todo \ {f} /\ pc = "write" /\ pc' = "copyFils"
             /\ fils'[to][f] \in Fil /\ fils'[to][f].upd = fils[from][f].upd
             /\ fils'[from][f] = fils[from][f]
             /\ \A t \in Sides, g \in Fils : (t # to \/ g # f) => fils'[t][g] = fils[t][g]
             /\ UNCHANGED <<want, before, seen>>
    BY <1>6, CopyOver
  <2>2. SameUpd(f)'
    <3>1. UpdOf(fils'[from][f]) = UpdOf(fils'[Other(from)][f])
      BY <2>1, UpdTyped, SoundHas
    <3> QED
      BY <3>1, SidesTwo DEF SameUpd, UpdOf, Other
  <2>3. ASSUME NEW g \in Fils \ todo', g # f PROVE SameUpd(g)'
    <3>1. SameUpd(g)
      BY <2>1, <2>3, <1>n DEF CopyStage
    <3>2. \A side \in Sides : fils'[side][g] = fils[side][g]
      BY <2>1, <2>3
    <3> QED
      BY <3>1, <3>2, SidesTwo DEF SameUpd, UpdOf
  <2>4. ASSUME NEW side \in Sides, NEW g \in todo'
        PROVE  /\ fils'[side][g] = before[side][g] /\ fils'[side][g] = seen[side][g]
               /\ ParentAsWritten(side, g)'
    <3>1. g \in todo /\ g # f /\ g \in Fils
      BY <2>1, <2>4, SoundHas DEF TInv, TodoDiffers
    <3>2. fils'[side][g] = fils[side][g]
      BY <2>1, <3>1
    <3>3. /\ fils[side][g] = before[side][g] /\ fils[side][g] = seen[side][g]
          /\ ParentAsWritten(side, g)
      BY <2>1, <3>1, <1>n DEF CopyStage
    <3> QED
      BY <2>1, <3>2, <3>3 DEF ParentAsWritten, Has
  <2> QED
    BY <2>1, <2>2, <2>3, <2>4 DEF CopyStage
<1> QED
  BY <1>1, <1>2, <1>3, <1>4, <1>5, <1>6, SoundSteps

\* A row the repair looks for: the copy dropped its parent, the other side knows it.
LEMMA LostIsFound ==
    ASSUME Sound, pc = "repair", NEW side \in Sides, NEW f \in Fils, ~ParentAsWritten(side, f)
    PROVE  NeedsParent(side, f)
<1> DEFINE other == Other(side)
           there == fils[other][f]
           p == want[f].parent
<1>1. /\ Has(side, f) /\ fils[side][f].upd = want[f].upd
      /\ fils[side][f].parent # Id(side, p)
  BY DEF ParentAsWritten
<1>2. LostParent(side, f) /\ other \in Sides /\ Other(other) = side
  BY SidesTwo DEF Sound, Unfailed, ParentStage
<1>3. /\ fils[side][f].parent = None /\ UpdOf(before[side][f]) # fils[side][f].upd
      /\ Has(other, f) /\ there.parent = Id(other, p)
  BY <1>2 DEF LostParent, AsLastWritten, ParentAsWritten
<1>4. p # None /\ p \in Fils /\ there.parent = <<other, p>>
  BY <1>1, <1>3, SoundHas DEF Id
<1>5. p \in HeldFils(other)
  <2>1. there.parent \in FilRefs(other)
    BY <1>2, <1>3, SoundHas DEF Resolves, Resolving
  <2>2. PICK q \in HeldFils(other) \cup {None} : there.parent = Id(other, q)
    BY <2>1 DEF FilRefs
  <2>3. <<other, p>> # None
    BY <1>2, <1>4, RefsAssumption
  <2>4. q # None /\ there.parent = <<other, q>>
    BY <2>2, <2>3, <1>4 DEF Id
  <2>5. q = p
    BY <2>4, <1>4
  <2> QED
    BY <2>2, <2>4, <2>5
<1>6. Has(other, p) /\ Has(side, p)
  <2>1. Has(other, p) /\ SameUpd(p)
    BY <1>4, <1>5 DEF HeldFils, Sound, Unfailed, CopyStage
  <2>2. UpdOf(fils[other][p]) # 0 /\ UpdOf(fils[side][p]) = UpdOf(fils[other][p])
    BY <2>1, <1>2, <1>4, SoundHas, SidesTwo DEF SameUpd, Other
  <2> QED
    BY <2>1, <2>2, <1>4, SoundHas
<1>7. f \in ids /\ p \in ids
  <2>1. HeldFils(side) \subseteq ids /\ HeldFils(other) \subseteq ids
    BY <1>2 DEF Sound, Unfailed, IdsStage
  <2> QED
    BY <2>1, <1>1, <1>5 DEF HeldFils
<1>8. Expected(side, f) = Id(side, p)
  <2>1. there # None /\ there.parent \in {other} \X ids /\ there.parent[2] = p
    BY <1>3, <1>4, <1>7 DEF Has
  <2> QED
    BY <2>1, <1>6 DEF Expected
<1>9. Expected(side, f) # None
  BY <1>8, <1>4, NoneApart
<1>10. Touched(side, f)
  BY <1>1, <1>3, SoundHas DEF Touched
<1> QED
  BY <1>1, <1>3, <1>7, <1>9, <1>10 DEF NeedsParent

\* What the repair decides on is the parent that was last written.
LEMMA FoundIsWanted ==
    ASSUME Sound, pc = "repair", NEW side \in Sides, NEW f \in Fils, NeedsParent(side, f)
    PROVE  Expected(side, f) = Id(side, want[f].parent)
<1> DEFINE other == Other(side)
           there == fils[other][f]
           p == want[f].parent
<1>1. Has(side, f) /\ other \in Sides /\ Other(other) = side /\ other # side
  BY SidesTwo DEF NeedsParent
<1>2. ~Dangling(side, f)
  <2>1. fils[side][f].parent \in FilRefs(side)
    BY <1>1, SoundHas DEF Resolves, Resolving
  <2>2. PICK q \in HeldFils(side) \cup {None} : fils[side][f].parent = Id(side, q)
    BY <2>1 DEF FilRefs
  <2> QED
    BY <2>2 DEF Dangling, Id, HeldFils
<1>3. Expected(side, f) # None
  BY <1>2 DEF NeedsParent
<1>4. /\ Has(other, f) /\ there.parent \in {other} \X ids
      /\ Expected(side, f) = Id(side, there.parent[2])
  BY <1>3 DEF Expected, Has
<1>5. AsLastWritten(other, f)
  <2>1. want[f] # None /\ SameUpd(f)
    BY <1>1, SoundHas DEF Sound, Unfailed, CopyStage
  <2>2. PICK t \in Sides : AsLastWritten(t, f)
    BY <2>1 DEF Sound, Unfailed, NewestIsThere
  <2>3. fils[other][f].upd = fils[side][f].upd
    BY <2>1, <1>1, <1>4, SoundHas, SidesTwo DEF SameUpd, Other
  <2>4. t = side \/ t = other
    BY <1>1, SidesTwo
  <2> QED
    BY <2>2, <2>3, <2>4, <1>4 DEF AsLastWritten
<1>6. there.parent # None
  BY <1>4, <1>1, SoundHas, RefsAssumption DEF TInv, TypeOK
<1>7. there.parent = Id(other, p)
  BY <1>1, <1>5, <1>6 DEF Sound, Unfailed, ParentStage, LostParent, ParentAsWritten, AsLastWritten
<1>8. p # None /\ there.parent[2] = p
  BY <1>6, <1>7 DEF Id
<1> QED
  BY <1>4, <1>8

LEMMA ParentStageNext ==
    ASSUME Sound, [QuietNext]_vars, play'.faults = 0
    PROVE  ParentStage'
<1>n. CopyStage /\ ParentStage /\ ~aborted /\ errored = {}
  BY DEF Sound, Unfailed
<1>1. CASE UNCHANGED vars
  <2>1. UNCHANGED <<pc, fils, want, before, fixes>>
    BY <1>1 DEF vars, data, cycle, maps
  <2> QED
    BY <2>1, <1>n DEF ParentStage, LostParent, AsLastWritten, ParentAsWritten, Has, UpdOf
<1>2. CASE pc = "idle" /\ \E s \in Sides, l \in Locs : CreateLoc(s, l)
  BY <1>2, <1>n DEF CreateLoc, ParentStage, ParentAsWritten, Has
<1>3. CASE pc = "idle" /\ \E s \in Sides, f \in Fils : \E d \in Fil : AppWrites(s, f, d)
  <2>1. PICK s \in Sides, f \in Fils : \E d \in Fil : AppWrites(s, f, d)
    BY <1>3
  <2>2. PICK d \in Fil : AppWrites(s, f, d)
    BY <2>1
  <2> DEFINE e == [d EXCEPT !.upd = clock + 1]
  <2>3. /\ fils'[s][f] = e /\ want'[f].upd = clock + 1
        /\ \A t \in Sides, g \in Fils : (t # s \/ g # f) => fils'[t][g] = fils[t][g]
        /\ d.parent = Id(s, want'[f].parent)
        /\ \A g \in Fils : g # f => want'[g] = want[g]
    BY <2>2, AppKeeps, SoundHas
  <2>4. e.parent = d.parent
    BY DEF Fil
  <2>5. pc' = "idle"
    BY <1>3, <2>2 DEF AppWrites, WriteFil
  <2> HIDE DEF e
  <2>6. ASSUME NEW t \in Sides, NEW g \in Fils
        PROVE  ParentAsWritten(t, g)'
    <3>0. ParentAsWritten(t, g)
      BY <1>3, <1>n DEF ParentStage
    <3>1. CASE t = s /\ g = f
      BY <3>1, <2>3, <2>4 DEF ParentAsWritten
    <3>2. CASE g # f
      BY <3>0, <3>2, <2>3 DEF ParentAsWritten, Has
    <3>3. CASE t # s /\ g = f
      <4>1. fils'[t][f] = fils[t][f]
        BY <3>3, <2>3
      <4>2. Has(t, f) => fils[t][f].upd \in Nat /\ fils[t][f].upd <= clock
        <5>1. Has(t, f) => /\ fils[t][f].upd <= want[f].upd /\ want[f].upd <= clock
                           /\ fils[t][f].upd \in Nat /\ want[f].upd \in Nat
          BY SoundHas DEF Stamped
        <5> QED
          BY <5>1, SoundHas DEF TInv, TypeOK
      <4>3. clock \in Nat
        BY SoundHas DEF TInv, TypeOK
      <4> QED
        BY <3>3, <4>1, <4>2, <4>3, <2>3 DEF ParentAsWritten, Has
    <3> QED
      BY <3>1, <3>2, <3>3
  <2> QED
    BY <2>5, <2>6 DEF ParentStage
<1>4. CASE ReadingStep
  <2>1. fils' = fils /\ want' = want
    BY <1>4, ReadingKeepsRows
  <2>p. /\ \A t \in Sides, g \in Fils : ParentAsWritten(t, g) <=> ParentAsWritten(t, g)'
        /\ \A t \in Sides, g \in Fils : AsLastWritten(t, g) <=> AsLastWritten(t, g)'
    BY <2>1 DEF ParentAsWritten, AsLastWritten, Has
  <2>2. CASE ReadParents
    <3>1. /\ pc = "repair" /\ pc' = "fixParents"
          /\ fixes' = {[side |-> sf[1], row |-> sf[2], ref |-> Expected(sf[1], sf[2])] :
                          sf \in {x \in Sides \X Fils : NeedsParent(x[1], x[2])}}
      BY <2>2, <1>n DEF ReadParents
    <3>2. ASSUME NEW x \in fixes'
          PROVE  x.ref = Id(x.side, want[x.row].parent)
      <4>1. PICK sf \in Sides \X Fils :
              /\ NeedsParent(sf[1], sf[2])
              /\ x = [side |-> sf[1], row |-> sf[2], ref |-> Expected(sf[1], sf[2])]
        BY <3>1
      <4>2. sf[1] \in Sides /\ sf[2] \in Fils
        OBVIOUS
      <4> QED
        BY <3>1, <4>1, <4>2, FoundIsWanted
    <3>3. ASSUME NEW side \in Sides, NEW f \in Fils, ~ParentAsWritten(side, f)
          PROVE  \E x \in fixes' : x.side = side /\ x.row = f
      <4>1. NeedsParent(side, f)
        BY <3>1, <3>3, LostIsFound
      <4> DEFINE sf == <<side, f>>
                 x == [side |-> side, row |-> f, ref |-> Expected(side, f)]
      <4>2. sf \in Sides \X Fils /\ sf[1] = side /\ sf[2] = f
        OBVIOUS
      <4>3. x \in fixes'
        BY <3>1, <4>1, <4>2
      <4> QED
        BY <4>3
    <3> QED
      BY <3>1, <3>2, <3>3, <2>1, <2>p DEF ParentStage
  <2>3. CASE ReadFils
    <3>1. pc = "filaments" /\ pc' = "copyFils"
      BY <2>3, <1>n DEF ReadFils, Skipped
    <3> QED
      BY <3>1, <2>p, <1>n DEF ParentStage
  <2>4. CASE (\E f \in Fils : Hydrate(f)) \/ FilsDone
    <3>1. /\ pc = "copyFils" /\ pc' \in {"write", "repair"} /\ before' = before
      BY <2>4 DEF Hydrate, FilsDone, cycle, maps
    <3>2. \A t \in Sides, g \in Fils : LostParent(t, g) => LostParent(t, g)'
      BY <3>1, <2>1 DEF LostParent, ParentAsWritten, AsLastWritten, Has, UpdOf
    <3> QED
      BY <3>1, <3>2, <2>p, <1>n DEF ParentStage
  <2>5. CASE ParentsFixed
    <3>1. pc = "fixParents" /\ fixes = {} /\ pc' = "end"
      BY <2>5 DEF ParentsFixed
    <3> QED
      BY <3>1, <2>p, <1>n DEF ParentStage
  <2>6. CASE \/ StartCycle \/ ReadLocs \/ LocsDone \/ BuildLocMaps
             \/ ReadSpools("local", "spoolsLocal", "fixLocal")
             \/ ReadSpools("remote", "spoolsRemote", "fixRemote")
             \/ SpoolsFixed("fixLocal", "spoolsRemote") \/ SpoolsFixed("fixRemote", "backfill")
             \/ BackfillFils \/ BuildFilMaps \/ EndCycle
    <3>1. /\ pc \notin {"copyFils", "write", "repair", "fixParents"}
          /\ pc' \notin {"copyFils", "write", "repair", "fixParents"}
      BY <2>6 DEF StartCycle, ReadLocs, LocsDone, BuildLocMaps, ReadSpools, SpoolsFixed,
        BackfillFils, BuildFilMaps, EndCycle, Forget
    <3> QED
      BY <3>1, <2>p, <1>n DEF ParentStage
  <2> QED
    BY <1>4, <2>2, <2>3, <2>4, <2>5, <2>6 DEF ReadingStep
<1>5. CASE \E l \in Locs : CopyLoc(l)
  BY <1>5, <1>n DEF CopyLoc, ParentStage, ParentAsWritten, Has
<1>6. CASE \E x \in fixes : FixParent(x)
  <2>1. PICK x \in fixes : FixParent(x)
    BY <1>6
  <2>2. /\ x.side \in Sides /\ x.row \in Fils /\ pc = "fixParents" /\ pc' = pc /\ want' = want
        /\ fils'[x.side][x.row].parent = x.ref
        /\ \A t \in Sides, g \in Fils :
              (t # x.side \/ g # x.row) => fils'[t][g] = fils[t][g]
        /\ fixes' = fixes \ {x}
    BY <2>1, FixOver
  <2>3. x.ref = Id(x.side, want[x.row].parent)
    BY <2>2, <1>n DEF ParentStage
  <2>4. ASSUME NEW t \in Sides, NEW g \in Fils
        PROVE  ParentAsWritten(t, g)' \/ \E y \in fixes' : y.side = t /\ y.row = g
    <3>1. CASE t = x.side /\ g = x.row
      BY <3>1, <2>2, <2>3 DEF ParentAsWritten
    <3>2. CASE t # x.side \/ g # x.row
      <4>1. ParentAsWritten(t, g) \/ \E y \in fixes : y.side = t /\ y.row = g
        BY <2>2, <1>n DEF ParentStage
      <4>2. ParentAsWritten(t, g) => ParentAsWritten(t, g)'
        BY <3>2, <2>2 DEF ParentAsWritten, Has
      <4>3. (\E y \in fixes : y.side = t /\ y.row = g) => \E y \in fixes' : y.side = t /\ y.row = g
        BY <3>2, <2>2
      <4> QED
        BY <4>1, <4>2, <4>3
    <3> QED
      BY <3>1, <3>2
  <2>5. \A y \in fixes' : y.ref = Id(y.side, want'[y.row].parent)
    BY <2>2, <1>n DEF ParentStage
  <2> QED
    BY <2>2, <2>4, <2>5 DEF ParentStage
<1>7. CASE WriteCopy
  <2>1. PICK f \in todo, from \in Sides :
             LET to == Other(from) IN
             /\ f \in Fils /\ to \in Sides /\ Has(from, f)
             /\ pc = "write" /\ pc' = "copyFils"
             /\ UpdOf(fils[to][f]) < fils[from][f].upd
             /\ fils'[to][f] \in Fil /\ fils'[to][f].upd = fils[from][f].upd
             /\ fils'[to][f].parent \in {None, Translate(filMap, to, fils[from][f].parent)}
             /\ before[to][f] = fils[to][f]
             /\ ParentAsWritten(from, f) /\ fils'[from][f] = fils[from][f]
             /\ \A t \in Sides, g \in Fils : (t # to \/ g # f) => fils'[t][g] = fils[t][g]
             /\ UNCHANGED <<want, before>>
    BY <1>7, CopyOver
  <2> DEFINE to == Other(from)
  <2>2. to # from /\ Other(to) = from
    BY SidesTwo
  <2>3. ParentAsWritten(from, f)'
    BY <2>1 DEF ParentAsWritten, Has
  <2>4. ParentAsWritten(to, f)' \/ LostParent(to, f)'
    <3>1. SUFFICES ASSUME ~ParentAsWritten(to, f)' PROVE LostParent(to, f)'
      OBVIOUS
    <3>2. /\ fils'[to][f].upd = want[f].upd
          /\ fils'[to][f].parent # Id(to, want[f].parent)
      BY <3>1, <2>1 DEF ParentAsWritten
    <3>3. fils[from][f].parent = Id(from, want[f].parent)
      BY <3>2, <2>1 DEF ParentAsWritten
    <3>4. Translate(filMap, to, Id(from, want[f].parent)) \in {None, Id(to, want[f].parent)}
      BY <2>2 DEF Translate, Id
    <3>5. fils'[to][f].parent = None
      BY <3>2, <3>3, <3>4, <2>1
    <3>6. UpdOf(before[to][f]) # fils'[to][f].upd
      <4>1. UpdOf(fils[to][f]) \in Nat /\ fils[from][f].upd \in Nat
        BY <2>1, SoundHas, UpdTyped
      <4> QED
        BY <4>1, <2>1
    <3>7. AsLastWritten(from, f)'
      BY <3>2, <2>1, <2>2 DEF AsLastWritten, Has
    <3>8. Has(to, f)'
      BY <2>1, NoneApart DEF Has
    <3>9. UpdOf(before[to][f])' = UpdOf(before[to][f])
      BY <2>1 DEF UpdOf
    <3> QED
      BY <2>1, <2>2, <2>3, <3>5, <3>6, <3>7, <3>8, <3>9 DEF LostParent, UpdOf
  <2>5. ASSUME NEW t \in Sides, NEW g \in Fils, g # f
        PROVE  ParentAsWritten(t, g)' \/ LostParent(t, g)'
    <3>1. \A u \in Sides : fils'[u][g] = fils[u][g]
      BY <2>1, <2>5
    <3>2. ParentAsWritten(t, g) \/ LostParent(t, g)
      BY <2>1, <1>n DEF ParentStage
    <3>3. Other(t) \in Sides
      BY SidesTwo
    <3> QED
      BY <3>1, <3>2, <3>3, <2>1 DEF ParentAsWritten, LostParent, AsLastWritten, Has, UpdOf
  <2>6. ASSUME NEW t \in Sides
        PROVE  ParentAsWritten(t, f)' \/ LostParent(t, f)'
    BY <2>2, <2>3, <2>4, SidesTwo
  <2> QED
    BY <2>1, <2>5, <2>6 DEF ParentStage
<1> QED
  BY <1>1, <1>2, <1>3, <1>4, <1>5, <1>6, <1>7, SoundSteps

LEMMA PInvNext == ASSUME PInv, [QuietNext]_vars PROVE PInv'
<1>1. LInv' /\ TInv /\ Grown /\ LInv
  BY QuietIsNext, LInvNext, Grows DEF PInv, LInv, RInv
<1>2. ASSUME play'.legacy = {}, play'.faults = 0
      PROVE  Unfailed'
  <2>1. play.legacy = {} /\ play.faults = 0
    <3>1. play.legacy = {}
      BY <1>1, <1>2 DEF Grown
    <3>2. CASE CycleFails
      BY <3>2, <1>1, <1>2, FailureKeepsRows, FaultCounts DEF TInv, TypeOK, Play
    <3>3. CASE ~CycleFails
      BY <3>1, <3>3, <1>1, <1>2, QuietSteps, AppKeepsCycle, ReadingKeepsRows
         DEF vars, WritingStep, CopyLoc, FixSpool, FixParent, WriteCopy
    <3> QED
      BY <3>1, <3>2, <3>3
  <2>2. Sound
    BY <2>1 DEF PInv, Sound, Plain, Unfailed
  <2>3. ~aborted' /\ errored' = {}
    BY <1>1, <1>2, <2>2, NothingFails DEF Sound, Unfailed
  <2> QED
    BY <1>2, <2>2, <2>3, NewestNext, CopyStageNext, IdsStageNext, ParentStageNext DEF Unfailed
<1> QED
  BY <1>1, <1>2 DEF PInv, Unfailed

LEMMA PInvInit == Init => PInv
<1> SUFFICES ASSUME Init PROVE PInv
  OBVIOUS
<1>1. /\ pc = "idle" /\ ~aborted /\ errored = {}
      /\ play.legacy = {} => fils = NoFils /\ want = [f \in Fils |-> None]
  BY DEF Init
<1>2. CopyStage /\ IdsStage
  BY <1>1 DEF CopyStage, IdsStage
<1>3. play.legacy = {} => NewestIsThere /\ ParentStage
  BY <1>1, NothingTyped DEF NewestIsThere, ParentStage, ParentAsWritten, Has
<1> QED
  BY <1>1, <1>2, <1>3, LInvInit DEF PInv

\* Locations are kept whatever fails; and between the cycles, as long as none failed,
\* every parent is what the user wrote, although a variant may be copied before it.
THEOREM LinksAreKept == QuietSpec => []LinksKept
<1>1. PInv /\ [QuietNext]_vars => PInv'
  BY PInvNext
<1>2. PInv => LinksKept
  BY DEF PInv, LInv, LinksKept, LocsKept, ParentsKeptAtRest, ParentStage
<1> QED
  BY PInvInit, <1>1, <1>2, PTL DEF QuietSpec

\* The types and the resolving of references hold of a quiet application as well.
THEOREM QuietTyped == QuietSpec => [](TypeOK /\ RefsResolve)
<1>1. RInv /\ [QuietNext]_vars => RInv'
  BY QuietIsNext, RInvNext
<1>2. RInv => TypeOK /\ RefsResolve
  BY RInvResolves DEF RInv, TInv
<1> QED
  BY RInvInit, <1>1, <1>2, PTL DEF QuietSpec
=============================================================================
