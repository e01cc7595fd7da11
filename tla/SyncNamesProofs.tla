--------------------------- MODULE SyncNamesProofs ---------------------------
(***************************************************************************)
(* What SyncNames keeps, for any rows, names, databases and services.      *)
(*                                                                         *)
(* Every write of a name looks whether it is free, so names stay unique.   *)
(* A placeholder bears its row and a nonce that no other pass has, so only *)
(* the pass that moved a row aside can give the row that placeholder, and  *)
(* it does so after it recorded the name.  A sweep that takes a record out *)
(* takes out the one it has read, and the pass writes another, with a new  *)
(* date, once the row is aside.                                            *)
(***************************************************************************)
EXTENDS SyncNames, TLAPS

StagePcs == {"enqueue", "stage", "unqueue", "pull", "push", "retry", "rollback"}
CopyPcs == {"write", "blocker", "source"} \cup StagePcs
Pcs == {"idle", "queue", "entries", "drain", "strays", "peer", "heal", "local", "remote", "rows",
        "settle", "settled"} \cup CopyPcs

StrayType == [row : Rows, p : Placeholders]
StagedType == [side : Sides, row : Rows, o : Names, p : Placeholders]
JobType == [row : Rows \cup {None}, to : Sides, kind : {"none", "insert", "update", "resurrect"},
            full : Doc \cup {NoDoc}, blocker : Rows \cup {None}, o : Names \cup {None}]
Snap == [Sides -> [Rows -> Doc \cup {NoDoc}]]
PassType == [pc : Pcs, side : Sides, entries : SUBSET Record, covered : SUBSET Rows,
             strays : SUBSET StrayType, held : SUBSET Rows, snap : Snap, todo : SUBSET Rows,
             job : JobType, staged : SUBSET StagedType, nonce : Nonces \cup {None},
             drain : Record \cup StagedType \cup StrayType \cup {None}, bad : BOOLEAN]

\* A document that bears a placeholder bears that of its own row.
Bears(d, r) == d # NoDoc /\ IsPlaceholder(d.name) => d.name.row = r

\* What a pass is about.
Shaped(p) ==
    /\ p.pc \in CopyPcs => /\ p.job.row \in Rows /\ p.job.full \in Doc
                           /\ p.job.kind # "none" /\ Bears(p.job.full, p.job.row)
    /\ p.pc \in {"source"} \cup StagePcs => p.job.blocker \in Rows /\ p.job.o \in Names
    /\ p.pc \in StagePcs => p.nonce \in Nonces
    /\ p.pc = "peer" => p.drain \in p.strays
    /\ p.pc = "heal" => /\ p.drain \in StagedType
                        /\ [row |-> p.drain.row, p |-> p.drain.p] \in p.strays
    /\ p.pc = "drain" => p.drain \in Record
    /\ p.pc = "settled" => p.drain \in p.staged
    /\ \A x \in p.staged : p.nonce \in Nonces /\ x.p = [row |-> x.row, nonce |-> p.nonce]
    /\ p.pc \in {"pull", "push", "retry", "rollback"} =>
          [side |-> p.job.to, row |-> p.job.blocker, o |-> p.job.o,
           p |-> [row |-> p.job.blocker, nonce |-> p.nonce]] \in p.staged

Docs == [Stores -> [Rows -> Doc \cup {NoDoc}]]

Typed ==
    /\ play \in Play
    /\ clock \in Nat /\ clock + play.edits = MaxTime
    /\ doc \in Docs
    /\ queue \in [Stores -> SUBSET Record]
    /\ pass \in [Services -> PassType]
    /\ dirty \in [Services -> SUBSET Rows]

\* No two live rows of a database have one name.
Unique ==
    \A db \in Stores : \A q, r \in Rows :
        (Live(doc[db][q]) /\ Live(doc[db][r]) /\ doc[db][q].name = doc[db][r].name) => q = r
Own == \A db \in Stores, r \in Rows : Bears(doc[db][r], r)
\* Rows do not vanish: those a pass has seen or moved aside are still there.
Grounded(s, p) ==
    /\ \A side \in Sides, r \in Rows : p.snap[side][r] # NoDoc => doc[Db(s, side)][r] # NoDoc
    /\ \A x \in p.strays : doc[Db(s, p.side)][x.row] # NoDoc
    /\ \A x \in p.staged : doc[Db(s, x.side)][x.row] # NoDoc

Keeps == Typed /\ Unique /\ Own /\ \A s \in Services : Shaped(pass[s]) /\ Grounded(s, pass[s])

-----------------------------------------------------------------------------
(* Types of a step of one pass.                                            *)

LEMMA Places ==
    /\ Remote \in Stores
    /\ \A s \in Services : LocalOf[s] \in Stores
    /\ \A s \in Services, side \in Sides : Db(s, side) \in Stores /\ Other(side) \in Sides
BY SyncNamesAssumption DEF Stores, Db, Sides, Other

LEMMA NoJobTyped ==
    /\ NoJob \in JobType
    /\ NoJob.row = None /\ NoJob.kind = "none"
BY DEF NoJob, JobType, Sides

LEMMA IdleTyped ==
    /\ Idle \in PassType /\ Shaped(Idle)
    /\ Idle.pc = "idle" /\ Idle.staged = {} /\ Idle.strays = {} /\ Idle.nonce = None
    /\ \A side \in Sides, r \in Rows : Idle.snap[side][r] = NoDoc
<1> DEFINE none == [side \in Sides |-> [r \in Rows |-> NoDoc]]
<1>1. none \in Snap
  BY DEF Snap
<1> HIDE DEF none
<1>2. Idle.snap = none /\ Idle \in PassType
  BY <1>1, NoJobTyped DEF Idle, PassType, Pcs, Sides, none
<1>3. /\ Idle.pc = "idle" /\ Idle.staged = {} /\ Idle.strays = {} /\ Idle.nonce = None
  BY DEF Idle
<1> QED  BY <1>2, <1>3 DEF Shaped, none, CopyPcs, StagePcs

\* A step that changes one pass.
Sound(s, q) == q \in PassType /\ Shaped(q) /\ Grounded(s, q)
OnlyPass(s, q) == Sound(s, q) /\ pass' = [pass EXCEPT ![s] = q]

LEMMA SoundPass ==
    ASSUME Keeps, NEW s \in Services
    PROVE  Sound(s, pass[s]) /\ Here(s) \in Stores
BY Places DEF Keeps, Typed, Sound, Here, PassType

LEMMA IdleSound ==
    ASSUME NEW s \in Services
    PROVE  Sound(s, Idle)
BY IdleTyped DEF Sound, Grounded

\* A pass that goes on to something that is no copy.
CalmPcs == Pcs \ (CopyPcs \cup {"drain", "settled", "peer", "heal"})

LEMMA Onward ==
    ASSUME NEW s \in Services, NEW p, Sound(s, p), NEW q \in PassType, q.pc \in CalmPcs,
           q.staged \subseteq p.staged, q.nonce = p.nonce, q.snap = p.snap,
           q.strays \subseteq p.strays, q.side = p.side \/ q.strays = {}
    PROVE  Sound(s, q)
<1>1. Shaped(q)
  BY DEF Sound, Shaped, CalmPcs, CopyPcs, StagePcs
<1>2. Grounded(s, q)
  BY DEF Sound, Grounded
<1> QED  BY <1>1, <1>2 DEF Sound

LEMMA StartPass ==
    ASSUME Keeps, NEW s \in Services, Start(s)
    PROVE  \E q : OnlyPass(s, q)
<1> DEFINE q == [Idle EXCEPT !.pc = "queue"]
<1>1. /\ q \in PassType /\ q.staged = Idle.staged /\ q.nonce = Idle.nonce /\ q.pc = "queue"
      /\ q.snap = Idle.snap /\ q.strays = Idle.strays /\ q.side = Idle.side
  BY IdleTyped DEF PassType, Pcs
<1> HIDE DEF q
<1>2. Sound(s, q)
  BY <1>1, IdleSound, Onward DEF CalmPcs, Pcs, CopyPcs, StagePcs
<1> QED  BY <1>2 DEF OnlyPass, Start, Set, q

LEMMA ReadQueuePass ==
    ASSUME Keeps, NEW s \in Services, ReadQueue(s)
    PROVE  \E q : OnlyPass(s, q)
<1> DEFINE p == pass[s]
           es == queue[Here(s)]
           q == [p EXCEPT !.pc = "entries", !.entries = es, !.covered = {e.row : e \in es}]
<1>1. p \in PassType /\ Sound(s, p) /\ Here(s) \in Stores
  BY SoundPass DEF Sound
<1>2. es \subseteq Record /\ {e.row : e \in es} \subseteq Rows
  BY <1>1 DEF Keeps, Typed, Record
<1>3. Set(s, q)
  BY DEF ReadQueue
<1> HIDE DEF es
<1>4. /\ q \in PassType /\ q.pc = "entries" /\ q.staged = p.staged /\ q.nonce = p.nonce
      /\ q.snap = p.snap /\ q.strays = p.strays /\ q.side = p.side
  BY <1>1, <1>2 DEF PassType, Pcs
<1> HIDE DEF q
<1>5. Sound(s, q)
  BY <1>1, <1>4, Onward DEF CalmPcs, Pcs, CopyPcs, StagePcs
<1> QED  BY <1>3, <1>5 DEF OnlyPass, Set

LEMMA FindStraysPass ==
    ASSUME Keeps, NEW s \in Services, FindStrays(s)
    PROVE  \E q : OnlyPass(s, q)
<1> DEFINE p == pass[s]
           found == {r \in Rows : Stranded(doc[Here(s)][r])} \ pass[s].covered
           ss == {[row |-> r, p |-> doc[Here(s)][r].name] : r \in found}
           q == [p EXCEPT !.pc = "strays", !.covered = {}, !.strays = ss]
<1>1. p \in PassType /\ Sound(s, p)
  BY SoundPass DEF Sound
<1>2. ss \subseteq StrayType
  BY DEF StrayType, Stranded, IsPlaceholder
<1>3. Set(s, q)
  BY DEF FindStrays
<1>4. \A x \in ss : doc[Db(s, p.side)][x.row] # NoDoc
  BY DEF Stranded, Live, Here
<1> HIDE DEF ss
<1>5. /\ q \in PassType /\ q.pc = "strays" /\ q.staged = p.staged /\ q.nonce = p.nonce
      /\ q.snap = p.snap /\ q.strays = ss /\ q.side = p.side
  BY <1>1, <1>2 DEF PassType, Pcs
<1> HIDE DEF q
<1>6. Shaped(q)
  BY <1>1, <1>5 DEF Sound, Shaped, CopyPcs, StagePcs
<1>7. Grounded(s, q)
  BY <1>1, <1>4, <1>5 DEF Sound, Grounded
<1> QED  BY <1>3, <1>5, <1>6, <1>7 DEF OnlyPass, Set, Sound

LEMMA EndSweepPass ==
    ASSUME Keeps, NEW s \in Services, EndSweep(s)
    PROVE  \E q : OnlyPass(s, q)
<1> DEFINE p == pass[s]
<1>1. p \in PassType /\ Sound(s, p) /\ p.strays = {}
  BY SoundPass DEF Sound, EndSweep
<1>2. PICK q : Set(s, q) /\ (q = [p EXCEPT !.pc = "queue", !.side = "remote"]
                             \/ q = [p EXCEPT !.pc = "local"])
  BY DEF EndSweep
<1> HIDE DEF p
<1>3. /\ q \in PassType /\ q.pc \in {"queue", "local"} /\ q.staged = p.staged
      /\ q.nonce = p.nonce /\ q.snap = p.snap /\ q.strays = {}
  <2>1. CASE q = [p EXCEPT !.pc = "queue", !.side = "remote"]
    BY <1>1, <2>1 DEF PassType, Pcs, Sides
  <2>2. CASE q = [p EXCEPT !.pc = "local"]
    BY <1>1, <2>2 DEF PassType, Pcs
  <2> QED  BY <1>2, <2>1, <2>2
<1>4. Sound(s, q)
  BY <1>1, <1>3, Onward DEF CalmPcs, Pcs, CopyPcs, StagePcs
<1> QED  BY <1>2, <1>4 DEF OnlyPass, Set

LEMMA SweepEntryPass ==
    ASSUME Keeps, NEW s \in Services, SweepEntry(s)
    PROVE  \E q : OnlyPass(s, q)
<1> DEFINE p == pass[s]
<1>1. p \in PassType /\ Sound(s, p) /\ p.pc = "entries"
  BY SoundPass DEF Sound, SweepEntry
<1> DEFINE left(e) == [p EXCEPT !.entries = @ \ {e}]
           held(e) == [left(e) EXCEPT !.held = @ \cup {e.row}, !.bad = TRUE]
           drained(q, e) == [q EXCEPT !.pc = "drain", !.drain = e]
<1>2. PICK e, q : e \in p.entries /\ Set(s, q) /\ (q = left(e) \/ q = held(e)
                                   \/ q = drained(left(e), e) \/ q = drained(held(e), e))
  BY DEF SweepEntry
<1>3. e \in Record /\ e.row \in Rows
  BY <1>1, <1>2 DEF PassType, Record
<1>4. \A w \in PassType : w.pc = "entries" /\ Sound(s, w) => Sound(s, drained(w, e))
  <2> SUFFICES ASSUME NEW w \in PassType, w.pc = "entries", Sound(s, w)
               PROVE  Sound(s, drained(w, e))
    OBVIOUS
  <2> DEFINE d == drained(w, e)
  <2>1. /\ d \in PassType /\ d.pc = "drain" /\ d.drain = e /\ d.staged = w.staged
        /\ d.nonce = w.nonce /\ d.snap = w.snap /\ d.strays = w.strays /\ d.side = w.side
    BY <1>3 DEF PassType, Pcs
  <2> HIDE DEF d
  <2>2. Shaped(d)
    BY <1>3, <2>1 DEF Sound, Shaped, CopyPcs, StagePcs
  <2> QED  BY <2>1, <2>2 DEF Sound, Grounded, d
<1>5. left(e) \in PassType /\ left(e).pc = "entries" /\ Sound(s, left(e))
  <2> DEFINE w == left(e)
  <2>1. /\ w \in PassType /\ w.pc = "entries" /\ w.staged = p.staged
        /\ w.nonce = p.nonce /\ w.snap = p.snap /\ w.strays = p.strays /\ w.side = p.side
    BY <1>1 DEF PassType
  <2> HIDE DEF w
  <2>2. Sound(s, w)
    BY <1>1, <2>1, Onward DEF CalmPcs, Pcs, CopyPcs, StagePcs
  <2> QED  BY <2>1, <2>2 DEF w
<1> HIDE DEF left
<1>6. held(e) \in PassType /\ held(e).pc = "entries" /\ Sound(s, held(e))
  <2> DEFINE w == held(e)
             v == left(e)
  <2>1. /\ w \in PassType /\ w.pc = "entries" /\ w.staged = v.staged
        /\ w.nonce = v.nonce /\ w.snap = v.snap /\ w.strays = v.strays /\ w.side = v.side
    BY <1>3, <1>5 DEF PassType
  <2> HIDE DEF w
  <2>2. Sound(s, w)
    BY <1>5, <2>1, Onward DEF CalmPcs, Pcs, CopyPcs, StagePcs
  <2> QED  BY <2>1, <2>2 DEF w
<1> HIDE DEF held, drained
<1>7. Sound(s, q)
  BY <1>2, <1>4, <1>5, <1>6
<1> QED  BY <1>2, <1>7 DEF OnlyPass, Set

LEMMA DrainPass ==
    ASSUME Keeps, NEW s \in Services, Drain(s)
    PROVE  \E q : OnlyPass(s, q)
<1> DEFINE p == pass[s]
           q == [p EXCEPT !.pc = "entries", !.drain = None]
<1>1. p \in PassType /\ Sound(s, p)
  BY SoundPass DEF Sound
<1>2. /\ q \in PassType /\ q.pc = "entries" /\ q.staged = p.staged
      /\ q.nonce = p.nonce /\ q.snap = p.snap /\ q.strays = p.strays /\ q.side = p.side
  BY <1>1 DEF PassType, Pcs
<1>3. Set(s, q)
  BY DEF Drain
<1> HIDE DEF q
<1>4. Sound(s, q)
  BY <1>1, <1>2, Onward DEF CalmPcs, Pcs, CopyPcs, StagePcs
<1> QED  BY <1>3, <1>4 DEF OnlyPass, Set

\* A pass that goes on to the next stray.
LEMMA StrayDone ==
    ASSUME Keeps, NEW s \in Services, pass[s].pc \in {"strays", "peer", "heal"}, NEW x, NEW hs,
           hs \subseteq Rows, NEW bad \in BOOLEAN, NEW q,
           q = [pass[s] EXCEPT !.pc = "strays", !.strays = @ \ {x}, !.held = hs, !.bad = bad,
                               !.drain = None]
    PROVE  Sound(s, q)
<1> DEFINE p == pass[s]
           ss == p.strays \ {x}
<1>1. p \in PassType /\ Sound(s, p)
  BY SoundPass DEF Sound
<1>2. ss \subseteq StrayType /\ ss \subseteq p.strays
  BY <1>1 DEF PassType
<1>3. q = [p EXCEPT !.pc = "strays", !.strays = ss, !.held = hs, !.bad = bad, !.drain = None]
  OBVIOUS
<1>4. /\ ss \in SUBSET StrayType /\ hs \in SUBSET Rows /\ bad \in BOOLEAN /\ "strays" \in Pcs
      /\ None \in Record \cup StagedType \cup StrayType \cup {None}
  BY <1>2 DEF Pcs
<1> HIDE DEF ss, p
<1>5. q \in PassType
  BY <1>1, <1>3, <1>4 DEF PassType
<1>6. /\ q.pc = "strays" /\ q.staged = p.staged /\ q.nonce = p.nonce
      /\ q.snap = p.snap /\ q.strays = ss /\ q.side = p.side
  BY <1>1, <1>3 DEF PassType
<1> QED  BY <1>1, <1>2, <1>5, <1>6, Onward DEF CalmPcs, Pcs, CopyPcs, StagePcs

LEMMA LookUpPass ==
    ASSUME Keeps, NEW s \in Services, LookUp(s)
    PROVE  \E q : OnlyPass(s, q)
<1> DEFINE p == pass[s]
           h(x) == [p EXCEPT !.held = @ \cup {x.row}, !.bad = TRUE]
<1>1. p \in PassType /\ Sound(s, p) /\ p.pc = "strays"
  BY SoundPass DEF Sound, LookUp
<1>2. PICK x \in p.strays : \/ Set(s, [h(x) EXCEPT !.strays = @ \ {x}])
                            \/ Set(s, [h(x) EXCEPT !.pc = "peer", !.drain = x])
  BY DEF LookUp
<1>3. x \in StrayType /\ x.row \in Rows
  BY <1>1 DEF PassType, StrayType
<1>4. /\ h(x) \in PassType /\ h(x).pc = "strays" /\ h(x).staged = p.staged
      /\ h(x).nonce = p.nonce /\ h(x).snap = p.snap /\ h(x).strays = p.strays
      /\ h(x).side = p.side
  BY <1>1, <1>3 DEF PassType
<1> DEFINE w == h(x)
<1> HIDE DEF w
<1>5. ASSUME NEW q, q = [w EXCEPT !.strays = @ \ {x}] PROVE Sound(s, q)
  <2>1. /\ q \in PassType /\ q.pc = "strays" /\ q.staged = p.staged /\ q.nonce = p.nonce
        /\ q.snap = p.snap /\ q.strays \subseteq p.strays /\ q.side = p.side
    BY <1>4, <1>5 DEF PassType, w
  <2> QED  BY <1>1, <2>1, Onward DEF CalmPcs, Pcs, CopyPcs, StagePcs
<1>6. ASSUME NEW q, q = [w EXCEPT !.pc = "peer", !.drain = x] PROVE Sound(s, q)
  <2>1. /\ q \in PassType /\ q.pc = "peer" /\ q.drain = x /\ q.staged = p.staged
        /\ q.nonce = p.nonce /\ q.snap = p.snap /\ q.strays = p.strays /\ q.side = p.side
    BY <1>3, <1>4, <1>6 DEF PassType, Pcs, w
  <2>2. Shaped(q)
    BY <1>1, <1>2, <2>1 DEF Sound, Shaped, CopyPcs, StagePcs
  <2> QED  BY <1>1, <2>1, <2>2 DEF Sound, Grounded
<1> QED  BY <1>2, <1>5, <1>6 DEF OnlyPass, Set, w

LEMMA ReadPeerPass ==
    ASSUME Keeps, NEW s \in Services, ReadPeer(s)
    PROVE  \E q : OnlyPass(s, q)
<1> DEFINE p == pass[s]
           x == p.drain
           peer == doc[Db(s, Other(p.side))][x.row]
           y == [side |-> p.side, row |-> x.row, o |-> peer.name, p |-> x.p]
<1>1. p \in PassType /\ Sound(s, p) /\ p.pc = "peer" /\ p.side \in Sides
  BY SoundPass DEF Sound, ReadPeer, PassType
<1>2. x \in p.strays /\ x \in StrayType
  BY <1>1 DEF Sound, Shaped, PassType
<1>3. CASE peer # NoDoc /\ ~IsPlaceholder(peer.name)
           /\ Set(s, [p EXCEPT !.pc = "heal", !.drain = y])
  <2> DEFINE q == [p EXCEPT !.pc = "heal", !.drain = y]
  <2>1. peer.name \in Names
    BY <1>1, <1>2, <1>3, Places DEF Keeps, Typed, Docs, Doc, StrayType, IsPlaceholder
  <2>2. y \in StagedType /\ y.row = x.row /\ y.p = x.p
    BY <1>1, <1>2, <2>1 DEF StagedType, StrayType
  <2>3. [row |-> y.row, p |-> y.p] = x
    BY <1>2, <2>2 DEF StrayType
  <2> HIDE DEF y
  <2>4. /\ q \in PassType /\ q.pc = "heal" /\ q.drain = y /\ q.staged = p.staged
        /\ q.nonce = p.nonce /\ q.snap = p.snap /\ q.strays = p.strays /\ q.side = p.side
    BY <1>1, <2>2 DEF PassType, Pcs
  <2>5. Set(s, q)
    BY <1>3 DEF y
  <2> HIDE DEF q
  <2>6. Shaped(q)
    BY <1>1, <1>2, <2>2, <2>3, <2>4 DEF Sound, Shaped, CopyPcs, StagePcs
  <2> QED  BY <1>1, <2>4, <2>5, <2>6 DEF OnlyPass, Set, Sound, Grounded
<1>4. CASE Set(s, [p EXCEPT !.pc = "strays", !.drain = None, !.strays = @ \ {x}])
  <2> DEFINE q == [p EXCEPT !.pc = "strays", !.strays = @ \ {x}, !.held = p.held,
                            !.bad = p.bad, !.drain = None]
  <2>1. [p EXCEPT !.pc = "strays", !.drain = None, !.strays = @ \ {x}] = q
    BY <1>1 DEF PassType
  <2>2. p.held \subseteq Rows /\ p.bad \in BOOLEAN
    BY <1>1 DEF PassType
  <2>3. Sound(s, q)
    BY <1>1, <2>2, StrayDone
  <2> QED  BY <1>4, <2>1, <2>3 DEF OnlyPass, Set
<1> QED  BY <1>3, <1>4 DEF ReadPeer

LEMMA HealedSound ==
    ASSUME Keeps, NEW s \in Services, pass[s].pc \in {"peer", "heal"}
    PROVE  Sound(s, Healed(s))
<1> DEFINE p == pass[s]
           x == [row |-> p.drain.row, p |-> p.drain.p]
           q == [p EXCEPT !.pc = "strays", !.strays = @ \ {x}, !.held = p.held,
                          !.bad = p.bad, !.drain = None]
<1>1. p \in PassType
  BY SoundPass DEF Sound
<1>2. Healed(s) = q
  BY <1>1 DEF Healed, PassType
<1>3. p.held \subseteq Rows /\ p.bad \in BOOLEAN
  BY <1>1 DEF PassType
<1>4. q = [pass[s] EXCEPT !.pc = "strays", !.strays = @ \ {x}, !.held = p.held,
                          !.bad = p.bad, !.drain = None]
  OBVIOUS
<1> HIDE DEF q, x
<1>5. Sound(s, q)
  BY <1>3, <1>4, StrayDone
<1> QED  BY <1>2, <1>5

LEMMA HealPass ==
    ASSUME Keeps, NEW s \in Services, Heal(s)
    PROVE  \E q : OnlyPass(s, q)
BY HealedSound DEF Heal, OnlyPass, Set

\* A pass that is done with a copy.
LEMMA CopyDone ==
    ASSUME Keeps, NEW s \in Services
    PROVE  /\ Sound(s, Throws(s))
           /\ pass[s].pc \in CopyPcs => Sound(s, Next1(s)) /\ Sound(s, Refused(s))
<1> DEFINE p == pass[s]
<1>1. p \in PassType /\ Sound(s, p) /\ NoJob \in JobType
  BY SoundPass, NoJobTyped DEF Sound
<1>2. Sound(s, Throws(s))
  <2> DEFINE q == Throws(s)
             a == [p EXCEPT !.pc = "settle", !.job = NoJob]
  <2>1. /\ a \in PassType /\ a.pc = "settle" /\ a.staged = p.staged
        /\ a.nonce = p.nonce /\ a.snap = p.snap /\ a.strays = p.strays /\ a.side = p.side
    BY <1>1 DEF PassType, Pcs
  <2>2. q = [a EXCEPT !.todo = {}, !.bad = TRUE]
    BY <1>1 DEF Throws, PassType
  <2> HIDE DEF q, a
  <2>3. /\ q \in PassType /\ q.pc = "settle" /\ q.staged = p.staged
        /\ q.nonce = p.nonce /\ q.snap = p.snap /\ q.strays = p.strays /\ q.side = p.side
    BY <2>1, <2>2 DEF PassType
  <2>4. Sound(s, q)
    BY <1>1, <2>3, Onward DEF CalmPcs, Pcs, CopyPcs, StagePcs
  <2> QED  BY <2>4 DEF q
<1>3. Sound(s, Next1(s)) /\ Next1(s) \in PassType
  <2> DEFINE q == Next1(s)
  <2>1. /\ q \in PassType /\ q.pc = "rows" /\ q.staged = p.staged
        /\ q.nonce = p.nonce /\ q.snap = p.snap /\ q.strays = p.strays /\ q.side = p.side
    BY <1>1 DEF PassType, Pcs, Next1
  <2> HIDE DEF q
  <2>2. Sound(s, q)
    BY <1>1, <2>1, Onward DEF CalmPcs, Pcs, CopyPcs, StagePcs
  <2> QED  BY <2>1, <2>2 DEF q
<1>4. Sound(s, Refused(s))
  <2> DEFINE q == Refused(s)
             a == Next1(s)
  <2>1. /\ q \in PassType /\ q.pc = a.pc /\ q.staged = a.staged
        /\ q.nonce = a.nonce /\ q.snap = a.snap /\ q.strays = a.strays /\ q.side = a.side
    BY <1>3 DEF PassType, Refused
  <2>2. a.pc = "rows"
    BY <1>1 DEF Next1, PassType
  <2> HIDE DEF q, a
  <2>3. Sound(s, q)
    BY <1>3, <2>1, <2>2, Onward DEF CalmPcs, Pcs, CopyPcs, StagePcs, a
  <2> QED  BY <2>3 DEF q
<1> QED  BY <1>2, <1>3, <1>4

LEMMA ReadLocalPass ==
    ASSUME Keeps, NEW s \in Services, ReadLocal(s)
    PROVE  \E q : OnlyPass(s, q)
<1> DEFINE p == pass[s]
           q == [p EXCEPT !.pc = "remote", !.snap["local"] = doc[LocalOf[s]]]
<1>1. p \in PassType /\ Sound(s, p) /\ doc[LocalOf[s]] \in [Rows -> Doc \cup {NoDoc}]
  BY SoundPass, Places DEF Sound, Keeps, Typed, Docs
<1> DEFINE sn == [p.snap EXCEPT !["local"] = doc[LocalOf[s]]]
<1>2. /\ sn \in Snap /\ sn["remote"] = p.snap["remote"] /\ sn["local"] = doc[LocalOf[s]]
  BY <1>1 DEF PassType, Snap, Sides
<1>3. q = [p EXCEPT !.pc = "remote", !.snap = sn]
  BY <1>1 DEF PassType
<1> HIDE DEF sn
<1>4. /\ q \in PassType /\ q.pc = "remote" /\ q.staged = p.staged /\ q.nonce = p.nonce
      /\ q.snap = sn /\ q.strays = p.strays /\ q.side = p.side
  BY <1>1, <1>2, <1>3 DEF PassType, Pcs
<1>5. Set(s, q)
  BY DEF ReadLocal
<1> HIDE DEF q
<1>6. Shaped(q)
  BY <1>1, <1>4 DEF Sound, Shaped, CopyPcs, StagePcs
<1>7. Grounded(s, q)
  BY <1>1, <1>2, <1>4 DEF Sound, Grounded, Sides, Db
<1> QED  BY <1>4, <1>5, <1>6, <1>7 DEF OnlyPass, Sound, Set

LEMMA ReadRemotePass ==
    ASSUME Keeps, NEW s \in Services, ReadRemote(s)
    PROVE  \E q : OnlyPass(s, q)
<1> DEFINE p == pass[s]
           P == [p EXCEPT !.snap["remote"] = doc[Remote]]
           todo == {r \in Rows : \E to \in Sides : Intent(P, to, r) # "none"}
           q == [P EXCEPT !.pc = "rows", !.held = @ \cup SeenStranded(P),
                          !.bad = @ \/ SeenStranded(P) # {}, !.todo = todo]
<1>1. p \in PassType /\ Sound(s, p) /\ doc[Remote] \in [Rows -> Doc \cup {NoDoc}]
  BY SoundPass, Places DEF Sound, Keeps, Typed, Docs
<1> DEFINE sn == [p.snap EXCEPT !["remote"] = doc[Remote]]
<1>2. /\ sn \in Snap /\ sn["local"] = p.snap["local"] /\ sn["remote"] = doc[Remote]
  BY <1>1 DEF PassType, Snap, Sides
<1>3. P = [p EXCEPT !.snap = sn] /\ P \in PassType
  BY <1>1, <1>2 DEF PassType
<1>4. /\ P.staged = p.staged /\ P.nonce = p.nonce
      /\ P.snap = sn /\ P.strays = p.strays /\ P.side = p.side
  BY <1>1, <1>3 DEF PassType
<1>5. SeenStranded(P) \subseteq Rows /\ todo \subseteq Rows
  BY DEF SeenStranded
<1>6. Set(s, q)
  BY DEF ReadRemote
<1> HIDE DEF P, sn, todo
<1> DEFINE a == [P EXCEPT !.pc = "rows", !.held = @ \cup SeenStranded(P)]
<1>7. /\ a \in PassType /\ a.pc = "rows" /\ a.staged = p.staged /\ a.nonce = p.nonce
      /\ a.snap = sn /\ a.strays = p.strays /\ a.side = p.side
  BY <1>3, <1>4, <1>5 DEF PassType, Pcs
<1>8. q = [a EXCEPT !.bad = @ \/ SeenStranded(P) # {}, !.todo = todo]
  BY <1>3 DEF PassType
<1> HIDE DEF a, q
<1>9. /\ q \in PassType /\ q.pc = "rows" /\ q.staged = p.staged /\ q.nonce = p.nonce
      /\ q.snap = sn /\ q.strays = p.strays /\ q.side = p.side
  <2> DEFINE bb == a.bad \/ SeenStranded(P) # {}
  <2>1. bb \in BOOLEAN
    BY <1>7 DEF PassType
  <2>2. q = [a EXCEPT !.bad = bb, !.todo = todo]
    BY <1>8
  <2> HIDE DEF bb
  <2> QED  BY <1>5, <1>7, <2>1, <2>2 DEF PassType
<1>10. Shaped(q)
  BY <1>1, <1>9 DEF Sound, Shaped, CopyPcs, StagePcs
<1>11. Grounded(s, q)
  BY <1>1, <1>2, <1>9 DEF Sound, Grounded, Sides, Db
<1> QED  BY <1>6, <1>9, <1>10, <1>11 DEF OnlyPass, Sound, Set

\* The pass as it goes on without row r.
LEMMA PassedSound ==
    ASSUME Keeps, NEW s \in Services, NEW r \in Rows, pass[s].pc = "rows"
    PROVE  Sound(s, Passed(s, r)) /\ Passed(s, r).pc = "rows"
<1> DEFINE p == pass[s]
           q == Passed(s, r)
<1>1. p \in PassType /\ Sound(s, p)
  BY SoundPass DEF Sound
<1>2. /\ q \in PassType /\ q.pc = "rows" /\ q.staged = p.staged /\ q.nonce = p.nonce
      /\ q.snap = p.snap /\ q.strays = p.strays /\ q.side = p.side
  BY <1>1 DEF Passed, PassType
<1> HIDE DEF q
<1>3. Sound(s, q)
  BY <1>1, <1>2, Onward DEF CalmPcs, Pcs, CopyPcs, StagePcs
<1> QED  BY <1>2, <1>3 DEF q

LEMMA HeldBackPass ==
    ASSUME Keeps, NEW s \in Services, NEW r \in Rows, HeldBack(s, r)
    PROVE  \E q : OnlyPass(s, q)
BY PassedSound DEF HeldBack, Turn, OnlyPass, Set

LEMMA WriteFlagsPass ==
    ASSUME Keeps, NEW s \in Services, NEW r \in Rows, NEW to \in Sides, WriteFlags(s, r, to)
    PROVE  \E q : OnlyPass(s, q)
BY PassedSound DEF WriteFlags, Turn, OnlyPass, Set

LEMMA HydratePass ==
    ASSUME Keeps, NEW s \in Services, NEW r \in Rows, NEW to \in Sides, Hydrate(s, r, to)
    PROVE  \E q : OnlyPass(s, q)
<1> DEFINE p == pass[s]
           a == Passed(s, r)
           full == doc[Db(s, Other(to))][r]
           kind == Intent(p, to, r)
           job == [NoJob EXCEPT !.row = r, !.to = to, !.full = full, !.kind = kind]
<1>1. /\ p \in PassType /\ p.pc = "rows" /\ kind \in {"insert", "update", "resurrect"}
      /\ Sound(s, p)
  BY SoundPass DEF Sound, Hydrate, Turn
<1>2. a \in PassType /\ a.pc = "rows" /\ Sound(s, a)
  BY <1>1, PassedSound DEF Sound
<1>3. CASE Set(s, [a EXCEPT !.bad = TRUE])
  <2> DEFINE q == [a EXCEPT !.bad = TRUE]
  <2> HIDE DEF a
  <2>1. /\ q \in PassType /\ q.pc = "rows" /\ q.staged = a.staged /\ q.nonce = a.nonce
        /\ q.snap = a.snap /\ q.strays = a.strays /\ q.side = a.side
    BY <1>2 DEF PassType
  <2>2. Set(s, q)
    BY <1>3
  <2> HIDE DEF q
  <2>3. Sound(s, q)
    BY <1>2, <2>1, Onward DEF CalmPcs, Pcs, CopyPcs, StagePcs
  <2> QED  BY <2>2, <2>3 DEF OnlyPass, Set
<1>4. CASE Set(s, [a EXCEPT !.pc = "write", !.job = job])
  <2> DEFINE q == [a EXCEPT !.pc = "write", !.job = job]
  <2>1. full \in Doc /\ Bears(full, r)
    <3>1. p.snap[Other(to)][r] # NoDoc
      BY <1>1 DEF Intent, Outcome
    <3>2. full # NoDoc
      BY <1>1, <3>1, Places DEF Sound, Grounded
    <3> QED  BY <3>2, Places DEF Keeps, Typed, Docs, Own
  <2> HIDE DEF full, kind
  <2>2. job \in JobType /\ job.row = r /\ job.full = full /\ job.kind = kind
    BY <1>1, <2>1 DEF NoJob, JobType
  <2> HIDE DEF job, a
  <2>3. /\ q \in PassType /\ q.pc = "write" /\ q.job = job /\ q.staged = a.staged
        /\ q.nonce = a.nonce /\ q.snap = a.snap /\ q.strays = a.strays /\ q.side = a.side
    BY <1>2, <2>2 DEF PassType, Pcs, CopyPcs
  <2>4. Set(s, q)
    BY <1>4
  <2> HIDE DEF q
  <2>5. Shaped(q)
    BY <1>1, <1>2, <2>1, <2>2, <2>3 DEF Sound, Shaped, CopyPcs, StagePcs
  <2>6. Grounded(s, q)
    BY <1>2, <2>3 DEF Sound, Grounded
  <2> QED  BY <2>3, <2>4, <2>5, <2>6 DEF OnlyPass, Set, Sound
<1> QED  BY <1>3, <1>4 DEF Hydrate

LEMMA EndRowsPass ==
    ASSUME Keeps, NEW s \in Services, EndRows(s)
    PROVE  \E q : OnlyPass(s, q)
<1> DEFINE p == pass[s]
           q == [p EXCEPT !.pc = "settle"]
<1>1. p \in PassType /\ Sound(s, p)
  BY SoundPass DEF Sound
<1>2. /\ q \in PassType /\ q.pc = "settle" /\ q.staged = p.staged /\ q.nonce = p.nonce
      /\ q.snap = p.snap /\ q.strays = p.strays /\ q.side = p.side
  BY <1>1 DEF PassType, Pcs
<1>3. Set(s, q)
  BY DEF EndRows, Goto
<1> HIDE DEF q
<1>4. Sound(s, q)
  BY <1>1, <1>2, Onward DEF CalmPcs, Pcs, CopyPcs, StagePcs
<1> QED  BY <1>3, <1>4 DEF OnlyPass, Set

\* What a copy leaves is a document of its row.
LEMMA WrittenTyped ==
    ASSUME Keeps, NEW s \in Services, pass[s].pc \in CopyPcs
    PROVE  /\ Written(s) \in Doc /\ Bears(Written(s), pass[s].job.row)
           /\ pass[s].job.row \in Rows /\ Target(s) \in Stores
<1> DEFINE j == pass[s].job
           d == doc[Target(s)][j.row]
<1>1. /\ j \in JobType /\ j.row \in Rows /\ j.full \in Doc /\ Bears(j.full, j.row)
  BY SoundPass DEF Sound, Shaped, PassType
<1>2. Target(s) \in Stores
  BY <1>1, Places DEF Target, JobType
<1>3. d \in Doc \cup {NoDoc} /\ Bears(d, j.row)
  BY <1>1, <1>2 DEF Keeps, Typed, Docs, Own
<1>4. [j.full EXCEPT !.del = 0] \in Doc /\ Bears([j.full EXCEPT !.del = 0], j.row)
  <2>1. 0 \in 0..MaxTime
    BY SyncNamesAssumption
  <2>2. [j.full EXCEPT !.del = 0] \in Doc /\ [j.full EXCEPT !.del = 0].name = j.full.name
    BY <1>1, <2>1 DEF Doc
  <2> QED  BY <1>1, <2>2, SyncNamesAssumption DEF Bears
<1>5. Written(s) = IF j.kind = "insert" THEN IF d = NoDoc THEN j.full ELSE d
                   ELSE IF j.kind = "resurrect" THEN [j.full EXCEPT !.del = 0] ELSE j.full
  BY DEF Written
<1> QED  BY <1>1, <1>2, <1>3, <1>4, <1>5

LEMMA WriteCopyPass ==
    ASSUME Keeps, NEW s \in Services, WriteCopy(s)
    PROVE  \E q : OnlyPass(s, q)
BY CopyDone DEF WriteCopy, OnlyPass, Set, CopyPcs

\* The row in the way of a copy, and the name it holds.
LEMMA Blocker ==
    ASSUME Keeps, NEW s \in Services, pass[s].pc \in CopyPcs, Collides(s)
    PROVE  /\ InTheWay(s) \in Rows /\ InTheWay(s) # pass[s].job.row
           /\ Live(doc[Target(s)][InTheWay(s)])
           /\ doc[Target(s)][InTheWay(s)].name = Written(s).name
           /\ Written(s).name \in Names
<1> DEFINE b == InTheWay(s)
<1>1. b \in Holder(Target(s), Written(s).name) /\ b # pass[s].job.row
  BY DEF Collides, Free, InTheWay
<1>2. /\ Written(s) \in Doc /\ Bears(Written(s), pass[s].job.row) /\ Target(s) \in Stores
  BY WrittenTyped DEF CopyPcs
<1>3. b \in Rows /\ Live(doc[Target(s)][b]) /\ doc[Target(s)][b].name = Written(s).name
  BY <1>1 DEF Holder
<1> HIDE DEF b
<1>4. Written(s).name \in Names
  <2>1. Bears(doc[Target(s)][b], b)
    BY <1>2, <1>3 DEF Keeps, Own
  <2>2. Written(s) # NoDoc /\ doc[Target(s)][b] # NoDoc
    BY <1>2, <1>3, SyncNamesAssumption DEF Live
  <2>3. ~IsPlaceholder(Written(s).name)
    BY <1>1, <1>2, <1>3, <2>1, <2>2 DEF Bears, b
  <2> QED  BY <1>2, <2>3 DEF Doc, IsPlaceholder
<1> QED  BY <1>1, <1>3, <1>4 DEF b

LEMMA CollidePass ==
    ASSUME Keeps, NEW s \in Services, Collide(s)
    PROVE  \E q : OnlyPass(s, q)
<1> DEFINE p == pass[s]
           q == [p EXCEPT !.pc = "blocker"]
<1>1. p \in PassType /\ Sound(s, p) /\ p.pc = "write"
  BY SoundPass DEF Sound, Collide
<1>2. CASE Set(s, Throws(s))
  BY <1>2, CopyDone DEF OnlyPass, Set
<1>3. CASE Set(s, q)
  <2>1. /\ q \in PassType /\ q.pc = "blocker" /\ q.staged = p.staged /\ q.nonce = p.nonce
        /\ q.snap = p.snap /\ q.strays = p.strays /\ q.side = p.side /\ q.job = p.job
    BY <1>1 DEF PassType, Pcs, CopyPcs
  <2>2. Set(s, q)
    BY <1>3
  <2> HIDE DEF q
  <2>3. Shaped(q)
    BY <1>1, <2>1 DEF Sound, Shaped, CopyPcs, StagePcs
  <2> QED  BY <1>1, <2>1, <2>2, <2>3 DEF OnlyPass, Set, Sound, Grounded
<1> QED  BY <1>2, <1>3 DEF Collide, Goto

LEMMA FindBlockerPass ==
    ASSUME Keeps, NEW s \in Services, FindBlocker(s)
    PROVE  \E q : OnlyPass(s, q)
<1> DEFINE p == pass[s]
           b == InTheWay(s)
           n == Written(s).name
           q == [p EXCEPT !.pc = "source", !.job.blocker = b, !.job.o = n]
<1>1. p \in PassType /\ Sound(s, p) /\ p.pc = "blocker" /\ p.pc \in CopyPcs
  BY SoundPass DEF Sound, FindBlocker, CopyPcs
<1>2. CASE Set(s, Throws(s)) \/ Set(s, Refused(s))
  BY <1>1, <1>2, CopyDone DEF OnlyPass, Set
<1>3. CASE Collides(s) /\ Set(s, q)
  <2>1. b \in Rows /\ n \in Names
    BY <1>1, <1>3, Blocker
  <2>2. Set(s, q)
    BY <1>3
  <2> HIDE DEF b, n
  <2> DEFINE job == [p.job EXCEPT !.blocker = b, !.o = n]
  <2>3. /\ job \in JobType /\ job.row = p.job.row /\ job.full = p.job.full
        /\ job.kind = p.job.kind /\ job.blocker = b /\ job.o = n
    BY <1>1, <2>1 DEF PassType, JobType
  <2>4. q = [p EXCEPT !.pc = "source", !.job = job]
    BY <1>1 DEF PassType
  <2> HIDE DEF job
  <2>5. /\ q \in PassType /\ q.pc = "source" /\ q.job = job
        /\ q.nonce = p.nonce /\ q.staged = p.staged
        /\ q.snap = p.snap /\ q.strays = p.strays /\ q.side = p.side
    BY <1>1, <2>3, <2>4 DEF PassType, Pcs, CopyPcs
  <2> HIDE DEF q
  <2>6. Shaped(q)
    BY <1>1, <2>1, <2>3, <2>5 DEF Sound, Shaped, CopyPcs, StagePcs
  <2> QED  BY <1>1, <2>2, <2>5, <2>6 DEF OnlyPass, Set, Sound, Grounded
<1> QED  BY <1>2, <1>3 DEF FindBlocker

LEMMA ReadSourcePass ==
    ASSUME Keeps, NEW s \in Services, ReadSource(s)
    PROVE  \E q : OnlyPass(s, q)
<1> DEFINE p == pass[s]
           k == Nonce(s)
           q == [p EXCEPT !.pc = "enqueue", !.nonce = k]
<1>1. p \in PassType /\ Sound(s, p) /\ p.pc = "source" /\ p.pc \in CopyPcs
  BY SoundPass DEF Sound, ReadSource, CopyPcs
<1>2. CASE Set(s, Refused(s))
  BY <1>1, <1>2, CopyDone DEF OnlyPass, Set
<1>3. CASE (p.nonce # None \/ Nonces \ Used # {}) /\ Set(s, q)
  <2>1. k \in Nonces /\ (p.nonce # None => k = p.nonce)
    BY <1>1, <1>3 DEF Nonce, PassType
  <2>2. Set(s, q)
    BY <1>3
  <2> HIDE DEF k
  <2>3. /\ q \in PassType /\ q.pc = "enqueue" /\ q.job = p.job /\ q.nonce = k
        /\ q.staged = p.staged /\ q.snap = p.snap /\ q.strays = p.strays /\ q.side = p.side
    BY <1>1, <2>1 DEF PassType, Pcs, CopyPcs, StagePcs
  <2> HIDE DEF q
  <2>4. Shaped(q)
    <3>1. Shaped(p)
      BY <1>1 DEF Sound
    <3>2. \A x \in p.staged : k \in Nonces /\ x.p = [row |-> x.row, nonce |-> k]
      BY <2>1, <3>1, SyncNamesAssumption DEF Shaped
    <3> QED  BY <1>1, <2>1, <2>3, <3>1, <3>2 DEF Shaped, CopyPcs, StagePcs
  <2> QED  BY <1>1, <2>2, <2>3, <2>4 DEF OnlyPass, Set, Sound, Grounded
<1> QED  BY <1>2, <1>3 DEF ReadSource

LEMMA GoesOn ==
    ASSUME Keeps, NEW s \in Services, pass[s].pc \in StagePcs, NEW pc \in StagePcs,
           pc \in {"pull", "push", "retry", "rollback"}
              => pass[s].pc \in {"pull", "push", "retry", "rollback"},
           Goto(s, pc)
    PROVE  \E q : OnlyPass(s, q)
<1> DEFINE p == pass[s]
           q == [p EXCEPT !.pc = pc]
<1>1. p \in PassType /\ Sound(s, p)
  BY SoundPass DEF Sound
<1>2. /\ q \in PassType /\ q.pc = pc /\ q.staged = p.staged /\ q.nonce = p.nonce
      /\ q.snap = p.snap /\ q.strays = p.strays /\ q.side = p.side /\ q.job = p.job
  BY <1>1 DEF PassType, Pcs, CopyPcs
<1>3. Set(s, q)
  BY DEF Goto
<1> HIDE DEF q
<1>4. Shaped(q)
  BY <1>1, <1>2 DEF Sound, Shaped, CopyPcs, StagePcs
<1>5. Grounded(s, q)
  BY <1>1, <1>2 DEF Sound, Grounded
<1> QED  BY <1>2, <1>3, <1>4, <1>5 DEF OnlyPass, Set, Sound

\* What a pass at work on a row in the way knows of it.
LEMMA KeyTyped ==
    ASSUME Keeps, NEW s \in Services, pass[s].pc \in StagePcs
    PROVE  /\ Target(s) \in Stores /\ pass[s].job.to \in Sides
           /\ Key(s).row \in Rows /\ Key(s).o \in Names /\ Key(s).p \in Placeholders
           /\ Key(s).p.row = Key(s).row /\ Key(s).p.nonce = pass[s].nonce
           /\ Key(s).row = pass[s].job.blocker /\ Key(s).o = pass[s].job.o
           /\ Aside(s) \in StagedType
           /\ Aside(s).side = pass[s].job.to /\ Aside(s).row = Key(s).row
           /\ Aside(s).o = Key(s).o /\ Aside(s).p = Key(s).p
<1>1. /\ pass[s].job \in JobType /\ pass[s].job.blocker \in Rows /\ pass[s].job.o \in Names
      /\ pass[s].nonce \in Nonces
  BY SoundPass DEF Sound, Shaped, PassType
<1>2. pass[s].job.to \in Sides
  BY <1>1 DEF JobType
<1> QED  BY <1>1, <1>2, Places DEF Target, Key, Aside, Placeholders, StagedType

LEMMA StagePass ==
    ASSUME Keeps, NEW s \in Services, Stage(s)
    PROVE  \E q : OnlyPass(s, q)
<1> DEFINE p == pass[s]
           d == doc[Target(s)][Key(s).row]
           q == [p EXCEPT !.pc = "pull", !.staged = @ \cup {Aside(s)}]
<1>1. /\ p \in PassType /\ Sound(s, p) /\ p.pc = "stage" /\ p.pc \in StagePcs
  BY SoundPass DEF Sound, Stage, StagePcs
<1>2. CASE Goto(s, "unqueue")
  BY <1>1, <1>2, GoesOn DEF StagePcs
<1>3. CASE Live(d) /\ Set(s, q)
  <2>1. Aside(s) \in StagedType
    BY <1>1, KeyTyped
  <2>2. /\ q \in PassType /\ q.pc = "pull" /\ q.staged = p.staged \cup {Aside(s)}
        /\ q.nonce = p.nonce /\ q.job = p.job
        /\ q.snap = p.snap /\ q.strays = p.strays /\ q.side = p.side
    BY <1>1, <2>1 DEF PassType, Pcs, CopyPcs, StagePcs
  <2>3. Set(s, q)
    BY <1>3
  <2> HIDE DEF q
  <2>4. Shaped(q)
    <3>1. Shaped(p) /\ p.pc \in CopyPcs /\ p.nonce \in Nonces
      BY <1>1 DEF Sound, Shaped, CopyPcs
    <3>2. Aside(s) = [side |-> p.job.to, row |-> p.job.blocker, o |-> p.job.o,
                      p |-> [row |-> p.job.blocker, nonce |-> p.nonce]]
      BY DEF Aside, Key
    <3>3. \A x \in q.staged : x.p = [row |-> x.row, nonce |-> p.nonce]
      BY <2>2, <3>1, <3>2 DEF Shaped
    <3> QED  BY <1>1, <2>2, <3>1, <3>2, <3>3 DEF Shaped, CopyPcs, StagePcs
  <2>5. Grounded(s, q)
    <3>1. doc[Db(s, Aside(s).side)][Aside(s).row] # NoDoc
      BY <1>1, <1>3, KeyTyped DEF Live, Target
    <3> QED  BY <1>1, <2>2, <3>1 DEF Sound, Grounded
  <2> QED  BY <2>2, <2>3, <2>4, <2>5 DEF OnlyPass, Set, Sound
<1> QED  BY <1>2, <1>3 DEF Stage

LEMMA StagingPass ==
    ASSUME Keeps, NEW s \in Services,
           Enqueue(s) \/ Unqueue(s) \/ PullOld(s) \/ PushAgain(s) \/ Retry(s) \/ Rollback(s)
    PROVE  \E q : OnlyPass(s, q)
<1>1. ASSUME Enqueue(s) PROVE \E q : OnlyPass(s, q)
  BY <1>1, GoesOn DEF Enqueue, StagePcs
<1>2. ASSUME Unqueue(s) PROVE \E q : OnlyPass(s, q)
  BY <1>2, CopyDone DEF Unqueue, CopyPcs, StagePcs, OnlyPass, Set
<1>3. ASSUME PullOld(s) PROVE \E q : OnlyPass(s, q)
  BY <1>3, GoesOn DEF PullOld, StagePcs
<1>4. ASSUME PushAgain(s) PROVE \E q : OnlyPass(s, q)
  BY <1>4, GoesOn DEF PushAgain, StagePcs
<1>5. ASSUME Retry(s) PROVE \E q : OnlyPass(s, q)
  <2>1. pass[s].pc = "retry" /\ (Goto(s, "rollback") \/ Set(s, Next1(s)))
    BY <1>5 DEF Retry
  <2> QED  BY <2>1, GoesOn, CopyDone DEF CopyPcs, StagePcs, OnlyPass, Set
<1>6. ASSUME Rollback(s) PROVE \E q : OnlyPass(s, q)
  BY <1>6, CopyDone DEF Rollback, OnlyPass, Set
<1> QED  BY <1>1, <1>2, <1>3, <1>4, <1>5, <1>6

\* The pass that settles, without x.
LEMMA Unstaged ==
    ASSUME Keeps, NEW s \in Services, pass[s].pc \in {"settle", "settled"}, NEW x, NEW q,
           \/ q = [pass[s] EXCEPT !.pc = "settle", !.staged = @ \ {x}, !.drain = None]
           \/ q = [pass[s] EXCEPT !.pc = "settle", !.staged = @ \ {x}, !.drain = None, !.bad = TRUE]
           \/ /\ pass[s].pc = "settle"
              /\ q = [pass[s] EXCEPT !.staged = @ \ {x}, !.bad = TRUE]
    PROVE  Sound(s, q)
<1> DEFINE p == pass[s]
<1>1. p \in PassType /\ Sound(s, p)
  BY SoundPass DEF Sound
<1> DEFINE left == p.staged \ {x}
           a == [p EXCEPT !.pc = "settle", !.staged = left]
<1>2. left \subseteq p.staged /\ left \subseteq StagedType
  BY <1>1 DEF PassType
<1>3. \/ q = [a EXCEPT !.drain = None]
      \/ q = [a EXCEPT !.drain = None, !.bad = TRUE]
      \/ q = [a EXCEPT !.bad = TRUE]
  BY <1>1 DEF PassType
<1> HIDE DEF left
<1>4. /\ a \in PassType /\ a.pc = "settle" /\ a.staged = left /\ a.nonce = p.nonce
      /\ a.snap = p.snap /\ a.strays = p.strays /\ a.side = p.side
  BY <1>1, <1>2 DEF PassType, Pcs
<1> HIDE DEF a
<1> DEFINE Same == /\ q \in PassType /\ q.pc = "settle" /\ q.staged = left /\ q.nonce = p.nonce
                    /\ q.snap = p.snap /\ q.strays = p.strays /\ q.side = p.side
<1>5. Same
  <2>1. ASSUME q = [a EXCEPT !.drain = None] PROVE Same
    BY <1>4, <2>1 DEF PassType
  <2>2. ASSUME q = [a EXCEPT !.drain = None, !.bad = TRUE] PROVE Same
    BY <1>4, <2>2 DEF PassType
  <2>3. ASSUME q = [a EXCEPT !.bad = TRUE] PROVE Same
    BY <1>4, <2>3 DEF PassType
  <2> QED  BY <1>3, <2>1, <2>2, <2>3
<1> QED  BY <1>1, <1>2, <1>5, Onward DEF CalmPcs, Pcs, CopyPcs, StagePcs

LEMMA SettlePass ==
    ASSUME Keeps, NEW s \in Services, Settle(s)
    PROVE  \E q : OnlyPass(s, q)
<1> DEFINE p == pass[s]
<1>1. p \in PassType /\ Sound(s, p) /\ p.pc = "settle"
  BY SoundPass DEF Sound, Settle
<1>2. PICK x \in p.staged : \/ Set(s, [p EXCEPT !.staged = @ \ {x}, !.bad = TRUE])
                            \/ Set(s, [p EXCEPT !.pc = "settled", !.drain = x])
  <2>1. PICK x \in p.staged :
            \/ Set(s, [[p EXCEPT !.staged = @ \ {x}] EXCEPT !.bad = TRUE])
            \/ Set(s, [p EXCEPT !.pc = "settled", !.drain = x])
    BY DEF Settle
  <2>2. [[p EXCEPT !.staged = @ \ {x}] EXCEPT !.bad = TRUE]
           = [p EXCEPT !.staged = @ \ {x}, !.bad = TRUE]
    BY <1>1 DEF PassType
  <2> QED  BY <2>1, <2>2
<1>3. CASE Set(s, [p EXCEPT !.staged = @ \ {x}, !.bad = TRUE])
  BY <1>1, <1>3, Unstaged DEF OnlyPass, Set
<1>4. CASE Set(s, [p EXCEPT !.pc = "settled", !.drain = x])
  <2> DEFINE q == [p EXCEPT !.pc = "settled", !.drain = x]
  <2>1. x \in StagedType
    BY <1>1 DEF PassType
  <2>2. /\ q \in PassType /\ q.pc = "settled" /\ q.drain = x /\ q.staged = p.staged
        /\ q.nonce = p.nonce /\ q.snap = p.snap /\ q.strays = p.strays /\ q.side = p.side
    BY <1>1, <2>1 DEF PassType, Pcs
  <2>3. Set(s, q)
    BY <1>4
  <2> HIDE DEF q
  <2>4. Shaped(q)
    BY <1>1, <1>2, <2>2 DEF Sound, Shaped, CopyPcs, StagePcs
  <2>5. Grounded(s, q)
    BY <1>1, <2>2 DEF Sound, Grounded
  <2> QED  BY <2>2, <2>3, <2>4, <2>5 DEF OnlyPass, Set, Sound
<1> QED  BY <1>2, <1>3, <1>4

LEMMA EndPass ==
    ASSUME Keeps, NEW s \in Services, Settled(s) \/ Finish(s) \/ Crash(s)
    PROVE  \E q : OnlyPass(s, q)
<1>1. ASSUME Settled(s) PROVE \E q : OnlyPass(s, q)
  <2> DEFINE q == [pass[s] EXCEPT !.pc = "settle", !.staged = @ \ {pass[s].drain},
                                  !.drain = None]
  <2>1. Set(s, q) /\ pass[s].pc = "settled"
    BY <1>1 DEF Settled
  <2>2. Sound(s, q)
    BY <2>1, Unstaged
  <2> QED  BY <2>1, <2>2 DEF OnlyPass, Set
<1>2. ASSUME Finish(s) \/ Crash(s) PROVE \E q : OnlyPass(s, q)
  BY <1>2, IdleSound DEF Finish, Crash, OnlyPass, Set
<1> QED  BY <1>1, <1>2

LEMMA FailsPass ==
    ASSUME Keeps, NEW s \in Services, Fails(s)
    PROVE  \E q : OnlyPass(s, q)
<1> DEFINE p == pass[s]
<1>1. p \in PassType /\ Sound(s, p)
  BY SoundPass DEF Sound
<1> DEFINE Good == \E q : OnlyPass(s, q)
<1> SUFFICES Good
  OBVIOUS
<1>2. ASSUME Set(s, Idle) PROVE Good
  BY <1>2, IdleSound DEF OnlyPass, Set
<1>3. ASSUME Set(s, [p EXCEPT !.pc = "entries", !.drain = None]) PROVE Good
  <2> DEFINE q == [p EXCEPT !.pc = "entries", !.drain = None]
  <2>1. /\ q \in PassType /\ q.pc = "entries" /\ q.staged = p.staged
        /\ q.nonce = p.nonce /\ q.snap = p.snap /\ q.strays = p.strays /\ q.side = p.side
    BY <1>1 DEF PassType, Pcs
  <2>2. Set(s, q)
    BY <1>3
  <2> HIDE DEF q
  <2>3. Sound(s, q)
    BY <1>1, <2>1, Onward DEF CalmPcs, Pcs, CopyPcs, StagePcs
  <2> QED  BY <2>2, <2>3 DEF OnlyPass, Set
<1>4. ASSUME Set(s, Throws(s)) PROVE Good
  BY <1>4, CopyDone DEF OnlyPass, Set
<1>5. ASSUME p.pc \in {"enqueue", "unqueue"}, Set(s, Refused(s)) PROVE Good
  BY <1>5, CopyDone DEF OnlyPass, Set, CopyPcs, StagePcs
<1>6. ASSUME p.pc \in {"pull", "push"}, Goto(s, "retry") PROVE Good
  BY <1>6, GoesOn DEF StagePcs
<1>7. ASSUME p.pc = "retry", Goto(s, "rollback") PROVE Good
  BY <1>7, GoesOn DEF StagePcs
<1>8. ASSUME p.pc = "settle", \E x \in p.staged : Set(s, [p EXCEPT !.staged = @ \ {x}, !.bad = TRUE])
      PROVE  Good
  <2>1. PICK x : Set(s, [p EXCEPT !.staged = @ \ {x}, !.bad = TRUE])
    BY <1>8
  <2> QED  BY <1>8, <2>1, Unstaged DEF OnlyPass, Set
<1>9. ASSUME p.pc = "settled",
             Set(s, [p EXCEPT !.pc = "settle", !.staged = @ \ {p.drain}, !.drain = None,
                              !.bad = TRUE])
      PROVE  Good
  BY <1>9, Unstaged DEF OnlyPass, Set
<1>10. ASSUME p.pc = "entries",
              \E e \in p.entries : Set(s, [p EXCEPT !.entries = @ \ {e}, !.held = @ \cup {e.row},
                                                    !.bad = TRUE])
       PROVE  Good
  <2>1. PICK e \in p.entries :
           Set(s, [p EXCEPT !.entries = @ \ {e}, !.held = @ \cup {e.row}, !.bad = TRUE])
    BY <1>10
  <2> DEFINE q == [p EXCEPT !.entries = @ \ {e}, !.held = @ \cup {e.row}, !.bad = TRUE]
  <2>2. e.row \in Rows
    BY <1>1 DEF PassType, Record
  <2>3. /\ q \in PassType /\ q.pc = "entries" /\ q.staged = p.staged
        /\ q.nonce = p.nonce /\ q.snap = p.snap /\ q.strays = p.strays /\ q.side = p.side
    BY <1>1, <1>10, <2>2 DEF PassType
  <2>4. Set(s, q)
    BY <2>1
  <2> HIDE DEF q
  <2>5. Sound(s, q)
    BY <1>1, <2>3, Onward DEF CalmPcs, Pcs, CopyPcs, StagePcs
  <2> QED  BY <2>4, <2>5 DEF OnlyPass, Set
<1>11. ASSUME p.pc = "strays",
              \E x \in p.strays : Set(s, [p EXCEPT !.strays = @ \ {x}, !.held = @ \cup {x.row},
                                                   !.bad = TRUE])
       PROVE  Good
  <2>1. PICK x \in p.strays :
           Set(s, [p EXCEPT !.strays = @ \ {x}, !.held = @ \cup {x.row}, !.bad = TRUE])
    BY <1>11
  <2> DEFINE q == [p EXCEPT !.strays = @ \ {x}, !.held = @ \cup {x.row}, !.bad = TRUE]
  <2>2. x.row \in Rows
    BY <1>1 DEF PassType, StrayType
  <2>3. /\ q \in PassType /\ q.pc = "strays" /\ q.staged = p.staged
        /\ q.nonce = p.nonce /\ q.snap = p.snap /\ q.strays \subseteq p.strays /\ q.side = p.side
    BY <1>1, <1>11, <2>2 DEF PassType
  <2>4. Set(s, q)
    BY <2>1
  <2> HIDE DEF q
  <2>5. Sound(s, q)
    BY <1>1, <2>3, Onward DEF CalmPcs, Pcs, CopyPcs, StagePcs
  <2> QED  BY <2>4, <2>5 DEF OnlyPass, Set
<1>12. ASSUME p.pc \in {"peer", "heal"}, Set(s, Healed(s)) PROVE Good
  BY <1>12, HealedSound DEF OnlyPass, Set
<1> HIDE DEF Good
<1> QED  BY <1>2, <1>3, <1>4, <1>5, <1>6, <1>7, <1>8, <1>9, <1>10, <1>11, <1>12 DEF Fails

-----------------------------------------------------------------------------
(* What a step does to the documents and the queues.                       *)

PutOK(db, r, d) ==
    /\ db \in Stores /\ r \in Rows /\ d \in Doc /\ Bears(d, r)
    /\ Live(d) => Free(db, r, d.name)
    /\ doc' = [doc EXCEPT ![db][r] = d]

DocsOK == doc' = doc \/ \E db, r, d : PutOK(db, r, d)
DirtyOK == dirty' \in [Services -> SUBSET Rows]
QueueOK == queue' \in [Stores -> SUBSET Record]

LEMMA NoWrite ==
    ASSUME Keeps, SameDocs
    PROVE  DocsOK /\ DirtyOK
BY DEF SameDocs, DocsOK, DirtyOK, Keeps, Typed

LEMMA PutWrites ==
    ASSUME Keeps, NEW own, NEW db \in Stores, NEW r \in Rows, NEW d \in Doc, Bears(d, r),
           Live(d) => Free(db, r, d.name), Put(own, db, r, d)
    PROVE  DocsOK /\ DirtyOK
<1>1. DocsOK
  BY DEF Put, DocsOK, PutOK
<1>2. dirty \in [Services -> SUBSET Rows] /\ dirty' = Disturbed(own, db, r)
  BY DEF Keeps, Typed, Put
<1>3. DirtyOK
  BY <1>2 DEF Disturbed, DirtyOK
<1> QED  BY <1>1, <1>3

\* A row is given a name of its own that is free.
LEMMA NamedWrites ==
    ASSUME Keeps, NEW own, NEW db \in Stores, NEW r \in Rows, doc[db][r] # NoDoc,
           NEW n \in Names \cup Placeholders, IsPlaceholder(n) => n.row = r,
           Live(doc[db][r]) => Free(db, r, n), Named(own, db, r, n)
    PROVE  DocsOK /\ DirtyOK
<1> DEFINE c == doc[db][r]
           d == [c EXCEPT !.name = n]
<1>1. c \in Doc
  BY DEF Keeps, Typed, Docs
<1>2. d \in Doc /\ d.name = n /\ d.del = c.del
  BY <1>1 DEF Doc
<1>3. d # NoDoc
  BY <1>2, SyncNamesAssumption
<1>4. Put(own, db, r, d)
  BY DEF Named
<1> HIDE DEF d
<1>5. Bears(d, r) /\ (Live(d) => Free(db, r, d.name))
  BY <1>2, <1>3 DEF Bears, Live
<1> QED  BY <1>2, <1>4, <1>5, PutWrites

\* Names and rows stay unique when a write looks whether its name is free.
LEMMA DocsKept ==
    ASSUME doc \in Docs, Unique, Own, DocsOK
    PROVE  /\ (doc \in Docs)' /\ Unique' /\ Own'
           /\ \A db \in Stores, r \in Rows : doc[db][r] # NoDoc => doc'[db][r] # NoDoc
<1>1. CASE doc' = doc
  BY <1>1 DEF Unique, Own
<1>2. CASE \E db, r, d : PutOK(db, r, d)
  <2>1. PICK db, r, d : PutOK(db, r, d)
    BY <1>2
  <2>2. db \in Stores /\ r \in Rows /\ d \in Doc /\ d # NoDoc
    BY <2>1, SyncNamesAssumption DEF PutOK
  <2>3. /\ doc' \in Docs /\ doc'[db][r] = d
        /\ \A st \in Stores, q \in Rows : st # db \/ q # r => doc'[st][q] = doc[st][q]
    BY <2>1, <2>2 DEF PutOK, Docs
  <2>4. \A q \in Rows : q # r /\ Live(d) /\ Live(doc[db][q]) => doc[db][q].name # d.name
    BY <2>1 DEF PutOK, Free, Holder
  <2>5. Unique'
    <3> SUFFICES ASSUME NEW st \in Stores, NEW p \in Rows, NEW q \in Rows,
                        Live(doc'[st][p]), Live(doc'[st][q]), doc'[st][p].name = doc'[st][q].name,
                        p # q
                 PROVE  FALSE
      BY DEF Unique
    <3>1. CASE st = db /\ p = r
      BY <2>2, <2>3, <2>4, <3>1
    <3>2. CASE st = db /\ q = r
      BY <2>2, <2>3, <2>4, <3>2
    <3>3. CASE st # db \/ (p # r /\ q # r)
      BY <2>3, <3>3 DEF Unique
    <3> QED  BY <3>1, <3>2, <3>3
  <2>6. Own'
    BY <2>1, <2>3 DEF PutOK, Own
  <2>7. \A st \in Stores, q \in Rows : doc[st][q] # NoDoc => doc'[st][q] # NoDoc
    BY <2>2, <2>3
  <2> QED  BY <2>3, <2>5, <2>6, <2>7
<1> QED  BY <1>1, <1>2 DEF DocsOK

\* Records are added with a date, and taken out.
LEMMA PushOK ==
    ASSUME Keeps, NEW s \in Services, pass[s].pc \in StagePcs, Push(s)
    PROVE  QueueOK
<1>1. (CHOOSE at \in NewDates : TRUE) \in Dates
  BY DEF Push, NewDates
<1>2. PICK at \in Dates : queue' = [queue EXCEPT ![Target(s)] = @ \cup {Entry(s, at)}]
  BY <1>1 DEF Push
<1>3. Entry(s, at) \in Record
  BY KeyTyped DEF Entry, Record
<1> QED  BY <1>2, <1>3 DEF QueueOK, Keeps, Typed

LEMMA PullOK ==
    ASSUME Keeps, NEW db, NEW x, Pull(db, x)
    PROVE  QueueOK
BY DEF Pull, QueueOK, Keeps, Typed

LEMMA QueueStays ==
    ASSUME Keeps, UNCHANGED queue
    PROVE  QueueOK
BY DEF QueueOK, Keeps, Typed

Effects == DocsOK /\ DirtyOK /\ QueueOK

\* The row to be healed is there, and its peer had a user's name.
LEMMA HealKnows ==
    ASSUME Keeps, NEW s \in Services, Heal(s)
    PROVE  LET x == pass[s].drain IN
           /\ x \in StagedType /\ x.row \in Rows /\ x.o \in Names /\ Here(s) \in Stores
           /\ doc[Here(s)][x.row] # NoDoc
<1> DEFINE x == pass[s].drain
           y == [row |-> x.row, p |-> x.p]
<1>1. /\ Sound(s, pass[s]) /\ Here(s) \in Stores /\ pass[s].pc = "heal"
  BY SoundPass DEF Heal
<1>2. x \in StagedType /\ y \in pass[s].strays
  BY <1>1 DEF Sound, Shaped
<1>3. doc[Here(s)][y.row] # NoDoc
  BY <1>1, <1>2 DEF Sound, Grounded, Here
<1> QED  BY <1>1, <1>2, <1>3 DEF StagedType

LEMMA SweepEffects ==
    ASSUME Keeps, NEW s \in Services, Sweep(s)
    PROVE  Effects
<1>1. ASSUME Start(s) PROVE Effects
  <2>1. DocsOK /\ DirtyOK
    BY <1>1 DEF Start, DocsOK, DirtyOK, Keeps, Typed
  <2> QED  BY <1>1, <2>1, QueueStays DEF Start, Effects
<1>2. ASSUME ReadQueue(s) \/ FindStrays(s) \/ LookUp(s) \/ ReadPeer(s) \/ EndSweep(s)
      PROVE  Effects
  BY <1>2, NoWrite, QueueStays DEF ReadQueue, FindStrays, LookUp, ReadPeer, EndSweep, Effects
<1>3. ASSUME SweepEntry(s) PROVE Effects
  <2>1. PICK e \in pass[s].entries :
           \/ SameDocs
           \/ /\ Live(doc[Here(s)][e.row]) /\ Free(Here(s), e.row, e.o)
              /\ Named({s}, Here(s), e.row, e.o)
    BY <1>3 DEF SweepEntry
  <2>2. e \in Record /\ Here(s) \in Stores
    BY SoundPass DEF Sound, PassType
  <2>3. e.row \in Rows /\ e.o \in Names /\ ~IsPlaceholder(e.o)
    BY <2>2, SyncNamesAssumption DEF Record, IsPlaceholder
  <2>4. DocsOK /\ DirtyOK
    BY <2>1, <2>2, <2>3, NoWrite, NamedWrites DEF Live
  <2> QED  BY <1>3, <2>4, QueueStays DEF SweepEntry, Effects
<1>4. ASSUME Drain(s) PROVE Effects
  <2>1. QueueOK
    BY <1>4 DEF Drain, QueueOK, Keeps, Typed
  <2> QED  BY <1>4, <2>1, NoWrite DEF Drain, Effects
<1>5. ASSUME Heal(s) PROVE Effects
  <2> DEFINE x == pass[s].drain
  <2>1. \/ SameDocs
        \/ Free(Here(s), x.row, x.o) /\ Named({s}, Here(s), x.row, x.o)
    BY <1>5 DEF Heal
  <2>2. /\ x \in StagedType /\ x.row \in Rows /\ x.o \in Names /\ Here(s) \in Stores
        /\ doc[Here(s)][x.row] # NoDoc
    BY <1>5, HealKnows
  <2>3. DocsOK /\ DirtyOK
    BY <2>1, <2>2, NoWrite, NamedWrites, SyncNamesAssumption DEF IsPlaceholder
  <2> QED  BY <1>5, <2>3, QueueStays DEF Heal, Effects
<1> QED  BY <1>1, <1>2, <1>3, <1>4, <1>5 DEF Sweep

LEMMA LoopEffects ==
    ASSUME Keeps, NEW s \in Services, Loop(s)
    PROVE  Effects
<1>1. ASSUME ReadLocal(s) \/ ReadRemote(s) \/ EndRows(s) PROVE Effects
  BY <1>1, NoWrite, QueueStays DEF ReadLocal, ReadRemote, EndRows, Effects
<1>2. ASSUME NEW r \in Rows, HeldBack(s, r) PROVE Effects
  BY <1>2, NoWrite, QueueStays DEF HeldBack, Effects
<1>3. ASSUME NEW r \in Rows, NEW to \in Sides, Hydrate(s, r, to) PROVE Effects
  BY <1>3, NoWrite, QueueStays DEF Hydrate, Effects
<1>4. ASSUME NEW r \in Rows, NEW to \in Sides, WriteFlags(s, r, to) PROVE Effects
  <2> DEFINE a == pass[s].snap[Other(to)][r]
             b == pass[s].snap[to][r]
             c == doc[Db(s, to)][r]
             d == [c EXCEPT !.del = a.del]
  <2>1. a # NoDoc /\ b # NoDoc /\ ~Live(a)
    BY <1>4 DEF WriteFlags, Intent, Outcome
  <2>2. Sound(s, pass[s]) /\ Db(s, to) \in Stores /\ Other(to) \in Sides
    BY SoundPass, Places
  <2>3. a \in Doc
    BY <2>1, <2>2 DEF Sound, PassType, Snap
  <2>4. c \in Doc /\ Bears(c, r)
    BY <2>1, <2>2 DEF Sound, Grounded, Keeps, Typed, Docs, Own
  <2>5. a.del \in 0..MaxTime /\ a.del # 0
    BY <2>1, <2>3 DEF Doc, Live
  <2> HIDE DEF a, b, c
  <2>6. d \in Doc /\ d.name = c.name /\ d.del # 0
    BY <2>4, <2>5 DEF Doc
  <2>7. Put({s}, Db(s, to), r, d)
    BY <1>4 DEF WriteFlags, a, c
  <2> HIDE DEF d
  <2>8. Bears(d, r) /\ ~Live(d)
    BY <2>4, <2>6, SyncNamesAssumption DEF Bears, Live
  <2>9. DocsOK /\ DirtyOK
    BY <2>2, <2>6, <2>7, <2>8, PutWrites
  <2> QED  BY <1>4, <2>9, QueueStays DEF WriteFlags, Effects
<1> QED  BY <1>1, <1>2, <1>3, <1>4 DEF Loop

\* A row that was moved aside gets its name back, if it is free.
LEMMA TakenBackWrites ==
    ASSUME Keeps, NEW s \in Services, NEW db \in Stores, NEW x, x.row \in Rows, x.o \in Names,
           doc[db][x.row] # NoDoc, TakenBack(s, db, x)
    PROVE  DocsOK /\ DirtyOK
<1>1. ~IsPlaceholder(x.o)
  BY SyncNamesAssumption DEF IsPlaceholder
<1> QED  BY <1>1, NoWrite, NamedWrites DEF TakenBack

LEMMA CopyWrites ==
    ASSUME Keeps, NEW s \in Services, pass[s].pc \in CopyPcs, ~Collides(s),
           Put({s}, Target(s), pass[s].job.row, Written(s))
    PROVE  DocsOK /\ DirtyOK
BY WrittenTyped, PutWrites DEF Collides

LEMMA StagingEffects ==
    ASSUME Keeps, NEW s \in Services, Staging(s)
    PROVE  Effects
<1>1. ASSUME WriteCopy(s) PROVE Effects
  BY <1>1, CopyWrites, QueueStays DEF WriteCopy, CopyPcs, Effects
<1>2. ASSUME Collide(s) \/ FindBlocker(s) \/ ReadSource(s) \/ Finish(s) PROVE Effects
  BY <1>2, NoWrite, QueueStays DEF Collide, FindBlocker, ReadSource, Finish, Effects
<1>3. ASSUME Enqueue(s) \/ PushAgain(s) PROVE Effects
  BY <1>3, NoWrite, PushOK DEF Enqueue, PushAgain, StagePcs, Effects
<1>4. ASSUME Unqueue(s) \/ PullOld(s) \/ Settled(s) PROVE Effects
  BY <1>4, NoWrite, PullOK DEF Unqueue, PullOld, Settled, Effects
<1>5. ASSUME Stage(s) PROVE Effects
  <2> DEFINE d == doc[Target(s)][Key(s).row]
  <2>1. /\ Target(s) \in Stores /\ Key(s).row \in Rows /\ Key(s).p \in Placeholders
        /\ Key(s).p.row = Key(s).row
    BY <1>5, KeyTyped DEF Stage, StagePcs
  <2>2. SameDocs \/ (Live(d) /\ Named({s}, Target(s), Key(s).row, Key(s).p))
    BY <1>5 DEF Stage
  <2>3. Free(Target(s), Key(s).row, Key(s).p)
    <3> SUFFICES ASSUME NEW r \in Rows, Live(doc[Target(s)][r]), doc[Target(s)][r].name = Key(s).p
                 PROVE  r = Key(s).row
      BY DEF Free, Holder
    <3>1. Bears(doc[Target(s)][r], r)
      BY <2>1 DEF Keeps, Own
    <3> QED  BY <2>1, <3>1 DEF Bears, Live, IsPlaceholder
  <2>4. DocsOK /\ DirtyOK
    BY <2>1, <2>2, <2>3, NoWrite, NamedWrites DEF Live
  <2> QED  BY <1>5, <2>4, QueueStays DEF Stage, Effects
<1>6. ASSUME Retry(s) PROVE Effects
  <2>1. pass[s].pc \in CopyPcs
    BY <1>6 DEF Retry, CopyPcs, StagePcs
  <2>2. DocsOK /\ DirtyOK
    BY <1>6, <2>1, NoWrite, CopyWrites DEF Retry
  <2> QED  BY <1>6, <2>2, QueueStays DEF Retry, Effects
<1>7. ASSUME Rollback(s) PROVE Effects
  <2>1. /\ Target(s) \in Stores /\ Key(s).row \in Rows /\ Key(s).o \in Names
        /\ doc[Target(s)][Key(s).row] # NoDoc
    <3>1. Aside(s) \in pass[s].staged /\ Sound(s, pass[s])
      BY <1>7, SoundPass DEF Rollback, Sound, Shaped, Aside, Key
    <3> QED  BY <1>7, <3>1, KeyTyped DEF Rollback, StagePcs, Sound, Grounded, Target
  <2>2. DocsOK /\ DirtyOK
    BY <1>7, <2>1, TakenBackWrites DEF Rollback
  <2> QED  BY <1>7, <2>2, QueueStays DEF Rollback, Effects
<1>8. ASSUME Settle(s) PROVE Effects
  <2>1. PICK x \in pass[s].staged : SameDocs \/ TakenBack(s, Db(s, x.side), x)
    BY <1>8 DEF Settle
  <2>2. x \in StagedType /\ doc[Db(s, x.side)][x.row] # NoDoc
    BY SoundPass DEF Sound, PassType, Grounded
  <2>3. x.row \in Rows /\ x.o \in Names /\ Db(s, x.side) \in Stores
    BY <2>2, Places DEF StagedType
  <2>4. DocsOK /\ DirtyOK
    BY <2>1, <2>2, <2>3, NoWrite, TakenBackWrites
  <2> QED  BY <1>8, <2>4, QueueStays DEF Settle, Effects
<1> QED  BY <1>1, <1>2, <1>3, <1>4, <1>5, <1>6, <1>7, <1>8 DEF Staging

\* Every step of a pass is a step of that pass alone.
LEMMA PassStepPass ==
    ASSUME Keeps, NEW s \in Services, PassStep(s)
    PROVE  \E q : OnlyPass(s, q)
<1>1. ASSUME Sweep(s) PROVE \E q : OnlyPass(s, q)
  BY <1>1, StartPass, ReadQueuePass, SweepEntryPass, DrainPass, FindStraysPass, LookUpPass,
     ReadPeerPass, HealPass, EndSweepPass DEF Sweep
<1>2. ASSUME Loop(s) PROVE \E q : OnlyPass(s, q)
  BY <1>2, ReadLocalPass, ReadRemotePass, EndRowsPass, HeldBackPass, WriteFlagsPass, HydratePass
     DEF Loop
<1>3. ASSUME Staging(s) PROVE \E q : OnlyPass(s, q)
  BY <1>3, WriteCopyPass, CollidePass, FindBlockerPass, ReadSourcePass, StagePass, StagingPass, SettlePass, EndPass DEF Staging
<1> QED  BY <1>1, <1>2, <1>3 DEF PassStep

-----------------------------------------------------------------------------
(* Names stay unique.                                                      *)

PlayOK == play' \in Play /\ clock' \in Nat /\ clock' + play'.edits = MaxTime

LEMMA UserWrites ==
    ASSUME User
    PROVE  /\ UNCHANGED <<queue, pass, lapsed>>
           /\ clock' = clock + 1
           /\ play.edits > 0 /\ play' = [play EXCEPT !.edits = @ - 1]
<1>1. PICK db \in Stores, r \in Rows :
         \/ \E n : Edit(db, r, n) \/ Create(db, r, n)
         \/ Trash(db, r) \/ Restore(db, r)
  BY DEF User
<1>2. PICK kind : \E d : Write(kind, db, r, d)
  BY <1>1 DEF Edit, Trash, Restore, Create
<1> QED  BY <1>2 DEF Write

LEMMA PlaySteps ==
    ASSUME Keeps, Next
    PROVE  PlayOK
<1> DEFINE p == play
<1>1. /\ p \in Play /\ clock \in Nat /\ clock + p.edits = MaxTime /\ MaxTime \in Nat
      /\ p.edits \in Nat /\ MaxCrashes \in Nat
  BY SyncNamesAssumption DEF Keeps, Typed, Play
<1>2. ASSUME UNCHANGED <<play, clock>> PROVE PlayOK
  BY <1>1, <1>2 DEF PlayOK
<1>3. ASSUME NEW s \in Services, Start(s) PROVE PlayOK
  <2>1. p.services \ (p.once \cap {s}) \in SUBSET Services
    BY <1>1 DEF Play
  <2>2. clock' = clock /\ play' = [p EXCEPT !.services = p.services \ (p.once \cap {s})]
    BY <1>3 DEF Start
  <2> QED  BY <1>1, <2>1, <2>2 DEF PlayOK, Play
<1>4. ASSUME NEW s \in Services, Fails(s) PROVE PlayOK
  <2>1. p.fails \in 0..MaxCrashes /\ p.fails > 0
    BY <1>1, <1>4 DEF Play, Fails
  <2>2. p.fails - 1 \in 0..MaxCrashes
    BY <1>1, <2>1
  <2>3. clock' = clock /\ play' = [p EXCEPT !.fails = p.fails - 1]
    BY <1>4 DEF Fails
  <2> QED  BY <1>1, <2>2, <2>3 DEF PlayOK, Play
<1>5. ASSUME NEW s \in Services, Crash(s) PROVE PlayOK
  <2>1. p.crashes \in [Services -> 0..MaxCrashes] /\ p.crashes[s] > 0
    BY <1>1, <1>5 DEF Play, Crash
  <2>2. [p.crashes EXCEPT ![s] = @ - 1] \in [Services -> 0..MaxCrashes]
    BY <1>1, <2>1
  <2>3. clock' = clock /\ play' = [p EXCEPT !.crashes = [p.crashes EXCEPT ![s] = @ - 1]]
    BY <1>1, <1>5 DEF Crash, Play
  <2> QED  BY <1>1, <2>2, <2>3 DEF PlayOK, Play
<1>6. ASSUME User PROVE PlayOK
  <2>1. play.edits > 0 /\ play' = [play EXCEPT !.edits = @ - 1] /\ clock' = clock + 1
    BY <1>6, UserWrites
  <2>2. p.edits - 1 \in 0..MaxTime
    BY <1>1, <2>1 DEF Play
  <2>3. play' \in Play /\ play'.edits = p.edits - 1
    BY <1>1, <2>1, <2>2 DEF Play
  <2> QED  BY <1>1, <2>1, <2>3 DEF PlayOK
<1>7. ASSUME NEW s \in Services, PassStep(s) PROVE PlayOK
  <2>1. Start(s) \/ UNCHANGED <<play, clock>>
    BY <1>7 DEF PassStep, Sweep, Loop, Staging, ReadQueue, SweepEntry, Drain, FindStrays,
       LookUp, ReadPeer, Heal, EndSweep, ReadLocal, ReadRemote, EndRows, HeldBack, WriteFlags, Hydrate,
       WriteCopy, Collide, FindBlocker, ReadSource, Enqueue, Stage, Unqueue, PullOld, PushAgain, Retry, Rollback, Settle,
       Settled, Finish, Rest
  <2> QED  BY <1>2, <1>3, <2>1
<1>8. ASSUME NEW db \in Stores, Age(db) PROVE PlayOK
  BY <1>2, <1>8 DEF Age
<1> QED  BY <1>4, <1>5, <1>6, <1>7, <1>8 DEF Next

LEMMA UserEffects ==
    ASSUME Keeps, Next, User
    PROVE  Effects
<1>1. clock' = clock + 1 /\ clock + 1 \in 0..MaxTime /\ 0 \in 0..MaxTime
  <2>1. clock' = clock + 1
    BY UserWrites
  <2>2. clock' \in Nat /\ clock' <= MaxTime
    <3>1. PlayOK /\ play'.edits \in Nat
      BY PlaySteps, SyncNamesAssumption DEF PlayOK, Play
    <3> QED  BY <3>1, SyncNamesAssumption DEF PlayOK
  <2> QED  BY <2>1, <2>2, SyncNamesAssumption
<1>2. PICK db \in Stores, r \in Rows :
         \/ Live(doc[db][r]) /\ \E n \in Names \cup {doc[db][r].name} : Edit(db, r, n)
         \/ \E n \in Names : Create(db, r, n)
         \/ Trash(db, r) \/ Restore(db, r)
  BY DEF User
<1> DEFINE c == doc[db][r]
<1>3. c \in Doc \cup {NoDoc} /\ Bears(c, r)
  BY DEF Keeps, Typed, Docs, Own
<1>4. ASSUME NEW kind, NEW d \in Doc, Bears(d, r), Write(kind, db, r, d)
      PROVE  Effects
  <2> DEFINE e == [d EXCEPT !.upd = clock + 1]
  <2>1. e \in Doc /\ e.name = d.name /\ e.del = d.del
    BY <1>1 DEF Doc
  <2>2. Put({}, db, r, e) /\ (Live(d) => Free(db, r, d.name))
    BY <1>4 DEF Write
  <2> HIDE DEF e
  <2>3. Bears(e, r) /\ (Live(e) => Free(db, r, e.name))
    BY <1>4, <2>1, <2>2, SyncNamesAssumption DEF Bears, Live
  <2>4. DocsOK /\ DirtyOK
    BY <2>1, <2>2, <2>3, PutWrites
  <2> QED  BY <1>4, <2>4, QueueStays DEF Write, Effects
<1>5. ASSUME Live(c), NEW n \in Names \cup {c.name}, Edit(db, r, n) PROVE Effects
  <2> DEFINE d == [c EXCEPT !.name = n]
  <2>1. c \in Doc
    BY <1>3, <1>5 DEF Live
  <2>2. d \in Doc /\ d.name = n
    BY <2>1 DEF Doc
  <2>3. Bears(d, r)
    BY <1>3, <1>5, <2>1, <2>2, SyncNamesAssumption DEF Bears, IsPlaceholder
  <2>4. Write("name", db, r, d)
    BY <1>5 DEF Edit
  <2> HIDE DEF d
  <2> QED  BY <1>4, <2>2, <2>3, <2>4
<1>6. ASSUME NEW n \in Names, Create(db, r, n) PROVE Effects
  <2> DEFINE d == [name |-> n, upd |-> 0, del |-> 0]
  <2>1. d \in Doc /\ d.name = n
    BY <1>1 DEF Doc
  <2>2. Write("create", db, r, d)
    BY <1>6 DEF Create
  <2> HIDE DEF d
  <2>3. Bears(d, r)
    BY <2>1, SyncNamesAssumption DEF Bears, IsPlaceholder
  <2> QED  BY <1>4, <2>1, <2>2, <2>3
<1>7. ASSUME Trash(db, r) PROVE Effects
  <2> DEFINE d == [c EXCEPT !.del = clock + 1]
  <2>1. d \in Doc /\ d.name = c.name
    BY <1>1, <1>3, <1>7 DEF Doc, Trash, Live
  <2>2. Write("trash", db, r, d)
    BY <1>7 DEF Trash
  <2>3. Live(c)
    BY <1>7 DEF Trash
  <2> HIDE DEF d
  <2>4. Bears(d, r)
    BY <1>3, <2>1, <2>3 DEF Bears, Live
  <2> QED  BY <1>4, <2>1, <2>2, <2>4
<1>8. ASSUME Restore(db, r) PROVE Effects
  <2> DEFINE d == [c EXCEPT !.del = 0]
  <2>1. c # NoDoc
    BY <1>8 DEF Restore
  <2>2. d \in Doc /\ d.name = c.name
    BY <1>1, <1>3, <2>1 DEF Doc
  <2>3. Write("restore", db, r, d)
    BY <1>8 DEF Restore
  <2> HIDE DEF d
  <2>4. Bears(d, r)
    BY <1>3, <2>1, <2>2 DEF Bears
  <2> QED  BY <1>4, <2>2, <2>3, <2>4
<1> QED  BY <1>2, <1>5, <1>6, <1>7, <1>8

LEMMA NextEffects ==
    ASSUME Keeps, Next
    PROVE  Effects
<1>1. ASSUME User PROVE Effects
  BY <1>1, UserEffects
<1>2. ASSUME NEW s \in Services, PassStep(s) PROVE Effects
  BY <1>2, SweepEffects, LoopEffects, StagingEffects DEF PassStep
<1>3. ASSUME NEW s \in Services, Fails(s) \/ Crash(s) PROVE Effects
  BY <1>3, NoWrite, QueueStays DEF Fails, Crash, Effects
<1>4. ASSUME NEW db \in Stores, Age(db) PROVE Effects
  <2>1. PICK e \in queue[db] :
           queue' = [queue EXCEPT ![db] = (@ \ {e}) \cup {[e EXCEPT !.old = TRUE]}]
    BY <1>4 DEF Age
  <2>2. e \in Record
    BY DEF Keeps, Typed
  <2>3. [e EXCEPT !.old = TRUE] \in Record
    BY <2>2 DEF Record
  <2>4. QueueOK
    BY <2>1, <2>3 DEF QueueOK, Keeps, Typed
  <2> QED  BY <1>4, <2>4, NoWrite DEF Age, Effects
<1> QED  BY <1>1, <1>2, <1>3, <1>4 DEF Next

LEMMA NextPasses ==
    ASSUME Keeps, Next
    PROVE  UNCHANGED pass \/ \E s \in Services : \E q : OnlyPass(s, q)
<1>1. ASSUME User PROVE UNCHANGED pass
  BY <1>1, UserWrites
<1>2. ASSUME NEW s \in Services, PassStep(s) PROVE \E q : OnlyPass(s, q)
  BY <1>2, PassStepPass
<1>3. ASSUME NEW s \in Services, Fails(s) \/ Crash(s) PROVE \E q : OnlyPass(s, q)
  BY <1>3, FailsPass, EndPass
<1>4. ASSUME NEW db \in Stores, Age(db) PROVE UNCHANGED pass
  BY <1>4 DEF Age
<1> QED  BY <1>1, <1>2, <1>3, <1>4 DEF Next

LEMMA InitKeeps ==
    ASSUME Init
    PROVE  Keeps
<1>1. play \in Play /\ play \in Plays /\ doc = play.docs /\ clock = MaxTime - play.edits
  BY SyncNamesAssumption DEF Init
<1>2. Unique
  BY <1>1, SyncNamesAssumption DEF Unique
<1> DEFINE D == [name : Names, upd : 0..MaxTime, del : 0..MaxTime]
<1>3. doc \in [Stores -> [Rows -> D \cup {NoDoc}]]
  BY <1>1 DEF Play
<1>4. \A d \in D : d \in Doc /\ ~IsPlaceholder(d.name)
  BY SyncNamesAssumption DEF Doc, IsPlaceholder
<1>5. doc \in Docs /\ Own
  BY <1>3, <1>4 DEF Docs, Own, Bears
<1>6. clock \in Nat /\ clock + play.edits = MaxTime
  BY <1>1, SyncNamesAssumption DEF Play
<1>7. \A s \in Services : pass[s] = Idle
  BY DEF Init
<1>8. \A s \in Services : Shaped(pass[s]) /\ Grounded(s, pass[s])
  BY <1>7, IdleSound DEF Sound
<1>9. Typed
  BY <1>1, <1>5, <1>6, IdleTyped DEF Typed, Init
<1> QED  BY <1>2, <1>5, <1>8, <1>9 DEF Keeps

LEMMA NextKeeps ==
    ASSUME Keeps, [Next]_vars
    PROVE  Keeps'
<1>1. CASE UNCHANGED vars
  BY <1>1 DEF vars, Keeps, Typed, Unique, Own, Grounded
<1>2. CASE Next
  <2>1. Effects /\ PlayOK
    BY <1>2, NextEffects, PlaySteps
  <2>2. /\ (doc \in Docs)' /\ Unique' /\ Own'
        /\ \A db \in Stores, r \in Rows : doc[db][r] # NoDoc => doc'[db][r] # NoDoc
    BY <2>1, DocsKept DEF Effects, Keeps, Typed
  <2>3. \A s \in Services : pass'[s] \in PassType /\ Shaped(pass'[s]) /\ Grounded(s, pass'[s])
    <3>1. \A s \in Services : Sound(s, pass[s]) /\ pass \in [Services -> PassType]
      BY SoundPass DEF Keeps, Typed
    <3>2. CASE UNCHANGED pass
      BY <3>1, <3>2 DEF Sound
    <3>3. CASE \E s \in Services : \E q : OnlyPass(s, q)
      BY <3>1, <3>3 DEF Sound, OnlyPass
    <3> QED  BY <1>2, <3>2, <3>3, NextPasses
  <2>4. pass' \in [Services -> PassType]
    <3>1. pass \in [Services -> PassType]
      BY DEF Keeps, Typed
    <3> QED  BY <1>2, <3>1, NextPasses DEF OnlyPass, Sound
  <2>5. Typed'
    BY <2>1, <2>2, <2>4 DEF Typed, Effects, QueueOK, DirtyOK, PlayOK
  <2>6. \A s \in Services : Grounded(s, pass[s])'
    <3> SUFFICES ASSUME NEW s \in Services PROVE Grounded(s, pass[s])'
      OBVIOUS
    <3>1. PICK p : p = pass'[s]
      OBVIOUS
    <3>2. p \in PassType /\ Grounded(s, p)
      BY <2>3, <3>1
    <3>3. \A side \in Sides : Db(s, side) \in Stores
      BY Places
    <3>4. \A side \in Sides, r \in Rows : p.snap[side][r] # NoDoc => doc'[Db(s, side)][r] # NoDoc
      BY <2>2, <3>2, <3>3 DEF Grounded
    <3>5. \A x \in p.strays : doc'[Db(s, p.side)][x.row] # NoDoc
      <4>1. \A x \in p.strays : x.row \in Rows /\ p.side \in Sides
        BY <3>2 DEF PassType, StrayType
      <4> QED  BY <2>2, <3>2, <3>3, <4>1 DEF Grounded
    <3>6. \A x \in p.staged : doc'[Db(s, x.side)][x.row] # NoDoc
      <4>1. \A x \in p.staged : x.row \in Rows /\ x.side \in Sides
        BY <3>2 DEF PassType, StagedType
      <4> QED  BY <2>2, <3>2, <3>3, <4>1 DEF Grounded
    <3> QED  BY <3>1, <3>4, <3>5, <3>6 DEF Grounded, Db
  <2>7. \A s \in Services : Shaped(pass[s])'
    BY <2>3 DEF Shaped
  <2> QED  BY <2>2, <2>5, <2>6, <2>7 DEF Keeps
<1> QED  BY <1>1, <1>2

LEMMA KeepsTypes ==
    ASSUME Keeps
    PROVE  TypeOK
<1>1. \A db \in Stores : /\ \A r \in Rows : doc[db][r] \in Doc \cup {NoDoc}
                         /\ queue[db] \subseteq Record
  BY DEF Keeps, Typed, Docs
<1>2. \A db \in Stores : \A n \in Names \cup Placeholders : \A q, r \in Holder(db, n) : q = r
  BY DEF Keeps, Unique, Holder
<1>3. play \in Play /\ clock \in 0..MaxTime
  <2>1. play \in Play /\ play.edits \in Nat /\ clock \in Nat /\ clock + play.edits = MaxTime
        /\ MaxTime \in Nat
    BY SyncNamesAssumption DEF Keeps, Typed, Play
  <2> QED  BY <2>1
<1>4. \A s \in Services : pass[s].held \cup pass[s].todo \subseteq Rows /\ dirty[s] \subseteq Rows
  BY DEF Keeps, Typed, PassType
<1> QED  BY <1>1, <1>2, <1>3, <1>4 DEF TypeOK

\* What every pass, document and record is, at all times.
LEMMA KeepsAlways == Spec => []Keeps
<1>1. Init => Keeps
  BY InitKeeps
<1>2. Keeps /\ [Next]_vars => Keeps'
  BY NextKeeps
<1> QED  BY <1>1, <1>2, PTL DEF Spec

\* The names of live rows are different in every database, whoever copies, stages,
\* settles, sweeps, edits, restores or creates: every such write looks whether the name
\* is free.  And a row that bears a placeholder bears its own, not another row's.
THEOREM NamesStayUnique == Spec => [](TypeOK /\ Own)
<1>1. Keeps => TypeOK /\ Own
  BY KeepsTypes DEF Keeps
<1> QED  BY <1>1, KeepsAlways, PTL

-----------------------------------------------------------------------------
(* Plays in which nothing is in the trash.  A placeholder in the trash is  *)
(* not one that holdHydratedPlaceholder looks for, so with the trash these *)
(* plays' properties do not hold.                                          *)

NothingTrashed ==
    \A p \in Plays : /\ p.kinds \cap {"trash"} = {}
                     /\ \A db \in Stores, r \in Rows : p.docs[db][r] # NoDoc => Live(p.docs[db][r])

\* A pass reads live rows, and copies none that is aside.
PassLive(p) ==
    /\ \A side \in Sides, r \in Rows : p.snap[side][r] # NoDoc => p.snap[side][r].del = 0
    /\ p.pc \in CopyPcs => p.job.full.name \in Names /\ p.job.full.del = 0

LiveInv ==
    /\ play.kinds \cap {"trash"} = {}
    /\ \A db \in Stores, r \in Rows : doc[db][r] # NoDoc => doc[db][r].del = 0
    /\ \A s \in Services : PassLive(pass[s])

\* A write that puts no row aside: the name is a user's, or the one that was there.
PlainPut(db, r, d) ==
    /\ db \in Stores /\ r \in Rows /\ d \in Doc /\ d.del = 0
    /\ d.name \in Names \/ (doc[db][r] # NoDoc /\ d.name = doc[db][r].name)
    /\ doc' = [doc EXCEPT ![db][r] = d]

Plain == doc' = doc \/ \E db, r, d : PlainPut(db, r, d)

LEMMA PlainRename ==
    ASSUME Keeps, LiveInv, NEW own, NEW db \in Stores, NEW r \in Rows, doc[db][r] # NoDoc,
           NEW n \in Names, Named(own, db, r, n)
    PROVE  Plain /\ doc' = [doc EXCEPT ![db][r].name = n]
<1> DEFINE c == doc[db][r]
           d == [c EXCEPT !.name = n]
<1>1. c \in Doc /\ c.del = 0
  BY DEF Keeps, Typed, Docs, LiveInv
<1>2. d \in Doc /\ d.name = n /\ d.del = 0
  BY <1>1 DEF Doc
<1>3. doc' = [doc EXCEPT ![db][r] = d]
  BY DEF Named, Put
<1> QED  BY <1>2, <1>3 DEF Plain, PlainPut

LEMMA PlainCopy ==
    ASSUME Keeps, LiveInv, NEW s \in Services, pass[s].pc \in CopyPcs,
           Put({s}, Target(s), pass[s].job.row, Written(s))
    PROVE  Plain
<1> DEFINE j == pass[s].job
           d == doc[Target(s)][j.row]
           w == Written(s)
<1>1. w \in Doc /\ j.row \in Rows /\ Target(s) \in Stores /\ j.full \in Doc
  BY WrittenTyped, SoundPass DEF Sound, Shaped
<1>2. j.full.name \in Names /\ j.full.del = 0
  BY DEF LiveInv, PassLive
<1>3. w = IF j.kind = "insert" THEN IF d = NoDoc THEN j.full ELSE d
          ELSE IF j.kind = "resurrect" THEN [j.full EXCEPT !.del = 0] ELSE j.full
  BY DEF Written
<1>4. w.del = 0 /\ (w.name \in Names \/ (d # NoDoc /\ w.name = d.name))
  <2>1. d # NoDoc => d.del = 0
    BY <1>1 DEF LiveInv
  <2>2. [j.full EXCEPT !.del = 0].del = 0 /\ [j.full EXCEPT !.del = 0].name = j.full.name
    BY <1>1 DEF Doc
  <2> QED  BY <1>2, <1>3, <2>1, <2>2
<1>5. doc' = [doc EXCEPT ![Target(s)][j.row] = w]
  BY DEF Put
<1> HIDE DEF w
<1> QED  BY <1>1, <1>4, <1>5 DEF Plain, PlainPut

\* Nothing goes to the trash, nor comes out of it.
LEMMA NoFlags ==
    ASSUME Keeps, LiveInv, NEW s \in Services, NEW to \in Sides, NEW r \in Rows
    PROVE  Intent(pass[s], to, r) \notin {"delete", "resurrect"}
<1>1. Other(to) \in Sides
  BY Places
<1> QED  BY <1>1 DEF LiveInv, PassLive, Intent, Outcome, Live

LEMMA SweepPlain ==
    ASSUME Keeps, LiveInv, NEW s \in Services, Sweep(s)
    PROVE  Plain
<1>1. ASSUME \/ Start(s) \/ ReadQueue(s) \/ FindStrays(s) \/ LookUp(s) \/ ReadPeer(s)
             \/ EndSweep(s) \/ Drain(s)
      PROVE  Plain
  BY <1>1 DEF Start, ReadQueue, FindStrays, LookUp, ReadPeer, EndSweep, Drain, SameDocs, Plain
<1>2. ASSUME SweepEntry(s) PROVE Plain
  <2>1. PICK e \in pass[s].entries :
           \/ SameDocs
           \/ /\ Live(doc[Here(s)][e.row])
              /\ Named({s}, Here(s), e.row, e.o)
    BY <1>2 DEF SweepEntry
  <2>2. e \in Record /\ Here(s) \in Stores
    BY SoundPass DEF Sound, PassType
  <2>3. e.row \in Rows /\ e.o \in Names
    BY <2>2 DEF Record
  <2> QED  BY <2>1, <2>2, <2>3, PlainRename DEF Live, SameDocs, Plain
<1>3. ASSUME Heal(s) PROVE Plain
  <2> DEFINE x == pass[s].drain
  <2>1. SameDocs \/ Named({s}, Here(s), x.row, x.o)
    BY <1>3 DEF Heal
  <2>2. /\ x.row \in Rows /\ x.o \in Names /\ Here(s) \in Stores
        /\ doc[Here(s)][x.row] # NoDoc
    BY <1>3, HealKnows
  <2> QED  BY <2>1, <2>2, PlainRename DEF SameDocs, Plain
<1> QED  BY <1>1, <1>2, <1>3 DEF Sweep

LEMMA LoopPlain ==
    ASSUME Keeps, LiveInv, NEW s \in Services, Loop(s)
    PROVE  doc' = doc
BY NoFlags DEF Loop, ReadLocal, ReadRemote, EndRows, HeldBack, Hydrate, WriteFlags, SameDocs

LEMMA TakenBackPlain ==
    ASSUME Keeps, LiveInv, NEW s \in Services, NEW db \in Stores, NEW x, x.row \in Rows,
           x.o \in Names, doc[db][x.row] # NoDoc, TakenBack(s, db, x)
    PROVE  Plain /\ (doc' = doc \/ doc' = [doc EXCEPT ![db][x.row].name = x.o])
<1>1. CASE SameDocs
  BY <1>1 DEF SameDocs, Plain
<1>2. CASE Named({s}, db, x.row, x.o)
  <2>1. PICK r \in Rows, n \in Names : r = x.row /\ n = x.o
    OBVIOUS
  <2> QED  BY <1>2, <2>1, PlainRename
<1> QED  BY <1>1, <1>2 DEF TakenBack

\* A row that is to be settled is there, and had a user's name.
LEMMA StagedTyped ==
    ASSUME Keeps, NEW s \in Services, NEW x \in pass[s].staged
    PROVE  /\ x \in StagedType /\ x.row \in Rows /\ x.o \in Names /\ x.side \in Sides
           /\ x.p \in Placeholders /\ x.p = [row |-> x.row, nonce |-> pass[s].nonce]
           /\ Db(s, x.side) \in Stores /\ doc[Db(s, x.side)][x.row] # NoDoc
           /\ pass[s].nonce \in Nonces
<1>1. x \in StagedType /\ doc[Db(s, x.side)][x.row] # NoDoc
      /\ x.p = [row |-> x.row, nonce |-> pass[s].nonce] /\ pass[s].nonce \in Nonces
  BY SoundPass DEF Sound, PassType, Grounded, Shaped
<1> QED  BY <1>1, Places DEF StagedType

LEMMA AsideStaged ==
    ASSUME Keeps, NEW s \in Services, pass[s].pc \in {"pull", "push", "retry", "rollback"}
    PROVE  Aside(s) \in pass[s].staged
BY SoundPass DEF Sound, Shaped, Aside, Key

LEMMA StagingPlain ==
    ASSUME Keeps, LiveInv, NEW s \in Services, Staging(s), ~Stage(s)
    PROVE  Plain
<1>1. ASSUME WriteCopy(s) \/ Retry(s) PROVE Plain
  BY <1>1, PlainCopy DEF WriteCopy, Retry, CopyPcs, StagePcs, SameDocs, Plain
<1>2. ASSUME \/ Collide(s) \/ FindBlocker(s) \/ ReadSource(s) \/ Finish(s) \/ Enqueue(s)
             \/ PushAgain(s) \/ Unqueue(s) \/ PullOld(s) \/ Settled(s)
      PROVE  Plain
  BY <1>2 DEF Collide, FindBlocker, ReadSource, Finish, Enqueue, PushAgain, Unqueue, PullOld, Settled, SameDocs, Plain
<1>3. ASSUME Rollback(s) PROVE Plain
  <2>1. Aside(s) \in pass[s].staged
    BY <1>3, AsideStaged DEF Rollback
  <2>2. /\ Target(s) \in Stores /\ Key(s).row \in Rows /\ Key(s).o \in Names
        /\ doc[Target(s)][Key(s).row] # NoDoc
    BY <1>3, <2>1, StagedTyped, KeyTyped DEF Rollback, StagePcs, Target
  <2> QED  BY <1>3, <2>2, TakenBackPlain DEF Rollback
<1>4. ASSUME Settle(s) PROVE Plain
  <2>1. PICK x \in pass[s].staged : SameDocs \/ TakenBack(s, Db(s, x.side), x)
    BY <1>4 DEF Settle
  <2> QED  BY <2>1, StagedTyped, TakenBackPlain DEF SameDocs, Plain
<1> QED  BY <1>1, <1>2, <1>3, <1>4 DEF Staging

LEMMA UserPlain ==
    ASSUME Keeps, LiveInv, Next, User
    PROVE  Plain
<1>1. clock' = clock + 1 /\ clock + 1 \in 0..MaxTime /\ 0 \in 0..MaxTime
  <2>1. clock' = clock + 1
    BY UserWrites
  <2>2. clock' \in Nat /\ clock' <= MaxTime
    <3>1. PlayOK /\ play'.edits \in Nat
      BY PlaySteps, SyncNamesAssumption DEF PlayOK, Play
    <3> QED  BY <3>1, SyncNamesAssumption DEF PlayOK
  <2> QED  BY <2>1, <2>2, SyncNamesAssumption
<1>2. PICK db \in Stores, r \in Rows :
         \/ Live(doc[db][r]) /\ \E n \in Names \cup {doc[db][r].name} : Edit(db, r, n)
         \/ \E n \in Names : Create(db, r, n)
         \/ Trash(db, r) \/ Restore(db, r)
  BY DEF User
<1> DEFINE c == doc[db][r]
<1>3. c \in Doc \cup {NoDoc} /\ (c # NoDoc => c.del = 0)
  BY DEF Keeps, Typed, Docs, LiveInv
<1>4. ~Trash(db, r) /\ ~Restore(db, r)
  BY <1>3 DEF Trash, Restore, Write, LiveInv, Live
<1>5. ASSUME Live(c), NEW n \in Names \cup {c.name}, Edit(db, r, n) PROVE Plain
  <2> DEFINE d == [[c EXCEPT !.name = n] EXCEPT !.upd = clock + 1]
  <2>1. c \in Doc /\ c.del = 0
    BY <1>3, <1>5 DEF Live
  <2>2. n \in Names \cup Placeholders
    BY <1>5, <2>1 DEF Doc
  <2> HIDE DEF c
  <2>3. d \in Doc /\ d.name = n /\ d.del = 0
    BY <1>1, <2>1, <2>2 DEF Doc
  <2>4. doc' = [doc EXCEPT ![db][r] = d]
    BY <1>5 DEF Edit, Write, Put, c
  <2> HIDE DEF d
  <2> QED  BY <1>5, <2>3, <2>4 DEF Plain, PlainPut, Live, c
<1>6. ASSUME NEW n \in Names, Create(db, r, n) PROVE Plain
  <2> DEFINE d == [[name |-> n, upd |-> 0, del |-> 0] EXCEPT !.upd = clock + 1]
  <2>1. d \in Doc /\ d.name = n /\ d.del = 0
    BY <1>1 DEF Doc
  <2>2. doc' = [doc EXCEPT ![db][r] = d]
    BY <1>6 DEF Create, Write, Put
  <2> HIDE DEF d
  <2> QED  BY <2>1, <2>2 DEF Plain, PlainPut
<1> QED  BY <1>2, <1>4, <1>5, <1>6

\* Only a pass that moves a row aside gives it a placeholder.
MovesAside(s) ==
    /\ pass[s].pc = "stage" /\ Stage(s)
    /\ Named({s}, Target(s), Key(s).row, Key(s).p)
    /\ doc[Target(s)][Key(s).row] # NoDoc

LEMMA NextPlain ==
    ASSUME Keeps, LiveInv, Next
    PROVE  Plain \/ \E s \in Services : MovesAside(s)
<1>1. ASSUME User PROVE Plain
  BY <1>1, UserPlain
<1>2. ASSUME NEW s \in Services, PassStep(s), ~Stage(s) PROVE Plain
  BY <1>2, SweepPlain, LoopPlain, StagingPlain DEF PassStep, Plain
<1>3. ASSUME NEW s \in Services, Stage(s) PROVE Plain \/ MovesAside(s)
  BY <1>3 DEF Stage, MovesAside, SameDocs, Plain, Live
<1>4. ASSUME NEW s \in Services, Fails(s) \/ Crash(s) PROVE Plain
  BY <1>4 DEF Fails, Crash, SameDocs, Plain
<1>5. ASSUME NEW db \in Stores, Age(db) PROVE Plain
  BY <1>5 DEF Age, SameDocs, Plain
<1> QED  BY <1>1, <1>2, <1>3, <1>4, <1>5 DEF Next

\* A pass that reads no snapshot and begins no copy.
SameCopy(s) ==
    /\ pass'[s].snap = pass[s].snap
    /\ pass'[s].pc \in CopyPcs => pass[s].pc \in CopyPcs /\ pass'[s].job.full = pass[s].job.full

\* What looking after a stray leaves as it was.
StrayStep(s, q) ==
    /\ pass[s].pc \in {"strays", "peer", "heal"} /\ q.pc \in {"strays", "peer", "heal"}
    /\ q.snap = pass[s].snap /\ q.nonce = pass[s].nonce

LEMMA StraySteps ==
    ASSUME Keeps, NEW s \in Services, LookUp(s) \/ ReadPeer(s) \/ Heal(s)
    PROVE  \E q : Set(s, q) /\ StrayStep(s, q)
<1> DEFINE p == pass[s]
<1>1. p \in PassType
  BY DEF Keeps, Typed
<1>2. PICK x, y, z, q : Set(s, q) /\
         \/ p.pc = "strays" /\ q = [[p EXCEPT !.held = @ \cup {x}, !.bad = TRUE]
                                       EXCEPT !.strays = @ \ {y}]
         \/ p.pc = "strays" /\ q = [[p EXCEPT !.held = @ \cup {x}, !.bad = TRUE]
                                       EXCEPT !.pc = "peer", !.drain = y]
         \/ p.pc = "peer" /\ q = [p EXCEPT !.pc = "heal", !.drain = y]
         \/ p.pc \in {"peer", "heal"}
            /\ q = [p EXCEPT !.pc = "strays", !.drain = None, !.strays = @ \ {z}]
  <2>1. CASE LookUp(s)
    BY <2>1 DEF LookUp
  <2>2. CASE ReadPeer(s)
    BY <2>2 DEF ReadPeer
  <2>3. CASE Heal(s)
    BY <2>3 DEF Heal, Healed
  <2> QED  BY <2>1, <2>2, <2>3
<1>3. StrayStep(s, q)
  BY <1>1, <1>2 DEF PassType, StrayStep
<1> QED  BY <1>2, <1>3

LEMMA CalmSame ==
    ASSUME Keeps, NEW s \in Services,
           \/ ReadQueue(s) \/ SweepEntry(s) \/ Drain(s) \/ FindStrays(s) \/ LookUp(s)
           \/ ReadPeer(s) \/ Heal(s) \/ EndSweep(s) \/ EndRows(s) \/ Settle(s) \/ Settled(s)
    PROVE  SameCopy(s) /\ \A t \in Services \ {s} : pass'[t] = pass[t]
<1>1. pass \in [Services -> PassType] /\ pass[s] \in PassType
  BY DEF Keeps, Typed
<1> DEFINE Goal == SameCopy(s) /\ \A t \in Services \ {s} : pass'[t] = pass[t]
<1> SUFFICES Goal
  OBVIOUS
<1>2. ASSUME ReadQueue(s) PROVE Goal
  BY <1>1, <1>2 DEF ReadQueue, Set, SameCopy, CopyPcs, StagePcs, PassType
<1>3. ASSUME SweepEntry(s) PROVE Goal
  <2> DEFINE left(e) == [pass[s] EXCEPT !.entries = @ \ {e}]
             held(e) == [left(e) EXCEPT !.held = @ \cup {e.row}, !.bad = TRUE]
             drained(q, e) == [q EXCEPT !.pc = "drain", !.drain = e]
  <2>1. PICK e, q : Set(s, q) /\ (q = left(e) \/ q = held(e)
                        \/ q = drained(left(e), e) \/ q = drained(held(e), e))
    BY <1>3 DEF SweepEntry
  <2>2. q.snap = pass[s].snap /\ q.pc \in {"entries", "drain"}
    BY <1>1, <1>3, <2>1 DEF SweepEntry, PassType
  <2>3. pass' = [pass EXCEPT ![s] = q]
    BY <2>1 DEF Set
  <2> QED  BY <1>1, <2>2, <2>3 DEF SameCopy, CopyPcs, StagePcs
<1>4. ASSUME Drain(s) PROVE Goal
  BY <1>1, <1>4 DEF Drain, Set, SameCopy, CopyPcs, StagePcs, PassType
<1>5. ASSUME FindStrays(s) PROVE Goal
  BY <1>1, <1>5 DEF FindStrays, Set, SameCopy, CopyPcs, StagePcs, PassType
<1>6. ASSUME LookUp(s) \/ ReadPeer(s) \/ Heal(s) PROVE Goal
  <2>1. PICK q : Set(s, q) /\ StrayStep(s, q)
    BY <1>6, StraySteps
  <2>2. q.snap = pass[s].snap /\ q.pc \in {"strays", "peer", "heal"}
    BY <2>1 DEF StrayStep
  <2>3. pass' = [pass EXCEPT ![s] = q]
    BY <2>1 DEF Set
  <2> QED  BY <1>1, <2>2, <2>3 DEF SameCopy, CopyPcs, StagePcs
<1>7. ASSUME EndSweep(s) PROVE Goal
  <2>1. PICK q : Set(s, q) /\ (q = [pass[s] EXCEPT !.pc = "queue", !.side = "remote"]
                               \/ q = [pass[s] EXCEPT !.pc = "local"])
    BY <1>7 DEF EndSweep
  <2>2. q.snap = pass[s].snap /\ q.pc \in {"queue", "local"}
    BY <1>1, <2>1 DEF PassType
  <2>3. pass' = [pass EXCEPT ![s] = q]
    BY <2>1 DEF Set
  <2> QED  BY <1>1, <2>2, <2>3 DEF SameCopy, CopyPcs, StagePcs
<1>8. ASSUME EndRows(s) PROVE Goal
  BY <1>1, <1>8 DEF EndRows, Goto, Set, SameCopy, CopyPcs, StagePcs, PassType
<1>9. ASSUME Settle(s) PROVE Goal
  <2>1. PICK x, q : Set(s, q) /\ (\/ q = [[pass[s] EXCEPT !.staged = @ \ {x}] EXCEPT !.bad = TRUE]
                                  \/ q = [pass[s] EXCEPT !.pc = "settled", !.drain = x])
    BY <1>9 DEF Settle
  <2>2. q.snap = pass[s].snap /\ q.pc \in {"settle", "settled"}
    BY <1>1, <1>9, <2>1 DEF Settle, PassType
  <2>3. pass' = [pass EXCEPT ![s] = q]
    BY <2>1 DEF Set
  <2> QED  BY <1>1, <2>2, <2>3 DEF SameCopy, CopyPcs, StagePcs
<1>10. ASSUME Settled(s) PROVE Goal
  BY <1>1, <1>10 DEF Settled, Set, SameCopy, CopyPcs, StagePcs, PassType
<1> HIDE DEF Goal
<1> QED  BY <1>2, <1>3, <1>4, <1>5, <1>6, <1>7, <1>8, <1>9, <1>10

LEMMA DoneSame ==
    ASSUME Keeps, NEW s \in Services,
           Set(s, Throws(s)) \/ Set(s, Next1(s)) \/ Set(s, Refused(s))
           \/ \E r \in Rows : pass[s].pc = "rows" /\ Set(s, Passed(s, r))
    PROVE  SameCopy(s) /\ \A t \in Services \ {s} : pass'[t] = pass[t]
<1>1. pass \in [Services -> PassType] /\ pass[s] \in PassType
  BY DEF Keeps, Typed
<1> DEFINE Goal == SameCopy(s) /\ \A t \in Services \ {s} : pass'[t] = pass[t]
<1> SUFFICES Goal
  OBVIOUS
<1>2. ASSUME Set(s, Throws(s)) PROVE Goal
  BY <1>1, <1>2 DEF Throws, Set, SameCopy, CopyPcs, StagePcs, PassType
<1>3. ASSUME Set(s, Next1(s)) PROVE Goal
  BY <1>1, <1>3 DEF Next1, Set, SameCopy, CopyPcs, StagePcs, PassType
<1>4. ASSUME Set(s, Refused(s)) PROVE Goal
  BY <1>1, <1>4 DEF Refused, Next1, Set, SameCopy, CopyPcs, StagePcs, PassType
<1>5. ASSUME NEW r \in Rows, pass[s].pc = "rows", Set(s, Passed(s, r)) PROVE Goal
  BY <1>1, <1>5 DEF Passed, Set, SameCopy, CopyPcs, StagePcs, PassType
<1> HIDE DEF Goal
<1> QED  BY <1>2, <1>3, <1>4, <1>5

LEMMA StagingSame ==
    ASSUME Keeps, NEW s \in Services,
           \/ WriteCopy(s) \/ Collide(s) \/ FindBlocker(s) \/ ReadSource(s) \/ Enqueue(s)
           \/ Stage(s) \/ Unqueue(s) \/ PullOld(s) \/ PushAgain(s) \/ Retry(s) \/ Rollback(s)
    PROVE  SameCopy(s) /\ \A t \in Services \ {s} : pass'[t] = pass[t]
<1>1. pass \in [Services -> PassType] /\ pass[s] \in PassType
  BY DEF Keeps, Typed
<1> DEFINE Goal == SameCopy(s) /\ \A t \in Services \ {s} : pass'[t] = pass[t]
<1> SUFFICES Goal
  OBVIOUS
<1>2. ASSUME NEW pc, pass[s].pc \in CopyPcs, Goto(s, pc) PROVE Goal
  BY <1>1, <1>2 DEF Goto, Set, SameCopy, PassType
<1>3. ASSUME WriteCopy(s) \/ Unqueue(s) \/ Rollback(s) PROVE Goal
  BY <1>3, DoneSame DEF WriteCopy, Unqueue, Rollback
<1>4. ASSUME Enqueue(s) \/ PullOld(s) \/ PushAgain(s) PROVE Goal
  <2>1. pass[s].pc \in CopyPcs /\ \E pc : Goto(s, pc)
    BY <1>4 DEF Enqueue, PullOld, PushAgain, CopyPcs, StagePcs
  <2> HIDE DEF Goal
  <2> QED  BY <1>2, <2>1
<1>5. ASSUME Retry(s) PROVE Goal
  BY <1>2, <1>5, DoneSame DEF Retry, CopyPcs, StagePcs
<1>6. ASSUME Collide(s) \/ FindBlocker(s) \/ ReadSource(s) PROVE Goal
  <2>1. pass[s].pc \in CopyPcs
    BY <1>6 DEF Collide, FindBlocker, ReadSource, CopyPcs
  <2>2. PICK b, n, k :
        \/ Set(s, Throws(s)) \/ Set(s, Refused(s)) \/ Goto(s, "blocker")
        \/ Set(s, [pass[s] EXCEPT !.pc = "source", !.job.blocker = b, !.job.o = n])
        \/ Set(s, [pass[s] EXCEPT !.pc = "enqueue", !.nonce = k])
    BY <1>6 DEF Collide, FindBlocker, ReadSource
  <2>3. ASSUME Set(s, [pass[s] EXCEPT !.pc = "source", !.job.blocker = b, !.job.o = n]) PROVE Goal
    BY <1>1, <2>1, <2>3 DEF Set, SameCopy, PassType, JobType
  <2>4. ASSUME Set(s, [pass[s] EXCEPT !.pc = "enqueue", !.nonce = k]) PROVE Goal
    BY <1>1, <2>1, <2>4 DEF Set, SameCopy, PassType
  <2>5. ASSUME Set(s, Throws(s)) \/ Set(s, Refused(s)) PROVE Goal
    BY <2>5, DoneSame
  <2> HIDE DEF Goal
  <2> QED  BY <1>2, <2>1, <2>2, <2>3, <2>4, <2>5
<1>7. ASSUME Stage(s) PROVE Goal
  <2>1. /\ pass[s].pc \in CopyPcs
        /\ \/ Set(s, [pass[s] EXCEPT !.pc = "pull", !.staged = @ \cup {Aside(s)}])
           \/ Goto(s, "unqueue")
    BY <1>7 DEF Stage, CopyPcs, StagePcs
  <2>2. ASSUME Set(s, [pass[s] EXCEPT !.pc = "pull", !.staged = @ \cup {Aside(s)}]) PROVE Goal
    BY <1>1, <2>1, <2>2 DEF Set, SameCopy, PassType
  <2> QED  BY <1>2, <2>1, <2>2
<1> HIDE DEF Goal
<1> QED  BY <1>3, <1>4, <1>5, <1>6, <1>7

\* A sweep that goes on after a failure.
Skips(p, q) ==
    \/ p.pc = "entries" /\ \E e \in p.entries :
          q = [p EXCEPT !.entries = @ \ {e}, !.held = @ \cup {e.row}, !.bad = TRUE]
    \/ p.pc = "strays" /\ \E x \in p.strays :
          q = [p EXCEPT !.strays = @ \ {x}, !.held = @ \cup {x.row}, !.bad = TRUE]
    \/ p.pc \in {"peer", "heal"} /\ \E x :
          q = [p EXCEPT !.pc = "strays", !.drain = None, !.strays = @ \ {x}]

LEMMA SkipsOn ==
    ASSUME NEW p \in PassType, NEW q, Skips(p, q)
    PROVE  q.snap = p.snap /\ q.nonce = p.nonce /\ q.pc \in {"entries", "strays"}
           /\ p.pc \notin {"pull", "push"}
BY DEF Skips, PassType

LEMMA SkipFails ==
    ASSUME NEW s \in Services,
           \/ pass[s].pc = "entries" /\ \E e \in pass[s].entries :
                 Set(s, [pass[s] EXCEPT !.entries = @ \ {e}, !.held = @ \cup {e.row}, !.bad = TRUE])
           \/ pass[s].pc = "strays" /\ \E x \in pass[s].strays :
                 Set(s, [pass[s] EXCEPT !.strays = @ \ {x}, !.held = @ \cup {x.row}, !.bad = TRUE])
           \/ pass[s].pc \in {"peer", "heal"} /\ Set(s, Healed(s))
    PROVE  /\ \E q : Set(s, q) /\ Skips(pass[s], q)
           /\ pass[s].pc \in {"entries", "strays", "peer", "heal"}
BY DEF Skips, Healed

LEMMA FailsSame ==
    ASSUME Keeps, NEW s \in Services, Fails(s), pass'[s] # Idle
    PROVE  SameCopy(s)
<1> DEFINE p == pass[s]
<1>1. pass \in [Services -> PassType] /\ p \in PassType
  BY DEF Keeps, Typed
<1>2. PICK q : Set(s, q) /\ q = pass'[s]
  BY <1>1 DEF Fails, Set, Goto
<1>3. ASSUME p.pc = "drain", Set(s, [p EXCEPT !.pc = "entries", !.drain = None]) PROVE SameCopy(s)
  BY <1>1, <1>3 DEF Set, SameCopy, CopyPcs, StagePcs, PassType
<1>4. ASSUME Set(s, Throws(s)) \/ Set(s, Refused(s)) PROVE SameCopy(s)
  BY <1>4, DoneSame
<1>5. ASSUME NEW pc, p.pc \in CopyPcs, Goto(s, pc) PROVE SameCopy(s)
  BY <1>1, <1>5 DEF Goto, Set, SameCopy, PassType
<1>6. ASSUME p.pc = "settle", \E x \in p.staged : Set(s, [p EXCEPT !.staged = @ \ {x}, !.bad = TRUE])
      PROVE  SameCopy(s)
  <2>1. PICK x : Set(s, [p EXCEPT !.staged = @ \ {x}, !.bad = TRUE])
    BY <1>6
  <2> QED  BY <1>1, <1>6, <2>1 DEF Set, SameCopy, CopyPcs, StagePcs, PassType
<1>7. ASSUME Set(s, [p EXCEPT !.pc = "settle", !.staged = @ \ {p.drain}, !.drain = None,
                              !.bad = TRUE])
      PROVE  SameCopy(s)
  BY <1>1, <1>7 DEF Set, SameCopy, CopyPcs, StagePcs, PassType
<1>8. ~Set(s, Idle)
  BY <1>1 DEF Set
<1>9. ASSUME p.pc \in {"pull", "push"}, Goto(s, "retry") PROVE SameCopy(s)
  BY <1>5, <1>9 DEF CopyPcs, StagePcs
<1>10. ASSUME p.pc = "retry", Goto(s, "rollback") PROVE SameCopy(s)
  BY <1>5, <1>10 DEF CopyPcs, StagePcs
<1>11. ASSUME p.pc \in {"entries", "strays", "peer", "heal"}, \E n : Set(s, n) /\ Skips(p, n)
       PROVE  SameCopy(s)
  <2>1. PICK n : Set(s, n) /\ Skips(p, n)
    BY <1>11
  <2>2. n.snap = p.snap /\ n.pc \in {"entries", "strays"}
    BY <1>1, <1>11, <2>1, SkipsOn
  <2> QED  BY <1>1, <2>1, <2>2 DEF Set, SameCopy, CopyPcs, StagePcs
<1> HIDE DEF SameCopy
<1> QED  BY <1>3, <1>4, <1>6, <1>7, <1>8, <1>9, <1>10, <1>11, SkipFails DEF Fails

LEMMA OthersStay ==
    ASSUME Keeps, NEW s \in Services, NEW q, OnlyPass(s, q)
    PROVE  pass'[s] = q /\ \A t \in Services \ {s} : pass'[t] = pass[t]
BY DEF OnlyPass, Keeps, Typed

\* Passes read live rows only, and copy no row that is aside.
LEMMA PassesLive ==
    ASSUME Keeps, LiveInv, Next
    PROVE  \A s \in Services : PassLive(pass'[s])
<1>1. \A s \in Services : PassLive(pass[s])
  BY DEF LiveInv
<1>2. \A s \in Services : SameCopy(s) => PassLive(pass'[s])
  BY <1>1 DEF SameCopy, PassLive
<1>3. PassLive(Idle) /\ PassLive([Idle EXCEPT !.pc = "queue"])
  <2>1. [Idle EXCEPT !.pc = "queue"].snap = Idle.snap /\ [Idle EXCEPT !.pc = "queue"].pc = "queue"
    BY IdleTyped DEF PassType
  <2> QED  BY <2>1, IdleTyped DEF PassLive, CopyPcs, StagePcs
<1> DEFINE Goal == \A s \in Services : PassLive(pass'[s])
<1>4. ASSUME NEW s \in Services, PassLive(pass'[s]), NEW q, OnlyPass(s, q) PROVE Goal
  BY <1>1, <1>4, OthersStay
<1>5. ASSUME NEW s \in Services, ReadLocal(s) PROVE PassLive(pass'[s])
  <2>1. pass[s] \in PassType /\ pass \in [Services -> PassType] /\ LocalOf[s] \in Stores
    BY Places DEF Keeps, Typed
  <2> DEFINE q == [pass[s] EXCEPT !.pc = "remote", !.snap["local"] = doc[LocalOf[s]]]
  <2>2. pass'[s] = q
    BY <1>5, <2>1 DEF ReadLocal, Set
  <2>3. q.pc = "remote" /\ q.snap = [pass[s].snap EXCEPT !["local"] = doc[LocalOf[s]]]
    BY <2>1 DEF PassType
  <2>4. q.snap["local"] = doc[LocalOf[s]] /\ q.snap["remote"] = pass[s].snap["remote"]
    BY <2>1, <2>3 DEF PassType, Snap, Sides
  <2> HIDE DEF q
  <2> QED  BY <1>1, <2>1, <2>2, <2>3, <2>4 DEF PassLive, LiveInv, CopyPcs, StagePcs, Sides
<1>6. ASSUME NEW s \in Services, ReadRemote(s) PROVE PassLive(pass'[s])
  <2>1. pass[s] \in PassType /\ pass \in [Services -> PassType] /\ Remote \in Stores
    BY Places DEF Keeps, Typed
  <2>2. PICK hs, bb, tt : Set(s, [[pass[s] EXCEPT !.snap["remote"] = doc[Remote]]
                                  EXCEPT !.pc = "rows", !.held = hs, !.bad = bb, !.todo = tt])
    BY <1>6 DEF ReadRemote
  <2> DEFINE q == [[pass[s] EXCEPT !.snap["remote"] = doc[Remote]]
                                  EXCEPT !.pc = "rows", !.held = hs, !.bad = bb, !.todo = tt]
  <2>3. pass'[s] = q
    BY <2>1, <2>2 DEF Set
  <2>4. q.pc = "rows" /\ q.snap = [pass[s].snap EXCEPT !["remote"] = doc[Remote]]
    BY <2>1 DEF PassType
  <2>5. q.snap["remote"] = doc[Remote] /\ q.snap["local"] = pass[s].snap["local"]
    BY <2>1, <2>4 DEF PassType, Snap, Sides
  <2> HIDE DEF q
  <2> QED  BY <1>1, <2>1, <2>3, <2>4, <2>5 DEF PassLive, LiveInv, CopyPcs, StagePcs, Sides
<1>7. ASSUME NEW s \in Services, NEW r \in Rows, NEW to \in Sides, Hydrate(s, r, to)
      PROVE  PassLive(pass'[s])
  <2> DEFINE full == doc[Db(s, Other(to))][r]
             a == Passed(s, r)
  <2>1. pass[s] \in PassType /\ pass \in [Services -> PassType] /\ Sound(s, pass[s])
    BY SoundPass DEF Keeps, Typed
  <2>2. a \in PassType /\ a.snap = pass[s].snap /\ a.pc = "rows"
    BY <1>7, <2>1 DEF Passed, PassType, Hydrate, Turn
  <2>3. full # NoDoc => full.del = 0 /\ full.name \in Names \cup Placeholders
    BY Places DEF Keeps, Typed, Docs, Doc, LiveInv
  <2>4. full # NoDoc
    <3>1. Intent(pass[s], to, r) \in {"insert", "update", "resurrect"} /\ Other(to) \in Sides
      BY <1>7, Places DEF Hydrate
    <3>2. pass[s].snap[Other(to)][r] # NoDoc
      BY <3>1 DEF Intent, Outcome
    <3> QED  BY <2>1, <3>1, <3>2 DEF Sound, Grounded
  <2> DEFINE k == Intent(pass[s], to, r)
  <2>5. \/ Set(s, [a EXCEPT !.bad = TRUE])
        \/ /\ ~IsHeldBody(full)
           /\ Set(s, [a EXCEPT !.pc = "write",
                         !.job = [NoJob EXCEPT !.row = r, !.to = to, !.full = full, !.kind = k]])
    BY <1>7 DEF Hydrate
  <2> HIDE DEF full, a, k
  <2>6. CASE Set(s, [a EXCEPT !.bad = TRUE])
    <3>1. [a EXCEPT !.bad = TRUE].snap = a.snap /\ [a EXCEPT !.bad = TRUE].pc = "rows"
      BY <2>2 DEF PassType
    <3> QED  BY <1>1, <2>1, <2>2, <2>6, <3>1 DEF Set, PassLive, CopyPcs, StagePcs
  <2>7. CASE ~IsHeldBody(full)
             /\ Set(s, [a EXCEPT !.pc = "write",
                           !.job = [NoJob EXCEPT !.row = r, !.to = to, !.full = full, !.kind = k]])
    <3> DEFINE job == [NoJob EXCEPT !.row = r, !.to = to, !.full = full, !.kind = k]
               q == [a EXCEPT !.pc = "write", !.job = job]
    <3>1. job.full = full
      BY DEF NoJob
    <3>2. pass'[s] = q
      BY <2>1, <2>7 DEF Set
    <3> HIDE DEF job
    <3>3. q.snap = a.snap /\ q.job = job
      BY <2>2 DEF PassType
    <3> HIDE DEF q
    <3>4. full.name \in Names /\ full.del = 0
      BY <2>3, <2>4, <2>7 DEF IsHeldBody, Stranded, Live, IsPlaceholder
    <3> QED  BY <1>1, <2>2, <3>1, <3>2, <3>3, <3>4 DEF PassLive
  <2> QED  BY <2>5, <2>6, <2>7
<1>8. ASSUME NEW s \in Services, PassStep(s) PROVE PassLive(pass'[s])
  <2>1. pass \in [Services -> PassType]
    BY DEF Keeps, Typed
  <2>2. ASSUME Start(s) \/ Finish(s) PROVE PassLive(pass'[s])
    BY <1>3, <2>1, <2>2 DEF Start, Finish, Set
  <2>3. ASSUME NEW r \in Rows, HeldBack(s, r) PROVE PassLive(pass'[s])
    BY <1>2, <2>3, DoneSame DEF HeldBack, Turn
  <2>4. ASSUME NEW r \in Rows, NEW to \in Sides, WriteFlags(s, r, to) PROVE PassLive(pass'[s])
    BY <1>2, <2>4, DoneSame DEF WriteFlags, Turn
  <2>5. ASSUME Sweep(s) PROVE PassLive(pass'[s])
    BY <1>2, <2>2, <2>5, CalmSame DEF Sweep
  <2>6. ASSUME Loop(s) PROVE PassLive(pass'[s])
    BY <1>2, <1>5, <1>6, <1>7, <2>3, <2>4, <2>6, CalmSame DEF Loop
  <2>7. ASSUME Staging(s) PROVE PassLive(pass'[s])
    BY <1>2, <2>2, <2>7, CalmSame, StagingSame DEF Staging
  <2> QED  BY <1>8, <2>5, <2>6, <2>7 DEF PassStep
<1>9. ASSUME NEW s \in Services, Fails(s) \/ Crash(s) PROVE PassLive(pass'[s])
  <2>1. ASSUME pass'[s] # Idle, Fails(s) PROVE PassLive(pass'[s])
    BY <1>2, <2>1, FailsSame
  <2>2. ASSUME Crash(s) PROVE pass'[s] = Idle
    BY <2>2 DEF Crash, Set, Keeps, Typed
  <2> QED  BY <1>3, <1>9, <2>1, <2>2
<1>10. ASSUME UNCHANGED pass PROVE Goal
  BY <1>1, <1>10
<1> SUFFICES Goal
  OBVIOUS
<1> HIDE DEF Goal
<1>11. ASSUME NEW s \in Services, PassStep(s) PROVE Goal
  BY <1>4, <1>8, <1>11, PassStepPass
<1>12. ASSUME NEW s \in Services, Fails(s) \/ Crash(s) PROVE Goal
  BY <1>4, <1>9, <1>12, FailsPass, EndPass
<1>13. ASSUME User PROVE Goal
  BY <1>10, <1>13, UserWrites
<1>14. ASSUME NEW db \in Stores, Age(db) PROVE Goal
  BY <1>10, <1>14 DEF Age
<1> QED  BY <1>11, <1>12, <1>13, <1>14 DEF Next

LEMMA KindsStay ==
    ASSUME Keeps, Next
    PROVE  play'.kinds = play.kinds
<1>1. play \in Play
  BY DEF Keeps, Typed
<1>2. ASSUME UNCHANGED play PROVE play'.kinds = play.kinds
  BY <1>2
<1>3. ASSUME User PROVE play'.kinds = play.kinds
  <2>1. play' = [play EXCEPT !.edits = @ - 1]
    BY <1>3, UserWrites
  <2> QED  BY <1>1, <2>1 DEF Play
<1>4. ASSUME NEW s \in Services, Start(s) \/ Fails(s) \/ Crash(s) PROVE play'.kinds = play.kinds
  BY <1>1, <1>4 DEF Start, Fails, Crash, Play
<1>5. ASSUME NEW s \in Services, PassStep(s), ~Start(s) PROVE UNCHANGED play
  BY <1>5 DEF PassStep, Sweep, Loop, Staging, ReadQueue, SweepEntry, Drain, FindStrays,
     LookUp, ReadPeer, Heal, EndSweep, ReadLocal, ReadRemote, EndRows, HeldBack, WriteFlags, Hydrate,
     WriteCopy, Collide, FindBlocker, ReadSource, Enqueue, Stage, Unqueue, PullOld, PushAgain, Retry, Rollback, Settle,
     Settled, Finish, Rest
<1>6. ASSUME NEW db \in Stores, Age(db) PROVE UNCHANGED play
  BY <1>6 DEF Age
<1> QED  BY <1>2, <1>3, <1>4, <1>5, <1>6 DEF Next

\* The document that a row which is moved aside becomes.
LEMMA AsideDoc ==
    ASSUME Keeps, NEW s \in Services, MovesAside(s)
    PROVE  /\ Target(s) \in Stores /\ Key(s).row \in Rows /\ IsPlaceholder(Key(s).p)
           /\ Key(s).p.row = Key(s).row
           /\ doc[Target(s)][Key(s).row] # NoDoc
           /\ LET c == doc[Target(s)][Key(s).row]
                  d == doc'[Target(s)][Key(s).row]
              IN d \in Doc /\ d.name = Key(s).p /\ d.upd = c.upd /\ d.del = c.del
           /\ \A db \in Stores, r \in Rows :
                 db # Target(s) \/ r # Key(s).row => doc'[db][r] = doc[db][r]
<1>1. /\ Target(s) \in Stores /\ Key(s).row \in Rows /\ Key(s).p \in Placeholders
      /\ Key(s).p.row = Key(s).row
  BY KeyTyped DEF MovesAside, StagePcs
<1> DEFINE c == doc[Target(s)][Key(s).row]
           d == [c EXCEPT !.name = Key(s).p]
<1>2. c # NoDoc /\ c \in Doc
  BY <1>1 DEF MovesAside, Keeps, Typed, Docs
<1>3. d \in Doc /\ d.name = Key(s).p /\ d.upd = c.upd /\ d.del = c.del
  BY <1>1, <1>2 DEF Doc
<1>4. doc' = [doc EXCEPT ![Target(s)][Key(s).row] = d]
  BY DEF MovesAside, Named, Put
<1> HIDE DEF d
<1>5. /\ doc'[Target(s)][Key(s).row] = d
      /\ \A db \in Stores, r \in Rows :
            db # Target(s) \/ r # Key(s).row => doc'[db][r] = doc[db][r]
  BY <1>1, <1>4 DEF Keeps, Typed, Docs
<1> QED  BY <1>1, <1>2, <1>3, <1>5 DEF IsPlaceholder

\* What a write that moves nothing aside leaves.
LEMMA PlainDoc ==
    ASSUME Keeps, Plain, NEW db \in Stores, NEW r \in Rows, doc'[db][r] # doc[db][r]
    PROVE  /\ doc'[db][r] # NoDoc /\ doc'[db][r].del = 0
           /\ doc'[db][r].name \in Names
              \/ (doc[db][r] # NoDoc /\ doc'[db][r].name = doc[db][r].name)
<1>1. PICK st, q, d : PlainPut(st, q, d)
  BY DEF Plain
<1>2. doc'[db][r] = IF st = db /\ q = r THEN d ELSE doc[db][r]
  BY <1>1 DEF PlainPut, Keeps, Typed, Docs
<1> QED  BY <1>1, <1>2, SyncNamesAssumption DEF PlainPut

LEMMA InitLive ==
    ASSUME NothingTrashed, Init
    PROVE  LiveInv
<1>1. \A s \in Services : pass[s] = Idle
  BY DEF Init
<1>2. PassLive(Idle)
  BY IdleTyped DEF PassLive, CopyPcs, StagePcs
<1> QED  BY <1>1, <1>2 DEF NothingTrashed, Init, LiveInv, Live

LEMMA NextLive ==
    ASSUME Keeps, LiveInv, [Next]_vars
    PROVE  LiveInv'
<1>1. CASE UNCHANGED vars
  BY <1>1 DEF vars, LiveInv
<1>2. CASE Next
  <2>1. \A db \in Stores, r \in Rows : doc'[db][r] # NoDoc => doc'[db][r].del = 0
    <3> SUFFICES ASSUME NEW db \in Stores, NEW r \in Rows, doc'[db][r] # NoDoc
                 PROVE  doc'[db][r].del = 0
      OBVIOUS
    <3>1. CASE doc'[db][r] = doc[db][r]
      BY <3>1 DEF LiveInv
    <3>2. CASE Plain /\ doc'[db][r] # doc[db][r]
      BY <3>2, PlainDoc
    <3>3. CASE \E s \in Services : MovesAside(s)
      <4>1. PICK s \in Services : MovesAside(s)
        BY <3>3
      <4>2. doc[Target(s)][Key(s).row].del = 0
        BY <4>1, AsideDoc DEF LiveInv
      <4> QED  BY <3>1, <4>1, <4>2, AsideDoc
    <3> QED  BY <1>2, <3>1, <3>2, <3>3, NextPlain
  <2>2. \A s \in Services : PassLive(pass[s])'
    BY <1>2, PassesLive DEF PassLive
  <2> QED  BY <1>2, <2>1, <2>2, KindsStay DEF LiveInv
<1> QED  BY <1>1, <1>2

LEMMA LiveAlways ==
    ASSUME NothingTrashed
    PROVE  Spec => [](Keeps /\ LiveInv)
<1>1. Init => LiveInv
  BY InitLive
<1>2. Keeps /\ LiveInv /\ [Next]_vars => LiveInv'
  BY NextLive
<1> QED  BY <1>1, <1>2, KeepsAlways, PTL DEF Spec

\* A row comes under a placeholder only by being moved aside, where it is, by a pass
\* that keeps its date; no copy carries the placeholder to another database.
THEOREM PlaceholdersOnlyAside ==
    ASSUME NothingTrashed
    PROVE  Spec => PlaceholdersStay
<1> DEFINE A == \A db \in Stores, r \in Rows :
          (Stranded(doc'[db][r]) /\ doc[db][r] # doc'[db][r] /\ ~Stranded(doc[db][r]))
             => doc'[db][r].name.row = r /\ doc[db][r] # NoDoc /\ doc'[db][r].upd = doc[db][r].upd
<1>1. Keeps /\ LiveInv /\ [Next]_vars => [A]_vars
  <2> SUFFICES ASSUME Keeps, LiveInv, Next PROVE A
    OBVIOUS
  <2> SUFFICES ASSUME NEW db \in Stores, NEW r \in Rows, Stranded(doc'[db][r]),
                      doc[db][r] # doc'[db][r], ~Stranded(doc[db][r])
               PROVE  /\ doc'[db][r].name.row = r /\ doc[db][r] # NoDoc
                      /\ doc'[db][r].upd = doc[db][r].upd
    OBVIOUS
  <2>1. ~Plain
    <3> SUFFICES ASSUME Plain PROVE FALSE
      OBVIOUS
    <3>1. doc'[db][r].name \in Names
          \/ (doc[db][r] # NoDoc /\ doc'[db][r].name = doc[db][r].name)
      BY PlainDoc
    <3>2. doc[db][r] # NoDoc => doc[db][r].del = 0
      BY DEF LiveInv
    <3> QED  BY <3>1, <3>2, SyncNamesAssumption DEF Stranded, Live, IsPlaceholder
  <2>2. PICK s \in Services : MovesAside(s)
    BY <2>1, NextPlain
  <2>3. db = Target(s) /\ r = Key(s).row
    BY <2>2, AsideDoc
  <2> QED  BY <2>2, <2>3, AsideDoc
<1> QED  BY <1>1, LiveAlways, PTL DEF Spec, PlaceholdersStay

-----------------------------------------------------------------------------
(* The name of a row that is aside is on record.                           *)

At(db, r, p) == doc[db][r] # NoDoc /\ doc[db][r].name = p

\* The row, and its placeholder, that a pass has in hand.
InHand(s, db, r, p) ==
    /\ Db(s, pass[s].job.to) = db /\ pass[s].job.blocker = r
    /\ p = [row |-> r, nonce |-> pass[s].nonce]
Settling(s, db, r, p) ==
    /\ pass[s].pc = "settled" /\ Db(s, pass[s].drain.side) = db
    /\ pass[s].drain.row = r /\ pass[s].drain.p = p

\* No two passes have one nonce.
Apart == \A s, t \in Services :
            (s # t /\ pass[s].nonce = pass[t].nonce) => pass[s].nonce = None

\* A record is taken back only if the row is not, or no longer, aside.
NotYet(s) == \A db \in Stores, r \in Rows, p \in Placeholders :
                (pass[s].pc \in {"source", "enqueue", "stage", "unqueue"} /\ InHand(s, db, r, p))
                   => ~At(db, r, p)
Away(s) == \A db \in Stores, r \in Rows, p \in Placeholders :
              Settling(s, db, r, p) => ~At(db, r, p)

\* No sweep is about to take out record e of db.
Spared(db, e) == \A s \in Services :
    (pass[s].pc = "drain" /\ Db(s, pass[s].side) = db) => ~Swept(e, pass[s].drain)
Recorded(db, r, p) == \E e \in queue[db] : e.row = r /\ e.p = p /\ Spared(db, e)
Renewed(db, r, p) == \E s \in Services : pass[s].pc \in {"pull", "push"} /\ InHand(s, db, r, p)
Safe(db, r, p) ==
    At(db, r, p) => Recorded(db, r, p) \/ Renewed(db, r, p) \/ <<db, r, p>> \in lapsed
AllSafe == \A db \in Stores, r \in Rows, p \in Placeholders : Safe(db, r, p)

StageInv == Apart /\ (\A s \in Services : NotYet(s) /\ Away(s)) /\ AllSafe

LEMMA PlainAt ==
    ASSUME Keeps, LiveInv, Plain, NEW db \in Stores, NEW r \in Rows, NEW p \in Placeholders
    PROVE  At(db, r, p)' => At(db, r, p)
<1> SUFFICES ASSUME doc'[db][r] # NoDoc, doc'[db][r].name = p
             PROVE  doc[db][r] # NoDoc /\ doc[db][r].name = p
  BY DEF At
<1>1. CASE doc'[db][r] = doc[db][r]
  BY <1>1
<1>2. CASE doc'[db][r] # doc[db][r]
  BY <1>2, PlainDoc, SyncNamesAssumption
<1> QED  BY <1>1, <1>2

\* A step of one pass, which neither takes a row or a record in hand nor has one to
\* renew.
Easy(s) ==
    /\ \A t \in Services \ {s} : pass'[t] = pass[t]
    /\ pass'[s].nonce \in {pass[s].nonce, None}
    /\ pass'[s].pc \notin {"source", "enqueue", "stage", "unqueue", "settled", "drain"}
    /\ pass[s].pc \notin {"pull", "push"}

\* Records of rows that stay aside stay, unless a sweep was about to take them out.
QueueSafe == \A db \in Stores, r \in Rows, p \in Placeholders : \A e \in queue[db] :
    (At(db, r, p)' /\ e.row = r /\ e.p = p /\ Spared(db, e)) => e \in queue'[db]

\* What the other passes have in hand is not disturbed.
LEMMA OthersKeep ==
    ASSUME Keeps, LiveInv, StageInv, Plain, NEW s \in Services, NEW t \in Services \ {s},
           pass'[t] = pass[t]
    PROVE  NotYet(t)' /\ Away(t)'
BY PlainAt DEF StageInv, NotYet, Away, InHand, Settling

LEMMA EasyStep ==
    ASSUME Keeps, LiveInv, StageInv, Plain, NEW s \in Services, Easy(s), QueueSafe,
           lapsed \subseteq lapsed'
    PROVE  StageInv'
<1>1. \A t \in Services \ {s} : pass'[t] = pass[t] /\ NotYet(t)' /\ Away(t)'
  BY OthersKeep DEF Easy
<1>2. NotYet(s)' /\ Away(s)'
  BY DEF Easy, NotYet, Away, Settling
<1>3. Apart'
  BY DEF Apart, Easy, StageInv
<1>4. AllSafe'
  <2> SUFFICES ASSUME NEW db \in Stores, NEW r \in Rows, NEW p \in Placeholders, At(db, r, p)'
               PROVE  Recorded(db, r, p)' \/ Renewed(db, r, p)' \/ <<db, r, p>> \in lapsed'
    BY DEF AllSafe, Safe
  <2>1. At(db, r, p)
    BY PlainAt
  <2>2. CASE Recorded(db, r, p)
    <3>1. PICK e \in queue[db] : e.row = r /\ e.p = p /\ Spared(db, e)
      BY <2>2 DEF Recorded
    <3>2. e \in queue'[db]
      BY <3>1 DEF QueueSafe
    <3>3. Spared(db, e)'
      BY <3>1 DEF Spared, Easy
    <3> QED  BY <3>1, <3>2, <3>3 DEF Recorded
  <2>3. CASE Renewed(db, r, p)
    BY <2>3 DEF Renewed, InHand, Easy
  <2> QED  BY <2>1, <2>2, <2>3 DEF StageInv, AllSafe, Safe
<1> QED  BY <1>1, <1>2, <1>3, <1>4 DEF StageInv

\* A step of users, or time: no pass moves.
LEMMA StillStep ==
    ASSUME Keeps, LiveInv, StageInv, Plain, pass' = pass, lapsed' = lapsed,
           \A db \in Stores : \A e \in queue[db] : \E f \in queue'[db] :
              e.row = f.row /\ e.o = f.o /\ e.p = f.p /\ e.at = f.at
    PROVE  StageInv'
<1>1. \A s \in Services : NotYet(s)' /\ Away(s)'
  BY PlainAt DEF StageInv, NotYet, Away, InHand, Settling
<1>2. Apart'
  BY DEF Apart, StageInv
<1>3. AllSafe'
  <2> SUFFICES ASSUME NEW db \in Stores, NEW r \in Rows, NEW p \in Placeholders, At(db, r, p)'
               PROVE  Recorded(db, r, p)' \/ Renewed(db, r, p)' \/ <<db, r, p>> \in lapsed'
    BY DEF AllSafe, Safe
  <2>1. At(db, r, p)
    BY PlainAt
  <2>2. CASE Recorded(db, r, p)
    <3>1. PICK e \in queue[db] : e.row = r /\ e.p = p /\ Spared(db, e)
      BY <2>2 DEF Recorded
    <3>2. PICK f \in queue'[db] : e.row = f.row /\ e.o = f.o /\ e.p = f.p /\ e.at = f.at
      OBVIOUS
    <3>3. Spared(db, f)'
      BY <3>1, <3>2 DEF Spared, Swept, SameKey
    <3> QED  BY <3>1, <3>2, <3>3 DEF Recorded
  <2>3. CASE Renewed(db, r, p)
    BY <2>3 DEF Renewed, InHand
  <2> QED  BY <2>1, <2>2, <2>3 DEF StageInv, AllSafe, Safe
<1> QED  BY <1>1, <1>2, <1>3 DEF StageInv

\* The record is there before the row moves.
LEMMA HandStep ==
    ASSUME Keeps, LiveInv, StageInv, NEW s \in Services, Enqueue(s) \/ (Stage(s) /\ Goto(s, "unqueue") /\ SameDocs)
    PROVE  StageInv'
<1>1. pass \in [Services -> PassType]
  BY DEF Keeps, Typed
<1>2. PICK pc \in {"stage", "unqueue"} : pass' = [pass EXCEPT ![s] = [pass[s] EXCEPT !.pc = pc]]
  BY DEF Enqueue, Goto, Set
<1>3. /\ pass[s].pc \in {"enqueue", "stage"} /\ doc' = doc /\ lapsed' = lapsed
  BY DEF Enqueue, Stage, SameDocs
<1>4. \A db \in Stores : queue[db] \subseteq queue'[db]
  BY KeyTyped DEF Enqueue, Stage, Push, Keeps, Typed
<1>5. /\ pass'[s].pc = pc /\ pass'[s].job = pass[s].job /\ pass'[s].nonce = pass[s].nonce
      /\ \A t \in Services \ {s} : pass'[t] = pass[t]
  BY <1>1, <1>2 DEF PassType
<1>6. Plain
  BY <1>3 DEF Plain
<1>7. \A t \in Services \ {s} : NotYet(t)' /\ Away(t)'
  BY <1>5, <1>6, OthersKeep
<1>8. NotYet(s)' /\ Away(s)'
  BY <1>3, <1>5 DEF StageInv, NotYet, Away, InHand, Settling, At
<1>9. Apart'
  BY <1>5 DEF StageInv, Apart
<1>10. AllSafe'
  <2> SUFFICES ASSUME NEW db \in Stores, NEW r \in Rows, NEW p \in Placeholders, At(db, r, p)'
               PROVE  Recorded(db, r, p)' \/ Renewed(db, r, p)' \/ <<db, r, p>> \in lapsed'
    BY DEF AllSafe, Safe
  <2>1. At(db, r, p)
    BY <1>3 DEF At
  <2>2. CASE Recorded(db, r, p)
    <3>1. PICK e \in queue[db] : e.row = r /\ e.p = p /\ Spared(db, e)
      BY <2>2 DEF Recorded
    <3>2. Spared(db, e)'
      BY <1>5, <3>1 DEF Spared
    <3> QED  BY <1>4, <3>1, <3>2 DEF Recorded
  <2>3. CASE Renewed(db, r, p)
    BY <1>3, <1>5, <2>3 DEF Renewed, InHand
  <2> QED  BY <1>3, <2>1, <2>2, <2>3 DEF StageInv, AllSafe, Safe
<1> QED  BY <1>7, <1>8, <1>9, <1>10 DEF StageInv

\* A step of one pass that takes a row in hand, which is not aside under its nonce.
LEMMA TakesStep ==
    ASSUME Keeps, LiveInv, StageInv, NEW s \in Services, pass[s].pc \notin {"pull", "push"},
           pass'[s].pc \in {"source", "enqueue"}, SameDocs, UNCHANGED <<queue, lapsed>>,
           \A t \in Services \ {s} : pass'[t] = pass[t],
           pass'[s].nonce # pass[s].nonce => \A t \in Services : pass[t].nonce # pass'[s].nonce,
           \A db \in Stores, r \in Rows, p \in Placeholders : InHand(s, db, r, p)' => ~At(db, r, p)
    PROVE  StageInv'
<1>1. doc' = doc /\ lapsed' = lapsed /\ queue' = queue
  BY DEF SameDocs
<1>2. Plain
  BY <1>1 DEF Plain
<1>3. \A t \in Services \ {s} : NotYet(t)' /\ Away(t)'
  BY <1>2, OthersKeep
<1>4. NotYet(s)' /\ Away(s)'
  BY <1>1 DEF NotYet, Away, Settling, At
<1>5. Apart'
  BY DEF StageInv, Apart
<1>6. AllSafe'
  <2> SUFFICES ASSUME NEW db \in Stores, NEW r \in Rows, NEW p \in Placeholders, At(db, r, p)'
               PROVE  Recorded(db, r, p)' \/ Renewed(db, r, p)' \/ <<db, r, p>> \in lapsed'
    BY DEF AllSafe, Safe
  <2>1. At(db, r, p)
    BY <1>1 DEF At
  <2>2. CASE Recorded(db, r, p)
    <3>1. PICK e \in queue[db] : e.row = r /\ e.p = p /\ Spared(db, e)
      BY <2>2 DEF Recorded
    <3>2. Spared(db, e)'
      BY <3>1 DEF Spared
    <3> QED  BY <1>1, <3>1, <3>2 DEF Recorded
  <2>3. CASE Renewed(db, r, p)
    BY <2>3 DEF Renewed, InHand
  <2> QED  BY <1>1, <2>1, <2>2, <2>3 DEF StageInv, AllSafe, Safe
<1> QED  BY <1>3, <1>4, <1>5, <1>6 DEF StageInv

\* A pass takes a row in hand that has a user's name,
LEMMA FindStep ==
    ASSUME Keeps, LiveInv, StageInv, NEW s \in Services, FindBlocker(s),
           pass'[s].pc = "source"
    PROVE  StageInv'
<1> DEFINE b == InTheWay(s)
           n == Written(s).name
<1>1. /\ pass \in [Services -> PassType] /\ pass[s] \in PassType
      /\ pass[s].pc = "blocker" /\ pass[s].pc \in CopyPcs
  BY DEF Keeps, Typed, FindBlocker, CopyPcs
<1>2. /\ Collides(s)
      /\ Set(s, [pass[s] EXCEPT !.pc = "source", !.job.blocker = b, !.job.o = n])
  <2>1. Throws(s).pc = "settle" /\ Refused(s).pc = "rows"
    BY <1>1 DEF Throws, Refused, Next1, PassType
  <2> QED  BY <1>1, <2>1 DEF FindBlocker, Set
<1>3. b \in Rows /\ doc[Target(s)][b].name \in Names
  BY <1>1, <1>2, Blocker
<1> HIDE DEF b, n
<1>4. /\ pass'[s].job.blocker = b /\ pass'[s].job.to = pass[s].job.to
      /\ pass'[s].nonce = pass[s].nonce
      /\ \A t \in Services \ {s} : pass'[t] = pass[t]
  BY <1>1, <1>2 DEF PassType, JobType, Set
<1>5. \A db \in Stores, r \in Rows, p \in Placeholders : InHand(s, db, r, p)' => ~At(db, r, p)
  BY <1>3, <1>4, SyncNamesAssumption DEF InHand, At, Target
<1>6. SameDocs /\ UNCHANGED <<queue, lapsed>>
  BY DEF FindBlocker
<1> QED  BY <1>1, <1>4, <1>5, <1>6, TakesStep

\* and a nonce that no other pass has, and no row bears.
LEMMA SourceStep ==
    ASSUME Keeps, LiveInv, StageInv, NEW s \in Services, ReadSource(s),
           pass'[s].pc = "enqueue"
    PROVE  StageInv'
<1> DEFINE k == Nonce(s)
<1>1. /\ pass \in [Services -> PassType] /\ pass[s] \in PassType /\ pass[s].pc = "source"
  BY DEF Keeps, Typed, ReadSource
<1>2. /\ pass[s].nonce # None \/ Nonces \ Used # {}
      /\ Set(s, [pass[s] EXCEPT !.pc = "enqueue", !.nonce = k])
  <2>1. Refused(s).pc = "rows"
    BY <1>1 DEF Refused, Next1, PassType
  <2> QED  BY <1>1, <2>1 DEF ReadSource, Set
<1>3. \/ pass[s].nonce # None /\ k = pass[s].nonce
      \/ pass[s].nonce = None /\ k \in Nonces \ Used
  BY <1>2 DEF Nonce
<1> HIDE DEF k
<1>4. /\ pass'[s].job = pass[s].job /\ pass'[s].nonce = k
      /\ \A t \in Services \ {s} : pass'[t] = pass[t]
  BY <1>1, <1>2 DEF PassType, Set
<1>5. k # pass[s].nonce => \A t \in Services : pass[t].nonce # k
  BY <1>3 DEF Used
<1>6. ASSUME NEW db \in Stores, NEW r \in Rows, NEW p \in Placeholders, InHand(s, db, r, p)'
      PROVE  ~At(db, r, p)
  <2>1. CASE k = pass[s].nonce
    BY <1>1, <1>4, <1>6, <2>1 DEF StageInv, NotYet, InHand
  <2>2. CASE k \in Nonces \ Used
    <3>1. p = [row |-> r, nonce |-> k] /\ p \in [row : Rows, nonce : {k}]
      BY <1>4, <1>6 DEF InHand
    <3>2. doc[db][r] # NoDoc => doc[db][r].name \notin [row : Rows, nonce : {k}]
      BY <2>2 DEF Used
    <3> QED  BY <3>1, <3>2 DEF At
  <2> QED  BY <1>3, <2>1, <2>2
<1>7. SameDocs /\ UNCHANGED <<queue, lapsed>>
  BY DEF ReadSource
<1> QED  BY <1>1, <1>4, <1>5, <1>6, <1>7, TakesStep

\* The row is moved aside; its pass is about to renew the record.
LEMMA AsideStep ==
    ASSUME Keeps, LiveInv, StageInv, NEW s \in Services, MovesAside(s),
           Set(s, [pass[s] EXCEPT !.pc = "pull", !.staged = @ \cup {Aside(s)}])
    PROVE  StageInv'
<1>1. pass \in [Services -> PassType] /\ pass[s] \in PassType /\ pass[s].pc = "stage"
  BY DEF Keeps, Typed, MovesAside
<1>2. /\ pass'[s].pc = "pull" /\ pass'[s].job = pass[s].job /\ pass'[s].nonce = pass[s].nonce
      /\ \A t \in Services \ {s} : pass'[t] = pass[t]
  BY <1>1 DEF PassType, Set
<1>3. queue' = queue /\ lapsed' = lapsed
  BY DEF MovesAside, Stage
<1>4. /\ pass[s].nonce \in Nonces /\ Key(s).p.nonce = pass[s].nonce
      /\ InHand(s, Target(s), Key(s).row, Key(s).p)
  BY <1>1, SoundPass DEF Sound, Shaped, StagePcs, Key, InHand, Target
<1>5. \A db \in Stores, r \in Rows, p \in Placeholders :
         At(db, r, p)' => At(db, r, p) \/ (db = Target(s) /\ r = Key(s).row /\ p = Key(s).p)
  BY AsideDoc DEF At
<1>6. \A t \in Services \ {s} : NotYet(t)' /\ Away(t)'
  <2> SUFFICES ASSUME NEW t \in Services \ {s} PROVE NotYet(t)' /\ Away(t)'
    OBVIOUS
  <2>1. pass[t].nonce # pass[s].nonce /\ pass'[t] = pass[t]
    BY <1>2, <1>4, SyncNamesAssumption DEF StageInv, Apart
  <2>2. NotYet(t)'
    BY <1>4, <1>5, <2>1 DEF StageInv, NotYet, InHand
  <2>3. Away(t)'
    <3>1. pass[t].pc = "settled" => pass[t].drain.p.nonce = pass[t].nonce
      <4>1. pass[t].pc = "settled" => pass[t].drain \in pass[t].staged
        BY SoundPass DEF Sound, Shaped
      <4>2. ASSUME NEW x \in pass[t].staged PROVE x.p.nonce = pass[t].nonce
        <5>1. x.p = [row |-> x.row, nonce |-> pass[t].nonce]
          BY StagedTyped
        <5> QED  BY <5>1
      <4> QED  BY <4>1, <4>2
    <3> QED  BY <1>4, <1>5, <2>1, <3>1 DEF StageInv, Away, Settling
  <2> QED  BY <2>2, <2>3
<1>7. NotYet(s)' /\ Away(s)'
  BY <1>2 DEF NotYet, Away, Settling
<1>8. Apart'
  BY <1>2 DEF StageInv, Apart
<1>9. AllSafe'
  <2> SUFFICES ASSUME NEW db \in Stores, NEW r \in Rows, NEW p \in Placeholders, At(db, r, p)'
               PROVE  Recorded(db, r, p)' \/ Renewed(db, r, p)' \/ <<db, r, p>> \in lapsed'
    BY DEF AllSafe, Safe
  <2>1. CASE db = Target(s) /\ r = Key(s).row /\ p = Key(s).p
    <3>1. InHand(s, db, r, p)'
      BY <1>2, <1>4, <2>1 DEF InHand
    <3> QED  BY <1>2, <3>1 DEF Renewed
  <2>2. CASE At(db, r, p)
    <3>1. CASE Recorded(db, r, p)
      <4>1. PICK e \in queue[db] : e.row = r /\ e.p = p /\ Spared(db, e)
        BY <3>1 DEF Recorded
      <4>2. Spared(db, e)'
        BY <1>2, <4>1 DEF Spared
      <4> QED  BY <1>3, <4>1, <4>2 DEF Recorded
    <3>2. CASE Renewed(db, r, p)
      BY <1>1, <1>2, <3>2 DEF Renewed, InHand
    <3> QED  BY <1>3, <2>2, <3>1, <3>2 DEF StageInv, AllSafe, Safe
  <2> QED  BY <1>5, <2>1, <2>2
<1> QED  BY <1>6, <1>7, <1>8, <1>9 DEF StageInv

\* The record is taken out, and written with a new date.
LEMMA RenewStep ==
    ASSUME Keeps, LiveInv, StageInv, NEW s \in Services, PullOld(s) \/ PushAgain(s)
    PROVE  StageInv'
<1>1. pass \in [Services -> PassType] /\ pass[s] \in PassType
      /\ pass[s].pc \in {"pull", "push"} /\ pass[s].pc \in StagePcs
  BY DEF Keeps, Typed, PullOld, PushAgain, StagePcs
<1>2. PICK pc \in {"push", "retry"} : pass' = [pass EXCEPT ![s] = [pass[s] EXCEPT !.pc = pc]]
  BY DEF PullOld, PushAgain, Goto, Set
<1>3. /\ pass'[s].pc = pc /\ pass'[s].job = pass[s].job /\ pass'[s].nonce = pass[s].nonce
      /\ \A t \in Services \ {s} : pass'[t] = pass[t]
  BY <1>1, <1>2 DEF PassType
<1>4. doc' = doc /\ lapsed' = lapsed
  BY DEF PullOld, PushAgain, SameDocs
<1>5. Plain
  BY <1>4 DEF Plain
<1>6. \A t \in Services \ {s} : NotYet(t)' /\ Away(t)'
  BY <1>3, <1>5, OthersKeep
<1>7. NotYet(s)' /\ Away(s)'
  BY <1>3 DEF NotYet, Away, Settling
<1>8. Apart'
  BY <1>3 DEF StageInv, Apart
<1>9. /\ Target(s) \in Stores /\ Db(s, pass[s].job.to) = Target(s)
      /\ Key(s).row = pass[s].job.blocker
      /\ Key(s).p = [row |-> pass[s].job.blocker, nonce |-> pass[s].nonce]
  BY <1>1, KeyTyped DEF Target, Key
<1>10. AllSafe'
  <2> SUFFICES ASSUME NEW db \in Stores, NEW r \in Rows, NEW p \in Placeholders, At(db, r, p)'
               PROVE  Recorded(db, r, p)' \/ Renewed(db, r, p)' \/ <<db, r, p>> \in lapsed'
    BY DEF AllSafe, Safe
  <2>1. At(db, r, p)
    BY <1>4 DEF At
  <2>2. \A e : Spared(db, e) => Spared(db, e)'
    BY <1>3 DEF Spared
  <2>3. CASE PullOld(s)
    <3>1. pass'[s].pc = "push" /\ Pull(Target(s), Key(s))
      BY <1>1, <2>3 DEF PullOld, Goto, Set, PassType
    <3>2. CASE Renewed(db, r, p)
      BY <1>3, <3>1, <3>2 DEF Renewed, InHand
    <3>3. CASE Recorded(db, r, p)
      <4>1. PICK e \in queue[db] : e.row = r /\ e.p = p /\ Spared(db, e)
        BY <3>3 DEF Recorded
      <4>2. CASE db = Target(s) /\ SameKey(e, Key(s))
        <5>1. InHand(s, db, r, p)
          BY <1>9, <4>1, <4>2 DEF InHand, SameKey
        <5> QED  BY <1>3, <3>1, <5>1 DEF Renewed, InHand
      <4>3. CASE ~(db = Target(s) /\ SameKey(e, Key(s)))
        <5>1. e \in queue'[db]
          BY <1>9, <3>1, <4>1, <4>3 DEF Pull, Keeps, Typed
        <5> QED  BY <2>2, <4>1, <5>1 DEF Recorded
      <4> QED  BY <4>2, <4>3
    <3> QED  BY <1>4, <2>1, <3>2, <3>3 DEF StageInv, AllSafe, Safe
  <2>4. CASE PushAgain(s)
    <3>1. PICK at \in NewDates : queue' = [queue EXCEPT ![Target(s)] = @ \cup {Entry(s, at)}]
      BY <2>4 DEF PushAgain, Push
    <3>2. CASE Recorded(db, r, p)
      <4>1. PICK e \in queue[db] : e.row = r /\ e.p = p /\ Spared(db, e)
        BY <3>2 DEF Recorded
      <4>2. e \in queue'[db]
        BY <1>9, <3>1, <4>1 DEF Keeps, Typed
      <4> QED  BY <2>2, <4>1, <4>2 DEF Recorded
    <3>3. CASE Renewed(db, r, p)
      <4>1. PICK t \in Services : pass[t].pc \in {"pull", "push"} /\ InHand(t, db, r, p)
        BY <3>3 DEF Renewed
      <4>2. CASE t # s
        BY <1>3, <4>1, <4>2 DEF Renewed, InHand
      <4>3. CASE t = s
        <5>1. Entry(s, at) \in queue'[db]
          BY <1>9, <3>1, <4>1, <4>3 DEF Keeps, Typed, InHand
        <5>2. Entry(s, at).row = r /\ Entry(s, at).p = p /\ Entry(s, at).at = at
          BY <1>9, <4>1, <4>3 DEF Entry, InHand
        <5> DEFINE e == Entry(s, at)
        <5>3. PICK f : f = e
          OBVIOUS
        <5>4. \A u \in Services : pass[u].pc = "drain" => pass[u].drain.at # at
          <6>1. ASSUME NEW u \in Services, pass[u].pc = "drain" PROVE pass[u].drain \in Dated
            <7> DEFINE D == {pass[v].drain : v \in {w \in Services : pass[w].pc = "drain"}}
            <7>1. u \in {w \in Services : pass[w].pc = "drain"}
              BY <6>1
            <7>2. pass[u].drain \in D
              BY <7>1
            <7>3. D \subseteq Dated
              BY DEF Dated
            <7> HIDE DEF D
            <7> QED  BY <7>2, <7>3
          <6> QED  BY <3>1, <6>1 DEF NewDates
        <5>5. Spared(db, f)
          BY <5>2, <5>3, <5>4 DEF Spared, Swept
        <5> QED  BY <2>2, <5>1, <5>2, <5>3, <5>5 DEF Recorded
      <4> QED  BY <4>2, <4>3
    <3> QED  BY <1>4, <2>1, <3>2, <3>3 DEF StageInv, AllSafe, Safe
  <2> QED  BY <2>3, <2>4
<1> QED  BY <1>6, <1>7, <1>8, <1>10 DEF StageInv

\* A pass that settles a row has put its name back, or found it gone.
LEMMA SettleStep ==
    ASSUME Keeps, LiveInv, StageInv, NEW s \in Services, Settle(s), pass'[s].pc = "settled"
    PROVE  StageInv'
<1>1. pass \in [Services -> PassType] /\ pass[s] \in PassType /\ pass[s].pc = "settle"
  BY DEF Keeps, Typed, Settle
<1>2. PICK x \in pass[s].staged :
         /\ ~(IsPlaceholder(doc[Db(s, x.side)][x.row].name) /\ ~Free(Db(s, x.side), x.row, x.o))
         /\ TakenBack(s, Db(s, x.side), x)
         /\ Set(s, [pass[s] EXCEPT !.pc = "settled", !.drain = x])
  <2>1. PICK x \in pass[s].staged :
         \/ Set(s, [[pass[s] EXCEPT !.staged = @ \ {x}] EXCEPT !.bad = TRUE])
         \/ /\ ~(IsPlaceholder(doc[Db(s, x.side)][x.row].name) /\ ~Free(Db(s, x.side), x.row, x.o))
            /\ TakenBack(s, Db(s, x.side), x)
            /\ Set(s, [pass[s] EXCEPT !.pc = "settled", !.drain = x])
    BY DEF Settle
  <2>2. ~Set(s, [[pass[s] EXCEPT !.staged = @ \ {x}] EXCEPT !.bad = TRUE])
    BY <1>1 DEF Set, PassType
  <2> QED  BY <2>1, <2>2
<1> DEFINE db == Db(s, x.side)
<1>3. /\ x.row \in Rows /\ x.o \in Names /\ x.p \in Placeholders /\ db \in Stores
      /\ doc[db][x.row] # NoDoc
  BY <1>2, StagedTyped
<1> HIDE DEF db
<1>4. Plain /\ (doc' = doc \/ doc' = [doc EXCEPT ![db][x.row].name = x.o])
  BY <1>2, <1>3, TakenBackPlain DEF db
<1>5. ~(doc'[db][x.row] # NoDoc /\ doc'[db][x.row].name = x.p)
  <2>1. CASE doc[db][x.row].name = x.p
    <3>1. Named({s}, db, x.row, x.o)
      BY <1>2, <2>1, <1>3 DEF TakenBack, IsPlaceholder, db
    <3>2. doc'[db][x.row].name = x.o
      <4>1. doc[db][x.row] \in Doc
        BY <1>3 DEF Keeps, Typed, Docs
      <4> DEFINE d == [doc[db][x.row] EXCEPT !.name = x.o]
      <4>2. d.name = x.o
        BY <4>1 DEF Doc
      <4>3. doc' = [doc EXCEPT ![db][x.row] = d]
        BY <3>1 DEF Named, Put
      <4> HIDE DEF d
      <4> QED  BY <1>3, <4>2, <4>3 DEF Keeps, Typed, Docs
    <3> QED  BY <1>3, <3>2, SyncNamesAssumption
  <2>2. CASE doc[db][x.row].name # x.p
    <3>1. doc' = doc
      BY <1>2, <2>2 DEF TakenBack, SameDocs, db
    <3> QED  BY <2>2, <3>1
  <2> QED  BY <2>1, <2>2
<1>6. /\ pass'[s].pc = "settled" /\ pass'[s].drain = x /\ pass'[s].nonce = pass[s].nonce
      /\ \A t \in Services \ {s} : pass'[t] = pass[t]
  BY <1>1, <1>2 DEF PassType, Set
<1>7. queue' = queue /\ lapsed' = lapsed
  BY DEF Settle
<1>8. \A t \in Services \ {s} : NotYet(t)' /\ Away(t)'
  BY <1>4, <1>6, OthersKeep
<1>9. NotYet(s)' /\ Away(s)'
  BY <1>5, <1>6 DEF NotYet, Away, Settling, At, db
<1>10. Apart'
  BY <1>6 DEF StageInv, Apart
<1>11. AllSafe'
  <2> SUFFICES ASSUME NEW st \in Stores, NEW r \in Rows, NEW p \in Placeholders, At(st, r, p)'
               PROVE  Recorded(st, r, p)' \/ Renewed(st, r, p)' \/ <<st, r, p>> \in lapsed'
    BY DEF AllSafe, Safe
  <2>1. At(st, r, p)
    BY <1>4, PlainAt
  <2>2. CASE Recorded(st, r, p)
    <3>1. PICK e \in queue[st] : e.row = r /\ e.p = p /\ Spared(st, e)
      BY <2>2 DEF Recorded
    <3>2. Spared(st, e)'
      BY <1>6, <3>1 DEF Spared
    <3> QED  BY <1>7, <3>1, <3>2 DEF Recorded
  <2>3. CASE Renewed(st, r, p)
    BY <1>1, <1>6, <2>3 DEF Renewed, InHand
  <2> QED  BY <1>7, <2>1, <2>2, <2>3 DEF StageInv, AllSafe, Safe
<1> QED  BY <1>8, <1>9, <1>10, <1>11 DEF StageInv

\* A sweep is to take out a record whose row is not, or no longer, aside.
LEMMA ToDrainStep ==
    ASSUME Keeps, LiveInv, StageInv, Plain, NEW s \in Services, SweepEntry(s),
           pass'[s].pc = "drain"
    PROVE  StageInv'
<1>1. pass \in [Services -> PassType] /\ pass[s] \in PassType /\ pass[s].pc = "entries"
      /\ Here(s) \in Stores
  BY SoundPass DEF Keeps, Typed, SweepEntry
<1> DEFINE left(e) == [pass[s] EXCEPT !.entries = @ \ {e}]
           held(e) == [left(e) EXCEPT !.held = @ \cup {e.row}, !.bad = TRUE]
           drained(q, e) == [q EXCEPT !.pc = "drain", !.drain = e]
           free(e) == \/ SameDocs /\ (~Live(doc[Here(s)][e.row]) \/ doc[Here(s)][e.row].name # e.p)
                      \/ Named({s}, Here(s), e.row, e.o) /\ Live(doc[Here(s)][e.row])
<1>2. PICK e, q : e \in pass[s].entries /\ Set(s, q) /\
         \/ q = left(e) \/ q = held(e)
         \/ (q = drained(left(e), e) \/ q = drained(held(e), e)) /\ free(e)
  <2>1. PICK e \in pass[s].entries :
          \/ /\ ~Live(doc[Here(s)][e.row]) \/ doc[Here(s)][e.row].name # e.p
             /\ SameDocs
             /\ \/ Set(s, left(e)) \/ Set(s, held(e))
                \/ Set(s, drained(left(e), e)) \/ Set(s, drained(held(e), e))
          \/ /\ Live(doc[Here(s)][e.row])
             /\ \/ Set(s, drained(held(e), e)) /\ Named({s}, Here(s), e.row, e.o)
                \/ Set(s, held(e))
    BY DEF SweepEntry
  <2> HIDE DEF left, held, drained
  <2> QED  BY <2>1
<1>3. pass'[s] = q
  BY <1>1, <1>2 DEF Set
<1>4. (q = drained(left(e), e) \/ q = drained(held(e), e)) /\ free(e)
  <2>1. left(e).pc = "entries" /\ held(e).pc = "entries"
    BY <1>1 DEF PassType
  <2> HIDE DEF left, held, drained, free
  <2> QED  BY <1>2, <1>3, <2>1
<1>5. q.pc = "drain" /\ q.drain = e /\ q.side = pass[s].side /\ q.nonce = pass[s].nonce
  BY <1>1, <1>4 DEF PassType
<1>6. free(e) /\ \A t \in Services \ {s} : pass'[t] = pass[t]
  BY <1>2, <1>4 DEF Set
<1> HIDE DEF left, held, drained
<1>7. /\ pass'[s].pc = "drain" /\ pass'[s].drain = e /\ pass'[s].side = pass[s].side
      /\ pass'[s].nonce = pass[s].nonce
  BY <1>3, <1>5
<1>8. e \in Record /\ e.row \in Rows /\ e.o \in Names /\ e.p \in Placeholders
  BY <1>1, <1>2 DEF PassType, Record
<1>9. doc'[Here(s)][e.row] # NoDoc => doc'[Here(s)][e.row].name # e.p
  <2>1. CASE SameDocs /\ (~Live(doc[Here(s)][e.row]) \/ doc[Here(s)][e.row].name # e.p)
    BY <1>1, <1>8, <2>1 DEF SameDocs, LiveInv, Live
  <2>2. CASE Named({s}, Here(s), e.row, e.o) /\ Live(doc[Here(s)][e.row])
    <3> DEFINE db == Here(s)
               d == [doc[db][e.row] EXCEPT !.name = e.o]
    <3>1. doc[db][e.row] \in Doc
      BY <1>1, <1>8, <2>2 DEF Keeps, Typed, Docs, Live
    <3>2. d.name = e.o
      BY <3>1 DEF Doc
    <3>3. doc' = [doc EXCEPT ![db][e.row] = d]
      BY <2>2 DEF Named, Put
    <3> HIDE DEF d
    <3>4. doc'[db][e.row] = d
      BY <1>1, <1>8, <3>3 DEF Keeps, Typed, Docs
    <3> QED  BY <1>8, <3>2, <3>4, SyncNamesAssumption
  <2> QED  BY <1>6, <2>1, <2>2
<1>10. queue' = queue /\ lapsed' = lapsed
  BY DEF SweepEntry
<1>11. \A t \in Services \ {s} : NotYet(t)' /\ Away(t)'
  BY <1>6, OthersKeep
<1>12. NotYet(s)' /\ Away(s)'
  BY <1>7 DEF NotYet, Away, Settling
<1>13. Apart'
  BY <1>6, <1>7 DEF StageInv, Apart
<1>14. AllSafe'
  <2> SUFFICES ASSUME NEW st \in Stores, NEW r \in Rows, NEW p \in Placeholders, At(st, r, p)'
               PROVE  Recorded(st, r, p)' \/ Renewed(st, r, p)' \/ <<st, r, p>> \in lapsed'
    BY DEF AllSafe, Safe
  <2>1. At(st, r, p)
    BY PlainAt
  <2>2. CASE Recorded(st, r, p)
    <3>1. PICK f \in queue[st] : f.row = r /\ f.p = p /\ Spared(st, f)
      BY <2>2 DEF Recorded
    <3>2. ~(st = Here(s) /\ Swept(f, e))
      BY <1>9, <3>1 DEF Swept, SameKey, At
    <3>3. Spared(st, f)'
      <4>1. \A t \in Services \ {s} : (pass'[t].pc = "drain" /\ Db(t, pass'[t].side) = st)
                                        => ~Swept(f, pass'[t].drain)
        BY <1>6, <3>1 DEF Spared
      <4>2. Db(s, pass'[s].side) = st => ~Swept(f, pass'[s].drain)
        BY <1>7, <3>2 DEF Here
      <4> QED  BY <4>1, <4>2 DEF Spared
    <3> QED  BY <1>10, <3>1, <3>3 DEF Recorded
  <2>3. CASE Renewed(st, r, p)
    BY <1>1, <1>6, <2>3 DEF Renewed, InHand
  <2> QED  BY <1>10, <2>1, <2>2, <2>3 DEF StageInv, AllSafe, Safe
<1> QED  BY <1>11, <1>12, <1>13, <1>14 DEF StageInv

\* A pass that dies, or fails, while it renews the record.
LEMMA LapseStep ==
    ASSUME Keeps, LiveInv, StageInv, NEW s \in Services, Fails(s) \/ Crash(s),
           pass[s].pc \in {"pull", "push"}
    PROVE  StageInv'
<1>1. pass \in [Services -> PassType] /\ pass[s] \in PassType /\ pass[s].pc \in StagePcs
  BY DEF Keeps, Typed, StagePcs
<1>2. Goto(s, "retry") \/ Set(s, Idle)
  BY DEF Fails, Crash
<1>3. /\ pass'[s].pc \in {"retry", "idle"} /\ pass'[s].nonce \in {pass[s].nonce, None}
      /\ \A t \in Services \ {s} : pass'[t] = pass[t]
  BY <1>1, <1>2, IdleTyped DEF PassType, Goto, Set
<1>4. /\ doc' = doc /\ queue' = queue
      /\ lapsed' = lapsed \cup {<<Target(s), Key(s).row, Key(s).p>>}
  BY DEF Fails, Crash, SameDocs, Lapses
<1>5. Plain
  BY <1>4 DEF Plain
<1>6. \A t \in Services \ {s} : NotYet(t)' /\ Away(t)'
  BY <1>3, <1>5, OthersKeep
<1>7. NotYet(s)' /\ Away(s)'
  BY <1>3 DEF NotYet, Away, Settling
<1>8. Apart'
  BY <1>3 DEF StageInv, Apart
<1>9. AllSafe'
  <2> SUFFICES ASSUME NEW db \in Stores, NEW r \in Rows, NEW p \in Placeholders, At(db, r, p)'
               PROVE  Recorded(db, r, p)' \/ Renewed(db, r, p)' \/ <<db, r, p>> \in lapsed'
    BY DEF AllSafe, Safe
  <2>1. At(db, r, p)
    BY <1>4 DEF At
  <2>2. CASE Recorded(db, r, p)
    <3>1. PICK e \in queue[db] : e.row = r /\ e.p = p /\ Spared(db, e)
      BY <2>2 DEF Recorded
    <3>2. Spared(db, e)'
      BY <1>3, <3>1 DEF Spared
    <3> QED  BY <1>4, <3>1, <3>2 DEF Recorded
  <2>3. CASE Renewed(db, r, p)
    <3>1. PICK t \in Services : pass[t].pc \in {"pull", "push"} /\ InHand(t, db, r, p)
      BY <2>3 DEF Renewed
    <3>2. CASE t # s
      BY <1>3, <3>1, <3>2 DEF Renewed, InHand
    <3>3. CASE t = s
      BY <1>4, <3>1, <3>3 DEF InHand, Target, Key
    <3> QED  BY <3>2, <3>3
  <2> QED  BY <1>4, <2>1, <2>2, <2>3 DEF StageInv, AllSafe, Safe
<1> QED  BY <1>6, <1>7, <1>8, <1>9 DEF StageInv

\* The steps of a pass that take nothing in hand.
LEMMA EasyDone ==
    ASSUME Keeps, NEW s \in Services, pass[s].pc \notin {"pull", "push"},
           Set(s, Idle) \/ Set(s, Throws(s)) \/ Set(s, Next1(s)) \/ Set(s, Refused(s))
           \/ (\E r \in Rows : pass[s].pc = "rows" /\ Set(s, Passed(s, r)))
           \/ \E pc \in {"settle", "rollback", "retry", "blocker"} : Goto(s, pc)
    PROVE  Easy(s)
<1>1. pass \in [Services -> PassType] /\ pass[s] \in PassType
  BY DEF Keeps, Typed
<1>2. PICK q : Set(s, q) /\ \/ q = Idle \/ q = Throws(s) \/ q = Next1(s) \/ q = Refused(s)
                            \/ \E r \in Rows : pass[s].pc = "rows" /\ q = Passed(s, r)
                            \/ \E pc \in {"settle", "rollback", "retry", "blocker"} :
                                  q = [pass[s] EXCEPT !.pc = pc]
  BY DEF Goto
<1> DEFINE Ok == /\ q.nonce \in {pass[s].nonce, None}
                 /\ q.pc \in {"idle", "settle", "rows", "rollback", "retry", "blocker"}
<1>3. ASSUME q = Idle PROVE Ok
  BY <1>3, IdleTyped
<1>4. ASSUME q = Throws(s) PROVE Ok
  BY <1>1, <1>4 DEF Throws, PassType
<1>5. ASSUME q = Next1(s) PROVE Ok
  BY <1>1, <1>5 DEF Next1, PassType
<1>6. ASSUME q = Refused(s) PROVE Ok
  BY <1>1, <1>6 DEF Refused, Next1, PassType
<1>7. ASSUME NEW r \in Rows, pass[s].pc = "rows", q = Passed(s, r) PROVE Ok
  BY <1>1, <1>7 DEF Passed, PassType
<1>8. ASSUME NEW pc \in {"settle", "rollback", "retry", "blocker"}, q = [pass[s] EXCEPT !.pc = pc] PROVE Ok
  BY <1>1, <1>8 DEF PassType
<1>9. Ok
  <2> HIDE DEF Ok
  <2> QED  BY <1>2, <1>3, <1>4, <1>5, <1>6, <1>7, <1>8
<1>10. pass'[s] = q /\ \A t \in Services \ {s} : pass'[t] = pass[t]
  BY <1>1, <1>2 DEF Set
<1> QED  BY <1>9, <1>10 DEF Easy

LEMMA EasySweep ==
    ASSUME Keeps, NEW s \in Services, Sweep(s), pass'[s].pc # "drain"
    PROVE  Easy(s)
<1>1. pass \in [Services -> PassType] /\ pass[s] \in PassType
  BY DEF Keeps, Typed
<1> DEFINE p == pass[s]
           Quiet(q) == /\ pass[s].pc \notin {"pull", "push"}
                       /\ q.nonce \in {pass[s].nonce, None}
                       /\ q.pc \in {"queue", "entries", "strays", "peer", "heal", "local", "drain"}
<1>2. ASSUME NEW q, Set(s, q), Quiet(q) PROVE Easy(s)
  <2>1. pass'[s] = q /\ \A t \in Services \ {s} : pass'[t] = pass[t]
    BY <1>1, <1>2 DEF Set
  <2> QED  BY <1>2, <2>1 DEF Easy
<1>3. ASSUME Start(s) PROVE \E q : Set(s, q) /\ Quiet(q)
  <2> DEFINE q == [Idle EXCEPT !.pc = "queue"]
  <2>1. Set(s, q) /\ pass[s].pc = "idle"
    BY <1>3 DEF Start
  <2>2. q.nonce = None /\ q.pc = "queue"
    BY IdleTyped DEF PassType
  <2> HIDE DEF q
  <2> QED  BY <2>1, <2>2
<1>4. ASSUME ReadQueue(s) PROVE \E q : Set(s, q) /\ Quiet(q)
  <2> DEFINE q == [p EXCEPT !.pc = "entries", !.entries = queue[Here(s)],
                            !.covered = {e.row : e \in queue[Here(s)]}]
  <2>1. Set(s, q) /\ pass[s].pc = "queue"
    BY <1>4 DEF ReadQueue
  <2>2. q.nonce = p.nonce /\ q.pc = "entries"
    BY <1>1 DEF PassType
  <2> HIDE DEF q
  <2> QED  BY <2>1, <2>2
<1>5. ASSUME SweepEntry(s) PROVE \E q : Set(s, q) /\ Quiet(q)
  <2> DEFINE left(e) == [p EXCEPT !.entries = @ \ {e}]
             held(e) == [left(e) EXCEPT !.held = @ \cup {e.row}, !.bad = TRUE]
             drained(q, e) == [q EXCEPT !.pc = "drain", !.drain = e]
  <2>1. PICK e, q : Set(s, q) /\ (q = left(e) \/ q = held(e)
                        \/ q = drained(left(e), e) \/ q = drained(held(e), e))
    BY <1>5 DEF SweepEntry
  <2>2. q.nonce = p.nonce /\ q.pc \in {"entries", "drain"}
    BY <1>1, <1>5, <2>1 DEF SweepEntry, PassType
  <2>3. p.pc = "entries"
    BY <1>5 DEF SweepEntry
  <2> QED  BY <2>1, <2>2, <2>3
<1>6. ASSUME Drain(s) PROVE \E q : Set(s, q) /\ Quiet(q)
  <2> DEFINE q == [p EXCEPT !.pc = "entries", !.drain = None]
  <2>1. Set(s, q) /\ pass[s].pc = "drain"
    BY <1>6 DEF Drain
  <2>2. q.nonce = p.nonce /\ q.pc = "entries"
    BY <1>1 DEF PassType
  <2> HIDE DEF q
  <2> QED  BY <2>1, <2>2
<1>7. ASSUME FindStrays(s) PROVE \E q : Set(s, q) /\ Quiet(q)
  <2>1. PICK ss, q : Set(s, q) /\ q = [p EXCEPT !.pc = "strays", !.covered = {}, !.strays = ss]
    BY <1>7 DEF FindStrays
  <2>2. q.nonce = p.nonce /\ q.pc = "strays"
    BY <1>1, <2>1 DEF PassType
  <2>3. p.pc = "entries"
    BY <1>7 DEF FindStrays
  <2> QED  BY <2>1, <2>2, <2>3
<1>8. ASSUME LookUp(s) \/ ReadPeer(s) \/ Heal(s) PROVE \E q : Set(s, q) /\ Quiet(q)
  <2>1. PICK q : Set(s, q) /\ StrayStep(s, q)
    BY <1>8, StraySteps
  <2> QED  BY <2>1 DEF StrayStep
<1>9. ASSUME EndSweep(s) PROVE \E q : Set(s, q) /\ Quiet(q)
  <2>1. PICK q : Set(s, q) /\ (q = [p EXCEPT !.pc = "queue", !.side = "remote"]
                               \/ q = [p EXCEPT !.pc = "local"])
    BY <1>9 DEF EndSweep
  <2>2. q.nonce = p.nonce /\ q.pc \in {"queue", "local"}
    BY <1>1, <2>1 DEF PassType
  <2>3. p.pc = "strays"
    BY <1>9 DEF EndSweep
  <2> QED  BY <2>1, <2>2, <2>3
<1>10. PICK q : Set(s, q) /\ Quiet(q)
  <2> HIDE DEF Quiet
  <2> QED  BY <1>3, <1>4, <1>5, <1>6, <1>7, <1>8, <1>9 DEF Sweep
<1>11. q.pc # "drain"
  BY <1>1, <1>10 DEF Set
<1>12. pass'[s] = q /\ \A t \in Services \ {s} : pass'[t] = pass[t]
  BY <1>1, <1>10 DEF Set
<1> QED  BY <1>10, <1>11, <1>12 DEF Easy

LEMMA EasyLoop ==
    ASSUME Keeps, NEW s \in Services, Loop(s)
    PROVE  Easy(s)
<1>1. pass \in [Services -> PassType] /\ pass[s] \in PassType
  BY DEF Keeps, Typed
<1> DEFINE p == pass[s]
           Quiet(q) == /\ pass[s].pc \notin {"pull", "push"}
                       /\ q.nonce = pass[s].nonce
                       /\ q.pc \in {"remote", "rows", "write"}
<1>2. ASSUME NEW q, Set(s, q), Quiet(q) PROVE Easy(s)
  <2>1. pass'[s] = q /\ \A t \in Services \ {s} : pass'[t] = pass[t]
    BY <1>1, <1>2 DEF Set
  <2> QED  BY <1>2, <2>1 DEF Easy
<1>3. ASSUME ReadLocal(s) PROVE \E q : Set(s, q) /\ Quiet(q)
  <2>1. PICK q : Set(s, q) /\ q = [p EXCEPT !.pc = "remote", !.snap["local"] = doc[LocalOf[s]]]
                 /\ p.pc = "local"
    BY <1>3 DEF ReadLocal
  <2>2. q.nonce = p.nonce /\ q.pc = "remote"
    BY <1>1, <2>1 DEF PassType
  <2> QED  BY <2>1, <2>2
<1>4. ASSUME ReadRemote(s) PROVE \E q : Set(s, q) /\ Quiet(q)
  <2>1. PICK hs, bb, tt, q : Set(s, q) /\ p.pc = "remote"
          /\ q = [[p EXCEPT !.snap["remote"] = doc[Remote]]
                     EXCEPT !.pc = "rows", !.held = hs, !.bad = bb, !.todo = tt]
    BY <1>4 DEF ReadRemote
  <2>2. q.nonce = p.nonce /\ q.pc = "rows"
    BY <1>1, <2>1 DEF PassType
  <2> QED  BY <2>1, <2>2
<1>5. ASSUME NEW r \in Rows, NEW to \in Sides, Hydrate(s, r, to)
      PROVE  \E q : Set(s, q) /\ Quiet(q)
  <2>1. p.pc = "rows"
    BY <1>5 DEF Hydrate, Turn
  <2> DEFINE a == Passed(s, r)
  <2>2. a \in PassType /\ a.nonce = p.nonce /\ a.pc = "rows"
    BY <1>1, <2>1 DEF Passed, PassType
  <2>3. PICK job, q : Set(s, q) /\ (q = [a EXCEPT !.bad = TRUE]
                                    \/ q = [a EXCEPT !.pc = "write", !.job = job])
    BY <1>5 DEF Hydrate
  <2> HIDE DEF a
  <2>4. q.nonce = p.nonce /\ q.pc \in {"rows", "write"}
    BY <2>2, <2>3 DEF PassType
  <2> QED  BY <2>1, <2>3, <2>4
<1>6. ASSUME EndRows(s) \/ \E r \in Rows : HeldBack(s, r) \/ \E to \in Sides : WriteFlags(s, r, to)
      PROVE  Easy(s)
  BY <1>6, EasyDone DEF EndRows, HeldBack, WriteFlags, Turn
<1> HIDE DEF Quiet
<1>7. ASSUME \E q : Set(s, q) /\ Quiet(q) PROVE Easy(s)
  BY <1>2, <1>7
<1> QED  BY <1>3, <1>4, <1>5, <1>6, <1>7 DEF Loop

\* A record may go only when its row is not aside.
LEMMA QueueStaysSafe ==
    ASSUME Keeps, LiveInv, StageInv, Plain, NEW s \in Services,
           queue' = queue \/ Drain(s) \/ Unqueue(s) \/ Settled(s)
    PROVE  QueueSafe
<1> SUFFICES ASSUME NEW db \in Stores, NEW r \in Rows, NEW p \in Placeholders, NEW e \in queue[db],
                    At(db, r, p)', e.row = r, e.p = p, Spared(db, e), e \notin queue'[db]
             PROVE  FALSE
  BY DEF QueueSafe
<1>1. At(db, r, p) /\ queue \in [Stores -> SUBSET Record]
  BY PlainAt DEF Keeps, Typed
<1>2. CASE Drain(s)
  <2>1. /\ pass[s].pc = "drain"
        /\ queue' = [queue EXCEPT ![Here(s)] = {f \in @ : ~Swept(f, pass[s].drain)}]
    BY <1>2 DEF Drain
  <2>2. db = Here(s) /\ Swept(e, pass[s].drain)
    BY <1>1, <2>1
  <2> QED  BY <2>1, <2>2 DEF Spared, Here
<1>3. CASE Unqueue(s)
  <2>1. pass[s].pc = "unqueue" /\ Pull(Target(s), Key(s))
    BY <1>3 DEF Unqueue
  <2>2. db = Target(s) /\ SameKey(e, Key(s))
    BY <1>1, <2>1 DEF Pull
  <2>3. InHand(s, db, r, p)
    BY <2>2 DEF InHand, SameKey, Key, Target
  <2> QED  BY <1>1, <2>1, <2>3 DEF StageInv, NotYet
<1>4. CASE Settled(s)
  <2>1. pass[s].pc = "settled" /\ Pull(Db(s, pass[s].drain.side), pass[s].drain)
    BY <1>4 DEF Settled
  <2>2. db = Db(s, pass[s].drain.side) /\ SameKey(e, pass[s].drain)
    BY <1>1, <2>1 DEF Pull
  <2> QED  BY <1>1, <2>1, <2>2 DEF StageInv, Away, Settling, SameKey
<1> QED  BY <1>2, <1>3, <1>4

LEMMA LapsedGrows ==
    ASSUME NEW s \in Services, PassStep(s)
    PROVE  lapsed \subseteq lapsed'
BY DEF PassStep, Sweep, Loop, Staging, Start, ReadQueue, SweepEntry, Drain, FindStrays,
   LookUp, ReadPeer, Heal, EndSweep, ReadLocal, ReadRemote, EndRows, HeldBack, WriteFlags, Hydrate,
   WriteCopy, Collide, FindBlocker, ReadSource, Enqueue, Stage, Unqueue, PullOld, PushAgain, Retry, Rollback, Settle,
   Settled, Finish

LEMMA EasyStaging ==
    ASSUME Keeps, NEW s \in Services,
           \/ WriteCopy(s) \/ Collide(s) \/ (FindBlocker(s) /\ pass'[s].pc # "source")
           \/ (ReadSource(s) /\ pass'[s].pc # "enqueue") \/ Unqueue(s) \/ Retry(s)
           \/ Rollback(s) \/ (Settle(s) /\ pass'[s].pc # "settled") \/ Settled(s) \/ Finish(s)
    PROVE  Easy(s)
<1>1. pass \in [Services -> PassType] /\ pass[s] \in PassType
  BY DEF Keeps, Typed
<1> DEFINE p == pass[s]
<1>2. ASSUME WriteCopy(s) \/ Collide(s) \/ Unqueue(s) \/ Retry(s) \/ Rollback(s) \/ Finish(s)
      PROVE  Easy(s)
  <2>1. p.pc \notin {"pull", "push"}
    BY <1>2 DEF WriteCopy, Collide, Unqueue, Retry, Rollback, Finish
  <2>2. \/ Set(s, Next1(s)) \/ Set(s, Refused(s)) \/ Goto(s, "rollback") \/ Set(s, Throws(s))
        \/ Set(s, Idle) \/ Goto(s, "blocker")
    BY <1>2 DEF WriteCopy, Collide, Unqueue, Retry, Rollback, Finish
  <2> QED  BY <2>1, <2>2, EasyDone
<1>3. ASSUME \/ FindBlocker(s) /\ pass'[s].pc # "source"
             \/ ReadSource(s) /\ pass'[s].pc # "enqueue"
      PROVE  Easy(s)
  <2>1. p.pc \in {"blocker", "source"}
    BY <1>3 DEF FindBlocker, ReadSource
  <2>2. PICK b, n, k, q : pass'[s] = q /\ Set(s, q) /\
            \/ q = Throws(s) \/ q = Refused(s)
            \/ q = [p EXCEPT !.pc = "source", !.job.blocker = b, !.job.o = n] /\ FindBlocker(s)
            \/ q = [p EXCEPT !.pc = "enqueue", !.nonce = k] /\ ReadSource(s)
    <3>1. \A q : Set(s, q) => pass'[s] = q
      BY <1>1 DEF Set
    <3>2. CASE FindBlocker(s)
      BY <3>1, <3>2 DEF FindBlocker
    <3>3. CASE ReadSource(s)
      BY <3>1, <3>3 DEF ReadSource
    <3> QED  BY <1>3, <3>2, <3>3
  <2>3. /\ [p EXCEPT !.pc = "source", !.job.blocker = b, !.job.o = n].pc = "source"
        /\ [p EXCEPT !.pc = "enqueue", !.nonce = k].pc = "enqueue"
    BY <1>1 DEF PassType
  <2>4. ~(FindBlocker(s) /\ ReadSource(s))
    BY DEF FindBlocker, ReadSource
  <2>5. q = Throws(s) \/ q = Refused(s)
    BY <1>3, <2>2, <2>3, <2>4
  <2> QED  BY <2>1, <2>2, <2>5, EasyDone
<1>4. ASSUME Settle(s) \/ Settled(s), pass'[s].pc # "settled" PROVE Easy(s)
  <2>1. p.pc \in {"settle", "settled"}
    BY <1>4 DEF Settle, Settled
  <2>2. PICK x, q : Set(s, q) /\
           \/ q = [[p EXCEPT !.staged = @ \ {x}] EXCEPT !.bad = TRUE] /\ p.pc = "settle"
           \/ q = [p EXCEPT !.pc = "settled", !.drain = x]
           \/ q = [p EXCEPT !.pc = "settle", !.staged = @ \ {x}, !.drain = None]
    BY <1>4 DEF Settle, Settled
  <2>3. pass'[s] = q /\ \A t \in Services \ {s} : pass'[t] = pass[t]
    BY <1>1, <2>2 DEF Set
  <2>4. q.nonce = p.nonce /\ q.pc \in {"settle", "settled"}
    BY <1>1, <2>2 DEF PassType
  <2> QED  BY <1>4, <2>1, <2>3, <2>4 DEF Easy
<1>5. ASSUME Settled(s) PROVE pass'[s].pc # "settled"
  BY <1>1, <1>5 DEF Settled, Set, PassType
<1> QED  BY <1>2, <1>3, <1>4, <1>5

LEMMA EasyFails ==
    ASSUME Keeps, NEW s \in Services, Fails(s) \/ Crash(s), pass[s].pc \notin {"pull", "push"}
    PROVE  Easy(s)
<1>1. pass \in [Services -> PassType] /\ pass[s] \in PassType
  BY DEF Keeps, Typed
<1> DEFINE p == pass[s]
<1>2. ASSUME Crash(s) PROVE Easy(s)
  BY <1>2, EasyDone DEF Crash
<1>3. ASSUME NEW q, Set(s, q), q.nonce = p.nonce, q.pc \in {"entries", "strays", "settle"} PROVE Easy(s)
  <2>1. pass'[s] = q /\ \A t \in Services \ {s} : pass'[t] = pass[t]
    BY <1>1, <1>3 DEF Set
  <2> QED  BY <1>3, <2>1 DEF Easy
<1>4. ASSUME Fails(s) PROVE Easy(s)
  <2>1. \/ Set(s, Idle) \/ Set(s, Throws(s)) \/ Set(s, Refused(s)) \/ Goto(s, "rollback")
        \/ Set(s, [p EXCEPT !.pc = "entries", !.drain = None])
        \/ p.pc = "settle" /\ \E x \in p.staged : Set(s, [p EXCEPT !.staged = @ \ {x}, !.bad = TRUE])
        \/ Set(s, [p EXCEPT !.pc = "settle", !.staged = @ \ {p.drain}, !.drain = None, !.bad = TRUE])
        \/ \E q : Set(s, q) /\ Skips(p, q)
    BY <1>4, SkipFails DEF Fails
  <2>2. ASSUME Set(s, [p EXCEPT !.pc = "entries", !.drain = None]) PROVE Easy(s)
    <3>1. PICK q : q = [p EXCEPT !.pc = "entries", !.drain = None]
      OBVIOUS
    <3>2. q.nonce = p.nonce /\ q.pc = "entries"
      BY <1>1, <3>1 DEF PassType
    <3> QED  BY <1>3, <2>2, <3>1, <3>2
  <2>3. ASSUME p.pc = "settle", NEW x, Set(s, [p EXCEPT !.staged = @ \ {x}, !.bad = TRUE]) PROVE Easy(s)
    <3>1. PICK q : q = [p EXCEPT !.staged = @ \ {x}, !.bad = TRUE]
      OBVIOUS
    <3>2. q.nonce = p.nonce /\ q.pc = "settle"
      BY <1>1, <2>3, <3>1 DEF PassType
    <3> QED  BY <1>3, <2>3, <3>1, <3>2
  <2>4. ASSUME Set(s, [p EXCEPT !.pc = "settle", !.staged = @ \ {p.drain}, !.drain = None,
                                !.bad = TRUE])
        PROVE  Easy(s)
    <3>1. PICK q : q = [p EXCEPT !.pc = "settle", !.staged = @ \ {p.drain}, !.drain = None,
                                 !.bad = TRUE]
      OBVIOUS
    <3>2. q.nonce = p.nonce /\ q.pc = "settle"
      BY <1>1, <3>1 DEF PassType
    <3> QED  BY <1>3, <2>4, <3>1, <3>2
  <2>5. ASSUME NEW q, Set(s, q), Skips(p, q) PROVE Easy(s)
    <3>1. q.nonce = p.nonce /\ q.pc \in {"entries", "strays"}
      BY <1>1, <2>5, SkipsOn
    <3> QED  BY <1>3, <2>5, <3>1
  <2> QED  BY <2>1, <2>2, <2>3, <2>4, <2>5, EasyDone
<1> QED  BY <1>2, <1>4

LEMMA PassStepSafe ==
    ASSUME Keeps, LiveInv, StageInv, Next, NEW s \in Services, PassStep(s)
    PROVE  StageInv'
<1>1. lapsed \subseteq lapsed'
  BY LapsedGrows
<1>2. ASSUME Easy(s), Plain, queue' = queue \/ Drain(s) \/ Unqueue(s) \/ Settled(s) PROVE StageInv'
  BY <1>1, <1>2, QueueStaysSafe, EasyStep
<1>3. ASSUME Sweep(s) PROVE StageInv'
  <2>1. Plain
    BY <1>3, SweepPlain
  <2>2. CASE pass'[s].pc # "drain"
    <3>1. queue' = queue \/ Drain(s)
      BY <1>3 DEF Sweep, Start, ReadQueue, SweepEntry, FindStrays, LookUp, ReadPeer, Heal, EndSweep
    <3> QED  BY <1>2, <1>3, <2>1, <2>2, <3>1, EasySweep
  <2>3. CASE pass'[s].pc = "drain"
    <3>1. SweepEntry(s)
      <4>1. pass \in [Services -> PassType] /\ pass[s] \in PassType
        BY DEF Keeps, Typed
      <4>2. ~Start(s)
        BY <2>3, <4>1, IdleTyped DEF Start, Set, PassType
      <4>3. ~ReadQueue(s)
        BY <2>3, <4>1 DEF ReadQueue, Set, PassType
      <4>4. ~Drain(s)
        <5> SUFFICES ASSUME Drain(s) PROVE FALSE
          OBVIOUS
        <5>1. PICK q : Set(s, q) /\ q = [pass[s] EXCEPT !.pc = "entries", !.drain = None]
          BY DEF Drain
        <5>2. q.pc = "entries"
          BY <4>1, <5>1 DEF PassType
        <5> QED  BY <2>3, <4>1, <5>1, <5>2 DEF Set
      <4>5. ~FindStrays(s)
        BY <2>3, <4>1 DEF FindStrays, Set, PassType
      <4>6. ~LookUp(s) /\ ~ReadPeer(s) /\ ~Heal(s)
        <5> SUFFICES ASSUME LookUp(s) \/ ReadPeer(s) \/ Heal(s) PROVE FALSE
          OBVIOUS
        <5>1. PICK q : Set(s, q) /\ StrayStep(s, q)
          BY StraySteps
        <5>2. pass'[s] = q
          BY <4>1, <5>1 DEF Set
        <5> QED  BY <2>3, <5>1, <5>2 DEF StrayStep
      <4>7. ~EndSweep(s)
        <5> SUFFICES ASSUME EndSweep(s) PROVE FALSE
          OBVIOUS
        <5>1. PICK q : Set(s, q) /\ (q = [pass[s] EXCEPT !.pc = "queue", !.side = "remote"]
                                     \/ q = [pass[s] EXCEPT !.pc = "local"])
          BY DEF EndSweep
        <5>2. q.pc # "drain" /\ pass'[s] = q
          BY <4>1, <5>1 DEF PassType, Set
        <5> QED  BY <2>3, <5>2
      <4> QED  BY <1>3, <4>2, <4>3, <4>4, <4>5, <4>6, <4>7 DEF Sweep
    <3> QED  BY <2>1, <2>3, <3>1, ToDrainStep
  <2> QED  BY <2>2, <2>3
<1>4. ASSUME Loop(s) PROVE StageInv'
  <2>1. Plain /\ queue' = queue
    BY <1>4, LoopPlain DEF Plain, Loop, ReadLocal, ReadRemote, EndRows, HeldBack, WriteFlags,
       Hydrate
  <2> QED  BY <1>2, <1>4, <2>1, EasyLoop
<1>5. ASSUME Staging(s) PROVE StageInv'
  <2>1. ASSUME Stage(s) PROVE StageInv'
    <3>1. CASE Goto(s, "unqueue") /\ SameDocs
      BY <2>1, <3>1, HandStep
    <3>2. CASE /\ Live(doc[Target(s)][Key(s).row])
               /\ Named({s}, Target(s), Key(s).row, Key(s).p)
               /\ Set(s, [pass[s] EXCEPT !.pc = "pull", !.staged = @ \cup {Aside(s)}])
      <4>1. MovesAside(s)
        BY <2>1, <3>2 DEF MovesAside, Stage, Live
      <4> QED  BY <3>2, <4>1, AsideStep
    <3> QED  BY <2>1, <3>1, <3>2 DEF Stage
  <2>2. ASSUME Enqueue(s) PROVE StageInv'
    BY <2>2, HandStep
  <2>3. ASSUME PullOld(s) \/ PushAgain(s) PROVE StageInv'
    BY <2>3, RenewStep
  <2>4. ASSUME \/ FindBlocker(s) /\ pass'[s].pc = "source"
               \/ ReadSource(s) /\ pass'[s].pc = "enqueue"
        PROVE  StageInv'
    BY <2>4, FindStep, SourceStep
  <2>5. ASSUME Settle(s), pass'[s].pc = "settled" PROVE StageInv'
    BY <2>5, SettleStep
  <2>6. ASSUME \/ WriteCopy(s) \/ Collide(s) \/ (FindBlocker(s) /\ pass'[s].pc # "source")
               \/ (ReadSource(s) /\ pass'[s].pc # "enqueue") \/ Unqueue(s)
               \/ Retry(s) \/ Rollback(s) \/ (Settle(s) /\ pass'[s].pc # "settled")
               \/ Settled(s) \/ Finish(s)
        PROVE  StageInv'
    <3>1. Easy(s)
      BY <2>6, EasyStaging
    <3>2. ~Stage(s)
      BY <2>6 DEF Stage, WriteCopy, Collide, FindBlocker, ReadSource, Unqueue, Retry, Rollback, Settle, Settled, Finish
    <3>3. Plain
      BY <1>5, <3>2, StagingPlain
    <3>4. queue' = queue \/ Unqueue(s) \/ Settled(s)
      BY <2>6 DEF WriteCopy, Collide, FindBlocker, ReadSource, Retry, Rollback, Settle, Finish
    <3> QED  BY <1>2, <3>1, <3>3, <3>4
  <2> QED  BY <1>5, <2>1, <2>2, <2>3, <2>4, <2>5, <2>6 DEF Staging
<1> QED  BY <1>3, <1>4, <1>5 DEF PassStep

LEMMA NextSafe ==
    ASSUME Keeps, LiveInv, StageInv, [Next]_vars
    PROVE  StageInv'
<1>1. CASE UNCHANGED vars
  <2>1. Plain /\ pass' = pass /\ lapsed' = lapsed /\ queue' = queue
    BY <1>1 DEF vars, Plain
  <2> QED  BY <2>1, StillStep
<1>2. CASE Next
  <2>1. ASSUME User PROVE StageInv'
    <3>1. Plain
      BY <1>2, <2>1, UserPlain
    <3>2. pass' = pass /\ lapsed' = lapsed /\ queue' = queue
      BY <2>1, UserWrites
    <3> QED  BY <3>1, <3>2, StillStep
  <2>2. ASSUME NEW s \in Services, PassStep(s) PROVE StageInv'
    BY <1>2, <2>2, PassStepSafe
  <2>3. ASSUME NEW s \in Services, Fails(s) \/ Crash(s) PROVE StageInv'
    <3>1. Plain /\ queue' = queue /\ lapsed \subseteq lapsed'
      BY <2>3 DEF Fails, Crash, SameDocs, Plain, Lapses
    <3>2. CASE pass[s].pc \in {"pull", "push"}
      BY <2>3, <3>2, LapseStep
    <3>3. CASE pass[s].pc \notin {"pull", "push"}
      BY <2>3, <3>1, <3>3, EasyFails, QueueStaysSafe, EasyStep
    <3> QED  BY <3>2, <3>3
  <2>4. ASSUME NEW db \in Stores, Age(db) PROVE StageInv'
    <3>1. Plain /\ pass' = pass /\ lapsed' = lapsed
      BY <2>4 DEF Age, SameDocs, Plain
    <3>2. PICK a \in queue[db] :
             queue' = [queue EXCEPT ![db] = (@ \ {a}) \cup {[a EXCEPT !.old = TRUE]}]
      BY <2>4 DEF Age
    <3>3. a \in Record
      BY DEF Keeps, Typed
    <3> DEFINE b == [a EXCEPT !.old = TRUE]
    <3>4. a.row = b.row /\ a.o = b.o /\ a.p = b.p /\ a.at = b.at
      BY <3>3 DEF Record
    <3>5. queue'[db] = (queue[db] \ {a}) \cup {b} /\ \A st \in Stores \ {db} : queue'[st] = queue[st]
      BY <3>2 DEF Keeps, Typed
    <3> HIDE DEF b
    <3>6. \A st \in Stores : \A e \in queue[st] : \E f \in queue'[st] :
             e.row = f.row /\ e.o = f.o /\ e.p = f.p /\ e.at = f.at
      BY <3>4, <3>5
    <3> QED  BY <3>1, <3>6, StillStep
  <2> QED  BY <1>2, <2>1, <2>2, <2>3, <2>4 DEF Next
<1> QED  BY <1>1, <1>2

LEMMA InitSafe ==
    ASSUME Keeps, Init
    PROVE  StageInv
<1>1. \A s \in Services : pass[s] = Idle
  BY DEF Init
<1>2. Apart /\ \A s \in Services : NotYet(s) /\ Away(s)
  BY <1>1, IdleTyped DEF Apart, NotYet, Away, Settling
<1>3. AllSafe
  <2> SUFFICES ASSUME NEW db \in Stores, NEW r \in Rows, doc[db][r] # NoDoc
               PROVE  doc[db][r].name \notin Placeholders
    BY DEF AllSafe, Safe, At
  <2>1. play \in Play /\ doc = play.docs
    BY SyncNamesAssumption DEF Init
  <2>2. doc[db][r].name \in Names
    BY <2>1 DEF Play
  <2> QED  BY <2>2, SyncNamesAssumption
<1> QED  BY <1>2, <1>3 DEF StageInv

\* Passes that sleep, die, fail and sweep each other's records never forget the name of
\* a row that is aside: a record of it stays that no sweep is about to take out, or its
\* pass is renewing one, or died or failed while it did.
THEOREM NamesAreOnRecord ==
    ASSUME NothingTrashed
    PROVE  Spec => []OriginalKept
<1>1. Keeps /\ Init => StageInv
  BY InitSafe
<1>2. Keeps /\ LiveInv /\ StageInv /\ [Next]_vars => StageInv'
  BY NextSafe
<1>3. Keeps /\ StageInv => OriginalKept
  <2> SUFFICES ASSUME Keeps, StageInv, NEW db \in Stores, NEW r \in Rows, Stranded(doc[db][r])
               PROVE  \/ \E e \in queue[db] : e.row = r /\ e.p = doc[db][r].name
                      \/ \E s \in Services : \E x \in pass[s].staged :
                            Db(s, x.side) = db /\ x.row = r /\ x.p = doc[db][r].name
                      \/ <<db, r, doc[db][r].name>> \in lapsed
    BY DEF OriginalKept
  <2>1. PICK p \in Placeholders : doc[db][r].name = p /\ At(db, r, p)
    BY DEF Stranded, Live, IsPlaceholder, At
  <2>2. Recorded(db, r, p) \/ Renewed(db, r, p) \/ <<db, r, p>> \in lapsed
    BY <2>1 DEF StageInv, AllSafe, Safe
  <2>3. CASE Recorded(db, r, p)
    BY <2>1, <2>3 DEF Recorded
  <2>4. CASE Renewed(db, r, p)
    <3>1. PICK s \in Services : pass[s].pc \in {"pull", "push"} /\ InHand(s, db, r, p)
      BY <2>4 DEF Renewed
    <3>2. Aside(s) \in pass[s].staged
      BY <3>1, AsideStaged
    <3>3. Aside(s).side = pass[s].job.to /\ Aside(s).row = r /\ Aside(s).p = p
      BY <3>1 DEF Aside, Key, InHand
    <3> QED  BY <2>1, <3>1, <3>2, <3>3 DEF InHand
  <2> QED  BY <2>1, <2>2, <2>3, <2>4
<1> QED  BY <1>1, <1>2, <1>3, LiveAlways, PTL DEF Spec
=============================================================================
