--------------------------- MODULE FamiliesProofs ---------------------------
(***************************************************************************)
(* What Families keeps, whatever the filaments, spools and clients.        *)
(*                                                                         *)
(* Every step of a request moves that request alone: it goes on, leaves    *)
(* its section, or queues for another (Moves).  So each key's queue holds  *)
(* exactly the requests that wait for it or hold it, and no two requests   *)
(* are in one section (Exclusion).  Everything else is said of a request   *)
(* by where it stands and is kept by the others for that reason.           *)
(***************************************************************************)
EXTENDS Families, SequenceTheorems, FiniteSetTheorems, TLAPS

GatePcs == {"gate", "unmark", "target", "partial", "resume", "mark", "copy",
            "remap", "complete"}

Reqs ==
    [pc : Outside \cup Entries \cup Inside, kind : AllKinds \cup {"none"},
     t : Rows \cup {None}, p : Rows \cup {None}, spool : Spools \cup {None},
     ok : BOOLEAN, paint : BOOLEAN, half : BOOLEAN, clear : BOOLEAN,
     key : Rows \cup {None}, snap : Doc \cup {NoDoc}, copy : Rows \cup {None}]

Slots == [fil : Rows, spool : Spools \cup {None}] \cup {None}

\* What a request's place says of it.
Shaped(r) ==
    /\ r.pc = "idle" => r = Idle
    /\ r.kind \notin {"none", "create", "promote"} => r.t \in Rows
    /\ r.pc \in GatePcs \cup {"fetch"} =>
          r.kind \in {"create", "adopt", "restore", "promote"} /\ r.p \in Rows /\ r.key = r.p
    /\ r.pc = "insert" => r.kind = "create" /\ r.p \in Rows /\ r.key = r.p
    /\ r.pc = "save" => r.kind = "restore" /\ r.key = r.p
    /\ r.pc \in {"strip", "write"} =>
          r.kind \in {"adopt", "detach", "paint"} /\ r.key = r.t
    /\ r.kind = "adopt" => r.p \in Rows /\ r.p # r.t
    /\ r.pc \in {"putParent", "putVariants", "putStored", "target", "assertParent",
                 "assertVariants", "rollback"} => r.kind = "adopt"
    /\ r.pc \in {"trashCheck", "trashRead", "trashSlots", "trashWrite"} =>
          r.kind = "trash" /\ r.key = r.t
    /\ r.pc \in {"purgeRead", "purgeCheck", "purgeSlots", "purgeWrite"} => r.kind = "purge"
    /\ r.pc = "restoreRead" => r.kind = "restore" /\ r.p = None
    /\ r.pc = "restoreParent" => r.kind = "restore" /\ r.p \in Rows
    /\ r.pc \in {"reviveRead", "reviveGate", "reviveCheck", "reviveWrite", "reviveAlarm"} =>
          r.kind = "revive"
    /\ r.pc \in {"reviveGate", "reviveCheck", "reviveAlarm", "alarm"} => r.p \in Rows
    /\ r.pc \in {"pushCheck", "push", "pushAgain", "pull"} =>
          r.kind = "addSpool" /\ r.key = r.t /\ r.spool \in Spools
    /\ r.pc \in {"dropCheck", "dropSlots", "drop", "dropSlotsAgain"} =>
          r.kind = "removeSpool" /\ r.key = r.t /\ r.spool \in Spools
    /\ r.pc \in GatePcs => r.snap # NoDoc
    /\ r.pc \in {"remap", "complete"} => r.copy \in Rows
    /\ r.pc \in Outside => r.key = None
    /\ r.clear => r.p \in Rows

\* A key's queue: exactly the requests with that key, each once; and a request
\* that has gone past the first step of its section is at the head.
Exclusion ==
    /\ \A k \in Rows : \A i \in DOMAIN queue[k] : req[queue[k][i]].key = k
    /\ \A k \in Rows : \A i, j \in DOMAIN queue[k] : queue[k][i] = queue[k][j] => i = j
    /\ \A c \in Clients : req[c].key # None =>
          \E i \in DOMAIN queue[req[c].key] : queue[req[c].key][i] = c
    /\ \A c \in Clients : req[c].pc \notin Entries => MayRun(c)

Typed ==
    /\ doc \in [Rows -> Doc \cup {NoDoc}]
    /\ slot \in Slots
    /\ queue \in [Rows -> Seq(Clients)]
    /\ req \in [Clients -> Reqs]
    /\ added \subseteq Spools
    /\ play \in Play

Places == Typed /\ (\A c \in Clients : Shaped(req[c])) /\ Exclusion

-----------------------------------------------------------------------------
(* Every step moves one request.                                           *)

Moves(c) ==
    \E r \in Reqs :
        /\ Shaped(r)
        /\ req' = [req EXCEPT ![c] = r]
        /\ r = Idle \/ r.kind = req[c].kind \/ req[c].pc = "idle"
        /\ MayRun(c)
        /\ \/ r.key = req[c].key /\ queue' = queue
           \/ r.key = None /\ queue' = Release(c)
           \/ /\ r.key \in Rows /\ r.pc \in Entries
              /\ queue' = [Release(c) EXCEPT ![r.key] = Append(@, c)]

LEMMA IdleShape == Idle \in Reqs /\ Shaped(Idle)
BY FamiliesAssumption
DEF Idle, Reqs, Shaped, GatePcs, Outside, Entries, Inside, AllKinds

LEMMA GoMoves ==
    ASSUME NEW c \in Clients, NEW r \in Reqs, Shaped(r), MayRun(c),
           r.kind = req[c].kind \/ req[c].pc = "idle", r.key = req[c].key, Go(c, r)
    PROVE  Moves(c)
BY DEF Moves, Go

LEMMA EnterMoves ==
    ASSUME NEW c \in Clients, NEW k \in Rows, NEW r, [r EXCEPT !.key = k] \in Reqs,
           Shaped([r EXCEPT !.key = k]), MayRun(c), r \in Reqs,
           r.kind = req[c].kind \/ req[c].pc = "idle", r.pc \in Entries, Enter(c, k, r)
    PROVE  Moves(c)
<1> DEFINE q == [r EXCEPT !.key = k]
<1>1. q \in Reqs /\ Shaped(q) /\ q.key = k /\ q.pc = r.pc /\ q.kind = r.kind
  BY DEF Reqs
<1>2. req' = [req EXCEPT ![c] = q] /\ queue' = [Release(c) EXCEPT ![q.key] = Append(@, c)]
  BY <1>1 DEF Enter
<1> HIDE DEF q
<1> QED  BY <1>1, <1>2 DEF Moves

LEMMA LeaveMoves ==
    ASSUME NEW c \in Clients, NEW r \in Reqs, [r EXCEPT !.key = None] \in Reqs,
           Shaped([r EXCEPT !.key = None]), MayRun(c),
           r.kind = req[c].kind, Leave(c, r)
    PROVE  Moves(c)
<1> DEFINE q == [r EXCEPT !.key = None]
<1>1. q \in Reqs /\ Shaped(q) /\ q.key = None /\ q.kind = r.kind
  BY DEF Reqs
<1>2. req' = [req EXCEPT ![c] = q] /\ queue' = Release(c)
  BY <1>1 DEF Leave
<1> HIDE DEF q
<1> QED  BY <1>1, <1>2 DEF Moves

LEMMA AnswerMoves ==
    ASSUME NEW c \in Clients, MayRun(c), Answer(c)
    PROVE  Moves(c)
BY IdleShape DEF Moves, Answer, Idle

\* The request goes to pc.
Place(r, pc) == [r EXCEPT !.pc = pc]

LEMMA PlaceFields ==
    ASSUME NEW r \in Reqs, NEW pc \in Outside \cup Entries \cup Inside
    PROVE  /\ Place(r, pc) \in Reqs
           /\ Place(r, pc).pc = pc
           /\ Place(r, pc).snap = r.snap
           /\ Place(r, pc).kind = r.kind
           /\ Place(r, pc).t = r.t
           /\ Place(r, pc).p = r.p
           /\ Place(r, pc).key = r.key
           /\ Place(r, pc).spool = r.spool
           /\ Place(r, pc).clear = r.clear
           /\ Place(r, pc).copy = r.copy
           /\ Place(r, pc).half = r.half
<1> DEFINE q == [r EXCEPT !.pc = pc]
<1>1. q \in Reqs
  BY DEF Reqs
<1>2. /\ q.pc = pc /\ q.kind = r.kind /\ q.t = r.t /\ q.p = r.p /\ q.key = r.key
      /\ q.spool = r.spool /\ q.clear = r.clear /\ q.copy = r.copy /\ q.snap = r.snap
      /\ q.half = r.half
  BY DEF Reqs
<1>3. Place(r, pc) = q
  BY DEF Place
<1> HIDE DEF q
<1> QED  BY <1>1, <1>2, <1>3

\* The steps that only go on, from one place to the next.
Follows(r, pc) ==
    \/ /\ r.pc \in GatePcs
       /\ \/ pc \in {"partial", "resume", "mark", "copy", "gate", "unmark"}
          \/ r.kind = "adopt" /\ pc = "target"
    \/ r.pc = "remap" /\ pc = "complete"
    \/ r.clear /\ pc = "alarm"
          /\ r.pc \in {"insert", "save", "assertParent", "assertVariants", "reviveAlarm"}
    \/ r.pc \in {"assertParent", "assertVariants"} /\ pc = "rollback"
    \/ r.pc = "putParent" /\ pc = "putVariants"
    \/ r.pc = "putVariants" /\ pc = "putStored"
    \/ r.pc = "trashCheck" /\ pc = "trashRead"
    \/ r.pc = "purgeCheck" /\ pc = "purgeSlots"
    \/ r.pc = "restoreRead" /\ pc = "save"
    \/ r.pc \in {"reviveRead", "reviveGate"} /\ pc = "reviveWrite"
    \/ r.pc = "reviveWrite" /\ r.clear /\ pc = "reviveAlarm"
    \/ r.pc = "reviveAlarm" /\ pc = "alarm"
    \/ r.pc = "pushCheck" /\ pc = "push"
    \/ r.pc = "push" /\ pc = "pushAgain"
    \/ r.pc = "pushAgain" /\ pc = "pull"
    \/ r.pc = "dropCheck" /\ pc = "dropSlots"
    \/ r.pc = "dropSlots" /\ pc = "drop"
    \/ r.pc = "drop" /\ pc = "dropSlotsAgain"

LEMMA FollowsShape ==
    ASSUME NEW r \in Reqs, NEW pc, Shaped(r), Follows(r, pc)
    PROVE  pc \in Outside \cup Entries \cup Inside /\ Shaped(Place(r, pc))
<1>1. pc \in Outside \cup Entries \cup Inside
  BY DEF Follows, Outside, Entries, Inside
<1> DEFINE q == Place(r, pc)
<1>2. /\ q \in Reqs /\ q.pc = pc /\ q.kind = r.kind /\ q.t = r.t /\ q.p = r.p
      /\ q.key = r.key /\ q.spool = r.spool /\ q.clear = r.clear /\ q.copy = r.copy
      /\ q.snap = r.snap
  BY <1>1, PlaceFields
<1> HIDE DEF q
<1>3. ASSUME r.pc \in GatePcs
      PROVE  Shaped(q)
  BY <1>2, <1>3 DEF Follows, Shaped, GatePcs, Outside
<1>4. ASSUME r.pc \in {"insert", "save", "assertParent", "assertVariants", "reviveAlarm"}
      PROVE  Shaped(q)
  BY <1>2, <1>4 DEF Follows, Shaped, GatePcs, Outside
<1>5. ASSUME r.pc \in {"putParent", "putVariants", "trashCheck", "purgeCheck", "restoreRead"}
      PROVE  Shaped(q)
  BY <1>2, <1>5 DEF Follows, Shaped, GatePcs, Outside
<1>6. ASSUME r.pc \in {"reviveRead", "reviveGate", "reviveWrite"}
      PROVE  Shaped(q)
  BY <1>2, <1>6 DEF Follows, Shaped, GatePcs, Outside
<1>7. ASSUME r.pc \in {"pushCheck", "push", "pushAgain", "dropCheck", "dropSlots", "drop"}
      PROVE  Shaped(q)
  BY <1>2, <1>7 DEF Follows, Shaped, GatePcs, Outside
<1>8. Shaped(q)
  BY <1>3, <1>4, <1>5, <1>6, <1>7 DEF Follows, GatePcs
<1> QED  BY <1>1, <1>8 DEF q

LEMMA GotoMoves ==
    ASSUME Typed, NEW c \in Clients, NEW pc, MayRun(c), Shaped(req[c]),
           Follows(req[c], pc), Goto(c, pc)
    PROVE  Moves(c)
<1>1. req[c] \in Reqs
  BY DEF Typed
<1>2. pc \in Outside \cup Entries \cup Inside /\ Shaped(Place(req[c], pc))
  BY <1>1, FollowsShape
<1>3. Go(c, Place(req[c], pc))
  BY DEF Goto, Place
<1> QED  BY <1>1, <1>2, <1>3, PlaceFields, GoMoves

LEMMA AfterGateFields ==
    ASSUME NEW r \in Reqs, NEW clear \in BOOLEAN
    PROVE  LET q == AfterGate(r, clear) IN
           /\ q \in Reqs
           /\ q.kind = r.kind /\ q.t = r.t /\ q.p = r.p /\ q.key = r.key /\ q.spool = r.spool
           /\ q.clear = clear /\ q.snap = NoDoc /\ q.copy = None /\ q.paint = r.paint
           /\ q.half = r.half /\ q.ok = r.ok
           /\ r.kind = "create" => q.pc = "insert"
           /\ r.kind = "restore" => q.pc = "save"
           /\ r.kind \notin {"create", "restore"} => q.pc = "strip"
<1> DEFINE pc == CASE r.kind = "create"  -> "insert"
                   [] r.kind = "restore" -> "save"
                   [] OTHER              -> "strip"
           q == [r EXCEPT !.clear = clear, !.snap = NoDoc, !.copy = None, !.pc = pc]
<1>1. /\ r.kind = "create" => pc = "insert"
      /\ r.kind = "restore" => pc = "save"
      /\ r.kind \notin {"create", "restore"} => pc = "strip"
  OBVIOUS
<1>2. pc \in Outside \cup Entries \cup Inside
  BY <1>1 DEF Outside, Entries, Inside
<1>3. AfterGate(r, clear) = q
  BY DEF AfterGate
<1> HIDE DEF pc
<1>4. q \in Reqs
  <2> DEFINE q1 == [r EXCEPT !.clear = clear, !.snap = NoDoc]
  <2>1. q1 \in Reqs
    BY DEF Reqs
  <2> HIDE DEF q1
  <2> DEFINE q2 == [q1 EXCEPT !.copy = None]
  <2>2. q2 \in Reqs
    BY <2>1 DEF Reqs
  <2> HIDE DEF q2
  <2>3. [q2 EXCEPT !.pc = pc] \in Reqs
    BY <1>2, <2>2 DEF Reqs
  <2> QED  BY <2>3 DEF q1, q2
<1>5. /\ q.pc = pc
      /\ q.kind = r.kind /\ q.t = r.t /\ q.p = r.p /\ q.key = r.key /\ q.spool = r.spool
      /\ q.clear = clear /\ q.snap = NoDoc /\ q.copy = None /\ q.paint = r.paint
      /\ q.half = r.half /\ q.ok = r.ok
  BY <1>2 DEF Reqs
<1> HIDE DEF q
<1> QED  BY <1>1, <1>3, <1>4, <1>5

LEMMA PassMoves ==
    ASSUME Typed, NEW c \in Clients, Shaped(req[c]), NEW clear \in BOOLEAN,
           req[c].pc \in GatePcs \cup {"fetch"}, MayRun(c), Pass(c, clear)
    PROVE  Moves(c)
<1> DEFINE r == AfterGate(req[c], clear)
<1>1. req[c] \in Reqs /\ req[c].kind \in {"create", "adopt", "restore", "promote"}
      /\ req[c].p \in Rows /\ req[c].key = req[c].p
  BY DEF Typed, Shaped
<1>2. /\ r \in Reqs
      /\ r.kind = req[c].kind /\ r.t = req[c].t /\ r.p = req[c].p /\ r.key = r.p
      /\ r.kind = "create" => r.pc = "insert"
      /\ r.kind = "restore" => r.pc = "save"
      /\ r.kind \notin {"create", "restore"} => r.pc = "strip"
  BY <1>1, AfterGateFields
<1>3. r.kind = "adopt" => r.t \in Rows /\ r.p # r.t
  BY <1>2 DEF Shaped
<1>4. r.kind = "restore" => r.t \in Rows
  BY <1>2 DEF Shaped
<1>5. Pass(c, clear) <=>
        CASE r.kind = "adopt"   -> Enter(c, r.t, r)
          [] r.kind = "promote" -> Answer(c)
          [] OTHER              -> Go(c, r)
  BY DEF Pass
<1> HIDE DEF r
<1>6. CASE r.kind = "adopt"
  <2> DEFINE q == [r EXCEPT !.key = r.t]
  <2>1. Enter(c, r.t, r)
    BY <1>5, <1>6
  <2>2. /\ q \in Reqs /\ q.key = r.t /\ q.pc = "strip" /\ q.kind = "adopt"
        /\ q.t = r.t /\ q.p = r.p
    BY <1>2, <1>3, <1>6 DEF Reqs
  <2>5. q.t \in Rows /\ q.p \in Rows /\ q.p # q.t /\ q.key = q.t
    BY <1>1, <1>2, <1>3, <1>6, <2>2
  <2>3. Shaped(q)
    <3> HIDE DEF q
    <3> QED  BY ONLY <2>2, <2>5 DEF Shaped, GatePcs, Outside
  <2>4. r.pc \in Entries
    BY <1>2, <1>6 DEF Entries
  <2> QED  BY <1>2, <1>3, <2>1, <2>2, <2>3, <2>4, EnterMoves
<1>7. CASE r.kind = "promote"
  BY <1>5, <1>7, AnswerMoves
<1>8. CASE r.kind \in {"create", "restore"}
  <2>1. Go(c, r)
    BY <1>5, <1>8
  <2>2. Shaped(r)
    BY <1>1, <1>2, <1>4, <1>8 DEF Shaped, GatePcs, Outside
  <2> QED  BY <1>1, <1>2, <2>1, <2>2, GoMoves
<1> QED  BY <1>1, <1>2, <1>6, <1>7, <1>8

\* The request goes to pc with the snapshot snap.
Carry(r, pc, snap) == [r EXCEPT !.snap = snap, !.pc = pc]

LEMMA CarryFields ==
    ASSUME NEW r \in Reqs, NEW pc \in Outside \cup Entries \cup Inside,
           NEW snap \in Doc \cup {NoDoc}
    PROVE  /\ Carry(r, pc, snap) \in Reqs
           /\ Carry(r, pc, snap).pc = pc
           /\ Carry(r, pc, snap).snap = snap
           /\ Carry(r, pc, snap).kind = r.kind
           /\ Carry(r, pc, snap).t = r.t
           /\ Carry(r, pc, snap).p = r.p
           /\ Carry(r, pc, snap).key = r.key
           /\ Carry(r, pc, snap).spool = r.spool
           /\ Carry(r, pc, snap).clear = r.clear
           /\ Carry(r, pc, snap).half = r.half
           /\ Carry(r, pc, snap).copy = r.copy
<1> DEFINE q == [r EXCEPT !.snap = snap, !.pc = pc]
<1>1. q \in Reqs
  <2> DEFINE q1 == [r EXCEPT !.snap = snap]
  <2>1. q1 \in Reqs
    BY DEF Reqs
  <2> HIDE DEF q1
  <2>2. [q1 EXCEPT !.pc = pc] \in Reqs
    BY <2>1 DEF Reqs
  <2> QED  BY <2>2 DEF q1
<1>2. /\ q.pc = pc /\ q.kind = r.kind /\ q.t = r.t /\ q.p = r.p /\ q.key = r.key
      /\ q.spool = r.spool /\ q.clear = r.clear /\ q.copy = r.copy /\ q.snap = snap
      /\ q.half = r.half
  BY DEF Reqs
<1>3. Carry(r, pc, snap) = q
  BY DEF Carry
<1> HIDE DEF q
<1> QED  BY <1>1, <1>2, <1>3

LEMMA FetchMoves ==
    ASSUME Typed, NEW c \in Clients, Shaped(req[c]), Fetch(c)
    PROVE  Moves(c)
<1> DEFINE p == req[c].p
<1>1. req[c] \in Reqs /\ p \in Rows /\ doc[p] \in Doc \cup {NoDoc} /\ MayRun(c)
      /\ req[c].pc = "fetch" /\ req[c].key = p
      /\ req[c].kind \in {"create", "adopt", "restore", "promote"}
  BY DEF Typed, Shaped, Fetch, At
<1>2. CASE Answer(c)
  BY <1>1, <1>2, AnswerMoves
<1>3. ASSUME Live(p), NEW pc \in {"unmark", "gate"}, Go(c, Carry(req[c], pc, doc[p]))
      PROVE  Moves(c)
  <2> DEFINE q == Carry(req[c], pc, doc[p])
  <2>1. pc \in Outside \cup Entries \cup Inside
    BY <1>3 DEF Inside
  <2>2. /\ q \in Reqs /\ q.pc = pc /\ q.kind = req[c].kind /\ q.t = req[c].t
        /\ q.p = p /\ q.key = p /\ q.snap = doc[p] /\ q.clear = req[c].clear
    BY <1>1, <2>1, CarryFields
  <2> HIDE DEF q
  <2>3. Shaped(q)
    BY <1>1, <1>3, <2>2 DEF Shaped, GatePcs, Outside, Live, IsDoc
  <2> QED  BY <1>1, <1>3, <2>2, <2>3, GoMoves DEF q
<1>4. CASE Pass(c, FALSE)
  BY <1>1, <1>4, PassMoves
<1> QED  BY <1>2, <1>3, <1>4 DEF Fetch, Carry

LEMMA UnmarkMoves ==
    ASSUME Typed, NEW c \in Clients, Shaped(req[c]), Unmark(c)
    PROVE  Moves(c)
<1>1. req[c].pc = "unmark" /\ req[c].pc \in GatePcs /\ MayRun(c)
  BY DEF Unmark, At, GatePcs
<1>2. Answer(c) \/ Goto(c, "gate") \/ Pass(c, FALSE)
  BY DEF Unmark
<1> QED  BY <1>1, <1>2, AnswerMoves, GotoMoves, PassMoves DEF Follows

LEMMA GateMoves ==
    ASSUME Typed, NEW c \in Clients, Shaped(req[c]), Gate(c)
    PROVE  Moves(c)
<1>1. req[c].pc = "gate" /\ req[c].pc \in GatePcs /\ MayRun(c)
  BY DEF Gate, At, GatePcs
<1>2. \/ Answer(c) \/ Goto(c, "partial") \/ Goto(c, "unmark") \/ Goto(c, "resume")
      \/ Goto(c, "target") /\ req[c].kind = "adopt"
      \/ Pass(c, FALSE) \/ Pass(c, TRUE)
  BY DEF Gate
<1> QED  BY <1>1, <1>2, AnswerMoves, GotoMoves, PassMoves DEF Follows

LEMMA TargetAliveMoves ==
    ASSUME Typed, NEW c \in Clients, Shaped(req[c]), TargetAlive(c)
    PROVE  Moves(c)
<1>1. req[c].pc = "target" /\ req[c].pc \in GatePcs /\ MayRun(c)
  BY DEF TargetAlive, At, GatePcs
<1>2. Answer(c) \/ Goto(c, "partial")
  BY DEF TargetAlive
<1> QED  BY <1>1, <1>2, AnswerMoves, GotoMoves DEF Follows

\* The request finds or makes the copy and remaps the references next.
ToRemap(r, v) == [r EXCEPT !.copy = v, !.pc = "remap"]

LEMMA ToRemapFields ==
    ASSUME NEW r \in Reqs, NEW v \in Rows
    PROVE  /\ ToRemap(r, v) \in Reqs
           /\ ToRemap(r, v).pc = "remap"
           /\ ToRemap(r, v).copy = v
           /\ ToRemap(r, v).snap = r.snap
           /\ ToRemap(r, v).kind = r.kind
           /\ ToRemap(r, v).t = r.t
           /\ ToRemap(r, v).p = r.p
           /\ ToRemap(r, v).key = r.key
           /\ ToRemap(r, v).spool = r.spool
           /\ ToRemap(r, v).clear = r.clear
           /\ ToRemap(r, v).half = r.half
<1> DEFINE q == [r EXCEPT !.copy = v, !.pc = "remap"]
<1>1. q \in Reqs
  BY DEF Reqs, Inside
<1>2. /\ q.pc = "remap" /\ q.kind = r.kind /\ q.t = r.t /\ q.p = r.p /\ q.key = r.key
      /\ q.spool = r.spool /\ q.clear = r.clear /\ q.copy = v /\ q.snap = r.snap
      /\ q.half = r.half
  BY DEF Reqs
<1>3. ToRemap(r, v) = q
  BY DEF ToRemap
<1> HIDE DEF q
<1> QED  BY <1>1, <1>2, <1>3

LEMMA ToRemapMoves ==
    ASSUME Typed, NEW c \in Clients, Shaped(req[c]), MayRun(c), req[c].pc \in GatePcs,
           NEW v \in Rows, Go(c, ToRemap(req[c], v))
    PROVE  Moves(c)
<1> DEFINE q == ToRemap(req[c], v)
<1>1. req[c] \in Reqs
  BY DEF Typed
<1>2. /\ q \in Reqs /\ q.pc = "remap" /\ q.kind = req[c].kind /\ q.t = req[c].t
      /\ q.p = req[c].p /\ q.key = req[c].key /\ q.copy = v /\ q.snap = req[c].snap
      /\ q.clear = req[c].clear
  BY <1>1, ToRemapFields
<1> HIDE DEF q
<1>3. Shaped(q)
  BY <1>2 DEF Shaped, GatePcs, Outside
<1> QED  BY <1>1, <1>2, <1>3, GoMoves DEF q

LEMMA FindPartialMoves ==
    ASSUME Typed, NEW c \in Clients, Shaped(req[c]), FindPartial(c)
    PROVE  Moves(c)
<1>1. req[c].pc \in {"partial", "resume"} /\ req[c].pc \in GatePcs /\ MayRun(c)
  BY DEF FindPartial, At, GatePcs
<1>2. \/ \E v \in Partial(req[c]) : Go(c, ToRemap(req[c], v))
      \/ Pass(c, FALSE) \/ Goto(c, "mark") \/ Goto(c, "copy")
  BY DEF FindPartial, ToRemap
<1>3. \A v \in Partial(req[c]) : v \in Rows
  BY DEF Partial, LiveVariants
<1> QED  BY <1>1, <1>2, <1>3, ToRemapMoves, GotoMoves, PassMoves DEF Follows

LEMMA CopyMoves ==
    ASSUME Typed, NEW c \in Clients, Shaped(req[c]), Copy(c), NewRow \subseteq Rows
    PROVE  Moves(c)
<1>1. req[c].pc = "copy" /\ req[c].pc \in GatePcs /\ MayRun(c)
  BY DEF Copy, At, GatePcs
<1>2. (\E v \in NewRow : Go(c, ToRemap(req[c], v))) \/ Answer(c)
  BY DEF Copy, ToRemap
<1> QED  BY <1>1, <1>2, ToRemapMoves, AnswerMoves

LEMMA RemapMoves ==
    ASSUME Typed, NEW c \in Clients, Shaped(req[c]), Remap(c)
    PROVE  Moves(c)
BY GotoMoves DEF Remap, At, Follows

LEMMA CompleteMoves ==
    ASSUME Typed, NEW c \in Clients, Shaped(req[c]), Complete(c)
    PROVE  Moves(c)
BY PassMoves DEF Complete, At, GatePcs

LEMMA ClearAlarmMoves ==
    ASSUME Typed, NEW c \in Clients, Shaped(req[c]), ClearAlarm(c)
    PROVE  Moves(c)
BY AnswerMoves DEF ClearAlarm, At

LEMMA EndMoves ==
    ASSUME Typed, NEW c \in Clients, Shaped(req[c]), MayRun(c), EndVariantWrite(c),
           req[c].pc \in {"insert", "save", "assertParent", "assertVariants"}
    PROVE  Moves(c)
BY GotoMoves, AnswerMoves DEF EndVariantWrite, Follows

LEMMA InsertMoves ==
    ASSUME Typed, NEW c \in Clients, Shaped(req[c]), Insert(c)
    PROVE  Moves(c)
BY EndMoves, AnswerMoves DEF Insert, At

LEMMA PutParentMoves ==
    ASSUME Typed, NEW c \in Clients, Shaped(req[c]), PutParent(c)
    PROVE  Moves(c)
BY GotoMoves, AnswerMoves DEF PutParent, At, Follows

LEMMA PutVariantsMoves ==
    ASSUME Typed, NEW c \in Clients, Shaped(req[c]), PutVariants(c)
    PROVE  Moves(c)
BY GotoMoves, AnswerMoves DEF PutVariants, At, Follows

\* A request that queues for a key.
Keyed(r, pc, k) == [r EXCEPT !.pc = pc, !.key = k]

LEMMA KeyedFields ==
    ASSUME NEW r \in Reqs, NEW pc \in Outside \cup Entries \cup Inside, NEW k \in Rows \cup {None}
    PROVE  /\ Keyed(r, pc, k) \in Reqs
           /\ Keyed(r, pc, k).pc = pc
           /\ Keyed(r, pc, k).key = k
           /\ Keyed(r, pc, k).snap = r.snap
           /\ Keyed(r, pc, k).kind = r.kind
           /\ Keyed(r, pc, k).t = r.t
           /\ Keyed(r, pc, k).p = r.p
           /\ Keyed(r, pc, k).spool = r.spool
           /\ Keyed(r, pc, k).clear = r.clear
           /\ Keyed(r, pc, k).copy = r.copy
           /\ Keyed(r, pc, k).half = r.half
<1> DEFINE q == [r EXCEPT !.pc = pc, !.key = k]
<1>1. q \in Reqs
  BY DEF Reqs
<1>2. /\ q.pc = pc /\ q.kind = r.kind /\ q.t = r.t /\ q.p = r.p /\ q.key = k
      /\ q.spool = r.spool /\ q.clear = r.clear /\ q.copy = r.copy /\ q.snap = r.snap
      /\ q.half = r.half
  BY DEF Reqs
<1>3. Keyed(r, pc, k) = q
  BY DEF Keyed
<1> HIDE DEF q
<1> QED  BY <1>1, <1>2, <1>3

LEMMA KeyedMoves ==
    ASSUME Typed, NEW c \in Clients, NEW pc \in Entries, NEW k \in Rows, MayRun(c),
           Shaped(Keyed(req[c], pc, k)), Enter(c, k, [req[c] EXCEPT !.pc = pc])
    PROVE  Moves(c)
<1>1. req[c] \in Reqs
  BY DEF Typed
<1> DEFINE q == Keyed(req[c], pc, k)
<1>2. q \in Reqs /\ q.kind = req[c].kind /\ q.key = k /\ q.pc = pc
  BY <1>1, KeyedFields
<1>3. req' = [req EXCEPT ![c] = q]
  BY DEF Enter, Keyed
<1>4. queue' = [Release(c) EXCEPT ![q.key] = Append(@, c)]
  BY <1>2 DEF Enter
<1> HIDE DEF q
<1>5. Shaped(q)
  BY DEF q
<1> QED  BY <1>2, <1>3, <1>4, <1>5 DEF Moves

LEMMA PutStoredMoves ==
    ASSUME Typed, NEW c \in Clients, Shaped(req[c]), PutStored(c)
    PROVE  Moves(c)
<1> DEFINE r == req[c]
<1>1. /\ r \in Reqs /\ r.pc = "putStored" /\ r.kind = "adopt" /\ MayRun(c)
      /\ r.t \in Rows /\ r.p \in Rows /\ r.p # r.t
  BY DEF PutStored, At, Typed, Shaped
<1>2. \/ Enter(c, r.t, [r EXCEPT !.pc = "strip"])
      \/ Enter(c, r.p, [r EXCEPT !.pc = "fetch"])
  BY DEF PutStored
<1>3. ASSUME NEW pc \in {"strip", "fetch"}, NEW k \in {r.t, r.p}, (pc = "strip") <=> (k = r.t)
      PROVE  Shaped(Keyed(r, pc, k)) /\ pc \in Entries
  <2>1. pc \in Entries /\ pc \in Outside \cup Entries \cup Inside
    BY DEF Entries
  <2> DEFINE q == Keyed(r, pc, k)
  <2>2. /\ q.pc = pc /\ q.kind = "adopt" /\ q.t = r.t /\ q.p = r.p /\ q.key = k
        /\ q.clear = r.clear
    BY <1>1, <2>1, KeyedFields
  <2> HIDE DEF q
  <2>3. Shaped(q)
    BY <1>1, <1>3, <2>2 DEF Shaped, GatePcs, Outside
  <2> QED  BY <2>1, <2>3 DEF q
<1> QED  BY <1>1, <1>2, <1>3, KeyedMoves

LEMMA StripMoves ==
    ASSUME Typed, NEW c \in Clients, Shaped(req[c]), Strip(c)
    PROVE  Moves(c)
<1> DEFINE r == req[c]
<1>1. /\ r \in Reqs /\ r.pc = "strip" /\ r.kind \in {"adopt", "detach", "paint"}
      /\ r.t \in Rows /\ r.key = r.t /\ MayRun(c)
  BY DEF Strip, At, Typed, Shaped
<1>2. PICK b \in BOOLEAN : Go(c, [r EXCEPT !.pc = "write", !.paint = b])
  <2>1. Go(c, [r EXCEPT !.pc = "write", !.paint = r.paint /\ ~HasVariants(r.t)])
    BY DEF Strip
  <2> QED  BY <2>1
<1> DEFINE q == [r EXCEPT !.pc = "write", !.paint = b]
<1>3. q \in Reqs
  BY <1>1 DEF Reqs, Inside
<1>4. q.pc = "write" /\ q.kind = r.kind /\ q.t = r.t /\ q.p = r.p /\ q.key = r.key
      /\ q.clear = r.clear
  BY <1>1 DEF Reqs
<1>5. Go(c, q)
  BY <1>2
<1> HIDE DEF q
<1>6. Shaped(q)
  BY <1>1, <1>4 DEF Shaped, GatePcs, Outside
<1> QED  BY <1>1, <1>3, <1>4, <1>5, <1>6, GoMoves

LEMMA WriteMoves ==
    ASSUME Typed, NEW c \in Clients, Shaped(req[c]), Write(c)
    PROVE  Moves(c)
<1> DEFINE r == req[c]
<1>1. /\ r \in Reqs /\ r.pc = "write" /\ r.kind \in {"adopt", "detach", "paint"}
      /\ r.t \in Rows /\ r.key = r.t /\ MayRun(c)
  BY DEF Write, At, Typed, Shaped
<1>2. \/ Answer(c)
      \/ r.kind = "adopt" /\ \E first \in {"assertParent", "assertVariants"} :
                                Leave(c, [r EXCEPT !.pc = first])
  BY DEF Write
<1>3. ASSUME r.kind = "adopt", NEW first \in {"assertParent", "assertVariants"},
             Leave(c, [r EXCEPT !.pc = first])
      PROVE  Moves(c)
  <2> DEFINE q == Keyed(r, first, None)
  <2>1. first \in Outside \cup Entries \cup Inside
    BY DEF Outside
  <2>2. /\ q \in Reqs /\ q.pc = first /\ q.kind = "adopt" /\ q.t = r.t /\ q.p = r.p
        /\ q.key = None /\ q.clear = r.clear
    BY <1>1, <1>3, <2>1, KeyedFields
  <2>3. req' = [req EXCEPT ![c] = q] /\ queue' = Release(c)
    BY <1>3 DEF Leave, Keyed
  <2> HIDE DEF q
  <2>4. Shaped(q)
    BY <1>1, <1>3, <2>2 DEF Shaped, GatePcs, Outside
  <2> QED  BY <1>1, <1>3, <2>2, <2>3, <2>4 DEF Moves
<1> QED  BY <1>1, <1>2, <1>3, AnswerMoves

LEMMA AssertMoves ==
    ASSUME Typed, NEW c \in Clients, Shaped(req[c]), AssertParent(c) \/ AssertVariants(c)
    PROVE  Moves(c)
<1> DEFINE r == req[c]
<1>1. /\ r \in Reqs /\ r.pc \in {"assertParent", "assertVariants"} /\ r.kind = "adopt"
      /\ r.t \in Rows /\ r.p \in Rows /\ r.p # r.t /\ r.key = None /\ MayRun(c)
  BY DEF AssertParent, AssertVariants, AssertOutcome, At, Typed, Shaped, Outside
<1>2. \/ Goto(c, "rollback") \/ EndVariantWrite(c)
      \/ \E other \in {"assertParent", "assertVariants"} :
            Go(c, [r EXCEPT !.pc = other, !.half = TRUE])
  BY DEF AssertParent, AssertVariants, AssertOutcome
<1>3. ASSUME NEW other \in {"assertParent", "assertVariants"},
             Go(c, [r EXCEPT !.pc = other, !.half = TRUE])
      PROVE  Moves(c)
  <2> DEFINE q == [r EXCEPT !.pc = other, !.half = TRUE]
  <2>1. other \in Outside \cup Entries \cup Inside
    BY DEF Outside
  <2>2. q \in Reqs
    <3> DEFINE q1 == [r EXCEPT !.pc = other]
    <3>1. q1 \in Reqs
      BY <1>1, <2>1 DEF Reqs
    <3> HIDE DEF q1
    <3>2. [q1 EXCEPT !.half = TRUE] \in Reqs
      BY <3>1 DEF Reqs
    <3> QED  BY <3>2 DEF q1
  <2>3. q.pc = other /\ q.kind = r.kind /\ q.t = r.t /\ q.p = r.p /\ q.key = r.key
    BY <1>1 DEF Reqs
  <2> HIDE DEF q
  <2>4. Shaped(q)
    BY <1>1, <2>3 DEF Shaped, GatePcs, Outside
  <2> QED  BY <1>1, <1>3, <2>2, <2>3, <2>4, GoMoves DEF q
<1> QED  BY <1>1, <1>2, <1>3, GotoMoves, EndMoves DEF Follows

LEMMA RollbackMoves ==
    ASSUME Typed, NEW c \in Clients, Shaped(req[c]), Rollback(c)
    PROVE  Moves(c)
BY AnswerMoves DEF Rollback, At

\* The other steps that read a snapshot or drop it.
CarryTo(r, pc) ==
    \/ r.pc = "trashRead" /\ pc = "trashSlots"
    \/ r.pc = "trashSlots" /\ pc = "trashWrite"
    \/ r.pc = "purgeRead" /\ pc = "purgeCheck"
    \/ r.pc = "purgeSlots" /\ pc = "purgeWrite"
    \/ r.pc = "reviveGate" /\ pc = "reviveCheck"
    \/ r.pc = "reviveCheck" /\ pc = "reviveWrite"

LEMMA CarryMoves ==
    ASSUME Typed, NEW c \in Clients, NEW pc, NEW snap \in Doc \cup {NoDoc}, MayRun(c),
           Shaped(req[c]), CarryTo(req[c], pc), Go(c, Carry(req[c], pc, snap))
    PROVE  Moves(c)
<1> DEFINE r == req[c]
           q == Carry(req[c], pc, snap)
<1>1. r \in Reqs /\ pc \in Outside \cup Entries \cup Inside
  BY DEF Typed, CarryTo, Outside, Inside
<1>2. /\ q \in Reqs /\ q.pc = pc /\ q.kind = r.kind /\ q.t = r.t /\ q.p = r.p
      /\ q.key = r.key /\ q.snap = snap /\ q.clear = r.clear
  BY <1>1, CarryFields
<1> HIDE DEF q
<1>3. Shaped(q)
  BY <1>2 DEF CarryTo, Shaped, GatePcs, Outside
<1> QED  BY <1>1, <1>2, <1>3, GoMoves DEF q

LEMMA DeleteMoves ==
    ASSUME Typed, NEW c \in Clients, Shaped(req[c]), DeleteStep(c)
    PROVE  Moves(c)
<1> DEFINE r == req[c]
<1>1. r \in Reqs /\ doc \in [Rows -> Doc \cup {NoDoc}]
  BY DEF Typed
<1>2. CASE TrashCheck(c)
  BY <1>2, GotoMoves, AnswerMoves DEF TrashCheck, At, Follows
<1>3. CASE TrashRead(c)
  <2>1. r.pc = "trashRead" /\ MayRun(c) /\ doc[r.t] \in Doc \cup {NoDoc}
    BY <1>1, <1>3 DEF TrashRead, At, Shaped
  <2>2. Go(c, Carry(r, "trashSlots", doc[r.t])) \/ Answer(c)
    BY <1>3 DEF TrashRead, Carry
  <2> QED  BY <2>1, <2>2, CarryMoves, AnswerMoves DEF CarryTo
<1>4. ASSUME NEW from, NEW to, ClearSlots(c, from, to), CarryTo(r, to), r.pc = from
      PROVE  Moves(c)
  <2>1. MayRun(c) /\ Go(c, Carry(r, to, NoDoc))
    BY <1>4 DEF ClearSlots, At, Carry
  <2> QED  BY <1>4, <2>1, CarryMoves
<1>5. CASE TrashWrite(c)
  BY <1>5, AnswerMoves DEF TrashWrite, At
<1>6. CASE PurgeRead(c)
  <2>1. r.pc = "purgeRead" /\ MayRun(c) /\ doc[r.t] \in Doc \cup {NoDoc}
    BY <1>1, <1>6 DEF PurgeRead, At, Shaped
  <2>2. Go(c, Carry(r, "purgeCheck", doc[r.t])) \/ Answer(c)
    BY <1>6 DEF PurgeRead, Carry
  <2> QED  BY <2>1, <2>2, CarryMoves, AnswerMoves DEF CarryTo
<1>7. CASE PurgeCheck(c)
  BY <1>7, GotoMoves, AnswerMoves DEF PurgeCheck, At, Follows
<1>8. CASE PurgeWrite(c)
  BY <1>8, AnswerMoves DEF PurgeWrite, At
<1>9. CASE ClearSlots(c, "trashSlots", "trashWrite")
  BY <1>4, <1>9 DEF ClearSlots, At, CarryTo
<1>10. CASE ClearSlots(c, "purgeSlots", "purgeWrite")
  BY <1>4, <1>10 DEF ClearSlots, At, CarryTo
<1> QED  BY <1>2, <1>3, <1>5, <1>6, <1>7, <1>8, <1>9, <1>10 DEF DeleteStep

LEMMA RestoreMoves ==
    ASSUME Typed, NEW c \in Clients, Shaped(req[c]), RestoreStep(c),
           \A f \in Rows : doc[f] = NoDoc \/ doc[f].parent \in Rows \cup {None}
    PROVE  Moves(c)
<1> DEFINE r == req[c]
<1>1. r \in Reqs
  BY DEF Typed
<1>2. CASE RestoreRead(c)
  <2>1. /\ r.pc = "restoreRead" /\ r.kind = "restore" /\ r.p = None /\ r.key = None
        /\ r.t \in Rows /\ MayRun(c)
    BY <1>2 DEF RestoreRead, At, Shaped, Outside
  <2> DEFINE p == doc[r.t].parent
             q == [r EXCEPT !.p = p, !.pc = "restoreParent"]
  <2>2. Answer(c) \/ Goto(c, "save") \/ (p \in Rows /\ Go(c, q))
    BY <1>2, <2>1 DEF RestoreRead, InTrash, IsDoc
  <2>3. ASSUME p \in Rows, Go(c, q)
        PROVE  Moves(c)
    <3> HIDE DEF p
    <3>1. q \in Reqs
      BY <1>1, <2>3 DEF Reqs, Outside
    <3>2. q.pc = "restoreParent" /\ q.kind = "restore" /\ q.t = r.t /\ q.p = p /\ q.key = None
      BY <1>1, <2>1 DEF Reqs
    <3> HIDE DEF q
    <3>3. Shaped(q)
      BY <2>1, <2>3, <3>2 DEF Shaped, GatePcs, Outside
    <3> QED  BY <2>1, <2>3, <3>1, <3>2, <3>3, GoMoves
  <2> QED  BY <2>1, <2>2, <2>3, GotoMoves, AnswerMoves DEF Follows
<1>3. CASE RestoreParent(c)
  <2>1. /\ r.pc = "restoreParent" /\ r.kind = "restore" /\ r.p \in Rows /\ r.t \in Rows
        /\ MayRun(c)
    BY <1>3 DEF RestoreParent, At, Shaped
  <2>2. Enter(c, r.p, [r EXCEPT !.pc = "fetch"]) \/ Answer(c)
    BY <1>3 DEF RestoreParent
  <2> DEFINE q == Keyed(r, "fetch", r.p)
  <2>3. "fetch" \in Entries /\ "fetch" \in Outside \cup Entries \cup Inside
    BY DEF Entries
  <2>4. /\ q.pc = "fetch" /\ q.kind = "restore" /\ q.t = r.t /\ q.p = r.p /\ q.key = r.p
    BY <1>1, <2>1, <2>3, KeyedFields
  <2> HIDE DEF q
  <2>5. Shaped(q)
    BY <2>1, <2>4 DEF Shaped, GatePcs, Outside
  <2> QED  BY <2>1, <2>2, <2>3, <2>5, KeyedMoves, AnswerMoves DEF q
<1>4. CASE Save(c)
  BY <1>4, EndMoves DEF Save, At
<1> QED  BY <1>2, <1>3, <1>4 DEF RestoreStep

LEMMA ReviveMoves ==
    ASSUME Typed, NEW c \in Clients, Shaped(req[c]), ReviveStep(c),
           \A f \in Rows : doc[f] = NoDoc \/ doc[f].parent \in Rows \cup {None}
    PROVE  Moves(c)
<1> DEFINE r == req[c]
<1>1. r \in Reqs /\ doc \in [Rows -> Doc \cup {NoDoc}]
  BY DEF Typed
<1>2. CASE ReviveRead(c)
  <2>1. /\ r.pc = "reviveRead" /\ r.kind = "revive" /\ r.key = None
        /\ r.t \in Rows /\ MayRun(c)
    BY <1>2 DEF ReviveRead, At, Shaped, Outside
  <2> DEFINE p == doc[r.t].parent
             q0 == [r EXCEPT !.p = p, !.pc = "reviveGate"]
             q == [q0 EXCEPT !.key = p]
  <2>2. Answer(c) \/ Goto(c, "reviveWrite") \/ (p \in Rows /\ Enter(c, p, q0))
    BY <1>2, <2>1 DEF ReviveRead, InTrash, IsDoc
  <2>3. ASSUME p \in Rows, Enter(c, p, q0)
        PROVE  Moves(c)
    <3> HIDE DEF p
    <3>1. q0 \in Reqs /\ q0.pc = "reviveGate" /\ q0.kind = "revive"
      BY <1>1, <2>1, <2>3 DEF Reqs, Entries
    <3>2. q \in Reqs
      BY <1>1, <2>3 DEF Reqs, Entries
    <3>3. q.pc = "reviveGate" /\ q.kind = "revive" /\ q.t = r.t /\ q.p = p /\ q.key = p
      BY <1>1, <2>1 DEF Reqs
    <3> DEFINE w == q
    <3>4. w = q
      OBVIOUS
    <3> HIDE DEF w
    <3>5. Shaped(w)
      BY <2>1, <2>3, <3>3, <3>4 DEF Shaped, GatePcs, Outside
    <3>6. Shaped(q)
      BY <3>4, <3>5
    <3>7. q0.pc \in Entries
      BY <3>1 DEF Entries
    <3> HIDE DEF q0
    <3> QED  BY <2>1, <2>3, <3>1, <3>2, <3>6, <3>7, EnterMoves
  <2> QED  BY <2>1, <2>2, <2>3, GotoMoves, AnswerMoves DEF Follows
<1>3. CASE ReviveGate(c)
  <2>1. r.pc = "reviveGate" /\ MayRun(c) /\ doc[r.p] \in Doc \cup {NoDoc}
    BY <1>1, <1>3 DEF ReviveGate, At, Shaped
  <2>2. Go(c, Carry(r, "reviveCheck", doc[r.p])) \/ Goto(c, "reviveWrite")
    BY <1>3 DEF ReviveGate, Carry
  <2> QED  BY <2>1, <2>2, CarryMoves, GotoMoves DEF CarryTo, Follows
<1>4. CASE ReviveCheck(c)
  <2> DEFINE q == [Carry(r, "reviveWrite", NoDoc) EXCEPT !.clear = TRUE]
  <2>1. r.pc = "reviveCheck" /\ MayRun(c) /\ r.p \in Rows /\ r.t \in Rows /\ r.kind = "revive"
    BY <1>4 DEF ReviveCheck, At, Shaped
  <2>2. Go(c, Carry(r, "reviveWrite", NoDoc)) \/ Go(c, q) \/ Answer(c)
    BY <1>4 DEF ReviveCheck, Carry
  <2>3. ASSUME Go(c, q)
        PROVE  Moves(c)
    <3> DEFINE w == Carry(r, "reviveWrite", NoDoc)
    <3>1. "reviveWrite" \in Outside \cup Entries \cup Inside
      BY DEF Inside
    <3>2. /\ w \in Reqs /\ w.pc = "reviveWrite" /\ w.kind = "revive" /\ w.t = r.t
          /\ w.p = r.p /\ w.key = r.key
      BY <1>1, <2>1, <3>1, CarryFields
    <3> HIDE DEF w
    <3> DEFINE u == [w EXCEPT !.clear = TRUE]
    <3>3. u \in Reqs
      BY <3>2 DEF Reqs
    <3>4. /\ u.pc = "reviveWrite" /\ u.kind = "revive" /\ u.t = r.t
          /\ u.p = r.p /\ u.key = r.key
      BY <3>2 DEF Reqs
    <3>5. Go(c, u)
      BY <2>3 DEF w
    <3> HIDE DEF u
    <3>6. Shaped(u)
      BY <2>1, <3>4 DEF Shaped, GatePcs, Outside
    <3> QED  BY <2>1, <3>3, <3>4, <3>5, <3>6, GoMoves
  <2> QED  BY <2>1, <2>2, <2>3, CarryMoves, AnswerMoves DEF CarryTo
<1>5. CASE ReviveWrite(c)
  BY <1>5, GotoMoves, AnswerMoves DEF ReviveWrite, At, Follows
<1>6. CASE ReviveAlarm(c)
  BY <1>6, GotoMoves, AnswerMoves DEF ReviveAlarm, At, Follows
<1> QED  BY <1>2, <1>3, <1>4, <1>5, <1>6 DEF ReviveStep

LEMMA SpoolMoves ==
    ASSUME Typed, NEW c \in Clients, Shaped(req[c]), SpoolStep(c)
    PROVE  Moves(c)
<1>1. CASE PushCheck(c)
  BY <1>1, GotoMoves, AnswerMoves DEF PushCheck, At, Follows
<1>2. CASE Push(c)
  BY <1>2, GotoMoves, AnswerMoves DEF Push, At, Follows
<1>3. CASE PushAgain(c)
  BY <1>3, GotoMoves, AnswerMoves DEF PushAgain, At, Follows
<1>4. CASE Pull(c)
  BY <1>4, AnswerMoves DEF Pull, At
<1>5. CASE DropCheck(c)
  BY <1>5, GotoMoves, AnswerMoves DEF DropCheck, At, Follows
<1>6. CASE DropSlots(c)
  BY <1>6, GotoMoves DEF DropSlots, At, Follows
<1>7. CASE Drop(c)
  BY <1>7, GotoMoves, AnswerMoves DEF Drop, At, Follows
<1>8. CASE DropSlotsAgain(c)
  BY <1>8, AnswerMoves DEF DropSlotsAgain, At
<1> QED  BY <1>1, <1>2, <1>3, <1>4, <1>5, <1>6, <1>7, <1>8 DEF SpoolStep

-----------------------------------------------------------------------------
(* A token that nothing carries: there are more tokens than places for one. *)

LEMMA ImageBound ==
    ASSUME NEW S, IsFiniteSet(S), NEW T, NEW f \in [S -> T]
    PROVE  /\ IsFiniteSet({f[x] : x \in S})
           /\ Cardinality({f[x] : x \in S}) \in Nat
           /\ Cardinality({f[x] : x \in S}) <= Cardinality(S)
<1>1. f \in Surjection(S, {f[x] : x \in S})
  BY DEF Surjection
<1> QED  BY <1>1, FS_Surjection, FS_CardinalityType

LEMMA UnionBound ==
    ASSUME NEW S, NEW T, IsFiniteSet(S), IsFiniteSet(T)
    PROVE  /\ IsFiniteSet(S \cup T)
           /\ Cardinality(S \cup T) <= Cardinality(S) + Cardinality(T)
           /\ Cardinality(S \cup T) \in Nat /\ Cardinality(S) \in Nat /\ Cardinality(T) \in Nat
<1>1. IsFiniteSet(S \cap T)
  BY FS_Subset
<1>2. Cardinality(S \cap T) \in Nat /\ Cardinality(S) \in Nat /\ Cardinality(T) \in Nat
  BY <1>1, FS_CardinalityType
<1>3. IsFiniteSet(S \cup T) /\ Cardinality(S \cup T) \in Nat
  BY FS_Union, FS_CardinalityType
<1>4. Cardinality(S \cup T) = Cardinality(S) + Cardinality(T) - Cardinality(S \cap T)
  BY FS_Union
<1> QED  BY <1>2, <1>3, <1>4

LEMMA TokenLeft ==
    ASSUME Typed
    PROVE  \E x \in Tokens : x \notin UsedTokens
<1> DEFINE m1 == [f \in Rows |-> IF doc[f] = NoDoc THEN 0 ELSE doc[f].marker]
           m2 == [f \in Rows |-> IF doc[f] = NoDoc THEN 0 ELSE doc[f].by]
           m3 == [c \in Clients |-> IF req[c].snap = NoDoc THEN 0 ELSE req[c].snap.marker]
           m4 == [c \in Clients |-> IF req[c].snap = NoDoc THEN 0 ELSE req[c].snap.by]
           R == Cardinality(Rows)
           C == Cardinality(Clients)
<1>1. IsFiniteSet(Rows) /\ IsFiniteSet(Clients) /\ R \in Nat /\ C \in Nat
  BY FamiliesAssumption, FS_CardinalityType
<1>2. /\ \A f \in Rows : doc[f] \in Doc \cup {NoDoc}
      /\ \A c \in Clients : req[c].snap \in Doc \cup {NoDoc}
  BY DEF Typed, Reqs
<1>3. m1 \in [Rows -> Tokens \cup {0}] /\ m2 \in [Rows -> Tokens \cup {0}]
  BY <1>2 DEF Doc
<1>4. m3 \in [Clients -> Tokens \cup {0}] /\ m4 \in [Clients -> Tokens \cup {0}]
  BY <1>2 DEF Doc
<1> DEFINE M1 == {m1[f] : f \in Rows}
           M2 == {m2[f] : f \in Rows}
           M3 == {m3[c] : c \in Clients}
           M4 == {m4[c] : c \in Clients}
<1>5. UsedTokens \subseteq (M1 \cup M2) \cup (M3 \cup M4)
  <2>1. ASSUME NEW d \in {doc[f] : f \in Rows} \ {NoDoc}
        PROVE  d.marker \in M1 /\ d.by \in M2
    <3>1. PICK f \in Rows : d = doc[f]
      BY <2>1
    <3>2. m1[f] = d.marker /\ m2[f] = d.by
      BY <2>1, <3>1
    <3> QED  BY <3>2
  <2>2. ASSUME NEW d \in {req[c].snap : c \in Clients} \ {NoDoc}
        PROVE  d.marker \in M3 /\ d.by \in M4
    <3>1. PICK c \in Clients : d = req[c].snap
      BY <2>2
    <3>2. m3[c] = d.marker /\ m4[c] = d.by
      BY <2>2, <3>1
    <3> QED  BY <3>2
  <2> HIDE DEF M1, M2, M3, M4
  <2> QED  BY <2>1, <2>2 DEF UsedTokens
<1> HIDE DEF m1, m2, m3, m4
<1>6. /\ IsFiniteSet(M1) /\ Cardinality(M1) <= R
      /\ IsFiniteSet(M2) /\ Cardinality(M2) <= R
  BY <1>1, <1>3, ImageBound
<1>7. /\ IsFiniteSet(M3) /\ Cardinality(M3) <= C
      /\ IsFiniteSet(M4) /\ Cardinality(M4) <= C
  BY <1>1, <1>4, ImageBound
<1> HIDE DEF M1, M2, M3, M4
<1>8. IsFiniteSet(M1 \cup M2) /\ Cardinality(M1 \cup M2) <= 2 * R
  <2>1. /\ Cardinality(M1 \cup M2) <= Cardinality(M1) + Cardinality(M2)
        /\ Cardinality(M1 \cup M2) \in Nat /\ Cardinality(M1) \in Nat /\ Cardinality(M2) \in Nat
        /\ IsFiniteSet(M1 \cup M2)
    BY <1>6, UnionBound
  <2> HIDE DEF R
  <2> QED  BY <1>1, <1>6, <2>1
<1>9. IsFiniteSet(M3 \cup M4) /\ Cardinality(M3 \cup M4) <= 2 * C
  <2>1. /\ Cardinality(M3 \cup M4) <= Cardinality(M3) + Cardinality(M4)
        /\ Cardinality(M3 \cup M4) \in Nat /\ Cardinality(M3) \in Nat /\ Cardinality(M4) \in Nat
        /\ IsFiniteSet(M3 \cup M4)
    BY <1>7, UnionBound
  <2> HIDE DEF C
  <2> QED  BY <1>1, <1>7, <2>1
<1> DEFINE U == (M1 \cup M2) \cup (M3 \cup M4)
<1>10. IsFiniteSet(U) /\ Cardinality(U) \in Nat /\ Cardinality(U) <= 2 * (R + C)
  <2>1. /\ Cardinality(U) <= Cardinality(M1 \cup M2) + Cardinality(M3 \cup M4)
        /\ Cardinality(U) \in Nat /\ Cardinality(M1 \cup M2) \in Nat
        /\ Cardinality(M3 \cup M4) \in Nat /\ IsFiniteSet(U)
    BY <1>8, <1>9, UnionBound
  <2> HIDE DEF R, C, U
  <2> QED  BY <1>1, <1>8, <1>9, <2>1
<1> HIDE DEF U
<1>11. SUFFICES ASSUME Tokens \subseteq UsedTokens PROVE FALSE
  OBVIOUS
<1>12. Tokens \subseteq U
  BY <1>5, <1>11 DEF U
<1>13. Cardinality(Tokens) <= Cardinality(U)
  BY <1>10, <1>12, FS_Subset
<1>14. Cardinality(Tokens) = 2 * (R + C) + 1
  <2> DEFINE n == 2 * (R + C) + 1
  <2>1. n \in Int /\ n >= 1 /\ Tokens = 1..n
    BY <1>1 DEF Tokens
  <2> HIDE DEF n
  <2>2. Cardinality(1..n) = n - 1 + 1
    BY <2>1, FS_Interval
  <2>3. Cardinality(Tokens) = n
    BY <2>1, <2>2
  <2> QED  BY <2>3 DEF n
<1> HIDE DEF R, C
<1> QED  BY <1>1, <1>10, <1>13, <1>14

Token == CHOOSE x \in Tokens : x \notin UsedTokens

LEMMA TokenFresh ==
    ASSUME Typed
    PROVE  Token \in Tokens /\ Token \notin UsedTokens /\ Token # 0
<1>1. \E x \in Tokens : x \notin UsedTokens
  BY TokenLeft
<1>2. Token \in Tokens /\ Token \notin UsedTokens
  BY <1>1 DEF Token
<1>3. 0 \notin Tokens
  BY FamiliesAssumption, FS_CardinalityType DEF Tokens
<1> QED  BY <1>2, <1>3

\* The request wrote a new token and makes the copy next.
ToCopy(r, token) == [r EXCEPT !.pc = "copy", !.snap.marker = token]

LEMMA ToCopyFields ==
    ASSUME NEW r \in Reqs, r.snap \in Doc, NEW token \in Tokens
    PROVE  /\ ToCopy(r, token) \in Reqs
           /\ ToCopy(r, token).pc = "copy"
           /\ ToCopy(r, token).snap = [r.snap EXCEPT !.marker = token]
           /\ ToCopy(r, token).snap \in Doc
           /\ ToCopy(r, token).kind = r.kind
           /\ ToCopy(r, token).t = r.t
           /\ ToCopy(r, token).p = r.p
           /\ ToCopy(r, token).key = r.key
           /\ ToCopy(r, token).spool = r.spool
           /\ ToCopy(r, token).clear = r.clear
           /\ ToCopy(r, token).half = r.half
           /\ ToCopy(r, token).copy = r.copy
<1>1. PICK snap \in Doc : snap = [r.snap EXCEPT !.marker = token]
  BY DEF Doc
<1> DEFINE q == [r EXCEPT !.pc = "copy", !.snap = snap]
<1>2. q \in Reqs
  BY DEF Reqs, Inside
<1>3. /\ q.pc = "copy" /\ q.kind = r.kind /\ q.t = r.t /\ q.p = r.p /\ q.key = r.key
      /\ q.spool = r.spool /\ q.clear = r.clear /\ q.copy = r.copy /\ q.snap = snap
      /\ q.half = r.half
  BY DEF Reqs
<1>4. ToCopy(r, token) = q
  BY <1>1 DEF ToCopy, Reqs
<1> HIDE DEF q
<1> QED  BY <1>1, <1>2, <1>3, <1>4

LEMMA ToCopyMoves ==
    ASSUME Typed, NEW c \in Clients, Shaped(req[c]), MayRun(c), req[c].pc = "mark",
           NEW token \in Tokens, Go(c, ToCopy(req[c], token))
    PROVE  Moves(c)
<1> DEFINE r == req[c]
           q == ToCopy(req[c], token)
<1>1. /\ r \in Reqs /\ r.snap \in Doc
      /\ r.kind \in {"create", "adopt", "restore", "promote"} /\ r.p \in Rows /\ r.key = r.p
  BY DEF Typed, Shaped, GatePcs, Reqs
<1>2. /\ q \in Reqs /\ q.pc = "copy" /\ q.kind = r.kind /\ q.t = r.t /\ q.p = r.p
      /\ q.key = r.key /\ q.snap # NoDoc /\ q.clear = r.clear
  <2>1. /\ q \in Reqs /\ q.pc = "copy" /\ q.kind = r.kind /\ q.t = r.t /\ q.p = r.p
        /\ q.key = r.key /\ q.snap \in Doc /\ q.clear = r.clear
    BY <1>1, ToCopyFields
  <2> QED  BY <2>1, FamiliesAssumption
<1> HIDE DEF q
<1>3. Shaped(q)
  BY <1>1, <1>2 DEF Shaped, GatePcs, Outside
<1> QED  BY <1>1, <1>2, <1>3, GoMoves DEF q

LEMMA MarkingMoves ==
    ASSUME Typed, NEW c \in Clients, Shaped(req[c]), Mark(c)
    PROVE  Moves(c)
<1>1. req[c].pc = "mark" /\ MayRun(c) /\ Go(c, ToCopy(req[c], Token))
  BY DEF Mark, At, ToCopy, Token
<1> QED  BY <1>1, TokenFresh, ToCopyMoves

\* A request as it is sent.
Asks(q, kind, t, p, s, pc) ==
    /\ q \in Reqs
    /\ q.pc = pc /\ q.kind = kind /\ q.t = t /\ q.p = p /\ q.spool = s /\ q.key = None
    /\ q.snap = NoDoc /\ q.copy = None /\ q.clear = FALSE /\ q.half = FALSE

LEMMA RequestFields ==
    ASSUME NEW kind \in AllKinds, NEW t \in Rows \cup {None}, NEW p \in Rows \cup {None},
           NEW s \in Spools \cup {None}, NEW ok \in BOOLEAN, NEW paint \in BOOLEAN,
           NEW pc \in Outside \cup Entries \cup Inside
    PROVE  Asks(Request(kind, t, p, s, ok, paint, pc), kind, t, p, s, pc)
<1>1. Idle \in Reqs /\ Idle.key = None /\ Idle.snap = NoDoc /\ Idle.copy = None
      /\ Idle.clear = FALSE /\ Idle.half = FALSE
  BY IdleShape DEF Idle
<1> DEFINE q0 == [Idle EXCEPT !.kind = kind, !.t = t, !.p = p, !.spool = s]
           q == [Idle EXCEPT !.kind = kind, !.t = t, !.p = p, !.spool = s, !.ok = ok,
                             !.paint = paint, !.pc = pc]
<1>0. q0 \in Reqs
  <2> DEFINE q2 == [Idle EXCEPT !.kind = kind, !.t = t]
  <2>1. q2 \in Reqs
    BY <1>1 DEF Reqs
  <2> HIDE DEF q2
  <2>2. [q2 EXCEPT !.p = p, !.spool = s] \in Reqs
    BY <2>1 DEF Reqs
  <2> QED  BY <2>2 DEF q2
<1>2. q \in Reqs
  <2> HIDE DEF q0
  <2> DEFINE q1 == [q0 EXCEPT !.ok = ok, !.paint = paint]
  <2>1. q1 \in Reqs
    BY <1>0 DEF Reqs
  <2> HIDE DEF q1
  <2>2. [q1 EXCEPT !.pc = pc] \in Reqs
    BY <2>1 DEF Reqs
  <2> QED  BY <2>2 DEF q0, q1
<1>3. /\ q.pc = pc /\ q.kind = kind /\ q.t = t /\ q.p = p /\ q.spool = s
      /\ q.key = None /\ q.snap = NoDoc /\ q.copy = None /\ q.clear = FALSE /\ q.half = FALSE
  BY <1>1 DEF Reqs
<1>4. Request(kind, t, p, s, ok, paint, pc) = q
  BY DEF Request
<1> HIDE DEF q
<1>5. Asks(q, kind, t, p, s, pc)
  BY <1>2, <1>3 DEF Asks
<1> QED  BY <1>4, <1>5

\* A request is sent: it is queued for its key or goes on without one.
LEMMA EnterRequest ==
    ASSUME Typed, NEW c \in Clients, NEW k \in Rows, NEW r \in Reqs, MayRun(c),
           req[c].pc = "idle", r.pc \in Entries, Enter(c, k, r),
           \A q \in Reqs : (/\ q.pc = r.pc /\ q.kind = r.kind /\ q.t = r.t /\ q.p = r.p
                            /\ q.key = k /\ q.spool = r.spool /\ q.clear = r.clear)
                           => Shaped(q)
    PROVE  Moves(c)
<1> DEFINE q == [r EXCEPT !.key = k]
<1>1. q \in Reqs
  BY DEF Reqs
<1>2. /\ q.pc = r.pc /\ q.kind = r.kind /\ q.t = r.t /\ q.p = r.p
      /\ q.key = k /\ q.spool = r.spool /\ q.clear = r.clear
  BY DEF Reqs
<1>3. Shaped(q)
  <2> HIDE DEF q
  <2> QED  BY <1>1, <1>2
<1> QED  BY <1>1, <1>3, EnterMoves

LEMMA SubmitMoves ==
    ASSUME Typed, NEW c \in Clients, Shaped(req[c]), Submit(c)
    PROVE  Moves(c)
<1>1. req[c].pc = "idle" /\ req[c] = Idle /\ req[c].key = None /\ MayRun(c)
  BY DEF Submit, Shaped, MayRun, Idle
<1>2. PICK kind \in AllKinds, t \in Rows :
        LET r(p, s, ok, paint, pc) == Request(kind, t, p, s, ok, paint, pc) IN
        \/ /\ kind = "create"
           /\ \E ok \in BOOLEAN, paint \in Colors :
                 Enter(c, t, Request(kind, None, t, None, ok, paint, "fetch"))
        \/ /\ kind = "adopt"
           /\ \E p \in {f \in Rows \ {t} : IsDoc(f)}, ok \in BOOLEAN, paint \in Colors :
                 Go(c, r(p, None, ok, paint, "putParent"))
        \/ kind = "detach" /\ Enter(c, t, r(None, None, FALSE, FALSE, "strip"))
        \/ kind = "paint"  /\ Enter(c, t, r(None, None, FALSE, TRUE, "strip"))
        \/ kind = "promote" /\ Enter(c, t, Request(kind, None, t, None, TRUE, FALSE, "fetch"))
        \/ kind = "trash"  /\ Enter(c, t, r(None, None, FALSE, FALSE, "trashCheck"))
        \/ kind = "purge"  /\ Go(c, r(None, None, FALSE, FALSE, "purgeRead"))
        \/ kind = "restore" /\ Go(c, r(None, None, FALSE, FALSE, "restoreRead"))
        \/ kind = "revive" /\ Go(c, r(None, None, FALSE, FALSE, "reviveRead"))
        \/ /\ kind = "addSpool"
           /\ \E s \in Spools \ UsedSpools :
                 Enter(c, t, r(None, s, FALSE, FALSE, "pushCheck"))
        \/ /\ kind = "removeSpool"
           /\ \E s \in Spools : Enter(c, t, r(None, s, FALSE, FALSE, "dropCheck"))
  <2>1. play.kinds[c] \subseteq AllKinds
    BY DEF Typed, Play
  <2> QED  BY <2>1 DEF Submit
<1>3. Colors \subseteq BOOLEAN
  BY DEF Colors
<1>4. ASSUME NEW t1 \in Rows \cup {None}, NEW p \in Rows \cup {None},
             NEW s \in Spools \cup {None}, NEW ok \in BOOLEAN, NEW paint \in BOOLEAN,
             NEW pc \in Entries, Enter(c, t, Request(kind, t1, p, s, ok, paint, pc)),
             \/ kind \in {"create", "promote"} /\ pc = "fetch" /\ t1 = None /\ p = t
             \/ kind \in {"detach", "paint"} /\ pc = "strip" /\ t1 = t
             \/ kind = "trash" /\ pc = "trashCheck" /\ t1 = t
             \/ kind = "addSpool" /\ pc = "pushCheck" /\ t1 = t /\ s \in Spools
             \/ kind = "removeSpool" /\ pc = "dropCheck" /\ t1 = t /\ s \in Spools
      PROVE  Moves(c)
  <2> DEFINE r == Request(kind, t1, p, s, ok, paint, pc)
  <2>1. /\ r \in Reqs /\ r.pc = pc /\ r.kind = kind /\ r.t = t1 /\ r.p = p /\ r.spool = s
        /\ r.clear = FALSE
    <3>1. /\ pc \in Outside \cup Entries \cup Inside /\ None \in Spools \cup {None}
          /\ kind \in AllKinds /\ t \in Rows \cup {None}
      BY <1>2
    <3>2. Asks(r, kind, t1, p, s, pc)
      BY <3>1, RequestFields
    <3> HIDE DEF r
    <3> QED  BY <3>2 DEF Asks
  <2> HIDE DEF r
  <2>2. \A q \in Reqs : (/\ q.pc = r.pc /\ q.kind = r.kind /\ q.t = r.t /\ q.p = r.p
                         /\ q.key = t /\ q.spool = r.spool /\ q.clear = r.clear)
                        => Shaped(q)
    BY <1>4, <2>1 DEF Shaped, GatePcs, Outside
  <2> QED  BY <1>1, <1>4, <2>1, <2>2, EnterRequest DEF r
<1>5. ASSUME NEW p \in Rows \cup {None}, NEW ok \in BOOLEAN, NEW paint \in BOOLEAN,
             NEW pc \in Outside, Go(c, Request(kind, t, p, None, ok, paint, pc)),
             \/ kind = "adopt" /\ pc = "putParent" /\ p \in Rows \ {t}
             \/ kind = "purge" /\ pc = "purgeRead"
             \/ kind = "restore" /\ pc = "restoreRead" /\ p = None
             \/ kind = "revive" /\ pc = "reviveRead"
      PROVE  Moves(c)
  <2> DEFINE r == Request(kind, t, p, None, ok, paint, pc)
  <2>1. /\ r \in Reqs /\ r.pc = pc /\ r.kind = kind /\ r.t = t /\ r.p = p /\ r.key = None
        /\ r.clear = FALSE
    <3>1. /\ pc \in Outside \cup Entries \cup Inside /\ None \in Spools \cup {None}
          /\ kind \in AllKinds /\ t \in Rows \cup {None}
      BY <1>2
    <3>2. Asks(r, kind, t, p, None, pc)
      BY <3>1, RequestFields
    <3> HIDE DEF r
    <3> QED  BY <3>2 DEF Asks
  <2> HIDE DEF r
  <2>2. Shaped(r)
    BY <1>5, <2>1 DEF Shaped, GatePcs, Outside
  <2> QED  BY <1>1, <1>5, <2>1, <2>2, GoMoves DEF r
<1>6. /\ {"fetch", "strip", "trashCheck", "pushCheck", "dropCheck"} \subseteq Entries
      /\ {"putParent", "purgeRead", "restoreRead", "reviveRead"} \subseteq Outside
  BY DEF Entries, Outside
<1> QED  BY <1>2, <1>3, <1>4, <1>5, <1>6

LEMMA StepMoves ==
    ASSUME Typed, NEW c \in Clients, Shaped(req[c]), Submit(c) \/ Step(c) \/ Fail(c)
    PROVE  Moves(c)
<1>1. \A f \in Rows : doc[f] = NoDoc \/ doc[f].parent \in Rows \cup {None}
  BY DEF Typed, Doc
<1>2. NewRow \subseteq Rows
  BY DEF NewRow, Typed, Play
<1>3. CASE Submit(c)
  BY <1>3, SubmitMoves
<1>4. CASE GateStep(c)
  BY <1>2, <1>4, FetchMoves, UnmarkMoves, GateMoves, TargetAliveMoves, FindPartialMoves,
     MarkingMoves, CopyMoves, RemapMoves, CompleteMoves, ClearAlarmMoves DEF GateStep
<1>5. CASE PutStep(c)
  BY <1>5, PutParentMoves, PutVariantsMoves, PutStoredMoves, StripMoves, WriteMoves,
     AssertMoves, RollbackMoves DEF PutStep
<1>6. CASE Insert(c) \/ DeleteStep(c) \/ RestoreStep(c) \/ ReviveStep(c) \/ SpoolStep(c)
  BY <1>1, <1>6, InsertMoves, DeleteMoves, RestoreMoves, ReviveMoves, SpoolMoves
<1>7. CASE Fail(c)
  BY <1>7, AnswerMoves DEF Fail
<1> QED  BY <1>3, <1>4, <1>5, <1>6, <1>7 DEF Step

-----------------------------------------------------------------------------
(* What a move keeps.                                                      *)

LEMMA MovesRequests ==
    ASSUME Typed, NEW c \in Clients, Moves(c)
    PROVE  /\ req' \in [Clients -> Reqs]
           /\ \A d \in Clients \ {c} : req'[d] = req[d]
           /\ Shaped(req'[c])
           /\ req'[c] = Idle \/ req'[c].kind = req[c].kind \/ req[c].pc = "idle"
           /\ MayRun(c)
<1>1. PICK r \in Reqs :
        /\ Shaped(r)
        /\ req' = [req EXCEPT ![c] = r]
        /\ r = Idle \/ r.kind = req[c].kind \/ req[c].pc = "idle"
        /\ MayRun(c)
  BY DEF Moves
<1>2. req \in [Clients -> Reqs]
  BY DEF Typed
<1>3. req'[c] = r /\ (\A d \in Clients \ {c} : req'[d] = req[d]) /\ req' \in [Clients -> Reqs]
  BY <1>1, <1>2
<1> QED  BY <1>1, <1>3

LEMMA TailAt ==
    ASSUME NEW S, NEW q \in Seq(S), q # <<>>
    PROVE  /\ Tail(q) \in Seq(S) /\ DOMAIN Tail(q) = 1..(Len(q) - 1) /\ Len(q) \in Nat \ {0}
           /\ DOMAIN q = 1..Len(q) /\ Head(q) = q[1]
           /\ \A i \in 1..(Len(q) - 1) : Tail(q)[i] = q[i + 1]
OBVIOUS

\* The queues without c: c has left the one it was at the head of.
Cleared(c, B) ==
    /\ B \in [Rows -> Seq(Clients)]
    /\ \A k \in Rows : \A i \in DOMAIN B[k] :
          B[k][i] \in Clients \ {c} /\ req[B[k][i]].key = k
    /\ \A k \in Rows : \A i, j \in DOMAIN B[k] : B[k][i] = B[k][j] => i = j
    /\ \A d \in Clients \ {c} : req[d].key # None =>
          \E i \in DOMAIN B[req[d].key] : B[req[d].key][i] = d
    /\ \A d \in Clients \ {c} : req[d].pc \notin Entries /\ req[d].key # None =>
          Head(B[req[d].key]) = d

LEMMA ReleaseClears ==
    ASSUME Typed, Exclusion, NEW c \in Clients, MayRun(c)
    PROVE  Cleared(c, Release(c))
<1> DEFINE B == Release(c)
           k0 == req[c].key
<1>1. /\ queue \in [Rows -> Seq(Clients)] /\ req \in [Clients -> Reqs]
      /\ \A d \in Clients : req[d].key \in Rows \cup {None}
  BY DEF Typed, Reqs
<1>2. ASSUME NEW k \in Rows, k # k0
      PROVE  B[k] = queue[k] /\ \A i \in DOMAIN queue[k] : queue[k][i] # c
  <2>1. \A i \in DOMAIN queue[k] : queue[k][i] # c
    BY <1>2 DEF Exclusion
  <2>2. queue[k] # <<>> => Head(queue[k]) # c
    BY <1>1, <2>1, TailAt
  <2> QED  BY <2>1, <2>2 DEF Release, Without
<1>3. ASSUME k0 \in Rows
      PROVE  queue[k0] # <<>> /\ B[k0] = Tail(queue[k0]) /\ queue[k0][1] = c
  <2>1. k0 # None
    BY <1>3, FamiliesAssumption
  <2>2. PICK i \in DOMAIN queue[k0] : queue[k0][i] = c
    BY <2>1 DEF Exclusion
  <2>3. queue[k0] # <<>> /\ Head(queue[k0]) = c
    BY <1>1, <1>3, <2>1, <2>2 DEF MayRun
  <2>4. B[k0] = Tail(queue[k0])
    BY <1>3, <2>3 DEF Release, Without
  <2> QED  BY <1>1, <1>3, <2>3, <2>4, TailAt
<1>4. ASSUME NEW k \in Rows
      PROVE  B[k] \in Seq(Clients)
  <2>1. queue[k] \in Seq(Clients)
    BY <1>1
  <2>2. CASE k # k0
    BY <1>2, <2>1, <2>2
  <2>3. CASE k = k0
    <3>1. queue[k] # <<>> /\ B[k] = Tail(queue[k])
      BY <1>3, <2>3
    <3> HIDE DEF B, k0
    <3> QED  BY <2>1, <3>1, TailAt
  <2> QED  BY <2>2, <2>3
<1>5. B \in [Rows -> Seq(Clients)]
  <2>1. B = [k \in Rows |-> Without(queue[k], c)]
    BY DEF Release
  <2> HIDE DEF B
  <2> QED  BY <1>4, <2>1
<1> HIDE DEF B
<1>6. ASSUME NEW k \in Rows, NEW i \in DOMAIN B[k]
      PROVE  B[k][i] \in Clients \ {c} /\ req[B[k][i]].key = k
  <2>1. CASE k # k0
    BY <1>1, <1>2, <1>6, <2>1 DEF Exclusion
  <2>2. CASE k = k0
    <3>1. /\ queue[k] \in Seq(Clients) /\ queue[k] # <<>> /\ B[k] = Tail(queue[k])
          /\ queue[k][1] = c
      BY <1>1, <1>3, <2>2
    <3>2. /\ i \in 1..(Len(queue[k]) - 1) /\ B[k][i] = queue[k][i + 1]
          /\ i + 1 \in DOMAIN queue[k] /\ 1 \in DOMAIN queue[k] /\ i + 1 # 1
      BY <1>6, <3>1, TailAt
    <3>3. queue[k][i + 1] # queue[k][1] /\ req[queue[k][i + 1]].key = k
      BY <3>2 DEF Exclusion
    <3>4. queue[k][i + 1] \in Clients
      BY <3>1, <3>2
    <3> QED  BY <3>1, <3>2, <3>3, <3>4
  <2> QED  BY <2>1, <2>2
<1>7. ASSUME NEW k \in Rows, NEW i \in DOMAIN B[k], NEW j \in DOMAIN B[k], B[k][i] = B[k][j]
      PROVE  i = j
  <2>1. CASE k # k0
    BY <1>2, <1>7, <2>1 DEF Exclusion
  <2>2. CASE k = k0
    <3>1. queue[k] \in Seq(Clients) /\ queue[k] # <<>> /\ B[k] = Tail(queue[k])
      BY <1>1, <1>3, <2>2
    <3>2. /\ i \in 1..(Len(queue[k]) - 1) /\ B[k][i] = queue[k][i + 1]
          /\ j \in 1..(Len(queue[k]) - 1) /\ B[k][j] = queue[k][j + 1]
          /\ i + 1 \in DOMAIN queue[k] /\ j + 1 \in DOMAIN queue[k]
      BY <1>7, <3>1, TailAt
    <3>3. \A x, y \in DOMAIN queue[k] : queue[k][x] = queue[k][y] => x = y
      BY DEF Exclusion
    <3>4. i + 1 = j + 1
      BY <1>7, <3>2, <3>3
    <3> QED  BY <3>2, <3>4
  <2> QED  BY <2>1, <2>2
<1>8. ASSUME NEW d \in Clients \ {c}, req[d].key # None
      PROVE  \E i \in DOMAIN B[req[d].key] : B[req[d].key][i] = d
  <2> DEFINE k == req[d].key
  <2>1. k \in Rows /\ \E i \in DOMAIN queue[k] : queue[k][i] = d
    BY <1>1, <1>8 DEF Exclusion
  <2>2. CASE k # k0
    BY <1>2, <2>1, <2>2
  <2>3. CASE k = k0
    <3>1. /\ queue[k] \in Seq(Clients) /\ queue[k] # <<>> /\ B[k] = Tail(queue[k])
          /\ queue[k][1] = c
      BY <1>1, <1>3, <2>1, <2>3
    <3>2. PICK i \in DOMAIN queue[k] : queue[k][i] = d
      BY <2>1
    <3>3. i \in 1..Len(queue[k]) /\ i # 1
      BY <3>1, <3>2, TailAt
    <3>4. i - 1 \in 1..(Len(queue[k]) - 1) /\ (i - 1) + 1 = i
      BY <3>1, <3>3, TailAt
    <3>5. i - 1 \in DOMAIN B[k] /\ B[k][i - 1] = d
      BY <3>1, <3>2, <3>4, TailAt
    <3> QED  BY <3>5
  <2> QED  BY <2>2, <2>3
<1>9. ASSUME NEW d \in Clients \ {c}, req[d].pc \notin Entries, req[d].key # None
      PROVE  Head(B[req[d].key]) = d
  <2> DEFINE k == req[d].key
  <2>1. k \in Rows /\ Head(queue[k]) = d
    BY <1>1, <1>9 DEF Exclusion, MayRun
  <2>2. k # k0
    <3>1. k = k0 => Head(queue[k]) = c
      BY <1>9 DEF MayRun
    <3> QED  BY <2>1, <3>1
  <2> QED  BY <1>2, <2>1, <2>2
<1> QED  BY <1>5, <1>6, <1>7, <1>8, <1>9 DEF Cleared, B

LEMMA MovesExclusion ==
    ASSUME Typed, Exclusion, NEW c \in Clients, Moves(c)
    PROVE  queue' \in [Rows -> Seq(Clients)] /\ Exclusion'
<1>1. PICK r \in Reqs :
        /\ Shaped(r)
        /\ req' = [req EXCEPT ![c] = r]
        /\ MayRun(c)
        /\ \/ r.key = req[c].key /\ queue' = queue
           \/ r.key = None /\ queue' = Release(c)
           \/ /\ r.key \in Rows /\ r.pc \in Entries
              /\ queue' = [Release(c) EXCEPT ![r.key] = Append(@, c)]
  BY DEF Moves
<1>2. /\ queue \in [Rows -> Seq(Clients)] /\ req \in [Clients -> Reqs]
      /\ \A d \in Clients : req[d].key \in Rows \cup {None}
  BY DEF Typed, Reqs
<1>3. req'[c] = r /\ (\A d \in Clients \ {c} : req'[d] = req[d])
  BY <1>1, <1>2
<1>4. \A d \in Clients : req'[d].key \in Rows \cup {None}
  BY <1>1, <1>2, <1>3 DEF Reqs
<1>5. CASE r.key = req[c].key /\ queue' = queue
  <2>1. \A d \in Clients : req'[d].key = req[d].key
    BY <1>3, <1>5
  <2>2. \A d \in Clients : MayRun(d) => MayRun(d)'
    BY <1>5, <2>1 DEF MayRun
  <2>3. \A d \in Clients : req'[d].pc \notin Entries => MayRun(d)'
    BY <1>1, <1>3, <2>2 DEF Exclusion
  <2>4. \A k \in Rows : \A i \in DOMAIN queue[k] : queue[k][i] \in Clients
    BY <1>2
  <2>5. \A k \in Rows : \A i \in DOMAIN queue'[k] : req'[queue'[k][i]].key = k
    BY <1>5, <2>1, <2>4 DEF Exclusion
  <2>6. \A k \in Rows : \A i, j \in DOMAIN queue'[k] : queue'[k][i] = queue'[k][j] => i = j
    BY <1>5 DEF Exclusion
  <2>7. \A d \in Clients : req'[d].key # None =>
          \E i \in DOMAIN queue'[req'[d].key] : queue'[req'[d].key][i] = d
    BY <1>5, <2>1 DEF Exclusion
  <2>8. Exclusion'
    BY ONLY <2>3, <2>5, <2>6, <2>7 DEF Exclusion
  <2>9. queue' \in [Rows -> Seq(Clients)]
    BY <1>2, <1>5
  <2> QED  BY <2>8, <2>9
<1> DEFINE B == Release(c)
<1>6. Cleared(c, B)
  BY <1>1, ReleaseClears
<1> HIDE DEF B
<1>7. CASE r.key = None /\ queue' = B
  <2>1. /\ B \in [Rows -> Seq(Clients)]
        /\ \A k \in Rows : \A i \in DOMAIN B[k] : B[k][i] \in Clients \ {c} /\ req[B[k][i]].key = k
        /\ \A k \in Rows : \A i, j \in DOMAIN B[k] : B[k][i] = B[k][j] => i = j
        /\ \A d \in Clients \ {c} : req[d].key # None =>
              \E i \in DOMAIN B[req[d].key] : B[req[d].key][i] = d
        /\ \A d \in Clients \ {c} : (req[d].pc \notin Entries /\ req[d].key # None) =>
              Head(B[req[d].key]) = d
    BY <1>6 DEF Cleared
  <2>2. req'[c].key = None
    BY <1>3, <1>7
  <2>3. \A d \in Clients : req'[d].pc \notin Entries => MayRun(d)'
    <3> SUFFICES ASSUME NEW d \in Clients, req'[d].pc \notin Entries, req'[d].key # None
                 PROVE  Head(queue'[req'[d].key]) = d
      BY DEF MayRun
    <3>1. d \in Clients \ {c} /\ req'[d] = req[d]
      BY <1>3, <2>2
    <3> QED  BY <1>7, <2>1, <3>1
  <2>4. \A k \in Rows : \A i \in DOMAIN queue'[k] : req'[queue'[k][i]].key = k
    BY <1>3, <1>7, <2>1
  <2>5. \A k \in Rows : \A i, j \in DOMAIN queue'[k] : queue'[k][i] = queue'[k][j] => i = j
    BY <1>7, <2>1
  <2>6. \A d \in Clients : req'[d].key # None =>
          \E i \in DOMAIN queue'[req'[d].key] : queue'[req'[d].key][i] = d
    <3> SUFFICES ASSUME NEW d \in Clients, req'[d].key # None
                 PROVE  \E i \in DOMAIN queue'[req'[d].key] : queue'[req'[d].key][i] = d
      OBVIOUS
    <3>1. d \in Clients \ {c} /\ req'[d] = req[d]
      BY <1>3, <2>2
    <3> QED  BY <1>7, <2>1, <3>1
  <2>7. Exclusion'
    BY ONLY <2>3, <2>4, <2>5, <2>6 DEF Exclusion
  <2> QED  BY <1>7, <2>1, <2>7
<1>8. CASE r.key \in Rows /\ r.pc \in Entries /\ queue' = [B EXCEPT ![r.key] = Append(@, c)]
  <2> DEFINE k1 == r.key
             n == Len(B[k1]) + 1
  <2>1. B \in [Rows -> Seq(Clients)] /\ k1 \in Rows /\ B[k1] \in Seq(Clients) /\ k1 # None
    BY <1>6, <1>8, FamiliesAssumption DEF Cleared
  <2>2. /\ queue'[k1] = Append(B[k1], c)
        /\ \A k \in Rows \ {k1} : queue'[k] = B[k]
        /\ queue' \in [Rows -> Seq(Clients)]
    BY <1>8, <2>1
  <2>3. /\ DOMAIN queue'[k1] = 1..n /\ DOMAIN B[k1] = 1..(n - 1) /\ n \in Nat \ {0}
        /\ queue'[k1][n] = c
        /\ \A i \in 1..(n - 1) : queue'[k1][i] = B[k1][i]
    BY <2>1, <2>2
  <2> HIDE DEF n
  <2>4. /\ \A k \in Rows : \A i \in DOMAIN B[k] : B[k][i] \in Clients \ {c} /\ req[B[k][i]].key = k
        /\ \A k \in Rows : \A i, j \in DOMAIN B[k] : B[k][i] = B[k][j] => i = j
        /\ \A d \in Clients \ {c} : req[d].key # None =>
              \E i \in DOMAIN B[req[d].key] : B[req[d].key][i] = d
        /\ \A d \in Clients \ {c} : req[d].pc \notin Entries /\ req[d].key # None =>
              Head(B[req[d].key]) = d
    BY <1>6 DEF Cleared
  <2>5. \A i \in DOMAIN queue'[k1] : i = n \/ (i \in DOMAIN B[k1] /\ queue'[k1][i] = B[k1][i])
    BY <2>3
  <2>6. ASSUME NEW k \in Rows, NEW i \in DOMAIN queue'[k]
        PROVE  req'[queue'[k][i]].key = k
    <3>1. CASE k # k1
      BY <1>3, <2>2, <2>4, <2>6, <3>1
    <3>2. CASE k = k1
      BY <1>3, <2>3, <2>4, <2>5, <2>6, <3>2
    <3> QED  BY <3>1, <3>2
  <2>7. ASSUME NEW k \in Rows, NEW i \in DOMAIN queue'[k], NEW j \in DOMAIN queue'[k],
               queue'[k][i] = queue'[k][j]
        PROVE  i = j
    <3>1. CASE k # k1
      BY <2>2, <2>4, <2>7, <3>1
    <3>2. CASE k = k1
      BY <2>3, <2>4, <2>5, <2>7, <3>2
    <3> QED  BY <3>1, <3>2
  <2>8. ASSUME NEW d \in Clients, req'[d].key # None
        PROVE  \E i \in DOMAIN queue'[req'[d].key] : queue'[req'[d].key][i] = d
    <3>1. CASE d = c
      <4>1. n \in DOMAIN queue'[k1]
        BY <2>3
      <4> QED  BY <1>3, <2>3, <3>1, <4>1
    <3>2. CASE d # c
      <4> DEFINE k == req[d].key
      <4>1. k \in Rows /\ req'[d].key = k
        BY <1>2, <1>3, <2>8, <3>2
      <4>2. PICK i \in DOMAIN B[k] : B[k][i] = d
        BY <2>4, <2>8, <3>2, <4>1
      <4>3. i \in DOMAIN queue'[k] /\ queue'[k][i] = d
        <5>1. CASE k # k1
          BY <2>2, <4>1, <4>2, <5>1
        <5>2. CASE k = k1
          BY <2>3, <4>2, <5>2
        <5> QED  BY <5>1, <5>2
      <4> QED  BY <4>1, <4>3
    <3> QED  BY <3>1, <3>2
  <2>9. ASSUME NEW d \in Clients, req'[d].pc \notin Entries
        PROVE  MayRun(d)'
    <3>1. d # c /\ req'[d] = req[d]
      BY <1>3, <1>8, <2>9
    <3> DEFINE k == req[d].key
    <3>2. SUFFICES ASSUME k # None PROVE Head(queue'[k]) = d
      BY <3>1 DEF MayRun
    <3>3. k \in Rows /\ Head(B[k]) = d /\ B[k] \in Seq(Clients) /\ B[k] # <<>>
      BY <1>2, <2>1, <2>4, <2>9, <3>1, <3>2
    <3>4. CASE k # k1
      BY <2>2, <3>3, <3>4
    <3>5. CASE k = k1
      BY <2>2, <3>3, <3>5
    <3> QED  BY <3>4, <3>5
  <2> QED  BY <2>2, <2>6, <2>7, <2>8, <2>9 DEF Exclusion
<1> QED  BY <1>1, <1>5, <1>7, <1>8 DEF B

-----------------------------------------------------------------------------
(* What a step does: the request from one place to the next, and the row it *)
(* writes.                                                                 *)

Same(q, r) == q.kind = r.kind /\ q.t = r.t /\ q.p = r.p /\ q.spool = r.spool

\* The request goes to pc with all that it carries, or with a new snapshot; its
\* gate lets it pass; it is over.
On(c, pc) ==
    /\ Same(req'[c], req[c]) /\ req'[c].pc = pc /\ req'[c].half = req[c].half
    /\ req'[c].snap = req[c].snap /\ req'[c].copy = req[c].copy
Carried(c, pc, snap) ==
    /\ Same(req'[c], req[c]) /\ req'[c].pc = pc /\ req'[c].half = req[c].half
    /\ req'[c].snap = snap
\* One of the two reads that follow the write of a parent is done.
Halved(c, pc) ==
    /\ Same(req'[c], req[c]) /\ req'[c].pc = pc /\ ~req[c].half /\ req'[c].half
    /\ req'[c].snap = req[c].snap
Over(c) == req'[c] = Idle
Ended(c) == Over(c) \/ On(c, "alarm")
Passed(c) ==
    \/ Over(c) /\ req[c].kind = "promote"
    \/ /\ Same(req'[c], req[c]) /\ req'[c].snap = NoDoc /\ req'[c].half = req[c].half
       /\ \/ req[c].kind = "create" /\ req'[c].pc = "insert"
          \/ req[c].kind = "restore" /\ req'[c].pc = "save"
          \/ req[c].kind = "adopt" /\ req'[c].pc = "strip"

Still == doc' = doc /\ added' = added

\* Row f is written, and is then the row described.
Becomes(f, live, purged, parent, own, marker, by) ==
    /\ f \in Rows /\ doc' \in [Rows -> Doc \cup {NoDoc}] /\ doc'[f] \in Doc
    /\ doc'[f].live = live /\ doc'[f].purged = purged /\ doc'[f].parent = parent
    /\ doc'[f].own = own /\ doc'[f].marker = marker /\ doc'[f].by = by
    /\ \A g \in Rows \ {f} : doc'[g] = doc[g]

\* Row f is written with these, if it is live; the rest of it stays.
Rewrites(f, own, marker) ==
    IF Live(f) THEN Becomes(f, TRUE, doc[f].purged, doc[f].parent, own, marker, doc[f].by)
    ELSE doc' = doc

SentFrom == {"fetch", "putParent", "strip", "trashCheck", "purgeRead", "restoreRead",
             "reviveRead", "pushCheck", "dropCheck"}

SubmitDoes(c) ==
    LET q == req'[c] IN
    /\ Still /\ req[c].pc = "idle"
    /\ q.kind \in play.kinds[c] /\ q.pc \in SentFrom
    /\ q.t # None => IsDoc(q.t)
    /\ q.p # None => IsDoc(q.p)
    /\ q.snap = NoDoc /\ q.copy = None /\ ~q.half
    /\ q.pc = "fetch" => q.kind \in {"create", "promote"}
    /\ q.pc = "pushCheck" => q.spool \in Spools \ UsedSpools

GateDoes(c) ==
    LET r == req[c]
        p == req[c].p
    IN
    \/ /\ r.pc = "fetch" /\ Still /\ Live(p) /\ doc[p].parent = None
       /\ \/ ~Needed(doc[p]) /\ Carried(c, "unmark", doc[p])
          \/ Carried(c, "gate", doc[p])
          \/ ~Needed(doc[p]) /\ r.kind # "promote" /\ Passed(c)
    \/ /\ r.pc = "unmark" /\ added' = added /\ Rewrites(p, doc[p].own, 0)
       /\ On(c, "gate") \/ Passed(c)
    \/ /\ r.pc = "gate" /\ Still
       /\ \/ ~Needed(r.snap) /\ On(c, "unmark")
          \/ ~Needed(r.snap) /\ Passed(c)
          \/ /\ Needed(r.snap) /\ On(c, "partial")
             /\ r.kind = "promote" \/ ~HasVariants(p)
          \/ Needed(r.snap) /\ HasVariants(p) /\ On(c, "resume")
          \/ Needed(r.snap) /\ ~HasVariants(p) /\ r.kind = "adopt" /\ On(c, "target")
    \/ r.pc = "target" /\ Still /\ On(c, "partial")
    \/ /\ r.pc \in {"partial", "resume"} /\ Still
       /\ \E v \in Partial(r) : Carried(c, "remap", r.snap) /\ req'[c].copy = v
    \/ /\ r.pc \in {"partial", "resume"} /\ Still /\ Partial(r) = {}
       /\ \/ r.pc = "resume" /\ Passed(c)
          \/ r.pc = "partial" /\ r.snap.marker = 0 /\ On(c, "mark")
          \/ r.pc = "partial" /\ r.snap.marker # 0 /\ On(c, "copy")
    \/ /\ r.pc = "mark" /\ added' = added /\ Rewrites(p, doc[p].own, Token)
       /\ Carried(c, "copy", [r.snap EXCEPT !.marker = Token]) /\ req'[c].copy = r.copy
    \/ /\ r.pc = "copy" /\ added' = added
       /\ \E v \in Rows : /\ ~IsDoc(v)
                          /\ Becomes(v, TRUE, FALSE, p, r.snap.own, 0, r.snap.marker)
                          /\ Carried(c, "remap", r.snap) /\ req'[c].copy = v
    \/ r.pc = "remap" /\ Still /\ On(c, "complete")
    \/ r.pc = "complete" /\ added' = added /\ Rewrites(p, {}, 0) /\ Passed(c)
    \/ /\ r.pc = "alarm" /\ added' = added /\ Over(c)
       /\ Rewrites(p, doc[p].own \ {"alarm"}, doc[p].marker)

InsertDoes(c) ==
    /\ req[c].pc = "insert" /\ added' = added /\ Ended(c)
    /\ \E v \in Rows, own \in SUBSET Traits :
          ~IsDoc(v) /\ Becomes(v, TRUE, FALSE, req[c].p, own, 0, 0)

PutDoes(c) ==
    LET r == req[c]
        t == req[c].t
        p == req[c].p
    IN
    \/ r.pc = "putParent" /\ Still /\ On(c, "putVariants")
    \/ r.pc = "putVariants" /\ Still /\ On(c, "putStored")
    \/ r.pc = "putStored" /\ Still /\ On(c, "strip")
    \/ r.pc = "putStored" /\ Still /\ On(c, "fetch")
    \/ r.pc = "strip" /\ Still /\ On(c, "write")
    \/ /\ r.pc = "write" /\ added' = added /\ Live(t)
       /\ \E more \in SUBSET Traits, parent \in Rows \cup {None} :
             /\ Becomes(t, TRUE, doc[t].purged, parent, doc[t].own \cup more,
                        doc[t].marker, doc[t].by)
             /\ \/ /\ r.kind = "adopt" /\ parent = p
                   /\ On(c, "assertParent") \/ On(c, "assertVariants")
                \/ r.kind = "detach" /\ parent = None /\ Over(c)
                \/ r.kind = "paint" /\ parent = doc[t].parent /\ Over(c)
    \/ /\ r.pc = "assertParent" /\ Still
       /\ \/ On(c, "rollback")
          \/ /\ Live(p) /\ doc[p].parent = None
             /\ \/ r.half /\ Ended(c)
                \/ Halved(c, "assertVariants")
    \/ /\ r.pc = "assertVariants" /\ Still
       /\ \/ On(c, "rollback")
          \/ /\ ~HasVariants(t)
             /\ \/ r.half /\ Ended(c)
                \/ Halved(c, "assertParent")
    \/ /\ r.pc = "rollback" /\ added' = added /\ Over(c)
       /\ IF Live(t) /\ doc[t].parent = p
          THEN Becomes(t, TRUE, doc[t].purged, None, doc[t].own, doc[t].marker, doc[t].by)
          ELSE doc' = doc

DeleteDoes(c) ==
    LET r == req[c]
        t == req[c].t
    IN
    \/ r.pc = "trashCheck" /\ Still /\ ~HasVariants(t) /\ On(c, "trashRead")
    \/ r.pc = "trashRead" /\ Still /\ Live(t) /\ Carried(c, "trashSlots", doc[t])
    \/ r.pc = "trashSlots" /\ Still /\ Carried(c, "trashWrite", NoDoc)
    \/ /\ r.pc = "trashWrite" /\ added' = added /\ Over(c)
       /\ IF Live(t)
          THEN Becomes(t, FALSE, doc[t].purged, doc[t].parent, doc[t].own, doc[t].marker, doc[t].by)
          ELSE doc' = doc
    \/ r.pc = "purgeRead" /\ Still /\ InTrash(t) /\ Carried(c, "purgeCheck", doc[t])
    \/ r.pc = "purgeCheck" /\ Still /\ KeptVariants(t) = {} /\ On(c, "purgeSlots")
    \/ r.pc = "purgeSlots" /\ Still /\ Carried(c, "purgeWrite", NoDoc)
    \/ /\ r.pc = "purgeWrite" /\ added' = added /\ Over(c)
       /\ Becomes(t, FALSE, TRUE, doc[t].parent, doc[t].own, doc[t].marker, doc[t].by)

RestoreDoes(c) ==
    LET r == req[c]
        q == req'[c]
        t == req[c].t
    IN
    \/ r.pc = "restoreRead" /\ Still /\ InTrash(t) /\ doc[t].parent = None /\ On(c, "save")
    \/ /\ r.pc = "restoreRead" /\ Still /\ InTrash(t) /\ doc[t].parent # None
       /\ q.pc = "restoreParent" /\ q.kind = r.kind /\ q.t = t /\ q.p = doc[t].parent
       /\ q.spool = r.spool /\ q.snap = r.snap /\ q.copy = r.copy
    \/ r.pc = "restoreParent" /\ Still /\ Live(r.p) /\ On(c, "fetch")
    \/ /\ r.pc = "save" /\ added' = added /\ Ended(c)
       /\ Becomes(t, TRUE, doc[t].purged, doc[t].parent, doc[t].own, doc[t].marker, doc[t].by)

ReviveDoes(c) ==
    LET r == req[c]
        q == req'[c]
        t == req[c].t
    IN
    \/ r.pc = "reviveRead" /\ Still /\ InTrash(t) /\ doc[t].parent = None /\ On(c, "reviveWrite")
    \/ /\ r.pc = "reviveRead" /\ Still /\ InTrash(t) /\ doc[t].parent # None
       /\ q.pc = "reviveGate" /\ q.kind = r.kind /\ q.t = t /\ q.p = doc[t].parent
       /\ q.spool = r.spool /\ q.snap = r.snap /\ q.copy = r.copy
    \/ r.pc = "reviveGate" /\ Still /\ Live(r.p) /\ Carried(c, "reviveCheck", doc[r.p])
    \/ r.pc = "reviveGate" /\ Still /\ On(c, "reviveWrite")
    \/ r.pc = "reviveCheck" /\ Still /\ Carried(c, "reviveWrite", NoDoc)
    \/ /\ r.pc = "reviveWrite" /\ added' = added
       /\ Over(c) \/ On(c, "reviveAlarm")
       /\ IF InTrash(t)
          THEN \E more \in SUBSET Traits :
                  Becomes(t, TRUE, FALSE, doc[t].parent, doc[t].own \cup more,
                          doc[t].marker, doc[t].by)
          ELSE doc' = doc
    \/ r.pc = "reviveAlarm" /\ Still /\ On(c, "alarm")

SpoolDoes(c) ==
    LET r == req[c]
        t == req[c].t
    IN
    \/ r.pc = "pushCheck" /\ Still /\ ~HasVariants(t) /\ On(c, "push")
    \/ /\ r.pc = "push" /\ Live(t) /\ added' = added \cup {r.spool} /\ On(c, "pushAgain")
       /\ Becomes(t, TRUE, doc[t].purged, doc[t].parent, doc[t].own \cup {r.spool},
                  doc[t].marker, doc[t].by)
    \/ r.pc = "pushAgain" /\ Still /\ HasVariants(t) /\ On(c, "pull")
    \/ /\ r.pc = "pull" /\ added' = added \ {r.spool} /\ Over(c)
       /\ Becomes(t, doc[t].live, doc[t].purged, doc[t].parent, doc[t].own \ {r.spool},
                  doc[t].marker, doc[t].by)
    \/ /\ r.pc = "dropCheck" /\ Still /\ Live(t) /\ r.spool \in doc[t].own
       /\ On(c, "dropSlots")
    \/ r.pc = "dropSlots" /\ Still /\ On(c, "drop")
    \/ /\ r.pc = "drop" /\ Live(t) /\ r.spool \in doc[t].own
       /\ added' = added \ {r.spool} /\ On(c, "dropSlotsAgain")
       /\ Becomes(t, TRUE, doc[t].purged, doc[t].parent, doc[t].own \ {r.spool},
                  doc[t].marker, doc[t].by)

Does(c) ==
    \/ Still /\ Over(c)
    \/ SubmitDoes(c) \/ GateDoes(c) \/ InsertDoes(c) \/ PutDoes(c) \/ DeleteDoes(c)
    \/ RestoreDoes(c) \/ ReviveDoes(c) \/ SpoolDoes(c)

LEMMA Writing ==
    ASSUME Typed, NEW f \in Rows, NEW d \in Doc, Put(f, d)
    PROVE  Becomes(f, d.live, d.purged, d.parent, d.own, d.marker, d.by)
BY DEF Typed, Put, Becomes

\* A row that is there, written again: which fields it had, and what a write of
\* some of them gives.
LEMMA DocFields ==
    ASSUME Typed, NEW f \in Rows, IsDoc(f)
    PROVE  /\ doc[f] \in Doc /\ doc[f].live \in BOOLEAN /\ doc[f].purged \in BOOLEAN
           /\ doc[f].parent \in Rows \cup {None} /\ doc[f].own \in SUBSET Things
           /\ doc[f].marker \in Tokens \cup {0} /\ doc[f].by \in Tokens \cup {0}
BY DEF Typed, IsDoc, Doc

LEMMA LiveIsDoc ==
    ASSUME Typed, NEW f \in Rows \cup {None}
    PROVE  Live(f) => f \in Rows /\ f # None /\ IsDoc(f) /\ doc[f].live
BY FamiliesAssumption DEF Live

LEMMA AnswerDoes ==
    ASSUME Typed, NEW c \in Clients, Answer(c)
    PROVE  Over(c)
BY DEF Typed, Answer, Over

LEMMA GotoDoes ==
    ASSUME Typed, NEW c \in Clients, NEW pc \in Outside \cup Entries \cup Inside, Goto(c, pc)
    PROVE  On(c, pc)
<1>1. req[c] \in Reqs /\ req'[c] = Place(req[c], pc)
  BY DEF Typed, Goto, Go, Place
<1> QED  BY <1>1, PlaceFields DEF On, Same

LEMMA EnterDoes ==
    ASSUME Typed, NEW c \in Clients, NEW pc \in Outside \cup Entries \cup Inside,
           NEW k \in Rows, Enter(c, k, [req[c] EXCEPT !.pc = pc])
    PROVE  On(c, pc)
<1>1. req[c] \in Reqs /\ req'[c] = Keyed(req[c], pc, k)
  BY DEF Typed, Enter, Keyed
<1> QED  BY <1>1, KeyedFields DEF On, Same

LEMMA LeaveDoes ==
    ASSUME Typed, NEW c \in Clients, NEW pc \in Outside \cup Entries \cup Inside,
           Leave(c, [req[c] EXCEPT !.pc = pc])
    PROVE  On(c, pc)
<1>1. req[c] \in Reqs /\ req'[c] = Keyed(req[c], pc, None)
  BY DEF Typed, Leave, Keyed
<1> QED  BY <1>1, KeyedFields DEF On, Same

LEMMA CarryDoes ==
    ASSUME Typed, NEW c \in Clients, NEW pc \in Outside \cup Entries \cup Inside,
           NEW snap \in Doc \cup {NoDoc}, Go(c, Carry(req[c], pc, snap))
    PROVE  Carried(c, pc, snap)
<1>1. req[c] \in Reqs /\ req'[c] = Carry(req[c], pc, snap)
  BY DEF Typed, Go
<1> QED  BY <1>1, CarryFields DEF Carried, Same

LEMMA EndDoes ==
    ASSUME Typed, NEW c \in Clients, EndVariantWrite(c)
    PROVE  Ended(c)
<1>1. "alarm" \in Outside \cup Entries \cup Inside
  BY DEF Inside
<1> QED  BY <1>1, GotoDoes, AnswerDoes DEF EndVariantWrite, Ended

LEMMA PassDoes ==
    ASSUME Typed, NEW c \in Clients, Shaped(req[c]), NEW clear \in BOOLEAN,
           req[c].pc \in GatePcs \cup {"fetch"}, Pass(c, clear)
    PROVE  Passed(c)
<1> DEFINE r == AfterGate(req[c], clear)
<1>1. req[c] \in Reqs /\ req[c].kind \in {"create", "adopt", "restore", "promote"}
  BY DEF Typed, Shaped
<1>2. /\ r \in Reqs
      /\ r.kind = req[c].kind /\ r.t = req[c].t /\ r.p = req[c].p /\ r.spool = req[c].spool
      /\ r.snap = NoDoc /\ r.half = req[c].half
      /\ r.kind = "create" => r.pc = "insert"
      /\ r.kind = "restore" => r.pc = "save"
      /\ r.kind \notin {"create", "restore"} => r.pc = "strip"
  BY <1>1, AfterGateFields
<1>3. Pass(c, clear) <=>
        CASE r.kind = "adopt"   -> Enter(c, r.t, r)
          [] r.kind = "promote" -> Answer(c)
          [] OTHER              -> Go(c, r)
  BY DEF Pass
<1>4. req \in [Clients -> Reqs]
  BY DEF Typed
<1> HIDE DEF r
<1>5. CASE r.kind = "adopt"
  <2> DEFINE q == [r EXCEPT !.key = r.t]
  <2>1. req'[c] = q
    BY <1>3, <1>4, <1>5 DEF Enter
  <2>2. q.kind = r.kind /\ q.t = r.t /\ q.p = r.p /\ q.spool = r.spool /\ q.snap = NoDoc
        /\ q.pc = "strip" /\ q.half = r.half
    BY <1>2, <1>5 DEF Reqs
  <2> HIDE DEF q
  <2> QED  BY <1>2, <1>5, <2>1, <2>2 DEF Passed, Same
<1>6. CASE r.kind = "promote"
  BY <1>2, <1>3, <1>6, AnswerDoes DEF Passed
<1>7. CASE r.kind \in {"create", "restore"}
  <2>1. req'[c] = r
    BY <1>3, <1>4, <1>7 DEF Go
  <2> QED  BY <1>2, <1>7, <2>1 DEF Passed, Same
<1> QED  BY <1>1, <1>2, <1>5, <1>6, <1>7

LEMMA SubmitSends ==
    ASSUME Typed, NEW c \in Clients, Submit(c)
    PROVE  SubmitDoes(c)
<1>1. req[c].pc = "idle" /\ Still
  BY DEF Submit, Still
<1>2. PICK kind \in play.kinds[c], t \in {f \in Rows : IsDoc(f)} :
        LET r(p, s, ok, paint, pc) == Request(kind, t, p, s, ok, paint, pc) IN
        \/ /\ kind = "create"
           /\ \E ok \in BOOLEAN, paint \in Colors :
                 Enter(c, t, Request(kind, None, t, None, ok, paint, "fetch"))
        \/ /\ kind = "adopt"
           /\ \E p \in {f \in Rows \ {t} : IsDoc(f)}, ok \in BOOLEAN, paint \in Colors :
                 Go(c, r(p, None, ok, paint, "putParent"))
        \/ kind = "detach" /\ Enter(c, t, r(None, None, FALSE, FALSE, "strip"))
        \/ kind = "paint"  /\ Enter(c, t, r(None, None, FALSE, TRUE, "strip"))
        \/ kind = "promote" /\ Enter(c, t, Request(kind, None, t, None, TRUE, FALSE, "fetch"))
        \/ kind = "trash"  /\ Enter(c, t, r(None, None, FALSE, FALSE, "trashCheck"))
        \/ kind = "purge"  /\ Go(c, r(None, None, FALSE, FALSE, "purgeRead"))
        \/ kind = "restore" /\ Go(c, r(None, None, FALSE, FALSE, "restoreRead"))
        \/ kind = "revive" /\ Go(c, r(None, None, FALSE, FALSE, "reviveRead"))
        \/ /\ kind = "addSpool"
           /\ \E s \in Spools \ UsedSpools :
                 Enter(c, t, r(None, s, FALSE, FALSE, "pushCheck"))
        \/ /\ kind = "removeSpool"
           /\ \E s \in Spools : Enter(c, t, r(None, s, FALSE, FALSE, "dropCheck"))
  BY DEF Submit
<1>3. kind \in AllKinds /\ t \in Rows /\ IsDoc(t) /\ req \in [Clients -> Reqs]
  BY <1>2 DEF Typed, Play
<1>4. Colors \subseteq BOOLEAN
  BY DEF Colors
<1>5. SentFrom \subseteq Outside \cup Entries \cup Inside
  BY DEF SentFrom, Outside, Entries
<1>6. ASSUME NEW t1 \in Rows \cup {None}, NEW p \in Rows \cup {None},
             NEW s \in Spools \cup {None}, NEW ok \in BOOLEAN, NEW paint \in BOOLEAN,
             NEW pc \in SentFrom, t1 # None => IsDoc(t1), p # None => IsDoc(p),
             pc = "fetch" => kind \in {"create", "promote"},
             pc = "pushCheck" => s \in Spools \ UsedSpools,
             \/ Enter(c, t, Request(kind, t1, p, s, ok, paint, pc))
             \/ Go(c, Request(kind, t1, p, s, ok, paint, pc))
      PROVE  SubmitDoes(c)
  <2> DEFINE r == Request(kind, t1, p, s, ok, paint, pc)
             q == req'[c]
  <2>1. Asks(r, kind, t1, p, s, pc)
    BY <1>3, <1>5, RequestFields
  <2> HIDE DEF r
  <2>2. q = r \/ q = [r EXCEPT !.key = t]
    BY <1>3, <1>6 DEF Enter, Go, r
  <2>3. q.kind = kind /\ q.pc = pc /\ q.t = t1 /\ q.p = p /\ q.spool = s
        /\ q.snap = NoDoc /\ q.copy = None /\ q.half = FALSE
    BY <2>1, <2>2 DEF Asks, Reqs
  <2> HIDE DEF q
  <2>4. /\ q.t # None => IsDoc(q.t)
        /\ q.p # None => IsDoc(q.p)
        /\ q.pc = "fetch" => q.kind \in {"create", "promote"}
        /\ q.pc = "pushCheck" => q.spool \in Spools \ UsedSpools
    BY <1>6, <2>3
  <2> QED  BY <1>1, <1>2, <2>3, <2>4 DEF SubmitDoes, q
<1>7. {"fetch", "putParent", "strip", "trashCheck", "purgeRead", "restoreRead",
       "reviveRead", "pushCheck", "dropCheck"} \subseteq SentFrom
  BY DEF SentFrom
<1>8. None \in Rows \cup {None} /\ t \in Rows \cup {None} /\ None \in Spools \cup {None}
  BY <1>3
<1>9. CASE kind \in {"create", "promote"}
  BY ZenonT(60), <1>2, <1>3, <1>4, <1>6, <1>7, <1>8, <1>9
<1>10. CASE kind = "adopt"
  BY <1>2, <1>3, <1>4, <1>6, <1>7, <1>8, <1>10
<1>11. CASE kind \in {"detach", "paint", "trash"}
  <2>1. \E paint \in BOOLEAN, pc \in {"strip", "trashCheck"} :
           Enter(c, t, Request(kind, t, None, None, FALSE, paint, pc))
    BY <1>2, <1>11
  <2>2. PICK paint \in BOOLEAN, pc \in {"strip", "trashCheck"} :
           Enter(c, t, Request(kind, t, None, None, FALSE, paint, pc))
    BY <2>1
  <2>3. FALSE \in BOOLEAN /\ pc \in SentFrom /\ pc \notin {"fetch", "pushCheck"}
    BY <1>7
  <2> QED  BY <1>3, <1>6, <1>8, <2>2, <2>3
<1>12. CASE kind \in {"purge", "restore", "revive"}
  <2>1. PICK pc \in {"purgeRead", "restoreRead", "reviveRead"} :
           Go(c, Request(kind, t, None, None, FALSE, FALSE, pc))
    BY <1>2, <1>12
  <2>3. FALSE \in BOOLEAN /\ pc \in SentFrom /\ pc \notin {"fetch", "pushCheck"}
    BY <1>7
  <2> QED  BY <1>3, <1>6, <1>8, <2>1, <2>3
<1>13. CASE kind \in {"addSpool", "removeSpool"}
  <2>1. PICK s \in Spools, pc \in {"pushCheck", "dropCheck"} :
           /\ Enter(c, t, Request(kind, t, None, s, FALSE, FALSE, pc))
           /\ pc = "pushCheck" => s \in Spools \ UsedSpools
    BY <1>2, <1>13
  <2>2. pc = "pushCheck" => s \in Spools \ UsedSpools
    BY <2>1
  <2>3. FALSE \in BOOLEAN /\ pc \in SentFrom /\ pc # "fetch" /\ s \in Spools \cup {None}
    BY <1>7
  <2> QED  BY <1>3, <1>6, <1>8, <2>1, <2>2, <2>3
<1> QED  BY <1>2, <1>3, <1>9, <1>10, <1>11, <1>12, <1>13 DEF AllKinds

LEMMA ToRemapDoes ==
    ASSUME Typed, NEW c \in Clients, NEW v \in Rows, Go(c, ToRemap(req[c], v))
    PROVE  Carried(c, "remap", req[c].snap) /\ req'[c].copy = v
<1>1. req[c] \in Reqs /\ req'[c] = ToRemap(req[c], v)
  BY DEF Typed, Go
<1> QED  BY <1>1, ToRemapFields DEF Carried, Same

LEMMA GateStepDoes ==
    ASSUME Typed, NEW c \in Clients, Shaped(req[c]), GateStep(c)
    PROVE  (Still /\ Over(c)) \/ GateDoes(c)
<1> DEFINE r == req[c]
           p == req[c].p
           AnyPc == Outside \cup Entries \cup Inside
<1>1. /\ {"gate", "unmark", "target", "partial", "resume", "mark", "copy", "remap",
          "complete", "alarm"} \subseteq AnyPc
      /\ {"gate", "unmark", "target", "partial", "resume", "mark", "copy", "remap",
          "complete"} \subseteq GatePcs
  BY DEF Inside, GatePcs
<1>2. r.pc \in GatePcs \cup {"fetch", "alarm"} => p \in Rows
  BY DEF Shaped
<1>3. r.pc \in GatePcs => r.snap \in Doc
  BY DEF Shaped, Typed, Reqs
<1>4. \A pc \in AnyPc : Goto(c, pc) => On(c, pc)
  BY GotoDoes
<1>5. \A clear \in BOOLEAN : (r.pc \in GatePcs \cup {"fetch"} /\ Pass(c, clear)) => Passed(c)
  BY PassDoes
<1>6. Answer(c) => Over(c)
  BY AnswerDoes
<1> HIDE DEF AnyPc
<1>7. ASSUME p \in Rows, NEW own \in SUBSET Things, NEW marker \in Tokens \cup {0},
             IF Live(p) THEN Put(p, [doc[p] EXCEPT !.own = own, !.marker = marker])
             ELSE doc' = doc
      PROVE  Rewrites(p, own, marker)
  <2>1. CASE ~Live(p)
    BY <1>7, <2>1 DEF Rewrites
  <2>2. CASE Live(p)
    <3> DEFINE d == [doc[p] EXCEPT !.own = own, !.marker = marker]
    <3>1. doc[p] \in Doc /\ doc[p].live = TRUE
      BY <1>7, <2>2, DocFields, LiveIsDoc DEF Live, Doc
    <3>2. d \in Doc /\ d.live = TRUE /\ d.purged = doc[p].purged /\ d.parent = doc[p].parent
          /\ d.own = own /\ d.marker = marker /\ d.by = doc[p].by
      BY <1>7, <3>1 DEF Doc
    <3>3. Put(p, d)
      BY <1>7, <2>2
    <3> HIDE DEF d
    <3>4. Becomes(p, d.live, d.purged, d.parent, d.own, d.marker, d.by)
      BY <1>7, <3>2, <3>3, Writing
    <3> QED  BY <2>2, <3>2, <3>4 DEF Rewrites
  <2> QED  BY <2>1, <2>2
<1>8. ASSUME Live(p), p \in Rows
      PROVE  /\ doc[p].own \in SUBSET Things /\ doc[p].marker \in Tokens \cup {0}
             /\ doc[p] \in Doc
             /\ doc[p] = [doc[p] EXCEPT !.own = doc[p].own]
             /\ doc[p] = [doc[p] EXCEPT !.marker = doc[p].marker]
  BY <1>8, DocFields, LiveIsDoc DEF Doc
<1>9. CASE Fetch(c)
  <2>1. r.pc = "fetch" /\ Still
    BY <1>9 DEF Fetch, At, Still
  <2>2. CASE ~Live(p) \/ doc[p].parent # None
    BY <1>6, <1>9, <2>1, <2>2 DEF Fetch
  <2>3. CASE ~(~Live(p) \/ doc[p].parent # None)
    <3>1. \/ ~Needed(doc[p]) /\ Go(c, Carry(r, "unmark", doc[p]))
          \/ Go(c, Carry(r, "gate", doc[p]))
          \/ ~Needed(doc[p]) /\ r.kind # "promote" /\ Pass(c, FALSE)
      <4>1. req[c] \in Reqs
        BY DEF Typed
      <4>2. [req[c] EXCEPT !.snap = doc[p]].kind = r.kind
        BY <4>1 DEF Reqs
      <4>3. \/ ~Needed(doc[p]) /\ Go(c, Carry(r, "unmark", doc[p]))
            \/ Go(c, Carry(r, "gate", doc[p]))
            \/ /\ ~Needed(doc[p]) /\ [req[c] EXCEPT !.snap = doc[p]].kind # "promote"
               /\ Pass(c, FALSE)
        BY <1>9, <2>3 DEF Fetch, Carry
      <4> QED  BY <4>2, <4>3
    <3>2. doc[p] \in Doc \cup {NoDoc}
      BY <1>2, <2>1 DEF Typed
    <3>3. \A pc \in {"unmark", "gate"} : Go(c, Carry(r, pc, doc[p])) => Carried(c, pc, doc[p])
      BY <1>1, <3>2, CarryDoes DEF AnyPc
    <3> QED  BY <1>5, <2>1, <2>3, <3>1, <3>3 DEF GateDoes
  <2> QED  BY <2>2, <2>3
<1>10. CASE Unmark(c)
  <2>1. r.pc = "unmark" /\ added' = added
    BY <1>10 DEF Unmark, At
  <2>2. Rewrites(p, doc[p].own, 0)
    <3>1. CASE ~Live(p)
      BY <1>10, <3>1 DEF Unmark, Rewrites
    <3>2. CASE Live(p)
      <4>1. Put(p, [doc[p] EXCEPT !.marker = 0])
        BY <1>10, <3>2 DEF Unmark
      <4>2. [doc[p] EXCEPT !.marker = 0] = [doc[p] EXCEPT !.own = doc[p].own, !.marker = 0]
        BY <1>1, <1>2, <1>8, <2>1, <3>2 DEF Doc
      <4> QED  BY <1>1, <1>2, <1>7, <1>8, <2>1, <3>2, <4>1, <4>2
    <3> QED  BY <3>1, <3>2
  <2>3. (Over(c) /\ r.kind = "promote") \/ On(c, "gate") \/ Passed(c)
    BY <1>1, <1>4, <1>5, <1>6, <1>10, <2>1 DEF Unmark
  <2> QED  BY <2>1, <2>2, <2>3 DEF GateDoes, Passed
<1>11. CASE Gate(c)
  <2>1. r.pc = "gate" /\ Still
    BY <1>11 DEF Gate, At, Still
  <2>2. \/ Answer(c)
        \/ ~Needed(r.snap) /\ Goto(c, "unmark")
        \/ ~Needed(r.snap) /\ \E clear \in BOOLEAN : Pass(c, clear)
        \/ Needed(r.snap) /\ Goto(c, "partial") /\ (r.kind = "promote" \/ ~HasVariants(p))
        \/ Needed(r.snap) /\ HasVariants(p) /\ Goto(c, "resume")
        \/ Needed(r.snap) /\ ~HasVariants(p) /\ r.kind = "adopt" /\ Goto(c, "target")
    BY <1>11 DEF Gate
  <2> QED  BY <1>1, <1>4, <1>5, <1>6, <2>1, <2>2 DEF GateDoes
<1>12. CASE TargetAlive(c)
  BY <1>1, <1>4, <1>6, <1>12 DEF TargetAlive, At, Still, GateDoes
<1>13. CASE FindPartial(c)
  <2>1. r.pc \in {"partial", "resume"} /\ Still
    BY <1>13 DEF FindPartial, At, Still
  <2>2. ASSUME NEW v \in Partial(r), Go(c, ToRemap(r, v))
        PROVE  GateDoes(c)
    <3>1. v \in Rows
      BY <2>2 DEF Partial, LiveVariants
    <3> QED  BY <2>1, <2>2, <3>1, ToRemapDoes DEF GateDoes
  <2>3. ASSUME Partial(r) = {},
               \/ r.pc = "resume" /\ Pass(c, FALSE)
               \/ r.pc = "partial" /\ r.snap.marker = 0 /\ Goto(c, "mark")
               \/ r.pc = "partial" /\ r.snap.marker # 0 /\ Goto(c, "copy")
        PROVE  GateDoes(c)
    BY <1>1, <1>4, <1>5, <2>1, <2>3 DEF GateDoes
  <2> QED  BY <1>13, <2>1, <2>2, <2>3 DEF FindPartial, ToRemap
<1>14. CASE Mark(c)
  <2>1. r.pc = "mark" /\ added' = added /\ Token \in Tokens
    BY <1>14, TokenFresh DEF Mark, At
  <2>2. Rewrites(p, doc[p].own, Token)
    <3>1. CASE ~Live(p)
      BY <1>14, <3>1 DEF Mark, Rewrites
    <3>2. CASE Live(p)
      <4>1. Put(p, [doc[p] EXCEPT !.marker = Token])
        BY <1>14, <3>2 DEF Mark, Token
      <4>2. [doc[p] EXCEPT !.marker = Token] = [doc[p] EXCEPT !.own = doc[p].own, !.marker = Token]
        BY <1>1, <1>2, <1>8, <2>1, <3>2 DEF Doc
      <4> QED  BY <1>1, <1>2, <1>7, <1>8, <2>1, <3>2, <4>1, <4>2
    <3> QED  BY <3>1, <3>2
  <2>3. Go(c, ToCopy(r, Token)) /\ r \in Reqs /\ req \in [Clients -> Reqs] /\ r.snap \in Doc
    BY <1>1, <1>3, <1>14, <2>1 DEF Mark, Token, ToCopy, Typed
  <2>4. /\ req'[c] = ToCopy(r, Token)
    BY <2>3 DEF Go
  <2>5. Carried(c, "copy", [r.snap EXCEPT !.marker = Token]) /\ req'[c].copy = r.copy
    BY <2>1, <2>3, <2>4, ToCopyFields DEF Carried, Same
  <2> QED  BY <2>1, <2>2, <2>5 DEF GateDoes
<1>15. CASE Copy(c)
  <2>1. r.pc = "copy" /\ added' = added /\ r.snap \in Doc
    BY <1>1, <1>3, <1>15 DEF Copy, At
  <2>2. ASSUME NEW v \in NewRow, Put(v, Fresh(p, r.snap.own, r.snap.marker)),
               Go(c, ToRemap(r, v))
        PROVE  GateDoes(c)
    <3> DEFINE d == Fresh(p, r.snap.own, r.snap.marker)
    <3>1. v \in Rows /\ ~IsDoc(v)
      BY <2>2 DEF NewRow, Typed, Play
    <3>2. r.snap.own \in SUBSET Things /\ r.snap.marker \in Tokens \cup {0} /\ p \in Rows
      BY <1>1, <1>2, <2>1 DEF Doc
    <3>3. d \in Doc /\ d.live = TRUE /\ d.purged = FALSE /\ d.parent = p
          /\ d.own = r.snap.own /\ d.marker = 0 /\ d.by = r.snap.marker
      BY <3>2 DEF Fresh, Doc
    <3> HIDE DEF d
    <3>4. Becomes(v, d.live, d.purged, d.parent, d.own, d.marker, d.by)
      BY <2>2, <3>1, <3>3, Writing DEF d
    <3>5. Becomes(v, TRUE, FALSE, p, r.snap.own, 0, r.snap.marker)
      BY <3>3, <3>4
    <3> QED  BY <2>1, <2>2, <3>1, <3>5, ToRemapDoes DEF GateDoes
  <2> QED  BY <1>6, <1>15, <2>1, <2>2 DEF Copy, ToRemap, Still
<1>16. CASE Remap(c)
  BY <1>1, <1>4, <1>16 DEF Remap, At, Still, GateDoes
<1>17. CASE Complete(c)
  <2>1. r.pc = "complete" /\ added' = added
    BY <1>17 DEF Complete, At
  <2>2. Rewrites(p, {}, 0)
    BY <1>1, <1>2, <1>7, <1>17, <2>1 DEF Complete
  <2> QED  BY <1>1, <1>5, <1>17, <2>1, <2>2 DEF Complete, GateDoes
<1>18. CASE ClearAlarm(c)
  <2>1. r.pc = "alarm" /\ added' = added /\ Over(c)
    BY <1>6, <1>18 DEF ClearAlarm, At
  <2>2. Rewrites(p, doc[p].own \ {"alarm"}, doc[p].marker)
    <3>1. CASE ~Live(p)
      BY <1>18, <3>1 DEF ClearAlarm, Rewrites
    <3>2. CASE Live(p)
      <4>1. Put(p, [doc[p] EXCEPT !.own = @ \ {"alarm"}])
        BY <1>18, <3>2 DEF ClearAlarm
      <4>2. [doc[p] EXCEPT !.own = @ \ {"alarm"}]
              = [doc[p] EXCEPT !.own = doc[p].own \ {"alarm"}, !.marker = doc[p].marker]
        BY <1>2, <1>8, <2>1, <3>2 DEF Doc
      <4> QED  BY <1>2, <1>7, <1>8, <2>1, <3>2, <4>1, <4>2
    <3> QED  BY <3>1, <3>2
  <2> QED  BY <2>1, <2>2 DEF GateDoes
<1> QED  BY <1>9, <1>10, <1>11, <1>12, <1>13, <1>14, <1>15, <1>16, <1>17, <1>18 DEF GateStep

\* What a request names is there: no row ever goes away.
Names(r) ==
    /\ r.t # None => IsDoc(r.t)
    /\ r.p # None => IsDoc(r.p)

LEMMA InsertStepDoes ==
    ASSUME Typed, NEW c \in Clients, Shaped(req[c]), Insert(c)
    PROVE  (Still /\ Over(c)) \/ InsertDoes(c)
<1> DEFINE r == req[c]
<1>1. r.pc = "insert" /\ added' = added /\ r.p \in Rows
  BY DEF Insert, At, Shaped
<1>2. Color \subseteq Traits
  BY DEF Color, Typed, Play
<1>3. ASSUME NEW v \in NewRow, NEW own \in SUBSET Traits, Put(v, Fresh(r.p, own, 0)),
             EndVariantWrite(c)
      PROVE  InsertDoes(c)
  <2> DEFINE d == Fresh(r.p, own, 0)
  <2>1. v \in Rows /\ ~IsDoc(v)
    BY <1>3 DEF NewRow, Typed, Play
  <2>2. d \in Doc /\ d.live = TRUE /\ d.purged = FALSE /\ d.parent = r.p
        /\ d.own = own /\ d.marker = 0 /\ d.by = 0
    BY <1>1, <1>3 DEF Fresh, Doc, Things
  <2> HIDE DEF d
  <2>3. Becomes(v, d.live, d.purged, d.parent, d.own, d.marker, d.by)
    BY <1>3, <2>1, <2>2, Writing DEF d
  <2>4. Becomes(v, TRUE, FALSE, r.p, own, 0, 0)
    BY <2>2, <2>3
  <2>5. Ended(c)
    BY <1>3, EndDoes
  <2> QED  BY <1>1, <1>3, <2>1, <2>4, <2>5 DEF InsertDoes
<1>4. \/ \E v \in NewRow, own \in SUBSET Traits :
            Put(v, Fresh(r.p, own, 0)) /\ EndVariantWrite(c)
      \/ Answer(c) /\ Still
  BY <1>2 DEF Insert, Still
<1> QED  BY <1>3, <1>4, AnswerDoes

LEMMA AssertStepDoes ==
    ASSUME Typed, NEW c \in Clients, Shaped(req[c]),
           AssertParent(c) \/ AssertVariants(c) \/ Rollback(c)
    PROVE  PutDoes(c)
<1> DEFINE r == req[c]
           t == req[c].t
           p == req[c].p
           AnyPc == Outside \cup Entries \cup Inside
<1>1. {"assertParent", "assertVariants", "rollback"} \subseteq AnyPc
  BY DEF Outside
<1>2. \A pc \in AnyPc : Goto(c, pc) => On(c, pc)
  BY GotoDoes
<1>3. Answer(c) => Over(c)
  BY AnswerDoes
<1>5. r \in Reqs /\ req \in [Clients -> Reqs]
  BY DEF Typed
<1> HIDE DEF AnyPc
<1>4. ASSUME NEW pc \in {"assertParent", "assertVariants"},
              NEW other \in {"assertParent", "assertVariants"}, NEW bad \in BOOLEAN,
              AssertOutcome(c, pc, other, bad)
       PROVE  /\ r.pc = pc /\ Still
              /\ \/ On(c, "rollback")
                 \/ ~bad /\ r.half /\ Ended(c)
                 \/ ~bad /\ Halved(c, other)
  <2>1. r.pc = pc /\ Still
    BY <1>4 DEF AssertOutcome, At, Still
  <2>2. \/ Goto(c, "rollback")
        \/ ~bad /\ ~r.half /\ Go(c, [r EXCEPT !.pc = other, !.half = TRUE])
        \/ ~bad /\ r.half /\ EndVariantWrite(c)
    BY <1>4 DEF AssertOutcome
  <2>3. ASSUME Go(c, [r EXCEPT !.pc = other, !.half = TRUE]), ~r.half
        PROVE  Halved(c, other)
    <3> DEFINE q == [r EXCEPT !.pc = other, !.half = TRUE]
    <3>1. q.pc = other /\ q.kind = r.kind /\ q.t = r.t /\ q.p = r.p /\ q.spool = r.spool
          /\ q.snap = r.snap /\ q.half = TRUE
      BY <1>5 DEF Reqs
    <3>2. req'[c] = q
      BY <1>5, <2>3 DEF Go
    <3> HIDE DEF q
    <3> QED  BY <2>3, <3>1, <3>2 DEF Halved, Same
  <2> QED  BY <1>1, <1>2, <2>1, <2>2, <2>3, EndDoes
<1>7. CASE AssertParent(c)
  <2>1. PICK bad \in BOOLEAN : bad = (~Live(p) \/ doc[p].parent # None)
    OBVIOUS
  <2>2. AssertOutcome(c, "assertParent", "assertVariants", bad)
    BY <1>7, <2>1 DEF AssertParent
  <2> QED  BY <1>4, <2>1, <2>2 DEF PutDoes
<1>8. CASE AssertVariants(c)
  <2>1. PICK bad \in BOOLEAN : bad = HasVariants(t)
    BY DEF HasVariants
  <2>2. AssertOutcome(c, "assertVariants", "assertParent", bad)
    BY <1>8, <2>1 DEF AssertVariants
  <2> QED  BY <1>4, <2>1, <2>2 DEF PutDoes
<1>9. CASE Rollback(c)
  <2>1. r.pc = "rollback" /\ added' = added /\ Over(c) /\ t \in Rows
    BY <1>3, <1>9 DEF Rollback, At, Shaped
  <2>2. CASE ~(Live(t) /\ doc[t].parent = p)
    BY <1>9, <2>1, <2>2 DEF Rollback, PutDoes
  <2>3. CASE Live(t) /\ doc[t].parent = p
    <3> DEFINE d == [doc[t] EXCEPT !.parent = None]
    <3>1. doc[t] \in Doc /\ doc[t].live = TRUE
      BY <2>1, <2>3, DocFields, LiveIsDoc
    <3>2. d \in Doc /\ d.live = TRUE /\ d.purged = doc[t].purged /\ d.parent = None
          /\ d.own = doc[t].own /\ d.marker = doc[t].marker /\ d.by = doc[t].by
      BY <3>1 DEF Doc
    <3>3. Put(t, d)
      BY <1>9, <2>3 DEF Rollback
    <3> HIDE DEF d
    <3>4. Becomes(t, d.live, d.purged, d.parent, d.own, d.marker, d.by)
      BY <2>1, <3>2, <3>3, Writing
    <3> QED  BY <2>1, <2>3, <3>2, <3>4 DEF PutDoes
  <2> QED  BY <2>2, <2>3
<1> QED  BY <1>7, <1>8, <1>9

LEMMA PutStepDoes ==
    ASSUME Typed, NEW c \in Clients, Shaped(req[c]), PutStep(c)
    PROVE  (Still /\ Over(c)) \/ PutDoes(c)
<1> DEFINE r == req[c]
           t == req[c].t
           p == req[c].p
           AnyPc == Outside \cup Entries \cup Inside
<1>1. {"putVariants", "putStored", "strip", "fetch", "write", "assertParent",
       "assertVariants", "rollback"} \subseteq AnyPc
  BY DEF Inside, Outside, Entries
<1>2. \A pc \in AnyPc : Goto(c, pc) => On(c, pc)
  BY GotoDoes
<1>3. \A pc \in AnyPc, k \in Rows : Enter(c, k, [r EXCEPT !.pc = pc]) => On(c, pc)
  BY EnterDoes
<1>4. \A pc \in AnyPc : Leave(c, [r EXCEPT !.pc = pc]) => On(c, pc)
  BY LeaveDoes
<1>5. Answer(c) => Over(c)
  BY AnswerDoes
<1>6. r \in Reqs /\ req \in [Clients -> Reqs]
  BY DEF Typed
<1> HIDE DEF AnyPc
<1>7. CASE PutParent(c)
  BY <1>1, <1>2, <1>5, <1>7 DEF PutParent, At, PutDoes, Still
<1>8. CASE PutVariants(c)
  BY <1>1, <1>2, <1>5, <1>8 DEF PutVariants, At, PutDoes, Still
<1>9. CASE PutStored(c)
  <2>1. r.pc = "putStored" /\ Still /\ t \in Rows /\ p \in Rows
    BY <1>9 DEF PutStored, At, Still, Shaped
  <2>2. Enter(c, t, [r EXCEPT !.pc = "strip"]) \/ Enter(c, p, [r EXCEPT !.pc = "fetch"])
    BY <1>9 DEF PutStored
  <2>3. On(c, "strip") \/ On(c, "fetch")
    BY <1>1, <1>3, <2>1, <2>2
  <2> QED  BY <2>1, <2>3 DEF PutDoes
<1>10. CASE Strip(c)
  <2>1. r.pc = "strip" /\ Still
    BY <1>10 DEF Strip, At, Still
  <2>2. PICK b \in BOOLEAN : Go(c, [r EXCEPT !.pc = "write", !.paint = b])
    <3>1. Go(c, [r EXCEPT !.pc = "write", !.paint = r.paint /\ ~HasVariants(r.t)])
      BY <1>10 DEF Strip
    <3> QED  BY <3>1
  <2> DEFINE q == [r EXCEPT !.pc = "write", !.paint = b]
  <2>3. q.pc = "write" /\ q.kind = r.kind /\ q.t = r.t /\ q.p = r.p /\ q.spool = r.spool
        /\ q.snap = r.snap /\ q.copy = r.copy /\ q.half = r.half
    BY <1>6 DEF Reqs
  <2>4. req'[c] = q
    BY <1>6, <2>2 DEF Go
  <2> HIDE DEF q
  <2>5. On(c, "write")
    BY <2>3, <2>4 DEF On, Same
  <2> QED  BY <2>1, <2>5 DEF PutDoes
<1>11. CASE Write(c)
  <2>1. r.pc = "write" /\ added' = added /\ t \in Rows
        /\ r.kind \in {"adopt", "detach", "paint"} /\ (r.kind = "adopt" => p \in Rows)
    BY <1>11 DEF Write, At, Shaped
  <2>2. CASE ~Live(t)
    BY <1>5, <1>11, <2>1, <2>2 DEF Write, Still
  <2>3. CASE Live(t)
    <3>1. PICK more \in SUBSET Traits :
            more = IF r.paint THEN Color ELSE {}
      <4>1. (IF r.paint THEN Color ELSE {}) \in SUBSET Traits
        BY DEF Color, Typed, Play
      <4> QED  BY <4>1
    <3>2. PICK parent \in Rows \cup {None} :
            /\ r.kind = "adopt" => parent = p
            /\ r.kind = "detach" => parent = None
            /\ r.kind = "paint" => parent = doc[t].parent
            /\ Put(t, [doc[t] EXCEPT !.parent = parent, !.own = @ \cup more])
      <4> DEFINE x == CASE r.kind = "adopt"  -> p
                        [] r.kind = "detach" -> None
                        [] OTHER             -> doc[t].parent
      <4>1. /\ r.kind = "adopt" => x = p
            /\ r.kind = "detach" => x = None
            /\ r.kind = "paint" => x = doc[t].parent
        OBVIOUS
      <4>2. doc[t].parent \in Rows \cup {None}
        BY <2>1, <2>3, DocFields, LiveIsDoc
      <4>3. x \in Rows \cup {None}
        BY <2>1, <4>1, <4>2
      <4>4. Put(t, [doc[t] EXCEPT !.parent = x, !.own = @ \cup more])
        BY <1>11, <2>3, <3>1 DEF Write
      <4> HIDE DEF x
      <4> QED  BY <4>1, <4>3, <4>4
    <3>3. \/ /\ r.kind = "adopt"
             /\ \E first \in {"assertParent", "assertVariants"} : Leave(c, [r EXCEPT !.pc = first])
          \/ r.kind # "adopt" /\ Answer(c)
      BY <1>11, <2>3 DEF Write
    <3>4. Becomes(t, TRUE, doc[t].purged, parent, doc[t].own \cup more, doc[t].marker, doc[t].by)
      <4> DEFINE d == [doc[t] EXCEPT !.parent = parent, !.own = @ \cup more]
      <4>1. doc[t] \in Doc /\ doc[t].live = TRUE
        BY <2>1, <2>3, DocFields, LiveIsDoc
      <4>2. d \in Doc /\ d.live = TRUE /\ d.purged = doc[t].purged /\ d.parent = parent
            /\ d.own = doc[t].own \cup more /\ d.marker = doc[t].marker /\ d.by = doc[t].by
        BY <4>1 DEF Doc, Things
      <4> HIDE DEF d
      <4>3. Becomes(t, d.live, d.purged, d.parent, d.own, d.marker, d.by)
        BY <2>1, <3>2, <4>2, Writing DEF d
      <4> QED  BY <4>2, <4>3
    <3>5. \/ r.kind = "adopt" /\ (On(c, "assertParent") \/ On(c, "assertVariants"))
          \/ r.kind # "adopt" /\ Over(c)
      BY <1>1, <1>4, <1>5, <3>3
    <3> QED  BY <2>1, <2>3, <3>2, <3>4, <3>5 DEF PutDoes
  <2> QED  BY <2>2, <2>3
<1> QED  BY <1>7, <1>8, <1>9, <1>10, <1>11, AssertStepDoes DEF PutStep

LEMMA DeleteStepDoes ==
    ASSUME Typed, NEW c \in Clients, Shaped(req[c]), Names(req[c]), DeleteStep(c)
    PROVE  (Still /\ Over(c)) \/ DeleteDoes(c)
<1> DEFINE r == req[c]
           t == req[c].t
           AnyPc == Outside \cup Entries \cup Inside
<1>1. {"trashRead", "trashSlots", "trashWrite", "purgeCheck", "purgeSlots", "purgeWrite"}
        \subseteq AnyPc
  BY DEF Inside, Outside
<1>2. \A pc \in AnyPc : Goto(c, pc) => On(c, pc)
  BY GotoDoes
<1>3. \A pc \in AnyPc, snap \in Doc \cup {NoDoc} : Go(c, Carry(r, pc, snap)) => Carried(c, pc, snap)
  BY CarryDoes
<1>4. Answer(c) => Over(c)
  BY AnswerDoes
<1>5. r.pc \in {"trashCheck", "trashRead", "trashSlots", "trashWrite", "purgeRead",
                "purgeCheck", "purgeSlots", "purgeWrite"}
        => t \in Rows /\ IsDoc(t) /\ doc[t] \in Doc
  BY DocFields, FamiliesAssumption DEF Shaped, Names
<1> HIDE DEF AnyPc
<1>6. CASE TrashCheck(c) \/ PurgeCheck(c)
  BY <1>1, <1>2, <1>4, <1>6 DEF TrashCheck, PurgeCheck, At, Still, DeleteDoes
<1>7. CASE TrashRead(c) \/ PurgeRead(c)
  <2>1. /\ r.pc \in {"trashRead", "purgeRead"} /\ Still
        /\ \/ Answer(c)
           \/ r.pc = "trashRead" /\ Live(t) /\ Go(c, Carry(r, "trashSlots", doc[t]))
           \/ r.pc = "purgeRead" /\ InTrash(t) /\ Go(c, Carry(r, "purgeCheck", doc[t]))
    BY <1>7 DEF TrashRead, PurgeRead, At, Still, Carry
  <2> QED  BY <1>1, <1>3, <1>4, <1>5, <2>1 DEF DeleteDoes
<1>8. CASE ClearSlots(c, "trashSlots", "trashWrite") \/ ClearSlots(c, "purgeSlots", "purgeWrite")
  <2>1. /\ Still
        /\ \/ r.pc = "trashSlots" /\ Go(c, Carry(r, "trashWrite", NoDoc))
           \/ r.pc = "purgeSlots" /\ Go(c, Carry(r, "purgeWrite", NoDoc))
    BY <1>8 DEF ClearSlots, At, Still, Carry
  <2> QED  BY <1>1, <1>3, <2>1 DEF DeleteDoes
<1>9. CASE TrashWrite(c)
  <2>1. r.pc = "trashWrite" /\ added' = added /\ Over(c)
    BY <1>4, <1>9 DEF TrashWrite, At
  <2>2. CASE ~Live(t)
    BY <1>9, <2>1, <2>2 DEF TrashWrite, DeleteDoes
  <2>3. CASE Live(t)
    <3> DEFINE d == [doc[t] EXCEPT !.live = FALSE]
    <3>1. d \in Doc /\ d.live = FALSE /\ d.purged = doc[t].purged /\ d.parent = doc[t].parent
          /\ d.own = doc[t].own /\ d.marker = doc[t].marker /\ d.by = doc[t].by
      BY <1>5, <2>1 DEF Doc
    <3>2. Put(t, d)
      BY <1>9, <2>3 DEF TrashWrite
    <3> HIDE DEF d
    <3>3. Becomes(t, d.live, d.purged, d.parent, d.own, d.marker, d.by)
      BY <1>5, <2>1, <3>1, <3>2, Writing
    <3> QED  BY <2>1, <2>3, <3>1, <3>3 DEF DeleteDoes
  <2> QED  BY <2>2, <2>3
<1>10. CASE PurgeWrite(c)
  <2>1. r.pc = "purgeWrite" /\ added' = added /\ Over(c)
    BY <1>4, <1>10 DEF PurgeWrite, At
  <2> DEFINE d == [doc[t] EXCEPT !.live = FALSE, !.purged = TRUE]
  <2>2. d \in Doc /\ d.live = FALSE /\ d.purged = TRUE /\ d.parent = doc[t].parent
        /\ d.own = doc[t].own /\ d.marker = doc[t].marker /\ d.by = doc[t].by
    BY <1>5, <2>1 DEF Doc
  <2>3. Put(t, d)
    BY <1>10 DEF PurgeWrite
  <2> HIDE DEF d
  <2>4. Becomes(t, d.live, d.purged, d.parent, d.own, d.marker, d.by)
    BY <1>5, <2>1, <2>2, <2>3, Writing
  <2> QED  BY <2>1, <2>2, <2>4 DEF DeleteDoes
<1> QED  BY <1>6, <1>7, <1>8, <1>9, <1>10 DEF DeleteStep

\* A request that goes on with its target's parent.
Upward(r, p, pc) == [r EXCEPT !.p = p, !.pc = pc]

LEMMA UpwardDoes ==
    ASSUME Typed, NEW c \in Clients, NEW p \in Rows,
           NEW pc \in Outside \cup Entries \cup Inside,
           \/ Go(c, Upward(req[c], p, pc))
           \/ \E k \in Rows : Enter(c, k, Upward(req[c], p, pc))
    PROVE  LET r == req[c]
               q == req'[c]
           IN q.pc = pc /\ q.kind = r.kind /\ q.t = r.t /\ q.p = p /\ q.spool = r.spool
              /\ q.snap = r.snap /\ q.copy = r.copy
<1> DEFINE r == req[c]
           u == Upward(req[c], p, pc)
           q == req'[c]
<1>1. r \in Reqs /\ req \in [Clients -> Reqs]
  BY DEF Typed
<1>2. u \in Reqs
  BY <1>1 DEF Upward, Reqs
<1>3. u.pc = pc /\ u.kind = r.kind /\ u.t = r.t /\ u.p = p /\ u.spool = r.spool
      /\ u.snap = r.snap /\ u.copy = r.copy
  BY <1>1 DEF Upward, Reqs
<1> HIDE DEF u
<1>4. q = u \/ \E k \in Rows : q = [u EXCEPT !.key = k]
  BY <1>1 DEF Go, Enter, u
<1> QED  BY <1>2, <1>3, <1>4 DEF Reqs

LEMMA RestoreStepDoes ==
    ASSUME Typed, NEW c \in Clients, Shaped(req[c]), Names(req[c]), RestoreStep(c)
    PROVE  (Still /\ Over(c)) \/ RestoreDoes(c)
<1> DEFINE r == req[c]
           t == req[c].t
           AnyPc == Outside \cup Entries \cup Inside
<1>1. {"save", "restoreParent", "fetch"} \subseteq AnyPc
  BY DEF Inside, Outside, Entries
<1>2. \A pc \in AnyPc : Goto(c, pc) => On(c, pc)
  BY GotoDoes
<1>3. \A pc \in AnyPc, k \in Rows : Enter(c, k, [r EXCEPT !.pc = pc]) => On(c, pc)
  BY EnterDoes
<1>4. Answer(c) => Over(c)
  BY AnswerDoes
<1>5. r.pc \in {"restoreRead", "save"} => t \in Rows /\ IsDoc(t) /\ doc[t] \in Doc
  BY DocFields, FamiliesAssumption DEF Shaped, Names
<1>6. CASE RestoreRead(c)
  <2>1. r.pc = "restoreRead" /\ Still /\ doc[t].parent \in Rows \cup {None}
    BY <1>5, <1>6 DEF RestoreRead, At, Still, Doc
  <2>2. CASE ~InTrash(t)
    BY <1>4, <1>6, <2>1, <2>2 DEF RestoreRead
  <2>3. CASE InTrash(t) /\ doc[t].parent = None
    <3>1. Goto(c, "save")
      BY <1>6, <2>3 DEF RestoreRead
    <3> QED  BY <1>1, <1>2, <2>1, <2>3, <3>1 DEF RestoreDoes
  <2>4. CASE InTrash(t) /\ doc[t].parent # None
    <3>1. Go(c, Upward(r, doc[t].parent, "restoreParent"))
      BY <1>6, <2>4 DEF RestoreRead, Upward
    <3> QED  BY <1>1, <2>1, <2>4, <3>1, UpwardDoes DEF RestoreDoes
  <2> QED  BY <2>2, <2>3, <2>4
<1>7. CASE RestoreParent(c)
  <2>1. r.pc = "restoreParent" /\ Still /\ r.p \in Rows
    BY <1>7 DEF RestoreParent, At, Still, Shaped
  <2>2. Answer(c) \/ (Live(r.p) /\ Enter(c, r.p, [r EXCEPT !.pc = "fetch"]))
    BY <1>7 DEF RestoreParent
  <2> QED  BY <1>1, <1>3, <1>4, <2>1, <2>2 DEF RestoreDoes
<1>8. CASE Save(c)
  <2>1. r.pc = "save" /\ added' = added /\ Ended(c)
    BY <1>8, EndDoes DEF Save, At
  <2> DEFINE d == [doc[t] EXCEPT !.live = TRUE]
  <2>2. d \in Doc /\ d.live = TRUE /\ d.purged = doc[t].purged /\ d.parent = doc[t].parent
        /\ d.own = doc[t].own /\ d.marker = doc[t].marker /\ d.by = doc[t].by
    BY <1>5, <2>1 DEF Doc
  <2>3. Put(t, d)
    BY <1>8 DEF Save
  <2> HIDE DEF d
  <2>4. Becomes(t, d.live, d.purged, d.parent, d.own, d.marker, d.by)
    BY <1>5, <2>1, <2>2, <2>3, Writing
  <2> QED  BY <2>1, <2>2, <2>4 DEF RestoreDoes
<1> QED  BY <1>6, <1>7, <1>8 DEF RestoreStep

LEMMA ReviveStepDoes ==
    ASSUME Typed, NEW c \in Clients, Shaped(req[c]), Names(req[c]), ReviveStep(c)
    PROVE  (Still /\ Over(c)) \/ ReviveDoes(c)
<1> DEFINE r == req[c]
           t == req[c].t
           AnyPc == Outside \cup Entries \cup Inside
<1>1. {"reviveGate", "reviveCheck", "reviveWrite", "reviveAlarm", "alarm"} \subseteq AnyPc
  BY DEF Inside, Entries
<1>2. \A pc \in AnyPc : Goto(c, pc) => On(c, pc)
  BY GotoDoes
<1>3. \A pc \in AnyPc, snap \in Doc \cup {NoDoc} : Go(c, Carry(r, pc, snap)) => Carried(c, pc, snap)
  BY CarryDoes
<1>4. Answer(c) => Over(c)
  BY AnswerDoes
<1>5. r.pc \in {"reviveRead", "reviveWrite"} => t \in Rows /\ IsDoc(t) /\ doc[t] \in Doc
  BY DocFields, FamiliesAssumption DEF Shaped, Names
<1>6. r \in Reqs /\ req \in [Clients -> Reqs]
  BY DEF Typed
<1>7. CASE ReviveRead(c)
  <2>1. r.pc = "reviveRead" /\ Still /\ doc[t].parent \in Rows \cup {None}
    BY <1>5, <1>7 DEF ReviveRead, At, Still, Doc
  <2>2. CASE ~InTrash(t)
    BY <1>4, <1>7, <2>1, <2>2 DEF ReviveRead
  <2>3. CASE InTrash(t) /\ doc[t].parent = None
    <3>1. Goto(c, "reviveWrite")
      BY <1>7, <2>3 DEF ReviveRead
    <3> QED  BY <1>1, <1>2, <2>1, <2>3, <3>1 DEF ReviveDoes
  <2>4. CASE InTrash(t) /\ doc[t].parent # None
    <3>1. Enter(c, doc[t].parent, Upward(r, doc[t].parent, "reviveGate"))
      BY <1>7, <2>4 DEF ReviveRead, Upward
    <3> QED  BY <1>1, <2>1, <2>4, <3>1, UpwardDoes DEF ReviveDoes
  <2> QED  BY <2>2, <2>3, <2>4
<1>8. CASE ReviveGate(c)
  <2>1. r.pc = "reviveGate" /\ Still /\ r.p \in Rows /\ doc[r.p] \in Doc \cup {NoDoc}
    BY <1>8 DEF ReviveGate, At, Still, Shaped, Typed
  <2>2. \/ Live(r.p) /\ Go(c, Carry(r, "reviveCheck", doc[r.p]))
        \/ Goto(c, "reviveWrite")
    BY <1>8 DEF ReviveGate, Carry
  <2> QED  BY <1>1, <1>2, <1>3, <2>1, <2>2 DEF ReviveDoes
<1>9. CASE ReviveCheck(c)
  <2>1. r.pc = "reviveCheck" /\ Still
    BY <1>9 DEF ReviveCheck, At, Still
  <2> DEFINE u == Carry(r, "reviveWrite", NoDoc)
             w == [u EXCEPT !.clear = TRUE]
  <2>2. Go(c, u) \/ Go(c, w) \/ Answer(c)
    BY <1>9 DEF ReviveCheck, Carry
  <2>3. /\ u \in Reqs /\ u.pc = "reviveWrite" /\ u.kind = r.kind /\ u.t = r.t /\ u.p = r.p
        /\ u.spool = r.spool /\ u.snap = NoDoc /\ u.half = r.half
    BY <1>1, <1>6, CarryFields
  <2> HIDE DEF u
  <2>4. /\ w.pc = "reviveWrite" /\ w.kind = r.kind /\ w.t = r.t /\ w.p = r.p
        /\ w.spool = r.spool /\ w.snap = NoDoc /\ w.half = r.half
    BY <2>3 DEF Reqs
  <2> HIDE DEF w
  <2>5. ASSUME Go(c, u) \/ Go(c, w)
        PROVE  Carried(c, "reviveWrite", NoDoc)
    BY <1>6, <2>3, <2>4, <2>5 DEF Go, Carried, Same
  <2> QED  BY <1>4, <2>1, <2>2, <2>5 DEF ReviveDoes
<1>10. CASE ReviveWrite(c)
  <2>1. r.pc = "reviveWrite" /\ added' = added
    BY <1>10 DEF ReviveWrite, At
  <2>2. Over(c) \/ On(c, "reviveAlarm")
    BY <1>1, <1>2, <1>4, <1>10 DEF ReviveWrite
  <2>3. CASE ~InTrash(t)
    BY <1>10, <2>1, <2>2, <2>3 DEF ReviveWrite, ReviveDoes
  <2>4. CASE InTrash(t)
    <3> DEFINE d == [doc[t] EXCEPT !.live = TRUE, !.own = @ \cup Color]
    <3>1. Color \in SUBSET Traits
      BY DEF Color, Typed, Play
    <3>2. doc[t].purged = FALSE
      BY <1>5, <2>1, <2>4 DEF InTrash, Doc
    <3>3. d \in Doc /\ d.live = TRUE /\ d.purged = FALSE /\ d.parent = doc[t].parent
          /\ d.own = doc[t].own \cup Color /\ d.marker = doc[t].marker /\ d.by = doc[t].by
      BY <1>5, <2>1, <3>1, <3>2 DEF Doc, Things
    <3>4. Put(t, d)
      BY <1>10, <2>4 DEF ReviveWrite
    <3> HIDE DEF d
    <3>5. Becomes(t, d.live, d.purged, d.parent, d.own, d.marker, d.by)
      BY <1>5, <2>1, <3>3, <3>4, Writing
    <3> QED  BY <2>1, <2>2, <2>4, <3>1, <3>3, <3>5 DEF ReviveDoes
  <2> QED  BY <2>3, <2>4
<1>11. CASE ReviveAlarm(c)
  BY <1>1, <1>2, <1>4, <1>11 DEF ReviveAlarm, At, Still, ReviveDoes
<1> QED  BY <1>7, <1>8, <1>9, <1>10, <1>11 DEF ReviveStep

LEMMA SpoolStepDoes ==
    ASSUME Typed, NEW c \in Clients, Shaped(req[c]), Names(req[c]), SpoolStep(c)
    PROVE  (Still /\ Over(c)) \/ SpoolDoes(c)
<1> DEFINE r == req[c]
           t == req[c].t
           s == req[c].spool
           AnyPc == Outside \cup Entries \cup Inside
<1>1. {"push", "pushAgain", "pull", "dropSlots", "drop", "dropSlotsAgain"} \subseteq AnyPc
  BY DEF Inside
<1>2. \A pc \in AnyPc : Goto(c, pc) => On(c, pc)
  BY GotoDoes
<1>3. Answer(c) => Over(c)
  BY AnswerDoes
<1>4. r.pc \in {"push", "pull", "drop"}
        => t \in Rows /\ s \in Spools /\ IsDoc(t) /\ doc[t] \in Doc
  BY DocFields, FamiliesAssumption DEF Shaped, Names
<1> HIDE DEF AnyPc
<1>5. ASSUME r.pc \in {"push", "pull", "drop"}, NEW own \in SUBSET Things,
             Put(t, [doc[t] EXCEPT !.own = own])
      PROVE  Becomes(t, doc[t].live, doc[t].purged, doc[t].parent, own, doc[t].marker, doc[t].by)
  <2> DEFINE d == [doc[t] EXCEPT !.own = own]
  <2>1. d \in Doc /\ d.live = doc[t].live /\ d.purged = doc[t].purged /\ d.parent = doc[t].parent
        /\ d.own = own /\ d.marker = doc[t].marker /\ d.by = doc[t].by
    BY <1>4, <1>5 DEF Doc
  <2> HIDE DEF d
  <2>2. Becomes(t, d.live, d.purged, d.parent, d.own, d.marker, d.by)
    BY <1>4, <1>5, <2>1, Writing DEF d
  <2> QED  BY <2>1, <2>2
<1>6. r.pc \in {"push", "pull", "drop"} =>
        doc[t].own \cup {s} \in SUBSET Things /\ doc[t].own \ {s} \in SUBSET Things
  BY <1>4 DEF Doc, Things
<1>7. Live(t) /\ r.pc \in {"push", "drop"} => doc[t].live = TRUE
  BY <1>4 DEF Live, Doc
<1>8. CASE PushCheck(c) \/ PushAgain(c)
  BY <1>1, <1>2, <1>3, <1>8 DEF PushCheck, PushAgain, At, Still, SpoolDoes
<1>9. CASE Push(c)
  <2>1. r.pc = "push"
    BY <1>9 DEF Push, At
  <2>2. CASE ~Live(t)
    BY <1>3, <1>9, <2>2 DEF Push, Still
  <2>3. CASE Live(t)
    <3>1. /\ Put(t, [doc[t] EXCEPT !.own = doc[t].own \cup {s}])
          /\ added' = added \cup {s} /\ Goto(c, "pushAgain")
      BY <1>9, <2>3 DEF Push
    <3>2. On(c, "pushAgain")
      BY <1>1, <1>2, <3>1
    <3>3. Becomes(t, TRUE, doc[t].purged, doc[t].parent, doc[t].own \cup {s}, doc[t].marker, doc[t].by)
      BY <1>5, <1>6, <1>7, <2>1, <2>3, <3>1
    <3> QED  BY <2>1, <2>3, <3>1, <3>2, <3>3 DEF SpoolDoes
  <2> QED  BY <2>2, <2>3
<1>10. CASE Pull(c)
  <2>1. /\ r.pc = "pull" /\ added' = added \ {s} /\ Over(c)
        /\ Put(t, [doc[t] EXCEPT !.own = doc[t].own \ {s}])
    BY <1>3, <1>10 DEF Pull, At
  <2> QED  BY <1>5, <1>6, <2>1 DEF SpoolDoes
<1>11. CASE DropCheck(c)
  BY <1>1, <1>2, <1>3, <1>11 DEF DropCheck, At, Still, SpoolDoes
<1>12. CASE DropSlots(c)
  BY <1>1, <1>2, <1>12 DEF DropSlots, At, Still, SpoolDoes
<1>13. CASE Drop(c)
  <2>1. r.pc = "drop"
    BY <1>13 DEF Drop, At
  <2>2. CASE ~(Live(t) /\ s \in doc[t].own)
    BY <1>3, <1>13, <2>2 DEF Drop, Still
  <2>3. CASE Live(t) /\ s \in doc[t].own
    <3>1. /\ Put(t, [doc[t] EXCEPT !.own = doc[t].own \ {s}])
          /\ added' = added \ {s} /\ Goto(c, "dropSlotsAgain")
      BY <1>13, <2>3 DEF Drop
    <3>2. On(c, "dropSlotsAgain")
      BY <1>1, <1>2, <3>1
    <3>3. Becomes(t, TRUE, doc[t].purged, doc[t].parent, doc[t].own \ {s}, doc[t].marker, doc[t].by)
      BY <1>5, <1>6, <1>7, <2>1, <2>3, <3>1
    <3> QED  BY <2>1, <2>3, <3>1, <3>2, <3>3 DEF SpoolDoes
  <2> QED  BY <2>2, <2>3
<1>14. CASE DropSlotsAgain(c)
  BY <1>3, <1>14 DEF DropSlotsAgain, At, Still
<1> QED  BY <1>8, <1>9, <1>10, <1>11, <1>12, <1>13, <1>14 DEF SpoolStep

LEMMA StepDoes ==
    ASSUME Typed, NEW c \in Clients, Shaped(req[c]), Names(req[c]),
           Submit(c) \/ Step(c) \/ Fail(c)
    PROVE  Does(c)
<1>1. CASE Submit(c)
  BY <1>1, SubmitSends DEF Does
<1>2. CASE Step(c)
  BY <1>2, GateStepDoes, InsertStepDoes, PutStepDoes, DeleteStepDoes, RestoreStepDoes,
     ReviveStepDoes, SpoolStepDoes DEF Step, Does
<1>3. CASE Fail(c)
  BY <1>3, AnswerDoes DEF Fail, Still, Does
<1> QED  BY <1>1, <1>2, <1>3

-----------------------------------------------------------------------------
(* Types, places and names are kept.                                       *)

\* A parent is another row, and there; so is what a request names.
Known ==
    /\ \A f \in Rows : IsDoc(f) =>
          doc[f].parent # f /\ (doc[f].parent # None => IsDoc(doc[f].parent))
    /\ \A c \in Clients : Names(req[c])

\* A request is one that its client sends.
Asked == \A c \in Clients : req[c].pc # "idle" => req[c].kind \in play.kinds[c]

Settled == Places /\ Known /\ Asked

LEMMA BecomesKept ==
    ASSUME Typed, NEW f, NEW live, NEW purged, NEW parent, NEW own, NEW marker, NEW by,
           Becomes(f, live, purged, parent, own, marker, by)
    PROVE  /\ f \in Rows /\ doc' \in [Rows -> Doc \cup {NoDoc}]
           /\ (IsDoc(f))' /\ \A g \in Rows : IsDoc(g) => (IsDoc(g))'
           /\ \A g \in Rows \ {f} : (IsDoc(g))' = IsDoc(g) /\ doc'[g] = doc[g]
BY FamiliesAssumption DEF Becomes, IsDoc

\* What one step does to the rows: nothing, or it writes one of them, which is
\* new or keeps its parent, loses it or is given the one that the request names.
Wrote(c) ==
    \/ doc' = doc
    \/ \E f, live, purged, parent, own, marker, by :
          /\ Becomes(f, live, purged, parent, own, marker, by)
          /\ parent \in Rows \cup {None}
          /\ \/ /\ IsDoc(f) /\ parent = doc[f].parent
                /\ live => doc[f].live \/ req[c].kind \in {"restore", "revive"}
             \/ IsDoc(f) /\ parent = None
             \/ ~IsDoc(f) /\ parent = req[c].p /\ req[c].pc \in {"copy", "insert"}
             \/ /\ Live(f) /\ f = req[c].t /\ parent = req[c].p
                /\ req[c].pc = "write" /\ req[c].kind = "adopt"
                /\ On(c, "assertParent") \/ On(c, "assertVariants")

LEMMA DoesWrote ==
    ASSUME Typed, NEW c \in Clients, Shaped(req[c]), Names(req[c]), Does(c)
    PROVE  Wrote(c)
<1> DEFINE r == req[c]
           p == req[c].p
           t == req[c].t
<1>1. r \in Reqs /\ p \in Rows \cup {None} /\ t \in Rows \cup {None} /\ None \notin Rows
  BY FamiliesAssumption DEF Typed, Reqs
<1>2. \A f \in Rows : IsDoc(f) => doc[f].parent \in Rows \cup {None}
  BY DocFields
<1>3. \A f \in Rows \cup {None} : Live(f) => f \in Rows /\ IsDoc(f) /\ doc[f].live
  BY LiveIsDoc
<1>4. ASSUME NEW f \in Rows \cup {None}, NEW own, NEW marker, Rewrites(f, own, marker)
      PROVE  Wrote(c)
  BY <1>2, <1>3, <1>4 DEF Rewrites, Wrote
<1>5. CASE GateDoes(c)
  <2>1. CASE doc' = doc
    BY <2>1 DEF Wrote
  <2>2. ASSUME NEW v \in Rows, ~IsDoc(v),
               Becomes(v, TRUE, FALSE, p, r.snap.own, 0, r.snap.marker), r.pc = "copy"
        PROVE  Wrote(c)
    <3>1. p \in Rows \cup {None}
      BY <1>1
    <3> QED  BY <2>2, <3>1 DEF Wrote
  <2> QED  BY <1>1, <1>4, <1>5, <2>1, <2>2 DEF GateDoes, Still
<1>6. CASE InsertDoes(c)
  <2>1. PICK v \in Rows, own \in SUBSET Traits :
          ~IsDoc(v) /\ Becomes(v, TRUE, FALSE, p, own, 0, 0) /\ r.pc = "insert"
    BY <1>6 DEF InsertDoes
  <2> QED  BY <1>1, <2>1 DEF Wrote
<1>7. CASE PutDoes(c)
  <2>1. CASE doc' = doc
    BY <2>1 DEF Wrote
  <2>2. CASE r.pc = "write"
    <3>1. PICK more \in SUBSET Traits, parent \in Rows \cup {None} :
             /\ Live(t)
             /\ Becomes(t, TRUE, doc[t].purged, parent, doc[t].own \cup more,
                        doc[t].marker, doc[t].by)
             /\ \/ /\ parent = p /\ r.kind = "adopt"
                   /\ On(c, "assertParent") \/ On(c, "assertVariants")
                \/ parent = None
                \/ parent = doc[t].parent
      BY <1>7, <2>2 DEF PutDoes
    <3>2. t \in Rows /\ IsDoc(t) /\ doc[t].live
      BY <1>1, <1>3, <3>1
    <3> QED  BY <2>2, <3>1, <3>2 DEF Wrote
  <2>3. CASE r.pc = "rollback" /\ doc' # doc
    <3>1. Live(t) /\ Becomes(t, TRUE, doc[t].purged, None, doc[t].own, doc[t].marker, doc[t].by)
      BY <1>7, <2>3 DEF PutDoes, Still
    <3>2. t \in Rows /\ IsDoc(t)
      BY <1>1, <1>3, <3>1
    <3> QED  BY <3>1, <3>2 DEF Wrote
  <2> QED  BY <1>7, <2>1, <2>2, <2>3 DEF PutDoes, Still
<1>8. ASSUME NEW live, NEW purged, NEW own, NEW marker, NEW by, t \in Rows,
             Becomes(t, live, purged, doc[t].parent, own, marker, by),
             live => doc[t].live \/ r.kind \in {"restore", "revive"}
      PROVE  Wrote(c)
  <2>1. IsDoc(t)
    BY <1>1, <1>8 DEF Names
  <2> QED  BY <1>2, <1>8, <2>1 DEF Wrote
<1>9. /\ r.pc \in {"trashWrite", "purgeWrite", "save", "reviveWrite", "push", "pull", "drop"}
           => t \in Rows
      /\ r.pc = "save" => r.kind = "restore"
      /\ r.pc = "reviveWrite" => r.kind = "revive"
  BY DEF Shaped
<1>10. CASE DeleteDoes(c)
  BY <1>8, <1>9, <1>10 DEF DeleteDoes, Still, Wrote
<1>11. CASE RestoreDoes(c)
  BY <1>8, <1>9, <1>11 DEF RestoreDoes, Still, Wrote
<1>12. CASE ReviveDoes(c)
  BY <1>8, <1>9, <1>12 DEF ReviveDoes, Still, Wrote
<1>13. CASE SpoolDoes(c)
  BY <1>3, <1>8, <1>9, <1>13 DEF SpoolDoes, Still, Wrote
<1>14. CASE (Still /\ Over(c)) \/ SubmitDoes(c)
  BY <1>14 DEF SubmitDoes, Still, Wrote
<1> QED  BY <1>5, <1>6, <1>7, <1>10, <1>11, <1>12, <1>13, <1>14 DEF Does

\* What a request asks for stays: a restore and a revival find out their parent.
Aims(c) ==
    LET q == req'[c]
        r == req[c]
    IN
    \/ Over(c)
    \/ SubmitDoes(c)
    \/ /\ q.kind = r.kind /\ q.t = r.t /\ q.spool = r.spool
       /\ \/ q.p = r.p
          \/ /\ r.pc \in {"restoreRead", "reviveRead"} /\ q.pc \in {"restoreParent", "reviveGate"}
             /\ InTrash(r.t) /\ doc[r.t].parent # None /\ q.p = doc[r.t].parent

LEMMA DoesAims ==
    ASSUME NEW c \in Clients, Does(c)
    PROVE  Aims(c)
<1>1. \A pc : On(c, pc) => Aims(c)
  BY DEF On, Same, Aims
<1>2. \A pc, snap : Carried(c, pc, snap) \/ Halved(c, pc) => Aims(c)
  BY DEF Carried, Halved, Same, Aims
<1>3. Passed(c) => Aims(c)
  BY DEF Passed, Same, Aims
<1>4. Over(c) \/ Ended(c) \/ SubmitDoes(c) => Aims(c)
  BY <1>1 DEF Ended, Aims
<1>5. GateDoes(c) => Aims(c)
  BY <1>1, <1>2, <1>3, <1>4 DEF GateDoes
<1>6. InsertDoes(c) \/ PutDoes(c) => Aims(c)
  BY <1>1, <1>2, <1>4 DEF InsertDoes, PutDoes
<1>7. DeleteDoes(c) \/ SpoolDoes(c) => Aims(c)
  BY <1>1, <1>2, <1>4 DEF DeleteDoes, SpoolDoes
<1>8. RestoreDoes(c) \/ ReviveDoes(c) => Aims(c)
  BY <1>1, <1>2, <1>4 DEF RestoreDoes, ReviveDoes, Aims
<1> QED  BY <1>4, <1>5, <1>6, <1>7, <1>8 DEF Does

\* Where a step leaves the request that it moves.
PutPcs     == {"putVariants", "putStored", "strip", "fetch", "write", "assertParent",
               "assertVariants", "rollback", "alarm"}
DeletePcs  == {"trashRead", "trashSlots", "trashWrite", "purgeCheck", "purgeSlots", "purgeWrite"}
RestorePcs == {"save", "restoreParent", "fetch", "alarm"}
RevivePcs  == {"reviveWrite", "reviveGate", "reviveCheck", "reviveAlarm", "alarm"}
SpoolPcs   == {"push", "pushAgain", "pull", "dropSlots", "drop", "dropSlotsAgain"}

Comes(c) ==
    LET pc == req'[c].pc IN
    \/ Over(c)
    \/ SubmitDoes(c)
    \/ GateDoes(c) /\ pc \in GatePcs \cup {"insert", "save", "strip"}
    \/ InsertDoes(c) /\ pc = "alarm"
    \/ PutDoes(c) /\ pc \in PutPcs
    \/ DeleteDoes(c) /\ pc \in DeletePcs
    \/ RestoreDoes(c) /\ pc \in RestorePcs
    \/ ReviveDoes(c) /\ pc \in RevivePcs
    \/ SpoolDoes(c) /\ pc \in SpoolPcs

LEMMA DoesComes ==
    ASSUME NEW c \in Clients, Does(c)
    PROVE  Comes(c)
<1> DEFINE pc == req'[c].pc
<1>1. /\ \A s : On(c, s) => pc = s
      /\ \A s, n : Carried(c, s, n) => pc = s
      /\ \A s : Halved(c, s) => pc = s
      /\ Passed(c) => Over(c) \/ pc \in {"insert", "save", "strip"}
      /\ Ended(c) => Over(c) \/ pc = "alarm"
  BY DEF On, Carried, Halved, Passed, Ended
<1> HIDE DEF pc
<1>2. GateDoes(c) => Over(c) \/ pc \in GatePcs \cup {"insert", "save", "strip"}
  BY <1>1 DEF GateDoes, GatePcs
<1>3. InsertDoes(c) => Over(c) \/ pc = "alarm"
  BY <1>1 DEF InsertDoes
<1>4. PutDoes(c) => Over(c) \/ pc \in PutPcs
  BY <1>1 DEF PutDoes, PutPcs
<1>5. DeleteDoes(c) => Over(c) \/ pc \in DeletePcs
  BY <1>1 DEF DeleteDoes, DeletePcs
<1>6. RestoreDoes(c) => Over(c) \/ pc \in RestorePcs
  BY <1>1 DEF RestoreDoes, RestorePcs, pc
<1>7. ReviveDoes(c) => Over(c) \/ pc \in RevivePcs
  BY <1>1 DEF ReviveDoes, RevivePcs, pc
<1>8. SpoolDoes(c) => Over(c) \/ pc \in SpoolPcs
  BY <1>1 DEF SpoolDoes, SpoolPcs
<1> QED  BY <1>2, <1>3, <1>4, <1>5, <1>6, <1>7, <1>8 DEF Does, Comes, pc

LEMMA KnownKept ==
    ASSUME Places, Known, NEW c \in Clients, Moves(c), Does(c)
    PROVE  /\ doc' \in [Rows -> Doc \cup {NoDoc}] /\ Known'
           /\ \A g \in Rows : IsDoc(g) => (IsDoc(g))'
<1>1. Typed /\ Shaped(req[c]) /\ Names(req[c]) /\ None \notin Rows
  BY FamiliesAssumption DEF Places, Known
<1>2. Wrote(c) /\ Aims(c)
  BY <1>1, DoesWrote, DoesAims
<1>3. \A g \in Rows : IsDoc(g) => (IsDoc(g))'
  BY <1>1, <1>2, BecomesKept DEF Wrote, IsDoc
<1>4. doc' \in [Rows -> Doc \cup {NoDoc}]
  BY <1>1, <1>2, BecomesKept DEF Wrote, Typed
<1>5. \A d \in Clients \ {c} : req'[d] = req[d]
  BY <1>1, MovesRequests
<1>6. /\ \A d \in Clients : req[d].t \in Rows \cup {None} /\ req[d].p \in Rows \cup {None}
      /\ \A f \in Rows : IsDoc(f) => doc[f].parent \in Rows \cup {None}
      /\ req' \in [Clients -> Reqs] /\ Shaped(req'[c])
  BY <1>1, MovesRequests, DocFields DEF Typed, Reqs
<1>7. ASSUME NEW d \in Clients
      PROVE  /\ req'[d].t # None => doc'[req'[d].t] # NoDoc
             /\ req'[d].p # None => doc'[req'[d].p] # NoDoc
  <2>1. /\ req[d].t # None => doc'[req[d].t] # NoDoc
        /\ req[d].p # None => doc'[req[d].p] # NoDoc
    BY <1>3, <1>6 DEF Known, Names, IsDoc
  <2>2. CASE d # c
    BY <1>5, <2>1, <2>2
  <2>3. CASE d = c
    <3>1. CASE Over(c)
      BY <2>3, <3>1 DEF Over, Idle
    <3>2. CASE SubmitDoes(c)
      <4>1. req'[c].t \in Rows \cup {None} /\ req'[c].p \in Rows \cup {None}
        BY <1>6 DEF Reqs
      <4>2. /\ req'[c].t # None => doc[req'[c].t] # NoDoc
            /\ req'[c].p # None => doc[req'[c].p] # NoDoc
        BY <3>2 DEF SubmitDoes, IsDoc
      <4> QED  BY <1>3, <2>3, <4>1, <4>2 DEF IsDoc
    <3>3. CASE ~Over(c) /\ ~SubmitDoes(c)
      <4>1. /\ req'[c].t = req[c].t
            /\ req'[c].p = req[c].p \/
                 (InTrash(req[c].t) /\ req[c].pc \in {"restoreRead", "reviveRead"}
                    /\ doc[req[c].t].parent # None /\ req'[c].p = doc[req[c].t].parent)
        BY <1>2, <3>3 DEF Aims
      <4>2. req[c].pc \in {"restoreRead", "reviveRead"} => req[c].t \in Rows
        BY <1>1 DEF Shaped
      <4>3. ASSUME NEW u \in Rows, InTrash(u), doc[u].parent # None
            PROVE  doc'[doc[u].parent] # NoDoc
        BY <1>3, <1>6, <4>3 DEF Known, InTrash, IsDoc
      <4> QED  BY <2>1, <2>3, <4>1, <4>2, <4>3
    <3> QED  BY <3>1, <3>2, <3>3
  <2> QED  BY <2>2, <2>3
<1>8. ASSUME NEW f \in Rows, doc'[f] # NoDoc
      PROVE  doc'[f].parent # f /\ (doc'[f].parent # None => doc'[doc'[f].parent] # NoDoc)
  <2>1. CASE IsDoc(f) /\ doc'[f].parent = doc[f].parent
    BY <1>3, <1>6, <2>1 DEF Known, IsDoc
  <2>2. CASE ~(IsDoc(f) /\ doc'[f].parent = doc[f].parent)
    <3>0. doc' # doc
      BY <1>8, <2>2 DEF IsDoc
    <3>1. PICK g, live, purged, parent, own, marker, by :
             /\ Becomes(g, live, purged, parent, own, marker, by)
             /\ parent \in Rows \cup {None}
             /\ \/ IsDoc(g) /\ parent = doc[g].parent
                \/ parent = None
                \/ parent = req[c].p /\ ~IsDoc(g)
                \/ parent = req[c].p /\ req[c].kind = "adopt" /\ g = req[c].t
      BY <1>2, <3>0 DEF Wrote
    <3>2. g = f /\ doc'[f].parent = parent
      BY <1>8, <2>2, <3>1 DEF Becomes, IsDoc
    <3>3. CASE parent = None
      BY <1>1, <3>2, <3>3
    <3>4. CASE parent = req[c].p /\ parent # None
      <4>1. parent \in Rows /\ IsDoc(parent)
        BY <1>1, <3>1, <3>4 DEF Names
      <4>2. parent # f
        <5>1. CASE ~IsDoc(f)
          BY <4>1, <5>1
        <5>2. CASE req[c].kind = "adopt" /\ f = req[c].t
          BY <1>1, <3>4, <5>2 DEF Shaped
        <5> QED  BY <2>2, <3>1, <3>2, <3>4, <5>1, <5>2
      <4> QED  BY <1>3, <3>2, <4>1, <4>2 DEF IsDoc
    <3> QED  BY <2>2, <3>1, <3>2, <3>3, <3>4
  <2> QED  BY <2>1, <2>2
<1>9. Known'
  BY <1>7, <1>8 DEF Known, Names, IsDoc
<1> QED  BY <1>3, <1>4, <1>9

\* The slot follows the promotion, is cleared, or stays.
SlotDoes(c) ==
    \/ slot' = slot
    \/ slot' = None
    \/ /\ req[c].pc = "remap" /\ slot # None /\ slot' \in Slots
       /\ slot'.fil = req[c].copy /\ slot'.spool = slot.spool

LEMMA StepSlot ==
    ASSUME Typed, NEW c \in Clients, Shaped(req[c]), Submit(c) \/ Step(c) \/ Fail(c)
    PROVE  SlotDoes(c) /\ slot' \in Slots
<1>1. CASE Remap(c)
  <2>1. req[c].pc = "remap" /\ req[c].copy \in Rows
    BY <1>1 DEF Remap, At, Shaped
  <2>2. slot' = slot \/ (slot # None /\ slot' = [slot EXCEPT !.fil = req[c].copy])
    BY <1>1 DEF Remap
  <2>3. slot # None => slot \in [fil : Rows, spool : Spools \cup {None}]
    BY DEF Typed, Slots
  <2> QED  BY <2>1, <2>2, <2>3 DEF SlotDoes, Slots, Typed
<1>2. slot \in Slots /\ None \in Slots
  BY DEF Typed, Slots
<1>3. CASE GateStep(c) /\ ~Remap(c)
  BY <1>2, <1>3 DEF GateStep, Fetch, Unmark, Gate, TargetAlive, FindPartial, Mark, Copy, Complete,
     ClearAlarm, SlotDoes
<1>4. CASE PutStep(c) \/ Insert(c)
  BY <1>2, <1>4 DEF PutStep, Insert, PutParent, PutVariants, PutStored, Strip, Write,
     AssertParent, AssertVariants, AssertOutcome, Rollback, SlotDoes
<1>5. CASE DeleteStep(c)
  BY <1>2, <1>5 DEF DeleteStep, TrashCheck, TrashRead, TrashWrite, PurgeRead, PurgeCheck,
     PurgeWrite, ClearSlots, SlotDoes
<1>6. CASE RestoreStep(c) \/ ReviveStep(c)
  BY <1>2, <1>6 DEF RestoreStep, RestoreRead, RestoreParent, Save, ReviveStep, ReviveRead,
     ReviveGate, ReviveCheck, ReviveWrite, ReviveAlarm, SlotDoes
<1>7. CASE SpoolStep(c)
  BY <1>2, <1>7 DEF SpoolStep, PushCheck, Push, PushAgain, Pull, DropCheck, DropSlots, Drop,
     DropSlotsAgain, FreeSlot, SlotDoes
<1>8. CASE Submit(c) \/ Fail(c)
  BY <1>2, <1>8 DEF Submit, Fail, SlotDoes
<1> QED  BY <1>1, <1>3, <1>4, <1>5, <1>6, <1>7, <1>8 DEF Step

LEMMA StepAdded ==
    ASSUME Typed, NEW c \in Clients, Shaped(req[c]), Does(c)
    PROVE  added' \subseteq Spools
<1>1. req[c].pc = "push" => req[c].spool \in Spools
  BY DEF Shaped
<1>2. GateDoes(c) => added' = added
  BY DEF GateDoes, Still
<1>3. InsertDoes(c) \/ PutDoes(c) \/ DeleteDoes(c) => added' = added
  BY DEF InsertDoes, PutDoes, DeleteDoes, Still
<1>4. RestoreDoes(c) \/ ReviveDoes(c) \/ SubmitDoes(c) \/ (Still /\ Over(c)) => added' = added
  BY DEF RestoreDoes, ReviveDoes, SubmitDoes, Still
<1>5. SpoolDoes(c) => added' \subseteq Spools
  BY <1>1 DEF SpoolDoes, Still, Typed
<1> QED  BY <1>2, <1>3, <1>4, <1>5 DEF Does, Typed

\* The play stays as it was, but for what may still fail.
PlayOn ==
    /\ play' \in Play
    /\ play'.kinds = play.kinds /\ play'.rows = play.rows /\ play'.roots = play.roots
    /\ play'.traits = play.traits
    /\ play' = play \/ play.fails > 0

LEMMA Failing ==
    ASSUME Typed, play.fails > 0, play' = [play EXCEPT !.fails = @ - 1]
    PROVE  PlayOn
<1>1. play \in Play /\ play.fails \in 0..MaxFails /\ MaxFails \in Nat
  BY FamiliesAssumption DEF Typed, Play
<1>2. play.fails - 1 \in 0..MaxFails
  BY <1>1
<1> DEFINE q == [play EXCEPT !.fails = play.fails - 1]
<1>3. q \in Play
  BY <1>1, <1>2 DEF Play
<1>4. q.kinds = play.kinds /\ q.rows = play.rows /\ q.roots = play.roots /\ q.traits = play.traits
  BY <1>1 DEF Play
<1> QED  BY <1>3, <1>4 DEF PlayOn

LEMMA StepPlay ==
    ASSUME Typed, NEW c \in Clients, Submit(c) \/ Step(c) \/ Fail(c)
    PROVE  PlayOn
<1>0. play' = play => PlayOn
  BY DEF PlayOn, Typed
<1>1. CASE GateStep(c)
  BY <1>0, <1>1 DEF GateStep, Fetch, Unmark, Gate, TargetAlive, FindPartial, Mark, Copy, Remap,
     Complete, ClearAlarm
<1>2. CASE PutStep(c) \/ Insert(c)
  BY <1>0, <1>2 DEF PutStep, Insert, PutParent, PutVariants, PutStored, Strip, Write,
     AssertParent, AssertVariants, AssertOutcome, Rollback
<1>3. CASE DeleteStep(c)
  BY <1>0, <1>3 DEF DeleteStep, TrashCheck, TrashRead, TrashWrite, PurgeRead, PurgeCheck,
     PurgeWrite, ClearSlots
<1>4. CASE RestoreStep(c) \/ ReviveStep(c)
  BY <1>0, <1>4 DEF RestoreStep, RestoreRead, RestoreParent, Save, ReviveStep, ReviveRead,
     ReviveGate, ReviveCheck, ReviveWrite, ReviveAlarm
<1>5. CASE SpoolStep(c)
  BY <1>0, <1>5 DEF SpoolStep, PushCheck, Push, PushAgain, Pull, DropCheck, DropSlots, Drop,
     DropSlotsAgain
<1>6. CASE Submit(c)
  BY <1>0, <1>6 DEF Submit
<1>7. CASE Fail(c)
  BY <1>7, Failing DEF Fail
<1> QED  BY <1>1, <1>2, <1>3, <1>4, <1>5, <1>6, <1>7 DEF Step

LEMMA InitSettled == Init => Settled
<1> SUFFICES ASSUME Init PROVE Settled
  OBVIOUS
<1>1. /\ queue = [k \in Rows |-> <<>>] /\ req = [c \in Clients |-> Idle]
      /\ play \in Play /\ added = UNION {HeldSpools(f) : f \in play.roots}
      /\ slot \in Slots
  BY FamiliesAssumption DEF Init, Slots
<1>2. PICK own \in [play.roots -> SUBSET (play.traits \cup Spools)] :
        doc = [f \in Rows |-> IF f \in play.roots THEN Fresh(None, own[f], 0) ELSE NoDoc]
  BY DEF Init
<1>3. play.roots \subseteq Rows /\ play.traits \subseteq Traits
  BY <1>1 DEF Play
<1>4. ASSUME NEW f \in play.roots
      PROVE  doc[f] \in Doc /\ doc[f].parent = None
  <2>1. own[f] \in SUBSET Things
    BY <1>2, <1>3, <1>4 DEF Things
  <2>2. doc[f] = Fresh(None, own[f], 0)
    BY <1>2, <1>3, <1>4
  <2> QED  BY <2>1, <2>2 DEF Fresh, Doc
<1>5. \A f \in Rows \ play.roots : doc[f] = NoDoc
  BY <1>2
<1>6. doc \in [Rows -> Doc \cup {NoDoc}]
  BY <1>2, <1>4, <1>5
<1>7. added \subseteq Spools
  BY <1>1 DEF HeldSpools
<1>8. Typed
  BY <1>1, <1>6, <1>7, IdleShape DEF Typed
<1>9. /\ \A c \in Clients : req[c] = Idle /\ Shaped(req[c]) /\ req[c].key = None
      /\ \A k \in Rows : queue[k] = <<>>
  BY <1>1, IdleShape DEF Idle
<1>10. Exclusion
  BY <1>9 DEF Exclusion, MayRun
<1>11. Known
  <2>1. \A f \in Rows : IsDoc(f) => doc[f].parent = None /\ doc[f].parent # f
    BY <1>4, <1>5, FamiliesAssumption DEF IsDoc
  <2>2. \A c \in Clients : req[c].t = None /\ req[c].p = None
    BY <1>9 DEF Idle
  <2> QED  BY <2>1, <2>2 DEF Known, Names
<1>12. Asked
  BY <1>9 DEF Asked, Idle
<1> QED  BY <1>8, <1>9, <1>10, <1>11, <1>12 DEF Settled, Places

LEMMA CrashSettled ==
    ASSUME Settled, Crash
    PROVE  Settled' /\ PlayOn
<1>1. /\ doc' = doc /\ slot' = slot /\ added' = added
      /\ req' = [c \in Clients |-> Idle] /\ queue' = [k \in Rows |-> <<>>]
  BY DEF Crash
<1>2. Typed /\ PlayOn
  BY Failing DEF Settled, Places, Crash
<1>3. Typed'
  BY <1>1, <1>2, IdleShape DEF Typed, PlayOn
<1>4. /\ \A c \in Clients : req'[c] = Idle /\ Shaped(req'[c]) /\ req'[c].key = None
      /\ \A k \in Rows : queue'[k] = <<>>
  BY <1>1, IdleShape DEF Idle
<1>5. Exclusion'
  BY <1>4 DEF Exclusion, MayRun
<1>6. Known'
  BY <1>1, <1>4 DEF Settled, Known, Names, IsDoc, Idle
<1>7. Asked'
  BY <1>4 DEF Asked, Idle
<1> QED  BY <1>2, <1>3, <1>4, <1>5, <1>6, <1>7 DEF Settled, Places

LEMMA StepSettled ==
    ASSUME Settled, NEW c \in Clients, Submit(c) \/ Step(c) \/ Fail(c)
    PROVE  Settled' /\ PlayOn /\ Moves(c) /\ Does(c)
<1>1. Typed /\ Exclusion /\ Places /\ Known /\ Shaped(req[c]) /\ Names(req[c])
  BY DEF Settled, Places, Known
<1>2. Moves(c) /\ Does(c) /\ PlayOn
  BY <1>1, StepMoves, StepDoes, StepPlay
<1>3. /\ doc' \in [Rows -> Doc \cup {NoDoc}] /\ Known'
      /\ slot' \in Slots /\ added' \subseteq Spools
      /\ queue' \in [Rows -> Seq(Clients)] /\ Exclusion'
      /\ req' \in [Clients -> Reqs]
  BY <1>1, <1>2, KnownKept, StepSlot, StepAdded, MovesExclusion, MovesRequests
<1>4. Typed'
  BY <1>2, <1>3 DEF Typed, PlayOn
<1>5. /\ \A d \in Clients \ {c} : req'[d] = req[d]
      /\ Shaped(req'[c])
  BY <1>1, <1>2, MovesRequests
<1>6. \A d \in Clients : Shaped(req'[d])
  BY <1>1, <1>5 DEF Places
<1>7. Asked'
  <2>1. play'.kinds = play.kinds
    BY <1>2 DEF PlayOn
  <2>2. Over(c) \/ SubmitDoes(c) \/ (req'[c].kind = req[c].kind /\ req[c].pc # "idle")
    <3>1. Aims(c)
      BY <1>2, DoesAims
    <3>2. req[c].pc = "idle" => SubmitDoes(c) \/ Over(c)
      BY <1>2 DEF Does, GateDoes, InsertDoes, PutDoes, DeleteDoes, RestoreDoes, ReviveDoes,
         SpoolDoes
    <3> QED  BY <3>1, <3>2 DEF Aims
  <2>3. req'[c].pc # "idle" => req'[c].kind \in play.kinds[c]
    BY <2>2 DEF Over, Idle, SubmitDoes, Settled, Asked
  <2> QED  BY <1>5, <2>1, <2>3 DEF Asked, Settled
<1>8. Places'
  BY <1>3, <1>4, <1>6 DEF Places
<1> QED  BY <1>2, <1>3, <1>7, <1>8 DEF Settled

\* Every reachable state is settled, and every step keeps it so.
LEMMA NextSettled ==
    ASSUME Settled, Next
    PROVE  /\ Settled' /\ PlayOn
           /\ Crash \/ \E c \in Clients : Moves(c) /\ Does(c)
BY StepSettled, CrashSettled DEF Next

LEMMA SettledAlways == Spec => []Settled
<1>1. Settled /\ [Next]_vars => Settled'
  <2> SUFFICES ASSUME Settled, [Next]_vars PROVE Settled'
    OBVIOUS
  <2>1. CASE Next
    BY <2>1, NextSettled
  <2>2. CASE UNCHANGED vars
    BY <2>2 DEF vars, Settled, Places, Typed, Exclusion, Known, Asked, Names, IsDoc, MayRun, Shaped
  <2> QED  BY <2>1, <2>2
<1> QED  BY <1>1, InitSettled, PTL DEF Spec

\* Whatever the filaments, spools, clients and plays, and whatever fails: the
\* variables keep their types.  A stored parent is an id, a promotion token is at
\* hand whenever one is drawn, and a request only waits in queues of rows.
THEOREM FamiliesTyped == Spec => []TypeOK
<1>1. Settled => TypeOK
  BY DEF Settled, Places, Typed, TypeOK, Reqs, Slots
<1> QED  BY <1>1, SettledAlways, PTL

\* Opposing re-parents each need two keys, one after the other: no request waits
\* for a key while it holds one, so the request at the head of a queue can go on.
THEOREM NoRequestsInACircle == Spec => []NoCircularWait
<1>1. Settled => NoCircularWait
  <2> SUFFICES ASSUME Settled, NEW c \in Clients, req[c].pc # "idle"
               PROVE  \E d \in Clients : req[d].pc # "idle" /\ MayRun(d)
    BY DEF NoCircularWait
  <2>1. Typed /\ Exclusion /\ \A d \in Clients : Shaped(req[d])
    BY DEF Settled, Places
  <2>2. CASE req[c].key = None
    BY <2>2 DEF MayRun
  <2>3. CASE req[c].key # None
    <3> DEFINE k == req[c].key
    <3>1. k \in Rows /\ queue[k] \in Seq(Clients)
      BY <2>1, <2>3 DEF Typed, Reqs
    <3>2. PICK i \in DOMAIN queue[k] : queue[k][i] = c
      BY <2>1, <2>3 DEF Exclusion
    <3>3. queue[k] # <<>> /\ 1 \in DOMAIN queue[k] /\ queue[k][1] \in Clients
          /\ Head(queue[k]) = queue[k][1]
      BY <3>1, <3>2
    <3> DEFINE d == queue[k][1]
    <3>4. req[d].key = k
      BY <2>1, <3>1, <3>3 DEF Exclusion
    <3>5. req[d].pc # "idle"
      BY <2>1, <2>3, <3>3, <3>4 DEF Shaped, Idle
    <3> QED  BY <3>3, <3>4, <3>5 DEF MayRun
  <2> QED  BY <2>2, <2>3
<1> QED  BY <1>1, SettledAlways, PTL

\* No two requests are in the sections of one key.
LEMMA Exclusive ==
    ASSUME Settled, NEW c \in Clients, NEW d \in Clients, MayRun(c), MayRun(d),
           req[c].key # None, req[d].key = req[c].key
    PROVE  c = d
BY DEF MayRun
-----------------------------------------------------------------------------
(* The rules of a family.  Each holds for the plays that do not ask for    *)
(* the kinds of request that break it; which kinds those are, and how they *)
(* do, the configurations show that end in a violation.                    *)

-----------------------------------------------------------------------------
(* What was purged stays dead.                                             *)

Purges == \E c \in Clients : "purge" \in play.kinds[c]
Restores == \E c \in Clients : "restore" \in play.kinds[c]

\* Only a restore saves a row without looking whether it was purged meanwhile.
PurgeInv ==
    /\ ~(Purges /\ Restores)
    /\ PurgedStaysDead
    /\ \A f \in Rows : (IsDoc(f) /\ doc[f].purged) => Purges

LEMMA WritesPurgeInv ==
    ASSUME Settled, PurgeInv, NEW c \in Clients, Does(c),
           NEW f \in Rows, doc' # doc, doc'[f] # doc[f], doc'[f] # NoDoc
    PROVE  ~(doc'[f].purged /\ doc'[f].live) /\ (doc'[f].purged => Purges)
<1> DEFINE r == req[c]
           t == req[c].t
           p == req[c].p
           Good == ~(doc'[f].purged /\ doc'[f].live) /\ (doc'[f].purged => Purges)
<1> SUFFICES Good
  OBVIOUS
<1>1. Typed /\ Shaped(r) /\ Names(r)
  BY DEF Settled, Places, Known
<1>2. ASSUME NEW g \in Rows, NEW live, NEW purged, NEW parent, NEW own, NEW marker, NEW by,
             Becomes(g, live, purged, parent, own, marker, by)
      PROVE  g = f /\ doc'[f].live = live /\ doc'[f].purged = purged
  BY <1>2 DEF Becomes
<1>3. ASSUME NEW g \in Rows, Live(g) PROVE ~doc[g].purged /\ IsDoc(g)
  BY <1>1, <1>3, LiveIsDoc DEF PurgeInv, PurgedStaysDead
<1>4. ASSUME NEW g \in Rows \cup {None}, Live(g) PROVE g \in Rows
  BY <1>1, <1>4, LiveIsDoc
<1>5. ASSUME NEW g \in Rows, Live(g), NEW parent, NEW own, NEW marker, NEW by, NEW live,
             Becomes(g, live, doc[g].purged, parent, own, marker, by)
      PROVE  Good
  BY <1>2, <1>3, <1>5
<1>6. ASSUME NEW g \in Rows, NEW parent, NEW own, NEW marker, NEW by, NEW live,
             Becomes(g, live, FALSE, parent, own, marker, by)
      PROVE  Good
  BY <1>2, <1>6
<1>7. p \in Rows \cup {None} /\ t \in Rows \cup {None} /\ None \notin Rows
  BY <1>1, FamiliesAssumption DEF Typed, Reqs
<1>8. ASSUME NEW own, NEW marker, Rewrites(p, own, marker)
      PROVE  Good
  BY <1>4, <1>5, <1>7, <1>8 DEF Rewrites
<1> HIDE DEF Good
<1>9. CASE GateDoes(c)
  BY <1>6, <1>8, <1>9 DEF GateDoes, Still
<1>10. CASE InsertDoes(c)
  BY <1>6, <1>10 DEF InsertDoes
<1>11. CASE PutDoes(c)
  BY <1>4, <1>5, <1>7, <1>11 DEF PutDoes, Still
<1>12. CASE DeleteDoes(c)
  <2>1. CASE r.pc = "trashWrite"
    BY <1>4, <1>5, <1>7, <1>12, <2>1 DEF DeleteDoes
  <2>2. CASE r.pc = "purgeWrite"
    <3>1. t \in Rows /\ r.kind = "purge" /\ r.pc # "idle"
      BY <1>1, <2>2 DEF Shaped
    <3>2. Becomes(t, FALSE, TRUE, doc[t].parent, doc[t].own, doc[t].marker, doc[t].by)
      BY <1>12, <2>2 DEF DeleteDoes
    <3>3. Purges
      BY <3>1 DEF Settled, Asked, Purges
    <3> QED  BY <1>2, <3>1, <3>2, <3>3 DEF Good
  <2> QED  BY <1>12, <2>1, <2>2 DEF DeleteDoes, Still
<1>13. CASE RestoreDoes(c)
  <2>1. CASE r.pc = "save"
    <3>1. t \in Rows /\ r.kind = "restore" /\ r.pc # "idle"
      BY <1>1, <2>1 DEF Shaped
    <3>2. Becomes(t, TRUE, doc[t].purged, doc[t].parent, doc[t].own, doc[t].marker, doc[t].by)
      BY <1>13, <2>1 DEF RestoreDoes
    <3>3. ~Purges
      BY <3>1 DEF Settled, Asked, Restores, PurgeInv
    <3>4. IsDoc(t)
      BY <1>1, <1>7, <3>1 DEF Names
    <3>5. doc[t].purged = FALSE
      BY <1>1, <3>1, <3>3, <3>4, DocFields DEF PurgeInv
    <3>6. doc'[f].purged = FALSE
      BY <1>2, <3>1, <3>2, <3>5
    <3> QED  BY <3>6 DEF Good
  <2> QED  BY <1>13, <2>1 DEF RestoreDoes, Still
<1>14. CASE ReviveDoes(c)
  <2>1. r.pc = "reviveWrite" => t \in Rows
    BY <1>1 DEF Shaped
  <2> QED  BY <1>6, <1>14, <2>1 DEF ReviveDoes, Still
<1>15. CASE SpoolDoes(c)
  <2>1. r.pc \in {"push", "pull", "drop"} => t \in Rows /\ IsDoc(t)
    BY <1>1, <1>7 DEF Shaped, Names
  <2>2. CASE r.pc = "pull"
    <3>1. Becomes(t, doc[t].live, doc[t].purged, doc[t].parent, doc[t].own \ {r.spool},
                  doc[t].marker, doc[t].by)
      BY <1>15, <2>2 DEF SpoolDoes
    <3> QED  BY <1>2, <2>1, <2>2, <3>1 DEF Good, PurgeInv, PurgedStaysDead
  <2> QED  BY <1>5, <1>15, <2>1, <2>2 DEF SpoolDoes, Still
<1>16. CASE (Still /\ Over(c)) \/ SubmitDoes(c)
  BY <1>16 DEF SubmitDoes, Still
<1> QED  BY <1>9, <1>10, <1>11, <1>12, <1>13, <1>14, <1>15, <1>16 DEF Does

\* "`_purged` with a live `_deletedAt` is simply not a legal state": whatever else
\* is asked and whatever fails, no purged filament is live, as long as nobody
\* purges while somebody restores.  A restore reads the row, and saves it later
\* by its id: the run FamiliesZombie shows what comes of a purge in between.
THEOREM PurgedIsDead ==
    ASSUME \A p \in Plays : ~(/\ \E c \in Clients : "purge" \in p.kinds[c]
                              /\ \E c \in Clients : "restore" \in p.kinds[c])
    PROVE  Spec => []PurgedStaysDead
<1>1. Init => PurgeInv
  <2> SUFFICES ASSUME Init PROVE PurgeInv
    OBVIOUS
  <2>1. ~(Purges /\ Restores)
    BY DEF Init, Purges, Restores
  <2>2. PICK own \in [play.roots -> SUBSET (play.traits \cup Spools)] :
          doc = [f \in Rows |-> IF f \in play.roots THEN Fresh(None, own[f], 0) ELSE NoDoc]
    BY DEF Init
  <2>3. \A f \in Rows : IsDoc(f) => doc[f].purged = FALSE
    BY <2>2 DEF IsDoc, Fresh
  <2> QED  BY <2>1, <2>3 DEF PurgeInv, PurgedStaysDead
<1>2. Settled /\ PurgeInv /\ [Next]_vars => PurgeInv'
  <2> SUFFICES ASSUME Settled, PurgeInv, [Next]_vars PROVE PurgeInv'
    OBVIOUS
  <2>1. CASE UNCHANGED vars
    BY <2>1 DEF vars, PurgeInv, PurgedStaysDead, Purges, Restores, IsDoc
  <2>2. CASE Next
    <3>1. play'.kinds = play.kinds
      BY <2>2, NextSettled DEF PlayOn
    <3>2. Purges' = Purges /\ Restores' = Restores
      BY <3>1 DEF Purges, Restores
    <3>3. CASE doc' = doc
      BY <3>2, <3>3 DEF PurgeInv, PurgedStaysDead, IsDoc
    <3>4. CASE doc' # doc
      <4>1. PICK c \in Clients : Does(c)
        BY <2>2, <3>4, NextSettled DEF Crash
      <4>2. ASSUME NEW f \in Rows, doc'[f] # NoDoc
            PROVE  ~(doc'[f].purged /\ doc'[f].live) /\ (doc'[f].purged => Purges)
        <5>1. CASE doc'[f] = doc[f]
          BY <4>2, <5>1 DEF PurgeInv, PurgedStaysDead, IsDoc
        <5>2. CASE doc'[f] # doc[f]
          BY <3>4, <4>1, <4>2, <5>2, WritesPurgeInv
        <5> QED  BY <5>1, <5>2
      <4> QED  BY <3>2, <4>2 DEF PurgeInv, PurgedStaysDead, IsDoc
    <3> QED  BY <3>3, <3>4
  <2> QED  BY <2>1, <2>2
<1>3. PurgeInv => PurgedStaysDead
  BY DEF PurgeInv
<1> QED  BY <1>1, <1>2, <1>3, SettledAlways, PTL DEF Spec

-----------------------------------------------------------------------------
(* Inheritance is one level deep.                                          *)

\* A PUT that made p the parent of t and has yet to look whether p has a parent
\* itself, or t a variant (the read `first`); or that looked and undoes it.
Watches(r, t, p, first, other) ==
    /\ r.kind = "adopt" /\ r.t = t /\ r.p = p
    /\ r.pc = first \/ (r.pc = other /\ ~r.half) \/ r.pc = "rollback"

Watched(f, g) ==
    \/ \E c \in Clients : Watches(req[c], f, g, "assertParent", "assertVariants")
    \/ \E c \in Clients : Watches(req[c], g, doc[g].parent, "assertVariants", "assertParent")

Nested(f, g) == Live(f) /\ doc[f].parent = g /\ Live(g) /\ doc[g].parent # None

\* Nothing fails, and nothing leaves the trash.
Steady ==
    /\ play.fails = 0
    /\ \A c \in Clients : play.kinds[c] \cap {"restore", "revive"} = {}

NestInv ==
    /\ Steady
    /\ \A f, g \in Rows : Nested(f, g) => Watched(f, g)
    /\ \A c \in Clients : req[c].pc \in GatePcs \cup {"insert"} => doc[req[c].p].parent = None
    /\ \A c \in Clients : req[c].half =>
          req[c].pc \in {"assertParent", "assertVariants", "rollback", "alarm"}

\* Without failures, the request that watches answers only by looking.
LEMMA AssertAt ==
    ASSUME NEW c \in Clients, Step(c), req[c].pc \in {"assertParent", "assertVariants", "rollback"}
    PROVE  AssertParent(c) \/ AssertVariants(c) \/ Rollback(c)
<1>1. ~GateStep(c)
  BY DEF GateStep, Fetch, Unmark, Gate, TargetAlive, FindPartial, Mark, Copy, Remap, Complete,
     ClearAlarm, At
<1>2. ~Insert(c) /\ ~RestoreStep(c) /\ ~ReviveStep(c)
  BY DEF Insert, RestoreStep, RestoreRead, RestoreParent, Save, ReviveStep, ReviveRead,
     ReviveGate, ReviveCheck, ReviveWrite, ReviveAlarm, At
<1>3. ~DeleteStep(c) /\ ~SpoolStep(c)
  BY DEF DeleteStep, TrashCheck, TrashRead, TrashWrite, PurgeRead, PurgeCheck, PurgeWrite,
     ClearSlots, SpoolStep, PushCheck, Push, PushAgain, Pull, DropCheck, DropSlots, Drop,
     DropSlotsAgain, At
<1>4. PutStep(c) => AssertParent(c) \/ AssertVariants(c) \/ Rollback(c)
  BY DEF PutStep, PutParent, PutVariants, PutStored, Strip, Write, At
<1> QED  BY <1>1, <1>2, <1>3, <1>4 DEF Step

LEMMA WatchingDoes ==
    ASSUME Settled, Steady, NEW c \in Clients, Submit(c) \/ Step(c) \/ Fail(c),
           req[c].pc \in {"assertParent", "assertVariants", "rollback"}
    PROVE  PutDoes(c)
<1>1. Typed /\ Shaped(req[c])
  BY DEF Settled, Places
<1>2. ~Fail(c)
  BY DEF Steady, Fail
<1>3. ~Submit(c)
  BY DEF Submit
<1> QED  BY <1>1, <1>2, <1>3, AssertAt, AssertStepDoes

\* Only the gate brings a request further in its gate, and to the insert.
LEMMA GateComes ==
    ASSUME NEW c \in Clients, Does(c), req'[c].pc \in GatePcs \cup {"insert"}
    PROVE  /\ GateDoes(c) /\ Same(req'[c], req[c])
           /\ req[c].pc \in GatePcs \cup {"fetch"}
           /\ req[c].pc = "fetch" => Live(req[c].p) /\ doc[req[c].p].parent = None
<1>1. GateDoes(c)
  BY DoesComes DEF Comes, Over, Idle, SubmitDoes, SentFrom, GatePcs, PutPcs, DeletePcs, RestorePcs,
     RevivePcs, SpoolPcs
<1>2. /\ \A s : On(c, s) => Same(req'[c], req[c])
      /\ \A s, n : Carried(c, s, n) => Same(req'[c], req[c])
  BY DEF On, Carried
<1>3. ~Over(c)
  BY DEF Over, Idle, GatePcs
<1>4. Passed(c) => Same(req'[c], req[c])
  BY <1>3 DEF Passed
<1> QED  BY <1>1, <1>2, <1>3, <1>4 DEF GateDoes, GatePcs

\* The gate's finding holds until its section ends: the parent has no parent.
LEMMA RootsKept ==
    ASSUME Settled, NestInv, NEW c \in Clients, Moves(c), Does(c),
           NEW d \in Clients, req'[d].pc \in GatePcs \cup {"insert"}
    PROVE  doc'[req'[d].p].parent = None
<1>1. /\ Typed /\ Shaped(req[c]) /\ Shaped(req[d]) /\ Names(req[c]) /\ Names(req[d])
      /\ Exclusion /\ None \notin Rows
  BY FamiliesAssumption DEF Settled, Places, Known
<1>2. /\ \A e \in Clients \ {c} : req'[e] = req[e]
      /\ Shaped(req'[c]) /\ MayRun(c)
  BY <1>1, MovesRequests
<1>3. Wrote(c)
  BY <1>1, DoesWrote
<1>4. ASSUME NEW x \in Rows, IsDoc(x), doc[x].parent = None, doc'[x].parent # None
      PROVE  req[c].pc = "write" /\ req[c].t = x
  <2>1. PICK f, live, purged, parent, own, marker, by :
          /\ Becomes(f, live, purged, parent, own, marker, by)
          /\ \/ IsDoc(f) /\ parent = doc[f].parent
             \/ IsDoc(f) /\ parent = None
             \/ ~IsDoc(f)
             \/ req[c].pc = "write" /\ f = req[c].t
    BY <1>3, <1>4 DEF Wrote
  <2>2. f = x /\ doc'[x].parent = parent
    BY <1>4, <2>1 DEF Becomes
  <2> QED  BY <1>4, <2>1, <2>2
<1>5. CASE d # c
  <2> DEFINE x == req[d].p
  <2>1. req'[d] = req[d] /\ x \in Rows /\ req[d].key = x /\ IsDoc(x) /\ doc[x].parent = None
    BY <1>1, <1>2, <1>5 DEF Shaped, Names, NestInv
  <2>2. MayRun(d)
    BY <1>1, <1>5, <2>1 DEF Exclusion, GatePcs, Entries
  <2>3. ~(req[c].pc = "write" /\ req[c].t = x)
    <3>1. SUFFICES ASSUME req[c].pc = "write", req[c].t = x PROVE FALSE
      OBVIOUS
    <3>2. req[c].key = x
      BY <1>1, <3>1 DEF Shaped
    <3> QED  BY <1>1, <1>2, <1>5, <2>1, <2>2, <3>2, Exclusive
  <2> QED  BY <1>4, <2>1, <2>3
<1>6. CASE d = c
  <2> DEFINE x == req[c].p
  <2>1. /\ x \in Rows /\ IsDoc(x) /\ doc[x].parent = None
        /\ req'[c].p = x /\ req[c].pc # "write"
    <3>1. /\ req[c].pc \in GatePcs \cup {"fetch"} /\ Same(req'[c], req[c])
          /\ req[c].pc = "fetch" => doc[x].parent = None
      BY <1>6, GateComes
    <3>2. /\ req[c].pc \in GatePcs \cup {"fetch"} /\ req'[c].p = x
          /\ req[c].pc = "fetch" => doc[x].parent = None
      BY <3>1 DEF Same
    <3>3. x \in Rows /\ IsDoc(x) /\ req[c].pc # "write"
      BY <1>1, <3>2 DEF Shaped, Names, GatePcs
    <3>4. doc[x].parent = None
      BY <3>2 DEF NestInv
    <3> QED  BY <3>2, <3>3, <3>4
  <2> QED  BY <1>4, <1>6, <2>1
<1> QED  BY <1>5, <1>6

LEMMA HalfKept ==
    ASSUME Settled, NestInv, NEW c \in Clients, Moves(c), Does(c), NEW d \in Clients, req'[d].half
    PROVE  req'[d].pc \in {"assertParent", "assertVariants", "rollback", "alarm"}
<1> DEFINE Late == {"assertParent", "assertVariants", "rollback", "alarm"}
<1>1. Typed
  BY DEF Settled, Places
<1>2. \A e \in Clients \ {c} : req'[e] = req[e]
  BY <1>1, MovesRequests
<1>3. CASE d # c
  BY <1>2, <1>3 DEF NestInv
<1>4. CASE d = c
  <2>1. \A pc, snap : Carried(c, pc, snap) => req[c].half
    BY <1>4 DEF Carried
  <2>2. \A pc : On(c, pc) => req[c].half
    BY <1>4 DEF On
  <2>3. ~Over(c) /\ ~SubmitDoes(c)
    BY <1>4 DEF Over, Idle, SubmitDoes
  <2>4. Passed(c) => req[c].half
    BY <1>4, <2>3 DEF Passed
  <2>5. req[c].half => req[c].pc \in Late
    BY DEF NestInv
  <2>6. ~DeleteDoes(c) /\ ~SpoolDoes(c) /\ ~GateDoes(c)
    BY <2>1, <2>2, <2>3, <2>4, <2>5 DEF DeleteDoes, SpoolDoes, GateDoes
  <2>7. ~RestoreDoes(c) /\ ~ReviveDoes(c)
    <3>1. req[c].kind \notin {"restore", "revive"} \/ req[c].pc = "idle"
      BY DEF NestInv, Steady, Settled, Asked
    <3>2. req[c].pc \in {"restoreRead", "restoreParent", "save", "reviveRead", "reviveGate",
                         "reviveCheck", "reviveWrite", "reviveAlarm"}
            => req[c].kind \in {"restore", "revive"}
      BY DEF Settled, Places, Shaped
    <3> QED  BY <3>1, <3>2 DEF RestoreDoes, ReviveDoes
  <2>8. InsertDoes(c) \/ PutDoes(c)
    BY <2>3, <2>6, <2>7 DEF Does
  <2> QED  BY <1>4, <2>1, <2>2, <2>3, <2>5, <2>8 DEF InsertDoes, PutDoes, Ended, On, Halved
<1> QED  BY <1>3, <1>4

\* A request that watches goes on watching, or undoes what it wrote.
LEMMA WatchKept ==
    ASSUME Settled, NestInv, NEW c \in Clients, Submit(c) \/ Step(c) \/ Fail(c),
           NEW e \in Clients, NEW f \in Rows, NEW p \in Rows, Live(f), doc[f].parent = p,
           doc'[f].parent # None
    PROVE  /\ (/\ Watches(req[e], f, p, "assertParent", "assertVariants")
               /\ doc[p].parent # None) =>
              Watches(req'[e], f, p, "assertParent", "assertVariants")
           /\ (/\ Watches(req[e], f, p, "assertVariants", "assertParent")
               /\ HasVariants(f)) =>
              Watches(req'[e], f, p, "assertVariants", "assertParent")
<1> DEFINE Up(r) == Watches(r, f, p, "assertParent", "assertVariants")
           Down(r) == Watches(r, f, p, "assertVariants", "assertParent")
<1>1. Typed /\ Moves(c)
  BY StepSettled DEF Settled, Places
<1>2. CASE e # c
  BY <1>1, <1>2, MovesRequests
<1>3. CASE e = c
  <2> SUFFICES ASSUME \/ Up(req[c]) /\ doc[p].parent # None
                      \/ Down(req[c]) /\ HasVariants(f)
               PROVE  /\ (Up(req[c]) /\ doc[p].parent # None) => Up(req'[c])
                      /\ (Down(req[c]) /\ HasVariants(f)) => Down(req'[c])
    BY <1>3
  <2>1. /\ req[c].pc \in {"assertParent", "assertVariants", "rollback"}
        /\ req[c].kind = "adopt" /\ req[c].t = f /\ req[c].p = p
    BY DEF Watches
  <2>2. PutDoes(c)
    BY <2>1, WatchingDoes DEF NestInv
  <2>3. CASE req[c].pc = "rollback"
    BY <2>1, <2>2, <2>3 DEF PutDoes, Becomes
  <2>4. CASE On(c, "rollback")
    BY <2>1, <2>4 DEF On, Same, Watches
  <2>5. CASE req[c].pc = "assertParent" /\ ~On(c, "rollback")
    <3>1. doc[p].parent = None /\ (req[c].half \/ Halved(c, "assertVariants"))
      BY <2>1, <2>2, <2>5 DEF PutDoes
    <3>2. Down(req[c]) => ~req[c].half
      BY <2>5 DEF Watches
    <3>3. Halved(c, "assertVariants") => Down(req'[c])
      BY <2>1 DEF Halved, Same, Watches
    <3> QED  BY <3>1, <3>2, <3>3
  <2>6. CASE req[c].pc = "assertVariants" /\ ~On(c, "rollback")
    <3>1. ~HasVariants(f) /\ (req[c].half \/ Halved(c, "assertParent"))
      BY <2>1, <2>2, <2>6 DEF PutDoes
    <3>2. Up(req[c]) => ~req[c].half
      BY <2>6 DEF Watches
    <3>3. Halved(c, "assertParent") => Up(req'[c])
      BY <2>1 DEF Halved, Same, Watches
    <3> QED  BY <3>1, <3>2, <3>3
  <2> QED  BY <2>1, <2>3, <2>4, <2>5, <2>6
<1> QED  BY <1>2, <1>3

\* A nesting that was watched is watched, or undone.
LEMMA NestWatched ==
    ASSUME Settled, NestInv, NEW c \in Clients, Submit(c) \/ Step(c) \/ Fail(c),
           NEW f \in Rows, NEW g \in Rows, Nested(f, g),
           doc'[f].parent = g, doc'[g].parent = doc[g].parent
    PROVE  \/ \E e \in Clients : Watches(req'[e], f, g, "assertParent", "assertVariants")
           \/ \E e \in Clients :
                 Watches(req'[e], g, doc'[g].parent, "assertVariants", "assertParent")
<1>1. Watched(f, g) /\ None \notin Rows
  BY FamiliesAssumption DEF NestInv
<1>2. doc[g].parent \in Rows
  <2>1. doc[g] \in Doc
    BY DEF Nested, Live, IsDoc, Settled, Places, Typed
  <2> QED  BY <2>1 DEF Doc, Nested
<1>3. HasVariants(g)
  BY DEF Nested, HasVariants, LiveVariants
<1>4. CASE \E e \in Clients : Watches(req[e], f, g, "assertParent", "assertVariants")
  <2>1. PICK e \in Clients : Watches(req[e], f, g, "assertParent", "assertVariants")
    BY <1>4
  <2>2. Watches(req'[e], f, g, "assertParent", "assertVariants")
    BY <1>1, <2>1, WatchKept DEF Nested
  <2> QED
    BY <2>1, <2>2
<1>5. CASE \E e \in Clients : Watches(req[e], g, doc[g].parent, "assertVariants", "assertParent")
  <2>1. PICK e \in Clients : Watches(req[e], g, doc[g].parent, "assertVariants", "assertParent")
    BY <1>5
  <2>2. Watches(req'[e], g, doc[g].parent, "assertVariants", "assertParent")
    BY <1>1, <1>2, <1>3, <2>1, WatchKept DEF Nested
  <2> QED
    BY <2>1, <2>2
<1> QED  BY <1>1, <1>4, <1>5 DEF Watched

\* Whoever makes a nesting watches it: the parent that the gate found has none
\* itself, so only the write of a parent can make one.
LEMMA NestsWatched ==
    ASSUME Settled, NestInv, NEW c \in Clients, Submit(c) \/ Step(c) \/ Fail(c),
           NEW f \in Rows, NEW g \in Rows, (Nested(f, g))'
    PROVE  (Watched(f, g))'
<1>1. /\ Typed /\ Shaped(req[c]) /\ Names(req[c]) /\ None \notin Rows
      /\ Moves(c) /\ Does(c) /\ Wrote(c) /\ Known'
  BY StepSettled, DoesWrote, FamiliesAssumption DEF Settled, Places, Known
<1>2. /\ doc'[f] # NoDoc /\ doc'[f].live /\ doc'[f].parent = g
      /\ doc'[g] # NoDoc /\ doc'[g].live /\ doc'[g].parent # None
      /\ f # g
  BY <1>1 DEF Nested, Live, IsDoc, Known
<1> SUFFICES
      \/ \E e \in Clients : Watches(req'[e], f, g, "assertParent", "assertVariants")
      \/ \E e \in Clients : Watches(req'[e], g, doc'[g].parent, "assertVariants", "assertParent")
  BY DEF Watched
<1>3. CASE Nested(f, g) /\ doc'[g].parent = doc[g].parent
  BY <1>2, <1>3, NestWatched
<1>4. CASE ~(Nested(f, g) /\ doc'[g].parent = doc[g].parent)
  <2>1. doc' # doc
    BY <1>2, <1>4 DEF Nested, Live, IsDoc
  <2>2. req[c].kind \notin {"restore", "revive"}
    BY <1>1 DEF NestInv, Steady, Settled, Asked, Shaped, Idle
  <2>3. PICK x, live, purged, parent, own, marker, by :
          /\ Becomes(x, live, purged, parent, own, marker, by)
          /\ parent \in Rows \cup {None}
          /\ \/ IsDoc(x) /\ parent = doc[x].parent /\ (live => doc[x].live)
             \/ IsDoc(x) /\ parent = None
             \/ ~IsDoc(x) /\ parent = req[c].p /\ req[c].pc \in {"copy", "insert"}
             \/ /\ x = req[c].t /\ parent = req[c].p
                /\ req[c].pc = "write" /\ req[c].kind = "adopt"
                /\ On(c, "assertParent") \/ On(c, "assertVariants")
    BY <1>1, <2>1, <2>2 DEF Wrote
  <2>4. /\ doc'[x].live = live /\ doc'[x].parent = parent
        /\ \A y \in Rows \ {x} : doc'[y] = doc[y]
    BY <2>3 DEF Becomes
  <2>5. CASE x # f /\ x # g
    BY <1>2, <1>4, <2>4, <2>5 DEF Nested, Live, IsDoc
  <2>6. CASE x = f
    <3>1. doc'[g] = doc[g] /\ parent = g
      BY <1>2, <2>4, <2>6
    <3>2. ~(IsDoc(f) /\ parent = doc[f].parent /\ doc[f].live)
      BY <1>1, <1>2, <1>4, <3>1 DEF Nested, Live, IsDoc
    <3>3. ~(req[c].p = g /\ req[c].pc \in {"copy", "insert"})
      BY <1>2, <3>1 DEF NestInv, GatePcs
    <3>4. /\ req[c].pc = "write" /\ req[c].kind = "adopt" /\ req[c].t = f /\ req[c].p = g
          /\ On(c, "assertParent") \/ On(c, "assertVariants")
      BY <1>1, <1>2, <2>3, <2>4, <2>6, <3>1, <3>2, <3>3
    <3>5. ~req[c].half
      BY <3>4 DEF NestInv
    <3>6. Watches(req'[c], f, g, "assertParent", "assertVariants")
      BY <3>4, <3>5 DEF On, Same, Watches
    <3> QED  BY <3>6
  <2>7. CASE x = g
    <3>1. doc'[f] = doc[f] /\ IsDoc(f) /\ doc[f].parent = g
      BY <1>2, <2>4, <2>7 DEF IsDoc
    <3>2. IsDoc(g)
      BY <1>1, <3>1 DEF Settled, Known
    <3>3. ~(parent = doc[g].parent /\ doc[g].live)
      BY <1>1, <1>2, <1>4, <2>4, <2>7, <3>1, <3>2 DEF Nested, Live, IsDoc
    <3>4. /\ req[c].pc = "write" /\ req[c].kind = "adopt" /\ req[c].t = g /\ req[c].p = parent
          /\ On(c, "assertParent") \/ On(c, "assertVariants")
      BY <1>1, <1>2, <2>3, <2>4, <2>7, <3>2, <3>3
    <3>5. ~req[c].half
      BY <3>4 DEF NestInv
    <3>6. Watches(req'[c], g, parent, "assertVariants", "assertParent")
      BY <3>4, <3>5 DEF On, Same, Watches
    <3> QED  BY <2>4, <2>7, <3>6
  <2> QED  BY <2>5, <2>6, <2>7
<1> QED  BY <1>3, <1>4

\* Inheritance is one level deep "under any interleaving of two opposing
\* re-parents": of a row with a parent that has a parent, one was written by a PUT
\* that has yet to look.  The second of the two to write looks after both writes,
\* so it is the one that sees the other.  This is so as long as no request fails
\* between its write and its look, and none brings a row back from the trash, of
\* which the parent was looked at earlier: without either condition the model
\* checker finds the rule broken.
THEOREM OneLevelDeep ==
    ASSUME \A p \in Plays : /\ p.fails = 0
                            /\ \A c \in Clients : p.kinds[c] \cap {"restore", "revive"} = {}
    PROVE  Spec => []NoNesting
<1>1. Init => NestInv
  <2> SUFFICES ASSUME Init PROVE NestInv
    OBVIOUS
  <2>1. Steady
    BY DEF Init, Steady
  <2>2. \A c \in Clients : req[c] = Idle
    BY DEF Init
  <2>3. PICK own \in [play.roots -> SUBSET (play.traits \cup Spools)] :
          doc = [f \in Rows |-> IF f \in play.roots THEN Fresh(None, own[f], 0) ELSE NoDoc]
    BY DEF Init
  <2>4. \A f \in Rows : IsDoc(f) => doc[f].parent = None
    BY <2>3 DEF IsDoc, Fresh
  <2>5. \A f, g \in Rows : ~Nested(f, g)
    BY <2>4 DEF Nested, Live
  <2> QED  BY <2>1, <2>2, <2>5 DEF NestInv, Idle, GatePcs
<1>2. Settled /\ NestInv /\ [Next]_vars => NestInv'
  <2> SUFFICES ASSUME Settled, NestInv, [Next]_vars PROVE NestInv'
    OBVIOUS
  <2>1. CASE UNCHANGED vars
    <3>1. /\ \A f, g \in Rows : (Nested(f, g))' = Nested(f, g) /\ (Watched(f, g))' = Watched(f, g)
          /\ Steady' = Steady
      BY <2>1 DEF vars, Nested, Live, IsDoc, Watched, Watches, Steady
    <3> QED  BY <2>1, <3>1 DEF vars, NestInv
  <2>2. CASE Next
    <3>1. ~Crash
      BY DEF Crash, NestInv, Steady
    <3>2. PICK c \in Clients : Submit(c) \/ Step(c) \/ Fail(c)
      BY <2>2, <3>1 DEF Next
    <3>3. PlayOn /\ Moves(c) /\ Does(c)
      BY <3>2, StepSettled
    <3>4. Steady'
      <4>1. play' = play
        BY <3>3 DEF PlayOn, NestInv, Steady
      <4> QED  BY <4>1 DEF NestInv, Steady
    <3>5. \A f, g \in Rows : (Nested(f, g))' => (Watched(f, g))'
      BY <3>2, NestsWatched
    <3>6. \A d \in Clients : req'[d].pc \in GatePcs \cup {"insert"} => doc'[req'[d].p].parent = None
      BY <3>3, RootsKept
    <3>7. \A d \in Clients : req'[d].half =>
             req'[d].pc \in {"assertParent", "assertVariants", "rollback", "alarm"}
      BY <3>3, HalfKept
    <3> QED  BY <3>4, <3>5, <3>6, <3>7 DEF NestInv
  <2> QED  BY <2>1, <2>2
<1>3. Settled /\ NestInv => NoNesting
  <2> SUFFICES ASSUME Settled, NestInv, NEW f \in Rows, Live(f), Live(doc[f].parent),
                      doc[doc[f].parent].parent # None
               PROVE  Settling(f) \/ Settling(doc[f].parent)
    BY DEF NoNesting
  <2>1. doc[f].parent \in Rows
    BY LiveIsDoc, FamiliesAssumption DEF Settled, Places, Typed, Doc, Live, IsDoc
  <2>2. Watched(f, doc[f].parent)
    BY <2>1 DEF NestInv, Nested
  <2> QED  BY <2>2 DEF Watched, Watches, Settling
<1> QED  BY <1>1, <1>2, <1>3, SettledAlways, PTL DEF Spec
-----------------------------------------------------------------------------
(***************************************************************************)
(* Where the spools of a family are.  In an orderly play filaments keep    *)
(* their parent: nobody re-parents or revives one, and nobody both purges  *)
(* and restores; whatever else is asked, fails or crashes, no spool is     *)
(* lost and no template holds one that is not on its way to the copy.      *)
(* In a calm play filaments are not trashed either: references to spools   *)
(* resolve, no spool is on two filaments for good, none comes back.        *)
(***************************************************************************)

Orderly ==
    /\ \A c \in Clients : play.kinds[c] \cap {"adopt", "detach", "revive"} = {}
    /\ ~(/\ \E c \in Clients : "purge" \in play.kinds[c]
         /\ \E c \in Clients : "restore" \in play.kinds[c])

\* v is the copy that a promotion of p made: parent and token say so.
IsCopy(v, p) ==
    IsDoc(v) /\ doc[v].parent = p /\ doc[v].by = doc[p].marker /\ doc[v].by # 0

\* A template that holds spools is marked, and a copy holds each of them that
\* was not removed since.
Marked(p)  == HeldSpools(p) = {} \/ doc[p].marker # 0
Covered(p) == \A s \in HeldSpools(p) \cap added :
                 \E v \in Rows \ {p} : IsCopy(v, p) /\ s \in doc[v].own
Fit(p) == Marked(p) /\ Covered(p)

FamilyInv == \A p \in Rows : HasVariants(p) => Fit(p) /\ Live(p)

\* What holds while a request is under its gate's key: the parent is live and has
\* no parent; the snapshot has the parent's spools, and its marker once that
\* matters; and before a variant surfaces the parent is fit to have one.
UnderGate(r) == r.pc \in GatePcs \cup {"insert"} \/ (r.pc = "save" /\ r.p # None)
Moving(r)    == \/ r.pc \in GatePcs \ {"gate", "unmark"}
                \/ r.pc = "gate" /\ Needed(r.snap)

Rooted(r) == UnderGate(r) => Live(r.p) /\ doc[r.p].parent = None
Snapped(r) ==
    /\ r.pc \in GatePcs => r.snap.own \cap Spools = HeldSpools(r.p)
    /\ Moving(r) => r.snap.marker = doc[r.p].marker
    /\ r.pc = "unmark" => ~Needed(r.snap)
    /\ r.pc = "mark" => r.snap.marker = 0
    /\ r.pc \in {"copy", "remap", "complete"} => doc[r.p].marker # 0
Fitted(r) ==
    (r.pc \in {"resume", "remap", "complete", "insert"} \/ (r.pc = "save" /\ r.p # None)) =>
        Fit(r.p)
\* What a restore read of its parent, and what was found of variants, still holds.
Upheld(r) ==
    (r.kind = "restore" /\ r.pc # "restoreRead") => doc[r.t].parent = r.p
Childless(r) ==
    /\ r.pc \in {"push", "pushAgain", "trashRead", "trashSlots", "trashWrite"} =>
          ~HasVariants(r.t)
    /\ r.pc # "pull"
Gone(r) == r.pc \in {"purgeCheck", "purgeSlots", "purgeWrite"} => ~doc[r.t].live

SectionInv(r) ==
    Rooted(r) /\ Snapped(r) /\ Fitted(r) /\ Upheld(r) /\ Childless(r) /\ Gone(r)

\* The spool that a request brings is on no filament and nobody else brings it.
Brings(r) == r.pc \in {"pushCheck", "push"}
NewSpools ==
    \A c \in Clients : Brings(req[c]) =>
        /\ \A f \in Rows : IsDoc(f) => req[c].spool \notin doc[f].own
        /\ \A d \in Clients \ {c} : Brings(req[d]) => req[d].spool # req[c].spool

SpoolInv ==
    /\ Orderly
    /\ FamilyInv
    /\ NewSpools
    /\ InventoryKept
    /\ \A c \in Clients : SectionInv(req[c])

-----------------------------------------------------------------------------
(* What the steps of an orderly play write, as far as spools go.           *)

\* Row x is written: its parent and token stay.  Row v is new.
Rewritten(x, live, spools, marker) ==
    /\ x \in Rows /\ IsDoc(x) /\ doc'[x] # NoDoc
    /\ doc'[x].parent = doc[x].parent /\ doc'[x].by = doc[x].by
    /\ doc'[x].live = live /\ doc'[x].own \cap Spools = spools /\ doc'[x].marker = marker
    /\ \A y \in Rows \ {x} : doc'[y] = doc[y]
Created(v, p, spools, by) ==
    /\ v \in Rows /\ ~IsDoc(v) /\ doc'[v] # NoDoc
    /\ doc'[v].parent = p /\ doc'[v].by = by
    /\ doc'[v].live = TRUE /\ doc'[v].own \cap Spools = spools /\ doc'[v].marker = 0
    /\ \A y \in Rows \ {v} : doc'[y] = doc[y]

Writes(c) ==
    LET r == req[c]
        t == req[c].t
        p == req[c].p
    IN
    \/ Still
    \/ r.pc = "unmark" /\ added' = added /\ Live(p) /\ Rewritten(p, TRUE, HeldSpools(p), 0)
    \/ r.pc = "mark" /\ added' = added /\ Live(p) /\ Rewritten(p, TRUE, HeldSpools(p), Token)
    \/ r.pc = "complete" /\ added' = added /\ Live(p) /\ Rewritten(p, TRUE, {}, 0)
    \/ /\ r.pc = "copy" /\ added' = added
       /\ \E v \in Rows : Created(v, p, r.snap.own \cap Spools, r.snap.marker)
    \/ r.pc = "insert" /\ added' = added /\ \E v \in Rows : Created(v, p, {}, 0)
    \/ /\ r.pc \in {"alarm", "write"} /\ added' = added
       /\ \E x \in Rows : Live(x) /\ Rewritten(x, TRUE, HeldSpools(x), doc[x].marker)
    \/ /\ r.pc \in {"trashWrite", "purgeWrite"} /\ added' = added
       /\ Rewritten(t, FALSE, HeldSpools(t), doc[t].marker)
    \/ r.pc = "save" /\ added' = added /\ Rewritten(t, TRUE, HeldSpools(t), doc[t].marker)
    \/ /\ r.pc = "push" /\ Live(t) /\ added' = added \cup {r.spool}
       /\ Rewritten(t, TRUE, HeldSpools(t) \cup {r.spool}, doc[t].marker)
    \/ /\ r.pc = "drop" /\ Live(t) /\ added' = added \ {r.spool}
       /\ Rewritten(t, TRUE, HeldSpools(t) \ {r.spool}, doc[t].marker)

LEMMA SpoolWrites ==
    ASSUME Settled, SpoolInv, NEW c \in Clients, Does(c)
    PROVE  Writes(c)
<1> DEFINE r == req[c]
           t == req[c].t
           p == req[c].p
<1>1. /\ Typed /\ Shaped(r) /\ Names(r) /\ None \notin Rows
      /\ p \in Rows \cup {None} /\ t \in Rows \cup {None}
      /\ SectionInv(r)
  BY FamiliesAssumption DEF Settled, Places, Known, Typed, Reqs, SpoolInv
<1>2. Traits \cap Spools = {} /\ "alarm" \notin Spools
  BY FamiliesAssumption
<1>3. ASSUME NEW x \in Rows, IsDoc(x), NEW live, NEW purged, NEW own, NEW marker,
             Becomes(x, live, purged, doc[x].parent, own, marker, doc[x].by)
      PROVE  Rewritten(x, live, own \cap Spools, marker)
  BY <1>3, FamiliesAssumption DEF Becomes, Rewritten
<1>4. ASSUME NEW v \in Rows, ~IsDoc(v), NEW own, NEW by,
             Becomes(v, TRUE, FALSE, p, own, 0, by)
      PROVE  Created(v, p, own \cap Spools, by)
  BY <1>4, FamiliesAssumption DEF Becomes, Created
<1>5. ASSUME NEW x \in Rows \cup {None}, Live(x)
      PROVE  x \in Rows /\ IsDoc(x)
  BY <1>1, <1>5, LiveIsDoc
<1>6. ASSUME NEW x \in Rows \cup {None}, Live(x), NEW own, NEW marker, Rewrites(x, own, marker)
      PROVE  Rewritten(x, TRUE, own \cap Spools, marker)
  BY <1>3, <1>5, <1>6 DEF Rewrites
<1>7. \A x : (HeldSpools(x) = doc[x].own \cap Spools)
             /\ (doc[x].own \ {"alarm"}) \cap Spools = HeldSpools(x)
  BY <1>2 DEF HeldSpools
<1>8. CASE GateDoes(c)
  <2>1. CASE r.pc \in {"unmark", "mark", "complete"}
    <3>1. Live(p) /\ p \in Rows
      BY <1>1, <1>5, <2>1 DEF SectionInv, Rooted, UnderGate, GatePcs
    <3>2. added' = added /\ {} \cap Spools = {}
      BY <1>8, <2>1 DEF GateDoes, Still
    <3>3. /\ r.pc = "unmark" => Rewrites(p, doc[p].own, 0)
          /\ r.pc = "mark" => Rewrites(p, doc[p].own, Token)
          /\ r.pc = "complete" => Rewrites(p, {}, 0)
      BY <1>8, <2>1 DEF GateDoes
    <3>4. /\ r.pc = "unmark" => Rewritten(p, TRUE, doc[p].own \cap Spools, 0)
          /\ r.pc = "mark" => Rewritten(p, TRUE, doc[p].own \cap Spools, Token)
          /\ r.pc = "complete" => Rewritten(p, TRUE, {} \cap Spools, 0)
      BY <1>6, <3>1, <3>3
    <3> QED  BY <1>7, <2>1, <3>1, <3>2, <3>4 DEF Writes
  <2>2. CASE r.pc = "copy"
    <3>1. PICK v \in Rows : ~IsDoc(v) /\ Becomes(v, TRUE, FALSE, p, r.snap.own, 0, r.snap.marker)
      BY <1>8, <2>2 DEF GateDoes
    <3>2. added' = added
      BY <1>8, <2>2 DEF GateDoes
    <3> QED  BY <1>4, <2>2, <3>1, <3>2 DEF Writes
  <2>3. CASE r.pc = "alarm"
    <3>1. added' = added /\ Rewrites(p, doc[p].own \ {"alarm"}, doc[p].marker)
      BY <1>8, <2>3 DEF GateDoes
    <3>2. CASE Live(p)
      <4>1. p \in Rows /\ Rewritten(p, TRUE, (doc[p].own \ {"alarm"}) \cap Spools, doc[p].marker)
        BY <1>1, <1>5, <1>6, <3>1, <3>2
      <4> QED  BY <1>7, <2>3, <3>1, <3>2, <4>1 DEF Writes
    <3>3. CASE ~Live(p)
      BY <2>3, <3>1, <3>3 DEF Rewrites, Writes, Still
    <3> QED  BY <3>2, <3>3
  <2>4. CASE r.pc \notin {"unmark", "mark", "complete", "copy", "alarm"}
    <3>1. Still
      BY <1>8, <2>4 DEF GateDoes
    <3> QED  BY <2>4, <3>1 DEF Writes
  <2> QED  BY <2>1, <2>2, <2>3, <2>4
<1>9. CASE InsertDoes(c)
  <2>1. PICK v \in Rows, own \in SUBSET Traits :
          ~IsDoc(v) /\ Becomes(v, TRUE, FALSE, p, own, 0, 0)
    BY <1>9 DEF InsertDoes
  <2>2. own \cap Spools = {}
    BY <1>2
  <2> QED  BY <1>4, <1>9, <2>1, <2>2 DEF InsertDoes, Writes
<1>10. CASE PutDoes(c)
  <2>1. r.kind # "adopt" /\ r.kind # "detach"
    <3>1. r.pc # "idle"
      BY <1>10 DEF PutDoes
    <3> QED  BY <3>1 DEF Settled, Asked, SpoolInv, Orderly
  <2>2. r.pc \in {"strip", "write"}
    BY <1>1, <1>10, <2>1 DEF PutDoes, Shaped
  <2>3. CASE r.pc = "strip"
    BY <1>10, <2>3 DEF PutDoes, Writes
  <2>4. CASE r.pc = "write"
    <3>1. /\ added' = added /\ Live(t)
          /\ \E more \in SUBSET Traits, parent \in Rows \cup {None} :
                /\ Becomes(t, TRUE, doc[t].purged, parent, doc[t].own \cup more,
                           doc[t].marker, doc[t].by)
                /\ parent = doc[t].parent
      BY <1>10, <2>1, <2>4 DEF PutDoes
    <3>2. PICK more \in SUBSET Traits :
             Becomes(t, TRUE, doc[t].purged, doc[t].parent, doc[t].own \cup more,
                     doc[t].marker, doc[t].by)
      BY <3>1
    <3>3. (doc[t].own \cup more) \cap Spools = HeldSpools(t)
      BY <1>2 DEF HeldSpools
    <3>4. t \in Rows /\ IsDoc(t)
      BY <1>1, <1>5, <3>1
    <3>5. Rewritten(t, TRUE, (doc[t].own \cup more) \cap Spools, doc[t].marker)
      BY <1>3, <3>2, <3>4
    <3> QED  BY <2>4, <3>1, <3>3, <3>4, <3>5 DEF Writes
  <2> QED  BY <2>2, <2>3, <2>4
<1>11. CASE DeleteDoes(c)
  <2>1. CASE doc' = doc
    BY <1>11, <2>1 DEF DeleteDoes, Writes, Still
  <2>2. CASE doc' # doc
    <3>1. r.pc \in {"trashWrite", "purgeWrite"} /\ added' = added
      BY <1>11, <2>2 DEF DeleteDoes, Still
    <3>2. t \in Rows /\ IsDoc(t)
      BY <1>1, <3>1 DEF Shaped, Names
    <3>3. PICK purged :
             Becomes(t, FALSE, purged, doc[t].parent, doc[t].own, doc[t].marker, doc[t].by)
      BY <1>11, <2>2, <3>1 DEF DeleteDoes, Still
    <3>4. Rewritten(t, FALSE, doc[t].own \cap Spools, doc[t].marker)
      BY <1>3, <3>2, <3>3
    <3> QED  BY <1>7, <3>1, <3>4 DEF Writes
  <2> QED  BY <2>1, <2>2
<1>12. CASE RestoreDoes(c)
  <2>1. CASE r.pc = "save"
    <3>1. t \in Rows /\ IsDoc(t)
      BY <1>1, <2>1 DEF Shaped, Names
    <3>2. added' = added
          /\ Becomes(t, TRUE, doc[t].purged, doc[t].parent, doc[t].own, doc[t].marker, doc[t].by)
      BY <1>12, <2>1 DEF RestoreDoes
    <3>3. Rewritten(t, TRUE, doc[t].own \cap Spools, doc[t].marker)
      BY <1>3, <3>1, <3>2
    <3> QED  BY <1>7, <2>1, <3>2, <3>3 DEF Writes
  <2>2. CASE r.pc # "save"
    BY <1>12, <2>2 DEF RestoreDoes, Writes
  <2> QED  BY <2>1, <2>2
<1>13. CASE ReviveDoes(c)
  <2>1. r.kind = "revive" /\ r.pc # "idle"
    BY <1>1, <1>13 DEF ReviveDoes, Shaped
  <2> QED  BY <2>1 DEF Settled, Asked, SpoolInv, Orderly
<1>14. CASE SpoolDoes(c)
  <2>1. CASE r.pc \in {"push", "drop"}
    <3>1. t \in Rows /\ IsDoc(t) /\ r.spool \in Spools
      BY <1>1, <2>1 DEF Shaped, Names
    <3>2. /\ (doc[t].own \cup {r.spool}) \cap Spools = HeldSpools(t) \cup {r.spool}
          /\ (doc[t].own \ {r.spool}) \cap Spools = HeldSpools(t) \ {r.spool}
      BY <3>1 DEF HeldSpools
    <3>3. CASE r.pc = "push"
      <4>1. /\ Live(t) /\ added' = added \cup {r.spool}
            /\ Becomes(t, TRUE, doc[t].purged, doc[t].parent, doc[t].own \cup {r.spool},
                       doc[t].marker, doc[t].by)
        BY <1>14, <3>3 DEF SpoolDoes
      <4>2. Rewritten(t, TRUE, (doc[t].own \cup {r.spool}) \cap Spools, doc[t].marker)
        BY <1>3, <3>1, <4>1
      <4> QED  BY <3>2, <3>3, <4>1, <4>2 DEF Writes
    <3>4. CASE r.pc = "drop"
      <4>1. /\ Live(t) /\ added' = added \ {r.spool}
            /\ Becomes(t, TRUE, doc[t].purged, doc[t].parent, doc[t].own \ {r.spool},
                       doc[t].marker, doc[t].by)
        BY <1>14, <3>4 DEF SpoolDoes
      <4>2. Rewritten(t, TRUE, (doc[t].own \ {r.spool}) \cap Spools, doc[t].marker)
        BY <1>3, <3>1, <4>1
      <4> QED  BY <3>2, <3>4, <4>1, <4>2 DEF Writes
    <3> QED  BY <2>1, <3>3, <3>4
  <2>2. CASE r.pc \notin {"push", "drop"}
    BY <1>1, <1>14, <2>2 DEF SpoolDoes, SectionInv, Childless, Writes
  <2> QED  BY <2>1, <2>2
<1>15. CASE (Still /\ Over(c)) \/ SubmitDoes(c)
  BY <1>15 DEF SubmitDoes, Writes
<1> QED  BY <1>8, <1>9, <1>10, <1>11, <1>12, <1>13, <1>14, <1>15 DEF Does

-----------------------------------------------------------------------------
(* What stays, whoever steps.                                              *)

\* A row that is there stays there, with its parent and its token.
LEMMA RowStays ==
    ASSUME NEW c \in Clients, Writes(c), NEW x \in Rows, IsDoc(x)
    PROVE  doc'[x] # NoDoc /\ doc'[x].parent = doc[x].parent /\ doc'[x].by = doc[x].by
<1>1. ASSUME NEW y, NEW live, NEW spools, NEW marker, Rewritten(y, live, spools, marker)
      PROVE  doc'[x] # NoDoc /\ doc'[x].parent = doc[x].parent /\ doc'[x].by = doc[x].by
  BY <1>1 DEF Rewritten, IsDoc
<1>2. ASSUME NEW y, NEW p, NEW spools, NEW by, Created(y, p, spools, by)
      PROVE  doc'[x] # NoDoc /\ doc'[x].parent = doc[x].parent /\ doc'[x].by = doc[x].by
  BY <1>2 DEF Created, IsDoc
<1> QED  BY <1>1, <1>2 DEF Writes, Still, IsDoc

\* Where a spool comes from, and where it goes.
LEMMA SpoolsMove ==
    ASSUME NEW c \in Clients, Writes(c), NEW x \in Rows, IsDoc(x), NEW s \in Spools
    PROVE  /\ (s \in doc'[x].own /\ s \notin doc[x].own) =>
                 req[c].pc = "push" /\ x = req[c].t /\ s = req[c].spool
           /\ (s \in doc[x].own /\ s \notin doc'[x].own) =>
                 \/ req[c].pc = "complete" /\ x = req[c].p
                 \/ req[c].pc = "drop" /\ x = req[c].t /\ s = req[c].spool /\ s \notin added'
<1> DEFINE r == req[c]
           Good == /\ (s \in doc'[x].own /\ s \notin doc[x].own) =>
                         r.pc = "push" /\ x = r.t /\ s = r.spool
                   /\ (s \in doc[x].own /\ s \notin doc'[x].own) =>
                         \/ r.pc = "complete" /\ x = r.p
                         \/ r.pc = "drop" /\ x = r.t /\ s = r.spool /\ s \notin added'
<1> SUFFICES Good
  OBVIOUS
<1>1. ASSUME NEW y, NEW live, NEW spools, NEW marker, Rewritten(y, live, spools, marker),
             x # y \/ (s \in spools <=> s \in doc[x].own)
      PROVE  Good
  BY <1>1 DEF Rewritten
<1>2. ASSUME NEW y, NEW p, NEW spools, NEW by, Created(y, p, spools, by)
      PROVE  Good
  BY <1>2 DEF Created
<1>3. ASSUME NEW y, NEW live, NEW marker, Rewritten(y, live, HeldSpools(y), marker)
      PROVE  Good
  BY <1>1, <1>3 DEF HeldSpools
<1>4. CASE r.pc = "push" /\ ~Still
  BY <1>4 DEF Writes, Rewritten, HeldSpools
<1>5. CASE r.pc = "drop" /\ ~Still
  BY <1>5 DEF Writes, Rewritten, HeldSpools
<1>6. CASE r.pc = "complete"
  BY <1>6 DEF Writes, Rewritten, HeldSpools, Still
<1>7. CASE Still
  BY <1>7 DEF Still
<1> HIDE DEF Good
<1>8. CASE r.pc \notin {"push", "drop", "complete"} /\ ~Still
  BY <1>2, <1>3, <1>8 DEF Writes
<1> QED  BY <1>4, <1>5, <1>6, <1>7, <1>8

LEMMA AddedMoves ==
    ASSUME NEW c \in Clients, Writes(c), NEW s
    PROVE  (s \in added' /\ s \notin added) => req[c].pc = "push" /\ s = req[c].spool
BY DEF Writes, Still

\* The spools that a template's copies hold stay covered.
LEMMA CoverKept ==
    ASSUME Settled, SpoolInv, NEW c \in Clients, Writes(c),
           NEW x \in Rows, IsDoc(x), Covered(x), doc'[x].marker = doc[x].marker,
           doc'[x].own \cap Spools \subseteq HeldSpools(x)
    PROVE  (Covered(x))'
<1>1. Typed /\ None \notin Rows /\ SectionInv(req[c])
  BY FamiliesAssumption DEF Settled, Places, SpoolInv
<1> SUFFICES ASSUME NEW s \in Spools, s \in doc'[x].own, s \in added'
             PROVE  \E v \in Rows \ {x} : (IsCopy(v, x))' /\ s \in doc'[v].own
  BY DEF Covered, HeldSpools
<1>2. s \in doc[x].own /\ s \in HeldSpools(x)
  BY DEF HeldSpools
<1>3. s \in added
  <2>1. SUFFICES ASSUME s \notin added PROVE FALSE
    OBVIOUS
  <2>2. req[c].pc = "push" /\ s = req[c].spool
    BY <2>1, AddedMoves
  <2> QED  BY <1>2, <2>2 DEF SpoolInv, NewSpools, Brings
<1>4. PICK v \in Rows \ {x} : IsCopy(v, x) /\ s \in doc[v].own
  BY <1>2, <1>3 DEF Covered
<1>5. IsDoc(v) /\ doc[v].parent = x
  BY <1>4 DEF IsCopy
<1>6. (IsCopy(v, x))'
  BY <1>4, <1>5, RowStays DEF IsCopy, IsDoc
<1>7. s \in doc'[v].own
  <2>1. SUFFICES ASSUME s \notin doc'[v].own PROVE FALSE
    OBVIOUS
  <2>2. req[c].pc = "complete" /\ v = req[c].p
    BY <1>4, <1>5, <2>1, SpoolsMove
  <2>3. doc[v].parent = None
    BY <1>1, <2>2 DEF SectionInv, Rooted, UnderGate, GatePcs
  <2> QED  BY <1>1, <1>5, <2>3
<1> QED  BY <1>4, <1>6, <1>7

\* While a request is in a section of row x, nobody else's step changes what the
\* row holds, its marker, or whether it is alive and has variants.
LEMMA SectionKeeps ==
    ASSUME Settled, SpoolInv, NEW c \in Clients, MayRun(c), Writes(c),
           NEW d \in Clients, d # c, MayRun(d), NEW x \in Rows, req[d].key = x, IsDoc(x)
    PROVE  /\ doc'[x].own \cap Spools = HeldSpools(x)
           /\ doc'[x].marker = doc[x].marker
           /\ Live(x) => doc'[x].live
           /\ (HasVariants(x))' => HasVariants(x)
<1> DEFINE r == req[c]
           t == req[c].t
           p == req[c].p
           Kept == /\ doc'[x].own \cap Spools = HeldSpools(x)
                   /\ doc'[x].marker = doc[x].marker
                   /\ Live(x) => doc'[x].live
<1>1. /\ Typed /\ Shaped(r) /\ None \notin Rows /\ SectionInv(r)
      /\ \A f \in Rows : IsDoc(f) => doc[f].live \in BOOLEAN
  BY FamiliesAssumption, DocFields DEF Settled, Places, SpoolInv
<1>2. r.key # x
  BY Exclusive, <1>1
<1>3. /\ r.pc \in GatePcs => p # x
      /\ r.pc \in {"trashWrite", "push", "drop"} => t # x
      /\ r.pc = "insert" => p # x
      /\ r.pc = "save" => p # x
  BY <1>1, <1>2 DEF Shaped
<1>4. ASSUME NEW y, NEW live, NEW spools, NEW marker, Rewritten(y, live, spools, marker), y # x
      PROVE  Kept
  BY <1>4 DEF Rewritten, HeldSpools, Live
<1>5. ASSUME NEW y, Rewritten(y, TRUE, HeldSpools(y), doc[y].marker)
      PROVE  Kept
  BY <1>5 DEF Rewritten, HeldSpools, Live
<1>6. ASSUME NEW y, NEW q, NEW spools, NEW by, Created(y, q, spools, by)
      PROVE  Kept
  BY <1>6 DEF Created, HeldSpools, Live
<1>7. ASSUME Still PROVE Kept
  BY <1>7 DEF Still, HeldSpools, Live
<1>8. ASSUME r.pc = "purgeWrite" PROVE Kept
  <2>1. doc[t].live = FALSE \/ t \notin Rows
    BY <1>1, <1>8 DEF SectionInv, Gone
  <2>2. Still \/ Rewritten(t, FALSE, HeldSpools(t), doc[t].marker)
    BY <1>8 DEF Writes
  <2> QED  BY <1>7, <2>1, <2>2 DEF Rewritten, HeldSpools, Live
<1>9. Kept
  <2> HIDE DEF Kept
  <2> QED  BY <1>3, <1>4, <1>5, <1>6, <1>7, <1>8 DEF Writes, GatePcs
<1>10. ASSUME NEW f \in Rows, doc'[f] # NoDoc, doc'[f].live, doc'[f].parent = x
       PROVE  Live(f) /\ doc[f].parent = x
  <2> DEFINE Was == Live(f) /\ doc[f].parent = x
  <2> SUFFICES Was
    OBVIOUS
  <2>1. ASSUME NEW y, NEW live, NEW spools, NEW marker, Rewritten(y, live, spools, marker),
               y # f \/ Live(y)
        PROVE  Was
    BY <1>1, <1>10, <2>1 DEF Rewritten, Live, IsDoc
  <2>2. ASSUME NEW y, NEW spools, NEW marker, Rewritten(y, FALSE, spools, marker)
        PROVE  Was
    BY <1>1, <1>10, <2>2 DEF Rewritten, Live, IsDoc
  <2>3. ASSUME NEW y, NEW spools, NEW by, Created(y, p, spools, by), p # x
        PROVE  Was
    BY <1>1, <1>10, <2>3 DEF Created, Live, IsDoc
  <2>4. CASE r.pc = "save" /\ ~Still
    <3>1. doc[t].parent = p /\ p # x
      BY <1>1, <1>3, <2>4 DEF SectionInv, Upheld, Shaped
    <3>2. Rewritten(t, TRUE, HeldSpools(t), doc[t].marker)
      BY <2>4 DEF Writes
    <3> QED  BY <1>10, <2>1, <3>1, <3>2 DEF Rewritten
  <2>5. CASE Still
    BY <1>1, <1>10, <2>5 DEF Still, Live, IsDoc
  <2> HIDE DEF Was
  <2>6. CASE r.pc # "save" /\ ~Still
    BY <1>3, <2>1, <2>2, <2>3, <2>6 DEF Writes, GatePcs
  <2> QED  BY <2>4, <2>5, <2>6
<1>11. (HasVariants(x))' => HasVariants(x)
  BY <1>10 DEF HasVariants, LiveVariants, Live, IsDoc
<1> QED  BY <1>9, <1>11

\* What holds of a request in its section holds after the steps of the others.
LEMMA OthersKeep ==
    ASSUME Settled, SpoolInv, NEW c \in Clients, Moves(c), Does(c), NEW d \in Clients, d # c
    PROVE  (SectionInv(req[d]))'
<1> DEFINE r == req[d]
<1>1. /\ Typed /\ Shaped(r) /\ Names(r) /\ Exclusion /\ None \notin Rows /\ SectionInv(r)
      /\ Shaped(req[c])
  BY FamiliesAssumption DEF Settled, Places, Known, SpoolInv
<1>2. req'[d] = r /\ MayRun(c) /\ Writes(c)
  BY <1>1, MovesRequests, SpoolWrites
<1>3. r \in Reqs /\ r.p \in Rows \cup {None} /\ r.t \in Rows \cup {None}
  BY <1>1 DEF Typed, Reqs
<1>4. r.pc \notin Entries => MayRun(d)
  BY <1>1 DEF Exclusion
<1>5. ASSUME UnderGate(r)
      PROVE  /\ r.p \in Rows /\ IsDoc(r.p) /\ r.key = r.p /\ MayRun(d)
             /\ doc'[r.p] # NoDoc /\ doc'[r.p].parent = doc[r.p].parent
             /\ doc'[r.p].own \cap Spools = HeldSpools(r.p)
             /\ doc'[r.p].marker = doc[r.p].marker
             /\ doc'[r.p].live
  <2>1. Live(r.p)
    BY <1>1, <1>5 DEF SectionInv, Rooted
  <2>2. r.p \in Rows /\ IsDoc(r.p)
    BY <1>1, <1>3, <2>1, LiveIsDoc
  <2>3. r.key = r.p
    BY <1>1, <1>5 DEF UnderGate, Shaped, GatePcs
  <2>4. MayRun(d)
    BY <1>4, <1>5 DEF UnderGate, GatePcs, Entries
  <2>5. doc'[r.p] # NoDoc /\ doc'[r.p].parent = doc[r.p].parent
    BY <1>2, <2>2, RowStays
  <2> QED  BY <1>2, <2>1, <2>2, <2>3, <2>4, <2>5, SectionKeeps
<1>6. (Rooted(req[d]))'
  BY <1>1, <1>2, <1>3, <1>5, FamiliesAssumption DEF Rooted, UnderGate, Live, IsDoc, SectionInv
<1>7. (Snapped(req[d]))'
  <2>1. r.pc \in GatePcs => UnderGate(r)
    BY DEF UnderGate
  <2>2. Moving(r) => r.pc \in GatePcs
    BY DEF Moving, GatePcs
  <2>3. r.pc \in GatePcs =>
          doc'[r.p].own \cap Spools = HeldSpools(r.p) /\ doc'[r.p].marker = doc[r.p].marker
    BY <1>5, <2>1
  <2>4. {"copy", "remap", "complete"} \subseteq GatePcs
    BY DEF GatePcs
  <2>5. Snapped(r)
    BY <1>1 DEF SectionInv
  <2> QED  BY <1>2, <2>2, <2>3, <2>4, <2>5 DEF Snapped, Moving, HeldSpools, Needed
<1>8. (Fitted(req[d]))'
  <2> SUFFICES ASSUME r.pc \in {"resume", "remap", "complete", "insert"}
                        \/ (r.pc = "save" /\ r.p # None)
               PROVE  (Fit(r.p))'
    BY <1>2 DEF Fitted, Fit, Marked, Covered, IsCopy, IsDoc, HeldSpools
  <2>1. UnderGate(r)
    BY DEF UnderGate, GatePcs
  <2>2. Fit(r.p)
    BY <1>1 DEF SectionInv, Fitted
  <2> DEFINE x == r.p
  <2>3. /\ x \in Rows /\ IsDoc(x) /\ doc'[x].marker = doc[x].marker
        /\ doc'[x].own \cap Spools = HeldSpools(x) /\ Covered(x) /\ Marked(x)
    BY <1>5, <2>1, <2>2 DEF Fit
  <2>4. ASSUME NEW y \in Rows, y = x
        PROVE  (Covered(y))' /\ (Marked(y))'
    <3>1. (Covered(y))'
      BY <1>2, <2>3, <2>4, CoverKept
    <3>2. (Marked(y))'
      BY <2>3, <2>4 DEF Marked, HeldSpools
    <3> QED  BY <3>1, <3>2
  <2> QED  BY <1>2, <2>3, <2>4 DEF Fit, Covered, Marked, IsCopy, IsDoc, HeldSpools
<1>9. (Upheld(req[d]))'
  <2>1. r.kind = "restore" => r.t \in Rows /\ IsDoc(r.t)
    BY <1>1 DEF Shaped, Names
  <2> QED  BY <1>1, <1>2, <2>1, RowStays DEF Upheld, SectionInv
<1>10. (Childless(req[d]))'
  <2>1. ASSUME r.pc \in {"push", "pushAgain", "trashRead", "trashSlots", "trashWrite"}
        PROVE  r.t \in Rows /\ IsDoc(r.t) /\ r.key = r.t /\ MayRun(d)
    BY <1>1, <1>4, <2>1 DEF Shaped, Names, Entries
  <2>2. ASSUME NEW y \in Rows, y = r.t,
               r.pc \in {"push", "pushAgain", "trashRead", "trashSlots", "trashWrite"}
        PROVE  ~(HasVariants(y))'
    <3>1. ~HasVariants(y)
      BY <1>1, <2>2 DEF SectionInv, Childless
    <3> QED  BY <1>2, <2>1, <2>2, <3>1, SectionKeeps
  <2> QED  BY <1>1, <1>2, <2>1, <2>2
           DEF Childless, SectionInv, HasVariants, LiveVariants, Live, IsDoc
<1>11. (Gone(req[d]))'
  <2> SUFFICES ASSUME r.pc \in {"purgeCheck", "purgeSlots", "purgeWrite"}
               PROVE  ~doc'[r.t].live
    BY <1>2 DEF Gone
  <2>1. r.kind = "purge" /\ r.pc # "idle" /\ r.t \in Rows /\ IsDoc(r.t) /\ ~doc[r.t].live
    BY <1>1 DEF Shaped, Names, SectionInv, Gone
  <2>2. ~(req[c].pc = "save")
    <3>1. "purge" \in play.kinds[d]
      BY <2>1 DEF Settled, Asked
    <3>2. SUFFICES ASSUME req[c].pc = "save" PROVE FALSE
      OBVIOUS
    <3>3. "restore" \in play.kinds[c]
      BY <1>1, <3>2 DEF Shaped, Settled, Asked
    <3> QED  BY <3>1, <3>3 DEF SpoolInv, Orderly
  <2>3. ASSUME NEW y, NEW live, NEW spools, NEW marker, Rewritten(y, live, spools, marker),
               Live(y) \/ live = FALSE
        PROVE  ~doc'[r.t].live
    BY <2>1, <2>3 DEF Rewritten, Live
  <2>4. ASSUME NEW y, NEW q, NEW spools, NEW by, Created(y, q, spools, by)
        PROVE  ~doc'[r.t].live
    BY <2>1, <2>4 DEF Created
  <2> QED  BY <1>2, <2>1, <2>2, <2>3, <2>4 DEF Writes, Still
<1> QED  BY <1>6, <1>7, <1>8, <1>9, <1>10, <1>11 DEF SectionInv

\* A filament that has variants stays fit for them, and alive.
LEMMA FamilyKept ==
    ASSUME Settled, SpoolInv, NEW c \in Clients, Does(c), NEW x \in Rows, (HasVariants(x))'
    PROVE  (Fit(x))' /\ (Live(x))'
<1> DEFINE r == req[c]
           t == req[c].t
           p == req[c].p
<1>1. /\ Typed /\ Shaped(r) /\ Names(r) /\ None \notin Rows /\ SectionInv(r) /\ Writes(c)
      /\ \A f \in Rows : IsDoc(f) => doc[f].live \in BOOLEAN
  BY FamiliesAssumption, DocFields, SpoolWrites DEF Settled, Places, Known, SpoolInv
<1>2. \A f \in Rows : IsDoc(f) =>
         doc'[f] # NoDoc /\ doc'[f].parent = doc[f].parent /\ doc'[f].by = doc[f].by
  BY <1>1, RowStays
<1>3. x # None
  BY <1>1
<1>4. PICK f \in Rows : doc'[f] # NoDoc /\ doc'[f].live /\ doc'[f].parent = x
  BY DEF HasVariants, LiveVariants, Live, IsDoc
<1> SUFFICES /\ (Marked(x))' /\ (Covered(x))'
             /\ doc'[x] # NoDoc /\ doc'[x].live
  BY <1>3 DEF Fit, Live, IsDoc
<1>5. CASE HasVariants(x)
  <2>1. Fit(x) /\ Marked(x) /\ Covered(x) /\ Live(x) /\ IsDoc(x)
    BY <1>5 DEF SpoolInv, FamilyInv, Fit, Live
  <2>2. doc'[x].live
    <3>1. r.pc \in {"trashWrite"} => t # x
      BY <1>1, <1>5 DEF SectionInv, Childless
    <3>2. r.pc = "purgeWrite" => t # x
      BY <1>1, <2>1 DEF SectionInv, Gone, Live
    <3>3. ASSUME NEW y, NEW live, NEW spools, NEW marker, Rewritten(y, live, spools, marker),
                 live = TRUE \/ y # x
          PROVE  doc'[x].live
      BY <2>1, <3>3 DEF Rewritten, Live
    <3>4. ASSUME NEW y, NEW q, NEW spools, NEW by, Created(y, q, spools, by)
          PROVE  doc'[x].live
      BY <2>1, <3>4 DEF Created, Live
    <3> QED  BY <1>1, <2>1, <3>1, <3>2, <3>3, <3>4 DEF Writes, Still, Live
  <2>3. CASE doc'[x].own \cap Spools = {}
    BY <1>2, <2>1, <2>2, <2>3 DEF Marked, Covered, HeldSpools
  <2>4. CASE doc'[x].own \cap Spools # {}
    <3>1. doc'[x].marker = doc[x].marker \/ doc[x].own \cap Spools = {}
      <4>1. r.pc = "unmark" => HeldSpools(p) = {}
        <5>1. r.pc = "unmark" => r.snap.own \subseteq {"alarm"} /\ r.snap.own \cap Spools = HeldSpools(p)
          BY <1>1 DEF SectionInv, Snapped, GatePcs, Needed
        <5> QED  BY <5>1, FamiliesAssumption
      <4>2. (r.pc = "mark" /\ p = x) => HeldSpools(p) = {}
        BY <1>1, <2>1 DEF SectionInv, Snapped, Moving, GatePcs, Marked
      <4>3. (r.pc = "complete" /\ p = x) => Still
        BY <1>1, <2>4 DEF Writes, Rewritten
      <4>4. ASSUME NEW y, NEW live, NEW spools, Rewritten(y, live, spools, doc[y].marker)
            PROVE  doc'[x].marker = doc[x].marker
        BY <4>4 DEF Rewritten
      <4>5. ASSUME NEW y, NEW live, NEW spools, NEW marker, Rewritten(y, live, spools, marker), y # x
            PROVE  doc'[x].marker = doc[x].marker
        BY <4>5 DEF Rewritten
      <4>6. ASSUME NEW y, NEW q, NEW spools, NEW by, Created(y, q, spools, by)
            PROVE  doc'[x].marker = doc[x].marker
        BY <2>1, <4>6 DEF Created
      <4> QED  BY <1>1, <4>1, <4>2, <4>3, <4>4, <4>5, <4>6 DEF Writes, Still, HeldSpools
    <3>2. doc'[x].own \cap Spools \subseteq HeldSpools(x)
      <4>1. SUFFICES ASSUME NEW s \in Spools, s \in doc'[x].own, s \notin doc[x].own PROVE FALSE
        BY DEF HeldSpools
      <4>2. r.pc = "push" /\ x = t
        BY <1>1, <2>1, <4>1, SpoolsMove
      <4> QED  BY <1>1, <1>5, <4>2 DEF SectionInv, Childless
    <3>3. doc'[x].marker = doc[x].marker /\ HeldSpools(x) # {}
      BY <2>4, <3>1, <3>2 DEF HeldSpools
    <3>4. (Covered(x))'
      BY <1>1, <2>1, <3>2, <3>3, CoverKept
    <3>5. (Marked(x))'
      BY <2>1, <3>3 DEF Marked
    <3> QED  BY <1>2, <2>1, <2>2, <3>4, <3>5
  <2> QED  BY <2>3, <2>4
<1>6. CASE ~HasVariants(x)
  <2>1. ~(Live(f) /\ doc[f].parent = x)
    BY <1>6 DEF HasVariants, LiveVariants
  <2>2. ASSUME NEW y, NEW spools, NEW marker, Rewritten(y, TRUE, spools, marker), Live(y)
        PROVE  FALSE
    BY <1>1, <1>4, <2>1, <2>2 DEF Rewritten, Live, IsDoc
  <2>3. ASSUME NEW y, NEW spools, NEW marker, Rewritten(y, FALSE, spools, marker)
        PROVE  FALSE
    BY <1>1, <1>4, <2>1, <2>3 DEF Rewritten, Live, IsDoc
  <2>4. ~Still
    BY <1>1, <1>4, <2>1 DEF Still, Live, IsDoc
  <2>5. \/ r.pc = "copy" /\ \E v \in Rows : Created(v, p, r.snap.own \cap Spools, r.snap.marker)
        \/ r.pc = "insert" /\ \E v \in Rows : Created(v, p, {}, 0)
        \/ r.pc = "save" /\ Rewritten(t, TRUE, HeldSpools(t), doc[t].marker)
    BY <1>1, <2>2, <2>3, <2>4 DEF Writes
  <2>6. CASE r.pc = "copy"
    <3>1. PICK v \in Rows : Created(v, p, r.snap.own \cap Spools, r.snap.marker)
      BY <2>5, <2>6
    <3>2. Live(p) /\ r.snap.own \cap Spools = HeldSpools(p) /\ r.snap.marker = doc[p].marker
          /\ doc[p].marker # 0
      BY <1>1, <2>6 DEF SectionInv, Rooted, Snapped, UnderGate, Moving, GatePcs
    <3>3. f = v /\ x = p /\ v # x
      BY <1>1, <1>4, <2>1, <3>1, <3>2 DEF Created, Live, IsDoc
    <3>4. doc'[x] = doc[x] /\ doc'[x] # NoDoc /\ doc'[x].live
      BY <3>1, <3>2, <3>3 DEF Created, Live, IsDoc
    <3>5. (IsCopy(v, x))' /\ doc'[v].own \cap Spools = doc'[x].own \cap Spools
      BY <3>1, <3>2, <3>3, <3>4 DEF Created, IsCopy, IsDoc, HeldSpools
    <3> QED  BY <3>2, <3>3, <3>4, <3>5 DEF Marked, Covered, HeldSpools
  <2>7. CASE r.pc \in {"insert", "save"}
    <3>1. x = p /\ doc'[x] = doc[x]
      <4>1. CASE r.pc = "insert"
        <5>1. PICK v \in Rows : Created(v, p, {}, 0)
          BY <2>5, <4>1
        <5>2. Live(p) /\ p \in Rows
          BY <1>1, <4>1 DEF SectionInv, Rooted, UnderGate, Shaped
        <5> QED  BY <1>1, <1>4, <2>1, <5>1, <5>2 DEF Created, Live, IsDoc
      <4>2. CASE r.pc = "save"
        <5>1. Rewritten(t, TRUE, HeldSpools(t), doc[t].marker)
          BY <2>5, <4>2
        <5>2. doc[t].parent = p
          BY <1>1, <4>2 DEF SectionInv, Upheld, Shaped
        <5>3. t # p
          BY <1>1, <4>2, <5>1, <5>2 DEF Settled, Known, Rewritten
        <5>4. f = t
          BY <1>1, <1>4, <2>1, <5>1 DEF Rewritten, Live, IsDoc
        <5> QED  BY <1>4, <5>1, <5>2, <5>3, <5>4 DEF Rewritten
      <4> QED  BY <2>7, <4>1, <4>2
    <3>2. Fit(x) /\ Live(x)
      BY <1>1, <2>7, <3>1 DEF SectionInv, Fitted, Rooted, UnderGate
    <3>3. IsDoc(x) /\ doc'[x] # NoDoc /\ doc'[x].live
      BY <3>1, <3>2 DEF Live, IsDoc
    <3>4. (Covered(x))'
      BY <1>1, <3>1, <3>2, <3>3, CoverKept DEF Fit, HeldSpools
    <3>5. (Marked(x))'
      BY <3>1, <3>2 DEF Fit, Marked, HeldSpools
    <3> QED  BY <3>3, <3>4, <3>5
  <2> QED  BY <2>5, <2>6, <2>7
<1> QED  BY <1>5, <1>6

LEMMA InventoryStays ==
    ASSUME Settled, SpoolInv, NEW c \in Clients, Does(c)
    PROVE  InventoryKept'
<1>1. Typed /\ None \notin Rows /\ SectionInv(req[c]) /\ Shaped(req[c]) /\ Writes(c)
      /\ added' \subseteq Spools
  BY FamiliesAssumption, SpoolWrites, StepAdded DEF Settled, Places, SpoolInv
<1> SUFFICES ASSUME NEW s \in added'
             PROVE  \E f \in Rows : doc'[f] # NoDoc /\ s \in doc'[f].own
  BY DEF InventoryKept, IsDoc
<1>2. CASE s \notin added
  <2>1. req[c].pc = "push" /\ s = req[c].spool
    BY <1>1, <1>2, AddedMoves
  <2>2. Still \/ Rewritten(req[c].t, TRUE, HeldSpools(req[c].t) \cup {req[c].spool},
                           doc[req[c].t].marker)
    BY <1>1, <2>1 DEF Writes
  <2> QED  BY <1>2, <2>1, <2>2 DEF Rewritten, Still
<1>3. CASE s \in added
  <2>1. PICK f \in Rows : IsDoc(f) /\ s \in doc[f].own
    BY <1>3 DEF SpoolInv, InventoryKept
  <2>2. CASE s \in doc'[f].own
    BY <1>1, <2>1, <2>2, RowStays
  <2>3. CASE s \notin doc'[f].own
    <3>1. req[c].pc = "complete" /\ f = req[c].p
      BY <1>1, <2>1, <2>3, SpoolsMove
    <3>2. Covered(f) /\ s \in HeldSpools(f) \cap added
      BY <1>1, <1>3, <2>1, <3>1 DEF SectionInv, Fitted, Fit, HeldSpools
    <3>3. PICK v \in Rows \ {f} : IsDoc(v) /\ s \in doc[v].own
      BY <3>2 DEF Covered, IsCopy
    <3>4. s \in doc'[v].own
      BY <1>1, <3>1, <3>3, SpoolsMove
    <3> QED  BY <1>1, <3>3, <3>4, RowStays
  <2> QED  BY <2>2, <2>3
<1> QED  BY <1>2, <1>3

\* The spools that requests bring stay apart, and off every filament.
LEMMA NewSpoolsKept ==
    ASSUME Settled, SpoolInv, NEW c \in Clients, Moves(c), Does(c)
    PROVE  NewSpools'
<1>1. /\ Typed /\ None \notin Rows /\ SectionInv(req[c]) /\ Writes(c) /\ Comes(c)
      /\ \A d \in Clients \ {c} : req'[d] = req[d]
      /\ \A d \in Clients : Shaped(req[d])
      /\ NewSpools
  BY FamiliesAssumption, SpoolWrites, DoesComes, MovesRequests DEF Settled, Places, SpoolInv
<1>2. /\ \A f \in Rows : IsDoc(f) => doc[f].own \subseteq UsedSpools
      /\ \A d \in Clients : req[d].spool \in UsedSpools
  <2>1. ASSUME NEW f \in Rows, IsDoc(f), NEW s \in doc[f].own
        PROVE  s \in UsedSpools
    <3>1. doc[f] \in ({doc[g] : g \in Rows} \cup {req[d].snap : d \in Clients}) \ {NoDoc}
      BY <2>1 DEF IsDoc
    <3> QED  BY <2>1, <3>1 DEF UsedSpools
  <2>2. ASSUME NEW d \in Clients PROVE req[d].spool \in UsedSpools
    <3> DEFINE S == {req[e].spool : e \in Clients}
    <3>1. req[d].spool \in S
      OBVIOUS
    <3>2. S \subseteq UsedSpools
      BY DEF UsedSpools
    <3> QED  BY <3>1, <3>2
  <2> QED  BY <2>1, <2>2
<1>3. ASSUME Brings(req'[c])
      PROVE  /\ Still
             /\ \/ req'[c].spool \notin UsedSpools
                \/ Brings(req[c]) /\ req'[c].spool = req[c].spool
  <2>1. CASE SubmitDoes(c)
    <3>1. req'[c].pc = "pushCheck" /\ Still
      BY <1>3, <2>1 DEF SubmitDoes, Brings, SentFrom
    <3> QED  BY <2>1, <3>1 DEF SubmitDoes
  <2>2. CASE ~SubmitDoes(c)
    <3>1. SpoolDoes(c)
      BY <1>1, <1>3, <2>2 DEF Comes, Brings, Over, Idle, GatePcs, PutPcs, DeletePcs, RestorePcs,
         RevivePcs
    <3>2. req[c].pc = "pushCheck" /\ Still /\ On(c, "push")
      <4>1. \A s : On(c, s) => req'[c].pc = s
        BY DEF On
      <4>2. ~Over(c)
        BY <1>3 DEF Over, Idle, Brings
      <4> QED  BY <1>3, <3>1, <4>1, <4>2 DEF SpoolDoes, Brings
    <3> QED  BY <3>2 DEF On, Same, Brings
  <2> QED  BY <2>1, <2>2
<1>4. ASSUME NEW d \in Clients \ {c}, Brings(req[d]), NEW f \in Rows, doc'[f] # NoDoc
      PROVE  req[d].spool \notin doc'[f].own
  <2>1. req[d].spool \in Spools
    BY <1>1, <1>4 DEF Shaped, Brings
  <2>2. CASE IsDoc(f)
    <3>1. req[d].spool \notin doc[f].own
      BY <1>1, <1>4, <2>2 DEF NewSpools
    <3>2. req[c].pc = "push" => req[d].spool # req[c].spool
      BY <1>1, <1>4 DEF NewSpools, Brings
    <3> QED  BY <1>1, <2>1, <2>2, <3>1, <3>2, SpoolsMove
  <2>3. CASE ~IsDoc(f)
    <3>1. ASSUME NEW y, NEW live, NEW spools, NEW marker, Rewritten(y, live, spools, marker)
          PROVE  FALSE
      BY <1>4, <2>3, <3>1 DEF Rewritten, IsDoc
    <3>2. ~Still
      BY <1>4, <2>3 DEF Still, IsDoc
    <3>3. PICK v, spools, by :
             /\ Created(v, req[c].p, spools, by)
             /\ \/ spools = {}
                \/ req[c].pc = "copy" /\ spools = req[c].snap.own \cap Spools
      BY <1>1, <3>1, <3>2 DEF Writes
    <3>4. doc'[f].own \cap Spools = spools
      BY <1>4, <2>3, <3>3 DEF Created, IsDoc
    <3>5. req[c].pc = "copy" =>
             Live(req[c].p) /\ req[c].p \in Rows /\ req[c].snap.own \cap Spools = HeldSpools(req[c].p)
      BY <1>1 DEF SectionInv, Rooted, Snapped, UnderGate, GatePcs, Shaped
    <3>6. req[c].pc = "copy" => req[d].spool \notin HeldSpools(req[c].p)
      BY <1>1, <1>4, <3>5 DEF NewSpools, HeldSpools, Live
    <3> QED  BY <2>1, <3>3, <3>4, <3>5, <3>6
  <2> QED  BY <2>2, <2>3
<1>5. ASSUME Brings(req'[c]), NEW f \in Rows, doc'[f] # NoDoc
      PROVE  req'[c].spool \notin doc'[f].own
  BY <1>1, <1>2, <1>3, <1>5 DEF NewSpools, Still, IsDoc
<1>6. ASSUME Brings(req'[c]), NEW d \in Clients \ {c}, Brings(req[d])
      PROVE  req[d].spool # req'[c].spool
  BY <1>1, <1>2, <1>3, <1>6 DEF NewSpools
<1>7. ASSUME NEW d \in Clients \ {c}, Brings(req[d]), NEW e \in Clients \ {d}, e # c, Brings(req[e])
      PROVE  req[e].spool # req[d].spool
  BY <1>1, <1>7 DEF NewSpools
<1> SUFFICES ASSUME NEW d \in Clients, Brings(req'[d])
             PROVE  /\ \A f \in Rows : doc'[f] # NoDoc => req'[d].spool \notin doc'[f].own
                    /\ \A e \in Clients \ {d} : Brings(req'[e]) => req'[e].spool # req'[d].spool
  BY DEF NewSpools, IsDoc, Brings
<1>8. CASE d = c
  BY <1>1, <1>5, <1>6, <1>8
<1>9. CASE d # c
  BY <1>1, <1>4, <1>6, <1>7, <1>9
<1> QED  BY <1>8, <1>9

\* The steps of the gate itself.
LEMMA GateKeeps ==
    ASSUME Settled, SpoolInv, NEW c \in Clients, Does(c), GateDoes(c), ~Over(c),
           NEW x, x = req[c].p, NEW q, q = req'[c]
    PROVE  (Rooted(q))' /\ (Snapped(q))' /\ (Fitted(q))'
<1> DEFINE r == req[c]
           Good == (Rooted(q))' /\ (Snapped(q))' /\ (Fitted(q))'
<1>1. /\ Typed /\ Shaped(r) /\ Names(r) /\ None \notin Rows
      /\ Rooted(r) /\ Snapped(r) /\ Fitted(r) /\ Writes(c)
  BY FamiliesAssumption, SpoolWrites DEF Settled, Places, Known, SpoolInv, SectionInv
<1>2. r.pc \in GatePcs \cup {"fetch"} /\ x \in Rows /\ IsDoc(x)
  BY <1>1 DEF GateDoes, GatePcs, Shaped, Names
<1>3. /\ q.p = x
      /\ \A s : On(c, s) => q.pc = s /\ q.snap = r.snap
      /\ \A s, n : Carried(c, s, n) => q.pc = s /\ q.snap = n
      /\ Passed(c) => q.pc \in {"insert", "save", "strip"}
  BY <1>2 DEF On, Carried, Passed, Same, GateDoes, GatePcs
<1>4. Live(x) /\ doc[x].parent = None
  BY <1>1, <1>2 DEF Rooted, UnderGate, GateDoes
<1>5. r.pc # "fetch" => r.snap.own \cap Spools = HeldSpools(x)
  BY <1>1, <1>2 DEF Snapped
<1>6. /\ ~Needed(doc[x]) => HeldSpools(x) = {}
      /\ (r.pc # "fetch" /\ ~Needed(r.snap)) => HeldSpools(x) = {}
  <2>1. "alarm" \notin Spools
    BY FamiliesAssumption
  <2> QED  BY <1>5, <2>1 DEF Needed, HeldSpools
<1>7. doc'[x] # NoDoc /\ doc'[x].parent = None
  BY <1>1, <1>2, <1>4, RowStays
<1>8. doc'[x].live
  <2> DEFINE Stays == doc'[x].live
  <2> SUFFICES Stays
    OBVIOUS
  <2>1. ASSUME NEW y, NEW spools, NEW marker, Rewritten(y, TRUE, spools, marker)
        PROVE  Stays
    BY <1>2, <1>4, <2>1 DEF Rewritten, Live
  <2>2. ASSUME NEW y, NEW p, NEW spools, NEW by, Created(y, p, spools, by)
        PROVE  Stays
    BY <1>2, <1>4, <2>2 DEF Created, Live
  <2>3. Still => Stays
    BY <1>4 DEF Still, Live
  <2>4. r.pc \notin {"trashWrite", "purgeWrite"}
    BY <1>2 DEF GatePcs
  <2> HIDE DEF Stays
  <2> QED  BY <1>1, <2>1, <2>2, <2>3, <2>4 DEF Writes
<1>9. (Rooted(q))'
  BY <1>1, <1>2, <1>3, <1>7, <1>8 DEF Rooted, Live, IsDoc
<1>10. ASSUME NEW own, NEW marker, Rewrites(r.p, own, marker)
       PROVE  doc'[x].own = own /\ doc'[x].marker = marker
  BY <1>4, <1>10 DEF Rewrites, Becomes
<1>11. doc' = doc /\ added' = added => ((Fit(x))' <=> Fit(x))
  BY DEF Fit, Marked, Covered, IsCopy, IsDoc, HeldSpools
<1>12. doc'[x].own \cap Spools = {} => (Fit(x))'
  BY DEF Fit, Marked, Covered, HeldSpools
<1>13. ASSUME Passed(c), (Fit(x))' PROVE Good
  <2>1. (Snapped(q))'
    BY <1>3, <1>13 DEF Snapped, Moving, GatePcs
  <2>2. (Fitted(q))'
    BY <1>3, <1>13 DEF Fitted
  <2> QED  BY <1>9, <2>1, <2>2
<1>14. ASSUME q.pc \in GatePcs, q.pc \notin {"resume", "remap", "complete"} PROVE (Fitted(q))'
  BY <1>14 DEF Fitted, GatePcs
<1>15. ASSUME (Fit(x))' PROVE (Fitted(q))'
  BY <1>3, <1>15 DEF Fitted
<1>16. ASSUME q.pc \in GatePcs, q.snap.own \cap Spools = doc'[x].own \cap Spools,
              q.pc \in {"gate", "unmark"} \/ q.snap.marker = doc'[x].marker,
              q.pc = "gate" => ~Needed(q.snap) \/ q.snap.marker = doc'[x].marker,
              q.pc = "unmark" => ~Needed(q.snap),
              q.pc = "mark" => q.snap.marker = 0,
              q.pc \in {"copy", "remap", "complete"} => doc'[x].marker # 0
       PROVE  (Snapped(q))'
  BY <1>3, <1>16 DEF Snapped, Moving, HeldSpools, Needed
<1> SUFFICES Good
  OBVIOUS
<1>17. CASE r.pc = "fetch"
  <2>1. Still /\ doc' = doc
    BY <1>17 DEF GateDoes, Still
  <2>2. CASE ~Needed(doc[x]) /\ Carried(c, "unmark", doc[x])
    BY <1>3, <1>9, <1>14, <1>16, <2>1, <2>2 DEF GatePcs
  <2>3. CASE Carried(c, "gate", doc[x])
    BY <1>3, <1>9, <1>14, <1>16, <2>1, <2>3 DEF GatePcs
  <2>4. CASE ~Needed(doc[x]) /\ Passed(c)
    BY <1>6, <1>12, <1>13, <2>1, <2>4 DEF HeldSpools
  <2> QED  BY <1>17, <2>2, <2>3, <2>4 DEF GateDoes
<1>18. CASE r.pc = "unmark"
  <2>1. /\ doc'[x].own = doc[x].own /\ doc'[x].marker = 0
        /\ On(c, "gate") \/ Passed(c)
    BY <1>10, <1>18 DEF GateDoes
  <2>2. ~Needed(r.snap) /\ HeldSpools(x) = {}
    BY <1>1, <1>6, <1>18 DEF Snapped
  <2>3. CASE On(c, "gate")
    BY <1>3, <1>5, <1>9, <1>14, <1>16, <1>18, <2>1, <2>2, <2>3 DEF GatePcs, HeldSpools
  <2>4. CASE Passed(c)
    BY <1>12, <1>13, <2>1, <2>2, <2>4 DEF HeldSpools
  <2> QED  BY <2>1, <2>3, <2>4
<1>19. CASE r.pc = "gate"
  <2>1. Still /\ doc' = doc /\ added' = added
    BY <1>19 DEF GateDoes, Still
  <2>2. Needed(r.snap) => r.snap.marker = doc[x].marker
    BY <1>1, <1>19 DEF Snapped, Moving
  <2>3. CASE ~Needed(r.snap) /\ On(c, "unmark")
    BY <1>3, <1>5, <1>9, <1>14, <1>16, <1>19, <2>1, <2>3 DEF GatePcs, HeldSpools
  <2>4. CASE ~Needed(r.snap) /\ Passed(c)
    BY <1>6, <1>12, <1>13, <1>19, <2>1, <2>4 DEF HeldSpools
  <2>5. CASE Needed(r.snap) /\ (On(c, "partial") \/ On(c, "target"))
    BY <1>3, <1>5, <1>9, <1>14, <1>16, <1>19, <2>1, <2>2, <2>5 DEF GatePcs, HeldSpools
  <2>6. CASE Needed(r.snap) /\ HasVariants(x) /\ On(c, "resume")
    <3>1. (Fit(x))'
      BY <1>2, <1>11, <2>1, <2>6 DEF SpoolInv, FamilyInv
    <3> QED
      BY <1>3, <1>5, <1>9, <1>15, <1>16, <1>19, <2>1, <2>2, <2>6, <3>1 DEF GatePcs, HeldSpools
  <2> QED  BY <1>19, <2>3, <2>4, <2>5, <2>6 DEF GateDoes
<1>20. CASE r.pc \in {"target", "partial", "resume"}
  <2>1. Still /\ doc' = doc /\ added' = added
    BY <1>20 DEF GateDoes, Still
  <2>2. r.snap.marker = doc[x].marker
    BY <1>1, <1>20 DEF Snapped, Moving, GatePcs
  <2>3. CASE r.pc = "target"
    BY <1>3, <1>5, <1>9, <1>14, <1>16, <2>1, <2>2, <2>3 DEF GateDoes, GatePcs, HeldSpools
  <2>4. CASE \E v \in Partial(r) : Carried(c, "remap", r.snap)
    <3>1. r.snap.marker # 0 /\ HasVariants(x)
      BY <2>4 DEF Partial, HasVariants
    <3>2. (Fit(x))'
      BY <1>2, <1>11, <2>1, <3>1 DEF SpoolInv, FamilyInv
    <3> QED
      BY <1>3, <1>5, <1>9, <1>15, <1>16, <1>20, <2>1, <2>2, <2>4, <3>1, <3>2 DEF GatePcs, HeldSpools
  <2>5. CASE r.pc = "resume" /\ Passed(c)
    BY <1>1, <1>11, <1>13, <2>1, <2>5 DEF Fitted
  <2>6. CASE r.snap.marker = 0 /\ On(c, "mark")
    BY <1>3, <1>5, <1>9, <1>14, <1>16, <1>20, <2>1, <2>2, <2>6 DEF GatePcs, HeldSpools
  <2>7. CASE r.snap.marker # 0 /\ On(c, "copy")
    BY <1>3, <1>5, <1>9, <1>14, <1>16, <1>20, <2>1, <2>2, <2>7 DEF GatePcs, HeldSpools
  <2> QED  BY <1>20, <2>3, <2>4, <2>5, <2>6, <2>7 DEF GateDoes
<1>21. CASE r.pc = "mark"
  <2>1. /\ doc'[x].own = doc[x].own /\ doc'[x].marker = Token
        /\ Carried(c, "copy", [r.snap EXCEPT !.marker = Token])
    BY <1>10, <1>21 DEF GateDoes
  <2>2. Token # 0 /\ r.snap \in Doc
    BY <1>1, <1>21, TokenFresh DEF Shaped, GatePcs, Typed, Reqs
  <2>3. q.pc = "copy" /\ q.snap.own = r.snap.own /\ q.snap.marker = Token
    BY <1>3, <2>1, <2>2 DEF Doc
  <2> QED  BY <1>5, <1>9, <1>14, <1>16, <1>21, <2>1, <2>2, <2>3 DEF GatePcs, HeldSpools
<1>22. CASE r.pc = "copy"
  <2>1. PICK v \in Rows : /\ ~IsDoc(v) /\ Becomes(v, TRUE, FALSE, r.p, r.snap.own, 0, r.snap.marker)
                          /\ Carried(c, "remap", r.snap)
    BY <1>22 DEF GateDoes
  <2>2. doc'[x] = doc[x] /\ doc'[v] # NoDoc /\ doc'[v].live /\ doc'[v].parent = x /\ v # None
    BY <1>1, <1>2, <2>1, FamiliesAssumption DEF Becomes
  <2>3. (HasVariants(x))'
    BY <2>2 DEF HasVariants, LiveVariants, Live, IsDoc
  <2>4. (Fit(x))'
    BY <1>2, <2>3, FamilyKept
  <2>5. r.snap.marker = doc[x].marker /\ doc[x].marker # 0
    BY <1>1, <1>22 DEF Snapped, Moving, GatePcs
  <2> QED
    BY <1>3, <1>5, <1>9, <1>15, <1>16, <1>22, <2>1, <2>2, <2>4, <2>5 DEF GatePcs, HeldSpools
<1>23. CASE r.pc = "remap"
  <2>1. Still /\ doc' = doc /\ added' = added /\ On(c, "complete")
    BY <1>23 DEF GateDoes, Still
  <2>2. r.snap.marker = doc[x].marker /\ doc[x].marker # 0 /\ Fit(x)
    BY <1>1, <1>23 DEF Snapped, Moving, GatePcs, Fitted
  <2> QED
    BY <1>3, <1>5, <1>9, <1>11, <1>15, <1>16, <1>23, <2>1, <2>2 DEF GatePcs, HeldSpools
<1>24. CASE r.pc = "complete"
  <2>1. doc'[x].own = {} /\ Passed(c)
    BY <1>10, <1>24 DEF GateDoes
  <2> QED  BY <1>12, <1>13, <2>1
<1> QED  BY <1>2, <1>17, <1>18, <1>19, <1>20, <1>21, <1>22, <1>23, <1>24 DEF GatePcs

\* What holds of the request that moves holds of it after its step.
LEMMA OwnKeeps ==
    ASSUME Settled, SpoolInv, NEW c \in Clients, Moves(c), Does(c), NEW q, q = req'[c]
    PROVE  (SectionInv(q))'
<1> DEFINE r == req[c]
           t == req[c].t
<1>1. /\ Typed /\ Shaped(r) /\ Names(r) /\ None \notin Rows
      /\ SectionInv(r) /\ Writes(c) /\ Comes(c) /\ Aims(c) /\ Shaped(q)
  BY FamiliesAssumption, SpoolWrites, DoesComes, DoesAims, MovesRequests
  DEF Settled, Places, Known, SpoolInv
<1>2. /\ \A s : On(c, s) => q.pc = s /\ Same(q, r)
      /\ \A s, n : Carried(c, s, n) => q.pc = s /\ Same(q, r)
      /\ Over(c) => q.pc = "idle" /\ q.kind = "none"
      /\ SubmitDoes(c) => q.pc \in SentFrom
  BY DEF On, Carried, Over, Idle, SubmitDoes
<1>3. (Rooted(q))' /\ (Snapped(q))' /\ (Fitted(q))'
  <2>1. CASE GateDoes(c) /\ ~Over(c)
    BY <2>1, GateKeeps
  <2>2. CASE ~(GateDoes(c) /\ ~Over(c))
    <3>1. q.pc \notin GatePcs \cup {"insert"} /\ (q.pc = "save" => RestoreDoes(c))
      BY <1>1, <1>2, <2>2 DEF Comes, SentFrom, GatePcs, PutPcs, DeletePcs, RestorePcs, RevivePcs,
         SpoolPcs
    <3>2. q.pc = "save" => q.p = None
      <4>1. SUFFICES ASSUME q.pc = "save" PROVE q.p = None
        OBVIOUS
      <4>2. r.pc = "restoreRead" /\ On(c, "save")
        <5>1. Ended(c) => q.pc \in {"idle", "alarm"}
          BY <1>2 DEF Ended
        <5>2. /\ ~On(c, "fetch") /\ ~Ended(c) /\ q.pc # "restoreParent" /\ RestoreDoes(c)
          BY <1>2, <3>1, <4>1, <5>1
        <5> QED  BY <5>2 DEF RestoreDoes
      <4> QED  BY <1>1, <1>2, <4>2 DEF Shaped, Same
    <3> QED
      BY <3>1, <3>2 DEF Rooted, Snapped, Fitted, UnderGate, Moving, GatePcs
  <2> QED  BY <2>1, <2>2
<1>4. (Upheld(q))'
  <2> SUFFICES ASSUME q.kind = "restore", q.pc # "restoreRead"
               PROVE  doc'[q.t].parent = q.p
    BY DEF Upheld
  <2>1. ~SubmitDoes(c)
    <3>1. q.pc = "fetch" /\ SubmitDoes(c) => FALSE
      BY DEF SubmitDoes
    <3> QED  BY <1>1, <1>2, <3>1 DEF Shaped, SentFrom
  <2>2. r.kind = "restore" /\ q.t = t /\ t \in Rows /\ IsDoc(t) /\ ~Over(c)
    BY <1>1, <1>2, <2>1 DEF Aims, Shaped, Names
  <2>3. doc'[t].parent = doc[t].parent
    BY <1>1, <2>2, RowStays
  <2>4. CASE r.pc = "restoreRead"
    <3>1. RestoreDoes(c)
      BY <2>1, <2>2, <2>4 DEF Does, GateDoes, InsertDoes, PutDoes, DeleteDoes, ReviveDoes, SpoolDoes
    <3>2. r.p = None
      BY <1>1, <2>4 DEF Shaped
    <3> QED  BY <1>2, <2>2, <2>3, <2>4, <3>1, <3>2 DEF RestoreDoes, Same
  <2>5. CASE r.pc # "restoreRead"
    <3>1. q.p = r.p
      BY <1>1, <2>1, <2>2, <2>5 DEF Aims, Shaped
    <3>2. doc[t].parent = r.p
      BY <1>1, <2>2, <2>5 DEF SectionInv, Upheld
    <3> QED  BY <2>2, <2>3, <3>1, <3>2
  <2> QED  BY <2>4, <2>5
<1>5. Still => \A y : (HasVariants(y))' = HasVariants(y)
  BY DEF Still, HasVariants, LiveVariants, Live, IsDoc
<1>6. (Childless(q))'
  <2> SUFFICES ASSUME q.pc \in {"push", "pushAgain", "trashRead", "trashSlots", "trashWrite", "pull"}
               PROVE  q.pc # "pull" /\ ~(HasVariants(q.t))'
    BY DEF Childless
  <2>1. (DeleteDoes(c) \/ SpoolDoes(c)) /\ ~Over(c)
    BY <1>1, <1>2 DEF Comes, SentFrom, GatePcs, PutPcs, RestorePcs, RevivePcs, SpoolPcs, DeletePcs
  <2>2. CASE DeleteDoes(c)
    <3>1. \/ Still /\ On(c, "trashRead") /\ ~HasVariants(t)
          \/ Still /\ r.pc = "trashRead" /\ Carried(c, "trashSlots", doc[t])
          \/ Still /\ r.pc = "trashSlots" /\ Carried(c, "trashWrite", NoDoc)
      <4>1. /\ ~Carried(c, "purgeCheck", doc[t]) /\ ~On(c, "purgeSlots")
            /\ ~Carried(c, "purgeWrite", NoDoc)
        BY <1>2
      <4> QED  BY <2>1, <2>2, <4>1 DEF DeleteDoes
    <3>2. r.pc \in {"trashRead", "trashSlots"} => ~HasVariants(t)
      BY <1>1 DEF SectionInv, Childless
    <3>3. Still /\ q.t = t /\ q.pc # "pull" /\ ~HasVariants(t)
      <4>1. /\ On(c, "trashRead") => q.pc = "trashRead" /\ q.t = t
            /\ Carried(c, "trashSlots", doc[t]) => q.pc = "trashSlots" /\ q.t = t
            /\ Carried(c, "trashWrite", NoDoc) => q.pc = "trashWrite" /\ q.t = t
        BY <1>2 DEF Same
      <4> QED  BY <3>1, <3>2, <4>1
    <3> QED  BY <1>5, <3>3
  <2>3. CASE SpoolDoes(c)
    <3>1. \/ Still /\ On(c, "push") /\ ~HasVariants(t)
          \/ Live(t) /\ r.pc = "push" /\ On(c, "pushAgain")
      <4>1. r.pc # "pushAgain" \/ ~HasVariants(t)
        BY <1>1 DEF SectionInv, Childless
      <4>2. ~On(c, "dropSlots") /\ ~On(c, "drop") /\ ~On(c, "dropSlotsAgain")
        BY <1>2
      <4> QED  BY <2>1, <2>3, <4>1, <4>2 DEF SpoolDoes
    <3>2. CASE Still /\ On(c, "push") /\ ~HasVariants(t)
      BY <1>2, <1>5, <3>2 DEF Same
    <3>3. CASE Live(t) /\ r.pc = "push" /\ On(c, "pushAgain")
      <4>1. ~HasVariants(t) /\ q.t = t /\ q.pc = "pushAgain"
        BY <1>1, <1>2, <3>3 DEF SectionInv, Childless, Same
      <4>2. CASE Still
        BY <1>5, <4>1, <4>2
      <4>3. CASE ~Still
        <5>1. Rewritten(t, TRUE, HeldSpools(t) \cup {r.spool}, doc[t].marker)
          BY <1>1, <3>3, <4>3 DEF Writes
        <5>2. ASSUME NEW f \in Rows, doc'[f] # NoDoc, doc'[f].live, f # None
              PROVE  Live(f) /\ doc'[f].parent = doc[f].parent
          BY <3>3, <5>1, <5>2 DEF Rewritten, Live, IsDoc
        <5>3. \A f \in Rows : ~(Live(f) /\ doc[f].parent = t)
          BY <4>1 DEF HasVariants, LiveVariants
        <5>4. \A f \in Rows : ~(doc'[f] # NoDoc /\ doc'[f].live /\ f # None /\ doc'[f].parent = q.t)
          BY <4>1, <5>2, <5>3
        <5> QED  BY <4>1, <5>4 DEF HasVariants, LiveVariants, Live, IsDoc
      <4> QED  BY <4>2, <4>3
    <3> QED  BY <3>1, <3>2, <3>3
  <2> QED  BY <2>1, <2>2, <2>3
<1>7. (Gone(q))'
  <2> SUFFICES ASSUME q.pc \in {"purgeCheck", "purgeSlots", "purgeWrite"}
               PROVE  ~doc'[q.t].live
    BY DEF Gone
  <2>1. DeleteDoes(c) /\ ~Over(c)
    BY <1>1, <1>2 DEF Comes, SentFrom, GatePcs, PutPcs, RestorePcs, RevivePcs, SpoolPcs, DeletePcs
  <2>2. /\ ~On(c, "trashRead") /\ ~Carried(c, "trashSlots", doc[t])
        /\ ~Carried(c, "trashWrite", NoDoc)
    BY <1>2
  <2>3. \/ Still /\ InTrash(t) /\ Carried(c, "purgeCheck", doc[t])
        \/ Still /\ r.pc = "purgeCheck" /\ On(c, "purgeSlots")
        \/ Still /\ r.pc = "purgeSlots" /\ Carried(c, "purgeWrite", NoDoc)
    BY <2>1, <2>2 DEF DeleteDoes
  <2>4. /\ Carried(c, "purgeCheck", doc[t]) => q.t = t
        /\ On(c, "purgeSlots") => q.t = t
        /\ Carried(c, "purgeWrite", NoDoc) => q.t = t
    BY <1>2 DEF Same
  <2>5. Still /\ q.t = t /\ ~doc[t].live
    BY <1>1, <2>3, <2>4 DEF SectionInv, Gone, InTrash
  <2> QED  BY <2>5 DEF Still
<1> QED  BY <1>3, <1>4, <1>6, <1>7 DEF SectionInv

-----------------------------------------------------------------------------
(* All of it, always.                                                      *)

OrderlyPlays ==
    \A p \in Plays :
        /\ \A c \in Clients : p.kinds[c] \cap {"adopt", "detach", "revive"} = {}
        /\ ~(/\ \E c \in Clients : "purge" \in p.kinds[c]
             /\ \E c \in Clients : "restore" \in p.kinds[c])

LEMMA IdleSection == SectionInv(Idle) /\ ~Brings(Idle) /\ (SectionInv(Idle))'
BY DEF SectionInv, Rooted, Snapped, Fitted, Upheld, Childless, Gone, UnderGate, Moving, GatePcs,
   Idle, Brings

LEMMA InitSpools ==
    ASSUME OrderlyPlays, Init
    PROVE  SpoolInv
<1>1. /\ req = [c \in Clients |-> Idle] /\ added = UNION {HeldSpools(f) : f \in play.roots}
      /\ play \in Plays /\ play.roots \subseteq Rows /\ None \notin Rows
  BY FamiliesAssumption DEF Init, Play
<1>2. PICK own \in [play.roots -> SUBSET (play.traits \cup Spools)] :
        doc = [f \in Rows |-> IF f \in play.roots THEN Fresh(None, own[f], 0) ELSE NoDoc]
  BY DEF Init
<1>3. Orderly
  BY <1>1 DEF OrderlyPlays, Orderly
<1>4. \A c \in Clients : SectionInv(req[c]) /\ ~Brings(req[c])
  BY <1>1, IdleSection
<1>5. \A f \in Rows : IsDoc(f) => doc[f].parent = None
  BY <1>2 DEF IsDoc, Fresh
<1>6. \A p \in Rows : ~HasVariants(p)
  BY <1>1, <1>5 DEF HasVariants, LiveVariants, Live
<1>7. \A f \in play.roots : IsDoc(f)
  <2>1. SUFFICES ASSUME NEW f \in play.roots PROVE IsDoc(f)
    OBVIOUS
  <2>2. doc[f] \in Doc
    <3>1. Settled
      BY InitSettled
    <3>2. own[f] \in SUBSET Things
      BY <1>2, <3>1 DEF Settled, Places, Typed, Play, Things
    <3> QED  BY <1>1, <1>2, <2>1, <3>2 DEF Fresh, Doc
  <2> QED  BY <2>2, FamiliesAssumption DEF IsDoc
<1>8. InventoryKept
  BY <1>1, <1>7 DEF InventoryKept, HeldSpools
<1> QED  BY <1>3, <1>4, <1>6, <1>8 DEF SpoolInv, FamilyInv, NewSpools

LEMMA NextSpools ==
    ASSUME Settled, SpoolInv, Next
    PROVE  SpoolInv'
<1>1. Settled' /\ PlayOn
  BY NextSettled
<1>2. Orderly'
  BY <1>1 DEF PlayOn, SpoolInv, Orderly
<1>3. CASE Crash
  <2>1. doc' = doc /\ added' = added /\ req' = [c \in Clients |-> Idle]
    BY <1>3 DEF Crash
  <2>2. \A c \in Clients : req'[c] = Idle
    BY <2>1
  <2>3. NewSpools'
    BY <2>2, IdleSection DEF NewSpools, Brings
  <2>4. \A c \in Clients : (SectionInv(req[c]))'
    <3>1. ASSUME NEW c \in Clients, NEW q, q = req'[c] PROVE (SectionInv(q))'
      BY <2>2, <3>1, IdleSection
    <3> QED  BY <3>1 DEF SectionInv, Rooted, Snapped, Fitted, Upheld, Childless, Gone, UnderGate,
             Moving, GatePcs
  <2>5. FamilyInv' /\ InventoryKept'
    BY <2>1 DEF SpoolInv, FamilyInv, InventoryKept, HasVariants, LiveVariants, Live, IsDoc, Fit,
       Marked, Covered, IsCopy, HeldSpools
  <2> QED  BY <1>2, <2>3, <2>4, <2>5 DEF SpoolInv
<1>4. ASSUME NEW c \in Clients, Moves(c), Does(c)
      PROVE  SpoolInv'
  <2>1. FamilyInv'
    BY <1>4, FamilyKept DEF FamilyInv
  <2>2. NewSpools' /\ InventoryKept'
    BY <1>4, NewSpoolsKept, InventoryStays
  <2>3. ASSUME NEW d \in Clients PROVE (SectionInv(req[d]))'
    <3>1. CASE d # c
      BY <1>4, <3>1, OthersKeep
    <3>2. CASE d = c
      <4>1. ASSUME NEW q, q = req'[d] PROVE (SectionInv(q))'
        BY <1>4, <3>2, <4>1, OwnKeeps
      <4> QED  BY <4>1
    <3> QED  BY <3>1, <3>2
  <2> QED  BY <1>2, <2>1, <2>2, <2>3 DEF SpoolInv
<1> QED  BY <1>3, <1>4, NextSettled

LEMMA SpoolsAlways ==
    ASSUME OrderlyPlays
    PROVE  Spec => [](Settled /\ SpoolInv)
<1>1. Init => SpoolInv
  BY InitSpools
<1>2. Settled /\ SpoolInv /\ [Next]_vars => SpoolInv'
  <2> SUFFICES ASSUME Settled, SpoolInv, [Next]_vars PROVE SpoolInv'
    OBVIOUS
  <2>1. CASE Next
    BY <2>1, NextSpools
  <2>2. CASE UNCHANGED vars
    BY <2>2 DEF vars, SpoolInv, Orderly, FamilyInv, NewSpools, InventoryKept, SectionInv, Rooted,
       Snapped, Fitted, Upheld, Childless, Gone, UnderGate, Moving, Brings, HasVariants,
       LiveVariants, Live, IsDoc, Fit, Marked, Covered, IsCopy, HeldSpools
  <2> QED  BY <2>1, <2>2
<1> QED  BY <1>1, <1>2, SettledAlways, PTL DEF Spec

\* The first variant of a row is the copy of a promotion, a new row or one that
\* is restored; the row is fit for it.
LEMMA SurfacesFit ==
    ASSUME Settled, SpoolInv, NEW c \in Clients, Does(c), NEW x \in Rows,
           ~HasVariants(x), (HasVariants(x))'
    PROVE  Marked(x)
<1> DEFINE r == req[c]
           t == req[c].t
           p == req[c].p
<1>1. /\ Typed /\ Shaped(r) /\ None \notin Rows /\ SectionInv(r) /\ Writes(c)
      /\ \A f \in Rows : IsDoc(f) => doc[f].live \in BOOLEAN
  BY FamiliesAssumption, DocFields, SpoolWrites DEF Settled, Places, SpoolInv
<1>2. PICK f \in Rows : doc'[f] # NoDoc /\ doc'[f].live /\ doc'[f].parent = x
  BY DEF HasVariants, LiveVariants, Live, IsDoc
<1>3. ~(Live(f) /\ doc[f].parent = x)
  BY DEF HasVariants, LiveVariants
<1>4. ASSUME NEW y, NEW spools, NEW marker, Rewritten(y, TRUE, spools, marker), Live(y)
      PROVE  FALSE
  BY <1>1, <1>2, <1>3, <1>4 DEF Rewritten, Live, IsDoc
<1>5. ASSUME NEW y, NEW spools, NEW marker, Rewritten(y, FALSE, spools, marker)
      PROVE  FALSE
  BY <1>1, <1>2, <1>3, <1>5 DEF Rewritten, Live, IsDoc
<1>6. ~Still
  BY <1>1, <1>2, <1>3 DEF Still, Live, IsDoc
<1>7. \/ r.pc = "copy" /\ \E v \in Rows : Created(v, p, r.snap.own \cap Spools, r.snap.marker)
      \/ r.pc = "insert" /\ \E v \in Rows : Created(v, p, {}, 0)
      \/ r.pc = "save" /\ Rewritten(t, TRUE, HeldSpools(t), doc[t].marker)
  BY <1>1, <1>4, <1>5, <1>6 DEF Writes
<1>8. ASSUME NEW v \in Rows, NEW spools, NEW by, Created(v, p, spools, by)
      PROVE  x = p
  BY <1>1, <1>2, <1>3, <1>8 DEF Created, Live, IsDoc
<1>9. CASE r.pc = "copy"
  <2>1. x = p
    BY <1>7, <1>8, <1>9
  <2>2. doc[p].marker # 0
    BY <1>1, <1>9 DEF SectionInv, Snapped
  <2> QED  BY <2>1, <2>2 DEF Marked
<1>10. CASE r.pc = "insert"
  <2>1. x = p
    BY <1>7, <1>8, <1>10
  <2>2. Fit(p)
    BY <1>1, <1>10 DEF SectionInv, Fitted
  <2> QED  BY <2>1, <2>2 DEF Fit
<1>11. CASE r.pc = "save"
  <2>1. Rewritten(t, TRUE, HeldSpools(t), doc[t].marker) /\ doc[t].parent = p
    BY <1>1, <1>7, <1>11 DEF SectionInv, Upheld, Shaped
  <2>2. f = t /\ x = p
    BY <1>1, <1>2, <1>3, <2>1 DEF Rewritten, Live, IsDoc
  <2>3. Fit(p)
    BY <1>1, <1>11, <2>2 DEF SectionInv, Fitted
  <2> QED  BY <2>2, <2>3 DEF Fit
<1> QED  BY <1>7, <1>9, <1>10, <1>11

\* "no data is lost", whatever fails, dies or is refused half way through a
\* promotion, and however the requests interleave: as long as nobody re-parents or
\* revives a filament, a spool that was accepted is in some document.
THEOREM NoSpoolIsLost ==
    ASSUME OrderlyPlays
    PROVE  Spec => []InventoryKept
<1>1. SpoolInv => InventoryKept
  BY DEF SpoolInv
<1> QED  BY <1>1, SpoolsAlways, PTL

\* A template holds no spools, unless its marker says that their promotion began.
THEOREM TemplatesAreEmpty ==
    ASSUME OrderlyPlays
    PROVE  Spec => []TemplatesHoldNoSpools
<1>1. SpoolInv => TemplatesHoldNoSpools
  BY DEF SpoolInv, FamilyInv, Fit, Marked, TemplatesHoldNoSpools
<1> QED  BY <1>1, SpoolsAlways, PTL

\* A filament in the trash has no live variant, though the trash, the creation of a
\* variant and a restore each check first and write later.
THEOREM TrashIsChildless ==
    ASSUME OrderlyPlays
    PROVE  Spec => []TrashHasNoVariants
<1>1. SpoolInv => TrashHasNoVariants
  BY DEF SpoolInv, FamilyInv, TrashHasNoVariants, HasVariants, Live
<1> QED  BY <1>1, SpoolsAlways, PTL

\* Copy first, clear last: a filament gives a spool up only when a copy of its own
\* promotion holds that spool.
THEOREM SpoolsMoveToTheCopy ==
    ASSUME OrderlyPlays
    PROVE  Spec => GivenUpToTheCopy
<1>1. ASSUME Settled, SpoolInv, Next, NEW p \in Rows, NEW s \in added', IsDoc(p),
             s \in doc[p].own \ doc'[p].own
      PROVE  \E v \in Rows \ {p} : /\ IsDoc(v) /\ s \in doc[v].own
                                   /\ doc[p].marker # 0 /\ doc[v].by = doc[p].marker
  <2>1. PICK c \in Clients : Moves(c) /\ Does(c)
    <3>1. ~Crash
      BY <1>1 DEF Crash
    <3> QED  BY <1>1, <3>1, NextSettled
  <2>2. /\ Typed /\ Shaped(req[c]) /\ SectionInv(req[c]) /\ Writes(c) /\ added' \subseteq Spools
    BY <1>1, <2>1, SpoolWrites, StepAdded DEF Settled, Places, SpoolInv
  <2>3. req[c].pc = "complete" /\ p = req[c].p
    BY <1>1, <2>2, SpoolsMove
  <2>4. s \in added
    BY <2>2, <2>3, AddedMoves
  <2>5. Covered(p) /\ s \in HeldSpools(p) \cap added
    BY <1>1, <2>2, <2>3, <2>4 DEF SectionInv, Fitted, Fit, HeldSpools
  <2> QED  BY <2>5 DEF Covered, IsCopy
<1>2. Settled /\ SpoolInv /\ [Next]_vars =>
        [\A p \in Rows : \A s \in added' :
            (IsDoc(p) /\ s \in doc[p].own \ doc'[p].own) =>
                \E v \in Rows \ {p} : /\ IsDoc(v) /\ s \in doc[v].own
                                      /\ doc[p].marker # 0
                                      /\ doc[v].by = doc[p].marker]_vars
  BY <1>1
<1> QED  BY <1>2, SpoolsAlways, PTL DEF Spec, GivenUpToTheCopy

\* The first variant of a live filament, a new one, a promotion's copy or one that
\* is restored, never surfaces over spools whose promotion has not begun: what the
\* gate found out under the parent's key still holds at the write.
THEOREM FirstVariantsAreGated ==
    ASSUME OrderlyPlays
    PROVE  Spec => FirstVariantFindsNoSpools
<1>1. ASSUME Settled, SpoolInv, Next, NEW p \in Rows, ~HasVariants(p), HasVariants(p)'
      PROVE  HeldSpools(p) = {} \/ doc[p].marker # 0
  <2>1. ~Crash
    BY <1>1 DEF Crash, HasVariants, LiveVariants, Live, IsDoc
  <2>2. PICK c \in Clients : Moves(c) /\ Does(c)
    BY <1>1, <2>1, NextSettled
  <2>3. Marked(p)
    BY <1>1, <2>2, SurfacesFit
  <2> QED  BY <2>3 DEF Marked
<1>2. Settled /\ SpoolInv /\ [Next]_vars =>
        [\A p \in Rows :
            (Live(p) /\ ~HasVariants(p) /\ HasVariants(p)') =>
                \/ HeldSpools(p) = {} \/ doc[p].marker # 0
                \/ \E c \in Clients : req[c].kind = "adopt" /\ req[c].p = p]_vars
  BY <1>1
<1> QED  BY <1>2, SpoolsAlways, PTL DEF Spec, FirstVariantFindsNoSpools

-----------------------------------------------------------------------------
(* In a calm play nothing is deleted either: filaments get variants, are    *)
(* promoted, painted, and their spools come and go.                         *)

CalmPlays ==
    \A p \in Plays : \A c \in Clients :
        p.kinds[c] \subseteq {"create", "promote", "paint", "addSpool", "removeSpool"}
Calm ==
    \A c \in Clients :
        play.kinds[c] \subseteq {"create", "promote", "paint", "addSpool", "removeSpool"}

\* Every filament is live and families are one level deep; two filaments share a
\* spool only as original and copy; a spool that was removed stays on an original
\* only while there is the copy that it was removed from.
Level ==
    \A f \in Rows : IsDoc(f) =>
        doc[f].live /\ (doc[f].parent # None => doc[doc[f].parent].parent = None)
Twins ==
    \A f, g \in Rows : \A s \in Spools :
        (f # g /\ IsDoc(f) /\ IsDoc(g) /\ s \in doc[f].own /\ s \in doc[g].own) =>
            IsCopy(f, g) \/ IsCopy(g, f)
Leftovers ==
    \A f \in Rows : \A s \in Spools :
        (IsDoc(f) /\ doc[f].parent = None /\ s \in doc[f].own /\ s \notin added) =>
            \E v \in Rows : IsCopy(v, f)

\* The copies of the slot's filament hold its spool, so that it can follow.
Followable ==
    (slot # None /\ slot.spool # None) =>
        \A v \in Rows : IsCopy(v, slot.fil) => slot.spool \in doc[v].own

CalmSection(r) ==
    /\ r.pc = "copy" => \A v \in Rows : ~IsCopy(v, r.p)
    /\ r.pc \in {"remap", "complete"} => IsCopy(r.copy, r.p)
    /\ r.pc = "complete" => slot = None \/ slot.fil # r.p
    /\ r.pc = "drop" => slot = None \/ slot.spool # r.spool

CalmInv ==
    /\ Calm
    /\ Level /\ Twins /\ Leftovers
    /\ SlotResolves /\ Followable
    /\ \A c \in Clients : CalmSection(req[c])

\* What the steps of a calm play write.
CalmWrites(c) ==
    LET r == req[c]
        t == req[c].t
        p == req[c].p
    IN
    \/ Still
    \/ r.pc = "unmark" /\ added' = added /\ HeldSpools(p) = {} /\ Rewritten(p, TRUE, {}, 0)
    \/ /\ r.pc = "mark" /\ added' = added /\ doc[p].marker = 0
       /\ Rewritten(p, TRUE, HeldSpools(p), Token)
    \/ r.pc = "complete" /\ added' = added /\ Rewritten(p, TRUE, {}, 0)
    \/ /\ r.pc = "copy" /\ added' = added /\ doc[p].marker # 0
       /\ \E v \in Rows : Created(v, p, HeldSpools(p), doc[p].marker)
    \/ r.pc = "insert" /\ added' = added /\ \E v \in Rows : Created(v, p, {}, 0)
    \/ /\ r.pc \in {"alarm", "write"} /\ added' = added
       /\ \E x \in Rows : Rewritten(x, TRUE, HeldSpools(x), doc[x].marker)
    \/ /\ r.pc = "push" /\ added' = added \cup {r.spool}
       /\ Rewritten(t, TRUE, HeldSpools(t) \cup {r.spool}, doc[t].marker)
    \/ /\ r.pc = "drop" /\ added' = added \ {r.spool} /\ r.spool \in doc[t].own
       /\ Rewritten(t, TRUE, HeldSpools(t) \ {r.spool}, doc[t].marker)

LEMMA CalmlyWrites ==
    ASSUME Settled, SpoolInv, Calm, NEW c \in Clients, Does(c)
    PROVE  CalmWrites(c)
<1> DEFINE r == req[c]
           t == req[c].t
           p == req[c].p
<1>1. /\ Typed /\ Shaped(r) /\ SectionInv(r) /\ Writes(c)
      /\ r.pc # "idle" => r.kind \in {"create", "promote", "paint", "addSpool", "removeSpool"}
  BY SpoolWrites DEF Settled, Places, SpoolInv, Calm, Asked
<1>2. r.pc \notin {"trashWrite", "purgeWrite", "save"}
  BY <1>1 DEF Shaped
<1>3. r.pc \in {"unmark", "mark", "copy"} => r.snap.own \cap Spools = HeldSpools(p)
  BY <1>1 DEF SectionInv, Snapped, GatePcs
<1>4. r.pc = "unmark" => HeldSpools(p) = {}
  <2>1. r.pc = "unmark" => r.snap.own \subseteq {"alarm"}
    BY <1>1 DEF SectionInv, Snapped, Needed
  <2> QED  BY <1>3, <2>1, FamiliesAssumption
<1>5. r.pc \in {"mark", "copy"} => r.snap.marker = doc[p].marker
  BY <1>1 DEF SectionInv, Snapped, Moving, GatePcs
<1>6. (r.pc = "mark" => doc[p].marker = 0) /\ (r.pc = "copy" => doc[p].marker # 0)
  BY <1>1, <1>5 DEF SectionInv, Snapped
<1>7. CASE r.pc = "drop"
  <2>1. CASE SpoolDoes(c)
    BY <1>1, <1>7, <2>1 DEF SpoolDoes, Writes, CalmWrites
  <2>2. CASE ~SpoolDoes(c)
    BY <1>7, <2>2 DEF Does, SubmitDoes, GateDoes, InsertDoes, PutDoes, DeleteDoes, RestoreDoes,
       ReviveDoes, CalmWrites
  <2> QED  BY <2>1, <2>2
<1>8. CASE r.pc # "drop"
  BY <1>1, <1>2, <1>3, <1>4, <1>5, <1>6, <1>8 DEF Writes, CalmWrites
<1> QED  BY <1>7, <1>8

\* A row that is new is a copy with all its original's spools, or has none.
LEMMA CalmNew ==
    ASSUME NEW c \in Clients, CalmWrites(c), NEW f \in Rows, ~IsDoc(f), doc'[f] # NoDoc
    PROVE  /\ added' = added
           /\ \/ /\ req[c].pc = "copy" /\ doc[req[c].p].marker # 0
                 /\ Created(f, req[c].p, HeldSpools(req[c].p), doc[req[c].p].marker)
              \/ req[c].pc = "insert" /\ Created(f, req[c].p, {}, 0)
<1> DEFINE r == req[c]
           p == req[c].p
<1>1. ASSUME NEW y, NEW live, NEW spools, NEW marker, Rewritten(y, live, spools, marker)
      PROVE  FALSE
  BY <1>1 DEF Rewritten, IsDoc
<1>2. ~Still
  BY DEF Still, IsDoc
<1>3. ASSUME NEW v, NEW spools, NEW by, Created(v, p, spools, by)
      PROVE  v = f
  BY <1>3 DEF Created, IsDoc
<1>4. /\ added' = added
      /\ \/ /\ r.pc = "copy" /\ doc[p].marker # 0
            /\ \E v \in Rows : Created(v, p, HeldSpools(p), doc[p].marker)
         \/ r.pc = "insert" /\ \E v \in Rows : Created(v, p, {}, 0)
  BY <1>1, <1>2 DEF CalmWrites
<1> QED  BY <1>3, <1>4

\* Which rows become the copy of which, and which cease to be.
LEMMA CopiesMove ==
    ASSUME Settled, SpoolInv, NEW c \in Clients, Writes(c), CalmWrites(c),
           NEW v \in Rows, NEW x \in Rows
    PROVE  /\ (IsCopy(v, x))' =>
                 \/ IsCopy(v, x)
                 \/ /\ req[c].pc = "copy" /\ x = req[c].p /\ ~IsDoc(v)
                    /\ doc'[v].own \cap Spools = HeldSpools(x) /\ doc'[x] = doc[x]
           /\ IsCopy(v, x) =>
                 \/ (IsCopy(v, x))'
                 \/ req[c].pc \in {"unmark", "complete"} /\ x = req[c].p
                    /\ doc'[x].own \cap Spools = {} /\ doc'[x].marker = 0
<1> DEFINE r == req[c]
           p == req[c].p
<1>1. /\ Typed /\ SectionInv(r)
      /\ IsDoc(v) => doc'[v] # NoDoc /\ doc'[v].parent = doc[v].parent /\ doc'[v].by = doc[v].by
  BY RowStays DEF Settled, Places, SpoolInv
<1>2. r.pc \in {"unmark", "mark", "complete", "copy", "insert"} =>
         p \in Rows /\ IsDoc(p)
  <2>1. r.pc \in {"unmark", "mark", "complete", "copy", "insert"} => Live(p) /\ Shaped(r)
    BY <1>1 DEF SectionInv, Rooted, UnderGate, GatePcs, Settled, Places
  <2> QED  BY <2>1 DEF Live, Shaped, GatePcs
<1>3. ASSUME (IsCopy(v, x))', IsDoc(v), ~IsCopy(v, x)
      PROVE  FALSE
  <2>1. doc[v].parent = x /\ doc[v].by = doc'[x].marker /\ doc[v].by # 0
    BY <1>1, <1>3 DEF IsCopy, IsDoc
  <2>2. doc'[x].marker # doc[x].marker /\ doc'[x].marker # 0
    BY <1>3, <2>1 DEF IsCopy
  <2>3. IsDoc(x)
    BY <2>1, <1>3, FamiliesAssumption DEF Settled, Known, IsCopy
  <2>4. r.pc = "mark" /\ doc'[x].marker = Token
    BY <2>2, <2>3 DEF CalmWrites, Still, Rewritten, Created
  <2>5. Token # doc[v].by
    <3>1. doc[v].by \in UsedTokens
      <4> DEFINE used == ({doc[f] : f \in Rows} \cup {req[d].snap : d \in Clients}) \ {NoDoc}
      <4>1. doc[v] \in used
        BY <1>3 DEF IsDoc
      <4>2. {doc[v].marker, doc[v].by} \in {{d.marker, d.by} : d \in used}
        BY <4>1
      <4> QED  BY <4>2 DEF UsedTokens
    <3> QED  BY <1>1, <3>1, TokenFresh
  <2> QED  BY <2>1, <2>4, <2>5
<1>4. ASSUME (IsCopy(v, x))', ~IsDoc(v)
      PROVE  /\ r.pc = "copy" /\ x = p
             /\ doc'[v].own \cap Spools = HeldSpools(x) /\ doc'[x] = doc[x]
  <2>1. doc'[v] # NoDoc /\ doc'[v].parent = x /\ doc'[v].by # 0
    BY <1>4 DEF IsCopy, IsDoc
  <2>2. r.pc = "copy" /\ Created(v, p, HeldSpools(p), doc[p].marker)
    BY <1>4, <2>1, CalmNew DEF Created
  <2> QED  BY <1>2, <1>4, <2>1, <2>2 DEF Created
<1>5. ASSUME IsCopy(v, x), ~(IsCopy(v, x))'
      PROVE  /\ r.pc \in {"unmark", "complete"} /\ x = p
             /\ doc'[x].own \cap Spools = {} /\ doc'[x].marker = 0
  <2>1. IsDoc(v) /\ doc[v].parent = x /\ doc[v].by = doc[x].marker /\ doc[v].by # 0
    BY <1>5 DEF IsCopy
  <2>2. doc'[x].marker # doc[x].marker /\ doc[x].marker # 0
    BY <1>1, <1>5, <2>1 DEF IsCopy, IsDoc
  <2>3. IsDoc(x)
    BY <2>1, FamiliesAssumption DEF Settled, Known
  <2> QED  BY <2>2, <2>3 DEF CalmWrites, Still, Rewritten, Created
<1> QED  BY <1>3, <1>4, <1>5

LEMMA LevelKept ==
    ASSUME Settled, SpoolInv, CalmInv, NEW c \in Clients, Writes(c), CalmWrites(c)
    PROVE  Level'
<1> DEFINE r == req[c]
           p == req[c].p
<1>1. None \notin Rows /\ SectionInv(r) /\ Level /\ Known
  BY FamiliesAssumption DEF Settled, SpoolInv, CalmInv
<1> SUFFICES ASSUME NEW f \in Rows, doc'[f] # NoDoc
             PROVE  /\ doc'[f].live
                    /\ doc'[f].parent # None => doc'[doc'[f].parent].parent = None
  BY DEF Level, IsDoc
<1>2. CASE IsDoc(f)
  <2>1. doc'[f].parent = doc[f].parent
    BY <1>2, RowStays
  <2>2. doc'[f].live
    <3>1. ASSUME NEW y, NEW spools, NEW marker, Rewritten(y, TRUE, spools, marker)
          PROVE  doc'[f].live
      BY <1>1, <1>2, <3>1 DEF Rewritten, Level
    <3>2. ASSUME NEW y, NEW q, NEW spools, NEW by, Created(y, q, spools, by)
          PROVE  doc'[f].live
      BY <1>1, <1>2, <3>2 DEF Created, Level
    <3> QED  BY <1>1, <1>2, <3>1, <3>2 DEF CalmWrites, Still, Level
  <2>3. doc[f].parent # None => doc'[doc[f].parent].parent = None
    <3>1. SUFFICES ASSUME doc[f].parent # None PROVE doc'[doc[f].parent].parent = None
      OBVIOUS
    <3> DEFINE x == doc[f].parent
    <3>2. x \in Rows /\ IsDoc(x) /\ doc[x].parent = None
      BY <1>1, <1>2, <3>1, DocFields DEF Known, Level, Settled, Places
    <3> QED  BY <3>2, RowStays
  <2> QED  BY <2>1, <2>2, <2>3
<1>3. CASE ~IsDoc(f)
  <2>1. /\ doc'[f].parent = p /\ doc'[f].live = TRUE
        /\ r.pc \in {"copy", "insert"}
    BY <1>3, CalmNew DEF Created
  <2>2. Live(p) /\ doc[p].parent = None /\ p \in Rows
    BY <1>1, <2>1 DEF SectionInv, Rooted, UnderGate, GatePcs, Shaped, Settled, Places
  <2>3. doc'[p].parent = None
    BY <2>2, RowStays DEF Live
  <2> QED  BY <2>1, <2>3
<1> QED  BY <1>2, <1>3

\* A new row holds a spool only as the copy of a row that shares it with none.
LEMMA NewTwin ==
    ASSUME Settled, SpoolInv, CalmInv, NEW c \in Clients, Writes(c), CalmWrites(c),
           NEW f \in Rows, ~IsDoc(f), doc'[f] # NoDoc, NEW s \in Spools, s \in doc'[f].own,
           NEW g \in Rows, f # g, doc'[g] # NoDoc, s \in doc'[g].own
    PROVE  (IsCopy(f, g))'
<1> DEFINE r == req[c]
           p == req[c].p
<1>1. /\ SectionInv(r) /\ Twins /\ CalmSection(r) /\ None \notin Rows
  BY FamiliesAssumption DEF SpoolInv, CalmInv
<1>2. /\ r.pc = "copy" /\ doc[p].marker # 0 /\ s \in HeldSpools(p)
      /\ Created(f, p, HeldSpools(p), doc[p].marker)
  BY ZenonT(60), CalmNew DEF Created
<1>3. Live(p) /\ doc[p].parent = None /\ p \in Rows /\ IsDoc(p)
  BY <1>1, <1>2 DEF SectionInv, Rooted, UnderGate, GatePcs, Shaped, Settled, Places, Live
<1>4. doc'[g] = doc[g] /\ IsDoc(g) /\ s \in doc[g].own
  BY <1>2 DEF Created, IsDoc
<1>5. g = p
  <2>1. SUFFICES ASSUME g # p PROVE FALSE
    OBVIOUS
  <2>2. IsCopy(g, p) \/ IsCopy(p, g)
    BY <1>1, <1>2, <1>3, <1>4, <2>1 DEF Twins, HeldSpools
  <2>3. ~IsCopy(p, g)
    BY <1>1, <1>3 DEF IsCopy
  <2> QED  BY <1>1, <1>2, <2>2, <2>3 DEF CalmSection
<1> QED  BY <1>2, <1>4, <1>5 DEF Created, IsCopy, IsDoc

LEMMA TwinsKept ==
    ASSUME Settled, SpoolInv, CalmInv, NEW c \in Clients, Writes(c), CalmWrites(c)
    PROVE  Twins'
<1> SUFFICES ASSUME NEW f \in Rows, NEW g \in Rows, NEW s \in Spools, f # g,
                    doc'[f] # NoDoc, doc'[g] # NoDoc, s \in doc'[f].own, s \in doc'[g].own
             PROVE  (IsCopy(f, g))' \/ (IsCopy(g, f))'
  BY DEF Twins, IsDoc
<1>1. CASE ~IsDoc(f)
  BY <1>1, NewTwin
<1>2. CASE ~IsDoc(g)
  BY <1>2, NewTwin
<1>3. CASE IsDoc(f) /\ IsDoc(g)
  <2>1. s \in doc[f].own /\ s \in doc[g].own
    <3>1. ASSUME NEW x \in Rows, IsDoc(x), s \in doc'[x].own, s \notin doc[x].own,
                 NEW y \in Rows, IsDoc(y), s \in doc'[y].own, x # y
          PROVE  FALSE
      <4>1. req[c].pc = "push" /\ x = req[c].t /\ s = req[c].spool
        BY <3>1, SpoolsMove
      <4>2. s \in doc[y].own
        BY <3>1, <4>1, SpoolsMove
      <4> QED  BY <3>1, <4>1, <4>2 DEF SpoolInv, NewSpools, Brings
    <3> QED  BY <1>3, <3>1
  <2>2. IsCopy(f, g) \/ IsCopy(g, f)
    BY <1>3, <2>1 DEF CalmInv, Twins
  <2> QED  BY <2>2, CopiesMove
<1> QED  BY <1>1, <1>2, <1>3

LEMMA LeftoversKept ==
    ASSUME Settled, SpoolInv, CalmInv, NEW c \in Clients, Writes(c), CalmWrites(c)
    PROVE  Leftovers'
<1> DEFINE r == req[c]
           p == req[c].p
           t == req[c].t
<1>1. SectionInv(r) /\ Twins /\ Leftovers /\ None \notin Rows /\ Typed /\ Shaped(r) /\ Names(r)
  BY FamiliesAssumption DEF SpoolInv, CalmInv, Settled, Places, Known
<1> SUFFICES ASSUME NEW f \in Rows, NEW s \in Spools, doc'[f] # NoDoc, doc'[f].parent = None,
                    s \in doc'[f].own, s \notin added'
             PROVE  \E v \in Rows : (IsCopy(v, f))'
  BY DEF Leftovers, IsDoc
<1>2. IsDoc(f)
  <2>1. SUFFICES ASSUME ~IsDoc(f) PROVE FALSE
    OBVIOUS
  <2>2. doc'[f].parent = p /\ r.pc \in {"copy", "insert"}
    BY <2>1, CalmNew DEF Created
  <2> QED  BY <1>1, <2>2 DEF Shaped, GatePcs
<1>3. doc[f].parent = None
  BY <1>2, RowStays
<1>4. s \in doc[f].own
  <2>1. SUFFICES ASSUME s \notin doc[f].own PROVE FALSE
    OBVIOUS
  <2>2. r.pc = "push" /\ s = r.spool
    BY <1>2, <2>1, SpoolsMove
  <2>3. ~Still
    BY <2>1 DEF Still
  <2> QED  BY <2>2, <2>3 DEF CalmWrites
<1>5. \E v \in Rows : IsCopy(v, f)
  <2>1. CASE s \notin added
    BY <1>1, <1>2, <1>3, <1>4, <2>1 DEF Leftovers
  <2>2. CASE s \in added
    <3>1. /\ r.pc = "drop" /\ s = r.spool /\ s \in doc[t].own
          /\ Rewritten(t, TRUE, HeldSpools(t) \ {s}, doc[t].marker)
      BY <2>2 DEF CalmWrites, Still
    <3>2. f # t /\ t \in Rows /\ IsDoc(t)
      BY <3>1 DEF Rewritten, HeldSpools
    <3>3. IsCopy(t, f) \/ IsCopy(f, t)
      BY <1>1, <1>2, <1>4, <3>1, <3>2 DEF Twins
    <3>4. ~IsCopy(f, t)
      BY <1>1, <1>3, <3>2 DEF IsCopy
    <3> QED  BY <3>2, <3>3, <3>4
  <2> QED  BY <2>1, <2>2
<1>6. PICK v \in Rows : IsCopy(v, f)
  BY <1>5
<1> QED  BY <1>6, CopiesMove

\* What a step does to the slot.
SlotStep(c) ==
    LET r == req[c] IN
    \/ slot' = None
    \/ /\ slot' = slot
       /\ (r.pc = "remap" /\ ~Over(c)) =>
             slot = None \/ slot.fil # r.p \/ slot.spool \notin r.snap.own \cup {None}
       /\ (r.pc = "dropSlots" /\ ~Over(c)) => slot = None \/ slot.spool # r.spool
    \/ /\ r.pc = "remap" /\ slot # None /\ slot.fil = r.p /\ slot' \in Slots
       /\ slot'.fil = r.copy /\ slot'.spool = slot.spool

LEMMA SlotSteps ==
    ASSUME Typed, NEW c \in Clients, Shaped(req[c]), Submit(c) \/ Step(c) \/ Fail(c)
    PROVE  SlotStep(c)
<1> DEFINE r == req[c]
<1>1. CASE Remap(c)
  <2>1. r.pc = "remap" /\ r.copy \in Rows
    BY <1>1 DEF Remap, At, Shaped
  <2>2. slot # None => slot \in [fil : Rows, spool : Spools \cup {None}]
    BY DEF Typed, Slots
  <2>3. CASE slot # None /\ slot.fil = r.p /\ slot.spool \in r.snap.own \cup {None}
    <3>1. slot' = [slot EXCEPT !.fil = r.copy]
      BY <1>1, <2>3 DEF Remap
    <3> QED  BY <2>1, <2>2, <2>3, <3>1 DEF SlotStep, Slots
  <2>4. CASE ~(slot # None /\ slot.fil = r.p /\ slot.spool \in r.snap.own \cup {None})
    <3>1. slot' = slot
      BY <1>1, <2>4 DEF Remap
    <3> QED  BY <2>1, <2>4, <3>1 DEF SlotStep
  <2> QED  BY <2>3, <2>4
<1>2. ASSUME slot' = slot \/ slot' = None, r.pc \notin {"remap", "dropSlots"} \/ Over(c)
      PROVE  SlotStep(c)
  BY <1>2 DEF SlotStep
<1>3. CASE DropSlots(c)
  BY <1>3 DEF DropSlots, FreeSlot, At, SlotStep
<1>4. CASE GateStep(c) /\ ~Remap(c)
  BY <1>2, <1>4 DEF GateStep, Fetch, Unmark, Gate, TargetAlive, FindPartial, Mark, Copy, Complete,
     ClearAlarm, At
<1>5. CASE PutStep(c) \/ Insert(c)
  BY <1>2, <1>5 DEF PutStep, Insert, PutParent, PutVariants, PutStored, Strip, Write,
     AssertParent, AssertVariants, AssertOutcome, Rollback, At
<1>6. CASE DeleteStep(c)
  BY <1>2, <1>6 DEF DeleteStep, TrashCheck, TrashRead, TrashWrite, PurgeRead, PurgeCheck,
     PurgeWrite, ClearSlots, At
<1>7. CASE RestoreStep(c) \/ ReviveStep(c)
  BY <1>2, <1>7 DEF RestoreStep, RestoreRead, RestoreParent, Save, ReviveStep, ReviveRead,
     ReviveGate, ReviveCheck, ReviveWrite, ReviveAlarm, At
<1>8. CASE SpoolStep(c) /\ ~DropSlots(c)
  BY <1>2, <1>8 DEF SpoolStep, PushCheck, Push, PushAgain, Pull, DropCheck, Drop,
     DropSlotsAgain, FreeSlot, At
<1>9. CASE Submit(c)
  BY <1>2, <1>9 DEF Submit
<1>10. CASE Fail(c)
  <2>1. Over(c)
    BY <1>10, AnswerDoes DEF Fail
  <2> QED  BY <1>2, <1>10, <2>1 DEF Fail
<1> QED  BY <1>1, <1>3, <1>4, <1>5, <1>6, <1>7, <1>8, <1>9, <1>10 DEF Step

\* The slot's filament holds the slot's spool, and so do that filament's copies.
LEMMA SlotKept ==
    ASSUME Settled, SpoolInv, CalmInv, NEW c \in Clients, Writes(c), CalmWrites(c), SlotStep(c)
    PROVE  SlotResolves' /\ Followable'
<1> DEFINE r == req[c]
           p == req[c].p
           t == req[c].t
<1>1. /\ SectionInv(r) /\ CalmSection(r) /\ SlotResolves /\ Followable /\ Level /\ Level'
      /\ None \notin Rows /\ Typed /\ Shaped(r) /\ Names(r) /\ Known
  BY FamiliesAssumption, LevelKept DEF SpoolInv, CalmInv, Settled, Places, Known
<1>2. CASE slot' = None
  BY <1>2 DEF SlotResolves, Followable
<1>3. CASE slot' = slot /\ slot # None
  <2> DEFINE f == slot.fil
             s == slot.spool
  <2>1. f \in Rows /\ IsDoc(f) /\ s \in Spools \cup {None} /\ s \in HeldSpools(f) \cup {None}
    BY <1>1, <1>3 DEF SlotResolves, Live, Typed, Slots
  <2>2. doc'[f] # NoDoc /\ doc'[f].live
    BY <1>1, <2>1, RowStays DEF Level, IsDoc
  <2>3. s # None => s \in doc'[f].own \cap Spools
    <3>1. SUFFICES ASSUME s # None, s \notin doc'[f].own PROVE FALSE
      BY <2>1
    <3>2. \/ r.pc = "complete" /\ f = p
          \/ r.pc = "drop" /\ s = r.spool
      BY <2>1, <3>1, SpoolsMove DEF HeldSpools
    <3> QED  BY <1>1, <1>3, <3>2 DEF CalmSection
  <2>4. SlotResolves'
    BY <1>1, <1>3, <2>1, <2>2, <2>3 DEF SlotResolves, Live, IsDoc, HeldSpools
  <2>5. ASSUME s # None, NEW v \in Rows, NEW x \in Rows, x = f, (IsCopy(v, x))'
        PROVE  s \in doc'[v].own
    <3>1. CASE IsCopy(v, x)
      <4>1. s \in doc[v].own /\ IsDoc(v) /\ doc[v].parent = x
        BY <1>1, <1>3, <2>5, <3>1 DEF Followable, IsCopy
      <4>2. SUFFICES ASSUME s \notin doc'[v].own PROVE FALSE
        OBVIOUS
      <4>3. \/ r.pc = "complete" /\ v = p
            \/ r.pc = "drop" /\ s = r.spool
        BY <2>1, <2>5, <4>1, <4>2, SpoolsMove
      <4>4. r.pc = "complete" => doc[p].parent = None
        BY <1>1 DEF SectionInv, Rooted, UnderGate, GatePcs
      <4> QED  BY <1>1, <1>3, <4>1, <4>3, <4>4 DEF CalmSection
    <3>2. CASE ~IsCopy(v, x)
      <4>1. doc'[v].own \cap Spools = HeldSpools(x)
        BY <2>5, <3>2, CopiesMove
      <4> QED  BY <2>1, <2>5, <4>1
    <3> QED  BY <3>1, <3>2
  <2>6. Followable'
    BY <1>3, <2>1, <2>5 DEF Followable, IsCopy, IsDoc
  <2> QED  BY <2>4, <2>6
<1>4. CASE /\ r.pc = "remap" /\ slot # None /\ slot.fil = p /\ slot' \in Slots
           /\ slot'.fil = r.copy /\ slot'.spool = slot.spool
  <2> DEFINE v == r.copy
             s == slot.spool
  <2>1. Still
    BY <1>4 DEF CalmWrites
  <2>2. IsCopy(v, p) /\ v \in Rows /\ p \in Rows
    BY <1>1, <1>4 DEF CalmSection, Shaped, GatePcs
  <2>3. Live(v) /\ doc[v].parent = p
    BY <1>1, <2>2 DEF IsCopy, Live, Level
  <2>4. s # None => s \in doc[v].own /\ s \in Spools
    BY <1>1, <1>4, <2>2 DEF Followable, Typed, Slots
  <2>5. SlotResolves'
    BY <1>4, <2>1, <2>3, <2>4 DEF SlotResolves, Live, IsDoc, HeldSpools, Still
  <2>6. \A w \in Rows : ~(IsDoc(w) /\ doc[w].parent = v)
    BY <1>1, <2>2, <2>3 DEF Level
  <2>7. Followable'
    BY <1>4, <2>1, <2>6 DEF Followable, IsCopy, IsDoc, Still
  <2> QED  BY <2>5, <2>7
<1>5. CASE slot' = slot /\ slot = None
  BY <1>5 DEF SlotResolves, Followable
<1> QED  BY <1>2, <1>3, <1>4, <1>5 DEF SlotStep

LEMMA OthersCalm ==
    ASSUME Settled, SpoolInv, CalmInv, NEW c \in Clients, Moves(c), Does(c), Writes(c),
           CalmWrites(c), SlotStep(c), NEW d \in Clients, d # c, NEW r, r = req[d]
    PROVE  (CalmSection(r))'
<1>1. /\ CalmSection(r) /\ SectionInv(r) /\ Shaped(r) /\ Exclusion /\ CalmSection(req[c])
      /\ SectionInv(req[c]) /\ Shaped(req[c]) /\ None \notin Rows /\ MayRun(c)
  BY FamiliesAssumption, MovesRequests DEF SpoolInv, CalmInv, Settled, Places
<1>2. r.pc \notin Entries => MayRun(d)
  BY <1>1 DEF Exclusion
<1>3. ASSUME r.pc \in {"copy", "remap", "complete"}
      PROVE  /\ r.p \in Rows /\ doc[r.p].parent = None
             /\ req[c].pc \in GatePcs => req[c].p # r.p
  <2>1. r.p \in Rows /\ r.key = r.p /\ MayRun(d) /\ doc[r.p].parent = None
    BY <1>1, <1>2, <1>3 DEF Shaped, GatePcs, Entries, SectionInv, Rooted, UnderGate
  <2>2. req[c].pc \in GatePcs => req[c].key = req[c].p /\ req[c].p \in Rows
    BY <1>1 DEF Shaped
  <2> QED  BY <1>1, <2>1, <2>2, Exclusive
<1>4. ASSUME r.pc = "copy", NEW v \in Rows, NEW x \in Rows, x = r.p, (IsCopy(v, x))'
      PROVE  FALSE
  <2>1. ~IsCopy(v, x)
    BY <1>1, <1>4 DEF CalmSection
  <2>2. req[c].pc = "copy" /\ x = req[c].p
    BY <1>4, <2>1, CopiesMove
  <2> QED  BY <1>3, <1>4, <2>2 DEF GatePcs
<1>5. ASSUME r.pc \in {"remap", "complete"}, NEW v \in Rows, NEW x \in Rows, v = r.copy, x = r.p
      PROVE  (IsCopy(v, x))'
  <2>1. IsCopy(v, x)
    BY <1>1, <1>5 DEF CalmSection
  <2>2. req[c].pc \in {"unmark", "complete"} => req[c].p # x
    BY <1>3, <1>5 DEF GatePcs
  <2> QED  BY <2>1, <2>2, CopiesMove
<1>6. r.pc = "complete" => slot' = None \/ slot'.fil # r.p
  <2>1. req[c].pc = "remap" => doc[req[c].copy].parent \in Rows
    BY <1>1 DEF CalmSection, IsCopy, Shaped, GatePcs
  <2> QED  BY <1>1, <1>3, <2>1 DEF SlotStep, CalmSection
<1>7. r.pc = "drop" => slot' = None \/ slot'.spool # r.spool
  BY <1>1 DEF SlotStep, CalmSection
<1>8. r.pc = "copy" => \A v \in Rows : ~(IsCopy(v, r.p))'
  BY <1>3, <1>4
<1>9. r.pc \in {"remap", "complete"} => (IsCopy(r.copy, r.p))'
  <2>1. r.pc \in {"remap", "complete"} => r.copy \in Rows
    BY <1>1 DEF Shaped
  <2> QED  BY <1>3, <1>5, <2>1
<1> QED  BY <1>6, <1>7, <1>8, <1>9 DEF CalmSection

LEMMA OwnCalm ==
    ASSUME Settled, SpoolInv, CalmInv, NEW c \in Clients, Moves(c), Does(c), Writes(c),
           CalmWrites(c), SlotStep(c), NEW q, q = req'[c]
    PROVE  (CalmSection(q))'
<1> DEFINE r == req[c]
           p == req[c].p
<1>1. /\ CalmSection(r) /\ SectionInv(r) /\ Shaped(r) /\ Names(r) /\ Comes(c) /\ None \notin Rows
      /\ Level /\ SlotResolves /\ Known /\ Typed
  BY FamiliesAssumption, DoesComes DEF SpoolInv, CalmInv, Settled, Places, Known
<1>2. /\ \A s : On(c, s) => q.pc = s /\ Same(q, r) /\ q.copy = r.copy
      /\ \A s, n : Carried(c, s, n) => q.pc = s /\ Same(q, r)
      /\ Over(c) => q.pc = "idle"
      /\ SubmitDoes(c) => q.pc \in SentFrom
      /\ Passed(c) => q.pc \in {"idle", "insert", "save", "strip"}
  BY DEF On, Carried, Over, Passed, Idle, SubmitDoes
<1>3. r.pc \in GatePcs =>
        /\ p \in Rows /\ IsDoc(p) /\ Live(p) /\ doc[p].parent = None
        /\ r.snap.own \cap Spools = HeldSpools(p)
        /\ r.pc \notin {"gate", "unmark"} => r.snap.marker = doc[p].marker
  BY <1>1 DEF SectionInv, Rooted, Snapped, UnderGate, Moving, GatePcs, Shaped, Live
<1>4. ASSUME Still, NEW v, NEW x PROVE (IsCopy(v, x))' = IsCopy(v, x)
  BY <1>4 DEF Still, IsCopy, IsDoc
<1>5. q.pc \in GatePcs => GateDoes(c) \/ ~(q.pc \in {"copy", "remap", "complete"})
  BY <1>1, <1>2 DEF Comes, GatePcs, SentFrom, PutPcs, DeletePcs, RestorePcs, RevivePcs, SpoolPcs
<1>6. ASSUME q.pc = "copy", NEW v \in Rows, NEW x \in Rows, x = q.p, (IsCopy(v, x))'
      PROVE  FALSE
  <2>1. GateDoes(c)
    BY <1>5, <1>6 DEF GatePcs
  <2>2. \/ r.pc = "partial" /\ Still /\ Partial(r) = {} /\ r.snap.marker # 0 /\ On(c, "copy")
        \/ r.pc = "mark" /\ Carried(c, "copy", [r.snap EXCEPT !.marker = Token])
    <3>1. /\ \A s \in {"unmark", "gate", "partial", "resume", "target", "mark", "complete"} : ~On(c, s)
          /\ \A n : ~Carried(c, "unmark", n) /\ ~Carried(c, "gate", n) /\ ~Carried(c, "remap", n)
          /\ ~Passed(c) /\ ~Over(c)
      BY <1>2, <1>6
    <3> QED  BY <2>1, <3>1 DEF GateDoes
  <2>3. CASE r.pc = "partial" /\ Still /\ Partial(r) = {} /\ r.snap.marker # 0 /\ On(c, "copy")
    <3>1. x = p /\ IsCopy(v, p)
      BY <1>2, <1>4, <1>6, <2>3 DEF Same
    <3>2. v \in Partial(r)
      BY <1>1, <1>3, <2>3, <3>1 DEF Partial, LiveVariants, IsCopy, Live, Level, GatePcs
    <3> QED  BY <2>3, <3>2
  <2>4. CASE r.pc = "mark" /\ Carried(c, "copy", [r.snap EXCEPT !.marker = Token])
    <3>1. x = p
      BY <1>2, <1>6, <2>4 DEF Same
    <3>2. IsCopy(v, p)
      BY <1>6, <2>4, <3>1, CopiesMove
    <3>3. doc[p].marker = 0
      BY <1>1, <1>3, <2>4 DEF SectionInv, Snapped, GatePcs
    <3> QED  BY <3>2, <3>3 DEF IsCopy
  <2> QED  BY <2>2, <2>3, <2>4
<1>7. ASSUME q.pc = "remap", NEW v, NEW x \in Rows, v = q.copy, x = q.p
      PROVE  (IsCopy(v, x))'
  <2>1. GateDoes(c)
    BY <1>5, <1>7 DEF GatePcs
  <2>2. \/ /\ r.pc \in {"partial", "resume"} /\ Still
           /\ \E w \in Partial(r) : Carried(c, "remap", r.snap) /\ q.copy = w
        \/ /\ r.pc = "copy"
           /\ \E w \in Rows : /\ ~IsDoc(w)
                              /\ Becomes(w, TRUE, FALSE, p, r.snap.own, 0, r.snap.marker)
                              /\ Carried(c, "remap", r.snap) /\ q.copy = w
    <3>1. /\ \A s \in {"unmark", "gate", "partial", "resume", "target", "mark", "complete", "copy"} :
                ~On(c, s)
          /\ \A n : ~Carried(c, "unmark", n) /\ ~Carried(c, "gate", n) /\ ~Carried(c, "copy", n)
          /\ ~Passed(c) /\ ~Over(c)
      BY <1>2, <1>7
    <3> QED  BY <2>1, <3>1 DEF GateDoes
  <2>3. CASE /\ r.pc \in {"partial", "resume"} /\ Still
             /\ \E w \in Partial(r) : Carried(c, "remap", r.snap) /\ q.copy = w
    <3>1. v \in Partial(r) /\ x = p
      BY <1>2, <1>7, <2>3 DEF Same
    <3>2. IsCopy(v, p)
      BY <1>3, <2>3, <3>1 DEF Partial, LiveVariants, IsCopy, Live, GatePcs
    <3> QED  BY <1>4, <2>3, <3>1, <3>2
  <2>4. CASE /\ r.pc = "copy"
             /\ \E w \in Rows : /\ ~IsDoc(w)
                                /\ Becomes(w, TRUE, FALSE, p, r.snap.own, 0, r.snap.marker)
                                /\ Carried(c, "remap", r.snap) /\ q.copy = w
    <3>1. /\ x = p /\ ~IsDoc(v) /\ v \in Rows
          /\ Becomes(v, TRUE, FALSE, p, r.snap.own, 0, r.snap.marker)
      BY <1>2, <1>7, <2>4 DEF Same
    <3>2. r.snap.marker = doc[p].marker /\ doc[p].marker # 0 /\ doc'[p] = doc[p] /\ doc'[v] # NoDoc
      BY <1>1, <1>3, <2>4, <3>1, FamiliesAssumption DEF SectionInv, Snapped, GatePcs, Becomes
    <3> QED  BY <3>1, <3>2 DEF Becomes, IsCopy, IsDoc
  <2> QED  BY <2>2, <2>3, <2>4
<1>8. ASSUME q.pc = "complete"
      PROVE  (IsCopy(q.copy, q.p))' /\ (slot' = None \/ slot'.fil # q.p)
  <2>1. GateDoes(c)
    BY <1>5, <1>8 DEF GatePcs
  <2>2. r.pc = "remap" /\ Still /\ On(c, "complete")
    <3>1. /\ \A s \in {"unmark", "gate", "partial", "resume", "target", "mark", "copy"} : ~On(c, s)
          /\ \A n : ~Carried(c, "unmark", n) /\ ~Carried(c, "gate", n) /\ ~Carried(c, "copy", n)
                    /\ ~Carried(c, "remap", n)
          /\ ~Passed(c) /\ ~Over(c)
      BY <1>2, <1>8
    <3> QED  BY <2>1, <3>1 DEF GateDoes
  <2>3. q.copy = r.copy /\ q.p = p /\ ~Over(c) /\ p \in Rows /\ r.copy \in Rows
    BY <1>1, <1>2, <1>3, <1>8, <2>2 DEF Same, Shaped, GatePcs
  <2>4. IsCopy(r.copy, p) /\ r.copy # p
    BY <1>1, <2>2, <2>3 DEF CalmSection, IsCopy, Known
  <2>5. (IsCopy(q.copy, q.p))'
    BY <1>4, <2>2, <2>3, <2>4
  <2>6. slot # None /\ slot.fil = p => slot.spool \in r.snap.own \cup {None}
    BY <1>1, <1>3, <2>2 DEF SlotResolves, GatePcs
  <2> QED  BY <2>2, <2>3, <2>4, <2>5, <2>6 DEF SlotStep
<1>9. q.pc = "drop" => slot' = None \/ slot'.spool # q.spool
  <2>1. SUFFICES ASSUME q.pc = "drop" PROVE slot' = None \/ slot'.spool # q.spool
    OBVIOUS
  <2>2. SpoolDoes(c)
    BY <1>1, <1>2, <2>1 DEF Comes, GatePcs, SentFrom, PutPcs, DeletePcs, RestorePcs, RevivePcs
  <2>3. r.pc = "dropSlots" /\ On(c, "drop")
    <3>1. ~Over(c) /\ \A s \in {"push", "pushAgain", "pull", "dropSlots", "dropSlotsAgain"} : ~On(c, s)
      BY <1>2, <2>1
    <3> QED  BY <2>2, <3>1 DEF SpoolDoes
  <2> QED  BY <1>2, <2>1, <2>3 DEF SlotStep, Same
<1>10. q.pc \in {"copy", "remap", "complete"} => q.p \in Rows
  BY <1>1, MovesRequests DEF Shaped, GatePcs, Settled, Places
<1>11. q.pc = "copy" => \A v \in Rows : ~(IsCopy(v, q.p))'
  BY <1>6, <1>10
<1>12. q.pc \in {"remap", "complete"} => (IsCopy(q.copy, q.p))'
  BY <1>7, <1>8, <1>10
<1> QED  BY <1>8, <1>9, <1>11, <1>12 DEF CalmSection

LEMMA CalmIsOrderly == CalmPlays => OrderlyPlays
BY DEF CalmPlays, OrderlyPlays

LEMMA InitCalm ==
    ASSUME CalmPlays, Init
    PROVE  CalmInv
<1>1. /\ req = [c \in Clients |-> Idle] /\ added = UNION {HeldSpools(f) : f \in play.roots}
      /\ play \in Plays /\ play.roots \subseteq Rows /\ None \notin Rows
      /\ slot # None => Live(slot.fil) /\ slot.spool \in HeldSpools(slot.fil) \cup {None}
  BY FamiliesAssumption DEF Init, Play
<1>2. PICK own \in [play.roots -> SUBSET (play.traits \cup Spools)] :
        /\ \A f, g \in play.roots : f # g => own[f] \cap own[g] \cap Spools = {}
        /\ doc = [f \in Rows |-> IF f \in play.roots THEN Fresh(None, own[f], 0) ELSE NoDoc]
  BY DEF Init
<1>3. Calm
  BY <1>1 DEF CalmPlays, Calm
<1>4. \A f \in Rows : IsDoc(f) =>
        /\ f \in play.roots /\ doc[f].live = TRUE /\ doc[f].parent = None /\ doc[f].by = 0
        /\ doc[f].own = own[f]
  BY <1>2 DEF IsDoc, Fresh
<1>5. Level
  BY <1>4 DEF Level
<1>6. Twins
  BY <1>2, <1>4 DEF Twins
<1>7. Leftovers
  BY <1>1, <1>4 DEF Leftovers, HeldSpools
<1>8. SlotResolves
  BY <1>1 DEF SlotResolves
<1>9. Followable
  BY <1>4 DEF Followable, IsCopy
<1>10. \A c \in Clients : CalmSection(req[c])
  BY <1>1 DEF CalmSection, Idle
<1> QED  BY <1>3, <1>5, <1>6, <1>7, <1>8, <1>9, <1>10 DEF CalmInv

LEMMA CrashCalm ==
    ASSUME Settled, CalmInv, Crash
    PROVE  CalmInv'
<1>1. /\ doc' = doc /\ slot' = slot /\ added' = added /\ play'.kinds = play.kinds
      /\ \A c \in Clients : req'[c] = Idle
  BY CrashSettled DEF Crash, PlayOn
<1>2. \A c \in Clients : (CalmSection(req[c]))'
  BY <1>1 DEF CalmSection, Idle
<1>3. Level' /\ Twins' /\ Leftovers'
  BY <1>1 DEF CalmInv, Level, Twins, Leftovers, IsCopy, IsDoc
<1>4. SlotResolves' /\ Followable' /\ Calm'
  BY <1>1 DEF CalmInv, SlotResolves, Followable, Calm, IsCopy, IsDoc, Live, HeldSpools
<1> QED  BY <1>2, <1>3, <1>4 DEF CalmInv

\* A step of a request, in a calm play.
LEMMA CalmStep ==
    ASSUME Settled, SpoolInv, CalmInv, NEW c \in Clients, Submit(c) \/ Step(c) \/ Fail(c)
    PROVE  PlayOn /\ Moves(c) /\ Does(c) /\ Writes(c) /\ CalmWrites(c) /\ SlotStep(c)
BY StepSettled, SpoolWrites, CalmlyWrites, SlotSteps DEF CalmInv, Settled, Places

LEMMA NextCalm ==
    ASSUME Settled, SpoolInv, CalmInv, Next
    PROVE  CalmInv'
<1>1. CASE Crash
  BY <1>1, CrashCalm
<1>2. ASSUME NEW c \in Clients, Submit(c) \/ Step(c) \/ Fail(c)
      PROVE  CalmInv'
  <2>1. PlayOn /\ Moves(c) /\ Does(c) /\ Writes(c) /\ CalmWrites(c) /\ SlotStep(c)
    BY <1>2, CalmStep
  <2>2. Level' /\ Twins' /\ Leftovers' /\ SlotResolves' /\ Followable'
    BY <2>1, LevelKept, TwinsKept, LeftoversKept, SlotKept
  <2>3. Calm'
    BY <2>1 DEF PlayOn, Calm, CalmInv
  <2>4. ASSUME NEW d \in Clients PROVE (CalmSection(req[d]))'
    <3>1. CASE d = c
      <4>1. ASSUME NEW q, q = req'[d] PROVE (CalmSection(q))'
        BY <2>1, <3>1, <4>1, OwnCalm
      <4> QED  BY <4>1
    <3>2. CASE d # c
      <4>1. req'[d] = req[d]
        BY <2>1, <3>2, MovesRequests DEF Settled, Places
      <4>2. ASSUME NEW r, r = req[d] PROVE (CalmSection(r))'
        BY <2>1, <3>2, <4>2, OthersCalm
      <4> QED  BY <4>1, <4>2
    <3> QED  BY <3>1, <3>2
  <2> QED  BY <2>2, <2>3, <2>4 DEF CalmInv
<1> QED  BY <1>1, <1>2 DEF Next

LEMMA CalmAlways ==
    ASSUME CalmPlays
    PROVE  Spec => [](Settled /\ SpoolInv /\ CalmInv)
<1>1. Init => CalmInv
  BY InitCalm
<1>2. Settled /\ SpoolInv /\ CalmInv /\ [Next]_vars => CalmInv'
  <2> SUFFICES ASSUME Settled, SpoolInv, CalmInv, [Next]_vars PROVE CalmInv'
    OBVIOUS
  <2>1. CASE Next
    BY <2>1, NextCalm
  <2>2. CASE UNCHANGED vars
    BY <2>2 DEF vars, CalmInv, Calm, Level, Twins, Leftovers, SlotResolves, Followable,
       CalmSection, IsCopy, IsDoc, Live, HeldSpools
  <2> QED  BY <2>1, <2>2
<1>3. Spec => [](Settled /\ SpoolInv)
  BY CalmIsOrderly, SpoolsAlways
<1> QED  BY <1>1, <1>2, <1>3, PTL DEF Spec

\* While nothing is deleted, "every external reference still resolves" at every
\* moment of a promotion and of the removal of a spool, and after any failure:
\* the AMS slot's filament is live and holds the slot's spool.
THEOREM SlotsAlwaysResolve ==
    ASSUME CalmPlays
    PROVE  Spec => []SlotResolves
<1>1. CalmInv => SlotResolves
  BY DEF CalmInv
<1> QED  BY <1>1, CalmAlways, PTL

\* A spool is on two filaments only while marker and token tie the two together.
THEOREM SpoolsAreLiveOnce ==
    ASSUME CalmPlays
    PROVE  Spec => []LiveOnce
<1>1. CalmInv => LiveOnce
  BY DEF CalmInv, Twins, LiveOnce, IsCopy, Live, HeldSpools
<1> QED  BY <1>1, CalmAlways, PTL

\* A spool that was removed never shows up on a filament again: a copy is made of a
\* row whose every spool is still in stock.
THEOREM RemovedSpoolsStayAway ==
    ASSUME CalmPlays
    PROVE  Spec => NeverResurrected
<1>1. ASSUME Settled, SpoolInv, CalmInv, Next, NEW f \in Rows, (IsDoc(f))',
             NEW s \in doc'[f].own \cap Spools
      PROVE  s \in added' \cup (IF IsDoc(f) THEN doc[f].own ELSE {})
  <2>1. CASE Crash
    BY <1>1, <2>1 DEF Crash, IsDoc
  <2>2. CASE ~Crash
    <3>1. PICK c \in Clients : Submit(c) \/ Step(c) \/ Fail(c)
      BY <1>1, <2>2 DEF Next
    <3>2. Writes(c) /\ CalmWrites(c)
      BY <1>1, <3>1, CalmStep
    <3>3. CASE IsDoc(f)
      <4>1. SUFFICES ASSUME s \notin doc[f].own PROVE s \in added'
        BY <3>3
      <4>2. req[c].pc = "push" /\ s = req[c].spool
        BY <1>1, <3>2, <3>3, <4>1, SpoolsMove
      <4>3. ~Still
        BY <1>1, <4>1 DEF Still
      <4> QED  BY <3>2, <4>2, <4>3 DEF CalmWrites
    <3>4. CASE ~IsDoc(f)
      <4> DEFINE p == req[c].p
      <4>1. /\ added' = added /\ req[c].pc = "copy" /\ s \in HeldSpools(p)
        BY <1>1, <3>2, <3>4, CalmNew DEF Created, IsDoc
      <4>2. p \in Rows /\ IsDoc(p) /\ doc[p].parent = None
        BY <1>1, <4>1 DEF SpoolInv, SectionInv, Rooted, UnderGate, GatePcs, Shaped, Settled, Places,
           Live
      <4>3. \A v \in Rows : ~IsCopy(v, p)
        BY <1>1, <4>1 DEF CalmInv, CalmSection
      <4> QED  BY <1>1, <4>1, <4>2, <4>3 DEF CalmInv, Leftovers, HeldSpools
    <3> QED  BY <3>3, <3>4
  <2> QED  BY <2>1, <2>2
<1>2. Settled /\ SpoolInv /\ CalmInv /\ [Next]_vars =>
        [\A f \in Rows : (IsDoc(f))' =>
            doc'[f].own \cap Spools \subseteq
                added' \cup (IF IsDoc(f) THEN doc[f].own ELSE {})]_vars
  BY <1>1
<1> QED  BY <1>2, CalmAlways, PTL DEF Spec, NeverResurrected
=============================================================================
