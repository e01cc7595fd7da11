----------------------------- MODULE NfcProofs ------------------------------
(***************************************************************************)
(* Theorems about the NFC service, for any number of tags, readers and     *)
(* requests.                                                               *)
(*                                                                         *)
(* The head of the queue is the only operation that has begun, and what    *)
(* its last connection found out about its tag still holds while it        *)
(* changes that tag: whoever takes the tag away ends the connection, and   *)
(* nobody else writes.  Edit, Written and Lockable say what it found out;  *)
(* Inspected puts them together.                                           *)
(***************************************************************************)
EXTENDS Nfc, SequenceTheorems, TLAPS

-----------------------------------------------------------------------------
(* What the head of the queue knows of its tag.                            *)

\* Whether a size that was declared is believed only if it is true.
Honest == play.shorts = FALSE

\* Region i of the tag holds what the operation writes there.
Has(q, i) ==
    tag[q.tag].mem[i] =
        IF q.kind = "write" /\ i <= Len1[q.payload] THEN q.payload ELSE Zero

\* A connection that writes or erases.
Edit(q) ==
    /\ q.kind \in {"write", "erase"}
    /\ q.tag \in Tags /\ Chip[q.tag] # "bambu" /\ tag[q.tag].cc # "foreign"
    /\ q.ntag = IsNtag(q.tag)
    /\ ~q.ntag => q.size = 2
    /\ (Honest \/ q.kind = "erase") => q.size <= Extent[q.tag]
    /\ q.kind = "write" => Len1[q.payload] <= q.size
    /\ q.size \in 1..3 /\ q.todo \in 1..LastRegion(q)
    /\ q.pc = "cc" =>
        /\ q.todo = 1
        /\ tag[q.tag].locked => q.kind = "erase"
    /\ q.pc = "data" =>
        /\ tag[q.tag].cc = "ndef" /\ tag[q.tag].locked = FALSE
        /\ q.kind = "write" => Len1[q.payload] <= tag[q.tag].size
        /\ \A i \in Regions : (i < q.todo /\ (q.ntag => i <= Extent[q.tag])) => Has(q, i)

\* An NTAG that was written and is to be read back.
Written(q) ==
    /\ q.kind = "write"
    /\ q.tag \in Tags /\ tag[q.tag].cc = "ndef"
    /\ Len1[q.payload] <= tag[q.tag].size
    /\ Honest => \A i \in 1..Len1[q.payload] : tag[q.tag].mem[i] = q.payload

\* An SLIX2 that is to be locked or unlocked.
Lockable(q) ==
    /\ q.kind \in {"lock", "unlock"}
    /\ q.tag \in Tags /\ Chip[q.tag] = "slix2" /\ Ours(tag[q.tag])

\* Phases before a connection that changes the tag.
Unopened == {"queued", "bambu", "probe", "ntag", "slix2"}

Inspected(q) ==
    /\ q.late = FALSE
    /\ q.kind = "write" => q.payload \in Payloads
    /\ q.pc \in Unopened => q.ntag = FALSE
    /\ q.pc = "bambu" => q.kind # "write"
    /\ q.pc = "ntag" => q.kind \in {"write", "erase"}
    /\ q.pc \in {"cc", "data"} => Edit(q)
    /\ q.pc = "verify" => Written(q)
    /\ q.pc = "flip" => Lockable(q)

\* An NTAG is never locked.
TagsInv == \A t \in Tags : tag[t].locked => Chip[t] = "slix2"

QueueInv ==
    /\ queue \in Seq(Queued)
    /\ \A i \in DOMAIN queue : Inspected(queue[i]) /\ (i > 1 => queue[i].pc = "queued")

\* A reader that was pulled out reports nothing, and of a new one nothing is known.
ReadersInv ==
    /\ \A r \in Readers \ plugged : events[r] = <<>>
    /\ fresh \cap present = {}

Sound == TypeOK /\ TagsInv /\ ReadersInv /\ QueueInv

\* What a reader that is empty has still to report ends with the removal.
Announced(r) ==
    on[r] = None =>
        /\ \A i \in DOMAIN events[r] : events[r][i] = TRUE =>
              \E j \in DOMAIN events[r] : j > i /\ events[r][j] = FALSE
        /\ r \in present => \E j \in DOMAIN events[r] : events[r][j] = FALSE

\* Where no reader imagines a tag: there is one reader or none is pulled out, and a tag
\* is shown only while a reader is noted to hold one.
RemovalInv ==
    /\ plugged \subseteq play.readers
    /\ play.phantoms = {} =>
        /\ \/ play.unplugs = {} /\ plugged = play.readers
           \/ \A r, s \in play.readers : r = s
        /\ \A r \in plugged : Announced(r)
        /\ tagPresent => present # {}

-----------------------------------------------------------------------------
(* The queue.                                                              *)

\* An operation that has not begun.
Idle(q) ==
    /\ q \in Queued /\ q.pc = "queued" /\ q.late = FALSE /\ q.ntag = FALSE
    /\ q.kind = "write" => q.payload \in Payloads

LEMMA HeadOfQueue ==
    ASSUME QueueInv, queue # <<>>
    PROVE  Head1 \in Queued /\ Inspected(Head1) /\ 1 \in DOMAIN queue
BY DEF QueueInv, Head1

LEMMA OpIsIdle ==
    ASSUME NEW k \in Kinds, NEW c \in Calls \cup {None}, NEW p \in Payloads \cup {None},
           NEW hint \in 0..3, k = "write" => p \in Payloads
    PROVE  Idle(Op(k, c, p, hint))
BY DEF Op, Idle, Queued, Kinds

\* An operation that has not begun knows nothing of any tag.
LEMMA IdleIsInspected ==
    ASSUME NEW q, Idle(q)
    PROVE  Inspected(q) /\ Inspected(q)'
<1>1. q.pc \notin {"bambu", "ntag", "cc", "data", "verify", "flip"}
  BY DEF Idle
<1> QED  BY <1>1 DEF Idle, Inspected

LEMMA InspectedStays ==
    ASSUME NEW q, Inspected(q), tag' = tag, Honest' = Honest
    PROVE  Inspected(q)'
BY DEF Inspected, Edit, Written, Lockable, Has

LEMMA QueueAppend ==
    ASSUME QueueInv, tag' = tag, Honest' = Honest,
           NEW op, Idle(op), queue' = Append(queue, op)
    PROVE  QueueInv'
<1>1. op \in Queued /\ op.pc = "queued" /\ Inspected(op)'
  BY IdleIsInspected DEF Idle
<1>2. queue' \in Seq(Queued)
  BY <1>1 DEF QueueInv
<1>3. ASSUME NEW i \in DOMAIN queue', NEW q, q = queue'[i]
      PROVE  Inspected(q)' /\ (i > 1 => q.pc = "queued")
  <2>1. CASE i \in DOMAIN queue
    <3>1. q = queue[i] /\ Inspected(q) /\ (i > 1 => q.pc = "queued")
      BY <1>3, <2>1 DEF QueueInv
    <3> QED  BY <3>1, InspectedStays
  <2>2. CASE i \notin DOMAIN queue
    <3>1. q = op
      BY <1>3, <2>2 DEF QueueInv
    <3> QED  BY <1>1, <3>1
  <2> QED  BY <2>1, <2>2
<1> QED  BY <1>2, <1>3 DEF QueueInv

LEMMA QueueTail ==
    ASSUME QueueInv, queue # <<>>, queue' = Tail(queue)
    PROVE  QueueInv'
<1>1. queue' \in Seq(Queued)
  BY DEF QueueInv
<1>2. ASSUME NEW i \in DOMAIN queue', NEW q, q = queue'[i]
      PROVE  Inspected(q)' /\ q.pc = "queued"
  <2>1. i + 1 \in DOMAIN queue /\ i + 1 > 1 /\ q = queue[i + 1]
    BY <1>2 DEF QueueInv
  <2>2. Idle(q)
    BY <2>1 DEF QueueInv, Idle, Inspected, Unopened
  <2> QED  BY <2>2, IdleIsInspected DEF Idle
<1> QED  BY <1>1, <1>2 DEF QueueInv

\* The head goes on to `op`, whatever it did to the tag.
LEMMA QueueGoes ==
    ASSUME QueueInv, queue # <<>>, NEW op \in Queued, Inspected(op)',
           queue' = [queue EXCEPT ![1] = op]
    PROVE  QueueInv'
<1>1. queue' \in Seq(Queued) /\ DOMAIN queue' = DOMAIN queue
  BY DEF QueueInv
<1>2. ASSUME NEW i \in DOMAIN queue', NEW q, q = queue'[i]
      PROVE  Inspected(q)' /\ (i > 1 => q.pc = "queued")
  <2>1. CASE i = 1
    BY <1>1, <1>2, <2>1
  <2>2. CASE i # 1
    <3>1. i \in DOMAIN queue /\ i > 1 /\ q = queue[i]
      BY <1>1, <1>2, <2>2 DEF QueueInv
    <3>2. Idle(q)
      BY <3>1 DEF QueueInv, Idle, Inspected, Unopened
    <3> QED  BY <3>2, IdleIsInspected DEF Idle
  <2> QED  BY <2>1, <2>2
<1> QED  BY <1>1, <1>2 DEF QueueInv

\* What is known of a tag does not depend on the connection.
LEMMA LinkIsNotNeeded ==
    ASSUME NEW q \in Queued
    PROVE  /\ [q EXCEPT !.link = FALSE] \in Queued
           /\ Inspected(q) => Inspected([q EXCEPT !.link = FALSE])
           /\ Inspected(q)' => Inspected([q EXCEPT !.link = FALSE])'
<1> DEFINE p == [q EXCEPT !.link = FALSE]
<1>1. /\ p \in Queued
      /\ p.kind = q.kind /\ p.call = q.call /\ p.payload = q.payload /\ p.hint = q.hint
      /\ p.pc = q.pc /\ p.late = q.late /\ p.tag = q.tag /\ p.ntag = q.ntag
      /\ p.size = q.size /\ p.todo = q.todo
  BY DEF Queued
<1> HIDE DEF p
<1>2. LastRegion(p) = LastRegion(q) /\ \A i : Has(p, i) = Has(q, i) /\ Has(p, i)' = Has(q, i)'
  BY <1>1 DEF LastRegion, Has
<1>3. Inspected(q) => Inspected(p)
  BY <1>1, <1>2 DEF Inspected, Edit, Written, Lockable
<1>4. Inspected(q)' => Inspected(p)'
  BY <1>1, <1>2 DEF Inspected, Edit, Written, Lockable
<1> QED  BY <1>1, <1>3, <1>4 DEF p

\* A connection ends; what was written in it may be torn.
LEMMA QueueUnlinked ==
    ASSUME QueueInv, NEW t, queue' = Unlinked(t), Honest' = Honest,
           \A q : (q = Head1 /\ queue # <<>>) => Inspected(q)'
    PROVE  QueueInv'
<1>1. queue' \in Seq(Queued) /\ DOMAIN queue' = DOMAIN queue
  <2>1. \A i \in DOMAIN queue : queue[i] \in Queued /\ [queue[i] EXCEPT !.link = FALSE] \in Queued
    BY LinkIsNotNeeded DEF QueueInv
  <2>2. queue' \in [1..Len(queue) -> Queued] /\ Len(queue) \in Nat
    BY <2>1 DEF QueueInv, Unlinked
  <2> QED  BY <2>2 DEF QueueInv
<1>2. ASSUME NEW i \in DOMAIN queue', NEW q, q = queue'[i], NEW p, p = queue[i]
      PROVE  Inspected(q)' /\ (i > 1 => q.pc = "queued")
  <2>1. i \in DOMAIN queue /\ (q = p \/ q = [p EXCEPT !.link = FALSE])
    BY <1>1, <1>2 DEF Unlinked
  <2>2. p \in Queued /\ (i > 1 => p.pc = "queued") /\ Inspected(p)
    BY <1>2, <2>1 DEF QueueInv
  <2>3. Inspected(p)'
    <3>1. CASE i = 1
      BY <1>2, <2>1, <3>1 DEF Head1
    <3>2. CASE i # 1
      <4>1. Idle(p)
        BY <2>1, <2>2, <3>2 DEF Idle, Inspected, QueueInv, Unopened
      <4> QED  BY <4>1, IdleIsInspected
    <3> QED  BY <3>1, <3>2
  <2>4. Inspected([p EXCEPT !.link = FALSE])'
    BY <2>2, <2>3, LinkIsNotNeeded
  <2>5. q.pc = p.pc
    BY <2>1, <2>2 DEF Queued
  <2> QED  BY <2>1, <2>2, <2>3, <2>4, <2>5
<1> QED  BY <1>1, <1>2 DEF QueueInv

-----------------------------------------------------------------------------
(* Steps of readers, tags and callers.                                     *)

LEMMA FewerFails ==
    ASSUME TypeOK, Glitch
    PROVE  /\ play' \in Play /\ Honest' = Honest /\ play'.phantoms = play.phantoms
           /\ play'.readers = play.readers /\ play'.unplugs = play.unplugs
<1>1. play \in Play /\ play.fails \in 1..MaxFails
  BY DEF TypeOK, Play, Glitch
<1> QED  BY <1>1, NfcAssumption DEF Glitch, Play, Honest

\* Only Place, Unplug and an exchange that fails change what is still to happen.
LEMMA PlayKept ==
    ASSUME TypeOK, [Next]_vars
    PROVE  /\ play' \in Play /\ Honest' = Honest /\ play'.phantoms = play.phantoms
           /\ play'.readers = play.readers
           /\ play'.unplugs = play.unplugs \/ \E r \in Readers : Unplug(r)
<1> DEFINE Good == /\ play' \in Play /\ Honest' = Honest /\ play'.phantoms = play.phantoms
                   /\ play'.readers = play.readers
                   /\ play'.unplugs = play.unplugs \/ \E r \in Readers : Unplug(r)
<1> SUFFICES Good
  OBVIOUS
<1>1. CASE play' = play
  BY <1>1 DEF TypeOK, Honest
<1>2. CASE Glitch
  BY <1>2, FewerFails
<1>3. ASSUME NEW r \in Readers, NEW t \in Tags, Place(r, t) PROVE Good
  <2>1. play \in Play /\ play.moves \in 1..MaxMoves
    BY <1>3 DEF TypeOK, Play, Place
  <2> QED  BY <1>3, <2>1, NfcAssumption DEF Place, Play, Honest
<1>4. ASSUME NEW r \in Readers, Unplug(r) PROVE Good
  <2>1. play \in Play
    BY DEF TypeOK
  <2> QED  BY <1>4, <2>1 DEF Unplug, Play, Honest
<1> HIDE DEF Good
<1>5. CASE User
  BY <1>1, <1>3, <1>4, <1>5 DEF User, Lift, Phantom, Plug
<1>6. CASE Callers
  BY <1>1, <1>6 DEF Callers, Asks, Ask, Timeout, ReadBack, Match
<1>7. CASE Presence
  BY <1>1, <1>7 DEF Presence, Status, CoolDown, CheckPresence
<1>8. CASE Service
  BY <1>1, <1>2, <1>8 DEF Service, Begin, BambuCheck, Probe, OpenNtag, OpenSlix2, NoTag,
        CannotConnect, WriteCc, WriteData, WriteFails, Verify, Flip, Broken
<1> QED  BY <1>1, <1>5, <1>6, <1>7, <1>8 DEF Next, vars

LEMMA QueueStays ==
    ASSUME QueueInv, queue' = queue, tag' = tag, Honest' = Honest
    PROVE  QueueInv'
<1>1. ASSUME NEW i \in DOMAIN queue', NEW q, q = queue'[i]
      PROVE  Inspected(q)' /\ (i > 1 => q.pc = "queued")
  BY <1>1, InspectedStays DEF QueueInv
<1> QED  BY <1>1 DEF QueueInv

\* An automatic read, if there is one.
LEMMA AutoReadKeeps ==
    ASSUME QueueInv, queue' \in {queue, AutoRead}, tag' = tag, Honest' = Honest
    PROVE  QueueInv'
<1>1. Idle(Op("read", None, None, 0))
  BY OpIsIdle DEF Kinds
<1> QED  BY <1>1, QueueAppend, QueueStays DEF AutoRead

\* What lies on a tag that is lifted while it is written: the head still knows
\* what it wrote before.
LEMMA TearKeeps ==
    ASSUME Sound, queue # <<>>, Head1.pc = "data", Honest' = Honest,
           NEW c \in Content,
           tag' = [tag EXCEPT ![Head1.tag].mem[Head1.todo] = c]
    PROVE  /\ tag' \in [Tags -> Memory] /\ TagsInv'
           /\ \A q : q = Head1 => Inspected(q)'
           /\ \A t \in Tags : /\ tag'[t].cc = tag[t].cc /\ tag'[t].size = tag[t].size
                              /\ tag'[t].spoilt = tag[t].spoilt
                              /\ tag'[t].locked = tag[t].locked
                              /\ \A i \in Regions : (t # Head1.tag \/ i # Head1.todo) =>
                                    tag'[t].mem[i] = tag[t].mem[i]
           /\ Head1.todo \in Regions /\ tag'[Head1.tag].mem[Head1.todo] = c
<1> DEFINE x == Head1.tag
           k == Head1.todo
<1>1. Head1 \in Queued /\ Inspected(Head1) /\ Edit(Head1)
  BY HeadOfQueue DEF Sound, Inspected
<1>2. x \in Tags /\ k \in Regions /\ tag \in [Tags -> Memory]
  BY <1>1 DEF Edit, Queued, Sound, TypeOK, Regions
<1>3. tag[x] \in Memory /\ tag[x].mem \in [Regions -> Content]
  BY <1>2 DEF Memory
<1>4. tag' = [tag EXCEPT ![x] = [tag[x] EXCEPT !.mem = [tag[x].mem EXCEPT ![k] = c]]]
  BY <1>2
<1>5. [tag[x].mem EXCEPT ![k] = c] \in [Regions -> Content]
  BY <1>3
<1>6. [tag[x] EXCEPT !.mem = [tag[x].mem EXCEPT ![k] = c]] \in Memory
  BY <1>3, <1>5 DEF Memory
<1>7. tag' \in [Tags -> Memory]
  BY <1>2, <1>4, <1>6
<1>8. \A t \in Tags : /\ tag'[t].cc = tag[t].cc /\ tag'[t].size = tag[t].size
                      /\ tag'[t].spoilt = tag[t].spoilt /\ tag'[t].locked = tag[t].locked
                      /\ \A i \in Regions : (t # x \/ i # k) => tag'[t].mem[i] = tag[t].mem[i]
  <2>1. ASSUME NEW t \in Tags, t = x
        PROVE  /\ tag'[t].cc = tag[t].cc /\ tag'[t].size = tag[t].size
               /\ tag'[t].spoilt = tag[t].spoilt /\ tag'[t].locked = tag[t].locked
               /\ tag'[t].mem = [tag[t].mem EXCEPT ![k] = c]
    BY <1>2, <1>3, <1>4, <2>1 DEF Memory
  <2>2. ASSUME NEW t \in Tags, t # x PROVE tag'[t] = tag[t]
    BY <1>2, <1>4, <2>2
  <2> QED  BY <1>3, <2>1, <2>2
<1>9. ASSUME NEW q, q = Head1 PROVE Inspected(q)'
  <2>1. q.pc = "data" /\ Edit(q) /\ Inspected(q) /\ q.todo = k /\ q.tag = x
    BY <1>1, <1>9
  <2>2. \A i \in Regions : i < k => (Has(q, i) => Has(q, i)')
    BY <1>2, <1>8, <2>1 DEF Has, Regions
  <2>3. Edit(q)'
    BY <1>2, <1>8, <2>1, <2>2 DEF Edit
  <2> QED  BY <2>1, <2>3 DEF Inspected
<1>10. tag'[x].mem[k] = c
  BY <1>2, <1>3, <1>4 DEF Memory
<1> QED  BY <1>2, <1>7, <1>8, <1>9, <1>10 DEF TagsInv, Sound

LEMMA QueueIsTyped ==
    ASSUME QueueInv
    PROVE  /\ queue \in Seq(Queued)
           /\ \A i \in DOMAIN queue : (i > 1 => queue[i].pc = "queued")
BY DEF QueueInv

LEMMA UserKeepsSound ==
    ASSUME Sound, User, play' \in Play, Honest' = Honest
    PROVE  Sound'
<1> USE DEF Sound
<1>1. PICK r \in Readers : Lift(r) \/ Phantom(r) \/ Unplug(r) \/ Plug(r) \/ \E t \in Tags : Place(r, t)
  BY DEF User
<1>2. \A p \in BOOLEAN : Reported(r, p) \in [Readers -> Seq(BOOLEAN)]
  BY DEF TypeOK, Reported
<1>3. CASE Lift(r)
  <2>2. CASE tag' = tag
    <3>1. \A q : (q = Head1 /\ queue # <<>>) => Inspected(q)'
      BY <2>2, HeadOfQueue, InspectedStays
    <3>2. QueueInv'
      BY <1>3, <3>1, QueueUnlinked DEF Lift
    <3>3. TypeOK' /\ ReadersInv'
      BY <1>2, <1>3, <2>2, <3>2, QueueIsTyped DEF Lift, TypeOK, QueueInv, ReadersInv, Reported
    <3> QED  BY <2>2, <3>2, <3>3 DEF TagsInv
  <2>3. CASE tag' # tag
    <3>1. queue # <<>> /\ Head1.pc = "data" /\ on[r] = Head1.tag
          /\ tag' = [tag EXCEPT ![Head1.tag].mem[Head1.todo] = Torn]
      BY <1>3, <2>3 DEF Lift, Running
    <3>2. Torn \in Content
      BY DEF Content
    <3>3. tag' \in [Tags -> Memory] /\ TagsInv' /\ \A q : q = Head1 => Inspected(q)'
      BY <3>1, <3>2, TearKeeps
    <3>4. QueueInv'
      BY <1>3, <3>3, QueueUnlinked DEF Lift
    <3>5. TypeOK' /\ ReadersInv'
      BY <1>2, <1>3, <3>3, <3>4, QueueIsTyped DEF Lift, TypeOK, QueueInv, ReadersInv, Reported
    <3> QED  BY <3>3, <3>4, <3>5
  <2> QED  BY <2>2, <2>3
<1>4. CASE Phantom(r)
  <2>1. QueueInv'
    BY <1>4, QueueStays DEF Phantom
  <2> QED  BY <1>2, <1>4, <2>1 DEF Phantom, Reported, TypeOK, QueueInv, TagsInv, ReadersInv
<1>5. CASE Unplug(r)
  <2>1. \A q : (q = Head1 /\ queue # <<>>) => Inspected(q)'
    BY <1>5, HeadOfQueue, InspectedStays DEF Unplug
  <2>2. QueueInv'
    BY <1>5, <2>1, QueueUnlinked DEF Unplug
  <2>3. <<>> \in Seq(BOOLEAN)
    OBVIOUS
  <2> QED  BY <1>5, <2>2, <2>3 DEF Unplug, TypeOK, QueueInv, TagsInv, ReadersInv, Shows, Forget
<1>6. CASE Plug(r)
  <2>1. QueueInv'
    BY <1>6, QueueStays DEF Plug
  <2> QED  BY <1>2, <1>6, <2>1 DEF Plug, Reported, TypeOK, QueueInv, TagsInv, ReadersInv
<1>7. ASSUME NEW t \in Tags, Place(r, t) PROVE Sound'
  <2>1. QueueInv'
    BY <1>7, QueueStays DEF Place
  <2> QED  BY <1>2, <1>7, <2>1 DEF Place, Reported, TypeOK, QueueInv, TagsInv, ReadersInv
<1> QED  BY <1>1, <1>3, <1>4, <1>5, <1>6, <1>7

LEMMA PresenceKeepsSound ==
    ASSUME Sound, Presence, play' \in Play, Honest' = Honest
    PROVE  Sound'
<1> USE DEF Sound
<1>1. ASSUME NEW r \in Readers, Status(r) PROVE Sound'
  <2>1. QueueInv'
    BY <1>1, AutoReadKeeps DEF Status
  <2>2. events' \in [Readers -> Seq(BOOLEAN)] /\ Head(events[r]) \in BOOLEAN
    <3>1. events[r] \in Seq(BOOLEAN) /\ events[r] # <<>>
      BY <1>1 DEF Status, TypeOK
    <3>2. Head(events[r]) \in BOOLEAN /\ Tail(events[r]) \in Seq(BOOLEAN)
      BY <3>1, HeadTailProperties
    <3> QED  BY <1>1, <3>2 DEF Status, TypeOK
  <2>3. tagPresent' \in BOOLEAN /\ label' \in Payloads \cup {None} /\ checkAt' \in BOOLEAN
        /\ cooling' \in BOOLEAN
    BY <1>1, <2>2 DEF Status, Shows, TypeOK
  <2>4. r \in plugged => fresh' \subseteq plugged /\ present' \subseteq plugged
    BY <1>1, <2>2 DEF Status, TypeOK
  <2>5. r \in plugged
    BY <1>1 DEF Status, ReadersInv
  <2> QED  BY <1>1, <2>1, <2>2, <2>3, <2>4, <2>5 DEF Status, TypeOK, QueueInv, TagsInv, ReadersInv
<1>2. CASE CoolDown
  <2>1. QueueInv'
    BY <1>2, QueueStays DEF CoolDown
  <2> QED  BY <1>2, <2>1 DEF CoolDown, TypeOK, QueueInv, TagsInv, ReadersInv
<1>3. CASE CheckPresence
  <2>1. QueueInv'
    BY <1>3, AutoReadKeeps DEF CheckPresence
  <2> QED  BY <1>3, <2>1 DEF CheckPresence, TypeOK, QueueInv, TagsInv, ReadersInv
<1> QED  BY <1>1, <1>2, <1>3 DEF Presence

CallsTyped ==
    /\ call \in [Calls -> {"idle", "waiting", "ok", "error", "timeout"}]
    /\ label \in Payloads \cup {None}
    /\ backs \in Nat

LEMMA EndsKeeps ==
    ASSUME Sound, queue # <<>>, NEW a \in {"ok", "error"}, Ends(a)
    PROVE  QueueInv' /\ CallsTyped'
<1>1. Head1 \in Queued /\ QueueInv /\ CallsTyped
  BY HeadOfQueue DEF Sound, TypeOK, CallsTyped
<1>2. QueueInv'
  BY <1>1, QueueTail DEF Ends
<1>3. Head1.payload \in Payloads \cup {None} /\ Head1.call \in Calls \cup {None}
  BY <1>1 DEF Queued
<1>4. CallsTyped'
  <2>1. CASE Waits(Head1)
    <3>1. Head1.call \in Calls /\ call' = [call EXCEPT ![Head1.call] = a]
      BY <1>3, <2>1 DEF Ends, Waits
    <3>2. label' \in Payloads \cup {None}
      BY <1>1, <1>3, <2>1 DEF Ends, CallsTyped
    <3>3. backs' \in Nat
      BY <1>1, <2>1 DEF Ends, CallsTyped
    <3> QED  BY <1>1, <3>1, <3>2, <3>3 DEF CallsTyped
  <2>2. CASE ~Waits(Head1)
    BY <1>1, <2>2 DEF Ends, CallsTyped
  <2> QED  BY <2>1, <2>2
<1> QED  BY <1>2, <1>4

LEMMA GoesKeeps ==
    ASSUME Sound, queue # <<>>, NEW op \in Queued, Inspected(op)', Goes(op)
    PROVE  QueueInv' /\ CallsTyped'
<1>1. QueueInv'
  BY QueueGoes DEF Sound, Goes
<1>2. CallsTyped'
  BY DEF Sound, Goes, TypeOK, CallsTyped
<1> QED  BY <1>1, <1>2

\* What a step of the queue must show.
LEMMA ServiceTyped ==
    ASSUME Sound, play' \in Play, tag' \in [Tags -> Memory], TagsInv', QueueInv', CallsTyped',
           matching' \in Payloads \cup {None}, UNCHANGED reader
    PROVE  Sound'
BY QueueIsTyped DEF Sound, TypeOK, CallsTyped, ReadersInv, reader, QueueInv

LEMMA CallersKeepSound ==
    ASSUME Sound, Callers, play' \in Play, Honest' = Honest
    PROVE  Sound'
<1>1. CallsTyped /\ QueueInv /\ tag \in [Tags -> Memory] /\ TagsInv
      /\ matching \in Payloads \cup {None}
  BY DEF Sound, CallsTyped, TypeOK
<1>2. ASSUME NEW c \in Calls, Asks(c) PROVE Sound'
  <2>1. ASSUME NEW op, Idle(op), Ask(c, op) PROVE Sound'
    <3>1. QueueInv'
      BY <1>1, <2>1, QueueAppend DEF Ask
    <3>2. CallsTyped'
      BY <1>1, <2>1 DEF Ask, CallsTyped
    <3>3. tag' = tag /\ matching' = matching /\ UNCHANGED reader
      BY <2>1 DEF Ask
    <3>4. TagsInv'
      BY <1>1, <3>3 DEF TagsInv
    <3> QED  BY <1>1, <3>1, <3>2, <3>3, <3>4, ServiceTyped
  <2>2. ASSUME NEW p \in Payloads, NEW hint \in 0..3 PROVE Idle(Op("write", c, p, hint))
    BY OpIsIdle DEF Kinds
  <2>3. ASSUME NEW k \in Kinds \ {"write"} PROVE Idle(Op(k, c, None, 0))
    BY OpIsIdle
  <2> QED  BY <1>2, <2>1, <2>2, <2>3 DEF Asks
<1>3. ASSUME NEW c \in Calls, Timeout(c) PROVE Sound'
  <2>1. QueueInv'
    BY <1>1, <1>3, QueueStays DEF Timeout
  <2>2. CallsTyped'
    BY <1>1, <1>3 DEF Timeout, CallsTyped
  <2>3. tag' = tag /\ matching' = matching /\ UNCHANGED reader
    BY <1>3 DEF Timeout
  <2>4. TagsInv'
    BY <1>1, <2>3 DEF TagsInv
  <2> QED  BY <1>1, <2>1, <2>2, <2>3, <2>4, ServiceTyped
<1>4. CASE ReadBack
  <2>1. Idle(Op("read", None, None, 0))
    BY OpIsIdle DEF Kinds
  <2>2. QueueInv'
    BY <1>1, <1>4, <2>1, QueueAppend DEF ReadBack
  <2>3. CallsTyped'
    BY <1>1, <1>4 DEF ReadBack, CallsTyped
  <2>4. tag' = tag /\ matching' = matching /\ UNCHANGED reader
    BY <1>4 DEF ReadBack
  <2>5. TagsInv'
    BY <1>1, <2>4 DEF TagsInv
  <2> QED  BY <1>1, <2>2, <2>3, <2>4, <2>5, ServiceTyped
<1>5. CASE Match
  <2>1. QueueInv'
    BY <1>1, <1>5, QueueStays DEF Match
  <2>2. CallsTyped'
    BY <1>1, <1>5 DEF Match, CallsTyped
  <2>3. tag' = tag /\ matching' \in Payloads \cup {None} /\ UNCHANGED reader
    BY <1>5 DEF Match
  <2>4. TagsInv'
    BY <1>1, <2>3 DEF TagsInv
  <2> QED  BY <1>1, <2>1, <2>2, <2>3, <2>4, ServiceTyped
<1> QED  BY <1>2, <1>3, <1>4, <1>5 DEF Callers

-----------------------------------------------------------------------------
(* Steps of the operation at the head of the queue.                        *)

\* A step that leaves the tags alone.
LEMMA LooksOnly ==
    ASSUME Sound, queue # <<>>, play' \in Play, tag' = tag, UNCHANGED reader,
           matching' \in Payloads \cup {None},
           \/ \E a \in {"ok", "error"} : Ends(a)
           \/ \E op \in Queued : Inspected(op)' /\ Goes(op)
    PROVE  Sound'
<1>1. QueueInv' /\ CallsTyped'
  BY EndsKeeps, GoesKeeps
<1>2. tag' \in [Tags -> Memory] /\ TagsInv'
  BY DEF Sound, TypeOK, TagsInv
<1> QED  BY <1>1, <1>2, ServiceTyped

LEMMA SendsTyped ==
    ASSUME Sound, NEW t, Sends(t)
    PROVE  matching' \in Payloads \cup {None}
BY DEF Sends, Sound, TypeOK

LEMMA BeginKeeps ==
    ASSUME Sound, Begin, play' \in Play, Honest' = Honest
    PROVE  Sound'
<1>1. Head1 \in Queued /\ Inspected(Head1) /\ queue # <<>> /\ Head1.pc = "queued"
  BY HeadOfQueue DEF Sound, Begin, Running
<1>2. tag' = tag /\ UNCHANGED reader /\ matching' \in Payloads \cup {None}
  BY DEF Begin, Sound, TypeOK
<1>3. CASE GivenUp(Head1)
  BY <1>1, <1>2, <1>3, LooksOnly DEF Begin
<1>4. CASE ~GivenUp(Head1)
  <2> DEFINE next == [Head1 EXCEPT !.pc = IF Head1.kind = "write" THEN "probe" ELSE "bambu",
                                   !.late = Head1.call # None /\ call[Head1.call] = "timeout"]
  <2>1. (Head1.call # None /\ call[Head1.call] = "timeout") = FALSE
    BY <1>4 DEF GivenUp
  <2>2. PICK op : op = next
    OBVIOUS
  <2>3. /\ op \in Queued /\ op.kind = Head1.kind /\ op.payload = Head1.payload /\ op.late = FALSE
        /\ op.ntag = Head1.ntag
        /\ op.pc = IF Head1.kind = "write" THEN "probe" ELSE "bambu"
    BY <1>1, <2>1, <2>2 DEF Queued
  <2> HIDE DEF next
  <2>4. Inspected(op)'
    <3>1. \/ op.pc = "probe"
          \/ op.pc = "bambu" /\ op.kind # "write"
      BY <2>3
    <3>2. (op.kind = "write" => op.payload \in Payloads) /\ op.ntag = FALSE
      BY <1>1, <2>3 DEF Inspected, Unopened
    <3> QED  BY <2>3, <3>1, <3>2 DEF Inspected
  <2>5. Goes(op)
    BY <1>4, <2>2 DEF Begin, next
  <2> QED  BY <1>1, <1>2, <2>3, <2>4, <2>5, LooksOnly
<1> QED  BY <1>3, <1>4

\* A step to a phase in which nothing is known of a tag.
LEMMA Moves ==
    ASSUME Sound, queue # <<>>, NEW pc \in {"probe", "ntag", "slix2", "notag"},
           pc = "notag" \/ Head1.pc \in Unopened,
           pc = "ntag" => Head1.kind \in {"write", "erase"}, NEW op, op = [Head1 EXCEPT !.pc = pc]
    PROVE  op \in Queued /\ Inspected(op)'
<1>1. Head1 \in Queued /\ Inspected(Head1)
  BY HeadOfQueue DEF Sound
<1>2. op \in Queued /\ op.kind = Head1.kind /\ op.payload = Head1.payload /\ op.late = Head1.late
      /\ op.pc = pc /\ op.ntag = Head1.ntag
  BY <1>1 DEF Queued
<1>3. op.pc \notin {"bambu", "cc", "data", "verify", "flip"}
  BY <1>2
<1>4. op.late = FALSE /\ (op.kind = "write" => op.payload \in Payloads)
      /\ (op.pc = "ntag" => op.kind \in {"write", "erase"})
      /\ (op.pc \in Unopened => op.ntag = FALSE)
  BY <1>1, <1>2 DEF Inspected, Unopened
<1> QED  BY <1>2, <1>3, <1>4 DEF Inspected

LEMMA NoTagKeeps ==
    ASSUME Sound, NoTag, play' \in Play
    PROVE  Sound'
<1>1. queue # <<>> /\ tag' = tag /\ UNCHANGED reader /\ matching' \in Payloads \cup {None}
  BY DEF NoTag, Same, Sound, TypeOK
<1>2. PICK op : op = [Head1 EXCEPT !.pc = "notag"]
  OBVIOUS
<1>3. op \in Queued /\ Inspected(op)' /\ Goes(op)
  BY <1>1, <1>2, Moves DEF NoTag
<1> QED  BY <1>1, <1>3, LooksOnly

LEMMA CannotConnectKeeps ==
    ASSUME Sound, CannotConnect, play' \in Play
    PROVE  Sound'
<1>1. queue # <<>> /\ tag' = tag /\ matching' = matching
  BY DEF CannotConnect, Running
<1>2. QueueInv' /\ CallsTyped' /\ tagPresent' \in BOOLEAN
  <2>1. CASE Ends("error") /\ tagPresent' = tagPresent
    BY <1>1, <2>1, EndsKeeps DEF Sound, TypeOK
  <2>2. CASE queue' = Tail(queue) /\ Shows(FALSE) /\ UNCHANGED <<call, backs>>
    <3>1. QueueInv'
      BY <1>1, <2>2, QueueTail DEF Sound
    <3> QED  BY <2>2, <3>1 DEF Sound, TypeOK, CallsTyped, Shows
  <2> QED  BY <2>1, <2>2 DEF CannotConnect
<1>3. TagsInv'
  BY <1>1 DEF Sound, TagsInv
<1> QED
  BY <1>1, <1>2, <1>3, QueueIsTyped
  DEF CannotConnect, Sound, TypeOK, CallsTyped, ReadersInv, QueueInv

LEMMA BambuCheckKeeps ==
    ASSUME Sound, BambuCheck, play' \in Play
    PROVE  Sound'
<1>1. queue # <<>> /\ tag' = tag /\ UNCHANGED reader /\ matching' \in Payloads \cup {None}
      /\ Head1.pc = "bambu"
  BY SendsTyped DEF BambuCheck, Running, Sound, TypeOK
<1>2. PICK op : op = [Head1 EXCEPT !.pc = "probe"]
  OBVIOUS
<1>3. op \in Queued /\ Inspected(op)'
  BY <1>1, <1>2, Moves DEF Unopened
<1>4. CASE Goes([Head1 EXCEPT !.pc = "probe"])
  BY <1>1, <1>2, <1>3, <1>4, LooksOnly
<1>5. CASE \E a \in {"ok", "error"} : Ends(a)
  BY <1>1, <1>5, LooksOnly
<1> QED  BY <1>4, <1>5 DEF BambuCheck

LEMMA ProbeKeeps ==
    ASSUME Sound, Probe, play' \in Play
    PROVE  Sound'
<1>1. queue # <<>> /\ tag' = tag /\ UNCHANGED reader /\ Head1.pc = "probe"
  BY DEF Probe, Running
<1>2. Head1 \in Queued /\ Inspected(Head1)
  BY <1>1, HeadOfQueue DEF Sound
<1>3. matching' \in Payloads \cup {None}
  BY SendsTyped DEF Probe, Sound, TypeOK
<1>4. CASE \E a \in {"ok", "error"} : Ends(a)
  BY <1>1, <1>3, <1>4, LooksOnly
<1>5. ASSUME ~\E a \in {"ok", "error"} : Ends(a) PROVE Sound'
  <2>1. PICK ntag \in BOOLEAN :
            /\ ~Misplaced(Head1, ntag) /\ ~(Head1.kind = "read" /\ ntag)
            /\ Goes([Head1 EXCEPT !.pc = IF ntag THEN "ntag" ELSE "slix2"])
    BY <1>5 DEF Probe
  <2>2. PICK pc \in {"ntag", "slix2"} : pc = IF ntag THEN "ntag" ELSE "slix2"
    BY <2>1
  <2>3. pc = "ntag" => Head1.kind \in {"write", "erase"}
    BY <1>2, <2>1, <2>2 DEF Misplaced, Queued, Kinds
  <2>4. PICK op : op = [Head1 EXCEPT !.pc = pc]
    OBVIOUS
  <2>5. op \in Queued /\ Inspected(op)'
    BY <1>1, <2>2, <2>3, <2>4, Moves DEF Unopened
  <2>6. Goes(op)
    BY <2>1, <2>2, <2>4
  <2> QED  BY <1>1, <1>3, <2>5, <2>6, LooksOnly
<1> QED  BY <1>4, <1>5

LEMMA VerifyKeeps ==
    ASSUME Sound, Verify, play' \in Play
    PROVE  Sound'
<1>1. queue # <<>> /\ tag' = tag /\ UNCHANGED reader /\ matching' \in Payloads \cup {None}
  BY DEF Verify, Running, Same, Sound, TypeOK
<1>2. \E a \in {"ok", "error"} : Ends(a)
  BY DEF Verify
<1> QED  BY <1>1, <1>2, LooksOnly

\* The memory that is there is at least one region.
LEMMA ExtentIsSome ==
    ASSUME NEW t \in Tags
    PROVE  Extent[t] \in 1..3 /\ (Chip[t] = "slix2" => Extent[t] = 2)
           /\ (Chip[t] = "bambu" => ~IsNtag(t)) /\ (~IsNtag(t) => Chip[t] \in {"slix2", "bambu"})
<1>1. Chip[t] \in Chips
  BY NfcAssumption
<1> QED  BY <1>1 DEF Extent, IsNtag, Chips

\* The operation with its connection to a tag; that to an NTAG.
Opened(q, t, n, pc) == [q EXCEPT !.tag = t, !.link = TRUE, !.size = n, !.todo = 1, !.pc = pc]
OpenedNtag(q, t, n, pc) ==
    [q EXCEPT !.tag = t, !.link = TRUE, !.ntag = TRUE, !.size = n, !.todo = 1, !.pc = pc]

LEMMA FieldsOfQueued ==
    ASSUME NEW q \in Queued
    PROVE  DOMAIN q = {"kind", "call", "payload", "hint", "pc", "late", "tag", "link", "ntag",
                       "size", "todo"}
BY DEF Queued

LEMMA OpenedQueued ==
    ASSUME NEW q \in Queued, NEW t \in Tags, NEW n \in 1..3, NEW pc \in {"cc", "data", "flip"}
    PROVE  Opened(q, t, n, pc) \in Queued /\ OpenedNtag(q, t, n, pc) \in Queued
<1>1. PICK a : a = [q EXCEPT !.tag = t, !.link = TRUE]
  OBVIOUS
<1>2. a \in Queued
  BY <1>1 DEF Queued
<1>3. PICK b : b = [a EXCEPT !.size = n]
  OBVIOUS
<1>4. b \in Queued
  BY <1>2, <1>3 DEF Queued
<1>5. PICK d : d = [b EXCEPT !.todo = 1]
  OBVIOUS
<1>6. d \in Queued
  BY <1>4, <1>5 DEF Queued
<1>7. PICK e : e = [d EXCEPT !.pc = pc]
  OBVIOUS
<1>8. e \in Queued
  BY <1>6, <1>7 DEF Queued
<1>9. e = Opened(q, t, n, pc)
  BY <1>1, <1>3, <1>5, <1>7 DEF Opened
<1>10. OpenedNtag(q, t, n, pc) = [e EXCEPT !.ntag = TRUE]
  BY <1>9 DEF Opened, OpenedNtag
<1>11. [e EXCEPT !.ntag = TRUE] \in Queued
  BY <1>8 DEF Queued
<1> QED  BY <1>8, <1>9, <1>10, <1>11

LEMMA OpenNtagKeeps ==
    ASSUME Sound, OpenNtag, play' \in Play, Honest' = Honest
    PROVE  Sound'
<1>1. queue # <<>> /\ tag' = tag /\ UNCHANGED reader /\ matching' \in Payloads \cup {None}
      /\ Head1.pc = "ntag"
  BY DEF OpenNtag, Running, Same, Sound, TypeOK
<1>2. Head1 \in Queued /\ Inspected(Head1)
  BY <1>1, HeadOfQueue DEF Sound
<1>3. CASE \E a \in {"ok", "error"} : Ends(a)
  BY <1>1, <1>3, LooksOnly
<1>4. ASSUME ~\E a \in {"ok", "error"} : Ends(a) PROVE Sound'
  <2>1. PICK t \in Reachable, version \in {0, 1, 2, 3} :
          /\ version \in {0, Extent[t]} /\ (~IsNtag(t) => version = 0)
          /\ LET w == WriteSize(tag[t], version, Head1.hint)
                 n == IF Head1.kind = "write" THEN w.ndef ELSE EraseSize(t, version)
                 fits == Head1.kind = "write" =>
                            Len1[Head1.payload] <= n /\ Proven(t, n, Head1.payload)
             IN \/ /\ ~IsNtag(t) \/ Refuses(tag[t]) \/ n = 0 \/ ~fits
                   /\ Ends("error") /\ UNCHANGED play
                \/ Ends("error") /\ Glitch
                \/ /\ IsNtag(t) /\ ~Refuses(tag[t]) /\ n # 0 /\ fits
                   /\ Goes([Head1 EXCEPT !.tag = t, !.link = TRUE, !.ntag = TRUE, !.size = n, !.todo = 1,
                              !.pc = IF Head1.kind = "erase" \/ w.format THEN "cc" ELSE "data"])
                   /\ UNCHANGED play
    BY DEF OpenNtag
  <2>2. PICK w : w = WriteSize(tag[t], version, Head1.hint)
    OBVIOUS
  <2>3. PICK n : n = IF Head1.kind = "write" THEN w.ndef ELSE EraseSize(t, version)
    OBVIOUS
  <2>4. PICK pc : pc = IF Head1.kind = "erase" \/ w.format THEN "cc" ELSE "data"
    OBVIOUS
  <2>5. PICK op : op = OpenedNtag(Head1, t, n, pc)
    OBVIOUS
  <2>a. /\ IsNtag(t) /\ ~Refuses(tag[t]) /\ n # 0
        /\ Head1.kind = "write" => Len1[Head1.payload] <= n /\ Proven(t, n, Head1.payload)
        /\ Goes(op)
    BY <1>4, <2>1, <2>2, <2>3, <2>4, <2>5 DEF OpenedNtag
  <2>6. t \in Tags /\ tag[t] \in Memory /\ tag[t].size \in 0..3
    <3>1. t \in Tags
      BY <2>1 DEF Reachable, Sound, TypeOK
    <3> QED  BY <3>1 DEF Sound, TypeOK, Memory
  <2>7. Extent[t] \in 1..3 /\ Chip[t] # "bambu" /\ Chip[t] # "slix2"
    BY <2>a, <2>6, ExtentIsSome DEF IsNtag
  <2>8. Head1.kind \in {"write", "erase"} /\ Head1.hint \in 0..3
        /\ (Head1.kind = "write" => Len1[Head1.payload] \in {1, 2})
    BY <1>1, <1>2, NfcAssumption DEF Inspected, Queued
  <2>9. n \in 1..3 /\ (Honest \/ Head1.kind = "erase" => n <= Extent[t])
        /\ (Head1.kind = "write" => Len1[Head1.payload] <= n)
    <3>1. w.ndef \in 0..3 /\ EraseSize(t, version) \in 0..3 /\ EraseSize(t, version) <= Extent[t]
      BY <2>1, <2>2, <2>6, <2>7, <2>8 DEF WriteSize, EraseSize, Least
    <3>2. n # 0 /\ (Head1.kind = "write" => Len1[Head1.payload] <= n /\ Proven(t, n, Head1.payload))
      BY <2>a
    <3>3. n \in 1..3
      BY <2>3, <3>1, <3>2
    <3>4. (Honest /\ Head1.kind = "write") => n <= Extent[t]
      BY <2>7, <3>2, <3>3 DEF Proven, Honest
    <3> QED  BY <2>3, <2>8, <3>1, <3>2, <3>3, <3>4
  <2>10. pc = "data" => Head1.kind = "write" /\ tag[t].cc = "ndef" /\ n <= tag[t].size
    <3> SUFFICES ASSUME pc = "data" PROVE Head1.kind = "write" /\ tag[t].cc = "ndef" /\ n <= tag[t].size
      OBVIOUS
    <3>1. tag[t].cc \in {"blank", "ndef"} /\ n # 0
      BY <2>a, <2>6 DEF Refuses, Memory
    <3>2. Head1.kind = "write" /\ n = w.ndef /\ w.format = FALSE
      <4>1. w.format \in BOOLEAN
        BY <2>1, <2>2, <2>8 DEF WriteSize
      <4> QED  BY <2>3, <2>4, <2>8, <4>1
    <3>3. CASE version # 0
      <4>1. w.ndef = version /\ w.format = (tag[t].cc = "blank" \/ tag[t].size # version)
        BY <2>2, <3>3 DEF WriteSize
      <4>2. ~(tag[t].cc = "blank" \/ tag[t].size # version)
        BY <3>2, <4>1
      <4> QED  BY <2>6, <3>1, <3>2, <4>1, <4>2
    <3>4. CASE version = 0 /\ Head1.hint # 0
      <4>1. w = [ndef |-> Head1.hint, format |-> TRUE]
        BY <2>2, <3>4 DEF WriteSize
      <4> QED  BY <3>2, <4>1
    <3>5. CASE version = 0 /\ Head1.hint = 0
      <4>1. w = [ndef |-> IF tag[t].cc = "blank" THEN 0 ELSE Least(tag[t].size, 1), format |-> FALSE]
        BY <2>2, <3>5 DEF WriteSize
      <4> QED  BY <2>6, <3>1, <3>2, <4>1 DEF Least
    <3> QED  BY <3>3, <3>4, <3>5
  <2>11. /\ op \in Queued /\ op.kind = Head1.kind /\ op.payload = Head1.payload
         /\ op.late = FALSE /\ op.tag = t /\ op.ntag = TRUE /\ op.size = n /\ op.todo = 1
         /\ op.pc = pc /\ pc \in {"cc", "data"}
    <3>1. pc \in {"cc", "data"} /\ Head1.late = FALSE
      BY <1>2, <2>4 DEF Inspected
    <3>2. PICK q \in Queued : q = Head1
      BY <1>2
    <3>3. /\ op \in Queued /\ op.kind = q.kind /\ op.payload = q.payload /\ op.late = q.late
          /\ op.tag = t /\ op.ntag = TRUE /\ op.size = n /\ op.todo = 1 /\ op.pc = pc
      <4>1. t \in Tags /\ n \in 1..3 /\ pc \in {"cc", "data", "flip"} /\ op = OpenedNtag(q, t, n, pc)
        BY <2>5, <2>6, <2>9, <3>1, <3>2
      <4>2. op \in Queued
        BY <4>1, OpenedQueued
      <4> QED  BY <4>1, <4>2, FieldsOfQueued DEF OpenedNtag
    <3> QED  BY <3>1, <3>2, <3>3
  <2>12. op.todo \in 1..LastRegion(op)
    BY <2>8, <2>9, <2>11 DEF LastRegion
  <2>13. tag[t].locked = FALSE /\ tag[t].cc # "foreign" /\ IsNtag(t) = TRUE
    BY <2>a, <2>6, <2>7 DEF Sound, TagsInv, Refuses, Memory
  <2>14. Edit(op)
    <3>1. \A i \in Regions : ~(i < op.todo)
      BY <2>11 DEF Regions
    <3>2. (op.ntag = IsNtag(op.tag)) /\ op.size \in 1..3 /\ op.ntag = TRUE
      BY <2>9, <2>11, <2>13
    <3>3. (Honest \/ op.kind = "erase") => op.size <= Extent[op.tag]
      BY <2>9, <2>11
    <3>4. op.pc = "data" => tag[op.tag].cc = "ndef" /\ tag[op.tag].locked = FALSE
            /\ op.kind = "write" /\ Len1[op.payload] <= tag[op.tag].size
      BY <2>6, <2>8, <2>9, <2>10, <2>11, <2>13
    <3> QED  BY <2>6, <2>7, <2>8, <2>9, <2>11, <2>12, <2>13, <3>1, <3>2, <3>3, <3>4 DEF Edit
  <2>15. Inspected(op)
    BY <1>2, <2>11, <2>14 DEF Inspected, Unopened
  <2>16. Inspected(op)'
    BY <1>1, <2>15, InspectedStays
  <2> QED  BY <1>1, <2>a, <2>11, <2>16, LooksOnly
<1> QED  BY <1>3, <1>4

LEMMA OpenSlix2Keeps ==
    ASSUME Sound, OpenSlix2, play' \in Play, Honest' = Honest
    PROVE  Sound'
<1>1. queue # <<>> /\ tag' = tag /\ UNCHANGED reader /\ Head1.pc = "slix2"
  BY DEF OpenSlix2, Running
<1>2. Head1 \in Queued /\ Inspected(Head1)
  BY <1>1, HeadOfQueue DEF Sound
<1>3. matching' \in Payloads \cup {None}
  BY SendsTyped DEF OpenSlix2, Sound, TypeOK
<1>4. CASE \E a \in {"ok", "error"} : Ends(a)
  BY <1>1, <1>3, <1>4, LooksOnly
<1>5. ASSUME ~\E a \in {"ok", "error"} : Ends(a) PROVE Sound'
  <2>1. PICK t \in Reachable :
          /\ Chip[t] = "slix2" /\ Head1.kind # "read"
          /\ Head1.kind \in {"write", "erase"} => ~Refuses(tag[t])
          /\ ~(Head1.kind = "write" /\ tag[t].locked)
          /\ Head1.kind \in {"lock", "unlock"} => Ours(tag[t])
          /\ Goes([Head1 EXCEPT !.tag = t, !.link = TRUE, !.size = 2, !.todo = 1,
                     !.pc = IF Head1.kind \in {"lock", "unlock"} THEN "flip" ELSE "cc"])
    BY <1>5 DEF OpenSlix2
  <2>2. PICK pc : pc = IF Head1.kind \in {"lock", "unlock"} THEN "flip" ELSE "cc"
    OBVIOUS
  <2>3. PICK op : op = Opened(Head1, t, 2, pc)
    OBVIOUS
  <2>4. t \in Tags
    BY <2>1 DEF Reachable, Sound, TypeOK
  <2>5. Extent[t] = 2 /\ IsNtag(t) = FALSE
    BY <2>1, <2>4, ExtentIsSome DEF IsNtag
  <2>6. Head1.kind \in {"write", "erase", "lock", "unlock"}
        /\ (Head1.kind = "write" => Len1[Head1.payload] \in {1, 2})
    BY <1>2, <2>1, NfcAssumption DEF Inspected, Queued, Kinds
  <2>7. /\ op \in Queued /\ op.kind = Head1.kind /\ op.payload = Head1.payload
        /\ op.late = FALSE /\ op.tag = t /\ op.size = 2 /\ op.todo = 1 /\ op.pc = pc
        /\ op.ntag = Head1.ntag /\ pc \in {"cc", "flip"}
    <3>1. pc \in {"cc", "flip"} /\ Head1.late = FALSE
      BY <1>2, <2>2 DEF Inspected
    <3>2. PICK q \in Queued : q = Head1
      BY <1>2
    <3>3. /\ op \in Queued /\ op.kind = q.kind /\ op.payload = q.payload /\ op.late = q.late
          /\ op.tag = t /\ op.size = 2 /\ op.todo = 1 /\ op.pc = pc /\ op.ntag = q.ntag
      <4>1. 2 \in 1..3 /\ pc \in {"cc", "data", "flip"} /\ op = Opened(q, t, 2, pc)
        BY <2>3, <3>1, <3>2
      <4>2. op \in Queued
        BY <2>4, <4>1, OpenedQueued
      <4> QED  BY <4>1, <4>2, FieldsOfQueued DEF Opened
    <3> QED  BY <3>1, <3>2, <3>3
  <2>8. Head1.ntag = FALSE
    BY <1>1, <1>2 DEF Inspected, Unopened
  <2>9. op.todo \in 1..LastRegion(op)
    BY <2>6, <2>7, <2>8 DEF LastRegion
  <2>10. pc = "cc" => Edit(op)
    <3>1. op.ntag = FALSE /\ IsNtag(op.tag) = FALSE
      BY <2>5, <2>7, <2>8
    <3>1a. op.size \in 1..3 /\ op.size <= Extent[op.tag]
      BY <2>5, <2>7
    <3>2. pc = "cc" => op.kind \in {"write", "erase"} /\ tag[op.tag].cc # "foreign"
                       /\ (tag[op.tag].locked => op.kind = "erase")
      BY <2>1, <2>2, <2>6, <2>7 DEF Refuses
    <3>3. Chip[op.tag] # "bambu" /\ op.tag \in Tags
      BY <2>1, <2>4, <2>7
    <3>4. op.kind = "write" => Len1[op.payload] <= op.size
      BY <2>6, <2>7
    <3> QED  BY <2>7, <2>9, <3>1, <3>1a, <3>2, <3>3, <3>4 DEF Edit
  <2>11. pc = "flip" => Lockable(op)
    BY <2>1, <2>2, <2>4, <2>7 DEF Lockable
  <2>12. Inspected(op)
    BY <1>2, <2>7, <2>10, <2>11 DEF Inspected, Unopened
  <2>13. Inspected(op)'
    BY <1>1, <2>12, InspectedStays
  <2>14. Goes(op)
    BY <2>1, <2>2, <2>3 DEF Opened
  <2> QED  BY <1>1, <1>3, <2>7, <2>13, <2>14, LooksOnly
<1> QED  BY <1>4, <1>5

\* What a step must show that changes a tag.
LEMMA WritesTag ==
    ASSUME Sound, queue # <<>>, play' \in Play, UNCHANGED reader, matching' = matching,
           tag' \in [Tags -> Memory], TagsInv',
           \/ \E a \in {"ok", "error"} : Ends(a)
           \/ \E op \in Queued : Inspected(op)' /\ Goes(op)
    PROVE  Sound'
<1>1. QueueInv' /\ CallsTyped'
  BY EndsKeeps, GoesKeeps
<1>2. matching' \in Payloads \cup {None}
  BY DEF Sound, TypeOK
<1> QED  BY <1>1, <1>2, ServiceTyped

LEMMA FlipKeeps ==
    ASSUME Sound, Flip, play' \in Play
    PROVE  Sound'
<1>1. queue # <<>> /\ Head1.pc = "flip" /\ UNCHANGED reader /\ matching' = matching
  BY DEF Flip, Running
<1>2. Head1 \in Queued /\ Inspected(Head1) /\ Lockable(Head1)
  BY <1>1, HeadOfQueue DEF Sound, Inspected
<1>3. tag \in [Tags -> Memory] /\ TagsInv
  BY DEF Sound, TypeOK
<1>4. \E a \in {"ok", "error"} : Ends(a)
  BY DEF Flip
<1>5. tag' \in [Tags -> Memory] /\ TagsInv'
  <2>1. CASE tag' = tag
    BY <1>3, <2>1 DEF TagsInv
  <2>2. CASE tag' # tag
    <3>1. PICK b \in BOOLEAN : b = (Head1.kind = "lock")
      OBVIOUS
    <3>2. PICK x \in Tags : x = Head1.tag /\ Chip[x] = "slix2"
      BY <1>2 DEF Lockable
    <3>3. tag' = [tag EXCEPT ![x] = [tag[x] EXCEPT !.locked = b]]
      BY <2>2, <3>1, <3>2 DEF Flip
    <3>4. [tag[x] EXCEPT !.locked = b] \in Memory
      BY <1>3 DEF Memory
    <3>5. \A t \in Tags : t # x => tag'[t] = tag[t]
      BY <1>3, <3>3
    <3> QED  BY <1>3, <3>2, <3>3, <3>4, <3>5 DEF TagsInv
  <2> QED  BY <2>1, <2>2
<1> QED  BY <1>1, <1>4, <1>5, WritesTag

LEMMA WriteCcKeeps ==
    ASSUME Sound, WriteCc, play' \in Play, Honest' = Honest
    PROVE  Sound'
<1>1. queue # <<>> /\ Head1.pc = "cc" /\ UNCHANGED reader /\ matching' = matching
  BY DEF WriteCc, Running
<1>2. Head1 \in Queued /\ Inspected(Head1) /\ Edit(Head1)
  BY <1>1, HeadOfQueue DEF Sound, Inspected
<1>3. tag \in [Tags -> Memory] /\ TagsInv
  BY DEF Sound, TypeOK
<1>4. CASE tag' = tag /\ Ends("error")
  BY <1>1, <1>3, <1>4, WritesTag DEF TagsInv
<1>5. CASE ~(tag' = tag /\ Ends("error"))
  <2>1. PICK q \in Queued : q = Head1
    BY <1>2
  <2>2. PICK x \in Tags : x = q.tag
    BY <1>2, <2>1 DEF Edit
  <2>3. tag' = [tag EXCEPT ![x] = [tag[x] EXCEPT !.cc = "ndef", !.size = q.size, !.locked = FALSE]]
    BY <1>5, <2>1, <2>2 DEF WriteCc
  <2>4. PICK op : op = [q EXCEPT !.pc = "data"]
    OBVIOUS
  <2>5. Goes(op)
    BY <1>5, <2>1, <2>4 DEF WriteCc
  <2>6. [tag[x] EXCEPT !.cc = "ndef", !.size = q.size, !.locked = FALSE] \in Memory
    <3>1. PICK m \in Memory : m = tag[x]
      BY <1>3
    <3>2. PICK k : k = [m EXCEPT !.cc = "ndef", !.size = q.size]
      OBVIOUS
    <3>3. k \in Memory
      BY <3>1, <3>2 DEF Memory, Queued
    <3>4. [k EXCEPT !.locked = FALSE] \in Memory
      BY <3>3 DEF Memory
    <3> QED  BY <3>1, <3>2, <3>4
  <2>7. tag' \in [Tags -> Memory] /\ \A t \in Tags : t # x => tag'[t] = tag[t]
    BY <1>3, <2>3, <2>6
  <2>8. tag'[x].cc = "ndef" /\ tag'[x].size = q.size /\ tag'[x].locked = FALSE
    BY <1>3, <2>3 DEF Memory
  <2>9. TagsInv'
    BY <1>3, <2>7, <2>8 DEF TagsInv
  <2>10. /\ op \in Queued /\ op.kind = q.kind /\ op.payload = q.payload /\ op.late = q.late
         /\ op.pc = "data" /\ op.ntag = q.ntag /\ op.tag = x /\ op.size = q.size /\ op.todo = q.todo
    BY <2>2, <2>4 DEF Queued
  <2>11. LastRegion(op) = LastRegion(q)
    BY <2>10 DEF LastRegion
  <2>12. Edit(q) /\ Inspected(q) /\ q.pc = "cc" /\ q.todo = 1
    BY <1>1, <1>2, <2>1 DEF Edit
  <2>13. \A i \in Regions : ~(i < op.todo)
    BY <2>10, <2>12 DEF Regions
  <2>14. Edit(op)'
    <3>1. /\ op.kind \in {"write", "erase"}
          /\ op.tag \in Tags /\ Chip[op.tag] # "bambu" /\ tag'[op.tag].cc = "ndef"
          /\ op.ntag = IsNtag(op.tag)
          /\ ~op.ntag => op.size = 2
          /\ (Honest' \/ op.kind = "erase") => op.size <= Extent[op.tag]
          /\ op.kind = "write" => Len1[op.payload] <= op.size
          /\ op.size \in 1..3
      BY <2>2, <2>8, <2>10, <2>12 DEF Edit
    <3>2. op.todo \in 1..LastRegion(op)
      BY <2>10, <2>11, <2>12 DEF Edit
    <3>3. tag'[op.tag].locked = FALSE /\ tag'[op.tag].size = op.size
      BY <2>8, <2>10
    <3> QED  BY <2>10, <2>13, <3>1, <3>2, <3>3 DEF Edit
  <2>15. Inspected(op)'
    BY <2>10, <2>12, <2>14 DEF Inspected, Unopened
  <2> QED  BY <1>1, <2>5, <2>7, <2>9, <2>10, <2>15, WritesTag
<1> QED  BY <1>4, <1>5

\* A write that fails may leave anything in its region.
LEMMA WriteFailsKeeps ==
    ASSUME Sound, WriteFails, play' \in Play, Honest' = Honest
    PROVE  Sound'
<1>1. queue # <<>> /\ Head1.pc = "data" /\ UNCHANGED reader /\ matching' = matching
  BY DEF WriteFails, Running
<1>2. \E a \in {"ok", "error"} : Ends(a)
  BY DEF WriteFails
<1>3. tag' \in [Tags -> Memory] /\ TagsInv'
  <2>1. CASE tag' = tag
    BY <2>1 DEF Sound, TypeOK, TagsInv
  <2>2. CASE tag' # tag
    <3>1. Head1 \in Queued /\ Inspected(Head1)
      BY <1>1, HeadOfQueue DEF Sound
    <3>2. PICK c \in {Torn, Piece(Head1)} : tag' = [tag EXCEPT ![Head1.tag].mem[Head1.todo] = c]
      BY <2>2 DEF WriteFails
    <3>3. c \in Content
      BY <3>1 DEF Content, Piece, Inspected
    <3> QED  BY <1>1, <3>2, <3>3, TearKeeps
  <2> QED  BY <2>1, <2>2
<1> QED  BY <1>1, <1>2, <1>3, WritesTag

\* Behind the memory of an NTAG nothing that was written before is lost.
LEMMA SpoilKeeps ==
    ASSUME Sound, queue # <<>>, Head1.pc = "data",
           tag' = [tag EXCEPT ![Head1.tag].spoilt = TRUE]
    PROVE  /\ tag' \in [Tags -> Memory] /\ TagsInv'
           /\ \A t \in Tags : /\ tag'[t].cc = tag[t].cc /\ tag'[t].size = tag[t].size
                              /\ tag'[t].locked = tag[t].locked /\ tag'[t].mem = tag[t].mem
<1>1. PICK x : x = Head1.tag
  OBVIOUS
<1>2. x \in Tags /\ tag \in [Tags -> Memory]
  BY <1>1, HeadOfQueue DEF Sound, Inspected, Edit, TypeOK
<1>3. tag' = [tag EXCEPT ![x] = [tag[x] EXCEPT !.spoilt = TRUE]]
  BY <1>1
<1>4. [tag[x] EXCEPT !.spoilt = TRUE] \in Memory
  BY <1>2 DEF Memory
<1>5. tag' \in [Tags -> Memory]
  BY <1>2, <1>3, <1>4
<1>6. ASSUME NEW t \in Tags
      PROVE  /\ tag'[t].cc = tag[t].cc /\ tag'[t].size = tag[t].size
             /\ tag'[t].locked = tag[t].locked /\ tag'[t].mem = tag[t].mem
  <2>1. CASE t = x
    BY <1>2, <1>3, <2>1 DEF Memory
  <2>2. CASE t # x
    BY <1>2, <1>3, <2>2
  <2> QED  BY <2>1, <2>2
<1> QED  BY <1>5, <1>6 DEF Sound, TagsInv

\* A region is written; unless it lies behind the memory, it is there.
LEMMA RegionWritten ==
    ASSUME Sound, WriteData, NEW q, q = Head1
    PROVE  /\ queue # <<>> /\ q \in Queued /\ Inspected(q) /\ Edit(q) /\ q.pc = "data"
           /\ tag' \in [Tags -> Memory] /\ TagsInv'
           /\ \A t \in Tags : /\ tag'[t].cc = tag[t].cc /\ tag'[t].size = tag[t].size
                              /\ tag'[t].locked = tag[t].locked
           /\ \A i \in Regions : (i < q.todo + 1 /\ (q.ntag => i <= Extent[q.tag])) => Has(q, i)'
           /\ q.todo \in Regions
<1>1. queue # <<>> /\ Head1.pc = "data"
  BY DEF WriteData, Running
<1>2. q \in Queued /\ Inspected(q) /\ Edit(q)
  BY <1>1, HeadOfQueue DEF Sound, Inspected
<1>3. q.tag \in Tags /\ (q.ntag = IsNtag(q.tag)) /\ q.todo \in Regions
      /\ (q.kind = "write" => q.payload \in Payloads)
  BY <1>2 DEF Edit, Queued, Regions, Inspected
<1>4. \A i \in Regions : (i < q.todo /\ (q.ntag => i <= Extent[q.tag])) => Has(q, i)
  BY <1>1, <1>2 DEF Edit
<1>5. CASE IsNtag(Head1.tag) /\ Head1.todo > Extent[Head1.tag]
  <2>1. tag' = [tag EXCEPT ![Head1.tag].spoilt = TRUE]
    BY <1>5 DEF WriteData
  <2>2. /\ tag' \in [Tags -> Memory] /\ TagsInv'
        /\ \A t \in Tags : /\ tag'[t].cc = tag[t].cc /\ tag'[t].size = tag[t].size
                           /\ tag'[t].locked = tag[t].locked /\ tag'[t].mem = tag[t].mem
    BY <1>1, <2>1, SpoilKeeps
  <2>3. Extent[q.tag] \in 1..3 /\ q.ntag = TRUE /\ q.todo > Extent[q.tag]
    BY <1>3, <1>5, ExtentIsSome
  <2>4. \A i \in Regions : (i < q.todo + 1 /\ (q.ntag => i <= Extent[q.tag])) => Has(q, i)'
    BY <1>3, <1>4, <2>2, <2>3 DEF Has, Regions
  <2> QED  BY <1>1, <1>2, <1>3, <2>2, <2>4
<1>6. CASE ~(IsNtag(Head1.tag) /\ Head1.todo > Extent[Head1.tag])
  <2>1. tag' = [tag EXCEPT ![Head1.tag].mem[Head1.todo] = Piece(q)]
    BY <1>6 DEF WriteData
  <2>2. Piece(q) \in Content
    BY <1>3 DEF Piece, Content
  <2>3. /\ tag' \in [Tags -> Memory] /\ TagsInv'
        /\ \A t \in Tags : /\ tag'[t].cc = tag[t].cc /\ tag'[t].size = tag[t].size
                           /\ tag'[t].locked = tag[t].locked
                           /\ \A i \in Regions : (t # q.tag \/ i # q.todo) =>
                                 tag'[t].mem[i] = tag[t].mem[i]
        /\ tag'[q.tag].mem[q.todo] = Piece(q)
    <3>1. Honest' = Honest
      BY DEF WriteData, Honest
    <3>2. PICK c \in Content : c = Piece(q)
      BY <2>2
    <3> QED  BY <1>1, <2>1, <3>1, <3>2, TearKeeps
  <2>4. ASSUME NEW i \in Regions, i < q.todo + 1, q.ntag => i <= Extent[q.tag]
        PROVE  Has(q, i)'
    <3>1. CASE i = q.todo
      <4>1. tag'[q.tag].mem[i] = IF q.kind = "write" /\ i <= Len1[q.payload] THEN q.payload ELSE Zero
        BY <2>3, <3>1 DEF Piece
      <4> QED  BY <4>1 DEF Has
    <3>2. CASE i # q.todo
      <4>1. i < q.todo
        BY <1>3, <2>4, <3>2 DEF Regions
      <4>2. Has(q, i)
        BY <1>4, <2>4, <4>1
      <4> QED  BY <1>3, <2>3, <3>2, <4>2 DEF Has
    <3> QED  BY <3>1, <3>2
  <2> QED  BY <1>1, <1>2, <1>3, <2>3, <2>4
<1> QED  BY <1>5, <1>6

LEMMA WriteDataKeeps ==
    ASSUME Sound, WriteData, play' \in Play, Honest' = Honest
    PROVE  Sound'
<1>1. PICK q : q = Head1
  OBVIOUS
<1>2. /\ queue # <<>> /\ q \in Queued /\ Inspected(q) /\ Edit(q) /\ q.pc = "data"
      /\ tag' \in [Tags -> Memory] /\ TagsInv'
      /\ \A t \in Tags : /\ tag'[t].cc = tag[t].cc /\ tag'[t].size = tag[t].size
                         /\ tag'[t].locked = tag[t].locked
      /\ \A i \in Regions : (i < q.todo + 1 /\ (q.ntag => i <= Extent[q.tag])) => Has(q, i)'
      /\ q.todo \in Regions
  BY <1>1, RegionWritten
<1>3. UNCHANGED reader /\ matching' = matching
  BY DEF WriteData
<1>4. q.kind = "write" => Len1[q.payload] \in {1, 2}
  BY <1>2, NfcAssumption DEF Inspected
<1>5. LastRegion(q) \in Regions
  BY <1>2, <1>4 DEF LastRegion, Regions, Edit
<1>6. CASE \E a \in {"ok", "error"} : Ends(a)
  BY <1>2, <1>3, <1>6, WritesTag
<1>7. CASE q.todo < LastRegion(q)
  <2>1. PICK op : op = [q EXCEPT !.todo = q.todo + 1]
    OBVIOUS
  <2>2. Goes(op)
    BY <1>1, <1>7, <2>1 DEF WriteData
  <2>3. q.todo + 1 \in 0..3
    BY <1>2, <1>5, <1>7 DEF Regions
  <2>4. /\ op \in Queued /\ op.kind = q.kind /\ op.payload = q.payload /\ op.late = q.late
        /\ op.pc = "data" /\ op.ntag = q.ntag /\ op.tag = q.tag /\ op.size = q.size
        /\ op.todo = q.todo + 1
    BY <1>2, <2>1, <2>3 DEF Queued
  <2>5. LastRegion(op) = LastRegion(q) /\ \A i : Has(op, i)' = Has(q, i)'
    BY <2>4 DEF LastRegion, Has
  <2>6. /\ op.kind \in {"write", "erase"}
        /\ op.tag \in Tags /\ Chip[op.tag] # "bambu" /\ tag'[op.tag].cc = "ndef"
        /\ op.ntag = IsNtag(op.tag)
        /\ ~op.ntag => op.size = 2
        /\ (Honest' \/ op.kind = "erase") => op.size <= Extent[op.tag]
        /\ op.kind = "write" => Len1[op.payload] <= op.size
        /\ op.size \in 1..3
        /\ tag'[op.tag].locked = FALSE
        /\ op.kind = "write" => Len1[op.payload] <= tag'[op.tag].size
    BY <1>2, <2>4 DEF Edit
  <2>7. op.todo \in 1..LastRegion(op)
    BY <1>2, <1>5, <1>7, <2>4, <2>5 DEF Regions
  <2>8. \A i \in Regions : (i < op.todo /\ (op.ntag => i <= Extent[op.tag])) => Has(op, i)'
    BY <1>2, <2>4, <2>5
  <2>9. Edit(op)'
    BY <2>4, <2>6, <2>7, <2>8 DEF Edit
  <2>10. op.late = FALSE /\ (op.kind = "write" => op.payload \in Payloads)
    BY <1>2, <2>4 DEF Inspected
  <2>11. Inspected(op)'
    BY <2>4, <2>9, <2>10 DEF Inspected, Unopened
  <2> QED  BY <1>2, <1>3, <2>2, <2>4, <2>11, WritesTag
<1>8. CASE ~(q.todo < LastRegion(q)) /\ q.ntag /\ q.kind = "write"
  <2>1. PICK op : op = [q EXCEPT !.pc = "verify", !.link = FALSE]
    OBVIOUS
  <2>2. Goes(op)
    BY <1>1, <1>8, <2>1 DEF WriteData
  <2>3. /\ op \in Queued /\ op.kind = "write" /\ op.payload = q.payload /\ op.late = q.late
        /\ op.pc = "verify" /\ op.tag = q.tag
    BY <1>2, <1>8, <2>1 DEF Queued
  <2>4. q.todo = Len1[q.payload]
    BY <1>2, <1>4, <1>8 DEF Edit, LastRegion, Regions
  <2>5. Honest' => \A i \in 1..Len1[op.payload] : tag'[op.tag].mem[i] = op.payload
    <3> SUFFICES ASSUME Honest, NEW i \in 1..Len1[q.payload] PROVE tag'[q.tag].mem[i] = q.payload
      BY <2>3
    <3>1. q.size \in 1..3 /\ q.size <= Extent[q.tag] /\ Len1[q.payload] <= q.size /\ q.tag \in Tags
      BY <1>2, <1>8 DEF Edit
    <3>2. i \in Regions /\ i < q.todo + 1 /\ i <= Extent[q.tag] /\ i <= Len1[q.payload]
      BY <1>4, <1>8, <2>4, <3>1, ExtentIsSome DEF Regions
    <3>3. Has(q, i)'
      BY <1>2, <3>2
    <3> QED  BY <1>8, <3>2, <3>3 DEF Has
  <2>6. Written(op)'
    BY <1>2, <1>8, <2>3, <2>5 DEF Written, Edit
  <2>7. Inspected(op)'
    <3>1. op.late = FALSE /\ op.payload \in Payloads
      BY <1>2, <1>8, <2>3 DEF Inspected
    <3> QED  BY <2>3, <2>6, <3>1 DEF Inspected, Unopened
  <2> QED  BY <1>2, <1>3, <2>2, <2>3, <2>7, WritesTag
<1>9. \/ \E a \in {"ok", "error"} : Ends(a)
      \/ q.todo < LastRegion(q)
      \/ ~(q.todo < LastRegion(q)) /\ q.ntag /\ q.kind = "write"
  BY <1>1 DEF WriteData
<1> QED  BY <1>6, <1>7, <1>8, <1>9

-----------------------------------------------------------------------------
(* The invariant.                                                          *)

LEMMA InitSound == Init => Sound
<1> SUFFICES ASSUME Init PROVE Sound
  OBVIOUS
<1>1. play \in Play /\ play.readers \subseteq Readers
  BY NfcAssumption DEF Init, Play
<1>2. queue = <<>> /\ QueueInv
  BY DEF Init, QueueInv
<1>3. events \in [Readers -> Seq(BOOLEAN)] /\ ReadersInv
  BY DEF Init, ReadersInv
<1>4. TagsInv /\ tag \in [Tags -> Memory]
  BY StartAssumption DEF Init, TagsInv
<1> QED  BY <1>1, <1>2, <1>3, <1>4, QueueIsTyped DEF Init, Sound, TypeOK

LEMMA NextSound == Sound /\ [Next]_vars => Sound'
<1> SUFFICES ASSUME Sound, [Next]_vars PROVE Sound'
  OBVIOUS
<1>1. play' \in Play /\ Honest' = Honest
  BY PlayKept DEF Sound
<1>2. CASE UNCHANGED vars
  <2>1. QueueInv'
    BY <1>2, QueueStays DEF Sound, vars, Honest
  <2> QED  BY <1>2, <2>1 DEF Sound, vars, TypeOK, TagsInv, ReadersInv
<1>3. CASE User
  BY <1>1, <1>3, UserKeepsSound
<1>4. CASE Callers
  BY <1>1, <1>4, CallersKeepSound
<1>5. CASE Presence
  BY <1>1, <1>5, PresenceKeepsSound
<1>6. CASE Service
  BY <1>1, <1>6, BeginKeeps, BambuCheckKeeps, ProbeKeeps, OpenNtagKeeps, OpenSlix2Keeps,
     NoTagKeeps, CannotConnectKeeps, WriteCcKeeps, WriteDataKeeps, WriteFailsKeeps, VerifyKeeps,
     FlipKeeps DEF Service
<1> QED  BY <1>2, <1>3, <1>4, <1>5, <1>6 DEF Next

LEMMA AlwaysSound == Spec => []Sound
BY InitSound, NextSound, PTL DEF Spec

\* Every variable keeps its type, and only the head of the queue has begun.
THEOREM NfcTyped == Spec => []TypeOK
BY AlwaysSound, PTL DEF Sound

-----------------------------------------------------------------------------
(* What a step may do to a tag.                                            *)

\* The step that changes a tag: it is the head's, and it tears a region,
\* declares the container, writes a region, or locks and unlocks.
LEMMA WhoChangesTags ==
    ASSUME [Next]_vars, tag' # tag
    PROVE  /\ queue # <<>>
           /\ \/ /\ Head1.pc = "data"
                 /\ tag' = [tag EXCEPT ![Head1.tag].mem[Head1.todo] = Torn]
              \/ WriteCc \/ WriteData \/ WriteFails \/ Flip
<1> DEFINE Good == /\ queue # <<>>
                   /\ \/ /\ Head1.pc = "data"
                         /\ tag' = [tag EXCEPT ![Head1.tag].mem[Head1.todo] = Torn]
                      \/ WriteCc \/ WriteData \/ WriteFails \/ Flip
<1> SUFFICES Good
  OBVIOUS
<1>1. ASSUME NEW r \in Readers, Lift(r) PROVE Good
  BY <1>1 DEF Lift, Running
<1>2. CASE WriteCc \/ WriteData \/ WriteFails \/ Flip
  BY <1>2 DEF WriteCc, WriteData, WriteFails, Flip, Running
<1> HIDE DEF Good
<1>3. CASE User
  BY <1>1, <1>3 DEF User, Phantom, Unplug, Plug, Place
<1>4. CASE Callers
  BY <1>4 DEF Callers, Asks, Ask, Timeout, ReadBack, Match
<1>5. CASE Presence
  BY <1>5 DEF Presence, Status, CoolDown, CheckPresence
<1>6. CASE Service
  BY <1>2, <1>6 DEF Service, Begin, BambuCheck, Probe, OpenNtag, OpenSlix2, NoTag, CannotConnect,
        Verify, Same
<1> QED  BY <1>3, <1>4, <1>5, <1>6 DEF Next, vars

\* What the head had found out about the tag that changes, and what becomes of its
\* lock and its declared size.
LEMMA TagChange ==
    ASSUME Sound, [Next]_vars, NEW t \in Tags, tag'[t] # tag[t], NEW q, q = Head1
    PROVE  /\ queue # <<>> /\ q \in Queued /\ Inspected(q) /\ t = q.tag
           /\ \/ q.pc = "cc" /\ Edit(q) /\ tag'[t].locked = FALSE /\ tag'[t].size = q.size
                 /\ tag'[t].spoilt = tag[t].spoilt
              \/ q.pc = "data" /\ Edit(q) /\ tag'[t].locked = tag[t].locked
                 /\ tag'[t].size = tag[t].size
                 /\ \/ tag'[t].spoilt = tag[t].spoilt
                    \/ q.ntag /\ q.todo > Extent[q.tag]
              \/ q.pc = "flip" /\ Lockable(q) /\ (tag'[t].locked <=> q.kind = "lock")
                 /\ tag'[t].size = tag[t].size /\ tag'[t].spoilt = tag[t].spoilt
<1>1. tag' # tag
  OBVIOUS
<1>2. queue # <<>>
  BY <1>1, WhoChangesTags
<1>3. q \in Queued /\ Inspected(q) /\ tag \in [Tags -> Memory] /\ Honest' = Honest
  BY <1>2, HeadOfQueue, PlayKept DEF Sound, TypeOK
<1>4. ASSUME NEW c \in Content, q.pc = "data",
             tag' = [tag EXCEPT ![Head1.tag].mem[Head1.todo] = c]
      PROVE  /\ t = q.tag /\ Edit(q) /\ tag'[t].locked = tag[t].locked
             /\ tag'[t].size = tag[t].size /\ tag'[t].spoilt = tag[t].spoilt
  <2>1. Edit(q) /\ q.tag \in Tags
    BY <1>3, <1>4 DEF Inspected, Edit
  <2>2. t = q.tag
    BY <1>3, <1>4, <2>1
  <2> QED  BY <1>2, <1>3, <1>4, <2>1, <2>2, TearKeeps
<1>5. Torn \in Content /\ Piece(q) \in Content
  BY <1>3 DEF Content, Piece, Inspected
<1>6. CASE Head1.pc = "data" /\ tag' = [tag EXCEPT ![Head1.tag].mem[Head1.todo] = Torn]
  BY <1>2, <1>3, <1>4, <1>5, <1>6
<1>7. CASE WriteCc
  <2>1. q.pc = "cc" /\ Edit(q) /\ q.tag \in Tags
    BY <1>3, <1>7 DEF WriteCc, Running, Inspected, Edit
  <2>2. tag' = [tag EXCEPT ![q.tag] = [tag[q.tag] EXCEPT !.cc = "ndef", !.size = q.size, !.locked = FALSE]]
    BY <1>1, <1>7 DEF WriteCc
  <2>3. t = q.tag
    BY <1>3, <2>1, <2>2
  <2>4. tag'[t] = [tag[t] EXCEPT !.cc = "ndef", !.size = q.size, !.locked = FALSE]
    BY <1>3, <2>2, <2>3
  <2>5. tag[t] \in Memory
    BY <1>3
  <2>6. tag'[t].locked = FALSE /\ tag'[t].size = q.size /\ tag'[t].spoilt = tag[t].spoilt
    BY <2>4, <2>5 DEF Memory
  <2> QED  BY <1>2, <1>3, <2>1, <2>3, <2>6
<1>8. CASE WriteData
  <2>1. q.pc = "data" /\ Edit(q) /\ q.tag \in Tags /\ (q.ntag = IsNtag(q.tag))
    BY <1>3, <1>8 DEF WriteData, Running, Inspected, Edit
  <2>2. CASE IsNtag(Head1.tag) /\ Head1.todo > Extent[Head1.tag]
    <3>1. tag' = [tag EXCEPT ![Head1.tag].spoilt = TRUE]
      BY <1>8, <2>2 DEF WriteData
    <3>2. t = q.tag
      BY <1>3, <2>1, <3>1
    <3>3. tag'[t].locked = tag[t].locked /\ tag'[t].size = tag[t].size
      BY <1>2, <2>1, <3>1, SpoilKeeps
    <3> QED  BY <1>2, <1>3, <2>1, <2>2, <3>2, <3>3
  <2>3. CASE ~(IsNtag(Head1.tag) /\ Head1.todo > Extent[Head1.tag])
    <3>1. tag' = [tag EXCEPT ![Head1.tag].mem[Head1.todo] = Piece(q)]
      BY <1>8, <2>3 DEF WriteData
    <3>2. PICK c \in Content : c = Piece(q)
      BY <1>5
    <3> QED  BY <1>2, <1>3, <1>4, <2>1, <3>1, <3>2
  <2> QED  BY <2>2, <2>3
<1>9. CASE WriteFails
  <2>1. q.pc = "data"
    BY <1>9 DEF WriteFails, Running
  <2>2. PICK c \in {Torn, Piece(q)} : tag' = [tag EXCEPT ![Head1.tag].mem[Head1.todo] = c]
    BY <1>1, <1>9 DEF WriteFails
  <2>3. c \in Content
    BY <1>5
  <2> QED  BY <1>2, <1>3, <1>4, <2>1, <2>2, <2>3
<1>10. CASE Flip
  <2>1. q.pc = "flip" /\ Lockable(q) /\ q.tag \in Tags
    BY <1>3, <1>10 DEF Flip, Running, Inspected, Lockable
  <2>2. PICK b \in BOOLEAN : b = (q.kind = "lock")
    OBVIOUS
  <2>3. tag' = [tag EXCEPT ![q.tag] = [tag[q.tag] EXCEPT !.locked = b]]
    BY <1>1, <1>10, <2>2 DEF Flip
  <2>4. t = q.tag
    BY <1>3, <2>1, <2>3
  <2>5. tag'[t] = [tag[t] EXCEPT !.locked = b] /\ tag[t] \in Memory
    BY <1>3, <2>3, <2>4
  <2>6. tag'[t].locked = b /\ tag'[t].size = tag[t].size /\ tag'[t].spoilt = tag[t].spoilt
    BY <2>5 DEF Memory
  <2> QED  BY <1>2, <1>3, <2>1, <2>2, <2>4, <2>6
<1> QED  BY <1>1, <1>6, <1>7, <1>8, <1>9, <1>10, WhoChangesTags

\* Whichever tags are swapped between and during the connections of a request, and
\* whoever gives up meanwhile: a tag of another format and a Bambu tag are never
\* changed, a locked one only by erasing or unlocking it, none is locked that does not
\* hold a record of this program; and no tag is changed for a caller that gave up
\* before the turn of its request came.
THEOREM OnlyTheRightTag == Spec => TagsRespected
<1>1. Sound /\ [Next]_vars =>
        [\A t \in Tags : tag'[t] # tag[t] =>
            /\ tag[t].cc # "foreign" /\ Chip[t] # "bambu"
            /\ tag[t].locked => Head1.kind \in {"erase", "lock", "unlock"}
            /\ tag'[t].locked /\ ~tag[t].locked =>
                  tag[t].mem[1] \in Payloads /\ Standard[tag[t].mem[1]] = "openprinttag"]_vars
  <2> SUFFICES ASSUME Sound, [Next]_vars, NEW t \in Tags, tag'[t] # tag[t]
               PROVE  /\ tag[t].cc # "foreign" /\ Chip[t] # "bambu"
                      /\ tag[t].locked => Head1.kind \in {"erase", "lock", "unlock"}
                      /\ tag'[t].locked /\ ~tag[t].locked =>
                            tag[t].mem[1] \in Payloads /\ Standard[tag[t].mem[1]] = "openprinttag"
    OBVIOUS
  <2>1. PICK q : q = Head1
    OBVIOUS
  <2>2. CASE q.pc = "cc" /\ Edit(q) /\ tag'[t].locked = FALSE /\ t = q.tag
    BY <2>1, <2>2 DEF Edit
  <2>3. CASE q.pc = "data" /\ Edit(q) /\ tag'[t].locked = tag[t].locked /\ t = q.tag
    BY <2>1, <2>3 DEF Edit
  <2>4. CASE q.pc = "flip" /\ Lockable(q) /\ t = q.tag
    BY <2>1, <2>4 DEF Lockable, Ours
  <2> QED  BY <2>1, <2>2, <2>3, <2>4, TagChange
<1>2. Sound /\ [Next]_vars => [tag' # tag => queue # <<>> /\ ~Head1.late]_vars
  <2> SUFFICES ASSUME Sound, [Next]_vars, tag' # tag PROVE queue # <<>> /\ ~Head1.late
    OBVIOUS
  <2>1. queue # <<>>
    BY WhoChangesTags
  <2> QED  BY <2>1, HeadOfQueue DEF Sound, Inspected
<1> QED  BY <1>1, <1>2, AlwaysSound, PTL DEF Spec, TagsRespected, OnlyLawfulChanges, LateRequestsChangeNothing

-----------------------------------------------------------------------------
(* No chip is spoilt, where a reader does not claim pages that are not there. *)

LEMMA AlwaysHonest ==
    ASSUME \A p \in Plays : p.shorts = FALSE
    PROVE  Spec => []Honest
<1>1. Init => Honest
  BY DEF Init, Honest
<1>2. Sound /\ Honest /\ [Next]_vars => Honest'
  BY PlayKept DEF Sound
<1> QED  BY <1>1, <1>2, AlwaysSound, PTL DEF Spec

\* Whatever size the user declares, nothing is written behind the memory of a chip and
\* no container declares more than there is.  The read of the last page that is to
\* prove a declared size proves nothing with a reader that answers with success and
\* no data for pages that are not there.
THEOREM NoChipIsSpoilt ==
    ASSUME \A p \in Plays : p.shorts = FALSE
    PROVE  Spec => []WithinChip
<1>1. Init => WithinChip
  BY StartAssumption DEF Init, WithinChip
<1>2. Sound /\ Honest /\ WithinChip /\ [Next]_vars => WithinChip'
  <2> SUFFICES ASSUME Sound, Honest, WithinChip, [Next]_vars, NEW t \in Tags
               PROVE  ~tag'[t].spoilt /\ (tag'[t].size <= Extent[t] \/ tag'[t].size = Start[t].size)
    BY DEF WithinChip
  <2>1. CASE tag'[t] = tag[t]
    BY <2>1 DEF WithinChip
  <2>2. CASE tag'[t] # tag[t]
    <3>1. PICK q : q = Head1
      OBVIOUS
    <3>2. /\ q \in Queued /\ Inspected(q) /\ t = q.tag
          /\ \/ q.pc = "cc" /\ Edit(q) /\ tag'[t].size = q.size /\ tag'[t].spoilt = tag[t].spoilt
             \/ q.pc = "data" /\ Edit(q) /\ tag'[t].size = tag[t].size
                /\ \/ tag'[t].spoilt = tag[t].spoilt
                   \/ q.ntag /\ q.todo > Extent[q.tag]
             \/ tag'[t].size = tag[t].size /\ tag'[t].spoilt = tag[t].spoilt
      BY <2>2, <3>1, TagChange
    <3>3. Edit(q) => q.size <= Extent[q.tag]
      BY DEF Edit
    <3>4. Edit(q) => ~(q.ntag /\ q.todo > Extent[q.tag])
      <4> SUFFICES ASSUME Edit(q), q.ntag PROVE ~(q.todo > Extent[q.tag])
        OBVIOUS
      <4>1. Extent[q.tag] \in 1..3 /\ q.size \in 1..3 /\ q.size <= Extent[q.tag]
        BY <3>2, <3>3, ExtentIsSome DEF Edit
      <4>2. q.kind = "write" => Len1[q.payload] \in {1, 2} /\ Len1[q.payload] <= q.size
        BY <3>2, NfcAssumption DEF Inspected, Edit
      <4>3. LastRegion(q) <= q.size /\ LastRegion(q) \in 1..3
        BY <4>1, <4>2 DEF LastRegion
      <4>4. q.todo \in 1..LastRegion(q)
        BY DEF Edit
      <4> QED  BY <4>1, <4>3, <4>4
    <3> QED  BY <3>2, <3>3, <3>4 DEF WithinChip
  <2> QED  BY <2>1, <2>2
<1> QED  BY <1>1, <1>2, AlwaysSound, AlwaysHonest, PTL DEF Spec

-----------------------------------------------------------------------------
(* An answer of success is true.                                           *)

\* The steps that answer a write or an erase with success.
LEMMA WhoSucceeds ==
    ASSUME Sound, [Next]_vars, queue # <<>>, Head1.kind \in {"write", "erase"},
           Waits(Head1), call'[Head1.call] = "ok"
    PROVE  Verify \/ WriteData \/ WriteFails
<1> DEFINE Good == Verify \/ WriteData \/ WriteFails
           c == Head1.call
<1> SUFFICES Good
  OBVIOUS
<1>1. Head1 \in Queued /\ Inspected(Head1) /\ c \in Calls /\ call[c] = "waiting"
      /\ call \in [Calls -> {"idle", "waiting", "ok", "error", "timeout"}]
  BY HeadOfQueue DEF Sound, Waits, Queued, TypeOK
<1>2. call' # call
  BY <1>1
<1>3. ~Ends("error")
  BY <1>1 DEF Ends
<1>4. ~\E op : Goes(op)
  BY <1>2 DEF Goes
<1> HIDE DEF Good
<1>5. CASE User
  BY <1>2, <1>5 DEF User, Lift, Phantom, Unplug, Plug, Place
<1>6. CASE Callers
  <2>1. ASSUME NEW d \in Calls, NEW op, Ask(d, op) PROVE FALSE
    BY <1>1, <2>1 DEF Ask
  <2>2. ASSUME NEW d \in Calls, Timeout(d) PROVE FALSE
    BY <1>1, <2>2 DEF Timeout
  <2> QED  BY <1>2, <1>6, <2>1, <2>2 DEF Callers, Asks, ReadBack, Match
<1>7. CASE Presence
  BY <1>2, <1>7 DEF Presence, Status, CoolDown, CheckPresence
<1>8. CASE Service
  <2>1. ~Begin
    BY <1>3, <1>4 DEF Begin
  <2>2. ~BambuCheck
    BY <1>3, <1>4 DEF BambuCheck
  <2>3. ~Probe
    BY <1>3, <1>4 DEF Probe
  <2>4. ~OpenNtag
    BY <1>3, <1>4 DEF OpenNtag
  <2>5. ~OpenSlix2
    BY <1>3, <1>4 DEF OpenSlix2
  <2>6. ~NoTag /\ ~CannotConnect
    BY <1>2, <1>3, <1>4 DEF NoTag, CannotConnect
  <2>7. ~WriteCc
    BY <1>3, <1>4 DEF WriteCc
  <2>8. ~Flip
    BY <1>1 DEF Flip, Running, Inspected, Lockable
  <2> QED  BY <1>8, <2>1, <2>2, <2>3, <2>4, <2>5, <2>6, <2>7, <2>8 DEF Service, Good
<1> QED  BY <1>2, <1>5, <1>6, <1>7, <1>8 DEF Next, vars

\* What holds of the tag of a write, or an erase, that ends.
LEMMA WrittenAll ==
    ASSUME Sound, Honest, WriteData, NEW q, q = Head1, q.kind = "write",
           ~(q.todo < LastRegion(q)), ~q.ntag
    PROVE  Decoded(tag'[q.tag]) = q.payload
<1>1. /\ q \in Queued /\ Inspected(q) /\ Edit(q) /\ q.pc = "data"
      /\ \A t \in Tags : tag'[t].cc = tag[t].cc /\ tag'[t].size = tag[t].size
      /\ \A i \in Regions : i < q.todo + 1 => Has(q, i)'
  BY RegionWritten
<1>2. Len1[q.payload] \in {1, 2} /\ q.payload \in Payloads /\ q.todo = 2
      /\ q.tag \in Tags /\ tag[q.tag].cc = "ndef" /\ Len1[q.payload] <= tag[q.tag].size
  BY <1>1, NfcAssumption DEF Inspected, Edit, LastRegion
<1>3. \A i \in 1..Len1[q.payload] : tag'[q.tag].mem[i] = q.payload
  BY <1>1, <1>2 DEF Has, Regions
<1>4. tag'[q.tag].mem[1] = q.payload /\ tag'[q.tag].cc = "ndef"
      /\ Len1[q.payload] <= tag'[q.tag].size
  BY <1>1, <1>2, <1>3
<1>5. q.payload # Zero /\ q.payload # Torn
  BY <1>2, NfcAssumption
<1> QED  BY <1>3, <1>4, <1>5 DEF Decoded

LEMMA VerifiedIsWhole ==
    ASSUME Sound, Honest, NEW q, q = Head1, queue # <<>>, q.pc = "verify"
    PROVE  Decoded(tag[q.tag]) = q.payload
<1>1. q \in Queued /\ Inspected(q) /\ Written(q)
  BY HeadOfQueue DEF Sound, Inspected
<1>2. Len1[q.payload] \in {1, 2} /\ q.payload \in Payloads
  BY <1>1, NfcAssumption DEF Inspected, Written
<1>3. /\ tag[q.tag].cc = "ndef" /\ Len1[q.payload] <= tag[q.tag].size
      /\ \A i \in 1..Len1[q.payload] : tag[q.tag].mem[i] = q.payload
  BY <1>1 DEF Written
<1>4. tag[q.tag].mem[1] = q.payload
  BY <1>2, <1>3
<1>5. q.payload # Zero /\ q.payload # Torn
  BY <1>2, NfcAssumption
<1> QED  BY <1>3, <1>4, <1>5 DEF Decoded

\* The first region of a tag that is erased is zero before its end is forgiven.
LEMMA ErasedFirst ==
    ASSUME Sound, [Next]_vars, NEW q, q = Head1, q.kind = "erase",
           WriteData \/ (WriteFails /\ q.todo > 1)
    PROVE  Decoded(tag'[q.tag]) = "blank"
<1>1. queue # <<>> /\ q.pc = "data"
  BY DEF WriteData, WriteFails, Running
<1>2. q \in Queued /\ Inspected(q) /\ Edit(q)
  BY <1>1, HeadOfQueue DEF Sound, Inspected
<1>3. q.tag \in Tags /\ tag[q.tag].cc = "ndef" /\ Extent[q.tag] \in 1..3 /\ q.todo \in 1..3
  BY <1>1, <1>2, ExtentIsSome DEF Edit, Regions, LastRegion
<1>4. tag'[q.tag].cc = "ndef" /\ tag'[q.tag].mem[1] = Zero
  <2>1. CASE WriteData
    <3>1. /\ \A t \in Tags : tag'[t].cc = tag[t].cc
          /\ \A i \in Regions : (i < q.todo + 1 /\ (q.ntag => i <= Extent[q.tag])) => Has(q, i)'
      BY <2>1, RegionWritten
    <3>2. Has(q, 1)'
      BY <1>3, <3>1 DEF Regions
    <3> QED  BY <1>3, <3>1, <3>2 DEF Has
  <2>2. CASE WriteFails /\ q.todo > 1
    <3>1. Has(q, 1)
      BY <1>1, <1>2, <1>3, <2>2 DEF Edit, Regions
    <3>2. CASE tag' = tag
      BY <1>3, <3>1, <3>2 DEF Has
    <3>3. CASE tag' # tag
      <4>1. PICK d \in {Torn, Piece(q)} : tag' = [tag EXCEPT ![Head1.tag].mem[Head1.todo] = d]
        BY <2>2, <3>3 DEF WriteFails
      <4>2. d \in Content
        BY DEF Content, Piece
      <4>3. Honest' = Honest
        BY PlayKept DEF Sound
      <4>4. tag'[q.tag].cc = tag[q.tag].cc /\ tag'[q.tag].mem[1] = tag[q.tag].mem[1]
        <5>1. 1 \in Regions /\ 1 # q.todo
          BY <2>2, <1>3 DEF Regions
        <5> QED  BY <1>1, <1>3, <4>1, <4>2, <4>3, <5>1, TearKeeps
      <4> QED  BY <1>3, <3>1, <4>4 DEF Has
    <3> QED  BY <3>2, <3>3
  <2> QED  BY <2>1, <2>2
<1> QED  BY <1>4 DEF Decoded

\* A write that is answered with success has left its payload, whole and within the
\* declared size, on the tag it found, and a tag that was erased with success reads as
\* blank; tags that are swapped or taken away in the middle, and exchanges that fail,
\* included.
THEOREM SuccessIsKept ==
    ASSUME \A p \in Plays : p.shorts = FALSE
    PROVE  Spec => SuccessIsTrue
<1>1. Sound /\ Honest /\ [Next]_vars =>
        [Succeeds("write") => Decoded(tag'[Head1.tag]) = Head1.payload]_vars
  <2> SUFFICES ASSUME Sound, Honest, [Next]_vars, Succeeds("write")
               PROVE  Decoded(tag'[Head1.tag]) = Head1.payload
    OBVIOUS
  <2>1. PICK q : q = Head1
    OBVIOUS
  <2>2. queue # <<>> /\ q.kind = "write" /\ Waits(q) /\ call'[q.call] = "ok"
    BY <2>1 DEF Succeeds
  <2>3. Verify \/ WriteData \/ WriteFails
    BY <2>1, <2>2, WhoSucceeds
  <2>4. q \in Queued /\ call[q.call] = "waiting" /\ q.call \in Calls
        /\ call \in [Calls -> {"idle", "waiting", "ok", "error", "timeout"}]
    BY <2>1, <2>2, HeadOfQueue DEF Sound, Waits, Queued, TypeOK
  <2>5. ~Ends("error") /\ ~\E op : Goes(op)
    BY <2>1, <2>2, <2>4 DEF Ends, Goes
  <2>6. CASE Verify
    <3>1. q.pc = "verify" /\ tag' = tag
      BY <2>1, <2>6 DEF Verify, Running, Same
    <3> QED  BY <2>1, <2>2, <3>1, VerifiedIsWhole
  <2>7. CASE WriteData
    <3>1. ~(q.todo < LastRegion(q)) /\ ~q.ntag
      BY <2>1, <2>2, <2>5, <2>7 DEF WriteData
    <3> QED  BY <2>1, <2>2, <2>7, <3>1, WrittenAll
  <2>8. CASE WriteFails
    BY <2>1, <2>2, <2>5, <2>8 DEF WriteFails, Forgiven
  <2> QED  BY <2>3, <2>6, <2>7, <2>8
<1>2. Sound /\ [Next]_vars => [Succeeds("erase") => Decoded(tag'[Head1.tag]) = "blank"]_vars
  <2> SUFFICES ASSUME Sound, [Next]_vars, Succeeds("erase")
               PROVE  Decoded(tag'[Head1.tag]) = "blank"
    OBVIOUS
  <2>1. PICK q : q = Head1
    OBVIOUS
  <2>2. queue # <<>> /\ q.kind = "erase" /\ Waits(q) /\ call'[q.call] = "ok"
    BY <2>1 DEF Succeeds
  <2>3. Verify \/ WriteData \/ WriteFails
    BY <2>1, <2>2, WhoSucceeds
  <2>4. q \in Queued /\ Inspected(q) /\ call[q.call] = "waiting" /\ q.call \in Calls
        /\ call \in [Calls -> {"idle", "waiting", "ok", "error", "timeout"}]
    BY <2>1, <2>2, HeadOfQueue DEF Sound, Waits, Queued, TypeOK
  <2>5. ~Ends("error")
    BY <2>1, <2>2, <2>4 DEF Ends
  <2>6. ~Verify
    BY <2>1, <2>2, <2>4 DEF Verify, Running, Inspected, Written
  <2>7. WriteFails => q.todo > 1
    BY <2>1, <2>5 DEF WriteFails, Forgiven
  <2> QED  BY <2>1, <2>2, <2>3, <2>6, <2>7, ErasedFirst
<1> QED
  BY <1>1, <1>2, AlwaysSound, AlwaysHonest, PTL
  DEF Spec, SuccessIsTrue, OkMeansWritten, ErasedReadsBlank

-----------------------------------------------------------------------------
(* Removal is seen.                                                        *)

LEMMA InitRemoval ==
    ASSUME \A p \in Plays : \/ p.phantoms # {}
                            \/ p.unplugs = {}
                            \/ \A r, s \in p.readers : r = s
    PROVE  Init => RemovalInv
<1> SUFFICES ASSUME Init PROVE RemovalInv
  OBVIOUS
<1>1. play \in Plays /\ plugged = play.readers /\ present = {} /\ tagPresent = FALSE
  BY DEF Init
<1>2. play.readers \subseteq Readers
  BY <1>1, NfcAssumption DEF Play
<1>3. \A r \in plugged : events[r] = <<>> /\ DOMAIN events[r] = {}
  <2>1. \A r \in plugged : events[r] = <<>>
    BY <1>1, <1>2 DEF Init
  <2>2. DOMAIN <<>> = {}
    OBVIOUS
  <2> QED  BY <2>1, <2>2
<1>4. \A r \in plugged : Announced(r)
  BY <1>1, <1>3 DEF Announced
<1> QED  BY <1>1, <1>4 DEF RemovalInv

\* A reader that nothing happens to.
LEMMA AnnouncedStays ==
    ASSUME NEW r, Announced(r), on'[r] = on[r], events'[r] = events[r],
           r \in present' => r \in present
    PROVE  Announced(r)'
BY DEF Announced

LEMMA RemovalAppended ==
    ASSUME NEW r \in Readers, events[r] \in Seq(BOOLEAN), events'[r] = Append(events[r], FALSE)
    PROVE  Announced(r)'
<1>1. /\ DOMAIN events'[r] = 1..Len(events[r]) + 1 /\ Len(events[r]) \in Nat
      /\ events'[r][Len(events[r]) + 1] = FALSE
  BY DEF Announced
<1>2. \A i \in DOMAIN events'[r] : events'[r][i] = TRUE => i # Len(events[r]) + 1
  BY <1>1
<1> QED  BY SMTT(30), <1>1, <1>2 DEF Announced

LEMMA NextRemoval ==
    ASSUME Sound, Sound', RemovalInv, [Next]_vars
    PROVE  RemovalInv'
<1>1. play'.phantoms = play.phantoms /\ play'.readers = play.readers
      /\ (play'.unplugs = play.unplugs \/ \E r \in Readers : Unplug(r))
  BY PlayKept DEF Sound
<1>2. plugged \subseteq Readers /\ present \subseteq plugged /\ None \notin Tags
      /\ on \in [Readers -> Tags \cup {None}] /\ events \in [Readers -> Seq(BOOLEAN)]
  BY NfcAssumption DEF Sound, TypeOK
<1>3. CASE UNCHANGED <<on, plugged, events, present>>
           /\ play'.unplugs = play.unplugs /\ (tagPresent' => tagPresent)
  <2>1. \A r \in plugged : Announced(r) => Announced(r)'
    BY <1>3, AnnouncedStays
  <2> QED  BY <1>1, <1>3, <2>1 DEF RemovalInv
<1>4. ASSUME NEW r \in Readers, NEW t \in Tags, Place(r, t) PROVE RemovalInv'
  <2>1. on'[r] # None /\ UNCHANGED <<plugged, present, tagPresent>> /\ play'.unplugs = play.unplugs
    BY <1>1, <1>2, <1>4 DEF Place, Unplug
  <2>2. \A s \in plugged : s # r => on'[s] = on[s] /\ events'[s] = events[s]
    BY <1>2, <1>4 DEF Place, Reported
  <2>3. Announced(r)'
    BY <2>1 DEF Announced
  <2>4. \A s \in plugged : s # r /\ Announced(s) => Announced(s)'
    BY <2>1, <2>2, AnnouncedStays
  <2> QED  BY <1>1, <2>1, <2>3, <2>4 DEF RemovalInv
<1>5. ASSUME NEW r \in Readers, Lift(r) PROVE RemovalInv'
  <2>1. UNCHANGED <<plugged, present, tagPresent, play>>
    BY <1>5 DEF Lift
  <2>2. \A s \in plugged : s # r => on'[s] = on[s] /\ events'[s] = events[s]
    BY <1>2, <1>5 DEF Lift, Reported
  <2>3. r \in plugged => Announced(r)'
    <3>1. r \in plugged => events'[r] = Append(events[r], FALSE)
      BY <1>2, <1>5 DEF Lift, Reported
    <3> QED  BY <1>2, <3>1, RemovalAppended
  <2>4. \A s \in plugged : s # r /\ Announced(s) => Announced(s)'
    BY <2>1, <2>2, AnnouncedStays
  <2> QED  BY <2>1, <2>3, <2>4 DEF RemovalInv
<1>6. ASSUME NEW r \in Readers, Phantom(r) PROVE RemovalInv'
  BY <1>1, <1>6 DEF Phantom, RemovalInv
<1>7. ASSUME NEW r \in Readers, Unplug(r) PROVE RemovalInv'
  <2>1. plugged' = plugged \ {r} /\ (tagPresent' => plugged' # {}) /\ play.unplugs # {}
        /\ r \in plugged
    BY <1>7 DEF Unplug, Shows
  <2>2. CASE play.phantoms = {}
    <3>1. \A s, t \in play.readers : s = t
      BY <2>1, <2>2 DEF RemovalInv
    <3>2. plugged' = {}
      BY <2>1, <3>1 DEF RemovalInv
    <3> QED  BY <1>1, <2>1, <3>1, <3>2 DEF RemovalInv
  <2> QED  BY <1>1, <2>1, <2>2 DEF RemovalInv
<1>8. ASSUME NEW r \in Readers, Plug(r) PROVE RemovalInv'
  <2>1. plugged' = plugged \cup {r} /\ r \in play.readers \ plugged
        /\ UNCHANGED <<play, on, present, tagPresent>>
    BY <1>8 DEF Plug
  <2>2. CASE play.phantoms = {}
    <3>1. \A s, t \in play.readers : s = t
      BY <2>1, <2>2 DEF RemovalInv
    <3>2. plugged' = {r}
      BY <2>1, <3>1 DEF RemovalInv
    <3>3. events[r] = <<>> /\ r \notin present
      BY <1>2, <2>1 DEF Sound, ReadersInv
    <3>4. events'[r] = Append(events[r], on[r] # None)
      BY <1>2, <1>8 DEF Plug, Reported
    <3>5. on[r] = None => events'[r] = Append(events[r], FALSE)
      BY <3>4
    <3>6. Announced(r)'
      <4>1. CASE on[r] = None
        BY <1>2, <3>5, <4>1, RemovalAppended
      <4>2. CASE on[r] # None
        BY <2>1, <4>2 DEF Announced
      <4> QED  BY <4>1, <4>2
    <3> QED  BY <2>1, <2>2, <3>1, <3>2, <3>6 DEF RemovalInv
  <2> QED  BY <2>1, <2>2 DEF RemovalInv
<1>9. ASSUME NEW r \in Readers, Status(r) PROVE RemovalInv'
  <2>1. UNCHANGED <<plugged, on, play>> /\ r \in plugged
    BY <1>9 DEF Status, Sound, ReadersInv
  <2>2. PICK e \in BOOLEAN, rest \in Seq(BOOLEAN) :
            /\ e = Head(events[r]) /\ rest = Tail(events[r])
            /\ events[r] \in Seq(BOOLEAN) /\ events[r] # <<>> /\ e = events[r][1]
            /\ Len(rest) = Len(events[r]) - 1 /\ Len(events[r]) \in Nat \ {0}
            /\ \A i \in 1..Len(rest) : rest[i] = events[r][i + 1]
    <3>1. PICK q \in Seq(BOOLEAN) : q = events[r] /\ q # <<>>
      BY <1>2, <1>9 DEF Status
    <3>2. Head(q) \in BOOLEAN /\ Tail(q) \in Seq(BOOLEAN) /\ Len(q) \in Nat \ {0}
          /\ Head(q) = q[1] /\ Len(Tail(q)) = Len(q) - 1
          /\ \A i \in 1..Len(Tail(q)) : Tail(q)[i] = q[i + 1]
      <4>1. Head(q) \in BOOLEAN /\ Tail(q) \in Seq(BOOLEAN)
        BY <3>1, HeadTailProperties
      <4>2. Len(Tail(q)) = Len(q) - 1 /\ \A i \in 1..Len(Tail(q)) : Tail(q)[i] = q[i + 1]
        BY <3>1, HeadTailProperties
      <4>3. Len(q) \in Nat \ {0} /\ Head(q) = q[1]
        BY <3>1
      <4> QED  BY <4>1, <4>2, <4>3
    <3> QED  BY <3>1, <3>2
  <2>3. events'[r] = rest /\ \A s \in plugged : s # r => events'[s] = events[s]
    BY <1>2, <1>9, <2>2 DEF Status
  <2>4. \/ r \in fresh /\ present' = present /\ tagPresent' = tagPresent
        \/ r \notin fresh /\ e = TRUE /\ present' = present \cup {r}
        \/ r \notin fresh /\ e = FALSE /\ present' = present \ {r}
           /\ (tagPresent' => present' # {})
    BY <1>9, <2>2 DEF Status, Shows, AnyPresent
  <2>5. \A s \in plugged : s # r /\ Announced(s) => Announced(s)'
    BY <2>1, <2>3, <2>4, AnnouncedStays
  <2>6. Announced(r) => Announced(r)'
    <3> SUFFICES ASSUME Announced(r), on[r] = None PROVE Announced(r)'
      BY <2>1 DEF Announced
    <3>1. DOMAIN events[r] = 1..Len(events[r]) /\ DOMAIN rest = 1..Len(rest)
      BY <2>2
    <3>2. ASSUME NEW i \in DOMAIN events[r], events[r][i] = TRUE
          PROVE  \E j \in DOMAIN events[r] : j > i /\ events[r][j] = FALSE
      BY <3>2 DEF Announced
    <3>3. ASSUME NEW i \in DOMAIN rest, rest[i] = TRUE
          PROVE  \E j \in DOMAIN rest : j > i /\ rest[j] = FALSE
      <4>1. i + 1 \in DOMAIN events[r] /\ events[r][i + 1] = TRUE
        BY <2>2, <3>1, <3>3
      <4>2. PICK j \in DOMAIN events[r] : j > i + 1 /\ events[r][j] = FALSE
        BY <3>2, <4>1
      <4>3. j - 1 \in DOMAIN rest /\ j - 1 > i /\ rest[j - 1] = FALSE
        BY SMTT(30), <2>2, <3>1, <3>3, <4>2
      <4> QED  BY <4>3
    <3>4. r \in present' => \E j \in DOMAIN rest : rest[j] = FALSE
      <4> SUFFICES ASSUME r \in present' PROVE \E j \in DOMAIN rest : rest[j] = FALSE
        OBVIOUS
      <4>1. r \notin fresh /\ e = TRUE
        BY <2>4 DEF Sound, ReadersInv
      <4>2. 1 \in DOMAIN events[r] /\ events[r][1] = TRUE
        BY <2>2, <3>1, <4>1
      <4>3. PICK j \in DOMAIN events[r] : j > 1 /\ events[r][j] = FALSE
        BY <3>2, <4>2
      <4>4. j - 1 \in DOMAIN rest /\ rest[j - 1] = FALSE
        BY <2>2, <3>1, <4>3
      <4> QED  BY <4>4
    <3> QED  BY <2>3, <3>3, <3>4 DEF Announced
  <2> QED  BY <2>1, <2>4, <2>5, <2>6 DEF RemovalInv
<1>10. CASE User
  BY <1>4, <1>5, <1>6, <1>7, <1>8, <1>10 DEF User
<1>11. CASE Callers
  BY <1>3, <1>11 DEF Callers, Asks, Ask, Timeout, ReadBack, Match, reader
<1>12. CASE Presence
  BY <1>3, <1>9, <1>12 DEF Presence, CoolDown, CheckPresence
<1>13. CASE Service
  <2>1. /\ UNCHANGED <<on, plugged, events, present>>
        /\ tagPresent' = tagPresent \/ tagPresent' = FALSE
    BY <1>13 DEF Service, Begin, BambuCheck, Probe, OpenNtag, OpenSlix2, NoTag, CannotConnect,
        WriteCc, WriteData, WriteFails, Verify, Flip, Same, reader, Shows
  <2>2. play'.unplugs = play.unplugs
    BY <1>13, FewerFails DEF Sound, Service, Begin, BambuCheck, Probe, OpenNtag, OpenSlix2, NoTag,
        CannotConnect, WriteCc, WriteData, WriteFails, Verify, Flip, Broken
  <2> QED  BY <1>3, <2>1, <2>2
<1>14. CASE UNCHANGED vars
  BY <1>3, <1>14 DEF vars
<1> QED  BY <1>10, <1>11, <1>12, <1>13, <1>14 DEF Next

\* Once all is reported, no tag is shown when every reader is empty, where no reader
\* imagines a tag.  With two readers, none of which reports what is not so, it ends
\* where one is pulled out with its tag: nobody then asks whether another holds one.
THEOREM RemovalIsReported ==
    ASSUME \A p \in Plays : \/ p.phantoms # {}
                            \/ p.unplugs = {}
                            \/ \A r, s \in p.readers : r = s
    PROVE  Spec => []RemovalIsSeen
<1>1. Sound /\ RemovalInv => RemovalIsSeen
  <2> SUFFICES ASSUME Sound, RemovalInv, play.phantoms = {}, Handled,
                      \A r \in plugged : on[r] = None, tagPresent
               PROVE  FALSE
    BY DEF RemovalIsSeen, Sound, TypeOK
  <2>1. PICK r \in plugged : r \in present
    BY DEF RemovalInv, Sound, TypeOK
  <2>2. events[r] = <<>>
    BY <2>1 DEF Handled, Sound, TypeOK
  <2>3. Announced(r) /\ on[r] = None
    BY <2>1 DEF RemovalInv
  <2> QED  BY <2>1, <2>2, <2>3 DEF Announced
<1>2. Sound /\ Sound' /\ RemovalInv /\ [Next]_vars => RemovalInv'
  BY NextRemoval
<1>3. Init => RemovalInv
  BY InitRemoval
<1> QED  BY <1>1, <1>2, <1>3, AlwaysSound, PTL DEF Spec

\* The state of tags and readers, as the run checks it: with readers that report the
\* truth, and one of them at most where any is pulled out.
THEOREM NfcStateIsRight ==
    ASSUME \A p \in Plays : p.shorts = FALSE,
           \A p \in Plays : \/ p.phantoms # {}
                            \/ p.unplugs = {}
                            \/ \A r, s \in p.readers : r = s
    PROVE  Spec => []Inv
BY NfcTyped, NoChipIsSpoilt, RemovalIsReported, PTL DEF Inv
=============================================================================
