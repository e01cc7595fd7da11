-------------------------------- MODULE Nfc --------------------------------
(***************************************************************************)
(* The NFC service of the desktop (electron/nfc-service.ts), the requests  *)
(* and automatic reads of the main process (main.ts) and the reader's      *)
(* status as the window shows it (components/NfcProvider.tsx).             *)
(*                                                                         *)
(* A request runs after those before it (runExclusive), in several         *)
(* connections: one finds out what kind of chip lies there, a later one    *)
(* changes it.  The user may take a tag away or put down another at any    *)
(* moment; a connection ends with its tag.  The caller of a request gives  *)
(* up after a while, whether it has begun or not.                          *)
(*                                                                         *)
(* The memory of a tag is its capability container (CC) and `regions`: 1   *)
(* is what every NTAG has, 2 what the 215 and 216 have, 3 what only the    *)
(* 216 has; an SLIX2 has 1 and 2, and a last block that is never used.     *)
(* What lies behind the last region of an NTAG is its configuration.       *)
(***************************************************************************)
EXTENDS Naturals, Sequences

CONSTANTS
    Readers, Tags, Payloads, Calls,
    Chip,       \* the chip of a tag
    Start,      \* what is on the tags at first
    Standard,   \* the record a payload is: of this program, or another's
    Len1,       \* the regions a payload takes
    Plays,      \* which requests are made, and what goes wrong
    None, Zero, Torn,
    MaxMoves,   \* bound on tags put down
    MaxFails    \* bound on exchanges that fail although the tag is there

Regions == 1..3
Chips == {"n213", "n215", "n216", "slix2", "bambu"}
Kinds == {"read", "write", "erase", "lock", "unlock"}

\* asks: the kinds of request that are made, and calls: which make them; readers:
\* those plugged in; tags: those at hand; moves: how often one is put down; fails:
\* exchanges that fail; phantoms: readers that report a tag where there is none;
\* unplugs: readers that may be pulled out; shorts: does the reader answer for
\* pages that are not there, with no data?
Play == [asks : SUBSET Kinds, calls : SUBSET Calls, readers : SUBSET Readers,
         tags : SUBSET Tags, moves : 0..MaxMoves, fails : 0..MaxFails,
         phantoms : SUBSET Readers, unplugs : SUBSET Readers, shorts : BOOLEAN]

ASSUME NfcAssumption ==
    /\ None \notin Tags \cup Calls \cup Payloads
    /\ Zero # Torn /\ Zero \notin Payloads /\ Torn \notin Payloads
    /\ Chip \in [Tags -> Chips]
    /\ Standard \in [Payloads -> {"openprinttag", "opentag3d", "other"}]
    /\ Len1 \in [Payloads -> {1, 2}]
    /\ Plays \subseteq Play
    /\ MaxMoves \in Nat /\ MaxFails \in Nat

VARIABLES
    play,
    tag,        \* what is on each tag
    on,         \* the tag that lies on a reader
    plugged,
    events,     \* status events each reader has reported and nobody has handled:
                \* is a tag present?
    fresh,      \* readers whose first event is still to come
    present,    \* readerPresent
    tagPresent,
    queue,      \* txChain: the head is running, or the next to run
    call,       \* what became of a request
    cooling,    \* less than AUTO_READ_COOLDOWN_MS since the last automatic read
    checkAt,    \* the timer of presentAtConnect is running
    backs,      \* timers of reads that follow a write
    label,      \* loadedTagName: the payload whose name the window shows
    matching    \* a tag that was read is being looked up in the database

vars == <<play, tag, on, plugged, events, fresh, present, tagPresent, queue, call,
          cooling, checkAt, backs, label, matching>>
reader == <<on, plugged, events, fresh, present, tagPresent, cooling, checkAt>>

\* The memory that is there.
Extent == [t \in Tags |-> CASE Chip[t] = "n213" -> 1 [] Chip[t] = "n215" -> 2
                            [] Chip[t] = "n216" -> 3 [] OTHER -> 2]
IsNtag(t) == Chip[t] \in {"n213", "n215", "n216"}

\* `size` is the extent the CC declares; only an SLIX2 has a CC that can be
\* unlocked again, an NTAG's is never locked.
Content == Payloads \cup {Zero, Torn}
Memory == [cc : {"blank", "ndef", "foreign"}, size : 0..3, locked : BOOLEAN,
           mem : [Regions -> Content], spoilt : BOOLEAN]

\* No tag is spoilt to begin with.
ASSUME StartAssumption ==
    /\ Start \in [Tags -> Memory]
    /\ \A t \in Tags : Start[t].spoilt = FALSE /\ (Start[t].locked => Chip[t] = "slix2")

\* What decoding the tag gives: a payload, nothing, or an error.
Decoded(m) ==
    LET p == m.mem[1] IN
    CASE m.cc = "blank" -> "blank"
      [] m.cc = "foreign" -> "foreign"
      [] p = Zero -> "blank"
      [] OTHER -> IF p = Torn THEN "garbled"
                  ELSE IF Len1[p] <= m.size /\ \A i \in 1..Len1[p] : m.mem[i] = p
                  THEN p ELSE "garbled"

Op(kind, c, p, hint) ==
    [kind |-> kind, call |-> c, payload |-> p, hint |-> hint, pc |-> "queued",
     late |-> FALSE, tag |-> None, link |-> FALSE, ntag |-> FALSE, size |-> 0, todo |-> 0]

Init ==
    /\ play \in Plays
    /\ tag = Start
    /\ on = [r \in Readers |-> None]
    /\ plugged = play.readers
    /\ events = [r \in Readers |-> <<>>]
    /\ fresh = {} /\ present = {} /\ tagPresent = FALSE
    /\ queue = <<>>
    /\ call = [c \in Calls |-> "idle"]
    /\ cooling = FALSE /\ checkAt = FALSE /\ backs = 0
    /\ label = None /\ matching = None

Head1 == queue[1]
Running(pc) == queue # <<>> /\ Head1.pc = pc

\* A connection is over as soon as its tag leaves.
Unlinked(t) == [i \in DOMAIN queue |->
    IF queue[i].tag = t THEN [queue[i] EXCEPT !.link = FALSE] ELSE queue[i]]

-----------------------------------------------------------------------------
(* Readers and tags.                                                       *)

Reported(r, p) == [events EXCEPT ![r] = Append(@, p)]

\* triggerAutoRead: once per cool-down.
AutoRead == IF cooling THEN queue ELSE Append(queue, Op("read", None, None, 0))

\* The name is cleared when the status says that no tag is there.
Shows(p) == tagPresent' = p /\ label' = IF p THEN label ELSE None

Place(r, t) ==
    /\ play.moves > 0 /\ play' = [play EXCEPT !.moves = @ - 1]
    /\ r \in plugged /\ on[r] = None /\ t \in play.tags /\ \A s \in Readers : on[s] # t
    /\ on' = [on EXCEPT ![r] = t]
    /\ events' = Reported(r, TRUE)
    /\ UNCHANGED <<tag, plugged, fresh, present, tagPresent, queue, call, cooling,
                   checkAt, backs, label, matching>>

\* What was being written is then written in part, or not.
Lift(r) ==
    /\ on[r] # None
    /\ on' = [on EXCEPT ![r] = None]
    /\ events' = IF r \in plugged THEN Reported(r, FALSE) ELSE events
    /\ queue' = Unlinked(on[r])
    /\ \/ UNCHANGED tag
       \/ /\ Running("data") /\ Head1.link /\ Head1.tag = on[r]
          /\ tag' = [tag EXCEPT ![on[r]].mem[Head1.todo] = Torn]
    /\ UNCHANGED <<play, plugged, fresh, present, tagPresent, call, cooling, checkAt, backs,
                   label, matching>>

\* Some drivers report a tag that is not there.
Phantom(r) ==
    /\ r \in play.phantoms \cap plugged /\ on[r] = None
    /\ r \notin present /\ events[r] = <<>>
    /\ events' = Reported(r, TRUE)
    /\ UNCHANGED <<play, tag, on, plugged, fresh, present, tagPresent, queue, call, cooling,
                   checkAt, backs, label, matching>>

AnyPresentBefore(now) == present # {}     \* mutant: looks before it notes the event
AnyPresent(now) == now # {}

\* A reader's "status" event; each reader is watched by a thread of its own.  The
\* first of a reader is not believed; it only starts a timer.
Status(r) ==
    /\ events[r] # <<>>
    /\ LET e == Head(events[r])
           now == IF e THEN present \cup {r} ELSE present \ {r}
           edge == e /\ ~tagPresent
       IN IF r \in fresh
          THEN /\ fresh' = fresh \ {r}
               /\ checkAt' = (checkAt \/ e)
               /\ UNCHANGED <<present, tagPresent, label, queue, cooling>>
          ELSE /\ present' = now
               /\ Shows(IF e THEN TRUE ELSE tagPresent /\ AnyPresent(now))
               /\ queue' = IF edge THEN AutoRead ELSE queue
               /\ cooling' = (cooling \/ edge)
               /\ UNCHANGED <<fresh, checkAt>>
    /\ events' = [events EXCEPT ![r] = Tail(@)]
    /\ UNCHANGED <<play, tag, on, plugged, call, backs, matching>>

CoolDown ==
    /\ cooling /\ cooling' = FALSE
    /\ UNCHANGED <<play, tag, on, plugged, events, fresh, present, tagPresent, queue, call,
                   checkAt, backs, label, matching>>

\* The timer of presentAtConnect.
CheckPresence ==
    /\ checkAt /\ checkAt' = FALSE
    /\ IF plugged # {} /\ ~tagPresent
       THEN queue' = AutoRead /\ cooling' = TRUE
       ELSE UNCHANGED <<queue, cooling>>
    /\ UNCHANGED <<play, tag, on, plugged, events, fresh, present, tagPresent, call, backs,
                   label, matching>>

\* A reader's "end", and a new "reader".
ForgetNot(r) == present         \* mutant: readerPresent keeps the name
Forget(r) == present \ {r}

Unplug(r) ==
    /\ r \in play.unplugs /\ play' = [play EXCEPT !.unplugs = @ \ {r}]
    /\ r \in plugged /\ plugged' = plugged \ {r}
    /\ events' = [events EXCEPT ![r] = <<>>]
    /\ fresh' = fresh \ {r} /\ present' = Forget(r)
    /\ Shows(tagPresent /\ plugged' # {})
    /\ queue' = Unlinked(on[r])
    /\ UNCHANGED <<tag, on, call, cooling, checkAt, backs, matching>>

Plug(r) ==
    /\ r \in play.readers \ plugged /\ plugged' = plugged \cup {r}
    /\ fresh' = fresh \cup {r}
    /\ events' = Reported(r, on[r] # None)
    /\ UNCHANGED <<play, tag, on, present, tagPresent, queue, call, cooling, checkAt, backs,
                   label, matching>>

-----------------------------------------------------------------------------
(* Requests, and the queue.                                                *)

Ask(c, op) ==
    /\ call[c] = "idle" /\ c \in play.calls
    /\ op.kind \in play.asks
    /\ queue' = Append(queue, op)
    /\ call' = [call EXCEPT ![c] = "waiting"]
    /\ UNCHANGED <<play, tag, backs, label, matching>> /\ UNCHANGED reader

\* withIpcTimeout: the caller is told, and the signal is set.
Timeout(c) ==
    /\ call[c] = "waiting"
    /\ call' = [call EXCEPT ![c] = "timeout"]
    /\ UNCHANGED <<play, tag, queue, backs, label, matching>> /\ UNCHANGED reader

\* Some time after a write that was answered, the tag is read back.
ReadBack ==
    /\ backs > 0 /\ backs' = backs - 1
    /\ queue' = Append(queue, Op("read", None, None, 0))
    /\ UNCHANGED <<play, tag, call, label, matching>> /\ UNCHANGED reader

\* The head of the queue is done: its caller is answered if it still waits, and
\* the window shows the name that was written, or none.
Waits(op) == op.call # None /\ call[op.call] = "waiting"
Ends(a) ==
    /\ queue' = Tail(queue)
    /\ IF Waits(Head1)
       THEN /\ call' = [call EXCEPT ![Head1.call] = a]
            /\ backs' = IF a = "ok" /\ Head1.kind = "write" THEN backs + 1 ELSE backs
            /\ label' = CASE a = "ok" /\ Head1.kind = "write" -> Head1.payload
                          [] a = "ok" /\ Head1.kind = "erase" -> None
                          [] OTHER -> label
       ELSE UNCHANGED <<call, backs, label>>

\* An automatic read sends what it found to the window.
Sends(t) ==
    matching' = IF Head1.call = None /\ Decoded(tag[t]) \in Payloads
                THEN Decoded(tag[t]) ELSE matching

Goes(op) == queue' = [queue EXCEPT ![1] = op] /\ UNCHANGED <<call, backs, label>>

GivenUpNever(op) == FALSE      \* mutant: the signal is not looked at
GivenUp(op) == op.call # None /\ call[op.call] = "timeout"

\* runExclusive: the signal is looked at when an operation's turn comes.
Begin ==
    /\ Running("queued")
    /\ IF GivenUp(Head1) THEN Ends("error")
       ELSE Goes([Head1 EXCEPT !.pc = IF Head1.kind = "write" THEN "probe" ELSE "bambu",
                               !.late = Head1.call # None /\ call[Head1.call] = "timeout"])
    /\ UNCHANGED <<play, tag, matching>> /\ UNCHANGED reader

\* createScanMatchHandler: the latest tag read, once it is looked up.
Match ==
    /\ matching # None
    /\ label' = matching /\ matching' = None
    /\ UNCHANGED <<play, tag, queue, call, backs>> /\ UNCHANGED reader

-----------------------------------------------------------------------------
(* The operations.  Each connection finds the tag that lies there now.     *)

Reachable == {on[r] : r \in plugged} \ {None}
Glitch == play.fails > 0 /\ play' = [play EXCEPT !.fails = @ - 1]
Same == UNCHANGED <<tag, matching>> /\ UNCHANGED reader

\* connect() has tried for seconds; what it found is known to the caller later.
NoTag ==
    /\ queue # <<>> /\ Head1.pc \in {"probe", "ntag", "slix2", "verify"}
    /\ \/ Reachable = {} /\ UNCHANGED play
       \/ Reachable # {} /\ Glitch
    /\ Goes([Head1 EXCEPT !.pc = "notag"])
    /\ Same

\* "Cannot connect to tag".  After an automatic read, clearPhantomPresence.
CannotConnect ==
    /\ Running("notag")
    /\ IF Head1.kind = "read" /\ Head1.call = None /\ plugged # {}
       THEN queue' = Tail(queue) /\ Shows(FALSE) /\ UNCHANGED <<call, backs>>
       ELSE Ends("error") /\ UNCHANGED tagPresent
    /\ UNCHANGED <<play, tag, on, plugged, events, fresh, present, cooling, checkAt, matching>>

\* isBambuTag and readBambuTag, in a connection of their own; any failure means
\* that it is none.
BambuCheck ==
    /\ Running("bambu")
    /\ \/ \E t \in Reachable :
             /\ Chip[t] = "bambu"
             /\ \/ Head1.kind = "read" /\ Ends("ok") /\ Sends(t)
                \/ Head1.kind # "read" /\ Ends("error") /\ UNCHANGED matching
             /\ UNCHANGED play
       \/ /\ \/ Reachable = {} /\ UNCHANGED play
             \/ (\E t \in Reachable : Chip[t] # "bambu") /\ UNCHANGED play
             \/ Reachable # {} /\ Glitch
          /\ Goes([Head1 EXCEPT !.pc = "probe"]) /\ UNCHANGED matching
    /\ UNCHANGED tag /\ UNCHANGED reader

\* detectType2Head, in a connection of its own; any failure means no NTAG.
Misplaced(op, ntag) ==
    \/ op.kind \in {"lock", "unlock"} /\ ntag
    \/ op.kind = "write" /\ ntag # (Standard[op.payload] = "opentag3d")

Probe ==
    /\ Running("probe")
    /\ \E t \in Reachable, ntag \in BOOLEAN :
          /\ IF ntag = IsNtag(t) THEN UNCHANGED play ELSE ~ntag /\ Glitch
          /\ IF Misplaced(Head1, ntag) THEN Ends("error") /\ UNCHANGED matching
             ELSE IF Head1.kind = "read" /\ ntag THEN Ends("ok") /\ Sends(t)
             ELSE Goes([Head1 EXCEPT !.pc = IF ntag THEN "ntag" ELSE "slix2"])
                  /\ UNCHANGED matching
    /\ UNCHANGED tag /\ UNCHANGED reader

Least(a, b) == IF a < b THEN a ELSE b

\* resolveNtagWriteSize: what GET_VERSION says, else what the user says, else
\* what a 213 has.  0: unknown.
WriteSize(m, version, hint) ==
    CASE version # 0 -> [ndef |-> version, format |-> m.cc = "blank" \/ m.size # version]
      [] version = 0 /\ hint # 0 -> [ndef |-> hint, format |-> TRUE]
      [] OTHER -> [ndef |-> IF m.cc = "blank" THEN 0 ELSE Least(m.size, 1), format |-> FALSE]

\* The last page a capacity implies is read first: it must be there.
ProvenTlv(t, s, p) == Len1[p] <= Extent[t]      \* mutant: the page the data reaches
Proven(t, s, p) == s <= 1 \/ s <= Extent[t] \/ play.shorts

\* resolveNtagEraseSize: GET_VERSION, else a read of the end of a 216.
EraseSize(t, version) ==
    IF version # 0 THEN version ELSE IF Extent[t] = 3 THEN 3 ELSE 0

\* The chip is looked at again in the connection that writes.
Refuses(m) == m.cc = "foreign"

OpenNtag ==
    /\ Running("ntag")
    /\ \E t \in Reachable, version \in {0, 1, 2, 3} :
          /\ version \in {0, Extent[t]} /\ (~IsNtag(t) => version = 0)
          /\ LET w == WriteSize(tag[t], version, Head1.hint)
                 n == IF Head1.kind = "write" THEN w.ndef ELSE EraseSize(t, version)
                 fits == Head1.kind = "write" =>
                            /\ Len1[Head1.payload] <= n
                            /\ Proven(t, n, Head1.payload)
             IN \/ /\ ~IsNtag(t) \/ Refuses(tag[t]) \/ n = 0 \/ ~fits
                   /\ Ends("error") /\ UNCHANGED play
                \/ Ends("error") /\ Glitch
                \/ /\ IsNtag(t) /\ ~Refuses(tag[t]) /\ n # 0 /\ fits
                   /\ Goes([Head1 EXCEPT !.tag = t, !.link = TRUE, !.ntag = TRUE, !.size = n, !.todo = 1,
                              !.pc = IF Head1.kind = "erase" \/ w.format THEN "cc" ELSE "data"])
                   /\ UNCHANGED play
    /\ Same

\* Locking needs a record of this program's kind; the record's header counts.
OursAny(m) == m.cc = "ndef"     \* mutant: any CC will do
Ours(m) == m.cc = "ndef" /\ m.mem[1] \in Payloads /\ Standard[m.mem[1]] = "openprinttag"

OpenSlix2 ==
    /\ Running("slix2")
    /\ \E t \in Reachable :
          LET m == tag[t]
              bad == \/ Chip[t] # "slix2"
                     \/ Head1.kind \in {"write", "erase"} /\ Refuses(m)
                     \/ Head1.kind = "write" /\ m.locked
                     \/ Head1.kind \in {"lock", "unlock"} /\ ~Ours(m)
          IN \/ bad /\ Ends("error") /\ UNCHANGED <<play, matching>>
             \/ Ends("error") /\ Glitch /\ UNCHANGED matching
             \/ /\ ~bad /\ Head1.kind = "read"
                /\ Ends("ok") /\ Sends(t) /\ UNCHANGED play
             \/ /\ ~bad /\ Head1.kind # "read"
                /\ Goes([Head1 EXCEPT !.tag = t, !.link = TRUE, !.size = 2, !.todo = 1,
                           !.pc = IF Head1.kind \in {"lock", "unlock"} THEN "flip" ELSE "cc"])
                /\ UNCHANGED <<play, matching>>
    /\ UNCHANGED tag /\ UNCHANGED reader

\* Every exchange fails once the tag is gone.
Broken == \/ ~Head1.link /\ UNCHANGED play
          \/ Head1.link /\ Glitch

WriteCc ==
    /\ Running("cc")
    /\ \/ /\ Head1.link
          /\ tag' = [tag EXCEPT ![Head1.tag] = [@ EXCEPT !.cc = "ndef", !.size = Head1.size,
                                                   !.locked = FALSE]]
          /\ Goes([Head1 EXCEPT !.pc = "data"])
          /\ UNCHANGED play
       \/ Broken /\ Ends("error") /\ UNCHANGED tag
    /\ UNCHANGED matching /\ UNCHANGED reader

\* A write fills an SLIX2 to its end, and an NTAG as far as the data goes.
LastRegion(op) == IF op.ntag /\ op.kind = "write" THEN Len1[op.payload] ELSE op.size
Piece(op) == IF op.kind = "write" /\ op.todo <= Len1[op.payload] THEN op.payload ELSE Zero

WriteData ==
    /\ Running("data") /\ Head1.link
    /\ LET t == Head1.tag IN
       tag' = IF IsNtag(t) /\ Head1.todo > Extent[t] THEN [tag EXCEPT ![t].spoilt = TRUE]
              ELSE [tag EXCEPT ![t].mem[Head1.todo] = Piece(Head1)]
    /\ IF Head1.todo < LastRegion(Head1) THEN Goes([Head1 EXCEPT !.todo = @ + 1])
       ELSE IF Head1.ntag /\ Head1.kind = "write"
       THEN Goes([Head1 EXCEPT !.pc = "verify", !.link = FALSE])
       ELSE Ends("ok")
    /\ UNCHANGED <<play, matching>> /\ UNCHANGED reader

\* The end of an SLIX2 may be protected: erasing it stops at the first block
\* after the second that cannot be written, and that is no error.
ForgivenWrites(op) == ~op.ntag /\ op.todo > 1      \* mutant: of a write as well
ForgivenAll(op) == ~op.ntag /\ op.kind = "erase"   \* mutant: of any block
Forgiven(op) == ~op.ntag /\ op.todo > 1 /\ op.kind = "erase"

WriteFails ==
    /\ Running("data")
    /\ Broken
    /\ \/ UNCHANGED tag
       \/ /\ Head1.link
          /\ \E c \in {Torn, Piece(Head1)} : tag' = [tag EXCEPT ![Head1.tag].mem[Head1.todo] = c]
    /\ Ends(IF Forgiven(Head1) THEN "ok" ELSE "error")
    /\ UNCHANGED matching /\ UNCHANGED reader

\* An NTAG is read back in a fresh connection.
Verified(t, p) == IsNtag(t) /\ Decoded(tag[t]) = p

Verify ==
    /\ Running("verify")
    /\ \E t \in Reachable :
          \/ Ends(IF Verified(t, Head1.payload) THEN "ok" ELSE "error") /\ UNCHANGED play
          \/ Ends("error") /\ Glitch
    /\ Same

Flip ==
    /\ Running("flip")
    /\ \/ /\ Head1.link
          /\ tag' = [tag EXCEPT ![Head1.tag].locked = (Head1.kind = "lock")]
          /\ Ends("ok") /\ UNCHANGED play
       \/ Broken /\ Ends("error") /\ UNCHANGED tag
    /\ UNCHANGED matching /\ UNCHANGED reader

-----------------------------------------------------------------------------
Asks(c) ==
    \/ \E p \in Payloads, hint \in 0..3 :
          /\ IF Standard[p] = "other" THEN FALSE ELSE Standard[p] = "opentag3d" \/ hint = 0
          /\ Ask(c, Op("write", c, p, hint))
    \/ \E k \in Kinds \ {"write"} : Ask(c, Op(k, c, None, 0))

User == \E r \in Readers :
    Lift(r) \/ Phantom(r) \/ Unplug(r) \/ Plug(r) \/ \E t \in Tags : Place(r, t)
Callers == (\E c \in Calls : Asks(c) \/ Timeout(c)) \/ ReadBack \/ Match
Presence == (\E r \in Readers : Status(r)) \/ CoolDown \/ CheckPresence
Service ==
    \/ Begin \/ BambuCheck \/ Probe \/ OpenNtag \/ OpenSlix2 \/ NoTag \/ CannotConnect
    \/ WriteCc \/ WriteData \/ WriteFails \/ Verify \/ Flip

Next == User \/ Callers \/ Presence \/ Service

Spec == Init /\ [][Next]_vars

-----------------------------------------------------------------------------
Queued == [kind : Kinds, call : Calls \cup {None}, payload : Payloads \cup {None}, hint : 0..3,
           pc : {"queued", "bambu", "probe", "ntag", "slix2", "cc", "data", "verify", "flip",
                 "notag"},
           late : BOOLEAN, tag : Tags \cup {None}, link : BOOLEAN, ntag : BOOLEAN,
           size : 0..3, todo : 0..3]

\* Every variable keeps its type, and only the head of the queue has begun.
TypeOK ==
    /\ play \in Play
    /\ tag \in [Tags -> Memory]
    /\ on \in [Readers -> Tags \cup {None}]
    /\ plugged \subseteq Readers /\ fresh \subseteq plugged /\ present \subseteq plugged
    /\ events \in [Readers -> Seq(BOOLEAN)]
    /\ tagPresent \in BOOLEAN /\ cooling \in BOOLEAN /\ checkAt \in BOOLEAN
    /\ queue \in Seq(Queued)
    /\ \A i \in DOMAIN queue : (i > 1 => queue[i].pc = "queued")
    /\ call \in [Calls -> {"idle", "waiting", "ok", "error", "timeout"}]
    /\ label \in Payloads \cup {None} /\ matching \in Payloads \cup {None}
    /\ backs \in Nat

\* Whichever tags are swapped between the connections of a request: a tag whose
\* CC is neither ours nor blank, and a Bambu tag, are never changed; a locked one
\* only by erasing or unlocking it; and none is locked that does not hold a
\* record of this program.
OnlyLawfulChanges ==
    [][\A t \in Tags : tag'[t] # tag[t] =>
        /\ tag[t].cc # "foreign" /\ Chip[t] # "bambu"
        /\ tag[t].locked => Head1.kind \in {"erase", "lock", "unlock"}
        /\ tag'[t].locked /\ ~tag[t].locked =>
              tag[t].mem[1] \in Payloads /\ Standard[tag[t].mem[1]] = "openprinttag"]_vars

\* Whatever size the user declares and the reader reports, nothing is written
\* behind the memory of a chip ("a brick the [3,255] page bound can't catch"), and
\* no CC is written that promises more than there is.
WithinChip ==
    \A t \in Tags : ~tag[t].spoilt /\ (tag[t].size <= Extent[t] \/ tag[t].size = Start[t].size)

\* A request whose caller was told of a timeout before its turn came changes no
\* tag: the tag may be another by now.
LateRequestsChangeNothing ==
    [][tag' # tag => queue # <<>> /\ ~Head1.late]_vars

Succeeds(kind) ==
    queue # <<>> /\ Head1.kind = kind /\ Waits(Head1) /\ call'[Head1.call] = "ok"

\* A write that is answered with success has left its payload, whole and within
\* the declared size, on the tag it found; swaps, tags taken away in the middle
\* and failing exchanges included.
OkMeansWritten ==
    [][Succeeds("write") => Decoded(tag'[Head1.tag]) = Head1.payload]_vars

\* A tag that was erased with success reads as blank, on either kind of chip.
ErasedReadsBlank ==
    [][Succeeds("erase") => Decoded(tag'[Head1.tag]) = "blank"]_vars

\* ... and nothing of the old data is left on it.  ("zero everything else")
ErasedIsEmpty ==
    [][Succeeds("erase") => \A i \in 1..Extent[Head1.tag] : tag'[Head1.tag].mem[i] = Zero]_vars

Handled == \A r \in Readers : events[r] = <<>>

\* Once all is reported, no tag is shown when every reader is empty.
RemovalIsSeen ==
    (play.phantoms = {} /\ Handled /\ \A r \in plugged : on[r] = None) => ~tagPresent

\* Taking away the last tag is seen even if some reader reported one that was not
\* there.  ("phantom "present" permanently blocks tag-removal detection")
RemovalEndsPresence ==
    [][(\A r \in plugged : on[r] = None)
        => \A r \in plugged : (events[r] = <<FALSE>> /\ Handled') => ~tagPresent']_vars

\* Once all is done, the name the window shows for the tag that lies there is
\* that tag's.
NameIsOfTheTag ==
    (Handled /\ queue = <<>> /\ matching = None /\ backs = 0 /\ tagPresent /\ label # None)
        => \E r \in plugged : on[r] # None /\ Decoded(tag[on[r]]) = label

\* The state of tags and readers: no chip is spoilt, no empty reader shows a tag.
Inv == TypeOK /\ WithinChip /\ RemovalIsSeen

\* What a step may do to a tag, whoever swaps tags or gives up meanwhile.
TagsRespected == OnlyLawfulChanges /\ LateRequestsChangeNothing

\* An answer of success is true, of writing and of erasing.
SuccessIsTrue == OkMeansWritten /\ ErasedReadsBlank
=============================================================================
