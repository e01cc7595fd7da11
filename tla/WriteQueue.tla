----------------------------- MODULE WriteQueue -----------------------------
(***************************************************************************)
(* The mobile app's offline queue (packages/mobile/src/lib/writeQueue.ts,  *)
(* with serverConfig.tsx, app/_layout.tsx and the outcomes of lib/api.ts). *)
(* A spool edit is sent at once if nothing waits; if the server cannot be  *)
(* reached it is stored and replayed later, first in first out.  Usage and *)
(* dry cycles are not idempotent and are never stored.                     *)
(*                                                                         *)
(* A request may reach the server or not, and the app may hear of it or    *)
(* not; the app may be killed at any await, the user may move to another   *)
(* server, and edits may overlap, also those of one spool: its buttons     *)
(* wait for the edit under way, but that is state of the mounted row, lost *)
(* when the screen is left and opened again.  A section under the queue's  *)
(* lock (first come, first served), and what its caller does up to the     *)
(* next await, are one step.                                               *)
(***************************************************************************)
EXTENDS Naturals, Sequences, FiniteSets, SequencesExt

CONSTANTS
    Writes, Usage, Spools, SpoolOf,     \* edits; those that are not idempotent
    Servers,
    Flusher,    \* flushQueue, as the sender of a request
    Other,      \* the edit of another client
    None,
    MaxQueue,   \* MAX_QUEUE
    Plays,      \* what may go wrong
    MaxFaults   \* bound on what goes wrong

Senders == Writes \cup {Flusher}
Idempotent(w) == w \notin Usage     \* isQueueable

\* edits: those the user makes; losses: requests without their normal answer; late: may a request that the app
\* gave up still be served; other: edits of other clients; midSave: may the user
\* edit while the address is being saved; unsaved: times that fails.
Play == [edits : SUBSET Writes, losses : 0..MaxFaults, kills : 0..MaxFaults, switches : 0..MaxFaults,
         other : 0..MaxFaults, unsaved : 0..MaxFaults, late : BOOLEAN, midSave : BOOLEAN]

Msg == [w : Writes, srv : Servers, served : BOOLEAN]    \* a request that waits for its answer

ASSUME WriteQueueAssumption ==
    /\ Usage \subseteq Writes /\ SpoolOf \in [Writes -> Spools]
    /\ Flusher \notin Writes /\ Other \notin Writes /\ None \notin Senders \cup Servers \cup Msg
    /\ Other # None
    /\ MaxQueue \in Nat \ {0} /\ MaxFaults \in Nat /\ Plays \subseteq Play

VARIABLES
    play,
    stored,     \* the queue in AsyncStorage
    generation,
    api,        \* the server the screens talk to (React state)
    kept,       \* the server in SecureStore
    saving,     \* save(): the address that is being saved, and how far
    call,       \* call[w]: submitWrite of edit w
    flush,      \* flushQueue
    req,        \* req[x]: the request x waits for
    late,       \* requests given up that have not been served
    val,        \* val[srv][p]: the latest edit of the spool
    begun,      \* history: the edits in the order the user made them
    beside,     \* history: edits of the same spool that were under way when it was made
    home,       \* history: the server each was made for
    told,       \* history: what the user was told
    sent,       \* history: times each was served
    excused     \* history: refused for good, evicted, or cleared by a save

vars == <<play, stored, generation, api, kept, saving, call, flush, req, late, val,
          begun, beside, home, told, sent, excused>>
server == <<late, val, sent>>
config == <<generation, api, kept, saving>>

NoCall == [pc |-> "new", gen |-> 0, srv |-> None]
NoFlush == [pc |-> "off", gen |-> 0, srv |-> None, head |-> None, by |-> Flusher]
NotSaving == [pc |-> "no", to |-> None]

Init ==
    /\ play \in Plays
    /\ stored = <<>> /\ generation = 0
    /\ api \in Servers /\ kept = api /\ saving = NotSaving
    /\ call = [w \in Writes |-> NoCall] /\ flush = NoFlush
    /\ req = [x \in Senders |-> None] /\ late = {}
    /\ val = [s \in Servers |-> [p \in Spools |-> None]]
    /\ begun = <<>> /\ beside = [w \in Writes |-> {}] /\ home = [w \in Writes |-> None] /\ told = [w \in Writes |-> "nothing"]
    /\ sent = [w \in Writes |-> 0] /\ excused = {}

-----------------------------------------------------------------------------
(* Requests (lib/api.ts).                                                  *)

Send(x, w, srv) == req' = [req EXCEPT ![x] = [w |-> w, srv |-> srv, served |-> FALSE]]

Served(m) == /\ val' = [val EXCEPT ![m.srv][SpoolOf[m.w]] = m.w]
             /\ sent' = [sent EXCEPT ![m.w] = @ + 1]

Serve(x) ==
    /\ req[x] # None /\ ~req[x].served
    /\ Served(req[x])
    /\ req' = [req EXCEPT ![x].served = TRUE]
    /\ UNCHANGED <<play, stored, call, flush, late, begun, beside, home, told, excused>>
    /\ UNCHANGED config

ServeLate ==
    /\ \E m \in late : Served(m) /\ late' = late \ {m}
    /\ UNCHANGED <<play, stored, call, flush, req, begun, beside, home, told, excused>>
    /\ UNCHANGED config

Elsewhere ==
    /\ play.other > 0 /\ play' = [play EXCEPT !.other = @ - 1]
    /\ \E s \in Servers, p \in Spools : val' = [val EXCEPT ![s][p] = Other]
    /\ UNCHANGED <<stored, call, flush, req, late, begun, beside, home, told, sent, excused>>
    /\ UNCHANGED config

\* "ok"; "committed", the reply was lost after its status; "none", status 0;
\* "busy", an error that may pass (isTransient); "bad", one that will not.
Outcomes(m) == IF m.served THEN {"ok", "committed", "none"} ELSE {"none", "busy", "bad"}

\* x hears o, and w of its request is out of its hands.
Hears(x, o) ==
    /\ req[x] # None /\ o \in Outcomes(req[x])
    /\ o # "ok" => play.losses > 0
    /\ play' = IF o = "ok" THEN play ELSE [play EXCEPT !.losses = @ - 1]
    /\ req' = [req EXCEPT ![x] = None]
    /\ late' = IF o = "none" /\ ~req[x].served /\ play.late
               THEN late \cup {[w |-> req[x].w, srv |-> req[x].srv]} ELSE late

-----------------------------------------------------------------------------
(* The queue.                                                              *)

\* enqueue: over the cap the oldest goes, but not the one that is being sent.
TrimNothing(q) == q     \* mutant
TrimOldest(q) == IF Len(q) > MaxQueue THEN RemoveAt(q, 1) ELSE q    \* mutant
Trim(q) == IF Len(q) > MaxQueue
           THEN RemoveAt(q, IF flush.pc # "off" /\ Len(q) > 1 THEN 2 ELSE 1) ELSE q

Evicted(q) == ToSet(q) \ ToSet(Trim(q))

Answered(w, t) == call' = [call EXCEPT ![w].pc = "done"] /\ told' = [told EXCEPT ![w] = t]
Goto(w, pc) == call' = [call EXCEPT ![w].pc = pc] /\ UNCHANGED told

CurrentAnyway(gen) == TRUE      \* mutant: whatever server it was for
Current(gen) == gen = generation

-----------------------------------------------------------------------------
(* submitWrite.                                                            *)

Ahead(w) == {v \in Writes : SpoolOf[v] = SpoolOf[w] /\ call[v].pc \notin {"new", "done"}}

\* flushQueue, with its first look at the queue.
Peek(f) == LET head == IF Current(f.gen) /\ stored # <<>> THEN Head(stored) ELSE None IN
           IF head = None THEN flush' = NoFlush /\ UNCHANGED req
           ELSE flush' = [f EXCEPT !.pc = "sent", !.head = head] /\ Send(Flusher, head, f.srv)

StartFlush(by, srv) ==
    Peek([NoFlush EXCEPT !.pc = "peek", !.gen = generation, !.srv = srv, !.by = by])

\* pendingCount; what waits is flushed first, unless somebody does.  A row's buttons
\* wait for its submitWrite, but a row that is shown anew knows of none.
Begin(w) ==
    /\ w \in play.edits /\ call[w].pc = "new"
    /\ saving.pc = "no" \/ play.midSave
    /\ call' = [call EXCEPT ![w] = [pc |-> IF stored = <<>> THEN "again" ELSE "flush",
                                    gen |-> generation, srv |-> api]]
    /\ IF stored # <<>> /\ flush.pc = "off" THEN StartFlush(w, api) ELSE UNCHANGED <<flush, req>>
    /\ begun' = Append(begun, w) /\ beside' = [beside EXCEPT ![w] = Ahead(w)]
    /\ home' = [home EXCEPT ![w] = api]
    /\ UNCHANGED <<play, stored, told, excused>> /\ UNCHANGED <<config, server>>

FlushDone(w) ==
    /\ call[w].pc = "flush" /\ ~(flush.pc # "off" /\ flush.by = w)
    /\ Goto(w, "again")
    /\ UNCHANGED <<play, stored, flush, req, begun, beside, home, excused>> /\ UNCHANGED <<config, server>>

SeenEmpty == TRUE           \* mutant: the flush has emptied it
NothingWaits == stored = <<>>

\* The server may have changed while that flush ran, or during this read.
CheckServer(w) ==
    /\ call[w].pc = "again"
    /\ IF Current(call[w].gen) THEN Goto(w, "count") ELSE Answered(w, "changed")
    /\ UNCHANGED <<play, stored, flush, req, begun, beside, home, excused>> /\ UNCHANGED <<config, server>>

CountAgain(w) ==
    /\ call[w].pc = "count"
    /\ LET c == call[w] IN
       IF NothingWaits /\ Current(c.gen)
       THEN Goto(w, "sent") /\ Send(w, w, c.srv)
       ELSE /\ UNCHANGED req
            /\ IF NothingWaits THEN Answered(w, "changed")
               ELSE IF Idempotent(w) THEN Goto(w, "enqueue") ELSE Answered(w, "refused")
    /\ UNCHANGED <<play, stored, flush, begun, beside, home, excused>> /\ UNCHANGED <<config, server>>

ReplaysAll(w) == TRUE       \* mutant: usage is stored as well
Replays(w) == Idempotent(w)

Answer(w) ==
    /\ call[w].pc = "sent"
    /\ \E o \in Outcomes(req[w]) :
          /\ Hears(w, o)
          /\ IF o = "none" /\ Replays(w) THEN Goto(w, "enqueue")
             ELSE Answered(w, IF o \in {"ok", "committed"} THEN "saved" ELSE "refused")
    /\ UNCHANGED <<stored, flush, val, sent, begun, beside, home, excused>> /\ UNCHANGED config

Enqueue(w) ==
    /\ call[w].pc = "enqueue"
    /\ IF Current(call[w].gen)
       THEN /\ stored' = Trim(Append(stored, w))
            /\ excused' = excused \cup Evicted(Append(stored, w))
            /\ Answered(w, "queued")
       ELSE Answered(w, "changed") /\ UNCHANGED <<stored, excused>>
    /\ UNCHANGED <<play, flush, req, begun, beside, home>> /\ UNCHANGED <<config, server>>

-----------------------------------------------------------------------------
(* flushQueue.                                                             *)

\* When the app comes to the foreground, a screen gets the focus, or the address
\* has changed.
Foreground ==
    /\ flush.pc = "off" /\ stored # <<>>
    /\ StartFlush(Flusher, api)
    /\ UNCHANGED <<play, stored, call, begun, beside, home, told, excused>> /\ UNCHANGED <<config, server>>

PeekNext ==
    /\ flush.pc = "peek"
    /\ Peek(flush)
    /\ UNCHANGED <<play, stored, call, begun, beside, home, told, excused>> /\ UNCHANGED <<config, server>>

KeepsUnreached(o) == o = "none"     \* mutant: an error status is final
Keeps(o) == o \in {"none", "busy"}

\* An error that may pass ends the flush and leaves the head where it is.
StopsStuck == [flush EXCEPT !.pc = "stuck"]     \* mutant: `flushing` stays set
Stops == NoFlush

FlushAnswer ==
    /\ flush.pc = "sent"
    /\ \E o \in Outcomes(req[Flusher]) :
          /\ Hears(Flusher, o)
          /\ flush' = IF Keeps(o) THEN Stops ELSE [flush EXCEPT !.pc = "remove"]
          /\ excused' = IF o = "bad" THEN excused \cup {flush.head} ELSE excused
    /\ UNCHANGED <<stored, call, val, sent, begun, beside, home, told>> /\ UNCHANGED config

\* A head that is gone was cleared with the server it was for.
RemoveHead ==
    /\ flush.pc = "remove"
    /\ IF flush.head \in ToSet(stored)
       THEN /\ \E i \in DOMAIN stored : stored[i] = flush.head /\ stored' = RemoveAt(stored, i)
            /\ flush' = [flush EXCEPT !.pc = "peek"]
       ELSE flush' = NoFlush /\ UNCHANGED stored
    /\ UNCHANGED <<play, call, req, begun, beside, home, told, excused>> /\ UNCHANGED <<config, server>>

-----------------------------------------------------------------------------
(* save of serverConfig.tsx, and the end of the app.                       *)

\* Whoever holds the queue's lock meanwhile comes before the wipe.
ClearQueue(to) ==
    /\ saving.pc = "no" /\ to # api
    /\ play.switches > 0 /\ play' = [play EXCEPT !.switches = @ - 1]
    /\ generation' = generation + 1
    /\ stored' = <<>> /\ excused' = excused \cup ToSet(stored)
    /\ saving' = [pc |-> "persist", to |-> to]
    /\ UNCHANGED <<api, kept, call, flush, req, begun, beside, home, told>> /\ UNCHANGED server

Persist ==
    /\ saving.pc = "persist"
    /\ kept' = saving.to /\ saving' = [saving EXCEPT !.pc = "set"]
    /\ UNCHANGED <<play, stored, generation, api, call, flush, req, begun, beside, home, told, excused>>
    /\ UNCHANGED server

PersistFails ==
    /\ saving.pc = "persist"
    /\ play.unsaved > 0 /\ play' = [play EXCEPT !.unsaved = @ - 1]
    /\ saving' = NotSaving
    /\ UNCHANGED <<stored, generation, api, kept, call, flush, req, begun, beside, home, told, excused>>
    /\ UNCHANGED server

SetServer ==
    /\ saving.pc = "set"
    /\ api' = saving.to /\ saving' = NotSaving
    /\ UNCHANGED <<play, stored, generation, kept, call, flush, req, begun, beside, home, told, excused>>
    /\ UNCHANGED server

Kill ==
    /\ play.kills > 0 /\ play' = [play EXCEPT !.kills = @ - 1]
    /\ generation' = 0 /\ api' = kept /\ saving' = NotSaving
    /\ call' = [w \in Writes |-> IF call[w].pc = "new" THEN NoCall ELSE [NoCall EXCEPT !.pc = "done"]]
    /\ flush' = NoFlush
    /\ req' = [x \in Senders |-> None]
    /\ late' = IF play.late
               THEN late \cup {[w |-> req[x].w, srv |-> req[x].srv] :
                                 x \in {y \in Senders : req[y] # None /\ ~req[y].served}}
               ELSE late
    /\ UNCHANGED <<stored, kept, val, begun, beside, home, told, sent, excused>>

-----------------------------------------------------------------------------
SubmitWrite(w) == FlushDone(w) \/ CheckServer(w) \/ CountAgain(w) \/ Answer(w) \/ Enqueue(w)
FlushQueue == PeekNext \/ FlushAnswer \/ RemoveHead
Save == Persist \/ PersistFails \/ SetServer

Next ==
    \/ \E w \in Writes : Begin(w) \/ SubmitWrite(w)
    \/ Foreground \/ FlushQueue
    \/ \E x \in Senders : Serve(x)
    \/ ServeLate \/ Elsewhere
    \/ \E s \in Servers : ClearQueue(s)
    \/ Save \/ Kill

Spec == Init /\ [][Next]_vars

\* The app goes on, comes to the foreground now and then, and a request that is not
\* lost is served and answered.
Fairness ==
    /\ \A w \in Writes : WF_vars(SubmitWrite(w))
    /\ \A x \in Senders : WF_vars(Serve(x))
    /\ WF_vars(FlushQueue) /\ WF_vars(Foreground) /\ WF_vars(Save)
FairSpec == Spec /\ Fairness

-----------------------------------------------------------------------------
\* Every variable keeps its type, and nothing is stored twice.
TypeOK ==
    /\ play \in Play
    /\ stored \in Seq(Writes) /\ Len(stored) <= MaxQueue
    /\ \A i, j \in DOMAIN stored : stored[i] = stored[j] => i = j
    /\ generation \in 0..MaxFaults /\ api \in Servers /\ kept \in Servers
    /\ \A s \in Servers, p \in Spools : val[s][p] \in Writes \cup {None, Other}
    /\ flush.pc = "sent" <=> req[Flusher] # None
    /\ \A w \in Writes : call[w].pc = "sent" <=> req[w] # None

\* GH #709, GH #1210: an edit is only ever sent to the server it was made for,
\* whatever was waiting, in flight or being flushed when the user moved on.
SentHome == \A x \in Senders : req[x] # None => req[x].srv = home[req[x].w]

\* An edit the user was told is saved for syncing is in the queue until its server
\* has it: not after a kill, a timeout, a lost reply or a race with the flush.
\* Refused for good, evicted at the cap or cleared with the server apart.
NothingForgotten ==
    \A w \in Writes : told[w] = "queued" =>
        \/ w \in ToSet(stored) \cup excused
        \/ sent[w] > 0

\* Usage is never applied twice: what the app does not know it does not repeat.
UsageOnce == \A w \in Usage : sent[w] <= 1

\* Two edits of a spool, of which one was made while the other was under way.
Crossed(v, w) == v \in beside[w] \/ w \in beside[v]

\* An edit never overwrites one the user made later, replays included; unless the
\* later one was made while the first was under way, a request that was given up is
\* served after all, or a save dropped the edit while it was being sent.
At(w) == CHOOSE i \in DOMAIN begun : begun[i] = w
NewestEditStays ==
    [][\A s \in Servers, p \in Spools :
          LET old == val[s][p]
              new == val'[s][p]
          IN (~play.late /\ old \in Writes /\ new \in Writes \ excused /\ ~Crossed(old, new))
                => At(old) <= At(new)]_vars

\* "replaying one is a no-op": what was applied already changes nothing, as long as
\* nobody else edits the spool and no edit that was under way beside it, or that was
\* dropped while it was being sent, has come in between.
ReplayIsNoOp ==
    [][\A s \in Servers, p \in Spools, w \in Writes \ excused :
          (/\ ~play.late /\ val'[s][p] = w
           /\ val[s][p] \notin {w, Other} \cup excused \cup {v \in Writes : Crossed(v, w)})
             => sent[w] = 0]_vars

\* No live write "would let an OLDER queued write replay on top of it", edits that
\* overlap included.
NoOlderReplay ==
    [][\A s \in Servers, p \in Spools :
          LET old == val[s][p]
              new == val'[s][p]
          IN (/\ ~play.late /\ old \in Writes /\ new \in Writes \ excused
              /\ flush.head = new /\ req'[Flusher] # req[Flusher])
                => At(old) <= At(new)]_vars

\* The same with other clients about, and with requests served late.
ReplayIsHarmless ==
    [][\A s \in Servers, p \in Spools, w \in Writes :
          (val'[s][p] = w /\ val[s][p] # w) => sent[w] = 0]_vars

\* The entry a flush is sending leaves the queue by its answer or with its server,
\* and is never the one to go over the cap.
HeadIsSpared ==
    [][(flush.pc = "sent" /\ flush.head \in ToSet(stored) /\ flush'.pc = "sent")
          => flush.head \in ToSet(stored') \/ generation' # generation]_vars

\* A queue drains once the server can be reached, whatever was refused or lost.
QueueDrains == []<>(stored = <<>>)

\* Edits are dropped only for another server.
KeptUnlessMoved ==
    \A w \in Writes : (told[w] = "queued" /\ sent[w] = 0 /\ saving.pc = "no" /\ home[w] = kept)
        => w \in ToSet(stored)

\* The state of queue and requests: nothing stored twice, nothing sent astray.
Inv == TypeOK /\ SentHome

\* An accepted edit is kept until its server has it, also at the cap and in flight.
EditsKept == []NothingForgotten /\ HeadIsSpared

\* What the servers make of sending and replaying: each spool shows the user's
\* newest edit, and usage is counted once.
AppliedInOrder == []UsageOnce /\ NewestEditStays /\ ReplayIsNoOp
=============================================================================
