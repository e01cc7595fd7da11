-------------------------- MODULE WriteQueueProofs --------------------------
(***************************************************************************)
(* The offline queue, proved for any edits, spools, servers and bounds.    *)
(* EditsInv: an accepted edit is in the queue, being sent, at its server,  *)
(* or excused.  UsageInv: an edit that adds is never stored once it was    *)
(* sent.  HomeInv: whoever is about to send does so for the address that   *)
(* was in use when the edit was made.  OrderInv: of two edits of a spool   *)
(* that did not overlap, the older is not waiting while the newer was sent *)
(* or is before it in the queue.  ReplayInv: a spool shows an edit that is *)
(* sent again, or one that overlapped it.                                  *)
(***************************************************************************)
EXTENDS WriteQueue, SequenceTheorems, TLAPS

Pcs == {"new", "flush", "again", "count", "sent", "enqueue", "done"}
Told == {"nothing", "saved", "queued", "changed", "refused"}
CallType == [pc : Pcs, gen : Nat, srv : Servers \cup {None}]
FlushType == [pc : {"off", "peek", "sent", "remove"}, gen : Nat, srv : Servers \cup {None},
              head : Writes \cup {None}, by : Senders]
SavingType == [pc : {"no", "persist", "set"}, to : Servers \cup {None}]

Types ==
    /\ play \in Play
    /\ stored \in Seq(Writes)
    /\ generation \in Nat
    /\ api \in Servers /\ kept \in Servers
    /\ saving \in SavingType
    /\ call \in [Writes -> CallType]
    /\ flush \in FlushType
    /\ req \in [Senders -> Msg \cup {None}]
    /\ late \subseteq [w : Writes, srv : Servers]
    /\ val \in [Servers -> [Spools -> Writes \cup {None, Other}]]
    /\ begun \in Seq(Writes)
    /\ beside \in [Writes -> SUBSET Writes]
    /\ home \in [Writes -> Servers \cup {None}]
    /\ told \in [Writes -> Told]
    /\ sent \in [Writes -> Nat]
    /\ excused \subseteq Writes

\* An edit whose submitWrite runs.
Active(w) == call[w].pc \notin {"new", "done"}
Flushing == flush.pc \in {"sent", "remove"}

\* Who waits for a request, and that the entry being flushed is the first.
Sends ==
    /\ generation + play.switches <= MaxFaults
    /\ saving.pc # "no" => saving.to \in Servers
    /\ Len(stored) <= MaxQueue
    /\ \A i, j \in DOMAIN stored : stored[i] = stored[j] => i = j
    /\ \A i \in DOMAIN stored : call[stored[i]].pc = "done"
    /\ flush.pc = "sent" <=> req[Flusher] # None
    /\ req[Flusher] # None => req[Flusher].w = flush.head
    /\ \A w \in Writes : call[w].pc = "sent" <=> req[w] # None
    /\ \A w \in Writes : req[w] # None => req[w].w = w
    /\ \A w \in Writes : Active(w) => call[w].srv \in Servers
    /\ flush.pc # "off" => flush.srv \in Servers
    /\ Flushing => flush.head \in Writes /\ call[flush.head].pc = "done"
    /\ \A i \in DOMAIN stored : Flushing /\ stored[i] = flush.head => i = 1

\* What was served, and what is dropped.
Serves ==
    /\ \A x \in Senders : req[x] # None /\ req[x].served => sent[req[x].w] > 0
    /\ flush.pc = "remove" => flush.head \in excused \/ sent[flush.head] > 0
    /\ NothingForgotten

UnsentUsage(u) == sent[u] = 0 /\ \A m \in late : m.w # u
OnceUsage(u) ==
    \/ sent[u] = 0 /\ \A m, n \in late : m.w = u /\ n.w = u => m = n
    \/ sent[u] = 1 /\ \A m \in late : m.w # u

UsageCall(u) ==
    /\ call[u].pc # "enqueue"
    /\ call[u].pc \in {"new", "flush", "again", "count"} => UnsentUsage(u)
    /\ call[u].pc = "sent" => /\ \A m \in late : m.w # u
                              /\ sent[u] = IF req[u].served THEN 1 ELSE 0
    /\ OnceUsage(u)

\* Usage never waits, and it is sent once.
UsageInv ==
    /\ \A i \in DOMAIN stored : stored[i] \notin Usage
    /\ Flushing => flush.head \notin Usage
    /\ \A u \in Usage : UsageCall(u)

HomeCall(w) ==
    Active(w) =>
        /\ call[w].srv = home[w]
        /\ call[w].gen <= generation
        /\ call[w].gen = generation => saving.pc = "no" /\ home[w] = api
HomeFlush ==
    flush.pc # "off" =>
        /\ flush.gen <= generation
        /\ flush.gen = generation => saving.pc = "no" /\ flush.srv = api

\* What is current was made for the server the screens talk to, and nothing is while
\* the address is being saved.
HomeInv ==
    /\ ~play.midSave
    /\ saving.pc # "no" => stored = <<>>
    /\ saving.pc \in {"no", "persist"} => kept = api
    /\ saving.pc = "set" => kept = saving.to
    /\ \A w \in Writes : HomeCall(w)
    /\ HomeFlush
    /\ \A i \in DOMAIN stored : home[stored[i]] = api
    /\ SentHome

\* v and w are edits of one spool, and v was over when w was made.
Before(v, w) == /\ v \notin beside[w]
                /\ \E i, j \in DOMAIN begun : /\ begun[i] = v /\ begun[j] = w /\ i < j
                                              /\ SpoolOf[v] = SpoolOf[w]

\* Edits of a spool that are under way together are on record as such, and a spool
\* shows one of its own.
HistoryInv ==
    /\ \A i, j \in DOMAIN begun : begun[i] = begun[j] => i = j
    /\ \A w \in Writes : call[w].pc # "new" => \E i \in DOMAIN begun : begun[i] = w
    /\ \A i \in DOMAIN begun : call[begun[i]].pc # "new"
    /\ \A w \in Writes : call[w].pc = "new" => sent[w] = 0 /\ beside[w] = {}
    /\ \A m \in late : call[m.w].pc # "new"
    /\ \A v, w \in Writes : Active(v) /\ Active(w) /\ SpoolOf[v] = SpoolOf[w]
                                => v = w \/ Crossed(v, w)
    /\ \A v, w \in Writes : Before(v, w) => ~Active(v)
    /\ \A s \in Servers, p \in Spools :
          val[s][p] \in Writes => SpoolOf[val[s][p]] = p /\ sent[val[s][p]] > 0

\* Unless what was given up may be served: what waits is in the order it was made, and
\* nothing newer for its spool was sent.
OrderParts ==
    /\ late = {}
    /\ \A i, j \in DOMAIN stored : Before(stored[i], stored[j]) => i < j
    /\ \A i \in DOMAIN stored, w \in Writes : Before(stored[i], w) => sent[w] = 0
    /\ Flushing => \A i \in DOMAIN stored : ~Before(stored[i], flush.head)
    /\ flush.pc = "sent" =>
          flush.head \in excused \/ \E i \in DOMAIN stored : stored[i] = flush.head
    /\ \A i \in DOMAIN stored, w \in Writes :
          call[w].pc = "sent" => ~Before(stored[i], w)
    /\ \A w \in Writes :
          call[w].pc \in {"flush", "again", "count"} \/ (call[w].pc = "sent" /\ ~req[w].served)
              => sent[w] = 0
OrderInv == ~play.late => OrderParts

\* What was served and may be sent again is what its spool shows, unless somebody else,
\* an edit beside it or a dropped one has come in between.
Shown(w) == val[home[w]][SpoolOf[w]] \in {w, Other} \cup excused \cup {v \in Writes : Crossed(v, w)}
ReplayParts ==
    /\ \A i \in DOMAIN stored : sent[stored[i]] > 0 => Shown(stored[i])
    /\ \A w \in Writes : Active(w) /\ sent[w] > 0 => Shown(w)
ReplayInv == ~play.late => ReplayParts

-----------------------------------------------------------------------------
\* d is the place of the entry that q has and t has not.
Dropped(q, t, d) ==
    /\ Len(q) = Len(t) + 1
    /\ \A j \in 1..Len(t) : t[j] = IF j < d THEN q[j] ELSE q[j + 1]

LEMMA RemoveAtDrops ==
    ASSUME NEW S, NEW q \in Seq(S), NEW d \in 1..Len(q)
    PROVE  RemoveAt(q, d) \in Seq(S) /\ Dropped(q, RemoveAt(q, d), d)
<1> DEFINE a == SubSeq(q, 1, d - 1)
           b == SubSeq(q, d + 1, Len(q))
<1>1. Len(q) \in Nat
  OBVIOUS
<1>2. /\ a \in Seq(S) /\ Len(a) = d - 1
      /\ \A j \in 1..(d - 1) : a[j] = q[j]
  BY <1>1, SubSeqProperties
<1>3. /\ b \in Seq(S) /\ Len(b) = Len(q) - d
      /\ \A j \in 1..(Len(q) - d) : b[j] = q[d + j]
  BY <1>1, SubSeqProperties
<1>4. RemoveAt(q, d) = a \o b
  BY DEF RemoveAt
<1> HIDE DEF a, b
<1>5. /\ a \o b \in Seq(S) /\ Len(a \o b) = Len(a) + Len(b)
      /\ \A j \in 1..(Len(a) + Len(b)) :
            (a \o b)[j] = IF j <= Len(a) THEN a[j] ELSE b[j - Len(a)]
  BY <1>2, <1>3, ConcatProperties
<1>6. Len(q) = Len(a \o b) + 1
  BY <1>1, <1>2, <1>3, <1>5
<1>7. ASSUME NEW j \in 1..Len(a \o b)
      PROVE  (a \o b)[j] = IF j < d THEN q[j] ELSE q[j + 1]
  <2>1. CASE j < d
    BY <2>1, <1>1, <1>2, <1>3, <1>5, <1>7
  <2>2. CASE ~(j < d)
    <3>1. j - Len(a) \in 1..(Len(q) - d) /\ d + (j - Len(a)) = j + 1 /\ ~(j <= Len(a))
      BY <2>2, <1>1, <1>2, <1>3, <1>5, <1>7
    <3> QED
      BY <3>1, <2>2, <1>1, <1>2, <1>3, <1>5, <1>7
  <2> QED
    BY <2>1, <2>2
<1> QED
  BY <1>4, <1>5, <1>6, <1>7 DEF Dropped

LEMMA TrimDrops ==
    ASSUME Types, Len(stored) <= MaxQueue, NEW w \in Writes
    PROVE  LET q == Append(stored, w) IN
           /\ Trim(q) \in Seq(Writes) /\ Len(Trim(q)) <= MaxQueue
           /\ \/ Trim(q) = q
              \/ \E d \in 1..2 : (flush.pc # "off" => d = 2) /\ Dropped(q, Trim(q), d)
<1> DEFINE q == Append(stored, w)
<1>1. q \in Seq(Writes) /\ Len(q) = Len(stored) + 1 /\ Len(stored) \in Nat
  BY DEF Types
<1>2. MaxQueue \in Nat \ {0}
  BY WriteQueueAssumption
<1>3. CASE Len(q) > MaxQueue
  <2> DEFINE d == IF flush.pc # "off" /\ Len(q) > 1 THEN 2 ELSE 1
  <2>1. d \in 1..Len(q) /\ d \in 1..2 /\ (flush.pc # "off" => d = 2)
    BY <1>1, <1>2, <1>3
  <2>2. Trim(q) = RemoveAt(q, d)
    BY <1>3 DEF Trim
  <2> HIDE DEF d, q
  <2>3. Trim(q) \in Seq(Writes) /\ Dropped(q, Trim(q), d)
    BY <2>1, <2>2, <1>1, RemoveAtDrops
  <2>4. Len(Trim(q)) <= MaxQueue
    BY <2>3, <1>1, <1>2 DEF Dropped
  <2> QED
    BY <2>1, <2>3, <2>4 DEF q
<1>4. CASE ~(Len(q) > MaxQueue)
  <2>1. Trim(q) = q
    BY <1>4 DEF Trim
  <2> QED
    BY <2>1, <1>1, <1>2, <1>4
<1> QED
  BY <1>3, <1>4

-----------------------------------------------------------------------------
(* Types. *)

LEMMA InitTypes == Init => Types
<1> SUFFICES ASSUME Init PROVE Types
  OBVIOUS
<1> USE WriteQueueAssumption
<1>1. play \in Play
  BY DEF Init
<1>2. saving \in SavingType /\ flush \in FlushType
  BY DEF Init, SavingType, FlushType, NotSaving, NoFlush, Senders
<1>3. call \in [Writes -> CallType]
  BY DEF Init, CallType, NoCall, Pcs
<1> QED
  BY <1>1, <1>2, <1>3 DEF Init, Types, Told

LEMMA PeekTypes ==
    ASSUME Types, NEW f \in FlushType, f.srv \in Servers, Peek(f)
    PROVE  flush' \in FlushType /\ req' \in [Senders -> Msg \cup {None}]
<1> USE WriteQueueAssumption
<1>1. CASE Current(f.gen) /\ stored # <<>>
  <2>1. Head(stored) \in Writes /\ Head(stored) # None
    BY <1>1 DEF Types, Senders
  <2>2. /\ flush' = [f EXCEPT !.pc = "sent", !.head = Head(stored)]
        /\ Send(Flusher, Head(stored), f.srv)
    BY <1>1, <2>1 DEF Peek
  <2>3. flush' \in FlushType
    BY <2>1, <2>2 DEF FlushType
  <2>4. req' \in [Senders -> Msg \cup {None}]
    BY <2>1, <2>2 DEF Send, Msg, Types, Senders
  <2> QED
    BY <2>3, <2>4
<1>2. CASE ~(Current(f.gen) /\ stored # <<>>)
  <2>1. flush' = NoFlush /\ UNCHANGED req
    BY <1>2 DEF Peek
  <2> QED
    BY <2>1 DEF NoFlush, FlushType, Types, Senders
<1> QED
  BY <1>1, <1>2

LEMMA StartTypes ==
    ASSUME Types, NEW by \in Senders, NEW srv \in Servers, StartFlush(by, srv)
    PROVE  flush' \in FlushType /\ req' \in [Senders -> Msg \cup {None}]
<1> DEFINE f == [NoFlush EXCEPT !.pc = "peek", !.gen = generation, !.srv = srv, !.by = by]
<1>1. f \in FlushType /\ f.srv = srv
  BY DEF NoFlush, FlushType, Types
<1>2. Peek(f)
  BY DEF StartFlush
<1> HIDE DEF f
<1> QED
  BY <1>1, <1>2, PeekTypes

LEMMA HearsTypes ==
    ASSUME Types, NEW x \in Senders, NEW o, Hears(x, o)
    PROVE  /\ play' \in Play
           /\ play'.late = play.late /\ play'.midSave = play.midSave
           /\ play'.switches = play.switches
           /\ req[x] \in Msg
           /\ req' = [req EXCEPT ![x] = None]
           /\ req' \in [Senders -> Msg \cup {None}]
           /\ late' \subseteq [w : Writes, srv : Servers]
<1> USE WriteQueueAssumption
<1>1. play.losses \in 0..MaxFaults /\ play \in Play
  BY DEF Types, Play
<1>2. o # "ok" => play.losses > 0 /\ play.losses - 1 \in 0..MaxFaults
  BY <1>1 DEF Hears
<1>3. play' \in Play /\ play'.late = play.late /\ play'.midSave = play.midSave
      /\ play'.switches = play.switches
  BY <1>1, <1>2 DEF Hears, Play
<1>4. req[x] \in Msg
  BY DEF Hears, Types
<1>5. [w |-> req[x].w, srv |-> req[x].srv] \in [w : Writes, srv : Servers]
  BY <1>4 DEF Msg
<1>6. late' \subseteq [w : Writes, srv : Servers]
  BY <1>5 DEF Hears, Types
<1> QED
  BY <1>3, <1>4, <1>6 DEF Hears, Types

LEMMA ServedTypes ==
    ASSUME Types, NEW m, m.w \in Writes, m.srv \in Servers, Served(m)
    PROVE  /\ val' \in [Servers -> [Spools -> Writes \cup {None, Other}]]
           /\ sent' \in [Writes -> Nat]
<1>1. sent' \in [Writes -> Nat]
  BY DEF Served, Types
<1>2. [val[m.srv] EXCEPT ![SpoolOf[m.w]] = m.w] \in [Spools -> Writes \cup {None, Other}]
  BY DEF Types
<1>3. val' = [val EXCEPT ![m.srv] = [val[m.srv] EXCEPT ![SpoolOf[m.w]] = m.w]]
  BY DEF Served
<1> QED
  BY <1>1, <1>2, <1>3 DEF Types

LEMMA CallTypes ==
    ASSUME Types, NEW w \in Writes, NEW c \in CallType, call' = [call EXCEPT ![w] = c]
    PROVE  call' \in [Writes -> CallType]
  BY DEF Types

LEMMA GotoTypes ==
    ASSUME Types, NEW w \in Writes, NEW p \in Pcs, call' = [call EXCEPT ![w].pc = p]
    PROVE  call' \in [Writes -> CallType]
<1>1. call[w] \in CallType
  BY DEF Types
<1>2. [call[w] EXCEPT !.pc = p] \in CallType
  BY <1>1 DEF CallType
<1> QED
  BY <1>2 DEF Types

LEMMA TypesStep ==
    ASSUME Types, Sends, [Next]_vars PROVE Types'
<1> USE WriteQueueAssumption
<1>0. /\ Len(stored) <= MaxQueue
      /\ \A w \in Writes : Active(w) => call[w].srv \in Servers
      /\ saving.pc # "no" => saving.to \in Servers
      /\ flush.pc # "off" => flush.srv \in Servers
      /\ Flushing => flush.head \in Writes
  BY DEF Sends
<1>1. ASSUME NEW w \in Writes, Begin(w) PROVE Types'
  <2>1. [pc |-> IF stored = <<>> THEN "again" ELSE "flush", gen |-> generation, srv |-> api] \in CallType
    BY DEF CallType, Types, Pcs
  <2>2. call' \in [Writes -> CallType]
    BY <2>1, <1>1, CallTypes DEF Begin
  <2>3. flush' \in FlushType /\ req' \in [Senders -> Msg \cup {None}]
    <3>1. CASE StartFlush(w, api)
      BY <3>1, StartTypes DEF Types, Senders
    <3>2. CASE UNCHANGED <<flush, req>>
      BY <3>2 DEF Types
    <3> QED
      BY <1>1, <3>1, <3>2 DEF Begin
  <2>4. begun' \in Seq(Writes) /\ home' \in [Writes -> Servers \cup {None}]
    BY <1>1 DEF Begin, Types
  <2>5. beside' \in [Writes -> SUBSET Writes]
    <3>1. Ahead(w) \in SUBSET Writes
      BY DEF Ahead
    <3> QED
      BY <1>1, <3>1 DEF Begin, Types
  <2> QED
    BY <1>1, <2>2, <2>3, <2>4, <2>5 DEF Begin, Types, config, server
<1>2. ASSUME NEW w \in Writes, FlushDone(w) PROVE Types'
  <2>1. call' \in [Writes -> CallType]
    BY <1>2, GotoTypes DEF FlushDone, Goto, Pcs
  <2> QED
    BY <1>2, <2>1 DEF FlushDone, Goto, Types, config, server
<1>3. ASSUME NEW w \in Writes, CheckServer(w) PROVE Types'
  <2>1. call' \in [Writes -> CallType] /\ told' \in [Writes -> Told]
    BY <1>3, GotoTypes DEF CheckServer, Goto, Answered, Pcs, Types, Told
  <2> QED
    BY <1>3, <2>1 DEF CheckServer, Types, config, server
<1>4. ASSUME NEW w \in Writes, CountAgain(w) PROVE Types'
  <2>1. call' \in [Writes -> CallType] /\ told' \in [Writes -> Told]
    BY <1>4, GotoTypes DEF CountAgain, Goto, Answered, Pcs, Types, Told
  <2>2. req' \in [Senders -> Msg \cup {None}]
    <3>1. CASE UNCHANGED req
      BY <3>1 DEF Types
    <3>2. CASE Send(w, w, call[w].srv)
      <4>1. call[w].srv \in Servers
        BY <1>0, <1>4 DEF CountAgain, Active
      <4> QED
        BY <3>2, <4>1 DEF Send, Msg, Types, Senders
    <3> QED
      BY <1>4, <3>1, <3>2 DEF CountAgain
  <2> QED
    BY <1>4, <2>1, <2>2 DEF CountAgain, Types, config, server
<1>5. ASSUME NEW w \in Writes, Answer(w) PROVE Types'
  <2>1. PICK o \in Outcomes(req[w]) :
          /\ Hears(w, o)
          /\ IF o = "none" /\ Replays(w) THEN Goto(w, "enqueue")
             ELSE Answered(w, IF o \in {"ok", "committed"} THEN "saved" ELSE "refused")
    BY <1>5 DEF Answer
  <2>2. call' \in [Writes -> CallType] /\ told' \in [Writes -> Told]
    BY <2>1, GotoTypes DEF Goto, Answered, Pcs, Types, Told
  <2>3. /\ play' \in Play /\ req' \in [Senders -> Msg \cup {None}]
        /\ late' \subseteq [w : Writes, srv : Servers]
    BY <2>1, HearsTypes DEF Senders
  <2> QED
    BY <1>5, <2>2, <2>3 DEF Answer, Types, config, server
<1>6. ASSUME NEW w \in Writes, Enqueue(w) PROVE Types'
  <2>1. call' \in [Writes -> CallType] /\ told' \in [Writes -> Told]
    BY <1>6, GotoTypes DEF Enqueue, Answered, Pcs, Types, Told
  <2>2. stored' \in Seq(Writes) /\ excused' \subseteq Writes
    <3>1. CASE UNCHANGED <<stored, excused>>
      BY <3>1 DEF Types
    <3>2. CASE /\ stored' = Trim(Append(stored, w))
               /\ excused' = excused \cup Evicted(Append(stored, w))
      <4>1. stored' \in Seq(Writes)
        BY <1>0, <3>2, TrimDrops
      <4>2. ToSet(Append(stored, w)) \subseteq Writes
        BY DEF ToSet, Types
      <4> QED
        BY <3>2, <4>1, <4>2 DEF Evicted, Types
    <3> QED
      BY <1>6, <3>1, <3>2 DEF Enqueue
  <2> QED
    BY <1>6, <2>1, <2>2 DEF Enqueue, Types, config, server
<1>7. CASE Foreground
  <2>1. flush' \in FlushType /\ req' \in [Senders -> Msg \cup {None}]
    BY <1>7, StartTypes DEF Foreground, Types, Senders
  <2> QED
    BY <1>7, <2>1 DEF Foreground, Types, config, server
<1>8. CASE PeekNext
  <2>1. flush' \in FlushType /\ req' \in [Senders -> Msg \cup {None}]
    BY <1>0, <1>8, PeekTypes DEF PeekNext, Types
  <2> QED
    BY <1>8, <2>1 DEF PeekNext, Types, config, server
<1>9. CASE FlushAnswer
  <2>1. PICK o \in Outcomes(req[Flusher]) :
          /\ Hears(Flusher, o)
          /\ flush' = IF Keeps(o) THEN Stops ELSE [flush EXCEPT !.pc = "remove"]
          /\ excused' = IF o = "bad" THEN excused \cup {flush.head} ELSE excused
    BY <1>9 DEF FlushAnswer
  <2>2. /\ play' \in Play /\ req' \in [Senders -> Msg \cup {None}]
        /\ late' \subseteq [w : Writes, srv : Servers]
    BY <2>1, HearsTypes DEF Senders
  <2>3. flush' \in FlushType
    BY <2>1 DEF FlushType, Types, Stops, NoFlush, Senders
  <2> QED
    BY <1>0, <1>9, <2>1, <2>2, <2>3 DEF FlushAnswer, Flushing, Types, config, server
<1>10. CASE RemoveHead
  <2>1. stored' \in Seq(Writes)
    <3>1. \A i \in DOMAIN stored : RemoveAt(stored, i) \in Seq(Writes)
      BY RemoveAtDrops DEF Types
    <3> QED
      BY <1>10, <3>1 DEF RemoveHead, Types
  <2>2. flush' \in FlushType
    <3>1. NoFlush \in FlushType /\ [flush EXCEPT !.pc = "peek"] \in FlushType
      BY DEF FlushType, Types, NoFlush, Senders
    <3> QED
      BY <1>10, <3>1 DEF RemoveHead
  <2> QED
    BY <1>10, <2>1, <2>2 DEF RemoveHead, Types, config, server
<1>11. ASSUME NEW x \in Senders, Serve(x) PROVE Types'
  <2>1. req[x] \in Msg
    BY <1>11 DEF Serve, Types
  <2>2. /\ val' \in [Servers -> [Spools -> Writes \cup {None, Other}]]
        /\ sent' \in [Writes -> Nat]
    BY <1>11, <2>1, ServedTypes DEF Serve, Msg
  <2>3. req' \in [Senders -> Msg \cup {None}]
    BY <1>11, <2>1 DEF Serve, Types, Msg
  <2> QED
    BY <1>11, <2>2, <2>3 DEF Serve, Types, config
<1>12. CASE ServeLate
  <2>1. PICK m \in late : Served(m) /\ late' = late \ {m}
    BY <1>12 DEF ServeLate
  <2>2. m \in [w : Writes, srv : Servers]
    BY <2>1 DEF Types
  <2>3. /\ val' \in [Servers -> [Spools -> Writes \cup {None, Other}]]
        /\ sent' \in [Writes -> Nat]
    BY <2>1, <2>2, ServedTypes
  <2> QED
    BY <1>12, <2>1, <2>3 DEF ServeLate, Types, config
<1>13. CASE Elsewhere
  <2>1. play' \in Play
    <3>1. play.other \in 0..MaxFaults /\ play.other > 0
      BY <1>13 DEF Elsewhere, Types, Play
    <3>2. play.other - 1 \in 0..MaxFaults
      BY <3>1
    <3> QED
      BY <1>13, <3>2 DEF Elsewhere, Types, Play
  <2>2. val' \in [Servers -> [Spools -> Writes \cup {None, Other}]]
    BY <1>13 DEF Elsewhere, Types
  <2> QED
    BY <1>13, <2>1, <2>2 DEF Elsewhere, Types, config
<1>14. ASSUME NEW s \in Servers, ClearQueue(s) PROVE Types'
  <2>1. play' \in Play
    <3>1. play.switches \in 0..MaxFaults /\ play.switches > 0
      BY <1>14 DEF ClearQueue, Types, Play
    <3>2. play.switches - 1 \in 0..MaxFaults
      BY <3>1
    <3> QED
      BY <1>14, <3>2 DEF ClearQueue, Types, Play
  <2>2. saving' \in SavingType
    BY <1>14 DEF ClearQueue, SavingType
  <2>3. ToSet(stored) \subseteq Writes
    BY DEF ToSet, Types
  <2> QED
    BY <1>14, <2>1, <2>2, <2>3 DEF ClearQueue, Types, server
<1>15. CASE Save
  <2>1. play' \in Play
    <3>1. CASE UNCHANGED play
      BY <3>1 DEF Types
    <3>2. CASE PersistFails
      <4>1. play.unsaved \in 0..MaxFaults /\ play.unsaved > 0
        BY <3>2 DEF PersistFails, Types, Play
      <4>2. play.unsaved - 1 \in 0..MaxFaults
        BY <4>1
      <4> QED
        BY <3>2, <4>2 DEF PersistFails, Types, Play
    <3> QED
      BY <1>15, <3>1, <3>2 DEF Save, Persist, SetServer
  <2>2. saving' \in SavingType
    <3>1. NotSaving \in SavingType /\ [saving EXCEPT !.pc = "set"] \in SavingType
      BY DEF SavingType, Types, NotSaving
    <3> QED
      BY <1>15, <3>1 DEF Save, Persist, PersistFails, SetServer
  <2>3. api' \in Servers /\ kept' \in Servers
    BY <1>0, <1>15 DEF Save, Persist, PersistFails, SetServer, Types
  <2> QED
    BY <1>15, <2>1, <2>2, <2>3 DEF Save, Persist, PersistFails, SetServer, Types, server
<1>16. CASE Kill
  <2>1. play' \in Play
    <3>1. play.kills \in 0..MaxFaults /\ play.kills > 0
      BY <1>16 DEF Kill, Types, Play
    <3>2. play.kills - 1 \in 0..MaxFaults
      BY <3>1
    <3> QED
      BY <1>16, <3>2 DEF Kill, Types, Play
  <2>2. call' \in [Writes -> CallType]
    BY <1>16 DEF Kill, CallType, NoCall, Pcs
  <2>3. flush' \in FlushType /\ saving' \in SavingType
    BY <1>16 DEF Kill, NoFlush, FlushType, NotSaving, SavingType, Senders
  <2>4. late' \subseteq [w : Writes, srv : Servers]
    <3>1. \A x \in Senders : req[x] # None =>
              [w |-> req[x].w, srv |-> req[x].srv] \in [w : Writes, srv : Servers]
      BY DEF Types, Msg
    <3> QED
      BY <1>16, <3>1 DEF Kill, Types
  <2> QED
    BY <1>16, <2>1, <2>2, <2>3, <2>4 DEF Kill, Types
<1>17. CASE UNCHANGED vars
  BY <1>17 DEF vars, Types
<1> QED
  BY <1>1, <1>2, <1>3, <1>4, <1>5, <1>6, <1>7, <1>8, <1>9, <1>10, <1>11, <1>12, <1>13, <1>14,
     <1>15, <1>16, <1>17 DEF Next, SubmitWrite, FlushQueue, Save

-----------------------------------------------------------------------------
(* What the actions do to the queue, the flush and the requests. *)

LEMMA PeekEffect ==
    ASSUME Types, NEW f \in FlushType, f.srv \in Servers, req[Flusher] = None, Peek(f)
    PROVE  /\ \A w \in Writes : req'[w] = req[w]
           /\ \/ flush' = NoFlush /\ flush'.pc = "off" /\ req'[Flusher] = None
              \/ /\ stored # <<>> /\ 1 \in DOMAIN stored /\ stored[1] \in Writes
                 /\ f.gen = generation
                 /\ flush'.pc = "sent" /\ flush'.head = stored[1]
                 /\ flush'.gen = f.gen /\ flush'.srv = f.srv
                 /\ req'[Flusher] # None /\ req'[Flusher].w = stored[1]
                 /\ req'[Flusher].srv = f.srv /\ req'[Flusher].served = FALSE
<1> USE WriteQueueAssumption
<1>1. CASE Current(f.gen) /\ stored # <<>>
  <2>1. Head(stored) \in Writes /\ Head(stored) # None /\ Head(stored) = stored[1]
        /\ 1 \in DOMAIN stored
    BY <1>1 DEF Types, Senders
  <2>2. /\ flush' = [f EXCEPT !.pc = "sent", !.head = Head(stored)]
        /\ Send(Flusher, Head(stored), f.srv)
    BY <1>1, <2>1 DEF Peek
  <2>3. flush'.pc = "sent" /\ flush'.head = stored[1] /\ flush'.gen = f.gen /\ flush'.srv = f.srv
    BY <2>1, <2>2 DEF FlushType
  <2>4. [w |-> stored[1], srv |-> f.srv, served |-> FALSE] \in Msg
    BY <2>1 DEF Msg
  <2>5. req'[Flusher] = [w |-> stored[1], srv |-> f.srv, served |-> FALSE]
        /\ \A w \in Writes : req'[w] = req[w]
    BY <2>1, <2>2 DEF Send, Types, Senders
  <2>6. /\ req'[Flusher] # None /\ req'[Flusher].w = stored[1]
        /\ req'[Flusher].srv = f.srv /\ req'[Flusher].served = FALSE
    <3>1. req'[Flusher] # None
      BY <2>4, <2>5
    <3> QED
      BY <3>1, <2>5
  <2> QED
    BY <1>1, <2>1, <2>3, <2>5, <2>6 DEF Current
<1>2. CASE ~(Current(f.gen) /\ stored # <<>>)
  <2>1. flush' = NoFlush /\ UNCHANGED req
    BY <1>2 DEF Peek
  <2> QED
    BY <2>1 DEF NoFlush
<1> QED
  BY <1>1, <1>2

LEMMA StartEffect ==
    ASSUME Types, NEW by \in Senders, NEW srv \in Servers, req[Flusher] = None,
           StartFlush(by, srv)
    PROVE  /\ \A w \in Writes : req'[w] = req[w]
           /\ \/ flush'.pc = "off" /\ req'[Flusher] = None
              \/ /\ stored # <<>> /\ 1 \in DOMAIN stored /\ stored[1] \in Writes
                 /\ flush'.pc = "sent" /\ flush'.head = stored[1]
                 /\ flush'.gen = generation /\ flush'.srv = srv
                 /\ req'[Flusher] # None /\ req'[Flusher].w = stored[1]
                 /\ req'[Flusher].srv = srv /\ req'[Flusher].served = FALSE
<1> DEFINE f == [NoFlush EXCEPT !.pc = "peek", !.gen = generation, !.srv = srv, !.by = by]
<1>1. f \in FlushType /\ f.srv = srv /\ f.gen = generation
  BY DEF NoFlush, FlushType, Types
<1>2. Peek(f)
  BY DEF StartFlush
<1> HIDE DEF f
<1> QED
  BY <1>1, <1>2, PeekEffect

\* Where an entry of the queue was before.
LEMMA EnqueueEffect ==
    ASSUME Types, Sends, NEW w \in Writes, call[w].pc = "enqueue",
           stored' = Trim(Append(stored, w))
    PROVE  /\ Len(stored') <= MaxQueue
           /\ \E d \in Nat :
                /\ flush.pc # "off" => d > 1
                /\ \A j \in DOMAIN stored' :
                      \/ j < d /\ j \in DOMAIN stored /\ stored'[j] = stored[j]
                      \/ j >= d /\ j + 1 \in DOMAIN stored /\ stored'[j] = stored[j + 1]
                      \/ /\ stored'[j] = w /\ j = Len(stored')
                         /\ j = Len(stored) + 1 \/ (j >= d /\ j = Len(stored))
           /\ flush.pc # "off" /\ stored # <<>> => 1 \in DOMAIN stored' /\ stored'[1] = stored[1]
<1> DEFINE q == Append(stored, w)
<1> USE WriteQueueAssumption
<1>1. /\ q \in Seq(Writes) /\ Len(q) = Len(stored) + 1 /\ Len(stored) \in Nat
      /\ q[Len(q)] = w /\ \A j \in 1..Len(stored) : q[j] = stored[j]
      /\ stored \in Seq(Writes) /\ DOMAIN stored = 1..Len(stored)
  BY DEF Types
<1>2. Len(stored) <= MaxQueue
  BY DEF Sends
<1>3. /\ stored' \in Seq(Writes) /\ Len(stored') <= MaxQueue
      /\ \/ stored' = q
         \/ \E d \in 1..2 : (flush.pc # "off" => d = 2) /\ Dropped(q, stored', d)
  BY <1>2, TrimDrops
<1>4. DOMAIN stored' = 1..Len(stored') /\ Len(stored') \in Nat
  BY <1>3
<1>5. stored # <<>> => Len(stored) > 0
  BY <1>1
<1>8. Len(q) = Len(stored) + 1 /\ Len(stored) \in Nat /\ Len(stored') \in Nat
  BY <1>1, <1>4
<1> HIDE DEF q
<1>6. CASE stored' = q
  <2>1. \A j \in DOMAIN stored' :
          \/ j \in DOMAIN stored /\ stored'[j] = stored[j] /\ j < Len(stored) + 2
          \/ stored'[j] = w /\ j = Len(stored') /\ j = Len(stored) + 1
    BY <1>1, <1>4, <1>6
  <2>2. Len(stored) + 2 \in Nat /\ Len(stored) + 2 > 1
    BY <1>1
  <2> QED
    BY <1>1, <1>3, <1>4, <1>5, <1>6, <2>1, <2>2
<1>7. ASSUME NEW d \in 1..2, flush.pc # "off" => d = 2, Dropped(q, stored', d)
      PROVE  /\ \E e \in Nat :
                /\ flush.pc # "off" => e > 1
                /\ \A j \in DOMAIN stored' :
                      \/ j < e /\ j \in DOMAIN stored /\ stored'[j] = stored[j]
                      \/ j >= e /\ j + 1 \in DOMAIN stored /\ stored'[j] = stored[j + 1]
                      \/ /\ stored'[j] = w /\ j = Len(stored')
                         /\ j = Len(stored) + 1 \/ (j >= e /\ j = Len(stored))
             /\ flush.pc # "off" /\ stored # <<>> => 1 \in DOMAIN stored' /\ stored'[1] = stored[1]
  <2>1. /\ Len(stored') = Len(stored)
        /\ \A j \in 1..Len(stored) : stored'[j] = IF j < d THEN q[j] ELSE q[j + 1]
    <3>1. Len(q) = Len(stored') + 1
      BY <1>7 DEF Dropped
    <3>2. Len(stored') = Len(stored)
      BY ONLY <3>1, <1>8
    <3> QED
      BY <3>2, <1>7 DEF Dropped
  <2>2. \A j \in DOMAIN stored' :
                      \/ j < d /\ j \in DOMAIN stored /\ stored'[j] = stored[j]
                      \/ j >= d /\ j + 1 \in DOMAIN stored /\ stored'[j] = stored[j + 1]
                      \/ stored'[j] = w /\ j = Len(stored') /\ j >= d /\ j = Len(stored)
    BY <1>1, <1>4, <2>1
  <2>3. flush.pc # "off" /\ stored # <<>> => 1 \in DOMAIN stored' /\ stored'[1] = stored[1]
    BY <1>1, <1>4, <1>5, <1>7, <2>1
  <2> QED
    BY <1>7, <2>2, <2>3
<1> QED
  BY <1>3, <1>6, <1>7

LEMMA RemoveEffect ==
    ASSUME Types, Sends, RemoveHead
    PROVE  \/ /\ flush'.pc = "off" /\ stored' = stored
              /\ \A i \in DOMAIN stored : stored[i] # flush.head
           \/ /\ flush' = [flush EXCEPT !.pc = "peek"] /\ flush'.pc = "peek"
              /\ flush'.gen = flush.gen /\ flush'.srv = flush.srv
              /\ 1 \in DOMAIN stored /\ stored[1] = flush.head
              /\ Len(stored') < Len(stored)
              /\ \A j \in DOMAIN stored' :
                    j + 1 \in DOMAIN stored /\ stored'[j] = stored[j + 1]
              /\ \A i \in DOMAIN stored : i # 1 => \E j \in DOMAIN stored' : stored'[j] = stored[i]
<1>1. CASE flush.head \notin ToSet(stored)
  BY <1>1 DEF RemoveHead, ToSet, NoFlush
<1>2. CASE flush.head \in ToSet(stored)
  <2>1. PICK i \in DOMAIN stored : stored[i] = flush.head /\ stored' = RemoveAt(stored, i)
    BY <1>2 DEF RemoveHead
  <2>2. i = 1
    BY <2>1 DEF Sends, Flushing, RemoveHead
  <2>3. stored \in Seq(Writes) /\ DOMAIN stored = 1..Len(stored) /\ Len(stored) \in Nat
    BY DEF Types
  <2>4. stored' \in Seq(Writes) /\ Dropped(stored, stored', 1)
    BY <2>1, <2>2, <2>3, RemoveAtDrops
  <2>5. DOMAIN stored' = 1..Len(stored') /\ Len(stored') \in Nat
    BY <2>4
  <2>6. \A j \in DOMAIN stored' : j + 1 \in DOMAIN stored /\ stored'[j] = stored[j + 1]
    BY <2>3, <2>4, <2>5 DEF Dropped
  <2>7. ASSUME NEW k \in DOMAIN stored, k # 1 PROVE \E j \in DOMAIN stored' : stored'[j] = stored[k]
    <3>1. k - 1 \in DOMAIN stored' /\ (k - 1) + 1 = k
      BY <2>3, <2>4, <2>5, <2>7 DEF Dropped
    <3> QED
      BY <3>1, <2>6
  <2>8. flush' = [flush EXCEPT !.pc = "peek"]
    BY <1>2 DEF RemoveHead
  <2>9. flush'.pc = "peek" /\ flush'.gen = flush.gen /\ flush'.srv = flush.srv
    BY <2>8 DEF Types, FlushType
  <2> QED
    BY <2>1, <2>2, <2>3, <2>4, <2>5, <2>6, <2>7, <2>8, <2>9 DEF Dropped
<1> QED
  BY <1>1, <1>2

LEMMA GotoEffect ==
    ASSUME Types, NEW w \in Writes, NEW p \in Pcs, call' = [call EXCEPT ![w].pc = p]
    PROVE  /\ call'[w].pc = p /\ call'[w].gen = call[w].gen /\ call'[w].srv = call[w].srv
           /\ \A v \in Writes : v # w => call'[v] = call[v]
<1>1. call[w] \in CallType
  BY DEF Types
<1>2. call'[w] = [call[w] EXCEPT !.pc = p] /\ \A v \in Writes : v # w => call'[v] = call[v]
  BY DEF Types
<1> QED
  BY <1>1, <1>2 DEF CallType

LEMMA BeginEffect ==
    ASSUME Types, NEW w \in Writes, Begin(w)
    PROVE  /\ call'[w].pc = (IF stored = <<>> THEN "again" ELSE "flush")
           /\ call'[w].gen = generation /\ call'[w].srv = api
           /\ home'[w] = api
           /\ \A v \in Writes : v # w => call'[v] = call[v] /\ home'[v] = home[v]
  BY DEF Begin, Types

LEMMA SendEffect ==
    ASSUME Types, NEW x \in Senders, NEW w \in Writes, NEW srv \in Servers, Send(x, w, srv)
    PROVE  /\ req'[x] # None /\ req'[x].w = w /\ req'[x].srv = srv /\ req'[x].served = FALSE
           /\ \A y \in Senders : y # x => req'[y] = req[y]
<1> USE WriteQueueAssumption
<1>1. [w |-> w, srv |-> srv, served |-> FALSE] \in Msg
  BY DEF Msg
<1>2. req'[x] = [w |-> w, srv |-> srv, served |-> FALSE]
      /\ \A y \in Senders : y # x => req'[y] = req[y]
  BY DEF Send, Types
<1>3. req'[x] # None
  BY <1>1, <1>2
<1> QED
  BY <1>2, <1>3

LEMMA HearsEffect ==
    ASSUME Types, NEW x \in Senders, NEW o, Hears(x, o)
    PROVE  /\ play' \in Play
           /\ play'.late = play.late /\ play'.midSave = play.midSave
           /\ play'.switches = play.switches
           /\ req[x] # None /\ req[x] \in Msg /\ req'[x] = None
           /\ \A y \in Senders : y # x => req'[y] = req[y]
           /\ late \subseteq late'
           /\ \A m \in late' : \/ m \in late
                               \/ /\ play.late /\ o = "none" /\ ~req[x].served
                                  /\ m = [w |-> req[x].w, srv |-> req[x].srv]
           /\ o \in {"ok", "committed"} => req[x].served
           /\ o # "bad" => Keeps(o) \/ req[x].served
<1>1. /\ req[x] # None /\ req[x] \in Msg /\ req'[x] = None
      /\ \A y \in Senders : y # x => req'[y] = req[y]
  BY HearsTypes DEF Hears, Types
<1>2. /\ late \subseteq late'
      /\ \A m \in late' : \/ m \in late
                          \/ /\ play.late /\ o = "none" /\ ~req[x].served
                             /\ m = [w |-> req[x].w, srv |-> req[x].srv]
  BY DEF Hears
<1>3. /\ o \in {"ok", "committed"} => req[x].served
      /\ o # "bad" => Keeps(o) \/ req[x].served
  BY DEF Hears, Outcomes, Keeps
<1> QED
  BY <1>1, <1>2, <1>3, HearsTypes

\* What serving an edit of w at srv does.
Applies(w, srv) ==
    /\ sent'[w] = sent[w] + 1
    /\ \A v \in Writes : v # w => sent'[v] = sent[v]
    /\ \A s \in Servers, p \in Spools :
          val'[s][p] = IF s = srv /\ p = SpoolOf[w] THEN w ELSE val[s][p]

LEMMA ServedEffect ==
    ASSUME Types, NEW m, m.w \in Writes, m.srv \in Servers, Served(m)
    PROVE  Applies(m.w, m.srv)
<1>1. sent'[m.w] = sent[m.w] + 1 /\ \A v \in Writes : v # m.w => sent'[v] = sent[v]
  BY DEF Served, Types
<1>2. ASSUME NEW s \in Servers, NEW p \in Spools
      PROVE  val'[s][p] = IF s = m.srv /\ p = SpoolOf[m.w] THEN m.w ELSE val[s][p]
  <2>1. val'[s] = IF s = m.srv THEN [val[s] EXCEPT ![SpoolOf[m.w]] = m.w] ELSE val[s]
    BY DEF Served, Types
  <2>2. val[s] \in [Spools -> Writes \cup {None, Other}]
    BY DEF Types
  <2> QED
    BY <2>1, <2>2
<1> QED
  BY <1>1, <1>2 DEF Applies

LEMMA ServeEffect ==
    ASSUME Types, NEW x \in Senders, Serve(x)
    PROVE  /\ req[x] # None /\ ~req[x].served
           /\ req[x].w \in Writes /\ req[x].srv \in Servers
           /\ req'[x] # None /\ req'[x].w = req[x].w /\ req'[x].srv = req[x].srv
           /\ req'[x].served = TRUE
           /\ \A y \in Senders : y # x => req'[y] = req[y]
           /\ Applies(req[x].w, req[x].srv)
<1> USE WriteQueueAssumption
<1>1. req[x] \in Msg
  BY DEF Serve, Types
<1>2. req'[x] = [req[x] EXCEPT !.served = TRUE] /\ \A y \in Senders : y # x => req'[y] = req[y]
  BY DEF Serve, Types
<1>3. [req[x] EXCEPT !.served = TRUE] \in Msg
  BY <1>1 DEF Msg
<1>4. req'[x] # None
  BY <1>2, <1>3
<1>5. req[x].w \in Writes /\ req[x].srv \in Servers
  BY <1>1 DEF Msg
<1>6. req'[x].w = req[x].w /\ req'[x].srv = req[x].srv /\ req'[x].served = TRUE
  BY <1>1, <1>2 DEF Msg
<1>7. Applies(req[x].w, req[x].srv)
  BY <1>5, ServedEffect DEF Serve
<1> QED
  BY <1>2, <1>4, <1>5, <1>6, <1>7 DEF Serve

LEMMA LateEffect ==
    ASSUME Types, ServeLate
    PROVE  \E m \in late : /\ m.w \in Writes /\ m.srv \in Servers
                           /\ Applies(m.w, m.srv) /\ late' = late \ {m}
<1>1. PICK m \in late : Served(m) /\ late' = late \ {m}
  BY DEF ServeLate
<1>2. m.w \in Writes /\ m.srv \in Servers
  BY <1>1 DEF Types
<1> QED
  BY <1>1, <1>2, ServedEffect

LEMMA KillEffect ==
    ASSUME Types, Kill
    PROVE  /\ play'.late = play.late /\ play'.midSave = play.midSave
           /\ play'.switches = play.switches
           /\ \A w \in Writes : IF call[w].pc = "new" THEN call'[w].pc = "new"
                                                      ELSE call'[w].pc = "done"
           /\ flush'.pc = "off" /\ saving'.pc = "no"
           /\ \A x \in Senders : req'[x] = None
           /\ \A m \in late' : \/ m \in late
                               \/ \E x \in Senders :
                                    /\ play.late /\ req[x] # None /\ ~req[x].served
                                    /\ m = [w |-> req[x].w, srv |-> req[x].srv]
  BY DEF Kill, Types, Play, NoCall, NoFlush, NotSaving

LEMMA SaveEffect ==
    ASSUME Types, Save
    PROVE  /\ play'.late = play.late /\ play'.midSave = play.midSave
           /\ play'.switches = play.switches
           /\ UNCHANGED <<stored, generation, call, flush, req, begun, beside, home, told, excused>>
           /\ UNCHANGED server
           /\ \/ /\ saving.pc = "persist" /\ saving'.pc = "set" /\ saving'.to = saving.to
                 /\ kept' = saving.to /\ api' = api
              \/ saving.pc = "persist" /\ saving'.pc = "no" /\ UNCHANGED <<api, kept>>
              \/ saving.pc = "set" /\ saving'.pc = "no" /\ api' = saving.to /\ kept' = kept
<1>1. CASE Persist
  BY <1>1 DEF Persist, Types, SavingType
<1>2. CASE PersistFails
  BY <1>2 DEF PersistFails, Types, Play, NotSaving
<1>3. CASE SetServer
  BY <1>3 DEF SetServer, Types, NotSaving
<1> QED
  BY <1>1, <1>2, <1>3 DEF Save

LEMMA InitSends == Init => Sends
<1> SUFFICES ASSUME Init PROVE Sends
  OBVIOUS
<1> USE WriteQueueAssumption
<1>1. generation + play.switches <= MaxFaults
  BY DEF Init, Play
<1>2. req[Flusher] = None /\ \A w \in Writes : req[w] = None /\ call[w].pc = "new"
  BY DEF Init, Senders, NoCall
<1> QED
  BY <1>1, <1>2 DEF Init, Sends, NotSaving, NoFlush, Flushing, Active

LEMMA SendsStep ==
    ASSUME Types, Sends, Types', [Next]_vars PROVE Sends'
<1> USE WriteQueueAssumption
<1>0. /\ generation \in Nat /\ play.switches \in Nat /\ MaxFaults \in Nat
      /\ generation' \in Nat /\ play'.switches \in Nat
      /\ generation + play.switches <= MaxFaults
  BY DEF Types, Sends, Play
<1>a. Flusher \in Senders /\ \A w \in Writes : w \in Senders /\ w # Flusher
  BY DEF Senders
<1>b. \A i \in DOMAIN stored : stored[i] \in Writes
  BY DEF Types
<1>1. ASSUME NEW w \in Writes, Begin(w) PROVE Sends'
  <2>1. call[w].pc = "new" /\ req[w] = None
    BY <1>b, <1>1 DEF Begin, Sends
  <2>2. /\ call'[w].pc \in {"again", "flush"} /\ call'[w].srv = api
        /\ \A v \in Writes : v # w => call'[v] = call[v]
    BY <1>1, BeginEffect
  <2>3. CASE flush.pc = "off" /\ stored # <<>>
    <3>1. req[Flusher] = None /\ StartFlush(w, api)
      BY <1>b, <1>1, <2>3 DEF Begin, Sends
    <3>2. api \in Servers
      BY DEF Types
    <3>3. /\ \A v \in Writes : req'[v] = req[v]
          /\ \/ flush'.pc = "off" /\ req'[Flusher] = None
             \/ /\ stored # <<>> /\ 1 \in DOMAIN stored /\ stored[1] \in Writes
                /\ flush'.pc = "sent" /\ flush'.head = stored[1]
                /\ flush'.srv = api
                /\ req'[Flusher] # None /\ req'[Flusher].w = stored[1]
      BY <3>1, <3>2, <1>a, StartEffect
    <3> QED
      BY <1>b, <1>1, <2>1, <2>2, <3>2, <3>3 DEF Begin, Sends, Active, Flushing, config, server
  <2>4. CASE UNCHANGED <<flush, req>>
    <3>1. api \in Servers
      BY DEF Types
    <3> QED
      BY <1>b, <1>1, <2>1, <2>2, <2>4, <3>1 DEF Begin, Sends, Active, Flushing, config, server
  <2> QED
    BY <1>1, <2>3, <2>4 DEF Begin
<1>2. ASSUME NEW w \in Writes, FlushDone(w) PROVE Sends'
  <2>1. /\ call'[w].pc = "again" /\ call'[w].srv = call[w].srv
        /\ \A v \in Writes : v # w => call'[v] = call[v]
    BY <1>2, GotoEffect DEF FlushDone, Goto, Pcs
  <2> QED
    BY <1>b, <1>2, <2>1 DEF FlushDone, Sends, Active, Flushing, config, server
<1>3. ASSUME NEW w \in Writes, CheckServer(w) PROVE Sends'
  <2>1. /\ call'[w].pc \in {"count", "done"} /\ call'[w].srv = call[w].srv
        /\ \A v \in Writes : v # w => call'[v] = call[v]
    BY <1>3, GotoEffect DEF CheckServer, Goto, Answered, Pcs
  <2> QED
    BY <1>b, <1>3, <2>1 DEF CheckServer, Sends, Active, Flushing, config, server
<1>4. ASSUME NEW w \in Writes, CountAgain(w) PROVE Sends'
  <2>1. /\ call[w].pc = "count" /\ call[w].srv \in Servers
        /\ UNCHANGED <<play, stored, flush>> /\ UNCHANGED config
    BY <1>b, <1>4 DEF CountAgain, Sends, Active
  <2>2. CASE Goto(w, "sent") /\ Send(w, w, call[w].srv)
    <3>1. /\ call'[w].pc = "sent" /\ call'[w].srv = call[w].srv
          /\ \A v \in Writes : v # w => call'[v] = call[v]
      BY <2>2, GotoEffect DEF Goto, Pcs
    <3>2. /\ req'[w] # None /\ req'[w].w = w
          /\ \A y \in Senders : y # w => req'[y] = req[y]
      BY <2>1, <2>2, <1>a, SendEffect
    <3> QED
      BY <1>b, <2>1, <3>1, <3>2, <1>a DEF Sends, Active, Flushing, config
  <2>3. CASE UNCHANGED req /\ ~(Goto(w, "sent") /\ Send(w, w, call[w].srv))
    <3>1. /\ call'[w].pc \in {"done", "enqueue"} /\ call'[w].srv = call[w].srv
          /\ \A v \in Writes : v # w => call'[v] = call[v]
      BY <1>4, <2>3, GotoEffect DEF CountAgain, Goto, Answered, Pcs
    <3> QED
      BY <1>b, <2>1, <2>3, <3>1, <1>a DEF Sends, Active, Flushing, config
  <2> QED
    BY <1>4, <2>2, <2>3 DEF CountAgain
<1>5. ASSUME NEW w \in Writes, Answer(w) PROVE Sends'
  <2>1. PICK o \in Outcomes(req[w]) :
          /\ Hears(w, o)
          /\ IF o = "none" /\ Replays(w) THEN Goto(w, "enqueue")
             ELSE Answered(w, IF o \in {"ok", "committed"} THEN "saved" ELSE "refused")
    BY <1>5 DEF Answer
  <2>2. /\ call'[w].pc \in {"done", "enqueue"} /\ call'[w].srv = call[w].srv
        /\ \A v \in Writes : v # w => call'[v] = call[v]
    BY <2>1, GotoEffect DEF Goto, Answered, Pcs
  <2>3. /\ play'.switches = play.switches /\ req'[w] = None
        /\ \A y \in Senders : y # w => req'[y] = req[y]
    BY <2>1, <1>a, HearsEffect
  <2> QED
    BY <1>b, <1>5, <2>2, <2>3, <1>a DEF Answer, Sends, Active, Flushing, config
<1>6. ASSUME NEW w \in Writes, Enqueue(w) PROVE Sends'
  <2>1. /\ call'[w].pc = "done" /\ \A v \in Writes : v # w => call'[v] = call[v]
    BY <1>6, GotoEffect DEF Enqueue, Answered, Pcs
  <2>2. call[w].pc = "enqueue"
    BY <1>6 DEF Enqueue
  <2>5. UNCHANGED <<play, flush, req, generation, saving>>
    BY <1>6 DEF Enqueue, config
  <2>3. CASE UNCHANGED stored
    BY <1>b, <2>1, <2>2, <2>3, <2>5 DEF Sends, Active, Flushing
  <2>4. CASE stored' = Trim(Append(stored, w))
    <3>1. Len(stored') <= MaxQueue
      BY <2>2, <2>4, EnqueueEffect
    <3>2. PICK d \in Nat :
                /\ flush.pc # "off" => d > 1
                /\ \A j \in DOMAIN stored' :
                      \/ j < d /\ j \in DOMAIN stored /\ stored'[j] = stored[j]
                      \/ j >= d /\ j + 1 \in DOMAIN stored /\ stored'[j] = stored[j + 1]
                      \/ /\ stored'[j] = w /\ j = Len(stored')
                         /\ j = Len(stored) + 1 \/ (j >= d /\ j = Len(stored))
      BY <2>2, <2>4, EnqueueEffect
    <3>3. DOMAIN stored' \subseteq Nat
      BY DEF Types
    <3>4. \A i \in DOMAIN stored : call[stored[i]].pc = "done" /\ stored[i] # w /\ stored[i] \in Writes
      BY <1>b, <2>2 DEF Sends, Types
    <3>5. \A i, j \in DOMAIN stored : stored[i] = stored[j] => i = j
      BY <1>b DEF Sends
    <3>6. \A i, j \in DOMAIN stored' : stored'[i] = stored'[j] => i = j
      BY <3>2, <3>3, <3>4, <3>5
    <3>7. \A i \in DOMAIN stored' : call'[stored'[i]].pc = "done"
      BY <2>1, <3>2, <3>3, <3>4
    <3>8. Flushing => flush.head # w /\ flush.pc # "off"
      BY <1>b, <2>2 DEF Sends, Flushing
    <3>9. \A i \in DOMAIN stored : Flushing /\ stored[i] = flush.head => i = 1
      BY <1>b DEF Sends
    <3>10. \A i \in DOMAIN stored' : Flushing /\ stored'[i] = flush.head => i = 1
      <4> SUFFICES ASSUME NEW i \in DOMAIN stored', Flushing, stored'[i] = flush.head PROVE i = 1
        OBVIOUS
      <4>1. i \in Nat /\ i >= 1 /\ d > 1
        BY <3>2, <3>8 DEF Types
      <4>2. stored'[i] # w
        BY <3>8
      <4>3. CASE i < d /\ i \in DOMAIN stored /\ stored'[i] = stored[i]
        BY <3>9, <4>3
      <4>4. CASE i >= d /\ i + 1 \in DOMAIN stored /\ stored'[i] = stored[i + 1]
        BY <3>9, <4>1, <4>4
      <4> QED
        BY <3>2, <4>2, <4>3, <4>4
    <3> QED
      BY <1>6, <2>1, <2>2, <3>1, <3>6, <3>7, <3>8, <3>10
         DEF Enqueue, Sends, Active, Flushing, config, server
  <2> QED
    BY <1>6, <2>3, <2>4 DEF Enqueue
<1>7. CASE Foreground
  <2>1. /\ \A v \in Writes : req'[v] = req[v]
        /\ \/ flush'.pc = "off" /\ req'[Flusher] = None
           \/ /\ stored # <<>> /\ 1 \in DOMAIN stored /\ stored[1] \in Writes
              /\ flush'.pc = "sent" /\ flush'.head = stored[1]
              /\ flush'.srv = api
              /\ req'[Flusher] # None /\ req'[Flusher].w = stored[1]
    BY <1>b, <1>7, <1>a, StartEffect DEF Foreground, Sends, Types
  <2>2. api \in Servers
    BY DEF Types
  <2> QED
    BY <1>b, <1>7, <2>1, <2>2 DEF Foreground, Sends, Active, Flushing, config, server
<1>8. CASE PeekNext
  <2>1. flush \in FlushType /\ flush.srv \in Servers /\ req[Flusher] = None
    BY <1>b, <1>8 DEF PeekNext, Types, Sends
  <2>2. /\ \A v \in Writes : req'[v] = req[v]
        /\ \/ flush'.pc = "off" /\ req'[Flusher] = None
           \/ /\ stored # <<>> /\ 1 \in DOMAIN stored /\ stored[1] \in Writes
              /\ flush'.pc = "sent" /\ flush'.head = stored[1]
              /\ flush'.srv = flush.srv
              /\ req'[Flusher] # None /\ req'[Flusher].w = stored[1]
    BY <1>8, <2>1, PeekEffect DEF PeekNext
  <2> QED
    BY <1>b, <1>8, <2>1, <2>2 DEF PeekNext, Sends, Active, Flushing, config, server
<1>9. CASE FlushAnswer
  <2>1. PICK o \in Outcomes(req[Flusher]) :
          /\ Hears(Flusher, o)
          /\ flush' = IF Keeps(o) THEN Stops ELSE [flush EXCEPT !.pc = "remove"]
    BY <1>9 DEF FlushAnswer
  <2>2. /\ play'.switches = play.switches /\ req'[Flusher] = None
        /\ \A y \in Senders : y # Flusher => req'[y] = req[y]
    BY <2>1, <1>a, HearsEffect
  <2>3. \/ flush'.pc = "off"
        \/ flush'.pc = "remove" /\ flush'.head = flush.head /\ flush'.srv = flush.srv
    BY <2>1 DEF Stops, NoFlush, Types, FlushType
  <2> QED
    BY <1>b, <1>9, <2>2, <2>3, <1>a DEF FlushAnswer, Sends, Active, Flushing, config
<1>10. CASE RemoveHead
  <2>1. req[Flusher] = None
    BY <1>b, <1>10 DEF RemoveHead, Sends
  <2>2. CASE flush'.pc = "off" /\ stored' = stored
    BY <1>b, <1>10, <2>1, <2>2 DEF RemoveHead, Sends, Active, Flushing, config, server
  <2>3. CASE /\ flush'.pc = "peek" /\ flush'.srv = flush.srv
             /\ Len(stored') < Len(stored)
             /\ \A j \in DOMAIN stored' :
                   j + 1 \in DOMAIN stored /\ stored'[j] = stored[j + 1]
    <3>1. Len(stored) \in Nat /\ Len(stored') \in Nat /\ DOMAIN stored' \subseteq Nat
      BY DEF Types
    <3>2. Len(stored') <= MaxQueue
      BY <1>b, <2>3, <3>1 DEF Sends
    <3>3. \A i, j \in DOMAIN stored' : stored'[i] = stored'[j] => i = j
      <4>1. \A i, j \in DOMAIN stored : stored[i] = stored[j] => i = j
        BY <1>b DEF Sends
      <4> QED
        BY <2>3, <3>1, <4>1
    <3>4. flush.srv \in Servers
      BY <1>b, <1>10 DEF RemoveHead, Sends
    <3> QED
      BY <1>b, <1>10, <2>1, <2>3, <3>2, <3>3, <3>4 DEF RemoveHead, Sends, Active, Flushing, config, server
  <2> QED
    BY <1>10, <2>2, <2>3, RemoveEffect
<1>11. ASSUME NEW x \in Senders, Serve(x) PROVE Sends'
  <2>1. /\ req[x] # None
        /\ req'[x] # None /\ req'[x].w = req[x].w
        /\ \A y \in Senders : y # x => req'[y] = req[y]
    BY <1>11, ServeEffect
  <2> QED
    BY <1>b, <1>11, <2>1, <1>a DEF Serve, Sends, Active, Flushing, config
<1>12. CASE ServeLate
  BY <1>b, <1>12 DEF ServeLate, Sends, Active, Flushing, config
<1>13. CASE Elsewhere
  <2>1. play'.switches = play.switches
    BY <1>13 DEF Elsewhere, Types, Play
  <2> QED
    BY <1>b, <1>13, <2>1 DEF Elsewhere, Sends, Active, Flushing, config
<1>14. ASSUME NEW s \in Servers, ClearQueue(s) PROVE Sends'
  <2>1. play'.switches = play.switches - 1 /\ generation' = generation + 1
    BY <1>14 DEF ClearQueue, Types, Play
  <2>2. generation' + play'.switches <= MaxFaults
    BY <1>0, <2>1
  <2>3. stored' = <<>> /\ saving'.pc = "persist" /\ saving'.to = s
    BY <1>14 DEF ClearQueue
  <2> QED
    BY <1>b, <1>14, <2>2, <2>3 DEF ClearQueue, Sends, Active, Flushing, server
<1>15. CASE Save
  BY <1>b, <1>15, SaveEffect DEF Sends, Active, Flushing, server
<1>16. CASE Kill
  <2>1. generation' = 0 /\ play'.switches = play.switches
    BY <1>16, KillEffect DEF Kill
  <2>2. generation' + play'.switches <= MaxFaults
    BY <1>0, <2>1
  <2>3. /\ \A w \in Writes : IF call[w].pc = "new" THEN call'[w].pc = "new"
                                                     ELSE call'[w].pc = "done"
        /\ flush'.pc = "off" /\ saving'.pc = "no"
        /\ \A x \in Senders : req'[x] = None
    BY <1>16, KillEffect
  <2>4. \A i \in DOMAIN stored : stored[i] \in Writes
    BY DEF Types
  <2> QED
    BY <1>b, <1>16, <2>2, <2>3, <2>4, <1>a DEF Kill, Sends, Active, Flushing
<1>17. CASE UNCHANGED vars
  BY <1>b, <1>17 DEF vars, Sends, Active, Flushing
<1> QED
  BY <1>1, <1>2, <1>3, <1>4, <1>5, <1>6, <1>7, <1>8, <1>9, <1>10, <1>11, <1>12, <1>13, <1>14,
     <1>15, <1>16, <1>17 DEF Next, SubmitWrite, FlushQueue

-----------------------------------------------------------------------------
(* No accepted edit is forgotten. *)

Kept(w) == w \in ToSet(stored) \cup excused \/ sent[w] > 0

LEMMA AppliesGrows ==
    ASSUME Types, NEW w \in Writes, NEW srv, Applies(w, srv)
    PROVE  sent'[w] > 0 /\ \A v \in Writes : sent[v] > 0 => sent'[v] > 0
<1>1. sent[w] \in Nat
  BY DEF Types
<1>2. sent'[w] = sent[w] + 1 /\ \A v \in Writes : v # w => sent'[v] = sent[v]
  BY DEF Applies
<1>3. sent'[w] > 0
  BY <1>1, <1>2
<1> QED
  BY <1>2, <1>3

LEMMA InitServes == Init => Serves
<1> SUFFICES ASSUME Init PROVE Serves
  OBVIOUS
<1>1. \A x \in Senders : req[x] = None
  BY DEF Init
<1>2. \A w \in Writes : told[w] # "queued"
  BY DEF Init
<1>3. flush.pc = "off"
  BY DEF Init, NoFlush
<1> QED
  BY <1>1, <1>2, <1>3 DEF Serves, NothingForgotten

LEMMA ServesStep ==
    ASSUME Types, Sends, Serves, [Next]_vars PROVE Serves'
<1> USE WriteQueueAssumption
<1>a. Flusher \in Senders /\ \A w \in Writes : w \in Senders /\ w # Flusher
  BY DEF Senders
<1>b. \A i \in DOMAIN stored : stored[i] \in Writes
  BY DEF Types
<1>c. \A w \in Writes : told[w] = "queued" => Kept(w)
  BY DEF Serves, NothingForgotten, Kept
<1>d. /\ \A x \in Senders : req[x] # None /\ req[x].served => sent[req[x].w] > 0
      /\ flush.pc = "remove" => flush.head \in excused \/ sent[flush.head] > 0
  BY DEF Serves
<1>1. ASSUME NEW w \in Writes, Begin(w) PROVE Serves'
  <2>1. CASE flush.pc = "off" /\ stored # <<>>
    <3>1. req[Flusher] = None /\ StartFlush(w, api) /\ api \in Servers
      BY <1>1, <2>1 DEF Begin, Sends, Types
    <3>2. /\ \A v \in Writes : req'[v] = req[v]
          /\ flush'.pc \in {"off", "sent"}
          /\ req'[Flusher] = None \/ req'[Flusher].served = FALSE
      BY <3>1, <1>a, StartEffect
    <3> QED
      BY <1>1, <1>d, <3>2, <1>a DEF Begin, Serves, NothingForgotten, ToSet, Senders, config, server
  <2>2. CASE UNCHANGED <<flush, req>>
    BY <1>1, <2>2 DEF Begin, Serves, NothingForgotten, ToSet, config, server
  <2> QED
    BY <1>1, <2>1, <2>2 DEF Begin
<1>2. ASSUME NEW w \in Writes, FlushDone(w) PROVE Serves'
  BY <1>2 DEF FlushDone, Goto, Serves, NothingForgotten, ToSet, config, server
<1>3. ASSUME NEW w \in Writes, CheckServer(w) PROVE Serves'
  <2>1. \A v \in Writes : told'[v] = "queued" => told[v] = "queued"
    BY <1>3 DEF CheckServer, Goto, Answered, Types
  <2> QED
    BY <1>3, <2>1 DEF CheckServer, Serves, NothingForgotten, ToSet, config, server
<1>4. ASSUME NEW w \in Writes, CountAgain(w) PROVE Serves'
  <2>1. \A v \in Writes : told'[v] = "queued" => told[v] = "queued"
    BY <1>4 DEF CountAgain, Goto, Answered, Types
  <2>2. call[w].srv \in Servers
    BY <1>4 DEF CountAgain, Sends, Active
  <2>3. \A x \in Senders : req'[x] # None /\ req'[x].served => req'[x] = req[x]
    BY <1>4, <2>2, <1>a, SendEffect DEF CountAgain
  <2> QED
    BY <1>4, <1>d, <2>1, <2>3 DEF CountAgain, Serves, NothingForgotten, ToSet, config, server
<1>5. ASSUME NEW w \in Writes, Answer(w) PROVE Serves'
  <2>1. PICK o \in Outcomes(req[w]) :
          /\ Hears(w, o)
          /\ IF o = "none" /\ Replays(w) THEN Goto(w, "enqueue")
             ELSE Answered(w, IF o \in {"ok", "committed"} THEN "saved" ELSE "refused")
    BY <1>5 DEF Answer
  <2>2. \A v \in Writes : told'[v] = "queued" => told[v] = "queued"
    BY <2>1 DEF Goto, Answered, Types
  <2>3. \A x \in Senders : req'[x] # None => req'[x] = req[x]
    BY <2>1, <1>a, HearsEffect
  <2> QED
    BY <1>5, <1>d, <2>2, <2>3 DEF Answer, Serves, NothingForgotten, ToSet, config
<1>6. ASSUME NEW w \in Writes, Enqueue(w) PROVE Serves'
  <2>1. CASE Answered(w, "changed") /\ UNCHANGED <<stored, excused>>
    <3>1. \A v \in Writes : told'[v] = "queued" => told[v] = "queued"
      BY <2>1 DEF Answered, Types
    <3> QED
      BY <1>6, <2>1, <3>1 DEF Enqueue, Serves, NothingForgotten, ToSet, config, server
  <2>2. CASE /\ stored' = Trim(Append(stored, w))
             /\ excused' = excused \cup Evicted(Append(stored, w))
             /\ Answered(w, "queued")
    <3>1. \A v \in Writes : v # w => told'[v] = told[v]
      BY <2>2 DEF Answered, Types
    <3>2. DOMAIN Append(stored, w) = 1..(Len(stored) + 1) /\ DOMAIN stored = 1..Len(stored)
          /\ Append(stored, w)[Len(stored) + 1] = w /\ Len(stored) \in Nat
          /\ \A j \in DOMAIN stored : Append(stored, w)[j] = stored[j]
      BY DEF Types
    <3>3. \A v \in ToSet(stored) \cup {w} : v \in ToSet(Append(stored, w))
      BY <3>2 DEF ToSet
    <3>4. \A v \in ToSet(Append(stored, w)) : v \in ToSet(stored') \cup excused'
      BY <2>2 DEF Evicted
    <3>5. \A v \in Writes : told'[v] = "queued" => v \in ToSet(stored') \cup excused' \/ sent[v] > 0
      BY <1>c, <2>2, <3>1, <3>3, <3>4 DEF Kept
    <3> QED
      BY <1>6, <1>d, <2>2, <3>5 DEF Enqueue, Serves, NothingForgotten, config, server
  <2> QED
    BY <1>6, <2>1, <2>2 DEF Enqueue
<1>7. CASE Foreground
  <2>1. /\ \A v \in Writes : req'[v] = req[v]
        /\ flush'.pc \in {"off", "sent"}
        /\ req'[Flusher] = None \/ req'[Flusher].served = FALSE
    BY <1>7, <1>a, StartEffect DEF Foreground, Sends, Types
  <2> QED
    BY <1>7, <1>d, <2>1 DEF Foreground, Serves, NothingForgotten, ToSet, Senders, config, server
<1>8. CASE PeekNext
  <2>1. flush \in FlushType /\ flush.srv \in Servers /\ req[Flusher] = None
    BY <1>8 DEF PeekNext, Types, Sends
  <2>2. /\ \A v \in Writes : req'[v] = req[v]
        /\ flush'.pc \in {"off", "sent"}
        /\ req'[Flusher] = None \/ req'[Flusher].served = FALSE
    BY <1>8, <2>1, PeekEffect DEF PeekNext
  <2> QED
    BY <1>8, <1>d, <2>2 DEF PeekNext, Serves, NothingForgotten, ToSet, Senders, config, server
<1>9. CASE FlushAnswer
  <2>1. PICK o \in Outcomes(req[Flusher]) :
          /\ Hears(Flusher, o)
          /\ flush' = IF Keeps(o) THEN Stops ELSE [flush EXCEPT !.pc = "remove"]
          /\ excused' = IF o = "bad" THEN excused \cup {flush.head} ELSE excused
    BY <1>9 DEF FlushAnswer
  <2>2. /\ \A x \in Senders : req'[x] # None => req'[x] = req[x]
        /\ req[Flusher] # None
        /\ o # "bad" => Keeps(o) \/ req[Flusher].served
    BY <2>1, <1>a, HearsEffect
  <2>3. flush'.pc = "remove" => ~Keeps(o) /\ flush'.head = flush.head
    BY <2>1 DEF Stops, NoFlush, Types, FlushType
  <2>4. req[Flusher].w = flush.head
    BY <2>2 DEF Sends
  <2>5. flush'.pc = "remove" => flush'.head \in excused' \/ sent[flush'.head] > 0
    BY <1>d, <2>1, <2>2, <2>3, <2>4, <1>a
  <2> QED
    BY <1>9, <1>c, <1>d, <2>1, <2>2, <2>5 DEF FlushAnswer, Serves, NothingForgotten, ToSet, Kept, config
<1>10. CASE RemoveHead
  <2>1. flush'.pc # "remove" /\ UNCHANGED <<req, told, excused, sent>>
    BY <1>10, RemoveEffect DEF RemoveHead, server
  <2>2. flush.head \in Writes /\ (flush.head \in excused \/ sent[flush.head] > 0)
    BY <1>10, <1>d DEF RemoveHead, Sends, Flushing
  <2>3. ASSUME NEW v \in Writes, told[v] = "queued"
        PROVE  v \in ToSet(stored') \cup excused \/ sent[v] > 0
    <3>1. CASE v = flush.head
      BY <3>1, <2>2
    <3>2. CASE v # flush.head /\ v \in ToSet(stored)
      <4>1. PICK i \in DOMAIN stored : stored[i] = v
        BY <3>2 DEF ToSet
      <4>2. \E j \in DOMAIN stored' : stored'[j] = v
        BY <1>10, <3>2, <4>1, RemoveEffect
      <4> QED
        BY <4>2 DEF ToSet
    <3>3. CASE v \notin ToSet(stored)
      BY <1>c, <2>3, <3>3 DEF Kept
    <3> QED
      BY <3>1, <3>2, <3>3
  <2> QED
    BY <1>d, <2>1, <2>3 DEF Serves, NothingForgotten
<1>11. ASSUME NEW x \in Senders, Serve(x) PROVE Serves'
  <2>1. /\ req'[x].w = req[x].w /\ req[x].w \in Writes
        /\ \A y \in Senders : y # x => req'[y] = req[y]
        /\ Applies(req[x].w, req[x].srv)
    BY <1>11, ServeEffect
  <2>2. sent'[req[x].w] > 0 /\ \A v \in Writes : sent[v] > 0 => sent'[v] > 0
    BY <2>1, AppliesGrows
  <2>3. \A y \in Senders : req[y] # None => req[y].w \in Writes
    BY DEF Types, Msg
  <2>4. flush.pc = "remove" => flush.head \in Writes
    BY DEF Sends, Flushing
  <2> QED
    BY <1>11, <1>c, <1>d, <2>1, <2>2, <2>3, <2>4 DEF Serve, Serves, NothingForgotten, ToSet, Kept, config
<1>12. CASE ServeLate
  <2>1. \A v \in Writes : sent[v] > 0 => sent'[v] > 0
    BY <1>12, LateEffect, AppliesGrows
  <2>3. \A y \in Senders : req[y] # None => req[y].w \in Writes
    BY DEF Types, Msg
  <2>4. flush.pc = "remove" => flush.head \in Writes
    BY DEF Sends, Flushing
  <2> QED
    BY <1>12, <1>c, <1>d, <2>1, <2>3, <2>4 DEF ServeLate, Serves, NothingForgotten, ToSet, Kept, config
<1>13. CASE Elsewhere
  BY <1>13 DEF Elsewhere, Serves, NothingForgotten, ToSet, config
<1>14. ASSUME NEW s \in Servers, ClearQueue(s) PROVE Serves'
  BY <1>14, <1>c, <1>d DEF ClearQueue, Serves, NothingForgotten, Kept, server
<1>15. CASE Save
  BY <1>15, SaveEffect DEF Serves, NothingForgotten, ToSet, server
<1>16. CASE Kill
  BY <1>16, KillEffect DEF Kill, Serves, NothingForgotten, ToSet
<1>17. CASE UNCHANGED vars
  BY <1>17 DEF vars, Serves, NothingForgotten, ToSet
<1> QED
  BY <1>1, <1>2, <1>3, <1>4, <1>5, <1>6, <1>7, <1>8, <1>9, <1>10, <1>11, <1>12, <1>13, <1>14,
     <1>15, <1>16, <1>17 DEF Next, SubmitWrite, FlushQueue

\* At the cap the entry that is being sent stays.
LEMMA HeadStep ==
    ASSUME Types, Sends, Next,
           flush.pc = "sent", flush.head \in ToSet(stored), flush'.pc = "sent"
    PROVE  flush.head \in ToSet(stored') \/ generation' # generation
<1> USE WriteQueueAssumption
<1>1. PICK i \in DOMAIN stored : stored[i] = flush.head
  BY DEF ToSet
<1>2. i = 1
  BY <1>1 DEF Sends, Flushing
<1>3. CASE UNCHANGED stored
  BY <1>3 DEF ToSet
<1>4. ASSUME NEW w \in Writes, Enqueue(w), ~UNCHANGED stored
      PROVE  flush.head \in ToSet(stored')
  <2>1. call[w].pc = "enqueue" /\ stored' = Trim(Append(stored, w))
    BY <1>4 DEF Enqueue
  <2>2. 1 \in DOMAIN stored' /\ stored'[1] = stored[1]
    <3>1. stored # <<>>
      BY <1>1
    <3> QED
      BY <2>1, <3>1, EnqueueEffect
  <2> QED
    BY <1>1, <1>2, <2>2 DEF ToSet
<1>5. ASSUME NEW s \in Servers, ClearQueue(s) PROVE generation' # generation
  BY <1>5 DEF ClearQueue, Types
<1>6. RemoveHead => FALSE
  BY DEF RemoveHead
<1> QED
  BY <1>3, <1>4, <1>5, <1>6 DEF Next, SubmitWrite, FlushQueue, Save, Begin, FlushDone, CheckServer,
     CountAgain, Answer, Foreground, PeekNext, FlushAnswer, Serve, ServeLate, Elsewhere,
     Persist, PersistFails, SetServer, Kill

EditsInv == Types /\ Sends /\ Serves

LEMMA EditsInvHolds == Spec => []EditsInv
<1>1. Init => EditsInv
  BY InitTypes, InitSends, InitServes DEF EditsInv
<1>2. EditsInv /\ [Next]_vars => EditsInv'
  BY TypesStep, SendsStep, ServesStep DEF EditsInv
<1> QED
  BY <1>1, <1>2, PTL DEF Spec

\* A spool edit that was accepted for syncing (writeQueue.ts:148-166, 315-350) is in
\* the queue until its server has it, refused, evicted or cleared ones apart; and
\* the entry a flush is sending is never the one to go over the cap.
THEOREM AcceptedEditsKept == Spec => EditsKept
<1>1. EditsInv => NothingForgotten
  BY DEF EditsInv, Serves
<1>2. EditsInv /\ [Next]_vars =>
        [(flush.pc = "sent" /\ flush.head \in ToSet(stored) /\ flush'.pc = "sent")
            => flush.head \in ToSet(stored') \/ generation' # generation]_vars
  BY HeadStep DEF EditsInv
<1> QED
  BY <1>1, <1>2, EditsInvHolds, PTL DEF Spec, EditsKept, HeadIsSpared

-----------------------------------------------------------------------------
(* Usage is counted once. *)

LEMMA InitUsage == Init => UsageInv
<1> SUFFICES ASSUME Init PROVE UsageInv
  OBVIOUS
<1>1. \A w \in Writes : call[w].pc = "new" /\ sent[w] = 0
  BY DEF Init, NoCall
<1> QED
  BY <1>1, WriteQueueAssumption
     DEF Init, UsageInv, UsageCall, UnsentUsage, OnceUsage, NoFlush, Flushing

LEMMA UsageStep ==
    ASSUME Types, Sends, UsageInv, [Next]_vars PROVE UsageInv'
<1> USE WriteQueueAssumption
<1>a. Flusher \in Senders /\ \A w \in Writes : w \in Senders /\ w # Flusher
  BY DEF Senders
<1>b. \A i \in DOMAIN stored : stored[i] \in Writes
  BY DEF Types
<1>c. /\ \A i \in DOMAIN stored : stored[i] \notin Usage
      /\ Flushing => flush.head \notin Usage
      /\ \A u \in Usage : UsageCall(u)
  BY DEF UsageInv
<1>e. \A u \in Usage : u \in Writes
  OBVIOUS
<1>1. ASSUME NEW w \in Writes, Begin(w) PROVE UsageInv'
  <2>1. /\ call[w].pc = "new" /\ call'[w].pc \in {"again", "flush"}
        /\ \A v \in Writes : v # w => call'[v] = call[v]
    BY <1>1, BeginEffect DEF Begin
  <2>2. /\ UNCHANGED <<stored, late, sent>>
        /\ \A v \in Writes : req'[v] = req[v]
        /\ Flushing' => \/ flush'.head = flush.head /\ Flushing
                        \/ 1 \in DOMAIN stored /\ flush'.head = stored[1]
    <3>1. CASE flush.pc = "off" /\ stored # <<>>
      <4>1. req[Flusher] = None /\ StartFlush(w, api) /\ api \in Servers
        BY <1>1, <3>1 DEF Begin, Sends, Types
      <4> QED
        BY <1>1, <4>1, <1>a, StartEffect DEF Begin, Flushing, server
    <3>2. CASE UNCHANGED <<flush, req>>
      BY <1>1, <3>2 DEF Begin, Flushing, server
    <3> QED
      BY <1>1, <3>1, <3>2 DEF Begin
  <2> QED
    BY <1>c, <1>e, <2>1, <2>2 DEF UsageInv, UsageCall, UnsentUsage, OnceUsage
<1>2. ASSUME NEW w \in Writes, FlushDone(w) PROVE UsageInv'
  <2>1. /\ call[w].pc = "flush" /\ call'[w].pc = "again"
        /\ \A v \in Writes : v # w => call'[v] = call[v]
    BY <1>2, GotoEffect DEF FlushDone, Goto, Pcs
  <2> QED
    BY <1>2, <1>c, <1>e, <2>1 DEF UsageInv, FlushDone, Flushing, UsageCall, UnsentUsage, OnceUsage, server
<1>3. ASSUME NEW w \in Writes, CheckServer(w) PROVE UsageInv'
  <2>1. /\ call[w].pc = "again" /\ call'[w].pc \in {"count", "done"}
        /\ \A v \in Writes : v # w => call'[v] = call[v]
    BY <1>3, GotoEffect DEF CheckServer, Goto, Answered, Pcs
  <2> QED
    BY <1>3, <1>c, <1>e, <2>1 DEF UsageInv, CheckServer, Flushing, UsageCall, UnsentUsage, OnceUsage, server
<1>4. ASSUME NEW w \in Writes, CountAgain(w) PROVE UsageInv'
  <2>1. /\ call[w].pc = "count" /\ call[w].srv \in Servers
        /\ UNCHANGED <<stored, flush, late, sent>>
    BY <1>4 DEF CountAgain, Sends, Active, server
  <2>2. CASE Goto(w, "sent") /\ Send(w, w, call[w].srv)
    <3>1. call'[w].pc = "sent" /\ \A v \in Writes : v # w => call'[v] = call[v]
      BY <2>2, GotoEffect DEF Goto, Pcs
    <3>2. req'[w].served = FALSE /\ \A y \in Senders : y # w => req'[y] = req[y]
      BY <2>1, <2>2, <1>a, SendEffect
    <3> QED
      BY <1>a, <1>c, <1>e, <2>1, <3>1, <3>2 DEF Flushing, UsageInv, UsageCall, UnsentUsage, OnceUsage
  <2>3. CASE UNCHANGED req /\ ~(Goto(w, "sent") /\ Send(w, w, call[w].srv))
    <3>1. /\ call'[w].pc = "done" \/ (call'[w].pc = "enqueue" /\ w \notin Usage)
          /\ \A v \in Writes : v # w => call'[v] = call[v]
      BY <1>4, <2>3, GotoEffect DEF CountAgain, Goto, Answered, Pcs, Idempotent
    <3> QED
      BY <1>c, <1>e, <2>1, <2>3, <3>1 DEF Flushing, UsageInv, UsageCall, UnsentUsage, OnceUsage
  <2> QED
    BY <1>4, <2>2, <2>3 DEF UsageInv, CountAgain
<1>5. ASSUME NEW w \in Writes, Answer(w) PROVE UsageInv'
  <2>1. PICK o \in Outcomes(req[w]) :
          /\ Hears(w, o)
          /\ IF o = "none" /\ Replays(w) THEN Goto(w, "enqueue")
             ELSE Answered(w, IF o \in {"ok", "committed"} THEN "saved" ELSE "refused")
    BY <1>5 DEF Answer
  <2>2. /\ call[w].pc = "sent"
        /\ call'[w].pc = "done" \/ (call'[w].pc = "enqueue" /\ w \notin Usage)
        /\ \A v \in Writes : v # w => call'[v] = call[v]
        /\ UNCHANGED <<stored, flush, sent>>
    BY <1>5, <2>1, GotoEffect DEF Answer, Goto, Answered, Pcs, Replays, Idempotent
  <2>3. /\ \A y \in Senders : y # w => req'[y] = req[y]
        /\ \A m \in late' : \/ m \in late
                            \/ ~req[w].served /\ m = [w |-> req[w].w, srv |-> req[w].srv]
    BY <2>1, <1>a, HearsEffect
  <2>4. req[w].w = w
    BY <2>1, HearsEffect, <1>a DEF Sends
  <2>5. ASSUME NEW u \in Usage PROVE UsageCall(u)'
    <3>1. CASE u # w
      <4>1. \A m \in late' : m.w = u => m \in late
        BY <2>3, <2>4, <3>1
      <4> QED
        BY <1>a, <1>c, <1>e, <2>2, <2>3, <3>1, <4>1 DEF UsageCall, UnsentUsage, OnceUsage
    <3>2. CASE u = w
      <4>1. /\ \A m \in late : m.w # w
            /\ sent[w] = IF req[w].served THEN 1 ELSE 0
        BY <1>c, <2>2, <2>5, <3>2 DEF UsageCall
      <4>2. \A m \in late' : m.w = w => ~req[w].served /\ m = [w |-> w, srv |-> req[w].srv]
        BY <2>3, <2>4, <4>1
      <4>3. OnceUsage(w)'
        BY <2>2, <4>1, <4>2 DEF OnceUsage
      <4> QED
        BY <2>2, <2>5, <3>2, <4>3 DEF UsageCall
    <3> QED
      BY <3>1, <3>2
  <2> QED
    BY <1>c, <2>2, <2>5 DEF UsageInv, Flushing
<1>6. ASSUME NEW w \in Writes, Enqueue(w) PROVE UsageInv'
  <2>1. /\ call[w].pc = "enqueue" /\ call'[w].pc = "done"
        /\ \A v \in Writes : v # w => call'[v] = call[v]
    BY <1>6, GotoEffect DEF Enqueue, Answered, Pcs
  <2>2. w \notin Usage
    BY <1>c, <2>1 DEF UsageCall
  <2>3. \A i \in DOMAIN stored' : stored'[i] = w \/ \E j \in DOMAIN stored : stored'[i] = stored[j]
    <3>1. CASE UNCHANGED stored
      BY <3>1
    <3>2. CASE stored' = Trim(Append(stored, w))
      BY <2>1, <3>2, EnqueueEffect
    <3> QED
      BY <1>6, <3>1, <3>2 DEF Enqueue
  <2> QED
    BY <1>6, <1>c, <1>e, <2>1, <2>2, <2>3 DEF UsageInv, Enqueue, Flushing, UsageCall, UnsentUsage, OnceUsage, server
<1>7. CASE Foreground
  <2>1. /\ \A v \in Writes : req'[v] = req[v]
        /\ Flushing' => 1 \in DOMAIN stored /\ flush'.head = stored[1]
    BY <1>7, <1>a, StartEffect DEF Foreground, Sends, Types, Flushing
  <2> QED
    BY <1>7, <1>c, <1>e, <2>1 DEF UsageInv, Foreground, UsageCall, UnsentUsage, OnceUsage, server
<1>8. CASE PeekNext
  <2>1. flush \in FlushType /\ flush.srv \in Servers /\ req[Flusher] = None
    BY <1>8 DEF PeekNext, Types, Sends
  <2>2. /\ \A v \in Writes : req'[v] = req[v]
        /\ Flushing' => 1 \in DOMAIN stored /\ flush'.head = stored[1]
    BY <1>8, <2>1, PeekEffect DEF PeekNext, Flushing
  <2> QED
    BY <1>8, <1>c, <1>e, <2>2 DEF UsageInv, PeekNext, UsageCall, UnsentUsage, OnceUsage, server
<1>9. CASE FlushAnswer
  <2>1. PICK o \in Outcomes(req[Flusher]) :
          /\ Hears(Flusher, o)
          /\ flush' = IF Keeps(o) THEN Stops ELSE [flush EXCEPT !.pc = "remove"]
    BY <1>9 DEF FlushAnswer
  <2>2. /\ \A v \in Writes : req'[v] = req[v]
        /\ req[Flusher] # None
        /\ \A m \in late' : m \in late \/ m = [w |-> req[Flusher].w, srv |-> req[Flusher].srv]
        /\ late \subseteq late'
    BY <2>1, <1>a, HearsEffect
  <2>3. Flushing' => flush'.head = flush.head
    BY <2>1 DEF Stops, NoFlush, Types, FlushType, Flushing
  <2>4. req[Flusher].w = flush.head /\ Flushing
    BY <1>9, <2>2 DEF Sends, FlushAnswer, Flushing
  <2>5. \A u \in Usage : \A m \in late' : m.w = u => m \in late
    BY <1>c, <2>2, <2>4
  <2> QED
    BY <1>9, <1>c, <1>e, <2>2, <2>3, <2>4, <2>5 DEF UsageInv, FlushAnswer, UsageCall, UnsentUsage, OnceUsage
<1>10. CASE RemoveHead
  <2>1. /\ flush'.pc \in {"off", "peek"}
        /\ \A i \in DOMAIN stored' : \E j \in DOMAIN stored : stored'[i] = stored[j]
    BY <1>10, RemoveEffect
  <2> QED
    BY <1>10, <1>c, <1>e, <2>1 DEF UsageInv, RemoveHead, Flushing, UsageCall, UnsentUsage, OnceUsage, server
<1>11. ASSUME NEW x \in Senders, Serve(x) PROVE UsageInv'
  <2>1. /\ req[x] # None /\ ~req[x].served /\ req'[x].served = TRUE
        /\ \A y \in Senders : y # x => req'[y] = req[y]
        /\ Applies(req[x].w, req[x].srv)
    BY <1>11, ServeEffect
  <2>2. UNCHANGED <<stored, flush, call, late>>
    BY <1>11 DEF Serve
  <2>3. x = Flusher => req[x].w = flush.head /\ Flushing
    BY <2>1, <1>a DEF Sends, Flushing
  <2>4. x # Flusher => x \in Writes /\ req[x].w = x /\ call[x].pc = "sent"
    BY <2>1 DEF Sends, Senders
  <2>5. ASSUME NEW u \in Usage PROVE UsageCall(u)'
    <3>1. CASE u # x
      <4>1. sent'[u] = sent[u] /\ req'[u] = req[u]
        BY <1>a, <1>c, <1>e, <2>1, <2>3, <2>4, <3>1 DEF Applies
      <4> QED
        BY <1>c, <2>2, <4>1, <2>5 DEF UsageCall, UnsentUsage, OnceUsage
    <3>2. CASE u = x
      <4>1. call[x].pc = "sent" /\ x # Flusher
        BY <1>a, <1>e, <2>4, <3>2
      <4>2. (\A m \in late : m.w # u) /\ sent[u] = 0
        BY <1>c, <2>1, <4>1, <3>2 DEF UsageCall
      <4>3. sent'[u] = 1
        BY <2>1, <2>4, <4>1, <4>2, <3>2 DEF Applies
      <4> QED
        BY <2>1, <2>2, <3>2, <4>1, <4>2, <4>3 DEF UsageCall, OnceUsage
    <3> QED
      BY <3>1, <3>2
  <2> QED
    BY <1>c, <2>2, <2>5 DEF UsageInv, Flushing
<1>12. CASE ServeLate
  <2>1. PICK m \in late : m.w \in Writes /\ Applies(m.w, m.srv) /\ late' = late \ {m}
    BY <1>12, LateEffect
  <2>2. UNCHANGED <<stored, flush, call, req>>
    BY <1>12 DEF ServeLate
  <2>3. ASSUME NEW u \in Usage PROVE UsageCall(u)'
    <3>1. CASE u # m.w
      <4>1. sent'[u] = sent[u]
        BY <1>e, <2>1, <3>1 DEF Applies
      <4> QED
        BY <1>c, <2>1, <2>2, <4>1, <2>3 DEF UsageCall, UnsentUsage, OnceUsage
    <3>2. CASE u = m.w
      <4>1. call[u].pc \notin {"enqueue", "new", "flush", "again", "count", "sent"}
        BY <1>c, <2>1, <3>2 DEF UsageCall, UnsentUsage
      <4>2. sent[u] = 0 /\ \A n \in late : n.w = u => n = m
        BY <1>c, <2>1, <3>2, <2>3 DEF UsageCall, OnceUsage
      <4>3. sent'[u] = 1 /\ \A n \in late' : n.w # u
        BY <2>1, <4>2, <3>2 DEF Applies
      <4> QED
        BY <2>2, <4>1, <4>3 DEF UsageCall, OnceUsage
    <3> QED
      BY <3>1, <3>2
  <2> QED
    BY <1>c, <2>2, <2>3 DEF UsageInv, Flushing
<1>13. CASE Elsewhere
  BY <1>13, <1>c DEF UsageInv, Elsewhere, Flushing, UsageCall, UnsentUsage, OnceUsage
<1>14. ASSUME NEW s \in Servers, ClearQueue(s) PROVE UsageInv'
  BY <1>14, <1>c DEF UsageInv, ClearQueue, Flushing, UsageCall, UnsentUsage, OnceUsage, server
<1>15. CASE Save
  BY <1>15, <1>c, SaveEffect DEF UsageInv, Flushing, UsageCall, UnsentUsage, OnceUsage, server
<1>16. CASE Kill
  <2>1. /\ \A w \in Writes : IF call[w].pc = "new" THEN call'[w].pc = "new"
                                                     ELSE call'[w].pc = "done"
        /\ flush'.pc = "off"
        /\ \A m \in late' : \/ m \in late
                            \/ \E x \in Senders :
                                 /\ req[x] # None /\ ~req[x].served
                                 /\ m = [w |-> req[x].w, srv |-> req[x].srv]
    BY <1>16, KillEffect
  <2>2. UNCHANGED <<stored, sent>>
    BY <1>16 DEF Kill
  <2>3. ASSUME NEW u \in Usage PROVE UsageCall(u)'
    <3>1. ASSUME NEW x \in Senders, req[x] # None, req[x].w = u
          PROVE  x = u /\ call[u].pc = "sent"
      <4>1. x # Flusher
        BY <1>c, <3>1 DEF Sends, Flushing
      <4> QED
        BY <3>1, <4>1 DEF Sends, Senders
    <3>2. \A m \in late' : m.w = u =>
            \/ m \in late
            \/ call[u].pc = "sent" /\ ~req[u].served /\ m = [w |-> u, srv |-> req[u].srv]
      BY <2>1, <3>1
    <3>3. CASE call[u].pc = "sent"
      <4>1. (\A m \in late : m.w # u) /\ sent[u] = IF req[u].served THEN 1 ELSE 0
        BY <1>c, <3>3 DEF UsageCall
      <4>2. OnceUsage(u)'
        BY <2>2, <3>2, <4>1 DEF OnceUsage
      <4> QED
        BY <1>e, <2>1, <3>3, <4>2 DEF UsageCall
    <3>4. CASE call[u].pc # "sent"
      <4>1. \A m \in late' : m.w = u => m \in late
        BY <3>2, <3>4
      <4> QED
        BY <1>c, <1>e, <2>1, <2>2, <4>1, <2>3 DEF UsageCall, UnsentUsage, OnceUsage
    <3> QED
      BY <3>3, <3>4
  <2> QED
    BY <1>c, <2>1, <2>2, <2>3 DEF UsageInv, Flushing
<1>17. CASE UNCHANGED vars
  BY <1>17, <1>c DEF UsageInv, vars, Flushing, UsageCall, UnsentUsage, OnceUsage
<1> QED
  BY <1>1, <1>2, <1>3, <1>4, <1>5, <1>6, <1>7, <1>8, <1>9, <1>10, <1>11, <1>12, <1>13, <1>14,
     <1>15, <1>16, <1>17 DEF Next, SubmitWrite, FlushQueue

LEMMA UsageInvHolds == Spec => [](EditsInv /\ UsageInv)
<1>1. Init => UsageInv
  BY InitUsage
<1>2. EditsInv /\ UsageInv /\ [Next]_vars => UsageInv'
  BY UsageStep DEF EditsInv
<1> QED
  BY <1>1, <1>2, EditsInvHolds, PTL DEF Spec

\* Usage and dry cycles are applied at most once (writeQueue.ts:187-197), also when
\* answers are lost, the app is killed and requests are served late.
THEOREM UsageCountedOnce == Spec => []UsageOnce
<1>1. UsageInv => UsageOnce
  BY DEF UsageInv, UsageCall, OnceUsage, UsageOnce
<1> QED
  BY <1>1, UsageInvHolds, PTL

-----------------------------------------------------------------------------
(* Edits are sent where they were made. *)

LEMMA InitHome == (\A pl \in Plays : ~pl.midSave) /\ Init => HomeInv
<1> SUFFICES ASSUME \A pl \in Plays : ~pl.midSave, Init PROVE HomeInv
  OBVIOUS
<1>1. \A w \in Writes : call[w].pc = "new"
  BY DEF Init, NoCall
<1>2. \A x \in Senders : req[x] = None
  BY DEF Init
<1> QED
  BY <1>1, <1>2 DEF Init, HomeInv, HomeCall, HomeFlush, SentHome, NoFlush, NotSaving, Active

LEMMA HomeStep ==
    ASSUME Types, Sends, HomeInv, Types', [Next]_vars PROVE HomeInv'
<1> USE WriteQueueAssumption
<1>a. Flusher \in Senders /\ \A w \in Writes : w \in Senders /\ w # Flusher
  BY DEF Senders
<1>b. \A i \in DOMAIN stored : stored[i] \in Writes /\ call[stored[i]].pc = "done"
  BY DEF Types, Sends
<1>c. /\ ~play.midSave
      /\ saving.pc # "no" => stored = <<>>
      /\ saving.pc \in {"no", "persist"} => kept = api
      /\ saving.pc = "set" => kept = saving.to
      /\ \A w \in Writes : HomeCall(w)
      /\ HomeFlush
      /\ \A i \in DOMAIN stored : home[stored[i]] = api
      /\ \A x \in Senders : req[x] # None => req[x].srv = home[req[x].w]
  BY DEF HomeInv, SentHome
<1>d. \A x \in Senders : req[x] # None => req[x].w \in Writes /\ call[req[x].w].pc \in {"sent", "done"}
  <2>1. \A x \in Writes : req[x] # None => req[x].w = x /\ call[x].pc = "sent"
    BY DEF Sends
  <2>2. req[Flusher] # None => req[Flusher].w \in Writes /\ call[req[Flusher].w].pc = "done"
    BY DEF Sends, Flushing
  <2> QED
    BY <2>1, <2>2 DEF Senders
<1>e. generation \in Nat /\ generation' \in Nat /\ api \in Servers
  BY DEF Types
<1>1. ASSUME NEW w \in Writes, Begin(w) PROVE HomeInv'
  <2>1. /\ call[w].pc = "new" /\ call'[w].gen = generation /\ call'[w].srv = api /\ home'[w] = api
        /\ \A v \in Writes : v # w => call'[v] = call[v] /\ home'[v] = home[v]
    BY <1>1, BeginEffect DEF Begin
  <2>2. saving.pc = "no" /\ UNCHANGED <<play, saving, generation, api, kept, stored>>
    BY <1>1, <1>c DEF Begin, config
  <2>3. \A x \in Senders : req'[x] # None => req'[x].srv = home'[req'[x].w]
    <3>1. CASE flush.pc = "off" /\ stored # <<>>
      <4>1. req[Flusher] = None /\ StartFlush(w, api)
        BY <1>1, <3>1 DEF Begin, Sends
      <4>2. /\ \A v \in Writes : req'[v] = req[v]
            /\ \/ req'[Flusher] = None
               \/ /\ 1 \in DOMAIN stored /\ req'[Flusher].w = stored[1] /\ req'[Flusher].srv = api
        BY <4>1, <1>a, <1>e, StartEffect
      <4>3. 1 \in DOMAIN stored => home'[stored[1]] = api
        BY <1>b, <1>c, <2>1
      <4> QED
        BY <4>2, <4>3, <1>c, <1>d, <2>1 DEF Senders
    <3>2. CASE UNCHANGED <<flush, req>>
      BY <3>2, <1>c, <1>d, <2>1
    <3> QED
      BY <1>1, <3>1, <3>2 DEF Begin
  <2>4. HomeFlush'
    <3>1. CASE flush.pc = "off" /\ stored # <<>>
      <4>1. req[Flusher] = None /\ StartFlush(w, api)
        BY <1>1, <3>1 DEF Begin, Sends
      <4>2. flush'.pc = "off" \/ (flush'.gen = generation /\ flush'.srv = api)
        BY <4>1, <1>a, <1>e, StartEffect
      <4> QED
        BY <4>2, <2>2, <1>e DEF HomeFlush
    <3>2. CASE UNCHANGED <<flush, req>>
      BY <3>2, <1>c, <2>2 DEF HomeFlush
    <3> QED
      BY <1>1, <3>1, <3>2 DEF Begin
  <2>5. \A v \in Writes : HomeCall(v)'
    BY <1>c, <1>e, <2>1, <2>2 DEF HomeCall, Active
  <2>6. \A i \in DOMAIN stored' : home'[stored'[i]] = api'
    BY <1>b, <1>c, <2>1, <2>2
  <2> QED
    BY <1>c, <2>2, <2>3, <2>4, <2>5, <2>6 DEF HomeInv, SentHome
<1>2. ASSUME NEW w \in Writes, FlushDone(w) PROVE HomeInv'
  <2>1. /\ call[w].pc = "flush" /\ call'[w].srv = call[w].srv /\ call'[w].gen = call[w].gen
        /\ \A v \in Writes : v # w => call'[v] = call[v]
    BY <1>2, GotoEffect DEF FlushDone, Goto, Pcs
  <2> QED
    BY <1>2, <1>c, <2>1 DEF FlushDone, HomeInv, HomeCall, HomeFlush, SentHome, Active, config
<1>3. ASSUME NEW w \in Writes, CheckServer(w) PROVE HomeInv'
  <2>1. /\ call[w].pc = "again" /\ call'[w].srv = call[w].srv /\ call'[w].gen = call[w].gen
        /\ \A v \in Writes : v # w => call'[v] = call[v]
    BY <1>3, GotoEffect DEF CheckServer, Goto, Answered, Pcs
  <2> QED
    BY <1>3, <1>c, <2>1 DEF CheckServer, HomeInv, HomeCall, HomeFlush, SentHome, Active, config
<1>4. ASSUME NEW w \in Writes, CountAgain(w) PROVE HomeInv'
  <2>1. /\ call[w].pc = "count" /\ call[w].srv \in Servers
        /\ UNCHANGED <<play, stored, flush, home>> /\ UNCHANGED config
    BY <1>4 DEF CountAgain, Sends, Active
  <2>2. /\ call'[w].srv = call[w].srv /\ call'[w].gen = call[w].gen
        /\ \A v \in Writes : v # w => call'[v] = call[v]
    BY <1>4, GotoEffect DEF CountAgain, Goto, Answered, Pcs
  <2>3. \A v \in Writes : HomeCall(v)'
    BY <1>c, <2>1, <2>2 DEF HomeCall, Active, config
  <2>4. call[w].srv = home[w]
    BY <1>c, <2>1 DEF HomeCall, Active
  <2>5. \A x \in Senders : req'[x] # None => req'[x].srv = home[req'[x].w]
    <3>1. CASE Send(w, w, call[w].srv)
      <4>1. /\ req'[w].w = w /\ req'[w].srv = call[w].srv
            /\ \A y \in Senders : y # w => req'[y] = req[y]
        BY ZenonT(60), <2>1, <3>1, <1>a, SendEffect
      <4> QED
        BY <4>1, <1>c, <2>4
    <3>2. CASE UNCHANGED req
      BY <3>2, <1>c
    <3> QED
      BY <1>4, <3>1, <3>2 DEF CountAgain
  <2> QED
    BY <1>c, <2>1, <2>3, <2>5 DEF HomeInv, HomeFlush, SentHome, config
<1>5. ASSUME NEW w \in Writes, Answer(w) PROVE HomeInv'
  <2>1. PICK o \in Outcomes(req[w]) :
          /\ Hears(w, o)
          /\ IF o = "none" /\ Replays(w) THEN Goto(w, "enqueue")
             ELSE Answered(w, IF o \in {"ok", "committed"} THEN "saved" ELSE "refused")
    BY <1>5 DEF Answer
  <2>2. /\ call[w].pc = "sent" /\ call'[w].srv = call[w].srv /\ call'[w].gen = call[w].gen
        /\ \A v \in Writes : v # w => call'[v] = call[v]
    BY <1>5, <2>1, GotoEffect DEF Answer, Goto, Answered, Pcs
  <2>3. /\ play'.midSave = play.midSave /\ \A x \in Senders : req'[x] # None => req'[x] = req[x]
    BY <2>1, <1>a, HearsEffect
  <2> QED
    BY <1>5, <1>c, <2>2, <2>3 DEF Answer, HomeInv, HomeCall, HomeFlush, SentHome, Active, config
<1>6. ASSUME NEW w \in Writes, Enqueue(w) PROVE HomeInv'
  <2>1. /\ call[w].pc = "enqueue" /\ call'[w].pc = "done"
        /\ \A v \in Writes : v # w => call'[v] = call[v]
    BY <1>6, GotoEffect DEF Enqueue, Answered, Pcs
  <2>2. /\ \A i \in DOMAIN stored' : home[stored'[i]] = api
        /\ saving.pc # "no" => stored' = <<>>
    <3>1. CASE UNCHANGED stored
      BY <1>c, <3>1
    <3>2. CASE Current(call[w].gen) /\ stored' = Trim(Append(stored, w))
      <4>1. home[w] = api /\ saving.pc = "no"
        BY <1>c, <2>1, <3>2 DEF HomeCall, Active, Current
      <4>2. \A i \in DOMAIN stored' : stored'[i] = w \/ \E j \in DOMAIN stored : stored'[i] = stored[j]
        BY <2>1, <3>2, EnqueueEffect
      <4> QED
        BY <1>c, <4>1, <4>2
    <3> QED
      BY <1>6, <3>1, <3>2 DEF Enqueue
  <2> QED
    BY <1>6, <1>c, <2>1, <2>2 DEF Enqueue, HomeInv, HomeCall, HomeFlush, SentHome, Active, config
<1>7. CASE Foreground
  <2>1. /\ \A v \in Writes : req'[v] = req[v]
        /\ \/ flush'.pc = "off" /\ req'[Flusher] = None
           \/ /\ 1 \in DOMAIN stored /\ flush'.gen = generation /\ flush'.srv = api
              /\ req'[Flusher].w = stored[1] /\ req'[Flusher].srv = api
    BY <1>7, <1>a, <1>e, StartEffect DEF Foreground, Sends
  <2>2. stored # <<>>
    BY <1>7 DEF Foreground
  <2>3. HomeFlush'
    BY <1>7, <1>c, <1>e, <2>1, <2>2 DEF Foreground, HomeFlush, config
  <2>4. \A x \in Senders : req'[x] # None => req'[x].srv = home[req'[x].w]
    BY <1>c, <2>1 DEF Senders
  <2> QED
    BY <1>7, <1>c, <2>3, <2>4 DEF Foreground, HomeInv, HomeCall, SentHome, Active, config
<1>8. CASE PeekNext
  <2>1. flush \in FlushType /\ flush.srv \in Servers /\ req[Flusher] = None /\ flush.pc = "peek"
    BY <1>8 DEF PeekNext, Types, Sends
  <2>2. /\ \A v \in Writes : req'[v] = req[v]
        /\ \/ flush'.pc = "off" /\ req'[Flusher] = None
           \/ /\ 1 \in DOMAIN stored /\ flush.gen = generation
              /\ flush'.gen = flush.gen /\ flush'.srv = flush.srv
              /\ req'[Flusher].w = stored[1] /\ req'[Flusher].srv = flush.srv
    BY <1>8, <2>1, PeekEffect DEF PeekNext
  <2>3. HomeFlush'
    BY <1>8, <1>c, <1>e, <2>1, <2>2 DEF PeekNext, HomeFlush, config
  <2>4. \A x \in Senders : req'[x] # None => req'[x].srv = home[req'[x].w]
    BY <1>c, <2>1, <2>2 DEF Senders, HomeFlush
  <2> QED
    BY <1>8, <1>c, <2>3, <2>4 DEF PeekNext, HomeInv, HomeCall, SentHome, Active, config
<1>9. CASE FlushAnswer
  <2>1. PICK o \in Outcomes(req[Flusher]) :
          /\ Hears(Flusher, o)
          /\ flush' = IF Keeps(o) THEN Stops ELSE [flush EXCEPT !.pc = "remove"]
    BY <1>9 DEF FlushAnswer
  <2>2. /\ play'.midSave = play.midSave /\ \A x \in Senders : req'[x] # None => req'[x] = req[x]
    BY <2>1, <1>a, HearsEffect
  <2>3. flush.pc = "sent" /\ flush'.pc # "off" => flush'.gen = flush.gen /\ flush'.srv = flush.srv
    BY <2>1 DEF Stops, NoFlush, Types, FlushType
  <2> QED
    BY <1>9, <1>c, <2>2, <2>3 DEF FlushAnswer, HomeInv, HomeCall, HomeFlush, SentHome, Active, config
<1>10. CASE RemoveHead
  <2>1. /\ flush.pc = "remove"
        /\ flush'.pc = "off" \/ (flush'.gen = flush.gen /\ flush'.srv = flush.srv)
        /\ \A i \in DOMAIN stored' : \E j \in DOMAIN stored : stored'[i] = stored[j]
    BY <1>10, RemoveEffect DEF RemoveHead
  <2>2. saving.pc # "no" => stored' = <<>>
    <3>1. CASE stored = <<>>
      <4>1. stored' = stored
        BY <1>10, <3>1, RemoveEffect
      <4> QED
        BY <3>1, <4>1
    <3> QED
      BY <3>1, <1>c
  <2> QED
    BY <1>10, <1>c, <2>1, <2>2 DEF RemoveHead, HomeInv, HomeCall, HomeFlush, SentHome, Active, config
<1>11. ASSUME NEW x \in Senders, Serve(x) PROVE HomeInv'
  <2>1. /\ req[x] # None /\ req'[x].w = req[x].w /\ req'[x].srv = req[x].srv
        /\ \A y \in Senders : y # x => req'[y] = req[y]
    BY <1>11, ServeEffect
  <2> QED
    BY <1>11, <1>c, <2>1 DEF Serve, HomeInv, HomeCall, HomeFlush, SentHome, Active, config
<1>12. CASE ServeLate
  BY <1>12, <1>c DEF ServeLate, HomeInv, HomeCall, HomeFlush, SentHome, Active, config
<1>13. CASE Elsewhere
  <2>1. play'.midSave = play.midSave
    BY <1>13 DEF Elsewhere, Types, Play
  <2> QED
    BY <1>13, <1>c, <2>1 DEF Elsewhere, HomeInv, HomeCall, HomeFlush, SentHome, Active, config
<1>14. ASSUME NEW s \in Servers, ClearQueue(s) PROVE HomeInv'
  <2>1. play'.midSave = play.midSave
    BY <1>14 DEF ClearQueue, Types, Play
  <2>2. /\ saving.pc = "no" /\ stored' = <<>> /\ saving'.pc = "persist" /\ saving'.to = s
        /\ generation' = generation + 1 /\ UNCHANGED <<api, kept, call, flush, req, home>>
    BY <1>14 DEF ClearQueue
  <2>3. \A w \in Writes : call[w].gen \in Nat /\ call'[w].gen \in Nat
    BY DEF Types, CallType
  <2>4. flush.gen \in Nat
    BY DEF Types, FlushType
  <2>5. \A w \in Writes : HomeCall(w)'
    BY <1>c, <1>e, <2>2, <2>3 DEF HomeCall, Active
  <2>6. HomeFlush'
    BY <1>c, <1>e, <2>2, <2>4 DEF HomeFlush
  <2> QED
    BY <1>c, <2>1, <2>2, <2>5, <2>6 DEF HomeInv, SentHome
<1>15. CASE Save
  <2>1. /\ play'.midSave = play.midSave
        /\ UNCHANGED <<stored, generation, call, flush, req, home>>
        /\ \/ /\ saving.pc = "persist" /\ saving'.pc = "set" /\ saving'.to = saving.to
              /\ kept' = saving.to /\ api' = api
           \/ saving.pc = "persist" /\ saving'.pc = "no" /\ UNCHANGED <<api, kept>>
           \/ saving.pc = "set" /\ saving'.pc = "no" /\ api' = saving.to /\ kept' = kept
    BY <1>15, SaveEffect
  <2>2. stored = <<>>
    BY <1>c, <2>1
  <2>3. \A w \in Writes : HomeCall(w)'
    BY <1>c, <2>1 DEF HomeCall, Active
  <2>4. HomeFlush'
    BY <1>c, <2>1 DEF HomeFlush
  <2> QED
    BY <1>c, <2>1, <2>2, <2>3, <2>4 DEF HomeInv, SentHome
<1>16. CASE Kill
  <2>1. /\ play'.midSave = play.midSave
        /\ \A w \in Writes : IF call[w].pc = "new" THEN call'[w].pc = "new"
                                                     ELSE call'[w].pc = "done"
        /\ flush'.pc = "off" /\ saving'.pc = "no"
        /\ \A x \in Senders : req'[x] = None
        /\ UNCHANGED <<stored, kept, home>> /\ api' = kept
    BY <1>16, KillEffect DEF Kill
  <2>2. saving.pc \in {"no", "persist", "set"}
    BY DEF Types, SavingType
  <2>3. \A i \in DOMAIN stored : home[stored[i]] = kept
    BY <1>c, <2>2
  <2> QED
    BY <1>c, <2>1, <2>3 DEF HomeInv, HomeCall, HomeFlush, SentHome, Active
<1>17. CASE UNCHANGED vars
  BY <1>17, <1>c DEF vars, HomeInv, HomeCall, HomeFlush, SentHome, Active
<1> QED
  BY <1>1, <1>2, <1>3, <1>4, <1>5, <1>6, <1>7, <1>8, <1>9, <1>10, <1>11, <1>12, <1>13, <1>14,
     <1>15, <1>16, <1>17 DEF Next, SubmitWrite, FlushQueue

LEMMA HomeInvHolds ==
    ASSUME \A pl \in Plays : ~pl.midSave
    PROVE  Spec => [](EditsInv /\ HomeInv)
<1>1. Init => HomeInv
  BY InitHome
<1>2. EditsInv /\ EditsInv' /\ HomeInv /\ [Next]_vars => HomeInv'
  BY HomeStep DEF EditsInv
<1> QED
  BY <1>1, <1>2, EditsInvHolds, PTL DEF Spec

\* The queue keeps its form (the type invariant), and no edit is sent to a server
\* but its own (writeQueue.ts:98-131, 199-250), as long as none is made while
\* serverConfig.tsx saves the address.
THEOREM EditsSentHome ==
    ASSUME \A pl \in Plays : ~pl.midSave
    PROVE  Spec => []Inv
<1>1. EditsInv => TypeOK
  <2> SUFFICES ASSUME EditsInv PROVE TypeOK
    OBVIOUS
  <2>1. generation \in Nat /\ play.switches \in Nat /\ MaxFaults \in Nat
        /\ generation + play.switches <= MaxFaults
    BY WriteQueueAssumption DEF EditsInv, Types, Sends, Play
  <2>2. generation \in 0..MaxFaults
    BY <2>1
  <2>3. \A s \in Servers, p \in Spools : val[s][p] \in Writes \cup {None, Other}
    BY DEF EditsInv, Types
  <2> QED
    BY <2>2, <2>3 DEF TypeOK, EditsInv, Types, Sends
<1>2. EditsInv /\ HomeInv => Inv
  BY <1>1 DEF HomeInv, Inv
<1> QED
  BY <1>2, HomeInvHolds, PTL

-----------------------------------------------------------------------------
(* The order in which edits were made. *)

LEMMA BeginBefore ==
    ASSUME Types, HistoryInv, NEW w \in Writes, Begin(w)
    PROVE  /\ begun' \in Seq(Writes)
           /\ \A i, j \in DOMAIN begun' : begun'[i] = begun'[j] => i = j
           /\ \A v \in Writes : (\E i \in DOMAIN begun' : begun'[i] = v)
                                  <=> v = w \/ \E i \in DOMAIN begun : begun[i] = v
           /\ \A v \in Writes : beside'[v] = IF v = w THEN Ahead(w) ELSE beside[v]
           /\ \A v, x \in Writes : Before(v, x)' =>
                \/ Before(v, x)
                \/ x = w /\ v # w /\ SpoolOf[v] = SpoolOf[w] /\ ~Active(v)
<1>1. call[w].pc = "new" /\ begun' = Append(begun, w) /\ beside' = [beside EXCEPT ![w] = Ahead(w)]
  BY DEF Begin
<1>8. \A v \in Writes : beside'[v] = IF v = w THEN Ahead(w) ELSE beside[v]
  BY <1>1 DEF Types
<1>2. /\ begun' \in Seq(Writes) /\ Len(begun) \in Nat
      /\ DOMAIN begun = 1..Len(begun) /\ DOMAIN begun' = 1..(Len(begun) + 1)
      /\ begun'[Len(begun) + 1] = w
      /\ \A i \in 1..Len(begun) : begun'[i] = begun[i]
  BY <1>1 DEF Types
<1>3. /\ \A i, j \in DOMAIN begun : begun[i] = begun[j] => i = j
      /\ \A i \in DOMAIN begun : begun[i] # w
  BY <1>1 DEF HistoryInv
<1>4. \A i \in DOMAIN begun' : (i \in DOMAIN begun /\ begun'[i] = begun[i]) \/ (i = Len(begun) + 1 /\ begun'[i] = w)
  BY <1>2
<1>5. \A i, j \in DOMAIN begun' : begun'[i] = begun'[j] => i = j
  BY <1>3, <1>4
<1>6. \A v \in Writes : (\E i \in DOMAIN begun' : begun'[i] = v)
                                  <=> v = w \/ \E i \in DOMAIN begun : begun[i] = v
  BY <1>2, <1>4
<1>7. ASSUME NEW v \in Writes, NEW x \in Writes, Before(v, x)'
      PROVE  \/ Before(v, x)
             \/ x = w /\ v # w /\ SpoolOf[v] = SpoolOf[w] /\ ~Active(v)
  <2>1. PICK i, j \in DOMAIN begun' : /\ begun'[i] = v /\ begun'[j] = x /\ i < j
                                      /\ SpoolOf[v] = SpoolOf[x]
    BY <1>7 DEF Before
  <2>5. v \notin beside'[x]
    BY <1>7 DEF Before
  <2>2. i \in DOMAIN begun /\ begun[i] = v
    BY <1>2, <1>4, <2>1
  <2>3. CASE j \in DOMAIN begun /\ begun[j] = x
    <3>1. x # w
      BY <1>3, <2>3
    <3> QED
      BY <1>8, <2>1, <2>2, <2>3, <2>5, <3>1 DEF Before
  <2>4. CASE x = w
    BY <1>3, <1>8, <2>1, <2>2, <2>4, <2>5 DEF Ahead, Active
  <2> QED
    BY <1>4, <2>1, <2>3, <2>4
<1> QED
  BY <1>2, <1>5, <1>6, <1>7, <1>8

LEMMA InitHistory == Init => HistoryInv
<1> SUFFICES ASSUME Init PROVE HistoryInv
  OBVIOUS
<1>1. \A w \in Writes : call[w].pc = "new" /\ sent[w] = 0 /\ beside[w] = {}
  BY DEF Init, NoCall
<1>2. DOMAIN begun = {} /\ late = {}
  BY DEF Init
<1>3. \A s \in Servers, p \in Spools : val[s][p] \notin Writes
  BY WriteQueueAssumption DEF Init, Senders
<1> QED
  BY <1>1, <1>2, <1>3 DEF HistoryInv, Active, Before

\* No step but Begin makes an edit active.
LEMMA HistoryKept ==
    ASSUME Types, HistoryInv, UNCHANGED <<begun, beside>>,
           \A w \in Writes : /\ call'[w].pc = "new" <=> call[w].pc = "new"
                             /\ Active(w)' => Active(w)
    PROVE  /\ \A i, j \in DOMAIN begun' : begun'[i] = begun'[j] => i = j
           /\ \A w \in Writes : call'[w].pc # "new" => \E i \in DOMAIN begun' : begun'[i] = w
           /\ \A i \in DOMAIN begun' : call'[begun'[i]].pc # "new"
           /\ \A v, w \in Writes : Active(v)' /\ Active(w)' /\ SpoolOf[v] = SpoolOf[w]
                                       => v = w \/ Crossed(v, w)'
           /\ \A v, w \in Writes : Before(v, w)' => ~Active(v)'
<1>1. \A i \in DOMAIN begun : begun[i] \in Writes
  BY DEF Types
<1> QED
  BY <1>1 DEF HistoryInv, Before, Crossed

LEMMA AppliesHistory ==
    ASSUME Types, HistoryInv, UNCHANGED <<begun, beside, call>>, late' \subseteq late,
           NEW w \in Writes, NEW srv, call[w].pc # "new", Applies(w, srv)
    PROVE  HistoryInv'
<1>1. sent'[w] > 0 /\ \A v \in Writes : sent[v] > 0 => sent'[v] > 0
  BY AppliesGrows
<1>2. \A v \in Writes : call[v].pc = "new" => sent'[v] = 0 /\ beside'[v] = {}
  BY DEF HistoryInv, Applies
<1>3. \A s \in Servers, p \in Spools :
          val'[s][p] \in Writes => SpoolOf[val'[s][p]] = p /\ sent'[val'[s][p]] > 0
  BY <1>1 DEF HistoryInv, Applies
<1>4. \A v \in Writes : Active(v)' <=> Active(v)
  BY DEF Active
<1>5. \A m \in late' : call'[m.w].pc # "new"
  BY DEF HistoryInv
<1> QED
  BY <1>2, <1>3, <1>4, <1>5, HistoryKept DEF HistoryInv

LEMMA HistoryStep ==
    ASSUME Types, Sends, HistoryInv, [Next]_vars PROVE HistoryInv'
<1> USE WriteQueueAssumption
<1>a. Flusher \in Senders /\ \A w \in Writes : w \in Senders /\ w # Flusher
  BY DEF Senders
<1>b. \A m \in late : m.w \in Writes /\ call[m.w].pc # "new"
  BY DEF Types, HistoryInv
<1>c. \A x \in Senders : req[x] # None => req[x].w \in Writes /\ call[req[x].w].pc \in {"sent", "done"}
  <2>1. \A x \in Writes : req[x] # None => req[x].w = x /\ call[x].pc = "sent"
    BY DEF Sends
  <2>2. req[Flusher] # None => req[Flusher].w \in Writes /\ call[req[Flusher].w].pc = "done"
    BY DEF Sends, Flushing
  <2> QED
    BY <2>1, <2>2 DEF Senders
<1>d. /\ \A w \in Writes : call[w].pc = "new" => sent[w] = 0 /\ beside[w] = {}
      /\ \A s \in Servers, p \in Spools :
            val[s][p] \in Writes => SpoolOf[val[s][p]] = p /\ sent[val[s][p]] > 0
  BY DEF HistoryInv
\* A step of an edit that is under way.
<1>e. ASSUME UNCHANGED <<begun, beside, sent, val>>, NEW w \in Writes, Active(w), call'[w].pc # "new",
             \A v \in Writes : v # w => call'[v] = call[v],
             \A m \in late' : m \in late \/ (call[m.w].pc \in {"sent", "done"} /\ m.w \in Writes)
      PROVE  HistoryInv'
  <2>1. \A v \in Writes : /\ call'[v].pc = "new" <=> call[v].pc = "new"
                          /\ Active(v)' => Active(v)
    BY <1>e DEF Active
  <2>2. \A m \in late' : call'[m.w].pc # "new"
    BY <1>b, <1>e, <2>1
  <2> QED
    BY <1>d, <1>e, <2>1, <2>2, HistoryKept DEF HistoryInv
\* A step of somebody else.
<1>f. ASSUME UNCHANGED <<begun, beside, call, sent>>,
             \A s \in Servers, p \in Spools : val'[s][p] = val[s][p] \/ val'[s][p] = Other,
             \A m \in late' : m \in late \/ (call[m.w].pc \in {"sent", "done"} /\ m.w \in Writes)
      PROVE  HistoryInv'
  <2>1. \A v \in Writes : /\ call'[v].pc = "new" <=> call[v].pc = "new"
                          /\ Active(v)' => Active(v)
    BY <1>f DEF Active
  <2>2. \A m \in late' : call'[m.w].pc # "new"
    BY <1>b, <1>f, <2>1
  <2> QED
    BY <1>d, <1>f, <2>1, <2>2, HistoryKept DEF HistoryInv
<1>1. ASSUME NEW w \in Writes, Begin(w) PROVE HistoryInv'
  <2>1. /\ call[w].pc = "new" /\ call'[w].pc \in {"again", "flush"}
        /\ \A v \in Writes : v # w => call'[v] = call[v]
    BY <1>1, BeginEffect DEF Begin
  <2>3. UNCHANGED <<late, sent, val>>
    BY <1>1 DEF Begin, server
  <2>4. /\ \A i, j \in DOMAIN begun' : begun'[i] = begun'[j] => i = j
        /\ \A v \in Writes : (\E i \in DOMAIN begun' : begun'[i] = v)
                                  <=> v = w \/ \E i \in DOMAIN begun : begun[i] = v
        /\ \A v \in Writes : beside'[v] = IF v = w THEN Ahead(w) ELSE beside[v]
        /\ \A v, x \in Writes : Before(v, x)' =>
                \/ Before(v, x)
                \/ x = w /\ v # w /\ SpoolOf[v] = SpoolOf[w] /\ ~Active(v)
        /\ \A i \in DOMAIN begun' : begun'[i] \in Writes
    BY <1>1, BeginBefore
  <2>5. \A v \in Writes : call'[v].pc # "new" <=> \E i \in DOMAIN begun' : begun'[i] = v
    <3>1. \A v \in Writes : call[v].pc # "new" <=> \E i \in DOMAIN begun : begun[i] = v
      BY DEF HistoryInv
    <3> QED
      BY <2>1, <2>4, <3>1
  <2>6. \A v \in Writes : v # w => (Active(v)' <=> Active(v))
    BY <2>1 DEF Active
  <2>7. ASSUME NEW v \in Writes, NEW x \in Writes, Active(v)', Active(x)', SpoolOf[v] = SpoolOf[x]
        PROVE  v = x \/ Crossed(v, x)'
    <3>1. CASE v # w /\ x # w
      <4>1. v = x \/ Crossed(v, x)
        BY <2>6, <2>7, <3>1 DEF HistoryInv
      <4>2. beside'[v] = beside[v] /\ beside'[x] = beside[x]
        BY <2>4, <3>1
      <4> QED
        BY <4>1, <4>2 DEF Crossed
    <3>2. CASE v = w /\ x # w
      <4>1. x \in Ahead(w)
        <5>1. Active(x)
          BY <2>6, <2>7, <3>2
        <5> QED
          BY <2>7, <3>2, <5>1 DEF Ahead, Active
      <4>2. beside'[v] = Ahead(w)
        BY <2>4, <3>2
      <4> QED
        BY <4>1, <4>2 DEF Crossed
    <3>3. CASE v # w /\ x = w
      <4>1. v \in Ahead(w)
        <5>1. Active(v)
          BY <2>6, <2>7, <3>3
        <5> QED
          BY <2>7, <3>3, <5>1 DEF Ahead, Active
      <4>2. beside'[x] = Ahead(w)
        BY <2>4, <3>3
      <4> QED
        BY <4>1, <4>2 DEF Crossed
    <3> QED
      BY <3>1, <3>2, <3>3
  <2>8. \A x \in Writes : ~Before(w, x)
    <3>1. \A i \in DOMAIN begun : begun[i] # w
      BY <2>1 DEF HistoryInv
    <3> QED
      BY <3>1 DEF Before
  <2>9. \A v, x \in Writes : Before(v, x)' => ~Active(v)'
    BY <2>4, <2>6, <2>8 DEF HistoryInv
  <2>10. \A m \in late' : call'[m.w].pc # "new"
    BY <1>b, <2>1, <2>3
  <2> QED
    BY <1>d, <2>1, <2>3, <2>4, <2>5, <2>7, <2>9, <2>10 DEF HistoryInv
<1>2. ASSUME NEW w \in Writes, FlushDone(w) PROVE HistoryInv'
  <2>1. /\ call[w].pc = "flush" /\ call'[w].pc = "again"
        /\ \A v \in Writes : v # w => call'[v] = call[v]
    BY <1>2, GotoEffect DEF FlushDone, Goto, Pcs
  <2> QED
    BY <1>2, <1>e, <2>1 DEF FlushDone, Active, server
<1>3. ASSUME NEW w \in Writes, CheckServer(w) PROVE HistoryInv'
  <2>1. /\ call[w].pc = "again" /\ call'[w].pc \in {"count", "done"}
        /\ \A v \in Writes : v # w => call'[v] = call[v]
    BY <1>3, GotoEffect DEF CheckServer, Goto, Answered, Pcs
  <2> QED
    BY <1>3, <1>e, <2>1 DEF CheckServer, Active, server
<1>4. ASSUME NEW w \in Writes, CountAgain(w) PROVE HistoryInv'
  <2>1. /\ call[w].pc = "count" /\ call'[w].pc \in {"sent", "enqueue", "done"}
        /\ \A v \in Writes : v # w => call'[v] = call[v]
    BY <1>4, GotoEffect DEF CountAgain, Goto, Answered, Pcs
  <2> QED
    BY <1>4, <1>e, <2>1 DEF CountAgain, Active, server
<1>5. ASSUME NEW w \in Writes, Answer(w) PROVE HistoryInv'
  <2>1. PICK o \in Outcomes(req[w]) :
          /\ Hears(w, o)
          /\ IF o = "none" /\ Replays(w) THEN Goto(w, "enqueue")
             ELSE Answered(w, IF o \in {"ok", "committed"} THEN "saved" ELSE "refused")
    BY <1>5 DEF Answer
  <2>2. /\ call[w].pc = "sent" /\ call'[w].pc \in {"enqueue", "done"}
        /\ \A v \in Writes : v # w => call'[v] = call[v]
    BY <1>5, <2>1, GotoEffect DEF Answer, Goto, Answered, Pcs
  <2>3. /\ req[w] # None
        /\ \A m \in late' : m \in late \/ m = [w |-> req[w].w, srv |-> req[w].srv]
    BY <2>1, <1>a, HearsEffect
  <2>4. \A m \in late' : m \in late \/ (call[m.w].pc \in {"sent", "done"} /\ m.w \in Writes)
    BY <1>a, <1>c, <2>3
  <2> QED
    BY <1>5, <1>e, <2>2, <2>4 DEF Answer, Active
<1>6. ASSUME NEW w \in Writes, Enqueue(w) PROVE HistoryInv'
  <2>1. /\ call[w].pc = "enqueue" /\ call'[w].pc = "done"
        /\ \A v \in Writes : v # w => call'[v] = call[v]
    BY <1>6, GotoEffect DEF Enqueue, Answered, Pcs
  <2> QED
    BY <1>6, <1>e, <2>1 DEF Enqueue, Active, server
<1>7. CASE Foreground \/ PeekNext \/ RemoveHead \/ Save
  <2>1. UNCHANGED <<begun, beside, call, sent, late, val>>
    BY <1>7, SaveEffect DEF Foreground, PeekNext, RemoveHead, server
  <2> QED
    BY <1>f, <2>1
<1>8. CASE FlushAnswer
  <2>1. PICK o \in Outcomes(req[Flusher]) : Hears(Flusher, o)
    BY <1>8 DEF FlushAnswer
  <2>2. /\ req[Flusher] # None
        /\ \A m \in late' : m \in late \/ m = [w |-> req[Flusher].w, srv |-> req[Flusher].srv]
    BY <2>1, <1>a, HearsEffect
  <2>3. \A m \in late' : m \in late \/ (call[m.w].pc \in {"sent", "done"} /\ m.w \in Writes)
    BY <1>a, <1>c, <2>2
  <2> QED
    BY <1>8, <1>f, <2>3 DEF FlushAnswer
<1>9. ASSUME NEW x \in Senders, Serve(x) PROVE HistoryInv'
  <2>1. req[x] # None /\ Applies(req[x].w, req[x].srv)
    BY <1>9, ServeEffect
  <2>2. req[x].w \in Writes /\ call[req[x].w].pc # "new"
    BY <1>c, <2>1
  <2> QED
    BY <1>9, <2>1, <2>2, AppliesHistory DEF Serve
<1>10. CASE ServeLate
  <2>1. PICK m \in late : m.w \in Writes /\ Applies(m.w, m.srv) /\ late' = late \ {m}
    BY <1>10, LateEffect
  <2> QED
    BY <1>10, <1>b, <2>1, AppliesHistory DEF ServeLate
<1>11. CASE Elsewhere
  <2>1. \A s \in Servers, p \in Spools : val'[s][p] = val[s][p] \/ val'[s][p] = Other
    <3>1. PICK s \in Servers, p \in Spools : val' = [val EXCEPT ![s][p] = Other]
      BY <1>11 DEF Elsewhere
    <3>2. ASSUME NEW x \in Servers, NEW y \in Spools PROVE val'[x][y] = val[x][y] \/ val'[x][y] = Other
      <4>1. val[x] \in [Spools -> Writes \cup {None, Other}]
        BY DEF Types
      <4>2. val'[x] = IF x = s THEN [val[s] EXCEPT ![p] = Other] ELSE val[x]
        BY <3>1 DEF Types
      <4> QED
        BY <4>1, <4>2
    <3> QED
      BY <3>2
  <2> QED
    BY <1>11, <1>f, <2>1 DEF Elsewhere
<1>12. ASSUME NEW s \in Servers, ClearQueue(s) PROVE HistoryInv'
  BY <1>12, <1>f DEF ClearQueue, server
<1>13. CASE Kill
  <2>1. /\ \A w \in Writes : IF call[w].pc = "new" THEN call'[w].pc = "new"
                                                     ELSE call'[w].pc = "done"
        /\ \A m \in late' : \/ m \in late
                            \/ \E x \in Senders :
                                 /\ req[x] # None
                                 /\ m = [w |-> req[x].w, srv |-> req[x].srv]
    BY <1>13, KillEffect
  <2>2. UNCHANGED <<begun, beside, sent, val>>
    BY <1>13 DEF Kill
  <2>3. \A v \in Writes : /\ call'[v].pc = "new" <=> call[v].pc = "new"
                          /\ Active(v)' => Active(v)
    BY <2>1 DEF Active
  <2>4. \A m \in late' : call'[m.w].pc # "new"
    <3>1. \A m \in late' : m.w \in Writes /\ call[m.w].pc # "new"
      BY <1>b, <1>c, <2>1
    <3> QED
      BY <3>1, <2>3
  <2> QED
    BY <1>d, <2>2, <2>3, <2>4, HistoryKept DEF HistoryInv
<1>14. CASE UNCHANGED vars
  BY <1>14, <1>f DEF vars
<1> QED
  BY <1>1, <1>2, <1>3, <1>4, <1>5, <1>6, <1>7, <1>8, <1>9, <1>10, <1>11, <1>12, <1>13, <1>14
     DEF Next, SubmitWrite, FlushQueue

-----------------------------------------------------------------------------
(* Edits are applied in the order they were made. *)

LEMMA SameBefore ==
    ASSUME UNCHANGED <<begun, beside>> PROVE \A v, w : Before(v, w)' <=> Before(v, w)
  BY DEF Before

LEMMA InOrder ==
    ASSUME Types, HistoryInv, NEW v \in Writes, NEW w \in Writes, v # w,
           call[v].pc # "new", call[w].pc # "new", SpoolOf[v] = SpoolOf[w]
    PROVE  Before(v, w) \/ Before(w, v) \/ Crossed(v, w)
<1>1. PICK i \in DOMAIN begun : begun[i] = v
  BY DEF HistoryInv
<1>2. PICK j \in DOMAIN begun : begun[j] = w
  BY DEF HistoryInv
<1>3. i < j \/ j < i
  BY <1>1, <1>2 DEF Types
<1> QED
  BY <1>1, <1>2, <1>3 DEF Before, Crossed

LEMMA SameLate ==
    ASSUME Types, [Next]_vars PROVE play'.late = play.late /\ play'.midSave = play.midSave
<1>1. ASSUME NEW w \in Writes, Answer(w) PROVE play'.late = play.late /\ play'.midSave = play.midSave
  <2>1. \E o : Hears(w, o)
    BY <1>1 DEF Answer
  <2> QED
    BY <2>1, HearsEffect DEF Senders
<1>2. CASE FlushAnswer
  <2>1. \E o : Hears(Flusher, o)
    BY <1>2 DEF FlushAnswer
  <2> QED
    BY <2>1, HearsEffect DEF Senders
<1>3. CASE Elsewhere
  BY <1>3 DEF Elsewhere, Types, Play
<1>4. ASSUME NEW s \in Servers, ClearQueue(s) PROVE play'.late = play.late /\ play'.midSave = play.midSave
  BY <1>4 DEF ClearQueue, Types, Play
<1>5. CASE Kill
  BY <1>5, KillEffect
<1>6. CASE Save
  BY <1>6, SaveEffect
<1>7. CASE UNCHANGED play
  BY <1>7
<1> QED
  BY <1>1, <1>2, <1>3, <1>4, <1>5, <1>6, <1>7 DEF Next, SubmitWrite, FlushQueue, Begin, FlushDone,
     CheckServer, CountAgain, Enqueue, Foreground, PeekNext, RemoveHead, Serve, ServeLate, vars

LEMMA InitOrder == Init => OrderParts
<1> SUFFICES ASSUME Init PROVE OrderParts
  OBVIOUS
<1>1. \A w \in Writes : call[w].pc = "new"
  BY DEF Init, NoCall
<1> QED
  BY <1>1 DEF Init, OrderParts, NoFlush, Flushing, Active

LEMMA OrderStep ==
    ASSUME Types, Sends, HistoryInv, OrderParts, ~play.late, [Next]_vars PROVE OrderParts'
<1> USE WriteQueueAssumption
<1>a. Flusher \in Senders /\ \A w \in Writes : w \in Senders /\ w # Flusher
  BY DEF Senders
<1>b. \A i \in DOMAIN stored : stored[i] \in Writes /\ call[stored[i]].pc = "done" /\ i \in Nat /\ i >= 1
  BY DEF Types, Sends
<1>c. /\ late = {}
      /\ \A i, j \in DOMAIN stored : Before(stored[i], stored[j]) => i < j
      /\ \A i \in DOMAIN stored, w \in Writes : Before(stored[i], w) => sent[w] = 0
      /\ Flushing => \A i \in DOMAIN stored : ~Before(stored[i], flush.head)
      /\ flush.pc = "sent" =>
            flush.head \in excused \/ \E i \in DOMAIN stored : stored[i] = flush.head
      /\ \A i \in DOMAIN stored, w \in Writes :
            call[w].pc = "sent" => ~Before(stored[i], w)
      /\ \A w \in Writes :
            call[w].pc \in {"flush", "again", "count"} \/ (call[w].pc = "sent" /\ ~req[w].served)
                => sent[w] = 0
  BY DEF OrderParts
<1>d. \A w \in Writes : sent[w] \in Nat
  BY DEF Types
<1>e. 1 \in DOMAIN stored => \A i \in DOMAIN stored : ~Before(stored[i], stored[1])
  BY <1>b, <1>c
<1>f. Flushing => flush.head \in Writes /\ call[flush.head].pc = "done"
  BY DEF Sends
<1>1. ASSUME NEW w \in Writes, Begin(w) PROVE OrderParts'
  <2>1. /\ call[w].pc = "new" /\ call'[w].pc \in {"again", "flush"}
        /\ \A v \in Writes : v # w => call'[v] = call[v]
    BY <1>1, BeginEffect DEF Begin
  <2>2. sent[w] = 0 /\ UNCHANGED <<stored, sent, late, excused>>
    BY <1>1, <2>1 DEF HistoryInv, Begin, server
  <2>3. \A v, x \in Writes : Before(v, x)' => Before(v, x) \/ x = w
    BY <1>1, BeginBefore
  <2>4. /\ \A v \in Writes : req'[v] = req[v]
        /\ \/ UNCHANGED flush
           \/ ~Flushing'
           \/ 1 \in DOMAIN stored /\ flush'.head = stored[1]
    <3>1. CASE flush.pc = "off" /\ stored # <<>>
      <4>1. req[Flusher] = None /\ StartFlush(w, api) /\ api \in Servers
        BY <1>1, <3>1 DEF Begin, Sends, Types
      <4> QED
        BY <4>1, <1>a, StartEffect DEF Flushing
    <3>2. CASE UNCHANGED <<flush, req>>
      BY <3>2
    <3> QED
      BY <1>1, <3>1, <3>2 DEF Begin
  <2>5. \A i, j \in DOMAIN stored : Before(stored[i], stored[j])' => i < j
    BY <1>b, <1>c, <2>1, <2>2, <2>3
  <2>6. \A i \in DOMAIN stored, x \in Writes : Before(stored[i], x)' => sent[x] = 0
    BY <1>b, <1>c, <2>2, <2>3
  <2>7. Flushing' => /\ flush'.head \in Writes /\ flush'.head # w
                     /\ \A i \in DOMAIN stored : ~Before(stored[i], flush'.head)
    BY <1>b, <1>c, <1>e, <1>f, <2>1, <2>4 DEF Flushing
  <2>8. Flushing' => \A i \in DOMAIN stored : ~Before(stored[i], flush.head)'
    <3> SUFFICES ASSUME Flushing', NEW i \in DOMAIN stored PROVE ~Before(stored[i], flush.head)'
      OBVIOUS
    <3>1. stored[i] \in Writes /\ stored'[i] = stored[i]
      BY <1>b, <2>2
    <3>2. Before(stored[i], flush.head)' => Before(stored[i], flush'.head) \/ flush'.head = w
      <4> DEFINE h == flush'.head
      <4>1. h \in Writes
        BY <2>7
      <4> QED
        BY <2>3, <3>1, <4>1 DEF Before
    <3> QED
      BY <2>7, <3>2
  <2>9. flush'.pc = "sent" =>
            flush'.head \in excused \/ \E i \in DOMAIN stored : stored[i] = flush'.head
    BY <1>c, <2>4 DEF Flushing
  <2>10. \A i \in DOMAIN stored, x \in Writes : call'[x].pc = "sent" => ~Before(stored[i], x)'
    BY <1>b, <1>c, <2>1, <2>2, <2>3
  <2> QED
    BY <1>c, <2>1, <2>2, <2>4, <2>5, <2>6, <2>8, <2>9, <2>10 DEF OrderParts, Active
<1>2. ASSUME NEW w \in Writes, FlushDone(w) PROVE OrderParts'
  <2>1. /\ call[w].pc = "flush" /\ call'[w].pc = "again"
        /\ \A v \in Writes : v # w => call'[v] = call[v]
    BY <1>2, GotoEffect DEF FlushDone, Goto, Pcs
  <2> QED
    BY <1>2, <1>c, <2>1, SameBefore DEF FlushDone, OrderParts, Flushing, Active, server
<1>3. ASSUME NEW w \in Writes, CheckServer(w) PROVE OrderParts'
  <2>1. /\ call[w].pc = "again" /\ call'[w].pc \in {"count", "done"}
        /\ \A v \in Writes : v # w => call'[v] = call[v]
    BY <1>3, GotoEffect DEF CheckServer, Goto, Answered, Pcs
  <2> QED
    BY <1>3, <1>c, <2>1, SameBefore DEF CheckServer, OrderParts, Flushing, Active, server
<1>4. ASSUME NEW w \in Writes, CountAgain(w) PROVE OrderParts'
  <2>1. /\ call[w].pc = "count" /\ call[w].srv \in Servers /\ sent[w] = 0
        /\ UNCHANGED <<stored, flush, late, sent, begun, beside, excused>>
    BY <1>4, <1>c DEF CountAgain, Sends, Active, server
  <2>2. CASE stored = <<>> /\ Goto(w, "sent") /\ Send(w, w, call[w].srv)
    <3>1. call'[w].pc = "sent" /\ \A v \in Writes : v # w => call'[v] = call[v]
      BY <2>2, GotoEffect DEF Goto, Pcs
    <3>2. \A y \in Senders : y # w => req'[y] = req[y]
      BY <2>1, <2>2, <1>a, SendEffect
    <3> QED
      BY <1>a, <1>c, <2>1, <2>2, <3>1, <3>2, SameBefore DEF OrderParts, Flushing, Active
  <2>3. CASE UNCHANGED req /\ call'[w].pc \in {"done", "enqueue"}
    <3>1. \A v \in Writes : v # w => call'[v] = call[v]
      BY <1>4, GotoEffect DEF CountAgain, Goto, Answered, Pcs
    <3> QED
      BY <1>c, <2>1, <2>3, <3>1, SameBefore DEF OrderParts, Flushing, Active
  <2>4. \A t : Goto(w, "enqueue") \/ Answered(w, t) => call'[w].pc \in {"done", "enqueue"}
    BY GotoEffect DEF Goto, Answered, Pcs
  <2>5. CASE stored = <<>> /\ Current(call[w].gen)
    BY <1>4, <2>2, <2>5 DEF CountAgain, NothingWaits
  <2>6. CASE ~(stored = <<>> /\ Current(call[w].gen))
    BY <1>4, <2>3, <2>4, <2>6 DEF CountAgain, NothingWaits
  <2> QED
    BY <2>5, <2>6
<1>5. ASSUME NEW w \in Writes, Answer(w) PROVE OrderParts'
  <2>1. PICK o \in Outcomes(req[w]) :
          /\ Hears(w, o)
          /\ IF o = "none" /\ Replays(w) THEN Goto(w, "enqueue")
             ELSE Answered(w, IF o \in {"ok", "committed"} THEN "saved" ELSE "refused")
    BY <1>5 DEF Answer
  <2>2. /\ call[w].pc = "sent" /\ call'[w].pc \in {"enqueue", "done"}
        /\ \A v \in Writes : v # w => call'[v] = call[v]
        /\ UNCHANGED <<stored, flush, sent, begun, beside, excused>>
    BY <1>5, <2>1, GotoEffect DEF Answer, Goto, Answered, Pcs
  <2>3. late' = {} /\ \A y \in Senders : y # w => req'[y] = req[y]
    BY <2>1, <1>a, <1>c, HearsEffect
  <2> QED
    BY <1>a, <1>c, <2>2, <2>3, SameBefore DEF OrderParts, Flushing, Active
<1>6. ASSUME NEW w \in Writes, Enqueue(w) PROVE OrderParts'
  <2>1. /\ call[w].pc = "enqueue" /\ call'[w].pc = "done"
        /\ \A v \in Writes : v # w => call'[v] = call[v]
        /\ UNCHANGED <<flush, req, late, sent, begun, beside>>
    BY <1>6, GotoEffect DEF Enqueue, Answered, Pcs, server
  <2>2. CASE UNCHANGED <<stored, excused>>
    BY <1>c, <2>1, <2>2, SameBefore DEF OrderParts, Flushing, Active
  <2>3. CASE /\ stored' = Trim(Append(stored, w))
             /\ excused' = excused \cup Evicted(Append(stored, w))
    <3>1. PICK d \in Nat :
                /\ flush.pc # "off" => d > 1
                /\ \A j \in DOMAIN stored' :
                      \/ j < d /\ j \in DOMAIN stored /\ stored'[j] = stored[j]
                      \/ j >= d /\ j + 1 \in DOMAIN stored /\ stored'[j] = stored[j + 1]
                      \/ /\ stored'[j] = w /\ j = Len(stored')
                         /\ j = Len(stored) + 1 \/ (j >= d /\ j = Len(stored))
      BY <2>1, <2>3, EnqueueEffect
    <3>2. DOMAIN stored' = 1..Len(stored') /\ Len(stored') \in Nat
      <4>1. stored' \in Seq(Writes)
        <5>1. Len(stored) <= MaxQueue
          BY DEF Sends
        <5> QED
          BY <2>3, <5>1, TrimDrops
      <4> QED
        BY <4>1
    <3>3. \A x \in Writes : ~Before(w, x)
      BY <2>1 DEF HistoryInv, Active
    <3>4. \A j \in DOMAIN stored' : stored'[j] = w \/ \E i \in DOMAIN stored : stored'[j] = stored[i]
      BY <3>1
    <3>5. ASSUME NEW i \in DOMAIN stored', NEW j \in DOMAIN stored', Before(stored'[i], stored'[j])
          PROVE  i < j
      <4>1. stored'[j] \in Writes
        BY <1>b, <3>4
      <4>2. stored'[i] # w
        BY <3>3, <3>5, <4>1
      <4>3. PICK k \in {i, i + 1} : k \in DOMAIN stored /\ stored'[i] = stored[k] /\ (i < d <=> k = i)
        BY <3>1, <3>2, <4>2
      <4>4. CASE stored'[j] = w /\ j = Len(stored')
        <5>1. i # j
          BY <4>2, <4>4
        <5> QED
          BY <3>2, <4>4, <5>1
      <4>5. CASE ~(stored'[j] = w /\ j = Len(stored'))
        <5>1. PICK l \in {j, j + 1} : l \in DOMAIN stored /\ stored'[j] = stored[l] /\ (j < d <=> l = j)
          BY <3>1, <3>2, <4>5
        <5>2. k < l
          BY <1>c, <3>5, <4>3, <5>1
        <5>3. i \in Nat /\ j \in Nat /\ d \in Nat
          BY <3>2
        <5> QED
          BY <4>3, <5>1, <5>2, <5>3
      <4> QED
        BY <4>4, <4>5
    <3>6. \A i \in DOMAIN stored', x \in Writes : Before(stored'[i], x) => sent[x] = 0
      BY <1>c, <3>3, <3>4
    <3>7. Flushing => \A i \in DOMAIN stored' : ~Before(stored'[i], flush.head)
      BY <1>c, <1>f, <3>3, <3>4
    <3>8. flush.pc = "sent" =>
            flush.head \in excused' \/ \E i \in DOMAIN stored' : stored'[i] = flush.head
      <4> SUFFICES ASSUME flush.pc = "sent", flush.head \notin excused'
                   PROVE  \E i \in DOMAIN stored' : stored'[i] = flush.head
        OBVIOUS
      <4>1. PICK i \in DOMAIN stored : stored[i] = flush.head
        BY <1>c, <2>3
      <4>2. i \in DOMAIN Append(stored, w) /\ Append(stored, w)[i] = flush.head
        BY <4>1 DEF Types
      <4> QED
        BY <2>3, <4>2 DEF Evicted, ToSet
    <3>9. \A i \in DOMAIN stored', x \in Writes : call'[x].pc = "sent" => ~Before(stored'[i], x)
      <4> SUFFICES ASSUME NEW i \in DOMAIN stored', NEW x \in Writes, call'[x].pc = "sent"
                   PROVE  ~Before(stored'[i], x)
        OBVIOUS
      <4>1. call[x].pc = "sent"
        BY <2>1
      <4> QED
        BY <1>c, <3>3, <3>4, <4>1
    <3> QED
      BY <1>c, <2>1, <3>5, <3>6, <3>7, <3>8, <3>9, SameBefore DEF OrderParts, Flushing
  <2> QED
    BY <1>6, <2>2, <2>3 DEF Enqueue
<1>7. CASE Foreground
  <2>1. /\ \A v \in Writes : req'[v] = req[v]
        /\ Flushing' => 1 \in DOMAIN stored /\ flush'.head = stored[1]
    BY <1>7, <1>a, StartEffect DEF Foreground, Sends, Types, Flushing
  <2> QED
    BY <1>7, <1>c, <1>e, <2>1, SameBefore DEF Foreground, OrderParts, Flushing, Active, server
<1>8. CASE PeekNext
  <2>1. flush \in FlushType /\ flush.srv \in Servers /\ req[Flusher] = None
    BY <1>8 DEF PeekNext, Types, Sends
  <2>2. /\ \A v \in Writes : req'[v] = req[v]
        /\ Flushing' => 1 \in DOMAIN stored /\ flush'.head = stored[1]
    BY <1>8, <2>1, PeekEffect DEF PeekNext, Flushing
  <2> QED
    BY <1>8, <1>c, <1>e, <2>2, SameBefore DEF PeekNext, OrderParts, Flushing, Active, server
<1>9. CASE FlushAnswer
  <2>1. PICK o \in Outcomes(req[Flusher]) :
          /\ Hears(Flusher, o)
          /\ flush' = IF Keeps(o) THEN Stops ELSE [flush EXCEPT !.pc = "remove"]
    BY <1>9 DEF FlushAnswer
  <2>2. late' = {} /\ \A v \in Writes : req'[v] = req[v]
    BY <2>1, <1>a, <1>c, HearsEffect
  <2>3. \/ flush'.pc = "off"
        \/ flush'.pc = "remove" /\ flush'.head = flush.head
    BY <2>1 DEF Stops, NoFlush, Types, FlushType
  <2> QED
    BY <1>9, <1>c, <2>2, <2>3, SameBefore DEF FlushAnswer, OrderParts, Flushing, Active
<1>10. CASE RemoveHead
  <2>1. flush'.pc \in {"off", "peek"} /\ UNCHANGED <<call, req, begun, beside, excused, late, sent>>
    BY <1>10, RemoveEffect DEF RemoveHead, server
  <2>2. CASE stored' = stored
    BY <1>c, <2>1, <2>2, SameBefore DEF OrderParts, Flushing, Active
  <2>3. CASE \A j \in DOMAIN stored' : j + 1 \in DOMAIN stored /\ stored'[j] = stored[j + 1]
    <3>1. ASSUME NEW i \in DOMAIN stored', NEW j \in DOMAIN stored', Before(stored'[i], stored'[j])
          PROVE  i < j
      <4>1. i + 1 < j + 1
        BY <1>c, <2>3, <3>1
      <4>2. stored' \in Seq(Writes)
        <5>1. \A k \in DOMAIN stored : RemoveAt(stored, k) \in Seq(Writes)
          BY RemoveAtDrops DEF Types
        <5> QED
          BY <1>10, <5>1 DEF RemoveHead, Types
      <4> QED
        BY <4>1, <4>2
    <3> QED
      BY <1>c, <2>1, <2>3, <3>1, SameBefore DEF OrderParts, Flushing, Active
  <2> QED
    BY <1>10, <2>2, <2>3, RemoveEffect
<1>11. ASSUME NEW x \in Senders, Serve(x) PROVE OrderParts'
  <2> DEFINE w == req[x].w
  <2>1. /\ req[x] # None /\ w \in Writes /\ req'[x].served = TRUE
        /\ \A y \in Senders : y # x => req'[y] = req[y]
        /\ sent'[w] > 0 /\ \A v \in Writes : v # w => sent'[v] = sent[v]
    <3>1. /\ req[x] # None /\ req[x].w \in Writes /\ req'[x].served = TRUE
          /\ \A y \in Senders : y # x => req'[y] = req[y]
          /\ Applies(req[x].w, req[x].srv)
      BY <1>11, ServeEffect
    <3>2. sent'[req[x].w] > 0
      BY <3>1, AppliesGrows
    <3> QED
      BY <3>1, <3>2 DEF Applies
  <2>2. UNCHANGED <<stored, flush, call, late, begun, beside, excused>>
    BY <1>11 DEF Serve
  <2>3. (x = Flusher /\ w = flush.head /\ Flushing /\ call[w].pc = "done") \/ (x = w /\ call[w].pc = "sent")
    BY <2>1, <1>f DEF Sends, Flushing, Senders
  <2> HIDE DEF w
  <2>4. \A i \in DOMAIN stored : ~Before(stored[i], w)
    BY <1>c, <2>1, <2>3
  <2>5. \A i \in DOMAIN stored, v \in Writes : Before(stored[i], v) => sent'[v] = 0
    BY <1>c, <2>1, <2>4
  <2>7. \A v \in Writes :
            call[v].pc \in {"flush", "again", "count"} \/ (call[v].pc = "sent" /\ ~req'[v].served)
                => sent'[v] = 0
    BY <1>a, <1>c, <2>1, <2>3
  <2> QED
    BY <1>c, <2>2, <2>5, <2>7, SameBefore DEF OrderParts, Flushing, Active
<1>12. CASE ServeLate
  BY <1>12, <1>c DEF ServeLate
<1>13. CASE Elsewhere
  BY <1>13, <1>c, SameBefore DEF Elsewhere, OrderParts, Flushing, Active
<1>14. ASSUME NEW s \in Servers, ClearQueue(s) PROVE OrderParts'
  <2>1. stored' = <<>> /\ excused' = excused \cup ToSet(stored)
        /\ UNCHANGED <<flush, call, req, begun, beside, late, sent>>
    BY <1>14 DEF ClearQueue, server
  <2> QED
    BY <1>c, <2>1, SameBefore DEF OrderParts, Flushing, Active, ToSet
<1>15. CASE Save
  <2>1. UNCHANGED <<stored, flush, call, req, begun, beside, excused, late, sent>>
    BY <1>15, SaveEffect DEF server
  <2> QED
    BY <1>c, <2>1, SameBefore DEF OrderParts, Flushing, Active
<1>16. CASE Kill
  <2>1. /\ \A w \in Writes : IF call[w].pc = "new" THEN call'[w].pc = "new"
                                                     ELSE call'[w].pc = "done"
        /\ flush'.pc = "off" /\ late' = {}
        /\ UNCHANGED <<stored, begun, beside, sent, excused>>
    BY <1>16, <1>c, KillEffect DEF Kill
  <2> QED
    BY <1>c, <2>1, SameBefore DEF OrderParts, Flushing, Active
<1>17. CASE UNCHANGED vars
  BY <1>17, <1>c, SameBefore DEF vars, OrderParts, Flushing, Active
<1> QED
  BY <1>1, <1>2, <1>3, <1>4, <1>5, <1>6, <1>7, <1>8, <1>9, <1>10, <1>11, <1>12, <1>13, <1>14,
     <1>15, <1>16, <1>17 DEF Next, SubmitWrite, FlushQueue

\* Serving an edit changes its spool at its server, and nothing else.
LEMMA ValStep ==
    ASSUME Types, [Next]_vars, NEW s \in Servers, NEW p \in Spools, val'[s][p] # val[s][p]
    PROVE  \/ val'[s][p] = Other
           \/ ServeLate
           \/ \E x \in Senders : /\ Serve(x) /\ val'[s][p] = req[x].w /\ s = req[x].srv
                                 /\ p = SpoolOf[req[x].w]
<1>1. ASSUME NEW x \in Senders, Serve(x)
      PROVE  /\ val'[s][p] = req[x].w /\ s = req[x].srv /\ p = SpoolOf[req[x].w]
  <2>1. Applies(req[x].w, req[x].srv)
    BY <1>1, ServeEffect
  <2> QED
    BY <2>1 DEF Applies
<1>2. CASE Elsewhere
  <2>1. PICK r \in Servers, q \in Spools : val' = [val EXCEPT ![r][q] = Other]
    BY <1>2 DEF Elsewhere
  <2>2. val'[s] = IF s = r THEN [val[r] EXCEPT ![q] = Other] ELSE val[s]
    BY <2>1 DEF Types
  <2>3. val[s] \in [Spools -> Writes \cup {None, Other}]
    BY DEF Types
  <2> QED
    BY <2>2, <2>3
<1>3. Save => UNCHANGED val
  BY SaveEffect DEF server
<1> QED
  BY <1>1, <1>2, <1>3 DEF Next, SubmitWrite, FlushQueue, Begin, FlushDone, CheckServer, CountAgain,
     Answer, Enqueue, Foreground, PeekNext, FlushAnswer, RemoveHead, ClearQueue, Kill, vars, server

LEMMA AtPlace ==
    ASSUME Types, NEW w \in Writes, \E i \in DOMAIN begun : begun[i] = w
    PROVE  At(w) \in DOMAIN begun /\ begun[At(w)] = w /\ At(w) \in Nat
  BY DEF At, Types

LEMMA NewestStep ==
    ASSUME Types, Sends, HistoryInv, OrderInv, [Next]_vars, ~play.late,
           NEW s \in Servers, NEW p \in Spools,
           val[s][p] \in Writes, val'[s][p] \in Writes \ excused, ~Crossed(val[s][p], val'[s][p])
    PROVE  At(val[s][p]) <= At(val'[s][p])
<1> USE WriteQueueAssumption
<1> DEFINE v == val[s][p]
<1>1. v \in Writes /\ SpoolOf[v] = p /\ sent[v] > 0 /\ \E i \in DOMAIN begun : begun[i] = v
  <2>1. v \in Writes /\ SpoolOf[v] = p /\ sent[v] > 0
    BY DEF HistoryInv
  <2>2. call[v].pc # "new"
    BY <2>1 DEF HistoryInv
  <2> QED
    BY <2>1, <2>2 DEF HistoryInv
<1>2. At(v) \in DOMAIN begun /\ begun[At(v)] = v /\ At(v) \in Nat
  BY <1>1, AtPlace
<1>3. CASE val'[s][p] = v
  BY <1>2, <1>3
<1>4. CASE val'[s][p] # v
  <2>1. ~ServeLate
    BY DEF OrderInv, OrderParts, ServeLate
  <2>2. val'[s][p] # Other
    OBVIOUS
  <2>3. PICK x \in Senders : /\ Serve(x) /\ val'[s][p] = req[x].w
                             /\ p = SpoolOf[req[x].w]
    BY <1>4, <2>1, <2>2, ValStep
  <2> DEFINE w == req[x].w
  <2>4. w \in Writes /\ w \notin excused /\ SpoolOf[w] = SpoolOf[v] /\ req[x] # None
    BY <2>3, <1>1 DEF Serve
  <2>5. /\ \/ w = flush.head /\ flush.pc = "sent" /\ call[w].pc = "done"
           \/ call[w].pc = "sent"
    BY <2>4 DEF Sends, Flushing, Senders
  <2>6. \E i \in DOMAIN begun : begun[i] = w
    BY <2>4, <2>5 DEF HistoryInv
  <2>7. At(w) \in DOMAIN begun /\ begun[At(w)] = w /\ At(w) \in Nat
    BY <2>4, <2>6, AtPlace
  <2>8. ~Before(w, v)
    <3>1. CASE call[w].pc = "sent"
      BY <1>1, <2>4, <3>1 DEF HistoryInv, Active
    <3>2. CASE w = flush.head /\ flush.pc = "sent"
      <4>1. PICK i \in DOMAIN stored : stored[i] = w
        BY <2>4, <3>2 DEF OrderInv, OrderParts
      <4>2. sent[v] = 0 \/ ~Before(w, v)
        BY <1>1, <4>1 DEF OrderInv, OrderParts
      <4> QED
        BY <1>1, <4>2
    <3> QED
      BY <2>5, <3>1, <3>2
  <2>9. ~(At(w) < At(v))
    BY <1>2, <2>3, <2>4, <2>7, <2>8 DEF Before, Crossed
  <2>10. At(v) <= At(w)
    BY <1>2, <2>7, <2>9
  <2> QED
    BY <2>3, <2>10
<1> QED
  BY <1>3, <1>4

LEMMA InitReplay == Init => ReplayInv
<1> SUFFICES ASSUME Init PROVE ReplayInv
  OBVIOUS
<1>1. \A w \in Writes : call[w].pc = "new"
  BY DEF Init, NoCall
<1> QED
  BY <1>1 DEF Init, ReplayInv, ReplayParts, Active

\* A request to its server overwrites nothing that is to be shown.
LEMMA ServeShown ==
    ASSUME Types, Sends, HistoryInv, HomeInv, OrderParts, ReplayParts,
           NEW x \in Senders, Serve(x), NEW h \in Writes, sent'[h] > 0,
           Active(h) \/ \E i \in DOMAIN stored : stored[i] = h
    PROVE  Shown(h)'
<1> USE WriteQueueAssumption
<1> DEFINE y == req[x].w
<1>1. /\ req[x] # None /\ y \in Writes /\ req[x].srv \in Servers /\ Applies(y, req[x].srv)
  BY ServeEffect
<1>2. req[x].srv = home[y]
  BY <1>1 DEF HomeInv, SentHome
<1>3. UNCHANGED <<home, excused, stored, call, flush>>
  BY DEF Serve
<1>4. (y = flush.head /\ Flushing /\ flush.pc = "sent" /\ call[y].pc = "done") \/ call[y].pc = "sent"
  BY <1>1 DEF Sends, Flushing, Senders
<1> HIDE DEF y
<1>5. SpoolOf[h] \in Spools
  OBVIOUS
<1>6. CASE h = y
  BY <1>1, <1>2, <1>3, <1>5, <1>6 DEF Shown, Applies
<1>7. CASE h # y
  <2>1. sent[h] > 0
    BY <1>1, <1>7 DEF Applies
  <2>2. Shown(h)
    BY <2>1 DEF ReplayParts
  <2>3. home[h] \in Servers
    <3>1. CASE Active(h)
      BY <3>1 DEF HomeInv, HomeCall, Sends
    <3>2. CASE \E i \in DOMAIN stored : stored[i] = h
      BY <3>2 DEF HomeInv, Types
    <3> QED
      BY <3>1, <3>2
  <2>4. CASE SpoolOf[h] # SpoolOf[y]
    <3>1. val'[home[h]][SpoolOf[h]] = val[home[h]][SpoolOf[h]]
      BY <1>1, <1>5, <2>3, <2>4 DEF Applies
    <3>2. UNCHANGED beside
      BY DEF Serve
    <3> QED
      BY <1>3, <2>2, <3>1, <3>2 DEF Shown, Crossed
  <2>5. CASE SpoolOf[h] = SpoolOf[y]
    <3>1. y \in excused \/ Crossed(y, h)
      <4>1. CASE call[y].pc = "sent"
        <5>1. CASE Active(h)
          BY <1>1, <1>7, <2>5, <4>1, <5>1 DEF HistoryInv, Active
        <5>2. CASE \E i \in DOMAIN stored : stored[i] = h
          <6>1. call[h].pc # "new" /\ call[y].pc # "new"
            BY <4>1, <5>2 DEF Sends
          <6>2. Before(y, h) \/ Before(h, y) \/ Crossed(y, h)
            BY <1>1, <1>7, <2>5, <6>1, InOrder
          <6>3. ~Before(h, y)
            BY <1>1, <4>1, <5>2 DEF OrderParts
          <6>4. ~Before(y, h)
            BY <1>1, <4>1 DEF HistoryInv, Active
          <6> QED
            BY <6>2, <6>3, <6>4
        <5> QED
          BY <5>1, <5>2
      <4>2. CASE y = flush.head /\ Flushing /\ flush.pc = "sent" /\ y \notin excused
        <5>1. PICK i \in DOMAIN stored : stored[i] = y
          BY <4>2 DEF OrderParts
        <5>2. CASE Active(h)
          <6>1. call[h].pc # "new" /\ call[y].pc # "new"
            BY <5>1, <5>2 DEF Active, Sends
          <6>2. Before(y, h) \/ Before(h, y) \/ Crossed(y, h)
            BY <1>1, <1>7, <2>5, <6>1, InOrder
          <6>3. ~Before(h, y)
            BY <1>1, <5>2 DEF HistoryInv
          <6>4. ~Before(y, h)
            BY <2>1, <5>1 DEF OrderParts
          <6> QED
            BY <6>2, <6>3, <6>4
        <5>3. CASE \E j \in DOMAIN stored : stored[j] = h
          <6>1. call[h].pc # "new" /\ call[y].pc # "new"
            BY <5>1, <5>3 DEF Sends
          <6>2. Before(y, h) \/ Before(h, y) \/ Crossed(y, h)
            BY <1>1, <1>7, <2>5, <6>1, InOrder
          <6>3. ~Before(h, y)
            BY <4>2, <5>3 DEF OrderParts
          <6>4. ~Before(y, h)
            BY <2>1, <5>1 DEF OrderParts
          <6> QED
            BY <6>2, <6>3, <6>4
        <5> QED
          BY <5>2, <5>3
      <4> QED
        BY <1>4, <4>1, <4>2
    <3>2. val'[home[h]][SpoolOf[h]] \in {y, val[home[h]][SpoolOf[h]]}
      BY <1>1, <1>5, <2>3 DEF Applies
    <3>3. UNCHANGED beside
      BY DEF Serve
    <3> QED
      BY <1>1, <1>3, <2>2, <3>1, <3>2, <3>3 DEF Shown, Crossed
  <2> QED
    BY <2>4, <2>5
<1> QED
  BY <1>6, <1>7

LEMMA ReplayStep ==
    ASSUME Types, Sends, HistoryInv, HomeInv, OrderParts, ReplayParts, ~play.late, [Next]_vars
    PROVE  ReplayParts'
<1> USE WriteQueueAssumption
<1>b. \A i \in DOMAIN stored : stored[i] \in Writes /\ call[stored[i]].pc = "done"
  BY DEF Types, Sends
<1>c. /\ \A i \in DOMAIN stored : sent[stored[i]] > 0 => Shown(stored[i])
      /\ \A w \in Writes : Active(w) /\ sent[w] > 0 => Shown(w)
  BY DEF ReplayParts
\* A step that serves nothing.
<1>d. ASSUME UNCHANGED <<val, sent>>, excused \subseteq excused',
             \A w \in Writes : beside[w] \subseteq beside'[w],
             \A w \in Writes : sent[w] > 0 => home'[w] = home[w],
             \A w \in Writes : sent[w] > 0 /\ Active(w)' => Active(w),
             \A i \in DOMAIN stored' : \/ \E j \in DOMAIN stored : stored'[i] = stored[j]
                                       \/ stored'[i] \in Writes /\ Active(stored'[i])
      PROVE  ReplayParts'
  <2>1. \A w \in Writes : sent[w] > 0 /\ Shown(w) => Shown(w)'
    BY <1>d DEF Shown, Crossed
  <2>2. \A w \in Writes : Active(w)' /\ sent'[w] > 0 => Shown(w)'
    BY <1>c, <1>d, <2>1
  <2>3. ASSUME NEW i \in DOMAIN stored', sent'[stored'[i]] > 0 PROVE Shown(stored[i])'
    <3>1. PICK h \in Writes : h = stored'[i] /\ sent[h] > 0 /\ Shown(h)
      BY <1>b, <1>c, <1>d, <2>3
    <3>2. Shown(h)'
      BY <2>1, <3>1
    <3> QED
      BY <3>1, <3>2 DEF Shown
  <2> QED
    BY <2>2, <2>3 DEF ReplayParts
<1>1. ASSUME NEW w \in Writes, Begin(w) PROVE ReplayParts'
  <2>1. /\ call[w].pc = "new" /\ sent[w] = 0 /\ beside[w] = {}
        /\ \A v \in Writes : v # w => call'[v] = call[v] /\ home'[v] = home[v]
    BY <1>1, BeginEffect DEF Begin, HistoryInv
  <2>2. \A v \in Writes : beside[v] \subseteq beside'[v]
    BY <1>1, <2>1, BeginBefore
  <2> QED
    BY <1>1, <1>d, <2>1, <2>2 DEF Begin, Active, server
<1>2. ASSUME NEW w \in Writes, SubmitWrite(w) PROVE ReplayParts'
  <2>1. Active(w) /\ \A v \in Writes : v # w => call'[v] = call[v]
    <3>1. \A p \in Pcs : call' = [call EXCEPT ![w].pc = p] => \A v \in Writes : v # w => call'[v] = call[v]
      BY GotoEffect
    <3> QED
      BY <1>2, <3>1 DEF SubmitWrite, FlushDone, CheckServer, CountAgain, Answer, Enqueue, Active,
         Goto, Answered, Pcs
  <2>2. UNCHANGED <<val, sent, home, beside>>
    BY <1>2 DEF SubmitWrite, FlushDone, CheckServer, CountAgain, Answer, Enqueue, server
  <2>3. /\ excused \subseteq excused'
        /\ \A i \in DOMAIN stored' : \/ \E j \in DOMAIN stored : stored'[i] = stored[j]
                                     \/ stored'[i] = w
    <3>1. CASE UNCHANGED <<stored, excused>>
      BY <3>1
    <3>2. CASE /\ call[w].pc = "enqueue" /\ stored' = Trim(Append(stored, w))
               /\ excused' = excused \cup Evicted(Append(stored, w))
      BY <3>2, EnqueueEffect
    <3> QED
      BY <1>2, <3>1, <3>2 DEF SubmitWrite, FlushDone, CheckServer, CountAgain, Answer, Enqueue
  <2> QED
    BY <1>d, <2>1, <2>2, <2>3 DEF Active
<1>3. CASE Foreground \/ PeekNext \/ Save
  <2>1. UNCHANGED <<stored, val, sent, home, beside, excused, call>>
    BY <1>3, SaveEffect DEF Foreground, PeekNext, server
  <2> QED
    BY <1>d, <2>1 DEF Active
<1>4. CASE FlushAnswer
  BY <1>4, <1>d DEF FlushAnswer, Active
<1>5. CASE RemoveHead
  <2>1. \A i \in DOMAIN stored' : \E j \in DOMAIN stored : stored'[i] = stored[j]
    BY <1>5, RemoveEffect
  <2> QED
    BY <1>5, <1>d, <2>1 DEF RemoveHead, Active, server
<1>6. ASSUME NEW x \in Senders, Serve(x) PROVE ReplayParts'
  <2>1. UNCHANGED <<stored, call>>
    BY <1>6 DEF Serve
  <2>2. \A h \in Writes : sent'[h] > 0 /\ (Active(h) \/ \E i \in DOMAIN stored : stored[i] = h)
                            => Shown(h)'
    BY <1>6, ServeShown
  <2>3. ASSUME NEW i \in DOMAIN stored', sent'[stored'[i]] > 0 PROVE Shown(stored[i])'
    <3>1. PICK h \in Writes : h = stored[i]
      BY <1>b, <2>1
    <3>2. Shown(h)'
      BY <2>1, <2>2, <2>3, <3>1
    <3> QED
      BY <2>1, <3>1, <3>2 DEF Shown
  <2> QED
    BY <2>1, <2>2, <2>3 DEF ReplayParts, Active
<1>7. CASE ServeLate
  BY <1>7 DEF ServeLate, OrderParts
<1>8. CASE Elsewhere
  <2>1. UNCHANGED <<stored, call, home, excused, sent, beside>>
    BY <1>8 DEF Elsewhere
  <2>2. PICK r \in Servers, q \in Spools : val' = [val EXCEPT ![r][q] = Other]
    BY <1>8 DEF Elsewhere
  <2>3. ASSUME NEW s \in Servers, NEW p \in Spools PROVE val'[s][p] \in {val[s][p], Other}
    <3>1. val'[s] = IF s = r THEN [val[r] EXCEPT ![q] = Other] ELSE val[s]
      BY <2>2 DEF Types
    <3>2. val[s] \in [Spools -> Writes \cup {None, Other}]
      BY DEF Types
    <3> QED
      BY <3>1, <3>2
  <2>4. ASSUME NEW w \in Writes, Active(w) \/ \E i \in DOMAIN stored : stored[i] = w, Shown(w)
        PROVE  Shown(w)'
    <3>1. home[w] \in Servers
      <4>1. CASE Active(w)
        BY <4>1 DEF HomeInv, HomeCall, Sends
      <4>2. CASE \E i \in DOMAIN stored : stored[i] = w
        BY <4>2 DEF HomeInv, Types
      <4> QED
        BY <2>4, <4>1, <4>2
    <3>2. SpoolOf[w] \in Spools
      OBVIOUS
    <3> QED
      BY <2>1, <2>3, <2>4, <3>1, <3>2 DEF Shown, Crossed
  <2>5. \A w \in Writes : Active(w)' /\ sent'[w] > 0 => Shown(w)'
    BY <1>c, <2>1, <2>4 DEF Active
  <2>6. ASSUME NEW i \in DOMAIN stored', sent'[stored'[i]] > 0 PROVE Shown(stored[i])'
    <3> DEFINE h == stored[i]
    <3>1. Shown(h)'
      BY <1>b, <1>c, <2>1, <2>4, <2>6
    <3> QED
      BY <2>1, <3>1
  <2> QED
    BY <2>5, <2>6 DEF ReplayParts
<1>9. ASSUME NEW s \in Servers, ClearQueue(s) PROVE ReplayParts'
  BY <1>9, <1>d DEF ClearQueue, Active, server
<1>10. CASE Kill
  <2>1. \A w \in Writes : ~Active(w)'
    BY <1>10, KillEffect DEF Active
  <2> QED
    BY <1>10, <1>d, <2>1 DEF Kill
<1>11. CASE UNCHANGED vars
  BY <1>11, <1>d DEF vars, Active
<1> QED
  BY <1>1, <1>2, <1>3, <1>4, <1>5, <1>6, <1>7, <1>8, <1>9, <1>10, <1>11 DEF Next, FlushQueue

LEMMA NoOpStep ==
    ASSUME Types, Sends, HistoryInv, HomeInv, OrderInv, ReplayInv, [Next]_vars, ~play.late,
           NEW s \in Servers, NEW p \in Spools, NEW w \in Writes \ excused,
           val'[s][p] = w, val[s][p] \notin {w, Other} \cup excused \cup {v \in Writes : Crossed(v, w)}
    PROVE  sent[w] = 0
<1> USE WriteQueueAssumption
<1>1. ~ServeLate
  BY DEF OrderInv, OrderParts, ServeLate
<1>2. PICK x \in Senders : /\ Serve(x) /\ w = req[x].w /\ s = req[x].srv
                           /\ p = SpoolOf[req[x].w]
  BY <1>1, ValStep
<1>3. req[x] # None /\ ~req[x].served /\ s = home[w] /\ p = SpoolOf[w]
  BY <1>2 DEF Serve, HomeInv, SentHome
<1>4. ~Shown(w)
  BY <1>3 DEF Shown
<1>5. (w = flush.head /\ flush.pc = "sent") \/ (call[w].pc = "sent" /\ x = w)
  BY <1>2, <1>3 DEF Sends, Senders
<1>6. sent[w] \in Nat
  BY DEF Types
<1>7. CASE call[w].pc = "sent" /\ x = w
  BY <1>3, <1>7 DEF OrderInv, OrderParts
<1>8. CASE w = flush.head /\ flush.pc = "sent"
  <2>1. \E i \in DOMAIN stored : stored[i] = w
    BY <1>8 DEF OrderInv, OrderParts
  <2>2. ~(sent[w] > 0)
    BY <1>4, <2>1 DEF ReplayInv, ReplayParts
  <2> QED
    BY <1>6, <2>2
<1> QED
  BY <1>5, <1>7, <1>8

LEMMA OrderInvHolds == Spec => [](EditsInv /\ HistoryInv /\ OrderInv)
<1>1. Init => HistoryInv /\ OrderInv
  BY InitHistory, InitOrder DEF OrderInv
<1>2. EditsInv /\ HistoryInv /\ [Next]_vars => HistoryInv'
  BY HistoryStep DEF EditsInv
<1>3. EditsInv /\ HistoryInv /\ OrderInv /\ [Next]_vars => OrderInv'
  BY OrderStep, SameLate DEF EditsInv, OrderInv
<1> QED
  BY <1>1, <1>2, <1>3, EditsInvHolds, PTL DEF Spec

LEMMA ReplayInvHolds ==
    ASSUME \A pl \in Plays : ~pl.midSave
    PROVE  Spec => [](EditsInv /\ HistoryInv /\ OrderInv /\ HomeInv /\ ReplayInv)
<1>1. Init => ReplayInv
  BY InitReplay
<1>2. EditsInv /\ HistoryInv /\ OrderInv /\ HomeInv /\ ReplayInv /\ [Next]_vars => ReplayInv'
  BY ReplayStep, SameLate DEF EditsInv, OrderInv, ReplayInv
<1> QED
  BY <1>1, <1>2, OrderInvHolds, HomeInvHolds, PTL DEF Spec

\* An edit never overwrites one the user made when it was over (writeQueue.ts:205-247,
\* 274-290), when no request that was given up is served.
THEOREM NewestEditWins == Spec => NewestEditStays
<1>1. EditsInv /\ HistoryInv /\ OrderInv /\ [Next]_vars =>
        [\A s \in Servers, p \in Spools :
          LET old == val[s][p]
              new == val'[s][p]
          IN (~play.late /\ old \in Writes /\ new \in Writes \ excused /\ ~Crossed(old, new))
                => At(old) <= At(new)]_vars
  BY NewestStep DEF EditsInv
<1> QED
  BY <1>1, OrderInvHolds, PTL DEF Spec, NewestEditStays

\* The servers see usage once, edits in their order, and a replay is a no-op
\* (writeQueue.ts:187-197, 274-290), when no edit is made while the address is saved.
THEOREM EditsAppliedInOrder ==
    ASSUME \A pl \in Plays : ~pl.midSave
    PROVE  Spec => AppliedInOrder
<1>1. EditsInv /\ HistoryInv /\ OrderInv /\ HomeInv /\ ReplayInv /\ [Next]_vars =>
        [\A s \in Servers, p \in Spools, w \in Writes \ excused :
          (/\ ~play.late /\ val'[s][p] = w
           /\ val[s][p] \notin {w, Other} \cup excused \cup {v \in Writes : Crossed(v, w)})
             => sent[w] = 0]_vars
  BY NoOpStep DEF EditsInv
<1> QED
  BY <1>1, ReplayInvHolds, NewestEditWins, UsageCountedOnce, PTL
     DEF Spec, AppliedInOrder, ReplayIsNoOp
=============================================================================
