--------------------------- MODULE DesktopProofs ---------------------------
(***************************************************************************)
(* Proofs about Desktop, for any number of saves, processes and services,  *)
(* any plays and any bounds.                                               *)
(*                                                                         *)
(* The embedded database and the quit are argued from their own state,     *)
(* however requests overlap.  The server and the settings are argued from  *)
(* the one handler that is under way when saves do not overlap: it stops   *)
(* the server before it forks another, and it is what a process on its way *)
(* out, or a database that is stopping, is awaited by.                     *)
(***************************************************************************)
EXTENDS Desktop, TLAPS, FiniteSetTheorems

Handlers == Saves \cup {"boot"}
Resolving == {"resolve", "probe", "starting", "local", "awaiting", "stopping", "stopped", "failed"}
Stoppings == {"stopping", "awaiting", "stopped"}
\* A save is between the stop of a server and the end of its attempts.
Replacing == {"killing", "fork", "spawning", "refused", "gaveUp"}

\* Two attempts are all a save makes, it waits for a process it knows, and before it
\* has its URI it made no attempt.
TriesFit == \A t \in Tasks : task[t].tries = 2 => task[t].pc \in {"killing", "gaveUp"}
ProcFits == \A t \in Tasks :
    task[t].proc # None <=> task[t].pc \in {"killing", "spawning", "refused"}
ResolvingFits == \A t \in Tasks :
    task[t].pc \in Resolving => task[t].uri = "none" /\ task[t].tries = 0
TInv == TypeOK /\ TriesFit /\ ProcFits /\ ResolvingFits

\* The database that main.ts knows is the only one; without it there is the one of
\* the start under way, or none.
KnownIsOnly ==
    mongo.mongod # None =>
        /\ mongo.db[mongo.mongod] # "none"
        /\ \A d \in Dbs : d # mongo.mongod => mongo.db[d] = "none"
StartIsOnly ==
    mongo.mongod = None /\ mongo.starting =>
        \E d \in Dbs : mongo.db[d] = "creating" /\ \A e \in Dbs : e # d => mongo.db[e] = "none"
NoneIsLeft == mongo.mongod = None /\ ~mongo.starting => \A d \in Dbs : mongo.db[d] = "none"
CreatingIsUnknown == \A d \in Dbs : mongo.db[d] = "creating" => mongo.mongod = None
KnownHasUri == mongo.mongod # None /\ ~mongo.starting => mongo.uri
MInv == KnownIsOnly /\ StartIsOnly /\ NoneIsLeft /\ CreatingIsUnknown /\ KnownHasUri

\* The quit waits for a stop of the database; once that is through, only a later
\* request can bring one up.
QuitWaits ==
    /\ task["quit"].pc \in {"idle"} \cup Stoppings
    /\ ~app.quitting => task["quit"] = Idle
ShutDownIsDone ==
    task["quit"].pc = "stopped" /\ ~app.late =>
        ~mongo.starting /\ \A d \in Dbs : mongo.db[d] = "none"
EndIsTold ==
    /\ app.finished = "stopped" => task["quit"].pc = "stopped"
    /\ app.gone => app.finished # "no"
QInv == QuitWaits /\ ShutDownIsDone /\ EndIsTold

\* A service that main.ts let go of is idle, or told to end.
LetGo ==
    \A s \in Services : s # sync.current =>
        /\ sync.svc[s].st # "active"
        /\ sync.svc[s].cycle = "none" \/ sync.svc[s].aborted

\* Without overlapping saves one handler at most is under way.
OneAtATime ==
    ~play.together => \A t, u \in Handlers : t # u => task[t] = Idle \/ task[u] = Idle

\* No service is on while Atlas is asked, without a mode, and on Atlas alone.
NoneActive == \A s \in Services : sync.svc[s].st # "active"
ProbeIsOff == \A t \in Handlers : task[t].pc = "probe" => NoneActive
NoModeIsOff ==
    config.mode = "none" => NoneActive /\ \A t \in Handlers : task[t].pc \notin Resolving
AtlasIsOff == config.mode = "atlas" /\ config.uri = "atlas" => NoneActive
OInv == ~play.together => ProbeIsOff /\ NoModeIsOff /\ AtlasIsOff

\* The current server is none on its way out; before a handler forks there is none,
\* and a timer is of a server that crashed.
CurrentLives ==
    server.current # None =>
        server.proc[server.current].st \in {"booting", "up", "fooled", "dead"}
StrayIsNone ==
    \A p \in Procs : server.proc[p].st \in {"booting", "up", "fooled"} => p = server.current
TimerIsOfDead == \A p \in server.timers : p = server.current => server.proc[p].st = "dead"
StoppedFirst ==
    \A t \in Handlers : task[t].pc \in {"killing", "fork", "gaveUp"} => server.current = None
BootIsFirst ==
    /\ task["boot"].pc \in Resolving \cup {"serve"} => server.current = None
    /\ task["boot"].pc \notin {"killing", "gaveUp"}
ServerOk ==
    ~server.again /\ CurrentLives /\ StrayIsNone /\ TimerIsOfDead /\ StoppedFirst /\ BootIsFirst
RInv == Orderly => ServerOk

\* A process on its way out is awaited; a handler that spawned waits for the server
\* that is starting; and none was fooled.
DyingIsAwaited ==
    \A p \in Procs : server.proc[p].st \in {"dying", "killed"} =>
        \E t \in Handlers : task[t].pc = "killing" /\ task[t].proc = p
SpawningIsCurrent ==
    \A t \in Handlers : task[t].pc = "spawning" =>
        /\ task[t].proc = server.current
        /\ server.proc[task[t].proc].st = "booting" /\ server.proc[task[t].proc].by = "task"
NoneIsFooled == \A p \in Procs : server.proc[p].st # "fooled"
HandoverOk == DyingIsAwaited /\ SpawningIsCurrent /\ NoneIsFooled
WInv == Orderly /\ ~app.quitting => HandoverOk

\* The database is stopped or started by the handler under way only, and whoever
\* has it, or stored its URI, has it up.
StartIsHandled ==
    mongo.starting => ~mongo.shuttingDown /\ \E t \in Handlers : task[t].pc = "starting"
StopIsHandled ==
    \A d \in Dbs : mongo.db[d] \in {"stopping", "hung"} => \E t \in Handlers : task[t].pc = "stopping"
NoneAwaits == \A t \in Handlers : task[t].pc # "awaiting"
GotIsUp == \A t \in Handlers : task[t].pc = "local" => LocalUp
StoredIsUp == config.uri = "local" => LocalUp
DbOk == StartIsHandled /\ StopIsHandled /\ NoneAwaits /\ GotIsUp /\ StoredIsUp
DInv == ~play.together /\ ~app.quitting => DbOk

\* The URI a handler resolved is the stored one, and so is that of the server unless
\* a handler is about to replace it.
HandlerUri ==
    \A t \in Handlers :
        /\ task[t].uri # "none" => config.uri = task[t].uri
        /\ task[t].pc \in Stoppings => config.uri = "atlas"
ServerUri ==
    server.current # None /\ config.uri # "none"
      /\ (\A t \in Handlers : task[t].pc \notin Stoppings \cup {"serve"})
        => server.proc[server.current].uri = config.uri
UriOk == HandlerUri /\ ServerUri
UInv == Orderly /\ ~app.quitting => UriOk

\* A crash is left to the save that replaces the server, and what is advertised
\* without a server is taken back by it.
IntentionalIsSave == server.intentional => \E t \in Saves : task[t].pc \in Replacing
GaveUpTwice == \A t \in Tasks : task[t].pc = "gaveUp" => task[t].tries = 2
LanIsAsked == \A t \in Tasks : task[t].kind = "lan" => "lan" \in play.kinds
Refusals(t) == task[t].tries + (IF task[t].pc = "refused" THEN 1 ELSE 0)
FewRefusals ==
    "lan" \in play.kinds => play.fails <= 1 /\ \A t \in Saves : play.fails + Refusals(t) <= 1
Advertised ==
    server.mdns /\ ~IsUp(server.current) => \E t \in Saves : task[t].pc \in Replacing
ReplaceOk == IntentionalIsSave /\ GaveUpTwice /\ LanIsAsked
AdvertOk == FewRefusals /\ Advertised
AInv == ReplaceOk /\ (Orderly /\ ~app.quitting => AdvertOk)

-----------------------------------------------------------------------------
(* The types.                                                              *)

LEMMA InitTypes == Init => TInv
<1> SUFFICES ASSUME Init PROVE TInv
    OBVIOUS
<1>1. play \in Play
  BY DesktopAssumption DEF Init
<1>2. Idle \in Handler /\ NoProc \in Proc
  BY DEF Idle, NoProc, Handler, Proc, Uris
<1>3. config \in Config
  BY <1>1 DEF Init, Config, Play, Modes, Uris
<1>4. mongo \in Mongo
  BY DEF Init, Mongo
<1>5. server \in Server
  BY <1>2, DesktopAssumption DEF Init, Server
<1>6. sync \in [current : Services \cup {None}, svc : [Services -> Service]]
  BY DEF Init, Service
<1>7. [Idle EXCEPT !.pc = "resolve", !.kind = play.mode] \in Handler
  BY <1>1, <1>2 DEF Handler, Play, Idle
<1>8. task \in [Tasks -> Handler]
  BY <1>2, <1>7 DEF Init
<1>9. TriesFit /\ ProcFits /\ ResolvingFits
  BY <1>8 DEF Init, TriesFit, ProcFits, ResolvingFits, Resolving, Idle
<1> QED
  BY <1>1, <1>3, <1>4, <1>5, <1>6, <1>8, <1>9 DEF TInv, TypeOK, Init

-----------------------------------------------------------------------------
(* What the steps write, field by field.                                   *)

\* Handler t goes to pc with these fields; the others wait where they are.
Becomes(t, pc, kind, uri, proc, tries) ==
    /\ task' \in [Tasks -> Handler]
    /\ task'[t].pc = pc /\ task'[t].kind = kind /\ task'[t].uri = uri
    /\ task'[t].proc = proc /\ task'[t].tries = tries
    /\ \A u \in Tasks : u # t => task'[u] = task[u]

\* Whoever waits for a start, for a stop after a start, or for a stop, goes on there.
Resumed(starting, awaiting, stopping) ==
    /\ task' \in [Tasks -> Handler]
    /\ \A t \in Tasks :
          /\ task'[t].pc = IF task[t].pc = "starting" THEN starting
                           ELSE IF task[t].pc = "awaiting" THEN awaiting
                           ELSE IF task[t].pc = "stopping" THEN stopping ELSE task[t].pc
          /\ task'[t].kind = task[t].kind /\ task'[t].uri = task[t].uri
          /\ task'[t].proc = task[t].proc /\ task'[t].tries = task[t].tries
          /\ task[t].pc \notin {"starting", "awaiting", "stopping"} => task'[t] = task[t]

LEMMA TasksAre ==
    /\ Saves \subseteq Tasks /\ Handlers \subseteq Tasks /\ "boot" \in Handlers
    /\ "quit" \in Tasks /\ "quit" \notin Handlers
    /\ \A t \in Tasks : t \in Handlers \/ t = "quit"
BY DesktopAssumption DEF Tasks, Handlers

LEMMA IdleIs ==
    /\ Idle \in Handler
    /\ Idle.pc = "idle" /\ Idle.kind = "none" /\ Idle.uri = "none"
    /\ Idle.proc = None /\ Idle.tries = 0
BY DEF Idle, Handler

\* A handler whose place is not idle is under way.
LEMMA NotIdle ==
    ASSUME NEW k, k.pc # "idle"
    PROVE  k # Idle
BY DEF Idle

\* Goto sends one handler on and leaves the others.
LEMMA GotoDoes ==
    ASSUME task \in [Tasks -> Handler], NEW t \in Tasks, NEW k \in Handler,
           NEW pc \in {"probe", "local", "starting", "stopping", "awaiting", "stopped",
                       "serve", "fork"},
           Goto(t, k, pc)
    PROVE  Becomes(t, pc, k.kind, k.uri, k.proc, k.tries)
<1> DEFINE q == [k EXCEPT !.pc = pc]
<1>1. q \in Handler /\ q.pc = pc /\ q.kind = k.kind /\ q.uri = k.uri /\ q.proc = k.proc
      /\ q.tries = k.tries
  BY DEF Handler
<1>2. task' = [task EXCEPT ![t] = q]
  BY DEF Goto
<1> HIDE DEF q
<1> QED
  BY <1>1, <1>2 DEF Becomes

AppTyped ==
    app' \in [quitting : BOOLEAN, finished : {"no", "stopped", "timer"}, gone : BOOLEAN, late : BOOLEAN]

\* A start finds the database, shares the start under way, or makes one.
Started(t, kind) ==
    /\ mongo' \in Mongo /\ AppTyped
    /\ app'.late = (app.late \/ app.quitting) /\ app'.quitting = app.quitting
    /\ app'.finished = app.finished /\ app'.gone = app.gone
    /\ \/ /\ mongo.mongod # None /\ mongo.uri /\ mongo' = mongo
          /\ Becomes(t, "local", kind, "none", None, 0)
       \/ /\ ~(mongo.mongod # None /\ mongo.uri)
          /\ mongo'.starting /\ ~mongo'.shuttingDown
          /\ mongo'.mongod = mongo.mongod /\ mongo'.uri = mongo.uri
          /\ mongo'.db = Share(NewDb)
          /\ Becomes(t, "starting", kind, "none", None, 0)

\* A stop stops the database it knows, unless a start is under way: then it waits.
Halted(t, kind) ==
    /\ mongo' \in Mongo
    /\ mongo'.shuttingDown /\ mongo'.mongod = mongo.mongod /\ mongo'.uri = mongo.uri
    /\ mongo'.starting = mongo.starting
    /\ \/ /\ mongo.mongod # None /\ ~mongo.starting
          /\ mongo'.db[mongo.mongod] =
                 IF mongo.db[mongo.mongod] = "hung" THEN "hung" ELSE "stopping"
          /\ \A d \in Dbs : d # mongo.mongod => mongo'.db[d] = mongo.db[d]
          /\ Becomes(t, "stopping", kind, "none", None, 0)
       \/ /\ mongo.starting /\ mongo'.db = mongo.db
          /\ Becomes(t, "awaiting", kind, "none", None, 0)
       \/ /\ mongo.mongod = None /\ ~mongo.starting /\ mongo'.db = mongo.db
          /\ Becomes(t, "stopped", kind, "none", None, 0)

\* A handler that has but a kind.
Fresh(k, kind) ==
    k \in Handler /\ k.kind = kind /\ k.uri = "none" /\ k.proc = None /\ k.tries = 0

LEMMA StartDoes ==
    ASSUME TInv, NEW t \in Tasks, NEW kind, NEW k, Fresh(k, kind), Start(t, k)
    PROVE  Started(t, kind)
<1>1. task \in [Tasks -> Handler] /\ mongo \in Mongo
  BY DEF TInv, TypeOK
<1>2. /\ AppTyped
      /\ app'.late = (app.late \/ app.quitting) /\ app'.quitting = app.quitting
      /\ app'.finished = app.finished /\ app'.gone = app.gone
  BY DEF Start, TInv, TypeOK, AppTyped
<1>3. CASE mongo.mongod # None /\ mongo.uri
  BY <1>1, <1>2, <1>3, GotoDoes DEF Start, Started, Fresh
<1>4. CASE ~(mongo.mongod # None /\ mongo.uri)
  <2> DEFINE db == Share(NewDb)
  <2>1. db \in [Dbs -> {"none", "creating", "up", "stopping", "hung"}]
    BY <1>1 DEF Share, Mongo
  <2> HIDE DEF db
  <2>2. mongo' = [mongo EXCEPT !.shuttingDown = FALSE, !.starting = TRUE, !.db = db]
    BY <1>4 DEF Start, db
  <2>3. mongo' \in Mongo /\ mongo'.starting /\ ~mongo'.shuttingDown
        /\ mongo'.mongod = mongo.mongod /\ mongo'.uri = mongo.uri /\ mongo'.db = db
    BY <1>1, <2>1, <2>2 DEF Mongo
  <2>4. Becomes(t, "starting", kind, "none", None, 0)
    BY <1>1, <1>4, GotoDoes DEF Start, Fresh
  <2> QED
    BY <1>2, <1>4, <2>3, <2>4 DEF db, Started
<1> QED
  BY <1>3, <1>4

LEMMA StopDoes ==
    ASSUME TInv, NEW t \in Tasks, NEW kind, NEW k, Fresh(k, kind), Stop(t, k)
    PROVE  Halted(t, kind)
<1>1. task \in [Tasks -> Handler] /\ mongo \in Mongo
  BY DEF TInv, TypeOK
<1> DEFINE stops == mongo.mongod # None /\ ~mongo.starting
           db == IF stops /\ mongo.db[mongo.mongod] # "hung"
                 THEN [mongo.db EXCEPT ![mongo.mongod] = "stopping"] ELSE mongo.db
<1>2. db \in [Dbs -> {"none", "creating", "up", "stopping", "hung"}]
  BY <1>1 DEF Mongo
<1>3. /\ ~stops => db = mongo.db
      /\ stops => /\ db[mongo.mongod] =
                        IF mongo.db[mongo.mongod] = "hung" THEN "hung" ELSE "stopping"
                  /\ \A d \in Dbs : d # mongo.mongod => db[d] = mongo.db[d]
  BY <1>1 DEF Mongo
<1>4. mongo' = [mongo EXCEPT !.shuttingDown = TRUE, !.db = db]
  BY DEF Stop, AwaitsStart
<1>5. Goto(t, k, IF stops THEN "stopping" ELSE IF mongo.starting THEN "awaiting" ELSE "stopped")
  BY DEF Stop, AwaitsStart
<1> HIDE DEF db
<1>6. /\ mongo' \in Mongo /\ mongo'.db = db
      /\ mongo'.shuttingDown /\ mongo'.mongod = mongo.mongod /\ mongo'.uri = mongo.uri
      /\ mongo'.starting = mongo.starting
  BY <1>1, <1>2, <1>4 DEF Mongo
<1>7. CASE stops
  BY <1>1, <1>3, <1>5, <1>6, <1>7, GotoDoes DEF Halted, Fresh
<1>8. CASE ~stops /\ mongo.starting
  BY <1>1, <1>3, <1>5, <1>6, <1>8, GotoDoes DEF Halted, Fresh
<1>9. CASE ~stops /\ ~mongo.starting
  BY <1>1, <1>3, <1>5, <1>6, <1>9, GotoDoes DEF Halted, Fresh
<1> QED
  BY <1>7, <1>8, <1>9

\* Waiting handlers go on, and with them nothing else of a handler changes.
LEMMA ResumeDoes ==
    ASSUME TInv, NEW s \in {"local", "failed"}, NEW a \in {"stopping", "stopped"},
           NEW p \in {"stopping", "stopped"},
           task' = [t \in Tasks |-> task'[t]],
           \A t \in Tasks : task'[t] = [task[t] EXCEPT !.pc =
                        IF task[t].pc = "starting" THEN s ELSE IF task[t].pc = "awaiting" THEN a
                        ELSE IF task[t].pc = "stopping" THEN p ELSE task[t].pc]
    PROVE  Resumed(s, a, p)
<1> DEFINE pc(t) == IF task[t].pc = "starting" THEN s ELSE IF task[t].pc = "awaiting" THEN a
                    ELSE IF task[t].pc = "stopping" THEN p ELSE task[t].pc
           q(t) == [task[t] EXCEPT !.pc = pc(t)]
<1>1. \A t \in Tasks :
         /\ q(t) \in Handler /\ q(t).pc = pc(t)
         /\ q(t).kind = task[t].kind /\ q(t).uri = task[t].uri
         /\ q(t).proc = task[t].proc /\ q(t).tries = task[t].tries
         /\ pc(t) = task[t].pc => q(t) = task[t]
  <2> TAKE t \in Tasks
  <2>1. task[t] \in Handler
    BY DEF TInv, TypeOK
  <2>2. pc(t) \in {"idle", "resolve", "probe", "starting", "local", "awaiting", "stopping",
                  "stopped", "failed", "serve", "killing", "fork", "spawning", "refused", "gaveUp"}
    BY <2>1 DEF Handler
  <2> HIDE DEF pc
  <2> QED
    BY <2>1, <2>2 DEF Handler
<1>2. \A t \in Tasks : task'[t] = q(t)
  OBVIOUS
<1> HIDE DEF q
<1>3. task' \in [Tasks -> Handler]
  BY <1>1, <1>2 DEF q
<1> QED
  BY <1>1, <1>2, <1>3 DEF Resumed

\* The places where Resume says nothing stay as they are.
LEMMA ResumeIs ==
    ASSUME TInv, NEW to, NEW s \in {"local", "failed"}, NEW a \in {"stopping", "stopped"},
           NEW p \in {"stopping", "stopped"},
           DOMAIN to \subseteq {"starting", "awaiting", "stopping"},
           "starting" \in DOMAIN to, to["starting"] = s,
           "awaiting" \in DOMAIN to, to["awaiting"] = a,
           IF "stopping" \in DOMAIN to THEN to["stopping"] = p ELSE p = "stopping",
           Resume(to)
    PROVE  Resumed(s, a, p)
<1>1. \A t \in Tasks : task[t] = [task[t] EXCEPT !.pc = task[t].pc]
  BY DEF TInv, TypeOK, Handler
<1>2. \A t \in Tasks :
        (IF task[t].pc \in DOMAIN to THEN [task[t] EXCEPT !.pc = to[task[t].pc]] ELSE task[t])
        = [task[t] EXCEPT !.pc =
                IF task[t].pc = "starting" THEN s ELSE IF task[t].pc = "awaiting" THEN a
                ELSE IF task[t].pc = "stopping" THEN p ELSE task[t].pc]
  <2> TAKE t \in Tasks
  <2>1. CASE task[t].pc \in DOMAIN to
    BY <2>1
  <2>2. CASE task[t].pc \notin DOMAIN to
    BY <1>1, <2>2
  <2> QED
    BY <2>1, <2>2
<1>3. /\ task' = [t \in Tasks |-> task'[t]]
      /\ \A t \in Tasks : task'[t] = IF task[t].pc \in DOMAIN to
                                     THEN [task[t] EXCEPT !.pc = to[task[t].pc]] ELSE task[t]
  BY DEF Resume
<1>4. \A t \in Tasks : task'[t] = [task[t] EXCEPT !.pc =
                IF task[t].pc = "starting" THEN s ELSE IF task[t].pc = "awaiting" THEN a
                ELSE IF task[t].pc = "stopping" THEN p ELSE task[t].pc]
  BY <1>2, <1>3
<1> QED
  BY <1>3, <1>4, ResumeDoes

\* A database that came up is the known one; a stop that began meanwhile stops it.
LEMMA CreatedDoes ==
    ASSUME TInv, NEW d \in Dbs, Created(d)
    PROVE  /\ ~app.gone /\ mongo.db[d] = "creating" /\ mongo' \in Mongo
           /\ UNCHANGED <<play, config, server, sync, app>>
           /\ mongo'.mongod = d /\ \A e \in Dbs : e # d => mongo'.db[e] = mongo.db[e]
           /\ mongo'.shuttingDown = mongo.shuttingDown
           /\ \/ /\ mongo.shuttingDown /\ task' = task /\ mongo'.db[d] = "stopping"
                 /\ mongo'.uri = mongo.uri /\ mongo'.starting = mongo.starting
              \/ /\ ~mongo.shuttingDown /\ Resumed("local", "stopping", "stopping")
                 /\ mongo'.uri /\ ~mongo'.starting
                 /\ mongo'.db[d] = IF \E t \in Tasks : task[t].pc = "awaiting" THEN "stopping" ELSE "up"
<1>1. mongo \in Mongo
  BY DEF TInv, TypeOK
<1>2. CASE mongo.shuttingDown
  <2>1. mongo' = [mongo EXCEPT !.db[d] = "stopping", !.mongod = d] /\ task' = task
    BY <1>2 DEF Created
  <2> QED
    BY <1>1, <1>2, <2>1 DEF Created, Mongo
<1>3. CASE ~mongo.shuttingDown
  <2> DEFINE st == IF \E t \in Tasks : task[t].pc = "awaiting" THEN "stopping" ELSE "up"
  <2>1. /\ mongo' = [mongo EXCEPT !.mongod = d, !.uri = TRUE, !.starting = FALSE, !.db[d] = st]
        /\ Resume([starting |-> "local", awaiting |-> "stopping"])
    BY <1>3 DEF Created
  <2>2. st \in {"stopping", "up"}
    OBVIOUS
  <2>3. Resumed("local", "stopping", "stopping")
    BY <2>1, ResumeIs
  <2> HIDE DEF st
  <2>4. /\ mongo' \in Mongo /\ mongo'.mongod = d /\ mongo'.uri /\ ~mongo'.starting
        /\ mongo'.shuttingDown = mongo.shuttingDown
        /\ mongo'.db[d] = st /\ \A e \in Dbs : e # d => mongo'.db[e] = mongo.db[e]
    BY <1>1, <2>1, <2>2 DEF Mongo
  <2> QED
    BY <1>3, <2>3, <2>4 DEF Created, st
<1> QED
  BY <1>2, <1>3

\* A start that fails, and a stop that is through, leave no database.
LEMMA CreateFailsDoes ==
    ASSUME TInv, NEW d \in Dbs, CreateFails(d)
    PROVE  /\ ~app.gone /\ mongo.db[d] = "creating" /\ mongo' \in Mongo
           /\ UNCHANGED <<config, server, sync, app>> /\ Fails
           /\ mongo'.mongod = mongo.mongod /\ mongo'.uri = mongo.uri /\ ~mongo'.starting
           /\ mongo'.shuttingDown = mongo.shuttingDown
           /\ mongo'.db[d] = "none" /\ \A e \in Dbs : e # d => mongo'.db[e] = mongo.db[e]
           /\ Resumed("failed", "stopped", "stopping")
<1>1. mongo \in Mongo
  BY DEF TInv, TypeOK
<1>2. mongo' = [mongo EXCEPT !.db[d] = "none", !.starting = FALSE]
      /\ Resume([starting |-> "failed", awaiting |-> "stopped"])
  BY DEF CreateFails
<1>3. Resumed("failed", "stopped", "stopping")
  BY <1>2, ResumeIs
<1>4. /\ mongo' \in Mongo /\ mongo'.mongod = mongo.mongod /\ mongo'.uri = mongo.uri
      /\ ~mongo'.starting /\ mongo'.shuttingDown = mongo.shuttingDown
      /\ mongo'.db[d] = "none" /\ \A e \in Dbs : e # d => mongo'.db[e] = mongo.db[e]
  BY <1>1, <1>2 DEF Mongo
<1> QED
  BY <1>3, <1>4 DEF CreateFails

LEMMA StoppedDoes ==
    ASSUME TInv, NEW d \in Dbs, Stopped(d)
    PROVE  /\ ~app.gone /\ mongo.db[d] = "stopping" /\ mongo' \in Mongo
           /\ UNCHANGED <<play, config, server, sync, app>>
           /\ mongo'.mongod = None /\ ~mongo'.uri /\ ~mongo'.starting
           /\ mongo'.shuttingDown = mongo.shuttingDown
           /\ mongo'.db[d] = "none" /\ \A e \in Dbs : e # d => mongo'.db[e] = mongo.db[e]
           /\ Resumed("failed", "stopped", "stopped")
<1>1. mongo \in Mongo
  BY DEF TInv, TypeOK
<1>2. mongo' = [mongo EXCEPT !.db[d] = "none", !.mongod = None, !.uri = FALSE, !.starting = FALSE]
      /\ Resume([starting |-> "failed", awaiting |-> "stopped", stopping |-> "stopped"])
  BY DEF Stopped
<1>3. Resumed("failed", "stopped", "stopped")
  BY <1>2, ResumeIs
<1>4. /\ mongo' \in Mongo /\ mongo'.mongod = None /\ ~mongo'.uri
      /\ ~mongo'.starting /\ mongo'.shuttingDown = mongo.shuttingDown
      /\ mongo'.db[d] = "none" /\ \A e \in Dbs : e # d => mongo'.db[e] = mongo.db[e]
  BY <1>1, <1>2 DEF Mongo
<1> QED
  BY <1>3, <1>4 DEF Stopped

LEMMA HangsDoes ==
    ASSUME TInv, NEW d \in Dbs, Hangs(d)
    PROVE  /\ ~app.gone /\ mongo.db[d] = "stopping" /\ mongo' \in Mongo
           /\ UNCHANGED <<config, server, sync, task, app>> /\ Fails
           /\ mongo'.mongod = mongo.mongod /\ mongo'.uri = mongo.uri
           /\ mongo'.starting = mongo.starting /\ mongo'.shuttingDown = mongo.shuttingDown
           /\ mongo'.db[d] = "hung" /\ \A e \in Dbs : e # d => mongo'.db[e] = mongo.db[e]
<1>1. mongo \in Mongo
  BY DEF TInv, TypeOK
<1>2. mongo' = [mongo EXCEPT !.db[d] = "hung"]
  BY DEF Hangs
<1> QED
  BY <1>1, <1>2 DEF Hangs, Mongo

\* A failure is one less to come; nothing else of the play changes.
LEMMA FailsDoes ==
    ASSUME TInv, Fails
    PROVE  /\ play' \in Play /\ play.fails > 0 /\ play'.fails = play.fails - 1
           /\ play'.together = play.together /\ play'.srv = play.srv /\ play'.kinds = play.kinds
           /\ play'.mode = play.mode
<1>1. play \in Play /\ play.fails \in 0..MaxBudget /\ play.fails - 1 \in 0..MaxBudget
  BY DesktopAssumption DEF TInv, TypeOK, Fails, Play
<1> QED
  BY <1>1 DEF Fails, Play

\* Destroying a service switches it off and tells its cycle to end.
LEMMA DestroyDoes ==
    ASSUME NEW svc \in [Services -> Service], NEW s \in Services \cup {None}
    PROVE  /\ Destroy(svc, s) \in [Services -> Service]
           /\ \A x \in Services : x # s => Destroy(svc, s)[x] = svc[x]
           /\ \A x \in Services : x = s =>
                 /\ Destroy(svc, s)[x].st = "destroyed" /\ Destroy(svc, s)[x].aborted
                 /\ Destroy(svc, s)[x].cycle = svc[x].cycle
<1>1. CASE s = None
  BY <1>1, DesktopAssumption DEF Destroy
<1>2. CASE s # None
  <2> DEFINE q == [svc[s] EXCEPT !.st = "destroyed", !.aborted = TRUE]
  <2>1. Destroy(svc, s) = [svc EXCEPT ![s] = q]
    BY <1>2 DEF Destroy, Service
  <2>2. q \in Service /\ q.st = "destroyed" /\ q.aborted /\ q.cycle = svc[s].cycle
    BY <1>2 DEF Service
  <2> HIDE DEF q
  <2> QED
    BY <1>2, <2>1, <2>2
<1> QED
  BY <1>1, <1>2

SyncTyped == sync' \in [current : Services \cup {None}, svc : [Services -> Service]]

\* The services after main.ts destroyed the current one.
Dropped(s) ==
    /\ sync'.svc[s].cycle = sync.svc[s].cycle
    /\ s # sync.current => sync'.svc[s] = sync.svc[s]
    /\ s = sync.current => sync'.svc[s].st = "destroyed" /\ sync'.svc[s].aborted

LEMMA DropSyncDoes ==
    ASSUME TInv, DropSync
    PROVE  SyncTyped /\ sync'.current = None /\ \A s \in Services : Dropped(s)
<1> DEFINE svc == Destroy(sync.svc, sync.current)
<1>1. sync.svc \in [Services -> Service] /\ sync.current \in Services \cup {None}
  BY DEF TInv, TypeOK
<1>2. /\ svc \in [Services -> Service]
      /\ \A x \in Services : x # sync.current => svc[x] = sync.svc[x]
      /\ \A x \in Services : x = sync.current =>
             svc[x].st = "destroyed" /\ svc[x].aborted /\ svc[x].cycle = sync.svc[x].cycle
  BY <1>1, DestroyDoes
<1>3. sync' = [current |-> None, svc |-> svc]
  BY DEF DropSync
<1> HIDE DEF svc
<1> QED
  BY <1>2, <1>3 DEF SyncTyped, Dropped

\* The new service is the current one and on; the one before is destroyed.
LEMMA InitSyncDoes ==
    ASSUME TInv, FreeServices # {}, InitSync
    PROVE  /\ SyncTyped /\ sync'.current \in Services
           /\ sync.svc[sync'.current].cycle = "none"
           /\ sync'.svc[sync'.current].st = "active" /\ sync'.svc[sync'.current].cycle = "open"
           /\ \A s \in Services : s # sync'.current => Dropped(s)
<1> DEFINE svc == Destroy(sync.svc, sync.current)
           n == CHOOSE x \in FreeServices : TRUE
           new == [st |-> "active", cycle |-> "open", aborted |-> FALSE]
<1>1. sync.svc \in [Services -> Service] /\ sync.current \in Services \cup {None}
  BY DEF TInv, TypeOK
<1>2. n \in Services /\ sync.svc[n].cycle = "none"
  BY DEF FreeServices
<1>3. /\ svc \in [Services -> Service]
      /\ \A x \in Services : x # sync.current => svc[x] = sync.svc[x]
      /\ \A x \in Services : x = sync.current =>
             svc[x].st = "destroyed" /\ svc[x].aborted /\ svc[x].cycle = sync.svc[x].cycle
  BY <1>1, DestroyDoes
<1>4. new \in Service
  BY DEF Service
<1>5. sync' = [current |-> n, svc |-> [svc EXCEPT ![n] = new]]
  BY DEF InitSync
<1> HIDE DEF svc, n
<1> QED
  BY <1>2, <1>3, <1>4, <1>5 DEF SyncTyped, Dropped

\* A cycle begins, goes through its collections and ends; only that service moves.
LEMMA SyncStepDoes ==
    ASSUME TInv, NEW s \in Services,
           Cycle(s) \/ Collection(s) \/ CollectionDone(s) \/ EndCycle(s)
    PROVE  /\ UNCHANGED <<play, config, mongo, server, task, app>>
           /\ SyncTyped /\ sync'.current = sync.current
           /\ \A x \in Services : x # s => sync'.svc[x] = sync.svc[x]
           /\ sync'.svc[s].st = sync.svc[s].st
           /\ \/ sync.svc[s].st = "active" \/ sync.current = s
              \/ /\ sync'.svc[s].aborted = sync.svc[s].aborted
                 /\ sync'.svc[s].cycle = "none" \/ sync.svc[s].cycle # "none"
           /\ sync.svc[s].cycle = "open" /\ sync'.svc[s].cycle = "copy" => ~sync.svc[s].aborted
<1>1. /\ sync \in [current : Services \cup {None}, svc : [Services -> Service]]
      /\ sync.svc[s] \in Service
  BY DEF TInv, TypeOK
<1>2. CASE Cycle(s)
  <2> DEFINE q == [sync.svc[s] EXCEPT !.cycle = "open", !.aborted = FALSE]
             svc == [sync.svc EXCEPT ![s] = q]
  <2>1. q \in Service /\ q.st = sync.svc[s].st /\ q.cycle = "open"
    BY <1>1 DEF Service
  <2>2. sync' = [sync EXCEPT !.svc = svc]
    BY <1>1, <1>2 DEF Cycle, Service
  <2> HIDE DEF q
  <2>3. svc \in [Services -> Service] /\ svc[s] = q /\ \A x \in Services : x # s => svc[x] = sync.svc[x]
    BY <1>1, <2>1
  <2> HIDE DEF svc
  <2> QED
    BY <1>1, <1>2, <2>1, <2>2, <2>3 DEF Cycle, SyncTyped
<1>3. ASSUME NEW c \in {"none", "open", "copy"}, SetCycle(s, c)
      PROVE  /\ UNCHANGED <<play, config, mongo, server, task, app>>
             /\ SyncTyped /\ sync'.current = sync.current
             /\ \A x \in Services : x # s => sync'.svc[x] = sync.svc[x]
             /\ sync'.svc[s].st = sync.svc[s].st
             /\ sync'.svc[s].aborted = sync.svc[s].aborted /\ sync'.svc[s].cycle = c
  <2> DEFINE q == [sync.svc[s] EXCEPT !.cycle = c]
             svc == [sync.svc EXCEPT ![s] = q]
  <2>1. /\ q \in Service /\ q.st = sync.svc[s].st /\ q.cycle = c
        /\ q.aborted = sync.svc[s].aborted
    BY <1>1 DEF Service
  <2>2. sync' = [sync EXCEPT !.svc = svc]
    BY <1>1, <1>3 DEF SetCycle
  <2> HIDE DEF q
  <2>3. svc \in [Services -> Service] /\ svc[s] = q /\ \A x \in Services : x # s => svc[x] = sync.svc[x]
    BY <1>1, <2>1
  <2> HIDE DEF svc
  <2> QED
    BY <1>1, <1>3, <2>1, <2>2, <2>3 DEF SetCycle, SyncTyped
<1>4. CASE Collection(s)
  BY <1>3, <1>4 DEF Collection
<1>5. CASE CollectionDone(s)
  BY <1>3, <1>5 DEF CollectionDone
<1>6. CASE EndCycle(s)
  BY <1>3, <1>6 DEF EndCycle
<1> QED
  BY <1>2, <1>4, <1>5, <1>6

\* What stopping the current process leaves of it.
Stops(st) == IF st = "dead" THEN "dead" ELSE IF st = "up" THEN "dying" ELSE "killed"

LEMMA KillingDoes ==
    ASSUME NEW sv \in Server
    PROVE  /\ Killing(sv) \in Server /\ Killing(sv).current = None
           /\ Killing(sv).restarts = sv.restarts /\ Killing(sv).timers = sv.timers
           /\ Killing(sv).again = sv.again /\ Killing(sv).intentional = sv.intentional
           /\ Killing(sv).mdns = sv.mdns
           /\ \A p \in Procs : p # sv.current => Killing(sv).proc[p] = sv.proc[p]
           /\ \A p \in Procs : p = sv.current =>
                 /\ Killing(sv).proc[p].st = Stops(sv.proc[p].st)
                 /\ Killing(sv).proc[p].uri = sv.proc[p].uri
                 /\ Killing(sv).proc[p].by = sv.proc[p].by
<1>1. CASE sv.current = None
  BY <1>1, DesktopAssumption DEF Killing
<1>2. CASE sv.current # None
  <2> DEFINE p == sv.current
             q == [sv.proc[p] EXCEPT !.st = Stops(sv.proc[p].st)]
  <2>1. p \in Procs /\ sv.proc \in [Procs -> Proc]
    BY <1>2 DEF Server
  <2>2. q \in Proc /\ q.st = Stops(sv.proc[p].st) /\ q.uri = sv.proc[p].uri
        /\ q.by = sv.proc[p].by
    BY <2>1 DEF Proc, Stops
  <2>3. Killing(sv) = [sv EXCEPT !.current = None, !.proc = [sv.proc EXCEPT ![p] = q]]
    BY <1>2, <2>1 DEF Killing, Stops, Proc, Server
  <2> HIDE DEF q
  <2> DEFINE proc == [sv.proc EXCEPT ![p] = q]
  <2>4. proc \in [Procs -> Proc] /\ proc[p] = q /\ \A x \in Procs : x # p => proc[x] = sv.proc[x]
    BY <2>1, <2>2
  <2> HIDE DEF proc
  <2>5. /\ Killing(sv) \in Server /\ Killing(sv).current = None /\ Killing(sv).proc = proc
        /\ Killing(sv).restarts = sv.restarts /\ Killing(sv).timers = sv.timers
        /\ Killing(sv).again = sv.again /\ Killing(sv).intentional = sv.intentional
        /\ Killing(sv).mdns = sv.mdns
    BY <2>3, <2>4 DEF Server, proc
  <2> QED
    BY <2>2, <2>4, <2>5
<1> QED
  BY <1>1, <1>2

\* A fork puts a new process in a free place, as the current one.
LEMMA ForkedDoes ==
    ASSUME NEW sv \in Server, NEW uri \in Uris, NEW by \in {"task", "crash"},
           FreeProcs # {}
    PROVE  LET f == Forked(sv, uri, by) IN
           /\ f \in Server /\ NewProc \in FreeProcs /\ f.current = NewProc
           /\ f.restarts = sv.restarts /\ f.timers = sv.timers
           /\ f.again = sv.again /\ f.intentional = sv.intentional /\ f.mdns = sv.mdns
           /\ f.proc[NewProc].st = "booting" /\ f.proc[NewProc].uri = uri
           /\ f.proc[NewProc].by = by
           /\ \A p \in Procs : p # NewProc =>
                 f.proc[p] = IF p = sv.current /\ sv.proc[p].st = "dead" THEN NoProc ELSE sv.proc[p]
<1> DEFINE n == NewProc
           new == [st |-> "booting", uri |-> uri, by |-> by]
           proc == IF sv.current # None /\ sv.proc[sv.current].st = "dead"
                   THEN [sv.proc EXCEPT ![sv.current] = NoProc] ELSE sv.proc
<1>1. n \in FreeProcs /\ n \in Procs
  BY DEF NewProc, FreeProcs
<1>2. new \in Proc /\ NoProc \in Proc
  BY DEF Proc, NoProc, Uris
<1>3. sv.proc \in [Procs -> Proc] /\ sv.current \in Procs \cup {None}
  BY DEF Server
<1>4. /\ proc \in [Procs -> Proc]
      /\ \A p \in Procs :
            proc[p] = IF p = sv.current /\ sv.proc[p].st = "dead" THEN NoProc ELSE sv.proc[p]
  BY <1>2, <1>3, DesktopAssumption
<1>5. Forked(sv, uri, by) = [sv EXCEPT !.proc = [proc EXCEPT ![n] = new], !.current = n]
  BY DEF Forked
<1> HIDE DEF proc, n, new
<1>6. [proc EXCEPT ![n] = new] \in [Procs -> Proc]
  BY <1>1, <1>2, <1>4
<1>7. /\ Forked(sv, uri, by) \in Server /\ Forked(sv, uri, by).current = n
      /\ Forked(sv, uri, by).restarts = sv.restarts /\ Forked(sv, uri, by).timers = sv.timers
      /\ Forked(sv, uri, by).again = sv.again /\ Forked(sv, uri, by).intentional = sv.intentional
      /\ Forked(sv, uri, by).mdns = sv.mdns
      /\ Forked(sv, uri, by).proc = [proc EXCEPT ![n] = new]
  BY <1>1, <1>5, <1>6 DEF Server
<1>8. /\ Forked(sv, uri, by).proc[n] = new
      /\ \A p \in Procs : p # n => Forked(sv, uri, by).proc[p] = proc[p]
  BY <1>1, <1>4, <1>7
<1>9. n = NewProc /\ new.st = "booting" /\ new.uri = uri /\ new.by = by
  BY DEF n, new
<1> QED
  BY <1>1, <1>4, <1>7, <1>8, <1>9

LEMMA FreshIs ==
    ASSUME NEW kind \in Modes \cup {"lan"}
    PROVE  Fresh([Idle EXCEPT !.kind = kind], kind) /\ Fresh(Idle, "none")
BY DEF Fresh, Idle, Handler

\* A handler that resolves its URI has but its kind.
LEMMA ResolvingIs ==
    ASSUME TInv, NEW t \in Tasks, task[t].pc \in Resolving
    PROVE  Fresh(task[t], task[t].kind)
<1>1. task[t] \in Handler
  BY DEF TInv, TypeOK
<1> QED
  BY <1>1 DEF TInv, ProcFits, ResolvingFits, Fresh, Resolving

\* resolveMongoUri: Atlas is asked, or the database is started; offline and Atlas
\* mode drop the service first.
LEMMA ResolveDoes ==
    ASSUME TInv, NEW t \in Tasks, NEW mode \in Modes, Resolve(t, mode)
    PROVE  /\ UNCHANGED server
           /\ \/ /\ mode # "hybrid" /\ SyncTyped /\ sync'.current = None
                 /\ \A s \in Services : Dropped(s)
              \/ mode = "hybrid" /\ UNCHANGED sync
           /\ \/ /\ mode = "atlas" /\ UNCHANGED <<mongo, app>>
                 /\ Becomes(t, "probe", mode, "none", None, 0)
              \/ mode # "atlas" /\ Started(t, mode)
<1> DEFINE k == [Idle EXCEPT !.kind = mode]
<1>1. Fresh(k, mode)
  BY FreshIs
<1>2. /\ UNCHANGED server
      /\ IF mode \in TearsDown THEN DropSync ELSE UNCHANGED sync
      /\ IF mode = "atlas" THEN Goto(t, k, "probe") /\ UNCHANGED <<mongo, app>> ELSE Start(t, k)
  BY DEF Resolve
<1> HIDE DEF k
<1>3. CASE mode = "atlas"
  <2>1. Becomes(t, "probe", mode, "none", None, 0)
    BY <1>1, <1>2, <1>3, GotoDoes DEF Fresh, TInv, TypeOK
  <2> QED
    BY <1>2, <1>3, <2>1, DropSyncDoes DEF TearsDown
<1>4. CASE mode # "atlas"
  <2>1. Started(t, mode)
    BY <1>1, <1>2, <1>4, StartDoes
  <2> QED
    BY <1>2, <1>4, <2>1, DropSyncDoes DEF TearsDown, Modes
<1> QED
  BY <1>3, <1>4

LEMMA BootDoes ==
    ASSUME TInv, Boot
    PROVE  /\ ~app.gone /\ task["boot"].pc = "resolve" /\ UNCHANGED <<play, config, server>>
           /\ play.mode \in Modes /\ "boot" \in Tasks
           /\ Resolve("boot", play.mode)
BY TasksAre DEF Boot, At, TInv, TypeOK, Play, Resolve

LEMMA ProbeDoes ==
    ASSUME TInv, NEW t \in Tasks, Probe(t)
    PROVE  /\ ~app.gone /\ task[t].pc = "probe" /\ UNCHANGED <<play, server, sync>>
           /\ \/ /\ config' \in Config /\ config'.uri = "atlas" /\ config'.mode = config.mode
                 /\ config'.lan = config.lan /\ UNCHANGED app /\ Halted(t, task[t].kind)
              \/ UNCHANGED config /\ Started(t, task[t].kind)
<1>1. Fresh(task[t], task[t].kind) /\ config \in Config
  BY ResolvingIs DEF Probe, At, Resolving, TInv, TypeOK
<1>2. CASE config' = [config EXCEPT !.uri = "atlas"] /\ Stop(t, task[t]) /\ UNCHANGED app
  <2>1. Halted(t, task[t].kind)
    BY <1>1, <1>2, StopDoes
  <2>2. config' \in Config /\ config'.uri = "atlas" /\ config'.mode = config.mode
        /\ config'.lan = config.lan
    BY <1>1, <1>2 DEF Config, Uris
  <2> QED
    BY <1>2, <2>1, <2>2 DEF Probe, At
<1>3. CASE Start(t, task[t]) /\ UNCHANGED config
  BY <1>1, <1>3, StartDoes DEF Probe, At
<1> QED
  BY <1>2, <1>3 DEF Probe

\* A handler's record with some fields set is one; the others stay.
LEMMA SetHandler ==
    ASSUME task \in [Tasks -> Handler], NEW t \in Tasks, NEW q \in Handler,
           task' = [task EXCEPT ![t] = q]
    PROVE  Becomes(t, q.pc, q.kind, q.uri, q.proc, q.tries)
BY DEF Becomes

LEMMA GotLocalDoes ==
    ASSUME TInv, NEW t \in Tasks, GotLocal(t)
    PROVE  /\ ~app.gone /\ task[t].pc = "local" /\ UNCHANGED <<play, mongo, server, app>>
           /\ config' \in Config /\ config'.uri = "local" /\ config'.mode = config.mode
           /\ config'.lan = config.lan
           /\ Becomes(t, "serve", task[t].kind, "local", None, 0)
           /\ \/ UNCHANGED sync
              \/ /\ SyncTyped /\ sync'.current \in Services
                 /\ sync.svc[sync'.current].cycle = "none"
                 /\ sync'.svc[sync'.current].st = "active" /\ sync'.svc[sync'.current].cycle = "open"
                 /\ \A s \in Services : s # sync'.current => Dropped(s)
<1>1. Fresh(task[t], task[t].kind) /\ config \in Config /\ task \in [Tasks -> Handler]
  BY ResolvingIs DEF GotLocal, At, Resolving, TInv, TypeOK
<1>2. config' \in Config /\ config'.uri = "local" /\ config'.mode = config.mode
      /\ config'.lan = config.lan
  BY <1>1 DEF GotLocal, StoreLocal, Config, Uris
<1> DEFINE q == [task[t] EXCEPT !.pc = "serve", !.uri = "local"]
<1>3. q \in Handler /\ q.pc = "serve" /\ q.kind = task[t].kind /\ q.uri = "local" /\ q.proc = None
      /\ q.tries = 0
  BY <1>1 DEF Fresh, Handler
<1>4. task' = [task EXCEPT ![t] = q]
  BY <1>1 DEF GotLocal, Handler
<1> HIDE DEF q
<1>5. Becomes(t, "serve", task[t].kind, "local", None, 0)
  BY <1>1, <1>3, <1>4, SetHandler
<1>6. CASE task[t].kind = "offline"
  BY <1>2, <1>5, <1>6 DEF GotLocal, At
<1>7. CASE task[t].kind # "offline"
  BY <1>2, <1>5, <1>7, InitSyncDoes DEF GotLocal, At
<1> QED
  BY <1>6, <1>7

LEMMA GotAtlasDoes ==
    ASSUME TInv, NEW t \in Tasks, GotAtlas(t)
    PROVE  /\ ~app.gone /\ t # "quit" /\ task[t].pc = "stopped"
           /\ UNCHANGED <<play, config, mongo, server, sync, app>>
           /\ Becomes(t, "serve", task[t].kind, "atlas", None, 0)
<1>1. Fresh(task[t], task[t].kind) /\ task \in [Tasks -> Handler]
  BY ResolvingIs DEF GotAtlas, At, Resolving, TInv, TypeOK
<1> DEFINE q == [task[t] EXCEPT !.pc = "serve", !.uri = "atlas"]
<1>2. q \in Handler /\ q.pc = "serve" /\ q.kind = task[t].kind /\ q.uri = "atlas" /\ q.proc = None
      /\ q.tries = 0
  BY <1>1 DEF Fresh, Handler
<1>3. task' = [task EXCEPT ![t] = q]
  BY <1>1 DEF GotAtlas, Handler
<1> HIDE DEF q
<1>4. Becomes(t, "serve", task[t].kind, "atlas", None, 0)
  BY <1>1, <1>2, <1>3, SetHandler
<1> QED
  BY <1>4 DEF GotAtlas, At

\* Without a database the boot goes on to serve, and a save ends.
LEMMA UnresolvedDoes ==
    ASSUME TInv, NEW t \in Tasks, Unresolved(t)
    PROVE  /\ ~app.gone /\ task[t].pc = "failed"
           /\ UNCHANGED <<play, config, mongo, server, sync, app>>
           /\ \/ t = "boot" /\ Becomes(t, "serve", task[t].kind, "none", None, 0)
              \/ /\ t # "boot" /\ Becomes(t, "idle", "none", "none", None, 0)
                 /\ task'[t] = Idle
<1>1. Fresh(task[t], task[t].kind) /\ task \in [Tasks -> Handler]
  BY ResolvingIs DEF Unresolved, At, Resolving, TInv, TypeOK
<1>2. CASE t = "boot"
  <2> DEFINE q == [task[t] EXCEPT !.pc = "serve"]
  <2>1. q \in Handler /\ q.pc = "serve" /\ q.kind = task[t].kind /\ q.uri = "none"
        /\ q.proc = None /\ q.tries = 0
    BY <1>1 DEF Fresh, Handler
  <2>2. task' = [task EXCEPT ![t] = q]
    BY <1>2 DEF Unresolved
  <2> HIDE DEF q
  <2>3. Becomes(t, "serve", task[t].kind, "none", None, 0)
    BY <1>1, <2>1, <2>2, SetHandler
  <2> QED
    BY <1>2, <2>3 DEF Unresolved, At
<1>3. CASE t # "boot"
  <2>1. task' = [task EXCEPT ![t] = Idle]
    BY <1>3 DEF Unresolved
  <2>2. Becomes(t, "idle", "none", "none", None, 0)
    BY <1>1, <2>1, SetHandler, IdleIs
  <2>3. task'[t] = Idle
    BY <1>1, <2>1
  <2> QED
    BY <1>3, <2>2, <2>3 DEF Unresolved, At
<1> QED
  BY <1>2, <1>3

-----------------------------------------------------------------------------
(* What the steps of the server write.                                     *)

\* The current process is stopped and let go of.
Kills ==
    /\ server' \in Server /\ server'.current = None
    /\ server'.restarts = server.restarts /\ server'.timers = server.timers
    /\ server'.again = server.again
    /\ \A p \in Procs : p # server.current => server'.proc[p] = server.proc[p]
    /\ \A p \in Procs : p = server.current =>
          /\ server'.proc[p].st = Stops(server.proc[p].st)
          /\ server'.proc[p].uri = server.proc[p].uri
          /\ server'.proc[p].by = server.proc[p].by

\* n is forked and becomes the current process.
Forks(n, uri, by) ==
    /\ server' \in Server /\ n \in FreeProcs /\ server'.current = n
    /\ server'.restarts = server.restarts
    /\ server'.intentional = server.intentional /\ server'.mdns = server.mdns
    /\ server'.proc[n].st = "booting" /\ server'.proc[n].uri = uri /\ server'.proc[n].by = by
    /\ \A p \in Procs : p # n =>
          server'.proc[p] = IF p = server.current /\ server.proc[p].st = "dead" THEN NoProc
                            ELSE server.proc[p]

\* Nothing but the process p changes of the server.
Only(p) ==
    /\ server' \in Server /\ server'.current = server.current
    /\ server'.timers = server.timers /\ server'.again = server.again
    /\ \A q \in Procs : q # p => server'.proc[q] = server.proc[q]

\* Where a handler goes that has no process to wait for.
AfterPc(tries) == IF tries = 2 THEN "gaveUp" ELSE "fork"

\* A handler waits for the current process to exit, if there is one.
Waits(t, tries) ==
    \/ /\ server.current = None
       /\ Becomes(t, AfterPc(tries), task[t].kind, task[t].uri, None, tries)
    \/ /\ server.current # None
       /\ Becomes(t, "killing", task[t].kind, task[t].uri, server.current, tries)

LEMMA StoppingDoes ==
    ASSUME TInv, NEW t \in Tasks, NEW k \in Handler, k.kind = task[t].kind, k.uri = task[t].uri,
           k.proc \in {None, task[t].proc}, task' = [task EXCEPT ![t] = Stopping(k)]
    PROVE  Waits(t, k.tries)
<1>1. task \in [Tasks -> Handler] /\ server.current \in Procs \cup {None}
  BY DEF TInv, TypeOK, Server
<1>2. CASE server.current = None
  <2> DEFINE q == [k EXCEPT !.pc = AfterPc(k.tries), !.proc = None]
  <2>1. q \in Handler /\ q.pc = AfterPc(k.tries) /\ q.kind = k.kind /\ q.uri = k.uri
        /\ q.proc = None /\ q.tries = k.tries
    BY DEF Handler, AfterPc
  <2>2. task' = [task EXCEPT ![t] = q]
    BY <1>2 DEF Stopping, AfterKill, AfterPc
  <2> HIDE DEF q
  <2>3. Becomes(t, AfterPc(k.tries), k.kind, k.uri, None, k.tries)
    BY <1>1, <2>1, <2>2 DEF Becomes
  <2> QED
    BY <1>2, <2>3 DEF Waits
<1>3. CASE server.current # None
  <2> DEFINE q == [k EXCEPT !.pc = "killing", !.proc = server.current]
  <2>1. q \in Handler /\ q.pc = "killing" /\ q.kind = k.kind /\ q.uri = k.uri
        /\ q.proc = server.current /\ q.tries = k.tries
    BY <1>1 DEF Handler
  <2>2. task' = [task EXCEPT ![t] = q]
    BY <1>3 DEF Stopping
  <2> HIDE DEF q
  <2>3. Becomes(t, "killing", k.kind, k.uri, server.current, k.tries)
    BY <1>1, <2>1, <2>2, SetHandler
  <2> QED
    BY <1>3, <2>3 DEF Waits
<1> QED
  BY <1>2, <1>3

\* A save stops the server and says so; the boot forks.
LEMMA ServeDoes ==
    ASSUME TInv, NEW t \in Tasks, Serve(t)
    PROVE  /\ ~app.gone /\ task[t].pc = "serve" /\ UNCHANGED <<play, config, mongo, sync, app>>
           /\ task[t].proc = None /\ task[t].tries # 2
           /\ \/ /\ t = "boot" /\ UNCHANGED server
                 /\ Becomes(t, "fork", task[t].kind, task[t].uri, None, task[t].tries)
              \/ /\ t # "boot" /\ Kills /\ server'.intentional /\ server'.mdns = server.mdns
                 /\ Waits(t, task[t].tries)
<1>1. /\ task \in [Tasks -> Handler] /\ server \in Server /\ task[t] \in Handler
      /\ task[t].proc = None /\ task[t].tries # 2
  BY DEF TInv, TypeOK, TriesFit, ProcFits, Serve, At, Handler
<1>2. CASE t = "boot"
  <2>1. Becomes(t, "fork", task[t].kind, task[t].uri, None, task[t].tries)
    BY <1>1, <1>2, GotoDoes DEF Serve
  <2> QED
    BY <1>1, <1>2, <2>1 DEF Serve, At
<1>3. CASE t # "boot"
  <2> DEFINE sv == [server EXCEPT !.intentional = TRUE]
  <2>1. /\ sv \in Server /\ sv.current = server.current /\ sv.restarts = server.restarts
        /\ sv.timers = server.timers /\ sv.again = server.again /\ sv.intentional
        /\ sv.mdns = server.mdns /\ sv.proc = server.proc
    BY <1>1 DEF Server
  <2>2. server' = Killing(sv) /\ task' = [task EXCEPT ![t] = Stopping(task[t])]
    BY <1>1, <1>3 DEF Serve
  <2> HIDE DEF sv
  <2>3. Kills /\ server'.intentional /\ server'.mdns = server.mdns
    BY <2>1, <2>2, KillingDoes DEF Kills
  <2>4. Waits(t, task[t].tries)
    BY <1>1, <2>2, StoppingDoes
  <2> QED
    BY <1>1, <1>3, <2>3, <2>4 DEF Serve, At
<1> QED
  BY <1>2, <1>3

\* A process is gone: whoever awaited it goes on, whoever spawned it is refused.
LEMMA ExitsDoes ==
    ASSUME TInv, NEW p \in Procs, Exits(p)
    PROVE  /\ ~app.gone /\ server.proc[p].st \in {"dying", "killed"}
           /\ UNCHANGED <<play, config, mongo, sync, app>>
           /\ Only(p) /\ server'.proc[p] = NoProc /\ server'.restarts = server.restarts
           /\ server'.intentional = server.intentional /\ server'.mdns = server.mdns
           /\ task' \in [Tasks -> Handler]
           /\ \A t \in Tasks :
                 /\ task[t].proc # p => task'[t] = task[t]
                 /\ task[t].proc = p =>
                       /\ task'[t].kind = task[t].kind /\ task'[t].uri = task[t].uri
                       /\ task'[t].tries = task[t].tries
                       /\ \/ /\ task[t].pc = "killing" /\ task'[t].proc = None
                             /\ task'[t].pc = AfterPc(task[t].tries)
                          \/ /\ task[t].pc \in {"spawning", "refused"} /\ task'[t].proc = p
                             /\ task'[t].pc = "refused"
<1>1. task \in [Tasks -> Handler] /\ server \in Server /\ NoProc \in Proc
  BY DEF TInv, TypeOK, NoProc, Proc, Uris
<1>2. server' = [server EXCEPT !.proc[p] = NoProc]
  BY DEF Exits
<1>3. /\ Only(p) /\ server'.proc[p] = NoProc /\ server'.restarts = server.restarts
      /\ server'.intentional = server.intentional /\ server'.mdns = server.mdns
  BY <1>1, <1>2 DEF Only, Server
<1> DEFINE a(t) == [task[t] EXCEPT !.pc = AfterPc(task[t].tries), !.proc = None]
           b(t) == [task[t] EXCEPT !.pc = "refused"]
           q(t) == IF task[t].proc # p THEN task[t] ELSE IF task[t].pc = "killing" THEN a(t) ELSE b(t)
<1>4. task' = [t \in Tasks |-> q(t)]
  BY DEF Exits, AfterKill, AfterPc
<1>5. \A t \in Tasks :
         /\ a(t) \in Handler /\ a(t).pc = AfterPc(task[t].tries) /\ a(t).kind = task[t].kind
         /\ a(t).uri = task[t].uri /\ a(t).proc = None /\ a(t).tries = task[t].tries
         /\ b(t) \in Handler /\ b(t).pc = "refused" /\ b(t).kind = task[t].kind
         /\ b(t).uri = task[t].uri /\ b(t).proc = task[t].proc /\ b(t).tries = task[t].tries
  BY <1>1 DEF Handler, AfterPc
<1>6. \A t \in Tasks : task[t].proc = p => task[t].pc \in {"killing", "spawning", "refused"}
  BY DesktopAssumption DEF TInv, ProcFits
<1> HIDE DEF a, b
<1>7. \A t \in Tasks : q(t) \in Handler
  BY <1>1, <1>5
<1>8. task' \in [Tasks -> Handler] /\ \A t \in Tasks : task'[t] = q(t)
  BY <1>4, <1>7
<1>9. ASSUME NEW t \in Tasks
      PROVE  /\ task[t].proc # p => task'[t] = task[t]
             /\ task[t].proc = p =>
                   /\ task'[t].kind = task[t].kind /\ task'[t].uri = task[t].uri
                   /\ task'[t].tries = task[t].tries
                   /\ \/ /\ task[t].pc = "killing" /\ task'[t].proc = None
                         /\ task'[t].pc = AfterPc(task[t].tries)
                      \/ /\ task[t].pc \in {"spawning", "refused"} /\ task'[t].proc = p
                         /\ task'[t].pc = "refused"
  BY <1>5, <1>6, <1>8
<1> HIDE DEF q
<1>10. /\ ~app.gone /\ server.proc[p].st \in {"dying", "killed"}
       /\ UNCHANGED <<play, config, mongo, sync, app>>
  BY DEF Exits
<1> QED
  BY <1>3, <1>8, <1>9, <1>10

\* The timer goes on for a process that had died before it was stopped.
LEMMA SafetyNetDoes ==
    ASSUME TInv, NEW t \in Tasks, SafetyNet(t)
    PROVE  /\ ~app.gone /\ task[t].pc = "killing" /\ task[t].proc \in Procs
           /\ server.proc[task[t].proc].st = "dead"
           /\ UNCHANGED <<play, config, mongo, sync, app>>
           /\ Only(task[t].proc) /\ server'.proc[task[t].proc] = NoProc
           /\ server'.restarts = server.restarts
           /\ server'.intentional = server.intentional /\ server'.mdns = server.mdns
           /\ Becomes(t, AfterPc(task[t].tries), task[t].kind, task[t].uri, None, task[t].tries)
<1>1. task \in [Tasks -> Handler] /\ server \in Server /\ NoProc \in Proc
  BY DEF TInv, TypeOK, NoProc, Proc, Uris
<1>2. task[t].pc = "killing" /\ task[t] \in Handler /\ task[t].proc \in Procs
  BY <1>1 DEF SafetyNet, At, TInv, ProcFits, Handler
<1> DEFINE p == task[t].proc
           q == [task[t] EXCEPT !.pc = AfterPc(task[t].tries), !.proc = None]
<1>3. server' = [server EXCEPT !.proc[p] = NoProc] /\ task' = [task EXCEPT ![t] = q]
  BY <1>1 DEF SafetyNet, AfterKill, AfterPc
<1>4. q \in Handler /\ q.pc = AfterPc(task[t].tries) /\ q.kind = task[t].kind
      /\ q.uri = task[t].uri /\ q.proc = None /\ q.tries = task[t].tries
  BY <1>2 DEF Handler, AfterPc
<1> HIDE DEF q
<1>5. Becomes(t, AfterPc(task[t].tries), task[t].kind, task[t].uri, None, task[t].tries)
  BY <1>1, <1>3, <1>4 DEF Becomes
<1>6. /\ Only(p) /\ server'.proc[p] = NoProc /\ server'.restarts = server.restarts
      /\ server'.intentional = server.intentional /\ server'.mdns = server.mdns
  BY <1>1, <1>2, <1>3 DEF Only, Server
<1> QED
  BY <1>2, <1>5, <1>6 DEF SafetyNet, At

\* A fork of a handler: the URI it resolved, else the stored one.
LEMMA ForkDoes ==
    ASSUME TInv, NEW t \in Tasks, Fork(t)
    PROVE  /\ ~app.gone /\ task[t].pc = "fork" /\ UNCHANGED <<play, config, mongo, sync, app>>
           /\ task[t].tries # 2
           /\ Forks(NewProc, IF task[t].uri = "none" THEN config.uri ELSE task[t].uri, "task")
           /\ server'.timers = server.timers /\ server'.again = server.again
           /\ Becomes(t, "spawning", task[t].kind, task[t].uri, NewProc, task[t].tries)
<1>1. /\ task \in [Tasks -> Handler] /\ server \in Server /\ task[t] \in Handler
      /\ config \in Config /\ task[t].tries # 2
  BY DEF TInv, TypeOK, TriesFit, Fork, At
<1> DEFINE uri == IF task[t].uri = "none" THEN config.uri ELSE task[t].uri
           n == NewProc
           f == Forked(server, uri, "task")
           q == [task[t] EXCEPT !.pc = "spawning", !.proc = n]
<1>2. uri \in Uris /\ FreeProcs # {}
  BY <1>1 DEF Uris, Config, Handler, Fork
<1>3. server' = f /\ task' = [task EXCEPT ![t] = q]
  BY <1>1 DEF Fork, Handler
<1>4. n \in FreeProcs /\ n \in Procs
  BY <1>2 DEF NewProc, FreeProcs
<1> HIDE DEF n
<1>5. q \in Handler /\ q.pc = "spawning" /\ q.kind = task[t].kind /\ q.uri = task[t].uri
      /\ q.proc = n /\ q.tries = task[t].tries
  BY <1>1, <1>4 DEF Handler
<1> HIDE DEF q
<1>6. Becomes(t, "spawning", task[t].kind, task[t].uri, n, task[t].tries)
  BY <1>1, <1>3, <1>5 DEF Becomes
<1> HIDE DEF uri
<1>7. Forks(NewProc, uri, "task") /\ f.timers = server.timers /\ f.again = server.again
  BY <1>1, <1>2, <1>3, ForkedDoes DEF Forks
<1> QED
  BY <1>1, <1>3, <1>6, <1>7 DEF Fork, At, n, uri

\* The handlers that spawned p are refused.
Refuses(p) ==
    /\ task' \in [Tasks -> Handler]
    /\ \A t \in Tasks :
          IF task[t].pc = "spawning" /\ task[t].proc = p
          THEN /\ task'[t].pc = "refused" /\ task'[t].kind = task[t].kind
               /\ task'[t].uri = task[t].uri /\ task'[t].proc = p
               /\ task'[t].tries = task[t].tries
          ELSE task'[t] = task[t]

LEMMA RefusesDoes ==
    ASSUME TInv, NEW p \in Procs,
           task' = [t \in Tasks |-> IF task[t].pc = "spawning" /\ task[t].proc = p
                                    THEN [task[t] EXCEPT !.pc = "refused"] ELSE task[t]]
    PROVE  Refuses(p)
<1> DEFINE b(t) == [task[t] EXCEPT !.pc = "refused"]
<1>1. task \in [Tasks -> Handler]
  BY DEF TInv, TypeOK
<1>2. \A t \in Tasks :
         /\ b(t) \in Handler /\ b(t).pc = "refused" /\ b(t).kind = task[t].kind
         /\ b(t).uri = task[t].uri /\ b(t).proc = task[t].proc /\ b(t).tries = task[t].tries
  BY <1>1 DEF Handler
<1>3. task' = [t \in Tasks |-> IF task[t].pc = "spawning" /\ task[t].proc = p
                               THEN b(t) ELSE task[t]]
  OBVIOUS
<1> HIDE DEF b
<1> QED
  BY <1>1, <1>2, <1>3 DEF Refuses

\* A process that starts gets the port, or is fooled; who spawned it is through.
LEMMA ReadyDoes ==
    ASSUME TInv, NEW p \in Procs, Ready(p)
    PROVE  /\ ~app.gone /\ server.proc[p].st = "booting"
           /\ UNCHANGED <<play, config, mongo, sync, app>>
           /\ Only(p) /\ server'.proc[p].uri = server.proc[p].uri
           /\ server'.proc[p].st = IF \E q \in Procs \ {p} : HoldsPort(q) THEN "fooled" ELSE "up"
           /\ server'.mdns = IF server.proc[p].by = "none" THEN server.mdns ELSE config.lan
           /\ server'.intentional = (server.intentional
                 /\ ~\E t \in Saves : task[t].pc = "spawning" /\ task[t].proc = p)
           /\ task' \in [Tasks -> Handler]
           /\ \A t \in Tasks : task'[t] = IF task[t].pc = "spawning" /\ task[t].proc = p
                                          THEN Idle ELSE task[t]
<1>1. task \in [Tasks -> Handler] /\ server \in Server /\ config \in Config
      /\ server.proc \in [Procs -> Proc] /\ server.proc[p] \in Proc
  BY DEF TInv, TypeOK, Server
<1> DEFINE st == IF ~\E q \in Procs \ {p} : HoldsPort(q) THEN "up" ELSE "fooled"
           r == IF server.proc[p].by = "none" THEN server.restarts ELSE 0
           waits == {t \in Tasks : task[t].pc = "spawning" /\ task[t].proc = p}
           i == server.intentional /\ waits \cap Saves = {}
           m == IF server.proc[p].by = "none" THEN server.mdns ELSE config.lan
           q == [server.proc[p] EXCEPT !.st = st]
           proc == [server.proc EXCEPT ![p] = q]
<1>2. /\ st \in {"up", "fooled"} /\ r \in 0..MaxRestarts /\ i \in BOOLEAN /\ m \in BOOLEAN
  BY <1>1, DesktopAssumption DEF Server, Config
<1>3. server' = [server EXCEPT !.proc[p].st = st, !.restarts = r, !.intentional = i, !.mdns = m]
  BY DEF Ready
<1>4. i = (server.intentional
                 /\ ~\E t \in Saves : task[t].pc = "spawning" /\ task[t].proc = p)
  BY TasksAre
<1>5. task' = [t \in Tasks |-> IF task[t].pc = "spawning" /\ task[t].proc = p
                               THEN Idle ELSE task[t]]
  BY DEF Ready
<1>6. task' \in [Tasks -> Handler]
      /\ \A t \in Tasks : task'[t] = IF task[t].pc = "spawning" /\ task[t].proc = p
                                     THEN Idle ELSE task[t]
  BY <1>1, <1>5, IdleIs
<1> HIDE DEF st, r, i, m
<1>7. q \in Proc /\ q.st = st /\ q.uri = server.proc[p].uri
  BY <1>1, <1>2 DEF Proc
<1> HIDE DEF q
<1>8. proc \in [Procs -> Proc] /\ proc[p] = q /\ \A x \in Procs : x # p => proc[x] = server.proc[x]
  BY <1>1, <1>7
<1>9. server' = [server EXCEPT !.proc = proc, !.restarts = r, !.intentional = i, !.mdns = m]
  BY <1>1, <1>3 DEF Server, q, Proc
<1> HIDE DEF proc
<1>10. /\ server' \in Server /\ server'.current = server.current /\ server'.timers = server.timers
       /\ server'.again = server.again /\ server'.proc = proc /\ server'.intentional = i
       /\ server'.mdns = m
  BY <1>1, <1>2, <1>8, <1>9 DEF Server
<1>11. Only(p) /\ server'.proc[p].st = st /\ server'.proc[p].uri = server.proc[p].uri
  BY <1>7, <1>8, <1>10 DEF Only
<1>12. ~app.gone /\ server.proc[p].st = "booting" /\ UNCHANGED <<play, config, mongo, sync, app>>
  BY DEF Ready
<1> QED
  BY <1>4, <1>6, <1>10, <1>11, <1>12 DEF st, m

LEMMA TooSlowDoes ==
    ASSUME TInv, NEW p \in Procs, TooSlow(p)
    PROVE  /\ ~app.gone /\ server.proc[p].st = "booting" /\ Fails
           /\ UNCHANGED <<config, mongo, sync, app>> /\ Refuses(p)
           /\ Only(p) /\ server'.proc[p].uri = server.proc[p].uri
           /\ server'.proc[p].st = "booting" /\ server'.intentional = server.intentional
           /\ server'.mdns = server.mdns
<1>1. server \in Server /\ server.proc \in [Procs -> Proc] /\ server.proc[p] \in Proc
  BY DEF TInv, TypeOK, Server
<1> DEFINE q == [server.proc[p] EXCEPT !.by = "none"]
           proc == [server.proc EXCEPT ![p] = q]
<1>2. q \in Proc /\ q.st = server.proc[p].st /\ q.uri = server.proc[p].uri
  BY <1>1 DEF Proc
<1>3. server' = [server EXCEPT !.proc = proc]
  BY <1>1 DEF TooSlow, Server, Proc
<1> HIDE DEF q
<1>4. proc \in [Procs -> Proc] /\ proc[p] = q /\ \A x \in Procs : x # p => proc[x] = server.proc[x]
  BY <1>1, <1>2
<1> HIDE DEF proc
<1>5. /\ Only(p) /\ server'.proc[p] = q /\ server'.intentional = server.intentional
      /\ server'.mdns = server.mdns
  BY <1>1, <1>3, <1>4 DEF Only, Server
<1>6. Refuses(p)
  BY RefusesDoes DEF TooSlow
<1> QED
  BY <1>2, <1>5, <1>6 DEF TooSlow

\* A crash: the current process stays as a dead one, and is taken up by a timer
\* unless a handler of ours is replacing it or the application quits.
LEMMA CrashDoes ==
    ASSUME TInv, NEW p \in Procs, Crash(p)
    PROVE  /\ ~app.gone /\ UNCHANGED <<config, mongo, sync, app>> /\ Refuses(p)
           /\ \/ server.proc[p].st \in {"booting", "up"} /\ Fails
              \/ server.proc[p].st = "fooled" /\ UNCHANGED play
           /\ server' \in Server /\ server'.current = server.current
           /\ server'.again = server.again /\ server'.intentional = server.intentional
           /\ \A q \in Procs : q # p => server'.proc[q] = server.proc[q]
           /\ server.current = p =>
                 server'.proc[p].st = "dead" /\ server'.proc[p].uri = server.proc[p].uri
           /\ server.current # p => server'.proc[p] = NoProc
           /\ server'.mdns = (server.mdns /\ ~TakesUp(p))
           /\ \A q \in server'.timers : q \in server.timers \/ q = p
<1>1. server \in Server /\ server.proc \in [Procs -> Proc] /\ server.proc[p] \in Proc
  BY DEF TInv, TypeOK, Server
<1> DEFINE takes == TakesUp(p)
           up == takes /\ server.restarts < MaxRestarts
           d == [server.proc[p] EXCEPT !.st = "dead", !.by = "none"]
           q == IF server.current = p THEN d ELSE NoProc
           proc == [server.proc EXCEPT ![p] = q]
           m == IF takes THEN FALSE ELSE server.mdns
           r == IF up THEN server.restarts + 1 ELSE server.restarts
           ts == IF up THEN server.timers \cup {p} ELSE server.timers
<1>2. /\ d \in Proc /\ d.st = "dead" /\ d.uri = server.proc[p].uri /\ NoProc \in Proc
  BY <1>1 DEF Proc, NoProc, Uris
<1>3. server' = [server EXCEPT !.proc[p] = q, !.mdns = m, !.restarts = r, !.timers = ts]
  BY <1>1 DEF Crash, MayRestart, Unadvertised, Server
<1> HIDE DEF takes
<1>a. server.mdns \in BOOLEAN /\ server.restarts \in 0..MaxRestarts /\ server.timers \subseteq Procs
  BY <1>1 DEF Server
<1>b. m \in BOOLEAN /\ m = (server.mdns /\ ~takes)
  BY <1>a
<1>c. r \in 0..MaxRestarts
  BY <1>a, DesktopAssumption
<1>d. ts \in SUBSET Procs /\ \A x \in ts : x \in server.timers \/ x = p
  BY <1>a
<1>4. m \in BOOLEAN /\ r \in 0..MaxRestarts /\ ts \in SUBSET Procs
      /\ m = (server.mdns /\ ~takes) /\ \A x \in ts : x \in server.timers \/ x = p
  BY <1>b, <1>c, <1>d
<1> HIDE DEF d, m, r, ts
<1>5. q \in Proc /\ (server.current = p => q = d) /\ (server.current # p => q = NoProc)
  BY <1>2
<1> HIDE DEF q
<1>6. proc \in [Procs -> Proc] /\ proc[p] = q /\ \A x \in Procs : x # p => proc[x] = server.proc[x]
  BY <1>1, <1>5
<1>7. server' = [server EXCEPT !.proc = proc, !.mdns = m, !.restarts = r, !.timers = ts]
  BY <1>1, <1>3 DEF Server
<1> HIDE DEF proc
<1>8. /\ server' \in Server /\ server'.current = server.current
      /\ server'.again = server.again /\ server'.intentional = server.intentional
      /\ server'.mdns = m /\ server'.timers = ts /\ server'.proc = proc
  BY <1>1, <1>4, <1>6, <1>7 DEF Server
<1>9. Refuses(p)
  BY RefusesDoes DEF Crash
<1>10. /\ ~app.gone /\ UNCHANGED <<config, mongo, sync, app>>
       /\ \/ server.proc[p].st \in {"booting", "up"} /\ Fails
          \/ server.proc[p].st = "fooled" /\ UNCHANGED play
  BY DEF Crash
<1> QED
  BY <1>2, <1>4, <1>5, <1>6, <1>8, <1>9, <1>10 DEF takes

\* The back-off is over: if its process is still the current one, the server is
\* forked again, at once or after a look-up.
LEMMA TimerDoes ==
    ASSUME TInv, NEW p \in Procs, Timer(p)
    PROVE  /\ ~app.gone /\ p \in server.timers /\ UNCHANGED <<play, config, mongo, sync, task, app>>
           /\ server'.timers = server.timers \ {p}
           /\ \/ /\ Only(p) \/ (server' \in Server /\ server'.current = server.current
                                /\ server'.proc = server.proc)
                 /\ server'.proc = server.proc /\ server'.current = server.current
                 /\ server' \in Server /\ server'.intentional = server.intentional
                 /\ server'.mdns = server.mdns
                 /\ server'.again = server.again \/ play.srv
              \/ /\ ~app.quitting /\ server.current = p /\ Forks(NewProc, config.uri, "crash")
                 /\ server'.again = server.again
<1>1. server \in Server /\ config \in Config /\ config.uri \in Uris
  BY DEF TInv, TypeOK, Config
<1> DEFINE rest == [server EXCEPT !.timers = server.timers \ {p}]
<1>2. /\ rest \in Server /\ rest.current = server.current /\ rest.proc = server.proc
      /\ rest.again = server.again /\ rest.intentional = server.intentional
      /\ rest.mdns = server.mdns /\ rest.restarts = server.restarts
      /\ rest.timers = server.timers \ {p}
  BY <1>1 DEF Server
<1>3. /\ ~app.gone /\ p \in server.timers /\ UNCHANGED <<play, config, mongo, sync, task, app>>
      /\ FreeProcs # {}
      /\ server' = IF app.quitting \/ server.current # p THEN rest
                   ELSE IF play.srv /\ config.uri = "atlas" THEN [rest EXCEPT !.again = TRUE]
                   ELSE Forked(rest, config.uri, "crash")
  BY DEF Timer, StillCurrent
<1> HIDE DEF rest
<1>4. CASE app.quitting \/ server.current # p
  BY <1>2, <1>3, <1>4
<1>5. CASE ~(app.quitting \/ server.current # p) /\ play.srv /\ config.uri = "atlas"
  <2>1. server' = [rest EXCEPT !.again = TRUE]
    BY <1>3, <1>5
  <2>2. /\ server' \in Server /\ server'.current = rest.current /\ server'.proc = rest.proc
        /\ server'.intentional = rest.intentional /\ server'.mdns = rest.mdns
        /\ server'.timers = rest.timers
    BY <1>2, <2>1 DEF Server
  <2> QED
    BY <1>2, <1>3, <1>5, <2>2
<1>6. CASE ~(app.quitting \/ server.current # p) /\ ~(play.srv /\ config.uri = "atlas")
  <2>1. server' = Forked(rest, config.uri, "crash")
    BY <1>3, <1>6
  <2> DEFINE uri == config.uri
  <2>a. uri \in Uris /\ server' = Forked(rest, uri, "crash") /\ FreeProcs # {}
    BY <1>1, <1>3, <2>1
  <2> HIDE DEF uri
  <2>b. Forks(NewProc, uri, "crash") /\ server'.again = server.again
        /\ server'.timers = server.timers \ {p}
    BY <1>2, <2>a, ForkedDoes DEF Forks
  <2>2. Forks(NewProc, config.uri, "crash") /\ server'.again = server.again
        /\ server'.timers = server.timers \ {p}
    BY <2>b DEF uri
  <2> QED
    BY <1>3, <1>6, <2>2
<1> QED
  BY <1>4, <1>5, <1>6

LEMMA AgainDoes ==
    ASSUME TInv, Again
    PROVE  /\ ~app.gone /\ server.again /\ UNCHANGED <<play, config, mongo, sync, task, app>>
           /\ Forks(NewProc, "atlas", "crash") /\ server'.timers = server.timers
<1>1. server \in Server
  BY DEF TInv, TypeOK
<1> DEFINE rest == [server EXCEPT !.again = FALSE]
<1>2. /\ rest \in Server /\ rest.current = server.current /\ rest.proc = server.proc
      /\ rest.intentional = server.intentional /\ rest.restarts = server.restarts
      /\ rest.mdns = server.mdns /\ rest.timers = server.timers
  BY <1>1 DEF Server
<1>3. /\ ~app.gone /\ server.again /\ UNCHANGED <<play, config, mongo, sync, task, app>>
      /\ FreeProcs # {} /\ server' = Forked(rest, "atlas", "crash")
  BY DEF Again
<1> HIDE DEF rest
<1>4. Forks(NewProc, "atlas", "crash") /\ server'.timers = server.timers
  BY <1>1, <1>2, <1>3, ForkedDoes DEF Forks, Uris
<1> QED
  BY <1>3, <1>4

\* A save whose start was refused stops what is left, and a toggle takes its
\* setting back the first time.
LEMMA RefusedDoes ==
    ASSUME TInv, NEW t \in Tasks, Refused(t)
    PROVE  /\ ~app.gone /\ t \in Saves /\ task[t].pc = "refused" /\ task[t].tries # 2
           /\ UNCHANGED <<play, mongo, sync, app>>
           /\ config' \in Config /\ config'.mode = config.mode /\ config'.uri = config.uri
           /\ Kills /\ server'.intentional = server.intentional /\ server'.mdns = server.mdns
           /\ task[t].tries + 1 \in 1..2 /\ Waits(t, task[t].tries + 1)
<1>1. /\ task \in [Tasks -> Handler] /\ server \in Server /\ task[t] \in Handler
      /\ config \in Config /\ task[t].tries # 2
  BY DEF TInv, TypeOK, TriesFit, Refused, At
<1> DEFINE k == [task[t] EXCEPT !.tries = task[t].tries + 1]
           lan == IF task[t].kind = "lan" /\ task[t].tries = 0 THEN ~config.lan ELSE config.lan
<1>2. task[t].tries \in 0..2 /\ task[t].tries + 1 \in 1..2
  BY <1>1 DEF Handler
<1>3. k \in Handler /\ k.kind = task[t].kind /\ k.uri = task[t].uri /\ k.proc = task[t].proc
      /\ k.tries = task[t].tries + 1
  BY <1>1, <1>2 DEF Handler
<1>c. server' = Killing(server)
  BY DEF Refused
<1>a. task' = [task EXCEPT ![t] = Stopping(k)]
  BY <1>1 DEF Refused
<1>b. config' = [config EXCEPT !.lan = lan]
  BY <1>1 DEF Refused
<1>4. /\ server' = Killing(server) /\ task' = [task EXCEPT ![t] = Stopping(k)]
      /\ config' = [config EXCEPT !.lan = lan]
  BY <1>a, <1>b, <1>c
<1> HIDE DEF k
<1>5. Waits(t, task[t].tries + 1)
  BY <1>1, <1>3, <1>4, StoppingDoes
<1>6. Kills /\ server'.intentional = server.intentional /\ server'.mdns = server.mdns
  BY <1>1, <1>4, KillingDoes DEF Kills
<1>7. lan \in BOOLEAN
  BY <1>1 DEF Config
<1> HIDE DEF lan
<1>8. config' \in Config /\ config'.mode = config.mode /\ config'.uri = config.uri
  BY <1>1, <1>4, <1>7 DEF Config
<1> QED
  BY <1>1, <1>2, <1>5, <1>6, <1>8 DEF Refused, At

\* The handler is through without a server.
Ends(t) == Becomes(t, "idle", "none", "none", None, 0) /\ task'[t] = Idle

LEMMA EndsDoes ==
    ASSUME TInv, NEW t \in Tasks, task' = [task EXCEPT ![t] = Idle]
    PROVE  Ends(t)
BY IdleIs DEF TInv, TypeOK, Ends, Becomes

LEMMA GaveUpDoes ==
    ASSUME TInv, NEW t \in Tasks, GaveUp(t)
    PROVE  /\ ~app.gone /\ task[t].pc = "gaveUp" /\ UNCHANGED <<play, config, mongo, sync, app>>
           /\ Ends(t) /\ server' \in Server /\ server'.proc = server.proc
           /\ server'.current = server.current /\ server'.timers = server.timers
           /\ server'.again = server.again /\ ~server'.intentional
           /\ server'.mdns = (task[t].kind = "lan" /\ config.lan)
<1>1. server \in Server /\ config \in Config
  BY DEF TInv, TypeOK
<1>2. Ends(t)
  BY EndsDoes DEF GaveUp
<1> DEFINE m == task[t].kind = "lan" /\ config.lan
<1>3. m \in BOOLEAN
  OBVIOUS
<1>4. server' = [server EXCEPT !.intentional = FALSE, !.mdns = m]
  BY DEF GaveUp
<1> HIDE DEF m
<1>5. /\ server' \in Server /\ server'.proc = server.proc
      /\ server'.current = server.current /\ server'.timers = server.timers
      /\ server'.again = server.again /\ ~server'.intentional /\ server'.mdns = m
  BY <1>1, <1>3, <1>4 DEF Server
<1> QED
  BY <1>2, <1>5 DEF GaveUp, At, m

LEMMA BootRefusedDoes ==
    ASSUME TInv, BootRefused
    PROVE  /\ ~app.gone /\ task["boot"].pc = "refused"
           /\ UNCHANGED <<play, config, mongo, sync, app>>
           /\ Ends("boot") /\ server' \in Server /\ server'.proc = server.proc
           /\ server'.current = server.current /\ server'.timers = server.timers
           /\ server'.again = server.again /\ server'.intentional = server.intentional
           /\ ~server'.mdns
<1>1. server \in Server
  BY DEF TInv, TypeOK
<1>2. Ends("boot")
  BY EndsDoes, TasksAre DEF BootRefused
<1>3. server' = [server EXCEPT !.mdns = FALSE]
  BY DEF BootRefused
<1>4. /\ server' \in Server /\ server'.proc = server.proc
      /\ server'.current = server.current /\ server'.timers = server.timers
      /\ server'.again = server.again /\ server'.intentional = server.intentional
      /\ ~server'.mdns
  BY <1>1, <1>3 DEF Server
<1> QED
  BY <1>2, <1>4 DEF BootRefused, At

-----------------------------------------------------------------------------
(* What the requests write, and the end of the application.                *)

\* A save is taken by an idle handler, once the boot is through; without overlaps,
\* once every other save is through too.
Taken(t) ==
    /\ ~app.gone /\ t \in Saves /\ task[t] = Idle /\ task["boot"] = Idle
    /\ play.together \/ \A x \in Saves : task[x] = Idle
    /\ play' \in Play /\ play'.fails = play.fails /\ play'.together = play.together
    /\ play'.srv = play.srv /\ play'.kinds = play.kinds /\ play'.mode = play.mode
    /\ config' \in Config

SavedReset ==
    /\ config'.mode = "none" /\ config'.uri = "none"
    /\ SyncTyped /\ sync'.current = None /\ \A s \in Services : Dropped(s)
    /\ UNCHANGED <<task, mongo, server, app>>
SavedLan(t) ==
    /\ "lan" \in play.kinds
    /\ config'.mode = config.mode /\ config'.uri = config.uri
    /\ Becomes(t, "serve", "lan", "none", None, 0)
    /\ UNCHANGED <<sync, mongo, server, app>>
SavedMode(t, mode) ==
    /\ mode \in Modes /\ config'.mode = mode /\ config'.uri = config.uri /\ Resolve(t, mode)

LEMMA SaveDoes ==
    ASSUME TInv, NEW kind \in play.kinds, Save(kind)
    PROVE  \E t \in Saves : Taken(t) /\ (SavedReset \/ SavedLan(t) \/ SavedMode(t, kind))
<1> DEFINE t == CHOOSE x \in Saves : task[x] = Idle
<1>1. /\ play \in Play /\ config \in Config /\ task \in [Tasks -> Handler]
      /\ kind \in Modes \cup {"lan", "reset"}
  BY DEF TInv, TypeOK, Play
<1>2. t \in Saves /\ task[t] = Idle /\ t \in Tasks
  BY TasksAre DEF Save
<1>3. /\ ~app.gone /\ task["boot"] = Idle /\ play.saves > 0
      /\ play.together \/ \A x \in Saves : task[x] = Idle
      /\ play' = [play EXCEPT !.saves = @ - 1]
      /\ CASE kind = "reset" ->
                /\ config' = [config EXCEPT !.mode = "none", !.uri = "none"]
                /\ DropSync /\ UNCHANGED <<task, mongo, server, app>>
         [] kind = "lan" ->
                /\ config' = [config EXCEPT !.lan = ~@]
                /\ Goto(t, [Idle EXCEPT !.kind = kind], "serve")
                /\ UNCHANGED <<sync, mongo, server, app>>
         [] OTHER -> config' = [config EXCEPT !.mode = kind] /\ Resolve(t, kind)
  BY DEF Save
<1> HIDE DEF t
<1>4. play.saves - 1 \in 0..MaxBudget
  BY <1>1, <1>3, DesktopAssumption DEF Play
<1>5. /\ play' \in Play /\ play'.fails = play.fails /\ play'.together = play.together
      /\ play'.srv = play.srv /\ play'.kinds = play.kinds /\ play'.mode = play.mode
  BY <1>1, <1>3, <1>4 DEF Play
<1>6. CASE kind = "reset"
  <2>1. /\ config' = [config EXCEPT !.mode = "none", !.uri = "none"]
        /\ DropSync /\ UNCHANGED <<task, mongo, server, app>>
    BY <1>3, <1>6
  <2>2. config' \in Config /\ config'.mode = "none" /\ config'.uri = "none"
    BY <1>1, <2>1 DEF Config, Uris
  <2>3. SavedReset
    BY <2>1, <2>2, DropSyncDoes DEF SavedReset
  <2> QED
    BY <1>2, <1>3, <1>5, <2>2, <2>3 DEF Taken
<1>7. CASE kind = "lan"
  <2> DEFINE k == [Idle EXCEPT !.kind = "lan"]
  <2>1. /\ config' = [config EXCEPT !.lan = ~config.lan] /\ Goto(t, k, "serve")
        /\ UNCHANGED <<sync, mongo, server, app>>
    BY <1>3, <1>7
  <2>2. config' \in Config /\ config'.mode = config.mode /\ config'.uri = config.uri
    BY <1>1, <2>1 DEF Config
  <2>3. Fresh(k, "lan")
    BY FreshIs
  <2> HIDE DEF k
  <2>4. Becomes(t, "serve", "lan", "none", None, 0)
    BY <1>1, <1>2, <2>1, <2>3, GotoDoes DEF Fresh
  <2>5. SavedLan(t)
    BY <1>7, <2>1, <2>2, <2>4 DEF SavedLan
  <2> QED
    BY <1>2, <1>3, <1>5, <2>2, <2>5 DEF Taken
<1>8. CASE kind \notin {"lan", "reset"}
  <2>1. config' = [config EXCEPT !.mode = kind] /\ Resolve(t, kind)
    BY <1>3, <1>8
  <2>2. kind \in Modes
    BY <1>1, <1>8
  <2>3. config' \in Config /\ config'.mode = kind /\ config'.uri = config.uri
    BY <1>1, <2>1, <2>2 DEF Config
  <2>4. SavedMode(t, kind)
    BY <2>1, <2>2, <2>3 DEF SavedMode
  <2> QED
    BY <1>2, <1>3, <1>5, <2>3, <2>4 DEF Taken
<1> QED
  BY <1>6, <1>7, <1>8

\* The quit stops the server, the service and the database.
LEMMA QuitDoes ==
    ASSUME TInv, Quit
    PROVE  /\ ~app.gone /\ ~app.quitting /\ UNCHANGED <<play, config>>
           /\ AppTyped /\ app'.quitting /\ app'.finished = app.finished
           /\ app'.gone = app.gone /\ app'.late = app.late
           /\ Kills /\ server'.intentional = server.intentional /\ ~server'.mdns
           /\ SyncTyped /\ sync'.current = sync.current /\ \A s \in Services : Dropped(s)
           /\ Halted("quit", "none")
<1>1. /\ server \in Server /\ "quit" \in Tasks
      /\ sync \in [current : Services \cup {None}, svc : [Services -> Service]]
  BY TasksAre DEF TInv, TypeOK
<1>2. /\ AppTyped /\ app'.quitting /\ app'.finished = app.finished
      /\ app'.gone = app.gone /\ app'.late = app.late
  BY DEF Quit, TInv, TypeOK, AppTyped
<1> DEFINE sv == Killing(server)
           svc == Destroy(sync.svc, sync.current)
<1>3. /\ sv \in Server /\ sv.current = None
      /\ sv.restarts = server.restarts /\ sv.timers = server.timers
      /\ sv.again = server.again /\ sv.intentional = server.intentional
      /\ \A p \in Procs : p # server.current => sv.proc[p] = server.proc[p]
      /\ \A p \in Procs : p = server.current =>
            /\ sv.proc[p].st = Stops(server.proc[p].st)
            /\ sv.proc[p].uri = server.proc[p].uri /\ sv.proc[p].by = server.proc[p].by
  BY <1>1, KillingDoes
<1>4. /\ svc \in [Services -> Service]
      /\ \A x \in Services : x # sync.current => svc[x] = sync.svc[x]
      /\ \A x \in Services : x = sync.current =>
             svc[x].st = "destroyed" /\ svc[x].aborted /\ svc[x].cycle = sync.svc[x].cycle
  BY <1>1, DestroyDoes
<1>5. server' = [sv EXCEPT !.mdns = FALSE] /\ sync' = [sync EXCEPT !.svc = svc]
  BY <1>1 DEF Quit
<1> HIDE DEF sv, svc
<1>6. Kills /\ server'.intentional = server.intentional /\ ~server'.mdns
  <2>1. /\ server' \in Server /\ server'.proc = sv.proc /\ server'.current = sv.current
        /\ server'.restarts = sv.restarts /\ server'.timers = sv.timers
        /\ server'.again = sv.again /\ server'.intentional = sv.intentional /\ ~server'.mdns
    BY <1>3, <1>5 DEF Server
  <2> QED
    BY <1>3, <2>1 DEF Kills
<1>7. SyncTyped /\ sync'.current = sync.current /\ \A s \in Services : Dropped(s)
  BY <1>1, <1>4, <1>5 DEF SyncTyped, Dropped
<1>8. Halted("quit", "none")
  BY <1>1, StopDoes, FreshIs DEF Quit
<1> QED
  BY <1>2, <1>6, <1>7, <1>8 DEF Quit

LEMMA QuitStepDoes ==
    ASSUME TInv, QuitStep
    PROVE  /\ UNCHANGED <<play, config, mongo, server, sync, task>>
           /\ AppTyped /\ app'.quitting = app.quitting /\ app'.late = app.late
           /\ \/ /\ app.finished = "no" /\ app'.gone = app.gone
                 /\ \/ app'.finished = "timer"
                    \/ app'.finished = "stopped" /\ task["quit"].pc = "stopped"
              \/ app.finished # "no" /\ app'.finished = app.finished /\ ~app.gone
<1>1. app \in [quitting : BOOLEAN, finished : {"no", "stopped", "timer"}, gone : BOOLEAN,
               late : BOOLEAN]
  BY DEF TInv, TypeOK
<1>2. CASE ShutDown
  BY <1>1, <1>2 DEF ShutDown, Finish, At, AppTyped
<1>3. CASE QuitTimer
  BY <1>1, <1>3 DEF QuitTimer, Finish, AppTyped
<1>4. CASE Exit
  BY <1>1, <1>4 DEF Exit, AppTyped
<1> QED
  BY <1>2, <1>3, <1>4 DEF QuitStep

-----------------------------------------------------------------------------
(* Every step keeps the types.                                             *)

TasksFit == task \in [Tasks -> Handler] /\ TriesFit /\ ProcFits /\ ResolvingFits
OthersTyped ==
    /\ play \in Play /\ config \in Config /\ mongo \in Mongo /\ server \in Server
    /\ sync \in [current : Services \cup {None}, svc : [Services -> Service]]
    /\ app \in [quitting : BOOLEAN, finished : {"no", "stopped", "timer"},
                gone : BOOLEAN, late : BOOLEAN]

LEMMA TypesSplit == TInv <=> TasksFit /\ OthersTyped
BY DEF TInv, TypeOK, TasksFit, OthersTyped

\* A handler that moves to a fitting place leaves all of them fitting.
LEMMA BecomesFits ==
    ASSUME TInv, NEW t \in Tasks, NEW pc, NEW kind, NEW uri, NEW proc, NEW tries,
           Becomes(t, pc, kind, uri, proc, tries),
           proc # None <=> pc \in {"killing", "spawning", "refused"},
           tries = 2 => pc \in {"killing", "gaveUp"},
           pc \in Resolving => uri = "none" /\ tries = 0
    PROVE  TasksFit'
<1>1. \A u \in Tasks : u # t => task'[u] = task[u]
  BY DEF Becomes
<1>2. TriesFit'
  BY <1>1 DEF TInv, TriesFit, Becomes
<1>3. ProcFits'
  BY <1>1 DEF TInv, ProcFits, Becomes
<1>4. ResolvingFits'
  BY <1>1 DEF TInv, ResolvingFits, Becomes
<1> QED
  BY <1>2, <1>3, <1>4 DEF TasksFit, Becomes

LEMMA ResumedFits ==
    ASSUME TInv, NEW s \in {"local", "failed"}, NEW a \in {"stopping", "stopped"},
           NEW p \in {"stopping", "stopped"}, Resumed(s, a, p)
    PROVE  TasksFit'
<1>1. TriesFit'
  BY DEF TInv, TriesFit, Resumed
<1>2. ProcFits'
  BY DEF TInv, ProcFits, Resumed
<1>3. ResolvingFits'
  BY DEF TInv, ResolvingFits, Resumed, Resolving
<1> QED
  BY <1>1, <1>2, <1>3 DEF TasksFit, Resumed

LEMMA RefusesFits ==
    ASSUME TInv, NEW p \in Procs, Refuses(p)
    PROVE  TasksFit'
<1>1. TriesFit'
  BY DEF TInv, TriesFit, Refuses
<1>2. ProcFits'
  BY DesktopAssumption DEF TInv, ProcFits, Refuses
<1>3. ResolvingFits'
  BY DEF TInv, ResolvingFits, Refuses, Resolving
<1> QED
  BY <1>1, <1>2, <1>3 DEF TasksFit, Refuses

LEMMA StartedFits ==
    ASSUME TInv, NEW t \in Tasks, NEW kind, Started(t, kind)
    PROVE  TasksFit' /\ mongo' \in Mongo /\ AppTyped
<1>1. mongo \in Mongo
  BY DEF TInv, TypeOK
<1>2. CASE Becomes(t, "local", kind, "none", None, 0)
  BY <1>2, BecomesFits DEF Started
<1>3. CASE Becomes(t, "starting", kind, "none", None, 0)
  BY <1>3, BecomesFits DEF Started
<1> QED
  BY <1>2, <1>3 DEF Started

LEMMA HaltedFits ==
    ASSUME TInv, NEW t \in Tasks, NEW kind, Halted(t, kind)
    PROVE  TasksFit' /\ mongo' \in Mongo
<1>1. CASE Becomes(t, "stopping", kind, "none", None, 0)
  BY <1>1, BecomesFits DEF Halted
<1>2. CASE Becomes(t, "awaiting", kind, "none", None, 0)
  BY <1>2, BecomesFits DEF Halted
<1>3. CASE Becomes(t, "stopped", kind, "none", None, 0)
  BY <1>3, BecomesFits DEF Halted
<1> QED
  BY <1>1, <1>2, <1>3 DEF Halted

LEMMA WaitsFits ==
    ASSUME TInv, NEW t \in Tasks, NEW tries, Waits(t, tries)
    PROVE  TasksFit'
<1>1. CASE Becomes(t, AfterPc(tries), task[t].kind, task[t].uri, None, tries)
  <2>1. /\ AfterPc(tries) \notin {"killing", "spawning", "refused"} \cup Resolving
        /\ tries = 2 => AfterPc(tries) = "gaveUp"
    BY DEF AfterPc, Resolving
  <2> DEFINE pc == AfterPc(tries)
  <2> HIDE DEF pc
  <2> QED
    BY <1>1, <2>1, BecomesFits DEF pc
<1>2. CASE /\ server.current # None
           /\ Becomes(t, "killing", task[t].kind, task[t].uri, server.current, tries)
  BY <1>2, BecomesFits DEF Resolving
<1> QED
  BY <1>1, <1>2 DEF Waits

LEMMA ResolveFits ==
    ASSUME TInv, NEW t \in Tasks, NEW mode \in Modes, Resolve(t, mode)
    PROVE  TasksFit' /\ mongo' \in Mongo /\ AppTyped /\ SyncTyped /\ UNCHANGED server
<1>1. /\ UNCHANGED server
      /\ SyncTyped \/ UNCHANGED sync
      /\ \/ /\ UNCHANGED <<mongo, app>>
            /\ Becomes(t, "probe", mode, "none", None, 0)
         \/ Started(t, mode)
  BY ResolveDoes
<1>2. SyncTyped
  BY <1>1 DEF SyncTyped, TInv, TypeOK
<1>3. CASE UNCHANGED <<mongo, app>> /\ Becomes(t, "probe", mode, "none", None, 0)
  BY <1>1, <1>2, <1>3, BecomesFits DEF AppTyped, TInv, TypeOK
<1>4. CASE Started(t, mode)
  BY <1>1, <1>2, <1>4, StartedFits
<1> QED
  BY <1>1, <1>3, <1>4

LEMMA MongoTyped ==
    ASSUME TInv, NEW d \in Dbs, Created(d) \/ Stopped(d) \/ CreateFails(d) \/ Hangs(d)
    PROVE  TInv'
<1>1. CASE Created(d)
  <2>1. TasksFit'
    <3>1. CASE task' = task
      BY <3>1 DEF TInv, TypeOK, TasksFit, TriesFit, ProcFits, ResolvingFits
    <3>2. CASE Resumed("local", "stopping", "stopping")
      BY <3>2, ResumedFits
    <3> QED
      BY <1>1, <3>1, <3>2, CreatedDoes
  <2>2. OthersTyped'
    BY <1>1, CreatedDoes, TypesSplit DEF OthersTyped
  <2> QED
    BY <2>1, <2>2 DEF TInv, TypeOK, TasksFit, OthersTyped
<1>2. CASE Stopped(d)
  <2>1. TasksFit'
    BY <1>2, StoppedDoes, ResumedFits
  <2>2. OthersTyped'
    BY <1>2, StoppedDoes, TypesSplit DEF OthersTyped
  <2> QED
    BY <2>1, <2>2 DEF TInv, TypeOK, TasksFit, OthersTyped
<1>3. CASE CreateFails(d)
  <2>1. TasksFit'
    BY <1>3, CreateFailsDoes, ResumedFits
  <2>2. OthersTyped'
    BY <1>3, CreateFailsDoes, FailsDoes, TypesSplit DEF OthersTyped
  <2> QED
    BY <2>1, <2>2 DEF TInv, TypeOK, TasksFit, OthersTyped
<1>4. CASE Hangs(d)
  <2>1. TasksFit'
    BY <1>4, HangsDoes DEF TInv, TypeOK, TasksFit, TriesFit, ProcFits, ResolvingFits
  <2>2. OthersTyped'
    BY <1>4, HangsDoes, FailsDoes, TypesSplit DEF OthersTyped
  <2> QED
    BY <2>1, <2>2 DEF TInv, TypeOK, TasksFit, OthersTyped
<1> QED
  BY <1>1, <1>2, <1>3, <1>4

LEMMA TaskStepTyped ==
    ASSUME TInv, NEW t \in Tasks, TaskStep(t)
    PROVE  TInv'
<1> USE TypesSplit DEF OthersTyped
<1> SUFFICES TasksFit' /\ OthersTyped'
  BY DEF TInv, TypeOK, TasksFit
<1>1. CASE Probe(t)
  <2>1. TasksFit' /\ mongo' \in Mongo /\ (AppTyped \/ UNCHANGED app)
    BY <1>1, ProbeDoes, HaltedFits, StartedFits
  <2> QED
    BY <1>1, <2>1, ProbeDoes DEF AppTyped
<1>2. CASE GotLocal(t)
  <2>1. TasksFit'
    BY <1>2, GotLocalDoes, BecomesFits DEF Resolving
  <2> QED
    BY <1>2, <2>1, GotLocalDoes DEF SyncTyped
<1>3. CASE GotAtlas(t)
  <2>1. TasksFit'
    BY <1>3, GotAtlasDoes, BecomesFits DEF Resolving
  <2> QED
    BY <1>3, <2>1, GotAtlasDoes
<1>4. CASE Unresolved(t)
  <2>1. TasksFit'
    BY <1>4, UnresolvedDoes, BecomesFits DEF Resolving
  <2> QED
    BY <1>4, <2>1, UnresolvedDoes
<1>5. CASE Serve(t)
  <2>1. TasksFit' /\ server' \in Server
    <3>1. CASE t = "boot"
      <4>1. /\ Becomes(t, "fork", task[t].kind, task[t].uri, None, task[t].tries)
            /\ task[t].tries # 2 /\ UNCHANGED server
        BY <1>5, <3>1, ServeDoes
      <4> QED
        BY <4>1, BecomesFits DEF Resolving
    <3>2. CASE t # "boot"
      BY <1>5, <3>2, ServeDoes, WaitsFits DEF Kills
    <3> QED
      BY <3>1, <3>2
  <2> QED
    BY <1>5, <2>1, ServeDoes
<1>6. CASE SafetyNet(t)
  <2> DEFINE pc == AfterPc(task[t].tries)
  <2>1. /\ Becomes(t, pc, task[t].kind, task[t].uri, None, task[t].tries)
        /\ server' \in Server
    BY <1>6, SafetyNetDoes DEF Only
  <2>2. pc \in {"gaveUp", "fork"} /\ (task[t].tries = 2 => pc = "gaveUp")
    BY DEF AfterPc
  <2> HIDE DEF pc
  <2>3. TasksFit'
    BY <2>1, <2>2, BecomesFits DEF Resolving
  <2> QED
    BY <1>6, <2>1, <2>3, SafetyNetDoes
<1>7. CASE Fork(t)
  <2> DEFINE n == NewProc
  <2>1. /\ Becomes(t, "spawning", task[t].kind, task[t].uri, n, task[t].tries)
        /\ n \in FreeProcs /\ server' \in Server /\ task[t].tries # 2
    BY <1>7, ForkDoes DEF Forks
  <2> HIDE DEF n
  <2>2. n # None
    BY <2>1, DesktopAssumption DEF FreeProcs
  <2>3. TasksFit'
    BY <2>1, <2>2, BecomesFits DEF Resolving
  <2> QED
    BY <1>7, <2>1, <2>3, ForkDoes
<1>8. CASE Refused(t)
  <2>1. TasksFit' /\ server' \in Server /\ config' \in Config
    BY <1>8, RefusedDoes, WaitsFits DEF Kills
  <2> QED
    BY <1>8, <2>1, RefusedDoes
<1>9. CASE GaveUp(t)
  <2>1. TasksFit'
    BY <1>9, GaveUpDoes, BecomesFits DEF Ends, Resolving
  <2> QED
    BY <1>9, <2>1, GaveUpDoes
<1> QED
  BY <1>1, <1>2, <1>3, <1>4, <1>5, <1>6, <1>7, <1>8, <1>9 DEF TaskStep

LEMMA ServerStepTyped ==
    ASSUME TInv, NEW p \in Procs, ServerStep(p) \/ TooSlow(p) \/ Crash(p)
    PROVE  TInv'
<1> USE TypesSplit DEF OthersTyped
<1> SUFFICES TasksFit' /\ OthersTyped'
  BY DEF TInv, TypeOK, TasksFit
<1>1. CASE Exits(p)
  <2> DEFINE after(t) == AfterPc(task[t].tries)
  <2>1. \A t \in Tasks : after(t) \in {"gaveUp", "fork"} /\ (task[t].tries = 2 => after(t) = "gaveUp")
    BY DEF AfterPc
  <2>2. /\ task' \in [Tasks -> Handler]
        /\ \A t \in Tasks :
              /\ task[t].proc # p => task'[t] = task[t]
              /\ task[t].proc = p =>
                    /\ task'[t].uri = task[t].uri /\ task'[t].tries = task[t].tries
                    /\ \/ /\ task[t].pc = "killing" /\ task'[t].proc = None
                          /\ task'[t].pc = after(t)
                       \/ /\ task[t].pc \in {"spawning", "refused"} /\ task'[t].proc = p
                          /\ task'[t].pc = "refused"
    BY <1>1, ExitsDoes
  <2> HIDE DEF after
  <2>3. TriesFit'
    BY <2>1, <2>2 DEF TriesFit, TInv
  <2>4. ProcFits'
    BY <2>1, <2>2, DesktopAssumption DEF ProcFits, TInv
  <2>5. ResolvingFits'
    BY <2>1, <2>2 DEF ResolvingFits, TInv, Resolving
  <2> QED
    BY <1>1, <2>2, <2>3, <2>4, <2>5, ExitsDoes DEF TasksFit, Only
<1>2. CASE Ready(p)
  <2>1. TasksFit'
    <3>1. /\ task' \in [Tasks -> Handler]
          /\ \A t \in Tasks : task'[t] = task[t] \/ task'[t] = Idle
      BY <1>2, ReadyDoes
    <3> QED
      BY <3>1, IdleIs DEF TasksFit, TInv, TriesFit, ProcFits, ResolvingFits, Resolving
  <2> QED
    BY <1>2, <2>1, ReadyDoes DEF Only
<1>3. CASE Timer(p)
  <2>1. server' \in Server
    BY <1>3, TimerDoes DEF Only, Forks
  <2> QED
    BY <1>3, <2>1, TimerDoes DEF TasksFit, TriesFit, ProcFits, ResolvingFits
<1>4. CASE TooSlow(p)
  <2>1. TasksFit'
    BY <1>4, TooSlowDoes, RefusesFits
  <2> QED
    BY <1>4, <2>1, TooSlowDoes, FailsDoes DEF Only
<1>5. CASE Crash(p)
  <2>1. TasksFit'
    BY <1>5, CrashDoes, RefusesFits
  <2>2. play' \in Play
    BY <1>5, CrashDoes, FailsDoes
  <2> QED
    BY <1>5, <2>1, <2>2, CrashDoes
<1> QED
  BY <1>1, <1>2, <1>3, <1>4, <1>5 DEF ServerStep

LEMMA RequestsTyped ==
    ASSUME TInv,
           Boot \/ BootRefused \/ Again \/ SyncStep \/ (\E kind \in play.kinds : Save(kind))
             \/ Quit \/ QuitStep
    PROVE  TInv'
<1> USE TypesSplit DEF OthersTyped
<1> SUFFICES TasksFit' /\ OthersTyped'
  BY DEF TInv, TypeOK, TasksFit
<1>1. CASE Boot
  BY <1>1, BootDoes, ResolveFits DEF AppTyped, SyncTyped
<1>2. CASE BootRefused
  <2>1. TasksFit'
    BY <1>2, BootRefusedDoes, BecomesFits, TasksAre DEF Ends, Resolving
  <2> QED
    BY <1>2, <2>1, BootRefusedDoes
<1>3. CASE Again
  BY <1>3, AgainDoes DEF TasksFit, TriesFit, ProcFits, ResolvingFits, Forks
<1>4. CASE SyncStep
  <2>1. PICK s \in Services : Cycle(s) \/ Collection(s) \/ CollectionDone(s) \/ EndCycle(s)
    BY <1>4 DEF SyncStep
  <2> QED
    BY <2>1, SyncStepDoes DEF TasksFit, TriesFit, ProcFits, ResolvingFits, SyncTyped
<1>5. CASE \E kind \in play.kinds : Save(kind)
  <2>1. PICK kind \in play.kinds : Save(kind)
    BY <1>5
  <2>2. PICK t \in Saves : Taken(t) /\ (SavedReset \/ SavedLan(t) \/ SavedMode(t, kind))
    BY <2>1, SaveDoes
  <2>3. t \in Tasks /\ play' \in Play /\ config' \in Config
    BY <2>2, TasksAre DEF Taken
  <2>4. CASE SavedReset
    BY <2>3, <2>4 DEF SavedReset, SyncTyped, TasksFit, TriesFit, ProcFits, ResolvingFits
  <2>5. CASE SavedLan(t)
    <3>1. TasksFit'
      BY <2>3, <2>5, BecomesFits DEF SavedLan, Resolving
    <3> QED
      BY <2>3, <2>5, <3>1 DEF SavedLan
  <2>6. CASE SavedMode(t, kind)
    BY <2>3, <2>6, ResolveFits DEF SavedMode, SyncTyped, AppTyped
  <2> QED
    BY <2>2, <2>4, <2>5, <2>6
<1>6. CASE Quit
  <2>1. TasksFit' /\ mongo' \in Mongo
    BY <1>6, QuitDoes, HaltedFits, TasksAre
  <2> QED
    BY <1>6, <2>1, QuitDoes DEF Kills, SyncTyped, AppTyped
<1>7. CASE QuitStep
  BY <1>7, QuitStepDoes DEF TasksFit, TriesFit, ProcFits, ResolvingFits, AppTyped
<1> QED
  BY <1>1, <1>2, <1>3, <1>4, <1>5, <1>6, <1>7

\* Every step keeps the types.
LEMMA TypesKept ==
    ASSUME TInv, [Next]_vars
    PROVE  TInv'
<1>1. CASE UNCHANGED vars
  BY <1>1 DEF vars, TInv, TypeOK, TriesFit, ProcFits, ResolvingFits
<1>2. CASE Next
  BY <1>2, MongoTyped, TaskStepTyped, ServerStepTyped, RequestsTyped DEF Next, MongoStep, Faults
<1> QED
  BY <1>1, <1>2

-----------------------------------------------------------------------------
(* The embedded database.                                                  *)

DbStep(d) == Created(d) \/ Stopped(d) \/ CreateFails(d) \/ Hangs(d)

\* The database changes with a step of its own, or where a handler starts or stops it.
LEMMA MongoMoves ==
    ASSUME TInv, [Next]_vars
    PROVE  \/ UNCHANGED mongo
           \/ \E d \in Dbs : DbStep(d)
           \/ \E t \in Tasks : \E kind \in Modes \cup {"none", "lan"} : Started(t, kind) \/ Halted(t, kind)
<1>1. CASE UNCHANGED vars
  BY <1>1 DEF vars
<1>2. CASE \E d \in Dbs : MongoStep(d) \/ CreateFails(d) \/ Hangs(d)
  BY <1>2 DEF MongoStep, DbStep
<1>3. ASSUME NEW t \in Tasks, TaskStep(t)
      PROVE  \/ UNCHANGED mongo
             \/ \E kind \in Modes \cup {"none", "lan"} : Started(t, kind) \/ Halted(t, kind)
  <2>1. CASE Probe(t)
    <3>1. task[t].kind \in Modes \cup {"none", "lan"}
      BY DEF TInv, TypeOK, Handler
    <3> QED
      BY <2>1, <3>1, ProbeDoes
  <2>2. CASE ~Probe(t)
    BY <1>3, <2>2, GotLocalDoes, GotAtlasDoes, UnresolvedDoes, ServeDoes, SafetyNetDoes, ForkDoes,
       RefusedDoes, GaveUpDoes DEF TaskStep
  <2> QED
    BY <2>1, <2>2
<1>4. ASSUME NEW p \in Procs, ServerStep(p) \/ TooSlow(p) \/ Crash(p)
      PROVE  UNCHANGED mongo
  BY <1>4, ExitsDoes, ReadyDoes, TimerDoes, TooSlowDoes, CrashDoes DEF ServerStep
<1>5. ASSUME NEW t \in Tasks, NEW mode \in Modes, Resolve(t, mode)
      PROVE  \/ UNCHANGED mongo
             \/ \E kind \in Modes \cup {"none", "lan"} : Started(t, kind)
  BY <1>5, ResolveDoes
<1>6. CASE Boot
  BY <1>5, <1>6, BootDoes
<1>7. CASE BootRefused \/ Again \/ QuitStep
  BY <1>7, BootRefusedDoes, AgainDoes, QuitStepDoes
<1>8. CASE SyncStep
  BY <1>8, SyncStepDoes DEF SyncStep
<1>9. CASE \E kind \in play.kinds : Save(kind)
  <2>1. PICK kind \in play.kinds : Save(kind)
    BY <1>9
  <2>2. PICK t \in Saves : Taken(t) /\ (SavedReset \/ SavedLan(t) \/ SavedMode(t, kind))
    BY <2>1, SaveDoes
  <2> QED
    BY <1>5, <2>2, TasksAre DEF SavedReset, SavedLan, SavedMode
<1>10. CASE Quit
  BY <1>10, QuitDoes, TasksAre
<1> QED
  BY <1>1, <1>2, <1>3, <1>4, <1>6, <1>7, <1>8, <1>9, <1>10 DEF Next, Faults

LEMMA InitDb == Init => MInv
BY DEF Init, MInv, KnownIsOnly, StartIsOnly, NoneIsLeft, CreatingIsUnknown, KnownHasUri

\* A start that is not shared finds no database at all, and makes one.
LEMMA StartMakesOne ==
    ASSUME TInv, MInv, NEW t \in Tasks, NEW kind, Started(t, kind)
    PROVE  \/ UNCHANGED mongo
           \/ /\ mongo.starting /\ mongo'.starting /\ mongo'.db = mongo.db
              /\ mongo'.mongod = mongo.mongod /\ mongo'.uri = mongo.uri
           \/ /\ mongo.mongod = None /\ mongo'.mongod = None /\ mongo'.starting
              /\ ~mongo.starting /\ \A d \in Dbs : mongo.db[d] = "none"
              /\ \E n \in Dbs : /\ mongo'.db[n] = "creating"
                                /\ \A d \in Dbs : d # n => mongo'.db[d] = "none"
<1>1. mongo \in Mongo /\ mongo.db \in [Dbs -> {"none", "creating", "up", "stopping", "hung"}]
  BY DEF TInv, TypeOK, Mongo
<1>2. CASE mongo' = mongo
  BY <1>2
<1>3. CASE mongo.starting /\ mongo' # mongo
  BY <1>3 DEF Started, Share
<1>4. CASE ~mongo.starting /\ mongo' # mongo
  <2>1. mongo.mongod = None /\ \A d \in Dbs : mongo.db[d] = "none"
    BY <1>4 DEF Started, MInv, KnownHasUri, NoneIsLeft
  <2> DEFINE n == NewDb
  <2>2. n \in Dbs
    BY <2>1, DesktopAssumption DEF NewDb
  <2>3. mongo'.db = [mongo.db EXCEPT ![n] = "creating"]
    BY <1>4 DEF Started, Share
  <2> HIDE DEF n
  <2> QED
    BY <1>1, <1>4, <2>1, <2>2, <2>3 DEF Started
<1> QED
  BY <1>2, <1>3, <1>4

\* The embedded database stays the only one.
LEMMA DbKept ==
    ASSUME TInv, MInv, [Next]_vars
    PROVE  MInv'
<1>0. mongo \in Mongo /\ mongo.mongod \in Dbs \cup {None}
  BY DEF TInv, TypeOK, Mongo
<1>1. CASE UNCHANGED mongo
  BY <1>1 DEF MInv, KnownIsOnly, StartIsOnly, NoneIsLeft, CreatingIsUnknown, KnownHasUri
<1>2. ASSUME NEW d \in Dbs, DbStep(d)
      PROVE  MInv'
  <2>1. CASE Created(d)
    <3>1. mongo.mongod = None /\ \A e \in Dbs : e # d => mongo.db[e] = "none"
      BY <2>1, CreatedDoes DEF MInv, CreatingIsUnknown, StartIsOnly, NoneIsLeft
    <3>2. mongo'.mongod = d /\ d # None /\ mongo'.db[d] \in {"stopping", "up"}
          /\ (mongo'.starting \/ mongo'.uri)
      <4>1. CASE mongo.shuttingDown
        <5>1. mongo.starting
          BY <2>1, CreatedDoes, <3>1 DEF MInv, NoneIsLeft
        <5> QED
          BY <2>1, <4>1, <5>1, CreatedDoes, DesktopAssumption
      <4>2. CASE ~mongo.shuttingDown
        BY <2>1, <4>2, CreatedDoes, DesktopAssumption
      <4> QED
        BY <4>1, <4>2
    <3>3. \A e \in Dbs : e # d => mongo'.db[e] = "none"
      BY <2>1, <3>1, CreatedDoes
    <3> QED
      BY <3>2, <3>3 DEF MInv, KnownIsOnly, StartIsOnly, NoneIsLeft, CreatingIsUnknown, KnownHasUri
  <2>2. CASE CreateFails(d)
    <3>1. mongo.mongod = None /\ \A e \in Dbs : e # d => mongo.db[e] = "none"
      BY <2>2, CreateFailsDoes DEF MInv, CreatingIsUnknown, StartIsOnly, NoneIsLeft
    <3>2. mongo'.mongod = None /\ ~mongo'.starting /\ \A e \in Dbs : mongo'.db[e] = "none"
      BY <2>2, <3>1, CreateFailsDoes
    <3> QED
      BY <3>2 DEF MInv, KnownIsOnly, StartIsOnly, NoneIsLeft, CreatingIsUnknown, KnownHasUri
  <2>3. CASE Stopped(d)
    <3>1. \A e \in Dbs : e # d => mongo.db[e] = "none"
      BY <2>3, StoppedDoes DEF MInv, KnownIsOnly, StartIsOnly, NoneIsLeft
    <3>2. mongo'.mongod = None /\ ~mongo'.starting /\ \A e \in Dbs : mongo'.db[e] = "none"
      BY <2>3, <3>1, StoppedDoes
    <3> QED
      BY <3>2 DEF MInv, KnownIsOnly, StartIsOnly, NoneIsLeft, CreatingIsUnknown, KnownHasUri
  <2>4. CASE Hangs(d)
    <3>1. mongo.mongod = d /\ \A e \in Dbs : e # d => mongo.db[e] = "none"
      BY <2>4, HangsDoes DEF MInv, KnownIsOnly, StartIsOnly, NoneIsLeft
    <3>2. mongo'.mongod = d /\ mongo'.db[d] = "hung" /\ (mongo'.starting \/ mongo'.uri)
          /\ d # None /\ \A e \in Dbs : e # d => mongo'.db[e] = "none"
      BY <2>4, <3>1, HangsDoes, DesktopAssumption DEF MInv, KnownHasUri
    <3> QED
      BY <3>2 DEF MInv, KnownIsOnly, StartIsOnly, NoneIsLeft, CreatingIsUnknown, KnownHasUri
  <2> QED
    BY <1>2, <2>1, <2>2, <2>3, <2>4 DEF DbStep
<1>3. ASSUME NEW t \in Tasks, NEW kind, Started(t, kind)
      PROVE  MInv'
  BY <1>1, <1>3, StartMakesOne
     DEF MInv, KnownIsOnly, StartIsOnly, NoneIsLeft, CreatingIsUnknown, KnownHasUri
<1>4. ASSUME NEW t \in Tasks, NEW kind, Halted(t, kind)
      PROVE  MInv'
  <2>1. CASE mongo'.db = mongo.db
    BY <1>4, <2>1 DEF Halted, MInv, KnownIsOnly, StartIsOnly, NoneIsLeft, CreatingIsUnknown, KnownHasUri
  <2>2. CASE /\ mongo.mongod # None /\ ~mongo.starting
             /\ mongo'.db[mongo.mongod] \in {"hung", "stopping"}
             /\ \A d \in Dbs : d # mongo.mongod => mongo'.db[d] = mongo.db[d]
    BY <1>0, <1>4, <2>2 DEF Halted, MInv, KnownIsOnly, StartIsOnly, NoneIsLeft, CreatingIsUnknown, KnownHasUri
  <2> QED
    BY <1>4, <2>1, <2>2 DEF Halted
<1> QED
  BY <1>1, <1>2, <1>3, <1>4, MongoMoves

-----------------------------------------------------------------------------
(* The quit.                                                               *)

\* The application's own record changes where a database is asked for, with the
\* quit, and at its end.
LEMMA AppMoves ==
    ASSUME TInv, [Next]_vars
    PROVE  \/ Quit \/ QuitStep
           \/ /\ app'.quitting = app.quitting /\ app'.finished = app.finished
              /\ app'.gone = app.gone
              /\ app.late => app'.late
<1>1. CASE UNCHANGED app
  BY <1>1
<1>2. ASSUME NEW t \in Tasks, NEW kind, Started(t, kind)
      PROVE  /\ app'.quitting = app.quitting /\ app'.finished = app.finished
             /\ app'.gone = app.gone
             /\ app.late => app'.late
  BY <1>2 DEF Started
<1>3. ASSUME NEW t \in Tasks, NEW mode \in Modes, Resolve(t, mode)
      PROVE  UNCHANGED app \/ \E kind : Started(t, kind)
  BY <1>3, ResolveDoes
<1>4. CASE UNCHANGED vars
  BY <1>1, <1>4 DEF vars
<1>5. ASSUME NEW d \in Dbs, MongoStep(d) \/ CreateFails(d) \/ Hangs(d)
      PROVE  UNCHANGED app
  BY <1>5, CreatedDoes, StoppedDoes, CreateFailsDoes, HangsDoes DEF MongoStep
<1>6. ASSUME NEW t \in Tasks, TaskStep(t)
      PROVE  UNCHANGED app \/ \E kind : Started(t, kind)
  <2>1. CASE Probe(t)
    BY <2>1, ProbeDoes
  <2>2. CASE ~Probe(t)
    BY <1>6, <2>2, GotLocalDoes, GotAtlasDoes, UnresolvedDoes, ServeDoes, SafetyNetDoes, ForkDoes,
       RefusedDoes, GaveUpDoes DEF TaskStep
  <2> QED
    BY <2>1, <2>2
<1>7. ASSUME NEW p \in Procs, ServerStep(p) \/ TooSlow(p) \/ Crash(p)
      PROVE  UNCHANGED app
  BY <1>7, ExitsDoes, ReadyDoes, TimerDoes, TooSlowDoes, CrashDoes DEF ServerStep
<1>8. CASE Boot
  BY <1>1, <1>2, <1>3, <1>8, BootDoes
<1>9. CASE BootRefused \/ Again
  BY <1>1, <1>9, BootRefusedDoes, AgainDoes
<1>10. CASE SyncStep
  BY <1>1, <1>10, SyncStepDoes DEF SyncStep
<1>11. CASE \E kind \in play.kinds : Save(kind)
  <2>1. PICK kind \in play.kinds : Save(kind)
    BY <1>11
  <2>2. PICK t \in Saves : Taken(t) /\ (SavedReset \/ SavedLan(t) \/ SavedMode(t, kind))
    BY <2>1, SaveDoes
  <2> QED
    BY <1>1, <1>2, <1>3, <2>2, TasksAre DEF SavedReset, SavedLan, SavedMode
<1>12. ASSUME NEW t \in Tasks, TaskStep(t)
       PROVE  /\ app'.quitting = app.quitting /\ app'.finished = app.finished
              /\ app'.gone = app.gone
              /\ app.late => app'.late
  BY <1>1, <1>2, <1>6, <1>12
<1>13. ASSUME NEW d \in Dbs, MongoStep(d) \/ CreateFails(d) \/ Hangs(d)
       PROVE  /\ app'.quitting = app.quitting /\ app'.finished = app.finished
              /\ app'.gone = app.gone
              /\ app.late => app'.late
  BY <1>1, <1>5, <1>13
<1>14. ASSUME NEW p \in Procs, ServerStep(p) \/ TooSlow(p) \/ Crash(p)
       PROVE  /\ app'.quitting = app.quitting /\ app'.finished = app.finished
              /\ app'.gone = app.gone
              /\ app.late => app'.late
  BY <1>1, <1>7, <1>14
<1> QED
  BY <1>4, <1>8, <1>9, <1>10, <1>11, <1>12, <1>13, <1>14 DEF Next, Faults

\* The quit's own handler moves with the quit and with the database.
LEMMA QuitHandlerMoves ==
    ASSUME TInv, QInv, [Next]_vars
    PROVE  \/ Quit
           \/ \E d \in Dbs : DbStep(d)
           \/ task'["quit"] = task["quit"]
<1>0. /\ task["quit"].pc \in {"idle", "stopping", "awaiting", "stopped"}
      /\ "quit" \in Tasks /\ "quit" \notin Handlers /\ "boot" # "quit"
      /\ \A t \in Saves : t \in Tasks /\ t # "quit"
  BY TasksAre DEF QInv, QuitWaits, Stoppings, Handlers
<1>1. task["quit"].proc = None
  BY <1>0 DEF TInv, ProcFits
<1>2. ASSUME NEW t \in Tasks, TaskStep(t)
      PROVE  task'["quit"] = task["quit"]
  <2>1. t # "quit"
    BY <1>0, <1>2, ProbeDoes, GotLocalDoes, GotAtlasDoes, UnresolvedDoes, ServeDoes,
       SafetyNetDoes, ForkDoes, RefusedDoes, GaveUpDoes DEF TaskStep
  <2>2. CASE Probe(t)
    BY <1>0, <2>1, <2>2, ProbeDoes DEF Halted, Started, Becomes
  <2>3. CASE GotLocal(t) \/ GotAtlas(t) \/ Unresolved(t)
    BY <1>0, <2>1, <2>3, GotLocalDoes, GotAtlasDoes, UnresolvedDoes DEF Becomes
  <2>4. CASE Serve(t) \/ Refused(t)
    BY <1>0, <2>1, <2>4, ServeDoes, RefusedDoes DEF Waits, Becomes
  <2>5. CASE SafetyNet(t) \/ Fork(t) \/ GaveUp(t)
    BY <1>0, <2>1, <2>5, SafetyNetDoes, ForkDoes, GaveUpDoes DEF Becomes, Ends
  <2> QED
    BY <1>2, <2>2, <2>3, <2>4, <2>5 DEF TaskStep
<1>3. ASSUME NEW p \in Procs, ServerStep(p) \/ TooSlow(p) \/ Crash(p)
      PROVE  task'["quit"] = task["quit"]
  <2>1. CASE Exits(p)
    BY <1>0, <1>1, <2>1, ExitsDoes, DesktopAssumption
  <2>2. CASE Ready(p) \/ Timer(p)
    BY <1>0, <2>2, ReadyDoes, TimerDoes
  <2>3. CASE TooSlow(p) \/ Crash(p)
    BY <1>0, <2>3, TooSlowDoes, CrashDoes DEF Refuses
  <2> QED
    BY <1>3, <2>1, <2>2, <2>3 DEF ServerStep
<1>4. ASSUME NEW t \in Tasks, t # "quit", NEW mode \in Modes, Resolve(t, mode)
      PROVE  task'["quit"] = task["quit"]
  BY <1>0, <1>4, ResolveDoes DEF Started, Becomes
<1>5. CASE Boot
  BY <1>0, <1>4, <1>5, BootDoes
<1>6. CASE BootRefused \/ Again \/ QuitStep
  BY <1>0, <1>6, BootRefusedDoes, AgainDoes, QuitStepDoes DEF Ends, Becomes
<1>7. CASE SyncStep
  BY <1>7, SyncStepDoes DEF SyncStep
<1>8. CASE \E kind \in play.kinds : Save(kind)
  <2>1. PICK kind \in play.kinds : Save(kind)
    BY <1>8
  <2>2. PICK t \in Saves : Taken(t) /\ (SavedReset \/ SavedLan(t) \/ SavedMode(t, kind))
    BY <2>1, SaveDoes
  <2> QED
    BY <1>0, <1>4, <2>2 DEF SavedReset, SavedLan, SavedMode, Becomes
<1>9. CASE UNCHANGED vars
  BY <1>9 DEF vars
<1>10. CASE \E d \in Dbs : MongoStep(d) \/ CreateFails(d) \/ Hangs(d)
  BY <1>10 DEF MongoStep, DbStep
<1> QED
  BY <1>2, <1>3, <1>5, <1>6, <1>7, <1>8, <1>9, <1>10 DEF Next, Faults

LEMMA InitQuit == Init => QInv
<1> SUFFICES ASSUME Init PROVE QInv
  OBVIOUS
<1>1. task["quit"] = Idle
  BY TasksAre DEF Init
<1> QED
  BY <1>1, IdleIs DEF Init, QInv, QuitWaits, ShutDownIsDone, EndIsTold

\* A database that is gone for good stays gone unless one is asked for.
LEMMA GoneStays ==
    ASSUME TInv, MInv, [Next]_vars, ~mongo.starting, \A d \in Dbs : mongo.db[d] = "none",
           app.quitting, ~app'.late
    PROVE  ~mongo'.starting /\ \A d \in Dbs : mongo'.db[d] = "none"
<1>1. mongo.mongod = None
  BY DEF MInv, KnownIsOnly, TInv, TypeOK, Mongo
<1>2. CASE UNCHANGED mongo
  BY <1>2
<1>3. ASSUME NEW d \in Dbs, DbStep(d)
      PROVE  FALSE
  BY <1>3, CreatedDoes, StoppedDoes, CreateFailsDoes, HangsDoes DEF DbStep
<1>4. ASSUME NEW t \in Tasks, NEW kind, Started(t, kind)
      PROVE  FALSE
  BY <1>4 DEF Started
<1>5. ASSUME NEW t \in Tasks, NEW kind, Halted(t, kind)
      PROVE  ~mongo'.starting /\ \A d \in Dbs : mongo'.db[d] = "none"
  BY <1>1, <1>5 DEF Halted
<1> QED
  BY <1>2, <1>3, <1>4, <1>5, MongoMoves

LEMMA QuitKept ==
    ASSUME TInv, MInv, QInv, [Next]_vars
    PROVE  QInv'
<1>0. /\ "quit" \in Tasks /\ app.late \in BOOLEAN /\ app'.late \in BOOLEAN
      /\ app.quitting \in BOOLEAN /\ app'.quitting \in BOOLEAN
  BY TasksAre, TypesKept DEF TInv, TypeOK
<1>1. CASE Quit
  <2>1. /\ app'.quitting /\ app'.finished = app.finished /\ app'.gone = app.gone
        /\ app'.late = app.late /\ Halted("quit", "none") /\ task["quit"] = Idle
    BY <1>1, QuitDoes DEF QInv, QuitWaits
  <2>2. task'["quit"].pc \in {"stopping", "awaiting", "stopped"}
        /\ (task'["quit"].pc = "stopped" => mongo.mongod = None /\ ~mongo.starting /\ mongo'.db = mongo.db
                                            /\ mongo'.starting = mongo.starting)
    BY <2>1 DEF Halted, Becomes
  <2>3. QuitWaits' /\ ShutDownIsDone'
    BY <2>1, <2>2 DEF QuitWaits, ShutDownIsDone, MInv, NoneIsLeft, Stoppings
  <2>4. EndIsTold'
    BY <2>1, IdleIs DEF EndIsTold, QInv
  <2> QED
    BY <2>3, <2>4 DEF QInv
<1>2. CASE QuitStep
  BY <1>2, QuitStepDoes DEF QInv, QuitWaits, ShutDownIsDone, EndIsTold
<1>3. CASE ~Quit /\ ~QuitStep
  <2>1. /\ app'.quitting = app.quitting /\ app'.finished = app.finished
        /\ app'.gone = app.gone /\ (app.late => app'.late)
    BY <1>3, AppMoves
  <2>2. CASE task'["quit"] = task["quit"]
    <3>1. QuitWaits' /\ EndIsTold'
      BY <2>1, <2>2 DEF QInv, QuitWaits, EndIsTold
    <3>2. ShutDownIsDone'
      <4> SUFFICES ASSUME task'["quit"].pc = "stopped", ~app'.late
                   PROVE  ~mongo'.starting /\ \A d \in Dbs : mongo'.db[d] = "none"
        BY DEF ShutDownIsDone
      <4>1. app.quitting
        BY <2>2, IdleIs DEF QInv, QuitWaits
      <4> QED
        BY <2>1, <2>2, <4>1, GoneStays DEF QInv, ShutDownIsDone
    <3> QED
      BY <3>1, <3>2 DEF QInv
  <2>3. ASSUME NEW d \in Dbs, DbStep(d)
        PROVE  QInv'
    <3>1. CASE UNCHANGED task
      <4>1. ~(task["quit"].pc = "stopped" /\ ~app.late)
        BY <2>3, CreatedDoes, StoppedDoes, CreateFailsDoes, HangsDoes
           DEF DbStep, QInv, ShutDownIsDone
      <4> QED
        BY <2>1, <3>1, <4>1 DEF QInv, QuitWaits, ShutDownIsDone, EndIsTold
    <3>2. ASSUME NEW s \in {"local", "failed"}, Resumed(s, "stopping", "stopping")
          PROVE  QInv'
      <4>1. /\ task'["quit"].pc \in {"idle"} \cup Stoppings
            /\ task["quit"].pc = "idle" => task'["quit"] = task["quit"]
            /\ task["quit"].pc = "stopped" => task'["quit"].pc = "stopped"
            /\ task'["quit"].pc = "stopped" => task["quit"].pc = "stopped"
        BY <1>0, <3>2 DEF Resumed, QInv, QuitWaits, Stoppings
      <4>2. ~(task["quit"].pc = "stopped" /\ ~app.late)
        BY <2>3, CreatedDoes, StoppedDoes, CreateFailsDoes, HangsDoes
           DEF DbStep, QInv, ShutDownIsDone
      <4> QED
        BY <2>1, <4>1, <4>2, IdleIs DEF QInv, QuitWaits, ShutDownIsDone, EndIsTold
    <3>3. ASSUME NEW p \in {"stopping", "stopped"}, Resumed("failed", "stopped", p),
                 ~mongo'.starting, \A e \in Dbs : mongo'.db[e] = "none"
          PROVE  QInv'
      <4>1. /\ task'["quit"].pc \in {"idle"} \cup Stoppings
            /\ task["quit"].pc = "idle" => task'["quit"] = task["quit"]
            /\ task["quit"].pc = "stopped" => task'["quit"].pc = "stopped"
        BY <1>0, <3>3 DEF Resumed, QInv, QuitWaits, Stoppings
      <4> QED
        BY <2>1, <3>3, <4>1, IdleIs DEF QInv, QuitWaits, ShutDownIsDone, EndIsTold
    <3>4. CASE Created(d)
      BY <3>1, <3>2, <3>4, CreatedDoes
    <3>5. CASE Hangs(d)
      BY <3>1, <3>5, HangsDoes
    <3>6. CASE CreateFails(d)
      <4>1. \A e \in Dbs : mongo'.db[e] = "none"
        BY <3>6, CreateFailsDoes DEF MInv, CreatingIsUnknown, StartIsOnly, NoneIsLeft
      <4> QED
        BY <3>3, <3>6, <4>1, CreateFailsDoes
    <3>7. CASE Stopped(d)
      <4>1. \A e \in Dbs : mongo'.db[e] = "none"
        BY <3>7, StoppedDoes DEF MInv, KnownIsOnly, StartIsOnly, NoneIsLeft
      <4> QED
        BY <3>3, <3>7, <4>1, StoppedDoes
    <3> QED
      BY <2>3, <3>4, <3>5, <3>6, <3>7 DEF DbStep
  <2> QED
    BY <1>3, <2>2, <2>3, QuitHandlerMoves
<1> QED
  BY <1>1, <1>2, <1>3


-----------------------------------------------------------------------------
(* The services.                                                           *)

\* A new service replaces the current one.
Replaces ==
    /\ SyncTyped /\ sync'.current \in Services
    /\ sync.svc[sync'.current].cycle = "none"
    /\ sync'.svc[sync'.current].st = "active" /\ sync'.svc[sync'.current].cycle = "open"
    /\ \A s \in Services : s # sync'.current => Dropped(s)

LEMMA SyncMoves ==
    ASSUME TInv, [Next]_vars
    PROVE  \/ UNCHANGED sync
           \/ \E s \in Services : Cycle(s) \/ Collection(s) \/ CollectionDone(s) \/ EndCycle(s)
           \/ sync'.current \in {None, sync.current} /\ \A s \in Services : Dropped(s)
           \/ (\E t \in Tasks : GotLocal(t)) /\ Replaces
<1>1. CASE UNCHANGED vars
  BY <1>1 DEF vars
<1>2. ASSUME NEW d \in Dbs, MongoStep(d) \/ CreateFails(d) \/ Hangs(d)
      PROVE  UNCHANGED sync
  BY <1>2, CreatedDoes, StoppedDoes, CreateFailsDoes, HangsDoes DEF MongoStep
<1>3. ASSUME NEW t \in Tasks, TaskStep(t)
      PROVE  UNCHANGED sync \/ (GotLocal(t) /\ Replaces)
  BY <1>3, ProbeDoes, GotLocalDoes, GotAtlasDoes, UnresolvedDoes, ServeDoes, SafetyNetDoes, ForkDoes,
     RefusedDoes, GaveUpDoes DEF TaskStep, Replaces
<1>4. ASSUME NEW p \in Procs, ServerStep(p) \/ TooSlow(p) \/ Crash(p)
      PROVE  UNCHANGED sync
  BY <1>4, ExitsDoes, ReadyDoes, TimerDoes, TooSlowDoes, CrashDoes DEF ServerStep
<1>5. ASSUME NEW t \in Tasks, NEW mode \in Modes, Resolve(t, mode)
      PROVE  \/ UNCHANGED sync
             \/ sync'.current = None /\ \A s \in Services : Dropped(s)
  BY <1>5, ResolveDoes
<1>6. CASE Boot
  BY <1>5, <1>6, BootDoes
<1>7. CASE BootRefused \/ Again \/ QuitStep
  BY <1>7, BootRefusedDoes, AgainDoes, QuitStepDoes
<1>8. CASE SyncStep
  BY <1>8 DEF SyncStep
<1>9. CASE \E kind \in play.kinds : Save(kind)
  <2>1. PICK kind \in play.kinds : Save(kind)
    BY <1>9
  <2>2. PICK t \in Saves : Taken(t) /\ (SavedReset \/ SavedLan(t) \/ SavedMode(t, kind))
    BY <2>1, SaveDoes
  <2> QED
    BY <1>5, <2>2, TasksAre DEF SavedReset, SavedLan, SavedMode
<1>10. CASE Quit
  BY <1>10, QuitDoes
<1> QED
  BY <1>1, <1>2, <1>3, <1>4, <1>6, <1>7, <1>8, <1>9, <1>10 DEF Next, Faults

LEMMA LetGoKept ==
    ASSUME TInv, LetGo, [Next]_vars
    PROVE  LetGo'
<1>1. sync.svc \in [Services -> Service]
  BY DEF TInv, TypeOK
<1>2. CASE UNCHANGED sync
  BY <1>2 DEF LetGo
<1>3. ASSUME NEW s \in Services, Cycle(s) \/ Collection(s) \/ CollectionDone(s) \/ EndCycle(s)
      PROVE  LetGo'
  BY <1>3, SyncStepDoes DEF LetGo
<1>4. CASE sync'.current \in {None, sync.current} /\ \A s \in Services : Dropped(s)
  BY <1>4 DEF LetGo, Dropped
<1>5. CASE Replaces
  BY <1>5 DEF LetGo, Dropped, Replaces
<1> QED
  BY <1>2, <1>3, <1>4, <1>5, SyncMoves

\* A service that main.ts let go of begins no further collection.
LEMMA LeftAlone ==
    ASSUME TInv, LetGo, [Next]_vars, NEW s \in Services,
           sync.svc[s].cycle = "open", sync'.svc[s].cycle = "copy", sync.current # s
    PROVE  sync.svc[s].st = "active"
<1>1. CASE UNCHANGED sync
  BY <1>1
<1>2. ASSUME NEW x \in Services, Cycle(x) \/ Collection(x) \/ CollectionDone(x) \/ EndCycle(x)
      PROVE  FALSE
  BY <1>2, SyncStepDoes DEF LetGo
<1>3. CASE \A x \in Services : Dropped(x)
  BY <1>3 DEF Dropped
<1>4. CASE Replaces
  BY <1>4 DEF Replaces, Dropped
<1> QED
  BY <1>1, <1>2, <1>3, <1>4, SyncMoves

-----------------------------------------------------------------------------
(* The handlers.                                                           *)

\* What a play allows does not change.
LEMMA PlayMoves ==
    ASSUME TInv, [Next]_vars
    PROVE  /\ play'.together = play.together /\ play'.srv = play.srv
           /\ play'.kinds = play.kinds /\ play'.mode = play.mode
           /\ play'.fails \in {play.fails, play.fails - 1}
<1>1. CASE UNCHANGED play
  BY <1>1
<1>2. CASE Fails
  BY <1>2, FailsDoes
<1>3. CASE Faults
  BY <1>1, <1>2, <1>3, CreateFailsDoes, HangsDoes, TooSlowDoes, CrashDoes DEF Faults
<1>4. ASSUME NEW d \in Dbs, MongoStep(d)
      PROVE  UNCHANGED play
  BY <1>4, CreatedDoes, StoppedDoes DEF MongoStep
<1>5. ASSUME NEW t \in Tasks, TaskStep(t)
      PROVE  UNCHANGED play
  BY <1>5, ProbeDoes, GotLocalDoes, GotAtlasDoes, UnresolvedDoes, ServeDoes, SafetyNetDoes, ForkDoes,
     RefusedDoes, GaveUpDoes DEF TaskStep
<1>6. ASSUME NEW p \in Procs, ServerStep(p)
      PROVE  UNCHANGED play
  BY <1>6, ExitsDoes, ReadyDoes, TimerDoes DEF ServerStep
<1>7. CASE Boot \/ BootRefused \/ Again \/ Quit \/ QuitStep
  BY <1>7, BootDoes, BootRefusedDoes, AgainDoes, QuitDoes, QuitStepDoes
<1>8. CASE SyncStep
  BY <1>8, SyncStepDoes DEF SyncStep
<1>9. CASE \E kind \in play.kinds : Save(kind)
  BY <1>9, SaveDoes DEF Taken
<1>10. CASE UNCHANGED vars
  BY <1>1, <1>10 DEF vars
<1>11. CASE \E d \in Dbs : MongoStep(d)
  BY <1>1, <1>4, <1>11
<1>12. CASE \E t \in Tasks : TaskStep(t)
  BY <1>1, <1>5, <1>12
<1>13. CASE \E p \in Procs : ServerStep(p)
  BY <1>1, <1>6, <1>13
<1> QED
  BY <1>1, <1>3, <1>7, <1>8, <1>9, <1>10, <1>11, <1>12, <1>13 DEF Next

\* An idle handler stays idle, unless a save is taken by it: then the others wait.
LEMMA IdleMoves ==
    ASSUME TInv, [Next]_vars, NEW t \in Handlers, task[t] = Idle
    PROVE  \/ task'[t] = Idle
           \/ Taken(t) /\ \A u \in Tasks : u # t => task'[u] = task[u]
<1>0. t \in Tasks /\ t # "quit" /\ "boot" \in Tasks /\ "quit" \in Tasks
      /\ task[t].pc = "idle" /\ task[t].proc = None
  BY TasksAre, IdleIs
<1>1. CASE UNCHANGED task
  BY <1>1
<1>2. ASSUME NEW d \in Dbs, MongoStep(d) \/ CreateFails(d) \/ Hangs(d)
      PROVE  task'[t] = task[t]
  <2>1. UNCHANGED task \/ \E s, a, p : Resumed(s, a, p)
    BY <1>2, CreatedDoes, StoppedDoes, CreateFailsDoes, HangsDoes DEF MongoStep
  <2> QED
    BY <1>0, <2>1 DEF Resumed
<1>3. ASSUME NEW u \in Tasks, TaskStep(u)
      PROVE  task'[t] = task[t]
  <2>1. t # u
    BY <1>0, <1>3, ProbeDoes, GotLocalDoes, GotAtlasDoes, UnresolvedDoes, ServeDoes,
       SafetyNetDoes, ForkDoes, RefusedDoes, GaveUpDoes DEF TaskStep
  <2>2. CASE Probe(u)
    BY <1>0, <2>1, <2>2, ProbeDoes DEF Halted, Started, Becomes
  <2>3. CASE GotLocal(u) \/ GotAtlas(u) \/ Unresolved(u)
    BY <1>0, <2>1, <2>3, GotLocalDoes, GotAtlasDoes, UnresolvedDoes DEF Becomes
  <2>4. CASE Serve(u) \/ Refused(u)
    BY <1>0, <2>1, <2>4, ServeDoes, RefusedDoes DEF Waits, Becomes
  <2>5. CASE SafetyNet(u) \/ Fork(u) \/ GaveUp(u)
    BY <1>0, <2>1, <2>5, SafetyNetDoes, ForkDoes, GaveUpDoes DEF Becomes, Ends
  <2> QED
    BY <1>3, <2>2, <2>3, <2>4, <2>5 DEF TaskStep
<1>4. ASSUME NEW p \in Procs, ServerStep(p) \/ TooSlow(p) \/ Crash(p)
      PROVE  task'[t] = task[t]
  <2>1. CASE Exits(p)
    BY <1>0, <2>1, ExitsDoes, DesktopAssumption
  <2>2. CASE Ready(p) \/ Timer(p)
    BY <1>0, <2>2, ReadyDoes, TimerDoes
  <2>3. CASE TooSlow(p) \/ Crash(p)
    BY <1>0, <2>3, TooSlowDoes, CrashDoes DEF Refuses
  <2> QED
    BY <1>4, <2>1, <2>2, <2>3 DEF ServerStep
<1>5. ASSUME NEW u \in Tasks, NEW mode \in Modes, Resolve(u, mode)
      PROVE  \A x \in Tasks : x # u => task'[x] = task[x]
  BY <1>5, ResolveDoes DEF Started, Becomes
<1>6. CASE Boot
  <2>1. t # "boot"
    BY <1>0, <1>6, BootDoes
  <2> QED
    BY <1>0, <1>5, <1>6, <2>1, BootDoes
<1>7. CASE BootRefused
  BY <1>0, <1>7, BootRefusedDoes DEF Ends, Becomes
<1>8. CASE Again \/ QuitStep
  BY <1>8, AgainDoes, QuitStepDoes
<1>9. CASE SyncStep
  BY <1>9, SyncStepDoes DEF SyncStep
<1>10. CASE \E kind \in play.kinds : Save(kind)
  <2>1. PICK kind \in play.kinds : Save(kind)
    BY <1>10
  <2>2. PICK u \in Saves : Taken(u) /\ (SavedReset \/ SavedLan(u) \/ SavedMode(u, kind))
    BY <2>1, SaveDoes
  <2>3. u \in Tasks
    BY TasksAre
  <2>4. \A x \in Tasks : x # u => task'[x] = task[x]
    BY <1>5, <2>2, <2>3 DEF SavedReset, SavedLan, SavedMode, Becomes
  <2> QED
    BY <1>0, <2>2, <2>4
<1>11. CASE Quit
  BY <1>0, <1>11, QuitDoes DEF Halted, Becomes
<1>12. CASE UNCHANGED vars
  BY <1>12 DEF vars
<1> QED
  BY <1>2, <1>3, <1>4, <1>6, <1>7, <1>8, <1>9, <1>10, <1>11, <1>12 DEF Next, Faults

LEMMA OneAtATimeKept ==
    ASSUME TInv, OneAtATime, [Next]_vars
    PROVE  OneAtATime'
<1> SUFFICES ASSUME ~play'.together, NEW t \in Handlers, NEW u \in Handlers, t # u, task[t] = Idle
             PROVE  task'[t] = Idle \/ task'[u] = Idle
  BY PlayMoves DEF OneAtATime
<1>1. CASE task'[t] = Idle
  BY <1>1
<1>2. CASE Taken(t) /\ \A x \in Tasks : x # t => task'[x] = task[x]
  <2>1. task[u] = Idle
    BY <1>2, PlayMoves DEF Taken, Handlers
  <2> QED
    BY <1>2, <2>1, TasksAre
<1> QED
  BY <1>1, <1>2, IdleMoves

-----------------------------------------------------------------------------
(* Switched off.                                                           *)

LEMMA DroppedIsOff ==
    ASSUME LetGo, \A s \in Services : Dropped(s)
    PROVE  NoneActive'
BY DEF LetGo, Dropped, NoneActive

\* No handler begins to resolve.
Onward ==
    \A t \in Handlers :
        /\ task'[t].pc = "probe" => task[t].pc = "probe"
        /\ task'[t].pc \in Resolving => task[t].pc \in Resolving
SameSettings == config'.mode = config.mode /\ config'.uri = config.uri

LEMMA OnwardIsCalm ==
    ASSUME OInv, ~play.together, Onward, SameSettings, NoneActive => NoneActive'
    PROVE  OInv'
<1>1. ProbeIsOff /\ NoModeIsOff /\ AtlasIsOff
  BY DEF OInv
<1>2. ProbeIsOff'
  BY <1>1 DEF ProbeIsOff, Onward
<1>3. NoModeIsOff'
  BY <1>1 DEF NoModeIsOff, Onward, SameSettings
<1>4. AtlasIsOff'
  BY <1>1 DEF AtlasIsOff, SameSettings
<1> QED
  BY <1>2, <1>3, <1>4 DEF OInv

\* Nothing but the requests, and whoever resolves, lets a handler resolve.
LEMMA OthersAreOnward ==
    ASSUME TInv, QInv,
           \/ \E d \in Dbs : MongoStep(d) \/ CreateFails(d) \/ Hangs(d)
           \/ \E t \in Tasks : TaskStep(t) /\ ~Probe(t) /\ ~GotLocal(t)
           \/ \E p \in Procs : ServerStep(p) \/ TooSlow(p) \/ Crash(p)
           \/ BootRefused \/ Again \/ Quit \/ QuitStep
    PROVE  Onward /\ SameSettings /\ (UNCHANGED sync \/ \A s \in Services : Dropped(s))
<1>0. /\ Handlers \subseteq Tasks /\ "quit" \notin Handlers
      /\ \A tries : AfterPc(tries) \notin Resolving
  BY TasksAre DEF AfterPc, Resolving
<1>1. CASE \E d \in Dbs : MongoStep(d) \/ CreateFails(d) \/ Hangs(d)
  <2>1. PICK d \in Dbs : MongoStep(d) \/ CreateFails(d) \/ Hangs(d)
    BY <1>1
  <2>2. /\ UNCHANGED <<sync, config>>
        /\ \/ UNCHANGED task
           \/ Resumed("local", "stopping", "stopping") \/ Resumed("failed", "stopped", "stopping")
           \/ Resumed("failed", "stopped", "stopped")
    BY <2>1, CreatedDoes, StoppedDoes, CreateFailsDoes, HangsDoes DEF MongoStep
  <2>3. \A t \in Tasks : task'[t] = task[t]
            \/ (task[t].pc \in Resolving /\ task'[t].pc # "probe")
    BY <2>2 DEF Resumed, Resolving
  <2> QED
    BY <1>0, <2>2, <2>3 DEF Onward, SameSettings
<1>2. CASE \E t \in Tasks : TaskStep(t) /\ ~Probe(t) /\ ~GotLocal(t)
  <2>1. PICK t \in Tasks : TaskStep(t) /\ ~Probe(t) /\ ~GotLocal(t)
    BY <1>2
  <2>2. CASE GotAtlas(t) \/ Unresolved(t)
    <3>1. /\ UNCHANGED <<config, sync>> /\ task'[t].pc \in {"serve", "idle"}
          /\ \A u \in Tasks : u # t => task'[u] = task[u]
      BY <2>2, GotAtlasDoes, UnresolvedDoes DEF Becomes
    <3> QED
      BY <1>0, <3>1 DEF Onward, SameSettings, Resolving
  <2>3. CASE Serve(t)
    <3>1. /\ UNCHANGED sync /\ SameSettings /\ task'[t].pc \in {"fork", "gaveUp", "killing"}
          /\ \A u \in Tasks : u # t => task'[u] = task[u]
      BY <2>3, ServeDoes DEF Waits, Becomes, AfterPc, SameSettings
    <3> QED
      BY <1>0, <3>1 DEF Onward, Resolving
  <2>4. CASE Refused(t)
    <3>1. /\ UNCHANGED sync /\ SameSettings /\ task'[t].pc \in {"fork", "gaveUp", "killing"}
          /\ \A u \in Tasks : u # t => task'[u] = task[u]
      BY <2>4, RefusedDoes DEF Waits, Becomes, AfterPc, SameSettings
    <3> QED
      BY <1>0, <3>1 DEF Onward, Resolving
  <2>5. CASE SafetyNet(t)
    <3>1. /\ UNCHANGED sync /\ SameSettings /\ task'[t].pc \in {"fork", "gaveUp"}
          /\ \A u \in Tasks : u # t => task'[u] = task[u]
      BY <2>5, SafetyNetDoes DEF Becomes, AfterPc, SameSettings
    <3> QED
      BY <1>0, <3>1 DEF Onward, Resolving
  <2>6. CASE Fork(t)
    <3>1. /\ UNCHANGED sync /\ SameSettings /\ task'[t].pc \in {"spawning"}
          /\ \A u \in Tasks : u # t => task'[u] = task[u]
      BY <2>6, ForkDoes DEF Becomes, SameSettings
    <3> QED
      BY <1>0, <3>1 DEF Onward, Resolving
  <2>7. CASE GaveUp(t)
    <3>1. /\ UNCHANGED sync /\ SameSettings /\ task'[t].pc \in {"idle"}
          /\ \A u \in Tasks : u # t => task'[u] = task[u]
      BY <2>7, GaveUpDoes DEF Becomes, Ends, SameSettings
    <3> QED
      BY <1>0, <3>1 DEF Onward, Resolving
  <2> QED
    BY <2>1, <2>2, <2>3, <2>4, <2>5, <2>6, <2>7 DEF TaskStep
<1>3. CASE \E p \in Procs : ServerStep(p) \/ TooSlow(p) \/ Crash(p)
  <2>1. PICK p \in Procs : ServerStep(p) \/ TooSlow(p) \/ Crash(p)
    BY <1>3
  <2>2. CASE Exits(p)
    <3>1. \A t \in Tasks : task'[t] = task[t] \/ task'[t].pc \in {"refused", "gaveUp", "fork"}
      BY <2>2, ExitsDoes DEF AfterPc
    <3> QED
      BY <1>0, <2>2, <3>1, ExitsDoes DEF Onward, SameSettings, Resolving
  <2>3. CASE Ready(p) \/ Timer(p)
    <3>1. \A t \in Tasks : task'[t] = task[t] \/ task'[t] = Idle
      BY <2>3, ReadyDoes, TimerDoes
    <3> QED
      BY <1>0, <2>3, <3>1, ReadyDoes, TimerDoes, IdleIs DEF Onward, SameSettings, Resolving
  <2>4. CASE TooSlow(p) \/ Crash(p)
    BY <1>0, <2>4, TooSlowDoes, CrashDoes DEF Onward, SameSettings, Resolving, Refuses
  <2> QED
    BY <2>1, <2>2, <2>3, <2>4 DEF ServerStep
<1>4. CASE BootRefused
  BY <1>0, <1>4, BootRefusedDoes DEF Onward, SameSettings, Becomes, Ends, Resolving
<1>5. CASE Again \/ QuitStep
  BY <1>5, AgainDoes, QuitStepDoes DEF Onward, SameSettings
<1>6. CASE Quit
  BY <1>0, <1>6, QuitDoes DEF Onward, SameSettings, Halted, Becomes
<1> QED
  BY <1>1, <1>2, <1>3, <1>4, <1>5, <1>6

\* The handlers' steps are not the quit's.
LEMMA QuitOnlyWaits ==
    ASSUME TInv, QInv, NEW t \in Tasks, TaskStep(t)
    PROVE  t \in Handlers /\ task[t] # Idle
<1>1. task["quit"].pc \in {"idle", "stopping", "awaiting", "stopped"}
  BY DEF QInv, QuitWaits, Stoppings
<1>2. t # "quit" /\ task[t].pc # "idle"
  BY <1>1, ProbeDoes, GotLocalDoes, GotAtlasDoes, UnresolvedDoes, ServeDoes,
     SafetyNetDoes, ForkDoes, RefusedDoes, GaveUpDoes DEF TaskStep
<1> QED
  BY <1>2, TasksAre, IdleIs

\* While a handler moves, the others are idle.
LEMMA OthersIdle ==
    ASSUME OneAtATime, ~play.together, NEW t \in Handlers, task[t] # Idle
    PROVE  \A u \in Handlers : u # t => task[u] = Idle
BY DEF OneAtATime

LEMMA ResolveIsOff ==
    ASSUME TInv, LetGo, OInv, ~play.together, NEW t \in Handlers, NEW mode \in Modes,
           Resolve(t, mode), \A u \in Handlers : u # t => task[u] = Idle,
           config'.mode # "none",
           config'.uri = config.uri, config'.mode = config.mode \/ config'.mode = mode
    PROVE  OInv'
<1>1. t \in Tasks /\ Handlers \subseteq Tasks
  BY TasksAre
<1>2. NoModeIsOff'
  BY DEF NoModeIsOff
<1>3. CASE mode # "hybrid"
  <2>1. NoneActive'
    BY <1>1, <1>3, ResolveDoes, DroppedIsOff
  <2> QED
    BY <1>2, <2>1 DEF OInv, ProbeIsOff, AtlasIsOff
<1>4. CASE mode = "hybrid"
  <2>1. UNCHANGED sync /\ Started(t, mode)
    BY <1>1, <1>4, ResolveDoes
  <2>2. NoneActive => NoneActive'
    BY <2>1 DEF NoneActive
  <2>3. ProbeIsOff'
    BY <1>1, <2>1, IdleIs DEF ProbeIsOff, Started, Becomes
  <2>4. AtlasIsOff'
    BY <1>4, <2>2 DEF OInv, AtlasIsOff
  <2> QED
    BY <1>2, <2>3, <2>4 DEF OInv
<1> QED
  BY <1>3, <1>4

LEMMA OffKept ==
    ASSUME TInv, QInv, LetGo, OneAtATime, OInv, [Next]_vars
    PROVE  OInv'
<1> SUFFICES ASSUME ~play.together PROVE OInv'
  BY PlayMoves DEF OInv
<1>0. ProbeIsOff /\ NoModeIsOff /\ AtlasIsOff /\ Handlers \subseteq Tasks
  BY TasksAre DEF OInv
<1>1. CASE UNCHANGED vars
  BY <1>1, OnwardIsCalm DEF vars, Onward, SameSettings, NoneActive
<1>2. CASE \/ \E d \in Dbs : MongoStep(d) \/ CreateFails(d) \/ Hangs(d)
           \/ \E t \in Tasks : TaskStep(t) /\ ~Probe(t) /\ ~GotLocal(t)
           \/ \E p \in Procs : ServerStep(p) \/ TooSlow(p) \/ Crash(p)
           \/ BootRefused \/ Again \/ Quit \/ QuitStep
  <2>1. Onward /\ SameSettings /\ (UNCHANGED sync \/ \A s \in Services : Dropped(s))
    BY <1>2, OthersAreOnward
  <2>2. NoneActive => NoneActive'
    BY <2>1, DroppedIsOff DEF NoneActive
  <2> QED
    BY <2>1, <2>2, OnwardIsCalm
<1>3. CASE \E s \in Services : Cycle(s) \/ Collection(s) \/ CollectionDone(s) \/ EndCycle(s)
  <2>1. PICK s \in Services : Cycle(s) \/ Collection(s) \/ CollectionDone(s) \/ EndCycle(s)
    BY <1>3
  <2>2. Onward /\ SameSettings /\ \A x \in Services : sync'.svc[x].st = sync.svc[x].st
    BY <2>1, SyncStepDoes DEF Onward, SameSettings
  <2> QED
    BY <2>2, OnwardIsCalm DEF NoneActive
<1>4. ASSUME NEW t \in Tasks, Probe(t)
      PROVE  OInv'
  <2>1. t \in Handlers /\ task[t].pc = "probe" /\ UNCHANGED sync /\ config'.mode = config.mode
    BY <1>4, QuitOnlyWaits, ProbeDoes DEF TaskStep
  <2>2. \A u \in Handlers : u # t => task[u] = Idle
    BY <2>1, OthersIdle, IdleIs
  <2>3. NoneActive /\ config'.mode # "none"
    BY <1>0, <2>1 DEF ProbeIsOff, NoModeIsOff, Resolving
  <2> QED
    BY <2>1, <2>3 DEF OInv, ProbeIsOff, NoModeIsOff, AtlasIsOff, NoneActive
<1>5. ASSUME NEW t \in Tasks, GotLocal(t)
      PROVE  OInv'
  <2>1. /\ t \in Handlers /\ task[t].pc = "local" /\ config'.mode = config.mode /\ config'.uri = "local"
        /\ Becomes(t, "serve", task[t].kind, "local", None, 0)
    BY <1>5, QuitOnlyWaits, GotLocalDoes DEF TaskStep
  <2>2. \A u \in Handlers : u # t => task[u] = Idle
    BY <2>1, OthersIdle, IdleIs
  <2>3. config'.mode # "none"
    BY <1>0, <2>1 DEF NoModeIsOff, Resolving
  <2>4. \A u \in Handlers : task'[u].pc # "probe"
    BY <1>0, <2>1, <2>2, IdleIs DEF Becomes
  <2> QED
    BY <2>1, <2>3, <2>4 DEF OInv, ProbeIsOff, NoModeIsOff, AtlasIsOff
<1>6. CASE Boot
  <2>1. /\ task["boot"].pc = "resolve" /\ UNCHANGED config /\ play.mode \in Modes
        /\ "boot" \in Handlers /\ Resolve("boot", play.mode)
    BY <1>6, BootDoes, TasksAre
  <2>2. \A u \in Handlers : u # "boot" => task[u] = Idle
    BY <2>1, OthersIdle, IdleIs
  <2>3. config'.mode # "none"
    BY <1>0, <2>1 DEF NoModeIsOff, Resolving
  <2> QED
    BY <2>1, <2>2, <2>3, ResolveIsOff
<1>7. CASE \E kind \in play.kinds : Save(kind)
  <2>1. PICK kind \in play.kinds : Save(kind)
    BY <1>7
  <2>2. PICK t \in Saves : Taken(t) /\ (SavedReset \/ SavedLan(t) \/ SavedMode(t, kind))
    BY <2>1, SaveDoes
  <2>3. \A u \in Handlers : task[u] = Idle
    BY <2>2 DEF Taken, Handlers
  <2>4. CASE SavedReset
    <3>1. NoneActive' /\ UNCHANGED task
      BY <2>4, DroppedIsOff DEF SavedReset
    <3>2. \A u \in Handlers : task'[u].pc = "idle"
      BY <2>3, <3>1, IdleIs
    <3> QED
      BY <3>1, <3>2 DEF OInv, ProbeIsOff, NoModeIsOff, AtlasIsOff, Resolving
  <2>5. CASE SavedLan(t)
    <3>1. Onward /\ SameSettings /\ UNCHANGED sync
      BY <1>0, <2>5 DEF SavedLan, Onward, SameSettings, Becomes, Resolving
    <3> QED
      BY <3>1, OnwardIsCalm DEF NoneActive
  <2>6. CASE SavedMode(t, kind)
    <3>1. t \in Handlers /\ kind # "none"
      BY <2>6 DEF Handlers, SavedMode, Modes
    <3> QED
      BY <2>3, <2>6, <3>1, ResolveIsOff DEF SavedMode
  <2> QED
    BY <2>2, <2>4, <2>5, <2>6
<1> QED
  BY <1>1, <1>2, <1>3, <1>4, <1>5, <1>6, <1>7 DEF Next, Faults, SyncStep

-----------------------------------------------------------------------------
(* One server.                                                             *)

\* Handlers that stop or wait for no server, move.
Aside ==
    /\ \A t \in Handlers :
          \/ task'[t] = task[t]
          \/ /\ task[t].pc \notin {"killing", "spawning"}
             /\ task'[t].pc \notin {"killing", "gaveUp", "spawning"}
             /\ task'[t].pc = "fork" => server.current = None
    /\ task'["boot"].pc \in Resolving \cup {"serve"} => task["boot"].pc \in Resolving \cup {"serve"}

LEMMA AsideKeeps ==
    ASSUME TInv, UNCHANGED server, Aside, ServerOk
    PROVE  ServerOk' /\ (HandoverOk => HandoverOk')
<1>0. "boot" \in Handlers /\ Handlers \subseteq Tasks
  BY TasksAre
<1>1. ServerOk'
  <2>1. StoppedFirst'
    BY <1>0 DEF ServerOk, StoppedFirst, Aside
  <2>2. BootIsFirst'
    BY <1>0 DEF ServerOk, BootIsFirst, Aside
  <2> QED
    BY <2>1, <2>2 DEF ServerOk, CurrentLives, StrayIsNone, TimerIsOfDead
<1>2. HandoverOk => HandoverOk'
  <2> SUFFICES ASSUME HandoverOk PROVE HandoverOk'
    OBVIOUS
  <2>1. DyingIsAwaited'
    BY <1>0 DEF HandoverOk, DyingIsAwaited, Aside
  <2>2. SpawningIsCurrent'
    BY <1>0 DEF HandoverOk, SpawningIsCurrent, Aside
  <2> QED
    BY <2>1, <2>2 DEF HandoverOk, NoneIsFooled
<1> QED
  BY <1>1, <1>2

\* The steps that leave the server alone.
LEMMA ServerLeftAlone ==
    ASSUME TInv, QInv, ServerOk, ~play.together,
           \/ \E d \in Dbs : MongoStep(d) \/ CreateFails(d) \/ Hangs(d)
           \/ \E t \in Tasks : Probe(t) \/ GotLocal(t) \/ GotAtlas(t) \/ Unresolved(t)
           \/ Serve("boot") \/ Boot \/ SyncStep \/ QuitStep
           \/ \E kind \in play.kinds : Save(kind)
    PROVE  UNCHANGED server /\ Aside
<1>0. /\ Handlers \subseteq Tasks /\ "quit" \notin Handlers /\ "boot" \in Handlers /\ "boot" \notin Saves
      /\ Saves \subseteq Tasks
  BY TasksAre, DesktopAssumption
<1>1. CASE \E d \in Dbs : MongoStep(d) \/ CreateFails(d) \/ Hangs(d)
  <2>1. PICK d \in Dbs : MongoStep(d) \/ CreateFails(d) \/ Hangs(d)
    BY <1>1
  <2>2. /\ UNCHANGED server
        /\ \/ UNCHANGED task
           \/ Resumed("local", "stopping", "stopping") \/ Resumed("failed", "stopped", "stopping")
           \/ Resumed("failed", "stopped", "stopped")
    BY <2>1, CreatedDoes, StoppedDoes, CreateFailsDoes, HangsDoes DEF MongoStep
  <2>3. \A t \in Tasks : task'[t] = task[t]
            \/ (task[t].pc \in Resolving /\ task'[t].pc \in Resolving)
    BY <2>2 DEF Resumed, Resolving
  <2> QED
    BY <1>0, <2>2, <2>3 DEF Aside, Resolving
<1>2. ASSUME NEW t \in Tasks, Probe(t) \/ GotLocal(t) \/ GotAtlas(t) \/ Unresolved(t)
      PROVE  UNCHANGED server /\ Aside
  <2>1. /\ UNCHANGED server /\ task[t].pc \in Resolving
        /\ task'[t].pc \in Resolving \cup {"serve", "idle"}
        /\ \A u \in Tasks : u # t => task'[u] = task[u]
    <3>1. CASE Probe(t)
      BY <3>1, ProbeDoes DEF Halted, Started, Becomes, Resolving
    <3>2. CASE GotLocal(t)
      BY <3>2, GotLocalDoes DEF Becomes, Resolving
    <3>3. CASE GotAtlas(t)
      BY <3>3, GotAtlasDoes DEF Becomes, Resolving
    <3>4. CASE Unresolved(t)
      BY <3>4, UnresolvedDoes DEF Becomes, Resolving
    <3> QED
      BY <1>2, <3>1, <3>2, <3>3, <3>4
  <2> QED
    BY <1>0, <2>1 DEF Aside, Resolving
<1>3. CASE Serve("boot")
  <2>1. /\ UNCHANGED server /\ task["boot"].pc = "serve" /\ task'["boot"].pc = "fork"
        /\ \A u \in Tasks : u # "boot" => task'[u] = task[u]
    BY <1>0, <1>3, ServeDoes DEF Becomes
  <2>2. server.current = None
    BY <2>1 DEF ServerOk, BootIsFirst
  <2> QED
    BY <1>0, <2>1, <2>2 DEF Aside, Resolving
<1>4. ASSUME NEW t \in Handlers, NEW mode \in Modes, Resolve(t, mode),
             t = "boot" => task[t].pc \in Resolving, task[t].pc \notin {"killing", "spawning"}
      PROVE  UNCHANGED server /\ Aside
  <2>1. /\ UNCHANGED server /\ task'[t].pc \in Resolving
        /\ \A u \in Tasks : u # t => task'[u] = task[u]
    <3>1. Started(t, mode) \/ Becomes(t, "probe", mode, "none", None, 0)
      BY <1>0, <1>4, ResolveDoes
    <3> QED
      BY <1>0, <1>4, <3>1, ResolveDoes DEF Started, Becomes, Resolving
  <2> QED
    BY <1>0, <1>4, <2>1 DEF Aside, Resolving
<1>5. CASE Boot
  <2>1. /\ Resolve("boot", play.mode) /\ play.mode \in Modes /\ task["boot"].pc = "resolve"
    BY <1>5, BootDoes
  <2> QED
    BY <1>0, <1>4, <2>1 DEF Resolving
<1>6. CASE SyncStep \/ QuitStep
  BY <1>6, SyncStepDoes, QuitStepDoes DEF SyncStep, Aside
<1>7. CASE \E kind \in play.kinds : Save(kind)
  <2>1. PICK kind \in play.kinds : Save(kind)
    BY <1>7
  <2>2. PICK t \in Saves : Taken(t) /\ (SavedReset \/ SavedLan(t) \/ SavedMode(t, kind))
    BY <2>1, SaveDoes
  <2>3. t \in Handlers /\ t # "boot" /\ task[t].pc = "idle"
    BY <1>0, <2>2, IdleIs DEF Taken, Handlers
  <2>4. CASE SavedReset
    BY <2>4 DEF SavedReset, Aside
  <2>5. CASE SavedLan(t)
    <3>1. /\ UNCHANGED server /\ task'[t].pc = "serve"
          /\ \A u \in Tasks : u # t => task'[u] = task[u]
      BY <2>5 DEF SavedLan, Becomes
    <3> QED
      BY <1>0, <2>3, <3>1 DEF Aside
  <2>6. CASE SavedMode(t, kind)
    BY <1>4, <2>3, <2>6 DEF SavedMode
  <2> QED
    BY <2>2, <2>4, <2>5, <2>6
<1> QED
  BY <1>1, <1>2, <1>3, <1>5, <1>6, <1>7

\* A save stops the current server: it waits for the exit, or goes on.
LEMMA KillKeeps ==
    ASSUME TInv, ServerOk, Kills, NEW t \in Handlers, t # "boot", NEW tries, Waits(t, tries),
           task[t].pc \notin {"killing", "spawning"},
           \A u \in Handlers : u # t => task[u] = Idle
    PROVE  ServerOk' /\ (HandoverOk => HandoverOk')
<1>0. /\ Handlers \subseteq Tasks /\ "boot" \in Handlers /\ None \notin Procs
      /\ server.current \in Procs \cup {None}
  BY TasksAre, DesktopAssumption DEF TInv, TypeOK, Server
<1>1. /\ task'[t].pc \in {"killing", "fork", "gaveUp"}
      /\ \A u \in Handlers : u # t => task'[u].pc = "idle"
      /\ server.current # None => task'[t].pc = "killing" /\ task'[t].proc = server.current
  BY <1>0, IdleIs DEF Waits, Becomes, AfterPc
<1>2. ServerOk'
  <2>1. StrayIsNone'
    BY <1>0 DEF ServerOk, StrayIsNone, Kills, Stops
  <2>2. CurrentLives' /\ TimerIsOfDead' /\ StoppedFirst'
    BY <1>0 DEF CurrentLives, TimerIsOfDead, StoppedFirst, Kills, TInv, TypeOK, Server
  <2>3. BootIsFirst'
    BY <1>0, <1>1 DEF BootIsFirst, Kills
  <2> QED
    BY <2>1, <2>2, <2>3 DEF ServerOk, Kills
<1>3. ASSUME HandoverOk PROVE HandoverOk'
  <2>1. ASSUME NEW p \in Procs, server'.proc[p].st \in {"dying", "killed"}
        PROVE  task'[t].pc = "killing" /\ task'[t].proc = p
    <3>1. CASE p = server.current
      BY <1>0, <1>1, <3>1
    <3>2. CASE p # server.current
      <4>1. PICK u \in Handlers : task[u].pc = "killing"
        BY <1>3, <2>1, <3>2 DEF HandoverOk, DyingIsAwaited, Kills
      <4> QED
        BY <4>1, IdleIs
    <3> QED
      BY <3>1, <3>2
  <2>2. DyingIsAwaited'
    BY <2>1 DEF DyingIsAwaited
  <2>3. SpawningIsCurrent'
    BY <1>1 DEF SpawningIsCurrent
  <2>4. NoneIsFooled'
    BY <1>3 DEF HandoverOk, NoneIsFooled, Kills, Stops
  <2> QED
    BY <2>2, <2>3, <2>4 DEF HandoverOk
<1> QED
  BY <1>2, <1>3

\* A process that was stopped is gone, and whoever awaited it goes on.
LEMMA ExitKeeps ==
    ASSUME TInv, ServerOk, NEW p \in Procs, Exits(p)
    PROVE  ServerOk' /\ (HandoverOk => HandoverOk')
<1>0. /\ Handlers \subseteq Tasks /\ "boot" \in Handlers /\ None \notin Procs
  BY TasksAre, DesktopAssumption
<1>1. /\ server.proc[p].st \in {"dying", "killed"} /\ server'.proc[p].st = "none" /\ Only(p)
  BY ExitsDoes DEF NoProc
<1>2. /\ p # server.current /\ server'.current = server.current
      /\ \A q \in Procs : q # p => server'.proc[q] = server.proc[q]
  BY <1>0, <1>1 DEF Only, ServerOk, CurrentLives
<1>3. \A t \in Tasks :
        /\ task[t].proc # p => task'[t] = task[t]
        /\ task[t].proc = p =>
              \/ task[t].pc = "killing" /\ task'[t].pc \in {"fork", "gaveUp"}
              \/ task[t].pc \in {"spawning", "refused"} /\ task'[t].pc = "refused"
  BY ExitsDoes DEF AfterPc
<1>4. ServerOk'
  <2>1. CurrentLives' /\ StrayIsNone'
    BY <1>0, <1>1, <1>2 DEF ServerOk, CurrentLives, StrayIsNone, TInv, TypeOK, Server
  <2>2. TimerIsOfDead'
    BY <1>1, <1>2 DEF ServerOk, TimerIsOfDead, Only, TInv, TypeOK, Server
  <2>3. StoppedFirst'
    BY <1>0, <1>2, <1>3 DEF ServerOk, StoppedFirst
  <2>4. BootIsFirst'
    BY <1>0, <1>2, <1>3 DEF ServerOk, BootIsFirst, Resolving
  <2> QED
    BY <1>1, <2>1, <2>2, <2>3, <2>4 DEF ServerOk, Only
<1>5. ASSUME HandoverOk PROVE HandoverOk'
  <2>1. DyingIsAwaited'
    BY <1>0, <1>1, <1>2, <1>3, <1>5 DEF HandoverOk, DyingIsAwaited
  <2>2. ASSUME NEW t \in Handlers, task'[t].pc = "spawning"
        PROVE  task'[t] = task[t] /\ task[t].proc # p /\ task[t].proc \in Procs
    <3>1. task'[t] = task[t] /\ task[t].proc # p
      BY <1>0, <1>3, <2>2
    <3> QED
      BY <1>0, <2>2, <3>1 DEF TInv, TypeOK, ProcFits, Handler
  <2>3. SpawningIsCurrent'
    BY <1>2, <1>5, <2>2 DEF HandoverOk, SpawningIsCurrent
  <2>4. NoneIsFooled'
    BY <1>1, <1>2, <1>5 DEF HandoverOk, NoneIsFooled
  <2> QED
    BY <2>1, <2>3, <2>4 DEF HandoverOk
<1> QED
  BY <1>4, <1>5

\* The handle was of a process that had crashed before.
LEMMA SafetyNetKeeps ==
    ASSUME TInv, ServerOk, NEW t \in Handlers, SafetyNet(t)
    PROVE  ServerOk' /\ (HandoverOk => HandoverOk')
<1>0. /\ Handlers \subseteq Tasks /\ "boot" \in Handlers /\ None \notin Procs
  BY TasksAre, DesktopAssumption
<1> DEFINE p == task[t].proc
<1>1. /\ p \in Procs /\ server.proc[p].st = "dead" /\ server'.proc[p].st = "none" /\ Only(p)
      /\ task[t].pc = "killing" /\ task'[t].pc \in {"fork", "gaveUp"}
      /\ \A u \in Tasks : u # t => task'[u] = task[u]
  BY <1>0, SafetyNetDoes DEF NoProc, Becomes, AfterPc
<1> HIDE DEF p
<1>2. /\ server.current = None /\ server'.current = None
      /\ \A q \in Procs : q # p => server'.proc[q] = server.proc[q]
  BY <1>1 DEF Only, ServerOk, StoppedFirst
<1>3. ServerOk'
  <2>1. CurrentLives' /\ TimerIsOfDead' /\ StoppedFirst'
    BY <1>0, <1>1, <1>2 DEF ServerOk, CurrentLives, TimerIsOfDead, StoppedFirst, Only, TInv, TypeOK, Server
  <2>2. StrayIsNone'
    BY <1>0, <1>1, <1>2 DEF ServerOk, StrayIsNone
  <2>3. BootIsFirst'
    BY <1>0, <1>1, <1>2 DEF ServerOk, BootIsFirst
  <2> QED
    BY <1>1, <2>1, <2>2, <2>3 DEF ServerOk, Only
<1>4. ASSUME HandoverOk PROVE HandoverOk'
  <2>1. DyingIsAwaited'
    BY <1>0, <1>1, <1>2, <1>4 DEF HandoverOk, DyingIsAwaited, p
  <2>2. \A u \in Handlers : task[u].pc # "spawning"
    BY <1>0, <1>2, <1>4 DEF HandoverOk, SpawningIsCurrent, TInv, ProcFits
  <2>3. SpawningIsCurrent'
    BY <1>0, <1>1, <2>2 DEF SpawningIsCurrent
  <2>4. NoneIsFooled'
    BY <1>1, <1>2, <1>4 DEF HandoverOk, NoneIsFooled
  <2> QED
    BY <2>1, <2>3, <2>4 DEF HandoverOk
<1> QED
  BY <1>3, <1>4

\* A handler forks where there is no server.
LEMMA ForkKeeps ==
    ASSUME TInv, ServerOk, NEW t \in Handlers, Fork(t), \A u \in Handlers : u # t => task[u] = Idle
    PROVE  ServerOk' /\ (HandoverOk => HandoverOk')
<1>0. /\ Handlers \subseteq Tasks /\ "boot" \in Handlers /\ None \notin Procs
  BY TasksAre, DesktopAssumption
<1> DEFINE n == NewProc
           uri == IF task[t].uri = "none" THEN config.uri ELSE task[t].uri
<1>1. /\ task[t].pc = "fork" /\ Forks(n, uri, "task")
      /\ server'.timers = server.timers /\ server'.again = server.again
      /\ Becomes(t, "spawning", task[t].kind, task[t].uri, n, task[t].tries)
  BY <1>0, ForkDoes
<1> HIDE DEF n, uri
<1>2. /\ server.current = None /\ server'.current = n /\ n \in Procs /\ n \notin server.timers
      /\ server'.proc[n].st = "booting" /\ server'.proc[n].by = "task"
      /\ \A q \in Procs : q # n => server'.proc[q] = server.proc[q]
  BY <1>0, <1>1 DEF Forks, FreeProcs, ServerOk, StoppedFirst
<1>3. /\ task'[t].pc = "spawning" /\ task'[t].proc = n
      /\ \A u \in Handlers : u # t => task'[u].pc = "idle"
  BY <1>0, <1>1, IdleIs DEF Becomes
<1>4. ServerOk'
  <2>1. CurrentLives' /\ TimerIsOfDead'
    BY <1>1, <1>2 DEF CurrentLives, TimerIsOfDead
  <2>2. StrayIsNone'
    BY <1>0, <1>2 DEF ServerOk, StrayIsNone
  <2>3. StoppedFirst' /\ BootIsFirst'
    BY <1>0, <1>3 DEF StoppedFirst, BootIsFirst, Resolving
  <2> QED
    BY <1>1, <2>1, <2>2, <2>3 DEF ServerOk
<1>5. ASSUME HandoverOk PROVE HandoverOk'
  <2>1. \A u \in Handlers : task[u].pc # "killing"
    BY <1>1, IdleIs
  <2>2. DyingIsAwaited'
    BY <1>2, <1>5, <2>1 DEF HandoverOk, DyingIsAwaited
  <2>3. SpawningIsCurrent'
    BY <1>2, <1>3 DEF SpawningIsCurrent
  <2>4. NoneIsFooled'
    BY <1>2, <1>5 DEF HandoverOk, NoneIsFooled
  <2> QED
    BY <2>2, <2>3, <2>4 DEF HandoverOk
<1> QED
  BY <1>4, <1>5

\* The restart after a crash forks only in the place of the server that crashed.
LEMMA TimerKeeps ==
    ASSUME TInv, ServerOk, ~play.srv, NEW p \in Procs, Timer(p)
    PROVE  ServerOk' /\ (HandoverOk => HandoverOk')
<1>0. /\ Handlers \subseteq Tasks /\ "boot" \in Handlers /\ None \notin Procs
      /\ server.current \in Procs \cup {None}
  BY TasksAre, DesktopAssumption DEF TInv, TypeOK, Server
<1>1. /\ p \in server.timers /\ UNCHANGED task /\ server'.timers = server.timers \ {p}
      /\ server'.again = server.again
  BY TimerDoes
<1>2. CASE server'.proc = server.proc /\ server'.current = server.current
  <2>1. ServerOk'
    <3>1. CurrentLives' /\ StrayIsNone' /\ StoppedFirst' /\ BootIsFirst'
      BY <1>1, <1>2 DEF ServerOk, CurrentLives, StrayIsNone, StoppedFirst, BootIsFirst
    <3>2. TimerIsOfDead'
      BY <1>1, <1>2 DEF ServerOk, TimerIsOfDead
    <3> QED
      BY <1>1, <3>1, <3>2 DEF ServerOk
  <2>2. HandoverOk => HandoverOk'
    BY <1>1, <1>2 DEF HandoverOk, DyingIsAwaited, SpawningIsCurrent, NoneIsFooled
  <2> QED
    BY <2>1, <2>2
<1>3. CASE server.current = p /\ Forks(NewProc, config.uri, "crash")
  <2> DEFINE n == NewProc
             uri == config.uri
  <2>1. server.current = p /\ Forks(n, uri, "crash")
    BY <1>3
  <2> HIDE DEF n, uri
  <2>2. /\ server.proc[p].st = "dead" /\ server'.proc[p].st = "none" /\ n # p /\ n \in Procs
        /\ n \notin server.timers /\ server'.current = n /\ server'.proc[n].st = "booting"
        /\ \A q \in Procs : q # n /\ q # p => server'.proc[q] = server.proc[q]
    BY <1>1, <2>1 DEF Forks, FreeProcs, ServerOk, TimerIsOfDead, NoProc
  <2>3. \A t \in Handlers : task[t].pc \notin {"killing", "fork", "gaveUp"}
    BY <1>0, <2>1 DEF ServerOk, StoppedFirst
  <2>4. ServerOk'
    <3>1. CurrentLives' /\ TimerIsOfDead'
      BY <1>1, <2>2 DEF CurrentLives, TimerIsOfDead
    <3>2. StrayIsNone'
      BY <2>1, <2>2 DEF ServerOk, StrayIsNone
    <3>3. StoppedFirst' /\ BootIsFirst'
      BY <1>0, <1>1, <2>1, <2>3 DEF ServerOk, StoppedFirst, BootIsFirst
    <3> QED
      BY <1>1, <3>1, <3>2, <3>3 DEF ServerOk
  <2>5. ASSUME HandoverOk PROVE HandoverOk'
    <3>1. DyingIsAwaited'
      BY <1>1, <2>2, <2>5 DEF HandoverOk, DyingIsAwaited
    <3>2. SpawningIsCurrent'
      BY <1>1, <2>1, <2>2, <2>5 DEF HandoverOk, SpawningIsCurrent
    <3>3. NoneIsFooled'
      BY <2>2, <2>5 DEF HandoverOk, NoneIsFooled
    <3> QED
      BY <3>1, <3>2, <3>3 DEF HandoverOk
  <2> QED
    BY <2>4, <2>5
<1> QED
  BY <1>2, <1>3, TimerDoes

\* A start that answers is of the current server, and answers itself.
LEMMA ReadyKeeps ==
    ASSUME TInv, ServerOk, NEW p \in Procs, Ready(p)
    PROVE  ServerOk' /\ (HandoverOk => HandoverOk' /\ server'.proc[p].st = "up")
<1>0. /\ Handlers \subseteq Tasks /\ "boot" \in Handlers /\ None \notin Procs
      /\ server.current \in Procs \cup {None}
  BY TasksAre, DesktopAssumption DEF TInv, TypeOK, Server
<1>1. /\ server.proc[p].st = "booting" /\ p = server.current /\ Only(p)
      /\ server'.proc[p].st \in {"up", "fooled"}
  BY ReadyDoes DEF ServerOk, StrayIsNone
<1>2. \A t \in Tasks : task'[t] = IF task[t].pc = "spawning" /\ task[t].proc = p
                                  THEN Idle ELSE task[t]
  BY ReadyDoes
<1>3. \A t \in Handlers : task[t].pc \notin {"killing", "fork", "gaveUp"}
  BY <1>0, <1>1 DEF ServerOk, StoppedFirst
<1>4. ServerOk'
  <2>1. CurrentLives' /\ StrayIsNone'
    BY <1>1 DEF ServerOk, CurrentLives, StrayIsNone, Only
  <2>2. TimerIsOfDead'
    BY <1>1 DEF ServerOk, TimerIsOfDead, Only
  <2>3. StoppedFirst' /\ BootIsFirst'
    BY <1>0, <1>1, <1>2, <1>3, IdleIs DEF ServerOk, StoppedFirst, BootIsFirst, Resolving
  <2> QED
    BY <1>1, <2>1, <2>2, <2>3 DEF ServerOk, Only
<1>5. ASSUME HandoverOk PROVE HandoverOk' /\ server'.proc[p].st = "up"
  <2>1. \A q \in Procs : server.proc[q].st \notin {"dying", "killed"}
    BY <1>3, <1>5 DEF HandoverOk, DyingIsAwaited
  <2>2. ~\E q \in Procs \ {p} : HoldsPort(q)
    BY <1>1, <2>1 DEF ServerOk, StrayIsNone, HoldsPort
  <2>3. server'.proc[p].st = "up"
    BY <2>2, ReadyDoes
  <2>4. DyingIsAwaited' /\ NoneIsFooled'
    BY <1>1, <1>5, <2>1, <2>3 DEF HandoverOk, DyingIsAwaited, NoneIsFooled, Only
  <2>5. \A t \in Handlers : task'[t].pc # "spawning"
    BY <1>0, <1>1, <1>2, <1>5, IdleIs DEF HandoverOk, SpawningIsCurrent
  <2> QED
    BY <2>3, <2>4, <2>5 DEF HandoverOk, SpawningIsCurrent
<1> QED
  BY <1>4, <1>5

\* What crashes, or is waited for in vain, is the current server.
LEMMA CrashKeeps ==
    ASSUME TInv, ServerOk, NEW p \in Procs, Crash(p) \/ TooSlow(p)
    PROVE  ServerOk' /\ (HandoverOk => HandoverOk')
<1>0. /\ Handlers \subseteq Tasks /\ "boot" \in Handlers /\ None \notin Procs
      /\ server.current \in Procs \cup {None}
  BY TasksAre, DesktopAssumption DEF TInv, TypeOK, Server
<1>1. server.proc[p].st \in {"booting", "up", "fooled"}
  BY CrashDoes, TooSlowDoes
<1>2. p = server.current /\ p # None
  BY <1>0, <1>1 DEF ServerOk, StrayIsNone
<1>3. /\ server'.current = p /\ server'.again = server.again /\ Refuses(p)
      /\ server'.proc[p].st \in {"booting", "dead"}
      /\ server'.proc[p].st = "booting" => server'.timers = server.timers /\ server.proc[p].st = "booting"
      /\ \A q \in server'.timers : q \in server.timers \/ q = p
      /\ \A q \in Procs : q # p => server'.proc[q] = server.proc[q]
  BY <1>2, CrashDoes, TooSlowDoes DEF Only
<1>4. \A t \in Tasks : task'[t].pc = "refused" \/ (task'[t] = task[t] /\ ~(task[t].pc = "spawning" /\ task[t].proc = p))
  BY <1>3 DEF Refuses
<1>5. \A t \in Handlers : task[t].pc \notin {"killing", "fork", "gaveUp"}
  BY <1>0, <1>2 DEF ServerOk, StoppedFirst
<1>6. ServerOk'
  <2>1. CurrentLives' /\ StrayIsNone'
    BY <1>2, <1>3 DEF ServerOk, CurrentLives, StrayIsNone
  <2>2. TimerIsOfDead'
    BY <1>1, <1>2, <1>3 DEF ServerOk, TimerIsOfDead
  <2>3. StoppedFirst' /\ BootIsFirst'
    BY <1>0, <1>2, <1>3, <1>4, <1>5 DEF ServerOk, StoppedFirst, BootIsFirst, Resolving
  <2> QED
    BY <1>3, <2>1, <2>2, <2>3 DEF ServerOk
<1>7. ASSUME HandoverOk PROVE HandoverOk'
  <2>1. DyingIsAwaited' /\ NoneIsFooled'
    BY <1>3, <1>5, <1>7 DEF HandoverOk, DyingIsAwaited, NoneIsFooled
  <2>2. \A t \in Handlers : task'[t].pc # "spawning"
    BY <1>0, <1>2, <1>4, <1>7 DEF HandoverOk, SpawningIsCurrent
  <2> QED
    BY <2>1, <2>2 DEF HandoverOk, SpawningIsCurrent
<1> QED
  BY <1>6, <1>7

\* A start failed for good.
LEMMA EndKeeps ==
    ASSUME TInv, ServerOk, NEW t \in Handlers, task[t].pc \in {"gaveUp", "refused"}, Ends(t),
           server'.proc = server.proc, server'.current = server.current,
           server'.timers = server.timers, server'.again = server.again
    PROVE  ServerOk' /\ (HandoverOk => HandoverOk')
<1>0. Handlers \subseteq Tasks /\ "boot" \in Handlers
  BY TasksAre
<1>1. task'[t].pc = "idle" /\ \A u \in Handlers : u # t => task'[u] = task[u]
  BY <1>0 DEF Ends, Becomes
<1>2. ServerOk'
  <2>1. CurrentLives' /\ StrayIsNone' /\ TimerIsOfDead'
    BY DEF ServerOk, CurrentLives, StrayIsNone, TimerIsOfDead
  <2>2. StoppedFirst' /\ BootIsFirst'
    BY <1>0, <1>1 DEF ServerOk, StoppedFirst, BootIsFirst, Resolving
  <2> QED
    BY <2>1, <2>2 DEF ServerOk
<1>3. HandoverOk => HandoverOk'
  <2> SUFFICES ASSUME HandoverOk PROVE HandoverOk'
    OBVIOUS
  <2>1. DyingIsAwaited'
    BY <1>1 DEF HandoverOk, DyingIsAwaited
  <2>2. SpawningIsCurrent'
    BY <1>1 DEF HandoverOk, SpawningIsCurrent
  <2> QED
    BY <2>1, <2>2 DEF HandoverOk, NoneIsFooled
<1> QED
  BY <1>2, <1>3

\* Every step keeps one server; and before a quit it is handed over.
LEMMA ServerKept ==
    ASSUME TInv, QInv, OneAtATime, ServerOk, Orderly, [Next]_vars
    PROVE  ServerOk' /\ (HandoverOk /\ ~app'.quitting => HandoverOk')
<1>0. /\ ~play.together /\ ~play.srv /\ Handlers \subseteq Tasks /\ "boot" \in Handlers
      /\ Saves \subseteq Handlers /\ "boot" \notin Saves /\ "quit" \notin Handlers
  BY TasksAre, DesktopAssumption DEF Orderly, Handlers
<1>1. CASE UNCHANGED vars
  BY <1>1, AsideKeeps DEF vars, Aside
<1>2. CASE \/ \E d \in Dbs : MongoStep(d) \/ CreateFails(d) \/ Hangs(d)
           \/ \E t \in Tasks : Probe(t) \/ GotLocal(t) \/ GotAtlas(t) \/ Unresolved(t)
           \/ Serve("boot") \/ Boot \/ SyncStep \/ QuitStep
           \/ \E kind \in play.kinds : Save(kind)
  BY <1>0, <1>2, ServerLeftAlone, AsideKeeps
<1>3. ASSUME NEW t \in Tasks,
             Serve(t) \/ SafetyNet(t) \/ Fork(t) \/ Refused(t) \/ GaveUp(t), ~Serve("boot")
      PROVE  ServerOk' /\ (HandoverOk => HandoverOk')
  <2>1. t \in Handlers /\ task[t] # Idle
    BY <1>3, QuitOnlyWaits DEF TaskStep
  <2>2. \A u \in Handlers : u # t => task[u] = Idle
    BY <1>0, <2>1, OthersIdle
  <2>3. CASE Serve(t)
    <3>1. t # "boot" /\ Kills /\ Waits(t, task[t].tries) /\ task[t].pc = "serve"
      BY <1>3, <2>3, ServeDoes
    <3> QED
      BY <2>1, <2>2, <3>1, KillKeeps
  <2>4. CASE SafetyNet(t)
    BY <2>1, <2>4, SafetyNetKeeps
  <2>5. CASE Fork(t)
    BY <2>1, <2>2, <2>5, ForkKeeps
  <2>6. CASE Refused(t)
    <3>1. t # "boot" /\ Kills /\ Waits(t, task[t].tries + 1) /\ task[t].pc = "refused"
      BY <1>0, <2>6, RefusedDoes
    <3> QED
      BY <2>1, <2>2, <3>1, KillKeeps
  <2>7. CASE GaveUp(t)
    BY <2>1, <2>7, GaveUpDoes, EndKeeps
  <2> QED
    BY <1>3, <2>3, <2>4, <2>5, <2>6, <2>7
<1>4. ASSUME NEW p \in Procs, ServerStep(p) \/ TooSlow(p) \/ Crash(p)
      PROVE  ServerOk' /\ (HandoverOk => HandoverOk')
  BY <1>0, <1>4, ExitKeeps, ReadyKeeps, TimerKeeps, CrashKeeps DEF ServerStep
<1>5. CASE BootRefused
  BY <1>0, <1>5, BootRefusedDoes, EndKeeps
<1>6. CASE Again
  BY <1>6, AgainDoes DEF ServerOk
<1>7. CASE Quit
  <2>1. /\ Kills /\ app'.quitting /\ \A t \in Handlers : task'[t] = task[t]
    BY <1>0, <1>7, QuitDoes DEF Halted, Becomes
  <2>2. None \notin Procs /\ server'.timers \subseteq Procs
    BY <2>1, DesktopAssumption DEF Kills, TInv, TypeOK, Server
  <2>3. CurrentLives' /\ TimerIsOfDead' /\ StoppedFirst'
    BY <2>1, <2>2 DEF CurrentLives, TimerIsOfDead, StoppedFirst, Kills
  <2>4. BootIsFirst'
    BY <1>0, <2>1 DEF ServerOk, BootIsFirst, Kills
  <2>5. StrayIsNone'
    BY <2>1 DEF ServerOk, StrayIsNone, Kills, Stops
  <2> QED
    BY <2>1, <2>3, <2>4, <2>5 DEF ServerOk, Kills
<1> QED
  BY <1>1, <1>2, <1>3, <1>4, <1>5, <1>6, <1>7 DEF Next, Faults, TaskStep

LEMMA OneServerKept ==
    ASSUME TInv, QInv, OneAtATime, RInv, WInv, [Next]_vars
    PROVE  RInv' /\ WInv'
<1>1. Orderly' => Orderly
  BY PlayMoves DEF Orderly
<1>2. app.quitting => app'.quitting
  BY AppMoves, QuitDoes, QuitStepDoes
<1> QED
  BY <1>1, <1>2, ServerKept DEF RInv, WInv

\* A start that answers before a quit brought up its own server.
LEMMA AnswersItself ==
    ASSUME TInv, QInv, OneAtATime, RInv, WInv, [Next]_vars, Orderly, ~app.quitting,
           NEW p \in Procs, server.proc[p].st = "booting"
    PROVE  server'.proc[p].st # "fooled"
<1>1. CASE Quit
  <2>1. Kills
    BY <1>1, QuitDoes
  <2> QED
    BY <2>1 DEF Kills, Stops
<1>2. CASE ~Quit
  <2>1. ~app'.quitting
    BY <1>2, AppMoves, QuitStepDoes
  <2>2. HandoverOk'
    BY <2>1, ServerKept DEF RInv, WInv
  <2> QED
    BY <2>2 DEF HandoverOk, NoneIsFooled
<1> QED
  BY <1>1, <1>2

-----------------------------------------------------------------------------
(* The database and its handlers.                                          *)

\* Where a handler has to do with the embedded database.
DbPlaces == {"starting", "awaiting", "stopping", "local"}
Elsewhere ==
    \A t \in Handlers :
        task'[t].pc = task[t].pc \/ {task[t].pc, task'[t].pc} \cap DbPlaces = {}

LEMMA ElsewhereKeeps ==
    ASSUME DbOk, UNCHANGED mongo, config'.uri = "local" => config.uri = "local", Elsewhere
    PROVE  DbOk'
<1>1. StartIsHandled'
  BY DEF DbOk, StartIsHandled, Elsewhere, DbPlaces
<1>2. StopIsHandled'
  BY DEF DbOk, StopIsHandled, Elsewhere, DbPlaces
<1>3. NoneAwaits'
  BY DEF DbOk, NoneAwaits, Elsewhere, DbPlaces
<1>4. GotIsUp' /\ StoredIsUp'
  BY DEF DbOk, GotIsUp, StoredIsUp, LocalUp, Elsewhere, DbPlaces
<1> QED
  BY <1>1, <1>2, <1>3, <1>4 DEF DbOk

\* A start by the only handler finds the database up, or none.
LEMMA StartHolds ==
    ASSUME TInv, MInv, DbOk, NEW t \in Handlers, NEW kind, Started(t, kind),
           task[t].pc \in {"idle", "resolve", "probe"}, \A u \in Handlers : u # t => task[u] = Idle,
           config'.uri = config.uri
    PROVE  DbOk'
<1>0. t \in Tasks /\ Handlers \subseteq Tasks
  BY TasksAre
<1>1. /\ ~mongo.starting /\ \A d \in Dbs : mongo.db[d] \notin {"stopping", "hung"}
      /\ \A u \in Handlers : u # t => task'[u].pc = "idle"
  <2>1. \A u \in Handlers : task[u].pc \notin {"starting", "stopping"}
    BY IdleIs
  <2>2. \A u \in Handlers : u # t => task'[u] = task[u]
    BY <1>0 DEF Started, Becomes
  <2> QED
    BY <2>1, <2>2, IdleIs DEF DbOk, StartIsHandled, StopIsHandled
<1>2. CASE mongo.mongod # None /\ mongo.uri
  <2>1. UNCHANGED mongo /\ task'[t].pc = "local"
    BY <1>2 DEF Started, Becomes
  <2>2. LocalUp
    BY <1>1, <1>2 DEF LocalUp, MInv, KnownIsOnly, CreatingIsUnknown, TInv, TypeOK, Mongo
  <2>3. LocalUp'
    BY <2>1, <2>2 DEF LocalUp
  <2>4. StartIsHandled' /\ StopIsHandled' /\ NoneAwaits'
    BY <1>1, <2>1 DEF StartIsHandled, StopIsHandled, NoneAwaits
  <2> QED
    BY <2>3, <2>4 DEF DbOk, GotIsUp, StoredIsUp
<1>3. CASE ~(mongo.mongod # None /\ mongo.uri)
  <2>1. mongo'.starting /\ ~mongo'.shuttingDown /\ task'[t].pc = "starting" /\ mongo.mongod = None
    BY <1>1, <1>3 DEF Started, Becomes, MInv, KnownHasUri
  <2>2. \A d \in Dbs : mongo'.db[d] \in {"none", "creating"}
    BY <1>0, <1>1, <2>1, StartMakesOne
  <2>3. config.uri # "local"
    BY <2>1 DEF DbOk, StoredIsUp, LocalUp
  <2> QED
    BY <1>1, <2>1, <2>2, <2>3
    DEF DbOk, StartIsHandled, StopIsHandled, NoneAwaits, GotIsUp, StoredIsUp
<1> QED
  BY <1>2, <1>3

\* Atlas answers: the only handler stops the database.
LEMMA HaltHolds ==
    ASSUME TInv, MInv, DbOk, NEW t \in Handlers, NEW kind, Halted(t, kind),
           task[t].pc = "probe", \A u \in Handlers : u # t => task[u] = Idle,
           config'.uri = "atlas"
    PROVE  DbOk'
<1>0. t \in Tasks /\ Handlers \subseteq Tasks
  BY TasksAre
<1>1. ~mongo.starting /\ \A u \in Handlers : u # t => task'[u].pc = "idle"
  <2>1. \A u \in Handlers : task[u].pc # "starting"
    BY IdleIs
  <2>2. \A u \in Handlers : u # t => task'[u] = task[u]
    BY <1>0 DEF Halted, Becomes
  <2> QED
    BY <2>1, <2>2, IdleIs DEF DbOk, StartIsHandled
<1>2. ~mongo'.starting
  BY <1>1 DEF Halted
<1>3. CASE mongo.mongod # None
  <2>1. task'[t].pc = "stopping"
    BY <1>1, <1>3 DEF Halted, Becomes
  <2> QED
    BY <1>1, <1>2, <2>1
    DEF DbOk, StartIsHandled, StopIsHandled, NoneAwaits, GotIsUp, StoredIsUp
<1>4. CASE mongo.mongod = None
  <2>1. task'[t].pc = "stopped" /\ \A d \in Dbs : mongo'.db[d] = "none"
    BY <1>1, <1>4 DEF Halted, Becomes, MInv, NoneIsLeft
  <2> QED
    BY <1>1, <1>2, <2>1
    DEF DbOk, StartIsHandled, StopIsHandled, NoneAwaits, GotIsUp, StoredIsUp
<1> QED
  BY <1>3, <1>4

\* What the database does is awaited by the handler that asked for it.
LEMMA DbStepHolds ==
    ASSUME TInv, MInv, QInv, DbOk, ~app.quitting, NEW d \in Dbs,
           MongoStep(d) \/ CreateFails(d) \/ Hangs(d)
    PROVE  DbOk'
<1>0. UNCHANGED <<config, app>> /\ Handlers \subseteq Tasks /\ mongo.mongod \in Dbs \cup {None}
  BY CreatedDoes, StoppedDoes, CreateFailsDoes, HangsDoes, TasksAre
  DEF MongoStep, TInv, TypeOK, Mongo
<1>1. \A t \in Tasks : task[t].pc # "awaiting"
  <2>1. task["quit"] = Idle
    BY DEF QInv, QuitWaits
  <2> QED
    BY <2>1, IdleIs, TasksAre DEF DbOk, NoneAwaits
<1>2. CASE mongo.db[d] = "creating"
  <2>1. /\ mongo.mongod = None /\ mongo.starting /\ ~mongo.shuttingDown /\ ~LocalUp
        /\ \A e \in Dbs : e # d => mongo.db[e] = "none"
    <3>1. mongo.mongod = None /\ mongo.starting
      BY <1>2 DEF MInv, CreatingIsUnknown, NoneIsLeft
    <3>2. PICK o \in Dbs : \A e \in Dbs : e # o => mongo.db[e] = "none"
      BY <3>1 DEF MInv, StartIsOnly
    <3>3. o = d
      BY <1>2, <3>2
    <3> QED
      BY <3>1, <3>2, <3>3 DEF DbOk, StartIsHandled, LocalUp
  <2>2. CASE Created(d)
    <3>1. /\ mongo'.mongod = d /\ mongo'.db[d] = "up" /\ ~mongo'.starting
          /\ \A e \in Dbs : e # d => mongo'.db[e] = "none"
          /\ Resumed("local", "stopping", "stopping")
      <4>1. /\ mongo'.mongod = d /\ \A e \in Dbs : e # d => mongo'.db[e] = mongo.db[e]
            /\ Resumed("local", "stopping", "stopping") /\ ~mongo'.starting
            /\ mongo'.db[d] = IF \E t \in Tasks : task[t].pc = "awaiting" THEN "stopping" ELSE "up"
        BY <2>1, <2>2, CreatedDoes
      <4> QED
        BY <1>1, <2>1, <4>1
    <3>2. LocalUp'
      BY <3>1, DesktopAssumption DEF LocalUp
    <3>3. NoneAwaits'
      BY <1>0, <1>1, <3>1 DEF NoneAwaits, Resumed
    <3>4. StartIsHandled' /\ StopIsHandled'
      BY <3>1 DEF StartIsHandled, StopIsHandled
    <3> QED
      BY <3>2, <3>3, <3>4 DEF DbOk, GotIsUp, StoredIsUp
  <2>3. CASE CreateFails(d)
    <3>1. /\ ~mongo'.starting /\ \A e \in Dbs : mongo'.db[e] = "none"
          /\ Resumed("failed", "stopped", "stopping")
      BY <2>1, <2>3, CreateFailsDoes
    <3>2. \A t \in Handlers : task'[t].pc \notin {"awaiting", "local"}
      BY <1>0, <2>1, <3>1 DEF Resumed, DbOk, GotIsUp
    <3>3. config'.uri # "local"
      BY <1>0, <2>1 DEF DbOk, StoredIsUp
    <3> QED
      BY <3>1, <3>2, <3>3
      DEF DbOk, StartIsHandled, StopIsHandled, NoneAwaits, GotIsUp, StoredIsUp
  <2> QED
    BY <1>2, <2>2, <2>3, StoppedDoes, HangsDoes DEF MongoStep
<1>3. CASE mongo.db[d] = "stopping"
  <2>1. mongo.mongod = d /\ ~LocalUp /\ \A e \in Dbs : e # d => mongo.db[e] = "none"
    <3>1. mongo.mongod # None
      BY <1>3 DEF MInv, NoneIsLeft, StartIsOnly
    <3>2. mongo.mongod = d
      BY <1>3, <3>1 DEF MInv, KnownIsOnly
    <3> QED
      BY <1>3, <3>1, <3>2 DEF MInv, KnownIsOnly, LocalUp
  <2>2. config.uri # "local" /\ \A t \in Handlers : task[t].pc \notin {"awaiting", "local"}
    BY <2>1 DEF DbOk, StoredIsUp, GotIsUp, NoneAwaits
  <2>3. CASE Stopped(d)
    <3>1. /\ ~mongo'.starting /\ \A e \in Dbs : mongo'.db[e] = "none"
          /\ Resumed("failed", "stopped", "stopped")
      BY <2>1, <2>3, StoppedDoes
    <3>2. \A t \in Handlers : task'[t].pc \notin {"awaiting", "local"}
      BY <1>0, <2>2, <3>1 DEF Resumed
    <3> QED
      BY <1>0, <2>2, <3>1, <3>2
      DEF DbOk, StartIsHandled, StopIsHandled, NoneAwaits, GotIsUp, StoredIsUp
  <2>4. CASE Hangs(d)
    <3>1. UNCHANGED task /\ mongo'.starting = mongo.starting /\ mongo'.shuttingDown = mongo.shuttingDown
      BY <2>4, HangsDoes
    <3>2. \E t \in Handlers : task'[t].pc = "stopping"
      BY <1>3, <3>1 DEF DbOk, StopIsHandled
    <3>3. StartIsHandled' /\ NoneAwaits'
      BY <3>1 DEF DbOk, StartIsHandled, NoneAwaits
    <3> QED
      BY <1>0, <2>2, <3>1, <3>2, <3>3 DEF DbOk, StopIsHandled, GotIsUp, StoredIsUp
  <2> QED
    BY <1>3, <2>3, <2>4, CreatedDoes, CreateFailsDoes DEF MongoStep
<1> QED
  BY <1>2, <1>3, CreatedDoes, StoppedDoes, CreateFailsDoes, HangsDoes DEF MongoStep

\* The steps that have to do with neither the database nor its URI.
LEMMA OthersAreElsewhere ==
    ASSUME TInv, QInv,
           \/ \E t \in Tasks : TaskStep(t) /\ ~Probe(t) /\ ~GotLocal(t)
           \/ \E p \in Procs : ServerStep(p) \/ TooSlow(p) \/ Crash(p)
           \/ SyncStep \/ BootRefused \/ Again \/ QuitStep
    PROVE  UNCHANGED mongo /\ config'.uri = config.uri /\ Elsewhere
<1>0. /\ Handlers \subseteq Tasks /\ "quit" \notin Handlers
      /\ \A tries : AfterPc(tries) \in {"gaveUp", "fork"}
  BY TasksAre DEF AfterPc
<1>1. ASSUME NEW t \in Tasks, TaskStep(t), ~Probe(t), ~GotLocal(t)
      PROVE  UNCHANGED mongo /\ config'.uri = config.uri /\ Elsewhere
  <2>1. CASE GotAtlas(t) \/ Unresolved(t)
    <3>1. /\ UNCHANGED <<mongo, config>> /\ task[t].pc \in {"stopped", "failed"}
          /\ task'[t].pc \in {"serve", "idle"} /\ \A u \in Tasks : u # t => task'[u] = task[u]
      BY <2>1, GotAtlasDoes, UnresolvedDoes DEF Becomes
    <3> QED
      BY <1>0, <3>1 DEF Elsewhere, DbPlaces
  <2>2. CASE Serve(t) \/ Refused(t)
    <3>1. /\ UNCHANGED mongo /\ config'.uri = config.uri /\ task[t].pc \in {"serve", "refused"}
          /\ task'[t].pc \in {"fork", "gaveUp", "killing"} /\ \A u \in Tasks : u # t => task'[u] = task[u]
      BY <2>2, ServeDoes, RefusedDoes DEF Waits, Becomes, AfterPc
    <3> QED
      BY <1>0, <3>1 DEF Elsewhere, DbPlaces
  <2>3. CASE SafetyNet(t)
    <3>1. /\ UNCHANGED <<mongo, config>> /\ task[t].pc = "killing" /\ task'[t].pc \in {"fork", "gaveUp"}
          /\ \A u \in Tasks : u # t => task'[u] = task[u]
      BY <2>3, SafetyNetDoes DEF Becomes, AfterPc
    <3> QED
      BY <1>0, <3>1 DEF Elsewhere, DbPlaces
  <2>4. CASE Fork(t) \/ GaveUp(t)
    <3>1. /\ UNCHANGED <<mongo, config>> /\ task[t].pc \in {"fork", "gaveUp"}
          /\ task'[t].pc \in {"spawning", "idle"} /\ \A u \in Tasks : u # t => task'[u] = task[u]
      BY <2>4, ForkDoes, GaveUpDoes DEF Becomes, Ends
    <3> QED
      BY <1>0, <3>1 DEF Elsewhere, DbPlaces
  <2> QED
    BY <1>1, <2>1, <2>2, <2>3, <2>4 DEF TaskStep
<1>2. ASSUME NEW p \in Procs, ServerStep(p) \/ TooSlow(p) \/ Crash(p)
      PROVE  UNCHANGED mongo /\ config'.uri = config.uri /\ Elsewhere
  <2>1. UNCHANGED <<mongo, config>>
    BY <1>2, ExitsDoes, ReadyDoes, TimerDoes, TooSlowDoes, CrashDoes DEF ServerStep
  <2>2. \A t \in Tasks : task'[t] = task[t]
            \/ (task[t].pc \in {"killing", "spawning", "refused"}
                /\ task'[t].pc \in {"fork", "gaveUp", "refused", "idle"})
    <3>1. CASE Exits(p)
      BY <1>0, <3>1, ExitsDoes
    <3>2. CASE Ready(p) \/ Timer(p)
      BY <3>2, ReadyDoes, TimerDoes, IdleIs
    <3>3. CASE TooSlow(p) \/ Crash(p)
      BY <3>3, TooSlowDoes, CrashDoes DEF Refuses
    <3> QED
      BY <1>2, <3>1, <3>2, <3>3 DEF ServerStep
  <2> QED
    BY <1>0, <2>1, <2>2 DEF Elsewhere, DbPlaces
<1>3. CASE BootRefused
  BY <1>0, <1>3, BootRefusedDoes DEF Becomes, Ends, Elsewhere, DbPlaces
<1>4. CASE SyncStep \/ Again \/ QuitStep
  BY <1>4, SyncStepDoes, AgainDoes, QuitStepDoes DEF SyncStep, Elsewhere
<1> QED
  BY <1>1, <1>2, <1>3, <1>4

\* A handler resolves, the others idle.
LEMMA ResolveHolds ==
    ASSUME TInv, MInv, DbOk, NEW t \in Handlers, NEW mode \in Modes, Resolve(t, mode),
           task[t].pc \in {"idle", "resolve"}, \A u \in Handlers : u # t => task[u] = Idle,
           config'.uri = config.uri
    PROVE  DbOk'
<1>0. t \in Tasks /\ Handlers \subseteq Tasks
  BY TasksAre
<1>1. CASE mode = "atlas"
  <2>1. UNCHANGED mongo /\ Becomes(t, "probe", mode, "none", None, 0)
    BY <1>0, <1>1, ResolveDoes
  <2>2. Elsewhere
    BY <1>0, <2>1 DEF Elsewhere, Becomes, DbPlaces
  <2> QED
    BY <2>1, <2>2, ElsewhereKeeps
<1>2. CASE mode # "atlas"
  BY <1>0, <1>2, ResolveDoes, StartHolds
<1> QED
  BY <1>1, <1>2

LEMMA HandledKept ==
    ASSUME TInv, MInv, QInv, OneAtATime, DInv, [Next]_vars
    PROVE  DInv'
<1> SUFFICES ASSUME ~play.together, ~app'.quitting PROVE DbOk'
  BY PlayMoves DEF DInv
<1>0. /\ ~app.quitting /\ DbOk /\ Handlers \subseteq Tasks /\ "boot" \in Handlers
      /\ Saves \subseteq Handlers
  BY TasksAre, AppMoves, QuitDoes, QuitStepDoes DEF DInv, Handlers
<1>1. CASE UNCHANGED vars
  BY <1>0, <1>1, ElsewhereKeeps DEF vars, Elsewhere
<1>2. CASE \E d \in Dbs : MongoStep(d) \/ CreateFails(d) \/ Hangs(d)
  BY <1>0, <1>2, DbStepHolds
<1>3. CASE \/ \E t \in Tasks : TaskStep(t) /\ ~Probe(t) /\ ~GotLocal(t)
           \/ \E p \in Procs : ServerStep(p) \/ TooSlow(p) \/ Crash(p)
           \/ SyncStep \/ BootRefused \/ Again \/ QuitStep
  <2>1. UNCHANGED mongo /\ config'.uri = config.uri /\ Elsewhere
    BY <1>3, OthersAreElsewhere
  <2> QED
    BY <1>0, <2>1, ElsewhereKeeps
<1>4. ASSUME NEW t \in Tasks, Probe(t) \/ GotLocal(t)
      PROVE  DbOk'
  <2>1. t \in Handlers /\ task[t] # Idle
    BY <1>4, QuitOnlyWaits DEF TaskStep
  <2>2. \A u \in Handlers : u # t => task[u] = Idle
    BY <2>1, OthersIdle
  <2>3. CASE Probe(t)
    <3>1. /\ task[t].pc = "probe"
          /\ \/ config'.uri = "atlas" /\ Halted(t, task[t].kind)
             \/ UNCHANGED config /\ Started(t, task[t].kind)
      BY <2>3, ProbeDoes
    <3> DEFINE kind == task[t].kind
    <3>2. /\ task[t].pc = "probe"
          /\ \/ config'.uri = "atlas" /\ Halted(t, kind)
             \/ config'.uri = config.uri /\ Started(t, kind)
      BY <3>1
    <3> HIDE DEF kind
    <3> QED
      BY <1>0, <2>1, <2>2, <3>2, StartHolds, HaltHolds
  <2>4. CASE GotLocal(t)
    <3>1. /\ task[t].pc = "local" /\ UNCHANGED mongo /\ task'[t].pc = "serve"
          /\ \A u \in Tasks : u # t => task'[u] = task[u]
      BY <2>4, GotLocalDoes DEF Becomes
    <3>2. LocalUp'
      BY <1>0, <2>1, <3>1 DEF DbOk, GotIsUp, LocalUp
    <3>3. /\ ~mongo.starting /\ \A d \in Dbs : mongo.db[d] \notin {"stopping", "hung"}
          /\ \A u \in Handlers : task'[u].pc # "awaiting"
      BY <1>0, <2>2, <3>1, IdleIs DEF DbOk, StartIsHandled, StopIsHandled
    <3> QED
      BY <3>1, <3>2, <3>3 DEF DbOk, StartIsHandled, StopIsHandled, NoneAwaits, GotIsUp, StoredIsUp
  <2> QED
    BY <1>4, <2>3, <2>4
<1>5. CASE Boot
  <2>1. /\ task["boot"].pc = "resolve" /\ UNCHANGED config /\ play.mode \in Modes
        /\ Resolve("boot", play.mode)
    BY <1>5, BootDoes
  <2>2. \A u \in Handlers : u # "boot" => task[u] = Idle
    BY <1>0, <2>1, OthersIdle, IdleIs
  <2> QED
    BY <1>0, <2>1, <2>2, ResolveHolds
<1>6. CASE \E kind \in play.kinds : Save(kind)
  <2>1. PICK kind \in play.kinds : Save(kind)
    BY <1>6
  <2>2. PICK t \in Saves : Taken(t) /\ (SavedReset \/ SavedLan(t) \/ SavedMode(t, kind))
    BY <2>1, SaveDoes
  <2>3. t \in Handlers /\ \A u \in Handlers : task[u] = Idle
    BY <1>0, <2>2 DEF Taken, Handlers
  <2>4. CASE SavedReset
    BY <1>0, <2>4, ElsewhereKeeps DEF SavedReset, Elsewhere
  <2>5. CASE SavedLan(t)
    <3>1. Elsewhere /\ UNCHANGED mongo /\ config'.uri = config.uri
      BY <1>0, <2>3, <2>5, IdleIs DEF SavedLan, Becomes, Elsewhere, DbPlaces
    <3> QED
      BY <1>0, <3>1, ElsewhereKeeps
  <2>6. CASE SavedMode(t, kind)
    BY <1>0, <2>3, <2>6, IdleIs, ResolveHolds DEF SavedMode
  <2> QED
    BY <2>2, <2>4, <2>5, <2>6
<1>7. CASE Quit
  BY <1>7, QuitDoes
<1> QED
  BY <1>1, <1>2, <1>3, <1>4, <1>5, <1>6, <1>7 DEF Next, Faults, TaskStep

-----------------------------------------------------------------------------
(* The server and the stored URI.                                          *)

AboutTo == Stoppings \cup {"serve"}
\* Handlers keep their URI or have none, and the stored one is the same.
UrisStay ==
    /\ config'.uri = config.uri
    /\ \A t \in Handlers :
          /\ task'[t].uri \in {"none", task[t].uri}
          /\ task'[t].pc \in Stoppings => task[t].pc \in Stoppings
\* No server, or one with the stored URI, or a handler that is about to replace it, or
\* the server there was.
ServerStays ==
    \/ server'.current = None
    \/ server'.proc[server'.current].uri = config.uri
    \/ \E t \in Handlers : task'[t].pc \in AboutTo
    \/ /\ server'.current = server.current
       /\ server'.proc[server.current].uri = server.proc[server.current].uri
       /\ \A t \in Handlers : task[t].pc \in AboutTo => task'[t].pc \in AboutTo

LEMMA UrisHold ==
    ASSUME UriOk, UrisStay, ServerStays
    PROVE  UriOk'
<1>1. HandlerUri'
  BY DEF UriOk, HandlerUri, UrisStay
<1>2. ServerUri'
  BY DEF UriOk, ServerUri, UrisStay, ServerStays, AboutTo
<1> QED
  BY <1>1, <1>2 DEF UriOk

\* The only handler resolves.
LEMMA ResolveUris ==
    ASSUME TInv, UriOk, NEW t \in Handlers, NEW mode \in Modes, Resolve(t, mode),
           task[t].pc \in {"idle", "resolve"}, \A u \in Handlers : u # t => task[u] = Idle,
           config'.uri = config.uri
    PROVE  UriOk'
<1>0. t \in Tasks /\ Handlers \subseteq Tasks
  BY TasksAre
<1>1. /\ UNCHANGED server /\ task'[t].uri = "none" /\ task'[t].pc \in {"probe", "local", "starting"}
      /\ \A u \in Tasks : u # t => task'[u] = task[u]
  BY <1>0, ResolveDoes DEF Started, Becomes
<1>2. UrisStay
  BY <1>0, <1>1 DEF UrisStay, Stoppings
<1>3. ServerStays
  BY <1>0, <1>1, IdleIs DEF ServerStays, AboutTo, Stoppings
<1> QED
  BY <1>2, <1>3, UrisHold

\* What the database and a resolving handler do.
LEMMA ResolvingUris ==
    ASSUME TInv, QInv, UriOk, OneAtATime, ~play.together,
           \/ \E d \in Dbs : MongoStep(d) \/ CreateFails(d) \/ Hangs(d)
           \/ \E t \in Tasks : Probe(t) \/ GotLocal(t) \/ GotAtlas(t) \/ Unresolved(t)
    PROVE  UriOk'
<1>0. Handlers \subseteq Tasks
  BY TasksAre
<1>1. CASE \E d \in Dbs : MongoStep(d) \/ CreateFails(d) \/ Hangs(d)
  <2>1. PICK d \in Dbs : MongoStep(d) \/ CreateFails(d) \/ Hangs(d)
    BY <1>1
  <2>2. /\ UNCHANGED <<server, config>>
        /\ \/ UNCHANGED task
           \/ Resumed("local", "stopping", "stopping") \/ Resumed("failed", "stopped", "stopping")
           \/ Resumed("failed", "stopped", "stopped")
    BY <2>1, CreatedDoes, StoppedDoes, CreateFailsDoes, HangsDoes DEF MongoStep
  <2>3. \A t \in Tasks : /\ task'[t].uri = task[t].uri
                         /\ task'[t].pc \in Stoppings <=> task[t].pc \in Stoppings
                         /\ task[t].pc = "serve" => task'[t].pc = "serve"
    BY <2>2 DEF Resumed, Stoppings
  <2>4. UrisStay /\ ServerStays
    BY <1>0, <2>2, <2>3 DEF UrisStay, ServerStays, AboutTo
  <2> QED
    BY <2>4, UrisHold
<1>2. ASSUME NEW t \in Tasks, Probe(t) \/ GotLocal(t) \/ GotAtlas(t) \/ Unresolved(t)
      PROVE  UriOk'
  <2>1. t \in Handlers /\ task[t] # Idle /\ UNCHANGED server
    BY <1>2, QuitOnlyWaits, ProbeDoes, GotLocalDoes, GotAtlasDoes, UnresolvedDoes DEF TaskStep
  <2>2. \A u \in Handlers : u # t => task[u] = Idle
    BY <2>1, OthersIdle
  <2>3. CASE Probe(t) /\ config'.uri = "atlas" /\ Halted(t, task[t].kind)
    <3>1. /\ task'[t].uri = "none" /\ task'[t].pc \in Stoppings
          /\ \A u \in Tasks : u # t => task'[u] = task[u]
      BY <2>3 DEF Halted, Becomes, Stoppings
    <3>2. \A u \in Handlers : task'[u].uri = "none"
      BY <1>0, <2>2, <3>1, IdleIs
    <3> QED
      BY <2>1, <2>3, <3>1, <3>2 DEF UriOk, HandlerUri, ServerUri
  <2>4. CASE Probe(t) /\ UNCHANGED config /\ Started(t, task[t].kind)
    <3>1. /\ task[t].pc = "probe" /\ task'[t].uri = "none" /\ task'[t].pc \in {"local", "starting"}
          /\ \A u \in Tasks : u # t => task'[u] = task[u]
      BY <2>4, ProbeDoes DEF Started, Becomes
    <3>2. UrisStay /\ ServerStays
      BY <1>0, <2>1, <2>4, <3>1 DEF UrisStay, ServerStays, AboutTo, Stoppings
    <3> QED
      BY <3>2, UrisHold
  <2>5. CASE GotLocal(t)
    <3>1. /\ config'.uri = "local" /\ task'[t].pc = "serve" /\ task'[t].uri = "local"
          /\ \A u \in Tasks : u # t => task'[u] = task[u]
      BY <2>5, GotLocalDoes DEF Becomes
    <3>2. \A u \in Handlers : u # t => task'[u].uri = "none" /\ task'[u].pc = "idle"
      BY <1>0, <2>2, <3>1, IdleIs
    <3>3. HandlerUri'
      BY <3>1, <3>2 DEF HandlerUri, Stoppings
    <3> QED
      BY <2>1, <3>1, <3>3 DEF UriOk, ServerUri
  <2>6. CASE GotAtlas(t)
    <3>1. /\ UNCHANGED config /\ task[t].pc = "stopped" /\ task'[t].pc = "serve"
          /\ task'[t].uri = "atlas" /\ \A u \in Tasks : u # t => task'[u] = task[u]
      BY <2>6, GotAtlasDoes DEF Becomes
    <3>2. config.uri = "atlas"
      BY <2>1, <3>1 DEF UriOk, HandlerUri, Stoppings
    <3>3. HandlerUri'
      BY <1>0, <3>1, <3>2 DEF UriOk, HandlerUri, Stoppings
    <3> QED
      BY <2>1, <3>1, <3>3 DEF UriOk, ServerUri
  <2>7. CASE Unresolved(t)
    <3>1. /\ UNCHANGED config /\ task[t].pc = "failed" /\ task'[t].pc \in {"serve", "idle"}
          /\ task'[t].uri = "none" /\ \A u \in Tasks : u # t => task'[u] = task[u]
      BY <2>7, UnresolvedDoes DEF Becomes
    <3>2. UrisStay /\ ServerStays
      BY <1>0, <2>1, <3>1 DEF UrisStay, ServerStays, AboutTo, Stoppings
    <3> QED
      BY <3>2, UrisHold
  <2> QED
    BY <1>2, <2>3, <2>4, <2>5, <2>6, <2>7, ProbeDoes
<1> QED
  BY <1>1, <1>2

\* What replaces the server takes the stored URI.
LEMMA ServingUris ==
    ASSUME TInv, UriOk, ServerOk, NEW t \in Handlers,
           Serve(t) \/ SafetyNet(t) \/ Fork(t) \/ Refused(t) \/ GaveUp(t)
    PROVE  UriOk'
<1>0. /\ t \in Tasks /\ Handlers \subseteq Tasks /\ "boot" \in Handlers
      /\ \A tries : AfterPc(tries) \in {"gaveUp", "fork"}
  BY TasksAre DEF AfterPc
<1>1. CASE Serve(t) \/ Refused(t)
  <2>1. /\ config'.uri = config.uri /\ server'.current = None
        /\ task'[t].uri = task[t].uri /\ task'[t].pc \in {"fork", "gaveUp", "killing"}
        /\ \A u \in Tasks : u # t => task'[u] = task[u]
    <3>1. CASE Refused(t)
      BY <1>0, <3>1, RefusedDoes DEF Kills, Waits, Becomes
    <3>2. CASE Serve(t) /\ t # "boot"
      BY <1>0, <3>2, ServeDoes DEF Kills, Waits, Becomes
    <3>3. CASE Serve(t) /\ t = "boot"
      BY <1>0, <3>3, ServeDoes DEF Becomes, ServerOk, BootIsFirst
    <3> QED
      BY <1>1, <3>1, <3>2, <3>3
  <2>2. UrisStay /\ ServerStays
    BY <1>0, <2>1 DEF UrisStay, ServerStays, Stoppings
  <2> QED
    BY <2>2, UrisHold
<1>2. CASE SafetyNet(t) \/ GaveUp(t)
  <2>1. /\ config'.uri = config.uri /\ server.current = None /\ server'.current = None
        /\ task'[t].uri \in {"none", task[t].uri} /\ task'[t].pc \in {"fork", "gaveUp", "idle"}
        /\ \A u \in Tasks : u # t => task'[u] = task[u]
    <3>1. CASE SafetyNet(t)
      BY <1>0, <3>1, SafetyNetDoes DEF Only, Becomes, ServerOk, StoppedFirst
    <3>2. CASE GaveUp(t)
      BY <1>0, <3>2, GaveUpDoes DEF Ends, Becomes, ServerOk, StoppedFirst
    <3> QED
      BY <1>2, <3>1, <3>2
  <2>2. UrisStay /\ ServerStays
    BY <1>0, <2>1 DEF UrisStay, ServerStays, Stoppings
  <2> QED
    BY <2>2, UrisHold
<1>3. CASE Fork(t)
  <2> DEFINE n == NewProc
             uri == IF task[t].uri = "none" THEN config.uri ELSE task[t].uri
  <2>1. /\ UNCHANGED config /\ Forks(n, uri, "task")
        /\ task'[t].pc = "spawning" /\ task'[t].uri = task[t].uri
        /\ \A u \in Tasks : u # t => task'[u] = task[u]
    BY <1>0, <1>3, ForkDoes DEF Becomes
  <2>2. uri = config.uri
    BY DEF UriOk, HandlerUri
  <2> HIDE DEF n, uri
  <2>3. UrisStay
    BY <1>0, <2>1 DEF UrisStay, Stoppings
  <2>4. ServerStays
    BY <2>1, <2>2 DEF ServerStays, Forks
  <2> QED
    BY <2>3, <2>4, UrisHold
<1> QED
  BY <1>1, <1>2, <1>3

LEMMA ProcUris ==
    ASSUME TInv, UriOk, ServerOk, NEW p \in Procs, ServerStep(p) \/ TooSlow(p) \/ Crash(p)
    PROVE  UriOk'
<1>0. /\ Handlers \subseteq Tasks /\ None \notin Procs /\ server.current \in Procs \cup {None}
      /\ \A tries : AfterPc(tries) \in {"gaveUp", "fork"}
  BY TasksAre, DesktopAssumption DEF TInv, TypeOK, Server, AfterPc
<1>1. CASE Exits(p)
  <2>1. \A t \in Tasks : /\ task'[t].uri = task[t].uri
                         /\ \/ task'[t] = task[t]
                            \/ /\ task[t].pc \in {"killing", "spawning", "refused"}
                               /\ task'[t].pc \in {"gaveUp", "fork", "refused"}
    BY <1>0, <1>1, ExitsDoes
  <2>2. /\ UNCHANGED config /\ p # server.current /\ server'.current = server.current
        /\ \A q \in Procs : q # p => server'.proc[q] = server.proc[q]
    BY <1>0, <1>1, ExitsDoes DEF Only, ServerOk, CurrentLives
  <2>3. UrisStay /\ ServerStays
    BY <1>0, <2>1, <2>2 DEF UrisStay, ServerStays, AboutTo, Stoppings
  <2> QED
    BY <2>3, UrisHold
<1>2. CASE Ready(p) \/ TooSlow(p) \/ Crash(p)
  <2>1. \A t \in Tasks : /\ task'[t].uri \in {"none", task[t].uri}
                         /\ \/ task'[t] = task[t]
                            \/ task[t].pc = "spawning" /\ task'[t].pc \in {"idle", "refused"}
    BY <1>2, ReadyDoes, TooSlowDoes, CrashDoes, IdleIs DEF Refuses
  <2>2. server.proc[p].st \in {"booting", "up", "fooled"}
    BY <1>2, ReadyDoes, TooSlowDoes, CrashDoes
  <2>3. /\ UNCHANGED config /\ p = server.current /\ server'.current = server.current
        /\ server'.proc[p].uri = server.proc[p].uri
    BY <1>2, <2>2, ReadyDoes, TooSlowDoes, CrashDoes DEF Only, ServerOk, StrayIsNone
  <2>4. UrisStay /\ ServerStays
    BY <1>0, <2>1, <2>3 DEF UrisStay, ServerStays, AboutTo, Stoppings
  <2> QED
    BY <2>4, UrisHold
<1>3. CASE Timer(p)
  <2> DEFINE n == NewProc
             uri == config.uri
  <2>1. /\ UNCHANGED <<config, task>>
        /\ \/ server'.proc = server.proc /\ server'.current = server.current
           \/ Forks(n, uri, "crash")
    BY <1>3, TimerDoes
  <2>2. uri = config.uri
    OBVIOUS
  <2> HIDE DEF n, uri
  <2>3. UrisStay /\ ServerStays
    BY <2>1, <2>2 DEF UrisStay, ServerStays, Forks
  <2> QED
    BY <2>3, UrisHold
<1> QED
  BY <1>1, <1>2, <1>3 DEF ServerStep

LEMMA UrisKept ==
    ASSUME TInv, QInv, OneAtATime, RInv, UInv, [Next]_vars
    PROVE  UInv'
<1> SUFFICES ASSUME Orderly', ~app'.quitting PROVE UriOk'
  BY DEF UInv
<1>0. /\ Orderly /\ ~play.together /\ ~app.quitting /\ UriOk /\ ServerOk
      /\ Handlers \subseteq Tasks /\ "boot" \in Handlers /\ Saves \subseteq Handlers
  BY TasksAre, PlayMoves, AppMoves, QuitDoes, QuitStepDoes DEF UInv, RInv, Orderly, Handlers
<1>1. CASE UNCHANGED vars
  BY <1>0, <1>1, UrisHold DEF vars, UrisStay, ServerStays
<1>2. CASE \/ \E d \in Dbs : MongoStep(d) \/ CreateFails(d) \/ Hangs(d)
           \/ \E t \in Tasks : Probe(t) \/ GotLocal(t) \/ GotAtlas(t) \/ Unresolved(t)
  BY <1>0, <1>2, ResolvingUris
<1>3. ASSUME NEW t \in Tasks, Serve(t) \/ SafetyNet(t) \/ Fork(t) \/ Refused(t) \/ GaveUp(t)
      PROVE  UriOk'
  BY <1>0, <1>3, QuitOnlyWaits, ServingUris DEF TaskStep
<1>4. CASE \E p \in Procs : ServerStep(p) \/ TooSlow(p) \/ Crash(p)
  BY <1>0, <1>4, ProcUris
<1>5. CASE SyncStep \/ QuitStep
  <2>1. UNCHANGED <<config, server, task>>
    BY <1>5, SyncStepDoes, QuitStepDoes DEF SyncStep
  <2> QED
    BY <1>0, <2>1, UrisHold DEF UrisStay, ServerStays
<1>6. CASE BootRefused
  <2>1. /\ UNCHANGED config /\ server'.proc = server.proc /\ server'.current = server.current
        /\ task["boot"].pc = "refused" /\ task'["boot"] = Idle
        /\ \A u \in Tasks : u # "boot" => task'[u] = task[u]
    BY <1>6, BootRefusedDoes DEF Ends, Becomes
  <2>2. UrisStay /\ ServerStays
    BY <1>0, <2>1, IdleIs DEF UrisStay, ServerStays, AboutTo, Stoppings
  <2> QED
    BY <1>0, <2>2, UrisHold
<1>7. CASE Boot
  <2>1. /\ task["boot"].pc = "resolve" /\ UNCHANGED config /\ play.mode \in Modes
        /\ Resolve("boot", play.mode)
    BY <1>7, BootDoes
  <2>2. \A u \in Handlers : u # "boot" => task[u] = Idle
    BY <1>0, <2>1, OthersIdle, IdleIs
  <2> QED
    BY <1>0, <2>1, <2>2, ResolveUris
<1>8. CASE \E kind \in play.kinds : Save(kind)
  <2>1. PICK kind \in play.kinds : Save(kind)
    BY <1>8
  <2>2. PICK t \in Saves : Taken(t) /\ (SavedReset \/ SavedLan(t) \/ SavedMode(t, kind))
    BY <2>1, SaveDoes
  <2>3. t \in Handlers /\ \A u \in Handlers : task[u] = Idle
    BY <1>0, <2>2 DEF Taken, Handlers
  <2>4. CASE SavedReset
    <3>1. config'.uri = "none" /\ \A u \in Handlers : task'[u].uri = "none" /\ task'[u].pc = "idle"
      BY <1>0, <2>3, <2>4, IdleIs DEF SavedReset
    <3> QED
      BY <3>1 DEF UriOk, HandlerUri, ServerUri, Stoppings
  <2>5. CASE SavedLan(t)
    <3>1. /\ config'.uri = config.uri /\ UNCHANGED server /\ task'[t].pc = "serve" /\ task'[t].uri = "none"
          /\ \A u \in Tasks : u # t => task'[u] = task[u]
      BY <2>5 DEF SavedLan, Becomes
    <3>2. UrisStay /\ ServerStays
      BY <1>0, <2>3, <3>1 DEF UrisStay, ServerStays, AboutTo, Stoppings
    <3> QED
      BY <1>0, <3>2, UrisHold
  <2>6. CASE SavedMode(t, kind)
    BY <1>0, <2>3, <2>6, IdleIs, ResolveUris DEF SavedMode
  <2> QED
    BY <2>2, <2>4, <2>5, <2>6
<1>9. CASE Again \/ Quit
  BY <1>0, <1>9, AgainDoes, QuitDoes DEF ServerOk
<1> QED
  BY <1>1, <1>2, <1>3, <1>4, <1>5, <1>6, <1>7, <1>8, <1>9 DEF Next, Faults, TaskStep

-----------------------------------------------------------------------------
(* What is advertised.                                                     *)

\* Saves that replace the server go on.
ReplacingStays == \A t \in Saves : task[t].pc \in Replacing => task'[t].pc \in Replacing
IntentionalStays ==
    server'.intentional =>
        \/ server.intentional /\ ReplacingStays
        \/ \E t \in Saves : task'[t].pc \in Replacing
KindsStay ==
    /\ play'.kinds = play.kinds
    /\ \A t \in Tasks :
          /\ task'[t].kind = "lan" => task[t].kind = "lan" \/ "lan" \in play.kinds
          /\ task'[t].pc = "gaveUp" => task'[t].tries = 2 \/ task'[t] = task[t]
\* What can still fail, and what did, stay within the bound.
FewStay ==
    /\ play'.kinds = play.kinds /\ play'.fails \in {play.fails, play.fails - 1}
    /\ \A t \in Saves : play'.fails + Refusals(t)' <= play.fails + Refusals(t) \/ Refusals(t)' = 0
MdnsStays ==
    server'.mdns /\ ~IsUp(server.current)' =>
        \/ server.mdns /\ ~IsUp(server.current) /\ ReplacingStays
        \/ \E t \in Saves : task'[t].pc \in Replacing

LEMMA ReplaceHolds ==
    ASSUME ReplaceOk, IntentionalStays, KindsStay
    PROVE  ReplaceOk'
<1>1. IntentionalIsSave'
  BY DEF ReplaceOk, IntentionalIsSave, IntentionalStays, ReplacingStays
<1>2. GaveUpTwice' /\ LanIsAsked'
  BY DEF ReplaceOk, GaveUpTwice, LanIsAsked, KindsStay
<1> QED
  BY <1>1, <1>2 DEF ReplaceOk

LEMMA Counts ==
    ASSUME TInv
    PROVE  /\ play.fails \in Nat
           /\ \A t \in Tasks : Refusals(t) \in Nat /\ task[t].tries \in 0..2
BY DesktopAssumption DEF TInv, TypeOK, Play, Handler, Refusals

LEMMA AdvertHolds ==
    ASSUME TInv, TInv', AdvertOk, FewStay, MdnsStays
    PROVE  AdvertOk'
<1>1. /\ play.fails \in Nat /\ play'.fails \in Nat
      /\ \A t \in Saves : Refusals(t) \in Nat /\ Refusals(t)' \in Nat
  <2>1. \A t \in Tasks : Refusals(t) \in Nat
    BY Counts
  <2>2. play.fails \in Nat /\ play'.fails \in Nat
    BY DesktopAssumption DEF TInv, TypeOK, Play
  <2>3. \A t \in Tasks : Refusals(t)' \in Nat
    BY DEF TInv, TypeOK, Handler, Refusals
  <2> QED
    BY <2>1, <2>2, <2>3, TasksAre
<1>2. FewRefusals'
  <2> SUFFICES ASSUME "lan" \in play'.kinds
               PROVE  play'.fails <= 1 /\ \A t \in Saves : play'.fails + Refusals(t)' <= 1
    BY DEF FewRefusals
  <2>1. play.fails <= 1 /\ \A t \in Saves : play.fails + Refusals(t) <= 1
    BY DEF AdvertOk, FewRefusals, FewStay
  <2>2. play'.fails <= 1
    BY <1>1, <2>1 DEF FewStay
  <2>3. ASSUME NEW t \in Saves PROVE play'.fails + Refusals(t)' <= 1
    <3>1. play.fails + Refusals(t) <= 1
      BY <2>1
    <3>2. play'.fails + Refusals(t)' <= play.fails + Refusals(t) \/ Refusals(t)' = 0
      BY DEF FewStay
    <3> DEFINE r == Refusals(t)
    <3>3. r \in Nat /\ r' \in Nat
      BY <1>1
    <3> HIDE DEF r
    <3>4. play'.fails + r' <= 1
      <4>1. play.fails + r <= 1
        BY <3>1 DEF r
      <4>2. play'.fails + r' <= play.fails + r \/ r' = 0
        BY <3>2 DEF r
      <4> QED
        BY <1>1, <2>2, <3>3, <4>1, <4>2
    <3> QED
      BY <3>4 DEF r
  <2> QED
    BY <2>2, <2>3
<1>3. Advertised'
  <2> SUFFICES ASSUME server'.mdns, ~IsUp(server.current)'
               PROVE  \E t \in Saves : task'[t].pc \in Replacing
    BY DEF Advertised
  <2> QED
    BY DEF AdvertOk, Advertised, MdnsStays, ReplacingStays
<1> QED
  BY <1>2, <1>3 DEF AdvertOk

\* The steps beside the server: nobody of those who replace it moves.
CalmTasks ==
    /\ play'.kinds = play.kinds /\ play'.fails \in {play.fails, play.fails - 1}
    /\ \A t \in Tasks :
          \/ task'[t] = task[t]
          \/ /\ task[t].pc \notin Replacing /\ task'[t].pc \notin {"gaveUp", "refused"}
             /\ t \in Saves => task'[t].tries = 0
             /\ task'[t].kind = "lan" => task[t].kind = "lan" \/ "lan" \in play.kinds

LEMMA CalmKeeps ==
    ASSUME TInv, TInv', UNCHANGED server, CalmTasks, ReplaceOk
    PROVE  ReplaceOk' /\ (AdvertOk => AdvertOk')
<1>0. Saves \subseteq Tasks
  BY TasksAre
<1>1. ReplacingStays
  BY <1>0 DEF CalmTasks, ReplacingStays
<1>2. IntentionalStays /\ KindsStay
  BY <1>1 DEF IntentionalStays, KindsStay, CalmTasks
<1>3. FewStay
  <2>1. ASSUME NEW t \in Saves
        PROVE  play'.fails + Refusals(t)' <= play.fails + Refusals(t) \/ Refusals(t)' = 0
    <3>1. CASE task'[t] = task[t]
      <4>1. Refusals(t)' = Refusals(t)
        BY <3>1 DEF Refusals
      <4>2. Refusals(t) \in Nat /\ play.fails \in Nat
        BY <1>0, Counts
      <4>3. play'.fails \in {play.fails, play.fails - 1}
        BY DEF CalmTasks
      <4> DEFINE r == Refusals(t)
      <4>4. play'.fails + r <= play.fails + r
        <5>1. r \in Nat
          BY <4>2
        <5> HIDE DEF r
        <5> QED
          BY <4>2, <4>3, <5>1
      <4> QED
        BY <4>1, <4>4 DEF r
    <3>2. CASE task'[t] # task[t]
      BY <1>0, <3>2 DEF CalmTasks, Refusals
    <3> QED
      BY <3>1, <3>2
  <2> QED
    BY <2>1 DEF FewStay, CalmTasks
<1>4. MdnsStays
  BY <1>1 DEF MdnsStays, IsUp
<1> QED
  BY <1>2, <1>3, <1>4, ReplaceHolds, AdvertHolds

LEMMA ResolveIsCalm ==
    ASSUME TInv, NEW t \in Handlers, NEW mode \in Modes, Resolve(t, mode), task[t].pc \notin Replacing,
           play'.kinds = play.kinds, play'.fails = play.fails
    PROVE  UNCHANGED server /\ CalmTasks
<1>0. t \in Tasks
  BY TasksAre
<1>1. /\ UNCHANGED server /\ task'[t].pc \notin {"gaveUp", "refused"} /\ task'[t].tries = 0
      /\ task'[t].kind # "lan" /\ \A u \in Tasks : u # t => task'[u] = task[u]
  BY <1>0, ResolveDoes DEF Started, Becomes, Modes
<1> QED
  BY <1>0, <1>1 DEF CalmTasks

LEMMA CalmSteps ==
    ASSUME TInv, QInv,
           \/ \E d \in Dbs : MongoStep(d) \/ CreateFails(d) \/ Hangs(d)
           \/ \E t \in Tasks : Probe(t) \/ GotLocal(t) \/ GotAtlas(t) \/ Unresolved(t)
           \/ Serve("boot") \/ Boot \/ SyncStep \/ QuitStep
           \/ \E kind \in play.kinds : Save(kind)
    PROVE  UNCHANGED server /\ CalmTasks
<1>0. /\ Handlers \subseteq Tasks /\ "boot" \in Handlers /\ "boot" \notin Saves
      /\ Saves \subseteq Handlers
  BY TasksAre, DesktopAssumption DEF Handlers
<1>1. CASE \E d \in Dbs : MongoStep(d) \/ CreateFails(d) \/ Hangs(d)
  <2>1. PICK d \in Dbs : MongoStep(d) \/ CreateFails(d) \/ Hangs(d)
    BY <1>1
  <2>2. /\ UNCHANGED server
        /\ play'.kinds = play.kinds /\ play'.fails \in {play.fails, play.fails - 1}
        /\ \/ UNCHANGED task
           \/ Resumed("local", "stopping", "stopping") \/ Resumed("failed", "stopped", "stopping")
           \/ Resumed("failed", "stopped", "stopped")
    BY <2>1, CreatedDoes, StoppedDoes, CreateFailsDoes, HangsDoes, FailsDoes DEF MongoStep
  <2>3. \A t \in Tasks : task[t].pc \in {"starting", "awaiting", "stopping"} => task[t].tries = 0
    BY DEF TInv, ResolvingFits, Resolving
  <2>4. ASSUME NEW t \in Tasks, task'[t] # task[t]
        PROVE  /\ task[t].pc \in {"starting", "awaiting", "stopping"}
               /\ task'[t].pc \in {"local", "failed", "stopping", "stopped"}
               /\ task'[t].tries = task[t].tries /\ task'[t].kind = task[t].kind
    BY <2>2, <2>4 DEF Resumed
  <2> QED
    BY <2>2, <2>3, <2>4 DEF CalmTasks, Replacing
<1>2. ASSUME NEW t \in Tasks, Probe(t) \/ GotLocal(t) \/ GotAtlas(t) \/ Unresolved(t)
      PROVE  UNCHANGED server /\ CalmTasks
  <2>1. /\ UNCHANGED <<play, server>> /\ task[t].pc \in Resolving
        /\ task'[t].pc \notin {"gaveUp", "refused"} /\ task'[t].tries = 0
        /\ task'[t].kind \in {"none", task[t].kind}
        /\ \A u \in Tasks : u # t => task'[u] = task[u]
    <3>1. CASE Probe(t)
      BY <3>1, ProbeDoes DEF Halted, Started, Becomes, Resolving
    <3>2. CASE GotLocal(t)
      BY <3>2, GotLocalDoes DEF Becomes, Resolving
    <3>3. CASE GotAtlas(t)
      BY <3>3, GotAtlasDoes DEF Becomes, Resolving
    <3>4. CASE Unresolved(t)
      BY <3>4, UnresolvedDoes DEF Becomes, Resolving
    <3> QED
      BY <1>2, <3>1, <3>2, <3>3, <3>4
  <2> QED
    BY <2>1 DEF CalmTasks, Resolving, Replacing
<1>3. CASE Serve("boot")
  <2>1. /\ UNCHANGED <<play, server>> /\ task["boot"].pc = "serve" /\ task'["boot"].pc = "fork"
        /\ task'["boot"].kind = task["boot"].kind /\ \A u \in Tasks : u # "boot" => task'[u] = task[u]
    BY <1>0, <1>3, ServeDoes DEF Becomes
  <2> QED
    BY <1>0, <2>1 DEF CalmTasks, Replacing
<1>4. CASE Boot
  <2>1. /\ task["boot"].pc = "resolve" /\ UNCHANGED play /\ play.mode \in Modes
        /\ Resolve("boot", play.mode)
    BY <1>4, BootDoes
  <2> QED
    BY <1>0, <2>1, ResolveIsCalm DEF Replacing
<1>5. CASE SyncStep \/ QuitStep
  BY <1>5, SyncStepDoes, QuitStepDoes DEF SyncStep, CalmTasks
<1>6. CASE \E kind \in play.kinds : Save(kind)
  <2>1. PICK kind \in play.kinds : Save(kind)
    BY <1>6
  <2>2. PICK t \in Saves : Taken(t) /\ (SavedReset \/ SavedLan(t) \/ SavedMode(t, kind))
    BY <2>1, SaveDoes
  <2>3. /\ t \in Handlers /\ t \in Tasks /\ task[t].pc \notin Replacing
        /\ play'.kinds = play.kinds /\ play'.fails = play.fails
    BY <1>0, <2>2, IdleIs DEF Taken, Replacing
  <2>4. CASE SavedReset
    BY <2>3, <2>4 DEF SavedReset, CalmTasks
  <2>5. CASE SavedLan(t)
    <3>1. /\ UNCHANGED server /\ "lan" \in play.kinds /\ task'[t].pc = "serve" /\ task'[t].tries = 0
          /\ \A u \in Tasks : u # t => task'[u] = task[u]
      BY <2>5 DEF SavedLan, Becomes
    <3> QED
      BY <2>3, <3>1 DEF CalmTasks
  <2>6. CASE SavedMode(t, kind)
    BY <2>3, <2>6, ResolveIsCalm DEF SavedMode
  <2> QED
    BY <2>2, <2>4, <2>5, <2>6
<1> QED
  BY <1>1, <1>2, <1>3, <1>4, <1>5, <1>6

\* The premises under which the advertisement is argued.
AloneOk == ServerOk /\ HandoverOk /\ AdvertOk /\ OneAtATime /\ ~play.together /\ ~app.quitting

\* A save that replaces the server goes on replacing it, with as many refusals.
LEMMA ReplacerKeeps ==
    ASSUME TInv, TInv', ReplaceOk, UNCHANGED play, NEW t \in Saves,
           task'[t].pc \in Replacing, task'[t].kind = task[t].kind,
           task'[t].pc = "gaveUp" => task'[t].tries = 2,
           Refusals(t)' = Refusals(t), \A u \in Tasks : u # t => task'[u] = task[u]
    PROVE  ReplaceOk' /\ (AdvertOk => AdvertOk')
<1>0. Saves \subseteq Tasks
  BY TasksAre
<1>1. IntentionalStays /\ KindsStay /\ MdnsStays
  BY <1>0 DEF IntentionalStays, KindsStay, MdnsStays
<1>2. FewStay
  <2>1. \A u \in Saves : Refusals(u)' = Refusals(u)
    BY <1>0 DEF Refusals
  <2>2. \A u \in Saves : Refusals(u) \in Nat
    BY <1>0, Counts
  <2>3. \A u \in Saves : play.fails + Refusals(u) <= play.fails + Refusals(u)
    <3>1. TAKE u \in Saves
    <3> DEFINE r == Refusals(u)
    <3>2. r \in Nat /\ play.fails \in Nat
      BY <2>2, Counts
    <3> HIDE DEF r
    <3>3. play.fails + r <= play.fails + r
      BY <3>2
    <3> QED
      BY <3>3 DEF r
  <2> QED
    BY <2>1, <2>3 DEF FewStay
<1> QED
  BY <1>1, <1>2, ReplaceHolds, AdvertHolds

\* A save stops the server.
LEMMA StopKeepsAdvert ==
    ASSUME TInv, TInv', ReplaceOk, NEW t \in Saves, Serve(t) \/ Refused(t)
    PROVE  ReplaceOk' /\ (AdvertOk => AdvertOk')
<1>0. t \in Tasks /\ t # "boot"
  BY TasksAre, DesktopAssumption
<1>1. CASE Serve(t)
  <2>1. /\ UNCHANGED play /\ task[t].pc = "serve" /\ Waits(t, task[t].tries)
    BY <1>0, <1>1, ServeDoes
  <2> DEFINE n == task[t].tries
  <2>2. Waits(t, n)
    BY <2>1
  <2>3. n \in 0..2
    BY <1>0, Counts
  <2>4. /\ task'[t].pc \in {"killing", "fork", "gaveUp"} /\ task'[t].kind = task[t].kind
        /\ task'[t].pc = "gaveUp" => n = 2
        /\ task'[t].tries = n /\ \A u \in Tasks : u # t => task'[u] = task[u]
    <3> HIDE DEF n
    <3> QED
      BY <1>0, <2>2 DEF Waits, Becomes, AfterPc
  <2>5. Refusals(t)' = Refusals(t)
    BY <2>1, <2>3, <2>4 DEF Refusals
  <2> QED
    BY <2>1, <2>4, <2>5, ReplacerKeeps DEF Replacing
<1>2. CASE Refused(t)
  <2>1. /\ UNCHANGED play /\ task[t].pc = "refused" /\ Waits(t, task[t].tries + 1)
    BY <1>0, <1>2, RefusedDoes
  <2> DEFINE n == task[t].tries + 1
  <2>2. Waits(t, n)
    BY <2>1
  <2>3. n \in 1..3
    BY <1>0, Counts
  <2>4. /\ task'[t].pc \in {"killing", "fork", "gaveUp"} /\ task'[t].kind = task[t].kind
        /\ task'[t].pc = "gaveUp" => n = 2
        /\ task'[t].tries = n /\ \A u \in Tasks : u # t => task'[u] = task[u]
    <3> HIDE DEF n
    <3> QED
      BY <1>0, <2>2 DEF Waits, Becomes, AfterPc
  <2>5. Refusals(t)' = Refusals(t)
    BY <2>1, <2>3, <2>4 DEF Refusals
  <2>6. task'[t].pc = "gaveUp" => task'[t].tries = 2
    BY <2>4
  <2>7. task'[t].pc \in Replacing
    BY <2>4 DEF Replacing
  <2> HIDE DEF n
  <2> QED
    BY <2>1, <2>4, <2>5, <2>6, <2>7, ReplacerKeeps
<1> QED
  BY <1>1, <1>2

\* A handler goes on after the stop, and forks.
LEMMA ForkKeepsAdvert ==
    ASSUME TInv, TInv', ReplaceOk, NEW t \in Handlers, SafetyNet(t) \/ Fork(t)
    PROVE  ReplaceOk' /\ (AloneOk => AdvertOk')
<1>0. t \in Tasks /\ Saves \subseteq Tasks /\ Saves \subseteq Handlers
  BY TasksAre DEF Handlers
<1>1. /\ UNCHANGED play /\ task[t].pc \in {"killing", "fork"}
      /\ task'[t].pc \in {"fork", "gaveUp", "spawning"} /\ task'[t].kind = task[t].kind
      /\ task'[t].pc = "gaveUp" => task'[t].tries = 2
      /\ task'[t].tries = task[t].tries /\ \A u \in Tasks : u # t => task'[u] = task[u]
      /\ server'.intentional = server.intentional /\ server'.mdns = server.mdns
  BY <1>0, SafetyNetDoes, ForkDoes DEF Becomes, AfterPc, Forks
<1>2. CASE t \in Saves
  <2>1. Refusals(t)' = Refusals(t)
    BY <1>1 DEF Refusals
  <2> QED
    BY <1>1, <1>2, <2>1, ReplacerKeeps DEF Replacing, AloneOk
<1>3. CASE t \notin Saves
  <2>1. ReplacingStays /\ \A u \in Saves : task'[u] = task[u]
    BY <1>0, <1>1, <1>3 DEF ReplacingStays
  <2>2. IntentionalStays /\ KindsStay
    BY <1>1, <2>1 DEF IntentionalStays, KindsStay
  <2>3. ASSUME AloneOk PROVE AdvertOk'
    <3>1. \A u \in Handlers : u # t => task[u] = Idle
      BY <1>1, <2>3, OthersIdle, IdleIs DEF AloneOk
    <3>2. server.current = None
      BY <1>1, <2>3 DEF AloneOk, ServerOk, StoppedFirst
    <3>3. ~server.mdns
      BY <1>0, <1>3, <2>3, <3>1, <3>2, IdleIs DEF AloneOk, AdvertOk, Advertised, IsUp, Replacing
    <3>4. MdnsStays
      BY <1>1, <3>3 DEF MdnsStays
    <3>5. FewRefusals'
      BY <1>1, <2>1, <2>3 DEF AloneOk, AdvertOk, FewRefusals, Refusals
    <3>6. Advertised'
      BY <1>1, <3>3 DEF Advertised
    <3> QED
      BY <3>5, <3>6 DEF AdvertOk
  <2> QED
    BY <2>2, <2>3, ReplaceHolds
<1> QED
  BY <1>2, <1>3

\* A handler ends, its starts refused.
LEMMA EndKeepsAdvert ==
    ASSUME TInv, TInv', ReplaceOk, NEW t \in Handlers, GaveUp(t) \/ (BootRefused /\ t = "boot")
    PROVE  ReplaceOk' /\ (AloneOk => AdvertOk')
<1>0. t \in Tasks /\ Saves \subseteq Tasks /\ "boot" \notin Saves
  BY TasksAre, DesktopAssumption
<1>1. /\ UNCHANGED play /\ task'[t] = Idle /\ \A u \in Tasks : u # t => task'[u] = task[u]
      /\ task[t].pc \in {"gaveUp", "refused"}
  BY <1>0, GaveUpDoes, BootRefusedDoes DEF Ends, Becomes
<1>2. IntentionalStays
  <2>1. CASE GaveUp(t)
    BY <1>0, <2>1, GaveUpDoes DEF IntentionalStays
  <2>2. CASE BootRefused /\ t = "boot"
    BY <1>0, <1>1, <2>2, BootRefusedDoes DEF IntentionalStays, ReplacingStays
  <2> QED
    BY <2>1, <2>2
<1>3. KindsStay
  BY <1>1, IdleIs DEF KindsStay
<1>4. ASSUME AloneOk PROVE AdvertOk'
  <2>1. ~server'.mdns
    <3>1. CASE GaveUp(t)
      <4>1. task[t].pc = "gaveUp" /\ server'.mdns = (task[t].kind = "lan" /\ config.lan)
        BY <1>0, <3>1, GaveUpDoes
      <4>2. t \in Saves
        BY <1>4, <4>1 DEF AloneOk, ServerOk, BootIsFirst, Handlers
      <4>3. task[t].tries = 2 /\ (task[t].kind = "lan" => "lan" \in play.kinds)
        BY <1>0, <4>1 DEF ReplaceOk, GaveUpTwice, LanIsAsked
      <4>4. "lan" \in play.kinds => play.fails + 2 <= 1
        BY <1>4, <4>1, <4>2, <4>3 DEF AloneOk, AdvertOk, FewRefusals, Refusals
      <4>5. play.fails \in Nat
        BY Counts
      <4>6. "lan" \notin play.kinds
        BY <4>4, <4>5
      <4> QED
        BY <4>1, <4>3, <4>6
    <3>2. CASE BootRefused
      BY <3>2, BootRefusedDoes
    <3> QED
      BY <3>1, <3>2
  <2>2. MdnsStays
    BY <2>1 DEF MdnsStays
  <2>3. FewRefusals'
    <3>1. \A u \in Tasks : u # t => Refusals(u)' = Refusals(u)
      BY <1>1 DEF Refusals
    <3>2. Refusals(t)' = 0
      BY <1>1, IdleIs DEF Refusals
    <3>3. play.fails \in Nat
      BY Counts
    <3> QED
      BY <1>0, <1>1, <1>4, <3>1, <3>2, <3>3 DEF AloneOk, AdvertOk, FewRefusals
  <2>4. Advertised'
    BY <2>1 DEF Advertised
  <2> QED
    BY <2>3, <2>4 DEF AdvertOk
<1> QED
  BY <1>2, <1>3, <1>4, ReplaceHolds

\* A process ends, answers, is too slow or crashes, or a restart is due.
LEMMA ExitKeepsAdvert ==
    ASSUME TInv, TInv', ReplaceOk, NEW p \in Procs, Exits(p)
    PROVE  ReplaceOk' /\ (AloneOk => AdvertOk')
<1>0. Saves \subseteq Tasks /\ Saves \subseteq Handlers /\ None \notin Procs
  BY TasksAre, DesktopAssumption DEF Handlers
<1>1. /\ UNCHANGED play /\ server'.intentional = server.intentional /\ server'.mdns = server.mdns
      /\ server.proc[p].st \in {"dying", "killed"} /\ server'.current = server.current
      /\ \A q \in Procs : q # p => server'.proc[q] = server.proc[q]
  BY ExitsDoes DEF Only
<1>2. \A t \in Tasks :
        /\ task'[t].kind = task[t].kind /\ task'[t].tries = task[t].tries
        /\ \/ task'[t] = task[t]
           \/ task[t].pc = "killing" /\ task'[t].pc = AfterPc(task[t].tries)
           \/ task[t].pc = "refused" /\ task'[t].pc = "refused"
           \/ task[t].pc = "spawning" /\ task[t].proc = p /\ task'[t].pc = "refused"
  BY ExitsDoes
<1>3. ReplacingStays /\ KindsStay
  BY <1>0, <1>1, <1>2 DEF ReplacingStays, KindsStay, Replacing, AfterPc
<1>4. IntentionalStays
  BY <1>1, <1>3 DEF IntentionalStays
<1>5. ASSUME AloneOk PROVE AdvertOk'
  <2>1. server.current # p
    BY <1>0, <1>1, <1>5 DEF AloneOk, ServerOk, CurrentLives
  <2>2. IsUp(server.current)' <=> IsUp(server.current)
    BY <1>1, <2>1 DEF IsUp, TInv, TypeOK, Server
  <2>3. \A t \in Saves : Refusals(t)' = Refusals(t)
    BY <1>0, <1>2, <1>5, <2>1 DEF AloneOk, HandoverOk, SpawningIsCurrent, Refusals, AfterPc
  <2>4. FewRefusals'
    BY <1>1, <1>5, <2>3 DEF AloneOk, AdvertOk, FewRefusals
  <2>5. Advertised'
    BY <1>1, <1>3, <1>5, <2>2 DEF AloneOk, AdvertOk, Advertised, ReplacingStays
  <2> QED
    BY <2>4, <2>5 DEF AdvertOk
<1> QED
  BY <1>3, <1>4, <1>5, ReplaceHolds

LEMMA ReadyKeepsAdvert ==
    ASSUME TInv, TInv', ReplaceOk, NEW p \in Procs, Ready(p)
    PROVE  ReplaceOk' /\ (AloneOk => AdvertOk')
<1>0. Saves \subseteq Tasks /\ Saves \subseteq Handlers /\ None \notin Procs
  BY TasksAre, DesktopAssumption DEF Handlers
<1>1. /\ UNCHANGED play /\ server.proc[p].st = "booting" /\ server'.current = server.current
      /\ server'.intentional = (server.intentional
             /\ ~\E t \in Saves : task[t].pc = "spawning" /\ task[t].proc = p)
      /\ \A t \in Tasks : task'[t] = IF task[t].pc = "spawning" /\ task[t].proc = p
                                     THEN Idle ELSE task[t]
  BY ReadyDoes DEF Only
<1>2. IntentionalStays
  BY <1>0, <1>1 DEF IntentionalStays, ReplacingStays
<1>3. KindsStay
  BY <1>1, IdleIs DEF KindsStay
<1>4. ASSUME AloneOk PROVE AdvertOk'
  <2>1. p = server.current /\ server'.proc[p].st = "up"
    BY <1>1, <1>4, ReadyKeeps DEF AloneOk, ServerOk, StrayIsNone
  <2>2. Advertised'
    BY <1>0, <1>1, <2>1 DEF Advertised, IsUp
  <2>3. \A t \in Saves : Refusals(t)' = Refusals(t) \/ Refusals(t)' = 0
    BY <1>0, <1>1, IdleIs DEF Refusals
  <2>4. play.fails \in Nat
    BY Counts
  <2>5. FewRefusals'
    BY <1>1, <1>4, <2>3, <2>4 DEF AloneOk, AdvertOk, FewRefusals
  <2> QED
    BY <2>2, <2>5 DEF AdvertOk
<1> QED
  BY <1>2, <1>3, <1>4, ReplaceHolds

LEMMA CrashKeepsAdvert ==
    ASSUME TInv, TInv', ReplaceOk, NEW p \in Procs, Crash(p) \/ TooSlow(p)
    PROVE  ReplaceOk' /\ (AloneOk => AdvertOk')
<1>0. Saves \subseteq Tasks /\ Saves \subseteq Handlers /\ None \notin Procs
  BY TasksAre, DesktopAssumption DEF Handlers
<1>1. /\ server'.intentional = server.intentional /\ server'.current = server.current /\ Refuses(p)
      /\ play'.kinds = play.kinds
      /\ server.proc[p].st \in {"booting", "up", "fooled"}
      /\ server.proc[p].st # "fooled" => Fails
      /\ server'.mdns => server.mdns /\ (~TakesUp(p) \/ server.proc[p].st = "booting")
  BY CrashDoes, TooSlowDoes, FailsDoes DEF Only
<1>2. \A t \in Tasks :
        /\ task'[t].kind = task[t].kind /\ task'[t].tries = task[t].tries
        /\ task'[t] = task[t] \/ (task[t].pc = "spawning" /\ task'[t].pc = "refused")
  BY <1>1 DEF Refuses
<1>3. ReplacingStays /\ KindsStay
  BY <1>0, <1>1, <1>2 DEF ReplacingStays, KindsStay, Replacing
<1>4. IntentionalStays
  BY <1>1, <1>3 DEF IntentionalStays
<1>5. ASSUME AloneOk PROVE AdvertOk'
  <2>1. p = server.current /\ Fails
    BY <1>1, <1>5 DEF AloneOk, ServerOk, StrayIsNone, HandoverOk, NoneIsFooled
  <2>2. play'.fails = play.fails - 1 /\ play.fails \in Nat
    BY <2>1, FailsDoes, Counts
  <2>3. FewRefusals'
    <3>1. ASSUME NEW t \in Saves
          PROVE  Refusals(t)' \in {Refusals(t), Refusals(t) + 1}
      BY <1>0, <1>2, Counts DEF Refusals
    <3>2. \A t \in Saves : Refusals(t) \in Nat
      BY <1>0, Counts
    <3> SUFFICES ASSUME "lan" \in play'.kinds
                 PROVE  play'.fails <= 1 /\ \A t \in Saves : play'.fails + Refusals(t)' <= 1
      BY DEF FewRefusals
    <3>3. play.fails <= 1 /\ \A t \in Saves : play.fails + Refusals(t) <= 1
      BY <1>1, <1>5 DEF AloneOk, AdvertOk, FewRefusals
    <3>4. ASSUME NEW t \in Saves PROVE play'.fails + Refusals(t)' <= 1
      <4> DEFINE r == Refusals(t)
      <4>1. r \in Nat /\ r' \in {r, r + 1} /\ play.fails + r <= 1
        BY <3>1, <3>2, <3>3
      <4> HIDE DEF r
      <4>2. play'.fails + r' <= 1
        BY <2>2, <4>1
      <4> QED
        BY <4>2 DEF r
    <3> QED
      BY <2>2, <3>3, <3>4
  <2>4. Advertised'
    <3> SUFFICES ASSUME server'.mdns PROVE \E t \in Saves : task'[t].pc \in Replacing
      BY DEF Advertised
    <3>1. \E t \in Saves : task[t].pc \in Replacing
      <4>1. CASE server.proc[p].st = "booting"
        BY <1>1, <1>5, <2>1, <4>1 DEF AloneOk, AdvertOk, Advertised, IsUp
      <4>2. CASE ~TakesUp(p)
        BY <1>5, <2>1, <4>2 DEF AloneOk, TakesUp, ReplaceOk, IntentionalIsSave
      <4> QED
        BY <1>1, <4>1, <4>2
    <3> QED
      BY <1>3, <3>1 DEF ReplacingStays
  <2> QED
    BY <2>3, <2>4 DEF AdvertOk
<1> QED
  BY <1>3, <1>4, <1>5, ReplaceHolds

LEMMA TimerKeepsAdvert ==
    ASSUME TInv, TInv', ReplaceOk, NEW p \in Procs, Timer(p)
    PROVE  ReplaceOk' /\ (AloneOk => AdvertOk')
<1>1. /\ UNCHANGED <<play, task>> /\ server'.intentional = server.intentional
      /\ server'.mdns = server.mdns /\ p \in server.timers
      /\ \/ server'.proc = server.proc /\ server'.current = server.current
         \/ server.current = p
  BY TimerDoes DEF Forks
<1>2. IntentionalStays /\ KindsStay
  BY <1>1 DEF IntentionalStays, ReplacingStays, KindsStay
<1>3. ASSUME AloneOk PROVE AdvertOk'
  <2>1. FewRefusals'
    BY <1>1, <1>3 DEF AloneOk, AdvertOk, FewRefusals, Refusals
  <2>2. server.current = p => ~IsUp(server.current)
    BY <1>1, <1>3 DEF AloneOk, ServerOk, TimerIsOfDead, IsUp
  <2>3. Advertised'
    BY <1>1, <1>3, <2>2 DEF AloneOk, AdvertOk, Advertised, IsUp
  <2> QED
    BY <2>1, <2>3 DEF AdvertOk
<1> QED
  BY <1>2, <1>3, ReplaceHolds

LEMMA AdvertKept ==
    ASSUME TInv, TInv', QInv, OneAtATime, RInv, WInv, AInv, [Next]_vars
    PROVE  AInv'
<1>0. /\ Handlers \subseteq Tasks /\ "boot" \in Handlers /\ "boot" \notin Saves /\ ReplaceOk
      /\ Saves \subseteq Handlers
      /\ \A t \in Handlers : t # "boot" => t \in Saves
  BY TasksAre, DesktopAssumption DEF AInv, Handlers
<1> DEFINE Keeps == ReplaceOk' /\ (AloneOk => AdvertOk')
<1>1. ASSUME UNCHANGED vars PROVE Keeps
  BY <1>0, <1>1, CalmKeeps DEF vars, CalmTasks, AloneOk
<1>2. ASSUME \/ \E d \in Dbs : MongoStep(d) \/ CreateFails(d) \/ Hangs(d)
             \/ \E t \in Tasks : Probe(t) \/ GotLocal(t) \/ GotAtlas(t) \/ Unresolved(t)
             \/ Serve("boot") \/ Boot \/ SyncStep \/ QuitStep
             \/ \E kind \in play.kinds : Save(kind)
      PROVE  Keeps
  <2>1. UNCHANGED server /\ CalmTasks
    BY <1>2, CalmSteps
  <2> QED
    BY <1>0, <2>1, CalmKeeps DEF AloneOk
<1>3. ASSUME NEW t \in Tasks,
             Serve(t) \/ SafetyNet(t) \/ Fork(t) \/ Refused(t) \/ GaveUp(t), ~Serve("boot")
      PROVE  Keeps
  <2>1. t \in Handlers
    BY <1>3, QuitOnlyWaits DEF TaskStep
  <2>2. CASE Serve(t) \/ Refused(t)
    <3>1. t \in Saves
      BY <1>0, <1>3, <2>1, <2>2, RefusedDoes
    <3> QED
      BY <1>0, <2>2, <3>1, StopKeepsAdvert DEF AloneOk
  <2>3. CASE SafetyNet(t) \/ Fork(t)
    BY <1>0, <2>1, <2>3, ForkKeepsAdvert
  <2>4. CASE GaveUp(t)
    BY <1>0, <2>1, <2>4, EndKeepsAdvert
  <2> QED
    BY <1>3, <2>2, <2>3, <2>4
<1>4. ASSUME NEW p \in Procs, ServerStep(p) \/ TooSlow(p) \/ Crash(p)
      PROVE  Keeps
  BY <1>0, <1>4, ExitKeepsAdvert, ReadyKeepsAdvert, CrashKeepsAdvert, TimerKeepsAdvert DEF ServerStep
<1>5. ASSUME BootRefused PROVE Keeps
  BY <1>0, <1>5, EndKeepsAdvert
<1>6. ASSUME Again PROVE Keeps
  <2>1. /\ server.again /\ UNCHANGED <<play, task>> /\ server'.intentional = server.intentional
    BY <1>6, AgainDoes DEF Forks
  <2>2. IntentionalStays /\ KindsStay
    BY <2>1 DEF IntentionalStays, ReplacingStays, KindsStay
  <2> QED
    BY <1>0, <2>1, <2>2, ReplaceHolds DEF AloneOk, ServerOk
<1>7. CASE Quit
  <2>1. /\ UNCHANGED play /\ server'.intentional = server.intentional /\ app'.quitting
        /\ \A t \in Handlers : task'[t] = task[t]
        /\ task'["quit"].kind = "none" /\ task'["quit"].pc # "gaveUp"
    BY <1>7, TasksAre, QuitDoes DEF Halted, Becomes
  <2>2. IntentionalStays /\ KindsStay
    BY <1>0, <2>1, TasksAre DEF IntentionalStays, ReplacingStays, KindsStay
  <2> QED
    BY <1>0, <2>1, <2>2, ReplaceHolds DEF AInv
<1>8. Keeps \/ Quit
  BY <1>1, <1>2, <1>3, <1>4, <1>5, <1>6, <1>7 DEF Next, Faults, TaskStep
<1>9. ASSUME ~Quit, Orderly', ~app'.quitting PROVE AloneOk
  <2>1. Orderly /\ ~app.quitting
    BY <1>9, PlayMoves, AppMoves, QuitStepDoes DEF Orderly
  <2> QED
    BY <2>1 DEF AloneOk, Orderly, RInv, WInv, AInv
<1>10. CASE ~Quit
  BY <1>8, <1>9, <1>10 DEF AInv
<1> QED
  BY <1>7, <1>10

-----------------------------------------------------------------------------
(* At the start, the boot has everything to do.                            *)

\* Something may go wrong once at most in a play in which sharing is toggled: what the
\* network hears after two refused starts is not the setting (README, section 6).
FewFailures == \A p \in Plays : "lan" \in p.kinds => p.fails <= 1

LEMMA InitIs ==
    ASSUME Init
    PROVE  /\ play \in Plays /\ play \in Play
           /\ \A t \in Handlers : t # "boot" => task[t] = Idle
           /\ task["boot"].pc = "resolve" /\ task["boot"].uri = "none"
           /\ \A t \in Tasks : task[t].kind # "lan" /\ task[t].tries = 0 /\ task[t].pc \in {"idle", "resolve"}
           /\ config.uri \in {"atlas", "stale"} /\ config.mode # "none"
<1>1. play \in Plays /\ play \in Play
  BY DesktopAssumption DEF Init
<1>2. play.mode \in Modes
  BY <1>1 DEF Play
<1>3. \A t \in Tasks : task[t] = IF t = "boot" THEN [Idle EXCEPT !.pc = "resolve", !.kind = play.mode]
                                 ELSE Idle
  BY DEF Init
<1>4. /\ task["boot"].pc = "resolve" /\ task["boot"].uri = "none"
      /\ task["boot"].kind = play.mode /\ task["boot"].tries = 0
  BY <1>3, TasksAre DEF Idle
<1>5. \A t \in Tasks : t # "boot" => task[t] = Idle
  BY <1>3
<1>6. config.uri \in {"atlas", "stale"} /\ config.mode # "none"
  BY <1>2 DEF Init, Modes
<1> QED
  BY <1>1, <1>2, <1>4, <1>5, <1>6, TasksAre, IdleIs DEF Modes

LEMMA InitServices == Init => LetGo /\ OneAtATime /\ OInv
<1> SUFFICES ASSUME Init PROVE LetGo /\ OneAtATime /\ OInv
  OBVIOUS
<1>1. \A s \in Services : sync.svc[s].st = "none" /\ sync.svc[s].cycle = "none"
  BY DEF Init
<1>2. LetGo /\ NoneActive
  BY <1>1 DEF LetGo, NoneActive
<1>3. OneAtATime
  BY InitIs DEF OneAtATime
<1>4. OInv
  BY <1>2, InitIs, IdleIs DEF OInv, ProbeIsOff, NoModeIsOff, AtlasIsOff
<1> QED
  BY <1>2, <1>3, <1>4

LEMMA InitServer == Init => RInv /\ WInv /\ UInv
<1> SUFFICES ASSUME Init PROVE RInv /\ WInv /\ UInv
  OBVIOUS
<1>0. Handlers \subseteq Tasks /\ "boot" \in Handlers
  BY TasksAre
<1>1. /\ server.current = None /\ server.timers = {} /\ ~server.again
      /\ \A p \in Procs : server.proc[p].st = "none"
  BY DEF Init, NoProc
<1>2. \A t \in Handlers : task[t].pc \in {"idle", "resolve"} /\ task[t].uri = "none"
  BY <1>0, InitIs, IdleIs
<1>3. ServerOk
  BY <1>0, <1>1, <1>2
  DEF ServerOk, CurrentLives, StrayIsNone, TimerIsOfDead, StoppedFirst, BootIsFirst
<1>4. HandoverOk
  BY <1>1, <1>2 DEF HandoverOk, DyingIsAwaited, SpawningIsCurrent, NoneIsFooled
<1>5. UriOk
  BY <1>1, <1>2 DEF UriOk, HandlerUri, ServerUri, Stoppings
<1> QED
  BY <1>3, <1>4, <1>5 DEF RInv, WInv, UInv

LEMMA InitHandled == Init => DInv
<1> SUFFICES ASSUME Init PROVE DbOk
  BY DEF DInv
<1>1. ~mongo.starting /\ \A d \in Dbs : mongo.db[d] = "none"
  BY DEF Init
<1>2. \A t \in Handlers : task[t].pc \in {"idle", "resolve"}
  BY TasksAre, InitIs
<1> QED
  BY <1>1, <1>2, InitIs DEF DbOk, StartIsHandled, StopIsHandled, NoneAwaits, GotIsUp, StoredIsUp

LEMMA InitAdvert == FewFailures /\ Init => AInv
<1> SUFFICES ASSUME FewFailures, Init PROVE AInv
  OBVIOUS
<1>1. ~server.intentional /\ ~server.mdns
  BY DEF Init
<1>2. ReplaceOk
  BY <1>1, InitIs DEF ReplaceOk, IntentionalIsSave, GaveUpTwice, LanIsAsked
<1>3. \A t \in Saves : Refusals(t) = 0
  BY TasksAre, InitIs DEF Refusals
<1>4. play.fails \in Nat
  BY InitIs, DesktopAssumption DEF Play
<1>5. AdvertOk
  BY <1>1, <1>3, <1>4, InitIs DEF AdvertOk, FewRefusals, Advertised, FewFailures
<1> QED
  BY <1>2, <1>5 DEF AInv

-----------------------------------------------------------------------------
(* The properties.                                                         *)

LEMMA KnownIsOne == TInv /\ MInv => OneDatabase
<1> SUFFICES ASSUME TInv, MInv PROVE OneDatabase
  OBVIOUS
<1> DEFINE alive == {d \in Dbs : mongo.db[d] # "none"}
<1>1. CASE \E d \in Dbs : mongo.db[d] # "none"
  <2>1. \E d \in Dbs : alive = {d}
    <3>1. CASE mongo.mongod # None
      <4>1. mongo.mongod \in Dbs
        BY <3>1 DEF TInv, TypeOK, Mongo
      <4>2. alive = {mongo.mongod}
        BY <3>1, <4>1 DEF MInv, KnownIsOnly
      <4> QED
        BY <4>1, <4>2
    <3>2. CASE mongo.mongod = None
      <4>1. mongo.starting
        BY <1>1, <3>2 DEF MInv, NoneIsLeft
      <4>2. PICK d \in Dbs : mongo.db[d] = "creating" /\ \A e \in Dbs : e # d => mongo.db[e] = "none"
        BY <3>2, <4>1 DEF MInv, StartIsOnly
      <4>3. alive = {d}
        BY <4>2
      <4> QED
        BY <4>3
    <3> QED
      BY <3>1, <3>2
  <2>2. PICK d \in Dbs : alive = {d}
    BY <2>1
  <2>3. Cardinality(alive) = 1
    BY <2>2, FS_Singleton
  <2> QED
    BY <2>3 DEF OneDatabase
<1>2. CASE \A d \in Dbs : mongo.db[d] = "none"
  <2>1. alive = {}
    BY <1>2
  <2>2. Cardinality(alive) = 0
    BY <2>1, FS_EmptySet
  <2> QED
    BY <2>2 DEF OneDatabase
<1> QED
  BY <1>1, <1>2

LEMMA DoneIsNoOrphan == QInv => NoOrphan
BY DEF QInv, EndIsTold, ShutDownIsDone, NoOrphan

LEMMA StrayIsNoStray == RInv => NoStrayServer
BY DEF RInv, ServerOk, StrayIsNone, NoStrayServer

LEMMA RestIsOff == OInv => SwitchedOff
BY DEF OInv, AtRest, NoModeIsOff, AtlasIsOff, NoneActive, SwitchedOff

LEMMA RestIsServed == UInv /\ DInv => ServesItsDatabase
<1> SUFFICES ASSUME UInv, DInv, AtRest, Orderly, IsUp(server.current), config.uri # "none"
             PROVE  /\ server.proc[server.current].uri = config.uri
                    /\ server.proc[server.current].uri = "local" => LocalUp
  BY DEF ServesItsDatabase
<1>1. \A t \in Handlers : task[t].pc = "idle"
  BY TasksAre, IdleIs DEF AtRest
<1>2. server.proc[server.current].uri = config.uri
  BY <1>1 DEF UInv, UriOk, ServerUri, AtRest, IsUp, Stoppings
<1>3. config.uri = "local" => LocalUp
  BY DEF DInv, DbOk, StoredIsUp, AtRest, Orderly
<1> QED
  BY <1>2, <1>3

LEMMA RestIsAdvertised == AInv => AdvertisesLiving
<1> SUFFICES ASSUME AInv, AtRest, Orderly, server.mdns, ~IsUp(server.current) PROVE FALSE
  BY DEF AdvertisesLiving
<1>1. PICK t \in Saves : task[t].pc \in Replacing
  BY DEF AInv, AdvertOk, Advertised, AtRest
<1>2. task[t] = Idle
  BY TasksAre DEF AtRest
<1> QED
  BY <1>1, <1>2, IdleIs DEF Replacing

LEMMA ServerMeansIt ==
    ASSUME TInv, QInv, OneAtATime, RInv, WInv, LetGo, [Next]_vars
    PROVE  /\ [\A p \in Procs : Orderly /\ ~app.quitting /\ server.proc[p].st = "booting" => server'.proc[p].st # "fooled"]_vars
           /\ [\A s \in Services : sync.svc[s].cycle = "open" /\ sync'.svc[s].cycle = "copy" /\ sync.current # s
                 => sync.svc[s].st = "active"]_vars
BY AnswersItself, LeftAlone

-----------------------------------------------------------------------------
(* The theorems.                                                           *)

\* Every variable keeps its type, whatever overlaps and fails.
THEOREM Typed == Spec => []TypeOK
<1>1. Init => TInv
  BY InitTypes
<1>2. TInv /\ [Next]_vars => TInv'
  BY TypesKept
<1>3. TInv => TypeOK
  BY DEF TInv
<1> QED
  BY <1>1, <1>2, <1>3, PTL DEF Spec

\* However boot, saves and quit overlap, at most one embedded database is alive
\* (local-mongo.ts: a start shares the start under way and waits for a stop).
THEOREM OneDatabaseEver == Spec => []OneDatabase
<1>1. Init => TInv /\ MInv
  BY InitTypes, InitDb
<1>2. TInv /\ MInv /\ [Next]_vars => (TInv /\ MInv)'
  BY TypesKept, DbKept
<1>3. TInv /\ MInv => OneDatabase
  BY KnownIsOne
<1> QED
  BY <1>1, <1>2, <1>3, PTL DEF Spec

\* A shutdown that is through leaves no embedded database behind, unless a request
\* asked for one once the quit had begun (main.ts: before-quit).
THEOREM NoOrphanLeft == Spec => []NoOrphan
<1>1. Init => TInv /\ MInv /\ QInv
  BY InitTypes, InitDb, InitQuit
<1>2. TInv /\ MInv /\ QInv /\ [Next]_vars => (TInv /\ MInv /\ QInv)'
  BY TypesKept, DbKept, QuitKept
<1>3. QInv => NoOrphan
  BY DoneIsNoOrphan
<1> QED
  BY <1>1, <1>2, <1>3, PTL DEF Spec

\* What is known of the handlers, the services, the database and the server.
HInv == TInv /\ MInv /\ QInv /\ LetGo /\ OneAtATime /\ OInv /\ RInv /\ WInv /\ DInv /\ UInv

LEMMA HandlersKept ==
    /\ Init => HInv
    /\ HInv /\ [Next]_vars => HInv'
<1>1. Init => HInv
  BY InitTypes, InitDb, InitQuit, InitServices, InitServer, InitHandled DEF HInv
<1>2. HInv /\ [Next]_vars => HInv'
  BY TypesKept, DbKept, QuitKept, LetGoKept, OneAtATimeKept, OffKept, OneServerKept,
     HandledKept, UrisKept DEF HInv
<1> QED
  BY <1>1, <1>2

\* Without overlapping saves, and without a look-up before a restart, no server runs
\* beside the current one, whenever it crashes, answers or exits.
THEOREM NoStray == Spec => []NoStrayServer
<1>1. HInv => NoStrayServer
  BY StrayIsNoStray DEF HInv
<1> QED
  BY <1>1, HandlersKept, PTL DEF Spec

\* At rest a server that is up has the stored URI, and a local one has its database.
THEOREM ServesItsOwn == Spec => []ServesItsDatabase
<1>1. HInv => ServesItsDatabase
  BY RestIsServed DEF HInv
<1> QED
  BY <1>1, HandlersKept, PTL DEF Spec

\* At rest on Atlas alone or without a mode, no service syncs.
THEOREM OffIsOff == Spec => []SwitchedOff
<1>1. HInv => SwitchedOff
  BY RestIsOff DEF HInv
<1> QED
  BY <1>1, HandlersKept, PTL DEF Spec

\* A start that is taken for a success is one, and a service that was let go of begins
\* no collection.
THEOREM HandoverHolds == Spec => Handover
<1>1. HInv /\ [Next]_vars =>
         /\ [\A p \in Procs : Orderly /\ ~app.quitting /\ server.proc[p].st = "booting" => server'.proc[p].st # "fooled"]_vars
         /\ [\A s \in Services : sync.svc[s].cycle = "open" /\ sync'.svc[s].cycle = "copy" /\ sync.current # s
               => sync.svc[s].st = "active"]_vars
  BY ServerMeansIt DEF HInv
<1> QED
  BY <1>1, HandlersKept, PTL DEF Spec, Handover, SuccessIsServed, AbandonedIsLeft

\* The processes and the settings belong together: all that the run checks of every
\* state, for plays that toggle sharing with one failure at most.
THEOREM Safe == ASSUME FewFailures PROVE Spec => []Inv
<1>1. Init => HInv /\ AInv
  BY HandlersKept, InitAdvert
<1>2. HInv /\ AInv /\ [Next]_vars => (HInv /\ AInv)'
  BY HandlersKept, TypesKept, AdvertKept DEF HInv
<1>3. HInv /\ AInv => Inv
  BY KnownIsOne, DoneIsNoOrphan, StrayIsNoStray, RestIsServed, RestIsAdvertised, RestIsOff
  DEF HInv, Inv, TInv
<1> QED
  BY <1>1, <1>2, <1>3, PTL DEF Spec
=============================================================================
