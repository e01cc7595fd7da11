------------------------------- MODULE Desktop -------------------------------
(***************************************************************************)
(* The desktop application's processes (electron/main.ts): the embedded    *)
(* database (local-mongo.ts), the embedded web server with its restarts    *)
(* after a crash, the sync service of the connection mode                  *)
(* (sync-service.ts), and the requests that switch them: boot, saves of    *)
(* the settings, reset and quit.  A handler runs to its next await; what   *)
(* it awaits may end in any order, and may fail.                           *)
(*                                                                         *)
(* The application is packaged and has an Atlas URI.  Windows, NFC and the *)
(* updater are left out; a cycle of a service is a sequence of collections.*)
(***************************************************************************)
EXTENDS Naturals, FiniteSets

CONSTANTS
    Saves,          \* saves that may be in flight together
    Dbs, Procs, Services,   \* slots for processes and service objects
    None,
    MaxRestarts,    \* MAX_SERVER_RESTARTS
    Plays,          \* what is allowed to happen, see Play
    MaxBudget       \* bound on a play's saves and failures

Modes == {"offline", "hybrid", "atlas"}
Tasks == Saves \cup {"boot", "quit"}

\* mode, lan: the stored settings.  saves: how many are made, of which kinds ("lan"
\* toggles sharing), and whether they overlap.  srv: an Atlas URI is looked up in
\* the DNS before a server starts.  fails: how often something goes wrong.  ends:
\* the application may be quit.
Play == [mode : Modes, lan : BOOLEAN, saves : 0..MaxBudget,
         kinds : SUBSET (Modes \cup {"lan", "reset"}), together : BOOLEAN,
         srv : BOOLEAN, fails : 0..MaxBudget, ends : BOOLEAN]

ASSUME DesktopAssumption ==
    /\ MaxRestarts \in Nat /\ MaxBudget \in Nat
    /\ Plays \subseteq Play /\ Dbs # {}
    /\ {"boot", "quit"} \cap Saves = {}
    /\ None \notin Dbs \cup Procs \cup Services

VARIABLES
    play,
    config,     \* the store: connectionMode, mongodbUri, exposeToLan
    mongo,      \* local-mongo.ts, and the processes it started
    server,     \* the server processes, and the state main.ts keeps of them
    sync,       \* `syncService`, and the services that were made
    task,       \* the handlers in flight
    app         \* isQuitting, finished (and by the timer), the process is gone;
                \* late (history): a database was asked for once the quit began

vars == <<play, config, mongo, server, sync, task, app>>

Idle == [pc |-> "idle", kind |-> "none", uri |-> "none", proc |-> None, tries |-> 0]
NoProc == [st |-> "none", uri |-> "none", by |-> "none"]

Init ==
    /\ play \in Plays
    /\ config = [mode |-> play.mode, lan |-> play.lan,
                 uri |-> IF play.mode = "atlas" THEN "atlas" ELSE "stale"]
    /\ mongo = [db |-> [d \in Dbs |-> "none"], mongod |-> None, uri |-> FALSE,
                starting |-> FALSE, shuttingDown |-> FALSE]
    /\ server = [proc |-> [p \in Procs |-> NoProc], current |-> None, restarts |-> 0,
                 timers |-> {}, again |-> FALSE, intentional |-> FALSE, mdns |-> FALSE]
    /\ sync = [current |-> None,
               svc |-> [s \in Services |-> [st |-> "none", cycle |-> "none", aborted |-> FALSE]]]
    /\ task = [t \in Tasks |-> IF t = "boot" THEN [Idle EXCEPT !.pc = "resolve", !.kind = play.mode]
                               ELSE Idle]
    /\ app = [quitting |-> FALSE, finished |-> "no", gone |-> FALSE, late |-> FALSE]

At(t, pc) == ~app.gone /\ task[t].pc = pc
\* t goes on as k, to pc.
Goto(t, k, pc) == task' = [task EXCEPT ![t] = [k EXCEPT !.pc = pc]]
Fails == play.fails > 0 /\ play' = [play EXCEPT !.fails = @ - 1]

\* Tasks that wait at a place in the domain of `to` go on where it says.
Resume(to) == task' = [t \in Tasks |->
    IF task[t].pc \in DOMAIN to THEN [task[t] EXCEPT !.pc = to[task[t].pc]] ELSE task[t]]

-----------------------------------------------------------------------------
(* The embedded database.                                                  *)

NewDb == CHOOSE d \in Dbs : mongo.db[d] = "none"

\* A start finds the database up, or shares the start under way, or makes one.
ShareNothing(d) == [mongo.db EXCEPT ![d] = "creating"]     \* mutant: before #681
Share(d) == IF mongo.starting THEN mongo.db ELSE [mongo.db EXCEPT ![d] = "creating"]

Start(t, k) ==
    /\ app' = [app EXCEPT !.late = @ \/ app.quitting]
    /\ IF mongo.mongod # None /\ mongo.uri
       THEN Goto(t, k, "local") /\ UNCHANGED mongo
       ELSE /\ mongo' = [mongo EXCEPT !.shuttingDown = FALSE, !.starting = TRUE, !.db = Share(NewDb)]
            /\ Goto(t, k, "starting")

\* A stop waits for the start under way, then stops what came of it.
AwaitsStartNever(m) == FALSE    \* mutant: before #900
AwaitsStart(m) == m.starting

Stop(t, k) ==
    LET stops == mongo.mongod # None /\ ~AwaitsStart(mongo) IN
    /\ mongo' = [mongo EXCEPT !.shuttingDown = TRUE, !.db =
            IF stops /\ @[mongo.mongod] # "hung" THEN [@ EXCEPT ![mongo.mongod] = "stopping"] ELSE @]
    /\ Goto(t, k, IF stops THEN "stopping" ELSE IF AwaitsStart(mongo) THEN "awaiting" ELSE "stopped")

\* create() resolves.  If a stop began and no start since, the database is stopped
\* at once; a stop that waited for the start stops it now.
Created(d) ==
    /\ ~app.gone /\ mongo.db[d] = "creating"
    /\ IF mongo.shuttingDown
       THEN /\ mongo' = [mongo EXCEPT !.db[d] = "stopping", !.mongod = d]
            /\ UNCHANGED task
       ELSE /\ mongo' = [mongo EXCEPT !.mongod = d, !.uri = TRUE, !.starting = FALSE,
                            !.db[d] = IF \E t \in Tasks : task[t].pc = "awaiting"
                                      THEN "stopping" ELSE "up"]
            /\ Resume([starting |-> "local", awaiting |-> "stopping"])
    /\ UNCHANGED <<play, config, server, sync, app>>

CreateFails(d) ==
    /\ ~app.gone /\ mongo.db[d] = "creating" /\ Fails
    /\ mongo' = [mongo EXCEPT !.db[d] = "none", !.starting = FALSE]
    /\ Resume([starting |-> "failed", awaiting |-> "stopped"])
    /\ UNCHANGED <<config, server, sync, app>>

Stopped(d) ==
    /\ ~app.gone /\ mongo.db[d] = "stopping"
    /\ mongo' = [mongo EXCEPT !.db[d] = "none", !.mongod = None, !.uri = FALSE, !.starting = FALSE]
    /\ Resume([starting |-> "failed", awaiting |-> "stopped", stopping |-> "stopped"])
    /\ UNCHANGED <<play, config, server, sync, app>>

\* mongod.stop() never resolves: whoever awaits it waits for good.
Hangs(d) ==
    /\ ~app.gone /\ mongo.db[d] = "stopping" /\ Fails
    /\ mongo' = [mongo EXCEPT !.db[d] = "hung"]
    /\ UNCHANGED <<config, server, sync, task, app>>

LocalUp == mongo.mongod # None /\ mongo.db[mongo.mongod] = "up"

-----------------------------------------------------------------------------
(* Sync services.                                                          *)

DestroyTimer(svc, s) ==     \* mutant: the cycle under way goes on (before #823)
    IF s = None THEN svc ELSE [svc EXCEPT ![s].st = "destroyed"]
Destroy(svc, s) ==
    IF s = None THEN svc ELSE [svc EXCEPT ![s].st = "destroyed", ![s].aborted = TRUE]

\* initSyncService: the periodic sync runs its first cycle at once.
FreeServices == {x \in Services :
    (sync.svc[x].st # "active" \/ x = sync.current) /\ sync.svc[x].cycle = "none"}
InitSync ==
    LET svc == Destroy(sync.svc, sync.current)
        s == CHOOSE x \in FreeServices : TRUE
    IN  sync' = [current |-> s,
                 svc |-> [svc EXCEPT ![s] = [st |-> "active", cycle |-> "open", aborted |-> FALSE]]]

DropSync == sync' = [current |-> None, svc |-> Destroy(sync.svc, sync.current)]

SetCycle(s, cycle) ==
    /\ sync' = [sync EXCEPT !.svc[s].cycle = cycle]
    /\ UNCHANGED <<play, config, mongo, server, task, app>>

\* The interval; or trigger-sync, which asks whatever `syncService` holds.
Cycle(s) ==
    /\ ~app.gone /\ sync.svc[s].cycle = "none"
    /\ sync.svc[s].st = "active" \/ sync.current = s
    /\ sync' = [sync EXCEPT !.svc[s].cycle = "open", !.svc[s].aborted = FALSE]
    /\ UNCHANGED <<play, config, mongo, server, task, app>>

Collection(s) ==
    /\ ~app.gone /\ sync.svc[s].cycle = "open" /\ ~sync.svc[s].aborted /\ LocalUp
    /\ SetCycle(s, "copy")
CollectionDone(s) ==
    ~app.gone /\ sync.svc[s].cycle = "copy" /\ LocalUp /\ SetCycle(s, "open")
\* The cycle is through, is aborted, or fails.
EndCycle(s) ==
    ~app.gone /\ sync.svc[s].cycle \in {"open", "copy"} /\ SetCycle(s, "none")

-----------------------------------------------------------------------------
(* resolveMongoUri, called by the boot and by a save of the connection.    *)

TearsDownOffline == {"offline"}     \* mutant: Atlas mode leaves the old service on (#672)
TearsDown == {"offline", "atlas"}

Resolve(t, mode) ==
    LET k == [Idle EXCEPT !.kind = mode] IN
    /\ IF mode \in TearsDown THEN DropSync ELSE UNCHANGED sync
    /\ IF mode = "atlas" THEN Goto(t, k, "probe") /\ UNCHANGED <<mongo, app>> ELSE Start(t, k)
    /\ UNCHANGED server

Boot == At("boot", "resolve") /\ Resolve("boot", play.mode) /\ UNCHANGED <<play, config>>

\* Atlas answers and the embedded database is stopped; or it does not: fall back.
Probe(t) ==
    /\ At(t, "probe")
    /\ \/ config' = [config EXCEPT !.uri = "atlas"] /\ Stop(t, task[t]) /\ UNCHANGED app
       \/ Start(t, task[t]) /\ UNCHANGED config
    /\ UNCHANGED <<play, server, sync>>

StoreLocalNot == UNCHANGED config       \* mutant: the resolved URI is not stored
StoreLocal == config' = [config EXCEPT !.uri = "local"]

GotLocal(t) ==
    /\ At(t, "local")
    /\ StoreLocal
    /\ IF task[t].kind = "offline" THEN UNCHANGED sync
       ELSE FreeServices # {} /\ InitSync       \* bound
    /\ task' = [task EXCEPT ![t].pc = "serve", ![t].uri = "local"]
    /\ UNCHANGED <<play, mongo, server, app>>

GotAtlas(t) ==
    /\ t # "quit" /\ At(t, "stopped")
    /\ task' = [task EXCEPT ![t].pc = "serve", ![t].uri = "atlas"]
    /\ UNCHANGED <<play, config, mongo, server, sync, app>>

\* No database: a save ends, its mode stored; the boot serves the setup page.
Unresolved(t) ==
    /\ At(t, "failed")
    /\ task' = [task EXCEPT ![t] = IF t = "boot" THEN [@ EXCEPT !.pc = "serve"] ELSE Idle]
    /\ UNCHANGED <<play, config, mongo, server, sync, app>>

-----------------------------------------------------------------------------
(* The server.                                                             *)

\* "fooled": it has not the port, another answered.  "dying" and "killed": stopped,
\* with and without the port.  "dead": it crashed and is still the current one.
HoldsPort(p) == server.proc[p].st \in {"up", "dying"}

\* stopServer: the variable first, then the process.
Killing(sv) ==
    LET p == sv.current IN
    IF p = None THEN sv
    ELSE [sv EXCEPT !.current = None, !.proc[p].st =
            CASE @ = "dead" -> "dead" [] @ = "up" -> "dying" [] OTHER -> "killed"]
\* After the stop: to the fork, or, with both attempts failed, to the end.
AfterKill(k) == [k EXCEPT !.pc = IF k.tries = 2 THEN "gaveUp" ELSE "fork", !.proc = None]
StoppingHasty(k) == AfterKill(k)    \* mutant: the exit is not awaited (before #718)
Stopping(k) ==
    IF server.current = None THEN AfterKill(k)
    ELSE [k EXCEPT !.pc = "killing", !.proc = server.current]

\* A save stops the server first and says so; the boot has none to stop.
Serve(t) ==
    /\ At(t, "serve")
    /\ IF t = "boot" THEN Goto(t, task[t], "fork") /\ UNCHANGED server
       ELSE /\ server' = Killing([server EXCEPT !.intentional = TRUE])
            /\ task' = [task EXCEPT ![t] = Stopping(@)]
    /\ UNCHANGED <<play, config, mongo, sync, app>>

Exits(p) ==
    /\ ~app.gone /\ server.proc[p].st \in {"dying", "killed"}
    /\ server' = [server EXCEPT !.proc[p] = NoProc]
    /\ task' = [t \in Tasks |-> IF task[t].proc # p THEN task[t]
                                ELSE IF task[t].pc = "killing" THEN AfterKill(task[t])
                                ELSE [task[t] EXCEPT !.pc = "refused"]]
    /\ UNCHANGED <<play, config, mongo, sync, app>>

\* Nothing exits when the handle was of a dead process: a timer goes on instead.
SafetyNetNone(t) == FALSE           \* mutant: the caller waits for an exit for good
SafetyNet(t) ==
    /\ At(t, "killing") /\ server.proc[task[t].proc].st = "dead"
    /\ server' = [server EXCEPT !.proc[task[t].proc] = NoProc]
    /\ task' = [task EXCEPT ![t] = AfterKill(@)]
    /\ UNCHANGED <<play, config, mongo, sync, app>>

FreeProcs == {p \in Procs : server.proc[p].st = "none" /\ p \notin server.timers}
NewProc == CHOOSE p \in FreeProcs : TRUE
Forked(sv, uri, by) ==
    LET p == sv.current
        proc == IF p # None /\ sv.proc[p].st = "dead" THEN [sv.proc EXCEPT ![p] = NoProc] ELSE sv.proc
    IN  [sv EXCEPT !.proc = [proc EXCEPT ![NewProc] = [st |-> "booting", uri |-> uri, by |-> by]],
                   !.current = NewProc]

\* startProductionServer: the URI it was given, else the stored one.
Fork(t) ==
    /\ At(t, "fork") /\ FreeProcs # {}       \* bound
    /\ server' = Forked(server, IF task[t].uri = "none" THEN config.uri ELSE task[t].uri, "task")
    /\ task' = [task EXCEPT ![t].pc = "spawning", ![t].proc = NewProc]
    /\ UNCHANGED <<play, config, mongo, sync, app>>

\* The port answers; if another process holds it, that one does, and p is fooled:
\* it will end for want of the port.  A start that answered is a success.
Ready(p) ==
    LET waits == {t \in Tasks : task[t].pc = "spawning" /\ task[t].proc = p}
        free == ~\E q \in Procs \ {p} : HoldsPort(q)
    IN
    /\ ~app.gone /\ server.proc[p].st = "booting"
    /\ server' = [server EXCEPT
            !.proc[p].st = IF free THEN "up" ELSE "fooled",
            !.restarts = IF server.proc[p].by = "none" THEN @ ELSE 0,
            !.intentional = @ /\ waits \cap Saves = {},
            !.mdns = IF server.proc[p].by = "none" THEN @ ELSE config.lan]
    /\ task' = [t \in Tasks |-> IF t \in waits THEN Idle ELSE task[t]]
    /\ UNCHANGED <<play, config, mongo, sync, app>>

\* The wait for an answer times out; the process lives on.
TooSlow(p) ==
    /\ ~app.gone /\ server.proc[p].st = "booting" /\ server.proc[p].by # "none" /\ Fails
    /\ server' = [server EXCEPT !.proc[p].by = "none"]
    /\ task' = [t \in Tasks |-> IF task[t].pc = "spawning" /\ task[t].proc = p
                                THEN [task[t] EXCEPT !.pc = "refused"] ELSE task[t]]
    /\ UNCHANGED <<config, mongo, sync, app>>

\* The exit handler takes up a crash of the current server, unless a handler of
\* ours is restarting it or the application quits.
UnadvertisedLate == server.mdns     \* mutant: advertised until the restart (before #723)
Unadvertised == FALSE
MayRestartOnce == server.restarts <= MaxRestarts   \* mutant: one restart too many
MayRestart == server.restarts < MaxRestarts
TakesUp(p) == ~app.quitting /\ ~server.intentional /\ server.current = p
Crash(p) ==
    /\ ~app.gone
    /\ \/ server.proc[p].st \in {"booting", "up"} /\ Fails
       \/ server.proc[p].st = "fooled" /\ UNCHANGED play
    /\ server' = [server EXCEPT
            !.proc[p] = IF server.current = p THEN [@ EXCEPT !.st = "dead", !.by = "none"] ELSE NoProc,
            !.mdns = IF TakesUp(p) THEN Unadvertised ELSE @,
            !.restarts = IF TakesUp(p) /\ MayRestart THEN @ + 1 ELSE @,
            !.timers = IF TakesUp(p) /\ MayRestart THEN @ \cup {p} ELSE @]
    /\ task' = [t \in Tasks |-> IF task[t].pc = "spawning" /\ task[t].proc = p
                                THEN [task[t] EXCEPT !.pc = "refused"] ELSE task[t]]
    /\ UNCHANGED <<config, mongo, sync, app>>

\* The back-off is over.  The look-up of an SRV URI takes time before the fork.
StillCurrentUnseen(p) == TRUE       \* mutant: no second look (before #315)
StillCurrent(p) == server.current = p
Timer(p) ==
    LET rest == [server EXCEPT !.timers = @ \ {p}] IN
    /\ ~app.gone /\ p \in server.timers /\ FreeProcs # {}       \* bound
    /\ server' = IF app.quitting \/ ~StillCurrent(p) THEN rest
                 ELSE IF play.srv /\ config.uri = "atlas" THEN [rest EXCEPT !.again = TRUE]
                 ELSE Forked(rest, config.uri, "crash")
    /\ UNCHANGED <<play, config, mongo, sync, task, app>>

Again ==
    /\ ~app.gone /\ server.again /\ FreeProcs # {}       \* bound
    /\ server' = Forked([server EXCEPT !.again = FALSE], "atlas", "crash")
    /\ UNCHANGED <<play, config, mongo, sync, task, app>>

\* A start failed.  A save stops what is left and tries once more; a toggle takes
\* its setting back first.  After the second failure it only stops.
Refused(t) ==
    /\ t \in Saves /\ At(t, "refused")
    /\ server' = Killing(server)
    /\ task' = [task EXCEPT ![t] = Stopping([@ EXCEPT !.tries = task[t].tries + 1])]
    /\ config' = [config EXCEPT !.lan = IF task[t].kind = "lan" /\ task[t].tries = 0 THEN ~@ ELSE @]
    /\ UNCHANGED <<play, mongo, sync, app>>

\* A save of the connection ends the advertisement; a toggle sets it as stored.
GaveUp(t) ==
    /\ At(t, "gaveUp")
    /\ server' = [server EXCEPT !.intentional = FALSE, !.mdns = task[t].kind = "lan" /\ config.lan]
    /\ task' = [task EXCEPT ![t] = Idle]
    /\ UNCHANGED <<play, config, mongo, sync, app>>

BootRefused ==
    /\ At("boot", "refused")
    /\ server' = [server EXCEPT !.mdns = FALSE]
    /\ task' = [task EXCEPT !["boot"] = Idle]
    /\ UNCHANGED <<play, config, mongo, sync, app>>

-----------------------------------------------------------------------------
(* Requests.                                                               *)

\* save-config and reset-config; the window opens when the boot is through.
Save(kind) ==
    LET t == CHOOSE x \in Saves : task[x] = Idle IN
    /\ \E x \in Saves : task[x] = Idle        \* bound
    /\ ~app.gone /\ play.saves > 0 /\ kind \in play.kinds
    /\ task["boot"] = Idle
    /\ play.together \/ \A x \in Saves : task[x] = Idle
    /\ play' = [play EXCEPT !.saves = @ - 1]
    /\ CASE kind = "reset" ->
                /\ config' = [config EXCEPT !.mode = "none", !.uri = "none"]
                /\ DropSync /\ UNCHANGED <<task, mongo, server, app>>
         [] kind = "lan" ->
                /\ config' = [config EXCEPT !.lan = ~@]
                /\ Goto(t, [Idle EXCEPT !.kind = kind], "serve")
                /\ UNCHANGED <<sync, mongo, server, app>>
         [] OTHER -> config' = [config EXCEPT !.mode = kind] /\ Resolve(t, kind)

\* before-quit: the server is killed, the service destroyed and the database
\* stopped; `syncService` keeps the destroyed service.
Quit ==
    /\ ~app.gone /\ play.ends /\ ~app.quitting
    /\ app' = [app EXCEPT !.quitting = TRUE]
    /\ server' = [Killing(server) EXCEPT !.mdns = FALSE]
    /\ sync' = [sync EXCEPT !.svc = Destroy(@, sync.current)]
    /\ Stop("quit", Idle)
    /\ UNCHANGED <<play, config>>

Finish(how) ==
    /\ app.finished = "no" /\ app' = [app EXCEPT !.finished = how]
    /\ UNCHANGED <<play, config, mongo, server, sync, task>>
ShutDown == At("quit", "stopped") /\ Finish("stopped")
QuitTimerNone == FALSE      \* mutant: a hung stop strands the quit (before #316)
QuitTimer == app.quitting /\ Finish("timer")

Exit ==
    /\ ~app.gone /\ app.finished # "no" /\ app' = [app EXCEPT !.gone = TRUE]
    /\ UNCHANGED <<play, config, mongo, server, sync, task>>

MongoStep(d) == Created(d) \/ Stopped(d)
TaskStep(t) ==
    Probe(t) \/ GotLocal(t) \/ GotAtlas(t) \/ Unresolved(t)
        \/ Serve(t) \/ SafetyNet(t) \/ Fork(t) \/ Refused(t) \/ GaveUp(t)
ServerStep(p) == Exits(p) \/ Ready(p) \/ Timer(p)
QuitStep == ShutDown \/ QuitTimer \/ Exit
Faults ==
    \/ \E d \in Dbs : CreateFails(d) \/ Hangs(d)
    \/ \E p \in Procs : TooSlow(p) \/ Crash(p)
SyncStep == \E s \in Services : Cycle(s) \/ Collection(s) \/ CollectionDone(s) \/ EndCycle(s)

Next ==
    \/ \E d \in Dbs : MongoStep(d)
    \/ \E t \in Tasks : TaskStep(t)
    \/ \E p \in Procs : ServerStep(p)
    \/ Boot \/ BootRefused \/ Again
    \/ SyncStep
    \/ \E kind \in play.kinds : Save(kind)
    \/ Quit \/ QuitStep
    \/ Faults

Spec == Init /\ [][Next]_vars

\* Processes come up and end, timers fire, and handlers run to their ends.
FairSpec ==
    /\ Spec
    /\ \A d \in Dbs : WF_vars(MongoStep(d))
    /\ \A t \in Tasks : WF_vars(TaskStep(t))
    /\ \A p \in Procs : WF_vars(ServerStep(p))
    /\ WF_vars(Boot \/ BootRefused \/ Again) /\ WF_vars(QuitStep)

-----------------------------------------------------------------------------
(* Properties.                                                             *)

AtRest == ~app.quitting /\ \A t \in Tasks : task[t] = Idle
\* Nothing forks beside a save: no overlapping saves, no look-up before the fork of
\* a restart.
Orderly == ~play.together /\ ~play.srv
IsUp(p) == p # None /\ server.proc[p].st = "up"

Uris == {"none", "stale", "local", "atlas"}
Config == [mode : Modes \cup {"none"}, lan : BOOLEAN, uri : Uris]
Mongo == [db : [Dbs -> {"none", "creating", "up", "stopping", "hung"}],
          mongod : Dbs \cup {None}, uri : BOOLEAN, starting : BOOLEAN, shuttingDown : BOOLEAN]
Proc == [st : {"none", "booting", "up", "fooled", "dying", "killed", "dead"}, uri : Uris,
         by : {"none", "task", "crash"}]
Server == [proc : [Procs -> Proc], current : Procs \cup {None}, restarts : 0..MaxRestarts,
           timers : SUBSET Procs, again : BOOLEAN, intentional : BOOLEAN, mdns : BOOLEAN]
Service == [st : {"none", "active", "destroyed"}, cycle : {"none", "open", "copy"},
            aborted : BOOLEAN]
Handler == [pc : {"idle", "resolve", "probe", "starting", "local", "awaiting", "stopping",
                  "stopped", "failed", "serve", "killing", "fork", "spawning", "refused", "gaveUp"},
            kind : Modes \cup {"none", "lan"}, uri : {"none", "local", "atlas"},
            proc : Procs \cup {None}, tries : 0..2]

\* Every variable has its type.
TypeOK ==
    /\ play \in Play /\ config \in Config /\ mongo \in Mongo /\ server \in Server
    /\ sync \in [current : Services \cup {None}, svc : [Services -> Service]]
    /\ task \in [Tasks -> Handler]
    /\ app \in [quitting : BOOLEAN, finished : {"no", "stopped", "timer"},
                gone : BOOLEAN, late : BOOLEAN]

\* However boot, saves and quit overlap, at most one embedded database is alive:
\* two would fight for the data directory (local-mongo.ts, #681).
OneDatabase == Cardinality({d \in Dbs : mongo.db[d] # "none"}) <= 1

\* An application that ended because its shutdown was through, and that asked for
\* no database after the quit began, leaves no embedded database behind, not one
\* whose start was under way either (#900, #914).
NoOrphan ==
    app.gone /\ app.finished = "stopped" /\ ~app.late => \A d \in Dbs : mongo.db[d] = "none"

\* Every server process is the current one or is on its way out: a crash's restart
\* never leaves one beside the server of a save (#315, #901).
NoStrayServer ==
    Orderly => \A p \in Procs :
        server.proc[p].st \in {"booting", "up", "fooled"} => p = server.current

\* At rest a server that is up has the database of the settings, and that database
\* is up: a save never leaves a server on the database it switched off.
ServesItsDatabase ==
    AtRest /\ Orderly /\ IsUp(server.current) /\ config.uri # "none" =>
        LET uri == server.proc[server.current].uri IN
        /\ uri = config.uri
        /\ uri = "local" => LocalUp

\* A start that is taken for a success brought up its own server: the answer was
\* not the stopped one's (#718).
SuccessIsServed ==
    [][\A p \in Procs : Orderly /\ ~app.quitting /\ server.proc[p].st = "booting" => server'.proc[p].st # "fooled"]_vars

\* At rest, with the mode and the stored URI on Atlas alone, no service syncs the
\* embedded database (#672).
SwitchedOff ==
    AtRest /\ ~play.together /\ (config.mode = "none" \/ (config.mode = "atlas" /\ config.uri = "atlas")) =>
        \A s \in Services : sync.svc[s].st # "active"

\* A service that main.ts let go of begins no further collection (#823).
AbandonedIsLeft ==
    [][\A s \in Services :
          sync.svc[s].cycle = "open" /\ sync'.svc[s].cycle = "copy" /\ sync.current # s
             => sync.svc[s].st = "active"]_vars

\* At rest the network hears of a server only while it is up (#723).
AdvertisesLiving == AtRest /\ Orderly /\ server.mdns => IsUp(server.current)

\* What the code does not keep once requests overlap (README, section 6).  No server
\* runs beside the current one, even when saves overlap or a restart looks up an address.
NoStrayEver ==
    \A p \in Procs : server.proc[p].st \in {"booting", "up", "fooled"} => p = server.current
\* A server that is up at rest on the embedded database has it, whatever overlapped.
DatabaseIsThere ==
    AtRest /\ IsUp(server.current) /\ server.proc[server.current].uri = "local" => LocalUp
\* A shutdown that is through leaves no database, whatever was asked for meanwhile (#914).
NoOrphanEver == app.gone /\ app.finished = "stopped" => \A d \in Dbs : mongo.db[d] = "none"

\* A quit ends the application, even when the database never stops (#316).
QuitEnds == app.quitting ~> app.gone

\* A save ends, unless it waits for a stop of the database that hangs.
SavesEnd ==
    \A t \in Saves : (task[t] # Idle) ~>
        (task[t] = Idle \/ app.gone \/ \E d \in Dbs : mongo.db[d] = "hung")

\* The processes and the settings: one database, one server, and they belong together.
Inv ==
    /\ TypeOK /\ OneDatabase /\ NoOrphan
    /\ NoStrayServer /\ ServesItsDatabase /\ AdvertisesLiving /\ SwitchedOff

\* What replaces a server or a service is not taken for what it replaces.
Handover == SuccessIsServed /\ AbandonedIsLeft

\* Every handler ends, whatever hangs or fails.
HandlersEnd == QuitEnds /\ SavesEnd
=============================================================================
