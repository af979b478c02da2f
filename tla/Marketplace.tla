----------------------------- MODULE Marketplace -----------------------------
(***************************************************************************)
(* The container apps of the marketplace: state.json and compose.json of   *)
(* each app, its containers, and the lock marketplaceMu, which a request   *)
(* tries to take and hands to the background job it starts.                *)
(*                                                                         *)
(* The state of the app is read before the lock is tried.  The job unlocks *)
(* when its work returns; the handler unlocks when the registry refused    *)
(* the job, and sync.Once keeps the two from unlocking twice.  The job     *)
(* registry itself is the module Jobs: here it accepts or refuses.         *)
(***************************************************************************)
EXTENDS Naturals, FiniteSets

CONSTANTS
  Handlers,    \* concurrent requests, each with the job it starts
  Apps,        \* apps of the catalogue
  Ports,       \* ports a request may ask for
  Panels       \* the panels that are checked, see Panel

\* What may happen at a panel: the requests at a time, whether they are for
\* different apps, the apps and ports they ask for, whether the disk may refuse a
\* write, and the bound on its stops.
Panel == [handlers : SUBSET Handlers, apart : BOOLEAN, apps : SUBSET Apps, ports : SUBSET Ports,
          writesFail : BOOLEAN, crashes : Nat]

ASSUME MarketplaceAssumption == Apps # {} /\ Ports \subseteq Nat \ {0} /\ Panels \subseteq Panel

VARIABLES
  state,      \* state.json of each app; port 0 when there is none
  compose,    \* the port in compose.json of each app; 0 when there is none
  rollback,   \* apps with a rollback.json
  containers, \* the containers of each app
  locked,     \* marketplaceMu
  reqs,       \* what each request and its job are doing
  removed,    \* apps that an uninstall has taken away and no install brought back; no code reads it
  panel,      \* one of Panels
  crashes

files == <<state, compose, rollback>>
env == <<panel, crashes>>
vars == <<files, containers, locked, reqs, removed, env>>

-----------------------------------------------------------------------------
(* Data *)

Actions == {"install", "update", "uninstall", "start", "stop", "restart", "rollback"}
State == [port : Ports \cup {0}, installed : BOOLEAN]
NoState == [port |-> 0, installed |-> FALSE]

Request == [step : {"idle", "locking", "prepare", "save", "submit", "answer", "answered"},
            job : {"none", "queued", "recording", "returned", "over"}, released : BOOLEAN,
            app : Apps, action : Actions, port : Ports \cup {0}, seen : State]

Idle == [step |-> "idle", job |-> "none", released |-> FALSE, app |-> CHOOSE a \in Apps : TRUE,
         action |-> "install", port |-> 0, seen |-> NoState]

Goto(h, step) == reqs' = [reqs EXCEPT ![h].step = step]
Drop(h) == reqs' = [reqs EXCEPT ![h] = Idle]

\* A port that net.Listen or docker would find taken; port 0 never is.
Busy(port, apps) == \E a \in apps : containers[a] = "running" /\ compose[a] = port

\* What docker compose does to the containers of an app: they run after up
\* unless their port is taken, and a failure may leave any of it half done.
Up(a) ==
  LET others == Apps \ {a} IN
  [ok : {FALSE}, to : {containers[a], "stopped"}] \cup
  IF Busy(compose[a], others) THEN {} ELSE [ok : BOOLEAN, to : {"running"}]

Outcomes(a, action) ==
  CASE action \in {"install", "start", "update"} -> Up(a)
    [] action = "rollback" -> IF a \in rollback THEN Up(a) ELSE [ok : {FALSE}, to : {containers[a]}]
    [] action = "restart" -> IF containers[a] = "absent" THEN [ok : {FALSE}, to : {"absent"}] ELSE Up(a)
    [] action = "stop" -> [ok : {FALSE}, to : {containers[a]}]
                            \cup [ok : {TRUE}, to : {containers[a], "stopped"} \ {"running"}]
    [] action = "uninstall" -> [ok : {FALSE}, to : {containers[a]}] \cup [ok : {TRUE}, to : {"absent"}]

-----------------------------------------------------------------------------
(* handleMarketplaceAction *)

\* The state as the request finds it; the lock comes later.
Read(h, a, action, port) ==
  /\ reqs[h].step = "idle"
  /\ panel.apart => \A g \in Handlers \ {h} : reqs[g] = Idle \/ reqs[g].app # a
  /\ reqs' = [reqs EXCEPT ![h] = [Idle EXCEPT !.step = "locking", !.app = a, !.action = action,
                                              !.port = port, !.seen = state[a]]]
  /\ UNCHANGED <<files, containers, locked, removed, env>>

Fits(req) == (req.action = "install") # req.seen.installed

\* Under the lock the state may no longer fit (409), or marketplaceCompose refuse
\* the request (400); both answers give the lock back.
TryLock(h) ==
  /\ reqs[h].step = "locking"
  /\ \/ locked /\ Drop(h) /\ UNCHANGED <<locked, removed>>
     \/ ~locked /\ Drop(h) /\ UNCHANGED <<locked, removed>>
     \/ ~locked /\ Fits(reqs[h]) /\ locked' = TRUE
        /\ Goto(h, IF reqs[h].action = "install" THEN "prepare" ELSE "submit")
        /\ removed' = IF reqs[h].action = "install" THEN removed \ {reqs[h].app} ELSE removed
  /\ UNCHANGED <<files, containers, env>>

\* An app that was installed before keeps its compose file and its port.
PortFor(req) == IF compose[req.app] # 0 THEN req.seen.port ELSE req.port

\* The port is tried and compose.json is written; any failure unlocks.
Prepare(h) ==
  LET req == reqs[h]  port == PortFor(req) IN
  /\ req.step = "prepare"
  /\ \/ Drop(h) /\ locked' = FALSE /\ UNCHANGED compose
     \/ /\ ~Busy(port, Apps)
        /\ compose' = IF compose[req.app] # 0 THEN compose ELSE [compose EXCEPT ![req.app] = port]
        /\ reqs' = [reqs EXCEPT ![h].step = "save", ![h].seen = [port |-> port, installed |-> FALSE]]
        /\ UNCHANGED locked
  /\ UNCHANGED <<state, rollback, containers, removed, env>>

SaveState(h) ==
  /\ reqs[h].step = "save"
  /\ \/ panel.writesFail /\ Drop(h) /\ locked' = FALSE /\ UNCHANGED state
     \/ Goto(h, "submit") /\ state' = [state EXCEPT ![reqs[h].app] = reqs[h].seen] /\ UNCHANGED locked
  /\ UNCHANGED <<compose, rollback, containers, removed, env>>

\* startManagedJob; a refused job has failed already.
Submit(h) ==
  /\ reqs[h].step = "submit"
  /\ \E job \in {"queued", "over"} :
       reqs' = [reqs EXCEPT ![h].step = "answer", ![h].job = job]
  /\ UNCHANGED <<files, containers, locked, removed, env>>

\* Mutant: the mutex is unlocked without sync.Once.
Unlocked_Always(h) == FALSE

\* What release leaves of the lock: it unlocks once per request.
Unlocked(h) == locked /\ reqs[h].released

\* Mutant: the handler leaves a refused job to unlock.
Releases_Never(h) == FALSE

\* The handler sees a job that no longer runs.
Releases(h) == reqs[h].job = "over"

Answer(h) ==
  /\ reqs[h].step = "answer"
  /\ locked' = IF Releases(h) THEN Unlocked(h) ELSE locked
  /\ reqs' = [reqs EXCEPT ![h] = IF @.job = "over" THEN Idle ELSE [@ EXCEPT !.step = "answered"]]
  /\ UNCHANGED <<files, containers, removed, env>>

-----------------------------------------------------------------------------
(* The job *)

\* `defer release()', when the work returns.
Return(h) ==
  /\ locked' = Unlocked(h)
  /\ reqs' = [reqs EXCEPT ![h].job = "returned", ![h].released = TRUE]

\* The docker commands of the action.  An update saves rollback.json first, and
\* uses it when it fails.
Work(h) ==
  LET a == reqs[h].app  action == reqs[h].action IN
  /\ reqs[h].job = "queued"
  /\ \E saved \in BOOLEAN :
       /\ rollback' = IF saved /\ action = "update" THEN rollback \cup {a} ELSE rollback
       /\ \E o \in Outcomes(a, action) :
            /\ action = "update" /\ o.ok => saved
            /\ containers' = [containers EXCEPT ![a] = o.to]
            /\ IF o.ok THEN reqs' = [reqs EXCEPT ![h].job = "recording"] /\ UNCHANGED locked
                       ELSE Return(h)
  /\ UNCHANGED <<state, compose, removed, env>>

\* Mutant: the uninstalled app stays listed.
RecordedState_Kept(req) == [req.seen EXCEPT !.installed = TRUE]

\* The state the request has seen, with the outcome of the action.
RecordedState(req) == [req.seen EXCEPT !.installed = req.action # "uninstall"]

Record(h) ==
  LET req == reqs[h] IN
  /\ req.job = "recording"
  /\ \/ /\ state' = [state EXCEPT ![req.app] = RecordedState(req)]
        /\ removed' = IF req.action = "uninstall" THEN removed \cup {req.app} ELSE removed
     \/ panel.writesFail /\ UNCHANGED <<state, removed>>
  /\ Return(h)
  /\ UNCHANGED <<compose, rollback, containers, env>>

\* startManagedJob publishes the status after the work has returned.
Publish(h) ==
  /\ reqs[h].job = "returned"
  /\ reqs' = [reqs EXCEPT ![h] = IF @.step = "answered" THEN Idle ELSE [@ EXCEPT !.job = "over"]]
  /\ UNCHANGED <<files, containers, locked, removed, env>>

\* The panel stops and starts; files and containers stay.
Crash ==
  /\ crashes < panel.crashes /\ crashes' = crashes + 1
  /\ reqs' = [h \in Handlers |-> Idle] /\ locked' = FALSE
  /\ UNCHANGED <<files, containers, removed, panel>>

-----------------------------------------------------------------------------

Init ==
  /\ state = [a \in Apps |-> NoState] /\ compose = [a \in Apps |-> 0] /\ rollback = {}
  /\ containers = [a \in Apps |-> "absent"]
  /\ locked = FALSE /\ reqs = [h \in Handlers |-> Idle]
  /\ removed = {}
  /\ panel \in Panels /\ crashes = 0

Serve(h) ==
  TryLock(h) \/ Prepare(h) \/ SaveState(h) \/ Submit(h) \/ Answer(h) \/ Work(h) \/ Record(h) \/ Publish(h)

Next ==
  \/ \E h \in panel.handlers :
       \/ \E a \in panel.apps, action \in Actions, port \in panel.ports : Read(h, a, action, port)
       \/ Serve(h)
  \/ Crash

Spec == Init /\ [][Next]_vars

\* Handlers and jobs go on: commands have timeouts, and slots are served in turn.
FairSpec == Spec /\ \A h \in Handlers : WF_vars(Serve(h))

-----------------------------------------------------------------------------
(* Properties *)

\* A request that relies on the lock, or a job that does.
Critical(req) ==
  req.step \in {"prepare", "save", "submit"} \/ req.job \in {"queued", "recording"}
    \/ (req.step = "answer" /\ req.job = "over" /\ ~req.released)

TypeOK ==
  /\ state \in [Apps -> State] /\ compose \in [Apps -> Ports \cup {0}] /\ rollback \subseteq Apps
  /\ containers \in [Apps -> {"absent", "stopped", "running"}]
  /\ locked \in BOOLEAN /\ reqs \in [Handlers -> Request]
  /\ removed \subseteq Apps /\ panel \in Panels /\ crashes \in 0 .. panel.crashes

\* Handler and job hand the lock over: exactly one request works on apps while
\* it is locked, and none while it is free, whoever finishes first.
LockHandedOver ==
  IF locked THEN \E h \in Handlers : \A g \in Handlers : Critical(reqs[g]) <=> g = h
            ELSE \A h \in Handlers : ~Critical(reqs[h])

\* The lock of an action that is refused, fails or ends is given back.
LockReleased == locked ~> ~locked

\* Requests for different apps.  The state of an app is read before the lock is
\* tried, so that of two requests for one app the later may act on what is gone.
Apart == panel.apart

\* When no action is under way, no write ever failed and the panel never stopped
\* (the compose file is written before the state), an app that counts as
\* installed is listed with the port its compose file has.
PortRecorded ==
  \A a \in Apps :
    Apart /\ ~panel.writesFail /\ crashes = 0 /\ ~locked /\ state[a].installed => state[a].port = compose[a]

\* Where requests are for different apps, an app that was uninstalled stays away
\* until it is installed again.
UninstallSticks == \A a \in removed : Apart => ~state[a].installed /\ containers[a] = "absent"

\* The state of the apps is what was done to them (handleMarketplaceAction): ports as in
\* their compose files, and no app that was uninstalled.
Consistent ==
  /\ TypeOK
  /\ PortRecorded
  /\ UninstallSticks

=============================================================================
