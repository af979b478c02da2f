--------------------------- MODULE MarketplaceProofs ---------------------------
(***************************************************************************)
(* Proofs about Marketplace, for every set of requests, apps, ports and    *)
(* panels: the lock is handed from request to job and given back once,     *)
(* and requests for different apps leave each app as they recorded it.     *)
(***************************************************************************)
EXTENDS Marketplace, TLAPS

-----------------------------------------------------------------------------
(* The inductive invariant.                                                *)

\* Steps of a request before it has a job, and of a job that has work to do.
Asking == {"idle", "locking", "prepare", "save", "submit"}
Working(req) == req.step \in {"prepare", "save", "submit"} \/ req.job \in {"queued", "recording"}

\* How the steps of a request, the status of its job and its sync.Once go together.
Lifecycle ==
  \A h \in Handlers :
    LET req == reqs[h] IN
    /\ req.step = "idle" => req = Idle
    /\ req.job = "none" <=> req.step \in Asking
    /\ req.job = "over" => req.step = "answer"
    /\ req.released => req.job \in {"returned", "over"}
    /\ req.job = "returned" => req.released

\* Requests that are under way are for different apps, where the panel says so.
Separate ==
  \A g, h \in Handlers :
    Apart /\ g # h /\ reqs[g].step # "idle" /\ reqs[h].step # "idle" => reqs[g].app # reqs[h].app

\* What such a request has read is still so, until it writes the state itself.
Knows ==
  \A h \in Handlers :
    LET req == reqs[h] IN
    /\ Apart /\ (req.step = "locking" \/ (Working(req) /\ req.step # "save")) => req.seen = state[req.app]
    /\ req.step \in {"prepare", "save"} => req.action = "install"
    /\ Working(req) => Fits(req)
    /\ Apart /\ req.job = "recording" /\ req.action = "uninstall" => containers[req.app] = "absent"

\* No request that works is for an app that is gone.
Away ==
  \A a \in removed :
    Apart => /\ ~state[a].installed /\ containers[a] = "absent"
             /\ \A h \in Handlers : reqs[h].app = a => ~Working(reqs[h])

\* The state lists the port of the compose file, but while the state of an install
\* is still to be saved; the request has that port.
Listed ==
  Apart /\ ~panel.writesFail /\ crashes = 0 =>
    /\ \A h \in Handlers : reqs[h].step = "save" => reqs[h].seen.port = compose[reqs[h].app]
    /\ \A a \in Apps :
         (\A h \in Handlers : reqs[h].step = "save" => reqs[h].app # a) => state[a].port = compose[a]

LockInv == TypeOK /\ Lifecycle /\ LockHandedOver
AppsInv == Separate /\ Knows /\ Away /\ Listed

-----------------------------------------------------------------------------
(* Types.                                                                  *)

\* Whatever docker does to an app, its containers are absent, stopped or running; an
\* uninstall that succeeds leaves none.
LEMMA OutcomeTypes ==
  ASSUME TypeOK, NEW a \in Apps, NEW action \in Actions, NEW o \in Outcomes(a, action)
  PROVE  /\ o.to \in {"absent", "stopped", "running"}
         /\ o.ok /\ action = "uninstall" => o.to = "absent"
<1>1. containers[a] \in {"absent", "stopped", "running"}
  BY DEF TypeOK
<1>2. ASSUME NEW up \in Up(a)
      PROVE  up.to \in {"absent", "stopped", "running"}
  BY <1>1, <1>2 DEF Up
<1>3. CASE action \in {"install", "start", "update"}
  BY <1>2, <1>3 DEF Outcomes
<1>4. CASE action \in {"rollback", "restart"}
  BY <1>1, <1>2, <1>4 DEF Outcomes
<1>5. CASE action = "stop"
  BY <1>1, <1>5 DEF Outcomes
<1>6. CASE action = "uninstall"
  BY <1>1, <1>6 DEF Outcomes
<1>7. QED
  BY <1>3, <1>4, <1>5, <1>6 DEF Actions

\* The idle request is a request.
LEMMA IdleTypes == Idle \in Request
<1>1. (CHOOSE a \in Apps : TRUE) \in Apps
  BY MarketplaceAssumption
<1>2. QED
  BY <1>1 DEF Idle, Request, Actions, State, NoState

\* The types, preserved by every step.
LEMMA TypeStep ==
  ASSUME TypeOK, [Next]_vars
  PROVE  TypeOK'
<1> USE MarketplaceAssumption, IdleTypes DEF TypeOK, files, env, vars, Goto, Drop
<1>0. panel \in Panel /\ panel.handlers \subseteq Handlers /\ panel.apps \subseteq Apps /\ panel.ports \subseteq Ports
      /\ panel.crashes \in Nat
  BY DEF Panel
<1>1. ASSUME NEW h \in panel.handlers, NEW a \in panel.apps, NEW action \in Actions, NEW port \in panel.ports,
             Read(h, a, action, port)
      PROVE  TypeOK'
  <2>1. [Idle EXCEPT !.step = "locking", !.app = a, !.action = action, !.port = port, !.seen = state[a]] \in Request
    BY <1>0 DEF Idle, Request
  <2>2. QED
    BY <1>0, <1>1, <2>1 DEF Read
<1>2. ASSUME NEW h \in panel.handlers, TryLock(h)
      PROVE  TypeOK'
  <2>1. \A step \in {"prepare", "submit"} : [reqs[h] EXCEPT !.step = step] \in Request
    BY <1>0 DEF Request
  <2>2. reqs' \in [Handlers -> Request]
    BY <1>0, <1>2, <2>1 DEF TryLock
  <2>3. removed' \subseteq Apps /\ locked' \in BOOLEAN
    BY <1>2 DEF TryLock
  <2>4. QED
    BY <1>2, <2>2, <2>3 DEF TryLock
<1>3. ASSUME NEW h \in panel.handlers, Prepare(h)
      PROVE  TypeOK'
  <2>1. PortFor(reqs[h]) \in Ports \cup {0} /\ reqs[h].app \in Apps
    BY <1>0 DEF PortFor, Request, State
  <2>2. [port |-> PortFor(reqs[h]), installed |-> FALSE] \in State
    BY <2>1 DEF State
  <2>3. [reqs[h] EXCEPT !.step = "save", !.seen = [port |-> PortFor(reqs[h]), installed |-> FALSE]] \in Request
    BY <1>0, <2>2 DEF Request
  <2>4. reqs' \in [Handlers -> Request]
    BY <1>0, <1>3, <2>3 DEF Prepare
  <2>5. compose' \in [Apps -> Ports \cup {0}] /\ locked' \in BOOLEAN
    BY <1>3, <2>1, ZenonT(30) DEF Prepare
  <2>6. QED
    BY <1>3, <2>4, <2>5 DEF Prepare
<1>4. ASSUME NEW h \in panel.handlers, SaveState(h)
      PROVE  TypeOK'
  <2>1. reqs[h].app \in Apps /\ reqs[h].seen \in State /\ [reqs[h] EXCEPT !.step = "submit"] \in Request
    BY <1>0 DEF Request
  <2>2. QED
    BY <1>4, <2>1, ZenonT(30) DEF SaveState
<1>5. ASSUME NEW h \in panel.handlers, Submit(h)
      PROVE  TypeOK'
  BY <1>0, <1>5 DEF Submit, Request
<1>6. ASSUME NEW h \in panel.handlers, Answer(h)
      PROVE  TypeOK'
  BY <1>0, <1>6 DEF Answer, Unlocked, Request
<1>7. ASSUME NEW h \in panel.handlers, Work(h)
      PROVE  TypeOK'
  <2>1. reqs[h].app \in Apps /\ reqs[h].action \in Actions
    BY <1>0 DEF Request
  <2>2. PICK saved \in BOOLEAN, o \in Outcomes(reqs[h].app, reqs[h].action) :
          /\ rollback' = IF saved /\ reqs[h].action = "update" THEN rollback \cup {reqs[h].app} ELSE rollback
          /\ containers' = [containers EXCEPT ![reqs[h].app] = o.to]
          /\ IF o.ok THEN reqs' = [reqs EXCEPT ![h].job = "recording"] /\ UNCHANGED locked
                     ELSE Return(h)
    BY <1>7 DEF Work
  <2>3. containers' \in [Apps -> {"absent", "stopped", "running"}] /\ rollback' \subseteq Apps
    BY <2>1, <2>2, OutcomeTypes
  <2>4. reqs' \in [Handlers -> Request] /\ locked' \in BOOLEAN
    BY <1>0, <2>2 DEF Return, Unlocked, Request
  <2>5. QED
    BY <1>7, <2>3, <2>4 DEF Work
<1>8. ASSUME NEW h \in panel.handlers, Record(h)
      PROVE  TypeOK'
  <2>1. reqs[h].app \in Apps /\ RecordedState(reqs[h]) \in State
    BY <1>0 DEF Request, RecordedState, State
  <2>2. reqs' \in [Handlers -> Request] /\ locked' \in BOOLEAN
    BY <1>0, <1>8, ZenonT(30) DEF Record, Return, Unlocked, Request
  <2>3. QED
    BY <1>8, <2>1, <2>2 DEF Record
<1>9. ASSUME NEW h \in panel.handlers, Publish(h)
      PROVE  TypeOK'
  BY <1>0, <1>9 DEF Publish, Request
<1>10. CASE Crash
  <2>1. crashes' \in 0 .. panel.crashes
    BY <1>0, <1>10 DEF Crash
  <2>2. QED
    BY <1>10, <2>1 DEF Crash
<1>11. CASE UNCHANGED vars
  BY <1>11
<1>12. QED
  BY <1>1, <1>2, <1>3, <1>4, <1>5, <1>6, <1>7, <1>8, <1>9, <1>10, <1>11 DEF Next, Serve

-----------------------------------------------------------------------------
(* The lock.                                                               *)

\* The steps, the job and the sync.Once of a request go together in every step.
LEMMA LifecycleStep ==
  ASSUME TypeOK, Lifecycle, [Next]_vars
  PROVE  Lifecycle'
<1> USE DEF Lifecycle, Asking, TypeOK, Request, Goto, Drop
<1>0. panel.handlers \subseteq Handlers /\ Idle.step = "idle" /\ Idle.job = "none" /\ ~Idle.released
  BY MarketplaceAssumption DEF Panel, Idle
<1>1. ASSUME NEW h \in panel.handlers, NEW a \in panel.apps, NEW action \in Actions, NEW port \in panel.ports,
             Read(h, a, action, port)
      PROVE  Lifecycle'
  BY <1>0, <1>1 DEF Read, Idle
<1>2. ASSUME NEW h \in panel.handlers, TryLock(h)
      PROVE  Lifecycle'
  BY <1>0, <1>2 DEF TryLock
<1>3. ASSUME NEW h \in panel.handlers, Prepare(h)
      PROVE  Lifecycle'
  BY <1>0, <1>3 DEF Prepare
<1>4. ASSUME NEW h \in panel.handlers, SaveState(h)
      PROVE  Lifecycle'
  BY <1>0, <1>4 DEF SaveState
<1>5. ASSUME NEW h \in panel.handlers, Submit(h)
      PROVE  Lifecycle'
  BY <1>0, <1>5 DEF Submit
<1>6. ASSUME NEW h \in panel.handlers, Answer(h)
      PROVE  Lifecycle'
  BY <1>0, <1>6 DEF Answer
<1>7. ASSUME NEW h \in panel.handlers, Work(h)
      PROVE  Lifecycle'
  BY <1>0, <1>7 DEF Work, Return
<1>8. ASSUME NEW h \in panel.handlers, Record(h)
      PROVE  Lifecycle'
  BY <1>0, <1>8 DEF Record, Return
<1>9. ASSUME NEW h \in panel.handlers, Publish(h)
      PROVE  Lifecycle'
  BY <1>0, <1>9 DEF Publish
<1>10. CASE Crash
  BY <1>0, <1>10 DEF Crash
<1>11. CASE UNCHANGED vars
  BY <1>11 DEF vars
<1>12. QED
  BY <1>1, <1>2, <1>3, <1>4, <1>5, <1>6, <1>7, <1>8, <1>9, <1>10, <1>11 DEF Next, Serve

\* A step of one request hands the lock on when the others keep theirs as they were,
\* and the request relies on the lock exactly while the step leaves it locked, or kept
\* what it had of it.
LEMMA HandOver ==
  ASSUME LockHandedOver, NEW h \in Handlers,
         \A g \in Handlers \ {h} : Critical(reqs'[g]) <=> Critical(reqs[g]),
         \/ Critical(reqs'[h]) = Critical(reqs[h]) /\ locked' = locked
         \/ Critical(reqs[h]) /\ ~Critical(reqs'[h]) /\ ~locked'
         \/ ~locked /\ Critical(reqs'[h]) /\ locked'
  PROVE  LockHandedOver'
BY DEF LockHandedOver

\* Whoever finishes first, one request owns the lock while it is locked.
LEMMA LockStep ==
  ASSUME TypeOK, Lifecycle, LockHandedOver, [Next]_vars
  PROVE  LockHandedOver'
<1> USE DEF Lifecycle, Asking, TypeOK, Request, Goto, Drop, Critical
<1>0. panel.handlers \subseteq Handlers /\ Idle.step = "idle" /\ Idle.job = "none" /\ ~Idle.released
  BY MarketplaceAssumption DEF Panel, Idle
<1>1. ASSUME NEW h \in panel.handlers, NEW a \in panel.apps, NEW action \in Actions, NEW port \in panel.ports,
             Read(h, a, action, port)
      PROVE  LockHandedOver'
  BY <1>0, <1>1, HandOver DEF Read, Idle
<1>2. ASSUME NEW h \in panel.handlers, TryLock(h)
      PROVE  LockHandedOver'
  BY <1>0, <1>2, HandOver DEF TryLock
<1>3. ASSUME NEW h \in panel.handlers, Prepare(h)
      PROVE  LockHandedOver'
  BY <1>0, <1>3, HandOver DEF Prepare
<1>4. ASSUME NEW h \in panel.handlers, SaveState(h)
      PROVE  LockHandedOver'
  BY <1>0, <1>4, HandOver DEF SaveState
<1>5. ASSUME NEW h \in panel.handlers, Submit(h)
      PROVE  LockHandedOver'
  BY <1>0, <1>5, HandOver DEF Submit
<1>6. ASSUME NEW h \in panel.handlers, Answer(h)
      PROVE  LockHandedOver'
  BY <1>0, <1>6, HandOver DEF Answer, Releases, Unlocked
<1>7. ASSUME NEW h \in panel.handlers, Work(h)
      PROVE  LockHandedOver'
  BY <1>0, <1>7, HandOver DEF Work, Return, Unlocked
<1>8. ASSUME NEW h \in panel.handlers, Record(h)
      PROVE  LockHandedOver'
  BY <1>0, <1>8, HandOver DEF Record, Return, Unlocked
<1>9. ASSUME NEW h \in panel.handlers, Publish(h)
      PROVE  LockHandedOver'
  BY <1>0, <1>9, HandOver DEF Publish
<1>10. CASE Crash
  BY <1>0, <1>10 DEF Crash, LockHandedOver
<1>11. CASE UNCHANGED vars
  BY <1>11 DEF vars, LockHandedOver
<1>12. QED
  BY <1>1, <1>2, <1>3, <1>4, <1>5, <1>6, <1>7, <1>8, <1>9, <1>10, <1>11 DEF Next, Serve

\* Types, stages and lock, in every reachable state.
LEMMA LockInvariant == Spec => []LockInv
<1>1. Init => LockInv
  <2>1. Idle \in Request /\ Idle.step = "idle" /\ Idle.job = "none" /\ ~Idle.released
    BY IdleTypes DEF Idle
  <2>2. Init => TypeOK
    <3>1. NoState \in State
      BY DEF NoState, State
    <3>2. \A p \in Panels : p.crashes \in Nat
      BY MarketplaceAssumption DEF Panel
    <3>3. Init => crashes \in 0 .. panel.crashes /\ panel \in Panels
      BY <3>2 DEF Init
    <3>4. QED
      BY <2>1, <3>1, <3>3 DEF Init, TypeOK
  <2>3. Init => Lifecycle /\ LockHandedOver
    BY <2>1 DEF Init, Lifecycle, Asking, LockHandedOver, Critical
  <2>4. QED
    BY <2>2, <2>3 DEF LockInv
<1>2. LockInv /\ [Next]_vars => LockInv'
  BY TypeStep, LifecycleStep, LockStep DEF LockInv
<1>3. QED
  BY <1>1, <1>2, PTL DEF Spec

\* Handler and job hand marketplaceMu over: one request works while it is locked, and
\* none while it is free, for any number of requests at a time, refused jobs, failing
\* writes and stops of the panel.
THEOREM LockSafe == Spec => []LockHandedOver
<1>1. LockInv => LockHandedOver
  BY DEF LockInv
<1>2. QED
  BY <1>1, LockInvariant, PTL

-----------------------------------------------------------------------------
(* The apps.                                                               *)

\* One request at a time is for an app, where the panel has them apart.
LEMMA SeparateStep ==
  ASSUME LockInv, Separate, [Next]_vars
  PROVE  Separate'
<1> USE DEF LockInv, Lifecycle, TypeOK, Separate, Apart, Request, Goto, Drop, env
<1>0. panel.handlers \subseteq Handlers /\ Idle.step = "idle"
  BY MarketplaceAssumption DEF Panel, Idle
<1>1. ASSUME NEW h \in panel.handlers, NEW a \in panel.apps, NEW action \in Actions, NEW port \in panel.ports,
             Read(h, a, action, port)
      PROVE  Separate'
  BY <1>0, <1>1 DEF Read, Idle
<1>2. ASSUME NEW h \in panel.handlers, Serve(h)
      PROVE  Separate'
  <2>1. \A g \in Handlers : reqs'[g].step # "idle" => reqs[g].step # "idle" /\ reqs'[g].app = reqs[g].app
    BY <1>0, <1>2
       DEF Serve, TryLock, Prepare, SaveState, Submit, Answer, Work, Return, Record, Publish, Asking
  <2>2. panel' = panel
    BY <1>2 DEF Serve, TryLock, Prepare, SaveState, Submit, Answer, Work, Return, Record, Publish
  <2>3. QED
    BY <2>1, <2>2
<1>3. CASE Crash
  BY <1>0, <1>3 DEF Crash
<1>4. CASE UNCHANGED vars
  BY <1>4 DEF vars
<1>5. QED
  BY <1>1, <1>2, <1>3, <1>4 DEF Next

\* What a request has read of its app stays true while it works.
LEMMA KnowsStep ==
  ASSUME LockInv, Separate, Knows, [Next]_vars
  PROVE  Knows'
<1> USE DEF LockInv, Lifecycle, TypeOK, Separate, Knows, Working, Fits, Asking, Apart, Request, Goto, Drop, env, files
<1>0. panel.handlers \subseteq Handlers /\ panel.apps \subseteq Apps /\ Idle.step = "idle" /\ Idle.job = "none"
  BY MarketplaceAssumption DEF Panel, Idle
<1>1. ASSUME NEW h \in panel.handlers, NEW a \in panel.apps, NEW action \in Actions, NEW port \in panel.ports,
             Read(h, a, action, port)
      PROVE  Knows'
  BY <1>0, <1>1 DEF Read, Idle
<1>2. ASSUME NEW h \in panel.handlers, TryLock(h)
      PROVE  Knows'
  <2>1. h \in Handlers /\ reqs[h].step = "locking" /\ UNCHANGED <<state, compose, containers, panel, crashes>>
    BY <1>0, <1>2 DEF TryLock
  <2>2. CASE reqs' = [reqs EXCEPT ![h] = Idle] /\ removed' = removed
    BY <1>0, <2>1, <2>2
  <2>3. CASE /\ Fits(reqs[h])
             /\ reqs' = [reqs EXCEPT ![h].step = IF reqs[h].action = "install" THEN "prepare" ELSE "submit"]
             /\ removed' = IF reqs[h].action = "install" THEN removed \ {reqs[h].app} ELSE removed
    BY <1>0, <2>1, <2>3
  <2>4. QED
    BY <1>2, <2>2, <2>3 DEF TryLock
<1>3. ASSUME NEW h \in panel.handlers, Prepare(h)
      PROVE  Knows'
  BY <1>0, <1>3 DEF Prepare
<1>4. ASSUME NEW h \in panel.handlers, SaveState(h)
      PROVE  Knows'
  BY <1>0, <1>4 DEF SaveState
<1>5. ASSUME NEW h \in panel.handlers, Submit(h)
      PROVE  Knows'
  BY <1>0, <1>5 DEF Submit
<1>6. ASSUME NEW h \in panel.handlers, Answer(h)
      PROVE  Knows'
  BY <1>0, <1>6 DEF Answer
<1>7. ASSUME NEW h \in panel.handlers, Work(h)
      PROVE  Knows'
  BY <1>0, <1>7, OutcomeTypes DEF Work, Return
<1>8. ASSUME NEW h \in panel.handlers, Record(h)
      PROVE  Knows'
  BY <1>0, <1>8 DEF Record, Return
<1>9. ASSUME NEW h \in panel.handlers, Publish(h)
      PROVE  Knows'
  BY <1>0, <1>9 DEF Publish
<1>10. CASE Crash
  BY <1>0, <1>10 DEF Crash
<1>11. CASE UNCHANGED vars
  BY <1>11 DEF vars
<1>12. QED
  BY <1>1, <1>2, <1>3, <1>4, <1>5, <1>6, <1>7, <1>8, <1>9, <1>10, <1>11 DEF Next, Serve

\* An app that is gone has no request that brings it back.
LEMMA AwayStep ==
  ASSUME LockInv, Separate, Knows, Away, [Next]_vars
  PROVE  Away'
<1> USE DEF LockInv, Lifecycle, TypeOK, Separate, Knows, Away, Working, Fits, Asking, Apart, Request, Goto, Drop,
            env, files
<1>0. panel.handlers \subseteq Handlers /\ panel.apps \subseteq Apps /\ Idle.step = "idle" /\ Idle.job = "none"
  BY MarketplaceAssumption DEF Panel, Idle
<1>1. ASSUME NEW h \in panel.handlers, NEW a \in panel.apps, NEW action \in Actions, NEW port \in panel.ports,
             Read(h, a, action, port)
      PROVE  Away'
  BY <1>0, <1>1 DEF Read, Idle
<1>2. ASSUME NEW h \in panel.handlers, TryLock(h)
      PROVE  Away'
  <2>1. h \in Handlers /\ reqs[h].step = "locking" /\ UNCHANGED <<state, compose, containers, panel, crashes>>
    BY <1>0, <1>2 DEF TryLock
  <2>2. CASE reqs' = [reqs EXCEPT ![h] = Idle] /\ removed' = removed
    BY <1>0, <2>1, <2>2
  <2>3. CASE /\ Fits(reqs[h])
             /\ reqs' = [reqs EXCEPT ![h].step = IF reqs[h].action = "install" THEN "prepare" ELSE "submit"]
             /\ removed' = IF reqs[h].action = "install" THEN removed \ {reqs[h].app} ELSE removed
    <3>1. \A g \in Handlers \ {h} : reqs'[g] = reqs[g]
      BY <2>3
    <3>2. reqs'[h].app = reqs[h].app
      BY <2>1, <2>3
    <3>3. Apart => reqs[h].app \notin removed'
      <4>1. CASE reqs[h].action = "install"
        BY <2>3, <4>1
      <4>2. CASE reqs[h].action # "install"
        <5>1. Apart => state[reqs[h].app].installed
          BY <2>1, <2>3, <4>2 DEF State
        <5>2. QED
          BY <2>3, <4>2, <5>1
      <4>3. QED
        BY <4>1, <4>2
    <3>4. QED
      BY <2>1, <2>3, <3>1, <3>2, <3>3
  <2>4. QED
    BY <1>2, <2>2, <2>3 DEF TryLock
<1>3. ASSUME NEW h \in panel.handlers, Prepare(h)
      PROVE  Away'
  BY <1>0, <1>3 DEF Prepare
<1>4. ASSUME NEW h \in panel.handlers, SaveState(h)
      PROVE  Away'
  BY <1>0, <1>4 DEF SaveState
<1>5. ASSUME NEW h \in panel.handlers, Submit(h)
      PROVE  Away'
  BY <1>0, <1>5 DEF Submit
<1>6. ASSUME NEW h \in panel.handlers, Answer(h)
      PROVE  Away'
  BY <1>0, <1>6 DEF Answer
<1>7. ASSUME NEW h \in panel.handlers, Work(h)
      PROVE  Away'
  BY <1>0, <1>7 DEF Work, Return
<1>8. ASSUME NEW h \in panel.handlers, Record(h)
      PROVE  Away'
  BY <1>0, <1>8 DEF Record, RecordedState, Return
<1>9. ASSUME NEW h \in panel.handlers, Publish(h)
      PROVE  Away'
  BY <1>0, <1>9 DEF Publish
<1>10. CASE Crash
  BY <1>0, <1>10 DEF Crash
<1>11. CASE UNCHANGED vars
  BY <1>11 DEF vars
<1>12. QED
  BY <1>1, <1>2, <1>3, <1>4, <1>5, <1>6, <1>7, <1>8, <1>9, <1>10, <1>11 DEF Next, Serve

\* A step that leaves the files, and the requests that save, keeps the ports.
LEMMA ListedKept ==
  ASSUME Listed, UNCHANGED <<state, compose, panel, crashes>>,
         \A h \in Handlers : /\ reqs'[h].step = "save" <=> reqs[h].step = "save"
                             /\ reqs'[h].app = reqs[h].app /\ reqs'[h].seen = reqs[h].seen
  PROVE  Listed'
BY DEF Listed, Apart

\* The state of an app lists the port of its compose file again when an install has
\* saved it.
LEMMA ListedStep ==
  ASSUME LockInv, Separate, Knows, Listed, [Next]_vars
  PROVE  Listed'
<1> USE DEF LockInv, Lifecycle, TypeOK, Separate, Knows, Listed, Working, Fits, Asking, Apart, Request, State,
            Goto, Drop, env, files
<1>0. panel.handlers \subseteq Handlers /\ panel.apps \subseteq Apps /\ Idle.step = "idle" /\ Idle.job = "none"
      /\ panel.crashes \in Nat
  BY MarketplaceAssumption DEF Panel, Idle
<1>1. ASSUME NEW h \in panel.handlers, NEW a \in panel.apps, NEW action \in Actions, NEW port \in panel.ports,
             Read(h, a, action, port)
      PROVE  Listed'
  BY <1>0, <1>1 DEF Read, Idle
<1>2. ASSUME NEW h \in panel.handlers, TryLock(h)
      PROVE  Listed'
  <2>1. h \in Handlers /\ reqs[h].step = "locking" /\ UNCHANGED <<state, compose, containers, panel, crashes>>
    BY <1>0, <1>2 DEF TryLock
  <2>2. CASE reqs' = [reqs EXCEPT ![h] = Idle] /\ removed' = removed
    BY <1>0, <2>1, <2>2
  <2>3. CASE /\ Fits(reqs[h])
             /\ reqs' = [reqs EXCEPT ![h].step = IF reqs[h].action = "install" THEN "prepare" ELSE "submit"]
             /\ removed' = IF reqs[h].action = "install" THEN removed \ {reqs[h].app} ELSE removed
    <3>1. \A g \in Handlers : /\ reqs'[g].step = "save" <=> reqs[g].step = "save"
                              /\ reqs'[g].app = reqs[g].app /\ reqs'[g].seen = reqs[g].seen
      <4>1. CASE reqs[h].action = "install"
        BY <2>1, <2>3, <4>1
      <4>2. CASE reqs[h].action # "install"
        BY <2>1, <2>3, <4>2
      <4>3. QED
        BY <4>1, <4>2
    <3>2. QED
      BY <2>1, <3>1, ListedKept
  <2>4. QED
    BY <1>2, <2>2, <2>3 DEF TryLock
<1>3. ASSUME NEW h \in panel.handlers, Prepare(h)
      PROVE  Listed'
  <2>1. h \in Handlers /\ reqs[h].step = "prepare" /\ UNCHANGED <<state, panel, crashes>>
    BY <1>0, <1>3 DEF Prepare
  <2>2. CASE reqs' = [reqs EXCEPT ![h] = Idle] /\ compose' = compose
    BY <1>0, <2>1, <2>2
  <2>3. CASE /\ compose' = IF compose[reqs[h].app] # 0 THEN compose
                            ELSE [compose EXCEPT ![reqs[h].app] = PortFor(reqs[h])]
             /\ reqs' = [reqs EXCEPT ![h].step = "save",
                                     ![h].seen = [port |-> PortFor(reqs[h]), installed |-> FALSE]]
    <3>1. reqs'[h].step = "save" /\ reqs'[h].seen.port = PortFor(reqs[h]) /\ reqs'[h].app = reqs[h].app
      BY <2>1, <2>3
    <3>2. \A g \in Handlers \ {h} : reqs'[g] = reqs[g] /\ (Apart => reqs[g].step = "idle" \/ reqs[g].app # reqs[h].app)
      BY <2>1, <2>3
    <3>3. \A a \in Apps \ {reqs[h].app} : compose'[a] = compose[a]
      BY <2>1, <2>3
    <3>4. Apart /\ ~panel.writesFail /\ crashes = 0 => compose'[reqs[h].app] = PortFor(reqs[h])
      <4>1. reqs[h].app \in Apps /\ (Apart => reqs[h].seen = state[reqs[h].app])
        BY <2>1
      <4>2. Apart /\ ~panel.writesFail /\ crashes = 0 => state[reqs[h].app].port = compose[reqs[h].app]
        BY <2>1, <3>2, <4>1
      <4>3. QED
        BY <2>3, <4>1, <4>2 DEF PortFor
    <3>5. ASSUME Apart, ~panel.writesFail, crashes = 0, NEW g \in Handlers, reqs'[g].step = "save"
          PROVE  reqs'[g].seen.port = compose'[reqs'[g].app]
      <4>1. CASE g = h
        BY <3>1, <3>4, <3>5, <4>1
      <4>2. CASE g # h
        <5>1. reqs[g].app # reqs[h].app /\ reqs[g].app \in Apps
          BY <3>2, <3>5, <4>2
        <5>2. QED
          BY <3>2, <3>3, <3>5, <4>2, <5>1
      <4>3. QED
        BY <4>1, <4>2
    <3>6. ASSUME Apart, ~panel.writesFail, crashes = 0, NEW a \in Apps,
                 \A g \in Handlers : reqs'[g].step = "save" => reqs'[g].app # a
          PROVE  state[a].port = compose'[a]
      <4>1. a # reqs[h].app
        BY <2>1, <3>1, <3>6
      <4>2. \A g \in Handlers : reqs[g].step = "save" => reqs[g].app # a
        BY <2>1, <3>2, <3>6, SMTT(20)
      <4>3. QED
        BY <3>3, <3>6, <4>1, <4>2
    <3>7. QED
      BY <2>1, <3>5, <3>6
  <2>4. \/ reqs' = [reqs EXCEPT ![h] = Idle] /\ compose' = compose
        \/ /\ compose' = IF compose[reqs[h].app] # 0 THEN compose
                         ELSE [compose EXCEPT ![reqs[h].app] = PortFor(reqs[h])]
           /\ reqs' = [reqs EXCEPT ![h].step = "save",
                                  ![h].seen = [port |-> PortFor(reqs[h]), installed |-> FALSE]]
    BY <1>3 DEF Prepare
  <2>5. QED
    BY <2>2, <2>3, <2>4
<1>4. ASSUME NEW h \in panel.handlers, SaveState(h)
      PROVE  Listed'
  <2>1. h \in Handlers /\ reqs[h].step = "save" /\ reqs[h].app \in Apps /\ UNCHANGED <<compose, panel, crashes>>
    BY <1>0, <1>4 DEF SaveState
  <2>2. CASE panel.writesFail
    BY <2>1, <2>2
  <2>3. CASE reqs' = [reqs EXCEPT ![h].step = "submit"] /\ state' = [state EXCEPT ![reqs[h].app] = reqs[h].seen]
    <3>1. reqs'[h].step = "submit" /\ \A g \in Handlers \ {h} : reqs'[g] = reqs[g]
      BY <2>1, <2>3
    <3>2. \A a \in Apps : state'[a] = IF a = reqs[h].app THEN reqs[h].seen ELSE state[a]
      BY <2>1, <2>3
    <3>3. ASSUME Apart, ~panel.writesFail, crashes = 0, NEW g \in Handlers, reqs'[g].step = "save"
          PROVE  reqs'[g].seen.port = compose'[reqs'[g].app]
      BY <2>1, <3>1, <3>3
    <3>4. ASSUME Apart, ~panel.writesFail, crashes = 0, NEW a \in Apps,
                 \A g \in Handlers : reqs'[g].step = "save" => reqs'[g].app # a
          PROVE  state'[a].port = compose'[a]
      <4>1. CASE a = reqs[h].app
        BY <2>1, <3>2, <3>4, <4>1
      <4>2. CASE a # reqs[h].app
        <5>1. \A g \in Handlers : reqs[g].step = "save" => reqs[g].app # a
          BY <3>1, <3>4, <4>2
        <5>2. QED
          BY <2>1, <3>2, <3>4, <4>2, <5>1
      <4>3. QED
        BY <4>1, <4>2
    <3>5. QED
      BY <2>1, <3>3, <3>4
  <2>4. QED
    BY <1>4, <2>2, <2>3 DEF SaveState
<1>5. ASSUME NEW h \in panel.handlers, Submit(h)
      PROVE  Listed'
  BY <1>0, <1>5 DEF Submit
<1>6. ASSUME NEW h \in panel.handlers, Answer(h)
      PROVE  Listed'
  BY <1>0, <1>6 DEF Answer
<1>7. ASSUME NEW h \in panel.handlers, Work(h)
      PROVE  Listed'
  <2>1. h \in Handlers /\ UNCHANGED <<state, compose, panel, crashes>>
    BY <1>0, <1>7 DEF Work
  <2>2. \A g \in Handlers : reqs'[g].step = reqs[g].step /\ reqs'[g].app = reqs[g].app /\ reqs'[g].seen = reqs[g].seen
    BY <1>0, <1>7 DEF Work, Return
  <2>3. QED
    BY <2>1, <2>2, SMTT(20)
<1>8. ASSUME NEW h \in panel.handlers, Record(h)
      PROVE  Listed'
  <2>1. h \in Handlers /\ reqs[h].app \in Apps /\ reqs[h].step # "save" /\ UNCHANGED <<compose, panel, crashes>>
    BY <1>0, <1>8 DEF Record
  <2>2. \A g \in Handlers : reqs'[g].step = reqs[g].step /\ reqs'[g].app = reqs[g].app /\ reqs'[g].seen = reqs[g].seen
    BY <1>0, <1>8 DEF Record, Return
  <2>3. Apart => \A a \in Apps : state'[a].port = state[a].port
    <3>1. Apart => reqs[h].seen = state[reqs[h].app] /\ RecordedState(reqs[h]).port = reqs[h].seen.port
      BY <1>8, <2>1 DEF Record, RecordedState
    <3>2. state' = state \/ state' = [state EXCEPT ![reqs[h].app] = RecordedState(reqs[h])]
      BY <1>8 DEF Record
    <3> HIDE DEF Separate, Knows, Listed
    <3>3. QED
      BY <2>1, <3>1, <3>2
  <2>4. QED
    BY <2>1, <2>2, <2>3
<1>9. ASSUME NEW h \in panel.handlers, Publish(h)
      PROVE  Listed'
  BY <1>0, <1>9 DEF Publish
<1>10. CASE Crash
  BY <1>0, <1>10 DEF Crash
<1>11. CASE UNCHANGED vars
  BY <1>11 DEF vars
<1>12. QED
  BY <1>1, <1>2, <1>3, <1>4, <1>5, <1>6, <1>7, <1>8, <1>9, <1>10, <1>11 DEF Next, Serve

\* What requests know of their apps, in every reachable state.
LEMMA AppsInvariant == Spec => [](LockInv /\ AppsInv)
<1>1. Init => AppsInv
  BY DEF Init, AppsInv, Separate, Knows, Away, Listed, Working, Fits, Idle, NoState, Apart
<1>2. LockInv /\ AppsInv /\ [Next]_vars => AppsInv'
  BY SeparateStep, KnowsStep, AwayStep, ListedStep DEF AppsInv
<1>3. QED
  BY <1>1, <1>2, LockInvariant, PTL DEF Spec

\* Requests for different apps leave every app as it was recorded: installed with the
\* port of its compose file, or gone until it is installed again.
THEOREM AppsConsistent == Spec => []Consistent
<1>1. LockInv /\ AppsInv => PortRecorded
  <2> SUFFICES ASSUME LockInv, AppsInv, NEW a \in Apps, Apart, ~panel.writesFail, crashes = 0, ~locked
               PROVE  state[a].port = compose[a]
    BY DEF PortRecorded
  <2>1. \A h \in Handlers : reqs[h].step # "save"
    BY DEF LockInv, LockHandedOver, Critical
  <2>2. QED
    BY <2>1 DEF AppsInv, Listed
<1>2. AppsInv => UninstallSticks
  BY DEF AppsInv, Away, UninstallSticks
<1>3. LockInv /\ AppsInv => Consistent
  BY <1>1, <1>2 DEF Consistent, LockInv
<1>4. QED
  BY <1>3, AppsInvariant, PTL

=============================================================================
