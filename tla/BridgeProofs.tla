----------------------------- MODULE BridgeProofs -----------------------------
(***************************************************************************)
(* The bridge implements Ingress, its exit status tells what ended it, and   *)
(* no message is handled twice, for any set of messages, any number of       *)
(* deliveries and any cache.                                                 *)
(***************************************************************************)
EXTENDS Bridge, FiniteSetTheorems, TLAPS

(* The stages that no waiting callback reaches, and all from the finally clause on. *)
Emptied == {"drainTurns", "joining", "stopWorker", "closeGateway", "closing"}
After == {"settle", "drainIngress", "exited"} \union Emptied

(* Where the runtime stands when ingress is what. *)
GateStage ==
  /\ run \in Before \union {"boot", "starting"} => gate = "shut"
  /\ run = "serving" => gate = "open"
  /\ run \in After \ {"exited"} => gate = "closed"
  /\ run = "exited" => gate # "open"

(* The store is there whenever a turn may be. *)
StoreStage ==
  /\ store = "closed" => run \in {"login", "opening", "exited"}
  /\ run \in {"login", "exited"} => store = "closed"

(* Deliveries are told of only once the gate has been opened. *)
NothingEarly ==
  gate = "shut" => \A d \in Deliveries : callback[d] = "none"

(* A turn is spawned by a callback, as the last thing it does. *)
SpawnedLast == \A d \in Deliveries : handler[d] # "none" => callback[d] = "over"

(* The drains leave nothing behind: first no callback, then no turn. *)
Drained ==
  /\ run \in Emptied \union {"exited"} => \A d \in Deliveries : callback[d] \notin Waits
  /\ run \in {"stopWorker", "closeGateway", "closing", "exited"} =>
       \A d \in Deliveries : handler[d] \notin {"running", "cancelled"}

(* The worker is joined before the drains, and stopped after them. *)
WorkerStage ==
  /\ run \in Before \union {"boot"} => worker = "none"
  /\ worker = "starting" => run \in {"starting", "settle"}
  /\ run \in {"closeGateway", "closing", "exited"} => worker # "up"

(* What is known of the error at each stage. *)
ErrorStage ==
  /\ run \notin After => error = "none" /\ ended = "none"
  /\ run \notin {"closeGateway", "closing", "exited"} => "cleanup" \notin faults
  /\ run \in After =>
       /\ ended # "none"
       /\ error = IF ended # "stop" THEN ended
                  ELSE IF "cleanup" \in faults THEN "cleanup" ELSE "none"

BridgeInv ==
  /\ TypeOK /\ GateStage /\ StoreStage /\ NothingEarly /\ SpawnedLast /\ Drained
  /\ WorkerStage /\ ErrorStage

-----------------------------------------------------------------------------
(* The two halves of TypeOK that a step of the runtime may disturb. *)
Placed ==
  /\ run \in Stages
  /\ store \in {"closed", "open", "null"} /\ stop \in BOOLEAN
  /\ discord \in {"connecting", "ready", "failed", "closed"}
  /\ worker \in {"none", "starting", "up", "failed", "cancelled", "stopped"}
  /\ gate \in {"shut", "open", "closed"}

Blamed ==
  /\ error \in {"none", "killed"} \union Faults
  /\ ended \in {"none", "killed", "login", "stop", "gateway", "start"}
  /\ faults \subseteq Faults

LEMMA Delivery ==
    ASSUME NEW m \in Messages, NEW n \in 1..MaxDeliveries[m]
    PROVE  <<m, n>> \in Deliveries
  BY DEF Deliveries

LEMMA CallbackTyped ==
    ASSUME BridgeInv, [Next]_vars
    PROVE  callback' \in [Deliveries -> {"none", "duplicate", "over"} \union Waits]
<1>1. CASE Signal \/ Killed \/ DiscordReady \/ DiscordFails \/ WorkerStarts \/ WorkerFails
  BY <1>1
  DEF Signal, Killed, DiscordReady, DiscordFails, WorkerStarts, WorkerFails, BridgeInv, vars,
      tasks, TypeOK, Waits
<1>2. CASE Login \/ LoginFails \/ OpenStore \/ Hydrate
  BY <1>2 DEF Login, LoginFails, OpenStore, Hydrate, BridgeInv, vars, tasks, TypeOK, Waits
<1>3. CASE BootFails \/ BootStopped \/ StartingFails \/ StartingStopped \/ StartFailed \/
           ServingFails \/ ServingStopped
  BY <1>3
  DEF BootFails, Leaves, BootStopped, StartingFails, StartingStopped, StartFailed, ServingFails,
      ServingStopped, BridgeInv, vars, tasks, TypeOK, Waits
<1>4. CASE StartWorker \/ Serve \/ SettleStart
  BY <1>4 DEF StartWorker, Serve, SettleStart, Or, BridgeInv, vars, tasks, TypeOK, Waits
<1>5. CASE DrainIngress
  BY <1>5 DEF DrainIngress, BridgeInv, vars, tasks, TypeOK, Waits
<1>6. CASE DrainTurns
  BY <1>6 DEF DrainTurns, BridgeInv, vars, tasks, TypeOK, Waits
<1>7. CASE TurnsJoined \/ StopWorker \/ CloseGateway \/ Close
  BY <1>7
  DEF TurnsJoined, StopWorker, Cleanup, Or, CloseGateway, Close, BridgeInv, vars, tasks, TypeOK,
      Waits
<1>8. ASSUME NEW m \in Messages, NEW n \in 1..MaxDeliveries[m], OnMessage(m, n)
      PROVE  callback' \in [Deliveries -> {"none", "duplicate", "over"} \union Waits]
  BY <1>8, Delivery DEF OnMessage, AlreadySeen, BridgeInv, vars, tasks, TypeOK, Waits
<1>9. ASSUME NEW d \in Deliveries, Spawns(d)
      PROVE  callback' \in [Deliveries -> {"none", "duplicate", "over"} \union Waits]
  BY <1>9 DEF Spawns, CallbackGoesOn, BridgeInv, vars, tasks, TypeOK, Waits
<1>10. ASSUME NEW d \in Deliveries, ThreadOpened(d)
      PROVE  callback' \in [Deliveries -> {"none", "duplicate", "over"} \union Waits]
  BY <1>10 DEF ThreadOpened, CallbackGoesOn, BridgeInv, vars, tasks, TypeOK, Waits
<1>11. ASSUME NEW d \in Deliveries, Refused(d)
      PROVE  callback' \in [Deliveries -> {"none", "duplicate", "over"} \union Waits]
  BY <1>11 DEF Refused, CallbackGoesOn, BridgeInv, vars, tasks, TypeOK, Waits
<1>12. ASSUME NEW d \in Deliveries, CallbackEnds(d)
      PROVE  callback' \in [Deliveries -> {"none", "duplicate", "over"} \union Waits]
  BY <1>12 DEF CallbackEnds, CallbackGoesOn, BridgeInv, vars, tasks, TypeOK, Waits
<1>13. ASSUME NEW d \in Deliveries, TurnEnds(d)
      PROVE  callback' \in [Deliveries -> {"none", "duplicate", "over"} \union Waits]
  BY <1>13 DEF TurnEnds, BridgeInv, vars, tasks, TypeOK, Waits
<1>14. CASE Exited \/ UNCHANGED vars
  BY <1>14 DEF Exited, vars, tasks, BridgeInv, TypeOK, Waits
<1> QED
  BY <1>1, <1>2, <1>3, <1>4, <1>5, <1>6, <1>7, <1>8, <1>9, <1>10, <1>11, <1>12, <1>13, <1>14
  DEF Next, Runtime

LEMMA HandlerTyped ==
    ASSUME BridgeInv, [Next]_vars
    PROVE  handler' \in [Deliveries -> {"none", "running", "cancelled", "over"}]
<1>1. CASE Signal \/ Killed \/ DiscordReady \/ DiscordFails \/ WorkerStarts \/ WorkerFails
  BY <1>1
  DEF Signal, Killed, DiscordReady, DiscordFails, WorkerStarts, WorkerFails, BridgeInv, vars,
      tasks, TypeOK
<1>2. CASE Login \/ LoginFails \/ OpenStore \/ Hydrate
  BY <1>2 DEF Login, LoginFails, OpenStore, Hydrate, BridgeInv, vars, tasks, TypeOK
<1>3. CASE BootFails \/ BootStopped \/ StartingFails \/ StartingStopped \/ StartFailed \/
           ServingFails \/ ServingStopped
  BY <1>3
  DEF BootFails, Leaves, BootStopped, StartingFails, StartingStopped, StartFailed, ServingFails,
      ServingStopped, BridgeInv, vars, tasks, TypeOK
<1>4. CASE StartWorker \/ Serve \/ SettleStart
  BY <1>4 DEF StartWorker, Serve, SettleStart, Or, BridgeInv, vars, tasks, TypeOK
<1>5. CASE DrainIngress
  BY <1>5 DEF DrainIngress, BridgeInv, vars, tasks, TypeOK
<1>6. CASE DrainTurns
  BY <1>6 DEF DrainTurns, BridgeInv, vars, tasks, TypeOK
<1>7. CASE TurnsJoined \/ StopWorker \/ CloseGateway \/ Close
  BY <1>7
  DEF TurnsJoined, StopWorker, Cleanup, Or, CloseGateway, Close, BridgeInv, vars, tasks, TypeOK
<1>8. ASSUME NEW m \in Messages, NEW n \in 1..MaxDeliveries[m], OnMessage(m, n)
      PROVE  handler' \in [Deliveries -> {"none", "running", "cancelled", "over"}]
  BY <1>8, Delivery DEF OnMessage, AlreadySeen, BridgeInv, vars, tasks, TypeOK
<1>9. ASSUME NEW d \in Deliveries, Spawns(d)
      PROVE  handler' \in [Deliveries -> {"none", "running", "cancelled", "over"}]
  BY <1>9 DEF Spawns, CallbackGoesOn, BridgeInv, vars, tasks, TypeOK
<1>10. ASSUME NEW d \in Deliveries, ThreadOpened(d)
      PROVE  handler' \in [Deliveries -> {"none", "running", "cancelled", "over"}]
  BY <1>10 DEF ThreadOpened, CallbackGoesOn, BridgeInv, vars, tasks, TypeOK
<1>11. ASSUME NEW d \in Deliveries, Refused(d)
      PROVE  handler' \in [Deliveries -> {"none", "running", "cancelled", "over"}]
  BY <1>11 DEF Refused, CallbackGoesOn, BridgeInv, vars, tasks, TypeOK
<1>12. ASSUME NEW d \in Deliveries, CallbackEnds(d)
      PROVE  handler' \in [Deliveries -> {"none", "running", "cancelled", "over"}]
  BY <1>12 DEF CallbackEnds, CallbackGoesOn, BridgeInv, vars, tasks, TypeOK
<1>13. ASSUME NEW d \in Deliveries, TurnEnds(d)
      PROVE  handler' \in [Deliveries -> {"none", "running", "cancelled", "over"}]
  BY <1>13 DEF TurnEnds, BridgeInv, vars, tasks, TypeOK
<1>14. CASE Exited \/ UNCHANGED vars
  BY <1>14 DEF Exited, vars, tasks, BridgeInv, TypeOK
<1> QED
  BY <1>1, <1>2, <1>3, <1>4, <1>5, <1>6, <1>7, <1>8, <1>9, <1>10, <1>11, <1>12, <1>13, <1>14
  DEF Next, Runtime

LEMMA StageTyped ==
    ASSUME BridgeInv, [Next]_vars
    PROVE  Placed'
<1>1. CASE Signal
  BY <1>1 DEF Signal, BridgeInv, vars, tasks, TypeOK, Placed, Stages, Before
<1>2. CASE Killed
  BY <1>2 DEF Killed, BridgeInv, vars, tasks, TypeOK, Placed, Stages, Before
<1>3. CASE DiscordReady
  BY <1>3 DEF DiscordReady, BridgeInv, vars, tasks, TypeOK, Placed, Stages, Before
<1>4. CASE DiscordFails
  BY <1>4 DEF DiscordFails, BridgeInv, vars, tasks, TypeOK, Placed, Stages, Before
<1>5. CASE WorkerStarts
  BY <1>5 DEF WorkerStarts, BridgeInv, vars, tasks, TypeOK, Placed, Stages, Before
<1>6. CASE WorkerFails
  BY <1>6 DEF WorkerFails, BridgeInv, vars, tasks, TypeOK, Placed, Stages, Before
<1>7. CASE Login \/ LoginFails \/ OpenStore \/ Hydrate
  BY <1>7
  DEF Login, LoginFails, OpenStore, Hydrate, BridgeInv, vars, tasks, TypeOK, Placed, Stages,
      Before
<1>8. CASE BootFails \/ BootStopped \/ StartingFails \/ StartingStopped \/ StartFailed \/
           ServingFails \/ ServingStopped
  BY <1>8
  DEF BootFails, Leaves, BootStopped, StartingFails, StartingStopped, StartFailed, ServingFails,
      ServingStopped, BridgeInv, vars, tasks, TypeOK, Placed, Stages, Before
<1>9. CASE StartWorker \/ Serve \/ SettleStart
  BY <1>9
  DEF StartWorker, Serve, SettleStart, Or, BridgeInv, vars, tasks, TypeOK, Placed, Stages,
      Before
<1>10. CASE DrainIngress
  BY <1>10 DEF DrainIngress, BridgeInv, vars, tasks, TypeOK, Placed, Stages, Before
<1>11. CASE DrainTurns
  BY <1>11 DEF DrainTurns, BridgeInv, vars, tasks, TypeOK, Placed, Stages, Before
<1>12. CASE TurnsJoined \/ StopWorker \/ CloseGateway \/ Close
  BY <1>12
  DEF TurnsJoined, StopWorker, Cleanup, Or, CloseGateway, Close, BridgeInv, vars, tasks, TypeOK,
      Placed, Stages, Before
<1>13. ASSUME NEW m \in Messages, NEW n \in 1..MaxDeliveries[m], OnMessage(m, n)
      PROVE  Placed'
  BY <1>13, Delivery
  DEF OnMessage, AlreadySeen, BridgeInv, vars, tasks, TypeOK, Placed, Stages, Before
<1>14. ASSUME NEW d \in Deliveries, Spawns(d)
      PROVE  Placed'
  BY <1>14 DEF Spawns, CallbackGoesOn, BridgeInv, vars, tasks, TypeOK, Placed, Stages, Before
<1>15. ASSUME NEW d \in Deliveries, ThreadOpened(d)
      PROVE  Placed'
  BY <1>15
  DEF ThreadOpened, CallbackGoesOn, BridgeInv, vars, tasks, TypeOK, Placed, Stages, Before
<1>16. ASSUME NEW d \in Deliveries, Refused(d)
      PROVE  Placed'
  BY <1>16 DEF Refused, CallbackGoesOn, BridgeInv, vars, tasks, TypeOK, Placed, Stages, Before
<1>17. ASSUME NEW d \in Deliveries, CallbackEnds(d)
      PROVE  Placed'
  BY <1>17
  DEF CallbackEnds, CallbackGoesOn, BridgeInv, vars, tasks, TypeOK, Placed, Stages, Before
<1>18. ASSUME NEW d \in Deliveries, TurnEnds(d)
      PROVE  Placed'
  BY <1>18 DEF TurnEnds, BridgeInv, vars, tasks, TypeOK, Placed, Stages, Before
<1>19. CASE Exited \/ UNCHANGED vars
  BY <1>19 DEF Exited, vars, tasks, BridgeInv, TypeOK, Placed, Stages, Before
<1> QED
  BY <1>1, <1>2, <1>3, <1>4, <1>5, <1>6, <1>7, <1>8, <1>9, <1>10, <1>11, <1>12, <1>13, <1>14,
     <1>15, <1>16, <1>17, <1>18, <1>19
  DEF Next, Runtime

LEMMA ErrorTyped ==
    ASSUME BridgeInv, [Next]_vars
    PROVE  Blamed'
<1>1. CASE Signal
  BY <1>1 DEF Signal, BridgeInv, vars, tasks, TypeOK, Blamed, Faults
<1>2. CASE Killed
  BY <1>2 DEF Killed, BridgeInv, vars, tasks, TypeOK, Blamed, Faults
<1>3. CASE DiscordReady
  BY <1>3 DEF DiscordReady, BridgeInv, vars, tasks, TypeOK, Blamed, Faults
<1>4. CASE DiscordFails
  BY <1>4 DEF DiscordFails, BridgeInv, vars, tasks, TypeOK, Blamed, Faults
<1>5. CASE WorkerStarts
  BY <1>5 DEF WorkerStarts, BridgeInv, vars, tasks, TypeOK, Blamed, Faults
<1>6. CASE WorkerFails
  BY <1>6 DEF WorkerFails, BridgeInv, vars, tasks, TypeOK, Blamed, Faults
<1>7. CASE Login
  BY <1>7 DEF Login, BridgeInv, vars, tasks, TypeOK, Blamed, Faults
<1>8. CASE LoginFails
  BY <1>8 DEF LoginFails, BridgeInv, vars, tasks, TypeOK, Blamed, Faults
<1>9. CASE OpenStore
  BY <1>9 DEF OpenStore, BridgeInv, vars, tasks, TypeOK, Blamed, Faults
<1>10. CASE Hydrate
  BY <1>10 DEF Hydrate, BridgeInv, vars, tasks, TypeOK, Blamed, Faults
<1>11. CASE BootFails \/ BootStopped \/ StartingFails \/ StartingStopped \/ StartFailed \/
           ServingFails \/ ServingStopped
  BY <1>11
  DEF BootFails, Leaves, BootStopped, StartingFails, StartingStopped, StartFailed, ServingFails,
      ServingStopped, BridgeInv, vars, tasks, TypeOK, Blamed, Faults
<1>12. CASE StartWorker \/ Serve
  BY <1>12 DEF StartWorker, Serve, BridgeInv, vars, tasks, TypeOK, Blamed, Faults
<1>13. CASE SettleStart
  BY <1>13 DEF SettleStart, Or, BridgeInv, vars, tasks, TypeOK, Blamed, Faults
<1>14. CASE DrainIngress \/ DrainTurns \/ TurnsJoined \/ Close
  BY <1>14
  DEF DrainIngress, DrainTurns, TurnsJoined, Close, BridgeInv, vars, tasks, TypeOK, Blamed,
      Faults
<1>15. CASE StopWorker
  BY <1>15 DEF StopWorker, Cleanup, Or, BridgeInv, vars, tasks, TypeOK, Blamed, Faults
<1>16. CASE CloseGateway
  BY <1>16 DEF CloseGateway, Cleanup, Or, BridgeInv, vars, tasks, TypeOK, Blamed, Faults
<1>17. ASSUME NEW m \in Messages, NEW n \in 1..MaxDeliveries[m], OnMessage(m, n)
      PROVE  Blamed'
  BY <1>17, Delivery DEF OnMessage, AlreadySeen, BridgeInv, vars, tasks, TypeOK, Blamed, Faults
<1>18. ASSUME NEW d \in Deliveries, Spawns(d)
      PROVE  Blamed'
  BY <1>18 DEF Spawns, CallbackGoesOn, BridgeInv, vars, tasks, TypeOK, Blamed, Faults
<1>19. ASSUME NEW d \in Deliveries, ThreadOpened(d)
      PROVE  Blamed'
  BY <1>19 DEF ThreadOpened, CallbackGoesOn, BridgeInv, vars, tasks, TypeOK, Blamed, Faults
<1>20. ASSUME NEW d \in Deliveries, Refused(d)
      PROVE  Blamed'
  BY <1>20 DEF Refused, CallbackGoesOn, BridgeInv, vars, tasks, TypeOK, Blamed, Faults
<1>21. ASSUME NEW d \in Deliveries, CallbackEnds(d)
      PROVE  Blamed'
  BY <1>21 DEF CallbackEnds, CallbackGoesOn, BridgeInv, vars, tasks, TypeOK, Blamed, Faults
<1>22. ASSUME NEW d \in Deliveries, TurnEnds(d)
      PROVE  Blamed'
  BY <1>22 DEF TurnEnds, BridgeInv, vars, tasks, TypeOK, Blamed, Faults
<1>23. CASE Exited \/ UNCHANGED vars
  BY <1>23 DEF Exited, vars, tasks, BridgeInv, TypeOK, Blamed, Faults
<1> QED
  BY <1>1, <1>2, <1>3, <1>4, <1>5, <1>6, <1>7, <1>8, <1>9, <1>10, <1>11, <1>12, <1>13, <1>14,
     <1>15, <1>16, <1>17, <1>18, <1>19, <1>20, <1>21, <1>22, <1>23
  DEF Next, Runtime

LEMMA GateStagePreserved ==
    ASSUME BridgeInv, [Next]_vars
    PROVE  GateStage'
<1>1. CASE Signal \/ Killed \/ DiscordReady \/ DiscordFails \/ WorkerStarts \/ WorkerFails
  BY <1>1
  DEF Signal, Killed, DiscordReady, DiscordFails, WorkerStarts, WorkerFails, BridgeInv, vars,
      tasks, GateStage, Before, After, Emptied
<1>2. CASE Login \/ LoginFails \/ OpenStore \/ Hydrate
  BY <1>2
  DEF Login, LoginFails, OpenStore, Hydrate, BridgeInv, vars, tasks, GateStage, Before, After,
      Emptied
<1>3. CASE BootFails \/ BootStopped \/ StartingFails \/ StartingStopped \/ StartFailed \/
           ServingFails \/ ServingStopped
  BY <1>3
  DEF BootFails, Leaves, BootStopped, StartingFails, StartingStopped, StartFailed, ServingFails,
      ServingStopped, BridgeInv, vars, tasks, GateStage, Before, After, Emptied
<1>4. CASE StartWorker \/ Serve \/ SettleStart
  BY <1>4
  DEF StartWorker, Serve, SettleStart, Or, BridgeInv, vars, tasks, GateStage, Before, After,
      Emptied
<1>5. CASE DrainIngress
  BY <1>5 DEF DrainIngress, BridgeInv, vars, tasks, GateStage, Before, After, Emptied
<1>6. CASE DrainTurns
  BY <1>6 DEF DrainTurns, BridgeInv, vars, tasks, GateStage, Before, After, Emptied
<1>7. CASE TurnsJoined \/ StopWorker \/ CloseGateway \/ Close
  BY <1>7
  DEF TurnsJoined, StopWorker, Cleanup, Or, CloseGateway, Close, BridgeInv, vars, tasks,
      GateStage, Before, After, Emptied
<1>8. ASSUME NEW m \in Messages, NEW n \in 1..MaxDeliveries[m], OnMessage(m, n)
      PROVE  GateStage'
  BY <1>8, Delivery
  DEF OnMessage, AlreadySeen, BridgeInv, vars, tasks, GateStage, Before, After, Emptied
<1>9. ASSUME NEW d \in Deliveries, Spawns(d)
      PROVE  GateStage'
  BY <1>9 DEF Spawns, CallbackGoesOn, BridgeInv, vars, tasks, GateStage, Before, After, Emptied
<1>10. ASSUME NEW d \in Deliveries, ThreadOpened(d)
      PROVE  GateStage'
  BY <1>10
  DEF ThreadOpened, CallbackGoesOn, BridgeInv, vars, tasks, GateStage, Before, After, Emptied
<1>11. ASSUME NEW d \in Deliveries, Refused(d)
      PROVE  GateStage'
  BY <1>11 DEF Refused, CallbackGoesOn, BridgeInv, vars, tasks, GateStage, Before, After, Emptied
<1>12. ASSUME NEW d \in Deliveries, CallbackEnds(d)
      PROVE  GateStage'
  BY <1>12
  DEF CallbackEnds, CallbackGoesOn, BridgeInv, vars, tasks, GateStage, Before, After, Emptied
<1>13. ASSUME NEW d \in Deliveries, TurnEnds(d)
      PROVE  GateStage'
  BY <1>13 DEF TurnEnds, BridgeInv, vars, tasks, GateStage, Before, After, Emptied
<1>14. CASE Exited \/ UNCHANGED vars
  BY <1>14 DEF Exited, vars, tasks, BridgeInv, GateStage, Before, After, Emptied
<1> QED
  BY <1>1, <1>2, <1>3, <1>4, <1>5, <1>6, <1>7, <1>8, <1>9, <1>10, <1>11, <1>12, <1>13, <1>14
  DEF Next, Runtime

LEMMA StoreStagePreserved ==
    ASSUME BridgeInv, [Next]_vars
    PROVE  StoreStage'
<1>1. CASE Signal \/ Killed \/ DiscordReady \/ DiscordFails \/ WorkerStarts \/ WorkerFails
  BY <1>1
  DEF Signal, Killed, DiscordReady, DiscordFails, WorkerStarts, WorkerFails, BridgeInv, vars,
      tasks, GateStage, StoreStage, Before, After, Emptied
<1>2. CASE Login
  BY <1>2 DEF Login, BridgeInv, vars, tasks, GateStage, StoreStage, Before, After, Emptied
<1>3. CASE LoginFails
  BY <1>3 DEF LoginFails, BridgeInv, vars, tasks, GateStage, StoreStage, Before, After, Emptied
<1>4. CASE OpenStore
  BY <1>4 DEF OpenStore, BridgeInv, vars, tasks, GateStage, StoreStage, Before, After, Emptied
<1>5. CASE Hydrate
  BY <1>5 DEF Hydrate, BridgeInv, vars, tasks, GateStage, StoreStage, Before, After, Emptied
<1>6. CASE BootFails \/ BootStopped \/ StartingFails \/ StartingStopped \/ StartFailed \/
           ServingFails \/ ServingStopped
  BY <1>6
  DEF BootFails, Leaves, BootStopped, StartingFails, StartingStopped, StartFailed, ServingFails,
      ServingStopped, BridgeInv, vars, tasks, GateStage, StoreStage, Before, After, Emptied
<1>7. CASE StartWorker \/ Serve \/ SettleStart
  BY <1>7
  DEF StartWorker, Serve, SettleStart, Or, BridgeInv, vars, tasks, GateStage, StoreStage,
      Before, After, Emptied
<1>8. CASE DrainIngress
  BY <1>8 DEF DrainIngress, BridgeInv, vars, tasks, GateStage, StoreStage, Before, After, Emptied
<1>9. CASE DrainTurns
  BY <1>9 DEF DrainTurns, BridgeInv, vars, tasks, GateStage, StoreStage, Before, After, Emptied
<1>10. CASE TurnsJoined \/ StopWorker \/ CloseGateway \/ Close
  BY <1>10
  DEF TurnsJoined, StopWorker, Cleanup, Or, CloseGateway, Close, BridgeInv, vars, tasks,
      GateStage, StoreStage, Before, After, Emptied
<1>11. ASSUME NEW m \in Messages, NEW n \in 1..MaxDeliveries[m], OnMessage(m, n)
      PROVE  StoreStage'
  BY <1>11, Delivery
  DEF OnMessage, AlreadySeen, BridgeInv, vars, tasks, GateStage, StoreStage, Before, After,
      Emptied
<1>12. ASSUME NEW d \in Deliveries, Spawns(d)
      PROVE  StoreStage'
  BY <1>12
  DEF Spawns, CallbackGoesOn, BridgeInv, vars, tasks, GateStage, StoreStage, Before, After,
      Emptied
<1>13. ASSUME NEW d \in Deliveries, ThreadOpened(d)
      PROVE  StoreStage'
  BY <1>13
  DEF ThreadOpened, CallbackGoesOn, BridgeInv, vars, tasks, GateStage, StoreStage, Before,
      After, Emptied
<1>14. ASSUME NEW d \in Deliveries, Refused(d)
      PROVE  StoreStage'
  BY <1>14
  DEF Refused, CallbackGoesOn, BridgeInv, vars, tasks, GateStage, StoreStage, Before, After,
      Emptied
<1>15. ASSUME NEW d \in Deliveries, CallbackEnds(d)
      PROVE  StoreStage'
  BY <1>15
  DEF CallbackEnds, CallbackGoesOn, BridgeInv, vars, tasks, GateStage, StoreStage, Before,
      After, Emptied
<1>16. ASSUME NEW d \in Deliveries, TurnEnds(d)
      PROVE  StoreStage'
  BY <1>16 DEF TurnEnds, BridgeInv, vars, tasks, GateStage, StoreStage, Before, After, Emptied
<1>17. CASE Exited \/ UNCHANGED vars
  BY <1>17 DEF Exited, vars, tasks, BridgeInv, GateStage, StoreStage, Before, After, Emptied
<1> QED
  BY <1>1, <1>2, <1>3, <1>4, <1>5, <1>6, <1>7, <1>8, <1>9, <1>10, <1>11, <1>12, <1>13, <1>14,
     <1>15, <1>16, <1>17
  DEF Next, Runtime

LEMMA NothingEarlyPreserved ==
    ASSUME BridgeInv, [Next]_vars
    PROVE  NothingEarly'
<1>1. CASE Signal \/ Killed \/ DiscordReady \/ DiscordFails \/ WorkerStarts \/ WorkerFails
  BY <1>1
  DEF Signal, Killed, DiscordReady, DiscordFails, WorkerStarts, WorkerFails, BridgeInv, vars,
      tasks, NothingEarly, GateStage, TypeOK, Waits, Before, After, Emptied
<1>2. CASE Login \/ LoginFails \/ OpenStore \/ Hydrate
  BY <1>2
  DEF Login, LoginFails, OpenStore, Hydrate, BridgeInv, vars, tasks, NothingEarly, GateStage,
      TypeOK, Waits, Before, After, Emptied
<1>3. CASE BootFails \/ BootStopped \/ StartingFails \/ StartingStopped \/ StartFailed \/
           ServingFails \/ ServingStopped
  BY <1>3
  DEF BootFails, Leaves, BootStopped, StartingFails, StartingStopped, StartFailed, ServingFails,
      ServingStopped, BridgeInv, vars, tasks, NothingEarly, GateStage, TypeOK, Waits, Before,
      After, Emptied
<1>4. CASE StartWorker \/ Serve \/ SettleStart
  BY <1>4
  DEF StartWorker, Serve, SettleStart, Or, BridgeInv, vars, tasks, NothingEarly, GateStage,
      TypeOK, Waits, Before, After, Emptied
<1>5. CASE DrainIngress
  BY <1>5
  DEF DrainIngress, BridgeInv, vars, tasks, NothingEarly, GateStage, TypeOK, Waits, Before,
      After, Emptied
<1>6. CASE DrainTurns
  BY <1>6
  DEF DrainTurns, BridgeInv, vars, tasks, NothingEarly, GateStage, TypeOK, Waits, Before, After,
      Emptied
<1>7. CASE TurnsJoined \/ StopWorker \/ CloseGateway \/ Close
  BY <1>7
  DEF TurnsJoined, StopWorker, Cleanup, Or, CloseGateway, Close, BridgeInv, vars, tasks,
      NothingEarly, GateStage, TypeOK, Waits, Before, After, Emptied
<1>8. ASSUME NEW m \in Messages, NEW n \in 1..MaxDeliveries[m], OnMessage(m, n)
      PROVE  NothingEarly'
  BY <1>8, Delivery
  DEF OnMessage, AlreadySeen, BridgeInv, vars, tasks, NothingEarly, GateStage, TypeOK, Waits,
      Before, After, Emptied
<1>9. ASSUME NEW d \in Deliveries, Spawns(d)
      PROVE  NothingEarly'
  BY <1>9
  DEF Spawns, CallbackGoesOn, BridgeInv, vars, tasks, NothingEarly, GateStage, TypeOK, Waits,
      Before, After, Emptied
<1>10. ASSUME NEW d \in Deliveries, ThreadOpened(d)
      PROVE  NothingEarly'
  BY <1>10
  DEF ThreadOpened, CallbackGoesOn, BridgeInv, vars, tasks, NothingEarly, GateStage, TypeOK,
      Waits, Before, After, Emptied
<1>11. ASSUME NEW d \in Deliveries, Refused(d)
      PROVE  NothingEarly'
  BY <1>11
  DEF Refused, CallbackGoesOn, BridgeInv, vars, tasks, NothingEarly, GateStage, TypeOK, Waits,
      Before, After, Emptied
<1>12. ASSUME NEW d \in Deliveries, CallbackEnds(d)
      PROVE  NothingEarly'
  BY <1>12
  DEF CallbackEnds, CallbackGoesOn, BridgeInv, vars, tasks, NothingEarly, GateStage, TypeOK,
      Waits, Before, After, Emptied
<1>13. ASSUME NEW d \in Deliveries, TurnEnds(d)
      PROVE  NothingEarly'
  BY <1>13
  DEF TurnEnds, BridgeInv, vars, tasks, NothingEarly, GateStage, TypeOK, Waits, Before, After,
      Emptied
<1>14. CASE Exited \/ UNCHANGED vars
  BY <1>14
  DEF Exited, vars, tasks, BridgeInv, NothingEarly, GateStage, TypeOK, Waits, Before, After,
      Emptied
<1> QED
  BY <1>1, <1>2, <1>3, <1>4, <1>5, <1>6, <1>7, <1>8, <1>9, <1>10, <1>11, <1>12, <1>13, <1>14
  DEF Next, Runtime

LEMMA SpawnedLastPreserved ==
    ASSUME BridgeInv, [Next]_vars
    PROVE  SpawnedLast'
<1>1. CASE Signal \/ Killed \/ DiscordReady \/ DiscordFails \/ WorkerStarts \/ WorkerFails
  BY <1>1
  DEF Signal, Killed, DiscordReady, DiscordFails, WorkerStarts, WorkerFails, BridgeInv, vars,
      tasks, SpawnedLast, TypeOK, Waits
<1>2. CASE Login \/ LoginFails \/ OpenStore \/ Hydrate
  BY <1>2
  DEF Login, LoginFails, OpenStore, Hydrate, BridgeInv, vars, tasks, SpawnedLast, TypeOK, Waits
<1>3. CASE BootFails \/ BootStopped \/ StartingFails \/ StartingStopped \/ StartFailed \/
           ServingFails \/ ServingStopped
  BY <1>3
  DEF BootFails, Leaves, BootStopped, StartingFails, StartingStopped, StartFailed, ServingFails,
      ServingStopped, BridgeInv, vars, tasks, SpawnedLast, TypeOK, Waits
<1>4. CASE StartWorker \/ Serve \/ SettleStart
  BY <1>4
  DEF StartWorker, Serve, SettleStart, Or, BridgeInv, vars, tasks, SpawnedLast, TypeOK, Waits
<1>5. CASE DrainIngress
  BY <1>5 DEF DrainIngress, BridgeInv, vars, tasks, SpawnedLast, TypeOK, Waits
<1>6. CASE DrainTurns
  BY <1>6 DEF DrainTurns, BridgeInv, vars, tasks, SpawnedLast, TypeOK, Waits
<1>7. CASE TurnsJoined \/ StopWorker \/ CloseGateway \/ Close
  BY <1>7
  DEF TurnsJoined, StopWorker, Cleanup, Or, CloseGateway, Close, BridgeInv, vars, tasks,
      SpawnedLast, TypeOK, Waits
<1>8. ASSUME NEW m \in Messages, NEW n \in 1..MaxDeliveries[m], OnMessage(m, n)
      PROVE  SpawnedLast'
  BY <1>8, Delivery DEF OnMessage, AlreadySeen, BridgeInv, vars, tasks, SpawnedLast, TypeOK, Waits
<1>9. ASSUME NEW d \in Deliveries, Spawns(d)
      PROVE  SpawnedLast'
  BY <1>9 DEF Spawns, CallbackGoesOn, BridgeInv, vars, tasks, SpawnedLast, TypeOK, Waits
<1>10. ASSUME NEW d \in Deliveries, ThreadOpened(d)
      PROVE  SpawnedLast'
  BY <1>10 DEF ThreadOpened, CallbackGoesOn, BridgeInv, vars, tasks, SpawnedLast, TypeOK, Waits
<1>11. ASSUME NEW d \in Deliveries, Refused(d)
      PROVE  SpawnedLast'
  BY <1>11 DEF Refused, CallbackGoesOn, BridgeInv, vars, tasks, SpawnedLast, TypeOK, Waits
<1>12. ASSUME NEW d \in Deliveries, CallbackEnds(d)
      PROVE  SpawnedLast'
  BY <1>12 DEF CallbackEnds, CallbackGoesOn, BridgeInv, vars, tasks, SpawnedLast, TypeOK, Waits
<1>13. ASSUME NEW d \in Deliveries, TurnEnds(d)
      PROVE  SpawnedLast'
  BY <1>13 DEF TurnEnds, BridgeInv, vars, tasks, SpawnedLast, TypeOK, Waits
<1>14. CASE Exited \/ UNCHANGED vars
  BY <1>14 DEF Exited, vars, tasks, BridgeInv, SpawnedLast, TypeOK, Waits
<1> QED
  BY <1>1, <1>2, <1>3, <1>4, <1>5, <1>6, <1>7, <1>8, <1>9, <1>10, <1>11, <1>12, <1>13, <1>14
  DEF Next, Runtime

LEMMA DrainedPreserved ==
    ASSUME BridgeInv, [Next]_vars
    PROVE  Drained'
<1>1. CASE Signal \/ Killed \/ DiscordReady \/ DiscordFails \/ WorkerStarts \/ WorkerFails
  BY <1>1
  DEF Signal, Killed, DiscordReady, DiscordFails, WorkerStarts, WorkerFails, BridgeInv, vars,
      tasks, Drained, GateStage, NothingEarly, SpawnedLast, TypeOK, Waits, Before, After,
      Emptied
<1>2. CASE Login \/ LoginFails \/ OpenStore \/ Hydrate
  BY <1>2
  DEF Login, LoginFails, OpenStore, Hydrate, BridgeInv, vars, tasks, Drained, GateStage,
      NothingEarly, SpawnedLast, TypeOK, Waits, Before, After, Emptied
<1>3. CASE BootFails \/ BootStopped \/ StartingFails \/ StartingStopped \/ StartFailed \/
           ServingFails \/ ServingStopped
  BY <1>3
  DEF BootFails, Leaves, BootStopped, StartingFails, StartingStopped, StartFailed, ServingFails,
      ServingStopped, BridgeInv, vars, tasks, Drained, GateStage, NothingEarly, SpawnedLast,
      TypeOK, Waits, Before, After, Emptied
<1>4. CASE StartWorker \/ Serve \/ SettleStart
  BY <1>4
  DEF StartWorker, Serve, SettleStart, Or, BridgeInv, vars, tasks, Drained, GateStage,
      NothingEarly, SpawnedLast, TypeOK, Waits, Before, After, Emptied
<1>5. CASE DrainIngress
  BY <1>5
  DEF DrainIngress, BridgeInv, vars, tasks, Drained, GateStage, NothingEarly, SpawnedLast,
      TypeOK, Waits, Before, After, Emptied
<1>6. CASE DrainTurns
  BY <1>6
  DEF DrainTurns, BridgeInv, vars, tasks, Drained, GateStage, NothingEarly, SpawnedLast, TypeOK,
      Waits, Before, After, Emptied
<1>7. CASE TurnsJoined \/ StopWorker \/ CloseGateway \/ Close
  BY <1>7
  DEF TurnsJoined, StopWorker, Cleanup, Or, CloseGateway, Close, BridgeInv, vars, tasks,
      Drained, GateStage, NothingEarly, SpawnedLast, TypeOK, Waits, Before, After, Emptied
<1>8. ASSUME NEW m \in Messages, NEW n \in 1..MaxDeliveries[m], OnMessage(m, n)
      PROVE  Drained'
  BY <1>8, Delivery
  DEF OnMessage, AlreadySeen, BridgeInv, vars, tasks, Drained, GateStage, NothingEarly,
      SpawnedLast, TypeOK, Waits, Before, After, Emptied
<1>9. ASSUME NEW d \in Deliveries, Spawns(d)
      PROVE  Drained'
  BY <1>9
  DEF Spawns, CallbackGoesOn, BridgeInv, vars, tasks, Drained, GateStage, NothingEarly,
      SpawnedLast, TypeOK, Waits, Before, After, Emptied
<1>10. ASSUME NEW d \in Deliveries, ThreadOpened(d)
      PROVE  Drained'
  BY <1>10
  DEF ThreadOpened, CallbackGoesOn, BridgeInv, vars, tasks, Drained, GateStage, NothingEarly,
      SpawnedLast, TypeOK, Waits, Before, After, Emptied
<1>11. ASSUME NEW d \in Deliveries, Refused(d)
      PROVE  Drained'
  BY <1>11
  DEF Refused, CallbackGoesOn, BridgeInv, vars, tasks, Drained, GateStage, NothingEarly,
      SpawnedLast, TypeOK, Waits, Before, After, Emptied
<1>12. ASSUME NEW d \in Deliveries, CallbackEnds(d)
      PROVE  Drained'
  BY <1>12
  DEF CallbackEnds, CallbackGoesOn, BridgeInv, vars, tasks, Drained, GateStage, NothingEarly,
      SpawnedLast, TypeOK, Waits, Before, After, Emptied
<1>13. ASSUME NEW d \in Deliveries, TurnEnds(d)
      PROVE  Drained'
  BY <1>13
  DEF TurnEnds, BridgeInv, vars, tasks, Drained, GateStage, NothingEarly, SpawnedLast, TypeOK,
      Waits, Before, After, Emptied
<1>14. CASE Exited \/ UNCHANGED vars
  BY <1>14
  DEF Exited, vars, tasks, BridgeInv, Drained, GateStage, NothingEarly, SpawnedLast, TypeOK,
      Waits, Before, After, Emptied
<1> QED
  BY <1>1, <1>2, <1>3, <1>4, <1>5, <1>6, <1>7, <1>8, <1>9, <1>10, <1>11, <1>12, <1>13, <1>14
  DEF Next, Runtime

LEMMA WorkerStagePreserved ==
    ASSUME BridgeInv, [Next]_vars
    PROVE  WorkerStage'
<1>1. CASE Signal \/ Killed \/ DiscordReady \/ DiscordFails \/ WorkerStarts \/ WorkerFails
  BY <1>1
  DEF Signal, Killed, DiscordReady, DiscordFails, WorkerStarts, WorkerFails, BridgeInv, vars,
      tasks, WorkerStage, Before, After, Emptied
<1>2. CASE Login \/ LoginFails \/ OpenStore \/ Hydrate
  BY <1>2
  DEF Login, LoginFails, OpenStore, Hydrate, BridgeInv, vars, tasks, WorkerStage, Before, After,
      Emptied
<1>3. CASE BootFails \/ BootStopped \/ StartingFails \/ StartingStopped \/ StartFailed \/
           ServingFails \/ ServingStopped
  BY <1>3
  DEF BootFails, Leaves, BootStopped, StartingFails, StartingStopped, StartFailed, ServingFails,
      ServingStopped, BridgeInv, vars, tasks, WorkerStage, Before, After, Emptied
<1>4. CASE StartWorker \/ Serve \/ SettleStart
  BY <1>4
  DEF StartWorker, Serve, SettleStart, Or, BridgeInv, vars, tasks, WorkerStage, Before, After,
      Emptied
<1>5. CASE DrainIngress
  BY <1>5 DEF DrainIngress, BridgeInv, vars, tasks, WorkerStage, Before, After, Emptied
<1>6. CASE DrainTurns
  BY <1>6 DEF DrainTurns, BridgeInv, vars, tasks, WorkerStage, Before, After, Emptied
<1>7. CASE TurnsJoined \/ StopWorker \/ CloseGateway \/ Close
  BY <1>7
  DEF TurnsJoined, StopWorker, Cleanup, Or, CloseGateway, Close, BridgeInv, vars, tasks,
      WorkerStage, Before, After, Emptied
<1>8. ASSUME NEW m \in Messages, NEW n \in 1..MaxDeliveries[m], OnMessage(m, n)
      PROVE  WorkerStage'
  BY <1>8, Delivery
  DEF OnMessage, AlreadySeen, BridgeInv, vars, tasks, WorkerStage, Before, After, Emptied
<1>9. ASSUME NEW d \in Deliveries, Spawns(d)
      PROVE  WorkerStage'
  BY <1>9 DEF Spawns, CallbackGoesOn, BridgeInv, vars, tasks, WorkerStage, Before, After, Emptied
<1>10. ASSUME NEW d \in Deliveries, ThreadOpened(d)
      PROVE  WorkerStage'
  BY <1>10
  DEF ThreadOpened, CallbackGoesOn, BridgeInv, vars, tasks, WorkerStage, Before, After, Emptied
<1>11. ASSUME NEW d \in Deliveries, Refused(d)
      PROVE  WorkerStage'
  BY <1>11
  DEF Refused, CallbackGoesOn, BridgeInv, vars, tasks, WorkerStage, Before, After, Emptied
<1>12. ASSUME NEW d \in Deliveries, CallbackEnds(d)
      PROVE  WorkerStage'
  BY <1>12
  DEF CallbackEnds, CallbackGoesOn, BridgeInv, vars, tasks, WorkerStage, Before, After, Emptied
<1>13. ASSUME NEW d \in Deliveries, TurnEnds(d)
      PROVE  WorkerStage'
  BY <1>13 DEF TurnEnds, BridgeInv, vars, tasks, WorkerStage, Before, After, Emptied
<1>14. CASE Exited \/ UNCHANGED vars
  BY <1>14 DEF Exited, vars, tasks, BridgeInv, WorkerStage, Before, After, Emptied
<1> QED
  BY <1>1, <1>2, <1>3, <1>4, <1>5, <1>6, <1>7, <1>8, <1>9, <1>10, <1>11, <1>12, <1>13, <1>14
  DEF Next, Runtime

LEMMA ErrorStagePreserved ==
    ASSUME BridgeInv, [Next]_vars
    PROVE  ErrorStage'
<1>1. CASE Signal \/ Killed \/ DiscordReady \/ DiscordFails \/ WorkerStarts \/ WorkerFails
  BY <1>1
  DEF Signal, Killed, DiscordReady, DiscordFails, WorkerStarts, WorkerFails, BridgeInv, vars,
      tasks, ErrorStage, Faults, Before, After, Emptied
<1>2. CASE Login \/ LoginFails \/ OpenStore \/ Hydrate
  BY <1>2
  DEF Login, LoginFails, OpenStore, Hydrate, BridgeInv, vars, tasks, ErrorStage, Faults, Before,
      After, Emptied
<1>3. CASE BootFails \/ BootStopped \/ StartingFails \/ StartingStopped \/ StartFailed \/
           ServingFails \/ ServingStopped
  BY <1>3
  DEF BootFails, Leaves, BootStopped, StartingFails, StartingStopped, StartFailed, ServingFails,
      ServingStopped, BridgeInv, vars, tasks, ErrorStage, Faults, Before, After, Emptied
<1>4. CASE StartWorker \/ Serve \/ SettleStart
  BY <1>4
  DEF StartWorker, Serve, SettleStart, Or, BridgeInv, vars, tasks, ErrorStage, Faults, Before,
      After, Emptied
<1>5. CASE DrainIngress
  BY <1>5 DEF DrainIngress, BridgeInv, vars, tasks, ErrorStage, Faults, Before, After, Emptied
<1>6. CASE DrainTurns
  BY <1>6 DEF DrainTurns, BridgeInv, vars, tasks, ErrorStage, Faults, Before, After, Emptied
<1>7. CASE TurnsJoined \/ StopWorker \/ CloseGateway \/ Close
  BY <1>7
  DEF TurnsJoined, StopWorker, Cleanup, Or, CloseGateway, Close, BridgeInv, vars, tasks,
      ErrorStage, Faults, Before, After, Emptied
<1>8. ASSUME NEW m \in Messages, NEW n \in 1..MaxDeliveries[m], OnMessage(m, n)
      PROVE  ErrorStage'
  BY <1>8, Delivery
  DEF OnMessage, AlreadySeen, BridgeInv, vars, tasks, ErrorStage, Faults, Before, After, Emptied
<1>9. ASSUME NEW d \in Deliveries, Spawns(d)
      PROVE  ErrorStage'
  BY <1>9
  DEF Spawns, CallbackGoesOn, BridgeInv, vars, tasks, ErrorStage, Faults, Before, After, Emptied
<1>10. ASSUME NEW d \in Deliveries, ThreadOpened(d)
      PROVE  ErrorStage'
  BY <1>10
  DEF ThreadOpened, CallbackGoesOn, BridgeInv, vars, tasks, ErrorStage, Faults, Before, After,
      Emptied
<1>11. ASSUME NEW d \in Deliveries, Refused(d)
      PROVE  ErrorStage'
  BY <1>11
  DEF Refused, CallbackGoesOn, BridgeInv, vars, tasks, ErrorStage, Faults, Before, After,
      Emptied
<1>12. ASSUME NEW d \in Deliveries, CallbackEnds(d)
      PROVE  ErrorStage'
  BY <1>12
  DEF CallbackEnds, CallbackGoesOn, BridgeInv, vars, tasks, ErrorStage, Faults, Before, After,
      Emptied
<1>13. ASSUME NEW d \in Deliveries, TurnEnds(d)
      PROVE  ErrorStage'
  BY <1>13 DEF TurnEnds, BridgeInv, vars, tasks, ErrorStage, Faults, Before, After, Emptied
<1>14. CASE Exited \/ UNCHANGED vars
  BY <1>14 DEF Exited, vars, tasks, BridgeInv, ErrorStage, Faults, Before, After, Emptied
<1> QED
  BY <1>1, <1>2, <1>3, <1>4, <1>5, <1>6, <1>7, <1>8, <1>9, <1>10, <1>11, <1>12, <1>13, <1>14
  DEF Next, Runtime

LEMMA BridgeInit == Init => BridgeInv
<1> SUFFICES ASSUME Init
             PROVE  BridgeInv
  OBVIOUS
<1>1. TypeOK
  BY DEF Init, TypeOK, Stages, Before, Waits, Faults
<1>2. GateStage /\ StoreStage /\ WorkerStage /\ ErrorStage
  BY DEF Init, GateStage, StoreStage, WorkerStage, ErrorStage, Before, After, Emptied
<1>3. NothingEarly /\ SpawnedLast /\ Drained
  BY DEF Init, NothingEarly, SpawnedLast, Drained, Waits
<1> QED
  BY <1>1, <1>2, <1>3 DEF BridgeInv

LEMMA BridgeStays == BridgeInv /\ [Next]_vars => BridgeInv'
  BY CallbackTyped, HandlerTyped, StageTyped, ErrorTyped, GateStagePreserved,
     StoreStagePreserved, NothingEarlyPreserved, SpawnedLastPreserved, DrainedPreserved,
     WorkerStagePreserved, ErrorStagePreserved
  DEF BridgeInv, TypeOK, Placed, Blamed

-----------------------------------------------------------------------------
(* The theorems. *)

(* Every variable keeps its type, and the stages of the bridge agree with what is left to do.    *)
THEOREM BridgeCorrect == Spec => []BridgeInv
  BY BridgeInit, BridgeStays, PTL DEF Spec

(* An exited bridge has stopped its worker and closed its store, and its status names what ended *)
(* it, first failure first (_run_bridge_runtime's finally clause).                               *)
THEOREM ExitHonestHolds == Spec => []ExitHonest
<1>1. BridgeInv => ExitHonest
  BY DEF BridgeInv, StoreStage, WorkerStage, ErrorStage, ExitHonest, After
<1> QED
  BY BridgeCorrect, <1>1, PTL

-----------------------------------------------------------------------------
(* The refinement. *)

Turns == [d \in Deliveries |-> TurnOf(d)]
Mesh == IF GaveUpMesh THEN "down" ELSE "up"

(* The mesh is given up only when no turn runs and none can be spawned. *)
LEMMA GivenUp ==
    ASSUME BridgeInv, GaveUpMesh
    PROVE  /\ run \in {"closeGateway", "closing", "exited"}
           /\ \A d \in Deliveries : Turns[d] \in {"new", "over"}
<1>1. run \in {"closeGateway", "closing", "exited"}
  BY DEF GaveUpMesh, BridgeInv, GateStage, StoreStage, Before
<1>2. \A d \in Deliveries : callback[d] \notin Waits /\ handler[d] \notin {"running", "cancelled"}
  BY <1>1 DEF BridgeInv, Drained, Emptied
<1> QED
  BY <1>1, <1>2 DEF Turns, TurnOf

(* A step that leaves the deliveries alone keeps what Ingress sees of them. *)
LEMMA TurnsKept ==
    ASSUME UNCHANGED <<callback, handler>>
    PROVE  UNCHANGED Turns
  BY DEF Turns, TurnOf

(* One that moves a single delivery changes what it sees of that one. *)
LEMMA OneTurn ==
    ASSUME BridgeInv, NEW d \in Deliveries, NEW from, NEW turn,
           callback' = [callback EXCEPT ![d] = from], handler' = [handler EXCEPT ![d] = turn]
    PROVE  Turns' = [Turns EXCEPT ![d] = IF turn \in {"running", "cancelled"} THEN "running"
                                         ELSE IF from \in Waits THEN "admitted"
                                         ELSE IF from = "over" THEN "over"
                                         ELSE "new"]
<1> DEFINE stage == IF turn \in {"running", "cancelled"} THEN "running"
                    ELSE IF from \in Waits THEN "admitted"
                    ELSE IF from = "over" THEN "over"
                    ELSE "new"
<1>1. \A e \in Deliveries \ {d} : callback'[e] = callback[e] /\ handler'[e] = handler[e]
  BY DEF BridgeInv, TypeOK
<1>2. callback'[d] = from /\ handler'[d] = turn
  BY DEF BridgeInv, TypeOK
<1>3. \A e \in Deliveries \ {d} : TurnOf(e)' = TurnOf(e)
  BY <1>1 DEF TurnOf
<1>4. TurnOf(d)' = stage
  BY <1>2 DEF TurnOf
<1> HIDE DEF stage
<1>5. Turns' = [e \in Deliveries |-> IF e = d THEN stage ELSE TurnOf(e)]
  BY <1>3, <1>4 DEF Turns
<1>6. Turns' = [Turns EXCEPT ![d] = stage]
  BY <1>5 DEF Turns
<1> QED
  BY <1>6 DEF stage

(* What the mesh is taken for changes when the runtime goes past the worker, and never again. *)
LEMMA MeshKept ==
    ASSUME BridgeInv, [Next]_vars
    PROVE  StopWorker \/ UNCHANGED Mesh
<1>1. CASE Signal
  BY <1>1
  DEF Signal, BridgeInv, vars, tasks, GateStage, StoreStage, Mesh, GaveUpMesh, Before, After,
      Emptied
<1>2. CASE Killed
  BY <1>2
  DEF Killed, BridgeInv, vars, tasks, GateStage, StoreStage, Mesh, GaveUpMesh, Before, After,
      Emptied
<1>3. CASE DiscordReady
  BY <1>3
  DEF DiscordReady, BridgeInv, vars, tasks, GateStage, StoreStage, Mesh, GaveUpMesh, Before,
      After, Emptied
<1>4. CASE DiscordFails
  BY <1>4
  DEF DiscordFails, BridgeInv, vars, tasks, GateStage, StoreStage, Mesh, GaveUpMesh, Before,
      After, Emptied
<1>5. CASE WorkerStarts
  BY <1>5
  DEF WorkerStarts, BridgeInv, vars, tasks, GateStage, StoreStage, Mesh, GaveUpMesh, Before,
      After, Emptied
<1>6. CASE WorkerFails
  BY <1>6
  DEF WorkerFails, BridgeInv, vars, tasks, GateStage, StoreStage, Mesh, GaveUpMesh, Before,
      After, Emptied
<1>7. CASE Login
  BY <1>7
  DEF Login, BridgeInv, vars, tasks, GateStage, StoreStage, Mesh, GaveUpMesh, Before, After,
      Emptied
<1>8. CASE LoginFails
  BY <1>8
  DEF LoginFails, BridgeInv, vars, tasks, GateStage, StoreStage, Mesh, GaveUpMesh, Before,
      After, Emptied
<1>9. CASE OpenStore
  BY <1>9
  DEF OpenStore, BridgeInv, vars, tasks, GateStage, StoreStage, Mesh, GaveUpMesh, Before, After,
      Emptied
<1>10. CASE Hydrate
  BY <1>10
  DEF Hydrate, BridgeInv, vars, tasks, GateStage, StoreStage, Mesh, GaveUpMesh, Before, After,
      Emptied
<1>11. CASE BootFails \/ BootStopped \/ StartingFails \/ StartingStopped \/ StartFailed \/
           ServingFails \/ ServingStopped
  BY <1>11
  DEF BootFails, Leaves, BootStopped, StartingFails, StartingStopped, StartFailed, ServingFails,
      ServingStopped, BridgeInv, vars, tasks, GateStage, StoreStage, Mesh, GaveUpMesh, Before,
      After, Emptied
<1>12. CASE StartWorker
  BY <1>12
  DEF StartWorker, BridgeInv, vars, tasks, GateStage, StoreStage, Mesh, GaveUpMesh, Before,
      After, Emptied
<1>13. CASE Serve
  BY <1>13
  DEF Serve, BridgeInv, vars, tasks, GateStage, StoreStage, Mesh, GaveUpMesh, Before, After,
      Emptied
<1>14. CASE SettleStart
  BY <1>14
  DEF SettleStart, Or, BridgeInv, vars, tasks, GateStage, StoreStage, Mesh, GaveUpMesh, Before,
      After, Emptied
<1>15. CASE DrainIngress
  BY <1>15
  DEF DrainIngress, BridgeInv, vars, tasks, GateStage, StoreStage, Mesh, GaveUpMesh, Before,
      After, Emptied
<1>16. CASE DrainTurns
  BY <1>16
  DEF DrainTurns, BridgeInv, vars, tasks, GateStage, StoreStage, Mesh, GaveUpMesh, Before,
      After, Emptied
<1>17. CASE TurnsJoined
  BY <1>17
  DEF TurnsJoined, BridgeInv, vars, tasks, GateStage, StoreStage, Mesh, GaveUpMesh, Before,
      After, Emptied
<1>18. CASE CloseGateway
  BY <1>18
  DEF CloseGateway, Cleanup, Or, BridgeInv, vars, tasks, GateStage, StoreStage, Mesh,
      GaveUpMesh, Before, After, Emptied
<1>19. CASE Close
  BY <1>19
  DEF Close, BridgeInv, vars, tasks, GateStage, StoreStage, Mesh, GaveUpMesh, Before, After,
      Emptied
<1>20. ASSUME NEW m \in Messages, NEW n \in 1..MaxDeliveries[m], OnMessage(m, n)
      PROVE  StopWorker \/ UNCHANGED Mesh
  BY <1>20, Delivery
  DEF OnMessage, AlreadySeen, BridgeInv, vars, tasks, GateStage, StoreStage, Mesh, GaveUpMesh,
      Before, After, Emptied
<1>21. ASSUME NEW d \in Deliveries, Spawns(d)
      PROVE  StopWorker \/ UNCHANGED Mesh
  BY <1>21
  DEF Spawns, CallbackGoesOn, BridgeInv, vars, tasks, GateStage, StoreStage, Mesh, GaveUpMesh,
      Before, After, Emptied
<1>22. ASSUME NEW d \in Deliveries, ThreadOpened(d)
      PROVE  StopWorker \/ UNCHANGED Mesh
  BY <1>22
  DEF ThreadOpened, CallbackGoesOn, BridgeInv, vars, tasks, GateStage, StoreStage, Mesh,
      GaveUpMesh, Before, After, Emptied
<1>23. ASSUME NEW d \in Deliveries, Refused(d)
      PROVE  StopWorker \/ UNCHANGED Mesh
  BY <1>23
  DEF Refused, CallbackGoesOn, BridgeInv, vars, tasks, GateStage, StoreStage, Mesh, GaveUpMesh,
      Before, After, Emptied
<1>24. ASSUME NEW d \in Deliveries, CallbackEnds(d)
      PROVE  StopWorker \/ UNCHANGED Mesh
  BY <1>24
  DEF CallbackEnds, CallbackGoesOn, BridgeInv, vars, tasks, GateStage, StoreStage, Mesh,
      GaveUpMesh, Before, After, Emptied
<1>25. ASSUME NEW d \in Deliveries, TurnEnds(d)
      PROVE  StopWorker \/ UNCHANGED Mesh
  BY <1>25
  DEF TurnEnds, BridgeInv, vars, tasks, GateStage, StoreStage, Mesh, GaveUpMesh, Before, After,
      Emptied
<1>26. CASE Exited \/ UNCHANGED vars
  BY <1>26
  DEF Exited, vars, tasks, BridgeInv, GateStage, StoreStage, Mesh, GaveUpMesh, Before, After,
      Emptied
<1> QED
  BY <1>1, <1>2, <1>3, <1>4, <1>5, <1>6, <1>7, <1>8, <1>9, <1>10, <1>11, <1>12, <1>13, <1>14,
     <1>15, <1>16, <1>17, <1>18, <1>19, <1>20, <1>21, <1>22, <1>23, <1>24, <1>25, <1>26
  DEF Next, Runtime

LEMMA GateStep ==
    ASSUME BridgeInv, [Next]_vars
    PROVE  [Gate!Next]_(Gate!vars)
<1> DEFINE Same == UNCHANGED gate /\ UNCHANGED Turns /\ UNCHANGED Mesh
<1>1. Same => [Gate!Next]_(Gate!vars)
  BY DEF Gate!vars, Turns, Mesh
<1>2. CASE UNCHANGED <<gate, callback, handler>> /\ ~StopWorker
  BY <1>1, <1>2, TurnsKept, MeshKept
<1>3. CASE \/ BootFails \/ BootStopped \/ StartingFails \/ StartingStopped \/ StartFailed
           \/ ServingFails \/ ServingStopped
  <2>1. gate # "closed" /\ gate' = "closed"
    BY <1>3 DEF BootFails, BootStopped, StartingFails, StartingStopped, StartFailed, ServingFails,
                ServingStopped, Leaves, BridgeInv, GateStage, Before
  <2>2. UNCHANGED <<callback, handler>> /\ ~StopWorker
    BY <1>3 DEF BootFails, BootStopped, StartingFails, StartingStopped, StartFailed, ServingFails,
                ServingStopped, Leaves, tasks, StopWorker
  <2>3. UNCHANGED Turns /\ UNCHANGED Mesh
    BY <2>2, TurnsKept, MeshKept
  <2> QED
    BY <2>1, <2>3 DEF Gate!Next, Gate!Close, Turns, Mesh
<1>4. CASE Serve
  <2>1. gate = "shut" /\ gate' = "open"
    BY <1>4 DEF Serve, BridgeInv, GateStage, Before
  <2>2. UNCHANGED <<callback, handler>> /\ ~StopWorker
    BY <1>4 DEF Serve, tasks, StopWorker
  <2>3. UNCHANGED Turns /\ UNCHANGED Mesh
    BY <2>2, TurnsKept, MeshKept
  <2> QED
    BY <2>1, <2>3 DEF Gate!Next, Gate!Open, Turns, Mesh
<1>5. CASE DrainIngress
  <2>1. UNCHANGED gate /\ UNCHANGED Mesh
    BY <1>5, MeshKept DEF DrainIngress, StopWorker
  <2>2. \A d \in Deliveries : callback[d] \in Waits => handler[d] = "none"
    BY DEF BridgeInv, SpawnedLast, Waits
  <2>3. \A d \in Deliveries :
          TurnOf(d)' = IF TurnOf(d) = "admitted" THEN "over" ELSE TurnOf(d)
    BY <1>5, <2>2 DEF DrainIngress, TurnOf, Waits
  <2>4. Turns' = [d \in Deliveries |->
                    IF d \in {e \in Deliveries : Turns[e] = "admitted"} THEN "over" ELSE Turns[d]]
    BY <2>3 DEF Turns
  <2>5. \E A \in SUBSET {e \in Deliveries : Turns[e] = "admitted"} :
          Turns' = [d \in Deliveries |-> IF d \in A THEN "over" ELSE Turns[d]]
    BY <2>4
  <2>6. Gate!GiveUp
    BY <2>1, <2>5 DEF Gate!GiveUp, Turns, Mesh
  <2> QED
    BY <2>6 DEF Gate!Next
<1>6. CASE DrainTurns
  <2>1. UNCHANGED gate /\ UNCHANGED Mesh
    BY <1>6, MeshKept DEF DrainTurns, StopWorker
  <2>2. \A d \in Deliveries : TurnOf(d)' = TurnOf(d)
    BY <1>6 DEF DrainTurns, TurnOf
  <2> QED
    BY <1>1, <2>1, <2>2 DEF Turns
<1>7. CASE StopWorker
  <2>1. UNCHANGED <<gate, callback, handler>> /\ gate = "closed"
    BY <1>7 DEF StopWorker, tasks, BridgeInv, GateStage, After, Emptied
  <2>2. UNCHANGED Turns
    BY <2>1, TurnsKept
  <2>3. Mesh' = "down"
    BY <1>7, <2>1 DEF StopWorker, Mesh, GaveUpMesh
  <2>4. \A d \in Deliveries : Turns[d] \in {"new", "over"}
    BY <1>7 DEF StopWorker, Turns, TurnOf, BridgeInv, Drained, Emptied
  <2> QED
    BY <2>1, <2>2, <2>3, <2>4 DEF Gate!Next, Gate!Disconnect, Turns, Mesh
<1>8. ASSUME NEW m \in Messages, NEW n \in 1..MaxDeliveries[m], OnMessage(m, n)
      PROVE  [Gate!Next]_(Gate!vars)
  <2> DEFINE d == <<m, n>>
  <2>1. d \in Deliveries
    BY Delivery
  <2> HIDE DEF d
  <2>2. gate = "open" /\ UNCHANGED gate /\ UNCHANGED Mesh
    BY <1>8, MeshKept DEF OnMessage, StopWorker
  <2>3. callback[d] = "none" /\ handler[d] = "none"
    BY <1>8, <2>1 DEF OnMessage, BridgeInv, SpawnedLast, TypeOK, d
  <2>4. Turns[d] = "new"
    BY <2>1, <2>3 DEF Turns, TurnOf, Waits
  <2>5. \E from \in {"duplicate", "over"} \union Waits, turn \in {"none", "running"} :
          /\ callback' = [callback EXCEPT ![d] = from] /\ handler' = [handler EXCEPT ![d] = turn]
          /\ from = "duplicate" => turn = "none"
    <3>1. handler = [handler EXCEPT ![d] = "none"]
      BY <2>1, <2>3 DEF BridgeInv, TypeOK
    <3> QED
      BY <1>8, <3>1 DEF OnMessage, Waits, d
  <2>6. PICK from \in {"duplicate", "over"} \union Waits, turn \in {"none", "running"} :
          /\ callback' = [callback EXCEPT ![d] = from] /\ handler' = [handler EXCEPT ![d] = turn]
          /\ from = "duplicate" => turn = "none"
    BY <2>5
  <2>7. \E stage \in {"admitted", "running", "over", "new"} :
          Turns' = [Turns EXCEPT ![d] = stage]
    BY <2>1, <2>6, OneTurn
  <2>8. CASE Turns' = [Turns EXCEPT ![d] = "new"]
    <3>1. Turns' = Turns
      BY <2>1, <2>4, <2>8 DEF Turns
    <3> QED
      BY <1>1, <2>2, <3>1
  <2>9. ASSUME NEW stage \in {"admitted", "running", "over"}, Turns' = [Turns EXCEPT ![d] = stage]
        PROVE  [Gate!Next]_(Gate!vars)
    <3>1. Gate!Admit(d)
      BY <2>2, <2>4, <2>9 DEF Gate!Admit, Turns, Mesh
    <3> QED
      BY <2>1, <3>1 DEF Gate!Next
  <2> QED
    BY <2>7, <2>8, <2>9
<1>9. ASSUME NEW d \in Deliveries, Spawns(d)
      PROVE  [Gate!Next]_(Gate!vars)
  <2>1. UNCHANGED gate /\ UNCHANGED Mesh
    BY <1>9, MeshKept DEF Spawns, CallbackGoesOn, StopWorker
  <2>2. callback[d] \in Waits /\ handler[d] = "none"
    BY <1>9 DEF Spawns, CallbackGoesOn, BridgeInv, SpawnedLast, Waits
  <2>3. Turns[d] = "admitted"
    BY <2>2 DEF Turns, TurnOf
  <2>4. Mesh = "up"
    BY <2>3, GivenUp DEF Mesh
  <2>5. Turns' = [Turns EXCEPT ![d] = "running"]
    BY <1>9, OneTurn DEF Spawns, CallbackGoesOn
  <2>6. Gate!Begin(d)
    BY <2>1, <2>3, <2>4, <2>5 DEF Gate!Begin, Turns, Mesh
  <2> QED
    BY <2>6 DEF Gate!Next
<1>10. ASSUME NEW d \in Deliveries, ThreadOpened(d) \/ Refused(d)
       PROVE  [Gate!Next]_(Gate!vars)
  <2>1. UNCHANGED gate /\ UNCHANGED Mesh
    BY <1>10, MeshKept DEF ThreadOpened, Refused, CallbackGoesOn, StopWorker
  <2>2. callback[d] \in Waits /\ handler[d] = "none"
    BY <1>10 DEF ThreadOpened, Refused, CallbackGoesOn, BridgeInv, SpawnedLast, Waits
  <2>3. Turns[d] = "admitted"
    BY <2>2 DEF Turns, TurnOf
  <2>4. PICK to \in Waits :
          /\ callback' = [callback EXCEPT ![d] = to]
          /\ handler' = [handler EXCEPT ![d] = "none"]
    BY <1>10 DEF ThreadOpened, Refused, CallbackGoesOn, Waits
  <2>5. Turns' = [Turns EXCEPT ![d] = "admitted"]
    BY <2>4, OneTurn
  <2>6. Turns' = Turns
    BY <2>3, <2>5 DEF Turns
  <2> QED
    BY <1>1, <2>1, <2>6
<1>11. ASSUME NEW d \in Deliveries, CallbackEnds(d)
       PROVE  [Gate!Next]_(Gate!vars)
  <2>1. UNCHANGED gate /\ UNCHANGED Mesh
    BY <1>11, MeshKept DEF CallbackEnds, CallbackGoesOn, StopWorker
  <2>2. callback[d] \in Waits /\ handler[d] = "none"
    BY <1>11 DEF CallbackEnds, CallbackGoesOn, BridgeInv, SpawnedLast, Waits
  <2>3. Turns[d] = "admitted"
    BY <2>2 DEF Turns, TurnOf
  <2>4. Turns' = [Turns EXCEPT ![d] = "over"]
    <3>1. /\ callback' = [callback EXCEPT ![d] = "over"]
          /\ handler' = [handler EXCEPT ![d] = "none"]
      BY <1>11 DEF CallbackEnds, CallbackGoesOn
    <3>2. "over" \notin Waits
      BY DEF Waits
    <3> QED
      BY <3>1, <3>2, OneTurn
  <2>5. Turns' = [e \in Deliveries |-> IF e \in {d} THEN "over" ELSE Turns[e]]
    BY <2>4 DEF Turns
  <2>6. \E A \in SUBSET {e \in Deliveries : Turns[e] = "admitted"} :
          Turns' = [e \in Deliveries |-> IF e \in A THEN "over" ELSE Turns[e]]
    BY <2>3, <2>5
  <2>7. Gate!GiveUp
    BY <2>1, <2>6 DEF Gate!GiveUp, Turns, Mesh
  <2> QED
    BY <2>7 DEF Gate!Next
<1>12. ASSUME NEW d \in Deliveries, TurnEnds(d)
       PROVE  [Gate!Next]_(Gate!vars)
  <2>1. UNCHANGED gate /\ UNCHANGED Mesh
    BY <1>12, MeshKept DEF TurnEnds, StopWorker
  <2>2. handler[d] \in {"running", "cancelled"} /\ callback[d] = "over"
    BY <1>12 DEF TurnEnds, BridgeInv, SpawnedLast
  <2>3. Turns[d] = "running"
    BY <2>2 DEF Turns, TurnOf
  <2>4. callback' = [callback EXCEPT ![d] = "over"]
    BY <1>12, <2>2 DEF TurnEnds, BridgeInv, TypeOK
  <2>5. Turns' = [Turns EXCEPT ![d] = "over"]
    <3>1. handler' = [handler EXCEPT ![d] = "over"]
      BY <1>12 DEF TurnEnds
    <3>2. "over" \notin Waits
      BY DEF Waits
    <3> QED
      BY <2>4, <3>1, <3>2, OneTurn
  <2>6. Gate!End(d)
    BY <2>1, <2>3, <2>5 DEF Gate!End, Turns, Mesh
  <2> QED
    BY <2>6 DEF Gate!Next
<1>13. \/ UNCHANGED <<gate, callback, handler>> /\ ~StopWorker
       \/ BootFails \/ BootStopped \/ StartingFails \/ StartingStopped \/ StartFailed
       \/ ServingFails \/ ServingStopped
       \/ Serve \/ DrainIngress \/ DrainTurns \/ StopWorker
       \/ \E m \in Messages : \E n \in 1..MaxDeliveries[m] : OnMessage(m, n)
       \/ \E d \in Deliveries :
            Spawns(d) \/ ThreadOpened(d) \/ Refused(d) \/ CallbackEnds(d) \/ TurnEnds(d)
  <2>1. CASE Signal \/ Killed \/ DiscordReady \/ DiscordFails \/ WorkerStarts \/ WorkerFails
    BY <2>1 DEF Signal, Killed, DiscordReady, DiscordFails, WorkerStarts, WorkerFails, tasks
  <2>2. CASE Login \/ LoginFails \/ OpenStore \/ Hydrate \/ StartWorker \/ SettleStart
    BY <2>2 DEF Login, LoginFails, OpenStore, Hydrate, StartWorker, SettleStart, tasks
  <2>3. CASE TurnsJoined \/ CloseGateway \/ Close \/ Exited \/ UNCHANGED vars
    BY <2>3 DEF TurnsJoined, CloseGateway, Close, Exited, vars, tasks
  <2> QED
    BY <2>1, <2>2, <2>3 DEF Next, Runtime
<1> HIDE DEF Same
<1> QED
  BY <1>2, <1>3, <1>4, <1>5, <1>6, <1>7, <1>8, <1>9, <1>10, <1>11, <1>12, <1>13

(* The bridge implements Ingress: no message is admitted before the worker serves or behind the   *)
(* gate, and the mesh and the store outlast every turn (drain_ingress, drain_inflight and the     *)
(* order of _run_bridge_runtime's finally clause).                                               *)
THEOREM ImplementsIngressHolds == Spec => ImplementsIngress
<1>1. Init => Gate!Init
  <2>1. Init => Turns = [d \in Deliveries |-> "new"]
    BY DEF Init, Turns, TurnOf, Waits
  <2>2. Init => Mesh = "up"
    BY DEF Init, Mesh, GaveUpMesh
  <2> QED
    BY <2>1, <2>2 DEF Init, Gate!Init, Turns, Mesh
<1>2. BridgeInv /\ [Next]_vars => [Gate!Next]_(Gate!vars)
  BY GateStep
<1> QED
  BY BridgeCorrect, <1>1, <1>2, PTL DEF Spec, ImplementsIngress, Gate!Spec

(* What the bridge is for Ingress stays within the types of Ingress. *)
THEOREM IngressTyped == Spec => []Gate!TypeOK
<1>1. BridgeInv => Gate!TypeOK
  <2>1. ASSUME BridgeInv
        PROVE  gate \in Gate!Gates
    BY <2>1 DEF BridgeInv, TypeOK, Gate!Gates
  <2>2. Turns \in [Deliveries -> {"new", "admitted", "running", "over"}]
    BY DEF Turns, TurnOf
  <2>3. Mesh \in {"up", "down"}
    BY DEF Mesh
  <2> QED
    BY <2>1, <2>2, <2>3 DEF Gate!TypeOK, Turns, Mesh
<1> QED
  BY BridgeCorrect, <1>1, PTL

-----------------------------------------------------------------------------
(* The cache of message ids.  It is the end of the order in which messages    *)
(* were last delivered, as much of it as fits.                                *)

Distinct(order) == \A i, j \in 1..Len(order) : order[i] = order[j] => i = j

CacheInv ==
  /\ seen \in Seq(Messages) /\ recent \in Seq(Messages)
  /\ Distinct(recent)
  /\ Len(seen) = IF Len(recent) > Capacity THEN Capacity ELSE Len(recent)
  /\ \A i \in 1..Len(seen) : seen[i] = recent[Len(recent) - Len(seen) + i]

(* A message is routed by its first delivery only. *)
ReplaysDropped ==
  \A m \in Messages : \A n \in 1..MaxDeliveries[m] :
    n > 1 => callback[<<m, n>>] \in {"none", "duplicate"}

LEMMA MovedNew ==
    ASSUME NEW order \in Seq(Messages), NEW m \in Messages, Distinct(order),
           \A i \in 1..Len(order) : order[i] # m
    PROVE  /\ MovedToEnd(order, m) = Append(order, m)
           /\ MovedToEnd(order, m) \in Seq(Messages)
           /\ Len(MovedToEnd(order, m)) = Len(order) + 1
           /\ \A i \in 1..(Len(order) + 1) :
                MovedToEnd(order, m)[i] = IF i <= Len(order) THEN order[i] ELSE m
           /\ Distinct(MovedToEnd(order, m))
<1>1. DOMAIN order = 1..Len(order) /\ Len(order) \in Nat
  OBVIOUS
<1>2. MovedToEnd(order, m) = Append(order, m)
  BY <1>1 DEF MovedToEnd, Range
<1> DEFINE new == Append(order, m)
<1>3. /\ new \in Seq(Messages) /\ Len(new) = Len(order) + 1
      /\ \A i \in 1..(Len(order) + 1) : new[i] = IF i <= Len(order) THEN order[i] ELSE m
  OBVIOUS
<1> HIDE DEF new
<1>4. Distinct(new)
  BY <1>1, <1>3 DEF Distinct
<1> QED
  BY <1>2, <1>3, <1>4 DEF new

LEMMA MovedAgain ==
    ASSUME NEW order \in Seq(Messages), NEW m \in Messages, Distinct(order),
           NEW at \in 1..Len(order), order[at] = m
    PROVE  /\ MovedToEnd(order, m) \in Seq(Messages)
           /\ Len(MovedToEnd(order, m)) = Len(order)
           /\ \A i \in 1..Len(order) :
                MovedToEnd(order, m)[i] = IF i < at THEN order[i]
                                          ELSE IF i < Len(order) THEN order[i + 1] ELSE m
           /\ Distinct(MovedToEnd(order, m))
<1>1. DOMAIN order = 1..Len(order) /\ Len(order) \in Nat
  OBVIOUS
<1>2. m \in Range(order) /\ at = CHOOSE i \in DOMAIN order : order[i] = m
  BY <1>1 DEF Range, Distinct
<1> DEFINE new == [i \in 1..Len(order) |-> IF i < at THEN order[i]
                                          ELSE IF i < Len(order) THEN order[i + 1] ELSE m]
<1>3. MovedToEnd(order, m) = new
  BY <1>1, <1>2 DEF MovedToEnd
<1>4. \A i \in 1..Len(order) : new[i] = IF i < at THEN order[i]
                                        ELSE IF i < Len(order) THEN order[i + 1] ELSE m
  OBVIOUS
<1>5. new \in Seq(Messages) /\ Len(new) = Len(order)
  BY <1>1
<1> HIDE DEF new
<1>6. \A i, j \in 1..Len(order) : new[i] = new[j] => i = j
  BY <1>1, <1>4 DEF Distinct
<1> QED
  BY <1>3, <1>4, <1>5, <1>6 DEF Distinct

LEMMA CacheRemembers ==
    ASSUME CacheInv, NEW m \in Messages, Remember(m), recent' = MovedToEnd(recent, m)
    PROVE  CacheInv'
<1>0. /\ Capacity \in Nat /\ Capacity > 0
      /\ seen \in Seq(Messages) /\ recent \in Seq(Messages)
      /\ Len(seen) \in Nat /\ Len(recent) \in Nat /\ Len(seen) <= Len(recent)
      /\ Len(seen) <= Capacity
      /\ Distinct(recent)
  <2>1. Capacity \in Nat /\ Capacity > 0
    BY BridgeAssumption DEF BridgeAssumption
  <2>2. seen \in Seq(Messages) /\ recent \in Seq(Messages) /\ Distinct(recent)
    BY DEF CacheInv
  <2>3. Len(seen) \in Nat /\ Len(recent) \in Nat
    BY <2>2
  <2>4. Len(seen) = IF Len(recent) > Capacity THEN Capacity ELSE Len(recent)
    BY DEF CacheInv
  <2> QED
    BY <2>1, <2>2, <2>3, <2>4
<1>1. Distinct(seen)
  <2>1. ASSUME NEW i \in 1..Len(seen), NEW j \in 1..Len(seen), seen[i] = seen[j] PROVE i = j
    <3>1. /\ Len(recent) - Len(seen) + i \in 1..Len(recent)
          /\ Len(recent) - Len(seen) + j \in 1..Len(recent)
      BY <1>0
    <3>2. recent[Len(recent) - Len(seen) + i] = recent[Len(recent) - Len(seen) + j]
      BY <2>1 DEF CacheInv
    <3>3. Len(recent) - Len(seen) + i = Len(recent) - Len(seen) + j
      BY <1>0, <3>1, <3>2 DEF Distinct
    <3> QED
      BY <1>0, <3>3
  <2> QED
    BY <2>1 DEF Distinct
<1> DEFINE order == MovedToEnd(seen, m)
           skip  == Len(recent) - Len(seen)
<1>2. /\ seen' = IF Len(order) > Capacity THEN Tail(order) ELSE order
      /\ recent' = MovedToEnd(recent, m)
  BY DEF Remember, Touched
<1>3. skip \in Nat /\ (skip = 0 \/ Len(seen) = Capacity)
      /\ \A i \in 1..Len(seen) : seen[i] = recent[skip + i]
  <2>1. Len(seen) = IF Len(recent) > Capacity THEN Capacity ELSE Len(recent)
    BY DEF CacheInv
  <2>2. skip \in Nat /\ (skip = 0 \/ Len(seen) = Capacity)
    BY <1>0, <2>1
  <2>3. \A i \in 1..Len(seen) : seen[i] = recent[skip + i]
    BY DEF CacheInv
  <2> QED
    BY <2>2, <2>3
\* The message is in the cache: both orders move it to the end.
<1>4. CASE \E i \in 1..Len(seen) : seen[i] = m
  <2>1. PICK at \in 1..Len(seen) : seen[at] = m
    BY <1>4
  <2>2. skip + at \in 1..Len(recent) /\ recent[skip + at] = m
    BY <1>0, <1>3, <2>1
  <2>3. /\ order \in Seq(Messages) /\ Len(order) = Len(seen)
        /\ \A i \in 1..Len(seen) :
             order[i] = IF i < at THEN seen[i] ELSE IF i < Len(seen) THEN seen[i + 1] ELSE m
    BY <1>0, <1>1, <2>1, MovedAgain
  <2> DEFINE pos == skip + at
  <2>4. /\ recent' \in Seq(Messages) /\ Len(recent') = Len(recent) /\ Distinct(recent')
        /\ \A i \in 1..Len(recent) :
             recent'[i] = IF i < pos THEN recent[i]
                          ELSE IF i < Len(recent) THEN recent[i + 1] ELSE m
    <3>1. pos \in 1..Len(recent) /\ recent[pos] = m
      BY <2>2
    <3> HIDE DEF pos
    <3> QED
      BY <1>0, <1>2, <3>1, MovedAgain
  <2>5. seen' = order
    BY <1>0, <1>2, <2>3
  <2>6. ASSUME NEW i \in 1..Len(seen) PROVE order[i] = recent'[skip + i]
    <3>1. /\ skip + i \in 1..Len(recent)
          /\ skip + i < pos <=> i < at
          /\ skip + i < Len(recent) <=> i < Len(seen)
      BY <1>0, <1>3
    <3>2. i < Len(seen) => i + 1 \in 1..Len(seen) /\ seen[i + 1] = recent[skip + (i + 1)]
      BY <1>0, <1>3
    <3>3. (skip + i) + 1 = skip + (i + 1)
      BY <1>0, <1>3
    <3> QED
      BY <1>3, <2>3, <2>4, <3>1, <3>2, <3>3
  <2> HIDE DEF order
  <2> QED
    BY <1>0, <2>3, <2>4, <2>5, <2>6 DEF CacheInv, Distinct
\* It is new to the cache, which forgets the oldest if it is full.
<1>5. CASE \A i \in 1..Len(seen) : seen[i] # m
  <2>1. /\ order \in Seq(Messages) /\ Len(order) = Len(seen) + 1
        /\ \A i \in 1..(Len(seen) + 1) : order[i] = IF i <= Len(seen) THEN seen[i] ELSE m
    BY <1>0, <1>1, <1>5, MovedNew
  <2> HIDE DEF order
  <2>2. CASE \E i \in 1..Len(recent) : recent[i] = m
    <3>1. PICK at \in 1..Len(recent) : recent[at] = m
      BY <2>2
    <3>2. at <= skip
      <4> SUFFICES ASSUME ~(at <= skip) PROVE FALSE
        OBVIOUS
      <4>1. at - skip \in 1..Len(seen) /\ skip + (at - skip) = at
        BY <1>0, <1>3
      <4> QED
        BY <1>3, <1>5, <3>1, <4>1
    <3>3. /\ recent' \in Seq(Messages) /\ Len(recent') = Len(recent) /\ Distinct(recent')
          /\ \A i \in 1..Len(recent) :
               recent'[i] = IF i < at THEN recent[i]
                            ELSE IF i < Len(recent) THEN recent[i + 1] ELSE m
      BY <1>0, <1>2, <3>1, MovedAgain
    <3>4. Len(seen) = Capacity
      BY <1>0, <1>3, <3>2
    <3>5. /\ seen' = Tail(order) /\ seen' \in Seq(Messages) /\ Len(seen') = Len(seen)
          /\ \A i \in 1..Len(seen) : seen'[i] = order[i + 1]
      BY <1>0, <1>2, <2>1, <3>4
    <3>6. ASSUME NEW i \in 1..Len(seen) PROVE seen'[i] = recent'[skip + i]
      <4>1. /\ skip + i \in 1..Len(recent) /\ ~(skip + i < at)
            /\ skip + i < Len(recent) <=> i + 1 <= Len(seen)
            /\ (skip + i) + 1 = skip + (i + 1) /\ i + 1 \in 1..(Len(seen) + 1)
        BY <1>0, <1>3, <3>2
      <4>2. i + 1 <= Len(seen) => seen[i + 1] = recent[skip + (i + 1)]
        BY <1>0, <1>3
      <4> QED
        BY <2>1, <3>3, <3>5, <4>1, <4>2
    <3> QED
      BY <1>0, <1>3, <3>3, <3>4, <3>5, <3>6 DEF CacheInv
  <2>3. CASE \A i \in 1..Len(recent) : recent[i] # m
    <3>1. /\ recent' \in Seq(Messages) /\ Len(recent') = Len(recent) + 1 /\ Distinct(recent')
          /\ \A i \in 1..(Len(recent) + 1) :
               recent'[i] = IF i <= Len(recent) THEN recent[i] ELSE m
      BY <1>0, <1>2, <2>3, MovedNew
    <3>2. CASE Len(seen) = Capacity
      <4>1. /\ seen' \in Seq(Messages) /\ Len(seen') = Capacity
            /\ \A i \in 1..Capacity : seen'[i] = order[i + 1]
        BY <1>0, <1>2, <2>1, <3>2
      <4>2. ASSUME NEW i \in 1..Capacity PROVE seen'[i] = recent'[skip + 1 + i]
        <5>1. /\ skip + 1 + i \in 1..(Len(recent) + 1) /\ i + 1 \in 1..(Len(seen) + 1)
              /\ skip + 1 + i = skip + (i + 1)
              /\ skip + 1 + i <= Len(recent) <=> i + 1 <= Len(seen)
          BY <1>0, <1>3, <3>2
        <5>2. i + 1 <= Len(seen) => seen[i + 1] = recent[skip + (i + 1)]
          BY <1>0, <1>3, <3>2
        <5> QED
          BY <2>1, <3>1, <4>1, <5>1, <5>2
      <4>3. Len(recent') > Capacity /\ Len(recent') - Len(seen') = skip + 1
        BY <1>0, <3>1, <3>2, <4>1
      <4> QED
        BY <1>0, <3>1, <4>1, <4>2, <4>3 DEF CacheInv
    <3>3. CASE Len(seen) # Capacity
      <4>1. skip = 0 /\ Len(seen) < Capacity /\ Len(recent) = Len(seen)
        BY <1>0, <1>3, <3>3
      <4>2. seen' = order
        BY <1>0, <1>2, <2>1, <4>1
      <4>3. ASSUME NEW i \in 1..(Len(seen) + 1) PROVE seen'[i] = recent'[i]
        <5>1. i <= Len(seen) => seen[i] = recent[i]
          BY <1>0, <1>3, <4>1
        <5> QED
          BY <2>1, <3>1, <4>1, <4>2, <5>1
      <4>4. /\ Len(recent') = Len(seen') /\ Len(seen') = Len(seen) + 1
            /\ ~(Len(recent') > Capacity)
            /\ \A i \in 1..Len(seen') : Len(recent') - Len(seen') + i = i
        <5>1. Len(recent') = Len(seen) + 1 /\ Len(seen') = Len(seen) + 1
          BY <2>1, <3>1, <4>1, <4>2
        <5>2. Len(seen) + 1 <= Capacity
          BY <1>0, <4>1
        <5> QED
          BY <1>0, <5>1, <5>2
      <4> QED
        BY <2>1, <3>1, <4>2, <4>3, <4>4 DEF CacheInv
    <3> QED
      BY <3>2, <3>3
  <2> QED
    BY <2>2, <2>3
<1> QED
  BY <1>4, <1>5

(* What may be replayed is in the cache. *)
LEMMA ReplayKnown ==
    ASSUME CacheInv, NEW m \in Messages, NEW n \in 1..MaxDeliveries[m], n > 1, Delivered(m, n)
    PROVE  m \in Range(seen)
<1>1. /\ Capacity \in Nat /\ ReplayWindow \in 1..Capacity
      /\ seen \in Seq(Messages) /\ recent \in Seq(Messages)
      /\ Len(seen) \in Nat /\ Len(recent) \in Nat
  BY BridgeAssumption DEF BridgeAssumption, CacheInv
<1>2. Len(seen) = IF Len(recent) > Capacity THEN Capacity ELSE Len(recent)
  BY DEF CacheInv
<1> DEFINE low  == IF Len(recent) > ReplayWindow THEN Len(recent) - ReplayWindow + 1 ELSE 1
           last == SubSeq(recent, low, Len(recent))
<1>3. m \in Range(last)
  BY DEF Delivered
<1>4. low \in 1..(Len(recent) + 1) /\ low > Len(recent) - Len(seen)
  BY <1>1, <1>2
<1>5. last \in Seq(Messages) /\ Len(last) = Len(recent) - low + 1
      /\ \A i \in 1..Len(last) : last[i] = recent[low + i - 1]
  <2> HIDE DEF low
  <2> QED
    BY <1>1, <1>4
<1> HIDE DEF last
<1>6. PICK i \in 1..Len(last) : last[i] = m
  BY <1>3, <1>5 DEF Range
<1> DEFINE j == low + i - 1 - (Len(recent) - Len(seen))
<1> HIDE DEF low
<1>7. j \in 1..Len(seen) /\ Len(recent) - Len(seen) + j = low + i - 1
  BY <1>1, <1>4, <1>5
<1>8. seen[j] = m
  <2> HIDE DEF j
  <2>1. seen[j] = recent[Len(recent) - Len(seen) + j]
    BY <1>7 DEF CacheInv
  <2>2. last[i] = recent[low + i - 1]
    BY <1>5
  <2> QED
    BY <1>6, <1>7, <2>1, <2>2
<1>9. j \in DOMAIN seen
  BY <1>1, <1>7
<1> QED
  BY <1>8, <1>9 DEF Range

(* What other steps do to callbacks: those that wait go on. *)
LEMMA CallbacksGoOn ==
    ASSUME [Next]_vars, BridgeInv
    PROVE  \/ \E m \in Messages : \E n \in 1..MaxDeliveries[m] : OnMessage(m, n)
           \/ /\ UNCHANGED <<seen, recent>>
              /\ \A d \in Deliveries : callback'[d] = callback[d] \/ callback[d] \in Waits
<1>1. CASE \/ Signal \/ Killed \/ DiscordReady \/ DiscordFails \/ WorkerStarts \/ WorkerFails
           \/ Login \/ LoginFails \/ OpenStore \/ Hydrate
           \/ BootFails \/ BootStopped \/ StartWorker
           \/ StartingFails \/ StartingStopped \/ StartFailed \/ Serve
           \/ ServingFails \/ ServingStopped
  BY <1>1
  DEF Signal, Killed, DiscordReady, DiscordFails, WorkerStarts, WorkerFails, Login, LoginFails,
      OpenStore, Hydrate, BootFails, BootStopped, StartWorker, StartingFails, StartingStopped,
      StartFailed, Serve, ServingFails, ServingStopped, Leaves, tasks
<1>2. CASE \/ SettleStart \/ DrainTurns \/ TurnsJoined \/ StopWorker \/ CloseGateway \/ Close
           \/ Exited \/ UNCHANGED vars
  BY <1>2
  DEF SettleStart, DrainTurns, TurnsJoined, StopWorker, CloseGateway, Close, Exited, tasks, vars
<1>3. CASE DrainIngress
  BY <1>3 DEF DrainIngress
<1>4. ASSUME NEW d \in Deliveries,
             Spawns(d) \/ ThreadOpened(d) \/ Refused(d) \/ CallbackEnds(d) \/ TurnEnds(d)
      PROVE  /\ UNCHANGED <<seen, recent>>
             /\ \A e \in Deliveries : callback'[e] = callback[e] \/ callback[e] \in Waits
  BY <1>4 DEF Spawns, ThreadOpened, Refused, CallbackEnds, TurnEnds, CallbackGoesOn, Waits,
              BridgeInv, TypeOK
<1> QED
  BY <1>1, <1>2, <1>3, <1>4 DEF Next, Runtime

LEMMA CacheStep ==
    ASSUME BridgeInv, CacheInv, ReplaysDropped, [Next]_vars
    PROVE  CacheInv' /\ ReplaysDropped'
<1>1. ASSUME NEW m \in Messages, NEW n \in 1..MaxDeliveries[m], OnMessage(m, n)
      PROVE  CacheInv' /\ ReplaysDropped'
  <2>1. Remember(m) /\ recent' = MovedToEnd(recent, m) /\ Delivered(m, n)
    BY <1>1 DEF OnMessage
  <2>2. CacheInv'
    BY <2>1, CacheRemembers
  <2>3. /\ <<m, n>> \in Deliveries
        /\ callback \in [Deliveries -> {"none", "duplicate", "over"} \union Waits]
    BY Delivery DEF BridgeInv, TypeOK
  <2>4. n > 1 => callback'[<<m, n>>] = "duplicate"
    BY <1>1, <2>1, <2>3, ReplayKnown DEF OnMessage, AlreadySeen
  <2>5. \A d \in Deliveries : d # <<m, n>> => callback'[d] = callback[d]
    BY <1>1, <2>3 DEF OnMessage
  <2>6. ASSUME NEW o \in Messages, NEW k \in 1..MaxDeliveries[o], k > 1
        PROVE  callback'[<<o, k>>] \in {"none", "duplicate"}
    <3>1. <<o, k>> \in Deliveries
      BY Delivery
    <3>2. CASE <<o, k>> = <<m, n>>
      BY <2>4, <2>6, <3>2
    <3>3. CASE <<o, k>> # <<m, n>>
      BY <2>5, <2>6, <3>1, <3>3 DEF ReplaysDropped
    <3> QED
      BY <3>2, <3>3
  <2> QED
    BY <2>2, <2>6 DEF ReplaysDropped
<1>2. CASE /\ UNCHANGED <<seen, recent>>
           /\ \A d \in Deliveries : callback'[d] = callback[d] \/ callback[d] \in Waits
  <2>1. CacheInv'
    BY <1>2 DEF CacheInv, Distinct
  <2>2. ASSUME NEW o \in Messages, NEW k \in 1..MaxDeliveries[o], k > 1
        PROVE  callback'[<<o, k>>] \in {"none", "duplicate"}
    BY <1>2, <2>2, Delivery DEF ReplaysDropped, Waits
  <2> QED
    BY <2>1, <2>2 DEF ReplaysDropped
<1> QED
  BY <1>1, <1>2, CallbacksGoOn

(* A message is handled at most once, however often Discord delivers it: the     *)
(* cache of any capacity holds what a reconnect may still replay, since it is    *)
(* the end of the order of last deliveries and the window is no longer           *)
(* (gateway.py: _already_seen moves a duplicate to the end).                     *)
THEOREM HandledOnceHolds == Spec => []HandledOnce
<1>1. Init => CacheInv /\ ReplaysDropped
  <2> SUFFICES ASSUME Init PROVE CacheInv /\ ReplaysDropped
    OBVIOUS
  <2>1. seen = << >> /\ recent = << >> /\ Len(<< >>) = 0 /\ << >> \in Seq(Messages)
    BY DEF Init
  <2>2. Capacity \in Nat /\ Capacity > 0
    BY BridgeAssumption DEF BridgeAssumption
  <2>3. CacheInv
    BY <2>1, <2>2 DEF CacheInv, Distinct
  <2>4. ReplaysDropped
    BY Delivery DEF Init, ReplaysDropped
  <2> QED
    BY <2>3, <2>4
<1>2. BridgeInv /\ CacheInv /\ ReplaysDropped /\ [Next]_vars => CacheInv' /\ ReplaysDropped'
  BY CacheStep
<1>3. CacheInv /\ ReplaysDropped => HandledOnce
  <2> SUFFICES ASSUME CacheInv, ReplaysDropped PROVE HandledOnce
    OBVIOUS
  <2>1. Capacity \in Nat /\ seen \in Seq(Messages) /\ recent \in Seq(Messages)
    BY BridgeAssumption DEF BridgeAssumption, CacheInv
  <2>2. Len(seen) <= Capacity
    BY <2>1 DEF CacheInv
  <2>3. ASSUME NEW m \in Messages
        PROVE  Cardinality({n \in 1..MaxDeliveries[m] :
                              callback[<<m, n>>] \notin {"none", "duplicate"}}) <= 1
    <3> DEFINE routed == {n \in 1..MaxDeliveries[m] :
                            callback[<<m, n>>] \notin {"none", "duplicate"}}
    <3>1. routed \subseteq {1}
      <4>1. MaxDeliveries[m] \in Nat
        BY BridgeAssumption DEF BridgeAssumption
      <4> QED
        BY <4>1 DEF ReplaysDropped
    <3>2. IsFiniteSet({1}) /\ Cardinality({1}) = 1
      BY FS_Singleton
    <3> HIDE DEF routed
    <3>3. Cardinality(routed) <= Cardinality({1})
      BY <3>1, <3>2, FS_Subset
    <3>4. Cardinality(routed) <= 1
      BY <3>2, <3>3
    <3> QED
      BY <3>4 DEF routed
  <2> QED
    BY <2>2, <2>3 DEF HandledOnce
<1> QED
  BY <1>1, <1>2, <1>3, BridgeCorrect, PTL DEF Spec
=============================================================================
