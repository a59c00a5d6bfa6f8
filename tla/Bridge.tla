-------------------------------- MODULE Bridge --------------------------------
(***************************************************************************)
(* The bridge process: the Discord gateway, the worker that hosts its tools,*)
(* and the turns it runs, from boot to exit (bridge/gateway.py).            *)
(*                                                                         *)
(* Everything is one event loop.  run is the place of _run_bridge_runtime   *)
(* between two awaits; callback and handler are the tasks of each delivery  *)
(* of a message: the routing callback of discord.py and the turn it spawns. *)
(***************************************************************************)
EXTENDS Naturals, Sequences, FiniteSets, Functions

CONSTANTS Messages,            \* Discord message ids
          MaxDeliveries,       \* how often each message is delivered, at most
          Capacity,            \* _SEEN_MESSAGE_IDS_CAPACITY
          ReplayWindow         \* how far back Discord replays after a reconnect

(* Discord replays no message behind which more than the cache holds has been seen. *)
BridgeAssumption ==
  /\ IsFiniteSet(Messages)
  /\ MaxDeliveries \in [Messages -> Nat \ {0}]
  /\ Capacity \in Nat \ {0}
  /\ ReplayWindow \in 1..Capacity

ASSUME BridgeAssumption

Deliveries == UNION {{m} \X (1..MaxDeliveries[m]) : m \in Messages}

VARIABLES
  run,        \* where _run, and _run_bridge_runtime inside it, stand
  store,      \* the transcript store the turns read and write
  stop,       \* the stop event: SIGINT or SIGTERM has arrived
  discord,    \* the gateway task
  worker,     \* the co-located Worker
  gate,       \* _accepting_messages and _ingress_terminal
  callback,   \* per delivery, what its routing callback waits for
  handler,    \* per delivery, the turn it spawned
  seen,       \* _seen_message_ids, oldest first
  error,      \* primary_error
  ended,      \* what ended the run: history, for the properties
  faults,     \* what has gone wrong: history, for the properties
  recent      \* messages by last delivery, nothing forgotten: history

tasks == <<callback, handler, seen, recent>>
vars ==
  <<run, store, stop, discord, worker, gate, callback, handler, seen, error, ended, faults, recent>>

Before == {"login", "opening", "hydrating"}
Stages == Before \union {"boot", "starting", "serving", "settle", "drainIngress", "drainTurns",
                         "joining", "stopWorker", "closeGateway", "closing", "exited"}
Waits == {"owner", "thread", "parentOwner", "command"}
Faults == {"login", "gateway", "start", "cleanup"}

TypeOK ==
  /\ run \in Stages
  /\ store \in {"closed", "open", "null"}
  /\ stop \in BOOLEAN
  /\ discord \in {"connecting", "ready", "failed", "closed"}
  /\ worker \in {"none", "starting", "up", "failed", "cancelled", "stopped"}
  /\ gate \in {"shut", "open", "closed"}
  /\ callback \in [Deliveries -> {"none", "duplicate", "over"} \union Waits]
  /\ handler \in [Deliveries -> {"none", "running", "cancelled", "over"}]
  /\ error \in {"none", "killed"} \union Faults
  /\ ended \in {"none", "killed", "login", "stop", "gateway", "start"}
  /\ faults \subseteq Faults

Init ==
  /\ run = "login"
  /\ store = "closed"
  /\ stop = FALSE
  /\ discord = "connecting"
  /\ worker = "none"
  /\ gate = "shut"
  /\ callback = [d \in Deliveries |-> "none"]
  /\ handler = [d \in Deliveries |-> "none"]
  /\ seen = << >>
  /\ error = "none"
  /\ ended = "none"
  /\ faults = {}
  /\ recent = << >>

(***************************************************************************)
(* Signals, the gateway connection, the worker's start                      *)
(***************************************************************************)

(* The handlers of SIGINT and SIGTERM are in place. *)
Signal ==
  /\ run \notin Before \union {"closing", "exited"}
  /\ stop' = TRUE
  /\ UNCHANGED <<store, run, discord, worker, gate, tasks, error, ended, faults>>

(* Before they are, and after they are removed, a signal ends the process where it stands. *)
Killed ==
  /\ run \in Before \union {"closing"}
  /\ run' = "exited"
  /\ store' = "closed"
  /\ ended' = "killed"
  /\ error' = "killed"
  /\ UNCHANGED <<stop, discord, worker, gate, tasks, faults>>

DiscordReady ==
  /\ run \notin Before
  /\ discord = "connecting"
  /\ discord' = "ready"
  /\ UNCHANGED <<store, run, stop, worker, gate, tasks, error, ended, faults>>

(* client.start raises, or returns although nobody closed the client. *)
DiscordFails ==
  /\ run \notin Before
  /\ discord \in {"connecting", "ready"}
  /\ discord' = "failed"
  /\ faults' = faults \union {"gateway"}
  /\ UNCHANGED <<store, run, stop, worker, gate, tasks, error, ended>>

WorkerStarts ==
  /\ worker = "starting"
  /\ worker' = "up"
  /\ UNCHANGED <<store, run, stop, discord, gate, tasks, error, ended, faults>>

WorkerFails ==
  /\ worker = "starting"
  /\ worker' = "failed"
  /\ faults' = faults \union {"start"}
  /\ UNCHANGED <<store, run, stop, discord, gate, tasks, error, ended>>

(***************************************************************************)
(* Messages                                                                 *)
(***************************************************************************)

(* Messages in the order of their last delivery, after one more. *)
MovedToEnd(order, m) ==
  IF m \notin Range(order) THEN Append(order, m)
  ELSE LET at == CHOOSE i \in DOMAIN order : order[i] = m
       IN [i \in DOMAIN order |-> IF i < at THEN order[i]
                                  ELSE IF i < Len(order) THEN order[i + 1] ELSE m]

(* Mutant: a duplicate keeps its old place in the cache. *)
Bug_Touched(order, m) ==
  IF m \in Range(order) THEN order ELSE Append(order, m)

(* OrderedDict.move_to_end, or a new entry at the end. *)
Touched(order, m) == MovedToEnd(order, m)

AlreadySeen(m) == m \in Range(seen)

(* _already_seen: the oldest id is forgotten when the cache is full. *)
Remember(m) ==
  LET order == Touched(seen, m)
  IN seen' = IF Len(order) > Capacity THEN Tail(order) ELSE order

(* A first delivery, or a replay: the message is among the last that were delivered. *)
Delivered(m, n) ==
  IF n = 1 THEN TRUE
  ELSE /\ callback[<<m, n - 1>>] # "none"
       /\ m \in Range(SubSeq(recent, IF Len(recent) > ReplayWindow
                                     THEN Len(recent) - ReplayWindow + 1 ELSE 1, Len(recent)))

(* on_message, for a message that a human or a persona wrote: the callback registers, drops a    *)
(* duplicate, and routes as far as its first await.  A mention needs none; without one the       *)
(* sticky owner is looked up; !new makes a thread first; !unstick and refusals post a notice.    *)
OnMessage(m, n) ==
  LET d == <<m, n>>
  IN /\ gate = "open"
     /\ discord = "ready"
     /\ callback[d] = "none"
     /\ Delivered(m, n)
     /\ recent' = MovedToEnd(recent, m)
     /\ Remember(m)
     /\ IF AlreadySeen(m)
        THEN /\ callback' = [callback EXCEPT ![d] = "duplicate"]
             /\ UNCHANGED handler
        ELSE \/ /\ callback' = [callback EXCEPT ![d] = "over"]
                /\ handler' = [handler EXCEPT ![d] = "running"]
             \/ /\ \E wait \in {"over", "owner", "thread", "command"} :
                     callback' = [callback EXCEPT ![d] = wait]
                /\ UNCHANGED handler
     /\ UNCHANGED <<store, run, stop, discord, worker, gate, error, ended, faults>>

CallbackGoesOn(d, from, to, turn) ==
  /\ callback[d] = from
  /\ callback' = [callback EXCEPT ![d] = to]
  /\ handler' = [handler EXCEPT ![d] = turn]
  /\ UNCHANGED <<store, run, stop, discord, worker, gate, seen, error, ended, faults, recent>>

(* _spawn_handle: the owner is known, or the message that opened the thread mentions an agent. *)
Spawns(d) ==
  \/ CallbackGoesOn(d, "owner", "over", "running")
  \/ CallbackGoesOn(d, "thread", "over", "running")
  \/ CallbackGoesOn(d, "parentOwner", "over", "running")

(* The thread is there and mentions nobody: the owner of the parent channel is asked for. *)
ThreadOpened(d) == CallbackGoesOn(d, "thread", "parentOwner", "none")

(* The thread was not made, or nobody owns the parent: a notice says so. *)
Refused(d) ==
  \/ CallbackGoesOn(d, "thread", "command", "none")
  \/ CallbackGoesOn(d, "parentOwner", "command", "none")

(* No owner; the notice is posted; or the store or Discord raised. *)
CallbackEnds(d) ==
  \E wait \in Waits : CallbackGoesOn(d, wait, "over", "none")

(* The turn ends by itself, or has unwound after it was cancelled. *)
TurnEnds(d) ==
  /\ handler[d] \in {"running", "cancelled"}
  /\ handler' = [handler EXCEPT ![d] = "over"]
  /\ UNCHANGED <<run, store, stop, discord, worker, gate, callback, seen, error, ended, faults,
                 recent>>

(***************************************************************************)
(* main: what is there before the runtime, and goes after it                *)
(***************************************************************************)

(* The settings are read, the persona sender logs in, the Client connects. *)
Login ==
  /\ run = "login"
  /\ run' = "opening"
  /\ UNCHANGED <<store, stop, discord, worker, gate, tasks, error, ended, faults>>

(* Any of the three raises: there is nothing to drain. *)
LoginFails ==
  /\ run = "login"
  /\ run' = "exited"
  /\ ended' = "login"
  /\ error' = "login"
  /\ faults' = faults \union {"login"}
  /\ UNCHANGED <<store, stop, discord, worker, gate, tasks>>

(* A store that cannot be opened is replaced by one that keeps nothing: the bridge still boots. *)
OpenStore ==
  /\ run = "opening"
  /\ store' \in {"open", "null"}
  /\ run' = "hydrating"
  /\ UNCHANGED <<stop, discord, worker, gate, tasks, error, ended, faults>>

(* Old transcripts are pruned and overrides read, or not: neither failure is one of the boot. *)
Hydrate ==
  /\ run = "hydrating"
  /\ run' = "boot"
  /\ UNCHANGED <<store, stop, discord, worker, gate, tasks, error, ended, faults>>

(* Typing stops; the contexts close the store, the Client and the sender, in that order. *)
Close ==
  /\ run = "closing"
  /\ run' = "exited"
  /\ store' = "closed"
  /\ UNCHANGED <<stop, discord, worker, gate, tasks, error, ended, faults>>

(***************************************************************************)
(* _run_bridge_runtime: boot, start, serve                                  *)
(***************************************************************************)

(* The try block is left: quiesce opens the finally clause. *)
Leaves(stage, cause, failure) ==
  /\ run = stage
  /\ run' = "settle"
  /\ gate' = "closed"
  /\ ended' = cause
  /\ error' = failure
  /\ UNCHANGED <<store, stop, discord, worker, tasks, faults>>

BootFails == discord = "failed" /\ Leaves("boot", "gateway", "gateway")

BootStopped == discord # "failed" /\ stop /\ Leaves("boot", "stop", "none")

(* The stop task may lag one turn of the loop behind the event: a start may still begin. *)
StartWorker ==
  /\ run = "boot"
  /\ discord = "ready"
  /\ run' = "starting"
  /\ worker' = "starting"
  /\ UNCHANGED <<store, stop, discord, gate, tasks, error, ended, faults>>

StartingFails == discord = "failed" /\ Leaves("starting", "gateway", "gateway")

(* The stop has precedence over a start that has ended in the same turn of the loop. *)
StartingStopped == discord # "failed" /\ stop /\ Leaves("starting", "stop", "none")

StartFailed ==
  /\ discord # "failed" /\ ~stop
  /\ worker = "failed"
  /\ Leaves("starting", "start", "start")

Serve ==
  /\ run = "starting"
  /\ discord # "failed" /\ ~stop
  /\ worker = "up"
  /\ run' = "serving"
  /\ gate' = "open"
  /\ UNCHANGED <<store, stop, discord, worker, tasks, error, ended, faults>>

ServingFails == discord = "failed" /\ Leaves("serving", "gateway", "gateway")

ServingStopped == discord # "failed" /\ stop /\ Leaves("serving", "stop", "none")

(***************************************************************************)
(* The finally clause                                                       *)
(***************************************************************************)

Or(first, later) == IF first # "none" THEN first ELSE later

(* The worker's start is cancelled if it still runs, and joined: it may have ended either way.   *)
(* Its failure is the run's error unless there is one, or the stop came first (shutdown_won).    *)
SettleStart ==
  /\ run = "settle"
  /\ worker' \in IF worker = "starting" THEN {"up", "failed", "cancelled"} ELSE {worker}
  /\ faults' = IF worker' = "failed" THEN faults \union {"start"} ELSE faults
  /\ error' = IF worker' = "failed" /\ ended # "stop" THEN Or(error, "start") ELSE error
  /\ run' = "drainIngress"
  /\ UNCHANGED <<store, stop, discord, gate, tasks, ended>>

(* Mutant: callbacks that wait are left behind. *)
Bug_DrainIngress ==
  /\ run = "drainIngress"
  /\ run' = "drainTurns"
  /\ UNCHANGED <<store, stop, discord, worker, gate, tasks, error, ended, faults>>

(* drain_ingress: a cancelled callback runs no further, whatever it was waiting for. *)
DrainIngress ==
  /\ run = "drainIngress"
  /\ callback' = [d \in Deliveries |-> IF callback[d] \in Waits THEN "over" ELSE callback[d]]
  /\ run' = "drainTurns"
  /\ UNCHANGED <<store, stop, discord, worker, gate, handler, seen, error, ended, faults, recent>>

(* Mutant: turns are awaited and not cancelled. *)
Bug_DrainTurns ==
  /\ run = "drainTurns"
  /\ run' = "joining"
  /\ UNCHANGED <<store, stop, discord, worker, gate, tasks, error, ended, faults>>

(* drain_inflight: every turn is cancelled, then awaited.  No callback is left to add another. *)
DrainTurns ==
  /\ run = "drainTurns"
  /\ handler' = [d \in Deliveries |-> IF handler[d] = "running" THEN "cancelled" ELSE handler[d]]
  /\ run' = "joining"
  /\ UNCHANGED <<store, stop, discord, worker, gate, callback, seen, error, ended, faults, recent>>

TurnsJoined ==
  /\ run = "joining"
  /\ \A d \in Deliveries : handler[d] \notin {"running", "cancelled"}
  /\ run' = "stopWorker"
  /\ UNCHANGED <<store, stop, discord, worker, gate, tasks, error, ended, faults>>

(* Mutant: the last error wins. *)
Bug_Cleanup(raises) ==
  /\ faults' = IF raises THEN faults \union {"cleanup"} ELSE faults
  /\ error' = IF raises THEN "cleanup" ELSE error

(* _capture_cleanup_error: an error of the cleanup never masks an earlier one. *)
Cleanup(raises) ==
  /\ faults' = IF raises THEN faults \union {"cleanup"} ELSE faults
  /\ error' = IF raises THEN Or(error, "cleanup") ELSE error

StopWorker ==
  /\ run = "stopWorker"
  /\ IF worker = "up"
     THEN worker' = "stopped" /\ \E raises \in BOOLEAN : Cleanup(raises)
     ELSE UNCHANGED <<worker, error, faults>>
  /\ run' = "closeGateway"
  /\ UNCHANGED <<store, stop, discord, gate, tasks, ended>>

CloseGateway ==
  /\ run = "closeGateway"
  /\ \E raises \in BOOLEAN : Cleanup(raises)
  /\ discord' = "closed"
  /\ run' = "closing"
  /\ UNCHANGED <<store, stop, worker, gate, tasks, ended>>

Exited == run = "exited" /\ UNCHANGED vars

Runtime ==
  \/ Login \/ LoginFails \/ OpenStore \/ Hydrate
  \/ BootFails \/ BootStopped \/ StartWorker
  \/ StartingFails \/ StartingStopped \/ StartFailed \/ Serve
  \/ ServingFails \/ ServingStopped
  \/ SettleStart \/ DrainIngress \/ DrainTurns \/ TurnsJoined \/ StopWorker \/ CloseGateway
  \/ Close

Next ==
  \/ Signal \/ Killed \/ DiscordReady \/ DiscordFails \/ WorkerStarts \/ WorkerFails
  \/ \E m \in Messages : \E n \in 1..MaxDeliveries[m] : OnMessage(m, n)
  \/ \E d \in Deliveries :
       Spawns(d) \/ ThreadOpened(d) \/ Refused(d) \/ CallbackEnds(d) \/ TurnEnds(d)
  \/ Runtime
  \/ Exited

(* The event loop runs what is ready, and a cancelled turn ends: its calls have timeouts. *)
Fairness ==
  /\ WF_vars(Runtime)
  /\ \A d \in Deliveries : WF_vars(handler[d] = "cancelled" /\ TurnEnds(d))

Spec == Init /\ [][Next]_vars

FairSpec == Spec /\ Fairness

(***************************************************************************)
(* Properties                                                               *)
(***************************************************************************)

(* The bridge implements Ingress: no message is admitted before the worker serves or after the   *)
(* gate has closed, and what every turn works over, the broker connection (worker.stop,          *)
(* gateway.py:781) and the transcript store, is given up only when no turn runs and no callback  *)
(* is left that could still spawn one.                                                           *)
TurnOf(d) ==
  IF handler[d] \in {"running", "cancelled"} THEN "running"
  ELSE IF callback[d] \in Waits THEN "admitted"
  ELSE IF callback[d] = "over" THEN "over"
  ELSE "new"

GaveUpMesh ==
  /\ gate = "closed"
  /\ run \in {"closeGateway", "closing", "exited"} \/ store = "closed"

Gate == INSTANCE Ingress WITH
  Arrivals <- Deliveries,
  gate <- gate,
  turn <- [d \in Deliveries |-> TurnOf(d)],
  mesh <- IF GaveUpMesh THEN "down" ELSE "up"

ImplementsIngress == Gate!Spec

(* A message is handled at most once however often Discord delivers it, by a cache that never    *)
(* grows over its capacity: it keeps what a reconnect may replay, because a duplicate refreshes  *)
(* its entry (gateway.py:632).                                                                   *)
HandledOnce ==
  /\ Len(seen) <= Capacity
  /\ \A m \in Messages :
       Cardinality({n \in 1..MaxDeliveries[m] : callback[<<m, n>>] \notin {"none", "duplicate"}}) <= 1

(* The exit status names what ended the run: an orderly stop stays one whatever the worker's     *)
(* start came to, a first failure is not masked by the cleanup, and a worker that came up, even  *)
(* while the stop arrived, has been stopped (gateway.py:746-797); the store is closed again.     *)
ExitHonest ==
  run = "exited" =>
    /\ worker \notin {"starting", "up"}
    /\ store = "closed"
    /\ error = CASE ended # "stop"                        -> ended
                 [] ended = "stop" /\ "cleanup" \in faults -> "cleanup"
                 [] OTHER                                -> "none"

(* Once told to stop, the bridge exits: teardown cannot wait for something that no longer runs. *)
StopExits == stop ~> run = "exited"
=============================================================================
