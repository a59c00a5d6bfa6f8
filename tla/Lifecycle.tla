------------------------------- MODULE Lifecycle -------------------------------
(***************************************************************************)
(* disco start, stop and bridge restart against the process supervisor of   *)
(* one install (supervisor/lifecycle.py), and the heartbeat by which the    *)
(* supervisor tells whether the bridge is ready (calfcord/health).          *)
(*                                                                         *)
(* The commands take an exclusive lock, but not the world: the supervisor   *)
(* boots on its own time, restarts the bridge, and shares its REST port     *)
(* with whatever other install hashes to the same one.                      *)
(***************************************************************************)
EXTENDS Naturals

CONSTANTS Commands,            \* the disco processes
          MaxPids              \* bound on the bridge processes

ASSUME LifecycleAssumption == MaxPids \in Nat

Nobody == "nobody"
ASSUME NobodyAssumption == Nobody \notin Commands

VARIABLES
  lock,       \* who holds calfcord-lifecycle.lock
  pc,         \* where each command stands
  verb,       \* what it does
  before,     \* pid_before; 0 when it is not known
  reply,      \* what the last one reported when it ended; "none" of a failure
  ours,       \* this install's supervisor
  other,      \* the supervisor of another install on the same port
  bridge,     \* the bridge process: its pid and what it does
  ready,      \* the supervisor's verdict on it: is_ready
  beat,       \* state/health/bridge.json: who wrote it, and whether it is fresh
  asked,      \* the bridge process that the restart request reached; 0: none: history
  unnamed,    \* the last "open" rests on a status without a pid: history
  unheard,    \* the last command missed our supervisor with a probe: history
  abandoned,  \* a command ended while our supervisor was still booting: history
  inherited   \* a beat was fresh when the bridge process was born: history

commands == <<lock, pc, verb, before, reply>>
slot == <<bridge, ready, beat, inherited>>
gate == <<asked, unnamed>>
vars == <<commands, ours, other, slot, gate, unheard, abandoned>>

Verbs == {"start", "restart", "stop"}
Stages == {"idle", "probing", "checking", "reading", "restarting", "awaitRestart", "broker",
           "spawning", "waiting", "priming", "awaitFirst", "tearing", "sweeping", "downing",
           "reprobing"}
Replies == {"none", "open", "closed"}

TypeOK ==
  /\ lock \in Commands \union {Nobody}
  /\ pc \in [Commands -> Stages]
  /\ verb \in [Commands -> Verbs]
  /\ before \in [Commands -> 0..MaxPids]
  /\ reply \in Replies
  /\ ours \in {"down", "booting", "up"}
  /\ other \in {"down", "up"}
  /\ bridge \in [pid : 0..MaxPids, phase : {"none", "leaving", "booting", "serving", "sick"}]
  /\ ready \in BOOLEAN
  /\ beat \in [pid : 0..MaxPids, fresh : BOOLEAN]
  /\ asked \in 0..MaxPids
  /\ unnamed \in BOOLEAN /\ unheard \in BOOLEAN
  /\ abandoned \in BOOLEAN /\ inherited \in BOOLEAN

Init ==
  /\ lock = Nobody
  /\ pc = [c \in Commands |-> "idle"]
  /\ verb = [c \in Commands |-> "start"]
  /\ before = [c \in Commands |-> 0]
  /\ reply = "none"
  /\ ours = "down"
  /\ other = "down"
  /\ bridge = [pid |-> 0, phase |-> "none"]
  /\ ready = FALSE
  /\ beat = [pid |-> 0, fresh |-> FALSE]
  /\ asked = 0
  /\ unnamed = FALSE
  /\ unheard = FALSE
  /\ abandoned = FALSE
  /\ inherited = FALSE

(* A supervisor serves the port. *)
Answers == ours = "up" \/ other = "up"

(* workspace_is_up: a call that fails, for any reason, is taken for "down". *)
Verdicts == IF Answers THEN BOOLEAN ELSE {FALSE}

Misses(up) == unheard' = (unheard \/ (ours = "up" /\ ~up))

(***************************************************************************)
(* Steps of a command                                                       *)
(***************************************************************************)

Goto(c, stage) ==
  /\ pc' = [pc EXCEPT ![c] = stage]
  /\ UNCHANGED <<lock, verb, reply, asked, abandoned>>

(* The command returns; the with block frees the lock. *)
Ends(c, r) ==
  /\ pc' = [pc EXCEPT ![c] = "idle"]
  /\ verb' = [verb EXCEPT ![c] = "start"]
  /\ before' = [before EXCEPT ![c] = 0]
  /\ asked' = 0
  /\ reply' = r
  /\ lock' = Nobody
  /\ abandoned' = (abandoned \/ ours = "booting")

(* Mutant: the lock is not exclusive. *)
Bug_LockFree == TRUE

(* flock(LOCK_EX | LOCK_NB): a second command is refused at once. *)
LockFree == lock = Nobody

Begin(c, v) ==
  /\ pc[c] = "idle"
  /\ LockFree
  /\ lock' = c
  /\ pc' = [pc EXCEPT ![c] = "probing"]
  /\ verb' = [verb EXCEPT ![c] = v]
  /\ reply' = "none"
  /\ unnamed' = FALSE
  /\ unheard' = FALSE
  /\ abandoned' = (abandoned /\ ours = "booting")
  /\ UNCHANGED <<before, ours, other, slot, asked>>

(* Is the workspace up?  What each command makes of the answer. *)
Probe(c) ==
  /\ pc[c] = "probing"
  /\ \E up \in Verdicts :
       /\ Misses(up)
       /\ \/ /\ verb[c] = "stop"
             /\ Goto(c, IF up THEN "downing" ELSE "sweeping") /\ UNCHANGED before
          \/ /\ verb[c] # "stop" /\ up
             /\ Goto(c, "checking") /\ UNCHANGED before
          \/ /\ verb[c] = "start" /\ ~up
             /\ Goto(c, "broker") /\ UNCHANGED before
          \/ /\ verb[c] = "restart" /\ ~up
             /\ Ends(c, "none")
  /\ UNCHANGED <<ours, other, slot, unnamed>>

(* _supervisor_belongs_to_home: another install's is left alone; unknown counts as ours. *)
Check(c) ==
  /\ pc[c] = "checking"
  /\ \/ other = "up" /\ Ends(c, "none")
     \/ Goto(c, "reading") /\ UNCHANGED before
  /\ UNCHANGED <<ours, other, slot, unnamed, unheard>>

(* _restart_bridge_to_ready: the pid before the restart, if it can be read. *)
ReadPid(c) ==
  /\ pc[c] = "reading"
  /\ \E p \in {0, IF ours = "up" THEN bridge.pid ELSE 0} : before' = [before EXCEPT ![c] = p]
  /\ Goto(c, "restarting")
  /\ UNCHANGED <<ours, other, slot, unnamed, unheard>>

Bounced == IF ours = "up" THEN [bridge EXCEPT !.phase = "leaving"] ELSE bridge

(* The restart request: the old process leaves, the new one comes later.  When the request fails *)
(* it may have been obeyed.                                                                      *)
Restart(c) ==
  /\ pc[c] = "restarting"
  /\ \/ /\ Answers
        /\ bridge' = Bounced
        /\ asked' = IF ours = "up" THEN bridge.pid ELSE 0
        /\ pc' = [pc EXCEPT ![c] = "awaitRestart"]
        /\ UNCHANGED <<lock, verb, before, reply, abandoned>>
     \/ bridge' \in {bridge, Bounced} /\ Ends(c, "none")
  /\ UNCHANGED <<ours, other, ready, beat, inherited, unnamed, unheard>>

(* Mutant: any Ready will do. *)
Bug_NewInstance(c) == TRUE

(* restarted_from_pid: the Ready of the process that was restarted does not count. *)
NewInstance(c) == before[c] = 0 \/ bridge.pid # before[c]

(* _await_bridge_ready.  A Ready without a pid is taken for the new instance's; of another         *)
(* install's bridge, the poll may see anything.                                                   *)
AwaitReady(c) ==
  /\ pc[c] \in {"awaitRestart", "awaitFirst"}
  /\ Answers
  /\ ours = "up" => ready
  /\ \/ (ours = "up" => NewInstance(c)) /\ UNCHANGED unnamed
     \/ ours = "up" /\ ~NewInstance(c) /\ unnamed' = TRUE
  /\ Ends(c, "open")
  /\ UNCHANGED <<ours, other, slot, unheard>>

(* A first start is torn down; a restart is left to the supervisor. *)
AwaitTimesOut(c) ==
  /\ \/ pc[c] = "awaitFirst" /\ Goto(c, "tearing") /\ UNCHANGED before
     \/ pc[c] = "awaitRestart" /\ Ends(c, "none")
  /\ UNCHANGED <<ours, other, slot, unnamed, unheard>>

(* An external broker is probed first; one on this host starts with the workspace. *)
ProbeBroker(c) ==
  /\ pc[c] = "broker"
  /\ \/ Goto(c, "spawning") /\ UNCHANGED before
     \/ Ends(c, "none")
  /\ UNCHANGED <<ours, other, slot, unnamed, unheard>>

(* process-compose up -D.  A second one exits, on the port that the first has or gets. *)
Spawn(c) ==
  /\ pc[c] = "spawning"
  /\ ours' = IF ours = "down" THEN "booting" ELSE ours
  /\ Goto(c, "waiting")
  /\ UNCHANGED <<before, other, slot, unnamed, unheard>>

AwaitUp(c) ==
  /\ pc[c] = "waiting"
  /\ Answers
  /\ Goto(c, "priming")
  /\ UNCHANGED <<before, ours, other, slot, unnamed, unheard>>

(* Thirty seconds of calls that fail: the start returns, and tears nothing down. *)
AwaitUpTimesOut(c) ==
  /\ pc[c] = "waiting"
  /\ Ends(c, "none")
  /\ UNCHANGED <<ours, other, slot, unnamed, unheard>>

(* The priming update of the project; a failure tears the workspace down. *)
Prime(c) ==
  /\ pc[c] = "priming"
  /\ \/ Answers /\ Goto(c, "awaitFirst")
     \/ Goto(c, "tearing")
  /\ UNCHANGED <<before, ours, other, slot, unnamed, unheard>>

(* process-compose down on the port: whoever answers goes; or it fails, or exits early. *)
PortDown ==
  \/ /\ ours = "up"
     /\ ours' = "down"
     /\ bridge' = [bridge EXCEPT !.phase = "none"]
     /\ ready' = FALSE
     /\ UNCHANGED <<other, beat, inherited>>
  \/ other = "up" /\ other' = "down" /\ UNCHANGED <<ours, slot>>
  \/ UNCHANGED <<ours, other, slot>>

(* _attempt_teardown: what start says of it goes by whether down returns, not by its exit status. *)
TearDown(c) ==
  /\ pc[c] = "tearing"
  /\ PortDown
  /\ Ends(c, "none")
  /\ UNCHANGED <<unnamed, unheard>>

(* _sweep_roster_pidfiles, and with no supervisor that is all; an unreadable directory aborts. *)
Sweep(c) ==
  /\ pc[c] = "sweeping"
  /\ \E r \in {"closed", "none"} : Ends(c, r)
  /\ UNCHANGED <<ours, other, slot, unnamed, unheard>>

(* The sweep, then down: it may hang past its timeout, or the sweep may abort. *)
Down(c) ==
  /\ pc[c] = "downing"
  /\ \/ PortDown /\ Goto(c, "reprobing") /\ UNCHANGED before
     \/ Ends(c, "none") /\ UNCHANGED <<ours, other, slot>>
  /\ UNCHANGED <<unnamed, unheard>>

(* down returning is no proof: the port is probed again. *)
Reprobe(c) ==
  /\ pc[c] = "reprobing"
  /\ \E up \in Verdicts :
       /\ Misses(up)
       /\ Ends(c, IF up THEN "none" ELSE "closed")
  /\ UNCHANGED <<ours, other, slot, unnamed>>

(* The command is killed: the system frees its lock. *)
Killed(c) ==
  /\ pc[c] # "idle"
  /\ Ends(c, "none")
  /\ UNCHANGED <<ours, other, slot, unnamed, unheard>>

(***************************************************************************)
(* The supervisors                                                          *)
(***************************************************************************)

(* A bridge process is born: not ready, beside whatever beat its predecessor left. *)
Birth ==
  /\ bridge.pid < MaxPids
  /\ bridge' = [pid |-> bridge.pid + 1, phase |-> "booting"]
  /\ ready' = FALSE
  /\ inherited' = beat.fresh
  /\ UNCHANGED beat

(* Our supervisor binds the port and starts the bridge; on a taken port it exits. *)
OursAnswers ==
  /\ ours = "booting"
  /\ \/ other = "down" /\ ours' = "up" /\ Birth
     \/ other = "up" /\ ours' = "down" /\ UNCHANGED slot
  /\ UNCHANGED <<commands, other, gate, unheard, abandoned>>

OursDies ==
  /\ ours # "down"
  /\ ours' = "down"
  /\ bridge' = [bridge EXCEPT !.phase = "none"]
  /\ ready' = FALSE
  /\ UNCHANGED <<commands, other, beat, inherited, gate, unheard, abandoned>>

OtherStarts ==
  /\ ~Answers
  /\ other' = "up"
  /\ UNCHANGED <<commands, ours, slot, gate, unheard, abandoned>>

OtherStops ==
  /\ other = "up"
  /\ other' = "down"
  /\ UNCHANGED <<commands, ours, slot, gate, unheard, abandoned>>

(* restart: always, after a crash, a failed probe or a restart request. *)
Respawn ==
  /\ ours = "up"
  /\ bridge.phase # "none"
  /\ Birth
  /\ UNCHANGED <<commands, ours, other, gate, unheard, abandoned>>

(* disco _healthcheck bridge: ready is what the beat's age says, whoever wrote it. *)
Healthcheck ==
  /\ ours = "up"
  /\ bridge.phase \in {"booting", "serving", "sick"}
  /\ ready # beat.fresh
  /\ ready' = beat.fresh
  /\ UNCHANGED <<commands, ours, other, bridge, beat, inherited, gate, unheard, abandoned>>

(***************************************************************************)
(* The bridge and its heartbeat                                             *)
(***************************************************************************)

(* write_beat: the file is replaced as a whole, by whoever is the bridge now. *)
Written(pid) == [pid |-> pid, fresh |-> TRUE]

(* Discord and the worker are up, for the first time or again: run_refresher writes a beat. *)
Serve ==
  /\ bridge.phase \in {"booting", "sick"}
  /\ bridge' = [bridge EXCEPT !.phase = "serving"]
  /\ beat' = Written(bridge.pid)
  /\ UNCHANGED <<commands, ours, other, ready, inherited, gate, unheard, abandoned>>

(* The gateway drops, the worker fails or the disk is full: refresh_once writes nothing. *)
Sicken ==
  /\ bridge.phase = "serving"
  /\ bridge' = [bridge EXCEPT !.phase = "sick"]
  /\ UNCHANGED <<commands, ours, other, ready, beat, inherited, gate, unheard, abandoned>>

(* Ten seconds without a beat. *)
Age ==
  /\ beat.fresh
  /\ bridge.phase # "serving"
  /\ beat' = [beat EXCEPT !.fresh = FALSE]
  /\ UNCHANGED <<commands, ours, other, bridge, ready, inherited, gate, unheard, abandoned>>

Next ==
  \/ \E c \in Commands :
       \/ \E v \in Verbs : Begin(c, v)
       \/ Probe(c) \/ Check(c) \/ ReadPid(c) \/ Restart(c)
       \/ AwaitReady(c) \/ AwaitTimesOut(c)
       \/ ProbeBroker(c) \/ Spawn(c) \/ AwaitUp(c) \/ AwaitUpTimesOut(c) \/ Prime(c)
       \/ TearDown(c) \/ Sweep(c) \/ Down(c) \/ Reprobe(c) \/ Killed(c)
  \/ OursAnswers \/ OursDies \/ OtherStarts \/ OtherStops \/ Respawn \/ Healthcheck
  \/ Serve \/ Sicken \/ Age

Spec == Init /\ [][Next]_vars

(***************************************************************************)
(* Properties                                                               *)
(***************************************************************************)

Reports(c, r) == pc[c] # "idle" /\ pc'[c] = "idle" /\ reply' = r

(* A command says that the workspace is open only about a bridge process other than the one its  *)
(* restart request reached, and one that has served (_restart_bridge_to_ready).  Three histories *)
(* are excepted, in which the code cannot know: the pid read before the restart is not that of     *)
(* the process that the request reached, since it could not be read or another process had come   *)
(* in between (before # asked); the status that said Ready named no pid (unnamed); a beat of its  *)
(* predecessor was still fresh when the process was born (inherited).  Whatever answers for       *)
(* another install is not covered.                                                                *)
GreenLight ==
  [][\A c \in Commands : Reports(c, "open") /\ ours = "up" =>
       /\ bridge.pid # asked \/ before[c] # asked \/ unnamed'
       /\ beat.pid = bridge.pid \/ inherited]_vars

(* A start never launches a second supervisor beside this install's first, unless its probe of    *)
(* the first failed (unheard), or an earlier start was killed, or gave up waiting for the REST    *)
(* server, while the first was still booting (lifecycle_lock, the probe and the early return of   *)
(* start).                                                                                        *)
OneSupervisor ==
  \A c \in Commands : pc[c] = "spawning" /\ ours # "down" => unheard \/ abandoned

=============================================================================
