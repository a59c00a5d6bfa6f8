----------------------------- MODULE RosterSlots -----------------------------
(***************************************************************************)
(* The roster of one workspace: every slot (an agent, the tools singleton, *)
(* an MCP server) is a detached process that a pidfile under state/run     *)
(* tracks, and every `disco` command is a short-lived process of its own   *)
(* that reads the pidfiles, signals, spawns and exits                      *)
(* (supervisor/procspawn, _workspace, _slot_ops, the sweeps of roster and  *)
(* mcp_roster, and the start and stop of lifecycle).                       *)
(*                                                                         *)
(* Commands interleave with each other, with the processes they start and  *)
(* with the kernel, which hands the pid of a dead process to somebody      *)
(* else.  Everything a command does between two system calls that another  *)
(* process can tell apart is one action.  flock releases with its holder,  *)
(* so who holds a lock is read off the commands (InSlot, InLifecycle).     *)
(***************************************************************************)
EXTENDS Naturals, FiniteSets

CONSTANTS
    Slots,        \* slot names: agents, tools, mcp-<server>
    Commands,     \* `disco` processes that can run side by side
    Pids,         \* bound: pids the kernel cycles through
    MaxStarts,    \* bound: processes ever started; the n-th has start token n
    MaxFaults,    \* bound: identity reads that fail and commands killed half-way
    FastRecycle,  \* TRUE: a pid may pass to a stranger between the identity read
                  \* and the signal, two adjacent system calls
    Nothing       \* no process, no record, no slot, no parent

ASSUME RosterSlotsAssumption ==
    /\ MaxStarts \in Nat
    /\ MaxFaults \in Nat
    /\ FastRecycle \in BOOLEAN
    /\ Nothing \notin Slots \cup Commands \cup [pid : Pids, token : 1 .. MaxStarts]

VARIABLES
    proc,      \* the process table: proc[pid], Nothing if the pid is free
    started,   \* processes started so far; start tokens are start times
    pidfile,   \* state/run/<slot>.pid
    cmd,       \* the commands
    open,      \* the Process Compose substrate answers
    leaked,    \* history: tokens of processes whose spawner was killed before
               \* it could write their pidfile
    faults

vars == <<proc, started, pidfile, cmd, open, leaked, faults>>

-----------------------------------------------------------------------------
(* Records.                                                                 *)

Tokens == 1 .. MaxStarts

\* PidRecord
Record == [pid : Pids, token : Tokens]

\* A process: the slot it was spawned for (Nothing: another program), its start
\* time, the command it is a child of (Nothing once reparented to init), whether
\* it still runs or is a zombie, and the slots whose commands signalled it.
Process == [owner : Slots \cup {Nothing}, token : Tokens,
            parent : Commands \cup {Nothing}, runs : BOOLEAN, hit : SUBSET Slots]

Verdicts == {"ours", "not_ours", "indeterminate"}

\* TerminateResult, with "none" for terminate_slot's None
Results == {"none", "already_dead", "not_ours", "terminated", "killed",
            "kill_unconfirmed", "indeterminate"}

StillThere == {"kill_unconfirmed", "indeterminate"}

SlotOps == {"start", "stop", "restart"}

\* Inside one slot's critical section, in the order the code reaches them.
Terminating == {"terminate", "sigterm", "grace", "sigkill", "reaping", "cleanup"}
Launching == {"check", "spawn", "spawned", "confirm"}
Critical == Terminating \cup Launching

Pcs == {"idle", "next", "gated", "opening", "priming", "down", "ending"} \cup Critical

\* todo: the slots a sweep has still to visit; rec: the process at hand; wedged:
\* disco stop met a slot it could not clear
Command == [op : SlotOps \cup {"close", "open"}, pc : Pcs,
            slot : Slots \cup {Nothing}, todo : SUBSET Slots,
            rec : Record \cup {Nothing}, result : Results, wedged : BOOLEAN]

\* A `disco` process as it starts, and the place of one that has exited
Invoked(op, pc, todo) ==
    [op |-> op, pc |-> pc, slot |-> Nothing, todo |-> todo,
     rec |-> Nothing, result |-> "none", wedged |-> FALSE]

Idle == Invoked("stop", "idle", {})

At(c, pc) == cmd[c].pc = pc

\* The lifecycle lock, shared, and the slot's own lock: slot_mutation
InSlot(c) == cmd[c].op \in SlotOps /\ cmd[c].pc \in Critical

\* The lifecycle lock, exclusive: lifecycle_lock
InLifecycle(c) == cmd[c].op \in {"close", "open"} /\ cmd[c].pc \notin {"idle", "ending"}

-----------------------------------------------------------------------------
(* What a command can see of a process.                                     *)

\* _pid_alive: signal 0 answers for a zombie too
Answers(pid) == proc[pid] # Nothing

\* The process rec names is there: its start token matches.
IsOurs(rec) == Answers(rec.pid) /\ proc[rec.pid].token = rec.token

Names(s, pid) == pidfile[s] # Nothing /\ pidfile[s].pid = pid /\ IsOurs(pidfile[s])

\* identity(rec) reads verdict v; a failed read of a live pid costs a fault.
Reads(rec, v) ==
    \/ v = (IF IsOurs(rec) THEN "ours" ELSE "not_ours") /\ UNCHANGED faults
    \/ /\ v = "indeterminate"
       /\ Answers(rec.pid)
       /\ faults < MaxFaults
       /\ faults' = faults + 1

\* Mutant: a failed identity read collapses to "not ours".
Bug_SlotReads(s, v) ==
    /\ v # "indeterminate"
    /\ UNCHANGED faults
    /\ \/ pidfile[s] # Nothing /\ IsOurs(pidfile[s]) /\ v = "ours"
       \/ v = "not_ours"

\* slot_identity, with a missing record read as not ours
SlotReads(s, v) ==
    IF pidfile[s] = Nothing THEN v = "not_ours" /\ UNCHANGED faults
    ELSE Reads(pidfile[s], v)

\* reap(pid): only the parent can
Reaped(c, pid) ==
    IF Answers(pid) /\ proc[pid].parent = c /\ ~proc[pid].runs
    THEN [proc EXCEPT ![pid] = Nothing]
    ELSE proc

\* The process table once command c has exited: init adopts and reaps.
Orphaned(c) ==
    [pid \in Pids |->
        IF Answers(pid) /\ proc[pid].parent = c
        THEN IF proc[pid].runs THEN [proc[pid] EXCEPT !.parent = Nothing] ELSE Nothing
        ELSE proc[pid]]

\* _signal_group_or_pid reaches whatever runs under the pid by now.
Signalled(pid, s) ==
    IF Answers(pid) THEN [proc EXCEPT ![pid].hit = @ \cup {s}] ELSE proc

\* After reap(pid), signal 0 finds nobody.
Gone(c, pid) == Answers(pid) => (proc[pid].parent = c /\ ~proc[pid].runs)

-----------------------------------------------------------------------------
(* The steps of a command.                                                  *)

\* cmd[c] with its current slot finished: on to the next one of a sweep, to the
\* substrate's teardown, or out
Finished(c, wedged) ==
    [op |-> cmd[c].op, todo |-> cmd[c].todo, wedged |-> wedged,
     pc |-> IF cmd[c].todo # {} THEN "next"
            ELSE IF cmd[c].op = "close" THEN "down" ELSE "ending",
     slot |-> Nothing, rec |-> Nothing, result |-> "none"]

Becomes(c, record) == cmd' = [cmd EXCEPT ![c] = record]

Goes(c, pc) == Becomes(c, [cmd[c] EXCEPT !.pc = pc])

EndsSlot(c) == Becomes(c, Finished(c, cmd[c].wedged))

EndsIn(c, result) == Becomes(c, [cmd[c] EXCEPT !.pc = "cleanup", !.result = result])

SlotLive(s) == pidfile[s] # Nothing /\ IsOurs(pidfile[s])

\* One slot, every defined agent (start --all), or those of the slots that are
\* live now which the sweep is about (stop --all, restart --all)
Targets(op) ==
    {{s} : s \in Slots}
        \cup SUBSET (IF op = "start" THEN Slots ELSE {s \in Slots : SlotLive(s)})

\* A roster verb is invoked; workspace_is_up refuses it when the substrate is down.
Invoke(c) ==
    /\ At(c, "idle")
    /\ open
    /\ \E op \in SlotOps : \E todo \in Targets(op) \ {{}} :
         Becomes(c, Invoked(op, "next", todo))
    /\ UNCHANGED <<proc, started, pidfile, open, leaked, faults>>

\* The next slot.  A start checks the workspace again for each of them; the
\* other verbs did once, and disco stop needs no gate.
PickSlot(c) ==
    /\ At(c, "next")
    /\ \E s \in cmd[c].todo :
         Becomes(c, [cmd[c] EXCEPT !.slot = s, !.todo = @ \ {s},
                        !.pc = IF cmd[c].op = "close" THEN "terminate"
                               ELSE IF cmd[c].op = "start" /\ ~open THEN "ending"
                               ELSE "gated"])
    /\ UNCHANGED <<proc, started, pidfile, open, leaked, faults>>

\* The pre-flights of the spawn verbs, outside the locks: legacy workspace,
\* broker gate, a mesh that already has the agent on another host
Decline(c) ==
    /\ At(c, "gated")
    /\ cmd[c].op # "stop"
    /\ EndsSlot(c)
    /\ UNCHANGED <<proc, started, pidfile, open, leaked, faults>>

\* Mutants: slot_mutation without the per-slot lock, or without the lifecycle lock
Bug_SlotFree(s) == TRUE

Bug_LifecycleFree == TRUE

SlotFree(s) == \A d \in Commands : ~(InSlot(d) /\ cmd[d].slot = s)

LifecycleFree == \A d \in Commands : ~InLifecycle(d)

RosterFree == \A d \in Commands : ~InSlot(d)

\* slot_mutation: both locks, neither waited for.  WorkspaceBusyError ends a stop
\* or restart sweep at once; SlotBusyError only skips the slot.
EnterSlot(c) ==
    /\ At(c, "gated")
    /\ \/ ~LifecycleFree /\ cmd[c].op # "start" /\ Goes(c, "ending")
       \/ ~LifecycleFree /\ cmd[c].op = "start" /\ EndsSlot(c)
       \/ LifecycleFree /\ ~SlotFree(cmd[c].slot) /\ EndsSlot(c)
       \/ /\ LifecycleFree
          /\ SlotFree(cmd[c].slot)
          /\ Goes(c, IF cmd[c].op = "start" THEN "check" ELSE "terminate")
    /\ UNCHANGED <<proc, started, pidfile, open, leaked, faults>>

\* start_slot's check-alive: a live slot is restarted, a dead one spawned, one
\* that cannot be verified left alone
CheckAlive(c) ==
    /\ At(c, "check")
    /\ \/ SlotReads(cmd[c].slot, "ours") /\ Goes(c, "terminate")
       \/ SlotReads(cmd[c].slot, "not_ours") /\ Goes(c, "spawn")
       \/ SlotReads(cmd[c].slot, "indeterminate") /\ EndsSlot(c)
    /\ UNCHANGED <<proc, started, pidfile, open, leaked>>

\* terminate_slot up to the first signal
Terminate(c) ==
    /\ At(c, "terminate")
    /\ LET s == cmd[c].slot
           r == pidfile[s]
       IN \/ /\ r = Nothing
             /\ EndsIn(c, "none")
             /\ UNCHANGED <<proc, faults>>
          \/ /\ r # Nothing
             /\ Gone(c, r.pid)
             /\ proc' = Reaped(c, r.pid)
             /\ EndsIn(c, "already_dead")
             /\ UNCHANGED faults
          \/ /\ r # Nothing
             /\ ~Gone(c, r.pid)
             /\ \/ /\ Reads(r, "ours")
                   /\ Becomes(c, [cmd[c] EXCEPT !.pc = "sigterm", !.rec = r])
                \/ Reads(r, "not_ours") /\ EndsIn(c, "not_ours")
                \/ Reads(r, "indeterminate") /\ EndsIn(c, "indeterminate")
             /\ UNCHANGED proc
    /\ UNCHANGED <<started, pidfile, open, leaked>>

Sigterm(c) ==
    /\ At(c, "sigterm")
    /\ proc' = Signalled(cmd[c].rec.pid, cmd[c].slot)
    /\ Goes(c, "grace")
    /\ UNCHANGED <<started, pidfile, open, leaked, faults>>

\* terminate found the process dead while it waited
SeenDead(c) ==
    /\ cmd[c].pc \in {"grace", "reaping"}
    /\ Gone(c, cmd[c].rec.pid)
    /\ proc' = Reaped(c, cmd[c].rec.pid)
    /\ EndsIn(c, IF At(c, "grace") THEN "terminated" ELSE "killed")
    /\ UNCHANGED <<started, pidfile, open, leaked, faults>>

\* Mutant: the escalation trusts the identity read before the grace.
Bug_GraceExpires(c) ==
    /\ At(c, "grace")
    /\ ~Gone(c, cmd[c].rec.pid)
    /\ Goes(c, "sigkill")
    /\ UNCHANGED <<proc, started, pidfile, open, leaked, faults>>

\* Ten seconds passed: the identity is verified again before the escalation.
GraceExpires(c) ==
    /\ At(c, "grace")
    /\ ~Gone(c, cmd[c].rec.pid)
    /\ \/ Reads(cmd[c].rec, "ours") /\ Goes(c, "sigkill")
       \/ Reads(cmd[c].rec, "not_ours") /\ EndsIn(c, "terminated")
       \/ Reads(cmd[c].rec, "indeterminate") /\ EndsIn(c, "indeterminate")
    /\ UNCHANGED <<proc, started, pidfile, open, leaked>>

Sigkill(c) ==
    /\ At(c, "sigkill")
    /\ proc' = Signalled(cmd[c].rec.pid, cmd[c].slot)
    /\ Goes(c, "reaping")
    /\ UNCHANGED <<started, pidfile, open, leaked, faults>>

\* Mutant: a SIGKILL counts as a death once the window closed.
Bug_ReapExpires(c) ==
    /\ At(c, "reaping")
    /\ ~Gone(c, cmd[c].rec.pid)
    /\ EndsIn(c, "killed")
    /\ UNCHANGED <<proc, started, pidfile, open, leaked, faults>>

ReapExpires(c) ==
    /\ At(c, "reaping")
    /\ ~Gone(c, cmd[c].rec.pid)
    /\ EndsIn(c, "kill_unconfirmed")
    /\ UNCHANGED <<proc, started, pidfile, open, leaked, faults>>

\* terminate_slot's cleanup_stale, then _terminate_left_slot_running: a spawn verb
\* goes on only if nothing was left behind
Cleanup(c) ==
    /\ At(c, "cleanup")
    /\ \E v \in Verdicts :
         /\ IF cmd[c].result = "indeterminate"
            THEN v = "indeterminate" /\ UNCHANGED faults
            ELSE SlotReads(cmd[c].slot, v)
         /\ pidfile' = IF v = "not_ours" THEN [pidfile EXCEPT ![cmd[c].slot] = Nothing]
                       ELSE pidfile
         /\ LET left == cmd[c].result \in StillThere \/ v = "ours"
            IN IF cmd[c].op \in {"start", "restart"} /\ ~left
               THEN Becomes(c, [cmd[c] EXCEPT !.pc = "spawn", !.rec = Nothing,
                                              !.result = "none"])
               ELSE Becomes(c, Finished(c, cmd[c].wedged \/ cmd[c].result \in StillThere))
    /\ UNCHANGED <<proc, started, open, leaked>>

\* The kernel may hand the pid out: it is free, and no command stands between the
\* identity read and the signal it licensed.
Recyclable(pid) ==
    /\ proc[pid] = Nothing
    /\ \/ FastRecycle
       \/ \A c \in Commands :
            cmd[c].pc \in {"sigterm", "sigkill"} => cmd[c].rec.pid # pid

\* spawn_detached: Popen
Spawn(c) ==
    /\ At(c, "spawn")
    /\ started < MaxStarts
    /\ \E pid \in Pids :
         /\ Recyclable(pid)
         /\ proc' = [proc EXCEPT ![pid] =
                        [owner |-> cmd[c].slot, token |-> started + 1, parent |-> c,
                         runs |-> TRUE, hit |-> {}]]
         /\ Becomes(c, [cmd[c] EXCEPT !.pc = "spawned",
                                      !.rec = [pid |-> pid, token |-> started + 1]])
    /\ started' = started + 1
    /\ UNCHANGED <<pidfile, open, leaked, faults>>

\* No launcher, or a log path that is a symlink: refused before any child exists
SpawnRefused(c) ==
    /\ At(c, "spawn")
    /\ EndsSlot(c)
    /\ UNCHANGED <<proc, started, pidfile, open, leaked, faults>>

\* spawn_detached: the pidfile is renamed into place
Track(c) ==
    /\ At(c, "spawned")
    /\ pidfile' = [pidfile EXCEPT ![cmd[c].slot] = cmd[c].rec]
    /\ Goes(c, "confirm")
    /\ UNCHANGED <<proc, started, open, leaked, faults>>

\* _kill_child_to_avoid_orphan: no start token, or the pidfile cannot be written
AbortSpawn(c) ==
    /\ At(c, "spawned")
    /\ proc' = [proc EXCEPT ![cmd[c].rec.pid] = Nothing]
    /\ EndsSlot(c)
    /\ UNCHANGED <<started, pidfile, open, leaked, faults>>

\* launch_slot's poll reads the slot as provably dead, after reaping its child.
ReadsDead(c, s) ==
    pidfile[s] # Nothing => Gone(c, pidfile[s].pid) \/ ~IsOurs(pidfile[s])

BootCrash(c) ==
    /\ At(c, "confirm")
    /\ ReadsDead(c, cmd[c].slot)
    /\ proc' = Reaped(c, cmd[c].rec.pid)
    /\ pidfile' = [pidfile EXCEPT ![cmd[c].slot] = Nothing]
    /\ EndsSlot(c)
    /\ UNCHANGED <<started, open, leaked, faults>>

\* The window closes on a slot that is live, or cannot be read.
Confirmed(c) ==
    /\ At(c, "confirm")
    /\ ~ReadsDead(c, cmd[c].slot)
    /\ EndsSlot(c)
    /\ UNCHANGED <<proc, started, pidfile, open, leaked, faults>>

-----------------------------------------------------------------------------
(* disco stop and disco start.                                              *)

\* lifecycle.stop: the exclusive lock, then every pidfile there is
CloseBegins(c) ==
    /\ At(c, "idle")
    /\ LifecycleFree
    /\ RosterFree
    /\ LET todo == {s \in Slots : pidfile[s] # Nothing}
       IN Becomes(c, Invoked("close", IF todo = {} THEN "down" ELSE "next", todo))
    /\ UNCHANGED <<proc, started, pidfile, open, leaked, faults>>

\* The roster is swept: `down`, probed again before "workspace closed" is printed.
CloseEnds(c) ==
    /\ At(c, "down")
    /\ open' \in {FALSE, open}
    /\ Goes(c, "ending")
    /\ UNCHANGED <<proc, started, pidfile, leaked, faults>>

\* lifecycle.start: the exclusive lock; an open workspace has its bridge restarted,
\* a closed one its substrate launched.
OpenBegins(c) ==
    /\ At(c, "idle")
    /\ LifecycleFree
    /\ RosterFree
    /\ Becomes(c, Invoked("open", "opening", {}))
    /\ UNCHANGED <<proc, started, pidfile, open, leaked, faults>>

SubstrateUp(c) ==
    /\ At(c, "opening")
    /\ ~open
    /\ open' = TRUE
    /\ Goes(c, "priming")
    /\ UNCHANGED <<proc, started, pidfile, leaked, faults>>

\* Ready, or not ready and torn down again, or torn down in vain
OpenEnds(c) ==
    /\ cmd[c].pc \in {"opening", "priming"}
    /\ \/ UNCHANGED open
       \/ At(c, "priming") /\ open' = FALSE
    /\ Goes(c, "ending")
    /\ UNCHANGED <<proc, started, pidfile, leaked, faults>>

-----------------------------------------------------------------------------
(* Commands end, processes die, pids are reused.                            *)

Exit(c) ==
    /\ At(c, "ending")
    /\ proc' = Orphaned(c)
    /\ Becomes(c, Idle)
    /\ UNCHANGED <<started, pidfile, open, leaked, faults>>

\* The command is killed, or interrupted, wherever it is.
Killed(c) ==
    /\ cmd[c].pc \notin {"idle", "ending"}
    /\ faults < MaxFaults
    /\ faults' = faults + 1
    /\ proc' = Orphaned(c)
    /\ leaked' = IF At(c, "spawned") THEN leaked \cup {cmd[c].rec.token} ELSE leaked
    /\ Becomes(c, Idle)
    /\ UNCHANGED <<started, pidfile, open>>

Dies(pid) ==
    /\ Answers(pid)
    /\ proc[pid].runs
    /\ proc' = IF proc[pid].parent = Nothing THEN [proc EXCEPT ![pid] = Nothing]
               ELSE [proc EXCEPT ![pid].runs = FALSE]
    /\ UNCHANGED <<started, pidfile, cmd, open, leaked, faults>>

StrangerStarts(pid) ==
    /\ Recyclable(pid)
    /\ started < MaxStarts
    /\ started' = started + 1
    /\ proc' = [proc EXCEPT ![pid] =
                    [owner |-> Nothing, token |-> started + 1, parent |-> Nothing,
                     runs |-> TRUE, hit |-> {}]]
    /\ UNCHANGED <<pidfile, cmd, open, leaked, faults>>

-----------------------------------------------------------------------------
Init ==
    /\ proc = [pid \in Pids |-> Nothing]
    /\ started = 0
    /\ pidfile = [s \in Slots |-> Nothing]
    /\ cmd = [c \in Commands |-> Idle]
    /\ open \in BOOLEAN
    /\ leaked = {}
    /\ faults = 0

\* Inside or on the way into a slot's critical section
SlotStep(c) ==
    \/ PickSlot(c) \/ Decline(c) \/ EnterSlot(c) \/ CheckAlive(c)
    \/ Terminate(c) \/ Sigterm(c) \/ SeenDead(c) \/ GraceExpires(c)
    \/ Sigkill(c) \/ ReapExpires(c) \/ Cleanup(c)
    \/ Spawn(c) \/ SpawnRefused(c) \/ Track(c) \/ AbortSpawn(c)
    \/ BootCrash(c) \/ Confirmed(c)

LifecycleStep(c) ==
    \/ CloseBegins(c) \/ CloseEnds(c)
    \/ OpenBegins(c) \/ SubstrateUp(c) \/ OpenEnds(c)

CommandStep(c) == Invoke(c) \/ SlotStep(c) \/ LifecycleStep(c) \/ Exit(c) \/ Killed(c)

KernelStep(pid) == Dies(pid) \/ StrangerStarts(pid)

Next == (\E c \in Commands : CommandStep(c)) \/ (\E pid \in Pids : KernelStep(pid))

Spec == Init /\ [][Next]_vars

-----------------------------------------------------------------------------
(* Properties.                                                              *)

\* Type correctness of the whole model.
TypeOK ==
    /\ proc \in [Pids -> Process \cup {Nothing}]
    /\ started \in 0 .. MaxStarts
    /\ pidfile \in [Slots -> Record \cup {Nothing}]
    /\ cmd \in [Commands -> Command]
    /\ open \in BOOLEAN
    /\ leaked \subseteq Tokens
    /\ faults \in 0 .. MaxFaults

\* The processes of slot s that run, but for those whose spawner was killed
\* between the fork and the pidfile
Running(s) ==
    {pid \in Pids : /\ Answers(pid)
                    /\ proc[pid].owner = s
                    /\ proc[pid].runs
                    /\ proc[pid].token \notin leaked}

\* A roster process that runs is always findable: its slot's pidfile names it, or
\* its spawner is about to write that pidfile.  No stop, sweep, failed start,
\* misread identity or recycled pid ever unlinks or overwrites the record of a
\* process that is still there (cleanup_stale, launch_slot, the refusals of
\* start_slot and restart_slot).
Tracked ==
    \A s \in Slots : \A pid \in Running(s) :
        \/ Names(s, pid)
        \/ \E c \in Commands : /\ At(c, "spawned")
                               /\ cmd[c].slot = s
                               /\ cmd[c].rec = [pid |-> pid, token |-> proc[pid].token]

\* No slot runs twice on this host, whatever starts, restarts and sweeps overlap
\* (slot_mutation, the tri-state check of start_slot, report_wedged_survivor).
NoDoubleRun == \A s \in Slots : Cardinality(Running(s)) <= 1

\* Nothing but a slot's own process is ever signalled on its behalf, though pids
\* are reused while stale pidfiles lie about and during the ten-second grace
\* (identity, the second verification in terminate).
OnlyOwnSignalled ==
    \A pid \in Pids : Answers(pid) => proc[pid].hit \subseteq {proc[pid].owner}

\* While a start confirms its child the pidfile is the one it wrote: no stop or
\* sweep removes or replaces it mid-confirm (slot_mutation around launch_slot).
ConfirmsOwnChild ==
    \A c \in Commands : At(c, "confirm") => pidfile[cmd[c].slot] = cmd[c].rec

\* An outcome other than "still running" and "could not be verified" is true: when
\* terminate_slot has come to it, nothing of the slot runs any more, up to the
\* moment the verb spawns a replacement (TerminateResult, stop_slot's messages).
OutcomeHonest ==
    \A c \in Commands :
        \/ At(c, "spawn")
        \/ At(c, "cleanup") /\ cmd[c].result \notin StillThere
        => Running(cmd[c].slot) = {}

\* When disco stop brings the substrate down having met no survivor, no roster
\* process runs in any slot: none was spawned behind its back while it swept, none
\* hid behind a pidfile it could not use (_sweep_roster_pidfiles).
SweptClean ==
    \A c \in Commands :
        At(c, "down") /\ ~cmd[c].wedged => \A s \in Slots : Running(s) = {}

=============================================================================
