------------------------------ MODULE Onboarding ------------------------------
(***************************************************************************)
(* The end of disco init and of disco agent create: the new agent is         *)
(* brought online, in a workspace that is opened for it when it is closed    *)
(* (cli/init.py, cli/agent_create.py, cli/_supervisor.py).                  *)
(*                                                                         *)
(* It composes Lifecycle, whose start it runs and whose stop sweeps what it  *)
(* spawns, with the processes of the roster, which live beside the           *)
(* supervisor and outlive it.                                               *)
(***************************************************************************)
EXTENDS Lifecycle

CONSTANT Wizards               \* the commands that end a wizard: a bound

ASSUME OnboardingAssumption == Wizards \subseteq Commands

VARIABLES
  wizard,     \* how far each terminal is with its wizard
  slots,      \* the tools host and the agent: is there a process with a pidfile?
  listed,     \* the mesh lists the agent
  spared,     \* what the last sweep could not stop, and reported
  leaked      \* a process of the slot never got its pidfile: history

org == <<slots, listed, spared, leaked>>
allVars == <<vars, wizard, org>>

Slots == {"tools", "agent"}
Places == {"none", "askUp", "askDown", "opening", "awaiting", "hosting", "hostSpawn", "hostForked",
           "gate", "spawn", "forked", "watching"}

OnboardTypeOK ==
  /\ wizard \in [Wizards -> Places]
  /\ slots \in [Slots -> BOOLEAN]
  /\ listed \in BOOLEAN
  /\ spared \subseteq Slots
  /\ leaked \subseteq Slots

OnboardInit ==
  /\ Init
  /\ wizard = [c \in Wizards |-> "none"]
  /\ slots = [s \in Slots |-> FALSE]
  /\ listed = FALSE
  /\ spared = {}
  /\ leaked = {}

(* Between the fork and the pidfile: the wizard holds slot_mutation's locks. *)
Forked(s) == {c \in Wizards : wizard[c] = IF s = "tools" THEN "hostForked" ELSE "forked"}

(***************************************************************************)
(* Lifecycle's steps, and what they do to the roster                        *)
(***************************************************************************)

Begins == \E c \in Commands : pc[c] = "idle" /\ pc'[c] # "idle"

(* A terminal runs one command at a time; the start of a wizard is its own. *)
InTurn ==
  \A c \in Commands :
    pc[c] = "idle" /\ pc'[c] # "idle" =>
      IF c \in Wizards /\ wizard[c] = "opening"
      THEN verb'[c] = "start" /\ wizard' = [wizard EXCEPT ![c] = "awaiting"]
      ELSE (c \in Wizards => wizard[c] = "none") /\ UNCHANGED wizard

(* open_workspace, _bring_online: no tools host for a workspace that did not open. *)
Opened ==
  wizard' = [c \in Wizards |-> IF wizard[c] = "awaiting" /\ pc'[c] = "idle"
                              THEN IF reply' = "open" THEN "hosting" ELSE "none"
                              ELSE wizard[c]]

(* _sweep_roster_pidfiles: what can be stopped is, the rest is reported. *)
Swept ==
  /\ spared' \in SUBSET {s \in Slots : slots[s]}
  /\ slots' = [s \in Slots |-> s \in spared']

Sweeps(c) == pc[c] \in {"sweeping", "downing"} /\ pc'[c] # pc[c]

(* stop has swept when it goes on; where it fails or is killed, it may have.  What was reported *)
(* is the report of one command. *)
Roster ==
  IF \E c \in Commands : Sweeps(c)
  THEN /\ \/ Swept
          \/ /\ \A c \in Commands : Sweeps(c) => pc'[c] = "idle" /\ reply' # "closed"
             /\ UNCHANGED <<slots, spared>>
       /\ UNCHANGED <<listed, leaked>>
  ELSE /\ spared' = IF Begins THEN {} ELSE spared
       /\ UNCHANGED <<slots, listed, leaked>>

(* lifecycle_lock is exclusive: it is refused beside a wizard that holds it shared. *)
NoneForked == \A s \in Slots : Forked(s) = {}

LifecycleStep ==
  /\ Next
  /\ Roster
  /\ IF Begins THEN NoneForked /\ InTurn ELSE Opened

(***************************************************************************)
(* The wizards                                                              *)
(***************************************************************************)

Moves(c, from, to) ==
  /\ wizard[c] = from
  /\ wizard' = [wizard EXCEPT ![c] = to]

Quiet(c) == pc[c] = "idle"

(* _finish_create: whether the workspace is open is found out before the operator is asked. *)
CreateAsks(c) ==
  /\ Quiet(c)
  /\ \E up \in Verdicts : Moves(c, "none", IF up THEN "askUp" ELSE "askDown")
  /\ UNCHANGED <<vars, org>>

(* However long that takes, _start_now goes by what was found; or the operator declines. *)
CreateGoesOn(c) ==
  /\ \/ Moves(c, "askUp", "gate")
     \/ Moves(c, "askDown", "opening")
     \/ Moves(c, "askUp", "none")
     \/ Moves(c, "askDown", "none")
  /\ UNCHANGED <<vars, org>>

(* init does not ask. *)
InitFinishes(c) ==
  /\ Quiet(c)
  /\ Moves(c, "none", "opening")
  /\ UNCHANGED <<vars, org>>

(* lifecycle_lock is taken: the start is refused, and the wizard over. *)
OpenRefused(c) ==
  /\ ~LockFree \/ ~NoneForked
  /\ Moves(c, "opening", "none")
  /\ UNCHANGED <<vars, org>>

(* component_start: the workspace must answer, and the broker.  The host is advisory. *)
HostGate(c) ==
  /\ \/ Answers /\ Moves(c, "hosting", "hostSpawn")
     \/ Moves(c, "hosting", "gate")
  /\ UNCHANGED <<vars, org>>

(* Mutant: slots are changed without the lifecycle lock. *)
Bug_MutationFree == TRUE

(* slot_mutation: the lifecycle lock, shared. *)
MutationFree == lock = Nobody

(* start_slot up to the fork, under slot_mutation: what runs in the slot is stopped first. *)
Forks(s) ==
  /\ MutationFree
  /\ Forked(s) = {}
  /\ slots' = [slots EXCEPT ![s] = FALSE]
  /\ spared' = spared \ {s}
  /\ UNCHANGED leaked

(* spawn_detached from the fork on, and launch_slot: the pidfile is written, and the new process  *)
(* lives, or is gone before the confirmation is; what cannot be identified or recorded is killed. *)
Launches(s, lives) ==
  /\ slots' = [slots EXCEPT ![s] = lives]
  /\ UNCHANGED <<spared, leaked>>

HostForks(c) ==
  /\ \/ Moves(c, "hostSpawn", "hostForked") /\ Forks("tools")
     \/ Moves(c, "hostSpawn", "gate") /\ UNCHANGED <<slots, spared, leaked>>
  /\ UNCHANGED <<vars, listed>>

HostSpawn(c) ==
  /\ Moves(c, "hostForked", "gate")
  /\ \E lives \in BOOLEAN : Launches("tools", lives)
  /\ UNCHANGED <<vars, listed>>

(* agent_start: the workspace and the broker again, whatever has been found before; and an agent *)
(* that is listed, but has no process here, is taken for one that runs on another host.          *)
AgentGate(c) ==
  /\ \/ Answers /\ (slots["agent"] \/ ~listed) /\ Moves(c, "gate", "spawn")
     \/ Answers /\ ~slots["agent"] /\ listed /\ Moves(c, "gate", "watching")
     \/ Moves(c, "gate", "none")
  /\ UNCHANGED <<vars, org>>

(* A refusal ends the wizard, but for a slot in any other command's hands: that is "started". *)
AgentForks(c) ==
  /\ \/ Moves(c, "spawn", "forked") /\ Forks("agent")
     \/ \E to \in {"none", "watching"} :
          Moves(c, "spawn", to) /\ UNCHANGED <<slots, spared, leaked>>
  /\ listed' \in {listed, listed /\ ~slots["agent"]}
  /\ UNCHANGED vars

AgentSpawn(c) ==
  /\ \E lives \in BOOLEAN :
       Moves(c, "forked", IF lives THEN "watching" ELSE "none") /\ Launches("agent", lives)
  /\ UNCHANGED <<vars, listed>>

(* _wait_for_agent_online: the agent is seen on the mesh. *)
Seen(c) ==
  /\ listed
  /\ Moves(c, "watching", "none")
  /\ UNCHANGED <<vars, org>>

(* It is not within a minute, or the watch raises: that is said, and is no failure. *)
Unseen(c) ==
  /\ Moves(c, "watching", "none")
  /\ UNCHANGED <<vars, org>>

(* The terminal is closed on a wizard that runs no start.  What it has forked runs on. *)
Quits(c) ==
  /\ Quiet(c)
  /\ wizard[c] # "none"
  /\ wizard' = [wizard EXCEPT ![c] = "none"]
  /\ leaked' = leaked \union {s \in Slots : c \in Forked(s)}
  /\ UNCHANGED <<vars, slots, listed, spared>>

(***************************************************************************)
(* The processes of the roster                                              *)
(***************************************************************************)

(* A process registers when it is up, which its pidfile need not be waiting for. *)
Registers ==
  /\ slots["agent"] \/ "agent" \in leaked
  /\ ~listed
  /\ listed' = TRUE
  /\ UNCHANGED <<vars, wizard, slots, spared, leaked>>

Dies(s) ==
  /\ slots[s]
  /\ slots' = [slots EXCEPT ![s] = FALSE]
  /\ spared' = spared \ {s}
  /\ UNCHANGED <<vars, wizard, listed, leaked>>

(* The mesh learns that the agent has left, or its record grows stale. *)
Forgotten ==
  /\ ~slots["agent"] /\ listed
  /\ listed' = FALSE
  /\ UNCHANGED <<vars, wizard, slots, spared, leaked>>

OnboardNext ==
  \/ LifecycleStep
  \/ \E c \in Wizards :
       \/ CreateAsks(c) \/ CreateGoesOn(c) \/ InitFinishes(c) \/ OpenRefused(c)
       \/ HostGate(c) \/ HostForks(c) \/ HostSpawn(c)
       \/ AgentGate(c) \/ AgentForks(c) \/ AgentSpawn(c)
       \/ Seen(c) \/ Unseen(c) \/ Quits(c)
  \/ Registers \/ Forgotten
  \/ \E s \in Slots : Dies(s)

OnboardSpec == OnboardInit /\ [][OnboardNext]_allVars

(***************************************************************************)
(* Properties                                                               *)
(***************************************************************************)

(* When stop says "closed", this install's supervisor is gone, unless a start had left it          *)
(* booting (abandoned) or a probe of it failed (unheard); and no process of the roster is left      *)
(* but those that stop has reported, and those whose wizard was killed before it wrote their        *)
(* pidfile (leaked), although wizards go on starting the tools host and agents meanwhile: the       *)
(* sweep comes before anything else, and slot_mutation shares the lock that stop holds              *)
(* (_workspace.py:442, lifecycle.py:866).                                                           *)
OrgClosed ==
  [][\A c \in Commands :
       Reports(c, "closed") =>
         /\ ours = "down" \/ abandoned \/ unheard'
         /\ \A s \in Slots : slots'[s] \/ Forked(s)' # {} => s \in spared']_allVars
===============================================================================
