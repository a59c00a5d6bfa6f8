-------------------------- MODULE RosterSlotsProofs --------------------------
(***************************************************************************)
(* What the roster promises, for any number of slots, commands, pids and   *)
(* faults.  First the types of RosterSlots, the shape of a command at each *)
(* of its places, and the mutual exclusion of its locks.  The inductive    *)
(* invariant Roster joins to them where start tokens can be found          *)
(* (TokensFresh), the record a command works from against the pidfile      *)
(* (Records), that nothing present in the process table is untracked       *)
(* (AllTracked), and where a command knows its slot to be clear (Cleared). *)
(* A zombie still answers, so these speak of what is present and not of    *)
(* what runs.  Sweep extends Roster for disco stop, HitsOwn and Aimed for  *)
(* the signals.                                                            *)
(***************************************************************************)
EXTENDS RosterSlots, FiniteSetTheorems, TLAPS

\* Places at which a command has the record of a process in hand
Holding == {"sigterm", "grace", "sigkill", "reaping", "spawned", "confirm"}

CommandShape(m) ==
    /\ m.pc \in Critical \cup {"gated"} => m.slot \in Slots
    /\ m.pc \in Holding => m.rec \in Record
    /\ m.pc \in Launching \cup {"gated"} => m.op \in SlotOps
    /\ m.pc \in {"opening", "priming"} <=> (m.op = "open" /\ m.pc # "ending")
    /\ m.pc = "down" => m.op = "close" /\ m.todo = {} /\ m.slot = Nothing
    /\ m.pc = "next" => m.slot = Nothing /\ m.op \in SlotOps \cup {"close"}

Shape == TypeOK /\ \A c \in Commands : CommandShape(cmd[c])

\* slot_mutation and lifecycle_lock exclude what they should.
Locks ==
    \A c, d \in Commands :
        c # d =>
            /\ ~(InSlot(c) /\ InSlot(d) /\ cmd[c].slot = cmd[d].slot)
            /\ ~(InLifecycle(c) /\ (InSlot(d) \/ InLifecycle(d)))

-----------------------------------------------------------------------------
(* Types and shapes.                                                        *)

\* The assumptions and the members of the finite enumerations, used throughout.
LEMMA Distinct ==
    /\ Nothing \notin Slots
    /\ Nothing \notin Commands
    /\ Nothing \notin Record
    /\ \A r \in Record : r.pid \in Pids /\ r.token \in Tokens
    /\ MaxStarts \in Nat /\ MaxFaults \in Nat
BY RosterSlotsAssumption DEF Record, Tokens

\* A step that gives command c the value m keeps every command in shape if m is.
LEMMA OneCommand ==
    ASSUME Shape, NEW c \in Commands, NEW m \in Command, CommandShape(m), Becomes(c, m)
    PROVE  /\ cmd' \in [Commands -> Command]
           /\ \A d \in Commands : CommandShape(cmd'[d])
           /\ cmd'[c] = m
           /\ \A d \in Commands \ {c} : cmd'[d] = cmd[d]
BY DEF Shape, TypeOK, Becomes

\* What Finished leaves of a command that was visiting a slot.
LEMMA FinishedShape ==
    ASSUME Shape, NEW c \in Commands, NEW w \in BOOLEAN, cmd[c].op \in SlotOps \cup {"close"}
    PROVE  /\ Finished(c, w) \in Command
           /\ CommandShape(Finished(c, w))
           /\ Finished(c, w).op = cmd[c].op
           /\ Finished(c, w).pc \in {"next", "down", "ending"}
           /\ Finished(c, w).pc = "down" => cmd[c].op = "close"
           /\ Finished(c, w).pc = "ending" => cmd[c].op # "close"
           /\ Finished(c, w).todo = cmd[c].todo
           /\ Finished(c, w).slot = Nothing
           /\ Finished(c, w).wedged = w
<1>1. cmd[c] \in Command
  BY DEF Shape, TypeOK
<1>3. /\ Finished(c, w).pc \in {"next", "down", "ending"}
      /\ Finished(c, w).pc = "down" => cmd[c].op = "close" /\ cmd[c].todo = {}
      /\ Finished(c, w).pc = "ending" => cmd[c].op # "close"
  BY <1>1 DEF Finished, Command
<1>4. /\ Finished(c, w).op = cmd[c].op
      /\ Finished(c, w).todo = cmd[c].todo
      /\ Finished(c, w).slot = Nothing
      /\ Finished(c, w).rec = Nothing
      /\ Finished(c, w).wedged = w
  BY DEF Finished
<1>5. Finished(c, w) \in Command
  BY <1>1, <1>3 DEF Finished, Command, Pcs, Results
<1>6. CommandShape(Finished(c, w))
  BY <1>3, <1>4 DEF CommandShape, Critical, Terminating, Launching, Holding, SlotOps
<1> QED
  BY <1>3, <1>4, <1>5, <1>6

\* What the three operations on the process table leave, entry by entry.
LEMMA ReapedEffect ==
    ASSUME Shape, NEW c \in Commands, NEW pid \in Pids
    PROVE  /\ Reaped(c, pid) \in [Pids -> Process \cup {Nothing}]
           /\ \A q \in Pids : Reaped(c, pid)[q] \in {proc[q], Nothing}
           /\ Gone(c, pid) => Reaped(c, pid)[pid] = Nothing
BY DEF Reaped, Gone, Answers, Shape, TypeOK

LEMMA SignalledEffect ==
    ASSUME Shape, NEW s \in Slots, NEW pid \in Pids
    PROVE  /\ Signalled(pid, s) \in [Pids -> Process \cup {Nothing}]
           /\ \A q \in Pids : q # pid \/ ~Answers(pid) => Signalled(pid, s)[q] = proc[q]
           /\ Answers(pid) => Signalled(pid, s)[pid] = [proc[pid] EXCEPT !.hit = @ \cup {s}]
BY DEF Signalled, Answers, Shape, TypeOK, Process

LEMMA OrphanedEffect ==
    ASSUME Shape, NEW c \in Commands
    PROVE  /\ Orphaned(c) \in [Pids -> Process \cup {Nothing}]
           /\ \A q \in Pids : Orphaned(c)[q] # Nothing =>
                /\ Answers(q)
                /\ Orphaned(c)[q].owner = proc[q].owner
                /\ Orphaned(c)[q].token = proc[q].token
                /\ Orphaned(c)[q].hit = proc[q].hit
<1>1. \A q \in Pids : Answers(q) => proc[q] \in Process
  BY DEF Answers, Shape, TypeOK
<1>2. ASSUME NEW q \in Pids
      PROVE  /\ Orphaned(c)[q] \in Process \cup {Nothing}
             /\ Orphaned(c)[q] # Nothing =>
                  /\ Answers(q)
                  /\ Orphaned(c)[q].owner = proc[q].owner
                  /\ Orphaned(c)[q].token = proc[q].token
                  /\ Orphaned(c)[q].hit = proc[q].hit
  <2>1. CASE Answers(q) /\ proc[q].parent = c /\ proc[q].runs
    <3>1. Orphaned(c)[q] = [proc[q] EXCEPT !.parent = Nothing]
      BY <2>1 DEF Orphaned
    <3> QED
      BY <1>1, <2>1, <3>1 DEF Process
  <2>2. CASE ~(Answers(q) /\ proc[q].parent = c /\ proc[q].runs)
    <3>1. Orphaned(c)[q] \in {proc[q], Nothing}
      BY <2>2 DEF Orphaned
    <3> QED
      BY <1>1, <2>2, <3>1 DEF Answers, Shape, TypeOK
  <2> QED
    BY <2>1, <2>2
<1>3. Orphaned(c) = [q \in Pids |-> Orphaned(c)[q]]
  BY DEF Orphaned
<1> QED
  BY <1>2, <1>3

\* The record a command works from, and the one a slot's pidfile holds
LEMMA RecordsTyped ==
    ASSUME Shape
    PROVE  /\ \A c \in Commands : cmd[c] \in Command /\ CommandShape(cmd[c])
           /\ \A s \in Slots : pidfile[s] # Nothing => pidfile[s] \in Record
           /\ \A c \in Commands : cmd[c].pc \in Holding =>
                /\ cmd[c].rec \in Record
                /\ cmd[c].rec.pid \in Pids
                /\ cmd[c].slot \in Slots
BY DEF Shape, TypeOK, CommandShape, Record, Holding, Critical, Terminating, Launching

\* Command c alone moves, and stays in shape.
Moved(c) ==
    /\ cmd' \in [Commands -> Command]
    /\ \A d \in Commands : CommandShape(cmd'[d])
    /\ \A d \in Commands \ {c} : cmd'[d] = cmd[d]

LEMMA MovedTo ==
    ASSUME Shape, NEW c \in Commands, NEW m \in Command, CommandShape(m), Becomes(c, m)
    PROVE  Moved(c) /\ cmd'[c] = m
BY OneCommand DEF Moved

LEMMA EndsSlotMoves ==
    ASSUME Shape, NEW c \in Commands, EndsSlot(c), cmd[c].op \in SlotOps \cup {"close"}
    PROVE  /\ Moved(c)
           /\ cmd'[c] = Finished(c, cmd[c].wedged)
           /\ cmd'[c].op = cmd[c].op
           /\ cmd'[c].pc \in {"next", "down", "ending"}
           /\ cmd'[c].slot = Nothing
           /\ cmd'[c].todo = cmd[c].todo
           /\ cmd'[c].wedged = cmd[c].wedged
<1>1. cmd[c].wedged \in BOOLEAN
  BY RecordsTyped DEF Command
<1> QED
  BY <1>1, FinishedShape, MovedTo DEF EndsSlot

LEMMA GoesMoves ==
    ASSUME Shape, NEW c \in Commands, NEW pc \in Pcs, Goes(c, pc),
           CommandShape([cmd[c] EXCEPT !.pc = pc])
    PROVE  /\ Moved(c)
           /\ cmd'[c] = [cmd[c] EXCEPT !.pc = pc]
           /\ cmd'[c].pc = pc
           /\ cmd'[c].op = cmd[c].op
           /\ cmd'[c].slot = cmd[c].slot
           /\ cmd'[c].todo = cmd[c].todo
           /\ cmd'[c].rec = cmd[c].rec
           /\ cmd'[c].result = cmd[c].result
           /\ cmd'[c].wedged = cmd[c].wedged
<1>1. cmd[c] \in Command
  BY RecordsTyped
<1>2. [cmd[c] EXCEPT !.pc = pc] \in Command
  BY <1>1 DEF Command
<1>3. Moved(c) /\ cmd'[c] = [cmd[c] EXCEPT !.pc = pc]
  BY <1>2, MovedTo DEF Goes
<1> QED
  BY <1>1, <1>3 DEF Command

LEMMA EndsInMoves ==
    ASSUME Shape, NEW c \in Commands, NEW result \in Results, EndsIn(c, result),
           cmd[c].pc \in Terminating
    PROVE  /\ Moved(c)
           /\ cmd'[c] = [cmd[c] EXCEPT !.pc = "cleanup", !.result = result]
           /\ cmd'[c].pc = "cleanup"
           /\ cmd'[c].op = cmd[c].op
           /\ cmd'[c].slot = cmd[c].slot
           /\ cmd'[c].todo = cmd[c].todo
           /\ cmd'[c].result = result
           /\ cmd'[c].wedged = cmd[c].wedged
<1> DEFINE m == [cmd[c] EXCEPT !.pc = "cleanup", !.result = result]
<1>1. cmd[c] \in Command /\ CommandShape(cmd[c])
  BY RecordsTyped
<1>2. /\ m \in Command
      /\ m.pc = "cleanup" /\ m.op = cmd[c].op /\ m.slot = cmd[c].slot
      /\ m.todo = cmd[c].todo /\ m.result = result /\ m.wedged = cmd[c].wedged
  BY <1>1 DEF Command, Pcs, Critical, Terminating
<1>3. CommandShape(m)
  BY <1>1, <1>2 DEF CommandShape, Critical, Terminating, Launching, Holding, Command
<1> HIDE DEF m
<1>4. Moved(c) /\ cmd'[c] = m
  BY <1>2, <1>3, MovedTo DEF EndsIn, m
<1> QED
  BY <1>2, <1>4 DEF m

-----------------------------------------------------------------------------
(* Where each step takes its command.                                       *)

LEMMA InvokeMoves ==
    ASSUME Shape, NEW c \in Commands, Invoke(c)
    PROVE  Moved(c) /\ cmd'[c].pc = "next" /\ cmd'[c].op \in SlotOps
<1>1. PICK op \in SlotOps : \E todo \in Targets(op) \ {{}} :
          Becomes(c, Invoked(op, "next", todo))
  BY DEF Invoke
<1>2. PICK todo \in Targets(op) \ {{}} : Becomes(c, Invoked(op, "next", todo))
  BY <1>1
<1>3. todo \subseteq Slots
  BY DEF Targets
<1>4. Invoked(op, "next", todo) =
          [op |-> op, pc |-> "next", slot |-> Nothing, todo |-> todo,
           rec |-> Nothing, result |-> "none", wedged |-> FALSE]
  BY DEF Invoked
<1> DEFINE m == Invoked(op, "next", todo)
<1>5. m \in Command
  BY <1>3, Distinct DEF Invoked, Command, Pcs, Results, SlotOps
<1>6. m.op = op /\ m.pc = "next" /\ m.slot = Nothing
  BY <1>4
<1> HIDE DEF m
<1>7. CommandShape(m)
  BY <1>6 DEF CommandShape, Critical, Terminating, Launching, Holding, SlotOps
<1> QED
  BY <1>2, <1>5, <1>6, <1>7, MovedTo DEF m

LEMMA PickSlotMoves ==
    ASSUME Shape, NEW c \in Commands, PickSlot(c)
    PROVE  /\ Moved(c)
           /\ cmd'[c].op = cmd[c].op
           /\ cmd'[c].slot \in cmd[c].todo
           /\ cmd'[c].todo = cmd[c].todo \ {cmd'[c].slot}
           /\ cmd'[c].wedged = cmd[c].wedged
           /\ cmd[c].op = "close" => cmd'[c].pc = "terminate"
           /\ cmd[c].op # "close" => cmd'[c].pc \in {"gated", "ending"}
           /\ cmd'[c].result = cmd[c].result
<1> DEFINE m(s) == [cmd[c] EXCEPT !.slot = s, !.todo = @ \ {s},
                        !.pc = IF cmd[c].op = "close" THEN "terminate"
                               ELSE IF cmd[c].op = "start" /\ ~open THEN "ending"
                               ELSE "gated"]
<1>1. PICK s \in cmd[c].todo : Becomes(c, m(s))
  BY DEF PickSlot
<1>2. cmd[c] \in Command /\ CommandShape(cmd[c]) /\ cmd[c].pc = "next"
  BY RecordsTyped DEF PickSlot, At
<1>3. /\ m(s).op = cmd[c].op /\ m(s).slot = s /\ m(s).todo = cmd[c].todo \ {s}
      /\ m(s).wedged = cmd[c].wedged /\ m(s).result = cmd[c].result
      /\ cmd[c].op = "close" => m(s).pc = "terminate"
      /\ cmd[c].op # "close" => m(s).pc \in {"gated", "ending"}
      /\ m(s) \in Command
  BY <1>2 DEF Command, Pcs, Critical, Terminating
<1>4. cmd[c].op \in SlotOps \cup {"close"} /\ s \in Slots
  BY <1>2 DEF CommandShape, Command
<1>5. CommandShape(m(s))
  BY <1>3, <1>4 DEF CommandShape, Critical, Terminating, Launching, Holding, SlotOps
<1> HIDE DEF m
<1> QED
  BY <1>1, <1>3, <1>5, MovedTo

LEMMA DeclineMoves ==
    ASSUME Shape, NEW c \in Commands, Decline(c)
    PROVE  Moved(c) /\ cmd'[c].op = cmd[c].op /\ cmd'[c].pc \in {"next", "ending"}
<1>1. cmd[c].op \in SlotOps
  BY RecordsTyped DEF CommandShape, Decline, At
<1> QED
  BY <1>1, EndsSlotMoves, FinishedShape DEF Decline, SlotOps, Moved, CommandShape

LEMMA EnterSlotMoves ==
    ASSUME Shape, NEW c \in Commands, EnterSlot(c)
    PROVE  /\ Moved(c)
           /\ cmd'[c].op = cmd[c].op
           /\ \/ cmd'[c].pc \in {"next", "ending"}
              \/ /\ LifecycleFree
                 /\ SlotFree(cmd[c].slot)
                 /\ cmd'[c].slot = cmd[c].slot
                 /\ cmd'[c].pc \in {"check", "terminate"}
<1>1. /\ cmd[c].op \in SlotOps /\ cmd[c].slot \in Slots /\ cmd[c].pc = "gated"
      /\ cmd[c] \in Command
  BY RecordsTyped DEF CommandShape, EnterSlot, At
<1>2. \A pc \in {"check", "terminate", "ending"} :
         /\ pc \in Pcs
         /\ CommandShape([cmd[c] EXCEPT !.pc = pc])
  BY <1>1 DEF CommandShape, Critical, Terminating, Launching, Holding, SlotOps, Command, Pcs
<1>3. CASE EndsSlot(c)
  BY <1>1, <1>3, EndsSlotMoves, FinishedShape DEF SlotOps, Moved, CommandShape
<1>4. CASE Goes(c, "ending")
  BY <1>2, <1>4, GoesMoves
<1>5. CASE /\ LifecycleFree /\ SlotFree(cmd[c].slot)
           /\ Goes(c, IF cmd[c].op = "start" THEN "check" ELSE "terminate")
  <2>1. PICK pc \in {"check", "terminate"} : Goes(c, pc)
    BY <1>5
  <2> QED
    BY <1>2, <1>5, <2>1, GoesMoves
<1> QED
  BY <1>3, <1>4, <1>5 DEF EnterSlot

LEMMA CheckAliveMoves ==
    ASSUME Shape, NEW c \in Commands, CheckAlive(c)
    PROVE  /\ Moved(c)
           /\ cmd'[c].op = cmd[c].op
           /\ \/ cmd'[c].pc \in {"next", "ending"}
              \/ /\ cmd'[c].pc \in {"spawn", "terminate"}
                 /\ cmd'[c].slot = cmd[c].slot
                 /\ cmd'[c].pc = "spawn" => SlotReads(cmd[c].slot, "not_ours")
<1>1. /\ cmd[c].op \in SlotOps /\ cmd[c].slot \in Slots /\ cmd[c].pc = "check"
      /\ cmd[c] \in Command
  BY RecordsTyped DEF CommandShape, CheckAlive, At, Launching, Critical
<1>2. \A pc \in {"spawn", "terminate"} :
         /\ pc \in Pcs
         /\ CommandShape([cmd[c] EXCEPT !.pc = pc])
  BY <1>1 DEF CommandShape, Critical, Terminating, Launching, Holding, SlotOps, Command, Pcs
<1>3. CASE EndsSlot(c)
  BY <1>1, <1>3, EndsSlotMoves, FinishedShape DEF SlotOps, Moved, CommandShape
<1>4. CASE Goes(c, "terminate")
  BY <1>2, <1>4, GoesMoves
<1>5. CASE SlotReads(cmd[c].slot, "not_ours") /\ Goes(c, "spawn")
  BY <1>2, <1>5, GoesMoves
<1> QED
  BY <1>3, <1>4, <1>5 DEF CheckAlive

LEMMA TerminateMoves ==
    ASSUME Shape, NEW c \in Commands, Terminate(c)
    PROVE  /\ Moved(c)
           /\ cmd'[c].op = cmd[c].op /\ cmd'[c].slot = cmd[c].slot
           /\ cmd'[c].todo = cmd[c].todo /\ cmd'[c].wedged = cmd[c].wedged
           /\ \/ /\ cmd'[c].pc = "sigterm"
                 /\ pidfile[cmd[c].slot] # Nothing
                 /\ cmd'[c].rec = pidfile[cmd[c].slot]
                 /\ Reads(cmd'[c].rec, "ours")
                 /\ proc' = proc
              \/ /\ cmd'[c].pc = "cleanup"
                 /\ cmd'[c].result \in StillThere
                 /\ proc' = proc
              \/ /\ cmd'[c].pc = "cleanup"
                 /\ pidfile[cmd[c].slot] = Nothing
                 /\ proc' = proc
              \/ /\ cmd'[c].pc = "cleanup"
                 /\ pidfile[cmd[c].slot] # Nothing
                 /\ Gone(c, pidfile[cmd[c].slot].pid)
                 /\ proc' = Reaped(c, pidfile[cmd[c].slot].pid)
              \/ /\ cmd'[c].pc = "cleanup"
                 /\ pidfile[cmd[c].slot] # Nothing
                 /\ Reads(pidfile[cmd[c].slot], "not_ours")
                 /\ proc' = proc
<1>1. /\ cmd[c].slot \in Slots /\ cmd[c].pc = "terminate"
      /\ cmd[c] \in Command /\ CommandShape(cmd[c])
      /\ cmd[c].pc \in Terminating
  BY RecordsTyped DEF CommandShape, Terminate, At, Critical, Terminating
<1> DEFINE r == pidfile[cmd[c].slot]
<1>2. r # Nothing => r \in Record
  BY <1>1, RecordsTyped
<1>3. CASE r # Nothing /\ Reads(r, "ours") /\ proc' = proc
           /\ Becomes(c, [cmd[c] EXCEPT !.pc = "sigterm", !.rec = r])
  <2> DEFINE m == [cmd[c] EXCEPT !.pc = "sigterm", !.rec = r]
  <2>1. /\ m \in Command
        /\ m.op = cmd[c].op /\ m.slot = cmd[c].slot /\ m.rec = r
        /\ m.todo = cmd[c].todo /\ m.wedged = cmd[c].wedged /\ m.pc = "sigterm"
    BY <1>1, <1>2, <1>3 DEF Command, Pcs, Critical, Terminating
  <2>2. CommandShape(m)
    BY <1>1, <1>2, <1>3, <2>1
    DEF CommandShape, Critical, Terminating, Launching, Holding, SlotOps
  <2>3. Moved(c) /\ cmd'[c] = m
    <3> HIDE DEF m
    <3> QED
      BY <1>3, <2>1, <2>2, MovedTo DEF m
  <2> QED
    BY <1>3, <2>1, <2>3
<1>4. ASSUME NEW result \in Results, EndsIn(c, result)
      PROVE  /\ Moved(c)
             /\ cmd'[c].op = cmd[c].op /\ cmd'[c].slot = cmd[c].slot
             /\ cmd'[c].todo = cmd[c].todo /\ cmd'[c].wedged = cmd[c].wedged
             /\ cmd'[c].pc = "cleanup" /\ cmd'[c].result = result
  BY <1>1, <1>4, EndsInMoves
<1>5. \A result \in {"none", "already_dead", "not_ours", "indeterminate"} : result \in Results
  BY DEF Results
<1>6. CASE r = Nothing /\ EndsIn(c, "none") /\ proc' = proc
  BY <1>4, <1>5, <1>6
<1>7. CASE /\ r # Nothing /\ Gone(c, r.pid) /\ proc' = Reaped(c, r.pid)
           /\ EndsIn(c, "already_dead")
  BY <1>4, <1>5, <1>7
<1>8. CASE r # Nothing /\ Reads(r, "not_ours") /\ EndsIn(c, "not_ours") /\ proc' = proc
  BY <1>4, <1>5, <1>8
<1>9. CASE EndsIn(c, "indeterminate") /\ proc' = proc
  BY <1>4, <1>5, <1>9 DEF StillThere
<1> QED
  BY <1>3, <1>6, <1>7, <1>8, <1>9 DEF Terminate

\* The steps between the two signals and the outcome
LEMMA SignalMoves ==
    ASSUME Shape, NEW c \in Commands, Sigterm(c) \/ Sigkill(c)
    PROVE  /\ Moved(c)
           /\ cmd'[c].op = cmd[c].op /\ cmd'[c].slot = cmd[c].slot
           /\ cmd'[c].todo = cmd[c].todo /\ cmd'[c].wedged = cmd[c].wedged
           /\ cmd'[c].rec = cmd[c].rec
           /\ cmd[c].pc \in {"sigterm", "sigkill"}
           /\ cmd'[c].pc \in {"grace", "reaping"}
           /\ proc' = Signalled(cmd[c].rec.pid, cmd[c].slot)
<1>1. PICK pc \in {"grace", "reaping"} : Goes(c, pc)
  BY DEF Sigterm, Sigkill
<1>2. cmd[c].pc \in {"sigterm", "sigkill"} /\ cmd[c] \in Command /\ CommandShape(cmd[c])
  BY RecordsTyped DEF Sigterm, Sigkill, At
<1>3. pc \in Pcs /\ CommandShape([cmd[c] EXCEPT !.pc = pc])
  BY <1>2 DEF CommandShape, Critical, Terminating, Launching, Holding, Command, Pcs
<1> QED
  BY <1>1, <1>2, <1>3, GoesMoves DEF Sigterm, Sigkill

LEMMA SeenDeadMoves ==
    ASSUME Shape, NEW c \in Commands, SeenDead(c)
    PROVE  /\ Moved(c)
           /\ cmd'[c].op = cmd[c].op /\ cmd'[c].slot = cmd[c].slot
           /\ cmd'[c].todo = cmd[c].todo /\ cmd'[c].wedged = cmd[c].wedged
           /\ cmd'[c].pc = "cleanup"
<1>1. cmd[c].pc \in Terminating
  BY DEF SeenDead, Terminating
<1>2. PICK result \in {"terminated", "killed"} : EndsIn(c, result)
  BY DEF SeenDead
<1>3. result \in Results
  BY DEF Results
<1> QED
  BY <1>1, <1>2, <1>3, EndsInMoves

LEMMA GraceExpiresMoves ==
    ASSUME Shape, NEW c \in Commands, GraceExpires(c)
    PROVE  /\ Moved(c)
           /\ cmd'[c].op = cmd[c].op /\ cmd'[c].slot = cmd[c].slot
           /\ cmd'[c].todo = cmd[c].todo /\ cmd'[c].wedged = cmd[c].wedged
           /\ \/ /\ cmd'[c].pc = "sigkill"
                 /\ cmd'[c].rec = cmd[c].rec
                 /\ Reads(cmd[c].rec, "ours")
              \/ cmd'[c].pc = "cleanup" /\ Reads(cmd[c].rec, "not_ours")
              \/ cmd'[c].pc = "cleanup" /\ cmd'[c].result \in StillThere
<1>1. /\ cmd[c].pc = "grace" /\ cmd[c].pc \in Terminating
      /\ cmd[c] \in Command /\ CommandShape(cmd[c])
  BY RecordsTyped DEF GraceExpires, Terminating, At
<1>2. "sigkill" \in Pcs /\ CommandShape([cmd[c] EXCEPT !.pc = "sigkill"])
  BY <1>1 DEF CommandShape, Critical, Terminating, Launching, Holding, Command, Pcs
<1>3. CASE Reads(cmd[c].rec, "ours") /\ Goes(c, "sigkill")
  BY <1>2, <1>3, GoesMoves
<1>4. CASE Reads(cmd[c].rec, "not_ours") /\ EndsIn(c, "terminated")
  <2>1. "terminated" \in Results
    BY DEF Results
  <2> QED
    BY <1>1, <1>4, <2>1, EndsInMoves
<1>5. CASE EndsIn(c, "indeterminate")
  <2>1. "indeterminate" \in Results /\ "indeterminate" \in StillThere
    BY DEF Results, StillThere
  <2> QED
    BY <1>1, <1>5, <2>1, EndsInMoves
<1> QED
  BY <1>3, <1>4, <1>5 DEF GraceExpires

LEMMA ReapExpiresMoves ==
    ASSUME Shape, NEW c \in Commands, ReapExpires(c)
    PROVE  /\ Moved(c)
           /\ cmd'[c].op = cmd[c].op /\ cmd'[c].slot = cmd[c].slot
           /\ cmd'[c].todo = cmd[c].todo /\ cmd'[c].wedged = cmd[c].wedged
           /\ cmd'[c].pc = "cleanup" /\ cmd'[c].result \in StillThere
<1>1. cmd[c].pc \in Terminating
  BY DEF ReapExpires, At, Terminating
<1>2. "kill_unconfirmed" \in Results /\ "kill_unconfirmed" \in StillThere
  BY DEF Results, StillThere
<1> QED
  BY <1>1, <1>2, EndsInMoves DEF ReapExpires

LEMMA CleanupMoves ==
    ASSUME Shape, NEW c \in Commands, Cleanup(c)
    PROVE  /\ Moved(c)
           /\ cmd'[c].op = cmd[c].op
           /\ \/ /\ cmd'[c].pc = "spawn" /\ cmd'[c].slot = cmd[c].slot
                 /\ cmd[c].op \in SlotOps
                 /\ cmd[c].result \notin StillThere
              \/ /\ cmd'[c].pc \in {"next", "down", "ending"}
                 /\ cmd'[c].slot = Nothing
                 /\ cmd'[c].todo = cmd[c].todo
                 /\ cmd'[c].wedged = (cmd[c].wedged \/ cmd[c].result \in StillThere)
                 /\ cmd'[c].pc = "ending" => cmd[c].op # "close"
           /\ \/ pidfile' = pidfile
              \/ /\ SlotReads(cmd[c].slot, "not_ours")
                 /\ pidfile' = [pidfile EXCEPT ![cmd[c].slot] = Nothing]
<1>1. /\ cmd[c].pc = "cleanup" /\ cmd[c].slot \in Slots
      /\ cmd[c] \in Command /\ CommandShape(cmd[c])
      /\ cmd[c].op \in SlotOps \cup {"close"}
  BY RecordsTyped
  DEF Cleanup, At, CommandShape, Critical, Terminating, Command
<1>4. \/ pidfile' = pidfile
      \/ /\ SlotReads(cmd[c].slot, "not_ours")
         /\ pidfile' = [pidfile EXCEPT ![cmd[c].slot] = Nothing]
  BY DEF Cleanup, Verdicts
<1>2. CASE /\ cmd[c].op \in {"start", "restart"} /\ cmd[c].result \notin StillThere
           /\ Becomes(c, [cmd[c] EXCEPT !.pc = "spawn", !.rec = Nothing, !.result = "none"])
  <2> DEFINE m == [cmd[c] EXCEPT !.pc = "spawn", !.rec = Nothing, !.result = "none"]
  <2>1. /\ m \in Command
        /\ m.op = cmd[c].op /\ m.slot = cmd[c].slot /\ m.pc = "spawn"
    BY <1>1 DEF Command, Pcs, Critical, Launching, Results
  <2>2. CommandShape(m)
    BY <1>1, <1>2, <2>1
    DEF CommandShape, Critical, Terminating, Launching, Holding, SlotOps
  <2>3. Moved(c) /\ cmd'[c] = m
    <3> HIDE DEF m
    <3> QED
      BY <1>2, <2>1, <2>2, MovedTo DEF m
  <2> QED
    BY <1>2, <1>4, <2>1, <2>3 DEF SlotOps
<1>3. CASE Becomes(c, Finished(c, cmd[c].wedged \/ cmd[c].result \in StillThere))
  <2> DEFINE w == cmd[c].wedged \/ cmd[c].result \in StillThere
  <2>1. w \in BOOLEAN
    BY <1>1 DEF Command
  <2> HIDE DEF w
  <2>2. Becomes(c, Finished(c, w))
    BY <1>3 DEF w
  <2>3. Moved(c) /\ cmd'[c] = Finished(c, w)
    BY <1>1, <2>1, <2>2, FinishedShape, MovedTo
  <2>4. /\ cmd'[c].op = cmd[c].op
        /\ cmd'[c].pc \in {"next", "down", "ending"}
        /\ cmd'[c].slot = Nothing
        /\ cmd'[c].todo = cmd[c].todo
        /\ cmd'[c].wedged = w
        /\ cmd'[c].pc = "ending" => cmd[c].op # "close"
    BY <1>1, <2>1, <2>3, FinishedShape
  <2> QED
    BY <1>4, <2>3, <2>4 DEF w
<1>5. \/ /\ cmd[c].op \in {"start", "restart"} /\ cmd[c].result \notin StillThere
         /\ Becomes(c, [cmd[c] EXCEPT !.pc = "spawn", !.rec = Nothing, !.result = "none"])
      \/ Becomes(c, Finished(c, cmd[c].wedged \/ cmd[c].result \in StillThere))
  BY DEF Cleanup
<1> QED
  BY <1>2, <1>3, <1>4, <1>5

LEMMA SpawnMoves ==
    ASSUME Shape, NEW c \in Commands, Spawn(c)
    PROVE  /\ Moved(c)
           /\ cmd'[c].op = cmd[c].op /\ cmd'[c].slot = cmd[c].slot
           /\ cmd'[c].pc = "spawned"
           /\ cmd'[c].rec \in Record
           /\ cmd'[c].rec.token = started + 1
           /\ Recyclable(cmd'[c].rec.pid)
           /\ started + 1 \in Tokens
           /\ proc' = [proc EXCEPT ![cmd'[c].rec.pid] =
                           [owner |-> cmd[c].slot, token |-> started + 1, parent |-> c,
                            runs |-> TRUE, hit |-> {}]]
<1>1. PICK pid \in Pids :
         /\ Recyclable(pid)
         /\ proc' = [proc EXCEPT ![pid] =
                        [owner |-> cmd[c].slot, token |-> started + 1, parent |-> c,
                         runs |-> TRUE, hit |-> {}]]
         /\ Becomes(c, [cmd[c] EXCEPT !.pc = "spawned",
                                      !.rec = [pid |-> pid, token |-> started + 1]])
  BY DEF Spawn
<1>2. started + 1 \in Tokens
  BY RosterSlotsAssumption DEF Spawn, Shape, TypeOK, Tokens
<1> DEFINE r == [pid |-> pid, token |-> started + 1]
           m == [cmd[c] EXCEPT !.pc = "spawned", !.rec = r]
<1>3. r \in Record /\ r.pid = pid /\ r.token = started + 1
  BY <1>2 DEF Record
<1>4. /\ cmd[c].pc = "spawn" /\ cmd[c].slot \in Slots /\ cmd[c].op \in SlotOps
      /\ cmd[c] \in Command
  BY RecordsTyped DEF Spawn, At, CommandShape, Critical, Launching
<1> HIDE DEF r
<1>5. /\ m \in Command
      /\ m.op = cmd[c].op /\ m.slot = cmd[c].slot /\ m.pc = "spawned" /\ m.rec = r
  BY <1>3, <1>4 DEF Command, Pcs, Critical, Launching
<1>6. CommandShape(m)
  BY <1>3, <1>4, <1>5
  DEF CommandShape, Critical, Terminating, Launching, Holding, SlotOps
<1>7. Moved(c) /\ cmd'[c] = m
  <2> HIDE DEF m
  <2> QED
    BY <1>1, <1>5, <1>6, MovedTo DEF m, r
<1> QED
  BY <1>1, <1>2, <1>3, <1>5, <1>7

LEMMA TrackMoves ==
    ASSUME Shape, NEW c \in Commands, Track(c)
    PROVE  /\ Moved(c)
           /\ cmd'[c].op = cmd[c].op /\ cmd'[c].slot = cmd[c].slot
           /\ cmd'[c].rec = cmd[c].rec
           /\ cmd'[c].pc = "confirm"
<1>1. /\ cmd[c].pc = "spawned" /\ cmd[c].slot \in Slots /\ cmd[c].op \in SlotOps
      /\ cmd[c] \in Command /\ cmd[c].rec \in Record
  BY RecordsTyped DEF Track, At, CommandShape, Critical, Launching, Holding
<1>2. "confirm" \in Pcs /\ CommandShape([cmd[c] EXCEPT !.pc = "confirm"])
  BY <1>1 DEF CommandShape, Critical, Terminating, Launching, Holding, SlotOps, Command, Pcs
<1> QED
  BY <1>2, GoesMoves DEF Track

\* The four ways a launch ends
LEMMA LaunchEndMoves ==
    ASSUME Shape, NEW c \in Commands,
           SpawnRefused(c) \/ AbortSpawn(c) \/ BootCrash(c) \/ Confirmed(c)
    PROVE  /\ Moved(c)
           /\ cmd[c].op \in SlotOps
           /\ cmd'[c].op = cmd[c].op
           /\ cmd'[c].pc \in {"next", "ending"}
           /\ cmd'[c].slot = Nothing
<1>1. cmd[c].op \in SlotOps
  BY RecordsTyped
  DEF SpawnRefused, AbortSpawn, BootCrash, Confirmed, At, CommandShape, Launching
<1> QED
  BY <1>1, EndsSlotMoves, FinishedShape
  DEF SpawnRefused, AbortSpawn, BootCrash, Confirmed, SlotOps, Moved, CommandShape

\* The lifecycle verbs
LEMMA CloseBeginsMoves ==
    ASSUME Shape, NEW c \in Commands, CloseBegins(c)
    PROVE  /\ Moved(c)
           /\ cmd'[c].op = "close"
           /\ cmd'[c].slot = Nothing
           /\ cmd'[c].todo = {s \in Slots : pidfile[s] # Nothing}
           /\ cmd'[c].pc \in {"next", "down"}
<1> DEFINE todo == {s \in Slots : pidfile[s] # Nothing}
<1>1. PICK pc \in {"next", "down"} :
         Becomes(c, Invoked("close", pc, todo)) /\ (pc = "down" => todo = {})
  BY DEF CloseBegins
<1> DEFINE m == Invoked("close", pc, todo)
<1>2. todo \subseteq Slots
  OBVIOUS
<1> HIDE DEF todo
<1>3. m \in Command
  BY <1>2 DEF Invoked, Command, Pcs, Results
<1>4. m.op = "close" /\ m.pc = pc /\ m.slot = Nothing /\ m.todo = todo
  BY DEF Invoked
<1> HIDE DEF m
<1>5. CommandShape(m)
  BY <1>1, <1>4 DEF CommandShape, Critical, Terminating, Launching, Holding, SlotOps
<1>6. Moved(c) /\ cmd'[c] = m
  BY <1>1, <1>3, <1>5, MovedTo DEF m
<1> QED
  BY <1>1, <1>4, <1>6 DEF todo

LEMMA OpenBeginsMoves ==
    ASSUME Shape, NEW c \in Commands, OpenBegins(c)
    PROVE  Moved(c) /\ cmd'[c].op = "open" /\ cmd'[c].pc = "opening"
<1> DEFINE m == Invoked("open", "opening", {})
<1>1. m \in Command /\ m.op = "open" /\ m.pc = "opening" /\ m.slot = Nothing
  BY DEF Invoked, Command, Pcs, Results
<1> HIDE DEF m
<1>2. CommandShape(m)
  BY <1>1 DEF CommandShape, Critical, Terminating, Launching, Holding, SlotOps
<1> QED
  BY <1>1, <1>2, MovedTo DEF OpenBegins, m

LEMMA LifecycleMoves ==
    ASSUME Shape, NEW c \in Commands, CloseEnds(c) \/ SubstrateUp(c) \/ OpenEnds(c)
    PROVE  /\ Moved(c)
           /\ cmd[c].op \in {"close", "open"}
           /\ cmd[c].pc \in {"down", "opening", "priming"}
           /\ cmd'[c].op = cmd[c].op
           /\ cmd'[c].pc = "ending" \/ (cmd'[c].op = "open" /\ cmd'[c].pc = "priming")
<1>1. /\ cmd[c].pc \in {"down", "opening", "priming"} /\ cmd[c].op \in {"close", "open"}
      /\ cmd[c] \in Command
      /\ cmd[c].pc \in {"opening", "priming"} => cmd[c].op = "open"
  BY RecordsTyped DEF CloseEnds, SubstrateUp, OpenEnds, At, CommandShape
<1>2. PICK pc \in {"ending", "priming"} : Goes(c, pc) /\ (pc = "priming" => cmd[c].op = "open")
  BY <1>1 DEF CloseEnds, SubstrateUp, OpenEnds, At
<1>3. pc \in Pcs /\ CommandShape([cmd[c] EXCEPT !.pc = pc])
  BY <1>1, <1>2 DEF CommandShape, Critical, Terminating, Launching, Holding, Command, Pcs, SlotOps
<1> QED
  BY <1>1, <1>2, <1>3, GoesMoves

LEMMA ExitMoves ==
    ASSUME Shape, NEW c \in Commands, Exit(c) \/ Killed(c)
    PROVE  Moved(c) /\ cmd'[c].pc = "idle" /\ cmd'[c].op \in SlotOps
<1>1. Idle \in Command /\ Idle.op = "stop" /\ Idle.pc = "idle"
  BY DEF Idle, Invoked, Command, Pcs, Results, SlotOps
<1>2. CommandShape(Idle)
  BY <1>1 DEF CommandShape, Critical, Terminating, Launching, Holding
<1> QED
  BY <1>1, <1>2, MovedTo DEF Exit, Killed, SlotOps

-----------------------------------------------------------------------------
(* Shape is an invariant.                                                   *)

LEMMA CommandMoves ==
    ASSUME Shape, NEW c \in Commands, CommandStep(c)
    PROVE  Moved(c)
<1>1. CASE Invoke(c) \/ PickSlot(c) \/ Decline(c) \/ EnterSlot(c) \/ CheckAlive(c)
  BY <1>1, InvokeMoves, PickSlotMoves, DeclineMoves, EnterSlotMoves, CheckAliveMoves
<1>2. CASE Terminate(c) \/ Sigterm(c) \/ Sigkill(c) \/ SeenDead(c)
  BY <1>2, TerminateMoves, SignalMoves, SeenDeadMoves
<1>3. CASE GraceExpires(c) \/ ReapExpires(c) \/ Cleanup(c)
  BY <1>3, GraceExpiresMoves, ReapExpiresMoves, CleanupMoves
<1>4. CASE Spawn(c) \/ Track(c)
  BY <1>4, SpawnMoves, TrackMoves
<1>5. CASE SpawnRefused(c) \/ AbortSpawn(c) \/ BootCrash(c) \/ Confirmed(c)
  BY <1>5, LaunchEndMoves
<1>6. CASE LifecycleStep(c)
  BY <1>6, CloseBeginsMoves, OpenBeginsMoves, LifecycleMoves DEF LifecycleStep
<1>7. CASE Exit(c) \/ Killed(c)
  BY <1>7, ExitMoves
<1> QED
  BY <1>1, <1>2, <1>3, <1>4, <1>5, <1>6, <1>7 DEF CommandStep, SlotStep

\* Reads and SlotReads keep the fault counter within its bound.
LEMMA FaultsBounded ==
    ASSUME Shape, NEW rec, NEW s, NEW v, Reads(rec, v) \/ SlotReads(s, v)
    PROVE  faults' \in 0 .. MaxFaults
BY RosterSlotsAssumption DEF Reads, SlotReads, Shape, TypeOK

\* The process table a command leaves behind is still one.
LEMMA CommandProc ==
    ASSUME Shape, NEW c \in Commands, CommandStep(c)
    PROVE  proc' \in [Pids -> Process \cup {Nothing}]
<1>1. proc \in [Pids -> Process \cup {Nothing}]
  BY DEF Shape, TypeOK
<1>2. CASE Terminate(c)
  <2>1. pidfile[cmd[c].slot] # Nothing => pidfile[cmd[c].slot].pid \in Pids
    BY <1>2, RecordsTyped DEF Terminate, At, CommandShape, Critical, Terminating, Record
  <2> QED
    BY <1>1, <1>2, <2>1, TerminateMoves, ReapedEffect
<1>3. CASE Sigterm(c) \/ Sigkill(c)
  <2>1. cmd[c].rec.pid \in Pids /\ cmd[c].slot \in Slots
    BY <1>3, SignalMoves, RecordsTyped DEF Holding
  <2>2. proc' = Signalled(cmd[c].rec.pid, cmd[c].slot)
    BY <1>3, SignalMoves
  <2> QED
    BY <2>1, <2>2, SignalledEffect
<1>4. CASE SeenDead(c) \/ BootCrash(c)
  <2>1. cmd[c].rec.pid \in Pids /\ proc' = Reaped(c, cmd[c].rec.pid)
    BY <1>4, RecordsTyped DEF Holding, SeenDead, BootCrash, At
  <2> QED
    BY <2>1, ReapedEffect
<1>5. CASE Spawn(c)
  <2> DEFINE q == [owner |-> cmd[c].slot, token |-> started + 1, parent |-> c,
                   runs |-> TRUE, hit |-> {}]
  <2>1. cmd[c].slot \in Slots
    BY <1>5, RecordsTyped DEF Spawn, At, CommandShape, Critical, Launching
  <2>2. q \in Process
    BY <1>5, <2>1, SpawnMoves DEF Process
  <2> QED
    BY <1>1, <1>5, <2>2, SpawnMoves
<1>6. CASE AbortSpawn(c)
  BY <1>1, <1>6 DEF AbortSpawn
<1>7. CASE Exit(c) \/ Killed(c)
  BY <1>7, OrphanedEffect DEF Exit, Killed
<1>8. CASE proc' = proc
  BY <1>1, <1>8
<1> QED
  BY <1>2, <1>3, <1>4, <1>5, <1>6, <1>7, <1>8
  DEF CommandStep, SlotStep, LifecycleStep, Invoke, PickSlot, Decline, EnterSlot, CheckAlive,
      GraceExpires, ReapExpires, Cleanup, SpawnRefused, Track, Confirmed,
      CloseBegins, CloseEnds, OpenBegins, SubstrateUp, OpenEnds

\* What else a command may touch keeps its type.
LEMMA CommandRest ==
    ASSUME Shape, NEW c \in Commands, CommandStep(c)
    PROVE  /\ started' \in 0 .. MaxStarts
           /\ pidfile' \in [Slots -> Record \cup {Nothing}]
           /\ open' \in BOOLEAN
           /\ leaked' \subseteq Tokens
           /\ faults' \in 0 .. MaxFaults
<1> USE RosterSlotsAssumption DEF Shape, TypeOK
<1>1. CASE Invoke(c) \/ PickSlot(c) \/ Decline(c) \/ EnterSlot(c)
  BY <1>1 DEF Invoke, PickSlot, Decline, EnterSlot
<1>2. CASE CheckAlive(c) \/ GraceExpires(c)
  BY <1>2, FaultsBounded DEF CheckAlive, GraceExpires
<1>3. CASE Terminate(c)
  BY <1>3, FaultsBounded DEF Terminate
<1>4. CASE Sigterm(c) \/ SeenDead(c) \/ Sigkill(c) \/ ReapExpires(c)
  BY <1>4 DEF Sigterm, SeenDead, Sigkill, ReapExpires
<1>5. CASE Cleanup(c)
  <2>1. faults' \in 0 .. MaxFaults
    BY <1>5, FaultsBounded DEF Cleanup
  <2> QED
    BY <1>5, <2>1, CleanupMoves DEF Cleanup
<1>6. CASE Spawn(c)
  BY <1>6 DEF Spawn
<1>7. CASE Track(c)
  <2>1. cmd[c].rec \in Record
    BY <1>7, RecordsTyped DEF Track, At, Holding
  <2> QED
    BY <1>7, <2>1 DEF Track
<1>8. CASE SpawnRefused(c) \/ AbortSpawn(c) \/ BootCrash(c) \/ Confirmed(c)
  BY <1>8 DEF SpawnRefused, AbortSpawn, BootCrash, Confirmed
<1>9. CASE LifecycleStep(c)
  BY <1>9 DEF LifecycleStep, CloseBegins, CloseEnds, OpenBegins, SubstrateUp, OpenEnds
<1>10. CASE Exit(c)
  BY <1>10 DEF Exit
<1>11. CASE Killed(c)
  <2>1. At(c, "spawned") => cmd[c].rec.token \in Tokens
    BY RecordsTyped DEF At, Holding, Record
  <2> QED
    BY <1>11, <2>1 DEF Killed
<1> QED
  BY <1>1, <1>2, <1>3, <1>4, <1>5, <1>6, <1>7, <1>8, <1>9, <1>10, <1>11
  DEF CommandStep, SlotStep

LEMMA KernelProc ==
    ASSUME Shape, NEW pid \in Pids, KernelStep(pid)
    PROVE  /\ proc' \in [Pids -> Process \cup {Nothing}]
           /\ started' \in 0 .. MaxStarts
<1>1. CASE Dies(pid)
  BY <1>1 DEF Dies, Answers, Shape, TypeOK, Process
<1>2. CASE StrangerStarts(pid)
  <2> DEFINE q == [owner |-> Nothing, token |-> started + 1, parent |-> Nothing,
                   runs |-> TRUE, hit |-> {}]
  <2>1. started' \in 0 .. MaxStarts /\ started + 1 \in Tokens
    BY <1>2, RosterSlotsAssumption DEF StrangerStarts, Shape, TypeOK, Tokens
  <2>2. q \in Process
    BY <2>1 DEF Process
  <2> QED
    BY <1>2, <2>1, <2>2 DEF StrangerStarts, Shape, TypeOK
<1> QED
  BY <1>1, <1>2 DEF KernelStep

LEMMA ShapeStep == Shape /\ [Next]_vars => Shape'
<1> SUFFICES ASSUME Shape, [Next]_vars PROVE Shape'
  OBVIOUS
<1>1. ASSUME NEW c \in Commands, CommandStep(c) PROVE Shape'
  BY <1>1, CommandMoves, CommandProc, CommandRest DEF Shape, TypeOK, Moved
<1>2. ASSUME NEW pid \in Pids, KernelStep(pid) PROVE Shape'
  BY <1>2, KernelProc DEF Shape, TypeOK, KernelStep, Dies, StrangerStarts
<1>3. CASE UNCHANGED vars
  BY <1>3 DEF vars, Shape, TypeOK
<1> QED
  BY <1>1, <1>2, <1>3 DEF Next

LEMMA ShapeInit == Init => Shape
<1> SUFFICES ASSUME Init PROVE Shape
  OBVIOUS
<1>1. Idle \in Command /\ Idle.op = "stop" /\ Idle.pc = "idle"
  BY DEF Idle, Invoked, Command, Pcs, Results, SlotOps
<1>2. CommandShape(Idle)
  BY <1>1 DEF CommandShape, Critical, Terminating, Launching, Holding
<1>3. \A c \in Commands : cmd[c] = Idle
  BY DEF Init
<1>4. cmd \in [Commands -> Command] /\ \A c \in Commands : CommandShape(cmd[c])
  BY <1>1, <1>2, <1>3 DEF Init
<1>5. /\ proc \in [Pids -> Process \cup {Nothing}]
      /\ pidfile \in [Slots -> Record \cup {Nothing}]
  BY DEF Init
<1>6. /\ started \in 0 .. MaxStarts
      /\ faults \in 0 .. MaxFaults
      /\ leaked \subseteq Tokens
  BY RosterSlotsAssumption DEF Init
<1>7. open \in BOOLEAN
  BY Zenon DEF Init
<1>8. TypeOK
  BY <1>4, <1>5, <1>6, <1>7 DEF TypeOK
<1> QED
  BY <1>4, <1>8 DEF Shape

\* Every reachable state is well typed, for any number of slots, commands and pids.
THEOREM SlotsTypeCorrect == Spec => []TypeOK
<1>1. Spec => []Shape
  BY ShapeInit, ShapeStep, PTL DEF Spec
<1> QED
  BY <1>1, PTL DEF Shape

-----------------------------------------------------------------------------
(* Mutual exclusion.                                                        *)

\* Command c takes no lock it did not hold.
KeepsLocks(c) ==
    /\ InSlot(c)' => InSlot(c) /\ cmd'[c].slot = cmd[c].slot
    /\ InLifecycle(c)' => InLifecycle(c)

LEMMA LocksKept ==
    ASSUME Locks, NEW c \in Commands, Moved(c), KeepsLocks(c)
    PROVE  Locks'
BY DEF Locks, Moved, KeepsLocks, InSlot, InLifecycle

\* Every step but the three that take a lock
LEMMA StepKeepsLocks ==
    ASSUME Shape, NEW c \in Commands, CommandStep(c),
           ~EnterSlot(c), ~CloseBegins(c), ~OpenBegins(c)
    PROVE  KeepsLocks(c)
<1> USE DEF KeepsLocks, InSlot, InLifecycle
<1>1. cmd[c].pc \in Critical => ~(cmd[c].pc \in {"idle", "ending"})
  BY DEF Critical, Terminating, Launching
<1>2. CASE Invoke(c) \/ Decline(c) \/ Exit(c) \/ Killed(c)
  BY <1>2, InvokeMoves, DeclineMoves, ExitMoves, RecordsTyped
  DEF SlotOps, Critical, Terminating, Launching, Invoke, Decline, At, CommandShape
<1>3. CASE PickSlot(c)
  BY <1>3, PickSlotMoves DEF Critical, Terminating, Launching, SlotOps, PickSlot, At
<1>4. CASE CheckAlive(c)
  BY <1>4, CheckAliveMoves, RecordsTyped
  DEF CheckAlive, At, Critical, Terminating, Launching, CommandShape, SlotOps
<1>5. CASE Terminate(c) \/ Sigterm(c) \/ Sigkill(c) \/ SeenDead(c)
  <2>1. /\ cmd'[c].op = cmd[c].op /\ cmd'[c].slot = cmd[c].slot
        /\ cmd[c].pc \in Terminating
    BY <1>5, TerminateMoves, SignalMoves, SeenDeadMoves DEF Terminate, SeenDead, At, Terminating
  <2> QED
    BY <1>1, <2>1 DEF Critical
<1>6. CASE GraceExpires(c) \/ ReapExpires(c)
  <2>1. /\ cmd'[c].op = cmd[c].op /\ cmd'[c].slot = cmd[c].slot
        /\ cmd[c].pc \in Terminating
    BY <1>6, GraceExpiresMoves, ReapExpiresMoves DEF GraceExpires, ReapExpires, At, Terminating
  <2> QED
    BY <1>1, <2>1 DEF Critical
<1>7. CASE Cleanup(c)
  <2>1. cmd[c].pc = "cleanup" /\ cmd[c].pc \in Critical
    BY <1>7 DEF Cleanup, At, Critical, Terminating
  <2> QED
    BY <1>1, <1>7, <2>1, CleanupMoves DEF Critical, Terminating, Launching
<1>8. CASE Spawn(c) \/ Track(c)
  <2>1. /\ cmd'[c].op = cmd[c].op /\ cmd'[c].slot = cmd[c].slot
        /\ cmd[c].pc \in Critical
    BY <1>8, SpawnMoves, TrackMoves DEF Spawn, Track, At, Launching, Critical
  <2> QED
    BY <1>1, <2>1
<1>9. CASE SpawnRefused(c) \/ AbortSpawn(c) \/ BootCrash(c) \/ Confirmed(c)
  BY <1>9, LaunchEndMoves DEF SlotOps, Critical, Terminating, Launching
<1>10. CASE CloseEnds(c) \/ SubstrateUp(c) \/ OpenEnds(c)
  BY <1>10, LifecycleMoves DEF SlotOps
<1> QED
  BY <1>2, <1>3, <1>4, <1>5, <1>6, <1>7, <1>8, <1>9, <1>10
  DEF CommandStep, SlotStep, LifecycleStep

LEMMA LocksStep == Shape /\ Locks /\ [Next]_vars => Locks'
<1> SUFFICES ASSUME Shape, Locks, [Next]_vars PROVE Locks'
  OBVIOUS
<1>1. ASSUME NEW c \in Commands, CommandStep(c) PROVE Locks'
  <2>1. Moved(c)
    BY <1>1, CommandMoves
  <2>2. CASE EnterSlot(c)
    <3>1. CASE cmd'[c].pc \in {"next", "ending"}
      <4>1. cmd[c].op \in SlotOps /\ cmd'[c].op = cmd[c].op
        BY <2>2, EnterSlotMoves, RecordsTyped DEF EnterSlot, At, CommandShape
      <4>2. KeepsLocks(c)
        BY <3>1, <4>1
        DEF KeepsLocks, InSlot, InLifecycle, Critical, Terminating, Launching, SlotOps
      <4> QED
        BY <2>1, <4>2, LocksKept
    <3>2. CASE LifecycleFree /\ SlotFree(cmd[c].slot) /\ cmd'[c].slot = cmd[c].slot
      <4>1. cmd[c].op \in SlotOps /\ cmd'[c].op = cmd[c].op
        BY <2>2, EnterSlotMoves, RecordsTyped DEF EnterSlot, At, CommandShape
      <4>2. ~InLifecycle(c)'
        BY <4>1 DEF InLifecycle, SlotOps
      <4> QED
        BY <2>1, <3>2, <4>2 DEF Locks, LifecycleFree, SlotFree, InSlot, InLifecycle, Moved
    <3> QED
      BY <2>2, <3>1, <3>2, EnterSlotMoves
  <2>3. CASE CloseBegins(c) \/ OpenBegins(c)
    <3>1. LifecycleFree /\ RosterFree
      BY <2>3 DEF CloseBegins, OpenBegins
    <3>2. ~InSlot(c)'
      BY <2>3, CloseBeginsMoves, OpenBeginsMoves DEF InSlot, SlotOps
    <3> QED
      BY <2>1, <3>1, <3>2 DEF Locks, LifecycleFree, RosterFree, InSlot, InLifecycle, Moved
  <2>4. CASE ~EnterSlot(c) /\ ~CloseBegins(c) /\ ~OpenBegins(c)
    BY <1>1, <2>1, <2>4, StepKeepsLocks, LocksKept
  <2> QED
    BY <2>2, <2>3, <2>4
<1>2. CASE cmd' = cmd
  BY <1>2 DEF Locks, InSlot, InLifecycle
<1> QED
  BY <1>1, <1>2 DEF Next, KernelStep, Dies, StrangerStarts, vars

LEMMA LocksInit == Init => Locks
BY DEF Init, Locks, InSlot, InLifecycle, Idle, Invoked, Critical, Terminating, Launching

\* No two commands are ever in the critical section of one slot, and no command
\* in any while disco start or disco stop runs (slot_mutation, lifecycle_lock).
THEOREM SlotsExclusive == Spec => []Locks
<1>1. Init => Shape /\ Locks
  BY ShapeInit, LocksInit
<1>2. Shape /\ Locks /\ [Next]_vars => (Shape /\ Locks)'
  BY ShapeStep, LocksStep
<1> QED
  BY <1>1, <1>2, PTL DEF Spec

-----------------------------------------------------------------------------
(* Processes, pidfiles and what the roster promises of them.                  *)

\* A start token is given out once, to one process.
TokensFresh ==
    /\ \A pid \in Pids : Answers(pid) => proc[pid].token <= started
    /\ \A pid, q \in Pids :
         Answers(pid) /\ Answers(q) /\ proc[pid].token = proc[q].token => pid = q
    /\ \A s \in Slots : pidfile[s] # Nothing => pidfile[s].token <= started
    /\ \A c \in Commands : cmd[c].pc \in Holding => cmd[c].rec.token <= started

\* A pidfile or a spawner's record that matches a process matches one of its slot,
\* and a command that holds a slot's record holds the one in the pidfile.
Records ==
    /\ \A s \in Slots : SlotLive(s) => proc[pidfile[s].pid].owner = s
    /\ \A c \in Commands :
         /\ At(c, "spawned") /\ IsOurs(cmd[c].rec)
              => proc[cmd[c].rec.pid].owner = cmd[c].slot
         /\ cmd[c].pc \in Holding \ {"spawned"} => pidfile[cmd[c].slot] = cmd[c].rec

\* The slot's processes that still have a place in the process table, zombies too
Present(s) ==
    {pid \in Pids : Answers(pid) /\ proc[pid].owner = s /\ proc[pid].token \notin leaked}

\* The record command c works from is that of process pid.
Has(c, pid) == cmd[c].rec.pid = pid /\ cmd[c].rec.token = proc[pid].token

Spawner(s, pid) == \E c \in Commands : At(c, "spawned") /\ cmd[c].slot = s /\ Has(c, pid)

AllTracked == \A s \in Slots : \A pid \in Present(s) : Names(s, pid) \/ Spawner(s, pid)

ClearAt(c) == At(c, "spawn") \/ (At(c, "cleanup") /\ cmd[c].result \notin StillThere)

\* Nothing of the slot is there when a command spawns, and then only its child.
Cleared ==
    \A c \in Commands :
        /\ ClearAt(c) => Present(cmd[c].slot) = {}
        /\ At(c, "spawned") => \A pid \in Present(cmd[c].slot) : Has(c, pid)

Roster == Shape /\ Locks /\ TokensFresh /\ Records /\ AllTracked /\ Cleared

\* A disco stop that met no survivor has cleared what it is past.
Sweep ==
    \A c \in Commands : \A s \in Slots :
        /\ InLifecycle(c)
        /\ cmd[c].op = "close"
        /\ ~cmd[c].wedged
        /\ s \notin cmd[c].todo
        /\ s # cmd[c].slot
        => Present(s) = {}

-----------------------------------------------------------------------------
(* What one step does to processes, records and pidfiles.                   *)

\* No process appears, and those that stay are whose they were.
Fewer ==
    \A q \in Pids : proc'[q] # Nothing =>
        /\ Answers(q)
        /\ proc'[q].owner = proc[q].owner
        /\ proc'[q].token = proc[q].token

\* Every step of a command but the spawn
LEMMA CommandFewer ==
    ASSUME Shape, NEW c \in Commands, CommandStep(c), ~Spawn(c)
    PROVE  Fewer /\ started' = started /\ leaked \subseteq leaked'
<1>1. started' = started /\ leaked \subseteq leaked'
  BY DEF CommandStep, SlotStep, LifecycleStep, Invoke, PickSlot, Decline, EnterSlot, CheckAlive,
      Terminate, Sigterm, SeenDead, GraceExpires, Sigkill, ReapExpires, Cleanup, Spawn,
      SpawnRefused, Track, AbortSpawn, BootCrash, Confirmed,
      CloseBegins, CloseEnds, OpenBegins, SubstrateUp, OpenEnds, Exit, Killed
<1> SUFFICES Fewer
  BY <1>1
<1>2. ASSUME NEW pid \in Pids, proc' = Reaped(c, pid) PROVE Fewer
  BY <1>2, ReapedEffect DEF Fewer, Answers
<1>3. CASE Terminate(c)
  <2>1. pidfile[cmd[c].slot] # Nothing => pidfile[cmd[c].slot].pid \in Pids
    BY <1>3, RecordsTyped DEF Terminate, At, CommandShape, Critical, Terminating, Record
  <2>2. \/ proc' = proc
        \/ /\ pidfile[cmd[c].slot] # Nothing
           /\ proc' = Reaped(c, pidfile[cmd[c].slot].pid)
    BY <1>3, TerminateMoves
  <2>3. CASE proc' = proc
    BY <2>3 DEF Fewer, Answers
  <2> QED
    BY <1>2, <2>1, <2>2, <2>3
<1>4. CASE Sigterm(c) \/ Sigkill(c)
  <2>1. cmd[c].rec.pid \in Pids /\ cmd[c].slot \in Slots
    BY <1>4, SignalMoves, RecordsTyped DEF Holding
  <2>2. proc' = Signalled(cmd[c].rec.pid, cmd[c].slot)
    BY <1>4, SignalMoves
  <2> DEFINE p == cmd[c].rec.pid
             s == cmd[c].slot
  <2>3. /\ \A q \in Pids : q # p \/ ~Answers(p) => proc'[q] = proc[q]
        /\ Answers(p) => proc'[p] = [proc[p] EXCEPT !.hit = @ \cup {s}]
    BY <2>1, <2>2, SignalledEffect
  <2>4. Answers(p) => proc[p] \in Process
    BY <2>1 DEF Answers, Shape, TypeOK
  <2>5. Answers(p) => proc'[p].owner = proc[p].owner /\ proc'[p].token = proc[p].token
    BY <2>3, <2>4 DEF Process
  <2> QED
    BY <2>1, <2>3, <2>5 DEF Fewer, Answers
<1>5. CASE SeenDead(c) \/ BootCrash(c)
  <2>1. cmd[c].rec.pid \in Pids /\ proc' = Reaped(c, cmd[c].rec.pid)
    BY <1>5, RecordsTyped DEF Holding, SeenDead, BootCrash, At
  <2> QED
    BY <1>2, <2>1
<1>6. CASE AbortSpawn(c)
  <2>1. \A q \in Pids : proc'[q] \in {proc[q], Nothing}
    BY <1>6 DEF AbortSpawn, Shape, TypeOK
  <2> QED
    BY <2>1 DEF Fewer, Answers
<1>7. CASE Exit(c) \/ Killed(c)
  <2>1. proc' = Orphaned(c)
    BY <1>7 DEF Exit, Killed
  <2> QED
    BY <2>1, OrphanedEffect DEF Fewer
<1>8. CASE proc' = proc
  BY <1>8 DEF Fewer, Answers
<1> QED
  BY <1>3, <1>4, <1>5, <1>6, <1>7, <1>8
  DEF CommandStep, SlotStep, LifecycleStep, Invoke, PickSlot, Decline, EnterSlot, CheckAlive,
      GraceExpires, ReapExpires, Cleanup, SpawnRefused, Track, Confirmed,
      CloseBegins, CloseEnds, OpenBegins, SubstrateUp, OpenEnds

\* The death of a process
LEMMA DeathFewer ==
    ASSUME Shape, NEW pid \in Pids, Dies(pid)
    PROVE  Fewer
<1>1. proc[pid] \in Process /\ proc \in [Pids -> Process \cup {Nothing}]
  BY DEF Dies, Answers, Shape, TypeOK
<1>2. CASE proc' = [proc EXCEPT ![pid] = Nothing]
  BY <1>1, <1>2 DEF Fewer, Answers
<1>3. CASE proc' = [proc EXCEPT ![pid].runs = FALSE]
  <2>1. /\ proc'[pid].owner = proc[pid].owner
        /\ proc'[pid].token = proc[pid].token
        /\ \A q \in Pids \ {pid} : proc'[q] = proc[q]
    BY <1>1, <1>3 DEF Process
  <2> QED
    BY <1>1, <2>1 DEF Fewer, Answers, Dies
<1> QED
  BY <1>2, <1>3 DEF Dies

\* Where the record of a command comes from, but for the spawn
LEMMA RecordComes ==
    ASSUME Shape, NEW c \in Commands, CommandStep(c), ~Spawn(c), cmd'[c].pc \in Holding
    PROVE  /\ cmd'[c].pc # "spawned"
           /\ cmd'[c].slot = cmd[c].slot
           /\ \/ /\ cmd[c].pc \in Holding
                 /\ cmd'[c].rec = cmd[c].rec
                 /\ Track(c) \/ cmd[c].pc \in {"sigterm", "grace", "sigkill"}
              \/ /\ Terminate(c)
                 /\ pidfile[cmd[c].slot] # Nothing
                 /\ cmd'[c].rec = pidfile[cmd[c].slot]
                 /\ Reads(cmd'[c].rec, "ours")
<1> USE DEF Holding
<1>1. CASE Invoke(c) \/ PickSlot(c) \/ Decline(c) \/ EnterSlot(c) \/ CheckAlive(c)
  BY <1>1, InvokeMoves, PickSlotMoves, DeclineMoves, EnterSlotMoves, CheckAliveMoves, RecordsTyped
  DEF Command, PickSlot, CommandShape, At
<1>2. CASE Terminate(c)
  BY <1>2, TerminateMoves
<1>3. CASE Sigterm(c) \/ Sigkill(c)
  BY <1>3, SignalMoves
<1>4. CASE SeenDead(c) \/ ReapExpires(c) \/ Cleanup(c)
  BY <1>4, SeenDeadMoves, ReapExpiresMoves, CleanupMoves
<1>5. CASE GraceExpires(c)
  BY <1>5, GraceExpiresMoves DEF GraceExpires, At
<1>6. CASE Track(c)
  BY <1>6, TrackMoves DEF Track, At
<1>7. CASE SpawnRefused(c) \/ AbortSpawn(c) \/ BootCrash(c) \/ Confirmed(c)
  BY <1>7, LaunchEndMoves
<1>8. CASE LifecycleStep(c)
  BY <1>8, CloseBeginsMoves, OpenBeginsMoves, LifecycleMoves DEF LifecycleStep
<1>9. CASE Exit(c) \/ Killed(c)
  BY <1>9, ExitMoves
<1> QED
  BY <1>1, <1>2, <1>3, <1>4, <1>5, <1>6, <1>7, <1>8, <1>9 DEF CommandStep, SlotStep

\* A pidfile is written inside the slot's critical section only.
LEMMA PidfileWritten ==
    ASSUME Shape, NEW c \in Commands, CommandStep(c)
    PROVE  \/ pidfile' = pidfile
           \/ /\ cmd[c].pc \in Critical
              /\ cmd[c].slot \in Slots
              /\ \/ /\ Track(c)
                    /\ pidfile' = [pidfile EXCEPT ![cmd[c].slot] = cmd[c].rec]
                 \/ /\ Cleanup(c) /\ SlotReads(cmd[c].slot, "not_ours")
                    /\ pidfile' = [pidfile EXCEPT ![cmd[c].slot] = Nothing]
                 \/ /\ BootCrash(c)
                    /\ pidfile' = [pidfile EXCEPT ![cmd[c].slot] = Nothing]
<1>1. CASE Track(c) \/ BootCrash(c)
  BY <1>1, RecordsTyped DEF Track, BootCrash, At, Critical, Launching, CommandShape
<1>2. CASE Cleanup(c)
  BY <1>2, CleanupMoves, RecordsTyped DEF Cleanup, At, Critical, Terminating, CommandShape
<1> QED
  BY <1>1, <1>2
  DEF CommandStep, SlotStep, LifecycleStep, Invoke, PickSlot, Decline, EnterSlot, CheckAlive,
      Terminate, Sigterm, SeenDead, GraceExpires, Sigkill, ReapExpires, Spawn,
      SpawnRefused, Track, AbortSpawn, BootCrash, Confirmed,
      CloseBegins, CloseEnds, OpenBegins, SubstrateUp, OpenEnds, Exit, Killed

\* Two commands inside the critical section of a slot are one command.
LEMMA Exclusive ==
    ASSUME Shape, Locks, NEW c \in Commands, NEW d \in Commands, c # d,
           cmd[c].pc \in Critical, cmd[d].pc \in Critical
    PROVE  cmd[c].slot # cmd[d].slot
<1>1. ASSUME NEW e \in Commands, cmd[e].pc \in Critical
      PROVE  InSlot(e) \/ InLifecycle(e)
  BY <1>1, RecordsTyped
  DEF InSlot, InLifecycle, Command, CommandShape, Critical, Terminating, Launching
<1> QED
  BY <1>1 DEF Locks

-----------------------------------------------------------------------------
(* Start tokens.                                                            *)

\* A process appears under a free pid, with the next start token.
Appears(pid, owner) ==
    /\ proc[pid] = Nothing
    /\ started' = started + 1
    /\ proc'[pid].owner = owner
    /\ proc'[pid].token = started + 1
    /\ \A q \in Pids \ {pid} : proc'[q] = proc[q]

LEMMA SpawnAppears ==
    ASSUME Shape, NEW c \in Commands, Spawn(c)
    PROVE  /\ cmd'[c].rec.pid \in Pids
           /\ Appears(cmd'[c].rec.pid, cmd[c].slot)
           /\ cmd'[c].rec.token = started + 1
           /\ proc'[cmd'[c].rec.pid].hit = {}
           /\ pidfile' = pidfile /\ leaked' = leaked
<1> DEFINE p == cmd'[c].rec.pid
           new == [owner |-> cmd[c].slot, token |-> started + 1, parent |-> c,
                   runs |-> TRUE, hit |-> {}]
<1>1. /\ p \in Pids /\ proc[p] = Nothing
      /\ proc' = [proc EXCEPT ![p] = new]
      /\ cmd'[c].rec.token = started + 1
  BY SpawnMoves DEF Recyclable, Record
<1>2. proc'[p] = new /\ \A q \in Pids \ {p} : proc'[q] = proc[q]
  BY <1>1 DEF Shape, TypeOK
<1>3. started' = started + 1 /\ pidfile' = pidfile /\ leaked' = leaked
  BY DEF Spawn
<1> QED
  BY <1>1, <1>2, <1>3 DEF Appears

LEMMA StrangerAppears ==
    ASSUME Shape, NEW pid \in Pids, StrangerStarts(pid)
    PROVE  /\ Appears(pid, Nothing)
           /\ proc'[pid].hit = {}
           /\ pidfile' = pidfile /\ leaked' = leaked /\ cmd' = cmd
<1> DEFINE new == [owner |-> Nothing, token |-> started + 1, parent |-> Nothing,
                   runs |-> TRUE, hit |-> {}]
<1>1. proc'[pid] = new /\ \A q \in Pids \ {pid} : proc'[q] = proc[q]
  BY DEF StrangerStarts, Shape, TypeOK
<1> QED
  BY <1>1 DEF StrangerStarts, Recyclable, Appears

LEMMA TokensTyped ==
    ASSUME Shape
    PROVE  /\ started \in Nat
           /\ \A pid \in Pids : Answers(pid) => proc[pid].token \in Nat
           /\ \A s \in Slots : pidfile[s] # Nothing =>
                pidfile[s].token \in Nat /\ pidfile[s].pid \in Pids
           /\ \A c \in Commands : cmd[c].pc \in Holding => cmd[c].rec.token \in Nat
BY RosterSlotsAssumption, RecordsTyped
DEF Shape, TypeOK, Answers, Process, Record, Tokens

LEMMA TokensStep == Shape /\ TokensFresh /\ [Next]_vars => TokensFresh'
<1> SUFFICES ASSUME Shape, TokensFresh, [Next]_vars PROVE TokensFresh'
  OBVIOUS
<1>1. ASSUME NEW c \in Commands, CommandStep(c), ~Spawn(c) PROVE TokensFresh'
  <2>1. Fewer /\ started' = started
    BY <1>1, CommandFewer
  <2>2. \A s \in Slots : pidfile'[s] # Nothing => pidfile'[s].token <= started
    <3>1. cmd[c].pc = "spawned" => cmd[c].rec.token <= started
      BY DEF TokensFresh, Holding
    <3> QED
      BY <1>1, <3>1, PidfileWritten DEF TokensFresh, Track, At, Shape, TypeOK
  <2>3. \A d \in Commands : cmd'[d].pc \in Holding => cmd'[d].rec.token <= started
    <3>1. cmd'[c].pc \in Holding => cmd'[c].rec.token <= started
      <4>1. Terminate(c) => cmd[c].slot \in Slots
        BY RecordsTyped DEF Terminate, At, CommandShape, Critical, Terminating
      <4> QED
        BY <1>1, <4>1, RecordComes DEF TokensFresh
    <3>2. \A d \in Commands \ {c} : cmd'[d] = cmd[d]
      BY <1>1, CommandMoves DEF Moved
    <3> QED
      BY <3>1, <3>2 DEF TokensFresh
  <2> QED
    BY <2>1, <2>2, <2>3 DEF TokensFresh, Fewer, Answers
<1>2. ASSUME NEW pid \in Pids, NEW owner, Appears(pid, owner), pidfile' = pidfile,
             \A d \in Commands : cmd'[d].pc \in Holding => cmd'[d].rec.token <= started'
      PROVE  TokensFresh'
  <2>1. /\ \A q \in Pids : proc'[q] # Nothing => proc'[q].token <= started'
        /\ \A q, r \in Pids : proc'[q] # Nothing /\ proc'[r] # Nothing
                              /\ proc'[q].token = proc'[r].token => q = r
    BY <1>2, TokensTyped DEF TokensFresh, Appears, Answers
  <2>2. \A s \in Slots : pidfile'[s] # Nothing => pidfile'[s].token <= started'
    BY <1>2, TokensTyped DEF TokensFresh, Appears
  <2> QED
    BY <1>2, <2>1, <2>2 DEF TokensFresh, Answers
<1>3. ASSUME NEW c \in Commands, Spawn(c) PROVE TokensFresh'
  <2>1. \A d \in Commands \ {c} : cmd'[d] = cmd[d]
    BY <1>3, SpawnMoves DEF Moved
  <2>2. started' = started + 1 /\ cmd'[c].rec.token = started + 1
    BY <1>3, SpawnAppears DEF Appears
  <2>3. \A d \in Commands : cmd'[d].pc \in Holding => cmd'[d].rec.token <= started'
    BY <2>1, <2>2, TokensTyped DEF TokensFresh
  <2> QED
    BY <1>2, <1>3, <2>3, SpawnAppears
<1>4. ASSUME NEW pid \in Pids, StrangerStarts(pid) PROVE TokensFresh'
  <2>1. Appears(pid, Nothing) /\ pidfile' = pidfile /\ cmd' = cmd
    BY <1>4, StrangerAppears
  <2>2. \A d \in Commands : cmd'[d].pc \in Holding => cmd'[d].rec.token <= started'
    BY <2>1, TokensTyped DEF TokensFresh, Appears
  <2> QED
    BY <1>2, <2>1, <2>2
<1>5. ASSUME NEW pid \in Pids, Dies(pid) PROVE TokensFresh'
  BY <1>5, DeathFewer DEF TokensFresh, Fewer, Dies, Answers
<1>6. CASE UNCHANGED vars
  BY <1>6 DEF vars, TokensFresh, Answers
<1> QED
  BY <1>1, <1>3, <1>4, <1>5, <1>6 DEF Next, KernelStep

-----------------------------------------------------------------------------
(* Records against pidfiles.                                                *)

\* What IsOurs says of a record after a step in which nothing appears
LEMMA OursStays ==
    ASSUME Fewer, NEW r, r.pid \in Pids,
           proc'[r.pid] # Nothing, proc'[r.pid].token = r.token
    PROVE  IsOurs(r) /\ proc'[r.pid].owner = proc[r.pid].owner
BY DEF IsOurs, Fewer, Answers

\* and of a record older than the process that appears
LEMMA OursOlder ==
    ASSUME Shape, NEW pid \in Pids, NEW owner, Appears(pid, owner),
           NEW r, r.pid \in Pids, r.token \in Nat, r.token <= started,
           proc'[r.pid] # Nothing, proc'[r.pid].token = r.token
    PROVE  IsOurs(r) /\ r.pid # pid /\ proc'[r.pid] = proc[r.pid]
<1>1. r.pid # pid
  BY TokensTyped DEF IsOurs, Answers, Appears
<1> QED
  BY <1>1 DEF IsOurs, Answers, Appears

LEMMA RecordsStep ==
    Shape /\ Locks /\ TokensFresh /\ Records /\ [Next]_vars => Records'
<1> SUFFICES ASSUME Shape, Locks, TokensFresh, Records, [Next]_vars PROVE Records'
  OBVIOUS
<1>1. ASSUME NEW c \in Commands, CommandStep(c), ~Spawn(c) PROVE Records'
  <2>1. /\ Fewer
        /\ \A d \in Commands \ {c} : cmd'[d] = cmd[d]
    BY <1>1, CommandFewer, CommandMoves DEF Moved
  <2>2. ASSUME NEW s \in Slots, SlotLive(s)' PROVE proc'[pidfile'[s].pid].owner = s
    <3>1. CASE pidfile'[s] = pidfile[s]
      <4>1. /\ pidfile[s] # Nothing /\ pidfile[s].pid \in Pids
          /\ proc'[pidfile[s].pid] # Nothing /\ proc'[pidfile[s].pid].token = pidfile[s].token
        BY <2>2, <3>1, TokensTyped DEF SlotLive, IsOurs, Answers
      <4> QED
        BY <2>1, <3>1, <4>1, OursStays DEF Records, SlotLive
    <3>2. CASE pidfile'[s] # pidfile[s]
      <4>1. Track(c) /\ cmd[c].slot = s /\ pidfile'[s] = cmd[c].rec
        BY <1>1, <2>2, <3>2, PidfileWritten DEF SlotLive, Shape, TypeOK
      <4>2. /\ At(c, "spawned") /\ cmd[c].rec.pid \in Pids
            /\ proc'[cmd[c].rec.pid] # Nothing /\ proc'[cmd[c].rec.pid].token = cmd[c].rec.token
        BY <2>2, <4>1, RecordsTyped DEF SlotLive, Track, At, Holding, IsOurs, Answers
      <4> QED
        BY <2>1, <4>1, <4>2, OursStays DEF Records
    <3> QED
      BY <3>1, <3>2
  <2>3. ASSUME NEW d \in Commands, At(d, "spawned")', IsOurs(cmd[d].rec)'
        PROVE  proc'[cmd'[d].rec.pid].owner = cmd'[d].slot
    <3>1. d # c
      BY <1>1, <2>3, RecordComes DEF At, Holding
    <3>2. cmd'[d] = cmd[d] /\ At(d, "spawned") /\ cmd[d].rec.pid \in Pids
      BY <2>1, <2>3, <3>1, RecordsTyped DEF At, Holding
    <3> QED
      BY <2>1, <2>3, <3>2, OursStays DEF Records, IsOurs, Answers
  <2>4. ASSUME NEW d \in Commands, cmd'[d].pc \in Holding \ {"spawned"}
        PROVE  pidfile'[cmd'[d].slot] = cmd'[d].rec
    <3>1. CASE d # c
      <4>1. cmd'[d] = cmd[d] /\ cmd[d].pc \in Critical /\ cmd[d].slot \in Slots
        BY <2>1, <2>4, <3>1, RecordsTyped DEF Holding, Critical, Terminating, Launching
      <4>2. pidfile'[cmd[d].slot] = pidfile[cmd[d].slot]
        BY <1>1, <3>1, <4>1, PidfileWritten, Exclusive DEF Shape, TypeOK
      <4> QED
        BY <2>4, <4>1, <4>2 DEF Records
    <3>2. CASE d = c /\ Track(c)
      <4>1. cmd[c].slot \in Slots /\ cmd'[c].slot = cmd[c].slot /\ cmd'[c].rec = cmd[c].rec
        BY <3>2, TrackMoves, RecordsTyped DEF Track, At, Holding
      <4> QED
        BY <3>2, <4>1 DEF Track, Shape, TypeOK
    <3>3. CASE d = c /\ ~Track(c)
      <4>1. cmd'[c].pc \in Holding
        BY <2>4, <3>3
      <4>2. \/ cmd[c].pc \in {"sigterm", "grace", "sigkill"} /\ cmd'[c].rec = cmd[c].rec
            \/ Terminate(c) /\ cmd'[c].rec = pidfile[cmd[c].slot]
        BY <1>1, <3>3, <4>1, RecordComes
      <4>3. cmd'[c].slot = cmd[c].slot
        BY <1>1, <4>1, RecordComes
      <4>4. pidfile' = pidfile
        BY <1>1, <3>3, <4>2, PidfileWritten DEF Terminate, Cleanup, BootCrash, At
      <4> QED
        BY <3>3, <4>2, <4>3, <4>4 DEF Records, Holding
    <3> QED
      BY <3>1, <3>2, <3>3
  <2> QED
    BY <2>2, <2>3, <2>4 DEF Records
<1>2. ASSUME NEW pid \in Pids, NEW owner, Appears(pid, owner), pidfile' = pidfile,
             NEW c \in Commands \cup {Nothing},
             \A d \in Commands \ {c} : cmd'[d] = cmd[d],
             c \in Commands => At(c, "spawned")' /\ cmd'[c].rec.pid = pid /\ owner = cmd'[c].slot
      PROVE  Records'
  <2>1. ASSUME NEW s \in Slots, SlotLive(s)' PROVE proc'[pidfile'[s].pid].owner = s
    <3>1. /\ pidfile[s] # Nothing /\ pidfile[s].pid \in Pids /\ pidfile[s].token \in Nat
          /\ pidfile[s].token <= started
          /\ proc'[pidfile[s].pid] # Nothing /\ proc'[pidfile[s].pid].token = pidfile[s].token
      BY <1>2, <2>1, TokensTyped DEF SlotLive, IsOurs, Answers, TokensFresh
    <3> QED
      BY <1>2, <3>1, OursOlder DEF Records, SlotLive
  <2>2. ASSUME NEW d \in Commands \ {c}, At(d, "spawned")', IsOurs(cmd[d].rec)'
        PROVE  proc'[cmd'[d].rec.pid].owner = cmd'[d].slot
    <3>1. cmd'[d] = cmd[d] /\ At(d, "spawned")
      BY <1>2, <2>2 DEF At
    <3>2. /\ cmd[d].rec.pid \in Pids /\ cmd[d].rec.token \in Nat
          /\ cmd[d].rec.token <= started
          /\ proc'[cmd[d].rec.pid] # Nothing /\ proc'[cmd[d].rec.pid].token = cmd[d].rec.token
      BY <2>2, <3>1, TokensTyped, RecordsTyped DEF At, Holding, IsOurs, Answers, TokensFresh
    <3> QED
      BY <1>2, <3>1, <3>2, OursOlder DEF Records
  <2>3. ASSUME NEW d \in Commands, cmd'[d].pc \in Holding \ {"spawned"}
        PROVE  pidfile'[cmd'[d].slot] = cmd'[d].rec
    BY <1>2, <2>3 DEF Records, At
  <2>4. c \in Commands => proc'[cmd'[c].rec.pid].owner = cmd'[c].slot
    BY <1>2 DEF Appears
  <2> QED
    BY <2>1, <2>2, <2>3, <2>4 DEF Records
<1>3. ASSUME NEW c \in Commands, Spawn(c) PROVE Records'
  <2>1. \A d \in Commands \ {c} : cmd'[d] = cmd[d]
    BY <1>3, SpawnMoves DEF Moved
  <2>2. At(c, "spawned")' /\ cmd'[c].slot = cmd[c].slot
    BY <1>3, SpawnMoves DEF At
  <2>3. Appears(cmd'[c].rec.pid, cmd[c].slot) /\ pidfile' = pidfile /\ cmd'[c].rec.pid \in Pids
    BY <1>3, SpawnAppears
  <2> QED
    BY <1>2, <2>1, <2>2, <2>3
<1>4. ASSUME NEW pid \in Pids, StrangerStarts(pid) PROVE Records'
  <2>1. Appears(pid, Nothing) /\ pidfile' = pidfile /\ cmd' = cmd
    BY <1>4, StrangerAppears
  <2> QED
    BY <1>2, <2>1, Distinct
<1>5. ASSUME NEW pid \in Pids, Dies(pid) PROVE Records'
  <2>1. Fewer /\ pidfile' = pidfile /\ cmd' = cmd
    BY <1>5, DeathFewer DEF Dies
  <2>2. \A s \in Slots : pidfile[s] # Nothing => pidfile[s].pid \in Pids
    BY TokensTyped
  <2>3. \A d \in Commands : At(d, "spawned") => cmd[d].rec.pid \in Pids
    BY RecordsTyped DEF At, Holding
  <2>4. \A s \in Slots : SlotLive(s)' => proc'[pidfile'[s].pid].owner = s
    BY <2>1, <2>2 DEF Records, SlotLive, IsOurs, Fewer, Answers
  <2>5. \A d \in Commands : At(d, "spawned")' /\ IsOurs(cmd[d].rec)' =>
          proc'[cmd'[d].rec.pid].owner = cmd'[d].slot
    BY <2>1, <2>3 DEF Records, At, IsOurs, Fewer, Answers
  <2>6. \A d \in Commands : cmd'[d].pc \in Holding \ {"spawned"} =>
          pidfile'[cmd'[d].slot] = cmd'[d].rec
    BY <2>1 DEF Records
  <2> QED
    BY <2>4, <2>5, <2>6 DEF Records
<1>6. CASE UNCHANGED vars
  BY <1>6 DEF vars, Records, SlotLive, IsOurs, Answers, At
<1> QED
  BY <1>1, <1>3, <1>4, <1>5, <1>6 DEF Next, KernelStep

-----------------------------------------------------------------------------
(* What is present, and who tracks it.                                      *)

LEMMA PresentFewer ==
    ASSUME Fewer, leaked \subseteq leaked'
    PROVE  \A s \in Slots : \A pid \in Pids : pid \in Present(s)' =>
             pid \in Present(s) /\ proc'[pid] # Nothing /\ proc'[pid].token = proc[pid].token
BY DEF Fewer, Present, Answers

\* A command in a slot's critical section that has no child in hand finds every
\* process of the slot in the pidfile.
LEMMA OnlyNamed ==
    ASSUME Shape, Locks, AllTracked, NEW c \in Commands, cmd[c].pc \in Critical \ {"spawned"},
           NEW pid \in Present(cmd[c].slot)
    PROVE  Names(cmd[c].slot, pid)
<1>1. cmd[c].slot \in Slots
  BY RecordsTyped DEF CommandShape
<1>2. ASSUME NEW d \in Commands, At(d, "spawned") PROVE cmd[d].slot # cmd[c].slot
  BY <1>2, Exclusive DEF At, Critical, Launching
<1> QED
  BY <1>1, <1>2 DEF AllTracked, Spawner

\* Tracking survives a step of a command other than the spawn.
LEMMA TrackedCommand ==
    ASSUME Shape, Locks, Records, AllTracked, Cleared,
           NEW c \in Commands, CommandStep(c), ~Spawn(c)
    PROVE  AllTracked'
<1>1. /\ Fewer /\ leaked \subseteq leaked'
      /\ \A d \in Commands \ {c} : cmd'[d] = cmd[d]
  BY CommandFewer, CommandMoves DEF Moved
<1> SUFFICES ASSUME NEW s \in Slots, NEW pid \in Pids, pid \in Present(s)'
             PROVE  Names(s, pid)' \/ Spawner(s, pid)'
  BY DEF AllTracked, Present
<1>2. pid \in Present(s) /\ proc'[pid] # Nothing /\ proc'[pid].token = proc[pid].token
  BY <1>1, PresentFewer
<1>3. ASSUME NEW d \in Commands \ {c}, At(d, "spawned"), cmd[d].slot = s, Has(d, pid)
      PROVE  Spawner(s, pid)'
  BY <1>1, <1>2, <1>3 DEF Spawner, At, Has
<1>4. CASE Names(s, pid) /\ pidfile'[s] = pidfile[s]
  BY <1>2, <1>4 DEF Names, IsOurs, Answers
<1>5. CASE Track(c) /\ cmd[c].slot = s
  <2>1. Has(c, pid) /\ cmd[c].rec \in Record
    BY <1>2, <1>5, RecordsTyped DEF Cleared, Track, At, Holding
  <2>2. pidfile'[s] = cmd[c].rec
    BY <1>5 DEF Track, Shape, TypeOK
  <2> QED
    BY <1>2, <2>1, <2>2, RecordsTyped, Distinct DEF Names, IsOurs, Answers, Has
<1>6. CASE Names(s, pid) /\ pidfile'[s] # pidfile[s] /\ ~Track(c)
  <2>1. cmd[c].slot = s
    BY <1>6, PidfileWritten DEF Shape, TypeOK
  <2>2. ~Cleanup(c)
    BY <1>6, <2>1, PidfileWritten DEF BootCrash, Cleanup, At, SlotReads, Reads, Names
  <2>3. BootCrash(c)
    BY <1>6, <2>2, PidfileWritten DEF Shape, TypeOK
  <2>4. cmd[c].rec = pidfile[s] /\ cmd[c].rec.pid = pid
    BY <1>6, <2>1, <2>3 DEF Records, BootCrash, At, Holding, Names
  <2>5. Gone(c, pid) /\ proc' = Reaped(c, pid)
    BY <1>6, <2>1, <2>3, <2>4 DEF BootCrash, ReadsDead, Names
  <2>6. proc'[pid] = Nothing
    BY <2>5, ReapedEffect
  <2> QED
    BY <1>2, <2>6
<1>7. CASE ~Names(s, pid) /\ ~(Track(c) /\ cmd[c].slot = s)
  <2>1. PICK d \in Commands : At(d, "spawned") /\ cmd[d].slot = s /\ Has(d, pid)
    BY <1>2, <1>7 DEF AllTracked, Spawner
  <2>2. CASE d # c
    BY <1>3, <2>1, <2>2
  <2>3. CASE d = c
    <3>1. Track(c) \/ AbortSpawn(c) \/ Killed(c)
      BY <2>1, <2>3
      DEF CommandStep, SlotStep, LifecycleStep, Invoke, PickSlot, Decline, EnterSlot, CheckAlive,
          Terminate, Sigterm, SeenDead, GraceExpires, Sigkill, ReapExpires, Cleanup, Spawn,
          SpawnRefused, Track, AbortSpawn, BootCrash, Confirmed, At,
          CloseBegins, CloseEnds, OpenBegins, SubstrateUp, OpenEnds, Exit
    <3>2. CASE AbortSpawn(c)
      <4>1. proc'[pid] = Nothing
        BY <2>1, <2>3, <3>2 DEF AbortSpawn, Has, Shape, TypeOK
      <4> QED
        BY <1>2, <4>1
    <3>3. CASE Killed(c)
      <4>1. proc[pid].token \in leaked'
        BY <2>1, <2>3, <3>3 DEF Killed, Has
      <4>2. pid \notin Present(s)'
        BY <1>2, <4>1 DEF Present
      <4> QED
        BY <4>2
    <3> QED
      BY <1>7, <2>1, <2>3, <3>1, <3>2, <3>3
  <2> QED
    BY <2>2, <2>3
<1> QED
  BY <1>4, <1>5, <1>6, <1>7 DEF Track, Shape, TypeOK

\* Where a command's knowledge that its slot is clear comes from
LEMMA ClearComes ==
    ASSUME Shape, NEW c \in Commands, CommandStep(c), ~Spawn(c), ClearAt(c)'
    PROVE  /\ cmd'[c].slot = cmd[c].slot
           /\ cmd[c].pc \in Critical \ {"spawned"}
           /\ \/ ClearAt(c)
              \/ pidfile[cmd[c].slot] = Nothing
              \/ ~IsOurs(pidfile[cmd[c].slot])
              \/ /\ pidfile[cmd[c].slot] # Nothing
                 /\ Gone(c, pidfile[cmd[c].slot].pid)
                 /\ proc' = Reaped(c, pidfile[cmd[c].slot].pid)
              \/ cmd[c].pc = "grace" /\ ~IsOurs(cmd[c].rec)
              \/ /\ cmd[c].pc \in {"grace", "reaping"}
                 /\ Gone(c, cmd[c].rec.pid)
                 /\ proc' = Reaped(c, cmd[c].rec.pid)
<1> USE DEF ClearAt, At
<1>1. CASE Invoke(c) \/ PickSlot(c) \/ Decline(c) \/ EnterSlot(c)
  BY <1>1, InvokeMoves, PickSlotMoves, DeclineMoves, EnterSlotMoves, RecordsTyped
  DEF PickSlot, CommandShape
<1>2. CASE CheckAlive(c)
  BY <1>2, CheckAliveMoves DEF CheckAlive, SlotReads, Reads, Critical, Launching
<1>3. CASE Terminate(c)
  <2>1. cmd[c].pc \in Critical \ {"spawned"}
    BY <1>3 DEF Terminate, Critical, Terminating
  <2> QED
    BY <1>3, <2>1, TerminateMoves DEF Reads
<1>4. CASE Sigterm(c) \/ Sigkill(c) \/ ReapExpires(c)
  BY <1>4, SignalMoves, ReapExpiresMoves
<1>5. CASE SeenDead(c)
  <2>1. cmd[c].pc \in Critical \ {"spawned"}
    BY <1>5 DEF SeenDead, Critical, Terminating
  <2> QED
    BY <1>5, <2>1, SeenDeadMoves DEF SeenDead
<1>6. CASE GraceExpires(c)
  <2>1. cmd[c].pc = "grace" /\ cmd[c].pc \in Critical \ {"spawned"}
    BY <1>6 DEF GraceExpires, Critical, Terminating
  <2> QED
    BY <1>6, <2>1, GraceExpiresMoves DEF Reads
<1>7. CASE Cleanup(c)
  <2>1. cmd[c].pc = "cleanup" /\ cmd[c].pc \in Critical \ {"spawned"}
    BY <1>7 DEF Cleanup, Critical, Terminating
  <2> QED
    BY <1>7, <2>1, CleanupMoves
<1>8. CASE Track(c) \/ SpawnRefused(c) \/ AbortSpawn(c) \/ BootCrash(c) \/ Confirmed(c)
  BY <1>8, TrackMoves, LaunchEndMoves
<1>9. CASE LifecycleStep(c) \/ Exit(c) \/ Killed(c)
  BY <1>9, CloseBeginsMoves, OpenBeginsMoves, LifecycleMoves, ExitMoves DEF LifecycleStep
<1> QED
  BY <1>1, <1>2, <1>3, <1>4, <1>5, <1>6, <1>7, <1>8, <1>9 DEF CommandStep, SlotStep

LEMMA ClearedCommand ==
    ASSUME Shape, Locks, Records, AllTracked, Cleared,
           NEW c \in Commands, CommandStep(c), ~Spawn(c)
    PROVE  Cleared'
<1>1. /\ Fewer /\ leaked \subseteq leaked'
      /\ \A d \in Commands \ {c} : cmd'[d] = cmd[d]
  BY CommandFewer, CommandMoves DEF Moved
<1>2. \A d \in Commands : cmd[d].pc \in Critical => cmd[d].slot \in Slots
  BY RecordsTyped DEF CommandShape
<1>3. ASSUME NEW d \in Commands \ {c}
      PROVE  /\ ClearAt(d)' => (Present(cmd[d].slot) = {})'
             /\ At(d, "spawned")' => (\A pid \in Present(cmd[d].slot) : Has(d, pid))'
  <2>1. cmd'[d] = cmd[d]
    BY <1>1
  <2>2. ClearAt(d) \/ At(d, "spawned") => cmd[d].slot \in Slots
    BY <1>2 DEF ClearAt, At, Critical, Launching, Terminating
  <2>3. ASSUME ClearAt(d) PROVE (Present(cmd[d].slot) = {})'
    <3>1. Present(cmd[d].slot) = {}
      BY <2>3 DEF Cleared
    <3> QED
      BY <1>1, <2>1, <2>2, <2>3, <3>1, PresentFewer DEF Present
  <2>4. ASSUME At(d, "spawned"), NEW pid \in Pids, (pid \in Present(cmd[d].slot))'
        PROVE  Has(d, pid)'
    <3>1. pid \in Present(cmd[d].slot) /\ proc'[pid].token = proc[pid].token
      BY <1>1, <2>1, <2>2, <2>4, PresentFewer
    <3> QED
      BY <2>1, <2>4, <3>1 DEF Cleared, Has
  <2>5. (ClearAt(d)' => ClearAt(d)) /\ (At(d, "spawned")' => At(d, "spawned"))
    BY <2>1 DEF ClearAt, At
  <2> QED
    BY <2>3, <2>4, <2>5 DEF Present
<1>4. ASSUME ClearAt(c)', NEW pid \in Pids, (pid \in Present(cmd[c].slot))'
      PROVE  FALSE
  <2>1. /\ cmd'[c].slot = cmd[c].slot
        /\ cmd[c].pc \in Critical \ {"spawned"}
        /\ cmd[c].slot \in Slots
    BY <1>2, <1>4, ClearComes
  <2>2. pid \in Present(cmd[c].slot) /\ proc'[pid] # Nothing
    BY <1>1, <1>4, <2>1, PresentFewer
  <2>3. Names(cmd[c].slot, pid)
    BY <2>1, <2>2, OnlyNamed
  <2>4. ~ClearAt(c)
    BY <2>2 DEF Cleared
  <2>5. cmd[c].pc \in {"grace", "reaping"} => cmd[c].rec = pidfile[cmd[c].slot]
    BY DEF Records, Holding
  <2>6. /\ ~(pidfile[cmd[c].slot] = Nothing)
        /\ IsOurs(pidfile[cmd[c].slot])
        /\ pidfile[cmd[c].slot].pid = pid
    BY <2>3 DEF Names
  <2>7. Gone(c, pid) /\ proc' = Reaped(c, pid)
    BY <1>4, <2>4, <2>5, <2>6, ClearComes
  <2>8. proc'[pid] = Nothing
    BY <2>7, ReapedEffect
  <2> QED
    BY <2>2, <2>8
<1>5. ~At(c, "spawned")'
  BY RecordComes DEF At, Holding
<1>6. ClearAt(c)' => (Present(cmd[c].slot) = {})'
  BY <1>4 DEF Present
<1> QED
  BY <1>3, <1>5, <1>6 DEF Cleared

\* A process that appears is the child of a command whose slot was clear, or a
\* stranger to the roster.
LEMMA SpawnKeepsRoster ==
    ASSUME Shape, Locks, AllTracked, Cleared, NEW c \in Commands, Spawn(c)
    PROVE  AllTracked' /\ Cleared'
<1> DEFINE s == cmd[c].slot
<1>1. PICK p \in Pids :
         /\ cmd'[c].rec.pid = p /\ cmd'[c].rec.token = started + 1
         /\ Appears(p, s)
         /\ pidfile' = pidfile /\ leaked' = leaked
  BY SpawnAppears
<1>2. /\ \A d \in Commands \ {c} : cmd'[d] = cmd[d]
      /\ cmd'[c].slot = s /\ cmd'[c].pc = "spawned"
  BY SpawnMoves DEF Moved
<1>3. /\ cmd[c].pc = "spawn" /\ cmd[c].pc \in Critical /\ s \in Slots
      /\ Present(s) = {}
  BY RecordsTyped DEF Spawn, At, Critical, Launching, CommandShape, Cleared, ClearAt
<1> HIDE DEF s
<1>4. \A t \in Slots : \A pid \in Pids : pid \in Present(t)' =>
          \/ t = s /\ pid = p
          \/ pid # p /\ pid \in Present(t)
  BY <1>1 DEF Appears, Present, Answers
<1>5. Has(c, p)'
  BY <1>1 DEF Has, Appears
<1>6. ASSUME NEW pid \in Pids, pid # p
      PROVE  /\ \A d \in Commands \ {c} : Has(d, pid)' = Has(d, pid)
             /\ \A t \in Slots : Names(t, pid) => Names(t, pid)'
  BY <1>1, <1>2, <1>6 DEF Has, Names, IsOurs, Answers, Appears
<1>7. ASSUME NEW t \in Slots, NEW pid \in Pids, pid \in Present(t)'
      PROVE  Names(t, pid)' \/ Spawner(t, pid)'
  <2>1. CASE t = s /\ pid = p
    BY <1>2, <1>5, <2>1 DEF Spawner, At
  <2>2. CASE pid # p /\ pid \in Present(t)
    <3>1. CASE Names(t, pid)
      BY <1>6, <2>2, <3>1
    <3>2. CASE Spawner(t, pid)
      BY <1>2, <1>3, <1>6, <2>2, <3>2 DEF Spawner, At
    <3> QED
      BY <2>2, <3>1, <3>2 DEF AllTracked
  <2> QED
    BY <1>4, <1>7, <2>1, <2>2
<1>8. ASSUME NEW d \in Commands
      PROVE  /\ ClearAt(d)' => (Present(cmd[d].slot) = {})'
             /\ At(d, "spawned")' => (\A pid \in Present(cmd[d].slot) : Has(d, pid))'
  <2>1. CASE d = c
    <3>1. \A pid \in Pids : (pid \in Present(cmd[c].slot))' => pid = p
      BY <1>2, <1>3, <1>4
    <3>2. ~ClearAt(c)'
      BY <1>2 DEF ClearAt, At
    <3> QED
      BY <1>5, <2>1, <3>1, <3>2 DEF Present
  <2>2. CASE d # c
    <3>1. cmd'[d] = cmd[d]
      BY <1>2, <2>2
    <3>2. ASSUME ClearAt(d) \/ At(d, "spawned")
          PROVE  cmd[d].slot \in Slots /\ cmd[d].slot # s
      <4>1. cmd[d].pc \in Critical
        BY <3>2 DEF ClearAt, At, Critical, Launching, Terminating
      <4>2. cmd[d].slot # s
        BY <1>3, <2>2, <4>1, Exclusive DEF s
      <4> QED
        BY <4>1, <4>2, RecordsTyped DEF CommandShape
    <3>3. ASSUME ClearAt(d)' PROVE (Present(cmd[d].slot) = {})'
      <4>1. ClearAt(d) /\ Present(cmd[d].slot) = {}
        BY <3>1, <3>3 DEF ClearAt, At, Cleared
      <4> QED
        BY <1>4, <3>1, <3>2, <4>1 DEF Present
    <3>4. ASSUME At(d, "spawned")', NEW pid \in Pids, (pid \in Present(cmd[d].slot))'
          PROVE  Has(d, pid)'
      <4>1. At(d, "spawned")
        BY <3>1, <3>4 DEF At
      <4>2. pid # p /\ pid \in Present(cmd[d].slot)
        BY <1>4, <3>1, <3>2, <3>4, <4>1
      <4> QED
        BY <1>6, <2>2, <4>1, <4>2 DEF Cleared
    <3> QED
      BY <3>3, <3>4 DEF Present
  <2> QED
    BY <2>1, <2>2
<1> QED
  BY <1>7, <1>8 DEF AllTracked, Cleared, Present

\* A step of the kernel
LEMMA KernelKeepsRoster ==
    ASSUME Shape, AllTracked, Cleared, NEW k \in Pids, KernelStep(k)
    PROVE  AllTracked' /\ Cleared'
<1>1. /\ cmd' = cmd /\ pidfile' = pidfile /\ leaked' = leaked
      /\ Fewer \/ Appears(k, Nothing)
  BY DeathFewer, StrangerAppears DEF KernelStep, Dies
<1>2. \A s \in Slots : \A pid \in Pids : (pid \in Present(s))' =>
         pid \in Present(s) /\ proc'[pid] # Nothing /\ proc'[pid].token = proc[pid].token
  BY <1>1, PresentFewer, Distinct DEF Appears, Present, Answers
<1>3. ASSUME NEW s \in Slots, NEW pid \in Pids, (pid \in Present(s))'
      PROVE  Names(s, pid)' \/ Spawner(s, pid)'
  BY <1>1, <1>2, <1>3 DEF AllTracked, Names, IsOurs, Answers, Spawner, At, Has
<1>4. ASSUME NEW d \in Commands
      PROVE  /\ ClearAt(d)' => (Present(cmd[d].slot) = {})'
             /\ At(d, "spawned")' => (\A pid \in Present(cmd[d].slot) : Has(d, pid))'
  <2>1. ClearAt(d) \/ At(d, "spawned") => cmd[d].slot \in Slots
    BY RecordsTyped DEF ClearAt, At, Critical, Launching, Terminating, CommandShape
  <2>2. ASSUME ClearAt(d) PROVE (Present(cmd[d].slot) = {})'
    <3>1. Present(cmd[d].slot) = {}
      BY <2>2 DEF Cleared
    <3> QED
      BY <1>1, <1>2, <2>1, <2>2, <3>1 DEF Present
  <2>3. ASSUME At(d, "spawned"), NEW pid \in Pids, (pid \in Present(cmd[d].slot))'
        PROVE  Has(d, pid)'
    <3>1. pid \in Present(cmd[d].slot) /\ proc'[pid].token = proc[pid].token
      BY <1>1, <1>2, <2>1, <2>3
    <3> QED
      BY <1>1, <2>3, <3>1 DEF Cleared, Has
  <2> QED
    BY <1>1, <2>2, <2>3 DEF ClearAt, At, Present
<1> QED
  BY <1>3, <1>4 DEF AllTracked, Cleared, Present

-----------------------------------------------------------------------------
(* Roster is an invariant.                                                  *)

LEMMA RosterInit == Init => Roster
<1> SUFFICES ASSUME Init PROVE Roster
  OBVIOUS
<1>1. Shape /\ Locks
  BY ShapeInit, LocksInit
<1>2. \A c \in Commands : cmd[c].pc = "idle"
  BY DEF Init, Idle, Invoked
<1>3. (\A pid \in Pids : ~Answers(pid)) /\ (\A s \in Slots : pidfile[s] = Nothing)
  BY DEF Init, Answers
<1>4. TokensFresh
  BY <1>2, <1>3 DEF TokensFresh, Holding
<1>5. Records
  BY <1>2, <1>3 DEF Records, SlotLive, At, Holding
<1>6. AllTracked /\ Cleared
  BY <1>2, <1>3 DEF AllTracked, Cleared, Present, ClearAt, At
<1> QED
  BY <1>1, <1>4, <1>5, <1>6 DEF Roster

LEMMA RosterStep == Roster /\ [Next]_vars => Roster'
<1> SUFFICES ASSUME Roster, [Next]_vars PROVE Roster'
  OBVIOUS
<1> USE DEF Roster
<1>1. Shape' /\ Locks' /\ TokensFresh' /\ Records'
  BY ShapeStep, LocksStep, TokensStep, RecordsStep
<1>2. ASSUME NEW c \in Commands, CommandStep(c) PROVE AllTracked' /\ Cleared'
  BY <1>2, SpawnKeepsRoster, TrackedCommand, ClearedCommand
<1>3. ASSUME NEW pid \in Pids, KernelStep(pid) PROVE AllTracked' /\ Cleared'
  BY <1>3, KernelKeepsRoster
<1>4. ASSUME UNCHANGED vars PROVE AllTracked' /\ Cleared'
  BY <1>4 DEF vars, AllTracked, Cleared, Names, IsOurs, Answers, Spawner, At, Has, Present,
      ClearAt
<1> QED
  BY <1>1, <1>2, <1>3, <1>4 DEF Next

LEMMA RosterAlways == Spec => []Roster
BY RosterInit, RosterStep, PTL DEF Spec

LEMMA RunningPresent == \A s \in Slots : Running(s) \subseteq Present(s)
BY DEF Running, Present

\* A roster process that runs is always findable: the slot's pidfile names it, or
\* the command that spawned it is about to write that pidfile.
THEOREM AlwaysTracked == Spec => []Tracked
<1>1. ASSUME Roster, NEW s \in Slots, NEW pid \in Running(s), ~Names(s, pid)
      PROVE  \E c \in Commands : /\ At(c, "spawned")
                                 /\ cmd[c].slot = s
                                 /\ cmd[c].rec = [pid |-> pid, token |-> proc[pid].token]
  <2>1. PICK c \in Commands : At(c, "spawned") /\ cmd[c].slot = s /\ Has(c, pid)
    BY <1>1, RunningPresent DEF Roster, AllTracked, Spawner
  <2>2. cmd[c].rec \in Record
    BY <1>1, <2>1, RecordsTyped DEF Roster, At, Holding
  <2>3. cmd[c].rec = [pid |-> pid, token |-> proc[pid].token]
    BY <2>1, <2>2 DEF Has, Record
  <2> QED
    BY <2>1, <2>3
<1>2. Roster => Tracked
  BY <1>1 DEF Tracked
<1> QED
  BY <1>2, RosterAlways, PTL

\* No slot ever runs twice on the host.
THEOREM RunsOnce == Spec => []NoDoubleRun
<1>1. ASSUME Roster, NEW s \in Slots PROVE Cardinality(Running(s)) <= 1
  <2>1. \A pid, q \in Present(s) : pid = q
    <3>1. CASE \E c \in Commands : At(c, "spawned") /\ cmd[c].slot = s
      BY <1>1, <3>1 DEF Roster, Cleared, Has
    <3>2. CASE ~\E c \in Commands : At(c, "spawned") /\ cmd[c].slot = s
      <4>1. \A pid \in Present(s) : Names(s, pid)
        BY <1>1, <3>2 DEF Roster, AllTracked, Spawner
      <4> QED
        BY <4>1 DEF Names
    <3> QED
      BY <3>1, <3>2
  <2>2. CASE Running(s) = {}
    BY <2>2, FS_EmptySet
  <2>3. CASE Running(s) # {}
    <3>1. PICK pid : pid \in Running(s)
      BY <2>3
    <3>2. Running(s) = {pid}
      BY <2>1, <3>1, RunningPresent
    <3> QED
      BY <3>2, FS_Singleton
  <2> QED
    BY <2>2, <2>3
<1>2. Roster => NoDoubleRun
  BY <1>1 DEF NoDoubleRun
<1> QED
  BY <1>2, RosterAlways, PTL

\* While a start confirms its child, the slot's pidfile is the one it wrote.
THEOREM ChildConfirmed == Spec => []ConfirmsOwnChild
<1>1. Roster => ConfirmsOwnChild
  BY DEF Roster, Records, ConfirmsOwnChild, At, Holding
<1> QED
  BY <1>1, RosterAlways, PTL

\* A stop's outcome is true, unless it says that it could not tell.
THEOREM OutcomesHonest == Spec => []OutcomeHonest
<1>1. ASSUME Roster, NEW c \in Commands, ClearAt(c) PROVE Running(cmd[c].slot) = {}
  <2>1. cmd[c].slot \in Slots /\ Present(cmd[c].slot) = {}
    BY <1>1, RecordsTyped
    DEF Roster, Cleared, ClearAt, At, Critical, Launching, Terminating, CommandShape
  <2> QED
    BY <2>1, RunningPresent
<1>2. Roster => OutcomeHonest
  BY <1>1 DEF OutcomeHonest, ClearAt
<1> QED
  BY <1>2, RosterAlways, PTL

-----------------------------------------------------------------------------
(* disco stop's sweep.                                                      *)

\* Nothing of a slot appears but at the spawn of a command in that slot.
LEMMA PresentStep ==
    ASSUME Roster, [Next]_vars, NEW s \in Slots, Present(s) = {},
           \A c \in Commands : Spawn(c) => cmd[c].slot # s
    PROVE  (Present(s) = {})'
<1>1. ASSUME NEW c \in Commands, CommandStep(c), ~Spawn(c) PROVE (Present(s) = {})'
  <2>1. Fewer /\ leaked \subseteq leaked'
    BY <1>1, CommandFewer DEF Roster
  <2> QED
    BY <2>1, PresentFewer DEF Present
<1>2. ASSUME NEW c \in Commands, Spawn(c) PROVE (Present(s) = {})'
  <2>1. PICK p \in Pids : Appears(p, cmd[c].slot) /\ leaked' = leaked
    BY <1>2, SpawnAppears DEF Roster
  <2> QED
    BY <1>2, <2>1 DEF Appears, Present, Answers
<1>3. ASSUME NEW pid \in Pids, Dies(pid) PROVE (Present(s) = {})'
  <2>1. Fewer /\ leaked' = leaked
    BY <1>3, DeathFewer DEF Dies, Roster
  <2> QED
    BY <2>1, PresentFewer DEF Present
<1>4. ASSUME NEW pid \in Pids, StrangerStarts(pid) PROVE (Present(s) = {})'
  <2>1. Appears(pid, Nothing) /\ leaked' = leaked
    BY <1>4, StrangerAppears DEF Roster
  <2> QED
    BY <2>1, Distinct DEF Appears, Present, Answers
<1>5. CASE UNCHANGED vars
  BY <1>5 DEF vars, Present, Answers
<1> QED
  BY <1>1, <1>2, <1>3, <1>4, <1>5 DEF Next, KernelStep

\* How a disco stop comes to have slot s behind it
LEMMA SweepComes ==
    ASSUME Shape, NEW c \in Commands, CommandStep(c), NEW s \in Slots,
           InLifecycle(c)', cmd'[c].op = "close", ~cmd'[c].wedged,
           s \notin cmd'[c].todo, s # cmd'[c].slot
    PROVE  \/ CloseBegins(c) /\ pidfile[s] = Nothing
           \/ /\ InLifecycle(c) /\ cmd[c].op = "close" /\ ~cmd[c].wedged /\ s \notin cmd[c].todo
              /\ s # cmd[c].slot \/ ClearAt(c)
<1>1. cmd'[c].pc \notin {"idle", "ending"}
  BY DEF InLifecycle
<1>2. CASE Invoke(c) \/ Exit(c) \/ Killed(c) \/ OpenBegins(c)
  BY <1>2, InvokeMoves, ExitMoves, OpenBeginsMoves DEF SlotOps
<1>3. CASE CloseBegins(c)
  BY <1>3, CloseBeginsMoves
<1>4. CASE PickSlot(c)
  <2>1. cmd[c].slot = Nothing /\ cmd[c].pc = "next"
    BY <1>4, RecordsTyped DEF PickSlot, At, CommandShape
  <2> QED
    BY <1>4, <2>1, PickSlotMoves, Distinct DEF InLifecycle
<1>5. CASE Decline(c) \/ EnterSlot(c) \/ CheckAlive(c)
  <2>1. cmd[c].op \in SlotOps
    BY <1>5, RecordsTyped
    DEF Decline, EnterSlot, CheckAlive, At, CommandShape, Launching
  <2> QED
    BY <1>5, <2>1, DeclineMoves, EnterSlotMoves, CheckAliveMoves DEF SlotOps
<1>6. CASE Terminate(c) \/ Sigterm(c) \/ Sigkill(c) \/ SeenDead(c) \/ GraceExpires(c)
           \/ ReapExpires(c)
  <2>1. /\ cmd'[c].op = cmd[c].op /\ cmd'[c].slot = cmd[c].slot
        /\ cmd'[c].todo = cmd[c].todo /\ cmd'[c].wedged = cmd[c].wedged
    BY <1>6, TerminateMoves, SignalMoves, SeenDeadMoves, GraceExpiresMoves, ReapExpiresMoves
  <2>2. cmd[c].pc \notin {"idle", "ending"}
    BY <1>6 DEF Terminate, Sigterm, Sigkill, SeenDead, GraceExpires, ReapExpires, At
  <2> QED
    BY <2>1, <2>2 DEF InLifecycle
<1>7. CASE Cleanup(c)
  <2>1. cmd[c].op = "close" /\ cmd[c].pc = "cleanup"
    BY <1>7, CleanupMoves DEF Cleanup, At
  <2> QED
    BY <1>7, <2>1, CleanupMoves DEF InLifecycle, SlotOps, ClearAt, At
<1>8. CASE Spawn(c) \/ Track(c)
  <2>1. cmd[c].op \in SlotOps
    BY <1>8, RecordsTyped DEF Spawn, Track, At, CommandShape, Launching
  <2> QED
    BY <1>8, <2>1, SpawnMoves, TrackMoves DEF SlotOps
<1>9. CASE SpawnRefused(c) \/ AbortSpawn(c) \/ BootCrash(c) \/ Confirmed(c)
  BY <1>9, LaunchEndMoves DEF SlotOps
<1>10. CASE CloseEnds(c) \/ SubstrateUp(c) \/ OpenEnds(c)
  <2>1. cmd'[c].op = cmd[c].op /\ (cmd'[c].pc = "ending" \/ cmd'[c].op = "open")
    BY <1>10, LifecycleMoves
  <2> QED
    BY <1>1, <2>1
<1> QED
  BY <1>2, <1>3, <1>4, <1>5, <1>6, <1>7, <1>8, <1>9, <1>10
  DEF CommandStep, SlotStep, LifecycleStep

LEMMA SweepStep == Roster /\ Sweep /\ [Next]_vars => Sweep'
<1> SUFFICES ASSUME Roster, Sweep, [Next]_vars,
                    NEW c \in Commands, NEW s \in Slots,
                    InLifecycle(c)', cmd'[c].op = "close", ~cmd'[c].wedged,
                    s \notin cmd'[c].todo, s # cmd'[c].slot
             PROVE  (Present(s) = {})'
  BY DEF Sweep
<1>1. CASE CommandStep(c)
  <2>1. \A d \in Commands \ {c} : cmd'[d] = cmd[d]
    BY <1>1, CommandMoves DEF Roster, Moved
  <2>2. CASE CloseBegins(c) /\ pidfile[s] = Nothing
    <3>1. RosterFree /\ ~Spawn(c)
      BY <2>2 DEF CloseBegins, Spawn, At
    <3>2. ~\E d \in Commands : At(d, "spawned")
      BY <3>1, RecordsTyped
      DEF Roster, RosterFree, InSlot, At, Critical, Launching, CommandShape
    <3>3. Present(s) = {}
      BY <2>2, <3>2 DEF Roster, AllTracked, Names, Spawner
    <3>4. Fewer /\ leaked \subseteq leaked'
      BY <1>1, <3>1, CommandFewer DEF Roster
    <3> QED
      BY <3>3, <3>4, PresentFewer DEF Present
  <2>3. CASE /\ InLifecycle(c) /\ cmd[c].op = "close" /\ ~cmd[c].wedged /\ s \notin cmd[c].todo
             /\ s # cmd[c].slot \/ ClearAt(c)
    <3>1. ~Spawn(c)
      BY <2>3, RecordsTyped DEF Roster, Spawn, At, CommandShape, Launching, SlotOps
    <3>2. Present(s) = {}
      BY <2>3 DEF Sweep, Roster, Cleared
    <3>3. Fewer /\ leaked \subseteq leaked'
      BY <1>1, <3>1, CommandFewer DEF Roster
    <3> QED
      BY <3>2, <3>3, PresentFewer DEF Present
  <2> QED
    BY <1>1, <2>2, <2>3, SweepComes DEF Roster
<1>2. CASE ~CommandStep(c)
  <2>1. cmd'[c] = cmd[c]
    BY <1>2, CommandMoves DEF Next, KernelStep, Dies, StrangerStarts, vars, Roster, Moved
  <2>2. Present(s) = {} /\ InLifecycle(c)
    BY <2>1 DEF Sweep, InLifecycle
  <2>3. \A d \in Commands : ~Spawn(d)
    BY <1>2, <2>2, RecordsTyped
    DEF Roster, Locks, InSlot, Spawn, At, Critical, Launching, CommandShape,
        CommandStep, SlotStep
  <2> QED
    BY <2>2, <2>3, PresentStep
<1> QED
  BY <1>1, <1>2

\* When disco stop brings the substrate down having met no survivor, nothing of the
\* roster runs.
THEOREM StopSweepsClean == Spec => []SweptClean
<1>1. Init => Sweep
  BY DEF Init, Sweep, InLifecycle, Idle, Invoked
<1>2. Spec => []Sweep
  BY <1>1, SweepStep, RosterAlways, PTL DEF Spec
<1>3. ASSUME Roster, Sweep, NEW c \in Commands, At(c, "down"), ~cmd[c].wedged, NEW s \in Slots
      PROVE  Running(s) = {}
  <2>1. cmd[c].op = "close" /\ cmd[c].todo = {} /\ cmd[c].slot = Nothing /\ s # Nothing
    BY <1>3, RecordsTyped, Distinct DEF Roster, At, CommandShape
  <2>2. Present(s) = {}
    BY <1>3, <2>1 DEF Sweep, InLifecycle, At
  <2> QED
    BY <2>2, RunningPresent
<1>4. Roster /\ Sweep => SweptClean
  BY <1>3 DEF SweptClean
<1> QED
  BY <1>2, <1>4, RosterAlways, PTL

-----------------------------------------------------------------------------
(* Signals.                                                                 *)

\* Only the two signals add to what a process was hit by.
LEMMA HitsKept ==
    ASSUME Shape, NEW c \in Commands, CommandStep(c), ~Sigterm(c), ~Sigkill(c), ~Spawn(c)
    PROVE  \A q \in Pids : proc'[q] # Nothing => proc'[q].hit = proc[q].hit
<1>1. ASSUME NEW pid \in Pids, proc' = Reaped(c, pid)
      PROVE  \A q \in Pids : proc'[q] # Nothing => proc'[q].hit = proc[q].hit
  BY <1>1, ReapedEffect
<1>2. CASE Terminate(c)
  <2>1. pidfile[cmd[c].slot] # Nothing => pidfile[cmd[c].slot].pid \in Pids
    BY <1>2, RecordsTyped DEF Terminate, At, CommandShape, Critical, Terminating, Record
  <2>2. \/ proc' = proc
        \/ /\ pidfile[cmd[c].slot] # Nothing
           /\ proc' = Reaped(c, pidfile[cmd[c].slot].pid)
    BY <1>2, TerminateMoves
  <2> QED
    BY <1>1, <2>1, <2>2
<1>3. CASE SeenDead(c) \/ BootCrash(c)
  <2>1. cmd[c].rec.pid \in Pids /\ proc' = Reaped(c, cmd[c].rec.pid)
    BY <1>3, RecordsTyped DEF Holding, SeenDead, BootCrash, At
  <2> QED
    BY <1>1, <2>1
<1>4. CASE AbortSpawn(c)
  <2>1. \A q \in Pids : proc'[q] \in {proc[q], Nothing}
    BY <1>4 DEF AbortSpawn, Shape, TypeOK
  <2> QED
    BY <2>1
<1>5. CASE Exit(c) \/ Killed(c)
  BY <1>5, OrphanedEffect DEF Exit, Killed
<1>6. CASE proc' = proc
  BY <1>6
<1> QED
  BY <1>2, <1>3, <1>4, <1>5, <1>6
  DEF CommandStep, SlotStep, LifecycleStep, Invoke, PickSlot, Decline, EnterSlot, CheckAlive,
      GraceExpires, ReapExpires, Cleanup, SpawnRefused, Track, Confirmed,
      CloseBegins, CloseEnds, OpenBegins, SubstrateUp, OpenEnds

\* A process hit on a slot's behalf is that slot's own.
HitsOwn == \A pid \in Pids : Answers(pid) => proc[pid].hit \subseteq {proc[pid].owner}

\* A signal on its way reaches the process that was identified, or nobody.
Aimed ==
    \A c \in Commands :
        cmd[c].pc \in {"sigterm", "sigkill"} /\ Answers(cmd[c].rec.pid) => IsOurs(cmd[c].rec)

LEMMA HitsOwnStep == Roster /\ HitsOwn /\ Aimed /\ [Next]_vars => HitsOwn'
<1> SUFFICES ASSUME Roster, HitsOwn, Aimed, [Next]_vars PROVE HitsOwn'
  OBVIOUS
<1> USE DEF Roster
<1>1. ASSUME NEW c \in Commands, Sigterm(c) \/ Sigkill(c) PROVE HitsOwn'
  <2> DEFINE p == cmd[c].rec.pid
             s == cmd[c].slot
  <2>1. /\ p \in Pids /\ s \in Slots /\ cmd[c].pc \in {"sigterm", "sigkill"}
        /\ proc' = Signalled(p, s)
    BY <1>1, SignalMoves, RecordsTyped DEF Holding
  <2>2. /\ \A q \in Pids : q # p \/ ~Answers(p) => proc'[q] = proc[q]
        /\ Answers(p) => proc'[p] = [proc[p] EXCEPT !.hit = @ \cup {s}]
    BY <2>1, SignalledEffect
  <2>3. ASSUME Answers(p) PROVE proc[p].owner = s /\ proc[p] \in Process
    <3>1. IsOurs(cmd[c].rec) /\ pidfile[s] = cmd[c].rec
      BY <2>1, <2>3 DEF Aimed, Records, Holding
    <3>2. pidfile[s] # Nothing
      BY <2>1, <3>1, RecordsTyped, Distinct DEF Holding
    <3> QED
      BY <2>1, <2>3, <3>1, <3>2 DEF Records, SlotLive, Shape, TypeOK, Answers
  <2>4. ASSUME Answers(p) PROVE proc'[p].hit = proc[p].hit \cup {s} /\ proc'[p].owner = s
    BY <2>2, <2>3, <2>4 DEF Process
  <2>5. ASSUME NEW q \in Pids, proc'[q] # Nothing PROVE proc'[q].hit \subseteq {proc'[q].owner}
    <3>1. CASE q = p /\ Answers(p)
      BY <2>1, <2>3, <2>4, <3>1 DEF HitsOwn
    <3>2. CASE q # p \/ ~Answers(p)
      BY <2>2, <2>5, <3>2 DEF HitsOwn, Answers
    <3> QED
      BY <3>1, <3>2
  <2> QED
    BY <2>5 DEF HitsOwn, Answers
<1>2. ASSUME NEW c \in Commands, CommandStep(c), ~Sigterm(c), ~Sigkill(c), ~Spawn(c)
      PROVE  HitsOwn'
  BY <1>2, HitsKept, CommandFewer DEF HitsOwn, Fewer, Answers
<1>3. ASSUME NEW pid \in Pids, NEW owner, Appears(pid, owner), proc'[pid].hit = {}
      PROVE  HitsOwn'
  BY <1>3 DEF HitsOwn, Appears, Answers
<1>4. ASSUME NEW c \in Commands, Spawn(c) PROVE HitsOwn'
  BY <1>3, <1>4, SpawnAppears
<1>5. ASSUME NEW pid \in Pids, StrangerStarts(pid) PROVE HitsOwn'
  BY <1>3, <1>5, StrangerAppears
<1>6. ASSUME NEW pid \in Pids, Dies(pid) PROVE HitsOwn'
  <2>1. proc[pid] \in Process /\ proc \in [Pids -> Process \cup {Nothing}]
    BY <1>6 DEF Dies, Answers, Shape, TypeOK
  <2>2. CASE proc' = [proc EXCEPT ![pid] = Nothing]
    BY <2>1, <2>2 DEF HitsOwn, Answers
  <2>3. CASE proc' = [proc EXCEPT ![pid].runs = FALSE]
    <3>1. /\ proc'[pid].owner = proc[pid].owner
          /\ proc'[pid].hit = proc[pid].hit
          /\ \A q \in Pids \ {pid} : proc'[q] = proc[q]
      BY <2>1, <2>3 DEF Process
    <3> QED
      BY <1>6, <2>1, <3>1 DEF HitsOwn, Answers, Dies
  <2> QED
    BY <1>6, <2>2, <2>3 DEF Dies
<1>7. CASE UNCHANGED vars
  BY <1>7 DEF vars, HitsOwn, Answers
<1> QED
  BY <1>1, <1>2, <1>4, <1>5, <1>6, <1>7 DEF Next, KernelStep

\* Where a signal about to be sent comes from
LEMMA SignalComes ==
    ASSUME Shape, NEW c \in Commands, CommandStep(c), cmd'[c].pc \in {"sigterm", "sigkill"}
    PROVE  /\ IsOurs(cmd'[c].rec)
           /\ cmd'[c].rec.pid \in Pids
           /\ ~Spawn(c)
<1>1. ~Spawn(c)
  BY SpawnMoves
<1>2. cmd'[c].pc \in Holding
  BY DEF Holding
<1>3. Terminate(c) \/ GraceExpires(c)
  <2>1. CASE Invoke(c) \/ PickSlot(c) \/ Decline(c) \/ EnterSlot(c) \/ CheckAlive(c)
    BY <2>1, InvokeMoves, PickSlotMoves, DeclineMoves, EnterSlotMoves, CheckAliveMoves
    DEF PickSlot
  <2>2. CASE Sigterm(c) \/ Sigkill(c) \/ SeenDead(c) \/ ReapExpires(c) \/ Cleanup(c)
    BY <2>2, SignalMoves, SeenDeadMoves, ReapExpiresMoves, CleanupMoves
  <2>3. CASE Track(c) \/ SpawnRefused(c) \/ AbortSpawn(c) \/ BootCrash(c) \/ Confirmed(c)
    BY <2>3, TrackMoves, LaunchEndMoves
  <2>4. CASE LifecycleStep(c) \/ Exit(c) \/ Killed(c)
    BY <2>4, CloseBeginsMoves, OpenBeginsMoves, LifecycleMoves, ExitMoves DEF LifecycleStep
  <2> QED
    BY <1>1, <2>1, <2>2, <2>3, <2>4 DEF CommandStep, SlotStep
<1>4. IsOurs(cmd'[c].rec)
  BY <1>3, TerminateMoves, GraceExpiresMoves DEF Reads
<1>5. cmd'[c].rec.pid \in Pids
  BY <1>2, CommandMoves, Distinct DEF Moved, CommandShape
<1> QED
  BY <1>1, <1>4, <1>5

LEMMA AimedStep ==
    ASSUME ~FastRecycle
    PROVE  Roster /\ Aimed /\ [Next]_vars => Aimed'
<1> SUFFICES ASSUME Roster, Aimed, [Next]_vars,
                    NEW d \in Commands, cmd'[d].pc \in {"sigterm", "sigkill"},
                    proc'[cmd'[d].rec.pid] # Nothing
             PROVE  proc'[cmd'[d].rec.pid].token = cmd'[d].rec.token
  BY DEF Aimed, IsOurs, Answers
<1> USE DEF Roster
<1>1. CASE CommandStep(d)
  <2>1. IsOurs(cmd'[d].rec) /\ cmd'[d].rec.pid \in Pids /\ ~Spawn(d)
    BY <1>1, SignalComes
  <2> QED
    BY <1>1, <2>1, CommandFewer DEF Fewer, IsOurs
<1>2. CASE ~CommandStep(d)
  <2>1. cmd'[d] = cmd[d]
    BY <1>2, CommandMoves DEF Next, KernelStep, Dies, StrangerStarts, vars, Moved
  <2>2. cmd[d].rec.pid \in Pids /\ cmd[d].pc \in {"sigterm", "sigkill"}
    BY <2>1, RecordsTyped DEF Holding
  <2>3. CASE Fewer
    BY <2>1, <2>2, <2>3 DEF Fewer, Aimed, IsOurs, Answers
  <2>4. ASSUME NEW pid \in Pids, Recyclable(pid), NEW owner, Appears(pid, owner)
        PROVE  proc'[cmd'[d].rec.pid].token = cmd'[d].rec.token
    <3>1. cmd[d].rec.pid # pid
      BY <2>2, <2>4 DEF Recyclable
    <3> QED
      BY <2>1, <2>2, <2>4, <3>1 DEF Appears, Aimed, IsOurs, Answers
  <2>5. ASSUME NEW c \in Commands, CommandStep(c)
        PROVE  proc'[cmd'[d].rec.pid].token = cmd'[d].rec.token
    <3>1. CASE Spawn(c)
      BY <2>4, <3>1, SpawnAppears, SpawnMoves
    <3>2. CASE ~Spawn(c)
      BY <2>3, <2>5, <3>2, CommandFewer
    <3> QED
      BY <3>1, <3>2
  <2>6. ASSUME NEW pid \in Pids, KernelStep(pid)
        PROVE  proc'[cmd'[d].rec.pid].token = cmd'[d].rec.token
    <3>1. CASE Dies(pid)
      BY <2>3, <3>1, DeathFewer
    <3>2. CASE StrangerStarts(pid)
      BY <2>4, <3>2, StrangerAppears DEF StrangerStarts
    <3> QED
      BY <2>6, <3>1, <3>2 DEF KernelStep
  <2>7. CASE UNCHANGED vars
    BY <2>1, <2>2, <2>7 DEF vars, Aimed, IsOurs, Answers
  <2> QED
    BY <2>5, <2>6, <2>7 DEF Next
<1> QED
  BY <1>1, <1>2

\* Unless a pid is recycled between two adjacent system calls, nothing but a slot's
\* own process is ever signalled on its behalf.
THEOREM SignalsOwn == ~FastRecycle => (Spec => []OnlyOwnSignalled)
<1> SUFFICES ASSUME ~FastRecycle PROVE Spec => []OnlyOwnSignalled
  OBVIOUS
<1>1. Init => HitsOwn /\ Aimed
  BY DEF Init, HitsOwn, Aimed, Answers, Idle, Invoked
<1>2. Roster /\ HitsOwn /\ Aimed /\ [Next]_vars => (HitsOwn /\ Aimed)'
  BY HitsOwnStep, AimedStep
<1>3. HitsOwn => OnlyOwnSignalled
  BY DEF HitsOwn, OnlyOwnSignalled
<1> QED
  BY <1>1, <1>2, <1>3, RosterAlways, PTL DEF Spec
=============================================================================
