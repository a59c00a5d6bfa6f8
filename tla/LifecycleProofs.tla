---------------------------- MODULE LifecycleProofs ----------------------------
(***************************************************************************)
(* What disco start, stop and bridge restart promise, for any number of     *)
(* commands, wizards and bridge processes: one supervisor, an "open" that   *)
(* is true of the bridge that runs, and a "closed" with nothing left behind.*)
(***************************************************************************)
EXTENDS Onboarding, TLAPS

(* lifecycle_lock: whoever is at work holds it. *)
Exclusive == \A c \in Commands : pc[c] # "idle" => lock = c

(* Where a start stands that has launched a supervisor and not come to its end. *)
Launched == {"waiting", "priming", "awaitFirst", "tearing"}

(* A supervisor that still boots belongs to a start at work, or to one that gave it up. *)
BootingOwned ==
  ours = "booting" => abandoned \/ \E c \in Commands : pc[c] \in Launched

(* Where a command relies on what its first probe said, no supervisor is there, but for one that *)
(* was left booting then, or that the probe missed.                                              *)
ProbeHolds ==
  \A c \in Commands :
    pc[c] \in {"broker", "spawning", "sweeping"} /\ ours # "down" => abandoned \/ unheard

(* The supervisor's verdict and the beat are about the bridge that runs, but for a beat that was *)
(* fresh when it was born.                                                                       *)
BeatTold == ready \/ beat.fresh => beat.pid = bridge.pid \/ inherited

(* A supervisor that answers has started a bridge. *)
BridgeBorn == ours = "up" => bridge.pid # 0

LifecycleInv ==
  TypeOK /\ Exclusive /\ BootingOwned /\ ProbeHolds /\ BeatTold /\ BridgeBorn

-----------------------------------------------------------------------------
(* Types. *)

LEMMA EndsTyped ==
    ASSUME TypeOK, NEW c \in Commands, NEW r \in Replies, Ends(c, r)
    PROVE  /\ lock' \in Commands \union {Nobody}
           /\ pc' \in [Commands -> Stages]
           /\ verb' \in [Commands -> Verbs]
           /\ before' \in [Commands -> 0..MaxPids]
           /\ reply' \in Replies
           /\ asked' \in 0..MaxPids
           /\ abandoned' \in BOOLEAN
<1>1. 0 \in 0..MaxPids
  BY LifecycleAssumption
<1> QED
  BY <1>1 DEF TypeOK, Ends, Stages, Verbs, Replies

LEMMA GotoTyped ==
    ASSUME TypeOK, NEW c \in Commands, NEW stage \in Stages, Goto(c, stage)
    PROVE  /\ lock' \in Commands \union {Nobody}
           /\ pc' \in [Commands -> Stages]
           /\ verb' \in [Commands -> Verbs]
           /\ reply' \in Replies
           /\ asked' \in 0..MaxPids
           /\ abandoned' \in BOOLEAN
  BY DEF TypeOK, Goto

LEMMA PortTyped ==
    ASSUME TypeOK, PortDown
    PROVE  /\ ours' \in {"down", "booting", "up"}
           /\ other' \in {"down", "up"}
           /\ bridge' \in [pid : 0..MaxPids,
                       phase : {"none", "leaving", "booting", "serving", "sick"}]
           /\ ready' \in BOOLEAN
           /\ UNCHANGED <<beat, inherited>>
  BY DEF TypeOK, PortDown, slot

LEMMA BirthTyped ==
    ASSUME TypeOK, Birth
    PROVE  /\ bridge' \in [pid : 0..MaxPids,
                       phase : {"none", "leaving", "booting", "serving", "sick"}]
           /\ ready' \in BOOLEAN
           /\ inherited' \in BOOLEAN
           /\ UNCHANGED beat
<1>1. bridge.pid + 1 \in 0..MaxPids
  BY LifecycleAssumption DEF TypeOK, Birth
<1> QED
  BY <1>1 DEF TypeOK, Birth

LEMMA TypePreserved ==
    ASSUME TypeOK, [Next]_vars
    PROVE  TypeOK'
<1>1. ASSUME NEW c \in Commands, NEW v \in Verbs, Begin(c, v)
      PROVE  TypeOK'
  BY <1>1, LifecycleAssumption
  DEF Begin, LockFree, vars, commands, slot, gate, TypeOK, Verbs, Stages, Replies
<1>2. ASSUME NEW c \in Commands, Probe(c)
      PROVE  TypeOK'
  BY <1>2, LifecycleAssumption, EndsTyped, GotoTyped
  DEF Probe, Answers, Verdicts, Misses, vars, commands, slot, gate, TypeOK, Verbs, Stages, Replies
<1>3. ASSUME NEW c \in Commands, Check(c)
      PROVE  TypeOK'
  BY <1>3, LifecycleAssumption, EndsTyped, GotoTyped
  DEF Check, vars, commands, slot, gate, TypeOK, Verbs, Stages, Replies
<1>4. ASSUME NEW c \in Commands, ReadPid(c)
      PROVE  TypeOK'
  BY <1>4, LifecycleAssumption, GotoTyped
  DEF ReadPid, vars, commands, slot, gate, TypeOK, Verbs, Stages, Replies
<1>5. ASSUME NEW c \in Commands, Restart(c)
      PROVE  TypeOK'
  BY <1>5, LifecycleAssumption, EndsTyped, GotoTyped
  DEF Restart, Answers, Bounced, vars, commands, slot, gate, TypeOK, Verbs, Stages, Replies
<1>6. ASSUME NEW c \in Commands, AwaitReady(c)
      PROVE  TypeOK'
  BY <1>6, LifecycleAssumption, EndsTyped
  DEF AwaitReady, Answers, NewInstance, vars, commands, slot, gate, TypeOK, Verbs, Stages, Replies
<1>7. ASSUME NEW c \in Commands, AwaitTimesOut(c)
      PROVE  TypeOK'
  BY <1>7, LifecycleAssumption, EndsTyped, GotoTyped
  DEF AwaitTimesOut, vars, commands, slot, gate, TypeOK, Verbs, Stages, Replies
<1>8. ASSUME NEW c \in Commands, ProbeBroker(c)
      PROVE  TypeOK'
  BY <1>8, LifecycleAssumption, EndsTyped, GotoTyped
  DEF ProbeBroker, vars, commands, slot, gate, TypeOK, Verbs, Stages, Replies
<1>9. ASSUME NEW c \in Commands, Spawn(c)
      PROVE  TypeOK'
  BY <1>9, LifecycleAssumption, GotoTyped
  DEF Spawn, vars, commands, slot, gate, TypeOK, Verbs, Stages, Replies
<1>10. ASSUME NEW c \in Commands, AwaitUp(c)
      PROVE  TypeOK'
  BY <1>10, LifecycleAssumption, GotoTyped
  DEF AwaitUp, Answers, vars, commands, slot, gate, TypeOK, Verbs, Stages, Replies
<1>11. ASSUME NEW c \in Commands, AwaitUpTimesOut(c)
      PROVE  TypeOK'
  BY <1>11, LifecycleAssumption, EndsTyped
  DEF AwaitUpTimesOut, Answers, vars, commands, slot, gate, TypeOK, Verbs, Stages, Replies
<1>12. ASSUME NEW c \in Commands, Prime(c)
      PROVE  TypeOK'
  BY <1>12, LifecycleAssumption, GotoTyped
  DEF Prime, Answers, vars, commands, slot, gate, TypeOK, Verbs, Stages, Replies
<1>13. ASSUME NEW c \in Commands, TearDown(c)
      PROVE  TypeOK'
  BY <1>13, LifecycleAssumption, EndsTyped, PortTyped
  DEF TearDown, vars, commands, slot, gate, TypeOK, Verbs, Stages, Replies
<1>14. ASSUME NEW c \in Commands, Sweep(c)
      PROVE  TypeOK'
  BY <1>14, LifecycleAssumption, EndsTyped
  DEF Sweep, vars, commands, slot, gate, TypeOK, Verbs, Stages, Replies
<1>15. ASSUME NEW c \in Commands, Down(c)
      PROVE  TypeOK'
  BY <1>15, LifecycleAssumption, EndsTyped, GotoTyped, PortTyped
  DEF Down, vars, commands, slot, gate, TypeOK, Verbs, Stages, Replies
<1>16. ASSUME NEW c \in Commands, Reprobe(c)
      PROVE  TypeOK'
  BY <1>16, LifecycleAssumption, EndsTyped
  DEF Reprobe, Answers, Verdicts, Misses, vars, commands, slot, gate, TypeOK, Verbs, Stages, Replies
<1>17. ASSUME NEW c \in Commands, Killed(c)
      PROVE  TypeOK'
  BY <1>17, LifecycleAssumption, EndsTyped
  DEF Killed, vars, commands, slot, gate, TypeOK, Verbs, Stages, Replies
<1>18. CASE OursAnswers
  BY <1>18, LifecycleAssumption, BirthTyped
  DEF OursAnswers, vars, commands, slot, gate, TypeOK, Verbs, Stages, Replies
<1>19. CASE OursDies
  BY <1>19, LifecycleAssumption
  DEF OursDies, vars, commands, slot, gate, TypeOK, Verbs, Stages, Replies
<1>20. CASE OtherStarts
  BY <1>20, LifecycleAssumption
  DEF OtherStarts, Answers, vars, commands, slot, gate, TypeOK, Verbs, Stages, Replies
<1>21. CASE OtherStops
  BY <1>21, LifecycleAssumption
  DEF OtherStops, vars, commands, slot, gate, TypeOK, Verbs, Stages, Replies
<1>22. CASE Respawn
  BY <1>22, LifecycleAssumption, BirthTyped
  DEF Respawn, vars, commands, slot, gate, TypeOK, Verbs, Stages, Replies
<1>23. CASE Healthcheck
  BY <1>23, LifecycleAssumption
  DEF Healthcheck, vars, commands, slot, gate, TypeOK, Verbs, Stages, Replies
<1>24. CASE Serve
  BY <1>24, LifecycleAssumption
  DEF Serve, Written, vars, commands, slot, gate, TypeOK, Verbs, Stages, Replies
<1>25. CASE Sicken
  BY <1>25, LifecycleAssumption
  DEF Sicken, vars, commands, slot, gate, TypeOK, Verbs, Stages, Replies
<1>26. CASE Age
  <2>1. beat' \in [pid : 0..MaxPids, fresh : BOOLEAN]
    BY <1>26 DEF Age, TypeOK
  <2> QED
    BY <1>26, <2>1 DEF Age, vars, commands, slot, gate, TypeOK
<1>27. CASE UNCHANGED vars
  BY <1>27 DEF vars, commands, slot, gate, TypeOK, Verbs, Stages, Replies
<1> QED
  BY <1>1, <1>2, <1>3, <1>4, <1>5, <1>6, <1>7, <1>8, <1>9, <1>10, <1>11, <1>12, <1>13, <1>14,
     <1>15, <1>16, <1>17, <1>18, <1>19, <1>20, <1>21, <1>22, <1>23, <1>24, <1>25, <1>26, <1>27
  DEF Next

LEMMA ExclusivePreserved ==
    ASSUME LifecycleInv, [Next]_vars
    PROVE  Exclusive'
<1>1. ASSUME NEW c \in Commands, NEW v \in Verbs, Begin(c, v)
      PROVE  Exclusive'
  BY <1>1, NobodyAssumption
  DEF Begin, LockFree, vars, commands, slot, LifecycleInv, TypeOK, Exclusive
<1>2. ASSUME NEW c \in Commands, Probe(c)
      PROVE  Exclusive'
  BY <1>2, NobodyAssumption
  DEF Probe, Ends, Goto, Answers, Verdicts, Misses, vars, commands, slot, LifecycleInv, TypeOK,
      Exclusive
<1>3. ASSUME NEW c \in Commands, Check(c)
      PROVE  Exclusive'
  BY <1>3, NobodyAssumption
  DEF Check, Ends, Goto, vars, commands, slot, LifecycleInv, TypeOK, Exclusive
<1>4. ASSUME NEW c \in Commands, ReadPid(c)
      PROVE  Exclusive'
  BY <1>4, NobodyAssumption
  DEF ReadPid, Goto, vars, commands, slot, LifecycleInv, TypeOK, Exclusive
<1>5. ASSUME NEW c \in Commands, Restart(c)
      PROVE  Exclusive'
  BY <1>5, NobodyAssumption
  DEF Restart, Ends, Goto, Answers, Bounced, vars, commands, slot, LifecycleInv, TypeOK, Exclusive
<1>6. ASSUME NEW c \in Commands, AwaitReady(c)
      PROVE  Exclusive'
  BY <1>6, NobodyAssumption
  DEF AwaitReady, Ends, Answers, NewInstance, vars, commands, slot, LifecycleInv, TypeOK,
      Exclusive
<1>7. ASSUME NEW c \in Commands, AwaitTimesOut(c)
      PROVE  Exclusive'
  BY <1>7, NobodyAssumption
  DEF AwaitTimesOut, Ends, Goto, vars, commands, slot, LifecycleInv, TypeOK, Exclusive
<1>8. ASSUME NEW c \in Commands, ProbeBroker(c)
      PROVE  Exclusive'
  BY <1>8, NobodyAssumption
  DEF ProbeBroker, Ends, Goto, vars, commands, slot, LifecycleInv, TypeOK, Exclusive
<1>9. ASSUME NEW c \in Commands, Spawn(c)
      PROVE  Exclusive'
  BY <1>9, NobodyAssumption DEF Spawn, Goto, vars, commands, slot, LifecycleInv, TypeOK, Exclusive
<1>10. ASSUME NEW c \in Commands, AwaitUp(c)
      PROVE  Exclusive'
  BY <1>10, NobodyAssumption
  DEF AwaitUp, Goto, Answers, vars, commands, slot, LifecycleInv, TypeOK, Exclusive
<1>11. ASSUME NEW c \in Commands, AwaitUpTimesOut(c)
      PROVE  Exclusive'
  BY <1>11, NobodyAssumption
  DEF AwaitUpTimesOut, Ends, Answers, vars, commands, slot, LifecycleInv, TypeOK, Exclusive
<1>12. ASSUME NEW c \in Commands, Prime(c)
      PROVE  Exclusive'
  BY <1>12, NobodyAssumption
  DEF Prime, Goto, Answers, vars, commands, slot, LifecycleInv, TypeOK, Exclusive
<1>13. ASSUME NEW c \in Commands, TearDown(c)
      PROVE  Exclusive'
  BY <1>13, NobodyAssumption
  DEF TearDown, Ends, PortDown, vars, commands, slot, LifecycleInv, TypeOK, Exclusive
<1>14. ASSUME NEW c \in Commands, Sweep(c)
      PROVE  Exclusive'
  BY <1>14, NobodyAssumption
  DEF Sweep, Ends, vars, commands, slot, LifecycleInv, TypeOK, Exclusive
<1>15. ASSUME NEW c \in Commands, Down(c)
      PROVE  Exclusive'
  BY <1>15, NobodyAssumption
  DEF Down, Ends, Goto, PortDown, vars, commands, slot, LifecycleInv, TypeOK, Exclusive
<1>16. ASSUME NEW c \in Commands, Reprobe(c)
      PROVE  Exclusive'
  BY <1>16, NobodyAssumption
  DEF Reprobe, Ends, Answers, Verdicts, Misses, vars, commands, slot, LifecycleInv, TypeOK,
      Exclusive
<1>17. ASSUME NEW c \in Commands, Killed(c)
      PROVE  Exclusive'
  BY <1>17, NobodyAssumption
  DEF Killed, Ends, vars, commands, slot, LifecycleInv, TypeOK, Exclusive
<1>18. CASE OursAnswers
  BY <1>18, NobodyAssumption
  DEF OursAnswers, Birth, vars, commands, slot, LifecycleInv, TypeOK, Exclusive
<1>19. CASE OursDies
  BY <1>19, NobodyAssumption DEF OursDies, vars, commands, slot, LifecycleInv, TypeOK, Exclusive
<1>20. CASE OtherStarts
  BY <1>20, NobodyAssumption
  DEF OtherStarts, Answers, vars, commands, slot, LifecycleInv, TypeOK, Exclusive
<1>21. CASE OtherStops
  BY <1>21, NobodyAssumption DEF OtherStops, vars, commands, slot, LifecycleInv, TypeOK, Exclusive
<1>22. CASE Respawn
  BY <1>22, NobodyAssumption
  DEF Respawn, Birth, vars, commands, slot, LifecycleInv, TypeOK, Exclusive
<1>23. CASE Healthcheck
  BY <1>23, NobodyAssumption
  DEF Healthcheck, vars, commands, slot, LifecycleInv, TypeOK, Exclusive
<1>24. CASE Serve
  BY <1>24, NobodyAssumption
  DEF Serve, Written, vars, commands, slot, LifecycleInv, TypeOK, Exclusive
<1>25. CASE Sicken
  BY <1>25, NobodyAssumption DEF Sicken, vars, commands, slot, LifecycleInv, TypeOK, Exclusive
<1>26. CASE Age
  BY <1>26, NobodyAssumption DEF Age, vars, commands, slot, LifecycleInv, TypeOK, Exclusive
<1>27. CASE UNCHANGED vars
  BY <1>27 DEF vars, commands, slot, LifecycleInv, TypeOK, Exclusive
<1> QED
  BY <1>1, <1>2, <1>3, <1>4, <1>5, <1>6, <1>7, <1>8, <1>9, <1>10, <1>11, <1>12, <1>13, <1>14,
     <1>15, <1>16, <1>17, <1>18, <1>19, <1>20, <1>21, <1>22, <1>23, <1>24, <1>25, <1>26, <1>27
  DEF Next

LEMMA BootingOwnedPreserved ==
    ASSUME LifecycleInv, [Next]_vars
    PROVE  BootingOwned'
<1>1. ASSUME NEW c \in Commands, NEW v \in Verbs, Begin(c, v)
      PROVE  BootingOwned'
  BY <1>1, NobodyAssumption
  DEF Begin, LockFree, vars, commands, slot, LifecycleInv, TypeOK, BootingOwned, Launched,
      Exclusive
<1>2. ASSUME NEW c \in Commands, Probe(c)
      PROVE  BootingOwned'
  BY <1>2, NobodyAssumption
  DEF Probe, Ends, Goto, Answers, Verdicts, Misses, vars, commands, slot, LifecycleInv, TypeOK,
      BootingOwned, Launched, Exclusive
<1>3. ASSUME NEW c \in Commands, Check(c)
      PROVE  BootingOwned'
  BY <1>3, NobodyAssumption
  DEF Check, Ends, Goto, vars, commands, slot, LifecycleInv, TypeOK, BootingOwned, Launched,
      Exclusive
<1>4. ASSUME NEW c \in Commands, ReadPid(c)
      PROVE  BootingOwned'
  BY <1>4, NobodyAssumption
  DEF ReadPid, Goto, vars, commands, slot, LifecycleInv, TypeOK, BootingOwned, Launched,
      Exclusive
<1>5. ASSUME NEW c \in Commands, Restart(c)
      PROVE  BootingOwned'
  BY <1>5, NobodyAssumption
  DEF Restart, Ends, Goto, Answers, Bounced, vars, commands, slot, LifecycleInv, TypeOK,
      BootingOwned, Launched, Exclusive
<1>6. ASSUME NEW c \in Commands, AwaitReady(c)
      PROVE  BootingOwned'
  BY <1>6, NobodyAssumption
  DEF AwaitReady, Ends, Answers, NewInstance, vars, commands, slot, LifecycleInv, TypeOK,
      BootingOwned, Launched, Exclusive
<1>7. ASSUME NEW c \in Commands, AwaitTimesOut(c)
      PROVE  BootingOwned'
  BY <1>7, NobodyAssumption
  DEF AwaitTimesOut, Ends, Goto, vars, commands, slot, LifecycleInv, TypeOK, BootingOwned,
      Launched, Exclusive
<1>8. ASSUME NEW c \in Commands, ProbeBroker(c)
      PROVE  BootingOwned'
  BY <1>8, NobodyAssumption
  DEF ProbeBroker, Ends, Goto, vars, commands, slot, LifecycleInv, TypeOK, BootingOwned,
      Launched, Exclusive
<1>9. ASSUME NEW c \in Commands, Spawn(c)
      PROVE  BootingOwned'
  BY <1>9, NobodyAssumption
  DEF Spawn, Goto, vars, commands, slot, LifecycleInv, TypeOK, BootingOwned, Launched, Exclusive
<1>10. ASSUME NEW c \in Commands, AwaitUp(c)
      PROVE  BootingOwned'
  BY <1>10, NobodyAssumption
  DEF AwaitUp, Goto, Answers, vars, commands, slot, LifecycleInv, TypeOK, BootingOwned,
      Launched, Exclusive
<1>11. ASSUME NEW c \in Commands, AwaitUpTimesOut(c)
      PROVE  BootingOwned'
  BY <1>11, NobodyAssumption
  DEF AwaitUpTimesOut, Ends, Answers, vars, commands, slot, LifecycleInv, TypeOK, BootingOwned,
      Launched, Exclusive
<1>12. ASSUME NEW c \in Commands, Prime(c)
      PROVE  BootingOwned'
  BY <1>12, NobodyAssumption
  DEF Prime, Goto, Answers, vars, commands, slot, LifecycleInv, TypeOK, BootingOwned, Launched,
      Exclusive
<1>13. ASSUME NEW c \in Commands, TearDown(c)
      PROVE  BootingOwned'
  BY <1>13, NobodyAssumption
  DEF TearDown, Ends, PortDown, vars, commands, slot, LifecycleInv, TypeOK, BootingOwned,
      Launched, Exclusive
<1>14. ASSUME NEW c \in Commands, Sweep(c)
      PROVE  BootingOwned'
  BY <1>14, NobodyAssumption
  DEF Sweep, Ends, vars, commands, slot, LifecycleInv, TypeOK, BootingOwned, Launched, Exclusive
<1>15. ASSUME NEW c \in Commands, Down(c)
      PROVE  BootingOwned'
  BY <1>15, NobodyAssumption
  DEF Down, Ends, Goto, PortDown, vars, commands, slot, LifecycleInv, TypeOK, BootingOwned,
      Launched, Exclusive
<1>16. ASSUME NEW c \in Commands, Reprobe(c)
      PROVE  BootingOwned'
  BY <1>16, NobodyAssumption
  DEF Reprobe, Ends, Answers, Verdicts, Misses, vars, commands, slot, LifecycleInv, TypeOK,
      BootingOwned, Launched, Exclusive
<1>17. ASSUME NEW c \in Commands, Killed(c)
      PROVE  BootingOwned'
  BY <1>17, NobodyAssumption
  DEF Killed, Ends, vars, commands, slot, LifecycleInv, TypeOK, BootingOwned, Launched,
      Exclusive
<1>18. CASE OursAnswers
  BY <1>18, NobodyAssumption
  DEF OursAnswers, Birth, vars, commands, slot, LifecycleInv, TypeOK, BootingOwned, Launched,
      Exclusive
<1>19. CASE OursDies
  BY <1>19, NobodyAssumption
  DEF OursDies, vars, commands, slot, LifecycleInv, TypeOK, BootingOwned, Launched, Exclusive
<1>20. CASE OtherStarts
  BY <1>20, NobodyAssumption
  DEF OtherStarts, Answers, vars, commands, slot, LifecycleInv, TypeOK, BootingOwned, Launched,
      Exclusive
<1>21. CASE OtherStops
  BY <1>21, NobodyAssumption
  DEF OtherStops, vars, commands, slot, LifecycleInv, TypeOK, BootingOwned, Launched, Exclusive
<1>22. CASE Respawn
  BY <1>22, NobodyAssumption
  DEF Respawn, Birth, vars, commands, slot, LifecycleInv, TypeOK, BootingOwned, Launched,
      Exclusive
<1>23. CASE Healthcheck
  BY <1>23, NobodyAssumption
  DEF Healthcheck, vars, commands, slot, LifecycleInv, TypeOK, BootingOwned, Launched, Exclusive
<1>24. CASE Serve
  BY <1>24, NobodyAssumption
  DEF Serve, Written, vars, commands, slot, LifecycleInv, TypeOK, BootingOwned, Launched,
      Exclusive
<1>25. CASE Sicken
  BY <1>25, NobodyAssumption
  DEF Sicken, vars, commands, slot, LifecycleInv, TypeOK, BootingOwned, Launched, Exclusive
<1>26. CASE Age
  BY <1>26, NobodyAssumption
  DEF Age, vars, commands, slot, LifecycleInv, TypeOK, BootingOwned, Launched, Exclusive
<1>27. CASE UNCHANGED vars
  BY <1>27 DEF vars, commands, slot, LifecycleInv, TypeOK, BootingOwned, Launched, Exclusive
<1> QED
  BY <1>1, <1>2, <1>3, <1>4, <1>5, <1>6, <1>7, <1>8, <1>9, <1>10, <1>11, <1>12, <1>13, <1>14,
     <1>15, <1>16, <1>17, <1>18, <1>19, <1>20, <1>21, <1>22, <1>23, <1>24, <1>25, <1>26, <1>27
  DEF Next

LEMMA ProbeHoldsPreserved ==
    ASSUME LifecycleInv, [Next]_vars
    PROVE  ProbeHolds'
<1>1. ASSUME NEW c \in Commands, NEW v \in Verbs, Begin(c, v)
      PROVE  ProbeHolds'
  BY <1>1, NobodyAssumption
  DEF Begin, LockFree, vars, commands, slot, LifecycleInv, TypeOK, ProbeHolds, Exclusive,
      BootingOwned, Launched
<1>2. ASSUME NEW c \in Commands, Probe(c)
      PROVE  ProbeHolds'
  BY <1>2, NobodyAssumption
  DEF Probe, Ends, Goto, Answers, Verdicts, Misses, vars, commands, slot, LifecycleInv, TypeOK,
      ProbeHolds, Exclusive, BootingOwned, Launched
<1>3. ASSUME NEW c \in Commands, Check(c)
      PROVE  ProbeHolds'
  BY <1>3, NobodyAssumption
  DEF Check, Ends, Goto, vars, commands, slot, LifecycleInv, TypeOK, ProbeHolds, Exclusive,
      BootingOwned, Launched
<1>4. ASSUME NEW c \in Commands, ReadPid(c)
      PROVE  ProbeHolds'
  BY <1>4, NobodyAssumption
  DEF ReadPid, Goto, vars, commands, slot, LifecycleInv, TypeOK, ProbeHolds, Exclusive,
      BootingOwned, Launched
<1>5. ASSUME NEW c \in Commands, Restart(c)
      PROVE  ProbeHolds'
  BY <1>5, NobodyAssumption
  DEF Restart, Ends, Goto, Answers, Bounced, vars, commands, slot, LifecycleInv, TypeOK, ProbeHolds,
      Exclusive, BootingOwned, Launched
<1>6. ASSUME NEW c \in Commands, AwaitReady(c)
      PROVE  ProbeHolds'
  BY <1>6, NobodyAssumption
  DEF AwaitReady, Ends, Answers, NewInstance, vars, commands, slot, LifecycleInv, TypeOK,
      ProbeHolds, Exclusive, BootingOwned, Launched
<1>7. ASSUME NEW c \in Commands, AwaitTimesOut(c)
      PROVE  ProbeHolds'
  BY <1>7, NobodyAssumption
  DEF AwaitTimesOut, Ends, Goto, vars, commands, slot, LifecycleInv, TypeOK, ProbeHolds,
      Exclusive, BootingOwned, Launched
<1>8. ASSUME NEW c \in Commands, ProbeBroker(c)
      PROVE  ProbeHolds'
  BY <1>8, NobodyAssumption
  DEF ProbeBroker, Ends, Goto, vars, commands, slot, LifecycleInv, TypeOK, ProbeHolds,
      Exclusive, BootingOwned, Launched
<1>9. ASSUME NEW c \in Commands, Spawn(c)
      PROVE  ProbeHolds'
  BY <1>9, NobodyAssumption
  DEF Spawn, Goto, vars, commands, slot, LifecycleInv, TypeOK, ProbeHolds, Exclusive,
      BootingOwned, Launched
<1>10. ASSUME NEW c \in Commands, AwaitUp(c)
      PROVE  ProbeHolds'
  BY <1>10, NobodyAssumption
  DEF AwaitUp, Goto, Answers, vars, commands, slot, LifecycleInv, TypeOK, ProbeHolds, Exclusive,
      BootingOwned, Launched
<1>11. ASSUME NEW c \in Commands, AwaitUpTimesOut(c)
      PROVE  ProbeHolds'
  BY <1>11, NobodyAssumption
  DEF AwaitUpTimesOut, Ends, Answers, vars, commands, slot, LifecycleInv, TypeOK, ProbeHolds,
      Exclusive, BootingOwned, Launched
<1>12. ASSUME NEW c \in Commands, Prime(c)
      PROVE  ProbeHolds'
  BY <1>12, NobodyAssumption
  DEF Prime, Goto, Answers, vars, commands, slot, LifecycleInv, TypeOK, ProbeHolds, Exclusive,
      BootingOwned, Launched
<1>13. ASSUME NEW c \in Commands, TearDown(c)
      PROVE  ProbeHolds'
  BY <1>13, NobodyAssumption
  DEF TearDown, Ends, PortDown, vars, commands, slot, LifecycleInv, TypeOK, ProbeHolds,
      Exclusive, BootingOwned, Launched
<1>14. ASSUME NEW c \in Commands, Sweep(c)
      PROVE  ProbeHolds'
  BY <1>14, NobodyAssumption
  DEF Sweep, Ends, vars, commands, slot, LifecycleInv, TypeOK, ProbeHolds, Exclusive,
      BootingOwned, Launched
<1>15. ASSUME NEW c \in Commands, Down(c)
      PROVE  ProbeHolds'
  BY <1>15, NobodyAssumption
  DEF Down, Ends, Goto, PortDown, vars, commands, slot, LifecycleInv, TypeOK, ProbeHolds,
      Exclusive, BootingOwned, Launched
<1>16. ASSUME NEW c \in Commands, Reprobe(c)
      PROVE  ProbeHolds'
  BY <1>16, NobodyAssumption
  DEF Reprobe, Ends, Answers, Verdicts, Misses, vars, commands, slot, LifecycleInv, TypeOK,
      ProbeHolds, Exclusive, BootingOwned, Launched
<1>17. ASSUME NEW c \in Commands, Killed(c)
      PROVE  ProbeHolds'
  BY <1>17, NobodyAssumption
  DEF Killed, Ends, vars, commands, slot, LifecycleInv, TypeOK, ProbeHolds, Exclusive,
      BootingOwned, Launched
<1>18. CASE OursAnswers
  BY <1>18, NobodyAssumption
  DEF OursAnswers, Birth, vars, commands, slot, LifecycleInv, TypeOK, ProbeHolds, Exclusive,
      BootingOwned, Launched
<1>19. CASE OursDies
  BY <1>19, NobodyAssumption
  DEF OursDies, vars, commands, slot, LifecycleInv, TypeOK, ProbeHolds, Exclusive, BootingOwned,
      Launched
<1>20. CASE OtherStarts
  BY <1>20, NobodyAssumption
  DEF OtherStarts, Answers, vars, commands, slot, LifecycleInv, TypeOK, ProbeHolds, Exclusive,
      BootingOwned, Launched
<1>21. CASE OtherStops
  BY <1>21, NobodyAssumption
  DEF OtherStops, vars, commands, slot, LifecycleInv, TypeOK, ProbeHolds, Exclusive,
      BootingOwned, Launched
<1>22. CASE Respawn
  BY <1>22, NobodyAssumption
  DEF Respawn, Birth, vars, commands, slot, LifecycleInv, TypeOK, ProbeHolds, Exclusive,
      BootingOwned, Launched
<1>23. CASE Healthcheck
  BY <1>23, NobodyAssumption
  DEF Healthcheck, vars, commands, slot, LifecycleInv, TypeOK, ProbeHolds, Exclusive,
      BootingOwned, Launched
<1>24. CASE Serve
  BY <1>24, NobodyAssumption
  DEF Serve, Written, vars, commands, slot, LifecycleInv, TypeOK, ProbeHolds, Exclusive,
      BootingOwned, Launched
<1>25. CASE Sicken
  BY <1>25, NobodyAssumption
  DEF Sicken, vars, commands, slot, LifecycleInv, TypeOK, ProbeHolds, Exclusive, BootingOwned,
      Launched
<1>26. CASE Age
  BY <1>26, NobodyAssumption
  DEF Age, vars, commands, slot, LifecycleInv, TypeOK, ProbeHolds, Exclusive, BootingOwned,
      Launched
<1>27. CASE UNCHANGED vars
  BY <1>27
  DEF vars, commands, slot, LifecycleInv, TypeOK, ProbeHolds, Exclusive, BootingOwned, Launched
<1> QED
  BY <1>1, <1>2, <1>3, <1>4, <1>5, <1>6, <1>7, <1>8, <1>9, <1>10, <1>11, <1>12, <1>13, <1>14,
     <1>15, <1>16, <1>17, <1>18, <1>19, <1>20, <1>21, <1>22, <1>23, <1>24, <1>25, <1>26, <1>27
  DEF Next

LEMMA BeatToldPreserved ==
    ASSUME LifecycleInv, [Next]_vars
    PROVE  BeatTold'
<1>1. ASSUME NEW c \in Commands,
             (\E v \in Verbs : Begin(c, v)) \/ Probe(c) \/ Check(c) \/
             ReadPid(c) \/ AwaitReady(c) \/ AwaitTimesOut(c) \/
             ProbeBroker(c) \/ Spawn(c) \/ AwaitUp(c) \/
             AwaitUpTimesOut(c) \/ Prime(c) \/ Sweep(c) \/ Reprobe(c)
             \/ Killed(c)
      PROVE  BeatTold'
  BY <1>1
  DEF Begin, LockFree, Probe, Ends, Goto, Answers, Check, ReadPid, AwaitReady, NewInstance,
      AwaitTimesOut, ProbeBroker, Spawn, AwaitUp, AwaitUpTimesOut, Prime, Sweep, Reprobe,
      Verdicts, Misses, Killed, vars, slot, gate, LifecycleInv, TypeOK, BeatTold
<1>2. ASSUME NEW c \in Commands, Restart(c)
      PROVE  BeatTold'
  BY <1>2
  DEF Restart, Ends, Goto, Answers, Bounced, vars, slot, gate, LifecycleInv, TypeOK, BeatTold
<1>3. ASSUME NEW c \in Commands, TearDown(c)
      PROVE  BeatTold'
  BY <1>3 DEF TearDown, Ends, PortDown, vars, slot, gate, LifecycleInv, TypeOK, BeatTold
<1>4. ASSUME NEW c \in Commands, Down(c)
      PROVE  BeatTold'
  BY <1>4 DEF Down, Ends, Goto, PortDown, vars, slot, gate, LifecycleInv, TypeOK, BeatTold
<1>5. CASE OtherStarts \/ OtherStops \/ Sicken
  BY <1>5
  DEF OtherStarts, Answers, OtherStops, Sicken, vars, slot, gate, LifecycleInv, TypeOK, BeatTold
<1>6. CASE OursAnswers
  BY <1>6 DEF OursAnswers, Birth, vars, slot, gate, LifecycleInv, TypeOK, BeatTold
<1>7. CASE OursDies
  BY <1>7 DEF OursDies, vars, slot, gate, LifecycleInv, TypeOK, BeatTold
<1>8. CASE Respawn
  BY <1>8 DEF Respawn, Birth, vars, slot, gate, LifecycleInv, TypeOK, BeatTold
<1>9. CASE Healthcheck
  BY <1>9 DEF Healthcheck, vars, slot, gate, LifecycleInv, TypeOK, BeatTold
<1>10. CASE Serve
  BY <1>10 DEF Serve, Written, vars, slot, gate, LifecycleInv, TypeOK, BeatTold
<1>11. CASE Age
  BY <1>11 DEF Age, vars, slot, gate, LifecycleInv, TypeOK, BeatTold
<1>12. CASE UNCHANGED vars
  BY <1>12 DEF vars, slot, gate, LifecycleInv, TypeOK, BeatTold
<1> QED
  BY <1>1, <1>2, <1>3, <1>4, <1>5, <1>6, <1>7, <1>8, <1>9, <1>10, <1>11, <1>12 DEF Next

LEMMA BridgeBornPreserved ==
    ASSUME LifecycleInv, [Next]_vars
    PROVE  BridgeBorn'
<1>1. ASSUME NEW c \in Commands,
             (\E v \in Verbs : Begin(c, v)) \/ Probe(c) \/ Check(c) \/
             ReadPid(c) \/ AwaitReady(c) \/ AwaitTimesOut(c) \/
             ProbeBroker(c) \/ AwaitUp(c) \/ AwaitUpTimesOut(c) \/
             Prime(c) \/ Sweep(c) \/ Reprobe(c) \/ Killed(c)
      PROVE  BridgeBorn'
  BY <1>1, LifecycleAssumption
  DEF Begin, LockFree, Probe, Ends, Goto, Answers, Check, ReadPid, AwaitReady, NewInstance,
      AwaitTimesOut, ProbeBroker, AwaitUp, AwaitUpTimesOut, Prime, Sweep, Reprobe, Verdicts, Misses,
      Killed, vars, slot, gate, LifecycleInv, TypeOK, BridgeBorn
<1>2. ASSUME NEW c \in Commands, Restart(c)
      PROVE  BridgeBorn'
  BY <1>2, LifecycleAssumption
  DEF Restart, Ends, Goto, Answers, Bounced, vars, slot, gate, LifecycleInv, TypeOK, BridgeBorn
<1>3. ASSUME NEW c \in Commands, TearDown(c)
      PROVE  BridgeBorn'
  BY <1>3, LifecycleAssumption
  DEF TearDown, Ends, PortDown, vars, slot, gate, LifecycleInv, TypeOK, BridgeBorn
<1>4. ASSUME NEW c \in Commands, Down(c)
      PROVE  BridgeBorn'
  BY <1>4, LifecycleAssumption
  DEF Down, Ends, Goto, PortDown, vars, slot, gate, LifecycleInv, TypeOK, BridgeBorn
<1>5. ASSUME NEW c \in Commands, Spawn(c)
      PROVE  BridgeBorn'
  BY <1>5, LifecycleAssumption DEF Spawn, Goto, vars, slot, gate, LifecycleInv, TypeOK, BridgeBorn
<1>6. CASE OursDies \/ OtherStarts \/ OtherStops \/ Healthcheck \/ Serve \/ Sicken \/ Age
  BY <1>6, LifecycleAssumption
  DEF OursDies, OtherStarts, Answers, OtherStops, Healthcheck, Serve, Written, Sicken, Age,
      vars, slot, gate, LifecycleInv, TypeOK, BridgeBorn
<1>7. CASE OursAnswers
  BY <1>7, LifecycleAssumption
  DEF OursAnswers, Birth, vars, slot, gate, LifecycleInv, TypeOK, BridgeBorn
<1>8. CASE Respawn
  BY <1>8, LifecycleAssumption
  DEF Respawn, Birth, vars, slot, gate, LifecycleInv, TypeOK, BridgeBorn
<1>9. CASE UNCHANGED vars
  BY <1>9 DEF vars, slot, gate, LifecycleInv, TypeOK, BridgeBorn
<1> QED
  BY <1>1, <1>2, <1>3, <1>4, <1>5, <1>6, <1>7, <1>8, <1>9 DEF Next

LEMMA Opening ==
    ASSUME LifecycleInv, [Next]_vars
    PROVE  \A d \in Commands : Reports(d, "open") => AwaitReady(d)
<1>1. ASSUME NEW c \in Commands,
             Probe(c) \/ Check(c) \/ ReadPid(c) \/ Restart(c) \/
             AwaitTimesOut(c) \/ ProbeBroker(c) \/ Spawn(c) \/
             AwaitUp(c) \/ AwaitUpTimesOut(c) \/ Prime(c) \/
             TearDown(c) \/ Sweep(c) \/ Down(c) \/ Reprobe(c) \/
             Killed(c)
      PROVE  \A d \in Commands : Reports(d, "open") => AwaitReady(d)
  BY <1>1
  DEF Probe, Ends, Goto, Answers, Verdicts, Misses, Check, ReadPid, Restart, AwaitTimesOut,
      ProbeBroker, Spawn, AwaitUp, AwaitUpTimesOut, Prime, TearDown, PortDown, Sweep, Down,
      Reprobe, Verdicts, Misses, Killed, vars, commands, LifecycleInv, TypeOK, Reports
<1>2. ASSUME NEW c \in Commands, AwaitReady(c)
      PROVE  \A d \in Commands : Reports(d, "open") => AwaitReady(d)
  BY <1>2
  DEF AwaitReady, Ends, Answers, NewInstance, vars, commands, LifecycleInv, TypeOK, Reports
<1>3. ASSUME NEW c \in Commands, NEW v \in Verbs, Begin(c, v)
      PROVE  \A d \in Commands : Reports(d, "open") => AwaitReady(d)
  BY <1>3 DEF Begin, LockFree, vars, commands, LifecycleInv, TypeOK, Reports
<1>4. CASE OursAnswers \/ OursDies \/ OtherStarts \/ OtherStops \/ Respawn \/ Healthcheck \/
           Serve \/ Sicken \/ Age
  BY <1>4
  DEF OursAnswers, Birth, OursDies, OtherStarts, Answers, OtherStops, Respawn, Healthcheck,
      Serve, Written, Sicken, Age, vars, commands, LifecycleInv, TypeOK, Reports
<1>5. CASE UNCHANGED vars
  BY <1>5 DEF vars, commands, LifecycleInv, TypeOK, Reports
<1> QED
  BY <1>1, <1>2, <1>3, <1>4, <1>5 DEF Next

LEMMA Entering ==
    ASSUME LifecycleInv, [Next]_vars
    PROVE  \A d \in Commands : pc'[d] = "reprobing" => pc[d] = "reprobing" \/ Down(d)
<1>1. ASSUME NEW c \in Commands,
             Probe(c) \/ Check(c) \/ ReadPid(c) \/ Restart(c) \/
             AwaitReady(c) \/ AwaitTimesOut(c) \/ ProbeBroker(c) \/
             Spawn(c) \/ AwaitUp(c) \/ AwaitUpTimesOut(c) \/ Prime(c)
             \/ TearDown(c) \/ Sweep(c) \/ Reprobe(c) \/ Killed(c)
      PROVE  \A d \in Commands : pc'[d] = "reprobing" => pc[d] = "reprobing" \/ Down(d)
  BY <1>1
  DEF Probe, Ends, Goto, Answers, Verdicts, Misses, Check, ReadPid, Restart, Bounced, AwaitReady,
      NewInstance, AwaitTimesOut, ProbeBroker, Spawn, AwaitUp, AwaitUpTimesOut, Prime, TearDown,
      PortDown, Sweep, Reprobe, Verdicts, Misses, Killed, vars, commands, LifecycleInv, TypeOK
<1>2. ASSUME NEW c \in Commands, NEW v \in Verbs, Begin(c, v)
      PROVE  \A d \in Commands : pc'[d] = "reprobing" => pc[d] = "reprobing" \/ Down(d)
  BY <1>2 DEF Begin, LockFree, vars, commands, LifecycleInv, TypeOK
<1>3. ASSUME NEW c \in Commands, Down(c)
      PROVE  \A d \in Commands : pc'[d] = "reprobing" => pc[d] = "reprobing" \/ Down(d)
  BY <1>3 DEF Down, Ends, Goto, PortDown, vars, commands, LifecycleInv, TypeOK
<1>4. CASE OursAnswers \/ OursDies \/ OtherStarts \/ OtherStops \/ Respawn \/ Healthcheck \/
           Serve \/ Sicken \/ Age
  BY <1>4
  DEF OursAnswers, Birth, OursDies, OtherStarts, Answers, OtherStops, Respawn, Healthcheck,
      Serve, Written, Sicken, Age, vars, commands, LifecycleInv, TypeOK
<1>5. CASE UNCHANGED vars
  BY <1>5 DEF vars, commands, LifecycleInv, TypeOK
<1> QED
  BY <1>1, <1>2, <1>3, <1>4, <1>5 DEF Next

LEMMA Closing ==
    ASSUME LifecycleInv, [Next]_vars
    PROVE  \A d \in Commands : Reports(d, "closed") => Sweep(d) \/ Reprobe(d)
<1>1. ASSUME NEW c \in Commands,
             Probe(c) \/ Check(c) \/ ReadPid(c) \/ Restart(c) \/
             AwaitReady(c) \/ AwaitTimesOut(c) \/ ProbeBroker(c) \/
             Spawn(c) \/ AwaitUp(c) \/ AwaitUpTimesOut(c) \/ Prime(c)
             \/ TearDown(c) \/ Down(c) \/ Killed(c)
      PROVE  \A d \in Commands : Reports(d, "closed") => Sweep(d) \/ Reprobe(d)
  BY <1>1
  DEF Probe, Ends, Goto, Answers, Verdicts, Misses, Check, ReadPid, Restart, Bounced, AwaitReady,
      NewInstance, AwaitTimesOut, ProbeBroker, Spawn, AwaitUp, AwaitUpTimesOut, Prime, TearDown,
      PortDown, Down, Killed, vars, commands, LifecycleInv, TypeOK, Reports
<1>2. ASSUME NEW c \in Commands, NEW v \in Verbs, Begin(c, v)
      PROVE  \A d \in Commands : Reports(d, "closed") => Sweep(d) \/ Reprobe(d)
  BY <1>2 DEF Begin, LockFree, vars, commands, LifecycleInv, TypeOK, Reports
<1>3. ASSUME NEW c \in Commands, Sweep(c)
      PROVE  \A d \in Commands : Reports(d, "closed") => Sweep(d) \/ Reprobe(d)
  BY <1>3 DEF Sweep, Ends, vars, commands, LifecycleInv, TypeOK, Reports
<1>4. ASSUME NEW c \in Commands, Reprobe(c)
      PROVE  \A d \in Commands : Reports(d, "closed") => Sweep(d) \/ Reprobe(d)
  BY <1>4
  DEF Reprobe, Ends, Answers, Verdicts, Misses, vars, commands, LifecycleInv, TypeOK, Reports
<1>5. CASE OursAnswers \/ OursDies \/ OtherStarts \/ OtherStops \/ Respawn \/ Healthcheck \/
           Serve \/ Sicken \/ Age
  BY <1>5
  DEF OursAnswers, Birth, OursDies, OtherStarts, Answers, OtherStops, Respawn, Healthcheck,
      Serve, Written, Sicken, Age, vars, commands, LifecycleInv, TypeOK, Reports
<1>6. CASE UNCHANGED vars
  BY <1>6 DEF vars, commands, LifecycleInv, TypeOK, Reports
<1> QED
  BY <1>1, <1>2, <1>3, <1>4, <1>5, <1>6 DEF Next

LEMMA LifecycleInit == Init => LifecycleInv
<1>1. ASSUME Init
      PROVE  TypeOK
  <2>1. 0 \in 0..MaxPids
    BY LifecycleAssumption
  <2>2. /\ lock \in Commands \union {Nobody}
        /\ pc \in [Commands -> Stages]
        /\ verb \in [Commands -> Verbs]
        /\ before \in [Commands -> 0..MaxPids]
        /\ reply \in Replies
    BY <1>1, <2>1 DEF Init, Stages, Verbs, Replies
  <2>3. /\ bridge \in [pid : 0..MaxPids, phase : {"none", "leaving", "booting", "serving", "sick"}]
        /\ beat \in [pid : 0..MaxPids, fresh : BOOLEAN]
    BY <1>1, <2>1 DEF Init
  <2> QED
    BY <1>1, <2>2, <2>3 DEF Init, TypeOK
<1>2. ASSUME Init
      PROVE  Exclusive /\ BootingOwned /\ ProbeHolds /\ BridgeBorn
  BY <1>2 DEF Init, Exclusive, BootingOwned, ProbeHolds, BridgeBorn
<1>3. ASSUME Init
      PROVE  BeatTold
  BY <1>3 DEF Init, BeatTold
<1> QED
  BY <1>1, <1>2, <1>3 DEF LifecycleInv

LEMMA LifecycleStays == LifecycleInv /\ [Next]_vars => LifecycleInv'
  BY TypePreserved, ExclusivePreserved, BootingOwnedPreserved, ProbeHoldsPreserved,
     BeatToldPreserved, BridgeBornPreserved
  DEF LifecycleInv

-----------------------------------------------------------------------------
(* Lifecycle. *)

(* Every variable of the lifecycle keeps its type, and the five parts of the invariant hold.     *)
THEOREM LifecycleCorrect == Spec => []LifecycleInv
  BY LifecycleInit, LifecycleStays, PTL DEF Spec

(* No start launches a second supervisor beside the first but behind a probe that failed of a    *)
(* live one, or a start that was given up while the first was booting (lifecycle_lock, and the   *)
(* probe of start under it).                                                                     *)
THEOREM OneSupervisorHolds == Spec => []OneSupervisor
<1>1. LifecycleInv => OneSupervisor
  BY DEF LifecycleInv, ProbeHolds, OneSupervisor
<1> QED
  BY LifecycleCorrect, <1>1, PTL

(* "open" is said of a bridge process that is not the one the restart request reached, if that    *)
(* is the one whose pid was read before and the status names the new one's; and that has served, *)
(* unless its predecessor's beat was fresh at its birth (_await_bridge_ready).                   *)
LEMMA OpenStep ==
    ASSUME LifecycleInv, [Next]_vars, NEW c \in Commands, Reports(c, "open"), ours = "up"
    PROVE  /\ bridge.pid # asked \/ before[c] # asked \/ unnamed'
           /\ beat.pid = bridge.pid \/ inherited
<1>1. AwaitReady(c)
  BY Opening
<1>2. ready /\ bridge.pid # 0 /\ (NewInstance(c) \/ unnamed')
  BY <1>1 DEF AwaitReady, LifecycleInv, BridgeBorn
<1> QED
  BY <1>2 DEF NewInstance, LifecycleInv, BeatTold

THEOREM GreenLightHolds == Spec => GreenLight
<1>1. LifecycleInv /\ [Next]_vars =>
        [\A c \in Commands : Reports(c, "open") /\ ours = "up" =>
           /\ bridge.pid # asked \/ before[c] # asked \/ unnamed'
           /\ beat.pid = bridge.pid \/ inherited]_vars
  BY OpenStep
<1> QED
  BY LifecycleCorrect, <1>1, PTL DEF Spec, GreenLight

-----------------------------------------------------------------------------
(* The wizards beside it. *)

(* What a stop has swept stays swept until it has said so. *)
SweepKept ==
  \A c \in Commands : pc[c] = "reprobing" => \A s \in Slots : slots[s] => s \in spared

(* slot_mutation: no command is at work while a wizard stands between a fork and its pidfile. *)
Shared == (\E s \in Slots : Forked(s) # {}) => lock = Nobody

(* A wizard's step is none of the lifecycle's. *)
LEMMA OnboardRefines == [OnboardNext]_allVars => [Next]_vars
  BY DEF OnboardNext, allVars, LifecycleStep, CreateAsks, CreateGoesOn, InitFinishes, OpenRefused,
         HostGate, HostForks, HostSpawn, AgentGate, AgentForks, AgentSpawn, Seen, Unseen, Quits,
         Registers, Forgotten, Dies

THEOREM OnboardImplementsLifecycle == OnboardSpec => Spec
<1>1. OnboardInit => Init
  BY DEF OnboardInit
<1> QED
  BY <1>1, OnboardRefines, PTL DEF OnboardSpec, Spec

LEMMA OnboardTyped == OnboardTypeOK /\ [OnboardNext]_allVars => OnboardTypeOK'
<1> SUFFICES ASSUME OnboardTypeOK, [OnboardNext]_allVars
             PROVE  OnboardTypeOK'
  OBVIOUS
<1> USE DEF OnboardTypeOK, org
<1>1. CASE LifecycleStep
  <2>1. wizard' \in [Wizards -> Places]
    <3>1. CASE Begins
      <4>1. PICK c \in Commands : pc[c] = "idle" /\ pc'[c] # "idle"
        BY <3>1 DEF Begins
      <4>2. InTurn
        BY <1>1, <3>1 DEF LifecycleStep
      <4>3. \/ c \in Wizards /\ wizard' = [wizard EXCEPT ![c] = "awaiting"]
            \/ wizard' = wizard
        BY <4>1, <4>2 DEF InTurn
      <4>4. "awaiting" \in Places
        BY DEF Places
      <4> QED
        BY <4>3, <4>4
    <3>2. CASE ~Begins
      <4>1. \A c \in Wizards : wizard[c] \in Places /\ "hosting" \in Places /\ "none" \in Places
        BY DEF Places
      <4>2. Opened
        BY <1>1, <3>2 DEF LifecycleStep
      <4> QED
        BY <4>1, <4>2 DEF Opened
    <3> QED
      BY <3>1, <3>2
  <2>2. /\ slots' \in [Slots -> BOOLEAN] /\ spared' \subseteq Slots
        /\ listed' \in BOOLEAN /\ leaked' \subseteq Slots
    <3>1. CASE UNCHANGED <<slots, listed, leaked>> /\ spared' \in {{}, spared}
      BY <3>1
    <3>2. CASE Swept /\ UNCHANGED <<listed, leaked>>
      BY <3>2 DEF Swept
    <3>3. \/ UNCHANGED <<slots, listed, leaked>> /\ spared' \in {{}, spared}
          \/ Swept /\ UNCHANGED <<listed, leaked>>
      BY <1>1 DEF LifecycleStep, Roster
    <3> QED
      BY <3>1, <3>2, <3>3
  <2> QED
    BY <2>1, <2>2
<1>2. ASSUME NEW c \in Wizards,
             \/ CreateAsks(c) \/ CreateGoesOn(c) \/ InitFinishes(c) \/ OpenRefused(c)
             \/ HostGate(c) \/ HostForks(c) \/ HostSpawn(c)
             \/ AgentGate(c) \/ AgentForks(c) \/ AgentSpawn(c)
             \/ Seen(c) \/ Unseen(c) \/ Quits(c)
      PROVE  OnboardTypeOK'
  <2>1. \A from \in Places, to \in Places : Moves(c, from, to) => wizard' \in [Wizards -> Places]
    BY DEF Moves
  <2>2. \A s \in Slots, lives \in BOOLEAN : Launches(s, lives) \/ Forks(s) =>
          slots' \in [Slots -> BOOLEAN] /\ spared' \subseteq Slots /\ leaked' \subseteq Slots
    BY DEF Launches, Forks
  <2>3. CASE HostSpawn(c) \/ HostForks(c)
    BY <2>1, <2>2, <2>3 DEF HostSpawn, HostForks, Places, Slots
  <2>4. CASE AgentSpawn(c) \/ AgentForks(c)
    <3>1. wizard' \in [Wizards -> Places]
      BY <2>1, <2>4 DEF AgentSpawn, AgentForks, Places
    <3>2. slots' \in [Slots -> BOOLEAN] /\ spared' \subseteq Slots /\ leaked' \subseteq Slots
      BY <2>2, <2>4 DEF AgentSpawn, AgentForks, Slots
    <3>3. listed' \in BOOLEAN
      BY <2>4 DEF AgentSpawn, AgentForks
    <3> QED
      BY <3>1, <3>2, <3>3
  <2>5. CASE CreateAsks(c) \/ CreateGoesOn(c) \/ InitFinishes(c) \/ OpenRefused(c)
    BY <2>1, <2>5 DEF Places, CreateAsks, CreateGoesOn, InitFinishes, OpenRefused
  <2>6. CASE HostGate(c) \/ AgentGate(c) \/ Seen(c) \/ Unseen(c)
    BY <2>1, <2>6 DEF Places, HostGate, AgentGate, Seen, Unseen
  <2>7. CASE Quits(c)
    BY <2>7 DEF Places, Quits
  <2> QED
    BY <1>2, <2>3, <2>4, <2>5, <2>6, <2>7
<1>3. CASE Registers \/ Forgotten
  BY <1>3 DEF Registers, Forgotten
<1>4. ASSUME NEW s \in Slots, Dies(s)
      PROVE  OnboardTypeOK'
  BY <1>4 DEF Dies
<1>5. CASE UNCHANGED allVars
  BY <1>5 DEF allVars
<1> QED
  BY <1>1, <1>2, <1>3, <1>4, <1>5 DEF OnboardNext

(* A command comes to its second probe only by a sweep, and is alone with it. *)
LEMMA Reprobing ==
    ASSUME LifecycleInv, [Next]_vars, NEW c \in Commands, pc'[c] = "reprobing"
    PROVE  pc[c] = "reprobing" \/ Down(c)
  BY Entering

(* The lock changes hands only by way of Begin. *)
LEMMA LockStays ==
    ASSUME LifecycleInv, [Next]_vars, ~Begins
    PROVE  lock' \in {lock, Nobody}
<1>1. ASSUME NEW c \in Commands, NEW v \in Verbs, Begin(c, v)
      PROVE  FALSE
  BY <1>1 DEF Begin, Begins, LifecycleInv, TypeOK
<1>2. ASSUME NEW c \in Commands,
             Probe(c) \/ Check(c) \/ ReadPid(c) \/ Restart(c) \/ AwaitReady(c) \/
             AwaitTimesOut(c) \/ ProbeBroker(c) \/ Spawn(c) \/ AwaitUp(c) \/
             AwaitUpTimesOut(c) \/ Prime(c) \/ TearDown(c) \/ Sweep(c) \/ Down(c) \/
             Reprobe(c) \/ Killed(c)
      PROVE  lock' \in {lock, Nobody}
  BY <1>2
  DEF Probe, Check, ReadPid, Restart, AwaitReady, AwaitTimesOut, ProbeBroker, Spawn, AwaitUp,
      AwaitUpTimesOut, Prime, TearDown, Sweep, Down, Reprobe, Killed, Goto, Ends
<1>3. CASE OursAnswers \/ OursDies \/ OtherStarts \/ OtherStops \/ Respawn \/ Healthcheck \/
           Serve \/ Sicken \/ Age
  BY <1>3 DEF OursAnswers, OursDies, OtherStarts, OtherStops, Respawn, Healthcheck, Serve, Sicken,
              Age, commands
<1>4. CASE UNCHANGED vars
  BY <1>4 DEF vars, commands
<1> QED
  BY <1>1, <1>2, <1>3, <1>4 DEF Next

(* A wizard forks where no command is at work, and none begins before the pidfile is written. *)
LEMMA SharedPreserved ==
    ASSUME LifecycleInv, OnboardTypeOK, Shared, [OnboardNext]_allVars
    PROVE  Shared'
<1> SUFFICES ASSUME NEW s \in Slots, NEW d \in Wizards,
                    wizard'[d] = IF s = "tools" THEN "hostForked" ELSE "forked"
             PROVE  lock' = Nobody
  BY DEF Shared, Forked
<1>1. CASE LifecycleStep
  <2>1. ~Begins
    <3>1. SUFFICES ASSUME Begins
                   PROVE  FALSE
      OBVIOUS
    <3>2. PICK c \in Commands : pc[c] = "idle" /\ pc'[c] # "idle"
      BY <3>1 DEF Begins
    <3>3. wizard' = wizard \/ (c \in Wizards /\ wizard' = [wizard EXCEPT ![c] = "awaiting"])
      BY <1>1, <3>1, <3>2 DEF LifecycleStep, InTurn
    <3>4. wizard[d] = wizard'[d]
      BY <3>3 DEF OnboardTypeOK
    <3> QED
      BY <1>1, <3>1, <3>4 DEF LifecycleStep, NoneForked, Forked
  <2>2. wizard'[d] \in {wizard[d], "hosting", "none"}
    BY <1>1, <2>1 DEF LifecycleStep, Opened
  <2>3. lock = Nobody
    BY <2>2 DEF Shared, Forked
  <2> QED
    BY <1>1, <2>1, <2>3, LockStays DEF LifecycleStep
<1>2. CASE UNCHANGED <<vars, wizard>>
  BY <1>2 DEF Shared, Forked, vars, commands
<1>3. ASSUME NEW c \in Wizards,
             \/ CreateAsks(c) \/ CreateGoesOn(c) \/ InitFinishes(c) \/ OpenRefused(c)
             \/ HostGate(c) \/ HostSpawn(c) \/ AgentGate(c) \/ AgentSpawn(c)
             \/ Seen(c) \/ Unseen(c) \/ Quits(c)
      PROVE  lock' = Nobody
  <2>1. /\ lock' = lock
        /\ \E to \in Places \ {"hostForked", "forked"} : wizard' = [wizard EXCEPT ![c] = to]
    BY <1>3 DEF CreateAsks, CreateGoesOn, InitFinishes, OpenRefused, HostGate, HostSpawn, AgentGate,
                AgentSpawn, Seen, Unseen, Quits, Moves, Places, vars, commands
  <2>2. wizard[d] = wizard'[d]
    BY <2>1 DEF OnboardTypeOK
  <2> QED
    BY <2>1, <2>2 DEF Shared, Forked
<1>4. ASSUME NEW c \in Wizards, HostForks(c) \/ AgentForks(c)
      PROVE  lock' = Nobody
  <2>1. CASE MutationFree
    BY <1>4, <2>1 DEF HostForks, AgentForks, MutationFree, vars, commands
  <2>2. CASE ~MutationFree
    <3>1. /\ lock' = lock
          /\ \E to \in {"gate", "none", "watching"} : wizard' = [wizard EXCEPT ![c] = to]
      BY <1>4, <2>2 DEF HostForks, AgentForks, Forks, Moves, vars, commands
    <3>2. wizard[d] = wizard'[d]
      BY <3>1 DEF OnboardTypeOK
    <3> QED
      BY <3>1, <3>2 DEF Shared, Forked
  <2> QED
    BY <2>1, <2>2
<1> QED
  BY <1>1, <1>2, <1>3, <1>4 DEF OnboardNext, allVars, Registers, Forgotten, Dies

LEMMA Unforked ==
    ASSUME Shared, ~MutationFree, NEW d \in Wizards
    PROVE  wizard[d] \notin {"hostForked", "forked"}
<1>1. "tools" \in Slots /\ "agent" \in Slots
  BY DEF Slots
<1> QED
  BY <1>1 DEF Shared, Forked, MutationFree

LEMMA SweepPreserved ==
    ASSUME LifecycleInv, OnboardTypeOK, Shared, SweepKept, [OnboardNext]_allVars
    PROVE  SweepKept'
<1> SUFFICES ASSUME NEW c \in Commands, pc'[c] = "reprobing", NEW s \in Slots, slots'[s]
             PROVE  s \in spared'
  BY DEF SweepKept
<1>1. CASE LifecycleStep
  <2>1. pc[c] = "reprobing" \/ Down(c)
    BY <1>1, Reprobing DEF LifecycleStep
  <2>2. lock = c
    BY <2>1 DEF LifecycleInv, Exclusive, Down
  <2>3. CASE pc[c] = "reprobing"
    <3>1. ~ \E d \in Commands : Sweeps(d)
      BY <2>2, <2>3 DEF Sweeps, LifecycleInv, Exclusive
    <3>2. Exclusive'
      BY ExclusivePreserved, OnboardRefines
    <3>3. ~Begins
      BY <2>3, <3>2 DEF Begins, Exclusive
    <3>4. UNCHANGED org
      BY <1>1, <3>1, <3>3 DEF LifecycleStep, Roster, org
    <3> QED
      BY <2>3, <3>4 DEF SweepKept, org
  <2>4. CASE Down(c)
    <3>1. Sweeps(c) /\ pc'[c] # "idle"
      BY <2>4 DEF Sweeps, Down
    <3>2. Swept
      BY <1>1, <3>1 DEF LifecycleStep, Roster
    <3> QED
      BY <3>2 DEF Swept
  <2> QED
    BY <2>1, <2>3, <2>4
<1>2. CASE UNCHANGED vars /\ ~MutationFree /\ ~LifecycleStep
  <2>1. \A d \in Wizards : ~HostSpawn(d) /\ ~AgentSpawn(d)
    BY <1>2, Unforked DEF HostSpawn, AgentSpawn, Moves
  <2>2. UNCHANGED <<slots, spared>> \/ \E t \in Slots : Dies(t)
    BY <1>2, <2>1 DEF OnboardNext, allVars, org, CreateAsks, CreateGoesOn,
                InitFinishes, OpenRefused, HostGate, HostForks, AgentGate, AgentForks,
                Seen, Unseen, Quits, Registers, Forgotten, Dies, Forks
  <2> QED
    BY <1>2, <2>2 DEF SweepKept, Dies, OnboardTypeOK, vars, commands
<1>3. UNCHANGED vars => ~MutationFree
  BY NobodyAssumption DEF vars, commands, LifecycleInv, Exclusive, MutationFree
<1>4. LifecycleStep \/ UNCHANGED vars
  BY DEF OnboardNext, allVars, CreateAsks, CreateGoesOn, InitFinishes, OpenRefused,
         HostGate, HostForks, HostSpawn, AgentGate, AgentForks, AgentSpawn, Seen, Unseen, Quits,
         Registers, Forgotten, Dies
<1> QED
  BY <1>1, <1>2, <1>3, <1>4

OnboardInv == LifecycleInv /\ OnboardTypeOK /\ Shared /\ SweepKept

(* Every variable of the wizards keeps its type, beside all that holds of the lifecycle.         *)
THEOREM OnboardCorrect == OnboardSpec => []OnboardInv
<1>1. OnboardInit => OnboardInv
  <2>1. OnboardInit => OnboardTypeOK
    BY DEF OnboardInit, OnboardTypeOK, Places, Slots
  <2>2. OnboardInit => SweepKept /\ Shared
    BY DEF OnboardInit, Init, SweepKept, Shared, Forked
  <2> QED
    BY <2>1, <2>2, LifecycleInit DEF OnboardInv, OnboardInit
<1>2. OnboardInv /\ [OnboardNext]_allVars => OnboardInv'
  BY OnboardRefines, LifecycleStays, OnboardTyped, SharedPreserved, SweepPreserved DEF OnboardInv
<1> QED
  BY <1>1, <1>2, PTL DEF OnboardSpec

LEMMA ClosedStep ==
    ASSUME OnboardInv, [OnboardNext]_allVars, NEW c \in Commands, Reports(c, "closed")
    PROVE  /\ ours = "down" \/ abandoned \/ unheard'
           /\ \A s \in Slots : slots'[s] \/ Forked(s)' # {} => s \in spared'
<1>1. LifecycleInv /\ OnboardTypeOK /\ Shared /\ SweepKept
  BY DEF OnboardInv
<1>2. LifecycleStep
  <2>1. ~ UNCHANGED vars
    BY DEF Reports, vars, commands
  <2> QED
    BY <2>1 DEF OnboardNext, allVars, CreateAsks, CreateGoesOn, InitFinishes, OpenRefused,
                HostGate, HostForks, HostSpawn, AgentGate, AgentForks, AgentSpawn, Seen, Unseen,
                Quits, Registers, Forgotten, Dies
<1>3. Sweep(c) \/ Reprobe(c)
  BY <1>1, Closing, OnboardRefines
<1>6. \A s \in Slots : Forked(s)' = {}
  <2>1. lock = c /\ lock # Nobody
    BY <1>1, <1>3, NobodyAssumption DEF Sweep, Reprobe, LifecycleInv, Exclusive
  <2>2. ~Begins
    <3>1. Exclusive' /\ lock' = Nobody
      BY <1>1, <1>3, ExclusivePreserved, OnboardRefines DEF Sweep, Reprobe, Ends
    <3> QED
      BY <3>1, NobodyAssumption DEF Begins, Exclusive
  <2>3. \A d \in Wizards : wizard'[d] \in {wizard[d], "hosting", "none"}
    BY <1>2, <2>2 DEF LifecycleStep, Opened
  <2>4. \A d \in Wizards : wizard[d] \notin {"hostForked", "forked"}
    BY <1>1, <2>1, Unforked DEF MutationFree
  <2> QED
    BY <2>3, <2>4 DEF Forked
<1>4. CASE Sweep(c)
  <2>1. Sweeps(c) /\ reply' = "closed"
    BY <1>1, <1>4 DEF Sweeps, Sweep, Ends, Reports, LifecycleInv, TypeOK
  <2>2. Swept
    BY <1>2, <2>1 DEF LifecycleStep, Roster
  <2>3. ours = "down" \/ abandoned \/ unheard'
    BY <1>1, <1>4 DEF Sweep, LifecycleInv, ProbeHolds
  <2> QED
    BY <1>6, <2>2, <2>3 DEF Swept
<1>5. CASE Reprobe(c)
  <2>1. pc[c] = "reprobing" /\ lock = c
    BY <1>1, <1>5 DEF Reprobe, LifecycleInv, Exclusive
  <2>2. ours = "up" => unheard'
    BY <1>5 DEF Reprobe, Ends, Misses, Reports
  <2>3. ours = "down" \/ abandoned \/ unheard'
    BY <1>1, <2>1, <2>2 DEF LifecycleInv, BootingOwned, Exclusive, Launched, TypeOK
  <2>4. ~ \E d \in Commands : Sweeps(d)
    BY <1>1, <2>1 DEF Sweeps, LifecycleInv, Exclusive
  <2>5. ~Begins
    <3>1. Exclusive' /\ lock' = Nobody
      BY <1>1, <1>5, ExclusivePreserved, OnboardRefines DEF Reprobe, Ends
    <3> QED
      BY <3>1, NobodyAssumption DEF Begins, Exclusive
  <2>6. UNCHANGED org
    BY <1>2, <2>4, <2>5 DEF LifecycleStep, Roster, org
  <2> QED
    BY <1>1, <1>6, <2>1, <2>3, <2>6 DEF SweepKept, org
<1> QED
  BY <1>3, <1>4, <1>5

(* A stop that says "closed" has left no supervisor but one that was left booting or that its    *)
(* probe missed, and no process of the roster it has not reported but one whose wizard was        *)
(* killed before the pidfile, whatever wizards do meanwhile (lifecycle.py:866).                  *)
THEOREM OrgClosedHolds == OnboardSpec => OrgClosed
<1>1. OnboardInv /\ [OnboardNext]_allVars =>
        [\A c \in Commands : Reports(c, "closed") =>
           /\ ours = "down" \/ abandoned \/ unheard'
           /\ \A s \in Slots : slots'[s] \/ Forked(s)' # {} => s \in spared']_allVars
  BY ClosedStep
<1> QED
  BY OnboardCorrect, <1>1, PTL DEF OnboardSpec, OrgClosed

===============================================================================
