------------------------------ MODULE TurnProofs ------------------------------
(***************************************************************************)
(* Theorems about Turn, for any agents, calls and mentions.                *)
(***************************************************************************)
EXTENDS Turn, TLAPS

-----------------------------------------------------------------------------
(* What the helpers return *)

LEMMA JobTyped ==
    ASSUME TurnAssumption, NEW kind \in Kinds, NEW c \in Calls, NEW b \in BOOLEAN
    PROVE  /\ Job(kind, c, b) \in Rendering
           /\ Job(kind, c, b).kind = kind
           /\ Job(kind, c, b).call = c
           /\ Job(kind, c, b).isActing = b
  BY DEF Job, Rendering, TurnAssumption

LEMMA JobInHand ==
    ASSUME job \in {NoJob} \cup Rendering, job.kind # "none"
    PROVE  /\ job \in Rendering
           /\ job.kind \in Kinds
           /\ job.call \in Calls
           /\ job.isActing \in BOOLEAN
           /\ job.chunks \in 0 .. MaxChunks
  BY DEF NoJob, Rendering

LEMMA AliveTyped ==
    ASSUME sealed \in [Surfaces -> {"none", "live", "sealed"}], NEW s \in Surfaces
    PROVE  Alive(s) \in [Surfaces -> {"none", "live", "sealed"}]
  BY DEF Alive

LEMMA RowsTyped ==
    ASSUME NEW rows \in [Calls -> RowStates], NEW c \in Calls, NEW outcome
    PROVE  Resolved(rows, c, outcome) \in [Calls -> RowStates]
<1>1. RowState(outcome) \in RowStates
  BY DEF RowState, RowStates
<1> QED
  BY <1>1 DEF Resolved

LEMMA RowsStranded ==
    ASSUME NEW rows \in [Calls -> RowStates]
    PROVE  Stranded(rows) \in [Calls -> RowStates]
<1>1. ASSUME NEW d \in Calls
      PROVE  (IF rows[d] = "pending" THEN "interrupted" ELSE rows[d]) \in RowStates
  BY DEF RowStates
<1> QED
  BY <1>1 DEF Stranded

LEMMA ClosedTyped ==
    ASSUME sealed \in [Surfaces -> {"none", "live", "sealed"}], NEW s \in Surfaces
    PROVE  Closed(s) \in {"none", "live", "sealed"}
  BY DEF Closed

LEMMA CardStateTyped ==
    ASSUME NEW outcome
    PROVE  CardState(outcome) \in BranchStates /\ EditState \in BranchStates
  BY DEF CardState, EditState, BranchStates

\* Which projection the handler has in hand at each place of a render.
Renders ==
    /\ pc \in {"card", "thread"} => job.kind = "request"
    /\ pc = "edit" => job.kind \in Outcomes \cup {"fault", "interrupt"}
    /\ pc \in {"flush", "chunk"} => job.kind = "reply"

InRender == pc \in {"card", "thread", "edit", "flush", "chunk"}

LEMMA RenderInHand ==
    ASSUME TypeOK, Renders, InRender
    PROVE  /\ job \in Rendering
           /\ job.kind \in Kinds
           /\ job.call \in Calls
           /\ job.isActing \in BOOLEAN
           /\ job.chunks \in 0 .. MaxChunks
<1>1. job.kind # "none"
  BY DEF Renders, InRender, Outcomes
<1> QED
  BY <1>1, JobInHand DEF TypeOK

LEMMA RenderEndsTyped ==
    ASSUME TypeOK, job.call \in Calls, NEW receipt, RenderEnds(receipt)
    PROVE  /\ job' = NoJob
           /\ pc' \in {"faulting", "finishing", "draining"}
           /\ human' \in [Calls -> RowStates]
           /\ linked' \in SUBSET Calls
           /\ sealed' \in [Surfaces -> {"none", "live", "sealed"}]
<1>1. Resolved(human, job.call, job.kind) \in [Calls -> RowStates]
  BY RowsTyped DEF TypeOK
<1>2. [human EXCEPT ![job.call] = "pending"] \in [Calls -> RowStates]
  BY DEF TypeOK, RowStates
<1>3. Alive("human") \in [Surfaces -> {"none", "live", "sealed"}]
  BY AliveTyped DEF TypeOK, Surfaces
<1>4. Links(job.call, receipt) \in SUBSET Calls
  BY DEF Links, TypeOK
<1>5. job' = NoJob /\ pc' \in {"faulting", "finishing", "draining"}
  BY DEF RenderEnds
<1> QED
  BY <1>1, <1>2, <1>3, <1>4, <1>5 DEF RenderEnds, TypeOK

LEMMA CardTyped ==
    ASSUME TypeOK, NEW c \in Calls, NEW state \in BranchStates
    PROVE  [card EXCEPT ![c].shows = state] \in [Calls -> Card]
<1>1. card[c].at \in {"nowhere", "channel", "thread"}
  BY DEF TypeOK, Card
<1> QED
  BY <1>1 DEF TypeOK, Card

LEMMA PostedTyped ==
    ASSUME TypeOK, job.call \in Calls
    PROVE  Posted \in [Calls -> Card]
  BY DEF Posted, TypeOK, Card, BranchStates

LEMMA LostTyped ==
    ASSUME TypeOK, Renders, IF pc = "edit" THEN EditLost ELSE CardLost
    PROVE  card' \in [Calls -> Card] /\ missed' \in SUBSET Calls
<1>1. pc \in {"card", "edit"} => job.call \in Calls
  BY RenderInHand DEF InRender
<1>2. CASE pc = "edit"
  BY <1>1, <1>2, CardTyped, CardStateTyped DEF EditLost, TypeOK
<1>3. CASE pc = "card"
  BY <1>1, <1>3, PostedTyped DEF CardLost, TypeOK
<1>4. CASE pc \notin {"card", "edit"}
  BY <1>4 DEF CardLost, TypeOK
<1> QED
  BY <1>2, <1>3, <1>4

LEMMA ChunkTyped ==
    ASSUME TypeOK, job.call \in Calls, ChunkLost
    PROVE  answered' \in SUBSET Calls /\ unheard' \in SUBSET Calls
  BY DEF ChunkLost, TypeOK

-----------------------------------------------------------------------------
(* Type correctness *)

LEMMA TurnInit == ASSUME TurnAssumption, Init PROVE TypeOK /\ Renders
<1> USE DEF Init
<1>1. agent \in [Frames -> Agents \cup {Nobody}] /\ acting \in Agents \cup {Nobody}
  OBVIOUS
<1>2. consult \in [Calls -> Consultation]
  BY DEF Consultation, Frames
<1>3. card \in [Calls -> Card] /\ branch \in [Calls -> BranchStates \cup {"none"}]
  BY DEF Card
<1>4. human \in [Calls -> RowStates] /\ audit \in [Calls -> RowStates]
  BY DEF RowStates
<1>5. sealed \in [Surfaces -> {"none", "live", "sealed"}]
  OBVIOUS
<1> QED
  BY <1>1, <1>2, <1>3, <1>4, <1>5 DEF TypeOK, Places, Renders

LEMMA TurnTypeStep ==
    ASSUME TurnAssumption, TypeOK, Renders, [Next]_vars
    PROVE  TypeOK' /\ Renders'
<1> USE DEF TypeOK, Places, Renders
<1>0. 0 \in 0 .. MaxChunks
  BY TurnAssumption DEF TurnAssumption
<1>1. CASE Start
  <2>1. PICK target \in Agents : agent' = [agent EXCEPT ![Top] = target] /\ acting' = target
    <3>1. PICK m \in Mentions : \E i \in DOMAIN m :
                 agent' = [agent EXCEPT ![Top] = m[i]] /\ acting' = m[i]
      BY <1>1 DEF Start
    <3>2. PICK i \in DOMAIN m : agent' = [agent EXCEPT ![Top] = m[i]] /\ acting' = m[i]
      BY <3>1
    <3>3. m[i] \in Agents
      BY <3>2, TurnAssumption DEF TurnAssumption
    <3> QED
      BY <3>2, <3>3
  <2> QED
    BY <1>1, <2>1 DEF Start, Frames, traces
<1>2. CASE NotStarted
  BY <1>2 DEF NotStarted, run, projector, traces
<1>3. CASE Step
  BY <1>3, AliveTyped DEF Step, Draining, Surfaces, run, projector
<1>4. CASE Handoff
  <2>1. PICK f \in Working, target \in Agents :
               /\ agent' = [agent EXCEPT ![f] = target]
               /\ acting' = HandsOver(agent[f], target)
               /\ sealed' \in {sealed, Alive("human"), Alive("audit")}
    BY <1>4 DEF Handoff
  <2>2. f \in Frames /\ acting' \in Agents \cup {Nobody}
    BY <2>1 DEF Working, HandsOver
  <2>3. sealed' \in [Surfaces -> {"none", "live", "sealed"}]
    BY <2>1, AliveTyped DEF Surfaces
  <2> QED
    BY <1>4, <2>1, <2>2, <2>3 DEF Handoff, Draining, projector
<1>5. CASE OwnerConsult
  <2> PICK f \in Working, c \in Calls, peer \in Agents \cup {Nobody} :
             Consults(f, c, peer) /\ job' = Job("request", c, TRUE)
    BY <1>5 DEF OwnerConsult
  <2>1. agent[f] \in Agents \cup {Nobody} /\ f \in Frames
    BY DEF Working
  <2>2. consult' \in [Calls -> Consultation] /\ agent' \in [Frames -> Agents \cup {Nobody}]
    BY <2>1 DEF Consults, Consultation, Frames
  <2>3. job' \in {NoJob} \cup Rendering /\ job'.kind = "request"
    <3>1. "request" \in Kinds
      BY DEF Kinds
    <3>2. Job("request", c, TRUE) \in Rendering /\ Job("request", c, TRUE).kind = "request"
      BY <3>1, <1>0 DEF Job, Rendering
    <3> QED
      BY <3>2
  <2> QED
    BY <1>5, <2>2, <2>3 DEF OwnerConsult, projector, traces
<1>6. CASE NestedConsult
  <2> PICK f \in Working, c \in Calls, peer \in Agents \cup {Nobody} : Consults(f, c, peer)
    BY <1>6 DEF NestedConsult
  <2>1. agent[f] \in Agents \cup {Nobody} /\ f \in Frames
    BY DEF Working
  <2>2. consult' \in [Calls -> Consultation] /\ agent' \in [Frames -> Agents \cup {Nobody}]
    BY <2>1 DEF Consults, Consultation, Frames
  <2>3. audit' \in [Calls -> RowStates]
    BY <1>6 DEF NestedConsult, RowStates
  <2>4. sealed' \in [Surfaces -> {"none", "live", "sealed"}]
    BY <1>6, AliveTyped DEF NestedConsult, Surfaces
  <2> QED
    BY <1>6, <2>2, <2>3, <2>4 DEF NestedConsult, Draining, projector
<1>7. CASE OwnerResult
  <2> PICK c \in Calls, outcome \in Outcomes :
             /\ Answers(c, outcome)
             /\ branch' = RecordsFirst(c, outcome)
             /\ pc' = Suspends(c, outcome)
             /\ IF pc' = "draining"
                THEN human' = Resolved(human, c, outcome) /\ UNCHANGED job
                ELSE job' = Job(outcome, c, TRUE) /\ UNCHANGED human
    BY <1>7 DEF OwnerResult
  <2>1. consult' \in [Calls -> Consultation] /\ agent' \in [Frames -> Agents \cup {Nobody}]
    BY DEF Answers, Consultation, Frames
  <2>2. branch' \in [Calls -> BranchStates \cup {"none"}]
    BY CardStateTyped DEF RecordsFirst
  <2>3. /\ pc' \in {"edit", "flush", "draining"}
        /\ pc' = "flush" => outcome = "reply"
    BY DEF Suspends
  <2>4. /\ Job(outcome, c, TRUE) \in Rendering
        /\ Job(outcome, c, TRUE).kind = outcome
    BY JobTyped DEF Kinds
  <2>5. /\ job' \in {NoJob} \cup Rendering
        /\ pc' # "draining" => job'.kind = outcome
    BY <1>7, <2>4 DEF OwnerResult
  <2>6. human' \in [Calls -> RowStates]
    <3>1. Resolved(human, c, outcome) \in [Calls -> RowStates]
      BY RowsTyped
    <3> QED
      BY <3>1
  <2> QED
    BY <1>7, <2>1, <2>2, <2>3, <2>5, <2>6 DEF OwnerResult
<1>8. CASE NestedResult
  <2> PICK c \in Calls, outcome \in Outcomes :
             /\ Answers(c, outcome)
             /\ branch' = RecordsFirst(c, outcome)
             /\ pc' = Suspends(c, outcome)
             /\ audit' = Resolved(audit, c, outcome)
             /\ job' = IF pc' = "draining" THEN NoJob ELSE Job(outcome, c, FALSE)
    BY <1>8 DEF NestedResult
  <2>1. consult' \in [Calls -> Consultation] /\ agent' \in [Frames -> Agents \cup {Nobody}]
    BY DEF Answers, Consultation, Frames
  <2>2. branch' \in [Calls -> BranchStates \cup {"none"}]
    BY CardStateTyped DEF RecordsFirst
  <2>3. /\ pc' \in {"edit", "flush", "draining"}
        /\ pc' = "flush" => outcome = "reply"
    BY DEF Suspends
  <2>4. /\ Job(outcome, c, FALSE) \in Rendering
        /\ Job(outcome, c, FALSE).kind = outcome
    BY JobTyped DEF Kinds
  <2>5. /\ job' \in {NoJob} \cup Rendering
        /\ pc' # "draining" => job'.kind = outcome
    BY <1>8, <2>4 DEF NestedResult
  <2>6. audit' \in [Calls -> RowStates]
    BY RowsTyped
  <2> QED
    BY <1>8, <2>1, <2>2, <2>3, <2>5, <2>6 DEF NestedResult
<1>9. CASE Terminal
  <2>1. human' \in [Calls -> RowStates] /\ audit' \in [Calls -> RowStates]
    BY <1>9, RowsStranded DEF Terminal
  <2>2. sealed' \in [Surfaces -> {"none", "live", "sealed"}]
    BY <1>9, ClosedTyped DEF Terminal
  <2> QED
    BY <1>9, <2>1, <2>2 DEF Terminal, RunLeft, projector
<1>10. CASE Raised
  <2>1. Stranded(human) \in [Calls -> RowStates]
    BY RowsStranded
  <2>2. [sealed EXCEPT !["human"] = Closed("human")]
            \in [Surfaces -> {"none", "live", "sealed"}]
    BY ClosedTyped DEF Surfaces
  <2> QED
    BY <1>10, <2>1, <2>2
       DEF Raised, Draining, LeaveDrain, LeaveFor, RunLeft, projector
<1>11. CASE Cancelled
  <2>1. Stranded(human) \in [Calls -> RowStates]
    BY RowsStranded
  <2>2. [sealed EXCEPT !["human"] = Closed("human")]
            \in [Surfaces -> {"none", "live", "sealed"}]
    BY ClosedTyped DEF Surfaces
  <2>3. card' \in [Calls -> Card] /\ missed' \in SUBSET Calls
    <3>1. IF pc = "edit" THEN EditLost ELSE CardLost
      BY <1>11 DEF Cancelled
    <3> QED
      BY <3>1, LostTyped
  <2>4. /\ pc' \in {"closing_human", "finishing", "done"}
        /\ job' = NoJob
        /\ agent' \in [Frames -> Agents \cup {Nobody}]
        /\ acting' \in Agents \cup {Nobody}
        /\ human' \in [Calls -> RowStates]
        /\ sealed' \in [Surfaces -> {"none", "live", "sealed"}]
    BY <1>11, <2>1, <2>2 DEF Cancelled, LeaveDrain, LeaveFor, RunLeft
  <2>5. registered' \in BOOLEAN
    BY <1>11 DEF Cancelled
  <2>6. answered' \in SUBSET Calls /\ unheard' \in SUBSET Calls
    <3>1. CASE pc = "chunk"
      BY <1>11, <3>1, RenderInHand, ChunkTyped DEF Cancelled, InRender
    <3>2. CASE pc # "chunk"
      BY <1>11, <3>2 DEF Cancelled
    <3> QED
      BY <3>1, <3>2
  <2> QED
    BY <1>11, <2>3, <2>4, <2>5, <2>6 DEF Cancelled
<1>12. CASE CardSent
  <2>1. InRender
    BY <1>12 DEF CardSent, InRender
  <2>2. job \in Rendering /\ job.call \in Calls /\ job.chunks \in 0 .. MaxChunks
    BY <2>1, RenderInHand
  <2>3. branch' \in [Calls -> BranchStates \cup {"none"}] /\ card' \in [Calls -> Card]
    BY <1>12, <2>2, PostedTyped DEF CardSent, BranchStates
  <2>4. CASE thread
    BY <1>12, <2>2, <2>3, <2>4, RenderEndsTyped DEF CardSent, run
  <2>5. CASE ~thread
    BY <1>12, <2>2, <2>3, <2>5 DEF CardSent, run
  <2> QED
    BY <2>4, <2>5
<1>13. CASE ThreadMade
  <2>1. InRender
    BY <1>13 DEF ThreadMade, InRender
  <2>2. job \in Rendering /\ job.call \in Calls /\ job.chunks \in 0 .. MaxChunks
    BY <2>1, RenderInHand
  <2>3. RenderEnds(TRUE)
    BY <1>13 DEF ThreadMade
  <2> QED
    BY <1>13, <2>2, <2>3, RenderEndsTyped DEF ThreadMade, run
<1>14. CASE OpenFails
  <2>1. InRender
    BY <1>14 DEF OpenFails, InRender
  <2>2. job \in Rendering /\ job.call \in Calls /\ job.chunks \in 0 .. MaxChunks
    BY <2>1, RenderInHand
  <2>3. card' \in [Calls -> Card] /\ missed' \in SUBSET Calls
    BY <1>14, LostTyped DEF OpenFails
  <2> QED
    BY <1>14, <2>2, <2>3, RenderEndsTyped DEF OpenFails, run
<1>15. CASE CardEdited
  <2>1. InRender
    BY <1>15 DEF CardEdited, InRender
  <2>2. job \in Rendering /\ job.call \in Calls /\ job.chunks \in 0 .. MaxChunks
    BY <2>1, RenderInHand
  <2>3. card' \in [Calls -> Card] /\ missed' \in SUBSET Calls
    BY <1>15, <2>2, CardStateTyped DEF CardEdited, Card
  <2>4. CASE job.kind = "reply"
    BY <1>15, <2>2, <2>3, <2>4 DEF CardEdited, AfterEdit, run
  <2>5. CASE job.kind # "reply"
    <3>1. RenderEnds(FALSE)
      BY <1>15, <2>5 DEF CardEdited, AfterEdit
    <3> QED
      BY <1>15, <2>2, <2>3, <3>1, RenderEndsTyped DEF CardEdited, run
  <2> QED
    BY <2>4, <2>5
<1>16. CASE EditFails
  <2>1. InRender
    BY <1>16 DEF EditFails, InRender
  <2>2. job \in Rendering /\ job.call \in Calls /\ job.chunks \in 0 .. MaxChunks
    BY <2>1, RenderInHand
  <2>3. card' \in [Calls -> Card] /\ missed' \in SUBSET Calls
    BY <1>16, LostTyped DEF EditFails
  <2>4. CASE job.kind = "reply"
    BY <1>16, <2>2, <2>3, <2>4 DEF EditFails, AfterEdit, run
  <2>5. CASE job.kind # "reply"
    <3>1. RenderEnds(FALSE)
      BY <1>16, <2>5 DEF EditFails, AfterEdit
    <3> QED
      BY <1>16, <2>2, <2>3, <3>1, RenderEndsTyped DEF EditFails, run
  <2> QED
    BY <2>4, <2>5
<1>17. CASE Flushed
  <2>1. InRender
    BY <1>17 DEF Flushed, InRender
  <2>2. job \in Rendering /\ job.call \in Calls /\ job.chunks \in 0 .. MaxChunks
    BY <2>1, RenderInHand
  <2>3. job' \in Rendering /\ job'.kind = "reply"
    BY <1>17, <2>2, TurnAssumption DEF Flushed, Rendering, TurnAssumption
  <2> QED
    BY <1>17, <2>3 DEF Flushed, run, projector, traces
<1>18. CASE ChunkSent
  <2>1. InRender
    BY <1>18 DEF ChunkSent, InRender
  <2>2. job \in Rendering /\ job.call \in Calls /\ job.chunks \in 0 .. MaxChunks
    BY <2>1, RenderInHand
  <2>3. /\ answered' \in SUBSET Calls
        /\ branch' \in [Calls -> BranchStates \cup {"none"}]
    BY <1>18, <2>2 DEF ChunkSent, BranchStates
  <2>4. CASE job.chunks > 1
    <3>1. job' \in Rendering /\ job'.kind = "reply"
      BY <1>18, <2>2, <2>4, TurnAssumption DEF ChunkSent, Rendering, TurnAssumption
    <3> QED
      BY <1>18, <2>3, <2>4, <3>1 DEF ChunkSent, run
  <2>5. CASE ~(job.chunks > 1)
    BY <1>18, <2>2, <2>3, <2>5, RenderEndsTyped DEF ChunkSent, run
  <2> QED
    BY <2>4, <2>5
<1>19. CASE ChunkFails
  <2>1. InRender
    BY <1>19 DEF ChunkFails, InRender
  <2>2. job \in Rendering /\ job.call \in Calls /\ job.chunks \in 0 .. MaxChunks
    BY <2>1, RenderInHand
  <2>3. answered' \in SUBSET Calls /\ unheard' \in SUBSET Calls
    BY <1>19, <2>2, ChunkTyped DEF ChunkFails
  <2> QED
    BY <1>19, <2>2, <2>3, RenderEndsTyped DEF ChunkFails, run
<1>20. CASE HumanClosed
  BY <1>20 DEF HumanClosed, run, projector, traces
<1>21. CASE Result
  BY <1>21 DEF Result, run, projector, traces
<1>22. CASE FaultCard
  <2>1. branch' \in [Calls -> BranchStates \cup {"none"}]
    BY <1>22 DEF FaultCard, BranchStates
  <2>2. job' \in Rendering /\ job'.kind = "fault"
    <3>1. PICK c \in Calls : job' = Job("fault", c, FALSE)
      BY <1>22 DEF FaultCard, Dangling, Open
    <3>2. {"fault", "interrupt"} \subseteq Kinds
      BY DEF Kinds
    <3>3. Job("fault", c, FALSE) \in Rendering /\ Job("fault", c, FALSE).kind = "fault"
      BY <3>2, <1>0 DEF Job, Rendering
    <3> QED
      BY <3>1, <3>3
  <2> QED
    BY <1>22, <2>1, <2>2 DEF FaultCard, run, traces
<1>23. CASE FaultsShown
  BY <1>23 DEF FaultsShown, run, projector, traces
<1>24. CASE Reply
  BY <1>24 DEF Reply, run, projector, traces
<1>25. CASE StickySet
  BY <1>25 DEF StickySet, run, projector, traces
<1>26. CASE Notice
  BY <1>26 DEF Notice, run, projector, traces
<1>27. CASE FinishCard
  <2>1. branch' \in [Calls -> BranchStates \cup {"none"}]
    BY <1>27 DEF FinishCard, BranchStates
  <2>2. job' \in Rendering /\ job'.kind = "interrupt"
    <3>1. PICK c \in Calls : job' = Job("interrupt", c, FALSE)
      BY <1>27 DEF FinishCard, Pending
    <3>2. {"fault", "interrupt"} \subseteq Kinds
      BY DEF Kinds
    <3>3. Job("interrupt", c, FALSE) \in Rendering /\ Job("interrupt", c, FALSE).kind = "interrupt"
      BY <3>2, <1>0 DEF Job, Rendering
    <3> QED
      BY <3>1, <3>3
  <2> QED
    BY <1>27, <2>1, <2>2 DEF FinishCard, run, traces
<1>28. CASE FinishTrace
  <2>1. audit' \in [Calls -> RowStates]
    BY <1>28, RowsStranded DEF FinishTrace
  <2>2. sealed' \in [Surfaces -> {"none", "live", "sealed"}]
    BY <1>28, ClosedTyped DEF FinishTrace, Surfaces
  <2> QED
    BY <1>28, <2>1, <2>2 DEF FinishTrace, run, projector
<1>29. CASE AuditClosed
  BY <1>29 DEF AuditClosed, run, traces
<1>30. CASE UNCHANGED vars
  BY <1>30 DEF vars, run, projector, traces
<1> QED
  BY <1>1, <1>2, <1>3, <1>4, <1>5, <1>6, <1>7, <1>8, <1>9, <1>10, <1>11, <1>12, <1>13, <1>14, <1>15, <1>16, <1>17, <1>18, <1>19, <1>20, <1>21, <1>22, <1>23, <1>24, <1>25, <1>26, <1>27, <1>28, <1>29, <1>30
     DEF Next, Environment, Handler, Done

-----------------------------------------------------------------------------
(* Who is in control *)

\* No consulted agent at work is the owner.
OwnerAlone == \A f \in Working \ {Top} : agent[f] # agent[Top]

\* Before the run starts nobody is at work.
Unstarted == pc = "routing" => \A f \in Frames : agent[f] = Nobody

Owner == KnowsOwner /\ OwnerAlone /\ Unstarted

\* What only renders, delivers or retires leaves the run alone.
LEMMA RunKept ==
    ASSUME \/ NotStarted
           \/ Step
           \/ CardSent
           \/ ThreadMade
           \/ OpenFails
           \/ CardEdited
           \/ EditFails
           \/ Flushed
           \/ ChunkSent
           \/ ChunkFails
           \/ HumanClosed
           \/ Result
           \/ FaultCard
           \/ FaultsShown
           \/ Reply
           \/ StickySet
           \/ Notice
           \/ FinishCard
           \/ FinishTrace
           \/ AuditClosed
    PROVE  UNCHANGED <<agent, consult, acting>> /\ (pc' = "routing" => pc = "routing")
<1>1. CASE NotStarted
  BY <1>1 DEF NotStarted, run
<1>2. CASE Step
  BY <1>2 DEF Step, run
<1>3. CASE CardSent
  BY <1>3 DEF CardSent, run, RenderEnds
<1>4. CASE ThreadMade
  BY <1>4 DEF ThreadMade, run, RenderEnds
<1>5. CASE OpenFails
  BY <1>5 DEF OpenFails, run, RenderEnds
<1>6. CASE CardEdited
  BY <1>6 DEF CardEdited, run, AfterEdit, RenderEnds
<1>7. CASE EditFails
  BY <1>7 DEF EditFails, run, AfterEdit, RenderEnds
<1>8. CASE Flushed
  BY <1>8 DEF Flushed, run
<1>9. CASE ChunkSent
  BY <1>9 DEF ChunkSent, run, RenderEnds
<1>10. CASE ChunkFails
  BY <1>10 DEF ChunkFails, run, RenderEnds
<1>11. CASE HumanClosed
  BY <1>11 DEF HumanClosed, run
<1>12. CASE Result
  BY <1>12 DEF Result, run
<1>13. CASE FaultCard
  BY <1>13 DEF FaultCard, run
<1>14. CASE FaultsShown
  BY <1>14 DEF FaultsShown, run
<1>15. CASE Reply
  BY <1>15 DEF Reply, run
<1>16. CASE StickySet
  BY <1>16 DEF StickySet, run
<1>17. CASE Notice
  BY <1>17 DEF Notice, run
<1>18. CASE FinishCard
  BY <1>18 DEF FinishCard, run
<1>19. CASE FinishTrace
  BY <1>19 DEF FinishTrace, run
<1>20. CASE AuditClosed
  BY <1>20 DEF AuditClosed, run
<1> QED
  BY <1>1, <1>2, <1>3, <1>4, <1>5, <1>6, <1>7, <1>8, <1>9, <1>10, <1>11, <1>12, <1>13, <1>14, <1>15, <1>16, <1>17, <1>18, <1>19, <1>20

LEMMA OwnerStep ==
    ASSUME TurnAssumption, ~Reentrant, TypeOK, Owner, [Next]_vars
    PROVE  Owner'
<1> USE DEF Owner, KnowsOwner, OwnerAlone, Unstarted
<1>0. Top \in Frames /\ Top \notin Calls /\ Nobody \notin Agents
  BY TurnAssumption DEF Frames, TurnAssumption
<1>1. CASE Start
  <2>1. PICK target : agent' = [agent EXCEPT ![Top] = target] /\ acting' = target
    BY <1>1 DEF Start
  <2>2. \A f \in Frames \ {Top} : agent'[f] = Nobody
    BY <1>1, <2>1 DEF Start, TypeOK
  <2>3. pc' = "draining" /\ agent'[Top] = acting'
    BY <1>1, <1>0, <2>1 DEF Start, TypeOK
  <2> QED
    BY <2>2, <2>3 DEF Working
<1>2. CASE Handoff
  <2>1. PICK f \in Working, target \in Agents :
               /\ target \in CanTake(f)
               /\ agent' = [agent EXCEPT ![f] = target]
               /\ acting' = HandsOver(agent[f], target)
               /\ consult' = consult /\ pc = "draining" /\ pc' = pc
    BY <1>2 DEF Handoff, Draining
  <2>2. Working' \subseteq Working /\ f \in Frames
    BY <2>1 DEF Working, Open, TypeOK
  <2>3. CASE f = Top
    BY <1>0, <2>1, <2>2, <2>3 DEF HandsOver, IsActing, CanTake, TypeOK
  <2>4. CASE f # Top
    BY <1>0, <2>1, <2>2, <2>4 DEF HandsOver, IsActing, CanTake, TypeOK
  <2> QED
    BY <2>3, <2>4
<1>3. CASE OwnerConsult \/ NestedConsult
  <2>1. PICK f \in Working, c \in Calls, peer \in Agents \cup {Nobody} :
               Consults(f, c, peer)
    BY <1>3 DEF OwnerConsult, NestedConsult
  <2>2. acting' = acting /\ pc' # "routing" /\ c # Top
    BY <1>0, <1>3 DEF OwnerConsult, NestedConsult, Draining
  <2>3. /\ agent' = [agent EXCEPT ![c] = peer]
        /\ peer = Nobody \/ peer # agent[Top]
        /\ \A d \in Calls \ {c} : consult'[d] = consult[d]
    BY <2>1 DEF Consults, CanConsult, TypeOK
  <2>4. agent'[Top] = agent[Top] /\ \A d \in Calls \ {c} : agent'[d] = agent[d]
    BY <1>0, <2>2, <2>3 DEF TypeOK, Frames
  <2>5. agent'[c] = peer
    BY <2>3 DEF TypeOK, Frames
  <2> QED
    BY <2>2, <2>3, <2>4, <2>5 DEF Working, Open, Frames
<1>4. CASE OwnerResult \/ NestedResult
  <2>1. PICK c \in Calls, outcome \in Outcomes : Answers(c, outcome)
    BY <1>4 DEF OwnerResult, NestedResult
  <2>2. acting' = acting /\ pc' # "routing" /\ c # Top
    BY <1>0, <1>4 DEF OwnerResult, NestedResult, Suspends
  <2>3. /\ agent' = [agent EXCEPT ![c] = Nobody]
        /\ \A d \in Calls \ {c} : consult'[d] = consult[d]
    BY <2>1 DEF Answers, TypeOK
  <2>4. agent'[Top] = agent[Top] /\ \A d \in Calls \ {c} : agent'[d] = agent[d]
    BY <1>0, <2>2, <2>3 DEF TypeOK, Frames
  <2>5. agent'[c] = Nobody
    BY <2>3 DEF TypeOK, Frames
  <2> QED
    BY <2>2, <2>3, <2>4, <2>5 DEF Working, Open, Frames
<1>5. CASE RunLeft
  BY <1>0, <1>5 DEF RunLeft, Working, Frames
<1>6. CASE UNCHANGED <<agent, consult, acting>> /\ (pc' = "routing" => pc = "routing")
  BY <1>6 DEF Working, Open
<1>7. Terminal => RunLeft
  BY DEF Terminal
<1>8. Raised \/ Cancelled =>
         \/ RunLeft
         \/ UNCHANGED <<agent, consult, acting>> /\ (pc' = "routing" => pc = "routing")
  BY DEF Raised, Cancelled, LeaveDrain, LeaveFor
<1>9. UNCHANGED vars => UNCHANGED <<agent, consult, acting>> /\ pc' = pc
  BY DEF vars, run
<1> QED
  BY <1>1, <1>2, <1>3, <1>4, <1>5, <1>6, <1>7, <1>8, <1>9, RunKept
     DEF Next, Environment, Handler, Done

\* The state of a turn keeps its types along every turn (MentionHandler.handle).
THEOREM TurnTypeCorrect == Spec => []TypeOK
<1>1. Init => TypeOK /\ Renders
  BY TurnInit, TurnAssumption
<1>2. TypeOK /\ Renders /\ [Next]_vars => (TypeOK /\ Renders)'
  BY TurnTypeStep, TurnAssumption
<1> QED
  BY <1>1, <1>2, PTL DEF Spec

LEMMA OwnerInit == ASSUME Init PROVE Owner
<1>1. Working = {Top} /\ acting = agent[Top]
  BY DEF Init, Working, Frames, Open
<1> QED
  BY <1>1 DEF Init, Owner, KnowsOwner, OwnerAlone, Unstarted

\* acting_agent is the agent in control of the human's turn throughout the
\* drain, however consults nest and agents hand over, as long as the owner is
\* at work in no consult's frame (_drain_and_deliver).
THEOREM OwnerKnown ==
    ASSUME ~Reentrant
    PROVE  Spec => []KnowsOwner
<1>1. Init => TypeOK /\ Renders /\ Owner
  BY TurnInit, OwnerInit, TurnAssumption
<1>2. TypeOK /\ Renders /\ Owner /\ [Next]_vars => (TypeOK /\ Renders /\ Owner)'
  BY TurnTypeStep, OwnerStep, TurnAssumption
<1>3. Owner => KnowsOwner
  BY DEF Owner
<1> QED
  BY <1>1, <1>2, <1>3, PTL DEF Spec

-----------------------------------------------------------------------------
(* Where a consult shows *)

\* A consult the run has not made shows nowhere.
Unmade ==
    \A c \in Calls :
        consult[c].status = "none" =>
            /\ consult[c].parent = Top
            /\ human[c] = "none" /\ audit[c] = "none" /\ branch[c] = "none"
            /\ c \notin linked

\* The card being posted is that of a consult the owner made.
OwnCard ==
    pc \in {"card", "thread"} =>
        consult[job.call].status # "none" /\ consult[job.call].parent = Top

Private == PrivateConsults /\ Unmade /\ OwnCard

\* No row, card or link appears where there was none, and no consult is made.
NothingNew ==
    \A d \in Calls :
        /\ consult'[d].parent = consult[d].parent
        /\ consult'[d].status = "none" => consult[d].status = "none"
        /\ human[d] = "none" => human'[d] = "none"
        /\ audit[d] = "none" => audit'[d] = "none"
        /\ branch[d] = "none" => branch'[d] = "none"
        /\ d \in linked' => d \in linked

LEMMA NoneStays ==
    ASSUME NEW rows \in [Calls -> RowStates], NEW c, NEW outcome,
           NEW d \in Calls, rows[d] = "none"
    PROVE  Resolved(rows, c, outcome)[d] = "none" /\ Stranded(rows)[d] = "none"
  BY DEF Resolved, Stranded

LEMMA RenderShowsNothing ==
    ASSUME TypeOK, job.kind # "request", NEW receipt, RenderEnds(receipt)
    PROVE  /\ \A d \in Calls : human[d] = "none" => human'[d] = "none"
           /\ linked' = linked
           /\ pc' \notin {"card", "thread"}
  BY NoneStays DEF RenderEnds, TypeOK

\* Only a consult that is made, or its card, shows anything new.
LEMMA NothingNewStep ==
    ASSUME TypeOK, Renders,
           \/ Start
           \/ NotStarted
           \/ Step
           \/ Handoff
           \/ OwnerResult
           \/ NestedResult
           \/ Terminal
           \/ Raised
           \/ Cancelled
           \/ CardEdited
           \/ EditFails
           \/ Flushed
           \/ ChunkSent
           \/ ChunkFails
           \/ HumanClosed
           \/ Result
           \/ FaultCard
           \/ FaultsShown
           \/ Reply
           \/ StickySet
           \/ Notice
           \/ FinishCard
           \/ FinishTrace
           \/ AuditClosed
    PROVE  NothingNew /\ pc' \notin {"card", "thread"}
<1> USE DEF NothingNew
<1>1. CASE Start
  BY <1>1 DEF Start, traces
<1>2. CASE NotStarted
  BY <1>2 DEF NotStarted, run, projector, traces
<1>3. CASE Step
  BY <1>3 DEF Step, run, projector, Draining
<1>4. CASE Handoff
  BY <1>4 DEF Handoff, projector, Draining
<1>5. CASE OwnerResult
  <2>1. PICK c \in Calls, outcome \in Outcomes :
               /\ Answers(c, outcome)
               /\ branch' = RecordsFirst(c, outcome)
               /\ pc' = Suspends(c, outcome)
               /\ human' \in {human, Resolved(human, c, outcome)}
               /\ audit' \in {audit, Resolved(audit, c, outcome)}
               /\ linked' = linked
    BY <1>5 DEF OwnerResult
  <2>2. consult'[c].status = outcome /\ outcome # "none"
    BY <2>1 DEF Answers, TypeOK, Consultation, Outcomes
  <2>3. \A d \in Calls : consult'[d].parent = consult[d].parent
    BY <2>1 DEF Answers, TypeOK, Consultation
  <2>4. \A d \in Calls \ {c} : consult'[d] = consult[d]
    BY <2>1 DEF Answers, TypeOK
  <2>5. \A d \in Calls : branch[d] = "none" => branch'[d] = "none"
    BY <2>1 DEF RecordsFirst, TypeOK
  <2>6. \A d \in Calls :
            /\ human[d] = "none" => human'[d] = "none"
            /\ audit[d] = "none" => audit'[d] = "none"
    BY <2>1, NoneStays DEF TypeOK
  <2>7. pc' \notin {"card", "thread"}
    BY <2>1 DEF Suspends
  <2>8. \A d \in Calls : consult'[d].status = "none" => consult[d].status = "none"
    BY <2>2, <2>4
  <2>9. linked' = linked
    BY <2>1
  <2> QED
    BY <2>3, <2>5, <2>6, <2>7, <2>8, <2>9
<1>6. CASE NestedResult
  <2>1. PICK c \in Calls, outcome \in Outcomes :
               /\ Answers(c, outcome)
               /\ branch' = RecordsFirst(c, outcome)
               /\ pc' = Suspends(c, outcome)
               /\ human' \in {human, Resolved(human, c, outcome)}
               /\ audit' \in {audit, Resolved(audit, c, outcome)}
               /\ linked' = linked
    BY <1>6 DEF NestedResult
  <2>2. consult'[c].status = outcome /\ outcome # "none"
    BY <2>1 DEF Answers, TypeOK, Consultation, Outcomes
  <2>3. \A d \in Calls : consult'[d].parent = consult[d].parent
    BY <2>1 DEF Answers, TypeOK, Consultation
  <2>4. \A d \in Calls \ {c} : consult'[d] = consult[d]
    BY <2>1 DEF Answers, TypeOK
  <2>5. \A d \in Calls : branch[d] = "none" => branch'[d] = "none"
    BY <2>1 DEF RecordsFirst, TypeOK
  <2>6. \A d \in Calls :
            /\ human[d] = "none" => human'[d] = "none"
            /\ audit[d] = "none" => audit'[d] = "none"
    BY <2>1, NoneStays DEF TypeOK
  <2>7. pc' \notin {"card", "thread"}
    BY <2>1 DEF Suspends
  <2>8. \A d \in Calls : consult'[d].status = "none" => consult[d].status = "none"
    BY <2>2, <2>4
  <2>9. linked' = linked
    BY <2>1
  <2> QED
    BY <2>3, <2>5, <2>6, <2>7, <2>8, <2>9
<1>7. CASE Terminal
  BY <1>7, NoneStays DEF Terminal, projector, TypeOK
<1>8. CASE Raised
  <2>1. UNCHANGED <<consult, linked, audit, branch>> /\ pc' \notin {"card", "thread"}
    BY <1>8 DEF Raised, LeaveDrain, LeaveFor, projector
  <2>2. human' \in {human, Stranded(human)}
    BY <1>8 DEF Raised, LeaveDrain, LeaveFor
  <2> QED
    BY <2>1, <2>2, NoneStays DEF TypeOK
<1>9. CASE Cancelled
  BY <1>9, NoneStays DEF Cancelled, LeaveDrain, LeaveFor, TypeOK
<1>10. CASE CardEdited
  <2>1. job.kind # "request" /\ UNCHANGED <<consult, audit, branch>>
    BY <1>10 DEF CardEdited, Renders, Outcomes, run
  <2> QED
    BY <1>10, <2>1, RenderShowsNothing DEF CardEdited, AfterEdit
<1>11. CASE EditFails
  <2>1. job.kind # "request" /\ UNCHANGED <<consult, audit, branch>>
    BY <1>11 DEF EditFails, Renders, Outcomes, run
  <2> QED
    BY <1>11, <2>1, RenderShowsNothing DEF EditFails, AfterEdit
<1>12. CASE Flushed
  BY <1>12 DEF Flushed, run, projector, traces
<1>13. CASE ChunkSent
  <2>1. job.kind # "request" /\ UNCHANGED <<consult, audit>>
    BY <1>13 DEF ChunkSent, Renders, Outcomes, run
  <2>2. \A d \in Calls : branch[d] = "none" => branch'[d] = "none"
    BY <1>13 DEF ChunkSent, TypeOK
  <2> QED
    BY <1>13, <2>1, <2>2, RenderShowsNothing DEF ChunkSent
<1>14. CASE ChunkFails
  <2>1. job.kind # "request" /\ UNCHANGED <<consult, audit, branch>>
    BY <1>14 DEF ChunkFails, Renders, Outcomes, run
  <2> QED
    BY <1>14, <2>1, RenderShowsNothing DEF ChunkFails
<1>15. CASE HumanClosed
  BY <1>15 DEF HumanClosed, run, projector, traces
<1>16. CASE Result
  BY <1>16 DEF Result, run, projector, traces
<1>17. CASE FaultCard
  BY <1>17 DEF FaultCard, run, projector, traces, TypeOK
<1>18. CASE FaultsShown
  BY <1>18 DEF FaultsShown, run, projector, traces
<1>19. CASE Reply
  BY <1>19 DEF Reply, run, projector, traces
<1>20. CASE StickySet
  BY <1>20 DEF StickySet, run, projector, traces
<1>21. CASE Notice
  BY <1>21 DEF Notice, run, projector, traces
<1>22. CASE FinishCard
  BY <1>22 DEF FinishCard, run, projector, traces, TypeOK, Pending
<1>23. CASE FinishTrace
  BY <1>23, NoneStays DEF FinishTrace, run, projector, traces, TypeOK
<1>24. CASE AuditClosed
  BY <1>24 DEF AuditClosed, run, projector, traces
<1> QED
  BY <1>1, <1>2, <1>3, <1>4, <1>5, <1>6, <1>7, <1>8, <1>9, <1>10, <1>11, <1>12, <1>13, <1>14, <1>15, <1>16, <1>17, <1>18, <1>19, <1>20, <1>21, <1>22, <1>23, <1>24

LEMMA PrivateStep ==
    ASSUME TurnAssumption, TypeOK, Renders, Owner, Private, [Next]_vars
    PROVE  Private'
<1> USE DEF Private
<1>1. CASE NothingNew /\ pc' \notin {"card", "thread"}
  BY <1>1 DEF NothingNew, PrivateConsults, Unmade, OwnCard
<1>2. CASE OwnerConsult
  <2>1. PICK f \in Working, c \in Calls, peer \in Agents \cup {Nobody} :
               /\ IsActing(agent[f])
               /\ Consults(f, c, peer)
               /\ job' = Job("request", c, TRUE)
    BY <1>2 DEF OwnerConsult
  <2>2. f = Top
    BY <2>1 DEF IsActing, Owner, KnowsOwner, OwnerAlone
  <2>3. /\ consult[c].status = "none"
        /\ consult'[c].status = "open" /\ consult'[c].parent = Top
        /\ \A d \in Calls \ {c} : consult'[d] = consult[d]
    BY <2>1, <2>2 DEF Consults, TypeOK
  <2>4. UNCHANGED <<human, audit, branch, linked>> /\ job'.call = c
    BY <1>2, <2>1 DEF OwnerConsult, projector, traces, Job
  <2> QED
    BY <2>3, <2>4 DEF PrivateConsults, Unmade, OwnCard
<1>3. CASE NestedConsult
  <2>1. PICK f \in Working, c \in Calls, peer \in Agents \cup {Nobody} :
               /\ ~IsActing(agent[f])
               /\ Consults(f, c, peer)
               /\ audit' \in {audit, [audit EXCEPT ![c] = "pending"]}
    BY <1>3 DEF NestedConsult
  <2>2. f # Top
    BY <2>1 DEF IsActing, Owner, KnowsOwner
  <2>3. /\ consult[c].status = "none"
        /\ consult'[c].status = "open" /\ consult'[c].parent # Top
        /\ \A d \in Calls \ {c} : consult'[d] = consult[d]
    BY <2>1, <2>2 DEF Consults, TypeOK
  <2>4. UNCHANGED <<human, branch, linked, pc>> /\ pc = "draining"
    BY <1>3 DEF NestedConsult, projector, Draining
  <2>5. \A d \in Calls \ {c} : audit'[d] = audit[d]
    BY <2>1 DEF TypeOK
  <2> QED
    BY <2>3, <2>4, <2>5 DEF PrivateConsults, Unmade, OwnCard
<1>4. CASE CardSent \/ ThreadMade \/ OpenFails
  <2>1. pc \in {"card", "thread"} /\ job.kind = "request" /\ job.call \in Calls
    BY <1>4, RenderInHand DEF CardSent, ThreadMade, OpenFails, Renders, InRender
  <2>2. /\ consult[job.call].status # "none" /\ consult[job.call].parent = Top
        /\ UNCHANGED <<consult, audit>>
    BY <1>4, <2>1 DEF OwnCard, CardSent, ThreadMade, OpenFails, run
  <2>3. \A d \in Calls \ {job.call} : branch'[d] = branch[d]
    BY <1>4, <2>1 DEF CardSent, ThreadMade, OpenFails, TypeOK
  <2>4. \A d \in Calls \ {job.call} : human'[d] = human[d] /\ (d \in linked' => d \in linked)
    BY <1>4, <2>1 DEF CardSent, ThreadMade, OpenFails, RenderEnds, Links, TypeOK
  <2>5. pc' \in {"card", "thread"} => job' = job
    BY <1>4 DEF CardSent, ThreadMade, OpenFails, RenderEnds
  <2> QED
    BY <2>1, <2>2, <2>3, <2>4, <2>5 DEF PrivateConsults, Unmade, OwnCard
<1>5. CASE UNCHANGED vars
  BY <1>5 DEF vars, run, projector, traces, PrivateConsults, Unmade, OwnCard
<1> QED
  BY <1>1, <1>2, <1>3, <1>4, <1>5, NothingNewStep DEF Next, Environment, Handler, Done

\* What a consulted agent asks of others never reaches the human's trace or a
\* card of its own, and what the owner asks is no row of the audit trace
\* (_drain_and_deliver, A2AProjector.project_consult).
THEOREM ConsultsPrivate ==
    ASSUME ~Reentrant
    PROVE  Spec => []PrivateConsults
<1>1. Init => TypeOK /\ Renders /\ Owner /\ Private
  <2> SUFFICES ASSUME Init PROVE Private
    BY TurnInit, OwnerInit, TurnAssumption
  <2> QED
    BY DEF Init, Private, PrivateConsults, Unmade, OwnCard
<1>2. TypeOK /\ Renders /\ Owner /\ Private /\ [Next]_vars
        => (TypeOK /\ Renders /\ Owner /\ Private)'
  BY TurnTypeStep, OwnerStep, PrivateStep, TurnAssumption
<1>3. Private => PrivateConsults
  BY DEF Private
<1> QED
  BY <1>1, <1>2, <1>3, PTL DEF Spec

-----------------------------------------------------------------------------
(* Links *)

\* The thread is made from a card that was sent.
ThreadHasCard == pc = "thread" => card[job.call].at # "nowhere"

\* Nothing is linked, the thread stays, and no card is taken away.
Unlinked ==
    /\ linked' \subseteq linked
    /\ thread' = thread
    /\ \A d \in Calls : card[d].at # "nowhere" => card'[d].at # "nowhere"
    /\ pc' # "thread"

LEMMA CardStays ==
    ASSUME TypeOK, Renders,
           \/ IF pc = "edit" THEN EditLost ELSE CardLost
           \/ pc = "edit" /\ card' = [card EXCEPT ![job.call].shows = EditState]
    PROVE  \A d \in Calls : card[d].at # "nowhere" => card'[d].at # "nowhere"
<1>1. pc \in {"card", "edit"} => job.call \in Calls
  BY RenderInHand DEF InRender
<1>2. CASE pc = "edit"
  <2>1. \A d \in Calls : [card EXCEPT ![job.call].shows = EditState][d].at = card[d].at
    BY <1>1, <1>2 DEF TypeOK, Card
  <2>2. card' \in {card, [card EXCEPT ![job.call].shows = EditState]}
    BY <1>2 DEF EditLost
  <2> QED
    BY <2>1, <2>2
<1>3. CASE pc # "edit"
  BY <1>1, <1>3 DEF CardLost, Posted, TypeOK, Card
<1> QED
  BY <1>2, <1>3

LEMMA UnlinkedStep ==
    ASSUME TypeOK, Renders,
           \/ Start
           \/ NotStarted
           \/ Step
           \/ Handoff
           \/ OwnerConsult
           \/ NestedConsult
           \/ OwnerResult
           \/ NestedResult
           \/ Terminal
           \/ Raised
           \/ Cancelled
           \/ OpenFails
           \/ CardEdited
           \/ EditFails
           \/ Flushed
           \/ ChunkSent
           \/ ChunkFails
           \/ HumanClosed
           \/ Result
           \/ FaultCard
           \/ FaultsShown
           \/ Reply
           \/ StickySet
           \/ Notice
           \/ FinishCard
           \/ FinishTrace
           \/ AuditClosed
    PROVE  Unlinked
<1> USE DEF Unlinked
<1>1. CASE Start
  BY <1>1 DEF Start, traces
<1>2. CASE NotStarted
  BY <1>2 DEF NotStarted, run, projector, traces
<1>3. CASE Step
  BY <1>3 DEF Step, run, projector, Draining
<1>4. CASE Handoff
  BY <1>4 DEF Handoff, projector, Draining
<1>5. CASE OwnerConsult
  BY <1>5 DEF OwnerConsult, projector, traces
<1>6. CASE NestedConsult
  BY <1>6 DEF NestedConsult, projector, Draining
<1>7. CASE OwnerResult
  BY <1>7 DEF OwnerResult, Suspends
<1>8. CASE NestedResult
  BY <1>8 DEF NestedResult, Suspends
<1>9. CASE Terminal
  BY <1>9 DEF Terminal, projector
<1>10. CASE Raised
  BY <1>10 DEF Raised, LeaveDrain, LeaveFor, projector
<1>11. CASE Cancelled
  <2>1. UNCHANGED <<linked, thread>> /\ pc' # "thread"
    BY <1>11 DEF Cancelled, LeaveDrain, LeaveFor
  <2> QED
    BY <1>11, <2>1, CardStays DEF Cancelled
<1>12. CASE OpenFails
  <2>1. linked' = linked /\ thread' = thread /\ pc' # "thread"
    BY <1>12 DEF OpenFails, RenderEnds, Links
  <2> QED
    BY <1>12, <2>1, CardStays DEF OpenFails
<1>13. CASE CardEdited
  <2>1. linked' = linked /\ thread' = thread /\ pc' # "thread"
    BY <1>13 DEF CardEdited, AfterEdit, RenderEnds, Renders, Outcomes
  <2> QED
    BY <1>13, <2>1, CardStays DEF CardEdited
<1>14. CASE EditFails
  <2>1. linked' = linked /\ thread' = thread /\ pc' # "thread"
    BY <1>14 DEF EditFails, AfterEdit, RenderEnds, Renders, Outcomes
  <2> QED
    BY <1>14, <2>1, CardStays DEF EditFails
<1>15. CASE Flushed
  BY <1>15 DEF Flushed, run, projector, traces
<1>16. CASE ChunkSent
  BY <1>16 DEF ChunkSent, RenderEnds, Renders, Links
<1>17. CASE ChunkFails
  BY <1>17 DEF ChunkFails, RenderEnds, Renders
<1>18. CASE HumanClosed
  BY <1>18 DEF HumanClosed, run, projector, traces
<1>19. CASE Result
  BY <1>19 DEF Result, run, projector, traces
<1>20. CASE FaultCard
  BY <1>20 DEF FaultCard, run, projector, traces
<1>21. CASE FaultsShown
  BY <1>21 DEF FaultsShown, run, projector, traces
<1>22. CASE Reply
  BY <1>22 DEF Reply, run, projector, traces
<1>23. CASE StickySet
  BY <1>23 DEF StickySet, run, projector, traces
<1>24. CASE Notice
  BY <1>24 DEF Notice, run, projector, traces
<1>25. CASE FinishCard
  BY <1>25 DEF FinishCard, run, projector, traces
<1>26. CASE FinishTrace
  BY <1>26 DEF FinishTrace, run, projector, traces
<1>27. CASE AuditClosed
  BY <1>27 DEF AuditClosed, run, projector, traces
<1> QED
  BY <1>1, <1>2, <1>3, <1>4, <1>5, <1>6, <1>7, <1>8, <1>9, <1>10, <1>11, <1>12, <1>13, <1>14, <1>15, <1>16, <1>17, <1>18, <1>19, <1>20, <1>21, <1>22, <1>23, <1>24, <1>25, <1>26, <1>27

LEMMA LinksStep ==
    ASSUME TypeOK, Renders, LinksWritten, ThreadHasCard, [Next]_vars
    PROVE  LinksWritten' /\ ThreadHasCard'
<1> USE DEF LinksWritten, ThreadHasCard
<1>1. CASE Unlinked
  BY <1>1 DEF Unlinked, TypeOK
<1>2. CASE CardSent
  <2>1. job.call \in Calls /\ job.kind = "request"
    BY <1>2, RenderInHand DEF CardSent, Renders, InRender
  <2>2. \A d \in Calls : card'[d].at = card[d].at \/ card'[d].at # "nowhere"
    BY <1>2, <2>1 DEF CardSent, Posted, TypeOK
  <2>3. card'[job.call].at # "nowhere" /\ thread' = thread
    BY <1>2, <2>1 DEF CardSent, Posted, TypeOK
  <2>4. linked' = linked \/ (thread /\ linked' = linked \cup {job.call})
    BY <1>2, <2>1 DEF CardSent, RenderEnds, Links
  <2>5. pc' = "thread" => job' = job
    BY <1>2 DEF CardSent, RenderEnds
  <2> QED
    BY <2>1, <2>2, <2>3, <2>4, <2>5 DEF TypeOK
<1>3. CASE ThreadMade
  <2>1. job.call \in Calls /\ job.kind = "request" /\ pc = "thread"
    BY <1>3, RenderInHand DEF ThreadMade, Renders, InRender
  <2>2. /\ thread' = TRUE /\ card' = card /\ pc' # "thread"
        /\ linked' = linked \cup {job.call}
    BY <1>3, <2>1 DEF ThreadMade, RenderEnds, Links
  <2> QED
    BY <2>1, <2>2
<1>4. CASE UNCHANGED vars
  BY <1>4 DEF vars, projector, traces
<1> QED
  BY <1>1, <1>2, <1>3, <1>4, UnlinkedStep DEF Next, Environment, Handler, Done

\* A row of the human's trace links to the audit thread only if the card of
\* its consult was posted there, whatever other consults of the turn did
\* (A2AProjector._open_branch and the ProjectionResult it returns).
THEOREM LinksAlwaysWritten == Spec => []LinksWritten
<1>1. Init => TypeOK /\ Renders /\ LinksWritten /\ ThreadHasCard
  <2> SUFFICES ASSUME Init PROVE LinksWritten /\ ThreadHasCard
    BY TurnInit, TurnAssumption
  <2> QED
    BY DEF Init, LinksWritten, ThreadHasCard
<1>2. TypeOK /\ Renders /\ LinksWritten /\ ThreadHasCard /\ [Next]_vars
        => (TypeOK /\ Renders /\ LinksWritten /\ ThreadHasCard)'
  BY TurnTypeStep, LinksStep, TurnAssumption
<1> QED
  BY <1>1, <1>2, PTL DEF Spec

-----------------------------------------------------------------------------
(* What is told of an outcome *)

\* The places of the drain, where no card has been interrupted yet.
Drains ==
    \/ pc \in {"routing", "draining", "card", "thread", "flush", "chunk"}
    \/ pc = "edit" /\ job.kind \in Outcomes

NoneInterrupted == Drains => \A c \in Calls : branch[c] # "interrupted"

PendingUntold ==
    \A c \in Calls :
        branch[c] = "pending" => c \notin answered \ unheard /\ consult[c].status \in {"open", "reply"}

RendersRun ==
    /\ job.kind \in Outcomes => consult[job.call].status = job.kind
    /\ job.kind \in {"fault", "interrupt"} => job.isActing = FALSE
    /\ pc \in {"card", "thread"} => consult[job.call].status = "open"

AnsweredReplied == \A c \in answered : consult[c].status = "reply"

\* What the bridge believes of a card, and what the rows say, is what the run told.
BranchesHonest ==
    \A c \in Calls :
        /\ branch[c] = "interrupted" =>
             c \notin answered \ unheard /\ consult[c].status \in {"open", "reply"}
        /\ branch[c] = "replied" => c \in answered
        /\ branch[c] \in {"rejected", "failed"} => Told(c, branch[c], CardState(consult[c].status))
        /\ human[c] \in Resolutions => Told(c, human[c], RowState(consult[c].status))
        /\ audit[c] \in Resolutions => Told(c, audit[c], RowState(consult[c].status))

Honest ==
    /\ BranchesHonest
    /\ NoneInterrupted /\ PendingUntold /\ RendersRun /\ AnsweredReplied

\* A response that shows is of a consult that replied, and the bridge was not
\* told of it.
Unheard ==
    /\ answered \subseteq answered'
    /\ answered' \ unheard' \subseteq answered \ unheard
    /\ \A d \in answered' \ answered : consult[d].status = "reply"

\* Nothing is told of any consult.
Untold ==
    /\ UNCHANGED <<consult, branch>>
    /\ Unheard
    /\ \A d \in Calls :
          /\ human'[d] \in Resolutions => human'[d] = human[d]
          /\ audit'[d] \in Resolutions => audit'[d] = audit[d]
    /\ \/ job' = NoJob
       \/ job'.kind = job.kind /\ job'.call = job.call /\ job'.isActing = job.isActing
    /\ Drains' => Drains
    /\ pc' \in {"card", "thread"} => pc' = pc /\ job' = job

LEMMA StrandedUntold ==
    ASSUME NEW rows \in [Calls -> RowStates], NEW d \in Calls,
           Stranded(rows)[d] \in Resolutions
    PROVE  Stranded(rows)[d] = rows[d]
  BY DEF Stranded, Resolutions

LEMMA LostUnheard ==
    ASSUME TypeOK, Renders, RendersRun, pc = "chunk", ChunkLost
    PROVE  Unheard
  BY DEF ChunkLost, Unheard, Renders, RendersRun, Outcomes

LEMMA UntoldStep ==
    ASSUME TypeOK, Renders, RendersRun,
           \/ Start
           \/ NotStarted
           \/ Step
           \/ Handoff
           \/ Terminal
           \/ Raised
           \/ Cancelled
           \/ Flushed
           \/ HumanClosed
           \/ Result
           \/ FaultsShown
           \/ Reply
           \/ StickySet
           \/ Notice
           \/ FinishTrace
           \/ AuditClosed
           \/ UNCHANGED vars
    PROVE  Untold
<1> USE DEF Untold, Drains
<1>0. UNCHANGED <<answered, unheard>> => Unheard
  BY DEF Unheard
<1>1. CASE Start
  BY <1>0, <1>1 DEF Start, traces
<1>2. CASE NotStarted
  BY <1>0, <1>2 DEF NotStarted, run, projector, traces
<1>3. CASE Step
  BY <1>0, <1>3 DEF Step, Draining, run, projector
<1>4. CASE Handoff
  BY <1>0, <1>4 DEF Handoff, Draining, projector
<1>5. CASE Terminal
  BY <1>0, <1>5, StrandedUntold DEF Terminal, projector, TypeOK
<1>6. CASE Raised
  <2>1. UNCHANGED <<consult, audit, branch, answered, unheard>> /\ job' = NoJob
    BY <1>0, <1>6 DEF Raised, LeaveDrain, LeaveFor, projector
  <2>2. pc' \in {"closing_human", "finishing", "done"}
    BY <1>0, <1>6 DEF Raised, LeaveDrain, LeaveFor
  <2>3. human' \in {human, Stranded(human)}
    BY <1>0, <1>6 DEF Raised, LeaveDrain, LeaveFor
  <2> QED
    BY <1>0, <2>1, <2>2, <2>3, StrandedUntold DEF TypeOK
<1>7. CASE Cancelled
  <2>0. Unheard
    BY <1>7, <1>0, LostUnheard DEF Cancelled
  <2>1. UNCHANGED <<consult, audit, branch>> /\ job' = NoJob
    BY <1>0, <1>7 DEF Cancelled, LeaveDrain, LeaveFor, projector
  <2>2. pc' \in {"closing_human", "finishing", "done"}
    BY <1>0, <1>7 DEF Cancelled, LeaveDrain, LeaveFor
  <2>3. human' \in {human, Stranded(human)}
    BY <1>0, <1>7 DEF Cancelled, LeaveDrain, LeaveFor
  <2> QED
    BY <2>0, <2>1, <2>2, <2>3, StrandedUntold DEF TypeOK
<1>8. CASE Flushed
  <2>1. job.kind = "reply" /\ job \in Rendering
    BY <1>8, RenderInHand DEF Flushed, Renders, InRender
  <2>2. job'.kind = job.kind /\ job'.call = job.call /\ job'.isActing = job.isActing
    BY <1>8, <2>1 DEF Flushed, Rendering
  <2> QED
    BY <1>0, <1>8, <2>2 DEF Flushed, run, projector, traces
<1>9. CASE HumanClosed
  BY <1>0, <1>9 DEF HumanClosed, run, projector, traces
<1>10. CASE Result
  BY <1>0, <1>10 DEF Result, run, projector, traces
<1>11. CASE FaultsShown
  BY <1>0, <1>11 DEF FaultsShown, run, projector, traces
<1>12. CASE Reply
  BY <1>0, <1>12 DEF Reply, run, projector, traces
<1>13. CASE StickySet
  BY <1>0, <1>13 DEF StickySet, run, projector, traces
<1>14. CASE Notice
  BY <1>0, <1>14 DEF Notice, run, projector, traces
<1>15. CASE FinishTrace
  BY <1>0, <1>15, StrandedUntold DEF FinishTrace, run, projector, TypeOK
<1>16. CASE AuditClosed
  BY <1>0, <1>16 DEF AuditClosed, run, projector, traces
<1>17. CASE UNCHANGED vars
  BY <1>0, <1>17 DEF vars, run, projector, traces
<1> QED
  BY <1>1, <1>2, <1>3, <1>4, <1>5, <1>6, <1>7, <1>8, <1>9, <1>10, <1>11, <1>12, <1>13, <1>14, <1>15, <1>16, <1>17

LEMMA HonestUntold ==
    ASSUME TypeOK, Honest, Untold
    PROVE  Honest'
<1> USE DEF Honest, Untold
<1>1. BranchesHonest'
  BY DEF BranchesHonest, Told, Unheard
<1>2. NoneInterrupted' /\ PendingUntold' /\ AnsweredReplied'
  BY DEF NoneInterrupted, PendingUntold, AnsweredReplied, Unheard
<1>3. RendersRun'
  BY DEF RendersRun, NoJob, Outcomes
<1> QED
  BY <1>1, <1>2, <1>3

\* What a projection of a result tells of the human's row, once it is rendered.
LEMMA RenderTells ==
    ASSUME TypeOK, Renders, InRender, RendersRun, NEW receipt, RenderEnds(receipt)
    PROVE  /\ \A d \in Calls :
                 human'[d] \in Resolutions =>
                     \/ human'[d] = human[d]
                     \/ /\ d = job.call /\ job.kind \in Outcomes
                        /\ human'[d] = RowState(job.kind)
           /\ job' = NoJob
           /\ Drains' => Drains
           /\ pc' \notin {"card", "thread"}
<1>0. job \in Rendering
  BY RenderInHand
<1>1. job' = NoJob /\ pc' \in {"faulting", "finishing", "draining"}
  BY DEF RenderEnds
<1>2. ASSUME NEW d \in Calls, human'[d] \in Resolutions
      PROVE  \/ human'[d] = human[d]
             \/ d = job.call /\ job.kind \in Outcomes /\ human'[d] = RowState(job.kind)
  <2>1. CASE job.kind = "request"
    BY <1>2, <2>1 DEF RenderEnds, Resolutions, TypeOK
  <2>2. CASE job.kind # "request" /\ job.isActing
    <3>1. job.kind \in Outcomes
      BY <1>0, <2>2 DEF RendersRun, Rendering, Kinds
    <3>2. human' = Resolved(human, job.call, job.kind)
      BY <2>2 DEF RenderEnds
    <3> QED
      BY <3>1, <3>2 DEF Resolved, TypeOK
  <2>3. CASE job.kind # "request" /\ ~job.isActing
    BY <2>3 DEF RenderEnds
  <2> QED
    BY <2>1, <2>2, <2>3
<1>3. Drains' => Drains
  <2> SUFFICES ASSUME Drains' PROVE Drains
    OBVIOUS
  <2>1. pc' = "draining"
    BY <1>1 DEF Drains, NoJob, Outcomes
  <2>2. job.kind \in Outcomes \cup {"request"}
    BY <1>0, <2>1 DEF RenderEnds, Rendering, Kinds
  <2> QED
    BY <2>2 DEF Drains, InRender, Renders, Outcomes
<1> QED
  BY <1>1, <1>2, <1>3

\* Nothing is told of a consult that has not been answered.
LEMMA OpenUntold ==
    ASSUME Honest, NEW c \in Calls, consult[c].status \in {"none", "open"}
    PROVE  /\ human[c] \notin Resolutions /\ audit[c] \notin Resolutions
           /\ branch[c] \notin {"rejected", "failed", "replied"}
           /\ c \notin answered
           /\ consult[c].status = "none" => branch[c] \notin {"pending", "interrupted"}
  BY DEF Honest, BranchesHonest, PendingUntold, AnsweredReplied, Told, Outcomes

LEMMA HonestConsult ==
    ASSUME TurnAssumption, TypeOK, Renders, Honest, OwnerConsult \/ NestedConsult
    PROVE  Honest'
<1>1. PICK f \in Working, c \in Calls, peer \in Agents \cup {Nobody} : Consults(f, c, peer)
  BY DEF OwnerConsult, NestedConsult
<1>2. /\ consult[c].status = "none" /\ consult'[c].status = "open"
      /\ \A d \in Calls \ {c} : consult'[d] = consult[d]
  BY <1>1 DEF Consults, TypeOK
<1>3. UNCHANGED <<branch, answered, unheard, human>> /\ pc = "draining"
  BY DEF OwnerConsult, NestedConsult, projector, traces, Draining
<1>4. \A d \in Calls : audit'[d] \in Resolutions => audit'[d] = audit[d]
  BY DEF OwnerConsult, NestedConsult, traces, TypeOK, Resolutions
<1>5. \/ pc' = "card" /\ job'.kind = "request" /\ job'.isActing = TRUE
         /\ consult'[job'.call].status = "open"
      \/ pc' = "draining" /\ job' = job
  <2>1. CASE OwnerConsult
    <3>1. PICK g \in Working, d \in Calls, p \in Agents \cup {Nobody} :
                 Consults(g, d, p) /\ job' = Job("request", d, TRUE)
      BY <2>1 DEF OwnerConsult
    <3>2. consult'[d].status = "open"
      BY <3>1 DEF Consults, TypeOK
    <3> QED
      BY <2>1, <3>1, <3>2 DEF OwnerConsult, Job
  <2>2. CASE NestedConsult
    BY <2>2, <1>3 DEF NestedConsult
  <2> QED
    BY <2>1, <2>2
<1>6. BranchesHonest'
  <2> SUFFICES ASSUME NEW d \in Calls
               PROVE  /\ branch[d] = "interrupted" =>
                            d \notin answered \ unheard /\ consult'[d].status \in {"open", "reply"}
                      /\ branch[d] = "replied" => d \in answered
                      /\ branch[d] \in {"rejected", "failed"} =>
                            Told(d, branch[d], CardState(consult[d].status))'
                      /\ human[d] \in Resolutions => Told(d, human[d], RowState(consult[d].status))'
                      /\ audit'[d] \in Resolutions => Told(d, audit[d], RowState(consult[d].status))'
    BY <1>3 DEF BranchesHonest
  <2>1. CASE d = c
    BY <1>2, <1>3, <1>4, <2>1, OpenUntold
  <2>2. CASE d # c
    BY <1>2, <1>3, <1>4, <2>2 DEF Honest, BranchesHonest, Told
  <2> QED
    BY <2>1, <2>2
<1>7. NoneInterrupted' /\ PendingUntold' /\ AnsweredReplied'
  <2>1. NoneInterrupted'
    BY <1>3 DEF Honest, NoneInterrupted, Drains
  <2>2. PendingUntold'
    BY <1>2, <1>3, OpenUntold DEF Honest, PendingUntold
  <2>3. AnsweredReplied'
    BY <1>2, <1>3, OpenUntold DEF Honest, AnsweredReplied, TypeOK
  <2> QED
    BY <2>1, <2>2, <2>3
<1>8. RendersRun'
  <2>1. CASE pc' = "card" /\ job'.kind = "request"
    BY <1>5, <2>1 DEF RendersRun, Outcomes
  <2>2. CASE pc' = "draining" /\ job' = job
    <3>1. job.kind \in Outcomes => job.call \in Calls
      BY JobInHand DEF TypeOK, Outcomes
    <3> QED
      BY <1>2, <2>2, <3>1 DEF Honest, RendersRun, Outcomes
  <2> QED
    BY <1>5, <2>1, <2>2
<1> QED
  BY <1>6, <1>7, <1>8 DEF Honest

LEMMA HonestResult ==
    ASSUME TurnAssumption, TypeOK, Renders, Honest, OwnerResult \/ NestedResult
    PROVE  Honest'
<1>1. PICK c \in Calls, outcome \in Outcomes :
             /\ Answers(c, outcome)
             /\ branch' = RecordsFirst(c, outcome)
             /\ pc' = Suspends(c, outcome)
             /\ human' \in {human, Resolved(human, c, outcome)}
             /\ audit' \in {audit, Resolved(audit, c, outcome)}
             /\ job' \in {job, NoJob, Job(outcome, c, TRUE), Job(outcome, c, FALSE)}
  BY DEF OwnerResult, NestedResult
<1>2. /\ consult[c].status = "open" /\ consult'[c].status = outcome
      /\ \A d \in Calls \ {c} : consult'[d].status = consult[d].status
  BY <1>1 DEF Answers, Open, TypeOK, Consultation
<1>3. pc = "draining" /\ answered' = answered /\ unheard' = unheard
  BY DEF OwnerResult, NestedResult, Draining
<1>4. branch[c] \in {"none", "pending"} /\ c \notin answered
  <2>1. branch[c] # "interrupted"
    BY <1>3 DEF Honest, NoneInterrupted, Drains
  <2> QED
    BY <1>2, <2>1, OpenUntold DEF TypeOK, BranchStates
<1>5. /\ \A d \in Calls \ {c} : branch'[d] = branch[d]
      /\ \/ branch'[c] = branch[c] /\ (branch[c] = "pending" => outcome = "reply")
         \/ branch'[c] = CardState(outcome) /\ outcome # "reply"
  BY <1>1, <1>4 DEF RecordsFirst, TypeOK
<1>6. /\ \A d \in Calls \ {c} : human'[d] = human[d] /\ audit'[d] = audit[d]
      /\ human'[c] \in Resolutions => human'[c] = RowState(outcome)
      /\ audit'[c] \in Resolutions => audit'[c] = RowState(outcome)
  <2>1. human[c] \notin Resolutions /\ audit[c] \notin Resolutions
    BY <1>2, OpenUntold
  <2> QED
    BY <1>1, <2>1 DEF Resolved, TypeOK
<1>7. BranchesHonest'
  <2> SUFFICES ASSUME NEW d \in Calls
               PROVE  /\ branch'[d] = "interrupted" =>
                            d \notin answered \ unheard /\ consult'[d].status \in {"open", "reply"}
                      /\ branch'[d] = "replied" => d \in answered
                      /\ branch'[d] \in {"rejected", "failed"} =>
                            Told(d, branch[d], CardState(consult[d].status))'
                      /\ human'[d] \in Resolutions => Told(d, human[d], RowState(consult[d].status))'
                      /\ audit'[d] \in Resolutions => Told(d, audit[d], RowState(consult[d].status))'
    BY <1>3 DEF BranchesHonest
  <2>1. CASE d = c
    BY <1>2, <1>4, <1>5, <1>6, <2>1 DEF Told, CardState, Outcomes
  <2>2. CASE d # c
    BY <1>2, <1>5, <1>6, <2>2 DEF Honest, BranchesHonest, Told
  <2> QED
    BY <2>1, <2>2
<1>8. NoneInterrupted' /\ PendingUntold' /\ AnsweredReplied'
  <2>1. NoneInterrupted'
    BY <1>3, <1>4, <1>5 DEF Honest, NoneInterrupted, Drains, CardState
  <2>2. PendingUntold'
    BY <1>2, <1>3, <1>4, <1>5 DEF Honest, PendingUntold, CardState
  <2>3. AnsweredReplied'
    BY <1>2, <1>3, <1>4 DEF Honest, AnsweredReplied, TypeOK
  <2> QED
    BY <2>1, <2>2, <2>3
<1>9. RendersRun'
  <2>1. pc' \notin {"card", "thread"}
    BY <1>1 DEF Suspends
  <2>2. CASE job' = NoJob
    BY <2>1, <2>2 DEF RendersRun, NoJob, Outcomes
  <2>3. CASE job' \in {Job(outcome, c, TRUE), Job(outcome, c, FALSE)}
    BY <1>2, <2>1, <2>3 DEF RendersRun, Job, Outcomes
  <2>4. CASE job' = job
    <3>1. job.kind \in Outcomes => job.call \in Calls /\ consult[job.call].status = job.kind
      BY JobInHand DEF TypeOK, Outcomes, Honest, RendersRun
    <3> QED
      BY <1>2, <2>1, <2>4, <3>1 DEF Honest, RendersRun, Outcomes
  <2> QED
    BY <1>1, <2>2, <2>3, <2>4
<1> QED
  BY <1>7, <1>8, <1>9 DEF Honest

LEMMA HonestRender ==
    ASSUME TurnAssumption, TypeOK, Renders, Honest,
           \/ CardSent
           \/ ThreadMade
           \/ OpenFails
           \/ CardEdited
           \/ EditFails
           \/ ChunkSent
           \/ ChunkFails
    PROVE  Honest'
<1>1. InRender /\ UNCHANGED <<consult, audit>>
  BY DEF CardSent, ThreadMade, OpenFails, CardEdited, EditFails, ChunkSent, ChunkFails,
         InRender, run
<1>2. job \in Rendering /\ job.call \in Calls /\ RendersRun
  BY <1>1, RenderInHand DEF Honest
<1>3. /\ \A d \in Calls : human'[d] \in Resolutions =>
             \/ human'[d] = human[d]
             \/ d = job.call /\ job.kind \in Outcomes /\ human'[d] = RowState(job.kind)
      /\ \/ job' = NoJob
         \/ job'.kind = job.kind /\ job'.call = job.call /\ job'.isActing = job.isActing
      /\ Drains' => Drains
      /\ pc' \in {"card", "thread"} => pc = "card" /\ job' = job
  <2>1. CASE RenderEnds(TRUE) \/ RenderEnds(FALSE)
    BY <1>1, <1>2, <2>1, RenderTells
  <2>2. CASE CardSent /\ ~RenderEnds(TRUE)
    BY <2>2 DEF CardSent, Drains
  <2>3. CASE (CardEdited \/ EditFails) /\ ~RenderEnds(FALSE)
    BY <2>3 DEF CardEdited, EditFails, AfterEdit, Drains, Outcomes
  <2>4. CASE ChunkSent /\ ~RenderEnds(TRUE)
    BY <1>2, <2>4 DEF ChunkSent, Drains, Rendering
  <2> QED
    BY <2>1, <2>2, <2>3, <2>4 DEF ThreadMade, OpenFails, ChunkFails
<1>4. CASE branch' = branch /\ Unheard
  <2>1. BranchesHonest'
    BY <1>1, <1>2, <1>3, <1>4 DEF Honest, BranchesHonest, Told, RendersRun, Unheard
  <2>2. NoneInterrupted' /\ PendingUntold' /\ AnsweredReplied'
    BY <1>1, <1>3, <1>4 DEF Honest, NoneInterrupted, PendingUntold, AnsweredReplied, Unheard
  <2>3. RendersRun'
    BY <1>1, <1>2, <1>3 DEF RendersRun, NoJob, Outcomes
  <2> QED
    BY <2>1, <2>2, <2>3 DEF Honest
<1>5. CASE CardSent
  <2>1. /\ branch' = [branch EXCEPT ![job.call] = "pending"] /\ answered' = answered
        /\ unheard' = unheard /\ pc = "card" /\ job.kind = "request"
    BY <1>5 DEF CardSent, Renders
  <2>2. consult[job.call].status = "open" /\ job.call \notin answered
    BY <1>2, <2>1, OpenUntold DEF RendersRun
  <2>3. BranchesHonest'
    BY <1>1, <1>2, <1>3, <2>1 DEF Honest, BranchesHonest, Told, Outcomes, TypeOK
  <2>4. NoneInterrupted' /\ PendingUntold' /\ AnsweredReplied'
    BY <1>1, <1>2, <1>3, <2>1, <2>2
       DEF Honest, NoneInterrupted, PendingUntold, AnsweredReplied, TypeOK
  <2>5. RendersRun'
    BY <1>1, <1>2, <1>3, <2>1 DEF RendersRun, NoJob, Outcomes
  <2> QED
    BY <2>3, <2>4, <2>5 DEF Honest
<1>6. CASE ChunkSent
  <2>1. /\ answered' = answered \cup {job.call} /\ unheard' = unheard
        /\ pc = "chunk" /\ job.kind = "reply" /\ consult[job.call].status = "reply"
    BY <1>2, <1>6 DEF ChunkSent, Renders, RendersRun, Outcomes
  <2>2. /\ \A d \in Calls \ {job.call} : branch'[d] = branch[d]
        /\ branch'[job.call] \in {"none", "replied"}
    BY <1>2, <1>6 DEF ChunkSent, TypeOK
  <2>3. BranchesHonest'
    BY <1>1, <1>2, <1>3, <2>1, <2>2 DEF Honest, BranchesHonest, Told, RendersRun
  <2>4. NoneInterrupted' /\ PendingUntold' /\ AnsweredReplied'
    BY <1>1, <1>2, <1>3, <2>1, <2>2
       DEF Honest, NoneInterrupted, PendingUntold, AnsweredReplied
  <2>5. RendersRun'
    BY <1>1, <1>2, <1>3 DEF RendersRun, NoJob, Outcomes
  <2> QED
    BY <2>3, <2>4, <2>5 DEF Honest
<1>7. CASE ThreadMade \/ OpenFails \/ CardEdited \/ EditFails
  <2>1. branch' = branch /\ Unheard
    BY <1>7 DEF ThreadMade, OpenFails, CardEdited, EditFails, Unheard
  <2> QED
    BY <1>4, <2>1
<1>8. CASE ChunkFails
  <2>1. branch' = branch /\ Unheard
    BY <1>2, <1>8, LostUnheard DEF ChunkFails
  <2> QED
    BY <1>4, <2>1
<1> QED
  BY <1>5, <1>6, <1>7, <1>8

LEMMA HonestInterrupt ==
    ASSUME TurnAssumption, TypeOK, Renders, Honest, FaultCard \/ FinishCard
    PROVE  Honest'
<1>1. PICK c \in Calls, kind \in {"fault", "interrupt"} :
             /\ branch[c] = "pending"
             /\ branch' = [branch EXCEPT ![c] = "interrupted"]
             /\ job' = Job(kind, c, FALSE)
  BY DEF FaultCard, FinishCard, Dangling, Open, Pending
<1>2. pc' = "edit" /\ UNCHANGED <<consult, answered, unheard, human, audit>>
  BY DEF FaultCard, FinishCard, run, traces
<1>3. c \notin answered \ unheard /\ consult[c].status \in {"open", "reply"}
  BY <1>1 DEF Honest, PendingUntold
<1>4. BranchesHonest'
  BY <1>1, <1>2, <1>3 DEF Honest, BranchesHonest, Told, TypeOK
<1>5. NoneInterrupted' /\ RendersRun'
  BY <1>1, <1>2 DEF NoneInterrupted, RendersRun, Drains, Job, Outcomes
<1>6. PendingUntold' /\ AnsweredReplied'
  BY <1>1, <1>2 DEF Honest, PendingUntold, AnsweredReplied, TypeOK
<1> QED
  BY <1>4, <1>5, <1>6 DEF Honest

LEMMA HonestStep ==
    ASSUME TurnAssumption, TypeOK, Renders, Honest, [Next]_vars
    PROVE  Honest'
<1>1. RendersRun
  BY DEF Honest
<1> QED
  BY <1>1, TurnAssumption, UntoldStep, HonestUntold, HonestConsult, HonestResult, HonestRender,
     HonestInterrupt DEF Next, Environment, Handler, Done

-----------------------------------------------------------------------------
(* A response and its row *)

\* A result in hand is the owner's, or its row is no longer pending.
RowFirst ==
    pc \in {"edit", "flush", "chunk"} /\ job.kind \in Outcomes =>
        IF job.isActing THEN IsActing(consult[job.call].caller)
        ELSE audit[job.call] # "pending"

\* What leaves no result in hand, or ends the render of one.
LEMMA NoResult ==
    ASSUME TypeOK, Renders,
           \/ Start
           \/ NotStarted
           \/ Step
           \/ Handoff
           \/ OwnerConsult
           \/ NestedConsult
           \/ Terminal
           \/ Raised
           \/ Cancelled
           \/ CardSent
           \/ ThreadMade
           \/ OpenFails
           \/ ChunkFails
           \/ HumanClosed
           \/ Result
           \/ FaultCard
           \/ FaultsShown
           \/ Reply
           \/ StickySet
           \/ Notice
           \/ FinishCard
           \/ FinishTrace
           \/ AuditClosed
    PROVE  pc' \notin {"edit", "flush", "chunk"} \/ job'.kind \notin Outcomes
<1>1. CASE Start
  BY <1>1 DEF Start
<1>2. CASE NotStarted
  BY <1>2 DEF NotStarted
<1>3. CASE Step
  BY <1>3 DEF Step, Draining
<1>4. CASE Handoff
  BY <1>4 DEF Handoff, Draining
<1>5. CASE OwnerConsult
  BY <1>5 DEF OwnerConsult
<1>6. CASE NestedConsult
  BY <1>6 DEF NestedConsult, Draining
<1>7. CASE Terminal
  BY <1>7 DEF Terminal
<1>8. CASE Raised
  BY <1>8 DEF Raised, LeaveDrain, LeaveFor
<1>9. CASE Cancelled
  BY <1>9 DEF Cancelled, LeaveDrain, LeaveFor
<1>10. CASE CardSent
  BY <1>10 DEF CardSent, RenderEnds
<1>11. CASE ThreadMade
  BY <1>11 DEF ThreadMade, RenderEnds
<1>12. CASE OpenFails
  BY <1>12 DEF OpenFails, RenderEnds
<1>13. CASE ChunkFails
  BY <1>13 DEF ChunkFails, RenderEnds
<1>14. CASE HumanClosed
  BY <1>14 DEF HumanClosed
<1>15. CASE Result
  BY <1>15 DEF Result
<1>16. CASE FaultCard
  BY <1>16 DEF FaultCard, Job, Outcomes
<1>17. CASE FaultsShown
  BY <1>17 DEF FaultsShown
<1>18. CASE Reply
  BY <1>18 DEF Reply
<1>19. CASE StickySet
  BY <1>19 DEF StickySet
<1>20. CASE Notice
  BY <1>20 DEF Notice
<1>21. CASE FinishCard
  BY <1>21 DEF FinishCard, Job, Outcomes
<1>22. CASE FinishTrace
  BY <1>22 DEF FinishTrace
<1>23. CASE AuditClosed
  BY <1>23 DEF AuditClosed
<1> QED
  BY <1>1, <1>2, <1>3, <1>4, <1>5, <1>6, <1>7, <1>8, <1>9, <1>10, <1>11, <1>12, <1>13, <1>14, <1>15, <1>16, <1>17, <1>18, <1>19, <1>20, <1>21, <1>22, <1>23

LEMMA RowFirstStep ==
    ASSUME TypeOK, Renders, RowFirst, [Next]_vars
    PROVE  RowFirst'
<1> USE DEF RowFirst, IsActing
<1>1. CASE pc' \notin {"edit", "flush", "chunk"} \/ job'.kind \notin Outcomes
  BY <1>1
<1>2. CASE OwnerResult
  <2>1. PICK c \in Calls, outcome \in Outcomes :
               /\ IsActing(consult[c].caller)
               /\ Answers(c, outcome)
               /\ pc' = Suspends(c, outcome)
               /\ pc' = "draining" \/ job' = Job(outcome, c, TRUE)
    BY <1>2 DEF OwnerResult
  <2>2. consult'[c].caller = consult[c].caller /\ acting' = acting
    BY <1>2, <2>1 DEF Answers, OwnerResult, TypeOK, Consultation
  <2> QED
    BY <2>1, <2>2 DEF Job
<1>3. CASE NestedResult
  <2>1. PICK c \in Calls, outcome \in Outcomes :
               /\ audit' = Resolved(audit, c, outcome)
               /\ pc' = "draining" \/ job' = Job(outcome, c, FALSE)
    BY <1>3 DEF NestedResult
  <2>2. audit'[c] # "pending"
    BY <2>1 DEF Resolved, RowState, TypeOK
  <2> QED
    BY <2>1, <2>2 DEF Job
<1>4. CASE Flushed \/ ChunkSent \/ CardEdited \/ EditFails
  <2>1. pc \in {"edit", "flush", "chunk"} /\ UNCHANGED <<consult, acting, audit>>
    BY <1>4 DEF Flushed, ChunkSent, CardEdited, EditFails, run, traces
  <2>2. job \in Rendering
    BY <2>1, RenderInHand DEF InRender
  <2>3. \/ pc' \notin {"edit", "flush", "chunk"}
        \/ job'.kind = job.kind /\ job'.call = job.call /\ job'.isActing = job.isActing
    BY <1>4, <2>2 DEF Flushed, ChunkSent, CardEdited, EditFails, AfterEdit, RenderEnds, Rendering
  <2> QED
    BY <2>1, <2>3
<1>5. CASE UNCHANGED vars
  BY <1>5 DEF vars, run, traces
<1> QED
  BY <1>1, <1>2, <1>3, <1>4, <1>5, NoResult DEF Next, Environment, Handler, Done

\* Only the post of a chunk answers.
LEMMA AnsweredByChunk ==
    ASSUME [Next]_vars
    PROVE  \/ answered' = answered
           \/ pc = "chunk" /\ answered' = answered \cup {job.call}
<1>1. CASE Start
  BY <1>1 DEF Start, projector
<1>2. CASE NotStarted
  BY <1>2 DEF NotStarted, projector
<1>3. CASE Step
  BY <1>3 DEF Step, projector
<1>4. CASE Handoff
  BY <1>4 DEF Handoff, projector
<1>5. CASE OwnerConsult
  BY <1>5 DEF OwnerConsult, projector
<1>6. CASE NestedConsult
  BY <1>6 DEF NestedConsult, projector
<1>7. CASE OwnerResult
  BY <1>7 DEF OwnerResult, projector
<1>8. CASE NestedResult
  BY <1>8 DEF NestedResult, projector
<1>9. CASE Terminal
  BY <1>9 DEF Terminal, projector
<1>10. CASE Raised
  BY <1>10 DEF Raised, projector
<1>11. CASE Cancelled
  BY <1>11 DEF Cancelled, projector, ChunkLost
<1>12. CASE CardSent
  BY <1>12 DEF CardSent, projector
<1>13. CASE ThreadMade
  BY <1>13 DEF ThreadMade, projector
<1>14. CASE OpenFails
  BY <1>14 DEF OpenFails, projector
<1>15. CASE CardEdited
  BY <1>15 DEF CardEdited, projector
<1>16. CASE EditFails
  BY <1>16 DEF EditFails, projector
<1>17. CASE Flushed
  BY <1>17 DEF Flushed, projector
<1>18. CASE ChunkSent
  BY <1>18 DEF ChunkSent, projector
<1>19. CASE ChunkFails
  BY <1>19 DEF ChunkFails, projector, ChunkLost
<1>20. CASE HumanClosed
  BY <1>20 DEF HumanClosed, projector
<1>21. CASE Result
  BY <1>21 DEF Result, projector
<1>22. CASE FaultCard
  BY <1>22 DEF FaultCard, projector
<1>23. CASE FaultsShown
  BY <1>23 DEF FaultsShown, projector
<1>24. CASE Reply
  BY <1>24 DEF Reply, projector
<1>25. CASE StickySet
  BY <1>25 DEF StickySet, projector
<1>26. CASE Notice
  BY <1>26 DEF Notice, projector
<1>27. CASE FinishCard
  BY <1>27 DEF FinishCard, projector
<1>28. CASE FinishTrace
  BY <1>28 DEF FinishTrace, projector
<1>29. CASE AuditClosed
  BY <1>29 DEF AuditClosed, projector
<1>30. CASE UNCHANGED vars
  BY <1>30 DEF vars, projector
<1> QED
  BY <1>1, <1>2, <1>3, <1>4, <1>5, <1>6, <1>7, <1>8, <1>9, <1>10, <1>11, <1>12, <1>13, <1>14, <1>15, <1>16, <1>17, <1>18, <1>19, <1>20, <1>21, <1>22, <1>23, <1>24, <1>25, <1>26, <1>27, <1>28, <1>29, <1>30 DEF Next, Environment, Handler, Done

\* A response never appears in the audit thread above its own pending row,
\* unless its caller has become the owner since it asked (_drain_and_deliver
\* feeds the audit trace before the projector posts).
THEOREM AnswersBelowRows == Spec => AnswerBelowRow
<1> DEFINE Below ==
        \A c \in Calls :
            c \in answered' \ answered /\ audit[c] = "pending" => IsActing(consult[c].caller)
<1>1. Init => TypeOK /\ Renders /\ RowFirst
  <2> SUFFICES ASSUME Init PROVE RowFirst
    BY TurnInit, TurnAssumption
  <2> QED
    BY DEF Init, RowFirst
<1>2. TypeOK /\ Renders /\ RowFirst /\ [Next]_vars => (TypeOK /\ Renders /\ RowFirst)'
  BY TurnTypeStep, RowFirstStep, TurnAssumption
<1>3. TypeOK /\ Renders /\ RowFirst /\ [Next]_vars => [Below]_vars
  <2> SUFFICES ASSUME TypeOK, Renders, RowFirst, [Next]_vars PROVE Below
    OBVIOUS
  <2>1. CASE answered' = answered
    BY <2>1
  <2>2. CASE pc = "chunk" /\ answered' = answered \cup {job.call}
    <3>1. job.kind \in Outcomes
      BY <2>2 DEF Renders, Outcomes
    <3> QED
      BY <2>2, <3>1 DEF RowFirst
  <2> QED
    BY <2>1, <2>2, AnsweredByChunk
<1> QED
  BY <1>1, <1>2, <1>3, PTL DEF Spec, AnswerBelowRow

-----------------------------------------------------------------------------
(* The answer to the human *)

Answered ==
    IF terminal = "completed" THEN reply \in {"posted", "empty", "notice"} ELSE reply = "notice"

\* The places after the answer.
Finishes == pc \in {"finishing", "closing_audit"} \/ (pc = "edit" /\ job.kind = "interrupt")

\* What each place owes to the human, unless an exception is on its way out.
AnswerDue ==
    ~unwinding =>
        /\ terminal = "running" => Drains \/ pc = "done"
        /\ Drains => terminal = "running"
        /\ pc = "faulting" \/ (pc = "edit" /\ job.kind = "fault") => terminal = "faulted"
        /\ pc \in {"reply", "sticky"} => terminal = "completed"
        /\ pc = "sticky" => reply = "posted"
        /\ Finishes \/ (pc = "done" /\ terminal # "running") => Answered

\* A render ends where it began, and has answered nobody.
LEMMA RenderReturns ==
    ASSUME TypeOK, Renders, InRender, NEW receipt, RenderEnds(receipt)
    PROVE  /\ pc = "edit" /\ job.kind = "fault" => pc' = "faulting"
           /\ pc = "edit" /\ job.kind = "interrupt" => pc' = "finishing"
           /\ Drains => pc' = "draining"
           /\ job' = NoJob
  BY DEF RenderEnds, Drains, Renders, InRender, Outcomes

LEMMA AnswerDueRender ==
    ASSUME TypeOK, Renders, AnswerDue,
           \/ CardSent
           \/ ThreadMade
           \/ OpenFails
           \/ CardEdited
           \/ EditFails
           \/ ChunkSent
           \/ ChunkFails
    PROVE  AnswerDue'
<1>1. InRender /\ UNCHANGED <<terminal, unwinding, reply>>
  BY DEF CardSent, ThreadMade, OpenFails, CardEdited, EditFails, ChunkSent, ChunkFails, InRender
<1>2. pc = "edit" => job.kind \in Outcomes \cup {"fault", "interrupt"}
  BY DEF Renders
<1>3. CASE RenderEnds(TRUE) \/ RenderEnds(FALSE)
  <2>1. /\ pc = "edit" /\ job.kind = "fault" => pc' = "faulting"
        /\ pc = "edit" /\ job.kind = "interrupt" => pc' = "finishing"
        /\ Drains => pc' = "draining"
        /\ job' = NoJob
    BY <1>1, <1>3, RenderReturns
  <2>2. Drains \/ (pc = "edit" /\ job.kind \in {"fault", "interrupt"})
    BY <1>1, <1>2 DEF InRender, Drains
  <2> QED
    BY <1>1, <2>1, <2>2 DEF AnswerDue, Finishes, Drains, Answered, Outcomes
<1>4. CASE Drains /\ pc' \in {"thread", "flush", "chunk"}
  BY <1>1, <1>4 DEF AnswerDue, Finishes, Drains, Answered
<1>5. \/ RenderEnds(TRUE) \/ RenderEnds(FALSE)
      \/ Drains /\ pc' \in {"thread", "flush", "chunk"}
  BY DEF CardSent, ThreadMade, OpenFails, CardEdited, EditFails, ChunkSent, ChunkFails,
         AfterEdit, Drains, Outcomes
<1> QED
  BY <1>3, <1>4, <1>5

LEMMA AnswerDueStep ==
    ASSUME TurnAssumption, TypeOK, Renders, AnswerDue, [Next]_vars
    PROVE  AnswerDue'
<1> USE DEF AnswerDue, Drains, Finishes, Answered
<1>1. CASE Start
  BY <1>1 DEF Start, traces
<1>2. CASE NotStarted
  BY <1>2 DEF NotStarted
<1>3. CASE Step \/ Handoff \/ NestedConsult
  BY <1>3 DEF Step, Handoff, NestedConsult, Draining
<1>4. CASE OwnerConsult
  BY <1>4 DEF OwnerConsult, Draining
<1>5. CASE OwnerResult \/ NestedResult
  <2>1. PICK c \in Calls, outcome \in Outcomes, b \in BOOLEAN :
               /\ pc' = Suspends(c, outcome)
               /\ pc' = "draining" \/ job' = Job(outcome, c, b)
    BY <1>5 DEF OwnerResult, NestedResult
  <2>2. pc' \in {"edit", "flush", "draining"} /\ Drains'
    BY <2>1 DEF Suspends, Job
  <2> QED
    BY <1>5, <2>2 DEF OwnerResult, NestedResult, Draining, Outcomes
<1>6. CASE Terminal
  BY <1>6 DEF Terminal, Draining
<1>7. CASE Raised \/ Cancelled
  BY <1>7 DEF Raised, Cancelled
<1>8. CASE CardSent \/ ThreadMade \/ OpenFails \/ CardEdited \/ EditFails \/ ChunkSent \/ ChunkFails
  BY <1>8, AnswerDueRender
<1>9. CASE Flushed
  BY <1>9 DEF Flushed
<1>10. CASE HumanClosed
  BY <1>10 DEF HumanClosed
<1>11. CASE Result
  BY <1>11 DEF Result, TypeOK
<1>12. CASE FaultCard
  BY <1>12 DEF FaultCard, Job, Outcomes
<1>13. CASE FaultsShown
  BY <1>13 DEF FaultsShown
<1>14. CASE Reply
  BY <1>14 DEF Reply
<1>15. CASE StickySet
  BY <1>15 DEF StickySet
<1>16. CASE Notice
  BY <1>16 DEF Notice
<1>17. CASE FinishCard
  BY <1>17 DEF FinishCard, Job, Outcomes
<1>18. CASE FinishTrace
  BY <1>18 DEF FinishTrace
<1>19. CASE AuditClosed
  BY <1>19 DEF AuditClosed
<1>20. CASE UNCHANGED vars
  BY <1>20 DEF vars, run, projector, traces
<1> QED
  BY <1>1, <1>2, <1>3, <1>4, <1>5, <1>6, <1>7, <1>8, <1>9, <1>10, <1>11, <1>12, <1>13, <1>14,
     <1>15, <1>16, <1>17, <1>18, <1>19, <1>20 DEF Next, Environment, Handler, Done

\* No turn whose run ended is left without an answer: the reply, a notice in
\* its place, or silence when the agent had nothing to say, whatever failed
\* in rendering the run (MentionHandler._deliver and _drain_and_deliver).
THEOREM TurnsAnswered == Spec => []EveryTurnAnswered
<1>1. Init => TypeOK /\ Renders /\ AnswerDue
  <2> SUFFICES ASSUME Init PROVE AnswerDue
    BY TurnInit, TurnAssumption
  <2> QED
    BY DEF Init, AnswerDue, Drains, Finishes
<1>2. TypeOK /\ Renders /\ AnswerDue /\ [Next]_vars => (TypeOK /\ Renders /\ AnswerDue)'
  BY TurnTypeStep, AnswerDueStep, TurnAssumption
<1>3. AnswerDue => EveryTurnAnswered
  BY DEF AnswerDue, EveryTurnAnswered, Answered
<1> QED
  BY <1>1, <1>2, <1>3, PTL DEF Spec

-----------------------------------------------------------------------------
(* What a retired turn leaves behind *)

\* Nothing is shown of a turn before it begins, and the projector holds it from
\* then on.
Blank ==
    pc = "routing" =>
        \A c \in Calls : branch[c] = "none" /\ human[c] = "none" /\ audit[c] = "none"

Registered == registered \/ pc \in {"routing", "done"}

Retired == pc = "closing_audit" \/ (pc = "done" /\ ~registered)

\* The rows of the human's trace are settled once the drain is left, the branches
\* and the rows of the audit trace when finish has got past its cards.
Settled ==
    /\ ~Drains => \A c \in Calls : human[c] # "pending"
    /\ Retired => \A c \in Calls : branch[c] # "pending" /\ audit[c] # "pending"

RowsTidy == Blank /\ Registered /\ Settled

\* A card shows its branch, unless a call failed, the branch is to change again,
\* or the edit is on its way.
CardsTell ==
    \A c \in Calls :
        \/ card[c].shows = branch[c]
        \/ c \in missed
        \/ branch[c] = "pending"
        \/ pc = "edit" /\ job.call = c

\* What is edited into a card is the state of its branch, or what that becomes
\* when the reply is posted.
EditTells ==
    pc = "edit" =>
        \/ branch[job.call] = EditState
        \/ job.kind = "reply" /\ branch[job.call] = "pending"

ReplyTells ==
    pc \in {"flush", "chunk"} /\ branch[job.call] # "none" =>
        card[job.call].shows = "replied" \/ job.call \in missed

CardsTidy == CardsTell /\ EditTells /\ ReplyTells

LEMMA StrandedSettled ==
    ASSUME NEW rows \in [Calls -> RowStates], NEW d \in Calls
    PROVE  Stranded(rows)[d] # "pending" /\ (rows[d] = "none" => Stranded(rows)[d] = "none")
  BY DEF Stranded

LEMMA RowsTidyRender ==
    ASSUME TypeOK, Renders, RendersRun, RowsTidy,
           \/ CardSent
           \/ ThreadMade
           \/ OpenFails
           \/ CardEdited
           \/ EditFails
           \/ ChunkSent
           \/ ChunkFails
    PROVE  RowsTidy'
<1>1. InRender /\ UNCHANGED registered
  BY DEF CardSent, ThreadMade, OpenFails, CardEdited, EditFails, ChunkSent, ChunkFails, InRender
<1>2. job \in Rendering
  BY <1>1, RenderInHand
<1>3. CASE RenderEnds(TRUE) \/ RenderEnds(FALSE)
  <2>1. pc' \in {"draining", "faulting", "finishing"} /\ (Drains => Drains')
    BY <1>1, <1>3, RenderReturns DEF RenderEnds, Drains
  <2>2. ~Drains => human' = human
    <3>1. ~Drains => job.kind \in {"fault", "interrupt"}
      BY <1>1, <1>2 DEF Drains, InRender, Renders
    <3> QED
      BY <1>3, <3>1 DEF RenderEnds, RendersRun
  <2> QED
    BY <1>1, <2>1, <2>2 DEF RowsTidy, Blank, Registered, Settled, Retired, InRender
<1>4. CASE Drains /\ pc' \in {"thread", "flush", "chunk"}
  BY <1>1, <1>4 DEF RowsTidy, Blank, Registered, Settled, Retired, InRender, Drains
<1>5. \/ RenderEnds(TRUE) \/ RenderEnds(FALSE)
      \/ Drains /\ pc' \in {"thread", "flush", "chunk"}
  BY DEF CardSent, ThreadMade, OpenFails, CardEdited, EditFails, ChunkSent, ChunkFails,
         AfterEdit, Drains, Outcomes
<1> QED
  BY <1>3, <1>4, <1>5

LEMMA RowsTidyStep ==
    ASSUME TurnAssumption, TypeOK, Renders, RendersRun, RowsTidy, [Next]_vars
    PROVE  RowsTidy'
<1> USE DEF RowsTidy, Blank, Registered, Settled, Retired, Drains
<1>1. CASE Start
  BY <1>1 DEF Start
<1>2. CASE NotStarted
  BY <1>2 DEF NotStarted, projector, traces
<1>3. CASE Step \/ Handoff \/ NestedConsult
  BY <1>3 DEF Step, Handoff, NestedConsult, Draining, projector
<1>4. CASE OwnerConsult
  BY <1>4 DEF OwnerConsult, Draining, projector
<1>5. CASE OwnerResult \/ NestedResult
  <2>1. PICK c \in Calls, outcome \in Outcomes, b \in BOOLEAN :
               /\ pc' = Suspends(c, outcome)
               /\ pc' = "draining" \/ job' = Job(outcome, c, b)
    BY <1>5 DEF OwnerResult, NestedResult
  <2>2. pc' \in {"edit", "flush", "draining"} /\ Drains'
    BY <2>1 DEF Suspends, Job
  <2> QED
    BY <1>5, <2>2 DEF OwnerResult, NestedResult, Draining
<1>6. CASE Terminal
  BY <1>6, StrandedSettled DEF Terminal, Draining, projector, TypeOK
<1>7. CASE Raised
  BY <1>7, StrandedSettled DEF Raised, LeaveDrain, LeaveFor, Draining, projector, TypeOK
<1>8. CASE Cancelled
  <2>1. UNCHANGED <<branch, audit>> /\ registered' = (registered /\ pc # "closing_audit")
    BY <1>8 DEF Cancelled
  <2>2. CASE InDrain /\ LeaveDrain
    BY <2>1, <2>2, StrandedSettled DEF InDrain, LeaveDrain, TypeOK
  <2>3. CASE InDelivery /\ LeaveFor("finishing")
    BY <2>1, <2>3 DEF InDelivery, LeaveFor, Outcomes
  <2>4. CASE InFinish /\ LeaveFor("done")
    BY <2>1, <2>4 DEF InFinish, LeaveFor, Outcomes
  <2> QED
    BY <1>8, <2>2, <2>3, <2>4 DEF Cancelled
<1>9. CASE CardSent \/ ThreadMade \/ OpenFails \/ CardEdited \/ EditFails \/ ChunkSent \/ ChunkFails
  BY <1>9, RowsTidyRender
<1>10. CASE Flushed
  BY <1>10 DEF Flushed, projector, traces
<1>11. CASE HumanClosed \/ Result \/ FaultsShown \/ Reply \/ StickySet \/ Notice
  BY <1>11 DEF HumanClosed, Result, FaultsShown, Reply, StickySet, Notice, projector, traces
<1>12. CASE FaultCard \/ FinishCard
  BY <1>12 DEF FaultCard, FinishCard, Job, traces
<1>13. CASE FinishTrace
  BY <1>13, StrandedSettled DEF FinishTrace, Pending, projector, TypeOK
<1>14. CASE AuditClosed
  BY <1>14 DEF AuditClosed, traces
<1>15. CASE UNCHANGED vars
  BY <1>15 DEF vars, run, projector, traces
<1> QED
  BY <1>1, <1>2, <1>3, <1>4, <1>5, <1>6, <1>7, <1>8, <1>9, <1>10, <1>11, <1>12, <1>13, <1>14,
     <1>15 DEF Next, Environment, Handler, Done

\* What leaves the cards and their branches alone, and no card in hand.
CardsLeft ==
    /\ UNCHANGED <<branch, card, missed>>
    /\ pc # "edit" /\ pc' \notin {"edit", "flush", "chunk"}

LEMMA CardsTidyLeft ==
    ASSUME CardsTidy, CardsLeft
    PROVE  CardsTidy'
  BY DEF CardsTidy, CardsTell, EditTells, ReplyTells, CardsLeft

LEMMA CardsTidyRender ==
    ASSUME TypeOK, Renders, CardsTidy,
           \/ CardSent
           \/ ThreadMade
           \/ OpenFails
           \/ CardEdited
           \/ EditFails
           \/ ChunkSent
           \/ ChunkFails
    PROVE  CardsTidy'
<1> USE DEF CardsTidy, CardsTell, EditTells, ReplyTells
<1>1. InRender
  BY DEF CardSent, ThreadMade, OpenFails, CardEdited, EditFails, ChunkSent, ChunkFails, InRender
<1>2. job \in Rendering /\ job.call \in Calls
  BY <1>1, RenderInHand
<1>3. ASSUME NEW receipt, RenderEnds(receipt)
      PROVE  pc' \notin {"edit", "flush", "chunk"}
  BY <1>3 DEF RenderEnds
<1>4. CASE ThreadMade \/ ChunkFails
  BY <1>3, <1>4 DEF ThreadMade, ChunkFails
<1>5. CASE OpenFails
  BY <1>2, <1>3, <1>5 DEF OpenFails, CardLost, Posted, TypeOK
<1>6. CASE CardSent
  <2>1. pc' \notin {"edit", "flush", "chunk"}
    BY <1>3, <1>6 DEF CardSent
  <2> QED
    BY <1>2, <1>6, <2>1 DEF CardSent, Posted, TypeOK
<1>7. CASE CardEdited \/ EditFails
  <2>1. UNCHANGED branch /\ pc = "edit"
    BY <1>7 DEF CardEdited, EditFails
  <2>2. \A c \in Calls :
             \/ c # job.call /\ card'[c] = card[c] /\ (c \in missed => c \in missed')
             \/ c = job.call /\ (card'[c].shows = EditState \/ c \in missed')
    BY <1>2, <1>7 DEF CardEdited, EditFails, EditLost, TypeOK, Card
  <2>3. CASE job.kind = "reply"
    <3>1. pc' = "flush" /\ job' = job /\ EditState = "replied"
      BY <1>7, <2>3 DEF CardEdited, EditFails, AfterEdit, EditState, Outcomes, CardState
    <3> QED
      BY <1>2, <2>1, <2>2, <3>1
  <2>4. CASE job.kind # "reply"
    <3>1. pc' \notin {"edit", "flush", "chunk"}
      BY <1>3, <1>7, <2>4 DEF CardEdited, EditFails, AfterEdit
    <3> QED
      BY <1>2, <2>1, <2>2, <2>4, <3>1
  <2> QED
    BY <2>3, <2>4
<1>8. CASE ChunkSent
  <2>1. UNCHANGED <<card, missed>> /\ pc = "chunk"
    BY <1>8 DEF ChunkSent
  <2>2. /\ \A c \in Calls \ {job.call} : branch'[c] = branch[c]
        /\ branch'[job.call] = IF branch[job.call] = "none" THEN "none" ELSE "replied"
    BY <1>2, <1>8 DEF ChunkSent, TypeOK
  <2>3. \/ pc' = "chunk" /\ job'.call = job.call
        \/ pc' \notin {"edit", "flush", "chunk"}
    BY <1>2, <1>3, <1>8 DEF ChunkSent, Rendering
  <2> QED
    BY <1>2, <2>1, <2>2, <2>3
<1> QED
  BY <1>4, <1>5, <1>6, <1>7, <1>8

LEMMA CardsTidyResult ==
    ASSUME TypeOK, Honest, CardsTidy, OwnerResult \/ NestedResult
    PROVE  CardsTidy'
<1> USE DEF CardsTidy, CardsTell, EditTells, ReplyTells
<1>1. PICK c \in Calls, outcome \in Outcomes, isActing \in BOOLEAN :
             /\ c \in Open
             /\ branch' = RecordsFirst(c, outcome)
             /\ pc' = Suspends(c, outcome)
             /\ pc' = "draining" \/ job' = Job(outcome, c, isActing)
  BY DEF OwnerResult, NestedResult, Answers
<1>2. pc = "draining" /\ UNCHANGED <<card, missed>>
  BY DEF OwnerResult, NestedResult, Draining
<1>3. branch[c] \in {"none", "pending"}
  <2>1. branch[c] # "interrupted"
    BY <1>2 DEF Honest, NoneInterrupted, Drains
  <2> QED
    BY <1>1, <2>1, OpenUntold DEF Open, TypeOK, BranchStates
<1>4. CASE branch[c] = "none"
  BY <1>1, <1>2, <1>4 DEF RecordsFirst, Suspends, Job
<1>5. CASE branch[c] = "pending"
  <2>1. /\ pc' = "edit" /\ job'.call = c /\ job'.kind = outcome
        /\ EditState' = CardState(outcome)
    BY <1>1, <1>5 DEF Suspends, Job, EditState
  <2>2. /\ \A d \in Calls \ {c} : branch'[d] = branch[d]
        /\ branch'[c] = IF outcome = "reply" THEN "pending" ELSE CardState(outcome)
    BY <1>1, <1>5 DEF RecordsFirst, TypeOK
  <2> QED
    BY <1>1, <1>2, <2>1, <2>2
<1> QED
  BY <1>3, <1>4, <1>5

LEMMA CardsTidyInterrupt ==
    ASSUME TypeOK, CardsTidy, FaultCard \/ FinishCard
    PROVE  CardsTidy'
<1>1. PICK c \in Calls, kind \in {"fault", "interrupt"} :
             /\ branch' = [branch EXCEPT ![c] = "interrupted"]
             /\ job' = Job(kind, c, FALSE)
  BY DEF FaultCard, FinishCard, Dangling, Open, Pending
<1>2. pc # "edit" /\ pc' = "edit" /\ UNCHANGED <<card, missed>>
  BY DEF FaultCard, FinishCard
<1>3. job'.call = c /\ EditState' = "interrupted" /\ branch'[c] = "interrupted"
  BY <1>1 DEF Job, EditState, Outcomes, TypeOK
<1>4. \A d \in Calls \ {c} : branch'[d] = branch[d]
  BY <1>1 DEF TypeOK
<1> QED
  BY <1>1, <1>2, <1>3, <1>4 DEF CardsTidy, CardsTell, EditTells, ReplyTells

LEMMA CardsTidyCancelled ==
    ASSUME TypeOK, Renders, CardsTidy, Cancelled
    PROVE  CardsTidy'
<1>1. UNCHANGED branch /\ pc' \notin {"edit", "flush", "chunk"}
  BY DEF Cancelled, LeaveDrain, LeaveFor
<1>2. CASE pc = "edit"
  <2>1. job.call \in Calls
    BY <1>2, RenderInHand DEF InRender
  <2>2. \A c \in Calls : card'[c] = card[c] \/ c = job.call
    BY <1>2 DEF Cancelled, EditLost, TypeOK
  <2>3. missed' = missed \cup {job.call}
    BY <1>2 DEF Cancelled, EditLost
  <2> QED
    BY <1>1, <2>1, <2>2, <2>3 DEF CardsTidy, CardsTell, EditTells, ReplyTells
<1>3. CASE pc # "edit"
  <2>1. \A c \in Calls : card'[c] = card[c] \/ c \in missed'
    BY <1>3 DEF Cancelled, CardLost, Posted, TypeOK
  <2>2. missed \subseteq missed'
    BY <1>3 DEF Cancelled, CardLost
  <2> QED
    BY <1>1, <1>3, <2>1, <2>2 DEF CardsTidy, CardsTell, EditTells, ReplyTells
<1> QED
  BY <1>2, <1>3

LEMMA CardsTidyStep ==
    ASSUME TurnAssumption, TypeOK, Renders, Honest, CardsTidy, [Next]_vars
    PROVE  CardsTidy'
<1> USE DEF CardsLeft, projector
<1>1. CASE Start \/ NotStarted \/ Step \/ Handoff \/ OwnerConsult \/ NestedConsult \/ Terminal
  <2>1. CardsLeft
    BY <1>1 DEF Start, NotStarted, Step, Handoff, OwnerConsult, NestedConsult, Terminal, Draining
  <2> QED
    BY <2>1, CardsTidyLeft
<1>2. CASE HumanClosed \/ Result \/ FaultsShown \/ Reply \/ StickySet \/ Notice \/ FinishTrace
           \/ AuditClosed
  <2>1. CardsLeft
    BY <1>2 DEF HumanClosed, Result, FaultsShown, Reply, StickySet, Notice, FinishTrace,
                AuditClosed
  <2> QED
    BY <2>1, CardsTidyLeft
<1>3. CASE Raised
  <2>1. CardsLeft
    BY <1>3 DEF Raised, Draining, LeaveDrain, LeaveFor
  <2> QED
    BY <2>1, CardsTidyLeft
<1>4. CASE OwnerResult \/ NestedResult
  BY <1>4, CardsTidyResult
<1>5. CASE CardSent \/ ThreadMade \/ OpenFails \/ CardEdited \/ EditFails \/ ChunkSent \/ ChunkFails
  BY <1>5, CardsTidyRender
<1>6. CASE FaultCard \/ FinishCard
  BY <1>6, CardsTidyInterrupt
<1>7. CASE Cancelled
  BY <1>7, CardsTidyCancelled
<1>8. CASE Flushed
  <2>1. job.call \in Calls /\ job \in Rendering
    BY <1>8, RenderInHand DEF Flushed, InRender
  <2>2. job'.call = job.call
    BY <1>8, <2>1 DEF Flushed, Rendering
  <2> QED
    BY <1>8, <2>2 DEF Flushed, CardsTidy, CardsTell, EditTells, ReplyTells
<1>9. CASE UNCHANGED vars
  BY <1>9 DEF vars, run, traces, CardsTidy, CardsTell, EditTells, ReplyTells, EditState
<1> QED
  BY <1>1, <1>2, <1>3, <1>4, <1>5, <1>6, <1>7, <1>8, <1>9 DEF Next, Environment, Handler, Done

\* A turn that is retired leaves nothing pending behind, and each of its cards
\* shows the state of its branch unless the call that should have shown it
\* failed (A2AProjector.finish, with the seals of the two traces).
THEOREM RetiredTurnsSettled == Spec => []NothingPending
<1> DEFINE Inv == TypeOK /\ Renders /\ Honest /\ RowsTidy /\ CardsTidy
<1>1. Init => Inv
  <2> SUFFICES ASSUME Init PROVE Inv
    OBVIOUS
  <2>1. TypeOK /\ Renders
    BY TurnInit, TurnAssumption
  <2>2. Honest
    BY DEF Init, Honest, BranchesHonest, NoneInterrupted, PendingUntold, RendersRun,
           AnsweredReplied, NoJob, Outcomes, Resolutions
  <2>3. RowsTidy
    BY DEF Init, RowsTidy, Blank, Registered, Settled, Retired, Drains
  <2>4. CardsTidy
    BY DEF Init, CardsTidy, CardsTell, EditTells, ReplyTells
  <2> QED
    BY <2>1, <2>2, <2>3, <2>4
<1>2. Inv /\ [Next]_vars => Inv'
  <2> SUFFICES ASSUME Inv, [Next]_vars PROVE Inv'
    OBVIOUS
  <2>1. (TypeOK /\ Renders)'
    BY TurnTypeStep, TurnAssumption
  <2>2. Honest'
    BY HonestStep, TurnAssumption
  <2>3. RowsTidy'
    BY RowsTidyStep, TurnAssumption DEF Honest
  <2>4. CardsTidy'
    BY CardsTidyStep, TurnAssumption
  <2> QED
    BY <2>1, <2>2, <2>3, <2>4
<1>3. Inv => NothingPending
  <2> SUFFICES ASSUME Inv, pc = "done", ~registered, NEW c \in Calls
               PROVE  /\ "pending" \notin {branch[c], human[c], audit[c]}
                      /\ card[c].shows = branch[c] \/ c \in missed
    BY DEF NothingPending
  <2>1. "pending" \notin {branch[c], human[c], audit[c]}
    BY DEF RowsTidy, Settled, Retired, Drains
  <2> QED
    BY <2>1 DEF CardsTidy, CardsTell
<1> QED
  BY <1>1, <1>2, <1>3, PTL DEF Spec

-----------------------------------------------------------------------------
(* What the cards show *)

\* A card shows what its branch was when it was last edited, whether or not the
\* call was said to have failed.
CardsHonest ==
    \A c \in Calls :
        /\ card[c].shows = "replied" =>
             /\ consult[c].status = "reply"
             /\ c \in answered \/ ToEdit(c) \/ c \in missed
        /\ card[c].shows = "interrupted" => branch[c] = "interrupted"
        /\ card[c].shows \in {"rejected", "failed"} =>
             Told(c, card[c].shows, CardState(consult[c].status))

\* What leaves the cards alone, their branches, and what the run told of them.
CardsStill ==
    /\ UNCHANGED <<branch, card>>
    /\ missed \subseteq missed' /\ answered \subseteq answered'
    /\ \A c \in Calls : consult[c].status \in Outcomes => consult'[c] = consult[c]
    /\ pc = "edit" => job.call \in missed'

LEMMA CardsStay ==
    ASSUME CardsHonest, CardsStill
    PROVE  CardsHonest'
  BY DEF CardsHonest, CardsStill, ToEdit, Told, Outcomes

LEMMA CardsHonestRender ==
    ASSUME TypeOK, Renders, Honest, CardsTidy, CardsHonest,
           \/ CardSent
           \/ ThreadMade
           \/ OpenFails
           \/ CardEdited
           \/ EditFails
           \/ ChunkSent
           \/ ChunkFails
    PROVE  CardsHonest'
<1>1. InRender
  BY DEF CardSent, ThreadMade, OpenFails, CardEdited, EditFails, ChunkSent, ChunkFails, InRender
<1>2. job \in Rendering /\ job.call \in Calls
  BY <1>1, RenderInHand
<1>3. UNCHANGED consult
  BY DEF CardSent, ThreadMade, OpenFails, CardEdited, EditFails, ChunkSent, ChunkFails, run
<1>4. CASE ThreadMade \/ ChunkFails
  <2>1. CardsStill
    BY <1>3, <1>4 DEF ThreadMade, ChunkFails, ChunkLost, CardsStill
  <2> QED
    BY <2>1, CardsStay
<1>5. CASE OpenFails \/ CardSent
  <2>1. \A c \in Calls :
             \/ card'[c].shows = "pending"
             \/ card'[c] = card[c] /\ branch'[c] = branch[c]
    <3>1. \A c \in Calls : IF c = job.call THEN Posted[c].shows = "pending" ELSE Posted[c] = card[c]
      BY <1>2 DEF Posted, TypeOK, Card
    <3>2. CASE OpenFails
      BY <3>1, <3>2 DEF OpenFails, CardLost
    <3>3. CASE CardSent
      BY <1>2, <3>1, <3>3 DEF CardSent, TypeOK
    <3> QED
      BY <1>5, <3>2, <3>3
  <2>2. pc # "edit" /\ UNCHANGED answered /\ missed \subseteq missed'
    BY <1>5 DEF OpenFails, CardSent, CardLost
  <2> QED
    BY <1>3, <2>1, <2>2 DEF CardsHonest, ToEdit, Told
<1>6. CASE CardEdited \/ EditFails
  <2>1. UNCHANGED <<branch, answered>> /\ pc = "edit"
    BY <1>6 DEF CardEdited, EditFails
  <2>2. \A c \in Calls \ {job.call} :
             card'[c] = card[c] /\ (c \in missed => c \in missed')
    BY <1>2, <1>6 DEF CardEdited, EditFails, EditLost, TypeOK
  <2>3. \/ card'[job.call].shows = EditState
        \/ card'[job.call] = card[job.call] /\ job.call \in missed'
    BY <1>2, <1>6 DEF CardEdited, EditFails, EditLost, TypeOK, Card
  <2>4. \A c \in Calls \ {job.call} : ToEdit(c) => ToEdit(c)'
    BY <2>1 DEF ToEdit
  <2>5. CASE card'[job.call] = card[job.call] /\ job.call \in missed'
    BY <1>2, <1>3, <2>1, <2>2, <2>4, <2>5 DEF CardsHonest, Told
  <2>6. CASE card'[job.call].shows = EditState
    <3>1. EditState = "replied" =>
            /\ consult[job.call].status = "reply"
            /\ branch[job.call] = "pending" \/ job.call \in answered
      <4>1. EditState = "replied" => consult[job.call].status = "reply"
        BY <1>2, <2>1 DEF EditState, Outcomes, CardState, Honest, RendersRun
      <4>2. branch[job.call] \in {EditState, "pending"}
        BY <2>1 DEF CardsTidy, EditTells
      <4>3. branch[job.call] = "replied" => job.call \in answered
        BY <1>2 DEF Honest, BranchesHonest
      <4> QED
        BY <4>1, <4>2, <4>3
    <3>2. EditState = "interrupted" => branch[job.call] = "interrupted"
      BY <1>2, <2>1 DEF EditState, Outcomes, CardState, CardsTidy, EditTells
    <3>3. EditState \in {"rejected", "failed"} =>
             Told(job.call, EditState, CardState(consult[job.call].status))
      BY <1>2, <2>1 DEF EditState, Outcomes, CardState, Honest, RendersRun, Told
    <3> QED
      BY <1>2, <1>3, <2>1, <2>2, <2>4, <2>6, <3>1, <3>2, <3>3 DEF CardsHonest, ToEdit, Told
  <2> QED
    BY <2>3, <2>5, <2>6
<1>7. CASE ChunkSent
  <2>1. UNCHANGED <<card, missed>> /\ pc = "chunk" /\ answered' = answered \cup {job.call}
    BY <1>7 DEF ChunkSent
  <2>2. \A c \in Calls \ {job.call} : branch'[c] = branch[c]
    BY <1>2, <1>7 DEF ChunkSent, TypeOK
  <2>3. branch[job.call] # "interrupted"
    BY <1>2, <2>1 DEF Honest, NoneInterrupted, Drains
  <2> QED
    BY <1>2, <1>3, <2>1, <2>2, <2>3 DEF CardsHonest, ToEdit, Told
<1> QED
  BY <1>4, <1>5, <1>6, <1>7

LEMMA CardsHonestResult ==
    ASSUME TypeOK, Honest, CardsHonest, OwnerResult \/ NestedResult
    PROVE  CardsHonest'
<1>1. PICK c \in Calls, outcome \in Outcomes :
             /\ c \in Open
             /\ consult' = [consult EXCEPT ![c].status = outcome]
             /\ branch' = RecordsFirst(c, outcome)
  BY DEF OwnerResult, NestedResult, Answers
<1>2. pc = "draining" /\ UNCHANGED <<card, missed, answered>>
  BY DEF OwnerResult, NestedResult, Draining
<1>3. \A d \in Calls \ {c} : consult'[d] = consult[d] /\ branch'[d] = branch[d]
  BY <1>1 DEF RecordsFirst, TypeOK
<1>4. card[c].shows \notin {"replied", "rejected", "failed"}
  BY <1>1 DEF Open, CardsHonest, Told, Outcomes
<1>5. card[c].shows # "interrupted"
  BY <1>1, <1>2 DEF CardsHonest, Honest, NoneInterrupted, Drains
<1> QED
  BY <1>2, <1>3, <1>4, <1>5 DEF CardsHonest, ToEdit, Told

LEMMA CardsHonestInterrupt ==
    ASSUME TypeOK, CardsHonest, FaultCard \/ FinishCard
    PROVE  CardsHonest'
<1>1. PICK c \in Calls, kind \in {"fault", "interrupt"} :
             /\ branch' = [branch EXCEPT ![c] = "interrupted"]
             /\ job' = Job(kind, c, FALSE)
  BY DEF FaultCard, FinishCard, Dangling, Open, Pending
<1>2. pc # "edit" /\ pc' = "edit" /\ UNCHANGED <<consult, card, missed, answered>>
  BY DEF FaultCard, FinishCard, run
<1>3. ToEdit(c)' /\ branch'[c] = "interrupted"
  BY <1>1, <1>2 DEF Job, ToEdit, TypeOK
<1>4. \A d \in Calls \ {c} : branch'[d] = branch[d]
  BY <1>1 DEF TypeOK
<1> QED
  BY <1>2, <1>3, <1>4 DEF CardsHonest, ToEdit, Told

LEMMA CardsHonestCancelled ==
    ASSUME TypeOK, Renders, Honest, CardsTidy, CardsHonest, Cancelled
    PROVE  CardsHonest'
<1>1. UNCHANGED <<branch, consult>> /\ answered \subseteq answered'
  BY DEF Cancelled, ChunkLost
<1>2. CASE pc = "edit"
  <2>1. job.call \in Calls /\ job \in Rendering
    BY <1>2, RenderInHand DEF InRender
  <2>2. \A c \in Calls \ {job.call} : card'[c] = card[c]
    BY <1>2 DEF Cancelled, EditLost, TypeOK
  <2>3. missed' = missed \cup {job.call}
    BY <1>2 DEF Cancelled, EditLost
  <2>4. card'[job.call] = card[job.call] \/ card'[job.call].shows = EditState
    BY <1>2, <2>1 DEF Cancelled, EditLost, TypeOK, Card
  <2>5. /\ EditState = "replied" => consult[job.call].status = "reply"
        /\ EditState = "interrupted" => branch[job.call] = "interrupted"
        /\ EditState \in {"rejected", "failed"} =>
             Told(job.call, EditState, CardState(consult[job.call].status))
    BY <1>2, <2>1
    DEF EditState, Outcomes, CardState, Honest, RendersRun, CardsTidy, EditTells, Told
  <2>6. \A c \in Calls \ {job.call} : ToEdit(c) => ToEdit(c)'
    BY <1>1 DEF ToEdit
  <2> QED
    BY <1>1, <2>1, <2>2, <2>3, <2>4, <2>5, <2>6 DEF CardsHonest, Told
<1>3. CASE pc # "edit"
  <2>1. \A c \in Calls : card'[c] = card[c] \/ card'[c].shows = "pending"
    <3>1. \A c \in Calls : pc = "card" => Posted[c] = card[c] \/ Posted[c].shows = "pending"
      BY DEF Posted, TypeOK, Card
    <3> QED
      BY <1>3, <3>1 DEF Cancelled, CardLost
  <2>2. missed \subseteq missed'
    BY <1>3 DEF Cancelled, CardLost
  <2> QED
    BY <1>1, <1>3, <2>1, <2>2 DEF CardsHonest, ToEdit, Told
<1> QED
  BY <1>2, <1>3

LEMMA CardsHonestStep ==
    ASSUME TurnAssumption, TypeOK, Renders, Honest, CardsTidy, CardsHonest, [Next]_vars
    PROVE  CardsHonest'
<1> USE DEF CardsStill, projector
<1>1. CASE Start \/ NotStarted \/ Step \/ Handoff \/ Terminal
  <2>1. CardsStill
    BY <1>1 DEF Start, NotStarted, Step, Handoff, Terminal, Draining, run
  <2> QED
    BY <2>1, CardsStay
<1>2. CASE HumanClosed \/ Result \/ FaultsShown \/ Reply \/ StickySet \/ Notice \/ FinishTrace
           \/ AuditClosed \/ Flushed
  <2>1. CardsStill
    BY <1>2 DEF HumanClosed, Result, FaultsShown, Reply, StickySet, Notice, FinishTrace,
                AuditClosed, Flushed, run
  <2> QED
    BY <2>1, CardsStay
<1>3. CASE Raised
  <2>1. CardsStill
    BY <1>3 DEF Raised, Draining, LeaveDrain, LeaveFor
  <2> QED
    BY <2>1, CardsStay
<1>4. CASE OwnerConsult \/ NestedConsult
  <2>1. PICK c \in Calls, record \in Consultation :
             consult[c].status = "none" /\ consult' = [consult EXCEPT ![c] = record]
    <3>1. PICK f \in Working, c \in Calls, peer \in Agents \cup {Nobody} : Consults(f, c, peer)
      BY <1>4 DEF OwnerConsult, NestedConsult
    <3>2. [status |-> "open", parent |-> f, caller |-> agent[f]] \in Consultation
      BY DEF Consultation, Working, Frames, Open, TypeOK
    <3> QED
      BY <3>1, <3>2 DEF Consults
  <2>2. UNCHANGED <<branch, card, missed, answered>> /\ pc # "edit"
    BY <1>4 DEF OwnerConsult, NestedConsult, Draining
  <2>3. \A d \in Calls : consult[d].status \in Outcomes => consult'[d] = consult[d]
    BY <2>1 DEF Outcomes, TypeOK
  <2>4. CardsStill
    BY <2>2, <2>3
  <2> QED
    BY <2>4, CardsStay
<1>5. CASE OwnerResult \/ NestedResult
  BY <1>5, CardsHonestResult
<1>6. CASE CardSent \/ ThreadMade \/ OpenFails \/ CardEdited \/ EditFails \/ ChunkSent \/ ChunkFails
  BY <1>6, CardsHonestRender
<1>7. CASE FaultCard \/ FinishCard
  BY <1>7, CardsHonestInterrupt
<1>8. CASE Cancelled
  BY <1>8, CardsHonestCancelled
<1>9. CASE UNCHANGED vars
  BY <1>9 DEF vars, run, CardsHonest, ToEdit, Told
<1> QED
  BY <1>1, <1>2, <1>3, <1>4, <1>5, <1>6, <1>7, <1>8, <1>9 DEF Next, Environment, Handler, Done

\* What a card shows and what a row says never contradict the run.  "Consulted" is
\* shown only of a consult that replied, and stays only on one whose answer is on
\* the channel, unless the card is yet to be edited, or the last call failed; "No
\* response" is not shown of a consult that was refused, failed or visibly answered,
\* unless Discord said that the answer was not posted; a refusal, a failure and a
\* resolved row are what the run answered
\* (A2AProjector._dispatch, _resolve_branch, _post_response, project_fault, finish).
THEOREM OutcomesHonest == Spec => []HonestOutcomes
<1> DEFINE Inv == TypeOK /\ Renders /\ Honest /\ CardsTidy /\ CardsHonest
<1>1. Init => Inv
  <2> SUFFICES ASSUME Init PROVE Inv
    OBVIOUS
  <2>1. TypeOK /\ Renders
    BY TurnInit, TurnAssumption
  <2>2. Honest
    BY DEF Init, Honest, BranchesHonest, NoneInterrupted, PendingUntold, RendersRun,
           AnsweredReplied, NoJob, Outcomes, Resolutions
  <2>3. CardsTidy /\ CardsHonest
    BY DEF Init, CardsTidy, CardsTell, EditTells, ReplyTells, CardsHonest
  <2> QED
    BY <2>1, <2>2, <2>3
<1>2. Inv /\ [Next]_vars => Inv'
  <2> SUFFICES ASSUME Inv, [Next]_vars PROVE Inv'
    OBVIOUS
  <2>1. (TypeOK /\ Renders)'
    BY TurnTypeStep, TurnAssumption
  <2>2. Honest'
    BY HonestStep, TurnAssumption
  <2>3. CardsTidy' /\ CardsHonest'
    BY CardsTidyStep, CardsHonestStep, TurnAssumption
  <2> QED
    BY <2>1, <2>2, <2>3
<1>3. Inv => HonestOutcomes
  BY DEF Honest, BranchesHonest, CardsHonest, HonestOutcomes
<1> QED
  BY <1>1, <1>2, <1>3, PTL DEF Spec

=============================================================================
