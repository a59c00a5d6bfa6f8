--------------------------------- MODULE Turn ---------------------------------
(***************************************************************************)
(* One human turn: MentionHandler.handle, with the A2ADispatcher that      *)
(* pairs the consults of its run and the A2AProjector that renders them    *)
(* into the audit channel.                                                 *)
(*                                                                         *)
(* The run is a tree of frames, external to the code: the top frame holds  *)
(* the human's turn, and every accepted consult opens a frame of its own.  *)
(* A handoff changes the agent of its frame.  What reaches the handler is  *)
(* one ordered stream of steps that carry the name of their agent and not  *)
(* their frame; the handler keeps acting_agent to tell the owner's steps   *)
(* from those of consulted agents.                                         *)
(*                                                                         *)
(* The handler is suspended at each call to Discord, the mesh or a trace   *)
(* writer: a place of pc stands for an await, what lies between two awaits *)
(* is one action, and a call can succeed, fail, fail after it took effect, *)
(* or be cut off by the cancellation of the turn.  The two step traces are *)
(* reduced to their consult rows and how they are sealed (StepTrace models *)
(* the rest).                                                              *)
(***************************************************************************)
EXTENDS Naturals, Sequences, FiniteSets

CONSTANTS
    Agents,
    Calls,       \* tool_call_ids of message_agent calls, unique in a run
    Top,         \* the frame that holds the human's turn
    Nobody,
    Mentions,    \* the mention_ids a message can carry, in order
    Reentrant,   \* whether the owner of the turn may be at work in the frame of
                 \* a consult as well, which takes a handoff to get to
    MaxChunks    \* bound: messages one response is split into

ASSUME TurnAssumption ==
    /\ Top \notin Calls
    /\ Nobody \notin Agents
    /\ Mentions \subseteq Seq(Agents)
    /\ Reentrant \in BOOLEAN
    /\ MaxChunks \in Nat \ {0}

VARIABLES
    agent,       \* run: the agent at work in each frame, Nobody if not opened
    consult,     \* run and A2ADispatcher._open: each consult's status, the
                 \* frame that made it and the A2ACall.caller recorded for it
    terminal,    \* run: "running", or how it ended
    acting,      \* acting_agent of _drain_and_deliver
    pc,          \* where the handler is suspended
    job,         \* the projection being rendered
    unwinding,   \* an exception is on its way out of the handler
    branch,      \* _Turn.branches: the state of each, "none" if not opened
    thread,      \* _Turn.thread_id is set (and _threads maps the turn)
    registered,  \* the projector holds the turn: _turns, _threads, its trace
    card,        \* Discord: where each card lies and the state it shows
    missed,      \* history: cards whose last call failed
    answered,    \* Discord: consults with a response on the channel
    unheard,     \* history: those of them whose last post was said to have failed
    human,       \* the consult rows of the human's trace
    linked,      \* those of them that link to the audit thread
    audit,       \* the consult rows of the audit trace (nested consults)
    sealed,      \* how each trace stands
    reply        \* what became of the answer to the human

run == <<agent, consult>>
projector == <<branch, thread, registered, card, missed, answered, unheard>>
traces == <<human, linked, audit, sealed>>
vars == <<run, terminal, acting, pc, job, unwinding, projector, traces, reply>>

-----------------------------------------------------------------------------
(* Frames, branches and rows *)

Frames == Calls \cup {Top}
Outcomes == {"reply", "reject", "failed"}
BranchStates == {"pending", "replied", "rejected", "failed", "interrupted"}
RowStates == {"none", "pending", "ok", "failed", "denied", "interrupted"}

\* consult_outcome: a projection's row state; the card's is named apart.
RowState(outcome) ==
    CASE outcome = "reply" -> "ok"
      [] outcome = "reject" -> "denied"
      [] OTHER -> "failed"
CardState(outcome) ==
    CASE outcome = "reply" -> "replied"
      [] outcome = "reject" -> "rejected"
      [] OTHER -> "failed"

Open == {c \in Calls : consult[c].status = "open"}
Working == {f \in Frames : f = Top \/ (f \in Open /\ agent[f] # Nobody)}

\* A call to oneself or up the chain is refused; the owner is above everyone.
CanConsult(f) == Agents \ {agent[f], agent[Top]}

\* Who can take a frame over.
CanTake(f) ==
    IF Reentrant THEN Agents
    ELSE IF f = Top THEN Agents \ {agent[g] : g \in Working \ {Top}}
    ELSE Agents \ {agent[Top]}

IsActing(emitter) == emitter = acting

NoJob == [kind |-> "none", call |-> Top, isActing |-> FALSE, chunks |-> 0]
Job(kind, c, isActing) == [kind |-> kind, call |-> c, isActing |-> isActing, chunks |-> 0]

Surfaces == {"human", "audit"}
Kinds == {"request", "fault", "interrupt"} \cup Outcomes

\* A row is opened pending; opening one brings its trace to life.
Alive(surface) == [sealed EXCEPT ![surface] = IF @ = "none" THEN "live" ELSE @]

\* Mutant: a reply leaves its row as it was opened.
Bug_OnlyTrouble(rows, c, outcome) ==
    IF rows[c] = "pending" /\ outcome # "reply"
    THEN [rows EXCEPT ![c] = RowState(outcome)] ELSE rows

\* on_consult_result: a row that is not there, or no longer pending, is left alone.
Resolved(rows, c, outcome) ==
    IF rows[c] = "pending" THEN [rows EXCEPT ![c] = RowState(outcome)] ELSE rows

\* _seal_entry: what is pending is stranded.
Stranded(rows) == [c \in Calls |-> IF rows[c] = "pending" THEN "interrupted" ELSE rows[c]]

Closed(surface) == IF sealed[surface] = "none" THEN "none" ELSE "sealed"

\* Mutant: only the consults still open are looked at.
Bug_PendingOpen == {c \in Open : branch[c] = "pending"}

Pending == {c \in Calls : branch[c] = "pending"}

-----------------------------------------------------------------------------
(* Routing, up to the first event of the run *)

FirstOnline(mentions, online, i) ==
    mentions[i] \in online /\ \A j \in 1 .. i - 1 : mentions[j] \notin online

Init ==
    /\ agent = [f \in Frames |-> Nobody]
    /\ consult = [c \in Calls |-> [status |-> "none", parent |-> Top, caller |-> Nobody]]
    /\ terminal = "running"
    /\ acting = Nobody
    /\ pc = "routing"
    /\ job = NoJob
    /\ unwinding = FALSE
    /\ branch = [c \in Calls |-> "none"]
    /\ thread = FALSE
    /\ registered = FALSE
    /\ card = [c \in Calls |-> [at |-> "nowhere", shows |-> "none"]]
    /\ missed = {}
    /\ answered = {}
    /\ unheard = {}
    /\ human = [c \in Calls |-> "none"]
    /\ linked = {}
    /\ audit = [c \in Calls |-> "none"]
    /\ sealed = [surface \in Surfaces |-> "none"]
    /\ reply = "none"

\* handle: the roster is read, and the first online mention is started.  An
\* unreadable roster or nobody online is told to the human; a message without
\* a mention is not answered.  begin_turn does not suspend.
Start ==
    /\ pc = "routing"
    /\ \E mentions \in Mentions, online \in SUBSET Agents :
         \E i \in DOMAIN mentions :
           /\ FirstOnline(mentions, online, i)
           /\ agent' = [agent EXCEPT ![Top] = mentions[i]]
           /\ acting' = mentions[i]
    /\ registered' = TRUE
    /\ pc' = "draining"
    /\ UNCHANGED <<consult, terminal, job, unwinding, branch, thread, card, missed, answered,
                   unheard, traces, reply>>

NotStarted ==
    /\ pc = "routing"
    /\ \/ reply' = "notice"  \* no roster, or none of the mentioned is online
       \/ UNCHANGED reply    \* ambient, or the history or the start call raised
    /\ pc' = "done"
    /\ UNCHANGED <<run, terminal, acting, job, unwinding, projector, traces>>

-----------------------------------------------------------------------------
(* The stream: one event of the run and what the drain does with it up to  *)
(* its first await                                                         *)

Draining == pc = "draining"

\* An agent message or another tool's step.  The owner's goes to the human's
\* trace, any other to the audit thread, or nowhere if there is no thread.
Step ==
    /\ Draining
    /\ \E f \in Working :
         sealed' = IF IsActing(agent[f]) THEN Alive("human")
                   ELSE IF thread THEN Alive("audit")
                   ELSE sealed
    /\ UNCHANGED <<run, terminal, acting, pc, job, unwinding, projector, human, linked, audit, reply>>

\* Mutant: every handoff on the stream passes control.
Bug_AnyHandoff(emitter, target) == target

HandsOver(emitter, target) == IF IsActing(emitter) THEN target ELSE acting

\* A handoff is rendered like any step, under the agent that hands over; only
\* then does control pass, and only if that agent has it.
Handoff ==
    /\ Draining
    /\ \E f \in Working, target \in Agents :
         /\ target \in CanTake(f)
         /\ agent' = [agent EXCEPT ![f] = target]
         /\ acting' = HandsOver(agent[f], target)
         /\ sealed' = IF IsActing(agent[f]) THEN Alive("human")
                      ELSE IF thread THEN Alive("audit")
                      ELSE sealed
    /\ UNCHANGED <<consult, terminal, pc, job, unwinding, projector, human, linked, audit, reply>>

\* A message_agent call.  The mesh may refuse to dispatch it (peer offline,
\* itself, a cycle), and then no frame opens.
Consults(f, c, peer) ==
    /\ consult[c].status = "none"
    /\ consult' = [consult EXCEPT ![c] =
                     [status |-> "open", parent |-> f, caller |-> agent[f]]]
    /\ peer \in CanConsult(f) \cup {Nobody}
    /\ agent' = [agent EXCEPT ![c] = peer]

\* The owner's consult becomes a card of the audit channel.
OwnerConsult ==
    /\ Draining
    /\ \E f \in Working, c \in Calls, peer \in Agents \cup {Nobody} :
         /\ IsActing(agent[f])
         /\ Consults(f, c, peer)
         /\ job' = Job("request", c, TRUE)
    /\ pc' = "card"
    /\ UNCHANGED <<terminal, acting, unwinding, projector, traces, reply>>

\* project_consult: a consulted agent's own consult is a row of the audit
\* trace, dropped when the turn has no thread.
NestedConsult ==
    /\ Draining
    /\ \E f \in Working, c \in Calls, peer \in Agents \cup {Nobody} :
         /\ ~IsActing(agent[f])
         /\ Consults(f, c, peer)
         /\ IF thread
            THEN /\ audit' = [audit EXCEPT ![c] = "pending"]
                 /\ sealed' = Alive("audit")
            ELSE UNCHANGED <<audit, sealed>>
    /\ UNCHANGED <<terminal, acting, pc, job, unwinding, projector, human, linked, reply>>

\* What the mesh may answer: a refused call is denied; a frame answers once
\* the consults made in it are answered.
Answers(c, outcome) ==
    /\ c \in Open
    /\ outcome = "reject" <=> agent[c] = Nobody
    /\ \A d \in Open : consult[d].parent # c
    /\ consult' = [consult EXCEPT ![c].status = outcome]
    /\ agent' = [agent EXCEPT ![c] = Nobody]

\* Where _dispatch suspends first.  A consult without a card has nothing to
\* edit; its reply is posted to the thread, if there is one.
Suspends(c, outcome) ==
    IF branch[c] # "none" THEN "edit"
    ELSE IF outcome = "reply" /\ thread THEN "flush"
    ELSE "draining"

\* Mutant: a reply is recorded before it is posted, like any outcome.
Bug_ReplyRecorded(c, outcome) ==
    IF branch[c] # "none" THEN [branch EXCEPT ![c] = CardState(outcome)] ELSE branch

\* _resolve_branch records a rejection or a failure before the card is edited;
\* a reply is recorded only when part of it is on the channel.
RecordsFirst(c, outcome) ==
    IF branch[c] # "none" /\ outcome # "reply"
    THEN [branch EXCEPT ![c] = CardState(outcome)]
    ELSE branch

\* The result is folded by the caller and carries its name.  The owner's row
\* is resolved after the exchange is rendered, a nested one before.
OwnerResult ==
    /\ Draining
    /\ \E c \in Calls, outcome \in Outcomes :
         /\ IsActing(consult[c].caller)
         /\ Answers(c, outcome)
         /\ branch' = RecordsFirst(c, outcome)
         /\ pc' = Suspends(c, outcome)
         /\ IF pc' = "draining"
            THEN human' = Resolved(human, c, outcome) /\ UNCHANGED job
            ELSE job' = Job(outcome, c, TRUE) /\ UNCHANGED human
    /\ UNCHANGED <<terminal, acting, unwinding, thread, registered, card, missed, answered,
                   unheard, linked, audit, sealed, reply>>

NestedResult ==
    /\ Draining
    /\ \E c \in Calls, outcome \in Outcomes :
         /\ ~IsActing(consult[c].caller)
         /\ Answers(c, outcome)
         /\ branch' = RecordsFirst(c, outcome)
         /\ audit' = Resolved(audit, c, outcome)
         /\ pc' = Suspends(c, outcome)
         /\ job' = IF pc' = "draining" THEN NoJob ELSE Job(outcome, c, FALSE)
    /\ UNCHANGED <<terminal, acting, unwinding, thread, registered, card, missed, answered,
                   unheard, human, linked, sealed, reply>>

\* Nothing more of the run is heard: its frames, and the drain's local, are gone.
RunLeft ==
    /\ agent' = [f \in Frames |-> Nobody]
    /\ acting' = Nobody

\* The terminal seals both traces; the stream is over, and trace.finish awaits
\* the human's writer.
Terminal ==
    /\ Draining
    /\ terminal' \in {"completed", "faulted"}
    /\ RunLeft
    /\ human' = Stranded(human)
    /\ audit' = Stranded(audit)
    /\ sealed' = [surface \in Surfaces |-> Closed(surface)]
    /\ pc' = "closing_human"
    /\ UNCHANGED <<consult, job, unwinding, projector, linked, reply>>

-----------------------------------------------------------------------------
(* Rendering one projection: _guarded swallows every failure of a call and *)
(* reports none; the rest of the render is dropped                         *)

Links(c, receipt) == IF receipt THEN linked \cup {c} ELSE linked

\* Back to where project, project_fault or _guarded was awaited.  An owner's
\* consult gets its row now, which links only to an exchange that was written.
RenderEnds(receipt) ==
    LET c == job.call IN
    /\ job' = NoJob
    /\ pc' = CASE job.kind = "fault" -> "faulting"
               [] job.kind = "interrupt" -> "finishing"
               [] OTHER -> "draining"
    /\ IF job.kind = "request"
       THEN /\ human' = [human EXCEPT ![c] = "pending"]
            /\ linked' = Links(c, receipt)
            /\ sealed' = Alive("human")
       ELSE /\ human' = IF job.isActing THEN Resolved(human, c, job.kind) ELSE human
            /\ UNCHANGED <<linked, sealed>>

\* _open_branch: the card goes to the thread if there is one, else to the
\* channel, where it becomes the anchor of the thread.
Posted ==
    [card EXCEPT ![job.call] =
        [at |-> IF thread THEN "thread" ELSE "channel", shows |-> "pending"]]

CardSent ==
    /\ pc = "card"
    /\ branch' = [branch EXCEPT ![job.call] = "pending"]
    /\ card' = Posted
    /\ IF thread
       THEN RenderEnds(TRUE)
       ELSE pc' = "thread" /\ UNCHANGED <<job, human, linked, sealed>>
    /\ UNCHANGED <<run, terminal, acting, unwinding, thread, registered, missed,
                   answered, unheard, audit, reply>>

ThreadMade ==
    /\ pc = "thread"
    /\ thread' = TRUE
    /\ RenderEnds(TRUE)
    /\ UNCHANGED <<run, terminal, acting, unwinding, branch, registered, card, missed,
                   answered, unheard, audit, reply>>

\* The call failed, before or after Discord did what it asks: a card may be
\* there that has no branch.
CardLost ==
    IF pc = "card"
    THEN card' \in {card, Posted} /\ missed' = missed \cup {job.call}
    ELSE UNCHANGED <<card, missed>>

\* No channel, no card, or no thread: the branch of a card that was sent stays.
OpenFails ==
    /\ pc \in {"card", "thread"}
    /\ CardLost
    /\ RenderEnds(FALSE)
    /\ UNCHANGED <<run, terminal, acting, unwinding, branch, thread, registered,
                   answered, unheard, audit, reply>>

EditState == IF job.kind \in Outcomes THEN CardState(job.kind) ELSE "interrupted"

\* A reply is posted whether or not its card could be edited.
AfterEdit ==
    IF job.kind = "reply"
    THEN pc' = "flush" /\ UNCHANGED <<job, human, linked, sealed>>
    ELSE RenderEnds(FALSE)

CardEdited ==
    /\ pc = "edit"
    /\ card' = [card EXCEPT ![job.call].shows = EditState]
    /\ missed' = missed \ {job.call}
    /\ AfterEdit
    /\ UNCHANGED <<run, terminal, acting, unwinding, branch, thread, registered,
                   answered, unheard, audit, reply>>

EditLost ==
    /\ card' \in {card, [card EXCEPT ![job.call].shows = EditState]}
    /\ missed' = missed \cup {job.call}

EditFails ==
    /\ pc = "edit"
    /\ EditLost
    /\ AfterEdit
    /\ UNCHANGED <<run, terminal, acting, unwinding, branch, thread, registered,
                   answered, unheard, audit, reply>>

\* _post_response: the audit trace is flushed (or the barrier times out), then
\* the response goes out chunk by chunk.
Flushed ==
    /\ pc = "flush"
    /\ pc' = "chunk"
    /\ \E n \in 1 .. MaxChunks : job' = [job EXCEPT !.chunks = n]
    /\ UNCHANGED <<run, terminal, acting, unwinding, projector, traces, reply>>

ChunkSent ==
    /\ pc = "chunk"
    /\ answered' = answered \cup {job.call}
    /\ branch' = IF branch[job.call] = "none" THEN branch
                 ELSE [branch EXCEPT ![job.call] = "replied"]
    /\ IF job.chunks > 1
       THEN job' = [job EXCEPT !.chunks = @ - 1] /\ UNCHANGED <<pc, human, linked, sealed>>
       ELSE RenderEnds(TRUE)
    /\ UNCHANGED <<run, terminal, acting, unwinding, thread, registered, card, missed,
                   unheard, audit, reply>>

\* A response that arrived without the bridge being told.
ChunkLost ==
    \/ UNCHANGED <<answered, unheard>>
    \/ answered' = answered \cup {job.call} /\ unheard' = unheard \cup {job.call}

ChunkFails ==
    /\ pc = "chunk"
    /\ ChunkLost
    /\ RenderEnds(FALSE)
    /\ UNCHANGED <<run, terminal, acting, unwinding, branch, thread, registered, card,
                   missed, audit, reply>>

-----------------------------------------------------------------------------
(* After the stream: the human's trace is closed, the answer delivered, the *)
(* projector retired                                                        *)

HumanClosed ==
    /\ pc = "closing_human"
    /\ pc' = IF unwinding THEN "finishing" ELSE "result"
    /\ UNCHANGED <<run, terminal, acting, job, unwinding, projector, traces, reply>>

\* _await_terminal: result() tells what the terminal told.
Result ==
    /\ pc = "result"
    /\ pc' = IF terminal = "faulted" THEN "faulting" ELSE "reply"
    /\ UNCHANGED <<run, terminal, acting, job, unwinding, projector, traces, reply>>

\* project_fault for the calls that dangle: only a card is there to resolve.
Dangling == {c \in Open : branch[c] # "none"}

FaultCard ==
    /\ pc = "faulting"
    /\ \E c \in Dangling :
         /\ branch[c] = "pending"
         /\ branch' = [branch EXCEPT ![c] = "interrupted"]
         /\ job' = Job("fault", c, FALSE)
    /\ pc' = "edit"
    /\ UNCHANGED <<run, terminal, acting, unwinding, thread, registered, card, missed,
                   answered, unheard, traces, reply>>

FaultsShown ==
    /\ pc = "faulting"
    /\ \A c \in Dangling : branch[c] # "pending"
    /\ pc' = "notice"
    /\ UNCHANGED <<run, terminal, acting, job, unwinding, projector, traces, reply>>

\* Mutant: a reply that was lost counts as delivered.
Bug_LostIsDone ==
    /\ pc = "reply"
    /\ \/ reply' = "posted" /\ pc' = "sticky"
       \/ reply' \in {"empty", "lost"} /\ pc' = "finishing"
    /\ UNCHANGED <<run, terminal, acting, job, unwinding, projector, traces>>

\* post_reply: at least one chunk posted, nothing to post, or every chunk lost.
Reply ==
    /\ pc = "reply"
    /\ \/ reply' = "posted" /\ pc' = "sticky"
       \/ reply' = "empty" /\ pc' = "finishing"
       \/ reply' = "lost" /\ pc' = "notice"
    /\ UNCHANGED <<run, terminal, acting, job, unwinding, projector, traces>>

StickySet ==
    /\ pc = "sticky"
    /\ pc' = "finishing"
    /\ UNCHANGED <<run, terminal, acting, job, unwinding, projector, traces, reply>>

\* post_notice tries once and swallows a failure.
Notice ==
    /\ pc = "notice"
    /\ reply' = "notice"
    /\ pc' = "finishing"
    /\ UNCHANGED <<run, terminal, acting, job, unwinding, projector, traces>>

\* finish: cards still pending first, then the audit trace, then the eviction.
FinishCard ==
    /\ pc = "finishing"
    /\ \E c \in Pending :
         /\ branch' = [branch EXCEPT ![c] = "interrupted"]
         /\ job' = Job("interrupt", c, FALSE)
    /\ pc' = "edit"
    /\ UNCHANGED <<run, terminal, acting, unwinding, thread, registered, card, missed,
                   answered, unheard, traces, reply>>

FinishTrace ==
    /\ pc = "finishing"
    /\ Pending = {}
    /\ audit' = Stranded(audit)
    /\ sealed' = [sealed EXCEPT !["audit"] = Closed("audit")]
    /\ pc' = "closing_audit"
    /\ UNCHANGED <<run, terminal, acting, job, unwinding, projector, human, linked, reply>>

AuditClosed ==
    /\ pc = "closing_audit"
    /\ registered' = FALSE
    /\ pc' = "done"
    /\ UNCHANGED <<run, terminal, acting, job, unwinding, branch, thread, card, missed,
                   answered, unheard, traces, reply>>

-----------------------------------------------------------------------------
(* An exception out of an await: the finally clauses run on the way out     *)

\* The human's trace is sealed as interrupted and its writer awaited.
LeaveDrain ==
    /\ RunLeft
    /\ human' = Stranded(human)
    /\ sealed' = [sealed EXCEPT !["human"] = Closed("human")]
    /\ pc' = "closing_human"
    /\ job' = NoJob

LeaveFor(place) ==
    /\ pc' = place
    /\ job' = NoJob
    /\ UNCHANGED <<agent, acting, human, sealed>>

\* The stream, result(), post_reply or the sticky store raises.
Raised ==
    /\ ~unwinding
    /\ unwinding' = TRUE
    /\ \/ Draining /\ LeaveDrain
       \/ pc \in {"result", "reply", "sticky"} /\ LeaveFor("finishing")
    /\ UNCHANGED <<consult, terminal, projector, linked, audit, reply>>

\* The awaits of the drain, of the rest of the try, and those that nothing
\* follows: finish settles its cards outside its own try.
InDrain ==
    \/ pc \in {"draining", "card", "thread", "flush", "chunk"}
    \/ pc = "edit" /\ job.kind \in Outcomes
InDelivery ==
    \/ pc \in {"closing_human", "result", "reply", "sticky", "notice"}
    \/ pc = "edit" /\ job.kind = "fault"
InFinish ==
    \/ pc \in {"routing", "closing_audit"}
    \/ pc = "edit" /\ job.kind = "interrupt"

\* drain_inflight cancels the turn's task, once.  A call cut off may or may
\* not have reached Discord.
Cancelled ==
    /\ ~unwinding
    /\ unwinding' = TRUE
    /\ \/ InDrain /\ LeaveDrain
       \/ InDelivery /\ LeaveFor("finishing")
       \/ InFinish /\ LeaveFor("done")
    /\ registered' = (registered /\ pc # "closing_audit")
    /\ IF pc = "edit" THEN EditLost ELSE CardLost
    /\ IF pc = "chunk" THEN ChunkLost ELSE UNCHANGED <<answered, unheard>>
    /\ UNCHANGED <<consult, terminal, branch, thread, linked, audit, reply>>

-----------------------------------------------------------------------------
(* The specification *)

\* What the run sends, and what may go wrong: never owed.
Environment ==
    \/ Start \/ NotStarted
    \/ Step \/ Handoff \/ OwnerConsult \/ NestedConsult \/ OwnerResult \/ NestedResult
    \/ Terminal \/ Raised \/ Cancelled

\* What goes on by itself, once the call awaited has returned.
Handler ==
    \/ CardSent \/ ThreadMade \/ OpenFails \/ CardEdited \/ EditFails
    \/ Flushed \/ ChunkSent \/ ChunkFails
    \/ HumanClosed \/ Result \/ FaultCard \/ FaultsShown
    \/ Reply \/ StickySet \/ Notice \/ FinishCard \/ FinishTrace \/ AuditClosed

\* The handler has returned.
Done == pc = "done" /\ UNCHANGED vars

Next == Environment \/ Handler \/ Done

Spec == Init /\ [][Next]_vars

-----------------------------------------------------------------------------
(* Properties *)

Places ==
    {"routing", "draining", "card", "thread", "edit", "flush", "chunk", "closing_human",
     "result", "faulting", "reply", "sticky", "notice", "finishing", "closing_audit", "done"}

Consultation == [status : {"none", "open"} \cup Outcomes,
                 parent : Frames, caller : Agents \cup {Nobody}]
Rendering == [kind : Kinds, call : Calls, isActing : BOOLEAN, chunks : 0 .. MaxChunks]
Card == [at : {"nowhere", "channel", "thread"}, shows : BranchStates \cup {"none"}]

\* The state of a turn: frames and consults of the run, the place of the
\* handler, the projection it renders, and what stands on Discord.
TypeOK ==
    /\ agent \in [Frames -> Agents \cup {Nobody}]
    /\ consult \in [Calls -> Consultation]
    /\ terminal \in {"running", "completed", "faulted"}
    /\ acting \in Agents \cup {Nobody}
    /\ pc \in Places
    /\ job \in {NoJob} \cup Rendering
    /\ unwinding \in BOOLEAN
    /\ branch \in [Calls -> BranchStates \cup {"none"}]
    /\ thread \in BOOLEAN
    /\ registered \in BOOLEAN
    /\ card \in [Calls -> Card]
    /\ missed \in SUBSET Calls
    /\ answered \in SUBSET Calls
    /\ unheard \in SUBSET Calls
    /\ human \in [Calls -> RowStates]
    /\ linked \in SUBSET Calls
    /\ audit \in [Calls -> RowStates]
    /\ sealed \in [Surfaces -> {"none", "live", "sealed"}]
    /\ reply \in {"none", "posted", "empty", "lost", "notice"}

\* The handler knows the agent in control of the human's turn from the names
\* on the stream alone: handoffs move it only when the owner hands over, and
\* no consulted agent can seize it.
KnowsOwner == acting = agent[Top]

\* Each consult shows on one surface only, its own: a row of the human's trace
\* and a card if the owner made it, a row of the audit trace if a consulted
\* agent did.
PrivateConsults ==
    \A c \in Calls :
        IF consult[c].parent = Top THEN audit[c] = "none"
        ELSE human[c] = "none" /\ branch[c] = "none" /\ c \notin linked

Resolutions == {"ok", "denied", "failed"}
Told(c, shown, state) == consult[c].status \in Outcomes /\ shown = state

\* A card that finish has still to edit, or that is being edited.
ToEdit(c) == branch[c] = "pending" \/ (pc = "edit" /\ job.call = c)

\* What a card shows and what a row says never contradict the run.  "Consulted" is
\* shown only of a consult that replied, and stays only on one whose answer is on
\* the channel: the card is edited before the answer is posted, so while the card
\* is yet to be edited again there may be none, and when the last call failed there
\* may never be one (missed).  "No response" is not shown of a consult that was
\* refused, failed or visibly answered, unless Discord said that the answer was not
\* posted (unheard).  A refusal, a failure and a resolved row are what the run
\* answered (_dispatch, _resolve_branch, _post_response, project_fault, finish).
HonestOutcomes ==
    \A c \in Calls :
        /\ card[c].shows = "replied" =>
             /\ consult[c].status = "reply"
             /\ c \in answered \/ ToEdit(c) \/ c \in missed
        /\ card[c].shows = "interrupted" =>
             c \notin answered \ unheard /\ consult[c].status \in {"open", "reply"}
        /\ card[c].shows \in {"rejected", "failed"} =>
             Told(c, card[c].shows, CardState(consult[c].status))
        /\ human[c] \in Resolutions => Told(c, human[c], RowState(consult[c].status))
        /\ audit[c] \in Resolutions => Told(c, audit[c], RowState(consult[c].status))

\* A turn that is retired leaves nothing pending behind, and each of its cards
\* shows the state of its branch unless the call that should have shown it
\* failed.
NothingPending ==
    pc = "done" /\ ~registered =>
        \A c \in Calls :
            /\ "pending" \notin {branch[c], human[c], audit[c]}
            /\ card[c].shows = branch[c] \/ c \in missed

\* The human's row links to an exchange that was written: the card was posted
\* and the thread exists.  A second consult that failed to post does not
\* inherit the link of the first.
LinksWritten == \A c \in linked : thread /\ card[c].at # "nowhere"

\* No turn whose run ended is left without an answer: the reply, a notice in
\* its place, or silence when the agent had nothing to say, whatever failed
\* in rendering the run.
EveryTurnAnswered ==
    pc = "done" /\ terminal # "running" /\ ~unwinding =>
        IF terminal = "completed" THEN reply \in {"posted", "empty", "notice"}
        ELSE reply = "notice"

\* A response never appears in the audit thread above its own pending row,
\* unless its caller has become the owner since it asked.
AnswerBelowRow ==
    [][\A c \in Calls :
          c \in answered' \ answered /\ audit[c] = "pending" =>
              IsActing(consult[c].caller)]_vars

=============================================================================
