------------------------------ MODULE StepTrace ------------------------------
(***************************************************************************)
(* The live step trace of one turn on one rendering surface: class         *)
(* StepTraceRenderer of bridge/trace.py, for one correlation.              *)
(*                                                                         *)
(* Three parties interleave at the awaits of one event loop: the drain of  *)
(* the run's stream, which appends and resolves rows and never touches     *)
(* Discord; the entry's writer task, which flushes dirty segments; and     *)
(* Discord, which answers each call after an arbitrary delay, with a       *)
(* success, with a failure, or with a failure reported for a call that did *)
(* take effect.  Everything between two awaits is one action here.         *)
(*                                                                         *)
(* Row text is abstracted to the row's kind, key and lifecycle state; the  *)
(* 4000-character budget that decides a rollover is a free choice here     *)
(* (TraceBudget models it), so every rollover the code could take is one   *)
(* of this module's behaviours.                                            *)
(***************************************************************************)
EXTENDS Naturals, Sequences

CONSTANTS
    Personas,         \* identities a segment can be posted under
    Keys,             \* tool_call_ids
    NoKey,            \* a tool_call that carries no id
    Results,          \* states a keyed row can resolve to (ok, failed, denied)
    Faults,           \* how a Discord call may go wrong, see FaultKinds
    AwaitsAfterSeal,  \* TRUE on the A2A surface: the reply is delivered between
                      \* seal and finish.  FALSE on the human's: finish follows
                      \* the terminal with no await in between
    HasBarrier,       \* TRUE on the A2A surface: responses are posted behind flush
    Capacity,         \* bound: how many rows steps append to each segment, for
                      \* as many segments as it has elements
    MaxFaults         \* bound: failed calls told apart; past it, calls go on
                      \* failing but none takes effect unacknowledged

(***************************************************************************)
(* failed: the call had no effect and _best_effort_trace swallowed it.     *)
(* applied: Discord did the call, the client saw a swallowed failure (a    *)
(* connection dropped before the answer).                                  *)
(* raised: the call failed with an exception _best_effort_trace does not   *)
(* list (TimeoutError, OSError, the sender's own TypeError/RuntimeError).  *)
(***************************************************************************)
FaultKinds == {"failed", "applied", "raised"}

ASSUME StepTraceAssumption ==
    /\ NoKey \notin Keys
    /\ Results \subseteq {"ok", "failed", "denied"}
    /\ Faults \subseteq FaultKinds
    /\ AwaitsAfterSeal \in BOOLEAN
    /\ HasBarrier \in BOOLEAN
    /\ Capacity \in Seq(Nat)
    /\ MaxFaults \in Nat

VARIABLES
    segments,         \* _Entry.segments, each [persona, rows, message_id, dirty]
    locate,           \* _Entry.locate: key -> <<segment, row>>, NoPlace if absent
    sealed,           \* _Entry.sealed
    wake,             \* the four asyncio.Events of the entry
    flush_requested,
    flushed,
    finished,
    writer,           \* where _write_loop is suspended
    drain,            \* where the handler's drain is suspended
    channel,          \* Discord: the messages in post order
    faults            \* history: failed calls so far, up to MaxFaults

events == <<wake, flush_requested, flushed, finished>>
vars == <<segments, locate, sealed, events, writer, drain, channel, faults>>

-----------------------------------------------------------------------------
(* Rows and segments *)

RowKinds == {"tool", "consult", "text", "seal"}
RowStates == {"pending", "final", "interrupted"} \cup Results

Row == [kind : RowKinds, key : Keys \cup {NoKey}, state : RowStates]

Segment == [persona : Personas, rows : Seq(Row), message_id : Nat, dirty : BOOLEAN]

\* A message of the trace: which segment it was posted for, what it shows.
Message == [seg : Nat, rows : Seq(Row)]

IsPending(row) == row.state = "pending"

NoPlace == <<0, 0>>

\* A handoff or a chunk of prose, and the seal, are born final.
TextRow == [kind |-> "text", key |-> NoKey, state |-> "final"]
SealRow == [kind |-> "seal", key |-> NoKey, state |-> "final"]
KeyedRow(kind, k, state) == [kind |-> kind, key |-> k, state |-> state]

Posted(seg) == seg.message_id # 0

\* A new segment opens for another persona, or when the row does not fit.
NeedsSegment(segs, p, overflow) ==
    \/ Len(segs) = 0
    \/ segs[Len(segs)].persona # p
    \/ overflow

Appended(segs, p, row, overflow) ==
    IF NeedsSegment(segs, p, overflow)
    THEN Append(segs, [persona |-> p, rows |-> <<row>>, message_id |-> 0, dirty |-> TRUE])
    ELSE [segs EXCEPT ![Len(segs)].rows = Append(@, row),
                      ![Len(segs)].dirty = TRUE]

LastPlace(segs) == <<Len(segs), Len(segs[Len(segs)].rows)>>

WithinBounds(segs) ==
    /\ Len(segs) <= Len(Capacity)
    /\ Len(segs[Len(segs)].rows) <= Capacity[Len(segs)]

Replaced(segs, place, row) ==
    [segs EXCEPT ![place[1]].rows[place[2]] = row,
                 ![place[1]].dirty = TRUE]

\* _seal_entry: every pending row of every segment becomes "interrupted".
InterruptedRow(row) ==
    IF IsPending(row) THEN [row EXCEPT !.state = "interrupted"] ELSE row

InterruptedSegment(seg) ==
    IF \E r \in DOMAIN seg.rows : IsPending(seg.rows[r])
    THEN [seg EXCEPT !.rows = [r \in DOMAIN seg.rows |-> InterruptedRow(seg.rows[r])],
                     !.dirty = TRUE]
    ELSE seg

Interrupted(segs) == [i \in DOMAIN segs |-> InterruptedSegment(segs[i])]

SealEntry(segs, overflow) ==
    Appended(Interrupted(segs), segs[Len(segs)].persona, SealRow, overflow)

HasEntry == Len(segments) # 0 /\ ~finished

-----------------------------------------------------------------------------
(* The drain: steps of the run folded into rows *)

\* The stream's terminal is its last event, so no step follows the seal.
CanStep == drain = "draining" /\ ~sealed

AppendStep(p, row, overflow) ==
    /\ CanStep
    /\ segments' = Appended(segments, p, row, overflow)
    /\ WithinBounds(segments')
    /\ wake' = TRUE
    /\ UNCHANGED <<sealed, flush_requested, flushed, finished, writer, drain, channel, faults>>

\* A tool_call without an id is appended but never located; a second call with
\* the id of one still pending takes over its key.
ToolCall(p, k, overflow) ==
    /\ AppendStep(p, KeyedRow("tool", k, "pending"), overflow)
    /\ locate' = IF k = NoKey THEN locate
                 ELSE [locate EXCEPT ![k] = LastPlace(segments')]

Consult(p, k, overflow) ==
    /\ k # NoKey
    /\ AppendStep(p, KeyedRow("consult", k, "pending"), overflow)
    /\ locate' = [locate EXCEPT ![k] = LastPlace(segments')]

\* handoff, or one chunk of an agent_message.
Text(p, overflow) ==
    /\ AppendStep(p, TextRow, overflow)
    /\ UNCHANGED locate

\* Mutant: a resolved row keeps its key.
Bug_Retired(k) == locate

\* A resolved row is retired from the index, so it never resolves twice.
Retired(k) == [locate EXCEPT ![k] = NoPlace]

ResolveRow(k, kind, result) ==
    LET place == locate[k]
        row   == segments[place[1]].rows[place[2]]
    IN /\ CanStep
       /\ place # NoPlace
       /\ row.kind = kind
       /\ segments' = Replaced(segments, place, [row EXCEPT !.state = result])
       /\ locate' = Retired(k)
       /\ wake' = TRUE
       /\ UNCHANGED <<sealed, flush_requested, flushed, finished, writer, drain, channel, faults>>

\* A result whose call row was never seen is appended already resolved.
OrphanResult(p, k, result, overflow) ==
    /\ k \in Keys => locate[k] = NoPlace
    /\ AppendStep(p, KeyedRow("tool", k, result), overflow)
    /\ UNCHANGED locate

\* A result for a key held by a consult row asserts and is dropped by the drain.
ToolResult(p, k, result, overflow) ==
    \/ k \in Keys /\ ResolveRow(k, "tool", result)
    \/ OrphanResult(p, k, result, overflow)

\* An unknown key, or one held by a tool row, changes nothing.
ConsultResult(k, result) == ResolveRow(k, "consult", result)

\* seal, from the stream's terminal, where an await separates it from finish.
Seal(overflow) ==
    /\ AwaitsAfterSeal
    /\ CanStep
    /\ HasEntry
    /\ segments' = SealEntry(segments, overflow)
    /\ locate' = [k \in Keys |-> NoPlace]
    /\ sealed' = TRUE
    /\ wake' = TRUE
    /\ UNCHANGED <<flush_requested, flushed, finished, writer, drain, channel, faults>>

FinishSignals ==
    /\ finished' = TRUE
    /\ flush_requested' = TRUE
    /\ wake' = TRUE

\* finish, up to the await of the writer.  It seals an unsealed entry; on a
\* surface with no await in between this is also the terminal's own seal.
Finish(overflow) ==
    /\ drain = "draining"
    /\ HasEntry
    /\ IF sealed THEN UNCHANGED <<segments, locate>>
       ELSE /\ segments' = SealEntry(segments, overflow)
            /\ locate' = [k \in Keys |-> NoPlace]
    /\ sealed' = TRUE
    /\ FinishSignals
    /\ drain' = "finishing"
    /\ UNCHANGED <<flushed, writer, channel, faults>>

\* finish of a run that rendered nothing: there is no entry to retire.
FinishNothing ==
    /\ drain = "draining"
    /\ Len(segments) = 0
    /\ drain' = "done"
    /\ UNCHANGED <<segments, locate, sealed, events, writer, channel, faults>>

FinishReturns ==
    /\ drain = "finishing"
    /\ writer.pc = "exited"
    /\ drain' = "done"
    /\ UNCHANGED <<segments, locate, sealed, events, writer, channel, faults>>

-----------------------------------------------------------------------------
(* The barrier: flush, called before an A2A response is posted.  One drain  *)
(* serves a correlation, so flush_lock is never contended.                  *)

\* Mutant: the barrier does not wake a parked writer.
Bug_SilentBarrier ==
    /\ flushed' = FALSE
    /\ flush_requested' = TRUE
    /\ UNCHANGED wake

ArmBarrier ==
    /\ flushed' = FALSE
    /\ flush_requested' = TRUE
    /\ wake' = TRUE

FlushBegins ==
    /\ HasBarrier
    /\ CanStep
    /\ HasEntry
    /\ ArmBarrier
    /\ drain' = "barrier"
    /\ UNCHANGED <<segments, locate, sealed, finished, writer, channel, faults>>

FlushReturns ==
    /\ drain = "barrier"
    /\ flushed
    /\ drain' = "draining"
    /\ UNCHANGED <<segments, locate, sealed, events, writer, channel, faults>>

\* The two seconds are up: the interrupt must not stay armed.
FlushTimesOut ==
    /\ drain = "barrier"
    /\ flush_requested' = FALSE
    /\ drain' = "draining"
    /\ UNCHANGED <<segments, locate, sealed, wake, flushed, finished, writer, channel, faults>>

-----------------------------------------------------------------------------
(* The writer task *)

WriterPcs == {"parked", "sending", "spacing", "exited"}

Writer == [pc : WriterPcs,
           seg : Nat,           \* the segment the call in flight is for
           upto : Nat,          \* length of the copy the flush iterates over
           blocked : BOOLEAN,   \* an earlier post of this flush failed
           body : Seq(Row),     \* the snapshot in flight
           again : BOOLEAN,     \* the call in flight is the retry
           retry_once : BOOLEAN]

AtRest(pc) == [pc |-> pc, seg |-> 0, upto |-> 0, blocked |-> FALSE,
               body |-> <<>>, again |-> FALSE, retry_once |-> FALSE]

Sending(i, upto, blocked, body) ==
    [pc |-> "sending", seg |-> i, upto |-> upto, blocked |-> blocked, body |-> body,
     again |-> FALSE, retry_once |-> finished \/ flush_requested]

Dirty(segs) == {i \in DOMAIN segs : segs[i].dirty}

\* Mutant: a failed post does not hold back the segments behind it.
Bug_Sendable(segs, from, upto, blocked) == {i \in from..upto : segs[i].dirty}

\* An unposted segment waits behind a post that failed; a clean one is skipped.
Sendable(segs, from, upto, blocked) ==
    {i \in from..upto : segs[i].dirty /\ (Posted(segs[i]) \/ ~blocked)}

\* Mutant: the barrier is released by the first flush, dirty rows or not.
Bug_BarrierMet(segs) == flush_requested

BarrierMet(segs) == flush_requested /\ Dirty(segs) = {}

\* Mutant: a writer that sees finished exits, whatever woke it meanwhile.
Bug_MayExit == finished

\* Content appended during the flush has set wake again, and gets its pass.
MayExit == finished /\ ~wake'

\* The tail of one iteration of _write_loop, when the flush is over: release the
\* barrier if nothing is dirty, then exit or space.
EndFlush(segs) ==
    /\ segments' = segs
    /\ flush_requested' = (flush_requested /\ ~BarrierMet(segs))
    /\ flushed' = (flushed \/ BarrierMet(segs))
    /\ writer' = AtRest(IF MayExit THEN "exited" ELSE "spacing")

\* _flush from one index of its copy on: straight to the next call, or to its end.
Proceed(segs, from, upto, blocked) ==
    LET ready == Sendable(segs, from, upto, blocked)
    IN \/ /\ ready = {}
          /\ EndFlush(segs)
       \/ \E i \in ready :
            /\ \A j \in ready : i <= j
            /\ segments' = [segs EXCEPT ![i].dirty = FALSE]
            /\ writer' = Sending(i, upto, blocked, segs[i].rows)
            /\ UNCHANGED <<flush_requested, flushed>>

\* Mutant: the writer does not clear wake before it flushes.
Bug_WriterWakes ==
    /\ writer.pc = "parked"
    /\ wake
    /\ wake' = wake
    /\ Proceed(segments, 1, Len(segments), FALSE)
    /\ UNCHANGED <<locate, sealed, finished, drain, channel, faults>>

WriterWakes ==
    /\ writer.pc = "parked"
    /\ wake
    /\ wake' = FALSE
    /\ Proceed(segments, 1, Len(segments), FALSE)
    /\ UNCHANGED <<locate, sealed, finished, drain, channel, faults>>

\* The throttle interval ends, by its timer or because flush_requested is set.
SpacingEnds ==
    /\ writer.pc = "spacing"
    /\ writer' = AtRest("parked")
    /\ UNCHANGED <<segments, locate, sealed, events, drain, channel, faults>>

\* What Discord shows once the call in flight took effect.
Delivered(seg) ==
    IF Posted(seg)
    THEN [channel EXCEPT ![seg.message_id].rows = writer.body]
    ELSE Append(channel, [seg |-> writer.seg, rows |-> writer.body])

SendSucceeds ==
    LET seg == segments[writer.seg]
    IN /\ writer.pc = "sending"
       /\ channel' = Delivered(seg)
       /\ wake' = wake
       /\ Proceed(IF Posted(seg) THEN segments
                  ELSE [segments EXCEPT ![writer.seg].message_id = Len(channel) + 1],
                  writer.seg + 1, writer.upto, writer.blocked)
       /\ UNCHANGED <<locate, sealed, finished, drain, faults>>

CountFault == IF faults < MaxFaults THEN faults + 1 ELSE faults

\* Mutant: no retry on the final flush.
Bug_RetriesNow(seg) == FALSE

\* A post is retried if finish has been called by now, an edit if finish or a
\* barrier had been when the edit began.
RetriesNow(seg) ==
    ~writer.again /\ IF Posted(seg) THEN writer.retry_once ELSE finished

\* Mutant: a failed post leaves its segment marked clean.
Bug_Requeued == segments

Requeued == [segments EXCEPT ![writer.seg].dirty = TRUE]

SendFails(kind) ==
    LET seg == segments[writer.seg]
    IN /\ writer.pc = "sending"
       /\ kind \in Faults \cap {"failed", "applied"}
       /\ channel' = IF kind = "applied" THEN Delivered(seg) ELSE channel
       /\ kind = "applied" => faults < MaxFaults
       /\ faults' = CountFault
       /\ wake' = wake
       /\ \/ /\ RetriesNow(seg)
             /\ writer' = [writer EXCEPT !.again = TRUE]
             /\ UNCHANGED <<segments, flush_requested, flushed>>
          \/ /\ ~RetriesNow(seg)
             /\ IF Posted(seg)
                THEN Proceed(segments, writer.seg + 1, writer.upto, writer.blocked)
                ELSE Proceed(Requeued, writer.seg + 1, writer.upto, TRUE)
       /\ UNCHANGED <<locate, sealed, finished, drain>>

\* The exception leaves _flush and is logged by _write_loop.
SendRaises ==
    /\ writer.pc = "sending"
    /\ "raised" \in Faults
    /\ faults' = CountFault
    /\ wake' = wake
    /\ EndFlush(segments)
    /\ UNCHANGED <<locate, sealed, finished, drain, channel>>

-----------------------------------------------------------------------------

Init ==
    /\ segments = <<>>
    /\ locate = [k \in Keys |-> NoPlace]
    /\ sealed = FALSE
    /\ wake = FALSE
    /\ flush_requested = FALSE
    /\ flushed = FALSE
    /\ finished = FALSE
    /\ writer = AtRest("parked")
    /\ drain = "draining"
    /\ channel = <<>>
    /\ faults = 0

Step(p, overflow) ==
    \/ \E k \in Keys \cup {NoKey} :
         \/ ToolCall(p, k, overflow)
         \/ \E result \in Results : ToolResult(p, k, result, overflow)
         \/ Consult(p, k, overflow)
    \/ Text(p, overflow)

Drain ==
    \/ \E p \in Personas, overflow \in BOOLEAN : Step(p, overflow)
    \/ \E k \in Keys, result \in Results : ConsultResult(k, result)
    \/ \E overflow \in BOOLEAN : Seal(overflow) \/ Finish(overflow)
    \/ FinishNothing
    \/ FinishReturns
    \/ FlushBegins
    \/ FlushReturns
    \/ FlushTimesOut

SendEnds ==
    \/ SendSucceeds
    \/ \E kind \in FaultKinds : SendFails(kind)
    \/ SendRaises

WriterTask == WriterWakes \/ SpacingEnds \/ SendEnds

\* The turn is over; only stuttering is left.
Over ==
    /\ drain = "done"
    /\ UNCHANGED vars

Next == Drain \/ WriterTask \/ Over

Spec == Init /\ [][Next]_vars

\* The event loop runs a ready writer, Discord calls end (the HTTP client has a
\* timeout), and finish resumes once the writer it awaits has exited.
Fairness == WF_vars(WriterTask) /\ WF_vars(FinishReturns)

FairSpec == Spec /\ Fairness
-----------------------------------------------------------------------------
(* Properties *)

(* The shape of the entry: every message id names a message of the channel,  *)
(* and the row index names rows that exist (_Entry, _Segment).               *)
TypeOK ==
    /\ segments \in Seq(Segment)
    /\ \A i \in DOMAIN segments : segments[i].message_id <= Len(channel)
    /\ locate \in [Keys -> Nat \X Nat]
    /\ \A k \in Keys : locate[k] # NoPlace =>
         /\ locate[k][1] \in DOMAIN segments
         /\ locate[k][2] \in DOMAIN segments[locate[k][1]].rows
    /\ sealed \in BOOLEAN
    /\ wake \in BOOLEAN
    /\ flush_requested \in BOOLEAN
    /\ flushed \in BOOLEAN
    /\ finished \in BOOLEAN
    /\ writer \in Writer
    /\ writer.pc = "sending" => writer.seg \in DOMAIN segments
    /\ drain \in {"draining", "barrier", "finishing", "done"}
    /\ channel \in Seq(Message)
    /\ faults \in 0..MaxFaults

(* Discord orders messages by post time, and nothing is ever deleted: a      *)
(* message of a later segment never stands above one of an earlier segment,  *)
(* through rollovers, failed posts and posts that landed unacknowledged      *)
(* (_flush: "A later segment is never posted before an earlier one lands").  *)
PostOrder ==
    \A m, n \in DOMAIN channel : m <= n => channel[m].seg <= channel[n].seg

(* Content Discord has not shown is never forgotten: an unposted segment is  *)
(* marked dirty or is the one being posted (_flush re-marks a failed post).  *)
UnpostedKept ==
    \A i \in DOMAIN segments :
        ~Posted(segments[i]) =>
            segments[i].dirty \/ (writer.pc = "sending" /\ writer.seg = i)

Resolves(row, new) ==
    /\ IsPending(row)
    /\ ~IsPending(new)
    /\ new = [row EXCEPT !.state = new.state]

(* Rows are values found by id: a row never moves or disappears, a pending   *)
(* row changes once, to its outcome, and a resolved row never changes again  *)
(* whatever order or number of results arrives (_resolve_tool retires keys). *)
RowsOnlyResolve ==
    [][\A i \in DOMAIN segments : \A r \in DOMAIN segments[i].rows :
          LET row == segments[i].rows[r]
              new == segments'[i].rows[r]
          IN new = row \/ Resolves(row, new)]_segments

(* When the writer releases the barrier, and no call has failed, every row   *)
(* appended before it is on Discord: the response posted next cannot appear  *)
(* above work that preceded it (flush, and the release in _write_loop).      *)
BarrierCarries ==
    drain = "barrier" /\ flushed /\ faults = 0 =>
        \A i \in DOMAIN segments :
            /\ Posted(segments[i])
            /\ channel[segments[i].message_id].rows = segments[i].rows

Shows(i, row) ==
    \E m \in DOMAIN channel :
        /\ channel[m].seg = i
        /\ \E r \in DOMAIN channel[m].rows : channel[m].rows[r] = row

(* finish does not return before the seal is visible, even if one Discord    *)
(* call fails, at whatever moment (_post and _edit retry on a final flush).  *)
SealShown ==
    drain = "done" /\ faults <= 1 /\ Len(segments) # 0 =>
        Shows(Len(segments), SealRow)

(* finish loses no segment to a single failure: every segment is a message   *)
(* of the channel when the writer has exited ("pending content is never      *)
(* lost").                                                                   *)
NothingDropped ==
    drain = "done" /\ faults <= 1 =>
        \A i \in DOMAIN segments : Posted(segments[i]) /\ ~segments[i].dirty

(* finish always returns, however many calls fail: the writer neither spins  *)
(* on a dead channel nor stays parked (_write_loop: "It cannot spin").       *)
FinishEnds == (drain = "finishing") ~> (drain = "done")

(* A barrier no call fails under is released by the writer itself and does   *)
(* not rest on the two-second timeout.                                       *)
BarrierReleased ==
    (drain = "barrier" /\ faults = 0) ~> (flushed \/ faults > 0 \/ drain # "barrier")
=============================================================================
