----------------------------- MODULE TraceBudget -----------------------------
(***************************************************************************)
(* The character budget of a step trace's segments: _Segment.fits, the     *)
(* growth each kind of row undergoes when it resolves (render_row of       *)
(* bridge/trace_rows.py), and the fold of the renderer that appends,       *)
(* resolves and interrupts rows (bridge/trace.py).                         *)
(*                                                                         *)
(* A posted segment cannot be split again, and Discord rejects a body over *)
(* the cap, so no sequence of appends and resolves may take one there.     *)
(* A text is its length.  A segment is the length of its joined body and   *)
(* its pending rows, the only ones that can still change.  StepTrace       *)
(* models the same fold with the writer beside it and leaves the rollover  *)
(* open; this module says when it happens.                                 *)
(***************************************************************************)
EXTENDS Integers, Sequences, FiniteSets

CONSTANTS
    Personas,
    Keys,
    Heads,             \* lengths of _tool_head: a name, a subject, a detail
    Clips,             \* lengths of text that _plain has flattened and clipped
    Tails,             \* lengths of a consult's link, preview or gap marker; 0: none
    Proses,            \* lengths of the chunks of an agent's message
    Durations,         \* lengths of a rendered duration
    V2TextLimit,       \* _V2_TEXT_LIMIT
    RowGrowthReserve,  \* _ROW_GROWTH_RESERVE
    DetailMax,         \* _DETAIL_MAX
    MaxRows            \* bound: rows of one trace

ASSUME BudgetAssumption ==
    /\ V2TextLimit \in Nat
    /\ RowGrowthReserve \in Nat
    /\ DetailMax \in Nat
    /\ MaxRows \in Nat
    /\ Heads \subseteq 0 .. (3 * DetailMax + 2)
    /\ Clips \subseteq 0 .. DetailMax
    /\ Tails \subseteq Nat
    /\ Proses \subseteq 0 .. V2TextLimit
    /\ Durations \subseteq 0 .. DetailMax

\* The reserve covers the worst case the comment on it names, a denied row with a
\* full note, and every row fits a fresh segment with its own reserve.
ASSUME ReserveAssumption ==
    /\ RowGrowthReserve >= DetailMax + 10
    /\ DetailMax >= 11
    /\ \A tail \in Tails \cup {0} :
         4 * DetailMax + tail + RowGrowthReserve + 60 <= V2TextLimit

VARIABLES
    segments,  \* _Entry.segments
    locate,    \* _Entry.locate: key -> the id of its row, 0 if absent
    appended,  \* rows so far but for the seal; each has its number for an id
    seal       \* "open", "sealing" within _seal_entry, "sealed"

budgetVars == <<segments, locate, appended, seal>>

-----------------------------------------------------------------------------
(* The length of a rendered row.                                            *)

Suffix(note) == IF note = 0 THEN 0 ELSE 3 + note

\* "-# ~~", the stop glyph, the head, "~~" and the note
Struck(head, note) == 9 + head + Suffix(note)

Elapsed(duration) == IF duration = 0 THEN 0 ELSE 3 + duration

TailSlot(tail) == IF tail = 0 THEN 0 ELSE 3 + tail

RenderTool(row, state, note, duration) ==
    CASE state = "pending"     -> 2 + row.head
      [] state = "ok"          -> 5 + row.head + Elapsed(duration)
      [] state = "failed"      -> 2 + row.head + Suffix(note)
      [] state = "denied"      -> Struck(row.head, note)
      [] state = "interrupted" -> Struck(row.head, 11)

\* A nested consult names its route, caller -> peer; a top-level one has no caller.
RenderConsult(row, state, note) ==
    LET route == IF row.caller = 0 THEN row.head ELSE row.caller + 3 + row.head
    IN TailSlot(row.tail) +
       CASE state = "pending"     -> 2 + (IF row.caller = 0 THEN 11 ELSE 0) + route
         [] state = "ok"          -> 5 + (IF row.caller = 0 THEN 10 ELSE 12) + route
         [] state = "failed"      -> 16 + row.head
         [] state = "denied"      -> Struck(row.head, note)
         [] state = "interrupted" -> Struck(row.head, 13)

RenderRow(row, state, note, duration) ==
    IF row.kind = "tool" THEN RenderTool(row, state, note, duration)
    ELSE RenderConsult(row, state, note)

RenderHandoff(target, reason) == 16 + target + Suffix(reason)

\* The tools of a turn and its duration, or a sentence around the duration.
RenderSeal(outcome, tools, duration) ==
    LET body == Elapsed(tools) + duration
    IN CASE outcome = "ok"          -> 3 + body
         [] outcome = "faulted"     -> 36 + body
         [] outcome = "interrupted" -> 23 + body

-----------------------------------------------------------------------------
(* Segments.                                                                *)

RowStates == {"ok", "failed", "denied", "interrupted"}

ToolRow == [id : 1 .. MaxRows, kind : {"tool"}, head : Heads, caller : {0}, tail : {0}]
ConsultRow == [id : 1 .. MaxRows, kind : {"consult"}, head : Clips, caller : Clips, tail : Tails]
PendingRow == ToolRow \cup ConsultRow

Segment == [persona : Personas, length : Nat, pending : SUBSET PendingRow]

\* A newline joins a row to those before it.
Joined(seg, length) == seg.length + 1 + length

\* Mutant: only the row to be added books the reserve.
Bug_Fits(seg, length, own) ==
    Joined(seg, length) + RowGrowthReserve * Cardinality(own) <= V2TextLimit

Fits(seg, length, own) ==
    Joined(seg, length) + RowGrowthReserve * (Cardinality(seg.pending) + Cardinality(own))
        <= V2TextLimit

Extends(p, length, own) ==
    /\ segments # << >>
    /\ segments[Len(segments)].persona = p
    /\ Fits(segments[Len(segments)], length, own)

\* _append: own is the row itself if it is pending, nothing if it is born final.
Appends(p, length, own) ==
    IF Extends(p, length, own)
    THEN segments' = [segments EXCEPT ![Len(segments)] =
                        [persona |-> p, length |-> Joined(@, length),
                         pending |-> @.pending \cup own]]
    ELSE segments' = Append(segments, [persona |-> p, length |-> length, pending |-> own])

Growth(row, state, note, duration) ==
    RenderRow(row, state, note, duration) - RenderRow(row, "pending", 0, 0)

\* A pending row is replaced by a resolved one and its segment rendered anew.
Replaces(i, row, state, note, duration) ==
    segments' = [segments EXCEPT ![i] =
        [persona |-> @.persona,
         length  |-> @.length + Growth(row, state, note, duration),
         pending |-> @.pending \ {row}]]

-----------------------------------------------------------------------------
(* The fold: one action per step of the run.                                *)

Folding == seal = "open"

\* A row that is still to resolve, and one that is born final.
Opens(p, row) ==
    /\ appended < MaxRows
    /\ appended' = appended + 1
    /\ Appends(p, RenderRow(row, "pending", 0, 0), {row})

Closes(p, length) ==
    /\ appended < MaxRows
    /\ appended' = appended + 1
    /\ Appends(p, length, {})

Tool(head) ==
    [id |-> appended + 1, kind |-> "tool", head |-> head, caller |-> 0, tail |-> 0]

Consulting(caller, peer, tail) ==
    [id |-> appended + 1, kind |-> "consult", head |-> peer, caller |-> caller, tail |-> tail]

\* A tool_call with an id; a second one with the same id takes the key over.
ToolCall(p, k, head) ==
    /\ Folding
    /\ Opens(p, Tool(head))
    /\ locate' = [locate EXCEPT ![k] = appended + 1]
    /\ UNCHANGED seal

\* A tool_call without one: its row cannot resolve before the seal.
UnkeyedCall(p, head) ==
    /\ Folding
    /\ Opens(p, Tool(head))
    /\ UNCHANGED <<locate, seal>>

Consult(p, k, caller, peer, tail) ==
    /\ Folding
    /\ Opens(p, Consulting(caller, peer, tail))
    /\ locate' = [locate EXCEPT ![k] = appended + 1]
    /\ UNCHANGED seal

Handoff(p, target, reason) ==
    /\ Folding
    /\ Closes(p, RenderHandoff(target, reason))
    /\ UNCHANGED <<locate, seal>>

\* One chunk of an agent_message.
Prose(p, length) ==
    /\ Folding
    /\ Closes(p, length)
    /\ UNCHANGED <<locate, seal>>

Resolves(k, kind, state, note, duration) ==
    \E i \in DOMAIN segments : \E row \in segments[i].pending :
        /\ row.id = locate[k]
        /\ row.kind = kind
        /\ Replaces(i, row, state, note, duration)
        /\ locate' = [locate EXCEPT ![k] = 0]

ToolResult(k, state, note, duration) ==
    /\ Folding
    /\ Resolves(k, "tool", state, note, duration)
    /\ UNCHANGED <<appended, seal>>

ConsultResult(k, state, note) ==
    /\ Folding
    /\ Resolves(k, "consult", state, note, 0)
    /\ UNCHANGED <<appended, seal>>

\* A result without an id, whose call was never seen, or that came twice, is a
\* row of its own.
OrphanResult(p, head, state, note) ==
    /\ Folding
    /\ Closes(p, RenderTool(Tool(head), state, note, 0))
    /\ UNCHANGED <<locate, seal>>

\* _seal_entry rewrites the pending rows one after the other, with no await.
SealBegins ==
    /\ Folding
    /\ segments # << >>
    /\ seal' = "sealing"
    /\ UNCHANGED <<segments, locate, appended>>

Interrupts(i, row) ==
    /\ seal = "sealing"
    /\ Replaces(i, row, "interrupted", 0, 0)
    /\ UNCHANGED <<locate, appended, seal>>

SealEnds(outcome, tools, duration) ==
    /\ seal = "sealing"
    /\ \A i \in DOMAIN segments : segments[i].pending = {}
    /\ Appends(segments[Len(segments)].persona, RenderSeal(outcome, tools, duration), {})
    /\ locate' = [k \in Keys |-> 0]
    /\ seal' = "sealed"
    /\ UNCHANGED appended

-----------------------------------------------------------------------------
BudgetInit ==
    /\ segments = << >>
    /\ locate = [k \in Keys |-> 0]
    /\ appended = 0
    /\ seal = "open"

Step(p) ==
    \/ \E k \in Keys, head \in Heads : ToolCall(p, k, head)
    \/ \E head \in Heads : UnkeyedCall(p, head)
    \/ \E k \in Keys, caller \in Clips, peer \in Clips, tail \in Tails :
          Consult(p, k, caller, peer, tail)
    \/ \E target \in Clips, reason \in Clips : Handoff(p, target, reason)
    \/ \E length \in Proses : Prose(p, length)
    \/ \E head \in Heads, state \in {"ok", "failed", "denied"}, note \in Clips :
          OrphanResult(p, head, state, note)

Result(k) ==
    \E state \in {"ok", "failed", "denied"}, note \in Clips :
        \/ \E duration \in Durations : ToolResult(k, state, note, duration)
        \/ ConsultResult(k, state, note)

Sealing ==
    \/ SealBegins
    \/ \E i \in DOMAIN segments : \E row \in segments[i].pending : Interrupts(i, row)
    \/ \E outcome \in {"ok", "faulted", "interrupted"}, tools \in Clips, duration \in Durations :
          SealEnds(outcome, tools, duration)

BudgetNext ==
    \/ \E p \in Personas : Step(p)
    \/ \E k \in Keys : Result(k)
    \/ Sealing

BudgetSpec == BudgetInit /\ [][BudgetNext]_budgetVars

-----------------------------------------------------------------------------
(* Properties.                                                              *)

\* The shape of the fold: lengths are never negative, ids are rows appended.
BudgetTypeOK ==
    /\ segments \in Seq(Segment)
    /\ locate \in [Keys -> 0 .. appended]
    /\ appended \in 0 .. MaxRows
    /\ seal \in {"open", "sealing", "sealed"}

\* No body ever exceeds Discord's cap, in whatever order rows are appended, rolled
\* over, resolved in older segments and interrupted by the seal: the truncation in
\* _Segment.body is never reached (fits, _ROW_GROWTH_RESERVE).
Postable == \A i \in DOMAIN segments : segments[i].length <= V2TextLimit

=============================================================================
