# Verification of agent-disco

agent-disco (package `calfcord`) connects Discord to a mesh of AI agents. A
*bridge* process turns Discord messages into runs on the mesh and renders what
the runs stream back; a *supervisor* (the `disco` command) runs the bridge and
its broker under Process Compose, and a *roster* of agents, tools and MCP
servers as detached processes that pidfiles track.

This directory holds TLA+ specifications of the parts whose correctness depends
on the order of events, their TLC runs, and TLAPS proofs. Paths below are
relative to `src/src/calfcord/`. `PROJECT.json` maps every definition to the
lines it models and lists the hazards at the lines where they bite.

    tlc -workers 2 -config RosterSlots.cfg MCRosterSlots.tla
    tlapm RosterSlotsProofs.tla

## 1. Inventory

| Component | Source | State it keeps | Operations |
|---|---|---|---|
| Step trace renderer | `bridge/trace.py` | per correlation an `_Entry`: segments, row index, four `asyncio.Event`s, a writer task | `on_step`, `on_consult`, `on_consult_result`, `seal`, `flush`, `finish`; the writer's loop |
| Trace rows | `bridge/trace_rows.py` | none (immutable rows) | `render_row`, clipping, sanitising |
| Mention handler | `bridge/mention_handler.py` | one turn's locals: the acting agent, the terminal | `handle`, `_drain_and_deliver`, `_deliver` |
| A2A projection | `bridge/a2a_project.py`, `a2a_dispatch.py` | per turn: the open branches, their cards, the audit thread | `project_step`, `project_consult(_result)`, `seal`, `finish` |
| Egress | `bridge/egress.py` | caches of channels, categories, webhooks | find or create the audit channel, anchored threads |
| Gateway | `bridge/gateway.py`, `slash.py`, `normalizer.py` | accepting flag, callbacks and handlers in flight, seen message ids, the first error | `_on_message`, `_route_message`, `drain_ingress`, `drain_inflight`, `_run_bridge_runtime`, `main` |
| History | `bridge/history.py`, `transcript_tree.py` | in-flight fetches by channel | `fetch`, `build_message_history`, budget trim |
| Transcripts, overrides | `bridge/transcripts.py`, `overrides.py` | SQLite: turns, sticky owners, overrides and their map | `write_turn`, sticky get/set/clear, prune |
| Reply poster | `bridge/reply_poster.py`, `discord/chunking.py`, `persona.py` | none; webhooks cache | `post_reply`, chunking, one retry |
| Credentials | `providers/grok/*`, `providers/codex/*` | a token file per provider and a file lock | resolve, refresh, quarantine, login, logout |
| Worker runtime, health | `_worker_runtime.py`, `health/*` | a beat file per process | run until signal, refresh beats, readiness probe |
| Process supervision | `supervisor/procspawn.py` | `state/run/<slot>.pid` | `spawn_detached`, `terminate`, `identity`, `cleanup_stale` |
| Locks and slots | `supervisor/_workspace.py`, `_slot_ops.py` | two kinds of `flock`ed file | `slot_mutation`, `launch_slot`, `start/stop/restart_slot` |
| Rosters | `supervisor/roster.py`, `mcp_roster.py`, `component.py` | none of their own | one slot or every live slot |
| Lifecycle | `supervisor/lifecycle.py`, `compose.py`, `client.py` | Process Compose and its REST socket | `start`, `stop`, `restart_bridge`, `status` |
| Agent definitions | `agents/`, `cli/agent_*.py`, `cli/_agents.py` | `agents/<name>.md` | create, edit, rename, delete, prune the starter |
| Agent process, prompts | `agents/runner.py`, `providers/codex/` | a cached body and its etag, a lock per artifact | boot, conditional fetch, save, clear, exit |
| Tools, MCP | `tools/`, `mcp/` | a definition read at boot | parsing, construction, running one worker |
| Broker | `broker/runner.py` | none | replaces itself by the broker binary |
| CLI and text UI | `cli/` | files written atomically | the wizards of `init` and `agent create`; prompts, rendering |

**How they interact.** A Discord message reaches the gateway, which spawns a
handler. The handler joins the thread's history, starts a run on the mesh and
drains its event stream. Every step goes to the trace of the human's surface or,
while a consulted agent works, to the A2A projection, which owns a second
renderer on the audit surface. The terminal seals the traces, the reply poster
sends the reply and writes a transcript. All of this is one event loop: two
turns interleave at awaits only. The supervisor side is the opposite: every
`disco` command is a process of its own and they meet in pidfiles, `flock`s and
the kernel's process table.

**What is hard.** Discord calls that fail, or take effect and report a failure;
rows that resolve out of order into messages that can no longer be split; a
writer that must neither lose a wake nor spin on a dead channel; a barrier with
a timeout; branches that outlive their run; teardown in order while signals and
failures arrive; a duplicate delivery after a reconnect; commands that race for
one slot, are killed between two system calls, or act on a recycled pid; a
rotating OAuth grant shared by processes. `PROJECT.json` lists each with the
properties that cover it, or the reason why none does.

**What makes each part correct.**

- *Step trace:* messages stay in order; nothing appended is lost to one failed
  call; a row resolves once and in place; the barrier carries what precedes it;
  `finish` ends.
- *Trace rows:* a body never outgrows Discord's cap, since a posted segment
  cannot be split.
- *Turn and A2A:* only the agent in control of the turn is heard on the human's
  surface; every consult shows on its own surface and ends in what the run
  answered; no turn is left without an answer.
- *Gateway:* a message is handled at most once, none before the worker serves or
  after ingress has closed; teardown waits for those in flight, always ends, and
  the exit status names what ended the run.
- *Delivery:* a reply's row is joined to its first message; a channel has one
  webhook; the sticky owner is who spoke last; an override in memory is the one in
  the store; no split loses a line or makes a message Discord refuses.
- *History:* what an agent is told begins with a user, keeps calls and results
  paired, fits the budget, and holds nothing that was cleared.
- *Credentials:* no refresh token is sent twice, no live session is thrown away,
  and the lock always comes free.
- *Roster:* a process that runs is tracked; no slot runs twice; only a slot's own
  process is signalled; a stop's outcome is true; `disco stop` leaves nothing.
- *Lifecycle:* one supervisor per install; "open" is said of the process just
  started; "closed" leaves no agent behind, whatever wizards start meanwhile.
- *Agent definitions:* no command loses an agent, or an edit made while it waited.
- *Agent process:* an answer of upstream is never mistaken for another version; exit
  status zero means that it was told to stop.

## 2. Modules

| Module | Extends | What it is |
|---|---|---|
| `StepTrace` | | the renderer of one correlation: drain, writer, barrier, Discord |
| `MCStepTrace` | `StepTrace` | its instances |
| `StepTraceProofs` | `StepTrace` | seven theorems |
| `TraceBudget` | | the character budget that decides when `StepTrace` rolls over |
| `MCTraceBudget` | `TraceBudget` | its instance, with the code's own numbers |
| `Turn` | | one human turn: the handler, the A2A dispatcher and projector |
| `MCTurn` | `Turn` | its instances |
| `TurnProofs` | `Turn` | eight theorems |
| `RosterSlots` | | commands, processes, pidfiles, locks, kernel |
| `MCRosterSlots` | `RosterSlots` | its instances |
| `RosterSlotsProofs` | `RosterSlots` | eight theorems: shape, mutual exclusion, what the roster promises |
| `Ingress` | | abstract: what the bridge promises of the messages delivered to it |
| `Bridge` | | the bridge process from login to exit; implements `Ingress` |
| `BridgeProofs` | `Bridge` | five theorems, the refinement among them |
| `Chunking` | | how a text becomes messages: operators |
| `Delivery` | `Chunking` | replies, webhook, transcript rows, sticky owner, overrides |
| `History` | | what an agent is told of its thread |
| `PostingProofs` | `Delivery`, `TraceBudget`, `History` | folds and induction; twelve theorems: seven on deliveries and splits, two on the budget, three on histories |
| `Credentials` | | the cached Grok session and its callers |
| `CredentialsProofs` | `Credentials` | four theorems |
| `Lifecycle` | | `disco start`, `stop`, `bridge restart`, the supervisor, the heartbeat |
| `Onboarding` | `Lifecycle` | the composition with the wizards and the roster's processes |
| `LifecycleProofs` | `Onboarding` | six theorems |
| `Agents` | | the definition files and the commands that change them |
| `AgentProcess` | | an agent process from boot to exit, and the prompt cache |
| `AgentProofs` | `Agents`, `AgentProcess` | six theorems: three on definitions, three on processes |
| `MCBridge`, `MCDelivery`, `MCHistory`, `MCCredentials`, `MCAgents`, `MCAgentProcess` | each its module | instances |
| `MCLifecycle` | `Onboarding` | the instance of the composition |

The definitions of `TraceBudget`, `AgentProcess` and `History` that other modules have too bear
names of their own (`BudgetSpec`, `ProcessSpec`, `HistorySpec`), so that one module of proofs can
extend several of them.

Operators named `Bug_...` are not part of the model. They are plausible
mistakes, one for every property: putting one in place of the definition it
follows makes TLC find the property violated.

### StepTrace

One `_Entry` with the three parties that touch it. The *drain* appends rows,
resolves them, seals and finishes; it never calls Discord. The *writer* is
`_write_loop` with `_flush` inlined: parked on `wake`, sending, spacing (the
throttle), exited. *Discord* is `channel`, the messages in post order. Every
stretch between two awaits is one action, so a flush is a chain of them:
`Proceed` runs from one index of the copied segment list to the next call, and
`SendSucceeds`, `SendFails` or `SendRaises` resume it. `dirty` is cleared before
the send and the snapshot in flight is kept in `writer.body`, so an append
during the send is a real race in the model.

A row is its kind, key and state. Whether a row overflows the current segment is
a free choice (`overflow`): every rollover the code can take is a behaviour. The
same module is both surfaces. On the human's surface no await separates the
terminal's seal from `finish`; on the audit surface the reply is delivered in
between (`AwaitsAfterSeal`) and a response waits behind `flush` (`HasBarrier`).

A call fails in three ways: `failed` (no effect, an exception
`_best_effort_trace` swallows), `applied` (it took effect, the answer was lost)
and `raised` (an exception that function does not list, so that it leaves
`_flush`).

### TraceBudget

The same fold without the writer and with lengths in place of texts. A segment
is the length of its joined body and its pending rows. `RenderTool`,
`RenderConsult`, `RenderHandoff` and `RenderSeal` give the length of each kind
of row in each state, glyphs and markup included; `Fits` is `_Segment.fits`, with
the reserve of every pending row. What is clipped is a length up to `DetailMax`;
splitting prose into chunks is external, a chunk being at most the cap long.

### Turn

The run is a tree of *frames*, external to the code: the top frame holds the
human's turn, a consult the mesh accepts opens a frame, a handoff changes a
frame's agent (`agent`, `consult`). The handler sees none of this. It reads one
stream of steps that name their agent, and keeps `acting` (`acting_agent`) to tell
the owner's steps from those of consulted agents. Which frame an agent may hand
over to whom is the mesh's business; `Reentrant` says whether the owner of the
turn can be put to work in the frame of a consult as well.

A place of `pc` is an await of `MentionHandler` or `A2AProjector`, and an action is what lies
between two. `Step`, `Handoff`, `OwnerConsult`, `NestedConsult`, `OwnerResult` and `NestedResult`
are one event of the drain up to its first call; `CardSent` to `ChunkFails` are the calls of a
projection, which `job` holds; `HumanClosed` to `AuditClosed` are the delivery and the projector's
`finish`. `_guarded` turns every failed call into `RenderEnds(FALSE)`. `CardLost`, `EditLost` and
`ChunkLost` leave open whether Discord did what a failed call asked, or one that was cut off;
`missed` and `unheard` remember the calls, for the properties. `Raised` is an exception out of the
stream, `result()`, the poster or the sticky store; `Cancelled` is `drain_inflight`, once, at any
await. Both leave through the `finally` clauses, as `unwinding` records.

The two traces are reduced to the rows of consults: `human` and `audit` map each
consult to its row, `linked` says which rows carry a link, `sealed` how each trace
stands. `branch` is `_Turn.branches`, what the bridge believes; `card` is what
Discord shows, and what `HonestOutcomes` is about. The code edits a card to "Consulted"
before it posts the answer: when the post fails, and so does the edit of `finish`, the card
stays as it is (`missed`).

### RosterSlots

`proc` is the process table: per pid the slot a process was started for, its
start time (a token), its parent, whether it runs or is a zombie, and the slots
on whose behalf it was signalled. `pidfile` is `state/run`. A command `cmd[c]`
is at one of the places between two system calls another process can tell apart:
the locks (`gated`), `check`, `terminate` to `cleanup`, `spawn` to `confirm`.
`flock` is released with its holder, so who holds a lock is read off the
commands (`InSlot`, `InLifecycle`). `open` stands for the substrate, as a probe
of its socket sees it.

The kernel reuses pids (`StrangerStarts`), keeps zombies until their parent
reaps or exits (`Reaped`, `Orphaned`), and processes die when they like
(`Dies`). An identity that cannot be read is a fault (`Reads`), and a command
can be killed anywhere (`Killed`). A process whose spawner was killed between
the fork and the pidfile cannot be tracked by any design; its token is put in
`leaked` and the properties leave it out. `FastRecycle` says whether a pid may
pass to another program between the identity read and the signal, two adjacent
system calls: the code has no defence there, so the runs and the theorem about
signals set it to false.

### Bridge and Ingress

One event loop: `run` is the place of `main` and `_run_bridge_runtime` between two
awaits, `callback[d]` and `handler[d]` are the two tasks a delivery of a message can
have. `OnMessage` is the callback up to its first await: it registers, drops a
duplicate and routes. From there `callback[d]` says what it waits for (the sticky
owner, a new thread, the owner of the parent, a notice). `Boot...`, `Starting...` and
`Serving...` are the three `asyncio.wait` calls, each with the precedence of its
branches; `SettleStart` to `CloseGateway` are the `finally` clause in its order. A
signal before the handlers are installed, or after they are removed, ends the process
(`Killed`). `ended`, `faults` and `recent` are history variables.

`Delivered` is external: after a reconnect Discord may replay a message, as long as
fewer than `ReplayWindow` others came since. The assumption that the window is no
larger than the cache is what makes the bounded cache enough.

`Ingress` knows a gate, arrivals and a mesh connection. The mapping takes a handler
in flight for a running turn and a waiting callback for an admitted one; the mesh is
down once the worker is stopped or the store closed. That the drain of callbacks comes
before the drain of turns, and both before `worker.stop`, is what the refinement says.

### Delivery and Chunking

Clients of one thread and one SQLite connection: turns that post a reply, `!unstick`
messages, `/thinking-effort` commands. `LockTaken`, `Listed`, `Created` are the webhook's
discovery; `Begin`, `Posted`, `CallFails`, `Retry` the chunks of a reply. All clients
share one transaction: a statement changes `draft`, and a commit makes all of `draft`
durable, whoever changed it; `queue` is the order in which commits reach the connection.
A failed commit leaves the transaction open or rolls it back with what others did in it.
A failed post may have taken effect (`told` is false for a message the bridge does not
know of). `Crash` restarts the bridge: the cache and the turns are gone, the overrides
are loaded again.

`mixed`, `brokeOff` and `unstored` record the histories in which the code makes no
promise: two deliveries of a conversation that overlapped, one that broke off, a commit
that failed. `StickyFollows` and `OverrideAgrees` except these, and only these.

`Chunking` is `chunk_split`: a line is its length and, for a run of backticks, the
lengths of the run and the info string. Where a long line of prose is cut depends on
its words, so `Cuts` gives every place the code could choose and `ChunkSplits` every
result. A loop of the code over lines, units or chunks is a fold (`TakeLine`, `TakeUnit`,
`Strip`), and `Cuts`, which calls itself for what is left of the line, a recursive function.

### History

The thread is a sequence of message kinds, ids are places in it. The starter lies in the
parent channel and has id 0, or it is the first message of a forum thread (`"inside"`), or there
is none. `StarterCalls` is the first turn of a `/task`, whose trigger is the starter itself;
`WithStarter` has both guards of the code, which leave the starter out then, and when it is
on the page. A forum's starter is had of discord.py's cache only, so it may be missing.
`Calls` to `Tells` are the awaits of one `message_history`: the page, the starter, the
rows. `Cut`, `Projected`, `AddRecord`, `LegalHead` and `Trim` are the code's steps in its order;
what a message costs is `Cost`, by part. The cache and the single-flight join are left
out: a fetch's key holds the id of the calling message, and a message calls once, since
the gateway drops duplicates, so no two fetches of the bridge share a key.

### Credentials

`pc[c]` runs through `resolve_credentials` and `_refresh`: the first read, the wait for
the lock, the second read, the exchange, the write or the quarantine. Login, forced login
and logout write the file without the lock, as the code does. A grant is a login and the
number of its rotation. The endpoint rotates a live token, keeps it, refuses a dead one, or
denies; it answers without an access token, whether it took the refresh token or not; and an
answer can be lost after it took effect.
`excused` records the tokens whose end a fault kept out of the file: no client can know
better than to send those again.

### Lifecycle and Onboarding

A command takes the exclusive lock and goes through the awaits of `start`,
`restart_bridge` or `stop`. Beside the commands, our supervisor boots and answers later
than `up -D` returns, dies, restarts the bridge and judges it by the age of the beat;
another install may hold the same port. `beat` says who wrote the file and whether it is
fresh: `Healthcheck` sees the second only. A probe of a supervisor that is up succeeds or
fails, and every failure is "down" (`Verdicts`). Five variables are history, for the
properties: a bridge born beside a fresh beat (`inherited`), a supervisor left booting by a
command that ended (`abandoned`), a failed probe of our supervisor in the last command
(`unheard`), the bridge process that a restart request reached (`asked`), and a Ready whose
status names no pid, which the code takes for the new process (`unnamed`).

`Onboarding` conjoins a step of `Lifecycle` with what it does to the roster (`Roster`:
`stop` sweeps before anything else) and adds the end of `disco init` and of
`disco agent create`: `CreateAsks` probes the workspace before the operator is asked,
`CreateGoesOn` goes by that answer however late; `HostForks` and `AgentForks` need the
shared lifecycle lock (`MutationFree`) and end at the fork, `HostSpawn` and `AgentSpawn` write the
pidfile. A wizard killed in between (`Quits`) leaves a process that no sweep can see (`leaked`).
Its behaviours are behaviours of `Lifecycle`
(`OnboardImplementsLifecycle`).

### Agents

A definition is whose it is, the name it declares and three parts (`text` for the
fields, `grants`, `body`), each its first value or another. Nothing locks a file: a
session opens it (`Opens`), and when the operator is done `Load` reads it again and
a write replaces it whole. `WriteRenamed`, `UnlinkRenamed` and `RollBack` are the three file
operations of a rename. Every write may fail and every process may be killed (`Aborts`).
`raced` records that a write hit what its session had not seen: between the last read
and the write the code has no defence.

### AgentProcess

Two processes boot from one cache: `LoadBody`, `LoadMeta`, the conditional request with
its 200, 304 and failures, the locked save in two writes, the parse, the construction of
the node, and `run_worker_until_signal`. A version is a model value and its own etag.
`Valid`, `Usable` and `Selects` are the three checks a body meets at three places. `clear`
removes the files it has listed without the lock. `torn` records a pair that was read, or
left, half old and half new.

## 3. Runs

| Run | Question | Holds | Distinct states |
|---|---|---|---|
| `StepTraceHuman` | two personas, rollover, two calls that fail or land unacknowledged | `PostOrder`, `UnpostedKept`, `SealShown`, `NothingDropped` | 1,777,508 |
| `StepTraceAudit` | the audit surface with its barrier, a call that fails or raises, fairness | `BarrierCarries`, `RowsOnlyResolve`, `FinishEnds`, `BarrierReleased` | 157,438 |
| `TraceBudget` | the code's cap, reserve and clip | `Postable` | 212,495 |
| `Turn` | three agents, two consults, failures, an exception or a cancellation at any await | `KnowsOwner`, `HonestOutcomes`, `NothingPending`, `EveryTurnAnswered`, `AnswerBelowRow` | 1,358,495 |
| `RosterSlots` | two commands, two slots, pid reuse, misreads, kills | `Tracked`, `NoDoubleRun`, `OnlyOwnSignalled`, `OutcomeHonest`, `SweptClean` | 737,767 |
| `Bridge` | three messages, one delivered three times, signals and failures at every await | `HandledOnce`, `ExitHonest`, `ImplementsIngress`, `StopExits` | 187,312 |
| `Delivery` | two turns, an `!unstick`, two commands, a fault and a crash; every text of up to three lines | `RowJoinsFirst`, `OneWebhook`, `StickyFollows`, `OverrideAgrees`, `SplitsCarryTexts` | 2,249,758 |
| `History` | five messages, a page of three, every kind of starter, a budget that cuts anywhere | `HistoryLegal`, `ClearedGone` | 1,613,245 |
| `Credentials` | two callers, two logins, a rotation, faults everywhere | `NoReplay`, `SessionKept`, `LockComesFree` | 323,784 |
| `Lifecycle` | two terminals, one with wizards, failed probes, a second install, two bridge processes | `OneSupervisor`, `GreenLight`, `OrgClosed` | 2,055,056 |
| `Agents` | two sessions, three names, four commands | `AgentKept`, `EditKept` | 704,283 |
| `AgentProcess` | two processes, four versions | `AnswerCurrent`, `CleanExit` | 1,313,236 |

Runs with a symmetry set count states up to symmetry. The type invariants are part of
the invariants the proofs are about, or document the variables; they are no properties
of the runs.

**Bounds.** *StepTrace:* `Capacity` bounds the segments and the rows of each; two segments are
what a rollover, a blocked post and a row resolved in an older segment need, and one key can be
taken over, resolved, orphaned and reused. `MaxFaults` counts failures only as far as properties
tell them apart: calls go on failing beyond it. Two failures are enough for a failed first try and
a failed retry. *TraceBudget:* three rows, with prose sized so that none, one or two pending rows
still fit; texts at the two ends of their ranges, since lengths enter linearly. *Turn:* two
consults are nested or side by side, the second with or without the thread of the first; three
agents are an owner, its peer and the peer's peer, or an owner and the agent it hands over to
while a peer works; responses of two messages are posted in part. *RosterSlots:* two commands is
what every race of the code is between; two slots tell a sweep from a single verb; two pids and
two starts are a process and its replacement, or a process and the stranger that takes its pid;
one fault is one misread or one kill. *Bridge:* a cache of two and three messages evict; the
message delivered three times is a duplicate that must refresh its place and is then replayed at
the edge of the window. *Delivery:* two turns overlap, one with tools; one fault is a failed call,
statement or commit, whichever comes; a limit of ten with lines of up to twelve cuts prose and
code, and fences that leave no room. *History:* five messages and a page of three let a marker
fall off the page, and the starter lie above it, on it or be the trigger; a budget of nine cuts
through every kind of part. One turn suffices: turns only read. *Credentials:* two callers are the
race, two logins tell a session from its successor, one rotation makes a spent token. *Lifecycle:*
two commands of which one waits while the other acts; two bridge processes are the one before and
after a restart, or the one whose pid was read and the one that the request reached; one wizard,
since two exclude each other by the slots' locks (the theorems are for any number of all three).
*Agents:* the third name is the target of a rename while the starter stays; four commands are two
that race and two that prepare or disturb. *AgentProcess:* two versions that serve make an etag
old, current and current again; the third has no usable entry, the fourth is no catalog. The
proofs lift the bounds of the modules they are about.

**Deadlock** is checked in every run but `TraceBudget`, `RosterSlots`, `Agents` and
`History`, which stop when their bounds are used up. The step trace, the turn, the
deliveries and the bridge end in explicit last states (`Over`, `Done`, `Exited`).

**Fairness.** `StepTraceAudit`: weak fairness of the writer task and of `finish`
resuming. The event loop runs every ready task, and Discord calls end because the HTTP
client has a timeout; a call may end in any of the failures above. Nothing is assumed of
the drain, and none of the barrier's timeout, since `BarrierReleased` is about not
needing it. `Bridge`: weak fairness of the runtime and of a cancelled turn's unwinding
(`StopExits`); none of Discord, the worker's start, callbacks or turns that were not
cancelled. It assumes that `worker.stop` and the closing of the gateway return, which
calfkit and discord.py bound. `Credentials`: weak fairness of a caller inside the lock: its
one request has a twenty-second timeout and the rest are disk accesses. The other runs
state safety only and need none.

## 4. Remarks

What the models show the code to do that a reader of its docs may not expect. Each is
excepted by name in the property it touches, and no property hides more than that.

*Step trace.* A failed edit outside the final flush is dropped because "the next append
heals it" (`bridge/trace.py:864`); a segment that has rolled over gets no next append, so its
row stays in flight, which ADR-0025 rules out. On the audit surface the writer can flush
the seal before `finish` is called, when an edit has no retry (`trace.py:854`): `SealShown`
is checked on the human's surface. An exception outside the list of `_best_effort_trace`
(`trace.py:740`) leaves a segment neither dirty nor posted: `PostOrder` and its theorem leave
`raised` out of `Faults`.

*Turn.* The drain knows the owner by name (`bridge/mention_handler.py:493`): were a consulted
agent to hand its frame to the owner, a handoff made there would move `acting_agent`. It
takes a mesh that lets a handoff target a busy agent; `Reentrant` is that mesh, and the
run and the theorems take it to be false. A card says "Consulted" before the answer is posted
(`bridge/a2a_project.py:405`); when neither the answer nor the next edit arrives it goes on
saying so (`missed`). A cancellation while `finish` settles its cards
(`bridge/a2a_project.py:385`) skips the eviction that its docstring calls unconditional;
`NothingPending` is about turns that were evicted.

*Roster.* The workspace is checked before the lock is taken and not after
(`supervisor/roster.py:294`), so a start that stalls spawns behind a whole `disco stop`. A zombie
whose parent is another `disco` command answers signal 0 and is reported as still running
(`supervisor/_slot_ops.py:190`). `INDETERMINATE`, documented as "NOT signalled", is also
returned after SIGTERM was sent (`supervisor/procspawn.py:625`). A pid that passes to another
program between two adjacent system calls is signalled; `FastRecycle` is false in the run.

*Bridge.* The closing of the contexts around the runtime (`bridge/gateway.py:844`) is taken not to
raise, so `ExitHonest` is about everything inside them.

*Delivery.* `!unstick` does not wait for a delivery in flight (`bridge/gateway.py:466`), which then
sets the owner again although `docs/using-disco.md:167` reads as if the thread were free;
`mixed` is that overlap.

*History.* `/clear` hides the starter only as long as its marker is on the page
(`bridge/history.py:534`): when it has fallen off, the starter is put before the page and told
again, although the comment above it says "clear means clear". `ClearedGone` speaks of the starter while the
marker is on the page, and of every other message always.

*Credentials.* Login and logout do not take the lock, so a refresh that began before a
login can end over it (`Crosses`), and a logout can be undone by a save. Any answer with
status 200 and no `access_token` requires a new login (`providers/grok/oauth.py:410`), and the session
is stripped although its token may be live (`Headless`); the docstring of `quarantine_credentials`
calls it dead (`token_store.py:162`). That 400 and 401 are
said of dead tokens only is an assumption on xAI. `acquire` runs in a thread that a cancellation
does not stop: that it takes the lock after its caller has gone is not modelled.

*Lifecycle.* A bridge born beside a fresh beat of its predecessor is ready at once (`inherited`).
A start whose REST server never answers leaves its supervisor booting, and the next start launches
a second (`abandoned`). `workspace_is_up` takes a timeout and an HTTP error for "down": a start
then launches a second supervisor beside a live one, and a stop calls closed what is up
(`unheard`), although the docstring calls any other error "a real bug" that is "not swallowed into
"down"" (`supervisor/_workspace.py:68`). `down` is run without looking at its exit status
(`supervisor/lifecycle.py:542`): stop probes after it, a start that failed does not, and says that
it "tore down the workspace". When the pid before a restart cannot be read, or is no longer that
of the process the request reaches (`before # asked`), or the status names no pid (`unnamed`), the
Ready of the old process passes for the new one's. `process-compose down` goes to the port: on a
port shared by two installs, `stop` takes down whichever answers.

*Onboarding.* `agent create` asks "Start now?" after it has probed the workspace
(`cli/agent_create.py:552`); by the time of the answer another terminal may have opened it, and
`start` then restarts a live bridge. An agent whose process has died but which the mesh
still lists is taken for one on another host: `agent_start` succeeds without starting
anything and the wizard says "online". A wizard killed between a fork and its pidfile
leaves a process that `stop` neither sees nor reports (`leaked`).

*Agents.* Two renames to one target both pass the check (`cli/agent_lifecycle.py:181`) and one
agent is lost; `create` overwrites an agent another session made after its question. Both
are `raced`. The first run's pruning knows the starter by its name and description
(`cli/_agents.py:311`): one whose prompt or grants were edited is deleted, and so is one that was
made with the description that the wizard offers, although `write_agent` says that a customized
starter "is never deleted" (`cli/_agents.py:381`). `AgentKept` counts both as removed.

*Prompts.* `load` takes no lock (`providers/codex/prompt_cache.py:11`): a body read before and an
etag read after another process's save make a pair that the next 304 saves (`torn`). A
catalog with an empty list passes `_validate_body` and is cached; every 304 then brings
it back until the cache is cleared (`providers/codex/prompts.py:193`, `574`). A lock that times
out, or a failed write, ends the boot although a cached body is at hand.

## 5. Proofs

All theorems are for every value of the constants that satisfies the named assumptions: the number
of rows, keys, segments, failures, slots, commands, pids, starts, messages, deliveries, turns,
callers, logins, sessions, agents and prompt versions is arbitrary. No theorem assumes an
invariant. Each inductive invariant was first checked with TLC on the run's instance.

**Step trace** (`StepTraceAssumption`). `IndTypeOK` strengthens `TypeOK` with what
the pcs imply of the writer's record and with message ids that name messages.
Rows are compared through two relations on segment lists: `Keeps` (rows stay,
or resolve once) and `SameRows` (only marks change); each action is shown to
stay within one of them, and `RowsResolveOnce` follows.

- `PostsInOrder`, `NothingForgotten` rest on `PostInv` = `KeptInv` (what is not
  posted is dirty or in flight) ∧ `FlightInv` (unless the flush is blocked, every
  segment before the one in flight is posted, and a blocked flush has no post in
  flight) ∧ `ShownInv` (messages ascend, and every segment before one that is on
  the channel is posted).
  `PostOrder` alone is not inductive: a later post needs to know that every
  earlier segment has landed. Both theorems assume `"raised" \notin Faults`;
  the remarks say why.
- `BarrierCarriesRows` rests on `CarryInv`: while no call has failed, a segment
  that is clean and not in flight shows exactly its rows, message ids name the
  segment's message, and a released barrier has left nothing dirty.
- `NoSegmentDropped` adds `PhaseInv` (`finish` is called once and the writer exits after it,
  with nothing woken) and `FinalInv`: in the pass that follows `finish`, while at most one call
  has failed, what is dirty lies ahead of the call in flight, nothing blocks the flush, and each
  call has its retry. `PostInv` is what makes a clean segment a posted one. The property counts
  failures, so it assumes `MaxFaults > 1`, for a counter that stopped at one could not tell.
- `SealAlwaysShown` adds `LinkOK` (message ids name the segment's message) and `SealInv`: the
  last segment holds the seal, and it is dirty, in flight with a retry, or shown. It is for
  the surface where `finish` itself appends the seal (`AwaitsAfterSeal` is false); the remarks
  say what happens on the other.

**Budget** (`BudgetAssumption`, `ReserveAssumption`). `GrowthReserved`: a row of
any kind, in any state, with any texts, is at most `RowGrowthReserve` longer than
when it was pending. `BodiesPostable` follows from `Booking`: a segment's length
and the reserve of its pending rows are within the cap. `Postable` is not
inductive: a body just below the cap with a pending row would outgrow it. The
second assumption states what the constants of the code satisfy (4000, 140 and
120) and TLC evaluates it in the run.

**Turn** (`TurnAssumption`). `Renders` says which projection is in hand at each place
of a render and makes `TypeOK` inductive.

- `OwnerKnown` rests on `Owner` = `KnowsOwner` ∧ `OwnerAlone` (no consulted agent at
  work is the owner) ∧ `Unstarted`. `KnowsOwner` alone is not inductive: a handoff
  inside a consult leaves control alone only because its agent's name is not the
  owner's. It assumes `~Reentrant`; the remarks say why.
- `ConsultsPrivate` adds `Unmade` (a consult not made shows nowhere) and `OwnCard`, and
  needs `Owner`: a consult that passes for the owner's must be the top frame's.
- `LinksAlwaysWritten` adds `ThreadHasCard`.
- `OutcomesHonest` rests on `Honest`, about branches, and `CardsHonest`, about what the cards
  show of them. `Honest` adds `NoneInterrupted` (no card is given up
  while the drain goes on), `PendingUntold` (a pending card belongs to a consult that
  is open or replied, with no answer the bridge knows of), `RendersRun` (a result in hand is
  what the run answered) and `AnsweredReplied`. It does not need `Owner`: no handoff
  makes a card or a row lie.
- `AnswersBelowRows` is an action property: `RowFirst` says that a result in hand has
  had its audit row resolved, unless it is the owner's.
- `TurnsAnswered` rests on `AnswerDue`: which terminal each place of the delivery goes with, and
  that the answer is out at every place after it (`Finishes`), unless an exception is on its way.
- `RetiredTurnsSettled` rests on `RowsTidy` (the human's rows are settled once the drain is left,
  the branches and the audit rows when `finish` has got past its cards) and `CardsTidy`: a card
  shows its branch, or a call failed, or the branch will change again, or the edit in hand is
  the one that shows it.

**Roster** (`RosterSlotsAssumption`). `Shape` says what a command has in hand at
each of its places; one lemma per action says where it leads. `Locks` is the
mutual exclusion of `slot_mutation` and `lifecycle_lock` (`SlotsExclusive`). The
inductive invariant `Roster` adds

- `TokensFresh`: start tokens are unique and bounded by the count of starts, so a
  record matches the process it was written for or none;
- `Records`: a command past its identity check holds what the pidfile holds, since
  nobody else is in the slot, and a matching record is of a process of its slot;
- `AllTracked`: whatever is *present* (zombies too, which a stop must see) is named
  by the pidfile or about to be by its spawner;
- `Cleared`: at a spawn nothing of the slot is present, afterwards the child only.

`NoDoubleRun` and `Tracked` need each other: a slot is started only when its
pidfile shows nothing, which means that nothing is there only because all is
tracked; and a pidfile may be overwritten only because the slot was clear. From
`Roster` follow `AlwaysTracked`, `RunsOnce`, `ChildConfirmed`, `OutcomesHonest`.
`StopSweepsClean` adds `Sweep` (what a `disco stop` without a survivor has behind
it is empty, and stays so because it holds the exclusive lock). `SignalsOwn` adds
`Aimed` (a signal on its way reaches the process identified, or nobody) and
assumes `~FastRecycle`.

**Bridge** (`BridgeAssumption`). `BridgeInv` says, for each place of the runtime, how
the gate, the store, the worker and the error stand (`GateStage`, `StoreStage`,
`WorkerStage`, `ErrorStage`), that a turn is the last thing its callback spawns
(`SpawnedLast`), and that the drains leave nothing behind (`Drained`): from `drainTurns` on
no callback waits, from `stopWorker` on no turn runs. The second needs the first, for a
callback that still waited could spawn a turn behind the drain.

- `ExitHonestHolds` is `ErrorStage` and `WorkerStage` at `exited`.
- `ImplementsIngressHolds` maps each step to a step of `Ingress` or a stutter: deliveries and
  callbacks through `OneTurn`, the drains through `GiveUp`, `StopWorker` to `Disconnect`,
  which is enabled because of `Drained`.
- `HandledOnceHolds` rests on `CacheInv` and `ReplaysDropped`. The first says that the cache is
  the end of the order of last deliveries, as long as its capacity allows, and that this order
  has no message twice; with `ReplayWindow <= Capacity` what a reconnect replays is still in it.
  The second, that only a first delivery is routed, needs the first at every replay. A cache
  that left a duplicate in its place would not be the end of that order.

**Delivery** (`DeliveryAssumption`). `Held` says where each kind of client can stand
(`PlacesOK`), what the data is (`DataOK`), and that the queue of commits holds just the
clients whose commit is due, once each (`QueueOK`). The assumption says that replies are texts,
that is sequences of `Lines`. Of plans only `DeliveryTyped` and `SplitsCarry` look at what is in them.

- `WebhookAlone` rests on `WebhookInv`: the lock lets one turn discover, and a turn that creates
  has found none and nobody has created since.
- `RowsJoinFirst` rests on `RowInv`, which follows the row from the turn's hands (`job`) through
  the open transaction to the store, and says that a turn with tools to record has not
  been heard before. `RowJoinsFirst` speaks of the store only and is not inductive.
- `StickyFollowsThread` rests on `SpokeInv` (an owner, stored or in the open transaction, has spoken)
  and `OwnerInv`: in an orderly history, that is without overlap or break-off, at most one client
  is at work, and the owner follows from where it stands (`TurnOwner`, `UnstickOwner`) or is
  `Settled`.
- `OverridesAgree` rests on `MapInv`: while no commit failed, the last command in the queue is the one
  whose value the transaction holds, so that the answer which sets the map last is that of
  the value committed last. The order of the queue is what makes it true.
- `DeliveryTyped` rests on `SplitGood`: a plan is a sequence of chunks of units.

**Folds and induction.** `Chunking` and `History` compute with folds over sequences of any length and
with one recursive function. An induction principle takes a predicate as parameter, which the
provers cannot instantiate, but it can be stated for a set of numbers, and proved from what they know:
`LeastNumber` (a set of numbers has a least one) from the minimal elements of finite sets, and
`Induction` from it. `FoldExists` and `FoldRuns` unwind a fold of the library into the
sequence of values it runs through, and it is then the set of places up to which an invariant of
these values holds that `Induction` is about.

**Chunking** (`ChunkingAssumption`: the limit is positive). `SplitGood` is about every text, every limit and
every choice of where long lines are cut. Each pass of `chunk_split` has an invariant:

- `ParsedTo`, over lines: units have their line's length and the fence that is open, lines ascend, and a
  fence that opened is one that leaves room for a character (`Wrappable`), or nothing could be cut.
- `CutsGood`, by induction over the length of the line: cut lengths are positive, fit the limit and add up.
  With `Ceiling` for code, `PiecesGood`: a unit too large for a message is cut into pieces of it that fit.
- `PackOf`, over units: the flushed chunks carry all units so far (`Carries`), and `size` is the length the
  buffer is rendered with. The last is the heart of it: `RenderAppend` shows that `AppendCost`, which
  the code adds up, is what rendering grows by, with the fences of a block that begins behind other text.
- `LeftOf`, over chunks: what is left are beginnings of chunks. Dropping blank prose from a chunk's end takes
  nothing from any line and makes no chunk longer (`StrippedFacts`).

`SplitsCarry` is `SplitGood` for the texts of deliveries.

**History** (`HistoryAssumption`: positive page size and costs). `HistoryInv` says of each fetch
what stands in its hands at each place (`FetchOf`): a page is the last `Limit` messages before the
trigger, records are in order, without repetition and free of what was cleared, and nothing is
told before the end. `HistoryLegal` and `ClearedGone` alone are not inductive: they speak of what
was told, not of what it is made from.

- `ClearedStaysGone`: a cleared message on the page has its marker after it on the page, since the page is
  the end of what came before the trigger (`WholePage`), so the cut at the last marker takes it off
  (`KeptOfPage`), and a starter put before the page with it; what is built and trimmed has only
  ids of records (`FromRecords`). What is posted later has ids from the trigger on.
- `HistoriesLegal`: a record adds the words of a human or of an agent, or a call, its return and the answer, so
  parts stay paired over any records (`AddRecordWell`, `BuildFacts`). `Trim` cuts where the rest first fits,
  anywhere, and goes on to the next user: a suffix that begins with a user cuts no pair apart, and as
  longer suffixes cost more (`SuffixCheaper`) it fits too (`TrimFacts`).

**Credentials** (`CredentialsAssumption`, `NoCallerAssumption`). `Alone` is the lock;
`Numbered`, `OneLive`, `Spent`, `Newest` are what the server guarantees of its grants; `Outcome`
ties the answer in hand to the token that was sent.

- `NoReplayHolds` rests on `FileTold`: the file holds a spent token only while the caller that
  spent it is at work on the file, or a fault kept the outcome out of it. `NoReplay` is not
  inductive: a caller is safe because what it reads is what the last holder wrote.
- `SessionKeptHolds` is an action property and adds `NotAhead` (the file is not ahead of the
  caller that works on the same login) and `Fresh` (the token of a login that is not yet
  saved is known to the command alone).

**Lifecycle** (`LifecycleAssumption`, `NobodyAssumption`, `OnboardingAssumption`). `Exclusive` is the lock;
`BootingOwned` says whose supervisor boots, `ProbeHolds` what a command's first probe is
still worth, `BeatTold` and `BridgeBorn` what the verdict on the bridge is about.

- `OneSupervisorHolds` is `ProbeHolds` at `spawning`: unless the probe failed, it survives because only
  a start at work, or one that left its supervisor booting, can make one appear (`BootingOwned`).
- `GreenLightHolds` is an action property from `BeatTold`.
- `OnboardImplementsLifecycle` says that the composition only adds; with it, what was proved of
  `Lifecycle` holds of `OnboardSpec`. `OrgClosedHolds` adds `Shared` (no command is at work while a
  wizard stands between a fork and its pidfile) and `SweepKept`: what `stop` has swept stays
  swept while it holds the lock, since every spawn needs the lock shared.

**Agents** (`AgentsAssumption`: names and sessions are finite). `FilesNamed` and `SeenNamed` say whose
each file is and what each session has in hand. `BornPaid` is the count behind the type
invariant: what was defined, what may still be, and who is about to define, fit the commands.

- `AgentsKept` rests on `CopiesOutlast`: an agent that was neither removed nor raced has more files
  than there are renames under way that will take one of them. `AgentKept` is not inductive: the
  end of a rename takes a file away, and that another is left takes a count, since renames of
  one agent can be under way in several sessions.
- `EditsKept` is an action property from `FilesNamed` and `SeenNamed`: a write keeps all but its
  part of what it read, and what it read is there still or it has raced.

**Agent process** (`ProcessAssumption`). `SaversAlone` is the lock; `BodyRead` says that a process reads
an etag only beside a body, which is the cached one unless a file has changed since.

- `AnswersCurrent` rests on `PairCached`, `PairRead` and `PairSaved`: unless a pair is torn, the body and
  the etag in the cache, those a process has read and those it saves are of one version each.
  `AnswerCurrent` is not inductive: a 304 confirms the etag, and the body only if it goes with it.
- `ExitsClean` is an action property from `WorkerTold`: what a process that drains after a clean end
  was told, and that a process which does not serve has no worker to crash.

**Only model-checked.** Liveness is beyond the prover: `FinishEnds`, `BarrierReleased`,
`StopExits`, `LockComesFree`. Every other property of the runs is a theorem.
`SealShown` on the audit surface is false for the reason the remarks
give, and no run claims it there. That a turn ends is not stated: it waits for the run
without a timeout, by design.

## 6. Not modelled

Left out for good: parsing and validating definitions and configuration, rendering and
wording, the CLI's prompts and pages (Discord discovery, doctor, deploy), HTTP adapters of
model providers, the broker's `exec`, and read-only views (`status`, `classify_slots` beyond
which slots a sweep visits). They are sequential code over one value, or pure input and
output. Discord, the mesh client, the kernel and Process Compose are external: they appear
as the outcomes the code must cope with. The Codex credentials belong to a library; the
find-or-create of the audit channel (`bridge/egress.py:99`) can make a second channel when two
first turns race, which nothing else depends on.

Within the modelled parts: the per-correlation table of the renderer (entries share
nothing), log files, the mesh discovery that decorates roster output and the message
wording. Of a turn: personas and texts, the log latch of audit gaps, and a thread that
Discord made although the call failed, which the bridge can neither see nor use. Of the
bridge: which agent a message is routed to. Of the history: the cache and the join of
fetches, which no two fetches of the bridge can meet in. Of the lifecycle: logs, and the
priming update's content. A start across hosts (the mesh's duplicate check) is only a
refusal here.

## 7. Plan

1. `StepTrace` with its rollovers decided by `TraceBudget`, and both as implementations of
   an abstract trace that only appends and resolves.
2. `RosterSlots` as an implementation of the slots of `Onboarding`.
3. The find-or-create of the audit channel, with two turns over one resolver.
