------------------------------- MODULE Delivery -------------------------------
(***************************************************************************)
(* Turns deliver their answers into one thread: the persona webhook of the  *)
(* channel (discord/persona.py), the chunks of each reply                    *)
(* (bridge/reply_poster.py), and what is kept of it in the one SQLite        *)
(* connection of the bridge (bridge/transcripts.py): the transcript row, the *)
(* sticky owner, and the effort override that a slash command sets.          *)
(*                                                                         *)
(* One event loop: an action runs from one await to the next.  A statement   *)
(* on the connection only changes the open transaction, which all clients    *)
(* share; commits reach the connection in the order of the statements.       *)
(***************************************************************************)
EXTENDS Chunking

CONSTANTS Turns, Agents, Nobody,
          Author,              \* the persona a turn answers under
          Unsticks,            \* !unstick messages
          Commands,            \* /thinking-effort commands for one agent
          Effort,              \* the tier each of them sets; Unset clears it
          Unset,
          Replies,             \* per turn, the texts it may answer with
          Tooled,              \* turns that used tools
          Texts,               \* texts that every split is examined for
          MaxFaults,           \* bound: failed calls
          MaxCrashes           \* bound: crashes of the bridge

ASSUME DeliveryAssumption ==
  /\ Author \in [Turns -> Agents] /\ Tooled \subseteq Turns /\ Nobody \notin Agents
  /\ Turns \intersect (Unsticks \union Commands) = {} /\ Unsticks \intersect Commands = {}
  /\ Replies \in [Turns -> SUBSET Seq(Lines)] /\ Texts \subseteq Seq(Lines)
  /\ MaxFaults \in Nat /\ MaxCrashes \in Nat

VARIABLES
  pc,         \* where each client stands
  plan,       \* the chunks of each turn's reply
  job,        \* what post_reply keeps of a turn
  cached,     \* _webhooks has the channel's webhook
  hooks,      \* Discord: webhooks of ours in the channel
  thread,     \* Discord: the messages of the thread
  db,         \* what is committed
  draft,      \* what the connection's transaction would commit
  queue,      \* clients whose statement has run and whose commit has not
  map,        \* EffortOverrides._map, for the agent
  faults, crashes,
  mixed,      \* two clients were at work on the conversation at once: history
  brokeOff,   \* a delivery or an !unstick was not completed: history
  unstored    \* a commit failed, or the overrides were not loaded: history

discord == <<cached, hooks, thread>>
store == <<db, draft, queue>>
history == <<mixed, brokeOff, unstored>>
vars == <<pc, plan, job, discord, store, map, faults, crashes, history>>

Clients == Turns \union Unsticks \union Commands
Tiers == {Effort[c] : c \in Commands} \union {Unset}
Store == [row : [Turns -> Nat], owner : Agents \union {Nobody}, effort : Tiers]

InStore == {"row", "owner", "clear", "set"}
Places == InStore \union {"idle", "lock", "list", "create", "post", "sleep", "rowCommit",
                          "ownerCommit", "clearCommit", "setCommit", "notice", "done"}

TypeOK ==
  /\ pc \in [Clients -> Places]
  /\ plan \in [Turns -> Seq(Seq(Units))]
  /\ job \in [Turns -> [chunk : Nat, retried : BOOLEAN, posted : BOOLEAN,
                        key : Nat, tools : BOOLEAN]]
  /\ cached \in BOOLEAN /\ hooks \in Nat
  /\ thread \in Seq([by : Turns \union Unsticks, told : BOOLEAN])
  /\ db \in Store /\ draft \in Store /\ queue \in Seq(Clients)
  /\ map \in Tiers
  /\ faults \in 0..MaxFaults /\ crashes \in 0..MaxCrashes
  /\ mixed \in BOOLEAN /\ brokeOff \in BOOLEAN /\ unstored \in BOOLEAN

Plans(t) == UNION {ChunkSplits(text) : text \in Replies[t]}

Init ==
  /\ pc = [c \in Clients |-> "idle"]
  /\ plan \in {p \in [Turns -> UNION {Plans(t) : t \in Turns}] :
                \A t \in Turns : p[t] \in Plans(t)}
  /\ job = [t \in Turns |-> [chunk |-> 1, retried |-> FALSE, posted |-> FALSE,
                              key |-> 0, tools |-> t \in Tooled]]
  /\ cached = FALSE
  /\ hooks \in {0, 1}
  /\ thread = << >>
  /\ db = [row |-> [t \in Turns |-> 0], owner |-> Nobody, effort |-> Unset]
  /\ draft = db
  /\ queue = << >>
  /\ map = Unset
  /\ faults = 0 /\ crashes = 0
  /\ mixed = FALSE /\ brokeOff = FALSE /\ unstored = FALSE

Goto(c, place) == pc' = [pc EXCEPT ![c] = place]

Fault == faults < MaxFaults /\ faults' = faults + 1

(***************************************************************************)
(* The webhook of the channel                                               *)
(***************************************************************************)

LockFree == \A t \in Turns : pc[t] \notin {"list", "create"}

(* send: a cached webhook is used at once, otherwise the discovery lock is asked for. *)
Send == IF cached THEN "post" ELSE "lock"

(* Mutant: the discovery is not serialised. *)
Bug_LockTaken(t) ==
  /\ pc[t] = "lock"
  /\ Goto(t, IF cached THEN "post" ELSE "list")
  /\ UNCHANGED <<plan, job, discord, store, map, faults, crashes, history>>

(* A peer may have filled the cache while this turn waited. *)
LockTaken(t) ==
  /\ pc[t] = "lock" /\ LockFree
  /\ Goto(t, IF cached THEN "post" ELSE "list")
  /\ UNCHANGED <<plan, job, discord, store, map, faults, crashes, history>>

(* A webhook of our name and user is adopted. *)
Listed(t) ==
  /\ pc[t] = "list"
  /\ Goto(t, IF hooks > 0 THEN "post" ELSE "create")
  /\ cached' = (hooks > 0)
  /\ UNCHANGED <<plan, job, hooks, thread, store, map, faults, crashes, history>>

Created(t) ==
  /\ pc[t] = "create"
  /\ Goto(t, "post")
  /\ hooks' = hooks + 1
  /\ cached' = TRUE
  /\ UNCHANGED <<plan, job, thread, store, map, faults, crashes, history>>

(***************************************************************************)
(* The chunks of a reply                                                    *)
(***************************************************************************)

AtWork == {c \in Turns \union Unsticks : pc[c] \notin {"idle", "done"}}

(* post_reply: nothing to post is no loss. *)
Begin(t) ==
  /\ pc[t] = "idle"
  /\ Goto(t, IF plan[t] = << >> THEN "done" ELSE Send)
  /\ mixed' = (mixed \/ AtWork # {})
  /\ UNCHANGED <<plan, job, discord, store, map, faults, crashes, brokeOff, unstored>>

(* Mutant: the last chunk alone decides what became of the reply. *)
Bug_Outcome(t, posted) ==
  IF job[t].chunk < Len(plan[t]) THEN Send ELSE IF pc[t] = "post" THEN "owner" ELSE "notice"

(* The next chunk; or the turn is over: posted makes an owner, lost is told by a notice. *)
Outcome(t, posted) ==
  IF job[t].chunk < Len(plan[t]) THEN Send ELSE IF posted THEN "owner" ELSE "notice"

Advance(t, posted, tools) ==
  /\ job' = [job EXCEPT ![t].chunk = @ + 1, ![t].retried = FALSE,
                        ![t].posted = posted, ![t].tools = tools]
  /\ Goto(t, Outcome(t, posted))

Arrives(by, told) == thread' = Append(thread, [by |-> by, told |-> told])

(* The row of a turn that used tools is written once, for the first chunk that is posted. *)
Posted(t) ==
  /\ pc[t] = "post"
  /\ Arrives(t, TRUE)
  /\ IF job[t].tools
     THEN Goto(t, "row") /\ job' = [job EXCEPT ![t].key = Len(thread')]
     ELSE Advance(t, TRUE, FALSE)
  /\ UNCHANGED <<plan, cached, hooks, store, map, faults, crashes, history>>

(* A call of send fails.  A server error is answered by one more attempt, after a while; a       *)
(* second one, or any other that Discord reports, costs the chunk.                               *)
ChunkFails(t) ==
  \/ /\ ~job[t].retried
     /\ Goto(t, "sleep")
     /\ job' = [job EXCEPT ![t].retried = TRUE]
  \/ Advance(t, job[t].posted, job[t].tools)

(* An error of the connection is no DiscordException: it ends the delivery, whatever was posted. *)
Escapes(t) == Goto(t, "notice") /\ UNCHANGED job

(* The failed call may have taken effect all the same. *)
CallFails(t) ==
  /\ pc[t] \in {"list", "create", "post"}
  /\ Fault
  /\ \/ ChunkFails(t) /\ UNCHANGED brokeOff
     \/ Escapes(t) /\ brokeOff' = TRUE
  /\ hooks' \in IF pc[t] = "create" THEN {hooks, hooks + 1} ELSE {hooks}
  /\ UNCHANGED thread \/ (pc[t] = "post" /\ Arrives(t, FALSE))
  /\ UNCHANGED <<plan, cached, store, map, crashes, mixed, unstored>>

Retry(t) ==
  /\ pc[t] = "sleep"
  /\ Goto(t, Send)
  /\ UNCHANGED <<plan, job, discord, store, map, faults, crashes, history>>

(***************************************************************************)
(* The store, and the two commands                                          *)
(***************************************************************************)

Unstick(u) ==
  /\ pc[u] = "idle"
  /\ Goto(u, "clear")
  /\ mixed' = (mixed \/ AtWork # {})
  /\ UNCHANGED <<plan, job, discord, store, map, faults, crashes, brokeOff, unstored>>

ThinkingEffort(c) ==
  /\ pc[c] = "idle"
  /\ Goto(c, "set")
  /\ UNCHANGED <<plan, job, discord, store, map, faults, crashes, history>>

(* What a statement makes of the open transaction. *)
Changed(c) ==
  CASE pc[c] = "row"   -> [draft EXCEPT !.row[c] = job[c].key]
    [] pc[c] = "owner" -> [draft EXCEPT !.owner = Author[c]]
    [] pc[c] = "clear" -> [draft EXCEPT !.owner = Nobody]
    [] pc[c] = "set"   -> [draft EXCEPT !.effort = Effort[c]]

Committing == [row |-> "rowCommit", owner |-> "ownerCommit",
               clear |-> "clearCommit", set |-> "setCommit"]

Executes(c) ==
  /\ pc[c] \in InStore
  /\ draft' = Changed(c)
  /\ queue' = Append(queue, c)
  /\ Goto(c, Committing[pc[c]])
  /\ UNCHANGED <<plan, job, discord, db, map, faults, crashes, history>>

(* Mutant: every chunk is taken for the first. *)
Bug_RowOver(c) == Advance(c, TRUE, TRUE)

(* Once a row is written, or its write has failed, the turn writes no other. *)
RowOver(c) == Advance(c, TRUE, FALSE)

Stored(c) ==
  CASE pc[c] = "rowCommit"   -> RowOver(c) /\ UNCHANGED map
    [] pc[c] = "ownerCommit" -> Goto(c, "done") /\ UNCHANGED <<job, map>>
    [] pc[c] = "clearCommit" -> Goto(c, "notice") /\ UNCHANGED <<job, map>>
    [] pc[c] = "setCommit"   -> Goto(c, "done") /\ map' = Effort[c] /\ UNCHANGED job

(* Mutant: the map is set whatever became of the store. *)
Bug_Refused(c) ==
  CASE pc[c] \in {"row", "rowCommit"}     -> RowOver(c) /\ UNCHANGED map
    [] pc[c] \in {"owner", "ownerCommit"} -> Goto(c, "notice") /\ UNCHANGED <<job, map>>
    [] pc[c] \in {"clear", "clearCommit"} -> Goto(c, "done") /\ UNCHANGED <<job, map>>
    [] pc[c] \in {"set", "setCommit"}     -> Goto(c, "done") /\ map' = Effort[c] /\ UNCHANGED job

(* A lost row is logged and no more; the other errors reach whoever logs and tells of them. *)
Refused(c) ==
  CASE pc[c] \in {"row", "rowCommit"}     -> RowOver(c) /\ UNCHANGED map
    [] pc[c] \in {"owner", "ownerCommit"} -> Goto(c, "notice") /\ UNCHANGED <<job, map>>
    [] pc[c] \in {"clear", "clearCommit",
                  "set", "setCommit"}     -> Goto(c, "done") /\ UNCHANGED <<job, map>>

Commits(c) ==
  /\ queue # << >> /\ Head(queue) = c
  /\ db' = draft
  /\ queue' = Tail(queue)
  /\ Stored(c)
  /\ UNCHANGED <<plan, discord, draft, faults, crashes, history>>

OwnerChanges == {"owner", "ownerCommit", "clear", "clearCommit"}

StatementFails(c) ==
  /\ pc[c] \in InStore
  /\ Fault
  /\ Refused(c)
  /\ brokeOff' = (brokeOff \/ pc[c] \in OwnerChanges)
  /\ UNCHANGED <<plan, discord, store, crashes, mixed, unstored>>

(* The transaction stays open, or is rolled back with what the other clients did in it. *)
CommitFails(c) ==
  /\ queue # << >> /\ Head(queue) = c
  /\ Fault
  /\ draft' \in {draft, db}
  /\ queue' = Tail(queue)
  /\ Refused(c)
  /\ brokeOff' = (brokeOff \/ \E o \in Range(queue) : pc[o] \in OwnerChanges)
  /\ unstored' = TRUE
  /\ UNCHANGED <<plan, discord, db, crashes, mixed>>

(* post_notice: a failure is swallowed. *)
Notice(c) ==
  /\ pc[c] = "notice"
  /\ Goto(c, "done")
  /\ \/ /\ IF c \in Unsticks THEN Arrives(c, TRUE) ELSE UNCHANGED thread
        /\ UNCHANGED <<faults, brokeOff>>
     \/ Fault /\ brokeOff' = TRUE /\ UNCHANGED thread
  /\ UNCHANGED <<plan, job, cached, hooks, store, map, crashes, mixed, unstored>>

(***************************************************************************)
(* The bridge dies and is started again                                     *)
(***************************************************************************)

(* What was on its way may have arrived.  At the start the overrides are loaded, or none are if  *)
(* that fails.                                                                                   *)
Crash ==
  /\ crashes < MaxCrashes /\ crashes' = crashes + 1
  /\ pc' = [c \in Clients |-> IF pc[c] = "idle" THEN "idle" ELSE "done"]
  /\ cached' = FALSE
  /\ hooks' \in {hooks} \union {hooks + 1 : t \in {t \in Turns : pc[t] = "create"}}
  /\ \/ UNCHANGED thread
     \/ \E t \in Turns : pc[t] = "post" /\ Arrives(t, FALSE)
  /\ db' \in IF queue = << >> THEN {db} ELSE {db, draft}
  /\ draft' = db'
  /\ queue' = << >>
  /\ \/ map' = db'.effort /\ UNCHANGED <<faults, unstored>>
     \/ Fault /\ map' = Unset /\ unstored' = TRUE
  /\ brokeOff' = (brokeOff \/ AtWork # {})
  /\ UNCHANGED <<plan, job, mixed>>

Done == (\A c \in Clients : pc[c] = "done") /\ UNCHANGED vars

Next ==
  \/ \E t \in Turns : \/ Begin(t) \/ LockTaken(t) \/ Listed(t) \/ Created(t)
                      \/ Posted(t) \/ CallFails(t) \/ Retry(t)
  \/ \E u \in Unsticks : Unstick(u)
  \/ \E c \in Commands : ThinkingEffort(c)
  \/ \E c \in Clients : \/ Executes(c) \/ Commits(c) \/ StatementFails(c) \/ CommitFails(c)
                        \/ Notice(c)
  \/ Crash
  \/ Done

Spec == Init /\ [][Next]_vars

(***************************************************************************)
(* Properties                                                               *)
(***************************************************************************)

(* The row that replays a turn's tools is joined to the first message of its reply: the history  *)
(* splices before that message, so nothing Discord confirmed stands above it                     *)
(* (reply_poster.py:190).                                                                        *)
RowJoinsFirst ==
  \A t \in Turns : LET id == db.row[t]
                   IN id # 0 => /\ thread[id] = [by |-> t, told |-> TRUE]
                                /\ \A i \in 1..(id - 1) : thread[i].by = t => ~thread[i].told

(* A channel has one persona webhook, although turns look for it at once, its creation may have  *)
(* taken effect unseen, and a restart forgets it (persona.py:520): the posts of a second would   *)
(* not be taken for the bridge's own.                                                            *)
OneWebhook == hooks <= 1

Told == {i \in DOMAIN thread : thread[i].told}

(* The owner by what stands in the thread: who spoke last, nobody after an !unstick. *)
OwnsByThread(owner) ==
  /\ Told = {} => owner = Nobody
  /\ \A last \in Told :
       (\A i \in Told : i <= last) =>
         owner = IF thread[last].by \in Unsticks THEN Nobody ELSE Author[thread[last].by]

(* An owner has spoken in the thread; and it is the last speaker, unless deliveries overlapped   *)
(* or one broke off: lost chunks, lost rows and their retries do not matter                      *)
(* (mention_handler.py:570).                                                                     *)
StickyFollows ==
  /\ \/ db.owner = Nobody
     \/ \E t \in Turns : Author[t] = db.owner /\ [by |-> t, told |-> TRUE] \in Range(thread)
  /\ AtWork = {} /\ ~mixed /\ ~brokeOff => OwnsByThread(db.owner)

(* The override that a turn is started with is the one that is stored, and the one that a        *)
(* restart will load, whichever of two commands came last and whatever a store refused           *)
(* (overrides.py:63).                                                                            *)
OverrideAgrees ==
  ~unstored /\ (\A c \in Commands : pc[c] \notin {"set", "setCommit"}) => map = db.effort

(* Whatever is going to be delivered, no text loses a line of its answer by being split, and no  *)
(* message of it is over the limit, its fences included, wherever a long line is cut             *)
(* (chunking.py:80).                                                                             *)
SplitsCarryTexts ==
  (\A c \in Clients : pc[c] = "idle") =>
    \A text \in Texts : \A chunks \in ChunkSplits(text) :
      ChunksFit(chunks) /\ ContentKept(text, chunks)
=============================================================================
