-------------------------------- MODULE History --------------------------------
(***************************************************************************)
(* What an agent is told of the thread it is called in                      *)
(* (bridge/history.py): the newest messages before the one that calls it,    *)
(* the message the thread was started from, what a /clear leaves of them,    *)
(* the tool calls of earlier answers replayed from their transcript rows,    *)
(* and the byte budget.                                                     *)
(*                                                                         *)
(* A message's id is its place in the thread.  The starter has the thread's  *)
(* own id: it lies in the parent channel and has id 0, or, in a forum, it is *)
(* the first message of the thread.  It may itself call an agent: the first  *)
(* turn of a /task.  The fetch key holds the calling message, and a message  *)
(* calls once, so no two fetches share a key and neither the cache nor the   *)
(* join of concurrent fetches ever serves one for another.                   *)
(***************************************************************************)
EXTENDS Naturals, Sequences, FiniteSets, SequencesExt

CONSTANTS Fetches,             \* the turns whose agents are told of the thread
          Limit,               \* _limit: messages of one page
          MaxBytes,            \* max_json_bytes
          Cost,                \* _message_json_cost, by part
          MaxPosts             \* bound: messages in the thread

Parts == {"user", "call", "return", "text"}

HistoryAssumption ==
  /\ Limit \in Nat \ {0} /\ MaxBytes \in Nat /\ MaxPosts \in Nat
  /\ Cost \in [Parts -> Nat \ {0}]

ASSUME HistoryAssumption

VARIABLES
  posts,      \* Discord: what each message of the thread is
  starter,    \* Discord: what the starter in the parent channel is, or "inside", or "none"
  rows,       \* the store: the row of each message, if any
  owned,      \* owns_webhook knows the webhook of the channel
  stage,      \* where the fetch of each turn stands
  trigger,    \* the message that called it
  records,    \* what it fetched
  built,      \* build_message_history, before it is trimmed
  told        \* what the agent is told

turns == <<stage, trigger, records, built, told>>
historyVars == <<posts, starter, rows, owned, turns>>

(* step is a persona's message without text, blank one of a human; marker is the bot's /clear.   *)
PostKinds == {"human", "agent", "step", "blank", "marker"}
Starters == {"none", "human", "agent", "inside"}
Rows == {"none", "good", "corrupt"}
Messages == [id : 0..MaxPosts, part : Parts]

HistoryTypeOK ==
  /\ posts \in Seq(PostKinds) /\ Len(posts) <= MaxPosts
  /\ starter \in Starters /\ owned \in BOOLEAN
  /\ rows \in [0..MaxPosts -> Rows]
  /\ stage \in [Fetches -> {"idle", "page", "starter", "rows", "done", "raised"}]
  /\ trigger \in [Fetches -> 0..MaxPosts]
  /\ records \in [Fetches -> Seq([id : 0..MaxPosts, kind : PostKinds])]
  /\ built \in [Fetches -> Seq(Messages)] /\ told \in [Fetches -> Seq(Messages)]

HistoryInit ==
  /\ posts = << >>
  /\ starter \in Starters
  /\ rows = [m \in 0..MaxPosts |-> "none"]
  /\ owned = FALSE
  /\ stage = [t \in Fetches |-> "idle"]
  /\ trigger = [t \in Fetches |-> 0]
  /\ records = [t \in Fetches |-> << >>]
  /\ built = [t \in Fetches |-> << >>]
  /\ told = [t \in Fetches |-> << >>]

(***************************************************************************)
(* The thread and the store                                                 *)
(***************************************************************************)

(* A person opens a thread of a forum. *)
Post(kind) ==
  /\ Len(posts) < MaxPosts
  /\ starter = "inside" /\ posts = << >> => kind \in {"human", "blank"}
  /\ posts' = Append(posts, kind)

Kind(id) == IF id = 0 THEN starter ELSE posts[id]

(* Somebody writes without calling an agent, or /clear posts its marker. *)
Writes ==
  /\ \E kind \in {"human", "blank", "marker"} : Post(kind)
  /\ UNCHANGED <<starter, rows, owned, turns>>

(* A persona posts: from then on its webhook is known. *)
AgentPosts ==
  /\ \E kind \in {"agent", "step"} : Post(kind)
  /\ owned' = TRUE
  /\ UNCHANGED <<starter, rows, turns>>

(* The row of an answer is written behind its first message; what it holds may be unreadable. *)
RowWritten ==
  /\ \E m \in 0..Len(posts) : /\ Kind(m) = "agent" /\ rows[m] = "none"
                              /\ \E row \in {"good", "corrupt"} : rows' = [rows EXCEPT ![m] = row]
  /\ UNCHANGED <<posts, starter, owned, turns>>

(* The bridge restarts: it knows no webhook until it posts, and its turns are gone. *)
Restart ==
  /\ owned' = FALSE
  /\ stage' = [t \in Fetches |->
                IF stage[t] \in {"page", "starter", "rows"} THEN "raised" ELSE stage[t]]
  /\ UNCHANGED <<posts, starter, rows, trigger, records, built, told>>

(***************************************************************************)
(* fetch                                                                    *)
(***************************************************************************)

Calls(t) ==
  /\ stage[t] = "idle"
  /\ Post("human")
  /\ stage' = [stage EXCEPT ![t] = "page"]
  /\ trigger' = [trigger EXCEPT ![t] = Len(posts')]
  /\ UNCHANGED <<starter, rows, owned, records, built, told>>

(* The starter in the parent channel calls, once the thread is there and before anyone writes.  *)
StarterCalls(t) ==
  /\ starter = "human" /\ posts = << >>
  /\ \A u \in Fetches : stage[u] = "idle"
  /\ stage' = [stage EXCEPT ![t] = "page"]
  /\ UNCHANGED <<posts, starter, rows, owned, trigger, records, built, told>>

(* The newest messages before the trigger, oldest first. *)
Page(t) ==
  LET first == IF trigger[t] > Limit THEN trigger[t] - Limit ELSE 1
  IN [i \in 1..(trigger[t] - first) |-> [id |-> first + i - 1, kind |-> posts[first + i - 1]]]

Fetched(t) ==
  /\ stage[t] = "page"
  /\ records' = [records EXCEPT ![t] = Page(t)]
  /\ stage' = [stage EXCEPT ![t] = "starter"]
  /\ UNCHANGED <<posts, starter, rows, owned, trigger, built, told>>

(* Whatever Discord answers otherwise, there is no history. *)
FetchFails(t) ==
  /\ stage[t] = "page"
  /\ stage' = [stage EXCEPT ![t] = "done"]
  /\ UNCHANGED <<posts, starter, rows, owned, trigger, records, built, told>>

(* Mutant: the first marker cuts, and not the last. *)
Bug_Cut(page) ==
  LET markers == {i \in DOMAIN page : page[i].kind = "marker"}
  IN IF markers = {} THEN page
     ELSE SubSeq(page, 1 + CHOOSE i \in markers : \A j \in markers : i <= j, Len(page))

(* The last /clear and all above it go. *)
Cut(page) ==
  LET markers == {i \in DOMAIN page : page[i].kind = "marker"}
  IN IF markers = {} THEN page
     ELSE SubSeq(page, 1 + CHOOSE i \in markers : \A j \in markers : j <= i, Len(page))

(* Whose a message is, by its webhook: a persona's is a human's while the webhook is unknown. *)
Record(m) == [m EXCEPT !.kind = IF @ = "agent" /\ ~owned THEN "human" ELSE @]

(* What is kept of a page: all but step traces. *)
Keep(kept, m) == IF m.kind = "step" THEN kept ELSE Append(kept, Record(m))

Projected(page) == FoldLeft(Keep, << >>, page)

StarterId == IF starter = "inside" THEN 1 ELSE 0

(* Mutant: a starter that is on the page is put before it again. *)
Bug_WithStarter(t) ==
  IF StarterId < trigger[t] THEN <<[id |-> StarterId, kind |-> Kind(StarterId)]>> \o records[t]
  ELSE records[t]

(* The starter before the page, unless it is the trigger or already there. *)
WithStarter(t) ==
  IF StarterId < trigger[t] /\ \A i \in DOMAIN records[t] : records[t][i].id # StarterId
  THEN <<[id |-> StarterId, kind |-> Kind(StarterId)]>> \o records[t] ELSE records[t]

(* _do_fetch: the starter is found, or it is not there or not to be had (that of a forum is had  *)
(* of discord.py's cache only); then the page is cut and projected.                              *)
StarterRead(t) ==
  /\ stage[t] = "starter"
  /\ \E page \in {records[t]} \cup (IF starter = "none" THEN {} ELSE {WithStarter(t)}) :
       records' = [records EXCEPT ![t] = Projected(Cut(page))]
  /\ stage' = [stage EXCEPT ![t] = "rows"]
  /\ UNCHANGED <<posts, starter, rows, owned, trigger, built, told>>

(***************************************************************************)
(* message_history                                                          *)
(***************************************************************************)

Part(id, part) == [id |-> id, part |-> part]

(* _build_replay_hydration: the calls of an answer, if it has a row that can be read. *)
Replay(m) ==
  IF rows[m.id] = "good" THEN <<Part(m.id, "call"), Part(m.id, "return")>> ELSE << >>

(* One record more.  An answer that nobody asked for brings no calls: it will not be told. *)
AddRecord(history, m) ==
  CASE m.kind = "human" -> Append(history, Part(m.id, "user"))
    [] m.kind = "agent" ->
         Append(IF \E i \in DOMAIN history : history[i].part = "user"
                THEN history \o Replay(m) ELSE history, Part(m.id, "text"))
    [] OTHER -> history

(* _drop_until_user_request *)
LegalHead(history) ==
  LET users == {i \in DOMAIN history : history[i].part = "user"}
  IN IF users = {} THEN << >>
     ELSE SubSeq(history, CHOOSE i \in users : \A j \in users : i <= j, Len(history))

Build(recs) == LegalHead(FoldLeft(AddRecord, << >>, recs))

(* The closing bracket is one byte more. *)
Bytes(history) == FoldLeft(LAMBDA sum, m : sum + Cost[m.part], 1, history)

Since(history, i) == SubSeq(history, i, Len(history))

(* Mutant: the cut is left where the budget put it. *)
Bug_Trim(history) ==
  Since(history, CHOOSE i \in 1..(Len(history) + 1) :
           /\ Bytes(Since(history, i)) <= MaxBytes \/ i > Len(history)
           /\ \A j \in 1..(i - 1) : Bytes(Since(history, j)) > MaxBytes)

(* Going back from the newest until the next does not fit, and then on to a legal head. *)
Trim(history) ==
  LegalHead(Since(history, CHOOSE i \in 1..(Len(history) + 1) :
              /\ Bytes(Since(history, i)) <= MaxBytes \/ i > Len(history)
              /\ \A j \in 1..(i - 1) : Bytes(Since(history, j)) > MaxBytes))

Tells(t) ==
  /\ stage[t] = "rows"
  /\ built' = [built EXCEPT ![t] = Build(records[t])]
  /\ told' = [told EXCEPT ![t] = Trim(built'[t])]
  /\ stage' = [stage EXCEPT ![t] = "done"]
  /\ UNCHANGED <<posts, starter, rows, owned, trigger, records>>

(* The store is asked for answers only; if it fails, so does the turn. *)
StoreFails(t) ==
  /\ stage[t] = "rows"
  /\ \E i \in DOMAIN records[t] : records[t][i].kind = "agent"
  /\ stage' = [stage EXCEPT ![t] = "raised"]
  /\ UNCHANGED <<posts, starter, rows, owned, trigger, records, built, told>>

HistoryNext ==
  \/ Writes \/ AgentPosts \/ RowWritten \/ Restart
  \/ \E t \in Fetches : \/ Calls(t) \/ StarterCalls(t) \/ Fetched(t) \/ FetchFails(t) \/ StarterRead(t)
                        \/ Tells(t) \/ StoreFails(t)

HistorySpec == HistoryInit /\ [][HistoryNext]_historyVars

(***************************************************************************)
(* Properties                                                               *)
(***************************************************************************)

(* In the order of the thread, and nothing twice. *)
InOrder(history) ==
  \A i, j \in DOMAIN history : i < j => history[i].id <= history[j].id /\ history[i] # history[j]

(* Providers refuse a call without its return, a return without its call. *)
Paired(history) ==
  \A i \in DOMAIN history :
    /\ history[i].part = "call" =>
         i < Len(history) /\ history[i + 1] = Part(history[i].id, "return")
    /\ history[i].part = "return" =>
         /\ i > 1 /\ history[i - 1] = Part(history[i].id, "call")
         /\ i < Len(history) /\ history[i + 1] = Part(history[i].id, "text")

(* What an agent is told begins with a user, keeps calls, returns and the answer they led to     *)
(* together, is in order, holds nothing twice, is what came before the trigger, and fits the     *)
(* budget, whether the starter calls, lies on the page or above it (history.py:526); and nothing *)
(* is dropped that could have been told, whichever message the budget cuts through               *)
(* (history.py:946).                                                                             *)
HistoryLegal ==
  \A t \in Fetches :
    LET history == told[t]
    IN /\ history # << >> => history[1].part = "user" /\ Bytes(history) <= MaxBytes
       /\ Paired(history) /\ InOrder(history)
       /\ \A i \in DOMAIN history : history[i].id < trigger[t]
       /\ \E i \in 1..(Len(built[t]) + 1) :
            /\ history = Since(built[t], i)
            /\ \A j \in 1..(i - 1) :
                 built[t][j].part = "user" => Bytes(Since(built[t], j)) > MaxBytes

Gone(t, id) ==
  \E m \in DOMAIN posts : /\ posts[m] = "marker" /\ id < m /\ m < trigger[t]
                          /\ id = StarterId => trigger[t] <= m + Limit

(* Nothing above a /clear is told, nor the calls behind it, although the page may hold several   *)
(* markers or none (history.py:534); of the starter this is said while the marker is on the page.*)
ClearedGone == \A t \in Fetches : \A i \in DOMAIN told[t] : ~Gone(t, told[t][i].id)

=============================================================================
