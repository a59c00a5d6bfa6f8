----------------------------- MODULE AgentProcess -----------------------------
(***************************************************************************)
(* An agent process from boot to exit, and the prompt cache the processes of *)
(* a host share (calfcord/agents/runner.py, _worker_runtime.py,              *)
(* providers/codex/prompts.py and prompt_cache.py).                          *)
(*                                                                         *)
(* One artifact stands for the two that are cached: each has files and a    *)
(* lock of its own and goes through the same code, one after the other.  An  *)
(* etag names the version it was sent with.                                  *)
(***************************************************************************)
EXTENDS Naturals

CONSTANTS Processes,
          Versions,            \* what upstream may publish
          Valid,               \* those that have the shape the cache insists on
          Usable,              \* those that also list a model with a prompt
          Selects,             \* those that list the model the agent pins
          None                 \* no version, no holder

ASSUME ProcessAssumption ==
  /\ Selects \subseteq Usable /\ Usable \subseteq Valid /\ Valid \subseteq Versions
  /\ None \notin Versions \union Processes

VARIABLES
  upstream,     \* what upstream publishes now
  body, meta,   \* the two cached files: the artifact, and its etag
  lock,         \* who holds <name>.lock
  clearing,     \* the files that a clear has listed and not removed
  pc,           \* how far each process is
  cached, etag, \* what it read from the cache
  got, tag,     \* the artifact it goes on with, and the etag to save
  worker,       \* how its worker fares
  signal,       \* whether it has been told to stop
  exit,         \* how it ended
  answered,     \* what upstream published when it answered the process: history
  moved,        \* a file changed since it read the body: history
  torn          \* a pair was read, or left, half old and half new: history

cache == <<body, meta, clearing>>
loading == <<cached, etag, got, tag, answered>>
running == <<worker, signal, exit>>
processVars == <<upstream, cache, lock, pc, loading, running, moved, torn>>

Places == {"down", "body", "meta", "get", "lock", "saveBody", "saveMeta", "parse", "grok",
          "build", "serving", "draining"}

ProcessTypeOK ==
  /\ upstream \in Versions
  /\ body \in Versions \union {None} /\ meta \in Versions \union {None}
  /\ lock \in Processes \union {None}
  /\ clearing \subseteq {"body", "meta"}
  /\ pc \in [Processes -> Places]
  /\ cached \in [Processes -> Versions \union {None}]
  /\ etag \in [Processes -> Versions \union {None}]
  /\ got \in [Processes -> Versions \union {None}]
  /\ tag \in [Processes -> Versions \union {None}]
  /\ worker \in [Processes -> {"pending", "crashed", "returned"}]
  /\ signal \in [Processes -> BOOLEAN]
  /\ exit \in [Processes -> {"none", "zero", "nonzero"}]
  /\ answered \in [Processes -> Versions \union {None}]
  /\ moved \in [Processes -> BOOLEAN]
  /\ torn \in BOOLEAN

ProcessInit ==
  /\ upstream \in Versions
  /\ body = None /\ meta = None
  /\ lock = None
  /\ clearing = {}
  /\ pc = [p \in Processes |-> "down"]
  /\ cached = [p \in Processes |-> None]
  /\ etag = [p \in Processes |-> None]
  /\ got = [p \in Processes |-> None]
  /\ tag = [p \in Processes |-> None]
  /\ worker = [p \in Processes |-> "pending"]
  /\ signal = [p \in Processes |-> FALSE]
  /\ exit = [p \in Processes |-> "none"]
  /\ answered = [p \in Processes |-> None]
  /\ moved = [p \in Processes |-> FALSE]
  /\ torn = FALSE

Proceeds(p, step) == pc' = [pc EXCEPT ![p] = step]

(* A file of the cache changes under those that have read the body and not the etag. *)
Moves == moved' = [p \in Processes |-> moved[p] \/ pc[p] = "meta"]

Leaves(p, code) ==
  /\ Proceeds(p, "down")
  /\ exit' = [exit EXCEPT ![p] = code]
  /\ cached' = [cached EXCEPT ![p] = None]
  /\ etag' = [etag EXCEPT ![p] = None]
  /\ got' = [got EXCEPT ![p] = None]
  /\ tag' = [tag EXCEPT ![p] = None]
  /\ answered' = [answered EXCEPT ![p] = None]
  /\ moved' = [moved EXCEPT ![p] = FALSE]
  /\ UNCHANGED <<upstream, cache>>

(* The lock goes with the process, and a pair it was half way through stays as it is. *)
Dies(p, code) ==
  /\ Leaves(p, code)
  /\ lock' = IF lock = p THEN None ELSE lock
  /\ torn' = (torn \/ (pc[p] = "saveMeta" /\ body # meta))

Exits(p, code) == Dies(p, code) /\ UNCHANGED <<worker, signal>>

(***************************************************************************)
(* Boot                                                                     *)
(***************************************************************************)

(* Where the providers of the definitions send the process: to the cached prompts, past them,    *)
(* or out, when none of them is known.                                                           *)
Providers == {"body", "grok", "down"}

(* The definitions are resolved; one that is bad, or that nobody defined, ends it. *)
Boot(p) ==
  /\ pc[p] = "down"
  /\ \E step \in Providers :
       /\ Proceeds(p, step)
       /\ exit' = [exit EXCEPT ![p] = IF step = "down" THEN "nonzero" ELSE "none"]
  /\ worker' = [worker EXCEPT ![p] = "pending"]
  /\ signal' = [signal EXCEPT ![p] = FALSE]
  /\ UNCHANGED <<upstream, cache, lock, loading, moved, torn>>

(* PromptCache.load reads the body first; it takes no lock. *)
LoadBody(p) ==
  /\ pc[p] = "body"
  /\ Proceeds(p, IF body = None THEN "get" ELSE "meta")
  /\ cached' = [cached EXCEPT ![p] = body]
  /\ UNCHANGED <<upstream, cache, lock, etag, got, tag, answered, running, moved, torn>>

LoadMeta(p) ==
  /\ pc[p] = "meta"
  /\ Proceeds(p, "get")
  /\ etag' = [etag EXCEPT ![p] = meta]
  /\ torn' = (torn \/ moved[p] \/ \E q \in Processes : pc[q] = "saveMeta")
  /\ moved' = [moved EXCEPT ![p] = FALSE]
  /\ UNCHANGED <<upstream, cache, lock, cached, got, tag, answered, running>>

(* The process goes on with version v, which upstream has confirmed or not. *)
Takes(p, v, answer) ==
  /\ got' = [got EXCEPT ![p] = v]
  /\ answered' = [answered EXCEPT ![p] = answer]
  /\ cached' = [cached EXCEPT ![p] = None]
  /\ etag' = [etag EXCEPT ![p] = None]
  /\ UNCHANGED <<upstream, cache, lock, running, moved, torn>>

(* Whatever goes wrong with the request, the cached body will do. *)
FallsBack(p) ==
  /\ cached[p] # None
  /\ Proceeds(p, "parse")
  /\ Takes(p, cached[p], None)
  /\ UNCHANGED tag

(* Without one, the process cannot boot. *)
Unavailable(p) == cached[p] = None /\ Exits(p, "nonzero")

GetFails(p) == pc[p] = "get" /\ (FallsBack(p) \/ Unavailable(p))

(* _validate_body *)
Accepts(v) == v \in Valid

Get200(p) ==
  /\ pc[p] = "get"
  /\ etag[p] # upstream
  /\ \/ /\ Accepts(upstream)
        /\ Proceeds(p, "lock")
        /\ Takes(p, upstream, upstream)
        /\ tag' = [tag EXCEPT ![p] = upstream]
     \/ ~Accepts(upstream) /\ (FallsBack(p) \/ Unavailable(p))

(* The cached pair is saved again. *)
Get304(p) ==
  /\ pc[p] = "get"
  /\ etag[p] = upstream
  /\ Proceeds(p, "lock")
  /\ Takes(p, cached[p], upstream)
  /\ tag' = [tag EXCEPT ![p] = etag[p]]

(* Mutant: the two writes are not made under the lock. *)
Bug_LockFree == TRUE

LockFree == lock = None

Lock(p) ==
  /\ pc[p] = "lock" /\ LockFree
  /\ lock' = p
  /\ Proceeds(p, "saveBody")
  /\ UNCHANGED <<upstream, cache, loading, running, moved, torn>>

(* FileLock gives up, which nobody catches. *)
LockTimesOut(p) == pc[p] = "lock" /\ ~LockFree /\ Exits(p, "nonzero")

SaveBody(p) ==
  /\ pc[p] = "saveBody"
  /\ body' = got[p]
  /\ Moves
  /\ Proceeds(p, "saveMeta")
  /\ UNCHANGED <<upstream, meta, clearing, lock, loading, running, torn>>

SaveMeta(p) ==
  /\ pc[p] = "saveMeta"
  /\ meta' = tag[p]
  /\ lock' = IF lock = p THEN None ELSE lock
  /\ Moves
  /\ tag' = [tag EXCEPT ![p] = None]
  /\ Proceeds(p, "parse")
  /\ UNCHANGED <<upstream, body, clearing, cached, etag, got, answered, running, torn>>

(* Either write may fail, which nobody catches. *)
SaveFails(p) == pc[p] \in {"saveBody", "saveMeta"} /\ Exits(p, "nonzero")

(* An entry with a slug and a prompt is left, and the prompt can be read. *)
CatalogUsable(v) == v \in Usable

(* A catalog without a usable entry is refused, though it has been cached. *)
Parse(p) ==
  /\ pc[p] = "parse"
  /\ \/ /\ CatalogUsable(got[p])
        /\ Proceeds(p, "grok")
        /\ UNCHANGED <<upstream, cache, lock, loading, running, moved, torn>>
     \/ ~CatalogUsable(got[p]) /\ Exits(p, "nonzero")

(* The pinned model is listed, selectable, and not superseded. *)
ModelFits(v) == v \in Selects

(* The Grok catalog is pinned when it cannot be fetched: nothing here ends the process. *)
PrewarmGrok(p) ==
  /\ pc[p] = "grok"
  /\ Proceeds(p, "build")
  /\ UNCHANGED <<upstream, cache, lock, loading, running, moved, torn>>

(* The Codex client insists on the model; the others find out with the first request. *)
ClientMade(p) == got[p] = None \/ ModelFits(got[p])

(* The nodes are built; or the model, the memory tools, a login or the broker is missing. *)
Build(p) ==
  /\ pc[p] = "build"
  /\ \/ /\ ClientMade(p)
        /\ Proceeds(p, "serving")
        /\ UNCHANGED <<upstream, cache, lock, loading, running, moved, torn>>
     \/ Exits(p, "nonzero")

(***************************************************************************)
(* Run and exit                                                             *)
(***************************************************************************)

(* The worker's boot fails; or Worker.start ends without a reason. *)
WorkerEnds(p) ==
  /\ pc[p] = "serving" /\ worker[p] = "pending"
  /\ \E fate \in {"crashed", "returned"} : worker' = [worker EXCEPT ![p] = fate]
  /\ UNCHANGED <<upstream, cache, lock, pc, loading, signal, exit, moved, torn>>

Signal(p) ==
  /\ pc[p] = "serving"
  /\ signal' = [signal EXCEPT ![p] = TRUE]
  /\ UNCHANGED <<upstream, cache, lock, pc, loading, worker, exit, moved, torn>>

(* Mutant: a signal is always a clean end. *)
Bug_Verdict(p) == IF signal[p] THEN "zero" ELSE "nonzero"

(* _select_exit_exception: a crash wins over a signal, and an end without one is an error. *)
Verdict(p) == IF worker[p] = "crashed" \/ ~signal[p] THEN "nonzero" ELSE "zero"

(* run_worker_until_signal wakes, decides, and then drains. *)
Wake(p) ==
  /\ pc[p] = "serving"
  /\ worker[p] # "pending" \/ signal[p]
  /\ Proceeds(p, "draining")
  /\ exit' = [exit EXCEPT ![p] = Verdict(p)]
  /\ UNCHANGED <<upstream, cache, lock, loading, worker, signal, moved, torn>>

(* Worker.stop returns, or raises. *)
Drained(p) == pc[p] = "draining" /\ \E code \in {exit[p], "nonzero"} : Exits(p, code)

(* Before the handlers are there, Ctrl-C cancels what is awaited and is a clean end. *)
Interrupt(p) ==
  /\ pc[p] \in {"get", "grok", "build"}
  /\ Dies(p, "zero")
  /\ signal' = [signal EXCEPT ![p] = TRUE]
  /\ UNCHANGED worker

Kill(p) == pc[p] # "down" /\ Exits(p, "nonzero")

(***************************************************************************)
(* Around the processes                                                     *)
(***************************************************************************)

Publish ==
  /\ \E v \in Versions \ {upstream} : upstream' = v
  /\ UNCHANGED <<cache, lock, pc, loading, running, moved, torn>>

(* codex clear-prompts lists the directory, and removes what it has listed; it takes no lock. *)
Clear ==
  /\ clearing = {}
  /\ clearing' = {f \in {"body", "meta"} : IF f = "body" THEN body # None ELSE meta # None}
  /\ UNCHANGED <<upstream, body, meta, lock, pc, loading, running, moved, torn>>

ClearOne ==
  /\ \E f \in clearing :
       /\ clearing' = clearing \ {f}
       /\ body' = IF f = "body" THEN None ELSE body
       /\ meta' = IF f = "meta" THEN None ELSE meta
  /\ Moves
  /\ UNCHANGED <<upstream, lock, pc, loading, running, torn>>

ProcessNext ==
  \/ \E p \in Processes :
       \/ Boot(p) \/ LoadBody(p) \/ LoadMeta(p)
       \/ GetFails(p) \/ Get200(p) \/ Get304(p)
       \/ Lock(p) \/ LockTimesOut(p) \/ SaveBody(p) \/ SaveMeta(p) \/ SaveFails(p)
       \/ Parse(p) \/ PrewarmGrok(p) \/ Build(p)
       \/ WorkerEnds(p) \/ Signal(p) \/ Wake(p) \/ Drained(p) \/ Interrupt(p) \/ Kill(p)
  \/ Publish \/ Clear \/ ClearOne

ProcessSpec == ProcessInit /\ [][ProcessNext]_processVars

(***************************************************************************)
(* Properties                                                               *)
(***************************************************************************)

(* What a process goes on with, when upstream has answered it with a catalog or with "not        *)
(* modified", is what upstream published then: no order of loads, saves and clears of several    *)
(* processes makes a cached body pass for another version (prompt_cache.py:11), unless a load     *)
(* overlapped a save or a clear, or a save was left half done.                                   *)
AnswerCurrent ==
  \A p \in Processes : torn \/ answered[p] = None \/ got[p] = answered[p]

(* An agent process that ends with status zero was told to stop, and its worker had not crashed  *)
(* when it woke (_worker_runtime.py:60).                                                         *)
CleanExit ==
  [][\A p \in Processes :
       pc[p] # "down" /\ pc'[p] = "down" /\ exit'[p] = "zero" =>
         signal'[p] /\ worker[p] # "crashed"]_processVars
===============================================================================
