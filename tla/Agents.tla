-------------------------------- MODULE Agents --------------------------------
(***************************************************************************)
(* The agents' definition files and the commands that change them           *)
(* (calfcord/agents/md_writer.py, cli/_agents.py, cli/agent_*.py).          *)
(*                                                                         *)
(* Nothing locks a definition: a command reads the file, asks the operator,  *)
(* reads it again and replaces it whole.  A definition's data is abstracted   *)
(* to whose it is, the name it declares, and three parts that are edited     *)
(* apart from each other, each of which has the value it was created with or *)
(* another.                                                                 *)
(***************************************************************************)
EXTENDS Naturals, FiniteSets

CONSTANTS Names, Seed,         \* agent names; Seed is "assistant"
          Sessions,            \* terminals, each running one command at a time
          MaxCommands          \* bound on the commands that are run, and on the edits by hand

ASSUME AgentsAssumption ==
  Seed \in Names /\ MaxCommands \in Nat /\ IsFiniteSet(Names) /\ IsFiniteSet(Sessions)

(* The first agent is the starter; a command defines one more at most. *)
MaxBorn == MaxCommands + 1
Edits == {"text", "grants", "body"}
Docs == [who : 1..MaxBorn, name : Names, text : 0..1, grants : 0..1, body : 0..1, sound : BOOLEAN]
NoDoc == [who |-> 0, name |-> Seed, text |-> 0, grants |-> 0, body |-> 0, sound |-> FALSE]
Fresh(w, n) == [who |-> w, name |-> n, text |-> 0, grants |-> 0, body |-> 0, sound |-> TRUE]

VARIABLES
  files,     \* agents/<name>.md
  op,        \* what each session runs
  at,        \* and how far it is
  name, to,  \* the agent it is about; the new name
  edit,      \* the part it rewrites
  seen,      \* the definition it read last
  left,      \* the commands still to be run
  born,      \* agents ever defined: history
  removed,   \* agents that an operator removed, or the first run took for the seed: history
  raced      \* a write or a removal hit what its session had not seen: history

session == <<op, at, name, to, edit, seen>>
history == <<born, removed, raced>>
vars == <<files, session, left, history>>

Ops == {"none", "create", "init", "field", "tools", "prompt", "rename", "delete"}
Steps == {"idle", "load", "write", "exists", "make", "check", "prune", "unlink", "rollback"}

TypeOK ==
  /\ files \in [Names -> Docs \union {NoDoc}]
  /\ op \in [Sessions -> Ops] /\ at \in [Sessions -> Steps]
  /\ name \in [Sessions -> Names] /\ to \in [Sessions -> Names]
  /\ edit \in [Sessions -> Edits] /\ seen \in [Sessions -> Docs \union {NoDoc}]
  /\ left \in 0..MaxCommands
  /\ born \in 1..MaxBorn /\ removed \subseteq 1..MaxBorn /\ raced \in BOOLEAN

(* An installation is seeded with the starter. *)
Init ==
  /\ files = [n \in Names |-> IF n = Seed THEN Fresh(1, Seed) ELSE NoDoc]
  /\ op = [s \in Sessions |-> "none"]
  /\ at = [s \in Sessions |-> "idle"]
  /\ name = [s \in Sessions |-> Seed]
  /\ to = [s \in Sessions |-> Seed]
  /\ edit = [s \in Sessions |-> "text"]
  /\ seen = [s \in Sessions |-> NoDoc]
  /\ left = MaxCommands
  /\ born = 1
  /\ removed = {}
  /\ raced = FALSE

Exists(n) == files[n] # NoDoc

(* The file can be parsed. *)
Parses(n) == Exists(n) /\ files[n].sound

(* The starter as it was seeded, by its description alone, which is also what the wizard offers. *)
IsPristineSeed == Parses(Seed) /\ files[Seed].text = 0

(***************************************************************************)
(* Steps of a session                                                       *)
(***************************************************************************)

Goto(s, step) ==
  /\ at' = [at EXCEPT ![s] = step]
  /\ UNCHANGED <<op, name, to, edit, seen, left>>

(* The command ends, with or without an error. *)
Ends(s) ==
  /\ op' = [op EXCEPT ![s] = "none"]
  /\ at' = [at EXCEPT ![s] = "idle"]
  /\ name' = [name EXCEPT ![s] = Seed]
  /\ to' = [to EXCEPT ![s] = Seed]
  /\ edit' = [edit EXCEPT ![s] = "text"]
  /\ seen' = [seen EXCEPT ![s] = NoDoc]
  /\ UNCHANGED left

Opens(s, o, n, m, e, step) ==
  /\ at[s] = "idle" /\ left > 0
  /\ left' = left - 1
  /\ op' = [op EXCEPT ![s] = o]
  /\ at' = [at EXCEPT ![s] = step]
  /\ name' = [name EXCEPT ![s] = n]
  /\ to' = [to EXCEPT ![s] = m]
  /\ edit' = [edit EXCEPT ![s] = e]
  /\ seen' = [seen EXCEPT ![s] = files[n]]
  /\ UNCHANGED <<files, history>>

(* agent create: the questions, up to write_agent; that an agent exists has been confirmed. *)
OpenCreate(s, n) == Opens(s, "create", n, n, "text", "exists")

(* init walks the same questions, and sets up the first agent. *)
OpenInit(s, n) == Opens(s, "init", n, n, "text", "exists")

(* agent set, the edit menu, the tools editor: the file is read, and the operator asked. *)
OpenEdit(s, n) ==
  /\ Parses(n)
  /\ \/ Opens(s, "field", n, n, "text", "load")
     \/ Opens(s, "tools", n, n, "grants", "load")

(* edit_system_prompt: the editor is open on the body as it was. *)
OpenPrompt(s, n) == Parses(n) /\ Opens(s, "prompt", n, n, "body", "load")

(* rename_agent: the source is there, the target is not. *)
OpenRename(s, n, m) == Exists(n) /\ ~Exists(m) /\ n # m /\ Opens(s, "rename", n, m, "text", "load")

(* run_delete, and the operator confirms. *)
OpenDelete(s, n) == Exists(n) /\ Opens(s, "delete", n, n, "text", "unlink")

(* write_agent: an agent that exists is updated, in two writes; its memory must be readable. *)
Dispatch(s) ==
  /\ at[s] = "exists"
  /\ \/ ~Exists(name[s]) /\ Goto(s, "make")
     \/ Parses(name[s]) /\ Goto(s, "load")
     \/ Exists(name[s]) /\ ~Parses(name[s]) /\ Ends(s)
  /\ UNCHANGED <<files, history>>

(* A write finds what its session expects, or the session has lost a race. *)
Races(n, expected) == raced' = (raced \/ files[n] # expected)

(* A new agent, validated in memory and put in place whole. *)
Make(s) ==
  /\ at[s] = "make"
  /\ born' = born + 1
  /\ files' = [files EXCEPT ![name[s]] = Fresh(born + 1, name[s])]
  /\ Races(name[s], NoDoc)
  /\ IF op[s] = "init" /\ name[s] # Seed THEN Goto(s, "check") ELSE Ends(s)
  /\ UNCHANGED removed

(* Mutant: the starter goes whenever another agent is set up. *)
Bug_Prunes == Exists(Seed)

(* prune_seed: only a starter that has the description of the seed. *)
Prunes == IsPristineSeed

CheckSeed(s) ==
  /\ at[s] = "check"
  /\ \/ /\ Prunes
        /\ at' = [at EXCEPT ![s] = "prune"]
        /\ seen' = [seen EXCEPT ![s] = files[Seed]]
        /\ UNCHANGED <<op, name, to, edit, left>>
     \/ ~Prunes /\ Ends(s)
  /\ UNCHANGED <<files, history>>

Prune(s) ==
  /\ at[s] = "prune"
  /\ files' = [files EXCEPT ![Seed] = NoDoc]
  /\ removed' = IF IsPristineSeed THEN removed \union {files[Seed].who} ELSE removed
  /\ Races(Seed, seen[s])
  /\ Ends(s)
  /\ UNCHANGED born

(* Mutant: the file as it was before the operator was asked. *)
Bug_Loads(s) == seen[s]

(* md_writer loads the file afresh. *)
Loads(s) == files[name[s]]

Load(s) ==
  /\ at[s] = "load"
  /\ \/ /\ Parses(name[s])
        /\ seen' = [seen EXCEPT ![s] = Loads(s)]
        /\ at' = [at EXCEPT ![s] = "write"]
        /\ UNCHANGED <<op, name, to, edit, left>>
     \/ ~Parses(name[s]) /\ Ends(s)
  /\ UNCHANGED <<files, history>>

(* _validate_and_write: the part is set, the rest is as it was read. *)
Rewrites(s, part) ==
  /\ at[s] = "write" /\ op[s] # "rename" /\ edit[s] = part
  /\ \E v \in 0..1 : files' = [files EXCEPT ![name[s]] = [seen[s] EXCEPT ![part] = v]]
  /\ Races(name[s], seen[s])
  /\ UNCHANGED <<born, removed>>

(* A field; what create and init update goes on with the grants. *)
WriteField(s) ==
  /\ Rewrites(s, "text")
  /\ IF op[s] \in {"create", "init"}
     THEN /\ at' = [at EXCEPT ![s] = "load"]
          /\ edit' = [edit EXCEPT ![s] = "grants"]
          /\ UNCHANGED <<op, name, to, seen, left>>
     ELSE Ends(s)

WriteGrants(s) == Rewrites(s, "grants") /\ Ends(s)

WritePrompt(s) == Rewrites(s, "body") /\ Ends(s)


(* _rewritten_md *)
Rewritten(doc, m) == [doc EXCEPT !.name = m]

(* rename_agent puts the new file in place first. *)
WriteRenamed(s) ==
  /\ at[s] = "write" /\ op[s] = "rename"
  /\ files' = [files EXCEPT ![to[s]] = Rewritten(seen[s], to[s])]
  /\ Races(to[s], NoDoc)
  /\ Goto(s, "unlink")
  /\ UNCHANGED <<born, removed>>

(* Only then the old one goes; if it cannot, or is gone already, the new one is taken back. *)
UnlinkRenamed(s) ==
  /\ at[s] = "unlink" /\ op[s] = "rename"
  /\ \/ /\ Exists(name[s])
        /\ files' = [files EXCEPT ![name[s]] = NoDoc]
        /\ Races(name[s], seen[s])
        /\ Ends(s)
     \/ Goto(s, "rollback") /\ UNCHANGED <<files, raced>>
  /\ UNCHANGED <<born, removed>>

RollBack(s) ==
  /\ at[s] = "rollback"
  /\ files' = [files EXCEPT ![to[s]] = NoDoc]
  /\ raced' = (raced \/ files[to[s]] \notin {NoDoc, Rewritten(seen[s], to[s])})
  /\ Ends(s)
  /\ UNCHANGED <<born, removed>>

Unlink(s) ==
  /\ at[s] = "unlink" /\ op[s] = "delete"
  /\ files' = [files EXCEPT ![name[s]] = NoDoc]
  /\ removed' = removed \union ({files[name[s]].who} \ {0})
  /\ Ends(s)
  /\ UNCHANGED <<born, raced>>

(* Every write and removal may fail, and then has changed nothing; the process may be killed.   *)
Aborts(s) ==
  /\ at[s] # "idle"
  /\ Ends(s)
  /\ UNCHANGED <<files, history>>

(* An operator's own editor: the file may no longer parse, or parse again. *)
HandEdit(n) ==
  /\ Exists(n) /\ left > 0
  /\ left' = left - 1
  /\ files' = [files EXCEPT ![n].sound = ~@]
  /\ UNCHANGED <<session, history>>

Next ==
  \/ \E s \in Sessions :
       \/ \E n \in Names : OpenCreate(s, n) \/ OpenInit(s, n) \/ OpenEdit(s, n) \/ OpenPrompt(s, n)
       \/ \E n \in Names : OpenDelete(s, n)
       \/ \E n, m \in Names : OpenRename(s, n, m)
       \/ Dispatch(s) \/ Make(s) \/ CheckSeed(s) \/ Prune(s)
       \/ Load(s) \/ WriteField(s) \/ WriteGrants(s) \/ WritePrompt(s)
       \/ WriteRenamed(s) \/ UnlinkRenamed(s) \/ RollBack(s)
       \/ Unlink(s) \/ Aborts(s)
  \/ \E n \in Names : HandEdit(n)

Spec == Init /\ [][Next]_vars

(***************************************************************************)
(* Properties                                                               *)
(***************************************************************************)

(* An agent that was defined has a file, until an operator deletes it or the first run prunes the *)
(* starter, if its description is the seed's, whatever else of it was edited: no rename loses it, *)
(* whichever of its steps fails or is its last (agent_lifecycle.py:181), unless a command         *)
(* overwrote or removed what another had just written.                                            *)
AgentKept ==
  \A w \in 1..born : raced \/ w \in removed \/ \E n \in Names : files[n].who = w /\ files[n].name = n

(* A part of a definition changes only by a command that edits it, however long another command  *)
(* had the file open in its editor or its menu; only between md_writer's own read and its write  *)
(* can the edit of another command be lost (md_writer.py:97).                                    *)
EditKept ==
  [][\A n \in Names, e \in Edits :
       files[n].who = files'[n].who /\ files[n][e] # files'[n][e] =>
         \/ \E s \in Sessions : at[s] = "write" /\ at'[s] # "write" /\ name[s] = n /\ edit[s] = e
         \/ raced']_vars
===============================================================================
