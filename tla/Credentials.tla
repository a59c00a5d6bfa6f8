------------------------------ MODULE Credentials ------------------------------
(***************************************************************************)
(* The cached xAI Grok session: one JSON file that every agent process and  *)
(* the calfkit-auth commands share (providers/grok).                        *)
(*                                                                         *)
(* xAI rotates refresh tokens and takes each only once, so the read, the    *)
(* exchange and the write of a refresh run under a file lock.  Login and    *)
(* logout write the file without it.  A caller is one model client (whose   *)
(* asyncio lock lets one request at a time resolve its bearer) or one run   *)
(* of a command.                                                            *)
(***************************************************************************)
EXTENDS Naturals

CONSTANTS Callers,
          MaxLogins,           \* bound on the logins
          MaxTurns             \* bound on the rotations of one login's token

ASSUME CredentialsAssumption == MaxLogins \in Nat /\ MaxTurns \in Nat

NoCaller == "nobody"
ASSUME NoCallerAssumption == NoCaller \notin Callers

Grants == [login : 1..MaxLogins, turn : 0..MaxTurns]
NoGrant == [login |-> 0, turn |-> 0]
NoFile == [kind |-> "absent", grant |-> NoGrant, expiring |-> FALSE]
Quarantined == [kind |-> "quarantined", grant |-> NoGrant, expiring |-> FALSE]

Answers == {"none", "rotated", "kept", "headless", "denied", "refused"}

VARIABLES
  file,      \* xai_oauth.json: its kind, its refresh token, whether the access token is expiring
  lock,      \* who holds xai_oauth.lock
  pc,        \* where each caller stands
  job,       \* what each caller is: "request", "refresh" or "login"
  mem,       \* the refresh token a caller works with
  answer,    \* the token endpoint's answer to a caller
  logins,    \* how many device logins the server has granted
  live,      \* the refresh tokens that the server still takes
  closed,    \* the tokens it has exchanged or refused: history, for the properties
  excused    \* those whose end a fault kept from the file: history, for the properties

server == <<logins, live, closed>>
vars == <<file, lock, pc, job, mem, answer, server, excused>>

Critical == {"holding", "asking", "answered", "saving", "mourning", "burying"}

TypeOK ==
  /\ file \in [kind : {"usable"}, grant : Grants, expiring : BOOLEAN] \union {NoFile, Quarantined}
  /\ lock \in Callers \union {NoCaller}
  /\ pc \in [Callers -> {"idle", "waiting", "approving", "keeping"} \union Critical]
  /\ job \in [Callers -> {"request", "refresh", "login"}]
  /\ mem \in [Callers -> Grants \union {NoGrant}]
  /\ answer \in [Callers -> Answers]
  /\ logins \in 0..MaxLogins
  /\ live \subseteq Grants
  /\ closed \subseteq Grants
  /\ excused \subseteq Grants

Init ==
  /\ file = NoFile
  /\ lock = NoCaller
  /\ pc = [c \in Callers |-> "idle"]
  /\ job = [c \in Callers |-> "request"]
  /\ mem = [c \in Callers |-> NoGrant]
  /\ answer = [c \in Callers |-> "none"]
  /\ logins = 0
  /\ live = {}
  /\ closed = {}
  /\ excused = {}

Usable(f) == f.kind = "usable"

(* What a read of the file may find: an unreadable file reads as logged out. *)
Reads == {file, NoFile}

NeedsRefresh(j, f) == j = "refresh" \/ f.expiring

Rotated(g) == [g EXCEPT !.turn = @ + 1]

Goto(c, place) == pc' = [pc EXCEPT ![c] = place]

(* Where an auth error takes a caller: a login goes on to the device flow. *)
Fallback(c) == IF job[c] = "login" THEN "approving" ELSE "idle"

(* Mutant: filelock's thread-local state; the release on the event loop's thread does nothing. *)
Bug_Release(c) == UNCHANGED lock

(* The finally of resolve_credentials: a lock this caller holds is released. *)
Release(c) == lock' = IF lock = c THEN NoCaller ELSE lock

(* resolve_credentials returns, or raises: its locals are gone. *)
Ends(c, place) ==
  /\ Goto(c, place)
  /\ Release(c)
  /\ mem' = [mem EXCEPT ![c] = NoGrant]
  /\ answer' = [answer EXCEPT ![c] = "none"]

(* A fault at c: if its token is spent already, the file will not say so. *)
Excuse(c) == excused' = excused \union ({mem[c]} \intersect closed)

(***************************************************************************)
(* resolve_credentials                                                      *)
(***************************************************************************)

(* The first read: logged out, fresh enough, or off to the lock. *)
Resolve(c, j) ==
  /\ pc[c] = "idle"
  /\ job' = [job EXCEPT ![c] = j]
  /\ \E f \in Reads :
       IF Usable(f) /\ NeedsRefresh(j, f)
       THEN Goto(c, "waiting") /\ mem' = [mem EXCEPT ![c] = f.grant]
       ELSE Goto(c, IF ~Usable(f) /\ j = "login" THEN "approving" ELSE "idle") /\ UNCHANGED mem
  /\ UNCHANGED <<file, lock, answer, server, excused>>

Acquire(c) ==
  /\ pc[c] = "waiting"
  /\ lock = NoCaller
  /\ lock' = c
  /\ Goto(c, "holding")
  /\ UNCHANGED <<file, job, mem, answer, server, excused>>

(* Thirty seconds behind another holder. *)
AcquireTimesOut(c) ==
  /\ pc[c] = "waiting"
  /\ lock # NoCaller
  /\ Ends(c, Fallback(c))
  /\ UNCHANGED <<file, job, server, excused>>

(* Mutant: the exchange uses the token that was read before the wait. *)
Bug_Reread(c, f) == mem[c]

(* creds, read again under the lock. *)
Reread(c, f) == f.grant

(* The second look: another holder may have refreshed, or quarantined, in the meantime. *)
Recheck(c) ==
  /\ pc[c] = "holding"
  /\ \E f \in Reads :
       IF Usable(f) /\ NeedsRefresh(job[c], f)
       THEN /\ Goto(c, "asking")
            /\ mem' = [mem EXCEPT ![c] = Reread(c, f)]
            /\ UNCHANGED <<lock, answer>>
       ELSE Ends(c, IF Usable(f) THEN "idle" ELSE Fallback(c))
  /\ UNCHANGED <<file, job, server, excused>>

(***************************************************************************)
(* _refresh                                                                 *)
(***************************************************************************)

(* The token endpoint takes the token and rotates it, or keeps it, or refuses a dead one.  An    *)
(* answer without an access token may have rotated the token or not; denied, a tier without      *)
(* access or an outage, has not.                                                                 *)
Exchange(c) ==
  /\ pc[c] = "asking"
  /\ LET g == mem[c]
     IN \/ /\ g \in live /\ g.turn < MaxTurns
           /\ \E a \in {"rotated", "headless"} : answer' = [answer EXCEPT ![c] = a]
           /\ live' = (live \ {g}) \union {Rotated(g)}
           /\ closed' = closed \union {g}
        \/ /\ g \in live
           /\ answer' = [answer EXCEPT ![c] = "kept"]
           /\ UNCHANGED <<live, closed>>
        \/ /\ g \notin live
           /\ answer' = [answer EXCEPT ![c] = "refused"]
           /\ closed' = closed \union {g}
           /\ UNCHANGED live
        \/ /\ \E a \in {"denied", "headless"} : answer' = [answer EXCEPT ![c] = a]
           /\ UNCHANGED <<live, closed>>
  /\ Goto(c, "answered")
  /\ UNCHANGED <<file, lock, job, mem, logins, excused>>

(* The request or its answer is lost, comes after twenty seconds, or is no JSON.                 *)
Lost(c) ==
  /\ pc[c] \in {"asking", "answered"}
  /\ Ends(c, Fallback(c))
  /\ Excuse(c)
  /\ UNCHANGED <<file, job, server>>

(* Mutant: every failed refresh quarantines the session. *)
Bug_ReloginRequired(a) == a \notin {"rotated", "kept"}

(* GrokAuthError.relogin_required, as refresh_tokens sets it. *)
ReloginRequired(a) == a \in {"refused", "headless"}

(* The answer: tokens to save, a dead session to quarantine, or an error that keeps the file. *)
Take(c) ==
  /\ pc[c] = "answered"
  /\ CASE answer[c] \in {"rotated", "kept"} -> Goto(c, "saving") /\ UNCHANGED <<lock, mem, answer>>
       [] ReloginRequired(answer[c]) -> Goto(c, "mourning") /\ UNCHANGED <<lock, mem, answer>>
       [] OTHER -> Ends(c, Fallback(c))
  /\ UNCHANGED <<file, job, server, excused>>

Updated(c) == IF answer[c] = "rotated" THEN Rotated(mem[c]) ELSE mem[c]

(* save_credentials: the file is replaced whole, by the session this caller read. *)
Save(c) ==
  /\ pc[c] = "saving"
  /\ file' = [kind |-> "usable", grant |-> Updated(c), expiring |-> FALSE]
  /\ Ends(c, "idle")
  /\ UNCHANGED <<job, server, excused>>

(* xai_refresh_persist_failed: the rotated token is lost. *)
SaveFails(c) ==
  /\ pc[c] = "saving"
  /\ Excuse(c)
  /\ Ends(c, Fallback(c))
  /\ UNCHANGED <<file, job, server>>

(* quarantine_credentials reads the file; with nothing there it writes nothing. *)
Mourn(c) ==
  /\ pc[c] = "mourning"
  /\ \E f \in Reads :
       IF f = NoFile
       THEN Ends(c, Fallback(c)) /\ Excuse(c)
       ELSE Goto(c, "burying") /\ UNCHANGED <<lock, mem, answer, excused>>
  /\ UNCHANGED <<file, job, server>>

(* It writes what it read back without its tokens; a full disk is suppressed. *)
Bury(c) ==
  /\ pc[c] = "burying"
  /\ \/ file' = Quarantined /\ UNCHANGED excused
     \/ UNCHANGED file /\ Excuse(c)
  /\ Ends(c, Fallback(c))
  /\ UNCHANGED <<job, server>>

(***************************************************************************)
(* The commands, and what happens around them                               *)
(***************************************************************************)

(* login --force skips the cached session. *)
ForceLogin(c) ==
  /\ pc[c] = "idle"
  /\ job' = [job EXCEPT ![c] = "login"]
  /\ Goto(c, "approving")
  /\ UNCHANGED <<file, lock, mem, answer, server, excused>>

(* poll_device_token: the user approves. *)
Approve(c) ==
  /\ pc[c] = "approving"
  /\ logins < MaxLogins
  /\ logins' = logins + 1
  /\ mem' = [mem EXCEPT ![c] = [login |-> logins + 1, turn |-> 0]]
  /\ live' = live \union {[login |-> logins + 1, turn |-> 0]}
  /\ Goto(c, "keeping")
  /\ UNCHANGED <<file, lock, job, answer, closed, excused>>

(* The user refuses, the code expires, or a poll fails. *)
GiveUp(c) ==
  /\ pc[c] = "approving"
  /\ Ends(c, "idle")
  /\ UNCHANGED <<file, job, server, excused>>

(* _cmd_login saves, without the lock; or the disk refuses. *)
Keep(c) ==
  /\ pc[c] = "keeping"
  /\ \/ file' = [kind |-> "usable", grant |-> mem[c], expiring |-> FALSE]
     \/ UNCHANGED file
  /\ Ends(c, "idle")
  /\ UNCHANGED <<job, server, excused>>

(* _cmd_logout deletes the file, without the lock. *)
Logout(c) ==
  /\ pc[c] = "idle"
  /\ file' = NoFile
  /\ UNCHANGED <<lock, pc, job, mem, answer, server, excused>>

(* The process dies, or the call is cancelled: the system frees the lock, or the finally does. *)
Crash(c) ==
  /\ pc[c] # "idle"
  /\ IF pc[c] \in Critical THEN Excuse(c) ELSE UNCHANGED excused
  /\ Ends(c, "idle")
  /\ UNCHANGED <<file, job, server>>

(* The access token comes within the refresh window of its expiry. *)
Expire ==
  /\ Usable(file) /\ ~file.expiring
  /\ file' = [file EXCEPT !.expiring = TRUE]
  /\ UNCHANGED <<lock, pc, job, mem, answer, server, excused>>

(* xAI ends a login. *)
Revoke(g) ==
  /\ g \in live
  /\ live' = live \ {g}
  /\ UNCHANGED <<file, lock, pc, job, mem, answer, logins, closed, excused>>

(* What a caller inside the critical section does by itself. *)
Advance(c) ==
  \/ Recheck(c) \/ Exchange(c) \/ Lost(c) \/ Take(c)
  \/ Save(c) \/ SaveFails(c) \/ Mourn(c) \/ Bury(c)

Next ==
  \/ \E c \in Callers :
       \/ \E j \in {"request", "refresh", "login"} : Resolve(c, j)
       \/ Acquire(c) \/ AcquireTimesOut(c)
       \/ Advance(c)
       \/ ForceLogin(c) \/ Approve(c) \/ GiveUp(c) \/ Keep(c)
       \/ Logout(c) \/ Crash(c)
  \/ Expire
  \/ \E g \in Grants : Revoke(g)

(* A caller that holds the lock goes on: the exchange has a timeout, the rest are disk accesses. *)
Spec == Init /\ [][Next]_vars
FairSpec == Spec /\ \A c \in Callers : WF_vars(Advance(c))

(***************************************************************************)
(* Properties                                                               *)
(***************************************************************************)

(* A refresh token that xAI has exchanged or refused is never sent to it again, by this caller   *)
(* or another, unless a crash, a lost answer or a failed write kept the outcome from the file    *)
(* (_refresh, under the lock of resolve_credentials).                                            *)
NoReplay ==
  \A c \in Callers : pc[c] = "asking" /\ mem[c] \in closed => mem[c] \in excused

(* A write of another login's outcome, begun before the login now in the file was saved. *)
Crosses(c) ==
  /\ pc[c] \in {"saving", "burying"}
  /\ mem[c].login # file.grant.login

(* A quarantine over an answer without an access token, whether xAI still takes the token or not.*)
Headless(c) == pc[c] = "burying" /\ answer[c] = "headless"

(* A session leaves the file only when somebody logs out or in, when xAI no longer takes its     *)
(* token, when its refresh is answered without an access token, or when a refresh of another     *)
(* login ends over it; and within a login the file never goes back to an older token.  In        *)
(* particular no outage, lost answer or tier denial ends it (_refresh).                          *)
SessionKept ==
  [][Usable(file) =>
       \/ file'.grant.login = file.grant.login /\ file'.grant.turn >= file.grant.turn
       \/ file.grant \notin live
       \/ \E c \in Callers : Logout(c) \/ Keep(c) \/ Headless(c) \/ Crosses(c)]_vars

(* The refresh lock always comes free again (the finally of resolve_credentials; thread_local    *)
(* = False in credential_lock).                                                                  *)
LockComesFree ==
  \A c \in Callers : lock = c ~> lock # c

=============================================================================
