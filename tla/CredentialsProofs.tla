--------------------------- MODULE CredentialsProofs ---------------------------
(***************************************************************************)
(* What the cached Grok session promises, for any number of callers, logins *)
(* and rotations: no token is sent twice, and no session is thrown away.    *)
(***************************************************************************)
EXTENDS Credentials, TLAPS

(* Past the second read of the file, a caller works with the token it found there. *)
Working == {"asking", "answered", "saving", "mourning", "burying"}

(* After the exchange, and before its outcome is in the file. *)
Unwritten == {"answered", "saving", "mourning", "burying"}

(* The file lock: a caller inside the critical section is the only one. *)
Alone == \A c \in Callers : pc[c] \in Critical => lock = c

InHand == \A c \in Callers : pc[c] \in Working \union {"waiting", "keeping"} => mem[c] \in Grants

(* No token is known of a login that has not been granted. *)
Numbered ==
  /\ \A g \in live \union closed : g.login <= logins
  /\ file.grant.login <= logins
  /\ \A c \in Callers : mem[c].login <= logins

(* A login has one live token, ... *)
OneLive == \A g, h \in live : g.login = h.login => g = h

(* ... which has not been exchanged yet, ... *)
Spent == \A g \in live : g \notin closed

(* ... and none of that login is newer. *)
Newest ==
  \A g \in live :
    /\ \A h \in closed : h.login = g.login => h.turn <= g.turn
    /\ file.grant.login = g.login => file.grant.turn <= g.turn
    /\ \A c \in Callers : mem[c].login = g.login =>
         /\ mem[c].turn <= g.turn
         /\ pc[c] \in {"answered", "saving"} /\ answer[c] = "rotated" => mem[c].turn < g.turn

(* What the answer of the endpoint says of the token that was sent. *)
Outcome ==
  \A c \in Callers :
    /\ pc[c] = "answered" => answer[c] # "none"
    /\ pc[c] = "saving" => answer[c] \in {"rotated", "kept"}
    /\ pc[c] \in {"mourning", "burying"} =>
         answer[c] = "headless" \/ (answer[c] = "refused" /\ mem[c] \in closed)
    /\ pc[c] \in {"answered", "saving"} =>
         /\ answer[c] = "rotated" =>
              mem[c].turn < MaxTurns /\ mem[c] \in closed /\ Rotated(mem[c]) \notin closed
         /\ answer[c] = "kept" => mem[c] \notin closed
         /\ answer[c] = "denied" /\ mem[c] \in closed => mem[c] \in excused
         /\ answer[c] = "refused" => mem[c] \in closed

(* The file holds a token that is spent only while the caller that spent it is at work. *)
FileTold ==
  Usable(file) /\ file.grant \in closed /\ file.grant \notin excused =>
    \E c \in Callers : pc[c] \in Unwritten /\ mem[c] = file.grant

(* The token of a login that is not saved yet is known to the command alone. *)
Fresh ==
  \A c \in Callers : pc[c] = "keeping" =>
    /\ mem[c] \notin closed
    /\ file.grant.login # mem[c].login
    /\ \A d \in Callers \ {c} : mem[d].login # mem[c].login

(* Within one login, the file is not ahead of the caller that works on it. *)
NotAhead ==
  \A c \in Callers :
    pc[c] \in Working /\ file.grant.login = mem[c].login => file.grant.turn <= mem[c].turn

CredentialsInv ==
  /\ TypeOK /\ Alone /\ InHand /\ Numbered /\ OneLive /\ Spent
  /\ Newest /\ Outcome /\ NoReplay /\ FileTold /\ Fresh /\ NotAhead

-----------------------------------------------------------------------------
LEMMA TypePreserved ==
    ASSUME CredentialsInv, [Next]_vars
    PROVE  TypeOK'
<1>1. ASSUME NEW c \in Callers, NEW j \in {"request", "refresh", "login"}, Resolve(c, j)
      PROVE  TypeOK'
  BY <1>1, CredentialsAssumption, NoCallerAssumption
  DEF Resolve, Goto, Usable, NeedsRefresh, Reads, CredentialsInv, vars, server, TypeOK,
      Critical, Answers, NoFile, Quarantined, NoGrant, InHand, Working, Outcome, Grants
<1>2. ASSUME NEW c \in Callers, Acquire(c)
      PROVE  TypeOK'
  BY <1>2, CredentialsAssumption, NoCallerAssumption
  DEF Acquire, Goto, CredentialsInv, vars, server, TypeOK, Critical, Answers, NoFile,
      Quarantined, NoGrant, InHand, Working, Outcome, Grants
<1>3. ASSUME NEW c \in Callers, AcquireTimesOut(c)
      PROVE  TypeOK'
  BY <1>3, CredentialsAssumption, NoCallerAssumption
  DEF AcquireTimesOut, Ends, Release, Goto, Fallback, CredentialsInv, vars, server, TypeOK,
      Critical, Answers, NoFile, Quarantined, NoGrant, InHand, Working, Outcome, Grants
<1>4. ASSUME NEW c \in Callers, Recheck(c)
      PROVE  TypeOK'
  BY <1>4, CredentialsAssumption, NoCallerAssumption, SMTT(30)
  DEF Recheck, Ends, Release, Fallback, Goto, Usable, NeedsRefresh, Reads, Reread,
      CredentialsInv, vars, server, TypeOK, Critical, Answers, NoFile, Quarantined, NoGrant,
      InHand, Working, Outcome, Grants
<1>5. ASSUME NEW c \in Callers, Exchange(c)
      PROVE  TypeOK'
  BY <1>5, CredentialsAssumption, NoCallerAssumption
  DEF Exchange, Goto, Rotated, CredentialsInv, vars, server, TypeOK, Critical, Answers, NoFile,
      Quarantined, NoGrant, InHand, Working, Outcome, Grants
<1>6. ASSUME NEW c \in Callers, Lost(c)
      PROVE  TypeOK'
  BY <1>6, CredentialsAssumption, NoCallerAssumption
  DEF Lost, Ends, Release, Goto, Fallback, Excuse, CredentialsInv, vars, server, TypeOK,
      Critical, Answers, NoFile, Quarantined, NoGrant, InHand, Working, Outcome, Grants
<1>7. ASSUME NEW c \in Callers, Take(c)
      PROVE  TypeOK'
  BY <1>7, CredentialsAssumption, NoCallerAssumption
  DEF Take, Ends, Release, Fallback, Goto, ReloginRequired, CredentialsInv, vars, server,
      TypeOK, Critical, Answers, NoFile, Quarantined, NoGrant, InHand, Working, Outcome, Grants
<1>8. ASSUME NEW c \in Callers, Save(c)
      PROVE  TypeOK'
  BY <1>8, CredentialsAssumption, NoCallerAssumption
  DEF Save, Ends, Release, Goto, Updated, Rotated, CredentialsInv, vars, server, TypeOK,
      Critical, Answers, NoFile, Quarantined, NoGrant, InHand, Working, Outcome, Grants
<1>9. ASSUME NEW c \in Callers, SaveFails(c)
      PROVE  TypeOK'
  BY <1>9, CredentialsAssumption, NoCallerAssumption
  DEF SaveFails, Ends, Release, Goto, Fallback, Excuse, CredentialsInv, vars, server, TypeOK,
      Critical, Answers, NoFile, Quarantined, NoGrant, InHand, Working, Outcome, Grants
<1>10. ASSUME NEW c \in Callers, Mourn(c)
      PROVE  TypeOK'
  BY <1>10, CredentialsAssumption, NoCallerAssumption
  DEF Mourn, Ends, Release, Fallback, Excuse, Goto, Reads, CredentialsInv, vars, server, TypeOK,
      Critical, Answers, NoFile, Quarantined, NoGrant, InHand, Working, Outcome, Grants
<1>11. ASSUME NEW c \in Callers, Bury(c)
      PROVE  TypeOK'
  BY <1>11, CredentialsAssumption, NoCallerAssumption
  DEF Bury, Ends, Release, Goto, Fallback, Excuse, CredentialsInv, vars, server, TypeOK,
      Critical, Answers, NoFile, Quarantined, NoGrant, InHand, Working, Outcome, Grants
<1>12. ASSUME NEW c \in Callers, ForceLogin(c)
      PROVE  TypeOK'
  BY <1>12, CredentialsAssumption, NoCallerAssumption
  DEF ForceLogin, Goto, CredentialsInv, vars, server, TypeOK, Critical, Answers, NoFile,
      Quarantined, NoGrant, InHand, Working, Outcome, Grants
<1>13. ASSUME NEW c \in Callers, Approve(c)
      PROVE  TypeOK'
  BY <1>13, CredentialsAssumption, NoCallerAssumption
  DEF Approve, Goto, CredentialsInv, vars, server, TypeOK, Critical, Answers, NoFile,
      Quarantined, NoGrant, InHand, Working, Outcome, Grants
<1>14. ASSUME NEW c \in Callers, GiveUp(c)
      PROVE  TypeOK'
  BY <1>14, CredentialsAssumption, NoCallerAssumption
  DEF GiveUp, Ends, Release, Goto, CredentialsInv, vars, server, TypeOK, Critical, Answers,
      NoFile, Quarantined, NoGrant, InHand, Working, Outcome, Grants
<1>15. ASSUME NEW c \in Callers, Keep(c)
      PROVE  TypeOK'
  <2>1. mem[c] \in Grants
    BY <1>15 DEF Keep, CredentialsInv, InHand
  <2>2. file' \in [kind : {"usable"}, grant : Grants, expiring : BOOLEAN] \union {file}
    <3>1. \A g \in Grants :
            [kind |-> "usable", grant |-> g, expiring |-> FALSE]
              \in [kind : {"usable"}, grant : Grants, expiring : BOOLEAN]
      OBVIOUS
    <3>2. \/ file' = [kind |-> "usable", grant |-> mem[c], expiring |-> FALSE]
          \/ file' = file
      BY <1>15 DEF Keep
    <3> QED
      BY <2>1, <3>1, <3>2
  <2>3. lock' \in Callers \union {NoCaller} /\ UNCHANGED <<job, server, excused>>
    BY <1>15 DEF Keep, Ends, Release, CredentialsInv, TypeOK
  <2>4. /\ pc' = [pc EXCEPT ![c] = "idle"]
        /\ mem' = [mem EXCEPT ![c] = NoGrant]
        /\ answer' = [answer EXCEPT ![c] = "none"]
    BY <1>15 DEF Keep, Ends, Goto
  <2> QED
    BY <2>2, <2>3, <2>4 DEF CredentialsInv, TypeOK, Answers, server
<1>16. ASSUME NEW c \in Callers, Logout(c)
      PROVE  TypeOK'
  BY <1>16, CredentialsAssumption, NoCallerAssumption
  DEF Logout, CredentialsInv, vars, server, TypeOK, Critical, Answers, NoFile, Quarantined,
      NoGrant, InHand, Working, Outcome, Grants
<1>17. ASSUME NEW c \in Callers, Crash(c)
      PROVE  TypeOK'
  BY <1>17, CredentialsAssumption, NoCallerAssumption
  DEF Crash, Ends, Release, Goto, Excuse, CredentialsInv, vars, server, TypeOK, Critical,
      Answers, NoFile, Quarantined, NoGrant, InHand, Working, Outcome, Grants
<1>18. CASE Expire
  <2>1. file' \in [kind : {"usable"}, grant : Grants, expiring : BOOLEAN]
    <3>1. file \in [kind : {"usable"}, grant : Grants, expiring : BOOLEAN]
      BY <1>18 DEF Expire, Usable, CredentialsInv, TypeOK, NoFile, Quarantined
    <3>2. file' = [file EXCEPT !.expiring = TRUE]
      BY <1>18 DEF Expire
    <3> QED
      BY <3>1, <3>2
  <2> QED
    BY <1>18, <2>1 DEF Expire, server, CredentialsInv, TypeOK
<1>19. ASSUME NEW g \in Grants, Revoke(g)
      PROVE  TypeOK'
  BY <1>19, CredentialsAssumption, NoCallerAssumption
  DEF Revoke, CredentialsInv, vars, server, TypeOK, Critical, Answers, NoFile, Quarantined,
      NoGrant, InHand, Working, Outcome, Grants
<1>20. CASE UNCHANGED vars
  BY <1>20, CredentialsAssumption, NoCallerAssumption
  DEF vars, server, CredentialsInv, TypeOK, Critical, Answers, NoFile, Quarantined, NoGrant,
      InHand, Working, Outcome, Grants
<1> QED
  BY <1>1, <1>2, <1>3, <1>4, <1>5, <1>6, <1>7, <1>8, <1>9, <1>10, <1>11, <1>12, <1>13, <1>14,
     <1>15, <1>16, <1>17, <1>18, <1>19, <1>20
  DEF Next, Advance

LEMMA AlonePreserved ==
    ASSUME CredentialsInv, [Next]_vars
    PROVE  Alone'
<1>1. ASSUME NEW c \in Callers,
             \/ (\E j \in {"request", "refresh", "login"} : Resolve(c, j))
             \/ AcquireTimesOut(c) \/ Exchange(c) \/ Lost(c) \/ Save(c) \/ SaveFails(c)
             \/ Bury(c) \/ ForceLogin(c) \/ Approve(c) \/ GiveUp(c) \/ Keep(c) \/ Logout(c)
             \/ Crash(c)
      PROVE  Alone'
  BY <1>1, CredentialsAssumption, NoCallerAssumption
  DEF Resolve, Goto, Usable, NeedsRefresh, Reads, AcquireTimesOut, Ends, Release, Fallback,
      Exchange, Rotated, Lost, Excuse, Save, Updated, SaveFails, Bury, ForceLogin, Approve,
      GiveUp, Keep, Logout, Crash, CredentialsInv, vars, server, TypeOK, Critical, Alone
<1>2. ASSUME NEW c \in Callers, Acquire(c)
      PROVE  Alone'
  BY <1>2, CredentialsAssumption, NoCallerAssumption
  DEF Acquire, Goto, CredentialsInv, vars, server, TypeOK, Critical, Alone
<1>3. ASSUME NEW c \in Callers, Recheck(c)
      PROVE  Alone'
  BY <1>3, CredentialsAssumption, NoCallerAssumption
  DEF Recheck, Ends, Release, Fallback, Goto, Usable, NeedsRefresh, Reads, Reread,
      CredentialsInv, vars, server, TypeOK, Critical, Alone
<1>4. ASSUME NEW c \in Callers, Take(c)
      PROVE  Alone'
  BY <1>4, CredentialsAssumption, NoCallerAssumption
  DEF Take, Ends, Release, Fallback, Goto, ReloginRequired, CredentialsInv, vars, server,
      TypeOK, Critical, Alone
<1>5. ASSUME NEW c \in Callers, Mourn(c)
      PROVE  Alone'
  BY <1>5, CredentialsAssumption, NoCallerAssumption
  DEF Mourn, Ends, Release, Fallback, Excuse, Goto, Reads, CredentialsInv, vars, server, TypeOK,
      Critical, Alone
<1>6. CASE Expire
  BY <1>6, CredentialsAssumption, NoCallerAssumption
  DEF Expire, Usable, CredentialsInv, vars, server, TypeOK, Critical, Alone
<1>7. ASSUME NEW g \in Grants, Revoke(g)
      PROVE  Alone'
  BY <1>7, CredentialsAssumption, NoCallerAssumption
  DEF Revoke, CredentialsInv, vars, server, TypeOK, Critical, Alone
<1>8. CASE UNCHANGED vars
  BY <1>8, CredentialsAssumption, NoCallerAssumption
  DEF vars, server, CredentialsInv, TypeOK, Critical, Alone
<1> QED
  BY <1>1, <1>2, <1>3, <1>4, <1>5, <1>6, <1>7, <1>8 DEF Next, Advance

LEMMA InHandPreserved ==
    ASSUME CredentialsInv, [Next]_vars
    PROVE  InHand'
<1>1. ASSUME NEW c \in Callers, NEW j \in {"request", "refresh", "login"}, Resolve(c, j)
      PROVE  InHand'
  BY <1>1, CredentialsAssumption, NoCallerAssumption
  DEF Resolve, Goto, Usable, NeedsRefresh, Reads, CredentialsInv, vars, server, TypeOK,
      Critical, Answers, NoFile, Quarantined, NoGrant, InHand, Working, Grants
<1>2. ASSUME NEW c \in Callers, Acquire(c)
      PROVE  InHand'
  BY <1>2, CredentialsAssumption, NoCallerAssumption
  DEF Acquire, Goto, CredentialsInv, vars, server, TypeOK, Critical, Answers, NoFile,
      Quarantined, NoGrant, InHand, Working, Grants
<1>3. ASSUME NEW c \in Callers, AcquireTimesOut(c)
      PROVE  InHand'
  BY <1>3, CredentialsAssumption, NoCallerAssumption
  DEF AcquireTimesOut, Ends, Release, Goto, Fallback, CredentialsInv, vars, server, TypeOK,
      Critical, Answers, NoFile, Quarantined, NoGrant, InHand, Working, Grants
<1>4. ASSUME NEW c \in Callers, Recheck(c)
      PROVE  InHand'
  BY <1>4, CredentialsAssumption, NoCallerAssumption
  DEF Recheck, Ends, Release, Fallback, Goto, Usable, NeedsRefresh, Reads, Reread,
      CredentialsInv, vars, server, TypeOK, Critical, Answers, NoFile, Quarantined, NoGrant,
      InHand, Working, Grants
<1>5. ASSUME NEW c \in Callers, Exchange(c)
      PROVE  InHand'
  BY <1>5, CredentialsAssumption, NoCallerAssumption
  DEF Exchange, Goto, Rotated, CredentialsInv, vars, server, TypeOK, Critical, Answers, NoFile,
      Quarantined, NoGrant, InHand, Working, Grants
<1>6. ASSUME NEW c \in Callers, Lost(c)
      PROVE  InHand'
  BY <1>6, CredentialsAssumption, NoCallerAssumption
  DEF Lost, Ends, Release, Goto, Fallback, Excuse, CredentialsInv, vars, server, TypeOK,
      Critical, Answers, NoFile, Quarantined, NoGrant, InHand, Working, Grants
<1>7. ASSUME NEW c \in Callers, Take(c)
      PROVE  InHand'
  BY <1>7, CredentialsAssumption, NoCallerAssumption
  DEF Take, Ends, Release, Fallback, Goto, ReloginRequired, CredentialsInv, vars, server,
      TypeOK, Critical, Answers, NoFile, Quarantined, NoGrant, InHand, Working, Grants
<1>8. ASSUME NEW c \in Callers, Save(c)
      PROVE  InHand'
  BY <1>8, CredentialsAssumption, NoCallerAssumption
  DEF Save, Ends, Release, Goto, Updated, Rotated, CredentialsInv, vars, server, TypeOK,
      Critical, Answers, NoFile, Quarantined, NoGrant, InHand, Working, Grants
<1>9. ASSUME NEW c \in Callers, SaveFails(c)
      PROVE  InHand'
  BY <1>9, CredentialsAssumption, NoCallerAssumption
  DEF SaveFails, Ends, Release, Goto, Fallback, Excuse, CredentialsInv, vars, server, TypeOK,
      Critical, Answers, NoFile, Quarantined, NoGrant, InHand, Working, Grants
<1>10. ASSUME NEW c \in Callers, Mourn(c)
      PROVE  InHand'
  BY <1>10, CredentialsAssumption, NoCallerAssumption
  DEF Mourn, Ends, Release, Fallback, Excuse, Goto, Reads, CredentialsInv, vars, server, TypeOK,
      Critical, Answers, NoFile, Quarantined, NoGrant, InHand, Working, Grants
<1>11. ASSUME NEW c \in Callers, Bury(c)
      PROVE  InHand'
  BY <1>11, CredentialsAssumption, NoCallerAssumption
  DEF Bury, Ends, Release, Goto, Fallback, Excuse, CredentialsInv, vars, server, TypeOK,
      Critical, Answers, NoFile, Quarantined, NoGrant, InHand, Working, Grants
<1>12. ASSUME NEW c \in Callers, ForceLogin(c)
      PROVE  InHand'
  BY <1>12, CredentialsAssumption, NoCallerAssumption
  DEF ForceLogin, Goto, CredentialsInv, vars, server, TypeOK, Critical, Answers, NoFile,
      Quarantined, NoGrant, InHand, Working, Grants
<1>13. ASSUME NEW c \in Callers, Approve(c)
      PROVE  InHand'
  BY <1>13, CredentialsAssumption, NoCallerAssumption
  DEF Approve, Goto, CredentialsInv, vars, server, TypeOK, Critical, Answers, NoFile,
      Quarantined, NoGrant, InHand, Working, Grants
<1>14. ASSUME NEW c \in Callers, GiveUp(c)
      PROVE  InHand'
  BY <1>14, CredentialsAssumption, NoCallerAssumption
  DEF GiveUp, Ends, Release, Goto, CredentialsInv, vars, server, TypeOK, Critical, Answers,
      NoFile, Quarantined, NoGrant, InHand, Working, Grants
<1>15. ASSUME NEW c \in Callers, Keep(c)
      PROVE  InHand'
  BY <1>15, CredentialsAssumption, NoCallerAssumption
  DEF Keep, Ends, Release, Goto, CredentialsInv, vars, server, TypeOK, Critical, Answers,
      NoFile, Quarantined, NoGrant, InHand, Working, Grants
<1>16. ASSUME NEW c \in Callers, Logout(c)
      PROVE  InHand'
  BY <1>16, CredentialsAssumption, NoCallerAssumption
  DEF Logout, CredentialsInv, vars, server, TypeOK, Critical, Answers, NoFile, Quarantined,
      NoGrant, InHand, Working, Grants
<1>17. ASSUME NEW c \in Callers, Crash(c)
      PROVE  InHand'
  BY <1>17, CredentialsAssumption, NoCallerAssumption
  DEF Crash, Ends, Release, Goto, Excuse, CredentialsInv, vars, server, TypeOK, Critical,
      Answers, NoFile, Quarantined, NoGrant, InHand, Working, Grants
<1>18. CASE Expire
  BY <1>18, CredentialsAssumption, NoCallerAssumption
  DEF Expire, Usable, CredentialsInv, vars, server, TypeOK, Critical, Answers, NoFile,
      Quarantined, NoGrant, InHand, Working, Grants
<1>19. ASSUME NEW g \in Grants, Revoke(g)
      PROVE  InHand'
  BY <1>19, CredentialsAssumption, NoCallerAssumption
  DEF Revoke, CredentialsInv, vars, server, TypeOK, Critical, Answers, NoFile, Quarantined,
      NoGrant, InHand, Working, Grants
<1>20. CASE UNCHANGED vars
  BY <1>20, CredentialsAssumption, NoCallerAssumption
  DEF vars, server, CredentialsInv, TypeOK, Critical, Answers, NoFile, Quarantined, NoGrant,
      InHand, Working, Grants
<1> QED
  BY <1>1, <1>2, <1>3, <1>4, <1>5, <1>6, <1>7, <1>8, <1>9, <1>10, <1>11, <1>12, <1>13, <1>14,
     <1>15, <1>16, <1>17, <1>18, <1>19, <1>20
  DEF Next, Advance

LEMMA NumberedPreserved ==
    ASSUME CredentialsInv, [Next]_vars
    PROVE  Numbered'
<1>1. ASSUME NEW c \in Callers,
             \/ Acquire(c) \/ AcquireTimesOut(c) \/ Lost(c) \/ Take(c) \/ SaveFails(c)
             \/ Mourn(c) \/ Bury(c) \/ ForceLogin(c) \/ GiveUp(c) \/ Logout(c) \/ Crash(c)
      PROVE  Numbered'
  BY <1>1, CredentialsAssumption, NoCallerAssumption
  DEF Acquire, Goto, AcquireTimesOut, Ends, Release, Fallback, Lost, Excuse, Take,
      ReloginRequired, SaveFails, Mourn, Reads, Bury, ForceLogin, GiveUp, Logout, Crash,
      CredentialsInv, vars, server, TypeOK, Critical, Answers, NoFile, Quarantined, NoGrant,
      Numbered, Grants
<1>2. ASSUME NEW c \in Callers, NEW j \in {"request", "refresh", "login"}, Resolve(c, j)
      PROVE  Numbered'
  BY <1>2, CredentialsAssumption, NoCallerAssumption
  DEF Resolve, Goto, Usable, NeedsRefresh, Reads, CredentialsInv, vars, server, TypeOK,
      Critical, Answers, NoFile, Quarantined, NoGrant, Numbered, Grants
<1>3. ASSUME NEW c \in Callers, Recheck(c)
      PROVE  Numbered'
  BY <1>3, CredentialsAssumption, NoCallerAssumption
  DEF Recheck, Ends, Release, Fallback, Goto, Usable, NeedsRefresh, Reads, Reread,
      CredentialsInv, vars, server, TypeOK, Critical, Answers, NoFile, Quarantined, NoGrant,
      Numbered, Grants
<1>4. ASSUME NEW c \in Callers, Exchange(c)
      PROVE  Numbered'
  BY <1>4, CredentialsAssumption, NoCallerAssumption
  DEF Exchange, Goto, Rotated, CredentialsInv, vars, server, TypeOK, Critical, Answers, NoFile,
      Quarantined, NoGrant, Numbered, Grants
<1>5. ASSUME NEW c \in Callers, Save(c)
      PROVE  Numbered'
  BY <1>5, CredentialsAssumption, NoCallerAssumption
  DEF Save, Ends, Release, Goto, Updated, Rotated, CredentialsInv, vars, server, TypeOK,
      Critical, Answers, NoFile, Quarantined, NoGrant, Numbered, Grants
<1>6. ASSUME NEW c \in Callers, Approve(c)
      PROVE  Numbered'
  BY <1>6, CredentialsAssumption, NoCallerAssumption
  DEF Approve, Goto, CredentialsInv, vars, server, TypeOK, Critical, Answers, NoFile,
      Quarantined, NoGrant, Numbered, Grants
<1>7. ASSUME NEW c \in Callers, Keep(c)
      PROVE  Numbered'
  BY <1>7, CredentialsAssumption, NoCallerAssumption
  DEF Keep, Ends, Release, Goto, CredentialsInv, vars, server, TypeOK, Critical, Answers,
      NoFile, Quarantined, NoGrant, Numbered, Grants
<1>8. CASE Expire
  BY <1>8, CredentialsAssumption, NoCallerAssumption
  DEF Expire, Usable, CredentialsInv, vars, server, TypeOK, Critical, Answers, NoFile,
      Quarantined, NoGrant, Numbered, Grants
<1>9. ASSUME NEW g \in Grants, Revoke(g)
      PROVE  Numbered'
  BY <1>9, CredentialsAssumption, NoCallerAssumption
  DEF Revoke, CredentialsInv, vars, server, TypeOK, Critical, Answers, NoFile, Quarantined,
      NoGrant, Numbered, Grants
<1>10. CASE UNCHANGED vars
  BY <1>10, CredentialsAssumption, NoCallerAssumption
  DEF vars, server, CredentialsInv, TypeOK, Critical, Answers, NoFile, Quarantined, NoGrant,
      Numbered, Grants
<1> QED
  BY <1>1, <1>2, <1>3, <1>4, <1>5, <1>6, <1>7, <1>8, <1>9, <1>10 DEF Next, Advance

LEMMA OneLivePreserved ==
    ASSUME CredentialsInv, [Next]_vars
    PROVE  OneLive'
<1>1. ASSUME NEW c \in Callers,
             \/ (\E j \in {"request", "refresh", "login"} : Resolve(c, j)) \/ Acquire(c)
             \/ AcquireTimesOut(c) \/ Recheck(c) \/ Lost(c) \/ Take(c) \/ Save(c)
             \/ SaveFails(c) \/ Mourn(c) \/ Bury(c) \/ ForceLogin(c) \/ GiveUp(c)
             \/ Keep(c) \/ Logout(c) \/ Crash(c)
      PROVE  OneLive'
  BY <1>1, CredentialsAssumption, NoCallerAssumption
  DEF Resolve, Goto, Usable, NeedsRefresh, Reads, Acquire, AcquireTimesOut, Ends, Release,
      Fallback, Recheck, Reread, Lost, Excuse, Take, ReloginRequired, Save, Updated, Rotated,
      SaveFails, Mourn, Bury, ForceLogin, GiveUp, Keep, Logout, Crash, CredentialsInv, vars,
      server, TypeOK, Critical, Answers, NoFile, Quarantined, NoGrant, OneLive, Numbered, Grants
<1>2. ASSUME NEW c \in Callers, Exchange(c)
      PROVE  OneLive'
  BY <1>2, CredentialsAssumption, NoCallerAssumption
  DEF Exchange, Goto, Rotated, CredentialsInv, vars, server, TypeOK, Critical, Answers, NoFile,
      Quarantined, NoGrant, OneLive, Numbered, Grants
<1>3. ASSUME NEW c \in Callers, Approve(c)
      PROVE  OneLive'
  BY <1>3, CredentialsAssumption, NoCallerAssumption
  DEF Approve, Goto, CredentialsInv, vars, server, TypeOK, Critical, Answers, NoFile,
      Quarantined, NoGrant, OneLive, Numbered, Grants
<1>4. CASE Expire
  BY <1>4, CredentialsAssumption, NoCallerAssumption
  DEF Expire, Usable, CredentialsInv, vars, server, TypeOK, Critical, Answers, NoFile,
      Quarantined, NoGrant, OneLive, Numbered, Grants
<1>5. ASSUME NEW g \in Grants, Revoke(g)
      PROVE  OneLive'
  BY <1>5, CredentialsAssumption, NoCallerAssumption
  DEF Revoke, CredentialsInv, vars, server, TypeOK, Critical, Answers, NoFile, Quarantined,
      NoGrant, OneLive, Numbered, Grants
<1>6. CASE UNCHANGED vars
  BY <1>6, CredentialsAssumption, NoCallerAssumption
  DEF vars, server, CredentialsInv, TypeOK, Critical, Answers, NoFile, Quarantined, NoGrant,
      OneLive, Numbered, Grants
<1> QED
  BY <1>1, <1>2, <1>3, <1>4, <1>5, <1>6 DEF Next, Advance

LEMMA SpentPreserved ==
    ASSUME CredentialsInv, [Next]_vars
    PROVE  Spent'
<1>1. ASSUME NEW c \in Callers,
             \/ (\E j \in {"request", "refresh", "login"} : Resolve(c, j)) \/ Acquire(c)
             \/ AcquireTimesOut(c) \/ Recheck(c) \/ Lost(c) \/ Take(c) \/ Save(c)
             \/ SaveFails(c) \/ Mourn(c) \/ Bury(c) \/ ForceLogin(c) \/ GiveUp(c)
             \/ Keep(c) \/ Logout(c) \/ Crash(c)
      PROVE  Spent'
  BY <1>1, CredentialsAssumption, NoCallerAssumption
  DEF Resolve, Goto, Usable, NeedsRefresh, Reads, Acquire, AcquireTimesOut, Ends, Release,
      Fallback, Recheck, Reread, Lost, Excuse, Take, ReloginRequired, Save, Updated, Rotated,
      SaveFails, Mourn, Bury, ForceLogin, GiveUp, Keep, Logout, Crash, CredentialsInv, vars,
      server, TypeOK, Critical, Answers, NoFile, Quarantined, NoGrant, Spent, Newest, Numbered,
      Grants
<1>2. ASSUME NEW c \in Callers, Exchange(c)
      PROVE  Spent'
  BY <1>2, CredentialsAssumption, NoCallerAssumption
  DEF Exchange, Goto, Rotated, CredentialsInv, vars, server, TypeOK, Critical, Answers, NoFile,
      Quarantined, NoGrant, Spent, Newest, Numbered, Grants
<1>3. ASSUME NEW c \in Callers, Approve(c)
      PROVE  Spent'
  BY <1>3, CredentialsAssumption, NoCallerAssumption
  DEF Approve, Goto, CredentialsInv, vars, server, TypeOK, Critical, Answers, NoFile,
      Quarantined, NoGrant, Spent, Newest, Numbered, Grants
<1>4. CASE Expire
  BY <1>4, CredentialsAssumption, NoCallerAssumption
  DEF Expire, Usable, CredentialsInv, vars, server, TypeOK, Critical, Answers, NoFile,
      Quarantined, NoGrant, Spent, Newest, Numbered, Grants
<1>5. ASSUME NEW g \in Grants, Revoke(g)
      PROVE  Spent'
  BY <1>5, CredentialsAssumption, NoCallerAssumption
  DEF Revoke, CredentialsInv, vars, server, TypeOK, Critical, Answers, NoFile, Quarantined,
      NoGrant, Spent, Newest, Numbered, Grants
<1>6. CASE UNCHANGED vars
  BY <1>6, CredentialsAssumption, NoCallerAssumption
  DEF vars, server, CredentialsInv, TypeOK, Critical, Answers, NoFile, Quarantined, NoGrant,
      Spent, Newest, Numbered, Grants
<1> QED
  BY <1>1, <1>2, <1>3, <1>4, <1>5, <1>6 DEF Next, Advance

LEMMA NewestPreserved ==
    ASSUME CredentialsInv, [Next]_vars
    PROVE  Newest'
<1>1. ASSUME NEW c \in Callers, NEW j \in {"request", "refresh", "login"}, Resolve(c, j)
      PROVE  Newest'
  BY <1>1, CredentialsAssumption, NoCallerAssumption
  DEF Resolve, Goto, Usable, NeedsRefresh, Reads, CredentialsInv, vars, server, TypeOK,
      Critical, Answers, NoFile, Quarantined, NoGrant, Newest, Alone, OneLive, InHand, Working,
      Numbered, Outcome, Grants
<1>2. ASSUME NEW c \in Callers, Acquire(c)
      PROVE  Newest'
  BY <1>2, CredentialsAssumption, NoCallerAssumption
  DEF Acquire, Goto, CredentialsInv, vars, server, TypeOK, Critical, Answers, NoFile,
      Quarantined, NoGrant, Newest, Alone, OneLive, InHand, Working, Numbered, Outcome, Grants
<1>3. ASSUME NEW c \in Callers, AcquireTimesOut(c)
      PROVE  Newest'
  BY <1>3, CredentialsAssumption, NoCallerAssumption
  DEF AcquireTimesOut, Ends, Release, Goto, Fallback, CredentialsInv, vars, server, TypeOK,
      Critical, Answers, NoFile, Quarantined, NoGrant, Newest, Alone, OneLive, InHand, Working,
      Numbered, Outcome, Grants
<1>4. ASSUME NEW c \in Callers, Recheck(c)
      PROVE  Newest'
  BY <1>4, CredentialsAssumption, NoCallerAssumption, SMTT(60)
  DEF Recheck, Ends, Release, Fallback, Goto, Usable, NeedsRefresh, Reads, Reread,
      CredentialsInv, vars, server, TypeOK, Critical, Answers, NoFile, Quarantined, NoGrant,
      Newest, Alone, OneLive, InHand, Working, Numbered, Outcome, Grants
<1>5. ASSUME NEW c \in Callers, Exchange(c)
      PROVE  Newest'
  BY <1>5, CredentialsAssumption, NoCallerAssumption
  DEF Exchange, Goto, Rotated, CredentialsInv, vars, server, TypeOK, Critical, Answers, NoFile,
      Quarantined, NoGrant, Newest, Alone, OneLive, InHand, Working, Numbered, Outcome, Grants
<1>6. ASSUME NEW c \in Callers, Lost(c)
      PROVE  Newest'
  BY <1>6, CredentialsAssumption, NoCallerAssumption
  DEF Lost, Ends, Release, Goto, Fallback, Excuse, CredentialsInv, vars, server, TypeOK,
      Critical, Answers, NoFile, Quarantined, NoGrant, Newest, Alone, OneLive, InHand, Working,
      Numbered, Outcome, Grants
<1>7. ASSUME NEW c \in Callers, Take(c)
      PROVE  Newest'
  BY <1>7, CredentialsAssumption, NoCallerAssumption
  DEF Take, Ends, Release, Fallback, Goto, ReloginRequired, CredentialsInv, vars, server,
      TypeOK, Critical, Answers, NoFile, Quarantined, NoGrant, Newest, Alone, OneLive, InHand,
      Working, Numbered, Outcome, Grants
<1>8. ASSUME NEW c \in Callers, Save(c)
      PROVE  Newest'
  BY <1>8, CredentialsAssumption, NoCallerAssumption
  DEF Save, Ends, Release, Goto, Updated, Rotated, CredentialsInv, vars, server, TypeOK,
      Critical, Answers, NoFile, Quarantined, NoGrant, Newest, Alone, OneLive, InHand, Working,
      Numbered, Outcome, Grants
<1>9. ASSUME NEW c \in Callers, SaveFails(c)
      PROVE  Newest'
  BY <1>9, CredentialsAssumption, NoCallerAssumption
  DEF SaveFails, Ends, Release, Goto, Fallback, Excuse, CredentialsInv, vars, server, TypeOK,
      Critical, Answers, NoFile, Quarantined, NoGrant, Newest, Alone, OneLive, InHand, Working,
      Numbered, Outcome, Grants
<1>10. ASSUME NEW c \in Callers, Mourn(c)
      PROVE  Newest'
  BY <1>10, CredentialsAssumption, NoCallerAssumption
  DEF Mourn, Ends, Release, Fallback, Excuse, Goto, Reads, CredentialsInv, vars, server, TypeOK,
      Critical, Answers, NoFile, Quarantined, NoGrant, Newest, Alone, OneLive, InHand, Working,
      Numbered, Outcome, Grants
<1>11. ASSUME NEW c \in Callers, Bury(c)
      PROVE  Newest'
  BY <1>11, CredentialsAssumption, NoCallerAssumption
  DEF Bury, Ends, Release, Goto, Fallback, Excuse, CredentialsInv, vars, server, TypeOK,
      Critical, Answers, NoFile, Quarantined, NoGrant, Newest, Alone, OneLive, InHand, Working,
      Numbered, Outcome, Grants
<1>12. ASSUME NEW c \in Callers, ForceLogin(c)
      PROVE  Newest'
  BY <1>12, CredentialsAssumption, NoCallerAssumption
  DEF ForceLogin, Goto, CredentialsInv, vars, server, TypeOK, Critical, Answers, NoFile,
      Quarantined, NoGrant, Newest, Alone, OneLive, InHand, Working, Numbered, Outcome, Grants
<1>13. ASSUME NEW c \in Callers, Approve(c)
      PROVE  Newest'
  BY <1>13, CredentialsAssumption, NoCallerAssumption
  DEF Approve, Goto, CredentialsInv, vars, server, TypeOK, Critical, Answers, NoFile,
      Quarantined, NoGrant, Newest, Alone, OneLive, InHand, Working, Numbered, Outcome, Grants
<1>14. ASSUME NEW c \in Callers, GiveUp(c)
      PROVE  Newest'
  BY <1>14, CredentialsAssumption, NoCallerAssumption
  DEF GiveUp, Ends, Release, Goto, CredentialsInv, vars, server, TypeOK, Critical, Answers,
      NoFile, Quarantined, NoGrant, Newest, Alone, OneLive, InHand, Working, Numbered, Outcome,
      Grants
<1>15. ASSUME NEW c \in Callers, Keep(c)
      PROVE  Newest'
  BY <1>15, CredentialsAssumption, NoCallerAssumption
  DEF Keep, Ends, Release, Goto, CredentialsInv, vars, server, TypeOK, Critical, Answers,
      NoFile, Quarantined, NoGrant, Newest, Alone, OneLive, InHand, Working, Numbered, Outcome,
      Grants
<1>16. ASSUME NEW c \in Callers, Logout(c)
      PROVE  Newest'
  BY <1>16, CredentialsAssumption, NoCallerAssumption
  DEF Logout, CredentialsInv, vars, server, TypeOK, Critical, Answers, NoFile, Quarantined,
      NoGrant, Newest, Alone, OneLive, InHand, Working, Numbered, Outcome, Grants
<1>17. ASSUME NEW c \in Callers, Crash(c)
      PROVE  Newest'
  BY <1>17, CredentialsAssumption, NoCallerAssumption
  DEF Crash, Ends, Release, Goto, Excuse, CredentialsInv, vars, server, TypeOK, Critical,
      Answers, NoFile, Quarantined, NoGrant, Newest, Alone, OneLive, InHand, Working, Numbered,
      Outcome, Grants
<1>18. CASE Expire
  BY <1>18, CredentialsAssumption, NoCallerAssumption
  DEF Expire, Usable, CredentialsInv, vars, server, TypeOK, Critical, Answers, NoFile,
      Quarantined, NoGrant, Newest, Alone, OneLive, InHand, Working, Numbered, Outcome, Grants
<1>19. ASSUME NEW g \in Grants, Revoke(g)
      PROVE  Newest'
  BY <1>19, CredentialsAssumption, NoCallerAssumption
  DEF Revoke, CredentialsInv, vars, server, TypeOK, Critical, Answers, NoFile, Quarantined,
      NoGrant, Newest, Alone, OneLive, InHand, Working, Numbered, Outcome, Grants
<1>20. CASE UNCHANGED vars
  BY <1>20, CredentialsAssumption, NoCallerAssumption
  DEF vars, server, CredentialsInv, TypeOK, Critical, Answers, NoFile, Quarantined, NoGrant,
      Newest, Alone, OneLive, InHand, Working, Numbered, Outcome, Grants
<1> QED
  BY <1>1, <1>2, <1>3, <1>4, <1>5, <1>6, <1>7, <1>8, <1>9, <1>10, <1>11, <1>12, <1>13, <1>14,
     <1>15, <1>16, <1>17, <1>18, <1>19, <1>20
  DEF Next, Advance

LEMMA OutcomePreserved ==
    ASSUME CredentialsInv, [Next]_vars
    PROVE  Outcome'
<1>1. ASSUME NEW c \in Callers, NEW j \in {"request", "refresh", "login"}, Resolve(c, j)
      PROVE  Outcome'
  BY <1>1, CredentialsAssumption, NoCallerAssumption
  DEF Resolve, Goto, Usable, NeedsRefresh, Reads, CredentialsInv, vars, server, TypeOK,
      Critical, Answers, NoFile, Quarantined, NoGrant, Outcome, Alone, Newest, Spent, NoReplay,
      Fresh, InHand, Working, Grants
<1>2. ASSUME NEW c \in Callers, Acquire(c)
      PROVE  Outcome'
  BY <1>2, CredentialsAssumption, NoCallerAssumption
  DEF Acquire, Goto, CredentialsInv, vars, server, TypeOK, Critical, Answers, NoFile,
      Quarantined, NoGrant, Outcome, Alone, Newest, Spent, NoReplay, Fresh, InHand, Working,
      Grants
<1>3. ASSUME NEW c \in Callers, AcquireTimesOut(c)
      PROVE  Outcome'
  BY <1>3, CredentialsAssumption, NoCallerAssumption
  DEF AcquireTimesOut, Ends, Release, Goto, Fallback, CredentialsInv, vars, server, TypeOK,
      Critical, Answers, NoFile, Quarantined, NoGrant, Outcome, Alone, Newest, Spent, NoReplay,
      Fresh, InHand, Working, Grants
<1>4. ASSUME NEW c \in Callers, Recheck(c)
      PROVE  Outcome'
  BY <1>4, CredentialsAssumption, NoCallerAssumption
  DEF Recheck, Ends, Release, Fallback, Goto, Usable, NeedsRefresh, Reads, Reread,
      CredentialsInv, vars, server, TypeOK, Critical, Answers, NoFile, Quarantined, NoGrant,
      Outcome, Alone, Newest, Spent, NoReplay, Fresh, InHand, Working, Grants
<1>5. ASSUME NEW c \in Callers, Exchange(c)
      PROVE  Outcome'
  <2>1. pc[c] = "asking" /\ pc'[c] = "answered" /\ mem[c] \in Grants
    BY <1>5 DEF Exchange, Goto, CredentialsInv, TypeOK, InHand, Working
  <2>2. \A d \in Callers \ {c} : pc[d] \notin Critical /\ pc'[d] = pc[d]
    BY <1>5, <2>1 DEF Exchange, Goto, CredentialsInv, TypeOK, Alone, Critical
  <2>3. UNCHANGED <<mem, excused>> /\ answer'[c] # "none"
    BY <1>5 DEF Exchange, CredentialsInv, TypeOK
  <2>4. answer'[c] \in {"rotated", "refused"} => mem[c] \in closed'
    BY <1>5 DEF Exchange, CredentialsInv, TypeOK
  <2>5. answer'[c] = "rotated" => mem[c].turn < MaxTurns /\ Rotated(mem[c]) \notin closed'
    <3>1. CASE mem[c] \in live /\ mem[c].turn < MaxTurns /\ closed' = closed \union {mem[c]}
      <4>1. Rotated(mem[c]).login = mem[c].login /\ Rotated(mem[c]).turn = mem[c].turn + 1
        BY <2>1 DEF Rotated, Grants
      <4>2. Rotated(mem[c]).turn > mem[c].turn
        BY <2>1, <4>1, CredentialsAssumption DEF Grants
      <4>3. \A h \in closed' : h.login = mem[c].login => h.turn <= mem[c].turn
        BY <2>1, <3>1, CredentialsAssumption DEF CredentialsInv, Newest, Grants
      <4>4. \A h \in closed' : h.turn \in Nat
        BY <2>1, <3>1, CredentialsAssumption DEF CredentialsInv, TypeOK, Grants
      <4> QED
        BY <2>1, <3>1, <4>1, <4>2, <4>3, <4>4, CredentialsAssumption DEF Grants
    <3>2. CASE answer'[c] # "rotated"
      BY <3>2
    <3> QED
      BY <1>5, <3>1, <3>2 DEF Exchange, CredentialsInv, TypeOK
  <2>6. answer'[c] = "kept" => mem[c] \notin closed'
    BY <1>5 DEF Exchange, CredentialsInv, TypeOK, Spent
  <2>7. answer'[c] = "denied" /\ mem[c] \in closed' => mem[c] \in excused
    BY <1>5, <2>1 DEF Exchange, CredentialsInv, TypeOK, NoReplay
  <2> QED
    BY <2>1, <2>2, <2>3, <2>4, <2>5, <2>6, <2>7 DEF Outcome, Critical, ReloginRequired
<1>6. ASSUME NEW c \in Callers, Lost(c)
      PROVE  Outcome'
  BY <1>6, CredentialsAssumption, NoCallerAssumption
  DEF Lost, Ends, Release, Goto, Fallback, Excuse, CredentialsInv, vars, server, TypeOK,
      Critical, Answers, NoFile, Quarantined, NoGrant, Outcome, Alone, Newest, Spent, NoReplay,
      Fresh, InHand, Working, Grants
<1>7. ASSUME NEW c \in Callers, Take(c)
      PROVE  Outcome'
  <2>1. /\ pc[c] = "answered" /\ UNCHANGED <<closed, excused>>
        /\ \A d \in Callers \ {c} : /\ pc'[d] = pc[d] /\ mem'[d] = mem[d]
                                   /\ answer'[d] = answer[d]
    BY <1>7 DEF Take, Ends, Goto, CredentialsInv, TypeOK, server
  <2>1a. pc[c] = "answered" /\ Outcome
    BY <2>1 DEF CredentialsInv
  <2>2. CASE answer[c] \in {"rotated", "kept"}
    <3>1. pc'[c] = "saving" /\ mem' = mem /\ answer' = answer
      BY <1>7, <2>1, <2>2 DEF Take, Goto, ReloginRequired, CredentialsInv, TypeOK
    <3> QED
      BY <2>1, <2>1a, <2>2, <3>1, SMTT(30) DEF Outcome
  <2>3. CASE answer[c] \in {"refused", "headless"}
    <3>1. pc'[c] = "mourning" /\ mem' = mem /\ answer' = answer
      BY <1>7, <2>1, <2>3 DEF Take, Goto, ReloginRequired, CredentialsInv, TypeOK
    <3> QED
      BY <2>1, <2>1a, <2>3, <3>1, SMTT(30) DEF Outcome
  <2>4. CASE answer[c] \notin {"rotated", "kept", "refused", "headless"}
    <3>1. pc'[c] \in {"approving", "idle"}
      BY <1>7, <2>1, <2>4 DEF Take, Ends, Fallback, Goto, ReloginRequired, CredentialsInv, TypeOK
    <3> QED
      BY <2>1, <3>1 DEF CredentialsInv, Outcome
  <2> QED
    BY <2>2, <2>3, <2>4
<1>8. ASSUME NEW c \in Callers, Save(c)
      PROVE  Outcome'
  BY <1>8, CredentialsAssumption, NoCallerAssumption
  DEF Save, Ends, Release, Goto, Updated, Rotated, CredentialsInv, vars, server, TypeOK,
      Critical, Answers, NoFile, Quarantined, NoGrant, Outcome, Alone, Newest, Spent, NoReplay,
      Fresh, InHand, Working, Grants
<1>9. ASSUME NEW c \in Callers, SaveFails(c)
      PROVE  Outcome'
  BY <1>9, CredentialsAssumption, NoCallerAssumption
  DEF SaveFails, Ends, Release, Goto, Fallback, Excuse, CredentialsInv, vars, server, TypeOK,
      Critical, Answers, NoFile, Quarantined, NoGrant, Outcome, Alone, Newest, Spent, NoReplay,
      Fresh, InHand, Working, Grants
<1>10. ASSUME NEW c \in Callers, Mourn(c)
      PROVE  Outcome'
  BY <1>10, CredentialsAssumption, NoCallerAssumption
  DEF Mourn, Ends, Release, Fallback, Excuse, Goto, Reads, CredentialsInv, vars, server, TypeOK,
      Critical, Answers, NoFile, Quarantined, NoGrant, Outcome, Alone, Newest, Spent, NoReplay,
      Fresh, InHand, Working, Grants
<1>11. ASSUME NEW c \in Callers, Bury(c)
      PROVE  Outcome'
  BY <1>11, CredentialsAssumption, NoCallerAssumption
  DEF Bury, Ends, Release, Goto, Fallback, Excuse, CredentialsInv, vars, server, TypeOK,
      Critical, Answers, NoFile, Quarantined, NoGrant, Outcome, Alone, Newest, Spent, NoReplay,
      Fresh, InHand, Working, Grants
<1>12. ASSUME NEW c \in Callers, ForceLogin(c)
      PROVE  Outcome'
  BY <1>12, CredentialsAssumption, NoCallerAssumption
  DEF ForceLogin, Goto, CredentialsInv, vars, server, TypeOK, Critical, Answers, NoFile,
      Quarantined, NoGrant, Outcome, Alone, Newest, Spent, NoReplay, Fresh, InHand, Working,
      Grants
<1>13. ASSUME NEW c \in Callers, Approve(c)
      PROVE  Outcome'
  BY <1>13, CredentialsAssumption, NoCallerAssumption
  DEF Approve, Goto, CredentialsInv, vars, server, TypeOK, Critical, Answers, NoFile,
      Quarantined, NoGrant, Outcome, Alone, Newest, Spent, NoReplay, Fresh, InHand, Working,
      Grants
<1>14. ASSUME NEW c \in Callers, GiveUp(c)
      PROVE  Outcome'
  BY <1>14, CredentialsAssumption, NoCallerAssumption
  DEF GiveUp, Ends, Release, Goto, CredentialsInv, vars, server, TypeOK, Critical, Answers,
      NoFile, Quarantined, NoGrant, Outcome, Alone, Newest, Spent, NoReplay, Fresh, InHand,
      Working, Grants
<1>15. ASSUME NEW c \in Callers, Keep(c)
      PROVE  Outcome'
  BY <1>15, CredentialsAssumption, NoCallerAssumption
  DEF Keep, Ends, Release, Goto, CredentialsInv, vars, server, TypeOK, Critical, Answers,
      NoFile, Quarantined, NoGrant, Outcome, Alone, Newest, Spent, NoReplay, Fresh, InHand,
      Working, Grants
<1>16. ASSUME NEW c \in Callers, Logout(c)
      PROVE  Outcome'
  BY <1>16, CredentialsAssumption, NoCallerAssumption
  DEF Logout, CredentialsInv, vars, server, TypeOK, Critical, Answers, NoFile, Quarantined,
      NoGrant, Outcome, Alone, Newest, Spent, NoReplay, Fresh, InHand, Working, Grants
<1>17. ASSUME NEW c \in Callers, Crash(c)
      PROVE  Outcome'
  BY <1>17, CredentialsAssumption, NoCallerAssumption
  DEF Crash, Ends, Release, Goto, Excuse, CredentialsInv, vars, server, TypeOK, Critical,
      Answers, NoFile, Quarantined, NoGrant, Outcome, Alone, Newest, Spent, NoReplay, Fresh,
      InHand, Working, Grants
<1>18. CASE Expire
  BY <1>18, CredentialsAssumption, NoCallerAssumption
  DEF Expire, Usable, CredentialsInv, vars, server, TypeOK, Critical, Answers, NoFile,
      Quarantined, NoGrant, Outcome, Alone, Newest, Spent, NoReplay, Fresh, InHand, Working,
      Grants
<1>19. ASSUME NEW g \in Grants, Revoke(g)
      PROVE  Outcome'
  BY <1>19, CredentialsAssumption, NoCallerAssumption
  DEF Revoke, CredentialsInv, vars, server, TypeOK, Critical, Answers, NoFile, Quarantined,
      NoGrant, Outcome, Alone, Newest, Spent, NoReplay, Fresh, InHand, Working, Grants
<1>20. CASE UNCHANGED vars
  BY <1>20, CredentialsAssumption, NoCallerAssumption
  DEF vars, server, CredentialsInv, TypeOK, Critical, Answers, NoFile, Quarantined, NoGrant,
      Outcome, Alone, Newest, Spent, NoReplay, Fresh, InHand, Working, Grants
<1> QED
  BY <1>1, <1>2, <1>3, <1>4, <1>5, <1>6, <1>7, <1>8, <1>9, <1>10, <1>11, <1>12, <1>13, <1>14,
     <1>15, <1>16, <1>17, <1>18, <1>19, <1>20
  DEF Next, Advance

LEMMA NoReplayPreserved ==
    ASSUME CredentialsInv, [Next]_vars
    PROVE  NoReplay'
<1>1. ASSUME NEW c \in Callers,
             \/ (\E j \in {"request", "refresh", "login"} : Resolve(c, j)) \/ Acquire(c)
             \/ AcquireTimesOut(c) \/ Lost(c) \/ Take(c) \/ Save(c) \/ SaveFails(c)
             \/ Mourn(c) \/ Bury(c) \/ ForceLogin(c) \/ GiveUp(c) \/ Logout(c) \/ Crash(c)
      PROVE  NoReplay'
  BY <1>1, CredentialsAssumption, NoCallerAssumption
  DEF Resolve, Goto, Usable, NeedsRefresh, Reads, Acquire, AcquireTimesOut, Ends, Release,
      Fallback, Lost, Excuse, Take, ReloginRequired, Save, Updated, Rotated, SaveFails, Mourn,
      Bury, ForceLogin, GiveUp, Logout, Crash, CredentialsInv, vars, server, TypeOK, Critical,
      Answers, NoFile, Quarantined, NoGrant, NoReplay, FileTold, Unwritten, Alone, Grants
<1>2. ASSUME NEW c \in Callers, Recheck(c)
      PROVE  NoReplay'
  BY <1>2, CredentialsAssumption, NoCallerAssumption
  DEF Recheck, Ends, Release, Fallback, Goto, Usable, NeedsRefresh, Reads, Reread,
      CredentialsInv, vars, server, TypeOK, Critical, Answers, NoFile, Quarantined, NoGrant,
      NoReplay, FileTold, Unwritten, Alone, Grants
<1>3. ASSUME NEW c \in Callers, Exchange(c)
      PROVE  NoReplay'
  BY <1>3, CredentialsAssumption, NoCallerAssumption
  DEF Exchange, Goto, Rotated, CredentialsInv, vars, server, TypeOK, Critical, Answers, NoFile,
      Quarantined, NoGrant, NoReplay, FileTold, Unwritten, Alone, Grants
<1>4. ASSUME NEW c \in Callers, Approve(c)
      PROVE  NoReplay'
  BY <1>4, CredentialsAssumption, NoCallerAssumption
  DEF Approve, Goto, CredentialsInv, vars, server, TypeOK, Critical, Answers, NoFile,
      Quarantined, NoGrant, NoReplay, FileTold, Unwritten, Alone, Grants
<1>5. ASSUME NEW c \in Callers, Keep(c)
      PROVE  NoReplay'
  BY <1>5, CredentialsAssumption, NoCallerAssumption
  DEF Keep, Ends, Release, Goto, CredentialsInv, vars, server, TypeOK, Critical, Answers,
      NoFile, Quarantined, NoGrant, NoReplay, FileTold, Unwritten, Alone, Grants
<1>6. CASE Expire
  BY <1>6, CredentialsAssumption, NoCallerAssumption
  DEF Expire, Usable, CredentialsInv, vars, server, TypeOK, Critical, Answers, NoFile,
      Quarantined, NoGrant, NoReplay, FileTold, Unwritten, Alone, Grants
<1>7. ASSUME NEW g \in Grants, Revoke(g)
      PROVE  NoReplay'
  BY <1>7, CredentialsAssumption, NoCallerAssumption
  DEF Revoke, CredentialsInv, vars, server, TypeOK, Critical, Answers, NoFile, Quarantined,
      NoGrant, NoReplay, FileTold, Unwritten, Alone, Grants
<1>8. CASE UNCHANGED vars
  BY <1>8, CredentialsAssumption, NoCallerAssumption
  DEF vars, server, CredentialsInv, TypeOK, Critical, Answers, NoFile, Quarantined, NoGrant,
      NoReplay, FileTold, Unwritten, Alone, Grants
<1> QED
  BY <1>1, <1>2, <1>3, <1>4, <1>5, <1>6, <1>7, <1>8 DEF Next, Advance

LEMMA FileToldPreserved ==
    ASSUME CredentialsInv, [Next]_vars
    PROVE  FileTold'
<1>1. ASSUME NEW c \in Callers, NEW j \in {"request", "refresh", "login"}, Resolve(c, j)
      PROVE  FileTold'
  BY <1>1, CredentialsAssumption, NoCallerAssumption
  DEF Resolve, Goto, Usable, NeedsRefresh, Reads, CredentialsInv, vars, server, TypeOK,
      Critical, Answers, NoFile, Quarantined, NoGrant, FileTold, Unwritten, Alone, Outcome,
      Fresh, InHand, Working, Grants
<1>2. ASSUME NEW c \in Callers, Acquire(c)
      PROVE  FileTold'
  BY <1>2, CredentialsAssumption, NoCallerAssumption
  DEF Acquire, Goto, CredentialsInv, vars, server, TypeOK, Critical, Answers, NoFile,
      Quarantined, NoGrant, FileTold, Unwritten, Alone, Outcome, Fresh, Usable, InHand, Working,
      Grants
<1>3. ASSUME NEW c \in Callers, AcquireTimesOut(c)
      PROVE  FileTold'
  BY <1>3, CredentialsAssumption, NoCallerAssumption
  DEF AcquireTimesOut, Ends, Release, Goto, Fallback, CredentialsInv, vars, server, TypeOK,
      Critical, Answers, NoFile, Quarantined, NoGrant, FileTold, Unwritten, Alone, Outcome,
      Fresh, Usable, InHand, Working, Grants
<1>4. ASSUME NEW c \in Callers, Recheck(c)
      PROVE  FileTold'
  BY <1>4, CredentialsAssumption, NoCallerAssumption
  DEF Recheck, Ends, Release, Fallback, Goto, Usable, NeedsRefresh, Reads, Reread,
      CredentialsInv, vars, server, TypeOK, Critical, Answers, NoFile, Quarantined, NoGrant,
      FileTold, Unwritten, Alone, Outcome, Fresh, InHand, Working, Grants
<1>5. ASSUME NEW c \in Callers, Exchange(c)
      PROVE  FileTold'
  BY <1>5, CredentialsAssumption, NoCallerAssumption
  DEF Exchange, Goto, Rotated, CredentialsInv, vars, server, TypeOK, Critical, Answers, NoFile,
      Quarantined, NoGrant, FileTold, Unwritten, Alone, Outcome, Fresh, Usable, InHand, Working,
      Grants
<1>6. ASSUME NEW c \in Callers, Lost(c)
      PROVE  FileTold'
  BY <1>6, CredentialsAssumption, NoCallerAssumption
  DEF Lost, Ends, Release, Goto, Fallback, Excuse, CredentialsInv, vars, server, TypeOK,
      Critical, Answers, NoFile, Quarantined, NoGrant, FileTold, Unwritten, Alone, Outcome,
      Fresh, Usable, InHand, Working, Grants
<1>7. ASSUME NEW c \in Callers, Take(c)
      PROVE  FileTold'
  BY <1>7, CredentialsAssumption, NoCallerAssumption
  DEF Take, Ends, Release, Fallback, Goto, ReloginRequired, CredentialsInv, vars, server,
      TypeOK, Critical, Answers, NoFile, Quarantined, NoGrant, FileTold, Unwritten, Alone,
      Outcome, Fresh, Usable, InHand, Working, Grants
<1>8. ASSUME NEW c \in Callers, Save(c)
      PROVE  FileTold'
  BY <1>8, CredentialsAssumption, NoCallerAssumption
  DEF Save, Ends, Release, Goto, Updated, Rotated, CredentialsInv, vars, server, TypeOK,
      Critical, Answers, NoFile, Quarantined, NoGrant, FileTold, Unwritten, Alone, Outcome,
      Fresh, Usable, InHand, Working, Grants
<1>9. ASSUME NEW c \in Callers, SaveFails(c)
      PROVE  FileTold'
  BY <1>9, CredentialsAssumption, NoCallerAssumption
  DEF SaveFails, Ends, Release, Goto, Fallback, Excuse, CredentialsInv, vars, server, TypeOK,
      Critical, Answers, NoFile, Quarantined, NoGrant, FileTold, Unwritten, Alone, Outcome,
      Fresh, Usable, InHand, Working, Grants
<1>10. ASSUME NEW c \in Callers, Mourn(c)
      PROVE  FileTold'
  BY <1>10, CredentialsAssumption, NoCallerAssumption
  DEF Mourn, Ends, Release, Fallback, Excuse, Goto, Reads, CredentialsInv, vars, server, TypeOK,
      Critical, Answers, NoFile, Quarantined, NoGrant, FileTold, Unwritten, Alone, Outcome,
      Fresh, Usable, InHand, Working, Grants
<1>11. ASSUME NEW c \in Callers, Bury(c)
      PROVE  FileTold'
  BY <1>11, CredentialsAssumption, NoCallerAssumption
  DEF Bury, Ends, Release, Goto, Fallback, Excuse, CredentialsInv, vars, server, TypeOK,
      Critical, Answers, NoFile, Quarantined, NoGrant, FileTold, Unwritten, Alone, Outcome,
      Fresh, Usable, InHand, Working, Grants
<1>12. ASSUME NEW c \in Callers, ForceLogin(c)
      PROVE  FileTold'
  BY <1>12, CredentialsAssumption, NoCallerAssumption
  DEF ForceLogin, Goto, CredentialsInv, vars, server, TypeOK, Critical, Answers, NoFile,
      Quarantined, NoGrant, FileTold, Unwritten, Alone, Outcome, Fresh, Usable, InHand, Working,
      Grants
<1>13. ASSUME NEW c \in Callers, Approve(c)
      PROVE  FileTold'
  BY <1>13, CredentialsAssumption, NoCallerAssumption
  DEF Approve, Goto, CredentialsInv, vars, server, TypeOK, Critical, Answers, NoFile,
      Quarantined, NoGrant, FileTold, Unwritten, Alone, Outcome, Fresh, Usable, InHand, Working,
      Grants
<1>14. ASSUME NEW c \in Callers, GiveUp(c)
      PROVE  FileTold'
  BY <1>14, CredentialsAssumption, NoCallerAssumption
  DEF GiveUp, Ends, Release, Goto, CredentialsInv, vars, server, TypeOK, Critical, Answers,
      NoFile, Quarantined, NoGrant, FileTold, Unwritten, Alone, Outcome, Fresh, Usable, InHand,
      Working, Grants
<1>15. ASSUME NEW c \in Callers, Keep(c)
      PROVE  FileTold'
  BY <1>15, CredentialsAssumption, NoCallerAssumption
  DEF Keep, Ends, Release, Goto, CredentialsInv, vars, server, TypeOK, Critical, Answers,
      NoFile, Quarantined, NoGrant, FileTold, Unwritten, Alone, Outcome, Fresh, Usable, InHand,
      Working, Grants
<1>16. ASSUME NEW c \in Callers, Logout(c)
      PROVE  FileTold'
  BY <1>16, CredentialsAssumption, NoCallerAssumption
  DEF Logout, CredentialsInv, vars, server, TypeOK, Critical, Answers, NoFile, Quarantined,
      NoGrant, FileTold, Unwritten, Alone, Outcome, Fresh, Usable, InHand, Working, Grants
<1>17. ASSUME NEW c \in Callers, Crash(c)
      PROVE  FileTold'
  BY <1>17, CredentialsAssumption, NoCallerAssumption
  DEF Crash, Ends, Release, Goto, Excuse, CredentialsInv, vars, server, TypeOK, Critical,
      Answers, NoFile, Quarantined, NoGrant, FileTold, Unwritten, Alone, Outcome, Fresh, Usable,
      InHand, Working, Grants
<1>18. CASE Expire
  BY <1>18, CredentialsAssumption, NoCallerAssumption
  DEF Expire, Usable, CredentialsInv, vars, server, TypeOK, Critical, Answers, NoFile,
      Quarantined, NoGrant, FileTold, Unwritten, Alone, Outcome, Fresh, InHand, Working, Grants
<1>19. ASSUME NEW g \in Grants, Revoke(g)
      PROVE  FileTold'
  BY <1>19, CredentialsAssumption, NoCallerAssumption
  DEF Revoke, CredentialsInv, vars, server, TypeOK, Critical, Answers, NoFile, Quarantined,
      NoGrant, FileTold, Unwritten, Alone, Outcome, Fresh, Usable, InHand, Working, Grants
<1>20. CASE UNCHANGED vars
  BY <1>20, CredentialsAssumption, NoCallerAssumption
  DEF vars, server, CredentialsInv, TypeOK, Critical, Answers, NoFile, Quarantined, NoGrant,
      FileTold, Unwritten, Alone, Outcome, Fresh, Usable, InHand, Working, Grants
<1> QED
  BY <1>1, <1>2, <1>3, <1>4, <1>5, <1>6, <1>7, <1>8, <1>9, <1>10, <1>11, <1>12, <1>13, <1>14,
     <1>15, <1>16, <1>17, <1>18, <1>19, <1>20
  DEF Next, Advance

LEMMA FreshPreserved ==
    ASSUME CredentialsInv, [Next]_vars
    PROVE  Fresh'
<1>1. ASSUME NEW c \in Callers, NEW j \in {"request", "refresh", "login"}, Resolve(c, j)
      PROVE  Fresh'
  BY <1>1, CredentialsAssumption, NoCallerAssumption
  DEF Resolve, Goto, Usable, NeedsRefresh, Reads, CredentialsInv, vars, server, TypeOK,
      Critical, Answers, NoFile, Quarantined, NoGrant, Fresh, Numbered, Alone, InHand, Working,
      Grants
<1>2. ASSUME NEW c \in Callers, Acquire(c)
      PROVE  Fresh'
  BY <1>2, CredentialsAssumption, NoCallerAssumption
  DEF Acquire, Goto, CredentialsInv, vars, server, TypeOK, Critical, Answers, NoFile,
      Quarantined, NoGrant, Fresh, Numbered, Alone, InHand, Working, Grants
<1>3. ASSUME NEW c \in Callers, AcquireTimesOut(c)
      PROVE  Fresh'
  BY <1>3, CredentialsAssumption, NoCallerAssumption
  DEF AcquireTimesOut, Ends, Release, Goto, Fallback, CredentialsInv, vars, server, TypeOK,
      Critical, Answers, NoFile, Quarantined, NoGrant, Fresh, Numbered, Alone, InHand, Working,
      Grants
<1>4. ASSUME NEW c \in Callers, Recheck(c)
      PROVE  Fresh'
  BY <1>4, CredentialsAssumption, NoCallerAssumption
  DEF Recheck, Ends, Release, Fallback, Goto, Usable, NeedsRefresh, Reads, Reread,
      CredentialsInv, vars, server, TypeOK, Critical, Answers, NoFile, Quarantined, NoGrant,
      Fresh, Numbered, Alone, InHand, Working, Grants
<1>5. ASSUME NEW c \in Callers, Exchange(c)
      PROVE  Fresh'
  BY <1>5, CredentialsAssumption, NoCallerAssumption
  DEF Exchange, Goto, Rotated, CredentialsInv, vars, server, TypeOK, Critical, Answers, NoFile,
      Quarantined, NoGrant, Fresh, Numbered, Alone, InHand, Working, Grants
<1>6. ASSUME NEW c \in Callers, Lost(c)
      PROVE  Fresh'
  BY <1>6, CredentialsAssumption, NoCallerAssumption
  DEF Lost, Ends, Release, Goto, Fallback, Excuse, CredentialsInv, vars, server, TypeOK,
      Critical, Answers, NoFile, Quarantined, NoGrant, Fresh, Numbered, Alone, InHand, Working,
      Grants
<1>7. ASSUME NEW c \in Callers, Take(c)
      PROVE  Fresh'
  BY <1>7, CredentialsAssumption, NoCallerAssumption
  DEF Take, Ends, Release, Fallback, Goto, ReloginRequired, CredentialsInv, vars, server,
      TypeOK, Critical, Answers, NoFile, Quarantined, NoGrant, Fresh, Numbered, Alone, InHand,
      Working, Grants
<1>8. ASSUME NEW c \in Callers, Save(c)
      PROVE  Fresh'
  BY <1>8, CredentialsAssumption, NoCallerAssumption
  DEF Save, Ends, Release, Goto, Updated, Rotated, CredentialsInv, vars, server, TypeOK,
      Critical, Answers, NoFile, Quarantined, NoGrant, Fresh, Numbered, Alone, InHand, Working,
      Grants
<1>9. ASSUME NEW c \in Callers, SaveFails(c)
      PROVE  Fresh'
  BY <1>9, CredentialsAssumption, NoCallerAssumption
  DEF SaveFails, Ends, Release, Goto, Fallback, Excuse, CredentialsInv, vars, server, TypeOK,
      Critical, Answers, NoFile, Quarantined, NoGrant, Fresh, Numbered, Alone, InHand, Working,
      Grants
<1>10. ASSUME NEW c \in Callers, Mourn(c)
      PROVE  Fresh'
  BY <1>10, CredentialsAssumption, NoCallerAssumption
  DEF Mourn, Ends, Release, Fallback, Excuse, Goto, Reads, CredentialsInv, vars, server, TypeOK,
      Critical, Answers, NoFile, Quarantined, NoGrant, Fresh, Numbered, Alone, InHand, Working,
      Grants
<1>11. ASSUME NEW c \in Callers, Bury(c)
      PROVE  Fresh'
  BY <1>11, CredentialsAssumption, NoCallerAssumption
  DEF Bury, Ends, Release, Goto, Fallback, Excuse, CredentialsInv, vars, server, TypeOK,
      Critical, Answers, NoFile, Quarantined, NoGrant, Fresh, Numbered, Alone, InHand, Working,
      Grants
<1>12. ASSUME NEW c \in Callers, ForceLogin(c)
      PROVE  Fresh'
  BY <1>12, CredentialsAssumption, NoCallerAssumption
  DEF ForceLogin, Goto, CredentialsInv, vars, server, TypeOK, Critical, Answers, NoFile,
      Quarantined, NoGrant, Fresh, Numbered, Alone, InHand, Working, Grants
<1>13. ASSUME NEW c \in Callers, Approve(c)
      PROVE  Fresh'
  BY <1>13, CredentialsAssumption, NoCallerAssumption
  DEF Approve, Goto, CredentialsInv, vars, server, TypeOK, Critical, Answers, NoFile,
      Quarantined, NoGrant, Fresh, Numbered, Alone, InHand, Working, Grants
<1>14. ASSUME NEW c \in Callers, GiveUp(c)
      PROVE  Fresh'
  BY <1>14, CredentialsAssumption, NoCallerAssumption
  DEF GiveUp, Ends, Release, Goto, CredentialsInv, vars, server, TypeOK, Critical, Answers,
      NoFile, Quarantined, NoGrant, Fresh, Numbered, Alone, InHand, Working, Grants
<1>15. ASSUME NEW c \in Callers, Keep(c)
      PROVE  Fresh'
  BY <1>15, CredentialsAssumption, NoCallerAssumption
  DEF Keep, Ends, Release, Goto, CredentialsInv, vars, server, TypeOK, Critical, Answers,
      NoFile, Quarantined, NoGrant, Fresh, Numbered, Alone, InHand, Working, Grants
<1>16. ASSUME NEW c \in Callers, Logout(c)
      PROVE  Fresh'
  BY <1>16, CredentialsAssumption, NoCallerAssumption
  DEF Logout, CredentialsInv, vars, server, TypeOK, Critical, Answers, NoFile, Quarantined,
      NoGrant, Fresh, Numbered, Alone, InHand, Working, Grants
<1>17. ASSUME NEW c \in Callers, Crash(c)
      PROVE  Fresh'
  BY <1>17, CredentialsAssumption, NoCallerAssumption
  DEF Crash, Ends, Release, Goto, Excuse, CredentialsInv, vars, server, TypeOK, Critical,
      Answers, NoFile, Quarantined, NoGrant, Fresh, Numbered, Alone, InHand, Working, Grants
<1>18. CASE Expire
  BY <1>18, CredentialsAssumption, NoCallerAssumption
  DEF Expire, Usable, CredentialsInv, vars, server, TypeOK, Critical, Answers, NoFile,
      Quarantined, NoGrant, Fresh, Numbered, Alone, InHand, Working, Grants
<1>19. ASSUME NEW g \in Grants, Revoke(g)
      PROVE  Fresh'
  BY <1>19, CredentialsAssumption, NoCallerAssumption
  DEF Revoke, CredentialsInv, vars, server, TypeOK, Critical, Answers, NoFile, Quarantined,
      NoGrant, Fresh, Numbered, Alone, InHand, Working, Grants
<1>20. CASE UNCHANGED vars
  BY <1>20, CredentialsAssumption, NoCallerAssumption
  DEF vars, server, CredentialsInv, TypeOK, Critical, Answers, NoFile, Quarantined, NoGrant,
      Fresh, Numbered, Alone, InHand, Working, Grants
<1> QED
  BY <1>1, <1>2, <1>3, <1>4, <1>5, <1>6, <1>7, <1>8, <1>9, <1>10, <1>11, <1>12, <1>13, <1>14,
     <1>15, <1>16, <1>17, <1>18, <1>19, <1>20
  DEF Next, Advance

LEMMA NotAheadPreserved ==
    ASSUME CredentialsInv, [Next]_vars
    PROVE  NotAhead'
<1>1. ASSUME NEW c \in Callers, NEW j \in {"request", "refresh", "login"}, Resolve(c, j)
      PROVE  NotAhead'
  BY <1>1, CredentialsAssumption, NoCallerAssumption
  DEF Resolve, Goto, Usable, NeedsRefresh, Reads, CredentialsInv, vars, server, TypeOK,
      Critical, Answers, NoFile, Quarantined, NoGrant, NotAhead, Fresh, Alone, InHand, Working,
      Grants
<1>2. ASSUME NEW c \in Callers, Acquire(c)
      PROVE  NotAhead'
  BY <1>2, CredentialsAssumption, NoCallerAssumption
  DEF Acquire, Goto, CredentialsInv, vars, server, TypeOK, Critical, Answers, NoFile,
      Quarantined, NoGrant, NotAhead, Fresh, Alone, InHand, Working, Grants
<1>3. ASSUME NEW c \in Callers, AcquireTimesOut(c)
      PROVE  NotAhead'
  BY <1>3, CredentialsAssumption, NoCallerAssumption
  DEF AcquireTimesOut, Ends, Release, Goto, Fallback, CredentialsInv, vars, server, TypeOK,
      Critical, Answers, NoFile, Quarantined, NoGrant, NotAhead, Fresh, Alone, InHand, Working,
      Grants
<1>4. ASSUME NEW c \in Callers, Recheck(c)
      PROVE  NotAhead'
  BY <1>4, CredentialsAssumption, NoCallerAssumption
  DEF Recheck, Ends, Release, Fallback, Goto, Usable, NeedsRefresh, Reads, Reread,
      CredentialsInv, vars, server, TypeOK, Critical, Answers, NoFile, Quarantined, NoGrant,
      NotAhead, Fresh, Alone, InHand, Working, Grants
<1>5. ASSUME NEW c \in Callers, Exchange(c)
      PROVE  NotAhead'
  BY <1>5, CredentialsAssumption, NoCallerAssumption
  DEF Exchange, Goto, Rotated, CredentialsInv, vars, server, TypeOK, Critical, Answers, NoFile,
      Quarantined, NoGrant, NotAhead, Fresh, Alone, InHand, Working, Grants
<1>6. ASSUME NEW c \in Callers, Lost(c)
      PROVE  NotAhead'
  BY <1>6, CredentialsAssumption, NoCallerAssumption
  DEF Lost, Ends, Release, Goto, Fallback, Excuse, CredentialsInv, vars, server, TypeOK,
      Critical, Answers, NoFile, Quarantined, NoGrant, NotAhead, Fresh, Alone, InHand, Working,
      Grants
<1>7. ASSUME NEW c \in Callers, Take(c)
      PROVE  NotAhead'
  BY <1>7, CredentialsAssumption, NoCallerAssumption
  DEF Take, Ends, Release, Fallback, Goto, ReloginRequired, CredentialsInv, vars, server,
      TypeOK, Critical, Answers, NoFile, Quarantined, NoGrant, NotAhead, Fresh, Alone, InHand,
      Working, Grants
<1>8. ASSUME NEW c \in Callers, Save(c)
      PROVE  NotAhead'
  BY <1>8, CredentialsAssumption, NoCallerAssumption
  DEF Save, Ends, Release, Goto, Updated, Rotated, CredentialsInv, vars, server, TypeOK,
      Critical, Answers, NoFile, Quarantined, NoGrant, NotAhead, Fresh, Alone, InHand, Working,
      Grants
<1>9. ASSUME NEW c \in Callers, SaveFails(c)
      PROVE  NotAhead'
  BY <1>9, CredentialsAssumption, NoCallerAssumption
  DEF SaveFails, Ends, Release, Goto, Fallback, Excuse, CredentialsInv, vars, server, TypeOK,
      Critical, Answers, NoFile, Quarantined, NoGrant, NotAhead, Fresh, Alone, InHand, Working,
      Grants
<1>10. ASSUME NEW c \in Callers, Mourn(c)
      PROVE  NotAhead'
  BY <1>10, CredentialsAssumption, NoCallerAssumption
  DEF Mourn, Ends, Release, Fallback, Excuse, Goto, Reads, CredentialsInv, vars, server, TypeOK,
      Critical, Answers, NoFile, Quarantined, NoGrant, NotAhead, Fresh, Alone, InHand, Working,
      Grants
<1>11. ASSUME NEW c \in Callers, Bury(c)
      PROVE  NotAhead'
  BY <1>11, CredentialsAssumption, NoCallerAssumption
  DEF Bury, Ends, Release, Goto, Fallback, Excuse, CredentialsInv, vars, server, TypeOK,
      Critical, Answers, NoFile, Quarantined, NoGrant, NotAhead, Fresh, Alone, InHand, Working,
      Grants
<1>12. ASSUME NEW c \in Callers, ForceLogin(c)
      PROVE  NotAhead'
  BY <1>12, CredentialsAssumption, NoCallerAssumption
  DEF ForceLogin, Goto, CredentialsInv, vars, server, TypeOK, Critical, Answers, NoFile,
      Quarantined, NoGrant, NotAhead, Fresh, Alone, InHand, Working, Grants
<1>13. ASSUME NEW c \in Callers, Approve(c)
      PROVE  NotAhead'
  BY <1>13, CredentialsAssumption, NoCallerAssumption
  DEF Approve, Goto, CredentialsInv, vars, server, TypeOK, Critical, Answers, NoFile,
      Quarantined, NoGrant, NotAhead, Fresh, Alone, InHand, Working, Grants
<1>14. ASSUME NEW c \in Callers, GiveUp(c)
      PROVE  NotAhead'
  BY <1>14, CredentialsAssumption, NoCallerAssumption
  DEF GiveUp, Ends, Release, Goto, CredentialsInv, vars, server, TypeOK, Critical, Answers,
      NoFile, Quarantined, NoGrant, NotAhead, Fresh, Alone, InHand, Working, Grants
<1>15. ASSUME NEW c \in Callers, Keep(c)
      PROVE  NotAhead'
  BY <1>15, CredentialsAssumption, NoCallerAssumption
  DEF Keep, Ends, Release, Goto, CredentialsInv, vars, server, TypeOK, Critical, Answers,
      NoFile, Quarantined, NoGrant, NotAhead, Fresh, Alone, InHand, Working, Grants
<1>16. ASSUME NEW c \in Callers, Logout(c)
      PROVE  NotAhead'
  BY <1>16, CredentialsAssumption, NoCallerAssumption
  DEF Logout, CredentialsInv, vars, server, TypeOK, Critical, Answers, NoFile, Quarantined,
      NoGrant, NotAhead, Fresh, Alone, InHand, Working, Grants
<1>17. ASSUME NEW c \in Callers, Crash(c)
      PROVE  NotAhead'
  BY <1>17, CredentialsAssumption, NoCallerAssumption
  DEF Crash, Ends, Release, Goto, Excuse, CredentialsInv, vars, server, TypeOK, Critical,
      Answers, NoFile, Quarantined, NoGrant, NotAhead, Fresh, Alone, InHand, Working, Grants
<1>18. CASE Expire
  BY <1>18, CredentialsAssumption, NoCallerAssumption
  DEF Expire, Usable, CredentialsInv, vars, server, TypeOK, Critical, Answers, NoFile,
      Quarantined, NoGrant, NotAhead, Fresh, Alone, InHand, Working, Grants
<1>19. ASSUME NEW g \in Grants, Revoke(g)
      PROVE  NotAhead'
  BY <1>19, CredentialsAssumption, NoCallerAssumption
  DEF Revoke, CredentialsInv, vars, server, TypeOK, Critical, Answers, NoFile, Quarantined,
      NoGrant, NotAhead, Fresh, Alone, InHand, Working, Grants
<1>20. CASE UNCHANGED vars
  BY <1>20, CredentialsAssumption, NoCallerAssumption
  DEF vars, server, CredentialsInv, TypeOK, Critical, Answers, NoFile, Quarantined, NoGrant,
      NotAhead, Fresh, Alone, InHand, Working, Grants
<1> QED
  BY <1>1, <1>2, <1>3, <1>4, <1>5, <1>6, <1>7, <1>8, <1>9, <1>10, <1>11, <1>12, <1>13, <1>14,
     <1>15, <1>16, <1>17, <1>18, <1>19, <1>20
  DEF Next, Advance

-----------------------------------------------------------------------------
(* The theorems. *)

LEMMA CredentialsInit == Init => CredentialsInv
<1> SUFFICES ASSUME Init
             PROVE  CredentialsInv
  OBVIOUS
<1> USE DEF Init, NoGrant, NoFile
<1>1. TypeOK
  BY CredentialsAssumption DEF TypeOK, Answers
<1>2. Alone /\ InHand /\ OneLive /\ Spent /\ Outcome
  BY DEF Alone, Critical, InHand, Working, OneLive, Spent, Outcome
<1>3. Numbered /\ Newest
  BY DEF Numbered, Newest
<1>4. NoReplay /\ FileTold /\ Fresh /\ NotAhead
  BY DEF NoReplay, FileTold, Usable, Fresh, NotAhead, Working
<1> QED
  BY <1>1, <1>2, <1>3, <1>4 DEF CredentialsInv

LEMMA CredentialsStays == CredentialsInv /\ [Next]_vars => CredentialsInv'
  BY TypePreserved, AlonePreserved, InHandPreserved, NumberedPreserved, OneLivePreserved,
     SpentPreserved, NewestPreserved, OutcomePreserved, NoReplayPreserved, FileToldPreserved,
     FreshPreserved, NotAheadPreserved
  DEF CredentialsInv

(* Every variable keeps its type, and the eleven other parts of the invariant hold with it.      *)
THEOREM CredentialsCorrect == Spec => []CredentialsInv
  BY CredentialsInit, CredentialsStays, PTL DEF Spec

(* However many callers refresh at once, one of them is inside the critical section of           *)
(* resolve_credentials (credential_lock).                                                        *)
THEOREM RefreshesOneByOne ==
  Spec => [](\A c, d \in Callers : pc[c] \in Critical /\ pc[d] \in Critical => c = d)
<1>1. CredentialsInv => \A c, d \in Callers : pc[c] \in Critical /\ pc[d] \in Critical => c = d
  BY DEF CredentialsInv, Alone
<1> QED
  BY CredentialsCorrect, <1>1, PTL

(* No caller sends a token that was exchanged or refused, but after a fault that kept the file   *)
(* from saying so (_refresh, which reads the file again under the lock).                         *)
THEOREM NoReplayHolds == Spec => []NoReplay
<1>1. CredentialsInv => NoReplay
  BY DEF CredentialsInv
<1> QED
  BY CredentialsCorrect, <1>1, PTL

(* What a step does to a session that is in the file. *)
LEMMA SessionStep ==
    ASSUME CredentialsInv, [Next]_vars, Usable(file)
    PROVE  \/ file'.grant.login = file.grant.login /\ file'.grant.turn >= file.grant.turn
           \/ file.grant \notin live
           \/ \E c \in Callers : Logout(c) \/ Keep(c) \/ Headless(c) \/ Crosses(c)
<1>1. file.grant \in Grants
  BY DEF Usable, CredentialsInv, TypeOK, NoFile, Quarantined
<1>2. CASE UNCHANGED file
  BY <1>1, <1>2, CredentialsAssumption DEF Grants
<1>3. ASSUME NEW c \in Callers, Save(c), ~Crosses(c)
      PROVE  file'.grant.login = file.grant.login /\ file'.grant.turn >= file.grant.turn
  <2>1. mem[c] \in Grants /\ mem[c].login = file.grant.login
    BY <1>3 DEF Save, Crosses, CredentialsInv, InHand, Working
  <2>2. file.grant.turn <= mem[c].turn
    BY <1>3, <2>1 DEF Save, CredentialsInv, NotAhead, Working
  <2>3. file'.grant = Updated(c)
    BY <1>3 DEF Save
  <2>4. Updated(c).login = mem[c].login /\ Updated(c).turn >= mem[c].turn
    BY <2>1, CredentialsAssumption DEF Updated, Rotated, Grants
  <2>5. Updated(c).turn >= file.grant.turn
    <3>1. Updated(c).turn \in Nat /\ mem[c].turn \in Nat /\ file.grant.turn \in Nat
      BY <1>1, <2>1, CredentialsAssumption DEF Updated, Rotated, Grants
    <3> QED
      BY <2>2, <2>4, <3>1
  <2> QED
    BY <2>1, <2>3, <2>4, <2>5
<1>4. ASSUME NEW c \in Callers, Bury(c), ~Headless(c), ~Crosses(c), file.grant \in live
      PROVE  FALSE
  <2>1. mem[c] \in Grants /\ mem[c].login = file.grant.login /\ mem[c] \in closed
    BY <1>4 DEF Bury, Headless, Crosses, CredentialsInv, InHand, Working, Outcome
  <2>2. file.grant.turn <= mem[c].turn
    BY <1>4, <2>1 DEF Bury, CredentialsInv, NotAhead, Working
  <2>3. mem[c].turn <= file.grant.turn
    BY <1>4, <2>1 DEF CredentialsInv, Newest
  <2>4. mem[c] = file.grant
    BY <1>1, <2>1, <2>2, <2>3, CredentialsAssumption DEF Grants
  <2> QED
    BY <1>4, <2>1, <2>4 DEF CredentialsInv, Spent
<1>5. CASE Expire
  BY <1>1, <1>5, CredentialsAssumption DEF Expire, Grants, CredentialsInv, TypeOK
<1>6. \/ UNCHANGED file \/ Expire
      \/ \E c \in Callers : Save(c) \/ Bury(c) \/ Keep(c) \/ Logout(c)
  BY DEF Next, Advance, vars, Resolve, Acquire, AcquireTimesOut, Recheck, Exchange, Lost, Take,
         SaveFails, Mourn, ForceLogin, Approve, GiveUp, Crash, Revoke
<1> QED
  BY <1>2, <1>3, <1>4, <1>5, <1>6

(* No outage, lost answer, refusal of another token or denial ends a session that xAI would take: *)
(* of the answers, only one without an access token; and no step takes the file back to an older  *)
(* token of a login (quarantine_credentials, _save).                                              *)
THEOREM SessionKeptHolds == Spec => SessionKept
<1>1. CredentialsInv /\ [Next]_vars =>
        [Usable(file) =>
           \/ file'.grant.login = file.grant.login /\ file'.grant.turn >= file.grant.turn
           \/ file.grant \notin live
           \/ \E c \in Callers : Logout(c) \/ Keep(c) \/ Headless(c) \/ Crosses(c)]_vars
  BY SessionStep
<1> QED
  BY CredentialsCorrect, <1>1, PTL DEF Spec, SessionKept

===============================================================================
