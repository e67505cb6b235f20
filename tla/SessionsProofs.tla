--------------------------- MODULE SessionsProofs ---------------------------
(***************************************************************************)
(* Theorems about Sessions, for every number of sessions, requests, tokens *)
(* and changes of the account.                                             *)
(***************************************************************************)
EXTENDS Sessions, TLAPS

\* What a request knows.  A login has seen the account before the change that
\* bans it; a refresh holds a token of a session that there is, and unless
\* refreshes of it have overlapped it is the only one, with the newest token.
RequestInv(r) ==
    /\ pc[r] \in {"recordLogin", "createSession"} =>
          /\ task[r].epoch <= account.epoch
          /\ account.banned = "yes" => task[r].epoch < account.epoch
    /\ pc[r] \in {"saveRotation", "findPrevious"} =>
          /\ task[r].session \in Session
          /\ task[r].token \in 1..MaxTokens
          /\ status[task[r].session] # "none"

Alone(r) ==
    pc[r] = "saveRotation" /\ task[r].session \notin overlapped =>
        /\ task[r].token = current[task[r].session]
        /\ \A q \in Request \ {r} :
              pc[q] = "saveRotation" => task[q].session # task[r].session

\* A session has no tokens before it is created, and always some afterwards.
Issuing(s) ==
    /\ status[s] = "none" => issued[s] = 0 /\ previous[s] = 0 /\ exchanged[s] = {}
    /\ status[s] # "none" => issued[s] > 0

RequestsInv == \A r \in Request : RequestInv(r)
TokensInv ==
    /\ \A r \in Request : Alone(r)
    /\ \A s \in Session : Issuing(s)
    /\ TokensAreUsedOnce
CurrentInv == SessionsAreCurrent /\ BannedIsOut

-----------------------------------------------------------------------------
(* Types and requests                                                      *)

LEMMA SessionsInit == Init => TypeOK /\ RequestsInv /\ TokensInv /\ CurrentInv
<1> SUFFICES ASSUME Init PROVE TypeOK /\ RequestsInv /\ TokensInv /\ CurrentInv
    OBVIOUS
<1> USE ConstantsAssumption DEF Init
<1>1. TypeOK
    <2>1. account \in [exists : {"yes", "no"}, banned : {"yes", "no"}, epoch : 0..MaxEpoch]
        OBVIOUS
    <2>2. NoTask \in [session : Session \cup {"none"}, token : 0..MaxTokens, epoch : 0..MaxEpoch,
                      then : {"idle", "deleteUser"}]
        BY DEF NoTask, Task
    <2>3. task \in [Request -> [session : Session \cup {"none"}, token : 0..MaxTokens,
                                epoch : 0..MaxEpoch, then : {"idle", "deleteUser"}]]
        BY <2>2
    <2>4. exchanged \in [Session -> SUBSET (1..MaxTokens)]
        OBVIOUS
    <2>5. pc \in [Request -> Stages]
        BY DEF Stages
    <2>6. unrevoked \in BOOLEAN
        OBVIOUS
    <2>7. failures \in 0..MaxFailures
        OBVIOUS
    <2> QED
        BY <2>1, <2>3, <2>4, <2>5, <2>6, <2>7 DEF TypeOK
<1>2. RequestsInv /\ CurrentInv
    BY DEF RequestsInv, RequestInv, CurrentInv, SessionsAreCurrent, BannedIsOut, Live
<1>3. TokensInv
    BY DEF TokensInv, Alone, Issuing, TokensAreUsedOnce
<1> QED
    BY <1>1, <1>2, <1>3

\* What a request is about is a task, and Begin and Answer keep it one.
Tasks == [session : Session \cup {"none"}, token : 0..MaxTokens, epoch : 0..MaxEpoch,
          then : {"idle", "deleteUser"}]

\* Every step keeps the types.
LEMMA SessionsTypeStep == TypeOK /\ RequestsInv /\ [Next]_vars => TypeOK'
<1> SUFFICES ASSUME TypeOK, RequestsInv, [Next]_vars PROVE TypeOK'
    OBVIOUS
<1> USE ConstantsAssumption DEF TypeOK
<1>1. NoTask \in Tasks
    BY DEF NoTask, Task, Tasks
<1>2. ASSUME NEW r \in Request, NEW stage \in Stages, NEW k \in Tasks, Begin(r, stage, k)
      PROVE  pc' \in [Request -> Stages] /\ task' \in [Request -> Tasks]
    BY <1>2 DEF Begin, Tasks
<1>3. ASSUME NEW r \in Request, NEW stage \in Stages, Continue(r, stage)
      PROVE  pc' \in [Request -> Stages] /\ task' \in [Request -> Tasks]
    BY <1>3 DEF Continue, Tasks
<1>4. ASSUME NEW r \in Request, Answer(r)
      PROVE  pc' \in [Request -> Stages] /\ task' \in [Request -> Tasks]
    BY <1>1, <1>4 DEF Answer, Tasks, Stages
<1>5. ASSUME NEW r \in Request PROVE task[r] \in Tasks
    BY DEF Tasks
<1>6. ASSUME NEW ss, Revoke(ss)
      PROVE  status' \in [Session -> {"none", "live", "revoked", "gone"}]
    BY <1>6 DEF Revoke, Live
<1>7. CASE UNCHANGED vars
    BY <1>7 DEF vars, chain
<1>8. ASSUME NEW r \in Request, StartLogin(r) \/ StartGoogleLogin(r) PROVE TypeOK'
    <2>1. ReadAccount(r)
        BY <1>8 DEF StartLogin, StartGoogleLogin
    <2>2. Task("none", 0, account.epoch, "idle") \in Tasks
        BY DEF NoTask, Task, Tasks
    <2> QED
        BY <1>2, <2>1, <2>2 DEF ReadAccount, chain, Stages, Tasks
<1>9. ASSUME NEW r \in Request, RecordLogin(r) PROVE TypeOK'
    BY <1>3, <1>4, <1>9 DEF RecordLogin, chain, Stages, Tasks
<1>10. ASSUME NEW r \in Request, CreateSession(r) PROVE TypeOK'
    <2>1. task[r].epoch \in 0..MaxEpoch
        BY <1>5 DEF Tasks
    <2> QED
        BY <1>4, <1>10, <2>1 DEF CreateSession, Tasks
<1>11. ASSUME NEW r \in Request, FindCurrent(r) PROVE TypeOK'
    <2>1. PICK s \in Session, t \in 1..MaxTokens : \E stage \in {"saveRotation", "findPrevious"} :
             Begin(r, stage, Task(s, t, 0, "idle"))
        BY <1>11 DEF FindCurrent
    <2>2. Task(s, t, 0, "idle") \in Tasks
        BY DEF Task, Tasks
    <2>3. pc' \in [Request -> Stages] /\ task' \in [Request -> Tasks]
        BY <1>2, <2>1, <2>2 DEF Stages
    <2>4. overlapped' \subseteq Session
        BY <1>11 DEF FindCurrent
    <2> QED
        BY <1>11, <2>3, <2>4 DEF FindCurrent, Tasks
<1>12. ASSUME NEW r \in Request, SaveRotation(r) PROVE TypeOK'
    <2>1. task[r].session \in Session /\ task[r].token \in 1..MaxTokens
        BY <1>12 DEF SaveRotation, RequestsInv, RequestInv
    <2>2. pc' \in [Request -> Stages] /\ task' \in [Request -> Tasks]
        BY <1>4, <1>12 DEF SaveRotation
    <2>3. exchanged' \in [Session -> SUBSET (1..MaxTokens)]
        BY <1>12, <2>1 DEF SaveRotation, Exchange
    <2> DEFINE n == issued[task[r].session] + 1
    <2>4. issued[task[r].session] < MaxTokens => n \in 0..MaxTokens
        BY <2>1
    <2>5. \/ /\ n \in 0..MaxTokens
             /\ issued' = [issued EXCEPT ![task[r].session] = n]
             /\ current' = [current EXCEPT ![task[r].session] = n]
             /\ previous' = [previous EXCEPT ![task[r].session] = task[r].token]
          \/ UNCHANGED <<issued, current, previous>>
        BY <1>12, <2>4 DEF SaveRotation
    <2>6. /\ issued \in [Session -> 0..MaxTokens]
          /\ current \in [Session -> 0..MaxTokens]
          /\ previous \in [Session -> 0..MaxTokens]
        OBVIOUS
    <2>7. 1..MaxTokens \subseteq 0..MaxTokens
        OBVIOUS
    <2> HIDE DEF n, TypeOK
    <2>8. /\ issued' \in [Session -> 0..MaxTokens]
          /\ current' \in [Session -> 0..MaxTokens]
          /\ previous' \in [Session -> 0..MaxTokens]
        BY <2>1, <2>5, <2>6, <2>7, Zenon
    <2>9. UNCHANGED <<account, status, proved, overlapped, late, unrevoked, failures>>
        BY <1>12 DEF SaveRotation
    <2> USE DEF TypeOK
    <2>10. unrevoked' \in BOOLEAN
        BY <2>9
    <2>11. failures' \in 0..MaxFailures /\ overlapped' \subseteq Session /\ late' \subseteq Session
        BY <2>9
    <2>12. /\ account' \in [exists : {"yes", "no"}, banned : {"yes", "no"}, epoch : 0..MaxEpoch]
           /\ status' \in [Session -> {"none", "live", "revoked", "gone"}]
           /\ proved' \in [Session -> 0..MaxEpoch]
        BY <2>9
    <2>13. task' \in [Request -> [session : Session \cup {"none"}, token : 0..MaxTokens,
                                  epoch : 0..MaxEpoch, then : {"idle", "deleteUser"}]]
        BY <2>2 DEF Tasks
    <2>14. pc' \in [Request -> Stages]
        BY <2>2
    <2> QED
        BY <2>3, <2>8, <2>10, <2>11, <2>12, <2>13, <2>14, Zenon
<1>13. ASSUME NEW r \in Request, FindPrevious(r) PROVE TypeOK'
    BY <1>3, <1>4, <1>13 DEF FindPrevious, chain, Stages, Tasks
<1>14. ASSUME NEW r \in Request, FindOwn(r) PROVE TypeOK'
    <2>1. PICK s \in Session \cup {"none"} :
             Begin(r, "revokeOthers", Task(s, 0, 0, "idle"))
        BY <1>14 DEF FindOwn
    <2>2. Task(s, 0, 0, "idle") \in Tasks
        BY DEF NoTask, Task, Tasks
    <2> QED
        BY <1>2, <1>14, <2>1, <2>2 DEF FindOwn, chain, Stages, Tasks
<1>15. ASSUME NEW r \in Request, RevokeOthers(r) PROVE TypeOK'
    BY <1>4, <1>6, <1>15 DEF RevokeOthers, chain, Tasks
<1>16. ASSUME NEW r \in Request, NEW first \in Cutoffs, StartCutoff(r, first) PROVE TypeOK'
    BY <1>1, <1>2, <1>16 DEF StartCutoff, chain, Stages, Tasks
<1>17. ASSUME NEW r \in Request, SaveAccount(r) PROVE TypeOK'
    <2>1. pc' \in [Request -> Stages] /\ task' \in [Request -> Tasks]
        BY <1>3, <1>4, <1>17 DEF SaveAccount, Stages
    <2>2. account' \in [exists : {"yes", "no"}, banned : {"yes", "no"}, epoch : 0..MaxEpoch]
        <3>1. CASE /\ account.epoch < MaxEpoch
                   /\ account' = [account EXCEPT !.epoch = @ + 1,
                                     !.banned = IF pc[r] = "saveBanned" THEN "yes" ELSE @]
            <4>1. account' = [exists |-> account.exists,
                              banned |-> IF pc[r] = "saveBanned" THEN "yes" ELSE account.banned,
                              epoch |-> account.epoch + 1]
                BY <3>1
            <4>2. account.exists \in {"yes", "no"} /\ account.banned \in {"yes", "no"}
                OBVIOUS
            <4>3. account.epoch + 1 \in 0..MaxEpoch
                BY <3>1
            <4> QED
                BY <4>1, <4>2, <4>3
        <3> QED
            BY <1>17, <3>1 DEF SaveAccount
    <2> QED
        BY <1>17, <2>1, <2>2 DEF SaveAccount, chain, Tasks
<1>18. ASSUME NEW r \in Request, NEW then \in {"idle", "deleteUser"}, StartRevokeAll(r, then)
       PROVE  TypeOK'
    <2>1. Task("none", 0, 0, then) \in Tasks
        BY DEF NoTask, Task, Tasks
    <2> QED
        BY <1>2, <1>18, <2>1 DEF StartRevokeAll, chain, Stages, Tasks
<1>19. ASSUME NEW r \in Request, RevokeAll(r) PROVE TypeOK'
    BY <1>3, <1>4, <1>6, <1>19 DEF RevokeAll, chain, Stages, Tasks
<1>20. ASSUME NEW r \in Request, DeleteUser(r) PROVE TypeOK'
    BY <1>4, <1>20 DEF DeleteUser, chain, Tasks
<1>21. ASSUME NEW r \in Request, Fail(r) PROVE TypeOK'
    <2>1. unrevoked' \in BOOLEAN
        BY <1>21 DEF Fail
    <2> QED
        BY <1>4, <1>21, <2>1 DEF Fail, chain, Tasks
<1>22. ASSUME NEW s \in Session, Logout(s) \/ EndSession(s) PROVE TypeOK'
    BY <1>6, <1>22 DEF EndSession, Logout, chain
<1>23. ASSUME NEW s \in Session, Expire(s) PROVE TypeOK'
    BY <1>23 DEF Expire, chain
<1>24. CASE Unban
    BY <1>24 DEF Unban, chain
<1> QED
    BY <1>7, <1>8, <1>9, <1>10, <1>11, <1>12, <1>13, <1>14, <1>15, <1>16, <1>17, <1>18,
       <1>19, <1>20, <1>21, <1>22, <1>23, <1>24
    DEF Next, Step, StartChangePassword, StartResetPassword, StartBan, StartDemotion, Cutoffs,
        StartLogoutEverywhere, StartForceLogout, StartDeleteAccount

\* What any step does to the account: it may be banned only by a change of it.
LEMMA AccountStep ==
    ASSUME TypeOK, [Next]_vars
    PROVE  /\ account'.epoch >= account.epoch
           /\ account'.banned = "yes" => account.banned = "yes" \/ account'.epoch > account.epoch
<1> USE DEF TypeOK
<1>1. CASE account' = account
    BY <1>1
<1>2. ASSUME NEW r \in Request, SaveAccount(r), account' # account
      PROVE  /\ account'.epoch >= account.epoch
             /\ account'.banned = "yes" => account.banned = "yes" \/ account'.epoch > account.epoch
    <2>1. account'.epoch = account.epoch + 1
        BY <1>2 DEF SaveAccount
    <2> QED
        BY <2>1
<1>3. ASSUME NEW r \in Request, DeleteUser(r)
      PROVE  account'.epoch = account.epoch /\ account'.banned = account.banned
    BY <1>3 DEF DeleteUser
<1>4. CASE Unban
    BY <1>4 DEF Unban
<1>5. ASSUME NEW r \in Request, Step(r) \/ Fail(r)
      PROVE  account' = account \/ SaveAccount(r) \/ DeleteUser(r)
    BY <1>5 DEF Step, StartLogin, StartGoogleLogin, ReadAccount, RecordLogin, CreateSession,
           FindCurrent, SaveRotation, FindPrevious, FindOwn, RevokeOthers, StartChangePassword,
           StartResetPassword, StartBan, StartDemotion, StartCutoff, StartLogoutEverywhere,
           StartForceLogout, StartDeleteAccount, StartRevokeAll, RevokeAll, Fail
<1>6. ASSUME NEW s \in Session, Logout(s) \/ EndSession(s) \/ Expire(s)
      PROVE  account' = account
    BY <1>6 DEF Logout, EndSession, Expire
<1>7. CASE UNCHANGED vars
    BY <1>7 DEF vars
<1> QED
    BY <1>1, <1>2, <1>3, <1>4, <1>5, <1>6, <1>7 DEF Next

\* What any step does to a session's document: it comes from none, and goes for good.
LEMMA StatusStep ==
    ASSUME TypeOK, [Next]_vars, NEW s \in Session
    PROVE  /\ status[s] # "none" => status'[s] # "none"
           /\ status'[s] = "live" => status[s] \in {"none", "live"}
           /\ \/ \E r \in Request : CreateSession(r)
              \/ /\ status[s] = "none" => status'[s] = "none"
                 /\ status'[s] = "live" => status[s] = "live"
<1>0. status \in [Session -> {"none", "live", "revoked", "gone"}]
    BY DEF TypeOK
<1>1. ASSUME NEW ss, Revoke(ss)
      PROVE  status'[s] = status[s] \/ (status[s] = "live" /\ status'[s] = "revoked")
    BY <1>0, <1>1 DEF Revoke, Live
<1>2. ASSUME NEW r \in Request, CreateSession(r)
      PROVE  status'[s] = status[s] \/ (status[s] = "none" /\ status'[s] = "live")
    BY <1>0, <1>2 DEF CreateSession
<1>3. ASSUME NEW x \in Session, Expire(x)
      PROVE  status'[s] = status[s] \/ (status[s] # "none" /\ status'[s] = "gone")
    BY <1>0, <1>3 DEF Expire
<1>4. ASSUME NEW r \in Request, Step(r) \/ Fail(r)
      PROVE  status' = status \/ (\E ss : Revoke(ss)) \/ CreateSession(r)
    <2>1. CASE \/ StartLogin(r) \/ StartGoogleLogin(r) \/ RecordLogin(r) \/ FindCurrent(r)
               \/ SaveRotation(r) \/ FindPrevious(r) \/ FindOwn(r)
        BY <2>1 DEF StartLogin, StartGoogleLogin, ReadAccount, RecordLogin, FindCurrent,
                    SaveRotation, FindPrevious, FindOwn
    <2>2. CASE \/ StartChangePassword(r) \/ StartResetPassword(r) \/ StartBan(r)
               \/ StartDemotion(r) \/ SaveAccount(r) \/ DeleteUser(r) \/ Fail(r)
               \/ StartLogoutEverywhere(r) \/ StartForceLogout(r) \/ StartDeleteAccount(r)
        BY <2>2 DEF StartChangePassword, StartResetPassword, StartBan, StartDemotion, StartCutoff,
                    SaveAccount, DeleteUser, Fail, StartLogoutEverywhere, StartForceLogout,
                    StartDeleteAccount, StartRevokeAll
    <2>3. CASE RevokeOthers(r)
        BY <2>3 DEF RevokeOthers
    <2>4. CASE RevokeAll(r)
        BY <2>4 DEF RevokeAll
    <2> QED
        BY <1>4, <2>1, <2>2, <2>3, <2>4 DEF Step
<1>5. ASSUME NEW x \in Session, Logout(x) \/ EndSession(x)
      PROVE  \E ss : Revoke(ss)
    <2>1. Logout(x)
        BY <1>5 DEF EndSession
    <2> QED
        BY <2>1 DEF Logout
<1>6. ASSUME Unban \/ UNCHANGED vars PROVE status' = status
    BY <1>6 DEF Unban, vars
<1>7. \/ status' = status
      \/ \E ss : Revoke(ss)
      \/ \E r \in Request : CreateSession(r)
      \/ \E x \in Session : Expire(x)
    BY <1>4, <1>5, <1>6 DEF Next
<1> QED
    BY <1>0, <1>1, <1>2, <1>3, <1>7

\* A step of one request leaves the others where they are.
LEMMA OthersWait ==
    ASSUME TypeOK, NEW q \in Request, NEW r \in Request \ {q}, Step(q) \/ Fail(q)
    PROVE  pc'[r] = pc[r] /\ task'[r] = task[r]
<1>1. \/ \E stage, k : Begin(q, stage, k)
      \/ \E stage : Continue(q, stage)
      \/ Answer(q)
    <2>1. CASE \/ StartLogin(q) \/ StartGoogleLogin(q) \/ RecordLogin(q) \/ FindCurrent(q)
               \/ SaveRotation(q) \/ FindPrevious(q) \/ FindOwn(q) \/ CreateSession(q)
        BY <2>1 DEF StartLogin, StartGoogleLogin, ReadAccount, RecordLogin, FindCurrent,
                    SaveRotation, FindPrevious, FindOwn, CreateSession
    <2>2. CASE \/ StartChangePassword(q) \/ StartResetPassword(q) \/ StartBan(q)
               \/ StartDemotion(q) \/ StartLogoutEverywhere(q) \/ StartForceLogout(q)
               \/ StartDeleteAccount(q)
        BY <2>2 DEF StartChangePassword, StartResetPassword, StartBan, StartDemotion, StartCutoff,
                    StartLogoutEverywhere, StartForceLogout, StartDeleteAccount, StartRevokeAll
    <2>3. CASE \/ SaveAccount(q) \/ DeleteUser(q) \/ Fail(q) \/ RevokeAll(q) \/ RevokeOthers(q)
        BY <2>3 DEF SaveAccount, DeleteUser, Fail, RevokeAll, RevokeOthers
    <2> QED
        BY <2>1, <2>2, <2>3 DEF Step
<1>2. pc \in [Request -> Stages] /\ DOMAIN task = Request
    BY DEF TypeOK
<1> QED
    BY <1>1, <1>2 DEF Begin, Continue, Answer

\* How a request comes to hold what RequestInv is about.
Held == {"recordLogin", "createSession", "saveRotation", "findPrevious"}

LEMMA RequestStep ==
    ASSUME TypeOK, [Next]_vars, NEW r \in Request
    PROVE  \/ pc'[r] = pc[r] /\ task'[r] = task[r]
           \/ pc'[r] \notin Held
           \/ /\ pc'[r] = "recordLogin" /\ task'[r].epoch = account.epoch
              /\ account.banned = "no" /\ account' = account
           \/ pc[r] = "recordLogin" /\ pc'[r] = "createSession" /\ task'[r] = task[r]
           \/ FindCurrent(r)
<1>1. pc \in [Request -> Stages] /\ DOMAIN task = Request
    BY DEF TypeOK
<1>2. ASSUME NEW stage, stage \notin Held, (\E k : Begin(r, stage, k)) \/ Continue(r, stage)
      PROVE  pc'[r] \notin Held
    BY <1>1, <1>2 DEF Begin, Continue
<1>3. ASSUME Answer(r) PROVE pc'[r] \notin Held
    BY <1>1, <1>3 DEF Answer, Held
<1>4. CASE StartLogin(r) \/ StartGoogleLogin(r)
    <2>1. ReadAccount(r) /\ account.banned = "no"
        BY <1>4 DEF StartLogin, StartGoogleLogin
    <2>2. pc'[r] = "recordLogin" /\ task'[r] = Task("none", 0, account.epoch, "idle")
        BY <1>1, <2>1 DEF ReadAccount, Begin
    <2>3. task'[r].epoch = account.epoch
        BY <2>2 DEF Task
    <2>4. account' = account
        BY <2>1 DEF ReadAccount
    <2> QED
        BY <2>1, <2>2, <2>3, <2>4
<1>5. CASE RecordLogin(r)
    BY <1>1, <1>3, <1>5 DEF RecordLogin, Continue
<1>6. CASE \/ CreateSession(r) \/ SaveRotation(r) \/ RevokeOthers(r) \/ DeleteUser(r) \/ Fail(r)
    BY <1>3, <1>6 DEF CreateSession, SaveRotation, RevokeOthers, DeleteUser, Fail
<1>7. CASE FindPrevious(r) \/ SaveAccount(r) \/ RevokeAll(r)
    BY <1>2, <1>3, <1>7 DEF FindPrevious, SaveAccount, RevokeAll, Held
<1>8. CASE FindOwn(r)
    BY <1>2, <1>8 DEF FindOwn, Held
<1>9. CASE \/ StartChangePassword(r) \/ StartResetPassword(r) \/ StartBan(r) \/ StartDemotion(r)
    <2>1. \E first \in Cutoffs : StartCutoff(r, first)
        BY <1>9 DEF StartChangePassword, StartResetPassword, StartBan, StartDemotion, Cutoffs
    <2> QED
        BY <1>2, <2>1 DEF StartCutoff, Cutoffs, Held
<1>10. CASE StartLogoutEverywhere(r) \/ StartForceLogout(r) \/ StartDeleteAccount(r)
    <2>1. \E then : StartRevokeAll(r, then)
        BY <1>10 DEF StartLogoutEverywhere, StartForceLogout, StartDeleteAccount
    <2> QED
        BY <1>2, <2>1 DEF StartRevokeAll, Held
<1>11. CASE \E q \in Request \ {r} : Step(q) \/ Fail(q)
    BY <1>11, OthersWait
<1>12. CASE (\E s \in Session : Logout(s) \/ EndSession(s) \/ Expire(s)) \/ Unban \/ UNCHANGED vars
    BY <1>12 DEF EndSession, Logout, Expire, Unban, vars
<1> QED
    BY <1>4, <1>5, <1>6, <1>7, <1>8, <1>9, <1>10, <1>11, <1>12 DEF Next, Step

\* What a login has seen is no later than the account, and a refresh keeps its session.
LEMMA RequestsStep == TypeOK /\ RequestsInv /\ [Next]_vars => RequestsInv'
<1> SUFFICES ASSUME TypeOK, RequestsInv, [Next]_vars, NEW r \in Request PROVE RequestInv(r)'
    BY DEF RequestsInv
<1>1. RequestInv(r)
    BY DEF RequestsInv
<1>2. /\ account'.epoch >= account.epoch
      /\ account'.banned = "yes" => account.banned = "yes" \/ account'.epoch > account.epoch
    BY AccountStep
<1>3. \A s \in Session : status[s] # "none" => status'[s] # "none"
    BY StatusStep
<1>4. task[r].epoch \in Nat /\ account.epoch \in Nat /\ account'.epoch \in Nat
    <2>1. account'.epoch \in 0..MaxEpoch
        BY SessionsTypeStep DEF TypeOK
    <2> QED
        BY <2>1, ConstantsAssumption DEF TypeOK
<1>5. CASE pc'[r] = pc[r] /\ task'[r] = task[r]
    BY <1>1, <1>2, <1>3, <1>4, <1>5 DEF RequestInv
<1>6. CASE pc'[r] \notin Held
    BY <1>6 DEF RequestInv, Held
<1>7. CASE /\ pc'[r] = "recordLogin" /\ task'[r].epoch = account.epoch
           /\ account.banned = "no" /\ account' = account
    BY <1>4, <1>7 DEF RequestInv
<1>8. CASE pc[r] = "recordLogin" /\ pc'[r] = "createSession" /\ task'[r] = task[r]
    BY <1>1, <1>2, <1>4, <1>8 DEF RequestInv
<1>9. CASE FindCurrent(r)
    <2>1. PICK s \in Session, t \in 1..MaxTokens :
             /\ status[s] # "none"
             /\ \E stage \in {"saveRotation", "findPrevious"} : Begin(r, stage, Task(s, t, 0, "idle"))
        BY <1>9 DEF FindCurrent
    <2>2. status' = status
        BY <1>9 DEF FindCurrent
    <2>3. pc'[r] \in {"saveRotation", "findPrevious"} /\ task'[r] = Task(s, t, 0, "idle")
        BY <2>1 DEF Begin, TypeOK
    <2>4. task'[r].session = s /\ task'[r].token = t
        BY <2>3 DEF Task
    <2> QED
        BY <2>1, <2>2, <2>3, <2>4 DEF RequestInv
<1> QED
    BY <1>5, <1>6, <1>7, <1>8, <1>9, RequestStep

-----------------------------------------------------------------------------
(* The tokens of a session                                                 *)

\* The chain of a session changes when it is created, presented and exchanged.
LEMMA ChainStep ==
    ASSUME [Next]_vars
    PROVE  \/ chain' = chain
           \/ \E r \in Request : CreateSession(r) \/ FindCurrent(r) \/ SaveRotation(r)
<1>1. ASSUME NEW r \in Request, Step(r) \/ Fail(r)
      PROVE  chain' = chain \/ CreateSession(r) \/ FindCurrent(r) \/ SaveRotation(r)
    <2>1. CASE StartLogin(r) \/ StartGoogleLogin(r) \/ RecordLogin(r) \/ FindPrevious(r) \/ FindOwn(r)
        BY <2>1 DEF StartLogin, StartGoogleLogin, ReadAccount, RecordLogin, FindPrevious, FindOwn
    <2>2. CASE \/ StartChangePassword(r) \/ StartResetPassword(r) \/ StartBan(r)
               \/ StartDemotion(r) \/ StartLogoutEverywhere(r) \/ StartForceLogout(r)
               \/ StartDeleteAccount(r)
        BY <2>2 DEF StartChangePassword, StartResetPassword, StartBan, StartDemotion, StartCutoff,
                    StartLogoutEverywhere, StartForceLogout, StartDeleteAccount, StartRevokeAll
    <2>3. CASE SaveAccount(r) \/ DeleteUser(r) \/ Fail(r) \/ RevokeAll(r) \/ RevokeOthers(r)
        BY <2>3 DEF SaveAccount, DeleteUser, Fail, RevokeAll, RevokeOthers
    <2> QED
        BY <1>1, <2>1, <2>2, <2>3 DEF Step
<1>2. ASSUME NEW s \in Session, Logout(s) \/ EndSession(s) \/ Expire(s) PROVE chain' = chain
    BY <1>2 DEF Logout, EndSession, Expire
<1>3. CASE Unban \/ UNCHANGED vars
    BY <1>3 DEF Unban, vars
<1> QED
    BY <1>1, <1>2, <1>3 DEF Next

LEMMA TokensStep ==
    ASSUME TypeOK, RequestsInv, TokensInv, [Next]_vars
    PROVE  TokensInv'
<1>1. ASSUME NEW r \in Request, Step(r) \/ Fail(r), NEW q \in Request \ {r}
      PROVE  pc'[q] = pc[q] /\ task'[q] = task[q]
    BY <1>1, OthersWait
<1>2. /\ \A r \in Request : Alone(r)
      /\ \A s \in Session : Issuing(s)
      /\ TokensAreUsedOnce
    BY DEF TokensInv
<1>3. /\ issued \in [Session -> 0..MaxTokens] /\ current \in [Session -> 0..MaxTokens]
      /\ previous \in [Session -> 0..MaxTokens] /\ exchanged \in [Session -> SUBSET (1..MaxTokens)]
      /\ status \in [Session -> {"none", "live", "revoked", "gone"}]
      /\ pc \in [Request -> Stages] /\ DOMAIN task = Request
      /\ overlapped \subseteq Session
    BY DEF TypeOK
<1>4. CASE chain' = chain /\ ~\E r \in Request : CreateSession(r) \/ FindCurrent(r)
    <2>1. UNCHANGED <<issued, current, previous, exchanged, overlapped>>
        BY <1>4 DEF chain
    <2>2. TokensAreUsedOnce'
        BY <1>2, <2>1 DEF TokensAreUsedOnce
    <2>3. ASSUME NEW s \in Session PROVE Issuing(s)'
        BY <1>2, <1>4, <2>1, StatusStep DEF Issuing
    <2>4. ASSUME NEW r \in Request, pc'[r] = "saveRotation"
          PROVE  pc[r] = "saveRotation" /\ task'[r] = task[r]
        BY <1>4, <2>4, RequestStep DEF Held
    <2>5. ASSUME NEW r \in Request PROVE Alone(r)'
        BY <1>2, <2>1, <2>4 DEF Alone
    <2> QED
        BY <2>2, <2>3, <2>5 DEF TokensInv
<1>5. ASSUME NEW r \in Request, CreateSession(r) PROVE TokensInv'
    <2>1. PICK s \in Session :
             /\ status[s] = "none"
             /\ status' = [status EXCEPT ![s] = "live"]
             /\ issued' = [issued EXCEPT ![s] = 1]
             /\ current' = [current EXCEPT ![s] = 1]
        BY <1>5 DEF CreateSession
    <2>2. UNCHANGED <<previous, exchanged, overlapped>> /\ Answer(r)
        BY <1>5 DEF CreateSession
    <2>3. issued[s] = 0 /\ previous[s] = 0 /\ exchanged[s] = {}
        BY <1>2, <2>1 DEF Issuing
    <2>4. TokensAreUsedOnce'
        <3> SUFFICES ASSUME NEW x \in Session \ overlapped', issued'[x] > 0
                     PROVE  /\ exchanged'[x] = 1..(issued'[x] - 1)
                            /\ current'[x] = issued'[x]
                            /\ previous'[x] = issued'[x] - 1
            BY DEF TokensAreUsedOnce
        <3>1. CASE x = s
            <4>1. issued'[x] = 1 /\ current'[x] = 1 /\ previous'[x] = 0 /\ exchanged'[x] = {}
                BY <1>3, <2>1, <2>2, <2>3, <3>1
            <4> QED
                BY <4>1
        <3>2. CASE x # s
            BY <1>2, <1>3, <2>1, <2>2, <3>2 DEF TokensAreUsedOnce
        <3> QED
            BY <3>1, <3>2
    <2>5. ASSUME NEW x \in Session PROVE Issuing(x)'
        BY <1>2, <1>3, <2>1, <2>2 DEF Issuing
    <2>6. pc'[r] = "idle"
        BY <1>3, <2>2 DEF Answer
    <2>7. ASSUME NEW q \in Request, pc'[q] = "saveRotation"
          PROVE  /\ pc[q] = "saveRotation" /\ task'[q] = task[q]
                 /\ task[q].session \in Session \ {s}
        <3>1. q # r
            BY <2>6, <2>7
        <3>2. pc'[q] = pc[q] /\ task'[q] = task[q]
            BY <1>1, <1>5, <3>1 DEF Step
        <3> QED
            BY <2>1, <2>7, <3>2 DEF RequestsInv, RequestInv
    <2>8. ASSUME NEW q \in Request PROVE Alone(q)'
        <3> SUFFICES ASSUME pc'[q] = "saveRotation", task'[q].session \notin overlapped'
                     PROVE  /\ task'[q].token = current'[task'[q].session]
                            /\ \A z \in Request \ {q} :
                                  pc'[z] = "saveRotation" => task'[z].session # task'[q].session
            BY DEF Alone
        <3>1. /\ task[q].token = current[task[q].session]
              /\ \A z \in Request \ {q} :
                    pc[z] = "saveRotation" => task[z].session # task[q].session
            BY <1>2, <2>2, <2>7 DEF Alone
        <3>2. current'[task[q].session] = current[task[q].session]
            BY <1>3, <2>1, <2>7
        <3> QED
            BY <2>7, <3>1, <3>2
    <2> QED
        BY <2>4, <2>5, <2>8 DEF TokensInv
<1>6. ASSUME NEW r \in Request, FindCurrent(r) PROVE TokensInv'
    <2>1. PICK s \in Session, t \in 1..MaxTokens :
             LET found == Live(s) /\ current[s] = t
             IN  /\ Begin(r, IF found THEN "saveRotation" ELSE "findPrevious", Task(s, t, 0, "idle"))
                 /\ overlapped' = IF found /\ Refreshing(s) # {}
                                  THEN overlapped \cup {s} ELSE overlapped
        BY <1>6 DEF FindCurrent
    <2>2. UNCHANGED <<status, issued, current, previous, exchanged>>
        BY <1>6 DEF FindCurrent
    <2>3. overlapped \subseteq overlapped'
        BY <2>1
    <2>4. TokensAreUsedOnce'
        BY <1>2, <2>2, <2>3 DEF TokensAreUsedOnce
    <2>5. ASSUME NEW x \in Session PROVE Issuing(x)'
        BY <1>2, <2>2 DEF Issuing
    <2>6. ASSUME NEW q \in Request \ {r} PROVE pc'[q] = pc[q] /\ task'[q] = task[q]
        BY <1>1, <1>6 DEF Step
    <2>7. /\ pc[r] = "idle"
          /\ task'[r] = Task(s, t, 0, "idle")
          /\ pc'[r] = "saveRotation" => current[s] = t
          /\ pc'[r] = "saveRotation" /\ Refreshing(s) # {} => s \in overlapped'
        BY <1>3, <2>1 DEF Begin
    <2>8. task'[r].session = s /\ task'[r].token = t
        BY <2>7 DEF Task
    <2>9. ASSUME NEW q \in Request \ {r}, pc[q] = "saveRotation", task[q].session = s
          PROVE  Refreshing(s) # {}
        BY <2>9 DEF Refreshing
    <2>10. Alone(r)'
        BY <2>2, <2>6, <2>7, <2>8, <2>9 DEF Alone
    <2>11. ASSUME NEW q \in Request \ {r} PROVE Alone(q)'
        BY <1>2, <2>2, <2>3, <2>6, <2>7, <2>8, <2>9 DEF Alone
    <2> QED
        BY <2>4, <2>5, <2>10, <2>11 DEF TokensInv
<1>7. ASSUME NEW r \in Request, SaveRotation(r), chain' # chain PROVE TokensInv'
    <2> DEFINE s == task[r].session
               t == task[r].token
               n == issued[s]
    <2>1. s \in Session /\ t \in 1..MaxTokens /\ status[s] # "none" /\ pc[r] = "saveRotation"
        BY <1>7 DEF SaveRotation, RequestsInv, RequestInv
    <2>2. /\ issued' = [issued EXCEPT ![s] = n + 1]
          /\ previous' = [previous EXCEPT ![s] = t]
          /\ current' = [current EXCEPT ![s] = n + 1]
          /\ exchanged' = [exchanged EXCEPT ![s] = exchanged[s] \cup {t}]
        BY <1>7 DEF SaveRotation, Exchange, chain
    <2>3. UNCHANGED <<status, overlapped>> /\ Answer(r)
        BY <1>7 DEF SaveRotation
    <2>4. n \in Nat /\ n > 0
        BY <1>2, <1>3, <2>1, ConstantsAssumption DEF Issuing
    <2>5. s \notin overlapped =>
             /\ t = n
             /\ exchanged[s] = 1..(n - 1)
             /\ \A q \in Request \ {r} : pc[q] = "saveRotation" => task[q].session # s
        BY <1>2, <2>1, <2>4 DEF Alone, TokensAreUsedOnce
    <2> HIDE DEF s, t, n
    <2>6. TokensAreUsedOnce'
        <3> SUFFICES ASSUME NEW x \in Session \ overlapped, issued'[x] > 0
                     PROVE  /\ exchanged'[x] = 1..(issued'[x] - 1)
                            /\ current'[x] = issued'[x]
                            /\ previous'[x] = issued'[x] - 1
            BY <2>3 DEF TokensAreUsedOnce
        <3>1. CASE x = s
            <4>1. /\ issued'[x] = n + 1 /\ current'[x] = n + 1
                  /\ previous'[x] = t /\ exchanged'[x] = exchanged[s] \cup {t}
                BY <1>3, <2>1, <2>2, <3>1
            <4>2. t = n /\ exchanged'[x] = (1..(n - 1)) \cup {n}
                BY <2>5, <3>1, <4>1
            <4>3. (1..(n - 1)) \cup {n} = 1..((n + 1) - 1) /\ (n + 1) - 1 = n
                BY <2>4
            <4> QED
                BY <4>1, <4>2, <4>3
        <3>2. CASE x # s
            BY <1>2, <1>3, <2>1, <2>2, <3>2 DEF TokensAreUsedOnce
        <3> QED
            BY <3>1, <3>2
    <2>7. ASSUME NEW x \in Session PROVE Issuing(x)'
        <3>1. CASE x = s
            <4>1. issued'[x] = n + 1
                BY <1>3, <2>1, <2>2, <3>1
            <4> QED
                BY <2>1, <2>3, <2>4, <3>1, <4>1 DEF Issuing
        <3>2. CASE x # s
            BY <1>2, <1>3, <2>1, <2>2, <2>3, <3>2 DEF Issuing
        <3> QED
            BY <3>1, <3>2
    <2>8. pc'[r] = "idle"
        BY <1>3, <2>3 DEF Answer
    <2>9. ASSUME NEW q \in Request, pc'[q] = "saveRotation"
          PROVE  /\ q # r /\ pc[q] = "saveRotation" /\ task'[q] = task[q]
                 /\ task[q].session \in Session
        <3>1. q # r
            BY <2>8, <2>9
        <3>2. pc'[q] = pc[q] /\ task'[q] = task[q]
            BY <1>1, <1>7, <3>1 DEF Step
        <3> QED
            BY <2>9, <3>1, <3>2 DEF RequestsInv, RequestInv
    <2>10. ASSUME NEW q \in Request PROVE Alone(q)'
        <3> SUFFICES ASSUME pc'[q] = "saveRotation", task'[q].session \notin overlapped'
                     PROVE  /\ task'[q].token = current'[task'[q].session]
                            /\ \A z \in Request \ {q} :
                                  pc'[z] = "saveRotation" => task'[z].session # task'[q].session
            BY DEF Alone
        <3>1. /\ task[q].token = current[task[q].session]
              /\ \A z \in Request \ {q} :
                    pc[z] = "saveRotation" => task[z].session # task[q].session
            BY <1>2, <2>3, <2>9 DEF Alone
        <3>2. task[q].session # s
            BY <2>3, <2>5, <2>9
        <3>3. current'[task[q].session] = current[task[q].session]
            BY <1>3, <2>2, <2>9, <3>2
        <3> QED
            BY <2>9, <3>1, <3>3
    <2> QED
        BY <2>6, <2>7, <2>10 DEF TokensInv
<1> QED
    BY <1>4, <1>5, <1>6, <1>7, ChainStep

-----------------------------------------------------------------------------
(* The sessions and the account                                            *)

\* A step that brings nothing new: no change of the account, no session.
Keeps ==
    /\ account'.epoch = account.epoch
    /\ account'.exists = "yes" => account.exists = "yes"
    /\ account'.banned = "yes" => account.banned = "yes"
    /\ proved' = proved /\ late' = late
    /\ unrevoked => unrevoked'
    /\ Revoking => Revoking'
    /\ \A s \in Session : status'[s] = "live" => status[s] = "live"

\* Every other step creates a session, or is about to end them all, or has just done so, or
\* has failed to.
LEMMA KeepsStep ==
    ASSUME TypeOK, [Next]_vars
    PROVE  \/ Keeps
           \/ \E r \in Request : CreateSession(r)
           \/ Revoking' \/ unrevoked'
           \/ \A s \in Session : status'[s] # "live"
<1> SUFFICES ASSUME ~\E r \in Request : CreateSession(r)
             PROVE  Keeps \/ Revoking' \/ unrevoked' \/ \A s \in Session : status'[s] # "live"
    OBVIOUS
<1>1. \A s \in Session : status'[s] = "live" => status[s] = "live"
    BY StatusStep
<1>2. pc \in [Request -> Stages] /\ status \in [Session -> {"none", "live", "revoked", "gone"}]
    BY DEF TypeOK
<1>3. ASSUME NEW r \in Request, Step(r) \/ Fail(r), pc[r] # "revokeAll" PROVE Revoking => Revoking'
    <2> SUFFICES ASSUME NEW q \in Request, pc[q] = "revokeAll" PROVE Revoking'
        BY DEF Revoking
    <2>1. pc'[q] = pc[q]
        BY <1>3, OthersWait
    <2> QED
        BY <2>1 DEF Revoking
<1>4. ASSUME NEW r \in Request, pc[r] # "revokeAll", Step(r),
             account' = account, UNCHANGED <<proved, late, unrevoked>>
      PROVE  Keeps
    <2>1. unrevoked => unrevoked'
        BY <1>4
    <2> QED
        BY <1>1, <1>3, <1>4, <2>1 DEF Keeps
<1>5. ASSUME NEW r \in Request, \E stage, k : Begin(r, stage, k) PROVE pc[r] # "revokeAll"
    BY <1>5 DEF Begin
<1>6. ASSUME NEW r \in Request, Continue(r, "revokeAll") PROVE Revoking'
    BY <1>2, <1>6 DEF Continue, Revoking
<1>7. ASSUME NEW r \in Request, Step(r)
      PROVE  Keeps \/ Revoking' \/ unrevoked' \/ \A s \in Session : status'[s] # "live"
    <2>1. CASE StartLogin(r) \/ StartGoogleLogin(r) \/ FindCurrent(r) \/ FindOwn(r)
        BY <1>4, <1>5, <1>7, <2>1
        DEF StartLogin, StartGoogleLogin, ReadAccount, FindCurrent, FindOwn
    <2>2. CASE RecordLogin(r) \/ SaveRotation(r) \/ FindPrevious(r) \/ RevokeOthers(r)
        BY <1>4, <1>7, <2>2 DEF RecordLogin, SaveRotation, FindPrevious, RevokeOthers, chain
    <2>3. CASE \/ StartChangePassword(r) \/ StartResetPassword(r) \/ StartBan(r)
               \/ StartDemotion(r) \/ StartLogoutEverywhere(r) \/ StartForceLogout(r)
               \/ StartDeleteAccount(r)
        BY <1>4, <1>5, <1>7, <2>3
        DEF StartChangePassword, StartResetPassword, StartBan, StartDemotion, StartCutoff,
            StartLogoutEverywhere, StartForceLogout, StartDeleteAccount, StartRevokeAll
    <2>4. CASE SaveAccount(r)
        <3>1. CASE Continue(r, "revokeAll")
            BY <1>6, <3>1
        <3>2. CASE account' = account
            <4>1. pc[r] # "revokeAll" /\ UNCHANGED <<proved, late, unrevoked>>
                BY <2>4 DEF SaveAccount, Cutoffs
            <4> QED
                BY <1>4, <1>7, <3>2, <4>1
        <3> QED
            BY <2>4, <3>1, <3>2 DEF SaveAccount
    <2>5. CASE RevokeAll(r)
        <3>1. Revoke(Session)
            BY <2>5 DEF RevokeAll
        <3>2. \A s \in Session : status'[s] # "live"
            BY <1>2, <3>1 DEF Revoke, Live
        <3> QED
            BY <3>2
    <2>6. CASE DeleteUser(r)
        <3>1. /\ account'.epoch = account.epoch /\ account'.banned = account.banned
              /\ account'.exists = "no"
            BY <2>6 DEF DeleteUser, TypeOK
        <3>2. pc[r] # "revokeAll" /\ UNCHANGED <<proved, late>>
            BY <2>6 DEF DeleteUser
        <3>3. unrevoked => unrevoked'
            BY <2>6 DEF DeleteUser
        <3> QED
            BY <1>1, <1>3, <1>7, <3>1, <3>2, <3>3 DEF Keeps
    <2> QED
        BY <1>7, <2>1, <2>2, <2>3, <2>4, <2>5, <2>6 DEF Step
<1>8. ASSUME NEW r \in Request, Fail(r) PROVE Keeps \/ unrevoked'
    <2>1. CASE pc[r] = "revokeAll"
        BY <1>8, <2>1 DEF Fail
    <2>2. CASE pc[r] # "revokeAll"
        <3>1. account' = account /\ UNCHANGED <<proved, late>>
            BY <1>8 DEF Fail
        <3>2. unrevoked => unrevoked'
            BY <1>8 DEF Fail
        <3> QED
            BY <1>1, <1>3, <1>8, <2>2, <3>1, <3>2 DEF Keeps
    <2> QED
        BY <2>1, <2>2
<1>9. ASSUME pc' = pc, UNCHANGED <<proved, late, unrevoked>>, account' = account PROVE Keeps
    <2>1. unrevoked => unrevoked'
        BY <1>9
    <2>2. Revoking => Revoking'
        BY <1>9 DEF Revoking
    <2> QED
        BY <1>1, <1>9, <2>1, <2>2 DEF Keeps
<1>10. ASSUME NEW s \in Session, Logout(s) \/ EndSession(s) \/ Expire(s) PROVE Keeps
    BY <1>9, <1>10 DEF EndSession, Logout, Expire
<1>11. CASE Unban
    <2>1. account' = [exists |-> account.exists, banned |-> "no", epoch |-> account.epoch]
        BY <1>11 DEF Unban, TypeOK
    <2>2. account'.epoch = account.epoch /\ account'.exists = account.exists /\ account'.banned = "no"
        BY <2>1
    <2>3. UNCHANGED <<pc, proved, late>>
        BY <1>11 DEF Unban
    <2>4. unrevoked => unrevoked'
        BY <1>11 DEF Unban
    <2>5. Revoking => Revoking'
        BY <2>3 DEF Revoking
    <2> QED
        BY <1>1, <2>2, <2>3, <2>4, <2>5 DEF Keeps
<1>12. CASE UNCHANGED vars
    BY <1>9, <1>12 DEF vars
<1> QED
    BY <1>7, <1>8, <1>10, <1>11, <1>12 DEF Next

\* What lives on when nothing is to be revoked was opened after the last change.
LEMMA CurrentStep ==
    ASSUME TypeOK, RequestsInv, CurrentInv, [Next]_vars
    PROVE  CurrentInv'
<1>1. SessionsAreCurrent /\ BannedIsOut
    BY DEF CurrentInv
<1>2. CASE Keeps
    BY <1>1, <1>2 DEF Keeps, CurrentInv, SessionsAreCurrent, BannedIsOut, Live
<1>3. CASE Revoking' \/ unrevoked' \/ \A s \in Session : status'[s] # "live"
    BY <1>3 DEF CurrentInv, SessionsAreCurrent, BannedIsOut, Live
<1>4. ASSUME NEW r \in Request, CreateSession(r) PROVE CurrentInv'
    <2>1. PICK s \in Session :
             /\ status' = [status EXCEPT ![s] = "live"]
             /\ proved' = [proved EXCEPT ![s] = task[r].epoch]
             /\ late' = IF task[r].epoch = account.epoch THEN late ELSE late \cup {s}
        BY <1>4 DEF CreateSession
    <2>2. account' = account /\ Answer(r) /\ pc[r] = "createSession" /\ UNCHANGED unrevoked
        BY <1>4 DEF CreateSession
    <2>3. Revoking => Revoking'
        <3> SUFFICES ASSUME NEW q \in Request, pc[q] = "revokeAll" PROVE Revoking'
            BY DEF Revoking
        <3>1. pc'[q] = pc[q]
            BY <2>2 DEF Answer, TypeOK
        <3> QED
            BY <3>1 DEF Revoking
    <2>4. unrevoked => unrevoked'
        BY <2>2
    <2>5. account.banned = "yes" => task[r].epoch # account.epoch
        <3>1. task[r].epoch \in Nat /\ account.epoch \in Nat
            BY ConstantsAssumption DEF TypeOK
        <3> QED
            BY <2>2, <3>1 DEF RequestsInv, RequestInv
    <2>6. status \in [Session -> {"none", "live", "revoked", "gone"}] /\ proved \in [Session -> 0..MaxEpoch]
        BY DEF TypeOK
    <2>7. SessionsAreCurrent'
        BY <1>1, <2>1, <2>2, <2>3, <2>4, <2>6 DEF SessionsAreCurrent, Live
    <2>8. BannedIsOut'
        BY <1>1, <2>1, <2>2, <2>3, <2>4, <2>5, <2>6 DEF BannedIsOut, Live
    <2> QED
        BY <2>7, <2>8 DEF CurrentInv
<1> QED
    BY <1>2, <1>3, <1>4, KeepsStep

-----------------------------------------------------------------------------
(* The theorems                                                            *)

\* The inductive invariant: what each request knows, and what each session has issued.
IInv == TypeOK /\ RequestsInv /\ TokensInv /\ CurrentInv

\* Every step of auth.js, session.js and admin.js on the account or its sessions keeps it.
THEOREM Inductive == Spec => []IInv
<1>1. Init => IInv
    BY SessionsInit DEF IInv
<1>2. IInv /\ [Next]_vars => IInv'
    BY SessionsTypeStep, RequestsStep, TokensStep, CurrentStep DEF IInv
<1> QED
    BY <1>1, <1>2, PTL DEF Spec

\* In every behaviour the state has its type (the documents of models/Session.js).
THEOREM TypeCorrect == Spec => []TypeOK
<1>1. IInv => TypeOK
    BY DEF IInv
<1> QED
    BY <1>1, Inductive, PTL

\* Once a change of the account has revoked its sessions, what lives on was opened after
\* the change: changePassword, resetPassword and the admin routes of routes/auth.js and
\* routes/admin.js.
THEOREM Current == Spec => []SessionsAreCurrent
<1>1. IInv => SessionsAreCurrent
    BY DEF IInv, CurrentInv
<1> QED
    BY <1>1, Inductive, PTL

\* banUser of routes/admin.js signs the account out.
THEOREM SignedOut == Spec => []BannedIsOut
<1>1. IInv => BannedIsOut
    BY DEF IInv, CurrentInv
<1> QED
    BY <1>1, Inductive, PTL

\* rotateRefreshToken of lib/auth/session.js: each token but the newest was exchanged once.
THEOREM UsedOnce == Spec => []TokensAreUsedOnce
<1>1. IInv => TokensAreUsedOnce
    BY DEF IInv, TokensInv
<1> QED
    BY <1>1, Inductive, PTL

\* A revoked session never comes back, whatever save() of a refresh comes late.
THEOREM Sticks == Spec => RevocationSticks
<1>1. TypeOK /\ [Next]_vars =>
          [\A s \in Session : status[s] = "revoked" => status'[s] # "live"]_vars
    BY StatusStep
<1> QED
    BY <1>1, TypeCorrect, PTL DEF Spec, RevocationSticks
=============================================================================
