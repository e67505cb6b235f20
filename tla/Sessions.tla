----------------------------- MODULE Sessions -----------------------------
(***************************************************************************)
(* The sessions of one account.  A session is a chain of refresh tokens:   *)
(* each token is exchanged for the next one, and the document remembers    *)
(* the current and the previous one.  A login reads the account, and       *)
(* creates the session some calls later.  A change or a reset of the       *)
(* password, a ban and the withdrawal of admin access save the account and *)
(* then revoke every session: until both are done the two disagree, and a  *)
(* login or a refresh may come in between.                                 *)
(*                                                                         *)
(* Code: lib/auth/session.js, the login, refresh, logout, password and     *)
(* session routes of routes/auth.js, ban, unban and force-logout of        *)
(* routes/admin.js, DELETE /:id of routes/adminAccounts.js.                *)
(***************************************************************************)
EXTENDS Naturals

CONSTANTS
    Session,      \* bound: the sessions that can be created
    Request,      \* bound: requests in progress at once
    MaxTokens,    \* bound: tokens issued for one session
    MaxEpoch,     \* bound: changes of the account that are to end its sessions
    MaxFailures   \* bound: errors and restarts between two calls of a handler

ASSUME ConstantsAssumption ==
    /\ MaxTokens \in Nat \ {0}
    /\ MaxEpoch \in Nat
    /\ MaxFailures \in Nat
    /\ "none" \notin Session

VARIABLES
    account,     \* account.epoch counts the changes that are to end the sessions
    status,      \* status[s]: of the session's document
    current,     \* current[s]:  refreshTokenHash, as the token's number in the chain
    previous,    \* previous[s]: previousTokenHash, 0 for null
    issued,      \* issued[s]: how many tokens of the chain there are
    proved,      \* proved[s]: the epoch of the account whose login has created s
    pc,          \* where each request stands
    task,        \* the session and token a request is about, the epoch it has seen
    exchanged,   \* history: exchanged[s]: the tokens of s exchanged for another
    overlapped,  \* history: sessions of which two refreshes were in progress at once
    late,        \* history: sessions of a login that the account has changed under
    unrevoked,   \* history: a handler failed before it revoked the sessions
    failures     \* bound

chain == <<current, previous, issued, exchanged, overlapped>>
vars == <<account, status, chain, proved, pc, task, late, unrevoked, failures>>

Task(s, t, e, then) == [session |-> s, token |-> t, epoch |-> e, then |-> then]
NoTask == Task("none", 0, 0, "idle")

\* What ends the sessions, by the first write.
Cutoffs == {"savePassword", "saveBanned", "saveDemoted"}
Stages == Cutoffs \cup
    {"idle", "recordLogin", "createSession", "saveRotation", "findPrevious",
     "revokeOthers", "revokeAll", "deleteUser"}

TypeOK ==
    /\ account \in [exists : {"yes", "no"}, banned : {"yes", "no"}, epoch : 0..MaxEpoch]
    /\ status \in [Session -> {"none", "live", "revoked", "gone"}]
    /\ issued \in [Session -> 0..MaxTokens]
    /\ current \in [Session -> 0..MaxTokens]
    /\ previous \in [Session -> 0..MaxTokens]
    /\ proved \in [Session -> 0..MaxEpoch]
    /\ pc \in [Request -> Stages]
    /\ task \in [Request -> [session : Session \cup {"none"}, token : 0..MaxTokens,
                             epoch : 0..MaxEpoch, then : {"idle", "deleteUser"}]]
    /\ exchanged \in [Session -> SUBSET (1..MaxTokens)]
    /\ overlapped \subseteq Session
    /\ late \subseteq Session
    /\ unrevoked \in BOOLEAN
    /\ failures \in 0..MaxFailures

\* POST /register has created the account; its first session is one like any other.
Init ==
    /\ account = [exists |-> "yes", banned |-> "no", epoch |-> 0]
    /\ status = [s \in Session |-> "none"]
    /\ issued = [s \in Session |-> 0]
    /\ current = [s \in Session |-> 0]
    /\ previous = [s \in Session |-> 0]
    /\ proved = [s \in Session |-> 0]
    /\ pc = [r \in Request |-> "idle"]
    /\ task = [r \in Request |-> NoTask]
    /\ exchanged = [s \in Session |-> {}]
    /\ overlapped = {}
    /\ late = {}
    /\ unrevoked = FALSE
    /\ failures = 0

-----------------------------------------------------------------------------

Begin(r, stage, what) ==
    /\ pc[r] = "idle"
    /\ pc' = [pc EXCEPT ![r] = stage]
    /\ task' = [task EXCEPT ![r] = what]

Continue(r, stage) ==
    /\ pc' = [pc EXCEPT ![r] = stage]
    /\ UNCHANGED task

Answer(r) ==
    /\ pc' = [pc EXCEPT ![r] = "idle"]
    /\ task' = [task EXCEPT ![r] = NoTask]

Live(s) == status[s] = "live"

\* updateMany and updateOne, and save() of a session's document.
Revoke(ss) ==
    status' = [s \in Session |-> IF s \in ss /\ Live(s) THEN "revoked" ELSE status[s]]

-----------------------------------------------------------------------------
(* POST /login, GET /google/callback                                       *)

ReadAccount(r) ==
    /\ Begin(r, "recordLogin", Task("none", 0, account.epoch, "idle"))
    /\ UNCHANGED <<account, status, chain, proved, late, unrevoked, failures>>

\* Mutant: a ban is not looked at.
StartLoginOfAnybody(r) == account.exists = "yes" /\ ReadAccount(r)

\* The account is read; the password is right.
StartLogin(r) == account.exists = "yes" /\ account.banned = "no" /\ ReadAccount(r)

\* GET /google/callback: the account that Google names is read, or linked by its address.
StartGoogleLogin(r) == account.exists = "yes" /\ account.banned = "no" /\ ReadAccount(r)

\* recordSuccessfulLogin saves the user, and throws when the account is gone.
RecordLogin(r) ==
    /\ pc[r] = "recordLogin"
    /\ \/ account.exists = "yes" /\ Continue(r, "createSession")
       \/ account.exists = "no" /\ Answer(r)
    /\ UNCHANGED <<account, status, chain, proved, late, unrevoked, failures>>

CreateSession(r) ==
    /\ pc[r] = "createSession"
    /\ \E s \in Session :
          /\ status[s] = "none"
          /\ status' = [status EXCEPT ![s] = "live"]
          /\ issued' = [issued EXCEPT ![s] = 1]
          /\ current' = [current EXCEPT ![s] = 1]
          /\ proved' = [proved EXCEPT ![s] = task[r].epoch]
          /\ late' = IF task[r].epoch = account.epoch THEN late ELSE late \cup {s}
    /\ Answer(r)
    /\ UNCHANGED <<account, previous, exchanged, overlapped, unrevoked, failures>>

-----------------------------------------------------------------------------
(* POST /refresh: rotateRefreshToken                                       *)

Refreshing(s) == {r \in Request : pc[r] = "saveRotation" /\ task[r].session = s}

\* Mutant: the previous token is accepted as well, for the sake of slow networks.
FindCurrentOrPrevious(r) ==
    \E s \in Session, t \in 1..MaxTokens :
        /\ status[s] # "none" /\ t <= issued[s]
        /\ LET found == Live(s) /\ t \in {current[s], previous[s]}
           IN  /\ Begin(r, IF found THEN "saveRotation" ELSE "findPrevious",
                        Task(s, t, 0, "idle"))
               /\ overlapped' = IF found /\ Refreshing(s) # {}
                                THEN overlapped \cup {s} ELSE overlapped
        /\ UNCHANGED <<account, status, current, previous, issued, exchanged, proved,
                       late, unrevoked, failures>>

\* Somebody presents a token that was issued at some time.
FindCurrent(r) ==
    \E s \in Session, t \in 1..MaxTokens :
        /\ status[s] # "none" /\ t <= issued[s]
        /\ LET found == Live(s) /\ current[s] = t
           IN  /\ Begin(r, IF found THEN "saveRotation" ELSE "findPrevious",
                        Task(s, t, 0, "idle"))
               /\ overlapped' = IF found /\ Refreshing(s) # {}
                                THEN overlapped \cup {s} ELSE overlapped
        /\ UNCHANGED <<account, status, current, previous, issued, exchanged, proved,
                       late, unrevoked, failures>>

Exchange(s, t) == exchanged' = [exchanged EXCEPT ![s] = @ \cup {t}]

\* Mutant: the document is saved as it was loaded, not revoked.
SaveRotationAsLoaded(r) ==
    LET s == task[r].session
        t == task[r].token IN
    /\ pc[r] = "saveRotation"
    /\ issued[s] < MaxTokens
    /\ status' = [status EXCEPT ![s] = "live"]
    /\ issued' = [issued EXCEPT ![s] = @ + 1]
    /\ previous' = [previous EXCEPT ![s] = t]
    /\ current' = [current EXCEPT ![s] = issued[s] + 1]
    /\ Exchange(s, t)
    /\ Answer(r)
    /\ UNCHANGED <<account, proved, overlapped, late, unrevoked, failures>>

\* Mutant: the previous token is not remembered.
SaveRotationForgetful(r) ==
    LET s == task[r].session
        t == task[r].token IN
    /\ pc[r] = "saveRotation"
    /\ issued[s] < MaxTokens
    /\ issued' = [issued EXCEPT ![s] = @ + 1]
    /\ current' = [current EXCEPT ![s] = issued[s] + 1]
    /\ Exchange(s, t)
    /\ Answer(r)
    /\ UNCHANGED <<account, status, previous, proved, overlapped, late, unrevoked, failures>>

\* current.save() writes the hashes and the expiry, and throws when the document is gone.
SaveRotation(r) ==
    LET s == task[r].session
        t == task[r].token IN
    /\ pc[r] = "saveRotation"
    /\ \/ /\ status[s] # "gone"
          /\ issued[s] < MaxTokens
          /\ issued' = [issued EXCEPT ![s] = @ + 1]
          /\ previous' = [previous EXCEPT ![s] = t]
          /\ current' = [current EXCEPT ![s] = issued[s] + 1]
          /\ Exchange(s, t)
       \/ /\ status[s] = "gone"
          /\ UNCHANGED <<issued, previous, current, exchanged>>
    /\ Answer(r)
    /\ UNCHANGED <<account, status, proved, overlapped, late, unrevoked, failures>>

\* The previous token, presented again, is taken for stolen: every session is to end.
FindPrevious(r) ==
    LET s == task[r].session IN
    /\ pc[r] = "findPrevious"
    /\ \/ /\ status[s] # "gone" /\ previous[s] = task[r].token
          /\ Continue(r, "revokeAll")
       \/ /\ status[s] = "gone" \/ previous[s] # task[r].token
          /\ Answer(r)
    /\ UNCHANGED <<account, status, chain, proved, late, unrevoked, failures>>

-----------------------------------------------------------------------------
(* One session at a time, and all the others                               *)

\* POST /logout of one device: revokeSessionByToken finds the session by its current token.
Logout(s) ==
    /\ Live(s)
    /\ Revoke({s})
    /\ UNCHANGED <<account, chain, proved, pc, task, late, unrevoked, failures>>

\* DELETE /sessions/:id
EndSession(s) == account.exists = "yes" /\ account.banned = "no" /\ Logout(s)

\* The request's own session is the one whose current token it brings, if there is one.
FindOwn(r) ==
    \E s \in Session, t \in 1..MaxTokens :
        /\ account.exists = "yes" /\ account.banned = "no"
        /\ status[s] # "none" /\ t <= issued[s]
        /\ Begin(r, "revokeOthers",
                 Task(IF current[s] = t /\ status[s] # "gone" THEN s ELSE "none", 0, 0, "idle"))
        /\ UNCHANGED <<account, status, chain, proved, late, unrevoked, failures>>

RevokeOthers(r) ==
    /\ pc[r] = "revokeOthers"
    /\ Revoke(Session \ {task[r].session})
    /\ Answer(r)
    /\ UNCHANGED <<account, chain, proved, late, unrevoked, failures>>

Expire(s) ==
    /\ status[s] \in {"live", "revoked"}
    /\ status' = [status EXCEPT ![s] = "gone"]
    /\ UNCHANGED <<account, chain, proved, pc, task, late, unrevoked, failures>>

-----------------------------------------------------------------------------
(* What ends every session                                                 *)

StartCutoff(r, first) ==
    /\ account.exists = "yes"
    /\ Begin(r, first, NoTask)
    /\ UNCHANGED <<account, status, chain, proved, late, unrevoked, failures>>

\* POST /change-password has checked the password; a banned account is nobody's.
StartChangePassword(r) == account.banned = "no" /\ StartCutoff(r, "savePassword")

\* POST /reset-password has checked the code, and asks nothing else.
StartResetPassword(r) == StartCutoff(r, "savePassword")

\* banUser, from POST /users/:id/ban or /users/bulk.
StartBan(r) == account.banned = "no" /\ StartCutoff(r, "saveBanned")

\* DELETE /:id of an admin account.
StartDemotion(r) == StartCutoff(r, "saveDemoted")

\* Mutant: the sessions are left alone.
SaveOnly(r) ==
    /\ pc[r] \in Cutoffs
    /\ account.epoch < MaxEpoch
    /\ account' = [account EXCEPT !.epoch = @ + 1,
                                  !.banned = IF pc[r] = "saveBanned" THEN "yes" ELSE @]
    /\ Answer(r)
    /\ UNCHANGED <<status, chain, proved, late, unrevoked, failures>>

\* The account is saved, if it is still there.
SaveAccount(r) ==
    /\ pc[r] \in Cutoffs
    /\ \/ /\ account.exists = "yes"
          /\ account.epoch < MaxEpoch
          /\ account' = [account EXCEPT !.epoch = @ + 1,
                                        !.banned = IF pc[r] = "saveBanned" THEN "yes" ELSE @]
          /\ Continue(r, "revokeAll")
       \/ /\ account.exists = "no"
          /\ Answer(r)
          /\ UNCHANGED account
    /\ UNCHANGED <<status, chain, proved, late, unrevoked, failures>>

StartRevokeAll(r, then) ==
    /\ account.exists = "yes"
    /\ Begin(r, "revokeAll", Task("none", 0, 0, then))
    /\ UNCHANGED <<account, status, chain, proved, late, unrevoked, failures>>

\* POST /logout with everywhere
StartLogoutEverywhere(r) == account.banned = "no" /\ StartRevokeAll(r, "idle")

\* forceLogoutUser, of any account.
StartForceLogout(r) == StartRevokeAll(r, "idle")

\* POST /delete-account revokes, and then deletes the user.
StartDeleteAccount(r) == account.banned = "no" /\ StartRevokeAll(r, "deleteUser")

\* revokeAllSessionsForUser, once the account is saved or nothing is to be saved.
RevokeAll(r) ==
    /\ pc[r] = "revokeAll"
    /\ Revoke(Session)
    /\ IF task[r].then = "idle" THEN Answer(r) ELSE Continue(r, "deleteUser")
    /\ UNCHANGED <<account, chain, proved, late, unrevoked, failures>>

DeleteUser(r) ==
    /\ pc[r] = "deleteUser"
    /\ account' = [account EXCEPT !.exists = "no"]
    /\ Answer(r)
    /\ UNCHANGED <<status, chain, proved, late, unrevoked, failures>>

Unban ==
    /\ account.exists = "yes"
    /\ account.banned = "yes"
    /\ account' = [account EXCEPT !.banned = "no"]
    /\ UNCHANGED <<status, chain, proved, pc, task, late, unrevoked, failures>>

-----------------------------------------------------------------------------

\* The next call throws, or the process restarts; before its first write a request that
\* fails has done nothing.
Fail(r) ==
    /\ pc[r] \in {"createSession", "revokeAll", "deleteUser"}
    /\ failures < MaxFailures
    /\ failures' = failures + 1
    /\ unrevoked' = (unrevoked \/ pc[r] = "revokeAll")
    /\ Answer(r)
    /\ UNCHANGED <<account, status, chain, proved, late>>

Step(r) ==
    \/ StartLogin(r) \/ StartGoogleLogin(r) \/ RecordLogin(r) \/ CreateSession(r)
    \/ FindCurrent(r) \/ SaveRotation(r) \/ FindPrevious(r)
    \/ FindOwn(r) \/ RevokeOthers(r)
    \/ StartChangePassword(r) \/ StartResetPassword(r) \/ StartBan(r) \/ StartDemotion(r)
    \/ SaveAccount(r)
    \/ StartLogoutEverywhere(r) \/ StartForceLogout(r) \/ StartDeleteAccount(r)
    \/ RevokeAll(r) \/ DeleteUser(r)

Next ==
    \/ \E r \in Request : Step(r) \/ Fail(r)
    \/ \E s \in Session : Logout(s) \/ EndSession(s) \/ Expire(s)
    \/ Unban

Spec == Init /\ [][Next]_vars

-----------------------------------------------------------------------------
(* Properties                                                              *)

\* A session that was revoked never comes back, although a refresh that has loaded it
\* before may save it afterwards.
RevocationSticks == [][\A s \in Session : status[s] = "revoked" => status'[s] # "live"]_vars

Revoking == \E r \in Request : pc[r] = "revokeAll"

\* When a change of the account has revoked the sessions, every session that lives on was
\* opened after the change: unless its login was on its way meanwhile, or the handler
\* failed between the change and the revocation.
SessionsAreCurrent ==
    account.exists = "yes" /\ ~Revoking /\ ~unrevoked =>
        \A s \in Session \ late : Live(s) => proved[s] = account.epoch

\* A banned account is signed out, with the same exceptions.
BannedIsOut ==
    account.banned = "yes" /\ ~Revoking /\ ~unrevoked => \A s \in Session \ late : ~Live(s)

\* Every token but the newest was exchanged, once: the newest is the one the session
\* accepts, and the one before it is recognised when somebody presents it again.  Refreshes
\* that overlap exchange one token twice.
TokensAreUsedOnce ==
    \A s \in Session \ overlapped : issued[s] > 0 =>
        /\ exchanged[s] = 1..(issued[s] - 1)
        /\ current[s] = issued[s]
        /\ previous[s] = issued[s] - 1
=============================================================================
