---------------------------- MODULE LoginGuard ----------------------------
(***************************************************************************)
(* What slows down the guessing of one account's password: the locks       *)
(* that failed logins lead to, and the one-time codes of a forgotten       *)
(* password, each worth a few attempts and one reset.  Both count by       *)
(* reading a document, comparing (bcrypt, some tenths of a second), and    *)
(* saving the number they have read, plus one.                             *)
(*                                                                         *)
(* Code: lib/auth/lockout.js, POST /login, /forgot-password and            *)
(* /reset-password of routes/auth.js, the unlock of routes/admin.js,       *)
(* models/PasswordResetOtp.js.                                             *)
(***************************************************************************)
EXTENDS Naturals, FiniteSets

CONSTANTS
    Request,        \* bound: requests in progress at once
    Code,           \* bound: the one-time codes that can be sent
    Thresholds,     \* attempts that lock the account, in ascending order: 5, 10, 20
    MaxAttempts,    \* OTP_MAX_ATTEMPTS
    MaxGuesses,     \* bound: wrong passwords tried since the counter was set to 0
    MaxFailures     \* bound: errors and restarts between two calls of a handler

ASSUME ConstantsAssumption ==
    /\ Thresholds \subseteq Nat \ {0}
    /\ MaxAttempts \in Nat \ {0}
    /\ MaxGuesses \in Nat
    /\ MaxFailures \in Nat
    /\ "none" \notin Code

VARIABLES
    attempts,    \* user.failedLoginAttempts
    lock,        \* user.lockUntil: "off", "on" (to come), or "past"
    code,        \* code[c]: "none", "live" or "gone"
    tries,       \* tries[c]: the field attempts of c's document
    pc,          \* where each request stands
    memory,      \* the attempts and the lock a login has read
    holds,       \* the code a reset has found and the attempts it has read
    guesses,     \* history: wrong passwords tried since the counter was set to 0
    free,        \* history: wrong passwords tried since then or since the last lock
    guessed,     \* history: guessed[c]: the wrong codes tried against c
    resets,      \* history: resets[c]: the passwords that c has reset
    raced,       \* history: logins or unlocks have overlapped, or a login has failed halfway
    racedOn,     \* history: the codes of which two resets have overlapped or one has failed
    failures     \* bound

user == <<attempts, lock, memory, guesses, free, raced>>
codes == <<code, tries, holds, guessed, resets, racedOn>>
vars == <<user, codes, pc, failures>>

NoCode == [code |-> "none", tries |-> 0]

Logins == {"verify", "saveFailure", "saveSuccess", "saveUnlocked"}
Codes == {"deleteCodes", "createCode"}
Resets == {"verifyCode", "saveTry", "savePassword", "deleteCode"}
Stages == {"idle"} \cup Logins \cup Codes \cup Resets

TypeOK ==
    /\ attempts \in 0..MaxGuesses
    /\ lock \in {"off", "on", "past"}
    /\ code \in [Code -> {"none", "live", "gone"}]
    /\ tries \in [Code -> 0..MaxAttempts]
    /\ pc \in [Request -> Stages]
    /\ memory \in [Request -> [attempts : 0..MaxGuesses, lock : {"off", "on", "past"}]]
    /\ holds \in [Request -> [code : Code \cup {"none"}, tries : 0..MaxAttempts]]
    /\ guesses \in 0..MaxGuesses
    /\ free \in 0..MaxGuesses
    /\ guessed \in [Code -> 0..(MaxAttempts + 1)]
    /\ resets \in [Code -> 0..2]
    /\ raced \in BOOLEAN
    /\ racedOn \subseteq Code
    /\ failures \in 0..MaxFailures

Init ==
    /\ attempts = 0
    /\ lock = "off"
    /\ code = [c \in Code |-> "none"]
    /\ tries = [c \in Code |-> 0]
    /\ pc = [r \in Request |-> "idle"]
    /\ memory = [r \in Request |-> [attempts |-> 0, lock |-> "off"]]
    /\ holds = [r \in Request |-> NoCode]
    /\ guesses = 0
    /\ free = 0
    /\ guessed = [c \in Code |-> 0]
    /\ resets = [c \in Code |-> 0]
    /\ raced = FALSE
    /\ racedOn = {}
    /\ failures = 0

-----------------------------------------------------------------------------

Least(m, n) == IF m <= n THEN m ELSE n

Goto(r, stage) == pc' = [pc EXCEPT ![r] = stage]
Others(r, stages) == \E q \in Request \ {r} : pc[q] \in stages

-----------------------------------------------------------------------------
(* POST /login, and the administrator's unlock                             *)

ReadUser(r, stage) ==
    /\ pc[r] = "idle"
    /\ Goto(r, stage)
    /\ memory' = [memory EXCEPT ![r] = [attempts |-> attempts, lock |-> lock]]
    /\ raced' = (raced \/ Others(r, Logins))
    /\ UNCHANGED <<attempts, lock, guesses, free, codes, failures>>

\* Mutant: the lock is not looked at.
StartLoginAnyway(r) == ReadUser(r, "verify")

StartLogin(r) == lock # "on" /\ ReadUser(r, "verify")

StartUnlock(r) == ReadUser(r, "saveUnlocked")

\* The password is right or wrong.
Verify(r) ==
    /\ pc[r] = "verify"
    /\ \/ /\ guesses < MaxGuesses
          /\ memory[r].attempts < MaxGuesses
          /\ Goto(r, "saveFailure")
          /\ guesses' = guesses + 1
          /\ free' = Least(free + 1, MaxGuesses)
       \/ /\ Goto(r, "saveSuccess")
          /\ UNCHANGED <<guesses, free>>
    /\ UNCHANGED <<attempts, lock, memory, raced, codes, failures>>

\* Mutant: the lock begins one attempt late.
RecordFailedLoginLate(r) ==
    LET now == memory[r].attempts + 1 IN
    /\ pc[r] = "saveFailure"
    /\ attempts' = now
    /\ lock' = IF now - 1 \in Thresholds THEN "on" ELSE lock
    /\ free' = IF now - 1 \in Thresholds THEN 0 ELSE free
    /\ Goto(r, "idle")
    /\ UNCHANGED <<memory, guesses, raced, codes, failures>>

\* recordFailedLogin: only the attempt that reaches a threshold sets the lock.
RecordFailedLogin(r) ==
    LET now == memory[r].attempts + 1 IN
    /\ pc[r] = "saveFailure"
    /\ attempts' = now
    /\ lock' = IF now \in Thresholds THEN "on" ELSE lock
    /\ free' = IF now \in Thresholds THEN 0 ELSE free
    /\ Goto(r, "idle")
    /\ UNCHANGED <<memory, guesses, raced, codes, failures>>

\* Mutant: a lock that has passed sets the counter to 0.
LockLapsesClean ==
    /\ lock = "on"
    /\ lock' = "past"
    /\ attempts' = 0
    /\ UNCHANGED <<memory, guesses, free, raced, codes, pc, failures>>

LockLapses ==
    /\ lock = "on"
    /\ lock' = "past"
    /\ UNCHANGED <<attempts, memory, guesses, free, raced, codes, pc, failures>>

\* recordSuccessfulLogin and unlockUser: what is 0 or null already is not written.
SaveClear(r) ==
    /\ pc[r] \in {"saveSuccess", "saveUnlocked"}
    /\ attempts' = IF memory[r].attempts = 0 THEN attempts ELSE 0
    /\ lock' = IF memory[r].lock = "off" THEN lock ELSE "off"
    /\ guesses' = attempts'
    /\ free' = attempts'
    /\ Goto(r, "idle")
    /\ UNCHANGED <<memory, raced, codes, failures>>

-----------------------------------------------------------------------------
(* POST /forgot-password                                                   *)

StartForgot(r) ==
    /\ pc[r] = "idle"
    /\ Goto(r, "deleteCodes")
    /\ UNCHANGED <<user, code, tries, holds, guessed, resets, racedOn, failures>>

DeleteCodes(r) ==
    /\ pc[r] = "deleteCodes"
    /\ code' = [c \in Code |-> IF code[c] = "live" THEN "gone" ELSE code[c]]
    /\ Goto(r, "createCode")
    /\ UNCHANGED <<user, tries, holds, guessed, resets, racedOn, failures>>

CreateCode(r) ==
    /\ pc[r] = "createCode"
    /\ \E c \in Code :
          /\ code[c] = "none"
          /\ code' = [code EXCEPT ![c] = "live"]
    /\ Goto(r, "idle")
    /\ UNCHANGED <<user, tries, holds, guessed, resets, racedOn, failures>>

\* The index on expiresAt, or a reset that finds the code expired.
ExpireCode(c) ==
    /\ code[c] = "live"
    /\ code' = [code EXCEPT ![c] = "gone"]
    /\ UNCHANGED <<user, tries, holds, guessed, resets, racedOn, pc, failures>>

-----------------------------------------------------------------------------
(* POST /reset-password                                                    *)

Using(r, c) == \E q \in Request \ {r} : pc[q] \in Resets /\ holds[q].code = c

\* Mutant: the attempts are not looked at.
FindCodeAnyway(r) ==
    /\ pc[r] = "idle"
    /\ \E c \in Code :
          /\ code[c] = "live"
          /\ holds' = [holds EXCEPT ![r] = [code |-> c, tries |-> tries[c]]]
          /\ racedOn' = IF Using(r, c) THEN racedOn \cup {c} ELSE racedOn
          /\ Goto(r, "verifyCode")
    /\ UNCHANGED <<user, code, tries, guessed, resets, failures>>

\* Any live code of the user; one that has had its attempts is deleted.
FindCode(r) ==
    /\ pc[r] = "idle"
    /\ \E c \in Code :
          /\ code[c] = "live"
          /\ holds' = [holds EXCEPT ![r] = [code |-> c, tries |-> tries[c]]]
          /\ racedOn' = IF Using(r, c) THEN racedOn \cup {c} ELSE racedOn
          /\ Goto(r, IF tries[c] >= MaxAttempts THEN "deleteCode" ELSE "verifyCode")
    /\ UNCHANGED <<user, code, tries, guessed, resets, failures>>

VerifyCode(r) ==
    LET c == holds[r].code IN
    /\ pc[r] = "verifyCode"
    /\ \/ /\ Goto(r, "saveTry")
          /\ guessed' = [guessed EXCEPT ![c] = Least(@ + 1, MaxAttempts + 1)]
       \/ /\ Goto(r, "savePassword")
          /\ UNCHANGED guessed
    /\ UNCHANGED <<user, code, tries, holds, resets, racedOn, failures>>

\* otpDoc.save() throws when the document is gone.
SaveTry(r) ==
    LET c == holds[r].code IN
    /\ pc[r] = "saveTry"
    /\ tries' = IF code[c] = "live" THEN [tries EXCEPT ![c] = holds[r].tries + 1] ELSE tries
    /\ holds' = [holds EXCEPT ![r] = NoCode]
    /\ Goto(r, "idle")
    /\ UNCHANGED <<user, code, guessed, resets, racedOn, failures>>

\* Nothing asks again whether the code is still there.
SavePassword(r) ==
    /\ pc[r] = "savePassword"
    /\ resets' = [resets EXCEPT ![holds[r].code] = Least(@ + 1, 2)]
    /\ Goto(r, "deleteCode")
    /\ UNCHANGED <<user, code, tries, holds, guessed, racedOn, failures>>

\* Mutant: the code outlives the reset.
KeepCode(r) ==
    /\ pc[r] = "deleteCode"
    /\ holds' = [holds EXCEPT ![r] = NoCode]
    /\ Goto(r, "idle")
    /\ UNCHANGED <<user, code, tries, guessed, resets, racedOn, failures>>

DeleteCode(r) ==
    /\ pc[r] = "deleteCode"
    /\ code' = [code EXCEPT ![holds[r].code] = "gone"]
    /\ holds' = [holds EXCEPT ![r] = NoCode]
    /\ Goto(r, "idle")
    /\ UNCHANGED <<user, tries, guessed, resets, racedOn, failures>>

-----------------------------------------------------------------------------

\* The next call throws, or the process restarts: an attempt is not counted, or the code
\* outlives the reset.  Both count as overlaps here.
Fail(r) ==
    /\ pc[r] \in {"saveFailure", "saveTry", "deleteCode"}
    /\ failures < MaxFailures
    /\ failures' = failures + 1
    /\ raced' = (raced \/ pc[r] = "saveFailure")
    /\ racedOn' = IF pc[r] = "saveFailure" THEN racedOn ELSE racedOn \cup {holds[r].code}
    /\ holds' = [holds EXCEPT ![r] = NoCode]
    /\ Goto(r, "idle")
    /\ UNCHANGED <<attempts, lock, memory, guesses, free, code, tries, guessed, resets>>

Step(r) ==
    \/ StartLogin(r) \/ StartUnlock(r) \/ Verify(r) \/ RecordFailedLogin(r) \/ SaveClear(r)
    \/ StartForgot(r) \/ DeleteCodes(r) \/ CreateCode(r)
    \/ FindCode(r) \/ VerifyCode(r) \/ SaveTry(r) \/ SavePassword(r) \/ DeleteCode(r)

Next ==
    \/ \E r \in Request : Step(r) \/ Fail(r)
    \/ \E c \in Code : ExpireCode(c)
    \/ LockLapses

Spec == Init /\ [][Next]_vars

-----------------------------------------------------------------------------
(* Properties                                                              *)

\* No threshold is passed without a lock: once that many wrong passwords have been tried, the
\* account has been locked since, or the one that reached it is about to lock it, however often
\* the lock has lapsed before.  Overlapping logins, or one that fails before it has counted, may
\* pass one.  After the last threshold nothing locks any more until the counter is set to 0.
LockComesInTime ==
    ~raced => \A n \in Thresholds :
        guesses >= n /\ guesses - free < n => \E r \in Request : pc[r] = "saveFailure"

\* While the account is locked nobody is told whether a password is right, but for those
\* whose request was on its way before.
LockHolds == ~raced /\ lock = "on" => \A r \in Request : pc[r] # "verify"

\* Reaching a threshold locks, and a lock that lasts holds; not more: the wrong passwords after
\* the last threshold's lock has lapsed are not limited by it.
LocksAtThresholds == LockComesInTime /\ LockHolds

\* A code takes no more wrong attempts than it should, and resets the password once, unless
\* resets by it overlap or one fails halfway.
CodesAreSpent ==
    \A c \in Code \ racedOn : guessed[c] <= MaxAttempts /\ resets[c] <= 1
=============================================================================
