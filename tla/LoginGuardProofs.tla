------------------------- MODULE LoginGuardProofs --------------------------
(***************************************************************************)
(* Theorems about LoginGuard, for every number of requests, codes and      *)
(* attempts and every set of thresholds.                                   *)
(***************************************************************************)
EXTENDS LoginGuard, TLAPS

\* A wrong password is counted within the bound.
CountInv == \A r \in Request : pc[r] = "saveFailure" => memory[r].attempts < MaxGuesses

\* While logins do not overlap, a login's count is the account's, and the wrong passwords are
\* the ones counted and the one about to be.
AttemptsInv ==
    ~raced =>
        /\ \A r \in Request : pc[r] \in Logins =>
              /\ memory[r].attempts = attempts
              /\ \A q \in Request \ {r} : pc[q] \notin Logins
        /\ (\A r \in Request : pc[r] # "saveFailure") => guesses = attempts
        /\ (\E r \in Request : pc[r] = "saveFailure") => guesses = attempts + 1 /\ free > 0
        /\ free <= guesses

\* No threshold lies between the wrong passwords before the last lock and the ones counted.
LockInv ==
    ~raced =>
        /\ \A n \in Thresholds : attempts >= n => guesses - free >= n
        /\ lock = "on" => \A r \in Request : pc[r] # "verify"

\* A request that has found a code c.
Uses(r, c) == pc[r] \in Resets /\ holds[r].code = c

\* A code of which no two resets overlap: what it has been used for, by the stage of the one
\* request that uses it, if there is one.
CodeInv(c) ==
    /\ code[c] = "none" => guessed[c] = 0 /\ resets[c] = 0 /\ tries[c] = 0
    /\ \A r \in Request : Uses(r, c) =>
          /\ code[c] # "none"
          /\ \A q \in Request \ {r} : ~Uses(q, c)
          /\ pc[r] = "verifyCode" => guessed[c] <= holds[r].tries /\ resets[c] = 0
          /\ pc[r] = "saveTry" => guessed[c] <= holds[r].tries + 1 /\ resets[c] = 0
          /\ pc[r] = "savePassword" => resets[c] = 0
    /\ code[c] = "live" /\ (\A r \in Request : ~Uses(r, c)) =>
          guessed[c] <= tries[c] /\ resets[c] = 0
    /\ guessed[c] <= MaxAttempts /\ resets[c] <= 1

\* A request in a reset has found a code, which had an attempt left unless it is to be deleted.
HoldsInv ==
    \A r \in Request :
        /\ pc[r] \in Resets => holds[r].code \in Code
        /\ pc[r] \in {"verifyCode", "saveTry", "savePassword"} => holds[r].tries < MaxAttempts

CodesInv == HoldsInv /\ \A c \in Code \ racedOn : CodeInv(c)

IInv == TypeOK /\ CountInv /\ AttemptsInv /\ LockInv /\ CodesInv

-----------------------------------------------------------------------------
(* Types                                                                   *)

LEMMA GuardInit == Init => IInv
<1> SUFFICES ASSUME Init PROVE IInv
    OBVIOUS
<1> USE ConstantsAssumption DEF Init
<1>1. TypeOK
    <2>1. NoCode \in [code : Code \cup {"none"}, tries : 0..MaxAttempts]
        BY DEF NoCode
    <2>2. raced \in BOOLEAN
        OBVIOUS
    <2>3. /\ memory \in [Request -> [attempts : 0..MaxGuesses, lock : {"off", "on", "past"}]]
          /\ holds \in [Request -> [code : Code \cup {"none"}, tries : 0..MaxAttempts]]
        BY <2>1
    <2>4. /\ attempts \in 0..MaxGuesses /\ guesses \in 0..MaxGuesses /\ free \in 0..MaxGuesses
          /\ failures \in 0..MaxFailures
          /\ tries \in [Code -> 0..MaxAttempts] /\ guessed \in [Code -> 0..(MaxAttempts + 1)]
          /\ resets \in [Code -> 0..2]
        OBVIOUS
    <2>5. /\ lock \in {"off", "on", "past"} /\ code \in [Code -> {"none", "live", "gone"}]
          /\ pc \in [Request -> Stages] /\ racedOn \subseteq Code
        BY DEF Stages
    <2> QED
        BY <2>2, <2>3, <2>4, <2>5 DEF TypeOK
<1>2. CountInv /\ AttemptsInv /\ LockInv
    BY DEF CountInv, AttemptsInv, LockInv, Logins
<1>3. CodesInv
    BY DEF CodesInv, HoldsInv, CodeInv, Uses, Resets
<1> QED
    BY <1>1, <1>2, <1>3 DEF IInv

LEMMA LeastBounds ==
    ASSUME NEW m \in Nat, NEW n \in Nat
    PROVE  Least(m, n) \in 0..n /\ Least(m, n) <= m /\ (m <= n => Least(m, n) = m)
BY DEF Least

LEMMA GuardTypeStep == TypeOK /\ CountInv /\ HoldsInv /\ [Next]_vars => TypeOK'
<1> SUFFICES ASSUME TypeOK, CountInv, HoldsInv, [Next]_vars PROVE TypeOK'
    OBVIOUS
<1> USE ConstantsAssumption DEF TypeOK
<1>1. ASSUME NEW r \in Request, NEW stage \in Stages, Goto(r, stage)
      PROVE  pc' \in [Request -> Stages]
    BY <1>1 DEF Goto
<1>2. NoCode \in [code : Code \cup {"none"}, tries : 0..MaxAttempts]
    BY DEF NoCode
<1>3. ASSUME NEW r \in Request, NEW stage \in Stages, ReadUser(r, stage) PROVE TypeOK'
    <2>1. raced' \in BOOLEAN
        BY <1>3 DEF ReadUser
    <2>2. memory' \in [Request -> [attempts : 0..MaxGuesses, lock : {"off", "on", "past"}]]
        BY <1>3 DEF ReadUser
    <2> QED
        BY <1>1, <1>3, <2>1, <2>2 DEF ReadUser, codes
<1>4. ASSUME NEW r \in Request, Verify(r) PROVE TypeOK'
    <2>1. guesses' \in 0..MaxGuesses /\ free' \in 0..MaxGuesses
        <3>1. free + 1 \in Nat /\ MaxGuesses \in Nat
            OBVIOUS
        <3>2. Least(free + 1, MaxGuesses) \in 0..MaxGuesses
            BY <3>1, LeastBounds
        <3>3. CASE guesses < MaxGuesses /\ guesses' = guesses + 1 /\ free' = Least(free + 1, MaxGuesses)
            BY <3>2, <3>3
        <3>4. CASE guesses' = guesses /\ free' = free
            BY <3>4
        <3> QED
            BY <1>4, <3>3, <3>4 DEF Verify
    <2>2. raced' \in BOOLEAN
        BY <1>4 DEF Verify
    <2> QED
        BY <1>1, <1>4, <2>1, <2>2 DEF Verify, codes, Stages, Logins
<1>5. ASSUME NEW r \in Request, RecordFailedLogin(r) PROVE TypeOK'
    <2>1. attempts' \in 0..MaxGuesses /\ free' \in 0..MaxGuesses
        BY <1>5 DEF RecordFailedLogin, CountInv
    <2>2. raced' \in BOOLEAN
        BY <1>5 DEF RecordFailedLogin
    <2> QED
        BY <1>1, <1>5, <2>1, <2>2 DEF RecordFailedLogin, codes, Stages
<1>6. ASSUME NEW r \in Request, SaveClear(r) PROVE TypeOK'
    <2>1. attempts' \in 0..MaxGuesses /\ guesses' = attempts' /\ free' = attempts'
        BY <1>6 DEF SaveClear
    <2>2. raced' \in BOOLEAN
        BY <1>6 DEF SaveClear
    <2> QED
        BY <1>1, <1>6, <2>1, <2>2 DEF SaveClear, codes, Stages
<1>7. CASE LockLapses
    BY <1>7 DEF LockLapses, codes
<1>8. ASSUME NEW r \in Request, StartForgot(r) \/ DeleteCodes(r) \/ CreateCode(r) PROVE TypeOK'
    <2>1. code' \in [Code -> {"none", "live", "gone"}]
        BY <1>8 DEF StartForgot, DeleteCodes, CreateCode
    <2>2. pc' \in [Request -> Stages]
        BY <1>1, <1>8 DEF StartForgot, DeleteCodes, CreateCode, Stages, Codes
    <2>3. UNCHANGED <<user, tries, holds, guessed, resets, racedOn, failures>>
        BY <1>8 DEF StartForgot, DeleteCodes, CreateCode
    <2> QED
        BY <2>1, <2>2, <2>3 DEF user
<1>9. ASSUME NEW c \in Code, ExpireCode(c) PROVE TypeOK'
    BY <1>9 DEF ExpireCode, user
<1>10. ASSUME NEW r \in Request, FindCode(r) PROVE TypeOK'
    <2>1. holds' \in [Request -> [code : Code \cup {"none"}, tries : 0..MaxAttempts]]
        BY <1>10 DEF FindCode
    <2>2. racedOn' \subseteq Code
        BY <1>10 DEF FindCode
    <2>3. pc' \in [Request -> Stages]
        BY <1>1, <1>10 DEF FindCode, Stages, Resets
    <2> QED
        BY <1>10, <2>1, <2>2, <2>3 DEF FindCode, user
<1>11. ASSUME NEW r \in Request, VerifyCode(r) PROVE TypeOK'
    <2>1. holds[r].code \in Code
        BY <1>11 DEF VerifyCode, HoldsInv, Resets
    <2>2. guessed[holds[r].code] + 1 \in Nat /\ MaxAttempts + 1 \in Nat
        BY <2>1
    <2>3. Least(guessed[holds[r].code] + 1, MaxAttempts + 1) \in 0..(MaxAttempts + 1)
        BY <2>2, LeastBounds
    <2>4. guessed' \in [Code -> 0..(MaxAttempts + 1)]
        BY <1>11, <2>3 DEF VerifyCode
    <2>5. pc' \in [Request -> Stages]
        BY <1>1, <1>11 DEF VerifyCode, Stages, Resets
    <2> QED
        BY <1>11, <2>4, <2>5 DEF VerifyCode, user
<1>12. ASSUME NEW r \in Request, SaveTry(r) PROVE TypeOK'
    <2>1. tries' \in [Code -> 0..MaxAttempts]
        <3>1. holds[r].code \in Code /\ holds[r].tries < MaxAttempts /\ holds[r].tries \in Nat
            BY <1>12 DEF SaveTry, HoldsInv, Resets
        <3>2. holds[r].tries + 1 \in 0..MaxAttempts
            BY <3>1
        <3> QED
            BY <1>12, <3>2 DEF SaveTry
    <2>2. holds' \in [Request -> [code : Code \cup {"none"}, tries : 0..MaxAttempts]]
        BY <1>2, <1>12 DEF SaveTry
    <2> QED
        BY <1>1, <1>12, <2>1, <2>2 DEF SaveTry, user, Stages
<1>13. ASSUME NEW r \in Request, SavePassword(r) PROVE TypeOK'
    <2>1. holds[r].code \in Code
        BY <1>13 DEF SavePassword, HoldsInv, Resets
    <2>2. resets[holds[r].code] + 1 \in Nat /\ 2 \in Nat
        BY <2>1
    <2>3. Least(resets[holds[r].code] + 1, 2) \in 0..2
        BY <2>2, LeastBounds
    <2>4. resets' \in [Code -> 0..2]
        BY <1>13, <2>3 DEF SavePassword
    <2> QED
        BY <1>1, <1>13, <2>4 DEF SavePassword, user, Stages, Resets
<1>14. ASSUME NEW r \in Request, DeleteCode(r) PROVE TypeOK'
    <2>1. holds' \in [Request -> [code : Code \cup {"none"}, tries : 0..MaxAttempts]]
        BY <1>2, <1>14 DEF DeleteCode
    <2>2. code' \in [Code -> {"none", "live", "gone"}]
        BY <1>14 DEF DeleteCode
    <2> QED
        BY <1>1, <1>14, <2>1, <2>2 DEF DeleteCode, user, Stages
<1>15. ASSUME NEW r \in Request, Fail(r) PROVE TypeOK'
    <2>1. holds' \in [Request -> [code : Code \cup {"none"}, tries : 0..MaxAttempts]]
        BY <1>2, <1>15 DEF Fail
    <2>2. raced' \in BOOLEAN
        BY <1>15 DEF Fail
    <2>3. racedOn' \subseteq Code
        <3>1. pc[r] \in {"saveTry", "deleteCode"} => holds[r].code \in Code
            BY DEF HoldsInv, Resets
        <3>2. \/ racedOn' = racedOn
              \/ pc[r] \in {"saveTry", "deleteCode"} /\ racedOn' = racedOn \cup {holds[r].code}
            BY <1>15 DEF Fail
        <3> QED
            BY <3>1, <3>2
    <2> QED
        BY <1>1, <1>15, <2>1, <2>2, <2>3 DEF Fail, Stages
<1>16. CASE UNCHANGED vars
    BY <1>16 DEF vars, user, codes
<1> QED
    BY <1>3, <1>4, <1>5, <1>6, <1>7, <1>8, <1>9, <1>10, <1>11, <1>12, <1>13, <1>14, <1>15, <1>16
    DEF Next, Step, StartLogin, StartUnlock, Stages, Logins


-----------------------------------------------------------------------------
(* Logins and the lock                                                     *)

\* What the requests about codes leave alone.
Elsewhere ==
    /\ user' = user
    /\ \A r \in Request : pc'[r] = pc[r] \/ (pc[r] \notin Logins /\ pc'[r] \notin Logins)

LEMMA LoginSteps ==
    ASSUME TypeOK, [Next]_vars
    PROVE  \/ Elsewhere
           \/ \E r \in Request :
                 \/ StartLogin(r) \/ StartUnlock(r) \/ Verify(r) \/ RecordFailedLogin(r)
                 \/ SaveClear(r) \/ (pc[r] = "saveFailure" /\ Fail(r))
           \/ LockLapses
<1>0. pc \in [Request -> Stages]
    BY DEF TypeOK
<1>1. ASSUME NEW r \in Request, NEW stage, Goto(r, stage), stage \notin Logins, pc[r] \notin Logins,
             user' = user
      PROVE  Elsewhere
    BY <1>0, <1>1 DEF Elsewhere, Goto
<1>2. ASSUME NEW r \in Request, StartForgot(r) \/ DeleteCodes(r) \/ CreateCode(r) PROVE Elsewhere
    BY <1>1, <1>2 DEF StartForgot, DeleteCodes, CreateCode, Logins
<1>3. ASSUME NEW r \in Request, FindCode(r) PROVE Elsewhere
    BY <1>1, <1>3 DEF FindCode, Logins
<1>4. ASSUME NEW r \in Request, VerifyCode(r) PROVE Elsewhere
    BY <1>1, <1>4 DEF VerifyCode, Logins
<1>5. ASSUME NEW r \in Request, SaveTry(r) \/ SavePassword(r) \/ DeleteCode(r) PROVE Elsewhere
    BY <1>1, <1>5 DEF SaveTry, SavePassword, DeleteCode, Logins
<1>6. ASSUME NEW r \in Request, Fail(r), pc[r] # "saveFailure" PROVE Elsewhere
    <2>1. raced' = raced
        BY <1>6 DEF Fail, TypeOK
    <2>2. pc[r] \notin Logins /\ "idle" \notin Logins
        BY <1>6 DEF Fail, Logins
    <2>3. Goto(r, "idle") /\ UNCHANGED <<attempts, lock, memory, guesses, free>>
        BY <1>6 DEF Fail
    <2> QED
        BY <1>1, <2>1, <2>2, <2>3 DEF user
<1>7. ASSUME NEW c \in Code, ExpireCode(c) PROVE Elsewhere
    BY <1>7 DEF ExpireCode, Elsewhere
<1>8. CASE UNCHANGED vars
    BY <1>8 DEF vars, Elsewhere
<1> QED
    BY <1>2, <1>3, <1>4, <1>5, <1>6, <1>7, <1>8 DEF Next, Step

\* One login at a time counts right, and locks in time.
LEMMA LoginInvStep ==
    ASSUME TypeOK, CountInv, AttemptsInv, LockInv, [Next]_vars
    PROVE  CountInv' /\ AttemptsInv' /\ LockInv'
<1>1. /\ attempts \in Nat /\ guesses \in Nat /\ free \in Nat
      /\ MaxGuesses \in Nat /\ free <= MaxGuesses
      /\ pc \in [Request -> Stages] /\ DOMAIN memory = Request
      /\ \A r \in Request : memory[r].attempts \in Nat
      /\ Thresholds \subseteq Nat \ {0}
    BY ConstantsAssumption DEF TypeOK
<1>2. CASE Elsewhere
    <2>1. UNCHANGED <<attempts, lock, memory, guesses, free, raced>>
        BY <1>2 DEF Elsewhere, user
    <2>2. \A r \in Request :
             /\ pc'[r] \in Logins <=> pc[r] \in Logins
             /\ \A stage \in Logins : pc'[r] = stage <=> pc[r] = stage
        BY <1>2 DEF Elsewhere
    <2>3. \A r \in Request :
             /\ pc'[r] = "saveFailure" <=> pc[r] = "saveFailure"
             /\ pc'[r] = "verify" <=> pc[r] = "verify"
        BY <2>2 DEF Logins
    <2>4. CountInv'
        BY <2>1, <2>3 DEF CountInv
    <2>5. AttemptsInv'
        BY <2>1, <2>2, <2>3 DEF AttemptsInv
    <2>6. LockInv'
        BY <2>1, <2>3 DEF LockInv
    <2> QED
        BY <2>4, <2>5, <2>6
<1>3. ASSUME NEW r \in Request, NEW stage \in {"verify", "saveUnlocked"}, ReadUser(r, stage),
             stage = "verify" => lock # "on"
      PROVE  CountInv' /\ AttemptsInv' /\ LockInv'
    <2>1. /\ UNCHANGED <<attempts, lock, guesses, free>>
          /\ pc[r] = "idle" /\ pc' = [pc EXCEPT ![r] = stage]
          /\ memory' = [memory EXCEPT ![r] = [attempts |-> attempts, lock |-> lock]]
        BY <1>3 DEF ReadUser, Goto
    <2>2. raced' = (raced \/ Others(r, Logins))
        BY <1>3 DEF ReadUser
    <2>3. ~raced' => ~raced /\ \A q \in Request \ {r} : pc[q] \notin Logins
        BY <2>2 DEF Others
    <2>4. \A q \in Request \ {r} : pc'[q] = pc[q] /\ memory'[q] = memory[q]
        BY <1>1, <2>1
    <2>5. pc'[r] = stage /\ memory'[r].attempts = attempts
        BY <1>1, <2>1
    <2>6. CountInv'
        BY <2>4, <2>5 DEF CountInv
    <2>7. AttemptsInv'
        BY <2>1, <2>3, <2>4, <2>5 DEF AttemptsInv, Logins
    <2>8. LockInv'
        BY <1>3, <2>1, <2>3, <2>4, <2>5 DEF LockInv
    <2> QED
        BY <2>6, <2>7, <2>8
<1>4. ASSUME NEW r \in Request, Verify(r) PROVE CountInv' /\ AttemptsInv' /\ LockInv'
    <2>1. UNCHANGED <<attempts, lock, memory>> /\ pc[r] = "verify"
        BY <1>4 DEF Verify
    <2>2. ~raced' => ~raced
        BY <1>4 DEF Verify
    <2>3. CASE /\ memory[r].attempts < MaxGuesses /\ Goto(r, "saveFailure")
               /\ guesses < MaxGuesses /\ guesses' = guesses + 1
               /\ free' = Least(free + 1, MaxGuesses)
        <3>1. pc' = [pc EXCEPT ![r] = "saveFailure"]
            BY <2>3 DEF Goto
        <3>2. free <= guesses => free' = free + 1
            BY <1>1, <2>3 DEF Least
        <3>3. CountInv'
            BY <1>1, <2>1, <2>3, <3>1 DEF CountInv
        <3>4. AttemptsInv'
            BY <1>1, <2>1, <2>2, <2>3, <3>1, <3>2 DEF AttemptsInv, Logins
        <3>5. LockInv'
            BY <1>1, <2>1, <2>2, <2>3, <3>1, <3>2 DEF AttemptsInv, LockInv
        <3> QED
            BY <3>3, <3>4, <3>5
    <2>4. CASE Goto(r, "saveSuccess") /\ UNCHANGED <<guesses, free>>
        <3>1. pc' = [pc EXCEPT ![r] = "saveSuccess"]
            BY <2>4 DEF Goto
        <3>2. CountInv'
            BY <1>1, <2>1, <3>1 DEF CountInv
        <3>3. AttemptsInv'
            BY <1>1, <2>1, <2>2, <2>4, <3>1 DEF AttemptsInv, Logins
        <3>4. LockInv'
            BY <1>1, <2>1, <2>2, <2>4, <3>1 DEF LockInv
        <3> QED
            BY <3>2, <3>3, <3>4
    <2> QED
        BY <1>4, <2>3, <2>4 DEF Verify
<1>5. ASSUME NEW r \in Request, RecordFailedLogin(r) PROVE CountInv' /\ AttemptsInv' /\ LockInv'
    <2> DEFINE now == memory[r].attempts + 1
    <2>1. /\ UNCHANGED <<memory, guesses>> /\ pc[r] = "saveFailure"
          /\ pc' = [pc EXCEPT ![r] = "idle"]
          /\ attempts' = now
          /\ lock' = IF now \in Thresholds THEN "on" ELSE lock
          /\ free' = IF now \in Thresholds THEN 0 ELSE free
        BY <1>5 DEF RecordFailedLogin, Goto
    <2>2. ~raced' => ~raced
        BY <1>5 DEF RecordFailedLogin
    <2>3. ~raced' => /\ now = attempts + 1 /\ guesses = now /\ free > 0 /\ free <= guesses
                     /\ \A q \in Request \ {r} : pc'[q] \notin Logins
                     /\ pc'[r] = "idle"
        BY <1>1, <2>1, <2>2 DEF AttemptsInv, Logins
    <2>4. now \in Nat
        BY <1>1
    <2> HIDE DEF now
    <2>5. CountInv'
        BY <1>1, <2>1 DEF CountInv
    <2>6. AttemptsInv'
        BY <1>1, <2>1, <2>3, <2>4 DEF AttemptsInv, Logins
    <2>7. ASSUME ~raced', NEW n \in Thresholds, attempts' >= n PROVE guesses' - free' >= n
        <3>1. CASE now \in Thresholds
            BY <1>1, <2>1, <2>3, <2>4, <2>7, <3>1
        <3>2. CASE now \notin Thresholds
            <4>1. attempts >= n
                BY <1>1, <2>1, <2>3, <2>4, <2>7, <3>2
            <4> QED
                BY <2>1, <2>2, <2>7, <3>2, <4>1 DEF LockInv
        <3> QED
            BY <3>1, <3>2
    <2>8. LockInv'
        BY <2>3, <2>7 DEF LockInv, Logins
    <2> QED
        BY <2>5, <2>6, <2>8
<1>6. ASSUME NEW r \in Request, SaveClear(r) PROVE CountInv' /\ AttemptsInv' /\ LockInv'
    <2>1. /\ UNCHANGED memory /\ pc[r] \in {"saveSuccess", "saveUnlocked"}
          /\ pc' = [pc EXCEPT ![r] = "idle"]
          /\ attempts' = IF memory[r].attempts = 0 THEN attempts ELSE 0
          /\ guesses' = attempts' /\ free' = attempts'
        BY <1>6 DEF SaveClear, Goto
    <2>2. ~raced' => ~raced
        BY <1>6 DEF SaveClear
    <2>3. ~raced' => /\ attempts' = 0 /\ pc'[r] = "idle"
                     /\ \A q \in Request \ {r} : pc'[q] \notin Logins
        BY <1>1, <2>1, <2>2 DEF AttemptsInv, Logins
    <2>4. CountInv'
        BY <1>1, <2>1 DEF CountInv
    <2>5. AttemptsInv'
        BY <1>1, <2>1, <2>3 DEF AttemptsInv, Logins
    <2>6. LockInv'
        BY <1>1, <2>1, <2>3 DEF LockInv, Logins
    <2> QED
        BY <2>4, <2>5, <2>6
<1>7. ASSUME NEW r \in Request, pc[r] = "saveFailure", Fail(r)
      PROVE  CountInv' /\ AttemptsInv' /\ LockInv'
    <2>1. raced'
        BY <1>7 DEF Fail
    <2>2. pc' = [pc EXCEPT ![r] = "idle"] /\ UNCHANGED memory
        BY <1>7 DEF Fail, Goto
    <2>3. CountInv'
        BY <1>1, <2>2 DEF CountInv
    <2> QED
        BY <2>1, <2>3 DEF AttemptsInv, LockInv
<1>8. CASE LockLapses
    <2>1. UNCHANGED <<attempts, memory, guesses, free, pc>> /\ lock' = "past"
        BY <1>8 DEF LockLapses
    <2>2. ~raced' => ~raced
        BY <1>8 DEF LockLapses
    <2>3. CountInv' /\ AttemptsInv'
        BY <2>1, <2>2 DEF CountInv, AttemptsInv
    <2>4. LockInv'
        BY <2>1, <2>2 DEF LockInv
    <2> QED
        BY <2>3, <2>4
<1> QED
    BY <1>2, <1>3, <1>4, <1>5, <1>6, <1>7, <1>8, LoginSteps DEF StartLogin, StartUnlock

-----------------------------------------------------------------------------
(* Codes and resets                                                        *)

\* What the logins leave alone.
CodesAlone ==
    /\ codes' = codes
    /\ \A r \in Request : pc'[r] = pc[r] \/ (pc[r] \notin Resets /\ pc'[r] \notin Resets)

LEMMA CodeSteps ==
    ASSUME TypeOK, [Next]_vars
    PROVE  \/ CodesAlone
           \/ \E r \in Request :
                 \/ DeleteCodes(r) \/ CreateCode(r) \/ FindCode(r) \/ VerifyCode(r) \/ SaveTry(r)
                 \/ SavePassword(r) \/ DeleteCode(r) \/ Fail(r)
           \/ \E c \in Code : ExpireCode(c)
<1>0. pc \in [Request -> Stages]
    BY DEF TypeOK
<1>1. ASSUME NEW r \in Request, NEW stage, Goto(r, stage), stage \notin Resets, pc[r] \notin Resets,
             codes' = codes
      PROVE  CodesAlone
    BY <1>0, <1>1 DEF CodesAlone, Goto
<1>2. ASSUME NEW r \in Request, StartLogin(r) \/ StartUnlock(r) PROVE CodesAlone
    BY <1>1, <1>2 DEF StartLogin, StartUnlock, ReadUser, Resets
<1>3. ASSUME NEW r \in Request, Verify(r) PROVE CodesAlone
    BY <1>1, <1>3 DEF Verify, Resets
<1>4. ASSUME NEW r \in Request, RecordFailedLogin(r) \/ SaveClear(r) PROVE CodesAlone
    BY <1>1, <1>4 DEF RecordFailedLogin, SaveClear, Resets
<1>5. ASSUME NEW r \in Request, StartForgot(r) PROVE CodesAlone
    BY <1>1, <1>5 DEF StartForgot, Resets, codes
<1>6. CASE LockLapses
    BY <1>6 DEF LockLapses, CodesAlone
<1>7. CASE UNCHANGED vars
    BY <1>7 DEF vars, CodesAlone
<1> QED
    BY <1>2, <1>3, <1>4, <1>5, <1>6, <1>7 DEF Next, Step

LEMMA CodesStep ==
    ASSUME TypeOK, CodesInv, [Next]_vars
    PROVE  CodesInv'
<1>0. HoldsInv /\ \A c \in Code \ racedOn : CodeInv(c)
    BY DEF CodesInv
<1>1. /\ code \in [Code -> {"none", "live", "gone"}] /\ tries \in [Code -> 0..MaxAttempts]
      /\ guessed \in [Code -> Nat] /\ resets \in [Code -> Nat]
      /\ pc \in [Request -> Stages] /\ DOMAIN holds = Request
      /\ \A r \in Request : holds[r].tries \in Nat
      /\ MaxAttempts \in Nat \ {0}
    <2>1. /\ code \in [Code -> {"none", "live", "gone"}] /\ tries \in [Code -> 0..MaxAttempts]
          /\ pc \in [Request -> Stages] /\ DOMAIN holds = Request
        BY DEF TypeOK
    <2>2. guessed \in [Code -> Nat] /\ resets \in [Code -> Nat]
        BY ConstantsAssumption DEF TypeOK
    <2>3. \A r \in Request : holds[r].tries \in Nat
        BY ConstantsAssumption DEF TypeOK
    <2> QED
        BY <2>1, <2>2, <2>3, ConstantsAssumption
<1>2. CASE CodesAlone
    <2>1. UNCHANGED <<code, tries, holds, guessed, resets, racedOn>>
        BY <1>2 DEF CodesAlone, codes
    <2>2. \A r \in Request :
             /\ pc'[r] \in Resets <=> pc[r] \in Resets
             /\ pc[r] \in Resets => pc'[r] = pc[r]
        BY <1>2 DEF CodesAlone
    <2>3. HoldsInv'
        BY <1>0, <2>1, <2>2 DEF HoldsInv, Resets
    <2>4. ASSUME NEW c \in Code \ racedOn PROVE CodeInv(c)'
        BY <1>0, <2>1, <2>2 DEF CodeInv, Uses
    <2> QED
        BY <2>1, <2>3, <2>4 DEF CodesInv
<1>3. ASSUME NEW r \in Request, DeleteCodes(r) \/ CreateCode(r) PROVE CodesInv'
    <2>1. UNCHANGED <<tries, holds, guessed, resets, racedOn>>
        BY <1>3 DEF DeleteCodes, CreateCode
    <2>2. pc[r] \notin Resets /\ pc'[r] \notin Resets /\ \A q \in Request \ {r} : pc'[q] = pc[q]
        BY <1>1, <1>3 DEF DeleteCodes, CreateCode, Goto, Resets
    <2>3. \A q \in Request : pc[q] \in Resets \/ pc'[q] \in Resets => q # r /\ pc'[q] = pc[q]
        BY <2>2
    <2>4. HoldsInv'
        BY <1>0, <2>1, <2>3 DEF HoldsInv, Resets
    <2>5. ASSUME NEW c \in Code
          PROVE  /\ code'[c] = "none" => code[c] = "none"
                 /\ code'[c] = "live" => code[c] \in {"none", "live"}
        BY <1>1, <1>3 DEF DeleteCodes, CreateCode
    <2>6. ASSUME NEW c \in Code \ racedOn PROVE CodeInv(c)'
        <3>1. \A q \in Request : Uses(q, c)' <=> Uses(q, c)
            BY <2>1, <2>3 DEF Uses
        <3>2. CodeInv(c)
            BY <1>0
        <3>3. ASSUME code[c] # "none" PROVE code'[c] # "none"
            BY <1>1, <1>3, <3>3 DEF DeleteCodes, CreateCode
        <3> QED
            BY <1>1, <2>1, <2>3, <2>5, <3>1, <3>2, <3>3 DEF CodeInv, Uses
    <2> QED
        BY <2>1, <2>4, <2>6 DEF CodesInv
<1>4. ASSUME NEW r \in Request, FindCode(r) PROVE CodesInv'
    <2>1. PICK c \in Code :
             /\ code[c] = "live"
             /\ holds' = [holds EXCEPT ![r] = [code |-> c, tries |-> tries[c]]]
             /\ racedOn' = IF Using(r, c) THEN racedOn \cup {c} ELSE racedOn
             /\ Goto(r, IF tries[c] >= MaxAttempts THEN "deleteCode" ELSE "verifyCode")
        BY <1>4 DEF FindCode
    <2>2. UNCHANGED <<code, tries, guessed, resets>> /\ pc[r] = "idle"
        BY <1>4 DEF FindCode
    <2>3. /\ pc'[r] = IF tries[c] >= MaxAttempts THEN "deleteCode" ELSE "verifyCode"
          /\ holds'[r].code = c /\ holds'[r].tries = tries[c]
          /\ \A q \in Request \ {r} : pc'[q] = pc[q] /\ holds'[q] = holds[q]
        BY <1>1, <2>1 DEF Goto
    <2>4. HoldsInv'
        BY <1>0, <1>1, <2>3 DEF HoldsInv, Resets
    <2>5. racedOn \subseteq racedOn' /\ (c \notin racedOn' => \A q \in Request \ {r} : ~Uses(q, c))
        BY <2>1 DEF Using, Uses
    <2>6. ASSUME NEW x \in Code \ racedOn', x # c PROVE CodeInv(x)'
        <3>1. CodeInv(x)
            BY <1>0, <2>5
        <3>2. \A q \in Request : Uses(q, x)' <=> Uses(q, x)
            BY <2>2, <2>3, <2>6 DEF Uses, Resets
        <3>3. \A q \in Request : Uses(q, x) => q # r
            BY <2>2 DEF Uses, Resets
        <3> QED
            BY <2>2, <2>3, <3>1, <3>2, <3>3 DEF CodeInv
    <2>7. ASSUME c \notin racedOn' PROVE CodeInv(c)'
        <3>1. CodeInv(c) /\ \A q \in Request : ~Uses(q, c)
            BY <1>0, <2>2, <2>5, <2>7 DEF Uses, Resets
        <3>2. guessed[c] <= tries[c] /\ resets[c] = 0
            BY <2>1, <3>1 DEF CodeInv
        <3>3. \A q \in Request : Uses(q, c)' => q = r
            BY <2>3, <3>1 DEF Uses
        <3>4. Uses(r, c)'
            BY <2>3 DEF Uses, Resets
        <3> QED
            BY <1>1, <2>1, <2>2, <2>3, <3>1, <3>2, <3>3, <3>4 DEF CodeInv
    <2> QED
        BY <2>4, <2>6, <2>7 DEF CodesInv
<1>5. ASSUME NEW r \in Request, VerifyCode(r) \/ SavePassword(r) PROVE CodesInv'
    <2>0. PICK c \in Code : c = holds[r].code
        BY <1>0, <1>5 DEF VerifyCode, SavePassword, HoldsInv, Resets
    <2>1. /\ UNCHANGED <<code, tries, holds, racedOn>>
          /\ pc[r] \in {"verifyCode", "savePassword"}
        BY <1>5 DEF VerifyCode, SavePassword
    <2>2. \/ /\ pc[r] = "verifyCode" /\ Goto(r, "saveTry") /\ UNCHANGED resets
             /\ guessed' = [guessed EXCEPT ![c] = Least(guessed[c] + 1, MaxAttempts + 1)]
          \/ pc[r] = "verifyCode" /\ Goto(r, "savePassword") /\ UNCHANGED <<guessed, resets>>
          \/ /\ pc[r] = "savePassword" /\ Goto(r, "deleteCode") /\ UNCHANGED guessed
             /\ resets' = [resets EXCEPT ![c] = Least(resets[c] + 1, 2)]
        BY <1>5, <2>0 DEF VerifyCode, SavePassword
    <2>3. /\ pc'[r] \in {"saveTry", "savePassword", "deleteCode"}
          /\ pc'[r] = "savePassword" => pc[r] = "verifyCode" /\ guessed' = guessed /\ resets' = resets
          /\ pc'[r] = "saveTry" => /\ pc[r] = "verifyCode" /\ resets' = resets
                                   /\ guessed'[c] = Least(guessed[c] + 1, MaxAttempts + 1)
          /\ pc'[r] = "deleteCode" => /\ pc[r] = "savePassword" /\ guessed' = guessed
                                      /\ resets'[c] = Least(resets[c] + 1, 2)
          /\ \A q \in Request \ {r} : pc'[q] = pc[q]
          /\ \A x \in Code \ {c} : guessed'[x] = guessed[x] /\ resets'[x] = resets[x]
        BY <1>1, <2>1, <2>2 DEF Goto
    <2>4. HoldsInv'
        BY <1>0, <2>1, <2>3 DEF HoldsInv, Resets
    <2>5. \A q \in Request, x \in Code : Uses(q, x)' <=> Uses(q, x)
        BY <2>1, <2>3 DEF Uses, Resets
    <2>6. Uses(r, c)
        BY <2>0, <2>1 DEF Uses, Resets
    <2>7. ASSUME NEW x \in Code \ racedOn, x # c PROVE CodeInv(x)'
        <3>1. \A q \in Request : Uses(q, x) => pc'[q] = pc[q]
            BY <2>0, <2>3, <2>7 DEF Uses
        <3>2. CodeInv(x)
            BY <1>0
        <3>3. guessed'[x] = guessed[x] /\ resets'[x] = resets[x]
            BY <2>3, <2>7
        <3> QED
            BY <2>1, <2>5, <3>1, <3>2, <3>3 DEF CodeInv
    <2>8. ASSUME c \notin racedOn PROVE CodeInv(c)'
        <3>1. CodeInv(c)
            BY <1>0, <2>1, <2>8
        <3>2. /\ code[c] # "none" /\ guessed[c] <= MaxAttempts /\ resets[c] = 0
              /\ \A q \in Request \ {r} : ~Uses(q, c)
              /\ pc[r] = "verifyCode" => guessed[c] <= holds[r].tries
            BY <2>1, <2>6, <3>1 DEF CodeInv
        <3>3. pc[r] = "verifyCode" => holds[r].tries < MaxAttempts
            BY <1>0 DEF HoldsInv
        <3>4. guessed[c] \in Nat /\ resets[c] \in Nat /\ holds[r].tries \in Nat
            BY <1>1, <2>1
        <3>5. /\ pc'[r] = "saveTry" => guessed'[c] = guessed[c] + 1
              /\ pc'[r] = "deleteCode" => resets'[c] = 1
            BY <1>1, <2>3, <3>2, <3>3, <3>4 DEF Least
        <3>6. /\ guessed'[c] <= MaxAttempts /\ resets'[c] <= 1
              /\ pc'[r] = "saveTry" => guessed'[c] <= holds[r].tries + 1 /\ resets'[c] = 0
              /\ pc'[r] = "savePassword" => resets'[c] = 0
            BY <1>1, <2>3, <3>2, <3>3, <3>4, <3>5
        <3> QED
            BY <2>1, <2>3, <2>5, <2>6, <3>2, <3>6 DEF CodeInv
    <2> QED
        BY <2>1, <2>4, <2>7, <2>8 DEF CodesInv
<1>6. ASSUME NEW r \in Request, SaveTry(r) \/ DeleteCode(r) PROVE CodesInv'
    <2>0. PICK c \in Code : c = holds[r].code
        BY <1>0, <1>6 DEF SaveTry, DeleteCode, HoldsInv, Resets
    <2>1. /\ UNCHANGED <<guessed, resets, racedOn>>
          /\ pc[r] \in {"saveTry", "deleteCode"}
          /\ pc' = [pc EXCEPT ![r] = "idle"]
          /\ holds' = [holds EXCEPT ![r] = NoCode]
        BY <1>6 DEF SaveTry, DeleteCode, Goto
    <2>2. \/ /\ pc[r] = "saveTry" /\ UNCHANGED code
             /\ tries' = IF code[c] = "live" THEN [tries EXCEPT ![c] = holds[r].tries + 1] ELSE tries
          \/ pc[r] = "deleteCode" /\ code' = [code EXCEPT ![c] = "gone"] /\ UNCHANGED tries
        BY <1>6, <2>0 DEF SaveTry, DeleteCode
    <2>3. pc'[r] = "idle" /\ \A q \in Request \ {r} : pc'[q] = pc[q] /\ holds'[q] = holds[q]
        BY <1>1, <2>1
    <2>4. HoldsInv'
        BY <1>0, <2>3 DEF HoldsInv, Resets
    <2>5. Uses(r, c)
        BY <2>0, <2>1 DEF Uses, Resets
    <2>6. \A q \in Request, x \in Code : Uses(q, x)' <=> Uses(q, x) /\ q # r
        BY <2>3 DEF Uses, Resets
    <2>7. ASSUME NEW x \in Code \ racedOn, x # c PROVE CodeInv(x)'
        <3>1. \A q \in Request : Uses(q, x) => q # r
            BY <2>0, <2>7 DEF Uses
        <3>2. code'[x] = code[x] /\ tries'[x] = tries[x]
            BY <1>1, <2>2, <2>7
        <3>3. CodeInv(x)
            BY <1>0
        <3> QED
            BY <2>1, <2>3, <2>6, <3>1, <3>2, <3>3 DEF CodeInv
    <2>8. ASSUME c \notin racedOn PROVE CodeInv(c)'
        <3>1. CodeInv(c)
            BY <1>0, <2>1, <2>8
        <3>2. /\ \A q \in Request : ~Uses(q, c)'
              /\ code[c] # "none" /\ guessed[c] <= MaxAttempts /\ resets[c] <= 1
              /\ pc[r] = "saveTry" => guessed[c] <= holds[r].tries + 1 /\ resets[c] = 0
            BY <2>5, <2>6, <3>1 DEF CodeInv
        <3>3. /\ code'[c] # "none"
              /\ code'[c] = "live" => guessed[c] <= tries'[c] /\ resets[c] = 0
            BY <1>1, <2>1, <2>2, <3>2
        <3> QED
            BY <2>1, <3>2, <3>3 DEF CodeInv
    <2> QED
        BY <2>1, <2>4, <2>7, <2>8 DEF CodesInv
<1>7. ASSUME NEW r \in Request, Fail(r) PROVE CodesInv'
    <2>1. /\ UNCHANGED <<code, tries, guessed, resets>>
          /\ pc[r] \in {"saveFailure", "saveTry", "deleteCode"}
          /\ pc' = [pc EXCEPT ![r] = "idle"]
          /\ holds' = [holds EXCEPT ![r] = NoCode]
          /\ racedOn' = IF pc[r] = "saveFailure" THEN racedOn ELSE racedOn \cup {holds[r].code}
        BY <1>7 DEF Fail, Goto
    <2>2. pc'[r] = "idle" /\ \A q \in Request \ {r} : pc'[q] = pc[q] /\ holds'[q] = holds[q]
        BY <1>1, <2>1
    <2>3. HoldsInv'
        BY <1>0, <2>2 DEF HoldsInv, Resets
    <2>4. ASSUME NEW x \in Code \ racedOn' PROVE CodeInv(x)'
        <3>1. CodeInv(x) /\ ~Uses(r, x)
            BY <1>0, <2>1, <2>4 DEF Uses, Resets
        <3>2. \A q \in Request : Uses(q, x)' <=> Uses(q, x)
            BY <2>2, <3>1 DEF Uses, Resets
        <3> QED
            BY <2>1, <2>2, <3>1, <3>2 DEF CodeInv
    <2> QED
        BY <2>3, <2>4 DEF CodesInv
<1>8. ASSUME NEW c \in Code, ExpireCode(c) PROVE CodesInv'
    <2>1. UNCHANGED <<tries, holds, guessed, resets, racedOn, pc>> /\ code' = [code EXCEPT ![c] = "gone"]
        BY <1>8 DEF ExpireCode
    <2>2. HoldsInv'
        BY <1>0, <2>1 DEF HoldsInv
    <2>3. ASSUME NEW x \in Code \ racedOn PROVE CodeInv(x)'
        BY <1>0, <1>1, <2>1 DEF CodeInv, Uses
    <2> QED
        BY <2>1, <2>2, <2>3 DEF CodesInv
<1> QED
    BY <1>2, <1>3, <1>4, <1>5, <1>6, <1>7, <1>8, CodeSteps

-----------------------------------------------------------------------------
(* The theorems                                                            *)

\* The inductive invariant: what the logins of auth.js and the resets have read, and how the
\* counters of lockout.js relate to what was guessed.
THEOREM Inductive == Spec => []IInv
<1>1. Init => IInv
    BY GuardInit
<1>2. IInv /\ [Next]_vars => IInv'
    BY GuardTypeStep, LoginInvStep, CodesStep DEF IInv, CodesInv
<1> QED
    BY <1>1, <1>2, PTL DEF Spec

\* In every behaviour the state has its type (models/User.js, models/PasswordResetOtp.js).
THEOREM TypeCorrect == Spec => []TypeOK
<1>1. IInv => TypeOK
    BY DEF IInv
<1> QED
    BY <1>1, Inductive, PTL

\* recordFailedLogin and isLocked of lib/auth/lockout.js: the account is locked after every
\* threshold of wrong passwords, and a locked one compares none; after the last threshold
\* nothing is claimed.
THEOREM Limited == Spec => []LocksAtThresholds
<1>1. IInv => LockComesInTime
    <2> SUFFICES ASSUME IInv, ~raced, NEW n \in Thresholds, guesses >= n, guesses - free < n
                 PROVE  \E r \in Request : pc[r] = "saveFailure"
        BY DEF LockComesInTime
    <2>1. guesses \in Nat /\ free \in Nat /\ n \in Nat
        BY ConstantsAssumption DEF IInv, TypeOK
    <2> QED
        BY <2>1 DEF IInv, AttemptsInv, LockInv
<1>2. IInv => LockHolds
    BY DEF IInv, LockInv, LockHolds
<1>3. IInv => LocksAtThresholds
    BY <1>1, <1>2 DEF LocksAtThresholds
<1> QED
    BY <1>3, Inductive, PTL

\* POST /reset-password of routes/auth.js: a code is worth OTP_MAX_ATTEMPTS and one reset.
THEOREM Spent == Spec => []CodesAreSpent
<1>1. IInv => CodesAreSpent
    BY DEF IInv, CodesInv, CodeInv, CodesAreSpent
<1> QED
    BY <1>1, Inductive, PTL
=============================================================================
