--------------------------- MODULE LockdownProofs ---------------------------
(***************************************************************************)
(* Proofs about Lockdown for every set of requests, tokens and codes,      *)
(* every threshold and every nondecreasing cool-off curve.                 *)
(***************************************************************************)
EXTENDS Lockdown, FiniteSetTheorems, TLAPS

(***************************************************************************)
(* Lemmas on the operators.                                                *)
(***************************************************************************)

\* A cool-off is positive, at most the capped maximum, and nondecreasing in
\* the exponent (security.ts:118 and 149-152).
LEMMA BackoffFacts ==
  /\ \A n \in Nat : Backoff(n) \in Nat \ {0} /\ Backoff(n) <= CoolOff[MaxDoublings]
  /\ \A m, n \in Nat : m <= n => Backoff(m) <= Backoff(n)
  BY CoolOffAssumption, SMT DEF Backoff

\* What recordFailure does to each column (security.ts:98-124).
LEMMA FailureFacts ==
  ASSUME NEW r \in Rows, now \in Nat
  PROVE  LET n == Failures(r)
             new == RecordFailure(r)
             deadline == now + Backoff((n - SoftFail) + r.tamper)
         IN  /\ n \in Nat \ {0}
             /\ new \in Rows
             /\ new.failed = n /\ new.lastFailed = now /\ new.tamper = r.tamper
             /\ n >= HardFail => new.level = 2 /\ new.until = Never
             /\ n < HardFail /\ n >= SoftFail => new.level = 1 /\ new.until = deadline
             /\ n < SoftFail => new.level = r.level /\ new.until = r.until
  <1> DEFINE n == Failures(r)
             counted == [r EXCEPT !.failed = n, !.lastFailed = now]
             deadline == now + Backoff((n - SoftFail) + r.tamper)
             new == RecordFailure(r)
  <1>1. n \in Nat \ {0}
    BY DEF Failures, Rows
  <1> HIDE DEF n
  <1>2. /\ counted \in Rows
        /\ counted.failed = n /\ counted.lastFailed = now
        /\ counted.tamper = r.tamper
        /\ counted.level = r.level /\ counted.until = r.until
    BY <1>1 DEF Rows
  <1>3. new = IF n >= HardFail THEN [counted EXCEPT !.level = 2, !.until = Never]
              ELSE IF n >= SoftFail THEN [counted EXCEPT !.level = 1, !.until = deadline]
              ELSE counted
    BY DEF RecordFailure, n
  <1> HIDE DEF counted, new, deadline
  <1>4. CASE n >= HardFail
    <2>1. new = [counted EXCEPT !.level = 2, !.until = Never]
      BY <1>3, <1>4
    <2>2. new \in Rows /\ new.failed = n /\ new.lastFailed = now
            /\ new.tamper = r.tamper /\ new.level = 2 /\ new.until = Never
      BY <1>2, <2>1 DEF Rows, Never
    <2> QED
      BY <1>1, <1>4, <2>2, ThresholdAssumption DEF n, new
  <1>5. CASE n >= SoftFail /\ n < HardFail
    <2>1. new = [counted EXCEPT !.level = 1, !.until = deadline]
      BY <1>1, <1>3, <1>5, ThresholdAssumption
    <2>2. (n - SoftFail) + r.tamper \in Nat
      BY <1>1, <1>5, ThresholdAssumption DEF Rows
    <2>3. deadline \in Nat
      BY <2>2, BackoffFacts DEF deadline
    <2>4. new \in Rows /\ new.failed = n /\ new.lastFailed = now
            /\ new.tamper = r.tamper /\ new.level = 1 /\ new.until = deadline
      BY <1>2, <2>1, <2>3 DEF Rows
    <2> QED
      BY <1>1, <1>5, <2>4, ThresholdAssumption DEF n, new, deadline
  <1>6. CASE n < SoftFail
    <2>1. new = counted
      BY <1>1, <1>3, <1>6, ThresholdAssumption
    <2> QED
      BY <1>1, <1>2, <1>6, <2>1, ThresholdAssumption DEF n, new
  <1> QED
    BY <1>1, <1>4, <1>5, <1>6, ThresholdAssumption

\* What recordSuccess does to each column (security.ts:127-134).
LEMMA SuccessFacts ==
  ASSUME NEW r \in Rows
  PROVE  LET new == RecordSuccess(r)
         IN  /\ new \in Rows
             /\ r.level = 2 => new = r
             /\ r.level # 2 => new.failed = 0 /\ new.level = 0 /\ new.until = Never
             /\ new.tamper = r.tamper /\ new.lastFailed = r.lastFailed
  BY DEF RecordSuccess, Rows, Never

\* What registerTamper does to each column (security.ts:139-155).
LEMMA TamperFacts ==
  ASSUME NEW r \in Rows, now \in Nat
  PROVE  LET new == RegisterTamper(r)
             extended == now + Backoff(r.tamper + 1)
             locks == r.tamper + 1 >= HardFail /\ r.level < 2
         IN  /\ new \in Rows
             /\ new.failed = r.failed /\ new.lastFailed = r.lastFailed
             /\ new.tamper = r.tamper + 1
             /\ locks => new.level = 2 /\ new.until = Never
             /\ ~locks => new.level = r.level
             /\ ~locks /\ r.level = 1 /\ r.until # Never =>
                  new.until = IF extended > r.until THEN extended ELSE r.until
             /\ ~locks /\ (r.level # 1 \/ r.until = Never) => new.until = r.until
  <1> DEFINE poked == [r EXCEPT !.tamper = r.tamper + 1]
             extended == now + Backoff(r.tamper + 1)
             locks == r.tamper + 1 >= HardFail /\ r.level < 2
             later == IF extended > r.until THEN extended ELSE r.until
             new == RegisterTamper(r)
  <1>1. /\ poked \in Rows
        /\ poked.failed = r.failed /\ poked.lastFailed = r.lastFailed
        /\ poked.tamper = r.tamper + 1
        /\ poked.level = r.level /\ poked.until = r.until
    BY DEF Rows
  <1>2. new = IF locks THEN [poked EXCEPT !.level = 2, !.until = Never]
              ELSE IF r.level = 1 /\ r.until # Never THEN [poked EXCEPT !.until = later]
              ELSE poked
    BY <1>1 DEF RegisterTamper
  <1>3. later \in Nat
    BY BackoffFacts DEF Rows
  <1> HIDE DEF poked, new, locks, later
  <1>4. CASE locks
    <2>1. new = [poked EXCEPT !.level = 2, !.until = Never]
      BY <1>2, <1>4
    <2>2. new \in Rows /\ new.failed = r.failed /\ new.lastFailed = r.lastFailed
            /\ new.tamper = r.tamper + 1 /\ new.level = 2 /\ new.until = Never
      BY <1>1, <2>1 DEF Rows, Never
    <2> QED
      BY <1>4, <2>2 DEF new, locks
  <1>5. CASE ~locks /\ r.level = 1 /\ r.until # Never
    <2>1. new = [poked EXCEPT !.until = later]
      BY <1>2, <1>5
    <2>2. new \in Rows /\ new.failed = r.failed /\ new.lastFailed = r.lastFailed
            /\ new.tamper = r.tamper + 1 /\ new.level = r.level /\ new.until = later
      BY <1>1, <1>3, <2>1 DEF Rows
    <2> QED
      BY <1>5, <2>2 DEF new, locks, later
  <1>6. CASE ~locks /\ (r.level # 1 \/ r.until = Never)
    <2>1. new = poked
      BY <1>2, <1>6
    <2> QED
      BY <1>1, <1>6, <2>1 DEF new, locks
  <1> QED
    BY <1>4, <1>5, <1>6

\* The steps that leave the row, the logins and the clock alone.
Access ==
  \/ \E t \in Tokens : SessionEnds(t) \/ Connect(t) \/ Disconnect(t)
  \/ \E t \in Tokens, c \in Codes : LinkStart(t, c) \/ LinkClaim(c, t)
  \/ \E c \in Codes : LinkExpires(c)

(***************************************************************************)
(* Type correctness.                                                       *)
(***************************************************************************)

\* Every step keeps the types.
LEMMA TypeStep ==
  ASSUME TypeOK, [Next]_vars
  PROVE  TypeOK'
  <1> USE DEF TypeOK
  <1>0. NoLogin \in Logins /\ [s \in Slots |-> NoLogin] \in [Slots -> Logins]
    BY DEF Logins
  <1>1. ASSUME NEW s \in Slots, NEW p \in Passwords, LoginStart(s, p)
        PROVE  TypeOK'
    BY <1>1 DEF LoginStart, Logins
  <1>2. ASSUME LoginRefused
        PROVE  TypeOK'
    BY <1>2, TamperFacts DEF LoginRefused, Tamper
  <1>3. ASSUME NEW s \in Slots, LoginFails(s)
        PROVE  TypeOK'
    BY <1>0, <1>3, FailureFacts DEF LoginFails
  <1>4. ASSUME NEW s \in Slots, NEW t \in Tokens, LoginSucceeds(s, t)
        PROVE  TypeOK'
    BY <1>0, <1>4, SuccessFacts DEF LoginSucceeds, IssueToken
  <1>5. ASSUME Access
        PROVE  TypeOK'
    BY <1>5 DEF Access, SessionEnds, LinkStart, LinkClaim, CreateLink, ConsumeLink, IssueToken, LinkExpires,
                Connect, Disconnect
  <1>6. ASSUME Unlock
        PROVE  TypeOK'
    BY <1>6 DEF Unlock, ProvisionedRow, Rows, Never
  <1>7. ASSUME UnlockFails
        PROVE  TypeOK'
    BY <1>7, TamperFacts DEF UnlockFails, Tamper
  <1>8. ASSUME Restart \/ CrashWhileLocking
        PROVE  TypeOK'
    BY <1>0, <1>8 DEF Restart, CrashWhileLocking
  <1>9. ASSUME Tick
        PROVE  TypeOK'
    BY <1>9 DEF Tick
  <1>10. ASSUME UNCHANGED vars
         PROVE  TypeOK'
    BY <1>10 DEF vars
  <1> QED
    BY <1>1, <1>2, <1>3, <1>4, <1>5, <1>6, <1>7, <1>8, <1>9, <1>10 DEF Next, Access

\* Every reachable state is well typed: no function of security.ts leaves a
\* row with an impossible level or a negative deadline.
THEOREM TypeCorrect == Spec => []TypeOK
  <1>1. Init => TypeOK
    BY DEF Init, TypeOK, ProvisionedRow, Rows, Logins, Never
  <1> QED
    BY <1>1, TypeStep, PTL DEF Spec

(***************************************************************************)
(* The inductive invariant.                                                *)
(***************************************************************************)

\* The verification of a password is never older than VerifyTime.
VerifyInTime ==
  /\ row.lastFailed <= now
  /\ \A s \in InFlight : login[s].since <= now /\ now <= login[s].since + VerifyTime

\* Where the deadline of a soft lock comes from: an extension by tampering, or
\* the failure that was counted last.
CoolOffOrigin ==
  row.level = 1 =>
    \/ row.until <= now + Backoff(row.tamper)
    \/ /\ row.failed >= SoftFail
       /\ row.until <= row.lastFailed + Backoff((row.failed - SoftFail) + row.tamper)

\* A login admitted after the last failure was admitted because the lock had
\* run out: a deadline in force since then was set by tampering.
LateLogins ==
  row.level = 1 =>
    \A s \in InFlight : login[s].since > row.lastFailed =>
                          row.until <= now + Backoff(row.tamper)

IInv ==
  /\ TypeOK
  /\ FailuresBelowHard
  /\ CoolOffWellFormed
  /\ VerifyInTime
  /\ CoolOffOrigin
  /\ LateLogins

\* A login is admitted only below the failure threshold and once the deadline
\* of any soft lock has passed.
LEMMA StartStep ==
  ASSUME IInv, NEW s \in Slots, NEW p \in Passwords, LoginStart(s, p)
  PROVE  FailuresBelowHard' /\ CoolOffWellFormed' /\ VerifyInTime'
           /\ CoolOffOrigin' /\ LateLogins'
  <1>1. row' = row /\ now' = now
    BY DEF LoginStart
  <1>2. row \in Rows /\ now \in Nat /\ login \in [Slots -> Logins]
    BY DEF IInv, TypeOK
  <1>3. \A u \in InFlight' : IF u = s THEN login'[u].since = now
                                      ELSE u \in InFlight /\ login'[u] = login[u]
    BY <1>2 DEF LoginStart, InFlight
  <1>4. FailuresBelowHard' /\ CoolOffWellFormed' /\ CoolOffOrigin'
    BY <1>1 DEF IInv, FailuresBelowHard, CoolOffWellFormed, CoolOffOrigin, Backoff
  <1>5. VerifyInTime'
    <2>1. now <= now + VerifyTime
      BY <1>2, TimeAssumption
    <2> QED
      BY <1>1, <1>2, <1>3, <2>1 DEF IInv, VerifyInTime
  <1>6. LateLogins'
    <2> SUFFICES ASSUME row.level = 1, NEW u \in InFlight', login'[u].since > row.lastFailed
                 PROVE  row.until <= now + Backoff(row.tamper)
      BY <1>1 DEF LateLogins, Backoff
    <2>1. CASE u = s
      <3>1. row.until <= now
        BY <1>2 DEF LoginStart, LockState, Rows
      <3> QED
        BY <1>2, <3>1, BackoffFacts DEF Rows
    <2>2. CASE u # s
      BY <1>3, <2>2 DEF IInv, LateLogins
    <2> QED
      BY <2>1, <2>2
  <1> QED
    BY <1>4, <1>5, <1>6

\* Tampering extends a cool-off to at most Backoff of the raised score.
LEMMA TamperStep ==
  ASSUME IInv, Tamper, UNCHANGED <<login, now>>
  PROVE  FailuresBelowHard' /\ CoolOffWellFormed' /\ VerifyInTime'
           /\ CoolOffOrigin' /\ LateLogins'
  <1> DEFINE extended == now + Backoff(row.tamper + 1)
             locks == row.tamper + 1 >= HardFail /\ row.level < 2
  <1>1. row \in Rows /\ now \in Nat /\ row' = RegisterTamper(row)
    BY DEF IInv, TypeOK, Tamper
  <1>2. /\ row' \in Rows
        /\ row'.failed = row.failed /\ row'.lastFailed = row.lastFailed
        /\ row'.tamper = row.tamper + 1
        /\ locks => row'.level = 2 /\ row'.until = Never
        /\ ~locks => row'.level = row.level
        /\ ~locks /\ row.level = 1 /\ row.until # Never =>
             row'.until = IF extended > row.until THEN extended ELSE row.until
        /\ ~locks /\ (row.level # 1 \/ row.until = Never) => row'.until = row.until
    BY <1>1, TamperFacts
  <1>3. /\ Backoff(row.tamper) \in Nat \ {0} /\ Backoff(row.tamper + 1) \in Nat \ {0}
        /\ Backoff(row.tamper) <= Backoff(row.tamper + 1)
        /\ Backoff(row.tamper + 1) <= CoolOff[MaxDoublings]
        /\ CoolOff[MaxDoublings] \in Nat
    <2>1. row.tamper \in Nat /\ row.tamper + 1 \in Nat /\ row.tamper <= row.tamper + 1
      BY <1>1 DEF Rows
    <2>2. CoolOff[MaxDoublings] \in Nat
      BY CoolOffAssumption
    <2> QED
      BY <2>1, <2>2, BackoffFacts
  <1>4. InFlight' = InFlight /\ login' = login /\ now' = now
    BY DEF InFlight
  <1> HIDE DEF extended, locks
  <1>5. FailuresBelowHard'
    BY <1>2 DEF IInv, FailuresBelowHard
  <1>6. CoolOffWellFormed'
    <2>1. (row.level = 1 <=> row.until # Never) /\ row.until <= now + CoolOff[MaxDoublings]
      BY DEF IInv, CoolOffWellFormed
    <2>2. CASE locks
      BY <1>1, <1>2, <1>3, <1>4, <2>2 DEF CoolOffWellFormed, Never
    <2>3. CASE ~locks
      BY <1>1, <1>2, <1>3, <1>4, <2>1, <2>3 DEF CoolOffWellFormed, Never, extended, Rows
    <2> QED
      BY <2>2, <2>3
  <1>7. VerifyInTime'
    BY <1>2, <1>4 DEF IInv, VerifyInTime
  <1>8. ASSUME row'.level = 1
        PROVE  /\ row.level = 1
               /\ row'.until = extended \/ row'.until = row.until
    <2>1. ~locks /\ row.level = 1
      BY <1>2, <1>8
    <2> QED
      BY <1>2, <2>1
  <1>9. CoolOffOrigin'
    <2> SUFFICES ASSUME row'.level = 1
                 PROVE  \/ row'.until <= now + Backoff(row.tamper + 1)
                        \/ /\ row.failed >= SoftFail
                           /\ row'.until <= row.lastFailed
                                + Backoff((row.failed - SoftFail) + (row.tamper + 1))
      BY <1>2, <1>4 DEF CoolOffOrigin, Backoff
    <2>1. CASE row'.until = extended
      BY <1>1, <1>3, <2>1 DEF extended
    <2>2. CASE row'.until = row.until /\ row.until <= now + Backoff(row.tamper)
      BY <1>1, <1>3, <2>2 DEF Rows
    <2>3. CASE /\ row'.until = row.until /\ row.failed >= SoftFail
               /\ row.until <= row.lastFailed + Backoff((row.failed - SoftFail) + row.tamper)
      <3>1. /\ (row.failed - SoftFail) + row.tamper \in Nat
            /\ (row.failed - SoftFail) + (row.tamper + 1) \in Nat
            /\ (row.failed - SoftFail) + row.tamper <= (row.failed - SoftFail) + (row.tamper + 1)
        BY <1>1, <2>3, ThresholdAssumption DEF Rows
      <3>2. /\ Backoff((row.failed - SoftFail) + row.tamper) \in Nat
            /\ Backoff((row.failed - SoftFail) + (row.tamper + 1)) \in Nat
            /\ Backoff((row.failed - SoftFail) + row.tamper)
                 <= Backoff((row.failed - SoftFail) + (row.tamper + 1))
        BY <3>1, BackoffFacts
      <3> QED
        BY <1>1, <2>3, <3>2 DEF Rows
    <2> QED
      BY <1>8, <2>1, <2>2, <2>3 DEF IInv, CoolOffOrigin
  <1>10. LateLogins'
    <2> SUFFICES ASSUME row'.level = 1, NEW u \in InFlight, login[u].since > row.lastFailed
                 PROVE  row'.until <= now + Backoff(row.tamper + 1)
      BY <1>2, <1>4 DEF LateLogins, Backoff
    <2>1. row.until <= now + Backoff(row.tamper)
      BY <1>8 DEF IInv, LateLogins
    <2> QED
      BY <1>1, <1>3, <1>8, <2>1 DEF Rows, extended
  <1> QED
    BY <1>5, <1>6, <1>7, <1>9, <1>10

\* A failure sets a deadline that no earlier one exceeds, or none.
LEMMA FailStep ==
  ASSUME IInv, NEW s \in Slots, LoginFails(s)
  PROVE  FailuresBelowHard' /\ CoolOffWellFormed' /\ VerifyInTime'
           /\ CoolOffOrigin' /\ LateLogins'
  <1> DEFINE n == Failures(row)
             deadline == now + Backoff((n - SoftFail) + row.tamper)
  <1>1. /\ row \in Rows /\ now \in Nat /\ login \in [Slots -> Logins]
        /\ row' = RecordFailure(row) /\ now' = now
        /\ s \in InFlight
    BY DEF IInv, TypeOK, LoginFails, InFlight, NoLogin
  <1>2. /\ n \in Nat \ {0}
        /\ row' \in Rows
        /\ row'.failed = n /\ row'.lastFailed = now /\ row'.tamper = row.tamper
        /\ n >= HardFail => row'.level = 2 /\ row'.until = Never
        /\ n < HardFail /\ n >= SoftFail => row'.level = 1 /\ row'.until = deadline
        /\ n < SoftFail => row'.level = row.level /\ row'.until = row.until
    BY <1>1, FailureFacts
  <1>3. n >= HardFail \/ (n < HardFail /\ n >= SoftFail) \/ (n < SoftFail /\ n < HardFail)
    BY <1>2, ThresholdAssumption
  <1>4. \A u \in InFlight' : u \in InFlight /\ login'[u] = login[u]
    BY <1>1 DEF LoginFails, InFlight
  <1>5. n < HardFail /\ n >= SoftFail =>
          deadline \in Nat \ {0} /\ deadline <= now + CoolOff[MaxDoublings]
    <2>1. n >= SoftFail => (n - SoftFail) + row.tamper \in Nat
      BY <1>1, <1>2, ThresholdAssumption DEF Rows
    <2>2. CoolOff[MaxDoublings] \in Nat
      BY CoolOffAssumption
    <2>3. ASSUME NEW k \in Nat
          PROVE  now + Backoff(k) \in Nat \ {0} /\ now + Backoff(k) <= now + CoolOff[MaxDoublings]
      BY <1>1, <2>2, BackoffFacts
    <2> QED
      BY <2>1, <2>3
  <1> HIDE DEF n, deadline
  <1>6. FailuresBelowHard'
    BY <1>2, <1>3 DEF FailuresBelowHard
  <1>7. CoolOffWellFormed'
    <2>1. (row.level = 1 <=> row.until # Never) /\ row.until <= now + CoolOff[MaxDoublings]
      BY DEF IInv, CoolOffWellFormed
    <2>2. 0 <= now + CoolOff[MaxDoublings]
      BY <1>1, CoolOffAssumption
    <2> QED
      BY <1>1, <1>2, <1>3, <1>5, <2>1, <2>2 DEF CoolOffWellFormed, Never
  <1>8. VerifyInTime'
    BY <1>1, <1>2, <1>4 DEF IInv, VerifyInTime
  <1>9. \A u \in InFlight' : ~(login'[u].since > row'.lastFailed)
    <2>1. \A u \in InFlight : login[u].since \in Nat
      BY <1>1 DEF InFlight, Logins
    <2> QED
      BY <1>1, <1>2, <1>4, <2>1 DEF IInv, VerifyInTime
  <1>10. LateLogins'
    BY <1>9 DEF LateLogins
  <1>11. CoolOffOrigin'
    <2> SUFFICES ASSUME row'.level = 1
                 PROVE  \/ row'.until <= now + Backoff(row.tamper)
                        \/ n >= SoftFail /\ row'.until <= deadline
      BY <1>1, <1>2 DEF CoolOffOrigin, Backoff, deadline
    <2>1. CASE n < HardFail /\ n >= SoftFail
      BY <1>2, <1>5, <2>1
    <2>2. CASE n < SoftFail
      <3>1. row.level = 1 /\ row'.until = row.until
        BY <1>2, <2>2
      <3>2. CASE row.until <= now + Backoff(row.tamper)
        BY <3>1, <3>2
      <3>3. CASE row.failed >= SoftFail
        <4>1. row.lastFailed # Never /\ now - row.lastFailed > FailWindow
          BY <1>1, <2>2, <3>3, ThresholdAssumption DEF Failures, Rows, n
        <4>2. now <= login[s].since + VerifyTime /\ login[s].since \in Nat
          BY <1>1 DEF IInv, VerifyInTime, Logins, InFlight
        <4>3. login[s].since > row.lastFailed
          BY <1>1, <4>1, <4>2, TimeAssumption DEF Rows
        <4> QED
          BY <1>1, <3>1, <4>3 DEF IInv, LateLogins
      <3> QED
        BY <3>1, <3>2, <3>3 DEF IInv, CoolOffOrigin
    <2> QED
      BY <1>2, <1>3, <2>1, <2>2
  <1> QED
    BY <1>6, <1>7, <1>8, <1>10, <1>11

\* Steps that keep the row and at most drop logins.
LEMMA QuietStep ==
  ASSUME IInv, row' = row, now' = now,
         login' = login \/ InFlight' = {}
  PROVE  FailuresBelowHard' /\ CoolOffWellFormed' /\ VerifyInTime'
           /\ CoolOffOrigin' /\ LateLogins'
  <1>1. \A u \in InFlight' : u \in InFlight /\ login'[u] = login[u]
    BY DEF InFlight
  <1>2. FailuresBelowHard' /\ CoolOffWellFormed' /\ CoolOffOrigin'
    BY DEF IInv, FailuresBelowHard, CoolOffWellFormed, CoolOffOrigin, Backoff
  <1>3. VerifyInTime' /\ LateLogins'
    BY <1>1 DEF IInv, VerifyInTime, LateLogins, Backoff
  <1> QED
    BY <1>2, <1>3

\* A success leaves a hard lock alone and clears everything else.
LEMMA SuccessStep ==
  ASSUME IInv, NEW s \in Slots, NEW t \in Tokens, LoginSucceeds(s, t)
  PROVE  FailuresBelowHard' /\ CoolOffWellFormed' /\ VerifyInTime'
           /\ CoolOffOrigin' /\ LateLogins'
  <1>1. /\ row \in Rows /\ now \in Nat /\ login \in [Slots -> Logins]
        /\ row' = RecordSuccess(row) /\ now' = now
    BY DEF IInv, TypeOK, LoginSucceeds, IssueToken
  <1>2. /\ row'.lastFailed = row.lastFailed /\ row'.level # 1
        /\ row'.level # 2 => row'.failed = 0
        /\ row'.level = 2 => row' = row
        /\ row'.level # 2 => row'.until = Never
    BY <1>1, SuccessFacts DEF Rows
  <1>3. \A u \in InFlight' : u \in InFlight /\ login'[u] = login[u]
    BY <1>1 DEF LoginSucceeds, IssueToken, InFlight
  <1>4. FailuresBelowHard'
    BY <1>2, ThresholdAssumption DEF FailuresBelowHard
  <1>5. CoolOffWellFormed'
    <2>1. 0 <= now + CoolOff[MaxDoublings]
      BY <1>1, CoolOffAssumption
    <2> QED
      BY <1>1, <1>2, <2>1 DEF IInv, CoolOffWellFormed, Never
  <1>6. VerifyInTime'
    BY <1>1, <1>2, <1>3 DEF IInv, VerifyInTime
  <1> QED
    BY <1>2, <1>4, <1>5, <1>6 DEF CoolOffOrigin, LateLogins

\* Time passes: deadlines come nearer and no verification grows too old.
LEMMA TickStep ==
  ASSUME IInv, Tick
  PROVE  FailuresBelowHard' /\ CoolOffWellFormed' /\ VerifyInTime'
           /\ CoolOffOrigin' /\ LateLogins'
  <1>1. /\ row \in Rows /\ now \in Nat /\ login \in [Slots -> Logins]
        /\ row' = row /\ now' = now + 1 /\ login' = login /\ InFlight' = InFlight
    BY DEF IInv, TypeOK, Tick, InFlight
  <1>2. /\ Backoff(row.tamper) \in Nat
        /\ CoolOff[MaxDoublings] \in Nat
    BY <1>1, BackoffFacts, CoolOffAssumption DEF Rows
  <1>3. FailuresBelowHard' /\ CoolOffWellFormed'
    BY <1>1, <1>2 DEF IInv, FailuresBelowHard, CoolOffWellFormed, Rows
  <1>4. VerifyInTime'
    <2>1. \A u \in InFlight : login[u].since \in Nat
      BY <1>1 DEF InFlight, Logins
    <2> QED
      BY <1>1, <2>1, TimeAssumption DEF IInv, VerifyInTime, Tick, Rows
  <1>5. row.until <= now + Backoff(row.tamper) => row.until <= now' + Backoff(row.tamper)
    BY <1>1, <1>2 DEF Rows
  <1>6. Backoff(row.tamper)' = Backoff(row.tamper)
    BY <1>1 DEF Backoff
  <1>7. CoolOffOrigin'
    BY <1>1, <1>5, <1>6 DEF IInv, CoolOffOrigin, Backoff
  <1>8. LateLogins'
    BY <1>1, <1>5, <1>6 DEF IInv, LateLogins
  <1> QED
    BY <1>3, <1>4, <1>7, <1>8

\* The invariant is inductive.
LEMMA Inductive ==
  /\ Init => IInv
  /\ IInv /\ [Next]_vars => IInv'
  <1>1. Init => IInv
    <2> SUFFICES ASSUME Init
                 PROVE  IInv
      OBVIOUS
    <2>1. /\ row = ProvisionedRow /\ now = 1 /\ InFlight = {} /\ TypeOK
      BY DEF Init, InFlight, TypeOK, ProvisionedRow, Rows, Logins, Never
    <2>2. 0 <= 1 + CoolOff[MaxDoublings]
      BY CoolOffAssumption
    <2> QED
      BY <2>1, <2>2, ThresholdAssumption
      DEF IInv, ProvisionedRow, Never, FailuresBelowHard, CoolOffWellFormed, VerifyInTime,
          CoolOffOrigin, LateLogins
  <1>2. ASSUME IInv, [Next]_vars
        PROVE  IInv'
    <2> DEFINE Rest == FailuresBelowHard /\ CoolOffWellFormed /\ VerifyInTime
                         /\ CoolOffOrigin /\ LateLogins
    <2>0. TypeOK'
      BY <1>2, TypeStep DEF IInv
    <2>1. ASSUME NEW s \in Slots, NEW p \in Passwords, LoginStart(s, p)
          PROVE  Rest'
      BY <1>2, <2>1, StartStep
    <2>2. ASSUME LoginRefused \/ UnlockFails
          PROVE  Rest'
      BY <1>2, <2>2, TamperStep DEF LoginRefused, UnlockFails
    <2>3. ASSUME NEW s \in Slots, LoginFails(s)
          PROVE  Rest'
      BY <1>2, <2>3, FailStep
    <2>4. ASSUME NEW s \in Slots, NEW t \in Tokens, LoginSucceeds(s, t)
          PROVE  Rest'
      BY <1>2, <2>4, SuccessStep
    <2>5. ASSUME Access \/ UNCHANGED vars
          PROVE  Rest'
      <3>1. row' = row /\ now' = now /\ login' = login
        BY <2>5 DEF Access, SessionEnds, LinkStart, LinkClaim, CreateLink, ConsumeLink, IssueToken, LinkExpires,
                    Connect, Disconnect, vars
      <3> QED
        BY <1>2, <3>1, QuietStep
    <2>6. ASSUME Unlock
          PROVE  Rest'
      <3>1. /\ row'.level = 0 /\ row'.failed = 0 /\ row'.until = Never
            /\ row'.lastFailed = row.lastFailed
            /\ now' = now /\ login' = login /\ InFlight' = InFlight /\ now \in Nat
        BY <1>2, <2>6 DEF Unlock, ProvisionedRow, InFlight, IInv, TypeOK
      <3>2. 0 <= now + CoolOff[MaxDoublings]
        BY <3>1, CoolOffAssumption
      <3> QED
        BY <1>2, <3>1, <3>2, ThresholdAssumption
        DEF IInv, FailuresBelowHard, CoolOffWellFormed, VerifyInTime, CoolOffOrigin,
            LateLogins, Never
    <2>7. ASSUME Restart \/ CrashWhileLocking
          PROVE  Rest'
      <3>1. row' = row /\ now' = now /\ InFlight' = {}
        BY <2>7 DEF Restart, CrashWhileLocking, InFlight
      <3> QED
        BY <1>2, <3>1, QuietStep
    <2>8. ASSUME Tick
          PROVE  Rest'
      BY <1>2, <2>8, TickStep
    <2>9. Rest'
      BY <1>2, <2>1, <2>2, <2>3, <2>4, <2>5, <2>6, <2>7, <2>8 DEF Next, Access
    <2> QED
      BY <2>0, <2>9 DEF IInv
  <1> QED
    BY <1>1, <1>2

\* Whatever the thresholds, the cool-off curve and the number of requests: a
\* soft lock has a deadline, no other level has, no cool-off runs longer than the
\* capped maximum, and an account that is not hard locked is below the failure
\* threshold, also after a late failure has turned a hard lock into a soft one.
THEOREM RowsWellFormed == Spec => []RowWellFormed
  <1>1. IInv => RowWellFormed
    BY DEF IInv, RowWellFormed
  <1> QED
    BY <1>1, Inductive, PTL DEF Spec

\* No attempt brings the deadline of a soft lock forward, whatever the
\* thresholds, the window and the cool-off curve, as long as verifying one
\* password takes no longer than the failure window.
THEOREM CoolOffsOnlyGrow == Spec => CoolOffNeverShortened
  <1>1. ASSUME IInv, [Next]_vars, row.level = 1, row'.level = 1
        PROVE  row'.until >= row.until
    <2>1. row \in Rows /\ now \in Nat /\ login \in [Slots -> Logins]
      BY <1>1 DEF IInv, TypeOK
    <2>2. CASE row' = row
      BY <2>1, <2>2 DEF Rows
    <2>3. CASE Tamper
      <3>1. row'.until = row.until
              \/ row'.until = IF now + Backoff(row.tamper + 1) > row.until
                             THEN now + Backoff(row.tamper + 1) ELSE row.until
        BY <1>1, <2>1, <2>3, TamperFacts DEF Tamper
      <3>2. now + Backoff(row.tamper + 1) \in Nat
        BY <2>1, BackoffFacts DEF Rows
      <3> QED
        BY <2>1, <3>1, <3>2 DEF Rows
    <2>4. ASSUME NEW s \in Slots, LoginFails(s)
          PROVE  row'.until >= row.until
      <3> DEFINE n == Failures(row)
                 exponent == (n - SoftFail) + row.tamper
      <3>1. /\ n \in Nat \ {0}
            /\ n >= HardFail => row'.level = 2
            /\ n < HardFail /\ n >= SoftFail => row'.until = now + Backoff(exponent)
            /\ n < SoftFail => row'.until = row.until
        BY <2>1, <2>4, FailureFacts DEF LoginFails
      <3>2. CASE n < SoftFail
        BY <2>1, <3>1, <3>2 DEF Rows
      <3>3. CASE n >= SoftFail
        <4>1. exponent \in Nat /\ row.tamper \in Nat /\ row.tamper <= exponent
          BY <2>1, <3>1, <3>3, ThresholdAssumption DEF Rows
        <4>2. /\ Backoff(row.tamper) \in Nat /\ Backoff(exponent) \in Nat
              /\ Backoff(row.tamper) <= Backoff(exponent)
          BY <4>1, BackoffFacts
        <4>3. row'.until = now + Backoff(exponent)
          BY <1>1, <3>1, <3>3, ThresholdAssumption
        <4>4. CASE row.until <= now + Backoff(row.tamper)
          BY <2>1, <4>2, <4>3, <4>4 DEF Rows
        <4>5. CASE /\ row.failed >= SoftFail
                   /\ row.until <= row.lastFailed + Backoff((row.failed - SoftFail) + row.tamper)
          <5>1. CASE n = row.failed + 1
            <6>1. /\ (row.failed - SoftFail) + row.tamper \in Nat
                  /\ (row.failed - SoftFail) + row.tamper <= exponent
              BY <2>1, <4>5, <5>1, ThresholdAssumption DEF Rows
            <6>2. /\ Backoff((row.failed - SoftFail) + row.tamper) \in Nat
                  /\ Backoff((row.failed - SoftFail) + row.tamper) <= Backoff(exponent)
              BY <4>1, <6>1, BackoffFacts
            <6>3. row.lastFailed <= now
              BY <1>1 DEF IInv, VerifyInTime
            <6> QED
              BY <2>1, <4>2, <4>3, <4>5, <6>2, <6>3 DEF Rows
          <5>2. CASE n # row.failed + 1
            <6>1. row.lastFailed # Never /\ now - row.lastFailed > FailWindow
              BY <5>2 DEF Failures
            <6>2. s \in InFlight
              BY <2>4 DEF LoginFails, InFlight, NoLogin
            <6>3. now <= login[s].since + VerifyTime /\ login[s].since \in Nat
              BY <1>1, <2>1, <6>2 DEF IInv, VerifyInTime, Logins, InFlight
            <6>4. login[s].since > row.lastFailed
              BY <2>1, <6>1, <6>3, TimeAssumption DEF Rows
            <6>5. row.until <= now + Backoff(row.tamper)
              BY <1>1, <6>2, <6>4 DEF IInv, LateLogins
            <6> QED
              BY <4>4, <6>5
          <5> QED
            BY <5>1, <5>2
        <4> QED
          BY <1>1, <4>4, <4>5 DEF IInv, CoolOffOrigin
      <3> QED
        BY <3>1, <3>2, <3>3, ThresholdAssumption
    <2>5. ASSUME NEW s \in Slots, NEW t \in Tokens, LoginSucceeds(s, t)
          PROVE  row'.level # 1
      BY <2>1, <2>5, SuccessFacts DEF LoginSucceeds, IssueToken, Rows
    <2>6. ASSUME Unlock
          PROVE  row'.level # 1
      BY <2>6 DEF Unlock, ProvisionedRow
    <2> QED
      BY <1>1, <2>2, <2>3, <2>4, <2>5, <2>6
      DEF Next, LoginStart, LoginRefused, SessionEnds, LinkStart, LinkClaim, CreateLink, ConsumeLink, IssueToken, LinkExpires,
          Connect, Disconnect, UnlockFails, Restart, CrashWhileLocking, Tick, vars
  <1> QED
    BY <1>1, Inductive, PTL DEF Spec, CoolOffNeverShortened

\* Guessing in parallel gains at most one guess per request in flight.
THEOREM ParallelGuesses == Spec => []GuessesBounded
  <1> DEFINE Guesses == row.failed + Cardinality(InFlight)
             Bound == HardFail + Cardinality(Slots)
  <1>1. /\ IsFiniteSet(InFlight) /\ IsFiniteSet(InFlight')
        /\ Cardinality(Slots) \in Nat
        /\ Cardinality(InFlight) \in Nat /\ Cardinality(InFlight') \in Nat
        /\ Cardinality(InFlight') <= Cardinality(Slots)
    BY SlotsAssumption, FS_Subset, FS_CardinalityType DEF InFlight
  <1>2. Init => GuessesBounded
    <2> SUFFICES ASSUME Init
                 PROVE  GuessesBounded
      OBVIOUS
    <2>1. InFlight = {} /\ row.failed = 0
      BY DEF Init, InFlight, ProvisionedRow
    <2> QED
      BY <1>1, <2>1, FS_EmptySet, ThresholdAssumption DEF GuessesBounded
  <1>3. ASSUME IInv, IInv', GuessesBounded, [Next]_vars
        PROVE  GuessesBounded'
    <2>1. row \in Rows /\ row' \in Rows /\ now \in Nat /\ login \in [Slots -> Logins]
      BY <1>3 DEF IInv, TypeOK
    <2>2. CASE row'.level # 2
      <3>1. row'.failed < HardFail
        BY <1>3, <2>2 DEF IInv, FailuresBelowHard
      <3> QED
        BY <1>1, <2>1, <3>1, ThresholdAssumption DEF GuessesBounded, Rows
    <2>3. CASE row'.failed <= row.failed /\ InFlight' \subseteq InFlight
      <3>1. Cardinality(InFlight') <= Cardinality(InFlight)
        BY <1>1, <2>3, FS_Subset
      <3> QED
        BY <1>1, <1>3, <2>1, <2>3, <3>1, ThresholdAssumption DEF GuessesBounded, Rows
    <2>4. ASSUME NEW s \in Slots, LoginFails(s)
          PROVE  GuessesBounded'
      <3>1. row'.failed <= row.failed + 1
        <4>1. row'.failed = Failures(row)
          BY <2>1, <2>4, FailureFacts DEF LoginFails
        <4> QED
          BY <2>1, <4>1 DEF Failures, Rows
      <3>2. s \in InFlight /\ InFlight' = InFlight \ {s}
        BY <2>1, <2>4 DEF LoginFails, InFlight, NoLogin
      <3>3. Cardinality(InFlight') = Cardinality(InFlight) - 1
        BY <1>1, <3>2, FS_RemoveElement
      <3> QED
        BY <1>1, <1>3, <2>1, <3>1, <3>3, ThresholdAssumption DEF GuessesBounded, Rows
    <2>5. ASSUME NEW s \in Slots, NEW p \in Passwords, LoginStart(s, p)
          PROVE  row'.level # 2
      BY <2>5 DEF LoginStart, LockState
    <2>6. ASSUME NEW s \in Slots, NEW t \in Tokens, LoginSucceeds(s, t)
          PROVE  row'.failed <= row.failed /\ InFlight' \subseteq InFlight
      <3>1. row'.failed <= row.failed
        BY <2>1, <2>6, SuccessFacts DEF LoginSucceeds, IssueToken, Rows
      <3>2. InFlight' \subseteq InFlight
        BY <2>1, <2>6 DEF LoginSucceeds, IssueToken, InFlight
      <3> QED
        BY <3>1, <3>2
    <2>7. ASSUME Tamper, login' = login
          PROVE  row'.failed <= row.failed /\ InFlight' \subseteq InFlight
      BY <2>1, <2>7, TamperFacts DEF Tamper, InFlight, Rows
    <2>8. ASSUME Unlock
          PROVE  row'.level # 2
      BY <2>8 DEF Unlock, ProvisionedRow
    <2>9. ASSUME row' = row, login' = login \/ InFlight' = {}
          PROVE  row'.failed <= row.failed /\ InFlight' \subseteq InFlight
      BY <2>1, <2>9 DEF InFlight, Rows
    <2>10. ASSUME Restart \/ CrashWhileLocking
           PROVE  row' = row /\ InFlight' = {}
      BY <2>10 DEF Restart, CrashWhileLocking, InFlight
    <2>11. ASSUME Access \/ Tick \/ UNCHANGED vars
           PROVE  row' = row /\ login' = login
      BY <2>11 DEF Access, SessionEnds, LinkStart, LinkClaim, CreateLink, ConsumeLink, IssueToken, LinkExpires, Connect,
                   Disconnect, Tick, vars
    <2> QED
      BY <1>3, <2>2, <2>3, <2>4, <2>5, <2>6, <2>7, <2>8, <2>9, <2>10, <2>11
      DEF Next, Access, LoginRefused, UnlockFails
  <1> QED
    BY <1>2, <1>3, Inductive, PTL DEF Spec

\* No session survives the moment an account turns hard locked.
THEOREM LockRevokes == Spec => HardLockRevokes
  <1>1. ASSUME TypeOK, [Next]_vars, row.level # 2, row'.level = 2
        PROVE  sessions' = {}
    <2>1. row \in Rows /\ now \in Nat
      BY <1>1 DEF TypeOK
    <2>2. ASSUME Tamper
          PROVE  sessions' = {}
      <3>1. row.level < 2
        BY <1>1, <2>1 DEF Rows
      <3>2. row.tamper + 1 >= HardFail
        BY <1>1, <2>1, <2>2, TamperFacts DEF Tamper
      <3> QED
        BY <2>2, <3>1, <3>2 DEF Tamper, TamperRevokes
    <2>3. ASSUME NEW s \in Slots, LoginFails(s)
          PROVE  sessions' = {}
      <3>1. Failures(row) >= HardFail
        BY <1>1, <2>1, <2>3, FailureFacts, ThresholdAssumption DEF LoginFails
      <3> QED
        BY <2>3, <3>1 DEF LoginFails, FailureRevokes
    <2>4. ASSUME NEW s \in Slots, NEW t \in Tokens, LoginSucceeds(s, t)
          PROVE  FALSE
      BY <1>1, <2>1, <2>4, SuccessFacts DEF LoginSucceeds, IssueToken
    <2>5. ASSUME Unlock
          PROVE  FALSE
      BY <1>1, <2>5 DEF Unlock, ProvisionedRow
    <2> QED
      BY <1>1, <2>2, <2>3, <2>4, <2>5
      DEF Next, LoginStart, LoginRefused, SessionEnds, LinkStart, LinkClaim, CreateLink, ConsumeLink, IssueToken, LinkExpires,
          Connect, Disconnect, UnlockFails, Restart, CrashWhileLocking, Tick, vars
  <1> QED
    BY <1>1, TypeCorrect, PTL DEF Spec, HardLockRevokes

\* A sealed account stays sealed until both keys are shown.
THEOREM SealHolds == Spec => SealedUntilUnlock
  <1>1. ASSUME TypeOK, [Next]_vars, Sealed, ~Unlock
        PROVE  Sealed'
    <2>1. row \in Rows /\ now \in Nat /\ row.level = 2 /\ InFlight = {}
      BY <1>1 DEF TypeOK, Sealed
    <2>2. ASSUME Tamper, UNCHANGED <<login, live, codes, now>>
          PROVE  Sealed'
      <3>1. row'.level = 2
        BY <2>1, <2>2, TamperFacts DEF Tamper
      <3>2. sessions' = {}
        BY <1>1, <2>2 DEF Tamper, Sealed
      <3> QED
        BY <1>1, <2>2, <3>1, <3>2 DEF Sealed, InFlight
    <2>3. ASSUME NEW s \in Slots
          PROVE  /\ ~LoginFails(s)
                 /\ \A t \in Tokens : ~LoginSucceeds(s, t)
                 /\ \A p \in Passwords : ~LoginStart(s, p)
      BY <2>1 DEF InFlight, NoLogin, LoginFails, LoginSucceeds, IssueToken, LoginStart, LockState
    <2>4. ASSUME NEW t \in Tokens
          PROVE  /\ ~SessionEnds(t) /\ ~Connect(t) /\ ~Disconnect(t)
                 /\ \A c \in Codes : ~LinkStart(t, c) /\ ~LinkClaim(c, t)
      BY <1>1 DEF Sealed, SessionEnds, Connect, Disconnect, LinkStart, LinkClaim, CreateLink, ConsumeLink, IssueToken
    <2>5. ASSUME NEW c \in Codes
          PROVE  ~LinkExpires(c)
      BY <1>1 DEF Sealed, LinkExpires
    <2>6. ASSUME Restart \/ CrashWhileLocking \/ Tick \/ UNCHANGED vars
          PROVE  Sealed'
      BY <1>1, <2>6 DEF Sealed, Restart, CrashWhileLocking, Tick, vars, InFlight
    <2> QED
      BY <1>1, <2>2, <2>3, <2>4, <2>5, <2>6 DEF Next, LoginRefused, UnlockFails
  <1> QED
    BY <1>1, TypeCorrect, PTL DEF Spec, SealedUntilUnlock

\* No single step other than the two keys lets a hard-locked account admit
\* logins again: a stale failure leaves it under a cool-off that still runs.
THEOREM HardLockHolds == Spec => HardLockNeverOpens
  <1>1. ASSUME TypeOK, [Next]_vars, row.level = 2, ~Unlock
        PROVE  LockState(row)' # 0
    <2>1. row \in Rows /\ now \in Nat
      BY <1>1 DEF TypeOK
    <2>2. ASSUME row'.level = 2
          PROVE  LockState(row)' # 0
      BY <2>2 DEF LockState
    <2>3. ASSUME NEW s \in Slots, LoginFails(s)
          PROVE  LockState(row)' # 0
      <3> DEFINE n == Failures(row)
      <3>1. /\ n \in Nat
            /\ n >= HardFail => row'.level = 2
            /\ n < HardFail /\ n >= SoftFail =>
                 row'.level = 1 /\ row'.until = now + Backoff((n - SoftFail) + row.tamper)
            /\ n < SoftFail => row'.level = 2
        BY <1>1, <2>1, <2>3, FailureFacts DEF LoginFails
      <3>2. CASE n < HardFail /\ n >= SoftFail
        <4>1. (n - SoftFail) + row.tamper \in Nat
          BY <2>1, <3>1, <3>2, ThresholdAssumption DEF Rows
        <4>2. Backoff((n - SoftFail) + row.tamper) \in Nat \ {0}
          BY <4>1, BackoffFacts
        <4>3. row'.until > now' /\ row'.level = 1
          BY <2>1, <2>3, <3>1, <3>2, <4>2 DEF LoginFails
        <4> QED
          BY <4>3 DEF LockState
      <3> QED
        BY <2>2, <3>1, <3>2, ThresholdAssumption
    <2>4. ASSUME Tamper
          PROVE  row'.level = 2
      BY <1>1, <2>1, <2>4, TamperFacts DEF Tamper
    <2>5. ASSUME NEW s \in Slots, NEW t \in Tokens, LoginSucceeds(s, t)
          PROVE  row'.level = 2
      BY <1>1, <2>1, <2>5, SuccessFacts DEF LoginSucceeds, IssueToken
    <2> QED
      BY <1>1, <2>2, <2>3, <2>4, <2>5
      DEF Next, LoginStart, LoginRefused, SessionEnds, LinkStart, LinkClaim, CreateLink, ConsumeLink, IssueToken, LinkExpires,
          Connect, Disconnect, UnlockFails, Restart, CrashWhileLocking, Tick, vars
  <1> QED
    BY <1>1, TypeCorrect, PTL DEF Spec, HardLockNeverOpens
=============================================================================
