------------------------------ MODULE Lockdown ------------------------------
(***************************************************************************)
(* The tamper lockdown of one account (server/src/security.ts) together    *)
(* with everything that lets a device into the account: password login     *)
(* (routes/auth.ts), link codes (routes/devices.ts, links.ts), session     *)
(* tokens (tokens.ts, repo.ts) and the WebSockets opened with them (ws.ts).*)
(*                                                                         *)
(* Node runs one handler at a time between two awaits, so the only place   *)
(* where a login can be overtaken by other requests is the await on        *)
(* argon2's verify: a login is two actions, LoginStart before the await    *)
(* and LoginFails or LoginSucceeds after it.  Accounts share no state, so  *)
(* one account is modelled.  Times are ticks of a bounded clock; 0 is the  *)
(* database's NULL.                                                        *)
(***************************************************************************)
EXTENDS Naturals, FiniteSets

CONSTANTS
  Slots,         \* login requests that may be in flight at the same time
  Tokens,        \* session tokens
  Codes,         \* device link codes
  SoftFail,      \* config.security.softFailThreshold
  HardFail,      \* config.security.hardFailThreshold
  FailWindow,    \* config.security.failWindowMs
  MaxDoublings,  \* the cap of 10 on the exponent of a cool-off
  CoolOff,       \* CoolOff[k] is softLockBaseMs * 2 ** k
  UnlockEnabled, \* ADMIN_UNLOCK_SECRET is set
  VerifyTime,    \* longest time a password verification takes
  MaxTime,       \* bound on the clock
  MaxTamper      \* bound on the tamper score

ASSUME ThresholdAssumption ==
  /\ SoftFail \in Nat \ {0}
  /\ HardFail \in Nat
  /\ SoftFail < HardFail
ASSUME TimeAssumption ==
  /\ FailWindow \in Nat /\ VerifyTime \in Nat /\ MaxTime \in Nat
  /\ VerifyTime <= FailWindow
ASSUME CoolOffAssumption ==
  /\ MaxDoublings \in Nat
  /\ CoolOff \in [0..MaxDoublings -> Nat \ {0}]
  /\ \A j, k \in 0..MaxDoublings : j <= k => CoolOff[j] <= CoolOff[k]
ASSUME BoundAssumption ==
  /\ MaxTamper \in Nat
  /\ UnlockEnabled \in BOOLEAN
ASSUME SlotsAssumption == IsFiniteSet(Slots)

Never == 0            \* NULL in last_failed_at and locked_until
Passwords == {"right", "wrong"}
NoLogin == [password |-> "none", since |-> Never]

VARIABLES
  row,      \* the account_security row
  login,    \* login[s]: the request that slot s is verifying, or NoLogin
  sessions, \* tokens in auth_sessions
  live,     \* tokens whose WebSocket is open
  codes,    \* outstanding device link codes, held in memory
  now       \* Date.now()

vars == <<row, login, sessions, live, codes, now>>

Rows == [failed : Nat, lastFailed : Nat, level : {0, 1, 2},
         until : Nat, tamper : Nat]
Logins == [password : Passwords, since : Nat] \union {NoLogin}

\* The row holds what its columns may hold, and only declared levels; tokens
\* and codes are the declared ones.
TypeOK ==
  /\ row \in Rows
  /\ login \in [Slots -> Logins]
  /\ sessions \subseteq Tokens
  /\ live \subseteq Tokens
  /\ codes \subseteq Codes
  /\ now \in Nat

-----------------------------------------------------------------------------
(* security.ts: what each function makes of the account_security row.      *)

ProvisionedRow ==
  [failed |-> 0, lastFailed |-> Never, level |-> 0, until |-> Never, tamper |-> 0]

\* Faulty variant: only soft locks are looked at.
LockStateSoftOnly(r) == IF r.level = 1 /\ r.until > now THEN 1 ELSE 0

\* A soft lock that has run out counts as no lock; the row keeps level 1.
LockState(r) ==
  IF r.level = 2 THEN 2
  ELSE IF r.level = 1 /\ r.until > now THEN 1 ELSE 0

Backoff(n) == CoolOff[IF n < MaxDoublings THEN n ELSE MaxDoublings]

Failures(r) ==
  IF r.lastFailed # Never /\ now - r.lastFailed > FailWindow THEN 1 ELSE r.failed + 1

\* Faulty variants: the threshold is off by one; the tamper score is left out
\* of the cool-off.
RecordFailureLate(r) ==
  LET n == Failures(r)
      counted == [r EXCEPT !.failed = n, !.lastFailed = now]
  IN  IF n > HardFail THEN [counted EXCEPT !.level = 2, !.until = Never] ELSE counted

RecordFailureTamperIgnored(r) ==
  LET n == Failures(r)
      counted == [r EXCEPT !.failed = n, !.lastFailed = now]
  IN  IF n >= SoftFail
      THEN [counted EXCEPT !.level = 1, !.until = now + Backoff(n - SoftFail)]
      ELSE counted

RecordFailure(r) ==
  LET n == Failures(r)
      counted == [r EXCEPT !.failed = n, !.lastFailed = now]
  IN  IF n >= HardFail THEN [counted EXCEPT !.level = 2, !.until = Never]
      ELSE IF n >= SoftFail
      THEN [counted EXCEPT !.level = 1,
                           !.until = now + Backoff((n - SoftFail) + r.tamper)]
      ELSE counted

\* Faulty variant: a hard lock is cleared like a soft one.
RecordSuccessAlways(r) == [r EXCEPT !.failed = 0, !.level = 0, !.until = Never]

RecordSuccess(r) ==
  IF r.level = 2 THEN r
  ELSE [r EXCEPT !.failed = 0, !.level = 0, !.until = Never]

\* Faulty variants: every tamper raises the level by one; a hard lock is
\* overwritten by a soft one.
RegisterTamperStep(r) ==
  [r EXCEPT !.tamper = r.tamper + 1, !.level = r.level + 1, !.until = now + 1]

RegisterTamperSoftens(r) ==
  [r EXCEPT !.tamper = r.tamper + 1, !.level = 1, !.until = now + Backoff(r.tamper + 1)]

RegisterTamper(r) ==
  LET poked == [r EXCEPT !.tamper = r.tamper + 1]
      extended == now + Backoff(poked.tamper)
  IN  IF poked.tamper >= HardFail /\ r.level < 2
      THEN [poked EXCEPT !.level = 2, !.until = Never]
      ELSE IF r.level = 1 /\ r.until # Never
      THEN [poked EXCEPT !.until = IF extended > r.until THEN extended ELSE r.until]
      ELSE poked

\* Faulty variant: tampering locks without revoking.
TamperNeverRevokes == FALSE

\* deleteAllForUser runs when a function sets the hard lock, before the save.
FailureRevokes == Failures(row) >= HardFail
TamperRevokes == row.tamper + 1 >= HardFail /\ row.level < 2

-----------------------------------------------------------------------------
(* The requests.                                                           *)

InFlight == {s \in Slots : login[s] # NoLogin}

Tamper ==
  /\ row.tamper < MaxTamper
  /\ row' = RegisterTamper(row)
  /\ sessions' = IF TamperRevokes THEN {} ELSE sessions

\* POST /auth/login up to the await: refused while a lock is in force, else
\* the request goes on to verify the password it was sent.
LoginStart(s, password) ==
  /\ login[s] = NoLogin
  /\ LockState(row) = 0
  /\ login' = [login EXCEPT ![s] = [password |-> password, since |-> now]]
  /\ UNCHANGED <<row, sessions, live, codes, now>>

LoginRefused ==
  /\ LockState(row) # 0
  /\ Tamper
  /\ UNCHANGED <<login, live, codes, now>>

\* After the await.
LoginFails(s) ==
  /\ login[s].password = "wrong"
  /\ login' = [login EXCEPT ![s] = NoLogin]
  /\ row' = RecordFailure(row)
  /\ sessions' = IF FailureRevokes THEN {} ELSE sessions
  /\ UNCHANGED <<live, codes, now>>

\* A session under a fresh token.
IssueToken(t) ==
  /\ t \notin sessions \union live
  /\ sessions' = sessions \union {t}

LoginSucceeds(s, t) ==
  /\ login[s].password = "right"
  /\ login' = [login EXCEPT ![s] = NoLogin]
  /\ row' = RecordSuccess(row)
  /\ IssueToken(t)
  /\ UNCHANGED <<live, codes, now>>

\* POST /auth/logout, and the removal of an expired token when it is used.
SessionEnds(t) ==
  /\ t \in sessions
  /\ sessions' = sessions \ {t}
  /\ UNCHANGED <<row, login, live, codes, now>>

\* Codes are kept in memory and used up by their first claim.
CreateLink(c) ==
  /\ c \notin codes
  /\ codes' = codes \union {c}

ConsumeLink(c) ==
  /\ c \in codes
  /\ codes' = codes \ {c}

\* POST /devices/link/start and /devices/link/claim.
LinkStart(t, c) ==
  /\ t \in sessions
  /\ CreateLink(c)
  /\ UNCHANGED <<row, login, sessions, live, now>>

LinkClaim(c, t) ==
  /\ ConsumeLink(c)
  /\ IssueToken(t)
  /\ UNCHANGED <<row, login, live, now>>

LinkExpires(c) ==
  /\ c \in codes
  /\ codes' = codes \ {c}
  /\ UNCHANGED <<row, login, sessions, live, now>>

\* The WebSocket checks the token when it opens and never again.
Connect(t) ==
  /\ t \in sessions \ live
  /\ live' = live \union {t}
  /\ UNCHANGED <<row, login, sessions, codes, now>>

Disconnect(t) ==
  /\ t \in live
  /\ live' = live \ {t}
  /\ UNCHANGED <<row, login, sessions, codes, now>>

\* POST /lockdown/unlock.  Any wrong key counts as tampering.
Unlock ==
  /\ UnlockEnabled
  /\ row' = [ProvisionedRow EXCEPT !.lastFailed = row.lastFailed]
  /\ UNCHANGED <<login, sessions, live, codes, now>>

UnlockFails ==
  /\ UnlockEnabled
  /\ Tamper
  /\ UNCHANGED <<login, live, codes, now>>

-----------------------------------------------------------------------------
(* The environment.                                                        *)

Restart ==
  /\ login' = [s \in Slots |-> NoLogin]
  /\ live' = {}
  /\ codes' = {}
  /\ UNCHANGED <<row, sessions, now>>

\* The process dies between deleteAllForUser and the save of the row.
CrashWhileLocking ==
  /\ \/ TamperRevokes /\ (UnlockEnabled \/ LockState(row) # 0)
     \/ FailureRevokes /\ \E s \in Slots : login[s].password = "wrong"
  /\ sessions' = {}
  /\ login' = [s \in Slots |-> NoLogin]
  /\ live' = {}
  /\ codes' = {}
  /\ UNCHANGED <<row, now>>

Tick ==
  /\ now < MaxTime
  /\ \A s \in InFlight : now < login[s].since + VerifyTime
  /\ now' = now + 1
  /\ UNCHANGED <<row, login, sessions, live, codes>>

-----------------------------------------------------------------------------
\* An account just registered: its row, and the session of its first device.
Init ==
  /\ row = ProvisionedRow
  /\ login = [s \in Slots |-> NoLogin]
  /\ \E t \in Tokens : sessions = {t}
  /\ live = {}
  /\ codes = {}
  /\ now = 1

Next ==
  \/ \E s \in Slots, p \in Passwords : LoginStart(s, p)
  \/ LoginRefused
  \/ \E s \in Slots : LoginFails(s)
  \/ \E s \in Slots, t \in Tokens : LoginSucceeds(s, t)
  \/ \E t \in Tokens : SessionEnds(t)
  \/ \E t \in Tokens, c \in Codes : LinkStart(t, c)
  \/ \E c \in Codes, t \in Tokens : LinkClaim(c, t)
  \/ \E c \in Codes : LinkExpires(c)
  \/ \E t \in Tokens : Connect(t)
  \/ \E t \in Tokens : Disconnect(t)
  \/ Unlock
  \/ UnlockFails
  \/ Restart
  \/ CrashWhileLocking
  \/ Tick

Spec == Init /\ [][Next]_vars

-----------------------------------------------------------------------------
(* Properties.                                                             *)

\* Parallel guessing is bounded.  All logins that passed the check before the
\* lock still get their password tried, but no further one: the wrong guesses
\* counted so far and those still being verified exceed the hard threshold by
\* no more than the number of requests that can be in flight.
GuessesBounded ==
  row.failed + Cardinality(InFlight) < HardFail + Cardinality(Slots)

\* lockState treats level 1 without a deadline as unlocked, so a soft lock has
\* one; the other levels have none; and no cool-off, however it was extended,
\* runs longer than the capped maximum from now.
CoolOffWellFormed ==
  /\ row.level = 1 <=> row.until # Never
  /\ row.until <= now + CoolOff[MaxDoublings]

\* An account that is not hard locked is below the failure threshold, also
\* after stale failures took a hard lock down to a soft one.
FailuresBelowHard == row.level # 2 => row.failed < HardFail

\* The row stays one that lockState and recordFailure read as they should.
RowWellFormed == CoolOffWellFormed /\ FailuresBelowHard

\* While a soft lock is on record, no attempt brings its deadline forward: not
\* a failure counted after the window restarted the counter, and not a failure
\* that was being verified while tampering extended the cool-off.
CoolOffNeverShortened ==
  [][row.level = 1 /\ row'.level = 1 => row'.until >= row.until]_vars

\* The moment an account turns hard locked no session is left, whichever of
\* the two escalations did it, also when the process dies in the middle.
HardLockRevokes ==
  [][row.level # 2 /\ row'.level = 2 => sessions' = {}]_vars

\* Nobody is in and nothing that could still let somebody in is pending.
Sealed ==
  /\ row.level = 2
  /\ sessions = {} /\ live = {} /\ codes = {} /\ InFlight = {}

\* Once sealed, a hard-locked account stays sealed until both keys are shown.
SealedUntilUnlock == [][Sealed => Sealed' \/ Unlock]_vars

\* A hard lock left without the two keys, by a wrong login that was already
\* being verified, still leaves the account under a running cool-off: no single
\* step opens a hard-locked account to new logins.
HardLockNeverOpens ==
  [][row.level = 2 => Unlock \/ LockState(row)' # 0]_vars

\* Claims of the documents that the code does not keep (see the README):
\* "A hard-locked account can only be reopened with two keys".
OnlyKeysReopen == [][row.level = 2 /\ row'.level # 2 => Unlock]_vars

\* "revoke everything on hard lock", "even the correct password is refused".
HardLockHasNoSession == row.level = 2 => sessions = {}
=============================================================================
