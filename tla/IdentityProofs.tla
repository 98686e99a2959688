--------------------------- MODULE IdentityProofs ---------------------------
(***************************************************************************)
(* Theorems about Identity, for any number of logins, reloads, sockets and *)
(* clicks on Sign out.                                                     *)
(***************************************************************************)
EXTENDS Identity, FiniteSetTheorems, TLAPS

\* The page is in one flow at a time: a login is made on the sign-in screen, and a
\* page that has not booted has neither an account nor a socket.  An account in
\* memory goes with the pickle key there.
Order ==
  /\ stage # "idle" => status = "loggedOut" /\ last # None
  /\ status = "loggedOut" /\ stage \in {"idle", "call"} => account = None
  /\ status \in {"loading", "stuck"} =>
       account = None /\ key = None /\ tasks = {} /\ sockets = {} /\ ~timer /\ ~SigningOut
  /\ account \in {None, key} /\ (tasks # {} => key # None)
  /\ stage \in {"identity", "pickleKey", "account"} => key = last

\* The identity is well typed when the page starts for the first time.
LEMMA InitOrder == Init => TypeOK /\ Order
  <1> USE BoundAssumption DEF Init, None, Empty, Idle, Tasks
  <1>1. Init => ServerTypes /\ DiskTypes /\ PageTypes /\ NetTypes /\ FlowTypes
    BY DEF ServerTypes, DiskTypes, PageTypes, NetTypes, FlowTypes
  <1>2. Init => FlagTypes
    BY DEF FlagTypes
  <1>3. Init => Order
    BY DEF Order, SigningOut
  <1> QED
    BY <1>1, <1>2, <1>3 DEF TypeOK

\* Every step keeps the types.
LEMMA TypeStep == TypeOK /\ Order /\ [Next]_vars => TypeOK'
  <1> SUFFICES ASSUME TypeOK, Order, [Next]_vars
               PROVE  TypeOK'
    OBVIOUS
  <1> USE BoundAssumption DEF TypeOK, None, Logins, Empty, Idle, Tasks
  <1>1. CASE UNCHANGED vars
    BY <1>1 DEF ServerTypes, DiskTypes, PageTypes, NetTypes, FlowTypes, FlagTypes, vars, server, disk, page, net, flows, history
  <1>2. ASSUME NEW s \in sockets, Opens(s)
        PROVE  TypeOK'
    BY <1>2 DEF ServerTypes, DiskTypes, PageTypes, NetTypes, FlowTypes, FlagTypes, Order, Logins, Opens, Valid, server, disk, page, flows, history
  <1>3. ASSUME NEW s \in sockets, Closes(s)
        PROVE  TypeOK'
    BY <1>3 DEF ServerTypes, DiskTypes, PageTypes, NetTypes, FlowTypes, FlagTypes, Order, Logins, Closes, ScheduleReconnect, server, disk, page, flows, history
  <1>4. CASE Reconnects
    <2>1. ServerTypes'
      BY <1>4 DEF ServerTypes, Reconnects, Connect, server, disk, page, flows
    <2>2. DiskTypes'
      BY <1>4 DEF DiskTypes, Reconnects, Connect, server, disk, page, flows
    <2>3. PageTypes'
      BY <1>4 DEF PageTypes, Reconnects, Connect, server, disk, page, flows
    <2>4. NetTypes'
      BY <1>4 DEF NetTypes, PageTypes, Reconnects, Connect, server, disk, page, flows
    <2>5. FlowTypes'
      BY <1>4 DEF FlowTypes, NetTypes, SigningOut, Reconnects, Connect, server, disk, page, flows
    <2>6. FlagTypes'
      BY <1>4 DEF FlagTypes, Reconnects, Connect, server, disk, page, flows
    <2> QED
      BY <2>1, <2>2, <2>3, <2>4, <2>5, <2>6
  <1>5. ASSUME NEW n \in tokens, Expires(n)
        PROVE  TypeOK'
    BY <1>5 DEF ServerTypes, DiskTypes, PageTypes, NetTypes, FlowTypes, FlagTypes, Order, Logins, Expires, disk, page, net, flows, history
  <1>6. CASE Submit
    BY <1>6 DEF ServerTypes, DiskTypes, PageTypes, NetTypes, FlowTypes, FlagTypes, Order, Logins, Submit, ShowsAuthScreen, server, disk, page, net
  <1>7. CASE Served
    <2>1. ServerTypes'
      BY <1>7 DEF ServerTypes, FlowTypes, Order, Served, Issued, disk, net
    <2>2. DiskTypes'
      BY <1>7 DEF DiskTypes, Served, Issued, disk, net
    <2>3. PageTypes'
      BY <1>7 DEF PageTypes, FlowTypes, Order, Served, Issued, disk, net
    <2>4. NetTypes'
      BY <1>7 DEF NetTypes, Served, Issued, disk, net
    <2>5. FlowTypes'
      BY <1>7 DEF FlowTypes, Served, Issued, disk, net
    <2>6. FlagTypes'
      BY <1>7 DEF FlagTypes, Served, Issued, disk, net
    <2> QED
      BY <2>1, <2>2, <2>3, <2>4, <2>5, <2>6
  <1>8. CASE Refused
    BY <1>8 DEF ServerTypes, DiskTypes, PageTypes, NetTypes, FlowTypes, FlagTypes, Order, Logins, Refused, server, disk, page, net, history
  <1>9. CASE StoreIdentity
    BY <1>9 DEF ServerTypes, DiskTypes, PageTypes, NetTypes, FlowTypes, FlagTypes, Order, Logins, StoreIdentity, server, page, net, history
  <1>10. CASE StorePickleKey
    BY <1>10 DEF ServerTypes, DiskTypes, PageTypes, NetTypes, FlowTypes, FlagTypes, Order, Logins, StorePickleKey, server, page, net, history
  <1>11. CASE SaveAccount
    <2>1. ServerTypes'
      BY <1>11 DEF ServerTypes, SaveAccount, Connect, server
    <2>2. DiskTypes'
      BY <1>11 DEF DiskTypes, PageTypes, FlowTypes, SaveAccount, Connect, server
    <2>3. PageTypes'
      BY <1>11 DEF PageTypes, FlowTypes, Order, SaveAccount, Connect, server
    <2>4. NetTypes'
      BY <1>11 DEF NetTypes, Order, FlowTypes, SaveAccount, Connect, server
    <2>5. FlowTypes'
      BY <1>11 DEF FlowTypes, NetTypes, SigningOut, SaveAccount, Connect, server
    <2>6. FlagTypes'
      BY <1>11 DEF FlagTypes, SaveAccount, Connect, server
    <2> QED
      BY <2>1, <2>2, <2>3, <2>4, <2>5, <2>6
  <1>12. ASSUME NEW t \in Tasks, StartTask(t)
        PROVE  TypeOK'
    BY <1>12 DEF ServerTypes, DiskTypes, PageTypes, NetTypes, FlowTypes, FlagTypes, Order, Logins, StartTask, server, disk, page, net, history
  <1>13. CASE FinishClaim \/ FinishUpload \/ FinishRoute
    <2>1. ServerTypes'
      BY <1>13 DEF ServerTypes, FinishClaim, FinishUpload, FinishRoute, Put, server, page, net, history
    <2>2. DiskTypes'
      <3>1. kv' = kv \/ kv' = [kv EXCEPT !.account = account]
        BY <1>13 DEF FinishClaim, FinishUpload, FinishRoute
      <3>2. key # None
        BY <1>13 DEF Order, FinishClaim, FinishUpload, FinishRoute
      <3>3. pickles' \subseteq pickles \union {key} /\ groups' \subseteq groups \union {key}
        BY <1>13 DEF FinishClaim, FinishUpload, FinishRoute, Put
      <3> QED
        BY <3>1, <3>2, <3>3 DEF DiskTypes, PageTypes, Logins
    <2>3. PageTypes'
      BY <1>13 DEF PageTypes, FinishClaim, FinishUpload, FinishRoute, Put, server, page, net, history
    <2>4. NetTypes'
      BY <1>13 DEF NetTypes, FinishClaim, FinishUpload, FinishRoute, Put, server, page, net, history
    <2>5. FlowTypes'
      BY <1>13 DEF FlowTypes, FinishClaim, FinishUpload, FinishRoute, Put, server, page, net, history
    <2>6. FlagTypes'
      BY <1>13 DEF FlagTypes, FinishClaim, FinishUpload, FinishRoute, Put, server, page, net, history
    <2> QED
      BY <2>1, <2>2, <2>3, <2>4, <2>5, <2>6
  <1>14. ASSUME NEW c \in Signouts, Logout(c)
        PROVE  TypeOK'
    BY <1>14 DEF ServerTypes, DiskTypes, PageTypes, NetTypes, FlowTypes, FlagTypes, Order, Logins, Logout, ShowsSidebar, server, disk, page, history
  <1>15. ASSUME NEW c \in Signouts, Revoke(c)
        PROVE  TypeOK'
    <2>1. ServerTypes'
      BY <1>15 DEF ServerTypes, Revoke, Revoked, ClearAll, page, net
    <2>2. DiskTypes'
      BY <1>15 DEF DiskTypes, Revoke, Revoked, ClearAll, page, net
    <2>3. PageTypes'
      BY <1>15 DEF PageTypes, Revoke, Revoked, ClearAll, page, net
    <2>4. NetTypes'
      BY <1>15 DEF NetTypes, Revoke, Revoked, ClearAll, page, net
    <2>5. FlowTypes'
      BY <1>15 DEF FlowTypes, Revoke, Revoked, ClearAll, page, net
    <2>6. FlagTypes'
      BY <1>15 DEF FlagTypes, Revoke, Revoked, ClearAll, page, net
    <2> QED
      BY <2>1, <2>2, <2>3, <2>4, <2>5, <2>6
  <1>16. ASSUME NEW c \in Signouts, Forget(c)
        PROVE  TypeOK'
    <2>1. ServerTypes'
      BY <1>16 DEF ServerTypes, Forget, server, disk, net, history
    <2>2. DiskTypes'
      BY <1>16 DEF DiskTypes, Forget, server, disk, net, history
    <2>3. PageTypes'
      BY <1>16 DEF PageTypes, Forget, server, disk, net, history
    <2>4. NetTypes'
      BY <1>16 DEF NetTypes, Forget, server, disk, net, history
    <2>5. FlowTypes'
      BY <1>16 DEF FlowTypes, Forget, server, disk, net, history
    <2>6. FlagTypes'
      BY <1>16 DEF FlagTypes, Forget, server, disk, net, history
    <2> QED
      BY <2>1, <2>2, <2>3, <2>4, <2>5, <2>6
  <1>17. CASE Reload
    <2>1. ServerTypes'
      BY <1>17 DEF ServerTypes, Reload, server, disk
    <2>2. DiskTypes'
      BY <1>17 DEF DiskTypes, Reload, server, disk
    <2>3. PageTypes'
      BY <1>17 DEF PageTypes, Reload, server, disk
    <2>4. NetTypes'
      BY <1>17 DEF NetTypes, Reload, server, disk
    <2>5. FlowTypes'
      BY <1>17 DEF FlowTypes, SigningOut, Reload, server, disk
    <2>6. FlagTypes'
      BY <1>17 DEF FlagTypes, Reload, server, disk
    <2> QED
      BY <2>1, <2>2, <2>3, <2>4, <2>5, <2>6
  <1>18. CASE Boot
    <2>1. ServerTypes'
      BY <1>18 DEF ServerTypes, Boot, Stored, Connect, server, disk, flows, history
    <2>2. DiskTypes'
      BY <1>18 DEF DiskTypes, Boot, Stored, Connect, server, disk, flows, history
    <2>3. PageTypes'
      BY <1>18 DEF PageTypes, DiskTypes, Boot, Stored, Connect, server, disk, flows, history
    <2>4. NetTypes'
      BY <1>18 DEF NetTypes, DiskTypes, Boot, Stored, Connect, server, disk, flows, history
    <2>5. FlowTypes'
      BY <1>18 DEF FlowTypes, Boot, Stored, Connect, server, disk, flows, history
    <2>6. FlagTypes'
      BY <1>18 DEF FlagTypes, Boot, Stored, Connect, server, disk, flows, history
    <2> QED
      BY <2>1, <2>2, <2>3, <2>4, <2>5, <2>6
  <1> QED
    BY <1>1, <1>2, <1>3, <1>4, <1>5, <1>6, <1>7, <1>8, <1>9, <1>10, <1>11, <1>12, <1>13, <1>14, <1>15, <1>16, <1>17, <1>18 DEF Next

\* Every step keeps the flows in order.
LEMMA OrderStep == TypeOK /\ Order /\ [Next]_vars => Order'
  <1> SUFFICES ASSUME TypeOK, Order, [Next]_vars
               PROVE  Order'
    OBVIOUS
  <1> USE BoundAssumption DEF TypeOK, ServerTypes, DiskTypes, PageTypes, NetTypes, FlowTypes,
                            Order, None, Logins, Empty, Idle, Tasks, SigningOut
  <1>1. CASE UNCHANGED vars
    BY <1>1 DEF vars, server, disk, page, net, flows, history
  <1>2. ASSUME NEW s \in sockets, Opens(s)
        PROVE  Order'
    BY <1>2 DEF Opens, Valid, server, disk, page, flows, history
  <1>3. ASSUME NEW s \in sockets, Closes(s)
        PROVE  Order'
    BY <1>3 DEF Closes, ScheduleReconnect, server, disk, page, flows, history
  <1>4. CASE Reconnects
    BY <1>4 DEF Reconnects, Connect, server, disk, page, flows
  <1>5. ASSUME NEW n \in tokens, Expires(n)
        PROVE  Order'
    BY <1>5 DEF Expires, disk, page, net, flows, history
  <1>6. CASE Submit
    BY <1>6 DEF Submit, ShowsAuthScreen, server, disk, page, net
  <1>7. CASE Served
    BY <1>7 DEF Served, Issued, disk, net
  <1>8. CASE Refused
    BY <1>8 DEF Refused, server, disk, page, net, history
  <1>9. CASE StoreIdentity
    BY <1>9 DEF StoreIdentity, server, page, net, history
  <1>10. CASE StorePickleKey
    BY <1>10 DEF StorePickleKey, server, page, net, history
  <1>11. CASE SaveAccount
    BY <1>11 DEF SaveAccount, Connect, server
  <1>12. ASSUME NEW t \in Tasks, StartTask(t)
        PROVE  Order'
    BY <1>12 DEF StartTask, server, disk, page, net, history
  <1>13. CASE FinishClaim \/ FinishUpload \/ FinishRoute
    BY <1>13 DEF FinishClaim, FinishUpload, FinishRoute, Put, server, page, net, history
  <1>14. ASSUME NEW c \in Signouts, Logout(c)
        PROVE  Order'
    BY <1>14 DEF Logout, ShowsSidebar, server, disk, page, history
  <1>15. ASSUME NEW c \in Signouts, Revoke(c)
        PROVE  Order'
    BY <1>15 DEF Revoke, Revoked, ClearAll, page, net
  <1>16. ASSUME NEW c \in Signouts, Forget(c)
        PROVE  Order'
    BY <1>16 DEF Forget, server, disk, net, history
  <1>17. CASE Reload
    BY <1>17 DEF Reload, server, disk
  <1>18. CASE Boot
    BY <1>18 DEF Boot, Stored, OneKey, Connect, server, disk, flows, history
  <1> QED
    BY <1>1, <1>2, <1>3, <1>4, <1>5, <1>6, <1>7, <1>8, <1>9, <1>10, <1>11, <1>12, <1>13, <1>14, <1>15, <1>16, <1>17, <1>18 DEF Next

\* The type invariant of the browser's identity.
THEOREM TypeCorrect == Spec => []TypeOK
  BY InitOrder, TypeStep, OrderStep, PTL DEF Spec

-----------------------------------------------------------------------------
\* A socket that is not closing is the one the page works with, and it has
\* one only while it is signed in, not signing out, and not about to reconnect.
Single ==
  ~overlap =>
    /\ \A s \in sockets : s.st # "closing" =>
         s.id = socket /\ status = "ready" /\ ~timer /\ ~SigningOut
    /\ status = "ready" /\ ~SigningOut => \A s \in sockets : s.st # "closing"

\* Every step keeps the socket single.
LEMMA SingleStep == TypeOK /\ Order /\ Single /\ [Next]_vars => Single'
  <1> SUFFICES ASSUME TypeOK, Order, Single, [Next]_vars
               PROVE  Single'
    OBVIOUS
  <1> USE BoundAssumption DEF TypeOK, ServerTypes, DiskTypes, PageTypes, NetTypes, FlowTypes,
                            Order, None, Logins, Empty, Idle, Tasks, SigningOut, Single
  <1>1. CASE UNCHANGED vars
    BY <1>1 DEF vars, server, disk, page, net, flows, history
  <1>2. ASSUME NEW s \in sockets, Opens(s)
        PROVE  Single'
    BY <1>2 DEF Opens, Valid, server, disk, page, flows, history
  <1>3. ASSUME NEW s \in sockets, Closes(s)
        PROVE  Single'
    BY <1>3 DEF Closes, ScheduleReconnect, server, disk, page, flows, history
  <1>4. CASE Reconnects
    <2> SUFFICES ASSUME ~overlap'
                 PROVE  Single'
      BY DEF Single
    <2>1. ~overlap /\ ~SigningOut /\ timer /\ ~timer' /\ UNCHANGED <<status, signout>>
      BY <1>4 DEF Reconnects, page, flows
    <2>2. CASE identity # None
      <3>1. sockets = {}
        BY <2>1, <2>2 DEF Single, PageTypes
      <3>2. /\ socket' = opened + 1
            /\ sockets' = {[id |-> opened + 1, token |-> identity, st |-> "connecting"]}
        BY <1>4, <2>2, <3>1 DEF Reconnects, Connect
      <3> QED
        BY <2>1, <2>2, <3>2 DEF Single, PageTypes, SigningOut
    <2>3. CASE identity = None
      BY <1>4, <2>1, <2>3 DEF Reconnects, Single, PageTypes, SigningOut
    <2> QED
      BY <2>2, <2>3
  <1>5. ASSUME NEW n \in tokens, Expires(n)
        PROVE  Single'
    BY <1>5 DEF Expires, disk, page, net, flows, history
  <1>6. CASE Submit
    BY <1>6 DEF Submit, ShowsAuthScreen, server, disk, page, net
  <1>7. CASE Served
    BY <1>7 DEF Served, Issued, disk, net
  <1>8. CASE Refused
    BY <1>8 DEF Refused, server, disk, page, net, history
  <1>9. CASE StoreIdentity
    BY <1>9 DEF StoreIdentity, server, page, net, history
  <1>10. CASE StorePickleKey
    BY <1>10 DEF StorePickleKey, server, page, net, history
  <1>11. CASE SaveAccount
    <2> SUFFICES ASSUME ~overlap'
                 PROVE  Single'
      BY DEF Single
    <2>1. ~overlap /\ ~timer /\ sockets = {} /\ ~SigningOut
      BY <1>11 DEF SaveAccount
    <2>2. /\ UNCHANGED <<timer, signout>> /\ status' = "ready"
          /\ socket' = opened + 1
          /\ sockets' = {[id |-> opened + 1, token |-> last, st |-> "connecting"]}
      BY <1>11, <2>1 DEF SaveAccount, Connect
    <2> QED
      BY <2>1, <2>2 DEF Single, SigningOut
  <1>12. ASSUME NEW t \in Tasks, StartTask(t)
        PROVE  Single'
    BY <1>12 DEF StartTask, server, disk, page, net, history
  <1>13. CASE FinishClaim \/ FinishUpload \/ FinishRoute
    BY <1>13 DEF FinishClaim, FinishUpload, FinishRoute, Put, server, page, net, history
  <1>14. ASSUME NEW c \in Signouts, Logout(c)
        PROVE  Single'
    BY <1>14 DEF Logout, ShowsSidebar, server, disk, page, history
  <1>15. ASSUME NEW c \in Signouts, Revoke(c)
        PROVE  Single'
    BY <1>15 DEF Revoke, Revoked, ClearAll, page, net
  <1>16. ASSUME NEW c \in Signouts, Forget(c)
        PROVE  Single'
    BY <1>16 DEF Forget, server, disk, net, history
  <1>17. CASE Reload
    BY <1>17 DEF Reload, server, disk
  <1>18. CASE Boot
    BY <1>18 DEF Boot, Stored, OneKey, Connect, server, disk, flows, history
  <1> QED
    BY <1>1, <1>2, <1>3, <1>4, <1>5, <1>6, <1>7, <1>8, <1>9, <1>10, <1>11, <1>12, <1>13, <1>14, <1>15, <1>16, <1>17, <1>18 DEF Next

\* One socket at most while signed in, none after a logout.
LEMMA SingleCounts == TypeOK /\ Single => OneSocket
  <1> SUFFICES ASSUME TypeOK, Single, ~overlap
               PROVE  Cardinality({s \in sockets : s.st # "closing"}) <= (IF status = "ready" THEN 1 ELSE 0)
    BY DEF OneSocket
  <1> DEFINE N == {s \in sockets : s.st # "closing"}
  <1>1. CASE N = {}
    BY <1>1, FS_EmptySet
  <1>2. CASE N # {}
    <2>1. PICK x \in N : TRUE
      BY <1>2
    <2>2. N = {x} /\ status = "ready"
      BY <2>1 DEF TypeOK, NetTypes, Single
    <2>3. Cardinality(N) = 1
      BY <2>2, FS_Singleton
    <2> QED
      BY <2>2, <2>3
  <1> QED
    BY <1>1, <1>2

\* For any number of logins, logouts and reconnects: the page has one socket
\* while signed in and none afterwards, unless a logout overlapped them.
THEOREM Sockets == Spec => []OneSocket
  <1>1. Init => Single
    BY DEF Init, Single
  <1> QED
    BY <1>1, InitOrder, TypeStep, OrderStep, SingleStep, SingleCounts, PTL DEF Spec

-----------------------------------------------------------------------------
\* The account and the sessions stored are of login n, ...
Stores(n) == kv.account \in {None, n} /\ pickles \union groups \subseteq {n}

\* ... and so are the identity and the pickle key, as far as there are any.
OpensWith(n) == {kv.identity, kv.pickleKey} \subseteq {None, n}

\* Account and sessions are of the login whose pickle key is in memory, if one is.
\* A login interrupted by a reload may have left its identity and pickle key; what
\* still waits to be stored is never added to those of another login.
Owned ==
  ~leftover /\ ~overlap =>
    /\ status # "stuck" /\ (stage # "idle" => ~SigningOut)
    /\ status = "ready" => account = identity
    /\ stage \in {"identity", "pickleKey", "account"} => account = last
    /\ stage \in {"pickleKey", "account"} => kv.identity = last
    /\ stage = "account" => kv.pickleKey = last
    /\ key # None => Stores(key)
    /\ key = None => \E n \in Nat : Stores(n)
    /\ kv.account # None => OpensWith(kv.account)
    /\ status = "ready" => OpensWith(identity)
    /\ tasks # {} => OpensWith(key)
    /\ tasks # {} /\ status = "loggedOut" /\ stage \in {"idle", "call"} => OpensWith(None)
    /\ status = "ready" /\ (\E c \in Signouts : signout[c].at = "clear") => OpensWith(None)

\* Every step keeps what is stored of one login.
LEMMA OwnedStep == TypeOK /\ Order /\ Owned /\ [Next]_vars => Owned'
  <1> SUFFICES ASSUME TypeOK, Order, Owned, [Next]_vars
               PROVE  Owned'
    OBVIOUS
  <1> USE BoundAssumption DEF TypeOK, ServerTypes, DiskTypes, PageTypes, NetTypes, FlowTypes,
                            Order, None, Logins, Empty, Idle, Tasks, SigningOut, Owned, Stores, OpensWith
  <1>1. CASE UNCHANGED vars
    BY <1>1 DEF vars, server, disk, page, net, flows, history
  <1>2. ASSUME NEW s \in sockets, Opens(s)
        PROVE  Owned'
    BY <1>2 DEF Opens, Valid, server, disk, page, flows, history
  <1>3. ASSUME NEW s \in sockets, Closes(s)
        PROVE  Owned'
    BY <1>3 DEF Closes, ScheduleReconnect, server, disk, page, flows, history
  <1>4. CASE Reconnects
    BY <1>4 DEF Reconnects, Connect, server, disk, page, flows
  <1>5. ASSUME NEW n \in tokens, Expires(n)
        PROVE  Owned'
    BY <1>5 DEF Expires, disk, page, net, flows, history
  <1>6. CASE Submit
    BY <1>6 DEF Submit, ShowsAuthScreen, server, disk, page, net
  <1>7. CASE Served
    <2> SUFFICES ASSUME ~leftover', ~overlap'
                 PROVE  Owned'
      BY DEF Owned
    <2>1. UNCHANGED <<kv, pickles, groups, status, identity, last, expired, overlap, signout, tasks>> /\ status = "loggedOut" /\ stage = "call"
      BY <1>7 DEF Served, disk, Order
    <2>2. ASSUME stage' = "identity", account' = last, key' = last,
                 leftover' = (leftover \/ kv.account # None \/ pickles \union groups # {})
          PROVE  Owned'
      <3>1. ~leftover /\ kv.account = None /\ pickles = {} /\ groups = {}
        BY <2>2
      <3>2. Stores(last)' /\ ~SigningOut'
        BY <2>1, <3>1 DEF Stores, Owned, SigningOut
      <3>3. tasks' # {} => OpensWith(last)'
        BY <2>1, <3>1 DEF OpensWith, Owned
      <3>4. last # None /\ last' = last
        BY <2>1 DEF Order
      <3> QED
        BY <2>1, <2>2, <3>1, <3>2, <3>3, <3>4 DEF Owned, Stores, OpensWith
    <2>3. ASSUME stage' = "idle", UNCHANGED <<account, key, leftover>>
          PROVE  Owned'
      BY <2>1, <2>3 DEF Owned, Stores, OpensWith
    <2> QED
      BY <1>7, <2>2, <2>3 DEF Served
  <1>8. CASE Refused
    BY <1>8 DEF Refused, server, disk, page, net, history
  <1>9. CASE StoreIdentity
    BY <1>9 DEF StoreIdentity, server, page, net, history
  <1>10. CASE StorePickleKey
    BY <1>10 DEF StorePickleKey, server, page, net, history
  <1>11. CASE SaveAccount
    BY <1>11 DEF SaveAccount, Connect, server
  <1>12. ASSUME NEW t \in Tasks, StartTask(t)
        PROVE  Owned'
    BY <1>12 DEF StartTask, server, disk, page, net, history
  <1>13. CASE FinishClaim \/ FinishUpload \/ FinishRoute
    <2> SUFFICES ASSUME ~leftover', ~overlap'
                 PROVE  Owned'
      BY DEF Owned
    <2>1. ~leftover /\ ~overlap /\ UNCHANGED <<status, identity, account, key, stage, last, signout>>
      BY <1>13 DEF FinishClaim, FinishUpload, FinishRoute, page, history
    <2>2. key # None /\ tasks # {} /\ Stores(key) /\ OpensWith(key) /\ account \in {None, key}
      BY <1>13, <2>1 DEF Owned, Order, FinishClaim, FinishUpload, FinishRoute
    <2>3. /\ kv' = kv \/ (account # None /\ kv' = [kv EXCEPT !.account = account])
          /\ pickles' \subseteq pickles \union {key} /\ groups' \subseteq groups \union {key}
      BY <1>13 DEF FinishClaim, FinishUpload, FinishRoute, Put
    <2>4. kv'.identity = kv.identity /\ kv'.pickleKey = kv.pickleKey /\ kv'.account \in {kv.account, key}
      BY <2>2, <2>3 DEF DiskTypes
    <2>5. (\A n : OpensWith(n) => OpensWith(n)') /\ Stores(key)'
      BY <2>1, <2>2, <2>3, <2>4 DEF OpensWith, Stores
    <2>6. kv'.account # None => OpensWith(kv.account)'
      BY <2>1, <2>2, <2>4 DEF Owned, OpensWith, Stores
    <2> QED
      BY <2>1, <2>2, <2>4, <2>5, <2>6 DEF Owned
  <1>14. ASSUME NEW c \in Signouts, Logout(c)
        PROVE  Owned'
    BY <1>14 DEF Logout, ShowsSidebar, server, disk, page, history
  <1>15. ASSUME NEW c \in Signouts, Revoke(c)
        PROVE  Owned'
    BY <1>15 DEF Revoke, Revoked, ClearAll, page, net
  <1>16. ASSUME NEW c \in Signouts, Forget(c)
        PROVE  Owned'
    <2> SUFFICES ASSUME ~leftover', ~overlap'
                 PROVE  Owned'
      BY DEF Owned
    <2>1. /\ ~leftover /\ ~overlap /\ UNCHANGED <<kv, pickles, groups, stage, key, tasks>>
          /\ account' = None /\ status' = "loggedOut" /\ SigningOut
      BY <1>16 DEF Forget, disk, history
    <2>2. stage = "idle" /\ stage' = "idle"
      BY <2>1
    <2>3. tasks # {} => OpensWith(None)
      BY <1>16, <2>1, <2>2 DEF Forget, Owned, Order, PageTypes
    <2> QED
      BY <2>1, <2>2, <2>3 DEF Owned, Stores, OpensWith
  <1>17. CASE Reload
    BY <1>17 DEF Reload, server, disk
  <1>18. CASE Boot
    BY <1>18 DEF Boot, Stored, OneKey, Connect, server, disk, flows, history
  <1> QED
    BY <1>1, <1>2, <1>3, <1>4, <1>5, <1>6, <1>7, <1>8, <1>9, <1>10, <1>11, <1>12, <1>13, <1>14, <1>15, <1>16, <1>17, <1>18 DEF Next

\* For any number of logins, of reloads between any two writes and of sends and
\* receives that outlive a logout: the page holds the keys of the device it is
\* signed in as and boot can read what is stored, unless a login was made over an
\* account or sessions still stored (`leftover`), or a logout, an old socket or
\* its reconnect was in the way (`overlap`).
THEOREM OwnKeys == Spec => []KeysOfDevice
  <1>1. Init => Owned
    BY DEF Init, Owned, Stores, OpensWith, Empty, None, Idle, SigningOut
  <1>2. Owned => KeysOfDevice
    BY DEF Owned, KeysOfDevice
  <1> QED
    BY <1>1, <1>2, InitOrder, TypeStep, OrderStep, OwnedStep, PTL DEF Spec

-----------------------------------------------------------------------------
\* Valid tokens, and a stored identity with all that boot asks for.
Left == tokens \ expired
Full(n) == kv.identity = n /\ kv.pickleKey = n /\ kv.account = n

\* A valid token is of the identity the page has, is about to have or finds
\* stored, and is gone once a logout has reached the server.
Revocable ==
  ~mishap /\ ~overlap /\ ~leftover =>
    /\ status = "ready" => Left \subseteq {identity} /\ (SigningOut \/ Full(identity))
    /\ \A c \in Signouts :
         /\ signout[c].at # "idle" /\ status = "ready" => signout[c].token = identity
         /\ signout[c].at = "clear" => Left = {}
    /\ status = "loggedOut" /\ stage \in {"idle", "call"} => Left = {}
    /\ stage \in {"identity", "pickleKey", "account"} => Left \subseteq {last}
    /\ stage \in {"pickleKey", "account"} => kv.identity = last
    /\ stage = "account" => kv.pickleKey = last
    /\ status = "loading" => Left = {} \/ \E n \in Logins : Full(n) /\ Left \subseteq {n}

\* Every step keeps the valid tokens within reach of a logout.
LEMMA RevocableStep == TypeOK /\ Order /\ Owned /\ Revocable /\ [Next]_vars => Revocable'
  <1> SUFFICES ASSUME TypeOK, Order, Owned, Revocable, [Next]_vars
               PROVE  Revocable'
    OBVIOUS
  <1> USE BoundAssumption DEF TypeOK, ServerTypes, DiskTypes, PageTypes, NetTypes, FlowTypes,
                            Order, None, Logins, Empty, Idle, Tasks, SigningOut, Revocable, Left, Full
  <1>1. CASE UNCHANGED vars
    BY <1>1 DEF vars, server, disk, page, net, flows, history
  <1>2. ASSUME NEW s \in sockets, Opens(s)
        PROVE  Revocable'
    BY <1>2 DEF Opens, Valid, server, disk, page, flows, history
  <1>3. ASSUME NEW s \in sockets, Closes(s)
        PROVE  Revocable'
    BY <1>3 DEF Closes, ScheduleReconnect, server, disk, page, flows, history
  <1>4. CASE Reconnects
    BY <1>4 DEF Reconnects, Connect, server, disk, page, flows
  <1>5. ASSUME NEW n \in tokens, Expires(n)
        PROVE  Revocable'
    BY <1>5 DEF Expires, disk, page, net, flows, history
  <1>6. CASE Submit
    BY <1>6 DEF Submit, ShowsAuthScreen, server, disk, page, net
  <1>7. CASE Served
    <2> SUFFICES ASSUME ~mishap', ~overlap', ~leftover'
                 PROVE  Revocable'
      BY DEF Revocable
    <2>1. UNCHANGED <<kv, status, identity, last, expired, overlap, signout>> /\ status = "loggedOut" /\ stage = "call"
      BY <1>7 DEF Served, disk, Order
    <2>2. ASSUME stage' = "identity", UNCHANGED mishap,
                 leftover' = (leftover \/ kv.account # None \/ pickles \union groups # {})
          PROVE  Revocable'
      <3>1. ~leftover
        BY <2>2, Zenon
      <3>2. Left = {} /\ \A c \in Signouts : signout[c].at = "idle"
        BY <2>1, <2>2, <3>1 DEF Revocable, Owned, SigningOut
      <3>3. tokens' = tokens \union {last}
        BY <1>7 DEF Served, Issued
      <3> QED
        BY <2>1, <2>2, <3>2, <3>3 DEF Revocable, Left
    <2>3. ASSUME stage' = "idle", mishap' = TRUE
          PROVE  Revocable'
      BY <2>3
    <2> QED
      BY <1>7, <2>2, <2>3 DEF Served
  <1>8. CASE Refused
    BY <1>8 DEF Refused, server, disk, page, net, history
  <1>9. CASE StoreIdentity
    BY <1>9 DEF StoreIdentity, server, page, net, history
  <1>10. CASE StorePickleKey
    BY <1>10 DEF StorePickleKey, server, page, net, history
  <1>11. CASE SaveAccount
    <2> SUFFICES ASSUME ~mishap', ~overlap', ~leftover'
                 PROVE  Revocable'
      BY DEF Revocable
    <2>1. ~mishap /\ ~overlap /\ ~leftover /\ ~SigningOut
      BY <1>11 DEF SaveAccount
    <2>2. account = last /\ last # None
      BY <1>11, <2>1 DEF SaveAccount, Owned, Order
    <2>3. /\ stage = "account" /\ stage' = "idle" /\ status' = "ready" /\ identity' = last
          /\ kv' = [kv EXCEPT !.account = last] /\ UNCHANGED <<tokens, expired, signout>>
      BY <1>11, <2>2 DEF SaveAccount, server
    <2>4. Full(last)' /\ Left' \subseteq {last}
      <3>1. kv.identity = last /\ kv.pickleKey = last /\ Left \subseteq {last}
        BY <2>1, <2>3 DEF Revocable
      <3>2. Left' = Left
        BY <2>3 DEF Left
      <3>3. kv'.identity = kv.identity /\ kv'.pickleKey = kv.pickleKey /\ kv'.account = last
        BY <2>3 DEF DiskTypes
      <3>4. last' = last
        BY <1>11 DEF SaveAccount
      <3> QED
        BY <3>1, <3>2, <3>3, <3>4 DEF Full
    <2>5. \A c \in Signouts : signout'[c].at = "idle"
      BY <2>1, <2>3 DEF SigningOut
    <2> QED
      BY <2>3, <2>4, <2>5 DEF Revocable
  <1>12. ASSUME NEW t \in Tasks, StartTask(t)
        PROVE  Revocable'
    BY <1>12 DEF StartTask, server, disk, page, net, history
  <1>13. CASE FinishClaim \/ FinishUpload \/ FinishRoute
    <2> SUFFICES ASSUME ~mishap', ~overlap', ~leftover'
                 PROVE  Revocable'
      BY DEF Revocable
    <2>1. /\ ~mishap /\ ~overlap /\ ~leftover
          /\ UNCHANGED <<tokens, expired, status, identity, account, stage, last, signout>>
      BY <1>13 DEF FinishClaim, FinishUpload, FinishRoute, server, page, history
    <2>2. kv' = kv \/ (account # None /\ kv' = [kv EXCEPT !.account = account])
      BY <1>13 DEF FinishClaim, FinishUpload, FinishRoute
    <2>3. kv'.identity = kv.identity /\ kv'.pickleKey = kv.pickleKey
      BY <2>2 DEF DiskTypes
    <2>4. status \in {"ready", "loading"} => (\A n : Full(n) => Full(n)') \/ status = "ready"
      BY <1>13, <2>2 DEF Full, Order, FinishClaim, FinishUpload, FinishRoute
    <2>5. status = "ready" /\ Full(identity) => Full(identity)'
      BY <2>1, <2>2 DEF Full, Owned, DiskTypes
    <2>6. SigningOut' = SigningOut /\ Left' = Left
      BY <2>1 DEF SigningOut, Left
    <2> QED
      BY <2>1, <2>3, <2>4, <2>5, <2>6 DEF Revocable
  <1>14. ASSUME NEW c \in Signouts, Logout(c)
        PROVE  Revocable'
    BY <1>14 DEF Logout, ShowsSidebar, server, disk, page, history
  <1>15. ASSUME NEW c \in Signouts, Revoke(c)
        PROVE  Revocable'
    <2> SUFFICES ASSUME ~mishap', ~overlap', ~leftover'
                 PROVE  Revocable'
      BY DEF Revocable
    <2>1. /\ ~mishap /\ ~overlap /\ ~leftover /\ tokens' = tokens \ {signout[c].token}
          /\ UNCHANGED <<expired, status, identity, stage, last>>
          /\ signout[c].at = "revoke" /\ signout' = [signout EXCEPT ![c].at = "clear"]
      BY <1>15 DEF Revoke, Revoked, page
    <2>2. stage = "idle" /\ status \in {"ready", "loggedOut"}
      BY <2>1 DEF Owned, Order, SigningOut, PageTypes
    <2>3. Left' = {}
      BY <2>1, <2>2 DEF Revocable, Left
    <2>4. \A d \in Signouts : signout'[d].token = signout[d].token /\ (signout[d].at = "idle" <=> signout'[d].at = "idle")
      BY <2>1 DEF FlowTypes
    <2>5. SigningOut'
      BY <2>1 DEF SigningOut, FlowTypes
    <2> QED
      BY <2>1, <2>2, <2>3, <2>4, <2>5 DEF Revocable
  <1>16. ASSUME NEW c \in Signouts, Forget(c)
        PROVE  Revocable'
    BY <1>16 DEF Forget, server, disk, net, history
  <1>17. CASE Reload
    <2> SUFFICES ASSUME ~mishap', ~overlap', ~leftover'
                 PROVE  Revocable'
      BY DEF Revocable
    <2>1. ~mishap /\ stage = "idle" /\ ~SigningOut /\ UNCHANGED <<overlap, leftover, tokens, expired, kv>>
      BY <1>17 DEF Reload, server, disk
    <2>2. status' = "loading" /\ stage' = "idle" /\ \A c \in Signouts : signout'[c] = Idle
      BY <1>17 DEF Reload
    <2>3. Left' = Left /\ \A n : Full(n)' = Full(n)
      BY <2>1 DEF Left, Full
    <2>4. Left = {} \/ \E n \in Logins : Full(n) /\ Left \subseteq {n}
      BY <2>1 DEF Revocable, Owned, PageTypes, Logins
    <2>5. Left' = {} \/ \E n \in Logins : Full(n)' /\ Left' \subseteq {n}
      BY <2>3, <2>4
    <2>6. (\A c \in Signouts : signout'[c].at = "idle") /\ ~SigningOut'
      BY <2>2 DEF Idle, SigningOut
    <2> QED
      BY <2>2, <2>5, <2>6 DEF Revocable
  <1>18. CASE Boot
    <2> SUFFICES ASSUME ~mishap', ~overlap', ~leftover'
                 PROVE  Revocable'
      BY DEF Revocable
    <2>1. /\ ~mishap /\ ~overlap /\ ~leftover /\ ~SigningOut /\ stage = "idle" /\ status = "loading"
          /\ UNCHANGED <<tokens, expired, kv, stage, signout>>
      BY <1>18 DEF Boot, server, disk, flows, history, Order
    <2>2. Left' = Left /\ (\A n : Full(n)' = Full(n)) /\ \A c \in Signouts : signout'[c].at = "idle"
      BY <2>1 DEF Left, Full, SigningOut
    <2>3. Left = {} \/ \E n \in Logins : Full(n) /\ Left \subseteq {n}
      BY <2>1 DEF Revocable
    <2>4. CASE status' = "loggedOut"
      <3>1. ~Stored
        BY <1>18, <2>4 DEF Boot
      <3>2. Left = {}
        BY <2>3, <3>1 DEF Stored, Full, Left, DiskTypes, Logins, None
      <3> QED
        BY <2>1, <2>2, <2>4, <3>2 DEF Revocable
    <2>5. CASE status' = "stuck"
      BY <2>1, <2>2, <2>5 DEF Revocable
    <2>6. CASE status' = "ready"
      <3>1. Stored /\ kv.account = kv.pickleKey /\ identity' = kv.identity /\ kv.account # None
        BY <1>18, <2>6 DEF Boot, Stored, OneKey, DiskTypes
      <3>2. kv.identity = kv.account
        BY <2>1, <3>1 DEF Owned, OpensWith, Stored, DiskTypes
      <3> QED
        BY <2>1, <2>2, <2>3, <2>6, <3>1, <3>2 DEF Revocable, Full
    <2> QED
      BY <1>18, <2>4, <2>5, <2>6 DEF Boot
  <1> QED
    BY <1>1, <1>2, <1>3, <1>4, <1>5, <1>6, <1>7, <1>8, <1>9, <1>10, <1>11, <1>12, <1>13, <1>14, <1>15, <1>16, <1>17, <1>18 DEF Next

\* For any number of logins, expiries and reloads: after a logout no token of
\* the browser is valid, unless the server was not reached, a reload came
\* half-way, or a logout or an old identity was in the way.
THEOREM TokensRevoked == Spec => []NoTokenLeft
  <1>1. Init => Owned /\ Revocable
    BY DEF Init, Owned, Stores, OpensWith, Empty, None, Revocable, Left, SigningOut, Idle
  <1>2. Revocable => NoTokenLeft
    BY DEF Revocable, Left, NoTokenLeft
  <1> QED
    BY <1>1, <1>2, InitOrder, TypeStep, OrderStep, OwnedStep, RevocableStep, PTL DEF Spec
=============================================================================
