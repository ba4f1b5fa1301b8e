------------------------- MODULE SsoAccountsProofs -------------------------
(***************************************************************************)
(* Theorems about SsoAccounts: no session outlives the authority it was    *)
(* issued with, an erasure cleans up after the identities its user has,    *)
(* and accounts with their erasure do to the providers only what           *)
(* ProviderCleanup does.                                                   *)
(***************************************************************************)
EXTENDS SsoAccounts, ProviderCleanupProofs

(***************************************************************************)
(* The inductive invariant.                                                *)
(***************************************************************************)

AccountTypes ==
    /\ user \in [Users -> {None} \cup UserRow]
    /\ owner \in [Identities -> Users \cup {None}]
    /\ session \in [Browsers -> {None} \cup SessionRow]
    /\ signIn \in [Browsers -> {None} \cup SignIn]
    /\ flow \in [Browsers -> [Purposes -> {None} \cup Flow]]
    /\ issued \in 0..MaxSessions
    /\ begun \in 0..MaxFlows

\* Each change of authority costs a session that was issued with the authority before, so
\* that a user has seen no more of them than sessions were issued.
ChangesPaid ==
    /\ \A u \in Users : user[u] # None => user[u].generation <= issued + 1
    /\ \A b \in Browsers : session[b] # None =>
          /\ session[b].id <= issued
          /\ session[b].generation <= session[b].id

\* A fresh proof names an identity, so that who holds one has at least that.
FreshNamed == \A b \in Browsers :
    flow[b]["ACCOUNT_FRESH"] # None => flow[b]["ACCOUNT_FRESH"].identity \in Identities

AccountsKept == /\ Kept
                /\ AccountTypes
                /\ SessionsCurrent
                /\ CleanupListsAccounts
                /\ ChangesPaid
                /\ FreshNamed

(***************************************************************************)
(* What several actions share.                                             *)
(***************************************************************************)

ProvidersOf(u) == {ProviderOf[i] : i \in {j \in Identities : owner[j] = u}}

\* Who has a session that still counts is not being erased.
LEMMA HolderActive ==
    ASSUME AccountsKept, NEW b \in Browsers, Holds(b)
    PROVE  /\ session[b] \in SessionRow /\ session[b] # None
           /\ session[b].user \in Users
           /\ user[session[b].user] \in UserRow /\ user[session[b].user] # None
           /\ user[session[b].user].accountStatus = "ACTIVE"
           /\ user[session[b].user].generation = session[b].generation
           /\ ~Pending(session[b].user)
<1>1. session[b] \in SessionRow /\ session[b] # None
  BY DEF Holds, AccountsKept, AccountTypes
<1>2. session[b].user \in Users
  BY <1>1 DEF SessionRow
<1>3. Current(session[b].user, session[b].generation)
  BY DEF Holds
<1> QED
  BY <1>1, <1>2, <1>3 DEF Current, Active, AccountsKept, AccountTypes, CleanupListsAccounts

\* What the runs and the database do to requests, beside completing them.
RequestsFollow == \A r \in Requests :
    /\ Pending(r)' <=> Pending(r)
    /\ Pending(r) => Listed(r)' = Listed(r)

LEMMA CleanupFollows ==
    ASSUME Kept, (\E w \in Workers : RunStep(w)) \/ Serve \/ Tick
    PROVE  RequestsFollow
<1>1. ASSUME NEW w \in Workers, RunStep(w) PROVE RequestsFollow
  BY <1>1, RunRequests DEF RequestsFollow, Pending, Listed
<1>2. ASSUME Tick PROVE RequestsFollow
  <2>1. ASSUME NEW r \in Requests
        PROVE  /\ request[r] = None => request'[r] = None
               /\ request[r] # None =>
                    /\ request'[r] \in Row
                    /\ request'[r].appStatus = request[r].appStatus
                    /\ request'[r].providerCleanup = request[r].providerCleanup
    <3>1. CASE request[r] = None
      BY <1>2, <3>1 DEF Tick
    <3>2. CASE request[r] # None
      <4>1. request[r] \in Row /\ request'[r] = [request[r] EXCEPT !.left = Less(@)]
        BY <1>2, <3>2 DEF Tick, Kept, CleanupTypeOK
      <4>2. Less(request[r].left) \in 0..Lease
        BY <4>1, TimesBounded DEF Row
      <4> QED BY <3>2, <4>1, <4>2 DEF Row
    <3> QED BY <3>1, <3>2
  <2> QED BY <2>1, RowsAssumption DEF RequestsFollow, Pending, Listed
<1>3. ASSUME NEW c \in calls, ServeClaim(c) \/ ServeBegin(c) \/ ServeRecord(c)
      PROVE  RequestsFollow
  <2>1. CleanupTypeOK /\ CallsOwned /\ CleanupTypeOK'
    BY <1>3, ServeTypes DEF Kept
  <2>2. CASE ServeClaim(c)
    <3>1. PICK R \in SUBSET {r \in Requests : Claimable(r)}, token \in [Requests -> Tokens],
               left \in (Lease - 1)..Lease : Granted(c, R, token, left)
      BY <2>2 DEF ServeClaim
    <3>2. ASSUME NEW r \in Requests
          PROVE  \/ request'[r] = request[r]
                 \/ /\ request[r] \in Row /\ request[r] # None /\ request'[r] # None
                    /\ request'[r].appStatus = request[r].appStatus
                    /\ request'[r].providerCleanup = request[r].providerCleanup
      <4>1. CASE r \in R
        <5>1. request[r] \in Row /\ request[r] # None
          BY <2>1, <4>1 DEF Claimable, CleanupTypeOK
        <5>2. request'[r] = [request[r] EXCEPT !.leaseToken = token[r], !.left = left]
          BY <3>1, <4>1 DEF Granted
        <5>3. token[r] \in Tokens /\ left \in 0..Lease
          BY LeaseAssumption
        <5>4. request'[r] \in Row
          BY <5>1, <5>2, <5>3 DEF Row
        <5> QED BY <5>1, <5>2, <5>4, RowsAssumption DEF Row
      <4>2. CASE r \notin R
        BY <3>1, <4>2 DEF Granted
      <4> QED BY <4>1, <4>2
    <3> QED BY <3>2 DEF RequestsFollow, Pending, Listed
  <2>3. CASE ServeBegin(c)
    <3>1. CASE ~Beginnable(c.claim)
      BY <2>3, <3>1 DEF ServeBegin, RequestsFollow, Pending, Listed
    <3>2. CASE Beginnable(c.claim)
      <4> DEFINE q == c.claim.request
                 row == [request[q] EXCEPT !.activeProvider = c.claim.provider]
      <4>1. /\ q \in Requests /\ c.claim.provider \in Providers
            /\ request[q] \in Row /\ request[q] # None
        BY <2>1, <2>3, <3>2, ServedRow DEF Beginnable, ServeBegin
      <4>2. request' = [request EXCEPT ![q] = row]
        BY <2>3, <3>2 DEF ServeBegin
      <4>3. /\ row \in Row /\ row # None
            /\ row.appStatus = request[q].appStatus
            /\ row.providerCleanup = request[q].providerCleanup
        BY <4>1, RowsAssumption DEF Row
      <4> HIDE DEF row
      <4>4. \A r \in Requests : request'[r] = IF r = q THEN row ELSE request[r]
        BY <2>1, <4>1, <4>2 DEF CleanupTypeOK
      <4> HIDE DEF q
      <4> QED BY <4>1, <4>3, <4>4 DEF RequestsFollow, Pending, Listed
    <3> QED BY <3>1, <3>2
  <2>4. CASE ServeRecord(c)
    <3>1. CASE ~Recordable(c.claim)
      BY <2>4, <3>1 DEF ServeRecord, RequestsFollow, Pending, Listed
    <3>2. CASE Recordable(c.claim)
      <4> DEFINE q == c.claim.request
                 row == RecordedRow(request[q], c.claim.provider, c.kind)
      <4>1. /\ q \in Requests /\ c.claim.provider \in Providers
            /\ request[q] \in Row /\ request[q] # None
            /\ c.claim \in Claim
        BY <2>1, <2>4, <3>2, ServedRow DEF Recordable, ServeRecord
      <4>2. request' = [request EXCEPT ![q] = row]
        BY <2>4, <3>2 DEF ServeRecord
      <4>3. c.kind \in Statuses \cup {"UNAVAILABLE"}
        BY <2>1, <2>4, CallClaims DEF ServeRecord, Call
      <4>4. row \in Row /\ row # None
        BY <4>1, <4>3, RecordedTypes, RowsAssumption
      <4>5. Marked(c.claim)
        <5>1. c \in Outcomes
          BY <2>4 DEF Outcomes, ServeRecord
        <5> QED BY <5>1 DEF Kept, Markers
      <4>6. /\ row.appStatus = request[q].appStatus
            /\ \A p \in Providers : row.providerCleanup[p] # None
                                    <=> request[q].providerCleanup[p] # None
        <5>1. \A p \in Providers :
                 row.providerCleanup[p] = IF p = c.claim.provider /\ c.kind # "UNAVAILABLE"
                                          THEN c.kind ELSE request[q].providerCleanup[p]
          BY <4>1 DEF RecordedRow, Row
        <5>2. row.appStatus = request[q].appStatus
          BY <4>1 DEF RecordedRow, Row
        <5>3. request[q].providerCleanup[c.claim.provider] # None
          BY <4>5 DEF Marked
        <5> HIDE DEF row
        <5> QED BY <4>3, <5>1, <5>2, <5>3, RowsAssumption
      <4> HIDE DEF row
      <4>7. \A r \in Requests : request'[r] = IF r = q THEN row ELSE request[r]
        BY <2>1, <4>1, <4>2 DEF CleanupTypeOK
      <4> HIDE DEF q
      <4> QED BY <4>1, <4>4, <4>6, <4>7 DEF RequestsFollow, Pending, Listed
    <3> QED BY <3>1, <3>2
  <2> QED BY <1>3, <2>2, <2>3, <2>4
<1> QED
  BY <1>1, <1>2, <1>3 DEF Serve
\* The erasure follows the identities as long as both are left alone.
LEMMA ListsStay ==
    ASSUME AccountsKept, RequestsFollow, UNCHANGED <<user, owner>>
    PROVE  CleanupListsAccounts'
<1>1. \A u \in Users : Pending(u)' => Pending(u) /\ Listed(u)' = Listed(u)
  BY DEF RequestsFollow, Users
<1>2. \A u \in Users : ProvidersOf(u)' = ProvidersOf(u)
  BY DEF ProvidersOf
<1>3. \A u \in Users : Pending(u) =>
         /\ user[u] # None /\ user[u].accountStatus = "DELETION_PENDING"
         /\ Listed(u) = ProvidersOf(u)
  BY DEF AccountsKept, CleanupListsAccounts, ProvidersOf
<1>4. \A u \in Users : Pending(u)' =>
         /\ user'[u] # None /\ user'[u].accountStatus = "DELETION_PENDING"
         /\ Listed(u)' = ProvidersOf(u)'
  BY <1>1, <1>2, <1>3
<1> QED
  BY <1>4 DEF CleanupListsAccounts, ProvidersOf

\* They follow those of the users whose erasure is pending as long as only others change.
LEMMA ListsStayForOthers ==
    ASSUME AccountsKept, UNCHANGED request, NEW v \in Users, ~Pending(v),
           \A u \in Users \ {v} : user'[u] = user[u],
           \A u \in Users \ {v} : ProvidersOf(u)' = ProvidersOf(u)
    PROVE  CleanupListsAccounts'
<1>1. \A u \in Users : /\ Pending(u)' <=> Pending(u)
                       /\ Pending(u) => u # v
                       /\ Listed(u)' = Listed(u)
  BY DEF Pending, Listed
<1>2. \A u \in Users : Pending(u) =>
         /\ user[u] # None /\ user[u].accountStatus = "DELETION_PENDING"
         /\ Listed(u) = ProvidersOf(u)
  BY DEF AccountsKept, CleanupListsAccounts, ProvidersOf
<1>3. \A u \in Users : Pending(u)' =>
         /\ user'[u] # None /\ user'[u].accountStatus = "DELETION_PENDING"
         /\ Listed(u)' = ProvidersOf(u)'
  BY <1>1, <1>2
<1> QED
  BY <1>3 DEF CleanupListsAccounts, ProvidersOf

\* Sessions keep their authority when some of them end and the users of the others stay.
LEMMA SessionsStay ==
    ASSUME AccountsKept, issued' = issued,
           \A b \in Browsers : session'[b] # None =>
               /\ session[b] # None
               /\ session'[b] = session[b]
               /\ user'[session[b].user] = user[session[b].user]
    PROVE  /\ SessionsCurrent'
           /\ \A b \in Browsers : session'[b] # None =>
                 session'[b].id <= issued' /\ session'[b].generation <= session'[b].id
<1>1. \A b \in Browsers : session[b] # None => Current(session[b].user, session[b].generation)
  BY DEF AccountsKept, SessionsCurrent
<1>2. \A b \in Browsers : session'[b] # None =>
         Current(session[b].user, session[b].generation)'
  BY <1>1 DEF Current, Active
<1>3. SessionsCurrent'
  BY <1>2 DEF SessionsCurrent, Current, Active
<1> QED
  BY <1>3 DEF AccountsKept, ChangesPaid

\* One cell of the flows.
LEMMA FlowCell ==
    ASSUME AccountTypes, NEW b \in Browsers, NEW p \in Purposes, NEW f \in {None} \cup Flow,
           flow' = [flow EXCEPT ![b][p] = f]
    PROVE  /\ flow' \in [Browsers -> [Purposes -> {None} \cup Flow]]
           /\ \A c \in Browsers, q \in Purposes :
                 flow'[c][q] = IF c = b /\ q = p THEN f ELSE flow[c][q]
  BY DEF AccountTypes

\* A step of a sign-in, a proof or a link that changes nothing but itself.
LEMMA OnlyFlows ==
    ASSUME AccountsKept, UNCHANGED <<user, owner, session, issued, cleanupVars>>,
           signIn' \in [Browsers -> {None} \cup SignIn],
           flow' \in [Browsers -> [Purposes -> {None} \cup Flow]],
           begun' \in 0..MaxFlows,
           FreshNamed'
    PROVE  AccountsKept'
<1>1. Kept'
  <2>1. Kept /\ UNCHANGED cleanupVars
    BY DEF AccountsKept
  <2> QED BY <2>1, KeptByStep
<1>2. AccountTypes' /\ ChangesPaid'
  BY DEF AccountsKept, AccountTypes, ChangesPaid
<1>3. SessionsCurrent'
  BY DEF AccountsKept, SessionsCurrent, Current, Active
<1>4. CleanupListsAccounts'
  <2>1. RequestsFollow
    BY DEF cleanupVars, RequestsFollow, Pending, Listed
  <2> QED BY <2>1, ListsStay
<1> QED
  BY <1>1, <1>2, <1>3, <1>4 DEF AccountsKept

(***************************************************************************)
(* Signing in and out.                                                     *)
(***************************************************************************)

\* A new user has no session yet, and nobody has asked for its erasure.
LEMMA LookupKept ==
    ASSUME AccountsKept, NEW b \in Browsers, NEW i \in Identities, Lookup(b, i)
    PROVE  AccountsKept' /\ UNCHANGED cleanupVars
<1>1. PICK u \in Users :
         /\ \/ owner[i] = u /\ UNCHANGED <<user, owner>>
            \/ /\ owner[i] = None
               /\ user[u] = None
               /\ request[u] = None
               /\ user' = [user EXCEPT ![u] = [accountStatus |-> "ACTIVE", generation |-> 1]]
               /\ owner' = [owner EXCEPT ![i] = u]
         /\ signIn' = [signIn EXCEPT ![b] = [stage |-> "FOUND", identity |-> i, user |-> u,
                                             generation |-> None]]
  BY DEF Lookup
<1>2. UNCHANGED <<session, flow, issued, begun, cleanupVars>>
  BY DEF Lookup
<1>3. signIn' \in [Browsers -> {None} \cup SignIn]
  <2>1. [stage |-> "FOUND", identity |-> i, user |-> u, generation |-> None] \in SignIn
    BY DEF SignIn
  <2> QED BY <1>1, <2>1 DEF AccountsKept, AccountTypes
<1>4. CASE UNCHANGED <<user, owner>>
  <2>1. flow' \in [Browsers -> [Purposes -> {None} \cup Flow]] /\ begun' \in 0..MaxFlows
        /\ FreshNamed'
    BY <1>2 DEF AccountsKept, AccountTypes, FreshNamed
  <2> QED BY <1>2, <1>3, <1>4, <2>1, OnlyFlows
<1>5. CASE /\ owner[i] = None
           /\ user[u] = None
           /\ request[u] = None
           /\ user' = [user EXCEPT ![u] = [accountStatus |-> "ACTIVE", generation |-> 1]]
           /\ owner' = [owner EXCEPT ![i] = u]
  <2> DEFINE row == [accountStatus |-> "ACTIVE", generation |-> 1]
  <2>1. /\ user \in [Users -> {None} \cup UserRow]
        /\ owner \in [Identities -> Users \cup {None}]
        /\ issued \in Nat
    BY BoundsAssumption DEF AccountsKept, AccountTypes
  <2>2. row \in UserRow
    BY BoundsAssumption DEF UserRow, Generations
  <2>3. /\ user' \in [Users -> {None} \cup UserRow]
        /\ owner' \in [Identities -> Users \cup {None}]
    BY <1>5, <2>1, <2>2
  <2>4. AccountTypes'
    BY <1>2, <1>3, <2>3 DEF AccountsKept, AccountTypes
  <2>5. Kept'
    <3>1. Kept /\ UNCHANGED cleanupVars
      BY <1>2 DEF AccountsKept
    <3> QED BY <3>1, KeptByStep
  <2>6. ~Pending(u)
    BY <1>5 DEF Pending
  <2>7. \A v \in Users \ {u} : user'[v] = user[v]
    BY <1>5, <2>1
  <2>8. \A v \in Users \ {u} : ProvidersOf(v)' = ProvidersOf(v)
    <3>1. ASSUME NEW v \in Users \ {u}, NEW j \in Identities
          PROVE  owner'[j] = v <=> owner[j] = v
      <4>1. v # None
        BY NoneAssumption DEF Users
      <4> QED BY <1>5, <2>1, <4>1
    <3> QED BY <3>1 DEF ProvidersOf
  <2>9. CleanupListsAccounts'
    <3>1. UNCHANGED request
      BY <1>2 DEF cleanupVars
    <3> QED BY <2>6, <2>7, <2>8, <3>1, ListsStayForOthers
  <2>10. \A c \in Browsers : session'[c] # None =>
            /\ session[c] # None
            /\ session'[c] = session[c]
            /\ user'[session[c].user] = user[session[c].user]
    <3>1. \A c \in Browsers : session[c] # None =>
             session[c].user \in Users /\ user[session[c].user] # None
      BY DEF AccountsKept, AccountTypes, SessionRow, SessionsCurrent, Current, Active
    <3> QED BY <1>2, <1>5, <2>7, <3>1
  <2>11. /\ SessionsCurrent'
         /\ \A c \in Browsers : session'[c] # None =>
               session'[c].id <= issued' /\ session'[c].generation <= session'[c].id
    BY <1>2, <2>10, SessionsStay
  <2>12. ChangesPaid'
    <3>1. \A v \in Users : user'[v] # None => user'[v].generation <= issued' + 1
      <4>1. user'[u] = row
        BY <1>5, <2>1
      <4>2. row.generation <= issued + 1
        BY <2>1
      <4> HIDE DEF row
      <4> QED BY <1>2, <2>7, <4>1, <4>2 DEF AccountsKept, ChangesPaid
    <3> QED BY <2>11, <3>1 DEF ChangesPaid
  <2>13. FreshNamed'
    BY <1>2 DEF AccountsKept, FreshNamed
  <2> QED BY <1>2, <2>4, <2>5, <2>9, <2>11, <2>12, <2>13 DEF AccountsKept
<1> QED
  BY <1>1, <1>2, <1>4, <1>5

\* The generation is read.
LEMMA ResolveKept ==
    ASSUME AccountsKept, NEW b \in Browsers, Resolve(b)
    PROVE  AccountsKept' /\ UNCHANGED cleanupVars
<1>1. signIn[b] \in SignIn
  BY DEF AccountsKept, AccountTypes, Resolve
<1> DEFINE u == signIn[b].user
           on == [signIn[b] EXCEPT !.stage = "RESOLVED", !.generation = user[u].generation]
           s == IF Active(u) THEN on ELSE None
<1>2. signIn' = [signIn EXCEPT ![b] = s]
  BY DEF Resolve
<1>3. s \in {None} \cup SignIn
  <2>1. Active(u) => user[u].generation \in Generations
    BY <1>1 DEF SignIn, Active, AccountsKept, AccountTypes, UserRow
  <2>2. Active(u) => on \in SignIn
    BY <1>1, <2>1 DEF SignIn
  <2> QED BY <2>2
<1>4. signIn' \in [Browsers -> {None} \cup SignIn]
  <2> HIDE DEF s
  <2> QED BY <1>2, <1>3 DEF AccountsKept, AccountTypes
<1>5. UNCHANGED <<user, owner, session, flow, issued, begun, cleanupVars>>
  BY DEF Resolve
<1>6. flow' \in [Browsers -> [Purposes -> {None} \cup Flow]] /\ begun' \in 0..MaxFlows
      /\ FreshNamed'
  BY <1>5 DEF AccountsKept, AccountTypes, FreshNamed
<1> QED
  BY <1>4, <1>5, <1>6, OnlyFlows

\* The sessions are all that changes, besides the sign-ins.
LEMMA OnlySessions ==
    ASSUME AccountsKept, UNCHANGED <<user, owner, flow, begun, cleanupVars>>,
           issued' \in 0..MaxSessions, issued <= issued',
           signIn' \in [Browsers -> {None} \cup SignIn],
           session' \in [Browsers -> {None} \cup SessionRow],
           \A b \in Browsers : session'[b] # None =>
               /\ Current(session'[b].user, session'[b].generation)
               /\ session'[b].id <= issued'
               /\ session'[b].generation <= session'[b].id
    PROVE  AccountsKept'
<1>1. Kept'
  <2>1. Kept /\ UNCHANGED cleanupVars
    BY DEF AccountsKept
  <2> QED BY <2>1, KeptByStep
<1>2. AccountTypes' /\ FreshNamed'
  BY DEF AccountsKept, AccountTypes, FreshNamed
<1>3. SessionsCurrent'
  BY DEF SessionsCurrent, Current, Active
<1>4. CleanupListsAccounts'
  <2>1. RequestsFollow
    BY DEF cleanupVars, RequestsFollow, Pending, Listed
  <2> QED BY <2>1, ListsStay
<1>5. ChangesPaid'
  <2>1. \A u \in Users : user[u] # None =>
           user[u].generation \in Nat /\ user[u].generation <= issued + 1
    BY BoundsAssumption DEF AccountsKept, AccountTypes, UserRow, Generations, ChangesPaid
  <2>2. issued \in Nat /\ issued' \in Nat
    BY BoundsAssumption DEF AccountsKept, AccountTypes
  <2> QED BY <2>1, <2>2 DEF ChangesPaid
<1> QED
  BY <1>1, <1>2, <1>3, <1>4, <1>5 DEF AccountsKept

\* A session is issued only with the authority its user has now, and after all before it.
LEMMA IssueKept ==
    ASSUME AccountsKept, NEW b \in Browsers, Issue(b)
    PROVE  AccountsKept' /\ UNCHANGED cleanupVars
<1>1. signIn[b] \in SignIn
  BY DEF AccountsKept, AccountTypes, Issue
<1>2. UNCHANGED <<user, owner, flow, begun, cleanupVars>>
  BY DEF Issue
<1>3. issued \in 0..MaxSessions /\ MaxSessions \in Nat /\ issued \in Nat
  BY BoundsAssumption DEF AccountsKept, AccountTypes
<1>4. \A c \in Browsers : session[c] # None =>
         /\ session[c] \in SessionRow
         /\ Current(session[c].user, session[c].generation)
         /\ session[c].id <= issued
         /\ session[c].generation <= session[c].id
  BY DEF AccountsKept, AccountTypes, SessionsCurrent, ChangesPaid
<1>5. CASE Current(signIn[b].user, signIn[b].generation) /\ issued < MaxSessions
  <2> DEFINE row == [id |-> issued + 1, user |-> signIn[b].user,
                     generation |-> signIn[b].generation]
  <2>1. /\ signIn' = [signIn EXCEPT ![b].stage = "ISSUED"]
        /\ issued' = issued + 1
        /\ session' = [session EXCEPT ![b] = row]
    BY <1>5 DEF Issue
  <2>2. /\ signIn[b].user \in Users
        /\ user[signIn[b].user] \in UserRow
        /\ user[signIn[b].user].generation = signIn[b].generation
        /\ signIn[b].generation <= issued + 1
    BY <1>1, <1>5 DEF SignIn, Current, Active, AccountsKept, AccountTypes, ChangesPaid
  <2>3. signIn[b].generation \in Generations
    BY <2>2 DEF UserRow
  <2>4. /\ row \in SessionRow
        /\ row.id = issued + 1 /\ row.generation <= row.id
        /\ Current(row.user, row.generation)
    BY <1>3, <1>5, <2>2, <2>3 DEF SessionRow
  <2>5. signIn' \in [Browsers -> {None} \cup SignIn]
    <3>1. [signIn[b] EXCEPT !.stage = "ISSUED"] \in SignIn
      BY <1>1 DEF SignIn
    <3> QED BY <2>1, <3>1 DEF AccountsKept, AccountTypes
  <2> HIDE DEF row
  <2>6. \A c \in Browsers : session'[c] = IF c = b THEN row ELSE session[c]
    BY <2>1 DEF AccountsKept, AccountTypes
  <2>7. session' \in [Browsers -> {None} \cup SessionRow]
    BY <2>1, <2>4 DEF AccountsKept, AccountTypes
  <2>8. issued' \in 0..MaxSessions /\ issued <= issued'
    BY <1>3, <1>5, <2>1
  <2>9. \A c \in Browsers : session[c] # None => session[c].id \in Nat
    BY <1>4, <1>3 DEF SessionRow
  <2>10. \A c \in Browsers : session'[c] # None =>
            /\ Current(session'[c].user, session'[c].generation)
            /\ session'[c].id <= issued'
            /\ session'[c].generation <= session'[c].id
    <3> TAKE c \in Browsers
    <3>1. CASE c = b
      BY <1>3, <2>1, <2>4, <2>6, <3>1
    <3>2. CASE c # b
      <4>1. session'[c] = session[c]
        BY <2>6, <3>2
      <4>2. session[c] # None => session[c].id <= issued + 1
        BY <1>3, <1>4, <2>9
      <4> QED BY <1>4, <2>1, <4>1, <4>2
    <3> QED BY <3>1, <3>2
  <2> QED BY <1>2, <2>5, <2>7, <2>8, <2>10, OnlySessions
<1>6. CASE ~(Current(signIn[b].user, signIn[b].generation) /\ issued < MaxSessions)
  <2>1. signIn' = [signIn EXCEPT ![b] = None] /\ UNCHANGED <<session, issued>>
    BY <1>6 DEF Issue
  <2>2. /\ signIn' \in [Browsers -> {None} \cup SignIn]
        /\ session' \in [Browsers -> {None} \cup SessionRow]
    BY <2>1 DEF AccountsKept, AccountTypes
  <2> QED BY <1>2, <1>3, <1>4, <2>1, <2>2, OnlySessions
<1> QED
  BY <1>5, <1>6

\* Sessions end.
LEMMA SessionEnds ==
    ASSUME AccountsKept, NEW b \in Browsers, Confirm(b) \/ SignOut(b)
    PROVE  AccountsKept' /\ UNCHANGED cleanupVars
<1>1. UNCHANGED <<user, owner, flow, begun, issued, cleanupVars>>
  BY DEF Confirm, SignOut
<1>2. signIn' \in [Browsers -> {None} \cup SignIn]
  BY DEF Confirm, SignOut, AccountsKept, AccountTypes
<1>3. session' \in [Browsers -> {None} \cup SessionRow]
      /\ \A c \in Browsers : session'[c] # None => session'[c] = session[c]
  BY DEF Confirm, SignOut, AccountsKept, AccountTypes
<1>4. \A c \in Browsers : session[c] # None =>
         /\ Current(session[c].user, session[c].generation)
         /\ session[c].id <= issued
         /\ session[c].generation <= session[c].id
  BY DEF AccountsKept, SessionsCurrent, ChangesPaid
<1>5. issued' \in 0..MaxSessions /\ issued <= issued'
  BY <1>1, BoundsAssumption DEF AccountsKept, AccountTypes
<1> QED
  BY <1>1, <1>2, <1>3, <1>4, <1>5, OnlySessions
(***************************************************************************)
(* Fresh proofs and links.                                                 *)
(***************************************************************************)

\* A step that replaces one flow.
LEMMA OneFlow ==
    ASSUME AccountsKept, NEW b \in Browsers, NEW p \in Purposes, NEW f \in {None} \cup Flow,
           flow' = [flow EXCEPT ![b][p] = f],
           p = "ACCOUNT_FRESH" /\ f # None => f.identity \in Identities,
           begun' \in 0..MaxFlows,
           UNCHANGED <<user, owner, session, signIn, issued, cleanupVars>>
    PROVE  AccountsKept' /\ UNCHANGED cleanupVars
<1>1. /\ flow' \in [Browsers -> [Purposes -> {None} \cup Flow]]
      /\ \A c \in Browsers, q \in Purposes :
            flow'[c][q] = IF c = b /\ q = p THEN f ELSE flow[c][q]
  BY FlowCell DEF AccountsKept
<1>2. "ACCOUNT_FRESH" \in Purposes
  BY DEF Purposes
<1>3. FreshNamed'
  BY <1>1, <1>2 DEF AccountsKept, FreshNamed
<1>4. signIn' \in [Browsers -> {None} \cup SignIn]
  BY DEF AccountsKept, AccountTypes
<1> QED
  BY <1>1, <1>3, <1>4, OnlyFlows

\* A fresh proof begins with an identity of the user, a link with none.
LEMMA PrepareKept ==
    ASSUME AccountsKept, NEW b \in Browsers, NEW p \in Purposes, Prepare(b, p)
    PROVE  AccountsKept' /\ UNCHANGED cleanupVars
<1>1. /\ session[b] \in SessionRow
      /\ begun' \in 0..MaxFlows
      /\ UNCHANGED <<user, owner, session, signIn, issued, cleanupVars>>
  BY HolderActive, BoundsAssumption DEF Prepare, AccountsKept, AccountTypes
<1>2. ASSUME NEW provider \in Providers, NEW i \in Identities \cup {None}
      PROVE  Prepared(b, provider, i) \in Flow /\ Prepared(b, provider, i).identity = i
  BY <1>1 DEF Prepared, Flow, FlowStages, SessionRow
<1>3. CASE p = "ACCOUNT_FRESH"
  <2>1. PICK i \in Identities : flow' = [flow EXCEPT ![b][p] = Prepared(b, ProviderOf[i], i)]
    BY <1>3 DEF Prepare
  <2>2. ProviderOf[i] \in Providers
    BY IdentitiesAssumption
  <2>3. PICK f : f = Prepared(b, ProviderOf[i], i)
    OBVIOUS
  <2>4. f \in Flow /\ f.identity = i
    BY <1>2, <2>2, <2>3
  <2> QED BY <1>1, <2>1, <2>3, <2>4, OneFlow
<1>4. CASE p # "ACCOUNT_FRESH"
  <2>1. PICK q \in Providers : flow' = [flow EXCEPT ![b][p] = Prepared(b, q, None)]
    BY <1>4 DEF Prepare
  <2>2. PICK f : f = Prepared(b, q, None)
    OBVIOUS
  <2>3. f \in Flow
    BY <1>2, <2>2
  <2> QED BY <1>1, <1>4, <2>1, <2>2, <2>3, OneFlow
<1> QED
  BY <1>3, <1>4

\* The stages between the beginning and the completion of a proof or a link.
LEMMA StagesKept ==
    ASSUME AccountsKept, NEW b \in Browsers, NEW p \in Purposes,
           \/ CreateTransaction(b, p)
           \/ Consume(b, p)
           \/ \E i \in Identities : StageProof(b, p, i)
    PROVE  AccountsKept' /\ UNCHANGED cleanupVars
<1>1. /\ flow[b][p] # None
      /\ UNCHANGED <<user, owner, session, signIn, issued, begun, cleanupVars>>
  BY DEF CreateTransaction, Consume, StageProof, Advance
<1>2. flow[b][p] \in Flow /\ begun' \in 0..MaxFlows
  BY <1>1 DEF AccountsKept, AccountTypes
<1>3. p = "ACCOUNT_FRESH" => flow[b][p].identity \in Identities
  BY <1>1 DEF AccountsKept, FreshNamed
<1>4. CASE CreateTransaction(b, p)
  <2> DEFINE on == [flow[b][p] EXCEPT !.stage = "STARTED"]
  <2>1. on \in Flow /\ on.identity = flow[b][p].identity
    BY <1>2 DEF Flow, FlowStages
  <2> HIDE DEF on
  <2>2. PICK f \in {on, None} : flow' = [flow EXCEPT ![b][p] = f]
    BY <1>4 DEF CreateTransaction, Advance, on
  <2> QED BY <1>1, <1>2, <1>3, <2>1, <2>2, OneFlow
<1>5. CASE Consume(b, p)
  <2> DEFINE on == [flow[b][p] EXCEPT !.stage = "CONSUMED"]
  <2>1. on \in Flow /\ on.identity = flow[b][p].identity
    BY <1>2 DEF Flow, FlowStages
  <2>2. flow' = [flow EXCEPT ![b][p] = on]
    BY <1>5 DEF Consume
  <2>3. PICK f : f = on
    OBVIOUS
  <2> HIDE DEF on
  <2> QED BY <1>1, <1>2, <1>3, <2>1, <2>2, <2>3, OneFlow
<1>6. ASSUME NEW i \in Identities, StageProof(b, p, i)
      PROVE  AccountsKept' /\ UNCHANGED cleanupVars
  <2> DEFINE on == [flow[b][p] EXCEPT !.stage = "STAGED", !.identity = i]
  <2>1. on \in Flow /\ on.identity = i
    BY <1>2 DEF Flow, FlowStages
  <2> HIDE DEF on
  <2>2. PICK f \in {on, None} : flow' = [flow EXCEPT ![b][p] = f]
    BY <1>6 DEF StageProof, Advance, on
  <2> QED BY <1>1, <1>2, <2>1, <2>2, OneFlow
<1> QED
  BY <1>4, <1>5, <1>6

\* A proof is verified.
LEMMA CompleteFreshKept ==
    ASSUME AccountsKept, NEW b \in Browsers, CompleteFresh(b)
    PROVE  AccountsKept' /\ UNCHANGED cleanupVars
<1> DEFINE p == "ACCOUNT_FRESH"
           on == [flow[b][p] EXCEPT !.stage = "VERIFIED"]
<1>1. /\ p \in Purposes
      /\ flow[b][p] # None
      /\ UNCHANGED <<user, owner, session, signIn, issued, begun, cleanupVars>>
      /\ flow' = [flow EXCEPT ![b][p] = on]
  BY DEF CompleteFresh, Purposes
<1>2. flow[b][p] \in Flow /\ begun' \in 0..MaxFlows
  BY <1>1 DEF AccountsKept, AccountTypes
<1>3. flow[b][p].identity \in Identities
  BY <1>1 DEF AccountsKept, FreshNamed
<1>4. on \in Flow /\ on.identity = flow[b][p].identity
  BY <1>2 DEF Flow, FlowStages
<1>5. PICK f : f = on
  OBVIOUS
<1> HIDE DEF on
<1> QED
  BY <1>1, <1>2, <1>3, <1>4, <1>5, OneFlow

\* A flow that ends takes the fresh proof a link has with it.
LEMMA DropKept ==
    ASSUME AccountsKept, NEW b \in Browsers, NEW purpose \in Purposes, Drop(b, purpose)
    PROVE  AccountsKept' /\ UNCHANGED cleanupVars
<1> DEFINE Left(p) == IF p = purpose THEN None
                      ELSE IF p = "ACCOUNT_LINK" /\ flow[b][p] # None
                           THEN [flow[b][p] EXCEPT !.fresh = FALSE]
                      ELSE flow[b][p]
           left == [p \in Purposes |-> Left(p)]
<1>1. /\ flow' = [flow EXCEPT ![b] = left]
      /\ UNCHANGED <<user, owner, session, signIn, issued, begun, cleanupVars>>
  BY DEF Drop
<1>2. left \in [Purposes -> {None} \cup Flow]
  <2>1. ASSUME NEW p \in Purposes PROVE Left(p) \in {None} \cup Flow
    <3>1. flow[b][p] \in {None} \cup Flow
      BY DEF AccountsKept, AccountTypes
    <3>2. flow[b][p] # None => [flow[b][p] EXCEPT !.fresh = FALSE] \in Flow
      BY <3>1 DEF Flow
    <3> QED BY <3>1, <3>2
  <2> HIDE DEF Left
  <2> QED BY <2>1
<1>3. "ACCOUNT_FRESH" \in Purposes
      /\ (left["ACCOUNT_FRESH"] # None => left["ACCOUNT_FRESH"] = flow[b]["ACCOUNT_FRESH"])
  BY DEF Purposes
<1> HIDE DEF left
<1>4. /\ flow' \in [Browsers -> [Purposes -> {None} \cup Flow]]
      /\ \A c \in Browsers : flow'[c] = IF c = b THEN left ELSE flow[c]
  BY <1>1, <1>2 DEF AccountsKept, AccountTypes
<1>5. FreshNamed'
  BY <1>3, <1>4 DEF AccountsKept, FreshNamed
<1>6. signIn' \in [Browsers -> {None} \cup SignIn] /\ begun' \in 0..MaxFlows
  BY <1>1 DEF AccountsKept, AccountTypes
<1> QED
  BY <1>1, <1>4, <1>5, <1>6, OnlyFlows

\* A link is completed by a session that counts, so that no erasure is pending.
LEMMA CompleteLinkKept ==
    ASSUME AccountsKept, NEW b \in Browsers, CompleteLink(b)
    PROVE  AccountsKept' /\ UNCHANGED cleanupVars
<1> DEFINE f == flow[b]["ACCOUNT_LINK"]
           u == f.user
<1>1. /\ ContextIsValid(b, "ACCOUNT_LINK")
      /\ owner[f.identity] = None
      /\ owner' = [owner EXCEPT ![f.identity] = u]
      /\ flow' = [flow EXCEPT ![b] = [p \in Purposes |-> None]]
      /\ UNCHANGED <<user, session, signIn, issued, begun, cleanupVars>>
  BY DEF CompleteLink
<1>2. Holds(b) /\ session[b].user = u
  BY <1>1 DEF ContextIsValid, Bound
<1>3. u \in Users /\ ~Pending(u)
  BY <1>2, HolderActive
<1>4. owner \in [Identities -> Users \cup {None}]
  BY DEF AccountsKept, AccountTypes
<1>5. owner' \in [Identities -> Users \cup {None}]
  <2> HIDE DEF f, u
  <2> QED BY <1>1, <1>3, <1>4
<1>6. /\ flow' \in [Browsers -> [Purposes -> {None} \cup Flow]]
      /\ \A c \in Browsers : flow'[c] = flow[c] \/ flow'[c] = [p \in Purposes |-> None]
  BY <1>1 DEF AccountsKept, AccountTypes
<1>7. FreshNamed'
  BY <1>6 DEF AccountsKept, FreshNamed, Purposes
<1>8. Kept'
  <2>1. Kept /\ UNCHANGED cleanupVars
    BY <1>1 DEF AccountsKept
  <2> QED BY <2>1, KeptByStep
<1>9. AccountTypes' /\ ChangesPaid' /\ SessionsCurrent'
  <2>1. AccountTypes'
    BY <1>1, <1>5, <1>6 DEF AccountsKept, AccountTypes
  <2>2. ChangesPaid' /\ SessionsCurrent'
    BY <1>1 DEF AccountsKept, ChangesPaid, SessionsCurrent, Current, Active
  <2> QED BY <2>1, <2>2
<1>10. \A v \in Users \ {u} : ProvidersOf(v)' = ProvidersOf(v)
  <2> HIDE DEF u, f
  <2>1. ASSUME NEW v \in Users \ {u}, NEW j \in Identities
        PROVE  owner'[j] = v <=> owner[j] = v
    <3>1. v # None
      BY NoneAssumption DEF Users
    <3>2. CASE j = f.identity BY <1>1, <1>4, <3>1, <3>2
    <3>3. CASE j # f.identity BY <1>1, <1>4, <3>3
    <3> QED BY <3>2, <3>3
  <2> QED BY <2>1 DEF ProvidersOf
<1>11. CleanupListsAccounts'
  <2>1. UNCHANGED request /\ \A v \in Users \ {u} : user'[v] = user[v]
    BY <1>1 DEF cleanupVars
  <2> HIDE DEF u, f
  <2> QED BY <1>3, <1>10, <2>1, ListsStayForOthers
<1> QED
  BY <1>1, <1>7, <1>8, <1>9, <1>11 DEF AccountsKept
(***************************************************************************)
(* Changes of authority.                                                   *)
(***************************************************************************)

\* What is left of the flows when those of a user go.
LEMMA FlowsLeft ==
    ASSUME AccountsKept, NEW u, flow' = FlowsWithout(u)
    PROVE  flow' \in [Browsers -> [Purposes -> {None} \cup Flow]] /\ FreshNamed'
<1> DEFINE Left(b, p) == IF flow[b][p] = None \/ flow[b][p].user # u THEN flow[b][p]
                         ELSE IF flow[b][p].stage \in Rows THEN None
                         ELSE [flow[b][p] EXCEPT !.fresh = FALSE]
<1>1. flow' = [b \in Browsers |-> [p \in Purposes |-> Left(b, p)]]
  BY DEF FlowsWithout
<1>2. ASSUME NEW b \in Browsers, NEW p \in Purposes
      PROVE  /\ Left(b, p) \in {None} \cup Flow
             /\ Left(b, p) # None => /\ flow[b][p] # None
                                     /\ Left(b, p).identity = flow[b][p].identity
  <2>1. flow[b][p] \in {None} \cup Flow
    BY DEF AccountsKept, AccountTypes
  <2>2. CASE flow[b][p] = None
    BY <2>2
  <2>3. CASE flow[b][p] # None
    <3>1. /\ [flow[b][p] EXCEPT !.fresh = FALSE] \in Flow
          /\ [flow[b][p] EXCEPT !.fresh = FALSE].identity = flow[b][p].identity
      BY <2>1, <2>3 DEF Flow
    <3> QED BY <2>1, <2>3, <3>1
  <2> QED BY <2>2, <2>3
<1> HIDE DEF Left
<1>3. "ACCOUNT_FRESH" \in Purposes
  BY DEF Purposes
<1> QED
  BY <1>1, <1>2, <1>3 DEF FreshNamed, AccountsKept

\* A user whose authority changes loses the sessions, and the one that asked for the change
\* has paid for it.
LEMMA AuthorityChanges ==
    ASSUME AccountsKept, NEW b \in Browsers, Holds(b),
           NEW u, u = session[b].user,
           NEW row \in UserRow, row.generation = user[u].generation + 1,
           user' = [user EXCEPT ![u] = row],
           session' = SessionsWithout(u), flow' = FlowsWithout(u),
           UNCHANGED <<signIn, issued, begun>>,
           owner' \in [Identities -> Users \cup {None}]
    PROVE  AccountTypes' /\ SessionsCurrent' /\ ChangesPaid' /\ FreshNamed'
<1>1. /\ u \in Users
      /\ user[u].generation = session[b].generation
      /\ session[b] \in SessionRow /\ session[b] # None
  BY HolderActive
<1>2. /\ flow' \in [Browsers -> [Purposes -> {None} \cup Flow]]
      /\ FreshNamed'
  BY FlowsLeft
<1>3. /\ user \in [Users -> {None} \cup UserRow]
      /\ session \in [Browsers -> {None} \cup SessionRow]
      /\ issued \in Nat
  BY BoundsAssumption DEF AccountsKept, AccountTypes
<1>4. user' \in [Users -> {None} \cup UserRow]
      /\ \A v \in Users : user'[v] = IF v = u THEN row ELSE user[v]
  BY <1>1, <1>3
<1>5. session' \in [Browsers -> {None} \cup SessionRow]
      /\ \A c \in Browsers : session'[c] # None =>
            /\ session[c] # None /\ session'[c] = session[c] /\ session[c].user # u
  BY <1>3 DEF SessionsWithout
<1>6. AccountTypes'
  BY <1>2, <1>4, <1>5 DEF AccountsKept, AccountTypes
<1>7. \A c \in Browsers : session'[c] # None =>
         /\ session[c] # None
         /\ session'[c] = session[c]
         /\ user'[session[c].user] = user[session[c].user]
  <2>1. \A c \in Browsers : session[c] # None => session[c].user \in Users
    BY <1>3 DEF SessionRow
  <2> QED BY <1>4, <1>5, <2>1
<1>8. /\ SessionsCurrent'
      /\ \A c \in Browsers : session'[c] # None =>
            session'[c].id <= issued' /\ session'[c].generation <= session'[c].id
  BY <1>7, SessionsStay
<1>9. row.generation <= issued + 1
  <2>1. /\ session[b].id \in Nat /\ session[b].generation \in Nat
        /\ session[b].id <= issued /\ session[b].generation <= session[b].id
    BY <1>1, BoundsAssumption DEF SessionRow, Generations, AccountsKept, ChangesPaid
  <2> QED BY <1>1, <1>3, <2>1
<1>10. ChangesPaid'
  BY <1>4, <1>8, <1>9 DEF AccountsKept, ChangesPaid
<1> QED
  BY <1>2, <1>6, <1>8, <1>10

\* The authority after a change is one that a user may have: there was a session to pay.
LEMMA GenerationFits ==
    ASSUME AccountsKept, NEW b \in Browsers, Holds(b)
    PROVE  user[session[b].user].generation + 1 \in Generations
<1>1. /\ user[session[b].user].generation = session[b].generation
      /\ session[b] \in SessionRow /\ session[b] # None
  BY HolderActive
<1>2. /\ session[b].id \in 1..MaxSessions
      /\ session[b].generation \in Generations
      /\ session[b].generation <= session[b].id
  BY <1>1 DEF SessionRow, AccountsKept, ChangesPaid
<1> QED
  BY <1>1, <1>2, BoundsAssumption DEF Generations

\* An identity is unlinked by a user who has not asked for the erasure.
LEMMA UnlinkKept ==
    ASSUME AccountsKept, NEW b \in Browsers, NEW i \in Identities, Unlink(b, i)
    PROVE  AccountsKept' /\ UNCHANGED cleanupVars
<1>1. PICK u : u = session[b].user
  OBVIOUS
<1>2. /\ Holds(b)
      /\ owner[i] = u
      /\ owner' = [owner EXCEPT ![i] = None]
      /\ user' = [user EXCEPT ![u].generation = @ + 1]
      /\ session' = SessionsWithout(u)
      /\ flow' = FlowsWithout(u)
      /\ UNCHANGED <<signIn, issued, begun, cleanupVars>>
  BY <1>1 DEF Unlink
<1>3. u \in Users /\ user[u] \in UserRow /\ ~Pending(u)
  BY <1>1, <1>2, HolderActive
<1>4. user[u].generation + 1 \in Generations
  BY <1>1, <1>2, GenerationFits
<1>5. PICK row : row = [user[u] EXCEPT !.generation = @ + 1]
  OBVIOUS
<1>6. /\ row \in UserRow
      /\ row.generation = user[u].generation + 1
      /\ user' = [user EXCEPT ![u] = row]
  BY <1>2, <1>3, <1>4, <1>5 DEF UserRow
<1>7. owner \in [Identities -> Users \cup {None}]
      /\ user \in [Users -> {None} \cup UserRow]
  BY DEF AccountsKept, AccountTypes
<1>8. owner' \in [Identities -> Users \cup {None}]
  BY <1>2, <1>7
<1>9. AccountTypes' /\ SessionsCurrent' /\ ChangesPaid' /\ FreshNamed'
  BY <1>1, <1>2, <1>6, <1>8, AuthorityChanges
<1>10. Kept'
  <2>1. Kept /\ UNCHANGED cleanupVars
    BY <1>2 DEF AccountsKept
  <2> QED BY <2>1, KeptByStep
<1>11. \A v \in Users \ {u} : ProvidersOf(v)' = ProvidersOf(v)
  <2>1. ASSUME NEW v \in Users \ {u}, NEW j \in Identities
        PROVE  owner'[j] = v <=> owner[j] = v
    <3>1. v # None
      BY NoneAssumption DEF Users
    <3> QED BY <1>2, <1>7, <3>1
  <2> QED BY <2>1 DEF ProvidersOf
<1>12. CleanupListsAccounts'
  <2>1. UNCHANGED request /\ \A v \in Users \ {u} : user'[v] = user[v]
    BY <1>2, <1>6, <1>7 DEF cleanupVars
  <2> QED BY <1>3, <1>11, <2>1, ListsStayForOthers
<1> QED
  BY <1>2, <1>9, <1>10, <1>12 DEF AccountsKept

\* A request lists what the user has, which is one provider at least: the fresh proof shows
\* it. It is a request as ProviderCleanup takes it.
LEMMA RequestKept ==
    ASSUME AccountsKept, NEW b \in Browsers, RequestErasure(b)
    PROVE  AccountsKept' /\ CleanupNext
<1>1. PICK u : u = session[b].user
  OBVIOUS
<1>2. /\ Holds(b) /\ FreshProof(b)
      /\ Request(u, ProvidersOf(u))
      /\ user' = [user EXCEPT ![u] = [accountStatus |-> "DELETION_PENDING",
                                      generation |-> @.generation + 1]]
      /\ session' = SessionsWithout(u)
      /\ flow' = FlowsWithout(u)
      /\ UNCHANGED <<owner, signIn, issued, begun>>
  BY <1>1 DEF RequestErasure, ProvidersOf
<1>3. u \in Users /\ u \in Requests
  BY <1>1, <1>2, HolderActive DEF Users
<1>4. ProvidersOf(u) \in (SUBSET Providers) \ {{}}
  <2> DEFINE i == flow[b]["ACCOUNT_FRESH"].identity
  <2>1. i \in Identities
    BY <1>2 DEF FreshProof, AccountsKept, FreshNamed
  <2>2. owner[i] = u
    BY <1>1, <1>2 DEF FreshProof, Bound, StillLinked
  <2>3. ProviderOf[i] \in ProvidersOf(u)
    BY <2>1, <2>2 DEF ProvidersOf
  <2>4. ProvidersOf(u) \subseteq Providers
    BY IdentitiesAssumption DEF ProvidersOf
  <2> QED BY <2>3, <2>4
<1>5. CleanupNext
  BY <1>2, <1>3, <1>4 DEF CleanupNext
<1>6. Kept'
  BY <1>5, KeptByStep DEF AccountsKept
<1>7. PICK row : row = [accountStatus |-> "DELETION_PENDING",
                        generation |-> user[u].generation + 1]
  OBVIOUS
<1>8. /\ row \in UserRow /\ row # None
      /\ row.accountStatus = "DELETION_PENDING"
      /\ row.generation = user[u].generation + 1
      /\ user' = [user EXCEPT ![u] = row]
  <2>1. user[u].generation + 1 \in Generations
    BY <1>1, <1>2, GenerationFits
  <2> QED BY <1>2, <1>7, <2>1, UsersAssumption DEF UserRow
<1>9. owner' \in [Identities -> Users \cup {None}] /\ user \in [Users -> {None} \cup UserRow]
  BY <1>2 DEF AccountsKept, AccountTypes
<1>10. AccountTypes' /\ SessionsCurrent' /\ ChangesPaid' /\ FreshNamed'
  BY <1>1, <1>2, <1>8, <1>9, AuthorityChanges
<1>11. CleanupListsAccounts'
  <2>1. request' = [request EXCEPT ![u] = NewRequest(ProvidersOf(u))]
        /\ request \in [Requests -> {None} \cup Row]
    BY <1>2 DEF Request, AccountsKept, Kept, CleanupTypeOK
  <2>2. ASSUME NEW v \in Users, Pending(v)'
        PROVE  /\ user'[v] # None /\ user'[v].accountStatus = "DELETION_PENDING"
               /\ Listed(v)' = ProvidersOf(v)'
    <3>1. ProvidersOf(v)' = ProvidersOf(v)
      BY <1>2 DEF ProvidersOf
    <3>2. CASE v = u
      <4>1. user'[v] = row
        BY <1>3, <1>8, <1>9, <3>2
      <4>2. request'[v] = NewRequest(ProvidersOf(u))
        BY <1>3, <2>1, <3>2
      <4>3. \A p \in Providers : request'[v].providerCleanup[p] # None <=> p \in ProvidersOf(u)
        BY <4>2, RowsAssumption DEF NewRequest, Statuses
      <4>4. Listed(v)' = ProvidersOf(u)
        BY <1>4, <4>3 DEF Listed
      <4> QED BY <1>8, <3>1, <3>2, <4>1, <4>4
    <3>3. CASE v # u
      <4>1. request'[v] = request[v] /\ user'[v] = user[v]
        BY <1>8, <1>9, <2>1, <3>3 DEF Users
      <4>2. Pending(v) /\ Listed(v)' = Listed(v)
        BY <2>2, <4>1 DEF Pending, Listed
      <4>3. /\ user[v] # None /\ user[v].accountStatus = "DELETION_PENDING"
            /\ Listed(v) = ProvidersOf(v)
        BY <4>2 DEF AccountsKept, CleanupListsAccounts, ProvidersOf
      <4> QED BY <3>1, <4>1, <4>2, <4>3
    <3> QED BY <3>2, <3>3
  <2> QED BY <2>2 DEF CleanupListsAccounts, ProvidersOf
<1> QED
  BY <1>5, <1>6, <1>10, <1>11 DEF AccountsKept

\* A user that is erased has no session: its erasure was pending.
LEMMA EraseKept ==
    ASSUME AccountsKept, NEW w \in Workers, NEW u \in Users, Erase(w, u)
    PROVE  AccountsKept' /\ CleanupNext
<1>1. Complete(w, u) /\ UNCHANGED <<session, signIn, issued, begun>>
  BY DEF Erase
<1>2. CleanupNext
  BY <1>1 DEF CleanupNext, Users
<1>3. Kept'
  BY <1>2, KeptByStep DEF AccountsKept
<1>4. /\ user \in [Users -> {None} \cup UserRow]
      /\ owner \in [Identities -> Users \cup {None}]
      /\ request \in [Requests -> {None} \cup Row]
  BY DEF AccountsKept, AccountTypes, Kept, CleanupTypeOK
<1>5. CASE ~Completable(u)
  <2>1. UNCHANGED <<user, owner, flow, request>>
    BY <1>1, <1>5 DEF Erase, Complete
  <2>2. RequestsFollow
    BY <2>1 DEF RequestsFollow, Pending, Listed
  <2>3. CleanupListsAccounts'
    BY <2>1, <2>2, ListsStay
  <2>4. AccountTypes' /\ SessionsCurrent' /\ ChangesPaid' /\ FreshNamed'
    BY <1>1, <2>1 DEF AccountsKept, AccountTypes, SessionsCurrent, Current, Active, ChangesPaid,
                      FreshNamed
  <2> QED BY <1>2, <1>3, <2>3, <2>4 DEF AccountsKept
<1>6. CASE Completable(u)
  <2>1. /\ user' = [user EXCEPT ![u] = None]
        /\ owner' = [i \in Identities |-> IF owner[i] = u THEN None ELSE owner[i]]
        /\ flow' = FlowsWithout(u)
        /\ request' = [request EXCEPT ![u].appStatus = "DELETED"]
    BY <1>1, <1>6 DEF Erase, Complete
  <2>2. Pending(u)
    BY <1>6 DEF Completable, Ready, Pending
  <2>3. user[u].accountStatus = "DELETION_PENDING"
    BY <2>2 DEF AccountsKept, CleanupListsAccounts
  <2>4. /\ flow' \in [Browsers -> [Purposes -> {None} \cup Flow]]
        /\ FreshNamed'
    BY <2>1, FlowsLeft
  <2>5. /\ user' \in [Users -> {None} \cup UserRow]
        /\ \A v \in Users : user'[v] = IF v = u THEN None ELSE user[v]
        /\ owner' \in [Identities -> Users \cup {None}]
    BY <1>4, <2>1
  <2>6. AccountTypes'
    BY <1>1, <2>4, <2>5 DEF AccountsKept, AccountTypes
  <2>7. \A c \in Browsers : session'[c] # None =>
           /\ session[c] # None
           /\ session'[c] = session[c]
           /\ user'[session[c].user] = user[session[c].user]
    <3>1. \A c \in Browsers : session[c] # None =>
             /\ session[c].user \in Users
             /\ user[session[c].user].accountStatus = "ACTIVE"
      BY DEF AccountsKept, AccountTypes, SessionRow, SessionsCurrent, Current, Active
    <3>2. \A c \in Browsers : session[c] # None => session[c].user # u
      BY <2>3, <3>1
    <3> QED BY <1>1, <2>5, <3>1, <3>2
  <2>8. /\ SessionsCurrent'
        /\ \A c \in Browsers : session'[c] # None =>
              session'[c].id <= issued' /\ session'[c].generation <= session'[c].id
    BY <1>1, <2>7, SessionsStay
  <2>9. ChangesPaid'
    BY <1>1, <2>5, <2>8 DEF AccountsKept, ChangesPaid
  <2>10. CleanupListsAccounts'
    <3>1. u \in Requests /\ request[u] \in Row
      BY <1>4, <2>2 DEF Users, Pending
    <3>2. /\ request'[u].appStatus = "DELETED"
          /\ \A v \in Requests \ {u} : request'[v] = request[v]
      <4>1. request'[u] = [request[u] EXCEPT !.appStatus = "DELETED"]
        BY <1>4, <2>1, <3>1
      <4>2. request'[u].appStatus = "DELETED"
        BY <3>1, <4>1 DEF Row
      <4> QED BY <1>4, <2>1, <4>2
    <3>3. ASSUME NEW v \in Users, Pending(v)'
          PROVE  /\ user'[v] # None /\ user'[v].accountStatus = "DELETION_PENDING"
                 /\ Listed(v)' = ProvidersOf(v)'
      <4>1. v # u
        BY <3>2, <3>3 DEF Pending
      <4>2. request'[v] = request[v] /\ user'[v] = user[v]
        BY <2>5, <3>2, <4>1 DEF Users
      <4>3. Pending(v) /\ Listed(v)' = Listed(v)
        BY <3>3, <4>2 DEF Pending, Listed
      <4>4. /\ user[v] # None /\ user[v].accountStatus = "DELETION_PENDING"
            /\ Listed(v) = ProvidersOf(v)
        BY <4>3 DEF AccountsKept, CleanupListsAccounts, ProvidersOf
      <4>5. ProvidersOf(v)' = ProvidersOf(v)
        <5>1. v # None
          BY NoneAssumption DEF Users
        <5>2. \A j \in Identities : owner'[j] = v <=> owner[j] = v
          BY <2>1, <4>1, <5>1
        <5> QED BY <5>2 DEF ProvidersOf
      <4> QED BY <4>2, <4>3, <4>4, <4>5
    <3> QED BY <3>3 DEF CleanupListsAccounts, ProvidersOf
  <2> QED BY <1>2, <1>3, <2>4, <2>6, <2>8, <2>9, <2>10 DEF AccountsKept
<1> QED
  BY <1>5, <1>6

\* The runs of the erasure command and the database leave accounts alone.
LEMMA CleanupStepKept ==
    ASSUME AccountsKept, CleanupStep
    PROVE  AccountsKept' /\ CleanupNext
<1>1. CleanupNext
  BY DEF CleanupStep, CleanupNext
<1>2. Kept'
  BY <1>1, KeptByStep DEF AccountsKept
<1>3. UNCHANGED <<user, owner, session, signIn, flow, issued, begun>>
  BY DEF CleanupStep, accountVars
<1>4. RequestsFollow
  BY CleanupFollows DEF CleanupStep, AccountsKept
<1>5. CleanupListsAccounts'
  BY <1>3, <1>4, ListsStay
<1>6. AccountTypes' /\ SessionsCurrent' /\ ChangesPaid' /\ FreshNamed'
  BY <1>3 DEF AccountsKept, AccountTypes, SessionsCurrent, Current, Active, ChangesPaid, FreshNamed
<1> QED
  BY <1>1, <1>2, <1>5, <1>6 DEF AccountsKept

(***************************************************************************)
(* The theorems.                                                           *)
(***************************************************************************)

allVars == <<accountVars, cleanupVars>>

\* At first there are no users.
LEMMA AccountsKeptAtFirst == AccountsInit => AccountsKept
<1> SUFFICES ASSUME AccountsInit PROVE AccountsKept
  OBVIOUS
<1>1. Kept
  BY KeptAtFirst DEF AccountsInit
<1>2. AccountTypes
  BY BoundsAssumption DEF AccountsInit, AccountTypes
<1>3. SessionsCurrent /\ ChangesPaid /\ FreshNamed
  BY DEF AccountsInit, SessionsCurrent, ChangesPaid, FreshNamed, Purposes
<1>4. CleanupListsAccounts
  BY DEF AccountsInit, CleanupInit, CleanupListsAccounts, Pending, Users
<1> QED
  BY <1>1, <1>2, <1>3, <1>4 DEF AccountsKept

\* Each step keeps the invariant, and is to the erasure one of its own steps or none.
LEMMA AccountsKeptByStep ==
    AccountsKept /\ [AccountsNext]_allVars => AccountsKept' /\ [CleanupNext]_cleanupVars
<1> SUFFICES ASSUME AccountsKept, [AccountsNext]_allVars
             PROVE  AccountsKept' /\ [CleanupNext]_cleanupVars
  OBVIOUS
<1>1. ASSUME NEW b \in Browsers, NEW i \in Identities, Lookup(b, i) \/ Unlink(b, i)
      PROVE  AccountsKept' /\ UNCHANGED cleanupVars
  BY <1>1, LookupKept, UnlinkKept
<1>2. ASSUME NEW b \in Browsers, Resolve(b) \/ Issue(b) \/ Confirm(b) \/ SignOut(b)
      PROVE  AccountsKept' /\ UNCHANGED cleanupVars
  BY <1>2, ResolveKept, IssueKept, SessionEnds
<1>3. ASSUME NEW b \in Browsers, CompleteFresh(b) \/ CompleteLink(b)
      PROVE  AccountsKept' /\ UNCHANGED cleanupVars
  BY <1>3, CompleteFreshKept, CompleteLinkKept
<1>4. ASSUME NEW b \in Browsers, NEW p \in Purposes,
             \/ Prepare(b, p) \/ CreateTransaction(b, p) \/ Consume(b, p) \/ Drop(b, p)
             \/ \E i \in Identities : StageProof(b, p, i)
      PROVE  AccountsKept' /\ UNCHANGED cleanupVars
  BY <1>4, PrepareKept, StagesKept, DropKept
<1>5. ASSUME NEW b \in Browsers, RequestErasure(b)
      PROVE  AccountsKept' /\ CleanupNext
  BY <1>5, RequestKept
<1>6. ASSUME NEW w \in Workers, NEW u \in Users, Erase(w, u)
      PROVE  AccountsKept' /\ CleanupNext
  BY <1>6, EraseKept
<1>7. ASSUME CleanupStep PROVE AccountsKept' /\ CleanupNext
  BY <1>7, CleanupStepKept
<1>8. CASE UNCHANGED allVars
  <2>1. UNCHANGED <<user, owner, session, signIn, flow, issued, begun, cleanupVars>>
    BY <1>8 DEF allVars, accountVars
  <2>2. /\ signIn' \in [Browsers -> {None} \cup SignIn]
        /\ flow' \in [Browsers -> [Purposes -> {None} \cup Flow]]
        /\ begun' \in 0..MaxFlows
        /\ FreshNamed'
    BY <2>1 DEF AccountsKept, AccountTypes, FreshNamed
  <2> QED BY <2>1, <2>2, OnlyFlows
<1> QED
  BY <1>1, <1>2, <1>3, <1>4, <1>5, <1>6, <1>7, <1>8 DEF AccountsNext

\* The invariant holds always.
LEMMA AccountsAlwaysKept == AccountsSpec => []AccountsKept
<1>1. AccountsKept /\ [AccountsNext]_allVars => AccountsKept'
  BY AccountsKeptByStep
<1>2. AccountsSpec => AccountsInit /\ [][AccountsNext]_allVars
  BY DEF AccountsSpec, allVars
<1> QED
  BY AccountsKeptAtFirst, <1>1, <1>2, PTL

\* Users, identities, sessions and flows have the shape of their tables; a user has seen no
\* more changes of authority than sessions were issued.
THEOREM AccountsTypeCorrect == AccountsSpec => []AccountsTypeOK
<1>1. AccountsKept => AccountsTypeOK
  BY DEF AccountsKept, Kept, AccountTypes, AccountsTypeOK
<1> QED
  BY AccountsAlwaysKept, <1>1, PTL

\* No session outlives an unlink or a request for erasure, nor is one issued after it by a
\* sign-in that was resolved before (issueOwnedSession, validate_user_change).
THEOREM SessionsAlwaysCurrent == AccountsSpec => []SessionsCurrent
<1>1. AccountsKept => SessionsCurrent
  BY DEF AccountsKept
<1> QED
  BY AccountsAlwaysKept, <1>1, PTL

\* While an erasure is pending, its providers are those of the identities the user has
\* (prepare_sso_account_erasure_request, completeAccountLink, unlinkAccount).
THEOREM ErasureFollowsAccounts == AccountsSpec => []CleanupListsAccounts
<1>1. AccountsKept => CleanupListsAccounts
  BY DEF AccountsKept
<1> QED
  BY AccountsAlwaysKept, <1>1, PTL

\* Seen from the erasure, accounts only make requests and erase users as ProviderCleanup
\* has it: all that is proved of it holds beside sign-ins, links and unlinks.
THEOREM AccountsImplementCleanup == AccountsSpec => CleanupSpec
<1>1. AccountsInit => CleanupInit
  BY DEF AccountsInit
<1>2. AccountsKept /\ [AccountsNext]_allVars => [CleanupNext]_cleanupVars
  BY AccountsKeptByStep
<1>3. AccountsSpec => AccountsInit /\ [][AccountsNext]_allVars
  BY DEF AccountsSpec, allVars
<1> QED
  BY AccountsAlwaysKept, <1>1, <1>2, <1>3, PTL DEF CleanupSpec
=============================================================================
