---------------------------- MODULE SsoAccounts ----------------------------
(***************************************************************************)
(* Accounts and sessions: sign-in with an identity provider                *)
(* (ssoIdentityRepository.ts, resolve_sso_identity, ownedSessionAuthority),*)
(* linking and unlinking identities and asking for the erasure             *)
(* (ssoAccountAuthority.ts, accountErasureAuthority.ts), composed with     *)
(* ProviderCleanup, which carries the erasure out.                         *)
(*                                                                         *)
(* A sign-in and the proof of a fresh one take several transactions, with  *)
(* the identity provider in between; each transaction locks the User row   *)
(* before it decides. Roles are left out: an administrator needs a fresh   *)
(* proof to unlink, a user does not. The times of sessions and proofs are  *)
(* left out: each may end at any time.                                     *)
(***************************************************************************)
EXTENDS ProviderCleanup

CONSTANTS
    Identities,         \* verified provider subjects
    ProviderOf,         \* their providers
    Browsers,
    MaxSessions,        \* bound on the sessions issued
    MaxFlows            \* bound on the fresh proofs and links begun

ASSUME IdentitiesAssumption == ProviderOf \in [Identities -> Providers]
ASSUME BrowsersAssumption == None \notin Identities \cup Browsers
ASSUME BoundsAssumption == MaxSessions \in Nat /\ MaxFlows \in Nat

VARIABLES
    user,       \* User rows: status and authorityGeneration
    owner,      \* Account rows: the user an identity is linked to
    session,    \* the session a browser holds
    signIn,     \* sign-ins under way
    flow,       \* fresh proofs and links under way: handlers, transactions and proofs
    issued,     \* sessions issued so far
    begun       \* proofs and links begun so far
accountVars == <<user, owner, session, signIn, flow, issued, begun>>

Users == Requests
Purposes == {"ACCOUNT_FRESH", "ACCOUNT_LINK"}
Generations == 1..(MaxSessions + 2)
UserRow == [accountStatus : {"ACTIVE", "DELETION_PENDING"}, generation : Generations]
SessionRow == [id : 1..MaxSessions, user : Users, generation : Generations]
SignIn == [stage : {"FOUND", "RESOLVED", "ISSUED"}, identity : Identities, user : Users,
           generation : Generations \cup {None}]
\* In a handler: PREPARED, CONSUMED. A row of SsoAccountFreshTransaction: STARTED, of
\* SsoAccountFreshProof: STAGED, VERIFIED. A link remembers whether its fresh proof is there.
FlowStages == {"PREPARED", "STARTED", "CONSUMED", "STAGED", "VERIFIED"}
Flow == [stage : FlowStages, user : Users, generation : Generations, session : 1..MaxSessions,
         provider : Providers, identity : Identities \cup {None}, fresh : BOOLEAN]

ASSUME UsersAssumption == None \notin UserRow

AccountsInit ==
    /\ CleanupInit
    /\ user = [u \in Users |-> None]
    /\ owner = [i \in Identities |-> None]
    /\ session = [b \in Browsers |-> None]
    /\ signIn = [b \in Browsers |-> None]
    /\ flow = [b \in Browsers |-> [p \in Purposes |-> None]]
    /\ issued = 0
    /\ begun = 0

-----------------------------------------------------------------------------
(* Signing in: resolve_sso_identity, issueOwnedSession, confirmOwnedSession. *)

\* The lookup of the account, under the advisory lock of the identity; an unknown identity
\* gets a new user. The id of a user is never used again.
Lookup(b, i) ==
    /\ signIn[b] = None
    /\ session[b] = None
    /\ issued < MaxSessions
    /\ ~\E c \in Browsers : signIn[c] # None /\ signIn[c].stage = "FOUND" /\ signIn[c].identity = i
    /\ \E u \in Users :
          /\ \/ owner[i] = u /\ UNCHANGED <<user, owner>>
             \/ /\ owner[i] = None
                /\ user[u] = None
                /\ request[u] = None
                /\ user' = [user EXCEPT ![u] = [accountStatus |-> "ACTIVE", generation |-> 1]]
                /\ owner' = [owner EXCEPT ![i] = u]
          /\ signIn' = [signIn EXCEPT ![b] = [stage |-> "FOUND", identity |-> i, user |-> u,
                                              generation |-> None]]
    /\ UNCHANGED <<session, flow, issued, begun, cleanupVars>>

Active(u) == user[u] # None /\ user[u].accountStatus = "ACTIVE"

\* The same call, once it has the lock of the user.
Resolve(b) ==
    /\ signIn[b] # None
    /\ signIn[b].stage = "FOUND"
    /\ LET u == signIn[b].user IN
       signIn' = [signIn EXCEPT ![b] =
                    IF Active(u) THEN [@ EXCEPT !.stage = "RESOLVED", !.generation = user[u].generation]
                    ELSE None]
    /\ UNCHANGED <<user, owner, session, flow, issued, begun, cleanupVars>>

Current(u, generation) == Active(u) /\ user[u].generation = generation

\* Mutant: the generation the sign-in was resolved with is not compared.
IssueStale(b) ==
    /\ signIn[b] # None
    /\ signIn[b].stage = "RESOLVED"
    /\ IF Active(signIn[b].user) /\ issued < MaxSessions
       THEN /\ signIn' = [signIn EXCEPT ![b].stage = "ISSUED"]
            /\ issued' = issued + 1
            /\ session' = [session EXCEPT ![b] =
                  [id |-> issued + 1, user |-> signIn[b].user,
                   generation |-> signIn[b].generation]]
       ELSE /\ signIn' = [signIn EXCEPT ![b] = None]
            /\ UNCHANGED <<session, issued>>
    /\ UNCHANGED <<user, owner, flow, begun, cleanupVars>>

Issue(b) ==
    /\ signIn[b] # None
    /\ signIn[b].stage = "RESOLVED"
    /\ IF Current(signIn[b].user, signIn[b].generation) /\ issued < MaxSessions
       THEN /\ signIn' = [signIn EXCEPT ![b].stage = "ISSUED"]
            /\ issued' = issued + 1
            /\ session' = [session EXCEPT ![b] =
                  [id |-> issued + 1, user |-> signIn[b].user,
                   generation |-> signIn[b].generation]]
       ELSE /\ signIn' = [signIn EXCEPT ![b] = None]
            /\ UNCHANGED <<session, issued>>
    /\ UNCHANGED <<user, owner, flow, begun, cleanupVars>>

\* A session that has lost its authority meanwhile is not delivered: compensate.
Confirm(b) ==
    /\ signIn[b] # None
    /\ signIn[b].stage = "ISSUED"
    /\ signIn' = [signIn EXCEPT ![b] = None]
    /\ session' = IF session[b] # None /\ Current(session[b].user, session[b].generation)
                  THEN session
                  ELSE [session EXCEPT ![b] = None]
    /\ UNCHANGED <<user, owner, flow, issued, begun, cleanupVars>>

\* signOutOwnedSession, or the end of a session's time.
SignOut(b) ==
    /\ session[b] # None
    /\ session' = [session EXCEPT ![b] = None]
    /\ UNCHANGED <<user, owner, signIn, flow, issued, begun, cleanupVars>>

-----------------------------------------------------------------------------
(* Fresh proofs and links. *)

\* accountSessionContext
Holds(b) == /\ session[b] # None
            /\ signIn[b] = None
            /\ Current(session[b].user, session[b].generation)

Bound(b, f) == /\ Holds(b)
               /\ session[b].id = f.session
               /\ session[b].user = f.user
               /\ session[b].generation = f.generation
StillLinked(f) == owner[f.identity] = f.user

\* accountFreshProofIsValid
FreshProof(b) == LET f == flow[b]["ACCOUNT_FRESH"] IN
    /\ f # None
    /\ f.stage = "VERIFIED"
    /\ Bound(b, f)
    /\ StillLinked(f)

\* Mutant: the user is still there.
ContextOfUser(b, purpose) == user[flow[b][purpose].user] # None

\* contextIsValid
ContextIsValid(b, purpose) == LET f == flow[b][purpose] IN
    /\ Bound(b, f)
    /\ IF purpose = "ACCOUNT_FRESH" THEN StillLinked(f) ELSE f.fresh /\ FreshProof(b)

HasProvider(u, p) == \E i \in Identities : owner[i] = u /\ ProviderOf[i] = p

Prepared(b, provider, identity) ==
    [stage |-> "PREPARED", user |-> session[b].user, generation |-> session[b].generation,
     session |-> session[b].id, provider |-> provider, identity |-> identity, fresh |-> TRUE]

\* prepareAccountFresh, prepareAccountLink
Prepare(b, purpose) ==
    /\ Holds(b)
    /\ flow[b][purpose] = None
    /\ begun < MaxFlows
    /\ begun' = begun + 1
    /\ \/ /\ purpose = "ACCOUNT_FRESH"
          /\ \E i \in Identities :
                /\ owner[i] = session[b].user
                /\ flow' = [flow EXCEPT ![b][purpose] = Prepared(b, ProviderOf[i], i)]
       \/ /\ purpose = "ACCOUNT_LINK"
          /\ FreshProof(b)
          /\ \E p \in Providers :
                /\ ~HasProvider(session[b].user, p)
                /\ flow' = [flow EXCEPT ![b][purpose] = Prepared(b, p, None)]
    /\ UNCHANGED <<user, owner, session, signIn, issued, cleanupVars>>

\* createAccountFreshTransaction, stageAccountFreshProof: on, if the context still holds.
Advance(b, purpose, from, f) ==
    /\ flow[b][purpose] # None
    /\ flow[b][purpose].stage = from
    /\ flow' = [flow EXCEPT ![b][purpose] = IF ContextIsValid(b, purpose) THEN f ELSE None]
    /\ UNCHANGED <<user, owner, session, signIn, issued, begun, cleanupVars>>

CreateTransaction(b, purpose) ==
    Advance(b, purpose, "PREPARED", [flow[b][purpose] EXCEPT !.stage = "STARTED"])

\* consumeAccountFreshTransaction: the callback takes the transaction, once.
Consume(b, purpose) ==
    /\ flow[b][purpose] # None
    /\ flow[b][purpose].stage = "STARTED"
    /\ flow' = [flow EXCEPT ![b][purpose].stage = "CONSUMED"]
    /\ UNCHANGED <<user, owner, session, signIn, issued, begun, cleanupVars>>

\* The provider has verified identity i. A fresh proof has to be of the captured identity.
StageProof(b, purpose, i) ==
    /\ flow[b][purpose] # None
    /\ ProviderOf[i] = flow[b][purpose].provider
    /\ purpose = "ACCOUNT_FRESH" => i = flow[b][purpose].identity
    /\ Advance(b, purpose, "CONSUMED",
               [flow[b][purpose] EXCEPT !.stage = "STAGED", !.identity = i])

\* completeAccountFresh
CompleteFresh(b) == LET f == flow[b]["ACCOUNT_FRESH"] IN
    /\ f # None
    /\ f.stage = "STAGED"
    /\ ContextIsValid(b, "ACCOUNT_FRESH")
    /\ flow' = [flow EXCEPT ![b]["ACCOUNT_FRESH"].stage = "VERIFIED"]
    /\ UNCHANGED <<user, owner, session, signIn, issued, begun, cleanupVars>>

\* completeAccountLink; it shares the advisory lock of the identity with a sign-in. Both
\* proofs are used up.
CompleteLink(b) == LET f == flow[b]["ACCOUNT_LINK"] IN
    /\ f # None
    /\ f.stage = "STAGED"
    /\ ~\E c \in Browsers : /\ signIn[c] # None
                            /\ signIn[c].stage = "FOUND"
                            /\ signIn[c].identity = f.identity
    /\ ContextIsValid(b, "ACCOUNT_LINK")
    /\ owner[f.identity] = None
    /\ ~HasProvider(f.user, f.provider)
    /\ owner' = [owner EXCEPT ![f.identity] = f.user]
    /\ flow' = [flow EXCEPT ![b] = [p \in Purposes |-> None]]
    /\ UNCHANGED <<user, session, signIn, issued, begun, cleanupVars>>

\* A proof or transaction runs out, or its handler fails.
Drop(b, purpose) ==
    /\ flow[b][purpose] # None
    /\ flow' = [flow EXCEPT ![b] = [p \in Purposes |->
                  IF p = purpose THEN None
                  ELSE IF p = "ACCOUNT_LINK" /\ @[p] # None THEN [@[p] EXCEPT !.fresh = FALSE]
                  ELSE @[p]]]
    /\ UNCHANGED <<user, owner, session, signIn, issued, begun, cleanupVars>>

-----------------------------------------------------------------------------
(* Changes of authority. The triggers step the generation and delete the sessions. *)

Rows == {"STARTED", "STAGED", "VERIFIED"}
\* The stored proofs and transactions of a user go; handlers keep what they hold.
FlowsWithout(u) ==
    [b \in Browsers |-> [p \in Purposes |->
        LET f == flow[b][p] IN
        IF f = None \/ f.user # u THEN f
        ELSE IF f.stage \in Rows THEN None
        ELSE [f EXCEPT !.fresh = FALSE]]]
\* Mutant: sessions are detached from their user.
SessionsDetached(u) ==
    [b \in Browsers |-> IF session[b] # None /\ session[b].user = u
                       THEN [session[b] EXCEPT !.user = None] ELSE session[b]]
SessionsWithout(u) ==
    [b \in Browsers |-> IF session[b] # None /\ session[b].user = u THEN None ELSE session[b]]

\* unlinkAccount; protect_account and validate_user_change.
Unlink(b, i) == LET u == session[b].user IN
    /\ Holds(b)
    /\ owner[i] = u
    /\ \E j \in Identities : owner[j] = u /\ ProviderOf[j] # ProviderOf[i]
    /\ owner' = [owner EXCEPT ![i] = None]
    /\ user' = [user EXCEPT ![u].generation = @ + 1]
    /\ session' = SessionsWithout(u)
    /\ flow' = FlowsWithout(u)
    /\ UNCHANGED <<signIn, issued, begun, cleanupVars>>

\* requestSsoAccountErasure
RequestErasure(b) == LET u == session[b].user IN
    /\ Holds(b)
    /\ FreshProof(b)
    /\ Request(u, {ProviderOf[i] : i \in {j \in Identities : owner[j] = u}})
    /\ user' = [user EXCEPT ![u] = [accountStatus |-> "DELETION_PENDING", generation |-> @.generation + 1]]
    /\ session' = SessionsWithout(u)
    /\ flow' = FlowsWithout(u)
    /\ UNCHANGED <<owner, signIn, issued, begun>>

\* eraseConfirmedUser: the User row and what hangs on it, if it is still to be deleted.
Erase(w, u) ==
    /\ Complete(w, u)
    /\ IF Completable(u)
       THEN /\ user' = [user EXCEPT ![u] = None]
            /\ owner' = [i \in Identities |-> IF owner[i] = u THEN None ELSE owner[i]]
            /\ flow' = FlowsWithout(u)
       ELSE UNCHANGED <<user, owner, flow>>
    /\ UNCHANGED <<session, signIn, issued, begun>>

CleanupStep == /\ \/ \E w \in Workers : RunStep(w)
                  \/ Serve
                  \/ Tick
               /\ UNCHANGED accountVars

AccountsNext ==
    \/ \E b \in Browsers :
          \/ \E i \in Identities : Lookup(b, i) \/ Unlink(b, i)
          \/ Resolve(b) \/ Issue(b) \/ Confirm(b) \/ SignOut(b)
          \/ CompleteFresh(b) \/ CompleteLink(b) \/ RequestErasure(b)
          \/ \E p \in Purposes :
                \/ Prepare(b, p) \/ CreateTransaction(b, p) \/ Consume(b, p) \/ Drop(b, p)
                \/ \E i \in Identities : StageProof(b, p, i)
    \/ \E w \in Workers, u \in Users : Erase(w, u)
    \/ CleanupStep

AccountsSpec == AccountsInit /\ [][AccountsNext]_<<accountVars, cleanupVars>>

-----------------------------------------------------------------------------
(* Properties. *)

AccountsTypeOK ==
    /\ CleanupTypeOK
    /\ user \in [Users -> {None} \cup UserRow]
    /\ owner \in [Identities -> Users \cup {None}]
    /\ session \in [Browsers -> {None} \cup SessionRow]
    /\ signIn \in [Browsers -> {None} \cup SignIn]
    /\ flow \in [Browsers -> [Purposes -> {None} \cup Flow]]
    /\ issued \in 0..MaxSessions
    /\ begun \in 0..MaxFlows

\* While the erasure of a user is pending, the providers to clean up are those of the
\* identities the user has: no link or unlink that was under way changes them behind the
\* request, which would leave an identity uncleaned or without a subject to revoke
\* (prepare_sso_account_erasure_request, claimProviderCleanups).
CleanupListsAccounts ==
    \A u \in Users : Pending(u) =>
        /\ user[u] # None /\ user[u].accountStatus = "DELETION_PENDING"
        /\ Listed(u) = {ProviderOf[i] : i \in {j \in Identities : owner[j] = u}}

\* No session outlives an unlink or a request for erasure, nor is one issued after it by a
\* sign-in that was resolved before (issueOwnedSession, validate_user_change).
SessionsCurrent ==
    \A b \in Browsers : session[b] # None => Current(session[b].user, session[b].generation)
=============================================================================
