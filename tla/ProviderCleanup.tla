-------------------------- MODULE ProviderCleanup --------------------------
(***************************************************************************)
(* The erasure of accounts: apps/api/src/auth/ssoProviderRevoke.ts,        *)
(* ssoAccountAuthority.ts (claim, begin, record), ssoAccountRepository.ts  *)
(* (runSsoAccountErasureBatch) and accountErasureAuthority.ts.             *)
(*                                                                         *)
(* A request lists the identity providers of its user. Runs of the erasure *)
(* command, several of them at once, claim requests under a lease, mark a  *)
(* provider before they call it, record the outcome, and erase the user    *)
(* when all providers are completed. A statement sent to the database may  *)
(* take effect after the run has given it up.                              *)
(*                                                                         *)
(* Time is what is left of leases and deadlines: the process and the       *)
(* database have different clocks that run at one speed. One tick also     *)
(* stands for the millisecond that PostgreSQL may round a lease by.        *)
(***************************************************************************)
EXTENDS Naturals, FiniteSets

CONSTANTS
    Requests,       \* users who ask for their erasure
    Providers,      \* identity providers
    Workers,        \* runs of the erasure command
    Tokens,         \* lease tokens
    Lease,          \* PROVIDER_LEASE_SECONDS
    CallTime,       \* SSO_PROVIDER_REVOKE_TIMEOUT_MS
    MaxFailures,    \* bound on crashes, errors and refusals
    None

ASSUME LeaseAssumption ==
    /\ CallTime \in Nat \ {0}
    /\ Lease \in Nat
    /\ Lease > 2 * CallTime
ASSUME NoneAssumption == None \notin Requests \cup Providers \cup Workers \cup Tokens
ASSUME FailuresAssumption == MaxFailures \in Nat

VARIABLES
    request,    \* SsoAccountErasureRequest rows
    worker,     \* runs of the command
    calls,      \* statements on their way to the database
    remote,     \* what the providers and the adapter did, for the properties
    failures
cleanupVars == <<request, worker, calls, remote, failures>>

Statuses == {"PENDING", "FAILED", "COMPLETED"}
Row == [appStatus : {"DELETION_PENDING", "DELETED"},
        providerCleanup : [Providers -> Statuses \cup {None}],
        leaseToken : Tokens \cup {None},
        left : 0..Lease,
        activeProvider : Providers \cup {None}]
Claim == [request : Requests, leaseToken : Tokens, provider : Providers]
Stages == {"IDLE", "CLAIM", "NEXT", "BEGIN", "CALL", "RECORD", "ERASE"}
Run == [stage : Stages, todo : SUBSET Claim, claim : Claim \cup {None},
        ready : SUBSET Requests, left : 0..Lease, wait : 0..CallTime,
        reply : {"NONE", "YES", "NO"}, sent : BOOLEAN]
Call == [for : Workers \cup {None}, kind : {"CLAIM", "BEGIN"} \cup Statuses \cup {"UNAVAILABLE"},
         claim : Claim \cup {None}]

ASSUME RowsAssumption == None \notin Row /\ None \notin Claim /\ None \notin Statuses

Lower(a, b) == IF a < b THEN a ELSE b
Idle == [stage |-> "IDLE", todo |-> {}, claim |-> None, ready |-> {}, left |-> 0,
         wait |-> 0, reply |-> "NONE", sent |-> FALSE]

Listed(r) == {p \in Providers : request[r].providerCleanup[p] # None}
\* Mutant: a provider that failed is not waited for.
ReadyAnswered(r) == /\ request[r] # None
                    /\ Listed(r) # {}
                    /\ \A p \in Listed(r) : request[r].providerCleanup[p] # "PENDING"

\* ALL_PROVIDERS_COMPLETED
Ready(r) == /\ request[r] # None
            /\ Listed(r) # {}
            /\ \A p \in Listed(r) : request[r].providerCleanup[p] = "COMPLETED"

CleanupInit ==
    /\ request = [r \in Requests |-> None]
    /\ worker = [w \in Workers |-> Idle]
    /\ calls = {}
    /\ remote = [r \in Requests |-> [p \in Providers |-> [sent |-> 0, settled |-> FALSE]]]
    /\ failures = 0

-----------------------------------------------------------------------------
(* The request; the trigger lists the providers. *)
NewRequest(ps) ==
    [appStatus |-> "DELETION_PENDING", leaseToken |-> None, left |-> 0, activeProvider |-> None,
     providerCleanup |-> [p \in Providers |-> IF p \in ps THEN "PENDING" ELSE None]]

Request(r, ps) ==
    /\ request[r] = None
    /\ request' = [request EXCEPT ![r] = NewRequest(ps)]
    /\ UNCHANGED <<worker, calls, remote, failures>>

-----------------------------------------------------------------------------
(* A run of the command: runSsoProviderRevokeBatch. *)

Send(w, kind, claim) == calls' = calls \cup {[for |-> w, kind |-> kind, claim |-> claim]}
Failing == /\ failures < MaxFailures
           /\ failures' = failures + 1

\* The deadline counts from before the claim, less one tick for rounding.
Start(w) ==
    /\ worker[w].stage = "IDLE"
    /\ worker' = [worker EXCEPT ![w] = [Idle EXCEPT !.stage = "CLAIM", !.left = Lease - 1,
                                                    !.wait = Lower(Lease - 1, CallTime)]]
    /\ Send(w, "CLAIM", None)
    /\ UNCHANGED <<request, remote, failures>>

\* What a run that got an answer in time does with it is the action of that stage.
Answered(w, stage) == /\ worker[w].stage = stage
                      /\ worker[w].reply # "NONE"
                      /\ worker[w].wait > 0

Claimed(w) ==
    /\ Answered(w, "CLAIM")
    /\ worker' = [worker EXCEPT ![w].stage = "NEXT", ![w].reply = "NONE", ![w].wait = 0]
    /\ UNCHANGED <<request, calls, remote, failures>>

\* Mutant: the time to record the outcome is forgotten.
InTimeForCall(w) == worker[w].left >= CallTime

\* callDeadline: a call and its record still fit into the lease.
InTime(w) == worker[w].left >= 2 * CallTime
Bounded(run) == Lower(run.left, CallTime)

Defer(w) ==
    /\ worker[w].stage = "NEXT"
    /\ ~InTime(w)
    /\ worker[w].todo # {}
    /\ \E c \in worker[w].todo : worker' = [worker EXCEPT ![w].todo = @ \ {c}]
    /\ UNCHANGED <<request, calls, remote, failures>>

Begin(w) ==
    /\ worker[w].stage = "NEXT"
    /\ InTime(w)
    /\ \E c \in worker[w].todo :
          /\ worker' = [worker EXCEPT ![w].stage = "BEGIN", ![w].todo = @ \ {c},
                                      ![w].claim = c, ![w].wait = Bounded(worker[w])]
          /\ Send(w, "BEGIN", c)
    /\ UNCHANGED <<request, remote, failures>>

\* On to the next provider.
Leave(w) == worker' = [worker EXCEPT ![w].stage = "NEXT", ![w].claim = None,
                                     ![w].wait = 0, ![w].reply = "NONE", ![w].sent = FALSE]

\* The outcome is known: it is recorded, if any time is left.
Conclude(w, status) ==
    /\ worker' = [worker EXCEPT ![w].stage = "RECORD", ![w].reply = "NONE",
                                ![w].wait = Bounded(worker[w])]
    /\ Send(w, status, worker[w].claim)

Begun(w) ==
    /\ Answered(w, "BEGIN")
    /\ \/ /\ worker[w].reply = "NO"
          /\ Leave(w)
          /\ UNCHANGED calls
       \/ /\ worker[w].reply = "YES"
          /\ ~InTime(w)
          /\ Conclude(w, "UNAVAILABLE")
       \/ /\ worker[w].reply = "YES"
          /\ InTime(w)
          /\ worker' = [worker EXCEPT ![w].stage = "CALL", ![w].reply = "NONE",
                                      ![w].wait = Bounded(worker[w])]
          /\ UNCHANGED calls
    /\ UNCHANGED <<request, remote, failures>>

\* The adapter sends the revocation; an aborted adapter does not.
Dispatch(w) ==
    /\ worker[w].stage = "CALL"
    /\ worker[w].wait > 0
    /\ ~worker[w].sent
    /\ worker' = [worker EXCEPT ![w].sent = TRUE]
    /\ LET c == worker[w].claim
       IN  remote' = [remote EXCEPT ![c.request][c.provider].sent = @ + 1]
    /\ UNCHANGED <<request, calls, failures>>

\* REVOKED after a call, NOT_HELD without one.
Settle(w) ==
    /\ worker[w].stage = "CALL"
    /\ worker[w].wait > 0
    /\ Conclude(w, "COMPLETED")
    /\ LET c == worker[w].claim
       IN  remote' = [remote EXCEPT ![c.request][c.provider].settled = TRUE]
    /\ UNCHANGED <<request, failures>>

\* FAILED after a call, UNAVAILABLE without one.
Refuse(w) ==
    /\ worker[w].stage = "CALL"
    /\ worker[w].wait > 0
    /\ Conclude(w, IF worker[w].sent THEN "FAILED" ELSE "UNAVAILABLE")
    /\ Failing
    /\ UNCHANGED <<request, remote>>

Recorded(w) ==
    /\ Answered(w, "RECORD")
    /\ Leave(w)
    /\ UNCHANGED <<request, calls, remote, failures>>

-----------------------------------------------------------------------------
(* Timeouts, errors and crashes. The statement of a run that no longer waits
   is carried out later or never. *)

Own(w) == {c \in calls : c.for = w}
Abandon(w) == \/ calls' = calls \ Own(w)
              \/ calls' = (calls \ Own(w)) \cup {[c EXCEPT !.for = None] : c \in Own(w)}

Expired(w) == worker[w].wait = 0 /\ UNCHANGED failures

\* A claim that fails ends the command.
ClaimFails(w) ==
    /\ worker[w].stage = "CLAIM"
    /\ Expired(w) \/ Failing
    /\ Abandon(w)
    /\ worker' = [worker EXCEPT ![w] = Idle]
    /\ UNCHANGED <<request, remote>>

\* Begin, revoke or record: unknown, never recorded late.
CallFails(w) ==
    /\ worker[w].stage \in {"BEGIN", "CALL", "RECORD"}
    /\ Expired(w) \/ Failing
    /\ Abandon(w)
    /\ Leave(w)
    /\ UNCHANGED <<request, remote>>

Crash(w) ==
    /\ worker[w].stage # "IDLE"
    /\ Failing
    /\ Abandon(w)
    /\ worker' = [worker EXCEPT ![w] = Idle]
    /\ UNCHANGED <<request, remote>>

-----------------------------------------------------------------------------
(* The erasure batch of a run: the list, then one transaction per request. *)

List(w) ==
    /\ worker[w].stage = "NEXT"
    /\ worker[w].todo = {}
    /\ worker' = [worker EXCEPT ![w].stage = "ERASE",
                                ![w].ready = {r \in Requests : /\ Ready(r)
                                                               /\ request[r].appStatus # "DELETED"}]
    /\ UNCHANGED <<request, calls, remote, failures>>

Completable(r) == Ready(r) /\ request[r].appStatus = "DELETION_PENDING"

\* completeSsoAccountErasure; another run may have been first.
Complete(w, r) ==
    /\ worker[w].stage = "ERASE"
    /\ r \in worker[w].ready
    /\ worker' = [worker EXCEPT ![w].ready = @ \ {r}]
    /\ request' = IF Completable(r) THEN [request EXCEPT ![r].appStatus = "DELETED"] ELSE request
    /\ UNCHANGED <<calls, remote, failures>>

Finish(w) ==
    /\ worker[w].stage = "ERASE"
    /\ worker[w].ready = {}
    /\ worker' = [worker EXCEPT ![w] = Idle]
    /\ UNCHANGED <<request, calls, remote, failures>>

-----------------------------------------------------------------------------
(* The database carries out a statement; its run, if it still waits, hears. *)

Reply(c, ok) ==
    IF c.for = None THEN worker
    ELSE [worker EXCEPT ![c.for].reply = IF ok THEN "YES" ELSE "NO"]

\* Mutant: a request is claimed once.
ClaimableOnce(r) ==
    /\ request[r] # None
    /\ request[r].appStatus = "DELETION_PENDING"
    /\ ~Ready(r)
    /\ request[r].activeProvider = None
    /\ request[r].leaseToken = None

Claimable(r) ==
    /\ request[r] # None
    /\ request[r].appStatus = "DELETION_PENDING"
    /\ ~Ready(r)
    /\ request[r].activeProvider = None
    /\ request[r].left = 0

\* A token is a new UUID: nothing in use has it.
InUse(t) == \/ \E r \in Requests : request[r] # None /\ request[r].leaseToken = t
            \/ \E w \in Workers : \/ \E c \in worker[w].todo : c.leaseToken = t
                                  \/ worker[w].claim # None /\ worker[w].claim.leaseToken = t
            \/ \E c \in calls : c.claim # None /\ c.claim.leaseToken = t

ClaimsOf(R, token) ==
    {d \in Claim : /\ d.request \in R
                   /\ d.leaseToken = token[d.request]
                   /\ d.provider \in Listed(d.request)
                   /\ request[d.request].providerCleanup[d.provider] # "COMPLETED"}

\* The rows R get a lease each. FOR UPDATE SKIP LOCKED: rows others have locked are left out.
Granted(c, R, token, left) ==
    /\ R = {} => ~\E r \in Requests : Claimable(r)
    /\ \A r \in R : ~InUse(token[r])
    /\ \A r, s \in R : token[r] = token[s] => r = s
    /\ request' = [r \in Requests |->
          IF r \in R THEN [request[r] EXCEPT !.leaseToken = token[r], !.left = left]
          ELSE request[r]]
    /\ worker' = IF c.for = None THEN worker
                 ELSE [worker EXCEPT ![c.for].reply = "YES", ![c.for].todo = ClaimsOf(R, token)]

ServeClaim(c) ==
    /\ c \in calls
    /\ c.kind = "CLAIM"
    /\ \E R \in SUBSET {r \in Requests : Claimable(r)}, token \in [Requests -> Tokens],
          left \in (Lease - 1)..Lease : Granted(c, R, token, left)
    /\ calls' = calls \ {c}
    /\ UNCHANGED <<remote, failures>>

LeaseHeld(claim) == LET row == request[claim.request] IN
    /\ row # None
    /\ row.appStatus = "DELETION_PENDING"
    /\ row.leaseToken = claim.leaseToken
    /\ row.left > 0

Beginnable(claim) == LET row == request[claim.request] IN
    /\ LeaseHeld(claim)
    /\ row.activeProvider = None
    /\ row.providerCleanup[claim.provider] \notin {None, "COMPLETED"}

\* beginProviderCleanup
ServeBegin(c) ==
    /\ c \in calls
    /\ c.kind = "BEGIN"
    /\ request' = IF Beginnable(c.claim)
                  THEN [request EXCEPT ![c.claim.request].activeProvider = c.claim.provider]
                  ELSE request
    /\ worker' = Reply(c, Beginnable(c.claim))
    /\ calls' = calls \ {c}
    /\ UNCHANGED <<remote, failures>>

Recordable(claim) == /\ LeaseHeld(claim)
                     /\ request[claim.request].activeProvider = claim.provider

\* Mutant: every outcome clears the marker.
RecordedRowCleared(row, provider, status) ==
    [row EXCEPT !.providerCleanup[provider] = IF status = "UNAVAILABLE" THEN @ ELSE status,
                !.activeProvider = None]

RecordedRow(row, provider, status) ==
    [row EXCEPT !.providerCleanup[provider] = IF status = "UNAVAILABLE" THEN @ ELSE status,
                !.activeProvider = IF status \in {"COMPLETED", "UNAVAILABLE"} THEN None ELSE @]

\* recordProviderCleanup
ServeRecord(c) ==
    /\ c \in calls
    /\ c.kind \notin {"CLAIM", "BEGIN"}
    /\ request' = IF Recordable(c.claim)
                  THEN [request EXCEPT ![c.claim.request] = RecordedRow(@, c.claim.provider, c.kind)]
                  ELSE request
    /\ worker' = Reply(c, Recordable(c.claim))
    /\ calls' = calls \ {c}
    /\ UNCHANGED <<remote, failures>>

-----------------------------------------------------------------------------
\* Mutant: time runs on past the end of a lease.
LessOn(n) == n - 1

Less(n) == IF n = 0 THEN 0 ELSE n - 1

Tick ==
    /\ \/ \E r \in Requests : request[r] # None /\ request[r].left > 0
       \/ \E w \in Workers : worker[w].left > 0
    /\ request' = [r \in Requests |-> IF request[r] = None THEN None
                                      ELSE [request[r] EXCEPT !.left = Less(@)]]
    /\ worker' = [w \in Workers |-> [worker[w] EXCEPT !.left = Less(@), !.wait = Less(@)]]
    /\ UNCHANGED <<calls, remote, failures>>

RunStep(w) ==
    \/ Start(w) \/ Claimed(w) \/ Defer(w) \/ Begin(w) \/ Begun(w) \/ Dispatch(w) \/ Settle(w)
    \/ Refuse(w) \/ Recorded(w) \/ ClaimFails(w) \/ CallFails(w) \/ Crash(w) \/ List(w) \/ Finish(w)
Serve == \E c \in calls : ServeClaim(c) \/ ServeBegin(c) \/ ServeRecord(c)

CleanupNext ==
    \/ \E r \in Requests, ps \in (SUBSET Providers) \ {{}} : Request(r, ps)
    \/ \E w \in Workers : RunStep(w) \/ \E r \in Requests : Complete(w, r)
    \/ Serve
    \/ Tick

CleanupSpec == CleanupInit /\ [][CleanupNext]_cleanupVars

-----------------------------------------------------------------------------
(* Properties. *)

\* Every table has the shape of its rows, and a run waits for at most what is left of its lease.
CleanupTypeOK ==
    /\ request \in [Requests -> {None} \cup Row]
    /\ worker \in [Workers -> Run]
    /\ \A w \in Workers : worker[w].wait <= worker[w].left
    /\ calls \subseteq Call
    /\ remote \in [Requests -> [Providers -> [sent : Nat, settled : BOOLEAN]]]
    /\ failures \in 0..MaxFailures

\* No provider gets a second revocation for a request, although answers are lost, runs
\* crash, leases run out and statements take effect late: the marker stays while it is
\* unknown what became of the first (ssoProviderRevoke.ts, batch and adapter).
RevokedAtMostOnce == \A r \in Requests, p \in Providers : remote[r][p].sent <= 1

\* A user is erased only after each of the listed providers was revoked, or was found to
\* hold nothing (completeSsoAccountErasure relies on the recorded statuses).
ErasedAfterCleanup ==
    \A r \in Requests :
        (request[r] # None /\ request[r].appStatus = "DELETED")
            => \A p \in Listed(r) : remote[r][p].settled

\* While a run still waits for a call or for the record of its outcome, the database
\* would accept that record, and after the longest call there is still the time of another
\* (leaseDeadline, LEASE_RESERVE_MS): an outcome that came in time is never lost to the
\* lease.
LeaseCoversCall ==
    \A w \in Workers :
        /\ (worker[w].stage = "CALL" /\ worker[w].wait > 0)
              => /\ Recordable(worker[w].claim)
                 /\ request[worker[w].claim.request].left >= worker[w].wait + CallTime
        /\ (worker[w].stage = "RECORD" /\ worker[w].wait > 0 /\ worker[w].reply # "YES")
              => Recordable(worker[w].claim) /\ worker[w].reply = "NONE"

Pending(r) == request[r] # None /\ request[r].appStatus = "DELETION_PENDING"
\* The outcome of a call is unknown, or was a failure: an operator has to look into it.
InDoubt(r) == Pending(r) /\ request[r].activeProvider # None
Erased(r) == request[r] # None /\ request[r].appStatus = "DELETED"

\* A request ends with the erasure or with a marker that says where it is stuck: crashes,
\* expired leases and refused calls never leave one that no later run takes up.
ErasedOrInDoubt == \A r \in Requests : Pending(r) ~> ([]Erased(r) \/ []InDoubt(r))

\* The command is started every hour, long after the leases of the run before have ended;
\* the database carries out what it got. Delays in the midst of a run, by which it misses a
\* deadline, and runs that overlap do not go on forever.
Resting == \A w \in Workers : worker[w].stage = "IDLE"
CleanupFairness ==
    /\ WF_cleanupVars(Serve)
    /\ SF_cleanupVars(Tick /\ Resting)
    /\ \A w \in Workers : WF_cleanupVars(RunStep(w) \/ \E r \in Requests : Complete(w, r))
    /\ <>[][(Tick \/ \E w \in Workers : Start(w)) => Resting]_cleanupVars
CleanupFairSpec == CleanupSpec /\ CleanupFairness
=============================================================================
