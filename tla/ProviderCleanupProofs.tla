----------------------- MODULE ProviderCleanupProofs -----------------------
(* Proofs about ProviderCleanup: no provider gets a second revocation, nobody *)
(* is erased before the providers are done, and the lease covers each call.   *)
EXTENDS ProviderCleanup, TLAPS

(***************************************************************************)
(* The inductive invariant.                                                *)
(***************************************************************************)

\* The claims a run holds.
Claims(w) == worker[w].todo \cup ({worker[w].claim} \ {None})

\* A run has a current claim from the marker to the record, and an answer only while it
\* is at a statement.
Orderly(w) ==
    /\ worker[w].claim # None <=> worker[w].stage \in {"BEGIN", "CALL", "RECORD"}
    /\ worker[w].stage = "IDLE" => worker[w].todo = {}
    /\ worker[w].claim \notin worker[w].todo
    /\ worker[w].stage \in {"IDLE", "NEXT", "CALL", "ERASE"} => worker[w].reply = "NONE"
    /\ worker[w].stage \in {"IDLE", "CLAIM", "NEXT", "BEGIN"} => ~worker[w].sent

\* No two runs hold the same claim.
ClaimsOwned ==
    /\ \A w \in Workers : Orderly(w)
    /\ \A w, v \in Workers : w # v => Claims(w) \cap Claims(v) = {}

\* A statement whose run still waits for it is the one that run has sent.
Waiting(k) == LET run == worker[k.for] IN
    /\ run.reply = "NONE"
    /\ run.stage = IF k.kind \in {"CLAIM", "BEGIN"} THEN k.kind ELSE "RECORD"
    /\ run.claim = k.claim
    /\ k.kind = "CLAIM" => run.todo = {}

\* Each claim has one statement on its way at most; one that was given up belongs to no run.
CallsOwned ==
    \A k \in calls :
        /\ k.claim = None <=> k.kind = "CLAIM"
        /\ k.for # None => Waiting(k)
        /\ k.for = None => \A w \in Workers : k.claim \notin Claims(w)
        /\ \A l \in calls : (k.claim = l.claim /\ k.claim # None) => k = l

\* The row still has the marker this claim has set.
Marked(c) == LET row == request[c.request] IN
    /\ row # None
    /\ row.appStatus = "DELETION_PENDING"
    /\ row.leaseToken = c.leaseToken
    /\ row.activeProvider = c.provider
    /\ row.providerCleanup[c.provider] \notin {None, "COMPLETED"}

\* From the answer to the marker until the outcome is in the database.
InFlight(w) == \/ worker[w].stage = "CALL"
               \/ worker[w].stage = "BEGIN" /\ worker[w].reply = "YES"
               \/ worker[w].stage = "RECORD" /\ worker[w].reply = "NONE"
Outcomes == {k \in calls : k.kind \notin {"CLAIM", "BEGIN"}}
Markers ==
    /\ \A w \in Workers : InFlight(w) => Marked(worker[w].claim)
    /\ \A k \in Outcomes : Marked(k.claim)

\* A provider that got a revocation is marked or completed for ever; who may still send
\* one, or say that none was sent, has not.
Unsent(c) == remote[c.request][c.provider].sent = 0
SentOnce ==
    /\ \A r \in Requests, p \in Providers : remote[r][p].sent # 0 =>
          /\ remote[r][p].sent = 1
          /\ request[r] # None
          /\ request[r].activeProvider = p \/ request[r].providerCleanup[p] = "COMPLETED"
    /\ \A w \in Workers :
          (worker[w].stage \in {"BEGIN", "CALL"} /\ InFlight(w) /\ ~worker[w].sent)
              => Unsent(worker[w].claim)
    /\ \A k \in calls : k.kind = "UNAVAILABLE" => Unsent(k.claim)

\* A completion is recorded only of what was settled, and erasing waits for all of them.
SettledFirst ==
    /\ \A r \in Requests : request[r] # None =>
          /\ \A p \in Providers :
                request[r].providerCleanup[p] = "COMPLETED" => remote[r][p].settled
          /\ request[r].appStatus = "DELETED" => Ready(r)
    /\ \A k \in calls : k.kind = "COMPLETED" => remote[k.claim.request][k.claim.provider].settled

\* The deadline of a run is before the end of each lease it holds, and a call is started
\* only with the time of a record to spare.
InLease ==
    \A w \in Workers :
        /\ worker[w].left < Lease
        /\ \A c \in Claims(w) :
              (request[c.request] # None /\ request[c.request].leaseToken = c.leaseToken)
                  => request[c.request].left >= worker[w].left
        /\ (worker[w].stage = "CALL" /\ worker[w].wait > 0)
              => worker[w].left >= worker[w].wait + CallTime
        /\ (worker[w].stage = "RECORD" /\ worker[w].reply = "NO") => worker[w].wait = 0

Kept == CleanupTypeOK /\ ClaimsOwned /\ CallsOwned /\ Markers /\ SentOnce /\ SettledFirst /\ InLease

(***************************************************************************)
(* Types.                                                                  *)
(***************************************************************************)

\* Times stay in their bounds.
LEMMA TimesBounded ==
    /\ 0 \in 0..Lease /\ 0 \in 0..CallTime
    /\ Lease - 1 \in 0..Lease
    /\ Lower(Lease - 1, CallTime) \in 0..CallTime /\ Lower(Lease - 1, CallTime) <= Lease - 1
    /\ \A n \in 0..Lease : /\ Lower(n, CallTime) \in 0..CallTime
                           /\ Lower(n, CallTime) <= n
                           /\ Less(n) \in 0..Lease
    /\ \A n \in 0..CallTime : Less(n) \in 0..CallTime
    /\ \A n \in 0..CallTime, m \in 0..Lease : n <= m => Less(n) <= Less(m)
  BY LeaseAssumption DEF Lower, Less

\* What is noted of a provider.
LEMMA RemoteTypes ==
    ASSUME NEW m \in [Requests -> [Providers -> [sent : Nat, settled : BOOLEAN]]],
           NEW r, NEW p
    PROVE  /\ [m EXCEPT ![r][p].sent = @ + 1]
                \in [Requests -> [Providers -> [sent : Nat, settled : BOOLEAN]]]
           /\ [m EXCEPT ![r][p].settled = TRUE]
                \in [Requests -> [Providers -> [sent : Nat, settled : BOOLEAN]]]
<1> DEFINE D == [sent : Nat, settled : BOOLEAN]
<1>1. ASSUME NEW d \in D
      PROVE  [d EXCEPT !.sent = @ + 1] \in D /\ [d EXCEPT !.settled = TRUE] \in D
  <2>1. [d EXCEPT !.sent = @ + 1] \in D
    OBVIOUS
  <2>2. [d EXCEPT !.settled = TRUE] \in D
    OBVIOUS
  <2> QED BY <2>1, <2>2
<1>2. \A f \in [Providers -> D] : /\ [f EXCEPT ![p].sent = @ + 1] \in [Providers -> D]
                                  /\ [f EXCEPT ![p].settled = TRUE] \in [Providers -> D]
  BY <1>1
<1> QED
  BY <1>2

\* What a run does keeps the shapes.
LEMMA RunTypes ==
    ASSUME CleanupTypeOK, NEW w \in Workers, RunStep(w)
    PROVE  CleanupTypeOK'
<1> USE DEF CleanupTypeOK, Failing, Send
<1>0. /\ worker[w] \in Run
      /\ worker[w].wait <= worker[w].left
      /\ Idle \in Run
      /\ \A v \in Workers : worker[v].wait \in 0..CallTime /\ worker[v].left \in 0..Lease
  BY TimesBounded DEF Run, Stages, Idle
<1>1. ASSUME Start(w) PROVE CleanupTypeOK'
  <2>1. calls' \subseteq Call
    BY <1>1 DEF Start, Call
  <2> QED BY <1>0, <1>1, <2>1, TimesBounded DEF Start, Run, Stages, Idle
<1>2. ASSUME Claimed(w) PROVE CleanupTypeOK'
  BY <1>0, <1>2, TimesBounded DEF Claimed, Answered, Run, Stages
<1>3. ASSUME Defer(w) PROVE CleanupTypeOK'
  <2>1. PICK c : worker' = [worker EXCEPT ![w].todo = @ \ {c}]
    BY <1>3 DEF Defer
  <2>2. worker[w].todo \ {c} \in SUBSET Claim
    BY <1>0 DEF Run
  <2> QED BY <1>0, <1>3, <2>1, <2>2 DEF Defer, Run
<1>4. ASSUME Begin(w) PROVE CleanupTypeOK'
  <2>1. PICK c \in worker[w].todo :
          /\ worker' = [worker EXCEPT ![w].stage = "BEGIN", ![w].todo = @ \ {c},
                                      ![w].claim = c, ![w].wait = Bounded(worker[w])]
          /\ calls' = calls \cup {[for |-> w, kind |-> "BEGIN", claim |-> c]}
    BY <1>4 DEF Begin
  <2>2. c \in Claim
    BY <1>0, <2>1 DEF Run
  <2>3. calls' \subseteq Call
    BY <2>1, <2>2 DEF Call
  <2> QED BY <1>0, <1>4, <2>1, <2>2, <2>3, TimesBounded DEF Begin, Bounded, Run, Stages
<1>5. ASSUME NEW status \in {"COMPLETED", "FAILED", "UNAVAILABLE"}, Conclude(w, status)
      PROVE  /\ calls' \subseteq Call
             /\ worker' \in [Workers -> Run]
             /\ \A v \in Workers : worker'[v].wait <= worker'[v].left
  <2>1. worker[w].claim \in Claim \cup {None}
    BY <1>0 DEF Run
  <2>2. calls' \subseteq Call
    BY <1>5, <2>1 DEF Conclude, Call, Statuses
  <2> QED BY <1>0, <1>5, <2>2, TimesBounded DEF Conclude, Bounded, Run, Stages
<1>6. ASSUME Leave(w)
      PROVE  /\ worker' \in [Workers -> Run]
             /\ \A v \in Workers : worker'[v].wait <= worker'[v].left
  <2> DEFINE run == [worker[w] EXCEPT !.stage = "NEXT", !.claim = None, !.wait = 0,
                                      !.reply = "NONE", !.sent = FALSE]
  <2>1. worker' = [worker EXCEPT ![w] = run]
    BY <1>6 DEF Leave
  <2>2. run \in Run
    BY <1>0, TimesBounded DEF Run, Stages
  <2>3. run.wait <= run.left
    BY <1>0, LeaseAssumption DEF Run
  <2> QED BY <1>0, <2>1, <2>2, <2>3
<1>7. ASSUME Begun(w) PROVE CleanupTypeOK'
  <2>1. CASE Leave(w) /\ UNCHANGED calls
    BY <1>6, <1>7, <2>1 DEF Begun
  <2>2. CASE Conclude(w, "UNAVAILABLE")
    BY <1>5, <1>7, <2>2 DEF Begun
  <2>3. CASE /\ worker' = [worker EXCEPT ![w].stage = "CALL", ![w].reply = "NONE",
                                      ![w].wait = Bounded(worker[w])]
             /\ UNCHANGED calls
    BY <1>0, <1>7, <2>3, TimesBounded DEF Begun, Bounded, Run, Stages
  <2> QED BY <1>7, <2>1, <2>2, <2>3 DEF Begun
<1>8. ASSUME Dispatch(w) PROVE CleanupTypeOK'
  <2>1. remote' \in [Requests -> [Providers -> [sent : Nat, settled : BOOLEAN]]]
    <3> DEFINE c == worker[w].claim
    <3>1. remote' = [remote EXCEPT ![c.request][c.provider].sent = @ + 1]
      BY <1>8 DEF Dispatch
    <3> QED BY <3>1, RemoteTypes
  <2> QED BY <1>0, <1>8, <2>1 DEF Dispatch, Run
<1>9. ASSUME Settle(w) PROVE CleanupTypeOK'
  <2>1. remote' \in [Requests -> [Providers -> [sent : Nat, settled : BOOLEAN]]]
    <3> DEFINE c == worker[w].claim
    <3>1. remote' = [remote EXCEPT ![c.request][c.provider].settled = TRUE]
      BY <1>9 DEF Settle
    <3> QED BY <3>1, RemoteTypes
  <2> QED BY <1>5, <1>9, <2>1 DEF Settle
<1>10. ASSUME Refuse(w) PROVE CleanupTypeOK'
  <2>1. failures' \in 0..MaxFailures
    BY <1>10, FailuresAssumption DEF Refuse
  <2> QED BY <1>5, <1>10, <2>1 DEF Refuse
<1>11. ASSUME Recorded(w) PROVE CleanupTypeOK'
  BY <1>6, <1>11 DEF Recorded
<1>12. ASSUME Expired(w) \/ Failing PROVE failures' \in 0..MaxFailures
  BY <1>12, FailuresAssumption DEF Expired
<1>13. ASSUME Abandon(w) PROVE calls' \subseteq Call
  BY <1>13 DEF Abandon, Own, Call
<1>14. ASSUME ClaimFails(w) PROVE CleanupTypeOK'
  BY <1>0, <1>12, <1>13, <1>14 DEF ClaimFails, Idle
<1>15. ASSUME CallFails(w) PROVE CleanupTypeOK'
  BY <1>6, <1>12, <1>13, <1>15 DEF CallFails
<1>16. ASSUME Crash(w) PROVE CleanupTypeOK'
  BY <1>0, <1>12, <1>13, <1>16 DEF Crash, Idle
<1>17. ASSUME List(w) PROVE CleanupTypeOK'
  BY <1>0, <1>17 DEF List, Run, Stages
<1>18. ASSUME Finish(w) PROVE CleanupTypeOK'
  BY <1>0, <1>18 DEF Finish, Idle
<1> QED
  BY <1>1, <1>2, <1>3, <1>4, <1>7, <1>8, <1>9, <1>10, <1>11, <1>14, <1>15, <1>16, <1>17, <1>18
     DEF RunStep

\* A statement of the erasure command other than a claim names one.
LEMMA CallClaims ==
    ASSUME CleanupTypeOK, CallsOwned, NEW c \in calls
    PROVE  /\ c \in Call
           /\ c.kind # "CLAIM" => c.claim \in Claim
           /\ c.kind = "CLAIM" => c.claim = None
           /\ c.for # None => c.for \in Workers
  BY DEF CleanupTypeOK, CallsOwned, Call

\* The answer to a statement keeps the shapes.
LEMMA ReplyTypes ==
    ASSUME CleanupTypeOK, NEW c \in Call, NEW ok \in BOOLEAN, worker' = Reply(c, ok)
    PROVE  /\ worker' \in [Workers -> Run]
           /\ \A w \in Workers : worker'[w].wait <= worker'[w].left
<1>1. CASE c.for = None
  BY <1>1 DEF Reply, CleanupTypeOK
<1>2. CASE c.for # None
  <2>1. c.for \in Workers
    BY <1>2 DEF Call
  <2> DEFINE v == IF ok THEN "YES" ELSE "NO"
  <2>2. worker' = [worker EXCEPT ![c.for].reply = v]
    BY <1>2 DEF Reply
  <2> DEFINE run == [worker[c.for] EXCEPT !.reply = v]
  <2>3. v \in {"NONE", "YES", "NO"}
    OBVIOUS
  <2> HIDE DEF v
  <2>4. run \in Run /\ run.wait = worker[c.for].wait /\ run.left = worker[c.for].left
    BY <2>1, <2>3 DEF CleanupTypeOK, Run
  <2>5. worker' = [worker EXCEPT ![c.for] = run]
    BY <2>2
  <2> HIDE DEF run
  <2> QED BY <2>1, <2>4, <2>5 DEF CleanupTypeOK
<1> QED
  BY <1>1, <1>2

\* An outcome keeps the shape of a row.
LEMMA RecordedTypes ==
    ASSUME NEW row \in Row, NEW p \in Providers, NEW status \in Statuses \cup {"UNAVAILABLE"}
    PROVE  RecordedRow(row, p, status) \in Row
  BY DEF RecordedRow, Row, Statuses

\* What the database carries out keeps the shapes.
LEMMA ServeTypes ==
    ASSUME CleanupTypeOK, CallsOwned, NEW c \in calls
    PROVE  /\ ServeClaim(c) => CleanupTypeOK'
           /\ ServeBegin(c) => CleanupTypeOK'
           /\ ServeRecord(c) => CleanupTypeOK'
<1>0. /\ c \in Call
      /\ c.kind # "CLAIM" => c.claim \in Claim
      /\ c.for # None => c.for \in Workers
  BY CallClaims
<1>1. ASSUME ServeClaim(c) PROVE CleanupTypeOK'
  <2>1. PICK R \in SUBSET {r \in Requests : Claimable(r)}, token \in [Requests -> Tokens],
             left \in (Lease - 1)..Lease : Granted(c, R, token, left)
    BY <1>1 DEF ServeClaim
  <2>2. left \in 0..Lease
    BY LeaseAssumption
  <2>3. request' \in [Requests -> {None} \cup Row]
    <3>1. ASSUME NEW r \in R
          PROVE  [request[r] EXCEPT !.leaseToken = token[r], !.left = left] \in Row
      <4>1. request[r] \in Row /\ token[r] \in Tokens
        BY DEF CleanupTypeOK, Claimable
      <4> QED BY <2>2, <4>1 DEF Row
    <3> QED BY <2>1, <3>1 DEF CleanupTypeOK, Granted
  <2>4. /\ worker' \in [Workers -> Run]
        /\ \A w \in Workers : worker'[w].wait <= worker'[w].left
    <3>1. ClaimsOf(R, token) \in SUBSET Claim
      BY DEF ClaimsOf
    <3>2. CASE c.for = None
      BY <2>1, <3>2 DEF Granted, CleanupTypeOK
    <3>3. CASE c.for # None
      <4> DEFINE run == [worker[c.for] EXCEPT !.reply = "YES", !.todo = ClaimsOf(R, token)]
      <4>1. run \in Run /\ run.wait = worker[c.for].wait /\ run.left = worker[c.for].left
        BY <1>0, <3>1, <3>3 DEF CleanupTypeOK, Run
      <4>2. worker' = [worker EXCEPT ![c.for] = run]
        BY <2>1, <3>3 DEF Granted
      <4> HIDE DEF run
      <4> QED BY <1>0, <3>3, <4>1, <4>2 DEF CleanupTypeOK
    <3> QED BY <3>2, <3>3
  <2> QED BY <1>1, <2>3, <2>4 DEF CleanupTypeOK, ServeClaim
<1>2. ASSUME ServeBegin(c) PROVE CleanupTypeOK'
  <2>1. request' \in [Requests -> {None} \cup Row]
    <3>1. CASE Beginnable(c.claim)
      <4>1. c.claim \in Claim
        BY <1>0, <1>2 DEF ServeBegin
      <4>2. request' = [request EXCEPT ![c.claim.request].activeProvider = c.claim.provider]
        BY <1>2, <3>1 DEF ServeBegin
      <4>3. c.claim.request \in Requests /\ c.claim.provider \in Providers
        BY <4>1 DEF Claim
      <4>4. request[c.claim.request] \in Row
        BY <3>1, <4>3 DEF Beginnable, LeaseHeld, CleanupTypeOK
      <4> QED BY <4>2, <4>3, <4>4 DEF CleanupTypeOK, Row
    <3>2. CASE ~Beginnable(c.claim)
      BY <1>2, <3>2 DEF ServeBegin, CleanupTypeOK
    <3> QED BY <3>1, <3>2
  <2>2. /\ worker' \in [Workers -> Run]
        /\ \A w \in Workers : worker'[w].wait <= worker'[w].left
    <3>1. PICK ok \in BOOLEAN : worker' = Reply(c, ok)
      BY <1>2 DEF ServeBegin, Reply
    <3> QED BY <1>0, <3>1, ReplyTypes
  <2> QED BY <1>2, <2>1, <2>2 DEF CleanupTypeOK, ServeBegin
<1>3. ASSUME ServeRecord(c) PROVE CleanupTypeOK'
  <2>0. c.claim \in Claim /\ c.kind \in Statuses \cup {"UNAVAILABLE"}
    BY <1>0, <1>3 DEF ServeRecord, Call
  <2>1. \A row \in Row : RecordedRow(row, c.claim.provider, c.kind) \in Row
    BY <2>0, RecordedTypes DEF Claim
  <2>2. request' \in [Requests -> {None} \cup Row]
    BY <1>3, <2>0, <2>1 DEF CleanupTypeOK, ServeRecord, Recordable, LeaseHeld, Claim
  <2>3. /\ worker' \in [Workers -> Run]
        /\ \A w \in Workers : worker'[w].wait <= worker'[w].left
    <3>1. PICK ok \in BOOLEAN : worker' = Reply(c, ok)
      BY <1>3 DEF ServeRecord, Reply
    <3> QED BY <1>0, <3>1, ReplyTypes
  <2> QED BY <1>3, <2>2, <2>3 DEF CleanupTypeOK, ServeRecord
<1> QED
  BY <1>1, <1>2, <1>3

\* Requests, erasures and time keep the shapes.
LEMMA OtherTypes ==
    ASSUME CleanupTypeOK
    PROVE  /\ \A r \in Requests, ps \in (SUBSET Providers) \ {{}} : Request(r, ps) => CleanupTypeOK'
           /\ \A w \in Workers, r \in Requests : Complete(w, r) => CleanupTypeOK'
           /\ Tick => CleanupTypeOK'
<1>1. ASSUME NEW r \in Requests, NEW ps \in (SUBSET Providers) \ {{}}, Request(r, ps)
      PROVE  CleanupTypeOK'
  <2>1. NewRequest(ps) \in Row
    BY TimesBounded DEF NewRequest, Row, Statuses
  <2> QED BY <1>1, <2>1 DEF Request, CleanupTypeOK
<1>2. ASSUME NEW w \in Workers, NEW r \in Requests, Complete(w, r)
      PROVE  CleanupTypeOK'
  <2>1. request' \in [Requests -> {None} \cup Row]
    <3>1. CASE Completable(r)
      <4>1. request[r] \in Row
        BY <3>1 DEF Completable, Ready, CleanupTypeOK
      <4>2. request' = [request EXCEPT ![r].appStatus = "DELETED"]
        BY <1>2, <3>1 DEF Complete
      <4> QED BY <4>1, <4>2 DEF CleanupTypeOK, Row
    <3>2. CASE ~Completable(r)
      BY <1>2, <3>2 DEF Complete, CleanupTypeOK
    <3> QED BY <3>1, <3>2
  <2>2. worker' \in [Workers -> Run] /\ \A v \in Workers : worker'[v].wait <= worker'[v].left
    BY <1>2 DEF Complete, CleanupTypeOK, Run
  <2> QED BY <1>2, <2>1, <2>2 DEF Complete, CleanupTypeOK
<1>3. ASSUME Tick PROVE CleanupTypeOK'
  <2>1. request' \in [Requests -> {None} \cup Row]
    BY <1>3, TimesBounded DEF Tick, CleanupTypeOK, Row
  <2>2. worker' \in [Workers -> Run] /\ \A v \in Workers : worker'[v].wait <= worker'[v].left
    BY <1>3, TimesBounded DEF Tick, CleanupTypeOK, Run
  <2> QED BY <1>3, <2>1, <2>2 DEF Tick, CleanupTypeOK
<1> QED
  BY <1>1, <1>2, <1>3

(***************************************************************************)
(* What several actions share.                                             *)
(***************************************************************************)

\* A statement that is given up loses its run, nothing else.
LEMMA AbandonedCalls ==
    ASSUME CleanupTypeOK, NEW w \in Workers, Abandon(w), NEW k \in calls'
    PROVE  \/ k \in calls /\ k.for # w
           \/ /\ k.for = None
              /\ \E j \in calls : j.for = w /\ j.kind = k.kind /\ j.claim = k.claim
  BY DEF Abandon, Own, CleanupTypeOK, Call

\* A run that is sending or waiting has a claim.
LEMMA CurrentClaim ==
    ASSUME CleanupTypeOK, ClaimsOwned, NEW w \in Workers,
           worker[w].stage \in {"BEGIN", "CALL", "RECORD"}
    PROVE  /\ worker[w].claim \in Claim
           /\ worker[w].claim.request \in Requests
           /\ worker[w].claim.provider \in Providers
  BY DEF CleanupTypeOK, ClaimsOwned, Orderly, Run, Claim

\* The statuses of a request, and whether it was erased, are what they were.
StatusKept(r) ==
    /\ request[r] # None
    /\ request'[r].providerCleanup = request[r].providerCleanup
    /\ request'[r].appStatus = request[r].appStatus

(***************************************************************************)
(* Erased after the clean-up.                                              *)
(***************************************************************************)

\* A step keeps the order if rows keep their statuses and nothing new is completed.
LEMMA NothingSettled ==
    ASSUME SettledFirst, CleanupTypeOK, CallsOwned,
           \A r \in Requests : request'[r] # None => StatusKept(r),
           \A r \in Requests, p \in Providers : remote[r][p].settled => remote'[r][p].settled,
           \A k \in calls' : k.kind = "COMPLETED" =>
               \E j \in calls : j.kind = "COMPLETED" /\ j.claim = k.claim
    PROVE  SettledFirst'
<1>1. ASSUME NEW r \in Requests, request'[r] # None
      PROVE  /\ \A p \in Providers :
                    request'[r].providerCleanup[p] = "COMPLETED" => remote'[r][p].settled
             /\ request'[r].appStatus = "DELETED" => Ready(r)'
  BY <1>1 DEF SettledFirst, StatusKept, Ready, Listed
<1>2. ASSUME NEW k \in calls', k.kind = "COMPLETED"
      PROVE  remote'[k.claim.request][k.claim.provider].settled
  <2>1. PICK j \in calls : j.kind = "COMPLETED" /\ j.claim = k.claim
    BY <1>2
  <2>2. j.claim.request \in Requests /\ j.claim.provider \in Providers
    BY <2>1, CallClaims DEF Claim
  <2> QED BY <2>1, <2>2 DEF SettledFirst
<1> QED
  BY <1>1, <1>2 DEF SettledFirst

\* What a run does.
LEMMA RunSettles ==
    ASSUME Kept, NEW w \in Workers, RunStep(w)
    PROVE  SettledFirst'
<1>0. CleanupTypeOK /\ ClaimsOwned /\ CallsOwned /\ SettledFirst
  BY DEF Kept
<1>1. ASSUME UNCHANGED <<request, remote>>,
             \A k \in calls' : k.kind = "COMPLETED" =>
                 \E j \in calls : j.kind = "COMPLETED" /\ j.claim = k.claim
      PROVE  SettledFirst'
  BY <1>0, <1>1, NothingSettled DEF StatusKept
<1>2. ASSUME Abandon(w)
      PROVE  \A k \in calls' : k.kind = "COMPLETED" =>
                 \E j \in calls : j.kind = "COMPLETED" /\ j.claim = k.claim
  BY <1>0, <1>2, AbandonedCalls
<1>3. CASE Start(w)
  BY <1>1, <1>3 DEF Start, Send
<1>4. CASE Claimed(w) \/ Defer(w) \/ Recorded(w) \/ List(w) \/ Finish(w)
  BY <1>1, <1>4 DEF Claimed, Defer, Recorded, List, Finish
<1>5. CASE Begin(w)
  BY <1>1, <1>5 DEF Begin, Send
<1>6. CASE Begun(w)
  BY <1>1, <1>6 DEF Begun, Conclude, Send
<1>7. CASE Refuse(w)
  BY <1>1, <1>7 DEF Refuse, Conclude, Send
<1>8. CASE ClaimFails(w) \/ CallFails(w) \/ Crash(w)
  BY <1>1, <1>2, <1>8 DEF ClaimFails, CallFails, Crash
<1>9. CASE Dispatch(w)
  <2>1. \A r \in Requests, p \in Providers : remote'[r][p].settled = remote[r][p].settled
    BY <1>0, <1>9 DEF Dispatch, CleanupTypeOK
  <2> QED BY <1>0, <1>9, <2>1, NothingSettled DEF Dispatch, StatusKept
<1>10. CASE Settle(w)
  <2> DEFINE c == worker[w].claim
  <2>1. c.request \in Requests /\ c.provider \in Providers
    BY <1>0, <1>10, CurrentClaim DEF Settle
  <2>2. /\ \A r \in Requests, p \in Providers : remote[r][p].settled => remote'[r][p].settled
        /\ remote'[c.request][c.provider].settled
    BY <1>0, <1>10, <2>1 DEF Settle, CleanupTypeOK
  <2>3. calls' = calls \cup {[for |-> w, kind |-> "COMPLETED", claim |-> c]}
    BY <1>10 DEF Settle, Conclude, Send
  <2>4. ASSUME NEW k \in calls', k.kind = "COMPLETED"
        PROVE  remote'[k.claim.request][k.claim.provider].settled
    <3>1. CASE k \in calls
      <4>1. k.claim.request \in Requests /\ k.claim.provider \in Providers
        BY <1>0, <2>4, <3>1, CallClaims DEF Claim
      <4> QED BY <1>0, <2>2, <2>4, <3>1, <4>1 DEF SettledFirst
    <3>2. CASE k.claim = c
      BY <2>2, <3>2
    <3> QED BY <2>3, <3>1, <3>2
  <2>5. ASSUME NEW r \in Requests, request'[r] # None
        PROVE  /\ \A p \in Providers :
                      request'[r].providerCleanup[p] = "COMPLETED" => remote'[r][p].settled
               /\ request'[r].appStatus = "DELETED" => Ready(r)'
    BY <1>0, <1>10, <2>2, <2>5 DEF Settle, SettledFirst, Ready, Listed
  <2> QED BY <2>4, <2>5 DEF SettledFirst
<1> QED
  BY <1>3, <1>4, <1>5, <1>6, <1>7, <1>8, <1>9, <1>10 DEF RunStep

\* What the database carries out: a completion is recorded after it was settled.
LEMMA ServeSettles ==
    ASSUME Kept, NEW c \in calls, ServeClaim(c) \/ ServeBegin(c) \/ ServeRecord(c)
    PROVE  SettledFirst'
<1>0. CleanupTypeOK /\ ClaimsOwned /\ CallsOwned /\ SettledFirst
  BY DEF Kept
<1>1. CASE ServeClaim(c)
  <2>1. PICK R \in SUBSET {r \in Requests : Claimable(r)}, token \in [Requests -> Tokens],
             left \in (Lease - 1)..Lease : Granted(c, R, token, left)
    BY <1>1 DEF ServeClaim
  <2>2. \A r \in R : request[r] # None /\ request[r] \in Row
    BY <1>0 DEF Claimable, CleanupTypeOK
  <2>3. \A r \in Requests : request'[r] # None => StatusKept(r)
    BY <2>1, <2>2 DEF Granted, StatusKept, Row
  <2> QED BY <1>0, <1>1, <2>3, NothingSettled DEF ServeClaim
<1>2. CASE ServeBegin(c)
  <2>1. \A r \in Requests : request'[r] # None => StatusKept(r)
    BY <1>0, <1>2 DEF ServeBegin, StatusKept, Beginnable, LeaseHeld, CleanupTypeOK, Row
  <2> QED BY <1>0, <1>2, <2>1, NothingSettled DEF ServeBegin
<1>3. CASE ServeRecord(c)
  <2>1. CASE ~Recordable(c.claim)
    BY <1>0, <1>3, <2>1, NothingSettled DEF ServeRecord, StatusKept
  <2>2. CASE Recordable(c.claim)
    <3> DEFINE q == c.claim.request
               row == RecordedRow(request[q], c.claim.provider, c.kind)
    <3>1. /\ q \in Requests
          /\ c.claim.provider \in Providers
          /\ request[q] \in Row
          /\ request[q] # None
          /\ request[q].appStatus = "DELETION_PENDING"
      BY <1>0, <1>3, <2>2, CallClaims
         DEF ServeRecord, Recordable, LeaseHeld, Claim, CleanupTypeOK
    <3>2. request' = [request EXCEPT ![q] = row]
      BY <1>3, <2>2 DEF ServeRecord
    <3>3. /\ row.appStatus = "DELETION_PENDING"
          /\ \A p \in Providers : row.providerCleanup[p] = "COMPLETED" =>
                \/ request[q].providerCleanup[p] = "COMPLETED"
                \/ p = c.claim.provider /\ c.kind = "COMPLETED"
      BY <3>1 DEF RecordedRow, Row
    <3>4. \A p \in Providers : row.providerCleanup[p] = "COMPLETED" => remote[q][p].settled
      BY <1>0, <3>1, <3>3 DEF SettledFirst
    <3>5. /\ request'[q] = row
          /\ \A r \in Requests \ {q} : request'[r] = request[r]
          /\ remote' = remote
          /\ calls' \subseteq calls
      BY <1>0, <1>3, <3>1, <3>2 DEF ServeRecord, CleanupTypeOK
    <3>6. ASSUME NEW r \in Requests, request'[r] # None
          PROVE  /\ \A p \in Providers :
                        request'[r].providerCleanup[p] = "COMPLETED" => remote'[r][p].settled
                 /\ request'[r].appStatus = "DELETED" => Ready(r)'
      <4> HIDE DEF row
      <4>1. CASE r = q
        BY <3>3, <3>4, <3>5, <4>1
      <4>2. CASE r # q
        BY <1>0, <3>5, <3>6, <4>2 DEF SettledFirst, Ready, Listed
      <4> QED BY <4>1, <4>2
    <3>7. \A k \in calls' : k.kind = "COMPLETED" =>
              remote'[k.claim.request][k.claim.provider].settled
      BY <1>0, <3>5 DEF SettledFirst
    <3> QED BY <3>6, <3>7 DEF SettledFirst
  <2> QED BY <2>1, <2>2
<1> QED
  BY <1>1, <1>2, <1>3

\* Requests, erasures and time.
LEMMA OthersSettle ==
    ASSUME Kept
    PROVE  /\ \A r \in Requests, ps \in (SUBSET Providers) \ {{}} : Request(r, ps) => SettledFirst'
           /\ \A w \in Workers, r \in Requests : Complete(w, r) => SettledFirst'
           /\ Tick => SettledFirst'
<1>0. CleanupTypeOK /\ ClaimsOwned /\ CallsOwned /\ SettledFirst
  BY DEF Kept
<1>1. ASSUME NEW q \in Requests, NEW ps \in (SUBSET Providers) \ {{}}, Request(q, ps)
      PROVE  SettledFirst'
  <2>1. /\ request'[q] = NewRequest(ps)
        /\ \A r \in Requests \ {q} : request'[r] = request[r]
        /\ remote' = remote /\ calls' = calls
    BY <1>0, <1>1 DEF Request, CleanupTypeOK
  <2>2. /\ NewRequest(ps).appStatus = "DELETION_PENDING"
        /\ \A p \in Providers : NewRequest(ps).providerCleanup[p] # "COMPLETED"
    BY RowsAssumption DEF NewRequest, Statuses
  <2>3. ASSUME NEW r \in Requests, request'[r] # None
        PROVE  /\ \A p \in Providers :
                      request'[r].providerCleanup[p] = "COMPLETED" => remote'[r][p].settled
               /\ request'[r].appStatus = "DELETED" => Ready(r)'
    <3>1. CASE r = q
      BY <2>1, <2>2, <3>1
    <3>2. CASE r # q
      BY <1>0, <2>1, <2>3, <3>2 DEF SettledFirst, Ready, Listed
    <3> QED BY <3>1, <3>2
  <2> QED BY <1>0, <2>1, <2>3 DEF SettledFirst
<1>2. ASSUME NEW w \in Workers, NEW q \in Requests, Complete(w, q)
      PROVE  SettledFirst'
  <2>1. CASE ~Completable(q)
    BY <1>0, <1>2, <2>1, NothingSettled DEF Complete, StatusKept
  <2>2. CASE Completable(q)
    <3>1. /\ request'[q].providerCleanup = request[q].providerCleanup
          /\ request'[q] # None /\ request[q] # None
          /\ \A r \in Requests \ {q} : request'[r] = request[r]
          /\ remote' = remote /\ calls' = calls
      <4>1. request[q] \in Row
        BY <1>0, <2>2 DEF Completable, Ready, CleanupTypeOK
      <4>2. request' = [request EXCEPT ![q].appStatus = "DELETED"]
        BY <1>2, <2>2 DEF Complete
      <4>3. /\ request'[q] \in Row
            /\ request'[q].providerCleanup = request[q].providerCleanup
            /\ \A r \in Requests \ {q} : request'[r] = request[r]
        BY <1>0, <4>1, <4>2 DEF CleanupTypeOK, Row
      <4> QED BY <1>2, <4>1, <4>3, RowsAssumption DEF Complete
    <3>2. ASSUME NEW r \in Requests, request'[r] # None
          PROVE  /\ \A p \in Providers :
                        request'[r].providerCleanup[p] = "COMPLETED" => remote'[r][p].settled
                 /\ request'[r].appStatus = "DELETED" => Ready(r)'
      <4>1. CASE r = q
        BY <1>0, <2>2, <3>1, <4>1 DEF Completable, SettledFirst, Ready, Listed
      <4>2. CASE r # q
        BY <1>0, <3>1, <3>2, <4>2 DEF SettledFirst, Ready, Listed
      <4> QED BY <4>1, <4>2
    <3> QED BY <1>0, <3>1, <3>2 DEF SettledFirst
  <2> QED BY <2>1, <2>2
<1>3. ASSUME Tick PROVE SettledFirst'
  <2>1. \A r \in Requests : request'[r] # None => StatusKept(r)
    BY <1>0, <1>3 DEF Tick, StatusKept, CleanupTypeOK, Row
  <2> QED BY <1>0, <1>3, <2>1, NothingSettled DEF Tick
<1> QED
  BY <1>1, <1>2, <1>3

(***************************************************************************)
(* Who holds a claim, and whose statement is on its way.                   *)
(***************************************************************************)

\* A run does not touch other runs, and by itself it only drops claims.
LEMMA RunClaims ==
    ASSUME CleanupTypeOK, ClaimsOwned, NEW w \in Workers, RunStep(w)
    PROVE  /\ \A v \in Workers \ {w} : worker'[v] = worker[v]
           /\ Claims(w)' \subseteq Claims(w)
           /\ Orderly(w)'
<1>0. /\ worker[w] \in Run
      /\ Orderly(w)
      /\ worker \in [Workers -> Run]
  BY DEF CleanupTypeOK, ClaimsOwned
<1> USE DEF Claims, Orderly
<1>1. CASE Start(w) \/ ClaimFails(w) \/ Crash(w) \/ Finish(w)
  <2>1. CASE worker' = [worker EXCEPT ![w] = Idle]
    BY <1>0, <2>1 DEF Idle
  <2>2. CASE Start(w)
    <3> DEFINE run == [Idle EXCEPT !.stage = "CLAIM", !.left = Lease - 1,
                                   !.wait = Lower(Lease - 1, CallTime)]
    <3>1. worker' = [worker EXCEPT ![w] = run]
      BY <2>2 DEF Start
    <3>2. run.claim = None /\ run.todo = {} /\ run.stage = "CLAIM" /\ ~run.sent
      BY DEF Idle
    <3> HIDE DEF run
    <3> QED BY <1>0, <3>1, <3>2
  <2> QED BY <1>1, <2>1, <2>2 DEF ClaimFails, Crash, Finish
<1>2. CASE Claimed(w)
  BY <1>0, <1>2 DEF Claimed, Answered, Run
<1>3. CASE Defer(w)
  <2>1. PICK c : worker' = [worker EXCEPT ![w].todo = @ \ {c}]
    BY <1>3 DEF Defer
  <2> QED BY <1>0, <1>3, <2>1 DEF Defer, Run
<1>4. CASE Begin(w)
  <2>1. PICK c \in worker[w].todo :
          worker' = [worker EXCEPT ![w].stage = "BEGIN", ![w].todo = @ \ {c},
                                   ![w].claim = c, ![w].wait = Bounded(worker[w])]
    BY <1>4 DEF Begin
  <2>2. c \in Claim /\ c # None
    BY <1>0, <2>1, RowsAssumption DEF Run
  <2> QED BY <1>0, <1>4, <2>1, <2>2 DEF Begin, Run
<1>5. ASSUME Leave(w), worker[w].stage # "IDLE"
      PROVE  /\ \A v \in Workers \ {w} : worker'[v] = worker[v]
             /\ Claims(w)' \subseteq Claims(w)
             /\ Orderly(w)'
  BY <1>0, <1>5, RowsAssumption DEF Leave, Run
<1>6. ASSUME NEW status, Conclude(w, status), worker[w].stage \in {"BEGIN", "CALL"}
      PROVE  /\ \A v \in Workers \ {w} : worker'[v] = worker[v]
             /\ Claims(w)' \subseteq Claims(w)
             /\ Orderly(w)'
  BY <1>0, <1>6 DEF Conclude, Run
<1>7. CASE Begun(w)
  <2>1. CASE Leave(w)
    BY <1>5, <1>7, <2>1 DEF Begun, Answered
  <2>2. CASE Conclude(w, "UNAVAILABLE")
    BY <1>6, <1>7, <2>2 DEF Begun, Answered
  <2>3. CASE worker' = [worker EXCEPT ![w].stage = "CALL", ![w].reply = "NONE",
                                      ![w].wait = Bounded(worker[w])]
    BY <1>0, <1>7, <2>3 DEF Begun, Answered, Run
  <2> QED BY <1>7, <2>1, <2>2, <2>3 DEF Begun
<1>8. CASE Dispatch(w)
  BY <1>0, <1>8 DEF Dispatch, Run
<1>9. CASE Settle(w) \/ Refuse(w)
  BY <1>6, <1>9 DEF Settle, Refuse
<1>10. CASE Recorded(w) \/ CallFails(w)
  BY <1>5, <1>10 DEF Recorded, Answered, CallFails
<1>11. CASE List(w)
  BY <1>0, <1>11 DEF List, Run
<1> QED
  BY <1>1, <1>2, <1>3, <1>4, <1>7, <1>8, <1>9, <1>10, <1>11 DEF RunStep

\* So ownership stays.
LEMMA RunOwnsClaims ==
    ASSUME CleanupTypeOK, ClaimsOwned, NEW w \in Workers, RunStep(w)
    PROVE  ClaimsOwned'
<1>1. /\ \A v \in Workers \ {w} : worker'[v] = worker[v]
      /\ Claims(w)' \subseteq Claims(w)
      /\ Orderly(w)'
  BY RunClaims
<1>2. \A v \in Workers : Claims(v)' \subseteq Claims(v) /\ Orderly(v)'
  BY <1>1 DEF ClaimsOwned, Claims, Orderly
<1> QED
  BY <1>2 DEF ClaimsOwned

\* A run that has its answer, or is not at a statement, has none on its way.
LEMMA NoneOnTheWay ==
    ASSUME CleanupTypeOK, ClaimsOwned, CallsOwned, NEW w \in Workers,
           \/ worker[w].reply # "NONE"
           \/ worker[w].stage \in {"IDLE", "NEXT", "CALL", "ERASE"}
    PROVE  \A k \in calls : k.for # w
  BY NoneAssumption DEF ClaimsOwned, Orderly, CallsOwned, Waiting, CleanupTypeOK, Call

\* A run waits for one statement at a time.
LEMMA OneAtATime ==
    ASSUME CleanupTypeOK, CallsOwned, NEW k \in calls, NEW l \in calls,
           k.for = l.for, k.for # None
    PROVE  k = l
<1>1. k.claim = l.claim
  BY DEF CallsOwned, Waiting
<1>2. CASE k.claim # None
  BY <1>1, <1>2 DEF CallsOwned
<1>3. CASE k.claim = None
  <2>1. k.kind = l.kind
    BY <1>1, <1>3 DEF CallsOwned
  <2> QED BY <1>1, <2>1 DEF CleanupTypeOK, Call
<1> QED
  BY <1>2, <1>3

\* The claim of a statement on its way is held by the run that waits for it, or by none.
LEMMA CallsClaim ==
    ASSUME CleanupTypeOK, ClaimsOwned, CallsOwned, NEW k \in calls, NEW w \in Workers,
           k.claim \in Claims(w)
    PROVE  k.for = w /\ k.claim = worker[w].claim
<1>1. k.claim # None
  BY RowsAssumption DEF Claims, CleanupTypeOK, Run
<1>2. k.for \in Workers
  BY CallClaims DEF CallsOwned
<1>3. k.claim = worker[k.for].claim
  BY <1>2, NoneAssumption DEF CallsOwned, Waiting
<1>4. k.claim \in Claims(k.for)
  BY <1>1, <1>3 DEF Claims
<1> QED
  BY <1>2, <1>3, <1>4 DEF ClaimsOwned

\* A step of a run that sends nothing: its statement, if there was one, has been answered.
LEMMA RunSendsNothing ==
    ASSUME CleanupTypeOK, ClaimsOwned, CallsOwned, NEW w \in Workers, RunStep(w),
           UNCHANGED calls, \A k \in calls : k.for # w
    PROVE  CallsOwned'
<1>1. /\ \A v \in Workers \ {w} : worker'[v] = worker[v]
      /\ \A v \in Workers : Claims(v)' \subseteq Claims(v)
  BY RunClaims DEF Claims
<1>2. ASSUME NEW k \in calls
      PROVE  /\ k.for # None => Waiting(k)'
             /\ k.for = None => \A v \in Workers : k.claim \notin Claims(v)'
  <2>1. k.for # None => worker'[k.for] = worker[k.for]
    BY <1>1, CallClaims
  <2> QED BY <1>1, <2>1 DEF CallsOwned, Waiting
<1> QED
  BY <1>2 DEF CallsOwned

\* A step of a run that sends a statement: it had none on its way, and the claim is its own.
LEMMA RunSendsOne ==
    ASSUME CleanupTypeOK, ClaimsOwned, CallsOwned, NEW w \in Workers, RunStep(w),
           NEW kind, NEW claim, calls' = calls \cup {[for |-> w, kind |-> kind, claim |-> claim]},
           claim = None <=> kind = "CLAIM",
           claim # None => claim \in Claims(w),
           Waiting([for |-> w, kind |-> kind, claim |-> claim])',
           \A k \in calls : k.for # w
    PROVE  CallsOwned'
<1> DEFINE n == [for |-> w, kind |-> kind, claim |-> claim]
<1>1. /\ \A v \in Workers \ {w} : worker'[v] = worker[v]
      /\ \A v \in Workers : Claims(v)' \subseteq Claims(v)
  BY RunClaims DEF Claims
<1>2. ASSUME NEW k \in calls
      PROVE  /\ k.for # None => Waiting(k)'
             /\ k.for = None => \A v \in Workers : k.claim \notin Claims(v)'
  <2>1. k.for # None => worker'[k.for] = worker[k.for]
    BY <1>1, CallClaims
  <2> QED BY <1>1, <2>1 DEF CallsOwned, Waiting
<1>3. n.for = w /\ n.kind = kind /\ n.claim = claim /\ w # None
  BY NoneAssumption
<1>4. \A k \in calls : k.claim # None => k.claim # claim
  BY CallsClaim
<1>5. calls' = calls \cup {n} /\ Waiting(n)'
  OBVIOUS
<1> HIDE DEF n
<1> QED
  BY <1>2, <1>3, <1>4, <1>5 DEF CallsOwned

\* A step of a run that gives up.
LEMMA RunGivesUp ==
    ASSUME CleanupTypeOK, ClaimsOwned, CallsOwned, NEW w \in Workers, RunStep(w),
           Abandon(w), worker'[w].claim = None, worker'[w].todo \subseteq worker[w].todo
    PROVE  CallsOwned'
<1>1. /\ \A v \in Workers \ {w} : worker'[v] = worker[v]
      /\ \A v \in Workers : Claims(v)' \subseteq Claims(v)
      /\ \A v \in Workers : None \notin Claims(v)
  BY RunClaims, RowsAssumption DEF Claims, CleanupTypeOK, Run
<1>2. \A k \in calls' : \E j \in calls :
          \/ k = j /\ j.for # w
          \/ k = [j EXCEPT !.for = None] /\ j.for = w
  BY <1>1 DEF Abandon, Own
<1>3. ASSUME NEW k \in calls', NEW j \in calls, k = [j EXCEPT !.for = None], j.for = w
      PROVE  /\ k.for = None /\ k.kind = j.kind /\ k.claim = j.claim
             /\ \A v \in Workers : k.claim \notin Claims(v)'
  <2>1. k.for = None /\ k.kind = j.kind /\ k.claim = j.claim
    BY <1>3 DEF CleanupTypeOK, Call
  <2>2. j.claim = worker[w].claim
    BY <1>3, NoneAssumption DEF CallsOwned, Waiting
  <2>3. j.claim \notin Claims(w)'
    BY <1>1, <1>3, <2>2 DEF Claims, ClaimsOwned, Orderly
  <2>4. ASSUME NEW v \in Workers, v # w PROVE j.claim \notin Claims(v)
    BY <1>1, <1>3, <2>4, CallsClaim
  <2> QED BY <1>1, <2>1, <2>3, <2>4
<1>4. ASSUME NEW k \in calls, k.for # w
      PROVE  /\ k.for # None => Waiting(k)'
             /\ k.for = None => \A v \in Workers : k.claim \notin Claims(v)'
  <2>1. k.for # None => worker'[k.for] = worker[k.for]
    BY <1>1, <1>4, CallClaims
  <2> QED BY <1>1, <2>1 DEF CallsOwned, Waiting
<1>5. ASSUME NEW k \in calls'
      PROVE  /\ k.claim = None <=> k.kind = "CLAIM"
             /\ k.for # None => Waiting(k)'
             /\ k.for = None => \A v \in Workers : k.claim \notin Claims(v)'
  BY <1>2, <1>3, <1>4 DEF CallsOwned
<1>6. ASSUME NEW k \in calls', NEW l \in calls', k.claim = l.claim, k.claim # None
      PROVE  k = l
  BY <1>2, <1>3, <1>6 DEF CallsOwned
<1> QED
  BY <1>5, <1>6 DEF CallsOwned

\* What a run does with its statements.
LEMMA RunOwnsCalls ==
    ASSUME CleanupTypeOK, ClaimsOwned, CallsOwned, NEW w \in Workers, RunStep(w)
    PROVE  CallsOwned'
<1>0. /\ worker \in [Workers -> Run]
      /\ worker[w] \in Run
      /\ Orderly(w)
  BY DEF CleanupTypeOK, ClaimsOwned
<1>1. CASE Start(w)
  <2>1. worker'[w] = [Idle EXCEPT !.stage = "CLAIM", !.left = Lease - 1,
                                  !.wait = Lower(Lease - 1, CallTime)]
    BY <1>0, <1>1 DEF Start
  <2>2. /\ worker'[w].reply = "NONE" /\ worker'[w].stage = "CLAIM"
        /\ worker'[w].claim = None /\ worker'[w].todo = {}
    BY <2>1 DEF Idle
  <2>3. Waiting([for |-> w, kind |-> "CLAIM", claim |-> None])'
    BY <2>2 DEF Waiting
  <2>4. \A k \in calls : k.for # w
    BY <1>1, NoneOnTheWay DEF Start
  <2> QED BY <1>1, <2>3, <2>4, RunSendsOne DEF Start, Send
<1>2. CASE Claimed(w) \/ Recorded(w)
  <2>1. \A k \in calls : k.for # w
    BY <1>2, NoneOnTheWay DEF Claimed, Recorded, Answered
  <2> QED BY <1>2, <2>1, RunSendsNothing DEF Claimed, Recorded
<1>3. CASE Defer(w) \/ List(w) \/ Finish(w) \/ Dispatch(w)
  <2>1. \A k \in calls : k.for # w
    BY <1>3, NoneOnTheWay DEF Defer, List, Finish, Dispatch
  <2> QED BY <1>3, <2>1, RunSendsNothing DEF Defer, List, Finish, Dispatch
<1>4. CASE Begin(w)
  <2>1. PICK c \in worker[w].todo :
          /\ worker' = [worker EXCEPT ![w].stage = "BEGIN", ![w].todo = @ \ {c},
                                      ![w].claim = c, ![w].wait = Bounded(worker[w])]
          /\ calls' = calls \cup {[for |-> w, kind |-> "BEGIN", claim |-> c]}
    BY <1>4 DEF Begin, Send
  <2>2. c # None /\ c \in Claims(w)
    BY <1>0, <2>1, RowsAssumption DEF Run, Claims
  <2>3. worker'[w].reply = "NONE" /\ worker'[w].stage = "BEGIN" /\ worker'[w].claim = c
    BY <1>0, <1>4, <2>1 DEF Begin, Run, Orderly
  <2>4. Waiting([for |-> w, kind |-> "BEGIN", claim |-> c])'
    BY <2>3 DEF Waiting
  <2>5. \A k \in calls : k.for # w
    BY <1>4, NoneOnTheWay DEF Begin
  <2> QED BY <2>1, <2>2, <2>4, <2>5, RunSendsOne
<1>5. ASSUME NEW status \in {"COMPLETED", "FAILED", "UNAVAILABLE"}, Conclude(w, status),
             worker[w].stage \in {"BEGIN", "CALL"}, \A k \in calls : k.for # w
      PROVE  CallsOwned'
  <2>1. PICK c : c = worker[w].claim
    OBVIOUS
  <2>2. c # None /\ c \in Claims(w)
    BY <1>0, <1>5, <2>1 DEF Orderly, Claims
  <2>3. worker'[w].reply = "NONE" /\ worker'[w].stage = "RECORD" /\ worker'[w].claim = c
    BY <1>0, <1>5, <2>1 DEF Conclude, Run
  <2>4. Waiting([for |-> w, kind |-> status, claim |-> c])'
    BY <2>3 DEF Waiting
  <2>5. calls' = calls \cup {[for |-> w, kind |-> status, claim |-> c]}
    BY <1>5, <2>1 DEF Conclude, Send
  <2> QED BY <1>5, <2>2, <2>4, <2>5, RunSendsOne
<1>6. CASE Begun(w)
  <2>1. \A k \in calls : k.for # w
    BY <1>6, NoneOnTheWay DEF Begun, Answered
  <2>2. CASE UNCHANGED calls
    BY <2>1, <2>2, RunSendsNothing
  <2>3. CASE Conclude(w, "UNAVAILABLE")
    BY <1>5, <1>6, <2>1, <2>3 DEF Begun, Answered
  <2> QED BY <1>6, <2>2, <2>3 DEF Begun
<1>7. CASE Settle(w) \/ Refuse(w)
  <2>1. \A k \in calls : k.for # w
    BY <1>7, NoneOnTheWay DEF Settle, Refuse
  <2> QED BY <1>5, <1>7, <2>1 DEF Settle, Refuse
<1>8. CASE ClaimFails(w) \/ Crash(w)
  <2>1. worker'[w].claim = None /\ worker'[w].todo = {}
    BY <1>0, <1>8 DEF ClaimFails, Crash, Idle
  <2> QED BY <1>8, <2>1, RunGivesUp DEF ClaimFails, Crash
<1>9. CASE CallFails(w)
  <2>1. worker'[w].claim = None /\ worker'[w].todo = worker[w].todo
    BY <1>0, <1>9 DEF CallFails, Leave, Run
  <2> QED BY <1>9, <2>1, RunGivesUp DEF CallFails
<1> QED
  BY <1>1, <1>2, <1>3, <1>4, <1>6, <1>7, <1>8, <1>9 DEF RunStep

\* The answer to a statement changes nothing else of a run.
LEMMA ReplyChanges ==
    ASSUME CleanupTypeOK, NEW c \in Call, NEW ok \in BOOLEAN, worker' = Reply(c, ok),
           NEW v \in Workers
    PROVE  /\ worker'[v].stage = worker[v].stage
           /\ worker'[v].todo = worker[v].todo
           /\ worker'[v].claim = worker[v].claim
           /\ worker'[v].ready = worker[v].ready
           /\ worker'[v].left = worker[v].left
           /\ worker'[v].wait = worker[v].wait
           /\ (worker'[v].sent <=> worker[v].sent)
           /\ worker'[v].reply = IF v = c.for THEN IF ok THEN "YES" ELSE "NO"
                                ELSE worker[v].reply
<1>1. CASE c.for = None
  BY <1>1, NoneAssumption DEF Reply
<1>2. CASE c.for # None
  <2>1. worker' = [worker EXCEPT ![c.for].reply = IF ok THEN "YES" ELSE "NO"]
    BY <1>2 DEF Reply
  <2>2. CASE v # c.for
    BY <2>1, <2>2 DEF CleanupTypeOK
  <2>3. CASE v = c.for
    <3>1. worker'[v] = [worker[v] EXCEPT !.reply = IF ok THEN "YES" ELSE "NO"]
      BY <2>1, <2>3 DEF CleanupTypeOK
    <3> QED BY <2>3, <3>1 DEF CleanupTypeOK, Run
  <2> QED BY <2>2, <2>3
<1> QED
  BY <1>1, <1>2

\* An answered statement leaves; all others stay with their runs.
LEMMA AnswerOwns ==
    ASSUME CleanupTypeOK, ClaimsOwned, CallsOwned, NEW c \in calls, calls' = calls \ {c},
           \A v \in Workers : /\ Claims(v)' = Claims(v)
                              /\ Orderly(v)'
                              /\ v # c.for => worker'[v] = worker[v]
    PROVE  ClaimsOwned' /\ CallsOwned'
<1>1. ClaimsOwned'
  BY DEF ClaimsOwned
<1>2. ASSUME NEW k \in calls'
      PROVE  /\ k.for # None => Waiting(k)'
             /\ k.for = None => \A v \in Workers : k.claim \notin Claims(v)'
  <2>1. k \in calls /\ (k.for # None => k.for # c.for)
    BY <1>2, OneAtATime
  <2>2. k.for # None => worker'[k.for] = worker[k.for]
    BY <2>1, CallClaims
  <2> QED BY <2>1, <2>2 DEF CallsOwned, Waiting
<1> QED
  BY <1>1, <1>2 DEF CallsOwned

\* What the database carries out: the claims it grants have new tokens.
LEMMA ServeOwns ==
    ASSUME CleanupTypeOK, ClaimsOwned, CallsOwned, NEW c \in calls,
           ServeClaim(c) \/ ServeBegin(c) \/ ServeRecord(c)
    PROVE  ClaimsOwned' /\ CallsOwned'
<1>0. c \in Call /\ calls' = calls \ {c}
  BY CallClaims DEF ServeClaim, ServeBegin, ServeRecord
<1>1. ASSUME NEW ok \in BOOLEAN, worker' = Reply(c, ok), c.kind # "CLAIM"
      PROVE  ClaimsOwned' /\ CallsOwned'
  <2>1. ASSUME NEW v \in Workers
        PROVE  /\ Claims(v)' = Claims(v)
               /\ Orderly(v)'
               /\ v # c.for => worker'[v] = worker[v]
    <3>1. Claims(v)' = Claims(v)
      BY <1>0, <1>1, ReplyChanges DEF Claims
    <3>2. v # c.for => worker'[v] = worker[v]
      BY <1>1 DEF Reply, CleanupTypeOK
    <3>3. v = c.for => worker[v].stage \in {"BEGIN", "RECORD"}
      BY <1>0, <1>1, NoneAssumption DEF CallsOwned, Waiting
    <3>4. Orderly(v)'
      BY <1>0, <1>1, <3>2, <3>3, ReplyChanges DEF Orderly, ClaimsOwned
    <3> QED BY <3>1, <3>2, <3>4
  <2> QED BY <1>0, <2>1, AnswerOwns
<1>2. CASE ServeBegin(c)
  <2>1. PICK ok \in BOOLEAN : worker' = Reply(c, ok)
    BY <1>2 DEF ServeBegin, Reply
  <2> QED BY <1>1, <1>2, <2>1 DEF ServeBegin
<1>3. CASE ServeRecord(c)
  <2>1. PICK ok \in BOOLEAN : worker' = Reply(c, ok)
    BY <1>3 DEF ServeRecord, Reply
  <2> QED BY <1>1, <1>3, <2>1 DEF ServeRecord
<1>4. CASE ServeClaim(c)
  <2>1. PICK R \in SUBSET {r \in Requests : Claimable(r)}, token \in [Requests -> Tokens],
             left \in (Lease - 1)..Lease : Granted(c, R, token, left)
    BY <1>4 DEF ServeClaim
  <2>2. CASE c.for = None
    <3>1. worker' = worker
      BY <2>1, <2>2 DEF Granted
    <3> QED BY <1>0, <3>1, AnswerOwns DEF ClaimsOwned, Claims, Orderly
  <2>3. CASE c.for # None
    <3> DEFINE u == c.for
               T == ClaimsOf(R, token)
    <3>1. /\ u \in Workers
          /\ worker[u].stage = "CLAIM" /\ worker[u].claim = None /\ worker[u].todo = {}
          /\ ~worker[u].sent
      BY <1>0, <1>4, <2>3, CallClaims DEF CallsOwned, Waiting, ServeClaim, ClaimsOwned, Orderly
    <3>2. worker' = [worker EXCEPT ![u].reply = "YES", ![u].todo = T]
      BY <2>1, <2>3 DEF Granted
    <3>3. \A v \in Workers \ {u} : worker'[v] = worker[v]
      BY <3>2 DEF CleanupTypeOK
    <3> HIDE DEF T
    <3>4. /\ worker'[u].stage = "CLAIM" /\ worker'[u].claim = None
          /\ worker'[u].todo = T
          /\ ~worker'[u].sent
      BY <3>1, <3>2 DEF CleanupTypeOK, Run
    <3>5. \A d \in T : d \in Claim /\ ~InUse(d.leaseToken)
      <4>1. \A r \in R : ~InUse(token[r])
        BY <2>1 DEF Granted
      <4>2. \A d \in T : d \in Claim /\ d.request \in R /\ d.leaseToken = token[d.request]
        BY DEF T, ClaimsOf
      <4> QED BY <4>1, <4>2
    <3>6. \A d \in T : /\ \A v \in Workers : d \notin Claims(v)
                       /\ \A k \in calls : k.claim # d
      BY <3>5, RowsAssumption DEF InUse, Claims
    <3>7. ClaimsOwned'
      <4>1. Orderly(u)' /\ Claims(u)' = T
        BY <3>4, <3>5, RowsAssumption DEF Orderly, Claims
      <4>2. \A v \in Workers \ {u} : Orderly(v)' /\ Claims(v)' = Claims(v)
        BY <3>3 DEF ClaimsOwned, Orderly, Claims
      <4> QED BY <3>6, <4>1, <4>2 DEF ClaimsOwned
    <3>8. ASSUME NEW k \in calls'
          PROVE  /\ k.for # None => Waiting(k)'
                 /\ k.for = None => \A v \in Workers : k.claim \notin Claims(v)'
      <4>1. k \in calls /\ (k.for # None => k.for # c.for)
        BY <1>0, <3>8, OneAtATime
      <4>2. k.for # None => worker'[k.for] = worker[k.for]
        BY <3>3, <4>1, CallClaims
      <4>3. \A v \in Workers : Claims(v)' \subseteq Claims(v) \cup T
        BY <3>3, <3>4 DEF Claims
      <4> QED BY <3>6, <4>1, <4>2, <4>3 DEF CallsOwned, Waiting
    <3>9. CallsOwned'
      BY <1>0, <3>8 DEF CallsOwned
    <3> QED BY <3>7, <3>9
  <2> QED BY <2>2, <2>3
<1> QED
  BY <1>2, <1>3, <1>4

\* Requests, erasures and time leave claims and statements alone.
LEMMA OthersOwn ==
    ASSUME CleanupTypeOK, ClaimsOwned, CallsOwned
    PROVE  /\ \A r \in Requests, ps \in (SUBSET Providers) \ {{}} :
                  Request(r, ps) => ClaimsOwned' /\ CallsOwned'
           /\ \A w \in Workers, r \in Requests : Complete(w, r) => ClaimsOwned' /\ CallsOwned'
           /\ Tick => ClaimsOwned' /\ CallsOwned'
<1>1. ASSUME UNCHANGED calls,
             \A v \in Workers : /\ worker'[v].stage = worker[v].stage
                                /\ worker'[v].todo = worker[v].todo
                                /\ worker'[v].claim = worker[v].claim
                                /\ worker'[v].reply = worker[v].reply
                                /\ (worker'[v].sent <=> worker[v].sent)
      PROVE  ClaimsOwned' /\ CallsOwned'
  <2>1. \A v \in Workers : Claims(v)' = Claims(v) /\ Orderly(v)'
    BY <1>1 DEF ClaimsOwned, Orderly, Claims
  <2>2. \A k \in calls : k.for # None => Waiting(k)'
    BY <1>1, CallClaims DEF CallsOwned, Waiting
  <2> QED BY <1>1, <2>1, <2>2 DEF ClaimsOwned, CallsOwned
<1>2. ASSUME NEW r \in Requests, NEW ps \in (SUBSET Providers) \ {{}}, Request(r, ps)
      PROVE  ClaimsOwned' /\ CallsOwned'
  BY <1>1, <1>2 DEF Request
<1>3. ASSUME NEW w \in Workers, NEW r \in Requests, Complete(w, r)
      PROVE  ClaimsOwned' /\ CallsOwned'
  BY <1>1, <1>3 DEF Complete, CleanupTypeOK, Run
<1>4. ASSUME Tick PROVE ClaimsOwned' /\ CallsOwned'
  BY <1>1, <1>4 DEF Tick, CleanupTypeOK, Run
<1> QED
  BY <1>2, <1>3, <1>4

(***************************************************************************)
(* Markers.                                                                *)
(***************************************************************************)

\* A marked row has one claim that it is marked for.
LEMMA OneMarker ==
    ASSUME NEW c \in Claim, NEW d \in Claim, Marked(c), Marked(d), c.request = d.request
    PROVE  c = d
  BY DEF Marked, Claim

\* Rows of marked claims: any step that leaves them as they are keeps what runs and
\* statements rely on, if they are in flight with claims that were in flight before.
LEMMA MarkersStay ==
    ASSUME CleanupTypeOK, ClaimsOwned, CallsOwned, Markers,
           \A r \in Requests : request[r] # None /\ request[r].activeProvider # None =>
               /\ StatusKept(r)
               /\ request'[r] # None
               /\ request'[r].leaseToken = request[r].leaseToken
               /\ request'[r].activeProvider = request[r].activeProvider,
           \A v \in Workers : InFlight(v)' => InFlight(v) /\ worker'[v].claim = worker[v].claim,
           \A k \in Outcomes' :
               \/ \E j \in Outcomes : j.claim = k.claim
               \/ \E v \in Workers : InFlight(v) /\ worker[v].claim = k.claim
    PROVE  Markers'
<1>1. ASSUME NEW d \in Claim, Marked(d) PROVE Marked(d)'
  <2>1. d.request \in Requests /\ d.provider \in Providers
    BY DEF Claim
  <2>2. request[d.request] # None /\ request[d.request].activeProvider # None
    BY <1>1, <2>1, NoneAssumption DEF Marked
  <2> QED BY <1>1, <2>1, <2>2 DEF Marked, StatusKept
<1>2. \A v \in Workers : InFlight(v) => worker[v].claim \in Claim /\ Marked(worker[v].claim)
  BY CurrentClaim DEF Markers, InFlight
<1>3. \A j \in Outcomes : j.claim \in Claim /\ Marked(j.claim)
  BY CallClaims DEF Markers, Outcomes
<1>4. \A v \in Workers : InFlight(v)' => Marked(worker[v].claim)'
  BY <1>1, <1>2 DEF Marked
<1>5. \A k \in Outcomes' : Marked(k.claim)'
  BY <1>1, <1>2, <1>3 DEF Marked
<1> QED
  BY <1>4, <1>5 DEF Markers

\* What a run does: only an answer to a marker, which the database gives, starts a flight.
LEMMA RunFlight ==
    ASSUME CleanupTypeOK, ClaimsOwned, CallsOwned, NEW w \in Workers, RunStep(w)
    PROVE  /\ \A v \in Workers : InFlight(v)' => InFlight(v) /\ worker'[v].claim = worker[v].claim
           /\ \A k \in Outcomes' :
                  \/ \E j \in Outcomes : j.claim = k.claim /\ j.kind = k.kind
                  \/ InFlight(w) /\ worker[w].claim = k.claim
<1>0. /\ worker \in [Workers -> Run]
      /\ worker[w] \in Run
      /\ Orderly(w)
  BY DEF CleanupTypeOK, ClaimsOwned
<1>1. \A v \in Workers \ {w} : InFlight(v)' => InFlight(v) /\ worker'[v].claim = worker[v].claim
  BY RunClaims DEF InFlight
<1>2. ASSUME NEW status, Conclude(w, status), InFlight(w)
      PROVE  /\ InFlight(w)' => InFlight(w) /\ worker'[w].claim = worker[w].claim
             /\ \A k \in Outcomes' : k \in Outcomes \/ worker[w].claim = k.claim
  BY <1>0, <1>2 DEF Conclude, Send, InFlight, Outcomes, Run
<1>3. ASSUME Leave(w) PROVE ~InFlight(w)'
  BY <1>0, <1>3 DEF Leave, InFlight, Run
<1>4. ASSUME Abandon(w)
      PROVE  \A k \in Outcomes' : \E j \in Outcomes : j.claim = k.claim /\ j.kind = k.kind
  <2>1. ASSUME NEW k \in Outcomes'
        PROVE  \E j \in Outcomes : j.claim = k.claim /\ j.kind = k.kind
    <3>1. k \in calls' /\ k.kind \notin {"CLAIM", "BEGIN"}
      BY <2>1 DEF Outcomes
    <3>2. \E j \in calls : j.claim = k.claim /\ j.kind = k.kind
      BY <1>4, <3>1, AbandonedCalls
    <3> QED BY <3>1, <3>2 DEF Outcomes
  <2> QED BY <2>1
<1>5. CASE Start(w)
  <2>1. worker'[w] = [Idle EXCEPT !.stage = "CLAIM", !.left = Lease - 1,
                                  !.wait = Lower(Lease - 1, CallTime)]
    BY <1>0, <1>5 DEF Start
  <2>2. worker'[w].stage = "CLAIM"
    BY <2>1 DEF Idle
  <2>3. Outcomes' = Outcomes
    BY <1>5 DEF Start, Send, Outcomes
  <2> QED BY <1>1, <2>2, <2>3 DEF InFlight
<1>6. CASE Claimed(w) \/ Defer(w) \/ List(w)
  <2>1. worker'[w].stage \in {"NEXT", "ERASE"}
    <3>1. CASE Claimed(w)
      BY <1>0, <3>1 DEF Claimed, Run
    <3>2. CASE Defer(w)
      BY <1>0, <3>2 DEF Defer, Run
    <3>3. CASE List(w)
      BY <1>0, <3>3 DEF List, Run
    <3> QED BY <1>6, <3>1, <3>2, <3>3
  <2>2. Outcomes' = Outcomes
    BY <1>6 DEF Claimed, Defer, List, Outcomes
  <2> QED BY <1>1, <2>1, <2>2 DEF InFlight
<1>7. CASE Begin(w)
  <2>1. worker'[w].stage = "BEGIN" /\ worker'[w].reply = "NONE"
    BY <1>0, <1>7 DEF Begin, Run, Orderly
  <2>2. Outcomes' = Outcomes
    BY <1>7 DEF Begin, Send, Outcomes
  <2> QED BY <1>1, <2>1, <2>2 DEF InFlight
<1>8. CASE Begun(w)
  <2>1. CASE Leave(w) /\ UNCHANGED calls
    BY <1>1, <1>3, <2>1 DEF Outcomes
  <2>2. CASE worker[w].reply = "YES" /\ Conclude(w, "UNAVAILABLE")
    <3>1. InFlight(w)
      BY <1>8, <2>2 DEF Begun, Answered, InFlight
    <3> QED BY <1>1, <1>2, <2>2, <3>1
  <2>3. CASE /\ worker[w].reply = "YES"
             /\ worker' = [worker EXCEPT ![w].stage = "CALL", ![w].reply = "NONE",
                                         ![w].wait = Bounded(worker[w])]
             /\ UNCHANGED calls
    <3>1. InFlight(w) /\ worker'[w].claim = worker[w].claim
      BY <1>0, <1>8, <2>3 DEF Begun, Answered, InFlight, Run
    <3> QED BY <1>1, <2>3, <3>1 DEF Outcomes
  <2> QED BY <1>8, <2>1, <2>2, <2>3 DEF Begun
<1>9. CASE Dispatch(w)
  <2>1. InFlight(w) /\ worker'[w].claim = worker[w].claim /\ Outcomes' = Outcomes
    BY <1>0, <1>9 DEF Dispatch, InFlight, Run, Outcomes
  <2> QED BY <1>1, <2>1
<1>10. CASE Settle(w) \/ Refuse(w)
  <2>1. InFlight(w)
    BY <1>10 DEF Settle, Refuse, InFlight
  <2> QED BY <1>1, <1>2, <1>10, <2>1 DEF Settle, Refuse
<1>11. CASE Recorded(w)
  BY <1>1, <1>3, <1>11 DEF Recorded, Outcomes
<1>12. CASE CallFails(w)
  BY <1>1, <1>3, <1>4, <1>12 DEF CallFails
<1>13. CASE ClaimFails(w) \/ Crash(w)
  <2>1. worker'[w].stage = "IDLE"
    BY <1>0, <1>13 DEF ClaimFails, Crash, Idle
  <2> QED BY <1>1, <1>4, <1>13, <2>1 DEF ClaimFails, Crash, InFlight
<1>14. CASE Finish(w)
  <2>1. worker'[w].stage = "IDLE"
    BY <1>0, <1>14 DEF Finish, Idle
  <2> QED BY <1>1, <1>14, <2>1 DEF Finish, InFlight, Outcomes
<1> QED
  BY <1>5, <1>6, <1>7, <1>8, <1>9, <1>10, <1>11, <1>12, <1>13, <1>14 DEF RunStep

\* No run touches a row.
LEMMA RunRequests ==
    ASSUME NEW w \in Workers, RunStep(w)
    PROVE  UNCHANGED request
  BY DEF RunStep, Start, Claimed, Defer, Begin, Begun, Dispatch, Settle, Refuse, Recorded,
         ClaimFails, CallFails, Crash, List, Finish

\* So markers stay.
LEMMA RunMarks ==
    ASSUME CleanupTypeOK, ClaimsOwned, CallsOwned, Markers, NEW w \in Workers, RunStep(w)
    PROVE  Markers'
<1>1. \A r \in Requests : request[r] # None /\ request[r].activeProvider # None =>
          /\ StatusKept(r)
          /\ request'[r] # None
          /\ request'[r].leaseToken = request[r].leaseToken
          /\ request'[r].activeProvider = request[r].activeProvider
  BY RunRequests DEF StatusKept
<1> QED
  BY <1>1, RunFlight, MarkersStay

\* Requests, erasures and time leave marked rows alone: a marked provider is not done.
LEMMA OthersMark ==
    ASSUME CleanupTypeOK, ClaimsOwned, CallsOwned, Markers
    PROVE  /\ \A r \in Requests, ps \in (SUBSET Providers) \ {{}} : Request(r, ps) => Markers'
           /\ \A w \in Workers, r \in Requests : Complete(w, r) => Markers'
           /\ Tick => Markers'
<1>1. ASSUME NEW q \in Requests, NEW ps \in (SUBSET Providers) \ {{}}, Request(q, ps)
      PROVE  Markers'
  <2>1. \A r \in Requests : request[r] # None => request'[r] = request[r]
    BY <1>1 DEF Request, CleanupTypeOK
  <2> QED BY <1>1, <2>1, MarkersStay DEF Request, StatusKept, InFlight, Outcomes
<1>2. ASSUME NEW w \in Workers, NEW q \in Requests, Complete(w, q)
      PROVE  Markers'
  <2>1. /\ \A v \in Workers : /\ worker'[v].stage = worker[v].stage
                               /\ worker'[v].claim = worker[v].claim
                               /\ worker'[v].reply = worker[v].reply
        /\ calls' = calls
    BY <1>2 DEF Complete, CleanupTypeOK, Run
  <2>2. CASE ~Completable(q)
    BY <1>2, <2>1, <2>2, MarkersStay DEF Complete, StatusKept, InFlight, Outcomes
  <2>3. CASE Completable(q)
    <3>1. ASSUME NEW d \in Claim, Marked(d) PROVE Marked(d)' /\ d.request # q
      <4>1. d.request \in Requests /\ d.provider \in Providers
        BY DEF Claim
      <4>2. d.request # q
        BY <2>3, <3>1, <4>1 DEF Marked, Completable, Ready, Listed
      <4>3. request'[d.request] = request[d.request]
        BY <1>2, <4>1, <4>2 DEF Complete, CleanupTypeOK
      <4> QED BY <3>1, <4>2, <4>3 DEF Marked
    <3>2. \A v \in Workers : InFlight(v) => worker[v].claim \in Claim /\ Marked(worker[v].claim)
      BY CurrentClaim DEF Markers, InFlight
    <3>3. \A j \in Outcomes : j.claim \in Claim /\ Marked(j.claim)
      BY CallClaims DEF Markers, Outcomes
    <3>4. \A v \in Workers : InFlight(v)' => Marked(worker[v].claim)'
      BY <2>1, <3>1, <3>2 DEF InFlight, Marked
    <3>5. \A k \in Outcomes' : Marked(k.claim)'
      BY <2>1, <3>1, <3>3 DEF Outcomes
    <3> QED BY <3>4, <3>5 DEF Markers
  <2> QED BY <2>2, <2>3
<1>3. ASSUME Tick PROVE Markers'
  <2>1. \A r \in Requests : request[r] # None =>
            /\ StatusKept(r)
            /\ request'[r] # None
            /\ request'[r].leaseToken = request[r].leaseToken
            /\ request'[r].activeProvider = request[r].activeProvider
    <3>1. ASSUME NEW r \in Requests, request[r] # None
          PROVE  request'[r] = [request[r] EXCEPT !.left = Less(@)] /\ request[r] \in Row
      BY <1>3, <3>1 DEF Tick, CleanupTypeOK
    <3>2. \A row \in Row : [row EXCEPT !.left = Less(@)] \in Row
      BY TimesBounded DEF Row
    <3>3. \A r \in Requests : request[r] # None => request'[r] # None
      BY <3>1, <3>2, RowsAssumption
    <3> QED BY <3>1, <3>3 DEF StatusKept, Row
  <2>2. \A v \in Workers : /\ worker'[v].stage = worker[v].stage
                           /\ worker'[v].claim = worker[v].claim
                           /\ worker'[v].reply = worker[v].reply
    BY <1>3 DEF Tick, CleanupTypeOK, Run
  <2> QED BY <1>3, <2>1, <2>2, MarkersStay DEF Tick, InFlight, Outcomes
<1> QED
  BY <1>1, <1>2, <1>3

\* The row of a statement that is carried out.
LEMMA ServedRow ==
    ASSUME CleanupTypeOK, CallsOwned, NEW c \in calls, c.kind # "CLAIM", LeaseHeld(c.claim)
    PROVE  /\ c.claim \in Claim
           /\ c.claim.request \in Requests
           /\ c.claim.provider \in Providers
           /\ request[c.claim.request] \in Row
           /\ request[c.claim.request] # None
  BY CallClaims DEF LeaseHeld, Claim, CleanupTypeOK

\* A claim takes only rows without a marker, a marker likewise, and a record only the one
\* it was made for.
LEMMA ServeMarks ==
    ASSUME CleanupTypeOK, ClaimsOwned, CallsOwned, Markers, NEW c \in calls,
           ServeClaim(c) \/ ServeBegin(c) \/ ServeRecord(c)
    PROVE  Markers'
<1>0. c \in Call /\ calls' = calls \ {c}
  BY CallClaims DEF ServeClaim, ServeBegin, ServeRecord
<1>1. \A k \in Outcomes' : k \in Outcomes
  BY <1>0 DEF Outcomes
<1>2. /\ \A v \in Workers : InFlight(v) => worker[v].claim \in Claim /\ Marked(worker[v].claim)
      /\ \A j \in Outcomes : j.claim \in Claim /\ Marked(j.claim)
  BY CurrentClaim, CallClaims DEF Markers, InFlight, Outcomes
<1>3. CASE ServeClaim(c)
  <2>1. PICK R \in SUBSET {r \in Requests : Claimable(r)}, token \in [Requests -> Tokens],
             left \in (Lease - 1)..Lease : Granted(c, R, token, left)
    BY <1>3 DEF ServeClaim
  <2>2. ASSUME NEW r \in Requests, request[r] # None, request[r].activeProvider # None
        PROVE  request'[r] = request[r]
    <3>1. r \notin R
      BY <2>2 DEF Claimable
    <3> QED BY <2>1, <3>1 DEF Granted
  <2>3. \A v \in Workers : InFlight(v)' => InFlight(v) /\ worker'[v].claim = worker[v].claim
    <3>1. c.for # None => c.for \in Workers /\ worker[c.for].stage = "CLAIM"
      BY <1>3, CallClaims DEF ServeClaim, CallsOwned, Waiting
    <3>2. CASE c.for = None
      BY <2>1, <3>2 DEF Granted, InFlight
    <3>3. CASE c.for # None
      <4> DEFINE T == ClaimsOf(R, token)
      <4>1. worker' = [worker EXCEPT ![c.for].reply = "YES", ![c.for].todo = T]
        BY <2>1, <3>3 DEF Granted
      <4> HIDE DEF T
      <4> QED BY <3>1, <3>3, <4>1 DEF InFlight, CleanupTypeOK, Run
    <3> QED BY <3>2, <3>3
  <2> QED BY <1>1, <2>2, <2>3, MarkersStay DEF StatusKept
<1>4. CASE ServeBegin(c)
  <2>1. PICK ok \in BOOLEAN : ok = Beginnable(c.claim)
    BY DEF Beginnable, LeaseHeld
  <2>2. worker' = Reply(c, ok)
    BY <1>4, <2>1 DEF ServeBegin
  <2>3. \A r \in Requests : request[r] # None /\ request[r].activeProvider # None =>
            request'[r] = request[r]
    BY <1>4 DEF ServeBegin, Beginnable, CleanupTypeOK
  <2>4. ASSUME NEW d \in Claim, Marked(d) PROVE Marked(d)'
    BY <2>3, <2>4, NoneAssumption DEF Marked, Claim
  <2>5. ASSUME NEW v \in Workers, InFlight(v)' PROVE Marked(worker[v].claim)'
    <3>1. CASE InFlight(v)
      <4>1. worker'[v].claim = worker[v].claim
        BY <1>0, <2>2, ReplyChanges
      <4> QED BY <1>2, <2>4, <3>1, <4>1 DEF Marked
    <3>2. CASE ~InFlight(v)
      <4>1. v = c.for /\ ok
        BY <1>0, <2>2, <2>5, <3>2, ReplyChanges DEF InFlight
      <4>2. worker[v].claim = c.claim
        BY <4>1, NoneAssumption DEF CallsOwned, Waiting
      <4>8. worker'[v].claim = c.claim
        BY <1>0, <2>2, <4>2, ReplyChanges
      <4>3. c.kind = "BEGIN" /\ Beginnable(c.claim)
        BY <1>4, <2>1, <4>1 DEF ServeBegin
      <4>4. /\ c.claim \in Claim /\ c.claim.request \in Requests /\ c.claim.provider \in Providers
            /\ request[c.claim.request] \in Row
        BY <4>3, ServedRow DEF Beginnable
      <4>5. request'[c.claim.request]
                = [request[c.claim.request] EXCEPT !.activeProvider = c.claim.provider]
        BY <1>4, <4>3, <4>4 DEF ServeBegin, CleanupTypeOK
      <4>6. request'[c.claim.request] \in Row
        BY <4>4, <4>5 DEF Row
      <4>7. Marked(c.claim)'
        BY <4>3, <4>4, <4>5, <4>6, RowsAssumption DEF Marked, Beginnable, LeaseHeld, Row
      <4> QED BY <4>7, <4>8 DEF Marked
    <3> QED BY <3>1, <3>2
  <2>6. \A k \in Outcomes' : Marked(k.claim)'
    BY <1>1, <1>2, <2>4
  <2> QED BY <2>5, <2>6 DEF Markers
<1>5. CASE ServeRecord(c)
  <2>1. PICK ok \in BOOLEAN : ok = Recordable(c.claim)
    BY DEF Recordable, LeaseHeld
  <2>2. worker' = Reply(c, ok)
    BY <1>5, <2>1 DEF ServeRecord
  <2>3. c \in Outcomes
    BY <1>5 DEF ServeRecord, Outcomes
  <2>4. ASSUME NEW d \in Claim, Marked(d), d # c.claim PROVE Marked(d)'
    <3>1. d.request # c.claim.request
      BY <1>2, <2>3, <2>4, OneMarker
    <3>2. request'[d.request] = request[d.request]
      BY <1>5, <3>1 DEF ServeRecord, CleanupTypeOK, Claim
    <3> QED BY <2>4, <3>2 DEF Marked
  <2>5. ASSUME NEW v \in Workers, InFlight(v)' PROVE Marked(worker[v].claim)'
    <3>1. /\ worker'[v].stage = worker[v].stage
          /\ worker'[v].claim = worker[v].claim
          /\ worker'[v].reply = IF v = c.for THEN IF ok THEN "YES" ELSE "NO" ELSE worker[v].reply
      BY <1>0, <2>2, ReplyChanges
    <3>2. v = c.for => worker[v].stage = "RECORD"
      BY <1>5, NoneAssumption DEF CallsOwned, Waiting, ServeRecord
    <3>3. v # c.for
      BY <2>5, <3>1, <3>2 DEF InFlight
    <3>4. InFlight(v)
      BY <2>5, <3>1, <3>3 DEF InFlight
    <3>5. worker[v].claim # c.claim
      BY <1>2, <3>3, <3>4, CallsClaim, RowsAssumption DEF Claims
    <3> QED BY <1>2, <2>4, <3>1, <3>4, <3>5 DEF Marked
  <2>6. ASSUME NEW k \in Outcomes' PROVE Marked(k.claim)'
    <3>1. k \in Outcomes /\ k # c
      BY <1>0, <2>6 DEF Outcomes
    <3>2. k.claim # c.claim
      BY <1>2, <2>3, <3>1, RowsAssumption DEF CallsOwned, Outcomes
    <3> QED BY <1>2, <2>4, <3>1, <3>2
  <2> QED BY <2>5, <2>6 DEF Markers
<1> QED
  BY <1>3, <1>4, <1>5

(***************************************************************************)
(* One revocation.                                                         *)
(***************************************************************************)

\* The row of a provider that got a revocation says so.
Noted(r, p) == /\ request[r] # None
               /\ \/ request[r].activeProvider = p
                  \/ request[r].providerCleanup[p] = "COMPLETED"
\* Runs that may still send one.
MaySend(w) == worker[w].stage \in {"BEGIN", "CALL"} /\ InFlight(w) /\ ~worker[w].sent

\* A step that sends none is harmless if rows stay noted, and who may send, or says that
\* none was sent, did so before.
LEMMA NothingSent ==
    ASSUME CleanupTypeOK, ClaimsOwned, CallsOwned, SentOnce,
           \A r \in Requests, p \in Providers : remote'[r][p].sent = remote[r][p].sent,
           \A r \in Requests, p \in Providers : Noted(r, p) => Noted(r, p)',
           \A v \in Workers : MaySend(v)' => MaySend(v) /\ worker'[v].claim = worker[v].claim,
           \A k \in calls' : k.kind = "UNAVAILABLE" =>
               \/ \E j \in calls : j.kind = "UNAVAILABLE" /\ j.claim = k.claim
               \/ \E v \in Workers : MaySend(v) /\ worker[v].claim = k.claim
    PROVE  SentOnce'
<1>1. /\ \A v \in Workers : MaySend(v) => worker[v].claim \in Claim /\ Unsent(worker[v].claim)
      /\ \A j \in calls : j.kind = "UNAVAILABLE" => j.claim \in Claim /\ Unsent(j.claim)
  BY CurrentClaim, CallClaims DEF SentOnce, MaySend
<1>2. \A d \in Claim : Unsent(d) => Unsent(d)'
  BY DEF Unsent, Claim
<1>3. \A v \in Workers : MaySend(v)' => Unsent(worker[v].claim)'
  BY <1>1, <1>2 DEF Unsent
<1>4. \A k \in calls' : k.kind = "UNAVAILABLE" => Unsent(k.claim)'
  BY <1>1, <1>2
<1>5. \A r \in Requests, p \in Providers : remote'[r][p].sent # 0 =>
          remote'[r][p].sent = 1 /\ Noted(r, p)'
  BY DEF SentOnce, Noted
<1> QED
  BY <1>3, <1>4, <1>5 DEF SentOnce, MaySend, Noted

\* What a run does, but for sending.
LEMMA RunSendsNone ==
    ASSUME Kept, NEW w \in Workers, RunStep(w), ~Dispatch(w)
    PROVE  SentOnce'
<1>0. /\ CleanupTypeOK /\ ClaimsOwned /\ CallsOwned /\ SentOnce
      /\ worker \in [Workers -> Run]
      /\ worker[w] \in Run
      /\ Orderly(w)
  BY DEF Kept, CleanupTypeOK, ClaimsOwned
<1>1. \A r \in Requests, p \in Providers : Noted(r, p) => Noted(r, p)'
  BY RunRequests DEF Noted
<1>2. \A r \in Requests, p \in Providers : remote'[r][p].sent = remote[r][p].sent
  <2>1. CASE Settle(w)
    BY <1>0, <2>1 DEF Settle, CleanupTypeOK
  <2>2. CASE ~Settle(w)
    BY <2>2 DEF RunStep, Start, Claimed, Defer, Begin, Begun, Refuse, Recorded,
                ClaimFails, CallFails, Crash, List, Finish
  <2> QED BY <2>1, <2>2
<1>3. \A v \in Workers : InFlight(v)' => InFlight(v) /\ worker'[v].claim = worker[v].claim
  BY <1>0, RunFlight
<1>4. \A v \in Workers \ {w} : MaySend(v)' => MaySend(v)
  BY <1>0, RunClaims DEF MaySend, InFlight
<1>5. MaySend(w)' => MaySend(w)
  <2>1. ASSUME MaySend(w)' PROVE worker[w].stage \in {"BEGIN", "CALL"} /\ ~worker[w].sent
    <3>1. InFlight(w)
      BY <1>3, <2>1 DEF MaySend
    <3>2. worker[w].stage \in {"BEGIN", "CALL", "RECORD"}
      BY <3>1 DEF InFlight
    <3>3. CASE worker[w].stage = "BEGIN"
      BY <1>0, <3>3 DEF Orderly
    <3>4. CASE worker[w].stage = "RECORD"
      <4>1. worker'[w].stage \notin {"BEGIN", "CALL"}
        BY <1>0, <3>4 DEF RunStep, Start, Claimed, Defer, Begin, Begun, Dispatch, Settle, Refuse,
              Recorded, ClaimFails, CallFails, Crash, List, Finish, Answered, Leave, Run, Idle
      <4> QED BY <2>1, <4>1 DEF MaySend
    <3>5. CASE worker[w].stage = "CALL"
      <4>1. CASE worker'[w].stage \notin {"BEGIN", "CALL"}
        BY <2>1, <4>1 DEF MaySend
      <4>2. CASE worker'[w] = worker[w]
        BY <2>1, <3>5, <4>2 DEF MaySend
      <4>3. worker'[w].stage \notin {"BEGIN", "CALL"}
        BY <1>0, <3>5 DEF RunStep, Start, Claimed, Defer, Begin, Begun, Settle, Refuse, Conclude,
              Recorded, ClaimFails, CallFails, Crash, List, Finish, Answered, Leave, Run, Idle
      <4> QED BY <4>1, <4>3
    <3> QED BY <3>2, <3>3, <3>4, <3>5
  <2> QED BY <1>3, <2>1 DEF MaySend
<1>6. ASSUME NEW k \in calls', k.kind = "UNAVAILABLE"
      PROVE  \/ \E j \in calls : j.kind = "UNAVAILABLE" /\ j.claim = k.claim
             \/ MaySend(w) /\ worker[w].claim = k.claim
  <2>1. CASE Begun(w)
    <3>1. CASE UNCHANGED calls
      BY <1>6, <3>1
    <3>2. CASE worker[w].reply = "YES" /\ Conclude(w, "UNAVAILABLE")
      <4>1. MaySend(w)
        BY <1>0, <2>1, <3>2 DEF Begun, Answered, MaySend, InFlight, Orderly
      <4> QED BY <1>6, <3>2, <4>1 DEF Conclude, Send
    <3> QED BY <2>1, <3>1, <3>2 DEF Begun
  <2>2. CASE Refuse(w)
    <3>1. CASE worker[w].sent
      BY <1>6, <2>2, <3>1 DEF Refuse, Conclude, Send
    <3>2. CASE ~worker[w].sent
      <4>1. MaySend(w)
        BY <2>2, <3>2 DEF Refuse, MaySend, InFlight
      <4> QED BY <1>6, <2>2, <4>1 DEF Refuse, Conclude, Send
    <3> QED BY <3>1, <3>2
  <2>3. CASE Abandon(w)
    BY <1>0, <1>6, <2>3, AbandonedCalls
  <2>4. CASE Settle(w) \/ Start(w) \/ Begin(w) \/ UNCHANGED calls
    <3>1. k \in calls
      <4>1. CASE Settle(w)
        BY <1>6, <4>1 DEF Settle, Conclude, Send
      <4>2. CASE Start(w)
        BY <1>6, <4>2 DEF Start, Send
      <4>3. CASE Begin(w)
        BY <1>6, <4>3 DEF Begin, Send
      <4> QED BY <2>4, <4>1, <4>2, <4>3
    <3> QED BY <1>6, <3>1
  <2> QED BY <2>1, <2>2, <2>3, <2>4 DEF RunStep, Claimed, Defer, Recorded,
                ClaimFails, CallFails, Crash, List, Finish
<1> QED
  <2>1. \A v \in Workers : MaySend(v)' => MaySend(v) /\ worker'[v].claim = worker[v].claim
    BY <1>3, <1>4, <1>5 DEF MaySend
  <2> QED BY <1>0, <1>1, <1>2, <1>6, <2>1, NothingSent

\* A revocation is sent: it is the first, and nobody else holds the claim.
LEMMA DispatchSendsOne ==
    ASSUME Kept, NEW w \in Workers, Dispatch(w)
    PROVE  SentOnce'
<1> DEFINE c == worker[w].claim
<1>0. /\ CleanupTypeOK /\ ClaimsOwned /\ CallsOwned /\ SentOnce /\ Markers
      /\ worker \in [Workers -> Run]
      /\ worker[w] \in Run
      /\ worker[w].stage = "CALL" /\ ~worker[w].sent
  BY DEF Kept, CleanupTypeOK, Dispatch
<1>1. c \in Claim /\ c.request \in Requests /\ c.provider \in Providers
  BY <1>0, CurrentClaim
<1>2. Marked(c) /\ Unsent(c) /\ c \in Claims(w)
  BY <1>0, <1>1, RowsAssumption DEF Markers, SentOnce, InFlight, Claims
<1>3. /\ remote'[c.request][c.provider].sent = 1
      /\ \A r \in Requests, p \in Providers :
            (r # c.request \/ p # c.provider) => remote'[r][p].sent = remote[r][p].sent
  BY <1>0, <1>1, <1>2 DEF Dispatch, Unsent, CleanupTypeOK
<1>4. ASSUME NEW d \in Claim, Marked(d), Unsent(d), d # c
      PROVE  Unsent(d)'
  <2>1. d.request # c.request \/ d.provider # c.provider
    BY <1>1, <1>2, <1>4, OneMarker
  <2> QED BY <1>3, <1>4, <2>1 DEF Unsent, Claim
<1>5. /\ \A v \in Workers \ {w} : worker'[v] = worker[v]
      /\ worker'[w].sent
      /\ UNCHANGED <<request, calls>>
  BY <1>0 DEF Dispatch, Run
<1>6. ASSUME NEW v \in Workers, MaySend(v)'
      PROVE  Unsent(worker[v].claim)'
  <2>1. v # w /\ MaySend(v) /\ worker'[v].claim = worker[v].claim
    BY <1>5, <1>6 DEF MaySend, InFlight
  <2>2. worker[v].claim \in Claim /\ Marked(worker[v].claim) /\ Unsent(worker[v].claim)
    BY <1>0, <2>1, CurrentClaim DEF MaySend, Markers, SentOnce
  <2>3. worker[v].claim # c
    BY <1>0, <1>2, <2>1, <2>2, RowsAssumption DEF ClaimsOwned, Claims
  <2>4. worker[v].claim.request # c.request \/ worker[v].claim.provider # c.provider
    BY <1>1, <1>2, <2>2, <2>3, OneMarker
  <2> QED BY <1>3, <2>1, <2>2, <2>4 DEF Unsent, Claim
<1>7. ASSUME NEW k \in calls', k.kind = "UNAVAILABLE"
      PROVE  Unsent(k.claim)'
  <2>1. k \in calls
    BY <1>5, <1>7
  <2>2. k.claim \in Claim /\ Marked(k.claim) /\ Unsent(k.claim)
    BY <1>0, <1>7, <2>1, CallClaims DEF Markers, Outcomes, SentOnce
  <2>3. k.claim # c
    <3>1. SUFFICES ASSUME k.claim = c PROVE FALSE
      OBVIOUS
    <3>2. k.for = w
      BY <1>0, <1>2, <2>1, <3>1, CallsClaim
    <3> QED BY <1>0, <2>1, <3>2, NoneOnTheWay
  <2> QED BY <1>4, <2>2, <2>3
<1>8. \A r \in Requests, p \in Providers : remote'[r][p].sent # 0 =>
          remote'[r][p].sent = 1 /\ Noted(r, p)'
  BY <1>0, <1>2, <1>3, <1>5 DEF SentOnce, Marked, Noted
<1> QED
  BY <1>6, <1>7, <1>8 DEF SentOnce, MaySend, Noted

\* What the database carries out: only an outcome that says that none was sent, or that
\* all is done, removes a marker.
LEMMA ServeSendsNone ==
    ASSUME Kept, NEW c \in calls, ServeClaim(c) \/ ServeBegin(c) \/ ServeRecord(c)
    PROVE  SentOnce'
<1>0. /\ CleanupTypeOK /\ ClaimsOwned /\ CallsOwned /\ SentOnce /\ Markers
      /\ c \in Call /\ calls' = calls \ {c} /\ remote' = remote
  BY CallClaims DEF Kept, ServeClaim, ServeBegin, ServeRecord
<1>1. /\ \A r \in Requests, p \in Providers : remote'[r][p].sent = remote[r][p].sent
      /\ \A k \in calls' : k.kind = "UNAVAILABLE" =>
             \/ \E j \in calls : j.kind = "UNAVAILABLE" /\ j.claim = k.claim
             \/ \E v \in Workers : MaySend(v) /\ worker[v].claim = k.claim
  BY <1>0
<1>2. CASE ServeClaim(c)
  <2>1. PICK R \in SUBSET {r \in Requests : Claimable(r)}, token \in [Requests -> Tokens],
             left \in (Lease - 1)..Lease : Granted(c, R, token, left)
    BY <1>2 DEF ServeClaim
  <2>2. ASSUME NEW r \in Requests, NEW p \in Providers, Noted(r, p)
        PROVE  Noted(r, p)'
    <3>1. request[r] \in Row
      BY <1>0, <2>2 DEF Noted, CleanupTypeOK
    <3>2. CASE r \notin R
      BY <2>1, <2>2, <3>2 DEF Granted, Noted
    <3>3. CASE r \in R
      <4>1. request'[r] = [request[r] EXCEPT !.leaseToken = token[r], !.left = left]
        BY <2>1, <3>3 DEF Granted
      <4>2. token[r] \in Tokens /\ left \in 0..Lease
        BY <2>1, LeaseAssumption
      <4>3. request'[r] \in Row
        BY <3>1, <4>1, <4>2 DEF Row
      <4> QED BY <2>2, <3>1, <4>1, <4>3, RowsAssumption DEF Noted, Row
    <3> QED BY <3>2, <3>3
  <2>3. \A v \in Workers : MaySend(v)' => MaySend(v) /\ worker'[v].claim = worker[v].claim
    <3>1. c.for # None => c.for \in Workers /\ worker[c.for].stage = "CLAIM"
      BY <1>0, <1>2, CallClaims DEF ServeClaim, CallsOwned, Waiting
    <3>2. CASE c.for = None
      BY <2>1, <3>2 DEF Granted, MaySend, InFlight
    <3>3. CASE c.for # None
      <4> DEFINE T == ClaimsOf(R, token)
      <4>1. worker' = [worker EXCEPT ![c.for].reply = "YES", ![c.for].todo = T]
        BY <2>1, <3>3 DEF Granted
      <4> HIDE DEF T
      <4> QED BY <1>0, <3>1, <3>3, <4>1 DEF MaySend, InFlight, CleanupTypeOK, Run
    <3> QED BY <3>2, <3>3
  <2> QED BY <1>0, <1>1, <2>2, <2>3, NothingSent
<1>3. CASE ServeBegin(c)
  <2>1. PICK ok \in BOOLEAN : ok = Beginnable(c.claim)
    BY DEF Beginnable, LeaseHeld
  <2>2. worker' = Reply(c, ok)
    BY <1>3, <2>1 DEF ServeBegin
  <2>3. ASSUME ok
        PROVE  /\ Unsent(c.claim)
               /\ c.claim \in Claim /\ c.claim.request \in Requests /\ c.claim.provider \in Providers
               /\ request[c.claim.request] \in Row
    <3>1. Beginnable(c.claim) /\ c.kind = "BEGIN"
      BY <1>3, <2>1, <2>3 DEF ServeBegin
    <3>2. /\ c.claim \in Claim /\ c.claim.request \in Requests /\ c.claim.provider \in Providers
          /\ request[c.claim.request] \in Row
      BY <1>0, <3>1, ServedRow DEF Beginnable
    <3>3. Unsent(c.claim)
      BY <1>0, <3>1, <3>2, NoneAssumption DEF Beginnable, SentOnce, Unsent
    <3> QED BY <3>2, <3>3
  <2>4. ASSUME NEW r \in Requests, NEW p \in Providers, Noted(r, p)
        PROVE  Noted(r, p)'
    <3>1. CASE request'[r] = request[r]
      BY <2>4, <3>1 DEF Noted
    <3>2. CASE request'[r] # request[r]
      <4>1. ok /\ r = c.claim.request
        BY <1>0, <1>3, <2>1, <3>2 DEF ServeBegin, CleanupTypeOK
      <4>2. request'[r] = [request[r] EXCEPT !.activeProvider = c.claim.provider]
        BY <1>0, <1>3, <2>1, <4>1 DEF ServeBegin, CleanupTypeOK
      <4>3. request[r].activeProvider = None
        BY <2>1, <4>1 DEF Beginnable
      <4>4. request'[r] \in Row
        BY <2>3, <4>1, <4>2 DEF Row
      <4> QED BY <2>3, <2>4, <4>1, <4>2, <4>3, <4>4, RowsAssumption, NoneAssumption DEF Noted, Row
    <3> QED BY <3>1, <3>2
  <2>5. ASSUME NEW v \in Workers, MaySend(v)' PROVE Unsent(worker[v].claim)'
    <3>1. CASE MaySend(v)
      <4>1. worker'[v].claim = worker[v].claim
        BY <1>0, <2>2, ReplyChanges
      <4> QED BY <1>0, <3>1, <4>1 DEF Unsent, SentOnce, MaySend
    <3>2. CASE ~MaySend(v)
      <4>1. v = c.for /\ ok
        BY <1>0, <2>2, <2>5, <3>2, ReplyChanges DEF InFlight, MaySend
      <4>2. worker[v].claim = c.claim
        BY <1>0, <4>1, NoneAssumption DEF CallsOwned, Waiting
      <4>3. worker'[v].claim = c.claim
        BY <1>0, <2>2, <4>2, ReplyChanges
      <4> QED BY <1>0, <2>3, <4>1, <4>3 DEF Unsent
    <3> QED BY <3>1, <3>2
  <2>6. \A k \in calls' : k.kind = "UNAVAILABLE" => Unsent(k.claim)'
    BY <1>0 DEF SentOnce, Unsent
  <2>7. \A r \in Requests, p \in Providers : remote'[r][p].sent # 0 =>
            remote'[r][p].sent = 1 /\ Noted(r, p)'
    BY <1>0, <2>4 DEF SentOnce, Noted
  <2> QED BY <2>5, <2>6, <2>7 DEF SentOnce, MaySend, Noted
<1>4. CASE ServeRecord(c)
  <2>1. PICK ok \in BOOLEAN : ok = Recordable(c.claim)
    BY DEF Recordable, LeaseHeld
  <2>2. worker' = Reply(c, ok)
    BY <1>4, <2>1 DEF ServeRecord
  <2>3. \A v \in Workers : MaySend(v)' => MaySend(v) /\ worker'[v].claim = worker[v].claim
    <3>1. ASSUME NEW v \in Workers, MaySend(v)'
          PROVE  MaySend(v) /\ worker'[v].claim = worker[v].claim
      <4>1. v = c.for => worker[v].stage = "RECORD"
        BY <1>0, <1>4, NoneAssumption DEF CallsOwned, Waiting, ServeRecord
      <4>2. v # c.for
        BY <1>0, <2>2, <3>1, <4>1, ReplyChanges DEF MaySend
      <4> QED BY <1>0, <2>2, <3>1, <4>2, ReplyChanges DEF MaySend, InFlight
    <3> QED BY <3>1
  <2>4. \A k \in calls' : k.kind = "UNAVAILABLE" => Unsent(k.claim)'
    BY <1>0 DEF SentOnce, Unsent
  <2>5. \A v \in Workers : MaySend(v)' => Unsent(worker[v].claim)'
    BY <1>0, <2>3 DEF SentOnce, MaySend, Unsent
  <2>6. ASSUME NEW r \in Requests, NEW p \in Providers, remote'[r][p].sent # 0
        PROVE  remote'[r][p].sent = 1 /\ Noted(r, p)'
    <3>1. remote[r][p].sent = 1 /\ Noted(r, p)
      BY <1>0, <2>6 DEF SentOnce, Noted
    <3>2. CASE request'[r] = request[r]
      BY <1>0, <3>1, <3>2 DEF Noted
    <3>3. CASE request'[r] # request[r]
      <4> DEFINE q == c.claim.provider
      <4>1. Recordable(c.claim) /\ r = c.claim.request
        BY <1>0, <1>4, <3>3 DEF ServeRecord, CleanupTypeOK
      <4>2. q \in Providers /\ request[r] \in Row /\ c.kind # "CLAIM"
        BY <1>0, <1>4, <4>1, ServedRow DEF Recordable, ServeRecord
      <4>3. request'[r] = RecordedRow(request[r], q, c.kind)
        BY <1>0, <1>4, <4>1 DEF ServeRecord, CleanupTypeOK
      <4>4. request'[r] \in Row
        <5>1. c.kind \in Statuses \cup {"UNAVAILABLE"}
          BY <1>0, <1>4 DEF ServeRecord, Call
        <5> QED BY <4>2, <4>3, <5>1, RecordedTypes
      <4>5. request[r].activeProvider = q
        BY <4>1 DEF Recordable
      <4>6. c.kind = "UNAVAILABLE" => p # q
        BY <1>0, <3>1, <4>1 DEF SentOnce, Unsent
      <4>7. \/ request'[r].activeProvider = p
            \/ request'[r].providerCleanup[p] = "COMPLETED"
        <5>1. CASE p = q
          <6>1. c.kind \in {"COMPLETED", "PENDING", "FAILED"}
            BY <1>0, <1>4, <4>6, <5>1 DEF ServeRecord, Call, Statuses
          <6> QED BY <4>2, <4>3, <4>5, <5>1, <6>1 DEF RecordedRow, Row
        <5>2. CASE p # q
          <6>1. request[r].providerCleanup[p] = "COMPLETED"
            BY <3>1, <4>5, <5>2 DEF Noted
          <6> QED BY <4>2, <4>3, <5>2, <6>1 DEF RecordedRow, Row
        <5> QED BY <5>1, <5>2
      <4> QED BY <1>0, <3>1, <4>4, <4>7, RowsAssumption DEF Noted
    <3> QED BY <3>2, <3>3
  <2> QED BY <2>4, <2>5, <2>6 DEF SentOnce, MaySend, Noted
<1> QED
  BY <1>2, <1>3, <1>4

\* Requests, erasures and time.
LEMMA OthersSendNone ==
    ASSUME Kept
    PROVE  /\ \A r \in Requests, ps \in (SUBSET Providers) \ {{}} : Request(r, ps) => SentOnce'
           /\ \A w \in Workers, r \in Requests : Complete(w, r) => SentOnce'
           /\ Tick => SentOnce'
<1>0. CleanupTypeOK /\ ClaimsOwned /\ CallsOwned /\ SentOnce
  BY DEF Kept
<1>1. ASSUME UNCHANGED <<calls, remote>>,
             \A r \in Requests : request[r] # None =>
                 /\ request'[r] # None
                 /\ request'[r].activeProvider = request[r].activeProvider
                 /\ request'[r].providerCleanup = request[r].providerCleanup,
             \A v \in Workers : /\ worker'[v].stage = worker[v].stage
                                /\ worker'[v].claim = worker[v].claim
                                /\ worker'[v].reply = worker[v].reply
                                /\ (worker'[v].sent <=> worker[v].sent)
      PROVE  SentOnce'
  <2>1. \A v \in Workers : MaySend(v)' => MaySend(v) /\ worker'[v].claim = worker[v].claim
    BY <1>1 DEF MaySend, InFlight
  <2>2. \A r \in Requests, p \in Providers : Noted(r, p) => Noted(r, p)'
    BY <1>1 DEF Noted
  <2> QED BY <1>0, <1>1, <2>1, <2>2, NothingSent
<1>2. ASSUME NEW r \in Requests, NEW ps \in (SUBSET Providers) \ {{}}, Request(r, ps)
      PROVE  SentOnce'
  <2>1. \A q \in Requests : request[q] # None => request'[q] = request[q]
    BY <1>0, <1>2 DEF Request, CleanupTypeOK
  <2> QED BY <1>1, <1>2, <2>1 DEF Request
<1>3. ASSUME NEW w \in Workers, NEW r \in Requests, Complete(w, r)
      PROVE  SentOnce'
  <2>1. \A v \in Workers : /\ worker'[v].stage = worker[v].stage
                           /\ worker'[v].claim = worker[v].claim
                           /\ worker'[v].reply = worker[v].reply
                           /\ (worker'[v].sent <=> worker[v].sent)
    BY <1>0, <1>3 DEF Complete, CleanupTypeOK, Run
  <2>2. ASSUME NEW q \in Requests, request[q] # None
        PROVE  /\ request'[q] # None
               /\ request'[q].activeProvider = request[q].activeProvider
               /\ request'[q].providerCleanup = request[q].providerCleanup
    <3>1. request[q] \in Row
      BY <1>0, <2>2 DEF CleanupTypeOK
    <3>2. CASE request'[q] = request[q]
      BY <2>2, <3>2
    <3>3. CASE request'[q] = [request[q] EXCEPT !.appStatus = "DELETED"]
      <4>1. request'[q] \in Row
        BY <3>1, <3>3 DEF Row
      <4> QED BY <3>1, <3>3, <4>1, RowsAssumption DEF Row
    <3> QED BY <1>0, <1>3, <3>2, <3>3 DEF Complete, CleanupTypeOK
  <2> QED BY <1>1, <1>3, <2>1, <2>2 DEF Complete
<1>4. ASSUME Tick PROVE SentOnce'
  <2>1. \A v \in Workers : /\ worker'[v].stage = worker[v].stage
                           /\ worker'[v].claim = worker[v].claim
                           /\ worker'[v].reply = worker[v].reply
                           /\ (worker'[v].sent <=> worker[v].sent)
    BY <1>0, <1>4 DEF Tick, CleanupTypeOK, Run
  <2>2. ASSUME NEW q \in Requests, request[q] # None
        PROVE  /\ request'[q] # None
               /\ request'[q].activeProvider = request[q].activeProvider
               /\ request'[q].providerCleanup = request[q].providerCleanup
    <3>1. request[q] \in Row /\ request'[q] = [request[q] EXCEPT !.left = Less(@)]
      BY <1>0, <1>4, <2>2 DEF CleanupTypeOK, Tick
    <3>2. request'[q] \in Row
      BY <3>1, TimesBounded DEF Row
    <3> QED BY <3>1, <3>2, RowsAssumption DEF Row
  <2> QED BY <1>1, <1>4, <2>1, <2>2 DEF Tick
<1> QED
  BY <1>2, <1>3, <1>4

(***************************************************************************)
(* Leases and deadlines.                                                   *)
(***************************************************************************)

\* The lease of a claim that still has its token lasts as long as the deadline.
Covered(w) ==
    \A c \in Claims(w) :
        (request[c.request] # None /\ request[c.request].leaseToken = c.leaseToken)
            => request[c.request].left >= worker[w].left
Timely(w) ==
    /\ worker[w].left < Lease
    /\ (worker[w].stage = "CALL" /\ worker[w].wait > 0)
          => worker[w].left >= worker[w].wait + CallTime
    /\ (worker[w].stage = "RECORD" /\ worker[w].reply = "NO") => worker[w].wait = 0

\* What a run does: it never gains time, but for a new deadline without claims.
LEMMA RunInLease ==
    ASSUME Kept, NEW w \in Workers, RunStep(w)
    PROVE  InLease'
<1>0. /\ CleanupTypeOK /\ ClaimsOwned /\ CallsOwned
      /\ worker \in [Workers -> Run]
      /\ worker[w] \in Run
      /\ Orderly(w)
      /\ \A v \in Workers : Covered(v) /\ Timely(v)
      /\ UNCHANGED request
  BY RunRequests DEF Kept, CleanupTypeOK, ClaimsOwned, InLease, Covered, Timely
<1>1. /\ \A v \in Workers \ {w} : worker'[v] = worker[v]
      /\ Claims(w)' \subseteq Claims(w)
  BY <1>0, RunClaims
<1>2. \A v \in Workers \ {w} : Covered(v)' /\ Timely(v)'
  BY <1>0, <1>1 DEF Covered, Timely, Claims
<1>3. ASSUME worker'[w].left = worker[w].left, worker'[w].stage \notin {"CALL", "RECORD"}
      PROVE  Covered(w)' /\ Timely(w)'
  BY <1>0, <1>1, <1>3 DEF Covered, Timely
<1>4. ASSUME worker' = [worker EXCEPT ![w] = Idle]
      PROVE  Covered(w)' /\ Timely(w)'
  <2>1. /\ worker'[w].left = 0 /\ worker'[w].stage = "IDLE"
        /\ Claims(w)' = {}
    BY <1>0, <1>4 DEF Idle, Claims
  <2> QED BY <2>1, LeaseAssumption DEF Covered, Timely
<1>5. ASSUME NEW status, Conclude(w, status)
      PROVE  Covered(w)' /\ Timely(w)'
  <2>1. /\ worker'[w].left = worker[w].left /\ worker'[w].stage = "RECORD"
        /\ worker'[w].reply = "NONE"
    BY <1>0, <1>5 DEF Conclude, Run
  <2> QED BY <1>0, <1>1, <2>1 DEF Covered, Timely
<1>6. ASSUME Leave(w) PROVE Covered(w)' /\ Timely(w)'
  BY <1>0, <1>3, <1>6 DEF Leave, Run
<1>7. Covered(w)' /\ Timely(w)'
  <2>1. CASE Start(w)
    <3> DEFINE run == [Idle EXCEPT !.stage = "CLAIM", !.left = Lease - 1,
                                   !.wait = Lower(Lease - 1, CallTime)]
    <3>1. worker'[w] = run
      BY <1>0, <2>1 DEF Start
    <3>2. run.left = Lease - 1 /\ run.stage = "CLAIM" /\ run.todo = {} /\ run.claim = None
      BY DEF Idle
    <3>3. Claims(w)' = {}
      BY <3>1, <3>2 DEF Claims
    <3> QED BY <3>1, <3>2, <3>3, LeaseAssumption DEF Covered, Timely
  <2>2. CASE Claimed(w)
    BY <1>0, <1>3, <2>2 DEF Claimed, Run
  <2>3. CASE Defer(w)
    BY <1>0, <1>3, <2>3 DEF Defer, Run
  <2>4. CASE Begin(w)
    BY <1>0, <1>3, <2>4 DEF Begin, Run
  <2>5. CASE Begun(w)
    <3>1. CASE Leave(w)
      BY <1>6, <3>1
    <3>2. CASE Conclude(w, "UNAVAILABLE")
      BY <1>5, <3>2
    <3>3. CASE /\ InTime(w)
               /\ worker' = [worker EXCEPT ![w].stage = "CALL", ![w].reply = "NONE",
                                           ![w].wait = Bounded(worker[w])]
      <4>1. /\ worker'[w].left = worker[w].left /\ worker'[w].stage = "CALL"
            /\ worker'[w].wait = Lower(worker[w].left, CallTime)
        BY <1>0, <3>3 DEF Bounded, Run
      <4>2. worker[w].left >= 2 * CallTime /\ worker[w].left \in Nat
        BY <1>0, <3>3 DEF InTime, Run
      <4>3. worker'[w].left >= worker'[w].wait + CallTime
        BY <4>1, <4>2, LeaseAssumption DEF Lower
      <4> QED BY <1>0, <1>1, <4>1, <4>3 DEF Covered, Timely
    <3> QED BY <2>5, <3>1, <3>2, <3>3 DEF Begun
  <2>6. CASE Dispatch(w)
    <3>1. /\ worker'[w].left = worker[w].left /\ worker'[w].stage = worker[w].stage
          /\ worker'[w].wait = worker[w].wait /\ worker'[w].reply = worker[w].reply
      BY <1>0, <2>6 DEF Dispatch, Run
    <3> QED BY <1>0, <1>1, <3>1 DEF Covered, Timely
  <2>7. CASE Settle(w) \/ Refuse(w)
    BY <1>5, <2>7 DEF Settle, Refuse
  <2>8. CASE Recorded(w) \/ CallFails(w)
    BY <1>6, <2>8 DEF Recorded, CallFails
  <2>9. CASE ClaimFails(w) \/ Crash(w) \/ Finish(w)
    BY <1>4, <2>9 DEF ClaimFails, Crash, Finish
  <2>10. CASE List(w)
    BY <1>0, <1>3, <2>10 DEF List, Run
  <2> QED BY <2>1, <2>2, <2>3, <2>4, <2>5, <2>6, <2>7, <2>8, <2>9, <2>10 DEF RunStep
<1> QED
  BY <1>2, <1>7 DEF InLease, Covered, Timely

\* What the database carries out: a new lease is at least as long as the deadline, and a
\* marked claim whose outcome is refused has lost its lease.
LEMMA ServeInLease ==
    ASSUME Kept, NEW c \in calls, ServeClaim(c) \/ ServeBegin(c) \/ ServeRecord(c)
    PROVE  InLease'
<1>0. /\ CleanupTypeOK /\ ClaimsOwned /\ CallsOwned /\ Markers
      /\ \A v \in Workers : Covered(v) /\ Timely(v)
      /\ \A v \in Workers : worker[v].left \in 0..Lease /\ worker[v].wait \in 0..CallTime
      /\ c \in Call
  BY CallClaims DEF Kept, InLease, Covered, Timely, CleanupTypeOK, Run
<1>1. CASE ServeClaim(c)
  <2>1. PICK R \in SUBSET {r \in Requests : Claimable(r)}, token \in [Requests -> Tokens],
             left \in (Lease - 1)..Lease : Granted(c, R, token, left)
    BY <1>1 DEF ServeClaim
  <2>2. \A r \in R : /\ ~InUse(token[r])
                     /\ request'[r].leaseToken = token[r]
                     /\ request'[r].left = left
    <3>1. ASSUME NEW r \in R
          PROVE  /\ request'[r].leaseToken = token[r]
                 /\ request'[r].left = left
      <4>1. request[r] \in Row
        BY <1>0 DEF Claimable, CleanupTypeOK
      <4>2. request'[r] = [request[r] EXCEPT !.leaseToken = token[r], !.left = left]
        BY <2>1 DEF Granted
      <4> QED BY <4>1, <4>2 DEF Row
    <3> QED BY <2>1, <3>1 DEF Granted
  <2>3. \A r \in Requests \ R : request'[r] = request[r]
    BY <2>1 DEF Granted
  <2>4. ASSUME NEW v \in Workers, NEW d \in Claims(v),
               request'[d.request] # None, request'[d.request].leaseToken = d.leaseToken
        PROVE  request'[d.request].left >= worker[v].left
    <3>1. d \in Claim /\ d.request \in Requests
      BY <1>0 DEF Claims, CleanupTypeOK, Run, Claim
    <3>2. InUse(d.leaseToken)
      BY RowsAssumption DEF InUse, Claims
    <3>3. d.request \notin R
      BY <2>2, <2>4, <3>2
    <3> QED BY <1>0, <2>3, <2>4, <3>1, <3>3 DEF Covered
  <2>5. CASE c.for = None
    <3>1. worker' = worker
      BY <2>1, <2>5 DEF Granted
    <3> QED BY <1>0, <2>4, <3>1 DEF InLease, Covered, Timely, Claims
  <2>6. CASE c.for # None
    <3> DEFINE u == c.for
               T == ClaimsOf(R, token)
    <3>1. /\ u \in Workers
          /\ worker[u].stage = "CLAIM" /\ worker[u].claim = None
      BY <1>0, <1>1, <2>6, CallClaims DEF CallsOwned, Waiting, ServeClaim
    <3>2. worker' = [worker EXCEPT ![u].reply = "YES", ![u].todo = T]
      BY <2>1, <2>6 DEF Granted
    <3>3. \A v \in Workers \ {u} : worker'[v] = worker[v]
      BY <1>0, <3>1, <3>2 DEF CleanupTypeOK
    <3>4. \A d \in T : d.request \in R
      BY DEF ClaimsOf
    <3> HIDE DEF T
    <3>5. /\ worker'[u].stage = "CLAIM" /\ worker'[u].claim = None
          /\ worker'[u].todo = T /\ worker'[u].left = worker[u].left
      BY <1>0, <3>1, <3>2 DEF CleanupTypeOK, Run
    <3>6. Covered(u)'
      <4>1. Claims(u)' = T
        BY <3>5, <3>4, <1>0, <2>6, <3>1 DEF Claims, T, ClaimsOf
      <4>2. \A d \in T : request'[d.request].left >= worker'[u].left
        BY <1>0, <2>2, <3>1, <3>4, <3>5, LeaseAssumption DEF Timely
      <4> QED BY <4>1, <4>2 DEF Covered
    <3>7. Timely(u)'
      BY <1>0, <3>1, <3>5 DEF Timely
    <3>8. \A v \in Workers \ {u} : Covered(v)' /\ Timely(v)'
      BY <1>0, <2>4, <3>3 DEF Covered, Timely, Claims
    <3> QED BY <3>6, <3>7, <3>8 DEF InLease, Covered, Timely
  <2> QED BY <2>5, <2>6
<1>2. CASE ServeBegin(c) \/ ServeRecord(c)
  <2>1. PICK ok \in BOOLEAN : /\ worker' = Reply(c, ok)
                            /\ (ServeRecord(c) /\ ~ok => ~Recordable(c.claim))
    <3>1. CASE ServeBegin(c)
      <4>1. ~ServeRecord(c)
        BY <3>1 DEF ServeBegin, ServeRecord
      <4>2. PICK ok \in BOOLEAN : worker' = Reply(c, ok)
        BY <3>1 DEF ServeBegin, Reply
      <4> QED BY <4>1, <4>2
    <3>2. CASE ServeRecord(c)
      <4>1. PICK ok \in BOOLEAN : ok = Recordable(c.claim)
        BY DEF Recordable, LeaseHeld
      <4>2. worker' = Reply(c, ok)
        BY <3>2, <4>1 DEF ServeRecord
      <4> QED BY <4>1, <4>2
    <3> QED BY <1>2, <3>1, <3>2
  <2>7. worker' = Reply(c, ok)
    BY <2>1
  <2>2. ASSUME NEW r \in Requests, request[r] # None
        PROVE  /\ request'[r].leaseToken = request[r].leaseToken
               /\ request'[r].left = request[r].left
    <3>1. request[r] \in Row
      BY <1>0, <2>2 DEF CleanupTypeOK
    <3>2. \/ request'[r] = request[r]
          \/ request'[r] = [request[r] EXCEPT !.activeProvider = c.claim.provider]
          \/ request'[r] = RecordedRow(request[r], c.claim.provider, c.kind)
      BY <1>0, <1>2 DEF ServeBegin, ServeRecord, CleanupTypeOK
    <3> QED BY <3>1, <3>2 DEF RecordedRow, Row
  <2>3. \A r \in Requests : request[r] = None => request'[r] = None
    BY <1>0, <1>2 DEF ServeBegin, ServeRecord, Beginnable, Recordable, LeaseHeld, CleanupTypeOK
  <2>4. \A v \in Workers : \A d \in Claims(v) : d.request \in Requests
    BY <1>0 DEF Claims, CleanupTypeOK, Run, Claim
  <2>5. ASSUME NEW v \in Workers PROVE Covered(v)'
    <3>1. Claims(v)' = Claims(v) /\ worker'[v].left = worker[v].left
      BY <1>0, <2>7, ReplyChanges DEF Claims
    <3> QED BY <1>0, <2>2, <2>3, <2>4, <3>1 DEF Covered
  <2>6. ASSUME NEW v \in Workers PROVE Timely(v)'
    <3>1. /\ worker'[v].left = worker[v].left
          /\ worker'[v].wait = worker[v].wait
          /\ worker'[v].stage = worker[v].stage
          /\ worker'[v].reply = IF v = c.for THEN IF ok THEN "YES" ELSE "NO" ELSE worker[v].reply
      BY <1>0, <2>7, ReplyChanges
    <3>2. CASE v # c.for
      BY <1>0, <3>1, <3>2 DEF Timely
    <3>3. CASE v = c.for
      <4>1. Waiting(c)
        BY <1>0, <3>3, NoneAssumption DEF CallsOwned
      <4>2. CASE ServeBegin(c)
        BY <1>0, <3>1, <3>3, <4>1, <4>2 DEF Waiting, ServeBegin, Timely
      <4>3. CASE ServeRecord(c) /\ ok
        BY <1>0, <3>1, <3>3, <4>1, <4>3 DEF Waiting, ServeRecord, Timely
      <4>4. CASE ServeRecord(c) /\ ~ok
        <5>1. c.claim \in Claim /\ c.claim.request \in Requests /\ Marked(c.claim)
          BY <1>0, <4>4, CallClaims DEF ServeRecord, Markers, Outcomes, Claim
        <5>2. ~(request[c.claim.request].left > 0)
          BY <2>1, <4>4, <5>1 DEF Recordable, LeaseHeld, Marked
        <5>3. c.claim \in Claims(v)
          BY <3>3, <4>1, <5>1, RowsAssumption DEF Waiting, Claims
        <5>4. /\ request[c.claim.request].left >= worker[v].left
              /\ request[c.claim.request].left \in Nat
          BY <1>0, <5>1, <5>3, LeaseAssumption DEF Covered, Marked, CleanupTypeOK, Row
        <5>5. worker[v].wait <= worker[v].left
          BY <1>0 DEF CleanupTypeOK
        <5>6. worker'[v].wait = 0
          BY <1>0, <3>1, <5>2, <5>4, <5>5
        <5> QED BY <1>0, <3>1, <4>1, <3>3, <4>4, <5>6 DEF Timely, Waiting, ServeRecord
      <4> QED BY <1>2, <4>2, <4>3, <4>4
    <3> QED BY <3>2, <3>3
  <2> QED BY <2>5, <2>6 DEF InLease, Covered, Timely
<1> QED
  BY <1>1, <1>2

\* Requests and erasures take no time, and time takes as much from leases as from deadlines.
LEMMA OthersInLease ==
    ASSUME Kept
    PROVE  /\ \A r \in Requests, ps \in (SUBSET Providers) \ {{}} : Request(r, ps) => InLease'
           /\ \A w \in Workers, r \in Requests : Complete(w, r) => InLease'
           /\ Tick => InLease'
<1>0. /\ CleanupTypeOK
      /\ \A v \in Workers : Covered(v) /\ Timely(v)
      /\ \A v \in Workers : \A d \in Claims(v) :
            d \in Claim /\ d.request \in Requests /\ d.leaseToken \in Tokens
  BY DEF Kept, InLease, Covered, Timely, CleanupTypeOK, Run, Claim, Claims
<1>1. ASSUME NEW q \in Requests, NEW ps \in (SUBSET Providers) \ {{}}, Request(q, ps)
      PROVE  InLease'
  <2>1. /\ \A r \in Requests \ {q} : request'[r] = request[r]
        /\ request'[q].leaseToken = None
        /\ worker' = worker
    BY <1>0, <1>1 DEF Request, NewRequest, CleanupTypeOK
  <2>2. ASSUME NEW v \in Workers PROVE Covered(v)' /\ Timely(v)'
    BY <1>0, <2>1, NoneAssumption DEF Covered, Timely, Claims
  <2> QED BY <2>2 DEF InLease, Covered, Timely
<1>2. ASSUME NEW w \in Workers, NEW q \in Requests, Complete(w, q)
      PROVE  InLease'
  <2>1. \A v \in Workers : /\ worker'[v].stage = worker[v].stage
                           /\ worker'[v].claim = worker[v].claim
                           /\ worker'[v].todo = worker[v].todo
                           /\ worker'[v].left = worker[v].left
                           /\ worker'[v].wait = worker[v].wait
                           /\ worker'[v].reply = worker[v].reply
    BY <1>0, <1>2 DEF Complete, CleanupTypeOK, Run
  <2>2. ASSUME NEW r \in Requests
        PROVE  /\ request[r] = None => request'[r] = None
               /\ request[r] # None => /\ request'[r].leaseToken = request[r].leaseToken
                                       /\ request'[r].left = request[r].left
    <3>1. CASE request'[r] = request[r]
      BY <3>1
    <3>2. CASE request[r] # None /\ request'[r] = [request[r] EXCEPT !.appStatus = "DELETED"]
      <4>1. request[r] \in Row
        BY <1>0, <3>2 DEF CleanupTypeOK
      <4> QED BY <3>2, <4>1 DEF Row
    <3> QED BY <1>0, <1>2, <3>1, <3>2 DEF Complete, Completable, Ready, CleanupTypeOK
  <2>3. ASSUME NEW v \in Workers PROVE Covered(v)' /\ Timely(v)'
    BY <1>0, <2>1, <2>2 DEF Covered, Timely, Claims
  <2> QED BY <2>3 DEF InLease, Covered, Timely
<1>3. ASSUME Tick PROVE InLease'
  <2>1. \A v \in Workers : /\ worker'[v].stage = worker[v].stage
                           /\ worker'[v].claim = worker[v].claim
                           /\ worker'[v].todo = worker[v].todo
                           /\ worker'[v].left = Less(worker[v].left)
                           /\ worker'[v].wait = Less(worker[v].wait)
                           /\ worker'[v].reply = worker[v].reply
                           /\ worker[v].left \in Nat /\ worker[v].wait \in Nat
    <3>1. ASSUME NEW v \in Workers
          PROVE  worker'[v] = [worker[v] EXCEPT !.left = Less(@), !.wait = Less(@)]
      BY <1>3 DEF Tick
    <3>2. \A v \in Workers : worker[v] \in Run
      BY <1>0 DEF CleanupTypeOK
    <3>3. \A run \in Run : run.left \in Nat /\ run.wait \in Nat
      BY LeaseAssumption DEF Run
    <3> QED BY <3>1, <3>2, <3>3 DEF Run
  <2>2. ASSUME NEW r \in Requests
        PROVE  /\ request[r] = None => request'[r] = None
               /\ request[r] # None => /\ request'[r].leaseToken = request[r].leaseToken
                                       /\ request'[r].left = Less(request[r].left)
                                       /\ request[r].left \in Nat
    <3>1. CASE request[r] = None
      BY <1>3, <3>1 DEF Tick
    <3>2. CASE request[r] # None
      <4>1. request'[r] = [request[r] EXCEPT !.left = Less(@)] /\ request[r] \in Row
        BY <1>0, <1>3, <3>2 DEF Tick, CleanupTypeOK
      <4>2. request[r].left \in Nat
        BY <4>1, LeaseAssumption DEF Row
      <4> QED BY <3>2, <4>1, <4>2 DEF Row
    <3> QED BY <3>1, <3>2
  <2>3. \A m, n \in Nat : m >= n => Less(m) >= Less(n)
    BY DEF Less
  <2>4. ASSUME NEW v \in Workers PROVE Covered(v)'
    <3>1. Claims(v)' = Claims(v)
      BY <2>1 DEF Claims
    <3> QED BY <1>0, <2>1, <2>2, <2>3, <3>1 DEF Covered
  <2>5. ASSUME NEW v \in Workers PROVE Timely(v)'
    BY <1>0, <2>1, LeaseAssumption DEF Timely, Less
  <2> QED BY <2>4, <2>5 DEF InLease, Covered, Timely
<1> QED
  BY <1>1, <1>2, <1>3

(***************************************************************************)
(* The theorems.                                                           *)
(***************************************************************************)

\* At first there are no requests, claims or statements.
LEMMA KeptAtFirst == CleanupInit => Kept
<1> SUFFICES ASSUME CleanupInit PROVE Kept
  OBVIOUS
<1>1. \A w \in Workers : worker[w] = Idle
  BY DEF CleanupInit
<1>2. CleanupTypeOK
  <2>1. Idle \in Run /\ Idle.wait <= Idle.left
    BY TimesBounded DEF Idle, Run, Stages
  <2>2. remote \in [Requests -> [Providers -> [sent : Nat, settled : BOOLEAN]]]
    BY DEF CleanupInit
  <2> QED BY <1>1, <2>1, <2>2, FailuresAssumption DEF CleanupInit, CleanupTypeOK
<1>3. ClaimsOwned
  BY <1>1 DEF Idle, ClaimsOwned, Orderly, Claims
<1>4. CallsOwned /\ Markers
  BY <1>1 DEF CleanupInit, Idle, CallsOwned, Markers, InFlight, Outcomes
<1>5. SentOnce /\ SettledFirst
  BY <1>1 DEF CleanupInit, Idle, SentOnce, SettledFirst, InFlight
<1>6. InLease
  BY <1>1, LeaseAssumption DEF Idle, InLease, Claims
<1> QED
  BY <1>2, <1>3, <1>4, <1>5, <1>6 DEF Kept

\* Each step keeps the invariant.
LEMMA KeptByStep == Kept /\ [CleanupNext]_cleanupVars => Kept'
<1> SUFFICES ASSUME Kept, [CleanupNext]_cleanupVars PROVE Kept'
  OBVIOUS
<1>0. CleanupTypeOK /\ ClaimsOwned /\ CallsOwned /\ Markers
  BY DEF Kept
<1>1. ASSUME NEW w \in Workers, RunStep(w) PROVE Kept'
  <2>1. CleanupTypeOK' /\ ClaimsOwned' /\ CallsOwned' /\ Markers'
    BY <1>0, <1>1, RunTypes, RunOwnsClaims, RunOwnsCalls, RunMarks
  <2>2. SentOnce'
    BY <1>1, RunSendsNone, DispatchSendsOne
  <2>3. SettledFirst' /\ InLease'
    BY <1>1, RunSettles, RunInLease
  <2> QED BY <2>1, <2>2, <2>3 DEF Kept
<1>2. ASSUME NEW c \in calls, ServeClaim(c) \/ ServeBegin(c) \/ ServeRecord(c) PROVE Kept'
  <2>1. CleanupTypeOK'
    BY <1>0, <1>2, ServeTypes
  <2>2. ClaimsOwned' /\ CallsOwned' /\ Markers'
    BY <1>0, <1>2, ServeOwns, ServeMarks
  <2>3. SentOnce' /\ SettledFirst' /\ InLease'
    BY <1>2, ServeSendsNone, ServeSettles, ServeInLease
  <2> QED BY <2>1, <2>2, <2>3 DEF Kept
<1>3. ASSUME NEW r \in Requests, NEW ps \in (SUBSET Providers) \ {{}}, Request(r, ps) PROVE Kept'
  BY <1>0, <1>3, OtherTypes, OthersOwn, OthersMark, OthersSendNone, OthersSettle, OthersInLease
     DEF Kept
<1>4. ASSUME NEW w \in Workers, NEW r \in Requests, Complete(w, r) PROVE Kept'
  BY <1>0, <1>4, OtherTypes, OthersOwn, OthersMark, OthersSendNone, OthersSettle, OthersInLease
     DEF Kept
<1>5. ASSUME Tick PROVE Kept'
  BY <1>0, <1>5, OtherTypes, OthersOwn, OthersMark, OthersSendNone, OthersSettle, OthersInLease
     DEF Kept
<1>6. CASE UNCHANGED cleanupVars
  BY <1>6 DEF cleanupVars, Kept, CleanupTypeOK, ClaimsOwned, Orderly, Claims, CallsOwned, Waiting,
              Markers, Marked, InFlight, Outcomes, SentOnce, Unsent, SettledFirst, Ready, Listed,
              InLease
<1> QED
  BY <1>1, <1>2, <1>3, <1>4, <1>5, <1>6 DEF CleanupNext, Serve

\* In every reachable state the tables, the runs and the statements have the shape they are
\* declared with, and a run waits for at most what is left of its lease: ProviderCleanup's
\* type invariant, for any lease that is longer than two calls.
THEOREM CleanupTypeCorrect == CleanupSpec => []CleanupTypeOK
<1>1. CleanupSpec => []Kept
  BY KeptAtFirst, KeptByStep, PTL DEF CleanupSpec
<1>2. Kept => CleanupTypeOK
  BY DEF Kept
<1> QED
  BY <1>1, <1>2, PTL

\* No provider gets a second revocation for a request, whatever is lost, late or crashes,
\* with any number of requests, providers, runs and failures (ssoProviderRevoke.ts).
THEOREM RevokedOnce == CleanupSpec => []RevokedAtMostOnce
<1>1. CleanupSpec => []Kept
  BY KeptAtFirst, KeptByStep, PTL DEF CleanupSpec
<1>2. Kept => RevokedAtMostOnce
  BY DEF Kept, SentOnce, RevokedAtMostOnce
<1> QED
  BY <1>1, <1>2, PTL

\* Nobody is erased before each listed provider was revoked or found to hold nothing
\* (completeSsoAccountErasure).
THEOREM CleanupComesFirst == CleanupSpec => []ErasedAfterCleanup
<1>1. CleanupSpec => []Kept
  BY KeptAtFirst, KeptByStep, PTL DEF CleanupSpec
<1>2. Kept => ErasedAfterCleanup
  BY DEF Kept, SettledFirst, ErasedAfterCleanup, Ready, Listed
<1> QED
  BY <1>1, <1>2, PTL

\* While a run waits for a call or its record, the database would accept the record, with
\* the time of a call to spare: for every lease longer than two calls (LEASE_RESERVE_MS).
THEOREM LeaseOutlastsCall == CleanupSpec => []LeaseCoversCall
<1>1. CleanupSpec => []Kept
  BY KeptAtFirst, KeptByStep, PTL DEF CleanupSpec
<1>2. ASSUME Kept PROVE LeaseCoversCall
  <2>1. SUFFICES ASSUME NEW w \in Workers, worker[w].wait > 0,
                        \/ worker[w].stage = "CALL"
                        \/ worker[w].stage = "RECORD" /\ worker[w].reply # "YES"
                 PROVE  /\ Recordable(worker[w].claim)
                        /\ worker[w].stage = "CALL" =>
                              request[worker[w].claim.request].left >= worker[w].wait + CallTime
                        /\ worker[w].stage = "RECORD" => worker[w].reply = "NONE"
    BY DEF LeaseCoversCall
  <2> DEFINE c == worker[w].claim
  <2>2. /\ CleanupTypeOK /\ ClaimsOwned /\ Markers
        /\ Covered(w) /\ Timely(w)
        /\ worker[w].wait <= worker[w].left
        /\ worker[w].wait \in Nat /\ worker[w].left \in Nat
        /\ worker[w].reply \in {"NONE", "YES", "NO"}
    BY <1>2, LeaseAssumption DEF Kept, InLease, Covered, Timely, CleanupTypeOK, Run
  <2>3. c \in Claim /\ c.request \in Requests /\ c \in Claims(w)
    BY <2>1, <2>2, CurrentClaim, RowsAssumption DEF Claims
  <2>4. worker[w].stage = "RECORD" => worker[w].reply = "NONE"
    BY <2>1, <2>2 DEF Timely
  <2>5. Marked(c)
    BY <2>1, <2>2, <2>4 DEF Markers, InFlight
  <2>6. request[c.request].left >= worker[w].left /\ request[c.request].left \in Nat
    BY <2>2, <2>3, <2>5, LeaseAssumption DEF Covered, Marked, CleanupTypeOK, Row
  <2>7. Recordable(c)
    BY <2>1, <2>2, <2>5, <2>6 DEF Recordable, LeaseHeld, Marked
  <2>8. worker[w].stage = "CALL" => worker[w].left >= worker[w].wait + CallTime
    BY <2>1, <2>2 DEF Timely
  <2> QED BY <2>2, <2>4, <2>6, <2>7, <2>8, LeaseAssumption
<1> QED
  BY <1>1, <1>2, PTL
=============================================================================
