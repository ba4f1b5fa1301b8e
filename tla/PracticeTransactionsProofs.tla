--------------------- MODULE PracticeTransactionsProofs ---------------------
(* Theorems about PracticeTransactions: whatever the interleaving of the       *)
(* transactions' statements, the committed rows change as in StudyPractice,     *)
(* and only the deletions that cascade can take part in a deadlock.             *)
EXTENDS PracticeTransactions, TLAPS

\* What is known of StudyPractice.
Service == INSTANCE StudyOutcomeProofs

(***************************************************************************)
(* StudyPractice, as this module and as its theorems name it.              *)
(***************************************************************************)

\* The handlers that create, read, cancel and clear.
LEMMA SameRequests ==
    \A o, s, at :
        /\ Practice!CreateSession(o, s, at) <=> Service!CreateSession(o, s, at)
        /\ Practice!GetSession(o, s, at) <=> Service!GetSession(o, s, at)
        /\ Practice!GetDraft(o, s, at) <=> Service!GetDraft(o, s, at)
        /\ Practice!CancelSession(o, s, at) <=> Service!CancelSession(o, s, at)
        /\ Practice!ClearGuest(o) <=> Service!ClearGuest(o)
BY DEF Practice!CreateSession, Service!CreateSession, Practice!CreateForUser,
       Service!CreateForUser, Practice!CreateForGuest, Service!CreateForGuest,
       Practice!CreateForNewGuest, Service!CreateForNewGuest, Practice!Started,
       Service!Started, Practice!Earlier, Service!Earlier, Practice!GetSession,
       Service!GetSession, Practice!GetDraft, Service!GetDraft, Practice!ExpireOnRead,
       Service!ExpireOnRead, Practice!CancelSession, Service!CancelSession,
       Practice!CancelApplies, Service!CancelApplies, Practice!Expired, Service!Expired,
       Practice!InProgress, Service!InProgress, Practice!Owned, Service!Owned, Practice!Live,
       Service!Live, Practice!GuestProof, Service!GuestProof, Practice!ClearGuest,
       Service!ClearGuest, Practice!RecordId, Service!RecordId, Practice!Owners,
       Service!Owners, Practice!Operations, Service!Operations

\* The handlers that answer under a key.
LEMMA SameKeyedRequests ==
    /\ \A o, k, s, answers, revision, at :
          Practice!SaveDraft(o, k, s, answers, revision, at)
              <=> Service!SaveDraft(o, k, s, answers, revision, at)
    /\ \A o, k, s, answers, revision, note, at :
          Practice!Submit(o, k, s, answers, revision, note, at)
              <=> Service!Submit(o, k, s, answers, revision, note, at)
    /\ \A o, k, source, s, at :
          Practice!RetryMistakes(o, k, source, s, at)
              <=> Service!RetryMistakes(o, k, source, s, at)
    /\ \A o, k, s, at :
          Practice!TargetedReview(o, k, s, at) <=> Service!TargetedReview(o, k, s, at)
BY DEF Practice!SaveDraft, Service!SaveDraft, Practice!SaveExpires, Service!SaveExpires,
       Practice!SaveApplies, Service!SaveApplies, Practice!Submit, Service!Submit,
       Practice!SubmitExpires, Service!SubmitExpires, Practice!SubmitApplies,
       Service!SubmitApplies, Practice!SubmittedAt, Service!SubmittedAt,
       Practice!RetryMistakes, Service!RetryMistakes, Practice!RetryExpiry,
       Service!RetryExpiry, Practice!TargetedReview, Service!TargetedReview,
       Practice!Started, Service!Started, Practice!Later, Service!Later, Practice!Earlier,
       Service!Earlier, Practice!Fresh, Service!Fresh, Practice!InProgress,
       Service!InProgress, Practice!Expired, Service!Expired, Practice!Commit,
       Service!Commit, Practice!Retention, Service!Retention, Practice!GuestProof,
       Service!GuestProof, Practice!Owned, Service!Owned, Practice!Live, Service!Live

\* The clean-up job.
LEMMA SameCleanup ==
    \A x :
        /\ Practice!CleanDraft(x) <=> Service!CleanDraft(x)
        /\ Practice!CleanSession(x) <=> Service!CleanSession(x)
        /\ Practice!CleanPrincipal(x) <=> Service!CleanPrincipal(x)
        /\ Practice!CleanRecord(x) <=> Service!CleanRecord(x)
BY DEF Practice!CleanDraft, Service!CleanDraft, Practice!CleanSession, Service!CleanSession,
       Practice!CleanPrincipal, Service!CleanPrincipal, Practice!CleanRecord,
       Service!CleanRecord, Practice!DraftSession, Service!DraftSession,
       Practice!ClosedSession, Service!ClosedSession, Practice!ExpiredPrincipal,
       Service!ExpiredPrincipal, Practice!ExpiredReplay, Service!ExpiredReplay,
       Practice!NoOpenReplay, Service!NoOpenReplay, Practice!WithoutSession,
       Service!WithoutSession, Practice!GuestOwned, Service!GuestOwned, Practice!InProgress,
       Service!InProgress, Practice!Owned, Service!Owned, Practice!Live, Service!Live,
       Practice!RecordId, Service!RecordId, Practice!Owners, Service!Owners,
       Practice!Operations, Service!Operations

\* Every step.
LEMMA SameNext == [Practice!Next]_Practice!vars <=> [Service!Next]_Service!vars
<1>1. Practice!Owners = Service!Owners /\ Practice!Observed = Service!Observed
  BY DEF Practice!Owners, Service!Owners, Practice!Observed, Service!Observed
<1>2. Practice!RecordId = Service!RecordId
  BY <1>1 DEF Practice!RecordId, Service!RecordId, Practice!Operations, Service!Operations
<1>3. Practice!vars = Service!vars /\ Practice!vars' = Service!vars'
  BY DEF Practice!vars, Service!vars
<1>4. \A o, s, at : Practice!ClientRequestOf(o, s, at) <=> Service!ClientRequestOf(o, s, at)
  BY SameRequests, SameKeyedRequests DEF Practice!ClientRequestOf, Service!ClientRequestOf
<1>5. Practice!ClientRequest <=> Service!ClientRequest
  BY <1>1, <1>4 DEF Practice!ClientRequest, Service!ClientRequest
<1>6. Practice!Cleanup <=> Service!Cleanup
  BY <1>2, SameCleanup DEF Practice!Cleanup, Service!Cleanup
<1>7. Practice!Tick <=> Service!Tick
  BY DEF Practice!Tick, Service!Tick
<1> QED
  BY <1>3, <1>5, <1>6, <1>7, SameRequests DEF Practice!Next, Service!Next

(***************************************************************************)
(* The rows.                                                               *)
(***************************************************************************)

\* The rows satisfy what StudyPractice promises of them, and an id that was not used yet
\* belongs to nobody.
RowsConsistent ==
    /\ Service!GuestsConsistent
    /\ Service!SessionsConsistent
    /\ \A s \in Sessions : session[s].status = "UNUSED" => session[s].owner = None

\* The tables have their shapes.
LEMMA RowsTyped ==
    ASSUME RowsConsistent
    PROVE  /\ now \in Nat
           /\ session \in [Sessions -> Practice!SessionRow]
           /\ draft \in [Sessions -> Practice!DraftRow \cup {None}]
           /\ result \in [Sessions -> Practice!ResultRow \cup {None}]
           /\ record \in [Practice!RecordId -> Practice!ReplayRow \cup {None}]
           /\ guest \in [Guests -> Practice!GuestRow]
<1>1. Service!TypeOK
  BY DEF RowsConsistent, Service!GuestsConsistent, Service!Consistent
<1>2. Practice!SessionRow = Service!SessionRow /\ Practice!GuestRow = Service!GuestRow
  BY DEF Practice!SessionRow, Service!SessionRow, Practice!Statuses, Service!Statuses,
         Practice!Owners, Service!Owners, Practice!GuestRow, Service!GuestRow
<1>3. Practice!DraftRow = Service!DraftRow /\ Practice!ResultRow = Service!ResultRow
  BY DEF Practice!DraftRow, Service!DraftRow, Practice!ResultRow, Service!ResultRow
<1>4. Practice!ReplayRow = Service!ReplayRow /\ Practice!RecordId = Service!RecordId
  BY DEF Practice!ReplayRow, Service!ReplayRow, Practice!Response, Service!Response,
         Practice!RecordId, Service!RecordId, Practice!Owners, Service!Owners,
         Practice!Operations, Service!Operations
<1> QED
  BY <1>1, <1>2, <1>3, <1>4 DEF Service!TypeOK

\* The assumptions of StudyPractice are those of this module.
LEMMA ServiceAssumptions ==
    /\ Users \cap Guests = {} /\ None \notin Service!Owners \cup Sessions
    /\ None \notin Service!DraftRow /\ None \notin Service!ResultRow
    /\ None \notin Service!ReplayRow
BY OwnersAssumption, RowsAssumption
DEF Service!Owners, Practice!DraftRow, Service!DraftRow, Practice!ResultRow,
    Service!ResultRow, Practice!ReplayRow, Service!ReplayRow, Practice!Response,
    Service!Response

\* The empty database is consistent.
LEMMA RowsInit == Practice!Init => RowsConsistent
<1> SUFFICES ASSUME Practice!Init PROVE RowsConsistent
  OBVIOUS
<1>1. Service!Init
  BY DEF Practice!Init, Service!Init, Practice!RecordId, Service!RecordId, Practice!Owners,
         Service!Owners, Practice!Operations, Service!Operations
<1>2. Service!GuestsConsistent
  BY <1>1, Service!InitGuestsConsistent, ServiceAssumptions, SheetsAssumption, TimesAssumption
<1>3. Service!SessionsConsistent
  BY <1>1, Service!InitSessionsConsistent, ServiceAssumptions, SheetsAssumption, TimesAssumption
<1> QED
  BY <1>1, <1>2, <1>3 DEF RowsConsistent, Service!Init

\* What a step of StudyPractice does to the rows, whoever takes it.
LEMMA RowsNext ==
    ASSUME RowsConsistent, [Practice!Next]_Practice!vars
    PROVE  /\ RowsConsistent'
           /\ \A s \in Sessions : Service!Onward(s)
           /\ \A g \in Guests : Service!GuestOnward(g)
           /\ \A s \in Sessions, at \in Nat :
                 at <= now /\ Service!Abandoned(s, at) => Service!Abandoned(s, at)'
<1>1. [Service!Next]_Service!vars
  BY SameNext
<1>2. /\ Service!GuestsConsistent /\ Service!SessionsConsistent /\ Service!Consistent
  BY DEF RowsConsistent, Service!GuestsConsistent
<1>3. Service!GuestsConsistent'
  BY <1>1, <1>2, Service!NextGuestsConsistent, ServiceAssumptions, SheetsAssumption,
     TimesAssumption
<1>4. Service!SessionsConsistent'
  BY <1>1, <1>2, Service!NextSessionsConsistent, ServiceAssumptions, SheetsAssumption,
     TimesAssumption
<1>5. \A s \in Sessions : Service!Onward(s)
  BY <1>1, <1>2, Service!NextOnward, ServiceAssumptions, SheetsAssumption, TimesAssumption
<1>6. \A g \in Guests : Service!GuestOnward(g)
  BY <1>1, <1>2, Service!NextGuestsOnward, ServiceAssumptions, SheetsAssumption,
     TimesAssumption
<1>7. \A s \in Sessions, at \in Nat :
         at <= now /\ Service!Abandoned(s, at) => Service!Abandoned(s, at)'
  BY <1>1, <1>2, Service!NextAbandoned, ServiceAssumptions, SheetsAssumption,
     TimesAssumption, GraceAssumption
<1>8. \A s \in Sessions : session'[s].status = "UNUSED" => session'[s].owner = None
  BY <1>5 DEF RowsConsistent, Service!Onward
<1> QED
  BY <1>3, <1>4, <1>5, <1>6, <1>7, <1>8 DEF RowsConsistent

(***************************************************************************)
(* The inductive invariant.                                                *)
(***************************************************************************)

\* A handler goes through these steps.
StepsOf(kind) ==
    CASE kind = "CREATE" -> {"START", "GUEST", "WRITE"}
      [] kind = "SAVE" -> {"START", "SESSION", "LOOK", "EXPIRE", "RESERVE", "WRITE"}
      [] kind = "SUBMIT" -> {"START", "GUEST", "LOOK", "RESERVE", "SESSION", "EXPIRE", "WRITE"}
      [] kind = "RETRY" -> {"START", "GUEST", "LOOK", "SOURCE", "RESERVE", "WRITE"}
      [] kind \in {"READ", "CANCEL"} -> {"START", "SESSION"}
      [] kind = "CLEAR" -> {"START", "CLEAR", "CASCADE"}
      [] OTHER -> {"START", "CLEAN", "WRITE"}

HandlerKinds == {"CREATE", "SAVE", "SUBMIT", "RETRY", "READ", "CANCEL", "CLEAR", "CLEAN"}

\* Call c runs a handler of this kind and is at one of these steps.
In(c, kind, steps) == Active(c) /\ Request(c).kind = kind /\ txn[c].step \in steps

\* The snapshot shows a session that is due.
DueSeen(c) == Snap(c).session[Request(c).session].expiresAt <= Request(c).at

\* A request has the parts its handler needs.
Suited(r) ==
    /\ r.kind \in HandlerKinds
    /\ r.kind # "CLEAN" => r.owner \in Users \cup Guests
    /\ r.kind \notin {"CLEAR", "CLEAN"} => r.session \in Sessions
    /\ r.kind \in {"CLEAR", "CLEAN"} => r.session = None
    /\ r.kind \in {"SAVE", "SUBMIT", "RETRY"} => r.key \in Keys
    /\ r.kind = "RETRY" => r.source \in Sessions
    /\ r.kind = "CLEAR" => r.owner \in Guests
    /\ r.kind \in {"SAVE", "SUBMIT"} => r.answers \in Sheets /\ r.revision \in 0..MaxRevision
    /\ r.kind = "SAVE" => r.revision < MaxRevision
    /\ r.kind = "CLEAN" => r = [kind |-> r.kind, owner |-> r.owner, session |-> r.session,
                                key |-> r.key, source |-> r.source, answers |-> r.answers,
                                revision |-> r.revision, target |-> r.target, at |-> r.at]
    /\ r.at \in Nat

\* A transaction is at a step of its handler.
Typed(c) ==
    /\ txn[c] = [step |-> txn[c].step, attempt |-> txn[c].attempt, request |-> txn[c].request,
                 snap |-> txn[c].snap, locks |-> txn[c].locks]
    /\ txn[c].attempt \in 0..MaxAttempts
    /\ Active(c) => Suited(Request(c)) /\ txn[c].step \in StepsOf(Request(c).kind)

\* A handler finishes soon after it has read the clock.
Timely(c) == Active(c) => Request(c).at <= now /\ now <= Request(c).at + MaxLag

\* What a transaction has learned from its snapshot before it reaches a step.
Learned(c) ==
    LET r == Request(c)
        seen == Snap(c).session[r.session]
    IN  /\ \/ In(c, "CREATE", {"GUEST"})
           \/ In(c, "SUBMIT", {"GUEST"})
           \/ In(c, "RETRY", {"GUEST"})
           => r.owner \in Guests
        /\ In(c, "CREATE", {"WRITE"}) /\ r.owner \in Guests =>
              \/ Snap(c).guest[r.owner].state = "UNUSED"
              \/ ProofSeen(c) /\ Snap(c).guest[r.owner].lastSeenAt <= r.at
        /\ In(c, "SAVE", {"LOOK", "EXPIRE", "RESERVE", "WRITE"}) =>
              ProofSeen(c) /\ OwnedSeen(c, r.session)
        /\ In(c, "SAVE", {"EXPIRE"}) => seen.status = "IN_PROGRESS" /\ DueSeen(c)
        /\ In(c, "SAVE", {"RESERVE", "WRITE"}) =>
              /\ FreshSeen(c)
              /\ seen.status = "IN_PROGRESS"
              /\ ~DueSeen(c)
              /\ Snap(c).draft[r.session].revision = r.revision
        /\ In(c, "SUBMIT", {"LOOK", "RESERVE", "SESSION", "EXPIRE", "WRITE"})
              /\ r.owner \in Guests => ProofSeen(c)
        /\ In(c, "SUBMIT", {"RESERVE", "SESSION", "EXPIRE", "WRITE"}) =>
              /\ OwnedSeen(c, r.session)
              /\ FreshSeen(c)
              /\ seen.status = "IN_PROGRESS"
        /\ In(c, "SUBMIT", {"RESERVE", "WRITE"}) => ~DueSeen(c)
        /\ In(c, "SUBMIT", {"EXPIRE"}) => DueSeen(c)
        /\ In(c, "RETRY", {"LOOK", "SOURCE", "RESERVE", "WRITE"})
              /\ r.owner \in Guests => ProofSeen(c)
        /\ In(c, "RETRY", {"SOURCE", "RESERVE", "WRITE"}) => FreshSeen(c)
        /\ In(c, "RETRY", {"RESERVE", "WRITE"}) =>
              /\ OwnedSeen(c, r.source)
              /\ Snap(c).session[r.source].status = "SUBMITTED"
              /\ Snap(c).result[r.source] # None
              /\ Snap(c).result[r.source].answers \in Mistaken

\* What a transaction holds at a step: the guest, the session, the source, the outdated
\* record, the reservation, the guest to be deleted.
HoldsGuest(c) ==
    \/ In(c, "CREATE", {"WRITE"})
    \/ In(c, "SUBMIT", {"LOOK", "RESERVE", "SESSION", "EXPIRE", "WRITE"})
    \/ In(c, "RETRY", {"LOOK", "SOURCE", "RESERVE", "WRITE"})

HoldsSession(c) ==
    \/ In(c, "SAVE", {"LOOK", "EXPIRE", "RESERVE", "WRITE"})
    \/ In(c, "SUBMIT", {"EXPIRE", "WRITE"})

HoldsSource(c) == In(c, "RETRY", {"RESERVE", "WRITE"})

HoldsDiscarded(c) ==
    \/ In(c, "SUBMIT", {"RESERVE", "SESSION", "EXPIRE", "WRITE"})
    \/ In(c, "RETRY", {"SOURCE", "RESERVE", "WRITE"})

HoldsReservation(c) ==
    \/ In(c, "SAVE", {"WRITE"})
    \/ In(c, "SUBMIT", {"WRITE"})
    \/ In(c, "SUBMIT", {"SESSION"}) /\ ~DueSeen(c)
    \/ In(c, "RETRY", {"WRITE"})

HeldLocks(c) ==
    LET r == Request(c)
    IN  {l \in {<<"guest", r.owner, GuestLock>>} : HoldsGuest(c) /\ r.owner \in Guests}
        \cup {l \in {<<"session", r.session, "UPDATE">>} : HoldsSession(c)}
        \cup {l \in {<<"session", r.source, "KEY_SHARE">>} : HoldsSource(c)}
        \cup {l \in {<<"record", Id(r), "UPDATE">>} : HoldsDiscarded(c) /\ Outdated(c)}
        \cup {l \in Reservation(r) : HoldsReservation(c)}
        \cup {l \in {<<"guest", r.owner, "UPDATE">>} : In(c, "CLEAR", {"CASCADE"})}

\* The lock on a clean-up candidate itself.
TargetLock(target) ==
    <<CASE target[1] = "principal" -> "guest"
        [] target[1] = "idempotency" -> "record"
        [] OTHER -> "session",
      target[2], "UPDATE">>

\* A transaction holds its locks from the step that waited for them until it ends.
Holding(c) ==
    /\ ~Active(c) \/ Request(c).kind # "CLEAN" => txn[c].locks = IF Active(c) THEN HeldLocks(c) ELSE {}
    /\ In(c, "CLEAN", {"START", "CLEAN"}) => txn[c].locks = {}
    /\ In(c, "CLEAN", {"WRITE"}) => TargetLock(Request(c).target) \in txn[c].locks

\* The transactions that have taken a snapshot.
Begun(c) ==
    /\ Active(c)
    /\ Request(c).kind \in {"CREATE", "SAVE", "SUBMIT", "RETRY"}
    /\ txn[c].step # "START"

\* The rows behind these locks are as the snapshot of c shows them; a guest who is shared
\* has not been deleted.
Unchanged(c, locks) ==
    /\ \A s \in Sessions :
          <<"session", s, "UPDATE">> \in locks \/ <<"session", s, "KEY_SHARE">> \in locks
              => session[s] = Snap(c).session[s]
    /\ \A id \in Practice!RecordId :
          <<"record", id, "UPDATE">> \in locks => record[id] = Snap(c).record[id]
    /\ \A g \in Guests :
          /\ <<"guest", g, GuestLock>> \in locks => guest[g] = Snap(c).guest[g]
          /\ <<"guest", g, "KEY_SHARE">> \in locks => guest[g].state = "LIVE"

\* A locked row stays as it was seen.
Pinned(c) == Begun(c) => Unchanged(c, txn[c].locks)

\* Rows that are not locked can only have moved on since the snapshot: a submitted session
\* keeps its result until it is deleted, and a credential that was good is still long enough.
Current(c) ==
    LET r == Request(c)
    IN  /\ Begun(c) => \A s \in Sessions :
              Snap(c).session[s].status = "SUBMITTED" =>
                  \/ session[s].status = "DELETED"
                  \/ session[s].status = "SUBMITTED" /\ result[s] = Snap(c).result[s]
        /\ \/ Begun(c) /\ r.owner \in Guests /\ ProofSeen(c)
           \/ In(c, "READ", {"SESSION"}) /\ r.owner \in Guests
           \/ In(c, "CANCEL", {"SESSION"}) /\ r.owner \in Guests
           => guest[r.owner].state # "UNUSED" /\ guest[r.owner].expiresAt > r.at

\* The clean-up job has chosen a row there is; if it is to delete a draft, the session is
\* abandoned for good, and once it is locked not deleted either.
Cleaning(c) ==
    LET r == Request(c)
        x == r.target[2]
    IN  /\ In(c, "CLEAN", {"CLEAN", "WRITE"}) =>
              /\ r.target[1] \in {"draft", "session", "principal", "idempotency"}
              /\ r.target[1] = "draft" => x \in Sessions /\ Service!Abandoned(x, r.at)
        /\ In(c, "CLEAN", {"WRITE"}) /\ r.target[1] = "draft" =>
              session[x].status \in {"IN_PROGRESS", "EXPIRED"}

\* The new session of a transaction is nobody else's.
New(c) ==
    Active(c) /\ Request(c).kind \in {"CREATE", "RETRY"} =>
        /\ session[Request(c).session].status = "UNUSED"
        /\ \A d \in Calls \ {c} : Active(d) => Request(d).session # Request(c).session

Good(c) ==
    /\ Typed(c)
    /\ Timely(c)
    /\ Learned(c)
    /\ Holding(c)
    /\ Pinned(c)
    /\ Current(c)
    /\ Cleaning(c)
    /\ New(c)

\* No two transactions hold locks that exclude each other.
Exclusive ==
    \A c, d \in Calls :
        c # d => \A l \in txn[c].locks, m \in txn[d].locks : ~Clash(l, m)

Inv ==
    /\ RowsConsistent
    /\ txn = [c \in Calls |-> txn[c]]
    /\ \A c \in Calls : Good(c)
    /\ Exclusive

(***************************************************************************)
(* What a step of one transaction leaves alone of another.                 *)
(***************************************************************************)

\* What a transaction has learned and holds is said by the transaction alone.
LEMMA SameTransaction ==
    ASSUME NEW d \in Calls, txn'[d] = txn[d]
    PROVE  /\ Typed(d) => Typed(d)'
           /\ Learned(d) => Learned(d)'
           /\ Holding(d) => Holding(d)'
<1>1. Active(d)' = Active(d) /\ Request(d)' = Request(d) /\ Snap(d)' = Snap(d)
  BY DEF Active, Request, Snap
<1>2. \A kind, steps : In(d, kind, steps)' = In(d, kind, steps)
  BY <1>1 DEF In
<1>3. /\ ProofSeen(d)' = ProofSeen(d)
      /\ FreshSeen(d)' = FreshSeen(d)
      /\ Outdated(d)' = Outdated(d)
      /\ DueSeen(d)' = DueSeen(d)
      /\ \A s : OwnedSeen(d, s)' = OwnedSeen(d, s)
  BY <1>1 DEF ProofSeen, FreshSeen, Outdated, DueSeen, OwnedSeen, RecordSeen
<1>4. Typed(d) => Typed(d)'
  BY <1>1 DEF Typed
<1>5. Learned(d) => Learned(d)'
  BY <1>1, <1>2, <1>3 DEF Learned
<1>6. HeldLocks(d)' = HeldLocks(d)
  BY <1>1, <1>2, <1>3 DEF HeldLocks, HoldsGuest, HoldsSession, HoldsSource, HoldsDiscarded,
     HoldsReservation
<1>7. Holding(d) => Holding(d)'
  BY <1>1, <1>2, <1>6 DEF Holding
<1> QED
  BY <1>4, <1>5, <1>7

\* What it has pinned, and what else it counts on, stays as long as the rows do.
LEMMA SameRows ==
    ASSUME NEW d \in Calls, txn'[d] = txn[d], UNCHANGED rows
    PROVE  /\ Pinned(d) => Pinned(d)'
           /\ Current(d) => Current(d)'
           /\ Cleaning(d) => Cleaning(d)'
<1>1. Active(d)' = Active(d) /\ Request(d)' = Request(d) /\ Snap(d)' = Snap(d)
  BY DEF Active, Request, Snap
<1>2. \A kind, steps : In(d, kind, steps)' = In(d, kind, steps)
  BY <1>1 DEF In
<1>3. Begun(d)' = Begun(d) /\ ProofSeen(d)' = ProofSeen(d)
  BY <1>1 DEF Begun, ProofSeen
<1>4. \A locks : Unchanged(d, locks)' = Unchanged(d, locks)
  BY <1>1 DEF Unchanged, rows
<1>5. Pinned(d) => Pinned(d)'
  BY <1>3, <1>4 DEF Pinned
<1>6. Current(d) => Current(d)'
  BY <1>1, <1>2, <1>3 DEF Current, rows
<1>7. \A x, at : Service!Abandoned(x, at)' = Service!Abandoned(x, at)
  BY DEF Service!Abandoned, rows
<1>8. Cleaning(d) => Cleaning(d)'
  BY <1>1, <1>2, <1>7 DEF Cleaning, rows
<1> QED
  BY <1>5, <1>6, <1>8

\* A transaction moves and the rows stay: the invariant is kept if that transaction is as it
\* should be, takes no lock that another one excludes, and is not about another one's new
\* session.
LEMMA OneMoves ==
    ASSUME Inv, NEW c \in Calls, UNCHANGED <<now, rows>>,
           txn' = [txn EXCEPT ![c] = txn'[c]],
           Good(c)',
           \A d \in Calls \ {c} : \A l \in txn'[c].locks, m \in txn[d].locks : ~Clash(l, m),
           Active(c)' => \A d \in Calls \ {c} :
              Active(d) /\ Request(d).kind \in {"CREATE", "RETRY"} =>
                 Request(d).session # Request(c)'.session
    PROVE  Inv'
<1>1. \A d \in Calls \ {c} : txn'[d] = txn[d]
  BY DEF Inv
<1>2. RowsConsistent'
  <2>1. Service!GuestsConsistent' /\ Service!SessionsConsistent'
    <3>1. Service!vars' = Service!vars
      BY DEF Service!vars, rows
    <3> QED
      BY <3>1, RowsNext DEF Inv, RowsConsistent, Practice!vars, Service!vars
  <2> QED
    BY <2>1 DEF Inv, RowsConsistent, rows
<1>3. txn' = [d \in Calls |-> txn'[d]]
  BY DEF Inv
<1>4. \A d \in Calls \ {c} : Good(d)'
  <2> SUFFICES ASSUME NEW d \in Calls \ {c} PROVE Good(d)'
    OBVIOUS
  <2>1. Good(d) /\ txn'[d] = txn[d]
    BY <1>1 DEF Inv
  <2>2. Active(d)' = Active(d) /\ Request(d)' = Request(d)
    BY <2>1 DEF Active, Request
  <2>3. Timely(d)'
    BY <2>1, <2>2 DEF Good, Timely
  <2>4. New(d)'
    <3> SUFFICES ASSUME Active(d), Request(d).kind \in {"CREATE", "RETRY"}
                 PROVE  /\ session'[Request(d).session].status = "UNUSED"
                        /\ \A e \in Calls \ {d} : Active(e)' =>
                              Request(e)'.session # Request(d).session
      BY <2>2 DEF New
    <3>1. /\ session'[Request(d).session].status = "UNUSED"
          /\ \A e \in Calls \ {d} : Active(e) => Request(e).session # Request(d).session
      BY <2>1 DEF Good, New, rows
    <3>2. \A e \in Calls \ {c} : Active(e)' = Active(e) /\ Request(e)' = Request(e)
      BY <1>1 DEF Active, Request
    <3> QED
      BY <3>1, <3>2
  <2> QED
    BY <2>1, <2>3, <2>4, SameTransaction, SameRows DEF Good
<1>5. Exclusive'
  <2> SUFFICES ASSUME NEW d \in Calls, NEW e \in Calls, d # e,
                      NEW l \in txn'[d].locks, NEW m \in txn'[e].locks
               PROVE  ~Clash(l, m)
    BY DEF Exclusive
  <2>1. \A x, y : Clash(x, y) => Clash(y, x)
    BY DEF Clash, Compatible
  <2>2. CASE d = c
    BY <2>2, <1>1
  <2>3. CASE e = c
    BY <2>1, <2>3, <1>1
  <2>4. CASE d # c /\ e # c
    BY <2>4, <1>1 DEF Inv, Exclusive
  <2> QED
    BY <2>2, <2>3, <2>4
<1> QED
  BY <1>2, <1>3, <1>4, <1>5 DEF Inv

(***************************************************************************)
(* Steps that only move one transaction.                                   *)
(***************************************************************************)

\* A finished transaction is as it should be.
LEMMA OverGood ==
    ASSUME NEW c \in Calls, NEW step \in {"NONE", "ANSWERED", "UNAVAILABLE"}, txn'[c] = Over(step)
    PROVE  Good(c)'
<1>1. ~Active(c)'
  BY DEF Active, Over
<1>2. \A kind, steps : ~In(c, kind, steps)'
  BY <1>1 DEF In
<1>3. ~Begun(c)'
  BY <1>1 DEF Begun
<1>4. Typed(c)' /\ Timely(c)' /\ Holding(c)' /\ New(c)'
  BY <1>1, <1>2, CallsAssumption DEF Typed, Timely, Holding, New, Over
<1>5. Learned(c)' /\ Cleaning(c)' /\ Current(c)'
  BY <1>2, <1>3 DEF Learned, Cleaning, Current
<1>6. Pinned(c)'
  BY <1>3 DEF Pinned
<1> QED
  BY <1>4, <1>5, <1>6 DEF Good

\* A transaction ends and changes nothing.
LEMMA Ends ==
    ASSUME Inv, NEW c \in Calls, NEW step \in {"ANSWERED", "UNAVAILABLE"},
           txn' = [txn EXCEPT ![c] = Over(step)], UNCHANGED <<now, rows>>
    PROVE  Inv'
<1>1. txn'[c] = Over(step)
  BY DEF Inv
<1>2. txn' = [txn EXCEPT ![c] = txn'[c]]
  BY <1>1
<1>3. Good(c)'
  BY <1>1, OverGood
<1>4. txn'[c].locks = {} /\ ~Active(c)'
  BY <1>1 DEF Over, Active
<1> QED
  BY <1>2, <1>3, <1>4, OneMoves

\* A transaction at its start is as it should be, if its request is.
LEMMA AttemptGood ==
    ASSUME NEW c \in Calls, NEW r, NEW n \in 0..MaxAttempts, txn'[c] = Attempt(r, n), Suited(r),
           r.at <= now', now' <= r.at + MaxLag, New(c)'
    PROVE  Good(c)'
<1>1. Active(c)' /\ Request(c)' = r /\ txn'[c].step = "START" /\ txn'[c].locks = {}
  BY DEF Active, Request, Attempt
<1>2. ~Begun(c)' /\ \A kind, steps : "START" \notin steps => ~In(c, kind, steps)'
  BY <1>1 DEF Begun, In
<1>3. Typed(c)'
  BY <1>1 DEF Typed, Attempt, StepsOf
<1>4. Timely(c)'
  BY <1>1 DEF Timely
<1>5. Learned(c)'
  BY <1>2 DEF Learned
<1>6. HeldLocks(c)' = {}
  BY <1>2 DEF HeldLocks, HoldsGuest, HoldsSession, HoldsSource, HoldsDiscarded, HoldsReservation
<1>7. Holding(c)'
  BY <1>1, <1>2, <1>6 DEF Holding
<1>8. Pinned(c)' /\ Current(c)' /\ Cleaning(c)'
  BY <1>2 DEF Pinned, Current, Cleaning
<1> QED
  BY <1>3, <1>4, <1>5, <1>7, <1>8 DEF Good

\* A transaction that conflicts starts again or gives up.
LEMMA Conflicts ==
    ASSUME Inv, NEW c \in Calls, Active(c), Conflict(c)
    PROVE  Inv'
<1>1. CASE txn[c].attempt < MaxAttempts
  <2> DEFINE n == txn[c].attempt + 1
  <2>1. txn' = [txn EXCEPT ![c] = Attempt(Request(c), n)] /\ UNCHANGED <<now, rows>>
    BY <1>1 DEF Conflict
  <2>2. txn'[c] = Attempt(Request(c), n)
    BY <2>1 DEF Inv
  <2>3. Good(c)
    BY DEF Inv
  <2>4. n \in 0..MaxAttempts
    BY <1>1, <2>3, CallsAssumption DEF Good, Typed
  <2>5. Active(c)' /\ Request(c)' = Request(c)
    BY <2>2 DEF Active, Request, Attempt
  <2>6. \A d \in Calls \ {c} : txn'[d] = txn[d]
    BY <2>1 DEF Inv
  <2>7. New(c)'
    <3>1. \A d \in Calls \ {c} : Active(d)' = Active(d) /\ Request(d)' = Request(d)
      BY <2>6 DEF Active, Request
    <3> QED
      BY <2>1, <2>3, <2>5, <3>1 DEF Good, New, rows
  <2>8. Good(c)'
    BY <2>1, <2>2, <2>3, <2>4, <2>7, AttemptGood DEF Good, Typed, Timely
  <2>9. txn'[c].locks = {}
    BY <2>2 DEF Attempt
  <2>10. \A d \in Calls \ {c} : Active(d) /\ Request(d).kind \in {"CREATE", "RETRY"} =>
            Request(d).session # Request(c).session
    BY DEF Inv, Good, New
  <2> QED
    BY <2>1, <2>2, <2>5, <2>8, <2>9, <2>10, OneMoves
<1>2. CASE ~(txn[c].attempt < MaxAttempts)
  BY <1>2, Ends DEF Conflict
<1> QED
  BY <1>1, <1>2

\* A request is refused, or answered from the record.
LEMMA Refusals ==
    ASSUME Inv, NEW c \in Calls, Refused(c)
    PROVE  Inv'
BY Ends DEF Refused, Answered

\* The transaction takes its snapshot and holds nothing yet.
LEMMA Begins ==
    ASSUME Inv, NEW c \in Calls, NEW step, Active(c), txn[c].step = "START",
           Request(c).kind \in {"CREATE", "SAVE", "SUBMIT", "RETRY"},
           step \in StepsOf(Request(c).kind) \ {"START"},
           Begin(c, step), Learned(c)', HeldLocks(c)' = {}
    PROVE  Inv'
<1>1. Good(c) /\ UNCHANGED <<now, rows>>
  BY DEF Inv, Begin
<1>2. /\ txn'[c] = [step |-> step, attempt |-> txn[c].attempt, request |-> txn[c].request,
                    snap |-> Snapshot, locks |-> txn[c].locks]
      /\ txn' = [txn EXCEPT ![c] = txn'[c]]
      /\ \A d \in Calls \ {c} : txn'[d] = txn[d]
  BY <1>1 DEF Begin, Inv, Good, Typed
<1>3. txn[c].locks = {}
  <2>1. HeldLocks(c) = {}
    BY DEF HeldLocks, HoldsGuest, HoldsSession, HoldsSource, HoldsDiscarded, HoldsReservation, In
  <2> QED
    BY <1>1, <2>1 DEF Good, Holding
<1>4. step \notin {"NONE", "ANSWERED", "UNAVAILABLE", "START"}
  BY DEF StepsOf
<1>5. Active(c)' /\ Request(c)' = Request(c) /\ Snap(c)' = Snapshot
  BY <1>2, <1>4 DEF Active, Request, Snap
<1>6. Typed(c)' /\ Timely(c)'
  BY <1>1, <1>2, <1>5 DEF Good, Typed, Timely
<1>7. Holding(c)'
  BY <1>2, <1>3, <1>5 DEF Holding, In
<1>8. Pinned(c)'
  BY <1>2, <1>3 DEF Pinned, Unchanged
<1>9. Current(c)'
  <2>1. ~In(c, "READ", {"SESSION"})' /\ ~In(c, "CANCEL", {"SESSION"})'
    BY <1>5 DEF In
  <2>2. \A s \in Sessions : Snap(c)'.session[s].status = "SUBMITTED" =>
           session'[s].status = "SUBMITTED" /\ result'[s] = Snap(c)'.result[s]
    BY <1>1, <1>5 DEF Snapshot, rows
  <2>3. Request(c).owner \in Guests /\ ProofSeen(c)' =>
           /\ guest'[Request(c).owner].state # "UNUSED"
           /\ guest'[Request(c).owner].expiresAt > Request(c).at
    BY <1>1, <1>5 DEF ProofSeen, Snapshot, rows
  <2> QED
    BY <1>5, <2>1, <2>2, <2>3 DEF Current
<1>10. Cleaning(c)'
  BY <1>5 DEF Cleaning, In
<1>11. New(c)'
  <2>1. \A d \in Calls \ {c} : Active(d)' = Active(d) /\ Request(d)' = Request(d)
    BY <1>2 DEF Active, Request
  <2> QED
    BY <1>1, <1>5, <2>1 DEF Good, New, rows
<1>12. Good(c)'
  BY <1>6, <1>7, <1>8, <1>9, <1>10, <1>11 DEF Good
<1>13. \A d \in Calls \ {c} : Active(d) /\ Request(d).kind \in {"CREATE", "RETRY"} =>
          Request(d).session # Request(c).session
  BY DEF Inv, Good, New
<1>14. txn'[c].locks = {}
  BY <1>2, <1>3
<1> QED
  BY <1>1, <1>2, <1>5, <1>12, <1>13, <1>14, OneMoves

\* The transaction goes on with the locks it was waiting for, on rows that are as its
\* snapshot shows them.
LEMMA Proceeds ==
    ASSUME Inv, NEW c \in Calls, NEW step, Begun(c),
           step \in StepsOf(Request(c).kind) \ {"START"},
           Granted(c), Proceed(c, step), Unchanged(c, Wanted(c)),
           Learned(c)', HeldLocks(c)' = HeldLocks(c) \cup Wanted(c)
    PROVE  Inv'
<1>1. Good(c) /\ UNCHANGED <<now, rows>>
  BY DEF Inv, Proceed, Take
<1>2. /\ txn'[c] = [step |-> step, attempt |-> txn[c].attempt, request |-> txn[c].request,
                    snap |-> txn[c].snap, locks |-> txn[c].locks \cup Wanted(c)]
      /\ txn' = [txn EXCEPT ![c] = txn'[c]]
      /\ \A d \in Calls \ {c} : txn'[d] = txn[d]
  BY <1>1 DEF Proceed, Take, Inv, Good, Typed
<1>3. step \notin {"NONE", "ANSWERED", "UNAVAILABLE", "START"}
  BY DEF StepsOf, Begun
<1>4. Active(c) /\ Active(c)' /\ Request(c)' = Request(c) /\ Snap(c)' = Snap(c) /\ Begun(c)'
  BY <1>2, <1>3 DEF Active, Request, Snap, Begun
<1>5. Typed(c)' /\ Timely(c)'
  BY <1>1, <1>2, <1>4 DEF Good, Typed, Timely
<1>6. Holding(c)'
  <2>1. Request(c).kind # "CLEAN"
    BY DEF Begun
  <2>2. txn[c].locks = HeldLocks(c)
    BY <1>1, <1>4, <2>1 DEF Good, Holding
  <2>3. txn'[c].locks = HeldLocks(c)'
    BY <1>2, <2>2
  <2> QED
    BY <1>4, <2>1, <2>3 DEF Holding, In
<1>7. Pinned(c)'
  <2>1. Unchanged(c, txn[c].locks)
    BY <1>1 DEF Good, Pinned
  <2>2. Unchanged(c, txn[c].locks \cup Wanted(c))
    BY <2>1 DEF Unchanged
  <2>3. Unchanged(c, txn'[c].locks)
    BY <1>2, <2>2
  <2> QED
    BY <1>1, <1>4, <2>3 DEF Pinned, Unchanged, rows
<1>8. Current(c)'
  <2>1. ~In(c, "READ", {"SESSION"})' /\ ~In(c, "CANCEL", {"SESSION"})'
    BY <1>4 DEF In, Begun
  <2>2. ProofSeen(c)' = ProofSeen(c)
    BY <1>4 DEF ProofSeen
  <2> QED
    BY <1>1, <1>4, <2>1, <2>2 DEF Good, Current, rows
<1>9. Cleaning(c)'
  BY <1>4 DEF Cleaning, In, Begun
<1>10. New(c)'
  <2>1. \A d \in Calls \ {c} : Active(d)' = Active(d) /\ Request(d)' = Request(d)
    BY <1>2 DEF Active, Request
  <2> QED
    BY <1>1, <1>4, <2>1 DEF Good, New, rows
<1>11. Good(c)'
  BY <1>5, <1>6, <1>7, <1>8, <1>9, <1>10 DEF Good
<1>12. \A d \in Calls \ {c} : Active(d) /\ Request(d).kind \in {"CREATE", "RETRY"} =>
          Request(d).session # Request(c).session
  BY <1>4 DEF Inv, Good, New
<1>13. \A d \in Calls \ {c} : \A l \in txn'[c].locks, m \in txn[d].locks : ~Clash(l, m)
  <2> SUFFICES ASSUME NEW d \in Calls \ {c}, NEW l \in txn'[c].locks, NEW m \in txn[d].locks
               PROVE  ~Clash(l, m)
    OBVIOUS
  <2>1. CASE l \in txn[c].locks
    BY <2>1 DEF Inv, Exclusive
  <2>2. CASE l \in Wanted(c)
    BY <1>4, <2>2 DEF Granted, Waits
  <2> QED
    BY <1>2, <2>1, <2>2
<1> QED
  BY <1>1, <1>2, <1>4, <1>11, <1>12, <1>13, OneMoves

(***************************************************************************)
(* The steps of the handlers that change no row.                           *)
(***************************************************************************)

\* On its way a transaction keeps its request and its snapshot.
LEMMA Took ==
    ASSUME Inv, NEW c \in Calls, NEW locks, NEW step, Take(c, locks, step),
           step \notin {"NONE", "ANSWERED", "UNAVAILABLE"}
    PROVE  /\ txn'[c].step = step
           /\ Active(c)'
           /\ Request(c)' = Request(c)
           /\ Snap(c)' = Snap(c)
           /\ \A kind, steps : In(c, kind, steps)' <=> Request(c).kind = kind /\ step \in steps
           /\ ProofSeen(c)' = ProofSeen(c)
           /\ FreshSeen(c)' = FreshSeen(c)
           /\ Outdated(c)' = Outdated(c)
           /\ DueSeen(c)' = DueSeen(c)
           /\ \A s : OwnedSeen(c, s)' = OwnedSeen(c, s)
<1> Good(c)
  BY DEF Inv
<1>1. txn'[c] = [step |-> step, attempt |-> txn[c].attempt, request |-> txn[c].request,
                 snap |-> txn[c].snap, locks |-> txn[c].locks \cup locks]
  BY DEF Take, Inv, Good, Typed
<1>2. Active(c)' /\ Request(c)' = Request(c) /\ Snap(c)' = Snap(c) /\ txn'[c].step = step
  BY <1>1 DEF Active, Request, Snap
<1>3. \A kind, steps : In(c, kind, steps)' <=> Request(c).kind = kind /\ step \in steps
  BY <1>2 DEF In
<1> QED
  BY <1>2, <1>3 DEF ProofSeen, FreshSeen, Outdated, DueSeen, OwnedSeen, RecordSeen

\* A transaction that has begun is at the chosen step.
LEMMA Began ==
    ASSUME Inv, NEW c \in Calls, NEW step, Begin(c, step),
           step \notin {"NONE", "ANSWERED", "UNAVAILABLE"}
    PROVE  /\ Request(c)' = Request(c)
           /\ \A kind, steps : In(c, kind, steps)' <=> Request(c).kind = kind /\ step \in steps
<1>1. txn'[c].step = step /\ txn'[c].request = txn[c].request
  BY DEF Begin, Inv, Good, Typed
<1> QED
  BY <1>1 DEF In, Active, Request

\* Every handler that takes a snapshot can start.
LEMMA Starts ==
    ASSUME Inv, NEW c \in Calls,
           CreateStart(c) \/ SaveStart(c) \/ SubmitStart(c) \/ RetryStart(c)
    PROVE  Inv'
<1> DEFINE r == Request(c)
           step == CASE r.kind = "SAVE" -> "SESSION"
                     [] r.kind # "SAVE" /\ r.owner \in Guests -> "GUEST"
                     [] r.kind = "CREATE" /\ r.owner \notin Guests -> "WRITE"
                     [] OTHER -> "LOOK"
<1>1. /\ Active(c) /\ txn[c].step = "START" /\ r.kind \in {"CREATE", "SAVE", "SUBMIT", "RETRY"}
      /\ Begin(c, step)
  BY DEF CreateStart, SaveStart, SubmitStart, RetryStart, At
<1>2. step \in StepsOf(r.kind) \ {"START", "NONE", "ANSWERED", "UNAVAILABLE"}
  BY <1>1 DEF StepsOf
<1>3. /\ Request(c)' = r
      /\ \A kind, steps : In(c, kind, steps)' <=> r.kind = kind /\ step \in steps
  BY <1>1, <1>2, Began
<1>4. Learned(c)'
  BY <1>1, <1>3 DEF Learned
<1>5. HeldLocks(c)' = {}
  BY <1>1, <1>3 DEF HeldLocks, HoldsGuest, HoldsSession, HoldsSource, HoldsDiscarded,
     HoldsReservation
<1> QED
  BY <1>1, <1>2, <1>4, <1>5, Begins

\* Locking the row of the guest.
LEMMA GuestLocked ==
    ASSUME Inv, NEW c \in Calls, NEW step, Active(c), txn[c].step = "GUEST",
           <<Request(c).kind, step>> \in {<<"CREATE", "WRITE">>, <<"SUBMIT", "LOOK">>,
                                          <<"RETRY", "LOOK">>},
           Lock(c, guest[Request(c).owner] = Snap(c).guest[Request(c).owner], step),
           \/ ProofSeen(c) /\ (step = "WRITE" => Snap(c).guest[Request(c).owner].lastSeenAt
                                                 <= Request(c).at)
           \/ step = "WRITE" /\ Snap(c).guest[Request(c).owner].state = "UNUSED"
    PROVE  Inv'
<1> DEFINE r == Request(c)
<1>1. CASE guest[r.owner] # Snap(c).guest[r.owner]
  BY <1>1, Conflicts DEF Lock
<1>2. CASE guest[r.owner] = Snap(c).guest[r.owner]
  <2>1. Granted(c) /\ Proceed(c, step)
    BY <1>2 DEF Lock
  <2>2. Begun(c) /\ step \in StepsOf(r.kind) \ {"START", "NONE", "ANSWERED", "UNAVAILABLE"}
    BY DEF Begun, StepsOf
  <2>3. Wanted(c) = {<<"guest", r.owner, GuestLock>>}
    BY DEF Wanted
  <2>4. Unchanged(c, Wanted(c))
    BY <1>2, <2>3 DEF Unchanged, GuestLock
  <2>5. /\ Request(c)' = r
        /\ Snap(c)' = Snap(c)
        /\ ProofSeen(c)' = ProofSeen(c)
        /\ \A kind, steps : In(c, kind, steps)' <=> r.kind = kind /\ step \in steps
    BY <2>1, <2>2, Took DEF Proceed
  <2>6. Learned(c)'
    BY <2>5 DEF Learned
  <2>7. HeldLocks(c)' = {l \in {<<"guest", r.owner, GuestLock>>} : r.owner \in Guests}
    BY <2>5 DEF HeldLocks, HoldsGuest, HoldsSession, HoldsSource, HoldsDiscarded,
       HoldsReservation
  <2>8. HeldLocks(c) = {} /\ r.owner \in Guests
    BY DEF HeldLocks, HoldsGuest, HoldsSession, HoldsSource, HoldsDiscarded, HoldsReservation,
       In, Inv, Good, Learned
  <2> QED
    BY <2>1, <2>2, <2>3, <2>4, <2>6, <2>7, <2>8, Proceeds
<1> QED
  BY <1>1, <1>2

\* Creating, submitting and retrying lock the guest.
LEMMA GuestSteps ==
    ASSUME Inv, NEW c \in Calls, CreateGuest(c) \/ SubmitGuest(c) \/ RetryGuest(c)
    PROVE  Inv'
<1>1. CASE Refused(c)
  BY <1>1, Refusals
<1>2. CASE CreateGuest(c) /\ ~Refused(c)
  BY <1>2, GuestLocked DEF CreateGuest, At
<1>3. CASE (SubmitGuest(c) \/ RetryGuest(c)) /\ ~Refused(c)
  BY <1>3, GuestLocked DEF SubmitGuest, RetryGuest, LockGuestProof, At
<1> QED
  BY <1>1, <1>2, <1>3

\* What the locks of the steps leave unchanged.
LEMMA UnchangedRows ==
    ASSUME NEW c \in Calls
    PROVE  /\ Unchanged(c, {})
           /\ \A s : session[s] = Snap(c).session[s] =>
                 /\ Unchanged(c, {<<"session", s, "UPDATE">>})
                 /\ Unchanged(c, {<<"session", s, "KEY_SHARE">>})
           /\ (Outdated(c) => record[Id(Request(c))] = RecordSeen(c)) => Unchanged(c, DiscardLocks(c))
           /\ /\ record[Id(Request(c))] = RecordSeen(c)
              /\ Request(c).owner \in Guests => guest[Request(c).owner].state = "LIVE"
              => Unchanged(c, Reservation(Request(c)))
BY DEF Unchanged, GuestLock, DiscardLocks, Reservation, RecordSeen

\* A save locks the session, looks, and reserves its key.
LEMMA SaveSteps ==
    ASSUME Inv, NEW c \in Calls, SaveSession(c) \/ SaveLook(c) \/ SaveReserve(c)
    PROVE  Inv'
<1> DEFINE r == Request(c)
           seen == Snap(c).session[r.session]
<1>1. Active(c) /\ r.kind = "SAVE" /\ Begun(c) /\ Good(c) /\ RowsConsistent
  BY DEF SaveSession, SaveLook, SaveReserve, At, Begun, Inv
<1>2. CASE Refused(c)
  BY <1>2, Refusals
<1>3. CASE Conflict(c)
  BY <1>1, <1>3, Conflicts
<1>4. CASE SaveSession(c) /\ ~Refused(c) /\ ~Conflict(c)
  <2>1. /\ txn[c].step = "SESSION" /\ ProofSeen(c) /\ OwnedSeen(c, r.session)
        /\ Granted(c) /\ session[r.session] = seen /\ Proceed(c, "LOOK")
    BY <1>4 DEF SaveSession, At, Lock
  <2>2. Wanted(c) = {<<"session", r.session, "UPDATE">>}
    BY <2>1 DEF Wanted
  <2>3. Learned(c)'
    BY <1>1, <2>1, Took DEF Learned, Proceed
  <2>4. HeldLocks(c)' = HeldLocks(c) \cup Wanted(c)
    BY <1>1, <2>1, <2>2, Took DEF HeldLocks, HoldsGuest, HoldsSession, HoldsSource,
       HoldsDiscarded, HoldsReservation, In, Proceed
  <2> QED
    BY <1>1, <2>1, <2>2, <2>3, <2>4, UnchangedRows, Proceeds DEF StepsOf
<1>5. CASE SaveLook(c) /\ ~Refused(c) /\ ~Conflict(c)
  <2>1. PICK step \in {"EXPIRE", "RESERVE"} :
           /\ Proceed(c, step)
           /\ seen.status = "IN_PROGRESS"
           /\ step = "EXPIRE" <=> DueSeen(c)
           /\ step = "RESERVE" => FreshSeen(c) /\ Snap(c).draft[r.session].revision = r.revision
    BY <1>5 DEF SaveLook, DueSeen
  <2>2. Wanted(c) = {} /\ txn[c].step = "LOOK"
    BY <1>1, <1>5 DEF Wanted, SaveLook, At
  <2>3. Learned(c)'
    BY <1>1, <2>1, <2>2, Took DEF Learned, Proceed, Good, In
  <2>4. HeldLocks(c)' = HeldLocks(c) \cup Wanted(c)
    BY <1>1, <2>1, <2>2, Took DEF HeldLocks, HoldsGuest, HoldsSession, HoldsSource,
       HoldsDiscarded, HoldsReservation, In, Proceed
  <2>5. Granted(c) /\ Unchanged(c, Wanted(c))
    BY <2>2, UnchangedRows DEF Granted, Waits
  <2> QED
    BY <1>1, <2>1, <2>3, <2>4, <2>5, Proceeds DEF StepsOf
<1>6. CASE SaveReserve(c) /\ ~Refused(c) /\ ~Conflict(c)
  <2>1. /\ txn[c].step = "RESERVE" /\ Granted(c) /\ Proceed(c, "WRITE")
        /\ record[Id(r)] = RecordSeen(c)
        /\ r.owner \in Guests => guest[r.owner].state = "LIVE"
    BY <1>6 DEF SaveReserve, Reserve, At, Lock
  <2>2. Wanted(c) = Reservation(r)
    BY <2>1 DEF Wanted
  <2>3. Learned(c)'
    BY <1>1, <2>1, Took DEF Learned, Proceed, Good, In
  <2>4. HeldLocks(c)' = HeldLocks(c) \cup Wanted(c)
    BY <1>1, <2>1, <2>2, Took DEF HeldLocks, HoldsGuest, HoldsSession, HoldsSource,
       HoldsDiscarded, HoldsReservation, In, Proceed
  <2> QED
    BY <1>1, <2>1, <2>2, <2>3, <2>4, UnchangedRows, Proceeds DEF StepsOf
<1> QED
  BY <1>2, <1>3, <1>4, <1>5, <1>6

\* A submission looks its key up, reserves it, and locks the session.
LEMMA SubmitSteps ==
    ASSUME Inv, NEW c \in Calls, SubmitLook(c) \/ SubmitReserve(c) \/ SubmitSession(c)
    PROVE  Inv'
<1> DEFINE r == Request(c)
           seen == Snap(c).session[r.session]
<1>1. Active(c) /\ r.kind = "SUBMIT" /\ Begun(c) /\ Good(c)
  BY DEF SubmitLook, SubmitReserve, SubmitSession, At, Begun, Inv
<1>2. CASE Refused(c)
  BY <1>2, Refusals
<1>3. CASE Conflict(c)
  BY <1>1, <1>3, Conflicts
<1>4. CASE SubmitLook(c) /\ ~Refused(c) /\ ~Conflict(c)
  <2>1. PICK step \in {"SESSION", "RESERVE"} :
           /\ Granted(c) /\ Proceed(c, step)
           /\ step = "SESSION" <=> DueSeen(c)
           /\ OwnedSeen(c, r.session) /\ FreshSeen(c) /\ seen.status = "IN_PROGRESS"
           /\ Outdated(c) => record[Id(r)] = RecordSeen(c)
    BY <1>4 DEF SubmitLook, LookUp, DueSeen
  <2>2. Wanted(c) = DiscardLocks(c) /\ txn[c].step = "LOOK"
    BY <1>1, <1>4 DEF Wanted, SubmitLook, At
  <2>3. Learned(c)'
    BY <1>1, <2>1, <2>2, Took DEF Learned, Proceed, Good, In
  <2>4. HeldLocks(c)' = HeldLocks(c) \cup Wanted(c)
    BY <1>1, <2>1, <2>2, Took DEF HeldLocks, HoldsGuest, HoldsSession, HoldsSource,
       HoldsDiscarded, HoldsReservation, In, Proceed, DiscardLocks
  <2> QED
    BY <1>1, <2>1, <2>2, <2>3, <2>4, UnchangedRows, Proceeds DEF StepsOf
<1>5. CASE SubmitReserve(c) /\ ~Refused(c) /\ ~Conflict(c)
  <2>1. /\ txn[c].step = "RESERVE" /\ Granted(c) /\ Proceed(c, "SESSION")
        /\ record[Id(r)] = RecordSeen(c)
        /\ r.owner \in Guests => guest[r.owner].state = "LIVE"
    BY <1>5 DEF SubmitReserve, Reserve, At, Lock
  <2>2. Wanted(c) = Reservation(r)
    BY <2>1 DEF Wanted
  <2>3. Learned(c)' /\ ~DueSeen(c)
    BY <1>1, <2>1, Took DEF Learned, Proceed, Good, In
  <2>4. HeldLocks(c)' = HeldLocks(c) \cup Wanted(c)
    BY <1>1, <2>1, <2>2, <2>3, Took DEF HeldLocks, HoldsGuest, HoldsSession, HoldsSource,
       HoldsDiscarded, HoldsReservation, In, Proceed
  <2> QED
    BY <1>1, <2>1, <2>2, <2>3, <2>4, UnchangedRows, Proceeds DEF StepsOf
<1>6. CASE SubmitSession(c) /\ ~Refused(c) /\ ~Conflict(c)
  <2>1. PICK step \in {"EXPIRE", "WRITE"} :
           /\ txn[c].step = "SESSION" /\ Granted(c) /\ Proceed(c, step)
           /\ step = "EXPIRE" <=> DueSeen(c)
           /\ session[r.session] = seen
    BY <1>6 DEF SubmitSession, At, Lock, DueSeen
  <2>2. Wanted(c) = {<<"session", r.session, "UPDATE">>}
    BY <2>1 DEF Wanted
  <2>3. Learned(c)'
    BY <1>1, <2>1, Took DEF Learned, Proceed, Good, In
  <2>4. HeldLocks(c)' = HeldLocks(c) \cup Wanted(c)
    BY <1>1, <2>1, <2>2, Took DEF HeldLocks, HoldsGuest, HoldsSession, HoldsSource,
       HoldsDiscarded, HoldsReservation, In, Proceed
  <2> QED
    BY <1>1, <2>1, <2>2, <2>3, <2>4, UnchangedRows, Proceeds DEF StepsOf
<1> QED
  BY <1>2, <1>3, <1>4, <1>5, <1>6

\* A retry looks its key up, shares the source, and reserves the key.
LEMMA RetrySteps ==
    ASSUME Inv, NEW c \in Calls, RetryLook(c) \/ RetrySource(c) \/ RetryReserve(c)
    PROVE  Inv'
<1> DEFINE r == Request(c)
<1>1. Active(c) /\ r.kind = "RETRY" /\ Begun(c) /\ Good(c)
  BY DEF RetryLook, RetrySource, RetryReserve, At, Begun, Inv
<1>2. CASE Refused(c)
  BY <1>2, Refusals
<1>3. CASE Conflict(c)
  BY <1>1, <1>3, Conflicts
<1>4. CASE RetryLook(c) /\ ~Refused(c) /\ ~Conflict(c)
  <2>1. /\ Granted(c) /\ Proceed(c, "SOURCE") /\ FreshSeen(c)
        /\ Outdated(c) => record[Id(r)] = RecordSeen(c)
    BY <1>4 DEF RetryLook, LookUp
  <2>2. Wanted(c) = DiscardLocks(c) /\ txn[c].step = "LOOK"
    BY <1>1, <1>4 DEF Wanted, RetryLook, At
  <2>3. Learned(c)'
    BY <1>1, <2>1, <2>2, Took DEF Learned, Proceed, Good, In
  <2>4. HeldLocks(c)' = HeldLocks(c) \cup Wanted(c)
    BY <1>1, <2>1, <2>2, Took DEF HeldLocks, HoldsGuest, HoldsSession, HoldsSource,
       HoldsDiscarded, HoldsReservation, In, Proceed, DiscardLocks
  <2> QED
    BY <1>1, <2>1, <2>2, <2>3, <2>4, UnchangedRows, Proceeds DEF StepsOf
<1>5. CASE RetrySource(c) /\ ~Refused(c) /\ ~Conflict(c)
  <2>1. /\ txn[c].step = "SOURCE" /\ Granted(c) /\ Proceed(c, "RESERVE")
        /\ OwnedSeen(c, r.source)
        /\ session[r.source] = Snap(c).session[r.source]
        /\ Snap(c).session[r.source].status = "SUBMITTED"
        /\ Snap(c).result[r.source] # None
        /\ Snap(c).result[r.source].answers \in Mistaken
    BY <1>5 DEF RetrySource, At
  <2>2. Wanted(c) = {<<"session", r.source, "KEY_SHARE">>}
    BY <2>1 DEF Wanted
  <2>3. Learned(c)'
    BY <1>1, <2>1, Took DEF Learned, Proceed, Good, In
  <2>4. HeldLocks(c)' = HeldLocks(c) \cup Wanted(c)
    BY <1>1, <2>1, <2>2, Took DEF HeldLocks, HoldsGuest, HoldsSession, HoldsSource,
       HoldsDiscarded, HoldsReservation, In, Proceed
  <2> QED
    BY <1>1, <2>1, <2>2, <2>3, <2>4, UnchangedRows, Proceeds DEF StepsOf
<1>6. CASE RetryReserve(c) /\ ~Refused(c) /\ ~Conflict(c)
  <2>1. /\ txn[c].step = "RESERVE" /\ Granted(c) /\ Proceed(c, "WRITE")
        /\ record[Id(r)] = RecordSeen(c)
        /\ r.owner \in Guests => guest[r.owner].state = "LIVE"
    BY <1>6 DEF RetryReserve, Reserve, At, Lock
  <2>2. Wanted(c) = Reservation(r)
    BY <2>1 DEF Wanted
  <2>3. Learned(c)'
    BY <1>1, <2>1, Took DEF Learned, Proceed, Good, In
  <2>4. HeldLocks(c)' = HeldLocks(c) \cup Wanted(c)
    BY <1>1, <2>1, <2>2, Took DEF HeldLocks, HoldsGuest, HoldsSession, HoldsSource,
       HoldsDiscarded, HoldsReservation, In, Proceed
  <2> QED
    BY <1>1, <2>1, <2>2, <2>3, <2>4, UnchangedRows, Proceeds DEF StepsOf
<1> QED
  BY <1>2, <1>3, <1>4, <1>5, <1>6

\* A transaction that works without a snapshot goes on with these locks.
LEMMA Advances ==
    ASSUME Inv, NEW c \in Calls, NEW locks, NEW step, Active(c),
           Request(c).kind \in {"READ", "CANCEL", "CLEAR", "CLEAN"},
           step \in StepsOf(Request(c).kind) \ {"START"},
           Take(c, locks, step),
           \A d \in Calls \ {c} : \A l \in locks, m \in txn[d].locks : ~Clash(l, m),
           Holding(c)', Current(c)', Cleaning(c)'
    PROVE  Inv'
<1>1. Good(c) /\ UNCHANGED <<now, rows>>
  BY DEF Inv, Take
<1>2. /\ txn'[c] = [step |-> step, attempt |-> txn[c].attempt, request |-> txn[c].request,
                    snap |-> txn[c].snap, locks |-> txn[c].locks \cup locks]
      /\ txn' = [txn EXCEPT ![c] = txn'[c]]
      /\ \A d \in Calls \ {c} : txn'[d] = txn[d]
  BY <1>1 DEF Take, Inv, Good, Typed
<1>3. step \notin {"NONE", "ANSWERED", "UNAVAILABLE", "START"}
  BY DEF StepsOf
<1>4. Active(c)' /\ Request(c)' = Request(c) /\ ~Begun(c)'
  BY <1>2, <1>3 DEF Active, Request, Begun
<1>5. Typed(c)' /\ Timely(c)'
  BY <1>1, <1>2, <1>4 DEF Good, Typed, Timely
<1>6. Learned(c)' /\ Pinned(c)' /\ New(c)'
  BY <1>4 DEF Learned, In, Pinned, New
<1>7. Good(c)'
  BY <1>5, <1>6 DEF Good
<1>8. \A d \in Calls \ {c} : Active(d) /\ Request(d).kind \in {"CREATE", "RETRY"} =>
          Request(d).session # Request(c).session
  BY DEF Inv, Good, New
<1>9. \A d \in Calls \ {c} : \A l \in txn'[c].locks, m \in txn[d].locks : ~Clash(l, m)
  <2> SUFFICES ASSUME NEW d \in Calls \ {c}, NEW l \in txn'[c].locks, NEW m \in txn[d].locks
               PROVE  ~Clash(l, m)
    OBVIOUS
  <2>1. CASE l \in txn[c].locks
    BY <2>1 DEF Inv, Exclusive
  <2> QED
    BY <1>2, <2>1
<1> QED
  BY <1>1, <1>2, <1>4, <1>7, <1>8, <1>9, OneMoves

\* A read and a cancellation start on a session their caller can open.
LEMMA OwnedStarts ==
    ASSUME Inv, NEW c \in Calls, ReadStart(c) \/ CancelStart(c)
    PROVE  Inv'
<1> DEFINE r == Request(c)
<1>1. /\ Active(c) /\ r.kind \in {"READ", "CANCEL"} /\ txn[c].step = "START" /\ Good(c)
      /\ FindOwned(c)
  BY DEF ReadStart, CancelStart, At, Inv
<1>2. CASE Refused(c)
  BY <1>2, Refusals
<1>3. CASE ~Refused(c)
  <2>1. Wanted(c) = {}
    BY <1>1 DEF Wanted
  <2>2. Take(c, {}, "SESSION") /\ Practice!GuestProof(r.owner, r.at)
    BY <1>1, <1>3, <2>1 DEF FindOwned, Proceed
  <2>3. /\ txn'[c].step = "SESSION" /\ Request(c)' = r /\ Active(c)'
        /\ \A kind, steps : In(c, kind, steps)' <=> r.kind = kind /\ "SESSION" \in steps
    BY <2>2, Took
  <2>4. Holding(c)'
    <3>1. HeldLocks(c) = {} /\ HeldLocks(c)' = {}
      BY <1>1, <2>3 DEF HeldLocks, HoldsGuest, HoldsSession, HoldsSource, HoldsDiscarded,
         HoldsReservation, In
    <3>2. txn[c].locks = {}
      BY <1>1, <3>1 DEF Good, Holding
    <3>3. txn'[c].locks = txn[c].locks
      BY <1>1, <2>2 DEF Take, Inv, Good, Typed
    <3> QED
      BY <1>1, <2>3, <3>1, <3>2, <3>3 DEF Holding
  <2>5. Current(c)'
    <3>1. ~Begun(c)'
      BY <1>1, <2>3 DEF Begun
    <3>2. r.owner \in Guests => guest'[r.owner].state = "LIVE" /\ guest'[r.owner].expiresAt > r.at
      BY <2>2 DEF Take, rows, Practice!GuestProof
    <3> QED
      BY <2>3, <3>1, <3>2 DEF Current
  <2>6. Cleaning(c)'
    BY <1>1, <2>3 DEF Cleaning
  <2> QED
    BY <1>1, <2>2, <2>4, <2>5, <2>6, Advances DEF StepsOf
<1> QED
  BY <1>2, <1>3

\* The deletion of a guest starts, and then locks the guest.
LEMMA ClearSteps ==
    ASSUME Inv, NEW c \in Calls, ClearStart(c) \/ ClearGuest(c)
    PROVE  Inv'
<1> DEFINE r == Request(c)
<1>1. Active(c) /\ r.kind = "CLEAR" /\ txn[c].step \in {"START", "CLEAR"} /\ Good(c)
  BY DEF ClearStart, ClearGuest, At, Inv
<1>2. CASE Refused(c)
  BY <1>2, Refusals
<1>3. CASE ~Refused(c)
  <2>1. PICK step \in {"CLEAR", "CASCADE"} :
           /\ Granted(c) /\ Take(c, Wanted(c), step)
           /\ Wanted(c) = {l \in {<<"guest", r.owner, "UPDATE">>} : step = "CASCADE"}
    BY <1>1, <1>3 DEF ClearStart, ClearGuest, At, Proceed, Wanted, Granted, Waits
  <2>2. /\ txn'[c].step = step /\ Request(c)' = r /\ Active(c)'
        /\ \A kind, steps : In(c, kind, steps)' <=> r.kind = kind /\ step \in steps
    BY <2>1, Took
  <2>3. Holding(c)'
    <3>1. HeldLocks(c) = {} /\ HeldLocks(c)' = Wanted(c)
      BY <1>1, <2>1, <2>2 DEF HeldLocks, HoldsGuest, HoldsSession, HoldsSource, HoldsDiscarded,
         HoldsReservation, In
    <3>2. txn[c].locks = {}
      BY <1>1, <3>1 DEF Good, Holding
    <3>3. txn'[c].locks = txn[c].locks \cup Wanted(c)
      BY <1>1, <2>1 DEF Take, Inv, Good, Typed
    <3> QED
      BY <1>1, <2>2, <3>1, <3>2, <3>3 DEF Holding
  <2>4. Current(c)' /\ Cleaning(c)'
    BY <1>1, <2>2 DEF Current, Cleaning, Begun
  <2>5. \A d \in Calls \ {c} : \A l \in Wanted(c), m \in txn[d].locks : ~Clash(l, m)
    BY <1>1, <2>1 DEF Granted, Waits
  <2> QED
    BY <1>1, <2>1, <2>3, <2>4, <2>5, Advances DEF StepsOf
<1> QED
  BY <1>2, <1>3

\* A draft that may be deleted belongs to an abandoned session.
LEMMA CandidatesKnown ==
    ASSUME NEW at, NEW target \in Candidates(at)
    PROVE  /\ target[1] \in {"draft", "session", "principal", "idempotency"}
           /\ target[1] = "draft" => target[2] \in Sessions /\ Service!Abandoned(target[2], at)
<1>1. Practice!RecordId = Service!RecordId
  BY DEF Practice!RecordId, Service!RecordId, Practice!Owners, Service!Owners,
     Practice!Operations, Service!Operations
<1>2. \A s \in Sessions : Practice!DraftSession(s, at) => Service!Abandoned(s, at)
  BY <1>1 DEF Practice!DraftSession, Practice!GuestOwned, Practice!NoOpenReplay,
     Service!Abandoned
<1>3. target[1] = "draft" => target[2] \in {x \in Sessions : Practice!DraftSession(x, at)}
  BY DEF Candidates
<1> QED
  BY <1>2, <1>3 DEF Candidates

\* The clean-up job chooses a candidate.
LEMMA CleanSelects ==
    ASSUME Inv, NEW c \in Calls, CleanSelect(c)
    PROVE  Inv'
<1> DEFINE r == Request(c)
<1>1. Active(c) /\ r.kind = "CLEAN" /\ txn[c].step = "START" /\ Good(c)
  BY DEF CleanSelect, At, Inv
<1>2. CASE Refused(c)
  BY <1>2, Refusals
<1>3. CASE ~Refused(c)
  <2>1. PICK target \in Candidates(r.at) :
           /\ txn' = [txn EXCEPT ![c] = [txn[c] EXCEPT !.step = "CLEAN", !.request.target = target]]
           /\ UNCHANGED <<now, rows>>
    BY <1>3 DEF CleanSelect
  <2> DEFINE q == [kind |-> r.kind, owner |-> r.owner, session |-> r.session, key |-> r.key,
                   source |-> r.source, answers |-> r.answers, revision |-> r.revision,
                   target |-> target, at |-> r.at]
  <2>2. txn[c].request = [kind |-> r.kind, owner |-> r.owner, session |-> r.session,
                          key |-> r.key, source |-> r.source, answers |-> r.answers,
                          revision |-> r.revision, target |-> r.target, at |-> r.at]
    BY <1>1 DEF Good, Typed, Suited, Request
  <2>3. /\ txn'[c] = [step |-> "CLEAN", attempt |-> txn[c].attempt, request |-> q,
                      snap |-> txn[c].snap, locks |-> txn[c].locks]
        /\ txn' = [txn EXCEPT ![c] = txn'[c]]
    <3>1. [txn[c].request EXCEPT !.target = target] = q
      BY <2>2
    <3>2. txn[c] = [step |-> txn[c].step, attempt |-> txn[c].attempt,
                    request |-> txn[c].request, snap |-> txn[c].snap, locks |-> txn[c].locks]
      BY <1>1 DEF Good, Typed
    <3>3. txn'[c] = [txn[c] EXCEPT !.step = "CLEAN",
                                   !.request = [txn[c].request EXCEPT !.target = target]]
      BY <2>1 DEF Inv
    <3>4. txn' = [txn EXCEPT ![c] = txn'[c]]
      BY <2>1 DEF Inv
    <3> QED
      BY <3>1, <3>2, <3>3, <3>4
  <2>4. /\ Active(c)' /\ Request(c)' = q
        /\ \A kind, steps : In(c, kind, steps)' <=> kind = "CLEAN" /\ "CLEAN" \in steps
    BY <1>1, <2>3 DEF Active, Request, In
  <2>5. q.session = r.session /\ q.target = target /\ q.kind = "CLEAN" /\ q.at = r.at
    BY <1>1
  <2>6. Typed(c)'
    <3>1. Suited(q)
      BY <1>1 DEF Good, Typed, Suited
    <3>2. "CLEAN" \in StepsOf("CLEAN")
      BY DEF StepsOf
    <3> QED
      BY <1>1, <2>3, <2>4, <2>5, <3>1, <3>2 DEF Good, Typed
  <2>7. Timely(c)'
    BY <1>1, <2>1, <2>4, <2>5 DEF Good, Timely
  <2>8. Holding(c)' /\ txn'[c].locks = {}
    BY <1>1, <2>3, <2>4, <2>5 DEF Good, Holding, In
  <2>9. Learned(c)' /\ Pinned(c)' /\ Current(c)' /\ New(c)'
    BY <2>4, <2>5 DEF Learned, Pinned, Current, New, Begun
  <2>10. Cleaning(c)'
    <3>1. target[1] = "draft" => target[2] \in Sessions /\ Service!Abandoned(target[2], r.at)
      BY <2>1, CandidatesKnown
    <3>2. \A x, at : Service!Abandoned(x, at)' = Service!Abandoned(x, at)
      BY <2>1 DEF Service!Abandoned, rows
    <3> QED
      BY <2>1, <2>4, <2>5, <3>1, <3>2, CandidatesKnown DEF Cleaning
  <2>11. Good(c)'
    BY <2>6, <2>7, <2>8, <2>9, <2>10 DEF Good
  <2>12. \A d \in Calls \ {c} : Active(d) /\ Request(d).kind \in {"CREATE", "RETRY"} =>
            Request(d).session # r.session
    BY <1>1 DEF Inv, Good, New
  <2> QED
    BY <2>1, <2>3, <2>4, <2>5, <2>8, <2>11, <2>12, OneMoves
<1> QED
  BY <1>2, <1>3

\* The clean-up job locks its candidate.
LEMMA CleanLocked ==
    ASSUME Inv, NEW c \in Calls, CleanLock(c)
    PROVE  Inv'
<1> DEFINE r == Request(c)
<1>1. Active(c) /\ r.kind = "CLEAN" /\ txn[c].step = "CLEAN" /\ Good(c)
  BY DEF CleanLock, At, Inv
<1>2. CASE Refused(c)
  BY <1>2, Refusals
<1>3. CASE ~Refused(c)
  <2>1. /\ StillEligible(r.target, r.at) /\ Free(CleanLocks(r.target))
        /\ Take(c, CleanLocks(r.target), "WRITE")
    BY <1>3 DEF CleanLock
  <2>2. /\ Request(c)' = r /\ Active(c)' /\ txn'[c].step = "WRITE"
        /\ \A kind, steps : In(c, kind, steps)' <=> r.kind = kind /\ "WRITE" \in steps
    BY <2>1, Took
  <2>3. /\ r.target[1] \in {"draft", "session", "principal", "idempotency"}
        /\ r.target[1] = "draft" => r.target[2] \in Sessions /\ Service!Abandoned(r.target[2], r.at)
    BY <1>1 DEF Good, Cleaning, In
  <2>4. Holding(c)'
    <3>1. txn'[c].locks = txn[c].locks \cup CleanLocks(r.target)
      BY <1>1, <2>1 DEF Take, Inv, Good, Typed
    <3>2. TargetLock(r.target) \in CleanLocks(r.target)
      BY <2>3 DEF TargetLock, CleanLocks
    <3> QED
      BY <1>1, <2>2, <3>1, <3>2 DEF Holding
  <2>5. Current(c)'
    BY <1>1, <2>2 DEF Current, Begun
  <2>6. Cleaning(c)'
    <3>1. \A x, at : Service!Abandoned(x, at)' = Service!Abandoned(x, at)
      BY <2>1 DEF Service!Abandoned, Take, rows
    <3>2. r.target[1] = "draft" => session'[r.target[2]].status \in {"IN_PROGRESS", "EXPIRED"}
      BY <2>1 DEF StillEligible, Take, rows
    <3> QED
      BY <2>2, <2>3, <3>1, <3>2 DEF Cleaning
  <2>7. \A d \in Calls \ {c} : \A l \in CleanLocks(r.target), m \in txn[d].locks : ~Clash(l, m)
    BY <2>1 DEF Free
  <2> QED
    BY <1>1, <2>1, <2>4, <2>5, <2>6, <2>7, Advances DEF StepsOf
<1> QED
  BY <1>2, <1>3

(***************************************************************************)
(* Arrivals.                                                               *)
(***************************************************************************)

\* A request arrives that fits its handler and is not about another one's new session.
LEMMA Arrives ==
    ASSUME Inv, NEW c \in Calls, NEW r, Arrive(c, r), Suited(r), r.at = now,
           r.kind \in {"CREATE", "RETRY"} => NewSession(r.session),
           \A d \in Calls : Active(d) /\ Request(d).kind \in {"CREATE", "RETRY"} =>
              Request(d).session # r.session
    PROVE  Inv'
<1>1. txn' = [txn EXCEPT ![c] = Attempt(r, 1)] /\ UNCHANGED <<now, rows>>
  BY DEF Arrive
<1>2. txn'[c] = Attempt(r, 1) /\ \A d \in Calls \ {c} : txn'[d] = txn[d]
  BY <1>1 DEF Inv
<1>3. Active(c)' /\ Request(c)' = r /\ txn'[c].locks = {}
  BY <1>2 DEF Active, Request, Attempt
<1>4. \A d \in Calls \ {c} : Active(d)' = Active(d) /\ Request(d)' = Request(d)
  BY <1>2 DEF Active, Request
<1>5. New(c)'
  BY <1>1, <1>3, <1>4 DEF New, NewSession, rows
<1>6. r.at <= now' /\ now' <= r.at + MaxLag
  BY <1>1, RowsTyped, TimesAssumption DEF Inv
<1>7. 1 \in 0..MaxAttempts
  BY CallsAssumption
<1>8. Good(c)'
  BY <1>2, <1>5, <1>6, <1>7, AttemptGood
<1> QED
  BY <1>1, <1>2, <1>3, <1>8, OneMoves

\* Every request of a client fits its handler.
LEMMA ClientsArrive ==
    ASSUME Inv, NEW c \in Calls, ClientArrives(c)
    PROVE  Inv'
<1>1. PICK o \in Users \cup Guests, s \in Sessions :
        \/ /\ NewSession(s)
           /\ Arrive(c, Call("CREATE", o, s))
        \/ \E source \in Sessions, k \in Keys :
              /\ NewSession(s)
              /\ Arrive(c, [Call("RETRY", o, s) EXCEPT !.source = source, !.key = k])
        \/ \E kind \in {"READ", "CANCEL"} :
              session[s].owner = o /\ Arrive(c, Call(kind, o, s))
        \/ \E k \in Keys, answers \in Sheets, revision \in 0..MaxRevision, kind \in {"SAVE", "SUBMIT"} :
              /\ session[s].owner = o
              /\ kind = "SAVE" => revision < MaxRevision
              /\ Arrive(c, [Call(kind, o, s) EXCEPT !.key = k, !.answers = answers,
                                                    !.revision = revision])
        \/ /\ o \in Guests
           /\ Arrive(c, Call("CLEAR", o, None))
  BY DEF ClientArrives
<1>2. now \in Nat
  BY RowsTyped DEF Inv
<1>3. \A d \in Calls : Active(d) /\ Request(d).kind \in {"CREATE", "RETRY"} =>
         /\ Request(d).session \in Sessions
         /\ session[Request(d).session].status = "UNUSED"
         /\ session[Request(d).session].owner = None
  BY DEF Inv, Good, Typed, Suited, New, RowsConsistent
<1>4. CASE NewSession(s) /\ Arrive(c, Call("CREATE", o, s))
  <2> DEFINE r == Call("CREATE", o, s)
  <2>1. Suited(r) /\ r.at = now /\ r.session = s
    BY <1>2 DEF Suited, Call, HandlerKinds
  <2> QED
    BY <1>4, <2>1, Arrives DEF NewSession
<1>5. ASSUME NEW source \in Sessions, NEW k \in Keys, NewSession(s),
             Arrive(c, [Call("RETRY", o, s) EXCEPT !.source = source, !.key = k])
      PROVE  Inv'
  <2> DEFINE r == [Call("RETRY", o, s) EXCEPT !.source = source, !.key = k]
  <2>1. Suited(r) /\ r.at = now /\ r.session = s
    BY <1>2 DEF Suited, Call, HandlerKinds
  <2> QED
    BY <1>5, <2>1, Arrives DEF NewSession
<1>6. ASSUME NEW kind \in {"READ", "CANCEL"}, session[s].owner = o, Arrive(c, Call(kind, o, s))
      PROVE  Inv'
  <2> DEFINE r == Call(kind, o, s)
  <2>1. Suited(r) /\ r.at = now /\ r.session = s /\ r.kind = kind
    BY <1>2 DEF Suited, Call, HandlerKinds
  <2> QED
    BY <1>3, <1>6, <2>1, Arrives, OwnersAssumption
<1>7. ASSUME NEW k \in Keys, NEW answers \in Sheets, NEW revision \in 0..MaxRevision,
             NEW kind \in {"SAVE", "SUBMIT"}, session[s].owner = o,
             kind = "SAVE" => revision < MaxRevision,
             Arrive(c, [Call(kind, o, s) EXCEPT !.key = k, !.answers = answers,
                                                !.revision = revision])
      PROVE  Inv'
  <2> DEFINE r == [Call(kind, o, s) EXCEPT !.key = k, !.answers = answers,
                                           !.revision = revision]
  <2>1. Suited(r) /\ r.at = now /\ r.session = s /\ r.kind = kind
    BY <1>2, <1>7 DEF Suited, Call, HandlerKinds
  <2> QED
    BY <1>3, <1>7, <2>1, Arrives, OwnersAssumption
<1>8. CASE o \in Guests /\ Arrive(c, Call("CLEAR", o, None))
  <2> DEFINE r == Call("CLEAR", o, None)
  <2>1. Suited(r) /\ r.at = now /\ r.session = None /\ r.kind = "CLEAR"
    BY <1>2, <1>8 DEF Suited, Call, HandlerKinds
  <2> QED
    BY <1>3, <1>8, <2>1, Arrives, OwnersAssumption
<1> QED
  BY <1>1, <1>4, <1>5, <1>6, <1>7, <1>8

\* So does a batch of the clean-up job.
LEMMA BatchesStart ==
    ASSUME Inv, NEW c \in Calls, BatchStarts(c)
    PROVE  Inv'
<1> DEFINE r == Call("CLEAN", None, None)
<1>1. now \in Nat
  BY RowsTyped DEF Inv
<1>2. Suited(r) /\ r.at = now /\ r.session = None /\ r.kind = "CLEAN"
  BY <1>1 DEF Suited, Call, HandlerKinds
<1>3. \A d \in Calls : Active(d) /\ Request(d).kind \in {"CREATE", "RETRY"} =>
         Request(d).session \in Sessions
  BY DEF Inv, Good, Typed, Suited
<1> QED
  BY <1>2, <1>3, Arrives, OwnersAssumption DEF BatchStarts

(***************************************************************************)
(* Steps that commit.                                                      *)
(***************************************************************************)

\* What a transaction changes is behind locks that exclude everybody else, or a guest it
\* has the lock of and does not delete, or the session it is creating.
Covers(c, locks) ==
    /\ \A s \in Sessions : session'[s] # session[s] =>
          \/ session[s].status # "UNUSED" /\ <<"session", s, "UPDATE">> \in locks
          \/ /\ session[s].status = "UNUSED"
             /\ Request(c).kind \in {"CREATE", "RETRY"}
             /\ s = Request(c).session
    /\ \A id \in Practice!RecordId : record'[id] # record[id] => <<"record", id, "UPDATE">> \in locks
    /\ \A g \in Guests : guest'[g] # guest[g] =>
          \/ <<"guest", g, "UPDATE">> \in locks
          \/ <<"guest", g, GuestLock>> \in locks /\ guest'[g].state = "LIVE"

\* Which locks exclude each other.
LEMMA Clashes ==
    \A table, row :
        /\ \A mode : Clash(<<table, row, "UPDATE">>, <<table, row, mode>>)
        /\ Clash(<<table, row, GuestLock>>, <<table, row, GuestLock>>)
<1>1. \A mode : ~Compatible("UPDATE", mode)
  BY DEF Compatible
<1>2. ~Compatible(GuestLock, GuestLock)
  BY DEF Compatible, GuestLock
<1> QED
  BY <1>1, <1>2 DEF Clash

\* A transaction that reads a snapshot locks only sessions that its owner has.
LEMMA LockedSessions ==
    ASSUME Inv, NEW c \in Calls, Begun(c), NEW s \in Sessions,
           <<"session", s, "UPDATE">> \in txn[c].locks \/ <<"session", s, "KEY_SHARE">> \in txn[c].locks
    PROVE  session[s] = Snap(c).session[s] /\ OwnedSeen(c, s)
<1>1. Good(c) /\ Active(c) /\ Request(c).kind # "CLEAN"
  BY DEF Inv, Begun
<1>2. txn[c].locks = HeldLocks(c)
  BY <1>1 DEF Good, Holding
<1>3. \/ HoldsSession(c) /\ s = Request(c).session
      \/ HoldsSource(c) /\ s = Request(c).source
  BY <1>2 DEF HeldLocks, Reservation, GuestLock
<1>4. OwnedSeen(c, s)
  BY <1>1, <1>3 DEF Good, Learned, HoldsSession, HoldsSource, In
<1> QED
  BY <1>1, <1>4 DEF Good, Pinned, Unchanged

\* A transaction commits what it has covered by locks: the others still stand on rows that
\* are as they need them.
LEMMA Commits ==
    ASSUME Inv, NEW c \in Calls, Active(c), Answered(c), Granted(c),
           Covers(c, txn[c].locks \cup Wanted(c)), [Practice!Next]_Practice!vars
    PROVE  Inv'
<1>1. /\ RowsConsistent'
      /\ \A s \in Sessions : Service!Onward(s)
      /\ \A g \in Guests : Service!GuestOnward(g)
      /\ \A s \in Sessions, at \in Nat :
            at <= now /\ Service!Abandoned(s, at) => Service!Abandoned(s, at)'
  BY RowsNext DEF Inv
<1>2. /\ txn' = [txn EXCEPT ![c] = Over("ANSWERED")]
      /\ txn'[c] = Over("ANSWERED")
      /\ \A d \in Calls \ {c} : txn'[d] = txn[d]
      /\ now' = now
  BY DEF Answered, Inv
<1>3. Good(c)' /\ txn'[c].locks = {} /\ ~Active(c)'
  BY <1>2, OverGood DEF Over, Active
<1>4. txn' = [d \in Calls |-> txn'[d]]
  BY <1>2 DEF Inv
<1>5. ASSUME NEW d \in Calls \ {c} PROVE Good(d)'
  <2> DEFINE r == Request(d)
  <2>1. Good(d) /\ txn'[d] = txn[d]
    BY <1>2 DEF Inv
  <2>2. /\ Active(d)' = Active(d) /\ Request(d)' = r /\ Snap(d)' = Snap(d)
        /\ Begun(d)' = Begun(d)
        /\ \A kind, steps : In(d, kind, steps)' = In(d, kind, steps)
    BY <2>1 DEF Active, Request, Snap, In, Begun
  <2>3. Typed(d)' /\ Learned(d)' /\ Holding(d)'
    BY <2>1, SameTransaction DEF Good
  <2>4. Timely(d)'
    BY <1>2, <2>1, <2>2 DEF Good, Timely
  <2>5. \A l \in txn[c].locks \cup Wanted(c), m \in txn[d].locks : ~Clash(l, m)
    <3>1. \A l \in txn[c].locks, m \in txn[d].locks : ~Clash(l, m)
      BY DEF Inv, Exclusive
    <3>2. \A l \in Wanted(c), m \in txn[d].locks : ~Clash(l, m)
      BY DEF Granted, Waits
    <3> QED
      BY <3>1, <3>2
  <2>6. \A s \in Sessions : \A mode :
           <<"session", s, mode>> \in txn[d].locks /\ session[s].status # "UNUSED"
              => session'[s] = session[s]
    BY <2>5, Clashes DEF Covers
  <2>7. Pinned(d)'
    <3> SUFFICES ASSUME Begun(d) PROVE Unchanged(d, txn[d].locks)'
      BY <2>1, <2>2 DEF Pinned
    <3>1. Unchanged(d, txn[d].locks)
      BY <2>1 DEF Good, Pinned
    <3>2. ASSUME NEW s \in Sessions,
                 \/ <<"session", s, "UPDATE">> \in txn[d].locks
                 \/ <<"session", s, "KEY_SHARE">> \in txn[d].locks
          PROVE  session'[s] = session[s]
      <4>1. session[s].status # "UNUSED"
        BY <3>2, LockedSessions DEF OwnedSeen, Practice!Live
      <4> QED
        BY <2>6, <3>2, <4>1
    <3>3. ASSUME NEW id \in Practice!RecordId, <<"record", id, "UPDATE">> \in txn[d].locks
          PROVE  record'[id] = record[id]
      BY <2>5, <3>3, Clashes DEF Covers
    <3>4. ASSUME NEW g \in Guests, <<"guest", g, GuestLock>> \in txn[d].locks
          PROVE  guest'[g] = guest[g]
      BY <2>5, <3>4, Clashes DEF Covers
    <3>5. ASSUME NEW g \in Guests, <<"guest", g, "KEY_SHARE">> \in txn[d].locks
          PROVE  guest'[g] = guest[g] \/ guest'[g].state = "LIVE"
      BY <2>5, <3>5, Clashes DEF Covers
    <3> QED
      BY <2>1, <2>2, <3>1, <3>2, <3>3, <3>4, <3>5 DEF Unchanged
  <2>8. Current(d)'
    <3>1. ProofSeen(d)' = ProofSeen(d)
      BY <2>2 DEF ProofSeen
    <3>2. ASSUME Begun(d), NEW s \in Sessions, Snap(d).session[s].status = "SUBMITTED"
          PROVE  \/ session'[s].status = "DELETED"
                 \/ session'[s].status = "SUBMITTED" /\ result'[s] = Snap(d).result[s]
      BY <1>1, <2>1, <3>2 DEF Good, Current, Service!Onward
    <3>3. ASSUME \/ Begun(d) /\ r.owner \in Guests /\ ProofSeen(d)
                 \/ In(d, "READ", {"SESSION"}) /\ r.owner \in Guests
                 \/ In(d, "CANCEL", {"SESSION"}) /\ r.owner \in Guests
          PROVE  guest'[r.owner].state # "UNUSED" /\ guest'[r.owner].expiresAt > r.at
      <4>1. guest[r.owner].state # "UNUSED" /\ guest[r.owner].expiresAt > r.at
        BY <2>1, <3>3 DEF Good, Current
      <4>2. guest'[r.owner].state # "UNUSED" /\ guest[r.owner].expiresAt <= guest'[r.owner].expiresAt
        BY <1>1, <3>3, <4>1 DEF Service!GuestOnward
      <4>3. r.at \in Nat
        BY <2>1, <3>3 DEF Good, Typed, Suited, Begun, In
      <4>4. guest[r.owner].expiresAt \in Nat
        BY <3>3, RowsTyped DEF Inv, Practice!GuestRow
      <4>5. guest'[r.owner].expiresAt \in Nat
        <5>1. guest' \in [Guests -> Service!GuestRow]
          BY <1>1 DEF RowsConsistent, Service!GuestsConsistent, Service!Consistent,
             Service!TypeOK
        <5> QED
          BY <3>3, <5>1 DEF Service!GuestRow
      <4> QED
        BY <4>1, <4>2, <4>3, <4>4, <4>5
    <3> QED
      BY <2>2, <3>1, <3>2, <3>3 DEF Current
  <2>9. Cleaning(d)'
    <3>1. Active(d) => r.at \in Nat /\ r.at <= now
      BY <2>1 DEF Good, Typed, Suited, Timely
    <3>2. ASSUME In(d, "CLEAN", {"WRITE"}), r.target[1] = "draft"
          PROVE  session'[r.target[2]].status \in {"IN_PROGRESS", "EXPIRED"}
      <4>1. /\ r.target[2] \in Sessions
            /\ session[r.target[2]].status \in {"IN_PROGRESS", "EXPIRED"}
        BY <2>1, <3>2 DEF Good, Cleaning, In
      <4>2. <<"session", r.target[2], "UPDATE">> \in txn[d].locks
        BY <2>1, <3>2 DEF Good, Holding, TargetLock
      <4> QED
        BY <2>6, <4>1, <4>2
    <3> QED
      BY <1>1, <2>1, <2>2, <3>1, <3>2 DEF Good, Cleaning, In
  <2>10. New(d)'
    <3> SUFFICES ASSUME Active(d), r.kind \in {"CREATE", "RETRY"}
                 PROVE  /\ session'[r.session].status = "UNUSED"
                        /\ \A e \in Calls \ {d} : Active(e)' => Request(e)'.session # r.session
      BY <2>2 DEF New
    <3>1. /\ session[r.session].status = "UNUSED" /\ r.session \in Sessions
          /\ \A e \in Calls \ {d} : Active(e) => Request(e).session # r.session
      BY <2>1 DEF Good, New, Typed, Suited
    <3>2. session'[r.session] = session[r.session]
      BY <3>1 DEF Covers
    <3>3. \A e \in Calls \ {c} : Active(e)' = Active(e) /\ Request(e)' = Request(e)
      BY <1>2 DEF Active, Request
    <3> QED
      BY <1>3, <3>1, <3>2, <3>3
  <2> QED
    BY <2>3, <2>4, <2>7, <2>8, <2>9, <2>10 DEF Good
<1>6. Exclusive'
  BY <1>2, <1>3 DEF Inv, Exclusive
<1> QED
  BY <1>1, <1>3, <1>4, <1>5, <1>6 DEF Inv

(***************************************************************************)
(* Each commit is a step of StudyPractice.                                 *)
(***************************************************************************)

\* A step that leaves the rows alone is none of StudyPractice.
LEMMA Quiet == UNCHANGED <<now, rows>> => [Practice!Next]_Practice!vars
BY DEF rows, Practice!vars

\* What is known of a request while it is served.
LEMMA Served ==
    ASSUME Inv, NEW c \in Calls, Active(c)
    PROVE  /\ Good(c) /\ Suited(Request(c))
           /\ Request(c).at \in Practice!Observed
           /\ Request(c).at \in Nat
           /\ Request(c).kind # "CLEAN" /\ txn[c].step = "WRITE" => Granted(c) /\ Wanted(c) = {}
           /\ Begun(c) => Unchanged(c, txn[c].locks)
           /\ Request(c).kind # "CLEAN" => txn[c].locks = HeldLocks(c)
<1>1. Good(c) /\ Suited(Request(c)) /\ now \in Nat
  BY RowsTyped DEF Inv, Good, Typed
<1>2. Request(c).at \in Nat /\ Request(c).at \in Practice!Observed
  BY <1>1 DEF Good, Timely, Suited, Practice!Observed
<1>3. Request(c).kind # "CLEAN" /\ txn[c].step = "WRITE" => Granted(c) /\ Wanted(c) = {}
  BY DEF Wanted, Granted, Waits
<1> QED
  BY <1>1, <1>2, <1>3 DEF Good, Pinned, Holding

\* One request is a step.
LEMMA RequestStep ==
    ASSUME NEW o \in Users \cup Guests, NEW s \in Sessions, NEW at \in Practice!Observed,
           Practice!ClientRequestOf(o, s, at)
    PROVE  Practice!Next
BY DEF Practice!Next, Practice!ClientRequest, Practice!Owners

\* Creating commits CreateSession.
LEMMA CreateCommits ==
    ASSUME Inv, NEW c \in Calls, CreateWrite(c)
    PROVE  Inv' /\ [Practice!Next]_Practice!vars
<1> DEFINE r == Request(c)
           o == r.owner
           s == r.session
           seen == Snap(c).guest[o]
<1>1. Active(c) /\ r.kind = "CREATE" /\ txn[c].step = "WRITE" /\ Begun(c) /\ Answered(c)
  BY DEF CreateWrite, At, Begun
<1>2. /\ Good(c) /\ Granted(c) /\ r.at \in Practice!Observed
      /\ o \in Users \cup Guests /\ s \in Sessions
  BY <1>1, Served DEF Suited
<1>3. session[s].status = "UNUSED"
  BY <1>1, <1>2 DEF Good, New
<1>4. o \in Guests => <<"guest", o, GuestLock>> \in txn[c].locks /\ guest[o] = seen
  <2>1. o \in Guests => <<"guest", o, GuestLock>> \in HeldLocks(c)
    BY <1>1 DEF HeldLocks, HoldsGuest, In
  <2> QED
    BY <1>1, <2>1, Served DEF Unchanged
<1>5. \/ Practice!CreateForUser(o, s, r.at)
      \/ Practice!CreateForGuest(o, s, r.at)
      \/ Practice!CreateForNewGuest(o, s, r.at)
  <2>1. o \in Guests /\ seen.state = "LIVE" =>
           /\ guest[o].state = "LIVE" /\ guest[o].expiresAt > r.at
           /\ guest[o].lastSeenAt <= r.at
    BY <1>1, <1>2, <1>4 DEF Good, Learned, In, ProofSeen
  <2> QED
    BY <1>4, <2>1 DEF CreateWrite, Practice!CreateForGuest, Practice!GuestProof
<1>6. Practice!Next
  <2>1. Practice!CreateSession(o, s, r.at)
    BY <1>1, <1>3, <1>5 DEF Practice!CreateSession, CreateWrite, Answered
  <2>2. Practice!ClientRequestOf(o, s, r.at)
    BY <2>1 DEF Practice!ClientRequestOf
  <2> QED
    BY <1>2, <2>2, RequestStep
<1>7. Covers(c, txn[c].locks \cup Wanted(c))
  <2>1. \A x \in Sessions \ {s} : session'[x] = session[x]
    BY <1>5, RowsTyped DEF Inv, Practice!CreateForUser, Practice!CreateForGuest,
       Practice!CreateForNewGuest, Practice!Started
  <2>2. \A g \in Guests : guest'[g] = guest[g] \/ (g = o /\ guest'[g].state = "LIVE")
    BY <1>5, RowsTyped DEF Inv, Practice!CreateForUser, Practice!CreateForGuest,
       Practice!CreateForNewGuest, Practice!GuestProof, Practice!GuestRow
  <2>3. record' = record
    BY DEF CreateWrite
  <2> QED
    BY <1>1, <1>3, <1>4, <2>1, <2>2, <2>3 DEF Covers
<1> QED
  BY <1>1, <1>2, <1>6, <1>7, Commits

\* The caller of a handler that has found the credential good still has it, as long as one
\* of the sessions is there.
LEMMA CredentialKept ==
    ASSUME Inv, NEW c \in Calls, NEW s \in Sessions, Practice!Owned(Request(c).owner, s),
           \/ Begun(c) /\ (Request(c).owner \in Guests => ProofSeen(c))
           \/ In(c, "READ", {"SESSION"})
           \/ In(c, "CANCEL", {"SESSION"})
    PROVE  Practice!GuestProof(Request(c).owner, Request(c).at)
<1> DEFINE o == Request(c).owner
<1> SUFFICES ASSUME o \in Guests
             PROVE  guest[o].state = "LIVE" /\ guest[o].expiresAt > Request(c).at
  BY DEF Practice!GuestProof
<1>1. guest[o].expiresAt > Request(c).at
  BY DEF Inv, Good, Current
<1>2. guest[o].state = "LIVE"
  BY DEF Inv, RowsConsistent, Service!GuestsConsistent, Service!GuestOutlivesSessions,
     Service!GuestOwned, Practice!Owned, Practice!Live, Service!Live
<1> QED
  BY <1>1, <1>2

\* An expiry that a save or a submission finds commits as that of the handler, or, when
\* there is no record to drop, as that of a read.
LEMMA ExpiryCommits ==
    ASSUME Inv, NEW c \in Calls, SaveExpire(c) \/ SubmitExpire(c)
    PROVE  Inv' /\ [Practice!Next]_Practice!vars
<1> DEFINE r == Request(c)
           o == r.owner
           s == r.session
<1>1. /\ Active(c) /\ r.kind \in {"SAVE", "SUBMIT"} /\ txn[c].step = "EXPIRE" /\ Begun(c)
      /\ Expire(c) /\ Granted(c)
  BY DEF SaveExpire, SubmitExpire, Expire, At, Begun
<1>2. CASE Conflict(c)
  BY <1>1, <1>2, Conflicts, Quiet DEF Conflict
<1>3. CASE ~Conflict(c)
  <2>1. /\ Practice!Expired(s) /\ Answered(c) /\ UNCHANGED <<now, result, guest, committed>>
        /\ record' = IF Outdated(c) THEN [record EXCEPT ![Id(r)] = None] ELSE record
        /\ Outdated(c) => record[Id(r)] = RecordSeen(c)
    BY <1>1, <1>3 DEF Expire, Answered
  <2>2. /\ Good(c) /\ r.at \in Practice!Observed /\ o \in Users \cup Guests /\ s \in Sessions
        /\ r.key \in Keys /\ r.answers \in Sheets /\ r.revision \in 0..MaxRevision
    BY <1>1, Served DEF Suited
  <2>3. /\ o \in Guests => ProofSeen(c)
        /\ OwnedSeen(c, s) /\ DueSeen(c)
        /\ Snap(c).session[s].status = "IN_PROGRESS"
    BY <1>1, <2>2 DEF Good, Learned, In
  <2>4. <<"session", s, "UPDATE">> \in txn[c].locks
    <3>1. <<"session", s, "UPDATE">> \in HeldLocks(c)
      BY <1>1 DEF HeldLocks, HoldsSession, In
    <3> QED
      BY <1>1, <3>1, Served
  <2>5. session[s] = Snap(c).session[s]
    BY <1>1, <2>2, <2>4, LockedSessions
  <2>6. Practice!Owned(o, s) /\ Practice!InProgress(s) /\ session[s].expiresAt <= r.at
    BY <2>3, <2>5 DEF OwnedSeen, DueSeen, Practice!Owned, Practice!InProgress
  <2>7. Practice!GuestProof(o, r.at)
    BY <1>1, <2>2, <2>3, <2>6, CredentialKept
  <2>8. Practice!Next
    <3>1. CASE ~Outdated(c)
      <4>1. Practice!GetSession(o, s, r.at)
        BY <2>1, <2>6, <2>7, <3>1 DEF Practice!GetSession, Practice!ExpireOnRead
      <4>2. Practice!ClientRequestOf(o, s, r.at)
        BY <4>1 DEF Practice!ClientRequestOf
      <4> QED
        BY <2>2, <4>2, RequestStep
    <3>2. CASE Outdated(c)
      <4>1. Practice!Fresh(Id(r), r.at)
        BY <2>1, <3>2 DEF Outdated, FreshSeen, Practice!Fresh
      <4>2. CASE r.kind = "SAVE"
        <5>1. Id(r) = <<o, "STUDY_DRAFT_SAVE", r.key>>
          BY <4>2 DEF Id
        <5>2. Practice!SaveExpires(Id(r), s, r.at)
          BY <2>1, <2>6, <3>2, <4>1 DEF Practice!SaveExpires
        <5>3. Practice!SaveDraft(o, r.key, s, r.answers, r.revision, r.at)
          BY <2>1, <2>6, <2>7, <5>1, <5>2 DEF Practice!SaveDraft
        <5>4. Practice!ClientRequestOf(o, s, r.at)
          BY <2>2, <5>3 DEF Practice!ClientRequestOf
        <5> QED
          BY <2>2, <5>4, RequestStep
      <4>3. CASE r.kind = "SUBMIT"
        <5>1. Id(r) = <<o, "STUDY_SUBMIT", r.key>>
          BY <4>3 DEF Id
        <5>2. Practice!SubmitExpires(Id(r), s, r.at)
          BY <2>1, <2>6, <3>2 DEF Practice!SubmitExpires
        <5>3. Practice!Submit(o, r.key, s, r.answers, r.revision, 0, r.at)
          BY <2>1, <2>6, <2>7, <4>1, <5>1, <5>2 DEF Practice!Submit
        <5>4. Practice!ClientRequestOf(o, s, r.at)
          BY <2>2, <5>3 DEF Practice!ClientRequestOf
        <5> QED
          BY <2>2, <5>4, RequestStep
      <4> QED
        BY <1>1, <4>2, <4>3
    <3> QED
      BY <3>1, <3>2
  <2>9. Covers(c, txn[c].locks \cup Wanted(c))
    <3>1. \A x \in Sessions \ {s} : session'[x] = session[x]
      BY <2>1, RowsTyped DEF Inv, Practice!Expired
    <3>2. \A id \in Practice!RecordId : record'[id] # record[id] =>
             <<"record", id, "UPDATE">> \in Wanted(c)
      <4>1. Wanted(c) = DiscardLocks(c)
        BY <1>1 DEF Wanted
      <4> QED
        BY <2>1, <4>1, RowsTyped DEF Inv, DiscardLocks
    <3>3. session[s].status # "UNUSED"
      BY <2>6 DEF Practice!InProgress
    <3> QED
      BY <2>1, <2>4, <3>1, <3>2, <3>3 DEF Covers
  <2> QED
    BY <1>1, <2>1, <2>8, <2>9, Commits
<1> QED
  BY <1>2, <1>3

\* What a transaction finds when it writes under a reservation.
LEMMA ReservedRows ==
    ASSUME Inv, NEW c \in Calls, In(c, "SAVE", {"WRITE"}) \/ In(c, "SUBMIT", {"WRITE"})
                                   \/ In(c, "RETRY", {"WRITE"})
    PROVE  /\ <<"record", Id(Request(c)), "UPDATE">> \in txn[c].locks
           /\ Id(Request(c)) \in Practice!RecordId
           /\ Practice!Fresh(Id(Request(c)), Request(c).at)
<1> DEFINE r == Request(c)
<1>1. Active(c) /\ r.kind \in {"SAVE", "SUBMIT", "RETRY"} /\ txn[c].step = "WRITE" /\ Begun(c)
  BY DEF In, Begun
<1>2. Good(c) /\ r.owner \in Users \cup Guests /\ r.key \in Keys
  BY <1>1, Served DEF Suited
<1>3. Id(r) \in Practice!RecordId
  BY <1>1, <1>2 DEF Id, Practice!RecordId, Practice!Owners, Practice!Operations
<1>4. <<"record", Id(r), "UPDATE">> \in txn[c].locks
  <2>1. <<"record", Id(r), "UPDATE">> \in HeldLocks(c)
    BY DEF HeldLocks, HoldsReservation, Reservation
  <2> QED
    BY <1>1, <2>1, Served
<1>5. record[Id(r)] = RecordSeen(c)
  BY <1>1, <1>3, <1>4, Served DEF Unchanged, RecordSeen
<1>6. FreshSeen(c)
  BY <1>1, <1>2 DEF Good, Learned, In
<1> QED
  BY <1>3, <1>4, <1>5, <1>6 DEF FreshSeen, Practice!Fresh

\* A save commits SaveDraft.
LEMMA SaveCommits ==
    ASSUME Inv, NEW c \in Calls, SaveWrite(c)
    PROVE  Inv' /\ [Practice!Next]_Practice!vars
<1> DEFINE r == Request(c)
           o == r.owner
           s == r.session
           seen == Snap(c).draft[s]
<1>1. /\ Active(c) /\ r.kind = "SAVE" /\ txn[c].step = "WRITE" /\ Begun(c)
      /\ In(c, "SAVE", {"WRITE"})
  BY DEF SaveWrite, At, Begun, In
<1>2. CASE Conflict(c)
  BY <1>1, <1>2, Conflicts, Quiet DEF Conflict
<1>3. CASE ~Conflict(c)
  <2> DEFINE savedAt == Practice!Later(r.at, seen.updatedAt + 1)
  <2>1. /\ draft[s] = seen
        /\ draft' = [draft EXCEPT ![s] = [revision |-> seen.revision + 1,
                                          answers |-> r.answers, updatedAt |-> savedAt]]
        /\ Practice!Commit(Id(r), s, [answers |-> r.answers, revision |-> seen.revision + 1,
                                      at |-> savedAt])
        /\ Answered(c) /\ UNCHANGED <<now, session, result, guest>>
    BY <1>3 DEF SaveWrite, Answered
  <2>2. /\ Good(c) /\ r.at \in Practice!Observed /\ o \in Users \cup Guests /\ s \in Sessions
        /\ r.key \in Keys /\ r.answers \in Sheets /\ r.revision \in 0..MaxRevision
        /\ r.revision < MaxRevision /\ r.at \in Nat
        /\ Granted(c)
    BY <1>1, Served DEF Suited
  <2>3. /\ ProofSeen(c) /\ OwnedSeen(c, s) /\ ~DueSeen(c) /\ seen.revision = r.revision
        /\ Snap(c).session[s].status = "IN_PROGRESS"
    BY <1>1, <2>2 DEF Good, Learned, In
  <2>4. session[s] = Snap(c).session[s]
    <3>1. <<"session", s, "UPDATE">> \in HeldLocks(c)
      BY <1>1 DEF HeldLocks, HoldsSession, In
    <3> QED
      BY <1>1, <2>2, <3>1, Served, LockedSessions
  <2>5. session[s].expiresAt \in Nat
    BY <2>2, RowsTyped DEF Inv, Practice!SessionRow
  <2>6. Practice!Owned(o, s) /\ Practice!InProgress(s) /\ session[s].expiresAt > r.at
    BY <2>2, <2>3, <2>4, <2>5 DEF OwnedSeen, DueSeen, Practice!Owned, Practice!InProgress
  <2>7. Practice!GuestProof(o, r.at)
    BY <1>1, <2>2, <2>3, <2>6, CredentialKept
  <2>8. Id(r) = <<o, "STUDY_DRAFT_SAVE", r.key>>
    BY <1>1 DEF Id
  <2>9. Practice!SaveApplies(Id(r), s, r.answers, r.revision, r.at)
    BY <1>1, <2>1, <2>2, <2>3, <2>6, ReservedRows DEF Practice!SaveApplies
  <2>10. Practice!SaveDraft(o, r.key, s, r.answers, r.revision, r.at)
    BY <2>1, <2>6, <2>7, <2>8, <2>9 DEF Practice!SaveDraft
  <2>11. Practice!Next
    <3>1. Practice!ClientRequestOf(o, s, r.at)
      BY <2>2, <2>10 DEF Practice!ClientRequestOf
    <3> QED
      BY <2>2, <3>1, RequestStep
  <2>12. Covers(c, txn[c].locks \cup Wanted(c))
    <3>1. \A id \in Practice!RecordId \ {Id(r)} : record'[id] = record[id]
      BY <2>1, RowsTyped DEF Inv, Practice!Commit
    <3> QED
      BY <1>1, <2>1, <3>1, ReservedRows DEF Covers
  <2> QED
    BY <1>1, <2>1, <2>2, <2>11, <2>12, Commits
<1> QED
  BY <1>2, <1>3

\* A submission commits Submit.
LEMMA SubmitCommits ==
    ASSUME Inv, NEW c \in Calls, SubmitWrite(c)
    PROVE  Inv' /\ [Practice!Next]_Practice!vars
<1> DEFINE r == Request(c)
           o == r.owner
           s == r.session
           seen == Snap(c).draft[s]
<1>1. /\ Active(c) /\ r.kind = "SUBMIT" /\ txn[c].step = "WRITE" /\ Begun(c)
      /\ In(c, "SUBMIT", {"WRITE"})
  BY DEF SubmitWrite, At, Begun, In
<1>2. CASE Conflict(c)
  BY <1>1, <1>2, Conflicts, Quiet DEF Conflict
<1>3. CASE Refused(c)
  BY <1>3, Refusals, Quiet DEF Refused, Answered
<1>4. CASE ~Conflict(c) /\ ~Refused(c)
  <2> DEFINE started == Practice!Later(r.at, Snap(c).session[s].startedAt)
             submittedAt == IF o \in Guests
                            THEN Practice!Later(started, Snap(c).guest[o].lastSeenAt)
                            ELSE started
  <2>1. /\ seen.revision = r.revision /\ seen.answers = r.answers /\ draft[s] = seen
        /\ result' = [result EXCEPT ![s] = [answers |-> r.answers, revision |-> r.revision,
                                            submittedAt |-> submittedAt]]
        /\ guest' = IF o \in Guests
                    THEN [guest EXCEPT ![o].lastSeenAt = submittedAt,
                                       ![o].expiresAt = submittedAt + GuestRenewal]
                    ELSE guest
        /\ session' = [session EXCEPT ![s].status = "SUBMITTED"]
        /\ draft' = [draft EXCEPT ![s] = None]
        /\ Practice!Commit(Id(r), s, [answers |-> r.answers, revision |-> r.revision,
                                      at |-> submittedAt])
        /\ Answered(c) /\ UNCHANGED now
    BY <1>4 DEF SubmitWrite, Answered
  <2> HIDE DEF submittedAt
  <2>2. /\ Good(c) /\ r.at \in Practice!Observed /\ o \in Users \cup Guests /\ s \in Sessions
        /\ r.key \in Keys /\ r.answers \in Sheets /\ r.revision \in 0..MaxRevision
        /\ r.at \in Nat /\ Granted(c)
    BY <1>1, Served DEF Suited
  <2>3. /\ o \in Guests => ProofSeen(c)
        /\ OwnedSeen(c, s) /\ ~DueSeen(c)
        /\ Snap(c).session[s].status = "IN_PROGRESS"
    BY <1>1, <2>2 DEF Good, Learned, In
  <2>4. session[s] = Snap(c).session[s] /\ <<"session", s, "UPDATE">> \in txn[c].locks
    <3>1. <<"session", s, "UPDATE">> \in HeldLocks(c)
      BY <1>1 DEF HeldLocks, HoldsSession, In
    <3> QED
      BY <1>1, <2>2, <3>1, Served, LockedSessions
  <2>5. o \in Guests => <<"guest", o, GuestLock>> \in txn[c].locks /\ guest[o] = Snap(c).guest[o]
    <3>1. o \in Guests => <<"guest", o, GuestLock>> \in HeldLocks(c)
      BY <1>1 DEF HeldLocks, HoldsGuest, In
    <3> QED
      BY <1>1, <3>1, Served DEF Unchanged
  <2>6. session[s].expiresAt \in Nat /\ session[s].startedAt \in Nat
    BY <2>2, RowsTyped DEF Inv, Practice!SessionRow
  <2>7. Practice!Owned(o, s) /\ Practice!InProgress(s) /\ session[s].expiresAt > r.at
    BY <2>2, <2>3, <2>4, <2>6 DEF OwnedSeen, DueSeen, Practice!Owned, Practice!InProgress
  <2>8. Practice!GuestProof(o, r.at)
    BY <1>1, <2>2, <2>3, <2>7, CredentialKept
  <2>9. Id(r) = <<o, "STUDY_SUBMIT", r.key>>
    BY <1>1 DEF Id
  <2>10. submittedAt = Practice!SubmittedAt(o, s, 0, r.at)
    <3>1. started = Practice!Later(started, 0) /\ started = Practice!Later(r.at, session[s].startedAt)
      BY <2>2, <2>4, <2>6 DEF Practice!Later
    <3> QED
      BY <2>5, <3>1 DEF Practice!SubmittedAt, submittedAt
  <2>11. Practice!SubmitApplies(Id(r), o, s, r.answers, r.revision, 0, r.at)
    BY <2>1, <2>7, <2>10 DEF Practice!SubmitApplies
  <2>12. Practice!Submit(o, r.key, s, r.answers, r.revision, 0, r.at)
    BY <1>1, <2>1, <2>7, <2>8, <2>9, <2>11, ReservedRows DEF Practice!Submit
  <2>13. Practice!Next
    <3>1. Practice!ClientRequestOf(o, s, r.at)
      BY <2>2, <2>12 DEF Practice!ClientRequestOf
    <3> QED
      BY <2>2, <3>1, RequestStep
  <2>14. Covers(c, txn[c].locks \cup Wanted(c))
    <3>1. \A id \in Practice!RecordId \ {Id(r)} : record'[id] = record[id]
      BY <2>1, RowsTyped DEF Inv, Practice!Commit
    <3>2. \A x \in Sessions \ {s} : session'[x] = session[x]
      BY <2>1, RowsTyped DEF Inv
    <3>3. \A g \in Guests : guest'[g] = guest[g] \/ (g = o /\ guest'[g].state = "LIVE")
      BY <2>1, <2>8, RowsTyped DEF Inv, Practice!GuestProof, Practice!GuestRow
    <3>4. session[s].status # "UNUSED"
      BY <2>7 DEF Practice!InProgress
    <3> QED
      BY <1>1, <2>4, <2>5, <3>1, <3>2, <3>3, <3>4, ReservedRows DEF Covers
  <2> QED
    BY <1>1, <2>1, <2>2, <2>13, <2>14, Commits
<1> QED
  BY <1>2, <1>3, <1>4

\* A retry commits RetryMistakes: the shared source has kept its result.
LEMMA RetryCommits ==
    ASSUME Inv, NEW c \in Calls, RetryWrite(c)
    PROVE  Inv' /\ [Practice!Next]_Practice!vars
<1> DEFINE r == Request(c)
           o == r.owner
           s == r.session
           expiresAt == IF o \in Guests
                        THEN Practice!Earlier(Snap(c).guest[o].expiresAt, r.at + SessionTTL)
                        ELSE r.at + SessionTTL
<1>1. /\ Active(c) /\ r.kind = "RETRY" /\ txn[c].step = "WRITE" /\ Begun(c)
      /\ In(c, "RETRY", {"WRITE"})
  BY DEF RetryWrite, At, Begun, In
<1>2. /\ Practice!Started(o, s, r.source, r.at, expiresAt)
      /\ Practice!Commit(Id(r), s, [answers |-> Blank, revision |-> 0, at |-> r.at])
      /\ Answered(c) /\ UNCHANGED <<now, result, guest>>
  BY DEF RetryWrite, Answered
<1> HIDE DEF expiresAt
<1>3. /\ Good(c) /\ r.at \in Practice!Observed /\ o \in Users \cup Guests /\ s \in Sessions
      /\ r.key \in Keys /\ r.source \in Sessions /\ Granted(c)
  BY <1>1, Served DEF Suited
<1>4. /\ o \in Guests => ProofSeen(c)
      /\ OwnedSeen(c, r.source)
      /\ Snap(c).session[r.source].status = "SUBMITTED"
      /\ Snap(c).result[r.source] # None
      /\ Snap(c).result[r.source].answers \in Mistaken
  BY <1>1, <1>3 DEF Good, Learned, In
<1>5. session[s].status = "UNUSED"
  BY <1>1, <1>3 DEF Good, New
<1>6. session[r.source] = Snap(c).session[r.source]
  <2>1. <<"session", r.source, "KEY_SHARE">> \in HeldLocks(c)
    BY <1>1 DEF HeldLocks, HoldsSource, In
  <2> QED
    BY <1>1, <1>3, <2>1, Served, LockedSessions
<1>7. result[r.source] = Snap(c).result[r.source]
  BY <1>1, <1>3, <1>4, <1>6 DEF Good, Current
<1>8. Practice!Owned(o, r.source) /\ session[r.source].status = "SUBMITTED"
  BY <1>4, <1>6 DEF OwnedSeen, Practice!Owned
<1>9. Practice!GuestProof(o, r.at)
  BY <1>1, <1>3, <1>4, <1>8, CredentialKept
<1>10. expiresAt = Practice!RetryExpiry(o, r.at)
  <2>1. o \in Guests => guest[o] = Snap(c).guest[o]
    <3>1. o \in Guests => <<"guest", o, GuestLock>> \in HeldLocks(c)
      BY <1>1 DEF HeldLocks, HoldsGuest, In
    <3> QED
      BY <1>1, <3>1, Served DEF Unchanged
  <2> QED
    BY <2>1 DEF Practice!RetryExpiry, expiresAt
<1>11. Id(r) = <<o, "STUDY_RETRY_CREATE", r.key>>
  BY <1>1 DEF Id
<1>12. Practice!RetryMistakes(o, r.key, r.source, s, r.at)
  BY <1>1, <1>2, <1>4, <1>5, <1>7, <1>8, <1>9, <1>10, <1>11, ReservedRows
  DEF Practice!RetryMistakes
<1>13. Practice!Next
  <2>1. Practice!ClientRequestOf(o, s, r.at)
    BY <1>3, <1>12 DEF Practice!ClientRequestOf
  <2> QED
    BY <1>3, <2>1, RequestStep
<1>14. Covers(c, txn[c].locks \cup Wanted(c))
  <2>1. \A id \in Practice!RecordId \ {Id(r)} : record'[id] = record[id]
    BY <1>2, RowsTyped DEF Inv, Practice!Commit
  <2>2. \A x \in Sessions \ {s} : session'[x] = session[x]
    BY <1>2, RowsTyped DEF Inv, Practice!Started
  <2> QED
    BY <1>1, <1>2, <1>5, <2>1, <2>2, ReservedRows DEF Covers
<1> QED
  BY <1>1, <1>2, <1>3, <1>13, <1>14, Commits

\* A read that finds its session due commits GetSession.
LEMMA ReadCommits ==
    ASSUME Inv, NEW c \in Calls, ReadSession(c)
    PROVE  Inv' /\ [Practice!Next]_Practice!vars
<1> DEFINE r == Request(c)
           o == r.owner
           s == r.session
<1>1. /\ Active(c) /\ r.kind = "READ" /\ txn[c].step = "SESSION" /\ Granted(c)
      /\ In(c, "READ", {"SESSION"})
  BY DEF ReadSession, At, In
<1>2. CASE Refused(c)
  BY <1>2, Refusals, Quiet DEF Refused, Answered
<1>3. CASE ~Refused(c)
  <2>1. /\ Practice!Owned(o, s) /\ Practice!InProgress(s) /\ session[s].expiresAt <= r.at
        /\ Practice!Expired(s)
        /\ Answered(c) /\ UNCHANGED <<now, result, record, guest, committed>>
    BY <1>3 DEF ReadSession, Answered
  <2>2. r.at \in Practice!Observed /\ o \in Users \cup Guests /\ s \in Sessions
    BY <1>1, Served DEF Suited
  <2>3. Practice!GuestProof(o, r.at)
    BY <1>1, <2>1, <2>2, CredentialKept
  <2>4. Practice!GetSession(o, s, r.at)
    BY <2>1, <2>3 DEF Practice!GetSession, Practice!ExpireOnRead
  <2>5. Practice!Next
    <3>1. Practice!ClientRequestOf(o, s, r.at)
      BY <2>4 DEF Practice!ClientRequestOf
    <3> QED
      BY <2>2, <3>1, RequestStep
  <2>6. Covers(c, txn[c].locks \cup Wanted(c))
    <3>1. \A x \in Sessions \ {s} : session'[x] = session[x]
      BY <2>1, RowsTyped DEF Inv, Practice!Expired
    <3>2. <<"session", s, "UPDATE">> \in Wanted(c)
      BY <1>1 DEF Wanted
    <3> QED
      BY <2>1, <3>1, <3>2 DEF Covers, Practice!InProgress
  <2> QED
    BY <1>1, <2>1, <2>5, <2>6, Commits
<1> QED
  BY <1>2, <1>3

\* A cancellation commits CancelSession.
LEMMA CancelCommits ==
    ASSUME Inv, NEW c \in Calls, CancelSession(c)
    PROVE  Inv' /\ [Practice!Next]_Practice!vars
<1> DEFINE r == Request(c)
           o == r.owner
           s == r.session
<1>1. /\ Active(c) /\ r.kind = "CANCEL" /\ txn[c].step = "SESSION" /\ Granted(c)
      /\ In(c, "CANCEL", {"SESSION"})
  BY DEF CancelSession, At, In
<1>2. CASE Refused(c)
  BY <1>2, Refusals, Quiet DEF Refused, Answered
<1>3. CASE ~Refused(c)
  <2>1. /\ Practice!Owned(o, s) /\ Practice!InProgress(s)
        /\ IF session[s].expiresAt <= r.at THEN Practice!Expired(s) ELSE Practice!CancelApplies(s)
        /\ Answered(c) /\ UNCHANGED <<now, result, record, guest, committed>>
    BY <1>3 DEF CancelSession, Answered
  <2>2. r.at \in Practice!Observed /\ o \in Users \cup Guests /\ s \in Sessions
    BY <1>1, Served DEF Suited
  <2>3. Practice!GuestProof(o, r.at)
    BY <1>1, <2>1, <2>2, CredentialKept
  <2>4. Practice!CancelSession(o, s, r.at)
    BY <2>1, <2>3 DEF Practice!CancelSession
  <2>5. Practice!Next
    <3>1. Practice!ClientRequestOf(o, s, r.at)
      BY <2>4 DEF Practice!ClientRequestOf
    <3> QED
      BY <2>2, <3>1, RequestStep
  <2>6. Covers(c, txn[c].locks \cup Wanted(c))
    <3>1. \A x \in Sessions \ {s} : session'[x] = session[x]
      BY <2>1, RowsTyped DEF Inv, Practice!Expired, Practice!CancelApplies
    <3>2. <<"session", s, "UPDATE">> \in Wanted(c)
      BY <1>1 DEF Wanted
    <3> QED
      BY <2>1, <3>1, <3>2 DEF Covers, Practice!InProgress
  <2> QED
    BY <1>1, <2>1, <2>5, <2>6, Commits
<1> QED
  BY <1>2, <1>3

\* The deletion of a guest commits ClearGuest.
LEMMA ClearCommits ==
    ASSUME Inv, NEW c \in Calls, ClearCascade(c)
    PROVE  Inv' /\ [Practice!Next]_Practice!vars
<1> DEFINE r == Request(c)
           g == r.owner
<1>1. /\ Active(c) /\ r.kind = "CLEAR" /\ txn[c].step = "CASCADE" /\ Granted(c)
      /\ Practice!ClearGuest(g) /\ Answered(c)
  BY DEF ClearCascade, At
<1>2. g \in Guests
  BY <1>1, Served DEF Suited
<1>3. Practice!Next
  BY <1>1, <1>2 DEF Practice!Next
<1>4. Covers(c, txn[c].locks \cup Wanted(c))
  <2>1. Wanted(c) = GuestCascade(g)
    BY <1>1 DEF Wanted
  <2>2. <<"guest", g, "UPDATE">> \in txn[c].locks
    <3>1. <<"guest", g, "UPDATE">> \in HeldLocks(c)
      BY <1>1 DEF HeldLocks, In
    <3> QED
      BY <1>1, <3>1, Served
  <2>3. \A s \in Sessions : session'[s] # session[s] =>
           session[s].status # "UNUSED" /\ <<"session", s, "UPDATE">> \in Wanted(c)
    <3>1. \A s \in Sessions : session'[s] # session[s] => Practice!Owned(g, s)
      BY <1>1 DEF Practice!ClearGuest
    <3> QED
      BY <2>1, <3>1 DEF GuestCascade, Practice!Owned, Practice!Live
  <2>4. \A id \in Practice!RecordId : record'[id] # record[id] =>
           <<"record", id, "UPDATE">> \in Wanted(c)
    <3>1. \A id \in Practice!RecordId : record'[id] # record[id] => record[id] # None /\ id[1] = g
      BY <1>1 DEF Practice!ClearGuest
    <3> QED
      BY <2>1, <3>1 DEF GuestCascade
  <2>5. \A x \in Guests : guest'[x] # guest[x] => x = g
    BY <1>1, RowsTyped DEF Inv, Practice!ClearGuest
  <2> QED
    BY <2>2, <2>3, <2>4, <2>5 DEF Covers
<1> QED
  BY <1>1, <1>3, <1>4, Commits

\* Deleting a draft commits CleanDraft, or nothing when the draft has gone: the session is
\* abandoned, so no handler can have continued it and no session retries it.
LEMMA CleanDraftCommits ==
    ASSUME Inv, NEW c \in Calls, At(c, "CLEAN", "WRITE"), Granted(c), Answered(c),
           Request(c).target[1] = "draft",
           session' = [session EXCEPT ![Request(c).target[2]].status = "EXPIRED"],
           draft' = [draft EXCEPT ![Request(c).target[2]] = None],
           UNCHANGED <<result, record, guest, committed>>
    PROVE  Inv' /\ [Practice!Next]_Practice!vars
<1> DEFINE r == Request(c)
           x == r.target[2]
<1>1. Active(c) /\ r.kind = "CLEAN" /\ txn[c].step = "WRITE" /\ now' = now
  BY DEF At, Answered
<1>2. /\ Good(c) /\ r.at \in Nat /\ r.at <= now /\ now \in Nat
  BY <1>1, Served, RowsTyped DEF Inv, Good, Timely
<1>3. /\ x \in Sessions /\ Service!Abandoned(x, r.at)
      /\ session[x].status \in {"IN_PROGRESS", "EXPIRED"}
      /\ <<"session", x, "UPDATE">> \in txn[c].locks
  BY <1>1, <1>2 DEF Good, Cleaning, In, Holding, TargetLock
<1>4. [Practice!Next]_Practice!vars
  <2>1. CASE draft[x] = None
    <3>1. session[x].status = "EXPIRED"
      BY <1>3, <2>1 DEF Inv, RowsConsistent, Service!GuestsConsistent, Service!Consistent,
         Service!RowsAgree, Service!InProgress
    <3>2. session \in [Sessions -> Practice!SessionRow] /\ draft \in [Sessions -> Practice!DraftRow \cup {None}]
      BY RowsTyped DEF Inv
    <3>3. [session[x] EXCEPT !.status = "EXPIRED"] = session[x]
      BY <1>3, <3>1, <3>2 DEF Practice!SessionRow
    <3>4. session' = session
      BY <3>2, <3>3
    <3>5. draft' = draft
      BY <2>1, <3>2
    <3> QED
      BY <1>1, <3>4, <3>5, Quiet DEF rows
  <2>2. CASE draft[x] # None
    <3>1. session[x].expiresAt \in Nat /\ session[x].expiresAt + Grace <= now
      <4>1. session[x].expiresAt \in Nat
        BY <1>3, RowsTyped DEF Inv, Practice!SessionRow
      <4> QED
        BY <1>2, <1>3, <4>1, TimesAssumption DEF Service!Abandoned
    <3>2. \A id \in Practice!RecordId : record[id] # None /\ record[id].session = x
                                           => record[id].expiresAt <= now
      <4>1. Practice!RecordId = Service!RecordId
        BY DEF Practice!RecordId, Service!RecordId, Practice!Owners, Service!Owners,
           Practice!Operations, Service!Operations
      <4> SUFFICES ASSUME NEW id \in Practice!RecordId, record[id] # None, record[id].session = x
                   PROVE  record[id].expiresAt <= now
        OBVIOUS
      <4>2. record[id].expiresAt <= r.at
        BY <1>3, <4>1 DEF Service!Abandoned
      <4>3. record[id].expiresAt \in Nat
        BY RowsTyped DEF Inv, Practice!ReplayRow
      <4> QED
        BY <1>2, <4>2, <4>3
    <3>3. \A s \in Sessions : session[s].status \in Practice!Live => session[s].retryOf # x
      BY <1>3, OwnersAssumption DEF Inv, RowsConsistent, Service!SessionsConsistent,
         Service!LineageKept, Practice!Live, Service!Live
    <3>4. Practice!NoOpenReplay(x, now)
      BY <3>2, <3>3 DEF Practice!NoOpenReplay
    <3>5. Practice!DraftSession(x, now)
      BY <1>3, <2>2, <3>1, <3>4 DEF Practice!DraftSession, Practice!GuestOwned,
         Service!Abandoned, Practice!Live
    <3>6. Practice!CleanDraft(x)
      BY <1>1, <3>5 DEF Practice!CleanDraft
    <3> QED
      BY <1>3, <3>6 DEF Practice!Next, Practice!Cleanup
  <2> QED
    BY <2>1, <2>2
<1>5. Covers(c, txn[c].locks \cup Wanted(c))
  <2>1. \A s \in Sessions \ {x} : session'[s] = session[s]
    BY RowsTyped DEF Inv
  <2> QED
    BY <1>3, <2>1 DEF Covers
<1> QED
  BY <1>1, <1>4, <1>5, Commits

\* The other deletions of the clean-up job are those of StudyPractice.
LEMMA CleanCommits ==
    ASSUME Inv, NEW c \in Calls, CleanWrite(c)
    PROVE  Inv' /\ [Practice!Next]_Practice!vars
<1> DEFINE r == Request(c)
           target == r.target
           x == target[2]
<1>1. /\ Active(c) /\ r.kind = "CLEAN" /\ txn[c].step = "WRITE" /\ Granted(c)
      /\ At(c, "CLEAN", "WRITE")
  BY DEF CleanWrite, At
<1>2. Good(c) /\ TargetLock(target) \in txn[c].locks
  BY <1>1, Served DEF Good, Holding, In
<1>3. CASE Refused(c)
  BY <1>3, Refusals, Quiet DEF Refused, Answered
<1>4. CASE /\ target[1] = "draft"
           /\ session' = [session EXCEPT ![x].status = "EXPIRED"]
           /\ draft' = [draft EXCEPT ![x] = None]
           /\ UNCHANGED <<result, record, guest, committed>>
           /\ Answered(c)
  BY <1>1, <1>4, CleanDraftCommits
<1>5. CASE target \in Candidates(r.at) /\ target[1] = "session" /\ Practice!CleanSession(x) /\ Answered(c)
  <2>1. x \in Sessions /\ session[x].status # "UNUSED"
    BY <1>5 DEF Candidates, Practice!CleanSession, Practice!ClosedSession, Practice!GuestOwned,
       Practice!Live
  <2>2. Practice!Next
    BY <1>5, <2>1 DEF Practice!Next, Practice!Cleanup
  <2>3. Covers(c, txn[c].locks \cup Wanted(c))
    <3>1. <<"session", x, "UPDATE">> \in txn[c].locks
      BY <1>2, <1>5 DEF TargetLock
    <3>2. Wanted(c) = SessionCascade(x)
      BY <1>1, <1>5 DEF Wanted, CleanCascade
    <3>3. \A s \in Sessions \ {x} : session'[s] = session[s]
      BY <1>5, RowsTyped DEF Inv, Practice!CleanSession
    <3>4. \A id \in Practice!RecordId : record'[id] # record[id] =>
             record[id] # None /\ record[id].session = x
      BY <1>5 DEF Practice!CleanSession, Practice!WithoutSession
    <3>5. guest' = guest
      BY <1>5 DEF Practice!CleanSession
    <3> QED
      BY <2>1, <3>1, <3>2, <3>3, <3>4, <3>5 DEF Covers, SessionCascade
  <2> QED
    BY <1>1, <1>5, <2>2, <2>3, Commits
<1>6. CASE target \in Candidates(r.at) /\ target[1] = "principal" /\ Practice!CleanPrincipal(x) /\ Answered(c)
  <2>1. x \in Guests
    BY <1>6 DEF Candidates
  <2>2. Practice!Next
    BY <1>6, <2>1 DEF Practice!Next, Practice!Cleanup
  <2>3. Covers(c, txn[c].locks \cup Wanted(c))
    <3>1. <<"guest", x, "UPDATE">> \in txn[c].locks
      BY <1>2, <1>6 DEF TargetLock
    <3>2. Wanted(c) = GuestCascade(x)
      BY <1>1, <1>6 DEF Wanted, CleanCascade
    <3>3. \A g \in Guests \ {x} : guest'[g] = guest[g]
      BY <1>6, RowsTyped DEF Inv, Practice!CleanPrincipal
    <3>4. \A id \in Practice!RecordId : record'[id] # record[id] => record[id] # None /\ id[1] = x
      BY <1>6 DEF Practice!CleanPrincipal
    <3>5. session' = session
      BY <1>6 DEF Practice!CleanPrincipal
    <3>6. \A id \in Practice!RecordId : record[id] # None /\ id[1] = x =>
             <<"record", id, "UPDATE">> \in GuestCascade(x)
      BY DEF GuestCascade
    <3>7. \A id \in Practice!RecordId : record'[id] # record[id] =>
             <<"record", id, "UPDATE">> \in txn[c].locks \cup Wanted(c)
      BY <3>2, <3>4, <3>6
    <3> QED
      BY <3>1, <3>3, <3>5, <3>7 DEF Covers
  <2> QED
    BY <1>1, <1>6, <2>2, <2>3, Commits
<1>7. CASE target \in Candidates(r.at) /\ target[1] = "idempotency" /\ Practice!CleanRecord(x) /\ Answered(c)
  <2>1. x \in Practice!RecordId
    BY <1>7 DEF Candidates
  <2>2. Practice!Next
    BY <1>7, <2>1 DEF Practice!Next, Practice!Cleanup
  <2>3. Covers(c, txn[c].locks \cup Wanted(c))
    <3>1. <<"record", x, "UPDATE">> \in txn[c].locks
      BY <1>2, <1>7 DEF TargetLock
    <3>2. \A id \in Practice!RecordId \ {x} : record'[id] = record[id]
      BY <1>7, RowsTyped DEF Inv, Practice!CleanRecord
    <3>3. session' = session /\ guest' = guest
      BY <1>7 DEF Practice!CleanRecord
    <3> QED
      BY <3>1, <3>2, <3>3 DEF Covers
  <2> QED
    BY <1>1, <1>7, <2>2, <2>3, Commits
<1> QED
  BY <1>3, <1>4, <1>5, <1>6, <1>7 DEF CleanWrite

(***************************************************************************)
(* Every step.                                                             *)
(***************************************************************************)

\* Nothing has happened yet.
LEMMA InitInv == Init => Inv
<1> SUFFICES ASSUME Init PROVE Inv
  OBVIOUS
<1>1. RowsConsistent
  BY RowsInit DEF Init
<1>2. txn = [c \in Calls |-> Over("NONE")]
  BY DEF Init
<1>3. \A c \in Calls : Good(c)
  <2> SUFFICES ASSUME NEW c \in Calls PROVE Good(c)
    OBVIOUS
  <2>1. txn[c] = Over("NONE") /\ ~Active(c)
    BY <1>2 DEF Over, Active
  <2>2. Typed(c)
    BY <2>1, CallsAssumption DEF Typed, Over
  <2> QED
    BY <2>1, <2>2 DEF Good, Timely, Learned, Holding, Pinned, Current, Cleaning, New, In, Begun, Over
<1>4. Exclusive
  BY <1>2 DEF Exclusive, Over
<1> QED
  BY <1>1, <1>2, <1>3, <1>4 DEF Inv

\* The clock moves only as long as every handler is in time.
LEMMA TickInv ==
    ASSUME Inv, Tick
    PROVE  Inv' /\ [Practice!Next]_Practice!vars
<1>1. Practice!Next
  BY DEF Tick, rows, Practice!Next, Practice!Tick
<1>2. RowsConsistent'
  BY <1>1, RowsNext DEF Inv
<1>3. \A c \in Calls : Good(c)'
  <2> SUFFICES ASSUME NEW c \in Calls PROVE Good(c)'
    OBVIOUS
  <2>1. Good(c) /\ txn'[c] = txn[c] /\ UNCHANGED rows
    BY DEF Inv, Tick
  <2>2. Timely(c)'
    <3> SUFFICES ASSUME Active(c) PROVE Request(c).at <= now' /\ now' <= Request(c).at + MaxLag
      BY <2>1 DEF Timely, Active, Request
    <3>1. Request(c).at \in Nat /\ now \in Nat /\ Request(c).at <= now /\ MaxLag \in Nat
      BY Served, RowsTyped, TimesAssumption DEF Inv, Good, Timely
    <3>2. now < Request(c).at + MaxLag /\ now' = now + 1
      BY DEF Tick
    <3> QED
      BY <3>1, <3>2
  <2>3. New(c)'
    BY <2>1 DEF Good, New, Tick, Active, Request, rows
  <2> QED
    BY <2>1, <2>2, <2>3, SameTransaction, SameRows DEF Good
<1>4. txn' = txn
  BY DEF Tick
<1> QED
  BY <1>1, <1>2, <1>3, <1>4 DEF Inv, Exclusive

\* A transaction that is aborted to end a deadlock starts again or is answered.
LEMMA DeadlockInv ==
    ASSUME Inv, NEW c \in Calls, DeadlockDetected(c)
    PROVE  Inv' /\ [Practice!Next]_Practice!vars
<1>1. CASE Refused(c)
  BY <1>1, Refusals, Quiet DEF Refused, Answered
<1>2. CASE Conflict(c)
  <2>1. Active(c)
    BY DEF DeadlockDetected, Deadlocked, Granted, Waits
  <2> QED
    BY <1>2, <2>1, Conflicts, Quiet DEF Conflict
<1> QED
  BY <1>1, <1>2 DEF DeadlockDetected

\* Every step keeps the invariant and is a step of StudyPractice or leaves its rows alone.
LEMMA NextInv ==
    ASSUME Inv, [Next]_vars
    PROVE  Inv' /\ [Practice!Next]_Practice!vars
<1>1. CASE Tick
  BY <1>1, TickInv
<1>2. ASSUME NEW c \in Calls, ClientArrives(c) \/ BatchStarts(c)
      PROVE  Inv' /\ [Practice!Next]_Practice!vars
  <2>1. UNCHANGED <<now, rows>>
    <3>1. \E request : Arrive(c, request)
      BY <1>2, Zenon DEF ClientArrives, BatchStarts
    <3> QED
      BY <3>1 DEF Arrive
  <2> QED
    BY <1>2, <2>1, ClientsArrive, BatchesStart, Quiet
<1>3. ASSUME NEW c \in Calls, Serve(c)
      PROVE  Inv' /\ [Practice!Next]_Practice!vars
  <2>1. CASE CreateStart(c) \/ SaveStart(c) \/ SubmitStart(c) \/ RetryStart(c)
    BY <2>1, Starts, Quiet DEF CreateStart, SaveStart, SubmitStart, RetryStart, Begin
  <2>2. CASE CreateGuest(c) \/ SubmitGuest(c) \/ RetryGuest(c)
    BY <2>2, GuestSteps, Quiet DEF CreateGuest, SubmitGuest, RetryGuest, LockGuestProof, Lock,
       Proceed, Take, Conflict, Refused, Answered
  <2>3. CASE SaveSession(c) \/ SaveLook(c) \/ SaveReserve(c)
    BY <2>3, SaveSteps, Quiet DEF SaveSession, SaveLook, SaveReserve, Reserve, Lock, Proceed, Take,
       Conflict, Refused, Answered
  <2>4. CASE SubmitLook(c) \/ SubmitReserve(c) \/ SubmitSession(c)
    BY <2>4, SubmitSteps, Quiet DEF SubmitLook, LookUp, SubmitReserve, SubmitSession, Reserve,
       Lock, Proceed, Take, Conflict, Refused, Answered
  <2>5. CASE RetryLook(c) \/ RetrySource(c) \/ RetryReserve(c)
    BY <2>5, RetrySteps, Quiet DEF RetryLook, LookUp, RetrySource, RetryReserve, Reserve, Lock,
       Proceed, Take, Conflict, Refused, Answered
  <2>6. CASE ReadStart(c) \/ CancelStart(c) \/ ClearStart(c) \/ ClearGuest(c)
    BY <2>6, OwnedStarts, ClearSteps, Quiet DEF ReadStart, CancelStart, FindOwned, ClearStart,
       ClearGuest, Proceed, Take, Refused, Answered
  <2>7. CASE CleanSelect(c) \/ CleanLock(c)
    BY <2>7, CleanSelects, CleanLocked, Quiet DEF CleanSelect, CleanLock, Take, Refused, Answered
  <2>8. CASE CreateWrite(c) \/ SaveWrite(c) \/ SubmitWrite(c) \/ RetryWrite(c)
    BY <2>8, CreateCommits, SaveCommits, SubmitCommits, RetryCommits
  <2>9. CASE SaveExpire(c) \/ SubmitExpire(c) \/ ReadSession(c) \/ CancelSession(c)
             \/ ClearCascade(c)
    BY <2>9, ExpiryCommits, ReadCommits, CancelCommits, ClearCommits
  <2>10. CASE CleanWrite(c) \/ DeadlockDetected(c)
    BY <2>10, CleanCommits, DeadlockInv
  <2> QED
    BY <1>3, <2>1, <2>2, <2>3, <2>4, <2>5, <2>6, <2>7, <2>8, <2>9, <2>10 DEF Serve
<1>4. CASE UNCHANGED vars
  <2>1. Practice!vars' = Practice!vars /\ txn' = txn /\ UNCHANGED <<now, rows>>
    BY <1>4 DEF vars, Practice!vars, rows
  <2>2. RowsConsistent'
    BY <2>1, RowsNext DEF Inv
  <2>3. \A c \in Calls : Good(c)'
    <3> SUFFICES ASSUME NEW c \in Calls PROVE Good(c)'
      OBVIOUS
    <3>1. Good(c) /\ txn'[c] = txn[c]
      BY <2>1 DEF Inv
    <3>2. Timely(c)' /\ New(c)'
      BY <2>1, <3>1 DEF Good, Timely, New, Active, Request, rows
    <3> QED
      BY <2>1, <3>1, <3>2, SameTransaction, SameRows DEF Good
  <2> QED
    BY <2>1, <2>2, <2>3 DEF Inv, Exclusive
<1> QED
  BY <1>1, <1>2, <1>3, <1>4 DEF Next

(***************************************************************************)
(* The promises kept by every interleaving.                                *)
(***************************************************************************)

\* The inductive invariant holds at all times.
THEOREM Invariance == Spec => []Inv
<1>1. Inv /\ [Next]_vars => Inv'
  BY NextInv
<1> QED
  BY <1>1, InitInv, PTL DEF Spec

\* A transaction holds locks only while it runs, within its attempts.
THEOREM TypeCorrect == Spec => []TypeOK
<1>1. Inv => TypeOK
  <2> SUFFICES ASSUME Inv, NEW c \in Calls
               PROVE  /\ txn[c].step \in {"NONE", "START", "GUEST", "SESSION", "SOURCE", "LOOK",
                                          "EXPIRE", "RESERVE", "WRITE", "CLEAR", "CASCADE",
                                          "CLEAN", "ANSWERED", "UNAVAILABLE"}
                      /\ txn[c].attempt \in 0..MaxAttempts
                      /\ txn[c].locks # {} => Active(c) /\ txn[c].step # "START"
    BY DEF TypeOK
  <2>1. Good(c)
    BY DEF Inv
  <2>2. txn[c].attempt \in 0..MaxAttempts
    BY <2>1 DEF Good, Typed
  <2>3. Active(c) => txn[c].step \in StepsOf(Request(c).kind)
    BY <2>1 DEF Good, Typed
  <2>4. txn[c].step \in {"NONE", "START", "GUEST", "SESSION", "SOURCE", "LOOK", "EXPIRE",
                         "RESERVE", "WRITE", "CLEAR", "CASCADE", "CLEAN", "ANSWERED",
                         "UNAVAILABLE"}
    BY <2>3 DEF StepsOf, Active
  <2>5. ASSUME Active(c), txn[c].step = "START" PROVE txn[c].locks = {}
    <3>1. HeldLocks(c) = {}
      BY <2>5 DEF HeldLocks, HoldsGuest, HoldsSession, HoldsSource, HoldsDiscarded,
         HoldsReservation, In
    <3> QED
      BY <2>1, <2>5, <3>1 DEF Good, Holding, In
  <2>6. ~Active(c) => txn[c].locks = {}
    BY <2>1 DEF Good, Holding
  <2> QED
    BY <2>2, <2>4, <2>5, <2>6
<1> QED
  BY <1>1, Invariance, PTL

\* The transactions implement StudyPractice: whatever the interleaving of their statements,
\* their lock waits, conflicts and repetitions, the committed rows change as if each handler
\* had run alone.
THEOREM HandlersAreAtomic == Spec => Atomic
<1>1. Init => Practice!Init
  BY DEF Init
<1>2. Inv /\ [Next]_vars => [Practice!Next]_Practice!vars
  BY NextInv
<1> QED
  BY <1>1, <1>2, Invariance, PTL DEF Spec, Atomic, Practice!Spec

(***************************************************************************)
(* Deadlocks.                                                              *)
(***************************************************************************)

\* A call that deletes nothing for good.
Keeps(c) == Active(c) /\ Request(c).kind \notin {"CLEAR", "CLEAN"}

\* Whose locks a call can be waiting for.
LEMMA LockHolders ==
    ASSUME Inv, NEW d \in Calls, Keeps(d), NEW m \in txn[d].locks
    PROVE  \/ /\ m = <<"record", Id(Request(d)), "UPDATE">>
              /\ HoldsReservation(d) \/ (HoldsDiscarded(d) /\ Outdated(d))
           \/ m[1] = "session" /\ m[3] = "UPDATE" /\ HoldsSession(d)
           \/ m[1] = "session" /\ m[3] = "KEY_SHARE" /\ HoldsSource(d)
           \/ m[1] = "guest" /\ m[3] \in {GuestLock, "KEY_SHARE"}
<1>1. m \in HeldLocks(d)
  BY Served DEF Keeps
<1>2. ~In(d, "CLEAR", {"CASCADE"})
  BY DEF Keeps, In
<1> QED
  BY <1>1, <1>2 DEF HeldLocks, Reservation

\* A call does not wait for a lock it holds itself, nor to share a guest nobody deletes.
LEMMA OnlyNewLocks ==
    ASSUME Inv, NEW c \in Calls, NEW d \in Calls, Keeps(d), Waits(c, d)
    PROVE  \E l \in Wanted(c) \ txn[c].locks :
              /\ \E m \in txn[d].locks : Clash(l, m)
              /\ ~(l[1] = "guest" /\ l[3] = "KEY_SHARE")
<1>1. PICK l \in Wanted(c), m \in txn[d].locks : Clash(l, m) /\ c # d
  BY DEF Waits
<1>2. l \notin txn[c].locks
  BY <1>1 DEF Inv, Exclusive
<1>3. ~(l[1] = "guest" /\ l[3] = "KEY_SHARE")
  BY <1>1, LockHolders DEF Clash, Compatible, GuestLock
<1> QED
  BY <1>1, <1>2, <1>3

\* What a call that holds something can wait for, as long as nobody deletes: a record for
\* another call of its kind, a session for one that holds it.
LEMMA WaitsFor ==
    ASSUME Inv, NEW c \in Calls, NEW d \in Calls, Keeps(c), Keeps(d), Waits(c, d),
           txn[c].locks # {}
    PROVE  \/ In(c, "SAVE", {"EXPIRE", "RESERVE"}) /\ In(d, "SAVE", {"WRITE"})
           \/ /\ In(c, "SUBMIT", {"LOOK", "RESERVE"})
              /\ \/ In(d, "SUBMIT", {"SESSION", "EXPIRE", "WRITE"})
                 \/ In(d, "SUBMIT", {"RESERVE"}) /\ Outdated(d)
           \/ /\ In(c, "RETRY", {"LOOK", "RESERVE"})
              /\ \/ In(d, "RETRY", {"SOURCE", "WRITE"})
                 \/ In(d, "RETRY", {"RESERVE"}) /\ Outdated(d)
           \/ In(c, "SUBMIT", {"SESSION"}) /\ (HoldsSession(d) \/ HoldsSource(d))
           \/ In(c, "RETRY", {"SOURCE"}) /\ HoldsSession(d)
<1> DEFINE r == Request(c)
           step == txn[c].step
<1>1. PICK l \in Wanted(c) \ txn[c].locks, m \in txn[d].locks :
         Clash(l, m) /\ ~(l[1] = "guest" /\ l[3] = "KEY_SHARE")
  BY OnlyNewLocks
<1>2. /\ Good(c) /\ Active(c) /\ step \in StepsOf(r.kind) /\ txn[c].locks = HeldLocks(c)
      /\ r.kind \in {"CREATE", "SAVE", "SUBMIT", "RETRY", "READ", "CANCEL"}
  BY Served DEF Keeps, Good, Typed, Suited, HandlerKinds
<1>3. Wanted(c) # {} /\ HeldLocks(c) # {}
  BY <1>1, <1>2
<1>4. \/ /\ m[1] = "record" /\ m[2] = Id(Request(d))
         /\ HoldsReservation(d) \/ (HoldsDiscarded(d) /\ Outdated(d))
      \/ m[1] = "session" /\ m[3] = "UPDATE" /\ HoldsSession(d)
      \/ m[1] = "session" /\ m[3] = "KEY_SHARE" /\ HoldsSource(d)
      \/ m[1] = "guest"
  BY LockHolders
<1>5. l[1] = m[1] /\ l[2] = m[2] /\ ~(l[3] = "KEY_SHARE" /\ m[3] = "KEY_SHARE")
  BY <1>1 DEF Clash, Compatible
<1>6. \/ r.kind = "SAVE" /\ step \in {"EXPIRE", "RESERVE"}
      \/ r.kind = "SUBMIT" /\ step \in {"LOOK", "RESERVE", "SESSION", "EXPIRE"}
      \/ r.kind = "RETRY" /\ step \in {"LOOK", "SOURCE", "RESERVE"}
  <2>1. step # "START" /\ step # "GUEST"
    BY <1>3 DEF HeldLocks, HoldsGuest, HoldsSession, HoldsSource, HoldsDiscarded,
       HoldsReservation, In
  <2>2. r.kind \in {"SAVE", "READ", "CANCEL"} => step # "SESSION"
    BY <1>3 DEF HeldLocks, HoldsGuest, HoldsSession, HoldsSource, HoldsDiscarded,
       HoldsReservation, In
  <2>3. step # "WRITE"
    BY <1>2, <1>3 DEF Wanted
  <2>4. ~(r.kind = "SAVE" /\ step = "LOOK")
    BY <1>3 DEF Wanted
  <2> QED
    BY <1>2, <2>1, <2>2, <2>3, <2>4 DEF StepsOf
<1>7. CASE step \in {"EXPIRE", "LOOK", "RESERVE"}
  <2>1. l = <<"record", Id(r), "UPDATE">>
    BY <1>1, <1>6, <1>7 DEF Wanted, DiscardLocks, Reservation
  <2>2. /\ Id(Request(d)) = Id(r)
        /\ HoldsReservation(d) \/ (HoldsDiscarded(d) /\ Outdated(d))
    BY <1>4, <1>5, <2>1
  <2>3. Request(d).kind \in {"SAVE", "SUBMIT", "RETRY"} /\ Request(d).kind = r.kind
    <3>1. Request(d).kind \in {"SAVE", "SUBMIT", "RETRY"}
      BY <2>2 DEF HoldsReservation, HoldsDiscarded, In
    <3>2. Id(r)[2] = Id(Request(d))[2]
      BY <2>2
    <3> QED
      BY <1>6, <3>1, <3>2 DEF Id
  <2>4. ~(r.kind = "SUBMIT" /\ step = "EXPIRE")
    <3> SUFFICES ASSUME r.kind = "SUBMIT", step = "EXPIRE" PROVE FALSE
      OBVIOUS
    <3>1. Wanted(c) = DiscardLocks(c)
      BY DEF Wanted
    <3>2. DiscardLocks(c) \subseteq HeldLocks(c)
      BY <1>2 DEF DiscardLocks, HeldLocks, HoldsDiscarded, In
    <3> QED
      BY <1>1, <1>2, <3>1, <3>2
  <2> QED
    BY <1>2, <1>6, <1>7, <2>2, <2>3, <2>4 DEF HoldsReservation, HoldsDiscarded, In
<1>8. CASE step = "SESSION"
  <2>1. r.kind = "SUBMIT" /\ l[1] = "session"
    BY <1>1, <1>6, <1>8 DEF Wanted
  <2>2. HoldsSession(d) \/ HoldsSource(d)
    BY <1>4, <1>5, <2>1
  <2> QED
    BY <1>2, <1>8, <2>1, <2>2 DEF In
<1>9. CASE step = "SOURCE"
  <2>1. r.kind = "RETRY" /\ l[1] = "session" /\ l[3] = "KEY_SHARE"
    BY <1>1, <1>6, <1>9 DEF Wanted
  <2>2. HoldsSession(d)
    BY <1>4, <1>5, <2>1
  <2> QED
    BY <1>2, <1>9, <2>1, <2>2 DEF In
<1> QED
  BY <1>6, <1>7, <1>8, <1>9

\* A call that has deleted the outdated record waits for nobody to reserve its key.
LEMMA ReservesFreely ==
    ASSUME Inv, NEW c \in Calls, NEW d \in Calls, Keeps(d), Outdated(c),
           In(c, "SUBMIT", {"RESERVE"}) \/ In(c, "RETRY", {"RESERVE"})
    PROVE  ~Waits(c, d)
<1> SUFFICES ASSUME Waits(c, d) PROVE FALSE
  OBVIOUS
<1>1. PICK l \in Wanted(c) \ txn[c].locks : ~(l[1] = "guest" /\ l[3] = "KEY_SHARE")
  BY OnlyNewLocks
<1>2. l = <<"record", Id(Request(c)), "UPDATE">>
  BY <1>1 DEF Wanted, Reservation, In
<1>3. <<"record", Id(Request(c)), "UPDATE">> \in HeldLocks(c)
  BY DEF HeldLocks, HoldsDiscarded, In
<1> QED
  BY <1>1, <1>2, <1>3, Served DEF In

\* In a circle of waits at least one call deletes: a save waits for the save that is
\* writing under its key, which waits for nobody; so nobody who holds a session waits, then
\* nobody who retries, and then nobody who submits.
LEMMA SomeoneDeletes ==
    ASSUME Inv, NEW D \in SUBSET Calls, D # {},
           \A c \in D : (\E d \in D : Waits(c, d)) /\ (\E d \in D : Waits(d, c))
    PROVE  \E c \in D : Request(c).kind \in {"CLEAR", "CLEAN"}
<1> SUFFICES ASSUME \A c \in D : Request(c).kind \notin {"CLEAR", "CLEAN"} PROVE FALSE
  OBVIOUS
<1>1. \A c \in D : Keeps(c) /\ txn[c].locks # {}
  BY DEF Waits, Keeps
<1>2. \A c \in D : \E d \in D :
         \/ In(c, "SAVE", {"EXPIRE", "RESERVE"}) /\ In(d, "SAVE", {"WRITE"})
         \/ /\ In(c, "SUBMIT", {"LOOK", "RESERVE"})
            /\ \/ In(d, "SUBMIT", {"SESSION", "EXPIRE", "WRITE"})
               \/ In(d, "SUBMIT", {"RESERVE"}) /\ Outdated(d)
         \/ /\ In(c, "RETRY", {"LOOK", "RESERVE"})
            /\ \/ In(d, "RETRY", {"SOURCE", "WRITE"})
               \/ In(d, "RETRY", {"RESERVE"}) /\ Outdated(d)
         \/ In(c, "SUBMIT", {"SESSION"}) /\ (HoldsSession(d) \/ HoldsSource(d))
         \/ In(c, "RETRY", {"SOURCE"}) /\ HoldsSession(d)
  BY <1>1, WaitsFor
<1>3. \A c \in D : Outdated(c) => ~In(c, "SUBMIT", {"RESERVE"}) /\ ~In(c, "RETRY", {"RESERVE"})
  BY <1>1, ReservesFreely
<1>4. \A c \in D : ~In(c, "SAVE", {"WRITE"}) /\ ~In(c, "SUBMIT", {"EXPIRE", "WRITE"})
                   /\ ~In(c, "RETRY", {"WRITE"})
  BY <1>2 DEF In
<1>5. \A c \in D : Request(c).kind # "SAVE"
  BY <1>2, <1>4 DEF In
<1>6. \A c \in D : ~HoldsSession(c)
  BY <1>4, <1>5 DEF HoldsSession, In
<1>7. \A c \in D : ~In(c, "RETRY", {"SOURCE"})
  BY <1>2, <1>6 DEF In
<1>8. \A c \in D : Request(c).kind # "RETRY"
  BY <1>2, <1>3, <1>4, <1>7 DEF In
<1>9. \A c \in D : ~In(c, "SUBMIT", {"SESSION"})
  <2> SUFFICES ASSUME NEW c \in D, In(c, "SUBMIT", {"SESSION"}) PROVE FALSE
    OBVIOUS
  <2>1. PICK d \in D : HoldsSession(d) \/ HoldsSource(d)
    BY <1>2 DEF In
  <2>2. Request(d).kind = "RETRY"
    BY <1>6, <2>1 DEF HoldsSource, In
  <2> QED
    BY <1>8, <2>2
<1>10. \A c \in D : Request(c).kind # "SUBMIT"
  BY <1>2, <1>3, <1>4, <1>9 DEF In
<1>11. PICK c \in D : TRUE
  OBVIOUS
<1>12. Request(c).kind \in {"SAVE", "SUBMIT", "RETRY"}
  BY <1>2, <1>11 DEF In
<1> QED
  BY <1>5, <1>8, <1>10, <1>12

\* Whatever the number of calls, owners, sessions and keys: transactions deadlock only when a
\* guest is cleared or the clean-up job deletes.
THEOREM OthersNeverDeadlock == Spec => []OnlyDeletionsDeadlock
<1>1. Inv => OnlyDeletionsDeadlock
  <2> SUFFICES ASSUME Inv, Deadlocked # {}
               PROVE  \E c \in Deadlocked : Request(c).kind \in {"CLEAR", "CLEAN"}
    BY DEF OnlyDeletionsDeadlock
  <2>1. PICK D \in SUBSET Calls :
           /\ D # {} /\ D \subseteq Deadlocked
           /\ \A c \in D : (\E d \in D : Waits(c, d)) /\ (\E d \in D : Waits(d, c))
    <3>1. PICK c : c \in Deadlocked
      OBVIOUS
    <3>2. PICK D \in SUBSET {e \in Calls : ~Granted(e)} :
             /\ c \in D
             /\ \A e \in D : (\E d \in D : Waits(e, d)) /\ (\E d \in D : Waits(d, e))
      BY <3>1 DEF Deadlocked
    <3>3. D \subseteq Deadlocked
      BY <3>2 DEF Deadlocked
    <3> QED
      BY <3>2, <3>3
  <2>2. \E c \in D : Request(c).kind \in {"CLEAR", "CLEAN"}
    BY <2>1, SomeoneDeletes
  <2> QED
    BY <2>1, <2>2
<1> QED
  BY <1>1, Invariance, PTL
=============================================================================
