------------------------ MODULE StudyPracticeProofs ------------------------
(* Theorems about StudyPractice, for every choice of owners, sessions, keys, *)
(* sheets, retention times and clock lag.                                    *)
EXTENDS StudyPractice, TLAPS

(* Times.                                                                    *)

\* Every retention, time to live, lag and bound is a natural number.
LEMMA ConstantsAreNat ==
    /\ SessionTTL \in Nat /\ GuestRenewal \in Nat /\ Grace \in Nat
    /\ MaxLag \in Nat /\ MaxTime \in Nat /\ MaxRevision \in Nat
    /\ \A operation \in Operations : Retention(operation) \in Nat
BY TimesAssumption DEF Operations, Retention

\* A handler's clock reading is a natural number, not in the future and at most
\* MaxLag old.
LEMMA ObservedIsNat ==
    ASSUME now \in Nat, NEW at \in Observed
    PROVE  at \in Nat /\ at <= now /\ now <= at + MaxLag
BY DEF Observed

\* A submission is never before its request, its session or its guest's last visit.
LEMMA SubmittedAtIsNat ==
    ASSUME TypeOK, NEW o \in Owners, NEW s \in Sessions, NEW latestNote \in Nat,
           NEW at \in Nat
    PROVE  /\ SubmittedAt(o, s, latestNote, at) \in Nat
           /\ at <= SubmittedAt(o, s, latestNote, at)
           /\ o \in Guests => guest[o].lastSeenAt <= SubmittedAt(o, s, latestNote, at)
<1>1. session[s].startedAt \in Nat /\ (o \in Guests => guest[o].lastSeenAt \in Nat)
  BY DEF TypeOK, SessionRow, GuestRow
<1> DEFINE earliest == Later(Later(at, session[s].startedAt), latestNote)
<1>2. earliest \in Nat /\ at <= earliest
  BY <1>1 DEF Later
<1> QED
  BY <1>1, <1>2 DEF SubmittedAt, Later

(* What the shared parts of the handlers leave behind.                       *)

\* Started, the insert of a session and its empty draft, keeps the shape of both
\* tables.
LEMMA StartedTypes ==
    ASSUME TypeOK, NEW o \in Owners, NEW s \in Sessions,
           NEW source \in Sessions \cup {None}, NEW at \in Nat, NEW expiresAt \in Nat,
           Started(o, s, source, at, expiresAt)
    PROVE  /\ session' \in [Sessions -> SessionRow]
           /\ draft' \in [Sessions -> DraftRow \cup {None}]
BY SheetsAssumption DEF TypeOK, Started, SessionRow, DraftRow, Statuses

\* Expired, the update every handler makes of a due session, keeps it too.
LEMMA ExpiredTypes ==
    ASSUME TypeOK, NEW s \in Sessions, Expired(s)
    PROVE  /\ session' \in [Sessions -> SessionRow]
           /\ draft' \in [Sessions -> DraftRow \cup {None}]
BY DEF TypeOK, Expired, SessionRow, Statuses

\* Commit, the finalisation of a reservation, stores a well-formed record and
\* remembers a well-formed outcome.
LEMMA CommitTypes ==
    ASSUME TypeOK, NEW id \in RecordId, NEW s \in Sessions, NEW response \in Response,
           Commit(id, s, response)
    PROVE  /\ record' \in [RecordId -> ReplayRow \cup {None}]
           /\ committed' \subseteq [id: RecordId, row: ReplayRow]
<1> DEFINE row == [session |-> s, response |-> response,
                   expiresAt |-> response.at + Retention(id[2])]
<1>1. response.at \in Nat /\ id[2] \in Operations
  BY DEF Response, RecordId
<1>2. response.at + Retention(id[2]) \in Nat
  BY <1>1, ConstantsAreNat
<1>3. row \in ReplayRow
  BY <1>2 DEF ReplayRow
<1>4. [id |-> id, row |-> row] \in [id: RecordId, row: ReplayRow]
  BY <1>3
<1>5. /\ record' = [record EXCEPT ![id] = row]
      /\ committed' = committed \cup {[id |-> id, row |-> row]}
  BY DEF Commit
<1> QED
  BY <1>3, <1>4, <1>5 DEF TypeOK

(***************************************************************************)
(* Type correctness.                                                       *)
(***************************************************************************)

\* Creating a session keeps the types, for each of the three kinds of owner.
LEMMA CreateTypes ==
    ASSUME TypeOK, NEW o \in Owners, NEW s \in Sessions, NEW at \in Nat,
           CreateSession(o, s, at)
    PROVE  TypeOK'
<1>1. CASE CreateForUser(o, s, at)
  <2>1. at + SessionTTL \in Nat /\ Started(o, s, None, at, at + SessionTTL)
    BY <1>1, ConstantsAreNat DEF CreateForUser
  <2> QED
    BY <1>1, <2>1, StartedTypes DEF TypeOK, CreateSession, CreateForUser
<1>2. CASE CreateForGuest(o, s, at)
  <2> DEFINE expiresAt == Earlier(guest[o].expiresAt, at + SessionTTL)
  <2>1. guest[o].expiresAt \in Nat
    BY <1>2 DEF CreateForGuest, TypeOK, GuestRow
  <2>2. expiresAt \in Nat /\ Started(o, s, None, at, expiresAt)
    BY <1>2, <2>1, ConstantsAreNat DEF CreateForGuest, Earlier
  <2>3. guest' \in [Guests -> GuestRow]
    BY <1>2 DEF CreateForGuest, TypeOK, GuestRow
  <2> QED
    BY <2>2, <2>3, StartedTypes DEF TypeOK, CreateSession
<1>3. CASE CreateForNewGuest(o, s, at)
  <2> DEFINE expiresAt == Earlier(at + GuestRenewal, at + SessionTTL)
  <2>1. expiresAt \in Nat /\ Started(o, s, None, at, expiresAt)
    BY <1>3, ConstantsAreNat DEF CreateForNewGuest, Earlier
  <2>2. guest' \in [Guests -> GuestRow]
    BY <1>3, ConstantsAreNat DEF CreateForNewGuest, TypeOK, GuestRow
  <2> QED
    BY <2>1, <2>2, StartedTypes DEF TypeOK, CreateSession
<1> QED
  BY <1>1, <1>2, <1>3 DEF CreateSession

\* Saving keeps the types. A save reads the revision and time of the draft, so this
\* needs RowsAgree: a session in progress has one.
LEMMA SaveTypes ==
    ASSUME TypeOK, RowsAgree, NEW o \in Owners, NEW k \in Keys, NEW s \in Sessions,
           NEW answers \in Sheets, NEW revision \in Nat, NEW at \in Nat,
           SaveDraft(o, k, s, answers, revision, at)
    PROVE  TypeOK'
<1> DEFINE id == <<o, "STUDY_DRAFT_SAVE", k>>
<1>1. id \in RecordId
  BY DEF RecordId, Operations
<1>2. CASE SaveExpires(id, s, at)
  <2>1. record' \in [RecordId -> ReplayRow \cup {None}]
    BY <1>1, <1>2 DEF SaveExpires, TypeOK
  <2> QED
    BY <1>2, <2>1, ExpiredTypes DEF SaveExpires, SaveDraft, TypeOK
<1>3. CASE SaveApplies(id, s, answers, revision, at)
  <2> DEFINE savedAt == Later(at, draft[s].updatedAt + 1)
             response == [answers |-> answers, revision |-> revision + 1, at |-> savedAt]
  <2>0. draft[s] \in DraftRow
    BY <1>3 DEF SaveApplies, RowsAgree, TypeOK
  <2>1. savedAt \in Nat
    BY <2>0 DEF DraftRow, Later
  <2>2. response \in Response /\ Commit(id, s, response)
    BY <1>3, <2>1 DEF Response, SaveApplies
  <2>3. draft' \in [Sessions -> DraftRow \cup {None}]
    BY <1>3, <2>1 DEF SaveApplies, TypeOK, DraftRow
  <2> QED
    BY <1>1, <1>3, <2>2, <2>3, CommitTypes DEF SaveApplies, SaveDraft, TypeOK
<1> QED
  BY <1>2, <1>3 DEF SaveDraft

\* Submitting keeps the types.
LEMMA SubmitTypes ==
    ASSUME TypeOK, RowsAgree, NEW o \in Owners, NEW k \in Keys, NEW s \in Sessions,
           NEW answers \in Sheets, NEW revision \in Nat, NEW latestNote \in Nat,
           NEW at \in Nat, Submit(o, k, s, answers, revision, latestNote, at)
    PROVE  TypeOK'
<1> DEFINE id == <<o, "STUDY_SUBMIT", k>>
<1>1. id \in RecordId
  BY DEF RecordId, Operations
<1>2. CASE SubmitExpires(id, s, at)
  <2>1. record' \in [RecordId -> ReplayRow \cup {None}]
    BY <1>1, <1>2 DEF SubmitExpires, TypeOK
  <2> QED
    BY <1>2, <2>1, ExpiredTypes DEF SubmitExpires, Submit, TypeOK
<1>3. CASE SubmitApplies(id, o, s, answers, revision, latestNote, at)
  <2> DEFINE submittedAt == SubmittedAt(o, s, latestNote, at)
             response == [answers |-> answers, revision |-> revision, at |-> submittedAt]
  <2>1. submittedAt \in Nat
    BY SubmittedAtIsNat
  <2>2. response \in Response /\ Commit(id, s, response)
    BY <1>3, <2>1 DEF Response, SubmitApplies
  <2>3. result' \in [Sessions -> ResultRow \cup {None}]
    BY <1>3, <2>1 DEF SubmitApplies, TypeOK, ResultRow
  <2>4. guest' \in [Guests -> GuestRow]
    <3>1. submittedAt + GuestRenewal \in Nat
      BY <2>1, ConstantsAreNat
    <3> QED
      BY <1>3, <2>1, <3>1 DEF SubmitApplies, TypeOK, GuestRow
  <2>5. session' \in [Sessions -> SessionRow]
    BY <1>3 DEF SubmitApplies, TypeOK, SessionRow, Statuses
  <2>6. draft' \in [Sessions -> DraftRow \cup {None}]
    BY <1>3 DEF SubmitApplies, TypeOK
  <2>7. /\ record' \in [RecordId -> ReplayRow \cup {None}]
        /\ committed' \subseteq [id: RecordId, row: ReplayRow]
    BY <1>1, <2>2, CommitTypes
  <2>8. now' = now
    BY DEF Submit
  <2> QED
    BY <2>3, <2>4, <2>5, <2>6, <2>7, <2>8 DEF TypeOK
<1> QED
  BY <1>2, <1>3 DEF Submit

\* Cancelling keeps the types, whether the session is cancelled or found due.
LEMMA CancelTypes ==
    ASSUME TypeOK, NEW o \in Owners, NEW s \in Sessions, NEW at \in Nat,
           CancelSession(o, s, at)
    PROVE  TypeOK'
<1>1. CASE CancelApplies(s)
  <2>1. /\ session' \in [Sessions -> SessionRow]
        /\ draft' \in [Sessions -> DraftRow \cup {None}]
    BY <1>1 DEF CancelApplies, TypeOK, SessionRow, Statuses
  <2> QED
    BY <2>1 DEF CancelSession, TypeOK
<1>2. CASE Expired(s)
  BY <1>2, ExpiredTypes DEF CancelSession, TypeOK
<1> QED
  BY <1>1, <1>2 DEF CancelSession

\* Reading keeps the types: all it may change is to expire the session.
LEMMA ReadTypes ==
    ASSUME TypeOK, NEW o \in Owners, NEW s \in Sessions, NEW at \in Nat,
           ExpireOnRead(o, s, at)
    PROVE  TypeOK'
BY ExpiredTypes DEF ExpireOnRead, TypeOK

\* A new session with its record: retries and targeted reviews.
LEMMA StartedCommitTypes ==
    ASSUME TypeOK, NEW o \in Owners, NEW s \in Sessions, NEW id \in RecordId,
           NEW source \in Sessions \cup {None}, NEW at \in Nat, NEW expiresAt \in Nat,
           Started(o, s, source, at, expiresAt),
           Commit(id, s, [answers |-> Blank, revision |-> 0, at |-> at]),
           UNCHANGED <<now, result, guest>>
    PROVE  TypeOK'
<1>1. [answers |-> Blank, revision |-> 0, at |-> at] \in Response
  BY SheetsAssumption DEF Response
<1> QED
  BY <1>1, StartedTypes, CommitTypes DEF TypeOK

\* Retrying the mistakes of a session keeps the types.
LEMMA RetryTypes ==
    ASSUME TypeOK, NEW o \in Owners, NEW k \in Keys, NEW source \in Sessions,
           NEW s \in Sessions, NEW at \in Nat, RetryMistakes(o, k, source, s, at)
    PROVE  TypeOK'
<1> DEFINE id == <<o, "STUDY_RETRY_CREATE", k>>
<1>1. id \in RecordId
  BY DEF RecordId, Operations
<1>2. at + SessionTTL \in Nat /\ (o \in Guests => guest[o].expiresAt \in Nat)
  BY ConstantsAreNat DEF TypeOK, GuestRow
<1>3. RetryExpiry(o, at) \in Nat
  BY <1>2, ConstantsAreNat DEF RetryExpiry, Earlier
<1> QED
  BY <1>1, <1>3, StartedCommitTypes DEF RetryMistakes

\* Starting a targeted review keeps the types.
LEMMA TargetedTypes ==
    ASSUME TypeOK, NEW o \in Owners, NEW k \in Keys, NEW s \in Sessions, NEW at \in Nat,
           TargetedReview(o, k, s, at)
    PROVE  TypeOK'
<1> DEFINE id == <<o, "STUDY_TARGETED_REVIEW_CREATE", k>>
<1>1. id \in RecordId
  BY DEF RecordId, Operations
<1>2. at + SessionTTL \in Nat
  BY ConstantsAreNat
<1> QED
  BY <1>1, <1>2, StartedCommitTypes DEF TargetedReview

\* Clearing a guest, and all rows that cascade, keeps the types.
LEMMA ClearTypes ==
    ASSUME TypeOK, NEW g \in Guests, ClearGuest(g)
    PROVE  TypeOK'
<1>0. ASSUME NEW s \in Sessions
      PROVE  [session[s] EXCEPT !.status = "DELETED"] \in SessionRow
  BY DEF TypeOK, SessionRow, Statuses
<1>1. session' \in [Sessions -> SessionRow]
  BY <1>0 DEF ClearGuest, TypeOK
<1>2. guest' \in [Guests -> GuestRow]
  BY DEF ClearGuest, TypeOK, GuestRow
<1>3. record' \in [RecordId -> ReplayRow \cup {None}]
  BY DEF ClearGuest, TypeOK
<1> QED
  BY <1>1, <1>2, <1>3 DEF ClearGuest, TypeOK

\* Each of the clean-up job's four deletions keeps the types.
LEMMA CleanupTypes ==
    ASSUME TypeOK, Cleanup
    PROVE  TypeOK'
<1>1. ASSUME NEW s \in Sessions, CleanDraft(s)
      PROVE  TypeOK'
  BY <1>1 DEF CleanDraft, DraftSession, TypeOK, SessionRow, Statuses
<1>2. ASSUME NEW s \in Sessions, CleanSession(s)
      PROVE  TypeOK'
  <2>1. session' \in [Sessions -> SessionRow]
    BY <1>2 DEF CleanSession, ClosedSession, TypeOK, SessionRow, Statuses
  <2>2. record' \in [RecordId -> ReplayRow \cup {None}]
    BY <1>2 DEF CleanSession, ClosedSession, TypeOK, WithoutSession
  <2> QED
    BY <1>2, <2>1, <2>2 DEF CleanSession, TypeOK
<1>3. ASSUME NEW g \in Guests, CleanPrincipal(g)
      PROVE  TypeOK'
  <2>1. record' \in [RecordId -> ReplayRow \cup {None}]
    BY <1>3 DEF CleanPrincipal, TypeOK
  <2> QED
    BY <1>3, <2>1 DEF CleanPrincipal, TypeOK, GuestRow
<1>4. ASSUME NEW id \in RecordId, CleanRecord(id)
      PROVE  TypeOK'
  BY <1>4 DEF CleanRecord, ExpiredReplay, TypeOK
<1> QED
  BY <1>1, <1>2, <1>3, <1>4 DEF Cleanup

\* So does every step of the service.
LEMMA NextTypes ==
    ASSUME TypeOK, RowsAgree, Next
    PROVE  TypeOK'
<1>1. CASE Tick
  BY <1>1, ConstantsAreNat DEF Tick, TypeOK
<1>2. CASE ClientRequest
  <2> SUFFICES ASSUME NEW o \in Owners, NEW s \in Sessions, NEW at \in Observed,
                      ClientRequestOf(o, s, at)
               PROVE  TypeOK'
    BY <1>2 DEF ClientRequest
  <2>1. at \in Nat /\ now + 1 \in Nat
    BY ObservedIsNat DEF TypeOK
  <2>2. \A revision \in 0..MaxRevision : revision \in Nat
    BY ConstantsAreNat
  <2>3. CASE \/ CreateSession(o, s, at) \/ GetSession(o, s, at) \/ GetDraft(o, s, at)
             \/ CancelSession(o, s, at)
    BY <2>1, <2>3, CreateTypes, ReadTypes, CancelTypes DEF GetSession, GetDraft
  <2>4. CASE \/ \E k \in Keys, source \in Sessions : RetryMistakes(o, k, source, s, at)
             \/ \E k \in Keys : TargetedReview(o, k, s, at)
    BY <2>1, <2>4, RetryTypes, TargetedTypes
  <2>5. CASE \E k \in Keys, answers \in Sheets, revision \in 0..MaxRevision :
                SaveDraft(o, k, s, answers, revision, at)
    BY <2>1, <2>2, <2>5, SaveTypes
  <2>6. CASE \E k \in Keys, answers \in Sheets, revision \in 0..MaxRevision,
                latestNote \in {0, now + 1} :
                Submit(o, k, s, answers, revision, latestNote, at)
    BY <2>1, <2>2, <2>6, SubmitTypes
  <2> QED
    BY <2>3, <2>4, <2>5, <2>6 DEF ClientRequestOf
<1>3. CASE Cleanup
  BY <1>3, CleanupTypes
<1>4. CASE \E g \in Guests : ClearGuest(g)
  BY <1>4, ClearTypes
<1> QED
  BY <1>1, <1>2, <1>3, <1>4 DEF Next

(***************************************************************************)
(* Sessions, drafts and results agree.                                     *)
(***************************************************************************)

\* A new session begins in progress, with a draft and without a result.
LEMMA StartedRows ==
    ASSUME TypeOK, RowsAgree, NEW o \in Owners, NEW s \in Sessions,
           NEW source, NEW at \in Nat, NEW expiresAt,
           session[s].status = "UNUSED", Started(o, s, source, at, expiresAt),
           UNCHANGED result
    PROVE  RowsAgree'
<1>1. draft'[s] \in DraftRow
  BY SheetsAssumption DEF TypeOK, Started, DraftRow
<1>2. draft'[s] # None
  BY <1>1, RowsAssumption
<1>3. result[s] = None
  BY DEF RowsAgree
<1> QED
  BY <1>2, <1>3 DEF RowsAgree, Started, InProgress, TypeOK

\* An expired session keeps its draft for a guest and loses it for a user, and has
\* no result.
LEMMA ExpiredRows ==
    ASSUME TypeOK, RowsAgree, NEW s \in Sessions, InProgress(s), Expired(s),
           UNCHANGED result
    PROVE  RowsAgree'
BY DEF RowsAgree, Expired, InProgress, TypeOK

\* A save leaves a draft behind where there was one, and touches only a session in
\* progress.
LEMMA SaveRows ==
    ASSUME TypeOK, RowsAgree, NEW o \in Owners, NEW k \in Keys, NEW s \in Sessions,
           NEW answers \in Sheets, NEW revision \in Nat, NEW at \in Nat,
           SaveDraft(o, k, s, answers, revision, at)
    PROVE  RowsAgree'
<1> DEFINE id == <<o, "STUDY_DRAFT_SAVE", k>>
<1>1. CASE SaveExpires(id, s, at)
  BY <1>1, ExpiredRows DEF SaveExpires, SaveDraft
<1>2. CASE SaveApplies(id, s, answers, revision, at)
  <2>1. draft' \in [Sessions -> DraftRow \cup {None}] /\ draft'[s] # None
    <3>1. draft[s] \in DraftRow
      BY <1>2 DEF SaveApplies, RowsAgree, TypeOK
    <3>2. Later(at, draft[s].updatedAt + 1) \in Nat
      BY <3>1 DEF DraftRow, Later
    <3>3. [revision |-> revision + 1, answers |-> answers,
           updatedAt |-> Later(at, draft[s].updatedAt + 1)] \in DraftRow
      BY <3>2 DEF DraftRow
    <3> QED
      BY <1>2, <3>3, RowsAssumption DEF SaveApplies, TypeOK
  <2> QED
    BY <1>2, <2>1 DEF SaveApplies, SaveDraft, RowsAgree, InProgress, TypeOK
<1> QED
  BY <1>1, <1>2 DEF SaveDraft

\* A submission closes the session, drops its draft and stores its result together.
LEMMA SubmitRows ==
    ASSUME TypeOK, RowsAgree, NEW o \in Owners, NEW k \in Keys, NEW s \in Sessions,
           NEW answers \in Sheets, NEW revision \in Nat, NEW latestNote \in Nat,
           NEW at \in Nat, Submit(o, k, s, answers, revision, latestNote, at)
    PROVE  RowsAgree'
<1> DEFINE id == <<o, "STUDY_SUBMIT", k>>
<1>1. CASE SubmitExpires(id, s, at)
  BY <1>1, ExpiredRows DEF SubmitExpires, Submit
<1>2. CASE SubmitApplies(id, o, s, answers, revision, latestNote, at)
  <2> DEFINE row == [answers |-> answers, revision |-> revision,
                     submittedAt |-> SubmittedAt(o, s, latestNote, at)]
  <2>1. row \in ResultRow
    BY SubmittedAtIsNat DEF ResultRow
  <2>2. row # None
    BY <2>1, RowsAssumption
  <2> QED
    BY <1>2, <2>2 DEF SubmitApplies, RowsAgree, InProgress, TypeOK
<1> QED
  BY <1>1, <1>2 DEF Submit

\* A cancelled session has no draft.
LEMMA CancelRows ==
    ASSUME TypeOK, RowsAgree, NEW o \in Owners, NEW s \in Sessions, NEW at \in Nat,
           CancelSession(o, s, at)
    PROVE  RowsAgree'
<1>1. CASE CancelApplies(s)
  BY <1>1 DEF CancelApplies, CancelSession, RowsAgree, InProgress, TypeOK
<1>2. CASE Expired(s)
  BY <1>2, ExpiredRows DEF CancelSession
<1> QED
  BY <1>1, <1>2 DEF CancelSession

\* Clearing a guest leaves no draft or result of a deleted session.
LEMMA ClearRows ==
    ASSUME TypeOK, RowsAgree, NEW g \in Guests, ClearGuest(g)
    PROVE  RowsAgree'
<1> SUFFICES ASSUME NEW s \in Sessions
             PROVE  /\ InProgress(s)' => draft'[s] # None
                    /\ draft'[s] # None => \/ InProgress(s)'
                                           \/ /\ session'[s].status = "EXPIRED"
                                              /\ session'[s].owner \in Guests
                    /\ result'[s] # None <=> session'[s].status = "SUBMITTED"
  BY DEF RowsAgree
<1>1. CASE Owned(g, s)
  BY <1>1 DEF ClearGuest, Owned, InProgress, TypeOK, SessionRow
<1>2. CASE ~Owned(g, s)
  BY <1>2 DEF ClearGuest, Owned, InProgress, RowsAgree, Live, Statuses, TypeOK, SessionRow
<1> QED
  BY <1>1, <1>2

\* The clean-up job never leaves a session in progress without its draft.
LEMMA CleanupRows ==
    ASSUME TypeOK, RowsAgree, Cleanup
    PROVE  RowsAgree'
<1>1. ASSUME NEW s \in Sessions, CleanDraft(s)
      PROVE  RowsAgree'
  BY <1>1 DEF CleanDraft, DraftSession, RowsAgree, InProgress, TypeOK
<1>2. ASSUME NEW s \in Sessions, CleanSession(s)
      PROVE  RowsAgree'
  BY <1>2 DEF CleanSession, ClosedSession, RowsAgree, InProgress, TypeOK
<1>3. ASSUME NEW g \in Guests, CleanPrincipal(g)
      PROVE  RowsAgree'
  BY <1>3 DEF CleanPrincipal, RowsAgree, InProgress
<1>4. ASSUME NEW id \in RecordId, CleanRecord(id)
      PROVE  RowsAgree'
  BY <1>4 DEF CleanRecord, ExpiredReplay, RowsAgree, InProgress
<1> QED
  BY <1>1, <1>2, <1>3, <1>4 DEF Cleanup

\* So no step of the service takes the tables apart.
LEMMA NextRows ==
    ASSUME TypeOK, RowsAgree, Next
    PROVE  RowsAgree'
<1>1. CASE Tick
  BY <1>1 DEF Tick, RowsAgree, InProgress
<1>2. CASE ClientRequest
  <2> SUFFICES ASSUME NEW o \in Owners, NEW s \in Sessions, NEW at \in Observed,
                      ClientRequestOf(o, s, at)
               PROVE  RowsAgree'
    BY <1>2 DEF ClientRequest
  <2>1. at \in Nat /\ now + 1 \in Nat
    BY ObservedIsNat DEF TypeOK
  <2>2. \A revision \in 0..MaxRevision : revision \in Nat
    BY ConstantsAreNat
  <2>3. CASE CreateSession(o, s, at)
    BY <2>1, <2>3, StartedRows
    DEF CreateSession, CreateForUser, CreateForGuest, CreateForNewGuest
  <2>4. CASE GetSession(o, s, at) \/ GetDraft(o, s, at)
    BY <2>4, ExpiredRows DEF GetSession, GetDraft, ExpireOnRead
  <2>5. CASE CancelSession(o, s, at)
    BY <2>1, <2>5, CancelRows
  <2>6. CASE \E k \in Keys, source \in Sessions : RetryMistakes(o, k, source, s, at)
    BY <2>1, <2>6, StartedRows DEF RetryMistakes
  <2>7. CASE \E k \in Keys : TargetedReview(o, k, s, at)
    BY <2>1, <2>7, StartedRows DEF TargetedReview
  <2>8. CASE \E k \in Keys, answers \in Sheets, revision \in 0..MaxRevision :
                SaveDraft(o, k, s, answers, revision, at)
    BY <2>1, <2>2, <2>8, SaveRows
  <2>9. CASE \E k \in Keys, answers \in Sheets, revision \in 0..MaxRevision,
                latestNote \in {0, now + 1} :
                Submit(o, k, s, answers, revision, latestNote, at)
    BY <2>1, <2>2, <2>9, SubmitRows
  <2> QED
    BY <2>3, <2>4, <2>5, <2>6, <2>7, <2>8, <2>9 DEF ClientRequestOf
<1>3. CASE Cleanup
  BY <1>3, CleanupRows
<1>4. CASE \E g \in Guests : ClearGuest(g)
  BY <1>4, ClearRows
<1> QED
  BY <1>1, <1>2, <1>3, <1>4 DEF Next

\* Types alone are not kept: a save reads the draft of a session in progress, and
\* only RowsAgree says that there is one.
Consistent == TypeOK /\ RowsAgree

\* The empty database is consistent.
LEMMA InitConsistent == Init => Consistent
<1> SUFFICES ASSUME Init PROVE Consistent
  OBVIOUS
<1>1. now \in 0..MaxTime
  BY ConstantsAreNat DEF Init
<1>2. session \in [Sessions -> SessionRow]
  BY DEF Init, SessionRow, Statuses
<1>3. guest \in [Guests -> GuestRow]
  BY DEF Init, GuestRow
<1> QED
  BY <1>1, <1>2, <1>3 DEF Init, Consistent, TypeOK, RowsAgree, InProgress

\* Every step keeps it so: Consistent is inductive, and each half leans on the other.
LEMMA NextConsistent == Consistent /\ [Next]_vars => Consistent'
<1> SUFFICES ASSUME Consistent, [Next]_vars PROVE Consistent'
  OBVIOUS
<1>1. CASE Next
  BY <1>1, NextTypes, NextRows DEF Consistent
<1>2. CASE UNCHANGED vars
  BY <1>2 DEF vars, Consistent, TypeOK, RowsAgree, InProgress
<1> QED
  BY <1>1, <1>2

\* Type correctness: in every reachable state each table has the shape its rows are
\* declared with, whatever the owners, sessions, keys, retention times and lag.
THEOREM TypeCorrect == Spec => []TypeOK
<1>1. Consistent => TypeOK
  BY DEF Consistent
<1> QED
  BY InitConsistent, NextConsistent, <1>1, PTL DEF Spec

\* Sessions, drafts and results always agree: a session in progress has a draft (the
\* handlers answer INTERNAL_SERVER_ERROR otherwise), a draft belongs to a session in
\* progress or to an expired one of a guest, and exactly the submitted have a result.
THEOREM RowsAlwaysAgree == Spec => []RowsAgree
<1>1. Consistent => RowsAgree
  BY DEF Consistent
<1> QED
  BY InitConsistent, NextConsistent, <1>1, PTL DEF Spec

(***************************************************************************)
(* Credentials.                                                            *)
(***************************************************************************)

\* A credential lasts as long after the guest's last visit as a renewal grants, at
\* most. A submission sets both times, so without this it might shorten the
\* credential, and the sessions of the guest would outlive it.
RenewalBounded ==
    \A g \in Guests : guest[g].state = "LIVE" =>
        guest[g].expiresAt <= guest[g].lastSeenAt + GuestRenewal

GuestsConsistent == Consistent /\ RenewalBounded /\ GuestOutlivesSessions

\* What a step does to each guest who has a credential, unless it erases the guest.
Renewed(g) ==
    /\ guest'[g].state = "LIVE"
    /\ guest[g].lastSeenAt <= guest'[g].lastSeenAt
    /\ guest[g].expiresAt <= guest'[g].expiresAt

\* A step that renews guests and touches at most one session, of an owner whose
\* credential is at least as long, keeps the promise.
LEMMA OneSessionOutlived ==
    ASSUME TypeOK, GuestOutlivesSessions, NEW s \in Sessions,
           \A g \in Guests : guest[g].state = "LIVE" => Renewed(g),
           \A g \in Guests : guest'[g] \in GuestRow,
           \A r \in Sessions \ {s} : session'[r] = session[r],
           session'[s].status \in Live /\ session'[s].owner \in Guests =>
               /\ guest'[session'[s].owner].state = "LIVE"
               /\ session'[s].expiresAt <= guest'[session'[s].owner].expiresAt
    PROVE  GuestOutlivesSessions'
<1> SUFFICES ASSUME NEW r \in Sessions, GuestOwned(r)'
             PROVE  /\ guest'[session'[r].owner].state = "LIVE"
                    /\ session'[r].expiresAt <= guest'[session'[r].owner].expiresAt
  BY DEF GuestOutlivesSessions
<1>1. CASE r = s
  BY <1>1 DEF GuestOwned
<1>2. CASE r # s
  <2> DEFINE g == session[r].owner
  <2>1. session'[r] = session[r] /\ g \in Guests /\ GuestOwned(r)
    BY <1>2 DEF GuestOwned
  <2>2. guest[g].state = "LIVE" /\ session[r].expiresAt <= guest[g].expiresAt
    BY <2>1 DEF GuestOutlivesSessions
  <2>3. guest'[g].state = "LIVE" /\ guest[g].expiresAt <= guest'[g].expiresAt
    BY <2>1, <2>2 DEF Renewed
  <2>4. /\ session[r].expiresAt \in Nat
        /\ guest[g].expiresAt \in Nat
        /\ guest'[g].expiresAt \in Nat
    BY <2>1 DEF TypeOK, SessionRow, GuestRow
  <2> QED
    BY <2>1, <2>2, <2>3, <2>4
<1> QED
  BY <1>1, <1>2

\* A due session that expires keeps its owner and its time.
LEMMA ExpiredGuests ==
    ASSUME GuestsConsistent, NEW s \in Sessions, InProgress(s), Expired(s), UNCHANGED guest
    PROVE  RenewalBounded' /\ GuestOutlivesSessions'
<1>1. TypeOK /\ GuestOutlivesSessions
  BY DEF GuestsConsistent, Consistent
<1> QED
  BY <1>1 DEF GuestsConsistent, RenewalBounded, GuestOutlivesSessions, GuestOwned, Expired,
              InProgress, TypeOK, SessionRow, Live

\* Creating a session: it gets no more time than the credential has, and the visit of
\* a known guest is recorded only when it is not before the last.
LEMMA CreateGuests ==
    ASSUME GuestsConsistent, NEW o \in Owners, NEW s \in Sessions, NEW at \in Nat,
           CreateSession(o, s, at), TypeOK'
    PROVE  RenewalBounded' /\ GuestOutlivesSessions' /\
           \A g \in Guests : guest[g].state = "LIVE" => Renewed(g)
<1>1. TypeOK /\ GuestOutlivesSessions /\ RenewalBounded
  BY DEF GuestsConsistent, Consistent
<1>2. \A g \in Guests : guest[g] \in GuestRow /\ guest'[g] \in GuestRow
  BY <1>1 DEF TypeOK
<1>3. CASE CreateForUser(o, s, at)
  <2>1. o \notin Guests /\ guest' = guest
    BY <1>3, OwnersAssumption DEF CreateForUser
  <2>2. session'[s].owner = o /\ \A r \in Sessions \ {s} : session'[r] = session[r]
    BY <1>1, <1>3 DEF CreateForUser, Started, TypeOK
  <2>3. \A g \in Guests : guest[g].state = "LIVE" => Renewed(g)
    BY <1>2, <2>1 DEF Renewed, GuestRow
  <2> QED
    BY <1>1, <1>2, <2>1, <2>2, <2>3, OneSessionOutlived DEF RenewalBounded
<1>4. CASE CreateForGuest(o, s, at)
  <2>1. /\ o \in Guests
        /\ guest' = [guest EXCEPT ![o].lastSeenAt = at]
        /\ guest[o].state = "LIVE" /\ guest[o].lastSeenAt <= at
    BY <1>4 DEF CreateForGuest, GuestProof
  <2>2. /\ session'[s].owner = o
        /\ session'[s].expiresAt = Earlier(guest[o].expiresAt, at + SessionTTL)
        /\ \A r \in Sessions \ {s} : session'[r] = session[r]
    BY <1>1, <1>4 DEF CreateForGuest, Started, TypeOK
  <2>3. session'[s].expiresAt <= guest[o].expiresAt
    BY <1>2, <2>1, <2>2, ConstantsAreNat DEF Earlier, GuestRow
  <2>4. /\ guest'[o].state = "LIVE"
        /\ guest'[o].expiresAt = guest[o].expiresAt
        /\ guest'[o].lastSeenAt = at
        /\ \A g \in Guests \ {o} : guest'[g] = guest[g]
    BY <1>1, <2>1 DEF TypeOK, GuestRow
  <2>5. \A g \in Guests : guest[g].state = "LIVE" => Renewed(g)
    BY <1>2, <2>1, <2>4 DEF Renewed, GuestRow
  <2>6. RenewalBounded'
    BY <1>1, <1>2, <2>1, <2>4, ConstantsAreNat DEF RenewalBounded, GuestRow
  <2> QED
    BY <1>1, <1>2, <2>2, <2>3, <2>4, <2>5, <2>6, OneSessionOutlived
<1>5. CASE CreateForNewGuest(o, s, at)
  <2>1. /\ o \in Guests
        /\ guest[o].state = "UNUSED"
        /\ guest'[o].state = "LIVE"
        /\ guest'[o].lastSeenAt = at
        /\ guest'[o].expiresAt = at + GuestRenewal
        /\ \A g \in Guests \ {o} : guest'[g] = guest[g]
    BY <1>1, <1>5 DEF CreateForNewGuest, TypeOK
  <2>2. /\ session'[s].owner = o
        /\ session'[s].expiresAt = Earlier(at + GuestRenewal, at + SessionTTL)
        /\ \A r \in Sessions \ {s} : session'[r] = session[r]
    BY <1>1, <1>5 DEF CreateForNewGuest, Started, TypeOK
  <2>3. session'[s].expiresAt <= at + GuestRenewal
    BY <2>2, ConstantsAreNat DEF Earlier
  <2>4. \A g \in Guests : guest[g].state = "LIVE" => Renewed(g)
    BY <1>2, <2>1 DEF Renewed, GuestRow
  <2>5. RenewalBounded'
    BY <1>1, <2>1, ConstantsAreNat DEF RenewalBounded
  <2> QED
    BY <1>1, <1>2, <2>1, <2>2, <2>3, <2>4, <2>5, OneSessionOutlived
<1> QED
  BY <1>3, <1>4, <1>5 DEF CreateSession

\* Submitting: both times of the credential move on together.
LEMMA SubmitGuests ==
    ASSUME GuestsConsistent, NEW o \in Owners, NEW k \in Keys, NEW s \in Sessions,
           NEW answers \in Sheets, NEW revision \in Nat, NEW latestNote \in Nat,
           NEW at \in Nat, Submit(o, k, s, answers, revision, latestNote, at), TypeOK'
    PROVE  RenewalBounded' /\ GuestOutlivesSessions' /\
           \A g \in Guests : guest[g].state = "LIVE" => Renewed(g)
<1> DEFINE id == <<o, "STUDY_SUBMIT", k>>
           submittedAt == SubmittedAt(o, s, latestNote, at)
<1>1. TypeOK /\ GuestOutlivesSessions /\ RenewalBounded
  BY DEF GuestsConsistent, Consistent
<1>2. \A g \in Guests : guest[g] \in GuestRow /\ guest'[g] \in GuestRow
  BY <1>1 DEF TypeOK
<1>3. CASE SubmitExpires(id, s, at)
  <2>1. InProgress(s) /\ Expired(s) /\ guest' = guest
    BY <1>3 DEF SubmitExpires, Submit
  <2> QED
    BY <1>2, <2>1, ExpiredGuests DEF Renewed, GuestRow
<1>4. CASE SubmitApplies(id, o, s, answers, revision, latestNote, at)
  <2>1. submittedAt \in Nat /\ (o \in Guests => guest[o].lastSeenAt <= submittedAt)
    BY <1>1, SubmittedAtIsNat
  <2>2. /\ o \in Guests => /\ guest'[o].state = guest[o].state
                           /\ guest'[o].lastSeenAt = submittedAt
                           /\ guest'[o].expiresAt = submittedAt + GuestRenewal
        /\ \A g \in Guests \ {o} : guest'[g] = guest[g]
    BY <1>1, <1>4 DEF SubmitApplies, TypeOK, GuestRow
  <2>3. session' = [session EXCEPT ![s].status = "SUBMITTED"]
    BY <1>4 DEF SubmitApplies
  <2>4. \A g \in Guests : guest[g].state = "LIVE" => Renewed(g)
    BY <1>1, <1>2, <2>1, <2>2, ConstantsAreNat DEF Renewed, RenewalBounded, GuestRow
  <2>5. RenewalBounded'
    BY <1>1, <2>1, <2>2, ConstantsAreNat DEF RenewalBounded
  <2>6. /\ session'[s].owner = session[s].owner
        /\ session'[s].expiresAt = session[s].expiresAt
        /\ session[s].expiresAt \in Nat
        /\ \A r \in Sessions \ {s} : session'[r] = session[r]
    BY <1>1, <2>3 DEF TypeOK, SessionRow
  <2>7. session[s].owner \in Guests =>
          /\ guest[session[s].owner].state = "LIVE"
          /\ session[s].expiresAt <= guest[session[s].owner].expiresAt
    BY <1>1 DEF Submit, InProgress, GuestOutlivesSessions, GuestOwned, Live
  <2>8. session[s].owner \in Guests =>
          /\ guest'[session[s].owner].state = "LIVE"
          /\ session[s].expiresAt <= guest'[session[s].owner].expiresAt
    BY <1>2, <2>4, <2>6, <2>7 DEF Renewed, GuestRow
  <2> QED
    BY <1>1, <1>2, <2>4, <2>5, <2>6, <2>8, OneSessionOutlived
<1> QED
  BY <1>3, <1>4 DEF Submit

\* Retrying: the new session gets no more time than the credential has.
LEMMA RetryGuests ==
    ASSUME GuestsConsistent, NEW o \in Owners, NEW k \in Keys, NEW source \in Sessions,
           NEW s \in Sessions, NEW at \in Nat, RetryMistakes(o, k, source, s, at)
    PROVE  GuestOutlivesSessions' /\ guest' = guest
<1>1. TypeOK /\ GuestOutlivesSessions
  BY DEF GuestsConsistent, Consistent
<1>2. guest' = guest /\ (o \in Guests => guest[o].state = "LIVE")
  BY DEF RetryMistakes, GuestProof
<1>3. \A g \in Guests : guest[g] \in GuestRow
  BY <1>1 DEF TypeOK
<1>4. /\ session'[s].owner = o
      /\ session'[s].expiresAt = RetryExpiry(o, at)
      /\ \A r \in Sessions \ {s} : session'[r] = session[r]
  BY <1>1 DEF RetryMistakes, Started, TypeOK
<1>5. o \in Guests => RetryExpiry(o, at) <= guest[o].expiresAt
  BY <1>3, ConstantsAreNat DEF RetryExpiry, Earlier, GuestRow
<1>6. \A g \in Guests : guest[g].state = "LIVE" => Renewed(g)
  BY <1>2, <1>3 DEF Renewed, GuestRow
<1> QED
  BY <1>1, <1>2, <1>3, <1>4, <1>5, <1>6, OneSessionOutlived

\* A targeted review is a user's.
LEMMA TargetedGuests ==
    ASSUME GuestsConsistent, NEW o \in Owners, NEW k \in Keys, NEW s \in Sessions,
           NEW at \in Nat, TargetedReview(o, k, s, at)
    PROVE  GuestOutlivesSessions' /\ guest' = guest
<1>1. TypeOK /\ GuestOutlivesSessions /\ guest' = guest /\ o \notin Guests
  BY OwnersAssumption DEF GuestsConsistent, Consistent, TargetedReview
<1>2. session'[s].owner = o /\ \A r \in Sessions \ {s} : session'[r] = session[r]
  BY <1>1 DEF TargetedReview, Started, TypeOK
<1> QED
  BY <1>1, <1>2 DEF GuestOutlivesSessions, GuestOwned

\* Cancelling closes a session and leaves its owner and time.
LEMMA CancelGuests ==
    ASSUME GuestsConsistent, NEW o \in Owners, NEW s \in Sessions, NEW at \in Nat,
           CancelSession(o, s, at)
    PROVE  GuestOutlivesSessions' /\ guest' = guest
<1>1. InProgress(s) /\ guest' = guest /\ TypeOK /\ GuestOutlivesSessions
  BY DEF CancelSession, GuestsConsistent, Consistent
<1>2. CASE Expired(s)
  BY <1>1, <1>2, ExpiredGuests
<1>3. CASE CancelApplies(s)
  BY <1>1, <1>3 DEF CancelApplies, GuestOutlivesSessions, GuestOwned, InProgress, TypeOK,
                    SessionRow, Live
<1> QED
  BY <1>2, <1>3 DEF CancelSession

\* Clearing deletes the guest's sessions with the guest.
LEMMA ClearGuests ==
    ASSUME GuestsConsistent, NEW g \in Guests, ClearGuest(g)
    PROVE  RenewalBounded' /\ GuestOutlivesSessions'
<1>1. TypeOK /\ GuestOutlivesSessions /\ RenewalBounded
  BY DEF GuestsConsistent, Consistent
<1>2. guest' = [guest EXCEPT ![g].state = "DELETED"]
  BY DEF ClearGuest
<1>3. RenewalBounded'
  BY <1>1, <1>2 DEF RenewalBounded, TypeOK, GuestRow
<1>4. ASSUME NEW r \in Sessions, GuestOwned(r)'
      PROVE  session'[r] = session[r] /\ GuestOwned(r) /\ session[r].owner # g
  BY <1>1, <1>4 DEF ClearGuest, GuestOwned, Owned, Live, TypeOK, SessionRow
<1> QED
  BY <1>1, <1>2, <1>3, <1>4 DEF GuestOutlivesSessions, GuestOwned, TypeOK, GuestRow

\* The clean-up job deletes a guest only after the last session.
LEMMA CleanupGuests ==
    ASSUME GuestsConsistent, Cleanup
    PROVE  RenewalBounded' /\ GuestOutlivesSessions'
<1>1. TypeOK /\ GuestOutlivesSessions /\ RenewalBounded
  BY DEF GuestsConsistent, Consistent
<1>2. ASSUME NEW s \in Sessions, CleanDraft(s) \/ CleanSession(s)
      PROVE  RenewalBounded' /\ GuestOutlivesSessions'
  <2>1. guest' = guest
    BY <1>2 DEF CleanDraft, CleanSession
  <2>2. ASSUME NEW r \in Sessions, GuestOwned(r)'
        PROVE  /\ GuestOwned(r)
               /\ session'[r].owner = session[r].owner
               /\ session'[r].expiresAt = session[r].expiresAt
    BY <1>1, <1>2, <2>2 DEF CleanDraft, CleanSession, DraftSession, ClosedSession, GuestOwned,
                            TypeOK, SessionRow, Live
  <2> QED
    BY <1>1, <2>1, <2>2 DEF RenewalBounded, GuestOutlivesSessions, GuestOwned
<1>3. ASSUME NEW g \in Guests, CleanPrincipal(g)
      PROVE  RenewalBounded' /\ GuestOutlivesSessions'
  <2>1. /\ session' = session
        /\ guest' = [guest EXCEPT ![g].state = "DELETED"]
        /\ \A s \in Sessions : ~Owned(g, s)
    BY <1>3 DEF CleanPrincipal, ExpiredPrincipal
  <2>2. RenewalBounded'
    BY <1>1, <2>1 DEF RenewalBounded, TypeOK, GuestRow
  <2> QED
    BY <1>1, <2>1, <2>2 DEF GuestOutlivesSessions, GuestOwned, Owned, TypeOK, GuestRow
<1>4. ASSUME NEW id \in RecordId, CleanRecord(id)
      PROVE  RenewalBounded' /\ GuestOutlivesSessions'
  BY <1>1, <1>4 DEF CleanRecord, RenewalBounded, GuestOutlivesSessions, GuestOwned
<1> QED
  BY <1>2, <1>3, <1>4 DEF Cleanup

\* What the trigger validate_guest_principal_renewal_change demands of a step.
RenewedOrErased ==
    \A g \in Guests : guest[g].state = "LIVE" =>
        guest[g].lastSeenAt <= guest'[g].lastSeenAt /\ guest[g].expiresAt <= guest'[g].expiresAt

\* A step that leaves the guests alone, or only takes one away, moves no time back.
LEMMA SameTimes ==
    ASSUME TypeOK, NEW g, guest' = guest \/ guest' = [guest EXCEPT ![g].state = "DELETED"]
    PROVE  RenewedOrErased
BY DEF RenewedOrErased, TypeOK, GuestRow

\* Every request keeps sessions within their credentials and renews, or leaves alone.
LEMMA RequestGuests ==
    ASSUME GuestsConsistent, ClientRequest, TypeOK'
    PROVE  RenewalBounded' /\ GuestOutlivesSessions' /\ RenewedOrErased
<1> SUFFICES ASSUME NEW o \in Owners, NEW s \in Sessions, NEW at \in Observed,
                    ClientRequestOf(o, s, at)
             PROVE  RenewalBounded' /\ GuestOutlivesSessions' /\ RenewedOrErased
  BY DEF ClientRequest
<1>1. TypeOK /\ RenewalBounded
  BY DEF GuestsConsistent, Consistent
<1>2. at \in Nat /\ now + 1 \in Nat
  BY <1>1, ObservedIsNat DEF TypeOK
<1>3. \A revision \in 0..MaxRevision : revision \in Nat
  BY ConstantsAreNat
<1>4. (\A g \in Guests : guest[g].state = "LIVE" => Renewed(g)) => RenewedOrErased
  BY DEF Renewed, RenewedOrErased
<1>5. guest' = guest => RenewalBounded' /\ RenewedOrErased
  BY <1>1, SameTimes DEF RenewalBounded
<1>6. CASE CreateSession(o, s, at)
  BY <1>2, <1>4, <1>6, CreateGuests
<1>7. CASE GetSession(o, s, at) \/ GetDraft(o, s, at)
  BY <1>5, <1>7, ExpiredGuests DEF GetSession, GetDraft, ExpireOnRead
<1>8. CASE CancelSession(o, s, at)
  BY <1>2, <1>5, <1>8, CancelGuests
<1>9. CASE \E k \in Keys, source \in Sessions : RetryMistakes(o, k, source, s, at)
  BY <1>2, <1>5, <1>9, RetryGuests
<1>10. CASE \E k \in Keys : TargetedReview(o, k, s, at)
  BY <1>2, <1>5, <1>10, TargetedGuests
<1>11. CASE \E k \in Keys, answers \in Sheets, revision \in 0..MaxRevision :
               SaveDraft(o, k, s, answers, revision, at)
  <2> PICK k \in Keys, answers \in Sheets, revision \in 0..MaxRevision :
             SaveDraft(o, k, s, answers, revision, at)
    BY <1>11
  <2> DEFINE id == <<o, "STUDY_DRAFT_SAVE", k>>
  <2>1. guest' = guest
    BY DEF SaveDraft
  <2>2. CASE SaveExpires(id, s, at)
    BY <1>5, <2>1, <2>2, ExpiredGuests DEF SaveExpires
  <2>3. CASE SaveApplies(id, s, answers, revision, at)
    BY <1>5, <2>1, <2>3 DEF SaveApplies, GuestsConsistent, GuestOutlivesSessions, GuestOwned
  <2> QED
    BY <2>2, <2>3 DEF SaveDraft
<1>12. CASE \E k \in Keys, answers \in Sheets, revision \in 0..MaxRevision,
               latestNote \in {0, now + 1} :
               Submit(o, k, s, answers, revision, latestNote, at)
  BY <1>2, <1>3, <1>4, <1>12, SubmitGuests
<1> QED
  BY <1>6, <1>7, <1>8, <1>9, <1>10, <1>11, <1>12 DEF ClientRequestOf

\* So does every step, clearing and clean-up included.
LEMMA NextGuests ==
    ASSUME GuestsConsistent, Next, TypeOK'
    PROVE  RenewalBounded' /\ GuestOutlivesSessions' /\ RenewedOrErased
<1>1. TypeOK
  BY DEF GuestsConsistent, Consistent
<1>2. CASE Tick
  BY <1>1, <1>2, SameTimes
  DEF Tick, GuestsConsistent, RenewalBounded, GuestOutlivesSessions, GuestOwned
<1>3. CASE ClientRequest
  BY <1>3, RequestGuests
<1>4. CASE Cleanup
  <2>1. guest' = guest \/ \E g \in Guests : guest' = [guest EXCEPT ![g].state = "DELETED"]
    BY <1>4 DEF Cleanup, CleanDraft, CleanSession, CleanPrincipal, CleanRecord
  <2> QED
    BY <1>1, <1>4, <2>1, CleanupGuests, SameTimes
<1>5. CASE \E g \in Guests : ClearGuest(g)
  <2>1. PICK g \in Guests : ClearGuest(g)
    BY <1>5
  <2>2. guest' = [guest EXCEPT ![g].state = "DELETED"]
    BY <2>1 DEF ClearGuest
  <2> QED
    BY <1>1, <2>1, <2>2, ClearGuests, SameTimes
<1> QED
  BY <1>2, <1>3, <1>4, <1>5 DEF Next

\* No guest exists in the empty database.
LEMMA InitGuestsConsistent == Init => GuestsConsistent
BY InitConsistent
DEF Init, GuestsConsistent, RenewalBounded, GuestOutlivesSessions, GuestOwned, Live

\* GuestsConsistent is inductive.
LEMMA NextGuestsConsistent == GuestsConsistent /\ [Next]_vars => GuestsConsistent'
<1> SUFFICES ASSUME GuestsConsistent, [Next]_vars PROVE GuestsConsistent'
  OBVIOUS
<1>1. Consistent'
  BY NextConsistent DEF GuestsConsistent
<1>2. CASE Next
  BY <1>1, <1>2, NextGuests DEF GuestsConsistent, Consistent
<1>3. CASE UNCHANGED vars
  BY <1>1, <1>3 DEF vars, GuestsConsistent, RenewalBounded, GuestOutlivesSessions, GuestOwned
<1> QED
  BY <1>2, <1>3

\* No guest session ever outlives the credential that can open it: neither by the way it
\* is created or retried, nor because a renewal would shorten the credential, nor because
\* the credential is erased first.
THEOREM GuestsOutliveSessions == Spec => []GuestOutlivesSessions
<1>1. GuestsConsistent => GuestOutlivesSessions
  BY DEF GuestsConsistent
<1> QED
  BY InitGuestsConsistent, NextGuestsConsistent, <1>1, PTL DEF Spec

\* No handler's update of a guest moves lastSeenAt or expiresAt back, however stale its
\* clock reading: a submission never trips the database's trigger.
THEOREM RenewalsMonotonic == Spec => GuestRenewalMonotonic
<1>1. GuestsConsistent /\ GuestsConsistent' /\ [Next]_vars => [RenewedOrErased]_vars
  <2> SUFFICES ASSUME GuestsConsistent, GuestsConsistent', Next PROVE RenewedOrErased
    OBVIOUS
  <2> QED
    BY NextGuests DEF GuestsConsistent, Consistent
<1>2. [RenewedOrErased]_vars <=>
        [\A g \in Guests : guest[g].state = "LIVE" =>
            /\ guest[g].lastSeenAt <= guest'[g].lastSeenAt
            /\ guest[g].expiresAt <= guest'[g].expiresAt]_vars
  BY DEF RenewedOrErased
<1> QED
  BY InitGuestsConsistent, NextGuestsConsistent, <1>1, <1>2, PTL DEF Spec, GuestRenewalMonotonic

(***************************************************************************)
(* Nothing goes back.                                                      *)
(***************************************************************************)

\* What a step may do to a session: start it, or change its status alone. A submitted
\* session can only be deleted, keeps its result until then, and stays deleted.
Onward(s) ==
    /\ session[s].status = "UNUSED" => session'[s] = session[s] \/ session'[s].status = "IN_PROGRESS"
    /\ session[s].status # "UNUSED" =>
          /\ session'[s].status # "UNUSED"
          /\ session'[s] = [session[s] EXCEPT !.status = session'[s].status]
    /\ session[s].status = "SUBMITTED" =>
          \/ session'[s].status = "DELETED"
          \/ session'[s].status = "SUBMITTED" /\ result'[s] = result[s]
    /\ session[s].status = "DELETED" => session'[s].status = "DELETED"

\* What a step may do to a guest: nothing takes the credential back or makes it expire
\* earlier.
GuestOnward(g) ==
    guest[g].state # "UNUSED" => /\ guest'[g].state # "UNUSED"
                                 /\ guest[g].expiresAt <= guest'[g].expiresAt

\* The insert of a session touches no other.
LEMMA StartedOnward ==
    ASSUME TypeOK, NEW o, NEW x \in Sessions, NEW source, NEW at, NEW expiresAt,
           Started(o, x, source, at, expiresAt), session[x].status = "UNUSED", UNCHANGED result
    PROVE  \A s \in Sessions : Onward(s)
<1>1. /\ session'[x].status = "IN_PROGRESS"
      /\ \A s \in Sessions \ {x} : session'[s] = session[s]
  BY DEF Started, TypeOK
<1> QED
  BY <1>1 DEF Onward, TypeOK, SessionRow

\* Nor does the update of the status of one that is not over yet, or its deletion.
LEMMA StatusOnward ==
    ASSUME TypeOK, NEW x \in Sessions, NEW status, status # "UNUSED",
           session' = [session EXCEPT ![x].status = status],
           \/ session[x].status \in {"IN_PROGRESS", "EXPIRED"}
           \/ session[x].status # "UNUSED" /\ status = "DELETED",
           \A s \in Sessions \ {x} : result'[s] = result[s]
    PROVE  \A s \in Sessions : Onward(s)
<1> SUFFICES ASSUME NEW s \in Sessions PROVE Onward(s)
  OBVIOUS
<1>1. CASE s = x
  <2>1. session'[s] = [session[s] EXCEPT !.status = status]
    BY <1>1 DEF TypeOK
  <2>2. session'[s].status = status
    BY <2>1 DEF TypeOK, SessionRow
  <2> QED
    BY <1>1, <2>1, <2>2 DEF Onward
<1>2. CASE s # x
  BY <1>2 DEF Onward, TypeOK, SessionRow
<1> QED
  BY <1>1, <1>2

\* So it is with the expiry every handler makes of a due session.
LEMMA ExpiredOnward ==
    ASSUME TypeOK, NEW x \in Sessions, InProgress(x), Expired(x), UNCHANGED result
    PROVE  \A s \in Sessions : Onward(s)
BY StatusOnward DEF Expired, InProgress

\* And with every request.
LEMMA RequestOnward ==
    ASSUME Consistent, ClientRequest
    PROVE  \A s \in Sessions : Onward(s)
<1> USE DEF Consistent
<1> SUFFICES ASSUME NEW o \in Owners, NEW x \in Sessions, NEW at \in Observed,
                    ClientRequestOf(o, x, at)
             PROVE  \A s \in Sessions : Onward(s)
  BY DEF ClientRequest
<1>1. CASE CreateSession(o, x, at)
  BY <1>1, StartedOnward
  DEF CreateSession, CreateForUser, CreateForGuest, CreateForNewGuest
<1>2. CASE GetSession(o, x, at) \/ GetDraft(o, x, at)
  BY <1>2, ExpiredOnward DEF GetSession, GetDraft, ExpireOnRead
<1>3. CASE CancelSession(o, x, at)
  <2>1. InProgress(x) /\ UNCHANGED result
    BY <1>3 DEF CancelSession
  <2>2. CASE CancelApplies(x)
    BY <2>1, <2>2, StatusOnward DEF CancelApplies, InProgress
  <2> QED
    BY <1>3, <2>1, <2>2, ExpiredOnward DEF CancelSession
<1>4. CASE \E k \in Keys, source \in Sessions : RetryMistakes(o, k, source, x, at)
  BY <1>4, StartedOnward DEF RetryMistakes
<1>5. CASE \E k \in Keys : TargetedReview(o, k, x, at)
  BY <1>5, StartedOnward DEF TargetedReview
<1>6. CASE \E k \in Keys, answers \in Sheets, revision \in 0..MaxRevision :
              SaveDraft(o, k, x, answers, revision, at)
  <2> PICK k \in Keys, answers \in Sheets, revision \in 0..MaxRevision :
             SaveDraft(o, k, x, answers, revision, at)
    BY <1>6
  <2>1. CASE UNCHANGED session
    BY <2>1 DEF Onward, SaveDraft, TypeOK, SessionRow
  <2> QED
    BY <2>1, ExpiredOnward DEF SaveDraft, SaveExpires, SaveApplies
<1>7. CASE \E k \in Keys, answers \in Sheets, revision \in 0..MaxRevision,
              latestNote \in {0, now + 1} :
              Submit(o, k, x, answers, revision, latestNote, at)
  <2> PICK k \in Keys, answers \in Sheets, revision \in 0..MaxRevision,
           latestNote \in {0, now + 1} : Submit(o, k, x, answers, revision, latestNote, at)
    BY <1>7
  <2> DEFINE id == <<o, "STUDY_SUBMIT", k>>
  <2>1. InProgress(x)
    BY DEF Submit
  <2>2. CASE SubmitExpires(id, x, at)
    BY <2>1, <2>2, ExpiredOnward DEF SubmitExpires
  <2>3. CASE SubmitApplies(id, o, x, answers, revision, latestNote, at)
    <3>1. \A s \in Sessions \ {x} : result'[s] = result[s]
      BY <2>3 DEF SubmitApplies, TypeOK
    <3> QED
      BY <2>1, <2>3, <3>1, StatusOnward DEF SubmitApplies, InProgress
  <2> QED
    BY <2>2, <2>3 DEF Submit
<1> QED
  BY <1>1, <1>2, <1>3, <1>4, <1>5, <1>6, <1>7 DEF ClientRequestOf

\* And with every other step.
LEMMA NextOnward ==
    ASSUME Consistent, [Next]_vars
    PROVE  \A s \in Sessions : Onward(s)
<1> USE DEF Consistent
<1>1. CASE UNCHANGED <<session, result>>
  BY <1>1 DEF Onward, TypeOK, SessionRow
<1>2. CASE \E s \in Sessions : CleanDraft(s)
  BY <1>2, StatusOnward DEF CleanDraft, DraftSession
<1>3. CASE \E s \in Sessions : CleanSession(s)
  <2>1. PICK x \in Sessions : CleanSession(x)
    BY <1>3
  <2>2. \A s \in Sessions \ {x} : result'[s] = result[s]
    BY <2>1 DEF CleanSession, TypeOK
  <2>3. session[x].status # "UNUSED"
    BY <2>1 DEF CleanSession, ClosedSession, GuestOwned, Live
  <2> QED
    BY <2>1, <2>2, <2>3, StatusOnward DEF CleanSession
<1>4. CASE \E g \in Guests : ClearGuest(g)
  <2>1. PICK g \in Guests : ClearGuest(g)
    BY <1>4
  <2> SUFFICES ASSUME NEW s \in Sessions PROVE Onward(s)
    OBVIOUS
  <2>2. CASE Owned(g, s)
    BY <2>1, <2>2 DEF ClearGuest, Onward, Owned, Live, TypeOK, SessionRow
  <2>3. CASE ~Owned(g, s)
    <3>1. session'[s] = session[s]
      BY <2>1, <2>3 DEF ClearGuest
    <3>2. session[s].status = "SUBMITTED" => session[s].owner # g
      BY <2>3 DEF Owned, Live
    <3> QED
      BY <2>1, <3>1, <3>2 DEF ClearGuest, Onward, TypeOK, SessionRow
  <2> QED
    BY <2>2, <2>3
<1> QED
  BY <1>1, <1>2, <1>3, <1>4, RequestOnward
  DEF Next, vars, Tick, Cleanup, CleanPrincipal, CleanRecord

\* A step that adds or renews guests with the time running on makes no credential expire
\* earlier.
LEMMA NextGuestsOnward ==
    ASSUME GuestsConsistent, [Next]_vars
    PROVE  \A g \in Guests : GuestOnward(g)
<1>1. TypeOK /\ TypeOK'
  BY NextGuestsConsistent DEF GuestsConsistent, Consistent
<1>2. CASE UNCHANGED guest
  BY <1>1, <1>2 DEF GuestOnward, TypeOK, GuestRow
<1>3. CASE \E g \in Guests : guest' = [guest EXCEPT ![g].state = "DELETED"]
  BY <1>1, <1>3 DEF GuestOnward, TypeOK, GuestRow
<1>4. CASE ClientRequest
  <2>1. \A g \in Guests : guest[g].state = "DELETED" => guest'[g] = guest[g]
    <3> SUFFICES ASSUME NEW o \in Owners, NEW x \in Sessions, NEW at \in Observed,
                        ClientRequestOf(o, x, at), NEW g \in Guests, guest[g].state = "DELETED"
                 PROVE  guest'[g] = guest[g]
      BY <1>4 DEF ClientRequest
    <3>1. CASE guest' = guest
      BY <3>1
    <3>2. CASE CreateSession(o, x, at)
      BY <1>1, <3>2
      DEF CreateSession, CreateForUser, CreateForGuest, CreateForNewGuest, GuestProof, TypeOK
    <3>3. CASE \E k \in Keys, answers \in Sheets, revision \in 0..MaxRevision,
                  latestNote \in {0, now + 1} :
                  Submit(o, k, x, answers, revision, latestNote, at)
      BY <1>1, <3>3 DEF Submit, SubmitExpires, SubmitApplies, GuestProof, TypeOK
    <3> QED
      BY <3>1, <3>2, <3>3
      DEF ClientRequestOf, GetSession, GetDraft, ExpireOnRead, CancelSession, RetryMistakes,
          TargetedReview, SaveDraft
  <2>2. RenewedOrErased
    BY <1>1, <1>4, NextGuests DEF Next
  <2>3. \A g \in Guests : guest[g].state = "LIVE" => guest'[g].state # "UNUSED"
    <3> SUFFICES ASSUME NEW o \in Owners, NEW x \in Sessions, NEW at \in Observed,
                        ClientRequestOf(o, x, at), NEW g \in Guests, guest[g].state = "LIVE"
                 PROVE  guest'[g].state # "UNUSED"
      BY <1>4 DEF ClientRequest
    <3>1. CASE guest' = guest
      BY <3>1
    <3>2. CASE CreateSession(o, x, at)
      BY <1>1, <3>2
      DEF CreateSession, CreateForUser, CreateForGuest, CreateForNewGuest, TypeOK, GuestRow
    <3>3. CASE \E k \in Keys, answers \in Sheets, revision \in 0..MaxRevision,
                  latestNote \in {0, now + 1} :
                  Submit(o, k, x, answers, revision, latestNote, at)
      BY <1>1, <3>3 DEF Submit, SubmitExpires, SubmitApplies, TypeOK, GuestRow
    <3> QED
      BY <3>1, <3>2, <3>3
      DEF ClientRequestOf, GetSession, GetDraft, ExpireOnRead, CancelSession, RetryMistakes,
          TargetedReview, SaveDraft
  <2> QED
    BY <1>1, <2>1, <2>2, <2>3 DEF RenewedOrErased, GuestOnward, TypeOK, GuestRow
<1> QED
  BY <1>2, <1>3, <1>4
  DEF Next, vars, Tick, Cleanup, CleanDraft, CleanSession, CleanPrincipal, CleanRecord, ClearGuest

\* Sessions only move on: none is reopened, moved to another owner or another source, or
\* has its time changed, and a result that was shown does not change.
THEOREM SessionsMoveOn == Spec => [][\A s \in Sessions : Onward(s)]_vars
<1>1. Consistent /\ [Next]_vars => [\A s \in Sessions : Onward(s)]_vars
  BY NextOnward
<1> QED
  BY InitConsistent, NextConsistent, <1>1, PTL DEF Spec

(***************************************************************************)
(* A draft that has been left.                                             *)
(***************************************************************************)

\* A guest's session nobody has gone on with for the grace period, and whose outcomes
\* nobody can ask for again.
Abandoned(s, at) ==
    /\ session[s].status \in {"IN_PROGRESS", "EXPIRED", "DELETED"}
    /\ session[s].owner \in Guests
    /\ session[s].expiresAt + Grace <= at
    /\ \A id \in RecordId : record[id] # None /\ record[id].session = s
                              => record[id].expiresAt <= at

\* What keeps a session abandoned: it is at most expired or deleted, and no record comes
\* to point at it.
LEMMA StaysAbandoned ==
    ASSUME Consistent, Consistent', NEW s \in Sessions, NEW at, Abandoned(s, at), Onward(s),
           session'[s].status \in {"IN_PROGRESS", "EXPIRED", "DELETED"},
           \A id \in RecordId : \/ record'[id] \in {record[id], None}
                                \/ record'[id].session # s
    PROVE  Abandoned(s, at)'
<1>1. session[s].status # "UNUSED"
  BY DEF Abandoned
<1>2. session'[s].owner = session[s].owner /\ session'[s].expiresAt = session[s].expiresAt
  BY <1>1 DEF Onward, Consistent, TypeOK, SessionRow
<1> QED
  BY <1>2 DEF Abandoned

\* A request finds an abandoned session too old for anything but its expiry: it would
\* have to be older than the grace period.
LEMMA RequestAbandoned ==
    ASSUME Consistent, Consistent', ClientRequest, MaxLag <= Grace,
           NEW s \in Sessions, NEW at \in Nat, at <= now, Abandoned(s, at)
    PROVE  Abandoned(s, at)'
<1>1. TypeOK
  BY DEF Consistent
<1>2. Onward(s)
  BY RequestOnward
<1> SUFFICES ASSUME NEW o \in Owners, NEW x \in Sessions, NEW t \in Observed,
                    ClientRequestOf(o, x, t)
             PROVE  /\ session'[s].status \in {"IN_PROGRESS", "EXPIRED", "DELETED"}
                    /\ \A id \in RecordId : \/ record'[id] \in {record[id], None}
                                            \/ record'[id].session # s
  BY <1>2, StaysAbandoned DEF ClientRequest
<1>3. session[s].expiresAt <= t
  <2>1. t \in Nat /\ now <= t + MaxLag
    BY <1>1, ObservedIsNat DEF TypeOK
  <2>2. session[s].expiresAt \in Nat /\ now \in Nat
    BY <1>1 DEF TypeOK, SessionRow
  <2>3. session[s].expiresAt + Grace <= at
    BY DEF Abandoned
  <2> QED
    BY <2>1, <2>2, <2>3, ConstantsAreNat
<1>4. session[s].status \in {"IN_PROGRESS", "EXPIRED", "DELETED"}
  BY DEF Abandoned
<1>5. Expired(x) => session'[s].status \in {"IN_PROGRESS", "EXPIRED", "DELETED"}
  BY <1>1, <1>4 DEF Expired, TypeOK, SessionRow
<1>6. ASSUME NEW source, NEW expiresAt, Started(o, x, source, t, expiresAt),
             session[x].status = "UNUSED"
      PROVE  x # s /\ session'[s] = session[s]
  BY <1>1, <1>4, <1>6 DEF Started, TypeOK
<1>7. ASSUME NEW id \in RecordId, NEW response, Commit(id, x, response), x # s
      PROVE  \A i \in RecordId : record'[i] = record[i] \/ record'[i].session # s
  BY <1>1, <1>7 DEF Commit, TypeOK
<1>8. CASE CreateSession(o, x, t)
  BY <1>4, <1>6, <1>8
  DEF CreateSession, CreateForUser, CreateForGuest, CreateForNewGuest
<1>9. CASE GetSession(o, x, t) \/ GetDraft(o, x, t)
  BY <1>5, <1>9 DEF GetSession, GetDraft, ExpireOnRead
<1>10. CASE CancelSession(o, x, t)
  <2>1. CASE x = s
    BY <1>3, <1>5, <1>10, <2>1 DEF CancelSession
  <2>2. CASE x # s
    <3>1. session'[s] = session[s]
      BY <1>1, <1>10, <2>2 DEF CancelSession, Expired, CancelApplies, TypeOK
    <3> QED
      BY <1>4, <1>10, <3>1 DEF CancelSession
  <2> QED
    BY <2>1, <2>2
<1>11. CASE \E k \in Keys, source \in Sessions : RetryMistakes(o, k, source, x, t)
  <2> PICK k \in Keys, source \in Sessions : RetryMistakes(o, k, source, x, t)
    BY <1>11
  <2>1. <<o, "STUDY_RETRY_CREATE", k>> \in RecordId
    BY DEF RecordId, Operations
  <2> QED
    BY <1>4, <1>6, <1>7, <2>1 DEF RetryMistakes
<1>12. CASE \E k \in Keys : TargetedReview(o, k, x, t)
  <2> PICK k \in Keys : TargetedReview(o, k, x, t)
    BY <1>12
  <2>1. <<o, "STUDY_TARGETED_REVIEW_CREATE", k>> \in RecordId
    BY DEF RecordId, Operations
  <2> QED
    BY <1>4, <1>6, <1>7, <2>1 DEF TargetedReview
<1>13. CASE \E k \in Keys, answers \in Sheets, revision \in 0..MaxRevision :
               SaveDraft(o, k, x, answers, revision, t)
  <2> PICK k \in Keys, answers \in Sheets, revision \in 0..MaxRevision :
             SaveDraft(o, k, x, answers, revision, t)
    BY <1>13
  <2> DEFINE id == <<o, "STUDY_DRAFT_SAVE", k>>
  <2>1. id \in RecordId
    BY DEF RecordId, Operations
  <2>2. CASE SaveExpires(id, x, t)
    BY <1>1, <1>5, <2>1, <2>2 DEF SaveExpires, TypeOK
  <2>3. CASE SaveApplies(id, x, answers, revision, t)
    <3>1. x # s
      BY <1>1, <1>3, <2>3 DEF SaveApplies, TypeOK, SessionRow, Observed
    <3> QED
      BY <1>4, <1>7, <2>1, <2>3, <3>1 DEF SaveApplies
  <2> QED
    BY <2>2, <2>3 DEF SaveDraft
<1>14. CASE \E k \in Keys, answers \in Sheets, revision \in 0..MaxRevision,
               latestNote \in {0, now + 1} :
               Submit(o, k, x, answers, revision, latestNote, t)
  <2> PICK k \in Keys, answers \in Sheets, revision \in 0..MaxRevision,
           latestNote \in {0, now + 1} : Submit(o, k, x, answers, revision, latestNote, t)
    BY <1>14
  <2> DEFINE id == <<o, "STUDY_SUBMIT", k>>
  <2>1. id \in RecordId
    BY DEF RecordId, Operations
  <2>2. CASE SubmitExpires(id, x, t)
    BY <1>1, <1>5, <2>1, <2>2 DEF SubmitExpires, TypeOK
  <2>3. CASE SubmitApplies(id, o, x, answers, revision, latestNote, t)
    <3>1. x # s
      BY <1>1, <1>3, <2>3 DEF SubmitApplies, TypeOK, SessionRow, Observed
    <3>2. session'[s] = session[s]
      BY <1>1, <2>3, <3>1 DEF SubmitApplies, TypeOK
    <3> QED
      BY <1>4, <1>7, <2>1, <2>3, <3>1, <3>2 DEF SubmitApplies
  <2> QED
    BY <2>2, <2>3 DEF Submit
<1> QED
  BY <1>8, <1>9, <1>10, <1>11, <1>12, <1>13, <1>14 DEF ClientRequestOf

\* An abandoned session stays abandoned.
LEMMA NextAbandoned ==
    ASSUME Consistent, [Next]_vars, MaxLag <= Grace,
           NEW s \in Sessions, NEW at \in Nat, at <= now, Abandoned(s, at)
    PROVE  Abandoned(s, at)'
<1>1. TypeOK /\ Consistent'
  BY NextConsistent DEF Consistent
<1>2. Onward(s)
  BY NextOnward
<1>3. session[s].status \in {"IN_PROGRESS", "EXPIRED", "DELETED"}
  BY DEF Abandoned
<1>4. CASE UNCHANGED <<session, record>>
  BY <1>4 DEF Abandoned
<1>5. CASE Cleanup
  <2>1. session'[s].status \in {"IN_PROGRESS", "EXPIRED", "DELETED"}
    BY <1>1, <1>3, <1>5
    DEF Cleanup, CleanDraft, CleanSession, CleanPrincipal, CleanRecord, TypeOK, SessionRow
  <2>2. \A id \in RecordId : record'[id] \in {record[id], None}
    BY <1>1, <1>5
    DEF Cleanup, CleanDraft, CleanSession, CleanPrincipal, CleanRecord, WithoutSession, TypeOK
  <2> QED
    BY <1>1, <1>2, <2>1, <2>2, StaysAbandoned
<1>6. CASE \E g \in Guests : ClearGuest(g)
  <2> PICK g \in Guests : ClearGuest(g)
    BY <1>6
  <2>1. session'[s].status \in {"IN_PROGRESS", "EXPIRED", "DELETED"}
    BY <1>1, <1>3 DEF ClearGuest, TypeOK, SessionRow
  <2>2. \A id \in RecordId : record'[id] \in {record[id], None}
    BY <1>1 DEF ClearGuest
  <2> QED
    BY <1>1, <1>2, <2>1, <2>2, StaysAbandoned
<1> QED
  BY <1>1, <1>4, <1>5, <1>6, RequestAbandoned DEF Next, vars, Tick
=============================================================================
