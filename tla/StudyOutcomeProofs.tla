------------------------- MODULE StudyOutcomeProofs -------------------------
(* What StudyPractice promises to a client: the outcome of a request with an  *)
(* Idempotency-Key can be asked for again, and there is one; a session is      *)
(* graded once, a retry keeps the session it came from, and no acknowledged    *)
(* save of a draft is lost, neither to another save nor to a submission.       *)
EXTENDS StudyPracticeProofs, FiniteSetTheorems

(***************************************************************************)
(* Records stay for their retention.                                       *)
(***************************************************************************)

\* Ids of guests are not used again, so an old outcome never comes back to life.
OutcomesOfKnown ==
    \A c \in committed : c.id[1] \in Guests => guest[c.id[1]].state # "UNUSED"

RecordsConsistent ==
    Consistent /\ OutcomesOfKnown /\ ReplayableWithinRetention /\ OneOutcomePerKey

\* A handler that finds its record missing or outdated, for an owner whose
\* credential is good, knows that every earlier outcome of the key has run out.
LEMMA FreshMeansOver ==
    ASSUME RecordsConsistent, NEW id \in RecordId, NEW at \in Observed,
           id[1] \in Guests => guest[id[1]].state = "LIVE",
           Fresh(id, at), NEW c \in committed, c.id = id
    PROVE  c.row.expiresAt <= now
<1>1. TypeOK
  BY DEF RecordsConsistent, Consistent
<1>2. at \in Nat /\ at <= now /\ now \in Nat
  BY <1>1, ObservedIsNat DEF TypeOK
<1>3. c.row \in ReplayRow /\ c.row.expiresAt \in Nat /\ c.row # None
  BY <1>1, RowsAssumption DEF TypeOK, ReplayRow
<1> SUFFICES ASSUME c.row.expiresAt > now PROVE FALSE
  BY <1>2, <1>3
<1>4. record[id] = c.row
  BY DEF RecordsConsistent, ReplayableWithinRetention
<1>5. c.row.expiresAt <= at
  BY <1>3, <1>4 DEF Fresh
<1> QED
  BY <1>2, <1>3, <1>5

\* Storing a new outcome under a fresh key, at a time not before the request.
LEMMA CommitRecords ==
    ASSUME RecordsConsistent, NEW id \in RecordId, NEW at \in Observed, NEW s \in Sessions,
           NEW response \in Response, at <= response.at,
           id[1] \in Guests => guest[id[1]].state = "LIVE",
           Fresh(id, at), Commit(id, s, response),
           \A g \in Guests : guest'[g].state = guest[g].state, now' = now
    PROVE  OutcomesOfKnown' /\ ReplayableWithinRetention' /\ OneOutcomePerKey'
<1> DEFINE row == [session |-> s, response |-> response,
                   expiresAt |-> response.at + Retention(id[2])]
           new == [id |-> id, row |-> row]
<1>1. TypeOK /\ OutcomesOfKnown /\ ReplayableWithinRetention /\ OneOutcomePerKey
  BY DEF RecordsConsistent, Consistent
<1>2. at \in Nat /\ now <= at + MaxLag /\ now \in Nat /\ MaxLag \in Nat
  BY <1>1, ObservedIsNat, ConstantsAreNat DEF TypeOK
<1>3. /\ record' = [record EXCEPT ![id] = row]
      /\ committed' = committed \cup {new}
  BY DEF Commit
<1>4. \A c \in committed : /\ c.id \in RecordId
                           /\ c.row.expiresAt \in Nat
                           /\ c.row.response.at \in Nat
  BY <1>1 DEF TypeOK, ReplayRow, Response
<1>5. \A c \in committed : c.id = id => c.row.expiresAt <= now
  BY FreshMeansOver
<1>6. \A c \in committed : c.id[1] \in Guests =>
        guest'[c.id[1]].state = guest[c.id[1]].state
  OBVIOUS
<1>7. OutcomesOfKnown'
  BY <1>1, <1>3, <1>6 DEF OutcomesOfKnown
<1>8. ReplayableWithinRetention'
  <2> SUFFICES ASSUME NEW c \in committed', c.row.expiresAt > now,
                      c.id[1] \in Guests => guest'[c.id[1]].state = "LIVE"
               PROVE  record'[c.id] = c.row
    BY DEF ReplayableWithinRetention
  <2>1. CASE c = new
    BY <1>1, <1>3, <2>1 DEF TypeOK
  <2>2. CASE c \in committed
    <3>1. c.id # id
      BY <1>2, <1>4, <1>5, <2>2
    <3>2. record[c.id] = c.row
      BY <1>1, <1>6, <2>2 DEF ReplayableWithinRetention
    <3> QED
      BY <1>1, <1>3, <1>4, <2>2, <3>1, <3>2 DEF TypeOK
  <2> QED
    BY <1>3, <2>1, <2>2
<1>9. OneOutcomePerKey'
  <2>1. response.at \in Nat /\ new.row.response.at = response.at /\ new.id = id
    BY DEF Response
  <2>2. \A c \in committed : c.id = id => c.row.expiresAt <= new.row.response.at + MaxLag
    BY <1>2, <1>4, <1>5, <2>1
  <2> QED
    BY <1>1, <1>3, <2>1, <2>2 DEF OneOutcomePerKey
<1> QED
  BY <1>7, <1>8, <1>9

\* Rows may be deleted from the records that have run out, and with their guest.
LEMMA RecordsDropped ==
    ASSUME RecordsConsistent, UNCHANGED <<now, committed>>,
           \A g \in Guests : guest'[g].state # "UNUSED" \/ guest[g].state = "UNUSED",
           \A g \in Guests : guest'[g].state = "LIVE" => guest[g].state \in {"LIVE", "UNUSED"},
           \A id \in RecordId :
               \/ record'[id] = record[id]
               \/ record[id].expiresAt <= now
               \/ id[1] \in Guests /\ guest'[id[1]].state # "LIVE"
    PROVE  OutcomesOfKnown' /\ ReplayableWithinRetention' /\ OneOutcomePerKey'
<1>1. TypeOK /\ OutcomesOfKnown /\ ReplayableWithinRetention /\ OneOutcomePerKey
  BY DEF RecordsConsistent, Consistent
<1>2. OutcomesOfKnown'
  BY <1>1 DEF OutcomesOfKnown
<1>3. ReplayableWithinRetention'
  <2> SUFFICES ASSUME NEW c \in committed, c.row.expiresAt > now,
                      c.id[1] \in Guests => guest'[c.id[1]].state = "LIVE"
               PROVE  record'[c.id] = c.row
    BY DEF ReplayableWithinRetention
  <2>1. c.id \in RecordId /\ c.row.expiresAt \in Nat /\ now \in Nat
    BY <1>1 DEF TypeOK, ReplayRow
  <2>2. c.id[1] \in Guests => guest[c.id[1]].state = "LIVE"
    BY <1>1 DEF OutcomesOfKnown
  <2>3. record[c.id] = c.row
    BY <1>1, <2>2 DEF ReplayableWithinRetention
  <2> QED
    BY <2>1, <2>3
<1>4. OneOutcomePerKey'
  BY <1>1 DEF OneOutcomePerKey
<1> QED
  BY <1>2, <1>3, <1>4

\* Deleting the record of an id that is fresh: what the expiries do.
LEMMA ExpiryRecords ==
    ASSUME RecordsConsistent, NEW id \in RecordId, NEW at \in Observed,
           record' = record \/ (Fresh(id, at) /\ record' = [record EXCEPT ![id] = None]),
           UNCHANGED <<now, guest, committed>>
    PROVE  OutcomesOfKnown' /\ ReplayableWithinRetention' /\ OneOutcomePerKey'
<1>1. TypeOK
  BY DEF RecordsConsistent, Consistent
<1>2. at \in Nat /\ at <= now /\ now \in Nat
  BY <1>1, ObservedIsNat DEF TypeOK
<1>3. record[id] # None => record[id].expiresAt \in Nat
  BY <1>1 DEF TypeOK, ReplayRow
<1>4. Fresh(id, at) => record[id] = None \/ record[id].expiresAt <= now
  BY <1>2, <1>3 DEF Fresh
<1>5. \A other \in RecordId : record'[other] = record[other] \/ record[other].expiresAt <= now
  BY <1>1, <1>4 DEF TypeOK
<1>6. \A g \in Guests : guest[g].state \in {"UNUSED", "LIVE", "DELETED"}
  BY <1>1 DEF TypeOK, GuestRow
<1> QED
  BY <1>5, <1>6, RecordsDropped

\* Creating a session stores no outcome; a new guest has none.
LEMMA CreateRecords ==
    ASSUME RecordsConsistent, NEW o \in Owners, NEW s \in Sessions, NEW at \in Observed,
           CreateSession(o, s, at)
    PROVE  OutcomesOfKnown' /\ ReplayableWithinRetention' /\ OneOutcomePerKey'
<1>1. TypeOK /\ \A g \in Guests : guest[g].state \in {"UNUSED", "LIVE", "DELETED"}
  BY DEF RecordsConsistent, Consistent, TypeOK, GuestRow
<1>2. /\ \A g \in Guests : guest'[g].state # "UNUSED" \/ guest[g].state = "UNUSED"
      /\ \A g \in Guests : guest'[g].state = "LIVE" => guest[g].state \in {"LIVE", "UNUSED"}
  <2>1. CASE CreateForUser(o, s, at)
    BY <1>1, <2>1 DEF CreateForUser
  <2>2. CASE CreateForGuest(o, s, at)
    BY <1>1, <2>2 DEF CreateForGuest, TypeOK, GuestRow
  <2>3. CASE CreateForNewGuest(o, s, at)
    BY <1>1, <2>3 DEF CreateForNewGuest, TypeOK
  <2> QED
    BY <2>1, <2>2, <2>3 DEF CreateSession
<1> QED
  BY <1>2, RecordsDropped DEF CreateSession

\* Saving, under a key that is fresh.
LEMMA SaveRecords ==
    ASSUME RecordsConsistent, NEW o \in Owners, NEW k \in Keys, NEW s \in Sessions,
           NEW answers \in Sheets, NEW revision \in Nat, NEW at \in Observed,
           SaveDraft(o, k, s, answers, revision, at)
    PROVE  OutcomesOfKnown' /\ ReplayableWithinRetention' /\ OneOutcomePerKey'
<1> DEFINE id == <<o, "STUDY_DRAFT_SAVE", k>>
<1>1. TypeOK /\ RowsAgree
  BY DEF RecordsConsistent, Consistent
<1>2. id \in RecordId /\ id[1] = o /\ at \in Nat
  BY <1>1, ObservedIsNat DEF RecordId, Operations, TypeOK
<1>3. CASE SaveExpires(id, s, at)
  BY <1>2, <1>3, ExpiryRecords DEF SaveExpires, SaveDraft
<1>4. CASE SaveApplies(id, s, answers, revision, at)
  <2> DEFINE savedAt == Later(at, draft[s].updatedAt + 1)
             response == [answers |-> answers, revision |-> revision + 1, at |-> savedAt]
  <2>1. draft[s] \in DraftRow
    BY <1>1, <1>4 DEF SaveApplies, RowsAgree, TypeOK
  <2>2. savedAt \in Nat /\ at <= savedAt
    BY <1>2, <2>1 DEF DraftRow, Later
  <2>3. response \in Response /\ at <= response.at
    BY <2>2 DEF Response
  <2>4. Fresh(id, at) /\ Commit(id, s, response)
    BY <1>4 DEF SaveApplies
  <2>5. guest' = guest /\ now' = now /\ (o \in Guests => guest[o].state = "LIVE")
    BY DEF SaveDraft, GuestProof
  <2> QED
    BY <1>2, <2>3, <2>4, <2>5, CommitRecords
<1> QED
  BY <1>3, <1>4 DEF SaveDraft

\* Submitting, under a key that is fresh; a renewed guest stays alive.
LEMMA SubmitRecords ==
    ASSUME RecordsConsistent, NEW o \in Owners, NEW k \in Keys, NEW s \in Sessions,
           NEW answers \in Sheets, NEW revision \in Nat, NEW latestNote \in Nat,
           NEW at \in Observed, Submit(o, k, s, answers, revision, latestNote, at)
    PROVE  OutcomesOfKnown' /\ ReplayableWithinRetention' /\ OneOutcomePerKey'
<1> DEFINE id == <<o, "STUDY_SUBMIT", k>>
           submittedAt == SubmittedAt(o, s, latestNote, at)
<1>1. TypeOK
  BY DEF RecordsConsistent, Consistent
<1>2. id \in RecordId /\ id[1] = o /\ at \in Nat
  BY <1>1, ObservedIsNat DEF RecordId, Operations, TypeOK
<1>3. CASE SubmitExpires(id, s, at)
  BY <1>2, <1>3, ExpiryRecords DEF SubmitExpires, Submit
<1>4. CASE SubmitApplies(id, o, s, answers, revision, latestNote, at)
  <2> DEFINE response == [answers |-> answers, revision |-> revision, at |-> submittedAt]
  <2>1. submittedAt \in Nat /\ at <= submittedAt
    BY <1>1, <1>2, SubmittedAtIsNat
  <2>2. response \in Response /\ at <= response.at
    BY <2>1 DEF Response
  <2>3. Fresh(id, at) /\ Commit(id, s, response)
    BY <1>4 DEF SubmitApplies, Submit
  <2>4. now' = now /\ (o \in Guests => guest[o].state = "LIVE")
    BY DEF Submit, GuestProof
  <2>5. \A g \in Guests : guest'[g].state = guest[g].state
    BY <1>1, <1>4 DEF SubmitApplies, TypeOK, GuestRow
  <2> QED
    BY <1>2, <2>2, <2>3, <2>4, <2>5, CommitRecords
<1> QED
  BY <1>3, <1>4 DEF Submit

\* Starting a session under a key that is fresh: retries and targeted reviews.
LEMMA StartedRecords ==
    ASSUME RecordsConsistent, NEW id \in RecordId, NEW s \in Sessions, NEW at \in Observed,
           id[1] \in Guests => guest[id[1]].state = "LIVE", Fresh(id, at),
           Commit(id, s, [answers |-> Blank, revision |-> 0, at |-> at]),
           UNCHANGED <<now, result, guest>>
    PROVE  OutcomesOfKnown' /\ ReplayableWithinRetention' /\ OneOutcomePerKey'
<1> DEFINE response == [answers |-> Blank, revision |-> 0, at |-> at]
<1>1. at \in Nat
  BY ObservedIsNat DEF RecordsConsistent, Consistent, TypeOK
<1>2. response \in Response /\ at <= response.at
  BY <1>1, SheetsAssumption DEF Response
<1> QED
  BY <1>2, CommitRecords

\* The clean-up job deletes records that have run out, or with their owner.
LEMMA CleanupRecords ==
    ASSUME RecordsConsistent, Cleanup
    PROVE  OutcomesOfKnown' /\ ReplayableWithinRetention' /\ OneOutcomePerKey'
<1>1. TypeOK /\ \A g \in Guests : guest[g].state \in {"UNUSED", "LIVE", "DELETED"}
  BY DEF RecordsConsistent, Consistent, TypeOK, GuestRow
<1>2. ASSUME NEW s \in Sessions, CleanDraft(s)
      PROVE  OutcomesOfKnown' /\ ReplayableWithinRetention' /\ OneOutcomePerKey'
  BY <1>1, <1>2, RecordsDropped DEF CleanDraft
<1>3. ASSUME NEW s \in Sessions, CleanSession(s)
      PROVE  OutcomesOfKnown' /\ ReplayableWithinRetention' /\ OneOutcomePerKey'
  <2>1. UNCHANGED <<now, guest, committed>>
    BY <1>3 DEF CleanSession
  <2>2. \A id \in RecordId : record'[id] = record[id] \/ record[id].expiresAt <= now
    BY <1>3 DEF CleanSession, ClosedSession, NoOpenReplay, WithoutSession
  <2> QED
    BY <1>1, <2>1, <2>2, RecordsDropped
<1>4. ASSUME NEW g \in Guests, CleanPrincipal(g)
      PROVE  OutcomesOfKnown' /\ ReplayableWithinRetention' /\ OneOutcomePerKey'
  <2>1. /\ UNCHANGED <<now, committed>>
        /\ guest' = [guest EXCEPT ![g].state = "DELETED"]
        /\ \A id \in RecordId : id[1] = g \/ record'[id] = record[id]
    BY <1>4 DEF CleanPrincipal
  <2>2. /\ guest'[g].state = "DELETED"
        /\ \A other \in Guests \ {g} : guest'[other] = guest[other]
    BY <1>1, <2>1 DEF TypeOK
  <2> QED
    BY <1>1, <2>1, <2>2, RecordsDropped
<1>5. ASSUME NEW id \in RecordId, CleanRecord(id)
      PROVE  OutcomesOfKnown' /\ ReplayableWithinRetention' /\ OneOutcomePerKey'
  <2>1. \A other \in RecordId : record'[other] = record[other] \/ record[other].expiresAt <= now
    BY <1>1, <1>5 DEF CleanRecord, ExpiredReplay, TypeOK
  <2> QED
    BY <1>1, <1>5, <2>1, RecordsDropped DEF CleanRecord
<1> QED
  BY <1>2, <1>3, <1>4, <1>5 DEF Cleanup

\* Clearing a guest deletes the guest's records with the guest.
LEMMA ClearRecords ==
    ASSUME RecordsConsistent, NEW g \in Guests, ClearGuest(g)
    PROVE  OutcomesOfKnown' /\ ReplayableWithinRetention' /\ OneOutcomePerKey'
<1>1. TypeOK /\ \A other \in Guests : guest[other].state \in {"UNUSED", "LIVE", "DELETED"}
  BY DEF RecordsConsistent, Consistent, TypeOK, GuestRow
<1>2. /\ UNCHANGED <<now, committed>>
      /\ \A id \in RecordId : id[1] = g \/ record'[id] = record[id]
  BY DEF ClearGuest
<1>3. /\ guest'[g].state = "DELETED"
      /\ \A other \in Guests \ {g} : guest'[other] = guest[other]
  BY <1>1 DEF ClearGuest, TypeOK
<1> QED
  BY <1>1, <1>2, <1>3, RecordsDropped

\* No step forgets an outcome within its retention, or admits a second one.
LEMMA NextRecords ==
    ASSUME RecordsConsistent, Next
    PROVE  OutcomesOfKnown' /\ ReplayableWithinRetention' /\ OneOutcomePerKey'
<1>1. TypeOK /\ OutcomesOfKnown /\ ReplayableWithinRetention /\ OneOutcomePerKey
  BY DEF RecordsConsistent, Consistent
<1>2. CASE Tick
  <2>1. now' = now + 1 /\ now \in Nat /\ UNCHANGED <<record, guest, committed>>
    BY <1>1, <1>2 DEF Tick, TypeOK
  <2>2. \A c \in committed : c.row.expiresAt \in Nat
    BY <1>1 DEF TypeOK, ReplayRow
  <2>3. ReplayableWithinRetention'
    BY <1>1, <2>1, <2>2 DEF ReplayableWithinRetention
  <2> QED
    BY <1>1, <2>1, <2>3 DEF OutcomesOfKnown, OneOutcomePerKey
<1>3. CASE ClientRequest
  <2> SUFFICES ASSUME NEW o \in Owners, NEW s \in Sessions, NEW at \in Observed,
                      ClientRequestOf(o, s, at)
               PROVE  OutcomesOfKnown' /\ ReplayableWithinRetention' /\ OneOutcomePerKey'
    BY <1>3 DEF ClientRequest
  <2>1. now + 1 \in Nat /\ \A revision \in 0..MaxRevision : revision \in Nat
    BY <1>1, ConstantsAreNat DEF TypeOK
  <2>2. \A g \in Guests : guest[g].state \in {"UNUSED", "LIVE", "DELETED"}
    BY <1>1 DEF TypeOK, GuestRow
  <2>3. CASE CreateSession(o, s, at)
    BY <2>3, CreateRecords
  <2>4. CASE GetSession(o, s, at) \/ GetDraft(o, s, at) \/ CancelSession(o, s, at)
    BY <2>2, <2>4, RecordsDropped DEF GetSession, GetDraft, ExpireOnRead, CancelSession
  <2>5. CASE \E k \in Keys, source \in Sessions : RetryMistakes(o, k, source, s, at)
    <3> PICK k \in Keys, source \in Sessions : RetryMistakes(o, k, source, s, at)
      BY <2>5
    <3> DEFINE id == <<o, "STUDY_RETRY_CREATE", k>>
    <3>1. id \in RecordId /\ id[1] = o
      BY DEF RecordId, Operations
    <3> QED
      BY <3>1, StartedRecords DEF RetryMistakes, GuestProof
  <2>6. CASE \E k \in Keys : TargetedReview(o, k, s, at)
    <3> PICK k \in Keys : TargetedReview(o, k, s, at)
      BY <2>6
    <3> DEFINE id == <<o, "STUDY_TARGETED_REVIEW_CREATE", k>>
    <3>1. id \in RecordId /\ id[1] \notin Guests
      BY OwnersAssumption DEF RecordId, Operations, TargetedReview
    <3> QED
      BY <3>1, StartedRecords DEF TargetedReview
  <2>7. CASE \E k \in Keys, answers \in Sheets, revision \in 0..MaxRevision :
                SaveDraft(o, k, s, answers, revision, at)
    BY <2>1, <2>7, SaveRecords
  <2>8. CASE \E k \in Keys, answers \in Sheets, revision \in 0..MaxRevision,
                latestNote \in {0, now + 1} :
                Submit(o, k, s, answers, revision, latestNote, at)
    BY <2>1, <2>8, SubmitRecords
  <2> QED
    BY <2>3, <2>4, <2>5, <2>6, <2>7, <2>8 DEF ClientRequestOf
<1>4. CASE Cleanup
  BY <1>4, CleanupRecords
<1>5. CASE \E g \in Guests : ClearGuest(g)
  BY <1>5, ClearRecords
<1> QED
  BY <1>2, <1>3, <1>4, <1>5 DEF Next

\* At the beginning nothing has been promised.
LEMMA InitRecordsConsistent == Init => RecordsConsistent
BY InitConsistent
DEF Init, RecordsConsistent, OutcomesOfKnown, ReplayableWithinRetention, OneOutcomePerKey

\* RecordsConsistent is inductive.
LEMMA NextRecordsConsistent == RecordsConsistent /\ [Next]_vars => RecordsConsistent'
<1> SUFFICES ASSUME RecordsConsistent, [Next]_vars PROVE RecordsConsistent'
  OBVIOUS
<1>1. Consistent'
  BY NextConsistent DEF RecordsConsistent
<1>2. CASE Next
  BY <1>1, <1>2, NextRecords DEF RecordsConsistent
<1>3. CASE UNCHANGED vars
  BY <1>1, <1>3
  DEF vars, RecordsConsistent, OutcomesOfKnown, ReplayableWithinRetention, OneOutcomePerKey
<1> QED
  BY <1>2, <1>3

\* A client that lost the answer to a save, a submission, a retry or a targeted review
\* can have it again with the same key until the retention has run out, as long as its
\* credential lives: neither a handler nor the clean-up job removes the record before.
THEOREM OutcomesReplayable == Spec => []ReplayableWithinRetention
<1>1. RecordsConsistent => ReplayableWithinRetention
  BY DEF RecordsConsistent
<1> QED
  BY InitRecordsConsistent, NextRecordsConsistent, <1>1, PTL DEF Spec

\* Two outcomes under one key are apart by the retention of the first, up to the lag of
\* a handler's clock: a request is never carried out twice while it can be replayed.
THEOREM OutcomesUnique == Spec => []OneOutcomePerKey
<1>1. RecordsConsistent => OneOutcomePerKey
  BY DEF RecordsConsistent
<1> QED
  BY InitRecordsConsistent, NextRecordsConsistent, <1>1, PTL DEF Spec

(***************************************************************************)
(* Sessions are graded once, and a retry keeps its source.                 *)
(***************************************************************************)

\* Closed for good, as far as submitting goes.
Over(s) == session[s].status \in {"SUBMITTED", "DELETED"}

Submissions(s) == OutcomesOf("STUDY_SUBMIT", s)

\* A session that was submitted under any key is over: this is why a second key finds
\* nothing to submit.
SubmittedMeansOver == \A s \in Sessions : Submissions(s) # {} => Over(s)

SessionsConsistent ==
    Consistent /\ SubmittedMeansOver /\ OneSubmissionPerSession /\ LineageKept

(***************************************************************************)
(* One submission.                                                         *)
(***************************************************************************)

\* Steps that submit nothing, reopen nothing and at most delete results.
LEMMA NoSubmission ==
    ASSUME SessionsConsistent,
           \A s \in Sessions : Submissions(s)' = Submissions(s),
           \A s \in Sessions : result'[s] = result[s] \/ result'[s] = None,
           \A s \in Sessions : Over(s) => Over(s)'
    PROVE  SubmittedMeansOver' /\ OneSubmissionPerSession'
BY DEF SessionsConsistent, SubmittedMeansOver, OneSubmissionPerSession, Submissions

\* Outcomes of other operations are not submissions.
LEMMA OtherOutcome ==
    ASSUME NEW id, id[2] # "STUDY_SUBMIT", NEW s, NEW response, Commit(id, s, response)
    PROVE  \A r \in Sessions : Submissions(r)' = Submissions(r)
<1>1. PICK row : committed' = committed \cup {[id |-> id, row |-> row]}
  BY DEF Commit
<1> QED
  BY <1>1 DEF Submissions, OutcomesOf

\* A step that commits nothing and leaves the results alone.
LEMMA QuietStep ==
    ASSUME SessionsConsistent, UNCHANGED <<result, committed>>,
           \A s \in Sessions : Over(s) => Over(s)'
    PROVE  SubmittedMeansOver' /\ OneSubmissionPerSession'
BY NoSubmission DEF Submissions, OutcomesOf

(***************************************************************************)
(* Lineage.                                                                *)
(***************************************************************************)

\* Live sessions keep their source, new ones have none or a submitted one of the same
\* owner, and a source that a live session retries is left alone.
LEMMA LineageStep ==
    ASSUME TypeOK, LineageKept,
           \A r \in Sessions : session'[r].status \in Live =>
               \/ /\ session[r].status \in Live
                  /\ session'[r].retryOf = session[r].retryOf
                  /\ session'[r].owner = session[r].owner
               \/ session'[r].retryOf = None
               \/ /\ session'[r].retryOf \in Sessions
                  /\ session[session'[r].retryOf].status = "SUBMITTED"
                  /\ session[session'[r].retryOf].owner = session'[r].owner,
           \A r, x \in Sessions :
               (/\ session'[r].status \in Live /\ session'[r].retryOf = x
                /\ session[x].status = "SUBMITTED" /\ session[x].owner = session'[r].owner)
               => session'[x].status = "SUBMITTED" /\ session'[x].owner = session[x].owner
    PROVE  LineageKept'
<1> SUFFICES ASSUME NEW r \in Sessions, session'[r].status \in Live, session'[r].retryOf # None
             PROVE  /\ session'[session'[r].retryOf].status = "SUBMITTED"
                    /\ session'[session'[r].retryOf].owner = session'[r].owner
  BY DEF LineageKept
<1> DEFINE x == session'[r].retryOf
<1>1. /\ x \in Sessions
      /\ session[x].status = "SUBMITTED"
      /\ session[x].owner = session'[r].owner
  BY DEF LineageKept, TypeOK, SessionRow
<1> QED
  BY <1>1

\* The step leaves of every session its owner and source, and of all but s its status.
OnlyStatusChanges(s) ==
    \A r \in Sessions : /\ session'[r].retryOf = session[r].retryOf
                        /\ session'[r].owner = session[r].owner
                        /\ r # s => session'[r].status = session[r].status

\* A change of a session that is in progress is no change of a source.
LEMMA InProgressLineage ==
    ASSUME TypeOK, LineageKept, NEW s \in Sessions,
           session[s].status \in {"IN_PROGRESS", "EXPIRED"}, OnlyStatusChanges(s)
    PROVE  LineageKept'
  BY LineageStep DEF Live, OnlyStatusChanges

\* A new session comes from nowhere or from a submitted session of its owner.
LEMMA StartedLineage ==
    ASSUME TypeOK, LineageKept, NEW o, NEW s \in Sessions, session[s].status = "UNUSED",
           NEW source \in Sessions \cup {None}, NEW at, NEW expiresAt,
           source # None => session[source].status = "SUBMITTED" /\ session[source].owner = o,
           Started(o, s, source, at, expiresAt)
    PROVE  LineageKept'
<1>1. /\ session'[s].retryOf = source /\ session'[s].owner = o
      /\ \A r \in Sessions \ {s} : session'[r] = session[r]
  BY DEF Started, TypeOK
<1> QED
  BY <1>1, LineageStep

(***************************************************************************)
(* Both, for every step.                                                   *)
(***************************************************************************)

\* A due session in progress expires.
LEMMA ExpiredSessions ==
    ASSUME SessionsConsistent, NEW s \in Sessions, InProgress(s), Expired(s),
           UNCHANGED <<result, committed>>
    PROVE  SubmittedMeansOver' /\ OneSubmissionPerSession' /\ LineageKept'
<1>1. TypeOK /\ LineageKept
  BY DEF SessionsConsistent, Consistent
<1>2. session' = [session EXCEPT ![s].status = "EXPIRED"]
  BY DEF Expired
<1>3. \A r \in Sessions : Over(r) => Over(r)'
  BY <1>1, <1>2 DEF Over, InProgress, TypeOK, SessionRow
<1>4. OnlyStatusChanges(s)
  BY <1>1, <1>2 DEF OnlyStatusChanges, TypeOK, SessionRow
<1> QED
  BY <1>1, <1>3, <1>4, QuietStep, InProgressLineage DEF InProgress

\* A session is created.
LEMMA StartedSessions ==
    ASSUME SessionsConsistent, NEW o, NEW s \in Sessions, session[s].status = "UNUSED",
           NEW source \in Sessions \cup {None}, NEW at, NEW expiresAt,
           source # None => session[source].status = "SUBMITTED" /\ session[source].owner = o,
           Started(o, s, source, at, expiresAt), UNCHANGED result,
           \A r \in Sessions : Submissions(r)' = Submissions(r)
    PROVE  SubmittedMeansOver' /\ OneSubmissionPerSession' /\ LineageKept'
<1>1. TypeOK /\ LineageKept
  BY DEF SessionsConsistent, Consistent
<1>2. \A r \in Sessions : Over(r) => Over(r)'
  BY <1>1 DEF Over, Started, TypeOK
<1> QED
  BY <1>1, <1>2, NoSubmission, StartedLineage

\* A save leaves the session as it is.
LEMMA SaveSessions ==
    ASSUME SessionsConsistent, NEW o \in Owners, NEW k \in Keys, NEW s \in Sessions,
           NEW answers \in Sheets, NEW revision, NEW at, SaveDraft(o, k, s, answers, revision, at)
    PROVE  SubmittedMeansOver' /\ OneSubmissionPerSession' /\ LineageKept'
<1> DEFINE id == <<o, "STUDY_DRAFT_SAVE", k>>
<1>1. CASE SaveExpires(id, s, at)
  BY <1>1, ExpiredSessions DEF SaveExpires, SaveDraft
<1>2. CASE SaveApplies(id, s, answers, revision, at)
  <2>1. UNCHANGED <<session, result>>
    BY <1>2 DEF SaveApplies, SaveDraft
  <2>2. \A r \in Sessions : Submissions(r)' = Submissions(r)
    BY <1>2, OtherOutcome DEF SaveApplies
  <2> QED
    BY <2>1, <2>2, NoSubmission DEF SessionsConsistent, LineageKept, Over
<1> QED
  BY <1>1, <1>2 DEF SaveDraft

\* A submission is the first of its session, and stores what it answers.
LEMMA SubmitSessions ==
    ASSUME SessionsConsistent, NEW o \in Owners, NEW k \in Keys, NEW s \in Sessions,
           NEW answers \in Sheets, NEW revision, NEW latestNote, NEW at,
           Submit(o, k, s, answers, revision, latestNote, at)
    PROVE  SubmittedMeansOver' /\ OneSubmissionPerSession' /\ LineageKept'
<1> DEFINE id == <<o, "STUDY_SUBMIT", k>>
           submittedAt == SubmittedAt(o, s, latestNote, at)
<1>1. /\ TypeOK /\ LineageKept /\ OneSubmissionPerSession /\ SubmittedMeansOver
      /\ InProgress(s)
  BY DEF SessionsConsistent, Consistent, Submit
<1>2. CASE SubmitExpires(id, s, at)
  BY <1>1, <1>2, ExpiredSessions DEF SubmitExpires
<1>3. CASE SubmitApplies(id, o, s, answers, revision, latestNote, at)
  <2> DEFINE response == [answers |-> answers, revision |-> revision, at |-> submittedAt]
             new == [id |-> id,
                     row |-> [session |-> s, response |-> response,
                              expiresAt |-> response.at + Retention(id[2])]]
  <2>1. /\ committed' = committed \cup {new}
        /\ session' = [session EXCEPT ![s].status = "SUBMITTED"]
        /\ result' = [result EXCEPT ![s] = [answers |-> answers, revision |-> revision,
                                            submittedAt |-> submittedAt]]
    BY <1>3 DEF SubmitApplies, Commit
  <2>2. Submissions(s) = {}
    BY <1>1 DEF SubmittedMeansOver, Over, InProgress
  <2>3. Submissions(s)' = {new}
    BY <2>1, <2>2 DEF Submissions, OutcomesOf
  <2>4. \A r \in Sessions \ {s} : Submissions(r)' = Submissions(r)
    BY <2>1 DEF Submissions, OutcomesOf
  <2>5. \A r \in Sessions : IF r = s THEN Over(r)' ELSE Over(r)' <=> Over(r)
    BY <1>1, <2>1 DEF Over, TypeOK, SessionRow
  <2>6. SubmittedMeansOver'
    BY <1>1, <2>4, <2>5 DEF SubmittedMeansOver
  <2>7. /\ result'[s].answers = answers /\ result'[s].submittedAt = submittedAt
        /\ \A r \in Sessions \ {s} : result'[r] = result[r]
    BY <1>1, <2>1 DEF TypeOK
  <2>8. OneSubmissionPerSession'
    <3> SUFFICES ASSUME NEW r \in Sessions
                 PROVE  /\ \A c, d \in Submissions(r)' : c = d
                        /\ result'[r] # None =>
                             \E c \in Submissions(r)' :
                                 /\ c.row.response.answers = result'[r].answers
                                 /\ c.row.response.at = result'[r].submittedAt
      BY DEF OneSubmissionPerSession, Submissions
    <3>1. CASE r = s
      <4>1. /\ new \in Submissions(r)'
            /\ new.row.response.answers = answers
            /\ new.row.response.at = submittedAt
        BY <2>3, <3>1
      <4> QED
        BY <2>3, <2>7, <3>1, <4>1
    <3>2. CASE r # s
      BY <1>1, <2>4, <2>7, <3>2 DEF OneSubmissionPerSession, Submissions
    <3> QED
      BY <3>1, <3>2
  <2>9. session[s].status \in {"IN_PROGRESS", "EXPIRED"}
    BY <1>1 DEF InProgress
  <2>10. LineageKept'
    <3>1. OnlyStatusChanges(s)
      BY <1>1, <2>1 DEF OnlyStatusChanges, TypeOK, SessionRow
    <3> QED
      BY <1>1, <2>9, <3>1, InProgressLineage
  <2> QED
    BY <2>6, <2>8, <2>10
<1> QED
  BY <1>2, <1>3 DEF Submit

\* Clearing a guest deletes all sessions of the guest, and with them whole lineages.
LEMMA ClearSessions ==
    ASSUME SessionsConsistent, NEW g \in Guests, ClearGuest(g)
    PROVE  SubmittedMeansOver' /\ OneSubmissionPerSession' /\ LineageKept'
<1>1. TypeOK /\ LineageKept
  BY DEF SessionsConsistent, Consistent
<1>2. \A r \in Sessions :
        /\ Owned(g, r) => session'[r].status = "DELETED"
        /\ ~Owned(g, r) => session'[r] = session[r]
        /\ session'[r].owner = session[r].owner
        /\ session'[r].retryOf = session[r].retryOf
  BY <1>1 DEF ClearGuest, TypeOK, SessionRow
<1>3. \A r \in Sessions : Over(r) => Over(r)'
  BY <1>2 DEF Over
<1>4. \A r \in Sessions : result'[r] = result[r] \/ result'[r] = None
  BY DEF ClearGuest
<1>5. \A r \in Sessions : Submissions(r)' = Submissions(r)
  BY DEF ClearGuest, Submissions, OutcomesOf
<1>6. LineageKept'
  BY <1>1, <1>2, LineageStep DEF Owned, Live
<1> QED
  BY <1>3, <1>4, <1>5, <1>6, NoSubmission

\* The clean-up job deletes no session that another one retries.
LEMMA CleanupSessions ==
    ASSUME SessionsConsistent, Cleanup
    PROVE  SubmittedMeansOver' /\ OneSubmissionPerSession' /\ LineageKept'
<1>1. TypeOK /\ LineageKept
  BY DEF SessionsConsistent, Consistent
<1>2. ASSUME NEW s \in Sessions, CleanDraft(s)
      PROVE  SubmittedMeansOver' /\ OneSubmissionPerSession' /\ LineageKept'
  <2>1. /\ session[s].status \in {"IN_PROGRESS", "EXPIRED"}
        /\ session' = [session EXCEPT ![s].status = "EXPIRED"]
        /\ UNCHANGED <<result, committed>>
    BY <1>2 DEF CleanDraft, DraftSession
  <2>2. \A r \in Sessions : Over(r) => Over(r)'
    BY <1>1, <2>1 DEF Over, TypeOK, SessionRow
  <2>3. OnlyStatusChanges(s)
    BY <1>1, <2>1 DEF OnlyStatusChanges, TypeOK, SessionRow
  <2>4. LineageKept'
    BY <1>1, <2>1, <2>3, InProgressLineage
  <2> QED
    BY <1>1, <2>1, <2>2, <2>4, QuietStep
<1>3. ASSUME NEW s \in Sessions, CleanSession(s)
      PROVE  SubmittedMeansOver' /\ OneSubmissionPerSession' /\ LineageKept'
  <2>1. /\ session' = [session EXCEPT ![s].status = "DELETED"]
        /\ result' = [result EXCEPT ![s] = None]
        /\ committed' = committed
        /\ \A r \in Sessions : session[r].status \in Live => session[r].retryOf # s
    BY <1>3 DEF CleanSession, ClosedSession, NoOpenReplay
  <2>2. \A r \in Sessions :
          /\ r # s => session'[r] = session[r]
          /\ r = s => session'[r].status = "DELETED"
    BY <1>1, <2>1 DEF TypeOK, SessionRow
  <2>3. \A r \in Sessions : Over(r) => Over(r)'
    BY <2>2 DEF Over
  <2>4. \A r \in Sessions : result'[r] = result[r] \/ result'[r] = None
    BY <1>1, <2>1 DEF TypeOK
  <2>5. \A r \in Sessions : Submissions(r)' = Submissions(r)
    BY <2>1 DEF Submissions, OutcomesOf
  <2>6. LineageKept'
    BY <1>1, <2>1, <2>2, LineageStep DEF Live
  <2> QED
    BY <2>3, <2>4, <2>5, <2>6, NoSubmission
<1>4. CASE \/ \E g \in Guests : CleanPrincipal(g)
           \/ \E id \in RecordId : CleanRecord(id)
  <2>1. UNCHANGED <<session, result, committed>>
    BY <1>4 DEF CleanPrincipal, CleanRecord
  <2> QED
    BY <1>1, <2>1, QuietStep DEF LineageKept, Over
<1> QED
  BY <1>2, <1>3, <1>4 DEF Cleanup

\* No step grades a session again or takes a source away.
LEMMA NextSessions ==
    ASSUME SessionsConsistent, Next
    PROVE  SubmittedMeansOver' /\ OneSubmissionPerSession' /\ LineageKept'
<1>1. TypeOK /\ LineageKept
  BY DEF SessionsConsistent, Consistent
<1>2. CASE Tick
  BY <1>1, <1>2, QuietStep DEF Tick, LineageKept, Over
<1>3. CASE ClientRequest
  <2> SUFFICES ASSUME NEW o \in Owners, NEW s \in Sessions, NEW at \in Observed,
                      ClientRequestOf(o, s, at)
               PROVE  SubmittedMeansOver' /\ OneSubmissionPerSession' /\ LineageKept'
    BY <1>3 DEF ClientRequest
  <2>1. CASE CreateSession(o, s, at)
    <3>1. UNCHANGED result /\ \A r \in Sessions : Submissions(r)' = Submissions(r)
      BY <2>1 DEF CreateSession, Submissions, OutcomesOf
    <3>2. session[s].status = "UNUSED" /\ \E expiresAt : Started(o, s, None, at, expiresAt)
      BY <2>1 DEF CreateSession, CreateForUser, CreateForGuest, CreateForNewGuest
    <3> QED
      BY <3>1, <3>2, StartedSessions
  <2>2. CASE GetSession(o, s, at) \/ GetDraft(o, s, at)
    BY <2>2, ExpiredSessions DEF GetSession, GetDraft, ExpireOnRead
  <2>3. CASE CancelSession(o, s, at)
    <3>1. InProgress(s) /\ UNCHANGED <<result, committed>>
      BY <2>3 DEF CancelSession
    <3>2. CASE Expired(s)
      BY <3>1, <3>2, ExpiredSessions
    <3>3. CASE CancelApplies(s)
      <4>1. session' = [session EXCEPT ![s].status = "CANCELLED"]
        BY <3>3 DEF CancelApplies
      <4>2. \A r \in Sessions : Over(r) => Over(r)'
        BY <1>1, <3>1, <4>1 DEF Over, InProgress, TypeOK, SessionRow
      <4>3. session[s].status \in {"IN_PROGRESS", "EXPIRED"}
        BY <3>1 DEF InProgress
      <4>4. OnlyStatusChanges(s)
        BY <1>1, <4>1 DEF OnlyStatusChanges, TypeOK, SessionRow
      <4>5. LineageKept'
        BY <1>1, <4>3, <4>4, InProgressLineage
      <4> QED
        BY <1>1, <3>1, <4>2, <4>5, QuietStep
    <3> QED
      BY <2>3, <3>2, <3>3 DEF CancelSession
  <2>4. CASE \E k \in Keys, source \in Sessions : RetryMistakes(o, k, source, s, at)
    <3> PICK k \in Keys, source \in Sessions : RetryMistakes(o, k, source, s, at)
      BY <2>4
    <3>1. \A r \in Sessions : Submissions(r)' = Submissions(r)
      BY OtherOutcome DEF RetryMistakes
    <3> QED
      BY <3>1, StartedSessions DEF RetryMistakes, Owned
  <2>5. CASE \E k \in Keys : TargetedReview(o, k, s, at)
    <3> PICK k \in Keys : TargetedReview(o, k, s, at)
      BY <2>5
    <3>1. \A r \in Sessions : Submissions(r)' = Submissions(r)
      BY OtherOutcome DEF TargetedReview
    <3> QED
      BY <3>1, StartedSessions DEF TargetedReview
  <2>6. CASE \E k \in Keys, answers \in Sheets, revision \in 0..MaxRevision :
                SaveDraft(o, k, s, answers, revision, at)
    BY <2>6, SaveSessions
  <2>7. CASE \E k \in Keys, answers \in Sheets, revision \in 0..MaxRevision,
                latestNote \in {0, now + 1} :
                Submit(o, k, s, answers, revision, latestNote, at)
    BY <2>7, SubmitSessions
  <2> QED
    BY <2>1, <2>2, <2>3, <2>4, <2>5, <2>6, <2>7 DEF ClientRequestOf
<1>4. CASE Cleanup
  BY <1>4, CleanupSessions
<1>5. CASE \E g \in Guests : ClearGuest(g)
  BY <1>5, ClearSessions
<1> QED
  BY <1>2, <1>3, <1>4, <1>5 DEF Next

\* At the beginning there is no session.
LEMMA InitSessionsConsistent == Init => SessionsConsistent
BY InitConsistent
DEF Init, SessionsConsistent, SubmittedMeansOver, OneSubmissionPerSession, LineageKept,
    Submissions, OutcomesOf, Live

\* SessionsConsistent is inductive.
LEMMA NextSessionsConsistent == SessionsConsistent /\ [Next]_vars => SessionsConsistent'
<1> SUFFICES ASSUME SessionsConsistent, [Next]_vars PROVE SessionsConsistent'
  OBVIOUS
<1>1. Consistent'
  BY NextConsistent DEF SessionsConsistent
<1>2. CASE Next
  BY <1>1, <1>2, NextSessions DEF SessionsConsistent
<1>3. CASE UNCHANGED vars
  BY <1>1, <1>3, QuietStep DEF vars, SessionsConsistent, LineageKept, Over
<1> QED
  BY <1>2, <1>3

\* A session is graded at most once, whatever the number of tabs, keys and repetitions,
\* even after its record has run out, and the stored result is what was answered.
THEOREM GradedOnce == Spec => []OneSubmissionPerSession
<1>1. SessionsConsistent => OneSubmissionPerSession
  BY DEF SessionsConsistent
<1> QED
  BY InitSessionsConsistent, NextSessionsConsistent, <1>1, PTL DEF Spec

\* A retry never loses the submitted session it came from, and never belongs to another
\* owner: the database's foreign key, which has no cascade, is never in the way.
THEOREM RetriesKeepSource == Spec => []LineageKept
<1>1. SessionsConsistent => LineageKept
  BY DEF SessionsConsistent
<1> QED
  BY InitSessionsConsistent, NextSessionsConsistent, <1>1, PTL DEF Spec

(***************************************************************************)
(* Saves.                                                                  *)
(***************************************************************************)

Saves(s) == OutcomesOf("STUDY_DRAFT_SAVE", s)

\* The parts of NoLostUpdate.
LastSaved(s, row) ==
    /\ row.revision = Cardinality(Saves(s))
    /\ \/ row.revision = 0 /\ row.answers = Blank
       \/ \E c \in Saves(s) : /\ c.row.response.revision = row.revision
                              /\ c.row.response.answers = row.answers

NothingLost(s) ==
    /\ \A c, d \in Saves(s) : c.row.response.revision = d.row.response.revision => c = d
    /\ draft[s] # None => LastSaved(s, draft[s])
    /\ result[s] # None => LastSaved(s, result[s])

\* NoLostUpdate is the promise that nothing is lost of any session.
LEMMA NoLostUpdateParts == NoLostUpdate <=> \A s \in Sessions : NothingLost(s)
BY DEF NoLostUpdate, NothingLost, LastSaved, Saves

\* Every save has its own revision, from 1 to their number, and a session that was never
\* used has none: the next revision is a new one.
Numbered(s) ==
    /\ IsFiniteSet(Saves(s))
    /\ \A c \in Saves(s) : c.row.response.revision <= Cardinality(Saves(s))
    /\ session[s].status = "UNUSED" => Saves(s) = {}

DraftsConsistent == Consistent /\ \A s \in Sessions : Numbered(s) /\ NothingLost(s)

\* What a step has to keep of session s.
Kept(s) == Numbered(s)' /\ NothingLost(s)'

\* A step that does not save, start or submit session s: at most it deletes rows.
LEMMA Untouched ==
    ASSUME DraftsConsistent, NEW s \in Sessions, Saves(s)' = Saves(s),
           draft'[s] = draft[s] \/ draft'[s] = None,
           result'[s] = result[s] \/ result'[s] = None,
           session'[s].status = "UNUSED" => session[s].status = "UNUSED"
    PROVE  Kept(s)
<1>1. Numbered(s) /\ NothingLost(s)
  BY DEF DraftsConsistent
<1>2. Cardinality(Saves(s))' = Cardinality(Saves(s))
  OBVIOUS
<1>3. Numbered(s)'
  BY <1>1, <1>2 DEF Numbered
<1>4. NothingLost(s)'
  BY <1>1, <1>2 DEF NothingLost, LastSaved
<1> QED
  BY <1>3, <1>4 DEF Kept

\* Outcomes of other operations, and of other sessions, are not saves of this one.
LEMMA OtherSaves ==
    ASSUME NEW id, NEW s, NEW response, Commit(id, s, response), NEW r,
           id[2] # "STUDY_DRAFT_SAVE" \/ r # s
    PROVE  Saves(r)' = Saves(r)
<1> DEFINE new == [id |-> id, row |-> [session |-> s, response |-> response,
                                       expiresAt |-> response.at + Retention(id[2])]]
<1>1. committed' = committed \cup {new}
  BY DEF Commit
<1>2. new.id[2] # "STUDY_DRAFT_SAVE" \/ new.row.session # r
  OBVIOUS
<1> QED
  BY <1>1, <1>2 DEF Saves, OutcomesOf

\* A step that commits no outcome commits no save.
LEMMA SameSaves ==
    ASSUME committed' = committed
    PROVE  \A r \in Sessions : Saves(r)' = Saves(r)
BY DEF Saves, OutcomesOf

\* A session starts at revision 0, before its first save.
LEMMA StartedDrafts ==
    ASSUME DraftsConsistent, NEW o, NEW s \in Sessions, session[s].status = "UNUSED",
           NEW source, NEW at, NEW expiresAt, Started(o, s, source, at, expiresAt),
           UNCHANGED result, \A r \in Sessions : Saves(r)' = Saves(r)
    PROVE  \A r \in Sessions : Kept(r)
<1> SUFFICES ASSUME NEW r \in Sessions PROVE Kept(r)
  OBVIOUS
<1>1. TypeOK /\ RowsAgree /\ Numbered(r) /\ NothingLost(r)
  BY DEF DraftsConsistent, Consistent
<1>2. CASE r = s
  <2>1. Saves(s)' = {} /\ Cardinality({}) = 0 /\ IsFiniteSet({})
    BY <1>1, <1>2, FS_EmptySet DEF Numbered
  <2>2. draft'[s].revision = 0 /\ draft'[s].answers = Blank /\ result'[s] = None
    BY <1>1, <1>2 DEF Started, TypeOK, RowsAgree
  <2> QED
    BY <1>2, <2>1, <2>2 DEF Kept, Numbered, NothingLost, LastSaved
<1>3. CASE r # s
  <2>1. session'[r] = session[r] /\ draft'[r] = draft[r]
    BY <1>1, <1>3 DEF Started, TypeOK
  <2> QED
    BY <2>1, Untouched
<1> QED
  BY <1>2, <1>3

\* A session that expires keeps its draft as it is or loses it.
LEMMA ExpiredDrafts ==
    ASSUME DraftsConsistent, NEW s \in Sessions, Expired(s), UNCHANGED <<result, committed>>
    PROVE  \A r \in Sessions : Kept(r)
<1> SUFFICES ASSUME NEW r \in Sessions PROVE Kept(r)
  OBVIOUS
<1>1. TypeOK
  BY DEF DraftsConsistent, Consistent
<1>2. draft'[r] = draft[r] \/ draft'[r] = None
  BY <1>1 DEF Expired, TypeOK
<1>3. session'[r].status = "UNUSED" => session[r].status = "UNUSED"
  BY <1>1 DEF Expired, TypeOK, SessionRow
<1> QED
  BY <1>2, <1>3, SameSaves, Untouched

\* A save counts the revision on and becomes the last one.
LEMMA SaveDrafts ==
    ASSUME DraftsConsistent, NEW o \in Owners, NEW k \in Keys, NEW s \in Sessions,
           NEW answers \in Sheets, NEW revision \in Nat, NEW at \in Nat,
           SaveDraft(o, k, s, answers, revision, at)
    PROVE  \A r \in Sessions : Kept(r)
<1> DEFINE id == <<o, "STUDY_DRAFT_SAVE", k>>
<1>1. /\ TypeOK /\ RowsAgree
      /\ \A r \in Sessions : Numbered(r) /\ NothingLost(r)
  BY DEF DraftsConsistent, Consistent
<1>2. CASE SaveExpires(id, s, at)
  BY <1>2, ExpiredDrafts DEF SaveExpires, SaveDraft
<1>3. CASE SaveApplies(id, s, answers, revision, at)
  <2> DEFINE savedAt == Later(at, draft[s].updatedAt + 1)
             response == [answers |-> answers, revision |-> revision + 1, at |-> savedAt]
             new == [id |-> id, row |-> [session |-> s, response |-> response,
                                         expiresAt |-> response.at + Retention(id[2])]]
  <2>1. /\ Commit(id, s, response)
        /\ session' = session /\ result' = result
        /\ draft[s].revision = revision
        /\ InProgress(s)
        /\ draft' = [draft EXCEPT ![s] = [revision |-> revision + 1, answers |-> answers,
                                          updatedAt |-> savedAt]]
    BY <1>3 DEF SaveApplies, SaveDraft
  <2>2. draft[s] # None /\ result[s] = None
    BY <1>1, <2>1 DEF RowsAgree, InProgress
  <2>3. revision = Cardinality(Saves(s)) /\ IsFiniteSet(Saves(s))
    BY <1>1, <2>1, <2>2 DEF NothingLost, LastSaved, Numbered
  <2>4. Saves(s)' = Saves(s) \cup {new}
    <3>1. committed' = committed \cup {new}
      BY <2>1 DEF Commit
    <3>2. new.id[2] = "STUDY_DRAFT_SAVE" /\ new.row.session = s
      OBVIOUS
    <3> QED
      BY <3>1, <3>2 DEF Saves, OutcomesOf
  <2>5. new.row.response.revision = revision + 1 /\ new.row.response.answers = answers
    OBVIOUS
  <2>6. \A c \in Saves(s) : /\ c.row.response.revision \in Nat
                            /\ c.row.response.revision <= revision
    BY <1>1, <2>3 DEF Numbered, Saves, OutcomesOf, TypeOK, ReplayRow, Response
  <2>7. new \notin Saves(s)
    BY <2>5, <2>6
  <2>8. /\ Cardinality(Saves(s) \cup {new}) = revision + 1
        /\ IsFiniteSet(Saves(s) \cup {new})
    BY <2>3, <2>7, FS_AddElement
  <2>9. Kept(s)
    <3> HIDE DEF new, response, savedAt, id
    <3>1. Numbered(s)'
      <4>1. session'[s].status # "UNUSED"
        BY <2>1 DEF InProgress
      <4>2. \A c \in Saves(s)' : c.row.response.revision <= revision + 1
        BY <2>4, <2>5, <2>6
      <4> QED
        BY <2>4, <2>8, <4>1, <4>2 DEF Numbered
    <3>2. \A c, d \in Saves(s)' : c.row.response.revision = d.row.response.revision => c = d
      BY <1>1, <2>4, <2>5, <2>6 DEF NothingLost
    <3>3. draft'[s].revision = revision + 1 /\ draft'[s].answers = answers /\ result'[s] = None
      BY <1>1, <2>1, <2>2 DEF TypeOK
    <3>4. new \in Saves(s)' /\ Cardinality(Saves(s))' = revision + 1
      BY <2>4, <2>8
    <3> QED
      BY <2>5, <3>1, <3>2, <3>3, <3>4 DEF Kept, NothingLost, LastSaved
  <2>10. ASSUME NEW r \in Sessions \ {s} PROVE Kept(r)
    <3>1. Saves(r)' = Saves(r)
      BY <2>1, OtherSaves
    <3>2. draft'[r] = draft[r]
      BY <1>1, <2>1 DEF TypeOK
    <3> QED
      BY <2>1, <3>1, <3>2, Untouched
  <2> QED
    BY <2>9, <2>10
<1> QED
  BY <1>2, <1>3 DEF SaveDraft

\* A submission grades the draft it deletes, which is the last save.
LEMMA SubmitDrafts ==
    ASSUME DraftsConsistent, NEW o \in Owners, NEW k \in Keys, NEW s \in Sessions,
           NEW answers \in Sheets, NEW revision, NEW latestNote, NEW at,
           Submit(o, k, s, answers, revision, latestNote, at)
    PROVE  \A r \in Sessions : Kept(r)
<1> DEFINE id == <<o, "STUDY_SUBMIT", k>>
           submittedAt == SubmittedAt(o, s, latestNote, at)
           response == [answers |-> answers, revision |-> revision, at |-> submittedAt]
<1>1. /\ TypeOK /\ RowsAgree /\ InProgress(s)
      /\ \A r \in Sessions : Numbered(r) /\ NothingLost(r)
  BY DEF DraftsConsistent, Consistent, Submit
<1>2. CASE SubmitExpires(id, s, at)
  BY <1>2, ExpiredDrafts DEF SubmitExpires
<1>3. CASE SubmitApplies(id, o, s, answers, revision, latestNote, at)
  <2>1. /\ Commit(id, s, response)
        /\ draft[s].revision = revision /\ draft[s].answers = answers
        /\ session' = [session EXCEPT ![s].status = "SUBMITTED"]
        /\ draft' = [draft EXCEPT ![s] = None]
        /\ result' = [result EXCEPT ![s] = [answers |-> answers, revision |-> revision,
                                            submittedAt |-> submittedAt]]
    BY <1>3 DEF SubmitApplies
  <2>2. \A r \in Sessions : Saves(r)' = Saves(r)
    BY <2>1, OtherSaves
  <2>3. LastSaved(s, draft[s])
    BY <1>1 DEF RowsAgree, NothingLost
  <2>4. /\ result'[s].revision = revision /\ result'[s].answers = answers
        /\ draft'[s] = None /\ session'[s].status = "SUBMITTED"
    BY <1>1, <2>1 DEF TypeOK, SessionRow
  <2>5. Kept(s)
    <3>1. Cardinality(Saves(s))' = Cardinality(Saves(s))
      BY <2>2
    <3>2. Numbered(s)'
      BY <1>1, <2>2, <2>4, <3>1 DEF Numbered
    <3>3. NothingLost(s)'
      BY <1>1, <2>1, <2>2, <2>3, <2>4, <3>1 DEF NothingLost, LastSaved
    <3> QED
      BY <3>2, <3>3 DEF Kept
  <2>6. ASSUME NEW r \in Sessions \ {s} PROVE Kept(r)
    <3>1. session'[r] = session[r] /\ draft'[r] = draft[r] /\ result'[r] = result[r]
      BY <1>1, <2>1 DEF TypeOK
    <3> QED
      BY <2>2, <3>1, Untouched
  <2> QED
    BY <2>5, <2>6
<1> QED
  BY <1>2, <1>3 DEF Submit

\* The clean-up job deletes drafts and results, but changes none.
LEMMA CleanupDrafts ==
    ASSUME DraftsConsistent, Cleanup
    PROVE  \A r \in Sessions : Kept(r)
<1> SUFFICES ASSUME NEW r \in Sessions PROVE Kept(r)
  OBVIOUS
<1>1. TypeOK
  BY DEF DraftsConsistent, Consistent
<1>2. /\ committed' = committed
      /\ draft'[r] = draft[r] \/ draft'[r] = None
      /\ result'[r] = result[r] \/ result'[r] = None
      /\ session'[r].status = "UNUSED" => session[r].status = "UNUSED"
  BY <1>1
  DEF Cleanup, CleanDraft, CleanSession, CleanPrincipal, CleanRecord, TypeOK, SessionRow
<1> QED
  BY <1>2, SameSaves, Untouched

\* Clearing a guest does no more.
LEMMA ClearDrafts ==
    ASSUME DraftsConsistent, NEW g \in Guests, ClearGuest(g)
    PROVE  \A r \in Sessions : Kept(r)
<1> SUFFICES ASSUME NEW r \in Sessions PROVE Kept(r)
  OBVIOUS
<1>1. TypeOK
  BY DEF DraftsConsistent, Consistent
<1>2. /\ committed' = committed
      /\ draft'[r] = draft[r] \/ draft'[r] = None
      /\ result'[r] = result[r] \/ result'[r] = None
  BY DEF ClearGuest
<1>3. session'[r].status = "UNUSED" => session[r].status = "UNUSED"
  BY <1>1 DEF ClearGuest, TypeOK, SessionRow
<1> QED
  BY <1>2, <1>3, SameSaves, Untouched

\* No step loses an acknowledged save.
LEMMA NextDrafts ==
    ASSUME DraftsConsistent, Next
    PROVE  \A r \in Sessions : Kept(r)
<1>1. TypeOK
  BY DEF DraftsConsistent, Consistent
<1>2. CASE Tick
  BY <1>2, SameSaves, Untouched DEF Tick
<1>3. CASE ClientRequest
  <2> SUFFICES ASSUME NEW o \in Owners, NEW s \in Sessions, NEW at \in Observed,
                      ClientRequestOf(o, s, at)
               PROVE  \A r \in Sessions : Kept(r)
    BY <1>3 DEF ClientRequest
  <2>1. at \in Nat /\ \A revision \in 0..MaxRevision : revision \in Nat
    BY <1>1, ObservedIsNat, ConstantsAreNat DEF TypeOK
  <2>2. CASE CreateSession(o, s, at)
    <3>1. session[s].status = "UNUSED" /\ \E expiresAt : Started(o, s, None, at, expiresAt)
      BY <2>2 DEF CreateSession, CreateForUser, CreateForGuest, CreateForNewGuest
    <3> QED
      BY <2>2, <3>1, SameSaves, StartedDrafts DEF CreateSession
  <2>3. CASE GetSession(o, s, at) \/ GetDraft(o, s, at)
    BY <2>3, ExpiredDrafts DEF GetSession, GetDraft, ExpireOnRead
  <2>4. CASE CancelSession(o, s, at)
    <3>1. CASE Expired(s)
      BY <2>4, <3>1, ExpiredDrafts DEF CancelSession
    <3>2. CASE CancelApplies(s)
      <4> SUFFICES ASSUME NEW r \in Sessions PROVE Kept(r)
        OBVIOUS
      <4>1. /\ committed' = committed /\ result' = result
            /\ draft'[r] = draft[r] \/ draft'[r] = None
            /\ session'[r].status = "UNUSED" => session[r].status = "UNUSED"
        BY <1>1, <2>4, <3>2 DEF CancelSession, CancelApplies, TypeOK, SessionRow
      <4> QED
        BY <4>1, SameSaves, Untouched
    <3> QED
      BY <2>4, <3>1, <3>2 DEF CancelSession
  <2>5. CASE \E k \in Keys, source \in Sessions : RetryMistakes(o, k, source, s, at)
    <3> PICK k \in Keys, source \in Sessions : RetryMistakes(o, k, source, s, at)
      BY <2>5
    <3>1. \A r \in Sessions : Saves(r)' = Saves(r)
      BY OtherSaves DEF RetryMistakes
    <3> QED
      BY <3>1, StartedDrafts DEF RetryMistakes
  <2>6. CASE \E k \in Keys : TargetedReview(o, k, s, at)
    <3> PICK k \in Keys : TargetedReview(o, k, s, at)
      BY <2>6
    <3>1. \A r \in Sessions : Saves(r)' = Saves(r)
      BY OtherSaves DEF TargetedReview
    <3> QED
      BY <3>1, StartedDrafts DEF TargetedReview
  <2>7. CASE \E k \in Keys, answers \in Sheets, revision \in 0..MaxRevision :
                SaveDraft(o, k, s, answers, revision, at)
    BY <2>1, <2>7, SaveDrafts
  <2>8. CASE \E k \in Keys, answers \in Sheets, revision \in 0..MaxRevision,
                latestNote \in {0, now + 1} :
                Submit(o, k, s, answers, revision, latestNote, at)
    BY <2>8, SubmitDrafts
  <2> QED
    BY <2>2, <2>3, <2>4, <2>5, <2>6, <2>7, <2>8 DEF ClientRequestOf
<1>4. CASE Cleanup
  BY <1>4, CleanupDrafts
<1>5. CASE \E g \in Guests : ClearGuest(g)
  BY <1>5, ClearDrafts
<1> QED
  BY <1>2, <1>3, <1>4, <1>5 DEF Next

\* At the beginning nothing was saved.
LEMMA InitDraftsConsistent == Init => DraftsConsistent
<1> SUFFICES ASSUME Init, NEW s \in Sessions PROVE Numbered(s) /\ NothingLost(s)
  BY InitConsistent DEF DraftsConsistent
<1>1. Saves(s) = {} /\ IsFiniteSet({}) /\ draft[s] = None /\ result[s] = None
  BY FS_EmptySet DEF Init, Saves, OutcomesOf
<1> QED
  BY <1>1 DEF Numbered, NothingLost

\* DraftsConsistent is inductive.
LEMMA NextDraftsConsistent == DraftsConsistent /\ [Next]_vars => DraftsConsistent'
<1> SUFFICES ASSUME DraftsConsistent, [Next]_vars PROVE DraftsConsistent'
  OBVIOUS
<1>1. Consistent'
  BY NextConsistent DEF DraftsConsistent
<1>2. CASE Next
  BY <1>1, <1>2, NextDrafts DEF DraftsConsistent, Kept
<1>3. CASE UNCHANGED vars
  <2>1. \A s \in Sessions : Kept(s)
    BY <1>3, SameSaves, Untouched DEF vars
  <2> QED
    BY <1>1, <2>1 DEF DraftsConsistent, Kept
<1> QED
  BY <1>2, <1>3

\* Two saves never succeed on one revision, and what is kept or graded is the last sheet
\* that a save acknowledged, whatever the number of tabs and the order of their requests.
THEOREM NoSaveLost == Spec => []NoLostUpdate
<1>1. DraftsConsistent => NoLostUpdate
  BY NoLostUpdateParts DEF DraftsConsistent
<1> QED
  BY InitDraftsConsistent, NextDraftsConsistent, <1>1, PTL DEF Spec
=============================================================================
