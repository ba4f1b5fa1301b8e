--------------------------- MODULE StudyPractice ---------------------------
(***************************************************************************)
(* The life of a practice session as the API's database transactions see   *)
(* it: creating a session, saving its server draft, submitting it, reading *)
(* it, cancelling it, retrying its mistakes, and the guest clean-up job.   *)
(*                                                                         *)
(* Each handler runs in one database transaction and is one action here.   *)
(* A handler that answers with an error and rolls back changes nothing and *)
(* is a disabled action; the handlers that commit an expiry and THEN       *)
(* answer with an error are modelled with that expiry.                     *)
(*                                                                         *)
(* A request carries the time `at` its handler read from the process clock *)
(* on arrival; the transaction commits later, possibly after retries that  *)
(* reuse the same reading, so `at` may lag behind the database clock `now` *)
(* by up to MaxLag.                                                        *)
(***************************************************************************)
EXTENDS Integers, FiniteSets

CONSTANTS
    Users,            \* signed-in owners (AuthenticatedUser)
    Guests,           \* anonymous owners (GuestPrincipal)
    Sessions,         \* StudySession ids
    Keys,             \* Idempotency-Key values chosen by clients
    Sheets,           \* answer sheets: one choice and time per question
    Blank,            \* the sheet of a new draft: nothing selected
    Mistaken,         \* sheets that leave a question worth retrying
    SessionTTL,       \* STUDY_SESSION_TTL_MS, RETRY_SESSION_TTL_MS
    SubmitRetention,  \* IDEMPOTENCY_RETENTION_MS
    DraftRetention,   \* DRAFT_IDEMPOTENCY_RETENTION_MS
    RetryRetention,   \* of the two operations that create a session
    GuestRenewal,     \* GUEST_TTL_MS, GUEST_RENEWAL_MS
    Grace,            \* the clean-up job's RETENTION interval
    MaxLag,           \* how stale a handler's clock reading can be
    MaxTime,          \* bound: the clock stops here
    MaxRevision,      \* bound: saves of one draft
    None              \* no owner, no source session, no row

Owners == Users \cup Guests

ASSUME OwnersAssumption ==
    /\ Users \cap Guests = {}
    /\ None \notin Owners \cup Sessions

ASSUME SheetsAssumption ==
    /\ Blank \in Sheets
    /\ Mistaken \subseteq Sheets

ASSUME TimesAssumption ==
    /\ {SessionTTL, SubmitRetention, DraftRetention, RetryRetention,
        GuestRenewal, Grace} \subseteq Nat \ {0}
    /\ {MaxLag, MaxTime, MaxRevision} \subseteq Nat

VARIABLES
    now,        \* the clock
    session,    \* the StudySession rows
    draft,      \* the StudyDraft row of each session, or None
    result,     \* the StudyResult and StudyAnswer rows of each session, or None
    record,     \* the IdempotencyRecord rows, or None
    guest,      \* the GuestPrincipal rows
    committed   \* history: every outcome some keyed request committed

vars == <<now, session, draft, result, record, guest, committed>>

----------------------------------------------------------------------------
(* Rows.                                                                    *)

Statuses == {"UNUSED", "IN_PROGRESS", "SUBMITTED", "EXPIRED", "CANCELLED", "DELETED"}
Live == {"IN_PROGRESS", "SUBMITTED", "EXPIRED", "CANCELLED"}

SessionRow == [status: Statuses, owner: Owners \cup {None}, startedAt: Nat,
               expiresAt: Nat, retryOf: Sessions \cup {None}]
DraftRow == [revision: Nat, answers: Sheets, updatedAt: Nat]
ResultRow == [answers: Sheets, revision: Nat, submittedAt: Nat]
GuestRow == [state: {"UNUSED", "LIVE", "DELETED"}, createdAt: Nat, lastSeenAt: Nat,
             expiresAt: Nat]

\* What a first answer and all its replays say. The request hash decides whether
\* a second call with the key is replayed or refused; neither changes a row.
Response == [answers: Sheets, revision: Nat, at: Nat]
ReplayRow == [session: Sessions, response: Response, expiresAt: Nat]

Operations == {"STUDY_SUBMIT", "STUDY_DRAFT_SAVE", "STUDY_RETRY_CREATE",
               "STUDY_TARGETED_REVIEW_CREATE"}
RecordId == Owners \X Operations \X Keys

\* "No row" is not a row.
ASSUME RowsAssumption ==
    /\ None \notin DraftRow
    /\ None \notin ResultRow
    /\ None \notin ReplayRow

Retention(operation) ==
    CASE operation = "STUDY_SUBMIT" -> SubmitRetention
      [] operation = "STUDY_DRAFT_SAVE" -> DraftRetention
      [] OTHER -> RetryRetention

Later(a, b) == IF a < b THEN b ELSE a
Earlier(a, b) == IF a < b THEN a ELSE b

Observed == {t \in 0..now : now <= t + MaxLag}

Init ==
    /\ now = 0
    /\ session = [s \in Sessions |->
                    [status |-> "UNUSED", owner |-> None, startedAt |-> 0,
                     expiresAt |-> 0, retryOf |-> None]]
    /\ draft = [s \in Sessions |-> None]
    /\ result = [s \in Sessions |-> None]
    /\ record = [id \in RecordId |-> None]
    /\ guest = [g \in Guests |-> [state |-> "UNUSED", createdAt |-> 0, lastSeenAt |-> 0,
                              expiresAt |-> 0]]
    /\ committed = {}

----------------------------------------------------------------------------
(* Shared parts of the handlers.                                            *)

\* assertGuestProof, lockGuestProof: a guest's credential must be unexpired.
GuestProof(o, at) ==
    o \in Guests => guest[o].state = "LIVE" /\ guest[o].expiresAt > at

\* lockOwnedSession, loadAtomicSession: the row exists and is the caller's.
Owned(o, s) == session[s].status \in Live /\ session[s].owner = o

InProgress(s) == session[s].status = "IN_PROGRESS"

\* expireLockedSession: a guest's draft outlives the expiry, a user's does not.
Expired(s) ==
    /\ session' = [session EXCEPT ![s].status = "EXPIRED"]
    /\ draft' = IF session[s].owner \in Guests THEN draft ELSE [draft EXCEPT ![s] = None]

\* Mutant: a key is never looked up.
FreshAlways(id, at) == TRUE

\* A succeeded record past its expiry is deleted and the request starts over.
Fresh(id, at) == record[id] # None => record[id].expiresAt <= at

\* Finalise the reservation: the outcome is stored under the key.
Commit(id, s, response) ==
    LET row == [session |-> s, response |-> response,
                expiresAt |-> response.at + Retention(id[2])]
    IN  /\ record' = [record EXCEPT ![id] = row]
        /\ committed' = committed \cup {[id |-> id, row |-> row]}

\* A new session and its empty draft at revision 0.
Started(o, s, source, at, expiresAt) ==
    /\ session' = [session EXCEPT ![s] =
                     [status |-> "IN_PROGRESS", owner |-> o, startedAt |-> at,
                      expiresAt |-> expiresAt, retryOf |-> source]]
    /\ draft' = [draft EXCEPT ![s] = [revision |-> 0, answers |-> Blank, updatedAt |-> at]]

----------------------------------------------------------------------------
(* Creating a session.                                                      *)

CreateForUser(o, s, at) ==
    /\ o \in Users
    /\ Started(o, s, None, at, at + SessionTTL)
    /\ UNCHANGED guest

\* Mutant: the full TTL, whatever is left of the credential.
CreateForGuestFullTTL(o, s, at) ==
    /\ o \in Guests
    /\ GuestProof(o, at)
    /\ guest[o].lastSeenAt <= at
    /\ Started(o, s, None, at, at + SessionTTL)
    /\ guest' = [guest EXCEPT ![o].lastSeenAt = at]

\* The session never outlives the credential. The write of lastSeenAt passes
\* the database trigger only when it does not go backwards.
CreateForGuest(o, s, at) ==
    /\ o \in Guests
    /\ GuestProof(o, at)
    /\ guest[o].lastSeenAt <= at
    /\ Started(o, s, None, at, Earlier(guest[o].expiresAt, at + SessionTTL))
    /\ guest' = [guest EXCEPT ![o].lastSeenAt = at]

\* No cookie, or one whose credential has expired: a new credential is issued.
CreateForNewGuest(o, s, at) ==
    /\ o \in Guests
    /\ guest[o].state = "UNUSED"
    /\ Started(o, s, None, at, Earlier(at + GuestRenewal, at + SessionTTL))
    /\ guest' = [guest EXCEPT ![o] = [state |-> "LIVE", createdAt |-> at,
                                      lastSeenAt |-> at, expiresAt |-> at + GuestRenewal]]

CreateSession(o, s, at) ==
    /\ session[s].status = "UNUSED"
    /\ CreateForUser(o, s, at) \/ CreateForGuest(o, s, at) \/ CreateForNewGuest(o, s, at)
    /\ UNCHANGED <<now, result, record, committed>>

(* Saving the draft. The session row is locked first, so the expiry check,  *)
(* the replay lookup and the save see the same session.                     *)

\* A due session expires; the same transaction may still answer with a replay
\* or with KEY_REUSED, and it drops an outdated record.
SaveExpires(id, s, at) ==
    /\ InProgress(s)
    /\ session[s].expiresAt <= at
    /\ Expired(s)
    /\ record' = IF Fresh(id, at) THEN [record EXCEPT ![id] = None] ELSE record
    /\ UNCHANGED committed

\* Mutant: the last writer wins, whatever revision it has seen.
SaveAppliesUnchecked(id, s, answers, revision, at) ==
    LET savedAt == Later(at, draft[s].updatedAt + 1)
    IN  /\ Fresh(id, at)
        /\ InProgress(s)
        /\ session[s].expiresAt > at
        /\ revision < MaxRevision
        /\ draft' = [draft EXCEPT ![s] = [revision |-> revision + 1, answers |-> answers,
                                          updatedAt |-> savedAt]]
        /\ Commit(id, s, [answers |-> answers, revision |-> revision + 1, at |-> savedAt])
        /\ UNCHANGED session

SaveApplies(id, s, answers, revision, at) ==
    LET savedAt == Later(at, draft[s].updatedAt + 1)
    IN  /\ Fresh(id, at)
        /\ InProgress(s)
        /\ session[s].expiresAt > at
        /\ draft[s].revision = revision
        /\ revision < MaxRevision
        /\ draft' = [draft EXCEPT ![s] = [revision |-> revision + 1, answers |-> answers,
                                          updatedAt |-> savedAt]]
        /\ Commit(id, s, [answers |-> answers, revision |-> revision + 1, at |-> savedAt])
        /\ UNCHANGED session

SaveDraft(o, k, s, answers, revision, at) ==
    LET id == <<o, "STUDY_DRAFT_SAVE", k>>
    IN  /\ GuestProof(o, at)
        /\ Owned(o, s)
        /\ SaveExpires(id, s, at) \/ SaveApplies(id, s, answers, revision, at)
        /\ UNCHANGED <<now, result, guest>>

(* Submitting. A live record answers before anything else is looked at.     *)

SubmitExpires(id, s, at) ==
    /\ session[s].expiresAt <= at
    /\ Expired(s)
    /\ record' = [record EXCEPT ![id] = None]
    /\ UNCHANGED <<result, guest, committed>>

\* Mutant: the handler's clock reading is trusted.
SubmittedAtObserved(o, s, latestNote, at) == at

\* The time of the submission is never before the session, the guest's last visit
\* or a wrong note it will move (latestNote, see WrongNotes).
SubmittedAt(o, s, latestNote, at) ==
    LET earliest == Later(Later(at, session[s].startedAt), latestNote)
    IN  IF o \in Guests THEN Later(earliest, guest[o].lastSeenAt) ELSE earliest

\* Mutant: the session is not closed.
SubmitLeavesOpen(id, o, s, answers, revision, latestNote, at) ==
    LET submittedAt == SubmittedAt(o, s, latestNote, at)
    IN  /\ session[s].expiresAt > at
        /\ draft[s].revision = revision
        /\ draft[s].answers = answers
        /\ result' = [result EXCEPT ![s] = [answers |-> answers, revision |-> revision,
                                            submittedAt |-> submittedAt]]
        /\ Commit(id, s, [answers |-> answers, revision |-> revision, at |-> submittedAt])
        /\ UNCHANGED <<session, draft, guest>>

\* The sheet must be the draft's, at the revision the client has seen.
SubmitApplies(id, o, s, answers, revision, latestNote, at) ==
    LET submittedAt == SubmittedAt(o, s, latestNote, at)
    IN  /\ session[s].expiresAt > at
        /\ draft[s].revision = revision
        /\ draft[s].answers = answers
        /\ result' = [result EXCEPT ![s] = [answers |-> answers, revision |-> revision,
                                            submittedAt |-> submittedAt]]
        /\ guest' = IF o \in Guests
                    THEN [guest EXCEPT ![o].lastSeenAt = submittedAt,
                                       ![o].expiresAt = submittedAt + GuestRenewal]
                    ELSE guest
        /\ session' = [session EXCEPT ![s].status = "SUBMITTED"]
        /\ draft' = [draft EXCEPT ![s] = None]
        /\ Commit(id, s, [answers |-> answers, revision |-> revision, at |-> submittedAt])

Submit(o, k, s, answers, revision, latestNote, at) ==
    LET id == <<o, "STUDY_SUBMIT", k>>
    IN  /\ GuestProof(o, at)
        /\ Owned(o, s)
        /\ Fresh(id, at)
        /\ InProgress(s)
        /\ \/ SubmitExpires(id, s, at)
           \/ SubmitApplies(id, o, s, answers, revision, latestNote, at)
        /\ UNCHANGED now

(* Reading a session or its draft expires it when it is due; any other read *)
(* changes nothing.                                                         *)

ExpireOnRead(o, s, at) ==
    /\ GuestProof(o, at)
    /\ Owned(o, s)
    /\ InProgress(s)
    /\ session[s].expiresAt <= at
    /\ Expired(s)
    /\ UNCHANGED <<now, result, record, guest, committed>>

GetSession(o, s, at) == ExpireOnRead(o, s, at)
GetDraft(o, s, at) == ExpireOnRead(o, s, at)

\* Mutant: the draft is left behind.
CancelKeepsDraft(s) ==
    /\ session' = [session EXCEPT ![s].status = "CANCELLED"]
    /\ UNCHANGED draft

\* Mutant: cancelling undoes the last save instead of dropping the draft.
CancelUndoesSave(s) ==
    /\ session' = [session EXCEPT ![s].status = "CANCELLED"]
    /\ draft' = [draft EXCEPT ![s].revision = @ - 1]

CancelApplies(s) ==
    /\ session' = [session EXCEPT ![s].status = "CANCELLED"]
    /\ draft' = [draft EXCEPT ![s] = None]

CancelSession(o, s, at) ==
    /\ GuestProof(o, at)
    /\ Owned(o, s)
    /\ InProgress(s)
    /\ IF session[s].expiresAt <= at THEN Expired(s) ELSE CancelApplies(s)
    /\ UNCHANGED <<now, result, record, guest, committed>>

(* Retrying the mistakes of a submitted session in a new one.               *)

RetryExpiry(o, at) ==
    IF o \in Guests THEN Earlier(guest[o].expiresAt, at + SessionTTL) ELSE at + SessionTTL

RetryMistakes(o, k, source, s, at) ==
    LET id == <<o, "STUDY_RETRY_CREATE", k>>
    IN  /\ GuestProof(o, at)
        /\ Fresh(id, at)
        /\ Owned(o, source)
        /\ session[source].status = "SUBMITTED"
        /\ result[source] # None
        /\ result[source].answers \in Mistaken
        /\ session[s].status = "UNUSED"
        /\ Started(o, s, source, at, RetryExpiry(o, at))
        /\ Commit(id, s, [answers |-> Blank, revision |-> 0, at |-> at])
        /\ UNCHANGED <<now, result, guest>>

(* Reviewing one wrong note in a new session. What it does to the note is    *)
(* in WrongNotes; notes are a signed-in owner's only.                       *)
TargetedReview(o, k, s, at) ==
    LET id == <<o, "STUDY_TARGETED_REVIEW_CREATE", k>>
    IN  /\ o \in Users
        /\ Fresh(id, at)
        /\ session[s].status = "UNUSED"
        /\ Started(o, s, None, at, at + SessionTTL)
        /\ Commit(id, s, [answers |-> Blank, revision |-> 0, at |-> at])
        /\ UNCHANGED <<now, result, guest>>

(* DELETE /guest-principal, and every row that cascades from the guest.     *)
ClearGuest(g) ==
    /\ guest[g].state = "LIVE"
    /\ guest' = [guest EXCEPT ![g].state = "DELETED"]
    /\ session' = [s \in Sessions |-> IF Owned(g, s) THEN [session[s] EXCEPT !.status = "DELETED"]
                                                     ELSE session[s]]
    /\ draft' = [s \in Sessions |-> IF session[s].owner = g THEN None ELSE draft[s]]
    /\ result' = [s \in Sessions |-> IF session[s].owner = g THEN None ELSE result[s]]
    /\ record' = [id \in RecordId |-> IF id[1] = g THEN None ELSE record[id]]
    /\ UNCHANGED <<now, committed>>

----------------------------------------------------------------------------
(* The guest clean-up job reads the database clock, and deletes one         *)
(* candidate after another, re-checking each under its lock. A batch of n   *)
(* candidates is n of these steps.                                          *)

GuestOwned(s) == session[s].status \in Live /\ session[s].owner \in Guests

\* Mutant: retries are forgotten.
NoOpenReplayIgnoresRetries(s, at) ==
    \A id \in RecordId : record[id] # None /\ record[id].session = s
                              => record[id].expiresAt <= at

\* noOpenReplay: no unexpired record points at the session, and no session
\* retries it.
NoOpenReplay(s, at) ==
    /\ \A id \in RecordId : record[id] # None /\ record[id].session = s
                              => record[id].expiresAt <= at
    /\ \A r \in Sessions : session[r].status \in Live => session[r].retryOf # s

\* The records of a deleted session go with it.
WithoutSession(s) ==
    [id \in RecordId |-> IF record[id] # None /\ record[id].session = s THEN None ELSE record[id]]

\* A guest's draft nobody can continue.
DraftSession(s, at) ==
    /\ GuestOwned(s)
    /\ session[s].status \in {"IN_PROGRESS", "EXPIRED"}
    /\ session[s].expiresAt + Grace <= at
    /\ draft[s] # None
    /\ NoOpenReplay(s, at)

\* Mutant: only expired sessions are looked for.
ClosedSessionExpired(s, at) ==
    /\ GuestOwned(s)
    /\ session[s].status = "EXPIRED"
    /\ session[s].expiresAt + Grace <= at
    /\ NoOpenReplay(s, at)

\* A guest's session that is over.
ClosedSession(s, at) ==
    /\ GuestOwned(s)
    /\ session[s].status # "IN_PROGRESS"
    /\ session[s].expiresAt + Grace <= at
    /\ NoOpenReplay(s, at)

\* A guest who has run out and left no session.
ExpiredPrincipal(g, at) ==
    /\ guest[g].state = "LIVE"
    /\ guest[g].expiresAt + Grace <= at
    /\ \A s \in Sessions : ~Owned(g, s)

\* Mutant: a record goes one tick before its retention has run out.
ExpiredReplayEarly(id, at) ==
    /\ record[id] # None
    /\ record[id].expiresAt <= at + 1

\* An outdated record is kept while a live retry of its session is being worked on.
ExpiredReplay(id, at) ==
    /\ record[id] # None
    /\ record[id].expiresAt <= at
    /\ \A r \in Sessions : InProgress(r) /\ session[r].expiresAt > at
                             => session[r].retryOf # record[id].session

\* Mutant: the session of a removed draft stays in progress.
CleanDraftOnly(s) ==
    /\ DraftSession(s, now)
    /\ draft' = [draft EXCEPT ![s] = None]
    /\ UNCHANGED <<now, session, result, record, guest, committed>>

CleanDraft(s) ==
    /\ DraftSession(s, now)
    /\ session' = [session EXCEPT ![s].status = "EXPIRED"]
    /\ draft' = [draft EXCEPT ![s] = None]
    /\ UNCHANGED <<now, result, record, guest, committed>>

CleanSession(s) ==
    /\ ClosedSession(s, now)
    /\ session' = [session EXCEPT ![s].status = "DELETED"]
    /\ draft' = [draft EXCEPT ![s] = None]
    /\ result' = [result EXCEPT ![s] = None]
    /\ record' = WithoutSession(s)
    /\ UNCHANGED <<now, guest, committed>>

CleanPrincipal(g) ==
    /\ ExpiredPrincipal(g, now)
    /\ guest' = [guest EXCEPT ![g].state = "DELETED"]
    /\ record' = [id \in RecordId |-> IF id[1] = g THEN None ELSE record[id]]
    /\ UNCHANGED <<now, session, draft, result, committed>>

CleanRecord(id) ==
    /\ ExpiredReplay(id, now)
    /\ record' = [record EXCEPT ![id] = None]
    /\ UNCHANGED <<now, session, draft, result, guest, committed>>

Tick ==
    /\ now < MaxTime
    /\ now' = now + 1
    /\ UNCHANGED <<session, draft, result, record, guest, committed>>

\* The requests of owner o about session s.
ClientRequestOf(o, s, at) ==
    \/ CreateSession(o, s, at)
    \/ GetSession(o, s, at)
    \/ GetDraft(o, s, at)
    \/ CancelSession(o, s, at)
    \/ \E k \in Keys, source \in Sessions : RetryMistakes(o, k, source, s, at)
    \/ \E k \in Keys : TargetedReview(o, k, s, at)
    \/ \E k \in Keys, answers \in Sheets, revision \in 0..MaxRevision :
          SaveDraft(o, k, s, answers, revision, at)
    \/ \E k \in Keys, answers \in Sheets, revision \in 0..MaxRevision :
          \E latestNote \in (IF o \in Users THEN {0, now + 1} ELSE {0}) :
             Submit(o, k, s, answers, revision, latestNote, at)

ClientRequest ==
    \E o \in Owners, s \in Sessions, at \in Observed : ClientRequestOf(o, s, at)

Cleanup ==
    \/ \E s \in Sessions : CleanDraft(s) \/ CleanSession(s)
    \/ \E g \in Guests : CleanPrincipal(g)
    \/ \E id \in RecordId : CleanRecord(id)

Next == Tick \/ ClientRequest \/ Cleanup \/ \E g \in Guests : ClearGuest(g)

Spec == Init /\ [][Next]_vars

\* The clean-up job is scheduled for ever and time passes; no client need ever
\* call again.
FairSpec == Spec /\ WF_vars(Tick) /\ WF_vars(Cleanup)

----------------------------------------------------------------------------
(* Properties.                                                              *)

\* Every variable keeps the shape of its table.
TypeOK ==
    /\ now \in 0..MaxTime
    /\ session \in [Sessions -> SessionRow]
    /\ draft \in [Sessions -> DraftRow \cup {None}]
    /\ result \in [Sessions -> ResultRow \cup {None}]
    /\ record \in [RecordId -> ReplayRow \cup {None}]
    /\ guest \in [Guests -> GuestRow]
    /\ committed \subseteq [id: RecordId, row: ReplayRow]

\* A draft exists exactly while someone may still want it: always during the
\* session, and after it only for a guest whose session ran out. Results exist
\* for submitted sessions only. The handlers answer INTERNAL_SERVER_ERROR when
\* a version 2 session in progress has no draft.
RowsAgree ==
    \A s \in Sessions :
        /\ InProgress(s) => draft[s] # None
        /\ draft[s] # None => \/ InProgress(s)
                              \/ session[s].status = "EXPIRED" /\ session[s].owner \in Guests
        /\ result[s] # None <=> session[s].status = "SUBMITTED"

OutcomesOf(operation, s) ==
    {c \in committed : c.id[2] = operation /\ c.row.session = s}

\* A client that lost the answer can ask again with the same key for as long as
\* the record is promised to live, whatever the clean-up job has removed since.
ReplayableWithinRetention ==
    \A c \in committed :
        c.row.expiresAt > now /\ (c.id[1] \in Guests => guest[c.id[1]].state = "LIVE")
            => record[c.id] = c.row

\* One key stands for one outcome: a second outcome under it is possible only
\* after the first one's retention has run out. The clean-up job goes by the
\* database clock, so a handler with a stale reading may see it run out early.
OneOutcomePerKey ==
    \A c, d \in committed :
        c.id = d.id /\ c # d => \/ c.row.expiresAt <= d.row.response.at + MaxLag
                                \/ d.row.expiresAt <= c.row.response.at + MaxLag

\* A session is graded once, whatever keys and however often it is submitted,
\* and the stored result is the one that was answered.
OneSubmissionPerSession ==
    \A s \in Sessions :
        /\ \A c, d \in OutcomesOf("STUDY_SUBMIT", s) : c = d
        /\ result[s] # None =>
             \E c \in OutcomesOf("STUDY_SUBMIT", s) :
                 /\ c.row.response.answers = result[s].answers
                 /\ c.row.response.at = result[s].submittedAt

\* Two saves never succeed on the same revision, and what is kept or graded is
\* the last sheet that a save acknowledged.
NoLostUpdate ==
    \A s \in Sessions :
        LET saves == OutcomesOf("STUDY_DRAFT_SAVE", s)
            Acknowledged(row) ==
                /\ row.revision = Cardinality(saves)
                /\ \/ row.revision = 0 /\ row.answers = Blank
                   \/ \E c \in saves : /\ c.row.response.revision = row.revision
                                       /\ c.row.response.answers = row.answers
        IN  /\ \A c, d \in saves : c.row.response.revision = d.row.response.revision => c = d
            /\ draft[s] # None => Acknowledged(draft[s])
            /\ result[s] # None => Acknowledged(result[s])

\* A retry keeps the submitted session it came from, under the same owner.
LineageKept ==
    \A s \in Sessions :
        LET source == session[s].retryOf
        IN  session[s].status \in Live /\ source # None =>
                session[source].status = "SUBMITTED" /\ session[source].owner = session[s].owner

\* No guest session outlives the credential that can open it.
GuestOutlivesSessions ==
    \A s \in Sessions :
        GuestOwned(s) => LET g == session[s].owner
                         IN  guest[g].state = "LIVE" /\ session[s].expiresAt <= guest[g].expiresAt

\* A guest whose credential is good can start a session: the time the handler
\* writes to lastSeenAt is never before the one stored, which the trigger
\* validate_guest_principal_renewal_change would refuse. Not kept by the code: a
\* creation can carry an older reading than the submission that overtook it, even
\* one that arrived after the guest had received its cookie.
GuestCanStart ==
    \A g \in Guests, at \in Observed :
        GuestProof(g, at) /\ guest[g].createdAt + MaxLag < at => guest[g].lastSeenAt <= at

\* What the trigger validate_guest_principal_renewal_change demands of every
\* update: a submission that renews the guest never trips it.
GuestRenewalMonotonic ==
    [][\A g \in Guests : guest[g].state = "LIVE" =>
            /\ guest[g].lastSeenAt <= guest'[g].lastSeenAt
            /\ guest[g].expiresAt <= guest'[g].expiresAt]_vars

\* Whatever a guest left behind, the clean-up job ends up deleting all of it.
GuestDataErased ==
    \A g \in Guests :
        guest[g].state = "LIVE" /\ guest[g].expiresAt + Grace <= now
            ~> guest[g].state = "DELETED"
=============================================================================
