------------------------ MODULE PracticeTransactions ------------------------
(***************************************************************************)
(* The database transactions behind the practice handlers, statement by    *)
(* statement: snapshots, row locks, waits, deadlocks, serialization        *)
(* failures and their retries. The purpose is to show that one action per  *)
(* handler, as StudyPractice has it, is what concurrent handlers amount to.*)
(*                                                                         *)
(* Saving, submitting, retrying and creating run at the level Serializable.*)
(* Of that level the model assumes only snapshot isolation: all reads see  *)
(* the rows as of the first statement, and locking or changing a row that  *)
(* somebody else has changed since fails with 40001. Reading, cancelling,  *)
(* clearing and the clean-up job run at ReadCommitted: they see the rows   *)
(* as they are once they hold their locks.                                 *)
(*                                                                         *)
(* Reads from a snapshot may happen at any time, so a step is one lock     *)
(* that may have to wait, and what the handler decides once it holds it.   *)
(***************************************************************************)
EXTENDS Integers, FiniteSets

CONSTANTS
    Users, Guests, Sessions, Keys, Sheets, Blank, Mistaken, SessionTTL, SubmitRetention,
    DraftRetention, RetryRetention, GuestRenewal, Grace, MaxLag, MaxTime, MaxRevision, None,
    MaxCalls,     \* bound: the requests and clean-up candidates that will be served
    Kinds,        \* the handlers they may call
    MaxAttempts   \* SERIALIZABLE_MAX_ATTEMPTS, MAX_TRANSACTION_ATTEMPTS

Calls == 1..MaxCalls

ASSUME CallsAssumption == {MaxCalls, MaxAttempts} \subseteq Nat \ {0}

\* Of the owners, sheets and times, as in StudyPractice.
ASSUME OwnersAssumption ==
    /\ Users \cap Guests = {}
    /\ None \notin Users \cup Guests \cup Sessions

ASSUME SheetsAssumption ==
    /\ Blank \in Sheets
    /\ Mistaken \subseteq Sheets

ASSUME TimesAssumption ==
    /\ {SessionTTL, SubmitRetention, DraftRetention, RetryRetention,
        GuestRenewal, Grace} \subseteq Nat \ {0}
    /\ {MaxLag, MaxTime, MaxRevision} \subseteq Nat

\* The clean-up job leaves a draft for far longer (7 days) than a handler takes.
ASSUME GraceAssumption == MaxLag <= Grace

VARIABLES
    now, session, draft, result, record, guest, committed,   \* see StudyPractice
    txn           \* the transaction of each call

rows == <<session, draft, result, record, guest, committed>>
vars == <<now, session, draft, result, record, guest, committed, txn>>

Practice == INSTANCE StudyPractice

ASSUME RowsAssumption ==
    /\ None \notin Practice!DraftRow
    /\ None \notin Practice!ResultRow
    /\ None \notin Practice!ReplayRow

\* What the transaction of call c sees: the rows as of its snapshot.
Snap(c) == txn[c].snap

Snapshot == [session |-> session, draft |-> draft, result |-> result, record |-> record,
             guest |-> guest]

Request(c) == txn[c].request
Active(c) == txn[c].step \notin {"NONE", "ANSWERED", "UNAVAILABLE"}
At(c, kind, step) == Active(c) /\ Request(c).kind = kind /\ txn[c].step = step

Id(r) == <<r.owner,
           CASE r.kind = "SAVE" -> "STUDY_DRAFT_SAVE"
             [] r.kind = "SUBMIT" -> "STUDY_SUBMIT"
             [] OTHER -> "STUDY_RETRY_CREATE",
           r.key>>

\* What the snapshot says of the caller, of a session and of the record.
ProofSeen(c) ==
    LET r == Request(c)
        seen == Snap(c).guest[r.owner]
    IN  r.owner \in Guests => seen.state = "LIVE" /\ seen.expiresAt > r.at

OwnedSeen(c, s) ==
    LET seen == Snap(c).session[s]
    IN  seen.status \in Practice!Live /\ seen.owner = Request(c).owner

RecordSeen(c) == Snap(c).record[Id(Request(c))]

FreshSeen(c) == RecordSeen(c) # None => RecordSeen(c).expiresAt <= Request(c).at

\* The record the snapshot shows has run out.
Outdated(c) == RecordSeen(c) # None /\ FreshSeen(c)

Over(step) == [step |-> step, attempt |-> 0, request |-> None, snap |-> None, locks |-> {}]

Init ==
    /\ Practice!Init
    /\ txn = [c \in Calls |-> Over("NONE")]

----------------------------------------------------------------------------
(* Locks: <<table, row, mode>>.                                             *)

\* The outdated record is deleted before a new one is reserved.
DiscardLocks(c) == IF Outdated(c) THEN {<<"record", Id(Request(c)), "UPDATE">>} ELSE {}

\* A deletion cascades to the records of a session, and to the sessions and records
\* of a guest, after the row itself.
SessionCascade(s) ==
    {<<"record", id, "UPDATE">> :
        id \in {x \in Practice!RecordId : record[x] # None /\ record[x].session = s}}

GuestCascade(g) ==
    {<<"session", s, "UPDATE">> : s \in {x \in Sessions : Practice!Owned(g, x)}}
    \cup {<<"record", id, "UPDATE">> :
             id \in {x \in Practice!RecordId : record[x] # None /\ x[1] = g}}

\* What the clean-up job may delete, by the time it has read.
Candidates(at) ==
    {<<"draft", s>> : s \in {x \in Sessions : Practice!DraftSession(x, at)}}
    \cup {<<"session", s>> : s \in {x \in Sessions : Practice!ClosedSession(x, at)}}
    \cup {<<"principal", g>> : g \in {x \in Guests : Practice!ExpiredPrincipal(x, at)}}
    \cup {<<"idempotency", id>> :
             id \in {x \in Practice!RecordId : Practice!ExpiredReplay(x, at)}}

\* What the clean-up job locks of a candidate.
CleanLocks(target) ==
    CASE target[1] \in {"draft", "session"} -> {<<"session", target[2], "UPDATE">>}
      [] target[1] = "principal" -> {<<"guest", target[2], "UPDATE">>}
      [] target[1] = "idempotency" ->
            {<<"record", target[2], "UPDATE">>} \cup
            (IF record[target[2]] = None THEN {}
             ELSE {<<"session", record[target[2]].session, "UPDATE">>})

\* What the deletion of a candidate cascades to.
CleanCascade(target) ==
    CASE target[1] = "session" -> SessionCascade(target[2])
      [] target[1] = "principal" -> GuestCascade(target[2])
      [] OTHER -> {}

\* Mutant: the lock that excludes sharing.
GuestLockUpdate == "UPDATE"

\* lockGuestProof: the row will be changed but not deleted, so others may share it.
GuestLock == "NO_KEY_UPDATE"

\* Mutant: the foreign keys to the session are not deferred.
ReservationImmediate(r) ==
    {<<"record", Id(r), "UPDATE">>, <<"guest", r.owner, "KEY_SHARE">>,
     <<"session", r.session, "KEY_SHARE">>}

\* A reservation inserts under the unique key of its record, and shares the guest it
\* refers to. Its foreign keys to the session are checked at the end, when the
\* session is the transaction's own.
Reservation(r) == {<<"record", Id(r), "UPDATE">>, <<"guest", r.owner, "KEY_SHARE">>}

\* The locks a step consists of waiting for.
Wanted(c) ==
    LET r == Request(c)
        step == txn[c].step
    IN  CASE step = "GUEST" -> {<<"guest", r.owner, GuestLock>>}
          [] step = "SESSION" -> {<<"session", r.session, "UPDATE">>}
          [] step = "SOURCE" -> {<<"session", r.source, "KEY_SHARE">>}
          [] step = "LOOK" /\ r.kind # "SAVE" -> DiscardLocks(c)
          [] step = "EXPIRE" -> DiscardLocks(c)
          [] step = "RESERVE" -> Reservation(r)
          [] step = "CLEAR" -> {<<"guest", r.owner, "UPDATE">>}
          [] step = "CASCADE" -> GuestCascade(r.owner)
          [] step = "WRITE" /\ r.kind = "CLEAN" ->
                IF r.target \in Candidates(r.at) THEN CleanCascade(r.target) ELSE {}
          [] OTHER -> {}

Compatible(m, n) == {m, n} \in {{"KEY_SHARE"}, {"KEY_SHARE", "NO_KEY_UPDATE"}}

Clash(l, m) == l[1] = m[1] /\ l[2] = m[2] /\ ~Compatible(l[3], m[3])

\* c waits for a lock that d holds.
Waits(c, d) ==
    /\ c # d
    /\ Active(c)
    /\ \E l \in Wanted(c), m \in txn[d].locks : Clash(l, m)

Granted(c) == \A d \in Calls : ~Waits(c, d)

\* SKIP LOCKED takes a lock that is free, or none.
Free(locks) == \A d \in Calls : \A l \in locks, m \in txn[d].locks : ~Clash(l, m)

----------------------------------------------------------------------------
(* Steps every transaction is made of.                                      *)

\* On to the next step, holding these locks too.
Take(c, locks, step) ==
    /\ txn' = [txn EXCEPT ![c] = [txn[c] EXCEPT !.step = step, !.locks = txn[c].locks \cup locks]]
    /\ UNCHANGED <<now, rows>>

\* On to the next step, holding what was waited for.
Proceed(c, step) == Take(c, Wanted(c), step)

\* Commit, release the locks and answer.
Answered(c) ==
    /\ txn' = [txn EXCEPT ![c] = Over("ANSWERED")]
    /\ UNCHANGED now

\* An answer that changed nothing: an error, or the replay of a stored response.
Refused(c) == Answered(c) /\ UNCHANGED rows

\* The request is served from the beginning, for the n-th time.
Attempt(request, n) ==
    [step |-> "START", attempt |-> n, request |-> request, snap |-> None, locks |-> {}]

\* Mutant: attempts are not counted.
ConflictForever(c) ==
    /\ txn' = [txn EXCEPT ![c] = Attempt(Request(c), txn[c].attempt)]
    /\ UNCHANGED <<now, rows>>

\* Mutant: one attempt too many.
ConflictOnceMore(c) ==
    /\ txn' = [txn EXCEPT ![c] = IF txn[c].attempt <= MaxAttempts
                                 THEN Attempt(Request(c), txn[c].attempt + 1)
                                 ELSE Over("UNAVAILABLE")]
    /\ UNCHANGED <<now, rows>>

\* A serialization failure or a deadlock: the whole transaction starts again, and
\* after the last attempt the answer is SERVICE_UNAVAILABLE.
Conflict(c) ==
    /\ txn' = [txn EXCEPT ![c] = IF txn[c].attempt < MaxAttempts
                                 THEN Attempt(Request(c), txn[c].attempt + 1)
                                 ELSE Over("UNAVAILABLE")]
    /\ UNCHANGED <<now, rows>>

\* Wait for the step's locks on a row as the snapshot has it.
Lock(c, unchanged, step) ==
    /\ Granted(c)
    /\ IF unchanged THEN Proceed(c, step) ELSE Conflict(c)

\* The first statement takes the snapshot.
Begin(c, step) ==
    /\ txn' = [txn EXCEPT ![c].step = step, ![c].snap = Snapshot]
    /\ UNCHANGED <<now, rows>>

----------------------------------------------------------------------------
(* Arrival: the handler reads the clock.                                    *)

Call(kind, o, s) ==
    [kind |-> kind, owner |-> o, session |-> s, key |-> None, source |-> None,
     answers |-> Blank, revision |-> 0, target |-> None, at |-> now]

Arrive(c, request) ==
    /\ txn[c].step = "NONE"
    /\ \A d \in 1..(c - 1) : txn[d].step # "NONE"
    /\ request.kind \in Kinds
    /\ txn' = [txn EXCEPT ![c] = Attempt(request, 1)]
    /\ UNCHANGED <<now, rows>>

\* The ids of new sessions and guests are random.
NewSession(s) ==
    /\ session[s].status = "UNUSED"
    /\ \A c \in Calls : Active(c) => Request(c).session # s

NewGuest(o) ==
    /\ o \in Guests
    /\ guest[o].state = "UNUSED"
    /\ \A c \in Calls : Active(c) => Request(c).owner # o

Client(o) == o \in Users \/ \E s \in Sessions : session[s].owner = o

ClientArrives(c) ==
    \E o \in Users \cup Guests, s \in Sessions :
        \/ /\ NewSession(s)
           /\ Client(o) \/ NewGuest(o)
           /\ Arrive(c, Call("CREATE", o, s))
        \/ \E source \in Sessions, k \in Keys :
              /\ NewSession(s)
              /\ session[source].owner = o
              /\ Arrive(c, [Call("RETRY", o, s) EXCEPT !.source = source, !.key = k])
        \/ /\ session[s].owner = o
           /\ \E kind \in {"READ", "CANCEL"} : Arrive(c, Call(kind, o, s))
        \/ \E k \in Keys, answers \in Sheets, revision \in 0..MaxRevision, kind \in {"SAVE", "SUBMIT"} :
              /\ session[s].owner = o
              /\ kind = "SAVE" => revision < MaxRevision
              /\ Arrive(c, [Call(kind, o, s) EXCEPT !.key = k, !.answers = answers,
                                                    !.revision = revision])
        \/ /\ o \in Guests
           /\ Client(o)
           /\ Arrive(c, Call("CLEAR", o, None))

\* One candidate of a clean-up batch, which has read the database clock.
BatchStarts(c) == Arrive(c, Call("CLEAN", None, None))

----------------------------------------------------------------------------
(* Creating a session: findExistingGuest, then one update of a known guest. *)

CreateStart(c) ==
    /\ At(c, "CREATE", "START")
    /\ Begin(c, IF Request(c).owner \in Guests THEN "GUEST" ELSE "WRITE")

\* The update of lastSeenAt waits for its row; a new guest's row is its own.
CreateGuest(c) ==
    LET r == Request(c)
        seen == Snap(c).guest[r.owner]
    IN  /\ At(c, "CREATE", "GUEST")
        /\ IF seen.state = "UNUSED" \/ (ProofSeen(c) /\ seen.lastSeenAt <= r.at)
           THEN Lock(c, guest[r.owner] = seen, "WRITE")
           ELSE Refused(c)

CreateWrite(c) ==
    LET r == Request(c)
        seen == Snap(c).guest[r.owner]
    IN  /\ At(c, "CREATE", "WRITE")
        /\ \/ Practice!CreateForUser(r.owner, r.session, r.at)
           \/ /\ r.owner \in Guests
              /\ seen.state = "LIVE"
              /\ Practice!Started(r.owner, r.session, None, r.at,
                                  Practice!Earlier(seen.expiresAt, r.at + SessionTTL))
              /\ guest' = [guest EXCEPT ![r.owner].lastSeenAt = r.at]
           \/ Practice!CreateForNewGuest(r.owner, r.session, r.at)
        /\ Answered(c)
        /\ UNCHANGED <<result, record, committed>>

(* Saving a draft: the session is locked before anything is looked at.      *)

SaveStart(c) == At(c, "SAVE", "START") /\ Begin(c, "SESSION")

SaveSession(c) ==
    LET r == Request(c)
        seen == Snap(c).session[r.session]
    IN  /\ At(c, "SAVE", "SESSION")
        /\ IF ~(ProofSeen(c) /\ OwnedSeen(c, r.session))
           THEN Refused(c)
           ELSE Lock(c, session[r.session] = seen, "LOOK")

\* What the snapshot says of the session, the record and the draft.
SaveLook(c) ==
    LET r == Request(c)
        seen == Snap(c).session[r.session]
    IN  /\ At(c, "SAVE", "LOOK")
        /\ IF seen.status = "IN_PROGRESS" /\ seen.expiresAt <= r.at
           THEN Proceed(c, "EXPIRE")
           ELSE IF /\ FreshSeen(c)
                   /\ seen.status = "IN_PROGRESS"
                   /\ Snap(c).draft[r.session].revision = r.revision
                THEN Proceed(c, "RESERVE")
                ELSE Refused(c)

\* Deleting the draft or an outdated record fails when it has changed since.
Expire(c) ==
    LET r == Request(c)
    IN  /\ Granted(c)
        /\ IF \/ r.owner \in Users /\ draft[r.session] # Snap(c).draft[r.session]
              \/ Outdated(c) /\ record[Id(r)] # RecordSeen(c)
           THEN Conflict(c)
           ELSE /\ Practice!Expired(r.session)
                /\ record' = IF Outdated(c) THEN [record EXCEPT ![Id(r)] = None] ELSE record
                /\ Answered(c)
                /\ UNCHANGED <<result, guest, committed>>

SaveExpire(c) == At(c, "SAVE", "EXPIRE") /\ Expire(c)

\* The insertion that reserves the key, after the deletion of an outdated record,
\* waits for another one under the same key and fails when that one committed. Its
\* foreign key fails when the guest has been deleted.
Reserve(c, step) ==
    LET r == Request(c)
    IN  Lock(c, /\ record[Id(r)] = RecordSeen(c)
                /\ r.owner \in Guests => guest[r.owner].state = "LIVE",
             step)

SaveReserve(c) == At(c, "SAVE", "RESERVE") /\ Reserve(c, "WRITE")

\* Mutant: the update counts on the lock of the session alone.
SaveWriteUnversioned(c) ==
    LET r == Request(c)
        seen == Snap(c).draft[r.session]
        savedAt == Practice!Later(r.at, seen.updatedAt + 1)
    IN  /\ At(c, "SAVE", "WRITE")
        /\ draft' = [draft EXCEPT ![r.session] =
                       [revision |-> seen.revision + 1, answers |-> r.answers,
                        updatedAt |-> savedAt]]
        /\ Practice!Commit(Id(r), r.session,
             [answers |-> r.answers, revision |-> seen.revision + 1, at |-> savedAt])
        /\ Answered(c)
        /\ UNCHANGED <<session, result, guest>>

\* Saves lock the session without changing it, so the lock alone does not tell a
\* save with an older snapshot of another one: the update of the draft does.
SaveWrite(c) ==
    LET r == Request(c)
        seen == Snap(c).draft[r.session]
        savedAt == Practice!Later(r.at, seen.updatedAt + 1)
    IN  /\ At(c, "SAVE", "WRITE")
        /\ IF draft[r.session] # seen
           THEN Conflict(c)
           ELSE /\ draft' = [draft EXCEPT ![r.session] =
                               [revision |-> seen.revision + 1, answers |-> r.answers,
                                updatedAt |-> savedAt]]
                /\ Practice!Commit(Id(r), r.session,
                     [answers |-> r.answers, revision |-> seen.revision + 1, at |-> savedAt])
                /\ Answered(c)
                /\ UNCHANGED <<session, result, guest>>

(* Submitting: the record is looked up, and deleted if it is outdated, and  *)
(* the key reserved before the session is locked; a guest's row is locked   *)
(* first of all.                                                            *)

SubmitStart(c) ==
    /\ At(c, "SUBMIT", "START")
    /\ Begin(c, IF Request(c).owner \in Guests THEN "GUEST" ELSE "LOOK")

\* lockGuestProof, and assertGuestProof of a retry.
LockGuestProof(c) ==
    LET r == Request(c)
    IN  IF ProofSeen(c)
        THEN Lock(c, guest[r.owner] = Snap(c).guest[r.owner], "LOOK")
        ELSE Refused(c)

SubmitGuest(c) == At(c, "SUBMIT", "GUEST") /\ LockGuestProof(c)

\* Look the record up: a live one answers, an outdated one is deleted, which waits
\* for its lock and fails when it has changed. Without one the handler goes on.
LookUp(c, editable, step) ==
    IF ~FreshSeen(c) THEN Refused(c)
    ELSE /\ Granted(c)
         /\ IF Outdated(c) /\ record[Id(Request(c))] # RecordSeen(c) THEN Conflict(c)
            ELSE IF editable THEN Proceed(c, step)
            ELSE Refused(c)

SubmitLook(c) ==
    LET r == Request(c)
        seen == Snap(c).session[r.session]
    IN  /\ At(c, "SUBMIT", "LOOK")
        /\ IF OwnedSeen(c, r.session)
           THEN LookUp(c, seen.status = "IN_PROGRESS",
                       IF seen.expiresAt <= r.at THEN "SESSION" ELSE "RESERVE")
           ELSE Refused(c)

SubmitReserve(c) == At(c, "SUBMIT", "RESERVE") /\ Reserve(c, "SESSION")

SubmitSession(c) ==
    LET r == Request(c)
        seen == Snap(c).session[r.session]
    IN  /\ At(c, "SUBMIT", "SESSION")
        /\ Lock(c, session[r.session] = seen, IF seen.expiresAt <= r.at THEN "EXPIRE" ELSE "WRITE")

SubmitExpire(c) == At(c, "SUBMIT", "EXPIRE") /\ Expire(c)

\* The sheet is compared with the draft of the snapshot; deleting that draft is
\* what fails when a save came in between.
SubmitWrite(c) ==
    LET r == Request(c)
        seen == Snap(c).draft[r.session]
        started == Practice!Later(r.at, Snap(c).session[r.session].startedAt)
        submittedAt == IF r.owner \in Guests
                       THEN Practice!Later(started, Snap(c).guest[r.owner].lastSeenAt)
                       ELSE started
    IN  /\ At(c, "SUBMIT", "WRITE")
        /\ IF seen.revision # r.revision \/ seen.answers # r.answers
           THEN Refused(c)
           ELSE IF draft[r.session] # seen
           THEN Conflict(c)
           ELSE /\ result' = [result EXCEPT ![r.session] =
                                [answers |-> r.answers, revision |-> r.revision,
                                 submittedAt |-> submittedAt]]
                /\ guest' = IF r.owner \in Guests
                            THEN [guest EXCEPT ![r.owner].lastSeenAt = submittedAt,
                                               ![r.owner].expiresAt = submittedAt + GuestRenewal]
                            ELSE guest
                /\ session' = [session EXCEPT ![r.session].status = "SUBMITTED"]
                /\ draft' = [draft EXCEPT ![r.session] = None]
                /\ Practice!Commit(Id(r), r.session,
                     [answers |-> r.answers, revision |-> r.revision, at |-> submittedAt])
                /\ Answered(c)

(* Retrying: the source is shared, so that it cannot be deleted.            *)

RetryStart(c) ==
    /\ At(c, "RETRY", "START")
    /\ Begin(c, IF Request(c).owner \in Guests THEN "GUEST" ELSE "LOOK")

RetryGuest(c) == At(c, "RETRY", "GUEST") /\ LockGuestProof(c)

RetryLook(c) == At(c, "RETRY", "LOOK") /\ LookUp(c, TRUE, "SOURCE")

\* loadLockedSource, and then what the snapshot says of the source.
RetrySource(c) ==
    LET r == Request(c)
        seen == Snap(c).result[r.source]
    IN  /\ At(c, "RETRY", "SOURCE")
        /\ IF OwnedSeen(c, r.source)
           THEN /\ Granted(c)
                /\ IF session[r.source] # Snap(c).session[r.source] THEN Conflict(c)
                   ELSE IF /\ Snap(c).session[r.source].status = "SUBMITTED"
                           /\ seen # None
                           /\ seen.answers \in Mistaken
                        THEN Proceed(c, "RESERVE")
                        ELSE Refused(c)
           ELSE Refused(c)

RetryReserve(c) == At(c, "RETRY", "RESERVE") /\ Reserve(c, "WRITE")

RetryWrite(c) ==
    LET r == Request(c)
        expiresAt == IF r.owner \in Guests
                     THEN Practice!Earlier(Snap(c).guest[r.owner].expiresAt, r.at + SessionTTL)
                     ELSE r.at + SessionTTL
    IN  /\ At(c, "RETRY", "WRITE")
        /\ Practice!Started(r.owner, r.session, r.source, r.at, expiresAt)
        /\ Practice!Commit(Id(r), r.session, [answers |-> Blank, revision |-> 0, at |-> r.at])
        /\ Answered(c)
        /\ UNCHANGED <<result, guest>>

(* Reading and cancelling look for the caller's session, and judge it as it *)
(* is once it is locked.                                                    *)

\* The guest's credential is not locked; the select of the session waits for it.
FindOwned(c) ==
    LET r == Request(c)
    IN  IF Practice!GuestProof(r.owner, r.at) /\ Practice!Owned(r.owner, r.session)
        THEN Proceed(c, "SESSION")
        ELSE Refused(c)

ReadStart(c) == At(c, "READ", "START") /\ FindOwned(c)

\* Mutant: the row is read without FOR UPDATE.
ReadSessionUnlocked(c) ==
    LET r == Request(c)
    IN  /\ At(c, "READ", "SESSION")
        /\ IF /\ Practice!Owned(r.owner, r.session)
              /\ Practice!InProgress(r.session)
              /\ session[r.session].expiresAt <= r.at
           THEN /\ Practice!Expired(r.session)
                /\ Answered(c)
                /\ UNCHANGED <<result, record, guest, committed>>
           ELSE Refused(c)

\* A read commits the expiry of a session that is due, and otherwise only answers.
ReadSession(c) ==
    LET r == Request(c)
    IN  /\ At(c, "READ", "SESSION")
        /\ Granted(c)
        /\ IF /\ Practice!Owned(r.owner, r.session)
              /\ Practice!InProgress(r.session)
              /\ session[r.session].expiresAt <= r.at
           THEN /\ Practice!Expired(r.session)
                /\ Answered(c)
                /\ UNCHANGED <<result, record, guest, committed>>
           ELSE Refused(c)

CancelStart(c) == At(c, "CANCEL", "START") /\ FindOwned(c)

CancelSession(c) ==
    LET r == Request(c)
    IN  /\ At(c, "CANCEL", "SESSION")
        /\ Granted(c)
        /\ IF Practice!Owned(r.owner, r.session) /\ Practice!InProgress(r.session)
           THEN /\ IF session[r.session].expiresAt <= r.at
                   THEN Practice!Expired(r.session)
                   ELSE Practice!CancelApplies(r.session)
                /\ Answered(c)
                /\ UNCHANGED <<result, record, guest, committed>>
           ELSE Refused(c)

(* Clearing a guest: one deletion that locks the guest, then what cascades. *)

ClearStart(c) == At(c, "CLEAR", "START") /\ Proceed(c, "CLEAR")

ClearGuest(c) ==
    /\ At(c, "CLEAR", "CLEAR")
    /\ Granted(c)
    /\ IF guest[Request(c).owner].state = "LIVE" THEN Proceed(c, "CASCADE") ELSE Refused(c)

ClearCascade(c) ==
    /\ At(c, "CLEAR", "CASCADE")
    /\ Granted(c)
    /\ Practice!ClearGuest(Request(c).owner)
    /\ Answered(c)

(* The clean-up job looks for a candidate, locks it if it is free (SKIP     *)
(* LOCKED), and deletes it if it still is one. The select that locks the    *)
(* row looks at the other rows before it has the lock, and after it only at *)
(* the row itself, when that has changed.                                   *)

\* The conditions on the locked row alone.
StillEligible(target, at) ==
    LET x == target[2]
    IN  CASE target[1] = "draft" -> session[x].status \in {"IN_PROGRESS", "EXPIRED"}
          [] target[1] = "session" -> session[x].status \in {"SUBMITTED", "EXPIRED", "CANCELLED"}
          [] target[1] = "principal" -> guest[x].state = "LIVE" /\ guest[x].expiresAt + Grace <= at
          [] target[1] = "idempotency" -> record[x] # None /\ record[x].expiresAt <= at

CleanSelect(c) ==
    /\ At(c, "CLEAN", "START")
    /\ \/ Candidates(Request(c).at) = {} /\ Refused(c)
       \/ \E target \in Candidates(Request(c).at) :
             /\ txn' = [txn EXCEPT ![c] = [txn[c] EXCEPT !.step = "CLEAN",
                                                       !.request.target = target]]
             /\ UNCHANGED <<now, rows>>

CleanLock(c) ==
    LET target == Request(c).target
    IN  /\ At(c, "CLEAN", "CLEAN")
        /\ IF StillEligible(target, Request(c).at) /\ Free(CleanLocks(target))
           THEN Take(c, CleanLocks(target), "WRITE")
           ELSE Refused(c)

CleanWrite(c) ==
    LET target == Request(c).target
        x == target[2]
    IN  /\ At(c, "CLEAN", "WRITE")
        /\ Granted(c)
        /\ \/ /\ target[1] = "draft"
              /\ session' = [session EXCEPT ![x].status = "EXPIRED"]
              /\ draft' = [draft EXCEPT ![x] = None]
              /\ UNCHANGED <<result, record, guest, committed>>
              /\ Answered(c)
           \/ /\ target[1] # "draft"
              /\ target \notin Candidates(Request(c).at)
              /\ Refused(c)
           \/ /\ target \in Candidates(Request(c).at)
              /\ \/ target[1] = "session" /\ Practice!CleanSession(x)
                 \/ target[1] = "principal" /\ Practice!CleanPrincipal(x)
                 \/ target[1] = "idempotency" /\ Practice!CleanRecord(x)
              /\ Answered(c)

----------------------------------------------------------------------------
Tick ==
    /\ now < MaxTime
    /\ \A c \in Calls : Active(c) => now < Request(c).at + MaxLag
    /\ now' = now + 1
    /\ UNCHANGED <<rows, txn>>

\* The calls in a circle of waits: every member waits for one and is waited for.
Deadlocked ==
    LET waiting == {c \in Calls : ~Granted(c)}
        Circle(D) == \A c \in D : (\E d \in D : Waits(c, d)) /\ (\E d \in D : Waits(d, c))
    IN  UNION {D \in SUBSET waiting : Circle(D)}

\* PostgreSQL aborts one of them. Only Serializable transactions are tried again.
DeadlockDetected(c) ==
    /\ c \in Deadlocked
    /\ IF Request(c).kind \in {"CREATE", "SAVE", "SUBMIT", "RETRY"} THEN Conflict(c) ELSE Refused(c)

Serve(c) ==
    \/ CreateStart(c) \/ CreateGuest(c) \/ CreateWrite(c)
    \/ SaveStart(c) \/ SaveSession(c) \/ SaveLook(c) \/ SaveExpire(c) \/ SaveReserve(c) \/ SaveWrite(c)
    \/ SubmitStart(c) \/ SubmitGuest(c) \/ SubmitLook(c) \/ SubmitReserve(c) \/ SubmitSession(c)
    \/ SubmitExpire(c) \/ SubmitWrite(c)
    \/ RetryStart(c) \/ RetryGuest(c) \/ RetryLook(c) \/ RetrySource(c) \/ RetryReserve(c) \/ RetryWrite(c)
    \/ ReadStart(c) \/ ReadSession(c) \/ CancelStart(c) \/ CancelSession(c)
    \/ ClearStart(c) \/ ClearGuest(c) \/ ClearCascade(c)
    \/ CleanSelect(c) \/ CleanLock(c) \/ CleanWrite(c)
    \/ DeadlockDetected(c)

Next == Tick \/ \E c \in Calls : ClientArrives(c) \/ BatchStarts(c) \/ Serve(c)

Spec == Init /\ [][Next]_vars

\* The server and the database keep working on every call they have begun.
FairSpec == Spec /\ \A c \in Calls : WF_vars(Serve(c))

----------------------------------------------------------------------------
(* Properties.                                                              *)

\* A transaction is at one of the handlers' steps, within its attempts, and holds
\* locks only while it runs.
TypeOK ==
    \A c \in Calls :
        /\ txn[c].step \in {"NONE", "START", "GUEST", "SESSION", "SOURCE", "LOOK", "EXPIRE",
                            "RESERVE", "WRITE", "CLEAR", "CASCADE", "CLEAN", "ANSWERED",
                            "UNAVAILABLE"}
        /\ txn[c].attempt \in 0..MaxAttempts
        /\ txn[c].locks # {} => Active(c) /\ txn[c].step # "START"

\* Whatever the interleaving, the committed rows change as if each handler had run
\* alone: every transaction is one step of StudyPractice or none.
Atomic == Practice!Spec

\* Transactions wait for each other in a circle only when a guest is cleared or the
\* clean-up job deletes: a deletion locks a guest before its sessions, a save locks
\* its session before it shares the guest; a deletion locks a session before its
\* records, a retry locks an outdated record before it shares its source. All the
\* other handlers take their locks in one order.
OnlyDeletionsDeadlock ==
    Deadlocked # {} => \E c \in Deadlocked : Request(c).kind \in {"CLEAR", "CLEAN"}

\* Every call is answered, if only that the service is unavailable: no circle of
\* waits and no run of conflicts lasts.
EveryCallAnswered ==
    \A c \in Calls : Active(c) ~> txn[c].step \in {"ANSWERED", "UNAVAILABLE"}
=============================================================================
