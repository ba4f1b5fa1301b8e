------------------------- MODULE QuestionLifecycle -------------------------
(***************************************************************************)
(* The life of a question and its versions under the commands of several   *)
(* administrators: apps/api/src/admin/adminQuestionCommandRepository.ts,   *)
(* adminOperationAuthority.ts, adminOperationArm.ts, and the erasure of an *)
(* author (auth/accountErasureAuthority.ts).                               *)
(*                                                                         *)
(* A command names the row versions its administrator has seen. It reads   *)
(* its target before the transaction; the transaction locks the users that *)
(* are involved and the session (begin), then the target, which must not   *)
(* have changed (arm), writes, checks the authority once more and commits  *)
(* (finish). Duplicates of another question, tags and the text of reviews  *)
(* are left out. The constraints of the database are no guards here: that  *)
(* they are never needed is a property.                                    *)
(***************************************************************************)
EXTENDS Naturals, FiniteSets

CONSTANTS
    Admins,
    Contents,           \* what a version may say
    MaxVersions,        \* bound on versions of the question
    MaxQuestionRow,     \* bound on row versions of the question
    MaxVersionRow,      \* bound on row versions of a version
    None

ASSUME BoundsAssumption == {MaxVersions, MaxQuestionRow, MaxVersionRow} \subseteq Nat \ {0}
ASSUME NoneAssumption == None \notin Admins \cup Contents \cup Nat

VARIABLES
    rows,       \* the Question row and its QuestionVersion rows
    admin,      \* the session of each administrator
    cmd         \* the command of each administrator
vars == <<rows, admin, cmd>>

Numbers == 1..MaxVersions
Open == {"DRAFT", "IN_REVIEW", "CHANGES_REQUESTED", "APPROVED"}
Statuses == Open \cup {"PUBLISHED", "RETIRED"}
Question == [lifecycleStatus : {"ACTIVE", "ARCHIVED"}, rowVersion : 1..(MaxQuestionRow + 1),
             author : Admins \cup {None}, current : Numbers \cup {None}]
\* The approval with what its administrator had on the page, for the properties.
Version == [status : Statuses, rowVersion : 1..(MaxVersionRow + 1), author : Admins \cup {None},
            content : Contents, approver : Admins \cup {None}, approved : Contents \cup {None}]
Rows == [question : Question \cup {None}, version : [Numbers -> Version \cup {None}]]

Editable == {"DRAFT", "CHANGES_REQUESTED"}
\* transitionConfigByOperation
Transition ==
    [REVIEW_REQUEST      |-> [from |-> Editable,      to |-> "IN_REVIEW"],
     CHANGE_REQUEST      |-> [from |-> {"IN_REVIEW"}, to |-> "CHANGES_REQUESTED"],
     APPROVAL            |-> [from |-> {"IN_REVIEW"}, to |-> "APPROVED"],
     APPROVAL_WITHDRAWAL |-> [from |-> {"APPROVED"},  to |-> "CHANGES_REQUESTED"]]
Transitions == DOMAIN Transition
OnVersion == Transitions \cup {"QUESTION_VERSION_UPDATE", "PUBLICATION", "RETIREMENT"}
Kinds == OnVersion \cup {"QUESTION_CREATE", "QUESTION_VERSION_CREATE", "QUESTION_ARCHIVE"}
Writing == {"QUESTION_VERSION_CREATE", "QUESTION_VERSION_UPDATE"}
FreshCommands == {"APPROVAL", "APPROVAL_WITHDRAWAL", "PUBLICATION", "RETIREMENT", "QUESTION_ARCHIVE"}

Command == [stage : {"VIEWED"}, seen : Rows]
           \cup [stage : {"SENT", "ARMED"}, kind : Kinds, number : Numbers \cup {None},
                 content : Contents \cup {None}, shown : Contents \cup {None}, target : Rows,
                 users : SUBSET Admins]
AdminStates == {"FRESH", "ACTIVE", "OUT", "DELETION_PENDING", "ERASED"}

ASSUME RowsAssumption ==
    /\ None \notin Question
    /\ None \notin Version
    /\ None \notin Command

Init ==
    /\ rows = [question |-> None, version |-> [n \in Numbers |-> None]]
    /\ admin = [a \in Admins |-> "OUT"]
    /\ cmd = [a \in Admins |-> None]

-----------------------------------------------------------------------------
(* What a command reads and locks. *)

Existing(R) == {n \in Numbers : R.version[n] # None}
Candidates(R) == {n \in Existing(R) : R.version[n].status \in Open}
\* loadLifecycleVersions
Aggregate(R) == Candidates(R) \cup ({R.question.current} \ {None})

\* The version rows a command compares.
Manifest(kind, n, R) ==
    CASE kind \in {"QUESTION_CREATE", "QUESTION_VERSION_CREATE"} -> {}
      [] kind \in {"PUBLICATION", "QUESTION_ARCHIVE"} -> Aggregate(R)
      [] OTHER -> {n}

\* Mutant: the administrator is locked only as an author.
UsersOfTarget(a, kind, n, R) ==
    IF kind = "QUESTION_CREATE" THEN {a}
    ELSE ({R.question.author} \cup {R.version[m].author : m \in Manifest(kind, n, R)}) \ {None}

\* The users it locks: the administrator, the authors, and the approver where it matters.
Users(a, kind, n, R) ==
    (({a} \cup (IF kind = "QUESTION_CREATE" THEN {} ELSE {R.question.author})
          \cup {R.version[m].author : m \in Manifest(kind, n, R)}
          \cup (IF kind \in {"APPROVAL_WITHDRAWAL", "PUBLICATION"}
                THEN {R.version[n].approver} ELSE {})) \ {None})

LockedUsers == UNION {cmd[a].users : a \in {b \in Admins : cmd[b] # None /\ cmd[b].stage # "VIEWED"}}
QuestionLocked == \E a \in Admins : cmd[a] # None /\ cmd[a].stage = "ARMED"

Authorised(a) ==
    admin[a] \in IF cmd[a].kind \in FreshCommands THEN {"FRESH"} ELSE {"FRESH", "ACTIVE"}

-----------------------------------------------------------------------------
(* A command. *)

\* The page of the question.
View(a) ==
    /\ cmd[a] = None
    /\ admin[a] \in {"FRESH", "ACTIVE"}
    /\ rows.question # None
    /\ cmd' = [cmd EXCEPT ![a] = [stage |-> "VIEWED", seen |-> rows]]
    /\ UNCHANGED <<rows, admin>>

\* The row versions that the request expects are those of the target. A batch of
\* publications takes that of the question from the target itself.
SameRow(x, y) == x.rowVersion = y.rowVersion
Expected(kind, n, seen) ==
    /\ kind \in {"QUESTION_VERSION_CREATE", "RETIREMENT", "QUESTION_ARCHIVE"}
          => SameRow(seen.question, rows.question)
    /\ kind \in OnVersion => SameRow(seen.version[n], rows.version[n])
    /\ kind = "QUESTION_ARCHIVE" =>
          /\ Candidates(rows) = Candidates(seen)
          /\ \A m \in Candidates(rows) : SameRow(seen.version[m], rows.version[m])

\* The rules of a command on its target.
Allowed(a, kind, n, R) ==
    LET v == R.version[n] IN
    /\ R.question.lifecycleStatus = "ACTIVE"
    /\ kind = "QUESTION_VERSION_CREATE" => Candidates(R) = {}
    /\ kind = "QUESTION_VERSION_UPDATE" => v.status \in Editable /\ v.author = a
    /\ kind \in Transitions => v.status \in Transition[kind].from /\ v.author # None
    /\ kind = "REVIEW_REQUEST" => v.author = a
    /\ kind = "CHANGE_REQUEST" => v.author # a
    /\ kind = "PUBLICATION" =>
          /\ v.status = "APPROVED" /\ v.author # None
          /\ Aggregate(R) = {n} \cup ({R.question.current} \ {None})
          /\ R.question.current # None => R.version[R.question.current].status = "PUBLISHED"
    /\ kind = "RETIREMENT" => R.question.current = n /\ v.status = "PUBLISHED"
    /\ kind = "QUESTION_ARCHIVE" => Cardinality(Candidates(R)) <= 1

Sent(a, kind, n, content, shown) ==
    [stage |-> "SENT", kind |-> kind, number |-> n, content |-> content, shown |-> shown,
     target |-> rows, users |-> {}]

\* The target is read; a request that expects other row versions or breaks a rule is
\* refused (publications, retirements and archivings are refused later, with no other effect).
Send(a, kind, n, content) ==
    /\ cmd[a] # None
    /\ cmd[a].stage = "VIEWED"
    /\ admin[a] \in {"FRESH", "ACTIVE"}
    /\ n # None => cmd[a].seen.version[n] # None
    /\ cmd' = [cmd EXCEPT ![a] =
                 IF Expected(kind, n, cmd[a].seen) /\ Allowed(a, kind, n, rows)
                 THEN Sent(a, kind, n, content,
                           IF n = None THEN None ELSE cmd[a].seen.version[n].content)
                 ELSE None]
    /\ UNCHANGED <<rows, admin>>

\* Each creation makes a question of its own: the model follows one.
SendCreate(a, content) ==
    /\ \A b \in Admins : cmd[b] = None
    /\ admin[a] \in {"FRESH", "ACTIVE"}
    /\ rows.question = None
    /\ cmd' = [cmd EXCEPT ![a] = Sent(a, "QUESTION_CREATE", None, content, None)]
    /\ UNCHANGED <<rows, admin>>

\* Mutant: only the row version of the question is compared.
UnchangedQuestion(c) == c.kind # "QUESTION_CREATE" => SameRow(rows.question, c.target.question)

\* armAdminOperation: the locked rows are those of the target, and the open versions too.
Unchanged(c) ==
    /\ c.kind # "QUESTION_CREATE" =>
          /\ SameRow(rows.question, c.target.question)
          /\ rows.question.lifecycleStatus = c.target.question.lifecycleStatus
    /\ \A m \in Manifest(c.kind, c.number, c.target) :
          /\ SameRow(rows.version[m], c.target.version[m])
          /\ rows.version[m].status = c.target.version[m].status
    /\ c.kind = "QUESTION_VERSION_CREATE" => Candidates(rows) = {}
    /\ c.kind = "QUESTION_ARCHIVE" => Aggregate(rows) = Aggregate(c.target)

Bounded(c) == /\ c.kind \notin Transitions \cup {"QUESTION_CREATE", "QUESTION_VERSION_UPDATE"}
                    => rows.question.rowVersion < MaxQuestionRow
              /\ \A m \in Manifest(c.kind, c.number, rows) : rows.version[m].rowVersion < MaxVersionRow
              /\ c.kind = "QUESTION_VERSION_CREATE" => Existing(c.target) # Numbers

\* The users are locked once nobody else holds them, then the rows of the target.
BeginAndArm(a) ==
    /\ cmd[a] # None
    /\ cmd[a].stage = "SENT"
    /\ LET c == cmd[a]
           users == Users(a, c.kind, c.number, c.target) IN
       /\ users \cap LockedUsers = {}
       /\ ~QuestionLocked
       /\ cmd' = [cmd EXCEPT ![a] =
                    IF /\ \A u \in users : admin[u] # "ERASED"
                       /\ Authorised(a)
                       /\ Unchanged(c)
                       /\ Users(a, c.kind, c.number, rows) = users
                       /\ Bounded(c)
                    THEN [c EXCEPT !.stage = "ARMED", !.users = users]
                    ELSE None]
    /\ UNCHANGED <<rows, admin>>

\* Any error, a serialization failure or a lost connection rolls the command back.
Fail(a) ==
    /\ cmd[a] # None
    /\ cmd' = [cmd EXCEPT ![a] = None]
    /\ UNCHANGED <<rows, admin>>

-----------------------------------------------------------------------------
(* The writes, and finishAdminOperation. They rest on the rows of the target. *)

NextRow(row) == row.rowVersion + 1
Draft(a, content) == [status |-> "DRAFT", rowVersion |-> 1, author |-> a, content |-> content,
                      approver |-> None, approved |-> None]
RetiredRow(v) == [v EXCEPT !.status = "RETIRED", !.rowVersion = NextRow(v)]

CreateQuestion(a, c) ==
    [question |-> [lifecycleStatus |-> "ACTIVE", rowVersion |-> 1, author |-> a, current |-> None],
     version |-> [rows.version EXCEPT ![1] = Draft(a, c.content)]]

CreateVersion(a, c) ==
    [question |-> [rows.question EXCEPT !.rowVersion = NextRow(c.target.question)],
     version |-> [rows.version EXCEPT ![Cardinality(Existing(c.target)) + 1] = Draft(a, c.content)]]

UpdateVersion(a, c) ==
    [rows EXCEPT !.version[c.number] =
        [@ EXCEPT !.content = c.content, !.rowVersion = NextRow(c.target.version[c.number])]]

TransitionVersion(a, c) ==
    LET v == rows.version[c.number] IN
    [rows EXCEPT !.version[c.number] =
        [v EXCEPT !.status = Transition[c.kind].to,
                  !.rowVersion = NextRow(c.target.version[c.number]),
                  !.approver = IF c.kind = "APPROVAL" THEN a ELSE v.approver,
                  !.approved = IF c.kind = "APPROVAL" THEN c.shown ELSE v.approved]]

PublishVersion(a, c) ==
    LET old == c.target.question.current IN
    [question |-> [rows.question EXCEPT !.current = c.number, !.rowVersion = NextRow(c.target.question)],
     version |-> [m \in Numbers |->
        IF m = c.number THEN [rows.version[m] EXCEPT !.status = "PUBLISHED",
                                                     !.rowVersion = NextRow(c.target.version[m])]
        ELSE IF m = old THEN RetiredRow(rows.version[m])
        ELSE rows.version[m]]]

RetireVersion(a, c) ==
    [question |-> [rows.question EXCEPT !.current = None, !.rowVersion = NextRow(c.target.question)],
     version |-> [rows.version EXCEPT ![c.number] = RetiredRow(@)]]

ArchiveQuestion(a, c) ==
    [question |-> [rows.question EXCEPT !.lifecycleStatus = "ARCHIVED", !.current = None,
                                        !.rowVersion = NextRow(c.target.question)],
     version |-> [m \in Numbers |-> IF m \in Aggregate(c.target)
                                    THEN RetiredRow(rows.version[m]) ELSE rows.version[m]]]

Written(a, c) ==
    CASE c.kind = "QUESTION_CREATE" -> CreateQuestion(a, c)
      [] c.kind = "QUESTION_VERSION_CREATE" -> CreateVersion(a, c)
      [] c.kind = "QUESTION_VERSION_UPDATE" -> UpdateVersion(a, c)
      [] c.kind \in Transitions -> TransitionVersion(a, c)
      [] c.kind = "PUBLICATION" -> PublishVersion(a, c)
      [] c.kind = "RETIREMENT" -> RetireVersion(a, c)
      [] c.kind = "QUESTION_ARCHIVE" -> ArchiveQuestion(a, c)

\* Mutant: the authority is looked at only when the command begins.
FinishUnchecked(a) ==
    /\ cmd[a] # None
    /\ cmd[a].stage = "ARMED"
    /\ rows' = Written(a, cmd[a])
    /\ cmd' = [cmd EXCEPT ![a] = None]
    /\ UNCHANGED admin

Finish(a) ==
    /\ cmd[a] # None
    /\ cmd[a].stage = "ARMED"
    /\ rows' = IF Authorised(a) THEN Written(a, cmd[a]) ELSE rows
    /\ cmd' = [cmd EXCEPT ![a] = None]
    /\ UNCHANGED admin

-----------------------------------------------------------------------------
(* Sessions. *)

\* Time works on a session while a command has locked it; a sign-out, a revocation has the
\* effect of the second, but waits for the lock.
Age(a) ==
    /\ \/ admin[a] = "FRESH" /\ admin' = [admin EXCEPT ![a] = "ACTIVE"]
       \/ admin[a] \in {"FRESH", "ACTIVE"} /\ admin' = [admin EXCEPT ![a] = "OUT"]
    /\ UNCHANGED <<rows, cmd>>

\* A sign-in, or the session that replaces this one when it is confirmed. A command of the
\* session before can only fail after that, so that it has failed already.
SignIn(a) ==
    /\ admin[a] \in {"ACTIVE", "OUT"}
    /\ cmd[a] # None => cmd[a].stage = "VIEWED"
    /\ admin' = [admin EXCEPT ![a] = "FRESH"]
    /\ UNCHANGED <<rows, cmd>>

\* Mutant: only drafts are asked for.
HasDraft(u) == \E n \in Existing(rows) : rows.version[n].author = u /\ rows.version[n].status = "DRAFT"

HasOpen(u) == \E n \in Candidates(rows) : rows.version[n].author = u

\* requestSsoAccountErasure: refused as long as the user is the author of an open version.
RequestErasure(u) ==
    /\ admin[u] \in {"FRESH", "ACTIVE"}
    /\ u \notin LockedUsers
    /\ ~HasOpen(u)
    /\ admin' = [admin EXCEPT ![u] = "DELETION_PENDING"]
    /\ UNCHANGED <<rows, cmd>>

\* tombstoneErasedUser: open versions of the author are retired, every row of the author
\* and the question of a version retired here gets a new row version.
ErasedRows(u, R) ==
    LET mine == {n \in Existing(R) : R.version[n].author = u} IN
    [question |-> IF R.question = None THEN None
                  ELSE IF R.question.author = u \/ mine \cap Candidates(R) # {}
                  THEN [R.question EXCEPT !.author = IF @ = u THEN None ELSE @, !.rowVersion = @ + 1]
                  ELSE R.question,
     version |-> [n \in Numbers |->
        IF R.version[n] = None THEN None
        ELSE LET v == [R.version[n] EXCEPT !.approver = IF @ = u THEN None ELSE @] IN
             IF n \notin mine THEN v
             ELSE [v EXCEPT !.status = IF @ \in Open THEN "RETIRED" ELSE @,
                            !.rowVersion = @ + 1, !.author = None]]]

\* eraseConfirmedUser, when the providers are cleaned up.
Erase(u) ==
    /\ admin[u] = "DELETION_PENDING"
    /\ u \notin LockedUsers
    /\ rows # ErasedRows(u, rows) => ~QuestionLocked
    /\ rows.question # None => rows.question.rowVersion <= MaxQuestionRow
    /\ rows' = ErasedRows(u, rows)
    /\ admin' = [admin EXCEPT ![u] = "ERASED"]
    /\ UNCHANGED cmd

Next ==
    \E a \in Admins :
        \/ View(a) \/ BeginAndArm(a) \/ Finish(a) \/ Fail(a)
        \/ Age(a) \/ SignIn(a) \/ RequestErasure(a) \/ Erase(a)
        \/ \E content \in Contents : SendCreate(a, content)
        \/ \E kind \in Kinds \ {"QUESTION_CREATE"} :
              \E n \in IF kind \in OnVersion THEN Numbers ELSE {None} :
              \E content \in IF kind \in Writing THEN Contents ELSE {None} :
                 Send(a, kind, n, content)

Spec == Init /\ [][Next]_vars

-----------------------------------------------------------------------------
(* Properties. *)

TypeOK ==
    /\ rows \in Rows
    /\ admin \in [Admins -> AdminStates]
    /\ cmd \in [Admins -> {None} \cup Command]
    /\ \A a \in Admins : cmd[a] # None /\ cmd[a].stage = "ARMED" => a \in cmd[a].users

\* Commands and erasures never rest on the checks of the database (validate_question_aggregate
\* and the two partial unique indexes): one open candidate at most, one published version at
\* most, which is the one the question points at, none of either once the question is
\* archived, versions numbered without a gap, the first by the author of the question. And
\* no open candidate is left by an author who has gone or is going: nobody else may edit it
\* or take it to review (requestSsoAccountErasure against the commands under way).
AggregateConsistent ==
    LET versions == Existing(rows)
        published == {n \in versions : rows.version[n].status = "PUBLISHED"} IN
    rows.question # None =>
        /\ versions = 1..Cardinality(versions) /\ versions # {}
        /\ Cardinality(Candidates(rows)) <= 1
        /\ published = {rows.question.current} \ {None}
        /\ rows.question.lifecycleStatus = "ARCHIVED" => Candidates(rows) \cup published = {}
        /\ rows.version[1].author = rows.question.author
        /\ \A n \in Candidates(rows) : /\ rows.version[n].author # None
                                        /\ admin[rows.version[n].author] # "DELETION_PENDING"

\* What is approved or published is what the approving administrator had on the page,
\* whatever the author edits and the others decide in the meantime.
PublishedAsApproved ==
    \A n \in Existing(rows) : rows.version[n].status \in {"APPROVED", "PUBLISHED"} =>
        rows.version[n].approved = rows.version[n].content

\* A question changes only by a command whose own session is active, and fresh where the
\* command demands it, at the very commit, or by the erasure of somebody involved in it.
AuthorityAtCommit ==
    [][rows' # rows =>
          \/ \E a \in Admins : /\ cmd[a] # None /\ cmd'[a] = None
                               /\ Authorised(a)
          \/ \E u \in Admins : admin[u] # "ERASED" /\ admin'[u] = "ERASED"]_vars
=============================================================================
